--------------------------- MODULE FileStoreProofs ---------------------------
(***************************************************************************)
(* Proofs about FileStore.  Every action works on the tables that          *)
(* sync_generation leaves, deletes rows that have expired, and then adds   *)
(* or changes one row.  So the lemmas are about tables: what is good about *)
(* a pair of tables, and that each way to change them keeps it.            *)
(*                                                                         *)
(* The second half is about what the rows hold: how the chunks of an       *)
(* upload lie in it, what a read makes of them, and what all uploads add   *)
(* up to.                                                                  *)
(***************************************************************************)
EXTENDS FileStore, OrderedProofs, TLAPS

----------------------------------------------------------------------------
(* Tables.                                                                 *)

Typed(U, C) ==
  /\ \A id \in DOMAIN U : IsUpload(U[id])
  /\ \A c \in DOMAIN C : IsSelection(C[c])

OfGeneration(U, C, g) ==
  /\ \A id \in DOMAIN U : U[id].gen = g
  /\ \A c \in DOMAIN C : C[c].gen = g

(* Selection s and its members in U: they are there, finished, of the      *)
(* files it promises, and stay at least as long.                           *)
Outlived(U, s) ==
  \A i \in DOMAIN s.uploads :
    LET u == U[s.uploads[i]]
    IN  /\ s.uploads[i] \in DOMAIN U
        /\ u.complete
        /\ u.file = s.manifest[i]
        /\ u.expires >= s.expires

MembersOutlive(U, C) == \A c \in DOMAIN C : Outlived(U, C[c])

(* What is finished has the content its descriptor names.                  *)
FinishedIsWhole(U) == \A id \in DOMAIN U : U[id].complete => Bytes(U[id]) = U[id].file.hash

Good(U, C, g) ==
  /\ Typed(U, C)
  /\ OfGeneration(U, C, g)
  /\ MembersOutlive(U, C)
  /\ FinishedIsWhole(U)

----------------------------------------------------------------------------

(* What EXCEPT makes of an upload.                                         *)
LEMMA UploadFinished ==
  ASSUME NEW u, IsUpload(u), NEW x
  PROVE  [u EXCEPT !.complete = x]
           = [peer |-> u.peer, file |-> u.file, received |-> u.received, complete |-> x,
              expires |-> u.expires, chunks |-> u.chunks, gen |-> u.gen]
BY DEF IsUpload

LEMMA UploadContinued ==
  ASSUME NEW u, IsUpload(u), NEW x, NEW y
  PROVE  [u EXCEPT !.received = x, !.chunks = y]
           = [peer |-> u.peer, file |-> u.file, received |-> x, complete |-> u.complete,
              expires |-> u.expires, chunks |-> y, gen |-> u.gen]
<1>1. u = [peer |-> u.peer, file |-> u.file, received |-> u.received,
           complete |-> u.complete, expires |-> u.expires, chunks |-> u.chunks, gen |-> u.gen]
  BY DEF IsUpload
<1>2. [u EXCEPT !.received = x]
        = [peer |-> u.peer, file |-> u.file, received |-> x, complete |-> u.complete,
           expires |-> u.expires, chunks |-> u.chunks, gen |-> u.gen]
  BY <1>1
<1>3. [u EXCEPT !.received = x, !.chunks = y] = [[u EXCEPT !.received = x] EXCEPT !.chunks = y]
  BY <1>1
<1>4. ASSUME NEW v,
             v = [peer |-> u.peer, file |-> u.file, received |-> x, complete |-> u.complete,
                  expires |-> u.expires, chunks |-> u.chunks, gen |-> u.gen]
      PROVE  [v EXCEPT !.chunks = y]
               = [peer |-> u.peer, file |-> u.file, received |-> x, complete |-> u.complete,
                  expires |-> u.expires, chunks |-> y, gen |-> u.gen]
  BY <1>4
<1> QED BY <1>2, <1>3, <1>4

(* Two uploads with the same chunks hold the same bytes.                   *)
LEMMA SameChunks ==
  ASSUME NEW u, NEW v, u.chunks = v.chunks
  PROVE  Bytes(u) = Bytes(v)
BY DEF Bytes

(* Empty tables are good, for any generation.                              *)
LEMMA EmptyIsGood == ASSUME NEW g PROVE Good(NoRows, NoRows, g)
BY DEF Good, Typed, OfGeneration, MembersOutlive, FinishedIsWhole, NoRows

(* Deleting what has expired leaves no selection without its members: a    *)
(* member expires no earlier than the selection.                           *)
LEMMA ExpiryIsGood ==
  ASSUME NEW U, NEW C, NEW g, NEW now \in 0..ClockMax + Retention, Good(U, C, g)
  PROVE  /\ Good(Unexpired(U, now), Unexpired(C, now), g)
         /\ Deletable(C, U, now)
<1> DEFINE V == Unexpired(U, now)
           D == Unexpired(C, now)
<1>1. /\ DOMAIN V = {id \in DOMAIN U : U[id].expires > now}
      /\ \A id \in DOMAIN V : V[id] = U[id]
      /\ DOMAIN D = {c \in DOMAIN C : C[c].expires > now}
      /\ \A c \in DOMAIN D : D[c] = C[c]
  BY DEF Unexpired, Restrict
<1>2. ASSUME NEW c \in DOMAIN D PROVE Outlived(V, D[c])
  <2>1. Outlived(U, C[c]) /\ C[c].expires > now /\ IsSelection(C[c])
    BY <1>1, <1>2 DEF Good, MembersOutlive, Typed
  <2>2. ASSUME NEW i \in DOMAIN C[c].uploads PROVE C[c].uploads[i] \in DOMAIN V
    <3>1. C[c].uploads[i] \in DOMAIN U /\ U[C[c].uploads[i]].expires >= C[c].expires
      BY <2>1, <2>2 DEF Outlived
    <3>2. IsUpload(U[C[c].uploads[i]])
      BY <3>1 DEF Good, Typed
    <3>3. U[C[c].uploads[i]].expires \in Int /\ C[c].expires \in Int /\ now \in Int
      BY <3>2, <2>1, FileStoreAssumption DEF IsUpload, IsSelection
    <3> QED BY <3>1, <3>3, <2>1, <1>1
  <2> QED BY <1>1, <2>1, <2>2 DEF Outlived
<1>3. Good(V, D, g)
  <2>1. Typed(V, D) /\ OfGeneration(V, D, g)
    BY <1>1 DEF Good, Typed, OfGeneration
  <2>2. FinishedIsWhole(V)
    BY <1>1 DEF Good, FinishedIsWhole
  <2> QED BY <2>1, <2>2, <1>2 DEF Good, MembersOutlive
<1>4. Deletable(C, U, now)
  <2>1. ASSUME NEW id \in Members(D) PROVE id \in DOMAIN V
    <3>1. PICK c \in DOMAIN D : id \in Range(D[c].uploads)
      BY DEF Members
    <3>2. PICK i \in DOMAIN D[c].uploads : id = D[c].uploads[i]
      BY <3>1 DEF Range
    <3> QED BY <1>2, <3>2 DEF Outlived
  <2> QED BY <2>1 DEF Deletable
<1> QED BY <1>3, <1>4

(* Putting in an unfinished upload under a new id.                         *)
LEMMA NewUploadIsGood ==
  ASSUME NEW U, NEW C, NEW g, NEW id, NEW row, Good(U, C, g), id \notin DOMAIN U,
         IsUpload(row), row.gen = g, row.complete = FALSE
  PROVE  Good(With(U, id, row), C, g)
<1> DEFINE V == With(U, id, row)
<1>1. /\ DOMAIN V = DOMAIN U \cup {id}
      /\ V[id] = row
      /\ \A i \in DOMAIN U : V[i] = U[i]
  BY DEF With
<1> HIDE DEF V
<1>2. Typed(V, C) /\ OfGeneration(V, C, g)
  BY <1>1 DEF Good, Typed, OfGeneration
<1>3. MembersOutlive(V, C)
  BY <1>1 DEF Good, MembersOutlive, Outlived
<1>4. FinishedIsWhole(V)
  BY <1>1 DEF Good, FinishedIsWhole
<1> QED BY <1>2, <1>3, <1>4 DEF Good, V

(* Changing one upload to one of the same file and generation that expires *)
(* no earlier, is finished if it was, and whole if it is finished.         *)
LEMMA ChangedUploadIsGood ==
  ASSUME NEW U, NEW C, NEW g, NEW id \in DOMAIN U, NEW row, Good(U, C, g),
         IsUpload(row), row.gen = g, row.file = U[id].file, row.expires >= U[id].expires,
         U[id].complete => row.complete,
         row.complete => Bytes(row) = row.file.hash
  PROVE  Good([U EXCEPT ![id] = row], C, g)
<1> DEFINE V == [U EXCEPT ![id] = row]
<1>1. /\ DOMAIN V = DOMAIN U
      /\ V[id] = row
      /\ \A i \in DOMAIN U : i # id => V[i] = U[i]
  OBVIOUS
<1> HIDE DEF V
<1>2. Typed(V, C) /\ OfGeneration(V, C, g)
  BY <1>1 DEF Good, Typed, OfGeneration
<1>3. FinishedIsWhole(V)
  BY <1>1 DEF Good, FinishedIsWhole
<1>4. ASSUME NEW c \in DOMAIN C, NEW i \in DOMAIN C[c].uploads
      PROVE  LET u == V[C[c].uploads[i]]
             IN  /\ C[c].uploads[i] \in DOMAIN V
                 /\ u.complete
                 /\ u.file = C[c].manifest[i]
                 /\ u.expires >= C[c].expires
  <2> DEFINE m == C[c].uploads[i]
  <2>1. /\ m \in DOMAIN U /\ U[m].complete /\ U[m].file = C[c].manifest[i]
        /\ U[m].expires >= C[c].expires
    BY <1>4 DEF Good, MembersOutlive, Outlived
  <2>2. IsUpload(U[id]) /\ IsSelection(C[c])
    BY DEF Good, Typed
  <2>3. U[id].expires \in Int /\ row.expires \in Int /\ C[c].expires \in Int
    BY <2>2, FileStoreAssumption DEF IsUpload, IsSelection
  <2>4. CASE m = id
    BY <2>1, <2>3, <2>4, <1>1
  <2>5. CASE m # id
    BY <2>1, <2>5, <1>1
  <2> QED BY <2>4, <2>5
<1>5. MembersOutlive(V, C)
  BY <1>4 DEF MembersOutlive, Outlived
<1> QED BY <1>2, <1>3, <1>5 DEF Good, V

(* Putting in a selection of finished uploads, once they have been made to *)
(* stay as long as it.                                                     *)
LEMMA NewSelectionIsGood ==
  ASSUME NEW U, NEW C, NEW g, NEW c, NEW s, NEW V, Good(U, C, g), c \notin DOMAIN C,
         IsSelection(s), s.gen = g, DOMAIN V = DOMAIN U,
         \A id \in DOMAIN U : /\ IsUpload(V[id]) /\ V[id].gen = g
                              /\ V[id].file = U[id].file
                              /\ V[id].complete = U[id].complete
                              /\ V[id].chunks = U[id].chunks
                              /\ V[id].expires >= U[id].expires,
         Outlived(V, s)
  PROVE  Good(V, With(C, c, s), g)
<1> DEFINE D == With(C, c, s)
<1>1. /\ DOMAIN D = DOMAIN C \cup {c}
      /\ D[c] = s
      /\ \A d \in DOMAIN C : D[d] = C[d]
  BY DEF With
<1> HIDE DEF D
<1>2. Typed(V, D) /\ OfGeneration(V, D, g)
  BY <1>1 DEF Good, Typed, OfGeneration
<1>3. FinishedIsWhole(V)
  <2>1. ASSUME NEW id \in DOMAIN V, V[id].complete PROVE Bytes(V[id]) = V[id].file.hash
    <3>1. Bytes(V[id]) = Bytes(U[id])
      BY SameChunks
    <3> QED BY <2>1, <3>1 DEF Good, FinishedIsWhole
  <2> QED BY <2>1 DEF FinishedIsWhole
<1>4. ASSUME NEW d \in DOMAIN C PROVE Outlived(V, C[d])
  <2> SUFFICES ASSUME NEW i \in DOMAIN C[d].uploads
               PROVE  LET u == V[C[d].uploads[i]]
                      IN  /\ C[d].uploads[i] \in DOMAIN V
                          /\ u.complete
                          /\ u.file = C[d].manifest[i]
                          /\ u.expires >= C[d].expires
    BY DEF Outlived
  <2> DEFINE m == C[d].uploads[i]
  <2>1. /\ m \in DOMAIN U /\ U[m].complete /\ U[m].file = C[d].manifest[i]
        /\ U[m].expires >= C[d].expires
    BY <1>4 DEF Good, MembersOutlive, Outlived
  <2>2. IsUpload(U[m]) /\ IsUpload(V[m]) /\ IsSelection(C[d])
    BY <2>1 DEF Good, Typed
  <2>3. U[m].expires \in Int /\ V[m].expires \in Int /\ C[d].expires \in Int
    BY <2>2, FileStoreAssumption DEF IsUpload, IsSelection
  <2> QED BY <2>1, <2>3
<1>5. MembersOutlive(V, D)
  BY <1>1, <1>4 DEF MembersOutlive
<1> QED BY <1>2, <1>3, <1>5 DEF Good, D

----------------------------------------------------------------------------
(* The inductive invariant.                                                *)

IInv ==
  /\ TypeOK
  /\ file_generation <= current_generation
  /\ Good(uploads, file_clips, file_generation)

(* What a message finds once the store has the core's generation.          *)
LEMMA SyncedIsGood ==
  ASSUME IInv
  PROVE  /\ Good(SyncedUploads, SyncedClips, current_generation)
         /\ DOMAIN SyncedUploads \subseteq issued
         /\ DOMAIN SyncedClips \subseteq ClipIds
<1>1. CASE file_generation = current_generation
  BY <1>1 DEF IInv, TypeOK, SyncedUploads, SyncedClips
<1>2. CASE file_generation # current_generation
  <2>1. DOMAIN NoRows = {}
    BY DEF NoRows
  <2> QED BY <1>2, <2>1, EmptyIsGood DEF SyncedUploads, SyncedClips
<1> QED BY <1>1, <1>2

(* A step that leaves good tables of the core's generation keeps IInv.     *)
LEMMA GoodTablesSuffice ==
  ASSUME IInv, file_generation' = current_generation,
         UNCHANGED <<current_generation, clearing>>,
         issued' \subseteq UploadIds,
         DOMAIN uploads' \subseteq issued', DOMAIN file_clips' \subseteq ClipIds,
         Good(uploads', file_clips', current_generation)
  PROVE  IInv'
<1>1. Good(uploads', file_clips', file_generation')
  OBVIOUS
<1>2. Typed(uploads', file_clips')
  BY DEF Good
<1>3. TypeOK'
  BY <1>2, FileStoreAssumption DEF IInv, TypeOK, Typed
<1>4. file_generation' <= current_generation'
  BY DEF IInv, TypeOK
<1> QED BY <1>1, <1>3, <1>4 DEF IInv

----------------------------------------------------------------------------
(* Every step keeps the inductive invariant.                               *)

LEMMA InitKeeps == Init => IInv
<1> SUFFICES ASSUME Init PROVE IInv
  OBVIOUS
<1>1. Good(uploads, file_clips, file_generation)
  BY EmptyIsGood DEF Init
<1>2. DOMAIN NoRows = {}
  BY DEF NoRows
<1>3. 0 \in 0..GenerationMax /\ 1 \in 1..GenerationMax
  BY FileStoreAssumption
<1>4. DOMAIN uploads = {} /\ DOMAIN file_clips = {}
  BY <1>2 DEF Init
<1>5. TypeOK
  BY <1>3, <1>4 DEF Init, TypeOK
<1> QED BY <1>1, <1>5 DEF IInv, Init

LEMMA SyncKeeps ==
  ASSUME IInv, SyncGeneration, UNCHANGED current_generation, clearing' \in BOOLEAN
  PROVE  IInv'
<1>1. Good(uploads', file_clips', file_generation')
  BY SyncedIsGood DEF SyncGeneration
<1>2. TypeOK'
  BY <1>1, SyncedIsGood, FileStoreAssumption DEF SyncGeneration, IInv, TypeOK, Good, Typed
<1> QED BY <1>1, <1>2 DEF IInv, TypeOK, SyncGeneration

LEMMA ExpireKeeps ==
  ASSUME IInv, NEW now \in 0..ClockMax, Expire(now)
  PROVE  IInv'
<1>1. now \in 0..ClockMax + Retention
  BY FileStoreAssumption
<1>2. Good(uploads', file_clips', file_generation')
  BY <1>1, ExpiryIsGood DEF IInv, Expire
<1>3. DOMAIN uploads' \subseteq DOMAIN uploads /\ DOMAIN file_clips' \subseteq DOMAIN file_clips
  BY DEF Expire, Unexpired, Restrict
<1>4. TypeOK'
  BY <1>2, <1>3 DEF Expire, IInv, TypeOK, Good, Typed
<1> QED BY <1>2, <1>4 DEF IInv, TypeOK, Expire

(* The times messages carry, and the expiries made of them.                *)
LEMMA Times ==
  ASSUME NEW now \in 0..ClockMax
  PROVE  now \in 0..ClockMax + Retention /\ now + Retention \in 1..ClockMax + Retention
BY FileStoreAssumption

LEMMA BeginKeeps ==
  ASSUME IInv, NEW p \in Peers, NEW f \in Files, NEW now \in 0..ClockMax, Begin(p, f, now)
  PROVE  IInv'
<1> DEFINE U == Unexpired(SyncedUploads, now)
           C == Unexpired(SyncedClips, now)
           row == [peer |-> p, file |-> f, received |-> 0, complete |-> FALSE,
                   expires |-> now + Retention, chunks |-> NoRows, gen |-> current_generation]
<1>1. PICK id \in UploadIds \ issued :
        uploads' = With(U, id, row) /\ issued' = issued \cup {id}
  BY DEF Begin
<1>2. Good(U, C, current_generation)
  BY SyncedIsGood, ExpiryIsGood, Times
<1>3. /\ DOMAIN U \subseteq issued
      /\ DOMAIN C \subseteq ClipIds
  BY SyncedIsGood DEF Unexpired, Restrict
<1>4. IsUpload(row)
  <2>1. f.size \in Nat
    BY FileStoreAssumption
  <2>2. DOMAIN NoRows = {}
    BY DEF NoRows
  <2> QED BY <2>1, <2>2, Times DEF IsUpload, IInv, TypeOK
<1>5. Good(With(U, id, row), C, current_generation)
  BY <1>1, <1>2, <1>3, <1>4, NewUploadIsGood
<1>6. DOMAIN With(U, id, row) = DOMAIN U \cup {id}
  BY DEF With
<1>7. IInv /\ issued \subseteq UploadIds
  BY DEF IInv, TypeOK
<1> QED BY <1>1, <1>3, <1>5, <1>6, <1>7, GoodTablesSuffice DEF Begin

LEMMA AppendKeeps ==
  ASSUME IInv, NEW p \in Peers, NEW id \in UploadIds, NEW bytes \in Payloads,
         NEW now \in 0..ClockMax, AppendChunk(p, id, bytes, now)
  PROVE  IInv'
<1> DEFINE U == SyncedUploads
           u == U[id]
           end == u.received + Len(bytes)
           row == [u EXCEPT !.received = end, !.chunks = With(@, u.received, bytes)]
<1>1. /\ id \in DOMAIN U /\ ~u.complete /\ end <= u.file.size
      /\ uploads' = [U EXCEPT ![id] = row]
  BY DEF AppendChunk, Own, FitsFile
<1>2. Good(U, SyncedClips, current_generation) /\ IsUpload(u) /\ u.gen = current_generation
  BY <1>1, SyncedIsGood DEF Good, Typed, OfGeneration
<1>3. Len(bytes) \in Nat /\ u.received \in Nat /\ u.file.size \in Nat /\ u.expires \in Int
  <2>1. Len(bytes) \in Nat
    BY FileStoreAssumption
  <2> QED BY <1>2, <2>1, FileStoreAssumption DEF IsUpload
<1>4. row = [peer |-> u.peer, file |-> u.file, received |-> end, complete |-> u.complete,
             expires |-> u.expires, chunks |-> With(u.chunks, u.received, bytes), gen |-> u.gen]
  BY <1>2, UploadContinued
<1>5. ASSUME NEW o \in DOMAIN row.chunks PROVE o \in Nat /\ row.chunks[o] \in Payloads
  BY <1>2, <1>3, <1>4 DEF With, IsUpload
<1>6. IsUpload(row)
  <2>1. end \in 0..u.file.size
    BY <1>1, <1>3
  <2> HIDE DEF end, row
  <2> QED BY <1>2, <1>4, <1>5, <2>1 DEF IsUpload
<1>7. Good([U EXCEPT ![id] = row], SyncedClips, current_generation)
  <2>1. /\ row.gen = current_generation /\ row.file = u.file /\ row.expires >= u.expires
        /\ ~row.complete
    BY <1>1, <1>2, <1>3, <1>4
  <2> HIDE DEF row
  <2> QED BY <1>1, <1>2, <1>6, <2>1, ChangedUploadIsGood
<1>8. DOMAIN uploads' = DOMAIN U
  BY <1>1
<1> QED
  <2>1. IInv /\ issued \subseteq UploadIds
    BY DEF IInv, TypeOK
  <2> HIDE DEF row
  <2> QED BY <1>1, <1>7, <1>8, <2>1, SyncedIsGood, GoodTablesSuffice DEF AppendChunk

LEMMA FinishKeeps ==
  ASSUME IInv, NEW p \in Peers, NEW id \in UploadIds, NEW now \in 0..ClockMax,
         Finish(p, id, now)
  PROVE  IInv'
<1> DEFINE U == SyncedUploads
           u == U[id]
           row == [u EXCEPT !.complete = TRUE]
<1>1. /\ id \in DOMAIN U /\ Bytes(u) = u.file.hash
      /\ uploads' = [U EXCEPT ![id] = row]
  BY DEF Finish, Own
<1>2. Good(U, SyncedClips, current_generation) /\ IsUpload(u) /\ u.gen = current_generation
  BY <1>1, SyncedIsGood DEF Good, Typed, OfGeneration
<1>3. row = [peer |-> u.peer, file |-> u.file, received |-> u.received, complete |-> TRUE,
             expires |-> u.expires, chunks |-> u.chunks, gen |-> u.gen]
  BY <1>2, UploadFinished
<1>4. u.expires \in Int
  BY <1>2, FileStoreAssumption DEF IsUpload
<1>5. IsUpload(row)
  BY <1>2, <1>3 DEF IsUpload
<1>6. Bytes(row) = row.file.hash
  BY <1>1, <1>3, SameChunks
<1>7. Good([U EXCEPT ![id] = row], SyncedClips, current_generation)
  <2>1. /\ row.gen = current_generation /\ row.file = u.file /\ row.expires >= u.expires
        /\ row.complete
    BY <1>2, <1>3, <1>4
  <2> HIDE DEF row
  <2> QED BY <1>1, <1>2, <1>5, <1>6, <2>1, ChangedUploadIsGood
<1>8. DOMAIN uploads' = DOMAIN U
  BY <1>1
<1> QED
  <2>1. IInv /\ issued \subseteq UploadIds
    BY DEF IInv, TypeOK
  <2> HIDE DEF row
  <2> QED BY <1>1, <1>7, <1>8, <2>1, SyncedIsGood, GoodTablesSuffice DEF Finish

LEMMA PublishKeeps ==
  ASSUME IInv, NEW p \in Peers, NEW clip \in ClipIds, NEW n \in 1..MembersMax,
         NEW members \in [1..n -> UploadIds], NEW now \in 0..ClockMax,
         Publish(p, clip, members, now)
  PROVE  IInv'
<1> DEFINE U == SyncedUploads
           e == now + Retention
           V == [id \in DOMAIN U |->
                  IF id \in Range(members) THEN [U[id] EXCEPT !.expires = ExpiresWith(U[id], e)]
                  ELSE U[id]]
           s == [peer |-> p, expires |-> e, uploads |-> members,
                 manifest |-> [i \in DOMAIN members |-> U[members[i]].file],
                 gen |-> current_generation]
<1>1. /\ clip \notin DOMAIN SyncedClips
      /\ uploads' = V
      /\ file_clips' = With(SyncedClips, clip, s)
      /\ \A i \in DOMAIN members : members[i] \in DOMAIN U /\ U[members[i]].complete
  BY DEF Publish, Publishable, Own
<1>2. Good(U, SyncedClips, current_generation)
  BY SyncedIsGood
<1>3. e \in 1..ClockMax + Retention /\ e \in Int
  BY Times, FileStoreAssumption
<1>4. ASSUME NEW id \in DOMAIN U
      PROVE  /\ ExpiresWith(U[id], e) \in 1..ClockMax + Retention
             /\ ExpiresWith(U[id], e) >= U[id].expires
             /\ ExpiresWith(U[id], e) >= e
  <2>1. IsUpload(U[id])
    BY <1>2 DEF Good, Typed
  <2>2. U[id].expires \in 1..ClockMax + Retention /\ U[id].expires \in Int
    BY <2>1, FileStoreAssumption DEF IsUpload
  <2>3. ExpiresWith(U[id], e) = IF U[id].expires >= e THEN U[id].expires ELSE e
    BY <1>3, <2>2, LargerOfTwo DEF ExpiresWith
  <2> HIDE DEF U, e
  <2> QED BY <1>3, <2>2, <2>3
<1>5. ASSUME NEW id \in DOMAIN U
      PROVE  /\ IsUpload(V[id]) /\ V[id].gen = current_generation
             /\ V[id].file = U[id].file
             /\ V[id].complete = U[id].complete
             /\ V[id].chunks = U[id].chunks
             /\ V[id].expires >= U[id].expires
             /\ id \in Range(members) => V[id].expires >= e
  <2>1. IsUpload(U[id]) /\ U[id].gen = current_generation
    BY <1>2 DEF Good, Typed, OfGeneration
  <2>2. U[id].expires >= U[id].expires
    BY <2>1, FileStoreAssumption DEF IsUpload
  <2>3. CASE id \notin Range(members)
    BY <2>1, <2>2, <2>3
  <2>4. CASE id \in Range(members)
    <3>1. V[id] = [peer |-> U[id].peer, file |-> U[id].file, received |-> U[id].received,
                   complete |-> U[id].complete, expires |-> ExpiresWith(U[id], e),
                   chunks |-> U[id].chunks, gen |-> U[id].gen]
      BY <2>1, <2>4 DEF IsUpload
    <3> HIDE DEF V, e
    <3>2. IsUpload(V[id])
      BY <2>1, <3>1, <1>4 DEF IsUpload
    <3> QED BY <2>1, <3>1, <3>2, <1>4
  <2> QED BY <2>3, <2>4
<1>6. IsSelection(s) /\ s.gen = current_generation
  <2>1. \A i \in DOMAIN members : U[members[i]].file \in Files
    BY <1>1, <1>2 DEF Good, Typed, IsUpload
  <2>2. s.manifest \in [1..n -> Files]
    BY <2>1
  <2>3. current_generation \in 1..GenerationMax
    BY DEF IInv, TypeOK
  <2> HIDE DEF e
  <2> QED BY <1>3, <2>2, <2>3 DEF IsSelection
<1>7. Outlived(V, s)
  <2>1. ASSUME NEW i \in DOMAIN members PROVE members[i] \in DOMAIN U /\ members[i] \in Range(members)
    BY <1>1 DEF Range
  <2> HIDE DEF V, e
  <2>2. DOMAIN V = DOMAIN U
    BY DEF V
  <2> QED BY <1>1, <1>5, <2>1, <2>2 DEF Outlived
<1>8. Good(V, With(SyncedClips, clip, s), current_generation)
  <2>1. DOMAIN V = DOMAIN U
    OBVIOUS
  <2> HIDE DEF V, s, e
  <2> QED BY <1>1, <1>2, <1>5, <1>6, <1>7, <2>1, NewSelectionIsGood
<1>9. DOMAIN uploads' = DOMAIN U /\ DOMAIN file_clips' = DOMAIN SyncedClips \cup {clip}
  BY <1>1 DEF With
<1> QED
  <2>1. IInv /\ issued \subseteq UploadIds
    BY DEF IInv, TypeOK
  <2> HIDE DEF V, s, e
  <2> QED BY <1>1, <1>8, <1>9, <2>1, SyncedIsGood, GoodTablesSuffice DEF Publish

LEMMA StepKeeps == IInv /\ [Next]_vars => IInv'
<1> SUFFICES ASSUME IInv, [Next]_vars PROVE IInv'
  OBVIOUS
<1>1. CASE Reconcile
  <2>1. clearing' \in BOOLEAN
    BY <1>1 DEF Reconcile, IInv, TypeOK
  <2> QED BY <1>1, <2>1, SyncKeeps DEF Reconcile
<1>2. CASE CommitClear
  <2>1. current_generation' \in 1..GenerationMax /\ current_generation <= current_generation'
    BY <1>2, FileStoreAssumption DEF CommitClear, IInv, TypeOK
  <2>2. UNCHANGED <<file_generation, uploads, file_clips, issued>> /\ clearing' \in BOOLEAN
    BY <1>2 DEF CommitClear, rows
  <2>3. TypeOK'
    BY <2>1, <2>2 DEF IInv, TypeOK
  <2>4. file_generation' <= current_generation'
    BY <2>1, <2>2, FileStoreAssumption DEF IInv, TypeOK
  <2> QED BY <2>2, <2>3, <2>4 DEF IInv
<1>3. CASE FollowClear
  BY <1>3, SyncKeeps DEF FollowClear
<1>4. CASE AbandonClear
  BY <1>4 DEF AbandonClear, rows, IInv, TypeOK
<1>5. ASSUME NEW now \in 0..ClockMax, Expire(now) PROVE IInv'
  BY <1>5, ExpireKeeps
<1>6. ASSUME NEW now \in 0..ClockMax, NEW p \in Peers, NEW f \in Files, Begin(p, f, now)
      PROVE  IInv'
  BY <1>6, BeginKeeps
<1>7. ASSUME NEW now \in 0..ClockMax, NEW p \in Peers, NEW id \in UploadIds,
             NEW bytes \in Payloads, AppendChunk(p, id, bytes, now)
      PROVE  IInv'
  BY <1>7, AppendKeeps
<1>8. ASSUME NEW now \in 0..ClockMax, NEW p \in Peers, NEW id \in UploadIds, Finish(p, id, now)
      PROVE  IInv'
  BY <1>8, FinishKeeps
<1>9. ASSUME NEW now \in 0..ClockMax, NEW p \in Peers, NEW clip \in ClipIds,
             NEW n \in 1..MembersMax, NEW members \in [1..n -> UploadIds],
             Publish(p, clip, members, now)
      PROVE  IInv'
  BY <1>9, PublishKeeps
<1>10. CASE UNCHANGED vars
  BY <1>10 DEF vars, rows, IInv, TypeOK
<1> QED BY <1>1, <1>2, <1>3, <1>4, <1>5, <1>6, <1>7, <1>8, <1>9, <1>10 DEF Next, Handle

LEMMA Inductive == Spec => []IInv
BY InitKeeps, StepKeeps, PTL DEF Spec

----------------------------------------------------------------------------
(* Theorems.                                                               *)

(* Every row and counter keeps its type, and no upload outgrows what it    *)
(* reserved, whatever messages come, clears, crashes and clocks do.        *)
THEOREM FilesTypeCorrect == Spec => []TypeOK
<1>1. IInv => TypeOK
  BY DEF IInv
<1> QED BY <1>1, Inductive, PTL

(* SQLite never refuses to delete what has expired: no selection outlives  *)
(* an upload it refers to (expire, begin, publish).                        *)
THEOREM ExpiryAlwaysAllowed == Spec => []ExpiryNeverRefused
<1>1. IInv => ExpiryNeverRefused
  BY ExpiryIsGood DEF IInv, ExpiryNeverRefused
<1> QED BY <1>1, Inductive, PTL

(* However the hub was interrupted in a clear, no message finds a row of   *)
(* before the clear (sync_generation, handle_clear).                       *)
THEOREM ClearReachesFiles == Spec => []NothingOlderReadable
<1>1. ASSUME IInv PROVE NothingOlderReadable
  <2>1. Good(SyncedUploads, SyncedClips, current_generation)
    BY <1>1, SyncedIsGood
  <2>2. ASSUME NEW c \in DOMAIN SyncedClips
        PROVE  Range(SyncedClips[c].uploads) \subseteq DOMAIN SyncedUploads
    BY <2>1 DEF Good, MembersOutlive, Outlived, Range
  <2> QED BY <2>1, <2>2 DEF NothingOlderReadable, Good, OfGeneration
<1> QED BY <1>1, Inductive, PTL

----------------------------------------------------------------------------
(* The selections are a shelf.                                             *)

(* The shelf as the manifests tell it, without looking at the uploads.     *)
ShelfOf(C) ==
  [c \in DOMAIN C |->
     [owner    |-> C[c].peer,
      contents |-> [i \in DOMAIN C[c].uploads |-> C[c].manifest[i].hash]]]

(* The mapped shelf reads the uploads; their bytes are what the manifests  *)
(* tell.                                                                   *)
LEMMA BytesAsTold ==
  ASSUME NEW U, NEW C, NEW g, Good(U, C, g)
  PROVE  [c \in DOMAIN C |->
            [owner    |-> C[c].peer,
             contents |-> [i \in DOMAIN C[c].uploads |-> Bytes(U[C[c].uploads[i]])]]]
           = ShelfOf(C)
<1>1. ASSUME NEW c \in DOMAIN C, NEW i \in DOMAIN C[c].uploads
      PROVE  Bytes(U[C[c].uploads[i]]) = C[c].manifest[i].hash
  BY <1>1 DEF Good, MembersOutlive, Outlived, FinishedIsWhole
<1>2. ASSUME NEW c \in DOMAIN C
      PROVE  [i \in DOMAIN C[c].uploads |-> Bytes(U[C[c].uploads[i]])]
               = [i \in DOMAIN C[c].uploads |-> C[c].manifest[i].hash]
  BY <1>1, <1>2
<1> QED BY <1>2 DEF ShelfOf

LEMMA ShelfAsTold ==
  ASSUME IInv
  PROVE  OnShelf = ShelfOf(file_clips)
BY BytesAsTold DEF IInv, OnShelf

(* Deleting rows takes their selections off the shelf.                     *)
LEMMA DeletingRemoves ==
  ASSUME IInv, IInv', NEW S, file_clips' = Restrict(file_clips, S), S \subseteq DOMAIN file_clips
  PROVE  Shelf!Next
<1> DEFINE gone == DOMAIN file_clips \ S
<1>1. OnShelf = ShelfOf(file_clips)
  BY ShelfAsTold
<1>2. OnShelf' = ShelfOf(file_clips')
  BY BytesAsTold DEF IInv, OnShelf
<1>3. DOMAIN OnShelf = DOMAIN file_clips /\ DOMAIN OnShelf \ gone = S
  BY <1>1 DEF ShelfOf
<1>4. OnShelf' = Restrict(OnShelf, DOMAIN OnShelf \ gone)
  BY <1>1, <1>2, <1>3 DEF ShelfOf, Restrict
<1>5. Shelf!Remove(gone) /\ gone \in SUBSET DOMAIN OnShelf
  BY <1>3, <1>4 DEF Shelf!Remove, Shelf!Restrict, Restrict
<1> QED BY <1>5 DEF Shelf!Next

LEMMA EmptyIsRestricted == ASSUME NEW C PROVE NoRows = Restrict(C, {})
BY DEF NoRows, Restrict

LEMMA KeepingStutters ==
  ASSUME IInv, IInv', file_clips' = file_clips
  PROVE  UNCHANGED OnShelf
BY BytesAsTold DEF IInv, OnShelf

(* Where the selections are those sync_generation leaves, they are all     *)
(* there or all gone.                                                      *)
LEMMA SyncingShelves ==
  ASSUME IInv, IInv', file_clips' = SyncedClips
  PROVE  [Shelf!Next]_OnShelf
<1>1. CASE file_generation = current_generation
  BY <1>1, KeepingStutters DEF SyncedClips
<1>2. CASE file_generation # current_generation
  BY <1>2, EmptyIsRestricted, DeletingRemoves DEF SyncedClips
<1> QED BY <1>1, <1>2

LEMMA ExpiringShelves ==
  ASSUME IInv, IInv', NEW now,
         file_clips' = Unexpired(file_clips, now) \/ file_clips' = Unexpired(SyncedClips, now)
  PROVE  [Shelf!Next]_OnShelf
<1>1. CASE file_clips' = Unexpired(file_clips, now)
  BY <1>1, DeletingRemoves DEF Unexpired
<1>2. CASE file_clips' = Unexpired(SyncedClips, now) /\ file_generation # current_generation
  <2>1. Unexpired(NoRows, now) = NoRows
    BY DEF Unexpired, Restrict, NoRows
  <2> QED BY <1>2, <2>1, EmptyIsRestricted, DeletingRemoves DEF SyncedClips
<1> QED BY <1>1, <1>2 DEF SyncedClips

LEMMA PublishingShelves ==
  ASSUME IInv, IInv', NEW p \in Peers, NEW clip \in ClipIds, NEW n \in 1..MembersMax,
         NEW members \in [1..n -> UploadIds], NEW now \in 0..ClockMax,
         Publish(p, clip, members, now)
  PROVE  Shelf!Next
<1> DEFINE s == [peer |-> p, expires |-> now + Retention, uploads |-> members,
                 manifest |-> [i \in DOMAIN members |-> SyncedUploads[members[i]].file],
                 gen |-> current_generation]
           held == [i \in DOMAIN members |-> SyncedUploads[members[i]].file.hash]
<1>1. /\ clip \notin DOMAIN SyncedClips
      /\ file_clips' = With(SyncedClips, clip, s)
      /\ \A i \in DOMAIN members : members[i] \in DOMAIN SyncedUploads
  BY DEF Publish, Publishable, Own
<1>2. file_generation = current_generation
  <2>1. 1 \in DOMAIN members
    OBVIOUS
  <2>2. DOMAIN NoRows = {}
    BY DEF NoRows
  <2> QED BY <1>1, <2>1, <2>2 DEF SyncedUploads
<1>3. SyncedClips = file_clips
  BY <1>2 DEF SyncedClips
<1>4. OnShelf = ShelfOf(file_clips)
  BY ShelfAsTold
<1>5. OnShelf' = ShelfOf(file_clips')
  BY BytesAsTold DEF IInv, OnShelf
<1>6. ShelfOf(With(file_clips, clip, s))
        = [c \in DOMAIN file_clips \cup {clip} |->
             IF c = clip THEN [owner |-> p, contents |-> held] ELSE ShelfOf(file_clips)[c]]
  <2>1. s.peer = p /\ s.uploads = members
    OBVIOUS
  <2>2. \A i \in DOMAIN members : s.manifest[i].hash = held[i]
    OBVIOUS
  <2> HIDE DEF s
  <2>3. [i \in DOMAIN s.uploads |-> s.manifest[i].hash] = [i \in DOMAIN members |-> held[i]]
    BY <2>1, <2>2
  <2>4. [i \in DOMAIN members |-> held[i]] = held
    OBVIOUS
  <2> HIDE DEF held
  <2> QED BY <1>1, <1>3, <2>1, <2>3, <2>4 DEF ShelfOf, With
<1>7. held \in ShelfContents
  <2>1. \A i \in 1..n : SyncedUploads[members[i]].file \in Files
    BY <1>1, SyncedIsGood DEF Good, Typed, IsUpload
  <2>2. held \in [1..n -> {f.hash : f \in Files}]
    BY <2>1
  <2> QED BY <2>2 DEF ShelfContents
<1>8. Shelf!Put(clip, p, held)
  <2>1. DOMAIN OnShelf = DOMAIN file_clips
    BY <1>4 DEF ShelfOf
  <2> HIDE DEF s, held
  <2> QED BY <1>1, <1>3, <1>4, <1>5, <1>6, <2>1 DEF Shelf!Put
<1> HIDE DEF held
<1> QED BY <1>7, <1>8 DEF Shelf!Next

LEMMA ShelfStep == IInv /\ IInv' /\ [Next]_vars => [Shelf!Next]_OnShelf
<1> SUFFICES ASSUME IInv, IInv', [Next]_vars PROVE [Shelf!Next]_OnShelf
  OBVIOUS
<1>1. CASE Reconcile \/ FollowClear
  BY <1>1, SyncingShelves DEF Reconcile, FollowClear, SyncGeneration
<1>2. CASE CommitClear \/ AbandonClear \/ UNCHANGED vars
  BY <1>2, KeepingStutters DEF CommitClear, AbandonClear, vars, rows
<1>3. ASSUME NEW now \in 0..ClockMax, Expire(now) PROVE [Shelf!Next]_OnShelf
  BY <1>3, ExpiringShelves DEF Expire
<1>4. ASSUME NEW now \in 0..ClockMax, NEW p \in Peers, NEW f \in Files, Begin(p, f, now)
      PROVE  [Shelf!Next]_OnShelf
  BY <1>4, ExpiringShelves DEF Begin
<1>5. ASSUME NEW now \in 0..ClockMax, NEW p \in Peers, NEW id \in UploadIds,
             NEW bytes \in Payloads, AppendChunk(p, id, bytes, now)
      PROVE  [Shelf!Next]_OnShelf
  BY <1>5, SyncingShelves DEF AppendChunk
<1>6. ASSUME NEW now \in 0..ClockMax, NEW p \in Peers, NEW id \in UploadIds, Finish(p, id, now)
      PROVE  [Shelf!Next]_OnShelf
  BY <1>6, SyncingShelves DEF Finish
<1>7. ASSUME NEW now \in 0..ClockMax, NEW p \in Peers, NEW clip \in ClipIds,
             NEW n \in 1..MembersMax, NEW members \in [1..n -> UploadIds],
             Publish(p, clip, members, now)
      PROVE  [Shelf!Next]_OnShelf
  BY <1>7, PublishingShelves
<1> QED BY <1>1, <1>2, <1>3, <1>4, <1>5, <1>6, <1>7 DEF Next, Handle

(* A selection is published whole, never changes and leaves whole: no      *)
(* append, finish, publish, expiry or clear touches the bytes of a         *)
(* selection that stays (publish, append, finish, expire).                 *)
THEOREM StoreImplementsFileShelf == Spec => ImplementsFileShelf
<1>1. Init => Shelf!Init
  BY DEF Init, Shelf!Init, OnShelf, NoRows
<1> QED BY <1>1, Inductive, ShelfStep, PTL DEF Spec, ImplementsFileShelf, Shelf!Spec

----------------------------------------------------------------------------
(* How the chunks of an upload lie in it.                                  *)

EndOf(u, o) == o + Len(u.chunks[o])

(* The chunks of an upload lie one behind the other from the first byte up *)
(* to what was received.                                                   *)
Laid(u) ==
  /\ \A o \in DOMAIN u.chunks : EndOf(u, o) <= u.received
  /\ \A o \in DOMAIN u.chunks : EndOf(u, o) \in DOMAIN u.chunks \cup {u.received}
  /\ \A o, d \in DOMAIN u.chunks : o < d => EndOf(u, o) <= d
  /\ u.received # 0 => 0 \in DOMAIN u.chunks

LEMMA ChunkTypes ==
  ASSUME NEW u, IsUpload(u), Laid(u)
  PROVE  /\ u.received \in Nat
         /\ DOMAIN u.chunks \subseteq 0..u.received
         /\ \A o \in DOMAIN u.chunks :
              /\ o \in Nat
              /\ u.chunks[o] \in Seq(Bits)
              /\ Len(u.chunks[o]) \in Nat \ {0}
              /\ EndOf(u, o) \in Nat
              /\ o < EndOf(u, o)
              /\ o < u.received
<1>1. u.received \in Nat
  BY FileStoreAssumption DEF IsUpload
<1>2. ASSUME NEW o \in DOMAIN u.chunks
      PROVE  /\ o \in Nat
             /\ u.chunks[o] \in Seq(Bits)
             /\ Len(u.chunks[o]) \in Nat \ {0}
  <2>1. o \in Nat /\ u.chunks[o] \in Payloads
    BY DEF IsUpload
  <2>2. Len(u.chunks[o]) \in 1..ChunkBytes
    BY <2>1, FileStoreAssumption
  <2>3. ChunkBytes \in Nat
    BY FileStoreAssumption
  <2> QED
    BY <2>1, <2>2, <2>3, FileStoreAssumption
<1>3. \A o \in DOMAIN u.chunks : o \in Nat /\ Len(u.chunks[o]) \in Nat \ {0}
  BY <1>2
<1>4. ASSUME NEW o \in DOMAIN u.chunks
      PROVE  EndOf(u, o) \in Nat /\ o < EndOf(u, o)
  BY <1>3 DEF EndOf
<1>5. \A o \in DOMAIN u.chunks : o < u.received
  BY <1>1, <1>3, <1>4 DEF Laid
<1> QED
  BY <1>1, <1>2, <1>3, <1>4, <1>5

(* What a chunk holds is what the upload holds from its offset on.         *)
LEMMA BytesAreLaid ==
  ASSUME NEW u, IsUpload(u), Laid(u)
  PROVE  /\ Bytes(u) \in Seq(Bits)
         /\ Len(Bytes(u)) = u.received
         /\ \A o \in DOMAIN u.chunks : \A p \in 1..Len(u.chunks[o]) :
              Bytes(u)[o + p] = u.chunks[o][p]
<1> DEFINE D == DOMAIN u.chunks
           n == Cardinality(D)
           q == [i \in 1..n |-> u.chunks[Nth(D, i)]]
           st == [i \in 1..n |-> Nth(D, i)]
           end == [o \in D |-> EndOf(u, o)]
<1>1. /\ u.received \in Nat
      /\ D \subseteq 0..u.received
      /\ \A o \in D : /\ o \in Nat
                      /\ u.chunks[o] \in Seq(Bits)
                      /\ Len(u.chunks[o]) \in Nat \ {0}
                      /\ EndOf(u, o) \in Nat
                      /\ o < EndOf(u, o)
                      /\ o < u.received
  BY ChunkTypes
<1>2. n \in Nat /\ IsFiniteSet(D)
  BY <1>1, FiniteBelow
<1>3. Bytes(u) = FlattenSeq(q)
  BY DEF Bytes
<1>4. CASE n = 0
  <2>1. D = {}
    BY <1>2, <1>4, FS_EmptySet
  <2>2. u.received = 0
    BY <2>1 DEF Laid
  <2>3. q = <<>>
    BY <1>4
  <2>4. FlattenSeq(<<>>) = <<>>
    BY DEF FlattenSeq
  <2> HIDE DEF q, D, n
  <2>5. Bytes(u) = <<>>
    BY <1>3, <2>3, <2>4
  <2> QED
    BY <2>1, <2>2, <2>5 DEF D
<1>5. CASE n # 0
  <2>1. /\ \A i \in 1..n : Nth(D, i) \in D
        /\ \A o \in D : \E i \in 1..n : Nth(D, i) = o
        /\ \A i, j \in 1..n : i < j => Nth(D, i) < Nth(D, j)
    BY <1>1, NthIsElement, NthLists
  <2>2. /\ \A o \in D : end[o] \in Nat /\ o < end[o] /\ o < u.received
        /\ \A o \in D : end[o] \in D \/ end[o] >= u.received
        /\ \A o, d \in D : o < d => end[o] <= d
    BY <1>1 DEF Laid
  <2>3. ASSUME NEW k \in 1..n
        PROVE  /\ k + 1 \in 1..n => Nth(D, k + 1) = end[Nth(D, k)]
               /\ k = n => end[Nth(D, k)] >= u.received
    <3> HIDE DEF end, D
    <3> QED
      BY <1>1, <2>2, NthIsNext
  <2> HIDE DEF D, n
  <2>4. ASSUME NEW k \in 1..n
        PROVE  /\ q[k] \in Seq(Bits) /\ q[k] = u.chunks[Nth(D, k)]
               /\ st[k] \in Nat /\ st[k] = Nth(D, k)
               /\ end[Nth(D, k)] = st[k] + Len(q[k])
    BY <1>1, <2>1 DEF EndOf
  <2>5. q \in [1..n -> Seq(Bits)] /\ st \in [1..n -> Nat]
    BY <2>4
  <2>6. 1 \in 1..n /\ n \in 1..n /\ n \in Nat \ {0}
    BY <1>2, <1>5
  <2>7. st[1] = 0
    <3>1. Nth(D, 1) \in D /\ Nth(D, 1) \in Nat /\ Nth(D, 1) < u.received
      BY <1>1, <2>1, <2>6
    <3>2. 0 \in D
      BY <1>1, <3>1 DEF Laid, D
    <3>3. PICK i \in 1..n : Nth(D, i) = 0
      BY <2>1, <3>2
    <3>4. i = 1 \/ 1 < i
      BY <1>2
    <3>5. ~ (1 < i)
      <4>1. 1 < i => Nth(D, 1) < 0
        BY <2>1, <2>6, <3>3
      <4> QED
        BY <3>1, <4>1
    <3>6. Nth(D, 1) = 0
      BY <3>3, <3>4, <3>5
    <3> QED
      BY <2>4, <2>6, <3>6
  <2>8. \A k \in 1..n : k + 1 \in 1..n => st[k + 1] = st[k] + Len(q[k])
    BY <2>3, <2>4
  <2>9. st[n] + Len(q[n]) = u.received
    <3>1. end[Nth(D, n)] >= u.received
      BY <2>3, <2>6
    <3>2. end[Nth(D, n)] <= u.received /\ end[Nth(D, n)] \in Nat
      BY <2>1, <2>2, <2>6 DEF Laid, D
    <3> QED
      BY <1>1, <2>4, <2>6, <3>1, <3>2
  <2> HIDE DEF q, st, end
  <2>10. /\ FlattenSeq(q) \in Seq(Bits)
         /\ Len(FlattenSeq(q)) = st[n] + Len(q[n])
         /\ \A k \in 1..n : \A p \in 1..Len(q[k]) : FlattenSeq(q)[st[k] + p] = q[k][p]
    <3>1. Pieces(q, n, st, Bits)
      BY <2>5, <2>6, <2>7, <2>8 DEF Pieces
    <3> QED
      BY <3>1, FlattenJoins
  <2>11. ASSUME NEW o \in D, NEW p \in 1..Len(u.chunks[o])
         PROVE  Bytes(u)[o + p] = u.chunks[o][p]
    <3>1. PICK k \in 1..n : Nth(D, k) = o
      BY <2>1
    <3>2. q[k] = u.chunks[o] /\ st[k] = o
      BY <2>4, <3>1
    <3> QED
      BY <1>3, <2>10, <3>2
  <2> QED
    BY <1>3, <2>9, <2>10, <2>11 DEF D
<1> QED
  BY <1>4, <1>5

(* Every byte that was received is in a chunk.                             *)
LEMMA EachByteIsThere ==
  ASSUME NEW u, IsUpload(u), Laid(u), NEW x \in Nat, x < u.received
  PROVE  \E o \in DOMAIN u.chunks : o <= x /\ x < EndOf(u, o)
<1> DEFINE T == {o \in DOMAIN u.chunks : o <= x}
<1>1. /\ u.received \in Nat
      /\ \A o \in DOMAIN u.chunks : o \in Nat /\ EndOf(u, o) \in Nat /\ o < EndOf(u, o)
  BY ChunkTypes
<1>2. 0 \in T
  BY <1>1 DEF Laid
<1>3. T \subseteq 0..x
  BY <1>1
<1>4. Max(T) \in T /\ \A y \in T : y <= Max(T)
  <2> HIDE DEF T
  <2> QED
    BY <1>2, <1>3, MaxIsLargest
<1>5. PICK o \in T : \A y \in T : y <= o
  BY <1>4
<1>6. ~ (EndOf(u, o) <= o)
  BY <1>1
<1>7. EndOf(u, o) \notin T
  BY <1>5, <1>6
<1>8. EndOf(u, o) \in DOMAIN u.chunks \cup {u.received}
  BY DEF Laid
<1> QED
  BY <1>1, <1>7, <1>8

LEMMA ReadIsWhole ==
  ASSUME NEW u, IsUpload(u), Laid(u), u.received = u.file.size, NEW offset \in 0..u.file.size
  PROVE  Chunk(u, offset)
           = SubSeq(Bytes(u), offset + 1, Min({u.file.size, offset + ChunkBytes}))
<1> DEFINE r == u.received
           D == DOMAIN u.chunks
           end == Min({u.file.size, offset + ChunkBytes})
           B == RowsBetween(u, offset, end)
           n == Cardinality(B)
           Part(o) == SubSeq(u.chunks[o], Max({0, offset - o}) + 1,
                             Min({Len(u.chunks[o]), end - o}))
           q == [i \in 1..n |-> Part(Nth(B, i))]
           lo == [o \in B |-> IF o >= offset THEN o ELSE offset]
           hi == [o \in B |-> IF EndOf(u, o) <= end THEN EndOf(u, o) ELSE end]
           st == [i \in 1..n |-> lo[Nth(B, i)] - offset]
           upto == [o \in B |-> EndOf(u, o)]
<1>1. /\ r \in Nat /\ offset \in Nat /\ offset <= r
      /\ D \subseteq 0..r
      /\ \A o \in D : /\ o \in Nat
                      /\ u.chunks[o] \in Seq(Bits)
                      /\ Len(u.chunks[o]) \in Nat \ {0}
                      /\ EndOf(u, o) \in Nat
                      /\ EndOf(u, o) = o + Len(u.chunks[o])
                      /\ o < EndOf(u, o)
                      /\ o < r
                      /\ EndOf(u, o) <= r
  BY ChunkTypes DEF EndOf, Laid
<1>2. /\ end \in Nat /\ end = IF r <= offset + ChunkBytes THEN r ELSE offset + ChunkBytes
      /\ offset <= end /\ end <= r
      /\ offset # r => offset < end
  <2>1. ChunkBytes \in Nat \ {0} /\ offset + ChunkBytes \in Nat
    BY <1>1, FileStoreAssumption
  <2>2. end = IF r <= offset + ChunkBytes THEN r ELSE offset + ChunkBytes
    <3>1. u.file.size \in Int /\ u.file.size = r
      BY <1>1
    <3> QED
      BY <2>1, <3>1, SmallerOfTwo
  <2> HIDE DEF end
  <2> QED
    BY <1>1, <2>1, <2>2
<1>3. /\ Bytes(u) \in Seq(Bits)
      /\ Len(Bytes(u)) = r
      /\ \A o \in D : \A p \in 1..Len(u.chunks[o]) : Bytes(u)[o + p] = u.chunks[o][p]
  BY BytesAreLaid
<1>4. Chunk(u, offset) = FlattenSeq(q)
  BY DEF Chunk
<1> HIDE DEF end
<1>5. \A o \in B : o \in D /\ o < end /\ EndOf(u, o) > offset
  BY DEF RowsBetween, EndOf
<1>6. \A o \in D : o < end /\ EndOf(u, o) > offset => o \in B
  BY DEF RowsBetween, EndOf
<1> HIDE DEF B
<1>7. B \subseteq 0..r /\ IsFiniteSet(B) /\ n \in Nat
  <2>1. B \subseteq 0..r
    BY <1>1, <1>5
  <2> QED
    BY <1>1, <2>1, FiniteBelow
<1>8. CASE n = 0
  <2>1. B = {}
    BY <1>7, <1>8, FS_EmptySet
  <2>2. offset = r
    <3>1. SUFFICES ASSUME offset < r, offset < end  PROVE FALSE
      BY <1>1, <1>2
    <3>2. PICK o \in D : o <= offset /\ offset < EndOf(u, o)
      BY <1>1, <3>1, EachByteIsThere
    <3>3. o \in B
      BY <1>1, <1>2, <1>6, <3>1, <3>2
    <3> QED
      BY <2>1, <3>3
  <2>3. end = offset
    BY <1>1, <1>2, <2>2
  <2>4. q = <<>>
    BY <1>8
  <2>5. FlattenSeq(<<>>) = <<>>
    BY DEF FlattenSeq
  <2> HIDE DEF q, n
  <2>6. SubSeq(Bytes(u), offset + 1, end) = <<>>
    BY <1>1, <2>3, SubSeqEmpty
  <2> QED
    BY <1>4, <2>4, <2>5, <2>6 DEF end
<1>9. CASE n # 0
  <2>1. /\ \A i \in 1..n : Nth(B, i) \in B
        /\ \A o \in B : \E i \in 1..n : Nth(B, i) = o
        /\ \A i, j \in 1..n : i < j => Nth(B, i) < Nth(B, j)
    BY <1>1, <1>7, NthIsElement, NthLists
  <2>2. offset < end /\ offset < r
    <3>1. PICK o \in B : TRUE
      BY <1>7, <1>9, FS_EmptySet
    <3>2. offset # r
      BY <1>1, <1>5, <3>1
    <3> QED
      BY <1>1, <1>2, <3>2
  <2>3. ASSUME NEW o \in B
        PROVE  /\ lo[o] \in Nat /\ hi[o] \in Nat /\ lo[o] < hi[o]
               /\ offset <= lo[o] /\ o <= lo[o] /\ hi[o] <= EndOf(u, o)
               /\ hi[o] <= end
               /\ Part(o) \in Seq(Bits)
               /\ Len(Part(o)) = hi[o] - lo[o]
               /\ \A p \in 1..Len(Part(o)) : Part(o)[p] = Bytes(u)[lo[o] + p]
    <3> DEFINE c == u.chunks[o]
               a == Max({0, offset - o}) + 1
               b == Min({Len(c), end - o})
    <3>1. /\ o \in D /\ o \in Nat /\ o < end /\ EndOf(u, o) > offset
          /\ c \in Seq(Bits) /\ Len(c) \in Nat
          /\ EndOf(u, o) \in Nat /\ EndOf(u, o) = o + Len(c) /\ o < EndOf(u, o)
      BY <1>1, <1>5
    <3>2. /\ lo[o] = IF o >= offset THEN o ELSE offset
          /\ hi[o] = IF EndOf(u, o) <= end THEN EndOf(u, o) ELSE end
      OBVIOUS
    <3>3. a = lo[o] - o + 1
      <4>1. Max({0, offset - o}) = IF 0 >= offset - o THEN 0 ELSE offset - o
        BY <1>1, <3>1, LargerOfTwo
      <4> HIDE DEF lo
      <4> QED
        BY <1>1, <3>1, <3>2, <4>1
    <3>4. b = hi[o] - o
      <4>1. b = IF Len(c) <= end - o THEN Len(c) ELSE end - o
        <5>1. Len(c) \in Int /\ end - o \in Int
          BY <1>2, <3>1
        <5> HIDE DEF c
        <5> QED
          BY <5>1, SmallerOfTwo
      <4> HIDE DEF hi, b, c
      <4> QED
        BY <1>2, <3>1, <3>2, <4>1
    <3>5. Part(o) = SubSeq(c, a, b)
      OBVIOUS
    <3> HIDE DEF lo, hi, a, b, c, Part, D
    <3>6. /\ lo[o] \in Nat /\ hi[o] \in Nat /\ lo[o] < hi[o]
          /\ offset <= lo[o] /\ o <= lo[o] /\ hi[o] <= EndOf(u, o)
          /\ hi[o] <= end
      BY <1>1, <1>2, <2>2, <3>1, <3>2
    <3>7. /\ SubSeq(c, a, b) \in Seq(Bits)
          /\ Len(SubSeq(c, a, b)) = hi[o] - lo[o]
          /\ \A i \in 1..hi[o] - lo[o] : SubSeq(c, a, b)[i] = c[lo[o] - o + i]
      <4>1. a \in Int /\ b \in Int /\ a <= b /\ b - a + 1 = hi[o] - lo[o]
        <5>1. lo[o] \in Nat /\ hi[o] \in Nat /\ lo[o] < hi[o] /\ o \in Nat
          BY <3>1, <3>6
        <5> QED
          BY <3>3, <3>4, <5>1
      <4>2. 1 <= a /\ b <= Len(c)
        BY <3>1, <3>3, <3>4, <3>6
      <4>3. \A i \in a..b : c[i] \in Bits
        BY <3>1, <4>1, <4>2
      <4>4. /\ SubSeq(c, a, b) \in Seq(Bits)
            /\ Len(SubSeq(c, a, b)) = IF a <= b THEN b - a + 1 ELSE 0
            /\ \A i \in 1..b - a + 1 : SubSeq(c, a, b)[i] = c[a + i - 1]
        BY <4>1, <4>3, SubSeqProperties
      <4>5. \A i \in 1..hi[o] - lo[o] : a + i - 1 = lo[o] - o + i
        BY <3>1, <3>3, <3>6
      <4> QED
        BY <4>1, <4>4, <4>5
    <3>8. ASSUME NEW p \in 1..hi[o] - lo[o]  PROVE c[lo[o] - o + p] = Bytes(u)[lo[o] + p]
      <4>1. lo[o] - o + p \in 1..Len(c) /\ o + (lo[o] - o + p) = lo[o] + p
        BY <3>1, <3>6
      <4> QED
        BY <1>3, <3>1, <4>1 DEF c, D
    <3> QED
      BY <3>5, <3>6, <3>7, <3>8
  <2>4. /\ \A o \in B : upto[o] \in Nat /\ o < upto[o] /\ o < end
        /\ \A o \in B : upto[o] \in B \/ upto[o] >= end
        /\ \A o, d \in B : o < d => upto[o] <= d
    <3>1. \A o \in B : upto[o] = EndOf(u, o)
      OBVIOUS
    <3> HIDE DEF upto
    <3>2. \A o \in B : upto[o] \in Nat /\ o < upto[o] /\ o < end
      BY <1>1, <1>5, <3>1
    <3>3. \A o, d \in B : o < d => upto[o] <= d
      BY <1>5, <3>1 DEF Laid
    <3>4. ASSUME NEW o \in B, ~ (upto[o] >= end)  PROVE upto[o] \in B
      <4>1. EndOf(u, o) < end /\ EndOf(u, o) > offset
        BY <1>2, <1>5, <3>1, <3>2, <3>4
      <4>2. EndOf(u, o) \in D
        <5>1. EndOf(u, o) # r
          BY <1>1, <1>2, <4>1
        <5> QED
          BY <1>5, <5>1 DEF Laid
      <4>3. EndOf(u, EndOf(u, o)) > offset
        BY <1>1, <1>5, <4>1, <4>2
      <4> QED
        BY <1>6, <3>1, <4>1, <4>2, <4>3
    <3> QED
      BY <3>2, <3>3, <3>4
  <2>5. ASSUME NEW k \in 1..n
        PROVE  /\ k + 1 \in 1..n => Nth(B, k + 1) = upto[Nth(B, k)]
               /\ k = n => upto[Nth(B, k)] >= end
    <3>1. r \in Nat /\ B \subseteq 0..r /\ end \in Nat /\ k \in 1..Cardinality(B)
      BY <1>1, <1>2, <1>7
    <3> HIDE DEF upto, r
    <3>2. /\ k + 1 \in 1..Cardinality(B) => Nth(B, k + 1) = upto[Nth(B, k)]
          /\ k = Cardinality(B) => upto[Nth(B, k)] >= end
      BY <2>4, <3>1, NthIsNext
    <3> QED
      BY <3>2
  <2>6. /\ \A o \in B : lo[o] = IF o >= offset THEN o ELSE offset
        /\ \A o \in B : hi[o] = IF EndOf(u, o) <= end THEN EndOf(u, o) ELSE end
        /\ \A o \in B : upto[o] = EndOf(u, o)
    OBVIOUS
  <2>7. \A k \in 1..n : q[k] = Part(Nth(B, k)) /\ st[k] = lo[Nth(B, k)] - offset
    OBVIOUS
  <2> HIDE DEF q, st, lo, hi, upto, Part, n
  <2>8. q \in [1..n -> Seq(Bits)] /\ st \in [1..n -> Nat]
    <3>1. \A k \in 1..n : q[k] \in Seq(Bits) /\ st[k] \in Nat
      BY <1>1, <2>1, <2>3, <2>7
    <3> QED
      BY <3>1 DEF q, st
  <2>9. 1 \in 1..n /\ n \in 1..n /\ n \in Nat \ {0}
    BY <1>7, <1>9
  <2>10. st[1] = 0
    <3>1. PICK o \in D : o <= offset /\ offset < EndOf(u, o)
      BY <1>1, <2>2, EachByteIsThere
    <3>2. o \in B
      BY <1>1, <1>2, <1>6, <2>2, <3>1
    <3>3. PICK i \in 1..n : Nth(B, i) = o
      BY <2>1, <3>2
    <3>4. Nth(B, 1) \in B /\ Nth(B, 1) \in Nat
      BY <1>1, <1>5, <2>1, <2>9
    <3>5. Nth(B, 1) <= o
      <4>1. i = 1 \/ 1 < i
        BY <1>7
      <4> QED
        BY <1>1, <2>1, <2>9, <3>3, <3>4, <4>1
    <3>6. lo[Nth(B, 1)] = offset
      BY <1>1, <2>6, <3>1, <3>4, <3>5
    <3> QED
      BY <1>1, <2>7, <2>9, <3>6
  <2>11. ASSUME NEW k \in 1..n, k + 1 \in 1..n
         PROVE  st[k + 1] = st[k] + Len(q[k])
    <3> DEFINE o == Nth(B, k)
               d == Nth(B, k + 1)
    <3>1. o \in B /\ d \in B /\ d = EndOf(u, o)
      BY <2>1, <2>5, <2>6, <2>11
    <3>2. EndOf(u, o) \in Nat /\ d < end /\ EndOf(u, o) > offset
      BY <1>1, <1>5, <3>1
    <3>3. hi[o] = EndOf(u, o) /\ lo[d] = EndOf(u, o)
      BY <1>1, <1>2, <2>6, <3>1, <3>2
    <3>4. /\ st[k] = lo[o] - offset /\ Len(q[k]) = hi[o] - lo[o]
          /\ st[k + 1] = lo[d] - offset
          /\ lo[o] \in Nat
      BY <2>3, <2>7, <2>11, <3>1
    <3> HIDE DEF o, d
    <3> QED
      BY <1>1, <3>2, <3>3, <3>4
  <2>12. st[n] + Len(q[n]) = end - offset
    <3> DEFINE o == Nth(B, n)
    <3>1. o \in B /\ EndOf(u, o) >= end /\ EndOf(u, o) \in Nat
      BY <1>1, <1>5, <2>1, <2>5, <2>6, <2>9
    <3>2. hi[o] = end
      BY <1>2, <2>6, <3>1
    <3>3. st[n] = lo[o] - offset /\ Len(q[n]) = hi[o] - lo[o] /\ lo[o] \in Nat
      BY <2>3, <2>7, <2>9, <3>1
    <3> HIDE DEF o
    <3> QED
      BY <1>1, <1>2, <3>2, <3>3
  <2>13. /\ FlattenSeq(q) \in Seq(Bits)
         /\ Len(FlattenSeq(q)) = end - offset
         /\ \A k \in 1..n : \A p \in 1..Len(q[k]) : FlattenSeq(q)[st[k] + p] = q[k][p]
    <3>1. Pieces(q, n, st, Bits)
      BY <2>8, <2>9, <2>10, <2>11 DEF Pieces
    <3> QED
      BY <2>12, <3>1, FlattenJoins
  <2>14. ASSUME NEW j \in 1..end - offset
         PROVE  FlattenSeq(q)[j] = Bytes(u)[offset + j]
    <3> DEFINE x == offset + j - 1
    <3>1. x \in Nat /\ x < end /\ offset <= x /\ x < r
      BY <1>1, <1>2
    <3>2. PICK o \in D : o <= x /\ x < EndOf(u, o)
      BY <3>1, EachByteIsThere
    <3>3. o \in B
      BY <1>1, <1>2, <1>6, <3>1, <3>2
    <3>4. PICK k \in 1..n : Nth(B, k) = o
      BY <2>1, <3>3
    <3>5. /\ st[k] = lo[o] - offset /\ q[k] = Part(o)
          /\ lo[o] \in Nat /\ hi[o] \in Nat
          /\ Len(q[k]) = hi[o] - lo[o]
          /\ \A p \in 1..Len(q[k]) : q[k][p] = Bytes(u)[lo[o] + p]
      BY <2>3, <2>7, <3>3, <3>4
    <3>6. lo[o] <= x /\ x < hi[o]
      BY <1>1, <1>2, <2>6, <3>1, <3>2, <3>3
    <3> DEFINE p == x - lo[o] + 1
    <3>7. p \in 1..Len(q[k]) /\ st[k] + p = j /\ lo[o] + p = offset + j
      <4>1. /\ offset \in Nat /\ end \in Nat /\ j \in Nat
            /\ lo[o] \in Nat /\ hi[o] \in Nat /\ x \in Nat /\ x = offset + j - 1
            /\ lo[o] <= x /\ x < hi[o]
        BY <1>1, <1>2, <3>1, <3>5, <3>6
      <4>2. p \in 1..hi[o] - lo[o] /\ lo[o] - offset + p = j /\ lo[o] + p = offset + j
        BY <4>1
      <4> HIDE DEF p, x
      <4> QED
        BY <3>5, <4>2
    <3> HIDE DEF p, x
    <3> QED
      BY <2>13, <3>5, <3>7
  <2>15. /\ SubSeq(Bytes(u), offset + 1, end) \in Seq(Bits)
         /\ Len(SubSeq(Bytes(u), offset + 1, end)) = end - offset
         /\ \A j \in 1..end - offset :
              SubSeq(Bytes(u), offset + 1, end)[j] = Bytes(u)[offset + j]
    <3>1. offset + 1 \in Int /\ end \in Int /\ offset + 1 <= end
          /\ end - (offset + 1) + 1 = end - offset
      BY <1>1, <1>2, <2>2
    <3>2. \A i \in (offset + 1)..end : Bytes(u)[i] \in Bits
      BY <1>1, <1>2, <1>3
    <3>3. /\ SubSeq(Bytes(u), offset + 1, end) \in Seq(Bits)
          /\ Len(SubSeq(Bytes(u), offset + 1, end))
               = IF offset + 1 <= end THEN end - (offset + 1) + 1 ELSE 0
          /\ \A j \in 1..end - (offset + 1) + 1 :
               SubSeq(Bytes(u), offset + 1, end)[j] = Bytes(u)[(offset + 1) + j - 1]
      BY <3>1, <3>2, SubSeqProperties
    <3>4. \A j \in 1..end - offset : (offset + 1) + j - 1 = offset + j
      BY <1>1
    <3> QED
      BY <3>1, <3>3, <3>4
  <2>16. FlattenSeq(q) = SubSeq(Bytes(u), offset + 1, end)
    <3>1. end - offset \in Nat
      BY <1>1, <1>2
    <3> QED
      BY <2>13, <2>14, <2>15, <3>1, SameElements
  <2> QED
    BY <1>4, <2>16 DEF end
<1> QED
  BY <1>8, <1>9

----------------------------------------------------------------------------
(* What the tables add up to.                                              *)


Sizes(U)     == [id \in DOMAIN U |-> U[id].file.size]
RowCounts(U) == [id \in DOMAIN U |-> Cardinality(DOMAIN U[id].chunks)]
Lengths(U)   == [id \in DOMAIN U |-> Len(Bytes(U[id]))]

(* The bytes an upload holds, over all of them.                            *)
Stored(U) == MapThenSumSet(LAMBDA id : Len(Bytes(U[id])), DOMAIN U)

LEMMA ReservedIsTotal ==
  ASSUME NEW U, IsFiniteSet(DOMAIN U), \A id \in DOMAIN U : Sizes(U)[id] \in Nat
  PROVE  Reserved(U) = Total(Sizes(U), DOMAIN U)
<1> DEFINE S == DOMAIN U
           Sums(g) == g = [s \in SUBSET S |-> IF s = {} THEN 0
                ELSE U[CHOOSE x \in s : TRUE].file.size + g[s \ {CHOOSE x \in s : TRUE}]]
           h == CHOOSE g : Sums(g)
<1>1. Reserved(U) = h[S]
  BY Zenon DEF Reserved, MapThenSumSet, MapThenFoldSet
<1>2. ASSUME NEW s \in SUBSET S, s # {}
      PROVE  Sizes(U)[CHOOSE x \in s : TRUE] = U[CHOOSE x \in s : TRUE].file.size
  BY <1>2 DEF Sizes
<1>3. ASSUME NEW g  PROVE Sums(g) <=> IsSum(g, Sizes(U), S)
  BY <1>2 DEF IsSum, Some
<1>4. \E g : Sums(g)
  <2> HIDE DEF Sums
  <2> QED
    BY <1>3, SumExists
<1>5. Sums(h)
  <2> HIDE DEF Sums
  <2> QED
    BY <1>4, Zenon
<1> HIDE DEF Sums, h
<1>6. IsSum(h, Sizes(U), S)
  BY <1>3, <1>5
<1> QED
  BY <1>1, <1>6, TotalIs

LEMMA ChunkRowsIsTotal ==
  ASSUME NEW U, IsFiniteSet(DOMAIN U), \A id \in DOMAIN U : RowCounts(U)[id] \in Nat
  PROVE  ChunkRows(U) = Total(RowCounts(U), DOMAIN U)
<1> DEFINE S == DOMAIN U
           Sums(g) == g = [s \in SUBSET S |-> IF s = {} THEN 0
                ELSE Cardinality(DOMAIN U[CHOOSE x \in s : TRUE].chunks)
                       + g[s \ {CHOOSE x \in s : TRUE}]]
           h == CHOOSE g : Sums(g)
<1>1. ChunkRows(U) = h[S]
  BY Zenon DEF ChunkRows, MapThenSumSet, MapThenFoldSet
<1>2. ASSUME NEW s \in SUBSET S, s # {}
      PROVE  RowCounts(U)[CHOOSE x \in s : TRUE]
               = Cardinality(DOMAIN U[CHOOSE x \in s : TRUE].chunks)
  BY <1>2 DEF RowCounts
<1>3. ASSUME NEW g  PROVE Sums(g) <=> IsSum(g, RowCounts(U), S)
  BY <1>2 DEF IsSum, Some
<1>4. \E g : Sums(g)
  <2> HIDE DEF Sums
  <2> QED
    BY <1>3, SumExists
<1>5. Sums(h)
  <2> HIDE DEF Sums
  <2> QED
    BY <1>4, Zenon
<1> HIDE DEF Sums, h
<1>6. IsSum(h, RowCounts(U), S)
  BY <1>3, <1>5
<1> QED
  BY <1>1, <1>6, TotalIs

LEMMA StoredIsTotal ==
  ASSUME NEW U, IsFiniteSet(DOMAIN U), \A id \in DOMAIN U : Lengths(U)[id] \in Nat
  PROVE  Stored(U) = Total(Lengths(U), DOMAIN U)
<1> DEFINE S == DOMAIN U
           Sums(g) == g = [s \in SUBSET S |-> IF s = {} THEN 0
                ELSE Len(Bytes(U[CHOOSE x \in s : TRUE])) + g[s \ {CHOOSE x \in s : TRUE}]]
           h == CHOOSE g : Sums(g)
<1>1. Stored(U) = h[S]
  BY Zenon DEF Stored, MapThenSumSet, MapThenFoldSet
<1>2. ASSUME NEW s \in SUBSET S, s # {}
      PROVE  Lengths(U)[CHOOSE x \in s : TRUE] = Len(Bytes(U[CHOOSE x \in s : TRUE]))
  BY <1>2 DEF Lengths
<1>3. ASSUME NEW g  PROVE Sums(g) <=> IsSum(g, Lengths(U), S)
  BY <1>2 DEF IsSum, Some
<1>4. \E g : Sums(g)
  <2> HIDE DEF Sums
  <2> QED
    BY <1>3, SumExists
<1>5. Sums(h)
  <2> HIDE DEF Sums
  <2> QED
    BY <1>4, Zenon
<1> HIDE DEF Sums, h
<1>6. IsSum(h, Lengths(U), S)
  BY <1>3, <1>5
<1> QED
  BY <1>1, <1>6, TotalIs

----------------------------------------------------------------------------
(* A table of uploads, each of whose chunks lie one behind the other; what *)
(* is finished came whole; and neither what is reserved nor the rows of    *)
(* chunks exceed their bound.                                              *)
Kept(U) ==
  /\ IsFiniteSet(DOMAIN U)
  /\ \A id \in DOMAIN U :
       /\ IsUpload(U[id])
       /\ Laid(U[id])
       /\ U[id].complete => U[id].received = U[id].file.size
  /\ Reserved(U) <= Quota
  /\ ChunkRows(U) <= ChunkRowsMax

LEMMA BoundsAreNumbers == Quota \in Nat /\ ChunkRowsMax \in Nat
<1>1. /\ Quota \in Nat /\ ChunkBytes \in Nat \ {0} /\ RowSlack \in Nat
      /\ Quota + ChunkBytes - 1 \in Nat
  BY FileStoreAssumption
<1>2. ASSUME NEW a \in Nat, NEW b \in Nat \ {0}  PROVE a \div b \in Nat
  OBVIOUS
<1>3. (Quota + ChunkBytes - 1) \div ChunkBytes \in Nat
  BY <1>1, <1>2
<1> QED
  BY <1>1, <1>3 DEF ChunkRowsMax

LEMMA CountsAreNumbers ==
  ASSUME NEW u, IsUpload(u), Laid(u)
  PROVE  /\ u.file.size \in Nat
         /\ IsFiniteSet(DOMAIN u.chunks)
         /\ Cardinality(DOMAIN u.chunks) \in Nat
<1>1. u.received \in Nat /\ DOMAIN u.chunks \subseteq 0..u.received
  BY ChunkTypes
<1>2. u.file.size \in Nat
  BY FileStoreAssumption DEF IsUpload
<1> QED
  BY <1>1, <1>2, FiniteBelow

LEMMA TotalsOfTable ==
  ASSUME NEW U, IsFiniteSet(DOMAIN U), \A id \in DOMAIN U : IsUpload(U[id]) /\ Laid(U[id])
  PROVE  /\ \A id \in DOMAIN U : Sizes(U)[id] \in Nat /\ RowCounts(U)[id] \in Nat
         /\ Reserved(U) = Total(Sizes(U), DOMAIN U)
         /\ ChunkRows(U) = Total(RowCounts(U), DOMAIN U)
         /\ Reserved(U) \in Nat /\ ChunkRows(U) \in Nat
<1>1. \A id \in DOMAIN U : Sizes(U)[id] \in Nat /\ RowCounts(U)[id] \in Nat
  BY CountsAreNumbers DEF Sizes, RowCounts
<1>2. /\ Reserved(U) = Total(Sizes(U), DOMAIN U)
      /\ ChunkRows(U) = Total(RowCounts(U), DOMAIN U)
  BY <1>1, ReservedIsTotal, ChunkRowsIsTotal
<1>3. /\ \A id \in DOMAIN U : Sizes(U)[id] <= Sizes(U)[id]
      /\ \A id \in DOMAIN U : RowCounts(U)[id] <= RowCounts(U)[id]
      /\ DOMAIN U \in SUBSET DOMAIN U
  BY <1>1
<1>4. Total(Sizes(U), DOMAIN U) \in Nat /\ Total(RowCounts(U), DOMAIN U) \in Nat
  BY <1>1, <1>3, TotalOfLess
<1> QED
  BY <1>1, <1>2, <1>4

LEMMA NothingIsKept == Kept(NoRows)
<1>1. DOMAIN NoRows = {} /\ IsFiniteSet({})
  BY FS_EmptySet DEF NoRows
<1>2. Reserved(NoRows) = 0 /\ ChunkRows(NoRows) = 0
  BY <1>1, TotalsOfTable, TotalOfNone
<1> QED
  BY <1>1, <1>2, BoundsAreNumbers DEF Kept

(* Rows that go, and rows that keep their file and their chunks.           *)
LEMMA LessIsKept ==
  ASSUME NEW U, Kept(U), NEW V, DOMAIN V \subseteq DOMAIN U,
         \A id \in DOMAIN V :
           /\ IsUpload(V[id])
           /\ V[id].file = U[id].file
           /\ V[id].received = U[id].received
           /\ V[id].chunks = U[id].chunks
           /\ V[id].complete => V[id].received = V[id].file.size
  PROVE  Kept(V)
<1>1. IsFiniteSet(DOMAIN U) /\ IsFiniteSet(DOMAIN V)
  BY FS_Subset DEF Kept
<1>2. ASSUME NEW id \in DOMAIN V  PROVE Laid(V[id])
  BY DEF Kept, Laid, EndOf
<1>3. \A id \in DOMAIN V : Sizes(V)[id] = Sizes(U)[id] /\ RowCounts(V)[id] = RowCounts(U)[id]
  BY DEF Sizes, RowCounts
<1>4. /\ \A id \in DOMAIN U : Sizes(U)[id] \in Nat /\ RowCounts(U)[id] \in Nat
      /\ Reserved(U) = Total(Sizes(U), DOMAIN U) /\ Reserved(U) \in Nat
      /\ ChunkRows(U) = Total(RowCounts(U), DOMAIN U) /\ ChunkRows(U) \in Nat
  BY <1>1, TotalsOfTable DEF Kept
<1>5. /\ Reserved(V) = Total(Sizes(V), DOMAIN V) /\ Reserved(V) \in Nat
      /\ ChunkRows(V) = Total(RowCounts(V), DOMAIN V) /\ ChunkRows(V) \in Nat
  BY <1>1, <1>2, TotalsOfTable
<1>6. /\ \A id \in DOMAIN V : Sizes(V)[id] \in Nat /\ Sizes(V)[id] <= Sizes(U)[id]
      /\ \A id \in DOMAIN V : RowCounts(V)[id] \in Nat /\ RowCounts(V)[id] <= RowCounts(U)[id]
  BY <1>3, <1>4
<1>7. Total(Sizes(V), DOMAIN V) <= Total(Sizes(U), DOMAIN U)
  BY <1>1, <1>4, <1>6, TotalOfLess
<1>8. Total(RowCounts(V), DOMAIN V) <= Total(RowCounts(U), DOMAIN U)
  BY <1>1, <1>4, <1>6, TotalOfLess
<1>9. Reserved(V) <= Quota /\ ChunkRows(V) <= ChunkRowsMax
  BY <1>4, <1>5, <1>7, <1>8, BoundsAreNumbers DEF Kept
<1> QED
  BY <1>1, <1>2, <1>9 DEF Kept

(* An upload that begins reserves what fits.                               *)
LEMMA NewUploadIsKept ==
  ASSUME NEW U, Kept(U), NEW id, id \notin DOMAIN U, NEW row, IsUpload(row),
         row.received = 0, row.chunks = NoRows, row.complete = FALSE, Fits(U, row.file)
  PROVE  Kept(With(U, id, row))
<1> DEFINE V == With(U, id, row)
           D == DOMAIN U
<1>1. /\ DOMAIN V = D \cup {id}
      /\ V[id] = row
      /\ \A i \in D : V[i] = U[i]
  BY DEF With
<1> HIDE DEF V
<1>2. IsFiniteSet(D) /\ IsFiniteSet(DOMAIN V)
  BY <1>1, FS_AddElement DEF Kept
<1>3. DOMAIN row.chunks = {} /\ Cardinality(DOMAIN row.chunks) = 0
  BY FS_EmptySet DEF NoRows
<1>4. Laid(row)
  BY <1>3 DEF Laid
<1>5. /\ \A i \in D : Sizes(U)[i] \in Nat /\ RowCounts(U)[i] \in Nat
      /\ Reserved(U) = Total(Sizes(U), D) /\ Reserved(U) \in Nat
      /\ ChunkRows(U) = Total(RowCounts(U), D) /\ ChunkRows(U) \in Nat
  BY <1>2, TotalsOfTable DEF Kept
<1>6. \A i \in DOMAIN V : IsUpload(V[i]) /\ Laid(V[i])
  BY <1>1, <1>4 DEF Kept
<1>7. /\ Reserved(V) = Total(Sizes(V), DOMAIN V)
      /\ ChunkRows(V) = Total(RowCounts(V), DOMAIN V)
  BY <1>2, <1>6, TotalsOfTable
<1>8. /\ \A i \in D : Sizes(V)[i] = Sizes(U)[i] /\ RowCounts(V)[i] = RowCounts(U)[i]
      /\ Sizes(V)[id] = row.file.size /\ RowCounts(V)[id] = 0
  BY <1>1, <1>3 DEF Sizes, RowCounts
<1>9. row.file.size \in Nat
  BY <1>4, CountsAreNumbers
<1>10. Total(Sizes(V), D \cup {id}) = Total(Sizes(U), D) + row.file.size
  <2>1. Sizes(V)[id] \in Nat
    BY <1>8, <1>9
  <2> HIDE DEF D
  <2>2. id \notin D
    BY DEF D
  <2>3. ASSUME NEW w, w = Sizes(U), NEW v, v = Sizes(V)
        PROVE  Total(v, D \cup {id}) = Total(w, D) + v[id]
    BY <1>2, <1>5, <1>8, <2>1, <2>2, <2>3, TotalWithOne
  <2>4. Total(Sizes(V), D \cup {id}) = Total(Sizes(U), D) + Sizes(V)[id]
    BY <2>3
  <2> QED
    BY <1>8, <2>4
<1>11. Total(RowCounts(V), D \cup {id}) = Total(RowCounts(U), D) + 0
  <2>1. RowCounts(V)[id] \in Nat
    BY <1>8
  <2> HIDE DEF D
  <2>2. id \notin D
    BY DEF D
  <2>3. ASSUME NEW w, w = RowCounts(U), NEW v, v = RowCounts(V)
        PROVE  Total(v, D \cup {id}) = Total(w, D) + v[id]
    BY <1>2, <1>5, <1>8, <2>1, <2>2, <2>3, TotalWithOne
  <2>4. Total(RowCounts(V), D \cup {id}) = Total(RowCounts(U), D) + RowCounts(V)[id]
    BY <2>3
  <2> QED
    BY <1>8, <2>4
<1>12. Reserved(V) = Reserved(U) + row.file.size /\ ChunkRows(V) = ChunkRows(U)
  BY <1>1, <1>5, <1>7, <1>10, <1>11
<1>13. Reserved(V) <= Quota /\ ChunkRows(V) <= ChunkRowsMax
  BY <1>12 DEF Fits, Kept
<1>14. \A i \in DOMAIN V : V[i].complete => V[i].received = V[i].file.size
  BY <1>1 DEF Kept
<1> QED
  BY <1>2, <1>6, <1>13, <1>14 DEF Kept, V

(* A chunk is put behind the last one.                                     *)
LEMMA NextChunkIsLaid ==
  ASSUME NEW u, IsUpload(u), Laid(u), NEW bytes \in Payloads, NEW row,
         row.received = u.received + Len(bytes),
         row.chunks = With(u.chunks, u.received, bytes)
  PROVE  /\ Laid(row)
         /\ Cardinality(DOMAIN row.chunks) = Cardinality(DOMAIN u.chunks) + 1
<1> DEFINE D == DOMAIN u.chunks
           r == u.received
<1>1. /\ r \in Nat
      /\ \A o \in D : o \in Nat /\ EndOf(u, o) \in Nat /\ o < r
  BY ChunkTypes
<1>2. Len(bytes) \in Nat \ {0}
  <2>1. Len(bytes) \in 1..ChunkBytes /\ ChunkBytes \in Nat
    BY FileStoreAssumption
  <2> QED
    BY <2>1
<1>3. r \notin D
  BY <1>1
<1>4. /\ DOMAIN row.chunks = D \cup {r}
      /\ row.chunks[r] = bytes
      /\ \A o \in D : row.chunks[o] = u.chunks[o]
  BY <1>3 DEF With
<1>5. /\ \A o \in D : EndOf(row, o) = EndOf(u, o)
      /\ EndOf(row, r) = row.received
  BY <1>4 DEF EndOf
<1>6. Cardinality(D \cup {r}) = Cardinality(D) + 1
  BY <1>3, FS_AddElement, CountsAreNumbers
<1>7. /\ \A o \in D : EndOf(u, o) <= r
      /\ \A o \in D : EndOf(u, o) \in D \cup {r}
      /\ \A o, d \in D : o < d => EndOf(u, o) <= d
      /\ r # 0 => 0 \in D
  BY DEF Laid
<1>8. row.received \in Nat /\ r <= row.received
  BY <1>1, <1>2
<1> HIDE DEF D, r
<1>9. \A o \in DOMAIN row.chunks : EndOf(row, o) <= row.received
  BY <1>1, <1>4, <1>5, <1>7, <1>8
<1>10. \A o \in DOMAIN row.chunks : EndOf(row, o) \in DOMAIN row.chunks \cup {row.received}
  BY <1>4, <1>5, <1>7
<1>11. \A o, d \in DOMAIN row.chunks : o < d => EndOf(row, o) <= d
  BY <1>1, <1>4, <1>5, <1>7
<1>12. 0 \in DOMAIN row.chunks
  BY <1>4, <1>7
<1> QED
  BY <1>4, <1>6, <1>9, <1>10, <1>11, <1>12 DEF Laid, D

LEMMA NextChunkIsKept ==
  ASSUME NEW U, Kept(U), NEW id \in DOMAIN U, NEW bytes \in Payloads, NEW row, IsUpload(row),
         row.file = U[id].file,
         row.received = U[id].received + Len(bytes),
         row.chunks = With(U[id].chunks, U[id].received, bytes),
         row.complete = FALSE, ChunkRows(U) < ChunkRowsMax
  PROVE  Kept([U EXCEPT ![id] = row])
<1> DEFINE V == [U EXCEPT ![id] = row]
           D == DOMAIN U
           E == D \ {id}
<1>1. /\ DOMAIN V = D
      /\ V[id] = row
      /\ \A i \in E : V[i] = U[i]
  OBVIOUS
<1> HIDE DEF V
<1>2. /\ D = E \cup {id} /\ id \notin E /\ E \subseteq D
      /\ IsFiniteSet(D) /\ IsFiniteSet(E)
  BY FS_Subset DEF Kept
<1>3. Laid(row) /\ Cardinality(DOMAIN row.chunks) = Cardinality(DOMAIN U[id].chunks) + 1
  BY NextChunkIsLaid DEF Kept
<1>4. \A i \in D : IsUpload(V[i]) /\ Laid(V[i])
  BY <1>1, <1>2, <1>3 DEF Kept
<1>5. /\ \A i \in D : Sizes(U)[i] \in Nat /\ RowCounts(U)[i] \in Nat
      /\ Reserved(U) = Total(Sizes(U), D) /\ Reserved(U) \in Nat
      /\ ChunkRows(U) = Total(RowCounts(U), D) /\ ChunkRows(U) \in Nat
  BY <1>2, TotalsOfTable DEF Kept
<1>6. /\ \A i \in D : Sizes(V)[i] \in Nat /\ RowCounts(V)[i] \in Nat
      /\ Reserved(V) = Total(Sizes(V), D)
      /\ ChunkRows(V) = Total(RowCounts(V), D)
  BY <1>1, <1>2, <1>4, TotalsOfTable
<1>7. /\ \A i \in D : Sizes(V)[i] = Sizes(U)[i]
      /\ \A i \in E : RowCounts(V)[i] = RowCounts(U)[i]
      /\ RowCounts(V)[id] = RowCounts(U)[id] + 1
  BY <1>1, <1>2, <1>3 DEF Sizes, RowCounts
<1> HIDE DEF E
<1>8. Total(Sizes(V), D) <= Total(Sizes(U), D)
  <2>1. D \in SUBSET D /\ \A i \in D : Sizes(V)[i] <= Sizes(U)[i]
    BY <1>5, <1>7
  <2> HIDE DEF D
  <2> QED
    BY <1>2, <1>5, <1>6, <2>1, TotalOfLess
<1>9. /\ Total(RowCounts(U), E) \in Nat
      /\ Total(RowCounts(U), E \cup {id}) = Total(RowCounts(U), E) + RowCounts(U)[id]
      /\ Total(RowCounts(V), E \cup {id}) = Total(RowCounts(U), E) + RowCounts(V)[id]
  <2>1. \A i \in E : RowCounts(U)[i] \in Nat
    BY <1>2, <1>5
  <2>2. RowCounts(U)[id] \in Nat /\ RowCounts(V)[id] \in Nat
    BY <1>5, <1>6
  <2> HIDE DEF D
  <2>3. ASSUME NEW w, \A i \in E : w[i] \in Nat,
               NEW v, v[id] \in Nat, \A i \in E : v[i] = w[i]
        PROVE  /\ Total(w, E) \in Nat
               /\ Total(v, E \cup {id}) = Total(w, E) + v[id]
    <3>1. IsFiniteSet(E) /\ id \notin E
      BY <1>2
    <3> QED
      BY <2>3, <3>1, TotalWithOne
  <2> QED
    BY <1>7, <2>1, <2>2, <2>3
<1>10. Total(RowCounts(V), D) = Total(RowCounts(U), D) + 1
  <2>1. RowCounts(U)[id] \in Nat
    BY <1>5
  <2> QED
    BY <1>2, <1>7, <1>9, <2>1
<1>11. Reserved(V) <= Quota /\ ChunkRows(V) <= ChunkRowsMax
  <2>1. Reserved(V) \in Nat /\ ChunkRows(V) = ChunkRows(U) + 1
    BY <1>1, <1>2, <1>4, <1>5, <1>6, <1>10, TotalsOfTable
  <2> QED
    BY <1>5, <1>6, <1>8, <2>1, BoundsAreNumbers DEF Kept
<1>12. \A i \in D : V[i].complete => V[i].received = V[i].file.size
  BY <1>1, <1>2 DEF Kept
<1> QED
  BY <1>1, <1>2, <1>4, <1>11, <1>12 DEF Kept, V

----------------------------------------------------------------------------
(* Every step keeps them so.                                               *)

LEMMA SyncedIsKept == ASSUME Kept(uploads) PROVE Kept(SyncedUploads)
BY NothingIsKept DEF SyncedUploads

LEMMA ExpiryIsKept ==
  ASSUME NEW U, Kept(U), NEW now
  PROVE  Kept(Unexpired(U, now))
<1> DEFINE V == Unexpired(U, now)
<1>1. DOMAIN V \subseteq DOMAIN U /\ \A id \in DOMAIN V : V[id] = U[id]
  BY DEF Unexpired, Restrict
<1> HIDE DEF V
<1>2. \A id \in DOMAIN V :
        /\ IsUpload(V[id])
        /\ V[id].file = U[id].file
        /\ V[id].received = U[id].received
        /\ V[id].chunks = U[id].chunks
        /\ V[id].complete => V[id].received = V[id].file.size
  BY <1>1 DEF Kept
<1>3. Kept(V)
  BY <1>1, <1>2, LessIsKept
<1> QED
  BY <1>3 DEF V

LEMMA BeginIsKept ==
  ASSUME IInv, IInv', Kept(uploads), NEW p \in Peers, NEW f \in Files, NEW now \in 0..ClockMax,
         Begin(p, f, now)
  PROVE  Kept(uploads)'
<1> DEFINE U == Unexpired(SyncedUploads, now)
           row == [peer |-> p, file |-> f, received |-> 0, complete |-> FALSE,
                   expires |-> now + Retention, chunks |-> NoRows, gen |-> current_generation]
<1>1. PICK id \in UploadIds \ issued : uploads' = With(U, id, row)
  BY DEF Begin
<1>2. Kept(U) /\ Fits(U, f)
  BY SyncedIsKept, ExpiryIsKept DEF Begin
<1>3. id \notin DOMAIN U
  <2>1. DOMAIN U \subseteq issued
    BY SyncedIsGood DEF Unexpired, Restrict
  <2> QED
    BY <2>1
<1>4. /\ row.received = 0 /\ row.chunks = NoRows /\ row.complete = FALSE /\ row.file = f
  OBVIOUS
<1> HIDE DEF U, row
<1>5. IsUpload(row)
  <2>1. id \in DOMAIN uploads' /\ uploads'[id] = row
    BY <1>1 DEF With
  <2> QED
    BY <2>1 DEF IInv, TypeOK
<1>6. Kept(With(U, id, row))
  BY <1>2, <1>3, <1>4, <1>5, NewUploadIsKept
<1> QED
  BY <1>1, <1>6

LEMMA AppendIsKept ==
  ASSUME IInv, IInv', Kept(uploads), NEW p \in Peers, NEW id \in UploadIds,
         NEW bytes \in Payloads, NEW now \in 0..ClockMax, AppendChunk(p, id, bytes, now)
  PROVE  Kept(uploads)'
<1> DEFINE U == SyncedUploads
           u == U[id]
           end == u.received + Len(bytes)
           row == [u EXCEPT !.received = end, !.chunks = With(@, u.received, bytes)]
<1>1. /\ id \in DOMAIN U /\ ~u.complete /\ ChunkRows(U) < ChunkRowsMax
      /\ uploads' = [U EXCEPT ![id] = row]
  BY DEF AppendChunk, Own
<1>2. Kept(U) /\ IsUpload(u)
  BY <1>1, SyncedIsKept DEF Kept
<1>3. row = [peer |-> u.peer, file |-> u.file, received |-> end, complete |-> u.complete,
             expires |-> u.expires, chunks |-> With(u.chunks, u.received, bytes), gen |-> u.gen]
  BY <1>2, UploadContinued
<1>4. /\ row.file = u.file /\ row.received = u.received + Len(bytes)
      /\ row.chunks = With(u.chunks, u.received, bytes)
      /\ row.complete = FALSE
  <2>1. u.complete \in BOOLEAN
    BY <1>2 DEF IsUpload
  <2>2. u.complete = FALSE
    BY <1>1, <2>1
  <2> QED
    BY <1>3, <2>2
<1> HIDE DEF row
<1>5. IsUpload(row)
  <2>1. id \in DOMAIN uploads' /\ uploads'[id] = row
    BY <1>1
  <2> QED
    BY <2>1 DEF IInv, TypeOK
<1> HIDE DEF U
<1>6. Kept([U EXCEPT ![id] = row])
  BY <1>1, <1>2, <1>4, <1>5, NextChunkIsKept
<1> QED
  BY <1>1, <1>6

LEMMA FinishIsKept ==
  ASSUME IInv, IInv', Kept(uploads), NEW p \in Peers, NEW id \in UploadIds,
         NEW now \in 0..ClockMax, Finish(p, id, now)
  PROVE  Kept(uploads)'
<1> DEFINE U == SyncedUploads
           row == [U[id] EXCEPT !.complete = TRUE]
<1>1. /\ id \in DOMAIN U /\ U[id].received = U[id].file.size
      /\ uploads' = [U EXCEPT ![id] = row]
  BY DEF Finish, Own
<1>2. Kept(U) /\ IsUpload(U[id])
  BY <1>1, SyncedIsKept DEF Kept
<1>3. row = [peer |-> U[id].peer, file |-> U[id].file, received |-> U[id].received,
             complete |-> TRUE, expires |-> U[id].expires, chunks |-> U[id].chunks,
             gen |-> U[id].gen]
  BY <1>2, UploadFinished
<1>4. /\ row.file = U[id].file /\ row.received = U[id].received
      /\ row.chunks = U[id].chunks
  BY <1>3
<1> HIDE DEF row, U
<1>5. /\ DOMAIN uploads' = DOMAIN U
      /\ uploads'[id] = row
      /\ \A i \in DOMAIN U : i # id => uploads'[i] = U[i]
  BY <1>1
<1>6. \A i \in DOMAIN uploads' : IsUpload(uploads'[i])
  BY DEF IInv, TypeOK
<1>7. \A i \in DOMAIN uploads' :
        /\ IsUpload(uploads'[i])
        /\ uploads'[i].file = U[i].file
        /\ uploads'[i].received = U[i].received
        /\ uploads'[i].chunks = U[i].chunks
        /\ uploads'[i].complete => uploads'[i].received = uploads'[i].file.size
  BY <1>1, <1>2, <1>4, <1>5, <1>6 DEF Kept
<1> QED
  BY <1>2, <1>5, <1>7, LessIsKept

LEMMA PublishIsKept ==
  ASSUME IInv, IInv', Kept(uploads), NEW p \in Peers, NEW clip \in ClipIds,
         NEW n \in 1..MembersMax, NEW members \in [1..n -> UploadIds], NEW now \in 0..ClockMax,
         Publish(p, clip, members, now)
  PROVE  Kept(uploads)'
<1> DEFINE U == SyncedUploads
           V == [id \in DOMAIN U |->
                   IF id \in Range(members)
                     THEN [U[id] EXCEPT !.expires = ExpiresWith(U[id], now + Retention)]
                     ELSE U[id]]
<1>1. uploads' = V
  BY DEF Publish
<1>2. Kept(U)
  BY SyncedIsKept
<1>3. DOMAIN V = DOMAIN U /\ \A id \in DOMAIN V : IsUpload(V[id])
  BY <1>1 DEF IInv, TypeOK
<1>4. ASSUME NEW id \in DOMAIN U
      PROVE  /\ V[id].file = U[id].file
             /\ V[id].received = U[id].received
             /\ V[id].chunks = U[id].chunks
             /\ V[id].complete = U[id].complete
  <2>1. U[id] = [peer |-> U[id].peer, file |-> U[id].file, received |-> U[id].received,
                 complete |-> U[id].complete, expires |-> U[id].expires,
                 chunks |-> U[id].chunks, gen |-> U[id].gen]
    BY <1>2 DEF Kept, IsUpload
  <2> HIDE DEF U
  <2>2. V[id] = U[id] \/ V[id] = [U[id] EXCEPT !.expires = ExpiresWith(U[id], now + Retention)]
    OBVIOUS
  <2> QED
    BY <2>1, <2>2
<1> HIDE DEF V, U
<1>5. \A id \in DOMAIN V :
        /\ IsUpload(V[id])
        /\ V[id].file = U[id].file
        /\ V[id].received = U[id].received
        /\ V[id].chunks = U[id].chunks
        /\ V[id].complete => V[id].received = V[id].file.size
  BY <1>2, <1>3, <1>4 DEF Kept
<1>6. Kept(V)
  BY <1>2, <1>3, <1>5, LessIsKept
<1> QED
  BY <1>1, <1>6

KeptInv == IInv /\ Kept(uploads)

LEMMA KeptStep == KeptInv /\ [Next]_vars => KeptInv'
<1> SUFFICES ASSUME IInv, IInv', Kept(uploads), [Next]_vars  PROVE Kept(uploads)'
  BY StepKeeps DEF KeptInv
<1>1. CASE Reconcile \/ FollowClear
  BY <1>1, SyncedIsKept DEF Reconcile, FollowClear, SyncGeneration
<1>2. CASE CommitClear \/ AbandonClear \/ UNCHANGED vars
  BY <1>2 DEF CommitClear, AbandonClear, vars, rows
<1>3. ASSUME NEW now \in 0..ClockMax, Expire(now) PROVE Kept(uploads)'
  BY <1>3, ExpiryIsKept DEF Expire
<1>4. ASSUME NEW now \in 0..ClockMax, NEW p \in Peers, NEW f \in Files, Begin(p, f, now)
      PROVE  Kept(uploads)'
  BY <1>4, BeginIsKept
<1>5. ASSUME NEW now \in 0..ClockMax, NEW p \in Peers, NEW id \in UploadIds,
             NEW bytes \in Payloads, AppendChunk(p, id, bytes, now)
      PROVE  Kept(uploads)'
  BY <1>5, AppendIsKept
<1>6. ASSUME NEW now \in 0..ClockMax, NEW p \in Peers, NEW id \in UploadIds, Finish(p, id, now)
      PROVE  Kept(uploads)'
  BY <1>6, FinishIsKept
<1>7. ASSUME NEW now \in 0..ClockMax, NEW p \in Peers, NEW clip \in ClipIds,
             NEW n \in 1..MembersMax, NEW members \in [1..n -> UploadIds],
             Publish(p, clip, members, now)
      PROVE  Kept(uploads)'
  BY <1>7, PublishIsKept
<1> QED
  BY <1>1, <1>2, <1>3, <1>4, <1>5, <1>6, <1>7 DEF Next, Handle

LEMMA KeptInductive == Spec => []KeptInv
<1>1. Init => KeptInv
  <2>1. Init => uploads = NoRows
    BY DEF Init
  <2> QED
    BY <2>1, InitKeeps, NothingIsKept DEF KeptInv
<1> QED
  BY <1>1, KeptStep, PTL DEF Spec

(* What is stored never exceeds what was reserved before a byte was sent,  *)
(* nor the reservations the quota, nor the rows of chunks their bound,     *)
(* whatever expires, is cleared or is lost (begin, append, expire).        *)
THEOREM StorageAlwaysBounded == Spec => []StorageBounded
<1>1. ASSUME KeptInv PROVE StorageBounded
  <2> DEFINE U == uploads
             D == DOMAIN U
  <2>1. /\ IsFiniteSet(D)
        /\ \A id \in D : IsUpload(U[id]) /\ Laid(U[id])
        /\ Reserved(U) <= Quota /\ ChunkRows(U) <= ChunkRowsMax
    BY <1>1 DEF KeptInv, Kept
  <2>2. ASSUME NEW id \in D
        PROVE  Lengths(U)[id] \in Nat /\ Lengths(U)[id] <= Sizes(U)[id]
    <3>1. Len(Bytes(U[id])) = U[id].received /\ U[id].received \in 0..U[id].file.size
      BY <2>1, BytesAreLaid DEF IsUpload
    <3>2. U[id].file.size \in Nat
      BY <2>1, CountsAreNumbers
    <3> QED
      BY <3>1, <3>2 DEF Lengths, Sizes
  <2>3. /\ \A id \in D : Sizes(U)[id] \in Nat
        /\ Reserved(U) = Total(Sizes(U), D)
    BY <2>1, TotalsOfTable
  <2>4. Stored(U) = Total(Lengths(U), D)
    BY <2>1, <2>2, StoredIsTotal
  <2>5. Total(Lengths(U), D) <= Total(Sizes(U), D)
    <3>1. D \in SUBSET D
      OBVIOUS
    <3> HIDE DEF D
    <3> QED
      BY <2>1, <2>2, <2>3, <3>1, TotalOfLess
  <2> QED
    BY <2>1, <2>3, <2>4, <2>5 DEF StorageBounded, Stored
<1> QED
  BY <1>1, KeptInductive, PTL

(* Every read of every member of a listed selection, at every offset,      *)
(* yields the bytes the manifest promises, however the upload came in      *)
(* chunks (publish, append, finish, chunk, published_chunk).               *)
THEOREM ReadsAlwaysWhole == Spec => []ReadsAreWhole
<1>1. ASSUME KeptInv PROVE ReadsAreWhole
  <2> SUFFICES ASSUME NEW c \in DOMAIN file_clips, NEW i \in DOMAIN file_clips[c].uploads
               PROVE  LET u == uploads[file_clips[c].uploads[i]]
                          f == file_clips[c].manifest[i]
                      IN  /\ u.complete
                          /\ u.expires >= file_clips[c].expires
                          /\ \A offset \in 0..f.size :
                               PublishedChunk(c, i, offset) =
                                 SubSeq(f.hash, offset + 1, Min({f.size, offset + ChunkBytes}))
    BY DEF ReadsAreWhole
  <2> DEFINE m == file_clips[c].uploads[i]
             u == uploads[m]
             f == file_clips[c].manifest[i]
  <2>1. m \in DOMAIN uploads /\ u.complete /\ u.file = f /\ u.expires >= file_clips[c].expires
    BY <1>1 DEF KeptInv, IInv, Good, MembersOutlive, Outlived
  <2>2. Bytes(u) = u.file.hash
    BY <1>1, <2>1 DEF KeptInv, IInv, Good, FinishedIsWhole
  <2>3. IsUpload(u) /\ Laid(u) /\ u.received = u.file.size
    BY <1>1, <2>1 DEF KeptInv, Kept
  <2>4. ASSUME NEW offset \in 0..f.size
        PROVE  PublishedChunk(c, i, offset)
                 = SubSeq(f.hash, offset + 1, Min({f.size, offset + ChunkBytes}))
    <3>1. PublishedChunk(c, i, offset) = Chunk(u, offset)
      BY DEF PublishedChunk
    <3> HIDE DEF u, f
    <3> QED
      BY <2>1, <2>2, <2>3, <3>1, ReadIsWhole
  <2> QED
    BY <2>1, <2>4
<1> QED
  BY <1>1, KeptInductive, PTL
=============================================================================
