----------------------------- MODULE FileStore -----------------------------
(***************************************************************************)
(* The hub's store of files: uploads that grow chunk by chunk, and the     *)
(* selections that are published of them                                   *)
(* (crates/clipmesh-hub-core/src/file_store.rs), as the hub's edge calls   *)
(* it (crates/clipmesh-hub-edge/src/lib.rs).                               *)
(*                                                                         *)
(* The edge keeps the store behind one mutex and holds it from before it   *)
(* reads the core's clear generation until the reply is on the socket, so  *)
(* a message is one action.  What the store refuses rolls back; only that  *)
(* the message first brought the store to the core's generation stays, and *)
(* that is the action Reconcile.                                           *)
(*                                                                         *)
(* The worker reads the clock before it waits for a message, and the clock *)
(* may be set back: every message carries a time of its own.               *)
(*                                                                         *)
(* A file's hash stands for the one content that has it.  Names and media  *)
(* types are left out, and with them the checks of a manifest's wording.   *)
(***************************************************************************)
EXTENDS Integers, Sequences, FiniteSets, SequencesExt, Ordered

CONSTANTS
  Peers,         \* the peers that send messages
  Files,         \* descriptors: [size, hash], hash being a sequence of bytes
  Payloads,      \* what a chunk may carry: non-empty sequences of bytes
  UploadIds,     \* bound: the ids the store ever hands out
  ClipIds,       \* ids of selections, chosen by the clients
  ChunkBytes,    \* FILE_CHUNK_BYTES
  Quota,         \* bytes of uploads
  UploadMax,     \* rows of file_uploads
  ClipMax,       \* rows of file_clips
  RowSlack,      \* rows of file_chunks beyond four for every full chunk
  MembersMax,    \* MAX_FILES_PER_CLIP
  Retention,     \* how long an upload or a selection stays
  ClockMax,      \* bound: the last instant of the clock
  GenerationMax  \* bound: the last clear generation

Bits == UNION {Range(p) : p \in Payloads}

ASSUME FileStoreAssumption ==
  /\ \A b \in Payloads : b \in Seq(Bits) /\ Len(b) \in 1..ChunkBytes
  /\ \A f \in Files : f.size \in Nat /\ f.hash \in Seq(Bits)
  /\ ChunkBytes \in Nat \ {0}
  /\ Quota \in Nat /\ UploadMax \in Nat /\ ClipMax \in Nat /\ RowSlack \in Nat
  /\ MembersMax \in Nat
  /\ Retention \in Nat \ {0}
  /\ ClockMax \in Nat
  /\ GenerationMax \in Nat \ {0}

VARIABLES
  file_generation,     \* the row of that table, or 0 when there is none
  uploads,             \* rows of file_uploads with their file_chunks, by id
  file_clips,          \* rows of file_clips with their members, by id
  issued,              \* ids of uploads handed out; a UUID never comes twice
  current_generation,  \* what the core's clear_generation() returns
  clearing             \* whether handle_clear holds the store between the
                       \* core's commit and the store's

rows == <<file_generation, uploads, file_clips, issued>>
vars == <<rows, current_generation, clearing>>

----------------------------------------------------------------------------
(* Rows.                                                                   *)

NoRows == [id \in {} |-> id]

With(table, id, row) ==
  [i \in DOMAIN table \cup {id} |-> IF i = id THEN row ELSE table[i]]

(* A row that has expired stays until something deletes it.                *)
Unexpired(table, now) == Restrict(table, {id \in DOMAIN table : table[id].expires > now})

(* The uploads the selections of C refer to.                               *)
Members(C) == UNION {Range(C[c].uploads) : c \in DOMAIN C}

Reserved(U) == MapThenSumSet(LAMBDA id : U[id].file.size, DOMAIN U)

ChunkRows(U) == MapThenSumSet(LAMBDA id : Cardinality(DOMAIN U[id].chunks), DOMAIN U)

ChunkRowsMax == ((Quota + ChunkBytes - 1) \div ChunkBytes) * 4 + RowSlack

(* gen, the generation a row was made in, is read by properties only.      *)
IsUpload(u) ==
  /\ u = [peer |-> u.peer, file |-> u.file, received |-> u.received,
          complete |-> u.complete, expires |-> u.expires, chunks |-> u.chunks, gen |-> u.gen]
  /\ u.peer \in Peers
  /\ u.file \in Files
  /\ u.received \in 0..u.file.size
  /\ u.complete \in BOOLEAN
  /\ u.expires \in 1..ClockMax + Retention
  /\ \A o \in DOMAIN u.chunks : o \in Nat /\ u.chunks[o] \in Payloads
  /\ u.gen \in 1..GenerationMax

IsSelection(c) ==
  /\ c = [peer |-> c.peer, expires |-> c.expires, uploads |-> c.uploads,
          manifest |-> c.manifest, gen |-> c.gen]
  /\ c.peer \in Peers
  /\ c.expires \in 1..ClockMax + Retention
  /\ \E n \in 1..MembersMax : c.uploads \in [1..n -> UploadIds] /\ c.manifest \in [1..n -> Files]
  /\ c.gen \in 1..GenerationMax

TypeOK ==
  /\ file_generation \in 0..GenerationMax
  /\ current_generation \in 1..GenerationMax
  /\ clearing \in BOOLEAN
  /\ issued \subseteq UploadIds
  /\ DOMAIN uploads \subseteq issued
  /\ \A id \in DOMAIN uploads : IsUpload(uploads[id])
  /\ DOMAIN file_clips \subseteq ClipIds
  /\ \A c \in DOMAIN file_clips : IsSelection(file_clips[c])

----------------------------------------------------------------------------
(* The core's clear generation.                                            *)

(* Mutant: the uploads of before a clear stay.                             *)
UploadsStay == uploads

(* What sync_generation leaves of each table.                              *)
SyncedUploads == IF file_generation = current_generation THEN uploads ELSE NoRows
SyncedClips   == IF file_generation = current_generation THEN file_clips ELSE NoRows

SyncGeneration ==
  /\ file_generation' = current_generation
  /\ uploads' = SyncedUploads
  /\ file_clips' = SyncedClips
  /\ UNCHANGED issued

Init ==
  /\ file_generation = 0
  /\ uploads = NoRows
  /\ file_clips = NoRows
  /\ issued = {}
  /\ current_generation = 1
  /\ clearing = FALSE

(* A message that reads, or that the store refuses, brings the store to    *)
(* the core's generation and does nothing more.                            *)
Reconcile ==
  /\ ~clearing
  /\ SyncGeneration
  /\ UNCHANGED <<current_generation, clearing>>

(* handle_clear takes the store, and the core commits the clear.           *)
CommitClear ==
  /\ ~clearing
  /\ current_generation < GenerationMax
  /\ current_generation' = current_generation + 1
  /\ clearing' = TRUE
  /\ UNCHANGED rows

(* Then the store follows, ...                                             *)
FollowClear ==
  /\ clearing
  /\ SyncGeneration
  /\ clearing' = FALSE
  /\ UNCHANGED current_generation

(* ... or SQLite refuses, or the hub ends and starts again.                *)
AbandonClear ==
  /\ clearing
  /\ clearing' = FALSE
  /\ UNCHANGED <<rows, current_generation>>

----------------------------------------------------------------------------
(* Uploads.                                                                *)

(* Mutant: what is reserved already does not count.                        *)
FitsAlone(U, f) == f.size <= Quota /\ Cardinality(DOMAIN U) < UploadMax

Fits(U, f) == Reserved(U) + f.size <= Quota /\ Cardinality(DOMAIN U) < UploadMax

(* An expired upload goes once the expired selections have gone.  SQLite   *)
(* refuses when a selection still refers to it.                            *)
Deletable(C, U, now) == Members(Unexpired(C, now)) \subseteq DOMAIN Unexpired(U, now)

(* The size is reserved before any byte is sent.                           *)
Begin(p, f, now) ==
  LET C == Unexpired(SyncedClips, now)
      U == Unexpired(SyncedUploads, now)
  IN  /\ ~clearing
      /\ Deletable(SyncedClips, SyncedUploads, now)
      /\ Fits(U, f)
      /\ \E id \in UploadIds \ issued :
           /\ uploads' = With(U, id,
                [peer |-> p, file |-> f, received |-> 0, complete |-> FALSE,
                 expires |-> now + Retention, chunks |-> NoRows,
                 gen |-> current_generation])
           /\ issued' = issued \cup {id}
      /\ file_clips' = C
      /\ file_generation' = current_generation
      /\ UNCHANGED <<current_generation, clearing>>

(* The uploads a message of peer p can name.                               *)
Own(p, now) ==
  {id \in DOMAIN SyncedUploads :
     SyncedUploads[id].peer = p /\ SyncedUploads[id].expires > now}

FitsFile(u, end) == end <= u.file.size

(* A chunk is taken at the offset where the upload stands, and at no       *)
(* other.  One that is already there is only answered.                     *)
AppendChunk(p, id, bytes, now) ==
  LET u   == SyncedUploads[id]
      end == u.received + Len(bytes)
  IN  /\ ~clearing
      /\ id \in Own(p, now)
      /\ ~u.complete
      /\ FitsFile(u, end)
      /\ ChunkRows(SyncedUploads) < ChunkRowsMax
      /\ uploads' = [SyncedUploads EXCEPT ![id] =
           [u EXCEPT !.received = end, !.chunks = With(@, u.received, bytes)]]
      /\ file_clips' = SyncedClips
      /\ file_generation' = current_generation
      /\ UNCHANGED <<issued, current_generation, clearing>>

(* The chunks of an upload joined in the order of their offsets.           *)
Bytes(u) ==
  FlattenSeq([i \in 1..Cardinality(DOMAIN u.chunks) |-> u.chunks[Nth(DOMAIN u.chunks, i)]])

Finish(p, id, now) ==
  LET u == SyncedUploads[id]
  IN  /\ ~clearing
      /\ id \in Own(p, now)
      /\ u.received = u.file.size
      /\ Bytes(u) = u.file.hash
      /\ uploads' = [SyncedUploads EXCEPT ![id] = [u EXCEPT !.complete = TRUE]]
      /\ file_clips' = SyncedClips
      /\ file_generation' = current_generation
      /\ UNCHANGED <<issued, current_generation, clearing>>

----------------------------------------------------------------------------
(* Selections.                                                             *)

(* Mutant: an upload may be published before it is finished.               *)
Begun(id, p, now) == id \in Own(p, now)

Publishable(id, p, now) == id \in Own(p, now) /\ SyncedUploads[id].complete

(* Mutant: a published upload expires when it would have expired anyway.   *)
ExpiresAlone(u, expires) == u.expires

(* A published upload stays as long as its selections.                     *)
ExpiresWith(u, expires) == Max({u.expires, expires})

(* The client sends the manifest too; the store takes none but the one     *)
(* whose descriptors are those of the uploads.  An upload may be in        *)
(* several selections.  A selection whose id is there, be it expired, is   *)
(* never replaced; its retry is only answered.                             *)
Publish(p, clip, members, now) ==
  /\ ~clearing
  /\ clip \notin DOMAIN SyncedClips
  /\ Cardinality(DOMAIN SyncedClips) < ClipMax
  /\ \A i \in DOMAIN members : Publishable(members[i], p, now)
  /\ file_clips' = With(SyncedClips, clip,
       [peer |-> p, expires |-> now + Retention, uploads |-> members,
        manifest |-> [i \in DOMAIN members |-> SyncedUploads[members[i]].file],
        gen |-> current_generation])
  /\ uploads' = [id \in DOMAIN SyncedUploads |->
       IF id \in Range(members)
         THEN [SyncedUploads[id] EXCEPT !.expires = ExpiresWith(SyncedUploads[id], now + Retention)]
         ELSE SyncedUploads[id]]
  /\ file_generation' = current_generation
  /\ UNCHANGED <<issued, current_generation, clearing>>

(* Every sixty seconds the listener deletes what has expired.  It does not *)
(* look at the core's generation.                                          *)
Expire(now) ==
  /\ ~clearing
  /\ Deletable(file_clips, uploads, now)
  /\ file_clips' = Unexpired(file_clips, now)
  /\ uploads' = Unexpired(uploads, now)
  /\ UNCHANGED <<file_generation, issued, current_generation, clearing>>

(* The requests of peer p that write; the others only read.                *)
Handle(p, now) ==
  \/ \E f \in Files : Begin(p, f, now)
  \/ \E id \in UploadIds, bytes \in Payloads : AppendChunk(p, id, bytes, now)
  \/ \E id \in UploadIds : Finish(p, id, now)
  \/ \E clip \in ClipIds, n \in 1..MembersMax :
       \E members \in [1..n -> UploadIds] : Publish(p, clip, members, now)

Next ==
  \/ Reconcile
  \/ CommitClear
  \/ FollowClear
  \/ AbandonClear
  \/ \E now \in 0..ClockMax :
       \/ Expire(now)
       \/ \E p \in Peers : Handle(p, now)

Spec == Init /\ [][Next]_vars

----------------------------------------------------------------------------
(* Reading.                                                                *)

(* Mutant: a read does not look into a row that began before it.           *)
RowsThatBegin(u, offset, end) == {o \in DOMAIN u.chunks : offset <= o /\ o < end}

(* The rows that hold a byte between offset and end.                       *)
RowsBetween(u, offset, end) ==
  {o \in DOMAIN u.chunks : o < end /\ o + Len(u.chunks[o]) > offset}

(* One read, at any offset, whatever the chunks were when they came.       *)
Chunk(u, offset) ==
  LET end     == Min({u.file.size, offset + ChunkBytes})
      between == RowsBetween(u, offset, end)
      Part(o) == SubSeq(u.chunks[o], Max({0, offset - o}) + 1, Min({Len(u.chunks[o]), end - o}))
  IN  FlattenSeq([i \in 1..Cardinality(between) |-> Part(Nth(between, i))])

(* A download names a selection and a place in it, never an upload.        *)
PublishedChunk(clip, i, offset) == Chunk(uploads[file_clips[clip].uploads[i]], offset)

(* The selections a client can list.                                       *)
History(now) == DOMAIN Unexpired(file_clips, now)

(* What the source metadata endpoint lists: it does not reconcile.         *)
HistoryWithSources(now) ==
  {[clip_id |-> c, source_peer_id |-> file_clips[c].peer] : c \in History(now)}

----------------------------------------------------------------------------
(* Safety.                                                                 *)

(* Whenever the expired rows are deleted, no selection that stays refers   *)
(* to an upload that goes: SQLite never refuses, and neither begin nor the *)
(* listener's expiry, whose failure ends the hub, is ever stuck            *)
(* (expire, begin, publish, the foreign key of file_clip_members).         *)
ExpiryNeverRefused == \A now \in 0..ClockMax + Retention : Deletable(file_clips, uploads, now)

(* For as long as a selection is listed, every read of every member of it, *)
(* at every offset, yields the bytes its manifest promises, so that no     *)
(* download ends early, fails or yields another file (publish, append,     *)
(* finish, chunk, published_chunk).                                        *)
ReadsAreWhole ==
  \A c \in DOMAIN file_clips : \A i \in DOMAIN file_clips[c].uploads :
    LET u == uploads[file_clips[c].uploads[i]]
        f == file_clips[c].manifest[i]
    IN  /\ u.complete
        /\ u.expires >= file_clips[c].expires
        /\ \A offset \in 0..f.size :
             PublishedChunk(c, i, offset) =
               SubSeq(f.hash, offset + 1, Min({f.size, offset + ChunkBytes}))

(* What is stored never exceeds what was reserved, nor the reservations    *)
(* the quota, nor the rows their bound (begin, append, expire).            *)
StorageBounded ==
  /\ Reserved(uploads) <= Quota
  /\ MapThenSumSet(LAMBDA id : Len(Bytes(uploads[id])), DOMAIN uploads) <= Reserved(uploads)
  /\ ChunkRows(uploads) <= ChunkRowsMax

(* Whatever the hub lost between the core's commit of a clear and the      *)
(* store's, no message finds an upload or a selection of before the clear, *)
(* nor can it publish one (sync_generation, handle_clear).                 *)
NothingOlderReadable ==
  /\ \A id \in DOMAIN SyncedUploads : SyncedUploads[id].gen = current_generation
  /\ \A c \in DOMAIN SyncedClips :
       /\ SyncedClips[c].gen = current_generation
       /\ Range(SyncedClips[c].uploads) \subseteq DOMAIN SyncedUploads

(* What docs/source-metadata-v1.md says of the endpoint: it lists retained *)
(* file history only.  A clear deletes what was retained.                  *)
SourcesAreRetained ==
  ~clearing => \A now \in 0..ClockMax : \A source \in HistoryWithSources(now) :
    source.clip_id \in DOMAIN SyncedClips

----------------------------------------------------------------------------
(* Refinement: the selections are a shelf.                                 *)

OnShelf ==
  [c \in DOMAIN file_clips |->
     [owner    |-> file_clips[c].peer,
      contents |-> [i \in DOMAIN file_clips[c].uploads |->
                      Bytes(uploads[file_clips[c].uploads[i]])]]]

ShelfContents == UNION {[1..n -> {f.hash : f \in Files}] : n \in 1..MembersMax}

Shelf == INSTANCE FileShelf WITH
  Ids <- ClipIds, Owners <- Peers, Contents <- ShelfContents, shelf <- OnShelf

(* Every step of the store puts a whole selection on the shelf, takes some *)
(* away or leaves it alone.                                                *)
ImplementsFileShelf == Shelf!Spec
=============================================================================
