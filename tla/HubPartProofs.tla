---------------------------- MODULE HubPartProofs ----------------------------
(***************************************************************************)
(* Proofs about the parts around the hub's sessions, which share nothing   *)
(* in these models: the start of the hub, the names of peers and the rate  *)
(* buckets.                                                                *)
(***************************************************************************)
EXTENDS HubStart, PeerDirectory, RateBucket, TLAPS

----------------------------------------------------------------------------
(* HubStart: the inductive invariant.                                      *)

HubStartTypeOK ==
  /\ database \in {"none", "header", "whole"}
  /\ epoch \in Nat /\ generation \in Nat /\ created \in Nat
  /\ hub \in [Hubs -> {"down", "creating", "filling", "validating", "loading", "syncing",
                       "binding", "serving", "clearing"}]
  /\ loaded \in [Hubs -> [epoch : Nat, generation : Nat]]
  /\ overtaken \in BOOLEAN

HasRead(h) == hub[h] \in {"syncing", "binding", "serving", "clearing"}

(* There is an epoch once the tables are whole, who has read it knows it,  *)
(* and one process serves at a time.                                       *)
EpochFits ==
  /\ epoch # 0 <=> database = "whole"
  /\ \A h \in Hubs : hub[h] = "loading" => epoch # 0
  /\ \A h \in Hubs : HasRead(h) => epoch # 0 /\ loaded[h].epoch = epoch
  /\ \A g, h \in Hubs : Serves(g) /\ Serves(h) => g = h

(* What is on the shelf is of the shelf's generation.  Unless a clear came *)
(* in between, who has read the generation knows it, and who has gone      *)
(* through the file store left it there.                                   *)
ShelfFits ==
  /\ \A file \in shelf : file.generation = shelf_generation
  /\ ~overtaken => \A h \in Hubs : HasRead(h) => loaded[h].generation = generation
  /\ ~overtaken => \A h \in Hubs :
       hub[h] \in {"binding", "serving"} => shelf_generation = generation

StartInv == HubStartTypeOK /\ EpochFits /\ ShelfFits

LEMMA StartInvInit == HubStartInit => StartInv
<1> SUFFICES ASSUME HubStartInit PROVE StartInv
  OBVIOUS
<1>1. Unread \in [epoch : Nat, generation : Nat]
  BY DEF Unread
<1>2. HubStartTypeOK
  BY <1>1 DEF HubStartInit, HubStartTypeOK
<1>3. \A h \in Hubs : hub[h] = "down"
  BY DEF HubStartInit
<1>4. EpochFits /\ ShelfFits
  BY <1>3 DEF HubStartInit, EpochFits, ShelfFits, HasRead, Serves
<1> QED
  BY <1>2, <1>4 DEF StartInv

----------------------------------------------------------------------------
(* Each step keeps it.                                                     *)

(* The steps up to the reading of the counters.                            *)
LEMMA OpeningKeeps ==
  ASSUME StartInv, NEW h \in Hubs,
         OpenDatabase(h) \/ SetJournal(h) \/ ValidateSchema(h) \/ LoadMeta(h)
  PROVE  StartInv'
<1> USE DEF StartInv, HubStartTypeOK, EpochFits, ShelfFits, HasRead, Serves, Becomes, Rest
<1>1. CASE OpenDatabase(h) BY <1>1 DEF OpenDatabase
<1>2. CASE SetJournal(h) BY <1>2 DEF SetJournal
<1>3. CASE ValidateSchema(h) BY <1>3 DEF ValidateSchema
<1>4. CASE LoadMeta(h)
  <2>1. loaded' = [loaded EXCEPT ![h] = [epoch |-> epoch, generation |-> generation]]
    BY <1>4 DEF LoadMeta
  <2>2. loaded' \in [Hubs -> [epoch : Nat, generation : Nat]]
    BY <2>1
  <2> QED
    BY <1>4, <2>1, <2>2 DEF LoadMeta
<1> QED
  BY <1>1, <1>2, <1>3, <1>4

LEMMA FillTablesKeeps ==
  ASSUME StartInv, NEW h \in Hubs, FillTables(h)
  PROVE  StartInv'
BY DEF StartInv, HubStartTypeOK, EpochFits, ShelfFits, HasRead, Serves, Becomes, FillTables

(* What is left on the shelf is of its new generation.                     *)
LEMMA SyncKeepsShelf ==
  ASSUME ShelfFits, NEW h \in Hubs, SyncShelf(h)
  PROVE  /\ \A file \in shelf' : file.generation = shelf_generation'
         /\ shelf_generation' = loaded[h].generation
         /\ \A file \in shelf \ shelf' : file.generation # loaded[h].generation
BY DEF ShelfFits, SyncShelf

LEMMA SyncingKeeps ==
  ASSUME StartInv, NEW h \in Hubs, StartFiles(h) \/ FollowShared(h)
  PROVE  StartInv'
<1>1. /\ \A file \in shelf' : file.generation = shelf_generation'
      /\ shelf_generation' = loaded[h].generation
  BY SyncKeepsShelf DEF StartInv, StartFiles, FollowShared
<1> QED
  BY <1>1 DEF StartInv, HubStartTypeOK, EpochFits, ShelfFits, HasRead, Serves, Becomes, StartFiles,
       FollowShared

LEMMA EndingsKeep ==
  ASSUME StartInv, NEW h \in Hubs, BindAddress(h) \/ Dies(h)
  PROVE  StartInv'
<1> USE DEF StartInv, HubStartTypeOK, EpochFits, ShelfFits, HasRead, Serves, Becomes, Unread
<1>0. Unread \in [epoch : Nat, generation : Nat]
  OBVIOUS
<1>1. ASSUME Becomes(h, "binding", "serving"), \A g \in Hubs : ~Serves(g), UNCHANGED loaded,
             BindAddress(h)
      PROVE  StartInv'
  BY <1>1 DEF BindAddress
<1>2. ASSUME hub' = [hub EXCEPT ![h] = "down"], loaded' = [loaded EXCEPT ![h] = Unread],
             UNCHANGED <<database, epoch, generation, created, shelf, shelf_generation, overtaken>>
      PROVE  StartInv'
  BY <1>0, <1>2
<1> QED
  BY <1>1, <1>2 DEF BindAddress, Dies

LEMMA CommitSharedKeeps ==
  ASSUME StartInv, NEW h \in Hubs, CommitShared(h)
  PROVE  StartInv'
<1> USE DEF StartInv, HubStartTypeOK, EpochFits, ShelfFits, HasRead, Serves
<1>1. /\ hub[h] = "serving" /\ hub' = [hub EXCEPT ![h] = "clearing"]
      /\ generation' = loaded[h].generation + 1
      /\ loaded' = [loaded EXCEPT ![h].generation = generation']
      /\ overtaken' = (overtaken \/ \E g \in Hubs : hub[g] \in {"syncing", "binding"})
      /\ UNCHANGED <<database, epoch, created, shelf, shelf_generation>>
  BY DEF CommitShared, Becomes
<1>2. loaded[h] \in [epoch : Nat, generation : Nat] /\ generation' \in Nat
  BY <1>1
<1>3. loaded' \in [Hubs -> [epoch : Nat, generation : Nat]]
  BY <1>1, <1>2
<1>4. HubStartTypeOK'
  BY <1>1, <1>2, <1>3
<1>5. \A g \in Hubs : loaded'[g].epoch = loaded[g].epoch
  BY <1>1
<1>6. EpochFits'
  BY <1>1, <1>5
<1>7. \A g \in Hubs : g # h => ~Serves(g)
  BY <1>1
<1>8. ~overtaken' => \A g \in Hubs : HasRead(g)' => g = h
  BY <1>1, <1>7
<1>9. loaded'[h].generation = generation'
  BY <1>1, <1>2
<1>10. ShelfFits'
  BY <1>1, <1>8, <1>9
<1> QED
  BY <1>4, <1>6, <1>10

LEMMA ShelveKeeps ==
  ASSUME StartInv, NEW h \in Hubs, NEW clip \in Selections, Shelve(h, clip)
  PROVE  StartInv'
BY DEF StartInv, HubStartTypeOK, EpochFits, ShelfFits, HasRead, Serves, Shelve

LEMMA StartInvStep == StartInv /\ [HubStartNext]_hubStartVars => StartInv'
<1> SUFFICES ASSUME StartInv, [HubStartNext]_hubStartVars PROVE StartInv'
  OBVIOUS
<1>1. ASSUME NEW h \in Hubs,
             OpenDatabase(h) \/ SetJournal(h) \/ ValidateSchema(h) \/ LoadMeta(h)
      PROVE  StartInv'
  BY <1>1, OpeningKeeps
<1>2. ASSUME NEW h \in Hubs, FillTables(h)  PROVE StartInv'
  BY <1>2, FillTablesKeeps
<1>3. ASSUME NEW h \in Hubs, StartFiles(h) \/ FollowShared(h)  PROVE StartInv'
  BY <1>3, SyncingKeeps
<1>4. ASSUME NEW h \in Hubs, BindAddress(h) \/ Dies(h)  PROVE StartInv'
  BY <1>4, EndingsKeep
<1>5. ASSUME NEW h \in Hubs, CommitShared(h)  PROVE StartInv'
  BY <1>5, CommitSharedKeeps
<1>6. ASSUME NEW h \in Hubs, NEW clip \in Selections, Shelve(h, clip)  PROVE StartInv'
  BY <1>6, ShelveKeeps
<1>7. CASE UNCHANGED hubStartVars
  BY <1>7 DEF hubStartVars, StartInv, HubStartTypeOK, EpochFits, ShelfFits, HasRead, Serves
<1> QED
  BY <1>1, <1>2, <1>3, <1>4, <1>5, <1>6, <1>7 DEF HubStartNext

LEMMA StartInvariant == HubStartSpec => []StartInv
BY StartInvInit, StartInvStep, PTL DEF HubStartSpec

----------------------------------------------------------------------------
(* The theorems.                                                           *)

(* However many starts overlap and wherever each is killed, the tables are *)
(* filled once, and no more than one process serves, with their epoch.     *)
THEOREM EpochAlwaysKept == HubStartSpec => EpochIsKept
<1>1. StartInv /\ [HubStartNext]_hubStartVars => [epoch # 0 => epoch' = epoch]_hubStartVars
  BY DEF HubStartNext, StartInv, EpochFits, OpenDatabase, SetJournal, FillTables, ValidateSchema,
       LoadMeta, StartFiles, BindAddress, Dies, CommitShared, FollowShared, Shelve, Rest
<1>2. StartInv =>
        \A h \in Hubs : Serves(h) =>
          loaded[h].epoch = epoch /\ \A g \in Hubs \ {h} : ~Serves(g)
  BY DEF StartInv, EpochFits, HasRead, Serves
<1> QED
  BY <1>1, <1>2, StartInvariant, PTL DEF HubStartSpec, EpochIsKept

(* A start takes no file that a clear has not taken, and leaves none that  *)
(* one has, unless the clear came after the start had read the counters.   *)
THEOREM StartsAlwaysKeepFiles == HubStartSpec => StartsKeepFiles
<1> DEFINE KeepsFiles == \A file \in shelf \ shelf' : file.generation # generation' \/ overtaken'
<1>1. StartInv /\ [HubStartNext]_hubStartVars => [KeepsFiles]_hubStartVars
  <2> SUFFICES ASSUME StartInv, HubStartNext PROVE KeepsFiles
    OBVIOUS
  <2>1. ASSUME NEW h \in Hubs, StartFiles(h) \/ FollowShared(h)  PROVE KeepsFiles
    <3>1. \A file \in shelf \ shelf' : file.generation # loaded[h].generation
      BY <2>1, SyncKeepsShelf DEF StartInv, StartFiles, FollowShared
    <3>2. ~overtaken => loaded[h].generation = generation
      BY <2>1 DEF StartInv, ShelfFits, HasRead, StartFiles, FollowShared, Becomes
    <3>3. UNCHANGED <<generation, overtaken>>
      BY <2>1 DEF StartFiles, FollowShared
    <3> QED
      BY <3>1, <3>2, <3>3
  <2>2. ASSUME NEW h \in Hubs, NEW clip \in Selections, Shelve(h, clip)  PROVE KeepsFiles
    BY <2>2 DEF Shelve, StartInv, ShelfFits, HasRead
  <2>3. CASE UNCHANGED shelf
    BY <2>3
  <2> QED
    BY <2>1, <2>2, <2>3 DEF HubStartNext, OpenDatabase, SetJournal, FillTables, ValidateSchema,
         LoadMeta, BindAddress, Dies, CommitShared, Rest
<1>2. StartInv =>
        \A h \in Hubs : hub[h] = "serving" /\ ~overtaken =>
          \A file \in shelf : file.generation = generation
  BY DEF StartInv, ShelfFits
<1> QED
  BY <1>1, <1>2, StartInvariant, PTL DEF HubStartSpec, StartsKeepFiles

----------------------------------------------------------------------------
(* PeerDirectory.                                                          *)

Asking(r) == asker[r].stage \in {"asking", "listed", "failed"}

DirectoryStages == {"idle", "asking", "listed", "failed", "served", "refused"}

Instants == Nat \cup {Never}

Asks == [stage : DirectoryStages, since : Instants, of : Instants]

DirectoryTypeOK ==
  /\ clock \in Nat
  /\ fetched_at \in Nat \cup {Never} /\ retry_after \in Nat \cup {Never}
  /\ entries_of \in Nat \cup {Never} /\ failed_at \in Nat \cup {Never}
  /\ asker \in [Askers -> Asks]

(* A thread that asks does not take longer than AskMax, and what it heard  *)
(* is of after it began.                                                   *)
AskIsShort ==
  \A r \in Askers :
    /\ Asking(r) =>
         asker[r].since \in Nat /\ asker[r].since <= clock /\ clock - asker[r].since <= AskMax
    /\ asker[r].stage = "listed" =>
         asker[r].of \in Nat /\ asker[r].since <= asker[r].of /\ asker[r].of <= clock

(* What the cache holds was no older when it was stored.                   *)
CacheIsRecent ==
  /\ fetched_at # Never =>
       /\ fetched_at \in Nat /\ entries_of \in Nat
       /\ entries_of <= fetched_at /\ fetched_at <= clock /\ fetched_at - entries_of <= AskMax
  /\ failed_at # Never => failed_at \in Nat /\ failed_at <= clock
  /\ retry_after # Never => failed_at # Never /\ retry_after = failed_at + FailureTtl

ServedAreNumbers ==
  \A r \in Askers :
    asker[r].stage = "served" => asker[r].of \in Nat /\ asker[r].of <= clock

DirectoryInv ==
  DirectoryTypeOK /\ AskIsShort /\ CacheIsRecent /\ ServedAreNumbers /\ NamesAreRecent

LEMMA DirectoryInvInit == DirectoryInit => DirectoryInv
  BY DirectoryAssumption
     DEF DirectoryInit, Idle, Asks, DirectoryStages, Instants, DirectoryInv, DirectoryTypeOK, AskIsShort, Asking, CacheIsRecent,
         ServedAreNumbers, NamesAreRecent

LEMMA TickKeepsDirectory == ASSUME DirectoryInv, ClockTicks PROVE DirectoryInv'
<1> USE DirectoryAssumption DEF DirectoryInv
<1>1. /\ clock' = clock + 1 /\ clock \in Nat
      /\ UNCHANGED <<fetched_at, retry_after, entries_of, asker, failed_at>>
  BY DEF ClockTicks, DirectoryTypeOK
<1>2. DirectoryTypeOK' /\ CacheIsRecent'
  BY <1>1 DEF DirectoryTypeOK, CacheIsRecent
<1>3. ASSUME NEW r \in Askers
      PROVE  /\ asker[r].stage \notin {"served", "refused"}
             /\ asker[r].stage # "idle" => clock - asker[r].since < AskMax
  BY DEF ClockTicks
<1>4. AskIsShort'
  BY <1>1, <1>3 DEF AskIsShort, Asking
<1>5. ServedAreNumbers' /\ NamesAreRecent'
  BY <1>1, <1>3 DEF ServedAreNumbers, NamesAreRecent
<1> QED
  BY <1>2, <1>4, <1>5

(* What a step of a thread makes of its request.                           *)
LEMMA SetsOne ==
  ASSUME DirectoryTypeOK, NEW r \in Askers, NEW stage \in DirectoryStages, NEW of \in Instants,
         Sets(r, stage, of)
  PROVE  /\ asker' \in [Askers -> Asks]
         /\ asker'[r].stage = stage /\ asker'[r].of = of /\ asker'[r].since = asker[r].since
<1>1. asker[r] \in Asks /\ asker \in [Askers -> Asks]
  BY DEF DirectoryTypeOK
<1>2. asker' = [asker EXCEPT ![r] = [asker[r] EXCEPT !.stage = stage, !.of = of]]
  BY DEF Sets
<1>3. [asker[r] EXCEPT !.stage = stage, !.of = of] \in Asks
  BY <1>1 DEF Asks
<1> QED
  BY <1>1, <1>2, <1>3 DEF Asks

LEMMA AsksNow ==
  ASSUME DirectoryTypeOK, NEW r \in Askers,
         asker' = [asker EXCEPT ![r] = [@ EXCEPT !.stage = "asking", !.since = clock]]
  PROVE  /\ asker' \in [Askers -> Asks]
         /\ asker'[r].stage = "asking" /\ asker'[r].since = clock
<1>1. asker[r] \in Asks /\ asker \in [Askers -> Asks] /\ clock \in Instants
  BY DEF DirectoryTypeOK, Instants
<1>2. asker' = [asker EXCEPT ![r] = [asker[r] EXCEPT !.stage = "asking", !.since = clock]]
  OBVIOUS
<1>3. [asker[r] EXCEPT !.stage = "asking", !.since = clock] \in Asks
  BY <1>1 DEF Asks, DirectoryStages
<1> QED
  BY <1>1, <1>2, <1>3 DEF Asks

LEMMA LookUpCases ==
  ASSUME DirectoryTypeOK, NEW r \in Askers, LookUp(r)
  PROVE  /\ asker[r].stage = "idle"
         /\ UNCHANGED <<clock, fetched_at, retry_after, entries_of, failed_at>>
         /\ asker' \in [Askers -> Asks]
         /\ \/ IsFresh /\ asker'[r].stage = "served" /\ asker'[r].of = entries_of
            \/ MayNotAsk /\ asker'[r].stage = "refused"
            \/ asker'[r].stage = "asking" /\ asker'[r].since = clock
<1>1. CASE IsFresh
  <2>1. Sets(r, "served", entries_of)
    BY <1>1 DEF LookUp
  <2> QED
    BY <1>1, <2>1, SetsOne DEF LookUp, DirectoryTypeOK, DirectoryStages, Instants
<1>2. CASE ~IsFresh /\ MayNotAsk
  <2>1. Sets(r, "refused", Never)
    BY <1>2 DEF LookUp
  <2> QED
    BY <1>2, <2>1, SetsOne DEF LookUp, DirectoryTypeOK, DirectoryStages, Instants
<1>3. CASE ~IsFresh /\ ~MayNotAsk
  <2>1. asker' = [asker EXCEPT ![r] = [@ EXCEPT !.stage = "asking", !.since = clock]]
    BY <1>3 DEF LookUp
  <2> QED
    BY <2>1, AsksNow DEF LookUp
<1> QED
  BY <1>1, <1>2, <1>3

LEMMA AnswerCases ==
  ASSUME DirectoryTypeOK, AskIsShort, NEW r \in Askers,
         ListPeers(r) \/ ListFails(r) \/ StoreList(r) \/ StoreRefusal(r) \/ Respond(r)
  PROVE  /\ asker' \in [Askers -> Asks]
         /\ ListPeers(r) => /\ asker'[r].stage = "listed" /\ asker'[r].of = clock
                            /\ asker'[r].since = asker[r].since
         /\ ListFails(r) => asker'[r].stage = "failed" /\ asker'[r].since = asker[r].since
         /\ StoreList(r) => asker'[r].stage = "served" /\ asker'[r].of = asker[r].of
         /\ StoreRefusal(r) => asker'[r].stage = "refused"
         /\ Respond(r) => asker'[r].stage = "idle"
<1> USE DEF DirectoryTypeOK, DirectoryStages, Instants
<1>1. CASE ListPeers(r)
  BY <1>1, SetsOne DEF ListPeers, ListFails, StoreList, StoreRefusal, Respond
<1>2. CASE ListFails(r)
  BY <1>2, SetsOne DEF ListPeers, ListFails, StoreList, StoreRefusal, Respond
<1>3. CASE StoreList(r)
  <2>1. asker[r].stage = "listed" /\ asker[r].of \in Instants
    BY <1>3 DEF StoreList, AskIsShort
  <2> QED
    BY <1>3, <2>1, SetsOne DEF ListPeers, ListFails, StoreList, StoreRefusal, Respond
<1>4. CASE StoreRefusal(r)
  BY <1>4, SetsOne DEF ListPeers, ListFails, StoreList, StoreRefusal, Respond
<1>5. CASE Respond(r)
  BY <1>5 DEF ListPeers, ListFails, StoreList, StoreRefusal, Respond, Idle, Asks
<1> QED
  BY <1>1, <1>2, <1>3, <1>4, <1>5

(* What a step of one thread leaves to be shown.                           *)
LEMMA ThreadKeepsDirectory ==
  ASSUME DirectoryInv, NEW r \in Askers,
         LookUp(r) \/ ListPeers(r) \/ ListFails(r) \/ StoreList(r) \/ StoreRefusal(r) \/ Respond(r)
  PROVE  DirectoryInv'
<1> USE DirectoryAssumption DEF DirectoryInv
<1>1. clock' = clock /\ clock \in Nat
  BY DEF LookUp, ListPeers, ListFails, StoreList, StoreRefusal, Respond, DirectoryTypeOK
<1>2. ASSUME NEW q \in Askers, q # r  PROVE asker'[q] = asker[q]
  BY <1>2 DEF LookUp, ListPeers, ListFails, StoreList, StoreRefusal, Respond, Sets, DirectoryTypeOK
<1>3. asker[r] \in Asks
  BY DEF DirectoryTypeOK
<1>4. DirectoryTypeOK'
  <2>1. asker' \in [Askers -> Asks]
    BY LookUpCases, AnswerCases
  <2>2. CASE StoreList(r)
    <3>1. asker[r].of \in Nat
      BY <2>2 DEF StoreList, AskIsShort
    <3> QED
      BY <1>1, <2>1, <2>2, <3>1 DEF StoreList, DirectoryTypeOK
  <2>3. CASE StoreRefusal(r)
    BY <2>1, <2>3 DEF StoreRefusal, DirectoryTypeOK
  <2>4. CASE LookUp(r) \/ ListPeers(r) \/ ListFails(r) \/ Respond(r)
    BY <2>1, <2>4 DEF LookUp, ListPeers, ListFails, Respond, DirectoryTypeOK
  <2> QED
    BY <2>2, <2>3, <2>4
<1>5. CacheIsRecent'
  <2>1. CASE StoreList(r)
    BY <1>1, <2>1 DEF CacheIsRecent, StoreList, AskIsShort, Asking
  <2>2. CASE StoreRefusal(r)
    BY <1>1, <2>2 DEF CacheIsRecent, StoreRefusal
  <2>3. CASE LookUp(r) \/ ListPeers(r) \/ ListFails(r) \/ Respond(r)
    BY <1>1, <2>3 DEF CacheIsRecent, LookUp, ListPeers, ListFails, Respond
  <2> QED
    BY <2>1, <2>2, <2>3
<1>6. failed_at' = failed_at \/ (failed_at' = clock /\ clock \in Nat)
  BY <1>1 DEF LookUp, ListPeers, ListFails, StoreList, StoreRefusal, Respond
<1>7. /\ asker'[r].stage = "served" =>
           asker'[r].of \in Nat /\ asker'[r].of <= clock /\ clock - asker'[r].of < Ttl + AskMax
      /\ asker'[r].stage = "refused" => failed_at' # Never /\ clock - failed_at' < FailureTtl
  <2>1. CASE LookUp(r)
    BY <1>1, <2>1, LookUpCases DEF IsFresh, MayNotAsk, CacheIsRecent, DirectoryTypeOK
  <2>2. CASE ListPeers(r) \/ ListFails(r) \/ Respond(r)
    BY <2>2, AnswerCases
  <2>3. CASE StoreList(r)
    <3>1. asker[r].stage = "listed"
      BY <2>3 DEF StoreList
    <3> QED
      BY <1>1, <2>3, <3>1, AnswerCases DEF AskIsShort, Asking
  <2>4. CASE StoreRefusal(r)
    BY <1>1, <2>4, AnswerCases DEF StoreRefusal
  <2> QED
    BY <2>1, <2>2, <2>3, <2>4
<1>8. /\ Asking(r)' => /\ asker'[r].since \in Nat /\ asker'[r].since <= clock
                       /\ clock - asker'[r].since <= AskMax
      /\ asker'[r].stage = "listed" =>
           asker'[r].of \in Nat /\ asker'[r].since <= asker'[r].of /\ asker'[r].of <= clock
  <2>1. CASE LookUp(r)
    BY <1>1, <2>1, LookUpCases DEF Asking
  <2>2. CASE ListPeers(r) \/ ListFails(r)
    <3>1. asker[r].stage = "asking"
      BY <2>2 DEF ListPeers, ListFails
    <3> QED
      BY <1>1, <2>2, <3>1, AnswerCases DEF AskIsShort, Asking
  <2>3. CASE StoreList(r) \/ StoreRefusal(r) \/ Respond(r)
    BY <2>3, AnswerCases DEF Asking
  <2> QED
    BY <2>1, <2>2, <2>3
<1>9. AskIsShort'
  BY <1>1, <1>2, <1>8 DEF AskIsShort, Asking
<1>10. ServedAreNumbers'
  BY <1>1, <1>2, <1>7 DEF ServedAreNumbers
<1>11. NamesAreRecent'
  BY <1>1, <1>2, <1>6, <1>7 DEF NamesAreRecent
<1> QED
  BY <1>4, <1>5, <1>9, <1>10, <1>11

(* However many threads ask the daemon at once and in whatever order they  *)
(* store what they heard, no request is served names older than the        *)
(* cache's time and one question, and none is refused but in the time      *)
(* after a failure (cached_peer_directory).                                *)
THEOREM NamesAlwaysRecent == DirectorySpec => []NamesAreRecent
<1>1. DirectoryInv /\ [DirectoryNext]_directoryVars => DirectoryInv'
  <2>1. DirectoryInv /\ UNCHANGED directoryVars => DirectoryInv'
    BY DEF DirectoryInv, directoryVars, DirectoryTypeOK, AskIsShort, Asking, CacheIsRecent,
           ServedAreNumbers, NamesAreRecent
  <2>2. DirectoryInv /\ DirectoryNext => DirectoryInv'
    BY TickKeepsDirectory, ThreadKeepsDirectory DEF DirectoryNext
  <2> QED
    BY <2>1, <2>2
<1>2. DirectoryInv => NamesAreRecent
  BY DEF DirectoryInv
<1> QED
  BY <1>1, <1>2, DirectoryInvInit, PTL DEF DirectorySpec

----------------------------------------------------------------------------
(* RateBucket.  What a bucket has spent and what it may still spend        *)
(* without waiting is weighed in time: a token weighs an interval, the     *)
(* part of one that was earned weighs what it took, and a bucket that was  *)
(* topped up later than now weighs a burst more, for it will be filled.    *)
(* No step adds more to that weight than the times of requests account for.*)

Ahead(n) == IF n > 0 THEN n ELSE 0

(* What bucket b may still spend at time t, in time.                       *)
Credit(b, t) ==
  b.tokens * Interval
    + (IF b.since = Unset THEN 0 ELSE Ahead(t - b.since))
    + (IF t < b.since THEN Burst * Interval ELSE 0)

IsBucket(b) ==
  b \in [tokens : 0..Burst, since : -1..TimeMax, spent : Nat]

(* A window that was never topped up is full.                              *)
IsWindow(b) == IsBucket(b) /\ (b.since = Unset => b.tokens = Burst)

Weighed(b, t, f, s) ==
  b.spent * Interval + Credit(b, t) <= Burst * Interval * (1 + s) + f

Times == now \in 0..TimeMax /\ forward \in Nat /\ setBacks \in Nat

BucketInv ==
  /\ Times
  /\ IsBucket(attempts) /\ attempts.since # Unset
  /\ Weighed(attempts, now, forward, setBacks)
  /\ IsWindow(messages) /\ Weighed(messages, now, forward, setBacks)
  /\ IsWindow(publishes) /\ Weighed(publishes, now, forward, setBacks)

USE DEF Unset

----------------------------------------------------------------------------
(* Arithmetic.                                                             *)

LEMMA ProductIsInt ==
  ASSUME NEW a \in Int, NEW b \in Int PROVE a * b \in Int
  OBVIOUS

LEMMA Distributes ==
  ASSUME NEW a \in Int, NEW b \in Int, NEW c \in Int
  PROVE  /\ (a + b) * c = a * c + b * c
         /\ (a - b) * c = a * c - b * c
         /\ c * (1 + (a + 1)) = c * (1 + a) + c
  OBVIOUS

LEMMA ProductMonotone ==
  ASSUME NEW a \in Int, NEW b \in Int, a <= b, NEW c \in Nat
  PROVE  a * c <= b * c
  OBVIOUS

LEMMA QuotientBelow ==
  ASSUME NEW e \in Nat, NEW i \in Nat \ {0}
  PROVE  e \div i \in Nat /\ (e \div i) * i <= e /\ e \div i <= e
  OBVIOUS

LEMMA CastOfSmall ==
  ASSUME NEW w \in Nat \ {0}, NEW n \in 0..(w - 1)
  PROVE  n % w = n
  OBVIOUS

LEMMA CastOfNegative ==
  ASSUME NEW w \in Nat \ {0}, NEW n \in 1..(w - 1)
  PROVE  (-n) % w = w - n
  OBVIOUS

----------------------------------------------------------------------------
(* The refill: never more than the time accounts for when time moved on,   *)
(* and at least a burst when it moved back by an interval.                 *)
LEMMA RefillForward ==
  ASSUME NEW since \in 0..TimeMax, NEW t \in 0..TimeMax, since <= t
  PROVE  /\ Refill(since, t) \in Nat
         /\ Refill(since, t) * Interval <= t - since
  <1> DEFINE e == t - since
  <1>1. e \in Nat /\ e < Word
    BY RateBucketAssumption
  <1>2. e \div Interval \in Nat /\ (e \div Interval) * Interval <= e /\ e \div Interval <= e
    BY <1>1, QuotientBelow, RateBucketAssumption
  <1>3. (e \div Interval) % Word = e \div Interval
    BY <1>1, <1>2, CastOfSmall, RateBucketAssumption
  <1>4. Refill(since, t) = e \div Interval
    BY <1>1, <1>3 DEF Refill, Quotient
  <1> QED
    BY <1>2, <1>4

LEMMA RefillBackward ==
  ASSUME NEW since \in 0..TimeMax, NEW t \in 0..TimeMax, t < since
  PROVE  Refill(since, t) = 0 \/ (Refill(since, t) \in Nat /\ Refill(since, t) >= Burst)
  <1> DEFINE e == since - t
             q == e \div Interval
  <1>1. e \in Nat /\ e <= TimeMax
    BY RateBucketAssumption
  <1>2. q \in Nat /\ q <= e
    BY <1>1, QuotientBelow, RateBucketAssumption
  <1>3. Refill(since, t) = (-q) % Word
    <2>1. t - since \in Int /\ ~(t - since >= 0) /\ -(t - since) = e
      BY RateBucketAssumption
    <2> QED
      BY <2>1 DEF Refill, Quotient
  <1>4. CASE q = 0
    <2>1. (-q) % Word = 0
      BY <1>4, CastOfSmall, RateBucketAssumption
    <2> QED
      BY <1>3, <2>1
  <1>5. CASE q # 0
    <2>1. q \in 1..(Word - 1)
      BY <1>1, <1>2, <1>5, RateBucketAssumption
    <2>2. (-q) % Word = Word - q
      <3>1. Word \in Nat \ {0}
        BY RateBucketAssumption
      <3> HIDE DEF q
      <3> QED
        BY <2>1, <3>1, CastOfNegative
    <2>3. Refill(since, t) = Word - q
      BY <1>3, <2>2
    <2> HIDE DEF q, e
    <2> QED
      BY <1>1, <1>2, <2>3, RateBucketAssumption
  <1> QED
    BY <1>4, <1>5

----------------------------------------------------------------------------
(* Topping up never adds to the weight.                                    *)
LEMMA KeptIsNoHeavier ==
  ASSUME NEW b, IsBucket(b), b.since # Unset, NEW t \in 0..TimeMax
  PROVE  /\ IsBucket(Kept(b, t))
         /\ Kept(b, t).since # Unset
         /\ Kept(b, t).spent = b.spent
         /\ Credit(Kept(b, t), t) <= Credit(b, t)
  <1> DEFINE r == Refill(b.since, t)
             k == Kept(b, t)
             T == AtMost(b.tokens + r, Burst)
  <1>0. b.tokens \in 0..Burst /\ b.since \in 0..TimeMax /\ b.spent \in Nat
    BY DEF IsBucket
  <1>0b. t \in -1..TimeMax /\ Burst \in 0..Burst
    BY RateBucketAssumption
  <1>1. CASE r = 0
    BY <1>0, <1>1, RateBucketAssumption DEF Kept, Credit, Ahead, IsBucket
  <1>2. CASE r # 0 /\ b.since <= t
    <2>1. r \in Nat /\ r * Interval <= t - b.since
      BY <1>0, <1>2, RefillForward
    <2>2. T \in 0..Burst /\ T <= b.tokens + r
      BY <1>0, <2>1, RateBucketAssumption DEF AtMost
    <2>3. /\ T * Interval <= (b.tokens + r) * Interval
          /\ (b.tokens + r) * Interval = b.tokens * Interval + r * Interval
      BY <1>0, <2>1, <2>2, ProductMonotone, Distributes, RateBucketAssumption
    <2>4. b.tokens * Interval \in Int /\ r * Interval \in Int /\ T * Interval \in Int
      BY <1>0, <2>1, <2>2, ProductIsInt, RateBucketAssumption
    <2>4a. r * Interval >= 0
      BY <2>1, RateBucketAssumption
    <2>5. Credit(b, t) = b.tokens * Interval + (t - b.since)
      BY <1>0, <1>2, <2>4 DEF Credit, Ahead
    <2>6. CASE T = Burst
      <3>1. k = [b EXCEPT !.tokens = T, !.since = t]
        BY <1>2, <2>6 DEF Kept
      <3>2. k.tokens = T /\ k.since = t /\ k.spent = b.spent /\ IsBucket(k)
        BY <1>0, <1>0b, <2>2, <3>1 DEF IsBucket
      <3>3. Credit(k, t) = T * Interval
        BY <2>4, <3>2 DEF Credit, Ahead
      <3> QED
        BY <2>1, <2>3, <2>4, <2>5, <3>2, <3>3, <1>0
    <2>7. CASE T # Burst
      <3>1. k = [b EXCEPT !.tokens = T, !.since = b.since + r * Interval]
        BY <1>2, <2>7 DEF Kept
      <3>2. T = b.tokens + r
        BY <2>7 DEF AtMost
      <3>3. b.since + r * Interval \in 0..TimeMax
        BY <1>0, <1>2, <2>1, <2>4, <2>4a, RateBucketAssumption
      <3>3a. b.since + r * Interval \in -1..TimeMax
        BY <3>3, RateBucketAssumption
      <3>4. k.tokens = T /\ k.since = b.since + r * Interval /\ k.spent = b.spent /\ IsBucket(k)
        BY <1>0, <2>2, <3>1, <3>3a DEF IsBucket
      <3>5. Credit(k, t) = T * Interval + (t - (b.since + r * Interval))
        BY <1>0, <2>1, <2>4, <3>3, <3>4 DEF Credit, Ahead
      <3> QED
        BY <1>0, <2>3, <2>4, <2>5, <3>2, <3>3, <3>4, <3>5
    <2> QED
      BY <2>6, <2>7
  <1>3. CASE r # 0 /\ t < b.since
    <2>1. r \in Nat /\ r >= Burst
      BY <1>0, <1>3, RefillBackward
    <2>2. T = Burst
      BY <1>0, <2>1, RateBucketAssumption DEF AtMost
    <2>3. k = [b EXCEPT !.tokens = Burst, !.since = t]
      BY <1>3, <2>2 DEF Kept
    <2>4. k.tokens = Burst /\ k.since = t /\ k.spent = b.spent /\ IsBucket(k)
      BY <1>0, <1>0b, <2>3 DEF IsBucket
    <2>5. b.tokens * Interval \in Int /\ b.tokens * Interval >= 0 /\ Burst * Interval \in Int
      BY <1>0, ProductIsInt, RateBucketAssumption
    <2>6. Credit(k, t) = Burst * Interval
      BY <2>4, <2>5 DEF Credit, Ahead
    <2>7. Credit(b, t) = b.tokens * Interval + Burst * Interval
      BY <1>0, <1>3, <2>5 DEF Credit, Ahead
    <2> QED
      BY <2>4, <2>5, <2>6, <2>7
  <1> QED
    BY <1>0, <1>1, <1>2, <1>3

(* A window that was never topped up holds at most its burst.              *)
LEMMA DroppedIsNoHeavier ==
  ASSUME NEW b, IsBucket(b), NEW t \in 0..TimeMax,
         b.since = Unset => b.tokens = Burst
  PROVE  /\ IsBucket(Dropped(b, t))
         /\ Dropped(b, t).since # Unset
         /\ Dropped(b, t).spent = b.spent
         /\ Credit(Dropped(b, t), t) <= Credit(b, t)
  <1> DEFINE r == Refill(b.since, t)
             k == Dropped(b, t)
             T == AtMost(b.tokens + r, Burst)
  <1>0. b.tokens \in 0..Burst /\ b.since \in -1..TimeMax /\ b.spent \in Nat
    BY DEF IsBucket
  <1>0a. Burst * Interval \in Int /\ b.tokens * Interval \in Int /\ b.tokens * Interval >= 0
    BY <1>0, ProductIsInt, RateBucketAssumption
  <1>0b. t \in -1..TimeMax /\ Burst \in 0..Burst
    BY RateBucketAssumption
  <1>1. CASE b.since = Unset
    <2>1. k = [b EXCEPT !.tokens = Burst, !.since = t]
      BY <1>1 DEF Dropped
    <2>2. k.tokens = Burst /\ k.since = t /\ k.spent = b.spent /\ IsBucket(k)
      BY <1>0, <1>0b, <2>1 DEF IsBucket
    <2> QED
      BY <1>0, <1>0a, <1>1, <2>2 DEF Credit, Ahead
  <1>2. CASE b.since # Unset /\ r = 0
    BY <1>0, <1>2, RateBucketAssumption DEF Dropped, Credit, Ahead, IsBucket
  <1>3. CASE b.since # Unset /\ r # 0
    <2>0. b.since \in 0..TimeMax
      BY <1>0, <1>3
    <2>1. k = [b EXCEPT !.tokens = T, !.since = t]
      BY <1>3 DEF Dropped
    <2>2. CASE b.since <= t
      <3>1. r \in Nat /\ r * Interval <= t - b.since
        BY <2>0, <2>2, RefillForward
      <3>2. T \in 0..Burst /\ T <= b.tokens + r
        BY <1>0, <3>1, RateBucketAssumption DEF AtMost
      <3>3. k.tokens = T /\ k.since = t /\ k.spent = b.spent /\ IsBucket(k)
        BY <1>0, <1>0b, <2>1, <3>2 DEF IsBucket
      <3>4. /\ T * Interval <= (b.tokens + r) * Interval
            /\ (b.tokens + r) * Interval = b.tokens * Interval + r * Interval
        BY <1>0, <3>1, <3>2, ProductMonotone, Distributes, RateBucketAssumption
      <3>5. r * Interval \in Int /\ T * Interval \in Int
        BY <3>1, <3>2, ProductIsInt, RateBucketAssumption
      <3>6. Credit(k, t) = T * Interval
        BY <3>3, <3>5 DEF Credit, Ahead
      <3>7. Credit(b, t) = b.tokens * Interval + (t - b.since)
        BY <1>0a, <1>3, <2>0, <2>2 DEF Credit, Ahead
      <3> QED
        BY <1>0a, <2>0, <3>1, <3>3, <3>4, <3>5, <3>6, <3>7
    <2>3. CASE t < b.since
      <3>1. r \in Nat /\ r >= Burst
        BY <1>3, <2>0, <2>3, RefillBackward
      <3>2. T = Burst
        BY <1>0, <3>1, RateBucketAssumption DEF AtMost
      <3>3. k.tokens = Burst /\ k.since = t /\ k.spent = b.spent /\ IsBucket(k)
        BY <1>0, <1>0b, <2>1, <3>2 DEF IsBucket
      <3>4. Credit(k, t) = Burst * Interval
        BY <1>0a, <3>3 DEF Credit, Ahead
      <3>5. Credit(b, t) = b.tokens * Interval + Burst * Interval
        BY <1>0a, <1>3, <2>0, <2>3 DEF Credit, Ahead
      <3> QED
        BY <1>0a, <3>3, <3>4, <3>5
    <2> QED
      BY <2>0, <2>2, <2>3
  <1> QED
    BY <1>1, <1>2, <1>3

LEMMA CreditIsTime ==
  ASSUME NEW b, IsBucket(b), NEW t \in 0..TimeMax
  PROVE  Credit(b, t) \in Int /\ Credit(b, t) >= 0
  <1>1. b.tokens \in 0..Burst /\ b.since \in -1..TimeMax
    BY DEF IsBucket
  <1>2. /\ b.tokens * Interval \in Int /\ b.tokens * Interval >= 0
        /\ Burst * Interval \in Int /\ Burst * Interval >= 0
    BY <1>1, ProductIsInt, RateBucketAssumption
  <1> QED
    BY <1>1, <1>2 DEF Credit, Ahead

(* Spending a token moves its weight, and makes none.                      *)
LEMMA SpendIsNoHeavier ==
  ASSUME NEW b, IsBucket(b), b.since # Unset, NEW t \in 0..TimeMax
  PROVE  /\ IsBucket(Spend(b))
         /\ Spend(b).since # Unset
         /\ Spend(b).spent * Interval + Credit(Spend(b), t) = b.spent * Interval + Credit(b, t)
  <1>0. b.tokens \in 0..Burst /\ b.since \in 0..TimeMax /\ b.spent \in Nat
    BY DEF IsBucket
  <1>1. CASE b.tokens = 0
    BY <1>1 DEF Spend
  <1>2. CASE b.tokens # 0
    <2>1. Spend(b) = [b EXCEPT !.tokens = b.tokens - 1, !.spent = b.spent + 1]
      BY <1>2 DEF Spend
    <2>2. /\ Spend(b).tokens = b.tokens - 1 /\ Spend(b).spent = b.spent + 1
          /\ Spend(b).since = b.since /\ IsBucket(Spend(b))
      <3>1. b.tokens - 1 \in 0..Burst /\ b.spent + 1 \in Nat
        BY <1>0, <1>2, RateBucketAssumption
      <3> QED
        BY <1>0, <2>1, <3>1 DEF IsBucket
    <2>3. /\ (b.tokens - 1) * Interval = b.tokens * Interval - Interval
          /\ (b.spent + 1) * Interval = b.spent * Interval + Interval
      BY <1>0, RateBucketAssumption
    <2>4. b.tokens * Interval \in Int /\ b.spent * Interval \in Int /\ Burst * Interval \in Int
      BY <1>0, ProductIsInt, RateBucketAssumption
    <2> QED
      BY <1>0, <2>2, <2>3, <2>4, RateBucketAssumption DEF Credit, Ahead
  <1> QED
    BY <1>1, <1>2

(* A request may carry any time: what the bucket gains by it is accounted. *)
LEMMA CarriedIsAccounted ==
  ASSUME NEW b, IsBucket(b), Times, NEW t \in 0..TimeMax, Carries(t),
         Weighed(b, now, forward, setBacks)
  PROVE  Times' /\ Weighed(b, t, forward', setBacks')
  <1> DEFINE P == Burst * Interval
  <1>0. b.tokens \in 0..Burst /\ b.since \in -1..TimeMax /\ b.spent \in Nat
    BY DEF IsBucket
  <1>1. /\ P \in Int /\ P >= 0
        /\ b.tokens * Interval \in Int /\ b.spent * Interval \in Int
    BY <1>0, ProductIsInt, RateBucketAssumption
  <1>2. P * (1 + setBacks) \in Int /\ P * (1 + (setBacks + 1)) = P * (1 + setBacks) + P
    BY <1>1, ProductIsInt, Distributes DEF Times
  <1>3. Times'
    BY RateBucketAssumption DEF Times, Carries
  <1>4. CASE t >= now
    <2>1. forward' = forward + (t - now) /\ setBacks' = setBacks
      BY <1>4, RateBucketAssumption DEF Carries, Times
    <2> QED
      BY <1>0, <1>1, <1>2, <1>3, <1>4, <2>1 DEF Weighed, Credit, Ahead, Times
  <1>5. CASE t < now
    <2>1. forward' = forward /\ setBacks' = setBacks + 1
      BY <1>5, RateBucketAssumption DEF Carries, Times
    <2>2. Credit(b, t) <= Credit(b, now) + P
      BY <1>0, <1>1, <1>5 DEF Credit, Ahead, Times
    <2>3. Credit(b, t) \in Int /\ Credit(b, now) \in Int
      BY <1>0, <1>1 DEF Credit, Ahead, Times
    <2>4. P * (1 + setBacks') = P * (1 + setBacks) + P
      BY <1>2, <2>1
    <2>5. b.spent * Interval + Credit(b, now) <= P * (1 + setBacks) + forward
      BY DEF Weighed
    <2>6. b.spent * Interval + Credit(b, t) <= P * (1 + setBacks') + forward'
      <3> HIDE DEF P
      <3> QED
        BY <1>1, <1>2, <2>1, <2>2, <2>3, <2>4, <2>5 DEF Times
    <2> QED
      BY <1>3, <2>6 DEF Weighed
  <1> QED
    BY <1>4, <1>5, RateBucketAssumption DEF Times

(* The three together: a request that is served moves weight only.         *)
LEMMA ServedIsAccounted ==
  ASSUME NEW b, NEW k, NEW t \in 0..TimeMax, NEW f, NEW s,
         IsBucket(b), IsBucket(k), k.since # Unset, k.spent = b.spent,
         Credit(k, t) <= Credit(b, t), Weighed(b, t, f, s),
         f \in Nat, s \in Nat
  PROVE  IsBucket(Spend(k)) /\ Spend(k).since # Unset /\ Weighed(Spend(k), t, f, s)
  <1>1. /\ IsBucket(Spend(k)) /\ Spend(k).since # Unset
        /\ Spend(k).spent * Interval + Credit(Spend(k), t) = k.spent * Interval + Credit(k, t)
    BY SpendIsNoHeavier
  <1>2. /\ Credit(k, t) \in Int /\ Credit(b, t) \in Int
        /\ b.spent * Interval \in Int /\ Burst * Interval * (1 + s) \in Int
    BY CreditIsTime, ProductIsInt, RateBucketAssumption DEF IsBucket
  <1>3. b.spent * Interval + Credit(b, t) <= Burst * Interval * (1 + s) + f
    BY DEF Weighed
  <1>4. Spend(k).spent * Interval + Credit(Spend(k), t) <= Burst * Interval * (1 + s) + f
    BY <1>1, <1>2, <1>3
  <1> QED
    BY <1>1, <1>4 DEF Weighed

LEMMA BucketInvInitially == BucketInit => BucketInv
  <1> SUFFICES ASSUME BucketInit PROVE BucketInv
    OBVIOUS
  <1>1. Times
    BY DEF BucketInit, Times
  <1>2. Burst * Interval \in Int /\ Burst * Interval * (1 + 0) = Burst * Interval
    BY ProductIsInt, RateBucketAssumption
  <1>3. ASSUME NEW t \in -1..TimeMax, NEW b, b = FullSince(t), t = Unset \/ t = now
        PROVE  IsWindow(b) /\ Weighed(b, now, forward, setBacks) /\ b.since = t
    <2>1. b = [tokens |-> Burst, since |-> t, spent |-> 0]
      BY <1>3 DEF FullSince
    <2>2. IsWindow(b)
      BY <2>1, RateBucketAssumption DEF IsWindow, IsBucket
    <2>3. Credit(b, now) = Burst * Interval
      BY <1>1, <1>2, <1>3, <2>1 DEF Credit, Ahead, Times
    <2>4. b.spent * Interval = 0
      BY <2>1, RateBucketAssumption
    <2> QED
      BY <1>2, <2>1, <2>2, <2>3, <2>4 DEF Weighed, BucketInit
  <1>4. now \in -1..TimeMax /\ -1 \in -1..TimeMax /\ now # Unset
    BY <1>1, RateBucketAssumption DEF Times
  <1> QED
    BY <1>1, <1>3, <1>4 DEF BucketInv, BucketInit, IsWindow

LEMMA AttemptKeepsBucketInv ==
  ASSUME BucketInv, NEW t \in 0..TimeMax, Attempt(t)
  PROVE  BucketInv'
  <1>1. Carries(t) /\ attempts' = Spend(Kept(attempts, t))
        /\ UNCHANGED <<messages, publishes>>
    BY DEF Attempt
  <1>2. /\ IsBucket(attempts) /\ attempts.since # Unset
        /\ IsWindow(messages) /\ IsWindow(publishes) /\ Times
    BY DEF BucketInv
  <1>3. /\ Times' /\ now' = t
        /\ Weighed(attempts, t, forward', setBacks')
        /\ Weighed(messages, t, forward', setBacks')
        /\ Weighed(publishes, t, forward', setBacks')
    BY <1>1, <1>2, CarriedIsAccounted DEF BucketInv, IsWindow, Carries
  <1>4. forward' \in Nat /\ setBacks' \in Nat
    BY <1>3 DEF Times
  <1>5. /\ IsBucket(Kept(attempts, t)) /\ Kept(attempts, t).since # Unset
        /\ Kept(attempts, t).spent = attempts.spent
        /\ Credit(Kept(attempts, t), t) <= Credit(attempts, t)
    BY <1>2, KeptIsNoHeavier
  <1>6. IsBucket(attempts') /\ attempts'.since # Unset /\ Weighed(attempts', t, forward', setBacks')
    BY <1>1, <1>2, <1>3, <1>4, <1>5, ServedIsAccounted
  <1> QED
    BY <1>1, <1>2, <1>3, <1>6 DEF BucketInv

LEMMA MessageKeepsBucketInv ==
  ASSUME BucketInv, NEW t \in 0..TimeMax, NEW publish \in BOOLEAN, Message(t, publish)
  PROVE  BucketInv'
  <1> DEFINE spentOn(b) == Spend(Dropped(b, t))
  <1>1. /\ Carries(t) /\ messages' = spentOn(messages)
        /\ publishes' = spentOn(publishes) \/ publishes' = publishes
        /\ attempts' = attempts
    BY DEF Message
  <1>2. /\ IsBucket(attempts) /\ attempts.since # Unset
        /\ IsWindow(messages) /\ IsWindow(publishes) /\ Times
    BY DEF BucketInv
  <1>3. /\ Times' /\ now' = t
        /\ Weighed(attempts, t, forward', setBacks')
        /\ Weighed(messages, t, forward', setBacks')
        /\ Weighed(publishes, t, forward', setBacks')
    BY <1>1, <1>2, CarriedIsAccounted DEF BucketInv, IsWindow, Carries
  <1>4. forward' \in Nat /\ setBacks' \in Nat
    BY <1>3 DEF Times
  <1>5. ASSUME NEW b, IsWindow(b), Weighed(b, t, forward', setBacks')
        PROVE  IsWindow(spentOn(b)) /\ Weighed(spentOn(b), t, forward', setBacks')
    <2>1. /\ IsBucket(Dropped(b, t)) /\ Dropped(b, t).since # Unset
          /\ Dropped(b, t).spent = b.spent
          /\ Credit(Dropped(b, t), t) <= Credit(b, t)
      BY <1>5, DroppedIsNoHeavier DEF IsWindow
    <2> QED
      BY <1>4, <1>5, <2>1, ServedIsAccounted DEF IsWindow
  <1> HIDE DEF spentOn
  <1>6. IsWindow(messages') /\ Weighed(messages', t, forward', setBacks')
    BY <1>1, <1>2, <1>3, <1>5
  <1>7. IsWindow(publishes') /\ Weighed(publishes', t, forward', setBacks')
    BY <1>1, <1>2, <1>3, <1>5
  <1> QED
    BY <1>1, <1>2, <1>3, <1>6, <1>7 DEF BucketInv

(* What a bucket may still spend weighs something, so what it has spent    *)
(* weighs no more than the times of requests account for.                  *)
LEMMA BucketInvIsEnough == BucketInv => GrantsAreEarned
  <1> SUFFICES ASSUME BucketInv PROVE GrantsAreEarned
    OBVIOUS
  <1>1. ASSUME NEW b, IsBucket(b), Weighed(b, now, forward, setBacks)
        PROVE  Earned(b)
    <2>1. /\ Credit(b, now) \in Int /\ Credit(b, now) >= 0
          /\ b.spent * Interval \in Int
          /\ Burst * Interval * (1 + setBacks) \in Int /\ forward \in Int
      BY <1>1, CreditIsTime, ProductIsInt, RateBucketAssumption DEF IsBucket, BucketInv, Times
    <2>2. b.spent * Interval + Credit(b, now) <= Burst * Interval * (1 + setBacks) + forward
      BY <1>1 DEF Weighed
    <2> QED
      BY <2>1, <2>2 DEF Earned
  <1> QED
    BY <1>1 DEF BucketInv, IsWindow, GrantsAreEarned

(* For every rate, burst and word, and whatever times requests carry: a    *)
(* peer or a session is granted a burst, a token for every interval that   *)
(* passed, and a burst for every time that went back (RateBucket::take,    *)
(* consume_message_token).                                                 *)
THEOREM GrantsAreEarnedAlways == BucketSpec => []GrantsAreEarned
  <1>1. BucketInv /\ [BucketNext]_bucketVars => BucketInv'
    <2> SUFFICES ASSUME BucketInv, [BucketNext]_bucketVars PROVE BucketInv'
      OBVIOUS
    <2>1. CASE UNCHANGED bucketVars
      BY <2>1 DEF BucketInv, bucketVars, Times
    <2>2. ASSUME NEW t \in 0..TimeMax, Attempt(t) PROVE BucketInv'
      BY <2>2, AttemptKeepsBucketInv
    <2>3. ASSUME NEW t \in 0..TimeMax, NEW publish \in BOOLEAN, Message(t, publish)
          PROVE  BucketInv'
      BY <2>3, MessageKeepsBucketInv
    <2> QED
      BY <2>1, <2>2, <2>3 DEF BucketNext
  <1> QED
    BY <1>1, BucketInvInitially, BucketInvIsEnough, PTL DEF BucketSpec
=============================================================================
