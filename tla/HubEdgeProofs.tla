---------------------------- MODULE HubEdgeProofs ----------------------------
(***************************************************************************)
(* Proofs about HubEdge, for any connections, peers, limits and daemon.    *)
(***************************************************************************)
EXTENDS HubEdge, FiniteSetTheorems, TLAPS

----------------------------------------------------------------------------
(* The inductive invariant.                                                *)

(* Where a worker has no place yet, where it is about to give its place    *)
(* back, and where it has.                                                 *)
Outside == {"idle", "arrived", "asked", "sourcing"}
Ending  == {"evicting", "parting", "closing"}
Gone    == {"evicted", "leaving"}

Others  == {"opening", "accepting", "polling", "expiring"}
Places  == Serving \cup Outside \cup Ending \cup Gone \cup Others

Locks == {"sessions", "core", "files"}

SlotTypes ==
  /\ at \in [Threads -> Places]
  /\ held \in [Locks -> Threads \cup {None}]
  /\ entries \subseteq opened /\ opened \subseteq Workers
  /\ terminal \in [Workers -> BOOLEAN] /\ crossed \in [Workers -> BOOLEAN]
  /\ scanned \in [Workers -> SUBSET Workers]

(* A place goes with the worker: it has one while it serves, and none      *)
(* before and after.  The room that upgrade found is there until the place *)
(* is taken, for the lock is kept.                                         *)
Placed ==
  \A w \in Workers :
    /\ at[w] \in Serving => w \in entries
    /\ at[w] \in Outside => w \notin opened
    /\ at[w] = "opening" => w \notin opened /\ held["sessions"] = w /\ HasRoom(w)
    /\ at[w] \in Gone => w \notin entries

Limited ==
  /\ Cardinality(entries) <= MaxConnections
  /\ \A w \in Workers : Cardinality(OfPeer(w)) <= MaxConnectionsPerPeer

(* What a scan has found, and what is marked, is slow and has its place.   *)
Marked ==
  /\ \A w \in Workers : terminal[w] => w \in entries /\ crossed[w]
  /\ \A w \in Workers : \A v \in scanned[w] : v \in entries /\ crossed[v]

SlotInv == SlotTypes /\ Placed /\ Limited /\ Marked

LEMMA LimitTypes ==
  /\ MaxConnections \in Nat \ {0} /\ MaxConnectionsPerPeer \in Nat \ {0}
  /\ IsFiniteSet(Workers)
  /\ Listener \notin Workers /\ None \notin Workers
  /\ Listener \in Threads /\ \A w \in Workers : w \in Threads /\ w # Listener
BY HubEdgeAssumption DEF ValidConfig, Threads

(* Sessions are counted in sets that are finite.                           *)
LEMMA EntriesFinite ==
  ASSUME SlotTypes
  PROVE  /\ IsFiniteSet(entries) /\ Cardinality(entries) \in Nat
         /\ \A w : IsFiniteSet(OfPeer(w)) /\ Cardinality(OfPeer(w)) \in Nat
<1>1. IsFiniteSet(entries)
  BY LimitTypes, FS_Subset DEF SlotTypes
<1>2. ASSUME NEW w  PROVE IsFiniteSet(OfPeer(w))
  BY <1>1, FS_Subset DEF OfPeer
<1> QED
  BY <1>1, <1>2, FS_CardinalityType

LEMMA SlotInit == EdgeInit => SlotInv
<1> SUFFICES ASSUME EdgeInit PROVE SlotInv
  OBVIOUS
<1>1. SlotTypes
  <2>1. at \in [Threads -> Places]
    BY LimitTypes DEF EdgeInit, Places, Outside, Others
  <2>2. held \in [Locks -> Threads \cup {None}]
    BY DEF EdgeInit, Locks
  <2>3. terminal \in [Workers -> BOOLEAN] /\ crossed \in [Workers -> BOOLEAN]
    BY Zenon DEF EdgeInit
  <2>4. /\ scanned \in [Workers -> SUBSET Workers]
        /\ entries \subseteq opened /\ opened \subseteq Workers
    BY DEF EdgeInit
  <2> QED
    BY <2>1, <2>2, <2>3, <2>4 DEF SlotTypes
<1>2. \A w \in Workers : at[w] = "idle"
  BY LimitTypes DEF EdgeInit
<1>3. Placed
  BY <1>2 DEF Placed, EdgeInit, Serving, Outside, Gone
<1>4. Limited
  <2>1. entries = {} /\ \A w : OfPeer(w) = {}
    BY DEF EdgeInit, OfPeer
  <2> QED
    BY <2>1, LimitTypes, FS_EmptySet DEF Limited
<1>5. Marked
  BY DEF EdgeInit, Marked
<1> QED
  BY <1>1, <1>3, <1>4, <1>5 DEF SlotInv

----------------------------------------------------------------------------
(* Steps that leave the places alone.                                      *)

(* A thread goes on where it was, outside, serving or ending, and the      *)
(* sessions' lock, places and marks stay as they are, but that a mark may  *)
(* be taken back.                                                          *)
Stays(from, to) ==
  \/ from = to
  \/ from \in Outside /\ to \in Outside
  \/ from \in Serving /\ to \in Serving \cup Ending
  \/ from \in Ending /\ to \in Ending

Walks ==
  /\ at' \in [Threads -> Places]
  /\ \A w \in Workers : Stays(at[w], at'[w])

LockKept ==
  /\ held' \in [Locks -> Threads \cup {None}]
  /\ held'["sessions"] = held["sessions"]

MarksStay ==
  /\ terminal' \in [Workers -> BOOLEAN]
  /\ \A w \in Workers : terminal'[w] => terminal[w]

Quiet == Walks /\ LockKept /\ MarksStay /\ UNCHANGED <<entries, opened, scanned>>

(* A session stays slow in memory as long as it is open.                   *)
LEMMA CrossedStays ==
  ASSUME Crosses
  PROVE  /\ crossed' \in [Workers -> BOOLEAN]
         /\ \A w \in Workers : w \in opened /\ w \in opened' /\ crossed[w] => crossed'[w]
BY DEF Crosses

LEMMA QuietKeeps ==
  ASSUME SlotInv, Quiet, Crosses
  PROVE  SlotInv'
<1>1. SlotTypes'
  BY CrossedStays DEF SlotInv, SlotTypes, Quiet, Walks, LockKept, MarksStay
<1>2. \A w : OfPeer(w)' = OfPeer(w)
  BY DEF Quiet, OfPeer
<1>3. \A w \in Workers : HasRoom(w) => HasRoom(w)'
  BY <1>2 DEF Quiet, HasRoom
<1>4. Placed'
  BY <1>3 DEF SlotInv, Placed, Quiet, Walks, LockKept, Stays, Outside, Serving, Ending, Gone
<1>5. Limited'
  BY <1>2 DEF SlotInv, Limited, Quiet
<1>6. Marked'
  BY CrossedStays DEF SlotInv, SlotTypes, Marked, Quiet, MarksStay
<1> QED
  BY <1>1, <1>4, <1>5, <1>6 DEF SlotInv

----------------------------------------------------------------------------
(* The actions that are quiet.                                             *)

LEMMA MoveStays ==
  ASSUME SlotInv, NEW x \in Threads, NEW from, NEW to \in Places,
         Moves(x, from, to), x \in Workers => Stays(from, to)
  PROVE  Walks
<1>1. at[x] = from /\ at' = [at EXCEPT ![x] = to] /\ at \in [Threads -> Places]
  BY DEF Moves, SlotInv, SlotTypes
<1>2. at' \in [Threads -> Places]
  BY <1>1
<1>3. ASSUME NEW w \in Workers  PROVE Stays(at[w], at'[w])
  <2>1. w \in Threads
    BY DEF Threads
  <2>2. CASE w = x
    BY <1>1, <2>1, <2>2
  <2>3. CASE w # x
    BY <1>1, <2>1, <2>3 DEF Stays
  <2> QED
    BY <2>2, <2>3
<1> QED
  BY <1>2, <1>3 DEF Walks

LEMMA AtStays ==
  ASSUME SlotInv, UNCHANGED at
  PROVE  Walks
BY DEF Walks, SlotInv, SlotTypes, Stays

(* Locks and marks, where a step leaves them as they are.                  *)
LEMMA LocksStay ==
  ASSUME SlotInv
  PROVE  /\ UNCHANGED held => LockKept
         /\ \A lock \in {"core", "files"} : Gives(lock) => LockKept
         /\ \A lock \in {"core", "files"}, x \in Threads : Takes(lock, x) => LockKept
BY DEF SlotInv, SlotTypes, LockKept, Gives, Takes, Locks

LEMMA MarksStayThere == SlotInv /\ UNCHANGED terminal => MarksStay
BY Zenon DEF MarksStay, SlotInv, SlotTypes

LEMMA ListenerQuiet ==
  ASSUME SlotInv, DaemonTurns \/ Sample(Listener) \/ Store(Listener) \/ ExpireFiles
  PROVE  Quiet
<1>1. Walks /\ LockKept /\ UNCHANGED <<entries, opened, scanned, terminal>>
  <2> USE LimitTypes, MoveStays, AtStays, LocksStay
      DEF sessionVars, coreVars, Stays, Places, Outside, Serving, Ending, Others
  <2>1. CASE DaemonTurns BY <2>1 DEF DaemonTurns
  <2>2. CASE Sample(Listener) BY <2>2 DEF Sample
  <2>3. CASE Store(Listener) BY <2>3 DEF Store
  <2>4. CASE ExpireFiles BY <2>4 DEF ExpireFiles
  <2> QED
    BY <2>1, <2>2, <2>3, <2>4
<1> QED
  BY <1>1, MarksStayThere DEF Quiet

LEMMA AdmissionQuiet ==
  ASSUME SlotInv, NEW w \in Workers,
         \/ Accept(w) \/ TurnAway(w) \/ ReadRequest(w) \/ Answer(w) \/ Readiness(w)
         \/ ListSources(w) \/ ListFileSources(w) \/ Refuse(w) \/ Overdue(w)
  PROVE  Quiet
<1>1. Walks /\ LockKept /\ UNCHANGED <<entries, opened, scanned, terminal>>
  <2> USE LimitTypes, MoveStays, AtStays, LocksStay
      DEF sessionVars, coreVars, Stays, Places, Outside, Serving, Ending, Others
  <2>1. CASE Accept(w) BY <2>1 DEF Accept
  <2>2. CASE TurnAway(w) BY <2>2 DEF TurnAway
  <2>3. CASE ReadRequest(w) BY <2>3 DEF ReadRequest
  <2>4. CASE Answer(w) BY <2>4 DEF Answer
  <2>5. CASE Readiness(w) BY <2>5 DEF Readiness
  <2>6. CASE ListSources(w) BY <2>6 DEF ListSources
  <2>7. CASE ListFileSources(w) BY <2>7 DEF ListFileSources
  <2>8. CASE Refuse(w) BY <2>8 DEF Refuse
  <2>9. CASE Overdue(w) BY <2>9 DEF Overdue
  <2> QED
    BY <2>1, <2>2, <2>3, <2>4, <2>5, <2>6, <2>7, <2>8, <2>9
<1> QED
  BY <1>1, MarksStayThere DEF Quiet

LEMMA LoopQuiet ==
  ASSUME SlotInv, NEW w \in Workers,
         \/ Greet(w) \/ GreetFails(w) \/ Probe(w) \/ Sample(w) \/ Store(w) \/ Judge(w)
         \/ Lease(w) \/ Drained(w) \/ Written(w) \/ WriteFails(w) \/ CompleteResume(w) \/ Part(w)
  PROVE  Quiet
<1>1. Walks /\ LockKept /\ UNCHANGED <<entries, opened, scanned, terminal>>
  <2> USE LimitTypes, MoveStays, AtStays, LocksStay
      DEF sessionVars, coreVars, Stays, Places, Outside, Serving, Ending, Others
  <2>1. CASE Greet(w) BY <2>1 DEF Greet
  <2>2. CASE GreetFails(w) BY <2>2 DEF GreetFails
  <2>3. CASE Probe(w) BY <2>3 DEF Probe
  <2>4. CASE Sample(w) BY <2>4 DEF Sample
  <2>5. CASE Store(w) BY <2>5 DEF Store
  <2>6. CASE Judge(w) BY <2>6 DEF Judge
  <2>7. CASE Lease(w) BY <2>7 DEF Lease
  <2>8. CASE Drained(w) BY <2>8 DEF Drained
  <2>9. CASE Written(w) BY <2>9 DEF Written
  <2>10. CASE WriteFails(w) BY <2>10 DEF WriteFails
  <2>11. CASE CompleteResume(w) BY <2>11 DEF CompleteResume
  <2>12. CASE Part(w) BY <2>12 DEF Part
  <2> QED
    BY <2>1, <2>2, <2>3, <2>4, <2>5, <2>6, <2>7, <2>8, <2>9, <2>10, <2>11, <2>12
<1> QED
  BY <1>1, MarksStayThere DEF Quiet

LEMMA SocketQuiet ==
  ASSUME SlotInv, NEW w \in Workers, NEW to, Read(w, to) \/ Replied(w, to) \/ SendFile(w, to)
  PROVE  Quiet
<1>1. Walks /\ LockKept /\ UNCHANGED <<entries, opened, scanned, terminal>>
  <2> USE LimitTypes, MoveStays, AtStays, LocksStay
      DEF sessionVars, coreVars, Stays, Places, Outside, Serving, Ending, Others
  <2>1. CASE Read(w, to) BY <2>1 DEF Read
  <2>2. CASE Replied(w, to) BY <2>2 DEF Replied
  <2>3. CASE SendFile(w, to) BY <2>3 DEF SendFile
  <2> QED
    BY <2>1, <2>2, <2>3
<1> QED
  BY <1>1, MarksStayThere DEF Quiet

LEMMA MessagesQuiet ==
  ASSUME SlotInv, NEW w \in Workers,
         \/ Talks(w) \/ Resume(w) \/ Publish(w) \/ Ack(w) \/ Clear(w) \/ CommitClear(w)
         \/ AnswerClear(w) \/ SyncFiles(w) \/ TakeFiles(w) \/ HandleFile(w)
  PROVE  Quiet
<1>1. Walks /\ LockKept /\ UNCHANGED <<entries, opened, scanned, terminal>>
  <2> USE LimitTypes, MoveStays, AtStays, LocksStay
      DEF sessionVars, coreVars, Stays, Places, Outside, Serving, Ending, Others
  <2>1. ASSUME NEW m \in Messages, AdmitText(w, m)
          PROVE  Walks /\ LockKept /\ UNCHANGED <<entries, opened, scanned, terminal>>
    BY <2>1 DEF AdmitText, Messages
  <2>2. CASE AdmitFile(w) BY <2>2 DEF AdmitFile
  <2>3. CASE Resume(w) BY <2>3 DEF Resume
  <2>4. CASE Publish(w) BY <2>4 DEF Publish
  <2>5. CASE Ack(w) BY <2>5 DEF Ack
  <2>6. CASE Clear(w) BY <2>6 DEF Clear
  <2>7. CASE CommitClear(w) BY <2>7 DEF CommitClear
  <2>8. CASE AnswerClear(w) BY <2>8 DEF AnswerClear
  <2>9. CASE SyncFiles(w) BY <2>9 DEF SyncFiles
  <2>10. CASE TakeFiles(w) BY <2>10 DEF TakeFiles
  <2>11. CASE HandleFile(w) BY <2>11 DEF HandleFile
  <2> QED
    BY <2>1, <2>2, <2>3, <2>4, <2>5, <2>6, <2>7, <2>8, <2>9, <2>10, <2>11 DEF Talks
<1> QED
  BY <1>1, MarksStayThere DEF Quiet

(* A worker that finds its mark takes it back and ends.                    *)
LEMMA TopQuiet ==
  ASSUME SlotInv, NEW w \in Workers, Top(w)
  PROVE  Quiet
<1>1. Walks
  BY LimitTypes, MoveStays DEF Top, Stays, Places, Serving, Ending
<1>2. LockKept /\ UNCHANGED <<entries, opened, scanned>>
  BY LocksStay DEF Top, coreVars
<1>3. terminal' = terminal \/ terminal' = [terminal EXCEPT ![w] = FALSE]
  BY DEF Top
<1>4. MarksStay
  BY <1>3, Zenon DEF MarksStay, SlotInv, SlotTypes
<1> QED
  BY <1>1, <1>2, <1>4 DEF Quiet

----------------------------------------------------------------------------
(* The actions that take a place, give it back, or mark it.                *)

(* Where the worker that moves goes, and that the others stay.             *)
LEMMA MovesOne ==
  ASSUME SlotInv, NEW w \in Workers, NEW from, NEW to \in Places, Moves(w, from, to)
  PROVE  /\ at' \in [Threads -> Places] /\ at[w] = from /\ at'[w] = to
         /\ \A v \in Workers : v # w => at'[v] = at[v]
BY LimitTypes DEF Moves, SlotInv, SlotTypes

LEMMA RoomStays == UNCHANGED entries => \A w : OfPeer(w)' = OfPeer(w) /\ HasRoom(w)' = HasRoom(w)
<1> SUFFICES ASSUME UNCHANGED entries
             PROVE  \A w : OfPeer(w)' = OfPeer(w) /\ HasRoom(w)' = HasRoom(w)
  OBVIOUS
<1>1. \A w : OfPeer(w)' = OfPeer(w)
  BY DEF OfPeer
<1> QED
  BY <1>1 DEF HasRoom

LEMMA ClaimKeeps ==
  ASSUME SlotInv, NEW w \in Workers, Claim(w), Crosses
  PROVE  SlotInv'
<1>1. /\ at' \in [Threads -> Places] /\ at[w] = "asked" /\ at'[w] = "opening"
      /\ \A v \in Workers : v # w => at'[v] = at[v]
  BY MovesOne DEF Claim, Places, Others
<1>2. /\ UNCHANGED <<entries, opened, terminal, scanned>>
      /\ HasRoom(w) /\ held["sessions"] = None
      /\ held' \in [Locks -> Threads \cup {None}] /\ held'["sessions"] = w
  BY LimitTypes DEF Claim, sessionVars, coreVars, Takes, Free, SlotInv, SlotTypes, Locks
<1>3. SlotTypes'
  BY <1>1, <1>2, CrossedStays DEF SlotInv, SlotTypes
<1>4. Placed'
  <2>1. \A v \in Workers : at[v] # "opening"
    BY <1>2, LimitTypes DEF SlotInv, Placed
  <2>2. w \notin opened
    BY <1>1 DEF SlotInv, Placed, Outside
  <2>3. HasRoom(w)'
    BY <1>2, RoomStays
  <2> QED
    BY <1>1, <1>2, <2>1, <2>2, <2>3 DEF SlotInv, Placed, Serving, Outside, Gone
<1>5. Limited'
  BY <1>2, RoomStays DEF SlotInv, Limited
<1>6. Marked'
  BY <1>2, CrossedStays DEF SlotInv, SlotTypes, Marked
<1> QED
  BY <1>3, <1>4, <1>5, <1>6 DEF SlotInv

(* The room that Claim found is still there.                               *)
LEMMA OpenKeeps ==
  ASSUME SlotInv, NEW w \in Workers, Open(w), Crosses
  PROVE  SlotInv'
<1>1. /\ at' \in [Threads -> Places] /\ at[w] = "opening" /\ at'[w] = "greeting"
      /\ \A v \in Workers : v # w => at'[v] = at[v]
  BY MovesOne DEF Open, Places, Serving
<1>2. /\ UNCHANGED <<terminal, scanned>>
      /\ opened' = opened \cup {w} /\ entries' = entries \cup {w}
      /\ held' \in [Locks -> Threads \cup {None}]
  BY LimitTypes DEF Open, Gives, SlotInv, SlotTypes, Locks
<1>3. w \notin opened /\ w \notin entries /\ held["sessions"] = w /\ HasRoom(w)
  BY <1>1 DEF SlotInv, SlotTypes, Placed
<1>4. SlotTypes'
  BY <1>1, <1>2, CrossedStays DEF SlotInv, SlotTypes
<1>5. Placed'
  <2>1. \A v \in Workers : at[v] = "opening" => v = w
    BY <1>3 DEF SlotInv, Placed
  <2> QED
    BY <1>1, <1>2, <2>1 DEF SlotInv, Placed, Serving, Outside, Gone
<1>6. Limited'
  <2>1. Cardinality(entries') = Cardinality(entries) + 1
    BY <1>2, <1>3, EntriesFinite, FS_AddElement DEF SlotInv
  <2>2. ASSUME NEW v \in Workers  PROVE Cardinality(OfPeer(v)') <= MaxConnectionsPerPeer
    <3>1. CASE PeerOf[v] = PeerOf[w]
      <4>1. OfPeer(v)' = OfPeer(w) \cup {w} /\ w \notin OfPeer(w)
        BY <1>2, <1>3, <3>1 DEF OfPeer
      <4>2. Cardinality(OfPeer(v)') = Cardinality(OfPeer(w)) + 1
        BY <4>1, EntriesFinite, FS_AddElement DEF SlotInv
      <4> QED
        BY <1>3, <4>2, EntriesFinite, LimitTypes DEF SlotInv, HasRoom
    <3>2. CASE PeerOf[v] # PeerOf[w]
      <4>1. OfPeer(v)' = OfPeer(v)
        BY <1>2, <3>2 DEF OfPeer
      <4> QED
        BY <4>1 DEF SlotInv, Limited
    <3> QED
      BY <3>1, <3>2
  <2> QED
    BY <1>3, <2>1, <2>2, EntriesFinite, LimitTypes DEF SlotInv, HasRoom, Limited
<1>7. Marked'
  BY <1>2, CrossedStays DEF SlotInv, SlotTypes, Marked
<1> QED
  BY <1>4, <1>5, <1>6, <1>7 DEF SlotInv

(* Nobody is between the count and its place while an entry is removed.    *)
LEMMA CloseEntryKeeps ==
  ASSUME SlotInv, NEW w \in Workers, CloseEntry(w), Crosses
  PROVE  SlotInv'
<1>1. /\ at' \in [Threads -> Places] /\ at[w] \in Ending /\ at'[w] \in Gone
      /\ \A v \in Workers : v # w => at'[v] = at[v]
  BY MovesOne DEF CloseEntry, Places, Ending, Gone
<1>2. /\ UNCHANGED <<opened, held>> /\ held["sessions"] = None
      /\ entries' = entries \ {w}
      /\ scanned' = [v \in Workers |-> IF v = w THEN {} ELSE scanned[v] \ {w}]
      /\ terminal' = [terminal EXCEPT ![w] = FALSE]
  BY DEF CloseEntry, Forget, Free, coreVars
<1>3. /\ terminal' \in [Workers -> BOOLEAN]
      /\ \A v \in Workers : terminal'[v] => terminal[v] /\ v # w
  BY <1>2, Zenon DEF SlotInv, SlotTypes
<1>4. SlotTypes'
  BY <1>1, <1>2, <1>3, CrossedStays DEF SlotInv, SlotTypes
<1>5. Placed'
  <2>1. \A v \in Workers : at[v] # "opening"
    BY <1>2, LimitTypes DEF SlotInv, Placed
  <2> QED
    BY <1>1, <1>2, <2>1 DEF SlotInv, Placed, Serving, Outside, Gone
<1>6. Limited'
  <2>1. Cardinality(entries') <= Cardinality(entries) /\ Cardinality(entries') \in Nat
    BY <1>2, EntriesFinite, FS_Subset, FS_CardinalityType DEF SlotInv
  <2>2. ASSUME NEW v \in Workers  PROVE Cardinality(OfPeer(v)') <= MaxConnectionsPerPeer
    <3>1. OfPeer(v)' \subseteq OfPeer(v)
      BY <1>2 DEF OfPeer
    <3>2. Cardinality(OfPeer(v)') <= Cardinality(OfPeer(v)) /\ Cardinality(OfPeer(v)') \in Nat
      BY <3>1, EntriesFinite, FS_Subset, FS_CardinalityType DEF SlotInv
    <3> QED
      BY <3>2, EntriesFinite, LimitTypes DEF SlotInv, Limited
  <2> QED
    BY <2>1, <2>2, EntriesFinite, LimitTypes DEF SlotInv, Limited
<1>7. Marked'
  BY <1>2, <1>3, CrossedStays DEF SlotInv, SlotTypes, Marked
<1> QED
  BY <1>4, <1>5, <1>6, <1>7 DEF SlotInv

LEMMA CloseSessionKeeps ==
  ASSUME SlotInv, NEW w \in Workers, CloseSession(w), Crosses
  PROVE  SlotInv'
<1>1. /\ at' \in [Threads -> Places] /\ at[w] \in Gone /\ at'[w] \in {"parting", "idle"}
      /\ \A v \in Workers : v # w => at'[v] = at[v]
  BY MovesOne DEF CloseSession, Places, Ending, Outside, Gone
<1>2. UNCHANGED <<entries, terminal, scanned, held>> /\ opened' = opened \ {w}
  BY DEF CloseSession, Leave, sessionVars
<1>3. w \notin entries
  BY <1>1 DEF SlotInv, Placed
<1>4. SlotTypes'
  BY <1>1, <1>2, <1>3, CrossedStays DEF SlotInv, SlotTypes
<1>5. Placed'
  <2>1. \A v \in Workers : HasRoom(v)' = HasRoom(v)
    BY <1>2, RoomStays
  <2> QED
    BY <1>1, <1>2, <1>3, <2>1 DEF SlotInv, Placed, Serving, Outside, Gone
<1>6. Limited'
  BY <1>2, RoomStays DEF SlotInv, Limited
<1>7. Marked'
  BY <1>2, <1>3, CrossedStays DEF SlotInv, SlotTypes, Marked
<1> QED
  BY <1>4, <1>5, <1>6, <1>7 DEF SlotInv

(* What a scan finds slow has crossed the bound.                           *)
LEMMA ScanKeeps ==
  ASSUME SlotInv, NEW w \in Workers, Scan(w), Crosses
  PROVE  SlotInv'
<1>1. Walks /\ LockKept /\ UNCHANGED <<entries, opened, terminal>>
  BY LimitTypes, MoveStays, LocksStay DEF Scan, coreVars, Stays, Places, Serving
<1>2. /\ scanned' = [scanned EXCEPT ![w] = {v \in entries \cap opened : IsSlow(v)}]
      /\ \A v \in Workers : Events(v)' = Events(v)
  BY DEF Scan, coreVars, Events
<1>3. SlotTypes'
  BY <1>1, <1>2, CrossedStays DEF SlotInv, SlotTypes, Walks, LockKept
<1>4. \A v \in Workers : HasRoom(v)' = HasRoom(v)
  BY <1>1, RoomStays
<1>5. Placed'
  BY <1>1, <1>4 DEF SlotInv, Placed, Walks, LockKept, Stays, Outside, Serving, Ending, Gone
<1>6. Limited'
  BY <1>1, RoomStays DEF SlotInv, Limited
<1>7. \A v \in entries \cap opened : IsSlow(v) => crossed'[v]
  BY <1>1, <1>2 DEF Crosses, IsSlow, SlotInv, SlotTypes
<1>8. Marked'
  BY <1>1, <1>2, <1>7, CrossedStays DEF SlotInv, SlotTypes, Marked
<1> QED
  BY <1>3, <1>5, <1>6, <1>8 DEF SlotInv

LEMMA MarkKeeps ==
  ASSUME SlotInv, NEW w \in Workers, Mark(w), Crosses
  PROVE  SlotInv'
<1>1. Walks /\ LockKept /\ UNCHANGED <<entries, opened>>
  BY LimitTypes, MoveStays, LocksStay DEF Mark, coreVars, Stays, Places, Serving
<1>2. /\ terminal' = [v \in Workers |-> terminal[v] \/ v \in scanned[w] \cap entries]
      /\ scanned' = [scanned EXCEPT ![w] = {}]
  BY DEF Mark
<1>3. /\ terminal' \in [Workers -> BOOLEAN]
      /\ \A v \in Workers : terminal'[v] => terminal[v] \/ v \in scanned[w] \cap entries
  BY <1>2, Zenon
<1>4. SlotTypes'
  BY <1>1, <1>2, <1>3, CrossedStays DEF SlotInv, SlotTypes, Walks, LockKept
<1>5. \A v \in Workers : HasRoom(v)' = HasRoom(v)
  BY <1>1, RoomStays
<1>6. Placed'
  BY <1>1, <1>5 DEF SlotInv, Placed, Walks, LockKept, Stays, Outside, Serving, Ending, Gone
<1>7. Limited'
  BY <1>1, RoomStays DEF SlotInv, Limited
<1>8. Marked'
  BY <1>1, <1>2, <1>3, CrossedStays DEF SlotInv, SlotTypes, Marked
<1> QED
  BY <1>4, <1>6, <1>7, <1>8 DEF SlotInv

----------------------------------------------------------------------------
(* The theorems.                                                           *)

LEMMA SlotStep ==
  ASSUME SlotInv, [EdgeNext]_edgeVars
  PROVE  SlotInv'
<1>1. CASE UNCHANGED edgeVars
  <2>1. UNCHANGED <<at, held, entries, opened, terminal, scanned, crossed>>
    BY <1>1 DEF edgeVars, sessionVars, coreVars
  <2>2. \A w : OfPeer(w)' = OfPeer(w) /\ HasRoom(w)' = HasRoom(w)
    BY <2>1, RoomStays
  <2> QED
    BY <2>1, <2>2 DEF SlotInv, SlotTypes, Placed, Limited, Marked
<1>2. CASE Crosses /\ (DaemonTurns \/ Listens)
  BY <1>2, ListenerQuiet, QuietKeeps DEF Listens
<1>3. ASSUME NEW w \in Workers, Crosses, Happens(w) \/ Talks(w) \/ Runs(w)
      PROVE  SlotInv'
  <2>1. CASE Happens(w)
    BY <1>3, <2>1, AdmissionQuiet, SocketQuiet, QuietKeeps, ClaimKeeps DEF Happens
  <2>2. CASE Talks(w)
    BY <1>3, <2>2, MessagesQuiet, QuietKeeps
  <2>3. CASE Proceeds(w)
    BY <1>3, <2>3, AdmissionQuiet, LoopQuiet, TopQuiet, SocketQuiet, MessagesQuiet, QuietKeeps,
       OpenKeeps, ScanKeeps, MarkKeeps, CloseEntryKeeps, CloseSessionKeeps DEF Proceeds
  <2>4. CASE Probe(w) \/ Drained(w) \/ Delivers(w) \/ Breaks(w)
    BY <1>3, <2>4, LoopQuiet, SocketQuiet, QuietKeeps DEF Delivers, Breaks
  <2> QED
    BY <1>3, <2>1, <2>2, <2>3, <2>4 DEF Runs
<1> QED
  BY <1>1, <1>2, <1>3 DEF EdgeNext

LEMMA SlotsHold == EdgeSpec => []SlotInv
<1>1. EdgeInit => SlotInv
  BY SlotInit
<1>2. SlotInv /\ [EdgeNext]_edgeVars => SlotInv'
  BY SlotStep
<1> QED
  BY <1>1, <1>2, PTL DEF EdgeSpec

(* For any connections, peers and limits: a worker that serves has its     *)
(* place at the edge and its session in the core, one that has ended has   *)
(* neither, and no limit is exceeded (HubEdge::upgrade, close_session).    *)
THEOREM SlotsAlwaysMatch == EdgeSpec => []SlotsMatchWorkers
<1>1. SlotInv => SlotsMatchWorkers
  BY DEF SlotInv, SlotTypes, Placed, Limited, SlotsMatchWorkers, Outside
<1> QED
  BY <1>1, SlotsHold, PTL

(* Whatever comes between a scan of the queues and the marking, only a     *)
(* session whose queue has passed the bound is marked as slow              *)
(* (close_slow_consumers, session_queue_metrics).                          *)
THEOREM OnlySlowAlwaysClosed == EdgeSpec => []OnlySlowAreClosed
<1>1. SlotInv => OnlySlowAreClosed
  BY DEF SlotInv, Marked, OnlySlowAreClosed
<1> QED
  BY <1>1, SlotsHold, PTL

=============================================================================
