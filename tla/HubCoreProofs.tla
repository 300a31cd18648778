--------------------------- MODULE HubCoreProofs ---------------------------
(***************************************************************************)
(* Theorems about the hub's core, for any sessions, peers, drafts, limits  *)
(* and bounds.                                                             *)
(***************************************************************************)
EXTENDS HubCore, OrderedProofs

----------------------------------------------------------------------------
(* What the operators on rows return.                                      *)

LEMMA ConstantTypes ==
  /\ CursorMax \in Nat
  /\ GenerationMax \in Nat \ {0}
  /\ EpochMax \in Nat \ {0}
  /\ ClockMax \in Nat
  /\ HistoryMax \in Nat \ {0}
  /\ Retention \in Nat \ {0}
  /\ \A s \in Sessions : PeerOf[s] \in Peers
  /\ \A d \in Drafts : d.id \in MessageIds /\ d.gen \in Nat /\ d.created \in Int
BY HubCoreAssumption

(* Trimming only takes rows away.                                          *)
LEMMA TrimTakes == ASSUME NEW S PROVE Trim(S) \subseteq S
BY DEF Trim, Newest, Retained

(* The cursor remembered as lost is one of the database, is never one      *)
(* before what was remembered, and covers every row that went.             *)
LEMMA LostAfterCovers ==
  ASSUME lost_through_cursor \in 0..CursorMax,
         NEW gone, \A c \in gone : c.cursor \in Cursors
  PROVE  /\ LostAfter(gone) \in 0..CursorMax
         /\ lost_through_cursor <= LostAfter(gone)
         /\ \A c \in gone : c.cursor <= LostAfter(gone)
<1> DEFINE T == {lost_through_cursor} \cup {c.cursor : c \in gone}
<1>1. T \subseteq 0..CursorMax /\ T # {}
  BY ConstantTypes DEF Cursors
<1>2. Max(T) \in T /\ \A y \in T : y <= Max(T)
  BY <1>1, ConstantTypes, MaxIsLargest
<1> QED
  BY <1>1, <1>2 DEF LostAfter

(* Trimming the rows S leaves rows of S, and every row that is gone has a  *)
(* cursor that is remembered as lost.                                      *)
LEMMA TrimTransactionKeeps ==
  ASSUME lost_through_cursor \in 0..CursorMax, NEW S, S \subseteq Clip, TrimTransaction(S)
  PROVE  /\ clips' \subseteq S
         /\ lost_through_cursor' \in 0..CursorMax
         /\ lost_through_cursor <= lost_through_cursor'
         /\ \A c \in S \ clips' : c.cursor <= lost_through_cursor'
<1>1. \A c \in S : c.cursor \in Cursors
  BY DEF Clip
<1>2. clips' = Trim(S) /\ lost_through_cursor' = LostAfter(S \ Trim(S))
  BY DEF TrimTransaction
<1> QED
  BY <1>1, <1>2, TrimTakes, LostAfterCovers

(* The row that a non-empty set of rows has for each of its cursors.       *)
LEMMA ReplayLists ==
  ASSUME NEW S, S \subseteq Clip
  PROVE  LET K == {c.cursor : c \in S}
         IN  /\ Replay(S) \in Seq([kind : {"resume_clip"}, clip : S])
             /\ Len(Replay(S)) = Cardinality(K)
             /\ \A j \in 1..Cardinality(K) : Replay(S)[j].clip.cursor = Nth(K, j)
<1> DEFINE K == {c.cursor : c \in S}
           row(j) == CHOOSE c \in S : c.cursor = Nth(K, j)
<1>1. K \subseteq 0..CursorMax /\ CursorMax \in Nat
  BY ConstantTypes DEF Clip, Cursors
<1>2. Cardinality(K) \in Nat
  BY <1>1, FiniteBelow
<1>3. ASSUME NEW j \in 1..Cardinality(K)
      PROVE  row(j) \in S /\ row(j).cursor = Nth(K, j)
  <2>1. Nth(K, j) \in K
    BY <1>1, NthIsElement
  <2>2. \E c \in S : c.cursor = Nth(K, j)
    BY <2>1
  <2> QED
    BY <2>2
<1>4. Replay(S) = [j \in 1..Cardinality(K) |-> [kind |-> "resume_clip", clip |-> row(j)]]
  BY DEF Replay
<1> HIDE DEF row, K
<1>5. Replay(S) \in [1..Cardinality(K) -> [kind : {"resume_clip"}, clip : S]]
  BY <1>3, <1>4
<1>6. Replay(S) \in Seq([kind : {"resume_clip"}, clip : S]) /\ Len(Replay(S)) = Cardinality(K)
  BY <1>2, <1>5, FunctionIsSequence
<1>7. \A j \in 1..Cardinality(K) : Replay(S)[j].clip.cursor = Nth(K, j)
  BY <1>3, <1>4
<1> QED
  BY <1>6, <1>7 DEF K

----------------------------------------------------------------------------
(* Type correctness.                                                       *)

(* What the handlers queue are events.                                     *)
LEMMA EventTypes ==
  /\ \A c \in Clip : [kind |-> "resume_clip", clip |-> c] \in Event
  /\ \A c \in Clip : [kind |-> "live", clip |-> c] \in Event
  /\ [kind : {"resume_clip"}, clip : Clip] \subseteq Event
  /\ \A st \in ResumeStatus, g \in 1..GenerationMax, a, b, l \in 0..CursorMax :
       [kind |-> "resume_started", status |-> st, gen |-> g, after |-> a, boundary |-> b,
        lost |-> l] \in Event
  /\ \A g \in 1..GenerationMax, b \in 0..CursorMax :
       [kind |-> "resume_complete", gen |-> g, boundary |-> b] \in Event
  /\ \A id \in MessageIds, k \in Cursors, dup \in BOOLEAN :
       [kind |-> "publish_accepted", id |-> id, cursor |-> k, duplicate |-> dup] \in Event
  /\ \A r \in Requests, g \in 1..GenerationMax, k \in 0..CursorMax, dup \in BOOLEAN :
       [kind |-> "clear_accepted", request |-> r, gen |-> g, through |-> k,
        duplicate |-> dup] \in Event
  /\ \A r \in Requests, g \in 1..GenerationMax, k \in 0..CursorMax :
       [kind |-> "clear_notice", request |-> r, gen |-> g, through |-> k] \in Event
BY DEF Event

(* An event that carries a clip carries one of the table's type.           *)
LEMMA ClipOfEvent == \A e \in Event : IsClip(e) => e.clip \in Clip
BY DEF Event, IsClip

LEMMA StatusOfType ==
  ASSUME NEW known \in Contexts, NEW after
  PROVE  StatusOf(known, after) \in ResumeStatus
<1>1. CASE known = NoContext
  BY <1>1 DEF StatusOf, NoContext, ResumeStatus
<1>2. CASE known # NoContext
  <2>1. known \in [epoch : 1..EpochMax, gen : 1..GenerationMax]
    BY <1>2 DEF Contexts
  <2>2. CASE known.gen # clear_generation
    BY <2>2, <1>2 DEF StatusOf, ResumeStatus
  <2>3. CASE known.gen = clear_generation /\ known.epoch # history_epoch
    BY <2>3, <1>2 DEF StatusOf, ResumeStatus
  <2>4. CASE known.gen = clear_generation /\ known.epoch = history_epoch
    <3>1. known = [epoch |-> history_epoch, gen |-> clear_generation]
      BY <2>1, <2>4
    <3> QED
      BY <3>1, <2>4, <1>2 DEF StatusOf, ResumeStatus
  <2> QED
    BY <2>2, <2>3, <2>4
<1> QED
  BY <1>1, <1>2

(* A freshly started hub, whatever database it found.                      *)
EmptySessions ==
  /\ phase = AllSessions("closed")
  /\ generation = AllSessions(0)
  /\ queue = AllSessions(<<>>)
  /\ buffered = AllSessions(<<>>)
  /\ highest = AllSessions(NoCursor)
  /\ acknowledged = AllSessions(NoCursor)
  /\ worker = AllSessions("awaiting_resume")
  /\ resumed_after = AllSessions(NoCursor)
  /\ delivered = AllSessions({})

DatabaseType ==
  /\ history_epoch \in 1..EpochMax
  /\ clear_generation \in 1..GenerationMax
  /\ cursor_high_water \in 0..CursorMax
  /\ lost_through_cursor \in 0..CursorMax
  /\ clips \subseteq Clip
  /\ tombstones \subseteq Tombstone
  /\ receipts \subseteq Receipt

SessionType ==
  /\ phase \in [Sessions -> {"closed", "AwaitResume", "Replaying", "Live", "Stale"}]
  /\ generation \in [Sessions -> 0..GenerationMax]
  /\ queue \in [Sessions -> Seq(Event)]
  /\ buffered \in [Sessions -> Seq(Clip)]
  /\ highest \in [Sessions -> 0..CursorMax]
  /\ acknowledged \in [Sessions -> 0..CursorMax]
  /\ worker \in [Sessions -> {"awaiting_resume", "looping", "completing", "closing"}]
  /\ resumed_after \in [Sessions -> 0..CursorMax]
  /\ delivered \in [Sessions -> SUBSET Cursors]

LEMMA TypeParts ==
  TypeOK <=> /\ DatabaseType
             /\ SessionType
             /\ terminal_failure \in {"None", "HubCursorExhausted", "ClearGenerationExhausted"}
             /\ clock \in 0..ClockMax
BY DEF TypeOK, DatabaseType, SessionType

LEMMA EmptySessionsType == EmptySessions => SessionType
<1> SUFFICES ASSUME EmptySessions PROVE SessionType
  OBVIOUS
<1>1. CursorMax \in Nat /\ GenerationMax \in Nat
  BY ConstantTypes
<1>2. <<>> \in Seq(Event) /\ <<>> \in Seq(Clip)
  OBVIOUS
<1>3. {} \in SUBSET Cursors
  OBVIOUS
<1> QED
  BY <1>1, <1>2, <1>3 DEF EmptySessions, SessionType, AllSessions, NoCursor

LEMMA TypeInit == Init => TypeOK
<1> SUFFICES ASSUME Init PROVE TypeOK
  OBVIOUS
<1>1. DatabaseType
  BY ConstantTypes DEF Init, DatabaseType, NoCursor
<1>2. SessionType
  BY EmptySessionsType DEF Init, EmptySessions
<1>3. clock \in 0..ClockMax
  BY ConstantTypes DEF Init
<1> QED
  BY <1>1, <1>2, <1>3, TypeParts DEF Init

(* Retention leaves the tables well-typed.                                 *)
LEMMA ApplyRetentionType == DatabaseType /\ ApplyRetention => DatabaseType'
<1> SUFFICES ASSUME DatabaseType, ApplyRetention PROVE DatabaseType'
  OBVIOUS
<1>1. clips' \subseteq clips /\ lost_through_cursor' \in 0..CursorMax
  BY TrimTransactionKeeps DEF DatabaseType, ApplyRetention
<1> QED
  BY <1>1 DEF DatabaseType, ApplyRetention

LEMMA TypeOpen ==
  ASSUME TypeOK, Restart \/ RestartOnFreshDatabase
  PROVE  TypeOK'
<1>1. DatabaseType'
  <2>1. CASE Restart
    BY <2>1 DEF Restart, database, meta, TypeOK, DatabaseType
  <2>2. CASE RestartOnFreshDatabase
    BY <2>2, ConstantTypes DEF RestartOnFreshDatabase, TypeOK, DatabaseType, NoCursor
  <2> QED
    BY <2>1, <2>2
<1>2. Open
  BY DEF Restart, RestartOnFreshDatabase
<1>3. EmptySessions' => SessionType'
  BY EmptySessionsType, PTL
<1>4. SessionType'
  BY <1>2, <1>3 DEF Open, EmptySessions, AllSessions
<1> QED
  BY <1>1, <1>2, <1>4 DEF Open, TypeOK, DatabaseType, SessionType

LEMMA TypeReset ==
  ASSUME TypeOK, NEW s \in Sessions, OpenSession(s) \/ CloseSession(s)
  PROVE  TypeOK'
<1>1. PICK p \in {"closed", "AwaitResume"}, g \in 0..GenerationMax : ResetSession(s, p, g)
  <2>1. clear_generation \in 0..GenerationMax /\ 0 \in 0..GenerationMax
    BY ConstantTypes DEF TypeOK
  <2> QED
    BY <2>1 DEF OpenSession, CloseSession
<1>2. DatabaseType'
  BY <1>1 DEF ResetSession, database, meta, TypeOK, DatabaseType
<1>3. SessionType'
  <2>1. <<>> \in Seq(Event) /\ <<>> \in Seq(Clip) /\ NoCursor \in 0..CursorMax
    BY ConstantTypes DEF NoCursor
  <2> QED
    BY <1>1, <2>1 DEF ResetSession, TypeOK, SessionType
<1> QED
  BY <1>1, <1>2, <1>3 DEF ResetSession, TypeOK, DatabaseType, SessionType

(* The clips replayed are rows of the table.                               *)
LEMMA RowsFromTakes == ASSUME NEW after PROVE RowsFrom(after) \subseteq clips'
BY DEF RowsFrom

LEMMA TypeBeginResume ==
  ASSUME TypeOK, NEW s \in Sessions, NEW known \in Contexts, NEW after \in 0..CursorMax,
         BeginResume(s, known, after)
  PROVE  TypeOK'
<1>1. DatabaseType'
  BY ApplyRetentionType, TypeParts DEF BeginResume
<1>2. SessionType'
  <2>1. CASE UNCHANGED sessionVars
    BY <2>1 DEF sessionVars, offers, TypeOK, SessionType
  <2>2. CASE StartReplay(s, StatusOf(known, after), after)
    <3> DEFINE status == StatusOf(known, after)
               from   == IF status \in {"Gap", "Complete"} THEN after ELSE NoCursor
               missed == RowsFrom(from)
               T      == {from} \cup {c.cursor : c \in missed}
               start  == [kind |-> "resume_started", status |-> status,
                          gen |-> clear_generation, after |-> after,
                          boundary |-> cursor_high_water, lost |-> lost_through_cursor']
               end    == [kind |-> "resume_complete", gen |-> clear_generation,
                          boundary |-> cursor_high_water]
               next   == queue[s] \o <<start>> \o Replay(missed) \o <<end>>
    <3>1. from \in 0..CursorMax
      BY ConstantTypes DEF NoCursor
    <3>2. missed \subseteq Clip
      BY <1>1, RowsFromTakes DEF DatabaseType
    <3>3. T \subseteq 0..CursorMax /\ T # {}
      BY <3>1, <3>2, ConstantTypes DEF Clip, Cursors
    <3>4. Max(T) \in 0..CursorMax
      BY <3>3, ConstantTypes, MaxIsLargest
    <3>5. start \in Event /\ end \in Event
      BY <1>1, EventTypes, StatusOfType DEF TypeOK, DatabaseType
    <3>6. Replay(missed) \in Seq(Event)
      <4>1. Replay(missed) \in Seq([kind : {"resume_clip"}, clip : missed])
        BY <3>2, ReplayLists
      <4>2. [kind : {"resume_clip"}, clip : missed] \subseteq Event
        BY <3>2, EventTypes
      <4> QED
        BY <4>1, <4>2, SeqMonotonic
    <3>7. queue[s] \in Seq(Event)
      BY DEF TypeOK
    <3>8. next \in Seq(Event)
      <4> HIDE DEF start, end, missed
      <4> QED
        BY <3>5, <3>6, <3>7
    <3>9. /\ phase' = [phase EXCEPT ![s] = "Replaying"]
          /\ generation' = [generation EXCEPT ![s] = clear_generation]
          /\ highest' = [highest EXCEPT ![s] = Max(T)]
          /\ queue' = [queue EXCEPT ![s] = next]
          /\ resumed_after' = [resumed_after EXCEPT ![s] = from]
          /\ worker' = [worker EXCEPT ![s] = "looping"]
          /\ UNCHANGED <<buffered, acknowledged, delivered>>
      BY <2>2 DEF StartReplay
    <3>10. clear_generation \in 0..GenerationMax
      BY DEF TypeOK
    <3> HIDE DEF start, end, missed, from, T, status, next
    <3> QED
      BY <3>1, <3>4, <3>8, <3>9, <3>10 DEF TypeOK, SessionType
  <2> QED
    BY <2>1, <2>2 DEF BeginResume
<1> QED
  BY <1>1, <1>2 DEF BeginResume, TypeOK, DatabaseType, SessionType

LEMMA TypeCompleteResume ==
  ASSUME TypeOK, NEW s \in Sessions, CompleteResume(s)
  PROVE  TypeOK'
<1>1. DatabaseType'
  BY DEF CompleteResume, database, meta, TypeOK, DatabaseType
<1>2. SessionType'
  <2>1. CASE phase[s] = "Replaying" /\ generation[s] = clear_generation
    <3> DEFINE live == [i \in DOMAIN buffered[s] |-> [kind |-> "live", clip |-> buffered[s][i]]]
    <3>1. buffered[s] \in Seq(Clip)
      BY DEF TypeOK
    <3>2. Len(buffered[s]) \in Nat /\ DOMAIN buffered[s] = 1..Len(buffered[s])
      BY <3>1
    <3>3. \A i \in DOMAIN buffered[s] : buffered[s][i] \in Clip
      BY <3>1
    <3>4. live \in [1..Len(buffered[s]) -> Event]
      BY <3>2, <3>3, EventTypes
    <3>5. live \in Seq(Event)
      BY <3>2, <3>4, FunctionIsSequence
    <3>6. queue[s] \o live \in Seq(Event)
      <4> HIDE DEF live
      <4> QED
        BY <3>5 DEF TypeOK
    <3>7. HighestAfterHandover(s) \in 0..CursorMax
      <4>1. CASE buffered[s] = <<>>
        BY <4>1 DEF HighestAfterHandover, TypeOK
      <4>2. CASE buffered[s] # <<>>
        <5>1. Len(buffered[s]) \in DOMAIN buffered[s]
          BY <4>2, <3>1, <3>2
        <5>2. buffered[s][Len(buffered[s])].cursor \in 1..CursorMax
          BY <5>1, <3>3 DEF Clip, Cursors
        <5> QED
          BY <5>2, <4>2, ConstantTypes DEF HighestAfterHandover
      <4> QED
        BY <4>1, <4>2
    <3>8. BufferedAfterHandover(s) \in Seq(Clip)
      BY DEF BufferedAfterHandover
    <3>9. /\ queue' = [queue EXCEPT ![s] = queue[s] \o live]
          /\ highest' = [highest EXCEPT ![s] = HighestAfterHandover(s)]
          /\ buffered' = [buffered EXCEPT ![s] = BufferedAfterHandover(s)]
          /\ phase' = [phase EXCEPT ![s] = "Live"]
          /\ worker' = [worker EXCEPT ![s] = "looping"]
          /\ UNCHANGED <<generation, acknowledged, resumed_after, delivered>>
      BY <2>1 DEF CompleteResume
    <3> HIDE DEF live
    <3> QED
      BY <3>6, <3>7, <3>8, <3>9 DEF TypeOK, SessionType
  <2>2. CASE ~ (phase[s] = "Replaying" /\ generation[s] = clear_generation)
    BY <2>2 DEF CompleteResume, offers, TypeOK, SessionType
  <2> QED
    BY <2>1, <2>2
<1> QED
  BY <1>1, <1>2 DEF CompleteResume, TypeOK, DatabaseType, SessionType

LEMMA TypeWriteNextEvent ==
  ASSUME TypeOK, NEW s \in Sessions, WriteNextEvent(s)
  PROVE  TypeOK'
<1>1. DatabaseType'
  BY DEF WriteNextEvent, Complete, database, meta, TypeOK, DatabaseType
<1>2. SessionType'
  <2> DEFINE e == Head(queue[s])
  <2>1. queue[s] \in Seq(Event) /\ queue[s] # <<>>
    BY DEF WriteNextEvent, HasNextEvent, TypeOK
  <2>2. e \in Event /\ Tail(queue[s]) \in Seq(Event)
    BY <2>1, HeadTailProperties
  <2>3. (IF IsClip(e) THEN delivered[s] \cup {e.clip.cursor} ELSE delivered[s]) \in SUBSET Cursors
    <3>1. IsClip(e) => e.clip.cursor \in Cursors
      BY <2>2, ClipOfEvent DEF Clip
    <3>2. delivered[s] \in SUBSET Cursors
      BY DEF TypeOK
    <3> QED
      BY <3>1, <3>2
  <2>4. WorkerAfter(e) \in {"completing", "closing", "looping"}
    BY DEF WorkerAfter
  <2>5. /\ delivered' = [delivered EXCEPT ![s] =
              IF IsClip(e) THEN delivered[s] \cup {e.clip.cursor} ELSE delivered[s]]
        /\ worker' = [worker EXCEPT ![s] = WorkerAfter(e)]
        /\ queue' = [queue EXCEPT ![s] = Tail(queue[s])]
        /\ UNCHANGED <<phase, generation, buffered, highest, acknowledged, resumed_after>>
    BY DEF WriteNextEvent, NextEvent, Complete
  <2> HIDE DEF e
  <2> QED
    BY <2>2, <2>3, <2>4, <2>5 DEF TypeOK, SessionType
<1> QED
  BY <1>1, <1>2 DEF WriteNextEvent, TypeOK, DatabaseType, SessionType

(* The clip that an accepted draft becomes.                                *)
NewClip(s, d) ==
  [cursor |-> cursor_high_water + 1, draft |-> d, peer |-> PeerOf[s],
   gen |-> clear_generation, expires |-> clock + Retention]

LEMMA NewClipType ==
  ASSUME TypeOK, NEW s \in Sessions, NEW d \in Drafts, CursorLeft
  PROVE  NewClip(s, d) \in Clip /\ cursor_high_water + 1 \in Cursors
<1>1. cursor_high_water + 1 \in Cursors
  BY ConstantTypes DEF CursorLeft, Cursors, TypeOK
<1>2. clock + Retention \in Int
  BY ConstantTypes DEF TypeOK
<1> QED
  BY <1>1, <1>2, ConstantTypes DEF NewClip, Clip, TypeOK

(* Queues grow by events, buffers by clips.                                *)
LEMMA EnqueueClipType ==
  ASSUME TypeOK, NEW s \in Sessions, NEW c \in Clip, NEW accepted \in Event,
         EnqueueClip(s, c, accepted)
  PROVE  /\ queue' \in [Sessions -> Seq(Event)]
         /\ highest' \in [Sessions -> 0..CursorMax]
         /\ buffered' \in [Sessions -> Seq(Clip)]
<1> DEFINE live == [kind |-> "live", clip |-> c]
           told(t) == IF t = s THEN <<accepted>> ELSE <<>>
           offered(t) == IF Offers(t, c) THEN <<live>> ELSE <<>>
<1>1. live \in Event /\ c.cursor \in 0..CursorMax
  BY EventTypes, ConstantTypes DEF Clip, Cursors
<1>2. ASSUME NEW t \in Sessions
      PROVE  queue[t] \o told(t) \o offered(t) \in Seq(Event)
  <2>1. queue[t] \in Seq(Event)
    BY DEF TypeOK
  <2>2. told(t) \in Seq(Event)
    OBVIOUS
  <2>3. offered(t) \in Seq(Event)
    <3> HIDE DEF live
    <3> QED
      BY <1>1
  <2> HIDE DEF told, offered
  <2> QED
    BY <2>1, <2>2, <2>3
<1>3. queue' = [t \in Sessions |-> queue[t] \o told(t) \o offered(t)]
  BY DEF EnqueueClip
<1>4. queue' \in [Sessions -> Seq(Event)]
  <2> HIDE DEF told, offered
  <2> QED
    BY <1>2, <1>3
<1>5. highest' \in [Sessions -> 0..CursorMax]
  BY <1>1 DEF EnqueueClip, TypeOK
<1>6. \A t \in Sessions : buffered[t] \in Seq(Clip) /\ Append(buffered[t], c) \in Seq(Clip)
  BY AppendProperties DEF TypeOK
<1>7. buffered' = [t \in Sessions |->
         IF Buffers(t, c) THEN Append(buffered[t], c) ELSE buffered[t]]
  BY DEF EnqueueClip
<1>8. buffered' \in [Sessions -> Seq(Clip)]
  BY <1>6, <1>7
<1> QED
  BY <1>4, <1>5, <1>8

(* What persist_publish writes has the table's type.                       *)
LEMMA PersistPublishType ==
  ASSUME TypeOK, NEW c \in Clip, PersistPublish(c), c.draft.id \in MessageIds
  PROVE  DatabaseType'
<1>1. clips' \subseteq clips \cup {c} /\ lost_through_cursor' \in 0..CursorMax
  BY TrimTransactionKeeps DEF TypeOK, PersistPublish
<1>2. c.cursor \in Cursors /\ c.cursor \in 0..CursorMax /\ c.gen \in 1..GenerationMax
  BY ConstantTypes DEF Clip, Cursors
<1>3. [id |-> c.draft.id, cursor |-> c.cursor, gen |-> c.gen] \in Tombstone
  BY <1>2 DEF Tombstone
<1> QED
  BY <1>1, <1>2, <1>3 DEF PersistPublish, TypeOK, DatabaseType

LEMMA TypePublish ==
  ASSUME TypeOK, NEW s \in Sessions, NEW d \in Drafts, Publish(s, d)
  PROVE  TypeOK'
<1>1. UNCHANGED <<phase, generation, acknowledged, worker, clock, resumed_after, delivered>>
  BY DEF Publish
<1>2. CASE AcceptDuplicate(s, d)
  <2>1. PICK c \in Retained(clips) :
          /\ queue' = [queue EXCEPT ![s] = Append(queue[s],
               [kind |-> "publish_accepted", id |-> d.id, cursor |-> c.cursor,
                duplicate |-> TRUE])]
          /\ UNCHANGED <<database, terminal_failure, highest, buffered>>
    BY <1>2 DEF AcceptDuplicate, ClipByMessageId
  <2> DEFINE e == [kind |-> "publish_accepted", id |-> d.id, cursor |-> c.cursor,
                   duplicate |-> TRUE]
  <2>2. e \in Event
    <3>1. c.cursor \in Cursors
      BY DEF Retained, TypeOK, Clip
    <3> QED
      BY <3>1, ConstantTypes, EventTypes
  <2>3. Append(queue[s], e) \in Seq(Event)
    BY <2>2, AppendProperties DEF TypeOK
  <2>4. DatabaseType'
    BY <2>1 DEF database, meta, TypeOK, DatabaseType
  <2>5. SessionType'
    <3> HIDE DEF e
    <3>1. queue' = [queue EXCEPT ![s] = Append(queue[s], e)]
      BY <2>1 DEF e
    <3> QED
      BY <1>1, <2>1, <2>3, <3>1 DEF TypeOK, SessionType
  <2> QED
    BY <1>1, <2>1, <2>4, <2>5 DEF TypeOK, DatabaseType, SessionType
<1>3. CASE AcceptNew(s, d)
  <2> DEFINE c == NewClip(s, d)
             e == [kind |-> "publish_accepted", id |-> d.id, cursor |-> c.cursor,
                   duplicate |-> FALSE]
  <2>1. /\ PersistPublish(c)
        /\ EnqueueClip(s, c, e)
        /\ UNCHANGED terminal_failure
        /\ CursorLeft
    BY <1>3 DEF AcceptNew, NewClip
  <2>2. c \in Clip
    BY <2>1, NewClipType
  <2>3. c.cursor \in Cursors /\ c.draft.id \in MessageIds
    BY <2>2, ConstantTypes DEF Clip, NewClip
  <2>4. e \in Event
    BY <2>3, ConstantTypes, EventTypes
  <2> HIDE DEF c, e
  <2>5. DatabaseType'
    BY <2>1, <2>2, <2>3, PersistPublishType
  <2>6. SessionType'
    BY <1>1, <2>1, <2>2, <2>4, EnqueueClipType DEF TypeOK, SessionType
  <2> QED
    BY <1>1, <2>1, <2>5, <2>6 DEF TypeOK, DatabaseType, SessionType
<1>4. CASE ExhaustCursor
  BY <1>1, <1>4 DEF ExhaustCursor, database, meta, offers, TypeOK
<1> QED
  BY <1>2, <1>3, <1>4 DEF Publish

LEMMA TypeAcknowledge ==
  ASSUME TypeOK, NEW s \in Sessions, NEW cursor \in Cursors, Acknowledge(s, cursor)
  PROVE  TypeOK'
<1>1. cursor \in 0..CursorMax
  BY ConstantTypes DEF Cursors
<1>2. DatabaseType'
  BY DEF Acknowledge, database, meta, TypeOK, DatabaseType
<1>3. SessionType'
  BY <1>1 DEF Acknowledge, offers, TypeOK, SessionType
<1> QED
  BY <1>2, <1>3 DEF Acknowledge, TypeOK, DatabaseType, SessionType

LEMMA TypeRetainedSourcePeerIds ==
  ASSUME TypeOK, RetainedSourcePeerIds
  PROVE  TypeOK'
<1>1. DatabaseType'
  BY ApplyRetentionType, TypeParts DEF RetainedSourcePeerIds
<1>2. SessionType'
  BY DEF RetainedSourcePeerIds, sessionVars, offers, TypeOK, SessionType
<1> QED
  BY <1>1, <1>2 DEF RetainedSourcePeerIds, TypeOK, DatabaseType, SessionType

(* What is left in the queues, and what is added, are events.              *)
LEMMA RetractType ==
  ASSUME TypeOK, NEW s \in Sessions, NEW gen, NEW accepted \in Event, NEW notice \in Event,
         Retract(s, gen, accepted, notice)
  PROVE  /\ queue' \in [Sessions -> Seq(Event)]
         /\ buffered' \in [Sessions -> Seq(Clip)]
         /\ phase' \in [Sessions -> {"closed", "AwaitResume", "Replaying", "Live", "Stale"}]
<1> DEFINE kept(t) == Subsequence(queue[t], {i \in DOMAIN queue[t] : Stays(queue[t][i], gen)})
           told(t) == IF t = s THEN <<accepted>> ELSE <<>>
           left(t) == Subsequence(buffered[t], {i \in DOMAIN buffered[t] : buffered[t][i].gen >= gen})
<1>1. ASSUME NEW t \in Sessions
      PROVE  kept(t) \o told(t) \o <<notice>> \in Seq(Event)
  <2>1. queue[t] \in Seq(Event)
    BY DEF TypeOK
  <2>2. kept(t) \in Seq(Event)
    BY <2>1, SubsequenceElements
  <2>3. told(t) \in Seq(Event)
    OBVIOUS
  <2> HIDE DEF kept, told
  <2> QED
    BY <2>2, <2>3
<1>2. ASSUME NEW t \in Sessions
      PROVE  left(t) \in Seq(Clip)
  <2>1. buffered[t] \in Seq(Clip)
    BY DEF TypeOK
  <2> QED
    BY <2>1, SubsequenceElements
<1>3. queue' = [t \in Sessions |->
        IF IsTold(t) THEN kept(t) \o told(t) \o <<notice>> ELSE queue[t]]
  BY DEF Retract
<1>4. buffered' = [t \in Sessions |-> left(t)]
  BY DEF Retract
<1>5. phase' \in [Sessions -> {"closed", "AwaitResume", "Replaying", "Live", "Stale"}]
  BY DEF Retract, TypeOK
<1> HIDE DEF kept, told, left
<1>6. queue' \in [Sessions -> Seq(Event)]
  BY <1>1, <1>3 DEF TypeOK
<1>7. buffered' \in [Sessions -> Seq(Clip)]
  BY <1>2, <1>4
<1> QED
  BY <1>5, <1>6, <1>7

LEMMA TypeClearHistory ==
  ASSUME TypeOK, NEW s \in Sessions, NEW r \in Requests, NEW g \in 1..GenerationMax,
         ClearHistory(s, r, g)
  PROVE  TypeOK'
<1>1. UNCHANGED <<generation, highest, acknowledged, worker, clock, resumed_after, delivered>>
  BY DEF ClearHistory
<1>2. CASE ClearAgain(s, r, g)
  <2>1. PICK x \in receipts :
          /\ queue' = [queue EXCEPT ![s] = Append(queue[s],
               [kind |-> "clear_accepted", request |-> r, gen |-> x.committed,
                through |-> x.through, duplicate |-> TRUE])]
          /\ UNCHANGED <<database, terminal_failure, phase, buffered>>
    BY <1>2 DEF ClearAgain
  <2> DEFINE e == [kind |-> "clear_accepted", request |-> r, gen |-> x.committed,
                   through |-> x.through, duplicate |-> TRUE]
  <2>2. e \in Event
    <3>1. x.committed \in 1..GenerationMax /\ x.through \in 0..CursorMax
      BY DEF TypeOK, Receipt
    <3> QED
      BY <3>1, EventTypes
  <2>3. Append(queue[s], e) \in Seq(Event)
    BY <2>2, AppendProperties DEF TypeOK
  <2>4. DatabaseType'
    BY <2>1 DEF database, meta, TypeOK, DatabaseType
  <2>5. SessionType'
    <3> HIDE DEF e
    <3>1. queue' = [queue EXCEPT ![s] = Append(queue[s], e)]
      BY <2>1 DEF e
    <3> QED
      BY <1>1, <2>1, <2>3, <3>1 DEF TypeOK, SessionType
  <2> QED
    BY <1>1, <2>1, <2>4, <2>5 DEF TypeOK, DatabaseType, SessionType
<1>3. CASE CommitClear(s, r, g)
  <2> DEFINE next == clear_generation + 1
             receipt == [request |-> r, expected |-> g, committed |-> next,
                         through |-> cursor_high_water]
             accepted == [kind |-> "clear_accepted", request |-> r, gen |-> next,
                          through |-> cursor_high_water, duplicate |-> FALSE]
             notice == [kind |-> "clear_notice", request |-> r, gen |-> next,
                        through |-> cursor_high_water]
  <2>1. /\ clear_generation < GenerationMax
        /\ clips' = {}
        /\ clear_generation' = next
        /\ lost_through_cursor' = cursor_high_water
        /\ receipts' = receipts \cup {receipt}
        /\ Retract(s, next, accepted, notice)
        /\ UNCHANGED <<history_epoch, cursor_high_water, tombstones, terminal_failure>>
    BY <1>3 DEF CommitClear
  <2>2. next \in 1..GenerationMax
    BY <2>1, ConstantTypes DEF TypeOK
  <2>3. receipt \in Receipt
    BY <2>2 DEF Receipt, TypeOK
  <2>4. accepted \in Event /\ notice \in Event
    BY <2>2, EventTypes DEF TypeOK
  <2> HIDE DEF next, receipt, accepted, notice
  <2>5. DatabaseType'
    BY <2>1, <2>2, <2>3 DEF TypeOK, DatabaseType
  <2>6. SessionType'
    BY <1>1, <2>1, <2>4, RetractType DEF TypeOK, SessionType
  <2> QED
    BY <1>1, <2>1, <2>5, <2>6 DEF TypeOK, DatabaseType, SessionType
<1>4. CASE ExhaustGeneration
  BY <1>1, <1>4 DEF ExhaustGeneration, database, meta, TypeOK
<1> QED
  BY <1>2, <1>3, <1>4 DEF ClearHistory

LEMMA TypeClockMoves ==
  ASSUME TypeOK, ClockMoves
  PROVE  TypeOK'
BY DEF ClockMoves, database, meta, sessionVars, offers, TypeOK

LEMMA TypeStep == TypeOK /\ [Next]_vars => TypeOK'
<1> SUFFICES ASSUME TypeOK, [Next]_vars PROVE TypeOK'
  OBVIOUS
<1>1. CASE Restart \/ RestartOnFreshDatabase
  BY <1>1, TypeOpen
<1>2. CASE RetainedSourcePeerIds
  BY <1>2, TypeRetainedSourcePeerIds
<1>3. CASE ClockMoves
  BY <1>3, TypeClockMoves
<1>4. ASSUME NEW s \in Sessions, OpenSession(s) \/ CloseSession(s)  PROVE TypeOK'
  BY <1>4, TypeReset
<1>5. ASSUME NEW s \in Sessions, NEW known \in Contexts, NEW after \in 0..CursorMax,
             BeginResume(s, known, after)
      PROVE  TypeOK'
  BY <1>5, TypeBeginResume
<1>6. ASSUME NEW s \in Sessions, CompleteResume(s)  PROVE TypeOK'
  BY <1>6, TypeCompleteResume
<1>7. ASSUME NEW s \in Sessions, WriteNextEvent(s)  PROVE TypeOK'
  BY <1>7, TypeWriteNextEvent
<1>8. ASSUME NEW s \in Sessions, NEW d \in Drafts, Publish(s, d)  PROVE TypeOK'
  BY <1>8, TypePublish
<1>9. ASSUME NEW s \in Sessions, NEW cursor \in Cursors, Acknowledge(s, cursor)  PROVE TypeOK'
  BY <1>9, TypeAcknowledge
<1>10. ASSUME NEW s \in Sessions, NEW r \in Requests, NEW g \in 1..GenerationMax,
              ClearHistory(s, r, g)
       PROVE  TypeOK'
  BY <1>10, TypeClearHistory
<1>11. CASE UNCHANGED vars
  BY <1>11 DEF vars, database, meta, sessionVars, offers, TypeOK
<1> QED
  BY <1>1, <1>2, <1>3, <1>4, <1>5, <1>6, <1>7, <1>8, <1>9, <1>10, <1>11 DEF Next

(* Every table, counter, queue and session keeps its type, whatever the    *)
(* limits: no cursor or generation leaves its range, because publish and   *)
(* clear_history check the counter before they advance it.                 *)
THEOREM TypeCorrect == Spec => []TypeOK
BY TypeInit, TypeStep, PTL DEF Spec

----------------------------------------------------------------------------
(* What a step does to the database.                                       *)

DatabaseStep ==
  \/ UNCHANGED database
  \/ ApplyRetention
  \/ \E s \in Sessions, d \in Drafts :
       d.gen = clear_generation /\ Acceptable(d) /\ AcceptNew(s, d)
  \/ \E s \in Sessions, r \in Requests, g \in 1..GenerationMax :
       ~HasReceipt(r) /\ g = clear_generation /\ CommitClear(s, r, g)
  \/ RestartOnFreshDatabase

LEMMA DatabaseSteps == [Next]_vars => DatabaseStep
<1> SUFFICES ASSUME [Next]_vars PROVE DatabaseStep
  OBVIOUS
<1>1. CASE Restart
  BY <1>1 DEF Restart, DatabaseStep
<1>2. CASE RestartOnFreshDatabase
  BY <1>2 DEF DatabaseStep
<1>3. CASE RetainedSourcePeerIds
  BY <1>3 DEF RetainedSourcePeerIds, DatabaseStep
<1>4. CASE ClockMoves
  BY <1>4 DEF ClockMoves, DatabaseStep
<1>5. ASSUME NEW s \in Sessions, OpenSession(s) \/ CloseSession(s)  PROVE DatabaseStep
  BY <1>5 DEF OpenSession, CloseSession, ResetSession, DatabaseStep
<1>6. ASSUME NEW s \in Sessions, NEW known \in Contexts, NEW after \in 0..CursorMax,
             BeginResume(s, known, after)
      PROVE  DatabaseStep
  BY <1>6 DEF BeginResume, DatabaseStep
<1>7. ASSUME NEW s \in Sessions, CompleteResume(s) \/ WriteNextEvent(s)  PROVE DatabaseStep
  BY <1>7 DEF CompleteResume, WriteNextEvent, DatabaseStep
<1>8. ASSUME NEW s \in Sessions, NEW d \in Drafts, Publish(s, d)  PROVE DatabaseStep
  BY <1>8 DEF Publish, PreflightPublish, CompareGeneration, AcceptDuplicate, ExhaustCursor,
              DatabaseStep
<1>9. ASSUME NEW s \in Sessions, NEW cursor \in Cursors, Acknowledge(s, cursor)
      PROVE  DatabaseStep
  BY <1>9 DEF Acknowledge, DatabaseStep
<1>10. ASSUME NEW s \in Sessions, NEW r \in Requests, NEW g \in 1..GenerationMax,
              ClearHistory(s, r, g)
       PROVE  DatabaseStep
  BY <1>10 DEF ClearHistory, CompareGeneration, ClearAgain, ExhaustGeneration, DatabaseStep
<1>11. CASE UNCHANGED vars
  BY <1>11 DEF vars, DatabaseStep
<1> QED
  BY <1>1, <1>2, <1>3, <1>4, <1>5, <1>6, <1>7, <1>8, <1>9, <1>10, <1>11 DEF Next

----------------------------------------------------------------------------
(* Nothing is forgotten silently.                                          *)

(* A trimmed row is covered by what is remembered as lost.                 *)
LEMMA TrimRemembers ==
  ASSUME TypeOK, NEW S, S \subseteq Clip, TrimTransaction(S), NEW k \in Cursors,
         (\E c \in S : c.cursor = k) \/ k <= lost_through_cursor
  PROVE  (\E c \in clips' : c.cursor = k) \/ k <= lost_through_cursor'
<1>1. /\ lost_through_cursor' \in 0..CursorMax
      /\ lost_through_cursor <= lost_through_cursor'
      /\ \A c \in S \ clips' : c.cursor <= lost_through_cursor'
  BY TrimTransactionKeeps DEF TypeOK
<1>2. k \in Int /\ lost_through_cursor \in Int /\ lost_through_cursor' \in Int
  BY <1>1 DEF TypeOK, Cursors
<1>3. CASE \E c \in S : c.cursor = k
  <2>1. PICK c \in S : c.cursor = k
    BY <1>3
  <2> QED
    BY <2>1, <1>1
<1>4. CASE k <= lost_through_cursor
  BY <1>4, <1>1, <1>2
<1> QED
  BY <1>3, <1>4

LEMMA LossStep == TypeOK /\ LossIsRemembered /\ [Next]_vars => LossIsRemembered'
<1> SUFFICES ASSUME TypeOK, LossIsRemembered, [Next]_vars,
                    NEW k \in 1..cursor_high_water'
             PROVE  (\E c \in clips' : c.cursor = k) \/ k <= lost_through_cursor'
  BY DEF LossIsRemembered, RowAt
<1>1. TypeOK'
  BY TypeStep
<1>2. k \in Cursors
  BY <1>1, ConstantTypes DEF TypeOK, Cursors
<1>3. k <= cursor_high_water => (\E c \in clips : c.cursor = k) \/ k <= lost_through_cursor
  BY DEF LossIsRemembered, RowAt, TypeOK
<1>4. ASSUME UNCHANGED database
      PROVE  (\E c \in clips' : c.cursor = k) \/ k <= lost_through_cursor'
  BY <1>3, <1>4 DEF database, meta, TypeOK
<1>5. CASE ApplyRetention
  <2>1. (\E c \in clips : c.cursor = k) \/ k <= lost_through_cursor
    BY <1>3, <1>5 DEF ApplyRetention, TypeOK
  <2>2. clips \subseteq Clip /\ TrimTransaction(clips)
    BY <1>5 DEF ApplyRetention, TypeOK
  <2> QED
    BY <1>2, <2>1, <2>2, TrimRemembers
<1>6. ASSUME NEW s \in Sessions, NEW d \in Drafts, AcceptNew(s, d)
      PROVE  (\E c \in clips' : c.cursor = k) \/ k <= lost_through_cursor'
  <2> DEFINE c == NewClip(s, d)
  <2>1. PersistPublish(c) /\ c \in Clip /\ c.cursor = cursor_high_water + 1
    BY <1>6, NewClipType DEF AcceptNew, NewClip
  <2> HIDE DEF c
  <2>2. k <= cursor_high_water \/ k = c.cursor
    BY <2>1 DEF PersistPublish, TypeOK
  <2>3. (\E x \in clips \cup {c} : x.cursor = k) \/ k <= lost_through_cursor
    BY <2>2, <1>3
  <2>4. clips \cup {c} \subseteq Clip /\ TrimTransaction(clips \cup {c})
    BY <2>1 DEF PersistPublish, TypeOK
  <2> QED
    BY <1>2, <2>3, <2>4, TrimRemembers
<1>7. ASSUME NEW s \in Sessions, NEW r \in Requests, NEW g \in 1..GenerationMax,
             CommitClear(s, r, g)
      PROVE  (\E c \in clips' : c.cursor = k) \/ k <= lost_through_cursor'
  BY <1>7 DEF CommitClear, TypeOK
<1>8. CASE RestartOnFreshDatabase
  BY <1>8 DEF RestartOnFreshDatabase
<1>9. DatabaseStep
  BY DatabaseSteps
<1> QED
  BY <1>4, <1>5, <1>6, <1>7, <1>8, <1>9 DEF DatabaseStep

(* Every cursor that was ever assigned has its row, or lies at or before   *)
(* the cursor the hub tells a resuming client it has lost up to, so that   *)
(* a gap is never hidden: whichever rows trimming takes, in whatever order *)
(* the clock makes them expire.                                            *)
THEOREM LossAlwaysRemembered == Spec => []LossIsRemembered
<1>1. Init => LossIsRemembered
  BY DEF Init, LossIsRemembered
<1> QED
  BY <1>1, TypeCorrect, LossStep, PTL DEF Spec

----------------------------------------------------------------------------
(* The core implements one clip log.                                       *)

(* No row has a cursor that is still to be assigned.                       *)
RowsAssigned == \A c \in clips : c.cursor <= cursor_high_water

(* The clip just accepted is not trimmed with the rest.                    *)
LEMMA NewClipStays ==
  ASSUME TypeOK, RowsAssigned, NEW s \in Sessions, NEW d \in Drafts
  PROVE  NewClip(s, d) \in Trim(clips \cup {NewClip(s, d)})
<1> DEFINE c == NewClip(s, d)
           S == clips \cup {c}
<1>1. c \in Retained(S)
  BY ConstantTypes DEF Retained, NewClip, TypeOK
<1>2. {x \in Retained(S) : x.cursor > c.cursor} = {}
  <2>1. c.cursor = cursor_high_water + 1 /\ cursor_high_water \in Nat
    BY DEF NewClip, TypeOK
  <2>2. \A x \in clips : x.cursor \in Int
    BY DEF TypeOK, Clip, Cursors
  <2>3. \A x \in S : ~ (x.cursor > c.cursor)
    BY <2>1, <2>2 DEF RowsAssigned
  <2> HIDE DEF c
  <2> QED
    BY <2>3 DEF Retained
<1>3. Cardinality({x \in Retained(S) : x.cursor > c.cursor}) < HistoryMax
  <2>1. Cardinality({}) = 0 /\ 0 < HistoryMax
    BY FS_EmptySet, ConstantTypes
  <2> HIDE DEF c, S
  <2> QED
    BY <1>2, <2>1
<1> QED
  BY <1>1, <1>3 DEF Trim, Newest

LEMMA RowsStep == TypeOK /\ RowsAssigned /\ [Next]_vars => RowsAssigned'
<1> SUFFICES ASSUME TypeOK, RowsAssigned, [Next]_vars PROVE RowsAssigned'
  OBVIOUS
<1>1. CASE UNCHANGED database
  BY <1>1 DEF database, meta, RowsAssigned
<1>2. CASE ApplyRetention
  BY <1>2, TrimTakes DEF ApplyRetention, TrimTransaction, RowsAssigned
<1>3. ASSUME NEW s \in Sessions, NEW d \in Drafts, AcceptNew(s, d)
      PROVE  RowsAssigned'
  <2> DEFINE c == NewClip(s, d)
  <2>1. PersistPublish(c) /\ c.cursor = cursor_high_water + 1
    BY <1>3 DEF AcceptNew, NewClip
  <2> HIDE DEF c
  <2>2. clips' \subseteq clips \cup {c} /\ cursor_high_water' = cursor_high_water + 1
    BY <2>1, TrimTakes DEF PersistPublish, TrimTransaction
  <2>3. \A x \in clips : x.cursor \in Int /\ x.cursor <= cursor_high_water
    BY DEF TypeOK, Clip, Cursors, RowsAssigned
  <2>4. cursor_high_water \in Int
    BY DEF TypeOK
  <2>5. \A x \in clips' : x.cursor <= cursor_high_water + 1
    BY <2>1, <2>2, <2>3, <2>4
  <2> QED
    BY <2>2, <2>5 DEF RowsAssigned
<1>4. ASSUME NEW s \in Sessions, NEW r \in Requests, NEW g \in 1..GenerationMax,
             CommitClear(s, r, g)
      PROVE  RowsAssigned'
  BY <1>4 DEF CommitClear, RowsAssigned
<1>5. CASE RestartOnFreshDatabase
  BY <1>5 DEF RestartOnFreshDatabase, RowsAssigned
<1> QED
  BY <1>1, <1>2, <1>3, <1>4, <1>5, DatabaseSteps DEF DatabaseStep

LEMMA LogStep ==
  TypeOK /\ RowsAssigned /\ [Next]_vars => [Log!Next]_(Log!vars)
<1> SUFFICES ASSUME TypeOK, RowsAssigned, [Next]_vars
             PROVE  [Log!Next]_(Log!vars)
  OBVIOUS
<1>1. CASE UNCHANGED database
  BY <1>1 DEF database, meta, Log!vars
<1>2. CASE ApplyRetention
  <2>1. Log!Forget
    BY <1>2, TrimTakes DEF ApplyRetention, TrimTransaction, Log!Forget
  <2> QED
    BY <2>1 DEF Log!Next
<1>3. ASSUME NEW s \in Sessions, NEW d \in Drafts, Acceptable(d), AcceptNew(s, d)
      PROVE  Log!Next
  <2> DEFINE c == NewClip(s, d)
             t == [id |-> d.id, cursor |-> cursor_high_water + 1, gen |-> clear_generation]
  <2>1. /\ TrimTransaction(clips \cup {c})
        /\ tombstones' = tombstones \cup {t}
        /\ cursor_high_water' = cursor_high_water + 1
        /\ UNCHANGED <<history_epoch, clear_generation>>
    BY <1>3 DEF AcceptNew, NewClip, PersistPublish
  <2>2. \A a \in tombstones : a.id # d.id
    BY <1>3 DEF Acceptable, TombstoneExists
  <2>3. {[id |-> a.id, cursor |-> a.cursor] : a \in tombstones'}
          = {[id |-> a.id, cursor |-> a.cursor] : a \in tombstones}
              \cup {[id |-> d.id, cursor |-> cursor_high_water + 1]}
    <3>1. [id |-> t.id, cursor |-> t.cursor] = [id |-> d.id, cursor |-> cursor_high_water + 1]
      OBVIOUS
    <3> HIDE DEF t
    <3>2. {[id |-> a.id, cursor |-> a.cursor] : a \in tombstones \cup {t}}
            = {[id |-> a.id, cursor |-> a.cursor] : a \in tombstones}
                \cup {[id |-> t.id, cursor |-> t.cursor]}
      BY Zenon
    <3> QED
      BY <2>1, <3>1, <3>2
  <2>4. c \in clips' /\ clips' \subseteq clips \cup {c}
    BY <2>1, NewClipStays, TrimTakes DEF TrimTransaction
  <2>5. c.cursor = cursor_high_water + 1
    BY DEF NewClip
  <2> HIDE DEF c, t
  <2>6. cursor_high_water + 1 \in Cursors
    BY <1>3, NewClipType DEF AcceptNew
  <2>7. Log!Accept(d.id)
    BY <2>1, <2>2, <2>3, <2>4, <2>5, <2>6 DEF Log!Accept
  <2> QED
    BY <2>7, ConstantTypes DEF Log!Next
<1>4. ASSUME NEW s \in Sessions, NEW r \in Requests, NEW g \in 1..GenerationMax,
             CommitClear(s, r, g)
      PROVE  Log!Next
  <2>1. clear_generation + 1 \in 1..GenerationMax
    BY <1>4, ConstantTypes DEF CommitClear, TypeOK
  <2>2. Log!Clear
    BY <1>4, <2>1 DEF CommitClear, Log!Clear
  <2> QED
    BY <2>2 DEF Log!Next
<1>5. CASE RestartOnFreshDatabase
  <2>1. Log!StartAnew
    BY <1>5 DEF RestartOnFreshDatabase, Log!StartAnew, Log!EmptyLog
  <2> QED
    BY <2>1 DEF Log!Next
<1> QED
  BY <1>1, <1>2, <1>3, <1>4, <1>5, DatabaseSteps DEF DatabaseStep

LEMMA LogInit == Init => Log!Init
BY DEF Init, Log!Init, Log!EmptyLog

(* The core is one clip log: whatever sessions, retries, clears, trims and *)
(* restarts do, a message id is accepted at most once and at the next      *)
(* cursor, the clip just accepted can be read, and nothing that could not  *)
(* be read comes back, but by the loss of the database.                    *)
THEOREM HubImplementsClipLog == Spec => ImplementsClipLog
<1>1. Init => RowsAssigned
  BY DEF Init, RowsAssigned
<1>2. Spec => []RowsAssigned
  BY <1>1, TypeCorrect, RowsStep, PTL DEF Spec
<1> QED
  BY <1>2, TypeCorrect, LogInit, LogStep, PTL DEF Spec, ImplementsClipLog, Log!Spec
=============================================================================
