----------------------------- MODULE AgentProofs -----------------------------
(***************************************************************************)
(* Proofs about Agent, from one inductive invariant.                       *)
(***************************************************************************)
EXTENDS Agent, FiniteSetTheorems, TLAPS

----------------------------------------------------------------------------
(* The inductive invariant.                                                *)

(* A session is there when the core is live, while it catches up and while *)
(* it takes a clip, and at no other time.                                  *)
SessionFits ==
  /\ state \in {Live, "OutboxFull"} => session # NoSession
  /\ at \in {"resume", "write", "mark"} => session # NoSession
  /\ session # NoSession => state \in {Live, "OutboxFull"} \/ at = "resume"
  /\ at = "resume" => state = Connecting

(* Between two parts of the loop there is something to go on with.         *)
PartFits ==
  /\ at = "commit" => last_revision # 0
  /\ at \in {"write", "mark"} => writing.cursor # 0

(* The store's history is one the hub has, or had.                         *)
HistoryFits ==
  /\ history_epoch <= hub.epoch
  /\ clear_generation = 0 => history_epoch = 0
  /\ \A clip \in shown :
       /\ clip.epoch <= history_epoch
       /\ clip.epoch = history_epoch => clip.gen <= clear_generation

(* Revisions only grow, and the agent's own write that is still on the     *)
(* clipboard is marked, or about to be, or older than a clear, or the core *)
(* has stopped.                                                            *)
MarkerFits ==
  /\ loop_marker <= clipboard
  /\ at = "mark" => loop_marker < writing.revision /\ writing.revision <= clipboard
  /\ \A row \in outbox : row.revision <= clipboard
  /\ \A w \in wrote :
       /\ w.revision <= clipboard
       /\ w.gen <= clear_generation
       /\ w.revision = clipboard =>
            \/ loop_marker = clipboard
            \/ w.gen < clear_generation
            \/ at = "mark" /\ writing.revision = clipboard
            \/ state \in Terminal

IInv ==
  /\ TypeOK /\ SessionFits /\ PartFits /\ HistoryFits /\ MarkerFits
  /\ ShownIsRecorded /\ AcksAreDurable /\ NothingOlderKept /\ NeverEchoed /\ OutboxIsSent

----------------------------------------------------------------------------
(* The outbox.                                                             *)

Fits(rows) == rows \subseteq Row /\ IsFiniteSet(rows) /\ Cardinality(rows) <= OutboxMax

LEMMA SubsetFits ==
  ASSUME NEW rows, Fits(rows), NEW left, left \subseteq rows
  PROVE  Fits(left)
<1>1. IsFiniteSet(left) /\ Cardinality(left) <= Cardinality(rows)
  BY FS_Subset DEF Fits
<1>2. Cardinality(left) \in Nat /\ Cardinality(rows) \in Nat
  BY <1>1, FS_CardinalityType DEF Fits
<1> QED BY <1>1, <1>2, AgentAssumption DEF Fits

LEMMA OneMoreFits ==
  ASSUME NEW rows, Fits(rows), HasRoom(rows), NEW row \in Row
  PROVE  Fits(rows \cup {row})
<1>1. IsFiniteSet(rows \cup {row}) /\ Cardinality(rows \cup {row}) <= Cardinality(rows) + 1
  BY FS_AddElement, FS_CardinalityType DEF Fits
<1>2. Cardinality(rows \cup {row}) \in Nat /\ Cardinality(rows) \in Nat
  BY <1>1, FS_CardinalityType DEF Fits
<1> QED BY <1>1, <1>2, AgentAssumption DEF Fits, HasRoom

----------------------------------------------------------------------------
(* The initial states, and each step.                                      *)

LEMMA InitIInv == Init => IInv
<1> SUFFICES ASSUME Init PROVE IInv
  OBVIOUS
<1> USE AgentAssumption
    DEF Init, NoSession, NoWrite, Connecting, Live, Terminal, States, Parts
<1>1. TypeOK
  <2>1. IsFiniteSet(outbox) /\ Cardinality(outbox) = 0
    BY FS_EmptySet
  <2>2. state \in States /\ local_only_next \in BOOLEAN
    OBVIOUS
  <2>3. hub \in [epoch : 1..EpochMax, gen : 1..GenerationMax, floor : 0..CursorMax,
                 high : 0..CursorMax]
    OBVIOUS
  <2>4. writing \in [cursor : 0..CursorMax, revision : 0..RevisionMax]
    OBVIOUS
  <2>5. shown = {} /\ wrote = {} /\ hidden \in BOOLEAN
    OBVIOUS
  <2> QED BY <2>1, <2>2, <2>3, <2>4, <2>5 DEF TypeOK
<1>2. SessionFits BY DEF SessionFits
<1>3. PartFits BY DEF PartFits
<1>4. HistoryFits BY DEF HistoryFits
<1>5. MarkerFits BY DEF MarkerFits
<1>6. ShownIsRecorded BY DEF ShownIsRecorded
<1>7. AcksAreDurable BY DEF AcksAreDurable
<1>8. NothingOlderKept BY DEF NothingOlderKept
<1>9. NeverEchoed BY DEF NeverEchoed
<1>10. OutboxIsSent BY DEF OutboxIsSent
<1> QED BY <1>1, <1>2, <1>3, <1>4, <1>5, <1>6, <1>7, <1>8, <1>9, <1>10 DEF IInv

(* The owner's commands and the lock.                                      *)
LEMMA CommandsKeep ==
  ASSUME IInv,
         Pause \/ Resume \/ ClearLocalHistory \/ LocalOnlyNext \/ CommandFails
  PROVE  IInv'
<1> USE AgentAssumption
    DEF IInv, TypeOK, SessionFits, PartFits, HistoryFits, MarkerFits, ShownIsRecorded,
        AcksAreDurable, NothingOlderKept, NeverEchoed, OutboxIsSent, NoSession, NoWrite,
        Connecting, Live, Terminal, States, Parts, stored, core, wire, outside, memory, Command
<1>1. CASE Pause BY <1>1 DEF Pause
<1>2. CASE Resume BY <1>2 DEF Resume
<1>3. CASE ClearLocalHistory BY <1>3 DEF ClearLocalHistory
<1>4. CASE LocalOnlyNext BY <1>4 DEF LocalOnlyNext
<1>5. CASE CommandFails BY <1>5 DEF CommandFails
<1> QED BY <1>1, <1>2, <1>3, <1>4, <1>5

LEMMA PollLockKeeps ==
  ASSUME IInv, NEW locked \in BOOLEAN, PollLock(locked)
  PROVE  IInv'
<1> USE AgentAssumption
    DEF IInv, TypeOK, NoSession, NoWrite, Connecting, Live, Terminal, States, Parts, stored, core,
        wire, outside, memory, PollLock, Hangup
<1>1. TypeOK'
  <2>1. state' \in States OBVIOUS
  <2>2. hidden' \in BOOLEAN OBVIOUS
  <2>3. local_only_next' \in BOOLEAN OBVIOUS
  <2>4. session' \in {NoSession} \cup [epoch : 1..EpochMax, gen : 1..GenerationMax] OBVIOUS
  <2>5. pending_ack' \in 0..CursorMax OBVIOUS
  <2>6. transport' \in {"none", "open", "closing"} /\ offered' \in 0..CursorMax OBVIOUS
  <2>7. unanswered' \subseteq 1..MessageMax /\ refused' \subseteq 1..MessageMax OBVIOUS
  <2>8. at' \in Parts OBVIOUS
  <2> QED BY <2>1, <2>2, <2>3, <2>4, <2>5, <2>6, <2>7, <2>8
<1>2. SessionFits' BY DEF SessionFits
<1>3. PartFits' BY DEF PartFits
<1>4. HistoryFits' BY DEF HistoryFits
<1>5. MarkerFits' BY DEF MarkerFits
<1>6. ShownIsRecorded' BY DEF ShownIsRecorded
<1>7. AcksAreDurable' BY DEF AcksAreDurable
<1>8. NothingOlderKept' BY DEF NothingOlderKept
<1>9. NeverEchoed' BY DEF NeverEchoed
<1>10. OutboxIsSent' BY DEF OutboxIsSent
<1> QED BY <1>1, <1>2, <1>3, <1>4, <1>5, <1>6, <1>7, <1>8, <1>9, <1>10

LEMMA StartKeeps ==
  ASSUME IInv, NEW locked \in BOOLEAN, Start(locked)
  PROVE  IInv'
<1> USE AgentAssumption
    DEF IInv, TypeOK, NoSession, NoWrite, Connecting, Live, Terminal, States, Parts, stored, core,
        wire, outside, memory, Start, Hangup
<1>1. TypeOK'
  <2>1. state' \in States OBVIOUS
  <2>2. hidden' \in BOOLEAN OBVIOUS
  <2>3. local_only_next' \in BOOLEAN OBVIOUS
  <2>4. writing' \in [cursor : 0..CursorMax, revision : 0..RevisionMax] OBVIOUS
  <2>5. wrote' \subseteq [revision : 1..RevisionMax, gen : 1..GenerationMax] OBVIOUS
  <2> QED BY <2>1, <2>2, <2>3, <2>4, <2>5
<1>2. SessionFits' BY DEF SessionFits
<1>3. PartFits' BY DEF PartFits
<1>4. HistoryFits' BY DEF HistoryFits
<1>5. MarkerFits' BY DEF MarkerFits
<1>6. ShownIsRecorded' BY DEF ShownIsRecorded
<1>7. AcksAreDurable' BY DEF AcksAreDurable
<1>8. NothingOlderKept' BY DEF NothingOlderKept
<1>9. NeverEchoed' BY DEF NeverEchoed
<1>10. OutboxIsSent' BY DEF OutboxIsSent
<1> QED BY <1>1, <1>2, <1>3, <1>4, <1>5, <1>6, <1>7, <1>8, <1>9, <1>10

(* Parts of the loop that change nothing the invariant looks at but the    *)
(* part that comes next and, at most, what may be acknowledged.            *)
LEMMA LookingKeeps ==
  ASSUME IInv,
         StaysAsItIs \/ Observe \/ ObserveFails \/ Suppress \/ KeepLocal \/ NothingArrives
           \/ Ack \/ EndTurn
  PROVE  IInv'
<1> USE AgentAssumption
    DEF IInv, TypeOK, SessionFits, PartFits, HistoryFits, MarkerFits, ShownIsRecorded,
        AcksAreDurable, NothingOlderKept, NeverEchoed, OutboxIsSent, NoSession, NoWrite,
        Connecting, Live, Terminal, States, Parts, stored, core, wire, outside, memory, Current
<1>1. CASE StaysAsItIs BY <1>1 DEF StaysAsItIs
<1>2. CASE Observe BY <1>2 DEF Observe
<1>3. CASE ObserveFails BY <1>3 DEF ObserveFails
<1>4. CASE Suppress BY <1>4 DEF Suppress
<1>5. CASE KeepLocal BY <1>5 DEF KeepLocal
<1>6. CASE NothingArrives BY <1>6 DEF NothingArrives
<1>7. CASE Ack BY <1>7 DEF Ack
<1>8. CASE EndTurn BY <1>8 DEF EndTurn
<1> QED BY <1>1, <1>2, <1>3, <1>4, <1>5, <1>6, <1>7, <1>8

(* A connection or the adapter fails, or the store does.                   *)
LEMMA DisconnectionsKeep ==
  ASSUME IInv,
         ConnectFails \/ ConnectionLost \/ AdapterFails
  PROVE  IInv'
<1> USE AgentAssumption
    DEF IInv, TypeOK, SessionFits, PartFits, HistoryFits, MarkerFits, ShownIsRecorded,
        AcksAreDurable, NothingOlderKept, NeverEchoed, OutboxIsSent, NoSession, NoWrite,
        Connecting, Live, Terminal, States, Parts, stored, core, wire, outside, memory,
        Connects, Current, Disconnect, Stop, Hangup
<1>1. CASE ConnectFails BY <1>1 DEF ConnectFails
<1>2. CASE ConnectionLost BY <1>2 DEF ConnectionLost
<1>3. CASE AdapterFails BY <1>3 DEF AdapterFails
<1> QED BY <1>1, <1>2, <1>3

LEMMA StoreFailsKeeps ==
  ASSUME IInv, StoreFails
  PROVE  IInv'
<1> USE AgentAssumption
    DEF IInv, TypeOK, NoSession, NoWrite, Connecting, Live, Terminal, States, Parts, stored, core,
        wire, outside, memory, StoreFails, Stop, Hangup, Connects, Publishable, Current,
        RowsWithout, StaleRemoved
<1>1. TypeOK'
  <2>1. outbox' \subseteq outbox BY DEF RowsWithout, StaleRemoved
  <2>2. Fits(outbox') BY <2>1, SubsetFits DEF Fits
  <2> QED BY <2>2 DEF Fits
<1>2. SessionFits' BY DEF SessionFits
<1>3. PartFits' BY DEF PartFits
<1>4. HistoryFits' BY DEF HistoryFits
<1>5. MarkerFits' BY DEF MarkerFits
<1>6. ShownIsRecorded' BY DEF ShownIsRecorded
<1>7. AcksAreDurable' BY DEF AcksAreDurable
<1>8. NothingOlderKept' BY DEF NothingOlderKept
<1>9. NeverEchoed' BY DEF NeverEchoed
<1>10. OutboxIsSent' BY DEF OutboxIsSent
<1> QED BY <1>1, <1>2, <1>3, <1>4, <1>5, <1>6, <1>7, <1>8, <1>9, <1>10

(* Catching up.  A hello may put the agent into another generation,        *)
(* another history, or both; the session is then that of the store.        *)
LEMMA HelloKeeps ==
  ASSUME IInv, Hello
  PROVE  IInv'
<1> USE AgentAssumption
    DEF IInv, TypeOK, NoSession, NoWrite, Connecting, Live, Terminal, States, Parts, stored, core,
        wire, outside, memory, Hello, Connects, HelloIsNotOlder, AdoptContext,
        ApplyGenerationChange, ApplyEpochChange, EstablishContext, Larger
<1>1. TypeOK'
  <2>1. outbox' \subseteq outbox OBVIOUS
  <2>2. Fits(outbox') BY <2>1, SubsetFits DEF Fits
  <2>3. session' \in [epoch : 1..EpochMax, gen : 1..GenerationMax] OBVIOUS
  <2>4. offered' \in 0..CursorMax OBVIOUS
  <2>5. history' \subseteq Clip /\ loop_marker' \in 0..RevisionMax OBVIOUS
  <2>6. history_epoch' \in 0..EpochMax /\ clear_generation' \in 0..GenerationMax OBVIOUS
  <2>7. last_cursor' \in 0..CursorMax OBVIOUS
  <2> QED BY <2>2, <2>3, <2>4, <2>5, <2>6, <2>7 DEF Fits
<1>2. SessionFits' BY DEF SessionFits
<1>3. PartFits' BY DEF PartFits
<1>4. HistoryFits' BY DEF HistoryFits
<1>5. MarkerFits' BY DEF MarkerFits
<1>6. ShownIsRecorded' BY DEF ShownIsRecorded, HistoryFits
<1>7. AcksAreDurable' BY DEF AcksAreDurable, SessionFits
<1>8. NothingOlderKept' BY DEF NothingOlderKept, HistoryFits, Row, Clip
<1>9. NeverEchoed' BY DEF NeverEchoed
<1>10. OutboxIsSent' BY DEF OutboxIsSent
<1> QED BY <1>1, <1>2, <1>3, <1>4, <1>5, <1>6, <1>7, <1>8, <1>9, <1>10

LEMMA ReplayClipKeeps ==
  ASSUME IInv, NEW k \in 1..CursorMax, ReplayClip(k)
  PROVE  IInv'
<1> USE AgentAssumption
    DEF IInv, TypeOK, NoSession, NoWrite, Connecting, Live, Terminal, States, Parts, stored, core,
        wire, outside, memory, ReplayClip, RecordReplay, Send, Sendable, RecordReceived,
        RecordCursor, Larger, Clip
<1>1. TypeOK'
  <2>1. session \in [epoch : 1..EpochMax, gen : 1..GenerationMax] BY DEF SessionFits
  <2>2. history' \subseteq Clip BY <2>1
  <2>3. hub' = [epoch |-> hub.epoch, gen |-> hub.gen, floor |-> hub.floor, high |-> hub'.high]
    OBVIOUS
  <2>4. hub'.high \in 0..CursorMax OBVIOUS
  <2> QED BY <2>2, <2>3, <2>4
<1>2. SessionFits' BY DEF SessionFits
<1>3. PartFits' BY DEF PartFits
<1>4. HistoryFits' BY DEF HistoryFits
<1>5. MarkerFits' BY DEF MarkerFits
<1>6. ShownIsRecorded' BY DEF ShownIsRecorded
<1>7. AcksAreDurable' BY DEF AcksAreDurable, SessionFits
<1>8. NothingOlderKept' BY DEF NothingOlderKept, SessionFits
<1>9. NeverEchoed' BY DEF NeverEchoed
<1>10. OutboxIsSent' BY DEF OutboxIsSent
<1> QED BY <1>1, <1>2, <1>3, <1>4, <1>5, <1>6, <1>7, <1>8, <1>9, <1>10

LEMMA ReplayDoneKeeps ==
  ASSUME IInv, NEW boundary \in 0..CursorMax, ReplayDone(boundary)
  PROVE  IInv'
<1> USE AgentAssumption
    DEF IInv, TypeOK, NoSession, NoWrite, Connecting, Live, Terminal, States, Parts, stored, core,
        wire, outside, memory, ReplayDone, SentAgain, Larger, Row
<1>1. TypeOK' BY DEF TypeOK
<1>2. SessionFits' BY DEF SessionFits
<1>3. PartFits' BY DEF PartFits
<1>4. HistoryFits' BY DEF HistoryFits
<1>5. MarkerFits' BY DEF MarkerFits, SessionFits
<1>6. ShownIsRecorded' BY DEF ShownIsRecorded
<1>7. AcksAreDurable' BY DEF AcksAreDurable
<1>8. NothingOlderKept' BY DEF NothingOlderKept
<1>9. NeverEchoed' BY DEF NeverEchoed
<1>10. OutboxIsSent' BY DEF OutboxIsSent
<1> QED BY <1>1, <1>2, <1>3, <1>4, <1>5, <1>6, <1>7, <1>8, <1>9, <1>10

(* The user's copy becomes a row.  It is of the session's generation,      *)
(* which is the store's, and not of what the agent wrote in it: that is    *)
(* marked.                                                                 *)
LEMMA TakeObservationKeeps ==
  ASSUME IInv, NEW old \in SUBSET outbox, TakeObservation(StaleRemoved(old))
  PROVE  IInv'
<1> USE AgentAssumption
    DEF IInv, TypeOK, NoSession, NoWrite, Connecting, Live, Terminal, States, Parts, stored, core,
        wire, outside, memory, TakeObservation, Publishable, Current
<1>1. TypeOK'
  <2>1. Fits(StaleRemoved(old)) BY SubsetFits DEF Fits, StaleRemoved
  <2>2. CASE state' = "OutboxFull" /\ outbox' = StaleRemoved(old)
             /\ UNCHANGED <<drawn, unanswered>>
    BY <2>1, <2>2 DEF Fits
  <2>3. CASE HasRoom(StaleRemoved(old)) /\ drawn < MessageMax /\ drawn' = drawn + 1
             /\ outbox' = StaleRemoved(old) \cup
                   {[id |-> drawn', gen |-> session.gen, revision |-> clipboard]}
             /\ unanswered' = unanswered \cup {drawn'} /\ UNCHANGED state
    <3>1. [id |-> drawn', gen |-> session.gen, revision |-> clipboard] \in Row
      BY <2>3 DEF Row, SessionFits, PartFits
    <3>2. Fits(outbox') BY <2>1, <2>3, <3>1, OneMoreFits
    <3> QED BY <2>3, <3>2 DEF Fits
  <2> QED BY <2>2, <2>3
<1>2. SessionFits' BY DEF SessionFits
<1>3. PartFits' BY DEF PartFits
<1>4. HistoryFits' BY DEF HistoryFits
<1>5. MarkerFits' BY DEF MarkerFits, StaleRemoved
<1>6. ShownIsRecorded' BY DEF ShownIsRecorded
<1>7. AcksAreDurable' BY DEF AcksAreDurable
<1>8. NothingOlderKept' BY DEF NothingOlderKept, StaleRemoved, SessionFits
<1>9. NeverEchoed' BY DEF NeverEchoed, StaleRemoved, MarkerFits, NothingOlderKept, SessionFits
<1>10. OutboxIsSent' BY DEF OutboxIsSent, StaleRemoved
<1> QED BY <1>1, <1>2, <1>3, <1>4, <1>5, <1>6, <1>7, <1>8, <1>9, <1>10

(* Messages of the hub.                                                    *)
LEMMA TakeLiveClipKeeps ==
  ASSUME IInv, NEW k \in 1..CursorMax, TakeLiveClip(k)
  PROVE  IInv'
<1> USE AgentAssumption
    DEF IInv, TypeOK, NoSession, NoWrite, Connecting, Live, Terminal, States, Parts, stored, core,
        wire, outside, memory, TakeLiveClip, LiveClip, Send, Sendable, RecordLive,
        RecordReceived, Larger, Clip
<1>1. TypeOK' BY DEF TypeOK
<1>2. SessionFits' BY DEF SessionFits
<1>3. PartFits' BY DEF PartFits
<1>4. HistoryFits' BY DEF HistoryFits
<1>5. MarkerFits' BY DEF MarkerFits
<1>6. ShownIsRecorded' BY DEF ShownIsRecorded
<1>7. AcksAreDurable' BY DEF AcksAreDurable
<1>8. NothingOlderKept' BY DEF NothingOlderKept
<1>9. NeverEchoed' BY DEF NeverEchoed
<1>10. OutboxIsSent' BY DEF OutboxIsSent
<1> QED BY <1>1, <1>2, <1>3, <1>4, <1>5, <1>6, <1>7, <1>8, <1>9, <1>10

LEMMA RefuseLiveClipKeeps ==
  ASSUME IInv, NEW k \in 1..CursorMax, RefuseLiveClip(k)
  PROVE  IInv'
<1> USE AgentAssumption
    DEF IInv, TypeOK, NoSession, NoWrite, Connecting, Live, Terminal, States, Parts, stored, core,
        wire, outside, memory, RefuseLiveClip, LiveClip, Sendable, Disconnect, Hangup,
        Larger
<1>1. TypeOK' BY DEF TypeOK
<1>2. SessionFits' BY DEF SessionFits
<1>3. PartFits' BY DEF PartFits
<1>4. HistoryFits' BY DEF HistoryFits
<1>5. MarkerFits' BY DEF MarkerFits
<1>6. ShownIsRecorded' BY DEF ShownIsRecorded
<1>7. AcksAreDurable' BY DEF AcksAreDurable
<1>8. NothingOlderKept' BY DEF NothingOlderKept
<1>9. NeverEchoed' BY DEF NeverEchoed
<1>10. OutboxIsSent' BY DEF OutboxIsSent
<1> QED BY <1>1, <1>2, <1>3, <1>4, <1>5, <1>6, <1>7, <1>8, <1>9, <1>10

LEMMA AnsweredForGoodKeeps ==
  ASSUME IInv, NEW id \in 1..MessageMax, AnsweredForGood(id)
  PROVE  IInv'
<1> USE AgentAssumption
    DEF IInv, TypeOK, NoSession, NoWrite, Connecting, Live, Terminal, States, Parts, stored, core,
        wire, outside, memory, AnsweredForGood, Answers, NextAnswer, LeaveOutboxFull,
        RowsWithout
<1>1. TypeOK'
  <2>1. outbox' \subseteq outbox BY DEF RowsWithout
  <2>2. Fits(outbox') BY <2>1, SubsetFits DEF Fits
  <2> QED BY <2>2 DEF Fits
<1>2. SessionFits' BY DEF SessionFits
<1>3. PartFits' BY DEF PartFits
<1>4. HistoryFits' BY DEF HistoryFits
<1>5. MarkerFits' BY DEF MarkerFits
<1>6. ShownIsRecorded' BY DEF ShownIsRecorded
<1>7. AcksAreDurable' BY DEF AcksAreDurable
<1>8. NothingOlderKept' BY DEF NothingOlderKept
<1>9. NeverEchoed' BY DEF NeverEchoed
<1>10. OutboxIsSent' BY DEF OutboxIsSent
<1> QED BY <1>1, <1>2, <1>3, <1>4, <1>5, <1>6, <1>7, <1>8, <1>9, <1>10

LEMMA RefusedForNowKeeps ==
  ASSUME IInv, NEW id \in 1..MessageMax, RefusedForNow(id)
  PROVE  IInv'
<1> USE AgentAssumption
    DEF IInv, TypeOK, NoSession, NoWrite, Connecting, Live, Terminal, States, Parts, stored, core,
        wire, outside, memory, RefusedForNow, Answers, NextAnswer
<1>1. TypeOK' BY DEF TypeOK
<1>2. SessionFits' BY DEF SessionFits
<1>3. PartFits' BY DEF PartFits
<1>4. HistoryFits' BY DEF HistoryFits
<1>5. MarkerFits' BY DEF MarkerFits
<1>6. ShownIsRecorded' BY DEF ShownIsRecorded
<1>7. AcksAreDurable' BY DEF AcksAreDurable
<1>8. NothingOlderKept' BY DEF NothingOlderKept
<1>9. NeverEchoed' BY DEF NeverEchoed
<1>10. OutboxIsSent' BY DEF OutboxIsSent
<1> QED BY <1>1, <1>2, <1>3, <1>4, <1>5, <1>6, <1>7, <1>8, <1>9, <1>10

LEMMA ClearNoticeKeeps ==
  ASSUME IInv, NEW through \in 0..CursorMax, ClearNotice(through)
  PROVE  IInv'
<1> USE AgentAssumption
    DEF IInv, TypeOK, NoSession, NoWrite, Connecting, Live, Terminal, States, Parts, stored, core,
        wire, outside, memory, ClearNotice, ApplyGenerationChange
<1>1. TypeOK'
  <2>1. outbox' \subseteq outbox OBVIOUS
  <2>2. Fits(outbox') BY <2>1, SubsetFits DEF Fits
  <2>3. history_epoch \in 1..EpochMax /\ session.gen + 1 \in 1..GenerationMax
    BY DEF NothingOlderKept
  <2>4. session' \in [epoch : 1..EpochMax, gen : 1..GenerationMax] BY <2>3
  <2> QED BY <2>2, <2>3, <2>4 DEF Fits
<1>2. SessionFits' BY DEF SessionFits
<1>3. PartFits' BY DEF PartFits
<1>4. HistoryFits' BY DEF HistoryFits, NothingOlderKept
<1>5. MarkerFits' BY DEF MarkerFits, NothingOlderKept, Row
<1>6. ShownIsRecorded' BY DEF ShownIsRecorded, HistoryFits, NothingOlderKept
<1>7. AcksAreDurable' BY DEF AcksAreDurable
<1>8. NothingOlderKept' BY DEF NothingOlderKept
<1>9. NeverEchoed' BY DEF NeverEchoed
<1>10. OutboxIsSent' BY DEF OutboxIsSent
<1> QED BY <1>1, <1>2, <1>3, <1>4, <1>5, <1>6, <1>7, <1>8, <1>9, <1>10

(* The write, and its marker.                                              *)
LEMMA WriteKeeps ==
  ASSUME IInv, Write
  PROVE  IInv'
<1> USE AgentAssumption
    DEF IInv, TypeOK, NoSession, NoWrite, Connecting, Live, Terminal, States, Parts, stored, core,
        wire, outside, memory, Write
<1>1. TypeOK'
  <2>1. session \in [epoch : 1..EpochMax, gen : 1..GenerationMax] BY DEF SessionFits
  <2>2. writing.cursor \in 1..CursorMax BY DEF PartFits
  <2>3. writing' = [cursor |-> writing.cursor, revision |-> clipboard + 1] OBVIOUS
  <2>4. writing' \in [cursor : 0..CursorMax, revision : 0..RevisionMax] BY <2>3
  <2>5. shown' \subseteq [epoch : 1..EpochMax, gen : 1..GenerationMax, cursor : 1..CursorMax]
    BY <2>1, <2>2
  <2>6. wrote' \subseteq [revision : 1..RevisionMax, gen : 1..GenerationMax] BY <2>1
  <2> QED BY <2>4, <2>5, <2>6
<1>2. SessionFits' BY DEF SessionFits
<1>3. PartFits' BY DEF PartFits
<1>4. HistoryFits' BY DEF HistoryFits, SessionFits, NothingOlderKept
<1>5. MarkerFits'
  <2>1. writing' = [cursor |-> writing.cursor, revision |-> clipboard'] OBVIOUS
  <2>2. session.gen = clear_generation BY DEF SessionFits, NothingOlderKept
  <2> QED BY <2>1, <2>2 DEF MarkerFits, Row
<1>6. ShownIsRecorded' BY DEF ShownIsRecorded
<1>7. AcksAreDurable' BY DEF AcksAreDurable
<1>8. NothingOlderKept' BY DEF NothingOlderKept
<1>9. NeverEchoed' BY DEF NeverEchoed, MarkerFits, Row
<1>10. OutboxIsSent' BY DEF OutboxIsSent
<1> QED BY <1>1, <1>2, <1>3, <1>4, <1>5, <1>6, <1>7, <1>8, <1>9, <1>10

LEMMA MarkKeeps ==
  ASSUME IInv, Mark
  PROVE  IInv'
<1> USE AgentAssumption
    DEF IInv, TypeOK, NoSession, NoWrite, Connecting, Live, Terminal, States, Parts, stored, core,
        wire, outside, memory, Mark
<1>1. TypeOK' BY DEF TypeOK
<1>2. SessionFits' BY DEF SessionFits
<1>3. PartFits' BY DEF PartFits
<1>4. HistoryFits' BY DEF HistoryFits
<1>5. MarkerFits' BY DEF MarkerFits
<1>6. ShownIsRecorded' BY DEF ShownIsRecorded
<1>7. AcksAreDurable' BY DEF AcksAreDurable, SessionFits, ShownIsRecorded
<1>8. NothingOlderKept' BY DEF NothingOlderKept
<1>9. NeverEchoed' BY DEF NeverEchoed
<1>10. OutboxIsSent' BY DEF OutboxIsSent
<1> QED BY <1>1, <1>2, <1>3, <1>4, <1>5, <1>6, <1>7, <1>8, <1>9, <1>10

(* What happens around the agent.                                          *)
LEMMA CopyKeeps ==
  ASSUME IInv, Copy
  PROVE  IInv'
<1> USE AgentAssumption
    DEF IInv, TypeOK, NoSession, NoWrite, Connecting, Live, Terminal, States, Parts, stored, core,
        wire, outside, memory, Copy
<1>1. TypeOK' BY DEF TypeOK
<1>2. SessionFits' BY DEF SessionFits
<1>3. PartFits' BY DEF PartFits
<1>4. HistoryFits' BY DEF HistoryFits
<1>5. MarkerFits' BY DEF MarkerFits, Row
<1>6. ShownIsRecorded' BY DEF ShownIsRecorded
<1>7. AcksAreDurable' BY DEF AcksAreDurable
<1>8. NothingOlderKept' BY DEF NothingOlderKept
<1>9. NeverEchoed' BY DEF NeverEchoed
<1>10. OutboxIsSent' BY DEF OutboxIsSent
<1> QED BY <1>1, <1>2, <1>3, <1>4, <1>5, <1>6, <1>7, <1>8, <1>9, <1>10

LEMMA HubClearsKeeps ==
  ASSUME IInv, HubClears
  PROVE  IInv'
<1> USE AgentAssumption
    DEF IInv, TypeOK, NoSession, NoWrite, Connecting, Live, Terminal, States, Parts, stored, core,
        wire, outside, memory, HubClears
<1>1. TypeOK'
  <2>1. hub' = [epoch |-> hub.epoch, gen |-> hub.gen + 1, floor |-> hub.high, high |-> hub.high]
    OBVIOUS
  <2> QED BY <2>1
<1>2. SessionFits' BY DEF SessionFits
<1>3. PartFits' BY DEF PartFits
<1>4. HistoryFits' BY DEF HistoryFits
<1>5. MarkerFits' BY DEF MarkerFits
<1>6. ShownIsRecorded' BY DEF ShownIsRecorded
<1>7. AcksAreDurable' BY DEF AcksAreDurable
<1>8. NothingOlderKept' BY DEF NothingOlderKept
<1>9. NeverEchoed' BY DEF NeverEchoed
<1>10. OutboxIsSent' BY DEF OutboxIsSent
<1> QED BY <1>1, <1>2, <1>3, <1>4, <1>5, <1>6, <1>7, <1>8, <1>9, <1>10

LEMMA HubLosesDatabaseKeeps ==
  ASSUME IInv, HubLosesDatabase
  PROVE  IInv'
<1> USE AgentAssumption
    DEF IInv, TypeOK, SessionFits, PartFits, HistoryFits, MarkerFits, ShownIsRecorded,
        AcksAreDurable, NothingOlderKept, NeverEchoed, OutboxIsSent, NoSession, NoWrite,
        Connecting, Live, Terminal, States, Parts, stored, core, wire, outside, memory
<1> QED BY DEF HubLosesDatabase

LEMMA NextKeepsIInv == IInv /\ [Next]_vars => IInv'
<1> SUFFICES ASSUME IInv, [Next]_vars PROVE IInv'
  OBVIOUS
<1>1. CASE UNCHANGED vars
  BY <1>1 DEF vars, stored, core, wire, outside, memory, IInv, TypeOK, SessionFits, PartFits,
       HistoryFits, MarkerFits, ShownIsRecorded, AcksAreDurable, NothingOlderKept, NeverEchoed,
       OutboxIsSent
<1>2. ASSUME NEW locked \in BOOLEAN, Start(locked) \/ PollLock(locked)
      PROVE  IInv'
  BY <1>2, StartKeeps, PollLockKeeps
<1>3. CASE Pause \/ Resume \/ ClearLocalHistory \/ LocalOnlyNext \/ CommandFails
  BY <1>3, CommandsKeep
<1>4. CASE StaysAsItIs \/ Observe \/ ObserveFails \/ Suppress \/ KeepLocal \/ NothingArrives
           \/ Ack \/ EndTurn
  BY <1>4, LookingKeeps
<1>5. CASE ConnectFails \/ ConnectionLost \/ AdapterFails
  BY <1>5, DisconnectionsKeep
<1>6. CASE StoreFails
  BY <1>6, StoreFailsKeeps
<1>7. CASE Hello
  BY <1>7, HelloKeeps
<1>8. ASSUME NEW k \in 1..CursorMax,
             ReplayClip(k) \/ TakeLiveClip(k) \/ RefuseLiveClip(k)
      PROVE  IInv'
  BY <1>8, ReplayClipKeeps, TakeLiveClipKeeps, RefuseLiveClipKeeps
<1>9. ASSUME NEW k \in 0..CursorMax, ReplayDone(k) \/ ClearNotice(k)
       PROVE  IInv'
  BY <1>9, ReplayDoneKeeps, ClearNoticeKeeps
<1>10. ASSUME NEW old \in SUBSET outbox, TakeObservation(StaleRemoved(old))
       PROVE  IInv'
  BY <1>10, TakeObservationKeeps
<1>11. ASSUME NEW id \in 1..MessageMax, AnsweredForGood(id) \/ RefusedForNow(id)
       PROVE  IInv'
  BY <1>11, AnsweredForGoodKeeps, RefusedForNowKeeps
<1>12. CASE Write \/ Mark
  BY <1>12, WriteKeeps, MarkKeeps
<1>13. CASE Copy \/ HubClears \/ HubLosesDatabase
  BY <1>13, CopyKeeps, HubClearsKeeps, HubLosesDatabaseKeeps
<1> QED
  BY <1>1, <1>2, <1>3, <1>4, <1>5, <1>6, <1>7, <1>8, <1>9, <1>10, <1>11, <1>12, <1>13
     DEF Next

(* The invariant holds of every execution of the loop of an agent,         *)
(* whatever the user, the hub and the store do, and through its restarts.  *)
THEOREM AgentInvariant == Spec => []IInv
BY InitIInv, NextKeepsIInv, PTL DEF Spec

----------------------------------------------------------------------------
(* What follows.                                                           *)

(* Every variable of the loop, the core and the store keeps its type, and  *)
(* the outbox has no more rows than OUTBOX_MAX_EVENTS (store.rs).          *)
THEOREM AgentTypeCorrect == Spec => []TypeOK
<1>1. IInv => TypeOK
  BY DEF IInv
<1> QED BY <1>1, AgentInvariant, PTL

(* A clip that was written to the clipboard is recorded in the store, and  *)
(* so not asked for again, wherever the agent was killed (receive_event,   *)
(* finish_remote_write).                                                   *)
THEOREM ShownAlwaysRecorded == Spec => []ShownIsRecorded
<1>1. IInv => ShownIsRecorded
  BY DEF IInv
<1> QED BY <1>1, AgentInvariant, PTL

(* What the agent may acknowledge is recorded, and the session it would be *)
(* sent on is there (poll_ack).                                            *)
THEOREM AcksAlwaysDurable == Spec => []AcksAreDurable
<1>1. IInv => AcksAreDurable
  BY DEF IInv
<1> QED BY <1>1, AgentInvariant, PTL

(* After a clear of the hub's history that the agent has heard of, by a    *)
(* notice or by a hello, nothing of an older generation is kept            *)
(* (receive_clear_notice, connect).                                        *)
THEOREM ClearsReachTheAgent == Spec => []NothingOlderKept
<1>1. IInv => NothingOlderKept
  BY DEF IInv
<1> QED BY <1>1, AgentInvariant, PTL

(* The agent does not publish what it wrote itself within one generation   *)
(* (commit_observation, finish_remote_write).                              *)
THEOREM NothingEchoed == Spec => []NeverEchoed
<1>1. IInv => NeverEchoed
  BY DEF IInv
<1> QED BY <1>1, AgentInvariant, PTL

(* In a live session no row of the outbox is forgotten: each was sent      *)
(* (establish_live, commit_observation).                                   *)
THEOREM OutboxAlwaysSent == Spec => []OutboxIsSent
<1>1. IInv => OutboxIsSent
  BY DEF IInv
<1> QED BY <1>1, AgentInvariant, PTL

(* The agent never goes back behind a clear, nor to an earlier cursor of   *)
(* the same history and generation (connect, record_received,              *)
(* record_cursor).                                                         *)
THEOREM NeverRolledBack == Spec => NeverRollsBack
<1> DEFINE Forward ==
      /\ clear_generation' >= clear_generation
      /\ history_epoch' = history_epoch /\ clear_generation' = clear_generation
           => last_cursor' >= last_cursor
<1>1. IInv /\ [Next]_vars => [Forward]_vars
  <2> SUFFICES ASSUME IInv, Next PROVE Forward
    OBVIOUS
  <2> USE AgentAssumption
      DEF IInv, TypeOK, stored
  <2>1. CASE Hello
    BY <2>1 DEF Hello, HelloIsNotOlder, AdoptContext, ApplyGenerationChange, ApplyEpochChange,
         EstablishContext
  <2>2. ASSUME NEW k \in 1..CursorMax, ReplayClip(k) \/ TakeLiveClip(k) \/ RefuseLiveClip(k)
        PROVE  Forward
    BY <2>2 DEF ReplayClip, RecordReplay, TakeLiveClip, RefuseLiveClip, RecordLive, RecordReceived,
         RecordCursor
  <2>3. ASSUME NEW through \in 0..CursorMax, ClearNotice(through)
        PROVE  Forward
    BY <2>3 DEF ClearNotice, ApplyGenerationChange, NothingOlderKept
  <2>4. CASE UNCHANGED <<history_epoch, clear_generation, last_cursor>>
    BY <2>4
  <2> QED
    BY <2>1, <2>2, <2>3, <2>4 DEF Next, Start, Pause, Resume, ClearLocalHistory, LocalOnlyNext,
         CommandFails, PollLock, ConnectFails, StaysAsItIs, ReplayDone, Observe, ObserveFails,
         Suppress, KeepLocal, TakeObservation, NothingArrives, AnsweredForGood, RefusedForNow,
         Answers, Write, Mark, Ack, EndTurn, ConnectionLost, StoreFails, AdapterFails, Copy,
         HubClears, HubLosesDatabase
<1> QED
  BY <1>1, AgentInvariant, PTL DEF Spec, NeverRollsBack

=============================================================================
