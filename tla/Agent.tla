------------------------------- MODULE Agent -------------------------------
(***************************************************************************)
(* A desktop agent: its core and its store                                 *)
(* (crates/clipmesh-agent-core/src/lib.rs, store.rs) as the agent's run    *)
(* loop drives them (crates/clipmesh-agent/src/main.rs, lib.rs).           *)
(*                                                                         *)
(* The agent is one thread.  at is the part of its loop that comes next;   *)
(* between two parts the user copies, the hub clears its history or loses  *)
(* its database, and the agent may be killed.  What it stored survives;    *)
(* the rest starts again.                                                  *)
(*                                                                         *)
(* The hub is what the agent sees of it: a history with an epoch and a     *)
(* clear generation, clips in the order of their cursors, an answer to     *)
(* every publish, and after a clear one notice and then no more.  A clip   *)
(* is its cursor, a text is the clipboard revision it was copied at.       *)
(*                                                                         *)
(* Left out: files, images, the shared clear the user asks for (all that   *)
(* it changes is at the hub), the backoff, and the token of an observation *)
(* (the loop begins and commits an observation without a step between).    *)
(***************************************************************************)
EXTENDS Integers, FiniteSets

CONSTANTS
  OutboxMax,      \* OUTBOX_MAX_EVENTS
  EpochMax,       \* bound: the last history epoch
  GenerationMax,  \* bound: the last clear generation
  CursorMax,      \* bound: the last cursor
  RevisionMax,    \* bound: how often the clipboard changes
  MessageMax      \* bound: how many messages the agent draws

ASSUME AgentAssumption ==
  /\ OutboxMax \in Nat \ {0}
  /\ EpochMax \in Nat \ {0}
  /\ GenerationMax \in Nat \ {0}
  /\ CursorMax \in Nat
  /\ RevisionMax \in Nat
  /\ MessageMax \in Nat

VARIABLES
  (* stored *)
  history_epoch,     \* 0 when there is none; the same for the next two
  clear_generation,
  last_cursor,
  outbox,            \* rows [id, gen, revision]; ids are drawn in order
  history,           \* rows [cursor, gen]
  loop_marker,       \* the revision of the agent's own last write, or 0
  (* in memory *)
  state,             \* AgentState
  session,           \* the hub's epoch and generation, or NoSession
  local_only_next,
  pending_ack,       \* a cursor, or 0
  transport,         \* "none", "open", or "closing" once the hub says no more
  last_revision,     \* the revision the loop last looked at, or 0
  at,                \* the part of the loop that comes next
  writing,           \* the clip between its record and its marker,
                     \* [cursor, revision], or NoWrite
  (* outside *)
  clipboard,         \* its revision, or 0 when there is no text
  hub,               \* [epoch, gen, floor, high]: floor is the newest cursor
                     \* a clear took, high the newest there is
  offered,           \* the newest cursor of the connection
  unanswered,        \* ids published on the connection
  (* what properties remember *)
  drawn,             \* ids drawn
  shown,             \* clips written to the clipboard, [epoch, gen, cursor]
  wrote,             \* revisions the process wrote, [revision, gen]
  refused,           \* ids the hub asked to publish again, on the connection
  hidden             \* whether the clipboard was copied to while locked or paused

stored == <<history_epoch, clear_generation, last_cursor, outbox, history, loop_marker>>
core == <<state, session, local_only_next, pending_ack>>
wire == <<transport, offered, unanswered, refused>>
outside == <<clipboard, hub>>
memory == <<drawn, shown, wrote, hidden>>
vars == <<stored, core, wire, last_revision, at, writing, outside, memory>>

NoSession == [epoch |-> 0, gen |-> 0]
NoWrite   == [cursor |-> 0, revision |-> 0]

Connecting == "ActiveUnlockedConnecting"
Live       == "ActiveUnlockedLive"
Terminal   == {"AdapterFailed", "Stopping"}
States     == Terminal \cup {Connecting, Live, "Locked", "LocallyPaused", "OutboxFull"}

Parts == {"control", "lock", "connect", "resume", "observe", "commit", "drive", "write", "mark",
          "ack", "end", "ended"}

Larger(i, j) == IF i > j THEN i ELSE j

Row  == [id : 1..MessageMax, gen : 1..GenerationMax, revision : 1..RevisionMax]
Clip == [cursor : 1..CursorMax, gen : 1..GenerationMax]

TypeOK ==
  /\ history_epoch \in 0..EpochMax /\ clear_generation \in 0..GenerationMax
  /\ last_cursor \in 0..CursorMax
  /\ outbox \subseteq Row /\ IsFiniteSet(outbox) /\ Cardinality(outbox) <= OutboxMax
  /\ history \subseteq Clip
  /\ loop_marker \in 0..RevisionMax
  /\ state \in States
  /\ session \in {NoSession} \cup [epoch : 1..EpochMax, gen : 1..GenerationMax]
  /\ local_only_next \in BOOLEAN
  /\ pending_ack \in 0..CursorMax
  /\ transport \in {"none", "open", "closing"}
  /\ last_revision \in 0..RevisionMax
  /\ at \in Parts
  /\ writing \in [cursor : 0..CursorMax, revision : 0..RevisionMax]
  /\ clipboard \in 0..RevisionMax
  /\ hub \in [epoch : 1..EpochMax, gen : 1..GenerationMax, floor : 0..CursorMax,
              high : 0..CursorMax]
  /\ offered \in 0..CursorMax
  /\ unanswered \subseteq 1..MessageMax /\ refused \subseteq 1..MessageMax
  /\ drawn \in 0..MessageMax
  /\ shown \subseteq [epoch : 1..EpochMax, gen : 1..GenerationMax, cursor : 1..CursorMax]
  /\ wrote \subseteq [revision : 1..RevisionMax, gen : 1..GenerationMax]
  /\ hidden \in BOOLEAN

----------------------------------------------------------------------------
(* The store.                                                              *)

(* A clear takes what is older than it, and the marker with it.            *)
ApplyGenerationChange(epoch, gen, cursor) ==
  /\ outbox' = {row \in outbox : row.gen >= gen}
  /\ history' = {}
  /\ loop_marker' = 0
  /\ history_epoch' = epoch
  /\ clear_generation' = gen
  /\ last_cursor' = cursor

(* Mutant: another history is taken for a clear.                           *)
ForgetsMarkerToo(epoch, gen) ==
  /\ history' = {}
  /\ history_epoch' = epoch
  /\ clear_generation' = gen
  /\ last_cursor' = 0
  /\ loop_marker' = 0
  /\ UNCHANGED outbox

(* Another history of the same generation: what waits in the outbox will   *)
(* go there, and the clipboard still holds what the agent wrote.           *)
ApplyEpochChange(epoch, gen) ==
  /\ history' = {}
  /\ history_epoch' = epoch
  /\ clear_generation' = gen
  /\ last_cursor' = 0
  /\ UNCHANGED <<outbox, loop_marker>>

EstablishContext(epoch, gen) ==
  /\ history_epoch' = epoch
  /\ clear_generation' = gen
  /\ UNCHANGED <<last_cursor, outbox, history, loop_marker>>

RecordReceived(k) ==
  /\ last_cursor' = k
  /\ history' = history \cup {[cursor |-> k, gen |-> session.gen]}
  /\ UNCHANGED <<history_epoch, clear_generation, outbox, loop_marker>>

RecordCursor(k) ==
  /\ last_cursor' = k
  /\ UNCHANGED <<history_epoch, clear_generation, outbox, history, loop_marker>>

(* Rows of another generation, and rows that are too old: the clocks that  *)
(* tell may have been set in between, so any may be.                       *)
StaleRemoved(old) == {row \in outbox \ old : row.gen = session.gen}

----------------------------------------------------------------------------
(* The process.                                                            *)

Hangup ==
  /\ transport' = "none" /\ offered' = 0
  /\ unanswered' = {} /\ refused' = {}

(* AgentCore::open, and the loop's first look at the lock.                 *)
Start(locked) ==
  /\ loop_marker' = 0
  /\ state' = IF locked THEN "Locked" ELSE Connecting
  /\ session' = NoSession /\ local_only_next' = FALSE /\ pending_ack' = 0
  /\ Hangup
  /\ last_revision' = 0 /\ writing' = NoWrite /\ at' = "control"
  /\ wrote' = {}
  /\ UNCHANGED <<history_epoch, clear_generation, last_cursor, outbox, history, outside, drawn,
                 shown, hidden>>

Init ==
  /\ history_epoch = 0 /\ clear_generation = 0 /\ last_cursor = 0
  /\ outbox = {} /\ history = {} /\ loop_marker = 0
  /\ clipboard = 0
  /\ hub = [epoch |-> 1, gen |-> 1, floor |-> 0, high |-> 0]
  /\ state \in {"Locked", Connecting}
  /\ session = NoSession /\ local_only_next = FALSE /\ pending_ack = 0
  /\ transport = "none" /\ offered = 0
  /\ unanswered = {} /\ refused = {}
  /\ last_revision = 0 /\ writing = NoWrite /\ at = "control"
  /\ drawn = 0 /\ shown = {} /\ wrote = {} /\ hidden = FALSE

(* Mutant: what was to be acknowledged is kept for the next connection.    *)
DisconnectKeepsAck ==
  /\ session' = NoSession
  /\ state' = IF state \in {Live, "OutboxFull"} THEN Connecting ELSE state
  /\ Hangup
  /\ UNCHANGED <<local_only_next, pending_ack>>

(* The connection ends and the core is told.                               *)
Disconnect ==
  /\ session' = NoSession /\ pending_ack' = 0
  /\ state' = IF state \in {Live, "OutboxFull"} THEN Connecting ELSE state
  /\ Hangup
  /\ UNCHANGED local_only_next

(* The core stops: a store that fails is not tried again, an adapter that  *)
(* fails ends the process.  Either fails the call the loop has made, which *)
(* drops the connection.                                                   *)
Stop(failure) ==
  /\ session' = NoSession /\ pending_ack' = 0
  /\ state' = failure
  /\ Hangup
  /\ UNCHANGED local_only_next

(* Room again: the outbox is counted in rows and in bytes, and only one    *)
(* that is empty has room for certain.                                     *)
LeaveOutboxFull(left) ==
  IF state = "OutboxFull" /\ Cardinality(left) < OutboxMax
    THEN {Live} \cup (IF left = {} THEN {} ELSE {"OutboxFull"})
    ELSE {state}

----------------------------------------------------------------------------
(* The owner's commands, one in each turn of the loop, and the lock.       *)

Command == at = "control" /\ state \notin Terminal /\ at' = "lock"

Pause ==
  /\ Command
  /\ session' = NoSession /\ pending_ack' = 0 /\ state' = "LocallyPaused"
  /\ UNCHANGED <<stored, local_only_next, wire, last_revision, writing, outside, memory>>

Resume ==
  /\ Command
  /\ state' = IF state = "LocallyPaused" THEN Connecting ELSE state
  /\ UNCHANGED <<stored, session, local_only_next, pending_ack, wire, last_revision, writing,
                 outside, memory>>

ClearLocalHistory ==
  /\ Command
  /\ history' = {}
  /\ UNCHANGED <<history_epoch, clear_generation, last_cursor, outbox, loop_marker, core, wire,
                 last_revision, writing, outside, memory>>

LocalOnlyNext ==
  /\ Command
  /\ local_only_next' = TRUE
  /\ UNCHANGED <<stored, state, session, pending_ack, wire, last_revision, writing, outside,
                 memory>>

(* A stopped core refuses a command, or the store fails to answer it: the  *)
(* process ends.                                                           *)
CommandFails ==
  /\ at = "control"
  /\ at' = "ended"
  /\ UNCHANGED <<stored, core, wire, last_revision, writing, outside, memory>>

(* While the desktop is locked, or the agent paused, there is no           *)
(* connection.  It may be locked and unlocked at any time; only what a     *)
(* poll finds counts.                                                      *)
PollLock(locked) ==
  LET locks == locked /\ state \notin Terminal
  IN  /\ at \in {"control", "lock"}
      /\ state' = IF locks THEN "Locked" ELSE IF state = "Locked" THEN Connecting ELSE state
      /\ session' = IF locks THEN NoSession ELSE session
      /\ pending_ack' = IF locks THEN 0 ELSE pending_ack
      /\ IF locked \/ state = "LocallyPaused"
           THEN Hangup /\ at' = "control"
           ELSE UNCHANGED wire /\ at' = "connect"
      /\ UNCHANGED <<stored, local_only_next, last_revision, writing, outside, memory>>

----------------------------------------------------------------------------
(* Connecting and catching up (establish_live).                            *)

Connects == at = "connect" /\ state = Connecting /\ transport = "none"

(* No connection, no hello, or one of an older generation than is stored.  *)
ConnectFails ==
  /\ Connects
  /\ Disconnect /\ at' = "control"
  /\ UNCHANGED <<stored, last_revision, writing, outside, memory>>

StaysAsItIs ==
  /\ at = "connect" /\ ~Connects
  /\ at' = IF transport = "none" THEN "end" ELSE "observe"
  /\ UNCHANGED <<stored, core, wire, last_revision, writing, outside, memory>>

(* Mutant: a newer generation is stored like any other.                    *)
AdoptsWithoutClearing(epoch, gen) ==
  IF history_epoch \notin {0, epoch} THEN ApplyEpochChange(epoch, gen)
                                     ELSE EstablishContext(epoch, gen)

(* What a hello of this epoch and generation makes of the store.           *)
AdoptContext(epoch, gen) ==
  CASE clear_generation # 0 /\ clear_generation < gen -> ApplyGenerationChange(epoch, gen, 0)
    [] clear_generation # 0 /\ clear_generation = gen /\ history_epoch # epoch
         -> ApplyEpochChange(epoch, gen)
    [] OTHER -> EstablishContext(epoch, gen)

(* Mutant: any generation will do.                                         *)
TakesAnyHello == TRUE

HelloIsNotOlder == hub.gen >= clear_generation

(* The hub says hello and is asked for what came after the last cursor.    *)
Hello ==
  /\ Connects
  /\ HelloIsNotOlder
  /\ AdoptContext(hub.epoch, hub.gen)
  /\ session' = [epoch |-> hub.epoch, gen |-> hub.gen]
  /\ transport' = "open"
  /\ offered' = Larger(hub.floor, last_cursor')
  /\ at' = "resume"
  /\ UNCHANGED <<state, local_only_next, pending_ack, unanswered, refused, last_revision, writing,
                 outside, memory>>

(* The hub sends clip k.  After a clear it sends no more of what the clear *)
(* took, but some may be on its way.                                       *)
Sendable(k) ==
  /\ transport = "open"
  /\ k > offered
  /\ session.gen < hub.gen => k <= hub.floor

Send(k) ==
  /\ Sendable(k)
  /\ offered' = k
  /\ hub' = [hub EXCEPT !.high = Larger(@, k)]
  /\ UNCHANGED <<transport, unanswered, refused>>

(* A clip of the replay is recorded and not shown; of one that has expired *)
(* only the cursor is.                                                     *)
RecordReplay(k) ==
  /\ k > last_cursor
  /\ RecordReceived(k) \/ RecordCursor(k)
  /\ pending_ack' = k

(* The hub replays what it retains: any clip may be gone.                  *)
ReplayClip(k) ==
  /\ at = "resume"
  /\ Send(k)
  /\ RecordReplay(k)
  /\ UNCHANGED <<state, session, local_only_next, last_revision, at, writing, clipboard,
                 memory>>

(* Mutant: what was sent before is not sent again.                         *)
NothingSentAgain == {}

SentAgain == {row.id : row \in outbox}

(* The replay ends at the newest cursor of the hub, which others may have  *)
(* raised.  What waits in the outbox is sent, or sent again.               *)
ReplayDone(boundary) ==
  /\ at = "resume" /\ transport = "open"
  /\ session = [epoch |-> hub.epoch, gen |-> hub.gen]
  /\ boundary >= Larger(offered, hub.high)
  /\ offered' = boundary
  /\ hub' = [hub EXCEPT !.high = boundary]
  /\ state' = Live
  /\ pending_ack' = 0
  /\ unanswered' = SentAgain
  /\ at' = "observe"
  /\ UNCHANGED <<stored, session, local_only_next, transport, refused, last_revision, writing,
                 clipboard, memory>>

----------------------------------------------------------------------------
(* The user's copies.                                                      *)

Observe ==
  /\ at = "observe"
  /\ IF clipboard # 0 /\ clipboard # last_revision
       THEN last_revision' = clipboard /\ at' = "commit"
       ELSE UNCHANGED last_revision /\ at' = "drive"
  /\ UNCHANGED <<stored, core, wire, writing, outside, memory>>

(* The clipboard cannot be read: the process ends.                         *)
ObserveFails ==
  /\ at = "observe"
  /\ at' = "ended"
  /\ UNCHANGED <<stored, core, wire, last_revision, writing, outside, memory>>

Current == at = "commit" /\ state = Live /\ clipboard = last_revision

(* The core is not live, the text is not current, it is the agent's own,   *)
(* it may not be shared, or it cannot be.                                  *)
Suppress ==
  /\ at = "commit"
  /\ at' = "drive"
  /\ UNCHANGED <<stored, core, wire, last_revision, writing, outside, memory>>

KeepLocal ==
  /\ Current /\ local_only_next
  /\ local_only_next' = FALSE
  /\ at' = "drive"
  /\ UNCHANGED <<stored, state, session, pending_ack, wire, last_revision, writing, outside,
                 memory>>

HasRoom(rows) == Cardinality(rows) < OutboxMax

Publishable == Current /\ ~local_only_next /\ clipboard # loop_marker

(* What is left of the outbox may be full in rows or in bytes.             *)
TakeObservation(kept) ==
  /\ Publishable
  /\ loop_marker' = 0
  /\ \/ /\ ~HasRoom(kept) \/ kept # {}
        /\ state' = "OutboxFull" /\ outbox' = kept
        /\ UNCHANGED <<drawn, unanswered>>
     \/ /\ HasRoom(kept) /\ drawn < MessageMax
        /\ drawn' = drawn + 1
        /\ outbox' = kept \cup {[id |-> drawn', gen |-> session.gen, revision |-> clipboard]}
        /\ unanswered' = unanswered \cup {drawn'}
        /\ UNCHANGED state
  /\ at' = "drive"
  /\ UNCHANGED <<history_epoch, clear_generation, last_cursor, history, session, local_only_next,
                 pending_ack, transport, offered, refused, last_revision, writing, outside, shown,
                 wrote, hidden>>

----------------------------------------------------------------------------
(* One message of the hub (drive_server_once).                             *)

NothingArrives ==
  /\ at = "drive"
  /\ at' = "ack"
  /\ UNCHANGED <<stored, core, wire, last_revision, writing, outside, memory>>

(* The clip that a live session is offered after the last one.             *)
LiveClip(k) ==
  /\ at = "drive" /\ session # NoSession /\ state \in {Live, "OutboxFull"}
  /\ k = offered + 1 /\ Sendable(k)

(* Mutant: the write comes before the record.                              *)
RecordsLater(k) == UNCHANGED stored

RecordLive(k) == RecordReceived(k)

(* It is recorded first.  Then, if another peer sent it and the outbox is  *)
(* not full, it is written to the clipboard.                               *)
TakeLiveClip(k) ==
  /\ LiveClip(k) /\ Send(k)
  /\ last_cursor \in {0, k - 1}
  /\ RecordLive(k)
  /\ \/ /\ state = Live
        /\ writing' = [cursor |-> k, revision |-> 0] /\ at' = "write"
        /\ UNCHANGED pending_ack
     \/ /\ pending_ack' = k /\ at' = "ack"
        /\ UNCHANGED writing
  /\ UNCHANGED <<state, session, local_only_next, last_revision, clipboard, memory>>

(* It does not follow the last one recorded: the connection is dropped.    *)
RefuseLiveClip(k) ==
  /\ LiveClip(k)
  /\ last_cursor \notin {0, k - 1}
  /\ hub' = [hub EXCEPT !.high = Larger(@, k)]
  /\ Disconnect /\ at' = "end"
  /\ UNCHANGED <<stored, last_revision, writing, clipboard, memory>>

(* Answers come in the order of the requests.                              *)
NextAnswer(id) ==
  /\ at = "drive" /\ transport = "open"
  /\ id \in unanswered /\ \A i \in unanswered : id <= i

RowsWithout(id) == {row \in outbox : row.id # id}

Answers(id) ==
  /\ NextAnswer(id)
  /\ unanswered' = unanswered \ {id}
  /\ at' = "ack"
  /\ UNCHANGED <<history_epoch, clear_generation, last_cursor, history, loop_marker, session,
                 local_only_next, pending_ack, transport, offered, last_revision, writing,
                 outside, memory>>

(* Accepted, or rejected for good.                                         *)
AnsweredForGood(id) ==
  /\ Answers(id)
  /\ outbox' = RowsWithout(id)
  /\ state' \in LeaveOutboxFull(outbox')
  /\ UNCHANGED refused

(* Rejected for now; the row is sent again at the next connection.         *)
RefusedForNow(id) ==
  /\ Answers(id)
  /\ refused' = refused \cup {id}
  /\ UNCHANGED <<outbox, state>>

(* A session that was open when the history was cleared is told once, and  *)
(* then the hub closes the connection.                                     *)
ClearNotice(through) ==
  /\ at = "drive" /\ transport = "open" /\ session # NoSession
  /\ session.epoch = hub.epoch /\ session.gen < hub.gen
  /\ through \in offered..hub.floor
  /\ ApplyGenerationChange(history_epoch, session.gen + 1, through)
  /\ session' = [epoch |-> history_epoch, gen |-> session.gen + 1]
  /\ pending_ack' = 0
  /\ transport' = "closing"
  /\ at' = "ack"
  /\ UNCHANGED <<state, local_only_next, offered, unanswered, refused, last_revision, writing,
                 outside, memory>>

(* The clipboard takes the text.                                           *)
Write ==
  /\ at = "write" /\ clipboard < RevisionMax
  /\ clipboard' = clipboard + 1
  /\ writing' = [writing EXCEPT !.revision = clipboard']
  /\ shown' = shown \cup
       {[epoch |-> session.epoch, gen |-> session.gen, cursor |-> writing.cursor]}
  /\ wrote' = wrote \cup {[revision |-> clipboard', gen |-> session.gen]}
  /\ hidden' = FALSE
  /\ at' = "mark"
  /\ UNCHANGED <<stored, core, wire, last_revision, hub, drawn>>

Mark ==
  /\ at = "mark"
  /\ loop_marker' = writing.revision
  /\ pending_ack' = writing.cursor
  /\ writing' = NoWrite /\ at' = "ack"
  /\ UNCHANGED <<history_epoch, clear_generation, last_cursor, outbox, history, state, session,
                 local_only_next, wire, last_revision, outside, memory>>

(* poll_ack: at most one in a second, and always the newest.               *)
Ack ==
  /\ at = "ack"
  /\ pending_ack' \in {pending_ack, 0}
  /\ at' = "end"
  /\ UNCHANGED <<stored, state, session, local_only_next, wire, last_revision, writing, outside,
                 memory>>

EndTurn ==
  /\ at = "end"
  /\ at' = IF state = "AdapterFailed" THEN "ended" ELSE "control"
  /\ UNCHANGED <<stored, core, wire, last_revision, writing, outside, memory>>

----------------------------------------------------------------------------
(* Failures.                                                               *)

(* Silence, a message out of turn, a clip that has expired by the agent's  *)
(* clock, a hub that hung up: the next turn connects again.                *)
ConnectionLost ==
  /\ at \in {"resume", "drive", "ack"}
  /\ Disconnect
  /\ at' = IF at = "resume" THEN "control" ELSE "end"
  /\ UNCHANGED <<stored, last_revision, writing, outside, memory>>

(* A call may have stored some of what it stores when it fails.            *)
StoreFails ==
  /\ at \in {"resume", "drive", "mark"} \/ Connects \/ Current
  /\ \/ UNCHANGED <<outbox, loop_marker>>
     \/ /\ Publishable /\ loop_marker' = 0
        /\ \E old \in SUBSET outbox : outbox' \in {outbox, StaleRemoved(old)}
     \/ /\ \E id \in 1..MessageMax : NextAnswer(id) /\ outbox' = RowsWithout(id)
        /\ UNCHANGED loop_marker
  /\ Stop("Stopping")
  /\ writing' = NoWrite
  /\ at' = IF at \in {"drive", "mark"} THEN "end" ELSE "control"
  /\ UNCHANGED <<history_epoch, clear_generation, last_cursor, history, last_revision, outside,
                 memory>>

AdapterFails ==
  /\ Current \/ at = "write"
  /\ Stop("AdapterFailed")
  /\ writing' = NoWrite
  /\ at' = IF at = "write" THEN "end" ELSE "control"
  /\ UNCHANGED <<stored, last_revision, outside, memory>>

----------------------------------------------------------------------------
(* The desktop and the hub.                                                *)

Copy ==
  /\ clipboard < RevisionMax
  /\ clipboard' = clipboard + 1
  /\ hidden' = (state \in {"Locked", "LocallyPaused"})
  /\ UNCHANGED <<stored, core, wire, last_revision, at, writing, hub, drawn, shown, wrote>>

HubClears ==
  /\ hub.gen < GenerationMax
  /\ hub' = [hub EXCEPT !.gen = @ + 1, !.floor = hub.high]
  /\ UNCHANGED <<stored, core, wire, last_revision, at, writing, clipboard, memory>>

HubLosesDatabase ==
  /\ hub.epoch < EpochMax
  /\ hub' = [epoch |-> hub.epoch + 1, gen |-> 1, floor |-> 0, high |-> 0]
  /\ transport' = IF transport = "open" THEN "closing" ELSE transport
  /\ UNCHANGED <<stored, core, offered, unanswered, refused, last_revision, at, writing, clipboard, memory>>

Next ==
  \/ Pause \/ Resume \/ ClearLocalHistory \/ LocalOnlyNext \/ CommandFails
  \/ \E locked \in BOOLEAN : Start(locked) \/ PollLock(locked)
  \/ ConnectFails \/ StaysAsItIs \/ Hello
  \/ \E k \in 1..CursorMax : ReplayClip(k)
  \/ \E boundary \in 0..CursorMax : ReplayDone(boundary)
  \/ Observe \/ ObserveFails \/ Suppress \/ KeepLocal
  \/ \E old \in SUBSET outbox : TakeObservation(StaleRemoved(old))
  \/ NothingArrives
  \/ \E k \in 1..CursorMax : TakeLiveClip(k) \/ RefuseLiveClip(k)
  \/ \E id \in 1..MessageMax : AnsweredForGood(id) \/ RefusedForNow(id)
  \/ \E through \in 0..CursorMax : ClearNotice(through)
  \/ Write \/ Mark \/ Ack \/ EndTurn
  \/ ConnectionLost \/ StoreFails \/ AdapterFails
  \/ Copy \/ HubClears \/ HubLosesDatabase

Spec == Init /\ [][Next]_vars

----------------------------------------------------------------------------
(* Properties.                                                             *)

(* Whatever is lost between the record, the write and the acknowledgement  *)
(* of a clip, a clip that was written to the clipboard is recorded, so     *)
(* that the hub is not asked for it again (receive_event).                 *)
ShownIsRecorded ==
  /\ at \in {"write", "mark"} => writing.cursor = last_cursor
  /\ \A clip \in shown :
       clip.epoch = history_epoch /\ clip.gen = clear_generation => clip.cursor <= last_cursor

(* An acknowledgement that may be sent is of a clip that is recorded, and  *)
(* in the history of the session it is sent on.                            *)
AcksAreDurable ==
  pending_ack # 0 =>
    /\ session # NoSession
    /\ pending_ack <= last_cursor
    /\ at \notin {"write", "mark"} => pending_ack = last_cursor

(* Whatever clears came while the agent was away, nothing of an older      *)
(* generation is kept, and a session is in the generation of the store.    *)
NothingOlderKept ==
  /\ \A row \in outbox : row.gen = clear_generation
  /\ \A clip \in history : clip.gen = clear_generation
  /\ session # NoSession => session = [epoch |-> history_epoch, gen |-> clear_generation]

(* What the process wrote to the clipboard is not published as a copy of   *)
(* the user, also after another connection or another history; a clear     *)
(* forgets the marker, so only a later generation may meet it again.       *)
NeverEchoed ==
  \A row \in outbox, w \in wrote : row.revision = w.revision => row.gen > w.gen

(* While the agent is live, every row of the outbox was sent on this       *)
(* connection and awaits its answer, or was refused for now.               *)
OutboxIsSent ==
  state \in {Live, "OutboxFull"} => \A row \in outbox : row.id \in unanswered \cup refused

(* The agent never goes back to a generation before a clear it knows of,   *)
(* nor, within a history, to an earlier cursor of the same generation.     *)
NeverRollsBack ==
  [][/\ clear_generation' >= clear_generation
     /\ history_epoch' = history_epoch /\ clear_generation' = clear_generation
          => last_cursor' >= last_cursor]_vars

(* docs/initial-spirit.md: "After catch-up, a new live clip from another   *)
(* peer directly overwrites an eligible desktop system clipboard."  It     *)
(* does not when the clips before it were gone at catch-up: the agent then *)
(* takes it for out of order, and drops the connection.                    *)
LiveClipsAreTaken == [][\A k \in 1..CursorMax : ~(state = Live /\ RefuseLiveClip(k))]_vars

(* The name of a test of the core says that observations are never made up *)
(* for after a lock or a pause: lock_pause_and_disconnection_never_        *)
(* backfill_observations.  The run loop then observes what was copied.     *)
NeverBackfilled ==
  [][hidden => \A row \in outbox' : row \in outbox \/ row.revision # clipboard]_vars

=============================================================================
