------------------------------ MODULE HubCore ------------------------------
(***************************************************************************)
(* The hub's core: the durable history of text clips and the queues of     *)
(* events it offers to each connected session                              *)
(* (crates/clipmesh-hub-core/src/lib.rs), driven by one worker thread per  *)
(* session (crates/clipmesh-hub-edge/src/lib.rs, serve_socket).            *)
(*                                                                         *)
(* Every method of the core holds one mutex from its first read to its     *)
(* last write, so a method is one action.  Between two methods another     *)
(* session's worker may run.  A worker finishes draining its queue before  *)
(* it reads the next frame.                                                *)
(*                                                                         *)
(* Cursors start at 1, and no wire message carries the cursor 0, so 0      *)
(* stands for the code's None wherever a cursor is optional.               *)
(*                                                                         *)
(* A request the code refuses without changing any state is a step that    *)
(* changes nothing, and is left out; so is a statement SQLite refuses,     *)
(* whose transaction rolls back.  The edge checks that the hub is ready    *)
(* before it calls a method, but under a lock of its own: a request it has *)
(* let through may come to the core after a terminal failure.              *)
(*                                                                         *)
(* Sessions that carry files have an entry in the core too, but no method  *)
(* of this module is called for them; they are left out.                   *)
(***************************************************************************)
EXTENDS Integers, Sequences, FiniteSets, FiniteSetsExt, Ordered

CONSTANTS
  Sessions,      \* connection slots; a slot that reopens is a new session
  Peers,         \* stable peer identities
  PeerOf,        \* the peer behind each slot
  Drafts,        \* what clients publish: [id, gen, created, body]
  Requests,      \* request ids of shared clears
  HistoryMax,    \* limits.history_max_entries
  Retention,     \* limits.retention_seconds
  FutureSkew,    \* how far in the future created_at_ms may lie
  CursorMax,     \* u64::MAX, for cursors
  GenerationMax, \* u64::MAX, for clear generations
  EpochMax,      \* bound: how many databases the hub is ever started on
  ClockMax       \* bound: the last instant of the clock

MessageIds == {d.id : d \in Drafts}
Bodies     == {d.body : d \in Drafts}

ASSUME HubCoreAssumption ==
  /\ PeerOf \in [Sessions -> Peers]
  /\ \A d \in Drafts : d \in [id : MessageIds, gen : Nat, created : Int, body : Bodies]
  /\ HistoryMax \in Nat \ {0}
  /\ Retention \in Nat \ {0}
  /\ FutureSkew \in Nat
  /\ CursorMax \in Nat
  /\ GenerationMax \in Nat \ {0}
  /\ EpochMax \in Nat \ {0}
  /\ ClockMax \in Nat

VARIABLES
  \* The SQLite database.
  history_epoch,        \* which database this is
  clear_generation,     \* hub_meta.clear_generation
  cursor_high_water,    \* hub_meta.cursor_high_water
  lost_through_cursor,  \* hub_meta.lost_through_cursor
  clips,                \* rows of clips
  tombstones,           \* rows of message_tombstones
  receipts,             \* rows of clear_receipts
  \* The process.
  terminal_failure,     \* State.terminal_failure
  phase,                \* Session.phase, or "closed" when there is no session
  generation,           \* Session.clear_generation
  queue,                \* Session.queue
  buffered,             \* Session.buffered
  highest,              \* Session.highest_offered_cursor
  acknowledged,         \* Session.acknowledged_cursor
  worker,               \* where the session's thread stands; with the edge's
                        \* EdgeSession.awaiting_resume
  \* The environment.
  clock,                \* SystemTime::now()
  \* History variables, read by properties only.
  resumed_after,        \* the cursor after which the session's replay began
  delivered             \* the cursors of the clips written to the socket

meta        == <<history_epoch, clear_generation, cursor_high_water, lost_through_cursor>>
database    == <<meta, clips, tombstones, receipts>>
offers      == <<queue, buffered, highest>>
sessionVars == <<phase, generation, offers, acknowledged, worker, resumed_after, delivered>>
vars        == <<database, terminal_failure, sessionVars, clock>>

----------------------------------------------------------------------------
(* Rows, events and sessions.                                              *)

NoCursor == 0
Cursors  == 1..CursorMax

Clip == [cursor : Cursors, draft : Drafts, peer : Peers, gen : 1..GenerationMax,
         expires : Int]

Tombstone == [id : MessageIds, cursor : Cursors, gen : 1..GenerationMax]

Receipt == [request : Requests, expected : 1..GenerationMax,
            committed : 1..GenerationMax, through : 0..CursorMax]

ResumeStatus == {"Fresh", "Complete", "Gap", "EpochChanged", "GenerationChanged"}

Event ==
       [kind : {"resume_started"}, status : ResumeStatus, gen : 1..GenerationMax,
        after : 0..CursorMax, boundary : 0..CursorMax, lost : 0..CursorMax]
  \cup [kind : {"resume_clip", "live"}, clip : Clip]
  \cup [kind : {"resume_complete"}, gen : 1..GenerationMax, boundary : 0..CursorMax]
  \cup [kind : {"publish_accepted"}, id : MessageIds, cursor : Cursors, duplicate : BOOLEAN]
  \cup [kind : {"clear_accepted"}, request : Requests, gen : 1..GenerationMax,
        through : 0..CursorMax, duplicate : BOOLEAN]
  \cup [kind : {"clear_notice"}, request : Requests, gen : 1..GenerationMax,
        through : 0..CursorMax]

IsClip(e)   == e.kind \in {"resume_clip", "live"}
IsReplay(e) == e.kind \in {"resume_started", "resume_clip", "resume_complete"}

TypeOK ==
  /\ history_epoch \in 1..EpochMax
  /\ clear_generation \in 1..GenerationMax
  /\ cursor_high_water \in 0..CursorMax
  /\ lost_through_cursor \in 0..CursorMax
  /\ clips \subseteq Clip
  /\ tombstones \subseteq Tombstone
  /\ receipts \subseteq Receipt
  /\ terminal_failure \in {"None", "HubCursorExhausted", "ClearGenerationExhausted"}
  /\ phase \in [Sessions -> {"closed", "AwaitResume", "Replaying", "Live", "Stale"}]
  /\ generation \in [Sessions -> 0..GenerationMax]
  /\ queue \in [Sessions -> Seq(Event)]
  /\ buffered \in [Sessions -> Seq(Clip)]
  /\ highest \in [Sessions -> 0..CursorMax]
  /\ acknowledged \in [Sessions -> 0..CursorMax]
  /\ worker \in [Sessions -> {"awaiting_resume", "looping", "completing", "closing"}]
  /\ clock \in 0..ClockMax
  /\ resumed_after \in [Sessions -> 0..CursorMax]
  /\ delivered \in [Sessions -> SUBSET Cursors]

----------------------------------------------------------------------------
(* The database.                                                           *)

Retained(S) == {c \in S : c.expires > clock}

(* The newest HistoryMax clips.                                            *)
Newest(S) ==
  {c \in S : Cardinality({d \in S : d.cursor > c.cursor}) < HistoryMax}

Trim(S) == Newest(Retained(S))

(* Mutant: the newest cursor that went last, not the newest that ever went. *)
LostAfterForgetsEarlier(gone) ==
  IF gone = {} THEN lost_through_cursor ELSE Max({c.cursor : c \in gone})

LostAfter(gone) == Max({lost_through_cursor} \cup {c.cursor : c \in gone})

(* Trims the rows S, and remembers the newest cursor that went.            *)
TrimTransaction(S) ==
  /\ clips' = Trim(S)
  /\ lost_through_cursor' = LostAfter(S \ Trim(S))

ApplyRetention ==
  /\ TrimTransaction(clips)
  /\ UNCHANGED <<history_epoch, clear_generation, cursor_high_water, tombstones, receipts>>

PersistPublish(c) ==
  /\ TrimTransaction(clips \cup {c})
  /\ tombstones' = tombstones \cup {[id |-> c.draft.id, cursor |-> c.cursor, gen |-> c.gen]}
  /\ cursor_high_water' = c.cursor
  /\ UNCHANGED <<history_epoch, clear_generation, receipts>>

----------------------------------------------------------------------------
(* Guards the handlers share.                                              *)

RequireMutationReady == terminal_failure = "None"

RequireLiveSession(s) == phase[s] = "Live" /\ generation[s] = clear_generation

(* The client speaks of the generation there is, not an older or newer one. *)
CompareGeneration(gen) == gen = clear_generation

(* The edge takes nothing but a resume from a session until it has had one. *)
HasResumed(s) == worker[s] = "looping"

(* The worker reads a frame only once it has written every event its own   *)
(* requests queued; others may have queued more since it looked.           *)
Reading(s) ==
  /\ phase[s] # "closed"
  /\ worker[s] \in {"awaiting_resume", "looping"}
  /\ \A i \in DOMAIN queue[s] : queue[s][i].kind \in {"live", "clear_notice"}

----------------------------------------------------------------------------
(* Opening the database, opening and closing sessions.                     *)

AllSessions(value) == [s \in Sessions |-> value]

(* load_meta on a database initialize_schema has just created.             *)
Init ==
  /\ history_epoch = 1
  /\ clear_generation = 1
  /\ cursor_high_water = 0
  /\ lost_through_cursor = NoCursor
  /\ clips = {}
  /\ tombstones = {}
  /\ receipts = {}
  /\ terminal_failure = "None"
  /\ phase = AllSessions("closed")
  /\ generation = AllSessions(0)
  /\ queue = AllSessions(<<>>)
  /\ buffered = AllSessions(<<>>)
  /\ highest = AllSessions(NoCursor)
  /\ acknowledged = AllSessions(NoCursor)
  /\ worker = AllSessions("awaiting_resume")
  /\ resumed_after = AllSessions(NoCursor)
  /\ delivered = AllSessions({})
  /\ clock = 0

(* The process ended, and with it every session and any terminal failure.  *)
Open ==
  /\ terminal_failure' = "None"
  /\ phase' = AllSessions("closed")
  /\ generation' = AllSessions(0)
  /\ queue' = AllSessions(<<>>)
  /\ buffered' = AllSessions(<<>>)
  /\ highest' = AllSessions(NoCursor)
  /\ acknowledged' = AllSessions(NoCursor)
  /\ worker' = AllSessions("awaiting_resume")
  /\ resumed_after' = AllSessions(NoCursor)
  /\ delivered' = AllSessions({})
  /\ UNCHANGED clock

(* Mutant: the cursor counter is recovered from the rows that are left.    *)
RestartFromRows ==
  /\ Open
  /\ cursor_high_water' = Max({0} \cup {c.cursor : c \in clips})
  /\ UNCHANGED <<history_epoch, clear_generation, lost_through_cursor, clips, tombstones,
                 receipts>>

(* It starts again on the database it had.                                 *)
Restart ==
  /\ Open
  /\ UNCHANGED database

(* It starts again on a file that does not exist yet.                      *)
RestartOnFreshDatabase ==
  /\ history_epoch < EpochMax
  /\ history_epoch' = history_epoch + 1
  /\ clear_generation' = 1
  /\ cursor_high_water' = 0
  /\ lost_through_cursor' = NoCursor
  /\ clips' = {}
  /\ tombstones' = {}
  /\ receipts' = {}
  /\ Open

(* Puts slot s into phase p with everything else as a new session has it.  *)
ResetSession(s, p, g) ==
  /\ phase'         = [phase EXCEPT ![s] = p]
  /\ generation'    = [generation EXCEPT ![s] = g]
  /\ queue'         = [queue EXCEPT ![s] = <<>>]
  /\ buffered'      = [buffered EXCEPT ![s] = <<>>]
  /\ highest'       = [highest EXCEPT ![s] = NoCursor]
  /\ acknowledged'  = [acknowledged EXCEPT ![s] = NoCursor]
  /\ worker'        = [worker EXCEPT ![s] = "awaiting_resume"]
  /\ resumed_after' = [resumed_after EXCEPT ![s] = NoCursor]
  /\ delivered'     = [delivered EXCEPT ![s] = {}]
  /\ UNCHANGED <<database, terminal_failure, clock>>

OpenSession(s) ==
  /\ phase[s] = "closed"
  /\ ResetSession(s, "AwaitResume", clear_generation)

(* The socket failed, the client left, a deadline passed, a request was    *)
(* refused in a way that closes, or the worker was told to close.          *)
CloseSession(s) ==
  /\ phase[s] # "closed"
  /\ ResetSession(s, "closed", 0)

----------------------------------------------------------------------------
(* Resume: the replay of what the client missed.                           *)

(* The clips of S as queued events, oldest first.                          *)
Replay(S) ==
  LET K == {c.cursor : c \in S}
  IN  [j \in 1..Cardinality(K) |->
         [kind |-> "resume_clip", clip |-> CHOOSE c \in S : c.cursor = Nth(K, j)]]

NoContext == [epoch |-> 0, gen |-> 0]

(* What a client can say it knows: nothing, or an epoch and a generation.  *)
Contexts == {NoContext} \cup [epoch : 1..EpochMax, gen : 1..GenerationMax]

(* Mutant: off by one, for a client that has all but the lost clip.        *)
BehindByTwo(after) == after # NoCursor /\ after + 1 < lost_through_cursor'

(* The client's cursor lies before a clip that is gone.                    *)
Behind(after) == after # NoCursor /\ after < lost_through_cursor'

(* The precedence of the code's chain of conditions, after retention ran.  *)
StatusOf(known, after) ==
  CASE known # NoContext /\ known.gen # clear_generation -> "GenerationChanged"
    [] known # NoContext /\ known.gen = clear_generation
         /\ known.epoch # history_epoch                  -> "EpochChanged"
    [] known = NoContext                                 -> "Fresh"
    [] known = [epoch |-> history_epoch, gen |-> clear_generation] ->
         IF Behind(after) THEN "Gap" ELSE "Complete"

(* Mutant: the clip the client names is replayed too.                      *)
RowsFromInclusive(after) == {c \in clips' : after <= c.cursor /\ c.cursor <= cursor_high_water}

(* What load_clips reads: the rows after a cursor, up to the boundary.     *)
RowsFrom(after) == {c \in clips' : after < c.cursor /\ c.cursor <= cursor_high_water}

StartReplay(s, status, after) ==
  LET from     == IF status \in {"Gap", "Complete"} THEN after ELSE NoCursor
      boundary == cursor_high_water
      missed   == RowsFrom(from)
  IN  /\ phase' = [phase EXCEPT ![s] = "Replaying"]
      /\ generation' = [generation EXCEPT ![s] = clear_generation]
      /\ highest' = [highest EXCEPT ![s] = Max({from} \cup {c.cursor : c \in missed})]
      /\ queue' = [queue EXCEPT ![s] = @
           \o << [kind |-> "resume_started", status |-> status, gen |-> clear_generation,
                  after |-> after, boundary |-> boundary, lost |-> lost_through_cursor'] >>
           \o Replay(missed)
           \o << [kind |-> "resume_complete", gen |-> clear_generation,
                  boundary |-> boundary] >>]
      /\ resumed_after' = [resumed_after EXCEPT ![s] = from]
      /\ worker' = [worker EXCEPT ![s] = "looping"]
      /\ UNCHANGED <<buffered, acknowledged, delivered>>

(* Retention runs before the cursor is judged, and stays if it is refused. *)
BeginResume(s, known, after) ==
  /\ Reading(s)
  /\ phase[s] = "AwaitResume"
  /\ known = NoContext => after = NoCursor
  /\ ApplyRetention
  /\ IF after > cursor_high_water
       THEN UNCHANGED sessionVars
       ELSE StartReplay(s, StatusOf(known, after), after)
  /\ UNCHANGED <<terminal_failure, clock>>

HighestAfterHandover(s) ==
  IF buffered[s] = <<>> THEN highest[s] ELSE buffered[s][Len(buffered[s])].cursor

(* Mutant: what was handed over stays in the buffer.                       *)
KeptAfterHandover(s) == buffered[s]

BufferedAfterHandover(s) == <<>>

(* The worker wrote resume_complete, let go of the mutex and takes it      *)
(* again.  If a clear came in between, the session only ends.              *)
CompleteResume(s) ==
  /\ worker[s] = "completing"
  /\ IF phase[s] = "Replaying" /\ generation[s] = clear_generation
       THEN /\ queue' = [queue EXCEPT ![s] = @ \o
                 [i \in DOMAIN buffered[s] |-> [kind |-> "live", clip |-> buffered[s][i]]]]
            /\ highest' = [highest EXCEPT ![s] = HighestAfterHandover(s)]
            /\ buffered' = [buffered EXCEPT ![s] = BufferedAfterHandover(s)]
            /\ phase' = [phase EXCEPT ![s] = "Live"]
            /\ worker' = [worker EXCEPT ![s] = "looping"]
       ELSE /\ worker' = [worker EXCEPT ![s] = "closing"]
            /\ UNCHANGED <<phase, offers>>
  /\ UNCHANGED <<database, terminal_failure, generation, acknowledged, clock, resumed_after,
                 delivered>>

(* Mutant: the worker goes on after it has told of a clear.                *)
WorkerAfterIgnoresNotice(e) == IF e.kind = "resume_complete" THEN "completing" ELSE "looping"

WorkerAfter(e) ==
  CASE e.kind = "resume_complete" -> "completing"
    [] e.kind = "clear_notice"    -> "closing"
    [] OTHER                      -> "looping"

(* The lease shows the first event of the queue, and an event leaves the   *)
(* queue only once it was written.                                         *)
HasNextEvent(s) == queue[s] # <<>>
NextEvent(s)    == Head(queue[s])
Complete(s)     == queue' = [queue EXCEPT ![s] = Tail(@)]

(* The worker writes while it holds the lease.                             *)
WriteNextEvent(s) ==
  /\ worker[s] \in {"awaiting_resume", "looping"}
  /\ HasNextEvent(s)
  /\ LET e == NextEvent(s)
     IN  /\ delivered' = [delivered EXCEPT ![s] =
              IF IsClip(e) THEN @ \cup {e.clip.cursor} ELSE @]
         /\ worker' = [worker EXCEPT ![s] = WorkerAfter(e)]
  /\ Complete(s)
  /\ UNCHANGED <<database, terminal_failure, phase, generation, buffered, highest,
                 acknowledged, clock, resumed_after>>

----------------------------------------------------------------------------
(* Publish.                                                                *)

(* Mutant: a session still replaying misses what is published meanwhile.   *)
BuffersNothing(t, c) == FALSE

(* A session of the clip's generation that is replaying keeps the clip for *)
(* later; one that is live is offered it at once.                          *)
Buffers(t, c) == generation[t] = c.gen /\ phase[t] = "Replaying"
Offers(t, c)  == generation[t] = c.gen /\ phase[t] = "Live"

(* The session that published is told first.                               *)
EnqueueClip(s, c, accepted) ==
  /\ queue' = [t \in Sessions |-> queue[t]
       \o (IF t = s THEN <<accepted>> ELSE <<>>)
       \o (IF Offers(t, c) THEN << [kind |-> "live", clip |-> c] >> ELSE <<>>)]
  /\ highest' = [t \in Sessions |-> IF Offers(t, c) THEN c.cursor ELSE highest[t]]
  /\ buffered' = [t \in Sessions |->
       IF Buffers(t, c) THEN Append(buffered[t], c) ELSE buffered[t]]

(* The clip a message id has, if it can still be read.                     *)
ClipByMessageId(id) == {c \in Retained(clips) : c.draft.id = id}

(* What is judged before the payload is looked at, and again when the clip *)
(* is accepted.                                                            *)
PreflightPublish(s, d) ==
  /\ RequireMutationReady
  /\ CompareGeneration(d.gen)
  /\ RequireLiveSession(s)

(* A retry of a publish whose clip is still retained.                      *)
AcceptDuplicate(s, d) ==
  \E c \in ClipByMessageId(d.id) :
    /\ c.draft = d
    /\ c.peer = PeerOf[s]
    /\ c.gen = d.gen
    /\ queue' = [queue EXCEPT ![s] = Append(@,
         [kind |-> "publish_accepted", id |-> d.id, cursor |-> c.cursor, duplicate |-> TRUE])]
    /\ UNCHANGED <<database, terminal_failure, highest, buffered>>

TombstoneExists(id) == \E t \in tombstones : t.id = id

(* The message id was never accepted, and the draft's time is plausible.   *)
Acceptable(d) ==
  /\ ClipByMessageId(d.id) = {}
  /\ ~TombstoneExists(d.id)
  /\ d.created <= clock + FutureSkew
  /\ d.created >= clock - Retention

CursorLeft == cursor_high_water < CursorMax

AcceptNew(s, d) ==
  LET c == [cursor |-> cursor_high_water + 1, draft |-> d, peer |-> PeerOf[s],
            gen |-> clear_generation, expires |-> clock + Retention]
  IN  /\ CursorLeft
      /\ PersistPublish(c)
      /\ EnqueueClip(s, c, [kind |-> "publish_accepted", id |-> d.id, cursor |-> c.cursor,
                            duplicate |-> FALSE])
      /\ UNCHANGED terminal_failure

ExhaustCursor ==
  /\ ~CursorLeft
  /\ terminal_failure' = "HubCursorExhausted"
  /\ UNCHANGED <<database, offers>>

Publish(s, d) ==
  /\ Reading(s)
  /\ HasResumed(s)
  /\ PreflightPublish(s, d)
  /\ \/ AcceptDuplicate(s, d)
     \/ Acceptable(d) /\ AcceptNew(s, d)
     \/ Acceptable(d) /\ ExhaustCursor
  /\ UNCHANGED <<phase, generation, acknowledged, worker, clock, resumed_after, delivered>>

----------------------------------------------------------------------------
(* Acknowledgement, history and retention.                                 *)

Acknowledge(s, cursor) ==
  /\ Reading(s)
  /\ HasResumed(s)
  /\ phase[s] \in {"Replaying", "Live"}
  /\ cursor <= highest[s]
  /\ cursor >= acknowledged[s]
  /\ acknowledged' = [acknowledged EXCEPT ![s] = cursor]
  /\ UNCHANGED <<database, terminal_failure, phase, generation, offers, worker, clock,
                 resumed_after, delivered>>

(* Any request for source metadata: retained_source_peer_ids needs no      *)
(* session and trims before it reads.                                      *)
RetainedSourcePeerIds ==
  /\ ApplyRetention
  /\ UNCHANGED <<terminal_failure, sessionVars, clock>>

----------------------------------------------------------------------------
(* Shared clear.                                                           *)

(* Mutant: only the replay is withdrawn.                                   *)
StaysUnlessReplay(e, gen) ==
  IsReplay(e) => (IF IsClip(e) THEN e.clip.gen ELSE e.gen) >= gen

(* Replays and clips of an older generation go; answers and notices stay.  *)
Stays(e, gen) ==
  IsReplay(e) \/ IsClip(e) => (IF IsClip(e) THEN e.clip.gen ELSE e.gen) >= gen

(* Mutant: a session that has yet to resume is not told.                   *)
IsToldOnceResumed(t) == phase[t] \in {"Replaying", "Live", "Stale"}

IsTold(t) == phase[t] # "closed"

(* Every session is told, and the one that asked is answered before that.  *)
Retract(s, gen, accepted, notice) ==
  /\ queue' = [t \in Sessions |->
       IF IsTold(t)
         THEN Subsequence(queue[t], {i \in DOMAIN queue[t] : Stays(queue[t][i], gen)})
                \o (IF t = s THEN <<accepted>> ELSE <<>>) \o <<notice>>
         ELSE queue[t]]
  /\ buffered' = [t \in Sessions |->
       Subsequence(buffered[t], {i \in DOMAIN buffered[t] : buffered[t][i].gen >= gen})]
  /\ phase' = [t \in Sessions |-> IF IsTold(t) THEN "Stale" ELSE phase[t]]

(* A retry of a clear that was committed, even before a restart, is told   *)
(* what was committed then; its session may have become stale since.       *)
ClearAgain(s, r, expected) ==
  \E x \in receipts :
    /\ x.request = r
    /\ x.expected = expected
    /\ queue' = [queue EXCEPT ![s] = Append(@,
         [kind |-> "clear_accepted", request |-> r, gen |-> x.committed,
          through |-> x.through, duplicate |-> TRUE])]
    /\ UNCHANGED <<database, terminal_failure, phase, buffered>>

CommitClear(s, r, expected) ==
  LET next    == clear_generation + 1
      through == cursor_high_water
  IN  /\ clear_generation < GenerationMax
      /\ clips' = {}
      /\ clear_generation' = next
      /\ lost_through_cursor' = through
      /\ receipts' = receipts \cup
           {[request |-> r, expected |-> expected, committed |-> next, through |-> through]}
      /\ Retract(s, next,
           [kind |-> "clear_accepted", request |-> r, gen |-> next, through |-> through,
            duplicate |-> FALSE],
           [kind |-> "clear_notice", request |-> r, gen |-> next, through |-> through])
      /\ UNCHANGED <<history_epoch, cursor_high_water, tombstones, terminal_failure>>

ExhaustGeneration ==
  /\ clear_generation = GenerationMax
  /\ terminal_failure' = "ClearGenerationExhausted"
  /\ UNCHANGED <<database, phase, queue, buffered>>

(* Mutant: a request is not looked up before it is carried out.            *)
NoReceipt(r) == FALSE

HasReceipt(r) == \E x \in receipts : x.request = r

ClearHistory(s, r, expected) ==
  LET fresh == ~HasReceipt(r) /\ CompareGeneration(expected) /\ RequireLiveSession(s)
  IN  /\ Reading(s)
      /\ HasResumed(s)
      /\ RequireMutationReady
      /\ \/ ClearAgain(s, r, expected)
         \/ fresh /\ CommitClear(s, r, expected)
         \/ fresh /\ ExhaustGeneration
      /\ UNCHANGED <<generation, highest, acknowledged, worker, clock, resumed_after,
                     delivered>>

----------------------------------------------------------------------------
(* The wall clock moves, and may be set back.                              *)
ClockMoves ==
  /\ \E t \in 0..ClockMax : clock' = t
  /\ UNCHANGED <<database, terminal_failure, sessionVars>>

Next ==
  \/ Restart
  \/ RestartOnFreshDatabase
  \/ RetainedSourcePeerIds
  \/ ClockMoves
  \/ \E s \in Sessions :
       \/ OpenSession(s)
       \/ CloseSession(s)
       \/ \E known \in Contexts, after \in 0..CursorMax : BeginResume(s, known, after)
       \/ CompleteResume(s)
       \/ WriteNextEvent(s)
       \/ \E d \in Drafts : Publish(s, d)
       \/ \E cursor \in Cursors : Acknowledge(s, cursor)
       \/ \E r \in Requests, g \in 1..GenerationMax : ClearHistory(s, r, g)

Spec == Init /\ [][Next]_vars

(* A worker thread keeps running while its socket takes what it writes:    *)
(* it drains its queue, completes the resume, and ends when it must.       *)
WorkerFairness(s) ==
  /\ WF_vars(WriteNextEvent(s))
  /\ WF_vars(CompleteResume(s))
  /\ WF_vars(worker[s] = "closing" /\ CloseSession(s))

FairSpec == Spec /\ \A s \in Sessions : WorkerFairness(s)

----------------------------------------------------------------------------
(* Safety.                                                                 *)

RowAt(k) == \E c \in clips : c.cursor = k

(* lost_through_cursor covers every clip that is gone, whatever order the  *)
(* rows left in: expiry follows the clock, which may be set back, and the  *)
(* count limit follows the cursor (trim_transaction, update_lost).         *)
LossIsRemembered ==
  \A k \in 1..cursor_high_water : RowAt(k) \/ k <= lost_through_cursor

(* What resume_started says is true of the replay queued behind it: to a   *)
(* client that names a cursor of this history, "Complete" when no clip     *)
(* after that cursor is missing, and "Gap" when one is (begin_resume).     *)
GapIffMissed ==
  \A s \in Sessions :
    \A i \in DOMAIN queue[s] :
      LET e == queue[s][i]
          replayed == {queue[s][j].clip.cursor :
                         j \in {j \in DOMAIN queue[s] : queue[s][j].kind = "resume_clip"}}
          missed   == (e.after + 1..e.boundary) \ replayed
      IN  e.kind = "resume_started" /\ e.after # NoCursor =>
            /\ e.status = "Complete" => missed = {}
            /\ e.status = "Gap"      => missed # {}

(* The clips session s has yet to write, in the order it will write them.  *)
Pending(s) ==
  [i \in DOMAIN Subsequence(queue[s], {j \in DOMAIN queue[s] : IsClip(queue[s][j])}) |->
     Subsequence(queue[s], {j \in DOMAIN queue[s] : IsClip(queue[s][j])})[i].clip]
  \o buffered[s]

(* What a live session may acknowledge is exactly what it was offered:     *)
(* highest_offered_cursor is the newest clip written or queued             *)
(* (begin_resume, complete_resume, enqueue_clip).                          *)
HighestIsNewestOffered ==
  \A s \in Sessions :
    /\ phase[s] = "Live" =>
         highest[s] = Max({resumed_after[s]} \cup delivered[s]
                          \cup {Pending(s)[i].cursor : i \in DOMAIN Pending(s)})
    /\ acknowledged[s] <= highest[s]

(* A session writes clips in cursor order and none twice, across the end   *)
(* of the replay, where live clips that came meanwhile are handed over     *)
(* (begin_resume, enqueue_clip, complete_resume), and the newest of them   *)
(* is what it may acknowledge.                                             *)
OffersInOrder ==
  /\ HighestIsNewestOffered
  /\ \A s \in Sessions :
       /\ \A i, j \in DOMAIN Pending(s) : i < j => Pending(s)[i].cursor < Pending(s)[j].cursor
       /\ \A i \in DOMAIN Pending(s), k \in delivered[s] \cup {resumed_after[s]} :
            k < Pending(s)[i].cursor

(* A session that resumed has been offered every clip that can still be    *)
(* read after the cursor it resumed from; none falls between the replay's  *)
(* boundary and the first live clip.                                       *)
NothingSkipped ==
  \A s \in Sessions : phase[s] \in {"Replaying", "Live"} =>
    \A c \in clips :
      \/ c.cursor <= resumed_after[s]
      \/ c.cursor \in delivered[s]
      \/ \E i \in DOMAIN Pending(s) : Pending(s)[i] = c

(* After a clear no session is offered anything of an older generation,    *)
(* neither what was queued then nor what a draft of that time would add    *)
(* (clear_history, compare_generation).                                    *)
NoClearedClipOffered ==
  /\ \A c \in clips : c.gen = clear_generation /\ c.draft.gen = clear_generation
  /\ \A s \in Sessions :
       /\ \A i \in DOMAIN Pending(s) : Pending(s)[i].gen = clear_generation
       /\ \A i \in DOMAIN queue[s] :
            IsReplay(queue[s][i]) /\ ~IsClip(queue[s][i]) => queue[s][i].gen = clear_generation

(* The generation counts the clears that were asked for: each committed    *)
(* request advanced it by one, however often it was retried, and a retry   *)
(* is told what was committed (clear_receipts).                            *)
OneGenerationPerClear ==
  /\ \A g \in 2..clear_generation : \E x \in receipts : x.committed = g /\ x.expected = g - 1
  /\ \A x, y \in receipts : x.request = y.request \/ x.committed = y.committed => x = y
  /\ \A x \in receipts : x.committed \in 2..clear_generation
  /\ \A s \in Sessions : \A i \in DOMAIN queue[s] :
       LET e == queue[s][i]
       IN  e.kind \in {"clear_accepted", "clear_notice"} =>
             \E x \in receipts :
               x.request = e.request /\ x.committed = e.gen /\ x.through = e.through

(* A session that a clear left behind is on its way to end: it has the     *)
(* notice before it, or its worker is past the point of no return.  One    *)
(* that was not left behind has the hub's generation (clear_history,       *)
(* write_next_event).                                                      *)
LeftBehindIsTold ==
  \A s \in Sessions :
    CASE phase[s] = "closed" -> TRUE
      [] phase[s] = "Stale"  ->
           \/ worker[s] \in {"completing", "closing"}
           \/ \E i \in DOMAIN queue[s] :
                queue[s][i].kind = "clear_notice" /\ queue[s][i].gen = clear_generation
      [] OTHER -> generation[s] = clear_generation /\ worker[s] # "closing"

----------------------------------------------------------------------------
(* Liveness, while workers run.                                            *)

(* A clear ends every session that was open, also one that was replaying   *)
(* or had yet to resume, so that each client resumes anew.                 *)
LeftBehindEnds == \A s \in Sessions : phase[s] = "Stale" ~> phase[s] = "closed"

(* Whatever a session is offered is written, or its session ends or is     *)
(* cleared: no clip waits in the handover buffer for ever.                 *)
OffersAreWritten ==
  \A s \in Sessions, k \in Cursors :
    (\E i \in DOMAIN Pending(s) : Pending(s)[i].cursor = k)
      ~> (\A i \in DOMAIN Pending(s) : Pending(s)[i].cursor # k)

----------------------------------------------------------------------------
(* Refinement: seen through its tables, the core is one clip log.          *)
Log == INSTANCE ClipLog WITH
  Ids      <- MessageIds,
  Cursors  <- Cursors,
  Eras     <- 1..GenerationMax,
  epoch    <- history_epoch,
  era      <- clear_generation,
  newest   <- cursor_high_water,
  accepted <- {[id |-> t.id, cursor |-> t.cursor] : t \in tombstones},
  readable <- {c.cursor : c \in clips}

(* Every step of the core is a step of the log or leaves it alone.         *)
ImplementsClipLog == Log!Spec
=============================================================================
