--------------------------- MODULE LinuxClipboard ---------------------------
(***************************************************************************)
(* The clipboard of a Wayland desktop (WaylandClipboard and                *)
(* platform_wayland, crates/clipmesh-agent-linux/src/lib.rs): a thread     *)
(* that hears of selections, one thread for each that reads it from its    *)
(* owner, and the agent's main thread, which looks at the state they share *)
(* and writes selections itself.                                           *)
(*                                                                         *)
(* The compositor tells of all selections in order, so the n-th it tells   *)
(* of has generation n, and the n-th that was made.  Each action is what    *)
(* happens between two waits on the condition.  Most hold the mutex all    *)
(* the while; an observation of files takes it up to three times, and      *)
(* stands for the one of these looks whose find it tells of.  An error     *)
(* ends the agent's process.                                               *)
(***************************************************************************)
EXTENDS Integers, Sequences

CONSTANTS
  UserSelections,  \* what the user copies: [write, kind, content, marked]
  Contents,        \* what the agent writes
  SelectionMax,    \* bound: selections
  QueueMax         \* of the channel of observations

ASSUME LinuxClipboardAssumption ==
  /\ \A s \in UserSelections :
       /\ s.kind \in {"text", "files", "image", "other", "none"}
       /\ s.write = 0
  /\ SelectionMax \in Nat /\ QueueMax \in Nat

VARIABLES
  selections,            \* of the compositor
  generation,            \* of WatchState, as are the next six
  snapshot,              \* [is, revision]; is: "pending", "empty", "ready", "unavailable"
  pending_write_marker,  \* the number of a write, or 0
  current_matches_pending_write,
  write_nonce,
  failed,
  reading,               \* generations that a thread reads from their owners
  sending,               \* those whose threads then hand them to the channel
  observations,          \* how many the channel holds: the agent takes none out
  captured_image,        \* the generation of the staged image, or 0
  call,                  \* of the main thread: [name, before, files, content]
  answer, told           \* what the calls returned, read by properties only

watchState == <<generation, snapshot, pending_write_marker, current_matches_pending_write,
                write_nonce, failed>>
readers == <<reading, sending, observations>>
answers == <<answer, told>>
linuxVars == <<selections, watchState, readers, captured_image, call, answers>>

Call(name) == [name |-> name, before |-> 0, files |-> FALSE, content |-> 0]

LinuxInit ==
  /\ selections = <<>>
  /\ generation = 0
  /\ snapshot = [is |-> "empty", revision |-> 0]
  /\ pending_write_marker = 0 /\ current_matches_pending_write = FALSE
  /\ write_nonce = 0 /\ failed = FALSE
  /\ reading = {} /\ sending = {} /\ observations = 0
  /\ captured_image = 0
  /\ call = Call("idle")
  /\ answer = <<>> /\ told = 0

Runs == call.name # "exited"

----------------------------------------------------------------------------
(* The thread of events.                                                   *)

Current == selections[generation]

IsFile == generation > 0 /\ Current.kind = "files"

IsImage == generation > 0 /\ Current.kind = "image"

Readable(s) == s.kind \in {"text", "files", "image"}

(* Mutant: an offer of nothing known, or none, is never said to be empty.  *)
PendingAtFirst(s) == "pending"

AtFirst(s) == IF Readable(s) THEN "pending" ELSE "empty"

(* selection_changed: an offer of nothing known is empty, and so is none.  *)
SelectionChanged ==
  /\ Runs /\ ~failed
  /\ generation < Len(selections)
  /\ generation' = generation + 1
  /\ LET s == selections[generation + 1]
     IN  /\ snapshot' = [is |-> AtFirst(s), revision |-> 0]
         /\ reading' = IF Readable(s) THEN reading \cup {generation + 1} ELSE reading
         /\ current_matches_pending_write' =
              (pending_write_marker # 0 /\ s.write = pending_write_marker)
  /\ UNCHANGED <<selections, pending_write_marker, write_nonce, failed, sending, observations,
                 captured_image, call, answers>>

(* The compositor is gone, or the device is finished.                      *)
Fail ==
  /\ Runs /\ ~failed
  /\ failed' = TRUE
  /\ snapshot' = [is |-> "unavailable", revision |-> 0]
  /\ UNCHANGED <<selections, generation, pending_write_marker, current_matches_pending_write,
                 write_nonce, readers, captured_image, call, answers>>

----------------------------------------------------------------------------
(* The threads that read.                                                  *)

IsLatest(g) == ~failed /\ generation = g

PublishReady(g) ==
  snapshot' = IF IsLatest(g) THEN [is |-> "ready", revision |-> g] ELSE snapshot

(* Text that was published goes to the channel as well.                    *)
ReadAll(g) ==
  /\ Runs
  /\ g \in reading
  /\ reading' = reading \ {g}
  /\ PublishReady(g)
  /\ sending' = IF IsLatest(g) /\ selections[g].kind = "text" THEN sending \cup {g} ELSE sending
  /\ UNCHANGED <<selections, generation, pending_write_marker, current_matches_pending_write,
                 write_nonce, failed, observations, captured_image, call, answers>>

(* No pipe, too many bytes, an error, or types that contradict each other. *)
ReadFails(g) ==
  /\ Runs
  /\ g \in reading
  /\ reading' = reading \ {g}
  /\ snapshot' = IF IsLatest(g) THEN [is |-> "unavailable", revision |-> 0] ELSE snapshot
  /\ UNCHANGED <<selections, generation, pending_write_marker, current_matches_pending_write,
                 write_nonce, failed, sending, observations, captured_image, call, answers>>

(* A full channel holds the thread for good.                               *)
Send(g) ==
  /\ Runs
  /\ g \in sending
  /\ observations < QueueMax
  /\ observations' = observations + 1
  /\ sending' = sending \ {g}
  /\ UNCHANGED <<selections, watchState, reading, captured_image, call, answers>>

----------------------------------------------------------------------------
(* The main thread.                                                        *)

Tell(name, revision) ==
  /\ answer' = [call |-> name, revision |-> revision, selection |-> selections[revision]]
  /\ told' = revision

Returns == call' = Call("idle")

Exits == call' = Call("exited")

CallObserve ==
  /\ call.name = "idle"
  /\ call' = Call("observe_text")
  /\ UNCHANGED <<selections, watchState, readers, captured_image, answers>>

(* observe_text waits as long as the selection is being read.              *)
ObserveText ==
  /\ call.name = "observe_text"
  /\ failed \/ snapshot.is # "pending"
  /\ IF failed \/ snapshot.is = "unavailable" THEN Exits ELSE Returns
  /\ IF ~failed /\ snapshot.is = "ready" /\ ~IsFile /\ ~IsImage
     THEN Tell("text", snapshot.revision)
     ELSE UNCHANGED answers
  /\ UNCHANGED <<selections, watchState, readers, captured_image>>

(* observe_files: an image that is staged needs no look at its bytes.      *)
FilesAreReady == snapshot.is = "ready" /\ (IsFile \/ IsImage) /\ ~Current.marked

ObserveFiles ==
  /\ call.name = "idle"
  /\ IF failed THEN Exits ELSE UNCHANGED call
  /\ CASE ~failed /\ generation > 0 /\ captured_image = generation ->
            Tell("files", generation) /\ UNCHANGED captured_image
       [] ~failed /\ captured_image # generation /\ FilesAreReady ->
            /\ Tell("files", snapshot.revision)
            /\ captured_image' = IF IsImage THEN snapshot.revision ELSE captured_image
       [] OTHER -> UNCHANGED <<answers, captured_image>>
  /\ UNCHANGED <<selections, watchState, readers>>

BeginWrite(files, content) ==
  /\ Len(selections) < SelectionMax
  /\ write_nonce' = write_nonce + 1
  /\ pending_write_marker' = write_nonce + 1
  /\ call' = [name |-> "copy", before |-> generation, files |-> files, content |-> content]

WriteText(content) ==
  /\ call.name = "idle"
  /\ BeginWrite(FALSE, content)
  /\ UNCHANGED <<selections, generation, snapshot, current_matches_pending_write, failed,
                 readers, captured_image, answers>>

(* write_files_if_current looks at the revision, prepares an image and     *)
(* looks again.                                                            *)
CallWriteFiles(content) ==
  /\ call.name = "idle"
  /\ Len(selections) < SelectionMax
  /\ IF failed THEN Exits
     ELSE call' = [name |-> "check", before |-> generation, files |-> TRUE, content |-> content]
  /\ UNCHANGED <<selections, watchState, readers, captured_image, answers>>

WriteFiles ==
  /\ call.name = "check"
  /\ CASE failed -> Exits /\ UNCHANGED <<write_nonce, pending_write_marker>>
       [] ~failed /\ generation # call.before ->
            Returns /\ UNCHANGED <<write_nonce, pending_write_marker>>
       [] OTHER -> BeginWrite(TRUE, call.content)
  /\ UNCHANGED <<selections, generation, snapshot, current_matches_pending_write, failed,
                 readers, captured_image, answers>>

(* copy_multi: the selection is made, but not yet told of.                 *)
CopyMulti ==
  /\ call.name = "copy"
  /\ selections' = Append(selections,
       [write |-> pending_write_marker, kind |-> IF call.files THEN "files" ELSE "text",
        content |-> call.content, marked |-> FALSE])
  /\ call' = [call EXCEPT !.name = "write"]
  /\ UNCHANGED <<watchState, readers, captured_image, answers>>

CopyFails ==
  /\ call.name = "copy"
  /\ pending_write_marker' = 0
  /\ Exits
  /\ UNCHANGED <<selections, generation, snapshot, current_matches_pending_write, write_nonce,
                 failed, readers, captured_image, answers>>

(* Mutant: the same bytes will do, whoever selected them.                  *)
IsSame ==
  /\ snapshot.is = "ready"
  /\ IsFile = call.files
  /\ selections[snapshot.revision].content = call.content

IsWritten ==
  /\ snapshot.is = "ready"
  /\ current_matches_pending_write
  /\ IsFile = call.files
  /\ selections[snapshot.revision].content = call.content

(* The write waits for the next selection to be read, and it must be its   *)
(* own: what the user copied in between is taken for a failure.            *)
Written ==
  /\ call.name = "write"
  /\ failed \/ (generation > call.before /\ snapshot.is # "pending")
  /\ IF ~failed /\ IsWritten
     THEN Returns /\ Tell("write", snapshot.revision)
     ELSE Exits /\ UNCHANGED answers
  /\ pending_write_marker' = IF failed THEN pending_write_marker ELSE 0
  /\ UNCHANGED <<selections, generation, snapshot, current_matches_pending_write, write_nonce,
                 failed, readers, captured_image>>

(* A selection is kept for the write that may be under way.                *)
UserSelects ==
  /\ Runs
  /\ Len(selections) < SelectionMax - 1
  /\ \E s \in UserSelections : selections' = Append(selections, s)
  /\ UNCHANGED <<watchState, readers, captured_image, call, answers>>

LinuxNext ==
  \/ SelectionChanged \/ Fail \/ UserSelects
  \/ (\E g \in reading : ReadAll(g) \/ ReadFails(g))
  \/ (\E g \in sending : Send(g))
  \/ CallObserve \/ ObserveText \/ ObserveFiles
  \/ (\E c \in Contents : WriteText(c) \/ CallWriteFiles(c))
  \/ WriteFiles \/ CopyMulti \/ CopyFails \/ Written

(* Threads run on, and the owner of a selection sends it or ends: the code *)
(* waits for it without a time limit.                                      *)
LinuxFairness ==
  /\ WF_linuxVars(SelectionChanged)
  /\ \A g \in 1..SelectionMax : WF_linuxVars(ReadAll(g) \/ ReadFails(g))
  /\ WF_linuxVars(ObserveText)
  /\ WF_linuxVars(WriteFiles) /\ WF_linuxVars(CopyMulti \/ CopyFails) /\ WF_linuxVars(Written)

LinuxSpec == LinuxInit /\ [][LinuxNext]_linuxVars /\ LinuxFairness

----------------------------------------------------------------------------
AgentSelections ==
  [write : 1..SelectionMax, kind : {"text", "files"}, content : Contents, marked : {FALSE}]

Abstract == INSTANCE Clipboard WITH Selections <- UserSelections \cup AgentSelections

(* The adapter keeps the promise of a clipboard while selections, readers  *)
(* and writes overtake each other: what it tells belongs to the revision   *)
(* it tells, is no older than what it told before, and a write is told the *)
(* revision of its own selection (the generation that publish_ready checks *)
(* and the marker of begin_write).                                         *)
ImplementsClipboard == Abstract!Spec

(* Each call of the main thread ends, though no one takes observations out *)
(* of their channel and the threads that hand them to it stay.             *)
CallsReturn == call.name \notin {"idle", "exited"} ~> call.name \in {"idle", "exited"}
=============================================================================
