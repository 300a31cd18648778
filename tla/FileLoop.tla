------------------------------ MODULE FileLoop ------------------------------
(***************************************************************************)
(* Files on a desktop: the agent's main loop (run_desktop,                 *)
(* crates/clipmesh-agent/src/main.rs) with the thread that asks the hub    *)
(* for its selections or fetches one, the thread that uploads one, the     *)
(* memory of what has arrived (FileArrivals,                               *)
(* crates/clipmesh-agent/src/files.rs), the user at the clipboard, other   *)
(* desktops, and the hub's shelf.                                          *)
(*                                                                         *)
(* The loop is split where the user, a thread or the hub may come between; *)
(* what it does in one go with the clipboard's revision is one action.  A  *)
(* pause is a lock here, for the loop treats both the same.  The hub puts  *)
(* its selections in the order of their times.                             *)
(***************************************************************************)
EXTENDS Integers, Sequences, SequencesExt

CONSTANTS
  Own, Others,     \* ids of the selections this desktop, or another, publishes
  None,            \* no selection, job, upload or baseline
  LocalMax,        \* own ids that FileArrivals remembers
  RevisionMax,     \* bound: revisions of the clipboard
  GenerationMax,   \* bound: the hub's clear generations
  ConnectMax       \* bound: connections to the hub

ASSUME FileLoopAssumption ==
  /\ None \notin Own \cup Others
  /\ LocalMax \in Nat \ {0} /\ RevisionMax \in Nat
  /\ GenerationMax \in Nat /\ ConnectMax \in Nat

VARIABLES
  shelf,               \* of the hub, oldest first
  hub_generation,      \* of the hub
  wire,                \* own selections whose last request is under way
  issued,              \* ids that have been used; a UUID never comes twice
  clipboard,           \* [revision, kind, clip]; kind is "files" of the user's,
                       \* "received" from us, or "other"
  disk,                \* selections with a directory on the disk
  pc,                  \* where the loop is
  locked, shared_clear_pending,
  live, known,         \* the core's state and its clear generation
  connects,            \* how often the loop has connected
  file_job,            \* [kind, stage, revision, generation, cancelled, clips, clip]
  file_upload,         \* [clip, cancelled, done]
  last_file_revision,
  received,            \* _received_files
  baseline, local,     \* FileArrivals
  before,              \* the shelf when the session last came up
  mine                 \* what this process has begun to upload

hub == <<shelf, hub_generation, wire>>
desk == <<clipboard, disk>>
session == <<locked, shared_clear_pending, live, known, connects, before>>
arrivals == <<baseline, local, mine>>
held == <<last_file_revision, received>>
threads == <<file_job, file_upload>>
loopVars == <<hub, issued, desk, pc, session, threads, held, arrivals>>

LoopInit ==
  /\ shelf = <<>> /\ hub_generation = 1 /\ wire = {} /\ issued = {}
  /\ clipboard = [revision |-> 1, kind |-> "other", clip |-> None]
  /\ disk = {}
  /\ pc = "top"
  /\ locked = FALSE /\ shared_clear_pending = FALSE
  /\ live = FALSE /\ known = 0 /\ connects = 0
  /\ file_job = None /\ file_upload = None
  /\ last_file_revision = 0 /\ received = None
  /\ baseline = None /\ local = <<>>
  /\ before = {} /\ mine = {}

----------------------------------------------------------------------------
(* FileArrivals.                                                           *)

NoteLocalPublish(clip) ==
  local' = LET ids == Append(local, clip)
           IN  IF Len(ids) > LocalMax THEN Tail(ids) ELSE ids

(* Mutant: what is in local is not looked at.                              *)
ArrivalOfAny(clips) ==
  IF baseline = None \/ clips = <<>> \/ Last(clips) \in baseline THEN None ELSE Last(clips)

(* The newest of a reply, if it came since the last reply and is not ours. *)
Arrival(clips) ==
  IF \/ baseline = None \/ clips = <<>>
     \/ Last(clips) \in baseline \cup Range(local)
  THEN None
  ELSE Last(clips)

----------------------------------------------------------------------------
(* The loop.                                                               *)

(* Mutant: a connection that ends leaves the baseline.                     *)
NeverResets(away) == baseline

Resets(away) == IF away THEN None ELSE baseline

IsCurrent(revision) == clipboard.revision = revision

Cancelled(thread, cancel) ==
  IF thread # None /\ cancel THEN [thread EXCEPT !.cancelled = TRUE] ELSE thread

(* Control, lock state, and what they end.                                 *)
Top ==
  /\ pc = "top"
  /\ locked' \in BOOLEAN
  /\ shared_clear_pending' \in {TRUE, shared_clear_pending}
  /\ live' = (live /\ ~locked')
  /\ LET away == ~live' \/ shared_clear_pending'
     IN  /\ baseline' = Resets(away)
         /\ file_job' = Cancelled(file_job, away)
  /\ pc' = "result"
  /\ UNCHANGED <<issued, hub, desk, known, connects, before, file_upload, held, local, mine>>

Finished == file_job # None /\ file_job.stage # "running"

Valid ==
  /\ ~file_job.cancelled
  /\ ~locked /\ live /\ ~shared_clear_pending
  /\ known = file_job.generation

NoResult ==
  /\ pc = "result"
  /\ ~Finished
  /\ pc' = "upload"
  /\ UNCHANGED <<issued, hub, desk, session, threads, held, arrivals>>

(* A failed job, or one the loop no longer wants: its files are removed.   *)
DropResult ==
  /\ pc = "result"
  /\ Finished
  /\ \/ file_job.stage = "failed"
     \/ ~Valid
     \/ file_job.kind = "download" /\ ~IsCurrent(file_job.revision)
  /\ disk' = IF file_job.kind = "download" /\ file_job.stage = "done"
             THEN disk \ {file_job.clip} ELSE disk
  /\ file_job' = None
  /\ pc' = "upload"
  /\ UNCHANGED <<issued, hub, clipboard, session, file_upload, held, arrivals>>

(* observe; an arrival is fetched if the clipboard is as it was at the     *)
(* time of the poll.                                                       *)
TakeHistory ==
  /\ pc = "result"
  /\ Finished
  /\ file_job.kind = "history" /\ file_job.stage = "done" /\ Valid
  /\ baseline' = Range(file_job.clips)
  /\ LET clip == Arrival(file_job.clips)
     IN  file_job' = IF clip # None /\ IsCurrent(file_job.revision)
                     THEN [file_job EXCEPT !.kind = "download", !.stage = "running",
                                           !.clip = clip, !.clips = <<>>]
                     ELSE None
  /\ pc' = "upload"
  /\ UNCHANGED <<issued, hub, desk, session, file_upload, held, local, mine>>

(* write_files_if_current looks at the revision and then writes ...        *)
TakeDownload ==
  /\ pc = "result"
  /\ Finished
  /\ file_job.kind = "download" /\ file_job.stage = "done" /\ Valid
  /\ IsCurrent(file_job.revision)
  /\ pc' = "write"
  /\ UNCHANGED <<issued, hub, desk, session, threads, held, arrivals>>

(* ... whatever the user has copied meanwhile ...                          *)
Shows(clip) ==
  /\ clipboard.revision < RevisionMax
  /\ clipboard' = [revision |-> clipboard.revision + 1, kind |-> "received", clip |-> clip]

Write ==
  /\ pc = "write"
  /\ Shows(file_job.clip)
  /\ pc' = "record"
  /\ UNCHANGED <<issued, hub, disk, session, threads, held, arrivals>>

(* Mutant: the new selection goes and the old one is kept.                 *)
KeepsOld(clip) ==
  /\ received' = received
  /\ disk' = disk \ {clip}

(* ... and tells the revision it then reads; the selection that was held   *)
(* goes, and its directory with it.                                        *)
Keeps(clip) ==
  /\ received' = clip
  /\ disk' = disk \ ({received} \ {clip})

Record ==
  /\ pc = "record"
  /\ last_file_revision' = clipboard.revision
  /\ Keeps(file_job.clip)
  /\ file_job' = None
  /\ pc' = "upload"
  /\ UNCHANGED <<issued, hub, clipboard, session, file_upload, arrivals>>

(* An upload is cancelled when the session ends or the clipboard is        *)
(* another, and forgotten when it has ended.                               *)
Uploads ==
  /\ pc = "upload"
  /\ LET cancel == \/ ~live \/ shared_clear_pending
                   \/ last_file_revision # 0 /\ ~IsCurrent(last_file_revision)
     IN  file_upload' = IF file_upload # None /\ file_upload.done THEN None
                        ELSE Cancelled(file_upload, cancel)
  /\ pc' = IF locked THEN "top" ELSE IF live THEN "poll" ELSE "connect"
  /\ UNCHANGED <<issued, hub, desk, session, file_job, held, arrivals>>

(* What is on the clipboard at a connection is not for the others.         *)
Connect ==
  /\ pc = "connect"
  /\ connects < ConnectMax
  /\ connects' = connects + 1
  /\ live' = TRUE
  /\ known' = hub_generation
  /\ last_file_revision' = clipboard.revision
  /\ before' = Range(shelf)
  /\ pc' = "poll"
  /\ UNCHANGED <<issued, hub, desk, locked, shared_clear_pending, threads, received, arrivals>>

ConnectFails ==
  /\ pc = "connect"
  /\ pc' = "top"
  /\ UNCHANGED <<issued, hub, desk, session, threads, held, arrivals>>

(* A pending clear is sent; then a poll may be due.                        *)
ClearFails ==
  /\ pc = "poll"
  /\ shared_clear_pending
  /\ live' = FALSE
  /\ pc' = "top"
  /\ UNCHANGED <<hub, issued, desk, locked, shared_clear_pending, known, connects, before,
                 threads, held, arrivals>>

Poll ==
  /\ pc = "poll"
  /\ shared_clear_pending' = FALSE
  /\ \/ /\ file_job = None
        /\ file_job' = [kind |-> "history", stage |-> "running", revision |-> clipboard.revision,
                        generation |-> known, cancelled |-> FALSE, clips |-> <<>>, clip |-> None]
     \/ UNCHANGED file_job
  /\ pc' = "observe"
  /\ UNCHANGED <<issued, hub, desk, locked, live, known, connects, before, file_upload, held, arrivals>>

(* Files on the clipboard that are not known yet.  The core may have been  *)
(* told to leave the next copy alone.                                      *)
NewFiles ==
  /\ file_upload = None
  /\ clipboard.kind \in {"files", "received"}
  /\ last_file_revision # clipboard.revision

Observe ==
  /\ pc = "observe"
  /\ pc' = "drive"
  /\ IF NewFiles
     THEN /\ last_file_revision' = clipboard.revision
          /\ \/ UNCHANGED <<file_upload, local, mine>>
             \/ \E clip \in Own \ issued :
                  /\ file_upload' = [clip |-> clip, cancelled |-> FALSE, done |-> FALSE]
                  /\ NoteLocalPublish(clip)
                  /\ mine' = mine \cup {clip}
     ELSE UNCHANGED <<last_file_revision, file_upload, local, mine>>
  /\ issued' = issued \cup mine'
  /\ UNCHANGED <<hub, desk, session, file_job, received, baseline>>

(* Nothing comes, or a clear is told, or the connection ends.              *)
Drive ==
  /\ pc = "drive"
  /\ known' \in {known, hub_generation}
  /\ live' \in BOOLEAN
  /\ pc' = "top"
  /\ UNCHANGED <<issued, hub, desk, locked, shared_clear_pending, connects, before, threads, held, arrivals>>

(* The process is killed, or ends by itself when the adapter fails, and    *)
(* starts again.  Of what it had put on the clipboard nothing is said any  *)
(* more: the clipboard may lose it, or its files may be gone.              *)
Restart ==
  /\ pc' = "top"
  /\ locked' = FALSE /\ shared_clear_pending' = FALSE /\ live' = FALSE
  /\ file_job' = None /\ file_upload' = None
  /\ last_file_revision' = 0 /\ received' = None
  /\ baseline' = None /\ local' = <<>> /\ mine' = {}
  /\ clipboard' = IF clipboard.kind = "received"
                  THEN [clipboard EXCEPT !.kind = "other", !.clip = None] ELSE clipboard
  /\ disk' \in {disk, {}}
  /\ UNCHANGED <<issued, hub, known, connects, before>>

----------------------------------------------------------------------------
(* The threads.                                                            *)

HistoryReplies ==
  /\ file_job # None /\ file_job.kind = "history" /\ file_job.stage = "running"
  /\ file_job' = [file_job EXCEPT !.stage = "done", !.clips = shelf]
  /\ UNCHANGED <<issued, hub, desk, pc, session, file_upload, held, arrivals>>

(* receive_selection: all of its files, if the hub has them to the end.    *)
Downloads ==
  /\ file_job # None /\ file_job.kind = "download" /\ file_job.stage = "running"
  /\ file_job.clip \in Range(shelf)
  /\ file_job' = [file_job EXCEPT !.stage = "done"]
  /\ disk' = disk \cup {file_job.clip}
  /\ UNCHANGED <<issued, hub, clipboard, pc, session, file_upload, held, arrivals>>

JobFails ==
  /\ file_job # None /\ file_job.stage = "running"
  /\ file_job' = [file_job EXCEPT !.stage = "failed"]
  /\ UNCHANGED <<issued, hub, desk, pc, session, file_upload, held, arrivals>>

(* publish: the last of its requests, with no look at the flag after it.   *)
UploadSends ==
  /\ file_upload # None /\ ~file_upload.done /\ ~file_upload.cancelled
  /\ wire' = wire \cup {file_upload.clip}
  /\ file_upload' = [file_upload EXCEPT !.done = TRUE]
  /\ UNCHANGED <<issued, shelf, hub_generation, desk, pc, session, file_job, held, arrivals>>

UploadEnds ==
  /\ file_upload # None /\ ~file_upload.done
  /\ file_upload' = [file_upload EXCEPT !.done = TRUE]
  /\ UNCHANGED <<issued, hub, desk, pc, session, file_job, held, arrivals>>

----------------------------------------------------------------------------
(* The hub, the other desktops and the user.                               *)

(* The hub takes a selection, or what it had of it is gone.                *)
HubAccepts(clip) ==
  /\ clip \in wire
  /\ wire' = wire \ {clip}
  /\ shelf' \in {shelf, Append(shelf, clip)}
  /\ UNCHANGED <<issued, hub_generation, desk, pc, session, threads, held, arrivals>>

OtherPublishes(clip) ==
  /\ clip \notin issued
  /\ issued' = issued \cup {clip}
  /\ shelf' = Append(shelf, clip)
  /\ UNCHANGED <<hub_generation, wire, desk, pc, session, threads, held, arrivals>>

HubExpires ==
  /\ shelf # <<>>
  /\ shelf' = Tail(shelf)
  /\ UNCHANGED <<issued, hub_generation, wire, desk, pc, session, threads, held, arrivals>>

HubClears ==
  /\ hub_generation < GenerationMax
  /\ hub_generation' = hub_generation + 1
  /\ shelf' = <<>> /\ wire' = {}
  /\ UNCHANGED <<issued, desk, pc, session, threads, held, arrivals>>

Copy(kind) ==
  /\ clipboard.revision < RevisionMax - 1
  /\ clipboard' = [revision |-> clipboard.revision + 1, kind |-> kind, clip |-> None]
  /\ UNCHANGED <<issued, hub, disk, pc, session, threads, held, arrivals>>

LoopNext ==
  \/ Top \/ NoResult \/ DropResult \/ TakeHistory \/ TakeDownload \/ Write \/ Record
  \/ Uploads \/ Connect \/ ConnectFails \/ ClearFails \/ Poll \/ Observe \/ Drive \/ Restart
  \/ HistoryReplies \/ Downloads \/ JobFails \/ UploadSends \/ UploadEnds
  \/ (\E clip \in Own : HubAccepts(clip))
  \/ (\E clip \in Others : OtherPublishes(clip))
  \/ HubExpires \/ HubClears
  \/ (\E kind \in {"files", "other"} : Copy(kind))

LoopSpec == LoopInit /\ [][LoopNext]_loopVars

----------------------------------------------------------------------------
(* The loop puts a selection on the clipboard only if it came after the    *)
(* session: "Connecting a desktop does not replace its clipboard with      *)
(* previously shared files" (README.md), however polls, fetches, clears    *)
(* and lost connections fall.                                              *)
NothingOldShown ==
  [][clipboard'.clip # clipboard.clip => clipboard'.clip \notin before]_loopVars

(* Of what a process uploads nothing comes back on its clipboard, also not *)
(* when the upload was cancelled or its answer lost; and what it received  *)
(* it does not upload.                                                     *)
NoFileEcho ==
  [][/\ clipboard'.clip # clipboard.clip => clipboard'.clip \notin mine
     /\ (mine' \subseteq mine \/ clipboard.kind # "received")]_loopVars

(* As long as the clipboard names files that the running process received, *)
(* they are on the disk, whatever arrives or is thrown away meanwhile.     *)
ShownFilesExist == clipboard.kind = "received" => clipboard.clip \in disk
=============================================================================
