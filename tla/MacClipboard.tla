---------------------------- MODULE MacClipboard ----------------------------
(***************************************************************************)
(* The pasteboard of a Mac (MacPasteboard and platform::Pasteboard,        *)
(* crates/clipmesh-agent-macos/src/lib.rs).  Reading it takes several      *)
(* calls of the system, and any program may write between two of them.     *)
(*                                                                         *)
(* NSPasteboard is not in src/.  As the code uses it, a program first      *)
(* clears it, which makes it the owner and counts one change, and then     *)
(* puts all it has with one call, which fails once another is the owner.   *)
(* An error ends the agent's process.                                      *)
(***************************************************************************)
EXTENDS Integers, Sequences

CONSTANTS
  Values,     \* what a program puts: text and files of it share a name here
  Empty,      \* what is read of a pasteboard that was cleared
  ChangeMax   \* bound: changes

ASSUME MacClipboardAssumption == Empty \notin Values /\ ChangeMax \in Nat

VARIABLES
  put,      \* for each change count, what was put at it, or Empty
  puts,     \* whether a program of the user's has cleared and will put
  step,     \* of the agent's main thread
  count_before,  \* changeCount before the read
  types, bytes, paths,
  seen      \* what the last call told: [revision, types, bytes, paths]

macVars == <<put, puts, step, count_before, types, bytes, paths, seen>>
reads == <<count_before, types, bytes, paths>>

changeCount == Len(put)

Nothing == [revision |-> 0, types |-> Empty, bytes |-> Empty, paths |-> Empty]

MacInit ==
  /\ put = <<Empty>> /\ puts = FALSE
  /\ step = "idle"
  /\ count_before = 0 /\ types = Empty /\ bytes = Empty /\ paths = Empty
  /\ seen = Nothing

Clears == put' = Append(put, Empty)

Puts == \E v \in Values : put' = [put EXCEPT ![changeCount] = v]

(* Another program copies.                                                 *)
UserClears ==
  /\ step # "exited"
  /\ changeCount < ChangeMax
  /\ Clears
  /\ puts' = TRUE
  /\ UNCHANGED <<step, reads, seen>>

UserPuts ==
  /\ step # "exited"
  /\ puts
  /\ Puts
  /\ puts' = FALSE
  /\ UNCHANGED <<step, reads, seen>>

----------------------------------------------------------------------------
(* read_snapshot, which a call for text, for files or for the revision     *)
(* begins with.                                                            *)

Reads(from, to) == step = from /\ step' = to /\ UNCHANGED <<put, puts>>

CountBefore ==
  /\ Reads("idle", "types")
  /\ count_before' = changeCount
  /\ UNCHANGED <<types, bytes, paths, seen>>

ReadTypes ==
  /\ Reads("types", "bytes")
  /\ types' = put[changeCount]
  /\ UNCHANGED <<count_before, bytes, paths, seen>>

(* Mutant: a change during the read is not noticed.                        *)
ChangedOrNot == TRUE

ReadBytes ==
  /\ Reads("bytes", "after")
  /\ bytes' = put[changeCount]
  /\ UNCHANGED <<count_before, types, paths, seen>>

Unchanged == count_before = changeCount

CountAfter ==
  /\ ~Unchanged
  /\ Reads("after", "exited")
  /\ UNCHANGED <<reads, seen>>

(* observe_text is done ...                                                *)
TellText ==
  /\ Unchanged
  /\ Reads("after", "idle")
  /\ seen' = [revision |-> changeCount, types |-> types, bytes |-> bytes, paths |-> Empty]
  /\ UNCHANGED reads

(* ... while observe_files reads on, and looks at the count once more.     *)
SnapshotOfFiles ==
  /\ Unchanged
  /\ Reads("after", "paths")
  /\ UNCHANGED <<reads, seen>>

ReadFilePaths ==
  /\ Reads("paths", "current")
  /\ paths' = put[changeCount]
  /\ UNCHANGED <<count_before, types, bytes, seen>>

TellFiles ==
  /\ Unchanged
  /\ Reads("current", "idle")
  /\ seen' = [revision |-> count_before, types |-> types, bytes |-> Empty, paths |-> paths]
  /\ UNCHANGED reads

FilesChanged ==
  /\ ~Unchanged
  /\ Reads("current", "exited")
  /\ UNCHANGED <<reads, seen>>

----------------------------------------------------------------------------
(* write_text and write_file_paths, the latter after a look at the count   *)
(* (write_files_if_current); the count they tell is read at the end.       *)
WriteClears ==
  /\ step = "idle"
  /\ changeCount < ChangeMax
  /\ step' = "put"
  /\ Clears
  /\ puts' = FALSE
  /\ count_before' = changeCount + 1
  /\ UNCHANGED <<types, bytes, paths, seen>>

WritePuts ==
  /\ step = "put"
  /\ IF Unchanged THEN Puts /\ step' = "count" ELSE UNCHANGED put /\ step' = "exited"
  /\ UNCHANGED <<puts, reads, seen>>

WriteCounts ==
  /\ Reads("count", "idle")
  /\ UNCHANGED <<reads, seen>>

MacNext ==
  \/ UserClears \/ UserPuts
  \/ CountBefore \/ ReadTypes \/ ReadBytes \/ CountAfter \/ TellText
  \/ SnapshotOfFiles \/ ReadFilePaths \/ TellFiles \/ FilesChanged
  \/ WriteClears \/ WritePuts \/ WriteCounts

MacSpec == MacInit /\ [][MacNext]_macVars

----------------------------------------------------------------------------
(* What an observation tells is never put together from two selections:    *)
(* types, text and files are those of the revision it names, or what a     *)
(* pasteboard that was just cleared has (read_snapshot and observe_files   *)
(* count the changes before and after).                                    *)
SnapshotsAreWhole ==
  seen.revision > 0 =>
    {seen.types, seen.bytes, seen.paths} \subseteq {Empty, put[seen.revision]}
=============================================================================
