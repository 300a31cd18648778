----------------------------- MODULE Clipboard -----------------------------
(***************************************************************************)
(* What a desktop adapter promises of a clipboard: whoever asks for text   *)
(* or files gets a selection together with its own revision, never one     *)
(* older than what was told before, and no files that were marked; and a   *)
(* write is told the revision of a selection that the agent made since.    *)
(***************************************************************************)
EXTENDS Naturals, Sequences

CONSTANT Selections  \* [write, kind, content, marked]; write is 0 for the user's

VARIABLES
  selections,  \* what the clipboard held, in order: a revision is an index
  answer,      \* of the last call: [call, revision, selection], or nothing yet
  told         \* the newest revision that a caller knows

vars == <<selections, answer, told>>

Init == selections = <<>> /\ answer = <<>> /\ told = 0

Select ==
  /\ \E s \in Selections : selections' = Append(selections, s)
  /\ UNCHANGED <<answer, told>>

Tells(call, revision) ==
  /\ answer' = [call |-> call, revision |-> revision, selection |-> selections[revision]]
  /\ told' = revision
  /\ UNCHANGED selections

ObserveText ==
  \E r \in DOMAIN selections :
    r >= told /\ selections[r].kind = "text" /\ Tells("text", r)

ObserveFiles ==
  \E r \in DOMAIN selections :
    /\ r >= told /\ selections[r].kind \in {"files", "image"} /\ ~selections[r].marked
    /\ Tells("files", r)

Write ==
  \E r \in DOMAIN selections :
    r > told /\ selections[r].write # 0 /\ Tells("write", r)

Next == Select \/ ObserveText \/ ObserveFiles \/ Write

Spec == Init /\ [][Next]_vars
=============================================================================
