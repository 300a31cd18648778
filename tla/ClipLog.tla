------------------------------ MODULE ClipLog ------------------------------
(***************************************************************************)
(* What the hub promises about text clips, whoever is connected: one log.  *)
(* A message is accepted at most once, at the next cursor, for good.       *)
(* What can be read back of the log only shrinks, but for the clip just    *)
(* accepted, and a clear takes all of it and starts a new generation.      *)
(* Only the loss of the database starts the log anew.  No cursor and no    *)
(* generation is ever one that a client could not read.                    *)
(***************************************************************************)
EXTENDS Integers

CONSTANTS
  Ids,           \* message ids
  Cursors, Eras  \* what a cursor and a generation may be

VARIABLES
  epoch,         \* which log this is
  era,           \* how often it was cleared, from 1
  newest,        \* the newest cursor
  accepted,      \* every acceptance: [id, cursor]
  readable       \* the cursors that can be read back

vars == <<epoch, era, newest, accepted, readable>>

EmptyLog ==
  /\ era = 1
  /\ newest = 0
  /\ accepted = {}
  /\ readable = {}

Init == epoch = 1 /\ EmptyLog

Accept(id) ==
  LET cursor == newest + 1
  IN  /\ cursor \in Cursors
      /\ \A a \in accepted : a.id # id
      /\ newest' = cursor
      /\ accepted' = accepted \cup {[id |-> id, cursor |-> cursor]}
      /\ cursor \in readable'
      /\ readable' \subseteq readable \cup {cursor}
      /\ UNCHANGED <<epoch, era>>

Forget ==
  /\ readable' \subseteq readable
  /\ UNCHANGED <<epoch, era, newest, accepted>>

Clear ==
  /\ era + 1 \in Eras
  /\ era' = era + 1
  /\ readable' = {}
  /\ UNCHANGED <<epoch, newest, accepted>>

StartAnew ==
  /\ epoch' = epoch + 1
  /\ EmptyLog'

Next ==
  \/ \E id \in Ids : Accept(id)
  \/ Forget
  \/ Clear
  \/ StartAnew

Spec == Init /\ [][Next]_vars
=============================================================================
