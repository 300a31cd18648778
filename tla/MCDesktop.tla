----------------------------- MODULE MCDesktop -----------------------------
(***************************************************************************)
(* Small instances for TLC of the parts of a desktop that share nothing in *)
(* these models: in every behaviour one of the machines runs.              *)
(***************************************************************************)
EXTENDS FileLoop, LinuxClipboard, MacClipboard, Heartbeat, AgentStart, FiniteSets

CONSTANTS
  Machines,
  EventMax  \* bound: connections, ids, and clears, which count twice, in one behaviour

VARIABLE machine

MCVars == <<loopVars, linuxVars, macVars, heartVars, startVars, machine>>

Copies(kind, content, marked) ==
  [write |-> 0, kind |-> kind, content |-> content, marked |-> marked]

MCUserSelections ==
  {Copies("text", 1, FALSE), Copies("text", 2, FALSE), Copies("files", 1, FALSE),
   Copies("files", 2, TRUE), Copies("image", 2, FALSE), Copies("other", 2, FALSE),
   Copies("none", 2, FALSE)}

MCInit ==
  /\ LoopInit /\ LinuxInit /\ MacInit /\ HeartInit /\ StartInit
  /\ machine \in Machines

MCNext ==
  /\ UNCHANGED machine
  /\ \/ /\ machine = "files" /\ LoopNext
        /\ connects' + Cardinality(issued') + 2 * (hub_generation' - 1) <= EventMax
        /\ UNCHANGED <<linuxVars, macVars, heartVars, startVars>>
     \/ /\ machine = "linux" /\ LinuxNext
        /\ UNCHANGED <<loopVars, macVars, heartVars, startVars>>
     \/ /\ machine = "mac" /\ MacNext
        /\ UNCHANGED <<loopVars, linuxVars, heartVars, startVars>>
     \/ /\ machine = "stream" /\ HeartNext
        /\ UNCHANGED <<loopVars, linuxVars, macVars, startVars>>
     \/ /\ machine = "start" /\ StartNext
        /\ UNCHANGED <<loopVars, linuxVars, macVars, heartVars>>

(* The fairness of each, of the machine that runs.                         *)
MCFairness ==
  /\ WF_linuxVars(machine = "linux" /\ SelectionChanged)
  /\ \A g \in 1..SelectionMax : WF_linuxVars(machine = "linux" /\ (ReadAll(g) \/ ReadFails(g)))
  /\ WF_linuxVars(machine = "linux" /\ ObserveText)
  /\ WF_linuxVars(machine = "linux" /\ WriteFiles)
  /\ WF_linuxVars(machine = "linux" /\ (CopyMulti \/ CopyFails))
  /\ WF_linuxVars(machine = "linux" /\ Written)
  /\ WF_heartVars(machine = "stream" /\ Tick)
  /\ WF_heartVars(machine = "stream" /\ Turn)
  /\ WF_heartVars(machine = "stream" /\ TimesOut)
  /\ WF_heartVars(machine = "stream" /\ DropsSilent)
  /\ WF_heartVars(machine = "stream" /\ Receive)
  /\ WF_heartVars(machine = "stream" /\ ReadPong)
  /\ \A x \in Processes : WF_startVars(machine = "start" /\ GoesOn(x))

MCSpec == MCInit /\ [][MCNext]_MCVars /\ MCFairness
=============================================================================
