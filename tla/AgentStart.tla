----------------------------- MODULE AgentStart -----------------------------
(***************************************************************************)
(* How agents of one owner start and stop on one machine, and how the      *)
(* owner's commands reach the one that runs: run_platform                  *)
(* (crates/clipmesh-agent/src/main.rs), the creation of the store          *)
(* (crates/clipmesh-agent-core/src/store.rs), and the control socket,      *)
(* which is the same in crates/clipmesh-agent-linux/src/lib.rs and         *)
(* crates/clipmesh-agent-macos/src/lib.rs and keeps agents apart.          *)
(*                                                                         *)
(* A start takes no lock: it may overlap with other starts and with an     *)
(* agent that runs or ends, between any two of its calls, and it may be    *)
(* killed there.  What it does to the rows of a store that exists is       *)
(* Agent's.                                                                *)
(***************************************************************************)
EXTENDS Naturals, Sequences

CONSTANTS
  Processes,  \* that run the agent, one after the other or at once
  Clients,    \* that send it commands
  Nobody      \* no socket; no process; no client

ASSUME AgentStartAssumption ==
  /\ Nobody \notin Processes \cup Clients
  /\ Nobody \notin [owner : Processes, private : BOOLEAN]

VARIABLES
  store,      \* how much of it there is
  path,       \* [owner, private]: the socket at the path, or Nobody
  stage,      \* where each process is
  queue,      \* the connections that wait to be accepted
  current,    \* the connection whose command a process reads
  client,     \* whether each client is away, connected, or has sent its command
  torn,       \* history: a process was killed with its store or its socket half made
  alone,      \* history: the process that started last, if no other ran then
  raced       \* history: two that run found the same abandoned socket

histVars  == <<torn, alone, raced>>
startVars == <<store, path, stage, queue, current, client, histVars>>

Starting  == {"looking", "making", "creating", "probing", "connecting", "removing", "binding",
              "protecting", "checking"}
Listening == {"protecting", "checking", "serving", "reading", "leaving", "closing"}

StartInit ==
  /\ store = "absent" /\ path = Nobody
  /\ stage = [p \in Processes |-> "down"]
  /\ queue = [p \in Processes |-> <<>>]
  /\ current = [p \in Processes |-> Nobody]
  /\ client = [c \in Clients |-> "away"]
  /\ torn = FALSE /\ alone = Nobody /\ raced = FALSE

IsRunning(p) == stage[p] \notin {"down", "refused"}

Goes(p, from, to) == stage[p] = from /\ stage' = [stage EXCEPT ![p] = to]

----------------------------------------------------------------------------
(* The store: an empty file, its version, and then a table at a time, each *)
(* on the disk before the next.                                            *)

Start(p) ==
  LET met == \E q \in Processes \ {p} : IsRunning(q)
  IN  /\ Goes(p, "down", "looking") \/ Goes(p, "refused", "looking")
      /\ alone' = IF met THEN Nobody ELSE p
      /\ raced' = (raced /\ met)
      /\ UNCHANGED <<store, path, queue, current, client, torn>>

FindNoStore(p) ==
  /\ Goes(p, "looking", "making")
  /\ store = "absent"
  /\ UNCHANGED <<store, path, queue, current, client, histVars>>

(* It must be new: of two that found none one is refused.                  *)
CreateFile(p) ==
  /\ IF store = "absent"
     THEN Goes(p, "making", "creating") /\ store' = "empty"
     ELSE Goes(p, "making", "refused") /\ UNCHANGED store
  /\ UNCHANGED <<path, queue, current, client, histVars>>

(* "read": all the tables that a start reads, but not publish_failure.     *)
After(s) == CASE s = "empty" -> "versioned" [] s = "versioned" -> "read" [] s = "read" -> "whole"

CreateSchema(p) ==
  /\ IF store = "read" THEN Goes(p, "creating", "probing") ELSE stage[p] = "creating" /\ UNCHANGED stage
  /\ store' = After(store)
  /\ UNCHANGED <<path, queue, current, client, histVars>>

(* One that lacks its version, or tables that are read, is refused.        *)
OpenStore(p) ==
  /\ store # "absent"
  /\ Goes(p, "looking", IF store \in {"read", "whole"} THEN "probing" ELSE "refused")
  /\ UNCHANGED <<store, path, queue, current, client, histVars>>

----------------------------------------------------------------------------
(* The socket.                                                             *)

Listens(p) == stage[p] \in Listening

FindNothing(p) ==
  /\ path = Nobody
  /\ Goes(p, "probing", "binding")
  /\ UNCHANGED <<store, path, queue, current, client, histVars>>

(* One whose mode is not that of a finished start is left alone.           *)
FindSocket(p) ==
  /\ path # Nobody
  /\ Goes(p, "probing", IF path.private THEN "connecting" ELSE "refused")
  /\ UNCHANGED <<store, path, queue, current, client, histVars>>

Abandoned == path # Nobody /\ ~Listens(path.owner)

(* Mutant: a socket that is in the way is taken for abandoned.             *)
RecoverAny(p) ==
  /\ Goes(p, "connecting", "removing")
  /\ UNCHANGED <<store, path, queue, current, client, histVars>>

(* Only one that refuses a connection is removed.  A connection that is    *)
(* made says nothing and ends at once.                                     *)
TryConnect(p) ==
  /\ IF Abandoned
     THEN /\ Goes(p, "connecting", "removing")
          /\ raced' = (raced \/ \E q \in Processes : stage[q] = "removing")
     ELSE Goes(p, "connecting", "refused") /\ UNCHANGED raced
  /\ UNCHANGED <<store, path, queue, current, client, torn, alone>>

(* Whatever is at the path by now.                                         *)
RemoveSocket(p) ==
  /\ Goes(p, "removing", IF path = Nobody THEN "refused" ELSE "binding")
  /\ path' = Nobody
  /\ UNCHANGED <<store, queue, current, client, histVars>>

(* Until its mode is set the socket has that of every new file.            *)
Bind(p) ==
  /\ IF path = Nobody
     THEN Goes(p, "binding", "protecting") /\ path' = [owner |-> p, private |-> FALSE]
     ELSE Goes(p, "binding", "refused") /\ UNCHANGED path
  /\ UNCHANGED <<store, queue, current, client, histVars>>

(* What fails from here on removes what is at the path, as an end does.    *)
Protect(p) ==
  /\ IF path = Nobody
     THEN Goes(p, "protecting", "leaving") /\ UNCHANGED path
     ELSE Goes(p, "protecting", "checking") /\ path' = [path EXCEPT !.private = TRUE]
  /\ UNCHANGED <<store, queue, current, client, histVars>>

Check(p) ==
  /\ Goes(p, "checking", IF path # Nobody /\ path.private THEN "serving" ELSE "leaving")
  /\ UNCHANGED <<store, path, queue, current, client, histVars>>

----------------------------------------------------------------------------
(* Commands, one in each turn of the loop.                                 *)

ConnectClient(c) ==
  /\ client[c] = "away"
  /\ path # Nobody /\ Listens(path.owner)
  /\ client' = [client EXCEPT ![c] = "connected"]
  /\ queue' = [queue EXCEPT ![path.owner] = Append(@, c)]
  /\ UNCHANGED <<store, path, stage, current, histVars>>

(* The command, and the end of what the client has to say.                 *)
SendCommand(c) ==
  /\ client[c] = "connected"
  /\ client' = [client EXCEPT ![c] = "sent"]
  /\ UNCHANGED <<store, path, stage, queue, current, histVars>>

TryAccept(p) ==
  /\ queue[p] # <<>>
  /\ Goes(p, "serving", "reading")
  /\ current' = [current EXCEPT ![p] = Head(queue[p])]
  /\ queue' = [queue EXCEPT ![p] = Tail(@)]
  /\ UNCHANGED <<store, path, client, histVars>>

Answered(p) ==
  /\ client' = [client EXCEPT ![current[p]] = "away"]
  /\ current' = [current EXCEPT ![p] = Nobody]

(* A command that the core cannot carry out ends the process.              *)
ServiceControl(p) ==
  /\ stage[p] = "reading" /\ client[current[p]] = "sent"
  /\ Goes(p, "reading", "serving") \/ Goes(p, "reading", "leaving")
  /\ Answered(p)
  /\ UNCHANGED <<store, path, queue, histVars>>

(* Mutant: a client may take its time.                                     *)
WaitsOn(p) == FALSE /\ UNCHANGED startVars

(* A client that has not sent its command within a second is dropped.      *)
DropClient(p) ==
  /\ stage[p] = "reading" /\ client[current[p]] = "connected"
  /\ Goes(p, "reading", "serving")
  /\ Answered(p)
  /\ UNCHANGED <<store, path, queue, histVars>>

----------------------------------------------------------------------------
(* The end of a process.                                                   *)

Hangup(p) ==
  LET gone == {queue[p][i] : i \in DOMAIN queue[p]} \cup {current[p]}
  IN  /\ client' = [c \in Clients |-> IF c \in gone THEN "away" ELSE client[c]]
      /\ queue' = [queue EXCEPT ![p] = <<>>]
      /\ current' = [current EXCEPT ![p] = Nobody]

(* The loop ends: the adapter, the store or the clock has failed.          *)
Leave(p) ==
  /\ Goes(p, "serving", "leaving")
  /\ UNCHANGED <<store, path, queue, current, client, histVars>>

(* Whatever is at the path is removed, and then the socket is closed.      *)
RemovePath(p) ==
  /\ Goes(p, "leaving", "closing")
  /\ path' = Nobody
  /\ UNCHANGED <<store, queue, current, client, histVars>>

Close(p) ==
  /\ Goes(p, "closing", "down")
  /\ Hangup(p)
  /\ UNCHANGED <<store, path, histVars>>

Kill(p) ==
  /\ IsRunning(p)
  /\ stage' = [stage EXCEPT ![p] = "down"]
  /\ torn' = \/ torn
              \/ (stage[p] = "creating" /\ store # "read")
              \/ path = [owner |-> p, private |-> FALSE]
  /\ Hangup(p)
  /\ UNCHANGED <<store, path, alone, raced>>

----------------------------------------------------------------------------
(* The specification.                                                      *)

StartNext ==
  \/ \E p \in Processes :
       \/ Start(p) \/ FindNoStore(p) \/ CreateFile(p) \/ CreateSchema(p) \/ OpenStore(p)
       \/ FindNothing(p) \/ FindSocket(p) \/ TryConnect(p) \/ RemoveSocket(p)
       \/ Bind(p) \/ Protect(p) \/ Check(p)
       \/ TryAccept(p) \/ ServiceControl(p) \/ DropClient(p)
       \/ Leave(p) \/ RemovePath(p) \/ Close(p) \/ Kill(p)
  \/ \E c \in Clients : ConnectClient(c) \/ SendCommand(c)

(* A process that is not killed goes on; each wait for a client has a time *)
(* limit.  Nothing makes a client send what it connected for.              *)
GoesOn(p) ==
  \/ Protect(p) \/ Check(p) \/ TryAccept(p) \/ ServiceControl(p) \/ DropClient(p)
  \/ RemovePath(p) \/ Close(p)

StartFairness == \A p \in Processes : WF_startVars(GoesOn(p))

StartSpec == StartInit /\ [][StartNext]_startVars /\ StartFairness

----------------------------------------------------------------------------
(* The socket keeps agents apart, and lets one in.  An agent that serves   *)
(* has the path, so no other serves, however starts overlap and processes  *)
(* are killed: unless two starts, both between connect and remove_file,    *)
(* found the same abandoned socket, and until all that ran then have       *)
(* ended.  And a start that no other overlapped is refused only if one was *)
(* killed with its store or socket half made: a socket that was abandoned, *)
(* at whatever other moment, keeps nobody out (bind, open_or_initialize).  *)
OneAgentServes ==
  /\ [](~raced => \A p \in Processes :
          stage[p] \in {"serving", "reading"} => path = [owner |-> p, private |-> TRUE])
  /\ [][\A p \in Processes :
         alone = p /\ stage[p] \in Starting /\ stage'[p] \in {"refused", "leaving"} => torn]_startVars

(* Every client that connects is answered or dropped, though the loop      *)
(* reads one command at a time and other clients say nothing               *)
(* (try_accept_command, admit_command).                                    *)
CommandsAreAnswered == \A c \in Clients : client[c] # "away" ~> client[c] = "away"
=============================================================================
