----------------------------- MODULE Heartbeat -----------------------------
(***************************************************************************)
(* How the two ends of a clip stream find out that the other is gone.  The *)
(* hub's worker pings a stream on which it has written nothing for a while *)
(* and gives up when no pong comes (serve_socket,                          *)
(* crates/clipmesh-hub-edge/src/lib.rs); the agent gives up when no frame  *)
(* of any kind has come for longer than that (WebSocketTransport::receive, *)
(* crates/clipmesh-agent/src/lib.rs).                                      *)
(*                                                                         *)
(* An instant kept by the code is here the time since then, in ticks.      *)
(* While the path is whole, a frame is read within LatencyMax and the      *)
(* worker, whose reads wait for one second, goes round in every tick.      *)
(***************************************************************************)
EXTENDS Integers

CONSTANTS
  PingAfter,       \* without outbound frames until the worker pings
  PongWithin,      \* from its ping until it gives up
  SilenceTimeout,  \* hub_silence_timeout of the agent
  LatencyMax       \* bound: how long a frame is under way, and waits to be read

ASSUME HeartbeatAssumption ==
  /\ PingAfter \in Nat \ {0} /\ PongWithin \in Nat \ {0} /\ LatencyMax \in Nat
  /\ SilenceTimeout \in Nat /\ SilenceTimeout > PingAfter + LatencyMax + 1
  /\ PongWithin > 2 * LatencyMax
  /\ PingAfter >= LatencyMax

VARIABLES
  worker,         \* "up", "timed_out" or "closed"
  agent,          \* "up", "silent" or "closed"
  last_outbound,  \* of the worker
  ping_sent,      \* of the worker, or -1 for None
  last_inbound,   \* of the agent
  queued,         \* whether an event waits in the session's queue
  toAgent,        \* frames under way: [ping, age]
  toHub,          \* ages of the pongs under way
  turned,         \* whether the worker went round in this tick
  cut             \* whether the path is gone, with neither end told

heartVars == <<worker, agent, last_outbound, ping_sent, last_inbound, queued,
               toAgent, toHub, turned, cut>>

HeartInit ==
  /\ worker = "up" /\ agent = "up"
  /\ last_outbound = 0 /\ ping_sent = -1 /\ last_inbound = 0
  /\ queued = FALSE
  /\ toAgent = {} /\ toHub = {}
  /\ turned = FALSE /\ cut = FALSE

----------------------------------------------------------------------------
(* The hub's worker.                                                       *)

Sends(frames) == toAgent' = IF cut THEN {} ELSE toAgent \cup frames

(* Mutant: a ping is forgotten in favour of the next one.                  *)
PongIgnored == ping_sent' = ping_sent

PongNoted == ping_sent' = -1

(* Once round the loop: the queue's events, a ping, the pong's time limit. *)
PingDue(outbound) == ping_sent = -1 /\ outbound >= PingAfter

GivesUp == ~queued /\ ping_sent >= PongWithin

Turn ==
  /\ worker = "up"
  /\ ~GivesUp
  /\ turned' = TRUE
  /\ queued' = FALSE
  /\ CASE queued -> /\ Sends({[ping |-> FALSE, age |-> 0]})
                    /\ last_outbound' = 0 /\ ping_sent' = -1
       [] ~queued /\ PingDue(last_outbound) ->
                    /\ Sends({[ping |-> TRUE, age |-> 0]})
                    /\ last_outbound' = 0 /\ ping_sent' = 0
       [] OTHER -> UNCHANGED <<toAgent, last_outbound, ping_sent>>
  /\ UNCHANGED <<worker, agent, last_inbound, toHub, cut>>

(* close_with: the agent learns of it if the path is whole.                *)
TimesOut ==
  /\ worker = "up"
  /\ GivesUp
  /\ worker' = "timed_out"
  /\ agent' = IF cut \/ agent # "up" THEN agent ELSE "closed"
  /\ UNCHANGED <<last_outbound, ping_sent, last_inbound, queued, toAgent, toHub, turned, cut>>

ReadPong ==
  /\ worker = "up"
  /\ \E age \in toHub : toHub' = toHub \ {age}
  /\ PongNoted
  /\ UNCHANGED <<worker, agent, last_outbound, last_inbound, queued, toAgent, turned, cut>>

(* handle_text: a reply to the agent does not count as outbound.           *)
Reply ==
  /\ worker = "up" /\ agent = "up" /\ ~cut
  /\ Sends({[ping |-> FALSE, age |-> 0]})
  /\ UNCHANGED <<worker, agent, last_outbound, ping_sent, last_inbound, queued, toHub, turned, cut>>

----------------------------------------------------------------------------
(* The agent.                                                              *)

Receive ==
  /\ agent = "up"
  /\ \E frame \in toAgent :
       /\ toAgent' = toAgent \ {frame}
       /\ toHub' = IF frame.ping THEN toHub \cup {0} ELSE toHub
  /\ last_inbound' = 0
  /\ UNCHANGED <<worker, agent, last_outbound, ping_sent, queued, turned, cut>>

(* Mutant: the silence is measured when a frame came, and not when none did. *)
SilentAtFrame == 0 >= SilenceTimeout

Silent == last_inbound >= SilenceTimeout

(* The read of a socket with nothing to read.                              *)
DropsSilent ==
  /\ agent = "up"
  /\ Silent
  /\ agent' = "silent"
  /\ worker' = IF cut \/ worker # "up" THEN worker ELSE "closed"
  /\ UNCHANGED <<last_outbound, ping_sent, last_inbound, queued, toAgent, toHub, turned, cut>>

----------------------------------------------------------------------------
(* Surroundings.                                                           *)

(* Another peer publishes: an event is queued.                             *)
Queue ==
  /\ worker = "up" /\ ~queued
  /\ queued' = TRUE
  /\ UNCHANGED <<worker, agent, last_outbound, ping_sent, last_inbound, toAgent, toHub, turned, cut>>

(* The path is gone and no end is told: what is under way never arrives.   *)
Cut ==
  /\ ~cut /\ worker = "up" /\ agent = "up"
  /\ cut' = TRUE
  /\ toAgent' = {} /\ toHub' = {}
  /\ UNCHANGED <<worker, agent, last_outbound, ping_sent, last_inbound, queued, turned>>

Later(time, bound) == IF time < bound THEN time + 1 ELSE time

Tick ==
  /\ worker = "up" => turned
  /\ \A frame \in toAgent : frame.age < LatencyMax
  /\ \A age \in toHub : age < LatencyMax
  /\ worker = "up" \/ agent = "up"
  /\ turned' = FALSE
  /\ last_outbound' = Later(last_outbound, PingAfter)
  /\ ping_sent' = IF ping_sent = -1 THEN -1 ELSE Later(ping_sent, PongWithin)
  /\ last_inbound' = Later(last_inbound, SilenceTimeout)
  /\ toAgent' = {[frame EXCEPT !.age = @ + 1] : frame \in toAgent}
  /\ toHub' = {age + 1 : age \in toHub}
  /\ UNCHANGED <<worker, agent, queued, cut>>

(* Both ends are free of the connection, and the agent connects again.     *)
Reconnect ==
  /\ worker # "up" /\ agent # "up"
  /\ worker' = "up" /\ agent' = "up"
  /\ last_outbound' = 0 /\ ping_sent' = -1 /\ last_inbound' = 0
  /\ queued' = FALSE
  /\ toAgent' = {} /\ toHub' = {}
  /\ turned' = FALSE /\ cut' = FALSE

HeartNext ==
  \/ Turn \/ TimesOut \/ ReadPong \/ Reply
  \/ Receive \/ DropsSilent
  \/ Queue \/ Cut \/ Tick \/ Reconnect

(* Time passes, the worker goes round and the agent reads: these are loops *)
(* of threads of their own.                                                *)
HeartFairness ==
  /\ WF_heartVars(Tick) /\ WF_heartVars(Turn) /\ WF_heartVars(TimesOut)
  /\ WF_heartVars(Receive) /\ WF_heartVars(ReadPong) /\ WF_heartVars(DropsSilent)

HeartSpec == HeartInit /\ [][HeartNext]_heartVars /\ HeartFairness

----------------------------------------------------------------------------
(* No end gives up a connection whose path is whole, however the events,   *)
(* pings, replies and reads fall: "a healthy clip stream never stays       *)
(* silent for much more than 30 seconds" (crates/clipmesh-agent/src/lib.rs *)
(* lines 35-38), also with the shortest silence timeout it accepts.        *)
HealthyStaysUp == worker = "timed_out" \/ agent = "silent" => cut

(* When the path is gone, the agent drops the connection, and so does the  *)
(* hub unless there is no end of events for it, each of which it takes for *)
(* a sign that a ping is not needed.                                       *)
DeadIsDropped ==
  /\ cut ~> agent # "up"
  /\ <>[]~queued => (cut ~> worker # "up")
=============================================================================
