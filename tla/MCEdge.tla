------------------------------- MODULE MCEdge -------------------------------
(***************************************************************************)
(* Small instances of the hub's edge for TLC.  Connections that crowd in,  *)
(* sessions that talk and a daemon that restarts, all at once, make more   *)
(* states than TLC can visit: every behaviour has one of these themes.     *)
(* The buckets, the start of hubs and the names of peers, which share      *)
(* nothing with the rest, have themes of their own.                        *)
(***************************************************************************)
EXTENDS HubEdge, RateBucket, HubStart, PeerDirectory, TLC

CONSTANTS w1, w2, w3, p, q, Themes

VARIABLE theme

MCVars == <<edgeVars, bucketVars, hubStartVars, directoryVars, theme>>

(* Two slots of one peer, and one of another.                              *)
MCPeerOf == (w1 :> p) @@ (w2 :> p) @@ (w3 :> q)

MCInit ==
  /\ EdgeInit /\ BucketInit /\ HubStartInit /\ DirectoryInit
  /\ theme \in Themes
  /\ theme \notin {"attempts", "messages"} => now = 0

(* Who connects, and what it says.  Where TLC checks liveness, one of the  *)
(* two that talk only listens, to clips or, on a connection that transfers *)
(* files, to nothing at all.                                               *)
Joins ==
  [crowd |-> {w1, w2, w3}, talk |-> {w1, w3}, clips |-> {w1, w3}, notices |-> {w1, w3},
   files |-> {w1}, daemon |-> {w1}, daemons |-> {w1, w3}, attempts |-> {}, messages |-> {},
   start |-> {}, names |-> {}]

Says(w) ==
  CASE theme \in {"talk", "files"} -> Messages
    [] theme = "clips" -> IF w = w1 THEN {"resume"} ELSE {"resume", "publish"}
    [] theme = "notices" -> IF w = w1 THEN {} ELSE {"resume", "clear"}
    [] OTHER -> {}

(* What each carries: clips, or files.                                     *)
Holds ==
  \A w \in opened' :
    /\ theme = "clips" => ~files'[w]
    /\ theme = "notices" => (files'[w] <=> w = w1)

(* No connection of a steady theme breaks, and none has its daemon probed. *)
Steady == theme \in {"clips", "notices"}

MCHappens(w) ==
  IF Steady THEN Accept(w) \/ ReadRequest(w) \/ Claim(w) \/ Overdue(w) ELSE Happens(w)

MCTalks(w) ==
  \/ \E m \in Says(w) : AdmitText(w, m)
  \/ theme \in {"talk", "files"} /\ AdmitFile(w)

MCListens == theme \in {"files", "daemon", "daemons"} /\ Listens

MCEdgeNext ==
  /\ \/ theme \in {"daemon", "daemons"} /\ DaemonTurns
     \/ MCListens
     \/ \E w \in Joins[theme] :
          \/ MCHappens(w) \/ MCTalks(w)
          \/ Proceeds(w) \/ Drained(w) \/ Delivers(w)
          \/ ~Steady /\ (Probe(w) \/ Breaks(w))
  /\ Holds
  /\ Crosses

Asks ==
  \E t \in 0..TimeMax :
    \/ theme = "attempts" /\ Attempt(t)
    \/ theme = "messages" /\ \E publish \in BOOLEAN : Message(t, publish)

MCNext ==
  /\ \/ MCEdgeNext /\ UNCHANGED <<bucketVars, hubStartVars, directoryVars>>
     \/ Asks /\ UNCHANGED <<edgeVars, hubStartVars, directoryVars>>
     \/ theme = "start" /\ HubStartNext /\ UNCHANGED <<edgeVars, bucketVars, directoryVars>>
     \/ theme = "names" /\ DirectoryNext /\ UNCHANGED <<edgeVars, bucketVars, hubStartVars>>
  /\ UNCHANGED theme

(* HubEdge's fairness, of the steps that the theme has.                    *)
MCFairness ==
  /\ SF_edgeVars(MCListens /\ Crosses)
  /\ \A w \in Workers :
       /\ SF_edgeVars(Proceeds(w) /\ Crosses)
       /\ SF_edgeVars(~Steady /\ Probe(w) /\ Crosses)
       /\ SF_edgeVars(Drained(w) /\ Crosses)
  /\ \A w \in Readers : SF_edgeVars(Delivers(w) /\ Crosses)

MCSpec == MCInit /\ [][MCNext]_MCVars /\ MCFairness
=============================================================================
