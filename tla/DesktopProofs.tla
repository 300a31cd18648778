--------------------------- MODULE DesktopProofs ---------------------------
(***************************************************************************)
(* Proofs about the parts of a desktop, which share nothing in these       *)
(* models: the pasteboard of a Mac, the heartbeat of a clip stream, the    *)
(* start of the agent, the clipboard of a Wayland desktop and the loop     *)
(* that shows files.                                                       *)
(***************************************************************************)
EXTENDS FileLoop, LinuxClipboard, MacClipboard, Heartbeat, AgentStart,
        FiniteSetTheorems, TLAPS

----------------------------------------------------------------------------
(* MacClipboard.                                                           *)

MacSteps ==
  {"idle", "types", "bytes", "after", "paths", "current", "put", "count", "exited"}

MacTypeOK ==
  /\ put \in Seq(Values \cup {Empty}) /\ Len(put) > 0
  /\ puts \in BOOLEAN
  /\ step \in MacSteps
  /\ count_before \in 0..Len(put)
  /\ seen = [revision |-> seen.revision, types |-> seen.types,
             bytes |-> seen.bytes, paths |-> seen.paths]
  /\ seen.revision \in 0..Len(put)

(* What a read has so far is of the present selection unless that changed  *)
(* since the read began; and what was cleared has nothing put to it until  *)
(* the one program that owns it does so, once.                             *)
MacInv ==
  /\ MacTypeOK
  /\ puts => put[changeCount] = Empty
  /\ step = "put" /\ Unchanged => put[changeCount] = Empty /\ ~puts
  /\ Unchanged =>
       /\ step \in {"bytes", "after", "paths", "current"} => types \in {Empty, put[changeCount]}
       /\ step \in {"after", "paths", "current"} => bytes \in {Empty, put[changeCount]}
       /\ step = "current" => paths \in {Empty, put[changeCount]}
  /\ SnapshotsAreWhole

(* A step leaves each selection as it is, or puts to one that was cleared. *)
MacGrows ==
  /\ Len(put) <= Len(put')
  /\ \A i \in 1..Len(put) : put[i] = Empty \/ put'[i] = put[i]

LEMMA ClearsGrows ==
  ASSUME MacInv, Clears
  PROVE  /\ put' \in Seq(Values \cup {Empty})
         /\ Len(put') = Len(put) + 1
         /\ put'[Len(put')] = Empty
         /\ MacGrows
  BY DEF MacInv, MacTypeOK, Clears, MacGrows

LEMMA PutsGrows ==
  ASSUME MacInv, Puts, put[changeCount] = Empty
  PROVE  /\ put' \in Seq(Values \cup {Empty})
         /\ Len(put') = Len(put)
         /\ MacGrows
<1>1. PICK v \in Values : put' = [put EXCEPT ![Len(put)] = v]
  BY DEF Puts, changeCount
<1> QED
  BY <1>1 DEF MacInv, MacTypeOK, MacGrows, changeCount

LEMMA SeenStays ==
  ASSUME MacInv, MacGrows, UNCHANGED seen
  PROVE  SnapshotsAreWhole'
  BY DEF MacInv, MacTypeOK, MacGrows, SnapshotsAreWhole

LEMMA MacInvStep ==
  MacInv /\ [MacNext]_macVars => MacInv'
<1> SUFFICES ASSUME MacInv, [MacNext]_macVars  PROVE MacInv'
  OBVIOUS
<1> USE DEF changeCount
<1>1. CASE UserClears
  <2>1. Clears /\ puts' = TRUE /\ UNCHANGED <<step, reads, seen>>
    BY <1>1 DEF UserClears
  <2>2. ~Unchanged'
    BY <2>1, ClearsGrows DEF Unchanged, MacInv, MacTypeOK, reads
  <2> QED
    BY <2>1, <2>2, ClearsGrows, SeenStays DEF MacInv, MacTypeOK, reads
<1>2. CASE UserPuts
  <2>1. Puts /\ puts /\ puts' = FALSE /\ UNCHANGED <<step, reads, seen>>
    BY <1>2 DEF UserPuts
  <2>2. put[Len(put)] = Empty
    BY <2>1 DEF MacInv
  <2>3. ~(step = "put" /\ Unchanged)
    BY <2>1 DEF MacInv
  <2>4. Unchanged' <=> Unchanged
    BY <2>1, <2>2, PutsGrows DEF Unchanged, reads
  <2> QED
    BY <2>1, <2>2, <2>3, <2>4, PutsGrows, SeenStays DEF MacInv, MacTypeOK, reads, Unchanged
<1>3. CASE WriteClears
  <2>1. Clears /\ puts' = FALSE /\ step' = "put" /\ UNCHANGED <<types, bytes, paths, seen>>
        /\ count_before' = Len(put) + 1
    BY <1>3 DEF WriteClears
  <2>2. /\ put' \in Seq(Values \cup {Empty}) /\ Len(put') = Len(put) + 1
        /\ put'[Len(put')] = Empty
        /\ SnapshotsAreWhole'
    BY <2>1, ClearsGrows, SeenStays
  <2>3. Len(put) \in Nat /\ MacTypeOK
    BY DEF MacInv, MacTypeOK
  <2>4. count_before' \in 0..Len(put')
    BY <2>1, <2>2, <2>3
  <2>5. seen' = seen /\ seen'.revision \in 0..Len(put')
    BY <2>1, <2>2, <2>3 DEF MacTypeOK
  <2>6. MacTypeOK'
    <3>1. puts' \in BOOLEAN /\ step' \in MacSteps
      BY <2>1 DEF MacSteps
    <3> QED
      BY <2>2, <2>3, <2>4, <2>5, <3>1 DEF MacTypeOK
  <2> QED
    BY <2>1, <2>2, <2>6 DEF MacInv
<1>4. CASE WritePuts
  <2>1. CASE Unchanged
    <3>1. Puts /\ step' = "count" /\ UNCHANGED <<puts, reads, seen>>
      BY <1>4, <2>1 DEF WritePuts
    <3>2. put[Len(put)] = Empty /\ ~puts
      BY <1>4, <2>1 DEF WritePuts, MacInv
    <3> QED
      BY <3>1, <3>2, PutsGrows, SeenStays DEF MacInv, MacTypeOK, MacSteps, reads
  <2>2. CASE ~Unchanged
    BY <1>4, <2>2 DEF WritePuts, MacInv, MacTypeOK, MacSteps, reads, Unchanged, SnapshotsAreWhole
  <2> QED
    BY <2>1, <2>2
<1>5. CASE CountBefore
  BY <1>5 DEF CountBefore, Reads, MacInv, MacTypeOK, MacSteps, SnapshotsAreWhole
<1>6. CASE ReadTypes \/ ReadBytes \/ ReadFilePaths
  BY <1>6 DEF ReadTypes, ReadBytes, ReadFilePaths, Reads, MacInv, MacTypeOK, MacSteps,
              Unchanged, SnapshotsAreWhole
<1>7. CASE CountAfter \/ SnapshotOfFiles \/ FilesChanged \/ WriteCounts
  BY <1>7 DEF CountAfter, SnapshotOfFiles, FilesChanged, WriteCounts, Reads, reads, MacInv,
              MacTypeOK, MacSteps, Unchanged, SnapshotsAreWhole
<1>8. CASE TellText
  BY <1>8 DEF TellText, Reads, reads, MacInv, MacTypeOK, MacSteps, Unchanged, SnapshotsAreWhole
<1>9. CASE TellFiles
  BY <1>9 DEF TellFiles, Reads, reads, MacInv, MacTypeOK, MacSteps, Unchanged, SnapshotsAreWhole
<1>10. CASE UNCHANGED macVars
  BY <1>10 DEF macVars, reads, MacInv, MacTypeOK, Unchanged, SnapshotsAreWhole
<1> QED
  BY <1>1, <1>2, <1>3, <1>4, <1>5, <1>6, <1>7, <1>8, <1>9, <1>10 DEF MacNext

(* What an observation of the pasteboard tells is never put together from  *)
(* two selections, whatever other programs copy between the calls of the   *)
(* system that a read takes.                                               *)
THEOREM SnapshotsAlwaysWhole == MacSpec => []SnapshotsAreWhole
<1>1. ASSUME MacInit  PROVE MacInv
  <2>1. put = <<Empty>> /\ puts = FALSE /\ step = "idle" /\ count_before = 0 /\ seen = Nothing
    BY <1>1 DEF MacInit
  <2>2. put \in Seq(Values \cup {Empty}) /\ Len(put) = 1
    BY <2>1
  <2>3. seen.revision = 0 /\ seen = [revision |-> seen.revision, types |-> seen.types,
                                    bytes |-> seen.bytes, paths |-> seen.paths]
    BY <2>1 DEF Nothing
  <2>4. MacTypeOK
    <3>1. puts \in BOOLEAN /\ step \in MacSteps
      BY <2>1 DEF MacSteps
    <3> QED
      BY <2>1, <2>2, <2>3, <3>1 DEF MacTypeOK
  <2> QED
    BY <2>1, <2>3, <2>4 DEF MacInv, SnapshotsAreWhole
<1>2. MacInv => SnapshotsAreWhole
  BY DEF MacInv
<1> QED
  BY <1>1, <1>2, MacInvStep, PTL DEF MacSpec

----------------------------------------------------------------------------
(* Heartbeat.                                                              *)

HeartTypeOK ==
  /\ worker \in {"up", "timed_out", "closed"} /\ agent \in {"up", "silent", "closed"}
  /\ last_outbound \in 0..PingAfter
  /\ ping_sent \in -1..PongWithin
  /\ last_inbound \in 0..SilenceTimeout
  /\ queued \in BOOLEAN /\ turned \in BOOLEAN /\ cut \in BOOLEAN
  /\ toAgent \subseteq [ping : BOOLEAN, age : 0..LatencyMax]
  /\ toHub \subseteq 0..LatencyMax

(* A ping that the worker counts on is under way, or its pong is.          *)
PingIsUnderWay ==
  ping_sent # -1 =>
    \/ \E frame \in toAgent : frame.ping /\ ping_sent <= frame.age
    \/ \E age \in toHub : ping_sent <= age + LatencyMax

(* A frame under way was sent at most PingAfter + 1 after the agent last   *)
(* read one; with none under way, the agent's silence is no longer than    *)
(* the worker's, or is that of a pong.                                     *)
SilenceIsShort ==
  /\ toAgent # {} => \E frame \in toAgent : last_inbound <= PingAfter + 1 + frame.age
  /\ \A age \in toHub : last_inbound <= age
  /\ toAgent = {} /\ last_outbound < PingAfter => last_inbound <= last_outbound
  /\ toAgent = {} /\ ping_sent = -1 =>
       last_inbound <= (IF turned THEN PingAfter ELSE PingAfter + 1)

HeartInv ==
  /\ HeartTypeOK
  /\ cut \/ /\ worker = "up" /\ agent = "up"
            /\ PingIsUnderWay
            /\ SilenceIsShort

LEMMA HeartBounds ==
  ASSUME HeartInv, ~cut
  PROVE  /\ last_inbound < SilenceTimeout
         /\ ping_sent < PongWithin
         /\ toAgent = {} => last_inbound <= PingAfter + 1
<1> USE HeartbeatAssumption DEF HeartInv, HeartTypeOK
<1>1. ping_sent < PongWithin
  <2>1. ASSUME NEW frame \in toAgent, ping_sent <= frame.age  PROVE ping_sent < PongWithin
    BY <2>1
  <2>2. ASSUME NEW age \in toHub, ping_sent <= age + LatencyMax  PROVE ping_sent < PongWithin
    BY <2>2
  <2> QED
    BY <2>1, <2>2 DEF PingIsUnderWay
<1>2. ASSUME toAgent = {}  PROVE last_inbound <= PingAfter + 1
  <2>1. CASE ping_sent = -1
    BY <1>2, <2>1 DEF SilenceIsShort
  <2>2. CASE ping_sent # -1
    <3>1. PICK age \in toHub : TRUE
      BY <1>2, <2>2 DEF PingIsUnderWay
    <3> QED
      BY <3>1 DEF SilenceIsShort
  <2> QED
    BY <2>1, <2>2
<1>3. ASSUME toAgent # {}  PROVE last_inbound <= PingAfter + 1 + LatencyMax
  BY <1>3 DEF SilenceIsShort
<1>4. last_inbound < SilenceTimeout
  BY <1>2, <1>3
<1> QED
  BY <1>1, <1>2, <1>4

LEMMA HeartTypeStep ==
  HeartTypeOK /\ [HeartNext]_heartVars => HeartTypeOK'
<1> SUFFICES ASSUME HeartTypeOK, [HeartNext]_heartVars  PROVE HeartTypeOK'
  OBVIOUS
<1> DEFINE Frames == [ping : BOOLEAN, age : 0..LatencyMax]
<1>1. /\ worker' \in {"up", "timed_out", "closed"} /\ agent' \in {"up", "silent", "closed"}
      /\ queued' \in BOOLEAN /\ turned' \in BOOLEAN /\ cut' \in BOOLEAN
  BY DEF HeartTypeOK, HeartNext, heartVars, Turn, TimesOut, ReadPong, Reply, Receive, DropsSilent,
         Queue, Cut, Tick, Reconnect
<1>2. ASSUME NEW n, NEW b \in Nat, n \in 0..b  PROVE Later(n, b) \in 0..b
  BY <1>2 DEF Later
<1>3. /\ last_outbound \in 0..PingAfter /\ ping_sent \in -1..PongWithin
      /\ last_inbound \in 0..SilenceTimeout
      /\ PingAfter \in Nat /\ PongWithin \in Nat /\ SilenceTimeout \in Nat /\ LatencyMax \in Nat
      /\ toAgent \subseteq Frames /\ toHub \subseteq 0..LatencyMax
  BY HeartbeatAssumption DEF HeartTypeOK
<1>4. last_outbound' \in 0..PingAfter
  <2>1. last_outbound' \in {0, last_outbound, Later(last_outbound, PingAfter)}
    BY DEF HeartNext, heartVars, Turn, TimesOut, ReadPong, Reply, Receive, DropsSilent, Queue, Cut,
           Tick, Reconnect
  <2> QED
    BY <2>1, <1>2, <1>3
<1>5. last_inbound' \in 0..SilenceTimeout
  <2>1. last_inbound' \in {0, last_inbound, Later(last_inbound, SilenceTimeout)}
    BY DEF HeartNext, heartVars, Turn, TimesOut, ReadPong, Reply, Receive, DropsSilent, Queue, Cut,
           Tick, Reconnect
  <2> QED
    BY <2>1, <1>2, <1>3
<1>6. ping_sent' \in -1..PongWithin
  <2>1. \/ ping_sent' \in {0, -1, ping_sent}
        \/ ping_sent # -1 /\ ping_sent' = Later(ping_sent, PongWithin)
    BY DEF HeartNext, heartVars, Turn, TimesOut, ReadPong, PongNoted, Reply, Receive, DropsSilent,
           Queue, Cut, Tick, Reconnect
  <2>2. ping_sent # -1 => ping_sent \in 0..PongWithin
    BY <1>3
  <2> QED
    BY <2>1, <2>2, <1>2, <1>3
<1>7. toAgent' \subseteq Frames
  <2>1. [ping |-> FALSE, age |-> 0] \in Frames /\ [ping |-> TRUE, age |-> 0] \in Frames
    BY <1>3
  <2>2. CASE Tick
    <3>1. toAgent' = {[frame EXCEPT !.age = @ + 1] : frame \in toAgent}
      BY <2>2 DEF Tick
    <3>2. ASSUME NEW frame \in toAgent  PROVE [frame EXCEPT !.age = @ + 1] \in Frames
      <4>1. frame \in Frames /\ frame.age < LatencyMax
        BY <2>2, <1>3 DEF Tick
      <4> QED
        BY <4>1, <1>3
    <3> QED
      BY <3>1, <3>2
  <2> HIDE DEF Frames
  <2>3. CASE ~Tick
    <3>1. \/ toAgent' \subseteq toAgent
          \/ \E b \in BOOLEAN : toAgent' \in {{}, toAgent \cup {[ping |-> b, age |-> 0]}}
      BY <2>3 DEF HeartNext, heartVars, Turn, TimesOut, ReadPong, Reply, Receive, DropsSilent,
                  Queue, Cut, Reconnect, Sends
    <3> QED
      BY <3>1, <2>1, <1>3
  <2> QED
    BY <2>2, <2>3
<1>8. toHub' \subseteq 0..LatencyMax
  <2>1. CASE Tick
    BY <2>1, <1>3 DEF Tick
  <2>2. CASE ~Tick
    <3>1. toHub' \subseteq toHub \cup {0}
      BY <2>2 DEF HeartNext, heartVars, Turn, TimesOut, ReadPong, Reply, Receive, DropsSilent,
                  Queue, Cut, Reconnect
    <3> QED
      BY <3>1, <1>3
  <2> QED
    BY <2>1, <2>2
<1> QED
  BY <1>1, <1>4, <1>5, <1>6, <1>7, <1>8 DEF HeartTypeOK

LEMMA HeartInvStep ==
  HeartInv /\ [HeartNext]_heartVars => HeartInv'
<1> SUFFICES ASSUME HeartInv, [HeartNext]_heartVars  PROVE HeartInv'
  OBVIOUS
<1>1. HeartTypeOK /\ HeartTypeOK'
  BY HeartTypeStep DEF HeartInv
<1> SUFFICES ASSUME ~cut'
             PROVE  worker' = "up" /\ agent' = "up" /\ PingIsUnderWay' /\ SilenceIsShort'
  BY <1>1 DEF HeartInv
<1>2. CASE Reconnect
  BY <1>2, HeartbeatAssumption DEF Reconnect, PingIsUnderWay, SilenceIsShort
<1>3. ASSUME ~Reconnect  PROVE ~cut /\ worker = "up" /\ agent = "up" /\ PingIsUnderWay /\ SilenceIsShort
  BY <1>3 DEF HeartInv, HeartNext, heartVars, Turn, TimesOut, ReadPong, Reply, Receive, DropsSilent,
              Queue, Cut, Tick
<1> SUFFICES ASSUME ~Reconnect
             PROVE  worker' = "up" /\ agent' = "up" /\ PingIsUnderWay' /\ SilenceIsShort'
  BY <1>2
<1>4. /\ last_inbound < SilenceTimeout /\ ping_sent < PongWithin
      /\ toAgent = {} => last_inbound <= PingAfter + 1
  BY <1>3, HeartBounds
<1>5. ~TimesOut /\ ~DropsSilent /\ ~Cut
  <2>1. ~(ping_sent >= PongWithin) /\ ~(last_inbound >= SilenceTimeout)
    BY <1>1, <1>4, HeartbeatAssumption DEF HeartTypeOK
  <2> QED
    BY <2>1 DEF TimesOut, GivesUp, DropsSilent, Silent, Cut
<1>6. ASSUME NEW f, f.age = 0, toAgent' = toAgent \cup {f}, UNCHANGED <<last_inbound, toHub>>
      PROVE  /\ \E frame \in toAgent' : last_inbound' <= PingAfter + 1 + frame.age
             /\ toAgent' # {}
  <2>1. CASE toAgent = {}
    BY <1>6, <2>1, <1>4, <1>1, HeartbeatAssumption DEF HeartTypeOK
  <2>2. CASE toAgent # {}
    BY <1>6, <2>2, <1>3 DEF SilenceIsShort
  <2> QED
    BY <2>1, <2>2
<1>7. CASE Turn
  <2>1. worker' = "up" /\ agent' = "up" /\ UNCHANGED <<last_inbound, toHub>> /\ turned' = TRUE
    BY <1>7, <1>3 DEF Turn
  <2>2. CASE queued
    <3>1. toAgent' = toAgent \cup {[ping |-> FALSE, age |-> 0]} /\ last_outbound' = 0 /\ ping_sent' = -1
      BY <1>7, <2>2, <1>3 DEF Turn, Sends
    <3> QED
      BY <3>1, <2>1, <1>3, <1>6 DEF PingIsUnderWay, SilenceIsShort
  <2>3. CASE ~queued /\ PingDue(last_outbound)
    <3>1. toAgent' = toAgent \cup {[ping |-> TRUE, age |-> 0]} /\ last_outbound' = 0 /\ ping_sent' = 0
      BY <1>7, <2>3, <1>3 DEF Turn, Sends
    <3>2. PingIsUnderWay'
      <4>1. /\ [ping |-> TRUE, age |-> 0] \in toAgent'
            /\ [ping |-> TRUE, age |-> 0].ping /\ ping_sent' <= [ping |-> TRUE, age |-> 0].age
        BY <3>1
      <4> QED
        BY <4>1, Zenon DEF PingIsUnderWay
    <3> QED
      BY <3>1, <3>2, <2>1, <1>3, <1>6 DEF SilenceIsShort
  <2>4. CASE ~queued /\ ~PingDue(last_outbound)
    <3>1. UNCHANGED <<toAgent, last_outbound, ping_sent>>
      BY <1>7, <2>4 DEF Turn
    <3>2. ping_sent = -1 => last_outbound < PingAfter
      BY <2>4, <1>1, HeartbeatAssumption DEF PingDue, HeartTypeOK
    <3> QED
      BY <3>1, <3>2, <2>1, <1>3, <1>1, HeartbeatAssumption DEF PingIsUnderWay, SilenceIsShort, HeartTypeOK
  <2> QED
    BY <2>2, <2>3, <2>4
<1>8. CASE ReadPong
  <2>1. PICK age \in toHub : toHub' = toHub \ {age}
    BY <1>8 DEF ReadPong
  <2>2. last_inbound <= age /\ age <= LatencyMax
    BY <1>3, <1>1, <2>1, HeartbeatAssumption DEF SilenceIsShort, HeartTypeOK
  <2> QED
    BY <1>8, <2>1, <2>2, <1>3, <1>1, HeartbeatAssumption
       DEF ReadPong, PongNoted, PingIsUnderWay, SilenceIsShort, HeartTypeOK
<1>9. CASE Reply
  <2>1. toAgent' = toAgent \cup {[ping |-> FALSE, age |-> 0]}
    BY <1>9, <1>3 DEF Reply, Sends
  <2> QED
    BY <1>9, <2>1, <1>3, <1>6 DEF Reply, PingIsUnderWay, SilenceIsShort
<1>10. CASE Receive
  <2>1. PICK frame \in toAgent : /\ toAgent' = toAgent \ {frame}
                                 /\ toHub' = IF frame.ping THEN toHub \cup {0} ELSE toHub
    BY <1>10 DEF Receive
  <2>2. UNCHANGED <<worker, agent, last_outbound, ping_sent, turned>> /\ last_inbound' = 0
    BY <1>10 DEF Receive
  <2>3. PingIsUnderWay'
    <3>1. ASSUME NEW f \in toAgent, f.ping, ping_sent <= f.age
          PROVE  PingIsUnderWay'
      <4>1. CASE f = frame
        <5>1. 0 \in toHub'
          BY <3>1, <4>1, <2>1
        <5>2. ping_sent' <= 0 + LatencyMax
          BY <3>1, <2>2, <1>1, HeartbeatAssumption DEF HeartTypeOK
        <5> QED
          BY <5>1, <5>2 DEF PingIsUnderWay
      <4>2. CASE f # frame
        BY <3>1, <4>2, <2>1, <2>2 DEF PingIsUnderWay
      <4> QED
        BY <4>1, <4>2
    <3> QED
      BY <3>1, <1>3, <2>1, <2>2 DEF PingIsUnderWay
  <2>4. SilenceIsShort'
    BY <2>1, <2>2, <1>1, HeartbeatAssumption DEF SilenceIsShort, HeartTypeOK
  <2> QED
    BY <2>2, <2>3, <2>4, <1>3
<1>11. CASE Queue
  BY <1>11, <1>3 DEF Queue, PingIsUnderWay, SilenceIsShort
<1>12. CASE Tick
  <2>1. /\ UNCHANGED <<worker, agent>> /\ turned = TRUE /\ turned' = FALSE
        /\ toAgent' = {[frame EXCEPT !.age = @ + 1] : frame \in toAgent}
        /\ toHub' = {age + 1 : age \in toHub}
        /\ last_inbound' = last_inbound + 1
        /\ last_outbound' = IF last_outbound < PingAfter THEN last_outbound + 1 ELSE last_outbound
        /\ ping_sent' = IF ping_sent = -1 THEN -1 ELSE ping_sent + 1
    BY <1>12, <1>3, <1>4, <1>1, HeartbeatAssumption DEF Tick, Later, HeartTypeOK
  <2>2. \A frame \in toAgent : /\ [frame EXCEPT !.age = @ + 1] \in toAgent'
                               /\ [frame EXCEPT !.age = @ + 1].age = frame.age + 1
                               /\ [frame EXCEPT !.age = @ + 1].ping = frame.ping
    BY <2>1, <1>1 DEF HeartTypeOK
  <2>3. PingIsUnderWay'
    <3> SUFFICES ASSUME ping_sent' # -1  PROVE PingIsUnderWay'
      BY DEF PingIsUnderWay
    <3>1. ping_sent # -1 /\ ping_sent' = ping_sent + 1
      BY <2>1
    <3>2. ASSUME NEW frame \in toAgent, frame.ping, ping_sent <= frame.age
          PROVE  PingIsUnderWay'
      <4>1. PICK later \in toAgent' : later.age = frame.age + 1 /\ later.ping = frame.ping
        BY <2>2
      <4>2. later.ping /\ ping_sent' <= later.age
        BY <3>1, <3>2, <4>1, <1>1, HeartbeatAssumption DEF HeartTypeOK
      <4> QED
        BY <4>2 DEF PingIsUnderWay
    <3>3. ASSUME NEW age \in toHub, ping_sent <= age + LatencyMax
          PROVE  PingIsUnderWay'
      <4>1. age + 1 \in toHub'
        BY <2>1
      <4>2. ping_sent' <= (age + 1) + LatencyMax
        BY <3>1, <3>3, <1>1, HeartbeatAssumption DEF HeartTypeOK
      <4> QED
        BY <4>1, <4>2 DEF PingIsUnderWay
    <3> QED
      BY <3>1, <3>2, <3>3, <1>3 DEF PingIsUnderWay
  <2>4. toAgent' = {} <=> toAgent = {}
    BY <2>1
  <2>5. SilenceIsShort'
    <3>1. ASSUME toAgent' # {}
          PROVE  \E frame \in toAgent' : last_inbound' <= PingAfter + 1 + frame.age
      <4>1. PICK frame \in toAgent : last_inbound <= PingAfter + 1 + frame.age
        BY <3>1, <2>4, <1>3 DEF SilenceIsShort
      <4>2. PICK later \in toAgent' : later.age = frame.age + 1
        BY <2>2
      <4>3. last_inbound' <= PingAfter + 1 + later.age
        BY <2>1, <4>1, <4>2, <1>1, HeartbeatAssumption DEF HeartTypeOK
      <4> QED
        BY <4>3
    <3>2. \A age \in toHub' : last_inbound' <= age
      BY <2>1, <1>3, <1>1, HeartbeatAssumption DEF SilenceIsShort, HeartTypeOK
    <3>3. ASSUME toAgent' = {}, last_outbound' < PingAfter  PROVE last_inbound' <= last_outbound'
      BY <3>3, <2>1, <2>4, <1>3, <1>1, HeartbeatAssumption DEF SilenceIsShort, HeartTypeOK
    <3>4. ASSUME toAgent' = {}, ping_sent' = -1  PROVE last_inbound' <= PingAfter + 1
      BY <3>4, <2>1, <2>4, <1>3, <1>1, HeartbeatAssumption DEF SilenceIsShort, HeartTypeOK
    <3> QED
      BY <2>1, <3>1, <3>2, <3>3, <3>4 DEF SilenceIsShort
  <2> QED
    BY <2>1, <2>3, <2>5, <1>3
<1>13. CASE UNCHANGED heartVars
  BY <1>13, <1>3 DEF heartVars, PingIsUnderWay, SilenceIsShort
<1> QED
  BY <1>5, <1>7, <1>8, <1>9, <1>10, <1>11, <1>12, <1>13 DEF HeartNext

(* Neither end gives up a connection whose path is whole, for any time     *)
(* limits of the code and any latency that the assumption allows.          *)
THEOREM HealthyAlwaysUp == HeartSpec => []HealthyStaysUp
<1>1. ASSUME HeartInit  PROVE HeartInv
  <2>1. HeartTypeOK
    <3>1. queued \in BOOLEAN /\ turned \in BOOLEAN /\ cut \in BOOLEAN
      BY <1>1 DEF HeartInit
    <3>2. /\ last_outbound \in 0..PingAfter /\ ping_sent \in -1..PongWithin
          /\ last_inbound \in 0..SilenceTimeout
      BY <1>1, HeartbeatAssumption DEF HeartInit
    <3> QED
      BY <1>1, <3>1, <3>2 DEF HeartInit, HeartTypeOK
  <2>2. PingIsUnderWay /\ SilenceIsShort
    BY <1>1, HeartbeatAssumption DEF HeartInit, PingIsUnderWay, SilenceIsShort
  <2> QED
    BY <1>1, <2>1, <2>2 DEF HeartInit, HeartInv
<1>2. HeartInv => HealthyStaysUp
  BY DEF HeartInv, HealthyStaysUp
<1> QED
  BY <1>1, <1>2, HeartInvStep, PTL DEF HeartSpec

----------------------------------------------------------------------------
(* AgentStart.                                                             *)

Sockets == [owner : Processes, private : BOOLEAN]

Stages == Starting \cup Listening \cup {"down", "refused"}

StartTypeOK ==
  /\ store \in {"absent", "empty", "versioned", "read", "whole"}
  /\ stage \in [Processes -> Stages]
  /\ path \in Sockets \cup {Nobody}
  /\ torn \in BOOLEAN /\ raced \in BOOLEAN
  /\ alone \in Processes \cup {Nobody}

(* At most one process creates the store: it must make a new file.         *)
OneCreates ==
  \A p \in Processes : stage[p] = "creating" =>
    /\ store \in {"empty", "versioned", "read"}
    /\ \A q \in Processes : stage[q] = "creating" => q = p

(* What is removed is what was found, and a socket that was bound is at    *)
(* the path until its process leaves.                                      *)
PathIsKept ==
  \A p \in Processes :
    /\ stage[p] = "removing" => Abandoned /\ \A q \in Processes : stage[q] = "removing" => q = p
    /\ stage[p] = "protecting" => path = [owner |-> p, private |-> FALSE]
    /\ stage[p] \in {"checking", "serving", "reading", "leaving"} =>
         path = [owner |-> p, private |-> TRUE]

OpenSocketIsTorn ==
  path # Nobody => path.private \/ torn \/ stage[path.owner] = "protecting"

HalfStoreIsTorn ==
  store \in {"empty", "versioned"} => torn \/ \E p \in Processes : stage[p] = "creating"

(* What a start that no other overlaps has found is still so.              *)
AloneIsUndisturbed ==
  alone # Nobody =>
    /\ ~raced
    /\ \A q \in Processes : IsRunning(q) => q = alone
    /\ stage[alone] = "making" => store = "absent"
    /\ stage[alone] = "connecting" => path # Nobody
    /\ stage[alone] = "binding" => path = Nobody

StartInv ==
  /\ StartTypeOK /\ OneCreates /\ (~raced => PathIsKept)
  /\ OpenSocketIsTorn /\ HalfStoreIsTorn /\ AloneIsUndisturbed

LEMMA SocketsDiffer ==
  ASSUME NEW p \in Processes, NEW b \in BOOLEAN
  PROVE  /\ [owner |-> p, private |-> b] \in Sockets
         /\ [owner |-> p, private |-> b] # Nobody
         /\ [owner |-> p, private |-> b].owner = p
         /\ [owner |-> p, private |-> b].private = b
  BY AgentStartAssumption DEF Sockets

LEMMA PathLeadsTo ==
  ASSUME NEW p \in Processes, NEW b \in BOOLEAN, path = [owner |-> p, private |-> b]
  PROVE  path # Nobody /\ path.owner = p /\ path.private = b
  BY SocketsDiffer

ProcessStep(p) ==
  \/ Start(p) \/ FindNoStore(p) \/ CreateFile(p) \/ CreateSchema(p) \/ OpenStore(p)
  \/ FindNothing(p) \/ FindSocket(p) \/ TryConnect(p) \/ RemoveSocket(p)
  \/ Bind(p) \/ Protect(p) \/ Check(p)
  \/ TryAccept(p) \/ ServiceControl(p) \/ DropClient(p)
  \/ Leave(p) \/ RemovePath(p) \/ Close(p) \/ Kill(p)

(* A step of a process changes the stage of no other, and a step of a      *)
(* client changes nothing that the invariant speaks of.                    *)
LEMMA StageMoves ==
  ASSUME StartTypeOK, NEW p \in Processes, ProcessStep(p)
  PROVE  \E to \in Stages :
           /\ stage' = [stage EXCEPT ![p] = to] /\ stage'[p] = to
           /\ \A q \in Processes : q # p => stage'[q] = stage[q]
<1>1. stage \in [Processes -> Stages]
  BY DEF StartTypeOK
<1>2. \E to \in Stages : stage' = [stage EXCEPT ![p] = to]
  BY <1>1 DEF ProcessStep, Goes, Start, FindNoStore, CreateFile, CreateSchema, OpenStore, FindNothing,
       FindSocket, TryConnect, RemoveSocket, Bind, Protect, Check, TryAccept, ServiceControl, DropClient,
       Leave, RemovePath, Close, Kill, Stages, Starting, Listening
<1> QED
  BY <1>1, <1>2

LEMMA StepIsOfProcess ==
  ASSUME [StartNext]_startVars
  PROVE  (\E p \in Processes : ProcessStep(p)) \/ UNCHANGED <<store, path, stage, histVars>>
  BY DEF StartNext, ProcessStep, startVars, ConnectClient, SendCommand

LEMMA TornStays ==
  ASSUME NEW p \in Processes, ProcessStep(p), torn  PROVE torn'
<1>1. CASE Kill(p)
  BY <1>1 DEF Kill
<1>2. CASE ~Kill(p)
  <2>1. UNCHANGED torn
    BY <1>2
       DEF ProcessStep, histVars, Start, FindNoStore, CreateFile, CreateSchema, OpenStore, FindNothing,
           FindSocket, TryConnect, RemoveSocket, Bind, Protect, Check, TryAccept, ServiceControl,
           DropClient, Leave, RemovePath, Close
  <2> QED
    BY <2>1
<1> QED
  BY <1>1, <1>2

LEMMA StartTypeStep ==
  ASSUME StartInv, NEW p \in Processes, ProcessStep(p)  PROVE StartTypeOK'
<1>0. StartTypeOK /\ OneCreates
  BY DEF StartInv
<1>1. torn' \in BOOLEAN /\ raced' \in BOOLEAN
  <2>1. UNCHANGED torn \/ Kill(p)
    BY DEF ProcessStep, histVars, Start, FindNoStore, CreateFile, CreateSchema, OpenStore, FindNothing,
           FindSocket, TryConnect, RemoveSocket, Bind, Protect, Check, TryAccept, ServiceControl,
           DropClient, Leave, RemovePath, Close
  <2>2. UNCHANGED raced \/ Start(p) \/ TryConnect(p)
    BY DEF ProcessStep, histVars, FindNoStore, CreateFile, CreateSchema, OpenStore, FindNothing,
           FindSocket, RemoveSocket, Bind, Protect, Check, TryAccept, ServiceControl,
           DropClient, Leave, RemovePath, Close, Kill
  <2> QED
    BY <2>1, <2>2, <1>0 DEF StartTypeOK, Kill, Start, TryConnect
<1>2. store' \in {"absent", "empty", "versioned", "read", "whole"}
  <2>1. CASE CreateSchema(p)
    <3>1. store \in {"empty", "versioned", "read"} /\ store' = After(store)
      BY <2>1, <1>0 DEF CreateSchema, OneCreates, Goes
    <3> QED
      BY <3>1 DEF After
  <2>2. CASE ~CreateSchema(p)
    BY <2>2, <1>0 DEF StartTypeOK, ProcessStep, Start, FindNoStore, CreateFile, OpenStore, FindNothing,
           FindSocket, TryConnect, RemoveSocket, Bind, Protect, Check, TryAccept, ServiceControl,
           DropClient, Leave, RemovePath, Close, Kill
  <2> QED
    BY <2>1, <2>2
<1>3. path' \in Sockets \cup {Nobody}
  <2>1. CASE Protect(p)
    BY <2>1, <1>0 DEF Protect, StartTypeOK, Sockets
  <2>2. CASE ~Protect(p)
    <3>1. path' \in {path, Nobody, [owner |-> p, private |-> FALSE]}
      BY <2>2 DEF ProcessStep, Start, FindNoStore, CreateFile, CreateSchema, OpenStore, FindNothing,
             FindSocket, TryConnect, RemoveSocket, Bind, Check, TryAccept, ServiceControl,
             DropClient, Leave, RemovePath, Close, Kill
    <3> QED
      BY <3>1, <1>0, SocketsDiffer DEF StartTypeOK
  <2> QED
    BY <2>1, <2>2
<1>4. stage' \in [Processes -> Stages]
  BY <1>0, StageMoves DEF StartTypeOK
<1>5. alone' \in Processes \cup {Nobody}
  <2>1. alone' \in {alone, p, Nobody}
    BY DEF ProcessStep, histVars, Start, FindNoStore, CreateFile, CreateSchema, OpenStore, FindNothing,
           FindSocket, TryConnect, RemoveSocket, Bind, Protect, Check, TryAccept, ServiceControl,
           DropClient, Leave, RemovePath, Close, Kill
  <2> QED
    BY <2>1, <1>0 DEF StartTypeOK
<1> QED
  BY <1>1, <1>2, <1>3, <1>4, <1>5 DEF StartTypeOK

LEMMA OneCreatesStep ==
  ASSUME StartInv, NEW p \in Processes, ProcessStep(p)  PROVE OneCreates'
<1>0. StartTypeOK /\ OneCreates
  BY DEF StartInv
<1>1. PICK to \in Stages :
        stage'[p] = to /\ \A q \in Processes : q # p => stage'[q] = stage[q]
  BY <1>0, StageMoves
<1>2. CASE CreateFile(p) /\ store = "absent"
  <2>1. \A q \in Processes : stage[q] # "creating"
    BY <1>0, <1>2 DEF OneCreates
  <2> QED
    BY <1>1, <1>2, <2>1 DEF CreateFile, OneCreates
<1>3. CASE CreateSchema(p)
  <2>1. stage[p] = "creating" /\ store' = After(store) /\ store \in {"empty", "versioned", "read"}
    BY <1>3, <1>0 DEF CreateSchema, OneCreates, Goes
  <2>2. \A q \in Processes : stage[q] = "creating" => q = p
    BY <2>1, <1>0 DEF OneCreates
  <2>3. store = "read" => stage'[p] = "probing"
    BY <1>3, <1>0 DEF CreateSchema, Goes, StartTypeOK
  <2>4. store # "read" => store' \in {"versioned", "read"}
    BY <2>1 DEF After
  <2> QED
    BY <1>1, <2>2, <2>3, <2>4 DEF OneCreates
<1>4. CASE ~(CreateFile(p) /\ store = "absent") /\ ~CreateSchema(p)
  <2>1. UNCHANGED store /\ (stage'[p] = "creating" => stage[p] = "creating")
    BY <1>0, <1>4
       DEF StartTypeOK, ProcessStep, Goes, Start, FindNoStore, CreateFile, OpenStore, FindNothing,
           FindSocket, TryConnect, RemoveSocket, Bind, Protect, Check, TryAccept, ServiceControl,
           DropClient, Leave, RemovePath, Close, Kill
  <2> QED
    BY <1>0, <1>1, <2>1 DEF OneCreates
<1> QED
  BY <1>2, <1>3, <1>4

(* While a process that bound its socket has not removed it, no other has  *)
(* and none is about to remove one.                                        *)
LEMMA PathIsOfOne ==
  ASSUME StartTypeOK, PathIsKept, NEW p \in Processes,
         stage[p] \in {"protecting", "checking", "serving", "reading", "leaving"}
  PROVE  /\ path # Nobody /\ path.owner = p /\ ~Abandoned
         /\ \A q \in Processes : q # p =>
              stage[q] \notin {"removing", "protecting", "checking", "serving", "reading", "leaving"}
<1>1. path # Nobody /\ path.owner = p
  <2>1. PICK b \in BOOLEAN : path = [owner |-> p, private |-> b]
    BY DEF PathIsKept
  <2> QED
    BY <2>1, PathLeadsTo
<1>2. ~Abandoned
  BY <1>1 DEF Abandoned, Listens, Listening
<1>3. ASSUME NEW q \in Processes, stage[q] \in {"protecting", "checking", "serving", "reading", "leaving"}
      PROVE  q = p
  <2>1. PICK b \in BOOLEAN : path = [owner |-> q, private |-> b]
    BY <1>3 DEF PathIsKept
  <2>2. path.owner = q
    BY <2>1, PathLeadsTo
  <2> QED
    BY <2>2, <1>1
<1> QED
  BY <1>1, <1>2, <1>3 DEF PathIsKept

LEMMA PathIsKeptStep ==
  ASSUME StartInv, NEW p \in Processes, ProcessStep(p), ~raced'  PROVE PathIsKept'
<1>0. StartTypeOK /\ (~raced => PathIsKept)
  BY DEF StartInv
<1>1. PICK to \in Stages :
        stage'[p] = to /\ \A q \in Processes : q # p => stage'[q] = stage[q]
  BY <1>0, StageMoves
<1>2. CASE raced
  <2>1. Start(p)
    BY <1>2 DEF ProcessStep, histVars, FindNoStore, CreateFile, CreateSchema, OpenStore, FindNothing,
           FindSocket, TryConnect, RemoveSocket, Bind, Protect, Check, TryAccept, ServiceControl,
           DropClient, Leave, RemovePath, Close, Kill
  <2>2. \A q \in Processes : q # p => stage[q] \in {"down", "refused"}
    BY <1>2, <2>1 DEF Start, IsRunning
  <2>3. stage'[p] = "looking"
    BY <2>1, <1>0 DEF Start, Goes, StartTypeOK
  <2> QED
    BY <1>1, <2>2, <2>3 DEF PathIsKept
<1>3. CASE ~raced
  <2>0. PathIsKept
    BY <1>0, <1>3
  <2>1. CASE TryConnect(p) /\ Abandoned
    <3>1. \A q \in Processes : stage[q] # "removing"
      BY <2>1 DEF TryConnect
    <3>2. stage'[p] = "removing" /\ UNCHANGED path
      BY <2>1, <1>0 DEF TryConnect, Goes, StartTypeOK
    <3>3. \A q \in Processes :
            stage[q] \notin {"protecting", "checking", "serving", "reading", "leaving"}
      BY <2>0, <2>1, <1>0, PathIsOfOne
    <3>4. path \in Sockets /\ path # Nobody /\ stage[path.owner] \notin Listening
      BY <2>1, <1>0 DEF Abandoned, Listens, StartTypeOK
    <3>5. path.owner \in Processes
      BY <3>4 DEF Sockets
    <3>6. Abandoned'
      BY <3>2, <3>4, <3>5, <1>1 DEF Abandoned, Listens, Listening
    <3> QED
      BY <3>1, <3>2, <3>3, <3>6, <1>1 DEF PathIsKept
  <2>2. CASE RemoveSocket(p)
    <3>1. Abandoned /\ path # Nobody /\ \A q \in Processes : stage[q] = "removing" => q = p
      BY <2>2, <2>0 DEF RemoveSocket, Goes, PathIsKept, Abandoned
    <3>2. \A q \in Processes :
            stage[q] \notin {"protecting", "checking", "serving", "reading", "leaving"}
      BY <2>0, <3>1, <1>0, PathIsOfOne
    <3>3. stage'[p] = "binding"
      BY <2>2, <3>1, <1>0 DEF RemoveSocket, Goes, StartTypeOK
    <3> QED
      BY <3>1, <3>2, <3>3, <1>1 DEF PathIsKept
  <2>3. CASE Bind(p) /\ path = Nobody
    <3>1. \A q \in Processes :
            stage[q] \notin {"removing", "protecting", "checking", "serving", "reading", "leaving"}
      BY <2>0, <2>3, <1>0, PathIsOfOne DEF PathIsKept, Abandoned
    <3>2. stage'[p] = "protecting" /\ path' = [owner |-> p, private |-> FALSE]
      BY <2>3, <1>0 DEF Bind, Goes, StartTypeOK
    <3> QED
      BY <3>1, <3>2, <1>1 DEF PathIsKept
  <2>4. CASE Protect(p)
    <3>1. stage[p] = "protecting" /\ path = [owner |-> p, private |-> FALSE] /\ path # Nobody
      BY <2>4, <2>0, PathLeadsTo DEF Protect, Goes, PathIsKept
    <3>2. \A q \in Processes : q # p =>
            stage[q] \notin {"removing", "protecting", "checking", "serving", "reading", "leaving"}
      BY <3>1, <2>0, <1>0, PathIsOfOne
    <3>3. stage'[p] = "checking" /\ path' = [path EXCEPT !.private = TRUE]
      BY <2>4, <3>1, <1>0 DEF Protect, Goes, StartTypeOK
    <3>4. path' = [owner |-> p, private |-> TRUE]
      BY <3>1, <3>3
    <3> QED
      BY <3>2, <3>3, <3>4, <1>1 DEF PathIsKept
  <2>5. CASE Check(p)
    <3>1. stage[p] = "checking" /\ path = [owner |-> p, private |-> TRUE]
      BY <2>5, <2>0 DEF Check, Goes, PathIsKept
    <3>2. \A q \in Processes : q # p =>
            stage[q] \notin {"removing", "protecting", "checking", "serving", "reading", "leaving"}
      BY <3>1, <2>0, <1>0, PathIsOfOne
    <3>3. stage'[p] \in {"serving", "leaving"} /\ UNCHANGED path
      BY <2>5, <1>0 DEF Check, Goes, StartTypeOK
    <3> QED
      BY <3>1, <3>2, <3>3, <1>1 DEF PathIsKept
  <2>6. CASE RemovePath(p)
    <3>1. \A q \in Processes : q # p =>
            stage[q] \notin {"removing", "protecting", "checking", "serving", "reading", "leaving"}
      BY <2>6, <2>0, <1>0, PathIsOfOne DEF RemovePath, Goes
    <3>2. stage'[p] = "closing"
      BY <2>6, <1>0 DEF RemovePath, Goes, StartTypeOK
    <3> QED
      BY <3>1, <3>2, <1>1 DEF PathIsKept
  <2>7. CASE /\ ~(TryConnect(p) /\ Abandoned) /\ ~RemoveSocket(p) /\ ~(Bind(p) /\ path = Nobody)
             /\ ~Protect(p) /\ ~Check(p) /\ ~RemovePath(p)
    <3>1. /\ UNCHANGED path
          /\ stage'[p] \notin {"removing", "protecting", "checking"}
          /\ stage'[p] \in {"serving", "reading", "leaving"} => stage[p] \in {"serving", "reading"}
          /\ stage'[p] \in Listening => stage[p] \in Listening
      BY <1>0, <2>7
         DEF StartTypeOK, ProcessStep, Goes, Start, FindNoStore, CreateFile, CreateSchema, OpenStore,
             FindNothing, FindSocket, TryConnect, Bind, TryAccept, ServiceControl, DropClient,
             Leave, Close, Kill, Listening
    <3>2. Abandoned => Abandoned'
      <4>1. path # Nobody => path.owner \in Processes
        BY <1>0 DEF StartTypeOK, Sockets
      <4> QED
        BY <3>1, <4>1, <1>1 DEF Abandoned, Listens
    <3> QED
      BY <2>0, <3>1, <3>2, <1>1 DEF PathIsKept
  <2> QED
    BY <2>1, <2>2, <2>3, <2>4, <2>5, <2>6, <2>7
<1> QED
  BY <1>2, <1>3

LEMMA OpenSocketStep ==
  ASSUME StartInv, NEW p \in Processes, ProcessStep(p)  PROVE OpenSocketIsTorn'
<1>0. StartTypeOK /\ OpenSocketIsTorn
  BY DEF StartInv
<1>1. PICK to \in Stages :
        stage'[p] = to /\ \A q \in Processes : q # p => stage'[q] = stage[q]
  BY <1>0, StageMoves
<1>2. CASE Bind(p) /\ path = Nobody
  <2>1. stage'[p] = "protecting" /\ path' = [owner |-> p, private |-> FALSE]
    BY <1>2, <1>0 DEF Bind, Goes, StartTypeOK
  <2>2. path'.owner = p
    BY <2>1
  <2> QED
    BY <2>1, <2>2 DEF OpenSocketIsTorn
<1>3. CASE Protect(p) /\ path # Nobody
  <2>1. path \in Sockets /\ path' = [path EXCEPT !.private = TRUE]
    BY <1>3, <1>0 DEF Protect, StartTypeOK
  <2>2. path'.private = TRUE
    BY <2>1 DEF Sockets
  <2> QED
    BY <2>2 DEF OpenSocketIsTorn
<1>4. CASE path' = Nobody
  BY <1>4 DEF OpenSocketIsTorn
<1>5. CASE ~(Bind(p) /\ path = Nobody) /\ ~Protect(p) /\ path' # Nobody
  <2>1. UNCHANGED path
    BY <1>5
       DEF ProcessStep, Start, FindNoStore, CreateFile, CreateSchema, OpenStore, FindNothing,
           FindSocket, TryConnect, RemoveSocket, Bind, Check, TryAccept, ServiceControl,
           DropClient, Leave, RemovePath, Close, Kill
  <2>2. path \in Sockets /\ path.owner \in Processes
    BY <1>5, <2>1, <1>0 DEF StartTypeOK, Sockets
  <2>3. CASE Kill(p) /\ path.owner = p /\ ~path.private
    <3>1. path = [owner |-> p, private |-> FALSE]
      BY <2>2, <2>3 DEF Sockets
    <3> QED
      BY <2>3, <3>1 DEF Kill, OpenSocketIsTorn
  <2>4. CASE Kill(p) /\ path.owner # p
    BY <1>0, <1>1, <1>5, <2>1, <2>2, <2>4, TornStays DEF OpenSocketIsTorn
  <2>5. CASE Kill(p) /\ path.private
    BY <2>1, <2>5 DEF OpenSocketIsTorn
  <2>6. CASE ~Kill(p)
    <3>1. stage[p] # "protecting"
      BY <1>5, <2>6
         DEF ProcessStep, Goes, Start, FindNoStore, CreateFile, CreateSchema, OpenStore, FindNothing,
             FindSocket, TryConnect, RemoveSocket, Bind, Check, TryAccept, ServiceControl,
             DropClient, Leave, RemovePath, Close
    <3> QED
      BY <1>0, <1>1, <1>5, <2>1, <2>2, <3>1, TornStays DEF OpenSocketIsTorn
  <2> QED
    BY <2>3, <2>4, <2>5, <2>6
<1>6. Protect(p) => path # Nobody \/ path' = Nobody
  BY DEF Protect
<1> QED
  BY <1>2, <1>3, <1>4, <1>5, <1>6

LEMMA HalfStoreStep ==
  ASSUME StartInv, NEW p \in Processes, ProcessStep(p)  PROVE HalfStoreIsTorn'
<1>0. StartTypeOK /\ HalfStoreIsTorn /\ OneCreates
  BY DEF StartInv
<1>1. PICK to \in Stages :
        stage'[p] = to /\ \A q \in Processes : q # p => stage'[q] = stage[q]
  BY <1>0, StageMoves
<1>2. CASE CreateFile(p) /\ store = "absent"
  <2>1. stage'[p] = "creating"
    BY <1>2, <1>0 DEF CreateFile, Goes, StartTypeOK
  <2> QED
    BY <2>1 DEF HalfStoreIsTorn
<1>3. CASE CreateSchema(p)
  <2>1. stage[p] = "creating" /\ (store # "read" => UNCHANGED stage) /\ store' = After(store)
    BY <1>3 DEF CreateSchema, Goes
  <2>2. store = "read" => store' = "whole"
    BY <2>1 DEF After
  <2> QED
    BY <2>1, <2>2 DEF HalfStoreIsTorn
<1>4. CASE ~(CreateFile(p) /\ store = "absent") /\ ~CreateSchema(p)
  <2>1. UNCHANGED store
    BY <1>4
       DEF ProcessStep, Start, FindNoStore, CreateFile, OpenStore, FindNothing,
           FindSocket, TryConnect, RemoveSocket, Bind, Protect, Check, TryAccept, ServiceControl,
           DropClient, Leave, RemovePath, Close, Kill
  <2>2. CASE Kill(p) /\ stage[p] = "creating"
    BY <2>1, <2>2 DEF Kill, HalfStoreIsTorn
  <2>3. CASE ~(Kill(p) /\ stage[p] = "creating")
    <3>1. stage[p] # "creating"
      BY <1>4, <2>3
         DEF ProcessStep, Goes, Start, FindNoStore, CreateFile, OpenStore, FindNothing,
             FindSocket, TryConnect, RemoveSocket, Bind, Protect, Check, TryAccept, ServiceControl,
             DropClient, Leave, RemovePath, Close
    <3> QED
      BY <1>0, <1>1, <2>1, <3>1, TornStays DEF HalfStoreIsTorn
  <2> QED
    BY <2>2, <2>3
<1> QED
  BY <1>2, <1>3, <1>4

LEMMA AloneStep ==
  ASSUME StartInv, NEW p \in Processes, ProcessStep(p)  PROVE AloneIsUndisturbed'
<1>0. StartTypeOK /\ AloneIsUndisturbed
  BY DEF StartInv
<1>1. PICK to \in Stages :
        stage'[p] = to /\ \A q \in Processes : q # p => stage'[q] = stage[q]
  BY <1>0, StageMoves
<1>2. CASE Start(p)
  <2>1. CASE \E q \in Processes \ {p} : IsRunning(q)
    <3>1. alone' = Nobody
      BY <1>2, <2>1 DEF Start
    <3> QED
      BY <3>1 DEF AloneIsUndisturbed
  <2>2. CASE ~\E q \in Processes \ {p} : IsRunning(q)
    <3>1. alone' = p /\ ~raced'
      BY <1>2, <2>2 DEF Start
    <3>2. stage'[p] = "looking"
      BY <1>2, <1>0 DEF Start, Goes, StartTypeOK
    <3>3. \A q \in Processes : q # p => ~(IsRunning(q)')
      BY <1>1, <2>2 DEF IsRunning
    <3> QED
      BY <3>1, <3>2, <3>3 DEF AloneIsUndisturbed
  <2> QED
    BY <2>1, <2>2
<1>3. CASE ~Start(p)
  <2>1. UNCHANGED alone /\ IsRunning(p)
    BY <1>3
       DEF ProcessStep, histVars, Goes, IsRunning, FindNoStore, CreateFile, CreateSchema, OpenStore,
           FindNothing, FindSocket, TryConnect, RemoveSocket, Bind, Protect, Check, TryAccept,
           ServiceControl, DropClient, Leave, RemovePath, Close, Kill
  <2> SUFFICES ASSUME alone # Nobody  PROVE AloneIsUndisturbed'
    BY <2>1 DEF AloneIsUndisturbed
  <2>2. alone = p /\ ~raced /\ \A q \in Processes : q # p => ~IsRunning(q)
    BY <2>1, <1>0 DEF AloneIsUndisturbed
  <2>3. \A q \in Processes : IsRunning(q)' => q = p
    BY <2>2, <1>1 DEF IsRunning
  <2>4. ~raced'
    <3>1. CASE TryConnect(p)
      <4>1. stage[p] = "connecting"
        BY <3>1 DEF TryConnect, Goes
      <4>2. \A q \in Processes : stage[q] # "removing"
        BY <2>2, <4>1 DEF IsRunning
      <4> QED
        BY <2>2, <3>1, <4>2 DEF TryConnect
    <3>2. CASE ~TryConnect(p)
      <4>1. UNCHANGED raced
        BY <1>3, <3>2
           DEF ProcessStep, histVars, FindNoStore, CreateFile, CreateSchema, OpenStore,
               FindNothing, FindSocket, RemoveSocket, Bind, Protect, Check, TryAccept,
               ServiceControl, DropClient, Leave, RemovePath, Close, Kill
      <4> QED
        BY <2>2, <4>1
    <3> QED
      BY <3>1, <3>2
  <2>5. /\ stage'[p] = "making" => store' = "absent"
        /\ stage'[p] = "connecting" => path' # Nobody
        /\ stage'[p] = "binding" => path' = Nobody
    BY <1>0, <1>3
       DEF StartTypeOK, ProcessStep, Goes, FindNoStore, CreateFile, CreateSchema, OpenStore,
           FindNothing, FindSocket, TryConnect, RemoveSocket, Bind, Protect, Check, TryAccept,
           ServiceControl, DropClient, Leave, RemovePath, Close, Kill
  <2> QED
    BY <2>1, <2>2, <2>3, <2>4, <2>5 DEF AloneIsUndisturbed
<1> QED
  BY <1>2, <1>3

LEMMA StartInvStep ==
  StartInv /\ [StartNext]_startVars => StartInv'
<1> SUFFICES ASSUME StartInv, [StartNext]_startVars  PROVE StartInv'
  OBVIOUS
<1>1. CASE UNCHANGED <<store, path, stage, histVars>>
  BY <1>1 DEF histVars, StartInv, StartTypeOK, OneCreates, PathIsKept, Abandoned, Listens,
              OpenSocketIsTorn, HalfStoreIsTorn, AloneIsUndisturbed, IsRunning
<1>2. ASSUME NEW p \in Processes, ProcessStep(p)  PROVE StartInv'
  <2>1. StartTypeOK' /\ OneCreates'
    BY <1>2, StartTypeStep, OneCreatesStep
  <2>2. ~raced' => PathIsKept'
    BY <1>2, PathIsKeptStep
  <2>3. OpenSocketIsTorn' /\ HalfStoreIsTorn' /\ AloneIsUndisturbed'
    BY <1>2, OpenSocketStep, HalfStoreStep, AloneStep
  <2> QED
    BY <2>1, <2>2, <2>3 DEF StartInv
<1> QED
  BY <1>1, <1>2, StepIsOfProcess

LEMMA AloneIsLetIn ==
  ASSUME StartInv, [StartNext]_startVars, NEW p \in Processes,
         alone = p, stage[p] \in Starting, stage'[p] \in {"refused", "leaving"}
  PROVE  torn
<1>0. StartTypeOK /\ OpenSocketIsTorn /\ HalfStoreIsTorn
  BY DEF StartInv
<1>1. alone # Nobody /\ PathIsKept
  <2>1. alone # Nobody
    BY AgentStartAssumption
  <2> QED
    BY <2>1 DEF StartInv, AloneIsUndisturbed
<1>2. /\ \A q \in Processes : q # p => stage[q] \in {"down", "refused"}
      /\ stage[p] = "making" => store = "absent"
      /\ stage[p] = "connecting" => path # Nobody
      /\ stage[p] = "binding" => path = Nobody
  BY <1>1 DEF StartInv, AloneIsUndisturbed, IsRunning
<1>3. stage'[p] # stage[p]
  BY DEF Starting
<1>4. ProcessStep(p)
  <2>1. PICK q \in Processes : ProcessStep(q)
    BY <1>3, StepIsOfProcess DEF histVars
  <2>2. q # p => stage'[p] = stage[p]
    BY <2>1, <1>0, StageMoves
  <2> QED
    BY <2>1, <2>2, <1>3
<1>5. path # Nobody => path.owner \in Processes
  BY <1>0 DEF StartTypeOK, Sockets
<1>6. CASE OpenStore(p)
  <2>1. stage[p] = "looking" /\ store \in {"empty", "versioned"}
    BY <1>6, <1>0 DEF OpenStore, Goes, StartTypeOK
  <2>2. \A q \in Processes : stage[q] # "creating"
    BY <2>1, <1>2
  <2> QED
    BY <2>1, <2>2, <1>0 DEF HalfStoreIsTorn
<1>7. CASE FindSocket(p)
  <2>1. stage[p] = "probing" /\ path # Nobody /\ ~path.private
    BY <1>7, <1>0 DEF FindSocket, Goes, StartTypeOK
  <2>2. stage[path.owner] # "protecting"
    BY <2>1, <1>2, <1>5
  <2> QED
    BY <2>1, <2>2, <1>0 DEF OpenSocketIsTorn
<1>8. CASE TryConnect(p)
  <2>1. stage[p] = "connecting" /\ ~Abandoned
    BY <1>8, <1>0 DEF TryConnect, Goes, StartTypeOK
  <2>2. stage[path.owner] \in Listening
    BY <2>1, <1>2 DEF Abandoned, Listens
  <2> QED
    BY <2>1, <2>2, <1>2, <1>5 DEF Listening
<1>9. CASE ~OpenStore(p) /\ ~FindSocket(p) /\ ~TryConnect(p)
  <2>1. \/ stage[p] = "making" /\ store # "absent"
        \/ stage[p] = "removing" /\ path = Nobody
        \/ stage[p] = "binding" /\ path # Nobody
        \/ stage[p] = "protecting" /\ path = Nobody
        \/ stage[p] = "checking" /\ ~(path # Nobody /\ path.private)
    BY <1>0, <1>4, <1>9
       DEF StartTypeOK, ProcessStep, Goes, Start, FindNoStore, CreateFile, CreateSchema, FindNothing,
           RemoveSocket, Bind, Protect, Check, TryAccept, ServiceControl, DropClient, Leave,
           RemovePath, Close, Kill, Starting
  <2>2. stage[p] = "removing" => path # Nobody
    BY <1>1 DEF PathIsKept, Abandoned
  <2>3. stage[p] = "protecting" => path # Nobody
    BY <1>1, PathLeadsTo DEF PathIsKept
  <2>4. stage[p] = "checking" => path # Nobody /\ path.private
    BY <1>1, PathLeadsTo DEF PathIsKept
  <2> QED
    BY <2>1, <2>2, <2>3, <2>4, <1>2
<1> QED
  BY <1>6, <1>7, <1>8, <1>9

(* However starts overlap and processes are killed: while no two that run  *)
(* have found the same abandoned socket, an agent that serves has the      *)
(* path; and a start that no other overlaps is refused only where one was  *)
(* killed with its store or its socket half made.                          *)
THEOREM OneAgentAlwaysServes == StartSpec => OneAgentServes
<1>1. StartInit => StartInv
  <2> SUFFICES ASSUME StartInit  PROVE StartInv
    OBVIOUS
  <2>1. StartTypeOK
    BY DEF StartInit, StartTypeOK, Stages
  <2> QED
    BY <2>1 DEF StartInit, StartInv, OneCreates, PathIsKept, OpenSocketIsTorn, HalfStoreIsTorn,
                AloneIsUndisturbed
<1>2. StartInv => (~raced => \A p \in Processes :
        stage[p] \in {"serving", "reading"} => path = [owner |-> p, private |-> TRUE])
  BY DEF StartInv, PathIsKept
<1>3. StartInv /\ [StartNext]_startVars =>
        [\A p \in Processes :
           alone = p /\ stage[p] \in Starting /\ stage'[p] \in {"refused", "leaving"} => torn]_startVars
  BY AloneIsLetIn
<1> QED
  BY <1>1, <1>2, <1>3, StartInvStep, PTL DEF StartSpec, OneAgentServes

----------------------------------------------------------------------------
(* LinuxClipboard.                                                         *)

AllSelections == UserSelections \cup AgentSelections

CallNames == {"idle", "observe_text", "check", "copy", "write", "exited"}

LinuxTypeOK ==
  /\ selections \in Seq(AllSelections) /\ Len(selections) <= SelectionMax
  /\ generation \in 0..Len(selections)
  /\ write_nonce \in Nat /\ pending_write_marker \in Nat
  /\ reading \subseteq 1..generation
  /\ captured_image \in 0..generation
  /\ call.name \in CallNames /\ call.before \in 0..generation
  /\ call.name \in {"check", "copy", "write"} => call.content \in Contents
  /\ told \in 0..generation

(* What is kept about a selection, under its generation, is true of it.    *)
KeptIsTrue ==
  /\ snapshot.is = "ready" =>
       /\ snapshot.revision = generation /\ generation > 0
       /\ Readable(selections[generation])
  /\ \A g \in reading : Readable(selections[g])
  /\ captured_image # 0 =>
       selections[captured_image].kind = "image" /\ ~selections[captured_image].marked
  /\ current_matches_pending_write => generation > 0 /\ selections[generation].write # 0

(* Nothing is told while a write is under way, and each write that has     *)
(* begun but the last has made its selection.                              *)
WritesAreCounted ==
  /\ call.name \in {"check", "copy", "write"} => told <= call.before
  /\ call.name \notin {"copy", "exited"} => write_nonce <= Len(selections)
  /\ call.name = "copy" =>
       /\ Len(selections) < SelectionMax
       /\ pending_write_marker = write_nonce
       /\ write_nonce \in 1..Len(selections) + 1

LinuxInv == LinuxTypeOK /\ KeptIsTrue /\ WritesAreCounted

LEMMA AppendKeeps ==
  ASSUME NEW S, NEW q \in Seq(S), NEW e \in S
  PROVE  /\ Append(q, e) \in Seq(S)
         /\ Len(Append(q, e)) = Len(q) + 1
         /\ \A i \in 1..Len(q) : Append(q, e)[i] = q[i]
         /\ Append(q, e)[Len(q) + 1] = e
  OBVIOUS

LEMMA SelectionsGrow ==
  ASSUME LinuxInv, NEW e \in AllSelections, selections' = Append(selections, e),
         Len(selections) < SelectionMax,
         UNCHANGED <<watchState, readers, captured_image, answers>>,
         call'.before = call.before, call'.content = call.content,
         \/ call' = call /\ Len(selections) < SelectionMax - 1
         \/ call.name = "copy" /\ call'.name = "write"
  PROVE  LinuxInv'
<1>1. /\ selections' \in Seq(AllSelections) /\ Len(selections') = Len(selections) + 1
      /\ \A i \in 1..Len(selections) : selections'[i] = selections[i]
  BY AppendKeeps DEF LinuxInv, LinuxTypeOK
<1>2. SelectionMax \in Nat /\ Len(selections) \in Nat
  BY LinuxClipboardAssumption DEF LinuxInv, LinuxTypeOK
<1>3. LinuxTypeOK'
  BY <1>1, <1>2 DEF LinuxInv, LinuxTypeOK, watchState, readers, answers, CallNames
<1>4. KeptIsTrue'
  BY <1>1, <1>2 DEF LinuxInv, LinuxTypeOK, KeptIsTrue, watchState, readers, answers, Readable
<1>5. WritesAreCounted'
  BY <1>1, <1>2 DEF LinuxInv, LinuxTypeOK, WritesAreCounted, watchState, readers, answers
<1> QED
  BY <1>3, <1>4, <1>5 DEF LinuxInv

LEMMA LinuxInvStep ==
  LinuxInv /\ [LinuxNext]_linuxVars => LinuxInv'
<1> SUFFICES ASSUME LinuxInv, [LinuxNext]_linuxVars  PROVE LinuxInv'
  OBVIOUS
<1>0. /\ SelectionMax \in Nat /\ Len(selections) \in Nat /\ generation \in Nat
      /\ selections \in Seq(AllSelections)
      /\ generation \in 0..Len(selections)
  BY LinuxClipboardAssumption DEF LinuxInv, LinuxTypeOK
<1>1. CASE UNCHANGED linuxVars
  BY <1>1 DEF linuxVars, watchState, readers, answers, LinuxInv, LinuxTypeOK, KeptIsTrue,
              WritesAreCounted
<1>2. CASE SelectionChanged
  <2>1. /\ UNCHANGED <<selections, pending_write_marker, write_nonce, captured_image, call, told>>
        /\ generation' = generation + 1 /\ generation < Len(selections)
        /\ snapshot'.is # "ready"
        /\ reading' \subseteq reading \cup {generation + 1}
        /\ generation + 1 \in reading' => generation + 1 \in reading \/ Readable(selections[generation + 1])
    BY <1>2 DEF SelectionChanged, AtFirst, answers
  <2>2. LinuxTypeOK'
    BY <1>0, <2>1 DEF LinuxInv, LinuxTypeOK
  <2>3. current_matches_pending_write' => selections[generation + 1].write # 0
    BY <1>2, <1>0 DEF SelectionChanged
  <2>4. KeptIsTrue'
    BY <1>0, <2>1, <2>3 DEF LinuxInv, LinuxTypeOK, KeptIsTrue
  <2> QED
    BY <2>1, <2>2, <2>4 DEF LinuxInv, WritesAreCounted
<1>3. CASE Fail
  BY <1>3 DEF Fail, readers, answers, LinuxInv, LinuxTypeOK, KeptIsTrue, WritesAreCounted
<1>4. CASE \E g \in reading : ReadAll(g) \/ ReadFails(g)
  <2>1. PICK g \in reading : ReadAll(g) \/ ReadFails(g)
    BY <1>4
  <2>2. /\ UNCHANGED <<selections, generation, pending_write_marker, current_matches_pending_write,
                       write_nonce, captured_image, call, told>>
        /\ reading' \subseteq reading
        /\ \/ snapshot' = snapshot
           \/ snapshot'.is = "unavailable"
           \/ generation = g /\ snapshot'.is = "ready" /\ snapshot'.revision = g
    BY <2>1 DEF ReadAll, ReadFails, PublishReady, IsLatest, answers
  <2>3. g \in 1..generation /\ Readable(selections[g])
    BY <2>1 DEF LinuxInv, LinuxTypeOK, KeptIsTrue
  <2> QED
    BY <1>0, <2>2, <2>3 DEF LinuxInv, LinuxTypeOK, KeptIsTrue, WritesAreCounted
<1>5. CASE \E g \in sending : Send(g)
  BY <1>5 DEF Send, watchState, answers, LinuxInv, LinuxTypeOK, KeptIsTrue, WritesAreCounted
<1>6. CASE CallObserve \/ ObserveText
  <2>1. /\ UNCHANGED <<selections, watchState, readers, captured_image>>
        /\ call.name \in {"idle", "observe_text"}
        /\ call'.name \in {"idle", "observe_text", "exited"}
        /\ call'.before = 0
        /\ told' = told \/ (told' = snapshot.revision /\ snapshot.is = "ready")
    BY <1>6 DEF CallObserve, ObserveText, Exits, Returns, Call, Tell, answers
  <2> QED
    BY <1>0, <2>1
       DEF watchState, readers, LinuxInv, LinuxTypeOK, KeptIsTrue, WritesAreCounted, CallNames
<1>7. CASE ObserveFiles
  <2>1. /\ UNCHANGED <<selections, watchState, readers>>
        /\ call.name = "idle"
        /\ call' = call \/ (call'.name = "exited" /\ call'.before = 0)
    BY <1>7 DEF ObserveFiles, Exits, Call
  <2>2. call'.before \in 0..generation /\ call'.name \in {"idle", "exited"}
    BY <1>0, <2>1 DEF LinuxInv, LinuxTypeOK
  <2>3. \/ UNCHANGED <<told, captured_image>>
        \/ generation > 0 /\ told' = generation /\ captured_image' = captured_image
        \/ /\ FilesAreReady /\ told' = snapshot.revision
           /\ captured_image' = IF IsImage THEN snapshot.revision ELSE captured_image
    BY <1>7 DEF ObserveFiles, Tell, answers
  <2>4. FilesAreReady => snapshot.revision = generation /\ generation > 0 /\ ~selections[generation].marked
    BY DEF FilesAreReady, LinuxInv, KeptIsTrue, Current
  <2>5. /\ told' \in 0..generation
        /\ captured_image' = captured_image
           \/ /\ captured_image' = generation /\ generation > 0
              /\ selections[generation].kind = "image" /\ ~selections[generation].marked
    BY <1>0, <2>3, <2>4 DEF LinuxInv, LinuxTypeOK, IsImage, Current
  <2> QED
    BY <1>0, <2>1, <2>2, <2>5
       DEF watchState, readers, LinuxInv, LinuxTypeOK, KeptIsTrue, WritesAreCounted, CallNames
<1>8. CASE \E c \in Contents : WriteText(c)
  <2>1. PICK c \in Contents : WriteText(c)
    BY <1>8
  <2>2. /\ call.name = "idle" /\ Len(selections) < SelectionMax
        /\ write_nonce' = write_nonce + 1 /\ pending_write_marker' = write_nonce + 1
        /\ call' = [name |-> "copy", before |-> generation, files |-> FALSE, content |-> c]
        /\ UNCHANGED <<selections, generation, snapshot, current_matches_pending_write,
                       reading, captured_image, told>>
    BY <2>1 DEF WriteText, BeginWrite, readers, answers
  <2> QED
    BY <1>0, <2>2 DEF LinuxInv, LinuxTypeOK, KeptIsTrue, WritesAreCounted, CallNames
<1>9. CASE \E c \in Contents : CallWriteFiles(c)
  <2>1. PICK c \in Contents : CallWriteFiles(c)
    BY <1>9
  <2>2. /\ call.name = "idle"
        /\ UNCHANGED <<selections, watchState, readers, captured_image, answers>>
        /\ \/ call' = [name |-> "exited", before |-> 0, files |-> FALSE, content |-> 0]
           \/ call' = [name |-> "check", before |-> generation, files |-> TRUE, content |-> c]
    BY <2>1 DEF CallWriteFiles, Exits, Call
  <2> QED
    BY <1>0, <2>2
       DEF watchState, readers, answers, LinuxInv, LinuxTypeOK, KeptIsTrue, WritesAreCounted, CallNames
<1>10. CASE WriteFiles
  <2>1. /\ call.name = "check"
        /\ UNCHANGED <<selections, generation, snapshot, current_matches_pending_write,
                       reading, captured_image, told>>
        /\ \/ /\ call'.name \in {"idle", "exited"} /\ call'.before = 0
              /\ UNCHANGED <<write_nonce, pending_write_marker>>
           \/ /\ Len(selections) < SelectionMax
              /\ write_nonce' = write_nonce + 1 /\ pending_write_marker' = write_nonce + 1
              /\ call' = [name |-> "copy", before |-> generation, files |-> TRUE, content |-> call.content]
    BY <1>10 DEF WriteFiles, BeginWrite, readers, answers, Exits, Returns, Call
  <2> QED
    BY <1>0, <2>1 DEF LinuxInv, LinuxTypeOK, KeptIsTrue, WritesAreCounted, CallNames
<1>11. CASE CopyMulti
  <2> DEFINE e == [write |-> pending_write_marker, kind |-> IF call.files THEN "files" ELSE "text",
                   content |-> call.content, marked |-> FALSE]
  <2>1. call.name = "copy" /\ pending_write_marker \in 1..SelectionMax /\ call.content \in Contents
        /\ Len(selections) < SelectionMax
    BY <1>0, <1>11 DEF CopyMulti, LinuxInv, LinuxTypeOK, WritesAreCounted
  <2>2. e \in AllSelections
    BY <2>1 DEF AllSelections, AgentSelections
  <2>3. call' = [call EXCEPT !.name = "write"] /\ selections' = Append(selections, e)
        /\ UNCHANGED <<watchState, readers, captured_image, answers>>
    BY <1>11 DEF CopyMulti
  <2>4. call'.before = call.before /\ call'.content = call.content
    BY <2>3
  <2>5. call'.name = "write"
    BY <2>3
  <2> QED
    BY <2>1, <2>2, <2>3, <2>4, <2>5, SelectionsGrow
<1>12. CASE CopyFails
  <2>1. /\ call.name = "copy"
        /\ UNCHANGED <<selections, generation, snapshot, current_matches_pending_write,
                       write_nonce, reading, captured_image, told>>
        /\ pending_write_marker' = 0
        /\ call'.name = "exited" /\ call'.before = 0
    BY <1>12 DEF CopyFails, readers, answers, Exits, Call
  <2> QED
    BY <1>0, <2>1 DEF LinuxInv, LinuxTypeOK, KeptIsTrue, WritesAreCounted, CallNames
<1>13. CASE Written
  <2>1. /\ call.name = "write"
        /\ UNCHANGED <<selections, generation, snapshot, current_matches_pending_write,
                       write_nonce, reading, captured_image>>
        /\ pending_write_marker' \in {0, pending_write_marker}
        /\ call'.name \in {"idle", "exited"} /\ call'.before = 0
        /\ told' = told \/ (told' = snapshot.revision /\ snapshot.is = "ready")
    BY <1>13 DEF Written, IsWritten, readers, answers, Exits, Returns, Call, Tell
  <2> QED
    BY <1>0, <2>1 DEF LinuxInv, LinuxTypeOK, KeptIsTrue, WritesAreCounted, CallNames
<1>14. CASE UserSelects
  <2>1. PICK e \in UserSelections : selections' = Append(selections, e)
    BY <1>14 DEF UserSelects
  <2>2. e \in AllSelections
    BY DEF AllSelections
  <2>3. /\ UNCHANGED <<watchState, readers, captured_image, call, answers>>
        /\ Len(selections) < SelectionMax - 1
    BY <1>14 DEF UserSelects
  <2> QED
    BY <1>0, <2>1, <2>2, <2>3, SelectionsGrow
<1> QED
  BY <1>1, <1>2, <1>3, <1>4, <1>5, <1>6, <1>7, <1>8, <1>9, <1>10, <1>11, <1>12, <1>13, <1>14
     DEF LinuxNext

LEMMA LinuxStepRefines ==
  LinuxInv /\ LinuxInv' /\ [LinuxNext]_linuxVars => [Abstract!Next]_(Abstract!vars)
<1> SUFFICES ASSUME LinuxInv, LinuxInv', [LinuxNext]_linuxVars
             PROVE  Abstract!Next \/ UNCHANGED <<selections, answer, told>>
  BY DEF Abstract!vars
<1>0. /\ generation \in 0..Len(selections) /\ Len(selections) \in Nat /\ told \in 0..generation
      /\ selections \in Seq(AllSelections)
  BY DEF LinuxInv, LinuxTypeOK
<1>1. CASE UserSelects \/ CopyMulti
  <2>1. \E e \in AllSelections : selections' = Append(selections, e)
    <3>1. CASE UserSelects
      BY <3>1 DEF UserSelects, AllSelections
    <3>2. CASE CopyMulti
      <4>1. /\ pending_write_marker \in 1..SelectionMax /\ call.content \in Contents
        BY <1>0, <3>2, LinuxClipboardAssumption DEF CopyMulti, LinuxInv, LinuxTypeOK, WritesAreCounted
      <4>2. [write |-> pending_write_marker, kind |-> IF call.files THEN "files" ELSE "text",
             content |-> call.content, marked |-> FALSE] \in AllSelections
        BY <4>1 DEF AllSelections, AgentSelections
      <4> QED
        BY <3>2, <4>2 DEF CopyMulti
    <3> QED
      BY <1>1, <3>1, <3>2
  <2>2. UNCHANGED <<answer, told>>
    BY <1>1 DEF UserSelects, CopyMulti, answers
  <2> QED
    BY <2>1, <2>2 DEF Abstract!Next, Abstract!Select, AllSelections
<1>2. CASE ObserveText
  <2>1. CASE ~failed /\ snapshot.is = "ready" /\ ~IsFile /\ ~IsImage
    <3>1. Tell("text", generation) /\ generation > 0 /\ selections[generation].kind = "text"
      BY <1>2, <2>1 DEF ObserveText, LinuxInv, KeptIsTrue, IsFile, IsImage, Current, Readable
    <3>2. generation \in DOMAIN selections /\ generation >= told /\ UNCHANGED selections
      BY <1>0, <1>2, <3>1 DEF ObserveText
    <3> QED
      BY <3>1, <3>2 DEF Tell, Abstract!Next, Abstract!ObserveText, Abstract!Tells
  <2>2. CASE ~(~failed /\ snapshot.is = "ready" /\ ~IsFile /\ ~IsImage)
    BY <1>2, <2>2 DEF ObserveText, answers
  <2> QED
    BY <2>1, <2>2
<1>3. CASE ObserveFiles
  <2>1. \/ UNCHANGED answers
        \/ Tell("files", generation) /\ generation > 0 /\ captured_image = generation
        \/ Tell("files", snapshot.revision) /\ FilesAreReady
    BY <1>3 DEF ObserveFiles
  <2>2. CASE UNCHANGED answers
    BY <1>3, <2>2 DEF ObserveFiles, answers
  <2>3. CASE ~UNCHANGED answers
    <3>1. /\ Tell("files", generation) /\ generation > 0
          /\ selections[generation].kind \in {"files", "image"} /\ ~selections[generation].marked
      BY <2>1, <2>3, <1>0 DEF LinuxInv, KeptIsTrue, FilesAreReady, IsFile, IsImage, Current
    <3>2. generation \in DOMAIN selections /\ generation >= told /\ UNCHANGED selections
      BY <1>0, <1>3, <3>1 DEF ObserveFiles
    <3> QED
      BY <3>1, <3>2 DEF Tell, Abstract!Next, Abstract!ObserveFiles, Abstract!Tells
  <2> QED
    BY <2>2, <2>3
<1>4. CASE Written
  <2>1. CASE ~failed /\ IsWritten
    <3>1. /\ Tell("write", generation) /\ generation > 0 /\ selections[generation].write # 0
          /\ generation > call.before /\ told <= call.before
      BY <1>4, <2>1 DEF Written, IsWritten, LinuxInv, KeptIsTrue, WritesAreCounted
    <3>2. generation \in DOMAIN selections /\ generation > told /\ UNCHANGED selections
      BY <1>0, <1>4, <3>1 DEF Written, LinuxInv, LinuxTypeOK
    <3> QED
      BY <3>1, <3>2 DEF Tell, Abstract!Next, Abstract!Write, Abstract!Tells
  <2>2. CASE ~(~failed /\ IsWritten)
    BY <1>4, <2>2 DEF Written, answers
  <2> QED
    BY <2>1, <2>2
<1>5. CASE ~(UserSelects \/ CopyMulti \/ ObserveText \/ ObserveFiles \/ Written)
  BY <1>5 DEF LinuxNext, linuxVars, answers, SelectionChanged, Fail, ReadAll, ReadFails, Send,
              CallObserve, WriteText, CallWriteFiles, WriteFiles, CopyFails
<1> QED
  BY <1>1, <1>2, <1>3, <1>4, <1>5

(* The adapter for Wayland keeps the promise of a clipboard: what it tells *)
(* is a selection with its own revision, none older than the last, and a   *)
(* write is told one of the agent's own, however selections, readers and   *)
(* writes overtake each other.                                             *)
THEOREM LinuxImplementsClipboard == LinuxSpec => ImplementsClipboard
<1>1. ASSUME LinuxInit  PROVE LinuxInv
  <2>1. /\ selections = <<>> /\ generation = 0 /\ snapshot.is = "empty"
        /\ pending_write_marker = 0 /\ write_nonce = 0 /\ reading = {} /\ captured_image = 0
        /\ told = 0 /\ call.name = "idle" /\ call.before = 0
        /\ ~current_matches_pending_write
    BY <1>1 DEF LinuxInit, Call
  <2>2. selections \in Seq(AllSelections) /\ Len(selections) = 0
    BY <2>1
  <2>3. LinuxTypeOK
    BY <2>1, <2>2, LinuxClipboardAssumption DEF LinuxTypeOK, CallNames
  <2> QED
    BY <2>1, <2>2, <2>3 DEF LinuxInv, KeptIsTrue, WritesAreCounted
<1>2. LinuxInit => Abstract!Init
  BY DEF LinuxInit, Abstract!Init
<1> QED
  BY <1>1, <1>2, LinuxInvStep, LinuxStepRefines, PTL DEF LinuxSpec, ImplementsClipboard, Abstract!Spec

----------------------------------------------------------------------------
(* FileLoop.                                                               *)

Clips == Own \cup Others

Uploading == file_upload # None /\ ~file_upload.done
Fetching == file_job # None /\ file_job.kind = "download"
HistoryDone == file_job # None /\ file_job.kind = "history" /\ file_job.stage = "done"

(* Selections that have never been on the hub's shelf.                     *)
Future == (Clips \ issued) \cup wire \cup (IF Uploading THEN {file_upload.clip} ELSE {})

JobClips == IF file_job = None THEN {} ELSE Range(file_job.clips) \cup {file_job.clip}

Jobs ==
  [kind : {"history", "download"}, stage : {"running", "done", "failed"}, revision : Nat,
   generation : Nat, cancelled : BOOLEAN, clips : Seq(Clips), clip : Clips \cup {None}]

Places ==
  {"top", "result", "write", "record", "upload", "connect", "poll", "observe", "drive"}

LoopTypeOK ==
  /\ shelf \in Seq(Clips) /\ wire \subseteq Own /\ issued \subseteq Clips
  /\ hub_generation \in Nat /\ known \in Nat
  /\ clipboard \in [revision : Nat, kind : {"files", "received", "other"}, clip : Clips \cup {None}]
  /\ pc \in Places
  /\ live \in BOOLEAN /\ locked \in BOOLEAN /\ shared_clear_pending \in BOOLEAN
  /\ file_job \in Jobs \cup {None}
  /\ file_upload \in [clip : Own, cancelled : BOOLEAN, done : BOOLEAN] \cup {None}
  /\ received \in Clips \cup {None}
  /\ baseline \in (SUBSET Clips) \cup {None}
  /\ before \subseteq Clips /\ mine \subseteq Own

Seen == Range(shelf) \cup before \cup JobClips \cup {received}

(* A selection comes to the hub once: what was ever seen of it is no       *)
(* longer to come.                                                         *)
ComesOnce ==
  /\ wire \subseteq issued /\ mine \subseteq issued
  /\ Uploading => file_upload.clip \in issued \ wire
  /\ Seen \cap Future = {}

KnownOld(clip) == baseline = None \/ clip \in baseline

(* What the loop has received it does not fetch again.                     *)
ReceivedIsKnown ==
  /\ received \in Range(shelf) => KnownOld(received)
  /\ HistoryDone =>
       /\ received \in Range(shelf) => received \in Range(file_job.clips)
       /\ received \in Range(file_job.clips) => KnownOld(received)
  /\ Fetching =>
       /\ file_job.clip \in Clips /\ file_job.clip # received
       /\ file_job.clip \in Range(shelf) => KnownOld(file_job.clip)

DiskHolds ==
  /\ Fetching /\ file_job.stage = "done" => file_job.clip \in disk
  /\ received \in Clips => received \in disk
  /\ clipboard.kind = "received" =>
       /\ clipboard.clip \in Clips
       /\ clipboard.clip = IF pc = "record" THEN file_job.clip ELSE received

(* Where the loop is in its turn, and what the end of a session leaves.    *)
TurnInv ==
  /\ pc \in {"write", "record"} =>
       Fetching /\ file_job.stage = "done" /\ ~file_job.cancelled /\ live
  /\ pc = "connect" => ~live
  /\ ~live /\ pc \in {"result", "upload", "connect"} =>
       baseline = None /\ (file_job = None \/ file_job.cancelled)
  /\ clipboard.kind = "received" /\ pc # "record" => last_file_revision = clipboard.revision

(* What was on the shelf before the session is known to be old.            *)
BeforeIsKnown ==
  /\ baseline # None => before \cap Range(shelf) \subseteq baseline
  /\ HistoryDone /\ ~file_job.cancelled =>
       /\ before \cap Range(shelf) \subseteq Range(file_job.clips)
       /\ baseline # None => before \cap Range(file_job.clips) \subseteq baseline
  /\ Fetching /\ ~file_job.cancelled => file_job.clip \notin before

LoopInv ==
  LoopTypeOK /\ ComesOnce /\ ReceivedIsKnown /\ DiskHolds /\ TurnInv /\ BeforeIsKnown

(* Of sequences: what an end added or taken does to the range.             *)
LEMMA RangeOfAppend ==
  ASSUME NEW S, NEW s \in Seq(S), NEW e \in S
  PROVE  Append(s, e) \in Seq(S) /\ Range(Append(s, e)) = Range(s) \cup {e}
<1> DEFINE t == Append(s, e)
<1>1. t \in Seq(S) /\ Len(t) = Len(s) + 1 /\ t[Len(s) + 1] = e
  OBVIOUS
<1>2. \A i \in 1..Len(s) : t[i] = s[i]
  OBVIOUS
<1>3. DOMAIN t = 1..(Len(s) + 1) /\ DOMAIN s = 1..Len(s) /\ Len(s) \in Nat
  BY <1>1
<1> HIDE DEF t
<1>4. Range(t) = Range(s) \cup {e}
  BY <1>1, <1>2, <1>3 DEF Range
<1> QED
  BY <1>1, <1>4 DEF t

LEMMA RangeOfTail ==
  ASSUME NEW S, NEW s \in Seq(S), s # <<>>
  PROVE  Tail(s) \in Seq(S) /\ Range(Tail(s)) \subseteq Range(s)
<1>1. Tail(s) \in Seq(S) /\ Len(Tail(s)) = Len(s) - 1 /\ Len(s) \in Nat
  OBVIOUS
<1>2. \A i \in 1..Len(Tail(s)) : Tail(s)[i] = s[i + 1] /\ i + 1 \in 1..Len(s)
  BY <1>1
<1> QED
  BY <1>1, <1>2 DEF Range

LEMMA RangeIsTyped ==
  ASSUME NEW S, NEW s \in Seq(S)
  PROVE  Range(s) \subseteq S
<1>1. ASSUME NEW x \in Range(s)  PROVE x \in S
  <2>1. PICK i \in DOMAIN s : x = s[i]
    BY DEF Range
  <2>2. i \in 1..Len(s)
    BY <2>1
  <2> QED
    BY <2>1, <2>2
<1> QED
  BY <1>1

LEMMA LastIsInRange ==
  ASSUME NEW S, NEW s \in Seq(S), s # <<>>
  PROVE  Last(s) \in Range(s)
<1>1. DOMAIN s = 1..Len(s) /\ Len(s) \in Nat 
  OBVIOUS
<1>2. Len(s) \in 1..Len(s)
  OBVIOUS
<1> QED
  BY <1>1, <1>2 DEF Range, Last

LEMMA RangeOfEmpty == Range(<<>>) = {}
  BY DEF Range

(* The same of the hub's shelf, whose replies a job keeps.                 *)
LEMMA ShelfRanges ==
  /\ <<>> \in Seq(Clips) /\ Range(<<>>) = {}
  /\ \A clips \in Seq(Clips) :
       /\ Range(clips) \subseteq Clips
       /\ Arrival(clips) \in Clips \cup {None}
       /\ Arrival(clips) # None =>
            /\ Arrival(clips) \in Range(clips)
            /\ baseline # None /\ Arrival(clips) \notin baseline
            /\ Arrival(clips) \notin Range(local)
       /\ clips # <<>> => Tail(clips) \in Seq(Clips) /\ Range(Tail(clips)) \subseteq Range(clips)
       /\ \A clip \in Clips : /\ Append(clips, clip) \in Seq(Clips)
                              /\ Range(Append(clips, clip)) = Range(clips) \cup {clip}
<1>1. <<>> \in Seq(Clips) /\ Range(<<>>) = {}
  BY RangeOfEmpty
<1>2. ASSUME NEW clips \in Seq(Clips)
      PROVE  /\ Range(clips) \subseteq Clips
             /\ clips # <<>> => Last(clips) \in Range(clips)
  <2>1. Range(clips) \subseteq Clips
    BY RangeIsTyped
  <2>2. ASSUME clips # <<>>  PROVE Last(clips) \in Range(clips)
    BY <2>2, LastIsInRange
  <2> QED
    BY <2>1, <2>2
<1>3. ASSUME NEW clips \in Seq(Clips)
      PROVE  /\ Arrival(clips) \in Clips \cup {None}
             /\ Arrival(clips) # None =>
                  /\ Arrival(clips) \in Range(clips)
                  /\ baseline # None /\ Arrival(clips) \notin baseline
                  /\ Arrival(clips) \notin Range(local)
  BY <1>2 DEF Arrival
<1>4. ASSUME NEW clips \in Seq(Clips), clips # <<>>
      PROVE  Tail(clips) \in Seq(Clips) /\ Range(Tail(clips)) \subseteq Range(clips)
  BY <1>4, RangeOfTail
<1>5. ASSUME NEW clips \in Seq(Clips), NEW clip \in Clips
      PROVE  Append(clips, clip) \in Seq(Clips) /\ Range(Append(clips, clip)) = Range(clips) \cup {clip}
  BY RangeOfAppend
<1> QED
  BY <1>1, <1>2, <1>3, <1>4, <1>5

LEMMA ShelfGains ==
  ASSUME shelf \in Seq(Clips), NEW clip \in Clips, shelf' = shelf \/ shelf' = Append(shelf, clip)
  PROVE  shelf' \in Seq(Clips) /\ Range(shelf') \subseteq Range(shelf) \cup {clip}
<1>1. CASE shelf' = shelf
  BY <1>1
<1>2. CASE shelf' = Append(shelf, clip)
  BY <1>2, RangeOfAppend
<1> QED
  BY <1>1, <1>2

LEMMA ShelfLoses ==
  ASSUME shelf \in Seq(Clips), shelf' = <<>> \/ (shelf # <<>> /\ shelf' = Tail(shelf))
  PROVE  shelf' \in Seq(Clips) /\ Range(shelf') \subseteq Range(shelf)
<1>1. CASE shelf' = <<>>
  BY <1>1, RangeOfEmpty
<1>2. CASE shelf # <<>> /\ shelf' = Tail(shelf)
  BY <1>2, RangeOfTail
<1> QED
  BY <1>1, <1>2

LEMMA HistoryJobTyped ==
  ASSUME NEW r \in Nat, NEW g \in Nat
  PROVE  [kind |-> "history", stage |-> "running", revision |-> r, generation |-> g,
          cancelled |-> FALSE, clips |-> <<>>, clip |-> None] \in Jobs
  BY DEF Jobs

LEMMA LoopTypeStep ==
  ASSUME LoopTypeOK, TurnInv, LoopNext \/ UNCHANGED loopVars
  PROVE  LoopTypeOK'
<1> USE FileLoopAssumption DEF LoopTypeOK, Places, hub, desk, session, arrivals, held, threads
<1>1. ASSUME NEW cancel
      PROVE  /\ Cancelled(file_job, cancel) \in Jobs \cup {None}
             /\ Cancelled(file_upload, cancel) \in
                  [clip : Own, cancelled : BOOLEAN, done : BOOLEAN] \cup {None}
  BY DEF Cancelled, Jobs
<1>2. CASE Top
  <2>1. live' \in BOOLEAN
    BY <1>2 DEF Top
  <2>2. shared_clear_pending' \in BOOLEAN /\ locked' \in BOOLEAN
    BY <1>2 DEF Top
  <2>3. baseline' \in (SUBSET Clips) \cup {None} /\ file_job' \in Jobs \cup {None}
    BY <1>1, <1>2 DEF Top, Resets
  <2> QED
    BY <1>2, <2>1, <2>2, <2>3 DEF Top
<1>3. CASE NoResult \/ TakeDownload \/ ConnectFails
  BY <1>3 DEF NoResult, TakeDownload, ConnectFails
<1>4. CASE DropResult
  BY <1>4 DEF DropResult
<1>5. CASE TakeHistory
  <2>1. file_job \in Jobs
    BY <1>5 DEF TakeHistory, Finished
  <2>2. Range(file_job.clips) \subseteq Clips /\ Arrival(file_job.clips) \in Clips \cup {None}
    BY <2>1, ShelfRanges DEF Jobs
  <2>3. file_job' \in Jobs \cup {None}
    BY <1>5, <2>1, <2>2, ShelfRanges DEF TakeHistory, Jobs
  <2> QED
    BY <1>5, <2>2, <2>3 DEF TakeHistory
<1>6. CASE Write \/ Record
  <2>1. file_job \in Jobs
    BY <1>6 DEF Write, Record, TurnInv, Fetching
  <2> QED
    BY <1>6, <2>1 DEF Write, Record, Shows, Keeps, Jobs
<1>7. CASE Uploads
  BY <1>1, <1>7 DEF Uploads
<1>8. CASE Connect
  <2>1. before' \subseteq Clips
    BY <1>8, ShelfRanges DEF Connect
  <2> QED
    BY <1>8, <2>1 DEF Connect
<1>9. CASE ClearFails \/ Drive
  BY <1>9 DEF ClearFails, Drive
<1>10. CASE Poll
  <2>1. shared_clear_pending' \in BOOLEAN
    BY <1>10 DEF Poll
  <2>2. file_job' = file_job
        \/ file_job' = [kind |-> "history", stage |-> "running", revision |-> clipboard.revision,
                        generation |-> known, cancelled |-> FALSE, clips |-> <<>>, clip |-> None]
    BY <1>10 DEF Poll
  <2>3. file_job' \in Jobs \cup {None}
    <3>1. clipboard.revision \in Nat /\ known \in Nat
      OBVIOUS
    <3> QED
      BY <2>2, <3>1, HistoryJobTyped
  <2> QED
    BY <1>10, <2>1, <2>3 DEF Poll
<1>11. CASE Observe
  <2>1. CASE UNCHANGED <<file_upload, local, mine>>
    BY <1>11, <2>1 DEF Observe, Clips
  <2>2. CASE ~UNCHANGED <<file_upload, local, mine>>
    <3>1. PICK clip \in Own \ issued :
            /\ file_upload' = [clip |-> clip, cancelled |-> FALSE, done |-> FALSE]
            /\ mine' = mine \cup {clip}
      BY <1>11, <2>2 DEF Observe
    <3> QED
      BY <1>11, <3>1 DEF Observe, Clips
  <2> QED
    BY <2>1, <2>2
<1>12. CASE Restart
  <2>1. clipboard' \in [revision : Nat, kind : {"files", "received", "other"},
                        clip : Clips \cup {None}]
    BY <1>12 DEF Restart
  <2>2. locked' \in BOOLEAN /\ shared_clear_pending' \in BOOLEAN /\ live' \in BOOLEAN
    BY <1>12 DEF Restart
  <2> QED
    BY <1>12, <2>1, <2>2 DEF Restart
<1>13. CASE HistoryReplies \/ Downloads \/ JobFails
  <2>1. file_job' \in Jobs \cup {None}
    BY <1>13 DEF HistoryReplies, Downloads, JobFails, Jobs
  <2> QED
    BY <1>13, <2>1 DEF HistoryReplies, Downloads, JobFails
<1>15. CASE UploadSends \/ UploadEnds
  BY <1>15 DEF UploadSends, UploadEnds
<1>16. CASE \E clip \in Own : HubAccepts(clip)
  BY <1>16, ShelfRanges DEF HubAccepts, Clips
<1>17. CASE \E clip \in Others : OtherPublishes(clip)
  BY <1>17, ShelfRanges DEF OtherPublishes, Clips
<1>18. CASE HubExpires \/ HubClears
  <2>1. shelf' = <<>> \/ (shelf # <<>> /\ shelf' = Tail(shelf))
    BY <1>18 DEF HubExpires, HubClears
  <2>2. shelf' \in Seq(Clips)
    BY <2>1, ShelfLoses
  <2> QED
    BY <1>18, <2>2 DEF HubExpires, HubClears
<1>19. CASE \E kind \in {"files", "other"} : Copy(kind)
  BY <1>19 DEF Copy
<1>20. CASE UNCHANGED loopVars
  BY <1>20 DEF loopVars
<1> QED
  BY <1>2, <1>3, <1>4, <1>5, <1>6, <1>7, <1>8, <1>9, <1>10, <1>11, <1>12, <1>13, <1>15,
     <1>16, <1>17, <1>18, <1>19, <1>20 DEF LoopNext

(* Nothing comes back to the shelf.                                        *)
StillNew == \A clip \in Seen \ {None} : clip \in Range(shelf') => clip \in Range(shelf)

(* What was ever seen of the selections: on the shelf, before a session,   *)
(* in a job or received.                                                   *)
LEMMA ComesOnceStep ==
  ASSUME LoopTypeOK, ComesOnce, TurnInv, LoopNext \/ UNCHANGED loopVars
  PROVE  ComesOnce' /\ StillNew
<1> USE FileLoopAssumption DEF ComesOnce, StillNew, Seen, Uploading, Future, JobClips,
        hub, desk, session, arrivals, held, threads
<1>1. CASE Top
  BY <1>1 DEF Top, Cancelled, LoopTypeOK, Jobs
<1>2. CASE NoResult \/ TakeDownload \/ ConnectFails \/ ClearFails \/ Drive
  BY <1>2 DEF NoResult, TakeDownload, ConnectFails, ClearFails, Drive
<1>3. CASE DropResult
  BY <1>3 DEF DropResult
<1>4. CASE TakeHistory
  <2>1. file_job \in Jobs /\ file_job # None
    BY <1>4 DEF TakeHistory, Finished, LoopTypeOK
  <2>2. Arrival(file_job.clips) \in Range(file_job.clips) \cup {None}
    BY <2>1, ShelfRanges DEF Jobs
  <2>3. JobClips' \subseteq JobClips \cup {None}
    BY <1>4, <2>1, <2>2, ShelfRanges DEF TakeHistory, Jobs
  <2>4. None \notin Future
    BY DEF LoopTypeOK, Clips
  <2> QED
    BY <1>4, <2>3, <2>4 DEF TakeHistory
<1>5. CASE Write
  BY <1>5 DEF Write
<1>6. CASE Record
  BY <1>6 DEF Record, Keeps, TurnInv, Fetching
<1>7. CASE Uploads
  BY <1>7 DEF Uploads, Cancelled, LoopTypeOK
<1>8. CASE Connect
  BY <1>8 DEF Connect
<1>9. CASE Poll
  BY <1>9, ShelfRanges DEF Poll, LoopTypeOK, Clips
<1>10. CASE Observe
  BY <1>10 DEF Observe, LoopTypeOK, Clips
<1>11. CASE Restart
  BY <1>11 DEF Restart, LoopTypeOK, Clips
<1>12. CASE HistoryReplies
  BY <1>12 DEF HistoryReplies, LoopTypeOK, Jobs
<1>13. CASE Downloads \/ JobFails
  BY <1>13 DEF Downloads, JobFails, LoopTypeOK, Jobs
<1>14. CASE UploadSends \/ UploadEnds
  BY <1>14 DEF UploadSends, UploadEnds, LoopTypeOK
<1>15. ASSUME NEW clip \in Own, HubAccepts(clip)  PROVE ComesOnce' /\ StillNew
  <2>1. Range(shelf') \subseteq Range(shelf) \cup {clip}
    <3>1. shelf' = shelf \/ shelf' = Append(shelf, clip)
      BY <1>15 DEF HubAccepts
    <3>2. shelf \in Seq(Clips) /\ clip \in Clips
      BY DEF LoopTypeOK, Clips
    <3> QED
      BY <3>1, <3>2, ShelfGains
  <2>2. clip \in Future /\ clip \notin Future' /\ Future' \subseteq Future
    BY <1>15 DEF HubAccepts
  <2> QED
    BY <1>15, <2>1, <2>2 DEF HubAccepts
<1>16. CASE \E clip \in Others : OtherPublishes(clip)
  BY <1>16, ShelfRanges DEF OtherPublishes, LoopTypeOK, Clips
<1>17. CASE HubExpires \/ HubClears
  <2>1. Range(shelf') \subseteq Range(shelf)
    BY <1>17, ShelfRanges DEF HubExpires, HubClears, LoopTypeOK
  <2> QED
    BY <1>17, <2>1 DEF HubExpires, HubClears
<1>18. CASE \E kind \in {"files", "other"} : Copy(kind)
  BY <1>18 DEF Copy
<1>19. CASE UNCHANGED loopVars
  BY <1>19 DEF loopVars
<1> QED
  BY <1>1, <1>2, <1>3, <1>4, <1>5, <1>6, <1>7, <1>8, <1>9, <1>10, <1>11, <1>12, <1>13, <1>14,
     <1>15, <1>16, <1>17, <1>18, <1>19 DEF LoopNext

LEMMA ReceivedIsKnownStep ==
  ASSUME LoopInv, StillNew, LoopNext \/ UNCHANGED loopVars
  PROVE  ReceivedIsKnown'
<1>1. LoopTypeOK /\ ComesOnce /\ ReceivedIsKnown /\ TurnInv
  BY DEF LoopInv
<1>2. received \in Range(shelf') => received \in Range(shelf)
  <2>1. LoopTypeOK'
    BY <1>1, LoopTypeStep
  <2>2. Range(shelf') \subseteq Clips
    BY <2>1, RangeIsTyped DEF LoopTypeOK
  <2>3. None \notin Range(shelf')
    BY <2>2, FileLoopAssumption DEF Clips
  <2> QED
    BY <2>3 DEF StillNew, Seen
<1>3. Fetching => (file_job.clip \in Range(shelf') => file_job.clip \in Range(shelf))
  BY <1>1, FileLoopAssumption
     DEF StillNew, Seen, JobClips, ReceivedIsKnown, Fetching, Clips
<1> USE <1>1, <1>2, <1>3
        DEF ReceivedIsKnown, KnownOld, HistoryDone, Fetching,
            hub, desk, session, arrivals, held, threads
<1>4. CASE Top
  BY <1>4 DEF Top, Resets, Cancelled, LoopTypeOK, Jobs
<1>5. CASE NoResult \/ TakeDownload \/ ConnectFails \/ ClearFails \/ Drive \/ DropResult
  BY <1>5 DEF NoResult, TakeDownload, ConnectFails, ClearFails, Drive, DropResult
<1>6. CASE TakeHistory
  <2>1. file_job \in Jobs /\ HistoryDone /\ file_job.clips \in Seq(Clips)
    BY <1>6 DEF TakeHistory, Finished, LoopTypeOK, Jobs
  <2> DEFINE clip == Arrival(file_job.clips)
  <2>2. clip # None =>
          clip \in Clips /\ clip \in Range(file_job.clips) /\ baseline # None /\ clip \notin baseline
    BY <2>1, ShelfRanges
  <2>3. baseline' = Range(file_job.clips) /\ received' = received /\ shelf' = shelf
    BY <1>6 DEF TakeHistory
  <2>4. file_job' = None \/ (clip # None /\ file_job'.kind = "download" /\ file_job'.clip = clip)
    BY <1>6, <2>1 DEF TakeHistory, Jobs
  <2> HIDE DEF clip
  <2> QED
    BY <2>1, <2>2, <2>3, <2>4
<1>7. CASE Write
  BY <1>7 DEF Write
<1>8. CASE Record
  BY <1>8 DEF Record, Keeps, TurnInv
<1>9. CASE Uploads \/ Connect
  BY <1>9 DEF Uploads, Connect
<1>10. CASE Poll
  BY <1>10 DEF Poll
<1>11. CASE Observe
  BY <1>11 DEF Observe
<1>12. CASE Restart
  BY <1>12, ShelfRanges, FileLoopAssumption DEF Restart, LoopTypeOK, Clips
<1>13. CASE HistoryReplies \/ Downloads \/ JobFails
  BY <1>13 DEF HistoryReplies, Downloads, JobFails, LoopTypeOK, Jobs
<1>14. CASE UploadSends \/ UploadEnds
  BY <1>14 DEF UploadSends, UploadEnds
<1>15. CASE \/ \E clip \in Own : HubAccepts(clip)
            \/ \E clip \in Others : OtherPublishes(clip)
            \/ HubExpires \/ HubClears
  BY <1>15 DEF HubAccepts, OtherPublishes, HubExpires, HubClears
<1>16. CASE \E kind \in {"files", "other"} : Copy(kind)
  BY <1>16 DEF Copy
<1>17. CASE UNCHANGED loopVars
  BY <1>17 DEF loopVars
<1> QED
  BY <1>4, <1>5, <1>6, <1>7, <1>8, <1>9, <1>10, <1>11, <1>12, <1>13, <1>14, <1>15, <1>16, <1>17
     DEF LoopNext

LEMMA DiskHoldsStep ==
  ASSUME LoopInv, LoopNext \/ UNCHANGED loopVars
  PROVE  DiskHolds'
<1>1. LoopTypeOK /\ ReceivedIsKnown /\ DiskHolds /\ TurnInv
  BY DEF LoopInv
<1> USE <1>1, FileLoopAssumption
        DEF DiskHolds, Fetching, hub, desk, session, arrivals, held, threads
<1>2. CASE Top
  BY <1>2 DEF Top, Cancelled, LoopTypeOK, Jobs
<1>3. CASE NoResult \/ TakeDownload \/ ConnectFails \/ ClearFails \/ Drive
  BY <1>3 DEF NoResult, TakeDownload, ConnectFails, ClearFails, Drive
<1>4. CASE DropResult
  <2>1. Finished /\ file_job' = None /\ pc = "result" /\ pc' = "upload"
        /\ UNCHANGED <<received, clipboard>>
    BY <1>4 DEF DropResult
  <2>2. disk' = disk \/ (Fetching /\ disk' = disk \ {file_job.clip})
    BY <1>4, <2>1 DEF DropResult, Finished
  <2>3. Fetching => received # file_job.clip
    BY DEF ReceivedIsKnown
  <2> QED
    BY <2>1, <2>2, <2>3
<1>5. CASE TakeHistory
  BY <1>5 DEF TakeHistory, Finished, LoopTypeOK, Jobs
<1>6. CASE Write
  BY <1>6 DEF Write, Shows, TurnInv, ReceivedIsKnown
<1>7. CASE Record
  BY <1>7 DEF Record, Keeps, TurnInv, ReceivedIsKnown
<1>8. CASE Uploads \/ Connect
  BY <1>8 DEF Uploads, Connect
<1>9. CASE Poll
  BY <1>9 DEF Poll
<1>10. CASE Observe
  BY <1>10 DEF Observe
<1>11. CASE Restart
  BY <1>11 DEF Restart, LoopTypeOK, Clips
<1>12. CASE HistoryReplies \/ Downloads \/ JobFails
  BY <1>12 DEF HistoryReplies, Downloads, JobFails, LoopTypeOK, Jobs, TurnInv
<1>13. CASE UploadSends \/ UploadEnds
  BY <1>13 DEF UploadSends, UploadEnds
<1>14. CASE \/ \E clip \in Own : HubAccepts(clip)
            \/ \E clip \in Others : OtherPublishes(clip)
            \/ HubExpires \/ HubClears
  BY <1>14 DEF HubAccepts, OtherPublishes, HubExpires, HubClears
<1>15. CASE \E kind \in {"files", "other"} : Copy(kind)
  BY <1>15 DEF Copy
<1>16. CASE UNCHANGED loopVars
  BY <1>16 DEF loopVars
<1> QED
  BY <1>2, <1>3, <1>4, <1>5, <1>6, <1>7, <1>8, <1>9, <1>10, <1>11, <1>12, <1>13, <1>14, <1>15,
     <1>16 DEF LoopNext

LEMMA TurnInvStep ==
  ASSUME LoopInv, LoopNext \/ UNCHANGED loopVars
  PROVE  TurnInv'
<1>1. LoopTypeOK /\ TurnInv
  BY DEF LoopInv
<1> USE <1>1
        DEF TurnInv, Fetching, hub, desk, session, arrivals, held, threads
<1>2. CASE Top
  BY <1>2 DEF Top, Cancelled, Resets, LoopTypeOK, Jobs
<1>3. CASE NoResult \/ ConnectFails \/ ClearFails \/ Drive
  BY <1>3 DEF NoResult, ConnectFails, ClearFails, Drive
<1>4. CASE TakeDownload
  BY <1>4 DEF TakeDownload, Valid, Finished
<1>5. CASE DropResult
  BY <1>5 DEF DropResult
<1>6. CASE TakeHistory
  BY <1>6 DEF TakeHistory, Valid
<1>7. CASE Write
  BY <1>7 DEF Write, Shows
<1>8. CASE Record
  BY <1>8 DEF Record
<1>9. CASE Uploads \/ Connect
  <2>1. CASE Uploads
    <3>1. /\ pc = "upload" /\ UNCHANGED <<live, baseline, file_job, clipboard, last_file_revision>>
          /\ pc' = IF locked THEN "top" ELSE IF live THEN "poll" ELSE "connect"
      BY <2>1 DEF Uploads
    <3> QED
      BY <3>1
  <2>2. CASE Connect
    BY <2>2 DEF Connect
  <2> QED
    BY <1>9, <2>1, <2>2
<1>10. CASE Poll
  BY <1>10 DEF Poll
<1>11. CASE Observe
  BY <1>11 DEF Observe
<1>12. CASE Restart
  BY <1>12 DEF Restart, LoopTypeOK
<1>13. CASE HistoryReplies \/ Downloads \/ JobFails
  <2>1. /\ file_job # None /\ file_job.stage = "running" /\ file_job \in Jobs
        /\ file_job'.cancelled = file_job.cancelled
    BY <1>13 DEF HistoryReplies, Downloads, JobFails, LoopTypeOK, Jobs
  <2>2. pc \notin {"write", "record"}
    BY <2>1
  <2>3. UNCHANGED <<pc, live, baseline, clipboard, last_file_revision>>
    BY <1>13 DEF HistoryReplies, Downloads, JobFails
  <2> QED
    BY <2>1, <2>2, <2>3
<1>14. CASE UploadSends \/ UploadEnds
  BY <1>14 DEF UploadSends, UploadEnds
<1>15. CASE \/ \E clip \in Own : HubAccepts(clip)
            \/ \E clip \in Others : OtherPublishes(clip)
            \/ HubExpires \/ HubClears
  BY <1>15 DEF HubAccepts, OtherPublishes, HubExpires, HubClears
<1>16. CASE \E kind \in {"files", "other"} : Copy(kind)
  BY <1>16 DEF Copy
<1>17. CASE UNCHANGED loopVars
  BY <1>17 DEF loopVars
<1> QED
  BY <1>2, <1>3, <1>4, <1>5, <1>6, <1>7, <1>8, <1>9, <1>10, <1>11, <1>12, <1>13, <1>14, <1>15,
     <1>16, <1>17 DEF LoopNext

LEMMA BeforeIsKnownStep ==
  ASSUME LoopInv, StillNew, LoopNext \/ UNCHANGED loopVars
  PROVE  BeforeIsKnown'
<1>1. LoopTypeOK /\ TurnInv /\ BeforeIsKnown
  BY DEF LoopInv
<1>2. before \cap Range(shelf') \subseteq Range(shelf)
  BY <1>1, FileLoopAssumption DEF StillNew, Seen, LoopTypeOK, Clips
<1> USE <1>1, <1>2
        DEF BeforeIsKnown, HistoryDone, Fetching, hub, desk, session, arrivals, held, threads
<1>3. CASE Top
  BY <1>3 DEF Top, Cancelled, Resets, LoopTypeOK, Jobs
<1>4. CASE NoResult \/ TakeDownload \/ ConnectFails \/ ClearFails \/ Drive \/ DropResult
  BY <1>4 DEF NoResult, TakeDownload, ConnectFails, ClearFails, Drive, DropResult
<1>5. CASE TakeHistory
  <2>1. file_job \in Jobs /\ HistoryDone /\ ~file_job.cancelled /\ file_job.clips \in Seq(Clips)
    <3>1. Valid /\ file_job # None /\ file_job.kind = "history" /\ file_job.stage = "done"
      BY <1>5 DEF TakeHistory, Finished
    <3> QED
      BY <3>1 DEF Valid, LoopTypeOK, Jobs
  <2> DEFINE clip == Arrival(file_job.clips)
  <2>2. clip # None => clip \in Range(file_job.clips) /\ baseline # None /\ clip \notin baseline
    BY <2>1, ShelfRanges
  <2>3. baseline' = Range(file_job.clips) /\ shelf' = shelf /\ before' = before
    BY <1>5 DEF TakeHistory
  <2>4. file_job' = None \/ (clip # None /\ file_job'.kind = "download" /\ file_job'.clip = clip)
    BY <1>5, <2>1 DEF TakeHistory, Jobs
  <2> HIDE DEF clip
  <2> QED
    BY <2>1, <2>2, <2>3, <2>4
<1>6. CASE Write \/ Record
  BY <1>6 DEF Write, Record
<1>7. CASE Uploads
  BY <1>7 DEF Uploads
<1>8. CASE Connect
  <2>1. baseline = None /\ (file_job = None \/ file_job.cancelled)
    BY <1>8 DEF Connect, TurnInv
  <2> QED
    BY <1>8, <2>1 DEF Connect
<1>9. CASE Poll
  BY <1>9 DEF Poll
<1>10. CASE Observe
  BY <1>10 DEF Observe
<1>11. CASE Restart
  BY <1>11 DEF Restart
<1>12. CASE HistoryReplies \/ Downloads \/ JobFails
  BY <1>12 DEF HistoryReplies, Downloads, JobFails, LoopTypeOK, Jobs
<1>13. CASE UploadSends \/ UploadEnds
  BY <1>13 DEF UploadSends, UploadEnds
<1>14. CASE \/ \E clip \in Own : HubAccepts(clip)
            \/ \E clip \in Others : OtherPublishes(clip)
            \/ HubExpires \/ HubClears
  BY <1>14 DEF HubAccepts, OtherPublishes, HubExpires, HubClears
<1>15. CASE \E kind \in {"files", "other"} : Copy(kind)
  BY <1>15 DEF Copy
<1>16. CASE UNCHANGED loopVars
  BY <1>16 DEF loopVars
<1> QED
  BY <1>3, <1>4, <1>5, <1>6, <1>7, <1>8, <1>9, <1>10, <1>11, <1>12, <1>13, <1>14, <1>15, <1>16
     DEF LoopNext

LEMMA LoopInvStep == LoopInv /\ [LoopNext]_loopVars => LoopInv'
<1> SUFFICES ASSUME LoopInv, [LoopNext]_loopVars  PROVE LoopInv'
  OBVIOUS
<1>1. LoopNext \/ UNCHANGED loopVars
  OBVIOUS
<1>2. LoopTypeOK'
  BY <1>1, LoopTypeStep DEF LoopInv
<1>3. ComesOnce' /\ StillNew
  BY <1>1, ComesOnceStep DEF LoopInv
<1>4. ReceivedIsKnown' /\ BeforeIsKnown'
  BY <1>1, <1>3, ReceivedIsKnownStep, BeforeIsKnownStep
<1>5. DiskHolds' /\ TurnInv'
  BY <1>1, DiskHoldsStep, TurnInvStep
<1> QED
  BY <1>2, <1>3, <1>4, <1>5 DEF LoopInv

LEMMA LoopInvInit == LoopInit => LoopInv
<1> SUFFICES ASSUME LoopInit  PROVE LoopInv
  OBVIOUS
<1>1. LoopTypeOK
  BY ShelfRanges DEF LoopInit, LoopTypeOK, Places
<1>2. ComesOnce
  BY ShelfRanges, FileLoopAssumption
     DEF LoopInit, ComesOnce, Uploading, Future, Seen, JobClips, Clips
<1>3. ReceivedIsKnown /\ DiskHolds /\ TurnInv /\ BeforeIsKnown
  BY ShelfRanges, FileLoopAssumption
     DEF LoopInit, ReceivedIsKnown, KnownOld, DiskHolds, TurnInv, BeforeIsKnown, Fetching,
         HistoryDone, Clips
<1> QED
  BY <1>1, <1>2, <1>3 DEF LoopInv

LEMMA LoopAlways == LoopSpec => []LoopInv
<1> QED
  BY LoopInvInit, LoopInvStep, PTL DEF LoopSpec

(* While the clipboard names files that this process received, they are on *)
(* the disk: no drop of a job, of an older selection or of an arrival      *)
(* takes their directory, for what is received is never fetched again.     *)
THEOREM ShownFilesAlwaysExist == LoopSpec => []ShownFilesExist
<1>1. LoopInv => ShownFilesExist
  BY DEF LoopInv, DiskHolds, TurnInv, ReceivedIsKnown, ShownFilesExist
<1> QED
  BY <1>1, LoopAlways, PTL

(* What changes the clip that the clipboard shows.                         *)
LEMMA WhatIsShown ==
  ASSUME LoopInv, LoopNext \/ UNCHANGED loopVars, clipboard'.clip # clipboard.clip
  PROVE  \/ Fetching /\ ~file_job.cancelled /\ clipboard'.clip = file_job.clip
         \/ clipboard'.clip = None
<1>1. clipboard \in [revision : Nat, kind : {"files", "received", "other"}, clip : Clips \cup {None}]
  BY DEF LoopInv, LoopTypeOK
<1>2. Write \/ Restart \/ (\E kind \in {"files", "other"} : Copy(kind))
  BY DEF LoopNext, loopVars, Top, NoResult, DropResult, TakeHistory, TakeDownload, Record, Uploads,
         Connect, ConnectFails, ClearFails, Poll, Observe, Drive, HistoryReplies, Downloads,
         JobFails, UploadSends, UploadEnds, HubAccepts, OtherPublishes, HubExpires, HubClears,
         hub, desk, session, arrivals, held, threads
<1>3. CASE Write
  BY <1>3 DEF Write, Shows, LoopInv, TurnInv, Fetching
<1>4. CASE Restart
  BY <1>1, <1>4 DEF Restart
<1>5. CASE \E kind \in {"files", "other"} : Copy(kind)
  BY <1>5 DEF Copy
<1> QED
  BY <1>2, <1>3, <1>4, <1>5

(* Nothing that was on the shelf when the session came up is put on the    *)
(* clipboard, however polls, fetches, clears and lost connections fall.    *)
THEOREM NothingOldIsShown == LoopSpec => NothingOldShown
<1> DEFINE Shown == clipboard'.clip # clipboard.clip => clipboard'.clip \notin before
<1>1. LoopInv /\ [LoopNext]_loopVars => [Shown]_loopVars
  <2> SUFFICES ASSUME LoopInv, LoopNext \/ UNCHANGED loopVars, clipboard'.clip # clipboard.clip
               PROVE  clipboard'.clip \notin before
    OBVIOUS
  <2>1. None \notin before
    BY FileLoopAssumption DEF LoopInv, LoopTypeOK, Clips
  <2> QED
    BY <2>1, WhatIsShown DEF LoopInv, BeforeIsKnown
<1> QED
  BY <1>1, LoopAlways, PTL DEF LoopSpec, NothingOldShown

(* As long as a process has published no more than it remembers ...        *)
RemembersMine == Cardinality(mine) <= LocalMax

(* ... it remembers all of it, and fetches nothing of it.                  *)
MineIsRemembered ==
  /\ IsFiniteSet(mine)
  /\ local \in Seq(Own) /\ Range(local) = mine
  /\ Len(local) = Cardinality(mine)
  /\ Fetching => file_job.clip \notin mine

LEMMA MineStep ==
  ASSUME LoopInv, MineIsRemembered, RemembersMine', LoopNext \/ UNCHANGED loopVars
  PROVE  MineIsRemembered'
<1>1. LoopTypeOK /\ ComesOnce /\ ReceivedIsKnown
  BY DEF LoopInv
<1> USE DEF MineIsRemembered, Fetching, hub, desk, session, arrivals, held, threads
<1>2. CASE Top
  BY <1>1, <1>2 DEF Top, Cancelled, LoopTypeOK, Jobs
<1>3. CASE NoResult \/ TakeDownload \/ ConnectFails \/ ClearFails \/ Drive \/ DropResult
  BY <1>3 DEF NoResult, TakeDownload, ConnectFails, ClearFails, Drive, DropResult
<1>4. CASE TakeHistory
  <2>1. file_job \in Jobs /\ file_job.clips \in Seq(Clips)
    BY <1>1, <1>4 DEF TakeHistory, Finished, LoopTypeOK, Jobs
  <2>2. file_job' = None \/ (/\ Arrival(file_job.clips) # None
                             /\ file_job'.clip = Arrival(file_job.clips))
    BY <1>4, <2>1 DEF TakeHistory, Jobs
  <2>3. UNCHANGED <<local, mine>>
    BY <1>4 DEF TakeHistory
  <2> QED
    BY <2>1, <2>2, <2>3, ShelfRanges
<1>5. CASE Write \/ Record
  BY <1>5 DEF Write, Record
<1>6. CASE Uploads \/ Connect
  BY <1>6 DEF Uploads, Connect
<1>7. CASE Poll
  BY <1>7 DEF Poll
<1>8. CASE Observe
  <2>1. CASE UNCHANGED <<file_upload, local, mine>>
    BY <1>8, <2>1 DEF Observe
  <2>2. CASE ~UNCHANGED <<file_upload, local, mine>>
    <3>1. PICK clip \in Own \ issued : NoteLocalPublish(clip) /\ mine' = mine \cup {clip}
      BY <1>8, <2>2 DEF Observe
    <3>2. clip \notin mine
      BY <1>1, <3>1 DEF ComesOnce
    <3>3. IsFiniteSet(mine') /\ Cardinality(mine') = Cardinality(mine) + 1
      BY <3>1, <3>2, FS_AddElement
    <3>4. /\ Append(local, clip) \in Seq(Own) /\ Len(Append(local, clip)) = Len(local) + 1
          /\ Range(Append(local, clip)) = mine'
      BY <3>1, RangeOfAppend
    <3>5. Len(Append(local, clip)) <= LocalMax
      BY <3>3, <3>4 DEF RemembersMine
    <3>6. local' = Append(local, clip)
      BY <3>1, <3>4, <3>5, FileLoopAssumption DEF NoteLocalPublish
    <3>7. Fetching => file_job.clip \notin mine'
      BY <1>1, <3>1 DEF ComesOnce, Seen, JobClips, Future, Clips
    <3>8. file_job' = file_job
      BY <1>8 DEF Observe
    <3> QED
      BY <3>3, <3>4, <3>6, <3>7, <3>8
  <2> QED
    BY <2>1, <2>2
<1>9. CASE Restart
  <2>1. Range(<<>>) = {} /\ <<>> \in Seq(Own) /\ Len(<<>>) = 0
    BY RangeOfEmpty
  <2> QED
    BY <1>9, <2>1, FS_EmptySet DEF Restart
<1>10. CASE HistoryReplies \/ Downloads \/ JobFails
  BY <1>1, <1>10 DEF HistoryReplies, Downloads, JobFails, LoopTypeOK, Jobs
<1>11. CASE UploadSends \/ UploadEnds
  BY <1>11 DEF UploadSends, UploadEnds
<1>12. CASE \/ \E clip \in Own : HubAccepts(clip)
            \/ \E clip \in Others : OtherPublishes(clip)
            \/ HubExpires \/ HubClears
  BY <1>12 DEF HubAccepts, OtherPublishes, HubExpires, HubClears
<1>13. CASE \E kind \in {"files", "other"} : Copy(kind)
  BY <1>13 DEF Copy
<1>14. CASE UNCHANGED loopVars
  BY <1>14 DEF loopVars
<1> QED
  BY <1>2, <1>3, <1>4, <1>5, <1>6, <1>7, <1>8, <1>9, <1>10, <1>11, <1>12, <1>13, <1>14
     DEF LoopNext

LEMMA NoEchoStep ==
  ASSUME LoopInv, MineIsRemembered, LoopNext \/ UNCHANGED loopVars
  PROVE  /\ clipboard'.clip # clipboard.clip => clipboard'.clip \notin mine
         /\ mine' \subseteq mine \/ clipboard.kind # "received"
<1>1. clipboard'.clip # clipboard.clip => clipboard'.clip \notin mine
  <2>1. None \notin mine
    BY FileLoopAssumption DEF LoopInv, LoopTypeOK
  <2> QED
    BY <2>1, WhatIsShown DEF MineIsRemembered
<1>2. mine' \subseteq mine \/ Observe
  BY DEF LoopNext, loopVars, Top, NoResult, DropResult, TakeHistory, TakeDownload, Write, Record,
         Uploads, Connect, ConnectFails, ClearFails, Poll, Drive, Restart, HistoryReplies,
         Downloads, JobFails, UploadSends, UploadEnds, HubAccepts, OtherPublishes, HubExpires,
         HubClears, Copy, hub, desk, session, arrivals, held, threads
<1>3. Observe => mine' = mine \/ clipboard.kind # "received"
  BY DEF Observe, NewFiles, LoopInv, TurnInv
<1> QED
  BY <1>1, <1>2, <1>3

(* As long as no process publishes more than FileArrivals remembers (500   *)
(* in the code), nothing that a process published comes back on its own    *)
(* clipboard, and what it received it does not upload.                     *)
THEOREM NoEchoWhileRemembered == LoopSpec /\ []RemembersMine => NoFileEcho
<1> DEFINE Echo == /\ clipboard'.clip # clipboard.clip => clipboard'.clip \notin mine
                   /\ (mine' \subseteq mine \/ clipboard.kind # "received")
<1>1. LoopInit => MineIsRemembered
  <2>1. Range(<<>>) = {} /\ <<>> \in Seq(Own) /\ Len(<<>>) = 0
    BY RangeOfEmpty
  <2> QED
    BY <2>1, FS_EmptySet DEF LoopInit, MineIsRemembered, Fetching
<1>2. LoopInv /\ MineIsRemembered /\ RemembersMine' /\ [LoopNext]_loopVars => MineIsRemembered'
  BY MineStep
<1>3. LoopInv /\ MineIsRemembered /\ [LoopNext]_loopVars => [Echo]_loopVars
  BY NoEchoStep
<1> HIDE DEF Echo
<1>4. LoopSpec /\ []RemembersMine => [][Echo]_loopVars
  BY <1>1, <1>2, <1>3, LoopAlways, PTL DEF LoopSpec
<1> QED
  BY <1>4 DEF NoFileEcho, Echo
=============================================================================
