------------------------------ MODULE HubEdge ------------------------------
(***************************************************************************)
(* The threads of the hub (crates/clipmesh-hub-edge/src/lib.rs): a listener *)
(* that accepts connections and probes the Tailscale daemon, and a worker  *)
(* for every connection, which share three locks - the edge's sessions,    *)
(* the core's state and the file store - and the readiness flag.           *)
(*                                                                         *)
(* A step takes the locks it needs and gives them back, unless the code    *)
(* keeps one while it waits: for another lock, or for the peer to take     *)
(* what is written to its socket.  No write has a time limit, so a step    *)
(* that writes ends when the peer reads, or when the connection breaks.    *)
(*                                                                         *)
(* What the core and the file store do with a message is HubCore's and     *)
(* FileStore's; here a session of the core is its phase and how much of    *)
(* its queue counts as backlog.  Readiness is the daemon's only: the       *)
(* core's terminal failures are HubCore's, and rates are RateBucket's.     *)
(***************************************************************************)
EXTENDS Integers, FiniteSets

CONSTANTS
  Workers,              \* slots for connections and their threads
  PeerOf,               \* the peer that connects in each slot
  Readers,              \* slots whose peer goes on reading what it is sent
  MaxConnections,       \* config.max_connections
  MaxConnectionsPerPeer,\* config.max_connections_per_peer
  QueueLimit,           \* config.outbound_queue_messages
  Listener, None        \* the listener's thread; no thread

(* What a configuration may say of connections.                            *)
ValidConfig ==
  /\ MaxConnections \in 1..1024
  /\ MaxConnectionsPerPeer \in 1..8
  /\ MaxConnectionsPerPeer <= MaxConnections
  /\ QueueLimit \in 1..256

ASSUME HubEdgeAssumption ==
  /\ IsFiniteSet(Workers)
  /\ Readers \subseteq Workers
  /\ ValidConfig
  /\ None \notin Workers \cup {Listener}
  /\ Listener \notin Workers

VARIABLES
  at,            \* where each thread stands
  files,         \* EdgeSession.files: the connection transfers files
  entries,       \* Sessions.entries
  awaiting,      \* EdgeSession.awaiting_resume
  late,          \* more than 5 s since EdgeSession.opened_at_ms
  terminal,      \* EdgeSession.terminal_error: SlowConsumer, or nothing
  scanned,       \* the slow sessions that close_slow_consumers has found
  opened,        \* the core's sessions
  phase,         \* their phase
  replay,        \* whether the queue holds a resume that is not written yet
  backlog,       \* what counts as backlog of the queue, up to QueueLimit + 1
  ahead,         \* what of a stale session's queue precedes its first notice
  buffered,      \* the clips that wait for the replay to end, likewise
  held,          \* the owner of each lock
  daemon,        \* whether the Tailscale daemon answers as it should
  sample,        \* what a thread has heard from it and not stored yet
  notReady,      \* Runtime.not_ready
  crossed        \* history: sessions whose backlog has passed its bound

sessionVars == <<files, entries, awaiting, late, terminal, scanned>>
coreVars    == <<opened, phase, replay, backlog, ahead, buffered>>
daemonVars  == <<daemon, sample, notReady>>
edgeVars    == <<at, sessionVars, coreVars, held, daemonVars, crossed>>

Threads  == Workers \cup {Listener}
Messages == {"resume", "publish", "ack", "clear", "invalid"}

(* Where a worker has a session that it has not begun to close.            *)
Serving ==
  {"greeting", "top", "probing", "storing", "judging", "draining", "writing",
   "completing", "reading", "resume", "publish", "ack", "clear", "clearing",
   "syncing", "scanning", "marking", "replying", "filing", "filed", "sending"}

EdgeTypeOK ==
  /\ at \in [Threads -> Serving \cup
       {"idle", "arrived", "asked", "sourcing", "opening", "evicting", "evicted", "parting", "closing",
        "leaving", "accepting", "polling", "expiring"}]
  /\ entries \subseteq Workers /\ opened \subseteq Workers
  /\ files \in [Workers -> BOOLEAN] /\ awaiting \in [Workers -> BOOLEAN]
  /\ late \in [Workers -> BOOLEAN] /\ terminal \in [Workers -> BOOLEAN]
  /\ scanned \in [Workers -> SUBSET Workers]
  /\ phase \in [Workers -> {"none", "await", "replaying", "live", "stale"}]
  /\ replay \in [Workers -> BOOLEAN]
  /\ backlog \in [Workers -> 0..QueueLimit + 1]
  /\ ahead \in [Workers -> 0..QueueLimit + 1]
  /\ buffered \in [Workers -> 0..QueueLimit + 1]
  /\ held \in [{"sessions", "core", "files"} -> Threads \cup {None}]
  /\ daemon \in BOOLEAN /\ notReady \in BOOLEAN
  /\ sample \in [Threads -> BOOLEAN]
  /\ crossed \in [Workers -> BOOLEAN]

EdgeInit ==
  /\ at = [x \in Threads |-> IF x = Listener THEN "accepting" ELSE "idle"]
  /\ entries = {} /\ opened = {}
  /\ files = [w \in Workers |-> FALSE] /\ awaiting = [w \in Workers |-> FALSE]
  /\ late = [w \in Workers |-> FALSE] /\ terminal = [w \in Workers |-> FALSE]
  /\ scanned = [w \in Workers |-> {}]
  /\ phase = [w \in Workers |-> "none"] /\ replay = [w \in Workers |-> FALSE]
  /\ backlog = [w \in Workers |-> 0] /\ ahead = [w \in Workers |-> 0]
  /\ buffered = [w \in Workers |-> 0]
  /\ held = [lock \in {"sessions", "core", "files"} |-> None]
  /\ daemon = TRUE /\ notReady = FALSE
  /\ sample = [x \in Threads |-> TRUE]
  /\ crossed = [w \in Workers |-> FALSE]

Free(lock) == held[lock] = None

Moves(x, from, to) == at[x] = from /\ at' = [at EXCEPT ![x] = to]
Takes(lock, x)     == Free(lock) /\ held' = [held EXCEPT ![lock] = x]
Gives(lock)        == held' = [held EXCEPT ![lock] = None]

----------------------------------------------------------------------------
(* The listener, and the probes that every thread makes.                   *)

Accept(w) ==
  /\ at[Listener] = "accepting"
  /\ Moves(w, "idle", "arrived")
  /\ UNCHANGED <<sessionVars, coreVars, held, daemonVars>>

(* A probe asks the daemon and stores the answer in two steps, and another *)
(* thread may store its own in between (HubEdge::poll_localapi).           *)
Sample(x) ==
  /\ IF x = Listener THEN Moves(x, "accepting", "polling") ELSE Moves(x, "probing", "storing")
  /\ sample' = [sample EXCEPT ![x] = daemon]
  /\ UNCHANGED <<sessionVars, coreVars, held, daemon, notReady>>

(* Mutant: a hub that is not ready stays so.                               *)
StoreFailure(x) ==
  /\ IF x = Listener THEN Moves(x, "polling", "expiring") ELSE Moves(x, "storing", "judging")
  /\ notReady' = (notReady \/ ~sample[x])
  /\ sample' = [sample EXCEPT ![x] = TRUE]
  /\ UNCHANGED <<sessionVars, coreVars, held, daemon>>

Store(x) ==
  /\ IF x = Listener THEN Moves(x, "polling", "expiring") ELSE Moves(x, "storing", "judging")
  /\ notReady' = ~sample[x]
  /\ sample' = [sample EXCEPT ![x] = TRUE]
  /\ UNCHANGED <<sessionVars, coreVars, held, daemon>>

(* The listener deletes expired files, under the file store's lock.        *)
ExpireFiles ==
  /\ Moves(Listener, "expiring", "accepting")
  /\ Free("files")
  /\ UNCHANGED <<sessionVars, coreVars, held, daemonVars>>

(* The daemon starts, stops, or changes the hub's address.                 *)
DaemonTurns ==
  /\ daemon' = ~daemon
  /\ UNCHANGED <<at, sessionVars, coreVars, held, sample, notReady>>

----------------------------------------------------------------------------
(* Admission: WhoIs, the HTTP request, a place among the sessions, hello.  *)

(* The peer is unknown to the daemon or connects too often, or what it     *)
(* sends in two seconds is no request: the connection ends without a word. *)
TurnAway(w) ==
  /\ Moves(w, "arrived", "idle")
  /\ UNCHANGED <<sessionVars, coreVars, held, daemonVars>>

ReadRequest(w) ==
  /\ Moves(w, "arrived", "asked")
  /\ UNCHANGED <<sessionVars, coreVars, held, daemonVars>>

(* The hub is alive; or the request is refused: it is one too many, it is  *)
(* too long, its path or method is unknown, it claims an identity, or it   *)
(* is no proper upgrade.                                                   *)
Answer(w) ==
  /\ Moves(w, "asked", "idle")
  /\ UNCHANGED <<sessionVars, coreVars, held, daemonVars>>

(* readiness_reason looks at the core only if the daemon has no objection. *)
Ready == ~notReady /\ Free("core")

Readiness(w) ==
  /\ notReady \/ Ready
  /\ Moves(w, "asked", "idle")
  /\ UNCHANGED <<sessionVars, coreVars, held, daemonVars>>

(* Who is behind the history: first the core's sources, then the store's.  *)
ListSources(w) ==
  /\ Ready
  /\ Moves(w, "asked", "sourcing")
  /\ UNCHANGED <<sessionVars, coreVars, held, daemonVars>>

ListFileSources(w) ==
  /\ Free("files")
  /\ Moves(w, "sourcing", "idle")
  /\ UNCHANGED <<sessionVars, coreVars, held, daemonVars>>

OfPeer(w) == {v \in entries : PeerOf[v] = PeerOf[w]}

(* Mutant: a peer gets one more.                                           *)
HasNearRoom(w) ==
  /\ Cardinality(entries) < MaxConnections
  /\ Cardinality(OfPeer(w)) <= MaxConnectionsPerPeer

HasRoom(w) ==
  /\ Cardinality(entries) < MaxConnections
  /\ Cardinality(OfPeer(w)) < MaxConnectionsPerPeer

(* HubEdge::upgrade counts under the lock under which it inserts, and      *)
(* keeps it while it opens the core's session.                             *)
Claim(w) ==
  /\ Moves(w, "asked", "opening")
  /\ Ready
  /\ HasRoom(w)
  /\ Takes("sessions", w)
  /\ UNCHANGED <<sessionVars, coreVars, daemonVars>>

Refuse(w) ==
  /\ Moves(w, "asked", "idle")
  /\ \/ notReady
     \/ Ready /\ Free("sessions") /\ ~HasRoom(w)
  /\ UNCHANGED <<sessionVars, coreVars, held, daemonVars>>

Open(w) ==
  /\ Moves(w, "opening", "greeting")
  /\ Free("core")
  /\ Gives("sessions")
  /\ opened' = opened \cup {w}
  /\ phase' = [phase EXCEPT ![w] = "await"]
  /\ entries' = entries \cup {w}
  /\ \E isFiles \in BOOLEAN : files' = [files EXCEPT ![w] = isFiles]
  /\ awaiting' = [awaiting EXCEPT ![w] = TRUE]
  /\ UNCHANGED <<late, terminal, scanned, replay, backlog, ahead, buffered, daemonVars>>

(* The handshake and server_hello, which asks the core for its counters.   *)
Greet(w) ==
  /\ Moves(w, "greeting", "top")
  /\ Free("sessions")
  /\ files[w] \/ Free("core")
  /\ awaiting' = [awaiting EXCEPT ![w] = ~files[w]]
  /\ UNCHANGED <<files, entries, late, terminal, scanned, coreVars, held, daemonVars>>

GreetFails(w) ==
  /\ Moves(w, "greeting", "closing")
  /\ UNCHANGED <<sessionVars, coreVars, held, daemonVars>>

----------------------------------------------------------------------------
(* The worker's loop (serve_socket).                                       *)

(* The deadline of a session that has yet to resume.                       *)
Overdue(w) ==
  /\ w \in entries /\ at[w] # "greeting" /\ awaiting[w] /\ ~late[w]
  /\ late' = [late EXCEPT ![w] = TRUE]
  /\ UNCHANGED <<at, files, entries, awaiting, terminal, scanned, coreVars, held, daemonVars>>

(* Mutants: the worker looks at one of the two only.                       *)
EndsIfMarked(w)  == terminal[w]
EndsIfOverdue(w) == late[w] /\ awaiting[w]

(* take_terminal_error and tick.                                           *)
MustEnd(w) == terminal[w] \/ (late[w] /\ awaiting[w])

Top(w) ==
  /\ Free("sessions")
  /\ \/ MustEnd(w) /\ terminal[w] /\ Moves(w, "top", "parting")
     \/ MustEnd(w) /\ ~terminal[w] /\ Moves(w, "top", "evicting")
     \/ ~MustEnd(w) /\ Moves(w, "top", IF files[w] THEN "reading" ELSE "draining")
  /\ terminal' = IF MustEnd(w) THEN [terminal EXCEPT ![w] = FALSE] ELSE terminal
  /\ UNCHANGED <<files, entries, awaiting, late, scanned, coreVars, held, daemonVars>>

(* Every 60 s the worker asks the daemon before it goes on.                *)
Probe(w) ==
  /\ Free("sessions")
  /\ ~MustEnd(w)
  /\ Moves(w, "top", "probing")
  /\ UNCHANGED <<sessionVars, coreVars, held, daemonVars>>

Judge(w) ==
  /\ \/ notReady /\ Moves(w, "judging", "parting")
     \/ Ready /\ Moves(w, "judging", IF files[w] THEN "reading" ELSE "draining")
  /\ UNCHANGED <<sessionVars, coreVars, held, daemonVars>>

(* write_next_event keeps the core's lock until the event is written.      *)
Lease(w) ==
  /\ Moves(w, "draining", "writing")
  /\ replay[w] \/ backlog[w] > 0
  /\ Takes("core", w)
  /\ UNCHANGED <<sessionVars, coreVars, daemonVars>>

Drained(w) ==
  /\ Moves(w, "draining", "reading")
  /\ Free("core")
  /\ ~replay[w] /\ backlog[w] = 0
  /\ UNCHANGED <<sessionVars, coreVars, held, daemonVars>>

(* A notice ends the session.                                              *)
Written(w) ==
  /\ Gives("core")
  /\ \/ replay[w] /\ Moves(w, "writing", "completing")
     \/ ~replay[w] /\ phase[w] = "stale" /\ ahead[w] = 0 /\ Moves(w, "writing", "evicting")
     \/ /\ ~replay[w] /\ (phase[w] = "stale" => ahead[w] > 0)
        /\ Moves(w, "writing", "draining")
  /\ replay' = [replay EXCEPT ![w] = FALSE]
  /\ backlog' = IF replay[w] THEN backlog ELSE [backlog EXCEPT ![w] = @ - 1]
  /\ ahead' = IF ahead[w] = 0 THEN ahead ELSE [ahead EXCEPT ![w] = @ - 1]
  /\ UNCHANGED <<sessionVars, opened, phase, buffered, daemonVars>>

WriteFails(w) ==
  /\ Gives("core")
  /\ Moves(w, "writing", "parting")
  /\ UNCHANGED <<sessionVars, coreVars, daemonVars>>

(* A backlog counts up to one more than its bound.                          *)
Least(n, m) == IF n <= m THEN n ELSE m

Plus(n, m) == Least(QueueLimit + 1, n + m)

(* complete_resume: refused when another session cleared the history after *)
(* the end of the resume was written.                                      *)
CompleteResume(w) ==
  /\ Free("core")
  /\ \/ /\ phase[w] = "replaying" /\ Moves(w, "completing", "draining")
        /\ phase' = [phase EXCEPT ![w] = "live"]
        /\ backlog' = [backlog EXCEPT ![w] = Plus(@, buffered[w])]
        /\ buffered' = [buffered EXCEPT ![w] = 0]
     \/ /\ phase[w] # "replaying" /\ Moves(w, "completing", "parting")
        /\ UNCHANGED <<phase, backlog, buffered>>
  /\ UNCHANGED <<sessionVars, opened, replay, ahead, held, daemonVars>>

(* What the socket yields but for messages: nothing in a second, a ping to *)
(* be answered, a lost heartbeat or bad frame, the end.                    *)
Read(w, to) ==
  /\ to \in {"top", "replying", "parting", "closing"}
  /\ Moves(w, "reading", to)
  /\ UNCHANGED <<sessionVars, coreVars, held, daemonVars>>

Replied(w, to) ==
  /\ to \in {"top", "closing"}
  /\ Moves(w, "replying", to)
  /\ UNCHANGED <<sessionVars, coreVars, held, daemonVars>>

----------------------------------------------------------------------------
(* Messages of text connections (handle_text).                             *)

(* Ready, well formed, resumed; then the tokens: a message too many ends   *)
(* the session (websocket_failure_closes), a publish too many is answered. *)
AdmitText(w, m) ==
  /\ ~files[w]
  /\ Free("sessions") /\ Free("core")
  /\ \/ Moves(w, "reading", "parting")
     \/ /\ Ready /\ m # "invalid" /\ (m = "resume" \/ ~awaiting[w])
        /\ \/ Moves(w, "reading", m)
           \/ m = "publish" /\ Moves(w, "reading", "replying")
  /\ UNCHANGED <<sessionVars, coreVars, held, daemonVars>>

(* The cursor may be ahead, or the fields may not fit together.            *)
Resume(w) ==
  /\ Free("core")
  /\ \/ /\ phase[w] = "await" /\ Moves(w, "resume", "scanning")
        /\ phase' = [phase EXCEPT ![w] = "replaying"]
        /\ replay' = [replay EXCEPT ![w] = TRUE]
     \/ /\ Moves(w, "resume", "parting")
        /\ UNCHANGED <<phase, replay>>
  /\ UNCHANGED <<sessionVars, opened, backlog, ahead, buffered, held, daemonVars>>

(* An accepted clip goes to every live session, and waits for replaying    *)
(* ones; a retry of one is acknowledged only.                              *)
Publish(w) ==
  /\ Free("core")
  /\ \/ /\ phase[w] = "live" /\ Moves(w, "publish", "scanning")
        /\ \E new \in BOOLEAN :
             /\ backlog' = [v \in Workers |->
                  Plus(backlog[v], (IF v = w THEN 1 ELSE 0)
                                     + (IF new /\ phase[v] = "live" THEN 1 ELSE 0))]
             /\ buffered' = [v \in Workers |->
                  IF new /\ phase[v] = "replaying" THEN Plus(buffered[v], 1) ELSE buffered[v]]
     \/ /\ Moves(w, "publish", "replying")
        /\ UNCHANGED <<backlog, buffered>>
     \/ /\ phase[w] # "live" /\ Moves(w, "publish", "parting")
        /\ UNCHANGED <<backlog, buffered>>
  /\ UNCHANGED <<sessionVars, opened, phase, replay, ahead, held, daemonVars>>

Ack(w) ==
  /\ Free("core")
  /\ \/ phase[w] \in {"replaying", "live"} /\ Moves(w, "ack", "scanning")
     \/ Moves(w, "ack", "parting")
  /\ UNCHANGED <<sessionVars, coreVars, held, daemonVars>>

(* handle_clear keeps the file store's lock over both stores.              *)
Clear(w) ==
  /\ Moves(w, "clear", "clearing")
  /\ Takes("files", w)
  /\ UNCHANGED <<sessionVars, coreVars, daemonVars>>

(* A clear takes old clips out of every queue, and leaves the answers that *)
(* were in it; every session becomes stale and has a notice to write.      *)
CommitClear(w) ==
  /\ Free("core")
  /\ phase[w] = "live"
  /\ Moves(w, "clearing", "syncing")
  /\ \E kept \in [Workers -> 0..QueueLimit + 1] :
       /\ \A v \in Workers : kept[v] <= backlog[v]
       /\ \A v \in Workers : phase[v] = "stale" => kept[v] = backlog[v]
       /\ backlog' = [v \in Workers |->
            IF v \in opened THEN Plus(kept[v], IF v = w THEN 2 ELSE 1) ELSE 0]
       /\ ahead' = [v \in Workers |->
            CASE v \notin opened -> 0
              [] phase[v] = "stale" -> ahead[v]
              [] OTHER -> Least(QueueLimit, kept[v] + (IF v = w THEN 1 ELSE 0))]
  /\ phase' = [v \in Workers |-> IF v \in opened THEN "stale" ELSE "none"]
  /\ replay' = [v \in Workers |-> FALSE]
  /\ buffered' = [v \in Workers |-> 0]
  /\ UNCHANGED <<sessionVars, opened, held, daemonVars>>

(* A repeated request is answered from its receipt, whatever the session's *)
(* phase; one that names another generation is refused.                    *)
AnswerClear(w) ==
  /\ Free("core")
  /\ \/ /\ Moves(w, "clearing", "syncing")
        /\ backlog' = [backlog EXCEPT ![w] = Plus(@, 1)]
        /\ UNCHANGED held
     \/ /\ Moves(w, "clearing", "replying")
        /\ Gives("files")
        /\ UNCHANGED backlog
     \/ /\ phase[w] # "live" /\ Moves(w, "clearing", "parting")
        /\ Gives("files")
        /\ UNCHANGED backlog
  /\ UNCHANGED <<sessionVars, opened, phase, replay, ahead, buffered, daemonVars>>

SyncFiles(w) ==
  /\ Free("core")
  /\ Gives("files")
  /\ Moves(w, "syncing", "scanning") \/ Moves(w, "syncing", "parting")
  /\ UNCHANGED <<sessionVars, coreVars, daemonVars>>

(* The replay does not count, which is bounded by retention; what came     *)
(* meanwhile does (session_queue_metrics).                                 *)
Events(v) == Plus(backlog[v], buffered[v])

(* Mutant: a queue that is full and no more.                               *)
IsFull(v) == Events(v) >= QueueLimit

IsSlow(v) == Events(v) > QueueLimit

(* close_slow_consumers reads every queue without the sessions' lock, and  *)
(* takes it again to mark the sessions that are still there.               *)
Scan(w) ==
  /\ Moves(w, "scanning", "marking")
  /\ Free("sessions") /\ Free("core")
  /\ awaiting' = [awaiting EXCEPT ![w] = FALSE]
  /\ scanned' = [scanned EXCEPT ![w] = {v \in entries \cap opened : IsSlow(v)}]
  /\ UNCHANGED <<files, entries, late, terminal, coreVars, held, daemonVars>>

Mark(w) ==
  /\ Moves(w, "marking", "top")
  /\ Free("sessions")
  /\ terminal' = [v \in Workers |-> terminal[v] \/ v \in scanned[w] \cap entries]
  /\ scanned' = [scanned EXCEPT ![w] = {}]
  /\ UNCHANGED <<files, entries, awaiting, late, coreVars, held, daemonVars>>

----------------------------------------------------------------------------
(* Messages of file connections.                                           *)

(* One that comes when the hub is not ready, or is malformed, ends the     *)
(* connection without a word; one too many is answered.                    *)
AdmitFile(w) ==
  /\ files[w]
  /\ Free("sessions") /\ Free("core")
  /\ \/ Moves(w, "reading", "closing")
     \/ Ready /\ Moves(w, "reading", "filing")
     \/ Ready /\ Moves(w, "reading", "replying")
  /\ UNCHANGED <<sessionVars, coreVars, held, daemonVars>>

(* The file store's lock is kept until the answer is written, so that no   *)
(* clear comes between the two.                                            *)
TakeFiles(w) ==
  /\ Moves(w, "filing", "filed")
  /\ Takes("files", w)
  /\ UNCHANGED <<sessionVars, coreVars, daemonVars>>

HandleFile(w) ==
  /\ Free("core")
  /\ \/ Moves(w, "filed", "sending") /\ UNCHANGED held
     \/ Moves(w, "filed", "closing") /\ Gives("files")
  /\ UNCHANGED <<sessionVars, coreVars, daemonVars>>

SendFile(w, to) ==
  /\ to \in {"top", "closing"}
  /\ Moves(w, "sending", to)
  /\ Gives("files")
  /\ UNCHANGED <<sessionVars, coreVars, daemonVars>>

----------------------------------------------------------------------------
(* The end of a session (close_session, close_with, SessionCleanupGuard).  *)

(* Ids are never used again: what a scan has found is lost with the entry. *)
Forget(w) ==
  /\ Free("sessions")
  /\ entries' = entries \ {w}
  /\ awaiting' = [awaiting EXCEPT ![w] = FALSE]
  /\ late' = [late EXCEPT ![w] = FALSE]
  /\ terminal' = [terminal EXCEPT ![w] = FALSE]
  /\ scanned' = [v \in Workers |-> IF v = w THEN {} ELSE scanned[v] \ {w}]

Leave(w) ==
  /\ Free("core")
  /\ opened' = opened \ {w}
  /\ phase' = [phase EXCEPT ![w] = "none"]
  /\ replay' = [replay EXCEPT ![w] = FALSE]
  /\ backlog' = [backlog EXCEPT ![w] = 0]
  /\ ahead' = [ahead EXCEPT ![w] = 0]
  /\ buffered' = [buffered EXCEPT ![w] = 0]

(* After a missed deadline or a notice the session is closed before the    *)
(* peer is told; otherwise, afterwards.  The guard closes it once more.    *)
CloseEntry(w) ==
  /\ Moves(w, "evicting", "evicted") \/ Moves(w, "closing", "leaving")
  /\ Forget(w)
  /\ UNCHANGED <<files, coreVars, held, daemonVars>>

CloseSession(w) ==
  /\ Moves(w, "evicted", "parting") \/ Moves(w, "leaving", "idle")
  /\ Leave(w)
  /\ UNCHANGED <<sessionVars, held, daemonVars>>

(* close_with writes the failure and the close frame, and goes on if it    *)
(* cannot.                                                                 *)
Part(w) ==
  /\ Moves(w, "parting", "closing")
  /\ UNCHANGED <<sessionVars, coreVars, held, daemonVars>>

----------------------------------------------------------------------------
(* The specification.                                                      *)

(* Steps that wait for nothing but the processor, a lock or a time limit.  *)
Proceeds(w) ==
  \/ ListFileSources(w)
  \/ Open(w) \/ Top(w) \/ Sample(w) \/ Store(w) \/ Judge(w) \/ Lease(w)
  \/ CompleteResume(w) \/ Read(w, "top")
  \/ Resume(w) \/ Publish(w) \/ Ack(w) \/ Clear(w) \/ CommitClear(w) \/ AnswerClear(w)
  \/ SyncFiles(w) \/ Scan(w) \/ Mark(w)
  \/ TakeFiles(w) \/ HandleFile(w)
  \/ CloseEntry(w) \/ CloseSession(w)

(* Steps that wait for the peer to read what is written.                   *)
Delivers(w) ==
  \/ Greet(w) \/ Written(w) \/ Replied(w, "top") \/ SendFile(w, "top") \/ Part(w)

(* The connection breaks while something is written.                       *)
Breaks(w) ==
  \/ GreetFails(w) \/ WriteFails(w) \/ Replied(w, "closing") \/ SendFile(w, "closing")

(* What a peer does, or time.                                              *)
Happens(w) ==
  \/ Accept(w) \/ TurnAway(w) \/ ReadRequest(w)
  \/ Answer(w) \/ Readiness(w) \/ ListSources(w) \/ Claim(w) \/ Refuse(w) \/ Overdue(w)
  \/ \E to \in {"replying", "parting", "closing"} : Read(w, to)

Talks(w) == (\E m \in Messages : AdmitText(w, m)) \/ AdmitFile(w)

Runs(w) == Proceeds(w) \/ Probe(w) \/ Drained(w) \/ Delivers(w) \/ Breaks(w)

Listens == Sample(Listener) \/ Store(Listener) \/ ExpireFiles

Crosses ==
  crossed' = [w \in Workers |->
    w \in opened' /\ ((w \in opened /\ crossed[w]) \/ Events(w)' > QueueLimit)]

EdgeNext ==
  /\ DaemonTurns \/ Listens \/ \E w \in Workers : Happens(w) \/ Talks(w) \/ Runs(w)
  /\ Crosses

EdgeSpec == EdgeInit /\ [][EdgeNext]_edgeVars

(* A thread that is ready runs again and again, gets a lock that is free   *)
(* again and again, and probes every 60 s; a worker that finds its queue   *)
(* empty again and again gets to read.  Whether a write ends is the peer's *)
(* to decide, and nothing makes a peer connect, send or hang up.           *)
EdgeFairness ==
  /\ SF_edgeVars(Listens /\ Crosses)
  /\ \A w \in Workers :
       /\ SF_edgeVars(Proceeds(w) /\ Crosses)
       /\ SF_edgeVars(Probe(w) /\ Crosses)
       /\ SF_edgeVars(Drained(w) /\ Crosses)
  /\ \A w \in Readers : SF_edgeVars(Delivers(w) /\ Crosses)

----------------------------------------------------------------------------
(* Safety.                                                                 *)

(* A worker that serves has its entry at the edge and its session in the   *)
(* core, one that has ended has neither, and the two limits hold: a place  *)
(* that leaked would keep peers out for good, and one counted too late     *)
(* would let too many in (upgrade, SessionCleanupGuard, close_session).    *)
SlotsMatchWorkers ==
  /\ \A w \in Workers :
       /\ at[w] \in Serving => w \in entries /\ w \in opened
       /\ at[w] \in {"idle", "arrived", "asked", "sourcing", "opening"} => w \notin entries /\ w \notin opened
  /\ Cardinality(entries) <= MaxConnections
  /\ \A w \in Workers : Cardinality(OfPeer(w)) <= MaxConnectionsPerPeer

(* A session is closed as slow only if its own queue has passed the bound, *)
(* whoever looked, and however many sessions came and went since           *)
(* (close_slow_consumers).                                                 *)
OnlySlowAreClosed == \A w \in Workers : terminal[w] => crossed[w]

----------------------------------------------------------------------------
(* Liveness, with EdgeFairness.                                            *)

(* If every peer reads what it is sent, a session that has not resumed by  *)
(* its deadline is closed, whatever the other sessions do (tick).          *)
OverdueIsClosed == \A w \in Workers : late[w] ~> ~late[w] \/ ~awaiting[w]

(* If every peer reads, a session marked as slow is closed, unless from    *)
(* some time on its queue is never empty: its worker looks at the mark     *)
(* only when it has written the whole queue (close_slow_consumers,         *)
(* take_terminal_error).                                                   *)
SlowIsClosed ==
  \A w \in Workers : <>[]terminal[w] => <>[](backlog[w] > 0)

(* Threads may store the daemon's answers in another order than that in    *)
(* which it gave them.  Once the daemon stays up the hub becomes ready and *)
(* stays so; once it stays down no session is left (poll_localapi).        *)
DaemonDecides ==
  /\ <>[]daemon => <>[]~notReady
  /\ <>[]~daemon => <>[](entries = {})

(* The listener comes back to accepting connections.                       *)
AdmissionContinues == []<>(at[Listener] = "accepting")
=============================================================================
