# ClipMesh in TLA+

Specifications of ClipMesh, one person's clipboard across the devices of one
Tailnet. They live beside the code, are written from it, and are checked with
TLC on small instances and, where it is said below, proved with TLAPS for every
instance. Paths are relative to the repository; `hub-core` stands for
`crates/clipmesh-hub-core/src`, and so on.

## The system

A **hub** accepts WebSocket connections from **clients**: a desktop agent on
Linux or macOS, or the iOS app. A client publishes what its user copies; the hub
orders it, keeps it for a while, and offers it to the other clients. Text goes
through the hub's core, files through a store of their own. Anyone admitted may
clear the shared history, which begins a new *clear generation*.

| Part | Code | State it keeps | Operations |
|---|---|---|---|
| Hub core | `hub-core/lib.rs` | SQLite: `hub_meta` (epoch, generation, cursor high water, lost-through cursor), `clips`, `message_tombstones`, `clear_receipts`; in memory: one queue, phase and offered cursor per session | open, open/close session, begin/complete resume, publish, acknowledge, clear, retention, leases on outgoing events |
| File store | `hub-core/file_store.rs` | SQLite: uploads, chunks, selections and their members, the generation they belong to | begin, append, finish, publish, read, history, expire, sync with the core's generation |
| Hub edge | `hub-edge/lib.rs` | per connection: rate windows, deadlines, the event being written; per peer: buckets, connection counts; the cached peer directory | admission, one worker thread per socket, periodic listener work, source metadata |
| Hub start | `hub-edge/lib.rs` (`bind`), `open` of both stores | the files of both databases, the address | create, validate, load, reconcile, bind |
| Agent core | `agent-core/lib.rs`, `store.rs` | SQLite: context, last cursor, outbox, history, processed ids, loop marker; in memory: state, session, pending acknowledgement | observe, publish answers, receive, clear notice, lock, pause |
| Agent transport and loop | `agent/lib.rs`, `main.rs` | the connection, backoff, last revision seen, heartbeat | connect and catch up, drive |
| Files on a desktop | `agent/main.rs`, `files.rs` | what has arrived, the selection held, one upload, one download | poll, download, upload, show, forget |
| Desktop adapters | `agent-linux`, `agent-macos` | selection generations shared with an event thread, lock state | observe, write, compare revisions |
| Agent start | `agent-core/store.rs`, control socket of both adapters | the store's file, the socket's path and clients | create or open, recover the path, serve commands |
| Protocol | `protocol` | none | encode, decode, validate |
| iOS app | `mobile/ClipMesh` | session model, file history, tasks in flight | the same protocol, driven by taps |

How they interact. A worker owns one socket: it reads a message, calls the core,
and between messages drains the session's queue, holding a *lease* on the head
of the queue (the core's lock) while it writes. The core appends to *other*
sessions' queues inside the transaction that accepts a clip or a clear. Files
share one mutex; `handle_clear` takes it first, commits in the core, then brings
the file store to the new generation. An agent is one thread that alternates
between its control socket, the clipboard and the hub's messages.

What is hard: a session that resumes while others publish; a clear that meets
queues half written and replays half done; a clock that is set back; a retry of
a request whose answer was lost; a restart between two commits; locks that are
kept while a peer is waited for; threads that store what they learned in another
order than they learned it; and on the desktop, telling one's own writes from
the user's copies while threads and other programs change the clipboard. `PROJECT.json` lists
every such hazard at its line.

What makes each part correct:

- *Hub core*: every client sees every clip once and in the order of cursors, or
  is told that it missed some; nothing of a cleared generation is delivered
  after the clear; a retry never acts twice.
- *File store*: what is published stays whole and readable for as long as it is
  listed; a clear removes it even if something fails half way; storage stays
  within its bounds.
- *Edge*: a worker ends when its session has; limits limit; only the slow are
  closed as slow, and they are; readiness follows the daemon.
- *Hub start*: a history once begun is kept, with its files, however starts
  overlap.
- *Agent*: what is shown was recorded first, shown once, and never published
  back; what the user copied while sharing was off stays private (it
  does not: finding `NeverBackfilled`); after a clear
  nothing of before is kept.
- *Desktop*: old files are not shown, one's own are not fetched back, what is on
  the clipboard exists; an observation is of one selection, and a write is told
  its own revision; a healthy stream stays up and a dead one is dropped; one
  agent serves, and an abandoned socket keeps no other out.
- *iOS app*: a task that outlives its connection changes nothing.

## The modules

| Module | What it is |
|---|---|
| `Ordered` | sets of numbers in ascending order, used by both stores |
| `ClipLog` | the promise: one log of clips, appended and taken away, with generations |
| `HubCore` | the hub core with its sessions and the workers that drain them |
| `FileShelf` | the promise: selections put on a shelf whole, never changed, taken away whole |
| `FileStore` | the file store with the edge's calls |
| `HubEdge` | the hub's threads, their three locks, admission, the loop of a worker, readiness |
| `RateBucket` | the buckets and windows that limit a peer, with their integer widths |
| `PeerDirectory` | the cache of peer names that several threads fill |
| `HubStart` | starts of hubs on one state directory |
| `Agent` | a desktop agent: its core and its store, driven by its run loop, between a user and a hub |
| `FileLoop` | the same loop's part for files, with its threads, the hub's shelf and other desktops |
| `Clipboard` | the promise of a desktop adapter |
| `LinuxClipboard`, `MacClipboard` | the two adapters |
| `Heartbeat` | the two ends of a clip stream and the time between frames |
| `AgentStart` | starts of agents, their store's creation and their control socket |
| `MCHubCore`, `MCFileStore`, `MCAgent`, `MCEdge`, `MCDesktop` | instances for TLC: values, symmetry, and which machines run |
| `OrderedProofs` | lemmas about `Ordered`, sequences and subsequences, sums over sets, and sequences joined |
| `HubCoreProofs`, `HubSessionProofs`, `FileStoreProofs`, `HubEdgeProofs` | the theorems about the stores and the edge; `HubSessionProofs` has what sessions are offered |
| `HubPartProofs` | those about `RateBucket`, `PeerDirectory` and `HubStart` |
| `AgentProofs` | those about `Agent` |
| `DesktopProofs` | those about `FileLoop`, the two adapters, `Heartbeat` and `AgentStart` |

The models meet where the code's parts do: `HubCore` is the log that `Agent`'s
hub shows a part of; `FileStore` is the shelf (`FileShelf`) that `FileLoop`
polls and uploads to; `HubEdge` has of both stores what decides about locks,
queues and the lives of sessions; `Agent` and `FileLoop` see a clipboard as
`Clipboard` promises it, selections in an order of revisions.

### HubCore

State: the tables (`history_epoch`, `clear_generation`, `cursor_high_water`,
`lost_through_cursor`, clips, tombstones, receipts), the sessions (phase, queue,
handover buffer, what was offered), the workers and the clock. One action is one
call of the core, which runs under one lock and in one transaction; a call that
the core refuses changes nothing and is a stutter. `BeginResume` to
`CompleteResume` are several actions, because the worker writes the replay in
between. A worker is `awaiting_resume`, `looping`, `completing` (it has written
`resume_complete` and not yet told the core) or `closing`. `Restart` keeps the
tables and loses the sessions; `RestartOnFreshDatabase` draws a new epoch.
`ClockMoves` sets the clock to anything, backwards too: `unix_ms` is wall time.

Left out: payloads and digests (a clip is its message id and draft), the length
of queues (`HubEdge` has it), storage errors (SQLite rolls back, so they are
stutters).

### FileStore

State: uploads with their chunks, selections with their members, the generation
the store is at, the core's generation, and whether `handle_clear` is between
its two commits. Every message carries a time of its own, because the worker
reads the clock before it waits for the message. Content is a sequence of
bytes and a hash is the content it is the hash of, so `Finish` compares what the
chunks add up to; `Chunk` computes what a read yields across chunk boundaries.

Left out: names, media types and the wording of a manifest; `FileStore::clear`,
which only tests call.

### HubEdge

State: where the listener and each worker stand, the edge's sessions
(`entries`, with the deadline, the mark of a slow consumer and whether the
resume is still awaited), and of the core's sessions the phase and how much of
the queue counts as backlog, up to one more than the bound. `held` names the
owner of each of the three locks: the edge's sessions, the core, the file store.

A step takes the locks it needs and gives them back, unless the code keeps one
while it waits: `Claim` to `Open` keeps the sessions' lock so that a place is
counted once, `Lease` keeps the core's while an event is written to the socket,
`Clear` to `SyncFiles` and `TakeFiles` to `SendFile` keep the file store's. What
waits for the peer to read (`Delivers`) is told from what waits for a lock or
the processor (`Proceeds`), because no write has a time limit. The scan for slow
consumers and their marking are two steps, as in `close_slow_consumers`, and so
are asking the daemon and storing its answer.

Left out: what a message does to the stores, the parsing of HTTP and frames (an
outcome), the core's terminal failures as a reason not to be ready.

### RateBucket

The code has two ways to refill: `RateBucket::take` keeps the fraction of a
token earned so far (`Kept`), `consume_message_token` drops it (`Dropped`). A
refill is computed in 64 bits, rounds towards zero and is cast to `u32`; `Word`
is 2^32 in the code, so a time older than the last gives a huge refill and a
full bucket. A request carries the time its worker read before it waited, and so
may be older than the one before it with no clock set back.

### PeerDirectory

Times only: when the daemon listed what the cache holds, when it was stored,
until when a failure forbids another question. The cache's lock is not kept
while the daemon is asked, so a list may be stored over a newer one.

### HubStart

State: how much of the core's database there is, its epoch and generation, the
files on the shelf with the generation the store is at, and for each process how
far its start is and what it has read. A start decides by the length of the file
whether the database is to be created, creates the tables in one transaction,
reads the counters, brings the file store to their generation, and only then
binds the address, which is all that keeps hubs apart. Processes are killed
between any two steps, and a start may overlap with another or with a hub that
serves, clears and shelves files.

### Agent

State: what is stored (epoch, generation, last cursor, outbox, history, loop
marker) and what is in memory (the core's state, its session, the pending
acknowledgement, the loop's last revision). The agent is one thread, and `at` is
the part of `run_desktop`'s loop that comes next: `control`, `lock`, `connect`,
`resume` (inside `establish_live`), `observe`, `commit`, `drive`, `write`,
`mark`, `ack`, `end`. A part is one or more calls of the core that run without
an outside step mattering between them; taking a live clip is three, because the
record, the write to the clipboard and the marker are three effects between
which the process may be killed (`TakeLiveClip`, `Write`, `Mark`). The lock state is read anew in each turn and may be anything
(`PollLock`). Between any two parts the user copies (`Copy`), the hub clears or
starts on a fresh database, the store or the clipboard fails within a call
(`StoreFails`, `AdapterFails`), or the process is killed and started again
(`Start`): what is stored survives, except that opening the store drops the loop
marker.

The hub is what a connection shows of it: an epoch, a generation, clips in the
order of cursors, answers in the order of requests, and after a clear one notice
and then silence. It is given freedom where the agent cannot tell: any clip may
be missing from a replay, because it expired or was trimmed.

A clip is its cursor and generation, a text is the revision of the clipboard it
was copied at. Where the code decides by bytes or by a clock the model leaves
the outcome open: a full outbox (`OUTBOX_MAX_BYTES`), rows that are too old, an
acknowledgement that must wait its second.

Left out: files, images, the shared clear that the user asks for (all it changes
is at the hub), the backoff (it only delays), and the token of an observation
(the loop begins and commits one without a step between).

Bounds of the agent: `EpochMax`, `GenerationMax`, `CursorMax`, `RevisionMax` and `MessageMax`
end histories, clears, clips, changes of the clipboard and drawn message ids.
`OutboxMax` is the code's `OUTBOX_MAX_EVENTS`.

### FileLoop

The loop of `run_desktop` again, now for what it does with files: `pc` is the
part that comes next (`top`, `result`, `write`, `record`, `upload`, `connect`,
`poll`, `observe`, `drive`). Beside it run the thread that lists the hub's
selections or downloads one (`file_job`) and the thread that uploads one
(`file_upload`), both with a flag that cancels them and both free to finish
after it is set. The hub's shelf is what `FileShelf` promises: selections
appear, expire and are cleared. `disk` is the set of directories of received
selections, which are removed when the loop drops what held them. The look at
the clipboard's revision and the write that depends on it are two steps, and the
user may copy between them, as the code's comment concedes.

A pause is a lock here, since the loop treats both the same. The shelf is in the
order in which selections came: the hub's clock is taken not to be set back.

### Clipboard, LinuxClipboard, MacClipboard

`Clipboard` is what the agent relies on: whoever asks gets a selection together
with its own revision, never one older than what was told before, and a write is
told the revision of a selection that the agent made since.

`LinuxClipboard` has the state that the thread of Wayland events, the threads
that read selections from their owners and the agent's main thread share under
one mutex. A selection's generation decides whether what was read is still of
interest (`PublishReady`); a marker that only the agent knows tells the agent's
own selection from one the user made while the write was waiting (`IsWritten`).
It implements `Clipboard` (`ImplementsClipboard`). Nobody takes observations out
of their channel, so the threads that hand them over stay; no call waits for
them.

`MacClipboard` has no thread but needs several calls of AppKit for one
observation, between which another program may clear the pasteboard and put its
own; the code counts the changes before and after. The revision that a write is
told is read after it and may be of a program that wrote at once, so no
property speaks of it.

### Heartbeat

Time in ticks since the events the code remembers. The worker sends what is
queued, or a ping when it has written nothing for `PingAfter`, and gives up when
no pong came within `PongWithin`; the agent gives up when no frame came for
`SilenceTimeout`. Frames are under way for at most `LatencyMax` while the path
is whole; `Cut` loses what is under way and tells neither end.

### AgentStart

How much of the store there is, who owns the socket at the path and whether its
mode is set, the connections that wait, and where each process is. The store is
created statement by statement, each on the disk before the next. The code of
the control socket is the same in both adapters. A process may be killed
anywhere. A start takes no lock: looking at the path, connecting to the socket
found there, removing it, binding, setting the mode and looking again are steps
of their own, and so are looking for the store and making its file. Other
starts, and agents that run or end, come between them; what is removed or
changed at the path is whatever is there by then. Three variables are history:
`torn`, `alone`, the start that no other process has overlapped, and `raced`,
set when two processes that run have both found the same abandoned socket.

## What TLC checks

| Run | Instance | Shows |
|---|---|---|
| `hub_sessions` | 2 sessions, 3 cursors, 2 generations, 2 retained rows; 763,618 states | `OffersInOrder`, `NothingSkipped`: a session is offered a gapless ascending run of the log, each clip once, and can acknowledge exactly what it was offered. `NoClearedClipOffered`: no queue holds a clip of before the clear. `LeftBehindIsTold`: a session of an older generation has a notice waiting |
| `hub_retention` | 1 session, 3 cursors, 4 message ids, 3 generations, 2 epochs, clock 0..3; 673,288 states | `LossIsRemembered`, `GapIffMissed`: a resume says `gap` exactly when clips were lost that the client has not seen. `OneGenerationPerClear`: a retried clear never acts twice. `ImplementsClipLog`: nor does a retried publish |
| `hub_liveness` | 2 sessions, 2 cursors, no clock | `LeftBehindEnds`, `OffersAreWritten` under fair workers |
| `file_transfer` | 2 peers, files of 0 and 3 bytes, chunks of 1 and 2, 2 uploads, 2 selections, clock 0..2 | `ExpiryNeverRefused`: the foreign key never stops an expiry. `ReadsAreWhole`: every read of a listed file, at every offset, yields its bytes. `StorageBounded`. `NothingOlderReadable`: a clear reaches the files whatever interrupts it. `ImplementsFileShelf` |
| `file_sources` | as `file_transfer` | *violated*: see Findings |
| `edge_sessions` | 3 slots of 2 peers, 2 connections, 1 per peer, a queue of 1; buckets of 2; 2 hubs; 2 requests for names; 488,184 states | `SlotsMatchWorkers`: no place leaks and no limit is passed. `OnlySlowAreClosed`: however sessions come and go between a scan and the marking. `GrantsAreEarned`: what a bucket grants under clocks that run on and back. `EpochIsKept`, `StartsKeepFiles`: starts that overlap and are killed. `NamesAreRecent`: names that several threads fetch |
| `edge_closes` | 2 slots, both peers read; 16,435 states | `OverdueIsClosed`, `SlowIsClosed`, `DaemonDecides` under fair threads |
| `edge_admission` | 2 slots, one peer does not read | *violated*: see Findings |
| `agent_states` | outbox of 1, 2 epochs, 2 generations, 3 cursors, 2 revisions, 1 message; 4.7 million states | `NeverEchoed`: the agent's own write is not published as the user's copy, also after a reconnect or on another history. `OutboxIsSent`: no row waits for ever in a live session. `ShownIsRecorded`: what reached the clipboard is recorded, wherever the agent was killed. `AcksAreDurable`: what it acknowledges too. `NothingOlderKept`: a clear reaches the agent, by notice or by hello. `NeverRollsBack` |
| `agent_skips`, `agent_backfills` | smaller | *violated*: see Findings |
| `desktop` | one own and two other selections; 3 Wayland selections; 4 pasteboard changes; a heartbeat of 30, 10 and 35 s; 2 processes and 2 clients; 783,416 states | `NothingOldShown`, `NoFileEcho`, `ShownFilesExist`: files that come and go while sessions end. `ImplementsClipboard`, `CallsReturn`, `SnapshotsAreWhole`: the two adapters. `HealthyStaysUp`, `DeadIsDropped`: the heartbeat. `OneAgentServes`, `CommandsAreAnswered`: agents whose starts overlap, that are killed and are sent commands |

`MCEdge` and `MCDesktop` hold machines that share nothing in these models. In
every behaviour one of them runs, which `theme` and `machine` name; the themes
of `MCEdge` also divide what connections do, because connections that crowd in,
sessions that talk and a daemon that restarts, all at once, are more than TLC
can visit. Where `edge_closes` checks liveness a theme keeps its connections
steady and lets one of two peers only listen.

The bounds are small and chosen so that the interesting cases happen: two
retained rows make the third publish trim; three cursors let a clip be trimmed
while another session replays, a tombstone outlive its clip and a loss follow a
loss; a fourth message id finds the cursors used up; two clocks apart by more
than the retention expire rows out of order; a three-byte file in chunks of at
most two bytes needs a chunk boundary inside a read, and a quota of five has
room for one such file and not for two. At the edge, three slots compete for
two places of which one peer may have one; a queue of one is passed by two
clips, or by a clip and an answer; a bucket of two and an interval of two ticks
let a fraction be kept, dropped and lost to a clock set back. The agent's
clipboard changes twice, so that a copy can overtake the agent's write and a
full outbox can empty; three cursors let a replay end before the newest and a
live clip follow a gap. `EventMax` of the desktop adds up connections, ids and
clears, so that two of them meet in every combination. The heartbeat's times are
the code's, in seconds, with the shortest silence timeout that a configuration
may have. `hub_liveness` and `edge_closes` have no symmetry, which would
be unsound for liveness.

Deadlock is checked in every run but `desktop`, whose machines really stop: an
adapter that fails ends the process, a clipboard reaches its last revision, both
ends of a stream are gone; a new process is a new behaviour, or `AgentStart`'s.

Larger instances were checked by hand: `FileLoop` with two own selections and
four revisions (9.2 million states) and with four revisions alone (18.8
million), `LinuxClipboard` with four selections (1.8 million), `Heartbeat` with
a latency of three (62,755), `PeerDirectory` with a `Ttl` of 4 up
to instant 12 (189,188), `Agent` with two messages (6.3 million).

`PROJECT.json` gives, for each property, a mutant: a plausible bug in the code
under which TLC finds the property violated.

### Fairness

Safety needs none, and the liveness properties assume only what the code's
threads do by themselves:

- `WorkerFairness` (`HubCore`): weak fairness of each worker's own steps,
  `WriteNextEvent`, `CompleteResume` and closing, which `serve_socket`'s loop
  takes whenever they are possible. Nothing is assumed of the clients: none has
  to send, resume or acknowledge.
- `EdgeFairness` (`HubEdge`): strong fairness of each thread's steps, since a
  thread that waits for a mutex gets one that is free again and again, though
  not always free. A write ends only for a slot in `Readers`; which slots these
  are is a constant, and `edge_admission` shows what happens with one that is
  not. Nothing makes a peer connect, talk or hang up, but a worker that finds
  its queue empty again and again gets to read.
- `LinuxFairness`: the event thread and the readers run on, and the owner of a
  selection sends it or ends, which is what the code waits for without a limit.
- `HeartFairness`: time passes, the worker goes round (its reads wait for one
  second), the agent reads.
- `StartFairness`: a process that is not killed goes on. Reading a command has a
  time limit, so the step that drops a silent client is the process's own.

## What is proved

| Theorem | States |
|---|---|
| `HubCoreProofs!TypeCorrect` | `Spec => []TypeOK` |
| `HubCoreProofs!LossAlwaysRemembered` | `Spec => []LossIsRemembered` |
| `HubCoreProofs!HubImplementsClipLog` | `Spec => ImplementsClipLog` |
| `HubSessionProofs!NoClearedClipEverOffered` | `Spec => []NoClearedClipOffered` |
| `HubSessionProofs!LeftBehindAlwaysTold` | `Spec => []LeftBehindIsTold` |
| `HubSessionProofs!ClearsAreCountedOnce` | `Spec => []OneGenerationPerClear` |
| `HubSessionProofs!OffersAlwaysInOrder` | `Spec => []OffersInOrder` |
| `HubSessionProofs!NothingEverSkipped` | `Spec => []NothingSkipped` |
| `HubSessionProofs!GapAlwaysIffMissed` | `Spec => []GapIffMissed` |
| `FileStoreProofs!FilesTypeCorrect` | `Spec => []TypeOK` |
| `FileStoreProofs!ExpiryAlwaysAllowed` | `Spec => []ExpiryNeverRefused` |
| `FileStoreProofs!ClearReachesFiles` | `Spec => []NothingOlderReadable` |
| `FileStoreProofs!StoreImplementsFileShelf` | `Spec => ImplementsFileShelf` |
| `FileStoreProofs!StorageAlwaysBounded` | `Spec => []StorageBounded` |
| `FileStoreProofs!ReadsAlwaysWhole` | `Spec => []ReadsAreWhole` |
| `HubEdgeProofs!SlotsAlwaysMatch` | `EdgeSpec => []SlotsMatchWorkers` |
| `HubEdgeProofs!OnlySlowAlwaysClosed` | `EdgeSpec => []OnlySlowAreClosed` |
| `HubPartProofs!GrantsAreEarnedAlways` | `BucketSpec => []GrantsAreEarned` |
| `HubPartProofs!EpochAlwaysKept` | `HubStartSpec => EpochIsKept` |
| `HubPartProofs!StartsAlwaysKeepFiles` | `HubStartSpec => StartsKeepFiles` |
| `HubPartProofs!NamesAlwaysRecent` | `DirectorySpec => []NamesAreRecent` |
| `AgentProofs!AgentTypeCorrect` | `Spec => []TypeOK` |
| `AgentProofs!ShownAlwaysRecorded` | `Spec => []ShownIsRecorded` |
| `AgentProofs!AcksAlwaysDurable` | `Spec => []AcksAreDurable` |
| `AgentProofs!ClearsReachTheAgent` | `Spec => []NothingOlderKept` |
| `AgentProofs!NothingEchoed` | `Spec => []NeverEchoed` |
| `AgentProofs!OutboxAlwaysSent` | `Spec => []OutboxIsSent` |
| `AgentProofs!NeverRolledBack` | `Spec => NeverRollsBack` |
| `DesktopProofs!ShownFilesAlwaysExist` | `LoopSpec => []ShownFilesExist` |
| `DesktopProofs!NothingOldIsShown` | `LoopSpec => NothingOldShown` |
| `DesktopProofs!NoEchoWhileRemembered` | `LoopSpec /\ []RemembersMine => NoFileEcho` |
| `DesktopProofs!SnapshotsAlwaysWhole` | `MacSpec => []SnapshotsAreWhole` |
| `DesktopProofs!LinuxImplementsClipboard` | `LinuxSpec => ImplementsClipboard` |
| `DesktopProofs!HealthyAlwaysUp` | `HeartSpec => []HealthyStaysUp` |
| `DesktopProofs!OneAgentAlwaysServes` | `StartSpec => OneAgentServes`, starts overlapping; it excepts two that found the same abandoned socket |

Each holds for every value of the constants that satisfies the named assumption
of its module, `HubCoreAssumption` and so on (`HubStart` needs none): sets of
sessions, peers, connections, processes and files of any size, any limits, any
clock. Most assumptions say only that a bound is a number and that what stands
for nothing is not something. Three say more. A chunk has at least one byte and
no more than `ChunkBytes` (the edge sends no other message to the store). The
buckets' times, which matter by their differences only, are less than the word
apart (`TimeMax + Burst < Word`): the theorem speaks of 49 days of requests,
counted in milliseconds. The heartbeat's times must allow for the network
(`HeartbeatAssumption`, see below). The type invariants of `HubCore`,
`FileStore` and `Agent` are proved and therefore in no run. TLC checked
the inductive invariants on an instance before they were proved.

*Hub core.* `TypeOK` is inductive by itself, with one lemma per operation that
needs an argument. A row leaves only in `TrimTransaction`, which raises
`lost_through_cursor` over everything it removes, or in a clear, which sets it
to the high water; with the types that makes `LossIsRemembered` inductive,
whatever the clock did. The refinement maps the tables to the log; every
operation is an append, a removal, a new generation, a new epoch or a stutter.
It needs `RowsAssigned` besides the types: no row has a cursor above the high
water, without which an append could meet a row that is there already. What a
trim keeps is a subset defined by positions in the order of
cursors, so the proof rests on `OrderedProofs`: a finite set of numbers is
listed by `Nth`, and the largest and the least exist.

*Clears.* `ClearInv` has three parts. `RowsCurrent`: every row of the tables is
of the current generation, since a clear deletes them all and a publish of
another generation is refused. `ReceiptsCount`: there is a receipt for each
generation but the first, so the number of receipts counts the clears.
`Sound(s)` for each session: the clips in its queue and its handover are current
(`HoldsCurrent`), and its phase fits the worker and the queue (`PhaseFits`): the
end of a resume is queued only while it replays, a notice only once it is stale,
and a stale session has its notice or a worker that is about to end it. The work is in sequences: a
clear filters every queue and appends a notice, a resume fills a queue from the
rows, `CompleteResume` appends the handover, and a lease takes the head off.

*Offers.* The clips of a session are in three places: what it was written, what
its queue holds, and during a replay what is held back for the handover.
`OfferInv` says of each session that every clip of a place comes after those of
the place before, in cursor order and none twice (`InOrder`); that none is newer
than the cursors given out (`Assigned`); that the highest cursor it may
acknowledge is the newest clip written or queued (`HighestFits`); that only a
replay holds clips back (`OffersFitPhase`); that every row after the cursor it
resumed at is in one of the three (`AllOffered`); and that `resume_started`, at
the head of the queue, tells the truth of the replay behind it (`StartIsTrue`).
The step that needs most of it is `CompleteResume`, where the handover joins the
queue: it continues it, because it holds what was published since the replay was
chosen. For `GapIffMissed` the rows must also differ in their cursors and the
lost cursor must be of no row (`RowsDiffer`, `LostIsGone`).

*Edge.* `SlotInv` says where a worker may stand with and without its place
(`Placed`), that room was found under a lock that has been kept since
(`Limited`), and that a session found slow by a scan has passed its bound and is
still the same session (`Marked`), since ids are not used again.

*Buckets.* The invariant of a bucket is that what it granted, what it holds and
the fraction it keeps are paid for: `spent * Interval` and the rest together
never exceed a burst, the time that passed and a burst for every older time. A
refill of a negative time wraps around the word, but the bucket takes at most a
burst from it. The proof is arithmetic with products of variables, so each
lemma states the products it needs.

*Names.* `DirectoryInv`: nobody asks for longer than `AskMax`, the cache holds
what the daemon said no longer than a question before it was stored, and what is
served was within its time. Threads that store in any order make the cache
older by one question and no more.

*Starts.* `StartInv`: there is an epoch once the tables are whole, who has read it
knows it, and one process serves at a time (`EpochFits`); what is on the shelf is
of the generation its store is at, and unless a clear overtook a start, who has
read the generation knows it (`ShelfFits`). Two starts may both find the database
absent; the transaction that makes the tables lets one of them through.

*File store.* The inductive invariant is `IInv`: the type invariant, the store
is never ahead of the core's generation, and `Good`: rows are of the store's
generation, members of a selection are complete uploads that expire no earlier
than it, and a complete upload holds the bytes its descriptor names.
`Good` is stated of *tables*, not of the variables, so that it can be applied to
what `sync_generation` leaves as well as to what is stored: each operation first
brings the tables up to date and then acts on the result.

For what the rows hold, `KeptInv` adds `Kept`: what is reserved is within the
quota, the rows of chunks within their bound, what is complete was received
whole, and the chunks of each upload are `Laid`: each begins where another ends,
the first at 0, and the last ends where the upload stands. From `Laid` follow
what `Bytes` joins and what `Chunk` reads (`BytesAreLaid`, `ReadIsWhole`): the
rows between two offsets, cut at both ends, joined, are that part of the file.
Both fold over data, sums over sets and joins of sequences. The library's
theorems of induction cannot be instantiated here, so `OrderedProofs` proves
what it needs from the least counterexample: a set of numbers, or of sizes of
subsets, that is not empty has a least element (`LeastExists`,
`SubsetInduction`, `UpToInduction`). From these come that the equation of a sum
has a solution and does not depend on the order of the elements (`SumExists`,
`SumLessOne`), that a part of a table sums to no more and a new row adds what it
counts (`TotalOfLess`, `TotalWithOne`), and where each piece of a joined
sequence lies (`FlattenJoins`).

*Agent.* One inductive invariant, `IInv`, carries all seven: the checked
invariants and four parts that hold them together. `SessionFits`: a session is
there when the core is live, while it catches up and while a clip is written,
and never else, so an acknowledgement never outlives its session. `PartFits`:
each part of the loop finds what the part before it left. `HistoryFits`: the
agent's epoch is not ahead of the hub's, so no clip that was shown can belong to
a history the agent will only meet later. `MarkerFits`: the agent's own write,
as long as it is what the clipboard holds, is marked, about to be marked, of
before a clear, or the core has stopped; that is why `commit_observation` cannot
take it for a copy. There is one lemma per action, and in it one step per part.

*Files on a desktop.* `LoopInv` says that a selection comes to the hub once, so
that nothing the loop has seen is still to come (`ComesOnce`); that what it has
received it knows (`ReceivedIsKnown`) and has on the disk as long as the
clipboard may name it (`DiskHolds`); where the loop is in its turn and what the
end of a session leaves (`TurnInv`); and that a thread's answer that was not
cancelled is of this session (`BeforeIsKnown`). The process remembers the last
`LocalMax` selections it published, 500 in the code (`files.rs:37`), and forgets the oldest. So `NoFileEcho`
is proved for as long as it has published no more than that (`RemembersMine`),
and beyond it a selection that is still on the shelf may come back; the run's
instance stays within.

*Adapters.* `MacInv`: what a read has collected is of the present selection
unless the count has changed since the read began, and then it is thrown away.
`LinuxInv`: what is kept under a generation is true of that selection
(`KeptIsTrue`), and the writes that began are counted by their selections but
for the last (`WritesAreCounted`). With them each step of the adapter maps to a
step of `Clipboard` or to a stutter.

*Heartbeat.* `HeartInv`: a ping the worker counts on is under way, or its pong
is (`PingIsUnderWay`), and the agent's silence is bounded by the age of what is
under way (`SilenceIsShort`). The proof does not go through for every choice of
times: with a ping interval shorter than the latency TLC finds a healthy
connection given up (`PingAfter` 1, `PongWithin` 11, `SilenceTimeout` 8,
`LatencyMax` 5), because the worker sends no second ping while it waits for a
pong, and the agent may lose patience within one round trip.
`HeartbeatAssumption` therefore asks for `PingAfter >= LatencyMax`, besides
`PongWithin > 2 * LatencyMax` and `SilenceTimeout > PingAfter + LatencyMax + 1`.
The code has 30 and 10 seconds and a silence timeout of 45 that a configuration
may lower to 35, so it meets the three for a latency of up to 4 seconds, and of
up to 3 with the shortest timeout.

*Agents that start.* `StartInv` of `DesktopProofs`, for starts that overlap in
any way. `PathIsKept`, which holds while `raced` does not: what a process is
about to remove is still the abandoned socket it found, nobody else is about to
remove one, and a process that has bound has the path until it removes it itself.
`OneCreates`: one process makes the store. `AloneIsUndisturbed`: what a start
that no other overlaps has found is still so, so it is refused only for what a
kill left half made (`HalfStoreIsTorn`, `OpenSocketIsTorn`). The exclusion of
`raced` is in the property and so in the theorem; without it both are false of
the code (see the limits below), and it ends when all that ran have ended.

Only model-checked: liveness, which is out of the prover's reach
(`LeftBehindEnds`, `OffersAreWritten`, `OverdueIsClosed`, `SlowIsClosed`,
`DaemonDecides`, `CallsReturn`, `DeadIsDropped`, `CommandsAreAnswered`). Every
other property of a passing run is proved.

## Findings

`SourcesAreRetained` (run `file_sources`). `source_metadata_response`
(`hub-edge/lib.rs:1454`) reads the file store without bringing it to the core's
generation, unlike every file message. If a clear commits in the core and the
file store's part fails or the hub restarts in between, the endpoint goes on
listing the cleared selections until a file message arrives.
`docs/source-metadata-v1.md:28` says that only retained history is listed.

`LiveClipsAreTaken` (run `agent_skips`). `establish_live`
(`agent/lib.rs:430`) ignores the boundary that ends a replay. When the newest
clips are gone by then, the agent's last cursor stays behind the hub's, and
`receive_event` (`agent-core/lib.rs:589`) takes the next live clip for out of
order: it drops the connection, and the clip comes back as a replay, which is
recorded and not shown. `docs/initial-spirit.md:18` says that a live clip after
catch-up overwrites the clipboard.

`NeverBackfilled` (run `agent_backfills`). `run_desktop` (`agent/main.rs:301`)
looks at the clipboard when it is live again and passes on what it holds, unless
it is the revision it last looked at; so text copied while locked or paused is
published. The test at `agent-core/tests/desktop_domain.rs:245` is named for the
opposite, and the comment at `agent/main.rs:202` states it for files, where the
loop does take a baseline.

`AdmissionContinues` (run `edge_admission`). The listener takes the file store's
lock to delete expired files (`hub-edge/lib.rs:1779`), and a worker keeps that
lock while it writes a file's bytes to a socket that has no write timeout
(`hub-edge/lib.rs:1925`). A peer that stops reading stops admission. The comment
at `hub-edge/lib.rs:1759` says that the listener continues admission while
sockets have workers of their own.

Four things met on the way that no text of the repository speaks of, so that no
run claims them: a lock forgets a pause, since unlocking connects whatever came
before; the acknowledgement due after a replay is taken and dropped by
`establish_live`, and the hub hears of it with the next clip; a publish refused
for now is sent again only at the next connection; and a clear drops the loop
marker while the clipboard may still hold the agent's own write, which is then
published into the new generation if the loop has not looked at it yet. That is
why `NeverEchoed` speaks of one generation.

Other limits that the models show: two starts of an agent that find the same
abandoned socket may both come between `connect` and `remove_file`
(`agent-linux/lib.rs:189`), and the second then removes the socket that the
first has bound since. Both serve, the path leads to one of them, and when the
other ends it removes that path too. TLC finds this in 24 steps when `~raced` is
taken out of `OneAgentServes`; the tests of the recovery
(`agent-linux/lib.rs:1638`, `agent-macos/lib.rs:999`) let one start end before
the next. A start that is killed between `bind` and `chmod`, or while it
makes the store, leaves what no later start recovers (`torn`); a hub killed
while it creates its database leaves one that is refused from then on; a second
hub whose start a clear overtakes, between its reading of the generation and its
syncing of the file store, empties the store of files of the new generation
(`StartsKeepFiles` excepts this with `overtaken`); a write
of files on either desktop may replace what the user copied an instant before.

## What is not modelled

- What a second agent does to the store that a running agent uses. Its start
  opens the store, and deletes the loop marker (`agent-core/lib.rs:289`), before
  the socket refuses it. `Agent` has one process for each store, so what it says
  of echoes holds while nobody starts a second one.
- The wire codec: stateless encoding and validation, string by string. Messages
  are records and a malformed one is an outcome of reading.
- The iOS app. It is a client of its own, in Swift; the hub's models take its
  messages as those of any peer. It would be the next component.
- The adapters' calls into Wayland and AppKit and the Tailscale LocalAPI: other
  programs' I/O, present as the events and answers they yield.
- The agent's images and the classification of clipboard types: pure
  conversions. The length of the backoff: a reconnection may come at any time.
- Packaging and deployment have no state.

## Plan

Done: the two stores, the edge's threads and locks, the limits, starts, the
agent, files on a desktop, the adapters, the heartbeat, and the proofs above.
What is left, in this order:

1. The iOS app's session model and its file history: tasks that outlive the
   connection they began for.
2. `Mesh`: the hub's promise (`ClipLog`) and several agents at once, for
   convergence and echoes between desktops.
