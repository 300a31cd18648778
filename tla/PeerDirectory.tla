---------------------------- MODULE PeerDirectory ----------------------------
(***************************************************************************)
(* The names of peers that the hub hands out with its source metadata      *)
(* (HubEdge::cached_peer_directory,                                        *)
(* crates/clipmesh-hub-edge/src/lib.rs): what the Tailscale daemon said of *)
(* them is kept for a while, and so is that it failed to.                  *)
(*                                                                         *)
(* The cache's lock is not kept while the daemon is asked, so several      *)
(* threads may ask it at once and store what they heard in any order.  The *)
(* names themselves are left out: what matters is of when they are.        *)
(***************************************************************************)
EXTENDS Naturals

CONSTANTS
  Askers,       \* threads with a request for source metadata
  Ttl,          \* PEER_DIRECTORY_CACHE_TTL
  FailureTtl,   \* PEER_DIRECTORY_FAILURE_TTL
  AskMax,       \* bound: how long the daemon and the thread take
  ClockMax,     \* bound: the last instant
  Never         \* no instant

ASSUME DirectoryAssumption ==
  /\ Ttl \in Nat \ {0} /\ FailureTtl \in Nat \ {0}
  /\ AskMax \in Nat /\ ClockMax \in Nat /\ Never \notin Nat

VARIABLES
  clock,
  fetched_at, retry_after,  \* PeerDirectoryCache
  entries_of,   \* when the daemon said what the cache holds
  asker,        \* [stage, since, of]: a request, when it began to ask, what it heard
  failed_at     \* history: when the last failure was stored

directoryVars == <<clock, fetched_at, retry_after, entries_of, asker, failed_at>>

Idle == [stage |-> "idle", since |-> Never, of |-> Never]

DirectoryInit ==
  /\ clock = 0
  /\ fetched_at = Never /\ retry_after = Never /\ entries_of = Never
  /\ asker = [r \in Askers |-> Idle]
  /\ failed_at = Never

Sets(r, stage, of) == asker' = [asker EXCEPT ![r].stage = stage, ![r].of = of]

(* Mutant: what was once fetched is good for ever.                         *)
IsThere == fetched_at # Never

IsFresh == fetched_at # Never /\ clock - fetched_at < Ttl

MayNotAsk == retry_after # Never /\ retry_after > clock

LookUp(r) ==
  /\ asker[r].stage = "idle"
  /\ CASE IsFresh -> Sets(r, "served", entries_of)
       [] ~IsFresh /\ MayNotAsk -> Sets(r, "refused", Never)
       [] OTHER -> asker' = [asker EXCEPT ![r] = [@ EXCEPT !.stage = "asking", !.since = clock]]
  /\ UNCHANGED <<clock, fetched_at, retry_after, entries_of, failed_at>>

(* The daemon lists the peers as they are now.                             *)
ListPeers(r) ==
  /\ asker[r].stage = "asking"
  /\ Sets(r, "listed", clock)
  /\ UNCHANGED <<clock, fetched_at, retry_after, entries_of, failed_at>>

(* It does not answer in time, or not as it should.                        *)
ListFails(r) ==
  /\ asker[r].stage = "asking"
  /\ Sets(r, "failed", Never)
  /\ UNCHANGED <<clock, fetched_at, retry_after, entries_of, failed_at>>

StoreList(r) ==
  /\ asker[r].stage = "listed"
  /\ Sets(r, "served", asker[r].of)
  /\ entries_of' = asker[r].of
  /\ fetched_at' = clock
  /\ retry_after' = Never
  /\ UNCHANGED <<clock, failed_at>>

StoreRefusal(r) ==
  /\ asker[r].stage = "failed"
  /\ Sets(r, "refused", Never)
  /\ retry_after' = clock + FailureTtl
  /\ failed_at' = clock
  /\ UNCHANGED <<clock, fetched_at, entries_of>>

Respond(r) ==
  /\ asker[r].stage \in {"served", "refused"}
  /\ asker' = [asker EXCEPT ![r] = Idle]
  /\ UNCHANGED <<clock, fetched_at, retry_after, entries_of, failed_at>>

ClockTicks ==
  /\ clock < ClockMax
  /\ \A r \in Askers :
       /\ asker[r].stage \notin {"served", "refused"}
       /\ asker[r].stage # "idle" => clock - asker[r].since < AskMax
  /\ clock' = clock + 1
  /\ UNCHANGED <<fetched_at, retry_after, entries_of, asker, failed_at>>

DirectoryNext ==
  \/ ClockTicks
  \/ \E r \in Askers :
       \/ LookUp(r) \/ ListPeers(r) \/ ListFails(r)
       \/ StoreList(r) \/ StoreRefusal(r) \/ Respond(r)

DirectorySpec == DirectoryInit /\ [][DirectoryNext]_directoryVars

----------------------------------------------------------------------------
(* Though a list that is older may be stored over one that is newer, no    *)
(* request is served names older than the cache's time and one question to *)
(* the daemon, and none is refused but in the time after a failure: a peer *)
(* that is renamed or joins appears "promptly" (cached_peer_directory).    *)
NamesAreRecent ==
  \A r \in Askers :
    /\ asker[r].stage = "served" => clock - asker[r].of < Ttl + AskMax
    /\ asker[r].stage = "refused" => failed_at # Never /\ clock - failed_at < FailureTtl
=============================================================================
