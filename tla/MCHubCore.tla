----------------------------- MODULE MCHubCore -----------------------------
(* Small instances of HubCore for TLC.                                     *)
EXTENDS HubCore, TLC

CONSTANTS m1, m2, m3, m4, a, b

(* Every slot belongs to a peer of its own.                                *)
MCPeerOf == [s \in Sessions |-> s]

Draft(id, gen, created, body) ==
  [id |-> id, gen |-> gen, created |-> created, body |-> body]

(* Two drafts of the first generation, and two of the second, one of which *)
(* reuses a message id.                                                    *)
SessionDrafts ==
  {Draft(m1, 1, 0, a), Draft(m2, 1, 0, a), Draft(m1, 2, 0, b), Draft(m3, 2, 0, a)}

(* As few as let one clip wait in a handover while another is replayed.    *)
LivenessDrafts == {Draft(m1, 1, 0, a), Draft(m2, 1, 0, a)}

(* One draft that is early, one that is late, one that reuses its id, one  *)
(* in between, and one of the second generation.  There are more message   *)
(* ids than cursors, so the cursors of the instance can be used up.        *)
RetentionDrafts ==
  {Draft(m1, 1, 0, a), Draft(m2, 1, 2, a), Draft(m1, 1, 2, b), Draft(m3, 1, 1, a),
   Draft(m4, 2, 1, a)}

Symmetry == Permutations(Sessions)
=============================================================================
