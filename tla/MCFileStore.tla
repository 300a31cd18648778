---------------------------- MODULE MCFileStore ----------------------------
(* Small instances of FileStore for TLC.                                   *)
EXTENDS FileStore

CONSTANTS a, b

(* An empty file, and one that takes two or three chunks.                  *)
MCFiles == {[size |-> 0, hash |-> <<>>], [size |-> 3, hash |-> <<a, b, a>>]}

(* The right bytes of each file, and wrong ones.                           *)
MCPayloads == {<<a>>, <<b>>, <<a, b>>}

Symmetry == Permutations(UploadIds) \cup Permutations(ClipIds) \cup Permutations(Peers)
=============================================================================
