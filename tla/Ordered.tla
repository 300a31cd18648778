------------------------------ MODULE Ordered ------------------------------
(***************************************************************************)
(* Order on finite sets of numbers, without recursion.                     *)
(*                                                                         *)
(* The hub reads its tables ORDER BY cursor and filters its queues in      *)
(* place.  SortSeq and SelectSeq say the same, but they are recursive, and *)
(* the modules that use these two operators are proved about.              *)
(***************************************************************************)
EXTENDS Integers, FiniteSets

(* The j-th smallest element of the finite set of numbers K. *)
Nth(K, j) == CHOOSE k \in K : Cardinality({i \in K : i <= k}) = j

(* The elements of q at the positions of K, in the order they have in q.   *)
Subsequence(q, K) == [j \in 1..Cardinality(K) |-> q[Nth(K, j)]]
=============================================================================
