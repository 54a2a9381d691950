------------------------------ MODULE Selection ------------------------------
(***************************************************************************)
(* What a loop leaves that copies the elements of a slice that pass a test *)
(* over the slice itself (keep := s[:0]; ...): the elements at the         *)
(* positions that passed, in their order. Used for the pruning of loop     *)
(* windows and for the confirmation of updates. Written with cardinalities *)
(* and not as SelectSeq, whose recursive definition nothing can be proved  *)
(* about.                                                                  *)
(***************************************************************************)
EXTENDS Integers, Sequences, FiniteSets

(* The n-th smallest position.                                             *)
Nth(K, n) == CHOOSE i \in K : Cardinality({j \in K : j <= i}) = n

Keep(s, K) == [n \in 1..Cardinality(K) |-> s[Nth(K, n)]]
=============================================================================
