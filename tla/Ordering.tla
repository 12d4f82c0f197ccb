------------------------------ MODULE Ordering ------------------------------
(***************************************************************************)
(* What std::sort makes of numbers that differ, said without a recursion,  *)
(* so that it can be proved about.                                         *)
(***************************************************************************)
EXTENDS Naturals, FiniteSets

(* The numbers of a finite set from the least to the greatest: n - 1 of    *)
(* them are less than the n-th.                                            *)
InOrder(S) ==
  [n \in 1..Cardinality(S) |-> CHOOSE x \in S : Cardinality({y \in S : y < x}) = n - 1]
=============================================================================
