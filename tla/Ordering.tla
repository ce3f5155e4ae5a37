------------------------------ MODULE Ordering ------------------------------
(***************************************************************************)
(* What qsort leaves behind, whatever its method, when no two elements are  *)
(* equal: each element stands behind those that come before it.             *)
(***************************************************************************)
EXTENDS Naturals, FiniteSets

\* How many elements of S come before x, according to a set of pairs.
Place(S, before, x) == Cardinality({y \in S : <<y, x>> \in before})

InOrder(S, before) ==
  [i \in 1 .. Cardinality(S) |-> CHOOSE x \in S : Place(S, before, x) = i - 1]
=============================================================================
