------------------------------ MODULE SortedSets ------------------------------
(* Finite sets of numbers, in order. *)
EXTENDS Integers, FiniteSets

Ascending(S) == [i \in 1..Cardinality(S) |-> CHOOSE x \in S : Cardinality({y \in S : y < x}) = i - 1]
=============================================================================
