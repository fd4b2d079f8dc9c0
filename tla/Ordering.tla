------------------------------ MODULE Ordering ------------------------------
(***************************************************************************)
(* The order in which the code walks: the heights of a set from the lowest *)
(* to the highest, and what is left of a list when members are taken off.  *)
(* Written with positions, so that proofs need no recursion.               *)
(***************************************************************************)
EXTENDS Naturals, FiniteSets

\* how many members of S come before h, and S from the lowest to the highest
Rank(S, h) == Cardinality({g \in S : g < h})
Ascending(S) == [i \in 1..Cardinality(S) |-> CHOOSE h \in S : Rank(S, h) = i - 1]

\* the members of the list q at the places I, in their order
Picked(q, I) == [j \in 1..Cardinality(I) |-> q[Ascending(I)[j]]]

\* the list q without the members of S
Without(q, S) == Picked(q, {i \in DOMAIN q : q[i] \notin S})
=============================================================================
