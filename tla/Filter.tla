---- MODULE Filter ----
(***************************************************************************)
(* A sequence without some of its elements, as SelectSeq has it, but by    *)
(* the places of those that stay: provers can expand this definition.      *)
(***************************************************************************)
EXTENDS Naturals, FiniteSets

Position(places, k) == Cardinality({l \in places : l <= k})

\* The n-th of some places.
Nth(places, n) == CHOOSE k \in places : Position(places, k) = n

\* The elements of s at some places, in their order.
Only(s, places) == [n \in 1..Cardinality(places) |-> s[Nth(places, n)]]

====
