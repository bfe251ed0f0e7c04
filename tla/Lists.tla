------------------------------- MODULE Lists -------------------------------
(* What a loop that appends some entries of a list to a new one makes.     *)
EXTENDS Naturals, FiniteSets

\* The entries of a list at some of its places, in their order.
EntriesAt(list, places) ==
    LET place(n) == CHOOSE i \in places : Cardinality({j \in places : j <= i}) = n
    IN  [n \in 1..Cardinality(places) |-> list[place(n)]]
=============================================================================
