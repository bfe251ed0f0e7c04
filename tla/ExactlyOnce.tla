---------------------------- MODULE ExactlyOnce -----------------------------
(***************************************************************************)
(* An effect that must follow its cause exactly once: the update of        *)
(* videos.popularity and of the Redis minute bucket for a committed event, *)
(* the coins for a payment.  The effect happens at most once for every     *)
(* cause, and never without it.                                            *)
(***************************************************************************)
EXTENDS Naturals

CONSTANT Events

VARIABLES committed, count

Init == committed = {} /\ count = [e \in Events |-> 0]

Commit(e) ==
    /\ e \notin committed
    /\ committed' = committed \union {e}
    /\ UNCHANGED count

Apply(e) ==
    /\ e \in committed /\ count[e] = 0
    /\ count' = [count EXCEPT ![e] = 1]
    /\ UNCHANGED committed

Next == \E e \in Events : Commit(e) \/ Apply(e)

Spec == Init /\ [][Next]_<<committed, count>>
=============================================================================
