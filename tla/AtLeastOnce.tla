---------------------------- MODULE AtLeastOnce -----------------------------
(***************************************************************************)
(* What the outbox promises to the code that writes to it ("a temporary    *)
(* broker failure does not silently discard a committed business event",   *)
(* .spec/backend/outbox/spec.md): whatever is committed is delivered, at   *)
(* least once, and nothing is delivered that was not committed.            *)
(***************************************************************************)
CONSTANT Events

VARIABLES committed, delivered

Init == committed = {} /\ delivered = {}

Commit(e) ==
    /\ e \notin committed
    /\ committed' = committed \union {e}
    /\ UNCHANGED delivered

Deliver(e) ==
    /\ e \in committed \ delivered
    /\ delivered' = delivered \union {e}
    /\ UNCHANGED committed

Next == \E e \in Events : Commit(e) \/ Deliver(e)

Safety == Init /\ [][Next]_<<committed, delivered>>

Spec == Safety /\ \A e \in Events : WF_<<committed, delivered>>(Deliver(e))
=============================================================================
