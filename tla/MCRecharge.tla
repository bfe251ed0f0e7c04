----------------------------- MODULE MCRecharge -----------------------------
(* Two calls of CreateRecharge by one account, two requests at a time.     *)
EXTENDS Recharge

CONSTANTS o1, o2, a1, h1, h2

TwoOrders == {o1, o2}
OneAccount == {a1}
OneOwner == [o \in TwoOrders |-> a1]
TwoHandlers == {h1, h2}
=============================================================================
