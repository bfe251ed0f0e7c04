------------------------------ MODULE MCOutbox ------------------------------
(* The outbox on a small instance: two rows, two pollers.  The assumptions  *)
(* evaluate on the declared topology what PipelineProofs proves of it.      *)
EXTENDS Outbox, Topology

CONSTANTS p1, p2

MCIds2 == 1..2
TwoPollers == {p1, p2}

ASSUME EventsAreRouted ==
    \A type \in PublishedTypes :
        LET to == exchangeAndKey(type) IN
        Route(to[1], to[2]) = HandledBy(type) /\ HandledBy(type) # {}

ASSUME DeadLettersAreNamed ==
    \A s \in queueSpecs : \A dlq \in Route(s.dlx, s.failed) :
        LET message == [event |-> "e", message |-> "m", body |-> "b", deaths |-> <<>>]
            row == NewDeadLetterMessage(dlq, Rejected(s, message))
        IN row.dlq = s.dlq /\ row.source = s.queue /\ row.reason = "rejected"
=============================================================================
