------------------------------- MODULE Outbox -------------------------------
(***************************************************************************)
(* The transactional outbox: a business transaction inserts the event with *)
(* its own rows, and the pollers of the API processes publish what they    *)
(* claim to RabbitMQ (outbox/, mq/publisher.go).  The broker is external:  *)
(* a durable queue that holds copies of persistent messages.               *)
(***************************************************************************)
EXTENDS LeaseTable

CONSTANTS
    MaxCopies     \* copies of one message told apart in the queue

ASSUME CopiesAssumption == MaxCopies \in Nat \ {0}

VARIABLE ready   \* number of copies of every event ready in the queue

outboxVars == <<leaseVars, ready>>

TypeOK ==
    /\ LeaseTypeOK
    /\ ready \in [Ids -> 0..MaxCopies]

Init ==
    /\ LeaseInit
    /\ ready = [i \in Ids |-> 0]

\* The queue takes one more copy; copies beyond MaxCopies are not counted.
Accept(i) ==
    ready' = [ready EXCEPT ![i] = IF @ < MaxCopies THEN @ + 1 ELSE @]
-----------------------------------------------------------------------------
\* The business transaction: its rows and the event commit together.
Commit(i) == Enqueue(i) /\ UNCHANGED ready

\* Publish has returned nil and the broker has the message.
PublishOk(p, i) == WorkOk(p) /\ Current(p, i) /\ Accept(i)

\* Publish has returned nil, the connection was lost before the broker read
\* the frame: nothing waits for a confirmation.
PublishLost(p, i) ==
    WorkOk(p) /\ Current(p, i) /\ UNCHANGED ready

\* Publish has returned an error; after a timeout the broker may have the
\* message all the same.
PublishErr(p, i) ==
    WorkErr(p) /\ Current(p, i) /\ (Accept(i) \/ UNCHANGED ready)

\* The published row is removed.
Settle(p, i) == DeleteRow(p, i) /\ UNCHANGED ready

OutboxStep ==
    \/ \E p \in Pollers, i \in Ids :
         PublishOk(p, i) \/ PublishErr(p, i) \/ Settle(p, i)
    \/ LeaseStep /\ UNCHANGED ready

Next == OutboxStep \/ \E i \in Ids : Commit(i)

(***************************************************************************)
(* Every poller wakes up each second; the broker and the database answer   *)
(* again and again, whatever crashes in between; time passes.              *)
(***************************************************************************)
Fairness ==
    /\ \A p \in Pollers :
         /\ WF_outboxVars(Select(p) /\ UNCHANGED ready)
         /\ SF_outboxVars(Claim(p) /\ UNCHANGED ready)
         /\ SF_outboxVars(\E i \in Ids : PublishOk(p, i))
         /\ SF_outboxVars(\E i \in Ids : Settle(p, i))
         /\ WF_outboxVars(\E i \in Ids : MarkPending(p, i) /\ UNCHANGED ready)
    /\ \A i \in Ids :
         /\ WF_outboxVars(BackoffElapses(i) /\ UNCHANGED ready)
         /\ WF_outboxVars(LockTimesOut(i) /\ UNCHANGED ready)

Safety == Init /\ [][Next]_outboxVars
Spec == Safety /\ Fairness

\* The channel is not in confirm mode: Publish may also report what the broker
\* never got.
UnconfirmedNext == Next \/ \E p \in Pollers, i \in Ids : PublishLost(p, i)
Unconfirmed == Init /\ [][UnconfirmedNext]_outboxVars
-----------------------------------------------------------------------------
Committed == {i \in Ids : rows[i].status # "none"}
InQueue == {i \in Ids : ready[i] > 0}

\* A committed event is in the table or has reached the broker: deleting the
\* row, requeueing it, a lost lease or a crash never discards it
\* (.spec/backend/outbox/spec.md: "a temporary broker failure does not
\* silently discard a committed business event").
NoEventLost == \A i \in Committed : rows[i].status # "deleted" \/ i \in InQueue

\* The table implements the at-least-once channel.
Channel == INSTANCE AtLeastOnce WITH
    Events <- Ids, committed <- Committed, delivered <- InQueue

Delivery == Channel!Spec

\* Every row is eventually published and removed, so that the table does not
\* grow without bound and no row is stuck behind failing ones of lower id.
TableDrains == \A i \in Ids : (i \in Committed) ~> (rows[i].status = "deleted")
=============================================================================
