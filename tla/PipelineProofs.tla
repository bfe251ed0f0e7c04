---------------------------- MODULE PipelineProofs ----------------------------
(***************************************************************************)
(* From a committed event to the counters it changes.                      *)
(*                                                                         *)
(* The outbox, for every set of rows, every number of pollers and every    *)
(* batch size: its type invariant, that it discards no committed event     *)
(* when the broker keeps what Publish reported as sent, that it implements *)
(* the at-least-once channel, and that two pollers never hold the same row *)
(* when a batch ends within the lock timeout.  Of what is published: that  *)
(* the declared topology takes every event to the worker that handles it,  *)
(* and every dead letter to a queue of its own.                            *)
(*                                                                         *)
(* The popularity pipeline behind it, for every number of events, pollers  *)
(* and workers: no event is lost, and each of its effects happens at most  *)
(* once.  PInv says where a message, a worker's progress and a projection  *)
(* row come from; it is inductive and the theorems follow from it.         *)
(***************************************************************************)
EXTENDS Popularity, Topology, TLAPS

\* The steps of a lease table, one by one: what any composition of the table
\* can do to it.
TableStep ==
    \/ \E i \in Ids : Enqueue(i)
    \/ \E p \in Pollers : WorkOk(p) \/ WorkErr(p)
    \/ \E p \in Pollers, i \in Ids : DeleteRow(p, i)
    \/ LeaseStep

\* Every step of the table keeps rows, candidates, batches and program
\* counters of the right type.
LEMMA TableTypes ==
    ASSUME LeaseTypeOK, TableStep
    PROVE  LeaseTypeOK'
<1> USE DEF LeaseTypeOK
<1>1. ASSUME NEW i \in Ids, Enqueue(i) PROVE LeaseTypeOK'
  BY <1>1 DEF Enqueue, Fresh, Row, RowStatus
<1>2. ASSUME NEW p \in Pollers, WorkOk(p) \/ WorkErr(p) PROVE LeaseTypeOK'
  BY <1>2 DEF WorkOk, WorkErr
<1>3. ASSUME NEW p \in Pollers, NEW i \in Ids, DeleteRow(p, i) PROVE LeaseTypeOK'
  BY <1>3 DEF DeleteRow, Finish, Gone, Row, RowStatus
<1>4. CASE LeaseStep
  <2>1. ASSUME NEW p \in Pollers, Select(p) PROVE LeaseTypeOK'
    BY <2>1 DEF Select, Candidates
  <2>2. ASSUME NEW p \in Pollers, Claim(p) PROVE LeaseTypeOK'
    BY <2>2 DEF Claim, Locked, Row, RowStatus
  <2>3. ASSUME NEW p \in Pollers, ClaimFails(p) \/ PollerCrash(p) PROVE LeaseTypeOK'
    BY <2>3 DEF ClaimFails, PollerCrash
  <2>4. ASSUME NEW p \in Pollers, NEW i \in Ids, MarkPending(p, i) PROVE LeaseTypeOK'
    BY <2>4 DEF MarkPending, Finish, Gone, Backoff, Row, RowStatus
  <2>5. ASSUME NEW p \in Pollers, NEW i \in Ids, SettleFails(p, i) PROVE LeaseTypeOK'
    BY <2>5 DEF SettleFails, Finish
  <2>6. ASSUME NEW i \in Ids, BackoffElapses(i) PROVE LeaseTypeOK'
    BY <2>6 DEF BackoffElapses, Fresh, Row, RowStatus
  <2>7. ASSUME NEW i \in Ids, LockTimesOut(i) PROVE LeaseTypeOK'
    BY <2>7 DEF LockTimesOut, Expired, Row, RowStatus
  <2> QED
    BY <1>4, <2>1, <2>2, <2>3, <2>4, <2>5, <2>6, <2>7 DEF LeaseStep
<1> QED
  BY <1>1, <1>2, <1>3, <1>4 DEF TableStep

\* A step of the outbox is a step of its table, or leaves the table alone.
LEMMA OutboxTableStep ==
    ASSUME [Next]_outboxVars
    PROVE  TableStep \/ UNCHANGED leaseVars
BY DEF Next, OutboxStep, Commit, PublishOk, PublishErr, Settle,
       TableStep, outboxVars, leaseVars

\* Copies in the queue never exceed the number told apart.
THEOREM TypeCorrect == Safety => []TypeOK
<1>1. Init => TypeOK
  BY CopiesAssumption
  DEF Init, TypeOK, LeaseInit, LeaseTypeOK, Absent, Row, RowStatus
<1>2. TypeOK /\ [Next]_outboxVars => TypeOK'
  <2> SUFFICES ASSUME TypeOK, [Next]_outboxVars PROVE TypeOK'
    OBVIOUS
  <2>1. LeaseTypeOK'
    <3>1. CASE TableStep
      BY <3>1, TableTypes DEF TypeOK
    <3>2. CASE UNCHANGED leaseVars
      BY <3>2 DEF TypeOK, LeaseTypeOK, leaseVars
    <3> QED
      BY <3>1, <3>2, OutboxTableStep
  <2>2. ready' \in [Ids -> 0..MaxCopies]
    <3>1. \/ ready' = ready
          \/ \E i \in Ids : Accept(i)
      BY DEF Next, OutboxStep, Commit, PublishOk, PublishErr,
             Settle, outboxVars
    <3> QED
      BY <3>1, CopiesAssumption DEF TypeOK, Accept
  <2> QED
    BY <2>1, <2>2 DEF TypeOK
<1> QED
  BY <1>1, <1>2, PTL DEF Safety
-----------------------------------------------------------------------------
\* What every row a poller has read, and every message in the queue, comes
\* from: a commit.
FromCommit ==
    /\ \A p \in Pollers : cand[p] \union batch[p] \subseteq Committed
    /\ InQueue \subseteq Committed

\* A poller about to delete a row has seen the broker accept it.
DeletesAccepted ==
    \A p \in Pollers, i \in Ids :
        ppc[p] = "delete" /\ Current(p, i) => i \in InQueue

OutboxInv == TypeOK /\ FromCommit /\ DeletesAccepted /\ NoEventLost

\* Rows that pollers read, claim or publish were committed.
LEMMA FromCommitStep ==
    ASSUME TypeOK, FromCommit, [Next]_outboxVars
    PROVE  FromCommit' /\ Committed \subseteq Committed' /\ InQueue \subseteq InQueue'
<1> USE CopiesAssumption DEF FromCommit, Committed, InQueue, TypeOK, LeaseTypeOK
<1>1. ASSUME NEW i \in Ids, Commit(i)
      PROVE FromCommit' /\ Committed \subseteq Committed' /\ InQueue \subseteq InQueue'
  BY <1>1 DEF Commit, Enqueue, Fresh
<1>2. ASSUME NEW p \in Pollers, NEW i \in Ids,
             PublishOk(p, i) \/ PublishErr(p, i)
      PROVE FromCommit' /\ Committed \subseteq Committed' /\ InQueue \subseteq InQueue'
  BY <1>2 DEF PublishOk, PublishErr, WorkOk, WorkErr, Current, Accept
<1>3. ASSUME NEW p \in Pollers, NEW i \in Ids, Settle(p, i)
      PROVE FromCommit' /\ Committed \subseteq Committed' /\ InQueue \subseteq InQueue'
  BY <1>3 DEF Settle, DeleteRow, Current, Finish, Gone
<1>4. ASSUME LeaseStep, UNCHANGED ready
      PROVE FromCommit' /\ Committed \subseteq Committed' /\ InQueue \subseteq InQueue'
  <2>1. ASSUME NEW p \in Pollers, Select(p) PROVE FromCommit' /\ Committed \subseteq Committed'
    BY <2>1, <1>4 DEF Select, Candidates, Claimable
  <2>2. ASSUME NEW p \in Pollers, Claim(p) PROVE FromCommit' /\ Committed \subseteq Committed'
    BY <2>2, <1>4 DEF Claim, Locked
  <2>3. ASSUME NEW p \in Pollers, ClaimFails(p) \/ PollerCrash(p)
        PROVE FromCommit' /\ Committed \subseteq Committed'
    BY <2>3, <1>4 DEF ClaimFails, PollerCrash
  <2>4. ASSUME NEW p \in Pollers, NEW i \in Ids, MarkPending(p, i) \/ SettleFails(p, i)
        PROVE FromCommit' /\ Committed \subseteq Committed'
    BY <2>4, <1>4 DEF MarkPending, SettleFails, Current, Finish, Gone, Backoff
  <2>5. ASSUME NEW i \in Ids, BackoffElapses(i) \/ LockTimesOut(i)
        PROVE FromCommit' /\ Committed \subseteq Committed'
    BY <2>5, <1>4, SMTT(30) DEF BackoffElapses, LockTimesOut, Fresh, Backoff, Locked, Expired, Row
  <2> QED
    BY <1>4, <2>1, <2>2, <2>3, <2>4, <2>5 DEF LeaseStep
<1>5. CASE UNCHANGED outboxVars
  BY <1>5 DEF outboxVars, leaseVars
<1> QED
  BY <1>1, <1>2, <1>3, <1>4, <1>5 DEF Next, OutboxStep

\* The inductive step, action by action.
LEMMA OutboxInvStep ==
    ASSUME OutboxInv, TypeOK', [Next]_outboxVars
    PROVE  OutboxInv'
<1>0. FromCommit' /\ InQueue \subseteq InQueue'
  BY FromCommitStep DEF OutboxInv
<1> USE CopiesAssumption DEF OutboxInv, TypeOK, LeaseTypeOK
<1> DEFINE Rest == DeletesAccepted /\ NoEventLost
<1>1. ASSUME NEW i \in Ids, Commit(i) PROVE Rest'
  BY <1>1, <1>0 DEF Commit, Enqueue, Fresh, DeletesAccepted, NoEventLost, Current,
                    Committed, InQueue
<1>2. ASSUME NEW p \in Pollers, NEW i \in Ids, PublishOk(p, i) PROVE Rest'
  BY <1>2, <1>0, IdsAssumption DEF PublishOk, WorkOk, Accept, DeletesAccepted, NoEventLost, Current,
                    Committed, InQueue
<1>3. ASSUME NEW p \in Pollers, NEW i \in Ids, PublishErr(p, i) PROVE Rest'
  BY <1>3, <1>0 DEF PublishErr, WorkErr, Accept, DeletesAccepted, NoEventLost, Current,
                    Committed, InQueue
<1>4. ASSUME NEW p \in Pollers, NEW i \in Ids, Settle(p, i) PROVE Rest'
  BY <1>4, <1>0 DEF Settle, DeleteRow, Finish, Gone, DeletesAccepted, NoEventLost,
                    Current, Committed, InQueue
<1>5. ASSUME LeaseStep, UNCHANGED ready PROVE Rest'
  <2> USE DEF DeletesAccepted, NoEventLost, Current, Committed, InQueue
  <2>1. ASSUME NEW p \in Pollers, Select(p) PROVE Rest'
    BY <2>1, <1>5 DEF Select
  <2>2. ASSUME NEW p \in Pollers, Claim(p) PROVE Rest'
    BY <2>2, <1>5 DEF Claim, Locked
  <2>3. ASSUME NEW p \in Pollers, ClaimFails(p) \/ PollerCrash(p) PROVE Rest'
    BY <2>3, <1>5 DEF ClaimFails, PollerCrash
  <2>4. ASSUME NEW p \in Pollers, NEW i \in Ids, MarkPending(p, i) PROVE Rest'
    BY <2>4, <1>5 DEF MarkPending, Finish, Gone, Backoff
  <2>5. ASSUME NEW p \in Pollers, NEW i \in Ids, SettleFails(p, i) PROVE Rest'
    BY <2>5, <1>5 DEF SettleFails, Finish
  <2>6. ASSUME NEW i \in Ids, BackoffElapses(i) \/ LockTimesOut(i) PROVE Rest'
    BY <2>6, <1>5 DEF BackoffElapses, LockTimesOut, Fresh, Backoff, Locked, Expired, Row
  <2> QED
    BY <1>5, <2>1, <2>2, <2>3, <2>4, <2>5, <2>6 DEF LeaseStep
<1>6. ASSUME UNCHANGED outboxVars PROVE Rest'
  BY <1>6 DEF outboxVars, leaseVars, DeletesAccepted, NoEventLost, Current, Committed, InQueue
<1> QED
  <2>1. Rest'
    BY <1>1, <1>2, <1>3, <1>4, <1>5, <1>6 DEF Next, OutboxStep
  <2> QED
    BY <2>1, <1>0 DEF OutboxInv

\* Nothing committed is discarded, provided that the broker has what Publish
\* reports as published.
THEOREM EventsKept ==
    Safety => []NoEventLost
<1>1. Init => OutboxInv
  <2>1. Init => TypeOK
    BY CopiesAssumption
    DEF Init, TypeOK, LeaseInit, LeaseTypeOK, Absent, Row, RowStatus
  <2>2. Init => FromCommit /\ DeletesAccepted /\ NoEventLost
    BY DEF Init, LeaseInit, Absent, FromCommit, DeletesAccepted, NoEventLost,
           Committed, InQueue
  <2> QED
    BY <2>1, <2>2 DEF OutboxInv
<1>2. OutboxInv /\ TypeOK' /\ [Next]_outboxVars => OutboxInv'
  BY OutboxInvStep
<1>3. OutboxInv => NoEventLost
  BY DEF OutboxInv
<1> QED
  BY TypeCorrect, <1>1, <1>2, <1>3, PTL DEF Safety

\* The set of committed events grows by one event or stays.
LEMMA CommittedStep ==
    ASSUME TypeOK, FromCommit, [Next]_outboxVars
    PROVE  \/ \E i \in Ids : i \notin Committed /\ Committed' = Committed \union {i}
           \/ Committed' = Committed
<1> USE DEF TypeOK, LeaseTypeOK, FromCommit
<1>1. ASSUME NEW i \in Ids, Commit(i)
      PROVE  i \notin Committed /\ Committed' = Committed \union {i}
  BY <1>1 DEF Commit, Enqueue, Fresh, Committed
<1>2. ASSUME NEW p \in Pollers, NEW i \in Ids,
             PublishOk(p, i) \/ PublishErr(p, i)
      PROVE  Committed' = Committed
  BY <1>2 DEF PublishOk, PublishErr, WorkOk, WorkErr, Committed
<1>3. ASSUME NEW p \in Pollers, NEW i \in Ids, Settle(p, i)
      PROVE  Committed' = Committed
  BY <1>3 DEF Settle, DeleteRow, Current, Finish, Gone, Committed
<1>4. ASSUME LeaseStep PROVE Committed' = Committed
  <2>1. \A i \in Ids : (rows'[i].status = "none") <=> (rows[i].status = "none")
    BY <1>4 DEF LeaseStep, Select, Claim, ClaimFails, PollerCrash, MarkPending,
                SettleFails, BackoffElapses, LockTimesOut, Current, Finish,
                Locked, Expired, Gone, Backoff, Fresh, Row, Committed
  <2> QED
    BY <2>1 DEF Committed
<1>5. CASE UNCHANGED outboxVars
  BY <1>5 DEF outboxVars, leaseVars, Committed
<1> QED
  BY <1>1, <1>2, <1>3, <1>4, <1>5 DEF Next, OutboxStep

\* The outbox implements the safety part of the at-least-once channel: each of
\* its steps commits one event, delivers one committed event, or changes
\* neither set.
THEOREM ImplementsChannel == Safety => Channel!Safety
<1> DEFINE Inv == TypeOK /\ FromCommit
<1>1. Init => Inv
  BY CopiesAssumption
  DEF Init, TypeOK, LeaseInit, LeaseTypeOK, Absent, Row, RowStatus, FromCommit,
      Committed, InQueue
<1>2. Inv /\ TypeOK' /\ [Next]_outboxVars => Inv'
  BY FromCommitStep
<1>3. Init => Channel!Init
  BY DEF Init, LeaseInit, Absent, Channel!Init, Committed, InQueue
<1>4. Inv /\ Inv' /\ [Next]_outboxVars => [Channel!Next]_<<Committed, InQueue>>
  <2> SUFFICES ASSUME Inv, Inv', [Next]_outboxVars
               PROVE  [Channel!Next]_<<Committed, InQueue>>
    OBVIOUS
  <2> USE CopiesAssumption DEF TypeOK, LeaseTypeOK, FromCommit
  <2>1. ASSUME NEW i \in Ids, Commit(i) PROVE Channel!Commit(i)
    BY <2>1 DEF Commit, Enqueue, Fresh, Channel!Commit, Committed, InQueue
  <2>2. ASSUME NEW p \in Pollers, NEW i \in Ids,
               PublishOk(p, i) \/ PublishErr(p, i)
        PROVE  Channel!Deliver(i) \/ UNCHANGED <<Committed, InQueue>>
    BY <2>2 DEF PublishOk, PublishErr, WorkOk, WorkErr, Current, Accept,
                Channel!Deliver, Committed, InQueue
  <2>3. ASSUME NEW p \in Pollers, NEW i \in Ids, Settle(p, i)
        PROVE  UNCHANGED <<Committed, InQueue>>
    BY <2>3 DEF Settle, DeleteRow, Current, Finish, Gone, Committed, InQueue
  <2>4. ASSUME LeaseStep, UNCHANGED ready
        PROVE  UNCHANGED <<Committed, InQueue>>
    <3>1. \A i \in Ids : (rows'[i].status = "none") <=> (rows[i].status = "none")
      BY <2>4 DEF LeaseStep, Select, Claim, ClaimFails, PollerCrash, MarkPending,
                  SettleFails, BackoffElapses, LockTimesOut, Current, Finish,
                  Locked, Expired, Gone, Backoff, Fresh, Row, Committed
    <3> QED
      BY <2>4, <3>1 DEF Committed, InQueue
  <2>5. CASE UNCHANGED outboxVars
    BY <2>5 DEF outboxVars, leaseVars, Committed, InQueue
  <2> QED
    BY <2>1, <2>2, <2>3, <2>4, <2>5 DEF Next, OutboxStep, Channel!Next
<1> QED
  BY TypeCorrect, <1>1, <1>2, <1>3, <1>4, PTL DEF Safety, Channel!Safety
-----------------------------------------------------------------------------
\* When every poller ends its batch within the lock timeout, the second
\* condition of ClaimBatch keeps two pollers off the same row.
THEOREM RowsHaveOneHolder ==
    ASSUME ~SlowPollers
    PROVE  Safety => [](HeldIsLocked /\ OneHolder)
<1>1. Init => HeldIsLocked /\ OneHolder
  BY DEF Init, LeaseInit, HeldIsLocked, OneHolder
<1>2. TypeOK /\ HeldIsLocked /\ OneHolder /\ [Next]_outboxVars
        => HeldIsLocked' /\ OneHolder'
  <2> SUFFICES ASSUME TypeOK, HeldIsLocked, OneHolder, [Next]_outboxVars
               PROVE  HeldIsLocked' /\ OneHolder'
    OBVIOUS
  <2> USE DEF TypeOK, LeaseTypeOK, HeldIsLocked, OneHolder
  <2>1. ASSUME NEW i \in Ids, Commit(i) PROVE HeldIsLocked' /\ OneHolder'
    BY <2>1 DEF Commit, Enqueue, Locked
  <2>2. ASSUME NEW p \in Pollers, NEW i \in Ids,
               PublishOk(p, i) \/ PublishErr(p, i)
        PROVE  HeldIsLocked' /\ OneHolder'
    BY <2>2 DEF PublishOk, PublishErr, WorkOk, WorkErr
  <2>3. ASSUME NEW p \in Pollers, NEW i \in Ids, Settle(p, i)
        PROVE  HeldIsLocked' /\ OneHolder'
    BY <2>3 DEF Settle, DeleteRow, Current, Finish
  <2>4. ASSUME NEW p \in Pollers, Select(p) PROVE HeldIsLocked' /\ OneHolder'
    BY <2>4 DEF Select
  <2>5. ASSUME NEW p \in Pollers, Claim(p) PROVE HeldIsLocked' /\ OneHolder'
    BY <2>5 DEF Claim, Claimable, Locked
  <2>6. ASSUME NEW p \in Pollers, ClaimFails(p) \/ PollerCrash(p)
        PROVE  HeldIsLocked' /\ OneHolder'
    BY <2>6 DEF ClaimFails, PollerCrash
  <2>7. ASSUME NEW p \in Pollers, NEW i \in Ids, MarkPending(p, i) \/ SettleFails(p, i)
        PROVE  HeldIsLocked' /\ OneHolder'
    BY <2>7 DEF MarkPending, SettleFails, Current, Finish
  <2>8. ASSUME NEW i \in Ids, BackoffElapses(i) \/ LockTimesOut(i)
        PROVE  HeldIsLocked' /\ OneHolder'
    BY <2>8 DEF BackoffElapses, LockTimesOut, Backoff, Locked, Expired
  <2>9. CASE UNCHANGED outboxVars
    BY <2>9 DEF outboxVars, leaseVars
  <2> QED
    BY <2>1, <2>2, <2>3, <2>4, <2>5, <2>6, <2>7, <2>8, <2>9
    DEF Next, OutboxStep, LeaseStep
<1> QED
  BY TypeCorrect, <1>1, <1>2, PTL DEF Safety
-----------------------------------------------------------------------------
\* A binding declared is one of an entry of queueSpecs: of its queue by a type of
\* event, or of its dead-letter queue by its key.
LEMMA Bindings ==
    ASSUME NEW exchange, NEW key, NEW queue
    PROVE  <<exchange, key, queue>> \in DeclareTopology.bindings
             <=> \E s \in queueSpecs :
                   \/ s.exchange = exchange /\ key \in s.keys /\ s.queue = queue
                   \/ s.dlx = exchange /\ s.failed = key /\ s.dlq = queue
<1> DEFINE b == <<exchange, key, queue>>
           S == UNION {{<<s.exchange, k, s.queue>> : k \in s.keys} : s \in queueSpecs}
           T == {<<s.dlx, s.failed, s.dlq>> : s \in queueSpecs}
<1>1. DeclareTopology.bindings = S \union T
  BY DEF DeclareTopology
<1>2. b \in S <=> \E s \in queueSpecs : \E k \in s.keys : b = <<s.exchange, k, s.queue>>
  OBVIOUS
<1>3. b \in T <=> \E s \in queueSpecs : b = <<s.dlx, s.failed, s.dlq>>
  OBVIOUS
<1> HIDE DEF S, T
<1> QED BY <1>1, <1>2, <1>3

\* A queue gets a message by one of the two bindings of its entry; all queues
\* that are bound are declared.
LEMMA Routes ==
    ASSUME NEW exchange, NEW key, NEW q
    PROVE  q \in Route(exchange, key)
             <=> \E s \in queueSpecs :
                   \/ s.exchange = exchange /\ key \in s.keys /\ s.queue = q
                   \/ s.dlx = exchange /\ s.failed = key /\ s.dlq = q
<1> DEFINE D == DeclareTopology.queues  B == DeclareTopology.bindings
           D1 == {<<s.queue, s.dlx, s.failed>> : s \in queueSpecs}
           D2 == {<<s.dlq, NoName, NoName>> : s \in queueSpecs}
<1>0. D = D1 \union D2 BY DEF DeclareTopology
<1>1. (\E d \in D1 : d[1] = q) <=> \E s \in queueSpecs : s.queue = q
  <2>1. \A s \in queueSpecs : <<s.queue, s.dlx, s.failed>> \in D1 OBVIOUS
  <2>2. \A d \in D1 : \E s \in queueSpecs : d = <<s.queue, s.dlx, s.failed>> OBVIOUS
  <2>3. \A s \in queueSpecs : <<s.queue, s.dlx, s.failed>>[1] = s.queue OBVIOUS
  <2> HIDE DEF D1
  <2>4. ASSUME NEW d \in D1, d[1] = q PROVE \E s \in queueSpecs : s.queue = q
    BY <2>2, <2>3, <2>4
  <2>5. ASSUME NEW s \in queueSpecs, s.queue = q PROVE \E d \in D1 : d[1] = q
    BY <2>1, <2>3, <2>5
  <2> QED BY <2>4, <2>5
<1>2. (\E d \in D2 : d[1] = q) <=> \E s \in queueSpecs : s.dlq = q
  <2>1. \A s \in queueSpecs : <<s.dlq, NoName, NoName>> \in D2 OBVIOUS
  <2>2. \A d \in D2 : \E s \in queueSpecs : d = <<s.dlq, NoName, NoName>> OBVIOUS
  <2>3. \A s \in queueSpecs : <<s.dlq, NoName, NoName>>[1] = s.dlq OBVIOUS
  <2> HIDE DEF D2
  <2>4. ASSUME NEW d \in D2, d[1] = q PROVE \E s \in queueSpecs : s.dlq = q
    BY <2>2, <2>3, <2>4
  <2>5. ASSUME NEW s \in queueSpecs, s.dlq = q PROVE \E d \in D2 : d[1] = q
    BY <2>1, <2>3, <2>5
  <2> QED BY <2>4, <2>5
<1>3. q \in Route(exchange, key) <=> (\E d \in D : d[1] = q) /\ <<exchange, key, q>> \in B
  BY DEF Route
<1> HIDE DEF D, B, D1, D2
<1> QED BY <1>0, <1>1, <1>2, <1>3, Bindings DEF B

\* A rejected message goes to the dead-letter queue of its own entry and to no
\* other, though timeline.update.q and timeline.fanout.q share their exchange
\* (mq/topology.go:113-142).
THEOREM DeadLettersKeptApart ==
    \A s \in queueSpecs : Route(s.dlx, s.failed) = {s.dlq}
<1> SUFFICES ASSUME NEW s \in queueSpecs PROVE Route(s.dlx, s.failed) = {s.dlq}
  OBVIOUS
<1>1. \A t \in queueSpecs : t.exchange # s.dlx
  BY DEF queueSpecs, QueueSpec
<1>2. \A t \in queueSpecs : t.dlx = s.dlx /\ t.failed = s.failed => t = s
  BY DEF queueSpecs, QueueSpec
<1> QED BY <1>1, <1>2, Routes


\* Type by type: the key is the type, no dead-letter exchange is published to,
\* and the bound queues are those whose worker handles the type.
LEMMA Exchanges ==
    /\ \A type \in PublishedTypes : exchangeAndKey(type)[2] = type
    /\ \A type \in PublishedTypes, s \in queueSpecs : s.dlx # exchangeAndKey(type)[1]
    /\ \A type \in PublishedTypes, s \in queueSpecs :
         s.exchange = exchangeAndKey(type)[1] /\ type \in s.keys => s.queue \in HandledBy(type)
    /\ \A type \in PublishedTypes : \A q \in HandledBy(type) :
         \E s \in queueSpecs : s.exchange = exchangeAndKey(type)[1] /\ type \in s.keys /\ s.queue = q
    /\ \A type \in PublishedTypes : HandledBy(type) # {}
<1> USE DEF exchangeAndKey, HandledBy, PublishedTypes
<1>1. \A type \in PublishedTypes : exchangeAndKey(type) = <<exchangeAndKey(type)[1], type>>
  OBVIOUS
<1>2. \A type \in PublishedTypes : HandledBy(type) # {}
  OBVIOUS
<1>3. \A type \in PublishedTypes, s \in queueSpecs : s.dlx # exchangeAndKey(type)[1]
  <2>1. \A type \in PublishedTypes :
          exchangeAndKey(type)[1] \in {"comment.events", "social.events", "popularity.events",
            "video.timeline.events", "media.events", "audit.events", "video.embed.events"}
    OBVIOUS
  <2>2. \A s \in queueSpecs :
          s.dlx \notin {"comment.events", "social.events", "popularity.events",
            "video.timeline.events", "media.events", "audit.events", "video.embed.events"}
    BY DEF queueSpecs, QueueSpec
  <2> HIDE DEF exchangeAndKey, PublishedTypes
  <2> QED BY <2>1, <2>2
<1>4. \A type \in PublishedTypes, s \in queueSpecs : type \in s.keys => s.queue \in HandledBy(type)
  BY DEF queueSpecs, QueueSpec
<1>5. \A type \in PublishedTypes : \A q \in HandledBy(type) :
         \E s \in queueSpecs : s.exchange = exchangeAndKey(type)[1] /\ type \in s.keys /\ s.queue = q
  <2> SUFFICES ASSUME NEW type \in PublishedTypes, NEW q \in HandledBy(type)
               PROVE  \E s \in queueSpecs :
                        s.exchange = exchangeAndKey(type)[1] /\ type \in s.keys /\ s.queue = q
    OBVIOUS
  <2>1. PICK s \in queueSpecs : s.queue = q
    BY DEF queueSpecs, QueueSpec
  <2>2. s.exchange = exchangeAndKey(type)[1]
    <3>1. CASE type = "comment.created" BY <2>1, <3>1 DEF queueSpecs, QueueSpec
    <3>2. CASE type = "comment.deleted" BY <2>1, <3>2 DEF queueSpecs, QueueSpec
    <3>3. CASE type = "social.followed" BY <2>1, <3>3 DEF queueSpecs, QueueSpec
    <3>4. CASE type = "social.unfollowed" BY <2>1, <3>4 DEF queueSpecs, QueueSpec
    <3>5. CASE type = "popularity.changed" BY <2>1, <3>5 DEF queueSpecs, QueueSpec
    <3>6. CASE type = "video.timeline.publish" BY <2>1, <3>6 DEF queueSpecs, QueueSpec
    <3>7. CASE type = "video.fanout.batch" BY <2>1, <3>7 DEF queueSpecs, QueueSpec
    <3>8. CASE type = "media.transcode.requested" BY <2>1, <3>8 DEF queueSpecs, QueueSpec
    <3>9. CASE type = "audit.requested" BY <2>1, <3>9 DEF queueSpecs, QueueSpec
    <3>10. CASE type = "video.embed.requested" BY <2>1, <3>10 DEF queueSpecs, QueueSpec
    <3> QED BY <3>1, <3>2, <3>3, <3>4, <3>5, <3>6, <3>7, <3>8, <3>9, <3>10
  <2>3. type \in s.keys
    BY <2>1 DEF queueSpecs, QueueSpec
  <2> QED BY <2>1, <2>2, <2>3
<1> QED BY <1>1, <1>2, <1>3, <1>4, <1>5

\* Every type of event some process publishes reaches exactly the queues whose
\* worker handles it: none is unroutable, and no worker refuses as unsupported
\* what its own queue is bound to (mq/publisher.go:94-117, mq/topology.go:80-184,
\* the Handle methods of worker/).
THEOREM EventsReachTheirHandlers ==
    \A type \in PublishedTypes :
        LET to == exchangeAndKey(type) IN
        Route(to[1], to[2]) = HandledBy(type) /\ HandledBy(type) # {}
<1> SUFFICES ASSUME NEW type \in PublishedTypes
             PROVE  /\ Route(exchangeAndKey(type)[1], exchangeAndKey(type)[2]) = HandledBy(type)
                    /\ HandledBy(type) # {}
  OBVIOUS
<1> DEFINE ex == exchangeAndKey(type)[1]
<1> HIDE DEF ex
<1>1. \A q : q \in Route(ex, type) <=> q \in HandledBy(type)
  BY Routes, Exchanges DEF ex
<1>2. Route(ex, type) = HandledBy(type)
  BY <1>1
<1> QED BY <1>2, Exchanges DEF ex

\* No exchange is declared with two types and no queue with two sets of arguments,
\* so that DeclareTopology never contradicts itself, nor a process that ran it
\* before (mq/topology.go:186-284).
THEOREM DeclarationsAgree ==
    /\ \A d, e \in DeclareTopology.exchanges : d[1] = e[1] => d = e
    /\ \A d, e \in DeclareTopology.queues : d[1] = e[1] => d = e
<1> DEFINE E1 == {<<s.exchange, "topic">> : s \in queueSpecs}
           E2 == {<<s.dlx, "direct">> : s \in queueSpecs}
           E3 == {<<Invalidations, "fanout">>}
           Q1 == {<<s.queue, s.dlx, s.failed>> : s \in queueSpecs}
           Q2 == {<<s.dlq, NoName, NoName>> : s \in queueSpecs}
<1>1. DeclareTopology.exchanges = E1 \union E2 \union E3 /\ DeclareTopology.queues = Q1 \union Q2
  BY DEF DeclareTopology
<1>2. \A s, t \in queueSpecs : s.exchange # t.dlx
  BY DEF queueSpecs, QueueSpec
<1>3. \A s \in queueSpecs : s.exchange # Invalidations /\ s.dlx # Invalidations
  BY DEF queueSpecs, QueueSpec, Invalidations
<1>4. \A s, t \in queueSpecs : s.queue = t.queue => s = t
  BY DEF queueSpecs, QueueSpec
<1>5. \A s, t \in queueSpecs : s.queue # t.dlq
  BY DEF queueSpecs, QueueSpec
<1>6. \A d \in E1 : \E s \in queueSpecs : d = <<s.exchange, "topic">>
  OBVIOUS
<1>7. \A d \in E2 : \E s \in queueSpecs : d = <<s.dlx, "direct">>
  OBVIOUS
<1>8. \A d \in Q1 : \E s \in queueSpecs : d = <<s.queue, s.dlx, s.failed>>
  OBVIOUS
<1>9. \A d \in Q2 : \E s \in queueSpecs : d = <<s.dlq, NoName, NoName>>
  OBVIOUS
<1>10. E3 = {<<Invalidations, "fanout">>}
  OBVIOUS
<1> HIDE DEF E1, E2, E3, Q1, Q2
<1>11. ASSUME NEW d \in E1 \union E2 \union E3, NEW e \in E1 \union E2 \union E3, d[1] = e[1]
       PROVE  d = e
  <2>1. CASE d \in E1 BY <1>11, <2>1, <1>2, <1>3, <1>6, <1>7, <1>10
  <2>2. CASE d \in E2 BY <1>11, <2>2, <1>2, <1>3, <1>6, <1>7, <1>10
  <2>3. CASE d \in E3 BY <1>11, <2>3, <1>2, <1>3, <1>6, <1>7, <1>10
  <2> QED BY <2>1, <2>2, <2>3
<1>12. ASSUME NEW d \in Q1 \union Q2, NEW e \in Q1 \union Q2, d[1] = e[1]
       PROVE  d = e
  <2>1. CASE d \in Q1 /\ e \in Q1
    <3>1. PICK s \in queueSpecs : d = <<s.queue, s.dlx, s.failed>> BY <2>1, <1>8
    <3>2. PICK t \in queueSpecs : e = <<t.queue, t.dlx, t.failed>> BY <2>1, <1>8
    <3>3. s = t BY <1>12, <3>1, <3>2, <1>4
    <3> QED BY <3>1, <3>2, <3>3
  <2>2. CASE d \in Q1 /\ e \in Q2
    <3>1. PICK s \in queueSpecs : d = <<s.queue, s.dlx, s.failed>> BY <2>2, <1>8
    <3>2. PICK t \in queueSpecs : e = <<t.dlq, NoName, NoName>> BY <2>2, <1>9
    <3> QED BY <1>12, <3>1, <3>2, <1>5
  <2>3. CASE d \in Q2 /\ e \in Q1
    <3>1. PICK s \in queueSpecs : d = <<s.dlq, NoName, NoName>> BY <2>3, <1>9
    <3>2. PICK t \in queueSpecs : e = <<t.queue, t.dlx, t.failed>> BY <2>3, <1>8
    <3> QED BY <1>12, <3>1, <3>2, <1>5
  <2>4. CASE d \in Q2 /\ e \in Q2
    <3>1. PICK s \in queueSpecs : d = <<s.dlq, NoName, NoName>> BY <2>4, <1>9
    <3>2. PICK t \in queueSpecs : e = <<t.dlq, NoName, NoName>> BY <2>4, <1>9
    <3> QED BY <1>12, <3>1, <3>2
  <2> QED BY <2>1, <2>2, <2>3, <2>4
<1> QED BY <1>1, <1>11, <1>12

\* Queues have names, and entries have dead-letter queues of their own.
LEMMA SpecNames ==
    /\ \A s \in queueSpecs : s.queue # NoName
    /\ \A s, t \in queueSpecs : s.dlq = t.dlq => s = t
<1>1. \A s \in queueSpecs : s.queue # NoName
  BY DEF queueSpecs, QueueSpec, NoName
<1>2. ASSUME NEW s \in queueSpecs, NEW t \in queueSpecs, s.dlq = t.dlq PROVE s = t
  <2>1. CASE s.queue = "like.write.q" BY <1>2, <2>1 DEF queueSpecs, QueueSpec
  <2>2. CASE s.queue = "comment.write.q" BY <1>2, <2>2 DEF queueSpecs, QueueSpec
  <2>3. CASE s.queue = "social.write.q" BY <1>2, <2>3 DEF queueSpecs, QueueSpec
  <2>4. CASE s.queue = "popularity.update.q" BY <1>2, <2>4 DEF queueSpecs, QueueSpec
  <2>5. CASE s.queue = "timeline.update.q" BY <1>2, <2>5 DEF queueSpecs, QueueSpec
  <2>6. CASE s.queue = "timeline.fanout.q" BY <1>2, <2>6 DEF queueSpecs, QueueSpec
  <2>7. CASE s.queue = "media.transcode.q" BY <1>2, <2>7 DEF queueSpecs, QueueSpec
  <2>8. CASE s.queue = "audit.moderate.q" BY <1>2, <2>8 DEF queueSpecs, QueueSpec
  <2>9. CASE s.queue = "video.embed.q" BY <1>2, <2>9 DEF queueSpecs, QueueSpec
  <2>10. s.queue \in {"like.write.q", "comment.write.q", "social.write.q", "popularity.update.q",
                      "timeline.update.q", "timeline.fanout.q", "media.transcode.q",
                      "audit.moderate.q", "video.embed.q"}
    BY DEF queueSpecs, QueueSpec
  <2> QED BY <2>1, <2>2, <2>3, <2>4, <2>5, <2>6, <2>7, <2>8, <2>9, <2>10
<1> QED BY <1>1, <1>2

\* What the broker writes for a rejected message is an entry of x-death.
LEMMA DeathEntry ==
    ASSUME NEW N, NEW q \in N
    PROVE  [queue |-> q, reason |-> "rejected", count |-> 1, first |-> 1, last |-> 1]
             \in [queue : N, reason : {"rejected", "expired"}, count : Int, first : Nat, last : Nat]
  OBVIOUS

\* The newest entry is the first.
LEMMA HeadOfDeaths ==
    ASSUME NEW S, NEW d \in S, NEW rest \in Seq(S), NEW all, all = <<d>> \o rest
    PROVE  all[1] = d /\ all # <<>>
  OBVIOUS

\* The row of a dead letter names the queue it was rejected from, and its
\* dead-letter queue is the one of that queue alone: the unique key (dlq, body)
\* keeps the two letters of an event that two queues rejected
\* (mq/dead_letter_message.go:38-73, :88-113).
THEOREM DeadLetterNamesItsQueue ==
    ASSUME NEW s \in queueSpecs, NEW dlq \in Route(s.dlx, s.failed),
           NEW message \in DeadLetters, message.event # NoName
    PROVE  /\ NewDeadLetterMessage(dlq, Rejected(s, message)).dlq = s.dlq
           /\ NewDeadLetterMessage(dlq, Rejected(s, message)).source = s.queue
           /\ \A t \in queueSpecs : t.dlq = dlq => t = s
<1> DEFINE Names == {t.queue : t \in queueSpecs}
           death == [queue |-> s.queue, reason |-> "rejected", count |-> 1, first |-> 1, last |-> 1]
           rejected == Rejected(s, message)
<1>1. dlq = s.dlq
  BY DeadLettersKeptApart
<1>2. s.queue \in Names /\ s.queue # NoName
  BY SpecNames
<1>3. rejected.deaths = <<death>> \o message.deaths /\ rejected.event = message.event
  BY DEF Rejected, DeadLetters
<1>4. Deaths = [queue : Names, reason : {"rejected", "expired"}, count : Int, first : Nat, last : Nat]
  BY DEF Deaths
<1> HIDE DEF Names
<1>5. death \in Deaths /\ death.queue = s.queue /\ death.last = 1
  BY <1>2, <1>4, DeathEntry
<1>6. message.deaths \in Seq(Deaths)
  BY DEF DeadLetters
<1> HIDE DEF rejected, death
<1>7. rejected.deaths[1] = death /\ rejected.deaths # <<>>
  <2> DEFINE all == rejected.deaths  rest == message.deaths
  <2>1. all = <<death>> \o rest BY <1>3
  <2>2. death \in Deaths /\ rest \in Seq(Deaths) BY <1>5, <1>6
  <2> HIDE DEF all, rest
  <2>3. all[1] = death /\ all # <<>> BY <2>1, <2>2, HeadOfDeaths
  <2> QED BY <2>3 DEF all
<1>8. firstDeath(rejected.deaths).queue = s.queue
  BY <1>4, <1>5, <1>7 DEF firstDeath
<1>9. \A t \in queueSpecs : t.dlq = s.dlq => t = s
  BY SpecNames
<1>10. NewDeadLetterMessage(dlq, rejected).source = s.queue
  BY <1>2, <1>3, <1>8 DEF NewDeadLetterMessage, Known
<1>11. NewDeadLetterMessage(dlq, rejected).dlq = dlq
  BY DEF NewDeadLetterMessage
<1> QED BY <1>1, <1>9, <1>10, <1>11 DEF rejected
-----------------------------------------------------------------------------
\* What the projection table can do inside the pipeline; the worker deletes
\* rows as well.
ProjTableStep ==
    \/ \E i \in Ids : Proj!Enqueue(i)
    \/ \E q \in ProjPollers : Proj!WorkOk(q) \/ Proj!WorkErr(q)
    \/ \E i \in Ids : prows' = [prows EXCEPT ![i] = Gone]
                      /\ UNCHANGED <<pcand, pbatch, pppc>>
    \/ ProjTable

\* A step of the projection table's poller keeps the types of the table.
LEMMA ProjTableTypes ==
    ASSUME Proj!LeaseTypeOK, ProjTableStep
    PROVE  Proj!LeaseTypeOK'
<1> USE DEF Proj!LeaseTypeOK
<1>1. ASSUME NEW i \in Ids, Proj!Enqueue(i) PROVE Proj!LeaseTypeOK'
  BY <1>1 DEF Proj!Enqueue, Proj!Fresh, Proj!Row, Proj!RowStatus
<1>2. ASSUME NEW q \in ProjPollers, Proj!WorkOk(q) \/ Proj!WorkErr(q)
      PROVE  Proj!LeaseTypeOK'
  BY <1>2 DEF Proj!WorkOk, Proj!WorkErr
<1>3. ASSUME NEW i \in Ids, prows' = [prows EXCEPT ![i] = Gone],
             UNCHANGED <<pcand, pbatch, pppc>>
      PROVE  Proj!LeaseTypeOK'
  BY <1>3 DEF Gone, Proj!Row, Proj!RowStatus
<1>4. CASE ProjTable
  <2>1. ASSUME NEW q \in ProjPollers, Proj!Select(q) PROVE Proj!LeaseTypeOK'
    BY <2>1 DEF Proj!Select, Proj!Candidates
  <2>2. ASSUME NEW q \in ProjPollers, Proj!Claim(q) PROVE Proj!LeaseTypeOK'
    BY <2>2 DEF Proj!Claim, Proj!Locked, Proj!Row, Proj!RowStatus
  <2>3. ASSUME NEW q \in ProjPollers, Proj!ClaimFails(q) \/ Proj!PollerCrash(q)
        PROVE  Proj!LeaseTypeOK'
    BY <2>3 DEF Proj!ClaimFails, Proj!PollerCrash
  <2>4. ASSUME NEW q \in ProjPollers, NEW i \in Ids, Proj!MarkPending(q, i)
        PROVE  Proj!LeaseTypeOK'
    BY <2>4 DEF Proj!MarkPending, Proj!Finish, Proj!Gone, Proj!Backoff, Proj!Row,
                Proj!RowStatus
  <2>5. ASSUME NEW q \in ProjPollers, NEW i \in Ids, Proj!SettleFails(q, i)
        PROVE  Proj!LeaseTypeOK'
    BY <2>5 DEF Proj!SettleFails, Proj!Finish
  <2>6. ASSUME NEW i \in Ids, Proj!BackoffElapses(i) PROVE Proj!LeaseTypeOK'
    BY <2>6 DEF Proj!BackoffElapses, Proj!Fresh, Proj!Row, Proj!RowStatus
  <2>7. ASSUME NEW i \in Ids, Proj!LockTimesOut(i) PROVE Proj!LeaseTypeOK'
    BY <2>7 DEF Proj!LockTimesOut, Proj!Expired, Proj!Row, Proj!RowStatus
  <2>8. ASSUME NEW q \in ProjPollers, NEW i \in Ids, Proj!DeleteRow(q, i)
        PROVE  Proj!LeaseTypeOK'
    BY <2>8 DEF Proj!DeleteRow, Proj!Finish, Proj!Gone, Proj!Row, Proj!RowStatus
  <2> QED
    BY <1>4, <2>1, <2>2, <2>3, <2>4, <2>5, <2>6, <2>7, <2>8
    DEF ProjTable, Proj!LeaseStep
<1> QED
  BY <1>1, <1>2, <1>3, <1>4 DEF ProjTableStep
-----------------------------------------------------------------------------
\* Where a worker is tells what has happened to its message.
WorkerInv ==
    \A w \in Workers :
        /\ wpc[w] = "idle" <=> cur[w] = NoEvent
        /\ owns[w] => cur[w] # NoEvent
        /\ wpc[w] \in {"record", "unproject", "ack"} => cur[w] \in processed
        /\ wpc[w] = "unproject" => cur[w] \in keys

\* A projection row exists from the moment its event is processed; a poller
\* about to delete one has applied it.
ProjInv ==
    /\ \A i \in Ids : prows[i].status # "none" <=> i \in processed
    /\ \A q \in ProjPollers : pcand[q] \union pbatch[q] \subseteq processed
    /\ \A q \in ProjPollers, i \in Ids :
         pppc[q] = "delete" /\ Proj!Current(q, i) => i \in keys

EffectInv == WorkerInv /\ ProjInv /\ AppliedOnce /\ BucketOnce /\ ProjectionNotLost

\* Nothing is processed or projected at first.
LEMMA InitInv == PInit => PTypeOK /\ EffectInv
<1> SUFFICES ASSUME PInit PROVE PTypeOK /\ EffectInv
  OBVIOUS
<1>1. TypeOK
  BY CopiesAssumption
  DEF PInit, Init, TypeOK, LeaseInit, LeaseTypeOK, Absent, Row, RowStatus
<1>2. Proj!LeaseTypeOK
  BY DEF PInit, Proj!LeaseInit, Proj!LeaseTypeOK, Proj!Absent, Proj!Row, Proj!RowStatus
<1>3. PTypeOK
  BY <1>1, <1>2 DEF PInit, PTypeOK
<1>4. EffectInv
  BY NoEventAssumption
  DEF PInit, Proj!LeaseInit, Proj!Absent, EffectInv, WorkerInv, ProjInv, AppliedOnce,
      BucketOnce, ProjectionNotLost, Proj!Current
<1> QED
  BY <1>3, <1>4

\* Which part of the state each kind of step touches.
LEMMA StepTypes ==
    ASSUME PTypeOK, WorkerInv, [PNext]_vars
    PROVE  PTypeOK'
<1> USE DEF PTypeOK
<1>1. CASE Next /\ UNCHANGED consumerVars
  <2>1. TypeOK'
    <3>1. LeaseTypeOK'
      <4>1. CASE TableStep
        BY <4>1, TableTypes DEF TypeOK
      <4>2. CASE UNCHANGED leaseVars
        BY <4>2 DEF TypeOK, LeaseTypeOK, leaseVars
      <4> QED
        BY <1>1, <4>1, <4>2, OutboxTableStep
    <3>2. ready' \in [Ids -> 0..MaxCopies]
      <4>1. ready' = ready \/ \E i \in Ids : Accept(i)
        BY <1>1 DEF Next, OutboxStep, Commit, PublishOk, PublishErr,
                    Settle
      <4> QED
        BY <4>1, CopiesAssumption DEF TypeOK, Accept
    <3> QED
      BY <3>1, <3>2 DEF TypeOK
  <2>2. Proj!LeaseTypeOK'
    BY <1>1 DEF consumerVars, projVars, Proj!LeaseTypeOK
  <2> QED
    BY <1>1, <2>1, <2>2 DEF consumerVars, projVars, workerVars, mysqlVars, redisVars
<1>2. ASSUME NEW w \in Workers, WorkerStep(w) PROVE PTypeOK'
  <2>1. TypeOK'
    <3>1. LeaseTypeOK'
      BY <1>2 DEF WorkerStep, Receive, HandleTx, HandleFails, Record, RecordFails,
                  Unproject, Ack, ConnectionDrops, WorkerCrash, outboxVars, leaseVars,
                  TypeOK, LeaseTypeOK
    <3>2. \/ ready' = ready
          \/ \E i \in Ids : Accept(i)
          \/ \E i \in Ids : ready[i] > 0 /\ ready' = [ready EXCEPT ![i] = @ - 1]
      BY <1>2 DEF WorkerStep, Receive, HandleTx, HandleFails, Record, RecordFails,
                  Unproject, Ack, ConnectionDrops, WorkerCrash, outboxVars,
                  Redeliver, WorkerInv
    <3>3. ready' \in [Ids -> 0..MaxCopies]
      BY <3>2, CopiesAssumption DEF TypeOK, Accept
    <3> QED
      BY <3>1, <3>3 DEF TypeOK
  <2>2. Proj!LeaseTypeOK'
    <3>1. ProjTableStep \/ UNCHANGED projVars
      BY <1>2 DEF WorkerStep, Receive, HandleTx, HandleFails, Record, RecordFails,
                  Unproject, Ack, ConnectionDrops, WorkerCrash, CommitEvent,
                  ProjTableStep, projVars, WorkerInv
    <3> QED
      BY <3>1, ProjTableTypes DEF projVars, Proj!LeaseTypeOK
  <2>3. /\ wpc' \in [Workers -> {"idle", "tx", "record", "unproject", "ack"}]
        /\ cur' \in [Workers -> Ids \union {NoEvent}]
        /\ owns' \in [Workers -> BOOLEAN]
    <3>1. \/ wpc' = wpc
          \/ \E l \in {"idle", "tx", "record", "unproject", "ack"} :
               wpc' = [wpc EXCEPT ![w] = l]
      BY <1>2 DEF WorkerStep, Receive, HandleTx, HandleFails, Record, RecordFails,
                  Unproject, Ack, ConnectionDrops, WorkerCrash, Goto, Release
    <3>2. cur' = cur \/ \E c \in Ids \union {NoEvent} : cur' = [cur EXCEPT ![w] = c]
      BY <1>2 DEF WorkerStep, Receive, HandleTx, HandleFails, Record, RecordFails,
                  Unproject, Ack, ConnectionDrops, WorkerCrash, Release
    <3>3. owns' = owns \/ \E b \in BOOLEAN : owns' = [owns EXCEPT ![w] = b]
      BY <1>2 DEF WorkerStep, Receive, HandleTx, HandleFails, Record, RecordFails,
                  Unproject, Ack, ConnectionDrops, WorkerCrash, Release
    <3> QED
      BY <3>1, <3>2, <3>3
  <2>4. /\ processed' \in SUBSET Ids /\ popularity' \in Nat
        /\ applied' \in [Ids -> Nat]
    <3>1. \/ UNCHANGED mysqlVars
          \/ \E i \in Ids : CommitEvent(i)
      BY <1>2 DEF WorkerStep, Receive, HandleTx, HandleFails, Record, RecordFails,
                  Unproject, Ack, ConnectionDrops, WorkerCrash, mysqlVars, WorkerInv
    <3> QED
      BY <3>1, DeltaAssumption DEF mysqlVars, CommitEvent, Clamped
  <2>5. keys' \in SUBSET Ids /\ bucket' \in [Ids -> Nat]
    <3>1. \/ UNCHANGED redisVars
          \/ \E i \in Ids : RecordEvent(i)
      BY <1>2 DEF WorkerStep, Receive, HandleTx, HandleFails, Record, RecordFails,
                  Unproject, Ack, ConnectionDrops, WorkerCrash, redisVars, WorkerInv
    <3> QED
      BY <3>1 DEF redisVars, RecordEvent
  <2>6. dead' \in SUBSET Ids
    BY <1>2 DEF WorkerStep, Receive, HandleTx, HandleFails, Record, RecordFails,
                Unproject, Ack, ConnectionDrops, WorkerCrash, WorkerInv
  <2> QED
    BY <2>1, <2>2, <2>3, <2>4, <2>5, <2>6
<1>3. CASE ProjStep
  <2>1. Proj!LeaseTypeOK'
    <3>1. ProjTableStep
      BY <1>3 DEF ProjStep, ProjTableStep, ProjectOk, ProjectErr
    <3> QED
      BY <3>1, ProjTableTypes
  <2>2. keys' \in SUBSET Ids /\ bucket' \in [Ids -> Nat]
    <3>1. \/ UNCHANGED redisVars
          \/ \E i \in Ids : RecordEvent(i)
      BY <1>3 DEF ProjStep, ProjectOk, ProjectErr, otherThanProj, redisVars
    <3> QED
      BY <3>1 DEF redisVars, RecordEvent
  <2>3. UNCHANGED <<outboxVars, workerVars, mysqlVars, dead>>
    BY <1>3 DEF ProjStep, ProjectOk, ProjectErr, otherThanProj
  <2> QED
    BY <2>1, <2>2, <2>3
    DEF outboxVars, leaseVars, workerVars, mysqlVars, TypeOK, LeaseTypeOK
<1>4. CASE UNCHANGED vars
  BY <1>4 DEF vars, outboxVars, leaseVars, consumerVars, projVars, workerVars,
              mysqlVars, redisVars, TypeOK, LeaseTypeOK, Proj!LeaseTypeOK
<1> QED
  BY <1>1, <1>2, <1>3, <1>4 DEF PNext

\* The effects on MySQL and Redis stay matched to what is processed.
LEMMA EffectStep ==
    ASSUME PTypeOK, EffectInv, PTypeOK', [PNext]_vars
    PROVE  EffectInv'
<1> USE NoEventAssumption
    DEF PTypeOK, EffectInv, WorkerInv, ProjInv, AppliedOnce, BucketOnce,
        ProjectionNotLost, Proj!LeaseTypeOK, Proj!Current
<1>1. ASSUME NEW w \in Workers, NEW i \in Ids, Receive(w, i) PROVE EffectInv'
  BY <1>1 DEF Receive, Goto, projVars, mysqlVars, redisVars
<1>2. ASSUME NEW w \in Workers, HandleTx(w) PROVE EffectInv'
  <2>1. CASE cur[w] \in processed
    BY <1>2, <2>1 DEF HandleTx, Goto, projVars, mysqlVars, redisVars
  <2>2. CASE cur[w] \notin processed
    <3>1. cur[w] \in Ids /\ CommitEvent(cur[w])
      BY <1>2, <2>2 DEF HandleTx
    <3> QED
      BY <1>2, <2>2, <3>1 DEF HandleTx, CommitEvent, Goto, redisVars, Proj!Enqueue,
                              Proj!Fresh
  <2> QED
    BY <2>1, <2>2
<1>3. ASSUME NEW w \in Workers, HandleFails(w) PROVE EffectInv'
  <2>1. CASE UNCHANGED <<mysqlVars, projVars>>
    BY <1>3, <2>1 DEF HandleFails, Release, projVars, mysqlVars, redisVars
  <2>2. CASE cur[w] \notin processed /\ CommitEvent(cur[w])
    <3>1. cur[w] \in Ids
      BY <1>3 DEF HandleFails
    <3> QED
      BY <1>3, <2>2, <3>1 DEF HandleFails, CommitEvent, Release, redisVars,
                              Proj!Enqueue, Proj!Fresh
  <2> QED
    BY <1>3, <2>1, <2>2 DEF HandleFails
<1>4. ASSUME NEW w \in Workers, Record(w) \/ RecordFails(w) PROVE EffectInv'
  <2>1. cur[w] \in Ids /\ cur[w] \in processed
    BY <1>4 DEF Record, RecordFails
  <2> QED
    BY <1>4, <2>1 DEF Record, RecordFails, RecordEvent, Goto, projVars, mysqlVars,
                      redisVars
<1>5. ASSUME NEW w \in Workers, Unproject(w) PROVE EffectInv'
  <2>1. cur[w] \in Ids /\ cur[w] \in processed /\ cur[w] \in keys
    BY <1>5 DEF Unproject
  <2>2. \A i \in Ids : \/ prows'[i] = prows[i]
                       \/ i = cur[w] /\ prows'[i].status = "deleted"
    BY <1>5 DEF Unproject, Gone
  <2>3. WorkerInv' /\ AppliedOnce' /\ BucketOnce'
    BY <1>5, <2>1 DEF Unproject, Goto, mysqlVars, redisVars
  <2>4. ProjInv' /\ ProjectionNotLost'
    BY <1>5, <2>1, <2>2, SMTT(30) DEF Unproject, mysqlVars, redisVars
  <2> QED
    BY <2>3, <2>4
<1>6. ASSUME NEW w \in Workers, Ack(w) \/ ConnectionDrops(w) \/ WorkerCrash(w)
      PROVE  EffectInv'
  BY <1>6 DEF Ack, ConnectionDrops, WorkerCrash, Release, projVars, mysqlVars, redisVars
<1>7. ASSUME NEW q \in ProjPollers, NEW i \in Ids, ProjectOk(q, i) \/ ProjectErr(q, i)
      PROVE  EffectInv'
  <2>1. i \in processed
    BY <1>7 DEF ProjectOk, ProjectErr
  <2> QED
    BY <1>7, <2>1, IdsAssumption
    DEF ProjectOk, ProjectErr, Proj!WorkOk, Proj!WorkErr, RecordEvent, workerVars,
        mysqlVars, redisVars
<1>8. ASSUME ProjTable, UNCHANGED otherThanProj PROVE EffectInv'
  <2> USE DEF otherThanProj, workerVars, mysqlVars, redisVars
  <2>1. ASSUME NEW q \in ProjPollers, Proj!Select(q) PROVE EffectInv'
    BY <1>8, <2>1 DEF Proj!Select, Proj!Candidates, Proj!Claimable
  <2>2. ASSUME NEW q \in ProjPollers, Proj!Claim(q) PROVE EffectInv'
    <3>1. \A i \in Ids : \/ prows'[i] = prows[i]
                         \/ i \in pcand[q] /\ prows'[i].status = "claimed"
      BY <2>2 DEF Proj!Claim, Proj!Locked
    <3>2. \A r \in ProjPollers : pcand'[r] \union pbatch'[r] \subseteq processed
      BY <2>2 DEF Proj!Claim
    <3>3. \A r \in ProjPollers : pppc'[r] = "delete" => r # q /\ pppc[r] = "delete"
      BY <2>2 DEF Proj!Claim
    <3>4. \A r \in ProjPollers : r # q => pbatch'[r] = pbatch[r]
      BY <2>2 DEF Proj!Claim
    <3>5. ProjInv'
      BY <1>8, <3>1, <3>2, <3>3, <3>4
    <3>6. ProjectionNotLost'
      BY <1>8, <3>1
    <3> QED
      BY <1>8, <3>5, <3>6
  <2>3. ASSUME NEW q \in ProjPollers, Proj!ClaimFails(q) \/ Proj!PollerCrash(q)
        PROVE  EffectInv'
    <3>1. CASE Proj!ClaimFails(q)
      BY <1>8, <3>1 DEF Proj!ClaimFails
    <3>2. CASE Proj!PollerCrash(q)
      BY <1>8, <3>2 DEF Proj!PollerCrash
    <3> QED
      BY <2>3, <3>1, <3>2
  <2>4. ASSUME NEW q \in ProjPollers, NEW i \in Ids, Proj!MarkPending(q, i)
        PROVE  EffectInv'
    BY <1>8, <2>4 DEF Proj!MarkPending, Proj!Finish, Proj!Gone, Proj!Backoff
  <2>5. ASSUME NEW q \in ProjPollers, NEW i \in Ids, Proj!SettleFails(q, i)
        PROVE  EffectInv'
    BY <1>8, <2>5 DEF Proj!SettleFails, Proj!Finish
  <2>6. ASSUME NEW i \in Ids, Proj!BackoffElapses(i) PROVE EffectInv'
    BY <1>8, <2>6 DEF Proj!BackoffElapses, Proj!Backoff, Proj!Fresh
  <2>7. ASSUME NEW i \in Ids, Proj!LockTimesOut(i) PROVE EffectInv'
    BY <1>8, <2>7 DEF Proj!LockTimesOut, Proj!Locked, Proj!Expired
  <2>8. ASSUME NEW q \in ProjPollers, NEW i \in Ids, Proj!DeleteRow(q, i)
        PROVE  EffectInv'
    BY <1>8, <2>8 DEF Proj!DeleteRow, Proj!Finish, Proj!Gone
  <2> QED
    BY <1>8, <2>1, <2>2, <2>3, <2>4, <2>5, <2>6, <2>7, <2>8
    DEF ProjTable, Proj!LeaseStep
<1>9. CASE UNCHANGED consumerVars
  BY <1>9 DEF consumerVars, projVars, workerVars, mysqlVars, redisVars
<1> QED
  BY <1>1, <1>2, <1>3, <1>4, <1>5, <1>6, <1>7, <1>8, <1>9
  DEF PNext, WorkerStep, ProjStep, vars

EffectIInv == PTypeOK /\ EffectInv

\* The invariant holds in every reachable state.
LEMMA EffectIInvHolds == PSafety => []EffectIInv
<1>1. PInit => EffectIInv
  BY InitInv DEF EffectIInv
<1>2. EffectIInv /\ [PNext]_vars => EffectIInv'
  <2> SUFFICES ASSUME EffectIInv, [PNext]_vars PROVE EffectIInv'
    OBVIOUS
  <2>1. PTypeOK'
    BY StepTypes DEF EffectIInv, EffectInv
  <2> QED
    BY <2>1, EffectStep DEF EffectIInv
<1> QED
  BY <1>1, <1>2, PTL DEF PSafety

\* Type correctness of the whole pipeline.
THEOREM PTypeCorrect == PSafety => []PTypeOK
BY EffectIInvHolds, PTL DEF EffectIInv

\* AdjustCounters runs exactly once for every processed event, for no other.
THEOREM CountedOnce == PSafety => []AppliedOnce
<1>1. EffectIInv => AppliedOnce
  BY DEF EffectIInv, EffectInv
<1> QED
  BY <1>1, EffectIInvHolds, PTL

\* The Redis bucket counts an event at most once, and only what MySQL counts.
THEOREM RankedOnce == PSafety => []BucketOnce
<1>1. EffectIInv => BucketOnce
  BY DEF EffectIInv, EffectInv
<1> QED
  BY <1>1, EffectIInvHolds, PTL

\* What MySQL has counted and Redis has not keeps its projection row.
THEOREM ProjectionsKept == PSafety => []ProjectionNotLost
<1>1. EffectIInv => ProjectionNotLost
  BY DEF EffectIInv, EffectInv
<1> QED
  BY <1>1, EffectIInvHolds, PTL
-----------------------------------------------------------------------------
\* The message has been taken over: it is in the queue, will be delivered
\* again if its worker fails, has been counted, or is in the DLQ.
TakenOver(i) == ready[i] > 0 \/ InFlight(i) \/ i \in processed \union dead

\* A poller about to delete an outbox row knows that the broker took it.
DeletesTaken ==
    \A p \in Pollers, i \in Ids : ppc[p] = "delete" /\ Current(p, i) => TakenOver(i)

\* The consumer side and the queue only ever advance a message.
LEMMA TakenOverStays ==
    ASSUME EffectIInv, [PNext]_vars, NEW i \in Ids, TakenOver(i)
    PROVE  TakenOver(i)'
<1> USE CopiesAssumption, NoEventAssumption
    DEF EffectIInv, EffectInv, PTypeOK, TypeOK, WorkerInv, TakenOver, InFlight
<1>1. CASE Next /\ UNCHANGED consumerVars
  <2>1. ready' = ready \/ \E j \in Ids : Accept(j)
    BY <1>1 DEF Next, OutboxStep, Commit, PublishOk, PublishErr, Settle
  <2>2. ready[i] > 0 => ready'[i] > 0
    BY <2>1 DEF Accept
  <2> QED
    BY <1>1, <2>2 DEF consumerVars, workerVars, mysqlVars
<1>2. ASSUME NEW w \in Workers, NEW j \in Ids, Receive(w, j) PROVE TakenOver(i)'
  BY <1>2 DEF Receive, Goto, mysqlVars
<1>3. ASSUME NEW w \in Workers, HandleTx(w) PROVE TakenOver(i)'
  BY <1>3 DEF HandleTx, CommitEvent, mysqlVars, outboxVars
<1>4. ASSUME NEW w \in Workers, HandleFails(w) PROVE TakenOver(i)'
  BY <1>4 DEF HandleFails, CommitEvent, Release, mysqlVars, outboxVars
<1>5. ASSUME NEW w \in Workers, Record(w) \/ RecordFails(w) \/ Unproject(w)
      PROVE  TakenOver(i)'
  BY <1>5 DEF Record, RecordFails, Unproject, mysqlVars, outboxVars
<1>6. ASSUME NEW w \in Workers, Ack(w) PROVE TakenOver(i)'
  BY <1>6 DEF Ack, Release, mysqlVars, outboxVars
<1>7. ASSUME NEW w \in Workers, ConnectionDrops(w) PROVE TakenOver(i)'
  BY <1>7 DEF ConnectionDrops, Redeliver, Accept, mysqlVars
<1>8. ASSUME NEW w \in Workers, WorkerCrash(w) PROVE TakenOver(i)'
  BY <1>8 DEF WorkerCrash, Redeliver, Accept, Release, mysqlVars
<1>9. CASE ProjStep
  BY <1>9 DEF ProjStep, ProjectOk, ProjectErr, otherThanProj, workerVars, mysqlVars,
              outboxVars
<1>10. CASE UNCHANGED vars
  BY <1>10 DEF vars, outboxVars, consumerVars, workerVars, mysqlVars
<1> QED
  BY <1>1, <1>2, <1>3, <1>4, <1>5, <1>6, <1>7, <1>8, <1>9, <1>10 DEF PNext, WorkerStep

KeptInv == EffectIInv /\ DeletesTaken /\ EventNotLost

\* An event is somewhere between its commit and its count after every step.
LEMMA KeptStep ==
    ASSUME KeptInv, EffectIInv', [PNext]_vars
    PROVE  KeptInv'
<1>1. \A i \in Ids : TakenOver(i) => TakenOver(i)'
  BY TakenOverStays DEF KeptInv
<1> DEFINE Lost == DeletesTaken /\ \A i \in Committed :
                     rows[i].status # "deleted" \/ TakenOver(i)
<1>2. (EventNotLost <=> \A i \in Committed : rows[i].status # "deleted" \/ TakenOver(i))
      /\ (EventNotLost <=> \A i \in Committed : rows[i].status # "deleted" \/ TakenOver(i))'
  BY DEF EventNotLost, TakenOver
<1>3. Lost
  BY <1>2 DEF KeptInv
<1>4. Lost'
  <2> USE <1>1, <1>3, IdsAssumption, CopiesAssumption
      DEF DeletesTaken, Committed, Current, KeptInv, EffectIInv, PTypeOK, TypeOK,
          LeaseTypeOK
  <2>1. CASE UNCHANGED leaseVars
    BY <2>1 DEF leaseVars
  <2>2. ASSUME NEW i \in Ids, Commit(i) PROVE Lost'
    BY <2>2 DEF Commit, Enqueue, Fresh
  <2>3. ASSUME NEW p \in Pollers, NEW i \in Ids, PublishOk(p, i) PROVE Lost'
    <3>1. TakenOver(i)'
      BY <2>3 DEF PublishOk, Accept, TakenOver
    <3>2. \A j \in Ids : Current(p, j) => j = i
      BY <2>3 DEF PublishOk
    <3>3. \A q \in Pollers : ppc'[q] = "delete" => q = p \/ ppc[q] = "delete"
      BY <2>3 DEF PublishOk, WorkOk
    <3>4. UNCHANGED <<rows, batch>>
      BY <2>3 DEF PublishOk, WorkOk
    <3>5. DeletesTaken'
      BY <3>1, <3>2, <3>3, <3>4
    <3> QED
      BY <3>4, <3>5
  <2>4. ASSUME NEW p \in Pollers, NEW i \in Ids, PublishErr(p, i) PROVE Lost'
    BY <2>4 DEF PublishErr, WorkErr
  <2>5. ASSUME NEW p \in Pollers, NEW i \in Ids, Settle(p, i) PROVE Lost'
    BY <2>5 DEF Settle, DeleteRow, Finish, Gone
  <2>6. ASSUME NEW p \in Pollers, Select(p) PROVE Lost'
    BY <2>6 DEF Select
  <2>7. ASSUME NEW p \in Pollers, Claim(p) PROVE Lost'
    BY <2>7 DEF Claim, Locked
  <2>8. ASSUME NEW p \in Pollers, ClaimFails(p) \/ PollerCrash(p) PROVE Lost'
    BY <2>8 DEF ClaimFails, PollerCrash
  <2>9. ASSUME NEW p \in Pollers, NEW i \in Ids, MarkPending(p, i) PROVE Lost'
    BY <2>9 DEF MarkPending, Finish, Gone, Backoff
  <2>10. ASSUME NEW p \in Pollers, NEW i \in Ids, SettleFails(p, i) PROVE Lost'
    BY <2>10 DEF SettleFails, Finish
  <2>11. ASSUME NEW i \in Ids, BackoffElapses(i) \/ LockTimesOut(i) PROVE Lost'
    <3>1. \A j \in Ids : rows'[j].status = "deleted" => rows[j].status = "deleted"
      BY <2>11 DEF BackoffElapses, LockTimesOut, Fresh, Backoff, Locked, Expired, Row
    <3>2. \A j \in Ids : rows[j].status = "none" => rows'[j].status = "none"
      BY <2>11 DEF BackoffElapses, LockTimesOut, Fresh, Backoff, Locked, Expired, Row
    <3>3. UNCHANGED <<batch, ppc>>
      BY <2>11 DEF BackoffElapses, LockTimesOut
    <3>4. DeletesTaken'
      BY <3>3
    <3>5. \A j \in Committed' : j \in Committed
      BY <3>2
    <3>6. \A j \in Committed' : rows'[j].status # "deleted" \/ TakenOver(j)'
      BY <3>1, <3>5
    <3> QED
      BY <3>4, <3>6
  <2>12. ASSUME NEW w \in Workers, WorkerStep(w) PROVE UNCHANGED leaseVars
    BY <2>12 DEF WorkerStep, Receive, HandleTx, HandleFails, Record, RecordFails,
                 Unproject, Ack, ConnectionDrops, WorkerCrash, outboxVars
  <2>13. CASE ProjStep
    <3>1. UNCHANGED leaseVars
      BY <2>13 DEF ProjStep, ProjectOk, ProjectErr, otherThanProj, outboxVars
    <3> QED
      BY <2>1, <3>1
  <2>14. UNCHANGED vars => UNCHANGED leaseVars
    BY DEF vars, outboxVars
  <2> QED
    BY <2>1, <2>2, <2>3, <2>4, <2>5, <2>6, <2>7, <2>8, <2>9, <2>10, <2>11, <2>12,
       <2>13, <2>14
    DEF PNext, Next, OutboxStep, LeaseStep
<1> QED
  BY <1>2, <1>4 DEF KeptInv

\* From its commit on, an event is in the outbox, in the queue, in the hands
\* of a worker the broker watches, counted, or in the dead-letter queue.
THEOREM EventsKeptToTheEnd ==
    PSafety => []EventNotLost
<1>1. PInit => DeletesTaken /\ EventNotLost
  BY DEF PInit, Init, LeaseInit, Absent, DeletesTaken, EventNotLost, Committed
<1>2. KeptInv /\ EffectIInv' /\ [PNext]_vars => KeptInv'
  BY KeptStep
<1>3. KeptInv <=> EffectIInv /\ DeletesTaken /\ EventNotLost
  BY DEF KeptInv
<1> QED
  BY <1>1, <1>2, <1>3, EffectIInvHolds, PTL DEF PSafety
-----------------------------------------------------------------------------
\* Whatever a poller, the queue or a worker holds was committed.
OriginInv ==
    /\ FromCommit
    /\ \A w \in Workers : cur[w] \in Committed \union {NoEvent}
    /\ processed \subseteq Committed

\* Whatever a poller or a worker takes up was committed.
LEMMA OriginStep ==
    ASSUME EffectIInv, OriginInv, [PNext]_vars
    PROVE  OriginInv'
<1> USE NoEventAssumption DEF EffectIInv, EffectInv, PTypeOK, WorkerInv, OriginInv
<1>1. CASE [Next]_outboxVars /\ UNCHANGED consumerVars
  <2>1. FromCommit' /\ Committed \subseteq Committed'
    BY <1>1, FromCommitStep
  <2> QED
    BY <1>1, <2>1 DEF consumerVars, workerVars, mysqlVars
<1>2. ASSUME NEW w \in Workers, WorkerStep(w) PROVE OriginInv'
  <2>1. UNCHANGED leaseVars
    BY <1>2 DEF WorkerStep, Receive, HandleTx, HandleFails, Record, RecordFails,
                Unproject, Ack, ConnectionDrops, WorkerCrash, outboxVars
  <2>2. Committed' = Committed
    BY <2>1 DEF leaseVars, Committed
  <2>3. InQueue' \subseteq Committed
    <3>1. \/ ready' = ready
          \/ cur[w] \in Committed /\ Accept(cur[w])
          \/ \E i \in Ids : ready[i] > 0 /\ ready' = [ready EXCEPT ![i] = @ - 1]
      BY <1>2 DEF WorkerStep, Receive, HandleTx, HandleFails, Record, RecordFails,
                  Unproject, Ack, ConnectionDrops, WorkerCrash, outboxVars, Redeliver
    <3> QED
      BY <3>1 DEF TypeOK, Accept, InQueue, FromCommit, Committed
  <2>4. FromCommit'
    BY <2>1, <2>2, <2>3 DEF FromCommit, leaseVars
  <2>5. \A v \in Workers : cur'[v] \in Committed \union {NoEvent}
    <3>1. cur' = cur \/ \E c \in InQueue \union {NoEvent} : cur' = [cur EXCEPT ![w] = c]
      BY <1>2 DEF WorkerStep, Receive, HandleTx, HandleFails, Record, RecordFails,
                  Unproject, Ack, ConnectionDrops, WorkerCrash, Release, InQueue
    <3> QED
      BY <3>1 DEF FromCommit
  <2>6. processed' \subseteq Committed
    BY <1>2 DEF WorkerStep, Receive, HandleTx, HandleFails, Record, RecordFails,
                Unproject, Ack, ConnectionDrops, WorkerCrash, CommitEvent, mysqlVars
  <2> QED
    BY <2>2, <2>4, <2>5, <2>6
<1>3. CASE ProjStep
  <2>1. UNCHANGED <<rows, cand, batch, ready, cur, processed>>
    BY <1>3 DEF ProjStep, ProjectOk, ProjectErr, otherThanProj, outboxVars, leaseVars,
                workerVars, mysqlVars
  <2> QED
    BY <2>1 DEF FromCommit, Committed, InQueue
<1>4. UNCHANGED vars => [Next]_outboxVars /\ UNCHANGED consumerVars
  BY DEF vars
<1> QED
  BY <1>1, <1>2, <1>3, <1>4 DEF PNext

\* Whatever a poller or a worker holds was committed, in every behaviour.
LEMMA OriginHolds == PSafety => []OriginInv
<1>1. PInit => OriginInv
  BY DEF PInit, Init, LeaseInit, Absent, OriginInv, FromCommit, Committed, InQueue
<1>2. EffectIInv /\ OriginInv /\ [PNext]_vars => OriginInv'
  BY OriginStep
<1> QED
  BY <1>1, <1>2, EffectIInvHolds, PTL DEF PSafety

\* A step of the pipeline commits one event, runs AdjustCounters for one
\* committed event that has not had it, or does neither.
LEMMA MySQLStep ==
    ASSUME EffectIInv, OriginInv, [PNext]_vars
    PROVE  [MySQLEffect!Next]_<<Committed, applied>>
<1> USE NoEventAssumption DEF EffectIInv, EffectInv, PTypeOK, WorkerInv, AppliedOnce
<1>1. CASE [Next]_outboxVars /\ UNCHANGED consumerVars
  <2>1. \/ \E i \in Ids : i \notin Committed /\ Committed' = Committed \union {i}
        \/ Committed' = Committed
    BY <1>1, CommittedStep DEF OriginInv
  <2> QED
    BY <1>1, <2>1 DEF consumerVars, mysqlVars, MySQLEffect!Next, MySQLEffect!Commit
<1>2. ASSUME NEW w \in Workers, WorkerStep(w)
      PROVE  [MySQLEffect!Next]_<<Committed, applied>>
  <2>1. Committed' = Committed
    BY <1>2 DEF WorkerStep, Receive, HandleTx, HandleFails, Record, RecordFails,
                Unproject, Ack, ConnectionDrops, WorkerCrash, outboxVars, leaseVars,
                Committed
  <2>2. \/ applied' = applied
        \/ /\ cur[w] \in Ids /\ cur[w] \notin processed
           /\ applied' = [applied EXCEPT ![cur[w]] = @ + 1]
    BY <1>2 DEF WorkerStep, Receive, HandleTx, HandleFails, Record, RecordFails,
                Unproject, Ack, ConnectionDrops, WorkerCrash, CommitEvent, mysqlVars
  <2>3. ASSUME cur[w] \in Ids, cur[w] \notin processed,
               applied' = [applied EXCEPT ![cur[w]] = @ + 1]
        PROVE  MySQLEffect!Apply(cur[w])
    <3>1. applied[cur[w]] = 0
      BY <2>3
    <3>2. cur[w] \in Committed
      BY <2>3 DEF OriginInv
    <3>3. applied' = [applied EXCEPT ![cur[w]] = 1]
      BY <2>3, <3>1
    <3> QED
      BY <2>1, <3>1, <3>2, <3>3 DEF MySQLEffect!Apply
  <2> QED
    BY <2>1, <2>2, <2>3 DEF MySQLEffect!Next
<1>3. CASE ProjStep
  BY <1>3 DEF ProjStep, ProjectOk, ProjectErr, otherThanProj, outboxVars, leaseVars,
              mysqlVars, Committed
<1>4. UNCHANGED vars => [Next]_outboxVars /\ UNCHANGED consumerVars
  BY DEF vars
<1> QED
  BY <1>1, <1>2, <1>3, <1>4 DEF PNext

\* The counter in MySQL implements the exactly-once specification.
THEOREM MySQLImplementsOnce == PSafety => MySQLExactlyOnce
<1>1. PInit => MySQLEffect!Init
  BY DEF PInit, Init, LeaseInit, Absent, MySQLEffect!Init, Committed
<1>2. EffectIInv /\ OriginInv /\ [PNext]_vars => [MySQLEffect!Next]_<<Committed, applied>>
  BY MySQLStep
<1> QED
  BY <1>1, <1>2, EffectIInvHolds, OriginHolds, PTL
  DEF PSafety, MySQLExactlyOnce, MySQLEffect!Spec

\* A step of the pipeline commits one event, adds one processed event to its
\* bucket for the first time, or does neither.
LEMMA RedisStep ==
    ASSUME EffectIInv, OriginInv, [PNext]_vars
    PROVE  [RedisEffect!Next]_<<Committed, bucket>>
<1> USE NoEventAssumption DEF EffectIInv, EffectInv, PTypeOK, WorkerInv, BucketOnce
<1>1. CASE [Next]_outboxVars /\ UNCHANGED consumerVars
  <2>1. \/ \E i \in Ids : i \notin Committed /\ Committed' = Committed \union {i}
        \/ Committed' = Committed
    BY <1>1, CommittedStep DEF OriginInv
  <2> QED
    BY <1>1, <2>1 DEF consumerVars, redisVars, RedisEffect!Next, RedisEffect!Commit
<1>2. ASSUME NEW i \in processed, RecordEvent(i), Committed' = Committed
      PROVE  [RedisEffect!Next]_<<Committed, bucket>>
  <2>1. i \in Committed /\ i \in Ids
    BY DEF OriginInv, Committed
  <2>2. CASE i \in keys
    BY <1>2, <2>2 DEF RecordEvent
  <2>3. CASE i \notin keys
    <3>1. bucket[i] = 0
      BY <2>1, <2>3
    <3>2. bucket' = [bucket EXCEPT ![i] = 1]
      BY <1>2, <2>1, <2>3, <3>1 DEF RecordEvent
    <3> QED
      BY <1>2, <2>1, <3>1, <3>2 DEF RedisEffect!Next, RedisEffect!Apply
  <2> QED
    BY <2>2, <2>3
<1>3. ASSUME NEW w \in Workers, WorkerStep(w)
      PROVE  [RedisEffect!Next]_<<Committed, bucket>>
  <2>1. Committed' = Committed
    BY <1>3 DEF WorkerStep, Receive, HandleTx, HandleFails, Record, RecordFails,
                Unproject, Ack, ConnectionDrops, WorkerCrash, outboxVars, leaseVars,
                Committed
  <2>2. \/ bucket' = bucket
        \/ cur[w] \in processed /\ RecordEvent(cur[w])
    BY <1>3 DEF WorkerStep, Receive, HandleTx, HandleFails, Record, RecordFails,
                Unproject, Ack, ConnectionDrops, WorkerCrash, redisVars
  <2> QED
    BY <1>2, <2>1, <2>2
<1>4. CASE ProjStep
  <2>1. Committed' = Committed
    BY <1>4 DEF ProjStep, ProjectOk, ProjectErr, otherThanProj, outboxVars, leaseVars,
                Committed
  <2>2. \/ bucket' = bucket
        \/ \E q \in ProjPollers, i \in Ids : Proj!Current(q, i) /\ RecordEvent(i)
    BY <1>4 DEF ProjStep, ProjectOk, ProjectErr, otherThanProj, redisVars
  <2>3. \A q \in ProjPollers, i \in Ids : Proj!Current(q, i) => i \in processed
    BY DEF ProjInv, Proj!Current
  <2> QED
    BY <1>2, <2>1, <2>2, <2>3
<1>5. UNCHANGED vars => [Next]_outboxVars /\ UNCHANGED consumerVars
  BY DEF vars
<1> QED
  BY <1>1, <1>3, <1>4, <1>5 DEF PNext

\* The minute bucket in Redis implements the exactly-once specification,
\* although two processes write it and each of them retries.
THEOREM RedisImplementsOnce == PSafety => RedisExactlyOnce
<1>1. PInit => RedisEffect!Init
  BY DEF PInit, Init, LeaseInit, Absent, RedisEffect!Init, Committed
<1>2. EffectIInv /\ OriginInv /\ [PNext]_vars => [RedisEffect!Next]_<<Committed, bucket>>
  BY RedisStep
<1> QED
  BY <1>1, <1>2, EffectIInvHolds, OriginHolds, PTL
  DEF PSafety, RedisExactlyOnce, RedisEffect!Spec
=============================================================================
