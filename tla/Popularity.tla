----------------------------- MODULE Popularity -----------------------------
(***************************************************************************)
(* The life of a popularity.changed event, from the business transaction   *)
(* that commits it to videos.popularity and the Redis minute bucket:       *)
(*                                                                         *)
(*   outbox row -> poller -> queue -> PopularityWorker -> MySQL            *)
(*                                     |-> projection row -> Redis         *)
(*                                                                         *)
(* The worker process consumes with manual acks (mq/consumer.go): an error *)
(* of the handler sends the message to the dead-letter queue, a crash or a *)
(* lost connection makes the broker deliver it again.  The handler         *)
(* (worker/popularity_worker.go) updates MySQL in one transaction guarded  *)
(* by processed_messages, then tries Redis and leaves the rest to the      *)
(* projection poller (popularity/projection_poller.go).                    *)
(***************************************************************************)
EXTENDS Outbox, Integers

CONSTANTS
    Workers,       \* consumers of popularity.update.q
    ProjPollers,   \* projection pollers, one per worker process
    Delta,         \* popularity delta of every event (all of one video)
    NoEvent        \* no message: a worker waits for its next delivery

ASSUME DeltaAssumption == Delta \in [Ids -> Int \ {0}]
ASSUME NoEventAssumption == NoEvent \notin Ids

VARIABLES
    prows, pcand, pbatch, pppc,   \* popularity_projections and its pollers
    wpc, cur, owns,               \* what a consumer does, its message, and
                                  \* whether the broker still waits for its ack
    processed,                    \* processed_messages of "popularity-worker"
    popularity,                   \* videos.popularity
    applied,                      \* history: runs of AdjustCounters per event
    keys,                         \* hot:video:event:<id> keys in Redis
    bucket,                       \* history: ZINCRBYs per event
    dead                          \* events with a copy in the dead-letter queue

Proj == INSTANCE LeaseTable WITH
    Pollers <- ProjPollers, rows <- prows, cand <- pcand,
    batch <- pbatch, ppc <- pppc

workerVars == <<wpc, cur, owns>>
mysqlVars == <<processed, popularity, applied>>
redisVars == <<keys, bucket>>
projVars == <<prows, pcand, pbatch, pppc>>
consumerVars == <<projVars, workerVars, mysqlVars, redisVars, dead>>
otherThanProj == <<outboxVars, workerVars, mysqlVars, redisVars, dead>>
vars == <<outboxVars, consumerVars>>

PTypeOK ==
    /\ TypeOK
    /\ Proj!LeaseTypeOK
    /\ wpc \in [Workers -> {"idle", "tx", "record", "unproject", "ack"}]
    /\ cur \in [Workers -> Ids \union {NoEvent}]
    /\ owns \in [Workers -> BOOLEAN]
    /\ processed \in SUBSET Ids
    /\ popularity \in Nat
    /\ applied \in [Ids -> Nat]
    /\ keys \in SUBSET Ids
    /\ bucket \in [Ids -> Nat]
    /\ dead \in SUBSET Ids

PInit ==
    /\ Init
    /\ Proj!LeaseInit
    /\ wpc = [w \in Workers |-> "idle"]
    /\ cur = [w \in Workers |-> NoEvent]
    /\ owns = [w \in Workers |-> FALSE]
    /\ processed = {} /\ popularity = 0
    /\ applied = [i \in Ids |-> 0]
    /\ keys = {} /\ bucket = [i \in Ids |-> 0]
    /\ dead = {}
-----------------------------------------------------------------------------
Goto(w, label) == wpc' = [wpc EXCEPT ![w] = label]

\* The worker is done with its message.
Release(w) ==
    /\ wpc' = [wpc EXCEPT ![w] = "idle"]
    /\ cur' = [cur EXCEPT ![w] = NoEvent]
    /\ owns' = [owns EXCEPT ![w] = FALSE]

Receive(w, i) ==
    /\ wpc[w] = "idle" /\ ready[i] > 0
    /\ ready' = [ready EXCEPT ![i] = @ - 1]
    /\ cur' = [cur EXCEPT ![w] = i]
    /\ owns' = [owns EXCEPT ![w] = TRUE]
    /\ Goto(w, "tx")
    /\ UNCHANGED <<leaseVars, projVars, mysqlVars, redisVars, dead>>

\* AdjustCounters: CASE WHEN popularity + d < 0 THEN 0 ELSE popularity + d.
Clamped(d) == IF popularity + d < 0 THEN 0 ELSE popularity + d

\* The projection row left to be written after the transaction.
CommitEventOnly(i) ==
    /\ processed' = processed \union {i}
    /\ popularity' = Clamped(Delta[i])
    /\ applied' = [applied EXCEPT ![i] = @ + 1]
    /\ UNCHANGED projVars

\* What the transaction commits for an event it has not seen.
CommitEvent(i) ==
    /\ processed' = processed \union {i}
    /\ popularity' = Clamped(Delta[i])
    /\ applied' = [applied EXCEPT ![i] = @ + 1]
    /\ Proj!Enqueue(i)

\* The handler without MarkProcessed.
HandleTxTwice(w) ==
    /\ wpc[w] = "tx"
    /\ Goto(w, "record")
    /\ processed' = processed \union {cur[w]}
    /\ popularity' = Clamped(Delta[cur[w]])
    /\ applied' = [applied EXCEPT ![cur[w]] = @ + 1]
    /\ prows' = [prows EXCEPT ![cur[w]] = IF @ = Absent THEN Fresh ELSE @]
    /\ UNCHANGED <<outboxVars, pcand, pbatch, pppc, cur, owns, redisVars, dead>>

\* The handler's transaction; the unique key of processed_messages turns a
\* second delivery into a no-op that is acked.
HandleTx(w) ==
    /\ wpc[w] = "tx"
    /\ IF cur[w] \in processed
         THEN Goto(w, "ack") /\ UNCHANGED <<mysqlVars, projVars>>
         ELSE Goto(w, "record") /\ CommitEvent(cur[w])
    /\ UNCHANGED <<outboxVars, cur, owns, redisVars, dead>>

\* The handler returns an error and the message is nacked without requeue.
\* The transaction has rolled back, or has committed although its COMMIT
\* was answered with an error.
HandleFails(w) ==
    /\ wpc[w] = "tx"
    /\ \/ UNCHANGED <<mysqlVars, projVars>>
       \/ cur[w] \notin processed /\ CommitEvent(cur[w])
    /\ dead' = IF owns[w] THEN dead \union {cur[w]} ELSE dead
    /\ Release(w)
    /\ UNCHANGED <<outboxVars, redisVars>>

\* The bucket updated without claiming the key of the event.
RecordEventAgain(i) ==
    /\ keys' = keys \union {i}
    /\ bucket' = [bucket EXCEPT ![i] = @ + 1]

\* RecordEvent: the Lua script claims the key of the event before it adds
\* the delta to the bucket, all in one step.
RecordEvent(i) ==
    /\ keys' = keys \union {i}
    /\ bucket' = IF i \in keys THEN bucket ELSE [bucket EXCEPT ![i] = @ + 1]

Record(w) ==
    /\ wpc[w] = "record"
    /\ RecordEvent(cur[w])
    /\ Goto(w, "unproject")
    /\ UNCHANGED <<outboxVars, projVars, cur, owns, mysqlVars, dead>>

\* Redis is absent, fails, or answers too late: the projection row stays.
RecordFails(w) ==
    /\ wpc[w] = "record"
    /\ RecordEvent(cur[w]) \/ UNCHANGED redisVars
    /\ Goto(w, "ack")
    /\ UNCHANGED <<outboxVars, projVars, cur, owns, mysqlVars, dead>>

\* projectionRepo.Delete by id, or its failure, which is only logged.
Unproject(w) ==
    /\ wpc[w] = "unproject"
    /\ \/ prows' = [prows EXCEPT ![cur[w]] = Gone]
       \/ UNCHANGED prows
    /\ Goto(w, "ack")
    /\ UNCHANGED <<outboxVars, pcand, pbatch, pppc, cur, owns, mysqlVars, redisVars, dead>>

Ack(w) ==
    /\ wpc[w] = "ack"
    /\ Release(w)
    /\ UNCHANGED <<outboxVars, projVars, mysqlVars, redisVars, dead>>

\* The message goes back to the queue if the broker still waits for the ack.
Redeliver(w) == IF owns[w] THEN Accept(cur[w]) ELSE UNCHANGED ready

\* The channel is lost; the handler that is running does not notice.
ConnectionDrops(w) ==
    /\ owns[w]
    /\ Redeliver(w)
    /\ owns' = [owns EXCEPT ![w] = FALSE]
    /\ UNCHANGED <<leaseVars, projVars, wpc, cur, mysqlVars, redisVars, dead>>

\* An automatic ack: the broker forgets a message when it sends it.
CrashForgets(w) ==
    /\ wpc[w] # "idle"
    /\ UNCHANGED ready
    /\ Release(w)
    /\ UNCHANGED <<leaseVars, projVars, mysqlVars, redisVars, dead>>

\* The worker process dies between two steps and is started again.
WorkerCrash(w) ==
    /\ wpc[w] # "idle"
    /\ Redeliver(w)
    /\ Release(w)
    /\ UNCHANGED <<leaseVars, projVars, mysqlVars, redisVars, dead>>

WorkerStep(w) ==
    \/ \E i \in Ids : Receive(w, i)
    \/ HandleTx(w) \/ HandleFails(w) \/ Record(w) \/ RecordFails(w)
    \/ Unproject(w) \/ Ack(w) \/ ConnectionDrops(w) \/ WorkerCrash(w)
-----------------------------------------------------------------------------
\* The projection poller applies a row; as with Publish an error may hide
\* an effect.
ProjectOk(q, i) ==
    /\ Proj!WorkOk(q) /\ Proj!Current(q, i)
    /\ RecordEvent(i)
    /\ UNCHANGED <<outboxVars, workerVars, mysqlVars, dead>>

ProjectErr(q, i) ==
    /\ Proj!WorkErr(q) /\ Proj!Current(q, i)
    /\ RecordEvent(i) \/ UNCHANGED redisVars
    /\ UNCHANGED <<outboxVars, workerVars, mysqlVars, dead>>

ProjTable == Proj!LeaseStep \/ \E q \in ProjPollers, i \in Ids : Proj!DeleteRow(q, i)

ProjStep ==
    \/ \E q \in ProjPollers, i \in Ids : ProjectOk(q, i) \/ ProjectErr(q, i)
    \/ ProjTable /\ UNCHANGED otherThanProj

PNext ==
    \/ Next /\ UNCHANGED consumerVars
    \/ \E w \in Workers : WorkerStep(w)
    \/ ProjStep

PSafety == PInit /\ [][PNext]_vars

(***************************************************************************)
(* The fairness of the outbox, and of the consumers: a worker process is   *)
(* restarted and takes the next message, MySQL and Redis answer again and  *)
(* again.                                                                  *)
(***************************************************************************)
PFairness ==
    /\ \A p \in Pollers :
         /\ WF_vars(Select(p) /\ UNCHANGED <<ready, consumerVars>>)
         /\ SF_vars(Claim(p) /\ UNCHANGED <<ready, consumerVars>>)
         /\ SF_vars(\E i \in Ids : PublishOk(p, i) /\ UNCHANGED consumerVars)
         /\ SF_vars(\E i \in Ids : Settle(p, i) /\ UNCHANGED consumerVars)
         /\ WF_vars(\E i \in Ids : MarkPending(p, i) /\ UNCHANGED <<ready, consumerVars>>)
    /\ \A i \in Ids :
         /\ WF_vars(BackoffElapses(i) /\ UNCHANGED <<ready, consumerVars>>)
         /\ WF_vars(LockTimesOut(i) /\ UNCHANGED <<ready, consumerVars>>)
         /\ WF_vars(Proj!BackoffElapses(i) /\ UNCHANGED otherThanProj)
         /\ WF_vars(Proj!LockTimesOut(i) /\ UNCHANGED otherThanProj)
    /\ \A w \in Workers :
         /\ \A i \in Ids : SF_vars(Receive(w, i))
         /\ SF_vars(HandleTx(w))
         /\ WF_vars(RecordFails(w) \/ Unproject(w) \/ Ack(w))
    /\ \A q \in ProjPollers :
         /\ WF_vars(Proj!Select(q) /\ UNCHANGED otherThanProj)
         /\ SF_vars(Proj!Claim(q) /\ UNCHANGED otherThanProj)
         /\ SF_vars(\E i \in Ids : ProjectOk(q, i))
         /\ SF_vars(\E i \in Ids : Proj!DeleteRow(q, i) /\ UNCHANGED otherThanProj)
         /\ WF_vars(\E i \in Ids : Proj!MarkPending(q, i) /\ UNCHANGED otherThanProj)

PSpec == PSafety /\ PFairness
-----------------------------------------------------------------------------
\* Some worker holds the message and the broker will deliver it again if
\* the worker does not ack it.
InFlight(i) == \E w \in Workers : cur[w] = i /\ owns[w]

\* A committed event is always somewhere: in the outbox, in the queue, in a
\* worker's hands, applied, or in the dead-letter queue.  Deleting the
\* outbox row, acking, nacking or crashing in any order never drops it
\* (mq/consumer.go acks only after the handler has committed).
EventNotLost ==
    \A i \in Committed :
        \/ rows[i].status # "deleted"
        \/ ready[i] > 0
        \/ InFlight(i)
        \/ i \in processed \union dead

\* However often the event is published and delivered, to however many
\* workers, AdjustCounters runs once for it, with its processed_messages row.
AppliedOnce ==
    \A i \in Ids : applied[i] = IF i \in processed THEN 1 ELSE 0

\* The Redis bucket counts an event once, although the worker and the
\* projection poller both try and each may retry, and only an event that
\* MySQL has counted.
BucketOnce ==
    \A i \in Ids : /\ bucket[i] = IF i \in keys THEN 1 ELSE 0
                   /\ i \in keys => i \in processed

\* An event MySQL has counted reaches Redis or still has a projection row.
ProjectionNotLost ==
    \A i \in processed : prows[i].status \in {"pending", "claimed"} \/ i \in keys

\* Both effects implement the exactly-once specification.
MySQLEffect == INSTANCE ExactlyOnce WITH
    Events <- Ids, committed <- Committed, count <- applied
RedisEffect == INSTANCE ExactlyOnce WITH
    Events <- Ids, committed <- Committed, count <- bucket

MySQLExactlyOnce == MySQLEffect!Spec
RedisExactlyOnce == RedisEffect!Spec

\* Every committed event is counted in MySQL or dead-lettered, and what
\* MySQL has counted reaches the hot ranking.
EventuallyCounted == \A i \in Ids : i \in Committed ~> i \in processed \union dead
EventuallyRanked == \A i \in Ids : i \in processed ~> i \in keys
=============================================================================
