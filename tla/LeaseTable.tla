----------------------------- MODULE LeaseTable -----------------------------
(***************************************************************************)
(* A MySQL table that several pollers drain under leases.  The same code   *)
(* exists twice in the repository: outbox_messages (outbox/repo.go and     *)
(* outbox/poller.go) and popularity_projections (popularity/               *)
(* projection_repo.go and projection_poller.go).  The actions here are     *)
(* everything those files do to a row; what a poller does WITH a claimed   *)
(* row (publish it, apply it to Redis) belongs to the module that composes *)
(* the table, which conjoins it with WorkOk and WorkErr.                   *)
(*                                                                         *)
(* Time is abstracted to two flags of a row: `due' says that next_attempt_ *)
(* at has passed, `stale' that locked_at is older than the lock timeout.   *)
(***************************************************************************)
EXTENDS Naturals, FiniteSets

CONSTANTS
    Ids,          \* auto-increment primary keys of the rows
    Pollers,      \* poller goroutines, one per API (or worker) process
    BatchSize,    \* rows a poller claims at once (defaultBatchSize = 20)
    SlowPollers   \* TRUE: a batch may outlive the lock timeout (20 rows of
                  \* up to 3 s each against a lock of 30 s)

ASSUME IdsAssumption == Ids \subseteq Nat
ASSUME BatchAssumption == BatchSize \in Nat \ {0}
ASSUME SlowAssumption == SlowPollers \in BOOLEAN

VARIABLES
    rows,    \* the table: [status, due, stale] of every row
    cand,    \* candidate ids a poller has read and not yet claimed
    batch,   \* rows of its claim a poller has still to work on
    ppc      \* where a poller is inside runOnce

leaseVars == <<rows, cand, batch, ppc>>

\* "none": not inserted yet; "claimed": publishing or applying
RowStatus == {"none", "pending", "claimed", "deleted"}
Row == [status : RowStatus, due : BOOLEAN, stale : BOOLEAN]

Absent  == [status |-> "none",    due |-> FALSE, stale |-> FALSE]
Fresh   == [status |-> "pending", due |-> TRUE,  stale |-> FALSE]
Backoff == [status |-> "pending", due |-> FALSE, stale |-> FALSE]
Locked  == [status |-> "claimed", due |-> FALSE, stale |-> FALSE]
Expired == [status |-> "claimed", due |-> FALSE, stale |-> TRUE]
Gone    == [status |-> "deleted", due |-> FALSE, stale |-> FALSE]

LeaseTypeOK ==
    /\ rows \in [Ids -> Row]
    /\ cand \in [Pollers -> SUBSET Ids]
    /\ batch \in [Pollers -> SUBSET Ids]
    /\ ppc \in [Pollers -> {"idle", "claim", "work", "delete", "requeue"}]

LeaseInit ==
    /\ rows = [i \in Ids |-> Absent]
    /\ cand = [p \in Pollers |-> {}]
    /\ batch = [p \in Pollers |-> {}]
    /\ ppc = [p \in Pollers |-> "idle"]
-----------------------------------------------------------------------------
\* A claim that never takes over a row whose holder has died.
ClaimablePendingOnly(i) == rows[i].status = "pending" /\ rows[i].due

\* The WHERE clause of ClaimBatch: due pending rows, or rows whose lock has
\* timed out.
Claimable(i) ==
    \/ rows[i].status = "pending" /\ rows[i].due
    \/ rows[i].status = "claimed" /\ rows[i].stale

\* ORDER BY id ASC LIMIT BatchSize over the claimable rows.
Candidates ==
    {i \in Ids : /\ Claimable(i)
                 /\ Cardinality({j \in Ids : j < i /\ Claimable(j)}) < BatchSize}

\* A poller works through its batch in the order of the ids.
Current(p, i) == i \in batch[p] /\ \A j \in batch[p] : i <= j

\* The poller has dealt with row i of its batch.
Finish(p, i) ==
    /\ batch' = [batch EXCEPT ![p] = @ \ {i}]
    /\ ppc' = [ppc EXCEPT ![p] = IF batch[p] = {i} THEN "idle" ELSE "work"]
    /\ UNCHANGED cand

Enqueue(i) ==
    /\ rows[i].status = "none"
    /\ rows' = [rows EXCEPT ![i] = Fresh]
    /\ UNCHANGED <<cand, batch, ppc>>

\* First statement of ClaimBatch: a plain read, no row lock is taken.
Select(p) ==
    /\ ppc[p] = "idle"
    /\ Candidates # {}
    /\ cand' = [cand EXCEPT ![p] = Candidates]
    /\ ppc' = [ppc EXCEPT ![p] = "claim"]
    /\ UNCHANGED <<rows, batch>>

\* Second statement: a conditional UPDATE of the candidates that are still
\* claimable; the rows are read back by the fresh lease token.
Claim(p) ==
    /\ ppc[p] = "claim"
    /\ LET won == {i \in cand[p] : Claimable(i)} IN
         /\ rows' = [i \in Ids |-> IF i \in won THEN Locked ELSE rows[i]]
         /\ batch' = [batch EXCEPT ![p] = won]
         /\ ppc' = [ppc EXCEPT ![p] = IF won = {} THEN "idle" ELSE "work"]
    /\ cand' = [cand EXCEPT ![p] = {}]

\* ClaimBatch returns an error: the transaction has rolled back.
ClaimFails(p) ==
    /\ ppc[p] = "claim"
    /\ cand' = [cand EXCEPT ![p] = {}]
    /\ ppc' = [ppc EXCEPT ![p] = "idle"]
    /\ UNCHANGED <<rows, batch>>

\* The call for the current row (Publish, RecordEvent) returned nil, an error.
WorkOk(p) ==
    /\ ppc[p] = "work"
    /\ ppc' = [ppc EXCEPT ![p] = "delete"]
    /\ UNCHANGED <<rows, cand, batch>>

WorkErr(p) ==
    /\ ppc[p] = "work"
    /\ ppc' = [ppc EXCEPT ![p] = "requeue"]
    /\ UNCHANGED <<rows, cand, batch>>

\* DELETE by primary key: whoever holds the lease now.
DeleteRow(p, i) ==
    /\ ppc[p] = "delete" /\ Current(p, i)
    /\ rows' = [rows EXCEPT ![i] = Gone]
    /\ Finish(p, i)

\* A failed row that is dropped instead of requeued.
MarkPendingDrops(p, i) ==
    /\ ppc[p] = "requeue" /\ Current(p, i)
    /\ rows' = [rows EXCEPT ![i] = Gone]
    /\ Finish(p, i)

\* MarkPending: UPDATE by primary key, a deleted row is not updated and the
\* lease of another poller is not looked at.
MarkPending(p, i) ==
    /\ ppc[p] = "requeue" /\ Current(p, i)
    /\ rows' = [rows EXCEPT ![i] = IF @ = Gone THEN Gone ELSE Backoff]
    /\ Finish(p, i)

\* Either statement fails: the error is logged and the poller goes on.
SettleFails(p, i) ==
    /\ ppc[p] \in {"delete", "requeue"} /\ Current(p, i)
    /\ Finish(p, i)
    /\ UNCHANGED rows

\* next_attempt_at passes.
BackoffElapses(i) ==
    /\ rows[i] = Backoff
    /\ rows' = [rows EXCEPT ![i] = Fresh]
    /\ UNCHANGED <<cand, batch, ppc>>

\* locked_at falls behind now - lockTimeout.  Unless pollers are slow, the
\* poller that locked the row has finished its batch, or died, by then.
LockTimesOut(i) ==
    /\ rows[i] = Locked
    /\ SlowPollers \/ \A p \in Pollers : i \notin batch[p]
    /\ rows' = [rows EXCEPT ![i] = Expired]
    /\ UNCHANGED <<cand, batch, ppc>>

\* The process of the poller dies and is restarted.
PollerCrash(p) ==
    /\ ppc[p] # "idle"
    /\ cand' = [cand EXCEPT ![p] = {}]
    /\ batch' = [batch EXCEPT ![p] = {}]
    /\ ppc' = [ppc EXCEPT ![p] = "idle"]
    /\ UNCHANGED rows

\* What a poller, or time, does to the table without looking at what the
\* work is.
LeaseStep ==
    \/ \E p \in Pollers : Select(p) \/ Claim(p) \/ ClaimFails(p) \/ PollerCrash(p)
    \/ \E p \in Pollers, i \in Ids : MarkPending(p, i) \/ SettleFails(p, i)
    \/ \E i \in Ids : BackoffElapses(i) \/ LockTimesOut(i)
-----------------------------------------------------------------------------
\* Two pollers never work on the same row at the same time ("avoid another
\* instance getting the row while this one is still sending",
\* outbox/poller.go:73).
OneHolder ==
    \A i \in Ids : \A p, q \in Pollers :
        i \in batch[p] /\ i \in batch[q] => p = q

\* A row somebody is working on keeps a lock that has not timed out: no
\* poller can select it while the first one is busy.
HeldIsLocked ==
    \A p \in Pollers : \A i \in batch[p] : rows[i] = Locked
=============================================================================
