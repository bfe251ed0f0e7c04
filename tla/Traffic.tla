------------------------------ MODULE Traffic -------------------------------
(***************************************************************************)
(* Admission of requests: the in-flight gauge of an API process, and for   *)
(* one client the fixed windows and the penalty box in Redis               *)
(* (middleware/traffic/traffic.go:Guard, middleware/traffic/box.go,        *)
(* middleware/ratelimit/ratelimit.go:FixedWindow.Allow).                   *)
(*                                                                         *)
(* A counter is INCR and, by whoever made it 1, EXPIRE; if that fails, DEL. *)
(* Every call may time out, whether or not Redis has done it.  The rules   *)
(* of single routes use the same counters behind the guard.                *)
(***************************************************************************)
EXTENDS Integers, Sequences

CONSTANTS
    TrafficRequests,  \* requests of one client at the same time
    Dimensions,       \* <<"ip", "account">>, or a part of it
    Ceiling,          \* IPLimit, AccountLimit
    PenaltyCeiling,   \* PenaltyIPLimit, PenaltyAccountLimit
    DenyThreshold,
    MaxInFlight

ASSUME TrafficAssumption ==
    {Ceiling, PenaltyCeiling, DenyThreshold, MaxInFlight} \subseteq Nat \ {0}
ASSUME DimensionsAssumption == Dimensions \in Seq(STRING) /\ Dimensions # <<>>

VARIABLES
    counter,          \* the counters in Redis
    penalty,          \* dimensions in which the client is in the box
    inflight,         \* the gauge of the process
    guarded,          \* what every request does
    orphaned          \* history: counters left without a time to live by a
                      \* call that failed or a process that died

trafficVars == <<counter, penalty, inflight, guarded, orphaned>>

Counters == {"hits", "denies"} \X DOMAIN Dimensions
\* Counts above these make no difference and are not told apart.
Most(k) == IF k[1] = "hits" THEN Ceiling + 1 ELSE DenyThreshold
NoCounter == [n |-> 0, ttl |-> FALSE]
Outside == [pc |-> "out", at |-> 1, ceiling |-> Ceiling]

TrafficTypeOK ==
    /\ counter \in [Counters -> [n : Nat, ttl : BOOLEAN]]
    /\ \A k \in Counters : counter[k].n <= Most(k)
    /\ penalty \in SUBSET DOMAIN Dimensions
    /\ inflight \in Int
    /\ guarded \in [TrafficRequests ->
         [pc : {"out", "shed", "box", "hit", "expire", "undo", "deny", "denyexpire", "denyundo",
                "punish", "refused", "in"},
          at : DOMAIN Dimensions, ceiling : {Ceiling, PenaltyCeiling}]]
    /\ orphaned \in SUBSET Counters

TrafficInit ==
    /\ counter = [k \in Counters |-> NoCounter] /\ penalty = {} /\ inflight = 0
    /\ guarded = [r \in TrafficRequests |-> Outside] /\ orphaned = {}
-----------------------------------------------------------------------------
GuardAt(r, pc) == guarded[r].pc = pc
GuardGoes(r, pc) == guarded' = [guarded EXCEPT ![r].pc = pc]

\* Middleware: the gauge first; it is given back on every way out.
EnterGuard(r) ==
    /\ GuardAt(r, "out") /\ inflight' = inflight + 1
    /\ guarded' = [guarded EXCEPT ![r] =
         [Outside EXCEPT !.pc = IF inflight + 1 > MaxInFlight THEN "shed" ELSE "box"]]
    /\ UNCHANGED <<counter, penalty, orphaned>>

LeaveGuard(r) ==
    /\ guarded[r].pc \in {"shed", "refused", "in"} /\ GuardGoes(r, "out")
    /\ inflight' = inflight - 1
    /\ UNCHANGED <<counter, penalty, orphaned>>

\* allowDimension: HasPenalty, which fails open.
LookUpPenalty(r) ==
    /\ GuardAt(r, "box")
    /\ \E answered \in BOOLEAN :
         guarded' = [guarded EXCEPT ![r].pc = "hit", ![r].ceiling =
             IF answered /\ guarded[r].at \in penalty THEN PenaltyCeiling ELSE Ceiling]
    /\ UNCHANGED <<counter, penalty, inflight, orphaned>>

\* The dimension lets the request through, or cannot tell.
PassTo(r) ==
    guarded' = [guarded EXCEPT ![r] =
        IF guarded[r].at < Len(Dimensions) THEN [Outside EXCEPT !.pc = "box", !.at = guarded[r].at + 1]
        ELSE [@ EXCEPT !.pc = "in"]]

JudgeHit(r, n) ==
    IF n <= guarded[r].ceiling THEN PassTo(r) ELSE GuardGoes(r, "deny")
JudgeDeny(r, n) ==
    GuardGoes(r, IF n < DenyThreshold THEN "refused" ELSE "punish")
-----------------------------------------------------------------------------
\* INCR of counter k: done and answered, done and timed out, or not done.  The
\* client of Redis makes a call that timed out again before it gives up.
Counted(k) == counter' = [counter EXCEPT ![k].n = IF @ < Most(k) THEN @ + 1 ELSE @]

IncrTimesOut(k) ==
    \/ Counted(k) /\ orphaned' = IF counter[k].n = 0 THEN orphaned \union {k} ELSE orphaned
    \/ UNCHANGED <<counter, orphaned>>

Hit(r) ==
    LET k == <<"hits", guarded[r].at>> IN
    /\ GuardAt(r, "hit")
    /\ \/ /\ Counted(k) /\ UNCHANGED orphaned
          /\ IF counter'[k].n = 1 THEN GuardGoes(r, "expire") ELSE JudgeHit(r, counter'[k].n)
       \/ IncrTimesOut(k) /\ (PassTo(r) \/ UNCHANGED guarded)
    /\ UNCHANGED <<penalty, inflight>>

\* EXPIRE of a key that is gone does nothing and is no error.
LivesShortly(k) == counter' = [counter EXCEPT ![k].ttl = @ \/ counter[k].n > 0]

ExpireHit(r) ==
    LET k == <<"hits", guarded[r].at>> IN
    /\ GuardAt(r, "expire")
    /\ \/ LivesShortly(k) /\ (JudgeHit(r, 1) \/ GuardGoes(r, "undo"))
       \/ UNCHANGED counter /\ GuardGoes(r, "undo")
    /\ UNCHANGED <<penalty, inflight, orphaned>>

\* An error of EXPIRE after which the counter stays.
UndoNothing(k) == UNCHANGED <<counter, orphaned>>

\* Del, whose error is dropped.
Undo(k) ==
    \/ counter' = [counter EXCEPT ![k] = NoCounter] /\ orphaned' = orphaned \ {k}
    \/ UNCHANGED counter /\ orphaned' = orphaned \union {k}

UndoHit(r) ==
    /\ GuardAt(r, "undo") /\ Undo(<<"hits", guarded[r].at>>) /\ PassTo(r)
    /\ UNCHANGED <<penalty, inflight>>

\* recordDeny: Denied counts in the same way, and the request is refused
\* whatever comes of it.
Deny(r) ==
    LET k == <<"denies", guarded[r].at>> IN
    /\ GuardAt(r, "deny")
    /\ \/ /\ Counted(k) /\ UNCHANGED orphaned
          /\ IF counter'[k].n = 1 THEN GuardGoes(r, "denyexpire") ELSE JudgeDeny(r, counter'[k].n)
       \/ IncrTimesOut(k) /\ (GuardGoes(r, "refused") \/ UNCHANGED guarded)
    /\ UNCHANGED <<penalty, inflight>>

ExpireDeny(r) ==
    LET k == <<"denies", guarded[r].at>> IN
    /\ GuardAt(r, "denyexpire")
    /\ \/ LivesShortly(k) /\ (JudgeDeny(r, 1) \/ GuardGoes(r, "denyundo"))
       \/ UNCHANGED counter /\ GuardGoes(r, "denyundo")
    /\ UNCHANGED <<penalty, inflight, orphaned>>

UndoDeny(r) ==
    /\ GuardAt(r, "denyundo") /\ Undo(<<"denies", guarded[r].at>>) /\ GuardGoes(r, "refused")
    /\ UNCHANGED <<penalty, inflight>>

\* ApplyPenalty sets the key and its time to live in one command.
ApplyPenalty(r) ==
    /\ GuardAt(r, "punish") /\ GuardGoes(r, "refused")
    /\ penalty' \in {penalty, penalty \union {guarded[r].at}}
    /\ UNCHANGED <<counter, inflight, orphaned>>
-----------------------------------------------------------------------------
ExpireCounter(k) ==
    /\ counter[k].ttl /\ counter' = [counter EXCEPT ![k] = NoCounter]
    /\ orphaned' = orphaned \ {k}
    /\ UNCHANGED <<penalty, inflight, guarded>>

ExpirePenalty(d) ==
    /\ penalty' = penalty \ {d}
    /\ UNCHANGED <<counter, inflight, guarded, orphaned>>

\* The counter that a request is about to give its time to live.
Owes(r, k) ==
    /\ k[2] = guarded[r].at
    /\ guarded[r].pc \in (IF k[1] = "hits" THEN {"expire", "undo"} ELSE {"denyexpire", "denyundo"})

\* The API process dies; Redis keeps what it has.
ApiDies ==
    /\ \E r \in TrafficRequests : ~GuardAt(r, "out")
    /\ guarded' = [r \in TrafficRequests |-> Outside] /\ inflight' = 0
    /\ orphaned' = orphaned \union {k \in Counters : \E r \in TrafficRequests : Owes(r, k)}
    /\ UNCHANGED <<counter, penalty>>

TrafficNext ==
    \/ \E r \in TrafficRequests :
         \/ EnterGuard(r) \/ LeaveGuard(r) \/ LookUpPenalty(r) \/ Hit(r) \/ ExpireHit(r) \/ UndoHit(r)
         \/ Deny(r) \/ ExpireDeny(r) \/ UndoDeny(r) \/ ApplyPenalty(r)
    \/ \E k \in Counters : ExpireCounter(k)
    \/ \E d \in penalty : ExpirePenalty(d)
    \/ ApiDies

TrafficSafety == TrafficInit /\ [][TrafficNext]_trafficVars
-----------------------------------------------------------------------------
\* The comment at middleware/ratelimit/ratelimit.go:85 wants no counter that
\* never expires, since it would refuse its client for good.  Every counter
\* has a time to live or somebody who is about to give it one or to delete it,
\* unless Redis did an INCR and its answer was lost, the DEL failed as well, or
\* the process died in between.
CounterExpires ==
    \A k \in Counters \ orphaned : counter[k].n > 0 =>
        counter[k].ttl \/ \E r \in TrafficRequests : Owes(r, k)
=============================================================================
