---------------------------- MODULE SocialQueue ----------------------------
(***************************************************************************)
(* Followers of one account (social/service.go, worker/social_worker.go,   *)
(* notification/writer.go:ApplyFollow, mq/consumer.go).                    *)
(*                                                                         *)
(*   Follow, Unfollow -> social.write.q -> SocialWorker, one transaction:  *)
(*     processed_messages, social_relations, accounts.follower_count and   *)
(*     the notice (the reset of the fan's feed is FollowFeed's)            *)
(*                                                                         *)
(* A request is judged by the rows that are there, so that several events  *)
(* of one fan may be queued; the queue gives them out in any order.  A     *)
(* handler reads nothing outside its transaction: taking, applying and     *)
(* acking an event is one step.  What is nacked is kept for the operators  *)
(* (mq/dead_letter_consumer.go, mq/dead_letter_message.go).                *)
(***************************************************************************)
EXTENDS Integers, FiniteSets

CONSTANTS
    Fans,
    FanEvents,        \* event ids; one request publishes one event
    NoFanEvent

ASSUME FanEventAssumption == NoFanEvent \notin [fan : Fans, kind : {"followed", "unfollowed"}]

VARIABLES
    fanEvent,         \* the request of every event: fan and kind, once sent
    fanQueue,         \* events not yet acked
    fanSeen,          \* processed_messages of "social-worker"
    fanDead,          \* dead-letter queue
    fanStored,        \* dead_letter_messages
    relations,        \* social_relations with the account as vlogger
    followerCount,    \* accounts.follower_count
    followBell        \* notices "follow:a:<fan>": their fan, and whether read

socialVars == <<fanEvent, fanQueue, fanSeen, fanDead, fanStored, relations,
                followerCount, followBell>>
socialTables == <<fanSeen, relations, followerCount, followBell>>

SocialTypeOK ==
    /\ fanEvent \in [FanEvents -> [fan : Fans, kind : {"followed", "unfollowed"}] \union {NoFanEvent}]
    /\ fanQueue \in SUBSET FanEvents /\ fanSeen \in SUBSET FanEvents
    /\ fanDead \in SUBSET FanEvents /\ fanStored \in SUBSET FanEvents
    /\ relations \in SUBSET Fans /\ followerCount \in Nat
    /\ followBell \in [Fans -> {"none", "unread", "read"}]

SocialInit ==
    /\ fanEvent = [e \in FanEvents |-> NoFanEvent]
    /\ fanQueue = {} /\ fanSeen = {} /\ fanDead = {} /\ fanStored = {}
    /\ relations = {} /\ followerCount = 0
    /\ followBell = [f \in Fans |-> "none"]
-----------------------------------------------------------------------------
Unused == {e \in FanEvents : fanEvent[e] = NoFanEvent}
FreshEvent == CHOOSE e \in Unused : TRUE

Request(f, kind) ==
    /\ Unused # {}
    /\ fanEvent' = [fanEvent EXCEPT ![FreshEvent] = [fan |-> f, kind |-> kind]]
    /\ fanQueue' = fanQueue \union {FreshEvent}
    /\ UNCHANGED <<fanDead, fanStored, socialTables>>

\* Follow: ErrAlreadyFollowed when the relation is there.
Follow(f) == f \notin relations /\ Request(f, "followed")

\* Unfollow: ErrFollowNotFound when it is not.
Unfollow(f) == f \in relations /\ Request(f, "unfollowed")
-----------------------------------------------------------------------------
\* A duplicate that is counted like a new relation.
ApplyFollowedCounted(f) ==
    /\ relations' = relations \union {f}
    /\ followerCount' = followerCount + 1
    /\ followBell' = [followBell EXCEPT ![f] = "unread"]

\* handleFollowed: a relation that is there counts nothing and rings nobody;
\* ApplyFollow makes the notice of a fan, or shows it again, unread.
ApplyFollowed(f) ==
    IF f \in relations
    THEN UNCHANGED <<relations, followerCount, followBell>>
    ELSE /\ relations' = relations \union {f}
         /\ followerCount' = followerCount + 1
         /\ followBell' = [followBell EXCEPT ![f] = "unread"]

\* handleUnfollowed: counted only when a row was deleted, never below zero.
ApplyUnfollowed(f) ==
    IF f \notin relations
    THEN UNCHANGED <<relations, followerCount, followBell>>
    ELSE /\ relations' = relations \ {f}
         /\ followerCount' = IF followerCount > 0 THEN followerCount - 1 ELSE 0
         /\ UNCHANGED followBell

\* The transaction of one delivery; the reset of the fan's feed that follows
\* is an action of FollowFeed.  The ack arrives or is lost; a worker that
\* lost its channel may commit what was dead-lettered meanwhile.
HandleFanEvent(e) ==
    /\ e \in fanQueue \union fanDead
    /\ fanSeen' = fanSeen \union {e}
    /\ IF e \in fanSeen
         THEN UNCHANGED <<relations, followerCount, followBell>>
         ELSE IF fanEvent[e].kind = "followed" THEN ApplyFollowed(fanEvent[e].fan)
                                               ELSE ApplyUnfollowed(fanEvent[e].fan)
    /\ fanQueue' \in {fanQueue, fanQueue \ {e}}
    /\ UNCHANGED <<fanEvent, fanDead, fanStored>>

\* The transaction fails: Nack without requeue.
NackFanEvent(e) ==
    /\ e \in fanQueue
    /\ fanQueue' = fanQueue \ {e} /\ fanDead' = fanDead \union {e}
    /\ UNCHANGED <<fanEvent, fanStored, socialTables>>

\* DeadLetterConsumer.store: one row for a body, however often it comes; a
\* store that fails requeues the message.
StoreDeadLetter(e) ==
    /\ e \in fanDead
    /\ fanStored' = fanStored \union {e}
    /\ UNCHANGED <<fanEvent, fanQueue, fanDead, socialTables>>

AckDeadLetter(e) ==
    /\ e \in fanDead \intersect fanStored
    /\ fanDead' = fanDead \ {e}
    /\ UNCHANGED <<fanEvent, fanQueue, fanStored, socialTables>>

ReadBell(f) ==
    /\ followBell[f] = "unread"
    /\ followBell' = [followBell EXCEPT ![f] = "read"]
    /\ UNCHANGED <<fanEvent, fanQueue, fanDead, fanStored, fanSeen, relations, followerCount>>

SocialNext ==
    \/ \E e \in FanEvents : HandleFanEvent(e) \/ NackFanEvent(e)
                            \/ StoreDeadLetter(e) \/ AckDeadLetter(e)
    \/ \E f \in Fans : Follow(f) \/ Unfollow(f) \/ ReadBell(f)

SocialSafety == SocialInit /\ [][SocialNext]_socialVars
-----------------------------------------------------------------------------
\* The counter is the number of relations, and whoever follows has been
\* announced, whatever is delivered twice, in another order, or cut short
\* (.spec/backend/social/spec.md:19; worker/social_worker.go:61-90, :108-133).
FollowersCounted ==
    /\ followerCount = Cardinality(relations)
    /\ \A f \in relations : followBell[f] # "none"

=============================================================================
