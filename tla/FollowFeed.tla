----------------------------- MODULE FollowFeed -----------------------------
(***************************************************************************)
(* The following feed of one user (feed/service.go, feed/fanout_store.go,  *)
(* worker/fanout_worker.go, worker/social_worker.go): what keeps the       *)
(* user's inbox in Redis complete.                                         *)
(*                                                                         *)
(*   a video goes public -> fanout worker -> author's outbox, inbox        *)
(*   a follow or unfollow -> social worker -> cached list and mark deleted *)
(*   a read: list of authors -> mark -> rebuild from MySQL -> candidates   *)
(*           -> filter -> stale ids removed from the inbox                 *)
(*                                                                         *)
(* Every arrow is a step of its own.  MySQL is right by definition; the    *)
(* question is whether what Redis holds can be trusted when the mark says  *)
(* so.  Inbox and outboxes are large enough here for all videos.           *)
(***************************************************************************)
EXTENDS Naturals, FiniteSets

CONSTANTS
    Authors,
    Videos,       \* numbered in the order of their creation
    Author,       \* the author of every video
    FanoutWorkers,
    Readers,      \* requests of the user served at the same time
    MaxPull,      \* MaxPullAuthors
    Movers,       \* bound: authors who are followed and unfollowed, and whose
                  \* follower count moves ...
    Tiers,        \* ... to these, of Modes
    None,         \* no cached list, no message
    Faults        \* bound: the steps that may fail, of AllFaults

AllFaults == {"fanout", "reset", "read"}
Modes == {"all", "active", "pull"}

ASSUME VideosAssumption == Videos \subseteq Nat
ASSUME AuthorAssumption == Author \in [Videos -> Authors]
ASSUME MoversAssumption == Movers \subseteq Authors
ASSUME TiersAssumption == Tiers \subseteq Modes
ASSUME NoneAssumption ==
    None \notin [msg : [video : Videos, mode : {"publish", "all", "active"}], push : BOOLEAN]
                \union [on : SUBSET Authors, pull : SUBSET Authors]

VARIABLES
    status,       \* of every video, as the public queries see it
    follows,      \* social_relations of the user
    tier,         \* what follower_count makes of every author
    msgs,         \* timeline.fanout.q, outbox rows on their way included
    fan,          \* the batch every fanout worker is pushing
    social,       \* what the social worker still has to reset
    inbox,        \* feed:inbox:<user>
    active,       \* feed:inbox:active:<user>
    outbox,       \* feed:outbox:<author>, all authors in one set
    cache,        \* feed:following:<user>
    reader,       \* the requests: what each does and what it has read
    excused       \* history: videos a known fault has dropped, see NothingLost

feedVars == <<status, follows, tier, msgs, fan, social, inbox, active, outbox,
              cache, reader, excused>>
feedTables == <<status, follows, tier>>
fanoutVars == <<msgs, fan, social>>
feedKeys == <<inbox, active, outbox, cache>>

Lists == [on : SUBSET Authors, pull : SUBSET Authors]
Publish(v) == [video |-> v, mode |-> "publish"]
Batch(v, mode) == [video |-> v, mode |-> mode]
Messages == [video : Videos, mode : {"publish", "all", "active"}]
Idle == [pc |-> "idle", list |-> None, ids |-> {}]

FeedTypeOK ==
    /\ status \in [Videos -> {"none", "public", "hidden"}]
    /\ follows \in SUBSET Authors
    /\ tier \in [Authors -> Modes]
    /\ msgs \in SUBSET Messages
    /\ fan \in [FanoutWorkers -> [msg : Messages, push : BOOLEAN] \union {None}]
    /\ social \in {"idle", "list", "mark"}
    /\ inbox \in SUBSET Videos
    /\ active \in BOOLEAN
    /\ outbox \in SUBSET Videos
    /\ cache \in Lists \union {None}
    /\ reader \in [Readers ->
         [pc : {"idle", "set", "check", "rebuild", "query", "fill", "list", "filter",
                "remove"},
          list : Lists \union {None}, ids : SUBSET Videos]]
    /\ excused \in SUBSET Videos

FeedInit ==
    /\ status = [v \in Videos |-> "none"]
    /\ follows = Authors \ Movers
    /\ tier = [a \in Authors |-> "all"]
    /\ msgs = {} /\ fan = [w \in FanoutWorkers |-> None]
    /\ social = "idle"
    /\ inbox = {} /\ active = FALSE /\ outbox = {} /\ cache = None
    /\ reader = [r \in Readers |-> Idle]
    /\ excused = {}
-----------------------------------------------------------------------------
\* What ListByFollowing returns.
Followed == {v \in Videos : status[v] = "public" /\ Author[v] \in follows}

\* What a read that trusts the mark cannot find: neither in the inbox nor in
\* the outbox of an author it pulls.
Missing == {v \in Followed \ inbox : tier[Author[v]] # "pull" \/ v \notin outbox}

\* Videos with a message under way.
Coming == {m.video : m \in msgs}
-----------------------------------------------------------------------------
(* Authors.  A video goes public when it is published or approved, and      *)
(* again when it is relisted, each time with a timeline event.              *)

GoPublic(v) ==
    /\ status[v] # "public"
    /\ status' = [status EXCEPT ![v] = "public"]
    /\ msgs' = msgs \union {Publish(v)}
    /\ UNCHANGED <<follows, tier, fan, social, feedKeys, reader, excused>>

\* Unpublish, Delete or a rejection: nothing is sent.
Withdraw(v) ==
    /\ status[v] = "public"
    /\ status' = [status EXCEPT ![v] = "hidden"]
    /\ UNCHANGED <<follows, tier, fanoutVars, feedKeys, reader, excused>>

\* Other users follow and unfollow a: its follower_count crosses a threshold.
\* What was published while the author was pulled stays out of inboxes.
CrossThreshold(a, mode) ==
    /\ tier[a] # mode
    /\ tier' = [tier EXCEPT ![a] = mode]
    /\ excused' = IF tier[a] = "pull"
                    THEN excused \union {v \in Videos \ inbox : Author[v] = a}
                    ELSE excused
    /\ UNCHANGED <<status, follows, fanoutVars, feedKeys, reader>>
-----------------------------------------------------------------------------
(* The fanout worker.  A message leaves the queue when it is acked; one that *)
(* is delivered again is handled again.                                      *)

AckBatch(m) == msgs' = msgs \ {m} \/ UNCHANGED msgs

\* handlePublished: the outbox of every author, then what is published for
\* the followers, then the ack.  The worker may die before each of the two.
Published(v, batches) ==
    /\ outbox' = outbox \union {v}
    /\ msgs' \in {msgs, msgs \union batches, (msgs \ {Publish(v)}) \union batches}
    /\ UNCHANGED <<feedTables, fan, social, inbox, active, cache, reader, excused>>

\* A batch for every author, whatever the number of followers.
HandlePublishedAlways(w, v) ==
    /\ Publish(v) \in msgs /\ fan[w] = None
    /\ Published(v, {Batch(v, tier[Author[v]])})

\* No batch when there are too many followers.
HandlePublished(w, v) ==
    /\ Publish(v) \in msgs /\ fan[w] = None
    /\ Published(v, IF tier[Author[v]] = "pull" THEN {} ELSE {Batch(v, tier[Author[v]])})

\* handleBatch reads the followers, for the batch the user is in, ...
HandleBatch(w, m) ==
    /\ m \in msgs /\ m.mode # "publish" /\ fan[w] = None
    /\ IF Author[m.video] \in follows
         THEN fan' = [fan EXCEPT ![w] = [msg |-> m, push |-> m.mode = "all"]] /\ UNCHANGED msgs
         ELSE AckBatch(m) /\ UNCHANGED fan
    /\ UNCHANGED <<feedTables, social, feedKeys, reader, excused>>

\* ... asks which of them are active if that is the author's mode ...
FilterActive(w) ==
    /\ fan[w] # None /\ ~fan[w].push
    /\ IF active
         THEN fan' = [fan EXCEPT ![w].push = TRUE] /\ UNCHANGED msgs
         ELSE fan' = [fan EXCEPT ![w] = None] /\ AckBatch(fan[w].msg)
    /\ UNCHANGED <<feedTables, social, feedKeys, reader, excused>>

\* ... and pushes to those.
Push(w) ==
    /\ fan[w] # None /\ fan[w].push
    /\ inbox' = inbox \union {fan[w].msg.video}
    /\ excused' = excused \ {fan[w].msg.video}
    /\ AckBatch(fan[w].msg)
    /\ fan' = [fan EXCEPT ![w] = None]
    /\ UNCHANGED <<feedTables, social, active, outbox, cache, reader>>

\* The worker dies while it pushes: the message is delivered again.
FanoutCrash(w) ==
    /\ fan[w] # None
    /\ fan' = [fan EXCEPT ![w] = None]
    /\ UNCHANGED <<feedTables, msgs, social, feedKeys, reader, excused>>

\* Any step answers with an error, or takes too long: the message is
\* dead-lettered, whatever has been done by then.
FanoutFails(w, m) ==
    /\ "fanout" \in Faults
    /\ m \in msgs /\ (fan[w] # None => fan[w].msg = m)
    /\ outbox' \in {outbox} \union (IF m.mode = "publish" THEN {outbox \union {m.video}} ELSE {})
    /\ msgs' = msgs \ {m}
    /\ fan' = [fan EXCEPT ![w] = None]
    /\ excused' = excused \union {m.video}
    /\ UNCHANGED <<feedTables, social, inbox, active, cache, reader>>
-----------------------------------------------------------------------------
(* The social worker: the transaction, then resetFollowingFeed.  A delivery  *)
(* that changes nothing resets all the same.                                 *)

SocialTx(a) ==
    /\ social = "idle"
    /\ follows' \in {follows \union {a}, follows \ {a}}
    /\ social' = "list"
    /\ UNCHANGED <<status, tier, msgs, fan, feedKeys, reader, excused>>

\* Redis errors are logged and the next step is taken.
DeleteList ==
    /\ social = "list"
    /\ social' = "mark"
    /\ \/ cache' = None
       \/ "reset" \in Faults /\ cache' = cache
    /\ UNCHANGED <<feedTables, msgs, fan, inbox, active, outbox, reader, excused>>

ClearActive ==
    /\ social = "mark"
    /\ social' = "idle"
    /\ \/ active' = FALSE /\ UNCHANGED excused
       \/ /\ "reset" \in Faults
          /\ active' = active /\ excused' = excused \union Missing
    /\ UNCHANGED <<feedTables, msgs, fan, inbox, outbox, cache, reader>>
-----------------------------------------------------------------------------
(* A read of the following feed (listByFollowingFromInbox).                  *)

ReadGoto(r, pc) == reader' = [reader EXCEPT ![r].pc = pc]

\* ListFollowedAuthors.
CurrentAuthors == [on |-> follows, pull |-> {a \in follows : tier[a] = "pull"}]

\* The read goes on with this list, or is answered by MySQL.
WithList(r, list, pc) ==
    reader' = [reader EXCEPT ![r] =
        IF list.on = {} \/ Cardinality(list.pull) > MaxPull THEN Idle
        ELSE [pc |-> pc, list |-> list, ids |-> {}]]

LoadHit(r) ==
    /\ reader[r].pc = "idle" /\ cache # None
    /\ WithList(r, cache, "check")
    /\ UNCHANGED <<feedTables, fanoutVars, feedKeys, excused>>

\* Nothing in the cache, or an error of Redis.
LoadMiss(r) ==
    /\ reader[r].pc = "idle"
    /\ reader' = [reader EXCEPT ![r] = [pc |-> "set", list |-> CurrentAuthors, ids |-> {}]]
    /\ UNCHANGED <<feedTables, fanoutVars, feedKeys, excused>>

\* The list that was read is cached, or that fails and is logged.
SetList(r) ==
    /\ reader[r].pc = "set"
    /\ cache' \in {reader[r].list, cache}
    /\ WithList(r, reader[r].list, "check")
    /\ UNCHANGED <<feedTables, fanoutVars, inbox, active, outbox, excused>>

CheckActive(r) ==
    /\ reader[r].pc = "check"
    /\ ReadGoto(r, IF active THEN "list" ELSE "rebuild")
    /\ UNCHANGED <<feedTables, fanoutVars, feedKeys, excused>>

MarkActive(r) ==
    /\ reader[r].pc = "rebuild"
    /\ active' = TRUE
    /\ ReadGoto(r, "query")
    /\ UNCHANGED <<feedTables, fanoutVars, inbox, outbox, cache, excused>>

QueryFollowed(r) ==
    /\ reader[r].pc = "query"
    /\ reader' = [reader EXCEPT ![r] = [@ EXCEPT !.pc = "fill", !.ids = Followed]]
    /\ UNCHANGED <<feedTables, fanoutVars, feedKeys, excused>>

\* The inbox emptied before it is filled.
FillAfterDel(r) ==
    /\ reader[r].pc = "fill"
    /\ inbox' = reader[r].ids
    /\ excused' = excused \ reader[r].ids
    /\ reader' = [reader EXCEPT ![r] = [@ EXCEPT !.pc = "list", !.ids = {}]]
    /\ UNCHANGED <<feedTables, fanoutVars, active, outbox, cache>>

\* Fill merges what was read into the inbox.
Fill(r) ==
    /\ reader[r].pc = "fill"
    /\ inbox' = inbox \union reader[r].ids
    /\ excused' = excused \ reader[r].ids
    /\ reader' = [reader EXCEPT ![r] = [@ EXCEPT !.pc = "list", !.ids = {}]]
    /\ UNCHANGED <<feedTables, fanoutVars, active, outbox, cache>>

\* Candidates up to cursor c, from the inbox and the pulled outboxes.
ListCandidates(r, c) ==
    /\ reader[r].pc = "list"
    /\ reader' = [reader EXCEPT ![r] = [@ EXCEPT !.pc = "filter", !.ids =
         {v \in inbox \union {u \in outbox : Author[u] \in reader[r].list.pull} : v <= c}]]
    /\ UNCHANGED <<feedTables, fanoutVars, feedKeys, excused>>

\* FindByIDs and the filter by the list: the page is answered, and what did
\* not qualify is stale.
Filter(r) ==
    /\ reader[r].pc = "filter"
    /\ LET stale == {v \in reader[r].ids : \/ status[v] # "public"
                                           \/ Author[v] \notin reader[r].list.on}
       IN  reader' = [reader EXCEPT ![r] = IF stale = {} THEN Idle
                                           ELSE [@ EXCEPT !.pc = "remove", !.ids = stale]]
    /\ UNCHANGED <<feedTables, fanoutVars, feedKeys, excused>>

\* The stale ids are removed on the view the request had; what has become
\* public or followed again since is lost.
RemoveStale(r) ==
    /\ reader[r].pc = "remove"
    /\ inbox' = inbox \ reader[r].ids
    /\ excused' = excused \union
         (reader[r].ids \intersect inbox \intersect Followed)
    /\ reader' = [reader EXCEPT ![r] = Idle]
    /\ UNCHANGED <<feedTables, fanoutVars, active, outbox, cache>>

\* A step fails or the process dies; MySQL answers.  A rebuild that is cut
\* short leaves the mark behind.
ReadFails(r) ==
    /\ "read" \in Faults /\ reader[r].pc # "idle"
    /\ excused' = IF reader[r].pc \in {"query", "fill"} THEN excused \union Missing
                  ELSE excused
    /\ reader' = [reader EXCEPT ![r] = Idle]
    /\ UNCHANGED <<feedTables, fanoutVars, feedKeys>>
-----------------------------------------------------------------------------
\* The mark lives seven days, the cached list five minutes.
ActiveExpires ==
    /\ active /\ active' = FALSE
    /\ UNCHANGED <<feedTables, fanoutVars, inbox, outbox, cache, reader, excused>>

ListExpires ==
    /\ cache # None /\ cache' = None
    /\ UNCHANGED <<feedTables, fanoutVars, inbox, active, outbox, reader, excused>>

AuthorStep ==
    \/ \E v \in Videos : GoPublic(v) \/ Withdraw(v)
    \/ \E a \in Movers, mode \in Tiers : CrossThreshold(a, mode)

FanoutStep(w) ==
    \/ \E v \in Videos : HandlePublished(w, v)
    \/ \E m \in msgs : HandleBatch(w, m) \/ FanoutFails(w, m)
    \/ FilterActive(w) \/ Push(w) \/ FanoutCrash(w)

SocialStep == (\E a \in Movers : SocialTx(a)) \/ DeleteList \/ ClearActive

ReadStep(r) ==
    \/ LoadHit(r) \/ LoadMiss(r) \/ SetList(r) \/ CheckActive(r)
    \/ MarkActive(r) \/ QueryFollowed(r) \/ Fill(r)
    \/ \E c \in Videos : ListCandidates(r, c)
    \/ Filter(r) \/ RemoveStale(r) \/ ReadFails(r)

FeedNext ==
    \/ AuthorStep
    \/ \E w \in FanoutWorkers : FanoutStep(w)
    \/ SocialStep
    \/ \E r \in Readers : ReadStep(r)
    \/ ActiveExpires \/ ListExpires

FeedSafety == FeedInit /\ [][FeedNext]_feedVars
-----------------------------------------------------------------------------
Repairing(v) ==
    \/ v \in Coming
    \/ \E r \in Readers : \/ reader[r].pc = "query"
                          \/ reader[r].pc = "fill" /\ v \in reader[r].ids
    \/ social # "idle"

\* While the mark stands a followed, public video can be read from Redis, or
\* a message, a rebuild or a reset that will bring it is under way, or one of
\* these has dropped it: a dead-lettered message, a reset Redis refused, a
\* rebuild cut short after the mark, a removal on an outdated view, an author
\* who fell below the pull threshold.  Nothing else loses a video: not the
\* order of mark, query and push, not a redelivery, not an expired mark.
NothingLost == active => \A v \in Missing \ excused : Repairing(v)

\* "A mark means that fanout maintains the inbox and it can be trusted"
\* (feed/fanout_store.go): between reads, with no message or reset under way,
\* it holds every followed, public video that is not pulled.
MarkMeansComplete ==
    active /\ (\A r \in Readers : reader[r].pc = "idle")
        => \A v \in Missing : Repairing(v)
=============================================================================
