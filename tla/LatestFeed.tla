----------------------------- MODULE LatestFeed -----------------------------
(***************************************************************************)
(* The latest feed (feed/service.go:ListLatest, listLatestFromTimeline;    *)
(* feed/timeline_cache.go; feed/cache.go; worker/timeline_worker.go).      *)
(*                                                                         *)
(*   approval          timeline worker              reader                 *)
(*   public + event -> ZADD by approval time  ---   version of the pages   *)
(*                     INCR version                 cached page, or        *)
(*                                                  timeline, or MySQL     *)
(*                                                                         *)
(* Readers walk the feed page by page with the (created_at, id) of the     *)
(* last video they were shown.  A cached page is found by version and      *)
(* cursor; both cache levels use that key and are one here.                *)
(***************************************************************************)
EXTENDS Integers, FiniteSets, FiniteSetsExt

CONSTANTS
    LastVideo,       \* videos are 1..LastVideo; video v is created at time v
    Walkers,         \* clients that page through the feed
    PageLimit,       \* videos of a page
    ReadCount,       \* entries read of the timeline for one page
    MaxPageVersion,  \* bound: bumps of the version
    MaxPages,        \* bound: pages cached at the same time
    Withdrawable,    \* bound: videos that may be withdrawn
    RedisFails,      \* whether reads of Redis fail
    Top              \* the cursor of the first page

ASSUME LatestAssumption ==
    LastVideo \in Nat /\ PageLimit \in Nat \ {0} /\ ReadCount \in Nat \ {0}
ASSUME PageVersionAssumption == MaxPageVersion \in Nat \ {0}

VARIABLES
    clock,           \* also the last video that was created
    shownable,       \* videos that ScopePublic lets through
    pushes,          \* video.timeline.publish events not acknowledged
    timeline,        \* score of every video in feed:global_timeline, 0: absent
    pageVersion,     \* feed:listLatest:version
    pages,           \* the cached pages
    walker,
    announced,       \* history: the version that announced a video, 0: none
    due              \* history: videos public since before the walk of a
                     \* client began that it was not shown yet

latestVars == <<clock, shownable, pushes, timeline, pageVersion, pages, walker,
                announced, due>>
latestStores == <<clock, shownable, pushes, timeline, pageVersion, announced>>

Uploads == 1..LastVideo
Times == 0..LastVideo
Cursors == Uploads \union {Top}
PageKeys == [version : 1..MaxPageVersion, cursor : Cursors]
\* "cut" is history: the read of the timeline behind it hit its limit.
Pages == [key : PageKeys, ids : SUBSET Uploads, more : BOOLEAN, cut : BOOLEAN]

LatestTypeOK ==
    /\ clock \in Times
    /\ shownable \subseteq Uploads
    /\ pushes \subseteq [video : Uploads, at : Times, added : BOOLEAN]
    /\ timeline \in [Uploads -> Times]
    /\ pageVersion \in 1..MaxPageVersion
    /\ pages \subseteq Pages
    /\ walker \in [Walkers -> [pc : {"rest", "page", "rows"}, cursor : Cursors, version : 1..MaxPageVersion,
                               ids : SUBSET Uploads, ended : BOOLEAN]]
    /\ announced \in [Uploads -> 0..MaxPageVersion]
    /\ due \in [Walkers -> SUBSET Uploads]

Resting == [pc |-> "rest", cursor |-> Top, version |-> 1, ids |-> {}, ended |-> FALSE]

LatestInit ==
    /\ clock = 0 /\ shownable = {}
    /\ pushes = {} /\ timeline = [v \in Uploads |-> 0] /\ pageVersion = 1 /\ pages = {}
    /\ walker = [c \in Walkers |-> Resting]
    /\ announced = [v \in Uploads |-> 0] /\ due = [c \in Walkers |-> {}]
-----------------------------------------------------------------------------
\* A video is created; it waits for its verdict.
Upload ==
    /\ clock < LastVideo /\ clock' = clock + 1
    /\ UNCHANGED <<shownable, pushes, timeline, pageVersion, pages, walker, announced, due>>

\* enqueuePublic: the event carries the time of the approval or relisting.
Approve(v) ==
    /\ v <= clock /\ v \notin shownable
    /\ shownable' = shownable \union {v}
    /\ pushes' = pushes \union {[video |-> v, at |-> clock, added |-> FALSE]}
    /\ announced' = [announced EXCEPT ![v] = 0]
    /\ UNCHANGED <<clock, timeline, pageVersion, pages, walker, due>>

\* A takedown, unpublication or deletion leaves the timeline alone.
WithdrawListed(v) ==
    /\ v \in shownable \intersect Withdrawable /\ shownable' = shownable \ {v}
    /\ due' = [c \in Walkers |-> due[c] \ {v}]
    /\ UNCHANGED <<clock, pushes, timeline, pageVersion, pages, walker, announced>>
-----------------------------------------------------------------------------
\* TimelineConsumer.Handle: Add, then BumpVersion; the acknowledgement comes
\* later, so that the message may come again.
AddToTimeline(e) ==
    /\ ~e.added /\ pageVersion < MaxPageVersion
    /\ timeline' = [timeline EXCEPT ![e.video] = e.at]
    /\ pushes' = (pushes \ {e}) \union {[e EXCEPT !.added = TRUE]}
    /\ UNCHANGED <<clock, shownable, pageVersion, pages, walker, announced, due>>

BumpVersion(e, again) ==
    /\ e.added /\ pageVersion < MaxPageVersion
    /\ pageVersion' = pageVersion + 1
    /\ announced' = [announced EXCEPT ![e.video] =
                        IF timeline[e.video] # 0 /\ e.video \in shownable THEN pageVersion + 1 ELSE @]
    /\ pushes' = (pushes \ {e}) \union (IF again THEN {[e EXCEPT !.added = FALSE]} ELSE {})
    /\ UNCHANGED <<clock, shownable, timeline, pages, walker, due>>
-----------------------------------------------------------------------------
\* includeTimeCursor.
BehindCursor(v, cursor) == cursor = Top \/ v < cursor

Newest(ids, n) == {v \in ids : Cardinality({u \in ids : v < u}) < n}

\* ListVideoIDs: by score, ties by the member, from the cursor's time down.
Above(u, v) == timeline[u] > timeline[v] \/ (timeline[u] = timeline[v] /\ u > v)
Readable(cursor) == {v \in Uploads : timeline[v] # 0 /\ (cursor = Top \/ timeline[v] <= cursor)}
TimelineIds(cursor) ==
    {v \in Readable(cursor) : Cardinality({u \in Readable(cursor) : Above(u, v)}) < ReadCount}

\* What a reader does with a page: it goes on behind its oldest video.
Take(c, ids, more) ==
    /\ walker' = [walker EXCEPT ![c] = [Resting EXCEPT
         !.cursor = IF ids = {} THEN walker[c].cursor ELSE Min(ids), !.ended = ~more]]
    /\ due' = [due EXCEPT ![c] = @ \ ids]

\* A walk starts at the first page.
Begin(c) ==
    /\ walker[c].pc = "rest" /\ (walker[c].ended \/ walker[c].cursor # Top)
    /\ walker' = [walker EXCEPT ![c] = Resting]
    /\ UNCHANGED <<latestStores, pages, due>>

\* GetVersion; when it fails the page is looked up under version 1.
ReadVersion(c) ==
    /\ walker[c].pc = "rest" /\ ~walker[c].ended
    /\ \E version \in IF RedisFails THEN {1, pageVersion} ELSE {pageVersion} :
         walker' = [walker EXCEPT ![c].pc = "page", ![c].version = version]
    /\ due' = IF walker[c].cursor # Top THEN due
               ELSE [due EXCEPT ![c] = {v \in shownable : announced[v] # 0}]
    /\ UNCHANGED <<latestStores, pages>>

\* A page that is filed under the version of the moment it is stored.
PageKeyNow(c) == [version |-> pageVersion, cursor |-> walker[c].cursor]

PageKey(c) == [version |-> walker[c].version, cursor |-> walker[c].cursor]

CachedPage(c) ==
    /\ walker[c].pc = "page"
    /\ \E p \in pages : p.key = PageKey(c) /\ Take(c, p.ids, p.more)
    /\ UNCHANGED <<latestStores, pages>>

\* A miss: the identifiers from the timeline.  Redis may fail any time.
ReadTimeline(c) ==
    /\ walker[c].pc = "page"
    /\ walker' = [walker EXCEPT ![c].pc = "rows", ![c].ids = TimelineIds(walker[c].cursor)]
    /\ UNCHANGED <<latestStores, pages, due>>

\* setLatestCaches, which may fail.
StorePage(c, ids, more, cut) ==
    LET others == {p \in pages : p.key # PageKey(c)} IN
    pages' = IF Cardinality(others) = MaxPages THEN pages
             ELSE others \union {[key |-> PageKey(c), ids |-> ids, more |-> more, cut |-> cut]}

\* FindByIDs; what is no longer public leaves the timeline.
Shown(c) == {v \in walker[c].ids \intersect shownable : BehindCursor(v, walker[c].cursor)}

PageFromTimeline(c) ==
    /\ walker[c].pc = "rows" /\ Shown(c) # {}
    /\ LET ids == Newest(Shown(c), PageLimit)
           more == Cardinality(Shown(c)) > PageLimit
       IN Take(c, ids, more) /\ StorePage(c, ids, more, Cardinality(walker[c].ids) = ReadCount)
    /\ timeline' = [v \in Uploads |-> IF v \in walker[c].ids \ shownable THEN 0 ELSE timeline[v]]
    /\ UNCHANGED <<clock, shownable, pushes, pageVersion, announced>>

\* Repo.ListLatest, when the timeline has nothing for this page or fails.
Listed(cursor) == {v \in shownable : BehindCursor(v, cursor)}

PageFromMySQL(c) ==
    /\ walker[c].pc = "rows" /\ (Shown(c) = {} \/ RedisFails)
    /\ LET found == Listed(walker[c].cursor)
           ids == Newest(found, PageLimit)
           more == Cardinality(found) > PageLimit
       IN Take(c, ids, more) /\ StorePage(c, ids, more, FALSE)
    /\ timeline' = [v \in Uploads |-> IF v \in walker[c].ids \ shownable THEN 0 ELSE timeline[v]]
    /\ UNCHANGED <<clock, shownable, pushes, pageVersion, announced>>

\* TTL of a cached page, or it was never written.
ExpirePage(p) ==
    /\ pages' = pages \ {p}
    /\ UNCHANGED <<latestStores, walker, due>>

LatestNext ==
    \/ Upload
    \/ \E v \in Uploads : Approve(v) \/ WithdrawListed(v)
    \/ \E e \in pushes : AddToTimeline(e) \/ \E again \in BOOLEAN : BumpVersion(e, again)
    \/ \E c \in Walkers : Begin(c) \/ ReadVersion(c) \/ CachedPage(c) \/ ReadTimeline(c)
                            \/ PageFromTimeline(c) \/ PageFromMySQL(c)
    \/ \E p \in pages : ExpirePage(p)

LatestSafety == LatestInit /\ [][LatestNext]_latestVars
-----------------------------------------------------------------------------
\* A first page cached under a version holds every public video that was
\* announced by then, or a full page of newer ones, unless the timeline had
\* more entries than one read returns: the version is read before the timeline
\* and bumped after it (feed/service.go:103, timeline_worker.go:57).
VersionMeansFresh ==
    \A p \in pages : \A v \in shownable \ p.ids :
        p.key.cursor = Top /\ ~p.cut /\ announced[v] # 0 /\ announced[v] <= p.key.version =>
          Cardinality({u \in p.ids : v < u}) = PageLimit

\* "Cursor or snapshot pagination must not duplicate or skip items across
\* adjacent pages" (.spec/backend/feed/spec.md:28): what was public and
\* announced before a walk began, and stayed so, lies behind its cursor or was
\* shown.
NothingSkipped ==
    \A c \in Walkers : \A v \in due[c] :
        ~walker[c].ended /\ (walker[c].cursor = Top \/ v < walker[c].cursor)
=============================================================================
