------------------------------ MODULE HotFeed -------------------------------
(***************************************************************************)
(* The popularity feed (popularity/service.go: Record, ensureSnapshot,     *)
(* SnapshotSize, ListHot; feed/service.go:ListByPopularity,                *)
(* listByPersistedPopularity; feed/cache.go:HotPageCache).                 *)
(*                                                                         *)
(*   first page   enough entries? -> snapshot of this moment -> page       *)
(*   next pages   as_of of the first page -> its snapshot, made anew if it *)
(*                is gone                                                  *)
(*   else         MySQL's order, and as_of 0, from then on                 *)
(*                                                                         *)
(* A snapshot is made in separate calls to Redis: EXISTS, ZUNIONSTORE,     *)
(* ZCARD, then DEL when it is empty or EXPIRE.  All moments lie in one     *)
(* minute, so that every snapshot is the union of the same buckets.  A     *)
(* page holds one video.                                                   *)
(***************************************************************************)
EXTENDS Integers, FiniteSets, SequencesExt

CONSTANTS
    HotClients,       \* requests that page through the feed
    HotVideos,        \* videos, by id
    HotPagesRead,     \* bound: pages of a walk of every client
    HotCached,        \* bound: requests whose page is cached
    MinUsable,        \* MinUsableSnapshot
    LastMoment,       \* bound: moments that requests come at, in milliseconds
    NoSnapshot

ASSUME HotAssumption == LastMoment \in Nat /\ IsFiniteSet(HotVideos)

VARIABLES
    window,           \* the minute buckets: their videos, most popular first
    snapshot,         \* hot:video:merge of every moment
    hotPages,         \* HotPageCache: <<as_of, offset>> of a request, and its page
    hotClient,        \* of every client its request and the pages it has
    abandoned         \* history: moments whose maker left a snapshot without time to live

hotVars == <<window, snapshot, hotPages, hotClient, abandoned>>

Moments == 1..LastMoment
Rankings == UNION {{r \in [1..n -> HotVideos] : IsInjective(r)} : n \in 0..Cardinality(HotVideos)}
\* Video 0 is one that is not playable, or any of MySQL's; "old" is history:
\* the snapshot was made again since the page was read.
Page == [asOf : 0..LastMoment, video : HotVideos \union {0}, old : BOOLEAN]
HotResting == [pc |-> "rest", why |-> "size", at |-> 0, walk |-> <<>>]
MakerAt == {"card", "settle", "expire"}

HotTypeOK ==
    /\ window \in Rankings
    /\ \A a \in Moments : snapshot[a] = NoSnapshot
                          \/ snapshot[a] \in [of : Rankings, ttl : BOOLEAN]
    /\ \A p \in hotPages : p.page \in Page
    /\ \A c \in HotClients :
         /\ hotClient[c].pc \in {"rest", "exists", "union", "read", "persisted"} \union MakerAt
         /\ hotClient[c].why \in {"size", "page"}
         /\ hotClient[c].at \in 0..LastMoment
         /\ \A i \in DOMAIN hotClient[c].walk : hotClient[c].walk[i] \in Page
    /\ abandoned \in SUBSET Moments

HotInit ==
    /\ window = <<>>
    /\ snapshot = [a \in Moments |-> NoSnapshot] /\ hotPages = {}
    /\ hotClient = [c \in HotClients |-> HotResting]
    /\ abandoned = {}
-----------------------------------------------------------------------------
HotAt(c, pc) == hotClient[c].pc = pc
HotGoes(c, pc) == hotClient' = [hotClient EXCEPT ![c].pc = pc]
Ensures(c, why, a) ==
    hotClient' = [hotClient EXCEPT ![c].pc = "exists", ![c].why = why, ![c].at = a]

Walk(c) == hotClient[c].walk
\* The request for the page behind those a client has.
AskedAsOf(c) == IF Walk(c) = <<>> THEN 0 ELSE Walk(c)[Len(Walk(c))].asOf
Asked(c) == <<AskedAsOf(c), Len(Walk(c))>>

hotStore == <<window, snapshot, abandoned>>

\* RecordEvent: a like, a comment, or one taken back; the video stays a member.
Record(v) ==
    /\ LET others(r) == SelectSeq(r, LAMBDA u : u # v)
       IN  window' \in {r \in Rankings : v \in ToSet(r) /\ others(r) = others(window)}
    /\ UNCHANGED <<snapshot, hotPages, hotClient, abandoned>>

\* The buckets of the minute run out, and later a snapshot with its time to live.
ForgetWindow ==
    /\ window' = <<>>
    /\ UNCHANGED <<snapshot, hotPages, hotClient, abandoned>>

ForgetSnapshot(a) ==
    /\ snapshot[a] # NoSnapshot /\ snapshot[a].ttl
    /\ snapshot' = [snapshot EXCEPT ![a] = NoSnapshot]
    /\ UNCHANGED <<window, hotPages, hotClient, abandoned>>

ForgetPage ==
    /\ hotPages # {} /\ hotPages' = {}
    /\ UNCHANGED <<hotStore, hotClient>>
-----------------------------------------------------------------------------
\* What a first page does before the window is judged, decided by as_of alone.
AskWithoutMemory(c) ==
    /\ HotAt(c, "rest") /\ Len(Walk(c)) < HotPagesRead[c]
    /\ \E now \in Moments :
         IF AskedAsOf(c) = 0 THEN Ensures(c, "size", now) ELSE Ensures(c, "page", AskedAsOf(c))
    /\ UNCHANGED <<hotStore, hotPages>>

\* ListByPopularity up to shouldUsePersistedPopularity: once as_of is 0 behind
\* the first page, it stays MySQL.
Ask(c) ==
    /\ HotAt(c, "rest") /\ Len(Walk(c)) < HotPagesRead[c]
    /\ IF AskedAsOf(c) # 0 THEN Ensures(c, "page", AskedAsOf(c))
       ELSE IF Walk(c) = <<>> THEN \E now \in Moments : Ensures(c, "size", now)
       ELSE HotGoes(c, "persisted")
    /\ UNCHANGED <<hotStore, hotPages>>

Got(c, page) ==
    hotClient' = [hotClient EXCEPT ![c] = [HotResting EXCEPT !.walk = Append(Walk(c), page)]]

\* Either level of the cache has the page.
AskCached(c) ==
    /\ HotAt(c, "rest") /\ Len(Walk(c)) < HotPagesRead[c]
    /\ \E p \in hotPages : p.of = Asked(c) /\ Got(c, p.page)
    /\ UNCHANGED <<hotStore, hotPages>>

StartOver(c) ==
    /\ HotAt(c, "rest") /\ Walk(c) # <<>>
    /\ hotClient' = [hotClient EXCEPT ![c] = HotResting]
    /\ UNCHANGED <<hotStore, hotPages>>
-----------------------------------------------------------------------------
\* ensureSnapshot.
Exists(c) ==
    /\ HotAt(c, "exists")
    /\ HotGoes(c, IF snapshot[hotClient[c].at] # NoSnapshot THEN "read" ELSE "union")
    /\ UNCHANGED <<hotStore, hotPages>>

\* ZUNIONSTORE replaces the key and its time to live; an empty union is no key.
Unite(c) ==
    LET a == hotClient[c].at IN
    /\ HotAt(c, "union")
    /\ LET marked(page) == IF page.asOf = a THEN [page EXCEPT !.old = TRUE] ELSE page
       IN  /\ hotClient' = [d \in HotClients |->
                [hotClient[d] EXCEPT !.pc = IF d = c THEN "card" ELSE @,
                                     !.walk = [i \in DOMAIN @ |-> marked(@[i])]]]
           /\ hotPages' = {[p EXCEPT !.page = marked(@)] : p \in hotPages}
    /\ snapshot' = [snapshot EXCEPT ![a] =
         IF window = <<>> THEN NoSnapshot ELSE [of |-> window, ttl |-> FALSE]]
    /\ abandoned' = abandoned \ {a} /\ UNCHANGED <<window>>

Card(c) ==
    /\ HotAt(c, "card")
    /\ HotGoes(c, IF snapshot[hotClient[c].at] = NoSnapshot THEN "settle" ELSE "expire")
    /\ UNCHANGED <<hotStore, hotPages>>

\* DEL of what was empty when it was counted, whoever made what is there now.
Settle(c) ==
    /\ HotAt(c, "settle") /\ HotGoes(c, "read")
    /\ snapshot' = [snapshot EXCEPT ![hotClient[c].at] = NoSnapshot]
    /\ abandoned' = abandoned \ {hotClient[c].at} /\ UNCHANGED <<window, hotPages>>

\* A snapshot too thin for a page is not given its time to live.
ExpireFullOnly(c) ==
    LET a == hotClient[c].at IN
    /\ HotAt(c, "expire") /\ HotGoes(c, "read")
    /\ snapshot' = [snapshot EXCEPT ![a] =
         IF @ = NoSnapshot \/ Len(@.of) < MinUsable THEN @
         ELSE [@ EXCEPT !.ttl = TRUE]]
    /\ UNCHANGED <<window, hotPages, abandoned>>

\* EXPIRE, with a time to live of its own for a thin snapshot.
Expire(c) ==
    LET a == hotClient[c].at IN
    /\ HotAt(c, "expire") /\ HotGoes(c, "read")
    /\ snapshot' = [snapshot EXCEPT ![a] = IF @ = NoSnapshot THEN @ ELSE [@ EXCEPT !.ttl = TRUE]]
    /\ abandoned' = abandoned \ {a} /\ UNCHANGED <<window, hotPages>>

\* A call to Redis fails, and MySQL answers; or the process stops there.
SnapshotFails(c, pc) ==
    /\ hotClient[c].pc \notin {"rest", "persisted"} /\ HotGoes(c, pc)
    /\ pc = "persisted" \/ (pc = "rest" /\ hotClient[c].pc \in MakerAt)
    /\ LET a == hotClient[c].at IN
       abandoned' = IF hotClient[c].pc \in MakerAt /\ snapshot[a] # NoSnapshot /\ ~snapshot[a].ttl
                      THEN abandoned \union {a} ELSE abandoned
    /\ UNCHANGED <<window, snapshot, hotPages>>
-----------------------------------------------------------------------------
\* HasUsableSnapshot; the page is then read from a snapshot of its own moment.
ReadSize(c) ==
    LET s == snapshot[hotClient[c].at] IN
    /\ HotAt(c, "read") /\ hotClient[c].why = "size"
    /\ IF s # NoSnapshot /\ Len(s.of) >= MinUsable
       THEN \E now \in hotClient[c].at..LastMoment : Ensures(c, "page", now) ELSE HotGoes(c, "persisted")
    /\ UNCHANGED <<hotStore, hotPages>>

\* setHotCaches, which may fail.  Bound: one page at a time is cached.
Answer(c, page) ==
    /\ Got(c, page)
    /\ \/ UNCHANGED hotPages
       \/ Asked(c) \in HotCached /\ hotPages' = {[of |-> Asked(c), page |-> page]}

\* An empty page, and a first page whose video is not playable, is left to MySQL.
ReadPage(c) ==
    LET s == snapshot[hotClient[c].at]
        place == Len(Walk(c)) + 1
        v == IF s # NoSnapshot /\ place <= Len(s.of) THEN s.of[place] ELSE 0
    IN
    /\ HotAt(c, "read") /\ hotClient[c].why = "page"
    /\ \E playable \in BOOLEAN :
         IF v = 0 \/ (Walk(c) = <<>> /\ ~playable)
         THEN HotGoes(c, "persisted") /\ UNCHANGED hotPages
         ELSE Answer(c, [asOf |-> hotClient[c].at, video |-> IF playable THEN v ELSE 0, old |-> FALSE])
    /\ UNCHANGED hotStore

\* listByPersistedPopularity: the order of MySQL changes as it likes, and which
\* of the videos comes is left out.
ReadPersisted(c) ==
    /\ HotAt(c, "persisted") /\ Answer(c, [asOf |-> 0, video |-> 0, old |-> FALSE])
    /\ UNCHANGED hotStore

HotNext ==
    \/ ForgetWindow \/ ForgetPage
    \/ \E v \in HotVideos : Record(v)
    \/ \E a \in Moments : ForgetSnapshot(a)
    \/ \E c \in HotClients :
         \/ Ask(c) \/ AskCached(c) \/ StartOver(c)
         \/ Exists(c) \/ Unite(c) \/ Card(c) \/ Settle(c) \/ Expire(c)
         \/ ReadSize(c) \/ ReadPage(c) \/ ReadPersisted(c)
         \/ \E pc \in {"persisted", "rest"} : SnapshotFails(c, pc)

HotSafety == HotInit /\ [][HotNext]_hotVars
-----------------------------------------------------------------------------
\* A snapshot that will never expire is still in the hands of who made it, or
\* was left behind in the middle (ensureSnapshot sets the time to live last).
SnapshotsExpire ==
    \A a \in Moments : snapshot[a] # NoSnapshot /\ ~snapshot[a].ttl =>
        \/ a \in abandoned
        \/ \E c \in HotClients : hotClient[c].pc \in MakerAt /\ hotClient[c].at = a

\* A walk keeps to one ranking: it never comes back from MySQL or goes to
\* another snapshot (shouldUsePersistedPopularity), and shows no video twice
\* unless the snapshot was made again in between.
OneRanking ==
    \A c \in HotClients : \A j \in DOMAIN Walk(c), i \in DOMAIN Walk(c) : i < j =>
        LET first == Walk(c)[i]
            later == Walk(c)[j]
        IN  /\ later.asOf \in {0, first.asOf}
            /\ later.asOf # 0 /\ ~first.old /\ ~later.old /\ later.video # 0
               => later.video # first.video
=============================================================================
