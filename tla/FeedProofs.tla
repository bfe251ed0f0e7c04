----------------------------- MODULE FeedProofs -----------------------------
(***************************************************************************)
(* What a reader is shown, for any number of readers, videos, moments and  *)
(* writers: the following feed's inbox, the hot ranking and its snapshots, *)
(* the cached details of a video, the pages of the latest videos, the      *)
(* history of what one watched, recommended pages and the taste they       *)
(* follow.  NothingLost is inductive given the feed's type invariant: its  *)
(* disjunction names every way a video can be on its way to the inbox, and *)
(* excused every way it can be dropped.  The types of the parts come last: *)
(* most of them rest on the invariants before them.                        *)
(***************************************************************************)
EXTENDS HotFeed, DetailCache, FollowFeed, LatestFeed, Watch, Recommend,
        Interests, FiniteSetTheorems, SequenceTheorems, WellFoundedInduction, TLAPS

-----------------------------------------------------------------------------
\* Every variable keeps its type: in particular the requests and the workers
\* keep the program counters and the data the other steps read.
THEOREM FollowTypeInvariant == FeedSafety => []FeedTypeOK
<1>1. FeedInit => FeedTypeOK
  <2> SUFFICES ASSUME FeedInit PROVE FeedTypeOK
    OBVIOUS
  <2>1. tier \in [Authors -> Modes]
    BY DEF FeedInit, Modes
  <2>2. Idle \in [pc : {"idle", "set", "check", "rebuild", "query", "fill", "list",
                        "filter", "remove"},
                  list : Lists \union {None}, ids : SUBSET Videos]
    BY DEF Idle
  <2> QED
    BY <2>1, <2>2, MoversAssumption DEF FeedInit, FeedTypeOK
<1>2. FeedTypeOK /\ [FeedNext]_feedVars => FeedTypeOK'
  <2> SUFFICES ASSUME FeedTypeOK, [FeedNext]_feedVars PROVE FeedTypeOK'
    OBVIOUS
  <2> USE DEF FeedTypeOK, Modes, Messages, Lists
  <2>1. ASSUME NEW v \in Videos, GoPublic(v) PROVE FeedTypeOK'
    BY <2>1 DEF GoPublic, Publish, feedKeys
  <2>2. ASSUME NEW v \in Videos, Withdraw(v) PROVE FeedTypeOK'
    BY <2>2 DEF Withdraw, fanoutVars, feedKeys
  <2>3. ASSUME NEW a \in Movers, NEW mode \in Tiers, CrossThreshold(a, mode) PROVE FeedTypeOK'
    BY <2>3, MoversAssumption, TiersAssumption DEF CrossThreshold, fanoutVars, feedKeys
  <2>4. ASSUME NEW w \in FanoutWorkers, NEW v \in Videos, HandlePublished(w, v) PROVE FeedTypeOK'
    BY <2>4, AuthorAssumption DEF HandlePublished, Published, Publish, Batch, feedTables
  <2>5. ASSUME NEW w \in FanoutWorkers, NEW m \in msgs, HandleBatch(w, m) PROVE FeedTypeOK'
    <3> DEFINE all == m.mode = "all"
    <3>1. m \in Messages /\ all \in BOOLEAN
      OBVIOUS
    <3> HIDE DEF all
    <3>2. [msg |-> m, push |-> all] \in [msg : Messages, push : BOOLEAN]
      BY <3>1
    <3>3. fan' \in [FanoutWorkers -> [msg : Messages, push : BOOLEAN] \union {None}]
      <4>1. fan' = [fan EXCEPT ![w] = [msg |-> m, push |-> all]] \/ fan' = fan
        BY <2>5 DEF HandleBatch, all
      <4> QED
        BY <4>1, <3>2
    <3> QED
      BY <2>5, <3>3 DEF HandleBatch, AckBatch, feedTables, feedKeys
  <2>6. ASSUME NEW w \in FanoutWorkers, NEW m \in msgs, FanoutFails(w, m) PROVE FeedTypeOK'
    BY <2>6 DEF FanoutFails, feedTables
  <2>7. ASSUME NEW w \in FanoutWorkers, FilterActive(w) PROVE FeedTypeOK'
    <3>1. fan[w] \in [msg : Messages, push : BOOLEAN]
      BY <2>7 DEF FilterActive
    <3>2. fan' \in [FanoutWorkers -> [msg : Messages, push : BOOLEAN] \union {None}]
      <4>1. \/ fan' = [fan EXCEPT ![w] = [fan[w] EXCEPT !.push = TRUE]]
            \/ fan' = [fan EXCEPT ![w] = None]
        BY <2>7 DEF FilterActive
      <4>2. [fan[w] EXCEPT !.push = TRUE] \in [msg : Messages, push : BOOLEAN]
        BY <3>1
      <4> QED
        BY <4>1, <4>2
    <3> QED
      BY <2>7, <3>2 DEF FilterActive, AckBatch, feedTables, feedKeys
  <2>8. ASSUME NEW w \in FanoutWorkers, Push(w) PROVE FeedTypeOK'
    BY <2>8 DEF Push, AckBatch, feedTables
  <2>9. ASSUME NEW w \in FanoutWorkers, FanoutCrash(w) PROVE FeedTypeOK'
    BY <2>9 DEF FanoutCrash, feedTables, feedKeys
  <2>10. ASSUME NEW a \in Movers, SocialTx(a) PROVE FeedTypeOK'
    BY <2>10, MoversAssumption DEF SocialTx, feedKeys
  <2>11. CASE DeleteList
    BY <2>11 DEF DeleteList, feedTables
  <2>12. CASE ClearActive
    BY <2>12 DEF ClearActive, Missing, Followed, feedTables
  <2>13. ASSUME NEW r \in Readers, LoadHit(r) PROVE FeedTypeOK'
    BY <2>13 DEF LoadHit, WithList, Idle, feedTables, fanoutVars, feedKeys
  <2>14. ASSUME NEW r \in Readers, LoadMiss(r) PROVE FeedTypeOK'
    BY <2>14 DEF LoadMiss, CurrentAuthors, feedTables, fanoutVars, feedKeys
  <2>15. ASSUME NEW r \in Readers, SetList(r) PROVE FeedTypeOK'
    BY <2>15 DEF SetList, WithList, Idle, feedTables, fanoutVars
  <2>16. ASSUME NEW r \in Readers, CheckActive(r) PROVE FeedTypeOK'
    BY <2>16 DEF CheckActive, ReadGoto, feedTables, fanoutVars, feedKeys
  <2>17. ASSUME NEW r \in Readers, MarkActive(r) PROVE FeedTypeOK'
    BY <2>17 DEF MarkActive, ReadGoto, feedTables, fanoutVars
  <2>18. ASSUME NEW r \in Readers, QueryFollowed(r) PROVE FeedTypeOK'
    BY <2>18, ZenonT(40) DEF QueryFollowed, Followed, feedTables, fanoutVars, feedKeys
  <2>19. ASSUME NEW r \in Readers, Fill(r) PROVE FeedTypeOK'
    BY <2>19, ZenonT(40) DEF Fill, feedTables, fanoutVars
  <2>20. ASSUME NEW r \in Readers, NEW c \in Videos, ListCandidates(r, c) PROVE FeedTypeOK'
    BY <2>20, ZenonT(40) DEF ListCandidates, feedTables, fanoutVars, feedKeys
  <2>21. ASSUME NEW r \in Readers, Filter(r) PROVE FeedTypeOK'
    <3> DEFINE stale == {v \in reader[r].ids : \/ status[v] # "public"
                                               \/ Author[v] \notin reader[r].list.on}
    <3>1. reader' = [reader EXCEPT ![r] = IF stale = {} THEN Idle
                                  ELSE [@ EXCEPT !.pc = "remove", !.ids = stale]]
      BY <2>21 DEF Filter
    <3>2. stale \in SUBSET Videos
      OBVIOUS
    <3> DEFINE other == [reader[r] EXCEPT !.pc = "remove", !.ids = stale]
    <3>3. reader' = [reader EXCEPT ![r] = Idle] \/ reader' = [reader EXCEPT ![r] = other]
      BY <3>1
    <3> HIDE DEF stale
    <3>4. reader' \in [Readers ->
            [pc : {"idle", "set", "check", "rebuild", "query", "fill", "list", "filter",
                   "remove"},
             list : Lists \union {None}, ids : SUBSET Videos]]
      <4>1. CASE reader' = [reader EXCEPT ![r] = Idle]
        BY <4>1 DEF Idle
      <4>2. CASE reader' = [reader EXCEPT ![r] = other]
        <5>1. other \in [pc : {"idle", "set", "check", "rebuild", "query", "fill", "list",
                              "filter", "remove"},
                        list : Lists \union {None}, ids : SUBSET Videos]
          BY <3>2
        <5> HIDE DEF other
        <5> QED
          BY <4>2, <5>1
      <4> QED
        BY <3>3, <4>1, <4>2
    <3> QED
      BY <2>21, <3>4 DEF Filter, feedTables, fanoutVars, feedKeys
  <2>22. ASSUME NEW r \in Readers, RemoveStale(r) PROVE FeedTypeOK'
    BY <2>22 DEF RemoveStale, Idle, feedTables, fanoutVars
  <2>23. ASSUME NEW r \in Readers, ReadFails(r) PROVE FeedTypeOK'
    BY <2>23 DEF ReadFails, Missing, Followed, Idle, feedTables, fanoutVars, feedKeys
  <2>24. CASE ActiveExpires
    BY <2>24 DEF ActiveExpires, feedTables, fanoutVars
  <2>25. CASE ListExpires
    BY <2>25 DEF ListExpires, feedTables, fanoutVars
  <2>26. CASE UNCHANGED feedVars
    BY <2>26 DEF feedVars
  <2> HIDE DEF FeedTypeOK, Messages, Lists
  <2> QED
    BY <2>1, <2>2, <2>3, <2>4, <2>5, <2>6, <2>7, <2>8, <2>9, <2>10, <2>11, <2>12, <2>13,
       <2>14, <2>15, <2>16, <2>17, <2>18, <2>19, <2>20, <2>21, <2>22, <2>23, <2>24, <2>25,
       <2>26
    DEF FeedNext, AuthorStep, FanoutStep, SocialStep, ReadStep
<1> QED
  BY <1>1, <1>2, PTL DEF FeedSafety
-----------------------------------------------------------------------------
\* The mark never hides a followed, public video that nothing will bring into
\* the inbox and no known fault has dropped: one step per action.
THEOREM InboxLosesNothing == FeedSafety => []NothingLost
<1>1. FeedInit => NothingLost
  BY DEF FeedInit, NothingLost
<1>2. FeedTypeOK /\ NothingLost /\ [FeedNext]_feedVars => NothingLost'
  <2> SUFFICES ASSUME FeedTypeOK, NothingLost, [FeedNext]_feedVars PROVE NothingLost'
    OBVIOUS
  <2> USE DEF NothingLost, Repairing, Missing, Followed, Coming
  <2>1. ASSUME NEW v \in Videos, GoPublic(v) PROVE NothingLost'
    <3>1. Publish(v) \in msgs' /\ Publish(v).video = v
      BY <2>1 DEF GoPublic, Publish
    <3>2. v \in Coming' /\ Coming \subseteq Coming'
      BY <2>1, <3>1 DEF GoPublic
    <3>3. Missing' \subseteq Missing \union {v}
      BY <2>1 DEF GoPublic, feedKeys, FeedTypeOK
    <3> HIDE DEF Missing, Coming
    <3> QED
      BY <2>1, <3>2, <3>3 DEF GoPublic, feedKeys
  <2>2. ASSUME NEW v \in Videos, Withdraw(v) PROVE NothingLost'
    BY <2>2 DEF Withdraw, fanoutVars, feedKeys, FeedTypeOK
  <2>3. ASSUME NEW a \in Movers, NEW mode \in Tiers, CrossThreshold(a, mode) PROVE NothingLost'
    BY <2>3, AuthorAssumption, TiersAssumption
    DEF CrossThreshold, fanoutVars, feedKeys, FeedTypeOK, Modes
  <2>4. ASSUME NEW w \in FanoutWorkers, NEW v \in Videos, HandlePublished(w, v) PROVE NothingLost'
    <3>1. Publish(v).video = v
      BY DEF Publish
    <3>2. CASE tier[Author[v]] = "pull"
      <4>1. v \notin Missing'
        BY <2>4, <3>2 DEF HandlePublished, Published, feedTables
      <4>2. Coming \subseteq Coming' \union {v}
        BY <2>4, <3>1, <3>2 DEF HandlePublished, Published
      <4>3. Missing' \subseteq Missing
        BY <2>4 DEF HandlePublished, Published, feedTables
      <4> HIDE DEF Missing, Coming
      <4> QED
        BY <2>4, <4>1, <4>2, <4>3 DEF HandlePublished, Published, feedTables
    <3>3. CASE tier[Author[v]] # "pull"
      <4> DEFINE b == Batch(v, tier[Author[v]])
      <4>1. b.video = v
        BY DEF Batch
      <4>2. msgs' \in {msgs, msgs \union {b}, (msgs \ {Publish(v)}) \union {b}}
        BY <2>4, <3>3 DEF HandlePublished, Published
      <4> HIDE DEF b
      <4>3. Coming \subseteq Coming'
        BY <3>1, <4>1, <4>2
      <4>4. Missing' \subseteq Missing
        BY <2>4 DEF HandlePublished, Published, feedTables
      <4> HIDE DEF Missing, Coming
      <4> QED
        BY <2>4, <4>3, <4>4 DEF HandlePublished, Published, feedTables
    <3> QED
      BY <3>2, <3>3
  <2>5. ASSUME NEW w \in FanoutWorkers, NEW m \in msgs, HandleBatch(w, m) PROVE NothingLost'
    BY <2>5 DEF HandleBatch, AckBatch, feedTables, feedKeys
  <2>6. ASSUME NEW w \in FanoutWorkers, NEW m \in msgs, FanoutFails(w, m) PROVE NothingLost'
    BY <2>6 DEF FanoutFails, feedTables
  <2>7. ASSUME NEW w \in FanoutWorkers, FilterActive(w) PROVE NothingLost'
    BY <2>7 DEF FilterActive, AckBatch, feedTables, feedKeys
  <2>8. ASSUME NEW w \in FanoutWorkers, Push(w) PROVE NothingLost'
    BY <2>8 DEF Push, AckBatch, feedTables
  <2>9. ASSUME NEW w \in FanoutWorkers, FanoutCrash(w) PROVE NothingLost'
    BY <2>9 DEF FanoutCrash, feedTables, feedKeys
  <2>10. ASSUME NEW a \in Movers, SocialTx(a) PROVE NothingLost'
    BY <2>10 DEF SocialTx, feedKeys
  <2>11. CASE DeleteList
    BY <2>11 DEF DeleteList, feedTables
  <2>12. CASE ClearActive
    BY <2>12 DEF ClearActive, feedTables
  <2>13. ASSUME NEW r \in Readers, LoadHit(r) PROVE NothingLost'
    BY <2>13 DEF LoadHit, WithList, Idle, feedTables, fanoutVars, feedKeys, FeedTypeOK
  <2>14. ASSUME NEW r \in Readers, LoadMiss(r) PROVE NothingLost'
    BY <2>14 DEF LoadMiss, feedTables, fanoutVars, feedKeys, FeedTypeOK
  <2>15. ASSUME NEW r \in Readers, SetList(r) PROVE NothingLost'
    BY <2>15 DEF SetList, WithList, Idle, feedTables, fanoutVars, FeedTypeOK
  <2>16. ASSUME NEW r \in Readers, CheckActive(r) PROVE NothingLost'
    BY <2>16 DEF CheckActive, ReadGoto, feedTables, fanoutVars, feedKeys, FeedTypeOK
  <2>17. ASSUME NEW r \in Readers, MarkActive(r) PROVE NothingLost'
    BY <2>17 DEF MarkActive, ReadGoto, feedTables, fanoutVars, FeedTypeOK
  <2>18. ASSUME NEW r \in Readers, QueryFollowed(r) PROVE NothingLost'
    BY <2>18 DEF QueryFollowed, feedTables, fanoutVars, feedKeys, FeedTypeOK
  <2>19. ASSUME NEW r \in Readers, Fill(r) PROVE NothingLost'
    BY <2>19 DEF Fill, feedTables, fanoutVars, FeedTypeOK
  <2>20. ASSUME NEW r \in Readers, NEW c \in Videos, ListCandidates(r, c) PROVE NothingLost'
    BY <2>20 DEF ListCandidates, feedTables, fanoutVars, feedKeys, FeedTypeOK
  <2>21. ASSUME NEW r \in Readers, Filter(r) PROVE NothingLost'
    BY <2>21 DEF Filter, Idle, feedTables, fanoutVars, feedKeys, FeedTypeOK
  <2>22. ASSUME NEW r \in Readers, RemoveStale(r) PROVE NothingLost'
    BY <2>22 DEF RemoveStale, Idle, feedTables, fanoutVars, FeedTypeOK
  <2>23. ASSUME NEW r \in Readers, ReadFails(r) PROVE NothingLost'
    BY <2>23 DEF ReadFails, Idle, feedTables, fanoutVars, feedKeys, FeedTypeOK
  <2>24. CASE ActiveExpires
    BY <2>24 DEF ActiveExpires
  <2>25. CASE ListExpires
    BY <2>25 DEF ListExpires, feedTables, fanoutVars
  <2>26. CASE UNCHANGED feedVars
    BY <2>26 DEF feedVars
  <2> HIDE DEF NothingLost, Repairing, Missing, Followed, Coming
  <2> QED
    BY <2>1, <2>2, <2>3, <2>4, <2>5, <2>6, <2>7, <2>8, <2>9, <2>10, <2>11, <2>12, <2>13,
       <2>14, <2>15, <2>16, <2>17, <2>18, <2>19, <2>20, <2>21, <2>22, <2>23, <2>24, <2>25,
       <2>26
    DEF FeedNext, AuthorStep, FanoutStep, SocialStep, ReadStep
<1> QED
  BY <1>1, <1>2, FollowTypeInvariant, PTL DEF FeedSafety

-----------------------------------------------------------------------------
\* A snapshot without time to live has its maker, or was left behind.
HotInv ==
    /\ DOMAIN snapshot = Moments /\ DOMAIN hotClient = HotClients
    /\ \A c \in HotClients : DOMAIN hotClient[c] = DOMAIN HotResting
    /\ SnapshotsExpire

\* The time to live is the last thing a snapshot is given, and whoever made it
\* is still about to give it, or failed there (popularity/service.go:104-141).
THEOREM SnapshotsDoExpire == HotSafety => []SnapshotsExpire
<1>1. HotInit => HotInv
  BY DEF HotInit, HotInv, SnapshotsExpire
<1>2. HotInv /\ [HotNext]_hotVars => HotInv'
  <2> SUFFICES ASSUME HotInv, [HotNext]_hotVars PROVE HotInv'
    OBVIOUS
  <2> USE DEF HotInv, SnapshotsExpire, MakerAt, hotStore
  <2>1. ASSUME ForgetWindow \/ ForgetPage \/ (\E v \in HotVideos : Record(v)) PROVE HotInv'
    BY <2>1, ZenonT(40) DEF ForgetWindow, ForgetPage, Record
  <2>2. ASSUME NEW a \in Moments, ForgetSnapshot(a) PROVE HotInv'
    BY <2>2 DEF ForgetSnapshot
  <2>3. ASSUME NEW c \in HotClients, Ask(c) \/ AskCached(c) \/ StartOver(c) PROVE HotInv'
    BY <2>3 DEF Ask, AskCached, StartOver, HotAt, HotGoes, Ensures, Got, HotResting
  <2>4. ASSUME NEW c \in HotClients, Exists(c) PROVE HotInv'
    BY <2>4 DEF Exists, HotAt, HotGoes
  <2>5. ASSUME NEW c \in HotClients, Unite(c) PROVE HotInv'
    <3>1. /\ \A d \in HotClients : /\ hotClient'[d].at = hotClient[d].at
                                   /\ DOMAIN hotClient'[d] = DOMAIN hotClient[d]
                                   /\ d # c => hotClient'[d].pc = hotClient[d].pc
          /\ hotClient'[c].pc = "card" /\ DOMAIN hotClient' = HotClients
      <4> DEFINE new(d) == [i \in DOMAIN hotClient[d].walk |->
                               IF hotClient[d].walk[i].asOf = hotClient[c].at
                                 THEN [hotClient[d].walk[i] EXCEPT !.old = TRUE] ELSE hotClient[d].walk[i]]
      <4>1. hotClient' = [d \in HotClients |->
              [hotClient[d] EXCEPT !.pc = IF d = c THEN "card" ELSE @, !.walk = new(d)]]
        BY <2>5, Zenon DEF Unite
      <4>2. \A d \in HotClients : {"pc", "at"} \subseteq DOMAIN hotClient[d]
        BY DEF HotResting
      <4> HIDE DEF new
      <4> QED
        BY <4>1, <4>2
    <3>2. /\ \A b \in Moments : b # hotClient[c].at =>
               snapshot'[b] = snapshot[b] /\ (b \in abandoned => b \in abandoned')
          /\ DOMAIN snapshot' = Moments
      BY <2>5 DEF Unite
    <3>3. hotClient[c].pc \notin MakerAt
      BY <2>5 DEF Unite, HotAt
    <3>4. ASSUME NEW b \in Moments, snapshot'[b] # NoSnapshot, ~snapshot'[b].ttl,
                 b \notin abandoned', b # hotClient[c].at
          PROVE  \E d \in HotClients : hotClient'[d].pc \in MakerAt /\ hotClient'[d].at = b
      <4>1. PICK d \in HotClients : hotClient[d].pc \in MakerAt /\ hotClient[d].at = b
        BY <3>2, <3>4
      <4>2. d # c
        BY <3>3, <4>1
      <4> QED
        BY <3>1, <4>1, <4>2
    <3>5. SnapshotsExpire'
      BY <3>1, <3>4
    <3> QED
      BY <3>1, <3>2, <3>5
  <2>6. ASSUME NEW c \in HotClients, Card(c) PROVE HotInv'
    BY <2>6 DEF Card, HotAt, HotGoes
  <2>7. ASSUME NEW c \in HotClients, Settle(c) PROVE HotInv'
    BY <2>7 DEF Settle, HotAt, HotGoes
  <2>8. ASSUME NEW c \in HotClients, Expire(c) PROVE HotInv'
    BY <2>8 DEF Expire, HotAt, HotGoes
  <2>9. ASSUME NEW c \in HotClients, ReadSize(c) \/ ReadPage(c) \/ ReadPersisted(c) PROVE HotInv'
    <3>1. hotClient[c].pc \notin MakerAt /\ UNCHANGED <<snapshot, abandoned>>
      BY <2>9 DEF ReadSize, ReadPage, ReadPersisted, HotAt
    <3>2. /\ DOMAIN hotClient' = HotClients /\ DOMAIN hotClient'[c] = DOMAIN HotResting
          /\ \A d \in HotClients : d # c => hotClient'[d] = hotClient[d]
      <4>1. CASE ReadSize(c)
        BY <4>1 DEF ReadSize, HotGoes, Ensures
      <4>2. CASE ReadPage(c)
        BY <4>2 DEF ReadPage, HotGoes, Answer, Got
      <4>3. CASE ReadPersisted(c)
        BY <4>3 DEF ReadPersisted, Answer, Got
      <4> QED
        BY <2>9, <4>1, <4>2, <4>3
    <3> QED
      BY <3>1, <3>2
  <2>10. ASSUME NEW c \in HotClients, NEW pc \in {"persisted", "rest"}, SnapshotFails(c, pc)
         PROVE  HotInv'
    BY <2>10 DEF SnapshotFails, HotGoes
  <2>11. CASE UNCHANGED hotVars
    BY <2>11 DEF hotVars
  <2> QED
    BY <2>1, <2>2, <2>3, <2>4, <2>5, <2>6, <2>7, <2>8, <2>9, <2>10, <2>11 DEF HotNext
<1>3. HotInv => SnapshotsExpire
  BY DEF HotInv
<1> QED
  BY <1>1, <1>2, <1>3, PTL DEF HotSafety

-----------------------------------------------------------------------------
\* What is known of rankings and of walks.
IsWalk(w) == w \in Seq(Page)
OneAsOf(w) == \A i, j \in 1..Len(w) : i < j => w[j].asOf \in {0, w[i].asOf}
LastAsOf(w) == IF w = <<>> THEN 0 ELSE w[Len(w)].asOf

\* A ranking places each of its videos once.
LEMMA RankingFacts ==
    ASSUME NEW r \in Rankings
    PROVE  /\ Len(r) \in Nat /\ DOMAIN r = 1..Len(r) /\ \A i \in 1..Len(r) : r[i] \in HotVideos
           /\ \A i, j \in 1..Len(r) : r[i] = r[j] => i = j
<1>1. PICK n \in 0..Cardinality(HotVideos) : r \in [1..n -> HotVideos] /\ IsInjective(r)
  BY DEF Rankings
<1>2. n \in Nat
  OBVIOUS
<1>3. r \in Seq(HotVideos) /\ Len(r) = n
  BY <1>1, <1>2
<1> QED BY <1>1, <1>2, <1>3 DEF IsInjective

\* The empty ranking is one: no video was recorded yet.
LEMMA NobodyRanked == <<>> \in Rankings
<1>1. 0 \in 0..Cardinality(HotVideos)
  BY HotAssumption, FS_CardinalityType
<1>2. <<>> \in [1..0 -> HotVideos] /\ IsInjective(<<>>)
  BY DEF IsInjective
<1> QED BY <1>1, <1>2 DEF Rankings

\* A walk as the sequence of its pages.
LEMMA WalkFacts ==
    ASSUME NEW w, IsWalk(w)
    PROVE  /\ Len(w) \in Nat /\ DOMAIN w = 1..Len(w) /\ \A i \in 1..Len(w) : w[i] \in Page
           /\ w = <<>> <=> Len(w) = 0
           /\ Len(w) = 0 => LastAsOf(w) = 0
           /\ Len(w) # 0 => LastAsOf(w) = w[Len(w)].asOf
  BY DEF IsWalk, LastAsOf

\* A walk without a page is of one moment.
LEMMA EmptyWalk == IsWalk(<<>>) /\ OneAsOf(<<>>) /\ Len(<<>>) = 0
  BY DEF IsWalk, OneAsOf

\* A page of the moment of the walk, or an old one, keeps the walk of one moment.
LEMMA LongerWalk ==
    ASSUME NEW w, IsWalk(w), OneAsOf(w), NEW x \in Page,
           Len(w) # 0 => x.asOf \in {0, LastAsOf(w)}
    PROVE  /\ IsWalk(Append(w, x)) /\ OneAsOf(Append(w, x)) /\ Len(Append(w, x)) = Len(w) + 1
           /\ \A i \in 1..Len(w) : Append(w, x)[i] = w[i]
           /\ Append(w, x)[Len(w) + 1] = x
<1>1. /\ IsWalk(Append(w, x)) /\ Len(Append(w, x)) = Len(w) + 1
      /\ \A i \in 1..Len(w) : Append(w, x)[i] = w[i]
      /\ Append(w, x)[Len(w) + 1] = x
  BY DEF IsWalk
<1>2. Len(w) \in Nat /\ (Len(w) # 0 => LastAsOf(w) = w[Len(w)].asOf)
  BY WalkFacts
<1>3. OneAsOf(Append(w, x))
  <2> SUFFICES ASSUME NEW i \in 1..(Len(w) + 1), NEW j \in 1..(Len(w) + 1), i < j
               PROVE  Append(w, x)[j].asOf \in {0, Append(w, x)[i].asOf}
    BY <1>1 DEF OneAsOf
  <2>1. i \in 1..Len(w) /\ Append(w, x)[i] = w[i]
    BY <1>1, <1>2
  <2>2. CASE j = Len(w) + 1
    <3>1. x.asOf \in {0, w[Len(w)].asOf} /\ Append(w, x)[j] = x
      BY <1>1, <1>2, <2>1, <2>2
    <3>2. i = Len(w) \/ w[Len(w)].asOf \in {0, w[i].asOf}
      BY <1>2, <2>1 DEF OneAsOf
    <3> QED BY <2>1, <3>1, <3>2
  <2>3. CASE j # Len(w) + 1
    <3>1. j \in 1..Len(w) /\ Append(w, x)[j] = w[j]
      BY <1>1, <1>2, <2>3
    <3> QED BY <2>1, <3>1 DEF OneAsOf
  <2> QED BY <2>2, <2>3
<1> QED BY <1>1, <1>3
-----------------------------------------------------------------------------
Working(c) == hotClient[c].pc \notin {"rest", "persisted"}

\* Whoever asks for a further page of a ranking asks for the one it has.
ClientsOK ==
    /\ DOMAIN hotClient = HotClients
    /\ \A c \in HotClients :
         /\ DOMAIN hotClient[c] = {"pc", "why", "at", "walk"}
         /\ IsWalk(hotClient[c].walk) /\ OneAsOf(hotClient[c].walk)
         /\ Working(c) =>
              /\ hotClient[c].at \in Moments
              /\ Len(hotClient[c].walk) # 0 =>
                   hotClient[c].why = "page" /\ hotClient[c].at = LastAsOf(hotClient[c].walk)

StoreOK ==
    /\ window \in Rankings
    /\ DOMAIN snapshot = Moments
    /\ \A a \in Moments : snapshot[a] # NoSnapshot =>
         DOMAIN snapshot[a] = {"of", "ttl"} /\ snapshot[a].of \in Rankings

CacheOK ==
    \A p \in hotPages :
        /\ DOMAIN p = {"of", "page"} /\ p.page \in Page /\ p.of \in Nat \X Nat
        /\ p.of[2] # 0 => p.page.asOf \in {0, p.of[1]}

\* Page x is the i-th of a walk, or the cached i-th page, and its ranking is
\* still the one of its moment.
Held(i, x) ==
    \/ \E c \in HotClients : i \in 1..Len(hotClient[c].walk) /\ hotClient[c].walk[i] = x
    \/ \E p \in hotPages : i = p.of[2] + 1 /\ p.page = x
Current(i, x) == Held(i, x) /\ x.asOf # 0 /\ ~x.old /\ x.video # 0

\* Current pages of a moment at different places show different videos.
PagesApart ==
    \A i, j \in Nat : \A x, y \in Page :
        Current(i, x) /\ Current(j, y) /\ x.asOf = y.asOf /\ i # j => x.video # y.video
\* They are the snapshot's, while it is there.
PagesMatch ==
    \A i \in Nat : \A x \in Page :
        Current(i, x) /\ snapshot[x.asOf] # NoSnapshot =>
            i \in DOMAIN snapshot[x.asOf].of /\ snapshot[x.asOf].of[i] = x.video

RankInv == ClientsOK /\ StoreOK /\ CacheOK /\ PagesApart /\ PagesMatch

\* Moments change only snapshots they take away, and no new page is current.
LEMMA PagesStay ==
    ASSUME RankInv, ClientsOK', StoreOK', CacheOK',
           \A i \in Nat : \A x \in Page : Current(i, x)' => Current(i, x),
           \A i \in Nat : \A x \in Page : Current(i, x)' /\ snapshot'[x.asOf] # NoSnapshot =>
              snapshot[x.asOf] # NoSnapshot /\ snapshot'[x.asOf].of = snapshot[x.asOf].of
    PROVE  RankInv'
<1>1. PagesApart'
  BY DEF RankInv, PagesApart
<1>2. PagesMatch'
  BY DEF RankInv, PagesMatch
<1> QED BY <1>1, <1>2 DEF RankInv

\* A step of one client that leaves its walk.
LEMMA MoveKeeps ==
    ASSUME RankInv, StoreOK', NEW c \in HotClients,
           DOMAIN hotClient' = HotClients, \A d \in HotClients \ {c} : hotClient'[d] = hotClient[d],
           DOMAIN hotClient'[c] = {"pc", "why", "at", "walk"},
           hotClient'[c].walk = hotClient[c].walk,
           hotClient'[c].pc \notin {"rest", "persisted"} =>
              /\ hotClient'[c].at \in Moments
              /\ Len(hotClient[c].walk) # 0 =>
                   hotClient'[c].why = "page" /\ hotClient'[c].at = LastAsOf(hotClient[c].walk),
           hotPages' = hotPages,
           \A a \in Moments : snapshot'[a] # NoSnapshot =>
              snapshot[a] # NoSnapshot /\ snapshot'[a].of = snapshot[a].of
    PROVE  RankInv'
<1>1. ClientsOK'
  <2> SUFFICES ASSUME NEW d \in HotClients
        PROVE  /\ DOMAIN hotClient'[d] = {"pc", "why", "at", "walk"}
               /\ IsWalk(hotClient'[d].walk) /\ OneAsOf(hotClient'[d].walk)
               /\ Working(d)' =>
                    /\ hotClient'[d].at \in Moments
                    /\ Len(hotClient'[d].walk) # 0 =>
                         hotClient'[d].why = "page" /\ hotClient'[d].at = LastAsOf(hotClient'[d].walk)
    BY DEF ClientsOK
  <2>1. CASE d = c
    <3>1. IsWalk(hotClient[c].walk) /\ OneAsOf(hotClient[c].walk)
      BY DEF RankInv, ClientsOK
    <3> QED BY <2>1, <3>1 DEF Working
  <2>2. CASE d # c
    <3>1. hotClient'[d] = hotClient[d]
      BY <2>2
    <3> QED BY <3>1 DEF RankInv, ClientsOK, Working
  <2> QED BY <2>1, <2>2
<1>2. CacheOK'
  BY DEF RankInv, CacheOK
<1>3. \A d \in HotClients : hotClient'[d].walk = hotClient[d].walk
  OBVIOUS
<1>4. \A i, x : Current(i, x)' => Current(i, x)
  BY <1>3 DEF Current, Held
<1>5. \A i \in Nat : \A x \in Page : Current(i, x)' => x.asOf \in Moments
  BY HotAssumption DEF Current, Page, Moments
<1> QED BY <1>1, <1>2, <1>4, <1>5, PagesStay DEF RankInv

\* A page that belongs where it is put.
LEMMA GotKeeps ==
    ASSUME RankInv, NEW c \in HotClients, NEW page \in Page, Got(c, page),
           hotPages' \subseteq hotPages \union {[of |-> Asked(c), page |-> page]},
           UNCHANGED <<window, snapshot>>,
           Len(hotClient[c].walk) # 0 => page.asOf \in {0, LastAsOf(hotClient[c].walk)},
           page.asOf # 0 /\ ~page.old /\ page.video # 0 =>
             /\ \A j \in Nat : \A y \in Page :
                  Current(j, y) /\ y.asOf = page.asOf /\ j # Len(hotClient[c].walk) + 1 => y.video # page.video
             /\ snapshot[page.asOf] # NoSnapshot =>
                  /\ Len(hotClient[c].walk) + 1 \in DOMAIN snapshot[page.asOf].of
                  /\ snapshot[page.asOf].of[Len(hotClient[c].walk) + 1] = page.video
    PROVE  RankInv'
<1> DEFINE w == hotClient[c].walk
           place == Len(w) + 1
           longer == Append(w, page)
           new == [of |-> Asked(c), page |-> page]
<1>1. IsWalk(w) /\ OneAsOf(w) /\ Len(w) \in Nat /\ place \in Nat /\ place # 0
  BY WalkFacts DEF RankInv, ClientsOK
<1>2. hotClient' = [hotClient EXCEPT ![c] = [HotResting EXCEPT !.walk = longer]]
  BY DEF Got, Walk
<1>3. /\ IsWalk(longer) /\ OneAsOf(longer) /\ Len(longer) = place
      /\ \A i \in 1..Len(w) : longer[i] = w[i]
      /\ longer[place] = page
  BY <1>1, LongerWalk
<1>4. new.of[2] = Len(w) /\ new.of = <<LastAsOf(w), Len(w)>> /\ new.page = page /\ DOMAIN new = {"of", "page"}
  BY DEF Asked, AskedAsOf, Walk, LastAsOf
<1>5. LastAsOf(w) \in Nat
  <2>1. CASE Len(w) = 0
    BY <1>1, <2>1, WalkFacts
  <2>2. CASE Len(w) # 0
    <3>1. LastAsOf(w) = w[Len(w)].asOf /\ w[Len(w)] \in Page
      BY <1>1, <2>2, WalkFacts
    <3> QED BY <3>1, HotAssumption DEF Page
  <2> QED BY <2>1, <2>2
<1> HIDE DEF w, longer, new
<1>6. /\ DOMAIN hotClient' = HotClients /\ \A d \in HotClients \ {c} : hotClient'[d] = hotClient[d]
      /\ DOMAIN hotClient'[c] = {"pc", "why", "at", "walk"} /\ hotClient'[c].pc = "rest"
      /\ hotClient'[c].walk = longer
  BY <1>2 DEF RankInv, ClientsOK, HotResting
<1>7. ClientsOK'
  <2> SUFFICES ASSUME NEW d \in HotClients
        PROVE  /\ DOMAIN hotClient'[d] = {"pc", "why", "at", "walk"}
               /\ IsWalk(hotClient'[d].walk) /\ OneAsOf(hotClient'[d].walk)
               /\ Working(d)' =>
                    /\ hotClient'[d].at \in Moments
                    /\ Len(hotClient'[d].walk) # 0 =>
                         hotClient'[d].why = "page" /\ hotClient'[d].at = LastAsOf(hotClient'[d].walk)
    BY <1>6 DEF ClientsOK
  <2>1. CASE d = c
    BY <1>3, <1>6, <2>1 DEF Working
  <2>2. CASE d # c
    <3>1. hotClient'[d] = hotClient[d]
      BY <1>6, <2>2
    <3> QED BY <3>1 DEF RankInv, ClientsOK, Working
  <2> QED BY <2>1, <2>2
<1>8. StoreOK'
  BY DEF RankInv, StoreOK
<1>9. hotPages' \subseteq hotPages \union {new}
  BY DEF new
<1>10. CacheOK'
  <2> SUFFICES ASSUME NEW p \in hotPages'
               PROVE  /\ DOMAIN p = {"of", "page"} /\ p.page \in Page /\ p.of \in Nat \X Nat
                      /\ p.of[2] # 0 => p.page.asOf \in {0, p.of[1]}
    BY DEF CacheOK
  <2>1. CASE p \in hotPages
    BY <2>1 DEF RankInv, CacheOK
  <2>2. CASE p = new
    <3>1. <<LastAsOf(w), Len(w)>> \in Nat \X Nat
      BY <1>1, <1>5
    <3>2. Len(w) # 0 => page.asOf \in {0, LastAsOf(w)}
      BY DEF w
    <3> QED BY <1>4, <2>2, <3>1, <3>2
  <2> QED BY <1>9, <2>1, <2>2
<1>11. ASSUME NEW i, NEW x, Held(i, x)', ~(i = place /\ x = page)  PROVE Held(i, x)
  <2>1. CASE \E d \in HotClients : i \in 1..Len(hotClient'[d].walk) /\ hotClient'[d].walk[i] = x
    <3>1. PICK d \in HotClients : i \in 1..Len(hotClient'[d].walk) /\ hotClient'[d].walk[i] = x
      BY <2>1
    <3>2. CASE d = c
      <4>1. i \in 1..place /\ longer[i] = x /\ i # place
        BY <1>3, <1>6, <1>11, <3>1, <3>2
      <4>2. i \in 1..Len(w) /\ w[i] = x
        BY <1>1, <1>3, <4>1
      <4> QED BY <4>2 DEF Held, w
    <3>3. CASE d # c
      <4>1. hotClient'[d] = hotClient[d]
        BY <1>6, <3>3
      <4> QED BY <3>1, <4>1 DEF Held
    <3> QED BY <3>2, <3>3
  <2>2. CASE \E p \in hotPages' : i = p.of[2] + 1 /\ p.page = x
    <3>1. PICK p \in hotPages' : i = p.of[2] + 1 /\ p.page = x
      BY <2>2
    <3>2. p # new
      BY <1>4, <1>11, <3>1
    <3>3. p \in hotPages
      BY <1>9, <3>2
    <3> QED BY <3>1, <3>3 DEF Held
  <2> QED BY <1>11, <2>1, <2>2 DEF Held
<1>12. PagesApart'
  <2> SUFFICES ASSUME NEW i \in Nat, NEW j \in Nat, NEW x \in Page, NEW y \in Page,
                      Current(i, x)', Current(j, y)', x.asOf = y.asOf, i # j
               PROVE  x.video # y.video
    BY DEF PagesApart
  <2>0. \A k, z : Current(k, z) <=> Held(k, z) /\ z.asOf # 0 /\ ~z.old /\ z.video # 0
    BY DEF Current
  <2>1. /\ Held(i, x)' /\ x.asOf # 0 /\ ~x.old /\ x.video # 0
        /\ Held(j, y)' /\ y.asOf # 0 /\ ~y.old /\ y.video # 0
    BY DEF Current
  <2>2. CASE i = place /\ x = page
    <3>1. Current(j, y)
      BY <1>11, <2>0, <2>1, <2>2
    <3> QED BY <2>1, <2>2, <3>1 DEF w
  <2>3. CASE j = place /\ y = page
    <3>1. Current(i, x)
      BY <1>11, <2>0, <2>1, <2>3
    <3> QED BY <2>1, <2>3, <3>1 DEF w
  <2>4. CASE ~(i = place /\ x = page) /\ ~(j = place /\ y = page)
    <3>1. Current(i, x) /\ Current(j, y)
      BY <1>11, <2>0, <2>1, <2>4
    <3> QED BY <3>1 DEF RankInv, PagesApart
  <2> QED BY <2>2, <2>3, <2>4
<1>13. PagesMatch'
  <2> SUFFICES ASSUME NEW i \in Nat, NEW x \in Page, Current(i, x)', snapshot[x.asOf] # NoSnapshot
               PROVE  i \in DOMAIN snapshot[x.asOf].of /\ snapshot[x.asOf].of[i] = x.video
    BY DEF PagesMatch
  <2>1. Held(i, x)' /\ x.asOf # 0 /\ ~x.old /\ x.video # 0
    BY DEF Current
  <2>2. CASE i = place /\ x = page
    BY <2>1, <2>2 DEF w
  <2>3. CASE ~(i = place /\ x = page)
    <3>1. Current(i, x)
      BY <1>11, <2>1, <2>3 DEF Current
    <3> QED BY <3>1 DEF RankInv, PagesMatch
  <2> QED BY <2>2, <2>3
<1> QED BY <1>7, <1>8, <1>10, <1>12, <1>13 DEF RankInv

\* A page read from a snapshot is the snapshot's at its place.
LEMMA ReadKeeps ==
    ASSUME RankInv, NEW c \in HotClients, ReadPage(c)
    PROVE  RankInv'
<1> DEFINE a == hotClient[c].at
           w == hotClient[c].walk
           s == snapshot[a]
           place == Len(w) + 1
           v == IF s # NoSnapshot /\ place <= Len(s.of) THEN s.of[place] ELSE 0
<1>1. /\ hotClient[c].pc = "read" /\ UNCHANGED <<window, snapshot, abandoned>>
      /\ \E playable \in BOOLEAN :
           IF v = 0 \/ (w = <<>> /\ ~playable)
           THEN hotClient' = [hotClient EXCEPT ![c].pc = "persisted"] /\ hotPages' = hotPages
           ELSE Answer(c, [asOf |-> a, video |-> IF playable THEN v ELSE 0, old |-> FALSE])
  BY DEF ReadPage, HotAt, HotGoes, hotStore, Walk
<1>2. /\ IsWalk(w) /\ Len(w) \in Nat /\ place \in Nat \ {0} /\ DOMAIN hotClient[c] = {"pc", "why", "at", "walk"}
      /\ a \in Moments /\ (Len(w) # 0 => a = LastAsOf(w)) /\ DOMAIN hotClient = HotClients
  BY <1>1, WalkFacts DEF RankInv, ClientsOK, Working
<1>3. s # NoSnapshot => s.of \in Rankings
  BY <1>2 DEF RankInv, StoreOK
<1>4. v # 0 => s # NoSnapshot /\ place \in 1..Len(s.of) /\ v = s.of[place]
  <2>1. s # NoSnapshot => Len(s.of) \in Nat
    BY <1>3, RankingFacts
  <2> HIDE DEF s, place
  <2> QED BY <1>2, <2>1
<1> HIDE DEF a, w, s, v
<1>5. PICK playable \in BOOLEAN :
        IF v = 0 \/ (w = <<>> /\ ~playable)
        THEN hotClient' = [hotClient EXCEPT ![c].pc = "persisted"] /\ hotPages' = hotPages
        ELSE Answer(c, [asOf |-> a, video |-> IF playable THEN v ELSE 0, old |-> FALSE])
  BY <1>1
<1>6. CASE v = 0 \/ (w = <<>> /\ ~playable)
  <2>1. hotClient' = [hotClient EXCEPT ![c].pc = "persisted"] /\ hotPages' = hotPages
    BY <1>5, <1>6, Zenon
  <2>2. StoreOK'
    BY <1>1 DEF RankInv, StoreOK
  <2>3. /\ DOMAIN hotClient' = HotClients /\ \A d \in HotClients \ {c} : hotClient'[d] = hotClient[d]
        /\ DOMAIN hotClient'[c] = {"pc", "why", "at", "walk"} /\ hotClient'[c].pc = "persisted"
        /\ hotClient'[c].walk = hotClient[c].walk
    BY <1>2, <2>1
  <2> QED BY <1>1, <2>1, <2>2, <2>3, MoveKeeps
<1>7. CASE ~(v = 0 \/ (w = <<>> /\ ~playable))
  <2> DEFINE u == IF playable THEN v ELSE 0
             page == [asOf |-> a, video |-> u, old |-> FALSE]
  <2>1. Answer(c, page)
    BY <1>5, <1>7, Zenon
  <2>2. v \in HotVideos /\ s # NoSnapshot /\ place \in 1..Len(s.of) /\ v = s.of[place]
    <3>1. s # NoSnapshot /\ place \in 1..Len(s.of) /\ v = s.of[place]
      BY <1>4, <1>7
    <3>2. s.of[place] \in HotVideos
      <4> HIDE DEF place
      <4> QED BY <1>3, <3>1, RankingFacts
    <3> QED BY <3>1, <3>2
  <2>3. page \in Page /\ page.asOf = a /\ page.video = u
    BY <1>2, <2>2, HotAssumption DEF Page, Moments
  <2>4. Got(c, page) /\ hotPages' \subseteq hotPages \union {[of |-> Asked(c), page |-> page]}
    BY <2>1 DEF Answer
  <2>5. Len(w) # 0 => page.asOf \in {0, LastAsOf(w)}
    BY <1>2, <2>3
  <2>6. u # 0 => u = v
    OBVIOUS
  <2> HIDE DEF page, u
  <2>7. ASSUME page.asOf # 0, ~page.old, page.video # 0
        PROVE  /\ \A j \in Nat : \A y \in Page :
                    Current(j, y) /\ y.asOf = page.asOf /\ j # Len(w) + 1 => y.video # page.video
               /\ snapshot[page.asOf] # NoSnapshot =>
                    /\ Len(w) + 1 \in DOMAIN snapshot[page.asOf].of
                    /\ snapshot[page.asOf].of[Len(w) + 1] = page.video
    <3>1. page.video = s.of[place] /\ page.asOf = a /\ snapshot[a] = s
      BY <2>2, <2>3, <2>6, <2>7 DEF s
    <3>2. DOMAIN s.of = 1..Len(s.of) /\ \A i, j \in 1..Len(s.of) : s.of[i] = s.of[j] => i = j
      BY <1>3, <2>2, RankingFacts
    <3>3. ASSUME NEW j \in Nat, NEW y \in Page, Current(j, y), y.asOf = page.asOf, j # place
          PROVE  y.video # page.video
      <4>1. j \in DOMAIN s.of /\ s.of[j] = y.video
        BY <2>2, <3>1, <3>3 DEF RankInv, PagesMatch
      <4> QED BY <2>2, <3>1, <3>2, <3>3, <4>1
    <3> QED BY <2>2, <3>1, <3>2, <3>3
  <2>8. UNCHANGED <<window, snapshot>>
    BY <1>1
  <2> QED BY <2>3, <2>4, <2>5, <2>7, <2>8, GotKeeps DEF w
<1> QED BY <1>6, <1>7

\* What the snapshot is made anew of marks every page of the old one.
LEMMA UniteKeeps ==
    ASSUME RankInv, NEW c \in HotClients, Unite(c)
    PROVE  RankInv'
<1> DEFINE a == hotClient[c].at
           marked(x) == IF x.asOf = a THEN [x EXCEPT !.old = TRUE] ELSE x
           walk(d) == [i \in DOMAIN hotClient[d].walk |-> marked(hotClient[d].walk[i])]
<1>1. /\ hotClient[c].pc = "union"
      /\ hotClient' = [d \in HotClients |->
           [hotClient[d] EXCEPT !.pc = IF d = c THEN "card" ELSE @, !.walk = walk(d)]]
      /\ hotPages' = {[p EXCEPT !.page = marked(p.page)] : p \in hotPages}
      /\ snapshot' = [snapshot EXCEPT ![a] =
            IF window = <<>> THEN NoSnapshot ELSE [of |-> window, ttl |-> FALSE]]
      /\ window' = window
  BY DEF Unite, HotAt
<1>2. a \in Moments
  BY <1>1 DEF RankInv, ClientsOK, Working
<1>3. \A x \in Page : /\ marked(x) \in Page /\ marked(x).asOf = x.asOf /\ marked(x).video = x.video
                      /\ marked(x).old = (x.old \/ x.asOf = a)
                      /\ ~marked(x).old => marked(x) = x /\ x.asOf # a
  BY DEF Page
<1>4. ASSUME NEW d \in HotClients
      PROVE  /\ IsWalk(walk(d)) /\ Len(walk(d)) = Len(hotClient[d].walk) /\ Len(walk(d)) \in Nat
             /\ \A i \in 1..Len(walk(d)) : hotClient[d].walk[i] \in Page /\ walk(d)[i] = marked(hotClient[d].walk[i])
  <2> DEFINE w == hotClient[d].walk
             n == Len(w)
  <2>1. n \in Nat /\ DOMAIN w = 1..n /\ \A i \in 1..n : w[i] \in Page
    BY WalkFacts DEF RankInv, ClientsOK
  <2>2. walk(d) = [i \in 1..n |-> marked(w[i])]
    BY <2>1
  <2>3. \A i \in 1..n : marked(w[i]) \in Page
    BY <1>3, <2>1
  <2> HIDE DEF walk, marked, n
  <2>4. walk(d) \in [1..n -> Page] /\ \A i \in 1..n : walk(d)[i] = marked(w[i])
    BY <2>2, <2>3
  <2>5. walk(d) \in Seq(Page) /\ Len(walk(d)) = n
    BY <2>1, <2>4
  <2> HIDE DEF w
  <2>6. IsWalk(walk(d))
    BY <2>5 DEF IsWalk
  <2> QED BY <2>1, <2>4, <2>5, <2>6 DEF w, n
<1>5. \A d \in HotClients : DOMAIN hotClient[d] = {"pc", "why", "at", "walk"}
  BY DEF RankInv, ClientsOK
<1> HIDE DEF walk, marked
<1>6. /\ DOMAIN hotClient' = HotClients
      /\ \A d \in HotClients : /\ DOMAIN hotClient'[d] = {"pc", "why", "at", "walk"}
                               /\ hotClient'[d].walk = walk(d) /\ hotClient'[d].at = hotClient[d].at
                               /\ hotClient'[d].why = hotClient[d].why
                               /\ hotClient'[d].pc = IF d = c THEN "card" ELSE hotClient[d].pc
  BY <1>1, <1>5
<1>7. ClientsOK'
  <2> SUFFICES ASSUME NEW d \in HotClients
        PROVE  /\ DOMAIN hotClient'[d] = {"pc", "why", "at", "walk"}
               /\ IsWalk(hotClient'[d].walk) /\ OneAsOf(hotClient'[d].walk)
               /\ Working(d)' =>
                    /\ hotClient'[d].at \in Moments
                    /\ Len(hotClient'[d].walk) # 0 =>
                         hotClient'[d].why = "page" /\ hotClient'[d].at = LastAsOf(hotClient'[d].walk)
    BY <1>6 DEF ClientsOK
  <2>1. \A i \in 1..Len(walk(d)) : walk(d)[i].asOf = hotClient[d].walk[i].asOf
    BY <1>3, <1>4
  <2>2. OneAsOf(walk(d))
    <3>1. OneAsOf(hotClient[d].walk)
      BY DEF RankInv, ClientsOK
    <3> QED BY <1>4, <2>1, <3>1 DEF OneAsOf
  <2>3. Len(walk(d)) # 0 => LastAsOf(walk(d)) = LastAsOf(hotClient[d].walk)
    <3>1. IsWalk(hotClient[d].walk) /\ IsWalk(walk(d)) /\ Len(walk(d)) = Len(hotClient[d].walk) /\ Len(walk(d)) \in Nat
      BY <1>4 DEF RankInv, ClientsOK
    <3>2. Len(walk(d)) # 0 => /\ LastAsOf(walk(d)) = walk(d)[Len(walk(d))].asOf
                              /\ LastAsOf(hotClient[d].walk) = hotClient[d].walk[Len(walk(d))].asOf
      BY <3>1, WalkFacts
    <3> QED BY <2>1, <3>1, <3>2
  <2>4. Working(d)' => Working(d)
    BY <1>1, <1>6 DEF Working
  <2>5. Working(d) =>
          /\ hotClient[d].at \in Moments
          /\ Len(hotClient[d].walk) # 0 =>
               hotClient[d].why = "page" /\ hotClient[d].at = LastAsOf(hotClient[d].walk)
    BY DEF RankInv, ClientsOK
  <2> QED BY <1>4, <1>6, <2>2, <2>3, <2>4, <2>5
<1>8. StoreOK'
  <2>1. snapshot'[a] # NoSnapshot => DOMAIN snapshot'[a] = {"of", "ttl"} /\ snapshot'[a].of = window
    BY <1>1, <1>2 DEF RankInv, StoreOK
  <2>2. DOMAIN snapshot' = Moments /\ \A b \in Moments \ {a} : snapshot'[b] = snapshot[b]
    BY <1>1 DEF RankInv, StoreOK
  <2> QED BY <1>1, <2>1, <2>2 DEF RankInv, StoreOK
<1>9. ASSUME NEW p \in hotPages'
      PROVE  \E q \in hotPages : /\ p.of = q.of /\ p.page = marked(q.page) /\ DOMAIN p = {"of", "page"}
                                 /\ DOMAIN q = {"of", "page"} /\ q.page \in Page /\ q.of \in Nat \X Nat
                                 /\ q.of[2] # 0 => q.page.asOf \in {0, q.of[1]}
  <2>1. PICK q \in hotPages : p = [q EXCEPT !.page = marked(q.page)]
    BY <1>1
  <2>2. /\ DOMAIN q = {"of", "page"} /\ q.page \in Page /\ q.of \in Nat \X Nat
        /\ q.of[2] # 0 => q.page.asOf \in {0, q.of[1]}
    BY DEF RankInv, CacheOK
  <2>3. p.of = q.of /\ p.page = marked(q.page) /\ DOMAIN p = {"of", "page"}
    BY <2>1, <2>2
  <2> QED BY <2>2, <2>3
<1>10. CacheOK'
  <2> SUFFICES ASSUME NEW p \in hotPages'
               PROVE  /\ DOMAIN p = {"of", "page"} /\ p.page \in Page /\ p.of \in Nat \X Nat
                      /\ p.of[2] # 0 => p.page.asOf \in {0, p.of[1]}
    BY DEF CacheOK
  <2>1. PICK q \in hotPages : /\ p.of = q.of /\ p.page = marked(q.page) /\ DOMAIN p = {"of", "page"}
                              /\ DOMAIN q = {"of", "page"} /\ q.page \in Page /\ q.of \in Nat \X Nat
                              /\ q.of[2] # 0 => q.page.asOf \in {0, q.of[1]}
    BY <1>9
  <2>2. marked(q.page) \in Page /\ marked(q.page).asOf = q.page.asOf
    BY <1>3, <2>1
  <2> QED BY <2>1, <2>2
<1>11. ASSUME NEW i \in Nat, NEW x \in Page, Current(i, x)'
       PROVE  Current(i, x) /\ x.asOf # a
  <2>1. Held(i, x)' /\ x.asOf # 0 /\ ~x.old /\ x.video # 0
    BY <1>11 DEF Current
  <2>2. CASE \E d \in HotClients : i \in 1..Len(hotClient'[d].walk) /\ hotClient'[d].walk[i] = x
    <3>1. PICK d \in HotClients : i \in 1..Len(hotClient'[d].walk) /\ hotClient'[d].walk[i] = x
      BY <2>2
    <3>2. i \in 1..Len(walk(d)) /\ walk(d)[i] = x
      BY <1>6, <3>1
    <3>3. hotClient[d].walk[i] \in Page /\ x = marked(hotClient[d].walk[i]) /\ i \in 1..Len(hotClient[d].walk)
      BY <1>4, <3>2
    <3>4. hotClient[d].walk[i] = x /\ x.asOf # a
      BY <1>3, <2>1, <3>3
    <3> QED BY <2>1, <3>3, <3>4 DEF Current, Held
  <2>3. CASE \E p \in hotPages' : i = p.of[2] + 1 /\ p.page = x
    <3>1. PICK p \in hotPages' : i = p.of[2] + 1 /\ p.page = x
      BY <2>3
    <3>2. PICK q \in hotPages : p.of = q.of /\ p.page = marked(q.page) /\ q.page \in Page
      BY <1>9
    <3>3. q.page = x /\ x.asOf # a
      BY <1>3, <2>1, <3>1, <3>2
    <3> QED BY <2>1, <3>1, <3>2, <3>3 DEF Current, Held
  <2> QED BY <2>1, <2>2, <2>3 DEF Held
<1>12. \A b \in Moments \ {a} : snapshot'[b] = snapshot[b]
  BY <1>1 DEF RankInv, StoreOK
<1>13. \A i \in Nat : \A x \in Page : Current(i, x)' => x.asOf \in Moments
  BY HotAssumption DEF Current, Page, Moments
<1> QED BY <1>7, <1>8, <1>10, <1>11, <1>12, <1>13, PagesStay

\* A step that leaves clients and pages, and takes snapshots away at most.
LEMMA StoreKeeps ==
    ASSUME RankInv, StoreOK', hotClient' = hotClient, hotPages' \subseteq hotPages,
           \A a \in Moments : snapshot'[a] # NoSnapshot =>
              snapshot[a] # NoSnapshot /\ snapshot'[a].of = snapshot[a].of
    PROVE  RankInv'
<1>1. ClientsOK' /\ CacheOK'
  BY DEF RankInv, ClientsOK, CacheOK, Working
<1>2. \A i \in Nat : \A x \in Page : Current(i, x)' => Current(i, x)
  BY DEF Current, Held
<1>3. \A i \in Nat : \A x \in Page : Current(i, x)' => x.asOf \in Moments
  BY HotAssumption DEF Current, Page, Moments
<1> QED BY <1>1, <1>2, <1>3, PagesStay

\* A page from the cache, the same to every request of a moment and place.
LEMMA CachedKeeps ==
    ASSUME RankInv, NEW c \in HotClients, AskCached(c)
    PROVE  RankInv'
<1> DEFINE w == hotClient[c].walk
<1>1. PICK p \in hotPages : p.of = Asked(c) /\ Got(c, p.page)
  BY DEF AskCached
<1>2. UNCHANGED <<window, snapshot, hotPages>>
  BY DEF AskCached, hotStore
<1>3. p.page \in Page /\ (p.of[2] # 0 => p.page.asOf \in {0, p.of[1]}) /\ p.of[2] \in Nat
  BY DEF RankInv, CacheOK
<1>4. Asked(c) = <<LastAsOf(w), Len(w)>>
  BY DEF Asked, AskedAsOf, Walk, LastAsOf
<1>5. Len(w) = p.of[2] /\ LastAsOf(w) = p.of[1]
  BY <1>1, <1>4
<1>6. Len(w) # 0 => p.page.asOf \in {0, LastAsOf(w)}
  BY <1>3, <1>5
<1>7. ASSUME p.page.asOf # 0, ~p.page.old, p.page.video # 0
      PROVE  /\ \A j \in Nat : \A y \in Page :
                  Current(j, y) /\ y.asOf = p.page.asOf /\ j # Len(w) + 1 => y.video # p.page.video
             /\ snapshot[p.page.asOf] # NoSnapshot =>
                  /\ Len(w) + 1 \in DOMAIN snapshot[p.page.asOf].of
                  /\ snapshot[p.page.asOf].of[Len(w) + 1] = p.page.video
  <2> HIDE DEF w
  <2>1. Current(Len(w) + 1, p.page) /\ Len(w) + 1 \in Nat
    BY <1>3, <1>5, <1>7 DEF Current, Held
  <2> QED BY <1>3, <2>1 DEF RankInv, PagesApart, PagesMatch
<1>8. hotPages' \subseteq hotPages \union {[of |-> Asked(c), page |-> p.page]}
  BY <1>2
<1>9. PICK page \in Page : page = p.page
  BY <1>3
<1> HIDE DEF w
<1> QED BY <1>1, <1>2, <1>6, <1>7, <1>8, <1>9, GotKeeps DEF w

\* A page of the persisted score is of no moment, and so of no snapshot.
LEMMA PersistedKeeps ==
    ASSUME RankInv, NEW c \in HotClients, ReadPersisted(c)
    PROVE  RankInv'
<1> DEFINE page == [asOf |-> 0, video |-> 0, old |-> FALSE]
<1>1. page \in Page /\ page.asOf = 0
  BY HotAssumption DEF Page
<1>2. Answer(c, page) /\ UNCHANGED <<window, snapshot>>
  BY DEF ReadPersisted, hotStore
<1> HIDE DEF page
<1>3. Got(c, page) /\ hotPages' \subseteq hotPages \union {[of |-> Asked(c), page |-> page]}
  BY <1>2 DEF Answer
<1> QED BY <1>1, <1>2, <1>3, GotKeeps

\* Clients, snapshots and cached pages stay as RankInv has them.
LEMMA RankHolds == HotSafety => []RankInv
<1>1. HotInit => RankInv
  <2> SUFFICES ASSUME HotInit  PROVE RankInv
    OBVIOUS
  <2>1. \A c \in HotClients : hotClient[c] = HotResting
    BY DEF HotInit
  <2>2. ClientsOK
    <3>1. HotResting.walk = <<>> /\ HotResting.pc = "rest" /\ DOMAIN HotResting = {"pc", "why", "at", "walk"}
      BY DEF HotResting
    <3>2. DOMAIN hotClient = HotClients
      BY DEF HotInit
    <3> QED BY <2>1, <3>1, <3>2, EmptyWalk DEF ClientsOK, Working
  <2>3. <<>> \in Rankings
    BY NobodyRanked
  <2>4. StoreOK /\ CacheOK
    BY <2>3 DEF HotInit, StoreOK, CacheOK
  <2>5. \A i, x : ~Held(i, x)
    <3>1. \A c \in HotClients : Len(hotClient[c].walk) = 0
      BY <2>1, EmptyWalk DEF HotResting
    <3> QED BY <3>1 DEF HotInit, Held
  <2> QED BY <2>2, <2>4, <2>5 DEF RankInv, PagesApart, PagesMatch, Current
<1>2. RankInv /\ [HotNext]_hotVars => RankInv'
  <2> SUFFICES ASSUME RankInv, [HotNext]_hotVars  PROVE RankInv'
    OBVIOUS
  <2>0. StoreOK /\ DOMAIN hotClient = HotClients /\ \A c \in HotClients :
          /\ DOMAIN hotClient[c] = {"pc", "why", "at", "walk"}
          /\ IsWalk(hotClient[c].walk)
          /\ Working(c) =>
              /\ hotClient[c].at \in Moments
              /\ Len(hotClient[c].walk) # 0 =>
                   hotClient[c].why = "page" /\ hotClient[c].at = LastAsOf(hotClient[c].walk)
    BY DEF RankInv, ClientsOK
  <2>1. CASE ForgetWindow \/ ForgetPage
    <3>1. window' \in Rankings
      <4>1. <<>> \in Rankings
        BY NobodyRanked
      <4> QED BY <2>0, <2>1, <4>1 DEF ForgetWindow, ForgetPage, hotStore, StoreOK
    <3>2. snapshot' = snapshot /\ hotClient' = hotClient /\ hotPages' \subseteq hotPages
      BY <2>1 DEF ForgetWindow, ForgetPage, hotStore
    <3>3. StoreOK'
      BY <2>0, <3>1, <3>2 DEF StoreOK
    <3> QED BY <3>2, <3>3, StoreKeeps
  <2>2. ASSUME NEW v \in HotVideos, Record(v)  PROVE RankInv'
    <3>1. window' \in Rankings /\ snapshot' = snapshot /\ hotClient' = hotClient /\ hotPages' = hotPages
      BY <2>2 DEF Record
    <3>2. StoreOK'
      BY <2>0, <3>1 DEF StoreOK
    <3> QED BY <3>1, <3>2, StoreKeeps
  <2>3. ASSUME NEW a \in Moments, ForgetSnapshot(a)  PROVE RankInv'
    <3>1. window' = window /\ snapshot' = [snapshot EXCEPT ![a] = NoSnapshot]
          /\ hotClient' = hotClient /\ hotPages' = hotPages
      BY <2>3 DEF ForgetSnapshot
    <3>2. StoreOK' /\ \A b \in Moments : snapshot'[b] # NoSnapshot => snapshot'[b] = snapshot[b]
      BY <2>0, <3>1 DEF StoreOK
    <3> QED BY <3>1, <3>2, StoreKeeps
  <2>4. ASSUME NEW c \in HotClients, Ask(c)  PROVE RankInv'
    <3>1. UNCHANGED <<window, snapshot, hotPages>>
      BY <2>4 DEF Ask, hotStore
    <3>2. StoreOK'
      BY <2>0, <3>1 DEF StoreOK
    <3>3. AskedAsOf(c) = LastAsOf(hotClient[c].walk) /\ (hotClient[c].walk = <<>> <=> Len(hotClient[c].walk) = 0)
          /\ Walk(c) = hotClient[c].walk
      BY <2>0, WalkFacts DEF AskedAsOf, Walk, LastAsOf
    <3>4. Len(hotClient[c].walk) # 0 /\ LastAsOf(hotClient[c].walk) # 0 => LastAsOf(hotClient[c].walk) \in Moments
      <4>1. IsWalk(hotClient[c].walk)
        BY <2>0
      <4>2. Len(hotClient[c].walk) # 0 => LastAsOf(hotClient[c].walk) \in 0..LastMoment
        <5>1. SUFFICES ASSUME Len(hotClient[c].walk) # 0  PROVE LastAsOf(hotClient[c].walk) \in 0..LastMoment
          OBVIOUS
        <5>2. hotClient[c].walk[Len(hotClient[c].walk)] \in Page
          BY <4>1, <5>1, WalkFacts
        <5>3. LastAsOf(hotClient[c].walk) = hotClient[c].walk[Len(hotClient[c].walk)].asOf
          BY <4>1, <5>1, WalkFacts
        <5> QED BY <5>2, <5>3 DEF Page
      <4> QED BY <4>2, HotAssumption DEF Moments
    <3>5. CASE LastAsOf(hotClient[c].walk) # 0
      <4>1. hotClient' = [hotClient EXCEPT ![c].pc = "exists", ![c].why = "page", ![c].at = LastAsOf(hotClient[c].walk)]
        BY <2>4, <3>3, <3>5 DEF Ask, Ensures
      <4>2. /\ DOMAIN hotClient' = HotClients /\ \A d \in HotClients \ {c} : hotClient'[d] = hotClient[d]
            /\ DOMAIN hotClient'[c] = {"pc", "why", "at", "walk"} /\ hotClient'[c].why = "page"
            /\ hotClient'[c].walk = hotClient[c].walk /\ hotClient'[c].at = LastAsOf(hotClient[c].walk)
        BY <2>0, <4>1
      <4>3. LastAsOf(hotClient[c].walk) \in Moments
        BY <2>0, <3>4, <3>5, WalkFacts
      <4> QED BY <3>1, <3>2, <4>2, <4>3, MoveKeeps
    <3>6. CASE LastAsOf(hotClient[c].walk) = 0 /\ hotClient[c].walk = <<>>
      <4>1. PICK now \in Moments :
              hotClient' = [hotClient EXCEPT ![c].pc = "exists", ![c].why = "size", ![c].at = now]
        BY <2>4, <3>3, <3>6 DEF Ask, Ensures
      <4>2. /\ DOMAIN hotClient' = HotClients /\ \A d \in HotClients \ {c} : hotClient'[d] = hotClient[d]
            /\ DOMAIN hotClient'[c] = {"pc", "why", "at", "walk"}
            /\ hotClient'[c].walk = hotClient[c].walk /\ hotClient'[c].at = now
        BY <2>0, <4>1
      <4>3. Len(hotClient[c].walk) = 0
        BY <3>3, <3>6
      <4> QED BY <3>1, <3>2, <4>2, <4>3, MoveKeeps
    <3>7. CASE LastAsOf(hotClient[c].walk) = 0 /\ hotClient[c].walk # <<>>
      <4>1. hotClient' = [hotClient EXCEPT ![c].pc = "persisted"]
        BY <2>4, <3>3, <3>7 DEF Ask, HotGoes
      <4>2. /\ DOMAIN hotClient' = HotClients /\ \A d \in HotClients \ {c} : hotClient'[d] = hotClient[d]
            /\ DOMAIN hotClient'[c] = {"pc", "why", "at", "walk"} /\ hotClient'[c].pc = "persisted"
            /\ hotClient'[c].walk = hotClient[c].walk
        BY <2>0, <4>1
      <4> QED BY <3>1, <3>2, <4>2, MoveKeeps
    <3> QED BY <3>5, <3>6, <3>7
  <2>5. ASSUME NEW c \in HotClients, AskCached(c)  PROVE RankInv'
    BY <2>5, CachedKeeps
  <2>6. ASSUME NEW c \in HotClients, StartOver(c)  PROVE RankInv'
    <3>1. UNCHANGED <<window, snapshot, hotPages>> /\ hotClient' = [hotClient EXCEPT ![c] = HotResting]
      BY <2>6 DEF StartOver, hotStore
    <3>2. /\ DOMAIN hotClient' = HotClients /\ hotClient'[c] = HotResting
          /\ \A d \in HotClients \ {c} : hotClient'[d] = hotClient[d]
      BY <2>0, <3>1
    <3>3. HotResting.walk = <<>> /\ HotResting.pc = "rest" /\ DOMAIN HotResting = {"pc", "why", "at", "walk"}
      BY DEF HotResting
    <3>4. ClientsOK'
      <4> SUFFICES ASSUME NEW d \in HotClients
            PROVE  /\ DOMAIN hotClient'[d] = {"pc", "why", "at", "walk"}
                   /\ IsWalk(hotClient'[d].walk) /\ OneAsOf(hotClient'[d].walk)
                   /\ Working(d)' =>
                        /\ hotClient'[d].at \in Moments
                        /\ Len(hotClient'[d].walk) # 0 =>
                             hotClient'[d].why = "page" /\ hotClient'[d].at = LastAsOf(hotClient'[d].walk)
        BY <3>2 DEF ClientsOK
      <4>1. CASE d = c
        BY <3>2, <3>3, <4>1, EmptyWalk DEF Working
      <4>2. CASE d # c
        <5>1. hotClient'[d] = hotClient[d]
          BY <3>2, <4>2
        <5> QED BY <5>1 DEF RankInv, ClientsOK, Working
      <4> QED BY <4>1, <4>2
    <3>5. StoreOK' /\ CacheOK'
      BY <3>1 DEF RankInv, StoreOK, CacheOK
    <3>6. ASSUME NEW i \in Nat, NEW x \in Page, Current(i, x)'  PROVE Current(i, x)
      <4>1. CASE \E d \in HotClients : i \in 1..Len(hotClient'[d].walk) /\ hotClient'[d].walk[i] = x
        <5>1. PICK d \in HotClients : i \in 1..Len(hotClient'[d].walk) /\ hotClient'[d].walk[i] = x
          BY <4>1
        <5>2. d # c
          BY <3>2, <3>3, <5>1, EmptyWalk
        <5>3. hotClient'[d] = hotClient[d]
          BY <3>2, <5>2
        <5> QED BY <3>6, <5>1, <5>3 DEF Current, Held
      <4>2. CASE \E p \in hotPages' : i = p.of[2] + 1 /\ p.page = x
        BY <3>1, <3>6, <4>2 DEF Current, Held
      <4> QED BY <3>6, <4>1, <4>2 DEF Current, Held
    <3>7. \A i \in Nat : \A x \in Page : Current(i, x)' => x.asOf \in Moments
      BY HotAssumption DEF Current, Page, Moments
    <3> QED BY <3>1, <3>4, <3>5, <3>6, <3>7, PagesStay
  <2>7. ASSUME NEW c \in HotClients, Exists(c) \/ Card(c) \/ Settle(c) \/ Expire(c)  PROVE RankInv'
    <3>1. PICK pc : hotClient' = [hotClient EXCEPT ![c].pc = pc]
      BY <2>7 DEF Exists, Card, Settle, Expire, HotGoes
    <3>2. /\ DOMAIN hotClient' = HotClients /\ \A d \in HotClients \ {c} : hotClient'[d] = hotClient[d]
          /\ DOMAIN hotClient'[c] = {"pc", "why", "at", "walk"} /\ hotClient'[c].why = hotClient[c].why
          /\ hotClient'[c].walk = hotClient[c].walk /\ hotClient'[c].at = hotClient[c].at
      BY <2>0, <3>1
    <3>3. hotPages' = hotPages /\ window' = window
      BY <2>7 DEF Exists, Card, Settle, Expire, hotStore
    <3>4. Working(c)
      BY <2>7 DEF Exists, Card, Settle, Expire, HotAt, Working
    <3>5. /\ DOMAIN snapshot' = Moments
          /\ \A a \in Moments : snapshot'[a] # NoSnapshot =>
               /\ snapshot[a] # NoSnapshot /\ snapshot'[a].of = snapshot[a].of
               /\ DOMAIN snapshot'[a] = {"of", "ttl"}
      <4>1. CASE Exists(c) \/ Card(c)
        BY <2>0, <4>1 DEF Exists, Card, hotStore, StoreOK
      <4>2. CASE Settle(c)
        BY <2>0, <4>2 DEF Settle, StoreOK
      <4>3. CASE Expire(c)
        BY <2>0, <4>3 DEF Expire, StoreOK
      <4> QED BY <2>7, <4>1, <4>2, <4>3
    <3>6. StoreOK'
      BY <2>0, <3>3, <3>5 DEF StoreOK
    <3> QED BY <2>0, <3>2, <3>3, <3>4, <3>5, <3>6, MoveKeeps
  <2>8. ASSUME NEW c \in HotClients, Unite(c)  PROVE RankInv'
    BY <2>8, UniteKeeps
  <2>9. ASSUME NEW c \in HotClients, ReadSize(c)  PROVE RankInv'
    <3>1. UNCHANGED <<window, snapshot, hotPages>> /\ Working(c) /\ hotClient[c].why = "size"
      BY <2>9 DEF ReadSize, hotStore, HotAt, Working
    <3>2. StoreOK' /\ Len(hotClient[c].walk) = 0 /\ hotClient[c].at \in Moments
      BY <2>0, <3>1 DEF StoreOK
    <3>3. CASE hotClient' = [hotClient EXCEPT ![c].pc = "persisted"]
      <4>1. /\ DOMAIN hotClient' = HotClients /\ \A d \in HotClients \ {c} : hotClient'[d] = hotClient[d]
            /\ DOMAIN hotClient'[c] = {"pc", "why", "at", "walk"} /\ hotClient'[c].pc = "persisted"
            /\ hotClient'[c].walk = hotClient[c].walk
        BY <2>0, <3>3
      <4> QED BY <3>1, <3>2, <4>1, MoveKeeps
    <3>4. CASE \E now \in hotClient[c].at..LastMoment : Ensures(c, "page", now)
      <4>1. PICK now \in hotClient[c].at..LastMoment :
              hotClient' = [hotClient EXCEPT ![c].pc = "exists", ![c].why = "page", ![c].at = now]
        BY <3>4 DEF Ensures
      <4>2. now \in Moments
        BY <3>2, HotAssumption DEF Moments
      <4>3. /\ DOMAIN hotClient' = HotClients /\ \A d \in HotClients \ {c} : hotClient'[d] = hotClient[d]
            /\ DOMAIN hotClient'[c] = {"pc", "why", "at", "walk"}
            /\ hotClient'[c].walk = hotClient[c].walk /\ hotClient'[c].at = now
        BY <2>0, <4>1
      <4> QED BY <3>1, <3>2, <4>2, <4>3, MoveKeeps
    <3> QED BY <2>9, <3>3, <3>4 DEF ReadSize, HotGoes
  <2>10. ASSUME NEW c \in HotClients, ReadPage(c)  PROVE RankInv'
    BY <2>10, ReadKeeps
  <2>11. ASSUME NEW c \in HotClients, ReadPersisted(c)  PROVE RankInv'
    BY <2>11, PersistedKeeps
  <2>12. ASSUME NEW c \in HotClients, NEW pc \in {"persisted", "rest"}, SnapshotFails(c, pc)  PROVE RankInv'
    <3>1. hotClient' = [hotClient EXCEPT ![c].pc = pc] /\ UNCHANGED <<window, snapshot, hotPages>>
      BY <2>12 DEF SnapshotFails, HotGoes
    <3>2. StoreOK'
      BY <2>0, <3>1 DEF StoreOK
    <3>3. /\ DOMAIN hotClient' = HotClients /\ \A d \in HotClients \ {c} : hotClient'[d] = hotClient[d]
          /\ DOMAIN hotClient'[c] = {"pc", "why", "at", "walk"} /\ hotClient'[c].pc = pc
          /\ hotClient'[c].walk = hotClient[c].walk
      BY <2>0, <3>1
    <3> QED BY <3>1, <3>2, <3>3, MoveKeeps
  <2>13. CASE UNCHANGED hotVars
    <3>1. UNCHANGED <<window, snapshot, hotPages, hotClient>>
      BY <2>13 DEF hotVars
    <3>2. StoreOK'
      BY <2>0, <3>1 DEF StoreOK
    <3> QED BY <3>1, <3>2, StoreKeeps
  <2> QED
    BY <2>1, <2>2, <2>3, <2>4, <2>5, <2>6, <2>7, <2>8, <2>9, <2>10, <2>11, <2>12, <2>13 DEF HotNext
<1> QED BY <1>1, <1>2, PTL DEF HotSafety

\* A walk through the popularity feed keeps to one ranking, for any number of
\* clients, videos and moments and whoever else makes snapshots meanwhile
\* (feed/service.go:652-674, popularity/service.go:152).
THEOREM WalksKeepOneRanking == HotSafety => []OneRanking
<1>1. RankInv => OneRanking
  <2> SUFFICES ASSUME RankInv, NEW c \in HotClients, NEW i \in DOMAIN Walk(c), NEW j \in DOMAIN Walk(c), i < j
               PROVE  /\ Walk(c)[j].asOf \in {0, Walk(c)[i].asOf}
                      /\ Walk(c)[j].asOf # 0 /\ ~Walk(c)[i].old /\ ~Walk(c)[j].old /\ Walk(c)[j].video # 0
                         => Walk(c)[j].video # Walk(c)[i].video
    BY DEF OneRanking
  <2> DEFINE w == hotClient[c].walk
  <2>1. IsWalk(w) /\ OneAsOf(w) /\ Walk(c) = w
    BY DEF RankInv, ClientsOK, Walk
  <2>2. Len(w) \in Nat /\ DOMAIN w = 1..Len(w) /\ \A k \in 1..Len(w) : w[k] \in Page
    BY <2>1, WalkFacts
  <2>3. i \in 1..Len(w) /\ j \in 1..Len(w) /\ i \in Nat /\ j \in Nat /\ w[i] \in Page /\ w[j] \in Page
    BY <2>1, <2>2
  <2>4. w[j].asOf \in {0, w[i].asOf}
    BY <2>1, <2>3 DEF OneAsOf
  <2>5. Held(i, w[i]) /\ Held(j, w[j])
    BY <2>3 DEF Held
  <2> HIDE DEF w
  <2>6. ASSUME w[j].asOf # 0, ~w[i].old, ~w[j].old, w[j].video # 0, w[j].video = w[i].video
        PROVE  FALSE
    <3>1. Current(i, w[i]) /\ Current(j, w[j])
      BY <2>4, <2>5, <2>6 DEF Current
    <3>2. i # j /\ w[i].asOf = w[j].asOf
      BY <2>3, <2>4, <2>6
    <3> QED BY <2>3, <2>6, <3>1, <3>2 DEF RankInv, PagesApart
  <2> QED BY <2>1, <2>4, <2>6
<1> QED BY <1>1, RankHolds, PTL

-----------------------------------------------------------------------------
\* A copy is not newer than the row, and an old one of Redis, or one that is on
\* its way, misses a change that still has to delete it or that nobody announced.
Explained(c) ==
    c # Uncached => /\ c \in Copies /\ c.v <= row
                    /\ c.v < row /\ ~c.late =>
                         \/ c.v < lost[Uncached]
                         \/ \E w \in Writers : writer[w].pc = "delete" /\ writer[w].v > c.v

ExplainedIn(i) ==
    l1[i] # Uncached => /\ l1[i] \in Copies /\ l1[i].v <= row
                        /\ l1[i].v < row /\ ~l1[i].late =>
                             \/ l1[i].v < lost[i] \/ fanout[i] > 0
                             \/ \E w \in Writers : /\ writer[w].pc \in {"delete", "publish"}
                                                   /\ writer[w].v > l1[i].v

WriterKinds == [pc : {"idle", "delete", "publish", "mark", "fillmark"}, at : Places,
                v : Versions, deletes : BOOLEAN]
ReaderKinds == [pc : {"idle", "load", "set", "fill"}, at : Places, copy : Copies \union {Uncached}]

\* A change that deletes is the last one, so that its marker is never old.
Rowly ==
    /\ row \in Versions /\ fanout \in [Instances -> Nat] /\ DOMAIN l1 = Instances
    /\ writer \in [Writers -> WriterKinds]
    /\ lost \in [Places -> Versions] /\ \A i \in Instances : lost[Uncached] <= lost[i]
    /\ \A w \in Writers : /\ writer[w].pc # "idle" => writer[w].v <= row
                          /\ writer[w].deletes => writer[w].pc = "idle" \/ writer[w].v = row
                          /\ writer[w].pc \in {"mark", "fillmark"} => writer[w].deletes
                          /\ writer[w].pc = "idle" => ~writer[w].deletes
                          /\ writer[w].deletes => writer[w].v = MaxVersion

Read ==
    /\ detailReader \in [DetailReaders -> ReaderKinds]
    /\ \A r \in DetailReaders : Explained(detailReader[r].copy)

DetailInv == Rowly /\ Read /\ Explained(l2) /\ \A i \in Instances : ExplainedIn(i)

\* What a step leaves alone stays explained while the row, the losses and the
\* changes under way stay as they are.
LEMMA StillExplained ==
    ASSUME UNCHANGED <<row, lost, writer>>, NEW c, Explained(c)
    PROVE  \A d : d = c => Explained(d)'
BY DEF Explained

\* The same for the copy of an instance, and for one that fills it.
LEMMA StillExplainedIn ==
    ASSUME UNCHANGED <<row, lost, writer, fanout>>, Rowly, NEW i \in Instances,
           \/ l1'[i] = l1[i] /\ ExplainedIn(i)
           \/ \E c : l1'[i] = c /\ Explained(c)
    PROVE  ExplainedIn(i)'
<1>1. CASE l1'[i] = l1[i] /\ ExplainedIn(i)
  BY <1>1 DEF ExplainedIn
<1>2. CASE Explained(l1'[i])
  <2> DEFINE c == l1'[i]
  <2> SUFFICES ASSUME c # Uncached PROVE ExplainedIn(i)'
    BY DEF ExplainedIn
  <2>1. /\ c \in Copies /\ c.v <= row
        /\ c.v < row /\ ~c.late => c.v < lost[Uncached]
             \/ \E w \in Writers : writer[w].pc = "delete" /\ writer[w].v > c.v
    BY <1>2 DEF Explained
  <2>2. lost[Uncached] <= lost[i] /\ lost[i] \in Int /\ lost[Uncached] \in Int /\ c.v \in Int
    BY <2>1 DEF Rowly, Places, Versions, Copies
  <2>3. c.v < lost[Uncached] => c.v < lost[i]
    BY <2>2
  <2> HIDE DEF c
  <2> QED
    BY <2>1, <2>3 DEF ExplainedIn, c
<1> QED
  BY <1>1, <1>2

\* A read carries only what is explained.
LEMMA ReaderKeeps ==
    ASSUME DetailInv, UNCHANGED <<row, lost, writer, fanout>>, NEW r \in DetailReaders,
           NEW q \in ReaderKinds, detailReader' = [detailReader EXCEPT ![r] = q], Explained(q.copy),
           Explained(l2'), DOMAIN l1' = Instances,
           \A i \in Instances : l1'[i] = l1[i] \/ Explained(l1'[i])
    PROVE  DetailInv'
<1>1. Rowly'
  BY DEF DetailInv, Rowly
<1>2. detailReader' \in [DetailReaders -> ReaderKinds]
  BY DEF DetailInv, Read
<1>3. \A x \in DetailReaders : Explained(detailReader'[x].copy)
  BY DEF DetailInv, Read
<1>4. Read'
  BY <1>2, <1>3, StillExplained DEF Read
<1>5. \A i \in Instances : ExplainedIn(i)'
  BY StillExplainedIn DEF DetailInv
<1>6. Explained(l2)'
  BY StillExplained
<1> QED
  BY <1>1, <1>4, <1>5, <1>6 DEF DetailInv

\* The histories of what was not announced only grow.
LEMMA LossesGrow ==
    ASSUME Rowly, NEW places, NEW v \in Versions, NotAnnounced(places, v)
    PROVE  /\ lost' \in [Places -> Versions]
           /\ \A p \in Places : lost[p] <= lost'[p] /\ (p \in places => v <= lost'[p])
           /\ \A i \in Instances : (Uncached \in places => i \in places)
                                  => lost'[Uncached] <= lost'[i]
BY DEF Rowly, NotAnnounced, MaxOf, Places, Versions

\* A change moves on.  Copies that are still there stay explained when their
\* reason does: the change that was to delete them, or to tell an instance of
\* it, is still there or was never announced.
LEMMA WriterMoves ==
    ASSUME DetailInv, NEW w \in Writers, NEW pc \in {"idle", "publish", "mark", "fillmark"},
           WriterStep(w, pc), writer[w].pc # "idle",
           pc \in {"mark", "fillmark"} => writer[w].deletes,
           UNCHANGED row, lost' \in [Places -> Versions], fanout' \in [Instances -> Nat],
           \A p \in Places : lost[p] <= lost'[p],
           \A i \in Instances : lost'[Uncached] <= lost'[i] /\ fanout[i] <= fanout'[i]
    PROVE  /\ Rowly' \/ DOMAIN l1' # Instances
           /\ \A c : /\ Explained(c)
                     /\ \/ c.late \/ writer[w].pc # "delete"
                        \/ writer[w].v <= lost'[Uncached]
                     => Explained(c)'
           /\ \A i \in Instances :
                /\ l1'[i] = l1[i]
                /\ \/ writer[w].pc \notin {"delete", "publish"} \/ pc = "publish"
                   \/ writer[w].v <= lost'[i] \/ fanout'[i] > 0
                => ExplainedIn(i)'
<1>1. /\ \A x \in Writers : x # w => writer'[x] = writer[x]
      /\ pc # "idle" => /\ writer'[w] \in WriterKinds /\ writer'[w].pc = pc
                        /\ writer'[w].v = writer[w].v /\ writer'[w].deletes = writer[w].deletes
      /\ pc = "idle" => writer'[w] = WriterIdle
      /\ DOMAIN writer' = Writers
  BY DEF WriterStep, DetailInv, Rowly, WriterKinds
<1>2. WriterIdle \in WriterKinds /\ WriterIdle.pc = "idle" /\ ~WriterIdle.deletes
  BY DetailAssumption DEF WriterIdle, WriterKinds, Places, Versions
<1>3. writer' \in [Writers -> WriterKinds]
  <2>1. writer' = [x \in Writers |-> writer'[x]]
    BY DEF WriterStep, DetailInv, Rowly
  <2>2. \A x \in Writers : writer'[x] \in WriterKinds
    BY <1>1, <1>2 DEF DetailInv, Rowly
  <2> QED
    BY <2>1, <2>2
<1>4. Rowly' \/ DOMAIN l1' # Instances
  BY <1>1, <1>2, <1>3 DEF DetailInv, Rowly
<1>5. ASSUME NEW c, Explained(c),
             c.late \/ writer[w].pc # "delete" \/ writer[w].v <= lost'[Uncached]
      PROVE  Explained(c)'
  <2> SUFFICES ASSUME c # Uncached, c.v < row, ~c.late PROVE
                 c.v < lost'[Uncached] \/ \E x \in Writers : writer'[x].pc = "delete" /\ writer'[x].v > c.v
    BY <1>5 DEF Explained
  <2>1. c.v \in Int /\ lost[Uncached] \in Int /\ lost'[Uncached] \in Int /\ writer[w].v \in Int
        /\ lost[Uncached] <= lost'[Uncached]
    BY <1>5 DEF Explained, Copies, Versions, Places, DetailInv, Rowly, WriterKinds
  <2>2. CASE c.v < lost[Uncached]
    BY <2>1, <2>2
  <2>3. CASE \E x \in Writers : writer[x].pc = "delete" /\ writer[x].v > c.v
    BY <1>1, <1>5, <2>1, <2>3
  <2> QED
    BY <1>5, <2>2, <2>3 DEF Explained
<1>6. ASSUME NEW i \in Instances, l1'[i] = l1[i],
             \/ writer[w].pc \notin {"delete", "publish"} \/ pc = "publish"
             \/ writer[w].v <= lost'[i] \/ fanout'[i] > 0
      PROVE  ExplainedIn(i)'
  <2> DEFINE c == l1[i]
  <2>0. ExplainedIn(i)
    BY DEF DetailInv
  <2> SUFFICES ASSUME c # Uncached, c.v < row, ~c.late PROVE
                 \/ c.v < lost'[i] \/ fanout'[i] > 0
                 \/ \E x \in Writers : writer'[x].pc \in {"delete", "publish"} /\ writer'[x].v > c.v
    BY <1>6, <2>0 DEF ExplainedIn
  <2>1. /\ c.v \in Int /\ lost[i] \in Int /\ lost'[i] \in Int /\ writer[w].v \in Int
        /\ lost[i] <= lost'[i] /\ fanout[i] \in Nat /\ fanout'[i] \in Nat /\ fanout[i] <= fanout'[i]
    BY <2>0 DEF ExplainedIn, Copies, Versions, Places, DetailInv, Rowly, WriterKinds
  <2>2. CASE c.v < lost[i] \/ fanout[i] > 0
    BY <2>1, <2>2
  <2>3. CASE \E x \in Writers : writer[x].pc \in {"delete", "publish"} /\ writer[x].v > c.v
    <3> HIDE DEF c
    <3> QED
      BY <1>1, <1>6, <2>1, <2>3
  <2> QED
    BY <2>0, <2>2, <2>3 DEF ExplainedIn
<1> QED
  BY <1>4, <1>5, <1>6

\* Every copy of a detail stays explained.
LEMMA DetailHolds == DetailSafety => []DetailInv
<1>1. DetailInit => DetailInv
  <2> SUFFICES ASSUME DetailInit PROVE DetailInv
    OBVIOUS
  <2>1. ReaderIdle \in ReaderKinds /\ ReaderIdle.copy = Uncached
    BY DEF ReaderIdle, ReaderKinds, Places
  <2>2. /\ WriterIdle \in WriterKinds /\ WriterIdle.pc = "idle" /\ ~WriterIdle.deletes
    BY DetailAssumption DEF WriterIdle, WriterKinds, Places, Versions
  <2>3. Rowly
    BY <2>2, DetailAssumption DEF DetailInit, Rowly, Versions, Places
  <2> QED
    BY <2>1, <2>3 DEF DetailInit, DetailInv, Read, Explained, ExplainedIn
<1>2. DetailInv /\ [DetailNext]_detailVars => DetailInv'
  <2> SUFFICES ASSUME DetailInv, [DetailNext]_detailVars PROVE DetailInv'
    OBVIOUS
  <2> USE DEF detailCaches
  <2>1. ASSUME NEW r \in DetailReaders, NEW i \in Instances, ReadL2(r, i) PROVE DetailInv'
    <3> DEFINE q == [pc |-> IF l2 = Uncached THEN "load" ELSE "fill", at |-> i, copy |-> l2]
    <3>1. q \in ReaderKinds /\ Explained(q.copy)
      BY DEF ReaderKinds, Places, DetailInv, Explained
    <3>2. detailReader' = [detailReader EXCEPT ![r] = q] /\ UNCHANGED <<row, l1, l2, fanout, writer, lost>>
      BY <2>1 DEF ReadL2
    <3> HIDE DEF q
    <3> QED
      BY <3>1, <3>2, ReaderKeeps DEF DetailInv, Rowly
  <2>2. ASSUME NEW r \in DetailReaders, LoadRow(r) PROVE DetailInv'
    <3> DEFINE q == [detailReader[r] EXCEPT !.pc = "set", !.copy = [v |-> row, late |-> FALSE]]
    <3>1. q \in ReaderKinds /\ Explained(q.copy)
      <4> DEFINE c == [v |-> row, late |-> FALSE]
      <4>1. c \in Copies /\ row \in Int
        BY DEF DetailInv, Rowly, Copies, Versions
      <4>2. Explained(c)
        BY <4>1 DEF Explained
      <4>3. detailReader[r] \in ReaderKinds
        BY DEF DetailInv, Read
      <4> HIDE DEF c
      <4> QED
        BY <4>1, <4>2, <4>3 DEF ReaderKinds, c
    <3>2. detailReader' = [detailReader EXCEPT ![r] = q] /\ UNCHANGED <<row, l1, l2, fanout, writer, lost>>
      BY <2>2 DEF LoadRow, ReaderStep, DetailInv, Read
    <3> HIDE DEF q
    <3> QED
      BY <3>1, <3>2, ReaderKeeps DEF DetailInv, Rowly
  <2>3. ASSUME NEW r \in DetailReaders, SetL2(r) PROVE DetailInv'
    <3> DEFINE q == [detailReader[r] EXCEPT !.pc = "fill"]
    <3>1. q \in ReaderKinds /\ q.copy = detailReader[r].copy
      BY DEF ReaderKinds, DetailInv, Read
    <3>2. detailReader' = [detailReader EXCEPT ![r] = q] /\ UNCHANGED <<row, l1, fanout, writer, lost>>
          /\ l2' \in {l2, q.copy}
      BY <2>3, <3>1 DEF SetL2, ReaderStep, DetailInv, Read
    <3> HIDE DEF q
    <3>3. Explained(q.copy) /\ Explained(l2')
      BY <3>1, <3>2 DEF DetailInv, Read
    <3> QED
      BY <3>1, <3>2, <3>3, ReaderKeeps DEF DetailInv, Rowly
  <2>4. ASSUME NEW r \in DetailReaders, FillL1(r) PROVE DetailInv'
    <3>1. ReaderIdle \in ReaderKinds /\ ReaderIdle.copy = Uncached
      BY DEF ReaderIdle, ReaderKinds, Places
    <3>2. Explained(ReaderIdle.copy)
      BY <3>1 DEF Explained
    <3>3. /\ detailReader' = [detailReader EXCEPT ![r] = ReaderIdle]
          /\ UNCHANGED <<row, l2, fanout, writer, lost>>
          /\ \A i \in Instances : l1'[i] = l1[i] \/ l1'[i] = detailReader[r].copy
          /\ DOMAIN l1' = Instances
      BY <2>4 DEF FillL1, ReaderDone, DetailInv, Rowly
    <3>4. Explained(l2') /\ Explained(detailReader[r].copy)
      BY <3>3 DEF DetailInv, Read
    <3> QED
      BY <3>1, <3>2, <3>3, <3>4, ReaderKeeps
  <2>5. CASE ExpireL2 \/ \E i \in Instances : ExpireL1(i)
    <3>1. /\ UNCHANGED <<row, fanout, detailReader, writer, lost>> /\ l2' \in {l2, Uncached}
          /\ DOMAIN l1' = Instances /\ \A i \in Instances : l1'[i] \in {l1[i], Uncached}
      BY <2>5 DEF ExpireL2, ExpireL1, DetailInv, Rowly
    <3> QED
      BY <3>1 DEF DetailInv, Rowly, Read, Explained, ExplainedIn
  <2>6. ASSUME row' \in Versions, row < row', UNCHANGED <<l1, l2, fanout, detailReader>>, row < MaxVersion,
               Rowly',
               \A p \in Places, v \in 0..row :
                  \/ v < lost'[p] /\ p \in Instances \union {Uncached}
                  \/ \E w \in Writers : writer'[w].pc = "delete" /\ writer'[w].v > v
        PROVE  DetailInv'
    <3>1. ASSUME NEW c, Explained(c) PROVE Explained(c)'
      <4> SUFFICES ASSUME c # Uncached PROVE
             c \in Copies /\ c.v <= row' /\ c.v \in 0..row /\ Uncached \in Places
        BY <2>6 DEF Explained
      <4> QED
        BY <2>6, <3>1 DEF DetailInv, Rowly, Explained, Copies, Versions, Places
    <3>2. ASSUME NEW i \in Instances PROVE ExplainedIn(i)'
      <4>0. ExplainedIn(i)
        BY DEF DetailInv
      <4> SUFFICES ASSUME l1[i] # Uncached PROVE
             l1[i] \in Copies /\ l1[i].v <= row' /\ l1[i].v \in 0..row /\ i \in Places
        BY <2>6 DEF ExplainedIn
      <4> QED
        BY <2>6, <4>0 DEF DetailInv, Rowly, ExplainedIn, Copies, Versions, Places
    <3> QED
      BY <2>6, <3>1, <3>2 DEF DetailInv, Read
  <2>7. CASE Verdict
    <3>1. row \in Int /\ row < MaxVersion /\ row' = row + 1 /\ row' \in Versions
      BY <2>7, DetailAssumption DEF Verdict, DetailInv, Rowly, Versions
    <3>2. /\ lost' \in [Places -> Versions] /\ \A p \in Places : row' <= lost'[p]
      BY <2>7, <3>1, LossesGrow DEF Verdict, DetailInv, Rowly
    <3>3. \A i \in Instances : lost'[Uncached] <= lost'[i]
      <4>1. Rowly /\ DOMAIN lost = Places /\ Instances \subseteq Places
        BY DEF DetailInv, Rowly, Places
      <4>2. NotAnnounced(Places, row')
        BY <2>7, <4>1 DEF Verdict
      <4> QED
        BY <3>1, <4>1, <4>2, LossesGrow
    <3>4. \A w \in Writers : writer'[w] = writer[w] /\ writer[w].v \in Int
      BY <2>7 DEF Verdict, DetailInv, Rowly, WriterKinds, Versions
    <3>5. UNCHANGED <<l1, l2, fanout, detailReader, writer>>
      BY <2>7 DEF Verdict
    <3>6. Rowly'
      BY <3>1, <3>2, <3>3, <3>4, <3>5, DetailAssumption DEF DetailInv, Rowly
    <3>7. \A q \in Places, v \in 0..row : v < lost'[q] /\ q \in Instances \union {Uncached}
      BY <3>1, <3>2 DEF Places, Versions
    <3> QED
      BY <2>6, <3>1, <3>5, <3>6, <3>7
  <2>8. ASSUME NEW w \in Writers, NEW i \in Instances, NEW deletes \in BOOLEAN, ChangeRow(w, i, deletes)
        PROVE  DetailInv'
    <3> DEFINE q == [pc |-> "delete", at |-> i, v |-> row', deletes |-> deletes]
    <3>1. row \in Int /\ row < MaxVersion /\ row < row' /\ row' \in Versions /\ (deletes => row' = MaxVersion)
      BY <2>8, DetailAssumption DEF ChangeRow, DetailInv, Rowly, Versions
    <3>2. q \in WriterKinds /\ q.pc = "delete" /\ q.v = row' /\ q.deletes = deletes
      BY <3>1 DEF WriterKinds, Places
    <3>3. /\ writer' = [writer EXCEPT ![w] = q]
          /\ UNCHANGED <<l1, l2, fanout, detailReader, lost>>
      BY <2>8 DEF ChangeRow
    <3> HIDE DEF q
    <3>4. \A x \in Writers : /\ writer[x].v \in Int /\ (x # w => writer'[x] = writer[x])
                             /\ (x = w => writer'[x] = q)
      BY <3>3 DEF DetailInv, Rowly, WriterKinds, Versions
    <3>5. writer' \in [Writers -> WriterKinds]
      BY <3>2, <3>3 DEF DetailInv, Rowly
    <3>6. Rowly'
      BY <3>1, <3>2, <3>3, <3>4, <3>5, DetailAssumption DEF DetailInv, Rowly
    <3>7. \A v \in 0..row : writer'[w].pc = "delete" /\ writer'[w].v > v
      BY <3>1, <3>2, <3>4 DEF Versions
    <3> QED
      BY <2>6, <3>1, <3>3, <3>6, <3>7
  <2>9. ASSUME NEW w \in Writers, DeleteL2(w) PROVE DetailInv'
    <3>1. /\ writer[w].pc = "delete" /\ WriterStep(w, "publish")
          /\ l2' = Uncached /\ UNCHANGED <<row, l1, fanout, lost>>
      BY <2>9 DEF DeleteL2
    <3>2. /\ Rowly' /\ \A c : Explained(c) /\ c.late => Explained(c)'
          /\ \A i \in Instances : ExplainedIn(i)'
      BY <3>1, WriterMoves DEF DetailInv, Rowly, Versions, Places
    <3>3. DOMAIN detailReader' = DetailReaders
      BY <2>9 DEF DeleteL2, Overtaken
    <3>4. ASSUME NEW r \in DetailReaders
          PROVE  detailReader'[r] \in ReaderKinds /\ Explained(detailReader[r].copy)'
      <4>1. detailReader[r] \in ReaderKinds /\ Explained(detailReader[r].copy)
        BY DEF DetailInv, Read
      <4>2. CASE detailReader[r].copy = Uncached
        BY <2>9, <4>1, <4>2 DEF DeleteL2, Overtaken, Explained
      <4>3. CASE detailReader[r].copy # Uncached
        <5> DEFINE c == [detailReader[r].copy EXCEPT !.late = TRUE]
        <5>1. detailReader[r].copy \in Copies /\ detailReader[r].copy.v <= row
          BY <4>1, <4>3 DEF Explained
        <5>2. c \in Copies /\ c.v <= row /\ c.late
          BY <5>1 DEF Copies
        <5>3. detailReader'[r] = [detailReader[r] EXCEPT !.copy = c]
          BY <2>9, <4>3 DEF DeleteL2, Overtaken
        <5> HIDE DEF c
        <5>4. detailReader'[r] \in ReaderKinds /\ detailReader'[r].copy = c
          BY <4>1, <5>2, <5>3 DEF ReaderKinds
        <5>5. Explained(c)
          BY <5>2 DEF Explained
        <5> QED
          BY <3>2, <5>2, <5>4, <5>5
      <4> QED
        BY <4>2, <4>3
    <3>5. detailReader' \in [DetailReaders -> ReaderKinds]
      <4>1. detailReader' = [r \in DetailReaders |-> detailReader'[r]]
        BY <2>9 DEF DeleteL2, Overtaken
      <4> QED
        BY <3>4, <4>1
    <3> QED
      BY <3>1, <3>2, <3>4, <3>5 DEF DetailInv, Explained, Read
  <2>10. ASSUME NEW w \in Writers, NEW pc \in {"idle", "publish", "mark", "fillmark"},
                WriterStep(w, pc), writer[w].pc # "idle",
                pc \in {"mark", "fillmark"} => writer[w].deletes,
                UNCHANGED <<row, detailReader>>, lost' \in [Places -> Versions],
                fanout' \in [Instances -> Nat], DOMAIN l1' = Instances,
                \A p \in Places : lost[p] <= lost'[p],
                \A i \in Instances : lost'[Uncached] <= lost'[i] /\ fanout[i] <= fanout'[i],
                writer[w].pc = "delete" => writer[w].v <= lost'[Uncached],
                writer[w].pc = "publish" => \A i \in Instances : writer[w].v <= lost'[i] \/ fanout'[i] > 0,
                l2' = l2 \/ (writer[w].deletes /\ l2' = Marker(w)),
                \A i \in Instances : l1'[i] = l1[i] \/ (writer[w].deletes /\ l1'[i] = Marker(w))
         PROVE  DetailInv'
    <3>1. Rowly' /\ \A c : Explained(c) => Explained(c)'
      BY <2>10, WriterMoves
    <3>2. ASSUME NEW i \in Instances, l1'[i] = l1[i] PROVE ExplainedIn(i)'
      <4>1. lost'[Uncached] <= lost'[i] /\ lost'[i] \in Int /\ lost'[Uncached] \in Int /\ writer[w].v \in Int
        BY <2>10 DEF Places, Versions, DetailInv, Rowly, WriterKinds
      <4>2. writer[w].pc = "delete" => writer[w].v <= lost'[i]
        BY <2>10, <4>1
      <4> QED
        BY <2>10, <3>2, <4>2, WriterMoves
    <3>3. writer[w].deletes =>
            /\ Marker(w) \in Copies /\ Marker(w).v = row' /\ row' \in Int
      BY <2>10 DEF Marker, Copies, DetailInv, Rowly, WriterKinds, Versions
    <3>4. ASSUME NEW i \in Instances PROVE ExplainedIn(i)'
      BY <2>10, <3>2, <3>3 DEF ExplainedIn
    <3>5. Explained(l2)'
      BY <2>10, <3>1, <3>3 DEF Explained, DetailInv
    <3>6. Read'
      BY <2>10, <3>1 DEF DetailInv, Read
    <3> QED
      BY <3>1, <3>4, <3>5, <3>6 DEF DetailInv
  <2>11. ASSUME NEW w \in Writers, DeleteL2Fails(w) PROVE DetailInv'
    <3>1. /\ Rowly /\ DOMAIN lost = Places /\ Instances \subseteq Places /\ Uncached \in Places
          /\ writer[w].v \in Versions
      BY DEF DetailInv, Rowly, WriterKinds, Places
    <3>2. /\ writer[w].pc = "delete" /\ WriterStep(w, "publish") /\ NotAnnounced(Places, writer[w].v)
          /\ UNCHANGED <<row, l1, l2, fanout, detailReader>>
      BY <2>11, <3>1 DEF DeleteL2Fails
    <3>3. /\ lost' \in [Places -> Versions]
          /\ \A p \in Places : lost[p] <= lost'[p] /\ writer[w].v <= lost'[p]
          /\ \A i \in Instances : lost'[Uncached] <= lost'[i]
      BY <3>1, <3>2, LossesGrow
    <3>4. fanout' \in [Instances -> Nat] /\ DOMAIN l1' = Instances /\ \A i \in Instances : fanout[i] <= fanout'[i]
      BY <3>1, <3>2 DEF Rowly
    <3> QED
      BY <2>10, <3>1, <3>2, <3>3, <3>4
  <2>12. ASSUME NEW w \in Writers, PublishInvalidation(w) PROVE DetailInv'
    <3> DEFINE pc == IF writer[w].deletes THEN "mark" ELSE "idle"
    <3>1. /\ writer[w].pc = "publish" /\ WriterStep(w, pc)
          /\ UNCHANGED <<row, l1, l2, detailReader, lost>>
          /\ fanout' = [i \in Instances |-> fanout[i] + 1]
      BY <2>12 DEF PublishInvalidation, AfterPublish
    <3>2. /\ fanout' \in [Instances -> Nat]
          /\ \A i \in Instances : fanout[i] <= fanout'[i] /\ fanout'[i] > 0
      BY <3>1 DEF DetailInv, Rowly
    <3>3. /\ lost' \in [Places -> Versions] /\ \A p \in Places : lost[p] <= lost'[p]
          /\ \A i \in Instances : lost'[Uncached] <= lost'[i]
          /\ DOMAIN l1' = Instances
      BY <3>1 DEF DetailInv, Rowly, Versions
    <3>4. pc \in {"idle", "publish", "mark", "fillmark"} /\ (pc \in {"mark", "fillmark"} => writer[w].deletes)
      OBVIOUS
    <3> HIDE DEF pc
    <3> QED
      BY <2>10, <3>1, <3>2, <3>3, <3>4
  <2>13. ASSUME NEW w \in Writers, PublishInvalidationFails(w) PROVE DetailInv'
    <3> DEFINE pc == IF writer[w].deletes THEN "mark" ELSE "idle"
    <3>0. Rowly /\ Instances \subseteq Places /\ writer[w].v \in Versions /\ Uncached \notin Instances
      BY DetailAssumption DEF DetailInv, Rowly, WriterKinds, Places
    <3>1. /\ writer[w].pc = "publish" /\ WriterStep(w, pc) /\ NotAnnounced(Instances, writer[w].v)
          /\ UNCHANGED <<row, l1, l2, fanout, detailReader>>
      BY <2>13 DEF PublishInvalidationFails, AfterPublish
    <3>2. /\ fanout' \in [Instances -> Nat] /\ DOMAIN l1' = Instances
          /\ \A i \in Instances : fanout[i] <= fanout'[i]
      BY <3>0, <3>1 DEF Rowly
    <3>3. /\ lost' \in [Places -> Versions] /\ \A p \in Places : lost[p] <= lost'[p]
          /\ \A i \in Instances : lost'[Uncached] <= lost'[i] /\ writer[w].v <= lost'[i]
      BY <3>0, <3>1, LossesGrow
    <3>4. pc \in {"idle", "publish", "mark", "fillmark"} /\ (pc \in {"mark", "fillmark"} => writer[w].deletes)
      OBVIOUS
    <3> HIDE DEF pc
    <3> QED
      BY <2>10, <3>1, <3>2, <3>3, <3>4
  <2>14. ASSUME NEW w \in Writers, MarkL2(w) \/ MarkL1(w) PROVE DetailInv'
    <3>1. /\ writer[w].pc \in {"mark", "fillmark"} /\ writer[w].deletes
          /\ \E pc \in {"idle", "fillmark"} : WriterStep(w, pc)
          /\ UNCHANGED <<row, fanout, detailReader, lost>>
          /\ l2' \in {l2, Marker(w)} /\ DOMAIN l1' = Instances
          /\ \A i \in Instances : l1'[i] \in {l1[i], Marker(w)}
      BY <2>14 DEF MarkL2, MarkL1, DetailInv, Rowly
    <3>2. /\ lost' \in [Places -> Versions] /\ \A p \in Places : lost[p] <= lost'[p]
          /\ fanout' \in [Instances -> Nat]
          /\ \A i \in Instances : lost'[Uncached] <= lost'[i] /\ fanout[i] <= fanout'[i]
      BY <3>1 DEF DetailInv, Rowly, Versions
    <3> QED
      BY <2>10, <3>1, <3>2
  <2>15. ASSUME NEW w \in Writers, WriterDies(w) PROVE DetailInv'
    <3>0. /\ Rowly /\ Instances \subseteq Places /\ writer[w].v \in Versions /\ Uncached \notin Instances
          /\ DOMAIN lost = Places /\ Uncached \in Places
      BY DetailAssumption DEF DetailInv, Rowly, WriterKinds, Places
    <3>1. /\ writer[w].pc # "idle" /\ WriterStep(w, "idle")
          /\ UNCHANGED <<row, l1, l2, fanout, detailReader>>
      BY <2>15 DEF WriterDies
    <3>2. /\ fanout' \in [Instances -> Nat] /\ DOMAIN l1' = Instances
          /\ \A i \in Instances : fanout[i] <= fanout'[i]
      BY <3>0, <3>1 DEF Rowly
    <3>3. /\ lost' \in [Places -> Versions] /\ \A p \in Places : lost[p] <= lost'[p]
          /\ \A i \in Instances : lost'[Uncached] <= lost'[i]
          /\ writer[w].pc = "delete" => \A p \in Places : writer[w].v <= lost'[p]
          /\ writer[w].pc = "publish" => \A i \in Instances : writer[w].v <= lost'[i]
      <4>1. CASE writer[w].pc = "delete"
        BY <2>15, <3>0, <4>1, LossesGrow DEF WriterDies
      <4>2. CASE writer[w].pc = "publish"
        BY <2>15, <3>0, <4>2, LossesGrow DEF WriterDies
      <4>3. CASE writer[w].pc \notin {"delete", "publish"}
        BY <2>15, <3>0, <4>3 DEF WriterDies, Rowly, Versions
      <4> QED
        BY <4>1, <4>2, <4>3
    <3> QED
      BY <2>10, <3>0, <3>1, <3>2, <3>3
  <2>16. ASSUME NEW i \in Instances, DropL1(i) PROVE DetailInv'
    <3>1. UNCHANGED <<row, l2, detailReader, writer, lost>>
      BY <2>16 DEF DropL1
    <3>2. /\ fanout' \in [Instances -> Nat] /\ DOMAIN l1' = Instances /\ l1'[i] = Uncached
          /\ \A j \in Instances : j # i => fanout'[j] = fanout[j] /\ l1'[j] = l1[j]
      BY <2>16 DEF DropL1, DetailInv, Rowly
    <3>3. \A j \in Instances : ExplainedIn(j)'
      BY <3>1, <3>2 DEF DetailInv, ExplainedIn
    <3> QED
      BY <3>1, <3>2, <3>3 DEF DetailInv, Rowly, Read, Explained
  <2>17. ASSUME NEW i \in Instances, LoseFanout(i) PROVE DetailInv'
    <3>0. Rowly /\ Uncached \notin {i} /\ row \in Versions /\ i \in Places
      BY DetailAssumption DEF DetailInv, Rowly, Places
    <3>1. UNCHANGED <<row, l1, l2, detailReader, writer>> /\ NotAnnounced({i}, row)
      BY <2>17 DEF LoseFanout
    <3>2. /\ fanout' \in [Instances -> Nat]
          /\ \A j \in Instances : j # i => fanout'[j] = fanout[j]
      BY <2>17 DEF LoseFanout, DetailInv, Rowly
    <3>3. /\ lost' \in [Places -> Versions] /\ \A p \in Places : lost[p] <= lost'[p]
          /\ row <= lost'[i] /\ \A j \in Instances : lost'[Uncached] <= lost'[j]
      BY <3>0, <3>1, LossesGrow
    <3>4. Rowly'
      BY <3>0, <3>1, <3>2, <3>3 DEF Rowly
    <3>5. ASSUME NEW c, Explained(c) PROVE Explained(c)'
      BY <3>1, <3>3, <3>5 DEF Explained, Copies, Versions, Places, DetailInv, Rowly
    <3>6. ASSUME NEW j \in Instances PROVE ExplainedIn(j)'
      <4>1. ExplainedIn(j) /\ j \in Places
        BY DEF DetailInv, Places
      <4> QED
        BY <3>0, <3>1, <3>2, <3>3, <4>1 DEF ExplainedIn, Copies, Versions, Rowly
    <3> QED
      BY <3>1, <3>4, <3>5, <3>6 DEF DetailInv, Read
  <2>18. CASE UNCHANGED detailVars
    BY <2>18 DEF detailVars, DetailInv, Rowly, Read, Explained, ExplainedIn
  <2> QED
    BY <2>1, <2>2, <2>3, <2>4, <2>5, <2>7, <2>8, <2>9, <2>11, <2>12, <2>13, <2>14, <2>15, <2>16, <2>17, <2>18
    DEF DetailNext
<1> QED BY <1>1, <1>2, PTL DEF DetailSafety

\* An old copy is served only while its change is being announced, or if it was
\* announced nowhere, or if a read ran across the deletion of L2; so a read
\* that starts later never brings it back (video/service.go:704-724).
THEOREM StaleIsExplained == DetailSafety => []StaleHasReason
<1>1. DetailInv => StaleHasReason
  BY DEF DetailInv, Explained, ExplainedIn, StaleHasReason
<1> QED BY <1>1, DetailHolds, PTL

-----------------------------------------------------------------------------
\* A set of numbers has a least one.
LEMMA LeastOne ==
    ASSUME NEW T \in SUBSET Nat, T # {}
    PROVE  \E n \in T : \A m \in T : n <= m
<1> DEFINE R == OpToRel(<, Nat)
<1>1. IsWellFoundedOn(R, Nat)
  BY NatLessThanWellFounded
<1>2. \A m, n \in Nat : <<m, n>> \in R <=> m < n
  BY DEF OpToRel
<1> HIDE DEF R
<1>3. PICK n \in T : \A m \in T : ~ (<<m, n>> \in R)
  BY <1>1, WFMin
<1>4. \A m \in T : ~ (m < n)
  BY <1>2, <1>3, Zenon
<1> HIDE DEF R
<1> QED BY <1>4

\* The first n of a finite set in a strict order are n, and are all before
\* whatever is not among them.
FirstOf(S, R, n) == {x \in S : Cardinality({u \in S : <<u, x>> \in R}) < n}

\* Who is left out has n before it.  Otherwise the least rank would be that of
\* one with fewer than n before it that is not among the first.
LEMMA FirstAreMany ==
    ASSUME NEW S, IsFiniteSet(S), NEW R, NEW n \in Nat \ {0},
           \A x \in S : <<x, x>> \notin R,
           \A x, y, z \in S : <<x, y>> \in R /\ <<y, z>> \in R => <<x, z>> \in R,
           \A x, y \in S : x # y => <<x, y>> \in R \/ <<y, x>> \in R,
           NEW v \in S \ FirstOf(S, R, n)
    PROVE  /\ Cardinality(FirstOf(S, R, n)) = n
           /\ \A t \in FirstOf(S, R, n) : <<t, v>> \in R
<1> DEFINE Over(x) == {u \in S : <<u, x>> \in R}
           rank(x) == Cardinality(Over(x))
           T == FirstOf(S, R, n)
<1>0. T = {x \in S : rank(x) < n}
  BY DEF FirstOf
<1>1. \A x \in S : IsFiniteSet(Over(x)) /\ rank(x) \in Nat
  <2> TAKE x \in S
  <2>1. IsFiniteSet(Over(x))
    BY FS_Subset
  <2> QED BY <2>1, FS_CardinalityType
<1>2. ASSUME NEW u \in S, NEW x \in S, <<u, x>> \in R  PROVE rank(u) < rank(x)
  <2>1. Over(u) \subseteq Over(x) /\ u \in Over(x) /\ u \notin Over(u)
    BY <1>2
  <2>2. rank(u) <= rank(x) /\ (rank(u) = rank(x) => Over(u) = Over(x))
    <3>1. IsFiniteSet(Over(x)) /\ Over(u) \in SUBSET Over(x)
      BY <1>1, <2>1
    <3> HIDE DEF Over
    <3> QED BY <3>1, FS_Subset
  <2>3. rank(u) \in Nat /\ rank(x) \in Nat
    BY <1>1
  <2> HIDE DEF Over, rank
  <2> QED BY <2>1, <2>2, <2>3
<1> HIDE DEF rank, Over
<1>3. ASSUME NEW x \in S \ T  PROVE \A t \in T : <<t, x>> \in R
  <2> SUFFICES ASSUME NEW t \in T, <<t, x>> \notin R  PROVE FALSE
    OBVIOUS
  <2>1. t \in S /\ t # x /\ rank(t) < n /\ ~ (rank(x) < n)
    BY <1>0
  <2>2. <<x, t>> \in R
    BY <2>1
  <2>3. rank(x) < rank(t)
    BY <1>2, <2>1, <2>2
  <2> QED BY <1>1, <2>1, <2>3
<1>4. Cardinality(T) >= n
  <2>1. {rank(x) : x \in S \ T} \in SUBSET Nat /\ {rank(x) : x \in S \ T} # {}
    BY <1>1
  <2>2. PICK k \in {rank(x) : x \in S \ T} : \A m \in {rank(x) : x \in S \ T} : k <= m
    BY <2>1, LeastOne
  <2>3. PICK w \in S \ T : k = rank(w)
    BY <2>2
  <2>4. Over(w) \subseteq T
    <3> SUFFICES ASSUME NEW u \in Over(w), u \notin T  PROVE FALSE
      OBVIOUS
    <3>1. u \in S /\ <<u, w>> \in R
      BY DEF Over
    <3>2. rank(u) < rank(w)
      BY <1>2, <3>1
    <3>3. rank(w) <= rank(u)
      BY <2>2, <2>3, <3>1
    <3> QED BY <1>1, <3>1, <3>2, <3>3
  <2>5. T \subseteq Over(w)
    BY <1>0, <1>3 DEF Over
  <2>6. Cardinality(T) = rank(w)
    <3>1. T = Over(w)
      BY <2>4, <2>5
    <3> QED BY <3>1, Zenon DEF rank
  <2>7. ~ (rank(w) < n) /\ rank(w) \in Nat
    BY <1>0, <1>1
  <2> QED BY <2>6, <2>7
<1>5. Cardinality(T) <= n
  <2>0. IsFiniteSet(T) /\ Cardinality(T) \in Nat
    <3>1. T \in SUBSET S
      BY <1>0
    <3>2. IsFiniteSet(T)
      BY <3>1, FS_Subset
    <3> QED BY <3>2, FS_CardinalityType
  <2>1. T # {}
    BY <1>4, FS_EmptySet
  <2>2. {n - rank(x) : x \in T} \in SUBSET Nat /\ {n - rank(x) : x \in T} # {}
    BY <1>0, <1>1, <2>1
  <2>3. PICK k \in {n - rank(x) : x \in T} : \A m \in {n - rank(x) : x \in T} : k <= m
    BY <2>2, LeastOne
  <2>4. PICK t \in T : k = n - rank(t)
    BY <2>3
  <2>5. \A x \in T : rank(x) <= rank(t)
    BY <1>0, <1>1, <2>3, <2>4
  <2>6. T \ {t} \subseteq Over(t)
    <3> SUFFICES ASSUME NEW x \in T, x # t, x \notin Over(t)  PROVE FALSE
      OBVIOUS
    <3>1. x \in S /\ t \in S
      BY <1>0
    <3>2. <<t, x>> \in R
      BY <3>1 DEF Over
    <3>3. rank(t) < rank(x)
      BY <1>2, <3>1, <3>2
    <3> QED BY <1>1, <2>5, <3>1, <3>3
  <2>7. IsFiniteSet(Over(t)) /\ rank(t) \in Nat /\ rank(t) < n
    BY <1>0, <1>1
  <2>8. Cardinality(T \ {t}) <= rank(t)
    BY <2>6, <2>7, FS_Subset DEF rank
  <2>9. Cardinality(T \ {t}) = Cardinality(T) - 1
    BY <2>0, FS_RemoveElement
  <2> HIDE DEF T
  <2> QED BY <2>0, <2>7, <2>8, <2>9
<1>6. IsFiniteSet(T)
  <2>1. T \in SUBSET S
    BY <1>0
  <2> QED BY <2>1, FS_Subset
<1>7. Cardinality(T) \in Nat
  BY <1>6, FS_CardinalityType
<1>8. Cardinality(T) = n
  BY <1>4, <1>5, <1>7
<1>9. v \in S \ T
  OBVIOUS
<1>10. \A t \in T : <<t, v>> \in R
  BY <1>3, <1>9
<1> QED BY <1>8, <1>10

-----------------------------------------------------------------------------
\* Finitely many videos were uploaded.
LEMMA NumbersFinite == \A S \in SUBSET Uploads : IsFiniteSet(S) /\ Cardinality(S) \in Nat
<1>1. IsFiniteSet(Uploads)
  BY LatestAssumption, FS_Interval DEF Uploads
<1> QED BY <1>1, FS_Subset, FS_CardinalityType

\* A video cut from a page has as many newer ones in it as the page holds.
LEMMA NewestFull ==
    ASSUME NEW ids \in SUBSET Uploads, NEW v \in ids \ Newest(ids, PageLimit)
    PROVE  Cardinality({u \in Newest(ids, PageLimit) : v < u}) = PageLimit
<1> DEFINE R == {p \in ids \X ids : p[2] < p[1]}
<1>1. \A x, y \in ids : <<x, y>> \in R <=> y < x
  OBVIOUS
<1>2. ids \subseteq Int
  BY DEF Uploads
<1> HIDE DEF R
<1>3. Newest(ids, PageLimit) = FirstOf(ids, R, PageLimit)
  <2>1. \A x \in ids : {u \in ids : x < u} = {u \in ids : <<u, x>> \in R}
    BY <1>1
  <2> QED BY <2>1, Zenon DEF Newest, FirstOf
<1>4. IsFiniteSet(ids)
  BY NumbersFinite
<1>5. /\ \A x \in ids : <<x, x>> \notin R
      /\ \A x, y, z \in ids : <<x, y>> \in R /\ <<y, z>> \in R => <<x, z>> \in R
      /\ \A x, y \in ids : x # y => <<x, y>> \in R \/ <<y, x>> \in R
  BY <1>1, <1>2
<1>6. v \in ids \ FirstOf(ids, R, PageLimit)
  BY <1>3
<1>7. /\ Cardinality(FirstOf(ids, R, PageLimit)) = PageLimit
      /\ \A t \in FirstOf(ids, R, PageLimit) : <<t, v>> \in R
  BY <1>4, <1>5, <1>6, LatestAssumption, FirstAreMany
<1>8. \A t \in FirstOf(ids, R, PageLimit) : t \in ids
  BY DEF FirstOf
<1>9. {u \in FirstOf(ids, R, PageLimit) : v < u} = FirstOf(ids, R, PageLimit)
  BY <1>1, <1>6, <1>7, <1>8
<1> QED BY <1>3, <1>7, <1>9, Zenon

\* A read of the timeline leaves out only what is behind ReadCount newer videos.
LEMMA ReadIsCut ==
    ASSUME timeline \in [Uploads -> Nat], NEW v \in Uploads, timeline[v] # 0,
           v \notin TimelineIds(Top)
    PROVE  Cardinality(TimelineIds(Top)) = ReadCount
<1> DEFINE S == Readable(Top)
           R == {p \in S \X S : Above(p[1], p[2])}
<1>1. \A x, y \in S : <<x, y>> \in R <=> Above(x, y)
  OBVIOUS
<1>2. S \subseteq Uploads /\ v \in S
  BY DEF Readable
<1>3. /\ \A x \in S : ~ Above(x, x)
      /\ \A x, y, z \in S : Above(x, y) /\ Above(y, z) => Above(x, z)
      /\ \A x, y \in S : x # y => Above(x, y) \/ Above(y, x)
  <2>1. \A x \in S : x \in Int /\ timeline[x] \in Int
    BY <1>2 DEF Uploads
  <2> HIDE DEF S, R
  <2> QED BY <2>1 DEF Above
<1> HIDE DEF R
<1>4. TimelineIds(Top) = FirstOf(S, R, ReadCount)
  <2>1. \A x \in S : {u \in S : Above(u, x)} = {u \in S : <<u, x>> \in R}
    BY <1>1
  <2> QED BY <2>1, Zenon DEF TimelineIds, FirstOf
<1>5. IsFiniteSet(S)
  BY <1>2, NumbersFinite
<1> HIDE DEF S
<1>6. /\ \A x \in S : <<x, x>> \notin R
      /\ \A x, y, z \in S : <<x, y>> \in R /\ <<y, z>> \in R => <<x, z>> \in R
      /\ \A x, y \in S : x # y => <<x, y>> \in R \/ <<y, x>> \in R
  <2> HIDE DEF S
  <2> QED BY <1>1, <1>3, Zenon
<1>7. v \in S \ FirstOf(S, R, ReadCount)
  BY <1>2, <1>4
<1>8. Cardinality(FirstOf(S, R, ReadCount)) = ReadCount
  BY <1>5, <1>6, <1>7, LatestAssumption, FirstAreMany
<1> QED BY <1>4, <1>8, Zenon
-----------------------------------------------------------------------------
\* What a walker has read of the timeline for a first page is all that was
\* announced by its version, unless the read was cut.
ReadIsFresh ==
    \A c \in Walkers : \A v \in shownable :
        /\ walker[c].pc = "rows" /\ walker[c].cursor = Top
        /\ Cardinality(walker[c].ids) # ReadCount
        /\ announced[v] # 0 /\ announced[v] <= walker[c].version
        => v \in walker[c].ids

FreshTypes ==
    /\ clock \in Nat /\ shownable \subseteq Uploads
    /\ pushes \subseteq [video : Uploads, at : Nat \ {0}, added : BOOLEAN]
    /\ timeline \in [Uploads -> Nat] /\ announced \in [Uploads -> Nat]
    /\ pageVersion \in Nat \ {0}
    /\ DOMAIN walker = Walkers
    /\ \A c \in Walkers : /\ DOMAIN walker[c] = DOMAIN Resting
                          /\ walker[c].ids \subseteq Uploads
                          /\ walker[c].version \in Nat /\ walker[c].version <= pageVersion
    /\ \A p \in pages : p.key.version \in Nat /\ p.key.version <= pageVersion

FreshInv ==
    /\ FreshTypes
    /\ \A v \in shownable : announced[v] # 0 => timeline[v] # 0
    /\ ReadIsFresh /\ VersionMeansFresh

\* The page a walker stores leaves out of what it found only what is behind a
\* full page of newer videos.
LEMMA StoredIsFresh ==
    ASSUME FreshInv, NEW c \in Walkers, NEW found \in SUBSET Uploads, NEW more, NEW cut,
           StorePage(c, Newest(found, PageLimit), more, cut),
           Take(c, Newest(found, PageLimit), more),
           ~cut /\ walker[c].cursor = Top =>
             \A v \in shownable : announced[v] # 0 /\ announced[v] <= walker[c].version => v \in found,
           UNCHANGED <<clock, shownable, pushes, pageVersion, announced>>,
           timeline' = [v \in Uploads |-> IF v \in walker[c].ids \ shownable THEN 0 ELSE timeline[v]]
    PROVE  FreshInv'
<1> DEFINE ids == Newest(found, PageLimit)
           new == [key |-> PageKey(c), ids |-> ids, more |-> more, cut |-> cut]
<1>1. pages' \subseteq pages \union {new}
  BY DEF StorePage
<1>2. new.key = [version |-> walker[c].version, cursor |-> walker[c].cursor] /\ new.ids = ids /\ new.cut = cut
  BY DEF PageKey
<1>3. walker' = [walker EXCEPT ![c] = [Resting EXCEPT
           !.cursor = IF ids = {} THEN walker[c].cursor ELSE Min(ids), !.ended = ~more]]
  BY DEF Take
<1>4. \A v \in found \ ids : Cardinality({u \in ids : v < u}) = PageLimit
  BY NewestFull
<1> HIDE DEF new, ids
<1>5. /\ DOMAIN walker' = Walkers
      /\ \A d \in Walkers : /\ DOMAIN walker'[d] = DOMAIN Resting
                            /\ walker'[d].ids \subseteq Uploads
                            /\ walker'[d].version \in Nat /\ walker'[d].version <= pageVersion
                            /\ walker'[d].pc = "rows" => walker'[d] = walker[d]
  BY <1>3 DEF FreshInv, FreshTypes, Resting
<1>6. FreshTypes'
  <2>1. timeline' \in [Uploads -> Nat]
    BY DEF FreshInv, FreshTypes
  <2>2. \A p \in pages' : p.key.version \in Nat /\ p.key.version <= pageVersion
    BY <1>1, <1>2 DEF FreshInv, FreshTypes
  <2>3. /\ clock' \in Nat /\ shownable' \subseteq Uploads
        /\ pushes' \subseteq [video : Uploads, at : Nat \ {0}, added : BOOLEAN]
        /\ announced' \in [Uploads -> Nat] /\ pageVersion' \in Nat \ {0} /\ pageVersion' = pageVersion
    BY DEF FreshInv, FreshTypes
  <2> QED BY <1>5, <2>1, <2>2, <2>3, Zenon DEF FreshTypes
<1>7. ReadIsFresh'
  <2> SUFFICES ASSUME NEW d \in Walkers, NEW v \in shownable,
                      walker'[d].pc = "rows", walker'[d].cursor = Top,
                      Cardinality(walker'[d].ids) # ReadCount,
                      announced[v] # 0, announced[v] <= walker'[d].version
               PROVE  v \in walker'[d].ids
    BY DEF ReadIsFresh
  <2>1. walker'[d] = walker[d]
    BY <1>5, Zenon
  <2> QED BY <2>1 DEF FreshInv, ReadIsFresh
<1>8. VersionMeansFresh'
  <2> SUFFICES ASSUME NEW p \in pages', NEW v \in shownable \ p.ids,
                      p.key.cursor = Top, ~p.cut, announced[v] # 0, announced[v] <= p.key.version
               PROVE  Cardinality({u \in p.ids : v < u}) = PageLimit
    BY DEF VersionMeansFresh
  <2>1. CASE p \in pages
    BY <2>1 DEF FreshInv, VersionMeansFresh
  <2>2. CASE p = new
    <3>1. v \in found \ ids
      BY <1>2, <2>2
    <3> QED BY <1>2, <1>4, <2>2, <3>1
  <2> QED BY <1>1, <2>1, <2>2
<1>9. \A v \in shownable : announced[v] # 0 => timeline'[v] # 0
  BY DEF FreshInv, FreshTypes
<1> QED BY <1>6, <1>7, <1>8, <1>9 DEF FreshInv

\* Reads and cached first pages stay fresh.
LEMMA FreshHolds == LatestSafety => []FreshInv
<1>1. LatestInit => FreshInv
  BY DEF LatestInit, FreshInv, FreshTypes, ReadIsFresh, VersionMeansFresh, Resting
<1>2. FreshInv /\ [LatestNext]_latestVars => FreshInv'
  <2> SUFFICES ASSUME FreshInv, [LatestNext]_latestVars  PROVE FreshInv'
    OBVIOUS
  <2> USE DEF latestStores
  <2>1. CASE Upload
    BY <2>1 DEF Upload, FreshInv, FreshTypes, ReadIsFresh, VersionMeansFresh
  <2>2. ASSUME NEW v \in Uploads, Approve(v)  PROVE FreshInv'
    <3>1. /\ shownable' = shownable \union {v} /\ announced' = [announced EXCEPT ![v] = 0]
          /\ pushes' = pushes \union {[video |-> v, at |-> clock, added |-> FALSE]}
          /\ UNCHANGED <<clock, timeline, pageVersion, pages, walker, due>>
          /\ v <= clock
      BY <2>2 DEF Approve
    <3>2. clock \in Nat \ {0}
      BY <3>1 DEF FreshInv, FreshTypes, Uploads
    <3>3. \A u \in shownable' : announced'[u] # 0 => u \in shownable /\ announced'[u] = announced[u]
      BY <3>1 DEF FreshInv, FreshTypes
    <3>6. [video |-> v, at |-> clock, added |-> FALSE] \in [video : Uploads, at : Nat \ {0}, added : BOOLEAN]
      BY <3>2
    <3>7. pushes' \subseteq [video : Uploads, at : Nat \ {0}, added : BOOLEAN]
      BY <3>1, <3>6, Zenon DEF FreshInv, FreshTypes
    <3>8. announced' \in [Uploads -> Nat] /\ shownable' \subseteq Uploads
      BY <3>1 DEF FreshInv, FreshTypes
    <3>4. FreshTypes'
      BY <3>1, <3>7, <3>8, Zenon DEF FreshInv, FreshTypes
    <3>5. ReadIsFresh' /\ VersionMeansFresh'
      BY <3>1, <3>3 DEF FreshInv, ReadIsFresh, VersionMeansFresh
    <3> QED BY <3>1, <3>3, <3>4, <3>5 DEF FreshInv
  <2>3. ASSUME NEW v \in Uploads, WithdrawListed(v)  PROVE FreshInv'
    BY <2>3 DEF WithdrawListed, FreshInv, FreshTypes, ReadIsFresh, VersionMeansFresh
  <2>4. ASSUME NEW e \in pushes, AddToTimeline(e)  PROVE FreshInv'
    BY <2>4 DEF AddToTimeline, FreshInv, FreshTypes, ReadIsFresh, VersionMeansFresh
  <2>5. ASSUME NEW e \in pushes, NEW again \in BOOLEAN, BumpVersion(e, again)  PROVE FreshInv'
    <3>1. /\ pageVersion' = pageVersion + 1
          /\ announced' = [announced EXCEPT ![e.video] =
                IF timeline[e.video] # 0 /\ e.video \in shownable THEN pageVersion + 1 ELSE @]
          /\ UNCHANGED <<clock, shownable, timeline, pages, walker, due>>
      BY <2>5 DEF BumpVersion
    <3>2. pushes' \subseteq [video : Uploads, at : Nat \ {0}, added : BOOLEAN]
      BY <2>5 DEF BumpVersion, FreshInv, FreshTypes
    <3>3. e.video \in Uploads /\ pageVersion \in Nat /\ announced \in [Uploads -> Nat]
          /\ shownable \subseteq Uploads
      BY DEF FreshInv, FreshTypes
    <3>4. announced' \in [Uploads -> Nat]
      BY <3>1, <3>3
    <3>5. \A u \in shownable : \/ announced'[u] = announced[u]
                               \/ timeline[u] # 0 /\ announced'[u] = pageVersion + 1
      <4> TAKE u \in shownable
      <4>1. CASE u = e.video
        <5>1. announced'[u] = IF timeline[u] # 0 /\ u \in shownable THEN pageVersion + 1 ELSE announced[u]
          BY <3>1, <3>3, <4>1, Zenon
        <5> QED BY <5>1
      <4>2. CASE u # e.video
        <5>1. announced'[u] = announced[u]
          BY <3>1, <3>3, <4>2, Zenon
        <5> QED BY <5>1
      <4> QED BY <4>1, <4>2
    <3>6. FreshTypes'
      BY <3>1, <3>2, <3>4 DEF FreshInv, FreshTypes
    <3>7. ReadIsFresh'
      BY <3>1, <3>3, <3>5 DEF FreshInv, FreshTypes, ReadIsFresh
    <3>8. VersionMeansFresh'
      BY <3>1, <3>3, <3>5 DEF FreshInv, FreshTypes, VersionMeansFresh
    <3> QED BY <3>1, <3>5, <3>6, <3>7, <3>8 DEF FreshInv
  <2>6. ASSUME NEW c \in Walkers, Begin(c)  PROVE FreshInv'
    BY <2>6 DEF Begin, FreshInv, FreshTypes, ReadIsFresh, VersionMeansFresh, Resting
  <2>7. ASSUME NEW c \in Walkers, ReadVersion(c)  PROVE FreshInv'
    BY <2>7 DEF ReadVersion, FreshInv, FreshTypes, ReadIsFresh, VersionMeansFresh, Resting
  <2>8. ASSUME NEW c \in Walkers, CachedPage(c)  PROVE FreshInv'
    BY <2>8 DEF CachedPage, Take, FreshInv, FreshTypes, ReadIsFresh, VersionMeansFresh, Resting
  <2>9. ASSUME NEW c \in Walkers, ReadTimeline(c)  PROVE FreshInv'
    <3>1. \A v \in shownable : announced[v] # 0 /\ v \notin TimelineIds(Top) =>
             Cardinality(TimelineIds(Top)) = ReadCount
      BY ReadIsCut DEF FreshInv, FreshTypes
    <3>2. TimelineIds(walker[c].cursor) \subseteq Uploads
      BY DEF TimelineIds, Readable
    <3>3. walker' = [walker EXCEPT ![c].pc = "rows", ![c].ids = TimelineIds(walker[c].cursor)]
          /\ UNCHANGED <<latestStores, pages, due>>
      BY <2>9 DEF ReadTimeline
    <3>a. DOMAIN walker = Walkers /\ DOMAIN walker[c] = {"pc", "cursor", "version", "ids", "ended"}
      BY DEF FreshInv, FreshTypes, Resting
    <3>4. /\ DOMAIN walker' = Walkers /\ \A d \in Walkers \ {c} : walker'[d] = walker[d]
          /\ DOMAIN walker'[c] = DOMAIN Resting /\ walker'[c].ids = TimelineIds(walker[c].cursor)
          /\ walker'[c].version = walker[c].version /\ walker'[c].cursor = walker[c].cursor
      BY <3>3, <3>a DEF Resting
    <3>5. FreshTypes'
      BY <3>2, <3>3, <3>4 DEF FreshInv, FreshTypes
    <3>6. ReadIsFresh'
      <4> SUFFICES ASSUME NEW d \in Walkers, NEW v \in shownable,
                          walker'[d].pc = "rows", walker'[d].cursor = Top,
                          Cardinality(walker'[d].ids) # ReadCount,
                          announced[v] # 0, announced[v] <= walker'[d].version
                   PROVE  v \in walker'[d].ids
        BY <3>3 DEF ReadIsFresh
      <4>1. CASE d = c
        <5>1. Cardinality(TimelineIds(Top)) # ReadCount /\ walker'[d].ids = TimelineIds(Top)
          BY <3>4, <4>1
        <5> QED BY <3>1, <5>1
      <4>2. CASE d # c
        <5>1. walker'[d] = walker[d]
          BY <3>4, <4>2
        <5> QED BY <5>1 DEF FreshInv, ReadIsFresh
      <4> QED BY <4>1, <4>2
    <3> QED BY <3>3, <3>5, <3>6 DEF FreshInv, VersionMeansFresh
  <2>10. ASSUME NEW c \in Walkers, PageFromTimeline(c)  PROVE FreshInv'
    <3>1. Shown(c) \in SUBSET Uploads
      BY DEF Shown, FreshInv, FreshTypes
    <3>2. PICK cut : cut = (Cardinality(walker[c].ids) = ReadCount)
      OBVIOUS
    <3>3. PICK more : more = (Cardinality(Shown(c)) > PageLimit)
      OBVIOUS
    <3>4. /\ Take(c, Newest(Shown(c), PageLimit), more)
          /\ StorePage(c, Newest(Shown(c), PageLimit), more, cut)
          /\ timeline' = [v \in Uploads |-> IF v \in walker[c].ids \ shownable THEN 0 ELSE timeline[v]]
          /\ UNCHANGED <<clock, shownable, pushes, pageVersion, announced>>
          /\ walker[c].pc = "rows"
      BY <2>10, <3>2, <3>3 DEF PageFromTimeline
    <3>5. ~cut /\ walker[c].cursor = Top =>
             \A v \in shownable : announced[v] # 0 /\ announced[v] <= walker[c].version => v \in Shown(c)
      BY <3>2, <3>4 DEF FreshInv, ReadIsFresh, Shown, BehindCursor
    <3> QED BY <3>1, <3>4, <3>5, StoredIsFresh
  <2>11. ASSUME NEW c \in Walkers, PageFromMySQL(c)  PROVE FreshInv'
    <3>1. Listed(walker[c].cursor) \in SUBSET Uploads
      BY DEF Listed, FreshInv, FreshTypes
    <3>2. PICK more : more = (Cardinality(Listed(walker[c].cursor)) > PageLimit)
      OBVIOUS
    <3>3. /\ Take(c, Newest(Listed(walker[c].cursor), PageLimit), more)
          /\ StorePage(c, Newest(Listed(walker[c].cursor), PageLimit), more, FALSE)
          /\ timeline' = [v \in Uploads |-> IF v \in walker[c].ids \ shownable THEN 0 ELSE timeline[v]]
          /\ UNCHANGED <<clock, shownable, pushes, pageVersion, announced>>
      BY <2>11, <3>2 DEF PageFromMySQL
    <3>4. walker[c].cursor = Top => \A v \in shownable : v \in Listed(walker[c].cursor)
      BY DEF Listed, BehindCursor
    <3> QED BY <3>1, <3>3, <3>4, StoredIsFresh
  <2>12. ASSUME NEW p \in pages, ExpirePage(p)  PROVE FreshInv'
    BY <2>12 DEF ExpirePage, FreshInv, FreshTypes, ReadIsFresh, VersionMeansFresh
  <2>13. CASE UNCHANGED latestVars
    BY <2>13 DEF latestVars, FreshInv, FreshTypes, ReadIsFresh, VersionMeansFresh
  <2> QED BY <2>1, <2>2, <2>3, <2>4, <2>5, <2>6, <2>7, <2>8, <2>9, <2>10, <2>11, <2>12, <2>13 DEF LatestNext
<1> QED BY <1>1, <1>2, PTL DEF LatestSafety

\* A cached first page holds whatever was announced by its version, for any
\* number of videos, walkers and page sizes, whatever fails between the calls:
\* a reader takes the version before it reads, the worker bumps it after it
\* adds (feed/service.go:103, worker/timeline_worker.go:57).
THEOREM PagesAreFresh == LatestSafety => []VersionMeansFresh
<1>1. FreshInv => VersionMeansFresh
  BY DEF FreshInv
<1> QED BY <1>1, FreshHolds, PTL

-----------------------------------------------------------------------------
\* A list of more than none has a first row: the one nobody comes before.
LEMMA FirstThere ==
    ASSUME NEW S, IsFiniteSet(S), S # {}, NEW R,
           \A x \in S : <<x, x>> \notin R,
           \A x, y, z \in S : <<x, y>> \in R /\ <<y, z>> \in R => <<x, z>> \in R,
           \A x, y \in S : x # y => <<x, y>> \in R \/ <<y, x>> \in R
    PROVE  \E w \in S : \A u \in S \ {w} : <<w, u>> \in R
<1>1. FirstOf(S, R, 1) # {}
  <2>1. PICK v \in S : TRUE
    OBVIOUS
  <2>2. CASE v \in FirstOf(S, R, 1)
    BY <2>2
  <2>3. CASE v \notin FirstOf(S, R, 1)
    <3>1. Cardinality(FirstOf(S, R, 1)) = 1
      BY <2>1, <2>3, FirstAreMany
    <3> QED BY <3>1, FS_EmptySet
  <2> QED BY <2>2, <2>3
<1>2. PICK w \in FirstOf(S, R, 1) : TRUE
  BY <1>1
<1>3. w \in S /\ Cardinality({u \in S : <<u, w>> \in R}) < 1
  BY <1>2 DEF FirstOf
<1>4. {u \in S : <<u, w>> \in R} = {}
  <2> DEFINE over == {u \in S : <<u, w>> \in R}
  <2>1. over \in SUBSET S
    OBVIOUS
  <2>2. Cardinality(over) < 1
    BY <1>3
  <2> HIDE DEF over
  <2>3. IsFiniteSet(over)
    BY <2>1, FS_Subset
  <2>4. Cardinality(over) \in Nat
    BY <2>3, FS_CardinalityType
  <2>5. over = {}
    BY <2>2, <2>3, <2>4, FS_EmptySet
  <2> QED BY <2>5 DEF over
<1> QED BY <1>3, <1>4
-----------------------------------------------------------------------------
Rows == [id : Nat, at : 1..LastMilli, kept : Entries]
UpsertRequests == [pc : {"none", "sent", "write"}, video : WatchedVideos \union {0},
                   pos : Positions, at : 0..LastMilli]

RecordsOK ==
    /\ session \in [video : WatchedVideos \union {0}, atEnd : BOOLEAN]
    /\ milli \in 1..LastMilli
    /\ upserts \in [Upserts -> UpsertRequests]
    /\ \A q \in Upserts : /\ upserts[q].pc # "none" => upserts[q].video # 0
                          /\ upserts[q].pc = "write" => upserts[q].at # 0
    /\ DOMAIN record = WatchedVideos
    /\ \A v \in WatchedVideos : record[v] = NoEntry \/ record[v] \in Rows

\* Rows are numbered in the order in which they were made.
IdsApart ==
    /\ \A v \in Recorded : record[v].id <= Cardinality(Recorded)
    /\ \A u, v \in Recorded : record[u].id = record[v].id => u = v

WalkOK ==
    /\ DOMAIN historyWalk = DOMAIN NoWalk
    /\ historyWalk.cursor \in Nat \X Nat

WatchInv == RecordsOK /\ IdsApart /\ WalkOK /\ WalkMissesNone

\* A row is told from no row.
LEMMA RowIsEntry == \A x \in Rows : x # NoEntry
  BY NoEntryAssumption, MilliAssumption DEF Rows, Entries, Positions

\* The history is finite, so that its size is a number.
LEMMA RecordedFinite == IsFiniteSet(Recorded) /\ Cardinality(Recorded) \in Nat
<1>1. Recorded \in SUBSET WatchedVideos
  BY DEF Recorded
<1>2. IsFiniteSet(Recorded)
  BY <1>1, SeenBeforeAssumption, FS_Subset
<1> QED BY <1>2, FS_CardinalityType

\* The rows of earlier sessions are numbered, and no walk has begun.
LEMMA WatchStarts == WatchInit => WatchInv
<1> SUFFICES ASSUME WatchInit  PROVE WatchInv
  OBVIOUS
<1> DEFINE upto(v) == {u \in SeenBefore : u <= v}
<1>1. IsFiniteSet(SeenBefore) /\ SeenBefore \subseteq Nat
  BY SeenBeforeAssumption, FS_Subset
<1>2. \A v \in SeenBefore : /\ IsFiniteSet(upto(v)) /\ Cardinality(upto(v)) \in Nat
                            /\ Cardinality(upto(v)) <= Cardinality(SeenBefore)
  <2> TAKE v \in SeenBefore
  <2>1. upto(v) \in SUBSET SeenBefore
    OBVIOUS
  <2> HIDE DEF upto
  <2>2. IsFiniteSet(upto(v)) /\ Cardinality(upto(v)) <= Cardinality(SeenBefore)
    BY <1>1, <2>1, FS_Subset
  <2> QED BY <2>2, FS_CardinalityType
<1>3. \A u, v \in SeenBefore : Cardinality(upto(u)) = Cardinality(upto(v)) => u = v
  <2>1. ASSUME NEW u \in SeenBefore, NEW v \in SeenBefore, u < v
        PROVE  Cardinality(upto(u)) # Cardinality(upto(v))
    <3>a. u \in Nat /\ v \in Nat /\ \A x \in SeenBefore : x \in Nat
      BY <1>1
    <3>b. \A x \in SeenBefore : x <= u => x <= v
      BY <2>1, <3>a
    <3>c. v <= v /\ ~(v <= u)
      BY <2>1, <3>a
    <3>1. upto(u) \in SUBSET upto(v) /\ v \in upto(v) /\ v \notin upto(u)
      BY <3>b, <3>c, Zenon
    <3>2. IsFiniteSet(upto(v))
      BY <1>2
    <3> HIDE DEF upto
    <3> QED BY <3>1, <3>2, FS_Subset
  <2> HIDE DEF upto
  <2> QED BY <1>1, <2>1
<1>4. \A v \in SeenBefore : HalfSeen(v).id = Cardinality(upto(v)) /\ HalfSeen(v) \in Rows
  <2> TAKE v \in SeenBefore
  <2>1. HalfSeen(v) = [id |-> Cardinality(upto(v)), at |-> 1, kept |-> [pos |-> 1, done |-> FALSE]]
    BY DEF HalfSeen
  <2>2. [pos |-> 1, done |-> FALSE] \in Entries /\ 1 \in 1..LastMilli
    BY EndAssumption, MilliAssumption DEF Entries, Positions
  <2> HIDE DEF upto
  <2> QED BY <1>2, <2>1, <2>2 DEF Rows
<1> HIDE DEF upto
<1>5. record = [v \in WatchedVideos |-> IF v \in SeenBefore THEN HalfSeen(v) ELSE NoEntry]
  BY DEF WatchInit
<1>6. Recorded = SeenBefore
  BY <1>4, <1>5, RowIsEntry, SeenBeforeAssumption DEF Recorded
<1>7. RecordsOK
  BY <1>4, <1>5, MilliAssumption, EndAssumption, SeenBeforeAssumption
     DEF WatchInit, RecordsOK, NotPlaying, NoUpsert, UpsertRequests, Positions
<1>8. \A v \in SeenBefore : record[v].id = Cardinality(upto(v))
  BY <1>4, <1>5, SeenBeforeAssumption
<1>9. IdsApart
  BY <1>2, <1>3, <1>6, <1>8 DEF IdsApart
<1>10. WalkOK /\ WalkMissesNone
  BY MilliAssumption DEF WatchInit, WalkOK, WalkMissesNone, NoWalk
<1> QED BY <1>7, <1>9, <1>10 DEF WatchInv

\* Whatever leaves the rows and the walk alone keeps what is said of them.
LEMMA RestKeeps ==
    ASSUME WatchInv, RecordsOK', UNCHANGED <<record, historyWalk>>
    PROVE  WatchInv'
  BY DEF WatchInv, IdsApart, WalkOK, WalkMissesNone, Recorded, Behind

\* What the player sends is of a video, and not yet stamped.
LEMMA PersistKeeps ==
    ASSUME RecordsOK, NEW v \in WatchedVideos, NEW pos \in Positions, Persist(v, pos)
    PROVE  /\ upserts' \in [Upserts -> UpsertRequests]
           /\ \A q \in Upserts : /\ upserts'[q].pc # "none" => upserts'[q].video # 0
                                 /\ upserts'[q].pc = "write" => upserts'[q].at # 0
<1>1. CASE upserts' = upserts
  BY <1>1 DEF RecordsOK
<1>2. CASE upserts' # upserts
  <2>1. PICK q \in Upserts :
          upserts' = [upserts EXCEPT ![q] = [pc |-> "sent", video |-> v, pos |-> pos, at |-> 0]]
    BY <1>2 DEF Persist
  <2>2. [pc |-> "sent", video |-> v, pos |-> pos, at |-> 0] \in UpsertRequests /\ v # 0
    BY SeenBeforeAssumption, MilliAssumption DEF UpsertRequests
  <2> QED BY <2>1, <2>2 DEF RecordsOK
<1> QED BY <1>1, <1>2

\* A report changes its row, or makes it with the next number, and touches it.
LEMMA RecordKeeps ==
    ASSUME WatchInv, NEW q \in Upserts, WriteRecord(q)
    PROVE  WatchInv'
<1> DEFINE u == upserts[q]
           w == u.video
           new == [id |-> IF record[w] = NoEntry THEN Cardinality(Recorded) + 1 ELSE record[w].id,
                   at |-> u.at, kept |-> Kept(u.pos)]
<1>1. /\ u \in UpsertRequests /\ u.pc = "write" /\ w \in WatchedVideos
      /\ u.at \in 1..LastMilli /\ u.pos \in Positions
  BY MilliAssumption DEF WriteRecord, WatchInv, RecordsOK, UpsertRequests
<1>2. /\ upserts' = [upserts EXCEPT ![q] = NoUpsert] /\ record' = [record EXCEPT ![w] = new]
      /\ historyWalk' = [historyWalk EXCEPT !.touched =
            IF historyWalk.pc = "none" THEN {} ELSE @ \union {w}]
      /\ UNCHANGED <<session, localCopy, milli>>
  BY DEF WriteRecord, watchClient
<1>3. DOMAIN record = WatchedVideos /\ \A v \in WatchedVideos : record[v] = NoEntry \/ record[v] \in Rows
  BY DEF WatchInv, RecordsOK
<1>4. Kept(u.pos) \in Entries
  BY <1>1, EndAssumption DEF Kept, Completed, Entries, Positions
<1>5. new.id = (IF record[w] = NoEntry THEN Cardinality(Recorded) + 1 ELSE record[w].id) /\ new \in Rows
  BY <1>1, <1>3, <1>4, RecordedFinite DEF Rows
<1> HIDE DEF new, w, u
<1>6. /\ DOMAIN record' = WatchedVideos /\ record'[w] = new
      /\ \A v \in WatchedVideos \ {w} : record'[v] = record[v]
  BY <1>1, <1>2, <1>3
<1>7. Recorded' = Recorded \union {w}
  BY <1>1, <1>5, <1>6, RowIsEntry DEF Recorded
<1>8. RecordsOK'
  <2>1. NoUpsert \in UpsertRequests /\ NoUpsert.pc = "none"
    BY EndAssumption, MilliAssumption DEF NoUpsert, UpsertRequests, Positions
  <2>2. /\ upserts' \in [Upserts -> UpsertRequests]
        /\ \A r \in Upserts : /\ upserts'[r].pc # "none" => upserts'[r].video # 0
                              /\ upserts'[r].pc = "write" => upserts'[r].at # 0
    BY <1>2, <2>1 DEF WatchInv, RecordsOK
  <2> QED BY <1>2, <1>3, <1>5, <1>6, <2>2 DEF WatchInv, RecordsOK
<1>9. IdsApart'
  <2>1. CASE w \in Recorded
    <3>1. Recorded' = Recorded /\ \A v \in Recorded : record'[v].id = record[v].id
      BY <1>5, <1>6, <1>7, <2>1 DEF Recorded
    <3> QED BY <3>1 DEF WatchInv, IdsApart
  <2>2. CASE w \notin Recorded
    <3>1. record'[w].id = Cardinality(Recorded) + 1
      BY <1>1, <1>5, <1>6, <2>2 DEF Recorded
    <3>2. \A v \in Recorded : record'[v].id = record[v].id /\ record[v].id \in Nat
      BY <1>3, <1>6, <2>2 DEF Recorded, Rows
    <3>3. Cardinality(Recorded') = Cardinality(Recorded) + 1
      BY <1>7, <2>2, RecordedFinite, FS_AddElement
    <3>4. \A v \in Recorded : record[v].id <= Cardinality(Recorded)
      BY DEF WatchInv, IdsApart
    <3>5. \A x, v \in Recorded : record[x].id = record[v].id => x = v
      BY DEF WatchInv, IdsApart
    <3>6. Cardinality(Recorded) \in Nat
      BY RecordedFinite
    <3> QED BY <1>7, <3>1, <3>2, <3>3, <3>4, <3>5, <3>6 DEF IdsApart
  <2> QED BY <2>1, <2>2
<1>10. /\ DOMAIN historyWalk' = DOMAIN NoWalk /\ historyWalk'.cursor = historyWalk.cursor
       /\ historyWalk'.pc = historyWalk.pc /\ historyWalk'.done = historyWalk.done
       /\ historyWalk'.listed = historyWalk.listed
       /\ historyWalk.pc # "none" => historyWalk'.touched = historyWalk.touched \union {w}
  BY <1>2 DEF WatchInv, WalkOK, NoWalk
<1>11. WalkOK'
  BY <1>10 DEF WatchInv, WalkOK
<1>12. WalkMissesNone'
  <2> SUFFICES ASSUME NEW v \in Recorded' \ historyWalk'.touched,
                      record'[v].kept.done = historyWalk'.done, historyWalk'.pc # "none"
               PROVE  /\ historyWalk'.pc = "end" => v \in historyWalk'.listed
                      /\ v \in historyWalk'.listed <=> ~(Behind(v, historyWalk.cursor)')
    BY <1>10 DEF WalkMissesNone, Behind
  <2>1. v \in Recorded \ historyWalk.touched /\ v # w /\ record'[v] = record[v]
    BY <1>6, <1>7, <1>10 DEF Recorded
  <2> QED BY <1>10, <2>1 DEF WatchInv, WalkMissesNone, Behind
<1> QED BY <1>8, <1>9, <1>11, <1>12 DEF WatchInv

\* Of any rows one is newer than the others.
LEMMA NewestComes ==
    ASSUME WatchInv, NEW rows \in SUBSET Recorded, rows # {}
    PROVE  \E w \in rows : \A u \in rows \ {w} : Newer(w, u)
<1> DEFINE R == {p \in Recorded \X Recorded : Newer(p[1], p[2])}
<1>1. \A v \in Recorded : record[v].at \in Nat /\ record[v].id \in Nat
  BY MilliAssumption DEF WatchInv, RecordsOK, Recorded, Rows
<1>2. \A x, y \in Recorded : <<x, y>> \in R <=> Newer(x, y)
  OBVIOUS
<1>3. /\ \A x \in Recorded : ~Newer(x, x)
      /\ \A x, y, z \in Recorded : Newer(x, y) /\ Newer(y, z) => Newer(x, z)
      /\ \A x, y \in Recorded : x # y => Newer(x, y) \/ Newer(y, x)
  <2>1. \A x, y \in Recorded : record[x].id = record[y].id => x = y
    BY DEF WatchInv, IdsApart
  <2> QED BY <1>1, <2>1 DEF Newer
<1> HIDE DEF R
<1>4. IsFiniteSet(rows) /\ \A x \in rows : x \in Recorded
  BY RecordedFinite, FS_Subset
<1>5. /\ \A x \in rows : <<x, x>> \notin R
      /\ \A x, y, z \in rows : <<x, y>> \in R /\ <<y, z>> \in R => <<x, z>> \in R
      /\ \A x, y \in rows : x # y => <<x, y>> \in R \/ <<y, x>> \in R
  BY <1>2, <1>3, <1>4, Zenon
<1>6. \E w \in rows : \A u \in rows \ {w} : <<w, u>> \in R
  BY <1>4, <1>5, FirstThere
<1> QED BY <1>2, <1>4, <1>6, Zenon

\* A page goes to the newest row behind the cursor, and the cursor to its row.
LEMMA ListKeeps ==
    ASSUME WatchInv, ListHistory
    PROVE  WatchInv'
<1> DEFINE rows == {v \in Recorded : InWalk(v)}
<1>1. /\ historyWalk.pc = "open" /\ UNCHANGED <<session, localCopy, upserts, record, milli>>
      /\ historyWalk' =
           IF rows = {} THEN [historyWalk EXCEPT !.pc = "end"]
           ELSE LET v == CHOOSE w \in rows : \A u \in rows \ {w} : Newer(w, u) IN
                [historyWalk EXCEPT !.pc = IF Cardinality(rows) > 1 THEN "open" ELSE "end",
                  !.cursor = <<record[v].at, record[v].id>>, !.listed = @ \union {v}]
  BY DEF ListHistory, watchClient
<1>2. RecordsOK'
  BY <1>1 DEF WatchInv, RecordsOK
<1>3. IdsApart'
  BY <1>1 DEF WatchInv, IdsApart, Recorded
<1>4. \A v \in Recorded : record[v].at \in Nat /\ record[v].id \in Nat
  BY MilliAssumption DEF WatchInv, RecordsOK, Recorded, Rows
<1>5. DOMAIN historyWalk = {"pc", "done", "cursor", "listed", "touched"}
  BY DEF WatchInv, WalkOK, NoWalk
<1>6. \A v \in Recorded \ historyWalk.touched : record[v].kept.done = historyWalk.done =>
          (v \in historyWalk.listed <=> v \notin rows)
  BY <1>1 DEF WatchInv, WalkMissesNone, InWalk
<1>7. CASE rows = {}
  <2>1. historyWalk' = [historyWalk EXCEPT !.pc = "end"]
    BY <1>1, <1>7
  <2>2. /\ DOMAIN historyWalk' = DOMAIN historyWalk /\ historyWalk'.cursor = historyWalk.cursor
        /\ historyWalk'.pc = "end" /\ historyWalk'.done = historyWalk.done
        /\ historyWalk'.listed = historyWalk.listed /\ historyWalk'.touched = historyWalk.touched
    BY <1>5, <2>1
  <2>3. WalkOK'
    BY <2>2 DEF WatchInv, WalkOK
  <2>4. WalkMissesNone'
    <3> SUFFICES ASSUME NEW v \in Recorded \ historyWalk.touched, record[v].kept.done = historyWalk.done
                 PROVE  v \in historyWalk.listed /\ ~Behind(v, historyWalk.cursor)
      BY <1>1, <2>2 DEF WalkMissesNone, Behind, Recorded
    <3>1. v \in historyWalk.listed
      BY <1>6, <1>7
    <3> QED BY <1>1, <3>1 DEF WatchInv, WalkMissesNone
  <2> QED BY <1>2, <1>3, <2>3, <2>4 DEF WatchInv
<1>8. CASE rows # {}
  <2> DEFINE v == CHOOSE w \in rows : \A u \in rows \ {w} : Newer(w, u)
  <2>1. rows \in SUBSET Recorded
    OBVIOUS
  <2>2. IsFiniteSet(rows)
    BY <2>1, RecordedFinite, FS_Subset
  <2>3. \A x \in Recorded : ~Newer(x, x)
    BY <1>4 DEF Newer
  <2>4. \A x \in rows : x \in Recorded /\ InWalk(x)
    OBVIOUS
  <2>5. \A x \in Recorded : x \in rows <=> InWalk(x)
    OBVIOUS
  <2> HIDE DEF rows
  <2>6. \E w \in rows : \A u \in rows \ {w} : Newer(w, u)
    BY <1>8, <2>1, NewestComes
  <2>7. v \in rows /\ \A u \in rows \ {v} : Newer(v, u)
    BY <2>6, Zenon
  <2>8. historyWalk' = [historyWalk EXCEPT !.pc = IF Cardinality(rows) > 1 THEN "open" ELSE "end",
                  !.cursor = <<record[v].at, record[v].id>>, !.listed = @ \union {v}]
    BY <1>1, <1>8, Zenon
  <2> HIDE DEF v
  <2>9. /\ DOMAIN historyWalk' = DOMAIN historyWalk
        /\ historyWalk'.cursor = <<record[v].at, record[v].id>>
        /\ historyWalk'.pc = IF Cardinality(rows) > 1 THEN "open" ELSE "end"
        /\ historyWalk'.done = historyWalk.done
        /\ historyWalk'.listed = historyWalk.listed \union {v}
        /\ historyWalk'.touched = historyWalk.touched
    BY <1>5, <2>8
  <2>10. v \in Recorded /\ InWalk(v) /\ record[v].at \in Nat /\ record[v].id \in Nat
    BY <1>4, <2>4, <2>7
  <2>11. WalkOK'
    <3>1. <<record[v].at, record[v].id>> \in Nat \X Nat
      BY <2>10
    <3> QED BY <2>9, <3>1 DEF WatchInv, WalkOK
  <2>12. ASSUME NEW u \in Recorded \ historyWalk.touched, record[u].kept.done = historyWalk.done
         PROVE  (u \in historyWalk.listed \union {v}) <=> ~Behind(u, <<record[v].at, record[v].id>>)
    <3>0. Behind(u, <<record[v].at, record[v].id>>) <=> Newer(v, u)
      BY <1>4, <2>10 DEF Behind, Newer
    <3>1. CASE u = v
      <4>1. ~Newer(v, u)
        BY <2>3, <2>10, <3>1
      <4> QED BY <3>0, <3>1, <4>1
    <3>2. CASE u # v /\ u \in rows
      <4>1. Newer(v, u) /\ u \notin historyWalk.listed
        BY <1>6, <2>7, <2>12, <3>2
      <4> QED BY <3>0, <3>2, <4>1
    <3>3. CASE u # v /\ u \notin rows
      <4>1. u \in historyWalk.listed
        BY <1>6, <2>12, <3>3
      <4>2. Behind(v, historyWalk.cursor) /\ ~Behind(u, historyWalk.cursor)
        BY <2>5, <2>10, <2>12, <3>3 DEF InWalk
      <4>3. PICK a \in Nat, b \in Nat : historyWalk.cursor = <<a, b>>
        BY DEF WatchInv, WalkOK
      <4>4. /\ record[v].at < a \/ (record[v].at = a /\ record[v].id < b)
            /\ ~(record[u].at < a \/ (record[u].at = a /\ record[u].id < b))
        BY <4>2, <4>3 DEF Behind
      <4>5. ~Newer(v, u)
        BY <1>4, <2>10, <4>4 DEF Newer
      <4> QED BY <3>0, <4>1, <4>5
    <3> QED BY <3>1, <3>2, <3>3
  <2>13. ASSUME NEW u \in Recorded \ historyWalk.touched, record[u].kept.done = historyWalk.done,
                ~(Cardinality(rows) > 1)
         PROVE  u \in historyWalk.listed \union {v}
    <3>1. CASE u \in rows
      <4>1. Cardinality(rows) \in Nat
        BY <2>2, FS_CardinalityType
      <4>2. Cardinality(rows \ {v}) = Cardinality(rows) - 1 /\ IsFiniteSet(rows \ {v})
        BY <2>2, <2>7, FS_RemoveElement
      <4>3. Cardinality(rows \ {v}) \in Nat
        BY <4>2, FS_CardinalityType
      <4>4. Cardinality(rows \ {v}) = 0
        BY <2>13, <4>1, <4>2, <4>3
      <4>5. rows \ {v} = {}
        BY <4>2, <4>4, FS_EmptySet
      <4> QED BY <3>1, <4>5
    <3>2. CASE u \notin rows
      BY <1>6, <2>13, <3>2
    <3> QED BY <3>1, <3>2
  <2>14. WalkMissesNone'
    <3> SUFFICES ASSUME NEW u \in Recorded \ historyWalk.touched, record[u].kept.done = historyWalk.done
                 PROVE  /\ historyWalk'.pc = "end" => u \in historyWalk.listed \union {v}
                        /\ (u \in historyWalk.listed \union {v}) <=> ~Behind(u, <<record[v].at, record[v].id>>)
      <4>1. record' = record
        BY <1>1
      <4>2. Recorded' = Recorded /\ historyWalk'.listed = historyWalk.listed \union {v}
            /\ historyWalk'.touched = historyWalk.touched /\ historyWalk'.done = historyWalk.done
        BY <2>9, <4>1 DEF Recorded
      <4>3. \A u : Behind(u, historyWalk.cursor)' <=> Behind(u, <<record[v].at, record[v].id>>)
        BY <2>9, <4>1 DEF Behind
      <4> QED BY <4>1, <4>2, <4>3 DEF WalkMissesNone
    <3>1. historyWalk'.pc = "end" => ~(Cardinality(rows) > 1)
      BY <2>9
    <3> QED BY <2>12, <2>13, <3>1
  <2> QED BY <1>2, <1>3, <2>11, <2>14 DEF WatchInv
<1> QED BY <1>7, <1>8

\* Rows, their ids and the walk stay as WatchInv has them.
LEMMA WatchHolds == WatchSafety => []WatchInv
<1>1. WatchInv /\ [WatchNext]_watchVars => WatchInv'
  <2> SUFFICES ASSUME WatchInv, [WatchNext]_watchVars  PROVE WatchInv'
    OBVIOUS
  <2>1. CASE PassMilli
    <3>1. RecordsOK' /\ UNCHANGED <<record, historyWalk>>
      BY <2>1, MilliAssumption DEF PassMilli, watchClient, WatchInv, RecordsOK
    <3> QED BY <3>1, RestKeeps
  <2>2. CASE ListHistory
    BY <2>2, ListKeeps
  <2>3. CASE LeaveHistory
    <3>1. RecordsOK' /\ IdsApart' /\ historyWalk' = NoWalk
      BY <2>3 DEF LeaveHistory, watchClient, WatchInv, RecordsOK, IdsApart, Recorded
    <3>2. WalkOK' /\ WalkMissesNone'
      BY <3>1, MilliAssumption DEF NoWalk, WalkOK, WalkMissesNone
    <3> QED BY <3>1, <3>2 DEF WatchInv
  <2>4. ASSUME NEW yes \in BOOLEAN, StartHistory(yes)  PROVE WatchInv'
    <3>1. RecordsOK' /\ IdsApart' /\ record' = record
      BY <2>4 DEF StartHistory, watchClient, WatchInv, RecordsOK, IdsApart, Recorded
    <3>2. historyWalk' = [NoWalk EXCEPT !.pc = "open", !.done = yes]
      BY <2>4 DEF StartHistory
    <3>3. /\ DOMAIN historyWalk' = DOMAIN NoWalk /\ historyWalk'.cursor = <<LastMilli + 1, 0>>
          /\ historyWalk'.listed = {} /\ historyWalk'.pc = "open"
      BY <3>2 DEF NoWalk
    <3>4. WalkOK'
      BY <3>3, MilliAssumption DEF WalkOK
    <3>5. \A v \in Recorded : Behind(v, <<LastMilli + 1, 0>>)
      BY MilliAssumption DEF WatchInv, RecordsOK, Recorded, Rows, Behind
    <3>6. WalkMissesNone'
      BY <3>1, <3>3, <3>5 DEF WalkMissesNone, Behind, Recorded
    <3> QED BY <3>1, <3>4, <3>6 DEF WatchInv
  <2>5. ASSUME NEW yes \in BOOLEAN, Note(yes)  PROVE WatchInv'
    <3>1. session' \in [video : WatchedVideos \union {0}, atEnd : BOOLEAN]
      BY <2>5 DEF Note, WatchInv, RecordsOK
    <3>2. UNCHANGED <<record, milli, historyWalk>> /\ (Persist(session.video, End) \/ UNCHANGED <<localCopy, upserts>>)
      BY <2>5 DEF Note
    <3>3. session.video \in WatchedVideos /\ End \in Positions
      BY <2>5, EndAssumption DEF Note, Playing, WatchInv, RecordsOK, Positions
    <3>4. /\ upserts' \in [Upserts -> UpsertRequests]
          /\ \A q \in Upserts : /\ upserts'[q].pc # "none" => upserts'[q].video # 0
                                /\ upserts'[q].pc = "write" => upserts'[q].at # 0
      BY <3>2, <3>3, PersistKeeps DEF WatchInv, RecordsOK
    <3>5. RecordsOK'
      BY <3>1, <3>2, <3>4 DEF WatchInv, RecordsOK
    <3> QED BY <3>2, <3>5, RestKeeps
  <2>6. ASSUME NEW pos \in Positions, NEW v \in WatchedVideos, Bind(v, pos)  PROVE WatchInv'
    <3>1. session' \in [video : WatchedVideos \union {0}, atEnd : BOOLEAN]
      BY <2>6 DEF Bind
    <3>2. UNCHANGED <<record, milli, historyWalk>>
          /\ ((Playing /\ Persist(session.video, pos)) \/ UNCHANGED <<localCopy, upserts>>)
      BY <2>6 DEF Bind
    <3>3. Playing => session.video \in WatchedVideos
      BY DEF Playing, WatchInv, RecordsOK
    <3>4. /\ upserts' \in [Upserts -> UpsertRequests]
          /\ \A q \in Upserts : /\ upserts'[q].pc # "none" => upserts'[q].video # 0
                                /\ upserts'[q].pc = "write" => upserts'[q].at # 0
      BY <3>2, <3>3, PersistKeeps DEF WatchInv, RecordsOK
    <3>5. RecordsOK'
      BY <3>1, <3>2, <3>4 DEF WatchInv, RecordsOK
    <3> QED BY <3>2, <3>5, RestKeeps
  <2>7. ASSUME NEW pos \in Positions, Flush(pos) \/ Unbind(pos)  PROVE WatchInv'
    <3>1. session' \in [video : WatchedVideos \union {0}, atEnd : BOOLEAN]
      <4>1. session' = session \/ session' = [video |-> 0, atEnd |-> FALSE]
        BY <2>7 DEF Flush, Unbind, NotPlaying
      <4>2. session \in [video : WatchedVideos \union {0}, atEnd : BOOLEAN]
        BY DEF WatchInv, RecordsOK
      <4>3. [video |-> 0, atEnd |-> FALSE] \in [video : WatchedVideos \union {0}, atEnd : BOOLEAN]
        OBVIOUS
      <4> QED BY <4>1, <4>2, <4>3, Zenon
    <3>2. UNCHANGED <<record, milli, historyWalk>> /\ Playing /\ Persist(session.video, pos)
      BY <2>7 DEF Flush, Unbind
    <3>3. session.video \in WatchedVideos
      BY <3>2 DEF Playing, WatchInv, RecordsOK
    <3>4. /\ upserts' \in [Upserts -> UpsertRequests]
          /\ \A q \in Upserts : /\ upserts'[q].pc # "none" => upserts'[q].video # 0
                                /\ upserts'[q].pc = "write" => upserts'[q].at # 0
      BY <3>2, <3>3, PersistKeeps DEF WatchInv
    <3>5. RecordsOK'
      BY <3>1, <3>2, <3>4 DEF WatchInv, RecordsOK
    <3> QED BY <3>2, <3>5, RestKeeps
  <2>8. ASSUME NEW q \in Upserts, LoseUpsert(q)  PROVE WatchInv'
    <3>1. NoUpsert \in UpsertRequests /\ NoUpsert.pc = "none"
      BY EndAssumption, MilliAssumption DEF NoUpsert, UpsertRequests, Positions
    <3>2. RecordsOK' /\ UNCHANGED <<record, historyWalk>>
      BY <2>8, <3>1 DEF LoseUpsert, watchClient, WatchInv, RecordsOK
    <3> QED BY <3>2, RestKeeps
  <2>9. ASSUME NEW q \in Upserts, ServeUpsert(q)  PROVE WatchInv'
    <3>1. upserts' = [upserts EXCEPT ![q].pc = "write", ![q].at = milli]
          /\ UNCHANGED <<session, localCopy, record, milli, historyWalk>> /\ upserts[q].pc = "sent"
      BY <2>9 DEF ServeUpsert, watchClient
    <3>2. upserts[q] \in UpsertRequests /\ milli \in 1..LastMilli /\ upserts \in [Upserts -> UpsertRequests]
      BY DEF WatchInv, RecordsOK
    <3>3. [upserts[q] EXCEPT !.pc = "write", !.at = milli] \in UpsertRequests
      <4>1. milli \in 0..LastMilli
        BY <3>2, MilliAssumption
      <4> QED BY <3>2, <4>1 DEF UpsertRequests
    <3>a. DOMAIN upserts[q] = {"pc", "video", "pos", "at"}
      BY <3>2 DEF UpsertRequests
    <3>b. DOMAIN upserts' = Upserts /\ \A r \in Upserts \ {q} : upserts'[r] = upserts[r]
      BY <3>1, <3>2
    <3>5. upserts'[q] = [upserts[q] EXCEPT !.pc = "write", !.at = milli]
      BY <3>1, <3>2
    <3>4. upserts'[q].video = upserts[q].video /\ upserts'[q].at = milli
      BY <3>5, <3>a
    <3>c. upserts[q].video # 0 /\ milli # 0
      BY <3>1, <3>2 DEF WatchInv, RecordsOK
    <3>d. upserts' \in [Upserts -> UpsertRequests]
      BY <3>1, <3>2, <3>3, <3>5
    <3>6. /\ upserts' \in [Upserts -> UpsertRequests]
          /\ \A r \in Upserts : /\ upserts'[r].pc # "none" => upserts'[r].video # 0
                                /\ upserts'[r].pc = "write" => upserts'[r].at # 0
      <4>1. ASSUME NEW r \in Upserts
            PROVE  /\ upserts'[r].pc # "none" => upserts'[r].video # 0
                   /\ upserts'[r].pc = "write" => upserts'[r].at # 0
        <5>1. CASE r = q
          BY <3>4, <3>c, <5>1
        <5>2. CASE r # q
          <6>1. upserts'[r] = upserts[r]
            BY <3>b, <5>2
          <6> QED BY <6>1 DEF WatchInv, RecordsOK
        <5> QED BY <5>1, <5>2
      <4> QED BY <3>d, <4>1
    <3>7. RecordsOK'
      BY <3>1, <3>6 DEF WatchInv, RecordsOK
    <3> QED BY <3>1, <3>7, RestKeeps
  <2>10. ASSUME NEW q \in Upserts, WriteRecord(q)  PROVE WatchInv'
    BY <2>10, RecordKeeps
  <2>11. CASE UNCHANGED watchVars
    <3>1. RecordsOK' /\ UNCHANGED <<record, historyWalk>>
      BY <2>11 DEF watchVars, WatchInv, RecordsOK
    <3> QED BY <3>1, RestKeeps
  <2> QED
    BY <2>1, <2>2, <2>3, <2>4, <2>5, <2>6, <2>7, <2>8, <2>9, <2>10, <2>11 DEF WatchNext
<1> QED BY <1>1, WatchStarts, PTL DEF WatchSafety

\* A walk through a list of the history comes to every video of it that no report
\* touches meanwhile, and to none twice, for any number of videos and reports
\* (history/repo.go:51, whose order and cursor are the time and the id).
THEOREM HistoryIsComplete == WatchSafety => []WalkMissesNone
<1>1. WatchInv => WalkMissesNone
  BY DEF WatchInv
<1> QED BY <1>1, WatchHolds, PTL
-----------------------------------------------------------------------------
\* Candidates are all that was eligible, or as many as the list can hold.
LEMMA CandidatesAreMany ==
    ASSUME NewestEligible # Eligible
    PROVE  Cardinality(NewestEligible) = MaxCandidates
<1> DEFINE R == {p \in Nat \X Nat : p[1] > p[2]}
<1>1. Eligible \subseteq Nat /\ IsFiniteSet(Eligible)
  BY CandidatesAssumption, FS_Subset DEF Eligible
<1>2. \A x, y \in Eligible : <<x, y>> \in R <=> x > y
  BY <1>1
<1>3. NewestEligible = FirstOf(Eligible, R, MaxCandidates)
  <2>1. \A x \in Eligible : {u \in Eligible : u > x} = {u \in Eligible : <<u, x>> \in R}
    BY <1>2
  <2> HIDE DEF R
  <2> QED BY <2>1, Zenon DEF NewestEligible, FirstOf
<1>4. PICK v \in Eligible : v \notin NewestEligible
  BY DEF NewestEligible
<1> HIDE DEF R
<1>5. \A x \in Eligible : <<x, x>> \notin R
  BY <1>1, <1>2
<1>6. \A x, y, z \in Eligible : <<x, y>> \in R /\ <<y, z>> \in R => <<x, z>> \in R
  BY <1>1, <1>2
<1>7. \A x, y \in Eligible : x # y => <<x, y>> \in R \/ <<y, x>> \in R
  BY <1>1, <1>2
<1>8. MaxCandidates \in Nat \ {0}
  BY CandidatesAssumption
<1>9. v \in Eligible \ FirstOf(Eligible, R, MaxCandidates)
  BY <1>3, <1>4
<1>10. Cardinality(FirstOf(Eligible, R, MaxCandidates)) = MaxCandidates
  BY <1>1, <1>5, <1>6, <1>7, <1>8, <1>9, FirstAreMany
<1> QED BY <1>3, <1>10

\* A list of n videos shows no more than n of them.
PickedList(s) == s \in Seq(RecVideos)

LEMMA PickedAreFew ==
    ASSUME NEW s, PickedList(s)
    PROVE  IsFiniteSet(ToSet(s)) /\ Cardinality(ToSet(s)) <= Len(s) /\ Len(s) \in Nat
<1>1. Len(s) \in Nat /\ DOMAIN s = 1..Len(s) /\ s \in [1..Len(s) -> RecVideos]
  BY DEF PickedList
<1>2. s \in Surjection(1..Len(s), ToSet(s))
  BY <1>1 DEF Surjection, ToSet
<1>3. IsFiniteSet(1..Len(s)) /\ Cardinality(1..Len(s)) = Len(s)
  BY <1>1, FS_Interval, SMTT(30)
<1> QED BY <1>1, <1>2, <1>3, FS_Surjection

\* One more video, of the candidates.
LEMMA OneIsPicked ==
    ASSUME NEW s, PickedList(s), NEW v \in RecVideos
    PROVE  /\ PickedList(Append(s, v)) /\ Len(Append(s, v)) = Len(s) + 1
           /\ ToSet(Append(s, v)) = ToSet(s) \union {v}
<1>1. /\ PickedList(Append(s, v)) /\ Len(Append(s, v)) = Len(s) + 1 /\ Len(s) \in Nat
      /\ \A i \in 1..Len(s) : Append(s, v)[i] = s[i]
      /\ Append(s, v)[Len(s) + 1] = v
      /\ DOMAIN s = 1..Len(s) /\ DOMAIN Append(s, v) = 1..(Len(s) + 1)
  BY DEF PickedList
<1>2. \A i \in 1..(Len(s) + 1) : i \in 1..Len(s) \/ i = Len(s) + 1
  BY <1>1
<1>3. \A i \in 1..Len(s) : i \in 1..(Len(s) + 1)
  BY <1>1
<1>4. Len(s) + 1 \in 1..(Len(s) + 1)
  BY <1>1
<1>5. ToSet(Append(s, v)) \subseteq ToSet(s) \union {v}
  BY <1>1, <1>2 DEF ToSet
<1>6. ToSet(s) \subseteq ToSet(Append(s, v))
  BY <1>1, <1>3 DEF ToSet
<1>7. v \in ToSet(Append(s, v))
  BY <1>1, <1>4 DEF ToSet
<1> QED BY <1>1, <1>5, <1>6, <1>7

\* What matches the tags is a list of a page at most.
LEMMA MatchIsList ==
    ASSUME NEW cands \in SUBSET RecVideos, NEW s \in Matches(cands)
    PROVE  PickedList(s) /\ Len(s) <= RecLimit /\ ToSet(s) \subseteq cands
<1>1. PICK S \in SUBSET cands : Cardinality(S) <= RecLimit /\ s \in SetToSeqs(S)
  BY DEF Matches
<1>2. Cardinality(S) \in Nat
  BY CandidatesAssumption, FS_Subset, FS_CardinalityType
<1>3. s \in [1..Cardinality(S) -> S]
  BY <1>1 DEF SetToSeqs
<1>4. s \in Seq(S) /\ Len(s) = Cardinality(S) /\ DOMAIN s = 1..Cardinality(S)
  BY <1>2, <1>3
<1> QED BY <1>1, <1>3, <1>4 DEF PickedList, ToSet

\* The page in the making.
PageKinds == [pc : {"rest", "mix", "done"}, cands : SUBSET RecVideos, picked : Seq(RecVideos),
              tagged : Nat, slot : Nat, public : SUBSET RecVideos, capped : BOOLEAN]

\* A place that stays empty finds every candidate on the page, and then every
\* later place stays empty too.
Filled(p) ==
    /\ p.tagged <= RecLimit /\ p.slot \in 1..(RecLimit - p.tagged + 1)
    /\ Len(p.picked) <= p.tagged + p.slot - 1
    /\ p.cands \subseteq ToSet(p.picked) \/ Len(p.picked) = p.tagged + p.slot - 1

\* Nothing playable is missing among the candidates, or they are more than fit.
FromAll(p) == p.capped \/ p.cands = p.public \/ Cardinality(p.cands) = MaxCandidates

\* The inductive invariant.
RecInv ==
    /\ recPage \in PageKinds /\ ToSet(recPage.picked) \subseteq recPage.cands
    /\ recPage.pc # "rest" => FromAll(recPage)
    /\ recPage.pc = "mix" => Filled(recPage)
    /\ recPage.pc = "done" =>
         /\ Len(recPage.picked) <= RecLimit
         /\ Len(recPage.picked) < RecLimit \/ ~recMore => recPage.cands \subseteq ToSet(recPage.picked)

\* Between the two queues every candidate that is left is found.
LEMMA EmptySlot ==
    ASSUME RecInv
    PROVE  /\ ForSlot \subseteq recPage.cands \ ToSet(recPage.picked)
           /\ ForSlot = {} => recPage.cands \subseteq ToSet(recPage.picked)
<1>1. \A Q : Takable(Q) \subseteq Q \ ToSet(recPage.picked)
  BY DEF Takable
<1>2. \A Q : Takable(Q) = {} => Q \subseteq ToSet(recPage.picked)
  BY DEF Takable
<1>3. SmallQueue \subseteq recPage.cands
  BY DEF SmallQueue
<1>4. \/ ForSlot = Takable(recPage.cands) /\ (ForSlot = {} => Takable(recPage.cands) = {})
      \/ ForSlot = Takable(SmallQueue) /\ (ForSlot = {} => Takable(recPage.cands) = {})
  BY DEF ForSlot
<1> QED BY <1>1, <1>2, <1>3, <1>4

\* One step per action.
LEMMA AskKeeps ==
    ASSUME RecInv, AskRecommend
    PROVE  RecInv'
<1> DEFINE cands == Playable(NewestEligible)
           all == Playable(Eligible)
           capped == NewestEligible \notin {cands, Eligible}
<1>1. PICK match \in Matches(cands) :
        recPage' = [NoPage EXCEPT !.pc = "mix", !.cands = cands, !.picked = match,
                                  !.tagged = Len(match), !.public = all, !.capped = capped]
  BY DEF AskRecommend
<1>2. cands \subseteq RecVideos /\ all \subseteq RecVideos
  BY DEF Playable, NewestEligible, Eligible
<1>3. PickedList(match) /\ Len(match) \in Nat /\ Len(match) <= RecLimit /\ ToSet(match) \subseteq cands
  BY <1>2, MatchIsList, PickedAreFew
<1>4. capped \/ cands = all \/ Cardinality(cands) = MaxCandidates
  BY CandidatesAreMany
<1>5. capped \in BOOLEAN
  OBVIOUS
<1> HIDE DEF cands, all, capped
<1>6. /\ recPage'.pc = "mix" /\ recPage'.cands = cands /\ recPage'.picked = match
      /\ recPage'.tagged = Len(match) /\ recPage'.slot = 1 /\ recPage'.public = all
      /\ recPage'.capped = capped /\ recPage' \in PageKinds
  <2> SUFFICES ASSUME NEW c \in BOOLEAN,
                      recPage' = [NoPage EXCEPT !.pc = "mix", !.cands = cands, !.picked = match,
                                                !.tagged = Len(match), !.public = all, !.capped = c]
               PROVE  /\ recPage'.pc = "mix" /\ recPage'.cands = cands /\ recPage'.picked = match
                      /\ recPage'.tagged = Len(match) /\ recPage'.slot = 1 /\ recPage'.public = all
                      /\ recPage'.capped = c /\ recPage' \in PageKinds
    BY <1>1, <1>5, Zenon
  <2> QED BY <1>2, <1>3 DEF NoPage, PageKinds, PickedList
<1>7. FromAll(recPage')
  BY <1>4, <1>6, Zenon DEF FromAll
<1>8. Filled(recPage')
  BY <1>3, <1>6, CandidatesAssumption DEF Filled
<1> QED BY <1>3, <1>6, <1>7, <1>8 DEF RecInv

LEMMA MixKeeps ==
    ASSUME RecInv, MixSlot
    PROVE  RecInv'
<1> DEFINE p == recPage
           n == recPage.slot + 1
<1>1. /\ p \in PageKinds /\ Filled(p) /\ FromAll(p) /\ p.pc = "mix" /\ p.slot <= RecLimit - p.tagged
      /\ ToSet(p.picked) \subseteq p.cands
  BY DEF RecInv, MixSlot
<1>2. /\ p.tagged \in Nat /\ p.slot \in Nat /\ PickedList(p.picked) /\ p.cands \subseteq RecVideos
      /\ Len(p.picked) \in Nat /\ RecLimit \in Nat /\ n \in Nat
  BY <1>1, PickedAreFew, CandidatesAssumption DEF PageKinds, PickedList
<1>3. CASE ForSlot = {} /\ recPage' = [recPage EXCEPT !.slot = n]
  <2> HIDE DEF n
  <2>1. /\ recPage' \in PageKinds /\ recPage'.pc = "mix" /\ recPage'.cands = p.cands
        /\ recPage'.picked = p.picked /\ recPage'.tagged = p.tagged /\ recPage'.slot = n
        /\ recPage'.public = p.public /\ recPage'.capped = p.capped
    BY <1>1, <1>2, <1>3 DEF PageKinds
  <2>2. p.cands \subseteq ToSet(p.picked)
    BY <1>3, EmptySlot
  <2>3. Filled(recPage')
    BY <1>1, <1>2, <2>1, <2>2, SMTT(30) DEF Filled, n
  <2>4. FromAll(recPage')
    BY <1>1, <2>1 DEF FromAll
  <2> QED BY <1>1, <2>1, <2>3, <2>4 DEF RecInv
<1>4. ASSUME NEW v \in ForSlot, recPage' = [recPage EXCEPT !.slot = n, !.picked = Append(@, v)]
      PROVE  RecInv'
  <2> DEFINE s == Append(p.picked, v)
  <2>1. v \in p.cands /\ v \in RecVideos /\ v \notin ToSet(p.picked)
    BY <1>2, <1>4, EmptySlot
  <2>2. PickedList(s) /\ Len(s) = Len(p.picked) + 1 /\ ToSet(s) = ToSet(p.picked) \union {v}
    BY <1>2, <2>1, OneIsPicked
  <2>3. recPage' = [recPage EXCEPT !.slot = n, !.picked = s]
    BY <1>4
  <2> HIDE DEF s, n
  <2>4. /\ recPage' \in PageKinds /\ recPage'.pc = "mix" /\ recPage'.cands = p.cands
        /\ recPage'.picked = s /\ recPage'.tagged = p.tagged /\ recPage'.slot = n
        /\ recPage'.public = p.public /\ recPage'.capped = p.capped
    BY <1>1, <1>2, <2>2, <2>3 DEF PageKinds, PickedList
  <2>5. Filled(recPage')
    <3>1. ~(p.cands \subseteq ToSet(p.picked))
      BY <2>1
    <3>2. Len(p.picked) = p.tagged + p.slot - 1
      BY <1>1, <3>1 DEF Filled
    <3>3. p.tagged <= RecLimit /\ p.slot \in 1..(RecLimit - p.tagged + 1)
      BY <1>1 DEF Filled
    <3>4. n \in 1..(RecLimit - p.tagged + 1) /\ Len(s) = p.tagged + n - 1
      <4>1. p.slot <= RecLimit - p.tagged /\ n = p.slot + 1
        BY <1>1 DEF n
      <4>2. Len(s) = p.tagged + p.slot
        BY <1>2, <2>2, <3>2
      <4> QED BY <1>2, <3>3, <4>1, <4>2
    <3> QED BY <2>2, <2>4, <3>3, <3>4, <1>2 DEF Filled
  <2>6. FromAll(recPage')
    BY <1>1, <2>4 DEF FromAll
  <2> QED BY <1>1, <2>1, <2>2, <2>4, <2>5, <2>6 DEF RecInv
<1> QED BY <1>3, <1>4 DEF MixSlot

LEMMA FinishKeeps ==
    ASSUME RecInv, FinishPage
    PROVE  RecInv'
<1> DEFINE p == recPage
<1>1. /\ p \in PageKinds /\ Filled(p) /\ FromAll(p) /\ p.slot > RecLimit - p.tagged
      /\ ToSet(p.picked) \subseteq p.cands
      /\ recPage' = [p EXCEPT !.pc = "done"] /\ recMore' = (p.cands \ ToSet(p.picked) # {})
  BY DEF RecInv, FinishPage
<1>2. /\ p.tagged \in Nat /\ p.slot \in Nat /\ PickedList(p.picked)
      /\ Len(p.picked) \in Nat /\ RecLimit \in Nat
  BY <1>1, PickedAreFew, CandidatesAssumption DEF PageKinds, PickedList
<1>3. /\ recPage' \in PageKinds /\ recPage'.pc = "done" /\ recPage'.cands = p.cands
      /\ recPage'.picked = p.picked /\ recPage'.public = p.public /\ recPage'.capped = p.capped
  BY <1>1 DEF PageKinds
<1>4. Len(p.picked) <= RecLimit /\ (Len(p.picked) < RecLimit => p.cands \subseteq ToSet(p.picked))
  BY <1>1, <1>2 DEF Filled
<1>5. ~recMore' => p.cands \subseteq ToSet(p.picked)
  BY <1>1
<1>6. FromAll(recPage')
  BY <1>1, <1>3 DEF FromAll
<1> QED BY <1>1, <1>3, <1>4, <1>5, <1>6 DEF RecInv

LEMMA ShownKeeps ==
    ASSUME recPage' = NoPage
    PROVE  RecInv'
<1>1. recPage' \in PageKinds /\ recPage'.pc = "rest" /\ recPage'.picked = <<>>
  BY DEF NoPage, PageKinds
<1>2. ToSet(<<>>) = {}
  BY DEF ToSet
<1>3. ToSet(recPage'.picked) = {}
  BY <1>1, <1>2
<1>4. recPage'.pc # "mix" /\ recPage'.pc # "done"
  BY <1>1
<1> QED BY <1>1, <1>3, <1>4 DEF RecInv

\* The page being filled and the finished one stay as RecInv has them.
LEMMA RecHolds == RecSafety => []RecInv
<1>1. RecInit => RecInv
  <2> SUFFICES ASSUME RecInit PROVE RecInv
    OBVIOUS
  <2>1. recPage \in PageKinds /\ recPage.pc = "rest" /\ recPage.picked = <<>>
    BY DEF RecInit, NoPage, PageKinds
  <2>2. ToSet(<<>>) = {}
    BY DEF ToSet
  <2> QED BY <2>1, <2>2 DEF RecInv
<1>2. RecInv /\ [RecNext]_recVars => RecInv'
  <2> SUFFICES ASSUME RecInv, [RecNext]_recVars PROVE RecInv'
    OBVIOUS
  <2>1. ASSUME recPage' = recPage, recMore' = recMore PROVE RecInv'
    BY <2>1 DEF RecInv, FromAll, Filled
  <2>2. CASE \E v \in Movable, how \in {"hidden", "public", "broken"} : Shelve(v, how)
    BY <2>1, <2>2 DEF Shelve
  <2>3. CASE AskRecommend
    BY <2>3, AskKeeps
  <2>4. CASE MixSlot
    BY <2>4, MixKeeps
  <2>5. CASE FinishPage
    BY <2>5, FinishKeeps
  <2>6. CASE ShowPage
    <3>1. recPage' = NoPage
      BY <2>6 DEF ShowPage
    <3> QED BY <3>1, ShownKeeps
  <2>7. CASE RestartWalk
    <3>1. recPage' = recPage /\ recPage.pc = "rest"
      BY <2>7 DEF RestartWalk
    <3> QED BY <3>1 DEF RecInv
  <2>8. CASE UNCHANGED recVars
    BY <2>1, <2>8 DEF recVars
  <2> QED BY <2>2, <2>3, <2>4, <2>5, <2>6, <2>7, <2>8 DEF RecNext
<1> QED BY <1>1, <1>2, PTL DEF RecSafety

\* A page is short only when it has every candidate, and a walk ends only when
\* everything playable was shown, whatever is published, withdrawn and broken
\* meanwhile (recommend/service.go, mixer.go).
THEOREM ShortPagesHaveAll == RecSafety => []ShortMeansAll
<1>1. RecInv => ShortMeansAll
  <2> SUFFICES ASSUME RecInv, recPage.pc = "done"
               PROVE  /\ Len(recPage.picked) < RecLimit => recPage.cands = ToSet(recPage.picked)
                      /\ ~recMore /\ ~recPage.capped => recPage.public = ToSet(recPage.picked)
    BY DEF ShortMeansAll
  <2>1. /\ ToSet(recPage.picked) \subseteq recPage.cands /\ FromAll(recPage)
        /\ Len(recPage.picked) <= RecLimit
        /\ Len(recPage.picked) < RecLimit \/ ~recMore => recPage.cands \subseteq ToSet(recPage.picked)
    BY DEF RecInv
  <2>2. /\ Cardinality(ToSet(recPage.picked)) <= Len(recPage.picked) /\ IsFiniteSet(ToSet(recPage.picked))
        /\ Len(recPage.picked) \in Nat
    BY PickedAreFew DEF RecInv, PageKinds, PickedList
  <2>3. Cardinality(ToSet(recPage.picked)) # MaxCandidates
    BY <2>1, <2>2, FS_CardinalityType, CandidatesAssumption
  <2>4. Len(recPage.picked) < RecLimit => recPage.cands = ToSet(recPage.picked)
    BY <2>1
  <2>5. ASSUME ~recMore, ~recPage.capped PROVE recPage.public = ToSet(recPage.picked)
    <3>1. recPage.cands = ToSet(recPage.picked)
      BY <2>1, <2>5
    <3> QED BY <2>1, <2>3, <2>5, <3>1 DEF FromAll
  <2> QED BY <2>4, <2>5
<1> QED BY <1>1, RecHolds, PTL
-----------------------------------------------------------------------------
\* Among the first numbers every place of a set is taken by one of its members.
LEMMA PlacesAreTaken ==
    ASSUME NEW m \in Nat, NEW K \in SUBSET (1..m), NEW n \in 1..Cardinality(K)
    PROVE  \E i \in K : Cardinality({j \in K : j <= i}) = n
<1> DEFINE Up(i) == {j \in K : j <= i}
           T == {i \in 0..m : Cardinality(Up(i)) >= n}
<1>1. IsFiniteSet(K) /\ Cardinality(K) \in Nat
  <2>1. IsFiniteSet(1..m)
    BY FS_Interval
  <2>2. IsFiniteSet(K)
    BY <2>1, FS_Subset
  <2> QED BY <2>2, FS_CardinalityType
<1>2. \A i \in Int : IsFiniteSet(Up(i)) /\ Cardinality(Up(i)) \in Nat
  <2> TAKE i \in Int
  <2>1. IsFiniteSet(Up(i))
    BY <1>1, FS_Subset
  <2> QED BY <2>1, FS_CardinalityType
<1>0. \A k \in K : k \in Nat /\ 1 <= k /\ k <= m
  OBVIOUS
<1>3. Up(m) = K /\ Up(0) = {}
  <2>1. \A k \in K : k <= m /\ ~ (k <= 0)
    BY <1>0
  <2> QED BY <2>1
<1>4. Cardinality(Up(0)) = 0
  BY <1>3, FS_EmptySet
<1>5. m \in T /\ 0 \notin T
  <2> HIDE DEF Up
  <2> QED BY <1>1, <1>3, <1>4
<1>6. PICK i \in T : \A k \in T : i <= k
  <2>1. T \in SUBSET Nat /\ m \in T
    BY <1>5
  <2> HIDE DEF T
  <2> QED BY <2>1, LeastOne
<1>7. i \in 1..m /\ i - 1 \in 0..m /\ i - 1 \notin T
  <2>1. i \in 0..m /\ i # 0
    BY <1>5, <1>6
  <2>2. i - 1 \notin T
    <3> HIDE DEF T
    <3> QED BY <1>6, <2>1
  <2> QED BY <2>1, <2>2
<1>8. Cardinality(Up(i - 1)) < n /\ Cardinality(Up(i)) >= n
  <2> HIDE DEF Up
  <2> QED BY <1>2, <1>6, <1>7
<1>9. i \in K
  <2> SUFFICES ASSUME i \notin K  PROVE FALSE
    OBVIOUS
  <2>1. \A k \in K : k <= i <=> k <= i - 1
    BY <1>0, <1>7
  <2>2. Up(i) = Up(i - 1)
    BY <2>1
  <2> HIDE DEF Up
  <2> QED BY <1>2, <1>7, <1>8, <2>2
<1>10. Cardinality(Up(i)) = Cardinality(Up(i - 1)) + 1
  <2>1. Up(i) = Up(i - 1) \union {i} /\ i \notin Up(i - 1) /\ IsFiniteSet(Up(i - 1))
    <3>1. \A k \in K : k <= i <=> k <= i - 1 \/ k = i
      BY <1>0, <1>7
    <3>2. ~ (i <= i - 1) /\ i <= i /\ i - 1 \in Int
      BY <1>7
    <3> QED BY <1>2, <1>9, <3>1, <3>2
  <2> HIDE DEF Up
  <2> QED BY <2>1, FS_AddElement
<1> HIDE DEF Up
<1>11. Cardinality(Up(i)) = n
  BY <1>2, <1>7, <1>8, <1>10
<1> QED BY <1>9, <1>11 DEF Up

\* What ends like a list has it as a suffix.
LEMMA EndsAreSuffixes ==
    ASSUME NEW S, NEW s \in Seq(S), NEW T, NEW t \in Seq(T), Len(s) <= Len(t),
           \A i \in 1..Len(s) : s[i] = t[Len(t) - Len(s) + i]
    PROVE  IsSuffix(s, t)
<1>1. Len(s) \in Nat /\ Len(t) \in Nat
  OBVIOUS
<1> DEFINE rs == Reverse(s)
           rt == Reverse(t)
<1>2. rs \in Seq(S) /\ Len(rs) = Len(s) /\ \A i \in 1..Len(s) : rs[i] = s[Len(s) - i + 1]
  BY <1>1 DEF Reverse
<1>3. rt \in Seq(T) /\ Len(rt) = Len(t) /\ \A i \in 1..Len(t) : rt[i] = t[Len(t) - i + 1]
  BY <1>1 DEF Reverse
<1> HIDE DEF rs, rt
<1>4. \A i \in 1..Len(s) : rs[i] = rt[i]
  <2> TAKE i \in 1..Len(s)
  <2>1. Len(s) - i + 1 \in 1..Len(s) /\ i \in 1..Len(t)
    BY <1>1
  <2>2. s[Len(s) - i + 1] = t[Len(t) - Len(s) + (Len(s) - i + 1)]
    BY <2>1
  <2>3. Len(t) - Len(s) + (Len(s) - i + 1) = Len(t) - i + 1
    BY <1>1
  <2> QED BY <1>2, <1>3, <2>1, <2>2, <2>3
<1>5. SubSeq(rs, 1, Len(s)) = SubSeq(rt, 1, Len(s))
  BY <1>1, <1>2, <1>3, <1>4
<1> QED BY <1>1, <1>2, <1>3, <1>5 DEF IsSuffix, IsPrefix, rs, rt

\* A list of tags as TagLists has them, and as a sequence.
LEMMA TagListIsSeq ==
    ASSUME NEW t \in TagLists
    PROVE  t \in Seq(Tags) /\ IsInjective(t) /\ Len(t) \in 0..MaxTags
<1>1. PICK n \in 0..MaxTags : t \in [1..n -> Tags] /\ IsInjective(t)
  BY DEF TagLists
<1>2. n \in Nat
  BY <1>1, TagsAssumption
<1> QED BY <1>1, <1>2

\* A short sequence of different tags is one of TagLists.
LEMMA SeqIsTagList ==
    ASSUME NEW t \in Seq(Tags), IsInjective(t), Len(t) <= MaxTags
    PROVE  t \in TagLists
<1>1. Len(t) \in 0..MaxTags /\ t \in [1..Len(t) -> Tags]
  BY TagsAssumption
<1> QED BY <1>1 DEF TagLists

\* The tags of a video are such a list.
LEMMA VideosTags ==
    ASSUME NEW v \in TastedVideos
    PROVE  TagsOf[v] \in Seq(Tags) /\ IsInjective(TagsOf[v]) /\ Len(TagsOf[v]) <= MaxTags
<1>1. TagsOf[v] \in Seq(ToSet(TagsOf[v])) /\ ToSet(TagsOf[v]) \subseteq Tags
  BY TagsAssumption DEF Tags
<1>2. TagsOf[v] \in Seq(Tags)
  BY <1>1
<1> QED BY <1>2, TagsAssumption

\* What is kept of a list is a list of its entries, each as often as before.
LEMMA EntriesAreList ==
    ASSUME NEW S, NEW list \in Seq(S), NEW K \in SUBSET (1..Len(list))
    PROVE  /\ EntriesAt(list, K) \in Seq(S) /\ Len(EntriesAt(list, K)) = Cardinality(K)
           /\ \A n \in 1..Len(EntriesAt(list, K)) : \E i \in K : EntriesAt(list, K)[n] = list[i]
           /\ IsInjective(list) => IsInjective(EntriesAt(list, K))
<1> DEFINE place(n) == CHOOSE i \in K : Cardinality({j \in K : j <= i}) = n
           result == [n \in 1..Cardinality(K) |-> list[place(n)]]
<1>1. EntriesAt(list, K) = result
  BY DEF EntriesAt
<1>2. Len(list) \in Nat /\ DOMAIN list = 1..Len(list)
  OBVIOUS
<1>3. Cardinality(K) \in Nat
  <2>1. IsFiniteSet(1..Len(list))
    BY <1>2, FS_Interval
  <2>2. IsFiniteSet(K)
    BY <2>1, FS_Subset
  <2> QED BY <2>2, FS_CardinalityType
<1>4. \A i \in K : i \in DOMAIN list /\ list[i] \in S
  OBVIOUS
<1>5. \A n \in 1..Cardinality(K) :
        place(n) \in K /\ Cardinality({j \in K : j <= place(n)}) = n
  <2> TAKE n \in 1..Cardinality(K)
  <2>1. \E i \in K : Cardinality({j \in K : j <= i}) = n
    BY <1>2, PlacesAreTaken
  <2> QED BY <2>1
<1> HIDE DEF place
<1>6. result \in Seq(S) /\ Len(result) = Cardinality(K)
  <2>1. \A n \in 1..Cardinality(K) : list[place(n)] \in S
    BY <1>4, <1>5
  <2> QED BY <1>3, <2>1
<1>7. \A n \in 1..Cardinality(K) : \E i \in K : result[n] = list[i]
  BY <1>5
<1>8. IsInjective(list) => IsInjective(result)
  <2> SUFFICES ASSUME IsInjective(list), NEW m \in 1..Cardinality(K), NEW n \in 1..Cardinality(K),
                      list[place(m)] = list[place(n)]
               PROVE  m = n
    BY DEF IsInjective
  <2>1. place(m) = place(n)
    BY <1>4, <1>5 DEF IsInjective
  <2> QED BY <1>5, <2>1
<1> QED BY <1>1, <1>6, <1>7, <1>8

\* What stays of a list of tags is one, and has none of the new ones.
LEMMA WithoutIsList ==
    ASSUME NEW list \in Seq(Tags), IsInjective(list), NEW some
    PROVE  /\ WithoutTags(list, some) \in Seq(Tags)
           /\ IsInjective(WithoutTags(list, some))
           /\ \A n \in 1..Len(WithoutTags(list, some)) :
                WithoutTags(list, some)[n] \notin ToSet(some)
<1> DEFINE K == {i \in DOMAIN list : list[i] \notin ToSet(some)}
<1>1. WithoutTags(list, some) = EntriesAt(list, K)
  BY DEF WithoutTags
<1>2. K \in SUBSET (1..Len(list)) /\ \A i \in K : list[i] \notin ToSet(some)
  OBVIOUS
<1> HIDE DEF K
<1> QED BY <1>1, <1>2, EntriesAreList

\* tag.Merge makes a list of tags that ends with the new ones.
LEMMA MergeEndsWithNew ==
    ASSUME NEW old \in TagLists, NEW v \in TastedVideos
    PROVE  /\ Merge(old, TagsOf[v]) \in TagLists
           /\ IsSuffix(TagsOf[v], Merge(old, TagsOf[v]))
<1> DEFINE new == TagsOf[v]
           rest == WithoutTags(old, new)
           all == rest \o new
           cut == Len(all) - MaxTags
           last == SubSeq(all, cut + 1, Len(all))
<1>1. new \in Seq(Tags) /\ IsInjective(new) /\ Len(new) <= MaxTags
  BY VideosTags
<1>2. /\ rest \in Seq(Tags) /\ IsInjective(rest)
      /\ \A n \in 1..Len(rest) : rest[n] \notin ToSet(new)
  <2> HIDE DEF new
  <2> QED BY <1>1, TagListIsSeq, WithoutIsList
<1>3. Merge(old, new) = IF Len(all) > MaxTags THEN last ELSE all
  BY DEF Merge
<1> HIDE DEF rest, new
<1>4. /\ all \in Seq(Tags) /\ Len(all) = Len(rest) + Len(new)
      /\ \A i \in 1..Len(rest) : all[i] = rest[i]
      /\ \A i \in 1..Len(new) : all[Len(rest) + i] = new[i]
  BY <1>1, <1>2
<1>5. Len(rest) \in Nat /\ Len(new) \in Nat /\ MaxTags \in Nat
  BY <1>1, <1>2, TagsAssumption
<1>6. IsInjective(all)
  <2> SUFFICES ASSUME NEW i \in 1..Len(all), NEW j \in 1..Len(all), all[i] = all[j]
               PROVE  i = j
    BY <1>4 DEF IsInjective
  <2>1. \A k \in 1..Len(all) :
          \/ k \in 1..Len(rest) /\ all[k] = rest[k]
          \/ k - Len(rest) \in 1..Len(new) /\ all[k] = new[k - Len(rest)]
    <3> TAKE k \in 1..Len(all)
    <3>1. CASE k <= Len(rest)
      BY <1>4, <1>5, <3>1
    <3>2. CASE k > Len(rest)
      <4>1. k - Len(rest) \in 1..Len(new) /\ Len(rest) + (k - Len(rest)) = k
        BY <1>4, <1>5, <3>2
      <4> QED BY <1>4, <4>1
    <3> QED BY <1>4, <1>5, <3>1, <3>2
  <2>2. \A k \in 1..Len(new) : new[k] \in ToSet(new)
    BY <1>1 DEF ToSet
  <2>3. CASE i \in 1..Len(rest) /\ j \in 1..Len(rest)
    BY <1>2, <1>4, <2>3 DEF IsInjective
  <2>4. CASE i - Len(rest) \in 1..Len(new) /\ j - Len(rest) \in 1..Len(new)
           /\ all[i] = new[i - Len(rest)] /\ all[j] = new[j - Len(rest)]
    <3>1. DOMAIN new = 1..Len(new)
      BY <1>1
    <3>2. i - Len(rest) = j - Len(rest)
      BY <1>1, <2>4, <3>1 DEF IsInjective
    <3> QED BY <1>4, <1>5, <3>2
  <2> QED BY <1>2, <2>1, <2>2, <2>3, <2>4
<1> HIDE DEF all
<1>7. CASE Len(all) <= MaxTags
  <2>1. all \in TagLists
    BY <1>4, <1>6, <1>7, SeqIsTagList
  <2>2. IsSuffix(new, all)
    <3>1. \A i \in 1..Len(new) : new[i] = all[Len(all) - Len(new) + i]
      <4>1. Len(all) - Len(new) = Len(rest)
        BY <1>4, <1>5
      <4> QED BY <1>4, <4>1
    <3>2. Len(new) <= Len(all)
      BY <1>4, <1>5
    <3> QED BY <1>1, <1>4, <3>1, <3>2, EndsAreSuffixes
  <2>3. Merge(old, new) = all
    BY <1>3, <1>4, <1>5, <1>7
  <2> QED BY <2>1, <2>2, <2>3 DEF new
<1>8. CASE Len(all) > MaxTags
  <2>0. Len(all) \in Nat
    BY <1>4
  <2>1. cut \in Nat /\ cut + MaxTags = Len(all)
    BY <1>4, <1>5, <1>8
  <2>2. last \in Seq(Tags) /\ Len(last) = MaxTags /\ \A i \in 1..MaxTags : last[i] = all[cut + i]
    <3>1. cut + 1 \in 1..Len(all) + 1 /\ Len(all) - (cut + 1) + 1 = MaxTags
      BY <1>5, <2>0, <2>1
    <3> HIDE DEF cut
    <3>2. last \in Seq(Tags) /\ Len(last) = MaxTags
      BY <1>4, <1>5, <2>0, <2>1, <3>1, SubSeqProperties
    <3>3. \A i \in 1..MaxTags : last[i] = all[cut + i]
      BY <1>4, <1>5, <2>0, <2>1, <3>1, SubSeqProperties
    <3> QED BY <3>2, <3>3
  <2>3. Merge(old, new) = last
    BY <1>3, <1>8
  <2> HIDE DEF last, cut
  <2>4. IsInjective(last)
    <3> SUFFICES ASSUME NEW i \in 1..MaxTags, NEW j \in 1..MaxTags, last[i] = last[j]  PROVE i = j
      BY <2>2 DEF IsInjective
    <3>1. cut + i \in DOMAIN all /\ cut + j \in DOMAIN all /\ all[cut + i] = all[cut + j]
      BY <1>4, <1>5, <2>1, <2>2
    <3>2. cut + i = cut + j
      BY <1>6, <3>1 DEF IsInjective
    <3> QED BY <1>5, <2>1, <3>2
  <2>5. last \in TagLists
    BY <1>5, <2>2, <2>4, SeqIsTagList
  <2>6. IsSuffix(new, last)
    <3>1. \A i \in 1..Len(new) : new[i] = last[Len(last) - Len(new) + i]
      <4> TAKE i \in 1..Len(new)
      <4>1. Len(last) - Len(new) + i \in 1..MaxTags
        BY <1>1, <1>5, <2>2
      <4>2. last[Len(last) - Len(new) + i] = all[cut + (Len(last) - Len(new) + i)]
        BY <2>2, <4>1
      <4>3. cut + (Len(last) - Len(new) + i) = Len(rest) + i
        <5>1. Len(all) = Len(rest) + Len(new) /\ Len(last) = MaxTags /\ i \in Nat /\ cut \in Nat
          BY <1>4, <2>1, <2>2
        <5> QED BY <1>5, <2>1, <5>1
      <4> QED BY <1>4, <4>2, <4>3
    <3> QED BY <1>1, <1>5, <2>2, <3>1, EndsAreSuffixes
  <2> QED BY <2>3, <2>5, <2>6 DEF new
<1> QED BY <1>4, <1>5, <1>7, <1>8
-----------------------------------------------------------------------------
\* What an act is.
ActKinds == [pc : {"idle", "signals", "delete", "drop", "vectors", "upsert", "tags", "merge"},
             kind : {"like", "unlike", "comment"}, video : TastedVideos \union {0},
             read : SUBSET TastedVideos, tags : TagLists, alone : BOOLEAN]

\* What an act knows while it is the only one, and that nothing is settled
\* while an act is under way.
Settling ==
    /\ \A a \in Acts : act[a].pc # "idle" => act[a].video \in TastedVideos
    /\ \A a \in Acts : act[a].pc \in {"signals", "delete", "drop", "vectors", "upsert"} =>
                       act[a].kind # "comment"
    /\ \A a \in Acts : /\ act[a].pc \in {"tags", "merge"} => act[a].kind # "unlike"
                       /\ act[a].pc = "upsert" => act[a].read # {}
    /\ \A a \in Acts : act[a].alone /\ ~ActAt(a, "idle") =>
         /\ settled.kind = "none" /\ \A b \in Acts \ {a} : ActAt(b, "idle")
         /\ act[a].pc \in {"vectors", "upsert"} => signals # {}
         /\ act[a].pc = "drop" => tasteRow = NoVector
         /\ act[a].pc = "merge" => act[a].tags = interests
    /\ settled.kind # "none" => \A a \in Acts : ActAt(a, "idle")

\* Inductive.
TasteInv == TasteTypeOK /\ Settling /\ TasteSettles

\* An account starts without tags.
LEMMA EmptyTagList == <<>> \in TagLists
<1>1. <<>> \in [1..0 -> Tags] /\ IsInjective(<<>>)
  BY DEF IsInjective
<1>2. 0 \in 0..MaxTags
  BY TagsAssumption
<1> QED BY <1>1, <1>2 DEF TagLists

\* Nobody acts, nothing is settled.
LEMMA TasteStart == TasteInit => TasteInv
<1> SUFFICES ASSUME TasteInit  PROVE TasteInv
  OBVIOUS
<1>1. TasteTypeOK
  BY EmptyTagList DEF TasteInit, TasteTypeOK, NotActing, NotSettled
<1>2. Settling /\ TasteSettles
  BY DEF TasteInit, Settling, TasteSettles, NotActing, NotSettled, ActAt
<1> QED BY <1>1, <1>2 DEF TasteInv

\* An act that ends alone has settled what TasteSettles says of its kind.
LEMMA EndSettles ==
    ASSUME TasteInv, NEW a \in Acts, ~ActAt(a, "idle"), ActEnds(a),
           signals' = signals, vectors' = vectors,
           tasteRow' \in TasteVectors \union {NoVector},
           tasteCache' \in TasteVectors \union {NoVector}, interests' \in TagLists,
           act[a].alone => /\ act[a].kind = "unlike" /\ signals = {} =>
                                tasteRow' = NoVector /\ tasteCache' = NoVector
                           /\ act[a].kind # "unlike" =>
                                IsSuffix(TagsOf[act[a].video], interests'),
           \A b \in Acts \ {a} : act[b].alone /\ ~ActAt(b, "idle") =>
                interests' = interests /\ tasteRow' = tasteRow
    PROVE  TasteInv'
<1> USE DEF TasteInv
<1>1. TasteTypeOK'
  BY EmptyTagList DEF TasteTypeOK, ActEnds, NotActing, NotSettled
<1>2. Settling'
  BY DEF Settling, TasteTypeOK, ActEnds, ActAt, NotActing, NotSettled
<1>3. TasteSettles'
  BY DEF Settling, TasteTypeOK, TasteSettles, ActEnds, ActAt, NotActing, NotSettled
<1> QED BY <1>1, <1>2, <1>3

\* An act that begins.
Begun(k, pc, kind, v, quiet) ==
    [k EXCEPT !.pc = pc, !.kind = kind, !.video = v, !.alone = quiet]

\* A second act takes from the others that they are alone.
LEMMA BeginActKeeps ==
    ASSUME TasteInv, NEW a \in Acts, NEW kind \in {"like", "unlike", "comment"},
           NEW v \in TastedVideos, BeginAct(a, kind, v)
    PROVE  TasteInv'
<1> USE DEF TasteInv
<1> DEFINE first == IF kind = "comment" THEN "tags" ELSE "signals"
           begun == Begun(NotActing, first, kind, v, Alone(a))
<1>1. act' = [b \in Acts |-> IF b = a THEN begun
                             ELSE IF ActAt(b, "idle") THEN act[b] ELSE [act[b] EXCEPT !.alone = FALSE]]
  BY Zenon DEF BeginAct, Begun
<1>2. /\ signals' \subseteq TastedVideos /\ settled' = NotSettled
      /\ vectors' = vectors /\ tasteRow' = tasteRow
      /\ tasteCache' = tasteCache /\ interests' = interests
  BY DEF BeginAct, TasteTypeOK
<1>3. begun \in ActKinds /\ begun.pc = first /\ begun.kind = kind /\ begun.video = v
      /\ begun.tags = <<>> /\ (begun.alone <=> Alone(a))
  <2>1. NotActing \in ActKinds /\ NotActing.tags = <<>>
    BY EmptyTagList DEF ActKinds, NotActing
  <2>2. Alone(a) \in BOOLEAN
    BY DEF Alone
  <2>3. first \in {"tags", "signals"}
    OBVIOUS
  <2> HIDE DEF first
  <2>4. PICK quiet \in BOOLEAN : quiet = Alone(a)
    BY <2>2
  <2> DEFINE n == Begun(NotActing, first, kind, v, quiet)
  <2>5. n \in ActKinds
    BY <2>1, <2>3 DEF ActKinds, Begun
  <2>6. n.pc = first /\ n.kind = kind /\ n.video = v /\ n.tags = NotActing.tags
    BY <2>1, <2>3 DEF ActKinds, Begun
  <2>7. n.alone <=> quiet
    BY <2>1, <2>3 DEF ActKinds, Begun
  <2>8. begun = n
    BY <2>4
  <2> HIDE DEF n, begun
  <2> QED BY <2>1, <2>4, <2>5, <2>6, <2>8, <2>7
<1>4. \A k \in ActKinds : [k EXCEPT !.alone = FALSE] \in ActKinds
  BY DEF ActKinds
<1>5. act \in [Acts -> ActKinds]
  BY DEF TasteTypeOK, ActKinds
<1>6. TasteTypeOK'
  <2>1. act' \in [Acts -> ActKinds]
    <3> HIDE DEF begun, ActKinds
    <3> QED BY <1>1, <1>3, <1>4, <1>5
  <2> QED BY <1>2, <2>1 DEF TasteTypeOK, NotSettled, ActKinds
<1>7. \A b \in Acts : /\ act'[b].pc = IF b = a THEN begun.pc ELSE act[b].pc
                      /\ act'[b].video = IF b = a THEN v ELSE act[b].video
                      /\ act'[b].kind = IF b = a THEN kind ELSE act[b].kind
                      /\ act'[b].tags = IF b = a THEN <<>> ELSE act[b].tags
                      /\ b # a => act'[b].read = act[b].read
                      /\ act'[b].alone =>
                           IF b = a THEN \A c \in Acts \ {a} : ActAt(c, "idle")
                                    ELSE ActAt(b, "idle")
  <2> TAKE b \in Acts
  <2>1. act[b] \in ActKinds
    BY <1>5
  <2>2. CASE b = a
    BY <1>1, <1>3, <2>2 DEF Alone
  <2>3. CASE b # a
    BY <1>1, <2>1, <2>3 DEF ActKinds
  <2> QED BY <2>2, <2>3
<1>8. begun.pc \in {"tags", "signals"} /\ (begun.pc = "signals" <=> kind # "comment")
  BY <1>3
<1> HIDE DEF begun
<1>9. Settling'
  <2>1. settled'.kind = "none"
    BY <1>2 DEF NotSettled
  <2>2. \A b \in Acts : act'[b].pc # "idle" => act'[b].video \in TastedVideos
    BY <1>7 DEF Settling
  <2>3. \A b \in Acts : act'[b].pc \in {"signals", "delete", "drop", "vectors", "upsert"} =>
                         act'[b].kind # "comment"
    BY <1>7, <1>8 DEF Settling
  <2>4. \A b \in Acts : act'[b].alone /\ act'[b].pc # "idle" =>
          b = a /\ \A c \in Acts \ {a} : act[c].pc = "idle"
    BY <1>7 DEF ActAt
  <2>6. \A b \in Acts : /\ act'[b].pc \in {"tags", "merge"} => act'[b].kind # "unlike"
                        /\ act'[b].pc = "upsert" => act'[b].read # {}
    BY <1>7, <1>8 DEF Settling
  <2>5. \A b \in Acts : act'[b].alone /\ act'[b].pc # "idle" =>
          /\ \A c \in Acts \ {b} : act'[c].pc = "idle"
          /\ act'[b].pc \in {"tags", "signals"}
    BY <1>7, <1>8, <2>4 DEF ActAt
  <2> QED BY <2>1, <2>2, <2>3, <2>5, <2>6 DEF Settling, ActAt
<1>10. TasteSettles'
  BY <1>2 DEF TasteSettles, NotSettled
<1> QED BY <1>6, <1>9, <1>10

\* The end of a refresh, with what it did to the vector.
LEMMA RefreshKeeps ==
    ASSUME TasteInv, NEW a \in Acts, act[a].pc \in {"signals", "drop", "vectors", "upsert"},
           RefreshEnds(a), signals' = signals, vectors' = vectors, interests' = interests,
           tasteRow' \in TasteVectors \union {NoVector},
           tasteCache' \in TasteVectors \union {NoVector},
           act[a].alone /\ act[a].kind = "unlike" /\ signals = {} =>
             tasteRow' = NoVector /\ tasteCache' = NoVector,
           \A b \in Acts \ {a} : act[b].alone /\ ~ActAt(b, "idle") => tasteRow' = tasteRow
    PROVE  TasteInv'
<1> USE DEF TasteInv
<1>0. ~ActAt(a, "idle") /\ settled.kind = "none"
  BY DEF Settling, ActAt, TasteTypeOK
<1>1. CASE act[a].kind = "like"
  <2>1. act' = [act EXCEPT ![a].pc = "tags", ![a].read = {}] /\ settled' = settled
    BY <1>1 DEF RefreshEnds
  <2>2. \A k \in ActKinds : [k EXCEPT !.pc = "tags", !.read = {}] \in ActKinds
    BY DEF ActKinds
  <2>3. act \in [Acts -> ActKinds]
    BY DEF TasteTypeOK, ActKinds
  <2>4. act' \in [Acts -> ActKinds]
    BY <2>1, <2>2, <2>3
  <2>5. TasteTypeOK'
    BY <2>1, <2>4 DEF TasteTypeOK, ActKinds
  <2>6. Settling'
    BY <1>0, <1>1, <2>1 DEF TasteTypeOK, ActAt, Settling
  <2>7. TasteSettles'
    BY <1>0, <2>1 DEF TasteSettles
  <2> QED BY <2>5, <2>6, <2>7
<1>2. CASE act[a].kind # "like"
  <2>1. act[a].kind = "unlike"
    BY <1>2 DEF Settling, TasteTypeOK, ActAt
  <2>2. ActEnds(a) /\ interests' \in TagLists
    BY <1>2 DEF RefreshEnds, TasteTypeOK
  <2> QED BY <1>0, <2>1, <2>2, EndSettles
<1> QED BY <1>1, <1>2

\* Every step keeps the invariant.
LEMMA TasteStep == TasteInv /\ [TasteNext]_tasteVars => TasteInv'
<1> SUFFICES ASSUME TasteInv, [TasteNext]_tasteVars  PROVE TasteInv'
  OBVIOUS
<1> USE DEF TasteInv
<1>1. CASE ExpireVector
  BY <1>1 DEF ExpireVector, TasteTypeOK, Settling, TasteSettles, ActAt
<1>2. ASSUME NEW v \in TastedVideos, EmbedVideo(v)  PROVE TasteInv'
  BY <1>2 DEF EmbedVideo, TasteTypeOK, Settling, TasteSettles, ActAt
<1>3. ASSUME NEW a \in Acts, NEW kind \in {"like", "unlike", "comment"}, NEW v \in TastedVideos,
             BeginAct(a, kind, v)
      PROVE  TasteInv'
  BY <1>3, BeginActKeeps
<1>4. ASSUME NEW a \in Acts, ReadSignals(a)  PROVE TasteInv'
  <2>1. TasteTypeOK'
    <3>1. signals \in SUBSET TastedVideos
      BY DEF TasteTypeOK
    <3>2. \A k \in ActKinds, pc \in {"delete", "vectors"} :
            [k EXCEPT !.read = signals, !.pc = pc] \in ActKinds
      BY <3>1 DEF ActKinds
    <3>3. act \in [Acts -> ActKinds]
      BY DEF TasteTypeOK, ActKinds
    <3>4. act' \in [Acts -> ActKinds]
      BY <1>4, <3>2, <3>3 DEF ReadSignals
    <3> QED BY <1>4, <3>4 DEF ReadSignals, TasteTypeOK, ActKinds
  <2>2. Settling'
    BY <1>4 DEF ReadSignals, TasteTypeOK, ActAt, Settling
  <2>3. TasteSettles'
    BY <1>4 DEF ReadSignals, TasteSettles
  <2> QED BY <2>1, <2>2, <2>3
<1>5. ASSUME NEW a \in Acts, DeleteVector(a)  PROVE TasteInv'
  <2>1. TasteTypeOK'
    BY <1>5 DEF DeleteVector, TasteTypeOK, ActAt, ActGoes
  <2>2. Settling'
    BY <1>5 DEF DeleteVector, TasteTypeOK, ActAt, ActGoes, Settling
  <2>3. TasteSettles'
    BY <1>5 DEF DeleteVector, TasteSettles
  <2> QED BY <2>1, <2>2, <2>3
<1>7. ASSUME NEW a \in Acts, DropVector(a)  PROVE TasteInv'
  <2>1. /\ ~ActAt(a, "idle") /\ act[a].pc = "drop" /\ RefreshEnds(a)
        /\ signals' = signals /\ vectors' = vectors /\ interests' = interests
        /\ tasteRow' = tasteRow /\ tasteCache' = NoVector
    BY <1>7 DEF DropVector, ActAt
  <2>2. act[a].alone => tasteRow = NoVector
    BY <2>1 DEF Settling, ActAt
  <2>3. settled.kind = "none"
    BY <2>1 DEF Settling, ActAt
  <2>4. tasteRow \in TasteVectors \union {NoVector}
    BY DEF TasteTypeOK
  <2> QED BY RefreshKeeps, <2>1, <2>2, <2>3, <2>4
<1>8. ASSUME NEW a \in Acts, ReadVectors(a)  PROVE TasteInv'
  <2> DEFINE made == act[a].read \intersect vectors
  <2>1. /\ ~ActAt(a, "idle") /\ act[a].pc = "vectors"
        /\ signals' = signals /\ vectors' = vectors /\ interests' = interests
        /\ tasteRow' = tasteRow /\ tasteCache' = tasteCache
    BY <1>8 DEF ReadVectors, ActAt
  <2>2. act[a].alone => signals # {}
    BY <2>1 DEF Settling, ActAt
  <2>3. CASE made = {}
    <3>1. RefreshEnds(a)
      BY <1>8, <2>3 DEF ReadVectors
    <3>2. tasteRow \in TasteVectors \union {NoVector} /\ tasteCache \in TasteVectors \union {NoVector}
      BY DEF TasteTypeOK
    <3> QED BY RefreshKeeps, <2>1, <2>2, <3>1, <3>2
  <2>4. CASE made # {}
    <3>1. act' = [act EXCEPT ![a].read = made, ![a].pc = "upsert"] /\ settled' = settled
      BY <1>8, <2>4 DEF ReadVectors
    <3>2. \A k \in ActKinds, m \in SUBSET TastedVideos : [k EXCEPT !.read = m, !.pc = "upsert"] \in ActKinds
      BY DEF ActKinds
    <3>3. act \in [Acts -> ActKinds] /\ made \in SUBSET TastedVideos
      BY DEF TasteTypeOK, ActKinds
    <3> HIDE DEF made
    <3>4. act' \in [Acts -> ActKinds]
      BY <3>1, <3>2, <3>3
    <3>5. TasteTypeOK'
      BY <2>1, <3>1, <3>4 DEF TasteTypeOK, ActKinds
    <3>6. Settling'
      BY <2>1, <2>2, <3>1 DEF Settling, ActAt, TasteTypeOK
    <3>7. TasteSettles'
      BY <2>1, <3>1 DEF TasteSettles
    <3> QED BY <3>5, <3>6, <3>7
  <2> QED BY <2>3, <2>4
<1>9. ASSUME NEW a \in Acts, UpsertVector(a)  PROVE TasteInv'
  <2>1. /\ ~ActAt(a, "idle") /\ act[a].pc = "upsert" /\ RefreshEnds(a)
        /\ signals' = signals /\ vectors' = vectors /\ interests' = interests
        /\ tasteRow' = act[a].read /\ tasteCache' \in {tasteCache, act[a].read}
    BY <1>9 DEF UpsertVector, ActAt
  <2>2. settled.kind = "none" /\ (act[a].alone => signals # {})
    BY <2>1 DEF Settling, ActAt
  <2>3. act[a].read \in TasteVectors
    BY <2>1 DEF TasteTypeOK, TasteVectors, Settling
  <2>4. \A b \in Acts \ {a} : act[b].alone => ActAt(b, "idle")
    BY <2>1 DEF Settling, ActAt
  <2>5. tasteCache \in TasteVectors \union {NoVector}
    BY DEF TasteTypeOK
  <2> QED BY RefreshKeeps, <2>1, <2>2, <2>3, <2>4, <2>5
<1>10. ASSUME NEW a \in Acts, ReadTags(a)  PROVE TasteInv'
  <2>1. /\ act[a].pc = "tags" /\ act' = [act EXCEPT ![a].tags = interests, ![a].pc = "merge"]
        /\ UNCHANGED <<signals, vectors, tasteRow, tasteCache, interests, settled>>
    BY <1>10 DEF ReadTags, ActAt
  <2>2. \A k \in ActKinds, t \in TagLists : [k EXCEPT !.tags = t, !.pc = "merge"] \in ActKinds
    BY DEF ActKinds
  <2>3. act \in [Acts -> ActKinds] /\ interests \in TagLists
    BY DEF TasteTypeOK, ActKinds
  <2>4. act' \in [Acts -> ActKinds]
    BY <2>1, <2>2, <2>3
  <2>5. TasteTypeOK'
    BY <2>1, <2>4 DEF TasteTypeOK, ActKinds
  <2>6. Settling'
    BY <2>1 DEF Settling, ActAt, TasteTypeOK
  <2>7. TasteSettles'
    BY <2>1 DEF TasteSettles
  <2> QED BY <2>5, <2>6, <2>7
<1>11. ASSUME NEW a \in Acts, WriteTags(a)  PROVE TasteInv'
  <2> DEFINE v == act[a].video
             merged == Merge(act[a].tags, TagsOf[v])
  <2>1. /\ ~ActAt(a, "idle") /\ act[a].pc = "merge" /\ ActEnds(a)
        /\ interests' = IF merged = act[a].tags THEN interests ELSE merged
        /\ UNCHANGED <<signals, vectors, tasteRow, tasteCache>>
    BY <1>11 DEF WriteTags, ActAt
  <2>2. v \in TastedVideos /\ act[a].tags \in TagLists /\ interests \in TagLists
    BY <2>1 DEF TasteTypeOK, Settling
  <2>3. merged \in TagLists /\ IsSuffix(TagsOf[v], merged)
    <3> HIDE DEF v
    <3> QED BY <2>2, MergeEndsWithNew
  <2>4. act[a].alone => interests' = merged
    BY <2>1 DEF Settling, ActAt
  <2>5. act[a].kind # "unlike"
    BY <2>1 DEF Settling
  <2>6. \A b \in Acts \ {a} : act[b].alone => ActAt(b, "idle")
    BY <2>1 DEF Settling, ActAt
  <2>7. tasteRow' \in TasteVectors \union {NoVector} /\ tasteCache' \in TasteVectors \union {NoVector}
    BY <2>1 DEF TasteTypeOK
  <2>8. interests' \in TagLists
    BY <2>1, <2>2, <2>3
  <2> HIDE DEF merged
  <2> QED BY <2>1, <2>3, <2>4, <2>5, <2>6, <2>7, <2>8, EndSettles
<1>12. ASSUME NEW a \in Acts, NEW pc \in {"idle", "tags"}, AbandonStep(a, pc)  PROVE TasteInv'
  <2>1. /\ ~ActAt(a, "idle") /\ pc \in {"idle", AfterRefresh(a)}
        /\ act' = [act EXCEPT ![a] = IF pc = "idle" \/ act[a].pc \in {"tags", "merge"} THEN NotActing
                                     ELSE [act[a] EXCEPT !.pc = pc, !.read = {}, !.alone = FALSE]]
        /\ UNCHANGED <<signals, vectors, tasteRow, tasteCache, interests, settled>>
    BY <1>12 DEF AbandonStep
  <2>2. NotActing \in ActKinds
    BY EmptyTagList DEF NotActing, ActKinds
  <2>3. \A k \in ActKinds : [k EXCEPT !.pc = pc, !.read = {}, !.alone = FALSE] \in ActKinds
    BY DEF ActKinds
  <2>4. act \in [Acts -> ActKinds]
    BY DEF TasteTypeOK, ActKinds
  <2>5. act' \in [Acts -> ActKinds]
    BY <2>1, <2>2, <2>3, <2>4
  <2>6. TasteTypeOK'
    BY <2>1, <2>5 DEF TasteTypeOK, ActKinds
  <2>7. Settling'
    BY <2>1 DEF Settling, ActAt, TasteTypeOK, NotActing, AfterRefresh
  <2>8. TasteSettles'
    BY <2>1 DEF TasteSettles
  <2> QED BY <2>6, <2>7, <2>8
<1>13. CASE UNCHANGED tasteVars
  BY <1>13 DEF tasteVars, TasteTypeOK, Settling, TasteSettles, ActAt
<1> QED BY <1>1, <1>2, <1>3, <1>4, <1>5, <1>7, <1>8, <1>9, <1>10, <1>11, <1>12, <1>13 DEF TasteNext

\* After an act with no other beside it the vector and the tags of an account
\* are the act's, for any number of acts, videos and tags (TasteSettles).
THEOREM TasteIsSettled == TasteSafety => []TasteSettles
<1>1. TasteInv => TasteSettles
  BY DEF TasteInv
<1> QED BY TasteStart, TasteStep, <1>1, PTL DEF TasteSafety
-----------------------------------------------------------------------------
(* The types of the parts.                                                  *)

\* Where a client can be and what for, and what the types say of the rest.
HotPcs == {"rest", "exists", "union", "read", "persisted"} \union MakerAt

HotClientsTyped ==
    \A c \in HotClients :
        /\ hotClient[c].pc \in HotPcs /\ hotClient[c].why \in {"size", "page"}
        /\ hotClient[c].at \in 0..LastMoment

HotTyped ==
    /\ HotClientsTyped
    /\ (\A a \in Moments : snapshot[a] = NoSnapshot \/ snapshot[a] \in [of : Rankings, ttl : BOOLEAN])
    /\ abandoned \in SUBSET Moments

\* A client goes on, asks for a snapshot, or is at rest with one page more.
LEMMA HotStepTypes ==
    ASSUME HotClientsTyped, ClientsOK, NEW c \in HotClients
    PROVE  /\ \A pc \in HotPcs : HotGoes(c, pc) => HotClientsTyped'
           /\ \A why \in {"size", "page"}, a \in 0..LastMoment : Ensures(c, why, a) => HotClientsTyped'
           /\ \A page : Got(c, page) => HotClientsTyped'
           /\ hotClient' = [hotClient EXCEPT ![c] = HotResting] => HotClientsTyped'
<1>1. DOMAIN hotClient = HotClients /\ \A d \in HotClients : DOMAIN hotClient[d] = {"pc", "why", "at", "walk"}
  BY DEF ClientsOK
<1>2. ASSUME DOMAIN hotClient' = HotClients, \A d \in HotClients \ {c} : hotClient'[d] = hotClient[d],
             hotClient'[c].pc \in HotPcs, hotClient'[c].why \in {"size", "page"},
             hotClient'[c].at \in 0..LastMoment
      PROVE  HotClientsTyped'
  BY <1>2 DEF HotClientsTyped
<1>3. /\ hotClient[c].pc \in HotPcs /\ hotClient[c].why \in {"size", "page"}
      /\ hotClient[c].at \in 0..LastMoment
  BY DEF HotClientsTyped
<1>4. ASSUME NEW pc \in HotPcs, HotGoes(c, pc)  PROVE HotClientsTyped'
  <2>1. hotClient' = [hotClient EXCEPT ![c].pc = pc]
    BY <1>4 DEF HotGoes
  <2>2. /\ DOMAIN hotClient' = HotClients /\ \A d \in HotClients \ {c} : hotClient'[d] = hotClient[d]
        /\ hotClient'[c] = [hotClient[c] EXCEPT !.pc = pc]
    BY <1>1, <2>1
  <2>3. /\ hotClient'[c].pc = pc /\ hotClient'[c].why = hotClient[c].why
        /\ hotClient'[c].at = hotClient[c].at
    BY <1>1, <2>2
  <2> QED BY <1>2, <1>3, <2>2, <2>3
<1>5. ASSUME NEW why \in {"size", "page"}, NEW a \in 0..LastMoment, Ensures(c, why, a)
      PROVE  HotClientsTyped'
  <2>1. /\ DOMAIN hotClient' = HotClients /\ \A d \in HotClients \ {c} : hotClient'[d] = hotClient[d]
        /\ hotClient'[c].pc = "exists" /\ hotClient'[c].why = why /\ hotClient'[c].at = a
    BY <1>1, <1>5 DEF Ensures
  <2> QED BY <1>2, <2>1 DEF HotPcs
<1>6. /\ HotResting.pc = "rest" /\ HotResting.why = "size" /\ HotResting.at = 0
      /\ 0 \in 0..LastMoment /\ "rest" \in HotPcs
  BY HotAssumption DEF HotResting, HotPcs
<1>7. ASSUME NEW page, Got(c, page)  PROVE HotClientsTyped'
  <2> DEFINE w == Append(Walk(c), page)
  <2>1. hotClient' = [hotClient EXCEPT ![c] = [HotResting EXCEPT !.walk = w]]
    BY <1>7 DEF Got
  <2> HIDE DEF w
  <2>2. /\ DOMAIN hotClient' = HotClients /\ \A d \in HotClients \ {c} : hotClient'[d] = hotClient[d]
        /\ hotClient'[c] = [HotResting EXCEPT !.walk = w]
    BY <1>1, <2>1
  <2>3. hotClient'[c].pc = "rest" /\ hotClient'[c].why = "size" /\ hotClient'[c].at = 0
    BY <2>2 DEF HotResting
  <2> QED BY <1>2, <1>6, <2>2, <2>3
<1>8. ASSUME hotClient' = [hotClient EXCEPT ![c] = HotResting]  PROVE HotClientsTyped'
  <2>1. /\ DOMAIN hotClient' = HotClients /\ \A d \in HotClients \ {c} : hotClient'[d] = hotClient[d]
        /\ hotClient'[c] = HotResting
    BY <1>1, <1>8
  <2> QED BY <1>2, <1>6, <2>1
<1> QED BY <1>4, <1>5, <1>7, <1>8

\* Rankings, snapshots, cached pages and walks keep their types
\* (popularity/service.go, feed/cache.go).
LEMMA HotTypes == HotSafety => []HotTypeOK
<1>1. HotInit => HotTyped
  BY HotAssumption DEF HotInit, HotTyped, HotClientsTyped, HotResting, HotPcs
<1>2. RankInv /\ RankInv' /\ HotTyped /\ [HotNext]_hotVars => HotTyped'
  <2> SUFFICES ASSUME RankInv, RankInv', HotTyped, [HotNext]_hotVars  PROVE HotTyped'
    OBVIOUS
  <2>0. /\ HotClientsTyped /\ ClientsOK /\ abandoned \in SUBSET Moments
        /\ \A a \in Moments : snapshot[a] = NoSnapshot \/ snapshot[a] \in [of : Rankings, ttl : BOOLEAN]
        /\ DOMAIN snapshot = Moments /\ window \in Rankings
    BY DEF HotTyped, RankInv, StoreOK
  <2>1. ASSUME UNCHANGED hotClient  PROVE HotClientsTyped'
    BY <2>0, <2>1 DEF HotClientsTyped
  <2>2. ASSUME HotClientsTyped', UNCHANGED <<snapshot, abandoned>>  PROVE HotTyped'
    BY <2>0, <2>2 DEF HotTyped
  <2>3. \A c \in HotClients : /\ hotClient[c].pc \notin {"rest", "persisted"} => hotClient[c].at \in Moments
                              /\ IsWalk(Walk(c)) /\ hotClient[c].pc \in HotPcs
                              /\ hotClient[c].at \in 0..LastMoment
    BY <2>0 DEF ClientsOK, Working, Walk, HotClientsTyped
  <2>4. Moments \subseteq 0..LastMoment /\ \A x \in Page : x.asOf \in 0..LastMoment
    BY DEF Moments, Page
  <2>5. \A c \in HotClients : AskedAsOf(c) \in 0..LastMoment
    <3> SUFFICES ASSUME NEW c \in HotClients  PROVE AskedAsOf(c) \in 0..LastMoment
      OBVIOUS
    <3>1. 0 \in 0..LastMoment
      BY HotAssumption
    <3>2. Walk(c) # <<>> => Walk(c)[Len(Walk(c))] \in Page
      BY <2>3, WalkFacts
    <3> QED BY <2>4, <3>1, <3>2 DEF AskedAsOf
  <2>6. CASE ForgetWindow \/ ForgetPage \/ \E v \in HotVideos : Record(v)
    BY <2>1, <2>2, <2>6 DEF ForgetWindow, ForgetPage, Record, hotStore
  <2>7. ASSUME NEW a \in Moments, ForgetSnapshot(a)  PROVE HotTyped'
    <3>1. HotClientsTyped' /\ snapshot' = [snapshot EXCEPT ![a] = NoSnapshot] /\ abandoned' = abandoned
      BY <2>1, <2>7 DEF ForgetSnapshot
    <3> QED BY <2>0, <3>1 DEF HotTyped
  <2>8. ASSUME NEW c \in HotClients, Ask(c) \/ ReadSize(c)  PROVE HotTyped'
    <3>1. UNCHANGED <<snapshot, abandoned>>
      BY <2>8 DEF Ask, ReadSize, hotStore
    <3>2. CASE Ask(c)
      <4>1. \/ Ensures(c, "page", AskedAsOf(c)) \/ (\E now \in Moments : Ensures(c, "size", now))
            \/ HotGoes(c, "persisted")
        BY <3>2 DEF Ask
      <4>2. HotClientsTyped'
        BY <2>0, <2>4, <2>5, <4>1, HotStepTypes DEF HotPcs
      <4> QED BY <2>2, <3>1, <4>2
    <3>3. CASE ReadSize(c)
      <4>1. (\E now \in hotClient[c].at..LastMoment : Ensures(c, "page", now)) \/ HotGoes(c, "persisted")
        BY <3>3 DEF ReadSize
      <4>2. hotClient[c].at..LastMoment \subseteq 0..LastMoment
        BY <2>3, HotAssumption
      <4>3. HotClientsTyped'
        BY <2>0, <4>1, <4>2, HotStepTypes DEF HotPcs
      <4> QED BY <2>2, <3>1, <4>3
    <3> QED BY <2>8, <3>2, <3>3
  <2>9. ASSUME NEW c \in HotClients, AskCached(c) \/ StartOver(c) \/ ReadPersisted(c)  PROVE HotTyped'
    <3>1. UNCHANGED <<snapshot, abandoned>>
      BY <2>9 DEF AskCached, StartOver, ReadPersisted, hotStore
    <3>2. (\E page : Got(c, page)) \/ hotClient' = [hotClient EXCEPT ![c] = HotResting]
      BY <2>9, Zenon DEF AskCached, StartOver, ReadPersisted, Answer
    <3>3. HotClientsTyped'
      BY <2>0, <3>2, HotStepTypes
    <3> QED BY <2>2, <3>1, <3>3
  <2>10. ASSUME NEW c \in HotClients, Exists(c) \/ Card(c)  PROVE HotTyped'
    <3>1. UNCHANGED <<snapshot, abandoned>>
      BY <2>10 DEF Exists, Card, hotStore
    <3>2. \E pc \in HotPcs : HotGoes(c, pc)
      BY <2>10 DEF Exists, Card, HotPcs, MakerAt
    <3>3. HotClientsTyped'
      BY <2>0, <3>2, HotStepTypes
    <3> QED BY <2>2, <3>1, <3>3
  <2>11. ASSUME NEW c \in HotClients, Unite(c)  PROVE HotTyped'
    <3> DEFINE a == hotClient[c].at
               s == IF window = <<>> THEN NoSnapshot ELSE [of |-> window, ttl |-> FALSE]
               marked(page) == IF page.asOf = a THEN [page EXCEPT !.old = TRUE] ELSE page
    <3>1. a \in Moments
      BY <2>3, <2>11 DEF Unite, HotAt
    <3>2. s = NoSnapshot \/ s \in [of : Rankings, ttl : BOOLEAN]
      BY <2>0
    <3>3. snapshot' = [snapshot EXCEPT ![a] = s] /\ abandoned' = abandoned \ {a}
      BY <2>11 DEF Unite
    <3>4. hotClient' = [d \in HotClients |->
                [hotClient[d] EXCEPT !.pc = IF d = c THEN "card" ELSE @,
                                     !.walk = [i \in DOMAIN @ |-> marked(@[i])]]]
      BY <2>11 DEF Unite
    <3> HIDE DEF a, s, marked
    <3>5. ASSUME NEW d \in HotClients
          PROVE  /\ hotClient'[d].pc \in HotPcs /\ hotClient'[d].why \in {"size", "page"}
                 /\ hotClient'[d].at \in 0..LastMoment
      <4> DEFINE pcs == IF d = c THEN "card" ELSE hotClient[d].pc
                 w == [i \in DOMAIN hotClient[d].walk |-> marked(hotClient[d].walk[i])]
      <4>1. hotClient'[d] = [hotClient[d] EXCEPT !.pc = pcs, !.walk = w]
        BY <3>4
      <4>2. pcs \in HotPcs
        BY <2>3 DEF HotPcs, MakerAt
      <4> HIDE DEF pcs, w
      <4>3. DOMAIN hotClient[d] = {"pc", "why", "at", "walk"}
        BY <2>0 DEF ClientsOK
      <4>4. /\ hotClient'[d].pc = pcs /\ hotClient'[d].why = hotClient[d].why
            /\ hotClient'[d].at = hotClient[d].at
        BY <4>1, <4>3
      <4> QED BY <2>0, <4>2, <4>4 DEF HotClientsTyped
    <3>6. HotClientsTyped'
      BY <3>5 DEF HotClientsTyped
    <3> QED BY <2>0, <3>1, <3>2, <3>3, <3>6 DEF HotTyped
  <2>12. ASSUME NEW c \in HotClients, Settle(c) \/ Expire(c)  PROVE HotTyped'
    <3> DEFINE a == hotClient[c].at
    <3>1. a \in Moments
      BY <2>3, <2>12 DEF Settle, Expire, HotAt
    <3>2. HotClientsTyped'
      BY <2>0, <2>12, HotStepTypes DEF Settle, Expire, HotPcs
    <3>3. abandoned' \in SUBSET Moments
      BY <2>0, <2>12 DEF Settle, Expire
    <3>4. \/ snapshot' = [snapshot EXCEPT ![a] = NoSnapshot]
          \/ snapshot' = [snapshot EXCEPT ![a] = IF @ = NoSnapshot THEN @ ELSE [@ EXCEPT !.ttl = TRUE]]
      BY <2>12 DEF Settle, Expire
    <3>5. snapshot[a] # NoSnapshot => [snapshot[a] EXCEPT !.ttl = TRUE] \in [of : Rankings, ttl : BOOLEAN]
      BY <2>0, <3>1
    <3> HIDE DEF a
    <3> QED BY <2>0, <3>1, <3>2, <3>3, <3>4, <3>5 DEF HotTyped
  <2>13. ASSUME NEW c \in HotClients, ReadPage(c)  PROVE HotTyped'
    <3>1. UNCHANGED <<snapshot, abandoned>>
      BY <2>13 DEF ReadPage, hotStore
    <3>2. HotGoes(c, "persisted") \/ \E page : Got(c, page)
      BY <2>13, Zenon DEF ReadPage, Answer
    <3>3. HotClientsTyped'
      BY <2>0, <3>2, HotStepTypes DEF HotPcs
    <3> QED BY <2>2, <3>1, <3>3
  <2>14. ASSUME NEW c \in HotClients, NEW pc \in {"persisted", "rest"}, SnapshotFails(c, pc)  PROVE HotTyped'
    <3>1. HotClientsTyped' /\ snapshot' = snapshot
      BY <2>0, <2>14, HotStepTypes DEF SnapshotFails, HotPcs
    <3>2. abandoned' \in SUBSET Moments
      BY <2>0, <2>3, <2>14 DEF SnapshotFails, MakerAt
    <3> QED BY <2>0, <3>1, <3>2 DEF HotTyped
  <2>15. CASE UNCHANGED hotVars
    BY <2>1, <2>2, <2>15 DEF hotVars
  <2> QED BY <2>6, <2>7, <2>8, <2>9, <2>10, <2>11, <2>12, <2>13, <2>14, <2>15 DEF HotNext
<1>3. RankInv /\ HotTyped => HotTypeOK
  <2> SUFFICES ASSUME RankInv, HotTyped  PROVE HotTypeOK
    OBVIOUS
  <2>1. \A c \in HotClients : \A i \in DOMAIN hotClient[c].walk : hotClient[c].walk[i] \in Page
    BY WalkFacts DEF RankInv, ClientsOK
  <2>2. window \in Rankings /\ \A p \in hotPages : p.page \in Page
    BY DEF RankInv, StoreOK, CacheOK
  <2> QED BY <2>1, <2>2 DEF HotTyped, HotClientsTyped, HotPcs, HotTypeOK
<1> QED BY <1>1, <1>2, <1>3, RankHolds, PTL DEF HotSafety
-----------------------------------------------------------------------------
\* The row, the copies and whoever reads and changes them keep their types
\* (video/service.go, video/detail_cache.go).
LEMMA DetailTypes == DetailSafety => []DetailTypeOK
<1> DEFINE Typed == l1 \in [Instances -> Copies \union {Uncached}]
<1>1. DetailInit => Typed
  BY DEF DetailInit
<1>2. DetailInv /\ Typed /\ [DetailNext]_detailVars => Typed'
  <2> SUFFICES ASSUME DetailInv, Typed, [DetailNext]_detailVars  PROVE Typed'
    OBVIOUS
  <2> USE DEF detailCaches
  <2>1. /\ \A r \in DetailReaders : detailReader[r].copy \in Copies \union {Uncached}
        /\ \A w \in Writers : Marker(w) \in Copies
    BY DEF DetailInv, Read, ReaderKinds, Rowly, WriterKinds, Marker, Copies
  <2>2. ASSUME NEW r \in DetailReaders, (\E i \in Instances : ReadL2(r, i)) \/ LoadRow(r) \/ SetL2(r) \/ FillL1(r)
        PROVE  Typed'
    BY <2>1, <2>2 DEF ReadL2, LoadRow, SetL2, FillL1
  <2>3. ASSUME NEW w \in Writers,
               \/ \E i \in Instances, deletes \in BOOLEAN : ChangeRow(w, i, deletes)
               \/ DeleteL2(w) \/ DeleteL2Fails(w) \/ PublishInvalidation(w)
               \/ PublishInvalidationFails(w) \/ MarkL2(w) \/ WriterDies(w)
        PROVE  Typed'
    BY <2>3 DEF ChangeRow, DeleteL2, DeleteL2Fails, PublishInvalidation, PublishInvalidationFails,
                MarkL2, WriterDies
  <2>4. ASSUME NEW w \in Writers, MarkL1(w)  PROVE Typed'
    BY <2>1, <2>4 DEF MarkL1
  <2>5. CASE Verdict \/ ExpireL2
    BY <2>5 DEF Verdict, ExpireL2
  <2>6. ASSUME NEW i \in Instances, ExpireL1(i) \/ DropL1(i) \/ LoseFanout(i)  PROVE Typed'
    BY <2>6 DEF ExpireL1, DropL1, LoseFanout
  <2>7. CASE UNCHANGED detailVars
    BY <2>7 DEF detailVars
  <2> QED BY <2>2, <2>3, <2>4, <2>5, <2>6, <2>7 DEF DetailNext
<1>3. DetailInv /\ Typed => DetailTypeOK
  BY DEF DetailInv, Rowly, Read, WriterKinds, ReaderKinds, Explained, DetailTypeOK
<1> QED BY <1>1, <1>2, <1>3, DetailHolds, PTL DEF DetailSafety
-----------------------------------------------------------------------------
\* Where a client can be in its walk.
WalkerKinds == [pc : {"rest", "page", "rows"}, cursor : Cursors, version : 1..MaxPageVersion,
                ids : SUBSET Uploads, ended : BOOLEAN]

\* The oldest of some videos is one of them.
LEMMA OldestIsThere ==
    ASSUME NEW ids \in SUBSET Uploads, ids # {}
    PROVE  Min(ids) \in ids
<1> DEFINE R == {p \in Nat \X Nat : p[1] < p[2]}
<1>1. \A x, y \in Nat : <<x, y>> \in R <=> x < y
  OBVIOUS
<1> HIDE DEF R
<1>2. \A x \in ids : x \in Nat
  BY DEF Uploads
<1>3. IsFiniteSet(ids)
  <2>1. IsFiniteSet(Uploads)
    BY LatestAssumption, FS_Interval DEF Uploads
  <2> QED BY <2>1, FS_Subset
<1>4. PICK w \in ids : \A u \in ids \ {w} : <<w, u>> \in R
  <2>1. \A x \in ids : <<x, x>> \notin R
    BY <1>1, <1>2
  <2>2. \A x, y, z \in ids : <<x, y>> \in R /\ <<y, z>> \in R => <<x, z>> \in R
    BY <1>1, <1>2
  <2>3. \A x, y \in ids : x # y => <<x, y>> \in R \/ <<y, x>> \in R
    BY <1>1, <1>2
  <2> QED BY <1>3, <2>1, <2>2, <2>3, FirstThere
<1>5. \A u \in ids : w <= u
  <2> SUFFICES ASSUME NEW u \in ids  PROVE w <= u
    OBVIOUS
  <2>1. u \in Nat /\ w \in Nat
    BY <1>2
  <2>2. u = w \/ w < u
    BY <1>1, <1>4, <2>1
  <2> QED BY <2>1, <2>2
<1> QED BY <1>5 DEF Min

\* A client takes a page: it goes on behind a video of it, or where it was.
LEMMA TakeTypes ==
    ASSUME walker \in [Walkers -> WalkerKinds], due \in [Walkers -> SUBSET Uploads],
           NEW c \in Walkers, NEW ids \in SUBSET Uploads, NEW more \in BOOLEAN, Take(c, ids, more)
    PROVE  walker' \in [Walkers -> WalkerKinds] /\ due' \in [Walkers -> SUBSET Uploads]
<1> DEFINE cursor == IF ids = {} THEN walker[c].cursor ELSE Min(ids)
           w == [Resting EXCEPT !.cursor = cursor, !.ended = ~more]
<1>1. cursor \in Cursors
  BY OldestIsThere DEF WalkerKinds, Cursors
<1>2. walker' = [walker EXCEPT ![c] = w] /\ due' = [due EXCEPT ![c] = due[c] \ ids]
  BY DEF Take
<1>3. Resting \in WalkerKinds
  BY PageVersionAssumption DEF Resting, WalkerKinds, Cursors
<1> HIDE DEF cursor
<1>4. w \in WalkerKinds
  BY <1>1, <1>3 DEF WalkerKinds
<1> HIDE DEF w
<1> QED BY <1>2, <1>4

\* A page that is stored is filed under what its client asked for.
LEMMA StoreTypes ==
    ASSUME walker \in [Walkers -> WalkerKinds], pages \subseteq Pages,
           NEW c \in Walkers, NEW ids \in SUBSET Uploads, NEW more \in BOOLEAN, NEW cut \in BOOLEAN,
           StorePage(c, ids, more, cut)
    PROVE  pages' \subseteq Pages
<1> DEFINE key == PageKey(c)
<1>1. key \in PageKeys
  BY DEF WalkerKinds, PageKey, PageKeys
<1> HIDE DEF key
<1>2. [key |-> key, ids |-> ids, more |-> more, cut |-> cut] \in Pages
  BY <1>1 DEF Pages
<1> QED BY <1>2 DEF StorePage, key

\* Videos, events, the timeline, cached pages and clients keep their types
\* (feed/service.go, worker/timeline_worker.go).
LEMMA LatestTypes == LatestSafety => []LatestTypeOK
<1>1. LatestInit => LatestTypeOK
  <2> SUFFICES ASSUME LatestInit  PROVE LatestTypeOK
    OBVIOUS
  <2>1. Resting \in WalkerKinds
    BY PageVersionAssumption DEF Resting, WalkerKinds, Cursors
  <2>2. walker \in [Walkers -> WalkerKinds]
    BY <2>1 DEF LatestInit
  <2>3. 0 \in Times /\ 0 \in 0..MaxPageVersion /\ 1 \in 1..MaxPageVersion
    BY LatestAssumption, PageVersionAssumption DEF Times
  <2> QED BY <2>2, <2>3 DEF LatestInit, LatestTypeOK, WalkerKinds
<1>2. LatestTypeOK /\ [LatestNext]_latestVars => LatestTypeOK'
  <2> SUFFICES ASSUME LatestTypeOK, [LatestNext]_latestVars  PROVE LatestTypeOK'
    OBVIOUS
  <2> DEFINE Events == [video : Uploads, at : Times, added : BOOLEAN]
  <2>0. /\ clock \in Times /\ shownable \subseteq Uploads /\ pushes \subseteq Events
        /\ timeline \in [Uploads -> Times] /\ pageVersion \in 1..MaxPageVersion /\ pages \subseteq Pages
        /\ walker \in [Walkers -> WalkerKinds] /\ announced \in [Uploads -> 0..MaxPageVersion]
        /\ due \in [Walkers -> SUBSET Uploads]
    BY DEF LatestTypeOK, WalkerKinds
  <2>1. ASSUME clock' \in Times, shownable' \subseteq Uploads, pushes' \subseteq Events,
               timeline' \in [Uploads -> Times], pageVersion' \in 1..MaxPageVersion, pages' \subseteq Pages,
               walker' \in [Walkers -> WalkerKinds], announced' \in [Uploads -> 0..MaxPageVersion],
               due' \in [Walkers -> SUBSET Uploads]
        PROVE  LatestTypeOK'
    BY <2>1 DEF LatestTypeOK, WalkerKinds
  <2> USE DEF latestStores
  <2>2. CASE Upload
    <3>1. clock' \in Times
      BY <2>0, <2>2, LatestAssumption DEF Upload, Times
    <3> QED BY <2>0, <2>1, <2>2, <3>1 DEF Upload
  <2>3. ASSUME NEW v \in Uploads, Approve(v)  PROVE LatestTypeOK'
    <3>1. pushes' \subseteq Events
      <4>1. [video |-> v, at |-> clock, added |-> FALSE] \in Events
        BY <2>0
      <4> HIDE DEF Events
      <4> QED BY <2>0, <2>3, <4>1 DEF Approve
    <3>2. announced' \in [Uploads -> 0..MaxPageVersion]
      BY <2>0, <2>3, PageVersionAssumption DEF Approve
    <3>3. shownable' \subseteq Uploads
      BY <2>0, <2>3 DEF Approve
    <3> HIDE DEF Events
    <3> QED BY <2>0, <2>1, <2>3, <3>1, <3>2, <3>3 DEF Approve
  <2>4. ASSUME NEW v \in Uploads, WithdrawListed(v)  PROVE LatestTypeOK'
    <3>1. due' \in [Walkers -> SUBSET Uploads] /\ shownable' \subseteq Uploads
      BY <2>0, <2>4 DEF WithdrawListed
    <3> QED BY <2>0, <2>1, <2>4, <3>1 DEF WithdrawListed
  <2>5. ASSUME NEW e \in pushes, AddToTimeline(e)  PROVE LatestTypeOK'
    <3>1. e \in Events /\ [e EXCEPT !.added = TRUE] \in Events
      BY <2>0
    <3>2. pushes' \subseteq Events
      BY <2>0, <2>5, <3>1 DEF AddToTimeline
    <3>3. timeline' \in [Uploads -> Times]
      BY <2>0, <2>5, <3>1 DEF AddToTimeline
    <3> HIDE DEF Events
    <3> QED BY <2>0, <2>1, <2>5, <3>2, <3>3 DEF AddToTimeline
  <2>6. ASSUME NEW e \in pushes, NEW again \in BOOLEAN, BumpVersion(e, again)  PROVE LatestTypeOK'
    <3>1. e \in Events /\ [e EXCEPT !.added = FALSE] \in Events
      BY <2>0
    <3>2. pushes' \subseteq Events
      BY <2>0, <2>6, <3>1 DEF BumpVersion
    <3>3. pageVersion' \in 1..MaxPageVersion /\ pageVersion + 1 \in 0..MaxPageVersion
      BY <2>0, <2>6, PageVersionAssumption DEF BumpVersion
    <3>4. announced' \in [Uploads -> 0..MaxPageVersion]
      BY <2>0, <2>6, <3>3 DEF BumpVersion
    <3> HIDE DEF Events
    <3> QED BY <2>0, <2>1, <2>6, <3>2, <3>3, <3>4 DEF BumpVersion
  <2>7. ASSUME NEW c \in Walkers, Begin(c)  PROVE LatestTypeOK'
    <3>1. Resting \in WalkerKinds
      BY PageVersionAssumption DEF Resting, WalkerKinds, Cursors
    <3>2. walker' \in [Walkers -> WalkerKinds]
      BY <2>0, <2>7, <3>1 DEF Begin
    <3> QED BY <2>0, <2>1, <2>7, <3>2 DEF Begin
  <2>8. ASSUME NEW c \in Walkers, ReadVersion(c)  PROVE LatestTypeOK'
    <3>1. PICK version \in {1, pageVersion} :
            walker' = [walker EXCEPT ![c].pc = "page", ![c].version = version]
      BY <2>8 DEF ReadVersion
    <3> DEFINE w == [walker[c] EXCEPT !.pc = "page", !.version = version]
    <3>2. version \in 1..MaxPageVersion
      BY <2>0, PageVersionAssumption
    <3>3. w \in WalkerKinds
      BY <2>0, <3>2 DEF WalkerKinds
    <3>4. walker' = [walker EXCEPT ![c] = w]
      BY <2>0, <3>1
    <3> HIDE DEF w
    <3>5. walker' \in [Walkers -> WalkerKinds]
      BY <2>0, <3>3, <3>4
    <3>6. due' \in [Walkers -> SUBSET Uploads]
      BY <2>0, <2>8 DEF ReadVersion
    <3> QED BY <2>0, <2>1, <2>8, <3>5, <3>6 DEF ReadVersion
  <2>9. ASSUME NEW c \in Walkers, CachedPage(c)  PROVE LatestTypeOK'
    <3>1. PICK p \in pages : Take(c, p.ids, p.more)
      BY <2>9 DEF CachedPage
    <3>2. p.ids \in SUBSET Uploads /\ p.more \in BOOLEAN
      BY <2>0 DEF Pages
    <3>3. walker' \in [Walkers -> WalkerKinds] /\ due' \in [Walkers -> SUBSET Uploads]
      BY <2>0, <3>1, <3>2, TakeTypes
    <3> QED BY <2>0, <2>1, <2>9, <3>3 DEF CachedPage
  <2>10. ASSUME NEW c \in Walkers, ReadTimeline(c)  PROVE LatestTypeOK'
    <3> DEFINE ids == TimelineIds(walker[c].cursor)
               w == [walker[c] EXCEPT !.pc = "rows", !.ids = ids]
    <3>1. ids \subseteq Uploads
      BY DEF TimelineIds, Readable
    <3>2. walker' = [walker EXCEPT ![c] = w]
      BY <2>0, <2>10 DEF ReadTimeline
    <3> HIDE DEF ids
    <3>3. w \in WalkerKinds
      BY <2>0, <3>1 DEF WalkerKinds
    <3> HIDE DEF w
    <3>4. walker' \in [Walkers -> WalkerKinds]
      BY <2>0, <3>2, <3>3
    <3> QED BY <2>0, <2>1, <2>10, <3>4 DEF ReadTimeline
  <2>11. ASSUME NEW c \in Walkers, PageFromTimeline(c) \/ PageFromMySQL(c)  PROVE LatestTypeOK'
    <3>1. \E ids \in SUBSET Uploads, more, cut \in BOOLEAN : Take(c, ids, more) /\ StorePage(c, ids, more, cut)
      <4>1. \A found \in SUBSET Uploads : Newest(found, PageLimit) \in SUBSET Uploads
        BY DEF Newest
      <4>2. Shown(c) \in SUBSET Uploads /\ Listed(walker[c].cursor) \in SUBSET Uploads
        BY <2>0 DEF Shown, Listed
      <4>3. CASE PageFromTimeline(c)
        <5>1. /\ Take(c, Newest(Shown(c), PageLimit), Cardinality(Shown(c)) > PageLimit)
              /\ StorePage(c, Newest(Shown(c), PageLimit), Cardinality(Shown(c)) > PageLimit,
                           Cardinality(walker[c].ids) = ReadCount)
          BY <4>3, Zenon DEF PageFromTimeline
        <5> DEFINE more == Cardinality(Shown(c)) > PageLimit
                   cut == Cardinality(walker[c].ids) = ReadCount
        <5>2. more \in BOOLEAN /\ cut \in BOOLEAN /\ Newest(Shown(c), PageLimit) \in SUBSET Uploads
          BY <4>1, <4>2
        <5> QED BY <5>1, <5>2, Zenon
      <4>4. CASE PageFromMySQL(c)
        <5> DEFINE found == Listed(walker[c].cursor)
        <5>1. /\ Take(c, Newest(found, PageLimit), Cardinality(found) > PageLimit)
              /\ StorePage(c, Newest(found, PageLimit), Cardinality(found) > PageLimit, FALSE)
          BY <4>4, Zenon DEF PageFromMySQL
        <5> DEFINE more == Cardinality(found) > PageLimit
        <5>2. more \in BOOLEAN /\ FALSE \in BOOLEAN /\ Newest(found, PageLimit) \in SUBSET Uploads
          BY <4>1, <4>2
        <5> QED BY <5>1, <5>2, Zenon
      <4> QED BY <2>11, <4>3, <4>4
    <3>2. /\ walker' \in [Walkers -> WalkerKinds] /\ due' \in [Walkers -> SUBSET Uploads]
          /\ pages' \subseteq Pages
      BY <2>0, <3>1, TakeTypes, StoreTypes
    <3>3. timeline' = [v \in Uploads |-> IF v \in walker[c].ids \ shownable THEN 0 ELSE timeline[v]]
      BY <2>11 DEF PageFromTimeline, PageFromMySQL
    <3>4. 0 \in Times
      BY LatestAssumption DEF Times
    <3>5. timeline' \in [Uploads -> Times]
      BY <2>0, <3>3, <3>4
    <3> QED BY <2>0, <2>1, <2>11, <3>2, <3>5 DEF PageFromTimeline, PageFromMySQL
  <2>12. ASSUME NEW p \in pages, ExpirePage(p)  PROVE LatestTypeOK'
    BY <2>0, <2>1, <2>12 DEF ExpirePage
  <2>13. CASE UNCHANGED latestVars
    BY <2>0, <2>1, <2>13 DEF latestVars
  <2> QED
    BY <2>2, <2>3, <2>4, <2>5, <2>6, <2>7, <2>8, <2>9, <2>10, <2>11, <2>12, <2>13 DEF LatestNext
<1> QED BY <1>1, <1>2, PTL DEF LatestSafety
-----------------------------------------------------------------------------
\* What is shown, and what the client sends back, beside what RecInv says.
RecTyped ==
    /\ shelf \in [RecVideos -> {"hidden", "public", "broken"}]
    /\ exclude \in Seq(RecVideos) /\ Len(exclude) <= MaxExclude /\ recMore \in BOOLEAN

\* The last entries of a list are a list of as many at most.
LEMMA LastEntries ==
    ASSUME NEW S, NEW s \in Seq(S), NEW n \in Nat
    PROVE  Latest(s, n) \in Seq(S) /\ Len(Latest(s, n)) <= n
<1>1. CASE Len(s) > n
  <2>1. Len(s) - n + 1 \in 1..(Len(s) + 1) /\ Len(s) \in Nat
    BY <1>1
  <2>2. SubSeq(s, Len(s) - n + 1, Len(s)) \in Seq(S)
    BY <2>1
  <2>3. Len(SubSeq(s, Len(s) - n + 1, Len(s))) = n
    BY <2>1
  <2> QED BY <1>1, <2>2, <2>3 DEF Latest
<1>2. CASE ~(Len(s) > n)
  BY <1>2 DEF Latest
<1> QED BY <1>1, <1>2

\* What is shown and what the client sends back keep their types
\* (recommend/service.go, recommend/entity.go).
LEMMA RecTypes == RecSafety => []RecTypeOK
<1>1. RecInit => RecTyped
  BY ExcludeAssumption DEF RecInit, RecTyped
<1>2. RecInv /\ RecTyped /\ [RecNext]_recVars => RecTyped'
  <2> SUFFICES ASSUME RecInv, RecTyped, [RecNext]_recVars  PROVE RecTyped'
    OBVIOUS
  <2> USE DEF RecTyped
  <2>1. ASSUME NEW v \in Movable, NEW how \in {"hidden", "public", "broken"}, Shelve(v, how)
        PROVE  RecTyped'
    BY <2>1 DEF Shelve
  <2>2. CASE AskRecommend \/ MixSlot
    BY <2>2 DEF AskRecommend, MixSlot
  <2>3. CASE FinishPage
    BY <2>3 DEF FinishPage
  <2>4. CASE ShowPage
    <3>1. exclude \o recPage.picked \in Seq(RecVideos)
      BY DEF RecInv, PageKinds
    <3>2. exclude' \in Seq(RecVideos) /\ Len(exclude') <= MaxExclude
      BY <2>4, <3>1, ExcludeAssumption, LastEntries DEF ShowPage
    <3> QED BY <2>4, <3>2 DEF ShowPage
  <2>5. CASE RestartWalk
    BY <2>5, ExcludeAssumption DEF RestartWalk
  <2>6. CASE UNCHANGED recVars
    BY <2>6 DEF recVars
  <2> QED BY <2>1, <2>2, <2>3, <2>4, <2>5, <2>6 DEF RecNext
<1>3. RecInv /\ RecTyped => RecTypeOK
  <2> SUFFICES ASSUME RecInv, RecTyped  PROVE RecTypeOK
    OBVIOUS
  <2>1. ToSet(exclude) \subseteq RecVideos
    BY DEF RecTyped, ToSet
  <2> QED BY <2>1 DEF RecInv, PageKinds, RecTyped, RecTypeOK
<1> QED BY <1>1, <1>2, <1>3, RecHolds, PTL DEF RecSafety
-----------------------------------------------------------------------------
\* The browser's copy holds entries, every row has a number, and the walk is
\* through the videos there are.
WatchTyped ==
    /\ localCopy \in [WatchedVideos -> Entries \union {NoEntry}]
    /\ \A v \in Recorded : record[v].id # 0
    /\ historyWalk.pc \in {"none", "open", "end"}
    /\ historyWalk.listed \subseteq WatchedVideos /\ historyWalk.touched \subseteq WatchedVideos

\* What is persisted is an entry of the browser's copy.
LEMMA PersistTypes ==
    ASSUME localCopy \in [WatchedVideos -> Entries \union {NoEntry}], NEW v \in WatchedVideos,
           NEW pos \in Positions, Persist(v, pos)
    PROVE  localCopy' \in [WatchedVideos -> Entries \union {NoEntry}]
<1>1. Kept(pos) \in Entries
  BY EndAssumption DEF Kept, Completed, Entries, Positions
<1> QED BY <1>1 DEF Persist

\* The player, its requests, the rows and the walk keep their types; no row is
\* numbered beyond the videos there are (history/repo.go).
LEMMA WatchTypes == WatchSafety => []WatchTypeOK
<1>1. WatchInit => WatchTyped
  <2> SUFFICES ASSUME WatchInit  PROVE WatchTyped
    OBVIOUS
  <2>1. ASSUME NEW v \in Recorded  PROVE record[v].id # 0
    <3> DEFINE upto == {u \in SeenBefore : u <= v}
    <3>1. v \in SeenBefore /\ record[v] = HalfSeen(v) /\ v \in Nat
      BY SeenBeforeAssumption DEF WatchInit, Recorded
    <3>2. v \in upto /\ upto \in SUBSET WatchedVideos
      <4>1. v <= v
        BY <3>1
      <4>2. v \in upto
        BY <3>1, <4>1
      <4> QED BY <4>2, SeenBeforeAssumption
    <3>3. IsFiniteSet(upto)
      BY <3>2, SeenBeforeAssumption, FS_Subset
    <3>4. Cardinality(upto) # 0
      BY <3>2, <3>3, FS_EmptySet
    <3> QED BY <3>1, <3>4 DEF HalfSeen
  <2> QED BY <2>1 DEF WatchInit, WatchTyped, NoWalk
<1>2. WatchInv /\ WatchTyped /\ [WatchNext]_watchVars => WatchTyped'
  <2> SUFFICES ASSUME WatchInv, WatchTyped, [WatchNext]_watchVars  PROVE WatchTyped'
    OBVIOUS
  <2>0. /\ localCopy \in [WatchedVideos -> Entries \union {NoEntry}]
        /\ \A v \in Recorded : record[v].id # 0
        /\ historyWalk.pc \in {"none", "open", "end"}
        /\ historyWalk.listed \subseteq WatchedVideos /\ historyWalk.touched \subseteq WatchedVideos
        /\ session \in [video : WatchedVideos \union {0}, atEnd : BOOLEAN]
        /\ DOMAIN historyWalk = {"pc", "done", "cursor", "listed", "touched"}
    BY DEF WatchTyped, WatchInv, RecordsOK, WalkOK, NoWalk
  <2>1. ASSUME localCopy' \in [WatchedVideos -> Entries \union {NoEntry}], UNCHANGED <<record, historyWalk>>
        PROVE  WatchTyped'
    BY <2>0, <2>1 DEF WatchTyped, Recorded
  <2>2. ASSUME UNCHANGED <<localCopy, record>>, historyWalk' = NoWalk
               \/ \E done : historyWalk' = [NoWalk EXCEPT !.pc = "open", !.done = done]
        PROVE  WatchTyped'
    <3>1. historyWalk'.pc \in {"none", "open"} /\ historyWalk'.listed = {} /\ historyWalk'.touched = {}
      <4>1. /\ NoWalk.pc = "none" /\ NoWalk.listed = {} /\ NoWalk.touched = {}
            /\ DOMAIN NoWalk = {"pc", "done", "cursor", "listed", "touched"}
        BY DEF NoWalk
      <4>2. CASE historyWalk' = NoWalk
        BY <4>1, <4>2
      <4>3. ASSUME NEW done, historyWalk' = [NoWalk EXCEPT !.pc = "open", !.done = done]
            PROVE  /\ historyWalk'.pc = "open" /\ historyWalk'.listed = {}
                   /\ historyWalk'.touched = {}
        BY <4>1, <4>3
      <4> QED BY <2>2, <4>2, <4>3
    <3> QED BY <2>0, <2>2, <3>1 DEF WatchTyped, Recorded
  <2>3. CASE PassMilli
    BY <2>0, <2>1, <2>3 DEF PassMilli, watchClient
  <2>4. CASE LeaveHistory
    BY <2>2, <2>4 DEF LeaveHistory, watchClient
  <2>5. ASSUME NEW yes \in BOOLEAN, StartHistory(yes)  PROVE WatchTyped'
    BY <2>2, <2>5 DEF StartHistory, watchClient
  <2>6. ASSUME NEW yes \in BOOLEAN, Note(yes)  PROVE WatchTyped'
    <3>1. Playing /\ session.video \in WatchedVideos /\ End \in Positions
      BY <2>0, <2>6, EndAssumption DEF Note, Playing, Positions
    <3>2. Persist(session.video, End) \/ localCopy' = localCopy
      BY <2>6 DEF Note
    <3> QED BY <2>0, <2>1, <2>6, <3>1, <3>2, PersistTypes DEF Note
  <2>7. ASSUME NEW pos \in Positions, NEW v \in WatchedVideos, Bind(v, pos)  PROVE WatchTyped'
    <3>1. Playing => session.video \in WatchedVideos
      BY <2>0 DEF Playing
    <3>2. (Playing /\ Persist(session.video, pos)) \/ localCopy' = localCopy
      BY <2>7 DEF Bind
    <3> QED BY <2>0, <2>1, <2>7, <3>1, <3>2, PersistTypes DEF Bind
  <2>8. ASSUME NEW pos \in Positions, Flush(pos) \/ Unbind(pos)  PROVE WatchTyped'
    <3>1. session.video \in WatchedVideos /\ Persist(session.video, pos)
      BY <2>0, <2>8 DEF Flush, Unbind, Playing
    <3> QED BY <2>0, <2>1, <2>8, <3>1, PersistTypes DEF Flush, Unbind
  <2>9. ASSUME NEW q \in Upserts, LoseUpsert(q) \/ ServeUpsert(q)  PROVE WatchTyped'
    BY <2>0, <2>1, <2>9 DEF LoseUpsert, ServeUpsert, watchClient
  <2>10. ASSUME NEW q \in Upserts, WriteRecord(q)  PROVE WatchTyped'
    <3> DEFINE u == upserts[q]
               entry == [id |-> IF record[u.video] = NoEntry THEN Cardinality(Recorded) + 1
                                ELSE record[u.video].id,
                         at |-> u.at, kept |-> Kept(u.pos)]
    <3>1. /\ record' = [record EXCEPT ![u.video] = entry] /\ localCopy' = localCopy
          /\ historyWalk' = [historyWalk EXCEPT !.touched =
                IF historyWalk.pc = "none" THEN {} ELSE historyWalk.touched \union {u.video}]
          /\ u.pc = "write"
      BY <2>10 DEF WriteRecord, watchClient
    <3>2. u.video \in WatchedVideos /\ DOMAIN record = WatchedVideos
      BY <3>1 DEF WatchInv, RecordsOK, UpsertRequests
    <3>3. entry.id # 0
      BY <2>0, <3>2, RecordedFinite DEF Recorded
    <3> HIDE DEF u, entry
    <3>4. ASSUME NEW v \in Recorded'  PROVE record'[v].id # 0
      BY <2>0, <3>1, <3>2, <3>3, <3>4 DEF Recorded
    <3>5. /\ historyWalk'.pc = historyWalk.pc /\ historyWalk'.listed = historyWalk.listed
          /\ historyWalk'.touched \subseteq WatchedVideos
      BY <2>0, <3>1, <3>2
    <3> QED BY <2>0, <3>1, <3>4, <3>5 DEF WatchTyped
  <2>11. CASE ListHistory
    <3> DEFINE rows == {v \in Recorded : InWalk(v)}
               v == CHOOSE w \in rows : \A u \in rows \ {w} : Newer(w, u)
    <3>1. UNCHANGED <<localCopy, record>> /\ rows \subseteq WatchedVideos
      BY <2>11 DEF ListHistory, watchClient, Recorded
    <3>2. \/ historyWalk' = [historyWalk EXCEPT !.pc = "end"]
          \/ /\ rows # {}
             /\ historyWalk' = [historyWalk EXCEPT !.pc = IF Cardinality(rows) > 1 THEN "open" ELSE "end",
                                  !.cursor = <<record[v].at, record[v].id>>,
                                  !.listed = historyWalk.listed \union {v}]
      BY <2>11 DEF ListHistory
    <3>3. rows # {} => v \in rows
      <4>1. rows \in SUBSET Recorded
        OBVIOUS
      <4> HIDE DEF rows
      <4>2. rows # {} => \E w \in rows : \A u \in rows \ {w} : Newer(w, u)
        BY <4>1, NewestComes
      <4> QED BY <4>2, Zenon
    <3> HIDE DEF v, rows
    <3>4. /\ historyWalk'.pc \in {"open", "end"} /\ historyWalk'.touched = historyWalk.touched
          /\ historyWalk'.listed \subseteq WatchedVideos
      <4>1. CASE historyWalk' = [historyWalk EXCEPT !.pc = "end"]
        BY <2>0, <4>1
      <4> DEFINE pc == IF Cardinality(rows) > 1 THEN "open" ELSE "end"
                 cursor == <<record[v].at, record[v].id>>
                 listed == historyWalk.listed \union {v}
      <4>2. pc \in {"open", "end"} /\ (rows # {} => listed \subseteq WatchedVideos)
        BY <2>0, <3>1, <3>3
      <4> HIDE DEF pc, cursor, listed
      <4>3. ASSUME rows # {}, historyWalk' = [historyWalk EXCEPT !.pc = pc, !.cursor = cursor, !.listed = listed]
            PROVE  /\ historyWalk'.pc \in {"open", "end"} /\ historyWalk'.touched = historyWalk.touched
                   /\ historyWalk'.listed \subseteq WatchedVideos
        BY <2>0, <4>2, <4>3
      <4> QED BY <2>0, <3>2, <4>1, <4>3 DEF pc, cursor, listed
    <3> QED BY <2>0, <3>1, <3>4 DEF WatchTyped, Recorded
  <2>12. CASE UNCHANGED watchVars
    BY <2>0, <2>1, <2>12 DEF watchVars
  <2> QED
    BY <2>3, <2>4, <2>5, <2>6, <2>7, <2>8, <2>9, <2>10, <2>11, <2>12 DEF WatchNext
<1>3. WatchInv /\ WatchTyped => WatchTypeOK
  <2> SUFFICES ASSUME WatchInv, WatchTyped  PROVE WatchTypeOK
    OBVIOUS
  <2>1. Cardinality(Recorded) <= Cardinality(WatchedVideos) /\ Cardinality(WatchedVideos) \in Nat
    <3>1. Recorded \subseteq WatchedVideos
      BY DEF Recorded
    <3> QED BY <3>1, SeenBeforeAssumption, FS_Subset, FS_CardinalityType
  <2>2. ASSUME NEW v \in WatchedVideos, record[v] # NoEntry
        PROVE  record[v] \in [id : 1..Cardinality(WatchedVideos), at : 1..LastMilli, kept : Entries]
    <3>1. v \in Recorded /\ record[v] \in Rows
      BY <2>2 DEF Recorded, WatchInv, RecordsOK
    <3>2. record[v].id \in Nat /\ record[v].id # 0 /\ record[v].id <= Cardinality(Recorded)
      BY <3>1 DEF WatchInv, IdsApart, WatchTyped, Rows
    <3>3. record[v].id \in 1..Cardinality(WatchedVideos)
      BY <2>1, <3>2, RecordedFinite
    <3> QED BY <3>1, <3>3 DEF Rows
  <2> QED BY <2>2 DEF WatchInv, RecordsOK, WatchTyped, WatchTypeOK, UpsertRequests
<1> QED BY <1>1, <1>2, <1>3, WatchHolds, PTL DEF WatchSafety
-----------------------------------------------------------------------------
\* The viewer's taste keeps its types.
LEMMA TasteTypes == TasteSafety => []TasteTypeOK
<1>1. TasteInv => TasteTypeOK
  BY DEF TasteInv
<1> QED BY <1>1, TasteStart, TasteStep, PTL DEF TasteSafety
=============================================================================
