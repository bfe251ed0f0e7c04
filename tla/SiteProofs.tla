----------------------------- MODULE SiteProofs -----------------------------
(***************************************************************************)
(* The site as a whole: a behaviour of the site is one of every part, so   *)
(* what is proved of a part holds of the site.  The likes come     *)
(* first, whose inbox row needs what FeedProofs knows of lists.            *)
(***************************************************************************)
EXTENDS Site, CounterProofs, AccessProofs, FeedProofs

-----------------------------------------------------------------------------
(* The types of likes and of the inbox row.                                 *)

\* The actors of a notice, without one of them and with one in front.
LEMMA ActorsLeft ==
    ASSUME NEW s \in Seq(Likers), NEW a \in Likers
    PROVE  Without(s, a) \in Seq(Likers)
<1> DEFINE K == {i \in DOMAIN s : s[i] # a}
<1>1. Without(s, a) = EntriesAt(s, K)
  BY DEF Without
<1>2. K \in SUBSET (1..Len(s))
  OBVIOUS
<1> HIDE DEF K
<1> QED BY <1>1, <1>2, EntriesAreList

LEMMA ActorsGrow ==
    ASSUME NEW s \in Seq(Likers), NEW a \in Likers
    PROVE  Prepended(s, a) \in Seq(Likers)
<1> DEFINE w == Without(s, a)
           all == <<a>> \o w
           n == IF Len(all) < MaxStored THEN Len(all) ELSE MaxStored
<1>1. Prepended(s, a) = SubSeq(all, 1, n)
  BY DEF Prepended
<1>2. w \in Seq(Likers)
  BY ActorsLeft
<1> HIDE DEF w
<1>3. all \in Seq(Likers)
  BY <1>2
<1> HIDE DEF all
<1>4. n \in Nat /\ n <= Len(all)
  BY <1>3, MaxStoredAssumption
<1> HIDE DEF n
<1>5. SubSeq(all, 1, n) \in Seq(Likers)
  BY <1>3, <1>4
<1> QED BY <1>1, <1>5

\* ApplyLike and RetractLike make notices of notices.
LEMMA NoticesMade ==
    ASSUME NEW old \in Notices, NEW a \in Likers
    PROVE  WithLike(old, a) \in Notices /\ WithoutLike(old, a) \in Notices /\ NewNotice(a) \in Notices
<1>1. old.actors \in Seq(Likers) /\ old.n \in Nat /\ old.hidden \in BOOLEAN /\ old.read \in BOOLEAN
  BY DEF Notices
<1>2. WithLike(old, a) \in Notices
  <2> DEFINE p == Prepended(old.actors, a)
             n == IF a \in Elements(old.actors) THEN old.n ELSE old.n + 1
  <2>1. p \in Seq(Likers) /\ n \in Nat
    BY <1>1, ActorsGrow
  <2>2. WithLike(old, a) = [actors |-> p, n |-> n, hidden |-> FALSE, read |-> FALSE]
    BY DEF WithLike
  <2> HIDE DEF p, n
  <2> QED BY <2>1, <2>2 DEF Notices
<1>3. WithoutLike(old, a) \in Notices
  <2> DEFINE rest == Without(old.actors, a)
             n == IF old.n > 0 THEN old.n - 1 ELSE 0
  <2>1. rest \in Seq(Likers) /\ n \in Nat
    BY <1>1, ActorsLeft
  <2>2. \/ WithoutLike(old, a) = [old EXCEPT !.actors = <<>>, !.n = 0, !.hidden = TRUE]
        \/ WithoutLike(old, a) = [old EXCEPT !.actors = rest, !.n = n]
    BY DEF WithoutLike
  <2>3. <<>> \in Seq(Likers)
    OBVIOUS
  <2> HIDE DEF rest, n
  <2>4. [old EXCEPT !.actors = <<>>, !.n = 0, !.hidden = TRUE] \in Notices
    BY <2>3 DEF Notices
  <2>5. [old EXCEPT !.actors = rest, !.n = n] \in Notices
    BY <2>1 DEF Notices
  <2> QED BY <2>2, <2>4, <2>5
<1>4. NewNotice(a) \in Notices
  BY DEF NewNotice, Notices
<1> QED BY <1>2, <1>3, <1>4

LikeRows == Notices \union {NoNotice}
LikeRecords == [pc : {"idle", "judged", "liking", "unliking"}, who : Likers \union {NoLiker}, view : LikeRows]

\* The types, and that a request that runs is of an account.
LikeTyped ==
    /\ likes \in SUBSET Likers /\ notice \in LikeRows
    /\ likeReq \in [LikeRequests -> LikeRecords]
    /\ \A r \in LikeRequests : likeReq[r].pc # "idle" => likeReq[r].who \in Likers

\* A request enters a state or leaves.
LEMMA LikeRequestTyped ==
    ASSUME LikeTyped, likes' \in SUBSET Likers, notice' \in LikeRows, NEW r \in LikeRequests,
           NEW s \in LikeRecords, s.pc # "idle" => s.who \in Likers, likeReq' = [likeReq EXCEPT ![r] = s]
    PROVE  LikeTyped'
  BY DEF LikeTyped

LEMMA LikeEnterTyped ==
    ASSUME LikeTyped, likes' \in SUBSET Likers, notice' \in LikeRows, NEW r \in LikeRequests,
           NEW pc \in {"judged", "liking", "unliking"}, NEW a \in Likers, NEW view \in LikeRows,
           Enter(r, pc, a, view)
    PROVE  LikeTyped'
<1> DEFINE s == [pc |-> pc, who |-> a, view |-> view]
<1>1. s \in LikeRecords /\ s.who \in Likers
  BY DEF LikeRecords
<1>2. likeReq' = [likeReq EXCEPT ![r] = s]
  BY DEF Enter
<1> HIDE DEF s
<1> QED BY <1>1, <1>2, LikeRequestTyped

LEMMA LikeLeaveTyped ==
    ASSUME LikeTyped, likes' \in SUBSET Likers, notice' \in LikeRows, NEW r \in LikeRequests, Leave(r)
    PROVE  LikeTyped'
<1>1. LikeIdle \in LikeRecords /\ LikeIdle.pc = "idle"
  BY DEF LikeRecords, LikeIdle, LikeRows
<1> HIDE DEF LikeIdle
<1> QED BY <1>1, LikeRequestTyped DEF Leave

LEMMA LikeTypesKept == LikeTyped /\ [LikeNext]_likeVars => LikeTyped'
<1> SUFFICES ASSUME LikeTyped, [LikeNext]_likeVars  PROVE LikeTyped'
  OBVIOUS
<1>1. /\ likes \in SUBSET Likers /\ notice \in LikeRows /\ likeReq \in [LikeRequests -> LikeRecords]
  BY DEF LikeTyped
<1>2. ASSUME NEW r \in LikeRequests, likeReq[r].pc # "idle"
      PROVE  likeReq[r].who \in Likers /\ likeReq[r].view \in LikeRows
  BY <1>1, <1>2 DEF LikeTyped, LikeRecords
<1>3. ASSUME NEW r \in LikeRequests, NEW a \in Likers, JudgeLike(r, a)  PROVE LikeTyped'
  BY <1>1, <1>3, LikeEnterTyped DEF JudgeLike
<1>4. ASSUME NEW r \in LikeRequests, NEW a \in Likers, DeleteLike(r, a)  PROVE LikeTyped'
  BY <1>1, <1>4, LikeEnterTyped DEF DeleteLike
<1>5. ASSUME NEW r \in LikeRequests, InsertLike(r)  PROVE LikeTyped'
  <2>1. /\ likes' = likes /\ notice' = notice
        /\ Leave(r) \/ Enter(r, "liking", likeReq[r].who, likeReq[r].view)
    BY <1>5 DEF InsertLike
  <2>2. likeReq[r].who \in Likers /\ likeReq[r].view \in LikeRows
    BY <1>2, <1>5 DEF InsertLike
  <2> QED BY <1>1, <2>1, <2>2, LikeEnterTyped, LikeLeaveTyped
<1>6. ASSUME NEW r \in LikeRequests, CommitLike(r)  PROVE LikeTyped'
  <2> DEFINE a == likeReq[r].who
             view == likeReq[r].view
  <2>1. a \in Likers /\ view \in LikeRows
    BY <1>2, <1>6 DEF CommitLike
  <2>2. /\ Leave(r)
        /\ \/ likes' = likes /\ notice' = notice
           \/ /\ likes' = likes \union {a}
              /\ notice' = IF view = NoNotice THEN NewNotice(a) ELSE WithLike(view, a)
    BY <1>6 DEF CommitLike
  <2> HIDE DEF a, view
  <2>3. NewNotice(a) \in Notices
    BY <2>1 DEF NewNotice, Notices
  <2>4. view # NoNotice => WithLike(view, a) \in Notices
    BY <2>1, NoticesMade DEF LikeRows
  <2>5. likes' \in SUBSET Likers /\ notice' \in LikeRows
    BY <1>1, <2>1, <2>2, <2>3, <2>4 DEF LikeRows
  <2> QED BY <2>2, <2>5, LikeLeaveTyped
<1>7. ASSUME NEW r \in LikeRequests, CommitUnlike(r)  PROVE LikeTyped'
  <2> DEFINE a == likeReq[r].who
             view == likeReq[r].view
  <2>1. a \in Likers /\ view \in LikeRows
    BY <1>2, <1>7 DEF CommitUnlike
  <2>2. /\ Leave(r) /\ likes' = likes \ {a}
        /\ notice' = IF view = NoNotice THEN notice ELSE WithoutLike(view, a)
    BY <1>7 DEF CommitUnlike
  <2> HIDE DEF a, view
  <2>3. view # NoNotice => WithoutLike(view, a) \in Notices
    BY <2>1, NoticesMade DEF LikeRows
  <2>4. likes' \in SUBSET Likers /\ notice' \in LikeRows
    BY <1>1, <2>2, <2>3 DEF LikeRows
  <2> QED BY <2>2, <2>4, LikeLeaveTyped
<1>8. ASSUME NEW r \in LikeRequests, LikeFails(r)  PROVE LikeTyped'
  BY <1>1, <1>8, LikeLeaveTyped DEF LikeFails
<1>9. CASE ReadNotice
  <2>1. notice \in Notices /\ notice' = [notice EXCEPT !.read = TRUE]
    BY <1>1, <1>9 DEF ReadNotice, LikeRows
  <2>2. notice' \in LikeRows
    BY <2>1 DEF Notices, LikeRows
  <2> QED BY <1>9, <2>2 DEF ReadNotice, LikeTyped
<1>10. CASE UNCHANGED likeVars
  BY <1>10 DEF likeVars, LikeTyped
<1> QED BY <1>3, <1>4, <1>5, <1>6, <1>7, <1>8, <1>9, <1>10 DEF LikeNext

\* Likes keep their types.
LEMMA LikeTypes == LikeSafety => []LikeTypeOK
<1>1. LikeInit => LikeTyped /\ IsFiniteSet(likes)
  BY FS_EmptySet DEF LikeInit, LikeTyped, LikeIdle, LikeRecords, LikeRows
<1>2. IsFiniteSet(likes) /\ LikeTyped /\ [LikeNext]_likeVars => IsFiniteSet(likes)'
  <2> SUFFICES ASSUME IsFiniteSet(likes), [LikeNext]_likeVars  PROVE IsFiniteSet(likes')
    OBVIOUS
  <2>1. \/ likes' = likes
        \/ \E a : likes' = likes \union {a}
        \/ \E a : likes' = likes \ {a}
    BY DEF LikeNext, JudgeLike, DeleteLike, InsertLike, CommitLike, CommitUnlike, LikeFails, ReadNotice,
           likeVars
  <2> QED BY <2>1, FS_AddElement, FS_RemoveElement
<1>3. LikeTyped /\ IsFiniteSet(likes) /\ LikesCounted => LikeTypeOK
  BY FS_CardinalityType DEF LikeTyped, LikesCounted, LikeTypeOK, LikeRows, LikeRecords
<1> QED BY <1>1, <1>2, <1>3, LikeTypesKept, LikesAreCounted, PTL DEF LikeSafety
-----------------------------------------------------------------------------
\* Every part does in the site what it does alone: the steps of the others
\* leave its variables.
LEMMA SiteRunsEveryPart ==
    SiteSafety =>
      /\ FeedSafety
      /\ LikeSafety
      /\ CommentSafety
      /\ DmSafety
      /\ SocialSafety
      /\ MediaSafety
      /\ DetailSafety
      /\ LatestSafety
      /\ SessionSafety
      /\ SignUpSafety
      /\ PasskeySafety
      /\ TrafficSafety
      /\ HotSafety
      /\ RecSafety
      /\ TasteSafety
      /\ WatchSafety
      /\ PageSafety
<1>1. SiteSafety => FeedSafety
  <2>1. SiteInit => FeedInit
    BY DEF SiteInit
  <2>2. [SiteNext]_siteVars => [FeedNext]_feedVars
    BY DEF SiteNext, siteVars
  <2> QED BY <2>1, <2>2, PTL DEF SiteSafety, FeedSafety
<1>2. SiteSafety => LikeSafety
  <2>1. SiteInit => LikeInit
    BY DEF SiteInit
  <2>2. [SiteNext]_siteVars => [LikeNext]_likeVars
    BY DEF SiteNext, siteVars
  <2> QED BY <2>1, <2>2, PTL DEF SiteSafety, LikeSafety
<1>3. SiteSafety => CommentSafety
  <2>1. SiteInit => CommentInit
    BY DEF SiteInit
  <2>2. [SiteNext]_siteVars => [CommentNext]_commentVars
    BY DEF SiteNext, siteVars
  <2> QED BY <2>1, <2>2, PTL DEF SiteSafety, CommentSafety
<1>4. SiteSafety => DmSafety
  <2>1. SiteInit => DmInit
    BY DEF SiteInit
  <2>2. [SiteNext]_siteVars => [DmNext]_dmVars
    BY DEF SiteNext, siteVars
  <2> QED BY <2>1, <2>2, PTL DEF SiteSafety, DmSafety
<1>5. SiteSafety => SocialSafety
  <2>1. SiteInit => SocialInit
    BY DEF SiteInit
  <2>2. [SiteNext]_siteVars => [SocialNext]_socialVars
    BY DEF SiteNext, siteVars
  <2> QED BY <2>1, <2>2, PTL DEF SiteSafety, SocialSafety
<1>6. SiteSafety => MediaSafety
  <2>1. SiteInit => MediaInit
    BY DEF SiteInit
  <2>2. [SiteNext]_siteVars => [MediaNext]_mediaVars
    BY DEF SiteNext, siteVars
  <2> QED BY <2>1, <2>2, PTL DEF SiteSafety, MediaSafety
<1>7. SiteSafety => DetailSafety
  <2>1. SiteInit => DetailInit
    BY DEF SiteInit
  <2>2. [SiteNext]_siteVars => [DetailNext]_detailVars
    BY DEF SiteNext, siteVars
  <2> QED BY <2>1, <2>2, PTL DEF SiteSafety, DetailSafety
<1>8. SiteSafety => LatestSafety
  <2>1. SiteInit => LatestInit
    BY DEF SiteInit
  <2>2. [SiteNext]_siteVars => [LatestNext]_latestVars
    BY DEF SiteNext, siteVars
  <2> QED BY <2>1, <2>2, PTL DEF SiteSafety, LatestSafety
<1>9. SiteSafety => SessionSafety
  <2>1. SiteInit => SessionInit
    BY DEF SiteInit
  <2>2. [SiteNext]_siteVars => [SessionNext]_sessionVars
    BY DEF SiteNext, siteVars
  <2> QED BY <2>1, <2>2, PTL DEF SiteSafety, SessionSafety
<1>10. SiteSafety => SignUpSafety
  <2>1. SiteInit => SignUpInit
    BY DEF SiteInit
  <2>2. [SiteNext]_siteVars => [SignUpNext]_signUpVars
    BY DEF SiteNext, siteVars
  <2> QED BY <2>1, <2>2, PTL DEF SiteSafety, SignUpSafety
<1>11. SiteSafety => PasskeySafety
  <2>1. SiteInit => PasskeyInit
    BY DEF SiteInit
  <2>2. [SiteNext]_siteVars => [PasskeyNext]_passkeyVars
    BY DEF SiteNext, siteVars
  <2> QED BY <2>1, <2>2, PTL DEF SiteSafety, PasskeySafety
<1>12. SiteSafety => TrafficSafety
  <2>1. SiteInit => TrafficInit
    BY DEF SiteInit
  <2>2. [SiteNext]_siteVars => [TrafficNext]_trafficVars
    BY DEF SiteNext, siteVars
  <2> QED BY <2>1, <2>2, PTL DEF SiteSafety, TrafficSafety
<1>13. SiteSafety => HotSafety
  <2>1. SiteInit => HotInit
    BY DEF SiteInit
  <2>2. [SiteNext]_siteVars => [HotNext]_hotVars
    BY DEF SiteNext, siteVars
  <2> QED BY <2>1, <2>2, PTL DEF SiteSafety, HotSafety
<1>14. SiteSafety => RecSafety
  <2>1. SiteInit => RecInit
    BY DEF SiteInit
  <2>2. [SiteNext]_siteVars => [RecNext]_recVars
    BY DEF SiteNext, siteVars
  <2> QED BY <2>1, <2>2, PTL DEF SiteSafety, RecSafety
<1>15. SiteSafety => TasteSafety
  <2>1. SiteInit => TasteInit
    BY DEF SiteInit
  <2>2. [SiteNext]_siteVars => [TasteNext]_tasteVars
    BY DEF SiteNext, siteVars
  <2> QED BY <2>1, <2>2, PTL DEF SiteSafety, TasteSafety
<1>16. SiteSafety => WatchSafety
  <2>1. SiteInit => WatchInit
    BY DEF SiteInit
  <2>2. [SiteNext]_siteVars => [WatchNext]_watchVars
    BY DEF SiteNext, siteVars
  <2> QED BY <2>1, <2>2, PTL DEF SiteSafety, WatchSafety
<1>17. SiteSafety => PageSafety
  <2>1. SiteInit => PageInit
    BY DEF SiteInit
  <2>2. [SiteNext]_siteVars => [PageNext]_pageVars
    BY DEF SiteNext, siteVars
  <2> QED BY <2>1, <2>2, PTL DEF SiteSafety, PageSafety
<1> QED BY <1>1, <1>2, <1>3, <1>4, <1>5, <1>6, <1>7, <1>8, <1>9, <1>10, <1>11, <1>12, <1>13, <1>14, <1>15, <1>16, <1>17

\* Every variable of every part keeps its type, for any number of accounts,
\* videos, requests and workers: no handler acts on a row, a request or an event
\* that there is not.
THEOREM SiteTypesKept == SiteSafety => []SiteTypeOK
<1>1. SiteSafety => [](part \in Parts)
  <2>1. SiteInit => part \in Parts
    BY DEF SiteInit
  <2>2. part \in Parts /\ [SiteNext]_siteVars => (part \in Parts)'
    BY DEF SiteNext, siteVars
  <2> QED BY <2>1, <2>2, PTL DEF SiteSafety
<1>2. SiteSafety => []FeedTypeOK
  BY SiteRunsEveryPart, FollowTypeInvariant, PTL
<1>3. SiteSafety => []LikeTypeOK
  BY SiteRunsEveryPart, LikeTypes, PTL
<1>4. SiteSafety => []CommentTypeOK
  BY SiteRunsEveryPart, CommentTypes, PTL
<1>5. SiteSafety => []DmTypeOK
  BY SiteRunsEveryPart, DmTypes, PTL
<1>6. SiteSafety => []SocialTypeOK
  BY SiteRunsEveryPart, SocialTypes, PTL
<1>7. SiteSafety => []MediaTypeOK
  BY SiteRunsEveryPart, MediaTypes, PTL
<1>8. SiteSafety => []DetailTypeOK
  BY SiteRunsEveryPart, DetailTypes, PTL
<1>9. SiteSafety => []LatestTypeOK
  BY SiteRunsEveryPart, LatestTypes, PTL
<1>10. SiteSafety => []SessionTypeOK
  BY SiteRunsEveryPart, SessionTypes, PTL
<1>11. SiteSafety => []SignUpTypeOK
  BY SiteRunsEveryPart, SignUpTypes, PTL
<1>12. SiteSafety => []PasskeyTypeOK
  BY SiteRunsEveryPart, PasskeyTypes, PTL
<1>13. SiteSafety => []TrafficTypeOK
  BY SiteRunsEveryPart, TrafficTypes, PTL
<1>14. SiteSafety => []HotTypeOK
  BY SiteRunsEveryPart, HotTypes, PTL
<1>15. SiteSafety => []RecTypeOK
  BY SiteRunsEveryPart, RecTypes, PTL
<1>16. SiteSafety => []TasteTypeOK
  BY SiteRunsEveryPart, TasteTypes, PTL
<1>17. SiteSafety => []WatchTypeOK
  BY SiteRunsEveryPart, WatchTypes, PTL
<1>18. SiteSafety => []PageTypeOK
  BY SiteRunsEveryPart, PageTypesHold, PTL
<1>19. part \in Parts /\ FeedTypeOK /\ LikeTypeOK /\ CommentTypeOK /\ DmTypeOK
       /\ SocialTypeOK /\ MediaTypeOK /\ DetailTypeOK /\ LatestTypeOK
       /\ SessionTypeOK /\ SignUpTypeOK /\ PasskeyTypeOK /\ TrafficTypeOK
       /\ HotTypeOK /\ RecTypeOK /\ TasteTypeOK /\ WatchTypeOK
       /\ PageTypeOK
    => SiteTypeOK
  BY DEF SiteTypeOK
<1> QED
  BY <1>1, <1>2, <1>3, <1>4, <1>5, <1>6, <1>7, <1>8, <1>9, <1>10, <1>11, <1>12,
     <1>13, <1>14, <1>15, <1>16, <1>17, <1>18, <1>19, PTL

\* What the parts promise holds of the site as it runs: no followed video is
\* lost, every counter is that of its rows, published media keep their video
\* (and their cover, if one worker at a time was on them), what a cache shows or
\* a page leaves out has its reason, and what is done again is done once.
THEOREM SiteKeepsItsPromises ==
    SiteSafety =>
      [](/\ NothingLost /\ LikesCounted /\ CommentsCounted /\ BellsMatchComments
         /\ QuotaKept /\ UnreadExact /\ FollowersCounted /\ PublishedKeepsObjects
         /\ StaleHasReason /\ VersionMeansFresh /\ CacheFollowsRow /\ SignedUpOnce
         /\ PasskeysBounded /\ CounterExpires /\ RetryPublishesOnce /\ SnapshotsExpire
         /\ OneRanking /\ ShortMeansAll /\ TasteSettles /\ WalkMissesNone)
<1>1. SiteSafety => []NothingLost
  BY SiteRunsEveryPart, InboxLosesNothing, PTL
<1>2. SiteSafety => []LikesCounted
  BY SiteRunsEveryPart, LikesAreCounted, PTL
<1>3. SiteSafety => [](CommentsCounted /\ BellsMatchComments)
  BY SiteRunsEveryPart, CommentsAreCounted, PTL
<1>4. SiteSafety => [](QuotaKept /\ UnreadExact)
  BY SiteRunsEveryPart, MessagesAreCounted, PTL
<1>5. SiteSafety => []FollowersCounted
  BY SiteRunsEveryPart, FollowersAreCounted, PTL
<1>6. SiteSafety => []PublishedKeepsObjects
  BY SiteRunsEveryPart, ObjectsAreKept, PTL
<1>7. SiteSafety => []StaleHasReason
  BY SiteRunsEveryPart, StaleIsExplained, PTL
<1>8. SiteSafety => []VersionMeansFresh
  BY SiteRunsEveryPart, PagesAreFresh, PTL
<1>9. SiteSafety => []CacheFollowsRow
  BY SiteRunsEveryPart, CacheIsExplained, PTL
<1>10. SiteSafety => []SignedUpOnce
  BY SiteRunsEveryPart, AccountsAreMadeOnce, PTL
<1>11. SiteSafety => []PasskeysBounded
  BY SiteRunsEveryPart, PasskeysStayBounded, PTL
<1>12. SiteSafety => []CounterExpires
  BY SiteRunsEveryPart, CountersExpire, PTL
<1>13. SiteSafety => []RetryPublishesOnce
  BY SiteRunsEveryPart, RetriesPublishOnce, PTL
<1>14. SiteSafety => []SnapshotsExpire
  BY SiteRunsEveryPart, SnapshotsDoExpire, PTL
<1>15. SiteSafety => []OneRanking
  BY SiteRunsEveryPart, WalksKeepOneRanking, PTL
<1>16. SiteSafety => []ShortMeansAll
  BY SiteRunsEveryPart, ShortPagesHaveAll, PTL
<1>17. SiteSafety => []TasteSettles
  BY SiteRunsEveryPart, TasteIsSettled, PTL
<1>18. SiteSafety => []WalkMissesNone
  BY SiteRunsEveryPart, HistoryIsComplete, PTL
<1> QED
  BY <1>1, <1>2, <1>3, <1>4, <1>5, <1>6, <1>7, <1>8, <1>9, <1>10, <1>11, <1>12,
     <1>13, <1>14, <1>15, <1>16, <1>17, <1>18, PTL
=============================================================================
