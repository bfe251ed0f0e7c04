---------------------------- MODULE CounterProofs ----------------------------
(***************************************************************************)
(* Counters that are kept beside the rows they count: likes of a video,    *)
(* its comments, followers of an account, unread messages, for any number  *)
(* of accounts, requests, comments and events.  Each is changed in the     *)
(* transaction that changes the rows; what has to be shown is that a       *)
(* request that waited for a lock, or an event that comes again, changes   *)
(* both or neither.  The types of the parts come last.                     *)
(***************************************************************************)
EXTENDS LikeNotices, Comments, CommentLookup, SocialQueue, DirectMessages,
        FiniteSetTheorems, TLAPS

-----------------------------------------------------------------------------
\* A like that is about to commit is of an account that does not like the
\* video yet, an unlike of one that does; the row lock of the video lets one
\* of them through at a time.
Holding(r) == likeReq[r].pc \in {"liking", "unliking"}

HoldersJudgedRight ==
    \A r \in LikeRequests :
      /\ likeReq[r].pc = "liking" => likeReq[r].who \notin likes
      /\ likeReq[r].pc = "unliking" => likeReq[r].who \in likes

OneHolds == \A r, q \in LikeRequests : Holding(r) /\ Holding(q) => r = q

LikeInv ==
    /\ DOMAIN likeReq = LikeRequests /\ IsFiniteSet(likes)
    /\ HoldersJudgedRight /\ OneHolds /\ LikesCounted

\* What a step does to the requests and the relations decides about the
\* first four parts.
LEMMA LikeEnter ==
    ASSUME LikeInv, NEW r \in LikeRequests, NEW pc, NEW a, NEW view,
           Enter(r, pc, a, view), likes' = likes,
           pc \in {"liking", "unliking"} => Unlocked,
           pc = "liking" => a \notin likes, pc = "unliking" => a \in likes
    PROVE  HoldersJudgedRight' /\ OneHolds' /\ DOMAIN likeReq' = LikeRequests
BY DEF LikeInv, HoldersJudgedRight, OneHolds, Holding, Enter, Unlocked

\* A request that leaves takes its lock with it.
LEMMA LikeLeave ==
    ASSUME LikeInv, NEW r \in LikeRequests, Leave(r), Holding(r) \/ likes' = likes
    PROVE  HoldersJudgedRight' /\ OneHolds' /\ DOMAIN likeReq' = LikeRequests
<1>1. likeReq' = [likeReq EXCEPT ![r] = LikeIdle] /\ LikeIdle.pc = "idle"
  BY DEF Leave, LikeIdle
<1>2. \A q \in LikeRequests : Holding(q)' => q # r /\ Holding(q) /\ likeReq'[q] = likeReq[q]
  BY <1>1 DEF LikeInv, Holding
<1>3. (\A q \in LikeRequests : ~Holding(q)') \/ likes' = likes
  BY <1>2 DEF LikeInv, OneHolds
<1> QED
  BY <1>1, <1>2, <1>3 DEF LikeInv, HoldersJudgedRight, OneHolds, Holding

\* The counter of likes, and the popularity that is owed for them, follow the
\* relations through every race of likes and unlikes (like/service.go:99-134).
THEOREM LikesAreCounted == LikeSafety => []LikesCounted
<1>1. LikeInit => LikeInv
  BY FS_EmptySet DEF LikeInit, LikeIdle, LikeInv, HoldersJudgedRight, OneHolds, Holding, LikesCounted
<1>2. LikeInv /\ [LikeNext]_likeVars => LikeInv'
  <2> SUFFICES ASSUME LikeInv, [LikeNext]_likeVars PROVE LikeInv'
    OBVIOUS
  <2>1. ASSUME UNCHANGED <<likes, likesCount, owed>> PROVE IsFiniteSet(likes)' /\ LikesCounted'
    BY <2>1 DEF LikeInv, LikesCounted
  <2>2. ASSUME NEW r \in LikeRequests, NEW a \in Likers, JudgeLike(r, a) PROVE LikeInv'
    BY <2>1, <2>2, LikeEnter DEF JudgeLike, LikeInv
  <2>3. ASSUME NEW r \in LikeRequests, NEW a \in Likers, DeleteLike(r, a) PROVE LikeInv'
    BY <2>1, <2>3, LikeEnter DEF DeleteLike, LikeInv
  <2>4. ASSUME NEW r \in LikeRequests, InsertLike(r) PROVE LikeInv'
    BY <2>1, <2>4, LikeEnter, LikeLeave DEF InsertLike, LikeInv
  <2>5. ASSUME NEW r \in LikeRequests, CommitLike(r) PROVE LikeInv'
    <3>1. Leave(r) /\ Holding(r) /\ likeReq[r].who \notin likes
      BY <2>5 DEF CommitLike, Holding, LikeInv, HoldersJudgedRight
    <3>2. CASE UNCHANGED <<likes, likesCount, owed>>
      BY <2>1, <3>1, <3>2, LikeLeave DEF LikeInv
    <3>3. CASE /\ likes' = likes \union {likeReq[r].who}
               /\ likesCount' = likesCount + 1 /\ owed' = owed + 1
      <4>1. IsFiniteSet(likes)' /\ Cardinality(likes') = Cardinality(likes) + 1
        BY <3>1, <3>3, FS_AddElement DEF LikeInv
      <4> QED
        BY <3>1, <3>3, <4>1, LikeLeave DEF LikeInv, LikesCounted
    <3> QED
      BY <2>5, <3>2, <3>3 DEF CommitLike
  <2>6. ASSUME NEW r \in LikeRequests, CommitUnlike(r) PROVE LikeInv'
    <3>1. Leave(r) /\ Holding(r) /\ likeReq[r].who \in likes
      BY <2>6 DEF CommitUnlike, Holding, LikeInv, HoldersJudgedRight
    <3>2. /\ IsFiniteSet(likes)' /\ Cardinality(likes') = Cardinality(likes) - 1
          /\ Cardinality(likes) \in Nat /\ Cardinality(likes') \in Nat
      BY <2>6, <3>1, FS_RemoveElement, FS_CardinalityType DEF CommitUnlike, LikeInv
    <3>3. LikesCounted'
      BY <2>6, <3>2 DEF CommitUnlike, LikeInv, LikesCounted
    <3> QED
      BY <3>1, <3>2, <3>3, LikeLeave DEF LikeInv
  <2>7. ASSUME NEW r \in LikeRequests, LikeFails(r) PROVE LikeInv'
    BY <2>1, <2>7, LikeLeave DEF LikeFails, LikeInv
  <2>8. CASE ReadNotice \/ UNCHANGED likeVars
    BY <2>8 DEF ReadNotice, likeVars, LikeInv, HoldersJudgedRight, OneHolds, Holding, LikesCounted
  <2> QED
    BY <2>2, <2>3, <2>4, <2>5, <2>6, <2>7, <2>8 DEF LikeNext
<1>3. LikeInv => LikesCounted
  BY DEF LikeInv
<1> QED
  BY <1>1, <1>2, <1>3, PTL DEF LikeSafety
-----------------------------------------------------------------------------
\* An event that was never applied has no row: not one that it inserted, nor
\* one that was written without an event.
CommentInv ==
    /\ DOMAIN commentRow = CommentIds /\ DOMAIN bells = CommentIds
    /\ DOMAIN text = CommentIds
    /\ IsFiniteSet(There)
    /\ \A c \in CommentIds :
         <<c, 0>> \in commentQueue \union commentDead =>
           commentRow[c] # "none" /\ (<<c, 0>> \notin commentSeen => commentRow[c] = "sent")
    /\ CommentsCounted /\ BellsMatchComments

\* A new row adds one to the counter and its notices.
LEMMA InsertCounts ==
    ASSUME CommentInv, NEW c \in CommentIds \ There, NEW t,
           DOMAIN text' = CommentIds, \A d \in CommentIds \ {c} : text'[d] = text[d],
           text'[c] = t,
           commentRow' = [commentRow EXCEPT ![c] = "there"],
           bells' = [bells EXCEPT ![c] = Told(c, t)],
           commentCount' = commentCount + 1
    PROVE  IsFiniteSet(There') /\ CommentsCounted' /\ BellsMatchComments'
<1>1. There' = There \union {c}
  BY DEF There, CommentInv
<1>2. IsFiniteSet(There') /\ Cardinality(There') = Cardinality(There) + 1
  BY <1>1, FS_AddElement DEF CommentInv
<1>3. BellsMatchComments'
  BY <1>1 DEF CommentInv, BellsMatchComments, Told
<1> QED
  BY <1>2, <1>3 DEF CommentInv, CommentsCounted

\* A comment's event that comes for the first time finds no row and adds one.
LEMMA InsertKeeps ==
    ASSUME CommentInv, NEW e \in CommentEvents, e[2] = 0, HandleComment(e),
           e \notin commentSeen, Apply(e)
    PROVE  CommentInv'
<1> DEFINE c == e[1]
<1>1. e = <<c, 0>> /\ c \in CommentIds /\ commentRow[c] = "sent" /\ c \notin There
  BY DEF CommentEvents, CommentInv, HandleComment, Handle, There
<1>2. /\ commentRow' = [commentRow EXCEPT ![c] = "there"]
      /\ bells' = [bells EXCEPT ![c] = Told(c, text[c])]
      /\ commentCount' = commentCount + 1
      /\ commentSeen' = commentSeen \union {e} /\ text' = text
      /\ commentQueue' \subseteq commentQueue /\ commentDead' = commentDead
  BY DEF Apply, Insert, HandleComment
<1>3. IsFiniteSet(There') /\ CommentsCounted' /\ BellsMatchComments'
  BY <1>1, <1>2, InsertCounts DEF CommentInv
<1>4. \A d \in CommentIds :
        <<d, 0>> \in commentQueue' \union commentDead' =>
          commentRow'[d] # "none" /\ (<<d, 0>> \notin commentSeen' => commentRow'[d] = "sent")
  BY <1>1, <1>2 DEF CommentInv
<1> QED
  BY <1>2, <1>3, <1>4 DEF CommentInv

\* The rows that a deletion takes are there, so that the count is not clamped,
\* with an event or without one.
LEMMA RemoveKeeps ==
    ASSUME CommentInv, NEW c \in CommentIds, RemoveThread(c), UNCHANGED text,
           commentSeen \subseteq commentSeen', commentQueue' \subseteq commentQueue,
           commentDead' = commentDead
    PROVE  CommentInv'
<1> DEFINE rows == Thread(c) \intersect There
<1>1. /\ commentRow' = [d \in CommentIds |-> IF d \in rows THEN "gone" ELSE commentRow[d]]
      /\ bells' = [d \in CommentIds |-> IF d \in Thread(c) THEN {} ELSE bells[d]]
      /\ commentCount' = IF commentCount < Cardinality(rows) THEN 0
                            ELSE commentCount - Cardinality(rows)
      /\ text' = text
  BY DEF RemoveThread
<1>2. There' = There \ rows
  BY <1>1 DEF There, CommentInv
<1>3. /\ IsFiniteSet(There') /\ Cardinality(There') = Cardinality(There) - Cardinality(rows)
      /\ Cardinality(rows) <= Cardinality(There)
      /\ Cardinality(rows) \in Nat /\ Cardinality(There) \in Nat
  <2>1. IsFiniteSet(There) /\ rows \in SUBSET There /\ There \intersect rows = rows
    BY DEF CommentInv
  <2> HIDE DEF rows
  <2>2. /\ IsFiniteSet(There \ rows)
        /\ Cardinality(There \ rows) = Cardinality(There) - Cardinality(There \intersect rows)
    BY <2>1, FS_Difference
  <2>3. IsFiniteSet(rows) /\ Cardinality(rows) <= Cardinality(There)
    BY <2>1, FS_Subset
  <2>4. Cardinality(rows) \in Nat /\ Cardinality(There) \in Nat
    BY <2>1, <2>3, FS_CardinalityType
  <2> QED
    BY <2>1, <1>2, <2>2, <2>3, <2>4
<1>4. CommentsCounted'
  BY <1>1, <1>3 DEF CommentInv, CommentsCounted
<1>5. BellsMatchComments'
  BY <1>1, <1>2 DEF CommentInv, BellsMatchComments
<1>6. \A d \in CommentIds :
        <<d, 0>> \in commentQueue' \union commentDead' =>
          commentRow'[d] # "none" /\ (<<d, 0>> \notin commentSeen' => commentRow'[d] = "sent")
  <2> SUFFICES ASSUME NEW d \in CommentIds, <<d, 0>> \in commentQueue' \union commentDead'
               PROVE  /\ commentRow'[d] # "none"
                      /\ <<d, 0>> \notin commentSeen' => commentRow'[d] = "sent"
    OBVIOUS
  <2>1. /\ commentRow[d] # "none"
        /\ <<d, 0>> \notin commentSeen' => commentRow[d] = "sent"
    BY DEF CommentInv
  <2>2. commentRow'[d] = commentRow[d] \/ (commentRow[d] = "there" /\ commentRow'[d] = "gone")
    BY <1>1 DEF There
  <2> QED
    BY <2>1, <2>2
<1> QED
  BY <1>1, <1>3, <1>4, <1>5, <1>6 DEF CommentInv

\* The comment counter is the number of rows, and a notice is shown only with
\* its comment and never to its writer, in whatever order and however often
\* events are applied (worker/comment_worker.go:64-111, :157-182).
THEOREM CommentsAreCounted == CommentSafety => [](CommentsCounted /\ BellsMatchComments)
<1>1. CommentInit => CommentInv
  <2> SUFFICES ASSUME CommentInit PROVE CommentInv
    OBVIOUS
  <2>1. There = {}
    BY DEF CommentInit, There
  <2> QED
    BY <2>1, FS_EmptySet DEF CommentInit, CommentInv, CommentsCounted, BellsMatchComments
<1>2. CommentInv /\ [CommentNext]_commentVars => CommentInv'
  <2> SUFFICES ASSUME CommentInv, [CommentNext]_commentVars PROVE CommentInv'
    OBVIOUS
  <2>1. ASSUME UNCHANGED commentTables,
               \A c \in CommentIds : <<c, 0>> \in commentQueue' \union commentDead' =>
                                     <<c, 0>> \in commentQueue \union commentDead
        PROVE  CommentInv'
    BY <2>1 DEF commentTables, CommentInv, There, CommentsCounted, BellsMatchComments
  <2>2. ASSUME NEW c \in CommentIds, NEW u \in Talkers, NEW p \in CommentIds \union {NoComment},
               PublishComment(c, u, p)
        PROVE  CommentInv'
    <3>1. /\ commentRow' = [commentRow EXCEPT ![c] = "sent"] /\ commentRow[c] = "none"
          /\ DOMAIN text' = DOMAIN text /\ \A d \in CommentIds \ {c} : text'[d] = text[d]
          /\ UNCHANGED <<bells, commentCount, commentSeen, commentDead>>
          /\ commentQueue' = commentQueue \union {<<c, 0>>}
      BY <2>2 DEF PublishComment, CommentInv
    <3>2. There' = There /\ c \notin There
      BY <3>1 DEF There, CommentInv
    <3> QED
      BY <3>1, <3>2 DEF CommentInv, CommentsCounted, BellsMatchComments
  <2>3. ASSUME NEW c \in CommentIds, NEW n \in 1..MaxDeletes, DeleteComment(c, n)
        PROVE  CommentInv'
    <3>1. 0 \notin 1..MaxDeletes
      OBVIOUS
    <3> QED
      BY <2>1, <2>3, <3>1 DEF DeleteComment
  <2>4. ASSUME NEW e \in CommentEvents, HandleComment(e) PROVE CommentInv'
    <3>1. UNCHANGED commentTables \/ (e \notin commentSeen /\ Apply(e))
      BY <2>4 DEF HandleComment, Handle
    <3>2. CASE UNCHANGED commentTables
      BY <2>1, <2>4, <3>2 DEF HandleComment
    <3>3. CASE e \notin commentSeen /\ Apply(e) /\ e[2] = 0
      BY <2>4, <3>3, InsertKeeps
    <3>4. CASE e \notin commentSeen /\ Apply(e) /\ e[2] # 0
      BY <2>4, <3>4, RemoveKeeps DEF HandleComment, Apply, CommentEvents
    <3> QED
      BY <3>1, <3>2, <3>3, <3>4
  <2>5. ASSUME NEW e \in CommentEvents, DeadLetterComment(e) PROVE CommentInv'
    BY <2>1, <2>5 DEF DeadLetterComment
  <2>6. CASE UNCHANGED commentVars
    BY <2>1, <2>6 DEF commentVars, commentTables
  <2>7. ASSUME NEW c \in CommentIds, NEW u \in Talkers, NEW p \in CommentIds \union {NoComment},
               publishSync(c, u, p)
        PROVE  CommentInv'
    <3> DEFINE t == TextOf(u, p)
    <3> HIDE DEF t
    <3>1. /\ commentRow' = [commentRow EXCEPT ![c] = "there"] /\ commentRow[c] = "none"
          /\ text' = [text EXCEPT ![c] = t] /\ bells' = [bells EXCEPT ![c] = Told(c, t)]
          /\ commentCount' = commentCount + 1
          /\ UNCHANGED <<commentSeen, commentQueue, commentDead>>
      BY <2>7 DEF publishSync, t
    <3>2. c \notin There
      BY <3>1 DEF There
    <3>3. /\ DOMAIN text' = CommentIds /\ text'[c] = t
          /\ \A d \in CommentIds \ {c} : text'[d] = text[d]
      BY <3>1 DEF CommentInv
    <3>4. IsFiniteSet(There') /\ CommentsCounted' /\ BellsMatchComments'
      BY <3>1, <3>2, <3>3, InsertCounts
    <3> QED
      BY <3>1, <3>3, <3>4 DEF CommentInv
  <2>8. ASSUME NEW c \in CommentIds, deleteSync(c) PROVE CommentInv'
    BY <2>8, RemoveKeeps DEF deleteSync
  <2> QED
    BY <2>2, <2>3, <2>4, <2>5, <2>6, <2>7, <2>8 DEF CommentNext
<1>3. CommentInv => CommentsCounted /\ BellsMatchComments
  BY DEF CommentInv
<1> QED
  BY <1>1, <1>2, <1>3, PTL DEF CommentSafety

\* A notice is there exactly with its comment, and never for its own writer
\* (worker/comment_worker.go:84-111, :168-175).
THEOREM BellsAreRight == CommentSafety => []BellsMatchComments
BY CommentsAreCounted, PTL
-----------------------------------------------------------------------------
\* Relations and follower count change together; an event names a fan.
FollowInv ==
    /\ DOMAIN fanEvent = FanEvents /\ DOMAIN followBell = Fans
    /\ \A e \in FanEvents : fanEvent[e] # NoFanEvent => fanEvent[e].fan \in Fans
    /\ \A e \in fanQueue \union fanDead : e \in FanEvents /\ fanEvent[e] # NoFanEvent
    /\ relations \subseteq Fans /\ IsFiniteSet(relations) /\ FollowersCounted

\* A request leaves the rows alone, and its event names its fan.
LEMMA RequestKeeps ==
    ASSUME FollowInv, NEW f \in Fans, NEW kind \in {"followed", "unfollowed"}, Request(f, kind)
    PROVE  FollowInv'
<1>1. /\ FreshEvent \in FanEvents
      /\ fanEvent' = [fanEvent EXCEPT ![FreshEvent] = [fan |-> f, kind |-> kind]]
      /\ fanQueue' = fanQueue \union {FreshEvent}
      /\ UNCHANGED <<fanDead, relations, followerCount, followBell>>
  BY DEF Request, Unused, FreshEvent, socialTables
<1>2. [fan |-> f, kind |-> kind] # NoFanEvent
  BY FanEventAssumption
<1> HIDE DEF FreshEvent
<1> QED
  BY <1>1, <1>2 DEF FollowInv, FollowersCounted

\* The follower count is the number of relations and every follower was
\* announced, however events are repeated and reordered
\* (worker/social_worker.go:61-90, :108-133).
THEOREM FollowersAreCounted == SocialSafety => []FollowersCounted
<1>1. SocialInit => FollowInv
  BY FS_EmptySet DEF SocialInit, FollowInv, FollowersCounted
<1>2. FollowInv /\ [SocialNext]_socialVars => FollowInv'
  <2> SUFFICES ASSUME FollowInv, [SocialNext]_socialVars PROVE FollowInv'
    OBVIOUS
  <2>1. ASSUME NEW f \in Fans, Follow(f) \/ Unfollow(f) PROVE FollowInv'
    BY <2>1, RequestKeeps DEF Follow, Unfollow
  <2>2. ASSUME NEW e \in FanEvents, HandleFanEvent(e) PROVE FollowInv'
    <3>1. /\ UNCHANGED <<fanEvent, fanDead>> /\ fanQueue' \subseteq fanQueue
          /\ fanEvent[e].fan \in Fans
      BY <2>2 DEF HandleFanEvent, FollowInv
    <3>2. CASE UNCHANGED <<relations, followerCount, followBell>>
      BY <3>1, <3>2 DEF FollowInv, FollowersCounted
    <3>3. CASE ApplyFollowed(fanEvent[e].fan) /\ fanEvent[e].fan \notin relations
      <4>1. /\ IsFiniteSet(relations \union {fanEvent[e].fan})
            /\ Cardinality(relations \union {fanEvent[e].fan}) = Cardinality(relations) + 1
        BY <3>3, FS_AddElement DEF FollowInv
      <4> QED
        BY <3>1, <3>3, <4>1 DEF ApplyFollowed, FollowInv, FollowersCounted
    <3>4. CASE ApplyUnfollowed(fanEvent[e].fan) /\ fanEvent[e].fan \in relations
      <4>1. /\ IsFiniteSet(relations \ {fanEvent[e].fan})
            /\ Cardinality(relations \ {fanEvent[e].fan}) = Cardinality(relations) - 1
        BY <3>4, FS_RemoveElement DEF FollowInv
      <4>2. /\ Cardinality(relations) \in Nat
            /\ Cardinality(relations \ {fanEvent[e].fan}) \in Nat
        BY <4>1, FS_CardinalityType DEF FollowInv
      <4>3. /\ relations' = relations \ {fanEvent[e].fan} /\ followBell' = followBell
            /\ followerCount' = IF followerCount > 0 THEN followerCount - 1 ELSE 0
            /\ followerCount = Cardinality(relations)
        BY <3>4 DEF ApplyUnfollowed, FollowInv, FollowersCounted
      <4>4. followerCount' = Cardinality(relations')
        BY <4>1, <4>2, <4>3
      <4> QED
        BY <3>1, <4>1, <4>3, <4>4 DEF FollowInv, FollowersCounted
    <3> QED
      BY <2>2, <3>2, <3>3, <3>4 DEF HandleFanEvent, ApplyFollowed, ApplyUnfollowed
  <2>3. ASSUME NEW e \in FanEvents, NackFanEvent(e) \/ StoreDeadLetter(e) \/ AckDeadLetter(e)
        PROVE  FollowInv'
    BY <2>3 DEF NackFanEvent, StoreDeadLetter, AckDeadLetter, socialTables, FollowInv, FollowersCounted
  <2>4. ASSUME NEW f \in Fans, ReadBell(f) PROVE FollowInv'
    BY <2>4 DEF ReadBell, FollowInv, FollowersCounted
  <2>5. CASE UNCHANGED socialVars
    BY <2>5 DEF socialVars, FollowInv, FollowersCounted
  <2> QED
    BY <2>1, <2>2, <2>3, <2>4, <2>5 DEF SocialNext
<1>3. FollowInv => FollowersCounted
  BY DEF FollowInv
<1> QED
  BY <1>1, <1>2, <1>3, PTL DEF SocialSafety
-----------------------------------------------------------------------------
\* A request that holds the conversation knows its row and how much its
\* sender has sent; only one holds it.
Holds(r) == dmReq[r].pc = "locked"
RowOrNew == IF conversation = NoConversation THEN NewConversation ELSE conversation

DmTyped ==
    /\ conversation \in Counts \union {NoConversation} /\ opened \in Counts
    /\ letters \in Seq([by : Sides, mutual : BOOLEAN])
    /\ dmReq \in [DmRequests ->
         [pc : {"idle", "judged", "locked"}, me : Sides, mutual : BOOLEAN, sent : Nat,
          row : Counts \union {NoConversation}]]

DmInv ==
    /\ DmTyped /\ QuotaKept /\ UnreadExact
    /\ conversation = NoConversation => letters = <<>> /\ opened = NewConversation
    /\ \A r \in DmRequests : Holds(r) => dmReq[r].sent = Sent(dmReq[r].me) /\ dmReq[r].row = RowOrNew
    /\ \A r, q \in DmRequests : Holds(r) /\ Holds(q) => r = q

\* What a side has sent is a number, and a new letter adds to its sender's.
LEMMA SentCounts ==
    ASSUME letters \in Seq([by : Sides, mutual : BOOLEAN]), NEW s
    PROVE  /\ Sent(s) \in Nat
           /\ \A x \in [by : Sides, mutual : BOOLEAN] : letters' = Append(letters, x) =>
                Sent(s)' = IF x.by = s THEN Sent(s) + 1 ELSE Sent(s)
<1> DEFINE n == Len(letters)
           S == {i \in 1..n : letters[i].by = s}
<1>0. n \in Nat /\ Sent(s) = Cardinality(S)
  BY DEF Sent
<1>1. IsFiniteSet(S) /\ Cardinality(S) \in Nat
  <2>1. IsFiniteSet(1..n)
    BY <1>0, FS_Interval
  <2> QED
    BY <2>1, FS_Subset, FS_CardinalityType
<1>2. ASSUME NEW x \in [by : Sides, mutual : BOOLEAN], letters' = Append(letters, x)
      PROVE  Sent(s)' = IF x.by = s THEN Sent(s) + 1 ELSE Sent(s)
  <2> DEFINE T == {i \in 1..Len(letters') : letters'[i].by = s}
  <2>1. Len(letters') = n + 1 /\ letters'[n + 1] = x /\ \A i \in 1..n : letters'[i] = letters[i]
    BY <1>2
  <2>2. 1..(n + 1) = (1..n) \union {n + 1} /\ n + 1 \notin 1..n
    BY <1>0
  <2>3. T = IF x.by = s THEN S \union {n + 1} ELSE S
    BY <2>1, <2>2
  <2>4. n + 1 \notin S /\ Sent(s)' = Cardinality(T)
    BY <2>2 DEF Sent
  <2> HIDE DEF S, T, n
  <2> QED
    BY <1>0, <1>1, <2>3, <2>4, FS_AddElement
<1> QED
  BY <1>0, <1>1, <1>2

\* A message is counted into the row that its sender locked and read.
LEMMA CommitKeeps ==
    ASSUME DmInv, NEW r \in DmRequests, CommitSend(r), letters' # letters
    PROVE  DmInv'
<1> DEFINE q == dmReq[r]
           x == [by |-> q.me, mutual |-> q.mutual]
<1>1. /\ q.me \in Sides /\ q.mutual \in BOOLEAN /\ q.sent \in Nat /\ Holds(r)
      /\ q.mutual \/ q.sent < StrangerQuota
      /\ letters' = Append(letters, x) /\ opened' = opened
      /\ conversation' = [q.row EXCEPT ![Peer(q.me)] = @ + 1]
      /\ dmReq' = [dmReq EXCEPT ![r] = DmIdle]
  BY StrangerQuotaAssumption DEF CommitSend, DmRest, DmInv, DmTyped, Holds
<1>2. x \in [by : Sides, mutual : BOOLEAN] /\ x.by = q.me /\ x.mutual = q.mutual
  BY <1>1
<1>3. q.sent = Sent(q.me) /\ q.row = RowOrNew
  BY <1>1 DEF DmInv
<1>4. RowOrNew \in Counts /\ opened \in Counts
  BY DEF RowOrNew, NewConversation, Counts, DmInv, DmTyped
<1>5. \A s \in Sides : Sent(s) \in Nat /\ Sent(s)' = IF q.me = s THEN Sent(s) + 1 ELSE Sent(s)
  BY <1>1, <1>2, SentCounts DEF DmInv, DmTyped
<1>6. \A s \in Sides : RowOrNew[s] = DmReceived(s) - opened[s]
  <2>1. CASE conversation = NoConversation
    <3>1. \A s : Sent(s) = 0
      <4>1. \A s : {i \in 1..Len(letters) : letters[i].by = s} = {}
        BY <2>1 DEF DmInv
      <4> QED
        BY <4>1, FS_EmptySet DEF Sent
    <3> QED
      BY <2>1, <3>1 DEF DmInv, RowOrNew, NewConversation, DmReceived
  <2>2. CASE conversation # NoConversation
    BY <2>2 DEF DmInv, RowOrNew, UnreadExact
  <2> QED
    BY <2>1, <2>2
<1>7. conversation' \in Counts /\ UnreadExact'
  <2>1. /\ conversation' \in Counts
        /\ \A s \in Sides : conversation'[s] = IF s = Peer(q.me) THEN RowOrNew[s] + 1 ELSE RowOrNew[s]
    <3>1. Peer(q.me) \in Sides
      BY <1>1 DEF Peer, Sides
    <3>2. conversation' = [RowOrNew EXCEPT ![Peer(q.me)] = RowOrNew[Peer(q.me)] + 1]
      BY <1>1, <1>3
    <3> HIDE DEF q
    <3> QED
      BY <1>4, <3>1, <3>2 DEF Counts
  <2>2. \A s \in Sides : Peer(s) \in Sides /\ (s = Peer(q.me) <=> Peer(s) = q.me)
    BY <1>1 DEF Peer, Sides
  <2>3. \A s \in Sides : DmReceived(s)' = IF s = Peer(q.me) THEN DmReceived(s) + 1 ELSE DmReceived(s)
    BY <1>5, <2>2 DEF DmReceived
  <2>4. \A s \in Sides : DmReceived(s) \in Nat /\ opened[s] \in Nat /\ RowOrNew[s] \in Nat
    BY <1>4, <1>5, <2>2 DEF DmReceived, Counts
  <2> QED
    BY <1>1, <1>6, <2>1, <2>3, <2>4 DEF UnreadExact
<1>8. QuotaKept'
  <2> DEFINE n == Len(letters)
  <2>1. /\ n \in Nat /\ Len(letters') = n + 1 /\ letters'[n + 1] = x
        /\ \A i \in 1..n : letters'[i] = letters[i]
    BY <1>1 DEF DmInv, DmTyped
  <2>2. ASSUME NEW i \in 1..n + 1, ~letters'[i].mutual
        PROVE  Cardinality({j \in 1..i - 1 : letters'[j].by = letters'[i].by}) < StrangerQuota
    <3>1. {j \in 1..i - 1 : letters'[j].by = letters'[i].by} = {j \in 1..i - 1 : letters[j].by = letters'[i].by}
      BY <2>1
    <3>2. CASE i \in 1..n
      BY <2>1, <2>2, <3>1, <3>2 DEF DmInv, QuotaKept
    <3>3. CASE i = n + 1
      <4>1. letters'[i].by = q.me /\ ~q.mutual
        BY <1>2, <2>1, <2>2, <3>3
      <4>2. i - 1 = n
        BY <2>1, <3>3
      <4> QED
        BY <1>1, <1>3, <3>1, <4>1, <4>2 DEF Sent
    <3>4. i \in 1..n \/ i = n + 1
      <4> HIDE DEF n
      <4> QED
        BY <2>1, <2>2
    <3> QED
      BY <3>2, <3>3, <3>4
  <2> QED
    BY <2>1, <2>2 DEF QuotaKept
<1>9. DmTyped' /\ conversation' # NoConversation /\ \A p \in DmRequests : ~Holds(p)'
  BY <1>1, <1>2, <1>7, NoConversationAssumption, SMTT(30) DEF DmInv, DmTyped, DmIdle, Sides, Counts, Holds
<1> QED
  BY <1>7, <1>8, <1>9 DEF DmInv

\* What a request that begins, fails or waits leaves as it is.
LEMMA DmQuiet ==
    ASSUME DmInv, UNCHANGED <<conversation, letters, opened>>
    PROVE  /\ QuotaKept' /\ UnreadExact' /\ RowOrNew' = RowOrNew
           /\ (conversation = NoConversation => letters = <<>> /\ opened = NewConversation)'
           /\ \A s : Sent(s)' = Sent(s)
<1>1. \A s : Sent(s)' = Sent(s)
  BY DEF Sent
<1>2. QuotaKept'
  BY DEF DmInv, QuotaKept
<1>3. UnreadExact'
  BY <1>1 DEF DmInv, UnreadExact, DmReceived
<1> QED
  BY <1>1, <1>2, <1>3 DEF DmInv, RowOrNew

\* DmInv is inductive.
LEMMA ConversationStaysRight == DmSafety => []DmInv
<1>1. DmInit => DmInv
  <2> SUFFICES ASSUME DmInit PROVE DmInv
    OBVIOUS
  <2>1. opened = NewConversation /\ opened \in Counts
    BY DEF DmInit, NewConversation, Counts
  <2>2. DmTyped
    BY <2>1 DEF DmInit, DmTyped, DmIdle, Sides, Counts
  <2> QED
    BY <2>1, <2>2 DEF DmInit, DmInv, DmIdle, Holds, QuotaKept, UnreadExact
<1>2. DmInv /\ [DmNext]_dmVars => DmInv'
  <2> SUFFICES ASSUME DmInv, [DmNext]_dmVars PROVE DmInv'
    OBVIOUS
  <2> USE DEF dmTables
  <2>1. ASSUME UNCHANGED dmTables, DmTyped',
               \A r \in DmRequests : Holds(r)' => dmReq'[r] = dmReq[r]
        PROVE  DmInv'
    <3>1. \A r \in DmRequests : Holds(r)' => Holds(r)
      BY <2>1 DEF Holds
    <3> QED
      BY <2>1, <3>1, DmQuiet DEF DmInv
  <2>2. ASSUME NEW r \in DmRequests, NEW me \in Sides, JudgeRelation(r, me) PROVE DmInv'
    <3>1. DmTyped' /\ \A p \in DmRequests : Holds(p)' => dmReq'[p] = dmReq[p]
      BY <2>2 DEF JudgeRelation, DmInv, DmTyped, DmIdle, Holds
    <3> QED
      BY <2>1, <2>2, <3>1 DEF JudgeRelation
  <2>3. ASSUME NEW r \in DmRequests, EnsureConversation(r) PROVE DmInv'
    <3>1. /\ UNCHANGED dmTables /\ \A p \in DmRequests : ~Holds(p)
          /\ dmReq' = [dmReq EXCEPT ![r] = [dmReq[r] EXCEPT !.pc = "locked",
                          !.sent = Sent(dmReq[r].me), !.row = RowOrNew]]
      BY <2>3 DEF EnsureConversation, ConversationFree, Holds, RowOrNew, DmInv, DmTyped
    <3>2. Sent(dmReq[r].me) \in Nat /\ RowOrNew \in Counts
      BY SentCounts DEF RowOrNew, NewConversation, Counts, DmInv, DmTyped
    <3>3. DmTyped'
      <4> DEFINE g == [dmReq[r] EXCEPT !.pc = "locked", !.sent = Sent(dmReq[r].me), !.row = RowOrNew]
                 D == [pc : {"idle", "judged", "locked"}, me : Sides, mutual : BOOLEAN, sent : Nat,
                       row : Counts \union {NoConversation}]
      <4>1. dmReq \in [DmRequests -> D]
        BY DEF DmInv, DmTyped
      <4>2. g \in D
        BY <3>2, <4>1
      <4>3. dmReq' \in [DmRequests -> D]
        <5> HIDE DEF g, D
        <5>1. dmReq' = [dmReq EXCEPT ![r] = g]
          BY <3>1 DEF g
        <5> QED
          BY <4>1, <4>2, <5>1
      <4> QED
        BY <3>1, <4>3 DEF DmInv, DmTyped
    <3>4. /\ dmReq'[r].me = dmReq[r].me /\ dmReq'[r].sent = Sent(dmReq[r].me)
          /\ dmReq'[r].row = RowOrNew
      BY <3>1 DEF DmInv, DmTyped
    <3>5. \A p \in DmRequests : Holds(p)' => p = r
      BY <3>1 DEF DmInv, DmTyped, Holds
    <3> QED
      BY <3>1, <3>3, <3>4, <3>5, DmQuiet DEF DmInv
  <2>4. ASSUME NEW r \in DmRequests, CommitSend(r) PROVE DmInv'
    <3>1. CASE letters' # letters
      BY <2>4, <3>1, CommitKeeps
    <3>2. CASE letters' = letters
      <4>1. UNCHANGED dmTables
        <5>1. letters \in Seq([by : Sides, mutual : BOOLEAN])
          BY DEF DmInv, DmTyped
        <5>2. \A x : Append(letters, x) # letters
          BY <5>1
        <5> QED
          BY <2>4, <3>2, <5>2 DEF CommitSend
      <4>2. DmTyped' /\ \A p \in DmRequests : Holds(p)' => dmReq'[p] = dmReq[p]
        BY <2>4, <4>1 DEF CommitSend, DmRest, DmInv, DmTyped, DmIdle, Sides, Holds
      <4> QED
        BY <2>1, <4>1, <4>2
    <3> QED
      BY <3>1, <3>2
  <2>5. ASSUME NEW r \in DmRequests, DmFails(r) PROVE DmInv'
    <3>1. DmTyped' /\ \A p \in DmRequests : Holds(p)' => dmReq'[p] = dmReq[p]
      BY <2>5 DEF DmFails, DmRest, DmInv, DmTyped, DmIdle, Sides, Holds
    <3> QED
      BY <2>1, <2>5, <3>1 DEF DmFails
  <2>6. ASSUME NEW me \in Sides, MarkConversationRead(me) PROVE DmInv'
    <3>1. /\ UNCHANGED <<letters, dmReq>> /\ conversation # NoConversation
          /\ \A p \in DmRequests : ~Holds(p)
          /\ conversation' = [conversation EXCEPT ![me] = 0]
          /\ opened' = [opened EXCEPT ![me] = DmReceived(me)]
      BY <2>6 DEF MarkConversationRead, ConversationFree, Holds
    <3>2. \A s : Sent(s)' = Sent(s) /\ DmReceived(s)' = DmReceived(s) /\ DmReceived(s) \in Nat
      BY <3>1, SentCounts DEF Sent, DmReceived, DmInv, DmTyped
    <3>3. conversation \in Counts /\ conversation' \in Counts /\ opened' \in Counts
      BY <3>1, <3>2 DEF DmInv, DmTyped, Counts
    <3>4. UnreadExact'
      BY <3>1, <3>2, <3>3 DEF DmInv, DmTyped, UnreadExact, Counts
    <3>5. DmTyped' /\ QuotaKept' /\ \A p \in DmRequests : ~Holds(p)'
      BY <3>1, <3>3 DEF DmInv, DmTyped, QuotaKept, Holds
    <3> QED
      BY <3>1, <3>3, <3>4, <3>5, NoConversationAssumption DEF DmInv
  <2>7. CASE (\E me \in Sides : ChangeRelation(me)) \/ UNCHANGED dmVars
    BY <2>1, <2>7 DEF ChangeRelation, dmVars, DmInv, DmTyped
  <2> QED
    BY <2>2, <2>3, <2>4, <2>5, <2>6, <2>7 DEF DmNext
<1> QED
  BY <1>1, <1>2, PTL DEF DmSafety

\* No message of a stranger passes the quota, and the unread count of a side
\* is what came since it last looked (dm/service.go:182-257, dm/repo.go:95-144).
THEOREM MessagesAreCounted == DmSafety => [](QuotaKept /\ UnreadExact)
<1>1. DmInv => QuotaKept /\ UnreadExact
  BY DEF DmInv
<1> QED
  BY <1>1, ConversationStaysRight, PTL

\* A Send that commits writes a message iff Thread, asked at that moment, would
\* have answered that one may be sent; and what it answers then is what Thread
\* will answer next, though Send computes both from the count it took when it
\* got the lock.
AnswersAgree(r, me) ==
    CommitSend(r) /\ dmReq[r].me = me =>
        /\ letters' # letters <=> quotaState(dmReq[r].mutual, Sent(me)).canSend
        /\ letters' # letters =>
             quotaState(dmReq[r].mutual, dmReq[r].sent + 1)
               = quotaState(dmReq[r].mutual, Sent(me)')

\* The quota that a client is told is the quota that Send applies
\* (dm/service.go:137-147, :220-253, quotaState :292-301).
THEOREM QuotaIsTold ==
    DmSafety => [][\A r \in DmRequests, me \in Sides : AnswersAgree(r, me)]_dmVars
<1>1. ASSUME DmInv, NEW r \in DmRequests, NEW me \in Sides
      PROVE  AnswersAgree(r, me)
  <2> SUFFICES ASSUME CommitSend(r), dmReq[r].me = me
               PROVE  /\ letters' # letters <=> quotaState(dmReq[r].mutual, Sent(me)).canSend
                      /\ letters' # letters =>
                           quotaState(dmReq[r].mutual, dmReq[r].sent + 1)
                             = quotaState(dmReq[r].mutual, Sent(me)')
    BY DEF AnswersAgree
  <2> DEFINE mutual == dmReq[r].mutual
             x == [by |-> me, mutual |-> mutual]
  <2>1. /\ letters \in Seq([by : Sides, mutual : BOOLEAN])
        /\ x \in [by : Sides, mutual : BOOLEAN] /\ mutual \in BOOLEAN
        /\ dmReq[r].sent = Sent(me)
    BY <1>1 DEF DmInv, DmTyped, CommitSend, Holds
  <2>2. Sent(me) \in Nat /\ (letters' = Append(letters, x) => Sent(me)' = Sent(me) + 1)
    BY <2>1, SentCounts
  <2>3. Append(letters, x) # letters
    BY <2>1
  <2>4. letters' = IF ~mutual /\ Sent(me) >= StrangerQuota THEN letters ELSE Append(letters, x)
    BY <2>1 DEF CommitSend
  <2> HIDE DEF x, mutual
  <2>5. quotaState(mutual, Sent(me)).canSend <=> ~(~mutual /\ Sent(me) >= StrangerQuota)
    <3> DEFINE left == IF Sent(me) < StrangerQuota THEN StrangerQuota - Sent(me) ELSE 0
    <3>1. quotaState(mutual, Sent(me)).canSend <=> mutual \/ left > 0
      BY DEF quotaState
    <3>2. left > 0 <=> ~(Sent(me) >= StrangerQuota)
      BY <2>2, StrangerQuotaAssumption
    <3> QED
      BY <3>1, <3>2, <2>1, Zenon
  <2> QED
    BY <2>1, <2>2, <2>3, <2>4, <2>5 DEF mutual
<1>2. DmInv => [\A r \in DmRequests, me \in Sides : AnswersAgree(r, me)]_dmVars
  BY <1>1
<1> QED
  BY <1>2, ConversationStaysRight, PTL

\* A stranger's messages never pass the quota, however many requests send at
\* once (dm/service.go:182-257).
THEOREM QuotaIsKept == DmSafety => []QuotaKept
BY MessagesAreCounted, PTL

\* The rows that ListMessages finds are consecutive: from which to which.
LEMMA PageIsInterval ==
    ASSUME NEW n \in Nat, NEW after \in 0..n, NEW before \in 0..n, NEW limit \in Nat \ {0},
           NEW first \in Int, NEW last \in Int,
           first = (IF after > 0 THEN after + 1
                      ELSE IF (IF before > 0 THEN before - 1 ELSE n) < limit + 1 THEN 1
                      ELSE (IF before > 0 THEN before - 1 ELSE n) - limit),
           last = (IF after = 0 THEN IF before > 0 THEN before - 1 ELSE n
                     ELSE IF n < after + limit + 1 THEN n ELSE after + limit + 1)
    PROVE  ListMessages(n, after, before, limit + 1) = first..last
<1> DEFINE end == IF before > 0 THEN before - 1 ELSE n
<1>1. CASE after > 0
  <2>1. ListMessages(n, after, before, limit + 1)
          = {i \in {j \in 1..n : after < j} : i <= after + limit + 1}
    BY <1>1 DEF ListMessages, Wanted
  <2>2. {i \in {j \in 1..n : after < j} : i <= after + limit + 1} = first..last
    BY <1>1
  <2> QED BY <2>1, <2>2
<1>2. CASE after = 0
  <2>1. ListMessages(n, after, before, limit + 1)
          = {i \in {j \in 1..n : before > 0 => j < before} : end - (limit + 1) < i}
    BY <1>2 DEF ListMessages, Wanted
  <2>2. {i \in {j \in 1..n : before > 0 => j < before} : end - (limit + 1) < i} = first..last
    BY <1>2
  <2> QED BY <2>1, <2>2
<1> QED BY <1>1, <1>2

\* A page of Thread holds no more than its limit, only what was asked for, and
\* of it what is nearest to the messages the client has; hasMore tells exactly
\* whether something was left out, so that a client that asks again from the
\* end of its page misses no message (dm/service.go:110-127).
THEOREM PagesAreExact ==
    \A n \in Nat, limit \in Nat \ {0} : \A after, before \in 0..n :
        LET page == ThreadPage(n, after, before, limit)
            asked == Wanted(n, after, before)
        IN /\ page.messages \subseteq asked /\ Cardinality(page.messages) <= limit
           /\ page.hasMore <=> page.messages # asked
           /\ \A i \in page.messages, j \in asked \ page.messages :
                IF after > 0 THEN i < j ELSE j < i
<1> SUFFICES ASSUME NEW n \in Nat, NEW limit \in Nat \ {0}, NEW after \in 0..n, NEW before \in 0..n
             PROVE  LET page == ThreadPage(n, after, before, limit)
                        asked == Wanted(n, after, before)
                    IN /\ page.messages \subseteq asked /\ Cardinality(page.messages) <= limit
                       /\ page.hasMore <=> page.messages # asked
                       /\ \A i \in page.messages, j \in asked \ page.messages :
                            IF after > 0 THEN i < j ELSE j < i
  OBVIOUS
<1> DEFINE end == IF before > 0 THEN before - 1 ELSE n
           first == IF after > 0 THEN after + 1 ELSE IF end < limit + 1 THEN 1 ELSE end - limit
           last == IF after = 0 THEN end ELSE IF n < after + limit + 1 THEN n ELSE after + limit + 1
           rows == ListMessages(n, after, before, limit + 1)
           page == ThreadPage(n, after, before, limit)
           asked == Wanted(n, after, before)
<1>1. first \in Int /\ last \in Int /\ rows = first..last
  BY PageIsInterval
<1>2. Cardinality(rows) = IF first > last THEN 0 ELSE last - first + 1
  BY <1>1, FS_Interval
<1>3. page.hasMore <=> last - first + 1 > limit
  <2>1. page.hasMore <=> Cardinality(rows) > limit
    BY DEF ThreadPage
  <2> HIDE DEF page, rows, first, last
  <2> QED BY <2>1, <1>1, <1>2
<1>4. page.messages = IF ~page.hasMore THEN first..last
                        ELSE IF after > 0 THEN first..last - 1 ELSE first + 1..last
  <2>1. page.messages = IF ~page.hasMore THEN rows
                       ELSE IF after > 0 THEN {i \in rows : \E j \in rows : i < j}
                                         ELSE {i \in rows : \E j \in rows : j < i}
    BY <1>2, <1>3 DEF ThreadPage
  <2> HIDE DEF page, rows, first, last
  <2>2. {i \in rows : \E j \in rows : i < j} = first..last - 1
    BY <1>1
  <2>3. {i \in rows : \E j \in rows : j < i} = first + 1..last
    BY <1>1
  <2> QED BY <1>1, <2>1, <2>2, <2>3
<1>5. asked = IF after > 0 THEN after + 1..n ELSE 1..end
  BY DEF Wanted
<1>6. page.messages \subseteq asked /\ (page.hasMore <=> page.messages # asked)
  <2>1. CASE after > 0 BY <2>1, <1>3, <1>4, <1>5
  <2>2. CASE after = 0 BY <2>2, <1>3, <1>4, <1>5
  <2> QED BY <2>1, <2>2
<1>7. \A i \in page.messages, j \in asked \ page.messages : IF after > 0 THEN i < j ELSE j < i
  <2>1. CASE after > 0 BY <2>1, <1>3, <1>4, <1>5
  <2>2. CASE after = 0 BY <2>2, <1>3, <1>4, <1>5
  <2> QED BY <2>1, <2>2
<1>8. Cardinality(page.messages) <= limit
  <2> DEFINE a == IF page.hasMore /\ after = 0 THEN first + 1 ELSE first
             b == IF page.hasMore /\ after > 0 THEN last - 1 ELSE last
  <2>1. page.messages = a..b /\ a \in Int /\ b \in Int /\ b - a + 1 <= limit
    <3> HIDE DEF page, first, last
    <3>1. page.hasMore \in BOOLEAN BY DEF page, ThreadPage
    <3>2. last - first + 1 <= limit + 1 BY DEF last, first
    <3> QED BY <1>1, <1>3, <1>4, <3>1, <3>2
  <2> HIDE DEF a, b, page
  <2>2. Cardinality(a..b) = IF a > b THEN 0 ELSE b - a + 1
    BY <2>1, FS_Interval
  <2> QED BY <2>1, <2>2
<1> QED BY <1>6, <1>7, <1>8
-----------------------------------------------------------------------------
\* The lookup of a comment by an id that a page may have rounded.  The window
\* holds exactly what is near enough.
LEMMA WindowIsNear ==
    ASSUME NEW id \in Ids, NEW row \in Ids
    PROVE  row \in LookupRange(id) <=> Distance(row, id) <= LookupWindow
BY LookupAssumption, SMT DEF Ids, LookupRange, Distance

\* What a request means is at most one row of the table, and no row, within
\* the window or beyond it, is nearer to the id that was sent; with an id that
\* JavaScript writes exactly it is the row of that id.
THEOREM LookupIsNearest ==
    ASSUME NEW rows \in SUBSET Ids, NEW id \in Ids, NEW found \in Resolved(rows, id)
    PROVE  /\ found \in rows
           /\ \A row \in rows : Distance(found, id) <= Distance(row, id)
           /\ \A other \in Resolved(rows, id) : other = found
           /\ id <= JsSafe => found = id
<1>1. CASE id \in rows
  <2>1. Resolved(rows, id) = {id}
    BY <1>1 DEF Resolved
  <2>2. \A row \in rows : Distance(id, id) <= Distance(row, id)
    BY LookupAssumption, SMT DEF Ids, Distance
  <2> QED BY <1>1, <2>1, <2>2
<1>2. CASE id \notin rows
  <2> DEFINE near == rows \intersect LookupRange(id)
  <2>1. id > JsSafe /\ Resolved(rows, id) = Nearest(near, id)
    <3>1. ~(id <= JsSafe)
      BY <1>2 DEF Resolved
    <3> QED BY <1>2, <3>1, LookupAssumption, SMT DEF Resolved, Ids
  <2>2. /\ found \in near
        /\ \A row \in near : \/ Distance(found, id) < Distance(row, id)
                             \/ Distance(found, id) = Distance(row, id) /\ found <= row
    BY <2>1 DEF Nearest
  <2>3. \A row \in rows : Distance(row, id) \in Nat
    BY LookupAssumption, SMT DEF Ids, Distance
  <2>4. \A row \in rows : row \notin near => Distance(row, id) > LookupWindow
    BY <2>3, WindowIsNear, LookupAssumption
  <2>5. Distance(found, id) <= LookupWindow
    BY <2>2, WindowIsNear
  <2>6. \A row \in rows : Distance(found, id) <= Distance(row, id)
    BY <2>2, <2>3, <2>4, <2>5, LookupAssumption
  <2>7. \A other \in Nearest(near, id) : other = found
    <3> SUFFICES ASSUME NEW other \in Nearest(near, id)  PROVE other = found
      OBVIOUS
    <3>1. other \in near /\ \A row \in near :
              \/ Distance(other, id) < Distance(row, id)
              \/ Distance(other, id) = Distance(row, id) /\ other <= row
      BY DEF Nearest
    <3>2. other <= found /\ found <= other
      BY <2>2, <2>3, <3>1
    <3> QED BY <2>2, <3>1, <3>2, LookupAssumption, SMT DEF Ids
  <2> QED BY <2>1, <2>2, <2>6, <2>7, LookupAssumption, SMT DEF Ids
<1> QED BY <1>1, <1>2

\* A page that rounded the id of a comment gets that comment, if the rounding
\* stayed within the window and every other row is more than twice as far
\* from the comment as the number that was sent.  (The nearest multiple of
\* 2048, the coarsest step of a double below 2^64, is 1024 away at most.)
THEOREM RoundedIdsComeBack ==
    ASSUME NEW rows \in SUBSET Ids, NEW row \in rows, NEW id \in Ids,
           Distance(id, row) <= LookupWindow, id > JsSafe \/ id = row,
           \A other \in rows \ {row} : Distance(other, row) > 2 * Distance(id, row)
    PROVE  Resolved(rows, id) = {row}
<1>1. CASE id = row
  BY <1>1 DEF Resolved
<1>2. CASE id # row
  <2> DEFINE near == rows \intersect LookupRange(id)
  <2>1. id > JsSafe /\ row \in Ids
    BY <1>2
  <2>2. id \notin rows
    <3> SUFFICES ASSUME id \in rows  PROVE FALSE
      OBVIOUS
    <3>1. Distance(id, row) > 2 * Distance(id, row)
      BY <1>2
    <3>2. Distance(id, row) \in Nat
      BY <2>1, LookupAssumption, SMT DEF Ids, Distance
    <3> QED BY <3>1, <3>2
  <2>3. Resolved(rows, id) = Nearest(near, id)
    BY <2>1, <2>2, LookupAssumption, SMT DEF Resolved, Ids
  <2>4. row \in near
    <3>1. Distance(row, id) = Distance(id, row)
      BY <2>1, LookupAssumption, SMT DEF Ids, Distance
    <3> QED BY <2>1, <3>1, WindowIsNear
  <2>5. \A other \in near \ {row} : Distance(row, id) < Distance(other, id)
    <3> SUFFICES ASSUME NEW other \in near \ {row}
                 PROVE Distance(row, id) < Distance(other, id)
      OBVIOUS
    <3>1. other \in Ids /\ Distance(other, row) > 2 * Distance(id, row)
      OBVIOUS
    <3> QED BY <2>1, <3>1, LookupAssumption, SMT DEF Ids, Distance
  <2>6. row \in Nearest(near, id)
    BY <2>1, <2>4, <2>5, LookupAssumption, SMT DEF Nearest, Ids
  <2>7. \A other \in Nearest(near, id) : other = row
    <3> SUFFICES ASSUME NEW other \in Nearest(near, id), other # row  PROVE FALSE
      OBVIOUS
    <3>1. other \in near \ {row} /\ Distance(other, id) <= Distance(row, id)
      <4>1. other \in near
        BY DEF Nearest
      <4>2. Distance(other, id) < Distance(row, id) \/ Distance(other, id) = Distance(row, id)
        BY <2>4 DEF Nearest
      <4>3. Distance(other, id) \in Int /\ Distance(row, id) \in Int
        BY <2>1, <4>1, LookupAssumption, SMT DEF Ids, Distance
      <4> QED BY <4>1, <4>2, <4>3
    <3>2. Distance(other, id) \in Int /\ Distance(row, id) \in Int
      BY <2>1, <3>1, LookupAssumption, SMT DEF Ids, Distance
    <3> QED BY <2>5, <3>1, <3>2
  <2> QED BY <2>3, <2>6, <2>7
<1> QED BY <1>1, <1>2
-----------------------------------------------------------------------------
(* The types of comments, of the follow events and of the messages.        *)

\* A comment that was sent has its words, and an event that creates one is of
\* a comment that was sent; the rows are finitely many.
CommentTyped ==
    /\ CommentTypeOK
    /\ \A c \in CommentIds : commentRow[c] # "none" => text[c] \in Texts
    /\ \A c \in CommentIds : <<c, 0>> \in commentQueue \union commentDead => commentRow[c] # "none"
    /\ IsFiniteSet(There)

\* The words of a reply name the root it hangs under and whom it answers.
LEMMA TextsOfReplies ==
    ASSUME CommentTyped, NEW u \in Talkers, NEW p \in WasThere \union {NoComment}
    PROVE  TextOf(u, p) \in Texts
<1>1. CASE p = NoComment
  BY <1>1 DEF TextOf, Texts
<1>2. CASE p # NoComment
  <2>1. p \in CommentIds /\ text[p] \in Texts
    BY <1>2 DEF CommentTyped, WasThere
  <2> QED BY <1>2, <2>1 DEF TextOf, RootOf, Texts
<1> QED BY <1>1, <1>2

\* A row that is inserted.
LEMMA InsertTypes ==
    ASSUME CommentTyped, NEW c \in CommentIds, NEW t \in Texts,
           text' \in [CommentIds -> Texts \union {NoComment}], text'[c] = t,
           \A d \in CommentIds \ {c} : text'[d] = text[d],
           commentRow' = [commentRow EXCEPT ![c] = "there"],
           bells' = [bells EXCEPT ![c] = Told(c, t)], commentCount' = commentCount + 1,
           commentQueue' \subseteq commentQueue, commentDead' = commentDead,
           commentSeen' \in SUBSET CommentEvents
    PROVE  CommentTyped'
<1>1. Told(c, t) \in SUBSET Talkers
  BY CommentAssumption, MentionAssumption DEF Told, Texts
<1>2. CommentTypeOK'
  BY <1>1 DEF CommentTyped, CommentTypeOK
<1>3. \A d \in CommentIds : commentRow'[d] = IF d = c THEN "there" ELSE commentRow[d]
  BY DEF CommentTyped, CommentTypeOK
<1>4. IsFiniteSet(There')
  <2>1. There' = There \union {c}
    BY <1>3 DEF There
  <2> QED BY <2>1, FS_AddElement DEF CommentTyped
<1> QED BY <1>2, <1>3, <1>4 DEF CommentTyped, There

\* A thread that is removed.
LEMMA RemoveTypes ==
    ASSUME CommentTyped, NEW c \in CommentIds, RemoveThread(c), text' = text,
           commentQueue' \subseteq commentQueue, commentDead' = commentDead,
           commentSeen' \in SUBSET CommentEvents
    PROVE  CommentTyped'
<1> DEFINE rows == Thread(c) \intersect There
<1>1. rows \subseteq There /\ Cardinality(rows) \in Nat
  BY FS_Subset, FS_CardinalityType DEF CommentTyped
<1>2. /\ commentRow' = [d \in CommentIds |-> IF d \in rows THEN "gone" ELSE commentRow[d]]
      /\ bells' = [d \in CommentIds |-> IF d \in Thread(c) THEN {} ELSE bells[d]]
      /\ commentCount' = IF commentCount < Cardinality(rows) THEN 0 ELSE commentCount - Cardinality(rows)
  BY DEF RemoveThread
<1>3. \A d \in rows : d \in CommentIds /\ commentRow[d] = "there"
  BY <1>1 DEF There
<1> HIDE DEF rows
<1>4. CommentTypeOK'
  BY <1>1, <1>2 DEF CommentTyped, CommentTypeOK
<1>5. \A d \in CommentIds : /\ commentRow'[d] # "none" <=> commentRow[d] # "none"
                            /\ commentRow'[d] = "there" => commentRow[d] = "there"
  BY <1>2, <1>3
<1>6. There' \subseteq There
  BY <1>5 DEF There
<1>7. IsFiniteSet(There')
  BY <1>6, FS_Subset DEF CommentTyped
<1> QED BY <1>4, <1>5, <1>7 DEF CommentTyped, There

\* Rows, words, counter, notices and events of comments keep their types: in
\* particular no event is handled whose comment has no words
\* (worker/comment_worker.go).
LEMMA CommentTypes == CommentSafety => []CommentTypeOK
<1>1. CommentInit => CommentTyped
  <2> SUFFICES ASSUME CommentInit  PROVE CommentTyped
    OBVIOUS
  <2>1. There = {}
    BY DEF CommentInit, There
  <2> QED BY <2>1, FS_EmptySet DEF CommentInit, CommentTyped, CommentTypeOK
<1>2. CommentTyped /\ [CommentNext]_commentVars => CommentTyped'
  <2> SUFFICES ASSUME CommentTyped, [CommentNext]_commentVars  PROVE CommentTyped'
    OBVIOUS
  <2>1. ASSUME NEW c \in CommentIds, NEW u \in Talkers, NEW p \in CommentIds \union {NoComment},
               PublishComment(c, u, p)
        PROVE  CommentTyped'
    <3>1. p \in WasThere \union {NoComment}
      BY <2>1 DEF PublishComment, WasThere, There
    <3>2. TextOf(u, p) \in Texts
      BY <3>1, TextsOfReplies
    <3>3. There' = There
      BY <2>1 DEF PublishComment, There, CommentTyped, CommentTypeOK
    <3>4. <<c, 0>> \in CommentEvents
      BY MaxDeletesAssumption DEF CommentEvents
    <3> QED BY <2>1, <3>2, <3>3, <3>4 DEF PublishComment, CommentTyped, CommentTypeOK, There
  <2>2. ASSUME NEW c \in CommentIds, NEW u \in Talkers, NEW p \in CommentIds \union {NoComment},
               publishSync(c, u, p)
        PROVE  CommentTyped'
    <3>1. TextOf(u, p) \in Texts
      BY <2>2, TextsOfReplies DEF publishSync
    <3>2. text \in [CommentIds -> Texts \union {NoComment}] /\ text' = [text EXCEPT ![c] = TextOf(u, p)]
      BY <2>2 DEF publishSync, CommentTyped, CommentTypeOK
    <3>3. /\ commentQueue' \subseteq commentQueue /\ commentDead' = commentDead
          /\ commentSeen' \in SUBSET CommentEvents
          /\ commentRow' = [commentRow EXCEPT ![c] = "there"]
          /\ bells' = [bells EXCEPT ![c] = Told(c, TextOf(u, p))] /\ commentCount' = commentCount + 1
      BY <2>2 DEF publishSync, CommentTyped, CommentTypeOK
    <3>4. /\ text' \in [CommentIds -> Texts \union {NoComment}] /\ text'[c] = TextOf(u, p)
          /\ \A d \in CommentIds \ {c} : text'[d] = text[d]
      BY <3>1, <3>2
    <3> QED BY <3>1, <3>3, <3>4, InsertTypes
  <2>3. ASSUME NEW c \in CommentIds, NEW n \in 1..MaxDeletes, DeleteComment(c, n)  PROVE CommentTyped'
    <3>1. <<c, n>> \in CommentEvents /\ (\A d \in CommentIds : <<c, n>> # <<d, 0>>)
      <4>1. n \in 0..MaxDeletes /\ n # 0
        OBVIOUS
      <4>2. <<c, n>> \in CommentEvents
        BY <4>1, Zenon DEF CommentEvents
      <4>3. \A d \in CommentIds : <<c, n>> # <<d, 0>>
        BY <4>1
      <4> QED BY <4>2, <4>3
    <3>2. There' = There
      BY <2>3 DEF DeleteComment, There, commentTables
    <3> QED BY <2>3, <3>1, <3>2 DEF DeleteComment, CommentTyped, CommentTypeOK, commentTables
  <2>4. ASSUME NEW c \in CommentIds, deleteSync(c)  PROVE CommentTyped'
    <3>1. /\ RemoveThread(c) /\ text' = text /\ commentQueue' \subseteq commentQueue
          /\ commentDead' = commentDead /\ commentSeen' \in SUBSET CommentEvents
      BY <2>4 DEF deleteSync, CommentTyped, CommentTypeOK
    <3> QED BY <3>1, RemoveTypes
  <2>5. ASSUME NEW e \in CommentEvents, HandleComment(e)  PROVE CommentTyped'
    <3>1. e[1] \in CommentIds /\ (e[2] = 0 => e = <<e[1], 0>>)
      BY DEF CommentEvents
    <3>2. e \in commentQueue \union commentDead /\ commentQueue' \subseteq commentQueue /\ commentDead' = commentDead
      BY <2>5 DEF HandleComment, Handle
    <3>3. CASE e \in commentSeen
      <4>1. UNCHANGED commentTables
        BY <2>5, <3>3 DEF HandleComment, Handle
      <4> QED BY <3>2, <4>1 DEF CommentTyped, CommentTypeOK, commentTables, There
    <3>4. CASE e \notin commentSeen
      <4>1. /\ commentSeen' = commentSeen \union {e} /\ text' = text
            /\ IF e[2] = 0 THEN Insert(e[1]) ELSE RemoveThread(e[1])
        BY <2>5, <3>4 DEF HandleComment, Handle, Apply
      <4>2. commentSeen' \in SUBSET CommentEvents /\ text' \in [CommentIds -> Texts \union {NoComment}]
        BY <4>1 DEF CommentTyped, CommentTypeOK
      <4>3. CASE e[2] = 0
        <5>1. text[e[1]] \in Texts /\ text'[e[1]] = text[e[1]]
          BY <3>1, <3>2, <4>1, <4>3 DEF CommentTyped
        <5>2. /\ commentRow' = [commentRow EXCEPT ![e[1]] = "there"]
              /\ bells' = [bells EXCEPT ![e[1]] = Told(e[1], text[e[1]])]
              /\ commentCount' = commentCount + 1
          BY <4>1, <4>3 DEF Insert
        <5> QED BY <3>1, <3>2, <4>1, <4>2, <5>1, <5>2, InsertTypes
      <4>4. CASE e[2] # 0
        BY <3>1, <3>2, <4>1, <4>2, <4>4, RemoveTypes
      <4> QED BY <4>3, <4>4
    <3> QED BY <3>3, <3>4
  <2>6. ASSUME NEW e \in CommentEvents, DeadLetterComment(e)  PROVE CommentTyped'
    BY <2>6 DEF DeadLetterComment, CommentTyped, CommentTypeOK, commentTables, There
  <2>7. CASE UNCHANGED commentVars
    BY <2>7 DEF commentVars, CommentTyped, CommentTypeOK, There
  <2> QED BY <2>1, <2>2, <2>3, <2>4, <2>5, <2>6, <2>7 DEF CommentNext
<1>3. CommentTyped => CommentTypeOK
  BY DEF CommentTyped
<1> QED BY <1>1, <1>2, <1>3, PTL DEF CommentSafety
-----------------------------------------------------------------------------
\* An event in a queue is one that was sent.
SocialTyped ==
    /\ SocialTypeOK
    /\ \A e \in fanQueue \union fanDead : fanEvent[e] # NoFanEvent

\* Events, relations, the counter and the notices of followers keep their
\* types: nothing is handled that was not sent (worker/social_worker.go).
LEMMA SocialTypes == SocialSafety => []SocialTypeOK
<1>1. SocialInit => SocialTyped
  BY DEF SocialInit, SocialTyped, SocialTypeOK
<1>2. SocialTyped /\ [SocialNext]_socialVars => SocialTyped'
  <2> SUFFICES ASSUME SocialTyped, [SocialNext]_socialVars  PROVE SocialTyped'
    OBVIOUS
  <2>1. ASSUME NEW f \in Fans, NEW kind \in {"followed", "unfollowed"}, Request(f, kind)
        PROVE  SocialTyped'
    <3>1. FreshEvent \in FanEvents /\ fanEvent[FreshEvent] = NoFanEvent
      BY <2>1 DEF Request, FreshEvent, Unused
    <3> DEFINE e == FreshEvent
    <3>2. /\ fanEvent' = [fanEvent EXCEPT ![e] = [fan |-> f, kind |-> kind]]
          /\ fanQueue' = fanQueue \union {e} /\ UNCHANGED <<fanDead, fanStored, socialTables>>
      BY <2>1 DEF Request
    <3> HIDE DEF e
    <3> QED BY <3>1, <3>2, FanEventAssumption DEF e, SocialTyped, SocialTypeOK, socialTables
  <2>2. ASSUME NEW e \in FanEvents, HandleFanEvent(e)  PROVE SocialTyped'
    <3>1. fanEvent[e] \in [fan : Fans, kind : {"followed", "unfollowed"}]
      BY <2>2 DEF HandleFanEvent, SocialTyped, SocialTypeOK
    <3>2. ASSUME NEW f \in Fans, ApplyFollowed(f) \/ ApplyUnfollowed(f)
                               \/ UNCHANGED <<relations, followerCount, followBell>>
          PROVE  /\ relations' \in SUBSET Fans /\ followerCount' \in Nat
                 /\ followBell' \in [Fans -> {"none", "unread", "read"}]
      BY <3>2 DEF ApplyFollowed, ApplyUnfollowed, SocialTyped, SocialTypeOK
    <3>3. /\ relations' \in SUBSET Fans /\ followerCount' \in Nat
          /\ followBell' \in [Fans -> {"none", "unread", "read"}]
      BY <2>2, <3>1, <3>2 DEF HandleFanEvent
    <3> QED BY <2>2, <3>3 DEF HandleFanEvent, SocialTyped, SocialTypeOK
  <2>3. ASSUME NEW e \in FanEvents, NackFanEvent(e) \/ StoreDeadLetter(e) \/ AckDeadLetter(e)
        PROVE  SocialTyped'
    BY <2>3 DEF NackFanEvent, StoreDeadLetter, AckDeadLetter, SocialTyped, SocialTypeOK, socialTables
  <2>4. ASSUME NEW f \in Fans, ReadBell(f)  PROVE SocialTyped'
    BY <2>4 DEF ReadBell, SocialTyped, SocialTypeOK
  <2>5. CASE UNCHANGED socialVars
    BY <2>5 DEF socialVars, SocialTyped, SocialTypeOK
  <2> QED BY <2>1, <2>2, <2>3, <2>4, <2>5 DEF SocialNext, Follow, Unfollow
<1>3. SocialTyped => SocialTypeOK
  BY DEF SocialTyped
<1> QED BY <1>1, <1>2, <1>3, PTL DEF SocialSafety
-----------------------------------------------------------------------------
\* A request that holds the conversation has its row.
DmRowsTyped ==
    /\ DmTypeOK
    /\ \A r \in DmRequests : dmReq[r].pc = "locked" => dmReq[r].row \in Counts

\* Relations, counts, letters and requests of a conversation keep their types
\* (message/repo.go, message/service.go).
LEMMA DmTypes == DmSafety => []DmTypeOK
<1> DEFINE Req == [pc : {"idle", "judged", "locked"}, me : Sides, mutual : BOOLEAN, sent : Nat,
                   row : Counts \union {NoConversation}]
<1>0. DmIdle \in Req /\ NewConversation \in Counts
  BY DEF DmIdle, Sides, Counts, NewConversation
<1>1. DmInit => DmRowsTyped
  BY <1>0 DEF DmInit, DmRowsTyped, DmTypeOK, DmIdle, Counts
<1>2. DmRowsTyped /\ [DmNext]_dmVars => DmRowsTyped'
  <2> SUFFICES ASSUME DmRowsTyped, [DmNext]_dmVars  PROVE DmRowsTyped'
    OBVIOUS
  <2>0. /\ dmReq \in [DmRequests -> Req] /\ letters \in Seq([by : Sides, mutual : BOOLEAN])
        /\ conversation \in Counts \union {NoConversation}
    BY DEF DmRowsTyped, DmTypeOK
  <2>1. \A s \in Sides : Sent(s) \in Nat
    BY <2>0, SentCounts
  <2>2. ASSUME NEW r \in DmRequests, NEW me \in Sides, JudgeRelation(r, me)  PROVE DmRowsTyped'
    <3>1. \A b \in BOOLEAN : [DmIdle EXCEPT !.pc = "judged", !.me = me, !.mutual = b] \in Req
      BY <1>0
    <3>2. \A b \in BOOLEAN : [DmIdle EXCEPT !.pc = "judged", !.me = me, !.mutual = b].pc = "judged"
      BY DEF DmIdle
    <3>3. (ties = Sides) \in BOOLEAN
      OBVIOUS
    <3> DEFINE new == [DmIdle EXCEPT !.pc = "judged", !.me = me, !.mutual = (ties = Sides)]
    <3>4. new \in Req /\ new.pc = "judged" /\ dmReq' = [dmReq EXCEPT ![r] = new]
      BY <2>2, <3>1, <3>2, <3>3 DEF JudgeRelation
    <3> HIDE DEF new, Req
    <3>5. dmReq' \in [DmRequests -> Req] /\ \A q \in DmRequests \ {r} : dmReq'[q] = dmReq[q]
      BY <2>0, <3>4
    <3>6. dmReq'[r].pc = "judged"
      BY <2>0, <3>4
    <3> QED BY <2>2, <3>5, <3>6 DEF JudgeRelation, dmTables, DmRowsTyped, DmTypeOK, Req
  <2>3. ASSUME NEW r \in DmRequests, EnsureConversation(r)  PROVE DmRowsTyped'
    <3> DEFINE row0 == IF conversation = NoConversation THEN NewConversation ELSE conversation
               n == Sent(dmReq[r].me)
    <3>1. row0 \in Counts /\ n \in Nat
      BY <1>0, <2>0, <2>1
    <3>2. dmReq' = [dmReq EXCEPT ![r].pc = "locked", ![r].sent = n, ![r].row = row0]
      BY <2>3 DEF EnsureConversation
    <3> HIDE DEF row0, n
    <3> DEFINE new == [dmReq[r] EXCEPT !.pc = "locked", !.sent = n, !.row = row0]
    <3>3. dmReq[r] \in Req
      BY <2>0
    <3>4. new \in Req /\ new.row = row0
      BY <3>1, <3>3
    <3>5. dmReq' = [dmReq EXCEPT ![r] = new]
      BY <3>2
    <3> HIDE DEF new, Req
    <3>6. dmReq' \in [DmRequests -> Req] /\ dmReq'[r].row = row0
          /\ \A q \in DmRequests \ {r} : dmReq'[q] = dmReq[q]
      BY <2>0, <3>4, <3>5
    <3> QED BY <2>3, <3>1, <3>6 DEF EnsureConversation, dmTables, DmRowsTyped, DmTypeOK, Req
  <2>4. ASSUME NEW r \in DmRequests, dmReq' = [dmReq EXCEPT ![r] = DmIdle]
        PROVE  /\ dmReq' \in [DmRequests -> Req]
               /\ \A q \in DmRequests : dmReq'[q].pc = "locked" => dmReq'[q].row \in Counts
    <3>1. dmReq' \in [DmRequests -> Req]
      BY <1>0, <2>0, <2>4
    <3>2. DmIdle.pc # "locked"
      BY DEF DmIdle
    <3> QED BY <2>0, <2>4, <3>1, <3>2 DEF DmRowsTyped
  <2>5. ASSUME NEW r \in DmRequests, CommitSend(r)  PROVE DmRowsTyped'
    <3> DEFINE mine == dmReq[r].row
               to == Peer(dmReq[r].me)
               letter == [by |-> dmReq[r].me, mutual |-> dmReq[r].mutual]
    <3>1. mine \in Counts /\ to \in Sides
      BY <2>0, <2>5 DEF CommitSend, DmRowsTyped, Peer, Sides
    <3>2. letter \in [by : Sides, mutual : BOOLEAN]
      BY <2>0
    <3>3. \/ UNCHANGED <<conversation, letters>>
          \/ letters' = Append(letters, letter) /\ conversation' = [mine EXCEPT ![to] = @ + 1]
      BY <2>5, Zenon DEF CommitSend
    <3> HIDE DEF mine, to, letter, Req
    <3>4. \A c \in Counts, s \in Sides : [c EXCEPT ![s] = @ + 1] \in Counts
      BY DEF Counts
    <3>5. conversation' \in Counts \union {NoConversation}
      BY <2>0, <3>1, <3>3, <3>4
    <3>6. letters' \in Seq([by : Sides, mutual : BOOLEAN])
      <4> DEFINE X == [by : Sides, mutual : BOOLEAN]
      <4>1. letters \in Seq(X) /\ letter \in X
        BY <2>0, <3>2
      <4> HIDE DEF X
      <4>2. letters' \in Seq(X)
        BY <3>3, <4>1
      <4> QED BY <4>2 DEF X
    <3>7. DmRest(r) /\ UNCHANGED <<ties, opened>>
      BY <2>5 DEF CommitSend
    <3>8. /\ dmReq' \in [DmRequests -> Req]
          /\ \A q \in DmRequests : dmReq'[q].pc = "locked" => dmReq'[q].row \in Counts
      BY <2>4, <3>7 DEF DmRest
    <3> QED BY <3>5, <3>6, <3>7, <3>8 DEF DmRowsTyped, DmTypeOK, Req
  <2>6. ASSUME NEW r \in DmRequests, DmFails(r)  PROVE DmRowsTyped'
    BY <2>4, <2>6 DEF DmFails, DmRest, dmTables, DmRowsTyped, DmTypeOK
  <2>7. ASSUME NEW me \in Sides, MarkConversationRead(me)  PROVE DmRowsTyped'
    <3>1. DmReceived(me) \in Nat
      BY <2>1 DEF DmReceived, Peer, Sides
    <3> QED BY <2>7, <3>1 DEF MarkConversationRead, DmRowsTyped, DmTypeOK, Counts
  <2>8. ASSUME NEW me \in Sides, ChangeRelation(me)  PROVE DmRowsTyped'
    BY <2>8 DEF ChangeRelation, dmTables, DmRowsTyped, DmTypeOK
  <2>9. CASE UNCHANGED dmVars
    BY <2>9 DEF dmVars, DmRowsTyped, DmTypeOK
  <2> QED BY <2>2, <2>3, <2>5, <2>6, <2>7, <2>8, <2>9 DEF DmNext
<1>3. DmRowsTyped => DmTypeOK
  BY DEF DmRowsTyped
<1> QED BY <1>1, <1>2, <1>3, PTL DEF DmSafety
=============================================================================
