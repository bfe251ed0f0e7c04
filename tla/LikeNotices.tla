---------------------------- MODULE LikeNotices ----------------------------
(***************************************************************************)
(* Likes of one video and the one inbox row its author gets for them       *)
(* (like/service.go, notification/writer.go, notification/repo.go).        *)
(*                                                                         *)
(* A like and an unlike are one MySQL transaction each: the relation, the  *)
(* counter of the video, the notice, the outbox row.  Under REPEATABLE     *)
(* READ the first plain read of a transaction fixes its snapshot: Like     *)
(* reads before it waits for the row lock of the video, Unlike only after  *)
(* it holds that lock.  Writer.Save then writes the whole notice back, as  *)
(* it was in the snapshot.                                                 *)
(***************************************************************************)
EXTENDS Integers, Sequences, FiniteSets, Lists

CONSTANTS
    Likers,         \* accounts other than the author
    LikeRequests,   \* requests served at the same time
    MaxStored,      \* maxStoredActors
    MaxCounted,     \* bound: likes of a notice that counts this many
    NoNotice,       \* no row
    NoLiker         \* a request that is not running

ASSUME MaxStoredAssumption == MaxStored \in Nat /\ MaxStored >= 2

VARIABLES
    likes,          \* video_likes of the video
    likesCount,     \* videos.likes_count
    owed,           \* history: deltas in outbox rows, in units of LikeWeight
    notice,         \* the row (author, "like:v:<id>")
    likeReq         \* what every request does, and the notice of its snapshot

likeVars == <<likes, likesCount, owed, notice, likeReq>>

Notices == [actors : Seq(Likers), n : Nat, hidden : BOOLEAN, read : BOOLEAN]
LikeIdle == [pc |-> "idle", who |-> NoLiker, view |-> NoNotice]

LikeTypeOK ==
    /\ likes \in SUBSET Likers
    /\ likesCount \in Nat /\ owed \in Int
    /\ notice \in Notices \union {NoNotice}
    /\ likeReq \in [LikeRequests ->
         [pc : {"idle", "judged", "liking", "unliking"}, who : Likers \union {NoLiker},
          view : Notices \union {NoNotice}]]

LikeInit ==
    /\ likes = {} /\ likesCount = 0 /\ owed = 0
    /\ notice = NoNotice
    /\ likeReq = [r \in LikeRequests |-> LikeIdle]
-----------------------------------------------------------------------------
Elements(s) == {s[i] : i \in 1..Len(s)}
Without(s, a) == EntriesAt(s, {i \in DOMAIN s : s[i] # a})

\* prependUnique: the newest first, cut at MaxStored.
Prepended(s, a) ==
    LET all == <<a>> \o Without(s, a)
    IN SubSeq(all, 1, IF Len(all) < MaxStored THEN Len(all) ELSE MaxStored)

\* ApplyLike on a row that exists.
WithLike(row, a) ==
    [actors |-> Prepended(row.actors, a),
     n |-> IF a \in Elements(row.actors) THEN row.n ELSE row.n + 1,
     hidden |-> FALSE, read |-> FALSE]

\* RetractLike: the stored actors stand for the whole audience.
WithoutLike(row, a) ==
    LET rest == Without(row.actors, a)
        n == IF row.n > 0 THEN row.n - 1 ELSE 0
    IN IF n = 0 \/ rest = <<>>
         THEN [row EXCEPT !.actors = <<>>, !.n = 0, !.hidden = TRUE]
         ELSE [row EXCEPT !.actors = rest, !.n = n]

\* The row lock that AdjustCounters takes on the video.
Unlocked == \A r \in LikeRequests : likeReq[r].pc \notin {"liking", "unliking"}
Enter(r, pc, a, view) == likeReq' = [likeReq EXCEPT ![r] = [pc |-> pc, who |-> a, view |-> view]]
Leave(r) == likeReq' = [likeReq EXCEPT ![r] = LikeIdle]

\* Like: not liked so far, as far as the snapshot says.
JudgeLike(r, a) ==
    /\ likeReq[r].pc = "idle" /\ a \notin likes
    /\ notice # NoNotice => notice.n < MaxCounted
    /\ Enter(r, "judged", a, notice)
    /\ UNCHANGED <<likes, likesCount, owed, notice>>

\* The insert that takes a second row of a pair for its own.
InsertLikeAgain(r) ==
    /\ likeReq[r].pc = "judged" /\ Unlocked
    /\ Enter(r, "liking", likeReq[r].who, likeReq[r].view)
    /\ UNCHANGED <<likes, likesCount, owed, notice>>

\* Insert and AdjustCounters: the unique key sends the second of two equal
\* likes back, the lock holds every other one off.
InsertLike(r) ==
    /\ likeReq[r].pc = "judged" /\ Unlocked
    /\ IF likeReq[r].who \in likes
         THEN Leave(r)
         ELSE Enter(r, "liking", likeReq[r].who, likeReq[r].view)
    /\ UNCHANGED <<likes, likesCount, owed, notice>>

NewNotice(a) == [actors |-> <<a>>, n |-> 1, hidden |-> FALSE, read |-> FALSE]

\* ApplyLike and commit.  A row the snapshot does not show makes Create fail
\* on its unique key three times over, and the like fails with it.
CommitLike(r) ==
    LET a == likeReq[r].who  view == likeReq[r].view IN
    /\ likeReq[r].pc = "liking"
    /\ Leave(r)
    /\ IF view = NoNotice /\ notice # NoNotice
         THEN UNCHANGED <<likes, likesCount, owed, notice>>
         ELSE /\ likes' = likes \union {a}
              /\ likesCount' = likesCount + 1 /\ owed' = owed + 1
              /\ notice' = IF view = NoNotice THEN NewNotice(a) ELSE WithLike(view, a)

\* Unlike: the delete, AdjustCounters and, under the lock, FindByDedup.
DeleteLike(r, a) ==
    /\ likeReq[r].pc = "idle" /\ a \in likes /\ Unlocked
    /\ Enter(r, "unliking", a, notice)
    /\ UNCHANGED <<likes, likesCount, owed, notice>>

\* RetractLike and commit.
CommitUnlike(r) ==
    LET a == likeReq[r].who  view == likeReq[r].view IN
    /\ likeReq[r].pc = "unliking"
    /\ Leave(r)
    /\ likes' = likes \ {a}
    /\ likesCount' = IF likesCount < 1 THEN 0 ELSE likesCount - 1
    /\ owed' = owed - 1
    /\ notice' = IF view = NoNotice THEN notice ELSE WithoutLike(view, a)

\* The process dies, MySQL fails, or a deadlock victim is rolled back.
LikeFails(r) ==
    /\ likeReq[r].pc # "idle"
    /\ Leave(r)
    /\ UNCHANGED <<likes, likesCount, owed, notice>>

\* MarkRead and MarkAllRead of the author; hidden rows are left alone.
ReadNotice ==
    /\ notice # NoNotice /\ ~notice.hidden /\ ~notice.read
    /\ notice' = [notice EXCEPT !.read = TRUE]
    /\ UNCHANGED <<likes, likesCount, owed, likeReq>>

LikeNext ==
    \/ \E r \in LikeRequests :
         \/ \E a \in Likers : JudgeLike(r, a) \/ DeleteLike(r, a)
         \/ InsertLike(r) \/ CommitLike(r) \/ CommitUnlike(r) \/ LikeFails(r)
    \/ ReadNotice

LikeSafety == LikeInit /\ [][LikeNext]_likeVars
-----------------------------------------------------------------------------
\* The counter of the video and the popularity events in the outbox agree
\* with the relations, however likes and unlikes of the same accounts race,
\* fail or are sent twice (like/service.go:99-134).
LikesCounted == likesCount = Cardinality(likes) /\ owed = likesCount
=============================================================================
