------------------------------ MODULE Comments ------------------------------
(***************************************************************************)
(* Comments of one video (comment/service.go, comment/repo.go,             *)
(* worker/comment_worker.go, notification/writer.go).                      *)
(*                                                                         *)
(*   Publish, Delete -> comment.write.q -> CommentWorker: one transaction  *)
(*     for the row, the counter of the video and the notices               *)
(*     (popularity.changed, sent after the commit, is Popularity's)        *)
(*                                                                         *)
(* The request judges the parent, or the comment to delete, on the rows    *)
(* that are there; the event is applied later, in any order, and again     *)
(* when its ack is lost.  A handler reads nothing outside its transaction, *)
(* so that to take an event, to apply it and to ack it is one step here.   *)
(***************************************************************************)
EXTENDS Integers, FiniteSets

CONSTANTS
    CommentIds,
    Talkers,          \* accounts that comment; the author of the video is one
    VideoAuthor,
    Mentioned,        \* the accounts that the words of a comment mention
    MaxDeletes,       \* bound: delete requests for every comment
    Brokerless,       \* bound: comments that may be written without the broker
    MayFail,          \* bound: events whose transaction may fail
    NoComment         \* no parent, no message

ASSUME CommentAssumption == NoComment \notin CommentIds /\ VideoAuthor \in Talkers
ASSUME MaxDeletesAssumption == MaxDeletes \in Nat
ASSUME MentionAssumption == Mentioned \in [CommentIds -> SUBSET Talkers]

VARIABLES
    commentRow,       \* of every comment: "none", "sent", "there", "gone"
    text,             \* what its event carries
    commentCount,     \* videos.comment_count
    bells,            \* whom a row of notifications that is not hidden tells
    commentQueue,     \* events not yet acked
    commentSeen,      \* processed_messages of "comment-worker"
    commentDead       \* dead-letter queue

commentVars == <<commentRow, text, commentCount, bells, commentQueue, commentSeen,
                 commentDead>>
commentTables == <<commentRow, text, commentCount, bells, commentSeen>>

Texts == [by : Talkers, parent : CommentIds \union {NoComment},
          root : CommentIds \union {NoComment}, to : Talkers]
CommentEvents == CommentIds \X (0..MaxDeletes)    \* <<c, 0>>: comment.created

CommentTypeOK ==
    /\ commentRow \in [CommentIds -> {"none", "sent", "there", "gone"}]
    /\ text \in [CommentIds -> Texts \union {NoComment}]
    /\ commentCount \in Nat
    /\ bells \in [CommentIds -> SUBSET Talkers]
    /\ commentQueue \in SUBSET CommentEvents
    /\ commentSeen \in SUBSET CommentEvents
    /\ commentDead \in SUBSET CommentEvents

CommentInit ==
    /\ commentRow = [c \in CommentIds |-> "none"]
    /\ text = [c \in CommentIds |-> NoComment]
    /\ commentCount = 0 /\ bells = [c \in CommentIds |-> {}]
    /\ commentQueue = {} /\ commentSeen = {} /\ commentDead = {}
-----------------------------------------------------------------------------
There == {c \in CommentIds : commentRow[c] = "there"}

\* The root a reply hangs under: its parent, or the parent's root.
RootOf(p) == IF text[p].root = NoComment THEN p ELSE text[p].root

TextOf(u, p) ==
    [by |-> u, parent |-> p,
     root |-> IF p = NoComment THEN NoComment ELSE RootOf(p),
     to |-> IF p = NoComment THEN u ELSE text[p].by]

PublishComment(c, u, p) ==
    /\ commentRow[c] = "none"
    /\ \A d \in CommentIds : commentRow[d] = "none" => c <= d      \* ids grow
    /\ p \in There \union {NoComment}
    /\ commentRow' = [commentRow EXCEPT ![c] = "sent"]
    /\ text' = [text EXCEPT ![c] = TextOf(u, p)]
    /\ commentQueue' = commentQueue \union {<<c, 0>>}
    /\ UNCHANGED <<commentCount, bells, commentSeen, commentDead>>

\* Delete: by the author of the comment or of the video, of a row that is there.
DeleteComment(c, n) ==
    /\ c \in There
    /\ \A m \in 1..MaxDeletes : m < n => <<c, m>> \in commentQueue \union commentSeen \union commentDead
    /\ <<c, n>> \notin commentQueue \union commentSeen \union commentDead
    /\ commentQueue' = commentQueue \union {<<c, n>>}
    /\ UNCHANGED <<commentTables, commentDead>>
-----------------------------------------------------------------------------
\* ApplyComment: the author of the video or the author of the parent, then
\* everybody mentioned; nobody twice, and never the one who wrote it.
Told(c, t) ==
    LET first == IF t.parent = NoComment THEN VideoAuthor ELSE t.to
    IN ({first} \union Mentioned[c]) \ {t.by}

\* DeleteByIDOrRootID and HideByComment.
Thread(c) == {d \in CommentIds : d = c \/ (text[d] # NoComment /\ text[d].root = c)}

\* A deletion that takes one off the counter, however many rows it removed.
RemoveOneCounted(c) ==
    LET rows == Thread(c) \intersect There IN
    /\ commentRow' = [d \in CommentIds |-> IF d \in rows THEN "gone" ELSE commentRow[d]]
    /\ bells' = [d \in CommentIds |-> IF d \in Thread(c) THEN {} ELSE bells[d]]
    /\ commentCount' = commentCount - (IF rows = {} THEN 0 ELSE 1)

\* HideByComment without the replies under the comment.
RemoveHidingOne(c) ==
    LET rows == Thread(c) \intersect There IN
    /\ commentRow' = [d \in CommentIds |-> IF d \in rows THEN "gone" ELSE commentRow[d]]
    /\ bells' = [bells EXCEPT ![c] = {}]
    /\ commentCount' = IF commentCount < Cardinality(rows) THEN 0
                         ELSE commentCount - Cardinality(rows)

RemoveThread(c) ==
    LET rows == Thread(c) \intersect There IN
    /\ commentRow' = [d \in CommentIds |-> IF d \in rows THEN "gone" ELSE commentRow[d]]
    /\ bells' = [d \in CommentIds |-> IF d \in Thread(c) THEN {} ELSE bells[d]]
    /\ commentCount' = IF commentCount < Cardinality(rows) THEN 0
                         ELSE commentCount - Cardinality(rows)

Insert(c) ==
    /\ commentRow' = [commentRow EXCEPT ![c] = "there"]
    /\ bells' = [bells EXCEPT ![c] = Told(c, text[c])]
    /\ commentCount' = commentCount + 1

\* What the transaction does for an event that is new to MarkProcessed.
Apply(e) ==
    /\ commentSeen' = commentSeen \union {e}
    /\ UNCHANGED text
    /\ IF e[2] = 0 THEN Insert(e[1]) ELSE RemoveThread(e[1])

\* The transaction of one delivery.  A worker that lost its channel may still
\* commit when its message, delivered again, was dead-lettered meanwhile.
Handle(e) ==
    /\ e \in commentQueue \union commentDead
    /\ IF e \in commentSeen THEN UNCHANGED commentTables ELSE Apply(e)

\* The ack arrives, or is lost with the channel or the worker.
HandleComment(e) ==
    /\ Handle(e)
    /\ commentQueue' \in {commentQueue, commentQueue \ {e}}
    /\ UNCHANGED commentDead

\* The transaction fails: Nack without requeue.
DeadLetterComment(e) ==
    /\ e \in commentQueue \intersect MayFail
    /\ commentQueue' = commentQueue \ {e} /\ commentDead' = commentDead \union {e}
    /\ UNCHANGED commentTables

-----------------------------------------------------------------------------
\* An API process that was started without the broker writes the rows itself.
\* What it judged, the parent or the comment, may be gone by the time of its
\* transaction.
WasThere == {c \in CommentIds : commentRow[c] \in {"there", "gone"}}

publishSync(c, u, p) ==
    /\ c \in Brokerless
    /\ commentRow[c] = "none"
    /\ \A d \in CommentIds : commentRow[d] = "none" => c <= d
    /\ p \in WasThere \union {NoComment}
    /\ text' = [text EXCEPT ![c] = TextOf(u, p)]
    /\ commentRow' = [commentRow EXCEPT ![c] = "there"]
    /\ bells' = [bells EXCEPT ![c] = Told(c, TextOf(u, p))]
    /\ commentCount' = commentCount + 1
    /\ UNCHANGED <<commentQueue, commentSeen, commentDead>>

\* ErrCommentNotFound, which rolls back, when no row is left.
deleteSync(c) ==
    /\ c \in Brokerless \intersect WasThere /\ Thread(c) \intersect There # {}
    /\ RemoveThread(c)
    /\ UNCHANGED <<text, commentQueue, commentSeen, commentDead>>

CommentNext ==
    \/ \E c \in CommentIds, u \in Talkers, p \in CommentIds \union {NoComment} :
         PublishComment(c, u, p) \/ publishSync(c, u, p)
    \/ \E c \in CommentIds, n \in 1..MaxDeletes : DeleteComment(c, n)
    \/ \E c \in CommentIds : deleteSync(c)
    \/ \E e \in CommentEvents : HandleComment(e) \/ DeadLetterComment(e)

CommentSafety == CommentInit /\ [][CommentNext]_commentVars
-----------------------------------------------------------------------------
\* What ListAll returns: roots, and replies whose root is there.
Visible == {c \in There : text[c].root = NoComment \/ text[c].root \in There}

\* The counter of the video is the number of rows, however often and in
\* whatever order events are delivered, with subtrees removed at once
\* (worker/comment_worker.go:64-111, :157-182).
CommentsCounted == commentCount = Cardinality(There)

\* An inbox row about a comment is shown only while the comment exists, and
\* never to the one who wrote it (notification/writer.go:135-216).
BellsMatchComments ==
    \A c \in CommentIds : bells[c] # {} => c \in There /\ text[c].by \notin bells[c]

\* Whatever is accepted can be listed once its event is applied
\* (.spec/backend/comments/spec.md:18).
AcceptedIsListed == There = Visible
=============================================================================
