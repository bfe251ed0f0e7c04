----------------------------- MODULE Interests ------------------------------
(***************************************************************************)
(* What the site remembers of one account's taste: its interest tags       *)
(* (account/interests.go, tag/tag.go:Merge) and its vector                 *)
(* (recommend/interest.go:InvalidateUser, refreshUserVector), with the     *)
(* vectors of videos (worker/embed_worker.go).                             *)
(*                                                                         *)
(*   like, tip -> refresh the vector -> add the video's tags               *)
(*   unlike    -> refresh the vector                                       *)
(*   comment   -> add the video's tags (CommentWorker)                     *)
(*                                                                         *)
(* Both are read, computed and written in steps of their own, after the    *)
(* transaction of the act, and nothing is tried again.                     *)
(***************************************************************************)
EXTENDS Integers, FiniteSets, SequencesExt, Lists

CONSTANTS
    Acts,             \* what the account does at a time, in two processes
    KindsOf,          \* bound: of every act what it may be
    TastedVideos,
    TagsOf,           \* of every video its tags
    MaxTags,          \* tag.Max
    NoVector

ASSUME TagsAssumption ==
    /\ MaxTags \in Nat
    /\ \A v \in TastedVideos : /\ TagsOf[v] \in Seq(ToSet(TagsOf[v]))
                               /\ IsInjective(TagsOf[v]) /\ Len(TagsOf[v]) <= MaxTags

VARIABLES
    signals,          \* videos the account likes or has tipped
    vectors,          \* videos with a row of video_embeddings
    tasteRow,         \* user_embeddings: the videos the vector is made of
    tasteCache,       \* recommend:interest:<account>
    interests,        \* accounts.interests
    act,              \* what every act does
    settled           \* history: the last act, if it had no other beside it and
                      \* nothing of it failed; "none" from when another begins

tasteVars == <<signals, vectors, tasteRow, tasteCache, interests, act, settled>>

Tags == UNION {ToSet(TagsOf[v]) : v \in TastedVideos}
TagLists == UNION {{t \in [1..n -> Tags] : IsInjective(t)} : n \in 0..MaxTags}
TasteVectors == (SUBSET TastedVideos) \ {{}}
NotActing == [pc |-> "idle", kind |-> "comment", video |-> 0, read |-> {}, tags |-> <<>>, alone |-> TRUE]
NotSettled == [kind |-> "none", video |-> 0]

TasteTypeOK ==
    /\ signals \subseteq TastedVideos /\ vectors \subseteq TastedVideos
    /\ tasteRow \in TasteVectors \union {NoVector} /\ tasteCache \in TasteVectors \union {NoVector}
    /\ interests \in TagLists
    /\ act \in [Acts -> [pc : {"idle", "signals", "delete", "drop", "vectors", "upsert", "tags", "merge"},
                         kind : {"like", "unlike", "comment"}, video : TastedVideos \union {0},
                         read : SUBSET TastedVideos, tags : TagLists, alone : BOOLEAN]]
    /\ settled \in [kind : {"none", "like", "unlike", "comment"}, video : TastedVideos \union {0}]

TasteInit ==
    /\ signals = {} /\ vectors = {} /\ tasteRow = NoVector /\ tasteCache = NoVector
    /\ interests = <<>> /\ act = [a \in Acts |-> NotActing] /\ settled = NotSettled
-----------------------------------------------------------------------------
ActAt(a, pc) == act[a].pc = pc
ActGoes(a, pc) == act' = [act EXCEPT ![a].pc = pc]
Alone(a) == \A b \in Acts \ {a} : ActAt(b, "idle")
AfterRefresh(a) == IF act[a].kind = "like" THEN "tags" ELSE "idle"

\* An act is over: if it was alone, what it did is all there is to know.
ActEnds(a) ==
    /\ act' = [act EXCEPT ![a] = NotActing]
    /\ settled' = IF act[a].alone THEN [kind |-> act[a].kind, video |-> act[a].video] ELSE NotSettled

RefreshEnds(a) ==
    IF act[a].kind = "like"
      THEN act' = [act EXCEPT ![a].pc = "tags", ![a].read = {}] /\ UNCHANGED settled
      ELSE ActEnds(a)

\* Like, Tip and Unlike commit, or a comment is in its table.
BeginAct(a, kind, v) ==
    /\ ActAt(a, "idle") /\ kind \in KindsOf[a] /\ settled' = NotSettled
    /\ CASE kind = "like" -> v \notin signals /\ signals' = signals \union {v}
         [] kind = "unlike" -> v \in signals /\ signals' = signals \ {v}
         [] kind = "comment" -> UNCHANGED signals
    /\ act' = [b \in Acts |->
         IF b = a THEN [NotActing EXCEPT !.pc = IF kind = "comment" THEN "tags" ELSE "signals",
                                         !.kind = kind, !.video = v, !.alone = Alone(a)]
         ELSE IF ActAt(b, "idle") THEN act[b] ELSE [act[b] EXCEPT !.alone = FALSE]]
    /\ UNCHANGED <<vectors, tasteRow, tasteCache, interests>>

\* EmbedWorker: the vector of a video, some time after it is public.
EmbedVideo(v) ==
    /\ v \notin vectors /\ vectors' = vectors \union {v}
    /\ UNCHANGED <<signals, tasteRow, tasteCache, interests, act, settled>>
-----------------------------------------------------------------------------
\* refreshUserVector for an account that likes nothing: the vector stays.
ReadSignalsKeeping(a) ==
    /\ ActAt(a, "signals")
    /\ IF signals = {} THEN RefreshEnds(a)
       ELSE act' = [act EXCEPT ![a].read = signals, ![a].pc = "vectors"] /\ UNCHANGED settled
    /\ UNCHANGED <<signals, vectors, tasteRow, tasteCache, interests>>

\* refreshUserVector: ListInterestSignals, ...
ReadSignals(a) ==
    /\ ActAt(a, "signals")
    /\ act' = [act EXCEPT ![a].read = signals, ![a].pc = IF signals = {} THEN "delete" ELSE "vectors"]
    /\ UNCHANGED <<signals, vectors, tasteRow, tasteCache, interests, settled>>

\* ... DeleteUserEmbedding and the cached copy, when there are none, ...
DeleteVector(a) ==
    /\ ActAt(a, "delete") /\ tasteRow' = NoVector /\ ActGoes(a, "drop")
    /\ UNCHANGED <<signals, vectors, tasteCache, interests, settled>>

DropVector(a) ==
    /\ ActAt(a, "drop") /\ tasteCache' = NoVector /\ RefreshEnds(a)
    /\ UNCHANGED <<signals, vectors, tasteRow, interests>>

\* ... LoadEmbeddings, which leaves the old row while no video has its vector, ...
ReadVectors(a) ==
    LET made == act[a].read \intersect vectors IN
    /\ ActAt(a, "vectors")
    /\ IF made = {} THEN RefreshEnds(a)
       ELSE act' = [act EXCEPT ![a].read = made, ![a].pc = "upsert"] /\ UNCHANGED settled
    /\ UNCHANGED <<signals, vectors, tasteRow, tasteCache, interests>>

\* ... or UpsertUserEmbedding and the cached copy, which may fail to be set.
UpsertVector(a) ==
    /\ ActAt(a, "upsert") /\ tasteRow' = act[a].read
    /\ tasteCache' \in {tasteCache, act[a].read} /\ RefreshEnds(a)
    /\ UNCHANGED <<signals, vectors, interests>>

ExpireVector ==
    /\ tasteCache # NoVector /\ tasteCache' = NoVector
    /\ UNCHANGED <<signals, vectors, tasteRow, interests, act, settled>>
-----------------------------------------------------------------------------
\* AppendInterestTags reads the row without a lock ...
ReadTags(a) ==
    /\ ActAt(a, "tags") /\ act' = [act EXCEPT ![a].tags = interests, ![a].pc = "merge"]
    /\ UNCHANGED <<signals, vectors, tasteRow, tasteCache, interests, settled>>

\* The tags of a list that are not among some, in their order.
WithoutTags(list, some) == EntriesAt(list, {i \in DOMAIN list : list[i] \notin ToSet(some)})

\* tag.Merge with the first tags kept instead of the last ones.
MergeKeepingOldest(old, new) ==
    LET all == WithoutTags(old, new) \o new IN SubSeq(all, 1, IF Len(all) < MaxTags THEN Len(all) ELSE MaxTags)

\* tag.Merge: a tag that comes again moves to the end; the first ones drop out.
Merge(old, new) ==
    LET all == WithoutTags(old, new) \o new IN
    IF Len(all) > MaxTags THEN SubSeq(all, Len(all) - MaxTags + 1, Len(all)) ELSE all

\* ... and writes what it made of it, if it made a difference.
WriteTags(a) ==
    LET merged == Merge(act[a].tags, TagsOf[act[a].video]) IN
    /\ ActAt(a, "merge") /\ ActEnds(a)
    /\ interests' = IF merged = act[a].tags THEN interests ELSE merged
    /\ UNCHANGED <<signals, vectors, tasteRow, tasteCache>>

\* A step fails and is logged, or the process stops.
AbandonStep(a, pc) ==
    /\ ~ActAt(a, "idle") /\ pc \in {"idle", AfterRefresh(a)}
    /\ act' = [act EXCEPT ![a] = IF pc = "idle" \/ act[a].pc \in {"tags", "merge"} THEN NotActing
                                 ELSE [act[a] EXCEPT !.pc = pc, !.read = {}, !.alone = FALSE]]
    /\ UNCHANGED <<signals, vectors, tasteRow, tasteCache, interests, settled>>

TasteNext ==
    \/ ExpireVector
    \/ \E v \in TastedVideos : EmbedVideo(v)
    \/ \E a \in Acts :
         \/ \E kind \in {"like", "unlike", "comment"}, v \in TastedVideos : BeginAct(a, kind, v)
         \/ ReadSignals(a) \/ DeleteVector(a) \/ DropVector(a) \/ ReadVectors(a)
         \/ UpsertVector(a) \/ ReadTags(a) \/ WriteTags(a)
         \/ \E pc \in {"idle", "tags"} : AbandonStep(a, pc)

TasteSafety == TasteInit /\ [][TasteNext]_tasteVars
-----------------------------------------------------------------------------
\* After an act with no other beside it the account's taste is the act's: an
\* unlike of the last video leaves no vector behind, stored or cached
\* (refreshUserVector), and a like or a comment ends the list of tags with
\* those of its video (AppendInterestTags).
TasteSettles ==
    /\ settled.kind = "unlike" /\ signals = {} => tasteRow = NoVector /\ tasteCache = NoVector
    /\ settled.kind \in {"like", "comment"} =>
         IsSuffix(TagsOf[settled.video], interests)
=============================================================================
