----------------------------- MODULE Recommend ------------------------------
(***************************************************************************)
(* The recommendation feed of one viewer (recommend/service.go:List,       *)
(* pickByTagsOrDefault, normalizeExclude; recommend/mixer.go;              *)
(* recommend/repo.go:ListApprovedCandidates; recommend/tags.go).           *)
(*                                                                         *)
(* A page is made from candidates that are read once.  It begins with what *)
(* matches the viewer's tags, if anything does, and is filled from queues: *)
(* every fifth place, from the third on, belongs to authors with few       *)
(* followers, the others to all.  Page by page the client sends back the   *)
(* list of what it was shown.  Scores are data: the best of a queue is any *)
(* of it that the author's window and the likeness to the page allow.  The *)
(* popular queue and the one of interests, which List fills without a      *)
(* vector of the viewer, hold the same videos in another order.            *)
(***************************************************************************)
EXTENDS Integers, FiniteSets, SequencesExt

CONSTANTS
    RecVideos,        \* videos of others than the viewer, numbered by age
    RecAuthor,        \* of every video its author
    SmallAuthors,     \* authors with fewer followers than SmallMaxFollowers
    Alike,            \* pairs of videos whose vectors are nearer than NearDup
    RecLimit,         \* videos of a page
    AuthorWindow,     \* authorWindow
    MaxExclude,       \* maxExcludeIDs
    MaxCandidates,    \* maxCandidates
    Movable           \* bound: the videos that are published and withdrawn meanwhile

ASSUME CandidatesAssumption ==
    /\ IsFiniteSet(RecVideos) /\ RecVideos \subseteq Nat
    /\ RecLimit \in Nat /\ MaxCandidates \in Nat /\ RecLimit < MaxCandidates
ASSUME ExcludeAssumption == MaxExclude \in Nat

VARIABLES
    shelf,            \* of every video: "hidden", "public", "broken" (no media)
    recPage,          \* the page being made
    exclude,          \* exclude_ids, as the client has them
    recMore           \* has_more of the last page

recVars == <<shelf, recPage, exclude, recMore>>

NoPage == [pc |-> "rest", cands |-> {}, picked |-> <<>>, tagged |-> 0, slot |-> 1,
           public |-> {}, capped |-> FALSE]

RecTypeOK ==
    /\ shelf \in [RecVideos -> {"hidden", "public", "broken"}]
    /\ recPage.pc \in {"rest", "mix", "done"}
    /\ recPage.cands \subseteq RecVideos /\ recPage.public \subseteq RecVideos
    /\ ToSet(recPage.picked) \subseteq recPage.cands
    /\ Len(exclude) <= MaxExclude /\ ToSet(exclude) \subseteq RecVideos
    /\ recMore \in BOOLEAN

RecInit ==
    /\ shelf = [v \in RecVideos |-> "public"]
    /\ recPage = NoPage /\ exclude = <<>> /\ recMore = TRUE
-----------------------------------------------------------------------------
\* The last n entries of a list.
Latest(s, n) == IF Len(s) > n THEN SubSeq(s, Len(s) - n + 1, Len(s)) ELSE s

\* Publications, withdrawals, and media that get lost.
Shelve(v, how) ==
    /\ shelf[v] # how /\ shelf' = [shelf EXCEPT ![v] = how]
    /\ UNCHANGED <<recPage, exclude, recMore>>

\* ListApprovedCandidates: the newest of what is public and not excluded.
Eligible == {v \in RecVideos : shelf[v] # "hidden" /\ v \notin ToSet(Latest(exclude, MaxExclude))}
NewestEligible == {v \in Eligible : Cardinality({u \in Eligible : u > v}) < MaxCandidates}
Playable(S) == {v \in S : shelf[v] = "public"}

\* matchInterestTags, cut to a page: which candidates carry a tag of the viewer,
\* and the order of their scores, is data.
Matches(cands) == UNION {SetToSeqs(S) : S \in {S \in SUBSET cands : Cardinality(S) <= RecLimit}}

\* List: the candidates, and what matches the tags.
AskRecommend ==
    /\ recPage.pc = "rest" /\ recMore
    /\ LET cands == Playable(NewestEligible) IN
       \E match \in Matches(cands) :
         recPage' = [NoPage EXCEPT !.pc = "mix", !.cands = cands, !.picked = match,
                                   !.tagged = Len(match), !.public = Playable(Eligible),
                                   !.capped = NewestEligible \notin {cands, Eligible}]
    /\ UNCHANGED <<shelf, exclude, recMore>>
-----------------------------------------------------------------------------
\* What mixExcluding put on the page; authorInWindow and tooSimilar look at it.
Mixed == SubSeq(recPage.picked, recPage.tagged + 1, Len(recPage.picked))

Fits(v) ==
    /\ \A u \in ToSet(Latest(Mixed, AuthorWindow)) : RecAuthor[u] # RecAuthor[v]
    /\ \A u \in ToSet(Mixed) : {u, v} \notin Alike

\* pickMMR: what it may take from a queue; the rules give way before the page does.
Takable(queue) ==
    LET unused == queue \ ToSet(recPage.picked)
        fitting == {v \in unused : Fits(v)}
    IN  IF fitting # {} THEN fitting ELSE unused

SmallQueue == {v \in recPage.cands : RecAuthor[v] \in SmallAuthors}

\* The queue of a place, without another to fall back on.
ForSlotAlone == Takable(IF recPage.slot % 5 = 3 THEN SmallQueue ELSE recPage.cands)

\* slotPlan and the fallback of every kind of place.
ForSlot ==
    LET first == IF recPage.slot % 5 = 3 THEN SmallQueue ELSE recPage.cands
        other == IF recPage.slot % 5 = 3 THEN recPage.cands ELSE SmallQueue
    IN  IF Takable(first) # {} THEN Takable(first) ELSE Takable(other)

MixSlot ==
    /\ recPage.pc = "mix" /\ recPage.slot <= RecLimit - recPage.tagged
    /\ \/ ForSlot = {} /\ recPage' = [recPage EXCEPT !.slot = @ + 1]
       \/ \E v \in ForSlot :
            recPage' = [recPage EXCEPT !.slot = @ + 1, !.picked = Append(@, v)]
    /\ UNCHANGED <<shelf, exclude, recMore>>

\* leftoverAny.
FinishPage ==
    /\ recPage.pc = "mix" /\ recPage.slot > RecLimit - recPage.tagged
    /\ recPage' = [recPage EXCEPT !.pc = "done"]
    /\ recMore' = (recPage.cands \ ToSet(recPage.picked) # {})
    /\ UNCHANGED <<shelf, exclude>>

\* The client shows the page and keeps what it is to send back.
ShowPage ==
    /\ recPage.pc = "done" /\ recPage' = NoPage
    /\ exclude' = Latest(exclude \o recPage.picked, MaxExclude)
    /\ UNCHANGED <<shelf, recMore>>

\* A walk begins with an empty list.
RestartWalk ==
    /\ recPage.pc = "rest" /\ (exclude # <<>> \/ ~recMore)
    /\ exclude' = <<>> /\ recMore' = TRUE
    /\ UNCHANGED <<shelf, recPage>>

RecNext ==
    \/ \E v \in Movable, how \in {"hidden", "public", "broken"} : Shelve(v, how)
    \/ AskRecommend \/ MixSlot \/ FinishPage \/ ShowPage \/ RestartWalk

RecSafety == RecInit /\ [][RecNext]_recVars
-----------------------------------------------------------------------------
\* A page is short only when it has every candidate (a place whose queue is
\* empty is filled from another), and the last page leaves nothing out that
\* could be played when it was read, unless unplayable videos filled the list
\* of candidates.
ShortMeansAll ==
    recPage.pc = "done" =>
        /\ Len(recPage.picked) < RecLimit => recPage.cands = ToSet(recPage.picked)
        /\ ~recMore /\ ~recPage.capped => recPage.public = ToSet(recPage.picked)
=============================================================================
