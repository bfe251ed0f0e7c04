------------------------------- MODULE MCSite -------------------------------
(* The parts of the site, each on its own small instance.                  *)
(*                                                                         *)
(* FollowFeed: a video of an author who comes and goes, and another author *)
(* who stays followed.  LikeNotices: three accounts, of which an inbox row *)
(* stores two.  Comments: three of two accounts, mentioning one of them.   *)
EXTENDS Site, CommentLookup

CONSTANTS w1, w2, a1, a2, r1, r2, r3, u1, u2, u3, m1, i1, i2, c1, c2

TwoAuthors == {a1, a2}
OneAuthor == {a1}
OneVideo == {1}
NoTier == {}
NoFault == {}
ByFirst == [v \in Videos |-> a1]
OneWorker == {w1}
OneReader == {r1}
OnlyMany == {"pull"}

ThreeUsers == {u1, u2, u3}
TwoUsers == {u1, u2}
TwoRequests == {r1, r2}
ThreeRequests == {r1, r2, r3}
ThreeComments == 1..3
Names == [c \in CommentIds |-> IF c = 2 THEN {u2} ELSE {u1}]
RootEvents == {<<1, 0>>, <<1, 1>>}
ThreeEvents == 1..3
OneTask == {m1}
TwoWorkers == {w1, w2}
TwoInstances == {i1, i2}
OneWriter == {w1}
OneWalker == {c1}
FirstOnly == {1}
TwoNames == {"ann", "bob"}
NamesToTry == <<"ann", "ann_2">>
ThreeCredentials == {"k1", "k2", "k3"}
ThreeCeremonies == {"s1", "s2", "s3"}
OneAddress == <<"ip">>

TwoClients == {c1, c2}
TwoVideos == {1, 2}
PagesOfClients == [c \in TwoClients |-> IF c = c1 THEN 2 ELSE 1]
FirstPage == {<<0, 0>>}
FiveVideos == 1..5
AuthorsOfFive == <<"x", "x", "y", "z", "z">>
OneSmall == {"x"}
OnePairAlike == {{3, 4}}
TwoMovable == {2, 5}
AnyAndNoLike == [a \in TwoRequests |-> {"unlike", "comment"} \union (IF a = r1 THEN {"like"} ELSE {})]
TheirTags == <<<<"a">>, <<"b", "c">>>>

ASSUME PagesLeaveNothingOut ==
    \A n \in 0..5, limit \in 1..3 : \A after, before \in 0..n :
        LET page == ThreadPage(n, after, before, limit) IN
        page.hasMore <=> page.messages # Wanted(n, after, before)

\* Rows far enough apart: what the page made of an id still finds its row.
ASSUME RoundedIdsAreFound ==
    \A rows \in SUBSET {3, 9, 14, 20, 21} : \A c \in rows, id \in Ids :
        (/\ \A other \in rows \ {c} : Distance(other, c) > 2 * Distance(id, c)
         /\ Distance(id, c) <= LookupWindow /\ (id > JsSafe \/ id = c))
        => Resolved(rows, id) = {c}

AllParts == {"feed", "likes", "comments", "dm", "social", "media", "detail", "latest",
             "sessions", "signup", "passkeys", "traffic", "hot", "recommend", "taste", "watch", "publish"}
=============================================================================
