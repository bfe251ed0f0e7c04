------------------------------ MODULE MCVideo ------------------------------
(* Two videos, two publications, two requests at a time, one reporter.     *)
EXTENDS Video, ShareCode

CONSTANTS k1, k2, r1, r2, p1

TwoVideos == {1, 2}
OneVideo == {1}
TwoKeys == {k1, k2}
OneKey == {k1}
TwoRequests == {r1, r2}
OneReporter == {p1}

ASSUME CodesComeBack ==
    \A videoID \in 1..mixMask : DecodeShareCode(EncodeShareCode(videoID)) = videoID

ASSUME SharedTextsResolve ==
    \A videoID \in 1..mixMask :
        LET code == EncodeShareCode(videoID)
            typo == [code EXCEPT ![1] = 1 - code[1]]
        IN /\ ExtractShareCode([bytes |-> 8, bare |-> code, links |-> <<>>, marked |-> <<>>])
                = videoID
           /\ ExtractShareCode([bytes |-> 40, bare |-> NoCode, links |-> <<typo>>,
                                marked |-> <<code>>]) = videoID
           /\ ExtractShareCode([bytes |-> 8, bare |-> typo, links |-> <<>>, marked |-> <<>>])
                = NoVideo
=============================================================================
