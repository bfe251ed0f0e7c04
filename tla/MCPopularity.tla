---------------------------- MODULE MCPopularity ----------------------------
(* The popularity pipeline on small instances: one like, one worker.      *)
EXTENDS Popularity

CONSTANTS p1, w1, q1

MCIds1 == {1}
OnePoller == {p1}
OneWorker == {w1}
OneProjPoller == {q1}

\* A like.
Gains == [i \in Ids |-> 3]
=============================================================================
