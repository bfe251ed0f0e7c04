---------------------------- MODULE CommentLookup ----------------------------
(***************************************************************************)
(* The comment that an id in a request means (comment/id.go,               *)
(* comment/repo.go:findByResolvableID).  A page keeps ids in numbers of    *)
(* JavaScript, which are exact up to JsSafe only; what it sends back for a *)
(* larger id is the nearest number it can write.  So a large id without a  *)
(* row of its own stands for the nearest row of a window.                  *)
(***************************************************************************)
EXTENDS Integers

CONSTANTS
    JsSafe,           \* maxJSSafeInteger: 2^53 - 1
    LookupWindow,     \* commentIDLookupWindowJS
    MaxId             \* 2^64 - 1

ASSUME LookupAssumption ==
    /\ JsSafe \in Nat /\ LookupWindow \in Nat /\ MaxId \in Nat
    /\ LookupWindow <= MaxId

Ids == 0..MaxId

\* commentIDLookupRange: the window ends where uint64 does.
LookupRange(id) ==
    LET lower == IF id > LookupWindow THEN id - LookupWindow ELSE 0
        upper == IF id > MaxId - LookupWindow THEN MaxId ELSE id + LookupWindow
    IN  lower..upper

Distance(a, b) == IF a > b THEN a - b ELSE b - a

\* Of the rows, in the order of their ids, the first that none is nearer than.
Nearest(rows, id) ==
    {best \in rows : \A row \in rows :
        \/ Distance(best, id) < Distance(row, id)
        \/ Distance(best, id) = Distance(row, id) /\ best <= row}

\* At most one row: the one with the id, or else the nearest to a large one.
Resolved(rows, id) ==
    IF id \in rows THEN {id}
    ELSE IF id <= JsSafe THEN {} ELSE Nearest(rows \intersect LookupRange(id), id)
=============================================================================
