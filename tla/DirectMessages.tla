--------------------------- MODULE DirectMessages ---------------------------
(***************************************************************************)
(* One conversation (dm/service.go, dm/repo.go).                           *)
(*                                                                         *)
(* Send judges the relation before its transaction; the transaction        *)
(* upserts and locks the row of the conversation, counts what the sender   *)
(* has sent so far, and writes the unread count back from the row it read  *)
(* under the lock.  Thread lists, then clears its own unread count, then   *)
(* reads again, in three statements and no transaction.                    *)
(***************************************************************************)
EXTENDS Integers, Sequences, FiniteSets

CONSTANTS
    DmRequests,      \* Send requests served at the same time
    StrangerQuota,   \* messages to somebody who is not a friend
    MaxSent,         \* bound: messages of the conversation
    NoConversation

ASSUME StrangerQuotaAssumption == StrangerQuota \in Nat \ {0}

Sides == {"lo", "hi"}       \* user_lo and user_hi
Peer(me) == IF me = "lo" THEN "hi" ELSE "lo"

VARIABLES
    ties,            \* social_relations: the sides that follow the other one
    conversation,    \* its row: the unread count of both sides
    letters,         \* dm_messages in the order of their ids
    opened,          \* history: what each side had received at its last MarkRead
    dmReq            \* what every Send does, with the row it read

dmVars == <<ties, conversation, letters, opened, dmReq>>
dmTables == <<conversation, letters, opened>>

Counts == [Sides -> Nat]
ASSUME NoConversationAssumption == NoConversation \notin Counts
DmIdle == [pc |-> "idle", me |-> "lo", mutual |-> FALSE, sent |-> 0, row |-> NoConversation]

DmTypeOK ==
    /\ ties \in SUBSET Sides
    /\ conversation \in Counts \union {NoConversation}
    /\ letters \in Seq([by : Sides, mutual : BOOLEAN])
    /\ opened \in Counts
    /\ dmReq \in [DmRequests ->
         [pc : {"idle", "judged", "locked"}, me : Sides, mutual : BOOLEAN, sent : Nat,
          row : Counts \union {NoConversation}]]

DmInit ==
    /\ ties = {} /\ conversation = NoConversation /\ letters = <<>>
    /\ opened = [s \in Sides |-> 0]
    /\ dmReq = [r \in DmRequests |-> DmIdle]
-----------------------------------------------------------------------------
\* CountSent.
Sent(s) == Cardinality({i \in 1..Len(letters) : letters[i].by = s})
DmReceived(s) == Sent(Peer(s))

\* The row lock on the conversation, or on the gap its unique key takes.
ConversationFree == \A r \in DmRequests : dmReq[r].pc # "locked"
NewConversation == [s \in Sides |-> 0]
DmRest(r) == dmReq' = [dmReq EXCEPT ![r] = DmIdle]

\* RelationFlags and relationOf: friends follow each other.
JudgeRelation(r, me) ==
    /\ dmReq[r].pc = "idle" /\ Len(letters) < MaxSent
    /\ dmReq' = [dmReq EXCEPT ![r] = [DmIdle EXCEPT !.pc = "judged", !.me = me,
                                                    !.mutual = (ties = Sides)]]
    /\ UNCHANGED <<ties, dmTables>>

\* EnsureConversation without FOR UPDATE.
EnsureUnlocked(r) ==
    /\ dmReq[r].pc = "judged"
    /\ dmReq' = [dmReq EXCEPT ![r].pc = "locked", ![r].sent = Sent(dmReq[r].me),
                   ![r].row = IF conversation = NoConversation THEN NewConversation
                                                               ELSE conversation]
    /\ UNCHANGED <<ties, dmTables>>

\* EnsureConversation and, under its lock, CountSent.
EnsureConversation(r) ==
    /\ dmReq[r].pc = "judged" /\ ConversationFree
    /\ dmReq' = [dmReq EXCEPT ![r].pc = "locked", ![r].sent = Sent(dmReq[r].me),
                   ![r].row = IF conversation = NoConversation THEN NewConversation
                                                               ELSE conversation]
    /\ UNCHANGED <<ties, dmTables>>

\* InsertMessage and TouchAfterSend, or ErrQuotaExceeded, which rolls back.
CommitSend(r) ==
    LET q == dmReq[r] IN
    /\ q.pc = "locked"
    /\ DmRest(r)
    /\ UNCHANGED <<ties, opened>>
    /\ IF ~q.mutual /\ q.sent >= StrangerQuota
         THEN UNCHANGED <<conversation, letters>>
         ELSE /\ letters' = Append(letters, [by |-> q.me, mutual |-> q.mutual])
              /\ conversation' = [q.row EXCEPT ![Peer(q.me)] = @ + 1]

DmFails(r) ==
    /\ dmReq[r].pc # "idle"
    /\ DmRest(r)
    /\ UNCHANGED <<ties, dmTables>>

\* MarkRead, alone or as the second statement of Thread; it waits for the
\* lock.  A conversation that was not there is not touched.
MarkConversationRead(me) ==
    /\ conversation # NoConversation /\ ConversationFree
    /\ conversation' = [conversation EXCEPT ![me] = 0]
    /\ opened' = [opened EXCEPT ![me] = DmReceived(me)]
    /\ UNCHANGED <<ties, letters, dmReq>>

\* Follow and Unfollow, applied by the social worker at any time.
ChangeRelation(me) ==
    /\ ties' = IF me \in ties THEN ties \ {me} ELSE ties \union {me}
    /\ UNCHANGED <<dmTables, dmReq>>

DmNext ==
    \/ \E r \in DmRequests :
         \/ \E me \in Sides : JudgeRelation(r, me)
         \/ EnsureConversation(r) \/ CommitSend(r) \/ DmFails(r)
    \/ \E me \in Sides : MarkConversationRead(me) \/ ChangeRelation(me)

DmSafety == DmInit /\ [][DmNext]_dmVars
-----------------------------------------------------------------------------
\* quotaState: whether another message may follow, and how many; -1 is no limit.
quotaState(mutual, sent) ==
    LET left == IF sent < StrangerQuota THEN StrangerQuota - sent ELSE 0 IN
    [canSend |-> mutual \/ left > 0, remaining |-> IF mutual THEN -1 ELSE left]

\* ListMessages of a conversation of n messages, which stand for their ids: the
\* next ones after an id, or the last ones, before an id or at all.
Wanted(n, after, before) ==
    {i \in 1..n : IF after > 0 THEN after < i ELSE before > 0 => i < before}
ListMessages(n, after, before, limit) ==
    LET end == IF before > 0 THEN before - 1 ELSE n IN
    IF after > 0 THEN {i \in Wanted(n, after, before) : i <= after + limit}
                 ELSE {i \in Wanted(n, after, before) : end - limit < i}

\* Thread asks for one more than the page holds and drops it again, at the end
\* that is farther from what the client has.
ThreadPage(n, after, before, limit) ==
    LET rows == ListMessages(n, after, before, limit + 1)
        hasMore == Cardinality(rows) > limit
    IN [hasMore |-> hasMore,
        messages |-> IF ~hasMore THEN rows
                       ELSE IF after > 0 THEN {i \in rows : \E j \in rows : i < j}
                                         ELSE {i \in rows : \E j \in rows : j < i}]

-----------------------------------------------------------------------------
\* However many Send requests of both sides race, and whatever becomes of the
\* relation meanwhile, a message that was judged a stranger's was within the
\* quota of its sender when it was written (dm/service.go:185-191).
QuotaKept ==
    \A i \in 1..Len(letters) : ~letters[i].mutual =>
        Cardinality({j \in 1..i - 1 : letters[j].by = letters[i].by}) < StrangerQuota

\* The unread count of a side is what came since it last cleared it: no
\* message is missed by the count and none is counted twice, though the
\* count is written back as an absolute value (dm/repo.go:128-144).
UnreadExact ==
    conversation # NoConversation =>
        \A s \in Sides : conversation[s] = DmReceived(s) - opened[s]
=============================================================================
