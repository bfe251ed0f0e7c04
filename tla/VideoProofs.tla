---------------------------- MODULE VideoProofs ----------------------------
(***************************************************************************)
(* The videos, for any number of rows, keys, requests and reporters, and   *)
(* their share codes.                                                      *)
(***************************************************************************)
EXTENDS Video, ShareCode, TLAPS

\* The part of TypeOK that says what requests hold.
RequestsTyped ==
    /\ req \in [Requests -> [op : Ops, video : Videos \union {None},
                             key : Keys \union {None}, approved : BOOLEAN]]
    /\ \A r \in Requests :
         req[r].op \notin {"idle", "publish", "draft"} => req[r].video # None
    /\ \A r \in Requests : req[r].op \in {"publish", "machine"} => req[r].key # None

\* A request that begins holds what its operation reads.
LEMMA BeginTyped ==
    ASSUME RequestsTyped, NEW r \in Requests, NEW op \in Ops,
           NEW v \in Videos \union {None}, NEW k \in Keys \union {None},
           NEW approved \in BOOLEAN, Begin(r, op, v, k, approved),
           op \notin {"idle", "publish", "draft"} => v # None,
           op \in {"publish", "machine"} => k # None
    PROVE  RequestsTyped'
<1> DEFINE new == [op |-> op, video |-> v, key |-> k, approved |-> approved]
<1>1. req' = [req EXCEPT ![r] = new]
  BY DEF Begin
<1>2. /\ new \in [op : Ops, video : Videos \union {None}, key : Keys \union {None},
                  approved : BOOLEAN]
      /\ new.op \notin {"idle", "publish", "draft"} => new.video # None
      /\ new.op \in {"publish", "machine"} => new.key # None
  OBVIOUS
<1> HIDE DEF new
<1> QED
  BY <1>1, <1>2 DEF RequestsTyped

\* A request that ends holds nothing.
LEMMA EndTyped ==
    ASSUME RequestsTyped, NEW r \in Requests, End(r)
    PROVE  RequestsTyped'
<1>1. Idle \in [op : Ops, video : Videos \union {None}, key : Keys \union {None},
                approved : BOOLEAN]
  BY DEF Idle, Ops
<1>2. Idle.op = "idle"
  BY DEF Idle
<1> HIDE DEF Idle
<1> QED
  BY <1>1, <1>2 DEF RequestsTyped, End

\* What a request works on is a row.
LEMMA TargetIsVideo ==
    ASSUME RequestsTyped, NEW r \in Requests
    PROVE  /\ Target(r) \subseteq Videos
           /\ req[r].op \notin {"idle", "publish", "draft"} => req[r].video \in Videos
           /\ req[r].op \in {"publish", "machine"} => req[r].key \in Keys
BY DEF RequestsTyped, Target, NewRow

\* Every variable keeps its type: a request that judges, writes or closes a
\* video has found one, and one that publishes or moderates holds its key.
THEOREM VideoTypeInvariant == Safety => []TypeOK
<1>1. Init => TypeOK
  <2> SUFFICES ASSUME Init PROVE TypeOK
    OBVIOUS
  <2>1. Idle \in [op : Ops, video : Videos \union {None}, key : Keys \union {None},
                  approved : BOOLEAN] /\ Idle.op = "idle"
    BY DEF Idle, Ops
  <2> HIDE DEF Idle
  <2> QED
    BY <2>1 DEF Init, TypeOK, Verdicts
<1>2. TypeOK /\ [Next]_videoVars => TypeOK'
  <2> SUFFICES ASSUME TypeOK, [Next]_videoVars PROVE TypeOK'
    OBVIOUS
  <2>1. RequestsTyped
    BY DEF TypeOK, RequestsTyped
  <2> DEFINE Rest ==
        /\ auditOn \in BOOLEAN
        /\ life \in [Videos -> {"none", "draft", "published", "unpublished"}]
        /\ audit \in [Videos -> Verdicts \union {"pending"}]
        /\ deleted \in SUBSET Videos
        /\ record \in [Videos -> Records \union {None}]
        /\ keys \in [Keys -> Videos \union {None}]
        /\ reports \in [Reporters \X Videos ->
                          {"none", "seen", "pending", "accepted", "dismissed"}]
        /\ audits \in SUBSET (Videos \X Keys)
        /\ made \in [Keys -> Nat]
        /\ answers \in [Keys -> SUBSET Videos]
        /\ announced \in SUBSET Videos /\ removed \in SUBSET Videos
        /\ dead \in SUBSET Videos
  <2>2. Rest
    BY DEF TypeOK
  <2>3. RequestsTyped' /\ Rest' => TypeOK'
    BY DEF TypeOK, RequestsTyped
  <2> USE DEF Verdicts, Records, rowVars, trailVars, publishVars, queueVars
  <2>4. ASSUME NEW r \in Requests, NEW k \in Keys, NEW d \in Videos \union {None},
               Publish(r, k, d)
        PROVE  RequestsTyped' /\ Rest'
    <3>1. RequestsTyped'
      BY <2>1, <2>4, BeginTyped, NoneAssumption DEF Publish, Ops
    <3> QED
      BY <2>2, <2>4, <3>1 DEF Publish
  <2>5. ASSUME NEW r \in Requests, NEW v \in Videos, PublishCommit(r, v)
        PROVE  RequestsTyped' /\ Rest'
    <3>1. RequestsTyped'
      BY <2>1, <2>5, EndTyped DEF PublishCommit
    <3>2. req[r].key \in Keys
      BY <2>1, <2>5, TargetIsVideo DEF PublishCommit
    <3>3. life' \in [Videos -> {"none", "draft", "published", "unpublished"}]
      BY <2>2, <2>5 DEF PublishCommit
    <3>4. audit' \in [Videos -> Verdicts \union {"pending"}]
      BY <2>2, <2>5 DEF PublishCommit
    <3>5. audits' \in SUBSET (Videos \X Keys) /\ announced' \in SUBSET Videos
      BY <2>2, <2>5, <3>2 DEF PublishCommit
    <3>6. /\ keys' \in [Keys -> Videos \union {None}]
          /\ made' \in [Keys -> Nat]
          /\ answers' \in [Keys -> SUBSET Videos]
      BY <2>2, <2>5, <3>2 DEF PublishCommit
    <3> QED
      BY <2>2, <2>5, <3>1, <3>3, <3>4, <3>5, <3>6 DEF PublishCommit
  <2>6. ASSUME NEW k \in Keys, PublishReplay(k) PROVE RequestsTyped' /\ Rest'
    BY <2>1, <2>2, <2>6 DEF PublishReplay, RequestsTyped
  <2>7. ASSUME NEW r \in Requests, NEW d \in Videos \union {None}, SaveDraft(r, d)
        PROVE  RequestsTyped' /\ Rest'
    <3>1. RequestsTyped'
      BY <2>1, <2>7, BeginTyped DEF SaveDraft, Ops
    <3> QED
      BY <2>2, <2>7, <3>1 DEF SaveDraft
  <2>8. ASSUME NEW r \in Requests, NEW v \in Videos, WriteDraft(r, v)
        PROVE  RequestsTyped' /\ Rest'
    <3>1. RequestsTyped'
      BY <2>1, <2>8, EndTyped DEF WriteDraft
    <3> QED
      BY <2>2, <2>8, <3>1 DEF WriteDraft
  <2>9. ASSUME NEW r \in Requests, NEW v \in Videos, AuthorAsks(r, v)
        PROVE  RequestsTyped' /\ Rest'
    <3>1. RequestsTyped'
      <4>1. v # None
        BY NoneAssumption
      <4>2. CASE Begin(r, "unpublish", v, None, FALSE)
        BY <2>1, <4>1, <4>2, BeginTyped DEF Ops
      <4>3. CASE Begin(r, "relist", v, None, audit[v] = "approved")
        BY <2>1, <4>1, <4>3, BeginTyped DEF Ops
      <4>4. CASE Begin(r, "delete", v, None, FALSE)
        BY <2>1, <4>1, <4>4, BeginTyped DEF Ops
      <4> QED
        BY <2>9, <4>2, <4>3, <4>4 DEF AuthorAsks
    <3> QED
      BY <2>2, <2>9, <3>1 DEF AuthorAsks
  <2>10. ASSUME NEW r \in Requests, NEW v \in Videos, WriteUnpublished(r, v)
         PROVE  RequestsTyped' /\ Rest'
    <3>1. RequestsTyped'
      BY <2>1, <2>10, EndTyped DEF WriteUnpublished
    <3> QED
      BY <2>2, <2>10, <3>1 DEF WriteUnpublished
  <2>11. ASSUME NEW r \in Requests, NEW v \in Videos, WriteRelisted(r, v)
         PROVE  RequestsTyped' /\ Rest'
    <3>1. RequestsTyped'
      BY <2>1, <2>11, EndTyped DEF WriteRelisted
    <3> QED
      BY <2>2, <2>11, <3>1 DEF WriteRelisted
  <2>12. ASSUME NEW r \in Requests, NEW v \in Videos, WriteDeleted(r, v)
         PROVE  RequestsTyped' /\ Rest'
    <3>1. RequestsTyped'
      BY <2>1, <2>12, EndTyped DEF WriteDeleted
    <3> QED
      BY <2>2, <2>12, <3>1 DEF WriteDeleted
  <2>13. ASSUME NEW r \in Requests, NEW m \in audits, Machine(r, m)
         PROVE  RequestsTyped' /\ Rest'
    <3>1. m[1] \in Videos /\ m[2] \in Keys
      BY <2>2
    <3>2. RequestsTyped'
      <4>1. CASE Begin(r, "machine", m[1], m[2], FALSE)
        BY <2>1, <3>1, <4>1, BeginTyped, NoneAssumption DEF Ops
      <4>2. CASE UNCHANGED req
        BY <2>1, <4>2 DEF RequestsTyped
      <4> QED
        BY <2>13, <4>1, <4>2 DEF Machine
    <3>3. audits' \subseteq audits
      BY <2>13 DEF Machine, Ack
    <3> QED
      BY <2>2, <2>13, <3>2, <3>3 DEF Machine
  <2>14. ASSUME NEW r \in Requests, NEW verdict \in Verdicts, MachineVerdict(r, verdict)
         PROVE  RequestsTyped' /\ Rest'
    <3>1. RequestsTyped'
      BY <2>1, <2>14, EndTyped DEF MachineVerdict
    <3>2. req[r].video \in Videos
      BY <2>1, <2>14, TargetIsVideo DEF MachineVerdict
    <3>3. audits' \subseteq audits
      BY <2>14 DEF MachineVerdict, Ack
    <3> QED
      BY <2>2, <2>14, <3>1, <3>2, <3>3 DEF MachineVerdict, Apply
  <2>15. ASSUME NEW r \in Requests, MachineFails(r) PROVE RequestsTyped' /\ Rest'
    <3>1. RequestsTyped'
      BY <2>1, <2>15, EndTyped DEF MachineFails
    <3>2. req[r].video \in Videos
      BY <2>1, <2>15, TargetIsVideo DEF MachineFails
    <3> QED
      BY <2>2, <2>15, <3>1, <3>2 DEF MachineFails
  <2>16. ASSUME NEW r \in Requests, NEW v \in Videos, Manual(r, v)
         PROVE  RequestsTyped' /\ Rest'
    <3>1. RequestsTyped'
      BY <2>1, <2>16, BeginTyped, NoneAssumption DEF Manual, Ops
    <3> QED
      BY <2>2, <2>16, <3>1 DEF Manual
  <2>17. ASSUME NEW r \in Requests, NEW verdict \in {"approved", "rejected"},
                ManualVerdict(r, verdict)
         PROVE  RequestsTyped' /\ Rest'
    <3>1. RequestsTyped'
      BY <2>1, <2>17, EndTyped DEF ManualVerdict
    <3>2. req[r].video \in Videos
      BY <2>1, <2>17, TargetIsVideo DEF ManualVerdict
    <3> QED
      BY <2>2, <2>17, <3>1, <3>2 DEF ManualVerdict, Apply
  <2>18. ASSUME NEW p \in Reporters, NEW v \in Videos,
                LoadForReport(p, v) \/ Submit(p, v)
         PROVE  RequestsTyped' /\ Rest'
    BY <2>1, <2>2, <2>18 DEF LoadForReport, Submit, RequestsTyped
  <2>19. ASSUME NEW r \in Requests, NEW v \in Videos, Takedown(r, v)
         PROVE  RequestsTyped' /\ Rest'
    <3>1. RequestsTyped'
      BY <2>1, <2>19, BeginTyped, NoneAssumption DEF Takedown, Ops
    <3> QED
      BY <2>2, <2>19, <3>1 DEF Takedown
  <2>20. ASSUME NEW r \in Requests, Accept(r) PROVE RequestsTyped' /\ Rest'
    <3>1. RequestsTyped'
      BY <2>1, <2>20, EndTyped DEF Accept
    <3> QED
      BY <2>2, <2>20, <3>1 DEF Accept, Resolve
  <2>21. ASSUME NEW v \in Videos, Dismiss(v) PROVE RequestsTyped' /\ Rest'
    BY <2>1, <2>2, <2>21 DEF Dismiss, Resolve, RequestsTyped
  <2>22. ASSUME NEW r \in Requests, RequestDies(r) PROVE RequestsTyped' /\ Rest'
    <3>1. RequestsTyped'
      BY <2>1, <2>22, EndTyped DEF RequestDies
    <3> QED
      BY <2>2, <2>22, <3>1 DEF RequestDies
  <2>23. CASE UNCHANGED videoVars
    BY <2>1, <2>2, <2>3, <2>23 DEF videoVars, RequestsTyped
  <2> HIDE DEF Rest
  <2> QED
    BY <2>3, <2>4, <2>5, <2>6, <2>7, <2>8, <2>9, <2>10, <2>11, <2>12, <2>13, <2>14,
       <2>15, <2>16, <2>17, <2>18, <2>19, <2>20, <2>21, <2>22, <2>23
       DEF Next, AuthorStep, ReviewStep, ReportStep
<1> QED
  BY <1>1, <1>2, PTL DEF Safety
-----------------------------------------------------------------------------
\* While a publication runs, its key is reserved by it alone and not yet done.
OnePublisher ==
    \A r \in Requests : req[r].op = "publish" =>
        /\ keys[req[r].key] = None
        /\ \A q \in Requests :
             req[q].op = "publish" /\ req[q].key = req[r].key => q = r

\* A key that is not done has published and answered nothing.
PublishInv == OnePublisher /\ PublishedOnce

\* One key, one publication, one answer, for any number of requests: the
\* unique key keeps every other request out until the transaction commits.
THEOREM KeyPublishesOnce == Safety => []PublishedOnce
<1>1. Init => PublishInv
  BY DEF Init, Idle, PublishInv, OnePublisher, PublishedOnce
<1>2. TypeOK /\ PublishInv /\ [Next]_videoVars => PublishInv'
  <2> SUFFICES ASSUME TypeOK, PublishInv, [Next]_videoVars PROVE PublishInv'
    OBVIOUS
  <2>1. RequestsTyped /\ keys \in [Keys -> Videos \union {None}]
    BY DEF TypeOK, RequestsTyped
  <2>2. OnePublisher /\ PublishedOnce
    BY DEF PublishInv
  <2> USE DEF publishVars
  <2>3. ASSUME publishVars' = publishVars, NEW r \in Requests,
               \A q \in Requests : q # r => req'[q] = req[q],
               req'[r] = req[r] \/ req'[r].op # "publish"
        PROVE  PublishInv'
    BY <2>2, <2>3 DEF PublishInv, OnePublisher, PublishedOnce
  <2>4. ASSUME NEW r \in Requests, End(r)
        PROVE  (\A q \in Requests : q # r => req'[q] = req[q]) /\ req'[r].op # "publish"
    BY <2>1, <2>4 DEF End, Idle, RequestsTyped
  <2>5. ASSUME NEW r \in Requests, NEW op \in Ops, NEW v, NEW k, NEW approved,
               Begin(r, op, v, k, approved), op # "publish"
        PROVE  (\A q \in Requests : q # r => req'[q] = req[q]) /\ req'[r].op # "publish"
    BY <2>1, <2>5 DEF Begin, RequestsTyped
  <2>6. ASSUME NEW r \in Requests, NEW k \in Keys, NEW d \in Videos \union {None},
               Publish(r, k, d)
        PROVE  PublishInv'
    <3>1. /\ \A q \in Requests : q # r => req'[q] = req[q]
          /\ req'[r].key = k
      BY <2>1, <2>6 DEF Publish, Begin, RequestsTyped
    <3>2. /\ keys[k] = None
          /\ \A q \in Requests : ~(req[q].op = "publish" /\ req[q].key = k)
      BY <2>6 DEF Publish, Reserved
    <3> QED
      BY <2>2, <2>6, <3>1, <3>2 DEF Publish, PublishInv, OnePublisher, PublishedOnce
  <2>7. ASSUME NEW r \in Requests, NEW v \in Videos, PublishCommit(r, v)
        PROVE  PublishInv'
    <3> DEFINE key == req[r].key
    <3>1. key \in Keys /\ keys[key] = None
      BY <2>1, <2>2, <2>7, TargetIsVideo DEF PublishCommit, OnePublisher
    <3>2. made[key] = 0 /\ answers[key] = {}
      BY <2>2, <3>1, NoneAssumption DEF PublishedOnce, TypeOK
    <3>3. /\ keys' = [keys EXCEPT ![key] = v]
          /\ made' = [made EXCEPT ![key] = 1]
          /\ answers' = [answers EXCEPT ![key] = {v}]
      BY <2>7, <3>1, <3>2 DEF PublishCommit, TypeOK
    <3>4. /\ \A q \in Requests : q # r => req'[q] = req[q]
          /\ req'[r].op # "publish"
      BY <2>4, <2>7 DEF PublishCommit
    <3>5. \A q \in Requests : q # r /\ req[q].op = "publish" => req[q].key # key
      BY <2>2, <2>7 DEF PublishCommit, OnePublisher
    <3> HIDE DEF key
    <3>6. PublishedOnce'
      BY <2>2, <3>1, <3>3, NoneAssumption DEF PublishedOnce, TypeOK
    <3>7. OnePublisher'
      BY <2>1, <2>2, <3>1, <3>3, <3>4, <3>5 DEF OnePublisher
    <3> QED
      BY <3>6, <3>7 DEF PublishInv
  <2>8. ASSUME NEW k \in Keys, PublishReplay(k) PROVE PublishInv'
    BY <2>2, <2>8 DEF PublishReplay, PublishInv, OnePublisher, PublishedOnce, TypeOK
  <2>9. ASSUME NEW r \in Requests, NEW d \in Videos \union {None}, SaveDraft(r, d)
        PROVE  PublishInv'
    BY <2>3, <2>5, <2>9 DEF SaveDraft, Ops
  <2>10. ASSUME NEW r \in Requests, NEW v \in Videos,
                \/ WriteDraft(r, v) \/ WriteUnpublished(r, v)
                \/ WriteRelisted(r, v) \/ WriteDeleted(r, v)
         PROVE  PublishInv'
    BY <2>3, <2>4, <2>10 DEF WriteDraft, WriteUnpublished, WriteRelisted, WriteDeleted
  <2>11. ASSUME NEW r \in Requests, NEW v \in Videos, AuthorAsks(r, v)
         PROVE  PublishInv'
    BY <2>3, <2>5, <2>11 DEF AuthorAsks, Ops
  <2>12. ASSUME NEW r \in Requests, NEW m \in audits, Machine(r, m) PROVE PublishInv'
    BY <2>3, <2>5, <2>12 DEF Machine, Ops
  <2>13. ASSUME NEW r \in Requests, NEW verdict,
                \/ MachineVerdict(r, verdict) \/ MachineFails(r)
                \/ ManualVerdict(r, verdict) \/ Accept(r) \/ RequestDies(r)
         PROVE  PublishInv'
    BY <2>3, <2>4, <2>13 DEF MachineVerdict, MachineFails, ManualVerdict, Accept, RequestDies
  <2>14. ASSUME NEW r \in Requests, NEW v \in Videos, Manual(r, v) \/ Takedown(r, v)
         PROVE  PublishInv'
    BY <2>3, <2>5, <2>14 DEF Manual, Takedown, Ops
  <2>15. ASSUME publishVars' = publishVars, req' = req PROVE PublishInv'
    BY <2>2, <2>15 DEF PublishInv, OnePublisher, PublishedOnce
  <2>16. ASSUME NEW p \in Reporters, NEW v \in Videos,
                LoadForReport(p, v) \/ Submit(p, v)
         PROVE  PublishInv'
    BY <2>15, <2>16 DEF LoadForReport, Submit
  <2>17. ASSUME NEW v \in Videos, Dismiss(v) PROVE PublishInv'
    BY <2>15, <2>17 DEF Dismiss
  <2>18. CASE UNCHANGED videoVars
    BY <2>15, <2>18 DEF videoVars
  <2> QED
    BY <2>6, <2>7, <2>8, <2>9, <2>10, <2>11, <2>12, <2>13, <2>14, <2>16, <2>17, <2>18
       DEF Next, AuthorStep, ReviewStep, ReportStep
<1>3. PublishInv => PublishedOnce
  BY DEF PublishInv
<1> QED
  BY <1>1, <1>2, <1>3, VideoTypeInvariant, PTL DEF Safety
-----------------------------------------------------------------------------
\* What is approved was announced, whoever can see it.
ApprovedAnnounced == \A v \in Videos : audit[v] = "approved" => v \in announced

\* A request that closes reports has taken their video down.
ClosesAfterRemoval == \A r \in Requests : req[r].op = "accept" => req[r].video \in removed

\* The trail, the status, the announcements and the removals fit together.
TrailInv ==
    /\ AuditExplains
    /\ ApprovedAnnounced
    /\ ClosesAfterRemoval
    /\ AcceptedWasRemoved

\* A verdict changes the status and what explains it together.
LEMMA ApplyKeepsTrail ==
    ASSUME TypeOK, AuditExplains, ApprovedAnnounced, NEW v \in Videos, NEW verdict,
           NEW by, Apply(v, verdict, by), auditOn' = auditOn,
           [to |-> verdict, by |-> by] # None
    PROVE  AuditExplains' /\ ApprovedAnnounced'
<1> DEFINE new == [to |-> verdict, by |-> by]
<1>1. /\ audit' = [audit EXCEPT ![v] = verdict]
      /\ record' = [record EXCEPT ![v] = new]
      /\ verdict = "approved" => announced' = announced \union {v}
      /\ verdict # "approved" => announced' = announced
  BY DEF Apply
<1>2. new.to = verdict /\ new # None
  OBVIOUS
<1> HIDE DEF new
<1>3. AuditExplains'
  BY <1>1, <1>2 DEF AuditExplains, TypeOK
<1>4. ApprovedAnnounced'
  BY <1>1 DEF ApprovedAnnounced, TypeOK
<1> QED
  BY <1>3, <1>4

\* In every interleaving of the author, the machine, reviewers and takedowns
\* the last row of the trail explains the status, an approved video was
\* announced, and only what was taken down has accepted reports.
THEOREM VideoTrail == Safety => [](AuditExplains /\ PublicWasAnnounced /\ AcceptedWasRemoved)
<1>1. Init => TrailInv
  BY DEF Init, Idle, TrailInv, AuditExplains, ApprovedAnnounced, ClosesAfterRemoval,
         AcceptedWasRemoved
<1>2. TypeOK /\ TrailInv /\ [Next]_videoVars => TrailInv'
  <2> SUFFICES ASSUME TypeOK, TrailInv, [Next]_videoVars PROVE TrailInv'
    OBVIOUS
  <2>1. RequestsTyped
    BY DEF TypeOK, RequestsTyped
  <2>2. AuditExplains /\ ApprovedAnnounced /\ ClosesAfterRemoval /\ AcceptedWasRemoved
    BY DEF TrailInv
  <2> USE DEF rowVars, trailVars
  <2> DEFINE Quiet ==
        \A q \in Requests : req'[q] = req[q] \/ req'[q].op # "accept"
  <2>3. ASSUME NEW r \in Requests, End(r) PROVE Quiet
    BY <2>1, <2>3 DEF End, Idle, RequestsTyped
  <2>4. ASSUME NEW r \in Requests, NEW op, NEW v, NEW k, NEW approved,
               Begin(r, op, v, k, approved), op # "accept"
        PROVE  Quiet
    BY <2>1, <2>4 DEF Begin, RequestsTyped
  <2>5. ASSUME Quiet, removed \subseteq removed' PROVE ClosesAfterRemoval'
    BY <2>2, <2>5 DEF ClosesAfterRemoval
  <2> HIDE DEF Quiet
  <2>6. ASSUME UNCHANGED <<auditOn, audit, record>>, announced \subseteq announced'
        PROVE  AuditExplains' /\ ApprovedAnnounced'
    BY <2>2, <2>6 DEF AuditExplains, ApprovedAnnounced
  <2>7. ASSUME UNCHANGED reports, removed \subseteq removed' PROVE AcceptedWasRemoved'
    BY <2>2, <2>7 DEF AcceptedWasRemoved
  <2>8. ASSUME NEW r \in Requests, NEW d \in Videos \union {None},
               SaveDraft(r, d) \/ \E k \in Keys : Publish(r, k, d)
        PROVE  TrailInv'
    BY <2>4, <2>5, <2>6, <2>7, <2>8 DEF Publish, SaveDraft, TrailInv
  <2>9. ASSUME NEW r \in Requests, NEW v \in Videos, PublishCommit(r, v)
        PROVE  TrailInv'
    <3>1. ClosesAfterRemoval' /\ AcceptedWasRemoved'
      BY <2>3, <2>5, <2>7, <2>9 DEF PublishCommit
    <3>2. /\ audit' = [audit EXCEPT ![v] = IF auditOn THEN "pending" ELSE "approved"]
          /\ UNCHANGED <<auditOn, record>>
          /\ announced \subseteq announced'
          /\ ~auditOn => v \in announced'
      BY <2>9 DEF PublishCommit
    <3>3. AuditExplains' /\ ApprovedAnnounced'
      BY <2>2, <3>2 DEF AuditExplains, ApprovedAnnounced, TypeOK
    <3> QED
      BY <3>1, <3>3 DEF TrailInv
  <2>10. ASSUME NEW k \in Keys, PublishReplay(k) PROVE TrailInv'
    BY <2>2, <2>6, <2>7, <2>10 DEF PublishReplay, ClosesAfterRemoval, TrailInv
  <2>11. ASSUME NEW r \in Requests, NEW v \in Videos, WriteDraft(r, v) PROVE TrailInv'
    <3>1. ClosesAfterRemoval' /\ AcceptedWasRemoved'
      BY <2>3, <2>5, <2>7, <2>11 DEF WriteDraft
    <3>2. AuditExplains' /\ ApprovedAnnounced'
      BY <2>2, <2>11 DEF WriteDraft, AuditExplains, ApprovedAnnounced, TypeOK
    <3> QED
      BY <3>1, <3>2 DEF TrailInv
  <2>12. ASSUME NEW r \in Requests, NEW v \in Videos, AuthorAsks(r, v) PROVE TrailInv'
    BY <2>4, <2>5, <2>6, <2>7, <2>12 DEF AuthorAsks, TrailInv
  <2>13. ASSUME NEW r \in Requests, NEW v \in Videos,
                WriteUnpublished(r, v) \/ WriteRelisted(r, v) \/ WriteDeleted(r, v)
         PROVE  TrailInv'
    BY <2>3, <2>5, <2>6, <2>7, <2>13
       DEF WriteUnpublished, WriteRelisted, WriteDeleted, TrailInv
  <2>14. ASSUME NEW r \in Requests, NEW m \in audits, Machine(r, m) PROVE TrailInv'
    <3>1. AuditExplains' /\ ApprovedAnnounced' /\ AcceptedWasRemoved'
      BY <2>6, <2>7, <2>14 DEF Machine
    <3>2. Quiet
      BY <2>4, <2>14 DEF Machine, Quiet
    <3> QED
      BY <2>5, <2>14, <3>1, <3>2 DEF Machine, TrailInv
  <2>15. ASSUME NEW r \in Requests, NEW verdict \in Verdicts,
                MachineVerdict(r, verdict) \/ ManualVerdict(r, verdict)
         PROVE  TrailInv'
    <3>1. req[r].video \in Videos
      BY <2>1, <2>15, TargetIsVideo DEF MachineVerdict, ManualVerdict
    <3>2. PICK by \in {"machine", "manual"} : Apply(req[r].video, verdict, by)
      BY <2>15 DEF MachineVerdict, ManualVerdict
    <3>3. [to |-> verdict, by |-> by] # None
      BY NoneAssumption DEF Verdicts
    <3>4. AuditExplains' /\ ApprovedAnnounced'
      BY <2>2, <2>15, <3>1, <3>2, <3>3, ApplyKeepsTrail DEF MachineVerdict, ManualVerdict
    <3>5. End(r) /\ UNCHANGED reports
      BY <2>15 DEF MachineVerdict, ManualVerdict
    <3>6. UNCHANGED removed
      BY <3>2 DEF Apply
    <3> QED
      BY <2>3, <2>5, <2>7, <3>4, <3>5, <3>6 DEF TrailInv
  <2>16. ASSUME NEW r \in Requests, MachineFails(r) \/ RequestDies(r) PROVE TrailInv'
    BY <2>3, <2>5, <2>6, <2>7, <2>16 DEF MachineFails, RequestDies, TrailInv
  <2>17. ASSUME NEW r \in Requests, NEW v \in Videos, Manual(r, v) PROVE TrailInv'
    BY <2>4, <2>5, <2>6, <2>7, <2>17 DEF Manual, TrailInv
  <2>18. ASSUME NEW p \in Reporters, NEW v \in Videos,
                LoadForReport(p, v) \/ Submit(p, v)
         PROVE  TrailInv'
    <3>1. AcceptedWasRemoved'
      BY <2>2, <2>18 DEF LoadForReport, Submit, AcceptedWasRemoved, TypeOK
    <3> QED
      BY <2>2, <2>6, <2>18, <3>1 DEF LoadForReport, Submit, ClosesAfterRemoval, TrailInv
  <2>19. ASSUME NEW r \in Requests, NEW v \in Videos, Takedown(r, v) PROVE TrailInv'
    <3> DEFINE new == [to |-> "rejected", by |-> "takedown"]
    <3>1. new # None /\ new.to = "rejected"
      BY NoneAssumption
    <3>2. /\ audit' = [audit EXCEPT ![v] = "rejected"]
          /\ record' = [record EXCEPT ![v] = new]
          /\ UNCHANGED <<auditOn, announced, reports>>
          /\ removed' = removed \union {v}
      BY <2>19 DEF Takedown
    <3>3. /\ \A q \in Requests : q # r => req'[q] = req[q]
          /\ req'[r].video = v
      BY <2>1, <2>19 DEF Takedown, Begin, RequestsTyped
    <3> HIDE DEF new
    <3>4. AuditExplains' /\ ApprovedAnnounced'
      BY <2>2, <3>1, <3>2 DEF AuditExplains, ApprovedAnnounced, TypeOK
    <3>5. ClosesAfterRemoval'
      BY <2>2, <3>2, <3>3 DEF ClosesAfterRemoval
    <3> QED
      BY <2>7, <3>2, <3>4, <3>5 DEF TrailInv
  <2>20. ASSUME NEW r \in Requests, Accept(r) PROVE TrailInv'
    <3>1. req[r].video \in removed
      BY <2>2, <2>20 DEF Accept, ClosesAfterRemoval
    <3>2. AcceptedWasRemoved'
      BY <2>2, <2>20, <3>1 DEF Accept, Resolve, AcceptedWasRemoved, TypeOK
    <3> QED
      BY <2>3, <2>5, <2>6, <2>20, <3>2 DEF Accept, TrailInv
  <2>21. ASSUME NEW v \in Videos, Dismiss(v) PROVE TrailInv'
    <3>1. AcceptedWasRemoved'
      BY <2>2, <2>21 DEF Dismiss, Resolve, AcceptedWasRemoved, TypeOK
    <3> QED
      BY <2>2, <2>6, <2>21, <3>1 DEF Dismiss, ClosesAfterRemoval, TrailInv
  <2>22. CASE UNCHANGED videoVars
    BY <2>2, <2>6, <2>7, <2>22 DEF videoVars, ClosesAfterRemoval, TrailInv
  <2>23. ASSUME NEW r \in Requests, AuthorStep(r) PROVE TrailInv'
    BY <2>8, <2>9, <2>11, <2>12, <2>13, <2>23 DEF AuthorStep
  <2>24. ASSUME NEW r \in Requests, ReviewStep(r) PROVE TrailInv'
    <3>1. {"approved", "rejected"} \subseteq Verdicts
      BY DEF Verdicts
    <3> QED
      BY <2>14, <2>15, <2>16, <2>17, <2>24, <3>1 DEF ReviewStep
  <2>25. ASSUME NEW r \in Requests, ReportStep(r) PROVE TrailInv'
    BY <2>19, <2>20, <2>25 DEF ReportStep
  <2> QED
    BY <2>10, <2>16, <2>18, <2>21, <2>22, <2>23, <2>24, <2>25 DEF Next
<1>3. TrailInv => AuditExplains /\ PublicWasAnnounced /\ AcceptedWasRemoved
  BY DEF TrailInv, ApprovedAnnounced, PublicWasAnnounced, Listed
<1> QED
  BY <1>1, <1>2, <1>3, VideoTypeInvariant, PTL DEF Safety

\* The last row of the trail explains the status of a video and nothing else
\* moved it (audit/service.go:98-140, video/lifecycle.go), and a report is
\* accepted only after its video was taken down (report/service.go:205-239).
THEOREM DecisionsAreExplained == Safety => []DecisionsExplained
<1>1. AuditExplains /\ PublicWasAnnounced /\ AcceptedWasRemoved => DecisionsExplained
  BY DEF DecisionsExplained
<1> QED BY <1>1, VideoTrail, PTL
-----------------------------------------------------------------------------
\* The UPDATE that closes reports takes pending ones only, so a decision made
\* before or at the same time stands.
THEOREM ClosedReportsStay == Safety => ClosedStaysClosed
<1>1. TypeOK /\ [Next]_videoVars =>
        [\A x \in Reporters \X Videos :
           reports[x] \in {"accepted", "dismissed"} => reports'[x] = reports[x]]_videoVars
  <2> SUFFICES ASSUME TypeOK, [Next]_videoVars, NEW x \in Reporters \X Videos,
                      reports[x] \in {"accepted", "dismissed"}
               PROVE  reports'[x] = reports[x]
    OBVIOUS
  <2>1. ASSUME NEW v \in Videos, NEW status, Resolve(v, status)
        PROVE  reports'[x] = reports[x]
    BY <2>1 DEF Resolve
  <2>2. ASSUME NEW p \in Reporters, NEW v \in Videos, LoadForReport(p, v) \/ Submit(p, v)
        PROVE  reports'[x] = reports[x]
    BY <2>2 DEF LoadForReport, Submit, TypeOK
  <2>3. ASSUME NEW r \in Requests, Accept(r) PROVE reports'[x] = reports[x]
    BY <2>3 DEF Accept, Resolve
  <2>4. ASSUME NEW v \in Videos, Dismiss(v) PROVE reports'[x] = reports[x]
    BY <2>1, <2>4 DEF Dismiss
  <2>5. ASSUME NEW r \in Requests, AuthorStep(r) PROVE reports' = reports
    BY <2>5 DEF AuthorStep, Publish, SaveDraft, PublishCommit, WriteDraft, AuthorAsks,
         WriteUnpublished, WriteRelisted, WriteDeleted
  <2>6. ASSUME NEW r \in Requests, ReviewStep(r) PROVE reports' = reports
    BY <2>6 DEF ReviewStep, Machine, MachineVerdict, MachineFails, Manual, ManualVerdict
  <2>7. ASSUME NEW r \in Requests, NEW v \in Videos, Takedown(r, v)
        PROVE  reports' = reports
    BY <2>7 DEF Takedown
  <2>8. ASSUME NEW r \in Requests, RequestDies(r) PROVE reports' = reports
    BY <2>8 DEF RequestDies
  <2>9. ASSUME NEW k \in Keys, PublishReplay(k) PROVE reports' = reports
    BY <2>9 DEF PublishReplay
  <2>10. CASE UNCHANGED videoVars
    BY <2>10 DEF videoVars
  <2> QED
    BY <2>2, <2>3, <2>4, <2>5, <2>6, <2>7, <2>8, <2>9, <2>10 DEF Next, ReportStep
<1> QED
  BY <1>1, VideoTypeInvariant, PTL DEF Safety, ClosedStaysClosed

\* No request writes deleted_at but Delete, and none clears it: a write decided
\* before the deletion leaves it alone.
THEOREM DeletedVideosStay == Safety => DeletedStays
<1>1. [Next]_videoVars => [deleted \subseteq deleted']_videoVars
  <2> SUFFICES ASSUME [Next]_videoVars PROVE deleted \subseteq deleted'
    OBVIOUS
  <2> USE DEF rowVars
  <2>1. ASSUME NEW r \in Requests, AuthorStep(r) PROVE deleted \subseteq deleted'
    BY <2>1 DEF AuthorStep, Publish, SaveDraft, PublishCommit, WriteDraft, AuthorAsks,
         WriteUnpublished, WriteRelisted, WriteDeleted
  <2>2. ASSUME NEW r \in Requests, ReviewStep(r) PROVE deleted' = deleted
    BY <2>2 DEF ReviewStep, Machine, MachineVerdict, MachineFails, Manual, ManualVerdict,
         Apply
  <2>3. ASSUME NEW r \in Requests, ReportStep(r) \/ RequestDies(r)
        PROVE  deleted' = deleted
    BY <2>3 DEF ReportStep, Takedown, Accept, RequestDies
  <2>4. ASSUME NEW k \in Keys, PublishReplay(k) PROVE deleted' = deleted
    BY <2>4 DEF PublishReplay
  <2>5. ASSUME NEW p \in Reporters, NEW v \in Videos,
               LoadForReport(p, v) \/ Submit(p, v)
        PROVE  deleted' = deleted
    BY <2>5 DEF LoadForReport, Submit
  <2>6. ASSUME NEW v \in Videos, Dismiss(v) PROVE deleted' = deleted
    BY <2>6 DEF Dismiss
  <2>7. CASE UNCHANGED videoVars
    BY <2>7 DEF videoVars
  <2> QED
    BY <2>1, <2>2, <2>3, <2>4, <2>5, <2>6, <2>7 DEF Next
<1> QED
  BY <1>1, PTL DEF Safety, DeletedStays
-----------------------------------------------------------------------------
(* Share codes (ShareCode.tla), for every alphabet of a power of two.     *)

\* Adding a multiple of Modulus does not change a remainder.
LEMMA AddMultiple ==
    ASSUME NEW a \in 0..mixMask, NEW b \in Int
    PROVE  (a + Modulus * b) % Modulus = a
<1>1. Modulus \in {128, 16384, 2097152, 268435456, 34359738368}
  BY SMT, ShareCodeAssumption DEF Modulus
<1> HIDE DEF Modulus
<1>2. a \in 0..Modulus - 1
  BY DEF mixMask
<1> QED BY SMT, <1>1, <1>2

\* Every number is its remainder and a multiple of Modulus.
LEMMA Quotient ==
    ASSUME NEW x \in Int
    PROVE  \E q \in Int : x = (x % Modulus) + Modulus * q /\ x % Modulus \in 0..mixMask
<1>1. Modulus \in {128, 16384, 2097152, 268435456, 34359738368}
  BY SMT, ShareCodeAssumption DEF Modulus
<1> HIDE DEF Modulus
<1>2. x = (x % Modulus) + Modulus * (x \div Modulus) /\ x % Modulus \in 0..Modulus - 1
  BY SMT, <1>1
<1>3. x \div Modulus \in Int
  BY SMT, <1>1
<1> QED BY <1>2, <1>3 DEF mixMask

\* Taking one symbol off a number: mixed & 31 and mixed >>= 5.
LEMMA OneSymbol ==
    ASSUME NEW x \in Nat, NEW B \in Nat \ {0}, x < B * Radix
    PROVE  /\ x \div Radix \in Nat /\ x \div Radix < B
           /\ x % Radix \in Symbols
           /\ x = (x \div Radix) * Radix + (x % Radix)
<1>1. CASE Radix = 2 BY <1>1 DEF Symbols
<1>2. CASE Radix = 4 BY <1>2 DEF Symbols
<1>3. CASE Radix = 8 BY <1>3 DEF Symbols
<1>4. CASE Radix = 16 BY <1>4 DEF Symbols
<1>5. CASE Radix = 32 BY <1>5 DEF Symbols
<1> QED BY <1>1, <1>2, <1>3, <1>4, <1>5, ShareCodeAssumption

\* The seven symbols EncodeShareCode writes are read back by DecodeShareCode's
\* loop as the number they were written from.
LEMMA ReadSpells ==
    ASSUME NEW n \in 0..mixMask
    PROVE  Read(Spell(n)) = n /\ Spell(n) \in Seq(Symbols) /\ Len(Spell(n)) = 7
<1> DEFINE r == Radix
           q6 == n \div r   q5 == q6 \div r  q4 == q5 \div r
           q3 == q4 \div r  q2 == q3 \div r  q1 == q2 \div r
           B1 == r  B2 == B1 * r  B3 == B2 * r  B4 == B3 * r  B5 == B4 * r  B6 == B5 * r
<1>1. r \in Nat \ {0}
  BY ShareCodeAssumption
<1>2. Modulus = B6 * r
  BY DEF Modulus
<1>3. B1 \in Nat \ {0} /\ B2 \in Nat \ {0} /\ B3 \in Nat \ {0}
      /\ B4 \in Nat \ {0} /\ B5 \in Nat \ {0} /\ B6 \in Nat \ {0}
  BY ShareCodeAssumption
<1>4. n \in Nat /\ n < B6 * r
  BY <1>2, <1>3, ShareCodeAssumption DEF mixMask
<1>5. Spell(n) = <<q1 % r, q2 % r, q3 % r, q4 % r, q5 % r, q6 % r, n % r>>
  BY DEF Spell
<1> HIDE DEF q1, q2, q3, q4, q5, q6, B1, B2, B3, B4, B5, B6
<1>6. /\ q6 \in Nat /\ q6 < B6 /\ n % r \in Symbols /\ n = q6 * r + (n % r)
  BY <1>3, <1>4, OneSymbol DEF q6
<1>7. /\ q5 \in Nat /\ q5 < B5 /\ q6 % r \in Symbols /\ q6 = q5 * r + (q6 % r)
  BY <1>3, <1>6, OneSymbol DEF q5, B6
<1>8. /\ q4 \in Nat /\ q4 < B4 /\ q5 % r \in Symbols /\ q5 = q4 * r + (q5 % r)
  BY <1>3, <1>7, OneSymbol DEF q4, B5
<1>9. /\ q3 \in Nat /\ q3 < B3 /\ q4 % r \in Symbols /\ q4 = q3 * r + (q4 % r)
  BY <1>3, <1>8, OneSymbol DEF q3, B4
<1>10. /\ q2 \in Nat /\ q2 < B2 /\ q3 % r \in Symbols /\ q3 = q2 * r + (q3 % r)
  BY <1>3, <1>9, OneSymbol DEF q2, B3
<1>11. /\ q1 \in Nat /\ q1 < B1 /\ q2 % r \in Symbols /\ q2 = q1 * r + (q2 % r)
  BY <1>3, <1>10, OneSymbol DEF q1, B2
<1>12. q1 % r = q1 /\ q1 \in Symbols
  BY <1>1, <1>11 DEF B1, Symbols
<1>13. Read(Spell(n)) = n
  <2>1. Read(Spell(n))
          = (((((q1 * r + (q2 % r)) * r + (q3 % r)) * r + (q4 % r)) * r + (q5 % r)) * r + (q6 % r))
               * r + (n % r)
    BY <1>5, <1>12 DEF Read
  <2> HIDE DEF r
  <2> QED BY <2>1, <1>6, <1>7, <1>8, <1>9, <1>10, <1>11
<1> HIDE DEF r
<1> QED BY <1>5, <1>6, <1>7, <1>8, <1>9, <1>10, <1>11, <1>12, <1>13

\* inv is an inverse of mixMultiplier up to multiples of D and of Word.
InverseUpTo(inv, D) ==
    inv \in Int /\ \E k, l \in Int : 1 - mixMultiplier * inv = D * k + Word * l

\* A step of mixInverse's iteration doubles the digits that are right: an
\* inverse modulo D becomes one modulo D squared, in spite of the wrap of uint64.
LEMMA NewtonDoubles ==
    ASSUME NEW D \in Int, NEW inv, InverseUpTo(inv, D)
    PROVE  InverseUpTo(Newton(inv), D * D)
<1>0. PICK k \in Int, l \in Int : inv \in Int /\ 1 - mixMultiplier * inv = D * k + Word * l
  BY DEF InverseUpTo
<1> DEFINE m == mixMultiplier  W == Word  x == inv * (2 - m * inv)
<1>1. m \in Int /\ W \in Int /\ W > 0
  BY ShareCodeAssumption
<1>2. x \in Int
  BY <1>0, <1>1
<1> DEFINE q == x \div W
<1>3. q \in Int /\ x = W * q + (x % W) /\ (x % W) \in Int
  <2> HIDE DEF x, W, m
  <2> QED BY <1>1, <1>2
<1>4. Newton(inv) = x - W * q
  <2>1. Newton(inv) = x % W BY DEF Newton
  <2> HIDE DEF x, W, m, q
  <2>2. W * q \in Int BY <1>1, <1>3
  <2> QED BY <2>1, <2>2, <1>2, <1>3
<1>5. 1 - m * x = (D * k + W * l) * (D * k + W * l)
  <2>1. 1 - m * x = (1 - m * inv) * (1 - m * inv)
    BY <1>0, <1>1
  <2> QED BY <2>1, <1>0
<1>6. 1 - m * (x - W * q) = (D * D) * (k * k) + W * (2 * D * k * l + W * l * l + m * q)
  <2>1. 1 - m * (x - W * q) = (1 - m * x) + W * (m * q)
    <3> HIDE DEF x, W, m, q
    <3> QED BY <1>0, <1>1, <1>2, <1>3
  <2>2. (D * k + W * l) * (D * k + W * l) = (D * D) * (k * k) + W * (2 * D * k * l + W * l * l)
    <3> HIDE DEF x, W, m, q
    <3> QED BY <1>0, <1>1
  <2>3. W * (2 * D * k * l + W * l * l) + W * (m * q) = W * (2 * D * k * l + W * l * l + m * q)
    <3> HIDE DEF x, W, m, q
    <3> QED BY <1>0, <1>1, <1>3
  <2> DEFINE p == (D * D) * (k * k)  a == W * (2 * D * k * l + W * l * l)  b == W * (m * q)
  <2>4. p \in Int /\ a \in Int /\ b \in Int
    <3> HIDE DEF x, W, m, q
    <3> QED BY <1>0, <1>1, <1>3
  <2>5. 1 - m * (x - W * q) = (p + a) + b
    BY <2>1, <2>2, <1>5
  <2>6. (p + a) + b = p + (a + b)
    <3> HIDE DEF p, a, b
    <3> QED BY <2>4
  <2> QED BY <2>3, <2>5, <2>6
<1>7. k * k \in Int /\ 2 * D * k * l + W * l * l + m * q \in Int
  BY <1>0, <1>1, <1>3
<1>8. Newton(inv) \in Int
  <2> HIDE DEF x, W, m, q
  <2> QED BY <1>1, <1>2, <1>3, <1>4
<1> QED BY <1>4, <1>6, <1>7, <1>8 DEF InverseUpTo

\* mixInverse is the inverse of mixMultiplier: three digits are right at the
\* start, and five steps are enough for all 35.
LEMMA InverseMixes == (mixMultiplier * mixInverse) % Modulus = 1
<1> DEFINE m == mixMultiplier
           i1 == Newton(m)  i2 == Newton(i1)  i3 == Newton(i2)  i4 == Newton(i3)  i5 == Newton(i4)
           D1 == 8 * 8  D2 == D1 * D1  D3 == D2 * D2  D4 == D3 * D3  D5 == D4 * D4
           R == Modulus
<1>0. R \in {128, 16384, 2097152, 268435456, 34359738368}
  BY SMT, ShareCodeAssumption DEF Modulus
<1>1. m \in Int /\ Word \in Int /\ R \in Nat \ {0}
  BY SMT, <1>0, ShareCodeAssumption
<1>2. PICK h \in Int : Word = R * h
  <2> HIDE DEF R
  <2>1. Word % R = 0 BY ShareCodeAssumption DEF R
  <2>2. Word = R * (Word \div R) /\ (Word \div R) \in Int
    BY SMT, <1>0, <1>1, <2>1
  <2> QED BY <2>2
<1>3. InverseUpTo(m, 8)
  <2>1. PICK j \in Int : m = 2 * j + 1
    <3>1. m = 2 * (m \div 2) + 1 /\ (m \div 2) \in Int BY ShareCodeAssumption
    <3> QED BY <3>1
  <2>2. PICK t \in Int : j * (j + 1) = 2 * t
    <3>1. CASE j % 2 = 0
      <4>1. PICK u \in Int : j = 2 * u
        <5>1. j = 2 * (j \div 2) /\ (j \div 2) \in Int BY <3>1
        <5> QED BY <5>1
      <4>2. j * (j + 1) = 2 * (u * (j + 1)) /\ u * (j + 1) \in Int BY <4>1
      <4> QED BY <4>2
    <3>2. CASE j % 2 = 1
      <4>1. PICK u \in Int : j + 1 = 2 * u
        <5>1. j + 1 = 2 * ((j \div 2) + 1) /\ (j \div 2) + 1 \in Int BY <3>2
        <5> QED BY <5>1
      <4>2. j * (j + 1) = 2 * (j * u) /\ j * u \in Int BY <4>1
      <4> QED BY <4>2
    <3> QED BY <3>1, <3>2
  <2>3. 1 - m * m = -4 * (j * (j + 1))
    BY <2>1
  <2>4. 1 - m * m = 8 * (-t) + Word * 0
    BY <2>2, <2>3, <1>1
  <2>5. -t \in Int /\ 0 \in Int OBVIOUS
  <2> QED BY <2>4, <2>5, <1>1 DEF InverseUpTo
<1> HIDE DEF i1, i2, i3, i4, i5, R, m
<1>4. InverseUpTo(i1, D1)
  BY <1>3, NewtonDoubles DEF i1
<1> HIDE DEF D1
<1>5. D1 = 64 BY DEF D1
<1>6. InverseUpTo(i2, D2)
  BY <1>4, <1>5, NewtonDoubles DEF i2
<1> HIDE DEF D2
<1>7. D2 \in Int BY <1>5 DEF D2
<1>8. InverseUpTo(i3, D3)
  BY <1>6, <1>7, NewtonDoubles DEF i3
<1> HIDE DEF D3
<1>9. D3 \in Int BY <1>7 DEF D3
<1>10. InverseUpTo(i4, D4)
  BY <1>8, <1>9, NewtonDoubles DEF i4
<1> HIDE DEF D4
<1>11. D4 \in Int BY <1>9 DEF D4
<1>12. InverseUpTo(i5, D5)
  BY <1>10, <1>11, NewtonDoubles DEF i5
<1>13. PICK g \in Int : D5 = R * g
  <2>1. D2 = 4096 BY SMT, <1>5 DEF D2
  <2>2. D3 = 16777216 BY SMT, <2>1 DEF D3
  <2>3. D4 = 281474976710656 BY SMT, <2>2 DEF D4
  <2>4. D5 = 281474976710656 * 281474976710656 BY SMT, <2>3
  <2>5. \E u \in Int : 281474976710656 = R * u
    <3>1. 281474976710656 = 128 * 2199023255552 /\ 281474976710656 = 16384 * 17179869184
          /\ 281474976710656 = 2097152 * 134217728 /\ 281474976710656 = 268435456 * 1048576
          /\ 281474976710656 = 34359738368 * 8192
      BY SMT
    <3> QED BY SMT, <3>1, <1>0
  <2>6. PICK u \in Int : 281474976710656 = R * u BY SMT, <2>5
  <2> DEFINE K == 281474976710656
  <2>7. K \in Int BY SMT
  <2>8. K = R * u /\ D5 = K * K BY SMT, <2>4, <2>6
  <2> HIDE DEF K, D5
  <2>9. K * K = R * (u * K) /\ u * K \in Int BY <2>7, <2>8, <1>1
  <2> QED BY <2>8, <2>9
<1> HIDE DEF D5
<1>19. i5 \in Int BY <1>12 DEF InverseUpTo
<1>14. PICK n \in Int : m * i5 = 1 + R * n
  <2>1. PICK k \in Int, l \in Int : 1 - m * i5 = D5 * k + Word * l BY <1>12 DEF InverseUpTo, m
  <2>2. 1 - m * i5 = R * (g * k + h * l)
    BY <2>1, <1>2, <1>13, <1>1
  <2>3. m * i5 = 1 + R * (-(g * k + h * l)) /\ -(g * k + h * l) \in Int
    BY <2>2, <1>1, <1>19, <1>2, <1>13
  <2> QED BY <2>3
<1>15. PICK q \in Int : i5 = mixInverse + R * q /\ mixInverse \in Int
  <2>1. mixInverse = i5 % R BY DEF mixInverse, i1, i2, i3, i4, i5, R, m
  <2>2. PICK q \in Int : i5 = (i5 % R) + R * q /\ (i5 % R) \in 0..mixMask
    BY <1>19, Quotient DEF R
  <2>3. (i5 % R) \in Int BY <2>2, <1>1 DEF mixMask, R
  <2> QED BY <2>1, <2>2, <2>3
<1>16. m * mixInverse = 1 + R * (n - m * q) /\ n - m * q \in Int
  BY <1>1, <1>14, <1>15
<1>17. (1 + R * (n - m * q)) % R = 1
  <2>1. 1 \in 0..mixMask BY SMT, <1>0 DEF mixMask, R
  <2> QED BY <2>1, <1>16, AddMultiple DEF R
<1> QED BY <1>16, <1>17 DEF m, R

\* Decoding's multiplication undoes encoding's.
LEMMA Unmixes ==
    ASSUME NEW id \in 0..mixMask
    PROVE  Mixed(id) \in 0..mixMask /\ Unmixed(Mixed(id)) = id
<1> DEFINE m == mixMultiplier  v == mixInverse  R == Modulus
<1>1. m \in Int /\ R \in Nat \ {0} /\ id \in Int
  BY ShareCodeAssumption DEF Modulus, mixMask
<1>2. v \in Int /\ \E n \in Int : m * v = 1 + R * n
  <2>1. v \in Int
    <3> DEFINE i5 == Newton(Newton(Newton(Newton(Newton(mixMultiplier)))))
    <3>1. \A i \in Int : Newton(i) \in Int
      <4> SUFFICES ASSUME NEW i \in Int PROVE Newton(i) \in Int OBVIOUS
      <4> DEFINE x == i * (2 - m * i)
      <4>1. x \in Int BY <1>1
      <4> HIDE DEF x
      <4>2. x % Word \in Int BY <4>1, ShareCodeAssumption
      <4> QED BY <4>2 DEF Newton, x
    <3>2. i5 \in Int BY <3>1, <1>1
    <3> HIDE DEF i5
    <3>3. i5 % R \in Int BY <3>2, <1>1
    <3> QED BY <3>3 DEF mixInverse, i5
  <2>2. m * v \in Int BY <2>1, <1>1
  <2>3. PICK n \in Int : m * v = ((m * v) % R) + R * n
    BY <2>2, Quotient
  <2> QED BY <2>1, <2>3, InverseMixes
<1>3. PICK n \in Int : m * v = 1 + R * n
  BY <1>2
<1>4. id * m \in Int
  BY <1>1
<1>5. PICK q \in Int : id * m = Mixed(id) + R * q /\ Mixed(id) \in 0..mixMask
  BY <1>4, Quotient DEF Mixed
<1> DEFINE x == Mixed(id)
<1>6. x \in Int
  BY <1>5, <1>1 DEF mixMask
<1> HIDE DEF x, m, v, R
<1>7. x * v = id + R * (id * n - q * v)
  <2>1. x = id * m - R * q BY <1>1, <1>5, <1>6 DEF x
  <2>2. x * v = id * (m * v) - R * (q * v) BY <2>1, <1>1, <1>2
  <2>3. id * (m * v) = id + R * (id * n) BY <1>1, <1>3
  <2>4. R * (id * n) - R * (q * v) = R * (id * n - q * v) BY <1>1, <1>2
  <2>5. R * (id * n) \in Int /\ R * (q * v) \in Int BY <1>1, <1>2
  <2> QED BY <2>2, <2>3, <2>4, <2>5, <1>1
<1>8. id * n - q * v \in Int
  BY <1>1, <1>2
<1>9. (x * v) % R = id
  BY <1>7, <1>8, AddMultiple DEF R
<1> QED BY <1>5, <1>9 DEF Unmixed, x, v, R

\* A checksum is a symbol of the alphabet.
LEMMA ChecksumIsSymbol ==
    ASSUME NEW v, \A i \in 1..7 : v[i] \in Int
    PROVE  shareChecksum(v) \in Symbols
<1> DEFINE n == v[1] + 3 * v[2] + 5 * v[3] + 7 * v[4] + 9 * v[5] + 11 * v[6] + 13 * v[7]
<1>1. v[1] \in Int /\ v[2] \in Int /\ v[3] \in Int /\ v[4] \in Int /\ v[5] \in Int
      /\ v[6] \in Int /\ v[7] \in Int
  OBVIOUS
<1>3. n \in Int
  BY <1>1
<1> HIDE DEF n
<1>2. n % Radix \in 0..Radix - 1
  BY <1>3, ShareCodeAssumption
<1> QED BY <1>2 DEF shareChecksum, Symbols, n

\* A sequence as a function, for the provers.
LEMMA SequenceIsFunction ==
    ASSUME NEW S, NEW v \in Seq(S)
    PROVE  v \in [1..Len(v) -> S] /\ Len(v) \in Nat
OBVIOUS

\* A function on 1..n is a sequence of that length.
LEMMA FunctionIsSequence ==
    ASSUME NEW S, NEW n \in Nat, NEW v \in [1..n -> S]
    PROVE  v \in Seq(S) /\ Len(v) = n
<1>1. v \in Seq(S) OBVIOUS
<1>2. Len(v) = n OBVIOUS
<1> QED BY <1>1, <1>2

\* What Append keeps and adds.
LEMMA AppendedSymbol ==
    ASSUME NEW S, NEW v \in Seq(S), NEW c \in S
    PROVE  /\ Append(v, c) \in Seq(S)
           /\ Len(Append(v, c)) = Len(v) + 1
           /\ Append(v, c)[Len(v) + 1] = c
           /\ \A i \in 1..Len(v) : Append(v, c)[i] = v[i]
OBVIOUS

\* normalizeShareCode leaves a code that has only symbols of the alphabet alone.
LEMMA NormalCode ==
    ASSUME NEW code \in [1..8 -> Symbols]
    PROVE  normalizeShareCode(code) = code
<1>1. \A i \in DOMAIN code : code[i] # LikeOne /\ code[i] # LikeZero
  <2>1. LikeOne \notin Symbols /\ LikeZero \notin Symbols
    BY ShareCodeAssumption DEF Symbols, LikeOne, LikeZero
  <2> QED BY <2>1
<1>2. normalizeShareCode(code) = [i \in DOMAIN code |-> code[i]]
  BY <1>1 DEF normalizeShareCode
<1> QED BY <1>2

\* The code of a video has eight symbols, is valid and spells its mixed id.
LEMMA EncodedCode ==
    ASSUME NEW videoID \in 1..mixMask
    PROVE  LET code == EncodeShareCode(videoID) IN
           code \in [1..8 -> Symbols] /\ Valid(code) /\ Read(code) = Mixed(videoID)
<1> DEFINE v == Spell(Mixed(videoID))  code == EncodeShareCode(videoID)
<1>1. Mixed(videoID) \in 0..mixMask
  BY Unmixes
<1>2. v \in Seq(Symbols) /\ Len(v) = 7 /\ Read(v) = Mixed(videoID)
  BY <1>1, ReadSpells
<1>3. code = Append(v, shareChecksum(v))
  BY DEF EncodeShareCode
<1> HIDE DEF v, code
<1>4. Symbols \subseteq Int
  BY ShareCodeAssumption DEF Symbols
<1>5. shareChecksum(v) \in Symbols
  <2>1. v \in [1..Len(v) -> Symbols] BY <1>2, SequenceIsFunction, Zenon
  <2>2. \A i \in 1..7 : v[i] \in Symbols BY <2>1, <1>2
  <2> QED BY <2>2, <1>4, ChecksumIsSymbol
<1>6. /\ Len(code) = 8 /\ code[8] = shareChecksum(v) /\ code \in [1..8 -> Symbols]
      /\ \A i \in 1..7 : code[i] = v[i]
  <2>1. /\ code \in Seq(Symbols) /\ Len(code) = Len(v) + 1
        /\ code[Len(v) + 1] = shareChecksum(v)
        /\ \A i \in 1..Len(v) : code[i] = v[i]
    <3> DEFINE c == shareChecksum(v)
    <3> HIDE DEF c
    <3>1. c \in Symbols /\ v \in Seq(Symbols) BY <1>2, <1>5 DEF c
    <3>2. /\ Append(v, c) \in Seq(Symbols)
          /\ Len(Append(v, c)) = Len(v) + 1
          /\ Append(v, c)[Len(v) + 1] = c
          /\ \A i \in 1..Len(v) : Append(v, c)[i] = v[i]
      BY <3>1, AppendedSymbol
    <3>3. code = Append(v, c) BY <1>3 DEF c
    <3> QED BY <3>2, <3>3, Zenon DEF c
  <2>2. code \in [1..Len(code) -> Symbols]
    BY <2>1, SequenceIsFunction, Zenon
  <2> QED BY <1>2, <2>1, <2>2
<1>7. shareChecksum(code) = shareChecksum(v) /\ Read(code) = Read(v)
  BY <1>6 DEF shareChecksum, Read
<1>8. Valid(code)
  <2>1. shareCodeLength = 8 BY DEF shareCodeLength, shareCodePayloadLen
  <2>2. \A i \in 1..8 : code[i] \in Symbols BY <1>6
  <2> QED BY <2>1, <2>2, <1>6, <1>7 DEF Valid
<1> QED BY <1>2, <1>6, <1>7, <1>8 DEF code

\* Every video that has a share code is the video its code is resolved to: the
\* claim of EncodeShareCode and DecodeShareCode, which the comment on mixInverse
\* leaves to Newton's iteration.
THEOREM ShareCodesComeBack ==
    \A videoID \in 1..mixMask : DecodeShareCode(EncodeShareCode(videoID)) = videoID
<1> SUFFICES ASSUME NEW videoID \in 1..mixMask
             PROVE  DecodeShareCode(EncodeShareCode(videoID)) = videoID
  OBVIOUS
<1> DEFINE code == EncodeShareCode(videoID)
<1>1. code \in [1..8 -> Symbols] /\ Valid(code) /\ Read(code) = Mixed(videoID)
  BY EncodedCode
<1> HIDE DEF code
<1>2. normalizeShareCode(code) = code
  BY <1>1, NormalCode
<1>3. Unmixed(Mixed(videoID)) = videoID
  BY Unmixes
<1> QED BY <1>1, <1>2, <1>3 DEF DecodeShareCode, code

\* An odd weight times a difference of two symbols is no multiple of Radix: why
\* shareChecksum's weights must be odd.
LEMMA OddWeights ==
    ASSUME NEW d \in Int, d # 0, -Radix < d, d < Radix
    PROVE  \A w \in {1, 3, 5, 7, 9, 11, 13} : (w * d) % Radix # 0
<1>1. CASE Radix = 2 BY <1>1
<1>2. CASE Radix = 4 BY <1>2
<1>3. CASE Radix = 8 BY <1>3
<1>4. CASE Radix = 16 BY <1>4
<1>5. CASE Radix = 32 BY <1>5
<1> QED BY <1>1, <1>2, <1>3, <1>4, <1>5, ShareCodeAssumption

\* Two sums leave the same remainder iff Radix divides their difference.
LEMMA SameRemainder ==
    ASSUME NEW a \in Int, NEW b \in Int
    PROVE  a % Radix = b % Radix <=> (b - a) % Radix = 0
<1>1. CASE Radix = 2 BY <1>1
<1>2. CASE Radix = 4 BY <1>2
<1>3. CASE Radix = 8 BY <1>3
<1>4. CASE Radix = 16 BY <1>4
<1>5. CASE Radix = 32 BY <1>5
<1> QED BY <1>1, <1>2, <1>3, <1>4, <1>5, ShareCodeAssumption

\* Another symbol in one place gives another checksum.
LEMMA ChangedSymbol ==
    ASSUME NEW c \in [1..8 -> Symbols], NEW i \in 1..7, NEW s \in Symbols, s # c[i]
    PROVE  shareChecksum([c EXCEPT ![i] = s]) # shareChecksum(c)
<1> DEFINE n(v) == v[1] + 3 * v[2] + 5 * v[3] + 7 * v[4] + 9 * v[5] + 11 * v[6] + 13 * v[7]
           d == s - c[i]  e == [c EXCEPT ![i] = s]
<1>1. /\ \A j \in 1..7 : c[j] \in Int /\ e[j] \in Int
      /\ d \in Int /\ d # 0 /\ -Radix < d /\ d < Radix
  BY ShareCodeAssumption DEF Symbols
<1>2. /\ e[i] = c[i] + d
      /\ \A j \in 1..7 : j # i => e[j] = c[j]
  BY <1>1
<1> HIDE DEF d, e
<1>3. \E w \in {1, 3, 5, 7, 9, 11, 13} : n(e) - n(c) = w * d
  <2>0. /\ c[1] \in Int /\ c[2] \in Int /\ c[3] \in Int /\ c[4] \in Int
        /\ c[5] \in Int /\ c[6] \in Int /\ c[7] \in Int
    BY <1>1
  <2>1. CASE i = 1 BY <2>0, <2>1, <1>1, <1>2
  <2>2. CASE i = 2 BY <2>0, <2>2, <1>1, <1>2
  <2>3. CASE i = 3 BY <2>0, <2>3, <1>1, <1>2
  <2>4. CASE i = 4 BY <2>0, <2>4, <1>1, <1>2
  <2>5. CASE i = 5 BY <2>0, <2>5, <1>1, <1>2
  <2>6. CASE i = 6 BY <2>0, <2>6, <1>1, <1>2
  <2>7. CASE i = 7 BY <2>0, <2>7, <1>1, <1>2
  <2> QED BY <2>1, <2>2, <2>3, <2>4, <2>5, <2>6, <2>7
<1>4. n(c) \in Int /\ n(e) \in Int
  BY <1>1
<1> HIDE DEF n
<1>5. n(c) % Radix # n(e) % Radix
  <2>1. PICK w \in {1, 3, 5, 7, 9, 11, 13} : n(e) - n(c) = w * d
    BY <1>3
  <2>2. (w * d) % Radix # 0
    BY <1>1, OddWeights
  <2> QED BY <2>1, <2>2, <1>4, SameRemainder
<1> QED BY <1>5 DEF shareChecksum, n, e

\* A code with any one symbol wrong, the check symbol included, is refused and
\* never opens another video, as shareChecksum's comment promises.
THEOREM WrongSymbolIsRefused ==
    \A videoID \in 1..mixMask, i \in 1..8, s \in Symbols :
        LET code == EncodeShareCode(videoID) IN
        s # code[i] => DecodeShareCode([code EXCEPT ![i] = s]) = NoVideo
<1> SUFFICES ASSUME NEW videoID \in 1..mixMask, NEW i \in 1..8, NEW s \in Symbols,
                    s # EncodeShareCode(videoID)[i]
             PROVE  DecodeShareCode([EncodeShareCode(videoID) EXCEPT ![i] = s]) = NoVideo
  OBVIOUS
<1> DEFINE code == EncodeShareCode(videoID)  wrong == [code EXCEPT ![i] = s]
<1>1. code \in [1..8 -> Symbols] /\ Valid(code)
  BY EncodedCode
<1> HIDE DEF code
<1>2. wrong \in [1..8 -> Symbols] /\ s # code[i]
  BY <1>1 DEF code
<1>3. normalizeShareCode(wrong) = wrong
  BY <1>2, NormalCode
<1>4. wrong[8] # shareChecksum(wrong)
  <2>1. code[8] = shareChecksum(code)
    BY <1>1 DEF Valid, shareCodeLength, shareCodePayloadLen
  <2>2. CASE i = 8
    <3>1. wrong[8] = s /\ \A j \in 1..7 : wrong[j] = code[j] BY <2>2, <1>1
    <3>2. shareChecksum(wrong) = shareChecksum(code) BY <3>1 DEF shareChecksum
    <3> QED BY <3>1, <3>2, <2>1, <2>2, <1>2
  <2>3. CASE i \in 1..7
    <3>1. wrong[8] = code[8] BY <2>3, <1>1
    <3>2. shareChecksum(wrong) # shareChecksum(code) BY <2>3, <1>1, <1>2, ChangedSymbol
    <3> QED BY <3>1, <3>2, <2>1
  <2> QED BY <2>2, <2>3
<1> HIDE DEF wrong
<1>5. ~Valid(wrong)
  BY <1>4 DEF Valid, shareCodeLength, shareCodePayloadLen
<1>6. DecodeShareCode(wrong) = NoVideo
  BY <1>3, <1>5 DEF DecodeShareCode
<1> QED BY <1>6 DEF wrong, code

\* Two neighbouring symbols of the payload in the wrong order are noticed unless
\* twice their difference is a multiple of Radix: they are equal or, in an
\* alphabet of 32, exactly 16 apart, the blind spot that shareChecksum's comment
\* admits, and no other.
THEOREM SwapIsSeenUnlessHalfApart ==
    \A videoID \in 1..mixMask, i \in 1..6 :
        LET code == EncodeShareCode(videoID)
            swapped == [code EXCEPT ![i] = code[i + 1], ![i + 1] = code[i]]
        IN Valid(swapped) <=> (2 * (code[i + 1] - code[i])) % Radix = 0
<1> SUFFICES ASSUME NEW videoID \in 1..mixMask, NEW i \in 1..6
             PROVE  LET code == EncodeShareCode(videoID)
                        swapped == [code EXCEPT ![i] = code[i + 1], ![i + 1] = code[i]]
                    IN Valid(swapped) <=> (2 * (code[i + 1] - code[i])) % Radix = 0
  OBVIOUS
<1> DEFINE code == EncodeShareCode(videoID)
           swapped == [code EXCEPT ![i] = code[i + 1], ![i + 1] = code[i]]
           n(v) == v[1] + 3 * v[2] + 5 * v[3] + 7 * v[4] + 9 * v[5] + 11 * v[6] + 13 * v[7]
           d == code[i + 1] - code[i]
<1>1. code \in [1..8 -> Symbols] /\ code[8] = shareChecksum(code)
  BY EncodedCode DEF Valid, shareCodeLength, shareCodePayloadLen
<1> HIDE DEF code
<1>2. /\ swapped \in [1..8 -> Symbols] /\ swapped[8] = code[8]
      /\ swapped[i] = code[i + 1] /\ swapped[i + 1] = code[i]
      /\ \A j \in 1..8 : j # i /\ j # i + 1 => swapped[j] = code[j]
  BY <1>1
<1> HIDE DEF swapped
<1>3. Symbols \subseteq Int
  BY ShareCodeAssumption DEF Symbols
<1>4. \A j \in 1..8 : code[j] \in Int /\ swapped[j] \in Int
  BY <1>1, <1>2, <1>3
<1>5. n(code) - n(swapped) = 2 * d
  <2>1. CASE i = 1 BY <2>1, <1>2, <1>4
  <2>2. CASE i = 2 BY <2>2, <1>2, <1>4
  <2>3. CASE i = 3 BY <2>3, <1>2, <1>4
  <2>4. CASE i = 4 BY <2>4, <1>2, <1>4
  <2>5. CASE i = 5 BY <2>5, <1>2, <1>4
  <2>6. CASE i = 6 BY <2>6, <1>2, <1>4
  <2> QED BY <2>1, <2>2, <2>3, <2>4, <2>5, <2>6
<1>6. n(code) \in Int /\ n(swapped) \in Int
  BY <1>4
<1> HIDE DEF n, d
<1>7. n(swapped) % Radix = n(code) % Radix <=> (2 * d) % Radix = 0
  <2> DEFINE a == n(swapped)  b == n(code)
  <2>1. a % Radix = b % Radix <=> (b - a) % Radix = 0
    BY <1>6, SameRemainder
  <2>2. b - a = 2 * d
    BY <1>5
  <2> HIDE DEF a, b
  <2>3. a % Radix = b % Radix <=> (2 * d) % Radix = 0
    BY <2>1, <2>2
  <2> QED BY <2>3 DEF a, b
<1>8. Valid(swapped) <=> swapped[8] = shareChecksum(swapped)
  <2>1. swapped \in Seq(Symbols) /\ Len(swapped) = 8
    <3>1. 8 \in Nat /\ swapped \in [1..8 -> Symbols] BY <1>2
    <3> QED BY <3>1, FunctionIsSequence, ZenonT(40)
  <2> QED BY <2>1, <1>2 DEF Valid, shareCodeLength, shareCodePayloadLen
<1>9. Valid(swapped) <=> (2 * d) % Radix = 0
  BY <1>1, <1>2, <1>7, <1>8 DEF shareChecksum, n
<1> QED BY <1>9 DEF d, swapped, code
=============================================================================
