------------------------------- MODULE Video -------------------------------
(***************************************************************************)
(* The videos of one author (video/service.go, video/lifecycle.go,         *)
(* audit/service.go, report/service.go): drafts, idempotent publishing,    *)
(* unpublishing, relisting and deletion by the author, review by machine   *)
(* and by people, reports and takedowns.                                   *)
(*                                                                         *)
(* Every operation reads the row first and writes single columns of it by  *)
(* primary key later, without a condition: the read and the write are two  *)
(* steps of a request, and other requests come in between.                 *)
(***************************************************************************)
EXTENDS Naturals, FiniteSets

CONSTANTS
    Videos,       \* rows of videos, in the order of their creation
    Keys,         \* idempotency keys of publish requests
    Requests,     \* HTTP requests and audit messages served at the same time
    Reporters,
    MaxDrafts,    \* maxDraftsPerAuthor
    None          \* no video, no key, no record

ASSUME VideosAssumption == Videos \subseteq Nat
ASSUME NoneAssumption ==
    None \notin Videos \union Keys \union [to : {"approved", "rejected", "reviewing"},
                                           by : {"machine", "manual", "takedown"}]

VARIABLES
    auditOn,     \* audit.enabled of the deployment
    life,        \* lifecycle of every row; "none": not inserted yet
    audit,       \* audit_status
    deleted,     \* deleted_at is set
    record,      \* the last row of the audit trail of every video
    keys,        \* the video an idempotency key is done with
    reports,     \* content_reports, by reporter and video; "seen": no report
                 \* yet, but the reporter was served the video's detail
    audits,      \* audit.requested in the outbox or the queue: <<video, key>>
    req,         \* what every request is doing, and what it has read
    made,        \* history: publications committed per key
    answers,     \* history: videos that publish requests were answered with
    announced,   \* history: videos with public-release events in the outbox
    removed,     \* history: videos that were taken down
    dead         \* videos whose audit message was dead-lettered

rowVars == <<life, audit, deleted>>
trailVars == <<record, announced, removed>>
publishVars == <<keys, made, answers>>
queueVars == <<audits, dead>>
videoVars == <<auditOn, rowVars, trailVars, publishVars, queueVars, reports, req>>

Verdicts == {"approved", "rejected", "reviewing"}
Records == [to : Verdicts, by : {"machine", "manual", "takedown"}]
Ops == {"idle", "publish", "draft", "unpublish", "relist", "delete", "machine",
        "manual", "accept"}
Idle == [op |-> "idle", video |-> None, key |-> None, approved |-> FALSE]

TypeOK ==
    /\ auditOn \in BOOLEAN
    /\ life \in [Videos -> {"none", "draft", "published", "unpublished"}]
    /\ audit \in [Videos -> Verdicts \union {"pending"}]
    /\ deleted \in SUBSET Videos
    /\ record \in [Videos -> Records \union {None}]
    /\ keys \in [Keys -> Videos \union {None}]
    /\ reports \in [Reporters \X Videos ->
                      {"none", "seen", "pending", "accepted", "dismissed"}]
    /\ audits \in SUBSET (Videos \X Keys)
    /\ req \in [Requests -> [op : Ops, video : Videos \union {None},
                             key : Keys \union {None}, approved : BOOLEAN]]
    /\ \A r \in Requests :
         req[r].op \notin {"idle", "publish", "draft"} => req[r].video # None
    /\ \A r \in Requests : req[r].op \in {"publish", "machine"} => req[r].key # None
    /\ made \in [Keys -> Nat]
    /\ answers \in [Keys -> SUBSET Videos]
    /\ announced \in SUBSET Videos /\ removed \in SUBSET Videos /\ dead \in SUBSET Videos

Init ==
    /\ auditOn \in BOOLEAN
    /\ life = [v \in Videos |-> "none"]
    /\ audit = [v \in Videos |-> "pending"]
    /\ deleted = {}
    /\ record = [v \in Videos |-> None]
    /\ keys = [k \in Keys |-> None]
    /\ reports = [x \in Reporters \X Videos |-> "none"]
    /\ audits = {}
    /\ req = [r \in Requests |-> Idle]
    /\ made = [k \in Keys |-> 0]
    /\ answers = [k \in Keys |-> {}]
    /\ announced = {} /\ removed = {} /\ dead = {}
-----------------------------------------------------------------------------
Drafts == {v \in Videos : life[v] = "draft" /\ v \notin deleted}

\* ownedMutable: what the author can still act on.
Owned(v) == life[v] # "none" /\ v \notin deleted

\* IsPubliclyListed.
Listed(v) == life[v] = "published" /\ audit[v] = "approved" /\ v \notin deleted

\* The row the next insert gets.
NewRow == {v \in Videos : life[v] = "none" /\ \A u \in Videos : u < v => life[u] # "none"}

\* The row request r works on: the one it found, or a new one.
Target(r) == IF req[r].video = None THEN NewRow ELSE {req[r].video}

Begin(r, op, v, k, approved) ==
    /\ req[r] = Idle
    /\ req' = [req EXCEPT ![r] =
                 [op |-> op, video |-> v, key |-> k, approved |-> approved]]

End(r) == req' = [req EXCEPT ![r] = Idle]
-----------------------------------------------------------------------------
(* Publishing.  The unique key of idempotency_keys makes a second request    *)
(* with the same key wait for the transaction of the first.                  *)

Reserved(k) == \E r \in Requests : req[r].op = "publish" /\ req[r].key = k

\* The key is looked up, and not reserved by an insert.
PublishUnreserved(r, k, d) ==
    /\ keys[k] = None
    /\ d \in Drafts \union {None}
    /\ Begin(r, "publish", d, k, FALSE)
    /\ UNCHANGED <<auditOn, rowVars, trailVars, publishVars, queueVars, reports>>

\* The transaction reserves the key and finds the draft to promote, by id or
\* by play_url, or none.
Publish(r, k, d) ==
    /\ keys[k] = None /\ ~Reserved(k)
    /\ d \in Drafts \union {None}
    /\ Begin(r, "publish", d, k, FALSE)
    /\ UNCHANGED <<auditOn, rowVars, trailVars, publishVars, queueVars, reports>>

\* The video is published and nobody is asked to review it.
PublishUnasked(r, v) ==
    /\ req[r].op = "publish" /\ v \in Target(r)
    /\ life' = [life EXCEPT ![v] = "published"]
    /\ audit' = [audit EXCEPT ![v] = IF auditOn THEN "pending" ELSE "approved"]
    /\ announced' = IF auditOn THEN announced ELSE announced \union {v}
    /\ LET k == req[r].key IN
         /\ keys' = [keys EXCEPT ![k] = v]
         /\ made' = [made EXCEPT ![k] = @ + 1]
         /\ answers' = [answers EXCEPT ![k] = @ \union {v}]
    /\ End(r)
    /\ UNCHANGED <<auditOn, deleted, record, removed, queueVars, reports>>

\* It creates the video or promotes the draft, asks for a review or announces
\* it, and commits with the key done.
PublishCommit(r, v) ==
    /\ req[r].op = "publish" /\ v \in Target(r)
    /\ life' = [life EXCEPT ![v] = "published"]
    /\ audit' = [audit EXCEPT ![v] = IF auditOn THEN "pending" ELSE "approved"]
    /\ LET k == req[r].key IN
         /\ IF auditOn
              THEN audits' = audits \union {<<v, k>>} /\ UNCHANGED announced
              ELSE announced' = announced \union {v} /\ UNCHANGED audits
         /\ keys' = [keys EXCEPT ![k] = v]
         /\ made' = [made EXCEPT ![k] = @ + 1]
         /\ answers' = [answers EXCEPT ![k] = @ \union {v}]
    /\ End(r)
    /\ UNCHANGED <<auditOn, deleted, record, removed, dead, reports>>

\* A later request with the key is answered with what the first has stored.
PublishReplay(k) ==
    /\ keys[k] # None
    /\ answers' = [answers EXCEPT ![k] = @ \union {keys[k]}]
    /\ UNCHANGED <<auditOn, rowVars, trailVars, keys, made, queueVars, reports, req>>
-----------------------------------------------------------------------------
(* The author.  Reads that find nothing to do end the request.               *)

\* SaveDraft finds the draft by id or play_url, or counts before it adds one.
SaveDraft(r, d) ==
    /\ \/ d \in Drafts
       \/ d = None /\ Cardinality(Drafts) < MaxDrafts
    /\ Begin(r, "draft", d, None, FALSE)
    /\ UNCHANGED <<auditOn, rowVars, trailVars, publishVars, queueVars, reports>>

WriteDraft(r, v) ==
    /\ req[r].op = "draft" /\ v \in Target(r)
    /\ life' = [life EXCEPT ![v] = "draft"]
    /\ audit' = [audit EXCEPT ![v] = "pending"]
    /\ End(r)
    /\ UNCHANGED <<auditOn, deleted, trailVars, publishVars, queueVars, reports>>

\* Unpublish, Relist and Delete have read the row.
AuthorAsks(r, v) ==
    /\ Owned(v)
    /\ \/ life[v] = "published" /\ Begin(r, "unpublish", v, None, FALSE)
       \/ life[v] = "unpublished" /\ Begin(r, "relist", v, None, audit[v] = "approved")
       \/ Begin(r, "delete", v, None, FALSE)
    /\ UNCHANGED <<auditOn, rowVars, trailVars, publishVars, queueVars, reports>>

WriteUnpublished(r, v) ==
    /\ req[r].op = "unpublish" /\ req[r].video = v
    /\ life' = [life EXCEPT ![v] = "unpublished"]
    /\ End(r)
    /\ UNCHANGED <<auditOn, audit, deleted, trailVars, publishVars, queueVars, reports>>

\* A relisted video is announced if it was approved when it was read.
WriteRelisted(r, v) ==
    /\ req[r].op = "relist" /\ req[r].video = v
    /\ life' = [life EXCEPT ![v] = "published"]
    /\ announced' = IF req[r].approved THEN announced \union {v} ELSE announced
    /\ End(r)
    /\ UNCHANGED <<auditOn, audit, deleted, record, removed, publishVars, queueVars, reports>>

WriteDeleted(r, v) ==
    /\ req[r].op = "delete" /\ req[r].video = v
    /\ deleted' = deleted \union {v}
    /\ End(r)
    /\ UNCHANGED <<auditOn, life, audit, trailVars, publishVars, queueVars, reports>>
-----------------------------------------------------------------------------
(* Review.  The worker of audit.requested and the reviewers' endpoint are    *)
(* there only if review is enabled.                                          *)

\* The release events left to the caller, who publishes them after the commit.
ApplySilently(v, verdict, by) ==
    /\ audit' = [audit EXCEPT ![v] = verdict]
    /\ record' = [record EXCEPT ![v] = [to |-> verdict, by |-> by]]
    /\ UNCHANGED <<life, deleted, announced, removed>>

\* apply: status, trail and, for an approval, the release events commit
\* together.
Apply(v, verdict, by) ==
    /\ audit' = [audit EXCEPT ![v] = verdict]
    /\ record' = [record EXCEPT ![v] = [to |-> verdict, by |-> by]]
    /\ announced' = IF verdict = "approved" THEN announced \union {v} ELSE announced
    /\ UNCHANGED <<life, deleted, removed>>

\* The ack may be lost, and the message comes again.
Ack(m) == audits' = audits \ {m} \/ UNCHANGED audits

\* ModerateVideo loads the video; one with a final verdict is left alone.
Machine(r, m) ==
    /\ auditOn /\ m \in audits
    /\ IF audit[m[1]] \in {"approved", "rejected"}
         THEN req[r] = Idle /\ Ack(m) /\ UNCHANGED req
         ELSE Begin(r, "machine", m[1], m[2], FALSE) /\ UNCHANGED audits
    /\ UNCHANGED <<auditOn, rowVars, trailVars, publishVars, dead, reports>>

\* The moderators have answered, or one failed and people must look at it.
MachineVerdict(r, verdict) ==
    /\ req[r].op = "machine"
    /\ Apply(req[r].video, verdict, "machine")
    /\ Ack(<<req[r].video, req[r].key>>)
    /\ End(r)
    /\ UNCHANGED <<auditOn, publishVars, dead, reports>>

\* The database fails: the message is dead-lettered.
MachineFails(r) ==
    /\ req[r].op = "machine"
    /\ audits' = audits \ {<<req[r].video, req[r].key>>}
    /\ dead' = dead \union {req[r].video}
    /\ End(r)
    /\ UNCHANGED <<auditOn, rowVars, trailVars, publishVars, reports>>

\* ManualReview takes what has no final verdict.
Manual(r, v) ==
    /\ auditOn /\ life[v] # "none"
    /\ audit[v] \in {"pending", "reviewing"}
    /\ Begin(r, "manual", v, None, FALSE)
    /\ UNCHANGED <<auditOn, rowVars, trailVars, publishVars, queueVars, reports>>

ManualVerdict(r, verdict) ==
    /\ req[r].op = "manual"
    /\ Apply(req[r].video, verdict, "manual")
    /\ End(r)
    /\ UNCHANGED <<auditOn, publishVars, queueVars, reports>>
-----------------------------------------------------------------------------
(* Reports.                                                                  *)

PendingReports(v) == {p \in Reporters : reports[<<p, v>>] = "pending"}

\* LoadForReport finds a public video, in the database or in a cache that read
\* it earlier: the insert comes any time after it.
LoadForReport(p, v) ==
    /\ Listed(v) /\ reports[<<p, v>>] = "none"
    /\ reports' = [reports EXCEPT ![<<p, v>>] = "seen"]
    /\ UNCHANGED <<auditOn, rowVars, trailVars, publishVars, queueVars, req>>

\* Submit: the unique key keeps a second report of this reporter out.
Submit(p, v) ==
    /\ reports[<<p, v>>] = "seen"
    /\ reports' = [reports EXCEPT ![<<p, v>>] = "pending"]
    /\ UNCHANGED <<auditOn, rowVars, trailVars, publishVars, queueVars, req>>

\* ResolveTarget: the pending reports of the video.
Resolve(v, status) ==
    reports' = [x \in Reporters \X Videos |->
                  IF x[2] = v /\ reports[x] = "pending" THEN status ELSE reports[x]]

\* The status written, and no row of the trail.
TakedownUnrecorded(r, v) ==
    /\ life[v] # "none"
    /\ Begin(r, "accept", v, None, FALSE)
    /\ audit' = [audit EXCEPT ![v] = "rejected"]
    /\ removed' = removed \union {v}
    /\ UNCHANGED <<auditOn, life, deleted, record, announced, publishVars, queueVars,
                   reports>>

\* A decision on reports, or one on the administration page without any,
\* takes the video down ...
Takedown(r, v) ==
    /\ life[v] # "none"
    /\ Begin(r, "accept", v, None, FALSE)
    /\ audit' = [audit EXCEPT ![v] = "rejected"]
    /\ record' = [record EXCEPT ![v] = [to |-> "rejected", by |-> "takedown"]]
    /\ removed' = removed \union {v}
    /\ UNCHANGED <<auditOn, life, deleted, announced, publishVars, queueVars, reports>>

\* ... and closes the reports in a statement of its own.
Accept(r) ==
    /\ req[r].op = "accept"
    /\ Resolve(req[r].video, "accepted")
    /\ End(r)
    /\ UNCHANGED <<auditOn, rowVars, trailVars, publishVars, queueVars>>

\* Handle with a dismissal.  The count that must not be zero is read before;
\* the UPDATE sees for itself which reports are still pending.
Dismiss(v) ==
    /\ PendingReports(v) # {}
    /\ Resolve(v, "dismissed")
    /\ UNCHANGED <<auditOn, rowVars, trailVars, publishVars, queueVars, req>>
-----------------------------------------------------------------------------
\* The request fails, is rolled back, or its process dies.
RequestDies(r) ==
    /\ req[r] # Idle
    /\ End(r)
    /\ UNCHANGED <<auditOn, rowVars, trailVars, publishVars, queueVars, reports>>

AuthorStep(r) ==
    \/ \E k \in Keys, d \in Videos \union {None} : Publish(r, k, d)
    \/ \E d \in Videos \union {None} : SaveDraft(r, d)
    \/ \E v \in Videos :
         \/ PublishCommit(r, v) \/ WriteDraft(r, v) \/ AuthorAsks(r, v)
         \/ WriteUnpublished(r, v) \/ WriteRelisted(r, v) \/ WriteDeleted(r, v)

ReviewStep(r) ==
    \/ \E m \in audits : Machine(r, m)
    \/ \E verdict \in Verdicts : MachineVerdict(r, verdict)
    \/ MachineFails(r)
    \/ \E v \in Videos : Manual(r, v)
    \/ \E verdict \in {"approved", "rejected"} : ManualVerdict(r, verdict)

ReportStep(r) ==
    \/ \E v \in Videos : Takedown(r, v)
    \/ Accept(r)

Next ==
    \/ \E r \in Requests : AuthorStep(r) \/ ReviewStep(r) \/ ReportStep(r) \/ RequestDies(r)
    \/ \E k \in Keys : PublishReplay(k)
    \/ \E p \in Reporters, v \in Videos : LoadForReport(p, v) \/ Submit(p, v)
    \/ \E v \in Videos : Dismiss(v)

(***************************************************************************)
(* The audit worker is restarted and gets the message again until it is    *)
(* acked; no request lasts forever.                                        *)
(***************************************************************************)
Fairness ==
    /\ \A v \in Videos :
         /\ SF_videoVars(\E r \in Requests, m \in audits : m[1] = v /\ Machine(r, m))
         /\ SF_videoVars(\E r \in Requests, verdict \in Verdicts :
                           req[r].video = v /\ MachineVerdict(r, verdict))
    /\ \A r \in Requests : WF_videoVars(RequestDies(r))

Safety == Init /\ [][Next]_videoVars
Spec == Safety /\ Fairness
-----------------------------------------------------------------------------
\* "Publish creates a video exactly once for the same idempotency key": one
\* publication is committed per key, and every request with the key is
\* answered with its video, however many of them run at the same time.
PublishedOnce ==
    \A k \in Keys :
        /\ made[k] = IF keys[k] = None THEN 0 ELSE 1
        /\ answers[k] \subseteq {keys[k]}

\* "No state change exists without an explanation of who or what caused it"
\* (.spec/backend/video/spec.md): while review is enabled, a status other
\* than pending is the last verdict of the trail, whatever reviewers, the
\* machine and takedowns do at the same time as the author.
AuditExplains ==
    auditOn => \A v \in Videos :
        audit[v] # "pending" => record[v] # None /\ record[v].to = audit[v]

\* What people can see was handed to timeline, popularity and embedding: no
\* order of approval, unpublishing and relisting makes a video public that
\* has never been announced (audit/service.go: "approved but not in the
\* feed").
PublicWasAnnounced == \A v \in Videos : Listed(v) => v \in announced

\* "Removal happens before the notices are closed": a report is accepted only
\* if its video was taken down, also when the process dies in between.
AcceptedWasRemoved ==
    \A p \in Reporters, v \in Videos : reports[<<p, v>>] = "accepted" => v \in removed

\* Both together: what review and reports have decided is what was done, in
\* the order the service promises, whoever dies or decides in between
\* (audit/service.go:223-252, report/service.go:205-239).
DecisionsExplained == AuditExplains /\ AcceptedWasRemoved

\* "Notices already closed by an earlier decision are never rewritten by a
\* later one", by two reviewers deciding at the same time either.
ClosedStaysClosed ==
    [][\A x \in Reporters \X Videos :
         reports[x] \in {"accepted", "dismissed"} => reports'[x] = reports[x]]_videoVars

\* A deleted video does not come back with a write that was decided before
\* the deletion.
DeletedStays == [][deleted \subseteq deleted']_videoVars

\* The review a publication asks for ends in the trail, or its message in the
\* dead letters: no crash, lost ack or operation of the author in between loses
\* it.  (That the verdict still stands then is more than the code promises: a
\* draft saved late puts the video back to pending, without a new request.)
Reviewed ==
    \A v \in Videos :
        auditOn /\ (\E k \in Keys : keys[k] = v) ~> record[v] # None \/ v \in dead

\* "What people have decided is no longer overwritten by the machine"
\* (audit/service.go:100).
HumanVerdictStands ==
    [][\A v \in Videos :
         /\ record[v] # None /\ record[v].by # "machine"
         /\ audit[v] \in {"approved", "rejected"}
         => record'[v] = record[v] \/ record'[v].by # "machine"]_videoVars
=============================================================================
