----------------------------- MODULE PublishPage -----------------------------
(***************************************************************************)
(* The publish composer (frontend/src/views/VideoView.vue) over one visit, *)
(* and what the server does with its requests (video/service.go,           *)
(* lifecycle.go).                                                          *)
(*                                                                         *)
(*   pick a file -> prepareMedia: upload -> task -> ready -> silent draft  *)
(*     -> commitPublish, when it was asked for meanwhile                   *)
(*   publish -> now if the media is ready, or after preparing it           *)
(*                                                                         *)
(* A run of prepareMedia names the media it makes, and a file is named     *)
(* after the run that first uploads it.  A form version stands for title,  *)
(* description and tags; version 0 has no title.                           *)
(***************************************************************************)
EXTENDS Integers, Sequences, FiniteSets

CONSTANTS
    MaxRuns,        \* bound: runs of prepareMedia
    MaxForms,       \* bound: versions of the form
    MaxSaves,       \* bound: requests to save a draft
    MaxPublishes,   \* bound: requests to publish
    Stored          \* the media of the draft that an earlier visit left

ASSUME StoredAssumption == MaxRuns \in Nat /\ Stored = MaxRuns + 1
ASSUME RequestsAssumption == MaxForms \in Nat /\ MaxSaves \in Nat /\ MaxPublishes \in Nat

VARIABLES
    composer,           \* the refs of the component
    forms,          \* versions of the form so far
    preparing,      \* every run of prepareMedia
    posts,          \* every request, and what the server has done with it
    works           \* rows of videos

pageVars == <<composer, forms, preparing, posts, works>>

Runs == 1..MaxRuns
MaxPosts == MaxSaves + MaxPublishes
Of(op, ps) == Cardinality({i \in DOMAIN ps : ps[i].op = op})
User == 0                  \* who waits for a request, if not a run
OnLeave == MaxRuns + 1
Media == 0..Stored
Busy == {"uploading", "processing", "publishing"}
Row(m, life) == [media |-> m, life |-> life]

PageTypeOK ==
    /\ composer \in [at : {"closed", "loading", "open", "leaving", "left"},
                 phase : {"idle", "ready", "failed", "done"} \union Busy,
                 file : 0..MaxRuns, ready : Media, draft : 0..Len(works),
                 key : 0..MaxPosts, asked : BOOLEAN, form : 0..MaxForms,
                 run : 0..MaxRuns, saving : BOOLEAN]
    /\ forms \in 0..MaxForms
    /\ \A r \in DOMAIN preparing : preparing[r] \in
         [pc : {"upload", "wait", "draft", "end"}, aborted : BOOLEAN]
    /\ \A i \in DOMAIN posts : posts[i] \in
         [op : {"draft", "publish"}, by : {User, OnLeave} \union Runs, key : 0..MaxPosts,
          media : Media \ {0}, form : 0..MaxForms, file : 0..MaxRuns, draft : 0..Len(works),
          pc : {"sent", "done", "refused"}, row : 0..Len(works), heard : BOOLEAN,
          alone : BOOLEAN]
    /\ \A w \in DOMAIN works : works[w].media \in Media /\ works[w].life \in {"draft", "published"}

PageInit ==
    /\ composer = [at |-> "closed", phase |-> "idle", file |-> 0, ready |-> 0, draft |-> 0,
               key |-> 0, asked |-> FALSE, form |-> 0, run |-> 0, saving |-> FALSE]
    /\ forms = 0 /\ preparing = <<>> /\ posts = <<>>
    /\ works = <<Row(Stored, "draft")>>

Locked == composer.phase \in {"publishing", "done"}
Here == composer.at \in {"loading", "open", "leaving"}

\* abortInFlight: the controller is that of the latest run, if any.
Aborted(rs, r) ==
    [i \in DOMAIN rs |->
       IF i = r /\ rs[i].pc \in {"upload", "wait"} THEN [rs[i] EXCEPT !.aborted = TRUE] ELSE rs[i]]
Ended(r) == [preparing EXCEPT ![r] = [pc |-> "end", aborted |-> FALSE]]

\* History: "file", the file that was picked; "alone", no other publication
\* was out, and the run that publishes was not overtaken.
NewPost(op, by, p) ==
    [op |-> op, by |-> by, media |-> p.ready, draft |-> p.draft,
     key |-> IF op = "draft" THEN 0 ELSE p.key, form |-> IF op = "draft" THEN 0 ELSE p.form,
     file |-> IF op = "draft" THEN 0 ELSE p.file,
     alone |-> \/ op = "draft"
               \/ /\ by \in {User, p.run}
                  /\ \A i \in DOMAIN posts : posts[i].op = "publish" => posts[i].heard,
     pc |-> "sent", row |-> 0, heard |-> FALSE]

NewKey(ps) == Len(ps) + 1     \* one that no request has had
\* The watcher of the form and the file drops the request key.
Changed(p) == [p EXCEPT !.key = 0]
-----------------------------------------------------------------------------
(* The page opens, with a draft of the account hub or without.              *)

OpenPage ==
    /\ composer.at = "closed"
    /\ \E at \in {"open", "loading"} : composer' = [composer EXCEPT !.at = at]
    /\ UNCHANGED <<forms, preparing, posts, works>>

\* The detail of the draft arrives, whatever the user has done meanwhile, or
\* it is no draft any more, or the answer is lost.
DraftLoaded ==
    /\ composer.at = "loading" /\ forms < MaxForms
    /\ works[1].life = "draft"
    /\ composer' = Changed([composer EXCEPT !.at = "open", !.phase = "ready", !.ready = Stored,
                                            !.draft = 1, !.form = forms + 1])
    /\ forms' = forms + 1
    /\ UNCHANGED <<preparing, posts, works>>

DraftNotLoaded ==
    /\ composer.at = "loading"
    /\ composer' = [composer EXCEPT !.at = "open"]
    /\ UNCHANGED <<forms, preparing, posts, works>>
-----------------------------------------------------------------------------
(* The user.                                                                *)

Edit ==
    /\ Here /\ ~Locked /\ forms < MaxForms
    /\ forms' = forms + 1
    /\ composer' = Changed([composer EXCEPT !.form = forms + 1])
    /\ UNCHANGED <<preparing, posts, works>>

\* prepareMedia starts: the run before it is cancelled and overtaken.
Prepare(p) ==
    LET r == Len(preparing) + 1 IN
      /\ r \in Runs
      /\ preparing' = Append(Aborted(preparing, composer.run),
                             [pc |-> "upload", aborted |-> FALSE])
      /\ composer' = [p EXCEPT !.run = r, !.ready = 0, !.phase = "uploading"]

AcceptFile ==
    /\ Here /\ ~Locked
    /\ Prepare(Changed([composer EXCEPT !.asked = FALSE, !.file = Len(preparing) + 1]))
    /\ UNCHANGED <<forms, posts, works>>

ClearVideo ==
    /\ Here /\ ~Locked
    /\ preparing' = Aborted(preparing, composer.run)
    /\ LET p == IF composer.file = 0 THEN composer ELSE Changed(composer) IN
         composer' = [p EXCEPT !.run = 0, !.file = 0, !.ready = 0, !.asked = FALSE, !.phase = "idle"]
    /\ UNCHANGED <<forms, posts, works>>

Cancel ==
    /\ Here /\ composer.phase \in {"uploading", "processing"}
    /\ preparing' = Aborted(preparing, composer.run)
    /\ composer' = [composer EXCEPT !.asked = FALSE]
    /\ UNCHANGED <<forms, posts, works>>

\* commitPublish(m) by a run or the user, with the page p and the requests ps:
\* without a title it only withdraws the wish.
Commit(p, ps, by, m) ==
    CASE p.phase \in {"publishing", "done"} -> composer' = p /\ posts' = ps
      [] p.phase \notin {"publishing", "done"} /\ p.form = 0 ->
           composer' = [p EXCEPT !.asked = FALSE] /\ posts' = ps
      [] OTHER ->
           LET key == IF p.key = 0 THEN NewKey(ps) ELSE p.key IN
             /\ Of("publish", ps) < MaxPublishes
             /\ composer' = [p EXCEPT !.phase = "publishing", !.key = key]
             /\ posts' = Append(ps, NewPost("publish", by, [p EXCEPT !.key = key, !.ready = m]))

\* The publish button.  A composer with a draft and no file asks for a file.
OnPublish ==
    /\ Here /\ ~Locked /\ composer.form > 0 /\ composer.file # 0
    /\ LET p == [composer EXCEPT !.asked = TRUE] IN
         CASE p.phase = "ready" /\ p.ready # 0 ->
                Commit(p, posts, User, p.ready) /\ UNCHANGED preparing
           [] p.phase \in Busy -> composer' = p /\ UNCHANGED <<preparing, posts>>
           [] OTHER -> Prepare(p) /\ UNCHANGED posts
    /\ UNCHANGED <<forms, works>>

\* persistDraft: one at a time.
PersistDraft(p, by) ==
    /\ Of("draft", posts) < MaxSaves
    /\ composer' = [p EXCEPT !.saving = TRUE]
    /\ posts' = Append(posts, NewPost("draft", by, p))

OnSaveDraft ==
    /\ Here /\ ~Locked /\ ~composer.saving /\ composer.ready # 0
    /\ PersistDraft(composer, User)
    /\ UNCHANGED <<forms, preparing, works>>

StartAnother ==
    /\ Here /\ composer.phase = "done"
    /\ preparing' = Aborted(preparing, composer.run)
    /\ composer' = [composer EXCEPT !.run = 0, !.draft = 0, !.form = 0, !.file = 0, !.ready = 0,
                            !.asked = FALSE, !.phase = "idle", !.key = 0]
    /\ UNCHANGED <<forms, posts, works>>

\* Ready media are saved before the page is left; other work is cancelled
\* when the user confirms.  The component is unmounted.
Left(p) == [p EXCEPT !.at = "left", !.run = 0]

LeavePage ==
    /\ composer.at \in {"loading", "open"}
    /\ IF composer.phase = "ready" /\ composer.ready # 0 /\ ~composer.saving
         THEN PersistDraft([composer EXCEPT !.at = "leaving"], OnLeave) /\ UNCHANGED preparing
         ELSE /\ composer' = Left(composer)
              /\ preparing' = Aborted(preparing, composer.run)
              /\ UNCHANGED posts
    /\ UNCHANGED <<forms, works>>
-----------------------------------------------------------------------------
(* What prepareMedia waits for.  A run that was overtaken changes nothing.  *)

\* The media are ready: the draft is saved without asking, or the publication
\* that was asked for begins.
Ready(r) ==
    LET p == [composer EXCEPT !.ready = r, !.phase = "ready"] IN
      CASE p.asked -> Commit(p, posts, r, r) /\ preparing' = Ended(r)
        [] ~p.asked /\ ~p.saving ->
             PersistDraft(p, r) /\ preparing' = [preparing EXCEPT ![r].pc = "draft"]
        [] OTHER -> composer' = p /\ preparing' = Ended(r) /\ UNCHANGED posts

RunOvertaken(r) == r # composer.run /\ preparing' = Ended(r) /\ UNCHANGED <<composer, posts>>

\* The upload is complete: an abort is not noticed any more.
UploadEnds(r) ==
    /\ preparing[r].pc = "upload"
    /\ \/ RunOvertaken(r)
       \/ r = composer.run /\ Ready(r)
       \/ /\ r = composer.run
          /\ composer' = [composer EXCEPT !.phase = "processing"]
          /\ preparing' = [preparing EXCEPT ![r].pc = "wait"]
          /\ UNCHANGED posts
    /\ UNCHANGED <<forms, works>>

TranscodeEnds(r) ==
    /\ preparing[r].pc = "wait"
    /\ RunOvertaken(r) \/ (r = composer.run /\ Ready(r))
    /\ UNCHANGED <<forms, works>>

\* A part, the completion, a poll or the transcode fails, or time is up.
Fails(r) ==
    /\ preparing[r].pc \in {"upload", "wait"}
    /\ \/ RunOvertaken(r)
       \/ /\ r = composer.run
          /\ composer' = [composer EXCEPT !.phase = "failed", !.asked = FALSE]
          /\ preparing' = Ended(r) /\ UNCHANGED posts
    /\ UNCHANGED <<forms, works>>

Cancelled(r) ==
    /\ preparing[r].pc \in {"upload", "wait"} /\ preparing[r].aborted
    /\ \/ RunOvertaken(r)
       \/ /\ r = composer.run
          /\ composer' = [composer EXCEPT !.phase = "idle", !.ready = 0]
          /\ preparing' = Ended(r) /\ UNCHANGED posts
    /\ UNCHANGED <<forms, works>>
-----------------------------------------------------------------------------
(* The server.                                                              *)

DraftsOf(m) == {w \in DOMAIN works : works[w] = Row(m, "draft")}
Highest(s) == CHOOSE w \in s : \A x \in s : x <= w
\* The draft a request names by id, or that of its play_url; or none.
Found(q) == IF q.draft # 0 THEN q.draft
            ELSE IF DraftsOf(q.media) = {} THEN 0 ELSE Highest(DraftsOf(q.media))
NoDraft(w) == w # 0 /\ works[w].life # "draft"

\* The row w, or a new one, takes the media.
Write(w, m, life) ==
    works' = IF w = 0 THEN Append(works, Row(m, life)) ELSE [works EXCEPT ![w] = Row(m, life)]
RowOf(w) == IF w = 0 THEN Len(works) + 1 ELSE w
Served(i, pc, w) == posts' = [posts EXCEPT ![i].pc = pc, ![i].row = w]

\* SaveDraft, whose read and write have nothing in between here (Video tells
\* them apart).
ServeDraft(i) ==
    LET q == posts[i]
        w == Found(q)
    IN /\ q.op = "draft" /\ q.pc = "sent"
       /\ IF NoDraft(w) THEN Served(i, "refused", 0) /\ UNCHANGED works
          ELSE Write(w, q.media, "draft") /\ Served(i, "done", RowOf(w))
       /\ UNCHANGED <<composer, forms, preparing>>

PublishedPosts == {i \in DOMAIN posts : posts[i].op = "publish" /\ posts[i].pc = "done"}

\* The hash of a request leaves the draft out.
SameContent(p, q) == p.media = q.media /\ p.form = q.form

\* Publish is one transaction: the key's first request publishes, a later one
\* with the same content is answered with its row.
ServePublish(i) ==
    LET q == posts[i]
        first == {j \in PublishedPosts : posts[j].key = q.key}
        w == Found(q)
    IN /\ q.op = "publish" /\ q.pc = "sent"
       /\ \/ /\ first # {}
             /\ \E j \in first :
                  IF SameContent(posts[j], q)
                    THEN Served(i, "done", posts[j].row) ELSE Served(i, "refused", 0)
             /\ UNCHANGED works
          \/ first = {} /\ NoDraft(w) /\ Served(i, "refused", 0) /\ UNCHANGED works
          \/ /\ first = {} /\ ~NoDraft(w)
             /\ Write(w, q.media, "published") /\ Served(i, "done", RowOf(w))
       /\ UNCHANGED <<composer, forms, preparing>>
-----------------------------------------------------------------------------
(* The answers.  One that was lost is heard as a failure, before or after   *)
(* the server has done its work.                                            *)

Hears(i, how) ==
    /\ ~posts[i].heard
    /\ how \in {"ok", "failure"} /\ (how = "ok" => posts[i].pc = "done")

\* What waited for the draft goes on: the run publishes if it was asked to
\* meanwhile, without looking whether it was overtaken; the page is left.
DraftAnswered(i, how) ==
    LET q == posts[i]
        p == [composer EXCEPT !.saving = FALSE, !.draft = IF how = "ok" THEN q.row ELSE @]
        heard == [posts EXCEPT ![i].heard = TRUE]
    IN /\ q.op = "draft" /\ Hears(i, how)
       /\ CASE q.by \in Runs /\ p.asked ->
                 Commit(p, heard, q.by, q.media) /\ preparing' = Ended(q.by)
            [] q.by \in Runs /\ ~p.asked ->
                 composer' = p /\ preparing' = Ended(q.by) /\ posts' = heard
            [] q.by = OnLeave ->
                 composer' = Left(p) /\ preparing' = Aborted(preparing, composer.run) /\ posts' = heard
            [] OTHER -> composer' = p /\ posts' = heard /\ UNCHANGED preparing
       /\ UNCHANGED <<forms, works>>

\* A failed attempt forgets its key.
PublishForgets(i, how) ==
    /\ posts[i].op = "publish" /\ Hears(i, how)
    /\ composer' = IF how = "ok"
                 THEN [composer EXCEPT !.draft = 0, !.key = 0, !.asked = FALSE, !.phase = "done"]
                 ELSE [composer EXCEPT !.key = 0, !.asked = FALSE, !.phase = "ready"]
    /\ posts' = [posts EXCEPT ![i].heard = TRUE]
    /\ UNCHANGED <<forms, preparing, works>>

PublishAnswered(i, how) ==
    /\ posts[i].op = "publish" /\ Hears(i, how)
    /\ composer' = IF how = "ok"
                 THEN [composer EXCEPT !.draft = 0, !.key = 0, !.asked = FALSE, !.phase = "done"]
                 ELSE [composer EXCEPT !.asked = FALSE, !.phase = "ready"]
    /\ posts' = [posts EXCEPT ![i].heard = TRUE]
    /\ UNCHANGED <<forms, preparing, works>>
-----------------------------------------------------------------------------
PageNext ==
    \/ OpenPage \/ DraftLoaded \/ DraftNotLoaded
    \/ Edit \/ AcceptFile \/ ClearVideo \/ Cancel \/ OnPublish \/ OnSaveDraft
    \/ StartAnother \/ LeavePage
    \/ \E r \in DOMAIN preparing : UploadEnds(r) \/ TranscodeEnds(r) \/ Fails(r) \/ Cancelled(r)
    \/ \E i \in DOMAIN posts :
         \/ ServeDraft(i) \/ ServePublish(i)
         \/ \E how \in {"ok", "failure"} : DraftAnswered(i, how) \/ PublishAnswered(i, how)

PageSafety == PageInit /\ [][PageNext]_pageVars
-----------------------------------------------------------------------------
\* "the workflow waits for ready URLs and then publishes once"
\* (.spec/frontend/video-ui/spec.md): as long as one publication is out at a
\* time and none is of media that the user has replaced (prepareMedia goes on
\* after persistDraft without comparing its run), the same form with the same
\* file and media never becomes two works, however answers are lost, the button
\* is pressed again, drafts of the media are saved meanwhile and requests are
\* served late.
RetryPublishesOnce ==
    (\A i \in DOMAIN posts : posts[i].op = "publish" => posts[i].alone) =>
      \A i, j \in PublishedPosts :
        posts[i].form = posts[j].form /\ posts[i].file = posts[j].file
          /\ posts[i].media = posts[j].media => posts[i].row = posts[j].row
=============================================================================
