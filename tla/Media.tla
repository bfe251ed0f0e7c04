------------------------------- MODULE Media -------------------------------
(***************************************************************************)
(* Uploads and their transcode tasks (media/service.go, media/repo.go,     *)
(* worker/media_worker.go, the check in video/service.go:Publish).         *)
(*                                                                         *)
(*   multipart upload or whole file -> source object -> media task and its *)
(*     event, one transaction -> outbox, once or more often -> MediaWorker: *)
(*     download, transcode, cover, video -> ready or failed -> source      *)
(*     removed -> ack                                                      *)
(*                                                                         *)
(* A worker looks at the status of the task once, before it works for      *)
(* minutes.  A second copy of the event, or one that a lost channel gives  *)
(* back, starts another worker on the task meanwhile, and both write to    *)
(* the object keys of the task.                                            *)
(***************************************************************************)
EXTENDS Naturals

CONSTANTS
    MediaTasks,      \* uploads; each has one task at most
    MediaWorkers,
    NoTask,
    MaxTranscodeEvents   \* bound: copies of one event that the outbox publishes

ASSUME MaxTranscodeEventsAssumption == MaxTranscodeEvents \in Nat

VARIABLES
    upload,          \* of every upload: "none", "open", "assembled", "closed"
    source,          \* source objects in the upload bucket
    task,            \* media_tasks.status, "none" before there is a row
    mediaQueue,      \* of every task: copies of its event that wait
    mediaSent,       \* of every task: copies that the outbox has published
    mediaSeen,       \* processed_messages of "media-worker"
    mediaDead,       \* dead-letter queue
    objects,         \* of every task: its objects in the media bucket
    published,       \* tasks whose URLs a video row refers to
    job,             \* what every worker does
    overlapped       \* history: tasks begun while another worker worked on them

uploadVars == <<upload, published>>
taskVars == <<source, task, mediaSeen>>
brokerVars == <<mediaQueue, mediaSent, mediaDead>>
mediaVars == <<uploadVars, taskVars, brokerVars, objects, job, overlapped>>

JobIdle == [pc |-> "idle", t |-> NoTask, owns |-> FALSE]

MediaTypeOK ==
    /\ upload \in [MediaTasks -> {"none", "open", "assembled", "closed"}]
    /\ source \in SUBSET MediaTasks
    /\ task \in [MediaTasks -> {"none", "processing", "ready", "failed"}]
    /\ mediaQueue \in [MediaTasks -> Nat] /\ mediaSent \in [MediaTasks -> 0..MaxTranscodeEvents]
    /\ mediaSeen \in SUBSET MediaTasks
    /\ mediaDead \in SUBSET MediaTasks
    /\ objects \in [MediaTasks -> SUBSET {"cover", "video"}]
    /\ published \in SUBSET MediaTasks
    /\ job \in [MediaWorkers ->
         [pc : {"idle", "download", "cover", "video", "ready", "failed", "clean", "ack"},
          t : MediaTasks \union {NoTask}, owns : BOOLEAN]]
    /\ overlapped \in SUBSET MediaTasks

MediaInit ==
    /\ upload = [t \in MediaTasks |-> "none"] /\ source = {}
    /\ task = [t \in MediaTasks |-> "none"]
    /\ mediaQueue = [t \in MediaTasks |-> 0] /\ mediaSent = [t \in MediaTasks |-> 0]
    /\ mediaSeen = {} /\ mediaDead = {}
    /\ objects = [t \in MediaTasks |-> {}] /\ published = {}
    /\ job = [w \in MediaWorkers |-> JobIdle] /\ overlapped = {}
-----------------------------------------------------------------------------
Uploaded(t, state) == upload' = [upload EXCEPT ![t] = state]

\* InitMultipart; what is abandoned the storage reclaims.
InitMultipart(t) ==
    /\ upload[t] = "none" /\ Uploaded(t, "open")
    /\ UNCHANGED <<published, taskVars, brokerVars, objects, job, overlapped>>

\* The store puts the parts together, or CreateVideoTask puts the whole file.
AssembleUpload(t) ==
    /\ upload[t] \in {"none", "open"} /\ Uploaded(t, "assembled")
    /\ source' = source \union {t}
    /\ UNCHANGED <<published, task, mediaSeen, brokerVars, objects, job, overlapped>>

\* enqueueVideoTask: the row, and its event into the outbox.
EnqueueVideoTask(t) ==
    /\ upload[t] = "assembled" /\ Uploaded(t, "closed")
    /\ task' = [task EXCEPT ![t] = "processing"]
    /\ UNCHANGED <<published, source, mediaSeen, brokerVars, objects, job, overlapped>>

\* A poller publishes the event.  Others that overlap with it, or the next one
\* after a crash or a failed delete, publish it again.
PublishTranscode(t) ==
    /\ task[t] # "none" /\ mediaSent[t] < MaxTranscodeEvents
    /\ mediaSent' = [mediaSent EXCEPT ![t] = @ + 1]
    /\ mediaQueue' = [mediaQueue EXCEPT ![t] = @ + 1]
    /\ UNCHANGED <<uploadVars, taskVars, mediaDead, objects, job, overlapped>>

\* Empty or too large, or the transaction failed; RemoveUpload may fail too.
RejectUpload(t) ==
    /\ upload[t] = "assembled" /\ Uploaded(t, "closed")
    /\ source' \in {source, source \ {t}}
    /\ UNCHANGED <<published, task, mediaSeen, brokerVars, objects, job, overlapped>>

\* Publish with the URLs of a task: both objects are looked up.
PublishMedia(t) ==
    /\ task[t] = "ready" /\ objects[t] = {"cover", "video"}
    /\ published' = published \union {t}
    /\ UNCHANGED <<upload, taskVars, brokerVars, objects, job, overlapped>>
-----------------------------------------------------------------------------
JobStep(w, pc) == job' = [job EXCEPT ![w].pc = pc]
PutObject(t, o) == objects' = [objects EXCEPT ![t] = @ \union {o}]

\* A worker that may still write, remove or settle what belongs to the task.
AtWork(w, t) == job[w].t = t /\ job[w].pc \in {"download", "cover", "video", "ready"}

\* A worker without a task receives a copy of the event of t.
ReceiveTask(w, t) ==
    /\ job[w].pc = "idle" /\ mediaQueue[t] > 0
    /\ mediaQueue' = [mediaQueue EXCEPT ![t] = @ - 1]
    /\ UNCHANGED <<uploadVars, taskVars, mediaSent, objects>>

StartJob(w, t, pc) == job' = [job EXCEPT ![w] = [pc |-> pc, t |-> t, owns |-> TRUE]]

BeginTask(w, t) ==
    /\ StartJob(w, t, "download")
    /\ overlapped' = IF \E v \in MediaWorkers : AtWork(v, t) THEN overlapped \union {t} ELSE overlapped

\* Handle that does not look at the status.
TakeAnyTask(w, t) == ReceiveTask(w, t) /\ BeginTask(w, t) /\ UNCHANGED mediaDead

\* Handle begins: a task that is not processing is acked at once.
TakeTask(w, t) ==
    /\ ReceiveTask(w, t) /\ UNCHANGED mediaDead
    /\ IF task[t] = "processing" THEN BeginTask(w, t) ELSE StartJob(w, t, "ack") /\ UNCHANGED overlapped

\* FindByID fails: Nack without requeue.
RefuseTask(w, t) ==
    /\ ReceiveTask(w, t) /\ mediaDead' = mediaDead \union {t}
    /\ UNCHANGED <<job, overlapped>>

\* download and Transcode, which need the source only until it is local.
Transcode(w) ==
    /\ job[w].pc = "download" /\ job[w].t \in source
    /\ JobStep(w, "cover")
    /\ UNCHANGED <<uploadVars, taskVars, brokerVars, objects, overlapped>>

UploadCover(w) ==
    /\ job[w].pc = "cover" /\ JobStep(w, "video") /\ PutObject(job[w].t, "cover")
    /\ UNCHANGED <<uploadVars, taskVars, brokerVars, overlapped>>

UploadVideo(w) ==
    /\ job[w].pc = "video" /\ JobStep(w, "ready") /\ PutObject(job[w].t, "video")
    /\ UNCHANGED <<uploadVars, taskVars, brokerVars, overlapped>>

\* process returns an error; a video that cannot be put takes its cover away.
ProcessFails(w) ==
    /\ job[w].pc \in {"download", "cover", "video"} /\ JobStep(w, "failed")
    /\ IF job[w].pc = "video"
         THEN objects' \in {objects, [objects EXCEPT ![job[w].t] = @ \ {"cover"}]}
         ELSE UNCHANGED objects
    /\ UNCHANGED <<uploadVars, taskVars, brokerVars, overlapped>>

\* MarkProcessed with MarkReady or MarkFailed: the first one settles the task.
SettleTask(w) ==
    LET t == job[w].t IN
    /\ job[w].pc \in {"ready", "failed"} /\ JobStep(w, "clean")
    /\ mediaSeen' = mediaSeen \union {t}
    /\ task' = IF t \notin mediaSeen /\ task[t] = "processing"
                 THEN [task EXCEPT ![t] = job[w].pc] ELSE task
    /\ UNCHANGED <<uploadVars, source, brokerVars, objects, overlapped>>

\* The transaction fails: Nack without requeue; the source stays.
NackTask(w) ==
    /\ job[w].pc \in {"ready", "failed"}
    /\ job' = [job EXCEPT ![w] = JobIdle]
    /\ mediaDead' = IF job[w].owns THEN mediaDead \union {job[w].t} ELSE mediaDead
    /\ UNCHANGED <<uploadVars, taskVars, mediaQueue, mediaSent, objects, overlapped>>

\* removeSource, whose failure is only logged.
RemoveSource(w) ==
    /\ job[w].pc = "clean" /\ JobStep(w, "ack")
    /\ source' \in {source, source \ {job[w].t}}
    /\ UNCHANGED <<uploadVars, task, mediaSeen, brokerVars, objects, overlapped>>

AckTask(w) ==
    /\ job[w].pc = "ack"
    /\ job' = [job EXCEPT ![w] = JobIdle]
    /\ UNCHANGED <<uploadVars, taskVars, brokerVars, objects, overlapped>>

\* The broker takes the copy of w back, for anybody.
GiveBack(w) ==
    mediaQueue' = IF job[w].owns THEN [mediaQueue EXCEPT ![job[w].t] = @ + 1] ELSE mediaQueue

\* The channel is lost while w works on.
LoseMediaChannel(w) ==
    /\ job[w].owns /\ GiveBack(w)
    /\ job' = [job EXCEPT ![w].owns = FALSE]
    /\ UNCHANGED <<uploadVars, taskVars, mediaSent, mediaDead, objects, overlapped>>

MediaCrash(w) ==
    /\ job[w].pc # "idle" /\ GiveBack(w)
    /\ job' = [job EXCEPT ![w] = JobIdle]
    /\ UNCHANGED <<uploadVars, taskVars, mediaSent, mediaDead, objects, overlapped>>

MediaNext ==
    \/ \E t \in MediaTasks :
         InitMultipart(t) \/ AssembleUpload(t) \/ EnqueueVideoTask(t) \/ RejectUpload(t)
         \/ PublishMedia(t) \/ PublishTranscode(t)
    \/ \E w \in MediaWorkers :
         \/ \E t \in MediaTasks : TakeTask(w, t) \/ RefuseTask(w, t)
         \/ Transcode(w) \/ UploadCover(w) \/ UploadVideo(w) \/ ProcessFails(w)
         \/ SettleTask(w) \/ NackTask(w) \/ RemoveSource(w) \/ AckTask(w)
         \/ LoseMediaChannel(w) \/ MediaCrash(w)

MediaSafety == MediaInit /\ [][MediaNext]_mediaVars
-----------------------------------------------------------------------------
\* A video that was published with the objects of a ready task keeps them,
\* whatever is delivered twice, dead-lettered or left half done.  What takes a
\* cover away is the clearing of "orphans" (worker/media_worker.go:113) by one of
\* two workers that were on the task at once; the video itself stays even then
\* ("Tasks finish as ready with /static/videos/*.mp4 and /static/covers/*.jpg
\* URLs", .spec/backend/video/spec.md:41).
PublishedKeepsObjects ==
    \A t \in published :
        /\ "video" \in objects[t]
        /\ "cover" \in objects[t] \/ t \in overlapped
=============================================================================
