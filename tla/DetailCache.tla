---------------------------- MODULE DetailCache ----------------------------
(***************************************************************************)
(* The two cache levels of the detail of one video: Redis (L2) and one     *)
(* process-local cache per API instance (L1) (video/service.go:GetDetail,  *)
(* getDetailFromCaches, setDetailCaches, invalidateDetailCache;            *)
(* video/lifecycle.go:Delete; video/invalidation_consumer.go;              *)
(* mq/consumer.go:ConsumeEphemeralFanout).                                 *)
(*                                                                         *)
(*   read:   L1, L2, MySQL; what was found below is written above          *)
(*   change: MySQL, then L2 is deleted, then a fanout message makes every  *)
(*           instance delete its L1                                        *)
(*                                                                         *)
(* Nothing orders a read against the steps of a change.  A value is the    *)
(* version of the row it was made of, 0 while there is no row.             *)
(***************************************************************************)
EXTENDS Integers, FiniteSets

CONSTANTS
    Instances,
    DetailReaders,   \* GetDetail calls running at the same time
    Writers,         \* changes running at the same time
    MaxVersion,      \* bound: changes of the row
    Uncached

ASSUME DetailAssumption == MaxVersion \in Nat /\ Uncached \notin Instances

VARIABLES
    row,             \* version of the row of videos
    l2,              \* the key in Redis
    l1,              \* the key in every instance
    fanout,          \* invalidations under way to every instance
    detailReader, writer,   \* what every read and every change does
    lost             \* history: of each place, the newest change that was
                     \* never announced there

detailVars == <<row, l2, l1, fanout, detailReader, writer, lost>>
detailCaches == <<l2, l1>>

Versions == 0..MaxVersion
\* "late" is history: the copy was under way while L2 was being deleted.
Copies == [v : Versions, late : BOOLEAN]
ReaderIdle == [pc |-> "idle", at |-> Uncached, copy |-> Uncached]
WriterIdle == [pc |-> "idle", at |-> Uncached, v |-> 0, deletes |-> FALSE]
Places == Instances \union {Uncached}     \* Uncached: none, or Redis

DetailTypeOK ==
    /\ row \in Versions
    /\ l2 \in Copies \union {Uncached}
    /\ l1 \in [Instances -> Copies \union {Uncached}]
    /\ fanout \in [Instances -> Nat]
    /\ detailReader \in [DetailReaders ->
         [pc : {"idle", "load", "set", "fill"}, at : Places, copy : Copies \union {Uncached}]]
    /\ writer \in [Writers ->
         [pc : {"idle", "delete", "publish", "mark", "fillmark"}, at : Places, v : Versions,
          deletes : BOOLEAN]]
    /\ lost \in [Places -> Versions]

DetailInit ==
    /\ row = 0 /\ l2 = Uncached
    /\ l1 = [i \in Instances |-> Uncached] /\ fanout = [i \in Instances |-> 0]
    /\ detailReader = [r \in DetailReaders |-> ReaderIdle]
    /\ writer = [w \in Writers |-> WriterIdle]
    /\ lost = [p \in Places |-> 0]
-----------------------------------------------------------------------------
ReaderStep(r, pc, copy) == detailReader' = [detailReader EXCEPT ![r].pc = pc, ![r].copy = copy]
ReaderDone(r) == detailReader' = [detailReader EXCEPT ![r] = ReaderIdle]

\* detailGroup: an instance loads the row once at a time; who comes second
\* shares the result and writes nothing.
Loading(i) == \E r \in DetailReaders : detailReader[r].at = i /\ detailReader[r].pc \in {"load", "set"}

\* getDetailFromCaches of instance i after a miss of its L1.
ReadL2(r, i) ==
    /\ detailReader[r].pc = "idle" /\ l1[i] = Uncached
    /\ l2 = Uncached => ~Loading(i)
    /\ detailReader' = [detailReader EXCEPT ![r] =
         [pc |-> IF l2 = Uncached THEN "load" ELSE "fill", at |-> i, copy |-> l2]]
    /\ UNCHANGED <<row, detailCaches, fanout, writer, lost>>

\* FindByID; a row that is not there makes a short negative entry.
LoadRow(r) ==
    /\ detailReader[r].pc = "load"
    /\ ReaderStep(r, "set", [v |-> row, late |-> FALSE])
    /\ UNCHANGED <<row, detailCaches, fanout, writer, lost>>

\* setDetailCaches and setDetailNotFound: L2, which may fail, then L1.
SetL2(r) ==
    /\ detailReader[r].pc = "set"
    /\ ReaderStep(r, "fill", detailReader[r].copy)
    /\ l2' \in {l2, detailReader[r].copy}
    /\ UNCHANGED <<row, l1, fanout, writer, lost>>

FillL1(r) ==
    /\ detailReader[r].pc = "fill"
    /\ l1' = [l1 EXCEPT ![detailReader[r].at] = detailReader[r].copy]
    /\ ReaderDone(r)
    /\ UNCHANGED <<row, l2, fanout, writer, lost>>

\* TTLs, evictions, and an API process that restarts.
ExpireL2 ==
    /\ l2 # Uncached /\ l2' = Uncached
    /\ UNCHANGED <<row, l1, fanout, detailReader, writer, lost>>

ExpireL1(i) ==
    /\ l1[i] # Uncached /\ l1' = [l1 EXCEPT ![i] = Uncached]
    /\ UNCHANGED <<row, l2, fanout, detailReader, writer, lost>>
-----------------------------------------------------------------------------
MaxOf(a, b) == IF a < b THEN b ELSE a
NotAnnounced(places, v) ==
    lost' = [p \in DOMAIN lost |-> IF p \in places THEN MaxOf(lost[p], v) ELSE lost[p]]
WriterStep(w, pc) ==
    writer' = [writer EXCEPT ![w] = IF pc = "idle" THEN WriterIdle ELSE [@ EXCEPT !.pc = pc]]

\* The verdict of the review changes the row and touches no cache.
Verdict ==
    /\ row < MaxVersion /\ row' = row + 1
    /\ NotAnnounced(DOMAIN lost, row')
    /\ UNCHANGED <<detailCaches, fanout, detailReader, writer>>

\* A change of what a reader sees of the row (a draft, a takedown, counters),
\* or the author's deletion, which is the last one and marks the caches in the
\* end.
ChangeRow(w, i, deletes) ==
    /\ writer[w].pc = "idle" /\ row < MaxVersion
    /\ row' = IF deletes THEN MaxVersion ELSE row + 1
    /\ writer' = [writer EXCEPT ![w] =
         [pc |-> "delete", at |-> i, v |-> row', deletes |-> deletes]]
    /\ UNCHANGED <<detailCaches, fanout, detailReader, lost>>

\* Whatever is under way while L2 is deleted may write an old copy later.
Overtaken ==
    detailReader' = [r \in DetailReaders |->
        IF detailReader[r].copy = Uncached THEN detailReader[r]
        ELSE [detailReader[r] EXCEPT !.copy.late = TRUE]]

\* invalidateDetailCache that takes the copy of one instance for all of them.
DeleteL1Only(w) ==
    /\ writer[w].pc = "delete" /\ WriterStep(w, "publish")
    /\ l1' = [l1 EXCEPT ![writer[w].at] = Uncached]
    /\ UNCHANGED <<row, l2, fanout, detailReader, lost>>

\* invalidateDetailCache: L2 first.
DeleteL2(w) ==
    /\ writer[w].pc = "delete" /\ WriterStep(w, "publish")
    /\ l2' = Uncached /\ Overtaken
    /\ UNCHANGED <<row, l1, fanout, lost>>

DeleteL2Fails(w) ==
    /\ writer[w].pc = "delete" /\ WriterStep(w, "publish")
    /\ NotAnnounced(DOMAIN lost, writer[w].v)
    /\ UNCHANGED <<row, detailCaches, fanout, detailReader>>

AfterPublish(w) == WriterStep(w, IF writer[w].deletes THEN "mark" ELSE "idle")

PublishInvalidation(w) ==
    /\ writer[w].pc = "publish" /\ AfterPublish(w)
    /\ fanout' = [i \in Instances |-> fanout[i] + 1]
    /\ UNCHANGED <<row, detailCaches, detailReader, lost>>

PublishInvalidationFails(w) ==
    /\ writer[w].pc = "publish" /\ AfterPublish(w)
    /\ NotAnnounced(Instances, writer[w].v)
    /\ UNCHANGED <<row, detailCaches, fanout, detailReader>>

\* Delete goes on: setDetailNotFound.
Marker(w) == [v |-> writer[w].v, late |-> FALSE]

MarkL2(w) ==
    /\ writer[w].pc = "mark" /\ WriterStep(w, "fillmark")
    /\ l2' \in {l2, Marker(w)}
    /\ UNCHANGED <<row, l1, fanout, detailReader, lost>>

MarkL1(w) ==
    /\ writer[w].pc = "fillmark" /\ WriterStep(w, "idle")
    /\ l1' = [l1 EXCEPT ![writer[w].at] = Marker(w)]
    /\ UNCHANGED <<row, l2, fanout, detailReader, lost>>

\* The process dies between two steps of a change.
WriterDies(w) ==
    /\ writer[w].pc # "idle" /\ WriterStep(w, "idle")
    /\ IF writer[w].pc = "delete" THEN NotAnnounced(DOMAIN lost, writer[w].v)
       ELSE IF writer[w].pc = "publish" THEN NotAnnounced(Instances, writer[w].v)
       ELSE UNCHANGED lost
    /\ UNCHANGED <<row, detailCaches, fanout, detailReader>>

\* DetailInvalidationConsumer.Handle.
DropL1(i) ==
    /\ fanout[i] > 0 /\ fanout' = [fanout EXCEPT ![i] = @ - 1]
    /\ l1' = [l1 EXCEPT ![i] = Uncached]
    /\ UNCHANGED <<row, l2, detailReader, writer, lost>>

\* The ephemeral queue of an instance goes with its connection.
LoseFanout(i) ==
    /\ fanout[i] > 0 /\ fanout' = [fanout EXCEPT ![i] = 0]
    /\ NotAnnounced({i}, row)
    /\ UNCHANGED <<row, detailCaches, detailReader, writer>>

DetailNext ==
    \/ \E r \in DetailReaders :
         (\E i \in Instances : ReadL2(r, i)) \/ LoadRow(r) \/ SetL2(r) \/ FillL1(r)
    \/ \E w \in Writers :
         \/ \E i \in Instances, deletes \in BOOLEAN : ChangeRow(w, i, deletes)
         \/ DeleteL2(w) \/ DeleteL2Fails(w) \/ PublishInvalidation(w)
         \/ PublishInvalidationFails(w) \/ MarkL2(w) \/ MarkL1(w) \/ WriterDies(w)
    \/ Verdict \/ ExpireL2
    \/ \E i \in Instances : ExpireL1(i) \/ DropL1(i) \/ LoseFanout(i)

DetailSafety == DetailInit /\ [][DetailNext]_detailVars
-----------------------------------------------------------------------------
\* An old copy that is served has one of three reasons: the change is still
\* being announced; it was announced nowhere (a verdict, a failed delete or
\* publish, a dead process, a broken connection); or a read ran across it.  A
\* read that starts once L2 is deleted never brings an old copy back, because
\* L2 goes before the instances are told (video/service.go:704-724).
StaleHasReason ==
    /\ l2 # Uncached /\ l2.v < row /\ ~l2.late =>
         l2.v < lost[Uncached] \/ \E w \in Writers : writer[w].pc = "delete" /\ writer[w].v > l2.v
    /\ \A i \in Instances : l1[i] # Uncached /\ l1[i].v < row /\ ~l1[i].late =>
         \/ l1[i].v < lost[i] \/ fanout[i] > 0
         \/ \E w \in Writers : writer[w].pc \in {"delete", "publish"} /\ writer[w].v > l1[i].v
=============================================================================
