------------------------------- MODULE Watch --------------------------------
(***************************************************************************)
(* The watch history of one account: the player's side (frontend/src/      *)
(* history/progress.ts, rules.ts) and the server's (history/service.go,    *)
(* repo.go, classify.go).                                                  *)
(*                                                                         *)
(*   playing -> noteWatchProgress; heartbeat, hidden page, another video   *)
(*     -> flush -> the browser's own copy, and a request nobody waits for  *)
(*   request -> the time is taken -> the row is written                    *)
(*   lists by status, newest first, with a cursor                          *)
(*                                                                         *)
(* A position is 0, not worth storing (ShouldPersist); End, as good as the *)
(* end (IsCompleted); or in between.                                       *)
(***************************************************************************)
EXTENDS Integers, FiniteSets

CONSTANTS
    WatchedVideos,
    SeenBefore,          \* bound: videos watched before, now only slid past
    End,
    Upserts,          \* bound: requests under way at a time
    LastMilli,        \* bound: the clock stops here
    NoEntry

ASSUME SeenBeforeAssumption ==
    SeenBefore \subseteq WatchedVideos /\ WatchedVideos \subseteq Nat \ {0} /\ IsFiniteSet(WatchedVideos)
ASSUME EndAssumption == End \in Nat /\ End > 1
ASSUME MilliAssumption == LastMilli \in Nat \ {0}
ASSUME NoEntryAssumption ==
    NoEntry \notin [id : Nat, at : Nat, kept : [pos : 0..End, done : BOOLEAN]]

VARIABLES
    session,          \* the video that plays, and whether it was noted at its end
    localCopy,        \* localStorage: of every video its entry
    upserts,          \* requests to /history/upsert
    record,           \* watch_history: of every video its row
    milli,            \* the server's clock
    historyWalk       \* a client that pages through one of the lists

watchVars == <<session, localCopy, upserts, record, milli, historyWalk>>
watchClient == <<session, localCopy>>

Positions == 0..End
HalfSeen(v) == [id |-> Cardinality({u \in SeenBefore : u <= v}), at |-> 1, kept |-> [pos |-> 1, done |-> FALSE]]
Entries == [pos : Positions, done : BOOLEAN]
NotPlaying == [video |-> 0, atEnd |-> FALSE]
NoUpsert == [pc |-> "none", video |-> 0, pos |-> 0, at |-> 0]
NoWalk == [pc |-> "none", done |-> FALSE, cursor |-> <<LastMilli + 1, 0>>,
           listed |-> {}, touched |-> {}]

WatchTypeOK ==
    /\ session \in [video : WatchedVideos \union {0}, atEnd : BOOLEAN]
    /\ localCopy \in [WatchedVideos -> Entries \union {NoEntry}]
    /\ upserts \in [Upserts -> [pc : {"none", "sent", "write"}, video : WatchedVideos \union {0},
                                pos : Positions, at : 0..LastMilli]]
    /\ \A v \in WatchedVideos : record[v] = NoEntry \/
         record[v] \in [id : 1..Cardinality(WatchedVideos), at : 1..LastMilli, kept : Entries]
    /\ milli \in 1..LastMilli
    /\ historyWalk.pc \in {"none", "open", "end"}
    /\ historyWalk.listed \subseteq WatchedVideos /\ historyWalk.touched \subseteq WatchedVideos

WatchInit ==
    /\ session = NotPlaying /\ localCopy = [v \in WatchedVideos |-> NoEntry]
    /\ upserts = [q \in Upserts |-> NoUpsert] /\ record = [v \in WatchedVideos |->
                                            IF v \in SeenBefore THEN HalfSeen(v) ELSE NoEntry]
    /\ milli = 1 /\ historyWalk = NoWalk
-----------------------------------------------------------------------------
Completed(pos) == pos = End
Kept(pos) == [pos |-> IF Completed(pos) THEN 0 ELSE pos, done |-> Completed(pos)]

\* persist: the browser's copy, and a request that is not waited for.
Persist(v, pos) ==
    IF pos = 0 THEN UNCHANGED <<localCopy, upserts>>
    ELSE /\ localCopy' = [localCopy EXCEPT ![v] = Kept(pos)]
         /\ \E q \in Upserts :
              /\ upserts[q].pc = "none"
              /\ upserts' = [upserts EXCEPT ![q] = [pc |-> "sent", video |-> v, pos |-> pos, at |-> 0]]

Playing == session.video # 0

SlidPast(pos) == session.video \in SeenBefore => pos = 0

\* bindWatchProgress: what played before is flushed where it stands.
Bind(v, pos) ==
    /\ session.video # v /\ SlidPast(pos) /\ session' = [video |-> v, atEnd |-> FALSE]
    /\ IF Playing THEN Persist(session.video, pos) ELSE pos = 0 /\ UNCHANGED <<localCopy, upserts>>
    /\ UNCHANGED <<record, milli, historyWalk>>

\* noteWatchProgress: a jump back from the end is a video seen to its end.
Note(atEnd) ==
    /\ Playing /\ session.video \notin SeenBefore
    /\ atEnd # session.atEnd /\ session' = [session EXCEPT !.atEnd = atEnd]
    /\ IF session.atEnd THEN Persist(session.video, End) ELSE UNCHANGED <<localCopy, upserts>>
    /\ UNCHANGED <<record, milli, historyWalk>>

\* flushWatchProgress: heartbeat, pause, a page that is hidden or left.
Flush(pos) ==
    /\ Playing /\ pos # 0 /\ SlidPast(pos) /\ Persist(session.video, pos)
    /\ UNCHANGED <<session, record, milli, historyWalk>>

Unbind(pos) ==
    /\ Playing /\ SlidPast(pos) /\ session' = NotPlaying /\ Persist(session.video, pos)
    /\ UNCHANGED <<record, milli, historyWalk>>

\* The request fails, or the page dies with it.
LoseUpsert(q) ==
    /\ upserts[q].pc # "none" /\ upserts' = [upserts EXCEPT ![q] = NoUpsert]
    /\ UNCHANGED <<watchClient, record, milli, historyWalk>>
-----------------------------------------------------------------------------
\* Upsert up to the row: the video is visible, the position worth storing.
ServeUpsert(q) ==
    /\ upserts[q].pc = "sent" /\ upserts[q].pos # 0
    /\ upserts' = [upserts EXCEPT ![q].pc = "write", ![q].at = milli]
    /\ UNCHANGED <<watchClient, record, milli, historyWalk>>

Recorded == {v \in WatchedVideos : record[v] # NoEntry}

\* repo.Upsert: one row for a video, and the time that was taken before.
WriteRecord(q) ==
    LET u == upserts[q] IN
    /\ u.pc = "write" /\ upserts' = [upserts EXCEPT ![q] = NoUpsert]
    /\ record' = [record EXCEPT ![u.video] =
         [id |-> IF @ = NoEntry THEN Cardinality(Recorded) + 1 ELSE @.id,
          at |-> u.at, kept |-> Kept(u.pos)]]
    /\ historyWalk' = [historyWalk EXCEPT !.touched = IF historyWalk.pc = "none" THEN {} ELSE @ \union {u.video}]
    /\ UNCHANGED <<watchClient, milli>>

PassMilli ==
    /\ milli < LastMilli /\ milli' = milli + 1
    /\ UNCHANGED <<watchClient, upserts, record, historyWalk>>
-----------------------------------------------------------------------------
StartHistory(done) ==
    /\ historyWalk.pc = "none" /\ historyWalk' = [NoWalk EXCEPT !.pc = "open", !.done = done]
    /\ UNCHANGED <<watchClient, upserts, record, milli>>

\* What lies behind the cursor by its time alone.
BehindByTime(v, cursor) == record[v].at < cursor[1]

\* repo.List: what lies behind the cursor.
Behind(v, cursor) ==
    record[v].at < cursor[1] \/ (record[v].at = cursor[1] /\ record[v].id < cursor[2])

InWalkByTime(v) == record[v].kept.done = historyWalk.done /\ BehindByTime(v, historyWalk.cursor)
InWalk(v) == record[v].kept.done = historyWalk.done /\ Behind(v, historyWalk.cursor)
Newer(u, v) == record[u].at > record[v].at \/ (record[u].at = record[v].at /\ record[u].id > record[v].id)

\* A page of one row; the rows of videos one may not see are counted and left out.
ListHistory ==
    LET rows == {v \in Recorded : InWalk(v)} IN
    /\ historyWalk.pc = "open"
    /\ historyWalk' =
         IF rows = {} THEN [historyWalk EXCEPT !.pc = "end"]
         ELSE LET v == CHOOSE w \in rows : \A u \in rows \ {w} : Newer(w, u) IN
              [historyWalk EXCEPT !.pc = IF Cardinality(rows) > 1 THEN "open" ELSE "end",
                !.cursor = <<record[v].at, record[v].id>>, !.listed = @ \union {v}]
    /\ UNCHANGED <<watchClient, upserts, record, milli>>

LeaveHistory ==
    /\ historyWalk.pc # "none" /\ historyWalk' = NoWalk
    /\ UNCHANGED <<watchClient, upserts, record, milli>>

WatchNext ==
    \/ PassMilli \/ ListHistory \/ LeaveHistory
    \/ \E yes \in BOOLEAN : StartHistory(yes) \/ Note(yes)
    \/ \E pos \in Positions :
         \/ \E v \in WatchedVideos : Bind(v, pos)
         \/ Flush(pos) \/ Unbind(pos)
    \/ \E q \in Upserts : LoseUpsert(q) \/ ServeUpsert(q) \/ WriteRecord(q)

WatchSafety == WatchInit /\ [][WatchNext]_watchVars
-----------------------------------------------------------------------------
\* A walk through a list comes to every video of the list, and behind none that
\* is still to come, unless a report of the video is written meanwhile (repo.List).
WalkMissesNone ==
    \A v \in Recorded \ historyWalk.touched :
        record[v].kept.done = historyWalk.done /\ historyWalk.pc # "none" =>
            /\ historyWalk.pc = "end" => v \in historyWalk.listed
            /\ v \in historyWalk.listed <=> ~Behind(v, historyWalk.cursor)
=============================================================================
