------------------------------- MODULE Uptime -------------------------------
(***************************************************************************)
(* What a page says of a tunnel's past: the availability figure            *)
(* (UptimeFor) and the heartbeat bar (buildHeartbeats), both worked out    *)
(* from the rows of tunnel_status_history alone.                           *)
(*                                                                         *)
(* A page fixes its `now` first and then reads the table four times, while *)
(* polls append rows and prune old ones.  Time is counted in seconds, as   *)
(* the table counts it; several transitions may fall into one second.      *)
(***************************************************************************)
EXTENDS Integers, FiniteSetsExt

CONSTANTS
  UpStatuses,      \* the status values that occur
  UpUnknown,       \* no status known: the empty string of the code
  UpWindow,        \* length of the window, in seconds
  UpBuckets,       \* segments of the heartbeat bar
  UpRetention,     \* age at which a row is pruned
  MaxUpSeconds,    \* bound: seconds that pass
  MaxTransitions   \* bound: rows written

Graded == {"healthy", "degraded", "down", "inactive"}

ASSUME UptimeAssumption ==
  /\ UpStatuses \subseteq Graded /\ UpUnknown \notin Graded
  /\ UpWindow \in Nat \ {0} /\ UpBuckets \in Nat \ {0} /\ UpWindow % UpBuckets = 0
  /\ UpRetention \in Nat /\ MaxUpSeconds \in Nat

VARIABLES
  upNow,
  history, lastRow,  \* the table, its rows by id, and the last id given
  pageNow, upPc,     \* the page that is being built
  upRead,            \* what its queries returned
  entered, held,     \* history: the statuses entered in a second, and the one
                     \* in force at its end
  firstSeen, pruned  \* history: the first transition, whether a row was lost

upTruth == <<entered, held, firstSeen>>
upVars == <<upNow, history, lastRow, pageNow, upPc, upRead, upTruth, pruned>>

Seconds == 0..MaxUpSeconds

NothingRead == [changes |-> {}, initial |-> UpUnknown, beatInitial |-> UpUnknown, beats |-> {}]

UptimeInit ==
  /\ upNow = 0 /\ history = {} /\ lastRow = 0
  /\ pageNow = 0 /\ upPc = "idle" /\ upRead = NothingRead
  /\ entered = [s \in Seconds |-> {}]
  /\ held = [s \in Seconds |-> UpUnknown]
  /\ firstSeen = MaxUpSeconds
  /\ pruned = FALSE

-----------------------------------------------------------------------------
(* Polls. *)

SecondTicks ==
  /\ upNow < MaxUpSeconds
  /\ upNow' = upNow + 1
  /\ held' = [held EXCEPT ![upNow + 1] = held[upNow]]
  /\ UNCHANGED <<history, lastRow, pageNow, upPc, upRead, entered, firstSeen, pruned>>

\* SaveTunnels inserts a row when the status is another one.
StatusChanges(s) ==
  /\ s # held[upNow]
  /\ lastRow < MaxTransitions
  /\ lastRow' = lastRow + 1
  /\ history' = history \cup {[id |-> lastRow', status |-> s, at |-> upNow]}
  /\ entered' = [entered EXCEPT ![upNow] = @ \cup {s}]
  /\ held' = [held EXCEPT ![upNow] = s]
  /\ firstSeen' = IF held[upNow] = UpUnknown THEN upNow ELSE firstSeen
  /\ UNCHANGED <<upNow, pageNow, upPc, upRead, pruned>>

\* Prune deletes by age alone.
HistoryPruned ==
  /\ history' = {r \in history : r.at >= upNow - UpRetention}
  /\ history' # history
  /\ pruned' = TRUE
  /\ UNCHANGED <<upNow, lastRow, pageNow, upPc, upRead, upTruth>>

-----------------------------------------------------------------------------
(* The queries of a page. *)

\* ORDER BY changed_at, id.
Precedes(r, s) == r.at < s.at \/ (r.at = s.at /\ r.id < s.id)
OldestRow(rows) == CHOOSE r \in rows : \A s \in rows \ {r} : Precedes(r, s)
LatestRow(rows) == CHOOSE r \in rows : \A s \in rows \ {r} : Precedes(s, r)

\* The status of the last of some rows.
LastStatus(rows, otherwise) == IF rows = {} THEN otherwise ELSE LatestRow(rows).status

StatusHistory(since) == {r \in history : r.at >= since}

\* Mutation of StatusAt: a transition at the very second does not count.
StatusBefore(t) == LastStatus({r \in history : r.at < t}, UpUnknown)

StatusAt(t) == LastStatus({r \in history : r.at <= t}, UpUnknown)

PageStart == pageNow - UpWindow

ReadStep(from, to) ==
  /\ upPc = from /\ upPc' = to
  /\ UNCHANGED <<upNow, history, lastRow, pageNow, upTruth, pruned>>

PageAsked ==
  /\ upPc = "idle" /\ upPc' = "changes"
  /\ pageNow' = upNow
  /\ UNCHANGED <<upNow, history, lastRow, upRead, upTruth, pruned>>

ReadChanges ==
  ReadStep("changes", "initial") /\ upRead' = [upRead EXCEPT !.changes = StatusHistory(PageStart)]
ReadInitial ==
  ReadStep("initial", "beatInitial") /\ upRead' = [upRead EXCEPT !.initial = StatusAt(PageStart)]
ReadBeatInitial ==
  ReadStep("beatInitial", "beats") /\ upRead' = [upRead EXCEPT !.beatInitial = StatusAt(PageStart)]
ReadBeats ==
  ReadStep("beats", "served") /\ upRead' = [upRead EXCEPT !.beats = StatusHistory(PageStart)]

PageSeen ==
  /\ upPc = "served" /\ upPc' = "idle"
  /\ pageNow' = 0 /\ upRead' = NothingRead
  /\ UNCHANGED <<upNow, history, lastRow, upTruth, pruned>>

UptimeNext ==
  \/ SecondTicks
  \/ \E s \in UpStatuses : StatusChanges(s)
  \/ HistoryPruned
  \/ PageAsked \/ ReadChanges \/ ReadInitial \/ ReadBeatInitial \/ ReadBeats \/ PageSeen

UptimeSpec == UptimeInit /\ [][UptimeNext]_upVars

-----------------------------------------------------------------------------
(* UptimeFor. *)

\* Where counting begins and with which rows: at the window's start if the
\* status there is known, which the transitions up to it are then part of, else
\* at the first transition.
Counted ==
  IF upRead.initial # UpUnknown
  THEN [start |-> PageStart,
        rows |-> {[id |-> 0, status |-> upRead.initial, at |-> PageStart]}
                   \cup {r \in upRead.changes : r.at > PageStart}]
  ELSE [start |-> OldestRow(upRead.changes).at, rows |-> upRead.changes]

\* Transitions later than the page's `now` are not counted.
Segments == {r \in Counted.rows : r.at <= pageNow}

\* A segment lasts until the next one begins.
SegmentEnd(r) ==
  LET later == {s \in Segments : Precedes(r, s)}
  IN IF later = {} THEN pageNow ELSE OldestRow(later).at

HealthyTime ==
  LET time == [r \in Segments |-> IF r.status = "healthy" THEN SegmentEnd(r) - r.at ELSE 0]
  IN MapThenSumSet(LAMBDA r : time[r], Segments)

UptimeFor ==
  IF upRead.initial = UpUnknown /\ upRead.changes = {}
  THEN [observed |-> FALSE, window |-> UpWindow, healthy |-> 0]
  ELSE IF Counted.start >= pageNow
       THEN [observed |-> TRUE, window |-> 0, healthy |-> 0]
       ELSE [observed |-> TRUE, window |-> pageNow - Counted.start, healthy |-> HealthyTime]

-----------------------------------------------------------------------------
(* buildHeartbeats. *)

StatusRank(s) ==
  CASE s = "down" -> 4 [] s = "degraded" -> 3 [] s = "inactive" -> 2 [] s = "healthy" -> 1
    [] OTHER -> 0

\* What worseStatus makes of them, one after the other.
WorstStatus(statuses) == CHOOSE s \in statuses : \A t \in statuses : StatusRank(t) <= StatusRank(s)

Width == UpWindow \div UpBuckets
BucketStart(i) == PageStart + (i - 1) * Width

\* The status in force before a second, by the rows read.
CurrentAt(t) == LastStatus({r \in upRead.beats : r.at < t}, upRead.beatInitial)

\* Mutation of Worst: only the status a segment ends with.
LastOf(i) == CurrentAt(BucketStart(i) + Width)

\* The transitions of a segment.
Within(i) == {r \in upRead.beats : r.at >= BucketStart(i) /\ r.at < BucketStart(i) + Width}

\* The worst of the status a segment begins with and those entered in it.
Worst(i) == WorstStatus({CurrentAt(BucketStart(i))} \cup {r.status : r \in Within(i)})

BuildHeartbeats == [i \in 1..UpBuckets |-> Worst(i)]

-----------------------------------------------------------------------------
UptimeTypeOK ==
  /\ upNow \in Seconds /\ pageNow \in 0..upNow
  /\ history \subseteq [id : 1..lastRow, status : UpStatuses, at : 0..upNow]
  /\ upPc \in {"idle", "changes", "initial", "beatInitial", "beats", "served"}
  /\ upRead.initial \in UpStatuses \cup {UpUnknown}

\* The seconds a figure covers.
Observed == (pageNow - UptimeFor.window)..(pageNow - 1)

\* The availability figure is the share of the seconds it covers that the
\* tunnel was healthy, counted second by second, whatever was written or
\* pruned while the page was built; and it covers the window, or all the time
\* the tunnel has been watched, unless rows were pruned.
UptimeIsTrue ==
  upPc = "served" =>
    /\ UptimeFor.observed =>
         UptimeFor.healthy = Cardinality({s \in Observed : s >= 0 /\ held[s] = "healthy"})
    /\ ~pruned /\ firstSeen < pageNow =>
         UptimeFor.observed /\ UptimeFor.window = pageNow - Max({PageStart, firstSeen})

\* What a tunnel went through in a segment of the bar, by the rows that are
\* left: the statuses entered in it, and the one it began with.
Lived(i) ==
  {s \in UpStatuses : \E t \in Seconds :
     /\ t >= BucketStart(i) /\ t < BucketStart(i) + Width
     /\ s \in entered[t]}
BeganWith(i) == IF BucketStart(i) - 1 \in Seconds THEN {held[BucketStart(i) - 1]} ELSE {}

\* "So a short outage stays visible instead of being averaged away": no
\* segment of the bar is drawn in a better colour than the worst status the
\* tunnel went through in it, and none in a worse one than it had.
HeartbeatsHideNothing ==
  upPc = "served" /\ ~pruned =>
    \A i \in 1..UpBuckets :
      /\ \A s \in Lived(i) : StatusRank(s) <= StatusRank(BuildHeartbeats[i])
      /\ BuildHeartbeats[i] = UpUnknown \/ BuildHeartbeats[i] \in Lived(i) \cup BeganWith(i)
           \cup {held[Max({BucketStart(i), 0})]}
=============================================================================
