--------------------------- MODULE Notifications ---------------------------
(***************************************************************************)
(* The notification dispatcher (notify.Dispatcher), the sink of every      *)
(* batch of events the collector has written.                              *)
(*                                                                         *)
(* For each event of a batch Dispatch asks the outbox whether the same     *)
(* condition was announced within the cooldown, hands the notification to  *)
(* the transport and only then writes the outbox row the next question     *)
(* will find.  The poll loop, the manual refreshes and the probe loop each *)
(* dispatch on a goroutine of their own: they are the Workers.             *)
(*                                                                         *)
(* The dispatcher modelled is an enabled one; a disabled one does nothing. *)
(***************************************************************************)
EXTENDS Integers, FiniteSets

CONSTANTS
  Workers,      \* goroutines that write events and dispatch them
  Subjects,     \* what an event is about: a tunnel, a probed hostname
  Kinds,        \* the event kinds that occur
  States,       \* of a tunnel or a probe: "good" and the failing ones
  MinSeverity,  \* CFTM_NOTIFY_MIN_SEVERITY, as a rank
  Cooldown,     \* CFTM_NOTIFY_COOLDOWN, in ticks of the clock
  MaxMishaps,   \* bound: queries that fail, and crashes
  MaxClock      \* bound: ticks of the clock

\* Kinds whose events are the transitions of a subject between two states, and
\* kinds whose events just happen.  The release a connector moved to and the
\* country a request came from are part of the subject.
TransitionKinds == {"tunnel_status", "probe"}
OccurrenceKinds == {"tunnel_removed", "connector_removed", "version_drift", "origin_country",
                    "poll_failed", "tunnel_added", "connector_added", "config_changed"}
Transient == (Kinds \cap TransitionKinds) \X Subjects
Occurrences == Kinds \cap OccurrenceKinds

ASSUME NotifyAssumption ==
  /\ IsFiniteSet(Workers)
  /\ Kinds \subseteq TransitionKinds \cup OccurrenceKinds
  /\ "good" \in States
  /\ MinSeverity \in 1..3 /\ Cooldown \in Nat \ {0}
  /\ MaxMishaps \in Nat /\ MaxClock \in Nat

VARIABLES
  clock, mishaps,
  state,      \* of every subject, as the collector has stored it
  outbox,     \* table notifications: key and created_at
  announced,  \* history: what was handed to the transport
  handled,    \* history: events whose handling came to its end, undisturbed
  lost,       \* history: announcements whose outbox row was never written
  pc, started, todo, current   \* one Dispatch each

worker == <<pc, started, todo, current>>
vars == <<clock, mishaps, state, outbox, announced, handled, lost, worker>>

Event == [kind: TransitionKinds \cup OccurrenceKinds, subject: Subjects, to: States \cup {"none"}]
NoEvent == [kind |-> "none"]

-----------------------------------------------------------------------------
(* What an event is worth.                                                 *)

\* FromEvent: expected in normal work, never announced.
Quiet == {"config_changed", "connector_added", "tunnel_added"}

\* Severity.Rank after EventSeverity: info 1, warning 2, critical 3.
Rank(e) ==
  CASE e.kind \in {"poll_failed", "tunnel_removed"} -> 3
    [] e.kind = "tunnel_status" -> IF e.to = "good" THEN 1 ELSE 3
    [] e.kind = "connector_removed" -> 2
    [] e.kind = "probe" -> IF e.to = "good" THEN 1 ELSE 2
    [] OTHER -> 1

Notable(e) == e.kind \notin Quiet /\ Rank(e) >= MinSeverity

\* dedupKey: a condition is a kind, a subject and the state it went to.
Key(e) == [kind |-> e.kind, subject |-> e.subject, to |-> e.to]

\* Mutations of Recent: only what was announced at the same time; whenever it
\* was announced.
RecentNow(key, at) == \E n \in outbox : n.key = key /\ n.at >= at

RecentEver(key, at) == \E n \in outbox : n.key = key

\* NotifiedSince the event's time less the cooldown.
Recent(key, at) == \E n \in outbox : n.key = key /\ n.at >= at - Cooldown

-----------------------------------------------------------------------------
Tick ==
  /\ clock < MaxClock
  /\ clock' = clock + 1
  /\ UNCHANGED <<mishaps, state, outbox, announced, handled, lost, worker>>

Start(w) ==
  /\ pc[w] = "idle"
  /\ pc' = [pc EXCEPT ![w] = "round"]
  /\ started' = [started EXCEPT ![w] = clock]
  /\ UNCHANGED <<clock, mishaps, state, outbox, announced, handled, lost, todo, current>>

\* A round has found its events: some subjects changed their state, some other
\* things happened.  All of them carry the time the round started.
Collect(w) ==
  /\ pc[w] = "round"
  /\ pc' = [pc EXCEPT ![w] = "next"]
  /\ \E found \in [Transient -> States], happened \in SUBSET (Occurrences \X Subjects) :
       LET moved == {x \in Transient : found[x] # state[x]} IN
       /\ state' = found
       /\ todo' = [todo EXCEPT ![w] =
            {[kind |-> x[1], subject |-> x[2], to |-> found[x]] : x \in moved}
            \cup {[kind |-> x[1], subject |-> x[2], to |-> "none"] : x \in happened}]
  /\ UNCHANGED <<clock, mishaps, outbox, announced, handled, lost, started, current>>

-----------------------------------------------------------------------------
(* Dispatch, one event of the batch after the other.                       *)

Done(w, e) ==
  /\ todo' = [todo EXCEPT ![w] = @ \ {e}]
  /\ current' = [current EXCEPT ![w] = NoEvent]
  /\ pc' = [pc EXCEPT ![w] = "next"]

Handled(w, e) == handled' = handled \cup {[event |-> e, at |-> started[w]]}

Ignore(w) ==
  /\ pc[w] = "next"
  /\ \E e \in todo[w] : e.kind \in Quiet /\ Done(w, e)
  /\ UNCHANGED <<clock, mishaps, state, outbox, announced, handled, lost, started>>

Pass(w) ==
  /\ pc[w] = "next"
  /\ \E e \in todo[w] : e.kind \notin Quiet /\ ~Notable(e) /\ Done(w, e) /\ Handled(w, e)
  /\ UNCHANGED <<clock, mishaps, state, outbox, announced, lost, started>>

Suppress(w) ==
  /\ pc[w] = "next"
  /\ \E e \in todo[w] :
       Notable(e) /\ Recent(Key(e), started[w]) /\ Done(w, e) /\ Handled(w, e)
  /\ UNCHANGED <<clock, mishaps, state, outbox, announced, lost, started>>

Accept(w) ==
  /\ pc[w] = "next"
  /\ \E e \in todo[w] :
       /\ Notable(e) /\ ~Recent(Key(e), started[w])
       /\ current' = [current EXCEPT ![w] = e]
  /\ pc' = [pc EXCEPT ![w] = "send"]
  /\ UNCHANGED <<clock, mishaps, state, outbox, announced, handled, lost, started, todo>>

\* The question to the outbox fails: the event is given up.
GiveUp(w) ==
  /\ pc[w] = "next"
  /\ mishaps < MaxMishaps
  /\ mishaps' = mishaps + 1
  /\ \E e \in todo[w] : Notable(e) /\ Done(w, e)
  /\ UNCHANGED <<clock, state, outbox, announced, handled, lost, started>>

\* The transport may refuse the notification: the row written next says so and
\* keeps the condition quiet all the same.
Send(w) ==
  /\ pc[w] = "send"
  /\ pc' = [pc EXCEPT ![w] = "record"]
  /\ announced' = announced \cup
       {[id |-> Cardinality(announced), event |-> current[w], at |-> started[w]]}
  /\ UNCHANGED <<clock, mishaps, state, outbox, handled, lost, started, todo, current>>

\* An error of AddNotification is only logged.
Record(w) ==
  LET e == current[w] IN
  /\ pc[w] = "record"
  /\ \/ outbox' = outbox \cup {[key |-> Key(e), at |-> started[w]]} /\ UNCHANGED <<mishaps, lost>>
     \/ /\ mishaps < MaxMishaps
        /\ mishaps' = mishaps + 1 /\ lost' = lost + 1
        /\ UNCHANGED outbox
  /\ Done(w, e)
  /\ Handled(w, e)
  /\ UNCHANGED <<clock, state, announced, started>>

Finish(w) ==
  /\ pc[w] = "next" /\ todo[w] = {}
  /\ pc' = [pc EXCEPT ![w] = "idle"]
  /\ UNCHANGED <<clock, mishaps, state, outbox, announced, handled, lost, started, todo, current>>

\* The process dies and starts again: the database is what is left.
Crash ==
  /\ mishaps < MaxMishaps
  /\ mishaps' = mishaps + 1
  /\ lost' = lost + Cardinality({w \in Workers : pc[w] = "record"})
  /\ pc' = [w \in Workers |-> "idle"]
  /\ todo' = [w \in Workers |-> {}]
  /\ current' = [w \in Workers |-> NoEvent]
  /\ UNCHANGED <<clock, state, outbox, announced, handled, started>>

-----------------------------------------------------------------------------
\* The tunnels are known, in any status; no hostname has been probed.
Init ==
  /\ clock = 0 /\ mishaps = 0
  /\ state \in [Transient -> States \cup {"none"}]
  /\ \A x \in Transient : state[x] = "none" <=> x[1] = "probe"
  /\ outbox = {} /\ announced = {} /\ handled = {} /\ lost = 0
  /\ pc = [w \in Workers |-> "idle"]
  /\ started = [w \in Workers |-> 0]
  /\ todo = [w \in Workers |-> {}]
  /\ current = [w \in Workers |-> NoEvent]

Dispatch(w) ==
  Ignore(w) \/ Pass(w) \/ Suppress(w) \/ Accept(w) \/ GiveUp(w) \/ Send(w) \/ Record(w) \/ Finish(w)

Next ==
  \/ Tick
  \/ \E w \in Workers : Start(w) \/ Collect(w) \/ Dispatch(w)
  \/ Crash

Spec == Init /\ [][Next]_vars

-----------------------------------------------------------------------------
\* Every variable holds a value of its declared kind, and the event in hand is
\* one of the batch that is worth announcing.
TypeOK ==
  /\ clock \in 0..MaxClock /\ mishaps \in 0..MaxMishaps
  /\ state \in [Transient -> States \cup {"none"}]
  /\ outbox \subseteq [key: Event, at: 0..MaxClock]
  /\ announced \subseteq [id: Nat, event: Event, at: 0..MaxClock]
  /\ handled \subseteq [event: Event, at: 0..MaxClock]
  /\ lost \in Nat
  /\ pc \in [Workers -> {"idle", "round", "next", "send", "record"}]
  /\ started \in [Workers -> 0..MaxClock]
  /\ todo \in [Workers -> SUBSET Event]
  /\ current \in [Workers -> Event \cup {NoEvent}]
  /\ \A w \in Workers :
       IF pc[w] \in {"send", "record"} THEN current[w] \in todo[w] /\ Notable(current[w])
       ELSE current[w] = NoEvent

\* "How long the same condition stays quiet after being reported"
\* (configuration.md), made exact: within a cooldown a condition is announced
\* at most once per worker, plus once for every outbox row that got lost.  A
\* restart alone "cannot cause a repeat storm" (migration 0003).
CooldownHolds ==
  \A a \in announced :
    Cardinality({b \in announced : b.event = a.event /\ b.at \in (a.at - Cooldown)..a.at})
      <= Cardinality(Workers) + lost

\* A suppressed event is no silence: whatever was handled and is urgent enough
\* was announced, for the very state it went to, at most a cooldown earlier.
NothingUrgentIsSilent ==
  \A h \in handled : Notable(h.event) =>
    \E a \in announced : a.event = h.event /\ a.at >= h.at - Cooldown

\* "A recovery has a different target state and therefore always gets through
\* immediately" (configuration.md), at least after an outage was announced.
RecoveryGetsThrough ==
  \A h \in handled :
    /\ h.event.kind = "tunnel_status" /\ h.event.to = "good"
    /\ \E a \in announced : a.event \in {[h.event EXCEPT !.to = s] : s \in States \ {"good"}}
    => \E a \in announced : a.event = h.event /\ a.at = h.at
=============================================================================
