----------------------------- MODULE EventPages -----------------------------
(***************************************************************************)
(* The event log and the three lists of it: the events page, a tunnel's    *)
(* page and the JSON API.  Rounds of several goroutines take their time    *)
(* when they begin and append events of that time until they end: what is  *)
(* appended last need not be the newest, and much is of the same second.   *)
(***************************************************************************)
EXTENDS Integers, SequencesExt

CONSTANTS
  EventTunnels,    \* tunnels that events are about
  Appenders,       \* goroutines whose rounds append events
  Pollers,         \* those of them that poll
  NoTime,          \* the time of a goroutine without a round
  ListLimit,       \* entries of the events page, also read for a tunnel's page
  TunnelLimit,     \* entries of a tunnel's page
  DefaultLimit,    \* entries of an API answer that was asked for no number,
  MaxLimit,        \* and at most
  EventRetention,  \* RetentionDays
  MaxEventClock,   \* bound: time that passes
  MaxEvents        \* bound: events appended

ASSUME EventAssumption ==
  /\ IsFiniteSet(EventTunnels) /\ NoTime \notin Int
  /\ {ListLimit, TunnelLimit, DefaultLimit, MaxLimit} \subseteq Nat \ {0}
  /\ EventRetention \in Nat

VARIABLES
  eventClock,
  eventLog,        \* the table events
  lastId,          \* the last id given
  roundAt          \* the time of each appender's running round

eventVars == <<eventClock, eventLog, lastId, roundAt>>

\* An event; who appended it is not in the table.
Event(id, ts, tunnel, by) == [id |-> id, ts |-> ts, tunnel |-> tunnel, by |-> by]

EventInit ==
  /\ eventClock = 0
  /\ eventLog = {} /\ lastId = 0
  /\ roundAt = [w \in Appenders |-> NoTime]

EventSecond ==
  /\ eventClock < MaxEventClock
  /\ eventClock' = eventClock + 1
  /\ UNCHANGED <<eventLog, lastId, roundAt>>

RoundBegins(w) ==
  /\ roundAt[w] = NoTime
  /\ roundAt' = [roundAt EXCEPT ![w] = eventClock]
  /\ UNCHANGED <<eventClock, eventLog, lastId>>

\* A transaction of one round, about one tunnel or about all of them; one that fails is logged and leaves no trace.
AppendEvents(w) ==
  /\ roundAt[w] # NoTime
  /\ \E batch \in {<<t>> : t \in EventTunnels} \cup {SetToSeq(EventTunnels)} :
       /\ lastId + Len(batch) <= MaxEvents
       /\ lastId' = lastId + Len(batch)
       /\ eventLog' = eventLog \cup {Event(lastId + i, roundAt[w], batch[i], w) : i \in DOMAIN batch}
  /\ UNCHANGED <<eventClock, roundAt>>

RoundOver(w) ==
  /\ roundAt[w] # NoTime
  /\ roundAt' = [roundAt EXCEPT ![w] = NoTime]
  /\ UNCHANGED <<eventClock, eventLog, lastId>>

\* Prune ends every 120th poll; the days of retention count from the poll's time.
PruneEvents(w) ==
  /\ w \in Pollers /\ roundAt[w] # NoTime
  /\ eventLog' = {e \in eventLog : e.ts >= roundAt[w] - EventRetention}
  /\ roundAt' = [roundAt EXCEPT ![w] = NoTime]
  /\ UNCHANGED <<eventClock, lastId>>

EventNext ==
  \/ EventSecond
  \/ \E w \in Appenders : RoundBegins(w) \/ AppendEvents(w) \/ RoundOver(w) \/ PruneEvents(w)

EventSpec == EventInit /\ [][EventNext]_eventVars

-----------------------------------------------------------------------------
(* The lists. *)

Newer(e, f) == e.ts > f.ts \/ (e.ts = f.ts /\ e.id > f.id)

\* The first n of some events, the newest first: above the k-th are k - 1.
NewestFirst(events, n) ==
  [k \in 1..Min({n, Cardinality(events)}) |->
     CHOOSE e \in events : Cardinality({f \in events : Newer(f, e)}) = k - 1]

\* Events of the store.
StoredEvents(limit) == NewestFirst(eventLog, limit)

EventsPage == StoredEvents(ListLimit)

\* Mutation of TunnelEvents: as many entries are read as are shown.
TunnelEventsOfFew(t) == NewestFirst({e \in ToSet(StoredEvents(TunnelLimit)) : e.tunnel = t}, TunnelLimit)

\* The tunnel page filters what the events page lists.
TunnelEvents(t) == NewestFirst({e \in ToSet(EventsPage) : e.tunnel = t}, TunnelLimit)

\* queryLimit: no number, and one that is none, count as 0.
QueryLimit(n) == IF n <= 0 THEN DefaultLimit ELSE IF n < MaxLimit THEN n ELSE MaxLimit

APIEvents(n) == StoredEvents(QueryLimit(n))

-----------------------------------------------------------------------------
EventTypeOK ==
  /\ eventClock \in 0..MaxEventClock /\ lastId \in 0..MaxEvents
  /\ \A e \in eventLog : e.id \in 1..lastId /\ e.tunnel \in EventTunnels
  /\ roundAt \in [Appenders -> 0..MaxEventClock \cup {NoTime}]

\* The lists tell what happened, in order: of one goroutine's events a later
\* one is always above an earlier one, also of the same second and beside
\* rounds that began earlier and end later; an event is missing from its
\* tunnel's page only below that page's number of newer ones of the tunnel, or
\* below as many newer ones of all tunnels as the events page lists; and an
\* API answer continues the shorter ones.
EventsInOrder ==
  /\ LET page == EventsPage
     IN \A i, j \in DOMAIN page : i < j /\ page[i].by = page[j].by => page[i].id > page[j].id
  /\ \A e \in eventLog :
       LET newer == {f \in eventLog : f.ts > e.ts \/ (f.ts = e.ts /\ f.id > e.id)}
       IN \/ e \in ToSet(TunnelEvents(e.tunnel))
          \/ Cardinality({f \in newer : f.tunnel = e.tunnel}) >= TunnelLimit
          \/ Cardinality(newer) >= ListLimit
  /\ \A n \in 1..MaxLimit : IsPrefix(APIEvents(n), APIEvents(n + 1))
=============================================================================
