-------------------------- MODULE PollCycleProofs --------------------------
(* Theorems about the poll round, for every size of the account.           *)
EXTENDS PollCycle, TLAPS

LogProofs == INSTANCE TransitionLogProofs WITH Times <- 0..MaxClock

-----------------------------------------------------------------------------
(* The local state of a round.                                             *)

\* The values a round starts from are of the declared kinds.
LEMMA FreshTypes ==
  /\ NoFleet \in Fleet /\ NoJob \in Job
  /\ NoStatus \in [Tunnels -> Statuses \cup {None}]
BY DEF NoFleet, Fleet, NoJob, Job, NoStatus, StoredRules

\* An update of the local variables of one round keeps them typed.
LEMMA SetTypes ==
  ASSUME NEW p \in Pollers, NEW work \in Job, job \in [Pollers -> Job], Set(p, work)
  PROVE  job' \in [Pollers -> Job] /\ job'[p] = work /\ \A q \in Pollers \ {p} : job'[q] = job[q]
BY DEF Set

\* A step of one round to another label keeps the program counters typed.
LEMMA GotoTypes ==
  ASSUME NEW p \in Pollers, NEW label \in Labels, pc \in [Pollers -> Labels], Goto(p, label)
  PROVE  pc' \in [Pollers -> Labels] /\ pc'[p] = label /\ \A q \in Pollers \ {p} : pc'[q] = pc[q]
BY DEF Goto

\* The loop over the tunnels takes a round to a tunnel or to the log.
LEMMA AdvanceTypes ==
  ASSUME NEW p \in Pollers, NEW work \in Job, Stations, Advance(p, work)
  PROVE  Stations' /\ pc'[p] \in {"log", "connectors"} /\ \A q \in Pollers \ {p} : pc'[q] = pc[q]
<1> DEFINE fresh == [work EXCEPT !.tunnel = None, !.tunnelEvents = {}, !.fleet = NoFleet,
                                 !.oldFleet = NoFleet, !.rules = 0, !.oldRules = 0]
<1>1. fresh \in Job
  BY FreshTypes DEF Job, StoredRules
<1>2. ASSUME NEW t \in work.todo
      PROVE  /\ [fresh EXCEPT !.tunnel = t, !.todo = work.todo \ {t}] \in Job
             /\ [fresh EXCEPT !.tunnel = t, !.todo = work.todo \ {t}].tunnel = t
             /\ t \in Tunnels
  BY <1>1 DEF Job
<1> HIDE DEF fresh
<1>3. CASE Goto(p, "log") /\ Set(p, fresh)
  BY <1>1, <1>3, SetTypes, GotoTypes DEF Stations, Labels, SyncLabels, ListLabels
<1>4. ASSUME NEW t \in work.todo, Goto(p, "connectors"),
             Set(p, [fresh EXCEPT !.tunnel = t, !.todo = work.todo \ {t}])
      PROVE  Stations' /\ pc'[p] \in {"log", "connectors"} /\ \A q \in Pollers \ {p} : pc'[q] = pc[q]
  <2> DEFINE next == [fresh EXCEPT !.tunnel = t, !.todo = work.todo \ {t}]
  <2>1. next \in Job /\ next.tunnel \in Tunnels
    BY <1>2
  <2> HIDE DEF next
  <2>2. job' \in [Pollers -> Job] /\ job'[p] = next /\ \A q \in Pollers \ {p} : job'[q] = job[q]
    BY <2>1, <1>4, SetTypes DEF Stations, next
  <2>3. /\ pc' \in [Pollers -> Labels] /\ pc'[p] = "connectors"
        /\ \A q \in Pollers \ {p} : pc'[q] = pc[q]
    BY <1>4, GotoTypes DEF Stations, Labels, SyncLabels
  <2>4. QED BY <2>1, <2>2, <2>3 DEF Stations
<1>5. QED BY <1>3, <1>4 DEF Advance, fresh

-----------------------------------------------------------------------------
(* Types.                                                                  *)

\* tunnelEvents builds well-formed events.
LEMMA TunnelEventTypes ==
  ASSUME NEW before \in [Tunnels -> Statuses \cup {None}],
         NEW after \in [Tunnels -> Statuses \cup {None}], NEW at \in Nat
  PROVE  TunnelEvents(before, after, at) \subseteq Entry
BY DEF TunnelEvents, Event, Entry, EventKinds, Log!Changed

\* connectorEvents builds well-formed events.
LEMMA ConnectorEventTypes ==
  ASSUME NEW t \in Tunnels, NEW before \in Fleet, NEW after \in Fleet, NEW at \in Nat
  PROVE  ConnectorEvents(t, before, after, at) \subseteq Entry
BY DEF ConnectorEvents, Event, Entry, EventKinds, Present, Fleet, Connector

\* A failure is charged to the bounded number of mishaps.
LEMMA MishapTypes ==
  ASSUME NEW p \in Pollers, WorldTypeOK, UNCHANGED world, Succeeds(p) \/ Fails(p)
  PROVE  WorldTypeOK'
BY NumberAssumption DEF WorldTypeOK, world, Succeeds, Fails

\* SaveTunnels builds well-formed history rows.
LEMMA RowTypes ==
  ASSUME NEW before \in [Tunnels -> Statuses \cup {None}],
         NEW after \in [Tunnels -> Statuses \cup {None}], NEW at \in Nat, commits \in Nat
  PROVE  Log!RowsOf(before, after, at) \subseteq Log!Row
BY DEF Log!RowsOf, Log!Row, Log!Changed

\* What a step leaves alone keeps its types.
LEMMA Frame ==
  /\ WorldTypeOK /\ UNCHANGED <<world, mishaps>> => WorldTypeOK'
  /\ Log!TypeOK /\ UNCHANGED statusTables => (Log!TypeOK)'
  /\ DetailTypeOK /\ UNCHANGED detailTables => DetailTypeOK'
  /\ LogTypeOK /\ UNCHANGED logTables => LogTypeOK'
  /\ MemoryTypeOK /\ UNCHANGED memory => MemoryTypeOK'
  /\ ViewTypeOK /\ UNCHANGED view => ViewTypeOK'
  /\ Stations /\ UNCHANGED <<pc, job>> => Stations'
BY DEF WorldTypeOK, world, Log!TypeOK, statusTables, DetailTypeOK, detailTables, LogTypeOK,
       logTables, MemoryTypeOK, memory, ViewTypeOK, view, Stations

\* A round moves on without changing station: the label is the only news.
LEMMA StationTypes ==
  ASSUME NEW p \in Pollers, NEW label \in Labels, NEW work \in Job, Stations,
         Goto(p, label), Set(p, work), label \in SyncLabels => work.tunnel \in Tunnels
  PROVE  Stations'
<1>1. job' \in [Pollers -> Job] /\ job'[p] = work /\ \A q \in Pollers \ {p} : job'[q] = job[q]
  BY SetTypes DEF Stations
<1>2. pc' \in [Pollers -> Labels] /\ pc'[p] = label /\ \A q \in Pollers \ {p} : pc'[q] = pc[q]
  BY GotoTypes DEF Stations
<1>3. QED BY <1>1, <1>2 DEF Stations

\* The same when the local variables stay.
LEMMA LabelTypes ==
  ASSUME NEW p \in Pollers, NEW label \in Labels, Stations, Goto(p, label), job' = job,
         label \in SyncLabels => job[p].tunnel \in Tunnels
  PROVE  Stations'
<1>1. pc' \in [Pollers -> Labels] /\ pc'[p] = label /\ \A q \in Pollers \ {p} : pc'[q] = pc[q]
  BY GotoTypes DEF Stations
<1>2. QED BY <1>1 DEF Stations

\* The end of a round.
LEMMA EndTypes ==
  ASSUME NEW p \in Pollers, Stations, ViewTypeOK, End(p)
  PROVE  Stations' /\ ViewTypeOK'
<1>1. Stations'
  BY FreshTypes, StationTypes DEF End, Labels, SyncLabels
<1>2. ViewTypeOK'
  BY FreshTypes, NumberAssumption DEF End, ViewTypeOK
<1>3. QED BY <1>1, <1>2

\* A change of the account or a tick of the clock.
LEMMA WorldTypes ==
  ASSUME TypeOK, (\E t \in Tunnels : Account(t)) \/ Tick
  PROVE  TypeOK'
<1>1. ASSUME NEW t \in Tunnels, NEW state \in CloudTunnel \cup {None}, Cloud(t, state)
      PROVE  TypeOK'
  BY <1>1, Frame, NumberAssumption
     DEF Cloud, TypeOK, WorldTypeOK, database, round, view
<1>2. ASSUME NEW t \in Tunnels, Account(t) PROVE TypeOK'
  <2>1. CASE CloudList(t)
    BY <1>1, <2>1, FreshTypes DEF CloudList, CloudTunnel
  <2>2. CASE CloudDelete(t)
    BY <1>1, <2>2 DEF CloudDelete
  <2>3. CASE CloudStatus(t)
    BY <1>1, <2>3 DEF CloudStatus, CloudTunnel, TypeOK, WorldTypeOK
  <2>4. CASE CloudConnector(t)
    <3>1. PICK c \in Connectors, row \in Connector \cup {None} :
            Cloud(t, [cloud[t] EXCEPT !.fleet[c] = row])
      BY <2>4 DEF CloudConnector
    <3>2. cloud[t] \in CloudTunnel
      BY <2>4 DEF CloudConnector, TypeOK, WorldTypeOK
    <3>3. [cloud[t] EXCEPT !.fleet[c] = row] \in CloudTunnel
      BY <3>2 DEF CloudTunnel, Fleet
    <3>4. QED BY <1>1, <3>1, <3>3
  <2>5. CASE CloudPublish(t)
    BY <1>1, <2>5 DEF CloudPublish, CloudTunnel, TypeOK, WorldTypeOK
  <2>6. QED BY <1>2, <2>1, <2>2, <2>3, <2>4, <2>5 DEF Account
<1>3. CASE Tick
  BY <1>3, Frame, NumberAssumption DEF Tick, TypeOK, WorldTypeOK, database, round, view
<1>4. QED BY <1>2, <1>3

\* The steps of poll before the tunnels are visited one by one.
LEMMA ListTypes ==
  ASSUME TypeOK, NEW p \in Pollers,
         Begin(p) \/ ListTunnels(p) \/ ReadTunnels(p) \/ SaveTunnels(p) \/ ReadCycle(p) \/ FailList(p)
  PROVE  TypeOK'
<1> USE DEF TypeOK, database
<1>0. job[p] \in Job
  BY DEF Stations
<1>1. CASE Begin(p)
  <2>1. Stations' BY <1>1, LabelTypes DEF Begin, Labels, ListLabels, SyncLabels
  <2>2. ViewTypeOK' BY <1>1 DEF Begin, ViewTypeOK, WorldTypeOK
  <2>3. QED BY <1>1, <2>1, <2>2, Frame DEF Begin
<1>2. CASE ListTunnels(p)
  <2> DEFINE work == [job[p] EXCEPT !.links =
        [t \in Tunnels |-> IF cloud[t] = None THEN {} ELSE Present(cloud[t].fleet)]]
  <2>1. work \in Job BY <1>0 DEF Job, Present
  <2>2. Stations'
    BY <1>2, <2>1, StationTypes DEF ListTunnels, Labels, ListLabels, SyncLabels
  <2>3. ViewTypeOK'
    BY <1>2 DEF ListTunnels, ViewTypeOK, WorldTypeOK, CloudTunnel
  <2>4. WorldTypeOK'
    BY <1>2, MishapTypes DEF ListTunnels
  <2>5. QED BY <1>2, <2>2, <2>3, <2>4, Frame DEF ListTunnels
<1>3. CASE ReadTunnels(p)
  <2>1. Stations'
    BY <1>3, LabelTypes DEF ReadTunnels, Labels, ListLabels, SyncLabels
  <2>2. ViewTypeOK'
    BY <1>3 DEF ReadTunnels, ViewTypeOK, Log!TypeOK
  <2>3. WorldTypeOK'
    BY <1>3, MishapTypes DEF ReadTunnels
  <2>4. QED BY <1>3, <2>1, <2>2, <2>3, Frame DEF ReadTunnels
<1>4. CASE SaveTunnels(p)
  <2>1. /\ previous[p] \in [Tunnels -> Statuses \cup {None}]
        /\ listed[p] \in [Tunnels -> Statuses \cup {None}]
        /\ started[p] \in Nat
    BY NumberAssumption DEF ViewTypeOK
  <2> DEFINE work == [job[p] EXCEPT
        !.events = TunnelEvents(previous[p], listed[p], started[p]),
        !.todo = {t \in Tunnels : listed[p][t] # None}]
  <2>2. work \in Job BY <1>0, <2>1, TunnelEventTypes DEF Job
  <2>3. Stations'
    BY <1>4, <2>2, StationTypes DEF SaveTunnels, Labels, SyncLabels, ListLabels
  <2>4. (Log!TypeOK)'
    BY <1>4, <2>1, RowTypes DEF SaveTunnels, Log!AppendRows, Log!TypeOK
  <2>5. DetailTypeOK'
    BY <1>4, FreshTypes DEF SaveTunnels, Purge, DetailTypeOK, StoredRules
  <2>6. WorldTypeOK'
    BY <1>4, MishapTypes DEF SaveTunnels
  <2>7. QED BY <1>4, <2>3, <2>4, <2>5, <2>6, Frame DEF SaveTunnels
<1>5. CASE ReadCycle(p)
  <2>1. [job[p] EXCEPT !.force = Forced(cycles)] \in Job
    BY <1>0 DEF Job, Forced
  <2>2. Stations' BY <1>5, <2>1, AdvanceTypes DEF ReadCycle
  <2>3. QED BY <1>5, <2>2, Frame DEF ReadCycle
<1>6. CASE FailList(p)
  <2>1. [job[p] EXCEPT !.failed = TRUE] \in Job
    BY <1>0 DEF Job
  <2>2. Stations'
    BY <1>6, <2>1, StationTypes DEF FailList, Labels, SyncLabels
  <2>3. WorldTypeOK'
    BY <1>6, MishapTypes DEF FailList
  <2>4. QED BY <1>6, <2>2, <2>3, Frame DEF FailList
<1>7. QED BY <1>1, <1>2, <1>3, <1>4, <1>5, <1>6

\* The steps of syncTunnel.
LEMMA SyncTypes ==
  ASSUME TypeOK, NEW p \in Pollers,
         \/ ListConnectors(p) \/ ReadConnectors(p) \/ SaveConnectors(p) \/ SaveConnections(p)
         \/ CheckDrift(p) \/ GetConfiguration(p) \/ ReadIngress(p) \/ SaveIngress(p)
         \/ FailTunnel(p)
  PROVE  TypeOK'
<1> USE DEF TypeOK, database, detailTables
<1> DEFINE t == job[p].tunnel
<1>0. job[p] \in Job /\ t \in Tunnels
  BY DEF Stations, ListConnectors, ReadConnectors, SaveConnectors, SaveConnections, CheckDrift,
         GetConfiguration, ReadIngress, SaveIngress, FailTunnel, SyncLabels
<1>a. Collected(p) \in Job
  BY <1>0 DEF Collected, Job
<1>b. started[p] \in Nat
  BY NumberAssumption DEF ViewTypeOK
<1>1. CASE ListConnectors(p)
  <2>1. [job[p] EXCEPT !.fleet = cloud[t].fleet] \in Job
    BY <1>0, <1>1 DEF ListConnectors, Succeeds, Reachable, Job, WorldTypeOK, CloudTunnel
  <2>2. Stations'
    BY <1>0, <1>1, <2>1, StationTypes DEF ListConnectors, Labels, SyncLabels, Job
  <2>3. WorldTypeOK'
    BY <1>1, MishapTypes DEF ListConnectors
  <2>4. QED BY <1>1, <2>2, <2>3, Frame DEF ListConnectors
<1>2. CASE ReadConnectors(p)
  <2>1. [job[p] EXCEPT !.oldFleet = connectors[t]] \in Job
    BY <1>0 DEF Job, DetailTypeOK
  <2>2. Stations'
    BY <1>0, <1>2, <2>1, StationTypes DEF ReadConnectors, Labels, SyncLabels, Job
  <2>3. WorldTypeOK'
    BY <1>2, MishapTypes DEF ReadConnectors
  <2>4. QED BY <1>2, <2>2, <2>3, Frame DEF ReadConnectors
<1>3. CASE SaveConnectors(p)
  <2>1. ConnectorEvents(t, job[p].oldFleet, job[p].fleet, started[p]) \subseteq Entry
    BY <1>0, <1>b, ConnectorEventTypes DEF Job
  <2>2. [job[p] EXCEPT !.tunnelEvents =
           ConnectorEvents(t, job[p].oldFleet, job[p].fleet, started[p])] \in Job
    BY <1>0, <2>1 DEF Job
  <2>3. Stations'
    BY <1>0, <1>3, <2>2, StationTypes DEF SaveConnectors, Labels, SyncLabels, Job
  <2>4. DetailTypeOK'
    BY <1>0, <1>3 DEF SaveConnectors, DetailTypeOK, Job
  <2>5. WorldTypeOK'
    BY <1>3, MishapTypes DEF SaveConnectors
  <2>6. QED BY <1>3, <2>3, <2>4, <2>5, Frame DEF SaveConnectors
<1>4. CASE SaveConnections(p)
  <2>1. Stations'
    BY <1>0, <1>4, LabelTypes DEF SaveConnections, Labels, SyncLabels
  <2>2. DetailTypeOK'
    BY <1>0, <1>4 DEF SaveConnections, DetailTypeOK, Job
  <2>3. WorldTypeOK'
    BY <1>4, MishapTypes DEF SaveConnections
  <2>4. QED BY <1>4, <2>1, <2>2, <2>3, Frame DEF SaveConnections
<1>5. CASE CheckDrift(p)
  <2>1. Stations'
    BY <1>0, <1>a, <1>5, LabelTypes, AdvanceTypes DEF CheckDrift, Labels, SyncLabels
  <2>2. WorldTypeOK'
    BY <1>5, MishapTypes DEF CheckDrift
  <2>3. QED BY <1>5, <2>1, <2>2, Frame DEF CheckDrift
<1>6. CASE GetConfiguration(p)
  <2>1. [job[p] EXCEPT !.rules = Rules(cloud[t].config)] \in Job
    BY <1>0, <1>6 DEF GetConfiguration, Succeeds, Reachable, Job, WorldTypeOK, CloudTunnel,
                      Rules, StoredRules
  <2>2. Stations'
    BY <1>0, <1>6, <2>1, StationTypes DEF GetConfiguration, Labels, SyncLabels, Job
  <2>3. WorldTypeOK'
    BY <1>6, MishapTypes DEF GetConfiguration
  <2>4. QED BY <1>6, <2>2, <2>3, Frame DEF GetConfiguration
<1>7. CASE ReadIngress(p)
  <2>1. [job[p] EXCEPT !.oldRules = ingress[t]] \in Job
    BY <1>0 DEF Job, DetailTypeOK
  <2>2. Stations'
    BY <1>0, <1>7, <2>1, StationTypes DEF ReadIngress, Labels, SyncLabels, Job
  <2>3. WorldTypeOK'
    BY <1>7, MishapTypes DEF ReadIngress
  <2>4. QED BY <1>7, <2>2, <2>3, Frame DEF ReadIngress
<1>8. CASE SaveIngress(p)
  <2> DEFINE event == Event("config_changed", t, None, None, None, started[p])
             work == [Collected(p) EXCEPT !.events =
                        @ \cup IF job[p].rules # job[p].oldRules THEN {event} ELSE {}]
  <2>1. event \in Entry
    BY <1>0, <1>b DEF Event, Entry, EventKinds
  <2>2. work \in Job
    BY <1>a, <2>1 DEF Job
  <2>3. Stations'
    BY <1>8, <2>2, AdvanceTypes DEF SaveIngress
  <2>4. DetailTypeOK'
    BY <1>0, <1>8 DEF SaveIngress, DetailTypeOK, Job
  <2>5. WorldTypeOK'
    BY <1>8, MishapTypes DEF SaveIngress
  <2>6. QED BY <1>8, <2>3, <2>4, <2>5, Frame DEF SaveIngress
<1>9. CASE FailTunnel(p)
  <2>1. [job[p] EXCEPT !.failed = TRUE] \in Job
    BY <1>0 DEF Job
  <2>2. Stations'
    BY <1>9, <2>1, AdvanceTypes DEF FailTunnel
  <2>3. WorldTypeOK'
    BY <1>9, MishapTypes DEF FailTunnel
  <2>4. QED BY <1>9, <2>2, <2>3, Frame DEF FailTunnel
<1>10. QED BY <1>1, <1>2, <1>3, <1>4, <1>5, <1>6, <1>7, <1>8, <1>9

\* Writing events keeps the log typed.
LEMMA AddEventsTypes ==
  ASSUME LogTypeOK, NEW entries \in SUBSET Entry, AddEvents(entries)
  PROVE  LogTypeOK'
BY DEF AddEvents, LogTypeOK

\* The steps from the event log to the end of the round.
LEMMA RecordTypes ==
  ASSUME TypeOK, NEW p \in Pollers,
         LogEvents(p) \/ RecordStatus(p) \/ LogFailure(p) \/ AddPollRun(p) \/ Prune(p)
  PROVE  TypeOK'
<1> USE DEF TypeOK, database, logTables
<1>0. job[p] \in Job
  BY DEF Stations
<1>b. started[p] \in Nat
  BY NumberAssumption DEF ViewTypeOK
<1>1. CASE LogEvents(p)
  <2>1. [job[p] EXCEPT !.events = {}] \in Job
    BY <1>0 DEF Job
  <2>2. Stations'
    BY <1>1, <2>1, StationTypes DEF LogEvents, Labels, SyncLabels, ListLabels
  <2>3. WorldTypeOK'
    BY <1>1, MishapTypes, Frame DEF LogEvents
  <2>4. LogTypeOK'
    <3>1. job[p].events \in SUBSET Entry
      BY <1>0 DEF Job
    <3>2. QED BY <1>1, <3>1, AddEventsTypes, Frame DEF LogEvents
  <2>5. QED BY <1>1, <2>2, <2>3, <2>4, Frame DEF LogEvents
<1>2. CASE RecordStatus(p)
  <2>1. [NoJob EXCEPT !.failed = job[p].failed, !.prune = (cycles' % PruneEvery = 0)] \in Job
    BY <1>0, FreshTypes DEF Job
  <2>2. Stations'
    BY <1>2, <2>1, StationTypes DEF RecordStatus, Labels, SyncLabels, ListLabels
  <2>3. MemoryTypeOK'
    BY <1>0, <1>b, <1>2, NumberAssumption DEF RecordStatus, MemoryTypeOK, Job
  <2>4. QED BY <1>2, <2>2, <2>3, Frame DEF RecordStatus
<1>3. CASE LogFailure(p)
  <2>1. Stations'
    BY <1>3, LabelTypes DEF LogFailure, Labels, SyncLabels
  <2>2. WorldTypeOK'
    BY <1>3, MishapTypes DEF LogFailure
  <2>3. LogTypeOK'
    <3>1. {Event("poll_failed", None, None, None, None, started[p])} \in SUBSET Entry
      BY <1>b DEF Event, Entry, EventKinds
    <3>2. QED BY <1>3, <3>1, AddEventsTypes, Frame DEF LogFailure
  <2>4. QED BY <1>3, <2>1, <2>2, <2>3, Frame DEF LogFailure
<1>4. CASE AddPollRun(p)
  <2>1. Stations' /\ ViewTypeOK'
    <3>1. CASE job[p].prune
      BY <1>4, <3>1, LabelTypes, Frame DEF AddPollRun, Labels, SyncLabels
    <3>2. CASE ~job[p].prune
      BY <1>4, <3>2, EndTypes DEF AddPollRun
    <3>3. QED BY <3>1, <3>2
  <2>2. LogTypeOK'
    <3>1. (~job[p].failed) \in BOOLEAN
      OBVIOUS
    <3>2. [at |-> started[p], ok |-> ~job[p].failed] \in [at: Nat, ok: BOOLEAN]
      BY <1>b, <3>1
    <3>3. QED BY <1>4, <3>2 DEF AddPollRun, LogTypeOK
  <2>3. WorldTypeOK'
    BY <1>4, MishapTypes DEF AddPollRun
  <2>4. QED BY <1>4, <2>1, <2>2, <2>3, Frame DEF AddPollRun
<1>5. CASE Prune(p)
  <2>1. Stations' /\ ViewTypeOK'
    BY <1>5, EndTypes DEF Prune
  <2>2. LogTypeOK' /\ (Log!TypeOK)'
    BY <1>5 DEF Prune, LogTypeOK, Log!Prune, Log!TypeOK, statusTables
  <2>3. WorldTypeOK'
    BY <1>5, MishapTypes DEF Prune
  <2>4. QED BY <1>5, <2>1, <2>2, <2>3, Frame DEF Prune
<1>6. QED BY <1>1, <1>2, <1>3, <1>4, <1>5

\* A process that has just started is typed.
LEMMA IdleTypes ==
  /\ AllIdle \in [Pollers -> Labels] /\ NoContext \in [Pollers -> BOOLEAN]
  /\ NoStart \in [Pollers -> 0..MaxClock]
  /\ NoTable \in [Pollers -> [Tunnels -> Statuses \cup {None}]]
  /\ NoJobs \in [Pollers -> Job]
  /\ \A p \in Pollers : AllIdle[p] \notin SyncLabels
<1>1. AllIdle \in [Pollers -> Labels] /\ \A p \in Pollers : AllIdle[p] \notin SyncLabels
  BY DEF AllIdle, Labels, SyncLabels
<1>2. NoStart \in [Pollers -> 0..MaxClock] /\ NoContext \in [Pollers -> BOOLEAN]
  BY NumberAssumption DEF NoStart, NoContext
<1>3. NoTable \in [Pollers -> [Tunnels -> Statuses \cup {None}]] /\ NoJobs \in [Pollers -> Job]
  BY FreshTypes DEF NoTable, NoJobs
<1>4. QED BY <1>1, <1>2, <1>3

\* An expired context and a restart.
LEMMA ProcessTypes ==
  ASSUME TypeOK, (\E p \in Pollers : Expire(p)) \/ Crash
  PROVE  TypeOK'
<1> USE DEF TypeOK, database
<1>1. ASSUME NEW p \in Pollers, Expire(p) PROVE TypeOK'
  <2>1. WorldTypeOK' /\ ViewTypeOK'
    BY <1>1, NumberAssumption DEF Expire, WorldTypeOK, world, ViewTypeOK
  <2>2. QED BY <1>1, <2>1, Frame DEF Expire
<1>2. CASE Crash
  <2>1. WorldTypeOK' /\ MemoryTypeOK'
    <3>1. WorldTypeOK'
      BY <1>2, NumberAssumption DEF Crash, WorldTypeOK, world
    <3>2. MemoryTypeOK'
      BY <1>2 DEF Crash, MemoryTypeOK
    <3>3. QED BY <3>1, <3>2
  <2>2. ViewTypeOK'
    BY <1>2, IdleTypes DEF Crash, ViewTypeOK
  <2>3. Stations'
    BY <1>2, IdleTypes DEF Crash, Stations
  <2>4. QED BY <1>2, <2>1, <2>2, <2>3, Frame DEF Crash
<1>3. QED BY <1>1, <1>2

\* A fresh installation is typed.
LEMMA InitTypes == Init => TypeOK
<1> SUFFICES ASSUME Init PROVE TypeOK
  OBVIOUS
<1>1. WorldTypeOK
  BY FreshTypes, NumberAssumption DEF Init, WorldTypeOK, CloudTunnel
<1>2. Log!TypeOK /\ DetailTypeOK /\ LogTypeOK /\ MemoryTypeOK
  BY FreshTypes DEF Init, Log!Init, Log!TypeOK, DetailTypeOK, StoredRules, LogTypeOK, MemoryTypeOK
<1>3. ViewTypeOK /\ Stations
  BY IdleTypes DEF Init, ViewTypeOK, Stations
<1>4. QED BY <1>1, <1>2, <1>3 DEF TypeOK

\* Every step keeps the types.
LEMMA StepTypes == TypeOK /\ [Next]_vars => TypeOK'
<1> SUFFICES ASSUME TypeOK, [Next]_vars PROVE TypeOK'
  OBVIOUS
<1>1. CASE UNCHANGED vars
  BY <1>1, Frame DEF TypeOK, vars, database, round, view
<1>2. ASSUME NEW p \in Pollers, PollOnce(p) PROVE TypeOK'
  BY <1>2, ListTypes, SyncTypes, RecordTypes DEF PollOnce, Poll
<1>3. QED BY <1>1, <1>2, WorldTypes, ProcessTypes DEF Next

\* Every reachable state is typed, for any number of pollers.
THEOREM TypeCorrect == Spec => []TypeOK
BY InitTypes, StepTypes, PTL DEF Spec

-----------------------------------------------------------------------------
(* One round at a time implements the abstract log.                        *)

OnePoller == \A p, q \in Pollers : p = q

\* What one poller maintains: timestamps do not run ahead of the clock, rows are
\* no younger than a round that has yet to commit its list, and what that round
\* read of the table still holds when it writes.
Serial ==
  /\ \A r \in history : r.at <= clock
  /\ \A p \in Pollers :
       /\ started[p] <= clock
       /\ pc[p] \in ListLabels => \A r \in history : r.at <= started[p]
       /\ pc[p] = "save" => previous[p] = tunnels

\* A step of a round after its list was committed or abandoned.
AfterList(p) ==
  \/ ReadCycle(p) \/ FailList(p)
  \/ ListConnectors(p) \/ ReadConnectors(p) \/ SaveConnectors(p) \/ SaveConnections(p)
  \/ CheckDrift(p) \/ GetConfiguration(p) \/ ReadIngress(p) \/ SaveIngress(p) \/ FailTunnel(p)
  \/ LogEvents(p) \/ RecordStatus(p) \/ LogFailure(p) \/ AddPollRun(p)

\* Such a step leaves the status tables and the clock alone and does not go back.
LEMMA AfterListFrame ==
  ASSUME TypeOK, NEW p \in Pollers, AfterList(p)
  PROVE  /\ UNCHANGED <<tunnels, history, commits, clock>>
         /\ pc'[p] \notin ListLabels
         /\ started'[p] \in {0, started[p]}
<1>1. UNCHANGED <<tunnels, history, commits, clock>>
  BY DEF AfterList, ReadCycle, FailList, ListConnectors, ReadConnectors, SaveConnectors,
         SaveConnections, CheckDrift, GetConfiguration, ReadIngress, SaveIngress, FailTunnel,
         LogEvents, RecordStatus, LogFailure, AddPollRun, world, database, statusTables
<1>2. pc'[p] \notin ListLabels
  BY DEF AfterList, ReadCycle, FailList, ListConnectors, ReadConnectors, SaveConnectors,
         SaveConnections, CheckDrift, GetConfiguration, ReadIngress, SaveIngress, FailTunnel,
         LogEvents, RecordStatus, LogFailure, AddPollRun, Advance, End, Goto, ListLabels,
         TypeOK, Stations
<1>3. started'[p] \in {0, started[p]}
  BY DEF AfterList, ReadCycle, FailList, ListConnectors, ReadConnectors, SaveConnectors,
         SaveConnections, CheckDrift, GetConfiguration, ReadIngress, SaveIngress, FailTunnel,
         LogEvents, RecordStatus, LogFailure, AddPollRun, End, view, TypeOK, ViewTypeOK
<1>4. QED BY <1>1, <1>2, <1>3

\* The commit of the list is an observation of the abstract store.
LEMMA SaveObserves ==
  ASSUME TypeOK, Serial, NEW p \in Pollers, SaveTunnels(p)
  PROVE  Log!Observe(listed[p], started[p])
<1>1. /\ previous[p] = tunnels
      /\ \A r \in history : r.at <= started[p]
  BY DEF Serial, SaveTunnels, ListLabels
<1>2. tunnels' = listed[p]
  <2>1. /\ listed[p] \in [Tunnels -> Statuses \cup {None}]
        /\ tunnels' = [t \in Tunnels |->
             IF listed[p][t] # None THEN listed[p][t]
             ELSE IF t \in {u \in Tunnels : tunnels[u] # None /\ listed[p][u] = None}
                  THEN None ELSE tunnels[t]]
    BY <1>1 DEF SaveTunnels, TypeOK, ViewTypeOK
  <2>2. \A t \in Tunnels : tunnels'[t] = listed[p][t]
    BY <2>1
  <2>3. QED BY <2>1, <2>2
<1>3. QED BY <1>1, <1>2 DEF SaveTunnels, Log!Observe

\* One poller keeps Serial.
LEMMA StepSerial ==
  ASSUME OnePoller, TypeOK, Serial, [Next]_vars
  PROVE  Serial'
<1>0. clock \in Nat /\ (\A p \in Pollers : started[p] \in Nat) /\ history \subseteq Log!Row
  BY NumberAssumption DEF TypeOK, WorldTypeOK, ViewTypeOK, Log!TypeOK
<1>1. CASE Tick \/ (\E t \in Tunnels : Account(t))
  <2>1. clock' \in Nat /\ clock' >= clock /\ UNCHANGED <<history, tunnels, pc, started, previous>>
    <3>1. CASE Tick
      BY <1>0, <3>1 DEF Tick, database, statusTables, round
    <3>2. CASE \E t \in Tunnels : Account(t)
      <4>1. PICK t \in Tunnels : \E state : Cloud(t, state)
        BY <3>2 DEF Account, CloudList, CloudDelete, CloudStatus, CloudConnector, CloudPublish
      <4>2. QED BY <1>0, <4>1 DEF Cloud, database, statusTables, round
    <3>3. QED BY <1>1, <3>1, <3>2
  <2>2. \A r \in history : r.at \in Nat
    BY <1>0 DEF Log!Row
  <2>3. QED BY <1>0, <2>1, <2>2 DEF Serial
<1>2. ASSUME NEW p \in Pollers, Begin(p) PROVE Serial'
  BY <1>0, <1>2 DEF OnePoller, Serial, Begin, Goto, TypeOK, Stations, ViewTypeOK, ListLabels,
     world, database, statusTables
<1>3. ASSUME NEW p \in Pollers, ListTunnels(p) PROVE Serial'
  BY <1>3 DEF OnePoller, Serial, ListTunnels, Goto, TypeOK, Stations, ListLabels,
     world, database, statusTables
<1>4. ASSUME NEW p \in Pollers, ReadTunnels(p) PROVE Serial'
  BY <1>4 DEF OnePoller, Serial, ReadTunnels, Goto, TypeOK, Stations, ViewTypeOK, ListLabels,
     world, database, statusTables
<1>5. ASSUME NEW p \in Pollers, SaveTunnels(p) PROVE Serial'
  <2>1. /\ history' = history \cup Log!RowsOf(tunnels, listed[p], started[p])
        /\ UNCHANGED <<clock, started>>
    BY <1>5, SaveObserves DEF Log!Observe, Log!AppendRows, SaveTunnels, world, view
  <2>2. \A r \in Log!RowsOf(tunnels, listed[p], started[p]) : r.at = started[p]
    BY DEF Log!RowsOf
  <2>3. pc'[p] = "cycle"
    BY <1>5 DEF SaveTunnels, Goto, TypeOK, Stations
  <2>4. QED BY <2>1, <2>2, <2>3 DEF OnePoller, Serial, ListLabels
<1>6. ASSUME NEW p \in Pollers, AfterList(p) PROVE Serial'
  BY <1>0, <1>6, AfterListFrame DEF OnePoller, Serial, ListLabels
<1>7. ASSUME NEW p \in Pollers, Prune(p) PROVE Serial'
  <2>1. history' \subseteq history /\ clock' = clock
    BY <1>7 DEF Prune, Log!Prune, statusTables, world
  <2>2. pc'[p] = "idle" /\ started'[p] = 0
    BY <1>7 DEF Prune, End, Goto, TypeOK, Stations, ViewTypeOK
  <2>3. QED BY <1>0, <2>1, <2>2 DEF OnePoller, Serial, ListLabels
<1>8. ASSUME NEW p \in Pollers, Expire(p) PROVE Serial'
  BY <1>8 DEF Expire, Serial, world, database, statusTables
<1>9. CASE Crash
  <2>1. /\ UNCHANGED <<history, clock>>
        /\ \A p \in Pollers : pc'[p] = "idle" /\ started'[p] = 0
    BY <1>9 DEF Crash, AllIdle, NoStart, world, database, statusTables
  <2>2. QED BY <1>0, <2>1 DEF Serial, ListLabels
<1>10. CASE UNCHANGED vars
  BY <1>10 DEF vars, Serial, world, database, statusTables, round
<1>11. QED
  BY <1>1, <1>2, <1>3, <1>4, <1>5, <1>6, <1>7, <1>8, <1>9, <1>10
     DEF Next, PollOnce, Poll, AfterList

\* Every step of one poller is a step of the abstract log, or none of its.
LEMMA StepRefines ==
  ASSUME OnePoller, TypeOK, Serial, [Next]_vars
  PROVE  [Log!Next]_(Log!vars)
<1>1. ASSUME NEW p \in Pollers, SaveTunnels(p) PROVE Log!Next
  BY <1>1, SaveObserves DEF Log!Next, TypeOK, ViewTypeOK
<1>2. ASSUME NEW p \in Pollers, Prune(p) PROVE [Log!Next]_(Log!vars)
  <2>1. CASE UNCHANGED statusTables
    BY <2>1 DEF statusTables, Log!vars
  <2> DEFINE cutoff == started[p] - Retention
  <2>2. CASE Log!Prune(cutoff) /\ cutoff \in 0..MaxClock
    BY <2>2 DEF Log!Next
  <2>3. CASE Log!Prune(cutoff) /\ cutoff \notin 0..MaxClock
    <3>1. started[p] \in 0..MaxClock /\ Retention \in Nat /\ MaxClock \in Nat
      BY NumberAssumption DEF TypeOK, ViewTypeOK
    <3>2. cutoff < 0
      BY <2>3, <3>1
    <3>3. \A r \in history : r.at >= cutoff
      BY <3>1, <3>2 DEF TypeOK, Log!TypeOK, Log!Row
    <3>4. UNCHANGED Log!vars
      BY <2>3, <3>3 DEF Log!Prune, Log!vars
    <3>5. QED BY <3>4
  <2>4. QED BY <1>2, <2>1, <2>2, <2>3 DEF Prune
<1>3. ASSUME NEW p \in Pollers,
             AfterList(p) \/ Begin(p) \/ ListTunnels(p) \/ ReadTunnels(p) \/ Expire(p)
      PROVE  UNCHANGED Log!vars
  BY <1>3, AfterListFrame
     DEF Begin, ListTunnels, ReadTunnels, Expire, database, statusTables, Log!vars
<1>4. CASE Tick \/ Crash \/ UNCHANGED vars \/ (\E t \in Tunnels : Account(t))
  BY <1>4 DEF Tick, Crash, vars, Account, CloudList, CloudDelete, CloudStatus, CloudConnector,
     CloudPublish, Cloud, database, statusTables, Log!vars
<1>5. QED BY <1>1, <1>2, <1>3, <1>4 DEF Next, PollOnce, Poll, AfterList

\* With one poller Serial is an invariant.
LEMMA SerialInvariant ==
  ASSUME OnePoller
  PROVE  Spec => [](TypeOK /\ Serial)
<1>1. Init => Serial
  <2> SUFFICES ASSUME Init PROVE Serial
    OBVIOUS
  <2>1. history = {} /\ clock = 0 /\ \A p \in Pollers : pc[p] = "idle" /\ started[p] = 0
    BY DEF Init, Log!Init, AllIdle, NoStart
  <2>2. QED BY <2>1 DEF Serial, ListLabels
<1>2. Serial /\ TypeOK /\ [Next]_vars => Serial'
  BY OnePoller, StepSerial
<1>3. QED BY <1>1, <1>2, TypeCorrect, PTL DEF Spec

\* With one poller the reads and writes of SaveTunnels, failures, expired
\* contexts, crashes and pruning included, implement the abstract log in which
\* a snapshot is compared and committed in one step.
THEOREM OnePollerImplementsLog ==
  ASSUME OnePoller
  PROVE  Spec => ImplementsLog
<1>1. Init => Log!Init
  BY DEF Init
<1>2. TypeOK /\ Serial /\ [Next]_vars => [Log!Next]_(Log!vars)
  BY OnePoller, StepRefines
<1>3. QED BY <1>1, <1>2, SerialInvariant, OnePoller, PTL DEF Spec, ImplementsLog, Log!Spec

\* So with one poller the stored status always agrees with the history, and
\* the history holds transitions only.
THEOREM OnePollerHistory ==
  ASSUME OnePoller
  PROVE  Spec => [](StatusAgreesWithHistory /\ HistoryIsTransitions)
<1> USE DEF LogProofs!Inv, LogProofs!TypeOK, LogProofs!Row, LogProofs!Agreement,
            LogProofs!Transitions, LogProofs!Latest, LogProofs!Precedes
<1>1. 0..MaxClock \subseteq Nat
  BY NumberAssumption
<1>2. Log!Init => LogProofs!Inv
  BY <1>1, NoneAssumption, LogProofs!InitInv DEF Log!Init, LogProofs!Init
<1>3. LogProofs!Inv /\ [Log!Next]_(Log!vars) => LogProofs!Inv'
  BY <1>1, NoneAssumption, LogProofs!StepPreserves
     DEF Log!Next, Log!Observe, Log!Prune, Log!AppendRows, Log!RowsOf, Log!Changed, Log!vars,
         LogProofs!Next, LogProofs!Observe, LogProofs!Prune, LogProofs!AppendRows,
         LogProofs!RowsOf, LogProofs!Changed, LogProofs!vars
<1>4. LogProofs!Inv => StatusAgreesWithHistory /\ HistoryIsTransitions
  BY DEF StatusAgreesWithHistory, HistoryIsTransitions, Log!Agreement, Log!Transitions,
         Log!Latest, Log!Precedes
<1>5. QED
  BY <1>2, <1>3, <1>4, OnePollerImplementsLog, OnePoller, PTL DEF ImplementsLog, Log!Spec

\* In particular the rows of a tunnel form a chain: each leaves the status the
\* one before it entered, so the time between two rows has one status.
THEOREM OnePollerTransitions ==
  ASSUME OnePoller
  PROVE  Spec => []HistoryIsTransitions
<1>1. StatusAgreesWithHistory /\ HistoryIsTransitions => HistoryIsTransitions
  OBVIOUS
<1>2. QED BY <1>1, OnePollerHistory, OnePoller, PTL

-----------------------------------------------------------------------------
(* What holds however many rounds run at once, as long as retention has    *)
(* not started to delete.                                                  *)

NothingPruned == Retention >= MaxClock

\* Then no step removes a history row.
LEMMA HistoryGrows ==
  ASSUME NothingPruned, TypeOK, [Next]_vars
  PROVE  history \subseteq history'
<1>1. ASSUME NEW p \in Pollers, SaveTunnels(p) PROVE history \subseteq history'
  BY <1>1 DEF SaveTunnels, Log!AppendRows
<1>2. ASSUME NEW p \in Pollers, Prune(p) PROVE history \subseteq history'
  <2>1. started[p] \in 0..MaxClock /\ Retention \in Nat /\ MaxClock \in Nat
    BY NumberAssumption DEF TypeOK, ViewTypeOK
  <2>2. \A r \in history : r.at >= started[p] - Retention
    BY <2>1 DEF NothingPruned, TypeOK, Log!TypeOK, Log!Row
  <2>3. QED BY <1>2, <2>2 DEF Prune, Log!Prune, statusTables
<1>3. ASSUME NEW p \in Pollers,
             AfterList(p) \/ Begin(p) \/ ListTunnels(p) \/ ReadTunnels(p) \/ Expire(p)
      PROVE  history \subseteq history'
  BY <1>3, AfterListFrame DEF Begin, ListTunnels, ReadTunnels, Expire, database, statusTables
<1>4. CASE Tick \/ Crash \/ UNCHANGED vars \/ (\E t \in Tunnels : Account(t))
  BY <1>4 DEF Tick, Crash, vars, Account, CloudList, CloudDelete, CloudStatus, CloudConnector,
     CloudPublish, Cloud, database, statusTables
<1>5. QED BY <1>1, <1>2, <1>3, <1>4 DEF Next, PollOnce, Poll, AfterList

Recorded(rows, t, status) == \E r \in rows : r.tunnel = t /\ r.status = status

\* Every status in the table, and every status a round has read from it to
\* compare with, was once recorded.
RecordedInv ==
  /\ \A t \in Tunnels : tunnels[t] # None => Recorded(history, t, tunnels[t])
  /\ \A p \in Pollers, t \in Tunnels :
       pc[p] = "save" /\ previous[p][t] # None => Recorded(history, t, previous[p][t])

\* Every step, of any number of pollers, keeps RecordedInv.
LEMMA StepRecorded ==
  ASSUME NothingPruned, TypeOK, RecordedInv, [Next]_vars
  PROVE  RecordedInv'
<1>0. history \subseteq history'
  BY HistoryGrows
<1>a. \A t, s : Recorded(history, t, s) => Recorded(history', t, s)
  BY <1>0 DEF Recorded
<1>1. ASSUME NEW p \in Pollers, ReadTunnels(p) PROVE RecordedInv'
  BY <1>a, <1>1 DEF RecordedInv, ReadTunnels, Goto, TypeOK, Stations, ViewTypeOK,
     database, statusTables
<1>2. ASSUME NEW p \in Pollers, SaveTunnels(p) PROVE RecordedInv'
  <2>1. /\ listed[p] \in [Tunnels -> Statuses \cup {None}]
        /\ Log!RowsOf(previous[p], listed[p], started[p]) \subseteq history'
        /\ previous' = previous
        /\ pc[p] = "save" /\ pc'[p] = "cycle" /\ \A q \in Pollers \ {p} : pc'[q] = pc[q]
    BY <1>2 DEF SaveTunnels, Log!AppendRows, view, Goto, TypeOK, Stations, ViewTypeOK
  <2>2. ASSUME NEW t \in Tunnels, tunnels'[t] # None PROVE Recorded(history', t, tunnels'[t])
    <3>1. CASE listed[p][t] = None
      <4>1. tunnels'[t] = tunnels[t]
        BY <1>2, <2>2, <3>1 DEF SaveTunnels
      <4>2. QED BY <4>1, <2>2, <1>a DEF RecordedInv
    <3>2. CASE listed[p][t] # None /\ listed[p][t] = previous[p][t]
      <4>1. tunnels'[t] = previous[p][t]
        BY <1>2, <3>2 DEF SaveTunnels
      <4>2. QED BY <4>1, <2>1, <2>2, <1>a DEF RecordedInv
    <3>3. CASE listed[p][t] # None /\ listed[p][t] # previous[p][t]
      <4>1. tunnels'[t] = listed[p][t]
        BY <1>2, <3>3 DEF SaveTunnels
      <4> DEFINE row == [seq |-> commits + 1, tunnel |-> t, from |-> previous[p][t],
                         status |-> listed[p][t], at |-> started[p]]
      <4>2. row \in history' /\ row.tunnel = t /\ row.status = listed[p][t]
        BY <2>1, <3>3 DEF Log!RowsOf, Log!Changed
      <4>3. QED BY <4>1, <4>2 DEF Recorded
    <3>4. QED BY <3>1, <3>2, <3>3
  <2>3. QED BY <2>1, <2>2, <1>a DEF RecordedInv
<1>3. ASSUME NEW p \in Pollers,
             AfterList(p) \/ Begin(p) \/ ListTunnels(p) \/ Prune(p) \/ Expire(p)
      PROVE  RecordedInv'
  <2>1. tunnels' = tunnels
    BY <1>3, AfterListFrame
       DEF Begin, ListTunnels, Prune, Log!Prune, Expire, database, statusTables
  <2>2. \A q \in Pollers : pc'[q] = "save" => pc[q] = "save" /\ previous'[q] = previous[q]
    <3>1. CASE AfterList(p)
      <4>1. pc'[p] # "save"
        BY <3>1, AfterListFrame DEF ListLabels
      <4>2. \A q \in Pollers \ {p} : pc'[q] = pc[q] /\ previous'[q] = previous[q]
        <5>1. CASE ReadCycle(p) \/ FailList(p) \/ ListConnectors(p) \/ ReadConnectors(p)
          BY <5>1 DEF ReadCycle, FailList, ListConnectors, ReadConnectors, Advance, End, Goto,
             view, TypeOK, Stations, ViewTypeOK
        <5>2. CASE SaveConnectors(p) \/ SaveConnections(p) \/ CheckDrift(p)
          BY <5>2 DEF SaveConnectors, SaveConnections, CheckDrift, Advance, End, Goto,
             view, TypeOK, Stations, ViewTypeOK
        <5>3. CASE GetConfiguration(p) \/ ReadIngress(p) \/ SaveIngress(p) \/ FailTunnel(p)
          BY <5>3 DEF GetConfiguration, ReadIngress, SaveIngress, FailTunnel, Advance, End,
             Goto, view, TypeOK, Stations, ViewTypeOK
        <5>4. CASE LogEvents(p) \/ RecordStatus(p) \/ LogFailure(p) \/ AddPollRun(p)
          BY <5>4 DEF LogEvents, RecordStatus, LogFailure, AddPollRun, Advance, End, Goto,
             view, TypeOK, Stations, ViewTypeOK
        <5>5. QED BY <3>1, <5>1, <5>2, <5>3, <5>4 DEF AfterList
      <4>3. QED BY <4>1, <4>2
    <3>2. CASE Begin(p) \/ ListTunnels(p) \/ Prune(p) \/ Expire(p)
      BY <3>2 DEF Begin, ListTunnels, Prune, Expire, End, Goto, TypeOK, Stations, ViewTypeOK
    <3>3. QED BY <1>3, <3>1, <3>2
  <2>3. QED BY <2>1, <2>2, <1>a DEF RecordedInv
<1>4. CASE Tick \/ UNCHANGED vars \/ (\E t \in Tunnels : Account(t))
  BY <1>a, <1>4 DEF RecordedInv, Tick, vars, Account, CloudList, CloudDelete, CloudStatus,
     CloudConnector, CloudPublish, Cloud, database, statusTables, round
<1>5. CASE Crash
  BY <1>a, <1>5 DEF RecordedInv, Crash, AllIdle, database, statusTables
<1>6. QED BY <1>1, <1>2, <1>3, <1>4, <1>5 DEF Next, PollOnce, Poll, AfterList

\* However many rounds overlap, every status a tunnel is stored with was once
\* recorded as a transition.
THEOREM StatusRecorded == Spec => []StatusWasRecorded
<1>1. CASE NothingPruned
  <2>1. Init => RecordedInv
    BY DEF Init, Log!Init, RecordedInv, AllIdle
  <2>2. RecordedInv /\ TypeOK /\ [Next]_vars => RecordedInv'
    BY <1>1, StepRecorded
  <2>3. RecordedInv => StatusWasRecorded
    BY DEF RecordedInv, StatusWasRecorded, Recorded
  <2>4. QED BY <2>1, <2>2, <2>3, TypeCorrect, PTL DEF Spec
<1>2. CASE ~NothingPruned
  <2>1. StatusWasRecorded
    BY <1>2 DEF NothingPruned, StatusWasRecorded
  <2>2. QED BY <2>1, PTL
<1>3. QED BY <1>1, <1>2

-----------------------------------------------------------------------------
(* No status event without its transition.                                 *)

Backed(rows, entry) ==
  entry.kind \in StatusKinds =>
    \E r \in rows : /\ r.tunnel = entry.tunnel /\ r.at = entry.at
                    /\ r.from = entry.from /\ r.status = entry.to

BackedJob(rows, work) ==
  /\ \A e \in work.events : Backed(rows, e)
  /\ \A e \in work.tunnelEvents : e.kind \notin StatusKinds

\* The events a round has yet to write are backed by rows just as the written
\* ones are, and those of the tunnel in hand are not about its status.
GroundedInv ==
  /\ \A e \in events : Backed(history, e.entry)
  /\ \A p \in Pollers : BackedJob(history, job[p])

\* More rows back no fewer events.
LEMMA BackedGrows ==
  ASSUME NEW old, NEW new, old \subseteq new
  PROVE  /\ \A e : Backed(old, e) => Backed(new, e)
         /\ \A work : BackedJob(old, work) => BackedJob(new, work)
BY DEF Backed, BackedJob

\* The loop over the tunnels takes the round's events along and forgets those
\* of the tunnel it leaves.
LEMMA AdvanceBacked ==
  ASSUME NEW p \in Pollers, NEW work \in Job, Stations, Advance(p, work),
         \A e \in work.events : Backed(history, e)
  PROVE  BackedJob(history, job'[p]) /\ \A q \in Pollers \ {p} : job'[q] = job[q]
<1> DEFINE fresh == [work EXCEPT !.tunnel = None, !.tunnelEvents = {}, !.fleet = NoFleet,
                                 !.oldFleet = NoFleet, !.rules = 0, !.oldRules = 0]
<1>1. fresh.events = work.events /\ fresh.tunnelEvents = {}
  BY DEF Job
<1>2. fresh \in Job
  BY FreshTypes DEF Job, StoredRules
<1>3. ASSUME NEW t \in work.todo
      PROVE  /\ [fresh EXCEPT !.tunnel = t, !.todo = work.todo \ {t}].events = work.events
             /\ [fresh EXCEPT !.tunnel = t, !.todo = work.todo \ {t}].tunnelEvents = {}
  BY <1>1, <1>2 DEF Job
<1> HIDE DEF fresh
<1>4. CASE Set(p, fresh)
  BY <1>1, <1>4 DEF Set, Stations, BackedJob
<1>5. ASSUME NEW t \in work.todo,
             Set(p, [fresh EXCEPT !.tunnel = t, !.todo = work.todo \ {t}])
      PROVE  BackedJob(history, job'[p]) /\ \A q \in Pollers \ {p} : job'[q] = job[q]
  BY <1>3, <1>5 DEF Set, Stations, BackedJob
<1>6. QED BY <1>4, <1>5 DEF Advance, fresh

\* tunnelEvents reports exactly what SaveTunnels records.
LEMMA TunnelEventsBacked ==
  ASSUME NEW before \in [Tunnels -> Statuses \cup {None}],
         NEW after \in [Tunnels -> Statuses \cup {None}], NEW at,
         NEW e \in TunnelEvents(before, after, at)
  PROVE  Backed(Log!RowsOf(before, after, at), e)
<1> SUFFICES ASSUME e.kind \in StatusKinds
             PROVE  \E r \in Log!RowsOf(before, after, at) :
                      /\ r.tunnel = e.tunnel /\ r.at = e.at
                      /\ r.from = e.from /\ r.status = e.to
  BY DEF Backed
<1>1. PICK t \in Log!Changed(before, after) :
        e.tunnel = t /\ e.from = before[t] /\ e.to = after[t] /\ e.at = at
  BY DEF TunnelEvents, Event, StatusKinds, Log!Changed
<1> DEFINE row == [seq |-> commits + 1, tunnel |-> t, from |-> before[t],
                   status |-> after[t], at |-> at]
<1>2. row \in Log!RowsOf(before, after, at)
  BY DEF Log!RowsOf
<1>3. QED BY <1>1, <1>2

\* The steps of poll keep the events backed and write none, LogEvents apart.
LEMMA PollBacked ==
  ASSUME TypeOK, GroundedInv, NEW p \in Pollers,
         \/ Begin(p) \/ ListTunnels(p) \/ ReadTunnels(p) \/ ReadCycle(p) \/ FailList(p)
         \/ ListConnectors(p) \/ ReadConnectors(p) \/ SaveConnectors(p) \/ SaveConnections(p)
         \/ CheckDrift(p) \/ GetConfiguration(p) \/ ReadIngress(p) \/ SaveIngress(p)
         \/ FailTunnel(p)
  PROVE  GroundedInv'
<1>1. UNCHANGED <<events, history>>
  BY DEF Begin, ListTunnels, ReadTunnels, ReadCycle, FailList, ListConnectors, ReadConnectors,
         SaveConnectors, SaveConnections, CheckDrift, GetConfiguration, ReadIngress, SaveIngress,
         FailTunnel, database, statusTables, logTables
<1>2. job \in [Pollers -> Job] /\ job[p] \in Job /\ BackedJob(history, job[p])
  BY DEF TypeOK, Stations, GroundedInv
<1>3. BackedJob(history, job'[p]) /\ \A q \in Pollers \ {p} : job'[q] = job[q]
  <2>1. CASE Begin(p) \/ ReadTunnels(p) \/ SaveConnections(p)
    BY <1>2, <2>1 DEF Begin, ReadTunnels, SaveConnections, view
  <2>2. ASSUME NEW work, Set(p, work), work.events = job[p].events,
               work.tunnelEvents = job[p].tunnelEvents
        PROVE  BackedJob(history, job'[p]) /\ \A q \in Pollers \ {p} : job'[q] = job[q]
    BY <1>2, <2>2 DEF Set, BackedJob
  <2>3. CASE \/ ListTunnels(p) \/ FailList(p) \/ ListConnectors(p) \/ ReadConnectors(p)
             \/ GetConfiguration(p) \/ ReadIngress(p)
    <3>1. CASE ListTunnels(p)
      <4> DEFINE links == [t \in Tunnels |-> IF cloud[t] = None THEN {}
                                             ELSE Present(cloud[t].fleet)]
                 work == [job[p] EXCEPT !.links = links]
      <4>1. Set(p, work)
        BY <3>1 DEF ListTunnels
      <4> HIDE DEF links
      <4>2. work.events = job[p].events /\ work.tunnelEvents = job[p].tunnelEvents
        BY <1>2 DEF Job
      <4> HIDE DEF work
      <4>3. QED BY <2>2, <4>1, <4>2
    <3>2. CASE FailList(p)
      <4>1. /\ [job[p] EXCEPT !.failed = TRUE].events = job[p].events
            /\ [job[p] EXCEPT !.failed = TRUE].tunnelEvents = job[p].tunnelEvents
        BY <1>2 DEF Job
      <4>2. QED BY <2>2, <3>2, <4>1 DEF FailList
    <3>3. CASE ListConnectors(p)
      <4> DEFINE work == [job[p] EXCEPT !.fleet = cloud[job[p].tunnel].fleet]
      <4>1. work.events = job[p].events /\ work.tunnelEvents = job[p].tunnelEvents
        BY <1>2 DEF Job
      <4>2. QED BY <2>2, <3>3, <4>1 DEF ListConnectors
    <3>4. CASE ReadConnectors(p)
      <4> DEFINE work == [job[p] EXCEPT !.oldFleet = connectors[job[p].tunnel]]
      <4>1. work.events = job[p].events /\ work.tunnelEvents = job[p].tunnelEvents
        BY <1>2 DEF Job
      <4>2. QED BY <2>2, <3>4, <4>1 DEF ReadConnectors
    <3>5. CASE GetConfiguration(p)
      <4> DEFINE work == [job[p] EXCEPT !.rules = Rules(cloud[job[p].tunnel].config)]
      <4>1. work.events = job[p].events /\ work.tunnelEvents = job[p].tunnelEvents
        BY <1>2 DEF Job
      <4>2. QED BY <2>2, <3>5, <4>1 DEF GetConfiguration
    <3>6. CASE ReadIngress(p)
      <4> DEFINE work == [job[p] EXCEPT !.oldRules = ingress[job[p].tunnel]]
      <4>1. work.events = job[p].events /\ work.tunnelEvents = job[p].tunnelEvents
        BY <1>2 DEF Job
      <4>2. QED BY <2>2, <3>6, <4>1 DEF ReadIngress
    <3>7. QED BY <2>3, <3>1, <3>2, <3>3, <3>4, <3>5, <3>6
  <2>4. CASE SaveConnectors(p)
    <3>1. \A e \in ConnectorEvents(job[p].tunnel, job[p].oldFleet, job[p].fleet, started[p]) :
            e.kind \notin StatusKinds
      BY DEF ConnectorEvents, Event, StatusKinds
    <3>2. QED BY <1>2, <2>4, <3>1 DEF SaveConnectors, Set, Job, BackedJob
  <2>5. Collected(p) \in Job /\ \A e \in Collected(p).events : Backed(history, e)
    BY <1>2 DEF Collected, Job, BackedJob, Backed
  <2>6. CASE ReadCycle(p)
    <3>1. /\ [job[p] EXCEPT !.force = Forced(cycles)] \in Job
          /\ [job[p] EXCEPT !.force = Forced(cycles)].events = job[p].events
      BY <1>2 DEF Job, Forced
    <3>2. QED BY <1>2, <2>6, <3>1, AdvanceBacked DEF ReadCycle, TypeOK, BackedJob
  <2>7. CASE FailTunnel(p)
    <3>1. /\ [job[p] EXCEPT !.failed = TRUE] \in Job
          /\ [job[p] EXCEPT !.failed = TRUE].events = job[p].events
      BY <1>2 DEF Job
    <3>2. QED BY <1>2, <2>7, <3>1, AdvanceBacked DEF FailTunnel, TypeOK, BackedJob
  <2>8. CASE CheckDrift(p)
    BY <1>2, <2>5, <2>8, AdvanceBacked DEF CheckDrift, TypeOK
  <2>9. CASE SaveIngress(p)
    <3> DEFINE t == job[p].tunnel
               event == Event("config_changed", t, None, None, None, started[p])
               work == [Collected(p) EXCEPT !.events =
                          @ \cup IF job[p].rules # job[p].oldRules THEN {event} ELSE {}]
    <3>1. event \in Entry /\ Backed(history, event)
      BY <2>9, NumberAssumption DEF SaveIngress, Event, Entry, EventKinds, Backed, StatusKinds,
         TypeOK, Stations, SyncLabels, ViewTypeOK
    <3>2. work \in Job /\ \A e \in work.events : Backed(history, e)
      BY <2>5, <3>1 DEF Job
    <3>3. QED BY <2>9, <3>2, AdvanceBacked DEF SaveIngress, TypeOK
  <2>10. QED BY <2>1, <2>3, <2>4, <2>6, <2>7, <2>8, <2>9
<1>4. QED BY <1>1, <1>2, <1>3 DEF GroundedInv

\* The commit of the list backs the events it gives rise to.
LEMMA SaveBacked ==
  ASSUME TypeOK, GroundedInv, NEW p \in Pollers, SaveTunnels(p)
  PROVE  GroundedInv'
<1>1. /\ previous[p] \in [Tunnels -> Statuses \cup {None}]
      /\ listed[p] \in [Tunnels -> Statuses \cup {None}]
      /\ job \in [Pollers -> Job] /\ job[p] \in Job
  BY DEF TypeOK, Stations, ViewTypeOK
<1> DEFINE rows == Log!RowsOf(previous[p], listed[p], started[p])
           found == TunnelEvents(previous[p], listed[p], started[p])
<1>2. history' = history \cup rows /\ events' = events
  BY DEF SaveTunnels, Log!AppendRows, logTables
<1>3. \A e \in found : Backed(rows, e)
  BY <1>1, TunnelEventsBacked
<1>4. /\ job'[p].events = found /\ job'[p].tunnelEvents = job[p].tunnelEvents
      /\ \A q \in Pollers \ {p} : job'[q] = job[q]
  BY <1>1 DEF SaveTunnels, Set, Job
<1>5. /\ \A e : Backed(history, e) \/ Backed(rows, e) => Backed(history', e)
      /\ \A work : BackedJob(history, work) => BackedJob(history', work)
  <2>1. history \subseteq history' /\ rows \subseteq history'
    BY <1>2
  <2> HIDE DEF rows
  <2>2. QED BY <2>1, BackedGrows
<1> HIDE DEF rows, found
<1>6. BackedJob(history', job'[p])
  BY <1>3, <1>4, <1>5 DEF GroundedInv, BackedJob
<1>7. QED BY <1>2, <1>4, <1>5, <1>6 DEF GroundedInv

\* The steps from the event log to the record of the round.
LEMMA RecordBacked ==
  ASSUME TypeOK, GroundedInv, NEW p \in Pollers,
         LogEvents(p) \/ RecordStatus(p) \/ LogFailure(p) \/ AddPollRun(p)
  PROVE  GroundedInv'
<1>1. job \in [Pollers -> Job] /\ job[p] \in Job /\ BackedJob(history, job[p])
  BY DEF TypeOK, Stations, GroundedInv
<1>2. history' = history
  BY DEF LogEvents, RecordStatus, LogFailure, AddPollRun, database, statusTables
<1>3. BackedJob(history, NoJob)
  BY DEF NoJob, BackedJob
<1>4. BackedJob(history, job'[p]) /\ \A q \in Pollers \ {p} : job'[q] = job[q]
  <2>1. CASE LogEvents(p)
    BY <1>1, <2>1 DEF LogEvents, Set, Job, BackedJob
  <2>2. CASE RecordStatus(p)
    BY <1>1, <2>2 DEF RecordStatus, Set, NoJob, BackedJob
  <2>3. CASE LogFailure(p)
    BY <1>1, <2>3 DEF LogFailure
  <2>4. CASE AddPollRun(p)
    BY <1>1, <1>3, <2>4 DEF AddPollRun, End, Set
  <2>5. QED BY <2>1, <2>2, <2>3, <2>4
<1>5. \A e \in events' : Backed(history, e.entry)
  <2>1. ASSUME NEW entries, AddEvents(entries), \A e \in entries : Backed(history, e)
        PROVE  \A e \in events' : Backed(history, e.entry)
    BY <2>1 DEF AddEvents, GroundedInv
  <2>2. CASE LogEvents(p)
    BY <1>1, <2>1, <2>2 DEF LogEvents, logTables, BackedJob, GroundedInv
  <2>3. CASE LogFailure(p)
    <3> DEFINE event == Event("poll_failed", None, None, None, None, started[p])
    <3>1. \A e \in {event} : Backed(history, e)
      BY DEF Event, Backed, StatusKinds
    <3> HIDE DEF event
    <3>2. CASE AddEvents({event})
      BY <2>1, <3>1, <3>2
    <3>3. CASE UNCHANGED logTables
      BY <3>3 DEF logTables, GroundedInv
    <3>4. QED BY <2>3, <3>2, <3>3 DEF LogFailure, event
  <2>4. CASE RecordStatus(p) \/ AddPollRun(p)
    BY <2>4 DEF RecordStatus, AddPollRun, database, logTables, GroundedInv
  <2>5. QED BY <2>2, <2>3, <2>4
<1>6. QED BY <1>2, <1>4, <1>5 DEF GroundedInv

\* Pruning deletes an event together with the row that backs it.  Only an event
\* another round has yet to write could lose its row.
LEMMA PruneBacked ==
  ASSUME OnePoller \/ NothingPruned, TypeOK, GroundedInv, NEW p \in Pollers, Prune(p)
  PROVE  GroundedInv'
<1>1. job'[p] = NoJob /\ \A q \in Pollers \ {p} : job'[q] = job[q]
  BY DEF Prune, End, Set, TypeOK, Stations
<1>2. \A rows : BackedJob(rows, NoJob)
  BY DEF NoJob, BackedJob
<1>3. \A q \in Pollers \ {p} : BackedJob(history', job'[q])
  <2>1. CASE OnePoller
    BY <2>1 DEF OnePoller
  <2>2. CASE NothingPruned
    <3>1. history \subseteq history'
      BY <2>2, HistoryGrows DEF Next, PollOnce
    <3>2. QED BY <1>1, <3>1, BackedGrows DEF GroundedInv
  <2>3. QED BY <2>1, <2>2
<1>4. \A e \in events' : Backed(history', e.entry)
  <2> DEFINE cutoff == started[p] - Retention
  <2>1. CASE history' = history /\ events' = events
    BY <2>1 DEF GroundedInv
  <2>2. CASE /\ history' = {r \in history : r.at >= cutoff}
             /\ events' = {e \in events : e.entry.at >= cutoff}
    BY <2>2 DEF GroundedInv, Backed
  <2>3. QED BY <2>1, <2>2 DEF Prune, Log!Prune, statusTables
<1>5. QED BY <1>1, <1>2, <1>3, <1>4 DEF GroundedInv

\* Every step keeps the events backed.
LEMMA StepGrounded ==
  ASSUME OnePoller \/ NothingPruned, TypeOK, GroundedInv, [Next]_vars
  PROVE  GroundedInv'
<1>1. ASSUME NEW p \in Pollers, PollOnce(p) PROVE GroundedInv'
  BY <1>1, PollBacked, SaveBacked, RecordBacked, PruneBacked DEF PollOnce, Poll
<1>2. CASE Tick \/ UNCHANGED vars \/ (\E t \in Tunnels : Account(t))
           \/ (\E p \in Pollers : Expire(p))
  <2>1. UNCHANGED <<events, history, job>>
    BY <1>2 DEF Tick, vars, Account, CloudList, CloudDelete, CloudStatus, CloudConnector,
       CloudPublish, Cloud, Expire, database, statusTables, logTables, round
  <2>2. QED BY <2>1 DEF GroundedInv
<1>3. CASE Crash
  <2>1. UNCHANGED <<events, history>> /\ \A p \in Pollers : job'[p] = NoJob
    BY <1>3 DEF Crash, NoJobs, database, statusTables, logTables
  <2>2. QED BY <2>1 DEF GroundedInv, NoJob, BackedJob
<1>4. QED BY <1>1, <1>2, <1>3 DEF Next

\* Every status event in the log reports a transition that was committed,
\* whatever fails or dies in between: with one poller always, with several as
\* long as nothing is old enough to be pruned.
THEOREM EventsGrounded ==
  ASSUME OnePoller \/ NothingPruned
  PROVE  Spec => []StatusEventsAreGrounded
<1>1. Init => GroundedInv
  BY DEF Init, NoJobs, NoJob, GroundedInv, BackedJob
<1>2. TypeOK /\ GroundedInv /\ [Next]_vars => GroundedInv'
  BY OnePoller \/ NothingPruned, StepGrounded
<1>3. GroundedInv => StatusEventsAreGrounded
  BY DEF GroundedInv, StatusEventsAreGrounded, Grounded, Backed
<1>4. QED BY <1>1, <1>2, <1>3, TypeCorrect, PTL DEF Spec

-----------------------------------------------------------------------------
(* What a step does to the local variables of its round.                   *)

\* Only one round's variables change.
OthersKeep(p) == \A q \in Pollers \ {p} : job'[q] = job[q] /\ pc'[q] = pc[q]

SameCargo(new, old) ==
  /\ new.events = old.events /\ new.tunnelEvents = old.tunnelEvents
  /\ new.todo = old.todo /\ new.tunnel = old.tunnel

\* Steps that read, write a table of details, or begin a round: the events of
\* the round and its place in the list stay.
Plain(p) ==
  \/ Begin(p) \/ ListTunnels(p) \/ ReadTunnels(p) \/ ListConnectors(p) \/ ReadConnectors(p)
  \/ SaveConnections(p) \/ GetConfiguration(p) \/ ReadIngress(p)

\* They keep those of every other round too.
LEMMA PlainWork ==
  ASSUME TypeOK, NEW p \in Pollers, Plain(p)
  PROVE  /\ SameCargo(job'[p], job[p]) /\ job'[p].failed = job[p].failed
         /\ OthersKeep(p)
<1>1. job \in [Pollers -> Job] /\ job[p] \in Job /\ pc \in [Pollers -> Labels]
  BY DEF TypeOK, Stations
<1>2. ASSUME NEW work, Set(p, work), SameCargo(work, job[p]), work.failed = job[p].failed
      PROVE  /\ SameCargo(job'[p], job[p]) /\ job'[p].failed = job[p].failed
             /\ \A q \in Pollers \ {p} : job'[q] = job[q]
  BY <1>1, <1>2 DEF Set
<1>3. \A label : Goto(p, label) => \A q \in Pollers \ {p} : pc'[q] = pc[q]
  BY <1>1 DEF Goto
<1>4. CASE Begin(p) \/ ReadTunnels(p) \/ SaveConnections(p)
  BY <1>1, <1>4 DEF Begin, ReadTunnels, SaveConnections, view, SameCargo, Goto, OthersKeep
<1>5. CASE ListTunnels(p)
  <2> DEFINE links == [t \in Tunnels |-> IF cloud[t] = None THEN {} ELSE Present(cloud[t].fleet)]
             work == [job[p] EXCEPT !.links = links]
  <2>1. Set(p, work)
    BY <1>5 DEF ListTunnels
  <2> HIDE DEF links
  <2>2. SameCargo(work, job[p]) /\ work.failed = job[p].failed
    BY <1>1 DEF Job, SameCargo
  <2> HIDE DEF work
  <2>3. QED BY <1>2, <1>3, <1>5, <2>1, <2>2 DEF ListTunnels, OthersKeep
<1>6. CASE ListConnectors(p)
  <2> DEFINE work == [job[p] EXCEPT !.fleet = cloud[job[p].tunnel].fleet]
  <2>1. SameCargo(work, job[p]) /\ work.failed = job[p].failed
    BY <1>1 DEF Job, SameCargo
  <2>2. QED BY <1>2, <1>3, <1>6, <2>1 DEF ListConnectors, OthersKeep
<1>7. CASE ReadConnectors(p)
  <2> DEFINE work == [job[p] EXCEPT !.oldFleet = connectors[job[p].tunnel]]
  <2>1. SameCargo(work, job[p]) /\ work.failed = job[p].failed
    BY <1>1 DEF Job, SameCargo
  <2>2. QED BY <1>2, <1>3, <1>7, <2>1 DEF ReadConnectors, OthersKeep
<1>8. CASE GetConfiguration(p)
  <2> DEFINE work == [job[p] EXCEPT !.rules = Rules(cloud[job[p].tunnel].config)]
  <2>1. SameCargo(work, job[p]) /\ work.failed = job[p].failed
    BY <1>1 DEF Job, SameCargo
  <2>2. QED BY <1>2, <1>3, <1>8, <2>1 DEF GetConfiguration, OthersKeep
<1>9. CASE ReadIngress(p)
  <2> DEFINE work == [job[p] EXCEPT !.oldRules = ingress[job[p].tunnel]]
  <2>1. SameCargo(work, job[p]) /\ work.failed = job[p].failed
    BY <1>1 DEF Job, SameCargo
  <2>2. QED BY <1>2, <1>3, <1>9, <2>1 DEF ReadIngress, OthersKeep
<1>10. QED BY <1>4, <1>5, <1>6, <1>7, <1>8, <1>9 DEF Plain

\* The loop over the tunnels: the batch goes along, the tunnel in hand is one
\* that was left to visit and is left no longer.
LEMMA AdvanceWork ==
  ASSUME NEW p \in Pollers, NEW work \in Job, Stations, Advance(p, work)
  PROVE  /\ job'[p].events = work.events /\ job'[p].tunnelEvents = {}
         /\ job'[p].failed = work.failed
         /\ job'[p].todo \subseteq work.todo
         /\ pc'[p] \in {"log", "connectors"}
         /\ pc'[p] = "connectors" =>
              job'[p].tunnel \in work.todo /\ job'[p].tunnel \notin job'[p].todo
         /\ OthersKeep(p)
<1> DEFINE Taken ==
      /\ job'[p].events = work.events /\ job'[p].tunnelEvents = {}
      /\ job'[p].failed = work.failed
      /\ job'[p].todo \subseteq work.todo
      /\ pc'[p] \in {"log", "connectors"}
      /\ pc'[p] = "connectors" =>
           job'[p].tunnel \in work.todo /\ job'[p].tunnel \notin job'[p].todo
      /\ OthersKeep(p)
<1> DEFINE fresh == [work EXCEPT !.tunnel = None, !.tunnelEvents = {}, !.fleet = NoFleet,
                                 !.oldFleet = NoFleet, !.rules = 0, !.oldRules = 0]
<1>1. /\ fresh.events = work.events /\ fresh.tunnelEvents = {} /\ fresh.failed = work.failed
      /\ fresh.todo = work.todo
  BY DEF Job
<1>2. fresh \in Job
  BY FreshTypes DEF Job, StoredRules
<1> HIDE DEF fresh
<1>3. ASSUME Goto(p, "log"), Set(p, fresh)
      PROVE  Taken
  <2>1. job'[p] = fresh /\ pc'[p] = "log" /\ OthersKeep(p)
    BY <1>3 DEF Goto, Set, Stations, OthersKeep
  <2>2. QED BY <1>1, <2>1
<1>4. ASSUME NEW t \in work.todo, Goto(p, "connectors"),
             Set(p, [fresh EXCEPT !.tunnel = t, !.todo = work.todo \ {t}])
      PROVE  Taken
  <2> DEFINE next == [fresh EXCEPT !.tunnel = t, !.todo = work.todo \ {t}]
  <2>1. /\ next.events = work.events /\ next.tunnelEvents = {} /\ next.failed = work.failed
        /\ next.todo = work.todo \ {t} /\ next.tunnel = t
    BY <1>1, <1>2 DEF Job
  <2> HIDE DEF next
  <2>2. job'[p] = next /\ pc'[p] = "connectors" /\ OthersKeep(p)
    BY <1>4 DEF Goto, Set, Stations, OthersKeep, next
  <2>3. QED BY <2>1, <2>2
<1> HIDE DEF Taken
<1>5. Taken
  BY <1>3, <1>4 DEF Advance, fresh
<1>6. QED BY <1>5 DEF Taken

\* A failed list ends the round's work early.
LEMMA FailWork ==
  ASSUME TypeOK, NEW p \in Pollers, FailList(p)
  PROVE  /\ SameCargo(job'[p], job[p]) /\ job'[p].failed
         /\ pc'[p] = "status" /\ OthersKeep(p)
<1>1. job \in [Pollers -> Job] /\ job[p] \in Job /\ pc \in [Pollers -> Labels]
  BY DEF TypeOK, Stations
<1> DEFINE work == [job[p] EXCEPT !.failed = TRUE]
<1>2. SameCargo(work, job[p]) /\ work.failed
  BY <1>1 DEF Job, SameCargo
<1> HIDE DEF work
<1>3. job'[p] = work /\ pc'[p] = "status" /\ OthersKeep(p)
  BY <1>1 DEF FailList, Set, Goto, OthersKeep, work
<1>4. QED BY <1>2, <1>3

\* Events a round has derived and not written yet.
Pending(work) == work.events \cup work.tunnelEvents

\* The steps that go on in the list: the events of the round are those of
\* before, with the tunnel's own, or without them when it failed.
Advancing(p) == ReadCycle(p) \/ CheckDrift(p) \/ SaveIngress(p) \/ FailTunnel(p)

\* What becomes of the batch, and which tunnel comes next.
LEMMA AdvancingWork ==
  ASSUME TypeOK, NEW p \in Pollers, Advancing(p)
  PROVE  /\ OthersKeep(p)
         /\ \/ /\ job'[p] = job[p] /\ pc[p] = "drift" /\ pc'[p] = "config"
            \/ /\ pc'[p] \in {"log", "connectors"}
               /\ job'[p].tunnelEvents = {}
               /\ job'[p].todo \subseteq job[p].todo
               /\ pc'[p] = "connectors" =>
                    job'[p].tunnel \in job[p].todo /\ job'[p].tunnel \notin job'[p].todo
               /\ \/ pc[p] = "cycle" /\ job'[p].failed = job[p].failed /\ job'[p].events = job[p].events
                  \/ job'[p].failed /\ job'[p].events = job[p].events
                  \/ /\ job'[p].failed = job[p].failed
                     /\ \E more : /\ \A e \in more : e.kind = "config_changed"
                                  /\ job'[p].events = Pending(job[p]) \cup more
<1>1. job[p] \in Job /\ Stations /\ pc \in [Pollers -> Labels]
  BY DEF TypeOK, Stations
<1>2. /\ Collected(p) \in Job /\ Collected(p).events = Pending(job[p])
      /\ Collected(p).todo = job[p].todo /\ Collected(p).failed = job[p].failed
  BY <1>1 DEF Collected, Job, Pending
<1>3. CASE ReadCycle(p)
  <2> DEFINE work == [job[p] EXCEPT !.force = Forced(cycles)]
  <2>1. /\ work \in Job /\ work.events = job[p].events /\ work.todo = job[p].todo
        /\ work.failed = job[p].failed
    BY <1>1 DEF Job, Forced
  <2>2. Advance(p, work) /\ pc[p] = "cycle"
    BY <1>3 DEF ReadCycle
  <2> HIDE DEF work
  <2>3. QED BY <1>1, <2>1, <2>2, AdvanceWork
<1>4. CASE CheckDrift(p)
  <2>1. CASE Advance(p, Collected(p))
    <3>1. /\ job'[p].events = Pending(job[p]) \cup {} /\ job'[p].failed = job[p].failed
          /\ job'[p].tunnelEvents = {} /\ job'[p].todo \subseteq job[p].todo
          /\ pc'[p] \in {"log", "connectors"} /\ OthersKeep(p)
          /\ pc'[p] = "connectors" =>
               job'[p].tunnel \in job[p].todo /\ job'[p].tunnel \notin job'[p].todo
      BY <1>1, <1>2, <2>1, AdvanceWork
    <3>2. \A e \in {} : e.kind = "config_changed"
      OBVIOUS
    <3>3. QED BY <3>1, <3>2
  <2>2. CASE Goto(p, "config") /\ UNCHANGED job
    BY <1>1, <1>4, <2>2 DEF CheckDrift, Goto, OthersKeep
  <2>3. QED BY <1>4, <2>1, <2>2 DEF CheckDrift
<1>5. CASE SaveIngress(p)
  <2> DEFINE event == Event("config_changed", job[p].tunnel, None, None, None, started[p])
             more == IF job[p].rules # job[p].oldRules THEN {event} ELSE {}
             work == [Collected(p) EXCEPT !.events = @ \cup more]
  <2>1. event.kind = "config_changed" /\ event \in Entry
    BY <1>1, <1>5, NumberAssumption DEF SaveIngress, Event, Entry, EventKinds, TypeOK, Stations,
       SyncLabels, ViewTypeOK
  <2>2. Advance(p, work)
    BY <1>5 DEF SaveIngress
  <2> HIDE DEF event
  <2>3. (\A e \in more : e.kind = "config_changed") /\ more \in SUBSET Entry
    BY <2>1
  <2> HIDE DEF more
  <2>4. /\ work \in Job /\ work.events = Pending(job[p]) \cup more /\ work.todo = job[p].todo
        /\ work.failed = job[p].failed
    BY <1>2, <2>3 DEF Job
  <2> HIDE DEF work
  <2>5. QED BY <1>1, <2>2, <2>3, <2>4, AdvanceWork
<1>6. CASE FailTunnel(p)
  <2> DEFINE work == [job[p] EXCEPT !.failed = TRUE]
  <2>1. /\ work \in Job /\ work.events = job[p].events /\ work.todo = job[p].todo
        /\ work.failed
    BY <1>1 DEF Job
  <2>2. Advance(p, work)
    BY <1>6 DEF FailTunnel
  <2> HIDE DEF work
  <2>3. QED BY <1>1, <2>1, <2>2, AdvanceWork
<1>7. QED BY <1>3, <1>4, <1>5, <1>6 DEF Advancing

-----------------------------------------------------------------------------
(* Rows of details belong to stored tunnels.                               *)

\* With one poller, the tunnels a round has yet to visit, and the one it is
\* visiting, are stored: only the next commit of a list removes a tunnel.
VisitsStored ==
  \A p \in Pollers :
    /\ pc[p] \in {"cycle"} \cup SyncLabels => \A t \in job[p].todo : tunnels[t] # None
    /\ pc[p] \in SyncLabels => tunnels[job[p].tunnel] # None

OrphanInv == NoOrphanRows /\ VisitsStored

\* The steps of a round other than the commit of its list leave the stored
\* tunnels alone and bring it to tunnels that were on its list.
LEMMA VisitsKept ==
  ASSUME TypeOK, VisitsStored, NEW p \in Pollers,
         Plain(p) \/ FailList(p) \/ Advancing(p) \/ SaveConnectors(p)
         \/ LogEvents(p) \/ RecordStatus(p) \/ LogFailure(p) \/ AddPollRun(p) \/ Prune(p)
  PROVE  VisitsStored' /\ tunnels' = tunnels
<1> DEFINE Near == {"cycle"} \cup SyncLabels
<1>1. pc \in [Pollers -> Labels] /\ job \in [Pollers -> Job] /\ job[p] \in Job
  BY DEF TypeOK, Stations
<1>2. tunnels' = tunnels
  BY DEF Plain, Advancing, Begin, ListTunnels, ReadTunnels, ReadCycle, FailList, ListConnectors,
         ReadConnectors, SaveConnectors, SaveConnections, CheckDrift, GetConfiguration, ReadIngress,
         SaveIngress, FailTunnel, LogEvents, RecordStatus, LogFailure, AddPollRun, Prune, Log!Prune,
         database, statusTables
<1>3. /\ OthersKeep(p)
      /\ pc'[p] \in Near => \A t \in job'[p].todo : tunnels[t] # None
      /\ pc'[p] \in SyncLabels => tunnels[job'[p].tunnel] # None
      => VisitsStored' /\ tunnels' = tunnels
  BY <1>2 DEF VisitsStored, OthersKeep
<1>4. CASE Plain(p)
  <2>1. SameCargo(job'[p], job[p]) /\ OthersKeep(p)
    BY <1>4, PlainWork
  <2>2. (pc'[p] \in Near => pc[p] \in Near) /\ (pc'[p] \in SyncLabels => pc[p] \in SyncLabels)
    BY <1>1, <1>4 DEF Plain, Begin, ListTunnels, ReadTunnels, ListConnectors, ReadConnectors,
       SaveConnections, GetConfiguration, ReadIngress, Goto, SyncLabels
  <2>3. /\ pc[p] \in Near => \A t \in job[p].todo : tunnels[t] # None
        /\ pc[p] \in SyncLabels => tunnels[job[p].tunnel] # None
    BY DEF VisitsStored
  <2>4. job'[p].todo = job[p].todo /\ job'[p].tunnel = job[p].tunnel
    BY <2>1 DEF SameCargo
  <2>5. QED BY <1>3, <2>1, <2>2, <2>3, <2>4
<1>5. CASE FailList(p)
  <2>1. pc'[p] \notin Near /\ pc'[p] \notin SyncLabels /\ OthersKeep(p)
    BY <1>5, FailWork DEF SyncLabels
  <2>2. QED BY <1>3, <2>1
<1>6. CASE Advancing(p)
  <2>1. pc[p] \in Near
    BY <1>6 DEF Advancing, ReadCycle, CheckDrift, SaveIngress, FailTunnel, SyncLabels
  <2>2. \A t \in job[p].todo : tunnels[t] # None
    BY <2>1 DEF VisitsStored
  <2>3. pc[p] = "drift" => tunnels[job[p].tunnel] # None
    BY DEF VisitsStored, SyncLabels
  <2>4. pc'[p] \in SyncLabels => pc'[p] # "log"
    BY DEF SyncLabels
  <2>5. OthersKeep(p)
    BY <1>6, AdvancingWork
  <2>6. CASE job'[p] = job[p] /\ pc[p] = "drift"
    BY <1>3, <2>2, <2>3, <2>5, <2>6
  <2>7. CASE /\ pc'[p] \in {"log", "connectors"} /\ job'[p].todo \subseteq job[p].todo
             /\ pc'[p] = "connectors" => job'[p].tunnel \in job[p].todo
    <3>1. pc'[p] \in SyncLabels => tunnels[job'[p].tunnel] # None
      BY <2>2, <2>4, <2>7
    <3>2. \A t \in job'[p].todo : tunnels[t] # None
      BY <2>2, <2>7
    <3>3. QED BY <1>3, <2>5, <3>1, <3>2
  <2>8. QED BY <1>6, <2>6, <2>7, AdvancingWork
<1>7. CASE SaveConnectors(p)
  <2>1. job'[p].todo = job[p].todo /\ job'[p].tunnel = job[p].tunnel /\ OthersKeep(p)
    BY <1>1, <1>7 DEF SaveConnectors, Set, Goto, Job, OthersKeep
  <2>2. pc[p] \in SyncLabels
    BY <1>7 DEF SaveConnectors, SyncLabels
  <2>3. (\A t \in job[p].todo : tunnels[t] # None) /\ tunnels[job[p].tunnel] # None
    BY <2>2 DEF VisitsStored
  <2>4. QED BY <1>3, <2>1, <2>3
<1>8. CASE LogEvents(p) \/ RecordStatus(p) \/ LogFailure(p) \/ AddPollRun(p) \/ Prune(p)
  <2>1. pc'[p] \notin Near /\ pc'[p] \notin SyncLabels
    BY <1>1, <1>8 DEF LogEvents, RecordStatus, LogFailure, AddPollRun, Prune, End, Goto, SyncLabels
  <2>2. OthersKeep(p)
    BY <1>1, <1>8 DEF LogEvents, RecordStatus, LogFailure, AddPollRun, Prune, End, Goto, Set, OthersKeep
  <2>3. QED BY <1>3, <2>1, <2>2
<1>9. QED BY <1>2, <1>4, <1>5, <1>6, <1>7, <1>8

\* Every step of one poller keeps the details with their tunnels.
LEMMA StepOrphan ==
  ASSUME OnePoller, TypeOK, Serial, OrphanInv, [Next]_vars
  PROVE  OrphanInv'
<1> USE DEF OrphanInv
<1>1. ASSUME NEW p \in Pollers, SaveTunnels(p)
      PROVE  OrphanInv'
  <2>1. previous[p] = tunnels
    BY <1>1 DEF SaveTunnels, Serial
  <2>2. tunnels' = listed[p]
    BY <1>1, SaveObserves DEF Log!Observe
  <2> DEFINE vanished == {t \in Tunnels : tunnels[t] # None /\ listed[p][t] = None}
  <2>3. /\ connectors' = Purge(connectors, vanished, NoFleet)
        /\ connections' = Purge(connections, vanished, {})
        /\ ingress' = Purge(ingress, vanished, 0)
    BY <1>1, <2>1 DEF SaveTunnels
  <2>4. NoOrphanRows'
    BY <2>2, <2>3 DEF NoOrphanRows, Purge
  <2>5. pc'[p] = "cycle" /\ job'[p].todo = {t \in Tunnels : listed[p][t] # None}
    BY <1>1 DEF SaveTunnels, Goto, Set, TypeOK, Stations, Job
  <2>6. VisitsStored'
    BY <2>2, <2>5 DEF OnePoller, VisitsStored, SyncLabels
  <2>7. QED BY <2>4, <2>6
<1>2. ASSUME NEW p \in Pollers,
             Plain(p) \/ FailList(p) \/ Advancing(p) \/ SaveConnectors(p)
             \/ LogEvents(p) \/ RecordStatus(p) \/ LogFailure(p) \/ AddPollRun(p) \/ Prune(p)
      PROVE  OrphanInv'
  <2>1. VisitsStored' /\ tunnels' = tunnels
    BY <1>2, VisitsKept
  <2> DEFINE u == job[p].tunnel
  <2>2. pc[p] \in SyncLabels => tunnels[u] # None
    BY DEF VisitsStored
  <2>3. \A t \in Tunnels : \/ UNCHANGED <<connectors[t], connections[t], ingress[t]>>
                           \/ tunnels[t] # None
    <3>1. CASE SaveConnectors(p) \/ SaveConnections(p) \/ SaveIngress(p)
      BY <2>2, <3>1 DEF SaveConnectors, SaveConnections, SaveIngress, SyncLabels, TypeOK, DetailTypeOK
    <3>2. CASE ~(SaveConnectors(p) \/ SaveConnections(p) \/ SaveIngress(p))
      BY <1>2, <3>2 DEF Plain, Advancing, Begin, ListTunnels, ReadTunnels, ReadCycle, FailList,
         ListConnectors, ReadConnectors, CheckDrift, GetConfiguration, ReadIngress, FailTunnel, LogEvents,
         RecordStatus, LogFailure, AddPollRun, Prune, database, detailTables
    <3>3. QED BY <3>1, <3>2
  <2>4. NoOrphanRows'
    BY <2>1, <2>3 DEF NoOrphanRows
  <2>5. QED BY <2>1, <2>4
<1>3. CASE Tick \/ UNCHANGED vars \/ (\E t \in Tunnels : Account(t)) \/ (\E p \in Pollers : Expire(p))
  <2>1. UNCHANGED <<tunnels, connectors, connections, ingress, pc, job>>
    BY <1>3 DEF Tick, vars, Account, CloudList, CloudDelete, CloudStatus, CloudConnector,
       CloudPublish, Cloud, Expire, database, statusTables, detailTables, round
  <2>2. QED BY <2>1 DEF NoOrphanRows, VisitsStored
<1>4. CASE Crash
  <2>1. UNCHANGED <<tunnels, connectors, connections, ingress>> /\ \A p \in Pollers : pc'[p] = "idle"
    BY <1>4 DEF Crash, AllIdle, database, statusTables, detailTables
  <2>2. QED BY <2>1 DEF NoOrphanRows, VisitsStored, SyncLabels
<1>5. QED BY <1>1, <1>2, <1>3, <1>4 DEF Next, PollOnce, Poll, Plain, Advancing

\* With one poller no connector, connection or rule of a removed tunnel stays
\* behind, whatever fails or dies: what a round writes for a tunnel it writes
\* between two commits of a list that had it.
THEOREM OnePollerNoOrphans ==
  ASSUME OnePoller
  PROVE  Spec => []NoOrphanRows
<1>1. Init => OrphanInv
  BY DEF Init, OrphanInv, NoOrphanRows, VisitsStored, AllIdle, SyncLabels
<1>2. TypeOK /\ Serial /\ OrphanInv /\ [Next]_vars => OrphanInv'
  BY OnePoller, StepOrphan
<1>3. OrphanInv => NoOrphanRows
  BY DEF OrphanInv
<1>4. QED BY <1>1, <1>2, <1>3, SerialInvariant, OnePoller, PTL DEF Spec

-----------------------------------------------------------------------------
(* The event log replays to the stored tunnels and connectors.             *)

\* Nothing keeps a round from writing the events it has.
EventsGetWritten == Mishaps \cap {"expire", "crash", "log"} = {}
\* Nor from writing that it failed.
FailuresGetWritten == EventsGetWritten /\ "logFailure" \notin Mishaps

\* What a round carries at each point: events only from the commit of the list
\* to the write of the log, and only the tunnel in hand's beside the batch.
Carrying ==
  /\ \A e \in events : e.batch <= batches
  /\ \A p \in Pollers :
       /\ pc[p] # "idle" => alive[p]
       /\ pc[p] \notin SyncLabels \cup {"cycle", "log"} => job[p].events = {}
       /\ pc[p] \notin SyncLabels => job[p].tunnelEvents = {}
       /\ \A e \in job[p].tunnelEvents : e.kind \notin TunnelKinds

AboutStatus(e, t) == e.tunnel = t /\ e.kind \in TunnelKinds

Replays(t) == LoggedStatus(t) \subseteq {tunnels[t]} /\ (tunnels[t] # None => LoggedStatus(t) # {})

\* The stored status of a tunnel is the one a round's pending events say, and
\* the one the log says where nothing is pending.
TunnelReplayInv ==
  \A t \in Tunnels :
    /\ \A p \in Pollers : \A e \in Pending(job[p]) : AboutStatus(e, t) => e.to = tunnels[t]
    /\ (\A p \in Pollers : \A e \in Pending(job[p]) : ~AboutStatus(e, t)) => Replays(t)

PresenceKinds == ConnectorKinds \cup {"tunnel_removed"}
AboutPresence(e, t, c) ==
  /\ e.tunnel = t /\ e.kind \in PresenceKinds
  /\ e.connector = c \/ e.kind = "tunnel_removed"

NoFailure ==
  /\ \A e \in events : e.entry.kind # "poll_failed"
  /\ \A p \in Pollers : ~job[p].failed

FleetLabels == {"connectors", "oldConnectors", "saveConnectors"}

\* A round derives the connector events of a tunnel once, when it visits it.
VisitedOnce ==
  \A p \in Pollers :
    /\ pc[p] = "saveConnectors" => job[p].oldFleet = connectors[job[p].tunnel]
    /\ pc[p] \in SyncLabels => job[p].tunnel \notin job[p].todo
    /\ pc[p] \in FleetLabels => job[p].tunnelEvents = {}
    /\ \A e \in Pending(job[p]) : e.kind \in PresenceKinds =>
         /\ pc[p] \in {"cycle"} \cup SyncLabels => e.tunnel \notin job[p].todo
         /\ pc[p] \in FleetLabels => e.tunnel # job[p].tunnel

\* What the log says of a connector is what is stored of it.
ReleaseReplays(t, c) ==
  /\ LoggedRelease(t, c) \subseteq {Release(connectors[t][c])}
  /\ connectors[t][c] # None => LoggedRelease(t, c) # {}

\* The stored release of a connector, or that there is none, is what a round's
\* pending events say, and what the log says where nothing is pending.
PendingAbout(t, c) == {e \in UNION {Pending(job[p]) : p \in Pollers} : AboutPresence(e, t, c)}
PresenceReplays(t, c) ==
  /\ \A e \in PendingAbout(t, c) : e.to = Release(connectors[t][c])
  /\ PendingAbout(t, c) = {} => ReleaseReplays(t, c)

ConnectorReplayInv == NoFailure => \A t \in Tunnels, c \in Connectors : PresenceReplays(t, c)

\* The steps that write no event.
Silent(p) == Plain(p) \/ FailList(p) \/ Advancing(p) \/ SaveConnectors(p)

\* They leave the log and the stored tunnels alone, and end no context.
LEMMA SilentFrame ==
  ASSUME TypeOK, NEW p \in Pollers, Silent(p)
  PROVE  UNCHANGED <<tunnels, events, batches>> /\ (UNCHANGED alive \/ alive' = [alive EXCEPT ![p] = TRUE])
BY DEF Silent, Plain, Advancing, Begin, ListTunnels, ReadTunnels, ReadCycle, FailList, ListConnectors,
       ReadConnectors, SaveConnectors, SaveConnections, CheckDrift, GetConfiguration, ReadIngress,
       SaveIngress, FailTunnel, database, statusTables, logTables, view

\* SaveConnectors is where the events of a tunnel's connectors are derived.
LEMMA DerivingWork ==
  ASSUME TypeOK, NEW p \in Pollers, SaveConnectors(p)
  PROVE  /\ job'[p].events = job[p].events /\ job'[p].failed = job[p].failed
         /\ job'[p].todo = job[p].todo /\ job'[p].tunnel = job[p].tunnel
         /\ job'[p].tunnelEvents =
              ConnectorEvents(job[p].tunnel, job[p].oldFleet, job[p].fleet, started[p])
         /\ pc[p] = "saveConnectors" /\ pc'[p] = "saveConnections" /\ OthersKeep(p)
<1>1. job \in [Pollers -> Job] /\ job[p] \in Job /\ pc \in [Pollers -> Labels]
  BY DEF TypeOK, Stations
<1> DEFINE found == ConnectorEvents(job[p].tunnel, job[p].oldFleet, job[p].fleet, started[p])
           work == [job[p] EXCEPT !.tunnelEvents = found]
<1>2. Set(p, work) /\ pc[p] = "saveConnectors" /\ Goto(p, "saveConnections")
  BY DEF SaveConnectors
<1> HIDE DEF found
<1>3. /\ work.events = job[p].events /\ work.failed = job[p].failed
      /\ work.todo = job[p].todo /\ work.tunnel = job[p].tunnel /\ work.tunnelEvents = found
  BY <1>1 DEF Job
<1> HIDE DEF work
<1>4. job'[p] = work /\ pc'[p] = "saveConnections" /\ OthersKeep(p)
  BY <1>1, <1>2 DEF Set, Goto, OthersKeep
<1>5. QED BY <1>2, <1>3, <1>4 DEF found

\* A silent step carries what Carrying says.
LEMMA SilentCarries ==
  ASSUME TypeOK, Carrying, NEW p \in Pollers, Silent(p)
  PROVE  Carrying'
<1> DEFINE Near == SyncLabels \cup {"cycle", "log"}
           Fine(q) == /\ pc'[q] # "idle" => alive'[q]
                      /\ pc'[q] \notin Near => job'[q].events = {}
                      /\ pc'[q] \notin SyncLabels => job'[q].tunnelEvents = {}
                      /\ \A e \in job'[q].tunnelEvents : e.kind \notin TunnelKinds
<1>1. /\ pc \in [Pollers -> Labels] /\ job \in [Pollers -> Job] /\ job[p] \in Job
      /\ alive \in [Pollers -> BOOLEAN]
  BY DEF TypeOK, Stations, ViewTypeOK
<1>2. OthersKeep(p)
  BY PlainWork, FailWork, AdvancingWork, DerivingWork DEF Silent
<1>3. ASSUME NEW q \in Pollers \ {p}
      PROVE  Fine(q)
  BY <1>1, <1>2, SilentFrame DEF Carrying, OthersKeep
<1>4. alive'[p]
  BY <1>1 DEF Carrying, Silent, Plain, Advancing, Begin, ListTunnels, ReadTunnels, ReadCycle, FailList,
     ListConnectors, ReadConnectors, SaveConnectors, SaveConnections, CheckDrift, GetConfiguration,
     ReadIngress, SaveIngress, FailTunnel, view, ListLabels, SyncLabels
<1>5. Fine(p)
  <2>1. CASE Plain(p)
    <3>1. (pc[p] \in Near <=> pc'[p] \in Near) /\ (pc[p] \in SyncLabels <=> pc'[p] \in SyncLabels)
      BY <1>1, <2>1 DEF Plain, Begin, ListTunnels, ReadTunnels, ListConnectors, ReadConnectors,
         SaveConnections, GetConfiguration, ReadIngress, Goto, SyncLabels
    <3>2. job'[p].events = job[p].events /\ job'[p].tunnelEvents = job[p].tunnelEvents
      BY <2>1, PlainWork DEF SameCargo
    <3>3. QED BY <1>4, <3>1, <3>2 DEF Carrying
  <2>2. CASE FailList(p)
    <3>1. pc[p] \notin Near /\ pc[p] \notin SyncLabels
      BY <2>2 DEF FailList, ListLabels, SyncLabels
    <3>2. job'[p].events = {} /\ job'[p].tunnelEvents = {}
      BY <2>2, <3>1, FailWork DEF SameCargo, Carrying
    <3>3. QED BY <1>4, <3>2
  <2>3. CASE Advancing(p)
    <3>1. CASE job'[p] = job[p] /\ pc[p] = "drift" /\ pc'[p] = "config"
      BY <1>4, <3>1 DEF Carrying, SyncLabels
    <3>2. CASE pc'[p] \in {"log", "connectors"} /\ job'[p].tunnelEvents = {}
      BY <1>4, <3>2 DEF SyncLabels
    <3>3. QED BY <2>3, <3>1, <3>2, AdvancingWork
  <2>4. CASE SaveConnectors(p)
    <3>1. \A e \in job'[p].tunnelEvents : e.kind \notin TunnelKinds
      BY <2>4, DerivingWork DEF ConnectorEvents, Event, TunnelKinds
    <3>2. pc'[p] \in SyncLabels
      BY <2>4, DerivingWork DEF SyncLabels
    <3>3. QED BY <1>4, <3>1, <3>2
  <2>5. QED BY <2>1, <2>2, <2>3, <2>4 DEF Silent
<1>6. \A e \in events' : e.batch <= batches'
  BY SilentFrame DEF Carrying
<1>7. QED BY <1>3, <1>5, <1>6 DEF Carrying

\* A write to the log.
LEMMA AddedBatches ==
  ASSUME TypeOK, Carrying, NEW entries, AddEvents(entries)
  PROVE  \A e \in events' : e.batch <= batches'
BY DEF AddEvents, Carrying, TypeOK, LogTypeOK

\* With nothing old enough, pruning leaves the log alone.
LEMMA EventsStay ==
  ASSUME NothingPruned, TypeOK, NEW p \in Pollers, Prune(p)
  PROVE  events' = events
<1>1. started[p] \in 0..MaxClock /\ Retention \in Nat /\ MaxClock \in Nat
  BY NumberAssumption DEF TypeOK, ViewTypeOK
<1>2. \A e \in events : e.entry.at >= started[p] - Retention
  BY <1>1 DEF NothingPruned, TypeOK, LogTypeOK, Entry
<1>3. QED BY <1>2 DEF Prune

\* The write of the batch, and what follows it in a round.
Closing(p) == LogEvents(p) \/ RecordStatus(p) \/ LogFailure(p) \/ AddPollRun(p) \/ Prune(p)

\* It starts with an empty batch or empties it, and leaves the list for good.
LEMMA ClosingWork ==
  ASSUME TypeOK, Carrying, NEW p \in Pollers, Closing(p)
  PROVE  /\ OthersKeep(p) /\ job'[p].events = {} /\ job'[p].tunnelEvents = {}
         /\ pc'[p] \notin SyncLabels \cup ListLabels \cup {"cycle", "log"}
         /\ tunnels' = tunnels
         /\ pc'[p] # "idle" => job'[p].failed = job[p].failed
         /\ ~LogEvents(p) => job[p].events = {}
         /\ job[p].tunnelEvents = {}
<1>1. pc \in [Pollers -> Labels] /\ job \in [Pollers -> Job] /\ job[p] \in Job
  BY DEF TypeOK, Stations
<1>2. OthersKeep(p)
  BY <1>1 DEF Closing, LogEvents, RecordStatus, LogFailure, AddPollRun, Prune, End, Goto, Set, OthersKeep
<1>3. tunnels' = tunnels
  BY DEF Closing, LogEvents, RecordStatus, LogFailure, AddPollRun, Prune, Log!Prune, database, statusTables
<1>4. pc'[p] \notin SyncLabels \cup ListLabels \cup {"cycle", "log"}
  BY <1>1 DEF Closing, LogEvents, RecordStatus, LogFailure, AddPollRun, Prune, End, Goto, SyncLabels, ListLabels
<1>5. job[p].tunnelEvents = {} /\ (~LogEvents(p) => job[p].events = {})
  BY DEF Closing, Carrying, LogEvents, RecordStatus, LogFailure, AddPollRun, Prune, SyncLabels
<1>6. /\ job'[p].events = {} /\ job'[p].tunnelEvents = {}
      /\ pc'[p] # "idle" => job'[p].failed = job[p].failed
  <2>1. CASE LogEvents(p)
    <3> DEFINE work == [job[p] EXCEPT !.events = {}]
    <3>1. work.events = {} /\ work.tunnelEvents = job[p].tunnelEvents /\ work.failed = job[p].failed
      BY <1>1 DEF Job
    <3>2. Set(p, work)
      BY <2>1 DEF LogEvents
    <3> HIDE DEF work
    <3>3. QED BY <1>1, <1>5, <3>1, <3>2 DEF Set
  <2>2. CASE RecordStatus(p)
    <3> DEFINE work == [NoJob EXCEPT !.failed = job[p].failed, !.prune = (cycles' % PruneEvery = 0)]
    <3>1. work.events = NoJob.events /\ work.tunnelEvents = NoJob.tunnelEvents
          /\ work.failed = job[p].failed
      BY FreshTypes DEF Job
    <3>2. Set(p, work)
      BY <2>2 DEF RecordStatus
    <3> HIDE DEF work
    <3>3. job'[p] = work
      BY <1>1, <3>2 DEF Set
    <3>4. NoJob.events = {} /\ NoJob.tunnelEvents = {}
      BY DEF NoJob
    <3>5. QED BY <3>1, <3>3, <3>4
  <2>3. CASE LogFailure(p)
    <3>1. ~LogEvents(p) /\ job' = job
      BY <2>3 DEF LogFailure, LogEvents
    <3>2. QED BY <1>5, <3>1
  <2>4. ASSUME End(p)
        PROVE  job'[p].events = {} /\ job'[p].tunnelEvents = {} /\ pc'[p] = "idle"
    <3>1. job'[p] = NoJob /\ pc'[p] = "idle"
      BY <1>1, <2>4 DEF End, Set, Goto
    <3>2. NoJob.events = {} /\ NoJob.tunnelEvents = {}
      BY DEF NoJob
    <3>3. QED BY <3>1, <3>2
  <2>5. CASE AddPollRun(p) \/ Prune(p)
    <3>1. ~LogEvents(p) /\ (job' = job \/ End(p))
      BY <2>5 DEF AddPollRun, Prune, LogEvents
    <3>2. QED BY <1>5, <2>4, <3>1
  <2>6. QED BY <2>1, <2>2, <2>3, <2>5 DEF Closing
<1>7. QED BY <1>2, <1>3, <1>4, <1>5, <1>6

\* Every step carries what Carrying says.
LEMMA CarryingStep ==
  ASSUME EventsGetWritten, TypeOK, Carrying, [Next]_vars
  PROVE  Carrying'
<1>1. /\ pc \in [Pollers -> Labels] /\ job \in [Pollers -> Job] /\ alive \in [Pollers -> BOOLEAN]
  BY DEF TypeOK, Stations, ViewTypeOK
<1> DEFINE Fine(q) == /\ pc'[q] # "idle" => alive'[q]
                      /\ pc'[q] \notin SyncLabels \cup {"cycle", "log"} => job'[q].events = {}
                      /\ pc'[q] \notin SyncLabels => job'[q].tunnelEvents = {}
                      /\ \A e \in job'[q].tunnelEvents : e.kind \notin TunnelKinds
<1>2. ASSUME NEW p \in Pollers, OthersKeep(p), \A q \in Pollers \ {p} : alive'[q] = alive[q], Fine(p)
      PROVE  \A q \in Pollers : Fine(q)
  BY <1>2 DEF OthersKeep, Carrying
<1>3. ASSUME NEW p \in Pollers, Silent(p)
      PROVE  Carrying'
  BY <1>3, SilentCarries
<1>4. ASSUME NEW p \in Pollers, Closing(p)
      PROVE  Carrying'
  <2>1. /\ OthersKeep(p) /\ job'[p].events = {} /\ job'[p].tunnelEvents = {}
        /\ pc'[p] \notin SyncLabels \cup {"cycle", "log"}
    BY <1>4, ClosingWork
  <2>2. alive[p]
    BY <1>4 DEF Carrying, Closing, LogEvents, RecordStatus, LogFailure, AddPollRun, Prune
  <2>3. (UNCHANGED alive \/ alive' = [alive EXCEPT ![p] = FALSE]) /\ (alive'[p] \/ pc'[p] = "idle")
    BY <1>1, <1>4, <2>2 DEF Closing, LogEvents, RecordStatus, LogFailure, AddPollRun, Prune, view, End, Goto
  <2>4. \A q \in Pollers \ {p} : alive'[q] = alive[q]
    BY <1>1, <2>3
  <2>5. \A q \in Pollers : Fine(q)
    BY <1>2, <2>1, <2>3, <2>4
  <2>6. \A e \in events' : e.batch <= batches'
    <3>1. CASE LogEvents(p) \/ LogFailure(p)
      <4>1. UNCHANGED <<events, batches>> \/ \E entries : AddEvents(entries)
        BY <3>1 DEF LogEvents, LogFailure, logTables
      <4>2. QED BY <4>1, AddedBatches DEF Carrying
    <3>2. CASE RecordStatus(p) \/ AddPollRun(p) \/ Prune(p)
      <4>1. events' \subseteq events /\ batches' = batches
        BY <3>2 DEF RecordStatus, AddPollRun, Prune, database, logTables
      <4>2. QED BY <4>1 DEF Carrying
    <3>3. QED BY <1>4, <3>1, <3>2 DEF Closing
  <2>7. QED BY <2>5, <2>6 DEF Carrying
<1>5. ASSUME NEW p \in Pollers, SaveTunnels(p)
      PROVE  Carrying'
  <2> DEFINE found == TunnelEvents(previous[p], listed[p], started[p])
             work == [job[p] EXCEPT !.events = found, !.todo = {t \in Tunnels : listed[p][t] # None}]
  <2>1. Set(p, work) /\ Goto(p, "cycle") /\ pc[p] = "save"
    BY <1>5 DEF SaveTunnels
  <2> HIDE DEF found
  <2>2. work.tunnelEvents = job[p].tunnelEvents
    BY <1>1 DEF Job
  <2> HIDE DEF work
  <2>3. job'[p] = work /\ pc'[p] = "cycle" /\ OthersKeep(p)
    BY <1>1, <2>1 DEF Set, Goto, OthersKeep
  <2>4. job[p].tunnelEvents = {} /\ alive[p]
    BY <2>1 DEF Carrying, SyncLabels
  <2>5. UNCHANGED <<alive, events, batches>>
    BY <1>5 DEF SaveTunnels, view, logTables
  <2>6. Fine(p)
    BY <2>2, <2>3, <2>4, <2>5
  <2>7. \A q \in Pollers : Fine(q)
    BY <1>2, <2>3, <2>5, <2>6
  <2>8. QED BY <2>5, <2>7 DEF Carrying
<1>6. CASE Tick \/ UNCHANGED vars \/ \E t \in Tunnels : Account(t)
  <2>1. UNCHANGED <<events, batches, pc, job, alive>>
    BY <1>6 DEF Tick, vars, Account, CloudList, CloudDelete, CloudStatus, CloudConnector,
       CloudPublish, Cloud, database, logTables, round
  <2>2. QED BY <2>1 DEF Carrying
<1>7. ~Crash /\ \A p \in Pollers : ~Expire(p)
  BY DEF EventsGetWritten, Crash, Expire
<1>8. QED BY <1>3, <1>4, <1>5, <1>6, <1>7 DEF Next, PollOnce, Poll, Silent, Plain, Advancing, Closing

\* The newest of a set of log entries, when a later batch is added.
LEMMA NewestAdded ==
  ASSUME NEW old, NEW n \in Nat, \A e \in old : e.batch \in Nat /\ e.batch <= n,
         NEW new, new # {}, \A e \in new : e.batch = n + 1
  PROVE  Newest(old \cup new) = new
BY DEF Newest

StatusFound(t) == {e \in events : e.entry.tunnel = t /\ e.entry.kind \in TunnelKinds}

\* A batch that does not mention the tunnel leaves what the log says of it.
LEMMA LoggedKept ==
  ASSUME NEW t \in Tunnels, NEW entries, AddEvents(entries), \A e \in entries : ~AboutStatus(e, t)
  PROVE  LoggedStatus(t)' = LoggedStatus(t)
<1>1. StatusFound(t)' = StatusFound(t)
  BY DEF StatusFound, AddEvents, AboutStatus
<1>2. QED BY <1>1 DEF LoggedStatus, StatusFound, Newest

\* One that does has the last word.
LEMMA LoggedAdded ==
  ASSUME TypeOK, Carrying, NEW t \in Tunnels, NEW entries, AddEvents(entries),
         NEW first \in entries, AboutStatus(first, t),
         NEW s, \A e \in entries : AboutStatus(e, t) => e.to = s
  PROVE  LoggedStatus(t)' = {s}
<1> DEFINE new == {[batch |-> batches + 1, entry |-> e] : e \in {f \in entries : AboutStatus(f, t)}}
<1>1. StatusFound(t)' = StatusFound(t) \cup new
  BY DEF StatusFound, AddEvents, AboutStatus
<1>2. \A e \in new : e.batch = batches + 1 /\ e.entry.to = s
  OBVIOUS
<1>3. [batch |-> batches + 1, entry |-> first] \in new
  OBVIOUS
<1> HIDE DEF new
<1>4. batches \in Nat /\ \A e \in StatusFound(t) : e.batch \in Nat /\ e.batch <= batches
  BY DEF TypeOK, LogTypeOK, Carrying, StatusFound
<1>5. Newest(StatusFound(t) \cup new) = new
  BY <1>2, <1>3, <1>4, NewestAdded
<1>6. LoggedStatus(t)' = {e.entry.to : e \in Newest(StatusFound(t) \cup new)}
  BY <1>1 DEF LoggedStatus, StatusFound, Newest
<1>7. QED BY <1>2, <1>3, <1>5, <1>6

\* A silent step changes nothing of what a round has to say about tunnels.
LEMMA SilentPending ==
  ASSUME TypeOK, Carrying, NEW p \in Pollers, Silent(p), NEW q \in Pollers,
         NEW e, e.kind \in TunnelKinds
  PROVE  e \in Pending(job'[q]) <=> e \in Pending(job[q])
<1>1. CASE q # p
  BY <1>1, PlainWork, FailWork, AdvancingWork, DerivingWork DEF Silent, OthersKeep
<1>2. CASE Plain(p) \/ FailList(p)
  BY <1>1, <1>2, PlainWork, FailWork DEF SameCargo, Pending
<1>3. \A f \in job[p].tunnelEvents : f.kind \notin TunnelKinds
  BY DEF Carrying
<1>4. CASE Advancing(p) /\ q = p
  <2>1. CASE job'[p] = job[p]
    BY <1>4, <2>1
  <2>2. CASE job'[p].tunnelEvents = {} /\ job'[p].events = job[p].events
    BY <1>3, <1>4, <2>2 DEF Pending
  <2>3. ASSUME NEW more, \A f \in more : f.kind = "config_changed",
               job'[p].events = Pending(job[p]) \cup more, job'[p].tunnelEvents = {}
        PROVE  e \in Pending(job'[q]) <=> e \in Pending(job[q])
    <3>1. e \notin more
      BY <2>3 DEF TunnelKinds
    <3>2. QED BY <1>4, <2>3, <3>1 DEF Pending
  <2>4. QED BY <1>4, <2>1, <2>2, <2>3, AdvancingWork
<1>5. CASE SaveConnectors(p) /\ q = p
  <2>1. e \notin job'[p].tunnelEvents
    BY <1>5, DerivingWork DEF ConnectorEvents, Event, TunnelKinds
  <2>2. QED BY <1>3, <1>5, <2>1, DerivingWork DEF Pending
<1>6. QED BY <1>1, <1>2, <1>4, <1>5 DEF Silent

\* The events of a commit say the states it stores, and are silent about the
\* tunnels it leaves as they were.
LEMMA TunnelEventsSay ==
  ASSUME NEW before \in [Tunnels -> Statuses \cup {None}],
         NEW after \in [Tunnels -> Statuses \cup {None}], NEW at, NEW t \in Tunnels
  PROVE  /\ \A e \in TunnelEvents(before, after, at) : AboutStatus(e, t) => e.to = after[t]
         /\ (\A e \in TunnelEvents(before, after, at) : ~AboutStatus(e, t)) => after[t] = before[t]
<1> DEFINE added == {u \in Tunnels : before[u] = None /\ after[u] # None}
           removed == {u \in Tunnels : before[u] # None /\ after[u] = None}
           moved == Log!Changed(before, after) \ added
<1>1. TunnelEvents(before, after, at) =
        {Event("tunnel_added", u, None, None, after[u], at) : u \in added}
        \cup {Event("tunnel_removed", u, None, before[u], None, at) : u \in removed}
        \cup {Event("tunnel_status", u, None, before[u], after[u], at) : u \in moved}
  BY DEF TunnelEvents
<1>2. \A e \in TunnelEvents(before, after, at) : AboutStatus(e, t) => e.to = after[t]
  BY <1>1 DEF AboutStatus, Event
<1>3. ASSUME after[t] # before[t]
      PROVE  \E e \in TunnelEvents(before, after, at) : AboutStatus(e, t)
  <2>1. t \in added \/ t \in removed \/ t \in moved
    BY <1>3 DEF Log!Changed
  <2> HIDE DEF added, removed, moved
  <2>2. CASE t \in added
    <3>1. Event("tunnel_added", t, None, None, after[t], at) \in TunnelEvents(before, after, at)
      BY <1>1, <2>2
    <3>2. QED BY <3>1 DEF Event, AboutStatus, TunnelKinds
  <2>3. CASE t \in removed
    <3>1. Event("tunnel_removed", t, None, before[t], None, at) \in TunnelEvents(before, after, at)
      BY <1>1, <2>3
    <3>2. QED BY <3>1 DEF Event, AboutStatus, TunnelKinds
  <2>4. CASE t \in moved
    <3>1. Event("tunnel_status", t, None, before[t], after[t], at) \in TunnelEvents(before, after, at)
      BY <1>1, <2>4
    <3>2. QED BY <3>1 DEF Event, AboutStatus, TunnelKinds
  <2>5. QED BY <2>1, <2>2, <2>3, <2>4
<1>4. QED BY <1>2, <1>3

\* The log is written with the batch of the round, or with the round's failure.
LEMMA WriteTunnelReplay ==
  ASSUME OnePoller, EventsGetWritten, TypeOK, Carrying, TunnelReplayInv,
         NEW p \in Pollers, LogEvents(p) \/ LogFailure(p)
  PROVE  TunnelReplayInv'
<1>1. \A q \in Pollers : q = p
  BY DEF OnePoller
<1>2. Pending(job'[p]) = {} /\ tunnels' = tunnels
  BY ClosingWork DEF Closing, Pending
<1>3. SUFFICES ASSUME NEW t \in Tunnels PROVE Replays(t)'
  BY <1>1, <1>2 DEF TunnelReplayInv
<1>4. \A e \in Pending(job[p]) : AboutStatus(e, t) => e.to = tunnels[t]
  BY DEF TunnelReplayInv
<1>5. (\A e \in Pending(job[p]) : ~AboutStatus(e, t)) => Replays(t)
  BY <1>1 DEF TunnelReplayInv
<1>6. CASE LogFailure(p)
  <2> DEFINE failure == Event("poll_failed", None, None, None, None, started[p])
  <2>1. ~LogEvents(p)
    BY <1>6 DEF LogFailure, LogEvents
  <2>2. Pending(job[p]) = {}
    BY <1>6, <2>1, ClosingWork DEF Closing, Pending
  <2>3. \A e \in {failure} : ~AboutStatus(e, t)
    BY DEF AboutStatus, TunnelKinds, Event
  <2>4. AddEvents({failure}) \/ UNCHANGED events
    BY <1>6 DEF LogFailure, logTables
  <2> HIDE DEF failure
  <2>5. LoggedStatus(t)' = LoggedStatus(t)
    BY <2>3, <2>4, LoggedKept DEF LoggedStatus, Newest
  <2>6. QED BY <1>2, <1>5, <2>2, <2>5 DEF Replays
<1>7. CASE LogEvents(p)
  <2>1. ~Fails(p)
    BY <1>7 DEF Fails, Reachable, LogEvents, Carrying, EventsGetWritten
  <2>2. Pending(job[p]) = job[p].events
    BY <1>7, ClosingWork DEF Closing, Pending
  <2>3. CASE job[p].events = {} /\ UNCHANGED events
    <3>1. LoggedStatus(t)' = LoggedStatus(t)
      BY <2>3 DEF LoggedStatus, Newest
    <3>2. QED BY <1>2, <1>5, <2>2, <2>3, <3>1 DEF Replays
  <2>4. CASE AddEvents(job[p].events)
    <3>1. CASE \A e \in job[p].events : ~AboutStatus(e, t)
      BY <1>2, <1>5, <2>2, <2>4, <3>1, LoggedKept DEF Replays
    <3>2. CASE \E e \in job[p].events : AboutStatus(e, t)
      <4>1. LoggedStatus(t)' = {tunnels[t]}
        BY <1>4, <2>2, <2>4, <3>2, LoggedAdded
      <4>2. QED BY <1>2, <4>1 DEF Replays
    <3>3. QED BY <3>1, <3>2
  <2>5. QED BY <1>7, <2>1, <2>3, <2>4 DEF LogEvents, logTables
<1>8. QED BY <1>6, <1>7

\* Every step of one poller keeps log, batch and stored tunnels together.
LEMMA StepTunnelReplay ==
  ASSUME OnePoller, NothingPruned, EventsGetWritten, TypeOK, Serial, Carrying, TunnelReplayInv,
         [Next]_vars
  PROVE  TunnelReplayInv'
<1>1. ASSUME UNCHANGED <<events, tunnels>>,
             \A q \in Pollers, t \in Tunnels : \A e :
               AboutStatus(e, t) => (e \in Pending(job'[q]) <=> e \in Pending(job[q]))
      PROVE  TunnelReplayInv'
  <2>1. \A t \in Tunnels : LoggedStatus(t)' = LoggedStatus(t) /\ Replays(t)' = Replays(t)
    BY <1>1 DEF LoggedStatus, Replays, Newest
  <2>2. QED BY <1>1, <2>1 DEF TunnelReplayInv
<1>2. ASSUME NEW p \in Pollers, Silent(p)
      PROVE  TunnelReplayInv'
  <2>1. UNCHANGED <<events, tunnels>>
    BY <1>2, SilentFrame
  <2>2. \A q \in Pollers, t \in Tunnels : \A e :
          AboutStatus(e, t) => (e \in Pending(job'[q]) <=> e \in Pending(job[q]))
    BY <1>2, SilentPending DEF AboutStatus
  <2>3. QED BY <1>1, <2>1, <2>2
<1>3. ASSUME NEW p \in Pollers, LogEvents(p) \/ LogFailure(p)
      PROVE  TunnelReplayInv'
  BY <1>3, WriteTunnelReplay
<1>4. ASSUME NEW p \in Pollers, RecordStatus(p) \/ AddPollRun(p) \/ Prune(p)
      PROVE  TunnelReplayInv'
  <2>1. ~LogEvents(p) /\ Closing(p)
    BY <1>4 DEF LogEvents, RecordStatus, AddPollRun, Prune, Closing
  <2>2. Pending(job[p]) = {} /\ Pending(job'[p]) = {} /\ OthersKeep(p) /\ tunnels' = tunnels
    BY <2>1, ClosingWork DEF Pending
  <2>3. events' = events
    BY <1>4, EventsStay DEF RecordStatus, AddPollRun, database, logTables
  <2>4. QED BY <1>1, <2>2, <2>3 DEF OthersKeep
<1>5. ASSUME NEW p \in Pollers, SaveTunnels(p)
      PROVE  TunnelReplayInv'
  <2> DEFINE found == TunnelEvents(previous[p], listed[p], started[p])
             work == [job[p] EXCEPT !.events = found, !.todo = {t \in Tunnels : listed[p][t] # None}]
  <2>1. Set(p, work) /\ pc[p] = "save" /\ UNCHANGED events
    BY <1>5 DEF SaveTunnels, logTables
  <2> HIDE DEF found
  <2>2. work.tunnelEvents = job[p].tunnelEvents /\ work.events = found
    BY DEF TypeOK, Stations, Job
  <2> HIDE DEF work
  <2>3. job'[p] = work
    BY <2>1 DEF Set, TypeOK, Stations
  <2>4. job[p].events = {} /\ job[p].tunnelEvents = {}
    BY <2>1 DEF Carrying, SyncLabels
  <2>5. Pending(job[p]) = {} /\ Pending(job'[p]) = found
    BY <2>2, <2>3, <2>4 DEF Pending
  <2>6. previous[p] = tunnels /\ tunnels' = listed[p]
    BY <1>5, SaveObserves DEF Serial, SaveTunnels, Log!Observe
  <2>7. /\ tunnels \in [Tunnels -> Statuses \cup {None}]
        /\ listed[p] \in [Tunnels -> Statuses \cup {None}]
    BY DEF TypeOK, ViewTypeOK, Log!TypeOK
  <2>8. \A t \in Tunnels : /\ \A e \in found : AboutStatus(e, t) => e.to = tunnels'[t]
                           /\ (\A e \in found : ~AboutStatus(e, t)) => tunnels'[t] = tunnels[t]
    BY <2>6, <2>7, TunnelEventsSay DEF found
  <2>9. \A t \in Tunnels : Replays(t)
    BY <2>5 DEF OnePoller, TunnelReplayInv
  <2>10. \A t \in Tunnels : LoggedStatus(t)' = LoggedStatus(t)
    BY <2>1 DEF LoggedStatus, Newest
  <2>11. QED BY <2>5, <2>8, <2>9, <2>10 DEF OnePoller, TunnelReplayInv, Replays
<1>6. CASE Tick \/ UNCHANGED vars \/ \E t \in Tunnels : Account(t)
  <2>1. UNCHANGED <<events, tunnels, job>>
    BY <1>6 DEF Tick, vars, Account, CloudList, CloudDelete, CloudStatus, CloudConnector,
       CloudPublish, Cloud, database, logTables, statusTables, round
  <2>2. QED BY <1>1, <2>1
<1>7. ~Crash /\ \A p \in Pollers : ~Expire(p)
  BY DEF EventsGetWritten, Crash, Expire
<1>8. QED BY <1>2, <1>3, <1>4, <1>5, <1>6, <1>7 DEF Next, PollOnce, Poll, Silent, Plain, Advancing

\* So what a round carries is an invariant.
LEMMA CarryingInvariant ==
  ASSUME EventsGetWritten
  PROVE  Spec => []Carrying
<1>1. Init => Carrying
  BY DEF Init, Carrying, AllIdle, NoJobs, NoJob, SyncLabels
<1>2. TypeOK /\ Carrying /\ [Next]_vars => Carrying'
  BY EventsGetWritten, CarryingStep
<1>3. QED BY <1>1, <1>2, TypeCorrect, EventsGetWritten, PTL DEF Spec

\* With one poller, and while nothing keeps it from writing the events it has
\* and nothing is old enough to be pruned, replaying the tunnel events between
\* rounds yields the stored tunnels: each commit of a list is followed by one
\* batch that says what it changed.
THEOREM OnePollerTunnelReplay ==
  ASSUME OnePoller, NothingPruned, EventsGetWritten
  PROVE  Spec => []TunnelEventsReplay
<1>1. Init => TunnelReplayInv
  <2> SUFFICES ASSUME Init PROVE TunnelReplayInv
    OBVIOUS
  <2>1. \A p \in Pollers : Pending(job[p]) = {}
    BY DEF Init, NoJobs, NoJob, Pending
  <2>2. \A t \in Tunnels : LoggedStatus(t) = {} /\ tunnels[t] = None
    BY DEF Init, Log!Init, LoggedStatus, Newest
  <2>3. QED BY <2>1, <2>2 DEF TunnelReplayInv, Replays
<1>2. TypeOK /\ Serial /\ Carrying /\ TunnelReplayInv /\ [Next]_vars => TunnelReplayInv'
  BY OnePoller, NothingPruned, EventsGetWritten, StepTunnelReplay
<1>3. Carrying /\ TunnelReplayInv => TunnelEventsReplay
  <2> SUFFICES ASSUME Carrying, TunnelReplayInv, Quiet PROVE \A t \in Tunnels : Replays(t)
    BY DEF TunnelEventsReplay, Replays
  <2>1. \A p \in Pollers : Pending(job[p]) = {}
    BY DEF Quiet, Carrying, Pending, SyncLabels
  <2>2. QED BY <2>1 DEF TunnelReplayInv
<1>4. QED
  BY <1>1, <1>2, <1>3, SerialInvariant, CarryingInvariant, OnePoller, NothingPruned, EventsGetWritten, PTL
  DEF Spec

\* The steps of a round on its way through the list keep the visits apart.
LEMMA StepVisited ==
  ASSUME OnePoller, TypeOK, Carrying, VisitedOnce, [Next]_vars
  PROVE  VisitedOnce'
<1> DEFINE Visited(work, at) ==
      /\ at \in SyncLabels => work.tunnel \notin work.todo
      /\ at \in FleetLabels => work.tunnelEvents = {}
      /\ \A e \in Pending(work) : e.kind \in PresenceKinds =>
           /\ at \in {"cycle"} \cup SyncLabels => e.tunnel \notin work.todo
           /\ at \in FleetLabels => e.tunnel # work.tunnel
           Read(p) == pc[p] = "saveConnectors" => job[p].oldFleet = connectors[job[p].tunnel]
<1>1. /\ pc \in [Pollers -> Labels] /\ job \in [Pollers -> Job]
      /\ \A p \in Pollers : job[p] \in Job /\ Visited(job[p], pc[p]) /\ Read(p)
  BY DEF TypeOK, Stations, VisitedOnce
<1>2. ASSUME NEW p \in Pollers, Visited(job'[p], pc'[p]), Read(p)'
      PROVE  VisitedOnce'
  BY <1>2 DEF OnePoller, VisitedOnce
<1>3. ASSUME NEW p \in Pollers, Plain(p)
      PROVE  VisitedOnce'
  <2>1. SameCargo(job'[p], job[p])
    BY <1>3, PlainWork
  <2>2. /\ pc'[p] \in SyncLabels => pc[p] \in SyncLabels
        /\ pc'[p] \in FleetLabels => pc[p] \in FleetLabels
        /\ pc'[p] # "cycle"
    BY <1>1, <1>3 DEF Plain, Begin, ListTunnels, ReadTunnels, ListConnectors, ReadConnectors,
       SaveConnections, GetConfiguration, ReadIngress, Goto, SyncLabels, FleetLabels
  <2>3. Visited(job'[p], pc'[p])
    BY <1>1, <2>1, <2>2 DEF SameCargo, Pending
  <2>4. CASE ReadConnectors(p)
    <3> DEFINE work == [job[p] EXCEPT !.oldFleet = connectors[job[p].tunnel]]
    <3>1. Set(p, work) /\ UNCHANGED connectors
      BY <2>4 DEF ReadConnectors, database, detailTables
    <3>2. work.oldFleet = connectors[job[p].tunnel] /\ work.tunnel = job[p].tunnel
      BY <1>1 DEF Job
    <3> HIDE DEF work
    <3>3. job'[p] = work
      BY <1>1, <3>1 DEF Set
    <3>4. QED BY <1>2, <2>3, <3>1, <3>2, <3>3
  <2>5. CASE ~ReadConnectors(p)
    <3>1. pc'[p] # "saveConnectors"
      BY <1>1, <1>3, <2>5 DEF Plain, Begin, ListTunnels, ReadTunnels, ListConnectors,
         SaveConnections, GetConfiguration, ReadIngress, Goto
    <3>2. QED BY <1>2, <2>3, <3>1
  <2>6. QED BY <2>4, <2>5
<1>4. ASSUME NEW p \in Pollers, FailList(p) \/ Closing(p)
      PROVE  VisitedOnce'
  <2>1. pc'[p] \notin SyncLabels \cup FleetLabels \cup {"cycle"}
    BY <1>4, FailWork, ClosingWork DEF SyncLabels, FleetLabels
  <2>2. pc'[p] # "saveConnectors"
    BY <2>1 DEF FleetLabels
  <2>3. QED BY <1>2, <2>1, <2>2
<1>5. ASSUME NEW p \in Pollers, Advancing(p)
      PROVE  VisitedOnce'
  <2>1. pc[p] \in {"cycle"} \cup SyncLabels
    BY <1>5 DEF Advancing, ReadCycle, CheckDrift, SaveIngress, FailTunnel, SyncLabels
  <2>2. \A e \in Pending(job[p]) : e.kind \in PresenceKinds => e.tunnel \notin job[p].todo
    BY <1>1, <2>1
  <2>3. CASE job'[p] = job[p] /\ pc[p] = "drift" /\ pc'[p] = "config"
    <3>1. Visited(job'[p], pc'[p]) /\ pc'[p] # "saveConnectors"
      BY <1>1, <2>3 DEF SyncLabels, FleetLabels
    <3>2. QED BY <1>2, <3>1
  <2>4. CASE /\ pc'[p] \in {"log", "connectors"}
             /\ job'[p].tunnelEvents = {}
             /\ job'[p].todo \subseteq job[p].todo
             /\ pc'[p] = "connectors" => job'[p].tunnel \in job[p].todo /\ job'[p].tunnel \notin job'[p].todo
             /\ \A e \in job'[p].events : e \in Pending(job[p]) \/ e.kind = "config_changed"
    <3>1. \A e \in Pending(job'[p]) : e.kind \in PresenceKinds => e.tunnel \notin job[p].todo
      BY <2>2, <2>4 DEF Pending, PresenceKinds, ConnectorKinds
    <3>2. pc'[p] \in {"cycle"} \cup SyncLabels \cup FleetLabels => pc'[p] = "connectors"
      BY <2>4 DEF SyncLabels, FleetLabels
    <3>3. Visited(job'[p], pc'[p])
      BY <2>4, <3>1, <3>2
    <3>4. QED BY <1>2, <2>4, <3>3
  <2>5. \A e \in job[p].events : e \in Pending(job[p])
    BY DEF Pending
  <2>6. QED BY <1>5, <2>3, <2>4, <2>5, AdvancingWork
<1>6. ASSUME NEW p \in Pollers, SaveConnectors(p)
      PROVE  VisitedOnce'
  <2>1. pc'[p] = "saveConnections" /\ pc[p] = "saveConnectors"
    BY <1>6, DerivingWork
  <2>2. pc[p] \in SyncLabels /\ pc'[p] \in SyncLabels /\ pc'[p] \notin FleetLabels /\ pc'[p] # "saveConnectors"
    BY <2>1 DEF SyncLabels, FleetLabels
  <2>3. \A e \in job'[p].tunnelEvents : e.tunnel = job[p].tunnel
    BY <1>6, DerivingWork DEF ConnectorEvents, Event
  <2>4. \A e \in job[p].events : e.kind \in PresenceKinds => e.tunnel \notin job[p].todo
    BY <1>1, <2>2 DEF Pending
  <2>5. \A e \in Pending(job'[p]) : e.kind \in PresenceKinds => e.tunnel \notin job'[p].todo
    BY <1>1, <1>6, <2>2, <2>3, <2>4, DerivingWork DEF Pending
  <2>6. job'[p].tunnel \notin job'[p].todo
    BY <1>1, <1>6, <2>2, DerivingWork
  <2>7. QED BY <1>2, <2>2, <2>5, <2>6
<1>7. ASSUME NEW p \in Pollers, SaveTunnels(p)
      PROVE  VisitedOnce'
  <2> DEFINE found == TunnelEvents(previous[p], listed[p], started[p])
             left == {t \in Tunnels : listed[p][t] # None}
             work == [job[p] EXCEPT !.events = found, !.todo = left]
  <2>1. Set(p, work) /\ Goto(p, "cycle") /\ pc[p] = "save"
    BY <1>7 DEF SaveTunnels
  <2>2. \A e \in found : e.kind \in PresenceKinds => e.tunnel \notin left
    BY DEF TunnelEvents, Event, PresenceKinds, ConnectorKinds
  <2> HIDE DEF found, left
  <2>3. work.tunnelEvents = job[p].tunnelEvents /\ work.events = found /\ work.todo = left
    BY <1>1 DEF Job
  <2> HIDE DEF work
  <2>4. job'[p] = work /\ pc'[p] = "cycle"
    BY <1>1, <2>1 DEF Set, Goto
  <2>5. job[p].tunnelEvents = {}
    BY <2>1 DEF Carrying, SyncLabels
  <2>6. Visited(job'[p], pc'[p])
    BY <2>2, <2>3, <2>4, <2>5 DEF Pending, SyncLabels, FleetLabels
  <2>7. QED BY <1>2, <2>4, <2>6
<1>8. CASE Tick \/ UNCHANGED vars \/ (\E t \in Tunnels : Account(t)) \/ (\E p \in Pollers : Expire(p))
  <2>1. UNCHANGED <<connectors, pc, job>>
    BY <1>8 DEF Tick, vars, Account, CloudList, CloudDelete, CloudStatus, CloudConnector,
       CloudPublish, Cloud, Expire, database, detailTables, round
  <2>2. QED BY <2>1 DEF VisitedOnce
<1>9. CASE Crash
  <2>1. \A p \in Pollers : pc'[p] = "idle" /\ Pending(job'[p]) = {}
    BY <1>9 DEF Crash, AllIdle, NoJobs, NoJob, Pending
  <2>2. QED BY <2>1 DEF VisitedOnce, SyncLabels, FleetLabels
<1>10. QED BY <1>3, <1>4, <1>5, <1>6, <1>7, <1>8, <1>9 DEF Next, PollOnce, Poll, Plain, Advancing, Closing

\* A failed round has said so in the log before it is over.
FailuresAreWritten ==
  \A p \in Pollers :
    /\ pc[p] = "idle" => ~job[p].failed
    /\ pc[p] \in {"run", "prune"} /\ job[p].failed => \E e \in events : e.entry.kind = "poll_failed"

\* No step removes an entry of the log.
LEMMA EventsGrow ==
  ASSUME NothingPruned, TypeOK, [Next]_vars
  PROVE  events \subseteq events'
<1>1. ASSUME NEW p \in Pollers, Silent(p) \/ SaveTunnels(p) \/ RecordStatus(p) \/ AddPollRun(p) \/ Expire(p)
      PROVE  events' = events
  BY <1>1, SilentFrame DEF SaveTunnels, RecordStatus, AddPollRun, Expire, database, logTables
<1>2. ASSUME NEW p \in Pollers, LogEvents(p) \/ LogFailure(p)
      PROVE  events \subseteq events'
  BY <1>2 DEF LogEvents, LogFailure, AddEvents, logTables
<1>3. CASE Tick \/ UNCHANGED vars \/ Crash \/ \E t \in Tunnels : Account(t)
  BY <1>3 DEF Tick, vars, Account, CloudList, CloudDelete, CloudStatus, CloudConnector,
     CloudPublish, Cloud, Crash, database, logTables
<1>4. QED BY <1>1, <1>2, <1>3, EventsStay DEF Next, PollOnce, Poll, Silent, Plain, Advancing

\* A round passes logFailure, or has not failed, before it ends.
LEMMA StepFailuresAreWritten ==
  ASSUME NothingPruned, FailuresGetWritten, TypeOK, Carrying, FailuresAreWritten, [Next]_vars
  PROVE  FailuresAreWritten'
<1>1. events \subseteq events'
  BY EventsGrow
<1>2. /\ pc \in [Pollers -> Labels] /\ job \in [Pollers -> Job]
  BY DEF TypeOK, Stations
<1>3. ASSUME NEW p \in Pollers, OthersKeep(p),
             pc'[p] = "idle" => ~job'[p].failed,
             pc'[p] \in {"run", "prune"} /\ job'[p].failed => \E e \in events' : e.entry.kind = "poll_failed"
      PROVE  FailuresAreWritten'
  BY <1>1, <1>3 DEF FailuresAreWritten, OthersKeep
<1>4. ASSUME NEW p \in Pollers, Silent(p) \/ SaveTunnels(p)
      PROVE  FailuresAreWritten'
  <2>1. OthersKeep(p)
    BY <1>2, <1>4, PlainWork, FailWork, AdvancingWork, DerivingWork
    DEF Silent, SaveTunnels, OthersKeep, Set, Goto
  <2>2. pc'[p] \notin {"idle", "run", "prune"}
    <3>1. CASE Plain(p) \/ SaveTunnels(p)
      BY <1>2, <3>1 DEF Plain, Begin, ListTunnels, ReadTunnels, ListConnectors, ReadConnectors,
         SaveConnections, GetConfiguration, ReadIngress, SaveTunnels, Goto
    <3>2. CASE ~Plain(p) /\ ~SaveTunnels(p)
      BY <1>4, <3>2, FailWork, AdvancingWork, DerivingWork DEF Silent
    <3>3. QED BY <3>1, <3>2
  <2>3. QED BY <1>3, <2>1, <2>2
<1>5. ASSUME NEW p \in Pollers, LogEvents(p) \/ RecordStatus(p)
      PROVE  FailuresAreWritten'
  <2>1. OthersKeep(p) /\ (pc'[p] # "idle" => job'[p].failed = job[p].failed)
    BY <1>5, ClosingWork DEF Closing
  <2>2. pc'[p] = "status" \/ pc'[p] = "logFailure" \/ (pc'[p] = "run" /\ ~job[p].failed)
    BY <1>2, <1>5 DEF LogEvents, RecordStatus, Goto
  <2>3. QED BY <1>3, <2>1, <2>2
<1>6. ASSUME NEW p \in Pollers, LogFailure(p)
      PROVE  FailuresAreWritten'
  <2> DEFINE failure == Event("poll_failed", None, None, None, None, started[p])
             row == [batch |-> batches + 1, entry |-> failure]
  <2>1. ~Fails(p)
    BY <1>6 DEF Fails, Reachable, LogFailure, Carrying, FailuresGetWritten
  <2>2. AddEvents({failure}) /\ pc'[p] = "run"
    BY <1>2, <1>6, <2>1 DEF LogFailure, Goto
  <2>3. row.entry.kind = "poll_failed"
    BY DEF Event
  <2> HIDE DEF failure
  <2>4. row \in events'
    BY <2>2 DEF AddEvents
  <2>5. OthersKeep(p)
    BY <1>6, ClosingWork DEF Closing
  <2>6. QED BY <1>3, <2>2, <2>3, <2>4, <2>5
<1>7. ASSUME NEW p \in Pollers, AddPollRun(p) \/ Prune(p)
      PROVE  FailuresAreWritten'
  <2>1. pc[p] \in {"run", "prune"} /\ OthersKeep(p) /\ (pc'[p] # "idle" => job'[p].failed = job[p].failed)
    BY <1>7, ClosingWork DEF Closing, AddPollRun, Prune
  <2>2. NoJob.failed = FALSE
    BY DEF NoJob
  <2>3. pc'[p] = "idle" => job'[p].failed = FALSE
    BY <1>2, <1>7, <2>2 DEF AddPollRun, Prune, End, Set, Goto
  <2>4. job[p].failed => \E e \in events' : e.entry.kind = "poll_failed"
    BY <1>1, <2>1 DEF FailuresAreWritten
  <2>5. QED BY <1>3, <2>1, <2>3, <2>4
<1>8. CASE Tick \/ UNCHANGED vars \/ \E t \in Tunnels : Account(t)
  <2>1. UNCHANGED <<events, pc, job>>
    BY <1>8 DEF Tick, vars, Account, CloudList, CloudDelete, CloudStatus, CloudConnector,
       CloudPublish, Cloud, database, logTables, round
  <2>2. QED BY <2>1 DEF FailuresAreWritten
<1>9. ~Crash /\ \A p \in Pollers : ~Expire(p)
  BY DEF FailuresGetWritten, EventsGetWritten, Crash, Expire
<1>10. QED
  BY <1>4, <1>5, <1>6, <1>7, <1>8, <1>9 DEF Next, PollOnce, Poll, Silent, Plain, Advancing

\* A failure once there, in a round or in the log, is there for good.
LEMMA FailureStays ==
  ASSUME NothingPruned, FailuresGetWritten, TypeOK, Carrying, FailuresAreWritten, [Next]_vars, NoFailure'
  PROVE  NoFailure
<1>1. \A e \in events : e.entry.kind # "poll_failed"
  BY EventsGrow DEF NoFailure
<1>2. SUFFICES ASSUME NEW p \in Pollers, job[p].failed, ~job'[p].failed PROVE FALSE
  BY <1>1 DEF NoFailure
<1>3. pc \in [Pollers -> Labels] /\ job \in [Pollers -> Job]
  BY DEF TypeOK, Stations
<1>4. pc[p] # "idle" /\ pc[p] \notin {"run", "prune"}
  BY <1>1, <1>2 DEF FailuresAreWritten
<1>5. \A q \in Pollers : OthersKeep(q) => q = p
  BY <1>2 DEF OthersKeep
<1>6. ASSUME NEW q \in Pollers, Silent(q)
      PROVE  FALSE
  <2>1. OthersKeep(q) /\ (job'[q].failed = job[q].failed \/ job'[q].failed)
    BY <1>6, PlainWork, FailWork, AdvancingWork, DerivingWork DEF Silent
  <2>2. QED BY <1>2, <1>5, <2>1
<1>7. ASSUME NEW q \in Pollers, LogEvents(q) \/ RecordStatus(q) \/ LogFailure(q)
      PROVE  FALSE
  <2>1. pc'[q] # "idle"
    BY <1>3, <1>7 DEF LogEvents, RecordStatus, LogFailure, Goto
  <2>2. OthersKeep(q) /\ job'[q].failed = job[q].failed
    BY <1>7, <2>1, ClosingWork DEF Closing
  <2>3. QED BY <1>2, <1>5, <2>2
<1>8. ASSUME NEW q \in Pollers, AddPollRun(q) \/ Prune(q)
      PROVE  FALSE
  <2>1. OthersKeep(q) /\ pc[q] \in {"run", "prune"}
    BY <1>8, ClosingWork DEF Closing, AddPollRun, Prune
  <2>2. QED BY <1>4, <1>5, <2>1
<1>9. ASSUME NEW q \in Pollers, SaveTunnels(q)
      PROVE  FALSE
  <2> DEFINE found == TunnelEvents(previous[q], listed[q], started[q])
             left == {t \in Tunnels : listed[q][t] # None}
             work == [job[q] EXCEPT !.events = found, !.todo = left]
  <2>1. Set(q, work)
    BY <1>9 DEF SaveTunnels
  <2> HIDE DEF found, left
  <2>2. work.failed = job[q].failed
    BY <1>3 DEF Job
  <2> HIDE DEF work
  <2>3. OthersKeep(q) /\ job'[q].failed = job[q].failed
    BY <1>3, <1>9, <2>1, <2>2 DEF Set, OthersKeep, SaveTunnels, Goto
  <2>4. QED BY <1>2, <1>5, <2>3
<1>10. CASE Tick \/ UNCHANGED vars \/ \E t \in Tunnels : Account(t)
  BY <1>2, <1>10 DEF Tick, vars, Account, CloudList, CloudDelete, CloudStatus, CloudConnector,
     CloudPublish, Cloud, round
<1>11. ~Crash /\ \A q \in Pollers : ~Expire(q)
  BY DEF FailuresGetWritten, EventsGetWritten, Crash, Expire
<1>12. QED
  BY <1>6, <1>7, <1>8, <1>9, <1>10, <1>11 DEF Next, PollOnce, Poll, Silent, Plain, Advancing

PresenceFound(t, c) ==
  {e \in events : /\ e.entry.tunnel = t
                  /\ e.entry.connector = c \/ e.entry.kind = "tunnel_removed"
                  /\ e.entry.kind \in PresenceKinds}

\* The release of a connector in the log, by the newest entries about it.
LEMMA LoggedReleaseFound ==
  ASSUME NEW t \in Tunnels, NEW c \in Connectors
  PROVE  /\ LoggedRelease(t, c) = {e.entry.to : e \in Newest(PresenceFound(t, c))}
         /\ LoggedRelease(t, c)' = {e.entry.to : e \in Newest(PresenceFound(t, c)')}
<1> DEFINE found(log) == {e \in log : /\ e.entry.tunnel = t
                                      /\ \/ e.entry.connector = c /\ e.entry.kind \in ConnectorKinds
                                         \/ e.entry.kind = "tunnel_removed"}
<1>1. found(events) = PresenceFound(t, c) /\ found(events') = PresenceFound(t, c)'
  BY DEF PresenceFound, PresenceKinds, ConnectorKinds
<1>2. /\ LoggedRelease(t, c) = {e.entry.to : e \in Newest(found(events))}
      /\ LoggedRelease(t, c)' = {e.entry.to : e \in Newest(found(events'))}
  BY DEF LoggedRelease, Newest
<1> HIDE DEF found
<1>3. QED BY <1>1, <1>2

\* The two lemmas on batches, for connectors.
LEMMA PresenceKept ==
  ASSUME NEW t \in Tunnels, NEW c \in Connectors, NEW entries, AddEvents(entries),
         \A e \in entries : ~AboutPresence(e, t, c)
  PROVE  PresenceFound(t, c)' = PresenceFound(t, c)
BY DEF PresenceFound, AddEvents, AboutPresence

\* A batch that mentions the connector decides.
LEMMA PresenceAdded ==
  ASSUME TypeOK, Carrying, NEW t \in Tunnels, NEW c \in Connectors, NEW entries, AddEvents(entries),
         NEW first \in entries, AboutPresence(first, t, c),
         NEW release, \A e \in entries : AboutPresence(e, t, c) => e.to = release
  PROVE  LoggedRelease(t, c)' = {release}
<1> DEFINE new == {[batch |-> batches + 1, entry |-> e] : e \in {f \in entries : AboutPresence(f, t, c)}}
<1>1. PresenceFound(t, c)' = PresenceFound(t, c) \cup new
  BY DEF PresenceFound, AddEvents, AboutPresence
<1>2. \A e \in new : e.entry.to = release
  OBVIOUS
<1>3. [batch |-> batches + 1, entry |-> first] \in new
  OBVIOUS
<1>4. \A e \in new : e.batch = batches + 1
  OBVIOUS
<1> HIDE DEF new
<1>5. batches \in Nat /\ \A e \in PresenceFound(t, c) : e.batch \in Nat /\ e.batch <= batches
  BY DEF TypeOK, LogTypeOK, Carrying, PresenceFound
<1>6. Newest(PresenceFound(t, c) \cup new) = new
  <2>1. new # {}
    BY <1>3
  <2>2. QED BY <1>5, <1>4, <2>1, NewestAdded
<1>7. Newest(PresenceFound(t, c)') = new
  BY <1>1, <1>6
<1>8. LoggedRelease(t, c)' = {e.entry.to : e \in new}
  BY <1>7, LoggedReleaseFound
<1>9. QED BY <1>2, <1>3, <1>8

\* A step that changes none of the three keeps it.
LEMMA PresenceFrame ==
  ASSUME NEW t \in Tunnels, NEW c \in Connectors, PresenceReplays(t, c), events' = events,
         connectors'[t] = connectors[t],
         \A p \in Pollers : \A e : AboutPresence(e, t, c) => (e \in Pending(job'[p]) <=> e \in Pending(job[p]))
  PROVE  PresenceReplays(t, c)'
<1>1. PendingAbout(t, c)' = PendingAbout(t, c)
  BY DEF PendingAbout
<1>2. LoggedRelease(t, c)' = LoggedRelease(t, c)
  BY DEF LoggedRelease, Newest
<1>3. QED BY <1>1, <1>2 DEF PresenceReplays, ReleaseReplays, Release

\* The write of the batch brings the log up to the stored fleet.
LEMMA WriteConnectorReplay ==
  ASSUME OnePoller, EventsGetWritten, TypeOK, Carrying,
         NEW t \in Tunnels, NEW c \in Connectors, PresenceReplays(t, c),
         NEW p \in Pollers, LogEvents(p)
  PROVE  PresenceReplays(t, c)'
<1>1. \A q \in Pollers : q = p
  BY DEF OnePoller
<1>2. Pending(job'[p]) = {} /\ connectors' = connectors
  BY ClosingWork DEF Closing, Pending, LogEvents, detailTables
<1>3. Pending(job[p]) = job[p].events
  BY ClosingWork DEF Closing, Pending
<1>4. PendingAbout(t, c) = {e \in job[p].events : AboutPresence(e, t, c)} /\ PendingAbout(t, c)' = {}
  BY <1>1, <1>2, <1>3 DEF PendingAbout
<1>5. ~Fails(p)
  BY DEF Fails, Reachable, LogEvents, Carrying, EventsGetWritten
<1>6. SUFFICES ReleaseReplays(t, c)'
  BY <1>4 DEF PresenceReplays
<1>7. CASE job[p].events = {} /\ UNCHANGED events
  <2>1. LoggedRelease(t, c)' = LoggedRelease(t, c)
    BY <1>7 DEF LoggedRelease, Newest
  <2>2. ReleaseReplays(t, c)
    BY <1>4, <1>7 DEF PresenceReplays
  <2>3. QED BY <1>2, <2>1, <2>2 DEF ReleaseReplays, Release
<1>8. CASE AddEvents(job[p].events)
  <2>1. CASE \A e \in job[p].events : ~AboutPresence(e, t, c)
    <3>1. LoggedRelease(t, c)' = LoggedRelease(t, c)
      BY <1>8, <2>1, PresenceKept, LoggedReleaseFound
    <3>2. ReleaseReplays(t, c)
      BY <1>4, <2>1 DEF PresenceReplays
    <3>3. QED BY <1>2, <3>1, <3>2 DEF ReleaseReplays, Release
  <2>2. CASE \E e \in job[p].events : AboutPresence(e, t, c)
    <3> DEFINE release == Release(connectors[t][c])
    <3>1. \A e \in job[p].events : AboutPresence(e, t, c) => e.to = release
      BY <1>4 DEF PresenceReplays
    <3> HIDE DEF release
    <3>2. LoggedRelease(t, c)' = {release}
      BY <1>8, <2>2, <3>1, PresenceAdded
    <3>3. QED BY <1>2, <3>2 DEF release, ReleaseReplays, Release
  <2>3. QED BY <2>1, <2>2
<1>9. QED BY <1>5, <1>7, <1>8 DEF LogEvents, logTables

\* The commit of a list empties the tables of the tunnels it reports removed.
LEMMA CommitConnectorReplay ==
  ASSUME OnePoller, TypeOK, Serial, Carrying,
         NEW t \in Tunnels, NEW c \in Connectors, PresenceReplays(t, c),
         NEW p \in Pollers, SaveTunnels(p)
  PROVE  PresenceReplays(t, c)'
<1> DEFINE found == TunnelEvents(previous[p], listed[p], started[p])
           left == {u \in Tunnels : listed[p][u] # None}
           work == [job[p] EXCEPT !.events = found, !.todo = left]
           gone == previous[p][t] # None /\ listed[p][t] = None
<1>1. Set(p, work) /\ pc[p] = "save" /\ UNCHANGED events
  BY DEF SaveTunnels, logTables
<1>2. \A e \in found : AboutPresence(e, t, c) => e.to = None /\ gone
  BY DEF TunnelEvents, Event, AboutPresence, PresenceKinds, ConnectorKinds
<1>3. gone => \E e \in found : AboutPresence(e, t, c)
  <2> SUFFICES ASSUME gone PROVE \E e \in found : AboutPresence(e, t, c)
    OBVIOUS
  <2> DEFINE removal == Event("tunnel_removed", t, None, previous[p][t], None, started[p])
  <2>1. removal \in found
    BY DEF TunnelEvents
  <2>2. AboutPresence(removal, t, c)
    BY DEF Event, AboutPresence, PresenceKinds, ConnectorKinds
  <2> HIDE DEF removal, found
  <2>3. QED BY <2>1, <2>2
<1> HIDE DEF found, left
<1>4. work.tunnelEvents = job[p].tunnelEvents /\ work.events = found
  BY DEF TypeOK, Stations, Job
<1> HIDE DEF work
<1>5. job'[p] = work
  BY <1>1 DEF Set, TypeOK, Stations
<1>6. job[p].events = {} /\ job[p].tunnelEvents = {}
  BY <1>1 DEF Carrying, SyncLabels
<1>7. PendingAbout(t, c) = {} /\ PendingAbout(t, c)' = {e \in found : AboutPresence(e, t, c)}
  BY <1>4, <1>5, <1>6 DEF OnePoller, PendingAbout, Pending
<1>8. connectors'[t] = IF gone THEN NoFleet ELSE connectors[t]
  BY DEF SaveTunnels, Purge
<1>9. LoggedRelease(t, c)' = LoggedRelease(t, c)
  BY <1>1 DEF LoggedRelease, Newest
<1>10. NoFleet[c] = None
  BY DEF NoFleet
<1> HIDE DEF gone
<1>11. CASE gone
  <2>1. connectors'[t][c] = None /\ PendingAbout(t, c)' # {}
    BY <1>3, <1>7, <1>8, <1>10, <1>11
  <2>2. \A e \in PendingAbout(t, c)' : e.to = None
    BY <1>2, <1>7
  <2>3. QED BY <2>1, <2>2 DEF PresenceReplays, Release
<1>12. CASE ~gone
  <2>1. connectors'[t] = connectors[t] /\ PendingAbout(t, c)' = {}
    BY <1>2, <1>7, <1>8, <1>12
  <2>2. ReleaseReplays(t, c)
    BY <1>7 DEF PresenceReplays
  <2>3. QED BY <1>9, <2>1, <2>2 DEF PresenceReplays, ReleaseReplays, Release
<1>13. QED BY <1>11, <1>12

\* The events of two fleets say what the second has of a connector, and a
\* connector they do not mention is the same in both, but for its configuration.
EventsSay(found, t, before, after, c) ==
  /\ \A e \in found : AboutPresence(e, t, c) => e.to = Release(after[c])
  /\ (\A e \in found : ~AboutPresence(e, t, c)) =>
       Release(after[c]) = Release(before[c]) /\ (after[c] = None <=> before[c] = None)
  /\ \A e \in found, u \in Tunnels : u # t => ~AboutPresence(e, u, c)

LEMMA ConnectorEventsSay ==
  ASSUME NEW t, NEW before \in Fleet, NEW after \in Fleet, NEW at, NEW c \in Connectors
  PROVE  EventsSay(ConnectorEvents(t, before, after, at), t, before, after, c)
<1> DEFINE found == ConnectorEvents(t, before, after, at)
           came(d) == Event("connector_added", t, d, None, after[d].build, at)
           went(d) == Event("connector_removed", t, d, before[d].build, None, at)
           moved(d) == Event("version_drift", t, d, before[d].build, after[d].build, at)
           arrived == {came(d) : d \in Present(after) \ Present(before)}
           left == {went(d) : d \in Present(before) \ Present(after)}
           upgraded == {d \in Present(before) \cap Present(after) : before[d].build # after[d].build}
           other == {moved(d) : d \in upgraded}
<1>1. \A e \in found : \/ e \in arrived \/ e \in left \/ e \in other
                       \/ e.tunnel = t /\ e.kind = "config_changed"
  BY DEF ConnectorEvents, Event
<1>2. arrived \subseteq found /\ left \subseteq found /\ other \subseteq found
  BY DEF ConnectorEvents
<1>3. \A d : d \in Present(before) <=> d \in Connectors /\ before[d] # None
  BY DEF Present
<1>4. \A d : d \in Present(after) <=> d \in Connectors /\ after[d] # None
  BY DEF Present
<1>5. \A e \in arrived \cup left \cup other :
        /\ e.kind \in ConnectorKinds /\ e.tunnel = t
        /\ e.connector \in Connectors => e.to = Release(after[e.connector])
  BY <1>3, <1>4 DEF Event, Release, ConnectorKinds
<1>6. \A d \in Connectors : /\ AboutPresence(came(d), t, d) /\ AboutPresence(went(d), t, d)
                            /\ AboutPresence(moved(d), t, d)
  BY DEF Event, AboutPresence, PresenceKinds, ConnectorKinds
<1>7. \/ came(c) \in arrived \/ went(c) \in left \/ moved(c) \in other
      \/ Release(after[c]) = Release(before[c]) /\ (after[c] = None <=> before[c] = None)
  BY <1>3, <1>4 DEF Release
<1> HIDE DEF found, arrived, left, other, came, went, moved
<1>8. \A e \in found : AboutPresence(e, t, c) => e.to = Release(after[c])
  <2> SUFFICES ASSUME NEW e \in found, AboutPresence(e, t, c) PROVE e.to = Release(after[c])
    OBVIOUS
  <2>1. e \in arrived \cup left \cup other
    BY <1>1 DEF AboutPresence, PresenceKinds, ConnectorKinds
  <2>2. e.connector = c
    BY <1>5, <2>1 DEF AboutPresence, ConnectorKinds
  <2>3. QED BY <1>5, <2>1, <2>2
<1>9. (\A e \in found : ~AboutPresence(e, t, c)) =>
        Release(after[c]) = Release(before[c]) /\ (after[c] = None <=> before[c] = None)
  BY <1>2, <1>6, <1>7
<1>10. \A e \in found, u \in Tunnels : u # t => ~AboutPresence(e, u, c)
  BY <1>1, <1>5 DEF AboutPresence
<1>11. QED BY <1>8, <1>9, <1>10 DEF found, EventsSay

\* The derivation compares what is stored with what it stores.
LEMMA DeriveConnectorReplay ==
  ASSUME OnePoller, TypeOK, Carrying, VisitedOnce,
         NEW t \in Tunnels, NEW c \in Connectors, PresenceReplays(t, c),
         NEW p \in Pollers, SaveConnectors(p)
  PROVE  PresenceReplays(t, c)'
<1> DEFINE u == job[p].tunnel
           found == ConnectorEvents(u, job[p].oldFleet, job[p].fleet, started[p])
<1>1. /\ job'[p].events = job[p].events /\ job'[p].tunnelEvents = found
      /\ pc[p] = "saveConnectors"
  BY DerivingWork
<1>2. pc[p] \in FleetLabels /\ pc[p] \in SyncLabels
  BY <1>1 DEF FleetLabels, SyncLabels
<1>3. /\ job[p].oldFleet = connectors[u] /\ job[p].tunnelEvents = {}
      /\ \A e \in job[p].events : e.kind \in PresenceKinds => e.tunnel # u
  BY <1>1, <1>2 DEF VisitedOnce, Pending
<1>4. u \in Tunnels /\ job[p].oldFleet \in Fleet /\ job[p].fleet \in Fleet
  BY <1>2 DEF TypeOK, Stations, Job
<1>5. events' = events
  BY SilentFrame DEF Silent
<1>6. connectors' = [connectors EXCEPT ![u] = job[p].fleet] /\ connectors \in [Tunnels -> Fleet]
  BY DEF SaveConnectors, TypeOK, DetailTypeOK
<1>7. PendingAbout(t, c) = {e \in job[p].events : AboutPresence(e, t, c)}
  BY <1>3 DEF OnePoller, PendingAbout, Pending
<1>8. PendingAbout(t, c)' = PendingAbout(t, c) \cup {e \in found : AboutPresence(e, t, c)}
  BY <1>1, <1>7 DEF OnePoller, PendingAbout, Pending
<1>9. /\ \A e \in found : AboutPresence(e, u, c) => e.to = Release(job[p].fleet[c])
      /\ (\A e \in found : ~AboutPresence(e, u, c)) =>
           /\ Release(job[p].fleet[c]) = Release(connectors[u][c])
           /\ job[p].fleet[c] = None <=> connectors[u][c] = None
      /\ t # u => \A e \in found : ~AboutPresence(e, t, c)
  <2> HIDE DEF u
  <2> DEFINE before == connectors[u]
             after == job[p].fleet
  <2>1. before \in Fleet /\ after \in Fleet /\ found = ConnectorEvents(u, before, after, started[p])
    BY <1>3, <1>4
  <2> HIDE DEF found, before, after
  <2>2. EventsSay(found, u, before, after, c)
    BY <2>1, ConnectorEventsSay
  <2>3. QED BY <2>2 DEF EventsSay, before, after
<1>10. LoggedRelease(t, c)' = LoggedRelease(t, c)
  BY <1>5 DEF LoggedRelease, Newest
<1> HIDE DEF u, found
<1>11. CASE t = u
  <2>1. PendingAbout(t, c) = {}
    BY <1>3, <1>7, <1>11 DEF AboutPresence
  <2>2. ReleaseReplays(t, c)
    BY <2>1 DEF PresenceReplays
  <2>3. connectors'[t] = job[p].fleet
    BY <1>6, <1>11
  <2>4. \A e \in PendingAbout(t, c)' : e.to = Release(connectors'[t][c])
    BY <1>8, <1>9, <1>11, <2>1, <2>3
  <2>5. PendingAbout(t, c)' = {} =>
          /\ Release(connectors'[t][c]) = Release(connectors[t][c])
          /\ connectors'[t][c] = None <=> connectors[t][c] = None
    BY <1>8, <1>9, <1>11, <2>3
  <2>6. PendingAbout(t, c)' = {} => ReleaseReplays(t, c)'
    BY <1>10, <2>2, <2>5 DEF ReleaseReplays, Release
  <2>7. QED BY <2>4, <2>6 DEF PresenceReplays, Release
<1>12. CASE t # u
  <2>1. PendingAbout(t, c)' = PendingAbout(t, c) /\ connectors'[t] = connectors[t]
    BY <1>6, <1>8, <1>9, <1>12
  <2>2. QED BY <1>10, <2>1 DEF PresenceReplays, ReleaseReplays, Release
<1>13. QED BY <1>11, <1>12

\* Every step of one poller keeps log, batch and stored fleets together, until
\* a round fails.
LEMMA StepConnectorReplay ==
  ASSUME OnePoller, NothingPruned, FailuresGetWritten, TypeOK, Serial, Carrying, VisitedOnce,
         FailuresAreWritten, ConnectorReplayInv, [Next]_vars
  PROVE  ConnectorReplayInv'
<1> USE DEF FailuresGetWritten
<1>1. SUFFICES ASSUME NoFailure', NEW t \in Tunnels, NEW c \in Connectors
               PROVE  PresenceReplays(t, c)'
  BY DEF ConnectorReplayInv
<1>2. PresenceReplays(t, c)
  BY <1>1, FailureStays DEF ConnectorReplayInv
<1>3. /\ \A p \in Pollers : ~job'[p].failed
      /\ \A e \in events' : e.entry.kind # "poll_failed"
  BY <1>1 DEF NoFailure
<1>4. ASSUME UNCHANGED <<events, connectors>>,
             \A p \in Pollers : \A e : AboutPresence(e, t, c) =>
               (e \in Pending(job'[p]) <=> e \in Pending(job[p]))
      PROVE  PresenceReplays(t, c)'
  BY <1>2, <1>4, PresenceFrame
<1>5. ASSUME NEW p \in Pollers, Plain(p)
      PROVE  PresenceReplays(t, c)'
  <2>1. UNCHANGED <<events, connectors>>
    BY <1>5, SilentFrame DEF Silent, Plain, Begin, ListTunnels, ReadTunnels, ListConnectors,
       ReadConnectors, SaveConnections, GetConfiguration, ReadIngress, database, detailTables
  <2>2. SameCargo(job'[p], job[p]) /\ OthersKeep(p)
    BY <1>5, PlainWork
  <2>3. QED BY <1>4, <2>1, <2>2 DEF SameCargo, OthersKeep, Pending
<1>6. ASSUME NEW p \in Pollers, FailList(p)
      PROVE  PresenceReplays(t, c)'
  BY <1>3, <1>6, FailWork
<1>7. ASSUME NEW p \in Pollers, Advancing(p)
      PROVE  PresenceReplays(t, c)'
  <2>1. UNCHANGED <<events, connectors>> /\ OthersKeep(p)
    BY <1>7, SilentFrame, AdvancingWork DEF Silent, Advancing, ReadCycle, CheckDrift, SaveIngress,
       FailTunnel, database, detailTables
  <2>2. \A e : AboutPresence(e, t, c) => (e \in Pending(job'[p]) <=> e \in Pending(job[p]))
    <3>1. CASE job'[p] = job[p]
      BY <3>1
    <3>2. CASE pc[p] = "cycle" /\ job'[p].events = job[p].events /\ job'[p].tunnelEvents = {}
      <4>1. job[p].tunnelEvents = {}
        BY <3>2 DEF Carrying, SyncLabels
      <4>2. QED BY <3>2, <4>1 DEF Pending
    <3>3. ASSUME NEW more, \A f \in more : f.kind = "config_changed",
                 job'[p].events = Pending(job[p]) \cup more, job'[p].tunnelEvents = {}
          PROVE  \A e : AboutPresence(e, t, c) => (e \in Pending(job'[p]) <=> e \in Pending(job[p]))
      <4>1. \A e \in more : ~AboutPresence(e, t, c)
        BY <3>3 DEF AboutPresence, PresenceKinds, ConnectorKinds
      <4>2. Pending(job'[p]) = Pending(job[p]) \cup more
        BY <3>3 DEF Pending
      <4>3. QED BY <4>1, <4>2
    <3>4. ~job'[p].failed
      BY <1>3
    <3>5. QED BY <1>7, <3>1, <3>2, <3>3, <3>4, AdvancingWork
  <2>3. QED BY <1>4, <2>1, <2>2 DEF OthersKeep
<1>8. ASSUME NEW p \in Pollers, SaveConnectors(p)
      PROVE  PresenceReplays(t, c)'
  BY <1>2, <1>8, DeriveConnectorReplay
<1>9. ASSUME NEW p \in Pollers, SaveTunnels(p)
      PROVE  PresenceReplays(t, c)'
  BY <1>2, <1>9, CommitConnectorReplay
<1>10. ASSUME NEW p \in Pollers, LogEvents(p)
       PROVE  PresenceReplays(t, c)'
  BY <1>2, <1>10, WriteConnectorReplay
<1>11. ASSUME NEW p \in Pollers, LogFailure(p)
       PROVE  PresenceReplays(t, c)'
  <2> DEFINE failure == Event("poll_failed", None, None, None, None, started[p])
             row == [batch |-> batches + 1, entry |-> failure]
  <2>1. ~Fails(p)
    BY <1>11 DEF Fails, Reachable, LogFailure, Carrying
  <2>2. AddEvents({failure})
    BY <1>11, <2>1 DEF LogFailure
  <2>3. row.entry.kind = "poll_failed"
    BY DEF Event
  <2> HIDE DEF failure
  <2>4. row \in events'
    BY <2>2 DEF AddEvents
  <2>5. QED BY <1>3, <2>3, <2>4
<1>12. ASSUME NEW p \in Pollers, RecordStatus(p) \/ AddPollRun(p) \/ Prune(p)
       PROVE  PresenceReplays(t, c)'
  <2>1. ~LogEvents(p) /\ Closing(p)
    BY <1>12 DEF LogEvents, RecordStatus, AddPollRun, Prune, Closing
  <2>2. Pending(job[p]) = {} /\ Pending(job'[p]) = {} /\ OthersKeep(p)
    BY <2>1, ClosingWork DEF Pending
  <2>3. UNCHANGED <<events, connectors>>
    BY <1>12, EventsStay DEF RecordStatus, AddPollRun, Prune, database, logTables, detailTables
  <2>4. QED BY <1>4, <2>2, <2>3 DEF OthersKeep
<1>13. CASE Tick \/ UNCHANGED vars \/ \E u \in Tunnels : Account(u)
  <2>1. UNCHANGED <<events, connectors, job>>
    BY <1>13 DEF Tick, vars, Account, CloudList, CloudDelete, CloudStatus, CloudConnector,
       CloudPublish, Cloud, database, logTables, detailTables, round
  <2>2. QED BY <1>4, <2>1
<1>14. ~Crash /\ \A p \in Pollers : ~Expire(p)
  BY DEF EventsGetWritten, Crash, Expire
<1>15. QED
  BY <1>5, <1>6, <1>7, <1>8, <1>9, <1>10, <1>11, <1>12, <1>13, <1>14
  DEF Next, PollOnce, Poll, Plain, Advancing

\* With one poller, and while the log gets written and nothing is pruned, the
\* connector events yield the stored connectors and their releases as long as no
\* round has failed: a round derives the events of a tunnel from the very rows it
\* replaces, once, and writes all of them.
THEOREM OnePollerConnectorReplay ==
  ASSUME OnePoller, NothingPruned, FailuresGetWritten
  PROVE  Spec => []ConnectorEventsReplayUnlessFailed
<1>1. Init => VisitedOnce /\ FailuresAreWritten /\ ConnectorReplayInv
  <2> SUFFICES ASSUME Init PROVE VisitedOnce /\ FailuresAreWritten /\ ConnectorReplayInv
    OBVIOUS
  <2>1. \A p \in Pollers : Pending(job[p]) = {} /\ pc[p] = "idle" /\ ~job[p].failed
    BY DEF Init, NoJobs, NoJob, Pending, AllIdle
  <2>2. VisitedOnce /\ FailuresAreWritten
    BY <2>1 DEF VisitedOnce, FailuresAreWritten, SyncLabels, FleetLabels
  <2>3. \A t \in Tunnels, c \in Connectors : LoggedRelease(t, c) = {} /\ connectors[t][c] = None
    BY DEF Init, LoggedRelease, Newest, NoFleet
  <2>4. \A t \in Tunnels, c \in Connectors : PresenceReplays(t, c)
    BY <2>1, <2>3 DEF PresenceReplays, ReleaseReplays, PendingAbout
  <2>5. QED BY <2>2, <2>4 DEF ConnectorReplayInv
<1>2. TypeOK /\ Carrying /\ VisitedOnce /\ [Next]_vars => VisitedOnce'
  BY OnePoller, StepVisited
<1>3. TypeOK /\ Carrying /\ FailuresAreWritten /\ [Next]_vars => FailuresAreWritten'
  BY NothingPruned, FailuresGetWritten, StepFailuresAreWritten
<1>4. /\ TypeOK /\ Serial /\ Carrying /\ VisitedOnce /\ FailuresAreWritten
      /\ ConnectorReplayInv /\ [Next]_vars
      => ConnectorReplayInv'
  BY OnePoller, NothingPruned, FailuresGetWritten, StepConnectorReplay
<1>5. Carrying /\ FailuresAreWritten /\ ConnectorReplayInv => ConnectorEventsReplayUnlessFailed
  <2> SUFFICES ASSUME Carrying, FailuresAreWritten, ConnectorReplayInv, Quiet,
                      \A e \in events : e.entry.kind # "poll_failed",
                      NEW t \in Tunnels, NEW c \in Connectors
               PROVE  ReleaseReplays(t, c)
    BY DEF ConnectorEventsReplayUnlessFailed, ConnectorEventsReplay, ReleaseReplays
  <2>1. NoFailure
    BY DEF NoFailure, Quiet, FailuresAreWritten
  <2>2. \A p \in Pollers : Pending(job[p]) = {}
    BY DEF Quiet, Carrying, Pending, SyncLabels
  <2>3. PendingAbout(t, c) = {} /\ PresenceReplays(t, c)
    BY <2>1, <2>2 DEF ConnectorReplayInv, PendingAbout
  <2>4. QED BY <2>3 DEF PresenceReplays
<1>6. EventsGetWritten
  BY FailuresGetWritten DEF FailuresGetWritten
<1>7. QED
  BY <1>1, <1>2, <1>3, <1>4, <1>5, <1>6, SerialInvariant, CarryingInvariant, OnePoller, PTL DEF Spec
=============================================================================
