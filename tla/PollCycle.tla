----------------------------- MODULE PollCycle -----------------------------
(***************************************************************************)
(* The collector's poll round (collector.PollOnce) over the SQLite store.  *)
(*                                                                         *)
(* A round lists the tunnels of the account, commits the list with the     *)
(* status transitions it implies, then visits every listed tunnel for its  *)
(* connectors, connections and ingress rules, and only at the end writes   *)
(* the events it derived on the way.  Every call to the Cloudflare API,    *)
(* every query and every transaction is a step of its own: the database    *)
(* has one connection, so each of them is atomic, but what a round READ    *)
(* may be out of date by the time it WRITES.  The background loop and the  *)
(* "refresh" handlers all call PollOnce, each on its own goroutine and     *)
(* with its own context: they are the Pollers.                             *)
(*                                                                         *)
(* Notification dispatch and the capability cache, which PollOnce also     *)
(* calls, keep tables of their own and are not part of this module.        *)
(***************************************************************************)
EXTENDS Integers

CONSTANTS
  Tunnels, Statuses, Connectors,
  Builds,               \* cloudflared releases
  Versions,             \* versions of a tunnel's remote configuration
  RuleLess,             \* the versions that hold no ingress rule at all
  None,                 \* no row, no value
  Pollers,              \* goroutines that may run PollOnce
  ConfigRefreshEvery,   \* CONFIG_REFRESH_EVERY
  PruneEvery,           \* pruneEveryCycles, 120 in the code
  CycleWrap,            \* cycles are counted modulo this bound
  Retention,            \* RETENTION_DAYS, in ticks of the clock
  Mishaps,              \* steps that may fail, and "expire", "crash"
  MaxMishaps,           \* bound: failures, expired contexts and crashes
  MaxChanges,           \* bound: changes made in the Cloudflare account
  MaxClock              \* bound: ticks of the clock

ASSUME NoneAssumption == None \notin Statuses
ASSUME VersionAssumption == Versions \subseteq Nat \ {0} /\ RuleLess \subseteq Versions
ASSUME NumberAssumption ==
  /\ ConfigRefreshEvery \in Nat \ {0} /\ PruneEvery \in Nat \ {0}
  /\ CycleWrap \in Nat \ {0} /\ Retention \in Nat
  /\ MaxMishaps \in Nat /\ MaxChanges \in Nat /\ MaxClock \in Nat
ASSUME WrapAssumption ==
  CycleWrap % ConfigRefreshEvery = 0 /\ CycleWrap % PruneEvery = 0

VARIABLES
  cloud, changes, clock, mishaps,                          \* the world
  tunnels, history, commits,                               \* the database
  connectors, connections, ingress, events, batches, runs,
  cycles, lastRun, lastSuccess, lastError,                 \* Collector.status
  pc, alive, started, listed, previous, job                \* one round each

world == <<cloud, changes, clock>>
statusTables == <<tunnels, history, commits>>
detailTables == <<connectors, connections, ingress>>
logTables == <<events, batches, runs>>
database == <<statusTables, detailTables, logTables>>
memory == <<cycles, lastRun, lastSuccess, lastError>>
round == <<pc, alive, started, listed, previous, job>>
vars == <<world, mishaps, database, memory, round>>

Log == INSTANCE TransitionLog WITH Times <- 0..MaxClock

\* A connector row, without the columns nothing depends on.  Configuration
\* version 0 is a connector that runs a local configuration.
Connector == [build: Builds, config: Versions \cup {0}]
Fleet == [Connectors -> Connector \cup {None}]
CloudTunnel == [status: Statuses, fleet: Fleet, config: Versions]

\* Mutation of Rules: a version is remembered even where no row holds it.
RulesNumbered(version) == version

\* The rule-less versions store no row, so the table forgets their number.
Rules(version) == IF version \in RuleLess THEN 0 ELSE version

StoredRules == (Versions \ RuleLess) \cup {0}

NoFleet == [c \in Connectors |-> None]
Present(fleet) == {c \in Connectors : fleet[c] # None}
NoStatus == [t \in Tunnels |-> None]

EventKinds ==
  {"tunnel_added", "tunnel_removed", "tunnel_status", "connector_added",
   "connector_removed", "version_drift", "config_changed", "poll_failed"}
Entry == [kind: EventKinds, tunnel: Tunnels \cup {None}, connector: Connectors \cup {None},
          from: Statuses \cup Builds \cup {None}, to: Statuses \cup Builds \cup {None}, at: Nat]

\* The local variables of poll and syncTunnel.
Job ==
  [links: [Tunnels -> SUBSET Connectors],   \* connections embedded in the list
   todo: SUBSET Tunnels, tunnel: Tunnels \cup {None},
   fleet: Fleet, oldFleet: Fleet, rules: StoredRules, oldRules: StoredRules,
   events: SUBSET Entry, tunnelEvents: SUBSET Entry,
   failed: BOOLEAN, force: BOOLEAN, prune: BOOLEAN]

NoJob ==
  [links |-> [t \in Tunnels |-> {}], todo |-> {}, tunnel |-> None,
   fleet |-> NoFleet, oldFleet |-> NoFleet, rules |-> 0, oldRules |-> 0,
   events |-> {}, tunnelEvents |-> {}, failed |-> FALSE, force |-> FALSE, prune |-> FALSE]

SyncLabels == {"connectors", "oldConnectors", "saveConnectors", "saveConnections",
               "drift", "config", "oldRules", "saveRules"}
ListLabels == {"list", "previous", "save"}
Labels == {"idle", "cycle", "log", "status", "logFailure", "run", "prune"}
          \cup ListLabels \cup SyncLabels

-----------------------------------------------------------------------------
(* Cloudflare, outside the program: any change of the account at any time. *)

Cloud(t, state) ==
  /\ changes < MaxChanges
  /\ state # cloud[t]
  /\ cloud' = [cloud EXCEPT ![t] = state]
  /\ changes' = changes + 1
  /\ UNCHANGED <<clock, mishaps, database, memory, round>>

CloudList(t) ==
  /\ cloud[t] = None
  /\ \E s \in Statuses, v \in Versions :
       Cloud(t, [status |-> s, fleet |-> NoFleet, config |-> v])

CloudDelete(t) == Cloud(t, None)

CloudStatus(t) ==
  /\ cloud[t] # None
  /\ \E s \in Statuses : Cloud(t, [cloud[t] EXCEPT !.status = s])

CloudConnector(t) ==
  /\ cloud[t] # None
  /\ \E c \in Connectors, row \in Connector \cup {None} :
       Cloud(t, [cloud[t] EXCEPT !.fleet[c] = row])

CloudPublish(t) ==
  /\ cloud[t] # None
  /\ \E v \in Versions :
       v > cloud[t].config /\ Cloud(t, [cloud[t] EXCEPT !.config = v])

Tick ==
  /\ clock < MaxClock
  /\ clock' = clock + 1
  /\ UNCHANGED <<cloud, changes, mishaps, database, memory, round>>

-----------------------------------------------------------------------------
(* A step of a round succeeds while its context is alive and, for the two  *)
(* per-tunnel API calls, while the tunnel still exists; it fails for these *)
(* reasons, or because the API or the database refuses.                    *)

Reachable(p) ==
  /\ alive[p]
  /\ pc[p] \in {"connectors", "config"} => cloud[job[p].tunnel] # None

Succeeds(p) == Reachable(p) /\ UNCHANGED mishaps

Fails(p) ==
  \/ ~Reachable(p) /\ UNCHANGED mishaps
  \/ /\ Reachable(p)
     /\ pc[p] \in Mishaps
     /\ mishaps < MaxMishaps
     /\ mishaps' = mishaps + 1

Goto(p, label) == pc' = [pc EXCEPT ![p] = label]
Set(p, work) == job' = [job EXCEPT ![p] = work]
view == <<alive, started, listed, previous>>

\* The loop over apiTunnels: on to a tunnel not visited yet, or past the end.
\* The order of the list is Cloudflare's.
Advance(p, work) ==
  LET fresh == [work EXCEPT !.tunnel = None, !.tunnelEvents = {}, !.fleet = NoFleet,
                            !.oldFleet = NoFleet, !.rules = 0, !.oldRules = 0]
  IN \/ work.todo = {} /\ Goto(p, "log") /\ Set(p, fresh)
     \/ \E t \in work.todo :
          /\ Goto(p, "connectors")
          /\ Set(p, [fresh EXCEPT !.tunnel = t, !.todo = work.todo \ {t}])

End(p) ==
  /\ Goto(p, "idle")
  /\ Set(p, NoJob)
  /\ alive' = [alive EXCEPT ![p] = FALSE]
  /\ started' = [started EXCEPT ![p] = 0]
  /\ listed' = [listed EXCEPT ![p] = NoStatus]
  /\ previous' = [previous EXCEPT ![p] = NoStatus]

-----------------------------------------------------------------------------
(* Event derivation: tunnelEvents and connectorEvents.                     *)

Event(kind, t, c, from, to, at) ==
  [kind |-> kind, tunnel |-> t, connector |-> c, from |-> from, to |-> to, at |-> at]

\* Mutations of TunnelEvents: no event for a vanished tunnel; the two states of
\* a status change swapped.
TunnelEventsNoRemoval(before, after, at) ==
  {Event("tunnel_added", t, None, None, after[t], at) :
     t \in {u \in Tunnels : before[u] = None /\ after[u] # None}}

TunnelEventsSwapped(before, after, at) ==
  {Event("tunnel_status", t, None, after[t], before[t], at) : t \in Log!Changed(before, after)}

TunnelEvents(before, after, at) ==
  LET added == {t \in Tunnels : before[t] = None /\ after[t] # None}
      removed == {t \in Tunnels : before[t] # None /\ after[t] = None}
      moved == Log!Changed(before, after) \ added
  IN {Event("tunnel_added", t, None, None, after[t], at) : t \in added}
     \cup {Event("tunnel_removed", t, None, before[t], None, at) : t \in removed}
     \cup {Event("tunnel_status", t, None, before[t], after[t], at) : t \in moved}

\* Mutation of ConnectorEvents: the upgrade of a connector is not compared.
ConnectorEventsNoDrift(t, before, after, at) ==
  {Event("connector_added", t, c, None, after[c].build, at) : c \in Present(after) \ Present(before)}
  \cup {Event("connector_removed", t, c, before[c].build, None, at) : c \in Present(before) \ Present(after)}

ConnectorEvents(t, before, after, at) ==
  LET both == Present(before) \cap Present(after)
      upgraded == {c \in both : before[c].build # after[c].build}
      applied == {c \in both : before[c].config # after[c].config}
  IN {Event("connector_added", t, c, None, after[c].build, at) :
        c \in Present(after) \ Present(before)}
     \cup {Event("connector_removed", t, c, before[c].build, None, at) :
        c \in Present(before) \ Present(after)}
     \cup {Event("version_drift", t, c, before[c].build, after[c].build, at) : c \in upgraded}
     \cup {Event("config_changed", t, c, None, None, at) : c \in applied}

\* configVersionDrifted, on the rules as stored: no rule at all, or a connector
\* that applied another version of the remote configuration.
Drifted(stored, fleet) ==
  \/ stored = 0
  \/ \E c \in Present(fleet) : fleet[c].config > 0 /\ fleet[c].config # stored

-----------------------------------------------------------------------------
(* poll: the list, SaveTunnels, and the cycle counter.                     *)

Begin(p) ==
  /\ pc[p] = "idle"
  /\ Goto(p, "list")
  /\ alive' = [alive EXCEPT ![p] = TRUE]
  /\ started' = [started EXCEPT ![p] = clock]
  /\ UNCHANGED <<world, mishaps, database, memory, listed, previous, job>>

ListTunnels(p) ==
  /\ pc[p] = "list"
  /\ Succeeds(p)
  /\ Goto(p, "previous")
  /\ listed' = [listed EXCEPT ![p] =
       [t \in Tunnels |-> IF cloud[t] = None THEN None ELSE cloud[t].status]]
  /\ Set(p, [job[p] EXCEPT !.links =
       [t \in Tunnels |-> IF cloud[t] = None THEN {} ELSE Present(cloud[t].fleet)]])
  /\ UNCHANGED <<world, database, memory, alive, started, previous>>

\* Mutation of ReadTunnels: compare with an empty table.
ReadTunnelsNever(p) ==
  /\ pc[p] = "previous"
  /\ Succeeds(p)
  /\ Goto(p, "save")
  /\ UNCHANGED <<world, database, memory, view, job>>

\* SaveTunnels reads the stored tunnels before it opens its transaction.
ReadTunnels(p) ==
  /\ pc[p] = "previous"
  /\ Succeeds(p)
  /\ Goto(p, "save")
  /\ previous' = [previous EXCEPT ![p] = tunnels]
  /\ UNCHANGED <<world, database, memory, alive, started, listed, job>>

\* Mutation of Purge: only the tunnel itself is deleted.
PurgeNothing(table, gone, empty) == table

\* DELETE FROM a table WHERE the tunnel is one of the vanished ones.
Purge(table, gone, empty) == [t \in Tunnels |-> IF t \in gone THEN empty ELSE table[t]]

\* The transaction of SaveTunnels: a history row for every tunnel whose listed
\* status differs from the one READ BEFORE, an upsert for every listed tunnel,
\* and the rows of the vanished ones, again as read before, deleted.
SaveTunnels(p) ==
  LET before == previous[p]
      after == listed[p]
      vanished == {t \in Tunnels : before[t] # None /\ after[t] = None}
  IN
  /\ pc[p] = "save"
  /\ Succeeds(p)
  /\ Goto(p, "cycle")
  /\ tunnels' = [t \in Tunnels |-> IF after[t] # None THEN after[t]
                                   ELSE IF t \in vanished THEN None ELSE tunnels[t]]
  /\ Log!AppendRows(Log!RowsOf(before, after, started[p]))
  /\ connectors' = Purge(connectors, vanished, NoFleet)
  /\ connections' = Purge(connections, vanished, {})
  /\ ingress' = Purge(ingress, vanished, 0)
  /\ Set(p, [job[p] EXCEPT !.events = TunnelEvents(before, after, started[p]),
                           !.todo = {t \in Tunnels : after[t] # None}])
  /\ UNCHANGED <<world, logTables, memory, view>>

\* Mutation of Forced: no periodic refresh.
ForcedNever(cycle) == FALSE

Forced(cycle) == cycle % ConfigRefreshEvery = 0

\* The counter is read under the lock here and incremented at the end of the
\* round: every ConfigRefreshEvery-th round fetches all configurations.
ReadCycle(p) ==
  /\ pc[p] = "cycle"
  /\ Advance(p, [job[p] EXCEPT !.force = Forced(cycles)])
  /\ UNCHANGED <<world, mishaps, database, memory, view>>

\* Mutation of FailList: the events of a transaction that did not commit.
FailListLogged(p) ==
  /\ pc[p] \in ListLabels
  /\ Fails(p)
  /\ Goto(p, "log")
  /\ Set(p, [job[p] EXCEPT !.failed = TRUE,
                           !.events = TunnelEvents(previous[p], listed[p], started[p])])
  /\ UNCHANGED <<world, database, memory, view>>

FailList(p) ==
  /\ pc[p] \in ListLabels
  /\ Fails(p)
  /\ Goto(p, "status")
  /\ Set(p, [job[p] EXCEPT !.failed = TRUE])
  /\ UNCHANGED <<world, database, memory, view>>

-----------------------------------------------------------------------------
(* syncTunnel, for the tunnel in hand.                                     *)

ListConnectors(p) ==
  /\ pc[p] = "connectors"
  /\ Succeeds(p)
  /\ Goto(p, "oldConnectors")
  /\ Set(p, [job[p] EXCEPT !.fleet = cloud[job[p].tunnel].fleet])
  /\ UNCHANGED <<world, database, memory, view>>

ReadConnectors(p) ==
  /\ pc[p] = "oldConnectors"
  /\ Succeeds(p)
  /\ Goto(p, "saveConnectors")
  /\ Set(p, [job[p] EXCEPT !.oldFleet = connectors[job[p].tunnel]])
  /\ UNCHANGED <<world, database, memory, view>>

SaveConnectors(p) ==
  LET t == job[p].tunnel IN
  /\ pc[p] = "saveConnectors"
  /\ Succeeds(p)
  /\ Goto(p, "saveConnections")
  /\ connectors' = [connectors EXCEPT ![t] = job[p].fleet]
  /\ Set(p, [job[p] EXCEPT !.tunnelEvents =
       ConnectorEvents(t, job[p].oldFleet, job[p].fleet, started[p])])
  /\ UNCHANGED <<world, statusTables, connections, ingress, logTables, memory, view>>

\* The connections come from the list call at the start of the round.
SaveConnections(p) ==
  LET t == job[p].tunnel IN
  /\ pc[p] = "saveConnections"
  /\ Succeeds(p)
  /\ Goto(p, IF job[p].force THEN "config" ELSE "drift")
  /\ connections' = [connections EXCEPT ![t] = job[p].links[t]]
  /\ UNCHANGED <<world, statusTables, connectors, ingress, logTables, memory, job, view>>

Collected(p) == [job[p] EXCEPT !.events = @ \cup job[p].tunnelEvents]

\* A failed read of the stored rules counts as drift.
CheckDrift(p) ==
  /\ pc[p] = "drift"
  /\ \/ /\ Succeeds(p)
        /\ Drifted(ingress[job[p].tunnel], job[p].fleet)
        /\ Goto(p, "config")
        /\ UNCHANGED job
     \/ /\ Succeeds(p)
        /\ ~Drifted(ingress[job[p].tunnel], job[p].fleet)
        /\ Advance(p, Collected(p))
     \/ /\ Fails(p)
        /\ Goto(p, "config")
        /\ UNCHANGED job
  /\ UNCHANGED <<world, database, memory, view>>

GetConfiguration(p) ==
  /\ pc[p] = "config"
  /\ Succeeds(p)
  /\ Goto(p, "oldRules")
  /\ Set(p, [job[p] EXCEPT !.rules = Rules(cloud[job[p].tunnel].config)])
  /\ UNCHANGED <<world, database, memory, view>>

ReadIngress(p) ==
  /\ pc[p] = "oldRules"
  /\ Succeeds(p)
  /\ Goto(p, "saveRules")
  /\ Set(p, [job[p] EXCEPT !.oldRules = ingress[job[p].tunnel]])
  /\ UNCHANGED <<world, database, memory, view>>

SaveIngress(p) ==
  LET t == job[p].tunnel
      changed == job[p].rules # job[p].oldRules
      event == Event("config_changed", t, None, None, None, started[p])
  IN
  /\ pc[p] = "saveRules"
  /\ Succeeds(p)
  /\ ingress' = [ingress EXCEPT ![t] = job[p].rules]
  /\ Advance(p, [Collected(p) EXCEPT !.events = @ \cup IF changed THEN {event} ELSE {}])
  /\ UNCHANGED <<world, statusTables, connectors, connections, logTables, memory, view>>

\* An error of syncTunnel is kept for the outcome of the round, and the events
\* it returned beside the error are dropped: the loop continues before it
\* appends them, whatever had been committed by then.
FailTunnel(p) ==
  /\ pc[p] \in SyncLabels \ {"drift"}
  /\ Fails(p)
  /\ Advance(p, [job[p] EXCEPT !.failed = TRUE])
  /\ UNCHANGED <<world, database, memory, view>>

-----------------------------------------------------------------------------
(* The end of poll, and the rest of PollOnce.                              *)

AddEvents(entries) ==
  /\ events' = events \cup {[batch |-> batches + 1, entry |-> e] : e \in entries}
  /\ batches' = batches + 1
  /\ UNCHANGED runs

\* An error of AddEvents is only logged.
LogEvents(p) ==
  /\ pc[p] = "log"
  /\ Goto(p, "status")
  /\ Set(p, [job[p] EXCEPT !.events = {}])
  /\ \/ job[p].events = {} /\ UNCHANGED <<mishaps, logTables>>
     \/ job[p].events # {} /\ Succeeds(p) /\ AddEvents(job[p].events)
     \/ job[p].events # {} /\ Fails(p) /\ UNCHANGED logTables
  /\ UNCHANGED <<world, statusTables, detailTables, memory, view>>

RecordStatus(p) ==
  /\ pc[p] = "status"
  /\ Goto(p, IF job[p].failed THEN "logFailure" ELSE "run")
  /\ cycles' = (cycles + 1) % CycleWrap
  /\ lastRun' = started[p]
  /\ lastSuccess' = IF job[p].failed THEN lastSuccess ELSE started[p]
  /\ lastError' = job[p].failed
  /\ Set(p, [NoJob EXCEPT !.failed = job[p].failed, !.prune = (cycles' % PruneEvery = 0)])
  /\ UNCHANGED <<world, mishaps, database, view>>

LogFailure(p) ==
  /\ pc[p] = "logFailure"
  /\ Goto(p, "run")
  /\ \/ Succeeds(p) /\ AddEvents({Event("poll_failed", None, None, None, None, started[p])})
     \/ Fails(p) /\ UNCHANGED logTables
  /\ UNCHANGED <<world, statusTables, detailTables, memory, job, view>>

AddPollRun(p) ==
  /\ pc[p] = "run"
  /\ \/ Succeeds(p) /\ runs' = runs \cup {[at |-> started[p], ok |-> ~job[p].failed]}
     \/ Fails(p) /\ UNCHANGED runs
  /\ IF job[p].prune THEN Goto(p, "prune") /\ UNCHANGED <<job, view>> ELSE End(p)
  /\ UNCHANGED <<world, statusTables, detailTables, events, batches, memory>>

Prune(p) ==
  LET cutoff == started[p] - Retention IN
  /\ pc[p] = "prune"
  /\ \/ /\ Succeeds(p)
        /\ Log!Prune(cutoff)
        /\ events' = {e \in events : e.entry.at >= cutoff}
        /\ runs' = {r \in runs : r.at >= cutoff}
     \/ Fails(p) /\ UNCHANGED <<statusTables, events, runs>>
  /\ End(p)
  /\ UNCHANGED <<world, detailTables, batches, memory>>

-----------------------------------------------------------------------------
(* Contexts and the process.                                               *)

\* The deadline of a manual round (2 or 5 minutes) or the shutdown signal.
Expire(p) ==
  /\ "expire" \in Mishaps
  /\ mishaps < MaxMishaps
  /\ alive[p]
  /\ alive' = [alive EXCEPT ![p] = FALSE]
  /\ mishaps' = mishaps + 1
  /\ UNCHANGED <<world, database, memory, pc, started, listed, previous, job>>

\* A process that has just started: no round, and nothing in memory.
AllIdle == [p \in Pollers |-> "idle"]
NoContext == [p \in Pollers |-> FALSE]
NoStart == [p \in Pollers |-> 0]
NoTable == [p \in Pollers |-> NoStatus]
NoJobs == [p \in Pollers |-> NoJob]

\* The process dies and starts again: the database is what is left.
Crash ==
  /\ "crash" \in Mishaps
  /\ mishaps < MaxMishaps
  /\ mishaps' = mishaps + 1
  /\ cycles' = 0 /\ lastRun' = 0 /\ lastSuccess' = 0 /\ lastError' = FALSE
  /\ pc' = AllIdle /\ alive' = NoContext /\ started' = NoStart
  /\ listed' = NoTable /\ previous' = NoTable /\ job' = NoJobs
  /\ UNCHANGED <<world, database>>

-----------------------------------------------------------------------------
\* A first start: an empty database, and an account of fresh tunnels.
Init ==
  /\ cloud \in [Tunnels -> {None} \cup
       [status: Statuses, fleet: {NoFleet}, config: {v \in Versions : \A w \in Versions : v <= w}]]
  /\ changes = 0 /\ clock = 0 /\ mishaps = 0
  /\ Log!Init
  /\ connectors = [t \in Tunnels |-> NoFleet]
  /\ connections = [t \in Tunnels |-> {}]
  /\ ingress = [t \in Tunnels |-> 0]
  /\ events = {} /\ batches = 0 /\ runs = {}
  /\ cycles = 0 /\ lastRun = 0 /\ lastSuccess = 0 /\ lastError = FALSE
  /\ pc = AllIdle /\ alive = NoContext /\ started = NoStart
  /\ listed = NoTable /\ previous = NoTable /\ job = NoJobs

Account(t) ==
  CloudList(t) \/ CloudDelete(t) \/ CloudStatus(t) \/ CloudConnector(t) \/ CloudPublish(t)

Poll(p) ==
  \/ ListTunnels(p) \/ ReadTunnels(p) \/ SaveTunnels(p) \/ ReadCycle(p) \/ FailList(p)
  \/ ListConnectors(p) \/ ReadConnectors(p) \/ SaveConnectors(p) \/ SaveConnections(p)
  \/ CheckDrift(p) \/ GetConfiguration(p) \/ ReadIngress(p) \/ SaveIngress(p) \/ FailTunnel(p)
  \/ LogEvents(p)

PollOnce(p) ==
  Begin(p) \/ Poll(p) \/ RecordStatus(p) \/ LogFailure(p) \/ AddPollRun(p) \/ Prune(p)

Next ==
  \/ \E t \in Tunnels : Account(t)
  \/ Tick
  \/ \E p \in Pollers : PollOnce(p) \/ Expire(p)
  \/ Crash

\* The loop never stops polling, and a goroutine in a round is scheduled until
\* the round ends.  Nothing is fair about Cloudflare, the clock or a mishap.
Fairness == \A p \in Pollers : WF_vars(PollOnce(p))

Spec == Init /\ [][Next]_vars
FairSpec == Spec /\ Fairness

-----------------------------------------------------------------------------
(* Types.                                                                  *)

WorldTypeOK ==
  /\ cloud \in [Tunnels -> CloudTunnel \cup {None}]
  /\ changes \in 0..MaxChanges /\ clock \in 0..MaxClock /\ mishaps \in 0..MaxMishaps

DetailTypeOK ==
  /\ connectors \in [Tunnels -> Fleet]
  /\ connections \in [Tunnels -> SUBSET Connectors]
  /\ ingress \in [Tunnels -> StoredRules]

LogTypeOK ==
  /\ events \subseteq [batch: Nat, entry: Entry] /\ batches \in Nat
  /\ runs \subseteq [at: Nat, ok: BOOLEAN]

MemoryTypeOK ==
  cycles \in Nat /\ lastRun \in Nat /\ lastSuccess \in Nat /\ lastError \in BOOLEAN

ViewTypeOK ==
  /\ alive \in [Pollers -> BOOLEAN]
  /\ started \in [Pollers -> 0..MaxClock]
  /\ listed \in [Pollers -> [Tunnels -> Statuses \cup {None}]]
  /\ previous \in [Pollers -> [Tunnels -> Statuses \cup {None}]]

Stations ==
  /\ pc \in [Pollers -> Labels]
  /\ job \in [Pollers -> Job]
  /\ \A p \in Pollers : pc[p] \in SyncLabels => job[p].tunnel \in Tunnels

\* Every variable holds a value of its declared kind; a round that is visiting
\* a tunnel has one in hand.
TypeOK ==
  /\ WorldTypeOK
  /\ Log!TypeOK
  /\ DetailTypeOK
  /\ LogTypeOK
  /\ MemoryTypeOK
  /\ ViewTypeOK
  /\ Stations

-----------------------------------------------------------------------------
(* Safety.                                                                 *)

Quiet == \A p \in Pollers : pc[p] = "idle"

\* SaveTunnels (queries.go): "status history rows are only appended on an
\* actual transition", so the rows of a tunnel form a chain.
HistoryIsTransitions == Log!Transitions

\* The status column and the newest history row of a tunnel agree, so that the
\* current badge and the uptime computed from the history do.
StatusAgreesWithHistory == Log!Agreement

\* Rows of a tunnel that is gone are gone with it: SaveTunnels deletes them
\* together with the tunnel, and nothing else ever would.
NoOrphanRows ==
  \A t \in Tunnels : tunnels[t] = None =>
    connectors[t] = NoFleet /\ connections[t] = {} /\ ingress[t] = 0

\* As long as nothing was pruned, every status a tunnel is stored with was
\* recorded as a transition at some time: StatusAt always finds a row.
StatusWasRecorded ==
  Retention >= MaxClock =>
    \A t \in Tunnels : tunnels[t] # None =>
      \E r \in history : r.tunnel = t /\ r.status = tunnels[t]

\* What the event log says of a tunnel: the state its last event left it in.
TunnelKinds == {"tunnel_added", "tunnel_removed", "tunnel_status"}
Newest(found) == {e \in found : \A f \in found : f.batch <= e.batch}
LoggedStatus(t) ==
  LET found == {e \in events : e.entry.tunnel = t /\ e.entry.kind \in TunnelKinds}
  IN {e.entry.to : e \in Newest(found)}

\* Replaying the tunnel events yields the stored tunnels: between rounds no
\* appearance, disappearance or status change is missing from the log and none
\* was logged twice or out of order.
TunnelEventsReplay ==
  Quiet => \A t \in Tunnels :
    LoggedStatus(t) \subseteq {tunnels[t]} /\ (tunnels[t] # None => LoggedStatus(t) # {})

\* What it says of a connector: the release its last event left it with; the
\* connectors of a tunnel that is removed go without an event of their own.
ConnectorKinds == {"connector_added", "connector_removed", "version_drift"}
LoggedRelease(t, c) ==
  LET found == {e \in events : /\ e.entry.tunnel = t
                               /\ \/ e.entry.connector = c /\ e.entry.kind \in ConnectorKinds
                                  \/ e.entry.kind = "tunnel_removed"}
  IN {e.entry.to : e \in Newest(found)}
Release(row) == IF row = None THEN None ELSE row.build

\* "Event log - status transitions, connectors coming and going, configuration
\* changes and cloudflared version changes" (README.md): between rounds
\* replaying the connector events yields the stored connectors, each with the
\* release it is stored with.
ConnectorEventsReplay ==
  Quiet => \A t \in Tunnels, c \in Connectors :
    /\ LoggedRelease(t, c) \subseteq {Release(connectors[t][c])}
    /\ connectors[t][c] # None => LoggedRelease(t, c) # {}

\* The same while no round has failed.
ConnectorEventsReplayUnlessFailed ==
  (\A e \in events : e.entry.kind # "poll_failed") => ConnectorEventsReplay

\* A transition the event log reports, as opposed to the other entries.
StatusKinds == {"tunnel_added", "tunnel_status"}

Grounded(entry) ==
  entry.kind \in StatusKinds =>
    \E r \in history : /\ r.tunnel = entry.tunnel /\ r.at = entry.at
                       /\ r.from = entry.from /\ r.status = entry.to

\* A status event is only ever written for a transition that was committed:
\* a round that fails or dies in between may lose an event but invents none.
StatusEventsAreGrounded == \A e \in events : Grounded(e.entry)

\* Reads and writes of one round at a time compose to the atomic snapshots of
\* the abstract store.
ImplementsLog == Log!Spec

-----------------------------------------------------------------------------
(* Liveness.                                                               *)

Mirrors ==
  \A t \in Tunnels :
    IF cloud[t] = None
    THEN tunnels[t] = None /\ connectors[t] = NoFleet /\ connections[t] = {} /\ ingress[t] = 0
    ELSE /\ tunnels[t] = cloud[t].status
         /\ connectors[t] = cloud[t].fleet
         /\ connections[t] = Present(cloud[t].fleet)
         /\ ingress[t] = Rules(cloud[t].config)

\* Once the account stops changing and nothing fails any more, the store comes
\* to mirror it and stays so: the periodic full refresh catches the change that
\* no connector has applied yet.
EventuallyMirrors == <>[]Mirrors
=============================================================================
