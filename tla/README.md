# A formal model of CFTM

CFTM polls the Cloudflare API, keeps its own history of the account's tunnels in
SQLite and shows it on a dashboard. This directory holds TLA+ modules of its
parts, the TLC configurations that check them on small instances, and proofs that
TLAPS checks for every value of the constants.

Every definition is translated from the Go code; `PROJECT.json` names the lines
of each one ("map"), the hazards the properties are aimed at, and a mutation of
the code's behaviour that each checked property detects.

    tlc -config PollFaults.cfg PollCycle.tla     # one run; PROJECT.json lists them all
    tlapm PollCycleProofs.tla                    # the proofs of a module

## The system

| Part | State it keeps | Operations | Hard about it | Module |
| --- | --- | --- | --- | --- |
| poll round (`collector.go`) | `Collector.status`; the locals of each round | `PollOnce`, `poll`, `syncTunnel`, `prune` | several rounds at once, reads that are stale when used, one call of many failing, crashes and deadlines between two transactions | `PollCycle` |
| store (`queries.go`, `store.go`) | tables `tunnels`, `tunnel_status_history`, `connectors`, `connections`, `ingress`, `events`, `poll_runs` | `SaveTunnels`, `Replace*`, `AddEvents`, `AddPollRun`, `Prune` | diffs computed outside the transaction that commits them | `TransitionLog` (what it promises), `PollCycle` |
| API client (`client.go`) | last observed quota, REST and GraphQL | `send`, `checkBudget`, `recordRateLimit`, `listAll` | a check that is stale when the request goes out, answers out of order, retries, pages that shift | `ApiBudget`, `Pagination` |
| dispatcher (`dispatcher.go`) | table `notifications` | `Dispatch`, `deliver` | check, delivery and record are three steps of several goroutines; crashes between them | `Notifications` |
| Access audit (`audit.go`) | tables `access_apps`, `service_tokens`; coverage and time in `meta` | `AuditAccess`, `auditAlerts` | overlapping audits, one unreadable application, inventory and its time in separate commits | `AccessAudit` |
| probe rounds (`probes.go`, `prober/`) | table `probe_results`, `events` | `ProbeOnce`, `Classify` | targets from two tables another goroutine writes, classes read before and compared after, made-up timeouts | `ProbeRounds` |
| origins, logins (`origins.go`, `logins.go`) | tables `request_origins`, `access_logins` | `CollectRequestOrigins`, `CollectAccessLogins` | sources that fail independently, a table replaced as a whole, a capped log | `RequestOrigins`, `AccessLogins` |
| permissions (`capabilities.go`, About page) | a map, and its copy in `meta` | `record`, `permissions` | the snapshot is stored after the lock is released; it outlives process and configuration | `Capabilities` |
| pages (`viewbuilder.go`, `health.go`, `ignores.go`) | table `ignored_findings`; a snapshot per request | `loadSnapshot`, `Evaluate`, cards, ingress and audit page, mutes | a page is ten queries while others write; one fact worked out in several places | `Dashboard`, `Health` |
| past of a tunnel (`uptime.go`, `buildHeartbeats`) | none | `UptimeFor`, `StatusAt`, heartbeats | boundaries of windows and segments, pruning | `Uptime` |
| chart (`quality.go`) | none | `buildQuality`, `qualityGeometry` | results out of order and within one second, gaps | `Quality` |
| event lists (`queries.go`, `api.go`) | table `events` | `AddEvents`, `Events` | times of rounds that overlap, limits before filters | `EventPages` |
| loops, refresh buttons, shutdown (`main.go`, `handlers.go`) | throttles, the wait group, the trigger | `Run`, `reserve`, `run` | rounds on detached contexts, a shutdown with a deadline | `Lifecycle` |
| migrations (`store.go`) | the schema, `schema_migrations` | `migrate` | executed and recorded in separate commits | `Migrations` |
| log buffer (`logbuf.go`) | ring and indices | `Add`, `Entries` | wrap-around | `LogBuffer`, `RecentLog` |
| web templates, demo, version | – | – | layout and fabricated data | not modelled |

How the parts interact: the background loop and the two refresh handlers call
`PollOnce`, each on its own goroutine. A round calls the API client, writes the
store, and hands each batch of events it has written to the dispatcher, which
reads and writes the outbox. The other loops of the collector share the client
(and so its quota), the store (one connection, so each statement or transaction
is atomic) and the dispatcher. The probe rounds and the pages read the tables the
audits write. The HTTP layer otherwise only reads, but for the mutes.

## The modules

### TransitionLog: what the store promises about status

An abstract specification: `tunnels` (status by tunnel), `history` (a set of rows
ordered as the queries order them, by time and then by id) and two actions,
`Observe`, which compares a snapshot and commits it with its rows in one step,
and `Prune`. Snapshots arrive in the order of their timestamps. Its promises:

- `Agreement`: the stored status is that of the newest row. The status badge is
  read from one table and the uptime bar beside it is computed from the other.
- `Transitions`: the rows of a tunnel are a chain, each leaving the state the
  one before it entered.

The number of the writing transaction stands for the autoincremented id of a row
(the rows of one transaction belong to different tunnels).

### PollCycle: the poll round

| Variable | Code |
| --- | --- |
| `cloud`, `changes`, `clock` | the Cloudflare account and the clock (external) |
| `tunnels`, `history`, `connectors`, `connections`, `ingress`, `events`, `runs` | the tables |
| `commits`, `batches` | autoincremented ids |
| `cycles`, `lastRun`, `lastSuccess`, `lastError` | `Collector.status` |
| `pc`, `alive`, `started`, `listed`, `previous`, `job` | one round each: where it is, its context, and the local variables of `PollOnce`, `poll`, `syncTunnel` and `SaveTunnels` |

One action per API call, query or transaction, because between any two of them
another goroutine may run and the account may change. In the order of the code:
`Begin`, `ListTunnels`, `ReadTunnels`, `SaveTunnels`, `ReadCycle`; for each listed
tunnel `ListConnectors`, `ReadConnectors`, `SaveConnectors`, `SaveConnections`,
`CheckDrift`, `GetConfiguration`, `ReadIngress`, `SaveIngress`; then `LogEvents`,
`RecordStatus`, `LogFailure`, `AddPollRun`, `Prune`. `FailList` and `FailTunnel`
are the error returns. `Expire` ends a context (the deadline of a manual round, a
shutdown): every later API call and query of the round fails, as in the code, the
ones that would report the failure included. `Crash` is a process that dies and
starts again on the same database; the loss of committed transactions in a power
failure (`synchronous=NORMAL`) is not modelled.

Abstracted: a connector row is its release and the configuration version it
applied; a connection is the connector it belongs to; an ingress configuration
is its version number, and a version without rules (`RuleLess`) leaves no row
and so no number, which is what makes `configVersionDrifted` fetch it again each
round. The list of tunnels is one snapshot, although `listAll` may need several
pages. `events` is a set of entries with the number of the batch that wrote them.

### ApiBudget: the budget guard and the retry loop

Callers run `Check` (the guard, read once), then `Send` and `Receive` up to
`MaxAttempts` times; `Lose` is a connection that breaks or a context that ends
while waiting for an answer, `Cancel` one that ends while waiting for the next
attempt. Cloudflare's side (`left`, `resets`, `Answers`) is external: a quota per
window, and a 429 that blocks for a full window. Answers may come without
headers. `overdrawn`, `refused` and `blockedUntil` are history variables that only
the properties read.

### Notifications: the dispatcher

Workers write a batch of events (`Collect`) and then run `Dispatch` on it, one
event at a time: `Ignore`, `Pass`, `Suppress` and `GiveUp` are the early exits,
`Accept`, `Send` and `Record` the delivery with its three steps. `outbox` is the
table; `announced`, `handled` and `lost` are history variables. A failed delivery
writes its row all the same, so `Send` does not distinguish it.

### Pagination: the walk of a collection

`FetchPage` is one request of `listAll`; `EntryAdded` and `EntryDeleted` change the
collection between two of them and shift what follows. `steady` (a history
variable) is what was there all the time.

### AccessAudit, ProbeRounds: the audits and the probes that depend on them

`AccessAudit` has one action per API call, query and transaction of `AuditAccess`
(`ListApps`, `ListPolicies` once per application, `ReplaceAccessApps`, the tokens,
`SetAuditAt`) and of `auditAlerts`, for several auditors. An application has
a name, the hosts and the paths of hosts it is for, and the kinds of its policies; its
row keeps `Domains`, where the paths are stripped, so that several applications may have
one host. A coverage is reduced to the set of tunnels. `settled` records
whether the last audit to finish saw nothing change and nothing fail.

`ProbeRounds` EXTENDS it: a round reads ingress rules, audit time and inventory
(`ReadIngress`, `ReadAuditAt`, `ReadApps`), then the results before (`ReadPrevious`),
probes (`ProbeAll`), and writes (`SaveResults`, `AppendProbeEvents`). The network is
`path`: per host what a request meets, an Access login that wants the token
included (`Asked`: the applications for the whole host, as the probes are sent to its
root); `Classify` turns the response into the class of the code. `ContextEnds` is
the deadline or the shutdown.

### RequestOrigins, AccessLogins: two summaries

`RequestOrigins`: `ListZones`, then per zone `ReadLimits` and `QueryZone`, `QueryLogins`,
`ReadKnown`, `ReplaceRequestOrigins`, `AnnounceCountries`, `SetOriginWindow`; each may
fail, and `OriginCrash` ends the round. A zone is asked for its window (`Smallest` keeps
the smallest so far) before its requests, of which it may have none. `NormalizeCountry`, the longest matching zone
(`ZoneFor`), the clamped window and the tables of the pages are operators.
`AccessLogins` lists a capped, growing log and replaces the table in two steps of
several collectors. An event is a number in `authLog`; `windowStart` cuts what the
window of one day no longer holds.

### Capabilities: what the token may read

`Record` (under the lock), `StoreCapabilities` (after it), `CapRestart` with another
environment, which `Load` reads. `lastOutcome`, `alone` are history. `Permission` and
`Feature` are the About page.

### Dashboard, Health, Uptime, Quality, EventPages: what is shown

`Health` has every check of `Evaluate` as an operator over one tunnel's rows.
`Dashboard` EXTENDS it and `AccessAudit`: one action per query of `loadSnapshot`
(`LoadTunnels` ... `LoadHistory`) into `view`, while polls, audits, the release check
and another browser's mutes write; the pages are operators on `view`, and are judged
when it is complete (`Served`). Of the applications with one domain the ingress page
keeps the last in the order of their names (`AppOnDomain`); the findings and the audit
page look at all. `Uptime` and `Quality` each have the table, its
writers, a page that reads it and the computation; `UpUnknown` is the status before
the first row. The loop of `buildQuality` is the function `ChartTurns` of its turns. `EventPages` has the table of events, its appenders (rounds that take
their time when they begin) and the three lists read from it.

### Lifecycle, Migrations, LogBuffer, RecentLog

`Lifecycle`: the loops (`working`, `waiting`, `jitter`, `done`), the trigger channel,
`Click` with the throttle, manual rounds with their deadlines, and `run` from the
signal to `Exit`. `Migrations`: a file is a sequence of statements, a statement what
it creates. `LogBuffer` is the ring, `RecentLog` the queue it stands for.

### MC modules

`MCPollCycle`, `MCApiBudget` and `MCNotifications` add symmetry of the goroutines
(they run the same code and no property names one) and concrete quotas.

`MCDaemon` composes the components beside the poll and gives them their instances.
The variable `focus`, chosen in `Init`, says which of them move in a behaviour: one
component, or the ones that read each other's tables: `"probes beside audits"` and
`"pages beside audits"` interleave them step by step, with one audit so that the
product stays small; `"audits"` has two over an inventory that is already stored,
while the first audits of an empty database run beside the probes and the pages.
Components that share no state would only multiply each other's states, so they do
not move together, and stay in one initial state (`Pinned`). In the same way `MCLive` carries `PollCycle` and `Lifecycle`, and
`MCApiBudget` the budget and the walk. TLC checks every property in every behaviour;
most only have something to say in those of their component.

## The runs

| Run | What it shows |
| --- | --- |
| `poll_faults` | one poller, an account that changes between any two steps of a round, calls that fail: tables stay consistent, events replay to them |
| `poll_crash` | the same with crashes, expired contexts, failing transactions and pruning; the round implements `TransitionLog` |
| `poll_live` | once account and failures settle, the store mirrors the account for good; a process that is told to stop exits, and closes the store after its loops |
| `poll_pair` | what still holds for two overlapping rounds |
| `poll_pair_history` (violation) | two overlapping rounds log one transition twice |
| `poll_lost_events` (violation) | connector events of a round whose configuration fetch fails are lost |
| `api_budget` | how far concurrent callers can reach into the reserve; a block is not run into again and again; what a walk of shifting pages returns |
| `api_block_lost` (violation) | a late answer replaces a recorded block |
| `notify` | repeats within a cooldown are bounded, also across crashes; nothing urgent is silent |
| `notify_recovery` (violation) | at the default threshold no recovery is announced |
| `daemon` | audits, probe rounds, pages, origins, logins, permissions, log, migrations, uptime, chart and event lists, with overlapping rounds, failures and crashes |
| `first_audit_race` (violation) | a page built while the first audit finishes lists a guarded host as unprotected |

The five violations are disagreements between the code and what its comments or
documents say; "findings" in `PROJECT.json` quotes both.

### Properties

- `HistoryIsTransitions`, `StatusAgreesWithHistory`: the promises of
  `TransitionLog` in the state of the poll round; `ImplementsLog` says every step
  of a round is a step of `TransitionLog` or none of its.
- `NoOrphanRows`: no connector, connection or rule of a tunnel that is not stored.
- `TunnelEventsReplay`, `ConnectorEventsReplay`: between rounds, the last event of
  a tunnel (connector) is the state the table holds: its status; whether the connector
  is there and with which release, which `version_drift` events change. The second fails
  in the code; `ConnectorEventsReplayUnlessFailed` is the part that holds.
- `StatusEventsAreGrounded`: every status event matches a committed history row.
- `StatusWasRecorded`: with nothing old enough to prune, every stored status has a
  history row, whatever overlaps.
- `EventuallyMirrors`: the store comes to mirror the account and stays so.
- `ReserveHolds`: with *n* callers at most `MaxAttempts * n(n+1)/2` requests of a
  window, plus one per mishap, are granted out of the reserve. The bound is tight:
  the model reaches it. It counts what the quota grants, not what is refused: the
  first 429 moves the end of the window, so that a low record made before it can
  expire while the reserve is still closed, and one more request passes. With the retries of the code (3) it stays below
  the reserve of 100 for up to seven concurrent callers (3 * 28 = 84); four
  background loops use the client and every running manual refresh adds one.
- `BlockIsRespected`: a block is run into at most `n(n+1)/2` times a window, with no
  factor for the attempts, because a 429 is not retried. `BlockHolds`, that no
  call passes the guard during a block, fails.
- `CooldownHolds`: within a cooldown a condition is announced at most once per
  worker plus once per lost outbox row. `NothingUrgentIsSilent`: what is
  suppressed was announced, for the same target state, within the cooldown.
- `WalkReturnsSteady`: a walk misses an entry that was there all the time only if
  another was deleted meanwhile; undisturbed it returns the collection.
- `InventorySettles`, `SteadyAppsStayStored`: after an audit that saw no change and no
  failure the tables say what the account holds; an application the account never
  lost never leaves them, nor does a host that always had some application. `NoFalseGapOnceAudited` is the same on the pages of a
  request that began after an audit; `NoFalseGap`, without that premise, fails.
- `TokenFollowsInventory`, `TimeoutsAreMeasured`, `ProbeEventsReplay`: who is sent the
  service token, that no stored or shown timeout was made up, and that the last
  event of a host is its stored class. The last one holds for rounds that do not
  overlap and are not cut off between results and events (`disturbed`): the code
  promises no more.
- `AnnouncedOnce`, `StoredWasAnnounced`, `OriginsAddUp`: first-seen countries in both
  directions, also after failures; the tables of the pages count each request once.
  `AnnouncedOnce` speaks of the countries that one zone reports in every traffic: one
  that moves from a zone to another may do so between the two queries of a round, is
  missing from that summary although no source failed, and is then announced again.
  The window shown with the table is one that every row covers. It may be shorter than
  that of every row, because a zone that reports nothing shortens it too; while the
  traffic stays as it was and no source failed, it is exactly the smallest of the windows
  asked for.
- `SummaryAccountsForLog`: the login summary, while the log fits into one lookup.
- `PermissionsAreCurrent`: one record that overlaps no other puts the stored map right,
  areas of the earlier process included; "disabled" and "off" agree with what runs.
- `CoverageViewsAgree`, `HiddenIsListed`: the cards, the index, the ingress page and the
  audit page agree on what one request has read; what is muted can be given back. A host
  with several applications shows one of them on the ingress page, and it may be one
  without a bypass although another has one. What holds is that a card names exactly the
  applications that the audit page shows with a bypass policy, and that no bypass on the
  ingress page is missing there.
- `UptimeIsTrue`, `HeartbeatsHideNothing`: the figure and the bar against a history
  kept second by second (`held`, `entered`).
- `QualityAddsUp`, `CurveHidesNothing`: the chart against the rows of the window.
- `EventsInOrder`: order and completeness of the three event lists.
- `OpenHasSchema`: an open store has the whole schema, whatever broke off before.
- `RingIsRecentLog`: the ring implements the queue; `NoEmptyLine`, that no unused slot
  shows, is proved only.
- `StoreClosedLast`, `ManualRoundsAreFew`, `ProcessExits`: the shutdown and the throttle.
- `TypeOK` of `PollCycle` and `DaemonTypeOK`, the types of all the components of
  `MCDaemon`. Those of `ApiBudget` and `Notifications` are proved
  (`ClientTypeCorrect`, `DispatchTypeCorrect`) and not part of a run.

### Bounds

All counters that a run must bound are constants named `Max...`; they limit the
world (changes of the account, ticks, mishaps), never the code.

- One tunnel, two statuses, one connector: no step of a round relates two tunnels
  except through the loop, and each tunnel's rows are its own. Two rule versions,
  one of them without rules, give every outcome of `configVersionDrifted`. The
  crash run has one version, as its properties do not look at rules.
- `MaxChanges = 2` allows any two of appearing, changing and disappearing, inside one
  round or between rounds; `MaxMishaps = 1` a failure at every step that can fail.
- `ConfigRefreshEvery = PruneEvery = CycleWrap = 2`: rounds with and without the
  refresh and the pruning alternate. Cycles are counted modulo `CycleWrap`, a
  multiple of both (`WrapAssumption`), because the code only uses remainders.
- `Retention = 0` in the crash run prunes rows of an earlier tick, with rows old
  and new in the table; elsewhere nothing is old enough.
- Two pollers: the hazards of `SaveTunnels` are a read and a write of two rounds.
- Two callers, two quotas, two attempts, quota 9 with reserve 7 (REST) and 2 with
  reserve 0 (GraphQL): the quota is untouched, but for two requests or entirely
  used up when the client starts, so a window may open the guard, close it, or
  refuse. The two requests above the reserve allow an answer that was sent before
  the reserve was reached and is recorded after; with them both bounds are
  reached. Two attempts are enough to tell a retried
  request from one that is not.
- Two workers, one subject, a kind with transitions and one that is never
  announced, a clock of two ticks around a cooldown of one.
- `daemon`: three hosts, one always guarded, one never, one at times, which are the
  cases the properties tell apart; two tunnels, as a mute of one acts on the other;
  two accounts with one change between them, in one of which the guarded host has a
  second application, for a path of it, that passes everything and comes first by name;
  two audits, one failure or crash, one
  poll. The next failure or change finds the tables in a state that the first one
  could have left too. Two overlapping rounds of every collector that may overlap,
  three where a third reader matters (permissions, collections of origins).
- Three zones that serve a host: two of which one covers the other's host, and one with
  the shortest window and no requests.
- Two releases in `poll_faults` and `poll_lost_events`, so that a connector can be upgraded
  between any two steps of a round.
- Three ring slots, so that the ring wraps inside an array that has a middle; two
  segments of one and two seconds of bar and chart; two to four entries in the
  capped lists and windows, each limit reached and exceeded.
- A shutdown deadline of one tick, a manual round of up to five, a throttle of two:
  rounds outlive the shutdown and up to three of one button overlap.
- Pages of two entries over a collection of up to four with two shifts: an entry
  can cross a page border twice, and a walk has one, two or three pages.

### Fairness

Only `poll_live` states any. For the poll: weak fairness of `PollOnce(p)`. `Run`
polls until the process ends, and a goroutine in a round is scheduled; every call
in a round is bounded by the client's timeout, so a step that is enabled is
eventually taken, as a success or a failure. For the process: rounds of the loops
and manual rounds end, and `run` goes on when it can (weak fairness). A loop whose
context is done returns (strong fairness of `LoopReturns`): `select` picks among its
ready cases at random, so a ticker that fires at the same time may win a few times,
but not for ever. No fairness for clicks, signals, tickers or time. Failures themselves are not fair and
finitely many (`MaxMishaps`): a Cloudflare API that never answers again refutes any
such property. Nothing is assumed of the account or the clock.

## The proofs

Eight modules hold them, checked by TLAPS for every value of the constants: every
set of tunnels, pollers, callers, workers, hosts or countries, and every bound.

| Proofs | About | Specification |
| --- | --- | --- |
| `TransitionLogProofs` | `TransitionLog` | `Spec` |
| `PollCycleProofs` | `PollCycle` | `Spec` |
| `ClientProofs` | `ApiBudget`, `Pagination` | `Spec`, `PageSpec` |
| `ProcessProofs` | `Lifecycle`, `Notifications`, `LogBuffer`, `RecentLog` | `LifeSpec`, `Spec`, `LogSpec` |
| `ProbeRoundsProofs` | `AccessAudit`, `ProbeRounds` | `ProbeSpec`: audits and rounds, each a step of its own |
| `CollectorProofs` | `Migrations`, `Capabilities`, `RequestOrigins`, `AccessLogins` | `MigrationSpec`, `CapSpec`, `OriginSpec`, `LoginSpec` |
| `PageProofs` | `Dashboard`, `Uptime`, `Quality`, `EventPages` | `DashSpec` (audits, polls and mutes between the queries of a page), `UptimeSpec`, `QualitySpec`, `EventSpec` |
| `FoldLemmas` | sums over finite sets, lists by rank | – |

Every safety invariant and every refinement that a passing run checks is stated by
one of these theorems, but for `DaemonTypeOK`; see "Only model-checked".

The specification of a component is its initial states and its next-state relation;
the MC modules run the same two, several components in one state space, so a run
shows on an instance what the theorem says of all. Constants are only assumed to be
what the code makes them: kinds and finiteness of sets (`BudgetAssumption`,
`PageAssumption`, `NotifyAssumption`, `TimeAssumption`, `AccountAssumption`,
`IngressAssumption`, `TokenAssumption`, `FilesAssumption`, `AreasAssumption`,
`DashAssumption`, `LoginAssumption`, `OriginAssumption`, `QualityAssumption`,
`EventAssumption`, and those of `PollCycle`), and that a value that stands for "none"
is no value of the kind it is missing from. Three say more. `OriginAssumption`: the
zones of the account stay the same while their traffic changes, and the log of
logins names no host. `DashAssumption`: a token's id is its own. `UptimeAssumption`: the
segments of the bar divide the window, as the 48 of the code divide a day; with a
remainder the last one would end before the window does. TLC evaluates every one of
them in a run.

### The poll round and its log

- **`LogCorrect`** (`TransitionLog`): `Agreement` and `Transitions` are invariants.
  Neither is inductive: a new row extends the chain only if the newest row agrees
  with the table, and it becomes the newest only if the order of rows is the order
  of transactions. The inductive invariant adds `TypeOK` and `Numbered` (no row is
  numbered beyond `commits`, and a transaction writes one row per tunnel). Pruning
  keeps it because what it deletes precedes what it keeps.
- **`TypeCorrect`** (`PollCycle`): `TypeOK`, one lemma per group of steps. The part
  that is not a typing of variables is `Stations`: a round that is at one of the
  steps of `syncTunnel` has a tunnel in hand.
- **`OnePollerImplementsLog`**: with one poller, `Spec => ImplementsLog`. `ReadTunnels`
  and `SaveTunnels` are separate steps with crashes, failures and a changing account
  in between, so the proof needs that what was read still holds at the commit:
  `Serial` says this, and that no row is younger than a round that has yet to
  commit, which makes its timestamp the latest.
- **`OnePollerHistory`**, **`OnePollerTransitions`**: so with one poller the store keeps
  both promises. It is `OnePollerImplementsLog` followed by the invariant of
  `TransitionLog`.
- **`StatusRecorded`**: for any number of pollers, `StatusWasRecorded`. Two overlapping
  rounds break `Serial`, yet a status enters the table only with a row or because
  the round read it there; the inductive invariant `RecordedInv` says that what was
  read was recorded too. It holds while nothing is old enough to be pruned.
- **`EventsGrounded`**: `StatusEventsAreGrounded`, for one poller always and for any
  number while nothing is old enough to be pruned. The inductive invariant
  `GroundedInv` says the same of the events a round has yet to write, and that those
  of the tunnel in hand are never about its status. Pruning deletes an event together
  with the row that backs it; it could only take the row of an event that another
  round still carries.
- **`OnePollerNoOrphans`**: `NoOrphanRows` with one poller. `VisitsStored` adds what makes
  it inductive: the tunnels a round still has to visit, and the one in hand, are
  stored, because only the commit of the next list removes any.
- **`OnePollerTunnelReplay`**: `TunnelEventsReplay` with one poller, while nothing is
  pruned and no write of events fails or is cut off (`EventsGetWritten`). A round
  that has committed its list carries the events that say so: `TunnelReplayInv` says
  that per tunnel either the log replays to the table or the round has the one
  missing event, and `Carrying` where in a round events exist at all.
- **`OnePollerConnectorReplay`**: `ConnectorEventsReplayUnlessFailed`, from the same
  invariant per connector and `VisitedOnce`: a round visits each tunnel at most once
  and replaces the connectors it compared with. What is missing in the log is then one
  event that names the release (`ReleaseReplays`, `PendingAbout`).

"With one poller" is the hypothesis `OnePoller`, that `Pollers` has at most one
element; `poll_pair_history` shows that it is needed. So are the other hypotheses:
pruning deletes events, and a round that dies between two commits loses its own.

### The API client

- **`ReserveIsKept`**, **`BlocksAreFew`**, **`ClientTypeCorrect`**: for any number of callers,
  quotas, attempts and reserves. The two bounds say how often the guard opens
  although the reserve is reached, which no state shows, so the inductive invariant
  `BudgetInv` accounts for what may still happen. An answer is *old* if recording it
  can open the guard (it was sent before the reserve was reached, or in an earlier
  window); any other answer leaves the record alone or shuts the guard to the end of
  the window. A caller without an old answer has *turns*: the attempts it can still
  make before the next old answer arrives, all of a call if the guard is open, the
  rest of its call if it is shut. The invariant (`Affordable`) is that twice what was
  used, twice the turns and `MaxAttempts` times `Late(o)` stay within
  `MaxAttempts * n(n+1)` and twice the mishaps, where `Late(o)` stands for the turns
  that *o* old answers can still give back: the k-th to arrive finds at most all
  callers but those that wait for another one. Four lemmas about such sets say what a
  step may do to the sum (`AffordableStays`, `AffordableUsed`, `AffordableMishap`,
  `AffordableReopened`), and one per action which of them applies. Refused requests
  are counted the same way with one turn per caller, since a 429 is not retried.
- **`WalkIsComplete`** (`Pagination`): `WalkReturnsSteady`, for every page size, page limit
  and collection. `WalkInv` says that the entries that were there all the time and lie
  before the next page are in what was read already; an entry that comes in pushes
  others back, never forward across that border, and `Insertion` and `PageShape` say
  what insertion and slicing do to positions.

### The dispatcher

- **`UrgentIsAnnounced`**, **`DispatchTypeCorrect`**: every row of the outbox was announced
  when it says, and a worker about to write one has announced it (`AnnounceInv`).
- **`CooldownIsKept`**: per condition and per cooldown that may begin at any second `s`
  (`WindowInv`): before the outbox knows of an announcement, there are as many as
  workers that are about to record one and rows that were lost; from then on no worker
  joins those about to announce, so announcements and workers about to send stay
  within the number of workers and lost rows.

### Loops and shutdown

- **`StoreIsClosedLast`**: `ClosingInv` ties the place of `run` to what `Shutdown` and the
  wait group have waited for.
- **`FewManualRounds`**: the running rounds of a button began at the throttle's spacing
  and within one deadline (`Spaced`); how many of them fit says `SpacedPoints`, since
  each falls into a spacing of its own.

### Audits and probes

- **`SteadyAppsStay`**: an audit that lists policies has found every steady application, and
  some application for every steady host (`SteadyInv`), although a single one may be
  unreadable: its row has no policies but keeps its domains.
- **`AuditsSettle`**: which audits may still write something that differs from the account.
  `Honest` says of each audit that is still clean that what it has read, and written, is
  what the account holds (`Faithful`); what such an audit writes is `Tidy` for the others.
- **`TokenGoesWhereItMust`**: a round never takes a steady host for a public one, and a
  round that knows of an audit takes for public whatever never had an application
  (`TokenInv`, on `SteadyInv` and `NeverInv`).
- **`EventsReplayResults`**: `ReplayInv`, with what the round in progress compares with;
  `ClockInv` makes its results the latest.
- **`ResultsAreMeasured`**: `TimeoutsAreMeasured`, from `MeasuredInv`: while every path answers, only
  a round whose context ended has found a timeout, and such a round cannot save. That a
  card shows a problem exactly when a checked host of the tunnel has one
  (`CardTellsProblems`) is about the worst of a set of classes, in any state.
- **`DaemonTypeCorrect`**: the kinds of both modules, from the same invariant.

### Migrations, permissions, origins

- **`OpenStoreHasSchema`**: `MigrationInv` adds that the statements of the current file up
  to the current one have taken effect, and that every file before it is recorded.
- **`AboutPageIsCurrent`**: `CapInv`: while a record is alone, its snapshot is the map.
- **`StoredCountriesAnnounced`**, **`SteadyCountriesAnnouncedOnce`**: `StoredInv` covers the
  time between the two writes of a round, `MeetsSteady` says that a round no source of
  which failed has met every steady country or has a zone ahead of it that reports it,
  and `OnceInv` that one that was announced is in the table and known to every round.
- **`SummariesOfOriginsAddUp`**: `RowsInv` follows the window that is shown through the two
  writes of a round, so that no stored row covers less, and `LimitsInv` the windows that
  a round has asked for and has yet to ask for, so that in the end none is smaller; then the hosts' and the
  countries' tables split the rows into disjoint parts, and a sum over disjoint parts is
  the sum of the sums (`SumOfParts`).
- **`SummariesAccountForLog`** (`AccessLogins`): `LoginInv` says that what every collector has
  listed, and what is stored, is the newest part of the log at a place it has reached;
  the log only grows, so the part stays what it was. The total over the applications is
  again a sum over disjoint parts.

### The log buffer

- **`RingImplementsRecentLog`** (`LogBuffer`): for every capacity the ring implements the
  queue of the newest messages, with `Entries` as the refinement mapping. `RingInv`
  adds to the types that the ring is packed: below capacity it starts at slot 0 and
  its used slots hold messages. `EntriesAreSlots` shows that the two copies of `Entries`
  read the slots in order across the wrap; `AddBelowCapacity` and `AddAtCapacity` are
  the two cases of a step.
- **`NoEmptyLineEver`**, **`LogTypeCorrect`**: from the same invariant.

### Sums and lists

`FoldLemmas` has what the pages' figures need. A sum is a fold, the fold of the
community modules is a recursive function on the subsets of the set, and that it
satisfies its own equation (`SumIsTable`) is proved by induction on finite sets. The
provers cannot instantiate an induction rule over predicates; `SubsetInduction` is
stated for a *set* of subsets, which a proof can name, and `LeastNumber` in the same way
for numbers. From them: a sum is that of its parts, does not change with equal terms,
and that of sizes is the size of the union. `Listing` says of a set in an order that the
ranks of its elements are 0 to size - 1, each taken once.

### What the pages show

- **`InformedPagesShowNoFalseGap`**: `NoFalseGapOnceAudited`. `PageInv` carries `SteadyInv` of the
  audits and `InformedInv`: a page that began after an audit has read an application for
  every host that has one all along, whichever audit wrote it last.
- **`HiddenCanBeRestored`**: from `MutedInv`: what hides a finding was in the table when it was
  read and is there still when the page lists what is muted, or was restored between.
- **`PagesAgree`**: `CoverageViewsAgree`. Four facts, one per pair of views: what a card lists of
  a host is what the audit page says of it and agrees with its ingress row, whichever of
  the host's applications that shows (`RowsAgree`), a token has on
  the audit page the severity of its finding (`TokensAgree`), a connector marked as
  outdated has its finding (`OutdatedAgree`), and the index counts no fewer gaps than the
  cards list (`IndexCountsGaps`). They hold of any view that has its types.
- **`FiguresAreTrue`**, **`HeartbeatsAreTrue`**: `PastInv` says that every second is as the last row
  up to it tells, pruned or not; `WholeInv` that without pruning the rows tell all of it.
  `FigureInv` and `BarInv` say the same of what a page has read, for the seconds before
  its own; the page's later queries may see newer rows, and those that are lost are
  lost from the front. The figure is then a sum of intervals that cover the window
  without overlap, a segment of the bar the worst of the rows in it and of the status
  it began with.
- **`ChartsAddUp`**, **`CurvesAreHonest`**: the loop of `buildQuality` is a recursive function of the
  number of turns, and `TurnInv(n)` its invariant: after *n* rows each segment holds the
  counts, the sums, the ends and the breaks of the rows so far. `EveryTurn` proves it for
  all *n* by the least turn that would break it.
- **`ListsTellInOrder`**: `EventsInv` says that ids are unique and that of one goroutine's events a
  later id is never of an earlier time, none later than its running round. That the
  lists are complete down to their limits is counting, by `Listing`.

### What the proofs changed

Looking for inductive invariants showed two properties that were only true of
the instance TLC had checked:

- `ReserveHolds` counted refused requests too. With three seconds of window and a
  429 that moves its end, one more request passes than it allowed; it now counts
  what is granted, and `BlockIsRespected` what is refused. The instance of
  `api_budget` had no room for an answer older than the reserve and was enlarged.
- `AnnouncedOnce` took a country to be steady if it was in the summary of every
  traffic. One that moves between two zones can be missed by a round whose queries
  fall on both sides of the change; steady is now what one zone always reports.

Three modules computed by folding over sequences, about which nothing could be proved
for every input: `Uptime`, `Quality` and `EventPages` now have tables as sets, orders as
relations (`Precedes`, `Newer`) and lists by rank, and `Quality` its loop as a function of
the turns. What they say is the same.

### Only model-checked

- Liveness (`EventuallyMirrors`, `ProcessExits`): under fairness, out of the prover's
  reach.
- `DaemonTypeOK`: the types of all the components of `MCDaemon` at once, with the bounds of
  its instance. It belongs to that composition and is no promise of the code; where a
  proof needs types it has its own (`AuditTypes`, `ProbeTypes`, `ViewTypes`, `PastInv`, ...), for
  every instance.
- The five properties that the code violates: a counterexample is all there is to show.
- That the hypothesis of one poller is needed (`poll_pair_history`): the theorems have it
  as a premise.
- Each theorem is about one component, or about those that share tables. That a step
  of another component leaves these variables alone is how the modules are composed
  (`MCDaemon` moves only components that share variables in one behaviour) and is not
  stated as a theorem.

## The plan

1. The poll's status table feeding `Uptime` (today `Uptime` has a table of its own), so
   that `FiguresAreTrue` rests on `StatusAgreesWithHistory`.
2. The templates that turn figures into text, if one of them gets logic of its own.

## Not modelled, and why

Header, JSON and SQL grammar (the numbers and rows they carry are), titles and
bodies of notifications and findings, templates, routing and middleware, durations
and counts of the configuration, static assets, the demo export, build metadata,
and the network below the API calls and the probes. The generated template code
alone is more than a third of the Go lines. Of the prober, the semaphore and the
stagger: they only bound how many requests run at a time, and no property relates
two probes of one round. `Collector.Trigger` is modelled, though only a test calls it.

Seen while modelling, without a run of their own:

- `refreshAll` leaves the request origins out, although its comment says the button
  runs every collection of the start-up (`handlers.go:334`).
- The About page does not count the notification policies among the areas that are
  off when the audit is (`handlers.go:206`).
- The audit page says that every public hostname is covered also before the first
  audit (`audit.templ:48`).
- The ingress page keeps the last application of a domain, the bypass finding looks
  at all of them (`viewbuilder.go:716`): a host can be "protected" on the one while its
  card warns of a bypass. An application for a path makes its whole host count as protected.
- A window of less than an hour is labelled "1 hour" (`viewbuilder.go:414`).

`PROJECT.json` lists every component with its status.
