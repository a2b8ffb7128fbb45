---------------------------- MODULE ProbeRounds ----------------------------
(***************************************************************************)
(* Probe rounds (ProbeOnce) beside the Access audits they depend on.       *)
(*                                                                         *)
(* A round takes the hostnames from the stored ingress rules and the       *)
(* hosts without an Access application from the stored inventory, reads    *)
(* the previous result of each host, probes, stores the results and only   *)
(* then appends the events of those whose class changed.  Every query and  *)
(* every transaction is a step; the probes of one round are one step, as   *)
(* nothing relates the results of two hosts.  The background loop and the  *)
(* "refresh all" button run rounds on goroutines of their own.             *)
(***************************************************************************)
EXTENDS AccessAudit, Sequences

CONSTANTS
  Ingresses,        \* contents of the ingress table: sequences of rules
  Probers,          \* goroutines that may run ProbeOnce
  HasServiceToken,  \* a service token is configured
  NoResult,         \* a host without a probe result
  MaxRounds,        \* bound: probe rounds begun
  MaxPathChanges,   \* bound: changes of a path, of the ingress table
  MaxClock          \* bound: seconds that pass

VARIABLES
  path, pathChanges, clock,                  \* the world
  ingress, results, lastEvent,               \* tables; the last event of each host
  probePc, probe, rounds,                    \* the running rounds
  disturbed                                  \* history, see ProbeEventsReplay

probeTables == <<ingress, results, lastEvent>>
probeRuns == <<probePc, probe, rounds>>
probeVars == <<path, pathChanges, clock, probeTables, probeRuns, disturbed>>

-----------------------------------------------------------------------------
(* What a request to a host meets, outside the program, and what the       *)
(* prober makes of it.                                                     *)

Paths == {"answers", "refuses", "cached", "no connector", "origin down", "slow"}

Response(status) == [status |-> status, access |-> FALSE, cached |-> FALSE, code1033 |-> FALSE]
Failed == Response(0)

\* The edge asks Access first, where the host has an application.  An
\* application for a path of the host is not asked: the probes are sent elsewhere.
Asked(h) == {i \in Present(account.apps) : h \in account.apps[i].hosts}
Intercepts(policies, token) ==
  /\ ~(\E p \in policies : IsBypass(p))
  /\ ~(token /\ \E p \in policies : HasServiceTokenRule(p))

Answers(h, token) ==
  IF \E i \in Asked(h) : Intercepts(account.apps[i].policies, token)
  THEN IF token THEN {[Response(403) EXCEPT !.access = TRUE]}
       ELSE {[Response(s) EXCEPT !.access = TRUE] : s \in {302, 401}}
  ELSE CASE path[h] = "answers" -> {Response(200)}
         [] path[h] = "refuses" -> {Response(403)}
         [] path[h] = "cached" -> {[Response(200) EXCEPT !.cached = TRUE]}
         [] path[h] = "no connector" -> {[Response(s) EXCEPT !.code1033 = TRUE] : s \in {502, 530}}
         [] path[h] = "origin down" -> {Response(502)}
         [] path[h] = "slow" -> {Failed}

EdgeFailureStatus == {502, 504, 530} \cup 520..524

\* Classify, and ClassifyError for the failed request, which timed out.
Classify(r) ==
  CASE r = Failed -> "timeout"
    [] r.status \in EdgeFailureStatus ->
         IF r.code1033 \/ r.status = 530 THEN "tunnel_down" ELSE "origin_error"
    [] r.status \in 300..399 \cup {401} /\ r.access -> "access_challenge"
    [] r.status = 403 /\ r.access -> "access_denied"
    [] r.cached -> "edge_cached"
    [] OTHER -> "ok"

Classes == {"ok", "access_challenge", "access_denied", "edge_cached", "tunnel_down",
            "origin_error", "timeout"}

-----------------------------------------------------------------------------
(* The targets of a round. *)

Rule == [host: Hosts, http: BOOLEAN]

ASSUME IngressAssumption == \A rules \in Ingresses : rules \in Seq(Rule)
ASSUME TokenAssumption == HasServiceToken \in BOOLEAN

HostsOf(rules) == {rules[i].host : i \in 1..Len(rules)}

\* publicHostnames: the hosts of the rules without an application.
Unprotected(rules) == HostsOf(rules) \ Protected(apps)

\* Targets: one per host with an HTTP rule; `public` are those that must not
\* carry the service token.
Targets(rules, public) ==
  [h \in {rules[i].host : i \in {j \in 1..Len(rules) : rules[j].http}} |->
     HasServiceToken /\ h \notin public]

\* The latest results of a host, all of one second.
StoredResult == [at: Nat, classes: (SUBSET Classes) \ {{}}]

ASSUME NoResultAssumption == NoResult \notin StoredResult \cup Classes

NoProbe == [rules |-> <<>>, public |-> {}, previous |-> [h \in Hosts |-> NoResult],
            found |-> <<>>, informed |-> FALSE, dead |-> FALSE]

ProbeInit ==
  /\ path = [h \in Hosts |-> "answers"]
  /\ pathChanges = 0 /\ clock = 0
  /\ ingress \in Ingresses
  /\ results = [h \in Hosts |-> NoResult]
  /\ lastEvent = [h \in Hosts |-> NoResult]
  /\ probePc = [p \in Probers |-> "idle"]
  /\ probe = [p \in Probers |-> NoProbe]
  /\ rounds = 0
  /\ disturbed = FALSE

PathChanges(h) ==
  /\ pathChanges < MaxPathChanges
  /\ pathChanges' = pathChanges + 1
  /\ \E c \in Paths \ {path[h]} : path' = [path EXCEPT ![h] = c]
  /\ UNCHANGED <<clock, probeTables, probeRuns, disturbed, auditVars>>

\* A poll stores other rules.
IngressChanges ==
  /\ pathChanges < MaxPathChanges
  /\ pathChanges' = pathChanges + 1
  /\ ingress' \in Ingresses \ {ingress}
  /\ UNCHANGED <<path, clock, results, lastEvent, probeRuns, disturbed, auditVars>>

SecondPasses ==
  /\ clock < MaxClock
  /\ clock' = clock + 1
  /\ UNCHANGED <<path, pathChanges, probeTables, probeRuns, disturbed, auditVars>>

-----------------------------------------------------------------------------
(* The steps of a round. *)

At(p, label) == probePc[p] = label
Continue(p, label) == probePc' = [probePc EXCEPT ![p] = label]
RoundEnds(p) == Continue(p, "idle") /\ probe' = [probe EXCEPT ![p] = NoProbe]

\* A query fails on a dead context, or because the database refuses.
ProbeFails(p) ==
  IF probe[p].dead THEN UNCHANGED failures ELSE AuditFails

WorldStands == UNCHANGED <<path, pathChanges, clock, ingress, rounds, account, changes,
                           tunnels, auditTables, auditRuns, settled>>

BeginRound(p) ==
  /\ At(p, "idle") /\ rounds < MaxRounds
  /\ rounds' = rounds + 1
  /\ Continue(p, "ingress")
  /\ probe' = [probe EXCEPT ![p].informed = auditAt]
  /\ disturbed' = (disturbed \/ \E q \in Probers : probePc[q] # "idle")
  /\ UNCHANGED <<path, pathChanges, clock, probeTables, auditVars>>

\* Shutdown, or the deadline of a refresh, ends the round's context.
ContextEnds(p) ==
  /\ ~At(p, "idle") /\ ~probe[p].dead
  /\ AuditFails
  /\ probe' = [probe EXCEPT ![p].dead = TRUE]
  /\ UNCHANGED <<probePc, results, lastEvent, disturbed>> /\ WorldStands

ReadIngress(p) ==
  /\ At(p, "ingress")
  /\ \/ /\ ~probe[p].dead
        /\ probe' = [probe EXCEPT ![p].rules = ingress]
        /\ Continue(p, "auditAt")
        /\ UNCHANGED failures
     \/ ProbeFails(p) /\ RoundEnds(p)
  /\ UNCHANGED <<results, lastEvent, disturbed>> /\ WorldStands

\* Mutation of InventoryKnown: an empty inventory passes for a known one.
InventoryAssumed == TRUE

\* The inventory is known once an audit has set its time.
InventoryKnown == auditAt

\* AccessAuditAt: an unreadable time counts as none.
ReadAuditAt(p) ==
  /\ At(p, "auditAt")
  /\ \/ /\ ~probe[p].dead
        /\ Continue(p, IF InventoryKnown THEN "apps" ELSE "previous")
        /\ UNCHANGED <<failures, probe>>
     \/ /\ ProbeFails(p)
        /\ Continue(p, "previous")
        /\ probe' = [probe EXCEPT ![p].informed = FALSE]
  /\ UNCHANGED <<results, lastEvent, disturbed>> /\ WorldStands

ReadApps(p) ==
  /\ At(p, "apps")
  /\ \/ /\ ~probe[p].dead
        /\ probe' = [probe EXCEPT ![p].public = Unprotected(probe[p].rules)]
        /\ Continue(p, "previous")
        /\ UNCHANGED failures
     \/ ProbeFails(p) /\ RoundEnds(p)
  /\ UNCHANGED <<results, lastEvent, disturbed>> /\ WorldStands

TargetsOf(p) == Targets(probe[p].rules, probe[p].public)

NothingToProbe(p) ==
  /\ At(p, "previous") /\ TargetsOf(p) = <<>>
  /\ RoundEnds(p)
  /\ UNCHANGED <<failures, results, lastEvent, disturbed>> /\ WorldStands

\* LatestProbeResults: of two results of one second either may be returned.
Latest(h) == IF results[h] = NoResult THEN {NoResult} ELSE results[h].classes

ReadPrevious(p) ==
  /\ At(p, "previous") /\ TargetsOf(p) # <<>>
  /\ \/ /\ ~probe[p].dead
        /\ \E prev \in [Hosts -> UNION {Latest(h) : h \in Hosts}] :
             /\ \A h \in Hosts : prev[h] \in Latest(h)
             /\ probe' = [probe EXCEPT ![p].previous = prev]
        /\ Continue(p, "probing")
        /\ UNCHANGED failures
     \/ ProbeFails(p) /\ RoundEnds(p)
  /\ UNCHANGED <<results, lastEvent, disturbed>> /\ WorldStands

\* ProbeAll: every target gets a result, on a dead context a timeout.
Outcomes(h, token, dead) ==
  IF dead THEN {"timeout"} ELSE {Classify(r) : r \in Answers(h, token)}

ProbeAll(p) ==
  /\ At(p, "probing")
  /\ LET hosts == DOMAIN TargetsOf(p)
         of(h) == Outcomes(h, TargetsOf(p)[h], probe[p].dead)
     IN \E classes \in [hosts -> UNION {of(h) : h \in hosts}] :
          /\ \A h \in hosts : classes[h] \in of(h)
          /\ probe' = [probe EXCEPT ![p].found = [h \in hosts |-> [class |-> classes[h], at |-> clock]]]
  /\ Continue(p, "save")
  /\ UNCHANGED <<failures, results, lastEvent, disturbed>> /\ WorldStands

Stored(h, new) ==
  LET old == results[h]
  IN CASE old = NoResult -> [at |-> new.at, classes |-> {new.class}]
       [] old # NoResult /\ new.at > old.at -> [at |-> new.at, classes |-> {new.class}]
       [] old # NoResult /\ new.at = old.at -> [old EXCEPT !.classes = @ \cup {new.class}]
       [] OTHER -> old

\* Mutation of MaySave: the results are saved on a context of their own.
MaySaveAlways(p) == TRUE

\* AddProbeResults needs the context the probes ran on.
MaySave(p) == ~probe[p].dead

SaveResults(p) ==
  LET found == probe[p].found
  IN /\ At(p, "save")
     /\ \/ /\ MaySave(p)
           /\ results' = [h \in Hosts |->
                IF h \in DOMAIN found THEN Stored(h, found[h]) ELSE results[h]]
           /\ disturbed' = (disturbed \/ \E h \in DOMAIN found : Cardinality(results'[h].classes) > 1)
           /\ Continue(p, "events")
           /\ UNCHANGED <<failures, probe>>
        \/ ProbeFails(p) /\ RoundEnds(p) /\ UNCHANGED <<results, disturbed>>
     /\ UNCHANGED lastEvent /\ WorldStands

\* Mutation of Changed: a first result is not an event.
ChangedOnly(p) ==
  {h \in DOMAIN probe[p].found :
     probe[p].previous[h] \notin {NoResult, probe[p].found[h].class}}

\* The hosts whose class is not the one read before probing.
Changed(p) ==
  {h \in DOMAIN probe[p].found : probe[p].previous[h] # probe[p].found[h].class}

\* A failed write of the events is logged and they are lost.
AppendProbeEvents(p) ==
  /\ At(p, "events")
  /\ \/ /\ ~probe[p].dead
        /\ lastEvent' = [h \in Hosts |->
             IF h \in Changed(p) THEN probe[p].found[h].class ELSE lastEvent[h]]
        /\ UNCHANGED <<failures, disturbed>>
     \/ /\ ProbeFails(p)
        /\ disturbed' = (disturbed \/ Changed(p) # {})
        /\ UNCHANGED lastEvent
  /\ RoundEnds(p)
  /\ UNCHANGED results /\ WorldStands

\* The process dies, with its audits and its rounds.
ProcessDies ==
  /\ \E p \in Probers : ~At(p, "idle")
  /\ AuditFails
  /\ AuditsDie
  /\ probePc' = [p \in Probers |-> "idle"]
  /\ probe' = [p \in Probers |-> NoProbe]
  /\ disturbed' = (disturbed \/ \E p \in Probers : At(p, "events") /\ Changed(p) # {})
  /\ UNCHANGED <<path, pathChanges, clock, probeTables, rounds, account, changes, tunnels,
                 auditTables, audits, settled>>

ProbeStep(p) ==
  \/ BeginRound(p) \/ ContextEnds(p) \/ ReadIngress(p) \/ ReadAuditAt(p) \/ ReadApps(p)
  \/ NothingToProbe(p) \/ ReadPrevious(p) \/ ProbeAll(p) \/ SaveResults(p) \/ AppendProbeEvents(p)

RoundsNext ==
  \/ \E h \in Hosts : PathChanges(h)
  \/ IngressChanges
  \/ SecondPasses
  \/ \E p \in Probers : ProbeStep(p)
  \/ ProcessDies

\* The rounds beside the audits.
ProbeNext == RoundsNext \/ (AuditNext /\ UNCHANGED probeVars)

ProbeSpec == AuditInit /\ ProbeInit /\ [][ProbeNext]_<<auditVars, probeVars>>

-----------------------------------------------------------------------------
(* What a tunnel's card makes of the latest results. *)

\* "http_error" and the failures to connect other than the timeout do not occur
\* here.
ProbeClassRank(class) ==
  CASE class = "tunnel_down" -> 6 [] class = "origin_error" -> 5 [] class = "timeout" -> 4
    [] class = "access_denied" -> 2 [] class \in {"access_challenge", "edge_cached"} -> 1
    [] OTHER -> 0

\* The most serious of the classes seen along the rules, the first of equals;
\* none where all rank nought.
WorstProbeClass(classes) ==
  LET rank == [i \in DOMAIN classes |-> ProbeClassRank(classes[i])]
      ranked == {i \in DOMAIN classes : rank[i] > 0}
      worst == CHOOSE i \in ranked : \A j \in ranked :
                 rank[j] < rank[i] \/ (rank[j] = rank[i] /\ i <= j)
  IN IF ranked = {} THEN "" ELSE classes[worst]

\* probeSummary: hosts that were never checked count in `total` only.
ProbeSummary(rules, latest) ==
  LET probeable == {i \in 1..Len(rules) : rules[i].http}
      seen == {i \in probeable : latest[rules[i].host] # NoResult}
      hosts(of) == {rules[i].host : i \in of}
  IN [total |-> Cardinality(hosts(probeable)), checked |-> Cardinality(hosts(seen)),
      ok |-> Cardinality({h \in hosts(seen) : latest[h] = "ok"}),
      worst |-> WorstProbeClass([i \in seen |-> latest[rules[i].host]])]

-----------------------------------------------------------------------------
ProbeTypeOK ==
  /\ path \in [Hosts -> Paths] /\ ingress \in Ingresses
  /\ results \in [Hosts -> StoredResult \cup {NoResult}]
  /\ lastEvent \in [Hosts -> Classes \cup {NoResult}]
  /\ \A p \in Probers : probe[p].public \subseteq Hosts /\ DOMAIN probe[p].found \subseteq Hosts

\* The event log tells the class of every host: between rounds the last probe
\* event of a host ends in the class of its latest stored result.  It does so
\* whatever the paths, the ingress table and the inventory do, and across
\* failed queries, unless rounds overlapped, two results of one host fell into
\* the same second, or the process died or the write failed between the
\* results and their events.
ProbeEventsReplay ==
  ~disturbed => \A h \in Hosts :
    (\A p \in Probers : ~At(p, "events")) => Latest(h) = {lastEvent[h]}

\* Hosts that no account has an application for.
Never == {h \in Hosts : \A acc \in Accounts : h \notin Protected(AppsOf(acc))}

\* "every target carries the token ... a hostname that is in fact guarded would
\* otherwise never be probed past the login page": a host that always had an
\* application is never sent a request without the service token, however
\* audits and rounds interleave, fail and crash; and a host that never had one
\* is never sent the token in a round that began after an audit was recorded.
TokenFollowsInventory ==
  \A p \in Probers :
    probePc[p] \in {"probing", "save", "events"} =>
      \A h \in DOMAIN TargetsOf(p) :
        /\ h \in Steady => TargetsOf(p)[h] = HasServiceToken
        /\ probe[p].informed /\ h \in Never => ~TargetsOf(p)[h]

\* "an aborted request cannot record a spurious failure": a stored timeout was
\* measured; the timeouts a cancelled round makes up for its targets are not,
\* and no card shows one.  A card shows a problem exactly when a host that was
\* checked has one, so that a partly probed tunnel does not look like a failing
\* one, nor a failing one like a healthy one.
TimeoutsAreMeasured ==
  \A latest \in [Hosts -> UNION {Latest(h) : h \in Hosts}] :
    (\A h \in Hosts : latest[h] \in Latest(h)) =>
      LET card == ProbeSummary(ingress, latest)
      IN /\ pathChanges = 0 => card.worst # "timeout" /\ \A h \in Hosts : latest[h] # "timeout"
         /\ card.worst = "" <=> card.ok = card.checked
=============================================================================
