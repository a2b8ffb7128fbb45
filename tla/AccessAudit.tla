---------------------------- MODULE AccessAudit ----------------------------
(***************************************************************************)
(* The audit of the account's Cloudflare Access setup (AuditAccess) and of *)
(* its tunnel alerts (auditAlerts).                                        *)
(*                                                                         *)
(* One audit reads the applications, then the policies of each, replaces   *)
(* the stored inventory, does the same with the service tokens, sets the   *)
(* time of the last audit and at last works out which tunnels Cloudflare   *)
(* itself would alert on.  The hourly loop and the refresh buttons audit   *)
(* on goroutines of their own, so that audits overlap each other and the   *)
(* changes made in the account meanwhile; every read and every write is a  *)
(* step.                                                                   *)
(***************************************************************************)
EXTENDS FiniteSets, Naturals

CONSTANTS
  Hosts,              \* hostnames an application may protect
  Apps,               \* ids of the applications an account may hold
  Tunnels,            \* tunnels of the account
  Accounts,           \* the states of the Cloudflare account that are tried
  NoApp,              \* no application
  Auditors,           \* goroutines that may run AuditAccess
  MaxAudits,          \* bound: audits begun
  MaxAccountChanges,  \* bound: changes of the account or of the stored tunnels
  MaxAuditFailures    \* bound: failed calls, queries and crashes

VARIABLES
  account, changes, failures,                  \* the world
  tunnels,                                     \* tunnels a poll has stored
  apps, tokens, auditAt, coverage,             \* tables and settings
  auditPc, audit, audits,                      \* the running audits
  settled                                      \* history, see InventorySettles

auditTables == <<apps, tokens, auditAt, coverage>>
auditRuns == <<auditPc, audit, audits>>
auditVars == <<account, changes, failures, tunnels, auditTables, auditRuns, settled>>

Policies == {"bypass", "service_token", "allow"}

\* An application of the account is for whole hosts and for paths of hosts; a
\* stored one has the hosts of either kind and the summary of its policies.
\* The numbers stand for names, in their order.
App == [name: Nat, hosts: SUBSET Hosts, paths: SUBSET Hosts, policies: SUBSET Policies]
Summary == [name: Nat, domains: SUBSET Hosts, bypass: BOOLEAN, token: BOOLEAN, count: Nat]

IsBypass(policy) == policy = "bypass"
HasServiceTokenRule(policy) == policy = "service_token"

ASSUME AccountAssumption == \A acc \in Accounts : acc.apps \in [Apps -> App \cup {NoApp}]
ASSUME NoAppAssumption == NoApp \notin Summary

\* Domains strips the paths, so that several applications may have one host.
Domains(app) == app.hosts \cup app.paths

\* The row of an application whose policies were not read, and of one whose were.
Unsummarised(app) ==
  [name |-> app.name, domains |-> Domains(app), bypass |-> FALSE, token |-> FALSE, count |-> 0]
Summarised(row, policies) ==
  [row EXCEPT !.bypass = \E p \in policies : IsBypass(p),
              !.token = \E p \in policies : HasServiceTokenRule(p),
              !.count = Cardinality(policies)]

\* A notification policy; an empty filter stands for every tunnel.
Covers(policy, t) ==
  policy.enabled /\ (policy.filter = {} \/ t \in policy.filter)
DeliversTo(policy) == policy.destinations
AlertedOn(policies, t) ==
  \E p \in policies : p.type = "health" /\ Covers(p, t) /\ DeliversTo(p) > 0

\* The rows an audit makes of an account that stands still.
AppsOf(acc) ==
  [i \in Apps |-> IF acc.apps[i] = NoApp THEN NoApp
                  ELSE Summarised(Unsummarised(acc.apps[i]), acc.apps[i].policies)]

\* The hosts that some stored application has among its domains.
Present(rows) == {i \in Apps : rows[i] # NoApp}
Protected(rows) == UNION {rows[i].domains : i \in Present(rows)}

NoAudit == [found |-> [i \in Apps |-> NoApp], todo |-> {}, tokens |-> {},
            policies |-> {}, readable |-> TRUE, covered |-> {}, clean |-> FALSE]

\* The database is new, or holds what an earlier process has left.
NewDatabase ==
  /\ tunnels = {} /\ tokens = {} /\ auditAt = FALSE
  /\ apps = [i \in Apps |-> NoApp]
  /\ coverage = [readable |-> FALSE, covered |-> {}]

AuditedDatabase ==
  /\ tunnels = Tunnels /\ tokens = account.tokens /\ auditAt = TRUE
  /\ apps = AppsOf(account)
  /\ coverage = [readable |-> TRUE, covered |-> {t \in tunnels : AlertedOn(account.alerts, t)}]

AuditInit ==
  /\ account \in Accounts
  /\ changes = 0 /\ failures = 0
  /\ NewDatabase \/ AuditedDatabase
  /\ auditPc = [a \in Auditors |-> "idle"]
  /\ audit = [a \in Auditors |-> NoAudit]
  /\ audits = 0
  /\ settled = FALSE

-----------------------------------------------------------------------------
(* The account and the poll, which stores a tunnel or drops it. *)

Unsettle ==
  /\ changes < MaxAccountChanges
  /\ changes' = changes + 1
  /\ settled' = FALSE
  /\ audit' = [a \in Auditors |-> [audit[a] EXCEPT !.clean = FALSE]]

AccountChanges ==
  /\ Unsettle
  /\ account' \in Accounts \ {account}
  /\ UNCHANGED <<failures, tunnels, auditTables, auditPc, audits>>

PollStores(t) ==
  /\ Unsettle
  /\ tunnels' = IF t \in tunnels THEN tunnels \ {t} ELSE tunnels \cup {t}
  /\ UNCHANGED <<account, failures, auditTables, auditPc, audits>>

-----------------------------------------------------------------------------
(* The steps of an audit. *)

Goto(a, label) == auditPc' = [auditPc EXCEPT ![a] = label]
AuditDone(a) == Goto(a, "idle") /\ audit' = [audit EXCEPT ![a] = NoAudit]

\* An error of the current step.
AuditFails == failures < MaxAuditFailures /\ failures' = failures + 1

BeginAudit(a) ==
  /\ auditPc[a] = "idle" /\ audits < MaxAudits
  /\ audits' = audits + 1
  /\ Goto(a, "apps")
  /\ audit' = [audit EXCEPT ![a].clean = TRUE]
  /\ UNCHANGED <<account, changes, failures, tunnels, auditTables, settled>>

\* The applications are stored as they were listed, but for their policies.
Listed == [i \in Apps |-> IF account.apps[i] = NoApp THEN NoApp ELSE Unsummarised(account.apps[i])]

ListApps(a) ==
  /\ auditPc[a] = "apps"
  /\ \/ /\ Goto(a, "policies")
        /\ audit' = [audit EXCEPT ![a].todo = Present(account.apps), ![a].found = Listed]
        /\ UNCHANGED failures
     \/ AuditFails /\ AuditDone(a)
  /\ UNCHANGED <<account, changes, tunnels, auditTables, audits, settled>>

\* The policies are read one application after the other, in the order of the list.
NextApp(a) == CHOOSE i \in audit[a].todo : TRUE

Readable(a, i) ==
  [audit[a] EXCEPT !.todo = @ \ {i}, !.found[i] = Summarised(@, account.apps[i].policies)]

\* Mutation of Unreadable: the application is skipped.
UnreadableSkipped(a, i) == [audit[a] EXCEPT !.todo = @ \ {i}, !.clean = FALSE, !.found[i] = NoApp]

\* An application whose policies cannot be read is kept without any.  One that
\* was deleted since it was listed cannot be read either.
Unreadable(a, i) == [audit[a] EXCEPT !.todo = @ \ {i}, !.clean = FALSE]

ListPolicies(a) ==
  /\ auditPc[a] = "policies" /\ audit[a].todo # {}
  /\ LET i == NextApp(a)
     IN \/ /\ account.apps[i] # NoApp
           /\ audit' = [audit EXCEPT ![a] = Readable(a, i)]
           /\ UNCHANGED failures
        \/ /\ IF account.apps[i] = NoApp THEN UNCHANGED failures ELSE AuditFails
           /\ audit' = [audit EXCEPT ![a] = Unreadable(a, i)]
  /\ UNCHANGED <<account, changes, tunnels, auditTables, auditPc, audits, settled>>

\* What an audit writes: one that is not clean leaves tables that may differ
\* from the account, and spoils the result of the audits running beside it.
Writes(a) ==
  IF audit[a].clean
  THEN UNCHANGED <<audit, settled>>
  ELSE /\ settled' = FALSE
       /\ audit' = [b \in Auditors |-> [audit[b] EXCEPT !.clean = FALSE]]

\* Mutation of Replaced: the old rows are not deleted.
ReplacedWithoutDelete(a) == [i \in Apps |-> IF audit[a].found[i] = NoApp THEN apps[i] ELSE audit[a].found[i]]

\* ReplaceAccessApps: one transaction deletes every row and inserts the new ones.
Replaced(a) == audit[a].found

ReplaceAccessApps(a) ==
  /\ auditPc[a] = "policies" /\ audit[a].todo = {}
  /\ \/ /\ apps' = Replaced(a)
        /\ Goto(a, "tokens") /\ Writes(a)
        /\ UNCHANGED failures
     \/ AuditFails /\ AuditDone(a) /\ UNCHANGED <<apps, settled>>
  /\ UNCHANGED <<account, changes, tunnels, tokens, auditAt, coverage, audits>>

\* A failed list keeps the stored tokens and the audit goes on.
ListServiceTokens(a) ==
  /\ auditPc[a] = "tokens"
  /\ \/ /\ Goto(a, "saveTokens")
        /\ audit' = [audit EXCEPT ![a].tokens = account.tokens]
        /\ UNCHANGED failures
     \/ AuditFails /\ Goto(a, "auditAt") /\ audit' = [audit EXCEPT ![a].clean = FALSE]
  /\ UNCHANGED <<account, changes, tunnels, auditTables, audits, settled>>

ReplaceServiceTokens(a) ==
  /\ auditPc[a] = "saveTokens"
  /\ \/ /\ tokens' = audit[a].tokens
        /\ Goto(a, "auditAt") /\ Writes(a)
        /\ UNCHANGED failures
     \/ AuditFails /\ AuditDone(a) /\ UNCHANGED <<tokens, settled>>
  /\ UNCHANGED <<account, changes, tunnels, apps, auditAt, coverage, audits>>

\* Only whether an audit has ever run is kept of its time.
SetAuditAt(a) ==
  /\ auditPc[a] = "auditAt"
  /\ \/ auditAt' = TRUE /\ Goto(a, "alerts") /\ UNCHANGED <<failures, audit>>
     \/ AuditFails /\ AuditDone(a) /\ UNCHANGED auditAt
  /\ UNCHANGED <<account, changes, tunnels, apps, tokens, coverage, audits, settled>>

\* A failed list means the coverage is unknown.
ListNotificationPolicies(a) ==
  /\ auditPc[a] = "alerts"
  /\ \/ /\ Goto(a, "tunnels")
        /\ audit' = [audit EXCEPT ![a].policies = account.alerts]
        /\ UNCHANGED failures
     \/ /\ AuditFails /\ Goto(a, "saveCoverage")
        /\ audit' = [audit EXCEPT ![a].readable = FALSE, ![a].clean = FALSE]
  /\ UNCHANGED <<account, changes, tunnels, auditTables, audits, settled>>

ReadTunnels(a) ==
  /\ auditPc[a] = "tunnels"
  /\ \/ /\ Goto(a, "saveCoverage")
        /\ audit' = [audit EXCEPT ![a].covered = {t \in tunnels : AlertedOn(audit[a].policies, t)}]
        /\ UNCHANGED failures
     \/ AuditFails /\ AuditDone(a)
  /\ UNCHANGED <<account, changes, tunnels, auditTables, audits, settled>>

\* The end of the audit.  It has settled the tables if it was clean.
SaveCoverage(a) ==
  /\ auditPc[a] = "saveCoverage"
  /\ \/ /\ coverage' = [readable |-> audit[a].readable, covered |-> audit[a].covered]
        /\ settled' = audit[a].clean
        /\ audit' = [b \in Auditors |->
             IF b = a THEN NoAudit ELSE [audit[b] EXCEPT !.clean = @ /\ audit[a].clean]]
        /\ Goto(a, "idle")
        /\ UNCHANGED failures
     \/ AuditFails /\ AuditDone(a) /\ UNCHANGED <<coverage, settled>>
  /\ UNCHANGED <<account, changes, tunnels, apps, tokens, auditAt, audits>>

\* The process dies and starts again: the tables survive.
AuditsDie ==
  /\ auditPc' = [a \in Auditors |-> "idle"]
  /\ audit' = [a \in Auditors |-> NoAudit]

AuditCrash ==
  /\ \E a \in Auditors : auditPc[a] # "idle"
  /\ AuditFails
  /\ AuditsDie
  /\ UNCHANGED <<account, changes, tunnels, auditTables, audits, settled>>

AuditStep(a) ==
  \/ BeginAudit(a) \/ ListApps(a) \/ ListPolicies(a) \/ ReplaceAccessApps(a)
  \/ ListServiceTokens(a) \/ ReplaceServiceTokens(a) \/ SetAuditAt(a)
  \/ ListNotificationPolicies(a) \/ ReadTunnels(a) \/ SaveCoverage(a)

AuditNext ==
  \/ AccountChanges
  \/ \E t \in Tunnels : PollStores(t)
  \/ \E a \in Auditors : AuditStep(a)
  \/ AuditCrash

-----------------------------------------------------------------------------
AuditTypeOK ==
  /\ account \in Accounts /\ tunnels \subseteq Tunnels
  /\ apps \in [Apps -> Summary \cup {NoApp}]
  /\ auditAt \in BOOLEAN /\ settled \in BOOLEAN
  /\ coverage.readable \in BOOLEAN /\ coverage.covered \subseteq Tunnels
  /\ \A a \in Auditors : audit[a].todo \subseteq Apps

\* Once an audit that began after the last change of the account and of the
\* stored tunnels has ended without an error, and until an audit that read
\* less than that writes again, the tables say exactly what the account holds:
\* no row of a deleted application stays, no bypass policy goes missing, and
\* the alert coverage is that of the tunnels stored now.
InventorySettles ==
  settled =>
    /\ auditAt
    /\ apps = AppsOf(account)
    /\ tokens = account.tokens
    /\ coverage = [readable |-> TRUE, covered |-> {t \in tunnels : AlertedOn(account.alerts, t)}]

\* Applications that the account holds whatever it changes to, and hosts that
\* then have one, though not always the same.
SteadyApps == {i \in Apps : \A acc \in Accounts : acc.apps[i] # NoApp}
Steady == {h \in Hosts : \A acc \in Accounts : h \in Protected(AppsOf(acc))}

\* "A single unreadable application must not void the whole audit": once there
\* is an audit time, every application the account never lost has a row, and
\* every host that always had some application has one among the rows,
\* whatever failed, overlapped or crashed.
SteadyAppsStayStored == auditAt => SteadyApps \subseteq Present(apps) /\ Steady \subseteq Protected(apps)
=============================================================================
