----------------------------- MODULE PageProofs -----------------------------
(***************************************************************************)
(* What the pages of the dashboard promise, for every account, every set   *)
(* of tunnels, hosts and rules, and any number of audits, polls and muted  *)
(* findings between the queries of one page; and what their figures, their *)
(* curves and their lists of events show, for every length of the tables   *)
(* behind them.                                                            *)
(*                                                                         *)
(* Three facts of the cards need the steps of the writers: what was read   *)
(* of the inventory was there, what was muted is on the list of what is    *)
(* muted or was restored since, and the rows have their types.  The rest   *)
(* follows from what was read.  The availability needs that the history    *)
(* tells each second's status and what a page has read of it meanwhile;    *)
(* the chart needs what its loop holds after each result; the event lists  *)
(* need that a goroutine's later events are not of an earlier time.        *)
(***************************************************************************)
EXTENDS Dashboard, ProbeRoundsProofs, FoldLemmas, Uptime, Quality, EventPages

-----------------------------------------------------------------------------
(* The types of the page. *)

DetailRec ==
  [status: TunnelStatuses \cup {"inactive"}, connectors: {d.connectors : d \in DetailRows} \cup {{}},
   connections: {d.connections : d \in DetailRows} \cup {<<>>}, rules: Seq(IngressRule), recent: Nat]

AppTables == (UNION {[S -> Summary] : S \in SUBSET Apps}) \cup {<<>>}

Codes ==
  {"tunnel_down", "tunnel_degraded", "tunnel_inactive", "no_connectors", "low_ha_connections",
   "single_colo", "version_drift", "config_drift", "flapping", "ingress_no_tls_verify",
   "ingress_localhost_origin", "access_unprotected", "access_bypass", "service_token_expiring",
   "no_cloudflare_alert"}

Refs == [code: Codes, tunnel: Tunnels, host: Hosts \cup {NoHost}]

ViewRec ==
  [tunnels: SUBSET Tunnels, details: [Tunnels -> DetailRec], apps: AppTables, tokens: TokenSets,
   ignored: SUBSET Refs, release: Releases \cup {NoRelease}, audited: BOOLEAN,
   coverage: [readable: BOOLEAN, covered: SUBSET Tunnels],
   muted: [Tunnels -> SUBSET Refs], informed: BOOLEAN]

ViewLabels == {"idle", "tunnels", "details", "apps", "ignored", "audit", "alerts", "history", "served"}

\* The tables that the pages read beside those of the audits.
TableTypes ==
  /\ details \in [Tunnels -> DetailRec]
  /\ release \in Releases \cup {NoRelease}
  /\ ignored \subseteq Refs
  /\ tokens \in TokenSets

ViewTypes == viewPc \in ViewLabels /\ view \in ViewRec

\* A page that began after an audit has an application on every host that
\* always has one.
InformedInv ==
  view.informed =>
    /\ auditAt
    /\ viewPc \in {"ignored", "audit", "alerts", "history", "served"} => Steady \subseteq AppDomains(view)

\* What hides a finding of the page is in the table, or was restored since; and
\* on a tunnel's page it is on the list.
MutedInv ==
  /\ viewPc \in {"audit", "alerts", "history"} => view.ignored \subseteq ignored \cup restored
  /\ viewPc = "served" =>
       \A r \in view.ignored : r \in view.muted[r.tunnel] \cup restored

PageInv == AuditTypes /\ SteadyInv /\ TableTypes /\ ViewTypes /\ InformedInv /\ MutedInv

-----------------------------------------------------------------------------
(* The findings. *)

\* The rules looked at are rules of a host.
LEMMA CheckedRules ==
  ASSUME NEW rules \in Seq(IngressRule), NEW r \in Checked(rules)
  PROVE  r \in IngressRule /\ r \in ToSet(rules) /\ r.host \in Hosts
<1>1. r \in ToSet(rules) /\ r.host # NoHost
  BY DEF Checked
<1>2. PICK i \in DOMAIN rules : r = rules[i]
  BY <1>1 DEF ToSet
<1>3. rules[i] \in IngressRule
  OBVIOUS
<1>4. QED BY <1>1, <1>2, <1>3 DEF IngressRule

\* Every kind of finding has its own code, and its host is that of a rule.
LEMMA FindingKinds ==
  ASSUME NEW in, in.rules \in Seq(IngressRule), NEW f \in Evaluate(in)
  PROVE  /\ f.code \in Codes /\ f.host \in Hosts \cup {NoHost}
         /\ f = Finding(f.code, f.severity, f.host, f.about)
         /\ f.code = "access_unprotected" => f \in EvaluateAccessCoverage(in)
         /\ f.code = "access_bypass" => f \in EvaluateAccessBypass(in)
         /\ f.code = "service_token_expiring" => f \in EvaluateServiceTokens(in)
         /\ f.code = "version_drift" =>
              in.status # "inactive" /\ f \in {OnTunnel("version_drift", "warning", c.id) : c \in Drifted(in)}
<1>1. \A r \in Checked(in.rules) : r.host \in Hosts
  BY CheckedRules
<1>2. CASE f \in StatusFindings(in)
  BY <1>2 DEF StatusFindings, When, OnTunnel, Finding, Codes
<1>3. CASE in.status # "inactive" /\ f \in EvaluateConnectivity(in)
  BY <1>3 DEF EvaluateConnectivity, When, OnTunnel, Finding, Codes
<1>4. CASE f \in When(in.recent > FlapThreshold, OnTunnel("flapping", "warning", NoHost))
  BY <1>4 DEF When, OnTunnel, Finding, Codes
<1>5. CASE f \in EvaluateIngress(in)
  BY <1>1, <1>5 DEF EvaluateIngress, Finding, Codes
<1>6. CASE f \in EvaluateAccessCoverage(in)
  BY <1>1, <1>6 DEF EvaluateAccessCoverage, Finding, Codes
<1>7. CASE f \in EvaluateAccessBypass(in)
  BY <1>1, <1>7 DEF EvaluateAccessBypass, Finding, Codes
<1>8. CASE f \in EvaluateServiceTokens(in)
  BY <1>8 DEF EvaluateServiceTokens, OnTunnel, Finding, Codes
<1>9. CASE f \in EvaluateAlertCoverage(in)
  BY <1>9 DEF EvaluateAlertCoverage, When, OnTunnel, Finding, Codes
<1>10. QED BY <1>2, <1>3, <1>4, <1>5, <1>6, <1>7, <1>8, <1>9 DEF Evaluate

\* The findings of a code are those the page evaluates.
LEMMA KindsListed ==
  ASSUME NEW in
  PROVE  /\ EvaluateAccessCoverage(in) \subseteq Evaluate(in)
         /\ EvaluateAccessBypass(in) \subseteq Evaluate(in)
         /\ EvaluateServiceTokens(in) \subseteq Evaluate(in)
         /\ in.status # "inactive" =>
              {OnTunnel("version_drift", "warning", c.id) : c \in Drifted(in)} \subseteq Evaluate(in)
<1>1. in.status # "inactive" =>
        {OnTunnel("version_drift", "warning", c.id) : c \in Drifted(in)} \subseteq Evaluate(in)
  <2> SUFFICES ASSUME in.status # "inactive", NEW c \in Drifted(in)
               PROVE  OnTunnel("version_drift", "warning", c.id) \in Evaluate(in)
    OBVIOUS
  <2>1. in.connectors # {}
    BY DEF Drifted
  <2>2. OnTunnel("version_drift", "warning", c.id) \in EvaluateConnectivity(in)
    BY <2>1 DEF EvaluateConnectivity
  <2>3. QED BY <2>2 DEF Evaluate
<1>2. QED BY <1>1 DEF Evaluate

-----------------------------------------------------------------------------
(* The writers keep the types. *)

\* Beside the pages the audits take the steps of AuditAccess, or stand still.
LEMMA PagesBesideAudits ==
  ASSUME [DashNext]_dashVars
  PROVE  AuditMove
<1>1. CASE BuildView
  BY <1>1 DEF BuildView, BeginView, LoadTunnels, LoadDetails, LoadApps, LoadIgnored, LoadAudit, LoadAlerts,
     LoadHistory, CloseView, ViewStep, auditVars, auditRuns, AuditMove, AuditStill
<1>2. CASE DashWorld
  <2>1. (\E t \in Tunnels : PollStores(t)) \/ UNCHANGED auditVars
    BY <1>2 DEF DashWorld, TunnelComesOrGoes, TunnelSaved, TunnelSynced, CheckRelease, IgnoreFinding,
       RestoreFinding
  <2>2. QED BY <2>1 DEF AuditMove, AuditNext, AuditStill, auditVars, auditRuns
<1>3. CASE DashAudit
  BY <1>3 DEF DashAudit, AuditMove, AuditNext
<1>4. CASE DashCrash
  BY <1>4 DEF DashCrash, AuditMove, AuditNext
<1>5. CASE UNCHANGED dashVars
  BY <1>5 DEF dashVars, auditVars, auditRuns, AuditMove, AuditStill
<1>6. QED BY <1>1, <1>2, <1>3, <1>4, <1>5 DEF DashNext

\* The stored tokens are those the account had at some time, or none.
LEMMA TokensStep ==
  ASSUME AuditTypes, tokens \in TokenSets, AuditMove
  PROVE  tokens' \in TokenSets
<1>1. ASSUME NEW a \in Auditors, AuditStep(a) PROVE tokens' \in TokenSets
  <2>1. audit[a].tokens \in TokenSets
    BY DEF AuditTypes, AuditRec, AuditVariables
  <2>2. CASE BeginAudit(a) \/ ListApps(a) \/ ListPolicies(a)
    BY <2>2 DEF BeginAudit, ListApps, ListPolicies, auditTables
  <2>3. CASE ReplaceAccessApps(a) \/ ListServiceTokens(a) \/ ReplaceServiceTokens(a)
    BY <2>1, <2>3 DEF ReplaceAccessApps, ListServiceTokens, ReplaceServiceTokens, auditTables
  <2>4. CASE SetAuditAt(a) \/ ListNotificationPolicies(a) \/ ReadTunnels(a) \/ SaveCoverage(a)
    BY <2>4 DEF SetAuditAt, ListNotificationPolicies, ReadTunnels, SaveCoverage, auditTables
  <2>5. QED BY <1>1, <2>2, <2>3, <2>4 DEF AuditStep
<1>2. CASE AccountChanges \/ \E t \in Tunnels : PollStores(t)
  BY <1>2 DEF AccountChanges, PollStores, auditTables
<1>3. CASE AuditStill \/ Death
  BY <1>3 DEF AuditStill, Death, auditTables
<1>4. QED BY <1>1, <1>2, <1>3, MoveCases

LEMMA NoDetailsType == NoDetails \in DetailRec
<1>1. <<>> \in Seq(IngressRule)
  OBVIOUS
<1>2. QED BY <1>1 DEF NoDetails, DetailRec

\* The rows of a finding that a page lists.
LEMMA RefType ==
  ASSUME ViewTypes, NEW t \in Tunnels, NEW public, NEW f \in Evaluate(HealthInput(t, view, public))
  PROVE  Ref(f, t) \in Refs
<1>1. view.details[t].rules \in Seq(IngressRule)
  BY DEF ViewTypes, ViewRec, DetailRec
<1>2. HealthInput(t, view, public).rules \in Seq(IngressRule)
  BY <1>1 DEF HealthInput
<1>3. f.code \in Codes /\ f.host \in Hosts \cup {NoHost}
  BY <1>2, FindingKinds
<1>4. QED BY <1>3 DEF Ref, Refs

LEMMA TransitionType ==
  ASSUME NEW d \in DetailRec, NEW s \in TunnelStatuses
  PROVE  WithTransition(d, s) \in DetailRec
<1> DEFINE n == d.recent + 1
<1>1. n \in Nat
  BY DEF DetailRec
<1>2. WithTransition(d, s) = [d EXCEPT !.status = s, !.recent = n]
  BY DEF WithTransition
<1> HIDE DEF n
<1>3. [d EXCEPT !.status = s, !.recent = n] \in DetailRec
  BY <1>1 DEF DetailRec
<1>4. QED BY <1>2, <1>3

\* The rows a page reads keep their types, whoever writes them.
LEMMA TableStep ==
  ASSUME PageInv, [DashNext]_dashVars
  PROVE  TableTypes'
<1>1. tokens' \in TokenSets
  BY PagesBesideAudits, TokensStep DEF PageInv, TableTypes
<1>2. CASE UNCHANGED <<details, release, ignored>>
  BY <1>1, <1>2 DEF PageInv, TableTypes
<1>3. ASSUME NEW t \in Tunnels, TunnelComesOrGoes(t) PROVE TableTypes'
  <2>1. PICK s \in TunnelStatuses :
          details' = [details EXCEPT ![t] =
             IF t \in tunnels THEN NoDetails ELSE [NoDetails EXCEPT !.status = s, !.recent = 1]]
    BY <1>3 DEF TunnelComesOrGoes
  <2>2. NoDetails \in DetailRec /\ [NoDetails EXCEPT !.status = s, !.recent = 1] \in DetailRec
    BY NoDetailsType DEF DetailRec
  <2>3. details' \in [Tunnels -> DetailRec]
    BY <2>1, <2>2 DEF PageInv, TableTypes
  <2>4. QED BY <1>1, <1>3, <2>3 DEF TunnelComesOrGoes, PageInv, TableTypes
<1>4. ASSUME NEW t \in Tunnels, NEW s \in TunnelStatuses, TunnelSaved(t, s) PROVE TableTypes'
  <2>1. details' = [details EXCEPT ![t] = WithTransition(details[t], s)]
    BY <1>4 DEF TunnelSaved
  <2>2. details[t] \in DetailRec
    BY DEF PageInv, TableTypes
  <2>3. WithTransition(details[t], s) \in DetailRec
    BY <2>2, TransitionType
  <2>4. details' \in [Tunnels -> DetailRec]
    BY <2>1, <2>3 DEF PageInv, TableTypes
  <2>5. QED BY <1>1, <1>4, <2>4 DEF TunnelSaved, PageInv, TableTypes
<1>5. ASSUME NEW t \in Tunnels, NEW row \in DetailRows, TunnelSynced(t, row) PROVE TableTypes'
  <2>1. details[t] \in DetailRec /\ row.rules \in Seq(IngressRule)
    BY DashAssumption DEF PageInv, TableTypes
  <2>2. [details[t] EXCEPT !.connectors = row.connectors, !.connections = row.connections, !.rules = row.rules]
          \in DetailRec
    BY <2>1 DEF DetailRec
  <2>3. details' = [details EXCEPT ![t] =
          [details[t] EXCEPT !.connectors = row.connectors, !.connections = row.connections, !.rules = row.rules]]
    BY <1>5 DEF TunnelSynced, PageInv, TableTypes
  <2>4. details' \in [Tunnels -> DetailRec]
    BY <2>2, <2>3 DEF PageInv, TableTypes
  <2>5. QED BY <1>1, <1>5, <2>4 DEF TunnelSynced, PageInv, TableTypes
<1>6. CASE CheckRelease
  BY <1>1, <1>6 DEF CheckRelease, LookupAnswers, LatestTag, PageInv, TableTypes
<1>7. ASSUME NEW t \in view.tunnels, NEW f \in VisibleFindings(t), IgnoreFinding(t, f) PROVE TableTypes'
  <2>1. t \in Tunnels
    BY DEF PageInv, ViewTypes, ViewRec
  <2>2. f \in Evaluate(HealthInput(t, view, EffectivePublic(view.ignored)))
    BY DEF VisibleFindings, FindingsFor
  <2>3. Ref(f, t) \in Refs
    BY <2>1, <2>2, RefType DEF PageInv
  <2>4. QED BY <1>1, <1>7, <2>3 DEF IgnoreFinding, WithMute, PageInv, TableTypes
<1>8. ASSUME NEW r \in ignored, RestoreFinding(r) PROVE TableTypes'
  BY <1>1, <1>8 DEF RestoreFinding, WithoutMute, PageInv, TableTypes
<1>9. CASE BuildView
  BY <1>2, <1>9 DEF BuildView, BeginView, LoadTunnels, LoadDetails, LoadApps, LoadIgnored, LoadAudit, LoadAlerts,
     LoadHistory, CloseView, ViewStep, dashTables
<1>10. CASE DashAudit \/ DashCrash \/ UNCHANGED dashVars
  BY <1>2, <1>10 DEF DashAudit, DashCrash, dashVars, dashTables
<1>11. QED BY <1>3, <1>4, <1>5, <1>6, <1>7, <1>8, <1>9, <1>10 DEF DashNext, DashWorld

-----------------------------------------------------------------------------
(* The steps of a page. *)

\* Whoever writes beside a page leaves it alone, unless the process dies.
PageStill == UNCHANGED <<viewPc, view>>
PageLost == viewPc' = "idle" /\ view' = NoView

LEMMA PageCases ==
  ASSUME [DashNext]_dashVars
  PROVE  BuildView \/ PageStill \/ PageLost
<1>1. DashWorld => PageStill
  BY DEF DashWorld, TunnelComesOrGoes, TunnelSaved, TunnelSynced, CheckRelease, IgnoreFinding,
     RestoreFinding, viewVars, PageStill
<1>2. DashAudit => PageStill
  BY DEF DashAudit, viewVars, PageStill
<1>3. DashCrash => PageLost
  BY DEF DashCrash, PageLost
<1>4. UNCHANGED dashVars => PageStill
  BY DEF dashVars, viewVars, PageStill
<1>5. QED BY <1>1, <1>2, <1>3, <1>4 DEF DashNext

\* The applications that are read are those of the table.
LEMMA AppsRead ==
  ASSUME AuditTypes
  PROVE  /\ AccessApps \in AppTables /\ DOMAIN AccessApps = Present(apps)
         /\ UNION {AccessApps[i].domains : i \in DOMAIN AccessApps} = Protected(apps)
<1>1. Present(apps) \in SUBSET Apps /\ \A i \in Present(apps) : apps[i] \in Summary
  BY DEF AuditTypes, Present
<1>2. AccessApps \in [Present(apps) -> Summary] /\ \A i \in Present(apps) : AccessApps[i] = apps[i]
  BY <1>1 DEF AccessApps
<1>3. {AccessApps[i].domains : i \in Present(apps)} = {apps[i].domains : i \in Present(apps)}
  BY <1>2
<1>4. QED BY <1>1, <1>2, <1>3 DEF AppTables, Protected

LEMMA NoViewType == NoView \in ViewRec /\ ~NoView.informed
<1>1. {} \in TokenSets /\ <<>> \in AppTables
  <2>1. {} \in TokenSets
    BY DEF TokenSets
  <2>2. <<>> \in AppTables
    BY Zenon DEF AppTables
  <2>3. QED BY <2>1, <2>2
<1>2. [t \in Tunnels |-> NoDetails] \in [Tunnels -> DetailRec]
  BY NoDetailsType
<1>3. QED BY <1>1, <1>2 DEF NoView, ViewRec

\* The details that a page has read.
LEMMA DetailTypes ==
  ASSUME TableTypes, ViewTypes
  PROVE  /\ [t \in Tunnels |-> [NoDetails EXCEPT !.status = details[t].status]] \in [Tunnels -> DetailRec]
         /\ [t \in Tunnels |-> [details[t] EXCEPT !.status = view.details[t].status, !.recent = 0]]
              \in [Tunnels -> DetailRec]
         /\ [t \in Tunnels |-> [view.details[t] EXCEPT !.recent = details[t].recent]] \in [Tunnels -> DetailRec]
<1>1. ASSUME NEW d \in DetailRec, NEW e \in DetailRec
      PROVE  /\ [NoDetails EXCEPT !.status = d.status] \in DetailRec
             /\ [d EXCEPT !.status = e.status, !.recent = 0] \in DetailRec
             /\ [d EXCEPT !.recent = e.recent] \in DetailRec
  BY NoDetailsType DEF DetailRec
<1>2. \A t \in Tunnels : details[t] \in DetailRec /\ view.details[t] \in DetailRec
  BY DEF TableTypes, ViewTypes, ViewRec
<1>3. QED BY <1>1, <1>2

LEMMA ViewTypesStep ==
  ASSUME PageInv, [DashNext]_dashVars
  PROVE  ViewTypes'
<1>1. /\ AuditTypes /\ TableTypes /\ ViewTypes
      /\ view \in ViewRec
  BY DEF PageInv, ViewTypes
<1>2. CASE PageStill
  BY <1>1, <1>2 DEF PageStill, ViewTypes
<1>3. CASE PageLost
  BY <1>3, NoViewType DEF PageLost, ViewTypes, ViewLabels
<1>4. CASE BeginView
  BY <1>1, <1>4, NoViewType DEF BeginView, AuditTypes, ViewTypes, ViewLabels, ViewRec
<1>5. CASE LoadTunnels
  <2> DEFINE read == [t \in Tunnels |-> [NoDetails EXCEPT !.status = details[t].status]]
  <2>1. read \in [Tunnels -> DetailRec] /\ tunnels \subseteq Tunnels
    BY <1>1, DetailTypes DEF AuditTypes
  <2>2. view' = [view EXCEPT !.tunnels = tunnels, !.details = read] /\ viewPc' = "details"
    BY <1>5 DEF LoadTunnels, ViewStep
  <2> HIDE DEF read
  <2>3. QED BY <1>1, <2>1, <2>2 DEF ViewTypes, ViewLabels, ViewRec
<1>6. CASE LoadDetails
  <2> DEFINE read == [t \in Tunnels |-> [details[t] EXCEPT !.status = view.details[t].status, !.recent = 0]]
  <2>1. read \in [Tunnels -> DetailRec]
    BY <1>1, DetailTypes
  <2>2. view' = [view EXCEPT !.details = read] /\ viewPc' = "apps"
    BY <1>6 DEF LoadDetails, ViewStep
  <2> HIDE DEF read
  <2>3. QED BY <1>1, <2>1, <2>2 DEF ViewTypes, ViewLabels, ViewRec
<1>7. CASE LoadApps
  <2>1. AccessApps \in AppTables /\ tokens \in TokenSets
    BY <1>1, AppsRead DEF TableTypes
  <2>2. view' = [view EXCEPT !.apps = AccessApps, !.tokens = tokens] /\ viewPc' = "ignored"
    BY <1>7 DEF LoadApps, ViewStep
  <2>3. QED BY <1>1, <2>1, <2>2 DEF ViewTypes, ViewLabels, ViewRec
<1>8. CASE LoadIgnored
  BY <1>1, <1>8 DEF LoadIgnored, ViewStep, TableTypes, ViewTypes, ViewLabels, ViewRec
<1>9. CASE LoadAudit \/ LoadAlerts
  BY <1>1, <1>9 DEF LoadAudit, LoadAlerts, ViewStep, AuditTypes, ViewTypes, ViewLabels, ViewRec
<1>10. CASE LoadHistory
  <2> DEFINE read == [t \in Tunnels |-> [view.details[t] EXCEPT !.recent = details[t].recent]]
             listed == [t \in Tunnels |-> {r \in ignored : r.tunnel = t}]
  <2>1. read \in [Tunnels -> DetailRec] /\ listed \in [Tunnels -> SUBSET Refs]
    BY <1>1, DetailTypes DEF TableTypes
  <2>2. view' = [view EXCEPT !.details = read, !.muted = listed] /\ viewPc' = "served"
    BY <1>10 DEF LoadHistory, ViewStep
  <2> HIDE DEF read, listed
  <2>3. QED BY <1>1, <2>1, <2>2 DEF ViewTypes, ViewLabels, ViewRec
<1>11. CASE CloseView
  BY <1>11, NoViewType DEF CloseView, ViewTypes, ViewLabels
<1>12. QED BY <1>2, <1>3, <1>4, <1>5, <1>6, <1>7, <1>8, <1>9, <1>10, <1>11, PageCases DEF BuildView

\* An audit time, once there is one, stays; and the applications are read after
\* the page has begun.
LEMMA InformedStep ==
  ASSUME PageInv, [DashNext]_dashVars
  PROVE  InformedInv'
<1>1. auditAt => auditAt'
  BY PagesBesideAudits, AuditAtKept
<1>2. view \in ViewRec /\ InformedInv /\ SteadyInv /\ AuditTypes
  BY DEF PageInv, ViewTypes
<1>3. CASE PageStill
  BY <1>1, <1>2, <1>3 DEF PageStill, InformedInv
<1>4. CASE PageLost \/ CloseView
  BY <1>4, NoViewType DEF PageLost, CloseView, InformedInv
<1>5. CASE BeginView
  BY <1>1, <1>5, NoViewType DEF BeginView, InformedInv, ViewRec
<1>6. CASE LoadTunnels \/ LoadDetails
  BY <1>1, <1>2, <1>6 DEF LoadTunnels, LoadDetails, ViewStep, InformedInv, ViewRec
<1>7. CASE LoadApps
  <2>1. view'.informed = view.informed /\ view'.apps = AccessApps /\ viewPc' = "ignored"
    BY <1>2, <1>7 DEF LoadApps, ViewStep, ViewRec
  <2>2. auditAt => Steady \subseteq AppDomains(view')
    BY <1>2, <2>1, AppsRead DEF SteadyInv, Complete, AppDomains
  <2>3. QED BY <1>1, <1>2, <2>1, <2>2 DEF InformedInv
<1>8. CASE LoadIgnored \/ LoadAudit \/ LoadAlerts \/ LoadHistory
  <2>1. view'.informed = view.informed /\ view'.apps = view.apps
    BY <1>2, <1>8 DEF LoadIgnored, LoadAudit, LoadAlerts, LoadHistory, ViewRec
  <2>2. viewPc \in {"ignored", "audit", "alerts", "history"} /\ AppDomains(view') = AppDomains(view)
    BY <1>8, <2>1 DEF LoadIgnored, LoadAudit, LoadAlerts, LoadHistory, ViewStep, AppDomains
  <2>3. QED BY <1>1, <1>2, <2>1, <2>2 DEF InformedInv
<1>9. QED BY <1>3, <1>4, <1>5, <1>6, <1>7, <1>8, PageCases DEF BuildView

\* A mute that disappears from the table while a page is built was restored.
LEMMA RestoredStep ==
  ASSUME [DashNext]_dashVars, viewPc' # "idle", viewPc # "idle"
  PROVE  /\ ignored \cup restored \subseteq ignored' \cup restored'
         /\ restored \subseteq restored'
<1>1. CASE UNCHANGED <<ignored, restored>>
  BY <1>1
<1>2. CASE BuildView
  BY <1>1, <1>2 DEF BuildView, BeginView, LoadTunnels, LoadDetails, LoadApps, LoadIgnored, LoadAudit, LoadAlerts,
     LoadHistory, CloseView, ViewStep, dashTables
<1>3. ASSUME NEW r \in ignored, RestoreFinding(r)
      PROVE  ignored \cup restored \subseteq ignored' \cup restored' /\ restored \subseteq restored'
  BY <1>3 DEF RestoreFinding, WithoutMute
<1>4. CASE \E t \in view.tunnels : \E f \in VisibleFindings(t) : IgnoreFinding(t, f)
  BY <1>4 DEF IgnoreFinding, WithMute, viewVars
<1>5. CASE \/ \E t \in Tunnels : TunnelComesOrGoes(t)
           \/ \E t \in Tunnels, s \in TunnelStatuses : TunnelSaved(t, s)
           \/ \E t \in Tunnels, d \in DetailRows : TunnelSynced(t, d)
           \/ CheckRelease
  BY <1>1, <1>5 DEF TunnelComesOrGoes, TunnelSaved, TunnelSynced, CheckRelease, viewVars
<1>6. CASE DashAudit \/ UNCHANGED dashVars
  BY <1>1, <1>6 DEF DashAudit, dashVars, dashTables, viewVars
<1>7. CASE DashCrash
  BY <1>7 DEF DashCrash
<1>8. QED BY <1>2, <1>3, <1>4, <1>5, <1>6, <1>7 DEF DashNext, DashWorld

LEMMA MutedStep ==
  ASSUME PageInv, [DashNext]_dashVars
  PROVE  MutedInv'
<1>1. view \in ViewRec /\ MutedInv /\ TableTypes
  BY DEF PageInv, ViewTypes
<1>2. CASE PageStill
  BY <1>1, <1>2, RestoredStep DEF PageStill, MutedInv
<1>3. CASE PageLost \/ CloseView \/ BeginView \/ LoadTunnels \/ LoadDetails \/ LoadApps
  BY <1>3 DEF PageLost, CloseView, BeginView, LoadTunnels, LoadDetails, LoadApps, ViewStep, MutedInv
<1>4. CASE LoadIgnored
  <2>1. view'.ignored = ignored /\ ignored' = ignored /\ viewPc' = "audit"
    BY <1>1, <1>4 DEF LoadIgnored, ViewStep, ViewRec, dashTables
  <2>2. QED BY <2>1 DEF MutedInv
<1>5. CASE LoadAudit \/ LoadAlerts
  <2>1. /\ view'.ignored = view.ignored /\ ignored' = ignored /\ restored' = restored
        /\ viewPc' \in {"alerts", "history"} /\ viewPc \in {"audit", "alerts"}
    BY <1>1, <1>5 DEF LoadAudit, LoadAlerts, ViewStep, ViewRec, dashTables
  <2>2. QED BY <1>1, <2>1 DEF MutedInv
<1>6. CASE LoadHistory
  <2>1. /\ view'.ignored = view.ignored /\ ignored' = ignored /\ restored' = restored
        /\ viewPc' = "served" /\ viewPc = "history"
        /\ view'.muted = [t \in Tunnels |-> {r \in ignored : r.tunnel = t}]
    BY <1>1, <1>6 DEF LoadHistory, ViewStep, ViewRec, dashTables
  <2>2. \A r \in view.ignored : r.tunnel \in Tunnels /\ r \in ignored \cup restored
    BY <1>1, <2>1 DEF MutedInv, ViewRec, Refs
  <2>3. QED BY <2>1, <2>2 DEF MutedInv
<1>7. QED BY <1>2, <1>3, <1>4, <1>5, <1>6, PageCases DEF BuildView

LEMMA PageInit == AuditInit /\ DashInit => PageInv
<1> SUFFICES ASSUME AuditInit, DashInit PROVE PageInv
  OBVIOUS
<1>1. AuditTypes /\ SteadyInv
  BY AuditTypesInit, SteadyInit
<1>2. tokens \in TokenSets
  BY DEF AuditInit, NewDatabase, AuditedDatabase, TokenSets
<1>3. details \in [Tunnels -> DetailRec]
  <2>1. PICK s \in TunnelStatuses, d \in DetailRows :
          details = [t \in Tunnels |-> IF t \in tunnels THEN Polled(s, d) ELSE NoDetails]
    BY DEF DashInit
  <2>2. d.rules \in Seq(IngressRule)
    BY DashAssumption
  <2>3. Polled(s, d) \in DetailRec
    BY <2>2, NoDetailsType DEF Polled, DetailRec, FlapThreshold
  <2>4. QED BY <2>1, <2>3, NoDetailsType
<1>4. TableTypes /\ ViewTypes /\ InformedInv /\ MutedInv
  BY <1>2, <1>3, NoViewType DEF DashInit, TableTypes, ViewTypes, ViewLabels, InformedInv, MutedInv
<1>5. QED BY <1>1, <1>4 DEF PageInv

\* Audits, polls, browsers and the page itself keep all of it, and so does the
\* death of the process.
THEOREM PageInvariant == DashSpec => []PageInv
<1>1. PageInv /\ [DashNext]_dashVars => PageInv'
  <2>1. SUFFICES ASSUME PageInv, [DashNext]_dashVars PROVE PageInv'
    OBVIOUS
  <2>2. AuditTypes' /\ SteadyInv'
    BY <2>1, PagesBesideAudits, AuditTypesStep, SteadyStep DEF PageInv
  <2>3. QED BY <2>1, <2>2, TableStep, ViewTypesStep, InformedStep, MutedStep DEF PageInv
<1>2. QED BY <1>1, PageInit, PTL DEF DashSpec

\* Once an audit has run, no page lists a host as unprotected that has had an
\* application all along, whatever audits and polls write between the queries
\* of the page, and whatever fails.
THEOREM InformedPagesShowNoFalseGap == DashSpec => []NoFalseGapOnceAudited
<1>1. PageInv => NoFalseGapOnceAudited
  BY DEF PageInv, InformedInv, NoFalseGapOnceAudited, Served, UnprotectedRules
<1>2. QED BY <1>1, PageInvariant, PTL

-----------------------------------------------------------------------------
(* What is muted. *)

\* A finding that is evaluated with the configured exceptions, and not with the
\* muted ones as well, is about a host whose coverage finding is muted.
LEMMA ExceptionsOnly ==
  ASSUME ViewTypes, NEW t \in Tunnels, NEW f \in Evaluate(HealthInput(t, view, ExpectedPublic)),
         f \notin FindingsFor(t)
  PROVE  f.code = "access_unprotected" /\ \E u \in Tunnels : Ref(f, u) \in view.ignored
<1> DEFINE public == EffectivePublic(view.ignored)
           in == HealthInput(t, view, ExpectedPublic)
           muted == HealthInput(t, view, public)
<1>1. f \notin Evaluate(muted)
  BY DEF FindingsFor
<1>2. /\ in.status = muted.status /\ in.connectors = muted.connectors /\ in.connections = muted.connections
      /\ in.rules = muted.rules /\ in.recent = muted.recent /\ in.apps = muted.apps /\ in.tokens = muted.tokens
      /\ in.audited = muted.audited /\ in.coverage = muted.coverage /\ in.release = muted.release
      /\ in.tunnel = muted.tunnel
      /\ in.expectedPublic = ExpectedPublic /\ muted.expectedPublic = public
      /\ in.rules = view.details[t].rules
  BY DEF HealthInput
<1> HIDE DEF in, muted, public
<1>3. f \in EvaluateAccessCoverage(in)
  BY <1>1, <1>2 DEF in, Evaluate, StatusFindings, EvaluateConnectivity, EvaluateIngress, EvaluateAccessBypass,
     EvaluateServiceTokens, EvaluateAlertCoverage, Drifted, Lagging, AppDomains
<1>4. f \notin EvaluateAccessCoverage(muted)
  BY <1>1, KindsListed
<1>5. PICK r \in Checked(in.rules) :
        /\ in.audited /\ r.host \notin AppDomains(in) /\ r.host \notin ExpectedPublic
        /\ f = Finding("access_unprotected", "warning", r.host, NoHost)
  BY <1>2, <1>3 DEF EvaluateAccessCoverage
<1>6. r.host \in public
  <2>1. AppDomains(in) = AppDomains(muted)
    BY <1>2 DEF AppDomains
  <2>2. QED BY <1>2, <1>4, <1>5, <2>1 DEF EvaluateAccessCoverage
<1>7. PICK q \in view.ignored : q.code = "access_unprotected" /\ q.host = r.host
  BY <1>5, <1>6 DEF public, EffectivePublic
<1>8. q \in Refs
  BY DEF ViewTypes, ViewRec
<1>9. q = Ref(f, q.tunnel) /\ q.tunnel \in Tunnels
  BY <1>5, <1>7, <1>8 DEF Refs, Ref, Finding
<1>10. QED BY <1>5, <1>7, <1>9 DEF Finding

\* Nothing that a page leaves out is lost: it is on the page's list of muted
\* findings or was restored meanwhile, or it is a gap in the coverage whose
\* host some tunnel's mute makes an exception.
THEOREM HiddenCanBeRestored == DashSpec => []HiddenIsListed
<1>1. PageInv => HiddenIsListed
  <2> SUFFICES ASSUME PageInv, Served, NEW t \in view.tunnels,
                      NEW f \in Evaluate(HealthInput(t, view, ExpectedPublic)) \ VisibleFindings(t)
               PROVE  \/ Ref(f, t) \in view.muted[t] \cup restored
                      \/ f.code = "access_unprotected" /\ \E u \in Tunnels : Ref(f, u) \in view.ignored
    BY DEF HiddenIsListed
  <2>1. ViewTypes /\ t \in Tunnels
    BY DEF PageInv, ViewTypes, ViewRec
  <2>2. CASE f \notin FindingsFor(t)
    BY <2>1, <2>2, ExceptionsOnly
  <2>3. CASE f \in FindingsFor(t)
    <3>1. Ref(f, t) \in view.ignored
      BY <2>3 DEF VisibleFindings
    <3>2. Ref(f, t).tunnel = t
      BY DEF Ref
    <3>3. QED BY <3>1, <3>2 DEF PageInv, MutedInv, Served
  <2>4. QED BY <2>2, <2>3
<1>2. QED BY <1>1, PageInvariant, PTL

-----------------------------------------------------------------------------
(* The same fact in more than one place of a page. *)

RulesRead(t) == view.details[t].rules

LEMMA ReadTypes ==
  ASSUME ViewTypes, NEW t \in Tunnels
  PROVE  /\ RulesRead(t) \in Seq(IngressRule)
         /\ \A public : HealthInput(t, view, public).rules \in Seq(IngressRule)
         /\ \A r \in RulesOf(t) : r.host \in Hosts
<1>1. RulesRead(t) \in Seq(IngressRule)
  BY DEF ViewTypes, ViewRec, DetailRec, RulesRead
<1>2. \A r \in RulesOf(t) : r.host \in Hosts
  BY <1>1, CheckedRules DEF RulesOf, RulesRead
<1>3. QED BY <1>1, <1>2 DEF HealthInput, RulesRead

\* A gap is listed on a tunnel's card where a rule that is looked at has no
\* application and its host is no exception.
Gap(t, h) ==
  /\ view.audited /\ \E r \in RulesOf(t) : r.host = h
  /\ h \notin AppDomains(view) /\ h \notin EffectivePublic(view.ignored)

GapFinding(h) == Finding("access_unprotected", "warning", h, NoHost)

LEMMA GapsListed ==
  ASSUME ViewTypes, NEW t \in Tunnels
  PROVE  /\ \A h : Gap(t, h) => GapFinding(h) \in FindingsFor(t)
         /\ \A f \in FindingsFor(t) : f.code = "access_unprotected" => Gap(t, f.host) /\ f = GapFinding(f.host)
<1> DEFINE in == HealthInput(t, view, EffectivePublic(view.ignored))
<1>1. /\ in.rules = view.details[t].rules /\ in.apps = view.apps /\ in.audited = view.audited
      /\ in.expectedPublic = EffectivePublic(view.ignored) /\ AppDomains(in) = AppDomains(view)
      /\ in.rules \in Seq(IngressRule) /\ Checked(in.rules) = RulesOf(t)
  BY ReadTypes DEF HealthInput, RulesOf, AppDomains
<1>2. FindingsFor(t) = Evaluate(in)
  BY DEF FindingsFor
<1> HIDE DEF in
<1>3. ASSUME NEW h, Gap(t, h) PROVE GapFinding(h) \in EvaluateAccessCoverage(in)
  BY <1>1, <1>3 DEF Gap, GapFinding, EvaluateAccessCoverage
<1>4. ASSUME NEW f \in EvaluateAccessCoverage(in) PROVE Gap(t, f.host) /\ f = GapFinding(f.host)
  <2>1. PICK r \in Checked(in.rules) :
          /\ in.audited /\ r.host \notin AppDomains(in) /\ r.host \notin in.expectedPublic
          /\ f = Finding("access_unprotected", "warning", r.host, NoHost)
    BY <1>4 DEF EvaluateAccessCoverage
  <2>2. f.host = r.host
    BY <2>1 DEF Finding
  <2>3. QED BY <1>1, <2>1, <2>2 DEF Gap, GapFinding
<1>5. QED BY <1>1, <1>2, <1>3, <1>4, FindingKinds, KindsListed

LEMMA UnexpectedAreGaps ==
  ASSUME ViewTypes
  PROVE  \A t \in Tunnels : \A h : <<t, h>> \in UnexpectedRules <=> Gap(t, h)
<1> SUFFICES ASSUME NEW t \in Tunnels, NEW h PROVE <<t, h>> \in UnexpectedRules <=> Gap(t, h)
  OBVIOUS
<1>1. Gap(t, h) => h \in Hosts
  BY ReadTypes DEF Gap
<1>2. view.audited \in BOOLEAN
  BY DEF ViewTypes, ViewRec
<1>3. <<t, h>> \in UnprotectedRules <=>
        h \in Hosts /\ view.audited /\ (\E r \in RulesOf(t) : r.host = h) /\ h \notin AppDomains(view)
  BY <1>2 DEF UnprotectedRules
<1>4. QED BY <1>1, <1>3 DEF UnexpectedRules, Gap

\* The applications with a bypass policy on a host.
BypassesOn(h) == {i \in AppsOn(h) : view.audited /\ view.apps[i].bypass}

LEMMA BypassesListed ==
  ASSUME ViewTypes, NEW t \in Tunnels, NEW r \in RulesOf(t), NEW h, r.host = h
  PROVE  {f.about : f \in {g \in FindingsFor(t) : g.code = "access_bypass" /\ g.host = h}} = BypassesOn(h)
<1> DEFINE in == HealthInput(t, view, EffectivePublic(view.ignored))
<1>1. /\ in.apps = view.apps /\ in.audited = view.audited
      /\ in.rules \in Seq(IngressRule) /\ Checked(in.rules) = RulesOf(t)
  BY ReadTypes DEF HealthInput, RulesOf
<1>2. FindingsFor(t) = Evaluate(in)
  BY DEF FindingsFor
<1> HIDE DEF in
<1>3. ASSUME NEW i \in BypassesOn(h)
      PROVE  \E f \in FindingsFor(t) : f.code = "access_bypass" /\ f.host = h /\ f.about = i
  <2> DEFINE found == Finding("access_bypass", "warning", h, i)
             pair == <<r, i>>
  <2>1. /\ pair \in Checked(in.rules) \X DOMAIN in.apps /\ pair[1].host = h /\ pair[2] = i
        /\ in.audited /\ in.apps[i].bypass /\ h \in in.apps[i].domains
    BY <1>1 DEF BypassesOn, AppsOn
  <2> HIDE DEF pair
  <2>2. found \in EvaluateAccessBypass(in)
    BY <2>1 DEF EvaluateAccessBypass
  <2>3. QED BY <1>2, <2>2, KindsListed DEF Finding
<1>4. ASSUME NEW f \in FindingsFor(t), f.code = "access_bypass", f.host = h
      PROVE  f.about \in BypassesOn(h)
  <2>1. f \in EvaluateAccessBypass(in)
    BY <1>1, <1>2, <1>4, FindingKinds
  <2>2. PICK p \in Checked(in.rules) \X DOMAIN in.apps :
          /\ in.audited /\ in.apps[p[2]].bypass /\ p[1].host \in in.apps[p[2]].domains
          /\ f = Finding("access_bypass", "warning", p[1].host, p[2])
    BY <2>1 DEF EvaluateAccessBypass
  <2>3. f.host = p[1].host /\ f.about = p[2]
    BY <2>2 DEF Finding
  <2>4. QED BY <1>1, <1>4, <2>2, <2>3 DEF BypassesOn, AppsOn
<1>5. QED BY <1>3, <1>4

\* What a page has read of the applications.
LEMMA AppsTypes ==
  ASSUME ViewTypes
  PROVE  /\ view.audited \in BOOLEAN /\ IsFiniteSet(DOMAIN view.apps)
         /\ \A i \in DOMAIN view.apps : view.apps[i] \in Summary
<1>1. PICK a \in AppTables : view.apps = a
  BY DEF ViewTypes, ViewRec
<1>2. CASE a = <<>>
  <2>1. DOMAIN a = {}
    BY <1>2
  <2>2. QED BY <1>1, <2>1, FS_EmptySet DEF ViewTypes, ViewRec
<1>3. CASE \E S \in SUBSET Apps : a \in [S -> Summary]
  <2>1. DOMAIN a \subseteq Apps /\ \A i \in DOMAIN a : a[i] \in Summary
    BY <1>3
  <2>2. QED BY <1>1, <2>1, DashAssumption, FS_Subset DEF ViewTypes, ViewRec
<1>4. a = <<>> \/ \E S \in SUBSET Apps : a \in [S -> Summary]
  BY Zenon DEF AppTables
<1>5. QED BY <1>2, <1>3, <1>4

\* A host with applications shows one of them, the last by name.
LEMMA RowHasApp ==
  ASSUME ViewTypes, NEW h, AppsOn(h) # {}
  PROVE  AppOnDomain(h) \in AppsOn(h)
<1> DEFINE name == [i \in AppsOn(h) |-> view.apps[i].name]
           names == {name[i] : i \in AppsOn(h)}
<1>1. AppsOn(h) \subseteq DOMAIN view.apps /\ IsFiniteSet(AppsOn(h))
  BY AppsTypes, FS_Subset DEF AppsOn
<1>2. \A i \in AppsOn(h) : name[i] \in Nat
  BY <1>1, AppsTypes DEF Summary
<1>3. \E i \in AppsOn(h) : \A j \in AppsOn(h) : name[j] <= name[i]
  <2> HIDE DEF name
  <2>1. QED BY <1>1, <1>2, Greatest
<1>4. \E i \in AppsOn(h) : \A j \in AppsOn(h) : view.apps[j].name <= view.apps[i].name
  BY <1>3
<1>5. QED BY <1>4 DEF AppOnDomain

\* A row of the ingress page beside the tunnel's card and the audit page.
RowAgrees(t, row) ==
  LET listed(code) == {f \in FindingsFor(t) : f.code = code /\ f.host = row.host}
      onHost == {a \in AuditPage.apps : row.host \in a.app.domains}
      bypassed == {a \in onHost : AuditPage.available /\ a.app.bypass}
  IN /\ listed("access_unprotected") # {} <=> <<t, row.host>> \in AuditPage.unprotected
     /\ listed("access_unprotected") # {} =>
          /\ row.access = "public"
          /\ listed("access_unprotected") \subseteq VisibleFindings(t)
     /\ {f.about : f \in listed("access_bypass")} = {a.id : a \in bypassed}
     /\ row.access = "bypass policy" => bypassed # {}
     /\ row.access \notin {"public", "unknown"} => onHost # {} /\ \A a \in onHost : a.matched

LEMMA RowsAgree ==
  ASSUME ViewTypes, NEW t \in view.tunnels, NEW row \in IngressPage, row.tunnel = t, row.probeable
  PROVE  RowAgrees(t, row)
<1>1. t \in Tunnels
  BY DEF ViewTypes, ViewRec
<1>2. PICK r \in ToSet(RulesRead(t)) : row = IngressRow(t, r)
  BY DEF IngressPage, IngressRow, RulesRead
<1>3. r \in RulesOf(t) /\ row.host = r.host /\ row.access = AccessLabel(r.host)
  <2>1. IngressRow(t, r).probeable = (r \in RulesOf(t))
    BY DEF IngressRow
  <2>2. r \in RulesOf(t)
    BY <1>2, <2>1
  <2>3. IngressRow(t, r).host = r.host /\ IngressRow(t, r).access = AccessLabel(r.host)
    BY <2>2 DEF IngressRow
  <2>4. QED BY <1>2, <2>2, <2>3
<1> DEFINE h == row.host
           gaps == {f \in FindingsFor(t) : f.code = "access_unprotected" /\ f.host = h}
           bypasses == {f \in FindingsFor(t) : f.code = "access_bypass" /\ f.host = h}
           onHost == {a \in AuditPage.apps : h \in a.app.domains}
           bypassed == {a \in onHost : AuditPage.available /\ a.app.bypass}
<1>4. h \in Hosts /\ r.host = h
  BY <1>1, <1>3, ReadTypes
<1>5. gaps # {} <=> Gap(t, h)
  <2>1. GapFinding(h).code = "access_unprotected" /\ GapFinding(h).host = h
    BY DEF GapFinding, Finding
  <2>2. QED BY <1>1, <2>1, GapsListed
<1>6. Gap(t, h) <=> <<t, h>> \in AuditPage.unprotected
  BY <1>1, UnexpectedAreGaps DEF AuditPage
<1>7. Gap(t, h) => row.access = "public"
  <2>1. Gap(t, h) => view.audited /\ AppsOn(h) = {}
    BY DEF Gap, AppDomains, AppsOn
  <2>2. QED BY <1>3, <2>1 DEF AccessLabel
<1>8. Gap(t, h) => gaps \subseteq VisibleFindings(t)
  <2> SUFFICES ASSUME Gap(t, h), NEW f \in gaps PROVE f \in VisibleFindings(t)
    OBVIOUS
  <2>1. f \in FindingsFor(t) /\ f = GapFinding(h)
    BY <1>1, GapsListed
  <2>2. h # NoHost
    BY <1>4, DashAssumption
  <2>3. Ref(GapFinding(h), t) \notin view.ignored
    BY <2>2 DEF Gap, EffectivePublic, Ref, GapFinding, Finding
  <2>4. QED BY <2>1, <2>3 DEF VisibleFindings
<1>9. {f.about : f \in bypasses} = BypassesOn(h)
  BY <1>1, <1>3, <1>4, BypassesListed
<1>10. \A a : a \in onHost <=> \E i \in AppsOn(h) : a = [id |-> i, app |-> view.apps[i], matched |-> Matched(view.apps[i])]
  BY DEF AuditPage, AppsOn
<1>11. {a.id : a \in bypassed} = BypassesOn(h)
  <2>1. AuditPage.available = view.audited
    BY DEF AuditPage
  <2> DEFINE shown(i) == [id |-> i, app |-> view.apps[i], matched |-> Matched(view.apps[i])]
  <2>2. \A i : shown(i).id = i /\ shown(i).app = view.apps[i]
    OBVIOUS
  <2>3. \A a : a \in onHost <=> \E i \in AppsOn(h) : a = shown(i)
    BY <1>10
  <2> HIDE DEF onHost, shown
  <2>4. \A a : a \in bypassed <=> \E i \in BypassesOn(h) : a = shown(i)
    BY <2>1, <2>2, <2>3 DEF BypassesOn
  <2> HIDE DEF bypassed
  <2>5. QED BY <2>2, <2>4
<1>12. row.access = "bypass policy" => bypassed # {}
  <2> SUFFICES ASSUME row.access = "bypass policy" PROVE BypassesOn(h) # {}
    BY <1>11
  <2>1. view.audited /\ AppsOn(h) # {} /\ view.apps[AppOnDomain(h)].bypass
    BY <1>3, AppsTypes DEF AccessLabel
  <2>2. QED BY <2>1, RowHasApp DEF BypassesOn
<1>13. row.access \notin {"public", "unknown"} => onHost # {}
  <2>1. row.access \notin {"public", "unknown"} => AppsOn(h) # {}
    BY <1>3 DEF AccessLabel
  <2> HIDE DEF onHost
  <2>2. QED BY <1>10, <2>1
<1>14. \A a \in onHost : a.matched
  <2> SUFFICES ASSUME NEW i \in AppsOn(h) PROVE Matched(view.apps[i])
    BY <1>10
  <2>1. h \in view.apps[i].domains /\ r \in ToSet(view.details[t].rules)
    BY <1>2 DEF AppsOn, RulesRead
  <2>2. QED BY <1>1, <1>4, <2>1 DEF Matched
<1> HIDE DEF h, gaps, bypasses, onHost
<1>15. /\ gaps # {} <=> <<t, h>> \in AuditPage.unprotected
       /\ gaps # {} => row.access = "public" /\ gaps \subseteq VisibleFindings(t)
  BY <1>5, <1>6, <1>7, <1>8
<1>16. {f.about : f \in bypasses} = {a.id : a \in bypassed}
  BY <1>9, <1>11
<1>17. QED
  BY <1>12, <1>13, <1>14, <1>15, <1>16, Zenon DEF h, gaps, bypasses, onHost, RowAgrees

\* A token has on the audit page the severity of its finding.
LEMMA TokensAgree ==
  ASSUME ViewTypes, NEW t \in Tunnels, NEW k \in AuditPage.tokens, NEW severity \in {"critical", "warning"}
  PROVE  k.severity = severity <=> OnTunnel("service_token_expiring", severity, k.id) \in FindingsFor(t)
<1> DEFINE in == HealthInput(t, view, EffectivePublic(view.ignored))
           found == OnTunnel("service_token_expiring", severity, k.id)
<1>1. PICK u \in view.tokens : k = [id |-> u.id, severity |-> TokenSeverity(u)]
  BY DEF AuditPage
<1>2. /\ \A v, w \in view.tokens : v.id = w.id => v = w
      /\ \A v \in view.tokens : v.expires \in BOOLEAN /\ v.left \in Int
  <2>1. view.tokens \in TokenSets
    BY DEF ViewTypes, ViewRec
  <2>2. QED BY <2>1, DashAssumption DEF TokenSets
<1>3. /\ in.tokens = view.tokens /\ FindingsFor(t) = Evaluate(in) /\ in.rules \in Seq(IngressRule)
  BY ReadTypes DEF HealthInput, FindingsFor
<1> HIDE DEF in
<1>4. found.code = "service_token_expiring" /\ found.severity = severity /\ found.about = k.id
  BY DEF OnTunnel, Finding
<1>5. found \in FindingsFor(t) <=> found \in EvaluateServiceTokens(in)
  BY <1>3, <1>4, FindingKinds, KindsListed
<1>6. /\ (TokenSeverity(u) = "critical") <=> u.expires /\ u.left <= 0
      /\ (TokenSeverity(u) = "warning") <=> u.expires /\ u.left > 0 /\ u.left <= TokenExpiryWarning
  BY <1>2 DEF TokenSeverity, TokenExpiryWarning
<1>7. ASSUME found \in EvaluateServiceTokens(in) PROVE k.severity = severity
  <2>1. PICK v \in view.tokens :
          \/ v.expires /\ v.left <= 0 /\ found = OnTunnel("service_token_expiring", "critical", v.id)
          \/ /\ v.expires /\ v.left > 0 /\ v.left <= TokenExpiryWarning
             /\ found = OnTunnel("service_token_expiring", "warning", v.id)
    BY <1>3, <1>7 DEF EvaluateServiceTokens
  <2>2. v.id = u.id
    BY <1>1, <1>4, <2>1 DEF OnTunnel, Finding
  <2>3. v = u
    BY <1>1, <1>2, <2>2
  <2>4. QED BY <1>1, <1>4, <1>6, <2>1, <2>3 DEF OnTunnel, Finding
<1>8. ASSUME k.severity = severity PROVE found \in EvaluateServiceTokens(in)
  <2>1. k.id = u.id /\ TokenSeverity(u) = severity
    BY <1>1, <1>8
  <2>2. CASE severity = "critical"
    BY <1>3, <1>6, <2>1, <2>2 DEF EvaluateServiceTokens
  <2>3. CASE severity = "warning"
    BY <1>3, <1>6, <2>1, <2>3 DEF EvaluateServiceTokens
  <2>4. QED BY <2>2, <2>3
<1>9. QED BY <1>5, <1>7, <1>8

\* The connectors marked as outdated are those with a finding.
LEMMA OutdatedAgree ==
  ASSUME ViewTypes, NEW t \in Tunnels, view.details[t].status # "inactive"
  PROVE  {c.id : c \in {d \in view.details[t].connectors : Outdated(d)}}
           = {f.about : f \in {g \in FindingsFor(t) : g.code = "version_drift"}}
<1> DEFINE in == HealthInput(t, view, EffectivePublic(view.ignored))
           marked == {d \in view.details[t].connectors : Outdated(d)}
<1>1. /\ in.status # "inactive" /\ FindingsFor(t) = Evaluate(in) /\ in.rules \in Seq(IngressRule)
      /\ in.connectors = view.details[t].connectors /\ in.release = view.release
  BY ReadTypes DEF HealthInput, FindingsFor
<1> HIDE DEF in
<1>2. Drifted(in) = marked
  BY <1>1 DEF Drifted, Outdated
<1> HIDE DEF marked
<1>3. ASSUME NEW c \in marked PROVE \E f \in FindingsFor(t) : f.code = "version_drift" /\ f.about = c.id
  <2>1. OnTunnel("version_drift", "warning", c.id) \in Evaluate(in)
    BY <1>1, <1>2, KindsListed
  <2>2. QED BY <1>1, <2>1 DEF OnTunnel, Finding
<1>4. ASSUME NEW f \in FindingsFor(t), f.code = "version_drift" PROVE \E c \in marked : f.about = c.id
  <2>1. f \in {OnTunnel("version_drift", "warning", c.id) : c \in Drifted(in)}
    BY <1>1, <1>4, FindingKinds
  <2>2. QED BY <1>2, <2>1 DEF OnTunnel, Finding
<1>5. QED BY <1>3, <1>4 DEF marked

\* The index page counts every gap that a card lists.
GapsOn(t) == {g \in UnexpectedRules : g[1] = t}

LEMMA GapsFinite ==
  ASSUME ViewTypes
  PROVE  IsFiniteSet(UnexpectedRules) /\ \A t \in Tunnels : IsFiniteSet(GapsOn(t))
<1>1. ASSUME NEW t \in Tunnels PROVE IsFiniteSet(GapsOn(t))
  <2> DEFINE rules == RulesRead(t)
             place == [i \in DOMAIN rules |-> <<t, rules[i].host>>]
             places == {place[i] : i \in DOMAIN rules}
  <2>1. IsFiniteSet(DOMAIN rules)
    BY ReadTypes, FS_Interval
  <2>2. IsFiniteSet(places)
    <3> HIDE DEF place
    <3>1. QED BY <2>1, ImageIsFinite
  <2>3. GapsOn(t) \subseteq places
    BY DEF GapsOn, UnexpectedRules, UnprotectedRules, RulesOf, Checked, ToSet, RulesRead
  <2> HIDE DEF places
  <2>4. QED BY <2>2, <2>3, FS_Subset
<1>2. UnexpectedRules = UNION {GapsOn(t) : t \in Tunnels}
  BY DEF GapsOn, UnexpectedRules, UnprotectedRules
<1>3. IsFiniteSet({GapsOn(t) : t \in Tunnels})
  <2> DEFINE gaps == [t \in Tunnels |-> GapsOn(t)]
  <2> HIDE DEF gaps
  <2>1. IsFiniteSet({gaps[t] : t \in Tunnels})
    BY DashAssumption, ImageIsFinite
  <2>2. {gaps[t] : t \in Tunnels} = {GapsOn(t) : t \in Tunnels}
    BY DEF gaps
  <2>3. QED BY <2>1, <2>2
<1>4. IsFiniteSet(UNION {GapsOn(t) : t \in Tunnels})
  BY <1>1, <1>3, FS_UNION
<1>5. QED BY <1>1, <1>2, <1>4

GapsOfCard(t) == {f \in Card(t).findings : f.code = "access_unprotected"}

LEMMA GapsOfCardCounted ==
  ASSUME ViewTypes, NEW t \in Tunnels
  PROVE  /\ Cardinality(GapsOfCard(t)) \in Nat /\ Cardinality(GapsOn(t)) \in Nat
         /\ Cardinality(GapsOfCard(t)) <= Cardinality(GapsOn(t))
<1> DEFINE finding == [g \in GapsOn(t) |-> GapFinding(g[2])]
           listed == {finding[g] : g \in GapsOn(t)}
<1>1. IsFiniteSet(GapsOn(t))
  BY GapsFinite
<1>2. GapsOfCard(t) \subseteq listed
  <2> SUFFICES ASSUME NEW f \in GapsOfCard(t) PROVE f \in listed
    OBVIOUS
  <2>1. f \in FindingsFor(t) /\ f.code = "access_unprotected"
    BY DEF GapsOfCard, Card, VisibleFindings
  <2>2. Gap(t, f.host) /\ f = GapFinding(f.host)
    BY <2>1, GapsListed
  <2>3. <<t, f.host>> \in GapsOn(t)
    BY <2>2, UnexpectedAreGaps DEF GapsOn
  <2>4. finding[<<t, f.host>>] = f
    BY <2>2, <2>3
  <2> HIDE DEF finding
  <2>5. QED BY <2>3, <2>4
<1>3. IsFiniteSet(listed) /\ Cardinality(listed) <= Cardinality(GapsOn(t))
  <2> HIDE DEF finding
  <2>1. QED BY <1>1, ImageIsFinite
<1> HIDE DEF listed
<1>4. Cardinality(GapsOfCard(t)) <= Cardinality(listed) /\ IsFiniteSet(GapsOfCard(t))
  BY <1>2, <1>3, FS_Subset
<1>5. /\ Cardinality(GapsOfCard(t)) \in Nat /\ Cardinality(GapsOn(t)) \in Nat
      /\ Cardinality(listed) \in Nat
  BY <1>1, <1>3, <1>4, FS_CardinalityType
<1>6. QED BY <1>3, <1>4, <1>5

\* The cards together list no more gaps than the index page counts.
LEMMA IndexCountsGaps ==
  ASSUME ViewTypes
  PROVE  Totals.unprotected
           >= OverCards([t \in view.tunnels |-> Cardinality({f \in Card(t).findings : f.code = "access_unprotected"})])
<1> DEFINE S == view.tunnels
           cards == [t \in S |-> Cardinality(GapsOfCard(t))]
           gaps == [t \in S |-> GapsOn(t)]
           sizes == [t \in S |-> Cardinality(gaps[t])]
           all == UNION {gaps[t] : t \in S}
<1>1. S \subseteq Tunnels /\ IsFiniteSet(S)
  BY DashAssumption, FS_Subset DEF ViewTypes, ViewRec
<1>2. OverCards([t \in view.tunnels |-> Cardinality({f \in Card(t).findings : f.code = "access_unprotected"})])
        = SumOver(cards, S)
  BY DEF OverCards, SumOver, GapsOfCard
<1>3. \A t \in S : cards[t] \in Int /\ sizes[t] \in Int /\ cards[t] <= sizes[t]
  BY <1>1, GapsOfCardCounted
<1>4. SumOver(cards, S) <= SumOver(sizes, S)
  <2> HIDE DEF cards, sizes, S
  <2>1. QED BY <1>1, <1>3, SumAtMost
<1>5. \A t \in S : IsFiniteSet(gaps[t])
  BY <1>1, GapsFinite
<1>6. \A t, u \in S : t # u => gaps[t] \cap gaps[u] = {}
  BY DEF GapsOn
<1>7. all \subseteq UnexpectedRules
  BY DEF GapsOn
<1>8. IsFiniteSet(all) /\ SumOver(sizes, S) = Cardinality(all)
  <2> HIDE DEF gaps, S
  <2>1. QED BY <1>1, <1>5, <1>6, SumOfSizes
<1> HIDE DEF all
<1>9. Cardinality(all) <= Cardinality(UnexpectedRules) /\ Cardinality(all) \in Nat
      /\ Cardinality(UnexpectedRules) \in Nat
  BY <1>7, <1>8, GapsFinite, FS_Subset, FS_CardinalityType
<1>10. SumOver(cards, S) \in Int
  <2> HIDE DEF cards, S
  <2>1. QED BY <1>1, <1>3, SumIsInt
<1>11. Totals.unprotected = Cardinality(UnexpectedRules)
  BY DEF Totals
<1> HIDE DEF cards, sizes, S
<1>12. QED BY <1>2, <1>4, <1>8, <1>9, <1>10, <1>11

\* A page's card, its ingress rows, its audit and its counters say the same of
\* the coverage, of the tokens and of the connectors' versions.
THEOREM PagesAgree == DashSpec => []CoverageViewsAgree
<1>1. PageInv => CoverageViewsAgree
  <2> SUFFICES ASSUME PageInv, Served PROVE CoverageViewsAgree
    BY DEF CoverageViewsAgree
  <2>1. ViewTypes /\ view.tunnels \subseteq Tunnels
    BY DEF PageInv, ViewTypes, ViewRec
  <2>2. Totals.unprotected
          >= OverCards([t \in view.tunnels |-> Cardinality({f \in Card(t).findings : f.code = "access_unprotected"})])
    BY <2>1, IndexCountsGaps
  <2>3. ASSUME NEW t \in view.tunnels
        PROVE  /\ \A row \in {q \in IngressPage : q.tunnel = t /\ q.probeable} : RowAgrees(t, row)
               /\ \A k \in AuditPage.tokens, severity \in {"critical", "warning"} :
                    k.severity = severity <=> OnTunnel("service_token_expiring", severity, k.id) \in FindingsFor(t)
               /\ view.details[t].status # "inactive" =>
                    {c.id : c \in {d \in view.details[t].connectors : Outdated(d)}}
                      = {f.about : f \in {g \in FindingsFor(t) : g.code = "version_drift"}}
    <3>1. t \in Tunnels
      BY <2>1
    <3>2. \A row \in {q \in IngressPage : q.tunnel = t /\ q.probeable} : RowAgrees(t, row)
      BY <2>1, RowsAgree
    <3>3. \A k \in AuditPage.tokens, severity \in {"critical", "warning"} :
            k.severity = severity <=> OnTunnel("service_token_expiring", severity, k.id) \in FindingsFor(t)
      BY <2>1, <3>1, TokensAgree
    <3>4. ASSUME view.details[t].status # "inactive"
          PROVE  {c.id : c \in {d \in view.details[t].connectors : Outdated(d)}}
                   = {f.about : f \in {g \in FindingsFor(t) : g.code = "version_drift"}}
      BY <2>1, <3>1, <3>4, OutdatedAgree
    <3>5. QED BY <3>2, <3>3, <3>4, Zenon
  <2>4. QED BY <2>2, <2>3, Zenon DEF CoverageViewsAgree, RowAgrees
<1>2. QED BY <1>1, PageInvariant, PTL

-----------------------------------------------------------------------------
(* The past of a tunnel: availability and heartbeats.                      *)

LastUpTo(rows, t, r) == r \in rows /\ r.at <= t /\ \A s \in rows : s # r /\ s.at <= t => Precedes(s, r)

Distinct(rows) == \A r, s \in rows : r.id = s.id => r = s

\* Every second is as the last row up to it says, also after rows were pruned.
PastInv ==
  /\ upNow \in Seconds /\ pageNow \in 0..upNow /\ lastRow \in Nat /\ firstSeen \in Seconds
  /\ IsFiniteSet(history) /\ history \subseteq [id : 1..lastRow, status : UpStatuses, at : 0..upNow]
  /\ Distinct(history)
  /\ held \in [Seconds -> UpStatuses \cup {UpUnknown}]
  /\ entered \in [Seconds -> SUBSET UpStatuses]
  /\ pruned \in BOOLEAN
  /\ \A t \in Seconds : t > upNow => entered[t] = {}
  /\ \A t \in 0..upNow : \A r \in history : LastUpTo(history, t, r) => held[t] = r.status

\* As long as none was pruned the rows tell all of it.
WholeInv ==
  ~pruned =>
    /\ \A t \in 0..upNow : (\A r \in history : r.at > t) => held[t] = UpUnknown
    /\ \A t \in 0..upNow : \A s \in UpStatuses :
         s \in entered[t] <=> \E r \in history : r.at = t /\ r.status = s
    /\ history = {} => firstSeen = MaxUpSeconds
    /\ history # {} => (\E r \in history : r.at = firstSeen) /\ \A r \in history : r.at >= firstSeen

\* What a query returned of the seconds before the page's now, which are over.
RowsRead(rows) ==
  /\ IsFiniteSet(rows) /\ rows \subseteq [id : Nat \ {0}, status : UpStatuses, at : Nat]
  /\ Distinct(rows)
  /\ \A r \in rows : r.at >= PageStart
  /\ \A t \in Seconds : \A r \in rows : t < pageNow /\ LastUpTo(rows, t, r) => held[t] = r.status

\* Until the first of them after the window's start the status was the one there.
Settled ==
  \A t \in PageStart..(pageNow - 1) :
    (\A r \in upRead.changes : r.at <= PageStart \/ r.at > t) => held[t] = held[PageStart]

HeldAt(t) == IF t \in Seconds THEN held[t] ELSE UpUnknown

FigureInv ==
  /\ upPc \in {"initial", "beatInitial", "beats", "served"} =>
       /\ RowsRead(upRead.changes)
       /\ ~pruned /\ firstSeen < pageNow =>
            /\ \A r \in upRead.changes : r.at >= firstSeen
            /\ firstSeen >= PageStart => \E r \in upRead.changes : r.at = firstSeen
  /\ upPc = "initial" /\ (\E r \in history : r.at <= PageStart) => Settled
  /\ upPc \in {"beatInitial", "beats", "served"} =>
       /\ upRead.initial \in UpStatuses \cup {UpUnknown}
       /\ upRead.initial # UpUnknown => PageStart \in Seconds /\ upRead.initial = held[PageStart] /\ Settled
       /\ ~pruned /\ firstSeen < pageNow => (upRead.initial # UpUnknown <=> firstSeen <= PageStart)

BarInv ==
  /\ upPc \in {"beats", "served"} =>
       /\ upRead.beatInitial \in UpStatuses \cup {UpUnknown}
       /\ ~pruned => upRead.beatInitial = HeldAt(PageStart)
  /\ upPc = "served" =>
       /\ RowsRead(upRead.beats)
       /\ ~pruned =>
            \A t \in Seconds : PageStart <= t /\ t < pageNow =>
              /\ \A s \in UpStatuses : s \in entered[t] <=> \E r \in upRead.beats : r.at = t /\ r.status = s
              /\ (\A r \in upRead.beats : r.at > t) => held[t] = HeldAt(PageStart)

UpPcInv ==
  /\ upPc \in {"idle", "changes", "initial", "beatInitial", "beats", "served"}
  /\ upRead = [changes |-> upRead.changes, initial |-> upRead.initial,
               beatInitial |-> upRead.beatInitial, beats |-> upRead.beats]

UptimeInv == PastInv /\ WholeInv /\ UpPcInv /\ FigureInv /\ BarInv

LEMMA RowsHaveEnds ==
  ASSUME NEW R, IsFiniteSet(R), R # {}, \A r \in R : r.at \in Int /\ r.id \in Int, Distinct(R)
  PROVE  /\ LatestRow(R) \in R /\ \A s \in R \ {LatestRow(R)} : Precedes(s, LatestRow(R))
         /\ OldestRow(R) \in R /\ \A s \in R \ {OldestRow(R)} : Precedes(OldestRow(R), s)
<1> DEFINE G == {T \in SUBSET R : T = {} \/ \E r \in T : \A s \in T \ {r} : Precedes(s, r)}
           H == {T \in SUBSET R : T = {} \/ \E r \in T : \A s \in T \ {r} : Precedes(r, s)}
<1>1. {} \in G /\ {} \in H
  OBVIOUS
<1>2. \A r, s \in R : r # s => Precedes(r, s) \/ Precedes(s, r)
  BY DEF Distinct, Precedes
<1>3. \A r, s, t \in R : Precedes(r, s) /\ Precedes(s, t) => Precedes(r, t)
  BY DEF Precedes
<1>4. ASSUME NEW T \in SUBSET R, NEW x \in R \ T, T \in G PROVE T \cup {x} \in G
  <2>1. CASE T = {}
    BY <2>1
  <2>2. CASE T # {}
    <3>1. PICK m \in T : \A s \in T \ {m} : Precedes(s, m)
      BY <1>4, <2>2
    <3>2. CASE Precedes(m, x)
      <4>1. \A s \in (T \cup {x}) \ {x} : Precedes(s, x)
        BY <1>3, <3>1, <3>2
      <4>2. QED BY <4>1
    <3>3. CASE Precedes(x, m)
      <4>1. \A s \in (T \cup {x}) \ {m} : Precedes(s, m)
        BY <3>1, <3>3
      <4>2. QED BY <4>1
    <3>4. QED BY <1>2, <3>2, <3>3
  <2>3. QED BY <2>1, <2>2
<1>5. ASSUME NEW T \in SUBSET R, NEW x \in R \ T, T \in H PROVE T \cup {x} \in H
  <2>1. CASE T = {}
    BY <2>1
  <2>2. CASE T # {}
    <3>1. PICK m \in T : \A s \in T \ {m} : Precedes(m, s)
      BY <1>5, <2>2
    <3>2. CASE Precedes(x, m)
      <4>1. \A s \in (T \cup {x}) \ {x} : Precedes(x, s)
        BY <1>3, <3>1, <3>2
      <4>2. QED BY <4>1
    <3>3. CASE Precedes(m, x)
      <4>1. \A s \in (T \cup {x}) \ {m} : Precedes(m, s)
        BY <3>1, <3>3
      <4>2. QED BY <4>1
    <3>4. QED BY <1>2, <3>2, <3>3
  <2>3. QED BY <2>1, <2>2
<1> HIDE DEF G, H
<1>6. SUBSET R \subseteq G
  BY <1>1, <1>4, SubsetInduction
<1>7. SUBSET R \subseteq H
  BY <1>1, <1>5, SubsetInduction
<1>8. \E r \in R : \A s \in R \ {r} : Precedes(s, r)
  BY <1>6 DEF G
<1>9. \E r \in R : \A s \in R \ {r} : Precedes(r, s)
  BY <1>7 DEF H
<1>10. QED BY <1>8, <1>9 DEF LatestRow, OldestRow

\* Some row is the last up to a second.
LEMMA LastExists ==
  ASSUME NEW R, IsFiniteSet(R), \A r \in R : r.at \in Int /\ r.id \in Int, Distinct(R),
         NEW t \in Int, NEW m \in R, m.at <= t
  PROVE  \E r \in R : LastUpTo(R, t, r) /\ r = LatestRow({s \in R : s.at <= t})
<1> DEFINE P == {s \in R : s.at <= t}
<1>1. IsFiniteSet(P) /\ P # {} /\ Distinct(P) /\ \A r \in P : r.at \in Int /\ r.id \in Int
  BY FS_Subset DEF Distinct
<1> HIDE DEF P
<1>2. LatestRow(P) \in P /\ \A s \in P \ {LatestRow(P)} : Precedes(s, LatestRow(P))
  BY <1>1, RowsHaveEnds
<1>3. QED BY <1>2 DEF P, LastUpTo

LEMMA PageStartIs ==
  ASSUME PastInv
  PROVE  /\ PageStart \in Int /\ PageStart < pageNow /\ pageNow \in Nat /\ upNow \in Nat /\ pageNow <= upNow
         /\ MaxUpSeconds \in Nat /\ upNow <= MaxUpSeconds
BY UptimeAssumption DEF PastInv, PageStart, Seconds

LEMMA PastTypes ==
  ASSUME PastInv
  PROVE  /\ firstSeen \in Nat
         /\ \A r \in history : r.id \in Nat \ {0} /\ r.at \in Nat /\ r.at <= upNow /\ r.status \in UpStatuses
         /\ \A t \in Seconds : t \in Nat
BY UptimeAssumption DEF PastInv, Seconds

LEMMA UptimeStart == UptimeInit => UptimeInv
<1> SUFFICES ASSUME UptimeInit PROVE UptimeInv
  OBVIOUS
<1>1. MaxUpSeconds \in Nat
  BY UptimeAssumption
<1>2. PastInv
  <2>1. upNow = 0 /\ 0 \in Seconds /\ MaxUpSeconds \in Seconds /\ \A t \in Seconds : t \in 0..MaxUpSeconds
    BY <1>1 DEF UptimeInit, Seconds
  <2>2. history = {} /\ IsFiniteSet(history) /\ Distinct(history)
    BY FS_EmptySet DEF UptimeInit, Distinct
  <2>3. held \in [Seconds -> UpStatuses \cup {UpUnknown}] /\ entered \in [Seconds -> SUBSET UpStatuses]
    BY DEF UptimeInit
  <2>4. \A t \in Seconds : entered[t] = {}
    BY DEF UptimeInit
  <2>5. pageNow = 0 /\ lastRow = 0 /\ firstSeen = MaxUpSeconds /\ pruned \in BOOLEAN
    BY DEF UptimeInit
  <2>6. \A t \in 0..upNow : \A r \in history : LastUpTo(history, t, r) => held[t] = r.status
    BY <2>2
  <2>7. QED BY <2>1, <2>2, <2>3, <2>4, <2>5, <2>6 DEF PastInv
<1>3. WholeInv
  BY <1>1 DEF UptimeInit, WholeInv, Seconds
<1>4. UpPcInv /\ FigureInv /\ BarInv
  BY DEF UptimeInit, UpPcInv, FigureInv, BarInv, NothingRead
<1>5. QED BY <1>2, <1>3, <1>4 DEF UptimeInv

\* What polls do leaves the seconds before the page's now alone.
Over ==
  /\ pageNow' = pageNow /\ upPc' = upPc /\ upRead' = upRead
  /\ \A t \in Seconds : t < pageNow => held'[t] = held[t] /\ entered'[t] = entered[t]
  /\ pruned => pruned'
  /\ firstSeen' = firstSeen \/ (firstSeen' \in Nat /\ firstSeen' >= pageNow)
  /\ \A r \in history' : r \in history \/ (r.at \in Nat /\ r.at >= pageNow)

LEMMA TickKeepsPast ==
  ASSUME PastInv, WholeInv, SecondTicks PROVE PastInv' /\ WholeInv' /\ Over
<1>1. /\ upNow \in Nat /\ upNow < MaxUpSeconds /\ upNow' = upNow + 1 /\ MaxUpSeconds \in Nat
      /\ UNCHANGED <<history, lastRow, pageNow, upPc, upRead, entered, firstSeen, pruned>>
      /\ held' = [held EXCEPT ![upNow + 1] = held[upNow]]
  BY UptimeAssumption DEF PastInv, SecondTicks, Seconds
<1>2. upNow \in Seconds /\ upNow + 1 \in Seconds
  BY <1>1 DEF Seconds
<1>3. /\ held' \in [Seconds -> UpStatuses \cup {UpUnknown}]
      /\ \A t \in Seconds : held'[t] = IF t = upNow + 1 THEN held[upNow] ELSE held[t]
  BY <1>1, <1>2 DEF PastInv
<1>4. \A t \in 0..upNow' : \A r \in history' : LastUpTo(history', t, r) => held'[t] = r.status
  <2> SUFFICES ASSUME NEW t \in 0..(upNow + 1), NEW r \in history, LastUpTo(history, t, r)
               PROVE  held'[t] = r.status
    BY <1>1 DEF LastUpTo
  <2>1. \A s \in history : s.at \in Nat /\ s.at <= upNow
    BY <1>1 DEF PastInv
  <2>2. CASE t = upNow + 1
    <3>1. LastUpTo(history, upNow, r)
      BY <1>1, <2>1, <2>2 DEF LastUpTo
    <3>2. QED BY <1>1, <1>2, <1>3, <2>2, <3>1 DEF PastInv
  <2>3. CASE t # upNow + 1
    BY <1>1, <1>2, <1>3, <2>3 DEF PastInv, Seconds
  <2>4. QED BY <2>2, <2>3
<1>5. PastInv'
  <2>1. IsFiniteSet(history') /\ Distinct(history')
    BY <1>1 DEF PastInv, Distinct
  <2>2. history' \subseteq [id : 1..lastRow', status : UpStatuses, at : 0..upNow']
    BY <1>1 DEF PastInv
  <2>3. \A t \in Seconds : t > upNow' => entered'[t] = {}
    BY <1>1 DEF PastInv, Seconds
  <2>4. QED BY <1>1, <1>2, <1>3, <1>4, <2>1, <2>2, <2>3 DEF PastInv
<1>6. WholeInv'
  <2> SUFFICES ASSUME ~pruned PROVE WholeInv'
    BY <1>1 DEF WholeInv
  <2>1. \A s \in history : s.at \in Nat /\ s.at <= upNow
    BY <1>1 DEF PastInv
  <2>2. ASSUME NEW t \in 0..(upNow + 1), \A r \in history : r.at > t PROVE held'[t] = UpUnknown
    <3>1. CASE t = upNow + 1
      <4>1. \A r \in history : r.at > upNow
        BY <1>1, <2>1, <2>2, <3>1
      <4>2. held[upNow] = UpUnknown
        BY <1>1, <4>1 DEF WholeInv
      <4>3. QED BY <1>2, <1>3, <3>1, <4>2
    <3>2. CASE t # upNow + 1
      BY <1>1, <1>3, <2>2, <3>2 DEF WholeInv, Seconds
    <3>3. QED BY <3>1, <3>2
  <2>3. ASSUME NEW t \in 0..(upNow + 1), NEW s \in UpStatuses
        PROVE  s \in entered[t] <=> \E r \in history : r.at = t /\ r.status = s
    <3>1. CASE t = upNow + 1
      BY <1>1, <1>2, <2>1, <3>1 DEF PastInv
    <3>2. CASE t # upNow + 1
      BY <1>1, <3>2 DEF WholeInv
    <3>3. QED BY <3>1, <3>2
  <2>4. QED BY <1>1, <2>2, <2>3 DEF WholeInv
<1>7. Over
  <2>1. \A t \in Seconds : t < pageNow => held'[t] = held[t] /\ entered'[t] = entered[t]
    BY <1>1, <1>3 DEF PastInv, Seconds
  <2>2. QED BY <1>1, <2>1 DEF Over
<1>8. QED BY <1>5, <1>6, <1>7

LEMMA ChangeKeepsPast ==
  ASSUME PastInv, WholeInv, NEW s \in UpStatuses, StatusChanges(s) PROVE PastInv' /\ WholeInv' /\ Over
<1> DEFINE new == [id |-> lastRow + 1, status |-> s, at |-> upNow]
<1>1. /\ upNow \in Nat /\ upNow \in Seconds /\ lastRow \in Nat /\ pageNow \in Nat /\ pageNow <= upNow
      /\ lastRow' = lastRow + 1 /\ history' = history \cup {new}
      /\ UNCHANGED <<upNow, pageNow, upPc, upRead, pruned>>
      /\ firstSeen' = IF held[upNow] = UpUnknown THEN upNow ELSE firstSeen
  BY DEF PastInv, StatusChanges, Seconds
<1>2. \A t \in 0..upNow : t \in Seconds
  <2>1. upNow <= MaxUpSeconds /\ MaxUpSeconds \in Nat
    BY PageStartIs
  <2>2. QED BY <1>1, <2>1 DEF Seconds
<1>3. /\ held' \in [Seconds -> UpStatuses \cup {UpUnknown}]
      /\ \A t \in Seconds : held'[t] = IF t = upNow THEN s ELSE held[t]
  BY <1>1 DEF PastInv, StatusChanges
<1>4. /\ entered' \in [Seconds -> SUBSET UpStatuses]
      /\ \A t \in Seconds : entered'[t] = IF t = upNow THEN entered[t] \cup {s} ELSE entered[t]
  BY <1>1 DEF PastInv, StatusChanges
<1>5. \A r \in history : /\ r.id \in 1..lastRow /\ r.at \in 0..upNow /\ r.status \in UpStatuses
  BY DEF PastInv
<1>6. new.id = lastRow + 1 /\ new.status = s /\ new.at = upNow /\ new \notin history
  BY <1>1, <1>5
<1> HIDE DEF new
<1>7. IsFiniteSet(history') /\ Distinct(history')
  <2>1. IsFiniteSet(history')
    BY <1>1, FS_AddElement DEF PastInv
  <2>2. \A r, q \in history' : r.id = q.id => r = q
    <3> SUFFICES ASSUME NEW r \in history', NEW q \in history', r.id = q.id PROVE r = q
      OBVIOUS
    <3>1. CASE r \in history /\ q \in history
      BY <3>1 DEF PastInv, Distinct
    <3>2. CASE r = new \/ q = new
      BY <1>1, <1>5, <1>6, <3>2
    <3>3. QED BY <1>1, <3>1, <3>2
  <2>3. QED BY <2>1, <2>2 DEF Distinct
<1>8. history' \subseteq [id : 1..lastRow', status : UpStatuses, at : 0..upNow']
  <2>1. new \in [id : 1..(lastRow + 1), status : UpStatuses, at : 0..upNow]
    BY <1>1 DEF new
  <2>2. history \subseteq [id : 1..(lastRow + 1), status : UpStatuses, at : 0..upNow]
    BY <1>1 DEF PastInv
  <2>3. QED BY <1>1, <2>1, <2>2
<1>9. \A t \in 0..upNow' : \A r \in history' : LastUpTo(history', t, r) => held'[t] = r.status
  <2> SUFFICES ASSUME NEW t \in 0..upNow, NEW r \in history', LastUpTo(history', t, r)
               PROVE  held'[t] = r.status
    BY <1>1
  <2>1. t \in Seconds
    BY <1>2
  <2>2. CASE t = upNow
    <3>1. r = new
      <4> SUFFICES ASSUME r # new PROVE FALSE
        OBVIOUS
      <4>1. r \in history /\ Precedes(new, r)
        BY <1>1, <1>6, <2>2 DEF LastUpTo
      <4>2. QED BY <1>1, <1>5, <1>6, <4>1 DEF Precedes
    <3>2. QED BY <1>3, <1>6, <2>1, <2>2, <3>1
  <2>3. CASE t < upNow
    <3>1. r \in history /\ LastUpTo(history, t, r)
      BY <1>1, <1>6, <2>3 DEF LastUpTo
    <3>2. QED BY <1>1, <1>3, <2>1, <2>3, <3>1 DEF PastInv
  <2>4. QED BY <1>1, <2>2, <2>3
<1>10. PastInv'
  <2>1. \A t \in Seconds : t > upNow' => entered'[t] = {}
    BY <1>1, <1>4 DEF PastInv, Seconds
  <2>2. firstSeen' \in Seconds
    BY <1>1 DEF PastInv
  <2>3. upNow' \in Seconds /\ pageNow' \in 0..upNow' /\ lastRow' \in Nat /\ pruned' \in BOOLEAN
    BY <1>1 DEF PastInv
  <2>4. QED BY <1>3, <1>4, <1>7, <1>8, <1>9, <2>1, <2>2, <2>3 DEF PastInv
<1>11. WholeInv'
  <2> SUFFICES ASSUME ~pruned PROVE WholeInv'
    BY <1>1 DEF WholeInv
  <2>1. \A t \in 0..upNow : (\A r \in history' : r.at > t) => held'[t] = UpUnknown
    <3> SUFFICES ASSUME NEW t \in 0..upNow, \A r \in history' : r.at > t PROVE held'[t] = UpUnknown
      OBVIOUS
    <3>1. t < upNow /\ t \in Seconds
      BY <1>1, <1>6, <1>2
    <3>2. QED BY <1>1, <1>3, <3>1 DEF WholeInv
  <2>2. ASSUME NEW t \in 0..upNow, NEW q \in UpStatuses
        PROVE  q \in entered'[t] <=> \E r \in history' : r.at = t /\ r.status = q
    <3>1. t \in Seconds
      BY <1>2
    <3>2. q \in entered[t] <=> \E r \in history : r.at = t /\ r.status = q
      BY DEF WholeInv
    <3>3. CASE t = upNow
      BY <1>1, <1>4, <1>6, <3>1, <3>2, <3>3
    <3>4. CASE t # upNow
      BY <1>1, <1>4, <1>6, <3>1, <3>2, <3>4
    <3>5. QED BY <3>3, <3>4
  <2>3. (\E r \in history' : r.at = firstSeen') /\ \A r \in history' : r.at >= firstSeen'
    <3>1. CASE history = {}
      <4>1. held[upNow] = UpUnknown
        BY <1>1, <3>1 DEF WholeInv
      <4>2. QED BY <1>1, <1>6, <3>1, <4>1
    <3>2. CASE history # {}
      <4>1. PICK m \in history : TRUE
        BY <3>2
      <4>2. PICK r \in history : LastUpTo(history, upNow, r)
        <5>1. IsFiniteSet(history) /\ Distinct(history) /\ \A r \in history : r.at \in Int /\ r.id \in Int
          BY <1>1, <1>5 DEF PastInv
        <5>2. upNow \in Int /\ m.at <= upNow
          BY <1>1, <1>5
        <5>3. QED BY <5>1, <5>2, LastExists
      <4>3. held[upNow] \in UpStatuses
        BY <1>1, <1>5, <4>2 DEF PastInv
      <4>4. held[upNow] # UpUnknown
        BY <4>3, UptimeAssumption
      <4>5. firstSeen \in Seconds /\ \E q \in history : q.at = firstSeen
        BY <3>2 DEF WholeInv, PastInv
      <4>6. firstSeen <= upNow
        BY <1>1, <1>5, <4>5
      <4>7. QED BY <1>1, <1>6, <3>2, <4>4, <4>5, <4>6 DEF WholeInv
    <3>3. QED BY <3>1, <3>2
  <2>4. history' # {}
    BY <1>1
  <2>5. QED BY <1>1, <2>1, <2>2, <2>3, <2>4 DEF WholeInv
<1>12. Over
  <2>1. \A t \in Seconds : t < pageNow => held'[t] = held[t] /\ entered'[t] = entered[t]
    BY <1>1, <1>3, <1>4 DEF Seconds
  <2>2. \A r \in history' : r \in history \/ (r.at \in Nat /\ r.at >= pageNow)
    BY <1>1, <1>6
  <2>3. QED BY <1>1, <2>1, <2>2 DEF Over
<1>13. QED BY <1>10, <1>11, <1>12

LEMMA PruneKeepsPast ==
  ASSUME PastInv, WholeInv, HistoryPruned PROVE PastInv' /\ WholeInv' /\ Over
<1>1. /\ history' = {r \in history : r.at >= upNow - UpRetention}
      /\ pruned' = TRUE
      /\ UNCHANGED <<upNow, lastRow, pageNow, upPc, upRead, entered, held, firstSeen>>
      /\ UpRetention \in Nat /\ upNow \in Nat
  BY UptimeAssumption DEF PastInv, HistoryPruned, upTruth, Seconds
<1>2. \A r \in history : r.at \in Nat
  BY DEF PastInv
<1>3. \A t \in 0..upNow' : \A r \in history' : LastUpTo(history', t, r) => held'[t] = r.status
  <2> SUFFICES ASSUME NEW t \in 0..upNow, NEW r \in history', LastUpTo(history', t, r)
               PROVE  held[t] = r.status
    BY <1>1
  <2>1. LastUpTo(history, t, r)
    <3> SUFFICES ASSUME NEW s \in history, s # r, s.at <= t PROVE Precedes(s, r)
      BY <1>1 DEF LastUpTo
    <3>1. CASE s \in history'
      BY <3>1 DEF LastUpTo
    <3>2. CASE s \notin history'
      BY <1>1, <1>2, <3>2 DEF Precedes
    <3>3. QED BY <3>1, <3>2
  <2>2. QED BY <1>1, <2>1 DEF PastInv
<1>4. PastInv'
  <2>1. IsFiniteSet(history') /\ Distinct(history')
    BY <1>1, FS_Subset DEF PastInv, Distinct
  <2>2. history' \subseteq [id : 1..lastRow', status : UpStatuses, at : 0..upNow']
    BY <1>1 DEF PastInv
  <2>3. \A t \in Seconds : t > upNow' => entered'[t] = {}
    BY <1>1 DEF PastInv
  <2>4. QED BY <1>1, <1>3, <2>1, <2>2, <2>3 DEF PastInv
<1>5. WholeInv'
  BY <1>1 DEF WholeInv
<1>6. Over
  BY <1>1 DEF Over
<1>7. QED BY <1>4, <1>5, <1>6

\* What was read of the seconds that are over stays true.
LEMMA OverKeepsPage ==
  ASSUME PastInv, UpPcInv, FigureInv, BarInv, Over PROVE UpPcInv' /\ FigureInv' /\ BarInv'
<1>1. /\ PageStart \in Int /\ PageStart < pageNow /\ pageNow \in Nat
  BY PageStartIs
<1>2. /\ pageNow' = pageNow /\ upPc' = upPc /\ upRead' = upRead /\ PageStart' = PageStart
      /\ \A t \in Seconds : t < pageNow => held'[t] = held[t] /\ entered'[t] = entered[t]
      /\ pruned => pruned'
      /\ firstSeen' = firstSeen \/ (firstSeen' \in Nat /\ firstSeen' >= pageNow)
  BY DEF Over, PageStart
<1>3. \A t \in Nat : t < pageNow => t \in Seconds
  <2>1. pageNow <= MaxUpSeconds /\ MaxUpSeconds \in Nat
    BY PageStartIs
  <2>2. QED BY <1>1, <2>1 DEF Seconds
<1>4. UpPcInv'
  BY <1>2 DEF UpPcInv
<1>6. \A t \in PageStart..(pageNow - 1) : PageStart \in Seconds => t \in Seconds /\ held'[t] = held[t]
  BY <1>1, <1>2, <1>3 DEF Seconds
<1>7. PageStart \in Seconds => held'[PageStart] = held[PageStart]
  BY <1>1, <1>2
<1>8. PageStart \in Seconds /\ Settled => Settled'
  <2> SUFFICES ASSUME PageStart \in Seconds, Settled PROVE Settled'
    OBVIOUS
  <2>1. \A t \in PageStart..(pageNow - 1) :
          (\A r \in upRead.changes : r.at <= PageStart \/ r.at > t) => held'[t] = held'[PageStart]
    BY <1>6, <1>7 DEF Settled
  <2>2. QED BY <1>2, <2>1 DEF Settled
<1>9. RowsRead(upRead.changes) => RowsRead(upRead.changes)'
  BY <1>2 DEF RowsRead, Distinct, LastUpTo
<1>10. RowsRead(upRead.beats) => RowsRead(upRead.beats)'
  BY <1>2 DEF RowsRead, Distinct, LastUpTo
<1>11. ~pruned' /\ firstSeen' < pageNow' => ~pruned /\ firstSeen < pageNow /\ firstSeen' = firstSeen
  BY <1>1, <1>2, PastTypes
<1>12. FigureInv'
  <2>1. upPc' \in {"initial", "beatInitial", "beats", "served"} =>
          /\ RowsRead(upRead.changes)'
          /\ ~pruned' /\ firstSeen' < pageNow' =>
               /\ \A r \in upRead.changes : r.at >= firstSeen'
               /\ firstSeen' >= PageStart => \E r \in upRead.changes : r.at = firstSeen'
    BY <1>2, <1>9, <1>11 DEF FigureInv
  <2>2. upPc' = "initial" /\ (\E r \in history' : r.at <= PageStart) => Settled'
    <3> SUFFICES ASSUME upPc' = "initial", NEW r \in history', r.at <= PageStart PROVE Settled'
      OBVIOUS
    <3>1. r \in history
      <4>1. r \in history \/ (r.at \in Nat /\ r.at >= pageNow)
        BY DEF Over
      <4>2. CASE r.at \in Nat /\ r.at >= pageNow
        BY <1>1, <4>2
      <4>3. QED BY <4>1, <4>2
    <3>2. Settled
      BY <1>2, <3>1 DEF FigureInv
    <3>3. PageStart \in Seconds
      BY <1>1, <1>3, <3>1, PastTypes
    <3>4. QED BY <1>8, <3>2, <3>3
  <2>3. upPc' \in {"beatInitial", "beats", "served"} =>
          /\ upRead.initial \in UpStatuses \cup {UpUnknown}
          /\ upRead.initial # UpUnknown =>
               PageStart \in Seconds /\ upRead.initial = held'[PageStart] /\ Settled'
          /\ ~pruned' /\ firstSeen' < pageNow' => (upRead.initial # UpUnknown <=> firstSeen' <= PageStart)
    BY <1>2, <1>7, <1>8, <1>11 DEF FigureInv
  <2>4. QED BY <1>2, <2>1, <2>2, <2>3 DEF FigureInv
<1>13. HeldAt(PageStart)' = HeldAt(PageStart)
  BY <1>2, <1>7 DEF HeldAt
<1>14. BarInv'
  <2>1. upPc' \in {"beats", "served"} =>
          /\ upRead'.beatInitial \in UpStatuses \cup {UpUnknown}
          /\ ~pruned' => upRead'.beatInitial = HeldAt(PageStart)'
    BY <1>2, <1>13 DEF BarInv
  <2>2. upPc' = "served" => RowsRead(upRead.beats)'
    BY <1>2, <1>10 DEF BarInv
  <2>3. ASSUME upPc' = "served", ~pruned', NEW t \in Seconds, PageStart <= t, t < pageNow
        PROVE  /\ \A s \in UpStatuses : s \in entered'[t] <=> \E r \in upRead'.beats : r.at = t /\ r.status = s
               /\ (\A r \in upRead'.beats : r.at > t) => held'[t] = HeldAt(PageStart)'
    BY <1>2, <1>13, <2>3 DEF BarInv
  <2>4. QED BY <1>2, <2>1, <2>2, <2>3 DEF BarInv
<1>15. QED BY <1>4, <1>12, <1>14

\* What the two queries return.
LEMMA HistoryTells ==
  ASSUME PastInv PROVE RowsRead(StatusHistory(PageStart))
<1> DEFINE C == StatusHistory(PageStart)
<1>1. PageStart \in Int /\ pageNow \in Nat /\ upNow \in Nat /\ pageNow <= upNow
  BY PageStartIs
<1>2. \A r \in history : r.id \in Nat \ {0} /\ r.at \in Nat /\ r.status \in UpStatuses
  BY PastTypes
<1>3. C \subseteq history /\ \A r \in history : r \in C <=> r.at >= PageStart
  BY DEF StatusHistory
<1>4. IsFiniteSet(C) /\ Distinct(C)
  BY <1>3, FS_Subset DEF PastInv, Distinct
<1>5. C \subseteq [id : Nat \ {0}, status : UpStatuses, at : Nat]
  <2>1. history \subseteq [id : 1..lastRow, status : UpStatuses, at : 0..upNow]
    BY DEF PastInv
  <2>2. lastRow \in Nat
    BY DEF PastInv
  <2>3. QED BY <1>1, <1>3, <2>1, <2>2
<1> HIDE DEF C
<1>6. ASSUME NEW t \in Seconds, NEW r \in C, t < pageNow, LastUpTo(C, t, r) PROVE held[t] = r.status
  <2>1. LastUpTo(history, t, r)
    <3>1. r \in history /\ r.at <= t
      BY <1>3, <1>6 DEF LastUpTo
    <3>2. ASSUME NEW s \in history, s # r, s.at <= t PROVE Precedes(s, r)
      <4>1. CASE s \in C
        BY <1>6, <3>2, <4>1 DEF LastUpTo
      <4>2. CASE s \notin C
        BY <1>1, <1>2, <1>3, <4>2 DEF Precedes
      <4>3. QED BY <4>1, <4>2
    <3>3. QED BY <3>1, <3>2 DEF LastUpTo
  <2>2. t \in 0..upNow
    BY <1>1, <1>6, PastTypes
  <2>3. QED BY <1>3, <2>1, <2>2 DEF PastInv
<1>7. \A r \in C : r.at >= PageStart
  BY <1>3
<1>8. RowsRead(C)
  BY <1>4, <1>5, <1>6, <1>7 DEF RowsRead
<1>9. QED BY <1>8 DEF C

LEMMA StatusAtTells ==
  ASSUME PastInv, NEW t \in Int, t <= upNow
  PROVE  /\ (\A r \in history : r.at > t) => StatusAt(t) = UpUnknown
         /\ \A m \in history :
              m.at <= t => t \in Seconds /\ StatusAt(t) = held[t] /\ StatusAt(t) \in UpStatuses
<1> DEFINE P == {s \in history : s.at <= t}
<1>1. upNow \in Nat /\ MaxUpSeconds \in Nat /\ upNow <= MaxUpSeconds
  BY PageStartIs
<1>2. \A r \in history : r.id \in Nat \ {0} /\ r.at \in Nat /\ r.status \in UpStatuses
  BY PastTypes
<1>3. StatusAt(t) = IF P = {} THEN UpUnknown ELSE LatestRow(P).status
  BY DEF StatusAt, LastStatus
<1>4. (\A r \in history : r.at > t) => P = {}
  BY <1>2
<1>5. ASSUME NEW m \in history, m.at <= t
      PROVE  t \in Seconds /\ StatusAt(t) = held[t] /\ StatusAt(t) \in UpStatuses
  <2>1. IsFiniteSet(history) /\ Distinct(history) /\ \A r \in history : r.at \in Int /\ r.id \in Int
    BY <1>2 DEF PastInv
  <2>2. PICK r \in history : LastUpTo(history, t, r) /\ r = LatestRow(P)
    BY <1>5, <2>1, LastExists
  <2>3. t \in 0..upNow /\ t \in Seconds
    BY <1>1, <1>2, <1>5 DEF Seconds
  <2>4. m \in P
    BY <1>5
  <2>5. StatusAt(t) = r.status
    BY <1>3, <2>2, <2>4
  <2>6. QED BY <1>2, <2>2, <2>3, <2>5 DEF PastInv
<1>6. QED BY <1>3, <1>4, <1>5

LEMMA ReadingKeepsPast ==
  ASSUME PastInv, WholeInv, UNCHANGED <<upNow, history, lastRow, upTruth, pruned>>, pageNow' \in 0..upNow
  PROVE  PastInv' /\ WholeInv'
<1>1. UNCHANGED <<upNow, history, lastRow, entered, held, firstSeen, pruned>>
  BY DEF upTruth
<1>2. PastInv'
  BY <1>1 DEF PastInv, Distinct, LastUpTo
<1>3. WholeInv'
  BY <1>1 DEF WholeInv
<1>4. QED BY <1>2, <1>3

LEMMA AskedKeepsInv == ASSUME UptimeInv, PageAsked PROVE UptimeInv'
<1>1. PastInv' /\ WholeInv'
  <2>1. pageNow' \in 0..upNow
    BY PageStartIs DEF UptimeInv, PageAsked
  <2>2. QED BY <2>1, ReadingKeepsPast DEF UptimeInv, PageAsked
<1>2. UpPcInv' /\ FigureInv' /\ BarInv'
  BY DEF PageAsked, UpPcInv, FigureInv, BarInv, UptimeInv
<1>3. QED BY <1>1, <1>2 DEF UptimeInv

LEMMA SeenKeepsInv == ASSUME UptimeInv, PageSeen PROVE UptimeInv'
<1>1. PastInv' /\ WholeInv'
  <2>1. pageNow' \in 0..upNow
    BY PageStartIs DEF UptimeInv, PageSeen
  <2>2. QED BY <2>1, ReadingKeepsPast DEF UptimeInv, PageSeen
<1>2. UpPcInv' /\ FigureInv' /\ BarInv'
  BY DEF PageSeen, UpPcInv, FigureInv, BarInv, NothingRead
<1>3. QED BY <1>1, <1>2 DEF UptimeInv

\* The page reads on.
ReadsOn(from, to) ==
  /\ upPc = from /\ upPc' = to
  /\ upNow' = upNow /\ history' = history /\ pageNow' = pageNow /\ PageStart' = PageStart
  /\ entered' = entered /\ held' = held /\ firstSeen' = firstSeen /\ pruned' = pruned
  /\ PastInv' /\ WholeInv'

LEMMA ReadStepReads ==
  ASSUME UptimeInv, NEW from, NEW to, ReadStep(from, to) PROVE ReadsOn(from, to)
<1>1. UNCHANGED <<upNow, history, lastRow, pageNow, entered, held, firstSeen, pruned>>
  BY DEF ReadStep, upTruth
<1>2. pageNow' \in 0..upNow
  BY <1>1 DEF UptimeInv, PastInv
<1>3. PastInv' /\ WholeInv'
  BY <1>2, ReadingKeepsPast DEF UptimeInv, ReadStep
<1>4. QED BY <1>1, <1>3 DEF ReadsOn, ReadStep, PageStart

LEMMA ReadChangesKeepsInv == ASSUME UptimeInv, ReadChanges PROVE UptimeInv'
<1> DEFINE C == StatusHistory(PageStart)
<1>1. ReadsOn("changes", "initial")
  BY ReadStepReads DEF ReadChanges
<1>2. PastInv /\ WholeInv
  BY DEF UptimeInv
<1>3. RowsRead(C)
  BY <1>2, HistoryTells
<1>4. upRead'.changes = C
  BY DEF ReadChanges, UptimeInv, UpPcInv
<1>5. PageStart \in Int /\ PageStart < pageNow /\ pageNow \in Nat /\ pageNow <= upNow /\ upNow \in Nat
  BY <1>2, PageStartIs
<1>6. C \subseteq history /\ \A r \in history : r \in C <=> r.at >= PageStart
  BY DEF StatusHistory
<1> HIDE DEF C
<1>7. RowsRead(upRead.changes)'
  BY <1>1, <1>3, <1>4 DEF RowsRead, ReadsOn, Distinct, LastUpTo
<1>8. ASSUME ~pruned, firstSeen < pageNow
      PROVE  /\ \A r \in C : r.at >= firstSeen
             /\ firstSeen >= PageStart => \E r \in C : r.at = firstSeen
  <2>1. history # {}
    BY <1>2, <1>5, <1>8, PageStartIs DEF WholeInv
  <2>2. QED BY <1>2, <1>6, <1>8, <2>1 DEF WholeInv
<1>9. ASSUME NEW m \in history, m.at <= PageStart PROVE Settled'
  <2>1. PICK r \in history : LastUpTo(history, PageStart, r)
    <3>1. IsFiniteSet(history) /\ Distinct(history) /\ \A r \in history : r.at \in Int /\ r.id \in Int
      BY <1>2, PastTypes DEF PastInv
    <3>2. QED BY <1>5, <1>9, <3>1, LastExists
  <2>2. PageStart \in 0..upNow
    BY <1>2, <1>5, <1>9, PastTypes
  <2>3. held[PageStart] = r.status
    BY <1>2, <2>1, <2>2 DEF PastInv
  <2>4. ASSUME NEW t \in PageStart..(pageNow - 1), \A q \in C : q.at <= PageStart \/ q.at > t
        PROVE  held[t] = held[PageStart]
    <3>1. LastUpTo(history, t, r)
      <4>1. r.at <= t
        BY <1>2, <1>5, <2>1, PastTypes DEF LastUpTo
      <4>2. ASSUME NEW s \in history, s # r, s.at <= t PROVE Precedes(s, r)
        <5>1. s.at <= PageStart
          BY <1>2, <1>5, <1>6, <2>4, <4>2, PastTypes
        <5>2. QED BY <2>1, <4>2, <5>1 DEF LastUpTo
      <4>3. QED BY <2>1, <4>1, <4>2 DEF LastUpTo
    <3>2. t \in 0..upNow
      BY <1>5, <2>2
    <3>3. QED BY <1>2, <2>1, <2>3, <3>1, <3>2 DEF PastInv
  <2>5. QED BY <1>1, <1>4, <2>4 DEF Settled, ReadsOn
<1>10. FigureInv'
  BY <1>1, <1>4, <1>7, <1>8, <1>9 DEF FigureInv, ReadsOn
<1>11. BarInv' /\ UpPcInv'
  BY <1>1 DEF BarInv, UpPcInv, ReadsOn, ReadChanges, UptimeInv
<1>12. QED BY <1>1, <1>10, <1>11 DEF UptimeInv, ReadsOn

LEMMA ReadInitialKeepsInv == ASSUME UptimeInv, ReadInitial PROVE UptimeInv'
<1>1. ReadsOn("initial", "beatInitial")
  BY ReadStepReads DEF ReadInitial
<1>2. PastInv /\ WholeInv /\ FigureInv
  BY DEF UptimeInv
<1>3. upRead'.changes = upRead.changes /\ upRead'.initial = StatusAt(PageStart)
  BY DEF ReadInitial, UptimeInv
<1>4. PageStart \in Int /\ PageStart < pageNow /\ pageNow \in Nat /\ pageNow <= upNow /\ upNow \in Nat
  BY <1>2, PageStartIs
<1>5. UpUnknown \notin UpStatuses
  BY UptimeAssumption
<1>6. UpPcInv'
  BY <1>1 DEF UpPcInv, ReadsOn, ReadInitial, UptimeInv
<1>7. RowsRead(upRead.changes)'
  BY <1>1, <1>2, <1>3 DEF RowsRead, ReadsOn, Distinct, LastUpTo, FigureInv
<1>8. StatusAt(PageStart) # UpUnknown => \E r \in history : r.at <= PageStart
  BY <1>2, <1>4, StatusAtTells, PastTypes
<1>9. /\ StatusAt(PageStart) \in UpStatuses \cup {UpUnknown}
      /\ StatusAt(PageStart) # UpUnknown => PageStart \in Seconds /\ StatusAt(PageStart) = held[PageStart]
      /\ (\E r \in history : r.at <= PageStart) => StatusAt(PageStart) # UpUnknown
  BY <1>2, <1>4, <1>5, StatusAtTells, PastTypes
<1>10. StatusAt(PageStart) # UpUnknown => Settled'
  BY <1>1, <1>2, <1>3, <1>8 DEF FigureInv, Settled, ReadsOn
<1>11. ASSUME ~pruned, firstSeen < pageNow
       PROVE  StatusAt(PageStart) # UpUnknown <=> firstSeen <= PageStart
  <2>1. history # {}
    BY <1>2, <1>4, <1>11, PageStartIs DEF WholeInv
  <2>2. (\E r \in history : r.at = firstSeen) /\ \A r \in history : r.at >= firstSeen
    BY <1>2, <1>11, <2>1 DEF WholeInv
  <2>3. QED BY <1>2, <1>4, <1>8, <1>9, <2>2, PastTypes
<1>12. FigureInv'
  BY <1>1, <1>2, <1>3, <1>7, <1>9, <1>10, <1>11 DEF FigureInv, ReadsOn
<1>13. BarInv'
  BY <1>1 DEF BarInv, ReadsOn
<1>14. QED BY <1>1, <1>6, <1>12, <1>13 DEF UptimeInv, ReadsOn

LEMMA FigureStays ==
  ASSUME FigureInv, NEW from, NEW to, ReadsOn(from, to), from \in {"beatInitial", "beats"}, to \in {"beats", "served"},
         upRead'.changes = upRead.changes, upRead'.initial = upRead.initial
  PROVE  FigureInv'
<1>1. RowsRead(upRead.changes)'
  BY DEF RowsRead, ReadsOn, Distinct, LastUpTo, FigureInv
<1>2. Settled => Settled'
  BY DEF Settled, ReadsOn
<1>3. QED BY <1>1, <1>2 DEF FigureInv, ReadsOn

LEMMA ReadBeatInitialKeepsInv == ASSUME UptimeInv, ReadBeatInitial PROVE UptimeInv'
<1>1. ReadsOn("beatInitial", "beats")
  BY ReadStepReads DEF ReadBeatInitial
<1>2. PastInv /\ WholeInv /\ FigureInv
  BY DEF UptimeInv
<1>3. /\ upRead'.changes = upRead.changes /\ upRead'.initial = upRead.initial
      /\ upRead'.beatInitial = StatusAt(PageStart)
  BY DEF ReadBeatInitial, UptimeInv, UpPcInv
<1>4. PageStart \in Int /\ PageStart < pageNow /\ pageNow \in Nat /\ pageNow <= upNow /\ upNow \in Nat
  BY <1>2, PageStartIs
<1>5. FigureInv'
  BY <1>1, <1>2, <1>3, FigureStays
<1>6. UpPcInv'
  BY <1>1 DEF UpPcInv, ReadsOn, ReadBeatInitial, UptimeInv
<1>7. StatusAt(PageStart) \in UpStatuses \cup {UpUnknown}
  BY <1>2, <1>4, StatusAtTells, PastTypes
<1>8. ASSUME ~pruned PROVE StatusAt(PageStart) = HeldAt(PageStart)
  <2>1. CASE \E r \in history : r.at <= PageStart
    BY <1>2, <1>4, <2>1, StatusAtTells DEF HeldAt
  <2>2. CASE \A r \in history : r.at > PageStart
    <3>1. PageStart \in Seconds => PageStart \in 0..upNow
      BY <1>2, <1>4, PastTypes
    <3>2. PageStart \in Seconds => held[PageStart] = UpUnknown
      BY <1>2, <1>8, <2>2, <3>1 DEF WholeInv
    <3>3. StatusAt(PageStart) = UpUnknown
      BY <1>2, <1>4, <2>2, StatusAtTells
    <3>4. QED BY <3>2, <3>3 DEF HeldAt
  <2>3. QED BY <1>2, <1>4, <2>1, <2>2, PastTypes
<1>9. HeldAt(PageStart)' = HeldAt(PageStart)
  BY <1>1 DEF HeldAt, ReadsOn
<1>10. BarInv'
  BY <1>1, <1>3, <1>7, <1>8, <1>9 DEF BarInv, ReadsOn
<1>11. QED BY <1>1, <1>5, <1>6, <1>10 DEF UptimeInv, ReadsOn

LEMMA ReadBeatsKeepsInv == ASSUME UptimeInv, ReadBeats PROVE UptimeInv'
<1> DEFINE C == StatusHistory(PageStart)
<1>1. ReadsOn("beats", "served")
  BY ReadStepReads DEF ReadBeats
<1>2. PastInv /\ WholeInv /\ FigureInv /\ BarInv
  BY DEF UptimeInv
<1>3. /\ upRead'.changes = upRead.changes /\ upRead'.initial = upRead.initial
      /\ upRead'.beatInitial = upRead.beatInitial /\ upRead'.beats = C
  BY DEF ReadBeats, UptimeInv, UpPcInv
<1>4. PageStart \in Int /\ PageStart < pageNow /\ pageNow \in Nat /\ pageNow <= upNow /\ upNow \in Nat
  BY <1>2, PageStartIs
<1>5. FigureInv'
  BY <1>1, <1>2, <1>3, FigureStays
<1>6. UpPcInv'
  BY <1>1 DEF UpPcInv, ReadsOn, ReadBeats, UptimeInv
<1>7. RowsRead(C)
  BY <1>2, HistoryTells
<1>8. C \subseteq history /\ \A r \in history : r \in C <=> r.at >= PageStart
  BY DEF StatusHistory
<1> HIDE DEF C
<1>9. RowsRead(upRead.beats)'
  BY <1>1, <1>3, <1>7 DEF RowsRead, ReadsOn, Distinct, LastUpTo
<1>10. HeldAt(PageStart)' = HeldAt(PageStart)
  BY <1>1 DEF HeldAt, ReadsOn
<1>11. ASSUME ~pruned, NEW t \in Seconds, PageStart <= t, t < pageNow
       PROVE  /\ \A s \in UpStatuses : s \in entered[t] <=> \E r \in C : r.at = t /\ r.status = s
              /\ (\A r \in C : r.at > t) => held[t] = HeldAt(PageStart)
  <2>1. t \in 0..upNow
    BY <1>2, <1>4, <1>11, PastTypes
  <2>2. \A s \in UpStatuses : s \in entered[t] <=> \E r \in C : r.at = t /\ r.status = s
    BY <1>2, <1>8, <1>11, <2>1 DEF WholeInv
  <2>3. ASSUME \A r \in C : r.at > t PROVE held[t] = HeldAt(PageStart)
    <3>1. CASE \E r \in history : r.at <= PageStart
      <4>1. PICK m \in history : m.at <= PageStart
        BY <3>1
      <4>2. PICK r \in history : LastUpTo(history, PageStart, r)
        <5>1. IsFiniteSet(history) /\ Distinct(history) /\ \A r \in history : r.at \in Int /\ r.id \in Int
          BY <1>2, PastTypes DEF PastInv
        <5>2. QED BY <1>4, <4>1, <5>1, LastExists
      <4>3. PageStart \in 0..upNow /\ PageStart \in Seconds
        BY <1>2, <1>4, <4>1, PageStartIs, PastTypes DEF Seconds
      <4>4. LastUpTo(history, t, r)
        <5>1. r.at <= t
          BY <1>2, <1>4, <1>11, <2>1, <4>2, PastTypes DEF LastUpTo
        <5>2. ASSUME NEW s \in history, s # r, s.at <= t PROVE Precedes(s, r)
          <6>1. s.at <= PageStart
            BY <1>2, <1>4, <1>8, <2>1, <2>3, <5>2, PastTypes
          <6>2. QED BY <4>2, <5>2, <6>1 DEF LastUpTo
        <5>3. QED BY <4>2, <5>1, <5>2 DEF LastUpTo
      <4>5. QED BY <1>2, <2>1, <4>2, <4>3, <4>4 DEF PastInv, HeldAt
    <3>2. CASE \A r \in history : r.at > PageStart
      <4>1. \A r \in history : r.at > t
        BY <1>2, <1>4, <1>8, <2>1, <2>3, <3>2, PastTypes
      <4>2. held[t] = UpUnknown
        BY <1>2, <1>11, <2>1, <4>1 DEF WholeInv
      <4>3. PageStart \in Seconds => PageStart \in 0..upNow
        BY <1>2, <1>4, PastTypes
      <4>4. PageStart \in Seconds => held[PageStart] = UpUnknown
        BY <1>2, <1>11, <3>2, <4>3 DEF WholeInv
      <4>5. QED BY <4>2, <4>4 DEF HeldAt
    <3>3. QED BY <1>2, <1>4, <3>1, <3>2, PastTypes
  <2>4. QED BY <2>2, <2>3
<1>12. BarInv'
  BY <1>1, <1>2, <1>3, <1>9, <1>10, <1>11 DEF BarInv, ReadsOn
<1>13. QED BY <1>1, <1>5, <1>6, <1>12 DEF UptimeInv, ReadsOn

LEMMA UptimeKeepsInv == UptimeInv /\ [UptimeNext]_upVars => UptimeInv'
<1> SUFFICES ASSUME UptimeInv, [UptimeNext]_upVars PROVE UptimeInv'
  OBVIOUS
<1>1. CASE SecondTicks
  BY <1>1, TickKeepsPast, OverKeepsPage DEF UptimeInv
<1>2. ASSUME NEW s \in UpStatuses, StatusChanges(s) PROVE UptimeInv'
  BY <1>2, ChangeKeepsPast, OverKeepsPage DEF UptimeInv
<1>3. CASE HistoryPruned
  BY <1>3, PruneKeepsPast, OverKeepsPage DEF UptimeInv
<1>4. CASE PageAsked
  BY <1>4, AskedKeepsInv
<1>5. CASE ReadChanges
  BY <1>5, ReadChangesKeepsInv
<1>6. CASE ReadInitial
  BY <1>6, ReadInitialKeepsInv
<1>7. CASE ReadBeatInitial
  BY <1>7, ReadBeatInitialKeepsInv
<1>8. CASE ReadBeats
  BY <1>8, ReadBeatsKeepsInv
<1>9. CASE PageSeen
  BY <1>9, SeenKeepsInv
<1>10. CASE UNCHANGED upVars
  <2>1. Over /\ UNCHANGED <<upNow, history, lastRow, upTruth, pruned>> /\ pageNow' = pageNow
    BY <1>10 DEF upVars, Over, upTruth
  <2>2. PastInv' /\ WholeInv'
    BY <2>1, ReadingKeepsPast DEF UptimeInv, PastInv
  <2>3. QED BY <2>1, <2>2, OverKeepsPage DEF UptimeInv
<1>11. QED BY <1>1, <1>2, <1>3, <1>4, <1>5, <1>6, <1>7, <1>8, <1>9, <1>10 DEF UptimeNext

\* How the seconds before the page's now are counted: those of one segment.
Spell(r) == IF r.status = "healthy" THEN r.at..(SegmentEnd(r) - 1) ELSE {}

\* The segments: rows that begin at the start and tell of every second from it on.
LEMMA SegmentsTell ==
  ASSUME PastInv, FigureInv, upPc = "served", upRead.initial # UpUnknown \/ upRead.changes # {},
         Counted.start < pageNow
  PROVE  /\ Counted.start \in Nat
         /\ IsFiniteSet(Segments) /\ Distinct(Segments)
         /\ \A r \in Segments : r.id \in Nat /\ r.at \in Nat /\ r.at >= Counted.start /\ r.at <= pageNow
         /\ \E r \in Segments : r.at = Counted.start
         /\ \A t \in Counted.start..(pageNow - 1) : \A r \in Segments : LastUpTo(Segments, t, r) => held[t] = r.status
<1> DEFINE C == upRead.changes
           first == [id |-> 0, status |-> upRead.initial, at |-> PageStart]
           start == Counted.start
<1>1. PageStart \in Int /\ PageStart < pageNow /\ pageNow \in Nat /\ pageNow <= upNow /\ upNow \in Nat
  BY PageStartIs
<1>2. /\ IsFiniteSet(C) /\ Distinct(C) /\ C \subseteq [id : Nat \ {0}, status : UpStatuses, at : Nat]
      /\ \A r \in C : r.at >= PageStart
      /\ \A t \in Seconds : \A r \in C : t < pageNow /\ LastUpTo(C, t, r) => held[t] = r.status
  BY DEF FigureInv, RowsRead
<1>3. \A r \in C : r.id \in Nat \ {0} /\ r.at \in Nat
  BY <1>2
<1>4. \A t \in Nat : t < pageNow => t \in Seconds
  <2>1. MaxUpSeconds \in Nat /\ upNow <= MaxUpSeconds
    BY PageStartIs
  <2>2. QED BY <1>1, <2>1 DEF Seconds
<1> HIDE DEF C
<1>5. CASE upRead.initial = UpUnknown
  <2>1. C # {} /\ start = OldestRow(C).at /\ Counted.rows = C
    BY <1>5 DEF Counted, C
  <2>2. OldestRow(C) \in C /\ \A s \in C \ {OldestRow(C)} : Precedes(OldestRow(C), s)
    BY <1>2, <1>3, <2>1, RowsHaveEnds
  <2>3. start \in Nat /\ \A r \in C : r.at >= start
    BY <1>3, <2>1, <2>2 DEF Precedes
  <2>4. Segments = {r \in C : r.at <= pageNow}
    BY <2>1 DEF Segments
  <2>5. IsFiniteSet(Segments) /\ Distinct(Segments)
    BY <1>2, <2>4, FS_Subset DEF Distinct
  <2>6. OldestRow(C) \in Segments
    BY <1>1, <1>3, <2>1, <2>2, <2>3, <2>4
  <2>7. ASSUME NEW t \in start..(pageNow - 1), NEW r \in Segments, LastUpTo(Segments, t, r) PROVE held[t] = r.status
    <3>1. t \in Nat /\ t < pageNow /\ t \in Seconds
      BY <1>1, <1>4, <2>3
    <3>2. LastUpTo(C, t, r)
      BY <1>1, <1>3, <2>4, <2>7, <3>1 DEF LastUpTo
    <3>3. QED BY <1>2, <2>4, <3>1, <3>2
  <2>8. QED BY <1>3, <2>1, <2>2, <2>3, <2>4, <2>5, <2>6, <2>7
<1>6. CASE upRead.initial # UpUnknown
  <2>1. start = PageStart /\ Counted.rows = {first} \cup {r \in C : r.at > PageStart}
    BY <1>6 DEF Counted, C
  <2>2. PageStart \in Seconds /\ upRead.initial = held[PageStart] /\ Settled
    BY <1>6 DEF FigureInv
  <2>3. PageStart \in Nat
    BY <2>2, PastTypes
  <2>4. first.id = 0 /\ first.at = PageStart /\ first.status = upRead.initial
    OBVIOUS
  <2> HIDE DEF first
  <2>5. \A r : r \in Segments <=> r = first \/ (r \in C /\ r.at > PageStart /\ r.at <= pageNow)
    BY <1>1, <2>1, <2>4 DEF Segments
  <2>6. IsFiniteSet(Segments)
    <3>1. Segments \subseteq C \cup {first}
      BY <2>5
    <3>2. QED BY <1>2, <3>1, FS_AddElement, FS_Subset
  <2>7. Distinct(Segments)
    BY <1>2, <1>3, <2>4, <2>5 DEF Distinct
  <2>8. ASSUME NEW t \in start..(pageNow - 1), NEW r \in Segments, LastUpTo(Segments, t, r) PROVE held[t] = r.status
    <3>1. t \in Nat /\ t < pageNow /\ t \in Seconds /\ PageStart <= t
      BY <1>1, <1>4, <2>1, <2>3
    <3>2. CASE r = first
      <4>1. \A q \in C : q.at <= PageStart \/ q.at > t
        <5> SUFFICES ASSUME NEW q \in C, q.at > PageStart, q.at <= t PROVE FALSE
          BY <1>3, <2>3, <3>1
        <5>1. q \in Segments /\ q # r
          BY <1>1, <1>3, <2>4, <2>5, <3>1, <3>2
        <5>2. Precedes(q, r)
          BY <2>8, <5>1 DEF LastUpTo
        <5>3. QED BY <1>3, <2>3, <2>4, <3>2, <5>2 DEF Precedes
      <4>2. t \in PageStart..(pageNow - 1)
        BY <2>1
      <4>3. held[t] = held[PageStart]
        BY <2>2, <4>1, <4>2 DEF Settled, C
      <4>4. QED BY <2>2, <2>4, <3>2, <4>3
    <3>3. CASE r # first
      <4>1. r \in C /\ r.at > PageStart
        BY <2>5, <3>3
      <4>2. LastUpTo(C, t, r)
        <5>1. r.at <= t
          BY <2>8 DEF LastUpTo
        <5>2. ASSUME NEW s \in C, s # r, s.at <= t PROVE Precedes(s, r)
          <6>1. CASE s.at > PageStart
            <7>1. s \in Segments
              BY <1>1, <1>3, <2>5, <3>1, <5>2, <6>1
            <7>2. QED BY <2>8, <5>2, <7>1 DEF LastUpTo
          <6>2. CASE s.at <= PageStart
            BY <1>3, <2>3, <4>1, <6>2 DEF Precedes
          <6>3. QED BY <1>3, <2>3, <6>1, <6>2
        <5>3. QED BY <4>1, <5>1, <5>2 DEF LastUpTo
      <4>3. QED BY <1>2, <3>1, <4>1, <4>2
    <3>4. QED BY <3>2, <3>3
  <2>9. \A r \in Segments : r.id \in Nat /\ r.at \in Nat /\ r.at >= start /\ r.at <= pageNow
    BY <1>1, <1>3, <2>1, <2>3, <2>4, <2>5
  <2>10. \E r \in Segments : r.at = start
    BY <2>1, <2>4, <2>5
  <2>11. QED BY <2>1, <2>3, <2>6, <2>7, <2>8, <2>9, <2>10
<1>7. QED BY <1>5, <1>6

\* A segment ends where the next one begins.
LEMMA SegmentEnds ==
  ASSUME IsFiniteSet(Segments), Distinct(Segments), pageNow \in Nat,
         \A r \in Segments : r.id \in Nat /\ r.at \in Nat /\ r.at <= pageNow,
         NEW r \in Segments
  PROVE  /\ SegmentEnd(r) \in Nat /\ r.at <= SegmentEnd(r) /\ SegmentEnd(r) <= pageNow
         /\ \A s \in Segments : Precedes(r, s) => SegmentEnd(r) <= s.at
         /\ SegmentEnd(r) = pageNow \/ \E s \in Segments : Precedes(r, s) /\ SegmentEnd(r) = s.at
<1> DEFINE L == {s \in Segments : Precedes(r, s)}
<1>1. SegmentEnd(r) = IF L = {} THEN pageNow ELSE OldestRow(L).at
  BY DEF SegmentEnd
<1>2. IsFiniteSet(L) /\ Distinct(L) /\ \A s \in L : s.id \in Int /\ s.at \in Int
  BY FS_Subset DEF Distinct
<1>3. \A s \in L : s \in Segments /\ Precedes(r, s)
  OBVIOUS
<1>4. \A s \in Segments : Precedes(r, s) => s \in L
  OBVIOUS
<1> HIDE DEF L
<1>5. CASE L = {}
  BY <1>1, <1>4, <1>5
<1>6. CASE L # {}
  <2>1. OldestRow(L) \in L /\ \A s \in L \ {OldestRow(L)} : Precedes(OldestRow(L), s)
    BY <1>2, <1>6, RowsHaveEnds
  <2>2. SegmentEnd(r) = OldestRow(L).at
    BY <1>1, <1>6
  <2>3. \A s \in L : OldestRow(L).at <= s.at
    BY <1>3, <2>1 DEF Precedes
  <2>4. OldestRow(L) \in Segments /\ Precedes(r, OldestRow(L))
    BY <1>3, <2>1
  <2>5. r.at <= OldestRow(L).at
    BY <2>4 DEF Precedes
  <2>6. QED BY <1>4, <2>2, <2>3, <2>4, <2>5
<1>7. QED BY <1>5, <1>6

\* The figure counts every healthy second from where it begins, once.
LEMMA HealthyTimeCounts ==
  ASSUME PastInv, FigureInv, upPc = "served", upRead.initial # UpUnknown \/ upRead.changes # {},
         Counted.start < pageNow
  PROVE  HealthyTime = Cardinality({t \in Counted.start..(pageNow - 1) : held[t] = "healthy"})
<1> DEFINE start == Counted.start
           time == [r \in Segments |-> IF r.status = "healthy" THEN SegmentEnd(r) - r.at ELSE 0]
           spells == [r \in Segments |-> Spell(r)]
           U == {t \in start..(pageNow - 1) : held[t] = "healthy"}
<1>1. /\ start \in Nat
      /\ IsFiniteSet(Segments) /\ Distinct(Segments)
      /\ \A r \in Segments : r.id \in Nat /\ r.at \in Nat /\ r.at >= start /\ r.at <= pageNow
      /\ \E r \in Segments : r.at = start
      /\ \A t \in start..(pageNow - 1) : \A r \in Segments : LastUpTo(Segments, t, r) => held[t] = r.status
  BY SegmentsTell
<1>2. pageNow \in Nat
  BY PageStartIs
<1>3. \A r \in Segments :
        /\ SegmentEnd(r) \in Nat /\ r.at <= SegmentEnd(r) /\ SegmentEnd(r) <= pageNow
        /\ \A s \in Segments : Precedes(r, s) => SegmentEnd(r) <= s.at
        /\ SegmentEnd(r) = pageNow \/ \E s \in Segments : Precedes(r, s) /\ SegmentEnd(r) = s.at
  BY <1>1, <1>2, SegmentEnds
<1>4. HealthyTime = SumOver(time, Segments)
  BY DEF HealthyTime, SumOver
<1>5. \A r \in Segments : spells[r] = Spell(r) /\ time[r] = IF r.status = "healthy" THEN SegmentEnd(r) - r.at ELSE 0
  OBVIOUS
<1> HIDE DEF start, time, spells
<1>6. \A r \in Segments : IsFiniteSet(spells[r]) /\ time[r] = Cardinality(spells[r])
  <2> SUFFICES ASSUME NEW r \in Segments PROVE IsFiniteSet(spells[r]) /\ time[r] = Cardinality(spells[r])
    OBVIOUS
  <2>1. CASE r.status = "healthy"
    <3>1. spells[r] = r.at..(SegmentEnd(r) - 1)
      BY <1>5, <2>1 DEF Spell
    <3>2. r.at \in Int /\ SegmentEnd(r) - 1 \in Int
      BY <1>1, <1>3
    <3>3. Cardinality(spells[r]) = IF r.at > SegmentEnd(r) - 1 THEN 0 ELSE SegmentEnd(r) - 1 - r.at + 1
      BY <3>1, <3>2, FS_Interval
    <3>4. IsFiniteSet(spells[r])
      BY <3>1, <3>2, FS_Interval
    <3>5. QED BY <1>1, <1>3, <1>5, <2>1, <3>3, <3>4
  <2>2. CASE r.status # "healthy"
    BY <1>5, <2>2, FS_EmptySet DEF Spell
  <2>3. QED BY <2>1, <2>2
<1>7. \A r, s \in Segments : r # s => spells[r] \cap spells[s] = {}
  <2>1. \A r, s \in Segments : Precedes(r, s) => Spell(r) \cap Spell(s) = {}
    BY <1>1, <1>3 DEF Spell
  <2>2. \A r, s \in Segments : r # s => Precedes(r, s) \/ Precedes(s, r)
    BY <1>1 DEF Precedes, Distinct
  <2>3. QED BY <1>5, <2>1, <2>2
<1>8. ASSUME NEW t \in start..(pageNow - 1)
      PROVE  \E r \in Segments : LastUpTo(Segments, t, r) /\ r.at <= t /\ t < SegmentEnd(r)
  <2>1. PICK m \in Segments : m.at = start
    BY <1>1
  <2>2. PICK r \in Segments : LastUpTo(Segments, t, r)
    <3>1. \A q \in Segments : q.at \in Int /\ q.id \in Int
      BY <1>1
    <3>2. t \in Int /\ m.at <= t
      BY <1>1, <1>2, <2>1
    <3>3. QED BY <1>1, <3>1, <3>2, LastExists
  <2>3. t < SegmentEnd(r)
    <3>1. CASE SegmentEnd(r) = pageNow
      BY <1>1, <1>2, <3>1
    <3>2. ASSUME NEW s \in Segments, Precedes(r, s), SegmentEnd(r) = s.at PROVE t < SegmentEnd(r)
      <4>1. s # r /\ ~Precedes(s, r)
        BY <1>1, <3>2 DEF Precedes
      <4>2. ~(s.at <= t)
        BY <2>2, <4>1 DEF LastUpTo
      <4>3. QED BY <1>1, <1>2, <3>2, <4>2
    <3>3. QED BY <1>3, <3>1, <3>2
  <2>4. QED BY <2>2, <2>3 DEF LastUpTo
<1>9. /\ \A r \in Segments : spells[r] \subseteq U
      /\ \A t \in U : \E r \in Segments : t \in spells[r]
  <2>1. ASSUME NEW r \in Segments, NEW t \in spells[r] PROVE t \in start..(pageNow - 1) /\ held[t] = "healthy"
    <3>1. r.status = "healthy" /\ t \in r.at..(SegmentEnd(r) - 1)
      BY <1>5, <2>1 DEF Spell
    <3>2. t \in start..(pageNow - 1) /\ t \in Nat /\ r.at <= t /\ t < SegmentEnd(r)
      BY <1>1, <1>2, <1>3, <3>1
    <3>3. LastUpTo(Segments, t, r)
      <4>1. ASSUME NEW s \in Segments, s # r, s.at <= t PROVE Precedes(s, r)
        <5>1. ~Precedes(r, s)
          BY <1>1, <1>3, <3>2, <4>1
        <5>2. QED BY <1>1, <4>1, <5>1 DEF Precedes, Distinct
      <4>2. QED BY <3>2, <4>1 DEF LastUpTo
    <3>4. QED BY <1>1, <3>1, <3>2, <3>3
  <2>2. ASSUME NEW t \in start..(pageNow - 1), held[t] = "healthy" PROVE \E r \in Segments : t \in spells[r]
    <3>1. PICK r \in Segments : LastUpTo(Segments, t, r) /\ r.at <= t /\ t < SegmentEnd(r)
      BY <1>8
    <3>2. r.status = "healthy"
      BY <1>1, <2>2, <3>1
    <3>3. t \in r.at..(SegmentEnd(r) - 1)
      BY <1>1, <1>2, <1>3, <3>1
    <3>4. QED BY <1>5, <3>2, <3>3 DEF Spell
  <2>3. QED BY <2>1, <2>2 DEF U
<1>10. SumOver(time, Segments) = Cardinality(U)
  <2> DEFINE R == Segments
  <2>1. IsFiniteSet(R) /\ \A x \in R : IsFiniteSet(spells[x])
    BY <1>1, <1>6
  <2>2. \A x \in R : time[x] = Cardinality(spells[x])
    BY <1>6
  <2>3. \A x, y \in R : x # y => spells[x] \cap spells[y] = {}
    BY <1>7
  <2>4. (\A x \in R : spells[x] \subseteq U) /\ \A u \in U : \E x \in R : u \in spells[x]
    BY <1>9
  <2> HIDE DEF R, U
  <2>5. SumOver(time, R) = Cardinality(U)
    BY <2>1, <2>2, <2>3, <2>4, SumOfDisjoint
  <2>6. QED BY <2>5 DEF R
<1>11. QED BY <1>4, <1>10 DEF start, U

LEMMA FigureIsTrue == UptimeInv => UptimeIsTrue
<1> SUFFICES ASSUME UptimeInv, upPc = "served" PROVE UptimeIsTrue
  BY DEF UptimeIsTrue
<1>1. PastInv /\ FigureInv
  BY DEF UptimeInv
<1>2. PageStart \in Int /\ PageStart < pageNow /\ pageNow \in Nat /\ pageNow <= upNow /\ upNow \in Nat
  BY <1>1, PageStartIs
<1>3. PageStart = pageNow - UpWindow /\ UpWindow \in Nat
  BY UptimeAssumption DEF PageStart
<1>4. CASE upRead.initial = UpUnknown /\ upRead.changes = {}
  <2>1. ~UptimeFor.observed
    BY <1>4 DEF UptimeFor
  <2>2. ~(~pruned /\ firstSeen < pageNow)
    BY <1>1, <1>2, <1>4, PastTypes DEF FigureInv
  <2>3. QED BY <2>1, <2>2 DEF UptimeIsTrue
<1>5. CASE ~(upRead.initial = UpUnknown /\ upRead.changes = {})
  <2>1. UptimeFor = IF Counted.start >= pageNow
                    THEN [observed |-> TRUE, window |-> 0, healthy |-> 0]
                    ELSE [observed |-> TRUE, window |-> pageNow - Counted.start, healthy |-> HealthyTime]
    BY <1>5 DEF UptimeFor
  <2>2. Counted.start \in Int
    <3>1. CASE upRead.initial # UpUnknown
      BY <1>2, <3>1 DEF Counted
    <3>2. CASE upRead.initial = UpUnknown
      <4>1. /\ IsFiniteSet(upRead.changes) /\ Distinct(upRead.changes) /\ upRead.changes # {}
            /\ \A r \in upRead.changes : r.at \in Int /\ r.id \in Int
        BY <1>1, <1>5, <3>2 DEF FigureInv, RowsRead
      <4>2. OldestRow(upRead.changes) \in upRead.changes
        BY <4>1, RowsHaveEnds
      <4>3. QED BY <3>2, <4>1, <4>2 DEF Counted
    <3>3. QED BY <3>1, <3>2
  <2>3. UptimeFor.healthy = Cardinality({s \in Observed : s >= 0 /\ held[s] = "healthy"})
    <3>1. CASE Counted.start >= pageNow
      <4>1. UptimeFor.window = 0 /\ UptimeFor.healthy = 0
        BY <2>1, <3>1
      <4>2. Observed = {}
        BY <1>2, <4>1 DEF Observed
      <4>3. {s \in Observed : s >= 0 /\ held[s] = "healthy"} = {}
        BY <4>2
      <4>4. QED BY <4>1, <4>3, FS_EmptySet
    <3>2. CASE Counted.start < pageNow
      <4>1. UptimeFor.window = pageNow - Counted.start /\ UptimeFor.healthy = HealthyTime
        BY <1>2, <2>1, <2>2, <3>2
      <4>2. Counted.start \in Nat
        BY <1>1, <1>5, <3>2, SegmentsTell
      <4>3. Observed = Counted.start..(pageNow - 1)
        <5>1. pageNow - (pageNow - Counted.start) = Counted.start
          BY <1>2, <2>2
        <5>2. QED BY <4>1, <5>1 DEF Observed
      <4>4. {s \in Observed : s >= 0 /\ held[s] = "healthy"} = {t \in Counted.start..(pageNow - 1) : held[t] = "healthy"}
        BY <1>2, <4>2, <4>3
      <4>5. HealthyTime = Cardinality({t \in Counted.start..(pageNow - 1) : held[t] = "healthy"})
        BY <1>1, <1>5, <3>2, HealthyTimeCounts
      <4>6. QED BY <4>1, <4>4, <4>5
    <3>3. QED BY <1>2, <2>2, <3>1, <3>2
  <2>4. ASSUME ~pruned, firstSeen < pageNow
        PROVE  UptimeFor.observed /\ UptimeFor.window = pageNow - Max({PageStart, firstSeen})
    <3>1. firstSeen \in Nat
      BY <1>1, PastTypes
    <3>2. Max({PageStart, firstSeen}) = IF firstSeen <= PageStart THEN PageStart ELSE firstSeen
      <4>1. /\ Max({PageStart, firstSeen}) \in {PageStart, firstSeen}
            /\ \A y \in {PageStart, firstSeen} : Max({PageStart, firstSeen}) >= y
        <5>1. \E x \in {PageStart, firstSeen} : \A y \in {PageStart, firstSeen} : x >= y
          BY <1>2, <3>1
        <5>2. QED BY <5>1 DEF Max
      <4>2. QED BY <1>2, <3>1, <4>1
    <3>3. CASE firstSeen <= PageStart
      <4>1. Counted.start = PageStart
        BY <1>1, <2>4, <3>3 DEF FigureInv, Counted
      <4>2. QED BY <1>2, <2>1, <3>2, <3>3, <4>1
    <3>4. CASE firstSeen > PageStart
      <4>1. upRead.initial = UpUnknown
        BY <1>1, <1>2, <2>4, <3>1, <3>4 DEF FigureInv
      <4>2. Counted.start = OldestRow(upRead.changes).at
        BY <4>1 DEF Counted
      <4>3. /\ IsFiniteSet(upRead.changes) /\ Distinct(upRead.changes) /\ upRead.changes # {}
            /\ \A r \in upRead.changes : r.at \in Nat /\ r.id \in Int
        BY <1>1, <1>5, <4>1 DEF FigureInv, RowsRead
      <4>4. /\ OldestRow(upRead.changes) \in upRead.changes
            /\ \A s \in upRead.changes \ {OldestRow(upRead.changes)} : Precedes(OldestRow(upRead.changes), s)
        BY <4>3, RowsHaveEnds
      <4>5. (\A r \in upRead.changes : r.at >= firstSeen) /\ \E r \in upRead.changes : r.at = firstSeen
        BY <1>1, <1>2, <2>4, <3>1, <3>4 DEF FigureInv
      <4>6. Counted.start = firstSeen
        <5>1. PICK q \in upRead.changes : q.at = firstSeen
          BY <4>5
        <5>2. OldestRow(upRead.changes).at <= q.at
          BY <4>3, <4>4 DEF Precedes
        <5>3. QED BY <3>1, <4>2, <4>3, <4>4, <4>5, <5>1, <5>2
      <4>7. UptimeFor.observed /\ UptimeFor.window = pageNow - firstSeen
        BY <1>2, <2>1, <2>4, <3>1, <4>6
      <4>8. Max({PageStart, firstSeen}) = firstSeen
        BY <1>2, <3>1, <3>2, <3>4
      <4>9. QED BY <4>7, <4>8
    <3>5. QED BY <1>2, <3>1, <3>3, <3>4
  <2>5. QED BY <2>3, <2>4 DEF UptimeIsTrue
<1>6. QED BY <1>4, <1>5

\* The availability figure is the share of the seconds it covers that the
\* tunnel was healthy, whatever was written or pruned while the page was built,
\* and covers the window or all the time the tunnel has been watched, for every
\* window, retention and history.
THEOREM FiguresAreTrue == UptimeSpec => []UptimeIsTrue
<1>1. UptimeSpec => []UptimeInv
  BY UptimeStart, UptimeKeepsInv, PTL DEF UptimeSpec
<1>2. QED BY <1>1, FigureIsTrue, PTL

\* The segments of the bar divide the window.
LEMMA BucketsAreInWindow ==
  ASSUME PastInv, NEW i \in 1..UpBuckets
  PROVE  /\ Width \in Nat /\ BucketStart(i) \in Int
         /\ PageStart <= BucketStart(i) /\ BucketStart(i) + Width <= pageNow
<1>1. UpBuckets \in Nat \ {0} /\ UpWindow \in Nat \ {0} /\ UpWindow % UpBuckets = 0
  BY UptimeAssumption
<1>2. Width \in Nat
  BY <1>1 DEF Width
<1>3. UpBuckets * Width = UpWindow
  BY <1>1 DEF Width
<1> DEFINE w == Width
<1>4. w \in Nat /\ UpBuckets * w = UpWindow /\ PageStart = pageNow - UpWindow /\ BucketStart(i) = PageStart + (i - 1) * w
  BY <1>2, <1>3 DEF PageStart, BucketStart
<1> HIDE DEF w
<1>5. i \in Nat /\ i >= 1 /\ i <= UpBuckets
  BY <1>1
<1>6. (i - 1) * w \in Nat
  BY <1>4, <1>5
<1>7. (i - 1) * w + w = i * w
  BY <1>4, <1>5
<1>8. i * w <= UpBuckets * w
  <2>1. (UpBuckets - i) * w \in Nat
    BY <1>1, <1>4, <1>5
  <2>2. (UpBuckets - i) * w = UpBuckets * w - i * w
    BY <1>1, <1>4, <1>5
  <2>3. UpBuckets * w \in Nat /\ i * w \in Nat
    BY <1>1, <1>4, <1>5
  <2>4. QED BY <2>1, <2>2, <2>3
<1>9. pageNow \in Nat
  BY PageStartIs
<1>10. i * w \in Nat /\ UpWindow \in Nat
  BY <1>1, <1>4, <1>5
<1>11. PageStart + (i - 1) * w + w <= pageNow
  BY <1>4, <1>6, <1>7, <1>8, <1>9, <1>10
<1>12. QED BY <1>4, <1>6, <1>9, <1>10, <1>11 DEF w

LEMMA WorstIsWorst ==
  ASSUME NEW S, S \subseteq UpStatuses \cup {UpUnknown}, S # {}
  PROVE  WorstStatus(S) \in S /\ \A t \in S : StatusRank(t) <= StatusRank(WorstStatus(S))
<1>1. \A s \in S : s = UpUnknown \/ s \in {"healthy", "degraded", "down", "inactive"}
  BY UptimeAssumption DEF Graded
<1>2. UpUnknown \notin {"healthy", "degraded", "down", "inactive"}
  BY UptimeAssumption DEF Graded
<1>3. /\ StatusRank("down") = 4 /\ StatusRank("degraded") = 3 /\ StatusRank("inactive") = 2
      /\ StatusRank("healthy") = 1 /\ StatusRank(UpUnknown) = 0
  BY <1>2 DEF StatusRank
<1>4. \E s \in S : \A t \in S : StatusRank(t) <= StatusRank(s)
  <2>1. CASE "down" \in S
    BY <1>1, <1>3, <2>1
  <2>2. CASE "down" \notin S /\ "degraded" \in S
    BY <1>1, <1>3, <2>2
  <2>3. CASE "down" \notin S /\ "degraded" \notin S /\ "inactive" \in S
    BY <1>1, <1>3, <2>3
  <2>4. CASE "down" \notin S /\ "degraded" \notin S /\ "inactive" \notin S /\ "healthy" \in S
    BY <1>1, <1>3, <2>4
  <2>5. CASE \A s \in S : s = UpUnknown
    BY <1>3, <2>5
  <2>6. QED BY <1>1, <2>1, <2>2, <2>3, <2>4, <2>5
<1>5. QED BY <1>4 DEF WorstStatus

LEMMA BarIsTrue == UptimeInv => HeartbeatsHideNothing
<1> SUFFICES ASSUME UptimeInv, upPc = "served", ~pruned, NEW i \in 1..UpBuckets
             PROVE  /\ \A s \in Lived(i) : StatusRank(s) <= StatusRank(BuildHeartbeats[i])
                    /\ BuildHeartbeats[i] = UpUnknown \/ BuildHeartbeats[i] \in Lived(i) \cup BeganWith(i)
                         \cup {held[Max({BucketStart(i), 0})]}
  BY DEF HeartbeatsHideNothing
<1> DEFINE C == upRead.beats
           T == BucketStart(i)
           past == {r \in C : r.at < T}
           entering == {r.status : r \in Within(i)}
           S == {CurrentAt(T)} \cup entering
<1>1. PastInv /\ BarInv
  BY DEF UptimeInv
<1>2. PageStart \in Int /\ PageStart < pageNow /\ pageNow \in Nat /\ pageNow <= upNow /\ upNow \in Nat
  BY <1>1, PageStartIs
<1>3. Width \in Nat /\ T \in Int /\ PageStart <= T /\ T + Width <= pageNow
  BY <1>1, BucketsAreInWindow
<1>4. /\ IsFiniteSet(C) /\ Distinct(C) /\ C \subseteq [id : Nat \ {0}, status : UpStatuses, at : Nat]
      /\ \A r \in C : r.at >= PageStart
      /\ \A t \in Seconds : \A r \in C : t < pageNow /\ LastUpTo(C, t, r) => held[t] = r.status
  BY <1>1 DEF BarInv, RowsRead
<1>5. \A r \in C : r.id \in Nat /\ r.at \in Nat /\ r.status \in UpStatuses
  BY <1>4
<1>6. upRead.beatInitial \in UpStatuses \cup {UpUnknown} /\ upRead.beatInitial = HeldAt(PageStart)
  BY <1>1 DEF BarInv
<1>7. \A t \in Seconds : PageStart <= t /\ t < pageNow =>
        /\ \A s \in UpStatuses : s \in entered[t] <=> \E r \in C : r.at = t /\ r.status = s
        /\ (\A r \in C : r.at > t) => held[t] = HeldAt(PageStart)
  BY <1>1 DEF BarInv
<1>8. \A t \in Nat : t < pageNow => t \in Seconds
  <2>1. MaxUpSeconds \in Nat /\ upNow <= MaxUpSeconds
    BY <1>1, PageStartIs
  <2>2. QED BY <1>2, <2>1 DEF Seconds
<1>9. BuildHeartbeats[i] = WorstStatus(S)
  BY DEF BuildHeartbeats, Worst
<1>10. \A s : s \in entering <=> \E r \in C : r.status = s /\ r.at >= T /\ r.at < T + Width
  BY DEF Within
<1>11. CurrentAt(T) = IF past = {} THEN upRead.beatInitial ELSE LatestRow(past).status
  BY DEF CurrentAt, LastStatus
<1>12. \A r : r \in past <=> r \in C /\ r.at < T
  OBVIOUS
<1> HIDE DEF C, T, past, entering
<1>13. \A s : s \in Lived(i) <=> s \in entering
  <2>1. ASSUME NEW s \in Lived(i) PROVE s \in entering
    <3>1. PICK t \in Seconds : t >= T /\ t < T + Width /\ s \in entered[t]
      BY DEF Lived, T
    <3>2. s \in UpStatuses
      BY DEF Lived
    <3>3. PageStart <= t /\ t < pageNow
      BY <1>1, <1>2, <1>3, <3>1, PastTypes
    <3>4. QED BY <1>7, <1>10, <3>1, <3>2, <3>3
  <2>2. ASSUME NEW s \in entering PROVE s \in Lived(i)
    <3>1. PICK r \in C : r.status = s /\ r.at >= T /\ r.at < T + Width
      BY <1>10
    <3>2. r.at \in Seconds /\ PageStart <= r.at /\ r.at < pageNow
      BY <1>2, <1>3, <1>5, <1>8, <3>1
    <3>3. s \in UpStatuses /\ s \in entered[r.at]
      BY <1>5, <1>7, <3>1, <3>2
    <3>4. QED BY <3>1, <3>2, <3>3 DEF Lived, T
  <2>3. QED BY <2>1, <2>2
<1>14. CASE past # {}
  <2>1. PICK m \in past : TRUE
    BY <1>14
  <2>2. IsFiniteSet(past) /\ Distinct(past) /\ \A r \in past : r.at \in Int /\ r.id \in Int
    <3>1. past \subseteq C
      BY <1>12
    <3>2. IsFiniteSet(past)
      BY <1>4, <3>1, FS_Subset
    <3>3. QED BY <1>4, <1>5, <3>1, <3>2 DEF Distinct
  <2>3. LatestRow(past) \in past /\ \A s \in past \ {LatestRow(past)} : Precedes(s, LatestRow(past))
    BY <1>14, <2>2, RowsHaveEnds
  <2>4. LastUpTo(C, T - 1, LatestRow(past))
    <3>1. \A s \in C : s.at <= T - 1 => s \in past
      BY <1>3, <1>5, <1>12
    <3>2. LatestRow(past) \in C /\ LatestRow(past).at <= T - 1
      BY <1>3, <1>5, <1>12, <2>3
    <3>3. QED BY <2>3, <3>1, <3>2 DEF LastUpTo
  <2>5. T - 1 \in Seconds /\ T - 1 < pageNow
    BY <1>2, <1>3, <1>5, <1>8, <1>12, <2>1
  <2>6. CurrentAt(T) = held[T - 1]
    BY <1>4, <1>11, <1>12, <1>14, <2>3, <2>4, <2>5
  <2>7. CurrentAt(T) \in UpStatuses
    BY <1>5, <1>11, <1>12, <1>14, <2>3
  <2>8. CurrentAt(T) \in BeganWith(i)
    BY <2>5, <2>6 DEF BeganWith, T
  <2>9. WorstStatus(S) \in S /\ \A t \in S : StatusRank(t) <= StatusRank(WorstStatus(S))
    <3>1. S \subseteq UpStatuses \cup {UpUnknown}
      BY <1>5, <1>10, <2>7
    <3>2. QED BY <3>1, WorstIsWorst
  <2>10. QED BY <1>9, <1>13, <2>8, <2>9
<1>15. CASE past = {}
  <2>1. CurrentAt(T) = HeldAt(PageStart) /\ CurrentAt(T) \in UpStatuses \cup {UpUnknown}
    BY <1>6, <1>11, <1>15
  <2>2. WorstStatus(S) \in S /\ \A t \in S : StatusRank(t) <= StatusRank(WorstStatus(S))
    <3>1. S \subseteq UpStatuses \cup {UpUnknown}
      BY <1>5, <1>10, <2>1
    <3>2. QED BY <3>1, WorstIsWorst
  <2>3. CurrentAt(T) = UpUnknown \/ CurrentAt(T) \in BeganWith(i) \cup {held[Max({T, 0})]}
    <3>1. CASE PageStart \notin Seconds
      BY <2>1, <3>1 DEF HeldAt
    <3>2. CASE PageStart \in Seconds /\ T = PageStart
      <4>1. T \in Nat
        BY <1>1, <3>2, PastTypes
      <4>2. Max({T, 0}) = T
        <5>1. Max({T, 0}) \in {T, 0} /\ \A y \in {T, 0} : Max({T, 0}) >= y
          <6>1. \E x \in {T, 0} : \A y \in {T, 0} : x >= y
            BY <4>1
          <6>2. QED BY <6>1 DEF Max
        <5>2. QED BY <4>1, <5>1
      <4>3. QED BY <2>1, <3>2, <4>2 DEF HeldAt
    <3>3. CASE PageStart \in Seconds /\ T # PageStart
      <4>1. PageStart \in Nat
        BY <1>1, <3>3, PastTypes
      <4>2. T - 1 \in Seconds /\ PageStart <= T - 1 /\ T - 1 < pageNow
        BY <1>2, <1>3, <1>8, <3>3, <4>1
      <4>3. \A r \in C : r.at > T - 1
        BY <1>3, <1>5, <1>12, <1>15
      <4>4. held[T - 1] = HeldAt(PageStart)
        BY <1>7, <4>2, <4>3
      <4>5. QED BY <2>1, <4>2, <4>4 DEF BeganWith, T
    <3>4. QED BY <3>1, <3>2, <3>3
  <2>4. QED BY <1>9, <1>13, <2>2, <2>3 DEF T
<1>16. QED BY <1>14, <1>15

\* The heartbeat bar never draws a segment better than the worst status the
\* tunnel went through in it, nor worse than any it had, for every window and
\* every number of segments that divides it.
THEOREM HeartbeatsAreTrue == UptimeSpec => []HeartbeatsHideNothing
<1>1. UptimeSpec => []UptimeInv
  BY UptimeStart, UptimeKeepsInv, PTL DEF UptimeSpec
<1>2. QED BY <1>1, BarIsTrue, PTL

-----------------------------------------------------------------------------
(* The quality chart of a hostname.                                        *)

ResultRows == [at : Int, class : {"ok", "failed", "excluded"}, ms : Nat]

ChartInv == chartNow \in Int /\ samples \in Seq(ResultRows)

LEMMA ChartStart == QualityInit => ChartInv
BY QualityAssumption DEF QualityInit, ChartInv

LEMMA ChartStep == ChartInv /\ [QualityNext]_chartVars => ChartInv'
<1> SUFFICES ASSUME ChartInv, [QualityNext]_chartVars PROVE ChartInv'
  OBVIOUS
<1>1. CASE ChartSecond
  BY <1>1 DEF ChartInv, ChartSecond
<1>2. ASSUME NEW o \in SampleKinds, NEW age \in 0..RoundLength, SampleStored(o, age) PROVE ChartInv'
  <2> DEFINE new == [at |-> chartNow - age, class |-> o.class, ms |-> o.ms]
  <2>1. o.class \in {"ok", "failed", "excluded"} /\ o.ms \in Nat
    <3>1. o \in [class : {"ok"}, ms : Latencies] \/ o \in [class : {"failed", "excluded"}, ms : {0}]
      BY DEF SampleKinds
    <3>2. CASE o \in [class : {"ok"}, ms : Latencies]
      BY <3>2, QualityAssumption
    <3>3. CASE o \in [class : {"failed", "excluded"}, ms : {0}]
      BY <3>3
    <3>4. QED BY <3>1, <3>2, <3>3
  <2>2. age \in Int /\ chartNow - age \in Int
    BY QualityAssumption DEF ChartInv
  <2>3. new \in ResultRows
    BY <2>1, <2>2 DEF ResultRows
  <2>4. samples' = Append(samples, new) /\ chartNow' = chartNow
    BY <1>2 DEF SampleStored
  <2> HIDE DEF new
  <2>5. QED BY <2>3, <2>4 DEF ChartInv
<1>3. CASE UNCHANGED chartVars
  BY <1>3 DEF ChartInv, chartVars
<1>4. QED BY <1>1, <1>2, <1>3 DEF QualityNext

Rows == ProbeHistory

\* The rows of the query: each result of the window once, in order.
LEMMA RowsAre ==
  ASSUME ChartInv
  PROVE  /\ Len(Rows) \in Nat /\ Len(Rows) = Cardinality(InChart) /\ DOMAIN Rows = 1..Len(Rows)
         /\ \A n \in 1..Len(Rows) : /\ Rows[n] \in ResultRows
                                    /\ Rows[n].at > Since /\ Rows[n].at <= chartNow
         /\ \A m, n \in 1..Len(Rows) : m <= n => Rows[m].at <= Rows[n].at
<1> DEFINE S == InChart
           below == [i \in S |-> {j \in S : SampleEarlier(j, i)}]
           rank == [i \in S |-> Cardinality(below[i])]
           at(n) == CHOOSE i \in S : Cardinality({j \in S : SampleEarlier(j, i)}) = n - 1
           size == Cardinality(S)
<1>1. \A i \in DOMAIN samples : samples[i] \in ResultRows /\ samples[i].at \in Int /\ i \in Nat
  <2>1. samples \in Seq(ResultRows)
    BY DEF ChartInv
  <2>2. \A i \in DOMAIN samples : samples[i] \in ResultRows /\ i \in Nat
    BY <2>1
  <2>3. \A r \in ResultRows : r.at \in Int
    BY DEF ResultRows
  <2>4. QED BY <2>2, <2>3
<1>2. IsFiniteSet(S)
  <2>1. DOMAIN samples = 1..Len(samples) /\ Len(samples) \in Nat
    BY DEF ChartInv
  <2>2. IsFiniteSet(1..Len(samples))
    BY <2>1, FS_Interval
  <2>3. S \in SUBSET (1..Len(samples))
    BY <2>1 DEF InChart
  <2>4. QED BY <2>2, <2>3, FS_Subset
<1>3. \A i \in S : i \in DOMAIN samples /\ samples[i].at > Since /\ samples[i].at <= chartNow
  BY DEF InChart
<1>4. size \in Nat
  BY <1>2, FS_CardinalityType
<1> HIDE DEF S
<1>5. \A x \in S : below[x] \subseteq S /\ x \notin below[x]
  BY <1>1, <1>3 DEF SampleEarlier
<1>6. \A x, y \in S : x = y \/ x \in below[y] \/ y \in below[x]
  BY <1>1, <1>3 DEF SampleEarlier
<1>7. \A x, y \in S : y \in below[x] => below[y] \subseteq below[x]
  BY <1>1, <1>3 DEF SampleEarlier
<1>8. \A x \in S : rank[x] = Cardinality(below[x])
  OBVIOUS
<1>9. \A x \in S : below[x] = {j \in S : SampleEarlier(j, x)}
  OBVIOUS
<1>10. /\ \A x \in S : rank[x] \in Nat /\ rank[x] < size
       /\ \A x, y \in S : y \in below[x] <=> rank[y] < rank[x]
       /\ \A n \in Nat : n < size => \E x \in S : rank[x] = n
  <2> HIDE DEF below, rank
  <2>1. QED BY <1>2, <1>5, <1>6, <1>7, <1>8, Listing
<1>11. \A n \in 1..size : at(n) \in S /\ rank[at(n)] = n - 1
  <2> SUFFICES ASSUME NEW n \in 1..size PROVE at(n) \in S /\ rank[at(n)] = n - 1
    OBVIOUS
  <2>1. \E i \in S : rank[i] = n - 1
    <3>1. n - 1 \in Nat /\ n - 1 < size
      BY <1>4
    <3> HIDE DEF rank, size
    <3>2. QED BY <1>10, <3>1
  <2>2. \E i \in S : Cardinality({j \in S : SampleEarlier(j, i)}) = n - 1
    BY <1>8, <1>9, <2>1
  <2>3. at(n) \in S /\ Cardinality({j \in S : SampleEarlier(j, at(n))}) = n - 1
    BY <2>2
  <2>4. QED BY <1>8, <1>9, <2>3
<1>12. Rows = [n \in 1..size |-> samples[at(n)]]
  BY DEF Rows, ProbeHistory, S
<1> HIDE DEF below, rank, at, size
<1>13. Rows \in Seq(ResultRows) /\ Len(Rows) = size
  <2>1. Rows \in [1..size -> ResultRows]
    BY <1>1, <1>3, <1>11, <1>12
  <2>2. QED BY <1>4, <2>1
<1>14. DOMAIN Rows = 1..size
  BY <1>12
<1>15. \A n \in 1..size : Rows[n] = samples[at(n)]
  BY <1>12
<1>16. ASSUME NEW m \in 1..size, NEW n \in 1..size, m <= n PROVE Rows[m].at <= Rows[n].at
  <2>1. CASE m = n
    BY <1>1, <1>3, <1>11, <1>15, <2>1
  <2>2. CASE m # n
    <3>1. rank[at(m)] < rank[at(n)]
      BY <1>4, <1>11, <1>16, <2>2
    <3>2. at(m) \in below[at(n)]
      BY <1>10, <1>11, <3>1
    <3>3. SampleEarlier(at(m), at(n))
      BY <1>9, <1>11, <3>2
    <3>4. QED BY <1>1, <1>3, <1>11, <1>15, <3>3 DEF SampleEarlier
  <2>3. QED BY <2>1, <2>2
<1>17. \A n \in 1..size : Rows[n] \in ResultRows /\ Rows[n].at > Since /\ Rows[n].at <= chartNow
  BY <1>1, <1>3, <1>11, <1>15
<1>18. QED BY <1>4, <1>13, <1>14, <1>16, <1>17 DEF size, S

LEMMA BucketIs ==
  ASSUME ChartInv
  PROVE  /\ \A n \in 1..Len(Rows) : BucketOf(Rows[n]) \in ChartSegments
         /\ \A m, n \in 1..Len(Rows) : m <= n => BucketOf(Rows[m]) <= BucketOf(Rows[n])
<1> DEFINE d(n) == (Rows[n].at - Since) \div ChartWidth
<1>1. ChartWidth \in Nat \ {0} /\ ChartBuckets \in Nat \ {0} /\ chartNow \in Int
  BY QualityAssumption DEF ChartInv
<1>2. Since \in Int
  BY <1>1 DEF Since
<1>3. \A n \in 1..Len(Rows) : Rows[n].at \in Int /\ Rows[n].at - Since \in Nat /\ d(n) \in Nat
  <2> SUFFICES ASSUME NEW n \in 1..Len(Rows) PROVE Rows[n].at \in Int /\ Rows[n].at - Since \in Nat /\ d(n) \in Nat
    OBVIOUS
  <2>1. Rows[n] \in ResultRows /\ Rows[n].at > Since
    BY RowsAre
  <2>2. Rows[n].at \in Int
    BY <2>1 DEF ResultRows
  <2> DEFINE x == Rows[n].at - Since
  <2>3. x \in Nat
    BY <1>2, <2>1, <2>2
  <2> HIDE DEF x
  <2>4. x \div ChartWidth \in Nat
    BY <1>1, <2>3
  <2>5. QED BY <2>2, <2>3, <2>4 DEF x
<1>4. \A m, n \in 1..Len(Rows) : m <= n => d(m) <= d(n)
  <2> SUFFICES ASSUME NEW m \in 1..Len(Rows), NEW n \in 1..Len(Rows), m <= n PROVE d(m) <= d(n)
    OBVIOUS
  <2>1. Rows[m].at - Since <= Rows[n].at - Since
    BY <1>2, <1>3, RowsAre
  <2>2. \A x, y \in Nat : x <= y => x \div ChartWidth <= y \div ChartWidth
    <3> SUFFICES ASSUME NEW x \in Nat, NEW y \in Nat, x <= y PROVE x \div ChartWidth <= y \div ChartWidth
      OBVIOUS
    <3> DEFINE w == ChartWidth
               p == x \div w
               q == y \div w
    <3>1. p \in Nat /\ q \in Nat /\ w \in Nat /\ w > 0
      BY <1>1
    <3>2. w * p <= x /\ y < w * (q + 1)
      BY <1>1
    <3> HIDE DEF p, q, w
    <3>3. w * p < w * (q + 1)
      BY <3>1, <3>2
    <3>4. p < q + 1
      <4>1. CASE p >= q + 1
        <5>1. (p - (q + 1)) * w \in Nat
          BY <3>1, <4>1
        <5>2. (p - (q + 1)) * w = w * p - w * (q + 1)
          BY <3>1
        <5>3. QED BY <3>1, <3>3, <5>1, <5>2
      <4>2. QED BY <3>1, <4>1
    <3>5. p <= q
      BY <3>1, <3>4
    <3>6. QED BY <3>5 DEF p, q, w
  <2>3. QED BY <1>3, <2>1, <2>2
<1> HIDE DEF d
<1>5. \A n \in 1..Len(Rows) : BucketOf(Rows[n]) = IF d(n) <= ChartBuckets - 1 THEN d(n) ELSE ChartBuckets - 1
  <2> SUFFICES ASSUME NEW n \in 1..Len(Rows)
               PROVE  BucketOf(Rows[n]) = IF d(n) <= ChartBuckets - 1 THEN d(n) ELSE ChartBuckets - 1
    OBVIOUS
  <2>1. BucketOf(Rows[n]) = Min({d(n), ChartBuckets - 1})
    BY DEF BucketOf, d
  <2>2. Min({d(n), ChartBuckets - 1}) \in {d(n), ChartBuckets - 1}
        /\ \A y \in {d(n), ChartBuckets - 1} : Min({d(n), ChartBuckets - 1}) <= y
    <3>1. \E x \in {d(n), ChartBuckets - 1} : \A y \in {d(n), ChartBuckets - 1} : x <= y
      BY <1>1, <1>3
    <3>2. QED BY <3>1 DEF Min
  <2>3. d(n) \in Int /\ ChartBuckets - 1 \in Int
    BY <1>1, <1>3
  <2>4. CASE d(n) <= ChartBuckets - 1
    BY <2>1, <2>2, <2>3, <2>4
  <2>5. CASE ~(d(n) <= ChartBuckets - 1)
    BY <2>1, <2>2, <2>3, <2>5
  <2>6. QED BY <2>4, <2>5
<1>6. \A n \in 1..Len(Rows) : BucketOf(Rows[n]) \in ChartSegments
  BY <1>1, <1>3, <1>5 DEF ChartSegments
<1>7. QED BY <1>1, <1>3, <1>4, <1>5, <1>6

-----------------------------------------------------------------------------
(* The loop over the rows.                                                 *)

Fresh == [buckets |-> [i \in ChartSegments |-> NoBucket], previous |-> NoSample]

IsChartTurns(f, n) == f = [m \in 0..n |-> IF m = 0 THEN Fresh ELSE Accumulate(f[m - 1], Rows[m])]

ChartTurns == CHOOSE f : IsChartTurns(f, Len(Rows))

LEMMA ChartTurnsExist == ASSUME ChartInv PROVE IsChartTurns(ChartTurns, Len(Rows))
<1> DEFINE Bad == {n \in Nat : ~ \E f : IsChartTurns(f, n)}
<1>1. Bad = {}
  <2> SUFFICES ASSUME Bad # {} PROVE FALSE
    OBVIOUS
  <2>1. PICK n \in Bad : \A m \in Bad : n <= m
    <3>1. Bad \subseteq Nat
      OBVIOUS
    <3> HIDE DEF Bad
    <3>2. QED BY <3>1, LeastNumber
  <2>2. CASE n = 0
    <3>1. IsChartTurns([m \in 0..0 |-> Fresh], 0)
      BY DEF IsChartTurns
    <3>2. QED BY <2>2, <3>1
  <2>3. CASE n # 0
    <3>1. n \in Nat /\ n - 1 \in Nat /\ n - 1 < n
      BY <2>3
    <3>2. n - 1 \notin Bad
      BY <2>1, <3>1
    <3>3. PICK f : IsChartTurns(f, n - 1)
      BY <3>1, <3>2
    <3> DEFINE g == [m \in 0..n |-> IF m = n THEN Accumulate(f[n - 1], Rows[n]) ELSE f[m]]
    <3>4. f = [m \in 0..(n - 1) |-> IF m = 0 THEN Fresh ELSE Accumulate(f[m - 1], Rows[m])]
      BY <3>3 DEF IsChartTurns
    <3>5. \A m \in 0..n : g[m] = IF m = 0 THEN Fresh ELSE Accumulate(g[m - 1], Rows[m])
      <4> SUFFICES ASSUME NEW m \in 0..n PROVE g[m] = IF m = 0 THEN Fresh ELSE Accumulate(g[m - 1], Rows[m])
        OBVIOUS
      <4>1. CASE m = n
        <5>1. g[m] = Accumulate(f[n - 1], Rows[n]) /\ g[n - 1] = f[n - 1]
          BY <3>1, <4>1
        <5>2. QED BY <2>3, <4>1, <5>1
      <4>2. CASE m # n
        <5>1. m \in 0..(n - 1) /\ g[m] = f[m]
          BY <3>1, <4>2
        <5>2. m # 0 => g[m - 1] = f[m - 1]
          BY <3>1, <4>2
        <5>3. f[m] = IF m = 0 THEN Fresh ELSE Accumulate(f[m - 1], Rows[m])
          BY <3>4, <5>1
        <5>4. QED BY <5>1, <5>2, <5>3
      <4>3. QED BY <4>1, <4>2
    <3>6. IsChartTurns(g, n)
      <4> DEFINE h == [m \in 0..n |-> IF m = 0 THEN Fresh ELSE Accumulate(g[m - 1], Rows[m])]
      <4>1. g = [m \in 0..n |-> g[m]]
        OBVIOUS
      <4>2. g = h
        BY <3>5, <4>1
      <4>3. QED BY <4>2 DEF IsChartTurns
    <3>7. QED BY <3>6
  <2>4. QED BY <2>2, <2>3
<1>2. Len(Rows) \in Nat
  BY RowsAre
<1>3. \E f : IsChartTurns(f, Len(Rows))
  BY <1>1, <1>2
<1>4. QED BY <1>3 DEF ChartTurns

LEMMA ChartIsLastTurn ==
  ASSUME ChartInv
  PROVE  /\ BuildQuality = ChartTurns[Len(Rows)].buckets
         /\ ChartTurns[0] = Fresh
         /\ \A n \in 1..Len(Rows) : ChartTurns[n] = Accumulate(ChartTurns[n - 1], Rows[n])
<1>1. ChartTurns = [m \in 0..Len(Rows) |-> IF m = 0 THEN Fresh ELSE Accumulate(ChartTurns[m - 1], Rows[m])]
  BY ChartTurnsExist DEF IsChartTurns
<1>2. Len(Rows) \in Nat
  BY RowsAre
<1>3. BuildQuality = ChartTurns[Len(Rows)].buckets
  BY DEF BuildQuality, ChartTurns, IsChartTurns, Fresh, Rows
<1>4. ChartTurns[0] = Fresh
  BY <1>1, <1>2
<1>5. \A n \in 1..Len(Rows) : ChartTurns[n] = Accumulate(ChartTurns[n - 1], Rows[n])
  BY <1>1, <1>2
<1>6. QED BY <1>3, <1>4, <1>5

-----------------------------------------------------------------------------
(* What the segments hold after some of the rows.                          *)

RowsIn(i, n) == {k \in 1..n : BucketOf(Rows[k]) = i}
OfClass(i, n, class) == {k \in RowsIn(i, n) : Rows[k].class = class}
Follows(k) ==
  /\ k >= 2 /\ Rows[k].class = "ok" /\ Rows[k - 1].class = "ok"
  /\ Rows[k].at # Rows[k - 1].at /\ Rows[k].at - Rows[k - 1].at <= MaxGap
Pairs(i, n) == {k \in RowsIn(i, n) : Follows(k)}
Span == [k \in 1..Len(Rows) |-> Distance(Rows[k].ms, Rows[k - 1].ms)]

Buckets == [count : Nat, failures : Nat, excluded : Nat, pairs : Nat, variation : Int,
            first : Int, last : Int, broken : BOOLEAN]

Counts(b, i, n) ==
  /\ b \in Buckets
  /\ b.count = Cardinality(OfClass(i, n, "ok"))
  /\ b.failures = Cardinality(OfClass(i, n, "failed"))
  /\ b.excluded = Cardinality(OfClass(i, n, "excluded"))
  /\ b.pairs = Cardinality(Pairs(i, n))
  /\ b.variation = SumOver(Span, Pairs(i, n))
  /\ b.broken \/ \A k \in RowsIn(i, n) :
       /\ Rows[k].class = "ok"
       /\ k - 1 \in RowsIn(i, n) => Rows[k].at - Rows[k - 1].at <= MaxGap
  /\ b.count > 0 => \E k \in OfClass(i, n, "ok") : b.first = Rows[k].at
  /\ b.count > 0 => \E k \in OfClass(i, n, "ok") : b.last = Rows[k].at

Remembered(n) ==
  IF n > 0 /\ Rows[n].class = "ok" THEN [at |-> Rows[n].at, class |-> "ok", ms |-> Rows[n].ms] ELSE NoSample

TurnInv(n) ==
  /\ ChartTurns[n] = [buckets |-> ChartTurns[n].buckets, previous |-> Remembered(n)]
  /\ DOMAIN ChartTurns[n].buckets = ChartSegments
  /\ ChartTurns[n].buckets = [i \in ChartSegments |-> ChartTurns[n].buckets[i]]
  /\ \A i \in ChartSegments : Counts(ChartTurns[n].buckets[i], i, n)

LEMMA FirstTurn == ASSUME ChartInv PROVE TurnInv(0)
<1>1. ChartTurns[0] = Fresh
  BY ChartIsLastTurn
<1>2. \A i : RowsIn(i, 0) = {} /\ Pairs(i, 0) = {} /\ \A c : OfClass(i, 0, c) = {}
  BY DEF RowsIn, Pairs, OfClass
<1>3. \A i \in ChartSegments : Counts(NoBucket, i, 0)
  BY <1>2, FS_EmptySet, SumEmpty DEF Counts, NoBucket, Buckets
<1>4. ChartTurns[0] = [buckets |-> [i \in ChartSegments |-> NoBucket], previous |-> NoSample]
  BY <1>1 DEF Fresh
<1>5. Remembered(0) = NoSample
  BY DEF Remembered
<1>6. QED BY <1>3, <1>4, <1>5 DEF TurnInv

-----------------------------------------------------------------------------
(* One more row.                                                           *)

\* What a row makes of its segment, figure by figure.
LEMMA AddedResponse ==
  ASSUME NEW b \in Buckets, NEW before, NEW r \in ResultRows, r.class = "ok",
         Paired(before, r) => before.ms \in Int
  PROVE  /\ Added(b, before, r) \in Buckets
         /\ Added(b, before, r).count = b.count + 1
         /\ Added(b, before, r).failures = b.failures
         /\ Added(b, before, r).excluded = b.excluded
         /\ Added(b, before, r).pairs = IF Paired(before, r) THEN b.pairs + 1 ELSE b.pairs
         /\ Added(b, before, r).variation =
              IF Paired(before, r) THEN b.variation + Distance(r.ms, before.ms) ELSE b.variation
         /\ Added(b, before, r).first = IF b.count = 0 THEN r.at ELSE b.first
         /\ Added(b, before, r).last = r.at
         /\ Added(b, before, r).broken = (b.broken \/ GapBreaks(before, r, b.count + 1))
<1> DEFINE paired == Paired(before, r)
           breaks == GapBreaks(before, r, b.count + 1)
           d == Distance(r.ms, before.ms)
<1>1. Added(b, before, r) =
        [b EXCEPT !.count = @ + 1, !.last = r.at,
                  !.first = IF b.count = 0 THEN r.at ELSE @,
                  !.pairs = IF paired THEN @ + 1 ELSE @,
                  !.variation = IF paired THEN @ + d ELSE @,
                  !.broken = @ \/ breaks]
  BY Zenon DEF Added
<1>2. r.at \in Int /\ r.ms \in Int /\ breaks \in BOOLEAN
  BY DEF ResultRows, GapBreaks
<1>3. paired => d \in Int
  BY <1>2 DEF Distance
<1> HIDE DEF paired, breaks, d
<1>4. Added(b, before, r) \in Buckets
  <2>2. b.count + 1 \in Nat /\ (IF b.count = 0 THEN r.at ELSE b.first) \in Int
    BY <1>2 DEF Buckets
  <2>3. (IF paired THEN b.pairs + 1 ELSE b.pairs) \in Nat
    BY DEF Buckets
  <2>4. (IF paired THEN b.variation + d ELSE b.variation) \in Int
    BY <1>3 DEF Buckets
  <2>5. (b.broken \/ breaks) \in BOOLEAN
    BY <1>2 DEF Buckets
  <2> DEFINE c == b.count + 1
             f == IF b.count = 0 THEN r.at ELSE b.first
             p == IF paired THEN b.pairs + 1 ELSE b.pairs
             v == IF paired THEN b.variation + d ELSE b.variation
             k == b.broken \/ breaks
             l == r.at
  <2>6. c \in Nat /\ p \in Nat /\ l \in Int /\ f \in Int /\ v \in Int /\ k \in BOOLEAN
    BY <1>2, <2>2, <2>3, <2>4, <2>5
  <2>7. Added(b, before, r) =
          [b EXCEPT !.count = c, !.last = l, !.first = f, !.pairs = p, !.variation = v, !.broken = k]
    BY <1>1, Zenon
  <2> HIDE DEF c, f, p, v, k, l
  <2>8. QED BY <2>6, <2>7 DEF Buckets
<1>5. QED
  <2>1. /\ Added(b, before, r).count = b.count + 1
        /\ Added(b, before, r).failures = b.failures
        /\ Added(b, before, r).excluded = b.excluded
    BY <1>1 DEF Buckets
  <2>2. /\ Added(b, before, r).pairs = IF paired THEN b.pairs + 1 ELSE b.pairs
        /\ Added(b, before, r).variation = IF paired THEN b.variation + d ELSE b.variation
    BY <1>1 DEF Buckets
  <2>3. /\ Added(b, before, r).first = IF b.count = 0 THEN r.at ELSE b.first
        /\ Added(b, before, r).last = r.at
        /\ Added(b, before, r).broken = (b.broken \/ breaks)
    BY <1>1 DEF Buckets
  <2>4. QED BY <1>4, <2>1, <2>2, <2>3 DEF paired, breaks, d

LEMMA AddedOther ==
  ASSUME NEW b \in Buckets, NEW before, NEW r \in ResultRows, r.class # "ok"
  PROVE  LET a == Added(b, before, r)
         IN /\ a \in Buckets /\ a.broken
            /\ a.count = b.count /\ a.pairs = b.pairs /\ a.variation = b.variation
            /\ a.first = b.first /\ a.last = b.last
            /\ a.failures = IF r.class = "failed" THEN b.failures + 1 ELSE b.failures
            /\ a.excluded = IF r.class = "excluded" THEN b.excluded + 1 ELSE b.excluded
<1>1. CASE r.class = "failed"
  <2>1. Added(b, before, r) = [b EXCEPT !.failures = @ + 1, !.broken = TRUE]
    <3>1. "failed" # "ok" /\ "failed" # "excluded"
      OBVIOUS
    <3>2. QED BY <1>1, <3>1, Zenon DEF Added
  <2> DEFINE a == Added(b, before, r)
  <2>2. /\ a.count = b.count /\ a.pairs = b.pairs /\ a.variation = b.variation
        /\ a.first = b.first /\ a.last = b.last
    BY <2>1 DEF Buckets
  <2>3. a.failures = b.failures + 1 /\ a.excluded = b.excluded /\ a.broken
    BY <2>1 DEF Buckets
  <2>4. a \in Buckets
    <3>1. b.failures + 1 \in Nat
      BY DEF Buckets
    <3>2. \A k \in Nat : [b EXCEPT !.failures = k, !.broken = TRUE] \in Buckets
      BY DEF Buckets
    <3>3. QED BY <2>1, <3>1, <3>2
  <2>5. QED BY <1>1, <2>2, <2>3, <2>4
<1>2. CASE r.class = "excluded"
  <2>1. Added(b, before, r) = [b EXCEPT !.excluded = @ + 1, !.broken = TRUE]
    <3>1. "excluded" # "ok" /\ "excluded" # "failed"
      OBVIOUS
    <3>2. QED BY <1>2, <3>1, Zenon DEF Added
  <2> DEFINE a == Added(b, before, r)
  <2>2. /\ a.count = b.count /\ a.pairs = b.pairs /\ a.variation = b.variation
        /\ a.first = b.first /\ a.last = b.last
    BY <2>1 DEF Buckets
  <2>3. a.failures = b.failures /\ a.excluded = b.excluded + 1 /\ a.broken
    BY <2>1 DEF Buckets
  <2>4. a \in Buckets
    <3>1. b.excluded + 1 \in Nat
      BY DEF Buckets
    <3>2. \A k \in Nat : [b EXCEPT !.excluded = k, !.broken = TRUE] \in Buckets
      BY DEF Buckets
    <3>3. QED BY <2>1, <3>1, <3>2
  <2>5. QED BY <1>2, <2>2, <2>3, <2>4
<1>3. QED BY <1>1, <1>2 DEF ResultRows

\* The rows of the other segments stay, and the new row joins its own.
LEMMA RowsGrow ==
  ASSUME NEW n \in Nat
  PROVE  LET j == BucketOf(Rows[n + 1])
         IN /\ \A i : i # j => RowsIn(i, n + 1) = RowsIn(i, n)
            /\ RowsIn(j, n + 1) = RowsIn(j, n) \cup {n + 1}
            /\ \A i : n + 1 \notin RowsIn(i, n)
            /\ \A i : RowsIn(i, n) \subseteq 1..n
            /\ \A i : IsFiniteSet(RowsIn(i, n))
<1>1. 1..(n + 1) = (1..n) \cup {n + 1}
  OBVIOUS
<1>2. IsFiniteSet(1..n)
  BY FS_Interval
<1>3. \A i : RowsIn(i, n) \in SUBSET (1..n)
  BY DEF RowsIn
<1>4. \A i : IsFiniteSet(RowsIn(i, n))
  BY <1>2, <1>3, FS_Subset
<1>5. QED BY <1>1, <1>3, <1>4 DEF RowsIn

LEMMA CountsStay ==
  ASSUME NEW b, NEW i, NEW n \in Nat, i # BucketOf(Rows[n + 1]), Counts(b, i, n)
  PROVE  Counts(b, i, n + 1)
<1>1. RowsIn(i, n + 1) = RowsIn(i, n)
  BY RowsGrow
<1>2. \A c : OfClass(i, n + 1, c) = OfClass(i, n, c)
  BY <1>1 DEF OfClass
<1>3. Pairs(i, n + 1) = Pairs(i, n)
  BY <1>1 DEF Pairs
<1>4. QED BY <1>1, <1>2, <1>3 DEF Counts

\* A set of rows that one row may join.
LEMMA ClassGrows ==
  ASSUME NEW i, NEW n \in Nat, i = BucketOf(Rows[n + 1]), NEW c
  PROVE  /\ IsFiniteSet(OfClass(i, n, c))
         /\ Rows[n + 1].class = c =>
              /\ OfClass(i, n + 1, c) = OfClass(i, n, c) \cup {n + 1}
              /\ Cardinality(OfClass(i, n + 1, c)) = Cardinality(OfClass(i, n, c)) + 1
         /\ Rows[n + 1].class # c => OfClass(i, n + 1, c) = OfClass(i, n, c)
<1>1. IsFiniteSet(RowsIn(i, n)) /\ RowsIn(i, n + 1) = RowsIn(i, n) \cup {n + 1} /\ n + 1 \notin RowsIn(i, n)
  BY RowsGrow
<1>2. OfClass(i, n, c) \in SUBSET RowsIn(i, n)
  BY DEF OfClass
<1>3. IsFiniteSet(OfClass(i, n, c))
  BY <1>1, <1>2, FS_Subset
<1>4. ASSUME Rows[n + 1].class = c PROVE OfClass(i, n + 1, c) = OfClass(i, n, c) \cup {n + 1}
  BY <1>1, <1>4 DEF OfClass
<1>5. ASSUME Rows[n + 1].class # c PROVE OfClass(i, n + 1, c) = OfClass(i, n, c)
  BY <1>1, <1>5 DEF OfClass
<1>6. n + 1 \notin OfClass(i, n, c)
  BY <1>1, <1>2
<1>7. Cardinality(OfClass(i, n, c) \cup {n + 1}) = Cardinality(OfClass(i, n, c)) + 1
  BY <1>3, <1>6, FS_AddElement
<1>8. QED BY <1>3, <1>4, <1>5, <1>7

\* The step of the response time from the row before.
LEMMA SpanIs ==
  ASSUME ChartInv, NEW k \in 1..Len(Rows), Follows(k)
  PROVE  /\ Span[k] = Distance(Rows[k].ms, Rows[k - 1].ms) /\ Span[k] \in Int
         /\ k - 1 \in 1..Len(Rows)
<1>1. Len(Rows) \in Nat /\ k >= 2 /\ k - 1 \in 1..Len(Rows)
  BY RowsAre DEF Follows
<1>2. Rows[k] \in ResultRows /\ Rows[k - 1] \in ResultRows
  BY <1>1, RowsAre
<1>3. Rows[k].ms \in Nat /\ Rows[k - 1].ms \in Nat
  BY <1>2 DEF ResultRows
<1>4. QED BY <1>1, <1>3 DEF Span, Distance

LEMMA PairsGrow ==
  ASSUME ChartInv, NEW i, NEW n \in Nat, n < Len(Rows), i = BucketOf(Rows[n + 1])
  PROVE  /\ IsFiniteSet(Pairs(i, n))
         /\ ~Follows(n + 1) => Pairs(i, n + 1) = Pairs(i, n)
         /\ Follows(n + 1) =>
              /\ Cardinality(Pairs(i, n + 1)) = Cardinality(Pairs(i, n)) + 1
              /\ SumOver(Span, Pairs(i, n + 1)) = SumOver(Span, Pairs(i, n)) + Span[n + 1]
<1>1. IsFiniteSet(RowsIn(i, n)) /\ RowsIn(i, n + 1) = RowsIn(i, n) \cup {n + 1} /\ n + 1 \notin RowsIn(i, n)
  BY RowsGrow
<1>2. Pairs(i, n) \in SUBSET RowsIn(i, n)
  BY DEF Pairs
<1>3. IsFiniteSet(Pairs(i, n)) /\ n + 1 \notin Pairs(i, n)
  BY <1>1, <1>2, FS_Subset
<1>4. ASSUME ~Follows(n + 1) PROVE Pairs(i, n + 1) = Pairs(i, n)
  BY <1>1, <1>4 DEF Pairs
<1>5. ASSUME Follows(n + 1)
      PROVE  /\ Cardinality(Pairs(i, n + 1)) = Cardinality(Pairs(i, n)) + 1
             /\ SumOver(Span, Pairs(i, n + 1)) = SumOver(Span, Pairs(i, n)) + Span[n + 1]
  <2>1. Pairs(i, n + 1) = Pairs(i, n) \cup {n + 1}
    BY <1>1, <1>5 DEF Pairs
  <2>2. Cardinality(Pairs(i, n) \cup {n + 1}) = Cardinality(Pairs(i, n)) + 1
    BY <1>3, FS_AddElement
  <2>3. \A y \in Pairs(i, n) \cup {n + 1} : Span[y] \in Int
    <3>1. \A y \in Pairs(i, n) \cup {n + 1} : y \in 1..Len(Rows) /\ Follows(y)
      BY <1>2, <1>5, RowsAre DEF RowsIn, Pairs
    <3>2. QED BY <3>1, SpanIs
  <2>4. SumOver(Span, Pairs(i, n) \cup {n + 1}) = Span[n + 1] + SumOver(Span, Pairs(i, n))
    BY <1>3, <2>3, SumAdd
  <2>5. SumOver(Span, Pairs(i, n)) \in Int
    BY <1>3, <2>3, SumIsInt
  <2>6. Span[n + 1] \in Int
    BY <2>3
  <2>7. SumOver(Span, Pairs(i, n + 1)) = Span[n + 1] + SumOver(Span, Pairs(i, n))
    BY <2>1, <2>4
  <2> DEFINE x == SumOver(Span, Pairs(i, n))
             y == Span[n + 1]
             z == SumOver(Span, Pairs(i, n + 1))
  <2>8. x \in Int /\ y \in Int /\ z = y + x
    BY <2>5, <2>6, <2>7
  <2>9. z = x + y
    <3> HIDE DEF x, y, z
    <3>1. QED BY <2>8
  <2>10. QED BY <2>1, <2>2, <2>9
<1>6. QED BY <1>3, <1>4, <1>5

\* The loop remembers the row before, if it was a response, so that it pairs
\* the new row exactly when the two follow each other.
LEMMA PairedIsFollows ==
  ASSUME ChartInv, NEW n \in Nat, n < Len(Rows), Rows[n + 1].class = "ok"
  PROVE  /\ Paired(Remembered(n), Rows[n + 1]) <=> Follows(n + 1)
         /\ Follows(n + 1) => /\ Distance(Rows[n + 1].ms, Remembered(n).ms) = Span[n + 1]
                              /\ Remembered(n).ms \in Int
         /\ n > 0 /\ Rows[n].class = "ok" => Remembered(n).class = "ok"
<1>1. Len(Rows) \in Nat /\ n + 1 \in 1..Len(Rows) /\ (n + 1) - 1 = n
  BY RowsAre
<1>2. Rows[n + 1] \in ResultRows /\ Rows[n + 1].at \in Int
  BY <1>1, RowsAre DEF ResultRows
<1>3. CASE n > 0 /\ Rows[n].class = "ok"
  <2>1. n \in 1..Len(Rows) /\ n <= n + 1
    BY <1>1, <1>3
  <2>2. Rows[n].at <= Rows[n + 1].at /\ Rows[n] \in ResultRows
    BY <1>1, <2>1, RowsAre
  <2>3. Rows[n].at \in Int /\ Rows[n].ms \in Int
    BY <2>2 DEF ResultRows
  <2>4. Remembered(n) = [at |-> Rows[n].at, class |-> "ok", ms |-> Rows[n].ms]
    BY <1>3 DEF Remembered
  <2>5. Remembered(n).at = Rows[n].at /\ Remembered(n).class = "ok" /\ Remembered(n).ms = Rows[n].ms
    BY <2>4
  <2>6. Rows[n + 1].at - Rows[n].at > 0 <=> Rows[n + 1].at # Rows[n].at
    BY <1>2, <2>2, <2>3
  <2>7. Follows(n + 1) <=> /\ Rows[n + 1].at # Rows[n].at
                           /\ Rows[n + 1].at - Rows[n].at <= MaxGap
    BY <1>1, <1>3 DEF Follows
  <2>8. Paired(Remembered(n), Rows[n + 1]) <=> Follows(n + 1)
    BY <2>5, <2>6, <2>7 DEF Paired
  <2>9. ASSUME Follows(n + 1) PROVE Span[n + 1] = Distance(Rows[n + 1].ms, Rows[n].ms)
    BY <1>1, <2>9, SpanIs
  <2>10. QED BY <2>3, <2>5, <2>8, <2>9
<1>4. CASE ~(n > 0 /\ Rows[n].class = "ok")
  <2>1. Remembered(n) = NoSample
    BY <1>4 DEF Remembered
  <2>2. ~Paired(Remembered(n), Rows[n + 1])
    BY <2>1 DEF Paired, NoSample
  <2>3. ~Follows(n + 1)
    BY <1>1, <1>4 DEF Follows
  <2>4. QED BY <1>4, <2>2, <2>3
<1>5. QED BY <1>3, <1>4

LEMMA CountsGrowOther ==
  ASSUME ChartInv, NEW n \in Nat, n < Len(Rows), NEW i, i = BucketOf(Rows[n + 1]),
         NEW b, Counts(b, i, n), Rows[n + 1].class # "ok", NEW before
  PROVE  Counts(Added(b, before, Rows[n + 1]), i, n + 1)
<1> DEFINE r == Rows[n + 1]
           a == Added(b, before, r)
<1>1. Len(Rows) \in Nat /\ n + 1 \in 1..Len(Rows) /\ r \in ResultRows
  BY RowsAre
<1>2. b \in Buckets
  BY DEF Counts
<1>3. /\ a \in Buckets /\ a.broken
      /\ a.count = b.count /\ a.pairs = b.pairs /\ a.variation = b.variation
      /\ a.first = b.first /\ a.last = b.last
      /\ a.failures = IF r.class = "failed" THEN b.failures + 1 ELSE b.failures
      /\ a.excluded = IF r.class = "excluded" THEN b.excluded + 1 ELSE b.excluded
  BY <1>1, <1>2, AddedOther
<1>4. OfClass(i, n + 1, "ok") = OfClass(i, n, "ok")
  BY ClassGrows
<1>5. ~Follows(n + 1)
  BY DEF Follows
<1>6. Pairs(i, n + 1) = Pairs(i, n)
  BY <1>5, PairsGrow
<1>7. a.failures = Cardinality(OfClass(i, n + 1, "failed"))
  <2>1. b.failures = Cardinality(OfClass(i, n, "failed"))
    BY DEF Counts
  <2>2. CASE r.class = "failed"
    <3>1. Cardinality(OfClass(i, n + 1, "failed")) = Cardinality(OfClass(i, n, "failed")) + 1
      BY <2>2, ClassGrows
    <3>2. a.failures = b.failures + 1
      BY <1>3, <2>2
    <3>3. QED BY <2>1, <3>1, <3>2
  <2>3. CASE r.class # "failed"
    <3>1. OfClass(i, n + 1, "failed") = OfClass(i, n, "failed")
      BY <2>3, ClassGrows
    <3>2. a.failures = b.failures
      BY <1>3, <2>3
    <3>3. QED BY <2>1, <3>1, <3>2
  <2>4. QED BY <2>2, <2>3
<1>8. a.excluded = Cardinality(OfClass(i, n + 1, "excluded"))
  <2>1. b.excluded = Cardinality(OfClass(i, n, "excluded"))
    BY DEF Counts
  <2>2. CASE r.class = "excluded"
    <3>1. Cardinality(OfClass(i, n + 1, "excluded")) = Cardinality(OfClass(i, n, "excluded")) + 1
      BY <2>2, ClassGrows
    <3>2. a.excluded = b.excluded + 1
      BY <1>3, <2>2
    <3>3. QED BY <2>1, <3>1, <3>2
  <2>3. CASE r.class # "excluded"
    <3>1. OfClass(i, n + 1, "excluded") = OfClass(i, n, "excluded")
      BY <2>3, ClassGrows
    <3>2. a.excluded = b.excluded
      BY <1>3, <2>3
    <3>3. QED BY <2>1, <3>1, <3>2
  <2>4. QED BY <2>2, <2>3
<1> HIDE DEF a, r
<1>9. Counts(a, i, n + 1)
  BY <1>3, <1>4, <1>6, <1>7, <1>8 DEF Counts
<1>10. QED BY <1>9 DEF a, r

LEMMA CountsGrowResponse ==
  ASSUME ChartInv, NEW n \in Nat, n < Len(Rows), NEW i, i = BucketOf(Rows[n + 1]),
         NEW b, Counts(b, i, n), Rows[n + 1].class = "ok"
  PROVE  Counts(Added(b, Remembered(n), Rows[n + 1]), i, n + 1)
<1> DEFINE r == Rows[n + 1]
           p == Remembered(n)
           a == Added(b, p, r)
<1>1. Len(Rows) \in Nat /\ n + 1 \in 1..Len(Rows) /\ r \in ResultRows
  BY RowsAre
<1>2. b \in Buckets
  BY DEF Counts
<1>3. Paired(p, r) <=> Follows(n + 1)
  BY PairedIsFollows
<1>4. Follows(n + 1) => Distance(r.ms, p.ms) = Span[n + 1] /\ p.ms \in Int
  BY PairedIsFollows
<1>5. /\ a \in Buckets
      /\ a.count = b.count + 1
      /\ a.failures = b.failures
      /\ a.excluded = b.excluded
      /\ a.pairs = IF Paired(p, r) THEN b.pairs + 1 ELSE b.pairs
      /\ a.variation = IF Paired(p, r) THEN b.variation + Distance(r.ms, p.ms) ELSE b.variation
      /\ a.first = IF b.count = 0 THEN r.at ELSE b.first
      /\ a.last = r.at
      /\ a.broken = (b.broken \/ GapBreaks(p, r, b.count + 1))
  <2>1. r.class = "ok" /\ (Paired(p, r) => p.ms \in Int)
    BY <1>3, <1>4
  <2> HIDE DEF p, r
  <2>2. QED BY <1>1, <1>2, <2>1, AddedResponse
<1>6. a.count = Cardinality(OfClass(i, n + 1, "ok"))
  <2>1. b.count = Cardinality(OfClass(i, n, "ok"))
    BY DEF Counts
  <2>2. Cardinality(OfClass(i, n + 1, "ok")) = Cardinality(OfClass(i, n, "ok")) + 1
    BY ClassGrows
  <2>3. a.count = b.count + 1
    BY <1>5
  <2>4. QED BY <2>1, <2>2, <2>3
<1>7. OfClass(i, n + 1, "failed") = OfClass(i, n, "failed") /\ OfClass(i, n + 1, "excluded") = OfClass(i, n, "excluded")
  <2>1. Rows[n + 1].class # "failed" /\ Rows[n + 1].class # "excluded"
    OBVIOUS
  <2>2. OfClass(i, n + 1, "failed") = OfClass(i, n, "failed")
    BY <2>1, ClassGrows
  <2>3. OfClass(i, n + 1, "excluded") = OfClass(i, n, "excluded")
    BY <2>1, ClassGrows
  <2>4. QED BY <2>2, <2>3
<1>8. a.pairs = Cardinality(Pairs(i, n + 1)) /\ a.variation = SumOver(Span, Pairs(i, n + 1))
  <2>1. CASE Follows(n + 1)
    BY <1>3, <1>4, <1>5, <2>1, PairsGrow DEF Counts
  <2>2. CASE ~Follows(n + 1)
    BY <1>3, <1>5, <2>2, PairsGrow DEF Counts
  <2>3. QED BY <2>1, <2>2
<1>9. OfClass(i, n + 1, "ok") = OfClass(i, n, "ok") \cup {n + 1}
  BY ClassGrows
<1>10. \E k \in OfClass(i, n + 1, "ok") : a.first = Rows[k].at
  <2>1. CASE b.count = 0
    BY <1>5, <1>9, <2>1
  <2>2. CASE b.count # 0
    <3>1. b.count > 0
      BY <1>2, <2>2 DEF Buckets
    <3>2. \E k \in OfClass(i, n, "ok") : b.first = Rows[k].at
      BY <3>1 DEF Counts
    <3>3. QED BY <1>5, <1>9, <2>2, <3>2
  <2>3. QED BY <2>1, <2>2
<1>11. \E k \in OfClass(i, n + 1, "ok") : a.last = Rows[k].at
  BY <1>5, <1>9
<1>12. ASSUME ~a.broken
       PROVE  \A k \in RowsIn(i, n + 1) :
                /\ Rows[k].class = "ok"
                /\ k - 1 \in RowsIn(i, n + 1) => Rows[k].at - Rows[k - 1].at <= MaxGap
  <2>1. ~b.broken /\ ~GapBreaks(p, r, b.count + 1)
    BY <1>5, <1>12
  <2>2. \A k \in RowsIn(i, n) :
          /\ Rows[k].class = "ok"
          /\ k - 1 \in RowsIn(i, n) => Rows[k].at - Rows[k - 1].at <= MaxGap
    BY <2>1 DEF Counts
  <2>3. RowsIn(i, n + 1) = RowsIn(i, n) \cup {n + 1} /\ RowsIn(i, n) \subseteq 1..n
    BY RowsGrow
  <2>4. ASSUME n \in RowsIn(i, n) PROVE Rows[n + 1].at - Rows[n].at <= MaxGap
    <3>1. Rows[n].class = "ok" /\ n > 0
      BY <2>2, <2>3, <2>4
    <3>2. n \in OfClass(i, n, "ok")
      BY <2>4, <3>1 DEF OfClass
    <3>3. b.count > 0
      <4>1. IsFiniteSet(OfClass(i, n, "ok"))
        BY ClassGrows
      <4>2. Cardinality(OfClass(i, n, "ok")) # 0
        BY <3>2, <4>1, FS_EmptySet
      <4>3. QED BY <1>2, <4>2 DEF Counts, Buckets
    <3>4. Paired(p, r)
      BY <1>2, <2>1, <3>1, <3>3, PairedIsFollows DEF GapBreaks, Buckets
    <3>5. QED BY <1>3, <3>4 DEF Follows
  <2>5. QED BY <2>2, <2>3, <2>4
<1>13. a.failures = b.failures /\ a.excluded = b.excluded /\ a \in Buckets
  BY <1>5
<1>14. b.failures = Cardinality(OfClass(i, n, "failed")) /\ b.excluded = Cardinality(OfClass(i, n, "excluded"))
  BY DEF Counts
<1>15. a.broken \in BOOLEAN
  BY <1>13 DEF Buckets
<1> HIDE DEF a, r, p
<1>16. Counts(a, i, n + 1)
  BY <1>6, <1>7, <1>8, <1>10, <1>11, <1>12, <1>13, <1>14, <1>15 DEF Counts
<1>17. QED BY <1>16 DEF a, r, p

LEMMA NextTurn ==
  ASSUME ChartInv, NEW n \in Nat, n < Len(Rows), TurnInv(n)
  PROVE  TurnInv(n + 1)
<1> DEFINE r == Rows[n + 1]
           j == BucketOf(r)
           old == ChartTurns[n].buckets
           p == Remembered(n)
           new == [old EXCEPT ![j] = Added(old[j], p, r)]
<1>1. Len(Rows) \in Nat /\ n + 1 \in 1..Len(Rows) /\ (n + 1) - 1 = n
  BY RowsAre
<1>2. j \in ChartSegments
  BY <1>1, BucketIs
<1>3. ChartTurns[n + 1] = Accumulate(ChartTurns[n], r)
  BY <1>1, ChartIsLastTurn
<1>4. ChartTurns[n].previous = p
  <2>1. ChartTurns[n] = [buckets |-> old, previous |-> p]
    BY DEF TurnInv
  <2> HIDE DEF p, old
  <2>2. QED BY <2>1
<1>5. DOMAIN old = ChartSegments /\ \A i \in ChartSegments : Counts(old[i], i, n)
  BY DEF TurnInv
<1>6. (IF r.class = "ok" THEN [at |-> r.at, class |-> r.class, ms |-> r.ms] ELSE NoSample) = Remembered(n + 1)
  <2>1. n + 1 > 0
    OBVIOUS
  <2>2. CASE r.class = "ok"
    <3>1. Remembered(n + 1) = [at |-> r.at, class |-> "ok", ms |-> r.ms]
      BY <2>1, <2>2 DEF Remembered
    <3>2. QED BY <2>2, <3>1
  <2>3. CASE r.class # "ok"
    <3>1. Remembered(n + 1) = NoSample
      BY <2>3 DEF Remembered
    <3>2. QED BY <2>3, <3>1
  <2>4. QED BY <2>2, <2>3
<1>7. ChartTurns[n + 1] = [buckets |-> [old EXCEPT ![BucketOf(r)] = Added(@, ChartTurns[n].previous, r)],
                      previous |-> Remembered(n + 1)]
  BY <1>3, <1>6, Zenon DEF Accumulate
<1>8. ChartTurns[n + 1] = [buckets |-> new, previous |-> Remembered(n + 1)]
  BY <1>4, <1>7
<1>9. ChartTurns[n + 1].buckets = new
  BY <1>8
<1>10. DOMAIN new = ChartSegments /\ new = [i \in ChartSegments |-> new[i]]
  BY <1>5
<1>11. ASSUME NEW i \in ChartSegments PROVE Counts(new[i], i, n + 1)
  <2>1. Counts(old[i], i, n)
    BY <1>5
  <2>2. CASE i # j
    <3>1. new[i] = old[i]
      BY <1>5, <2>2
    <3> HIDE DEF new, old, p
    <3>2. QED BY <2>1, <2>2, <3>1, CountsStay
  <2>3. CASE i = j
    <3>1. new[i] = Added(old[i], p, r)
      BY <1>5, <2>3
    <3>2. CASE r.class = "ok"
      <4>1. Counts(Added(old[i], p, r), i, n + 1)
        BY <2>1, <2>3, <3>2, CountsGrowResponse
      <4>2. QED BY <3>1, <4>1
    <3>3. CASE r.class # "ok"
      <4>1. Counts(Added(old[i], p, r), i, n + 1)
        BY <2>1, <2>3, <3>3, CountsGrowOther
      <4>2. QED BY <3>1, <4>1
    <3>4. QED BY <3>2, <3>3
  <2>4. QED BY <2>2, <2>3
<1> HIDE DEF new, old, p, r, j
<1>12. ChartTurns[n + 1] = [buckets |-> ChartTurns[n + 1].buckets, previous |-> Remembered(n + 1)]
  BY <1>8, <1>9
<1>13. /\ DOMAIN ChartTurns[n + 1].buckets = ChartSegments
       /\ ChartTurns[n + 1].buckets = [i \in ChartSegments |-> ChartTurns[n + 1].buckets[i]]
       /\ \A i \in ChartSegments : Counts(ChartTurns[n + 1].buckets[i], i, n + 1)
  BY <1>9, <1>10, <1>11
<1>14. QED BY <1>12, <1>13 DEF TurnInv

LEMMA EveryTurn ==
  ASSUME ChartInv
  PROVE  /\ DOMAIN BuildQuality = ChartSegments
         /\ \A i \in ChartSegments : Counts(BuildQuality[i], i, Len(Rows))
<1> DEFINE Bad == {n \in 0..Len(Rows) : ~TurnInv(n)}
<1>1. Len(Rows) \in Nat
  BY RowsAre
<1>2. Bad = {}
  <2> SUFFICES ASSUME Bad # {} PROVE FALSE
    OBVIOUS
  <2>1. PICK n \in Bad : \A m \in Bad : n <= m
    <3>1. Bad \subseteq Nat
      BY <1>1
    <3> HIDE DEF Bad
    <3>2. QED BY <3>1, LeastNumber
  <2>2. n # 0
    BY <2>1, FirstTurn
  <2>3. n \in 0..Len(Rows) /\ n - 1 \in Nat /\ n - 1 < Len(Rows) /\ (n - 1) + 1 = n
    BY <1>1, <2>1, <2>2
  <2>4. n - 1 \notin Bad
    BY <1>1, <2>1, <2>3
  <2>5. TurnInv(n - 1)
    BY <1>1, <2>3, <2>4
  <2>6. TurnInv((n - 1) + 1)
    BY <2>3, <2>5, NextTurn
  <2>7. QED BY <2>1, <2>3, <2>6
<1>3. TurnInv(Len(Rows))
  BY <1>1, <1>2
<1>4. QED BY <1>3, ChartIsLastTurn DEF TurnInv

-----------------------------------------------------------------------------
(* The figures of the whole chart.                                         *)

OfSegment(U, i) == {n \in U : BucketOf(Rows[n]) = i}
IsFigure(g, U) ==
  U \subseteq 1..Len(Rows) /\ \A i \in ChartSegments : g[i] = Cardinality(OfSegment(U, i))

\* The rows of a kind, each in the segment of its time, add up to all of them.
LEMMA SegmentsAddUp ==
  ASSUME ChartInv, NEW U, NEW g, IsFigure(g, U)
  PROVE  InAll(g) = Cardinality(U)
<1> DEFINE I == [i \in ChartSegments |-> OfSegment(U, i)]
<1>1. Len(Rows) \in Nat /\ \A n \in U : BucketOf(Rows[n]) \in ChartSegments
  BY RowsAre, BucketIs DEF IsFigure
<1>2. IsFiniteSet(ChartSegments) /\ IsFiniteSet(U)
  <2>1. IsFiniteSet(0..(ChartBuckets - 1)) /\ IsFiniteSet(1..Len(Rows))
    BY <1>1, QualityAssumption, FS_Interval
  <2>2. QED BY <2>1, FS_Subset DEF ChartSegments, IsFigure
<1>3. \A i \in ChartSegments : I[i] \in SUBSET U
  BY DEF OfSegment
<1>4. \A i \in ChartSegments : IsFiniteSet(I[i])
  BY <1>2, <1>3, FS_Subset
<1>5. \A i \in ChartSegments : g[i] = Cardinality(I[i])
  BY DEF IsFigure
<1>6. \A i, k \in ChartSegments : i # k => I[i] \cap I[k] = {}
  BY DEF OfSegment
<1>7. \A i \in ChartSegments : I[i] \subseteq U
  BY <1>3
<1>8. \A n \in U : \E i \in ChartSegments : n \in I[i]
  BY <1>1 DEF OfSegment
<1> HIDE DEF I
<1>9. SumOver(g, ChartSegments) = Cardinality(U)
  <2> DEFINE R == ChartSegments
  <2>1. IsFiniteSet(R)
    BY <1>2
  <2>2. \A x \in R : IsFiniteSet(I[x])
    BY <1>4
  <2>3. \A x \in R : g[x] = Cardinality(I[x])
    BY <1>5
  <2>4. \A x, y \in R : x # y => I[x] \cap I[y] = {}
    BY <1>6
  <2>5. \A x \in R : I[x] \subseteq U
    BY <1>7
  <2>6. \A u \in U : \E x \in R : u \in I[x]
    BY <1>8
  <2> HIDE DEF R
  <2>7. SumOver(g, R) = Cardinality(U)
    BY <2>1, <2>2, <2>3, <2>4, <2>5, <2>6, SumOfDisjoint
  <2>8. QED BY <2>7 DEF R
<1>10. InAll(g) = SumOver(g, ChartSegments)
  BY DEF InAll, SumOver
<1>11. QED BY <1>9, <1>10

AllOf(class) == {n \in 1..Len(Rows) : Rows[n].class = class}
Neighbours == {n \in 1..Len(Rows) : Follows(n)}

LEMMA SegmentsOf ==
  \A i : /\ \A c : OfSegment(AllOf(c), i) = OfClass(i, Len(Rows), c)
         /\ OfSegment(Neighbours, i) = Pairs(i, Len(Rows))
BY DEF OfSegment, AllOf, OfClass, RowsIn, Neighbours, Pairs

\* The figures of the segments, by name.
LEMMA FiguresAre ==
  ASSUME ChartInv
  PROVE  /\ IsFigure([i \in ChartSegments |-> BuildQuality[i].count], AllOf("ok"))
         /\ IsFigure([i \in ChartSegments |-> BuildQuality[i].failures], AllOf("failed"))
         /\ IsFigure([i \in ChartSegments |-> BuildQuality[i].excluded], AllOf("excluded"))
         /\ IsFigure([i \in ChartSegments |-> BuildQuality[i].pairs], Neighbours)
<1> DEFINE b(i) == BuildQuality[i]
<1>1. \A i \in ChartSegments : Counts(b(i), i, Len(Rows))
  BY EveryTurn
<1> HIDE DEF b
<1>2. \A i \in ChartSegments : /\ b(i).count = Cardinality(OfSegment(AllOf("ok"), i))
                               /\ b(i).failures = Cardinality(OfSegment(AllOf("failed"), i))
                               /\ b(i).excluded = Cardinality(OfSegment(AllOf("excluded"), i))
                               /\ b(i).pairs = Cardinality(OfSegment(Neighbours, i))
  BY <1>1, SegmentsOf DEF Counts
<1>3. Neighbours \subseteq 1..Len(Rows) /\ \A c : AllOf(c) \subseteq 1..Len(Rows)
  BY DEF Neighbours, AllOf
<1>4. QED BY <1>2, <1>3 DEF IsFigure, b

LEMMA VariationAddsUp ==
  ASSUME ChartInv, NEW steps, \A n \in Neighbours : steps[n] = Span[n]
  PROVE  InAll([i \in ChartSegments |-> BuildQuality[i].variation]) = SumOver(steps, Neighbours)
<1> DEFINE g == [i \in ChartSegments |-> BuildQuality[i].variation]
           part == [i \in ChartSegments |-> Pairs(i, Len(Rows))]
<1>1. Len(Rows) \in Nat /\ \A n \in Neighbours : BucketOf(Rows[n]) \in ChartSegments
  BY RowsAre, BucketIs DEF Neighbours
<1>2. IsFiniteSet(ChartSegments) /\ IsFiniteSet(Neighbours)
  <2>1. IsFiniteSet(0..(ChartBuckets - 1)) /\ IsFiniteSet(1..Len(Rows))
    BY <1>1, QualityAssumption, FS_Interval
  <2>2. QED BY <2>1, FS_Subset DEF ChartSegments, Neighbours
<1>3. \A n \in Neighbours : Span[n] \in Int
  BY SpanIs DEF Neighbours
<1>4. SumOver(steps, Neighbours) = SumOver(Span, Neighbours)
  BY <1>2, <1>3, SumSame
<1>5. \A i \in ChartSegments : part[i] \subseteq Neighbours
  BY DEF Pairs, RowsIn, Neighbours
<1>6. \A n \in Neighbours : \E i \in ChartSegments : n \in part[i]
  BY <1>1 DEF Pairs, RowsIn, Neighbours
<1>7. \A i, k \in ChartSegments : i # k => part[i] \cap part[k] = {}
  BY DEF Pairs, RowsIn
<1>8. \A i \in ChartSegments : g[i] = SumOver(Span, part[i])
  <2>1. \A i \in ChartSegments : BuildQuality[i].variation = SumOver(Span, Pairs(i, Len(Rows)))
    BY EveryTurn DEF Counts
  <2>2. QED BY <2>1
<1> HIDE DEF g, part
<1>9. SumOver(g, ChartSegments) = SumOver(Span, Neighbours)
  <2> DEFINE K == ChartSegments
             S == Neighbours
             f == Span
  <2>1. IsFiniteSet(S)
    BY <1>2
  <2>2. \A x \in S : f[x] \in Int
    BY <1>3
  <2>3. IsFiniteSet(K)
    BY <1>2
  <2>4. \A k \in K : part[k] \subseteq S
    BY <1>5
  <2>5. \A x \in S : \E k \in K : x \in part[k]
    BY <1>6
  <2>6. \A k, l \in K : k # l => part[k] \cap part[l] = {}
    BY <1>7
  <2>7. \A k \in K : g[k] = SumOver(f, part[k])
    BY <1>8
  <2> HIDE DEF K, S, f
  <2>8. SumOver(g, K) = SumOver(f, S)
    BY <2>1, <2>2, <2>3, <2>4, <2>5, <2>6, <2>7, SumOfParts
  <2>9. QED BY <2>8 DEF K, S, f
<1>10. InAll(g) = SumOver(g, ChartSegments)
  BY DEF InAll, SumOver
<1>11. QED BY <1>4, <1>9, <1>10 DEF g

LEMMA ChartCounts == ChartInv => QualityAddsUp
<1> SUFFICES ASSUME ChartInv PROVE QualityAddsUp
  OBVIOUS
<1> DEFINE N == {n \in 2..Len(Rows) : Rows[n].class = "ok" /\ Rows[n - 1].class = "ok"
                    /\ Rows[n].at # Rows[n - 1].at /\ Rows[n].at - Rows[n - 1].at <= MaxGap}
           steps == [n \in N |-> Distance(Rows[n].ms, Rows[n - 1].ms)]
<1>1. Len(Rows) \in Nat /\ Len(Rows) = Cardinality(InChart) /\ DOMAIN Rows = 1..Len(Rows)
  BY RowsAre
<1>2. N = Neighbours
  BY <1>1 DEF Neighbours, Follows
<1>3. \A n \in Neighbours : steps[n] = Span[n]
  BY <1>2, SpanIs DEF Neighbours
<1>4. \A c : AllOf(c) = {n \in DOMAIN Rows : Rows[n].class = c}
  BY <1>1 DEF AllOf
<1>5. InAll([i \in ChartSegments |-> BuildQuality[i].count]) = Cardinality(AllOf("ok"))
  BY FiguresAre, SegmentsAddUp
<1>6. InAll([i \in ChartSegments |-> BuildQuality[i].failures]) = Cardinality(AllOf("failed"))
  BY FiguresAre, SegmentsAddUp
<1>7. InAll([i \in ChartSegments |-> BuildQuality[i].excluded]) = Cardinality(AllOf("excluded"))
  BY FiguresAre, SegmentsAddUp
<1>8. InAll([i \in ChartSegments |-> BuildQuality[i].pairs]) = Cardinality(N)
  BY <1>2, FiguresAre, SegmentsAddUp
<1>9. InAll([i \in ChartSegments |-> BuildQuality[i].variation]) = MapThenSumSet(LAMBDA n : steps[n], N)
  <2>1. InAll([i \in ChartSegments |-> BuildQuality[i].variation]) = SumOver(steps, Neighbours)
    <3> HIDE DEF steps
    <3>1. QED BY <1>3, VariationAddsUp
  <2>2. SumOver(steps, N) = MapThenSumSet(LAMBDA n : steps[n], N)
    BY DEF SumOver
  <2>3. QED BY <1>2, <2>1, <2>2
<1>10. QED BY <1>1, <1>4, <1>5, <1>6, <1>7, <1>8, <1>9, Zenon DEF QualityAddsUp, Rows

-----------------------------------------------------------------------------
(* The curve through the segments.                                         *)

LEMMA CurvesHideNothing == ChartInv => CurveHidesNothing
<1> SUFFICES ASSUME ChartInv, NEW j \in LatencyJoined,
                    NEW n \in {m \in DOMAIN Rows : BucketOf(Rows[m]) \in {j - 1, j}}
             PROVE  /\ Rows[n].class = "ok"
                    /\ n - 1 \in {m \in DOMAIN Rows : BucketOf(Rows[m]) \in {j - 1, j}} =>
                         Rows[n].at - Rows[n - 1].at <= MaxGap
  BY Zenon DEF CurveHidesNothing, Rows
<1> DEFINE L == Len(Rows)
           b == BuildQuality[j]
           a == BuildQuality[j - 1]
<1>1. L \in Nat /\ DOMAIN Rows = 1..L
  BY RowsAre
<1>2. /\ j \in ChartSegments /\ j - 1 \in ChartSegments /\ j \in Int
      /\ b.count > 0 /\ Connects(a, b)
  BY QualityAssumption DEF LatencyJoined, ChartSegments
<1>3. a.count > 0 /\ ~a.broken /\ ~b.broken /\ b.first - a.last <= MaxGap
  BY <1>2 DEF Connects
<1>4. Counts(b, j, L) /\ Counts(a, j - 1, L)
  BY <1>2, EveryTurn
<1> HIDE DEF a, b
<1>5. \A k \in RowsIn(j, L) :
        /\ Rows[k].class = "ok"
        /\ k - 1 \in RowsIn(j, L) => Rows[k].at - Rows[k - 1].at <= MaxGap
  BY <1>3, <1>4 DEF Counts
<1>6. \A k \in RowsIn(j - 1, L) :
        /\ Rows[k].class = "ok"
        /\ k - 1 \in RowsIn(j - 1, L) => Rows[k].at - Rows[k - 1].at <= MaxGap
  BY <1>3, <1>4 DEF Counts
<1>7. PICK f \in OfClass(j, L, "ok") : b.first = Rows[f].at
  BY <1>2, <1>4 DEF Counts
<1>8. PICK l \in OfClass(j - 1, L, "ok") : a.last = Rows[l].at
  BY <1>3, <1>4 DEF Counts
<1>9. n \in 1..L /\ (n \in RowsIn(j, L) \/ n \in RowsIn(j - 1, L))
  BY <1>1 DEF RowsIn
<1>10. Rows[n].class = "ok"
  BY <1>5, <1>6, <1>9
<1>11. ASSUME n - 1 \in {m \in DOMAIN Rows : BucketOf(Rows[m]) \in {j - 1, j}}
       PROVE  Rows[n].at - Rows[n - 1].at <= MaxGap
  <2>1. n - 1 \in 1..L /\ (n - 1 \in RowsIn(j, L) \/ n - 1 \in RowsIn(j - 1, L))
    BY <1>1, <1>11 DEF RowsIn
  <2>2. CASE n \in RowsIn(j, L) /\ n - 1 \in RowsIn(j, L)
    BY <1>5, <2>2
  <2>3. CASE n \in RowsIn(j - 1, L) /\ n - 1 \in RowsIn(j - 1, L)
    BY <1>6, <2>3
  <2>4. CASE n \in RowsIn(j - 1, L) /\ n - 1 \in RowsIn(j, L)
    <3>1. BucketOf(Rows[n]) = j - 1 /\ BucketOf(Rows[n - 1]) = j
      BY <2>4 DEF RowsIn
    <3>2. BucketOf(Rows[n - 1]) <= BucketOf(Rows[n])
      BY <1>1, <1>9, <2>1, BucketIs
    <3>3. QED BY <1>2, <3>1, <3>2
  <2>5. CASE n \in RowsIn(j, L) /\ n - 1 \in RowsIn(j - 1, L)
    <3>1. /\ BucketOf(Rows[n]) = j /\ BucketOf(Rows[n - 1]) = j - 1
          /\ f \in 1..L /\ BucketOf(Rows[f]) = j
          /\ l \in 1..L /\ BucketOf(Rows[l]) = j - 1
      BY <2>5 DEF RowsIn, OfClass
    <3>2. n <= f
      <4>1. CASE f <= n - 1
        <5>1. BucketOf(Rows[f]) <= BucketOf(Rows[n - 1])
          BY <1>1, <2>1, <3>1, <4>1, BucketIs
        <5>2. QED BY <1>2, <3>1, <5>1
      <4>2. QED BY <1>1, <1>9, <3>1, <4>1
    <3>3. l <= n - 1
      <4>1. CASE n <= l
        <5>1. BucketOf(Rows[n]) <= BucketOf(Rows[l])
          BY <1>1, <1>9, <3>1, <4>1, BucketIs
        <5>2. QED BY <1>2, <3>1, <5>1
      <4>2. QED BY <1>1, <1>9, <3>1, <4>1
    <3>4. Rows[n].at <= Rows[f].at /\ Rows[l].at <= Rows[n - 1].at
      BY <1>1, <1>9, <2>1, <3>1, <3>2, <3>3, RowsAre
    <3>5. Rows[f].at - Rows[l].at <= MaxGap
      BY <1>3, <1>7, <1>8
    <3>6. \A k \in 1..L : Rows[k].at \in Int
      BY RowsAre DEF ResultRows
    <3>7. MaxGap \in Int
      BY QualityAssumption DEF MaxGap
    <3>8. QED BY <1>9, <2>1, <3>1, <3>4, <3>5, <3>6, <3>7
  <2>6. QED BY <1>9, <2>1, <2>2, <2>3, <2>4, <2>5
<1>12. QED BY <1>10, <1>11

-----------------------------------------------------------------------------
(* The chart's figures account for the results of its window: every result *)
(* counts once, in the segment of its time, and the variation is that of   *)
(* the responses that follow each other without a failure, a pause or an   *)
(* equal second between them, whatever rounds stored them in which order.  *)
THEOREM ChartsAddUp == QualitySpec => []QualityAddsUp
<1>1. QualitySpec => []ChartInv
  BY ChartStart, ChartStep, PTL DEF QualitySpec
<1>2. QED BY <1>1, ChartCounts, PTL

(* Between the responses of two segments that the latency curve joins, and *)
(* within them, every result is a response and none is further from the    *)
(* next than one and a half intervals: no curve runs through an outage.    *)
THEOREM CurvesAreHonest == QualitySpec => []CurveHidesNothing
<1>1. QualitySpec => []ChartInv
  BY ChartStart, ChartStep, PTL DEF QualitySpec
<1>2. QED BY <1>1, CurvesHideNothing, PTL

-----------------------------------------------------------------------------
(* The lists of events.                                                    *)

\* Events are told apart by their ids, and one goroutine's in the order of
\* their times: none is later than its running round.
EventsInv ==
  /\ eventClock \in Int /\ lastId \in Nat
  /\ IsFiniteSet(eventLog)
  /\ \A e \in eventLog : e.id \in 1..lastId /\ e.ts \in Int /\ e.ts <= eventClock
  /\ \A e, f \in eventLog : e.id = f.id => e = f
  /\ \A e, f \in eventLog : e.by = f.by /\ e.id < f.id => e.ts <= f.ts
  /\ DOMAIN roundAt = Appenders
  /\ \A w \in Appenders : roundAt[w] # NoTime =>
       /\ roundAt[w] \in Int /\ roundAt[w] <= eventClock
       /\ \A e \in eventLog : e.by = w => e.ts <= roundAt[w]

LEMMA EventsStart == EventInit => EventsInv
BY FS_EmptySet DEF EventInit, EventsInv

\* The tunnels of a batch are a sequence.
LEMMA BatchIsSeq ==
  ASSUME NEW batch \in {<<t>> : t \in EventTunnels} \cup {SetToSeq(EventTunnels)}
  PROVE  Len(batch) \in Nat /\ DOMAIN batch = 1..Len(batch)
<1>1. CASE batch \in {<<t>> : t \in EventTunnels}
  BY <1>1
<1>2. CASE batch = SetToSeq(EventTunnels)
  <2> DEFINE S == EventTunnels
             n == Cardinality(S)
  <2>1. IsFiniteSet(S)
    BY EventAssumption
  <2>2. n \in Nat /\ ExistsBijection(1..n, S)
    BY <2>1, FS_CardinalityType
  <2>3. \E f \in [1..n -> S] : IsInjective(f)
    BY <2>2 DEF ExistsBijection, Bijection, Injection, IsInjective
  <2>4. SetToSeq(S) \in [1..n -> S]
    BY <2>3 DEF SetToSeq
  <2>5. QED BY <1>2, <2>2, <2>4
<1>3. QED BY <1>1, <1>2

LEMMA EventsAppended ==
  ASSUME EventsInv, NEW w \in Appenders, AppendEvents(w)
  PROVE  EventsInv'
<1>1. PICK batch \in {<<t>> : t \in EventTunnels} \cup {SetToSeq(EventTunnels)} :
        /\ lastId' = lastId + Len(batch)
        /\ eventLog' = eventLog \cup {Event(lastId + i, roundAt[w], batch[i], w) : i \in DOMAIN batch}
  BY DEF AppendEvents
<1>2. eventClock' = eventClock /\ roundAt' = roundAt /\ roundAt[w] # NoTime
  BY DEF AppendEvents
<1> DEFINE n == Len(batch)
           added(i) == Event(lastId + i, roundAt[w], batch[i], w)
           new == {added(i) : i \in 1..n}
<1>3. n \in Nat /\ DOMAIN batch = 1..n
  BY BatchIsSeq
<1>4. eventLog' = eventLog \cup new
  BY <1>1, <1>3
<1>5. IsFiniteSet(new)
  <2> DEFINE f == [i \in 1..n |-> added(i)]
  <2>1. IsFiniteSet(1..n)
    <3>1. 1 \in Int /\ n \in Int
      BY <1>3
    <3> HIDE DEF n
    <3>2. QED BY <3>1, FS_Interval
  <2>2. IsFiniteSet({f[i] : i \in 1..n})
    BY <2>1, ImageIsFinite
  <2>3. {f[i] : i \in 1..n} = new
    OBVIOUS
  <2>4. QED BY <2>2, <2>3
<1>6. /\ roundAt[w] \in Int /\ roundAt[w] <= eventClock /\ lastId \in Nat
      /\ \A e \in eventLog : e.by = w => e.ts <= roundAt[w]
  BY <1>2 DEF EventsInv
<1>7. \A i \in 1..n : /\ added(i).id = lastId + i /\ added(i).ts = roundAt[w] /\ added(i).by = w
  BY DEF Event
<1>8. \A e \in new : \E i \in 1..n : e = added(i)
  OBVIOUS
<1> HIDE DEF added, new
<1>9. \A e \in new : e.id \in Int /\ e.id > lastId /\ e.id <= lastId + n /\ e.ts = roundAt[w] /\ e.by = w
  BY <1>3, <1>6, <1>7, <1>8
<1>10. \A e, f \in new : e.id = f.id => e = f
  BY <1>3, <1>6, <1>7, <1>8
<1> HIDE DEF n
<1>11. lastId' = lastId + n /\ lastId' \in Nat
  BY <1>1, <1>3, <1>6 DEF n
<1>12. IsFiniteSet(eventLog')
  BY <1>4, <1>5, FS_Union DEF EventsInv
<1>13. \A e \in eventLog' : e.id \in 1..lastId' /\ e.ts \in Int /\ e.ts <= eventClock'
  <2>1. ASSUME NEW e \in eventLog PROVE e.id \in 1..lastId' /\ e.ts \in Int /\ e.ts <= eventClock'
    BY <1>2, <1>3, <1>11 DEF EventsInv
  <2>2. ASSUME NEW e \in new PROVE e.id \in 1..lastId' /\ e.ts \in Int /\ e.ts <= eventClock'
    BY <1>2, <1>3, <1>6, <1>9, <1>11
  <2>3. QED BY <1>4, <2>1, <2>2
<1>14. \A e, f \in eventLog' : e.id = f.id => e = f
  <2>1. \A e \in eventLog : e.id \in Int /\ e.id <= lastId
    BY <1>6 DEF EventsInv
  <2>2. \A e, f \in eventLog : e.id = f.id => e = f
    BY DEF EventsInv
  <2>3. QED BY <1>4, <1>6, <1>9, <1>10, <2>1, <2>2
<1>15. \A e, f \in eventLog' : e.by = f.by /\ e.id < f.id => e.ts <= f.ts
  <2>1. \A e \in eventLog : e.id \in Int /\ e.id <= lastId
    BY <1>6 DEF EventsInv
  <2>2. \A e, f \in eventLog : e.by = f.by /\ e.id < f.id => e.ts <= f.ts
    BY DEF EventsInv
  <2>3. QED BY <1>4, <1>6, <1>9, <2>1, <2>2
<1>16. \A v \in Appenders : roundAt'[v] # NoTime =>
         /\ roundAt'[v] \in Int /\ roundAt'[v] <= eventClock'
         /\ \A e \in eventLog' : e.by = v => e.ts <= roundAt'[v]
  <2> SUFFICES ASSUME NEW v \in Appenders, roundAt[v] # NoTime
               PROVE  /\ roundAt[v] \in Int /\ roundAt[v] <= eventClock
                      /\ \A e \in eventLog' : e.by = v => e.ts <= roundAt[v]
    BY <1>2
  <2>1. /\ roundAt[v] \in Int /\ roundAt[v] <= eventClock
        /\ \A e \in eventLog : e.by = v => e.ts <= roundAt[v]
    BY DEF EventsInv
  <2>2. \A e \in new : e.by = v => e.ts <= roundAt[v]
    BY <1>6, <1>9
  <2>3. QED BY <1>4, <2>1, <2>2
<1>17. QED BY <1>2, <1>11, <1>12, <1>13, <1>14, <1>15, <1>16 DEF EventsInv

\* A log of some of the events, and other rounds that run.
LEMMA EventsKept ==
  ASSUME EventsInv, eventLog' \in SUBSET eventLog, lastId' = lastId,
         eventClock' \in Int, eventClock' >= eventClock, DOMAIN roundAt' = Appenders,
         \A w \in Appenders : roundAt'[w] \in {roundAt[w], NoTime, eventClock}
  PROVE  EventsInv'
<1>1. IsFiniteSet(eventLog')
  BY FS_Subset DEF EventsInv
<1>2. \A e \in eventLog' : e \in eventLog /\ e.id \in 1..lastId /\ e.ts \in Int /\ e.ts <= eventClock
  BY DEF EventsInv
<1>3. ASSUME NEW w \in Appenders, roundAt'[w] # NoTime
      PROVE  /\ roundAt'[w] \in Int /\ roundAt'[w] <= eventClock'
             /\ \A e \in eventLog' : e.by = w => e.ts <= roundAt'[w]
  BY <1>2, <1>3 DEF EventsInv
<1>4. eventClock \in Int /\ lastId \in Nat
  BY DEF EventsInv
<1>5. \A e \in eventLog' : e.id \in 1..lastId' /\ e.ts \in Int /\ e.ts <= eventClock'
  BY <1>2, <1>4
<1>6. \A e, f \in eventLog' : /\ e.id = f.id => e = f
                              /\ e.by = f.by /\ e.id < f.id => e.ts <= f.ts
  BY <1>2 DEF EventsInv
<1>7. QED BY <1>1, <1>3, <1>4, <1>5, <1>6 DEF EventsInv

LEMMA EventsStep == EventsInv /\ [EventNext]_eventVars => EventsInv'
<1> SUFFICES ASSUME EventsInv, [EventNext]_eventVars PROVE EventsInv'
  OBVIOUS
<1>1. eventClock \in Int /\ DOMAIN roundAt = Appenders
  BY DEF EventsInv
<1>2. CASE EventSecond
  BY <1>1, <1>2, EventsKept DEF EventSecond
<1>3. ASSUME NEW w \in Appenders, RoundBegins(w) PROVE EventsInv'
  BY <1>1, <1>3, EventsKept DEF RoundBegins
<1>4. ASSUME NEW w \in Appenders, AppendEvents(w) PROVE EventsInv'
  BY <1>4, EventsAppended
<1>5. ASSUME NEW w \in Appenders, RoundOver(w) PROVE EventsInv'
  BY <1>1, <1>5, EventsKept DEF RoundOver
<1>6. ASSUME NEW w \in Appenders, PruneEvents(w) PROVE EventsInv'
  BY <1>1, <1>6, EventsKept DEF PruneEvents
<1>7. CASE UNCHANGED eventVars
  BY <1>1, <1>7, EventsKept DEF eventVars
<1>8. QED BY <1>2, <1>3, <1>4, <1>5, <1>6, <1>7 DEF EventNext

-----------------------------------------------------------------------------
(* What a list holds. *)

\* The k-th entry is the event with k - 1 newer ones; an event with fewer than
\* the list's length is on it.
LEMMA NewestFirstIs ==
  ASSUME EventsInv, NEW S, S \subseteq eventLog, NEW n \in Nat
  PROVE  /\ \E m \in Nat : DOMAIN NewestFirst(S, n) = 1..m /\ Len(NewestFirst(S, n)) = m
                           /\ m <= n /\ m <= Cardinality(S) /\ (m = n \/ m = Cardinality(S))
         /\ Cardinality(S) \in Nat
         /\ \A k \in DOMAIN NewestFirst(S, n) : NewestFirst(S, n)[k] \in S
         /\ \A k, l \in DOMAIN NewestFirst(S, n) : k < l => Newer(NewestFirst(S, n)[k], NewestFirst(S, n)[l])
         /\ \A e \in S : /\ Cardinality({f \in S : Newer(f, e)}) \in Nat
                         /\ Cardinality({f \in S : Newer(f, e)}) < n => e \in ToSet(NewestFirst(S, n))
<1> DEFINE below == [e \in S |-> {f \in S : Newer(f, e)}]
           rank == [e \in S |-> Cardinality(below[e])]
           size == Cardinality(S)
           at(k) == CHOOSE e \in S : Cardinality({f \in S : Newer(f, e)}) = k - 1
           m == Min({n, size})
           list == NewestFirst(S, n)
<1>1. IsFiniteSet(S)
  BY FS_Subset DEF EventsInv
<1>2. \A e \in S : e.id \in Int /\ e.ts \in Int
  BY DEF EventsInv
<1>3. \A e, f \in S : e.id = f.id => e = f
  BY DEF EventsInv
<1>4. size \in Nat
  BY <1>1, FS_CardinalityType
<1>5. m \in Nat /\ m <= n /\ m <= size /\ (m = n \/ m = size)
  <2> HIDE DEF size
  <2>1. \E x \in {n, size} : \A y \in {n, size} : x <= y
    BY <1>4
  <2>2. m \in {n, size} /\ \A y \in {n, size} : m <= y
    BY <2>1 DEF Min
  <2>3. QED BY <1>4, <2>2
<1>6. \A x \in S : below[x] \subseteq S /\ x \notin below[x]
  BY <1>2 DEF Newer
<1>7. \A x, y \in S : x = y \/ x \in below[y] \/ y \in below[x]
  BY <1>2, <1>3 DEF Newer
<1>8. \A x, y \in S : y \in below[x] => below[y] \subseteq below[x]
  BY <1>2 DEF Newer
<1>9. \A x \in S : rank[x] = Cardinality(below[x])
  OBVIOUS
<1>10. \A x \in S : below[x] = {f \in S : Newer(f, x)}
  OBVIOUS
<1>11. /\ \A x \in S : rank[x] \in Nat /\ rank[x] < size
       /\ \A x, y \in S : y \in below[x] <=> rank[y] < rank[x]
       /\ \A x, y \in S : rank[x] = rank[y] => x = y
       /\ \A k \in Nat : k < size => \E x \in S : rank[x] = k
  <2> HIDE DEF below, rank
  <2>1. QED BY <1>1, <1>6, <1>7, <1>8, <1>9, Listing
<1>12. \A k \in 1..m : at(k) \in S /\ rank[at(k)] = k - 1
  <2> SUFFICES ASSUME NEW k \in 1..m PROVE at(k) \in S /\ rank[at(k)] = k - 1
    OBVIOUS
  <2>1. \E e \in S : rank[e] = k - 1
    <3> HIDE DEF m, size, rank
    <3>1. k - 1 \in Nat /\ k - 1 < size
      BY <1>4, <1>5
    <3>2. QED BY <1>11, <3>1
  <2>2. \E e \in S : Cardinality({f \in S : Newer(f, e)}) = k - 1
    BY <1>9, <1>10, <2>1
  <2>3. at(k) \in S /\ Cardinality({f \in S : Newer(f, at(k))}) = k - 1
    BY <2>2
  <2>4. QED BY <1>9, <1>10, <2>3
<1>13. list = [k \in 1..m |-> at(k)]
  BY DEF NewestFirst
<1> HIDE DEF below, rank, at, m, size, list
<1>14. DOMAIN list = 1..m /\ Len(list) = m /\ \A k \in 1..m : list[k] = at(k)
  BY <1>5, <1>13
<1>15. \A k, l \in 1..m : k < l => Newer(list[k], list[l])
  <2> SUFFICES ASSUME NEW k \in 1..m, NEW l \in 1..m, k < l PROVE Newer(list[k], list[l])
    OBVIOUS
  <2>1. rank[at(k)] < rank[at(l)]
    BY <1>5, <1>12
  <2>2. at(k) \in below[at(l)]
    BY <1>11, <1>12, <2>1
  <2>3. QED BY <1>10, <1>12, <1>14, <2>2
<1>16. ASSUME NEW e \in S, rank[e] < n PROVE e \in ToSet(list)
  <2>1. rank[e] \in Nat /\ rank[e] < size
    BY <1>11
  <2>2. rank[e] + 1 \in 1..m
    BY <1>4, <1>5, <1>16, <2>1
  <2>3. rank[at(rank[e] + 1)] = rank[e] /\ at(rank[e] + 1) \in S
    BY <1>12, <2>1, <2>2
  <2>4. at(rank[e] + 1) = e
    BY <1>11, <2>3
  <2>5. list[rank[e] + 1] = e
    BY <1>14, <2>2, <2>4
  <2>6. QED BY <1>14, <2>2, <2>5 DEF ToSet
<1>17. \A e \in S : rank[e] = Cardinality({f \in S : Newer(f, e)})
  BY <1>9, <1>10
<1>18. \E k \in Nat : DOMAIN list = 1..k /\ Len(list) = k
                       /\ k <= n /\ k <= size /\ (k = n \/ k = size)
  BY <1>5, <1>14
<1>19. \A k \in DOMAIN list : list[k] \in S
  BY <1>12, <1>14
<1>20. \A k, l \in DOMAIN list : k < l => Newer(list[k], list[l])
  BY <1>14, <1>15
<1>21. \A e \in S : Cardinality({f \in S : Newer(f, e)}) \in Nat
  BY <1>11, <1>17
<1>22. ASSUME NEW e \in S, Cardinality({f \in S : Newer(f, e)}) < n PROVE e \in ToSet(list)
  BY <1>16, <1>17, <1>22
<1>23. QED BY <1>4, <1>18, <1>19, <1>20, <1>21, <1>22, Zenon DEF list, size

\* A longer list begins with the shorter one.
LEMMA ListsContinue ==
  ASSUME EventsInv, NEW a \in Nat, NEW b \in Nat, a <= b
  PROVE  IsPrefix(StoredEvents(a), StoredEvents(b))
<1> DEFINE s == StoredEvents(a)
           t == StoredEvents(b)
           c == Cardinality(eventLog)
           at(k) == CHOOSE e \in eventLog : Cardinality({f \in eventLog : Newer(f, e)}) = k - 1
<1>1. PICK m \in Nat : DOMAIN s = 1..m /\ Len(s) = m /\ m <= a /\ m <= c /\ (m = a \/ m = c)
  BY NewestFirstIs DEF StoredEvents
<1>2. PICK n \in Nat : DOMAIN t = 1..n /\ Len(t) = n /\ n <= b /\ n <= c /\ (n = b \/ n = c)
  BY NewestFirstIs DEF StoredEvents
<1>3. c \in Nat
  BY NewestFirstIs
<1>4. m <= n
  <2> HIDE DEF c, s, t
  <2>1. QED BY <1>1, <1>2, <1>3
<1>5. \A k \in DOMAIN s : s[k] = at(k)
  BY DEF StoredEvents, NewestFirst
<1>6. \A k \in DOMAIN t : t[k] = at(k)
  BY DEF StoredEvents, NewestFirst
<1>7. s = [k \in 1..m |-> s[k]] /\ t = [k \in 1..n |-> t[k]]
  <2>1. s = [k \in 1..Min({a, c}) |-> at(k)] /\ t = [k \in 1..Min({b, c}) |-> at(k)]
    BY DEF StoredEvents, NewestFirst
  <2> HIDE DEF s, t, at, c
  <2>2. s = [k \in DOMAIN s |-> s[k]] /\ t = [k \in DOMAIN t |-> t[k]]
    BY <2>1
  <2>3. QED BY <1>1, <1>2, <2>2
<1>8. (\A k \in DOMAIN s : s[k] \in eventLog) /\ (\A k \in DOMAIN t : t[k] \in eventLog)
  BY NewestFirstIs DEF StoredEvents
<1> HIDE DEF s, t, at, c
<1>9. s \in Seq(eventLog) /\ t \in Seq(eventLog)
  <2>1. s \in [1..m -> eventLog] /\ t \in [1..n -> eventLog]
    BY <1>1, <1>2, <1>7, <1>8
  <2>2. QED BY <2>1
<1>10. SubSeq(s, 1, m) = SubSeq(t, 1, m)
  <2>1. SubSeq(s, 1, m) \in Seq(eventLog) /\ SubSeq(t, 1, m) \in Seq(eventLog)
    BY <1>1, <1>2, <1>4, <1>9
  <2>2. Len(SubSeq(s, 1, m)) = m /\ Len(SubSeq(t, 1, m)) = m
    BY <1>1, <1>2, <1>4, <1>9
  <2>3. \A k \in 1..m : SubSeq(s, 1, m)[k] = s[k] /\ SubSeq(t, 1, m)[k] = t[k]
    BY <1>1, <1>2, <1>4, <1>9
  <2>4. \A k \in 1..m : s[k] = t[k]
    BY <1>1, <1>2, <1>4, <1>5, <1>6
  <2>5. QED BY <2>1, <2>2, <2>3, <2>4
<1>11. QED BY <1>1, <1>2, <1>4, <1>10 DEF IsPrefix, s, t

LEMMA ListsInOrder == EventsInv => EventsInOrder
<1> SUFFICES ASSUME EventsInv PROVE EventsInOrder
  OBVIOUS
<1>0. {ListLimit, TunnelLimit, DefaultLimit, MaxLimit} \subseteq Nat
  BY EventAssumption
<1>1. ASSUME NEW i \in DOMAIN EventsPage, NEW j \in DOMAIN EventsPage,
             i < j, EventsPage[i].by = EventsPage[j].by
      PROVE  EventsPage[i].id > EventsPage[j].id
  <2> DEFINE e == EventsPage[i]
             f == EventsPage[j]
  <2>1. e \in eventLog /\ f \in eventLog /\ Newer(e, f)
    BY <1>0, <1>1, NewestFirstIs DEF EventsPage, StoredEvents
  <2>2. e.by = f.by
    BY <1>1
  <2> HIDE DEF e, f
  <2>3. e.id \in Int /\ f.id \in Int /\ e.ts \in Int /\ f.ts \in Int
    BY <2>1 DEF EventsInv
  <2>4. e.by = f.by /\ e.id < f.id => e.ts <= f.ts
    BY <2>1 DEF EventsInv
  <2>5. e.id = f.id => e = f
    BY <2>1 DEF EventsInv
  <2>6. e.id > f.id
    BY <2>1, <2>2, <2>3, <2>4, <2>5 DEF Newer
  <2>7. QED BY <2>6 DEF e, f
<1>2. ASSUME NEW e \in eventLog
      PROVE  LET newer == {f \in eventLog : f.ts > e.ts \/ (f.ts = e.ts /\ f.id > e.id)}
             IN \/ e \in ToSet(TunnelEvents(e.tunnel))
                \/ Cardinality({f \in newer : f.tunnel = e.tunnel}) >= TunnelLimit
                \/ Cardinality(newer) >= ListLimit
  <2> DEFINE newer == {f \in eventLog : f.ts > e.ts \/ (f.ts = e.ts /\ f.id > e.id)}
             beside == {f \in newer : f.tunnel = e.tunnel}
             P == {f \in ToSet(EventsPage) : f.tunnel = e.tunnel}
             above == {f \in P : Newer(f, e)}
  <2>1. newer = {f \in eventLog : Newer(f, e)}
    BY DEF Newer
  <2>2. Cardinality(newer) \in Nat
    <3>1. Cardinality({f \in eventLog : Newer(f, e)}) \in Nat
      BY <1>0, NewestFirstIs
    <3>2. QED BY <2>1, <3>1
  <2>3. IsFiniteSet(beside)
    <3>1. beside \in SUBSET eventLog
      OBVIOUS
    <3>2. QED BY <3>1, FS_Subset DEF EventsInv
  <2>4. Cardinality(beside) \in Nat
    BY <2>3, FS_CardinalityType
  <2>5. ASSUME Cardinality(newer) < ListLimit, Cardinality(beside) < TunnelLimit
        PROVE  e \in ToSet(TunnelEvents(e.tunnel))
    <3>1. e \in ToSet(EventsPage)
      <4>1. Cardinality({f \in eventLog : Newer(f, e)}) < ListLimit
        BY <2>1, <2>5
      <4>2. QED BY <1>0, <4>1, NewestFirstIs DEF EventsPage, StoredEvents
    <3>2. P \subseteq eventLog
      <4>1. \A k \in DOMAIN EventsPage : EventsPage[k] \in eventLog
        BY <1>0, NewestFirstIs DEF EventsPage, StoredEvents
      <4>2. QED BY <4>1 DEF ToSet
    <3>3. e \in P
      BY <3>1
    <3>4. above \in SUBSET beside
      BY <2>1, <3>2
    <3>5. Cardinality(above) <= Cardinality(beside)
      BY <2>3, <3>4, FS_Subset
    <3>6. Cardinality(above) \in Nat
      BY <2>3, <3>4, FS_Subset, FS_CardinalityType
    <3>7. Cardinality(above) < TunnelLimit
      BY <1>0, <2>4, <2>5, <3>5, <3>6
    <3> HIDE DEF P
    <3>8. e \in ToSet(NewestFirst(P, TunnelLimit))
      BY <1>0, <3>2, <3>3, <3>7, NewestFirstIs
    <3>9. QED BY <3>8 DEF P, TunnelEvents
  <2>6. QED BY <1>0, <2>2, <2>4, <2>5
<1>3. ASSUME NEW n \in 1..MaxLimit PROVE IsPrefix(APIEvents(n), APIEvents(n + 1))
  <2>1. QueryLimit(n) \in Nat /\ QueryLimit(n + 1) \in Nat /\ QueryLimit(n) <= QueryLimit(n + 1)
    BY <1>0 DEF QueryLimit
  <2>2. QED BY <2>1, ListsContinue DEF APIEvents
<1>4. QED BY <1>1, <1>2, <1>3, Zenon DEF EventsInOrder

-----------------------------------------------------------------------------
(* The events page, a tunnel's page and the API tell what happened in      *)
(* order, however many rounds overlap and events are pruned, and leave an  *)
(* event out only below their number of newer ones.                        *)
THEOREM ListsTellInOrder == EventSpec => []EventsInOrder
<1>1. EventSpec => []EventsInv
  BY EventsStart, EventsStep, PTL DEF EventSpec
<1>2. QED BY <1>1, ListsInOrder, PTL
=============================================================================
