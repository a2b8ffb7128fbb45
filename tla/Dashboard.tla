----------------------------- MODULE Dashboard -----------------------------
(***************************************************************************)
(* The pages of the dashboard (viewbuilder.go) and the findings an         *)
(* operator mutes on them.                                                 *)
(*                                                                         *)
(* A page is built from one query after the other (loadSnapshot), with     *)
(* polls, audits and other browsers writing in between; one page is being  *)
(* built at a time.  What is listed on it is a function of what was read.  *)
(***************************************************************************)
EXTENDS AccessAudit, Health

CONSTANTS
  TunnelStatuses, \* the status values that occur
  DetailRows,     \* connectors, connections and rules a poll may store of a tunnel
  ExpectedPublic, \* CFTM_EXPECTED_PUBLIC
  Releases,       \* versions of cloudflared a lookup may return
  MaxPolls,       \* bound: commits of polls for a known tunnel
  MaxLookups,     \* bound: successful release lookups
  MaxMutes        \* bound: findings muted

IngressRule == [host: Hosts \cup {NoHost}, http: BOOLEAN, noTLS: BOOLEAN, localhost: BOOLEAN, version: Nat]

\* A service token is known by its id.
ASSUME DashAssumption ==
  /\ IsFiniteSet(Tunnels) /\ IsFiniteSet(Apps) /\ NoHost \notin Hosts
  /\ \A d \in DetailRows : d.rules \in Seq(IngressRule)
  /\ \A acc \in Accounts : \A k, l \in acc.tokens : k.id = l.id => k = l
  /\ \A acc \in Accounts : \A k \in acc.tokens : k.expires \in BOOLEAN /\ k.left \in Int

VARIABLES
  details,                    \* tunnel -> its status, its recent transitions,
                              \* connectors, connections and ingress rules
  release, ignored,           \* the cached release; table ignored_findings
  viewPc, view,               \* the page being built
  polls, lookups, mutes,      \* counters for the bounds
  restored                    \* history: refs restored since the page began

dashTables == <<details, release, ignored>>
dashCounts == <<polls, lookups, mutes>>
viewVars == <<viewPc, view, restored>>
dashVars == <<auditVars, dashTables, dashCounts, viewVars>>

\* FindingRef: a finding is muted by its code, its tunnel and its host.
Ref(f, t) == [code |-> f.code, tunnel |-> t, host |-> f.host]

NoDetails == [status |-> "inactive", connectors |-> {}, connections |-> <<>>,
              rules |-> <<>>, recent |-> 0]
NoView == [tunnels |-> {}, details |-> [t \in Tunnels |-> NoDetails], apps |-> <<>>,
           tokens |-> {}, ignored |-> {}, release |-> NoRelease, audited |-> FALSE,
           coverage |-> [readable |-> FALSE, covered |-> {}],
           muted |-> [t \in Tunnels |-> {}], informed |-> FALSE]

\* The tunnels of the database have been polled before, and are one transition
\* away from flapping.
Polled(s, d) == [NoDetails EXCEPT !.status = s, !.connectors = d.connectors, !.connections = d.connections,
                                  !.rules = d.rules, !.recent = FlapThreshold]

DashInit ==
  /\ \E s \in TunnelStatuses, d \in DetailRows :
       details = [t \in Tunnels |-> IF t \in tunnels THEN Polled(s, d) ELSE NoDetails]
  /\ release = NoRelease /\ ignored = {}
  /\ viewPc = "idle" /\ view = NoView
  /\ polls = 0 /\ lookups = 0 /\ mutes = 0
  /\ restored = {}

-----------------------------------------------------------------------------
(* The snapshot as input of the findings. *)

\* A muted coverage finding makes its host an exception, on every tunnel.
EffectivePublic(refs) ==
  ExpectedPublic \cup ({r.host : r \in {q \in refs : q.code = "access_unprotected"}} \ {NoHost})

\* AccessApps: the rows there are.
AccessApps == [i \in Present(apps) |-> apps[i]]

HealthInput(t, v, public) ==
  [tunnel |-> t, status |-> v.details[t].status, connectors |-> v.details[t].connectors,
   connections |-> v.details[t].connections, rules |-> v.details[t].rules,
   recent |-> v.details[t].recent, apps |-> v.apps, tokens |-> v.tokens,
   audited |-> v.audited, expectedPublic |-> public, coverage |-> v.coverage,
   release |-> v.release]

FindingsFor(t) == Evaluate(HealthInput(t, view, EffectivePublic(view.ignored)))

\* Mutation of VisibleFindings: the tunnel is not compared.
VisibleOnAnyTunnel(t) == {f \in FindingsFor(t) : \A r \in view.ignored : r.code # f.code \/ r.host # f.host}

VisibleFindings(t) == {f \in FindingsFor(t) : Ref(f, t) \notin view.ignored}

-----------------------------------------------------------------------------
(* The writers beside the page. *)

\* SaveTunnels of a poll adds or drops a tunnel, whose rows go with it, ...
TunnelComesOrGoes(t) ==
  /\ PollStores(t)
  /\ \E s \in TunnelStatuses :
       details' = [details EXCEPT ![t] =
                     IF t \in tunnels THEN NoDetails ELSE [NoDetails EXCEPT !.status = s, !.recent = 1]]
  /\ UNCHANGED <<release, ignored, dashCounts, viewVars>>

\* ... or stores another status, with a row of its history.
WithTransition(d, s) == [d EXCEPT !.status = s, !.recent = @ + 1]

TunnelSaved(t, s) ==
  /\ t \in tunnels /\ s # details[t].status /\ polls < MaxPolls
  /\ polls' = polls + 1
  /\ details' = [details EXCEPT ![t] = WithTransition(@, s)]
  /\ UNCHANGED <<auditVars, release, ignored, lookups, mutes, viewVars>>

\* syncTunnel, later in the round.
TunnelSynced(t, d) ==
  /\ t \in tunnels /\ polls < MaxPolls
  /\ polls' = polls + 1
  /\ details' = [details EXCEPT ![t] =
                    [@ EXCEPT !.connectors = d.connectors, !.connections = d.connections, !.rules = d.rules]]
  /\ UNCHANGED <<auditVars, release, ignored, lookups, mutes, viewVars>>

\* Latest: a refusal and an answer without a tag are failures.
LookupAnswers == [status: {200, 403}, tag: Releases \cup {NoRelease}]
LatestTag(answer) == IF answer.status = 200 THEN answer.tag ELSE NoRelease

\* CheckRelease: a failed lookup keeps the cached version.
CheckRelease ==
  /\ lookups < MaxLookups
  /\ lookups' = lookups + 1
  /\ \E answer \in LookupAnswers :
       release' = IF LatestTag(answer) = NoRelease THEN release ELSE LatestTag(answer)
  /\ UNCHANGED <<auditVars, details, ignored, polls, mutes, viewVars>>

\* The rows of ignored_findings, of which muting twice leaves one.
WithMute(ref) == ignored \cup {ref}
WithoutMute(ref) == ignored \ {ref}

\* A browser mutes a finding that some page lists.
IgnoreFinding(t, f) ==
  /\ mutes < MaxMutes
  /\ mutes' = mutes + 1
  /\ ignored' = WithMute(Ref(f, t))
  /\ UNCHANGED <<auditVars, details, release, polls, lookups, viewVars>>

RestoreFinding(ref) ==
  /\ ref \in ignored
  /\ ignored' = WithoutMute(ref)
  /\ restored' = IF viewPc = "idle" THEN {} ELSE restored \cup {ref}
  /\ UNCHANGED <<auditVars, details, release, dashCounts, viewPc, view>>

-----------------------------------------------------------------------------
(* loadSnapshot, query by query.  Tables that only one kind of finding     *)
(* looks at are read in one step with a table it is compared with.         *)

ViewStep(from, to) ==
  /\ viewPc = from /\ viewPc' = to
  /\ UNCHANGED <<auditVars, dashTables, dashCounts, restored>>

BeginView ==
  /\ viewPc = "idle" /\ viewPc' = "tunnels"
  /\ view' = [NoView EXCEPT !.informed = auditAt]
  /\ restored' = {}
  /\ UNCHANGED <<auditVars, dashTables, dashCounts>>

LoadTunnels ==
  /\ ViewStep("tunnels", "details")
  /\ view' = [view EXCEPT !.tunnels = tunnels,
                 !.details = [t \in Tunnels |-> [NoDetails EXCEPT !.status = details[t].status]]]
LoadDetails ==
  /\ ViewStep("details", "apps")
  /\ view' = [view EXCEPT !.details =
                 [t \in Tunnels |-> [details[t] EXCEPT !.status = view.details[t].status, !.recent = 0]]]
LoadApps ==
  ViewStep("apps", "ignored") /\ view' = [view EXCEPT !.apps = AccessApps, !.tokens = tokens]
LoadIgnored ==
  ViewStep("ignored", "audit") /\ view' = [view EXCEPT !.ignored = ignored, !.release = release]
LoadAudit == ViewStep("audit", "alerts") /\ view' = [view EXCEPT !.audited = auditAt]
LoadAlerts == ViewStep("alerts", "history") /\ view' = [view EXCEPT !.coverage = coverage]

\* findingsFor reads the recent transitions, and mutedFor, on a tunnel's page,
\* the list of what is muted.
LoadHistory ==
  /\ ViewStep("history", "served")
  /\ view' = [view EXCEPT !.details = [t \in Tunnels |-> [view.details[t] EXCEPT !.recent = details[t].recent]],
                          !.muted = [t \in Tunnels |-> {r \in ignored : r.tunnel = t}]]

CloseView ==
  /\ viewPc = "served" /\ viewPc' = "idle"
  /\ view' = NoView /\ restored' = {}
  /\ UNCHANGED <<auditVars, dashTables, dashCounts>>

BuildView ==
  \/ BeginView \/ LoadTunnels \/ LoadDetails \/ LoadApps \/ LoadIgnored \/ LoadAudit
  \/ LoadAlerts \/ LoadHistory \/ CloseView

DashWorld ==
  \/ \E t \in Tunnels : TunnelComesOrGoes(t)
  \/ \E t \in Tunnels, s \in TunnelStatuses : TunnelSaved(t, s)
  \/ \E t \in Tunnels, d \in DetailRows : TunnelSynced(t, d)
  \/ CheckRelease
  \/ viewPc = "served" /\ \E t \in view.tunnels : \E f \in VisibleFindings(t) : IgnoreFinding(t, f)
  \/ \E ref \in ignored : RestoreFinding(ref)

\* The audits and the account they read, ...
DashAudit ==
  /\ AccountChanges \/ \E a \in Auditors : AuditStep(a)
  /\ UNCHANGED <<dashTables, dashCounts, viewVars>>

\* ... and the death of the process, of which the tables survive.
DashCrash ==
  /\ AuditCrash
  /\ viewPc' = "idle" /\ view' = NoView /\ restored' = {}
  /\ UNCHANGED <<dashTables, dashCounts>>

DashNext == BuildView \/ DashWorld \/ DashAudit \/ DashCrash

DashSpec == AuditInit /\ DashInit /\ [][DashNext]_dashVars

-----------------------------------------------------------------------------
(* What the pages list. *)

Served == viewPc = "served"
RulesOf(t) == Checked(view.details[t].rules)

\* The audit page and the counter of the index page.  They go through every
\* rule that was read, those of a tunnel that was not included.
UnprotectedRules ==
  IF ~view.audited THEN {}
  ELSE {g \in Tunnels \X Hosts :
          /\ \E r \in RulesOf(g[1]) : r.host = g[2]
          /\ g[2] \notin AppDomains(view)}
UnexpectedRules == {g \in UnprotectedRules : g[2] \notin EffectivePublic(view.ignored)}

AppsOn(h) == {i \in DOMAIN view.apps : h \in view.apps[i].domains}

\* appByDomain: of the applications with one domain the last in the order of
\* their names; of equal names the query may return either last.
AppOnDomain(h) == CHOOSE i \in AppsOn(h) : \A j \in AppsOn(h) : view.apps[j].name <= view.apps[i].name

\* accessLabel of a row of the ingress page: a row shows that one application.
AccessLabel(h) ==
  IF ~view.audited THEN "unknown"
  ELSE IF AppsOn(h) = {} THEN "public"
  ELSE LET app == view.apps[AppOnDomain(h)]
       IN IF app.bypass THEN "bypass policy" ELSE IF app.token THEN "token allowed" ELSE "protected"

\* An application is matched by any rule of its domains, routed over HTTP or not.
Matched(app) == \E t \in Tunnels : \E r \in ToSet(view.details[t].rules) : r.host \in app.domains

TokenSeverity(token) ==
  CASE token.expires /\ token.left <= 0 -> "critical"
    [] token.expires /\ token.left \in 1..TokenExpiryWarning -> "warning"
    [] OTHER -> ""

AuditPage ==
  [available |-> view.audited, unprotected |-> UnexpectedRules,
   intentionallyPublic |-> UnprotectedRules \ UnexpectedRules,
   apps |-> {[id |-> i, app |-> view.apps[i], matched |-> Matched(view.apps[i])] : i \in DOMAIN view.apps},
   tokens |-> {[id |-> k.id, severity |-> TokenSeverity(k)] : k \in view.tokens}]

\* The rows of the ingress page, and of a tunnel's page.
IngressRow(t, r) ==
  [tunnel |-> t, host |-> r.host, probeable |-> r \in RulesOf(t),
   access |-> IF r \in RulesOf(t) THEN AccessLabel(r.host) ELSE "unknown", noTLS |-> r.noTLS]

IngressPage == UNION {{IngressRow(t, r) : r \in ToSet(view.details[t].rules)} : t \in view.tunnels}

\* A connector's row on a tunnel's page.
Outdated(c) == view.release # NoRelease /\ c.version \notin {NoRelease, view.release}

VersionsOf(connectors) == {c.version : c \in connectors} \ {NoRelease}
CountHostnames(rules) == Len(SelectSeq(rules, LAMBDA r : r.host # NoHost))

\* A tunnel's card.
Card(t) ==
  LET d == view.details[t]
  IN [status |-> d.status, severity |-> WorstSeverity(VisibleFindings(t)),
      connectors |-> Cardinality(d.connectors), connections |-> Len(d.connections),
      colos |-> DistinctColos(d.connections), versions |-> VersionsOf(d.connectors),
      ingressCount |-> CountHostnames(d.rules), findings |-> VisibleFindings(t)]

OverCards(f) == MapThenSumSet(LAMBDA t : f[t], view.tunnels)

Totals ==
  [tunnels |-> Cardinality(view.tunnels),
   healthy |-> Cardinality({t \in view.tunnels : Card(t).status = "healthy"}),
   connectors |-> OverCards([t \in view.tunnels |-> Card(t).connectors]),
   connections |-> OverCards([t \in view.tunnels |-> Card(t).connections]),
   hostnames |-> OverCards([t \in view.tunnels |-> Card(t).ingressCount]),
   findings |-> OverCards([t \in view.tunnels |-> Cardinality(Card(t).findings)]),
   unprotected |-> Cardinality(UnexpectedRules)]

-----------------------------------------------------------------------------
DashTypeOK ==
  /\ \A t \in Tunnels : details[t].status \in TunnelStatuses \cup {"inactive"}
  /\ release \in Releases \cup {NoRelease}
  /\ \A r \in ignored : r.tunnel \in Tunnels /\ r.host \in Hosts \cup {NoHost}
  /\ view.tunnels \subseteq Tunnels /\ view.audited \in BOOLEAN

\* The pages work out the same facts in more than one place.  On what one page
\* has read, a tunnel's card lists a gap in the Access coverage exactly where
\* the audit page does and the ingress page says "public", the muted and the
\* expected ones apart, and the index page counts no fewer gaps than its cards
\* list.  Of a host with several applications the ingress page shows one, but
\* the card lists a bypass for exactly those that the audit page shows with a
\* bypass policy, so that none shown by the ingress page is missing; what the
\* ingress page calls protected has an application there, not an "unmatched"
\* one; a token's severity is that of the finding on every card; and the
\* connectors marked as outdated are those with a finding, unless the tunnel is
\* inactive.
CoverageViewsAgree ==
  Served =>
    /\ Totals.unprotected
         >= OverCards([t \in view.tunnels |-> Cardinality({f \in Card(t).findings : f.code = "access_unprotected"})])
    /\ \A t \in view.tunnels :
         /\ \A row \in {q \in IngressPage : q.tunnel = t /\ q.probeable} :
              LET listed(code) == {f \in FindingsFor(t) : f.code = code /\ f.host = row.host}
                  onHost == {a \in AuditPage.apps : row.host \in a.app.domains}
                  bypassed == {a \in onHost : AuditPage.available /\ a.app.bypass}
              IN /\ listed("access_unprotected") # {} <=> <<t, row.host>> \in AuditPage.unprotected
                 /\ listed("access_unprotected") # {} =>
                      /\ row.access = "public"
                      /\ listed("access_unprotected") \subseteq VisibleFindings(t)
                 /\ {f.about : f \in listed("access_bypass")} = {a.id : a \in bypassed}
                 /\ row.access = "bypass policy" => bypassed # {}
                 /\ row.access \notin {"public", "unknown"} => onHost # {} /\ \A a \in onHost : a.matched
         /\ \A k \in AuditPage.tokens, severity \in {"critical", "warning"} :
              k.severity = severity <=> OnTunnel("service_token_expiring", severity, k.id) \in FindingsFor(t)
         /\ view.details[t].status # "inactive" =>
              {c.id : c \in {d \in view.details[t].connectors : Outdated(d)}}
                = {f.about : f \in {g \in FindingsFor(t) : g.code = "version_drift"}}

\* What is missing from a tunnel's card can be given back: it is on the list
\* of muted findings of the same page, or, for a gap in the coverage, some
\* tunnel's mute of the same host hides it.
HiddenIsListed ==
  Served =>
    \A t \in view.tunnels :
      \A f \in Evaluate(HealthInput(t, view, ExpectedPublic)) \ VisibleFindings(t) :
        \/ Ref(f, t) \in view.muted[t] \cup restored
        \/ f.code = "access_unprotected" /\ \E u \in Tunnels : Ref(f, u) \in view.ignored

\* Once an audit has run, no page lists a host as unprotected that has had an
\* application all along, whatever audits and polls write meanwhile.
NoFalseGapOnceAudited ==
  Served /\ view.informed => \A g \in UnprotectedRules : g[2] \notin Steady

\* "AccessAuditAvailable guards the coverage check: without a successful audit
\* an empty app list would mark every hostname as unprotected."
NoFalseGap == Served => \A g \in UnprotectedRules : g[2] \notin Steady
=============================================================================
