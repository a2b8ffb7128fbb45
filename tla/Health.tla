------------------------------- MODULE Health -------------------------------
(***************************************************************************)
(* The findings a page derives for one tunnel (Evaluate): a pure function  *)
(* of the rows that were read, of the time and of two settings.            *)
(*                                                                         *)
(* A finding is what it is found by - its code, the hostname it carries -  *)
(* and what it is about, which stands for its message.                     *)
(***************************************************************************)
EXTENDS FiniteSets, Naturals, Sequences, SequencesExt

CONSTANTS
  NoRelease,   \* no cloudflared release or version known
  NoHost       \* the catch-all rule's host, and the host of a finding on a tunnel

ExpectedConnections == 4
FlapThreshold == 4
TokenExpiryWarning == 30

Rank(severity) ==
  CASE severity = "critical" -> 3 [] severity = "warning" -> 2 [] severity = "info" -> 1
    [] OTHER -> 0

Finding(code, severity, host, about) ==
  [code |-> code, severity |-> severity, host |-> host, about |-> about]
OnTunnel(code, severity, about) == Finding(code, severity, NoHost, about)
When(condition, finding) == IF condition THEN {finding} ELSE {}

\* A rule is HTTP or not, and its origin may be on localhost or unverified.
\* Rules that are not of a host or not HTTP are not looked at.
Checked(rules) == {r \in ToSet(rules) : r.host # NoHost /\ r.http}

StatusFindings(in) ==
  When(in.status = "down", OnTunnel("tunnel_down", "critical", NoHost))
    \cup When(in.status = "degraded", OnTunnel("tunnel_degraded", "warning", NoHost))
    \cup When(in.status = "inactive", OnTunnel("tunnel_inactive", "info", NoHost))

DistinctColos(connections) == ToSet(connections) \ {NoHost}

\* The configuration version of the first rule that has one; 0 if none has.
IngressConfigVersion(rules) ==
  LET versioned == SelectSeq(rules, LAMBDA r : r.version > 0)
  IN IF versioned = <<>> THEN 0 ELSE versioned[1].version

Drifted(in) == {c \in in.connectors : in.release # NoRelease /\ c.version \notin {NoRelease, in.release}}
Lagging(in) ==
  LET want == IngressConfigVersion(in.rules)
  IN {c \in in.connectors : want > 0 /\ c.config > 0 /\ c.config # want}

EvaluateConnectivity(in) ==
  IF in.connectors = {}
  THEN {OnTunnel("no_connectors", "critical", NoHost)}
  ELSE When(Len(in.connections) < ExpectedConnections, OnTunnel("low_ha_connections", "warning", NoHost))
         \cup When(Cardinality(DistinctColos(in.connections)) = 1, OnTunnel("single_colo", "warning", NoHost))
         \cup {OnTunnel("version_drift", "warning", c.id) : c \in Drifted(in)}
         \cup {OnTunnel("config_drift", "warning", c.id) : c \in Lagging(in)}

EvaluateIngress(in) ==
  {Finding("ingress_no_tls_verify", "info", r.host, NoHost) : r \in {q \in Checked(in.rules) : q.noTLS}}
    \cup {Finding("ingress_localhost_origin", "warning", r.host, NoHost) :
            r \in {q \in Checked(in.rules) : q.localhost}}

\* The domains of all the applications.
AppDomains(in) == UNION {in.apps[i].domains : i \in DOMAIN in.apps}

\* An empty inventory says nothing before the first audit.
EvaluateAccessCoverage(in) ==
  {Finding("access_unprotected", "warning", r.host, NoHost) :
     r \in {q \in Checked(in.rules) :
              in.audited /\ q.host \notin AppDomains(in) /\ q.host \notin in.expectedPublic}}

\* Mutation of EvaluateAccessBypass: an application is looked up by its domain,
\* of which another one takes the place.
EvaluateBypassOfLast(in) ==
  {Finding("access_bypass", "warning", p[1].host, p[2]) :
     p \in {q \in Checked(in.rules) \X DOMAIN in.apps :
              /\ in.audited /\ in.apps[q[2]].bypass /\ q[1].host \in in.apps[q[2]].domains
              /\ \A i \in DOMAIN in.apps :
                   q[1].host \in in.apps[i].domains => in.apps[i].name <= in.apps[q[2]].name}}

\* One for each application with a bypass policy, whichever others the host has.
EvaluateAccessBypass(in) ==
  {Finding("access_bypass", "warning", p[1].host, p[2]) :
     p \in {q \in Checked(in.rules) \X DOMAIN in.apps :
              in.audited /\ in.apps[q[2]].bypass /\ q[1].host \in in.apps[q[2]].domains}}

\* The days a token has left; those of a token that never expires are not set.
EvaluateServiceTokens(in) ==
  {OnTunnel("service_token_expiring", "critical", t.id) : t \in {u \in in.tokens : u.expires /\ u.left <= 0}}
    \cup {OnTunnel("service_token_expiring", "warning", t.id) :
            t \in {u \in in.tokens : u.expires /\ u.left > 0 /\ u.left <= TokenExpiryWarning}}

EvaluateAlertCoverage(in) ==
  When(in.coverage.readable /\ in.tunnel \notin in.coverage.covered,
       OnTunnel("no_cloudflare_alert", "info", NoHost))

Evaluate(in) ==
  StatusFindings(in)
    \cup (IF in.status = "inactive" THEN {} ELSE EvaluateConnectivity(in))
    \cup When(in.recent > FlapThreshold, OnTunnel("flapping", "warning", NoHost))
    \cup EvaluateIngress(in) \cup EvaluateAccessCoverage(in) \cup EvaluateAccessBypass(in)
    \cup EvaluateServiceTokens(in) \cup EvaluateAlertCoverage(in)

WorstSeverity(findings) ==
  LET worst == {f \in findings : \A g \in findings : Rank(g.severity) <= Rank(f.severity)}
  IN IF findings = {} THEN "" ELSE (CHOOSE f \in worst : TRUE).severity
=============================================================================
