------------------------------ MODULE MCDaemon ------------------------------
(***************************************************************************)
(* The parts of the daemon beside the poll, on small instances.  `focus`   *)
(* picks what moves in a behaviour: one component, or components that read *)
(* each other's tables ("probes beside audits", "pages beside audits").    *)
(***************************************************************************)
EXTENDS ProbeRounds, Dashboard, RequestOrigins, AccessLogins, Capabilities,
        LogBuffer, Migrations, Uptime, Quality, EventPages

VARIABLE focus

\* The account: "g" has an application, which passes everything at times and at
\* others has one beside it for a path that passes everything; "q" has an
\* application at times, "p" none.  Two tokens of one finding, one of them expired; alerts that
\* do not cover all.
AllTunnels(n) == [type |-> "health", enabled |-> TRUE, filter |-> {}, destinations |-> n]
Token(id, left) == [id |-> id, expires |-> TRUE, left |-> left]
AppFor(n, hosts, policies) == [name |-> n, hosts |-> hosts, paths |-> {}, policies |-> policies]
AppForPath(n, hosts) == [name |-> n, hosts |-> {}, paths |-> hosts, policies |-> {"bypass"}]
Listing(a, b, c) ==
  [i \in {"site", "path", "other"} |-> CASE i = "site" -> a [] i = "path" -> b [] i = "other" -> c]

Bypassed == [apps |-> Listing(AppFor(2, {"g"}, {"bypass"}), NoApp, NoApp),
             tokens |-> {Token("k1", 20), Token("k2", 0)}, alerts |-> {AllTunnels(0)}]
Guarded == [apps |-> Listing(AppFor(2, {"g"}, {"service_token"}), AppForPath(1, {"g"}), AppFor(3, {"q"}, {"allow"})),
            tokens |-> {}, alerts |-> {[AllTunnels(1) EXCEPT !.filter = {"t1"}]}]
MCAccounts == {Bypassed, Guarded}

HTTP(h) == [host |-> h, http |-> TRUE]
MCIngresses == {<<HTTP("g"), HTTP("p")>>, <<HTTP("p"), [host |-> "p", http |-> FALSE], HTTP("q")>>}

WebRule(h, v) == [host |-> h, http |-> TRUE, noTLS |-> FALSE, localhost |-> FALSE, version |-> v]
Unconnected == [connectors |-> {}, connections |-> <<>>, rules |-> <<WebRule("g", 0), WebRule("p", 0)>>]
Connected == [connectors |-> {[id |-> "c1", version |-> "v1", config |-> 1]},
              connections |-> <<"a", "a", "a", "a">>, rules |-> <<WebRule("p", 2)>>]
MCDetailRows == {Unconnected, Connected}

\* The traffic of three zones an hour or a day ago, of which one covers another's
\* host as well and one, with the shortest window, has nothing to report.
Group(h, c, ok, n, age) == [host |-> h, country |-> c, success |-> ok, count |-> n, age |-> age]
Quiet == [id |-> "z0", covers |-> {"c"}, length |-> 1, limit |-> 80, groups |-> {}]
Parent(groups) == [id |-> "z1", covers |-> {"a", "b.sub", "other"}, length |-> 1, limit |-> 90, groups |-> groups]
Child(groups) == [id |-> "z2", covers |-> {"b.sub"}, length |-> 2, limit |-> 0, groups |-> groups]
MCTraffic ==
  {[zones |-> {Quiet,
               Parent({Group("a", "DE", TRUE, 2, 60), Group("a", "DE", FALSE, 1, 60), Group("a", "", TRUE, 1, 60),
                       Group("a", "XX", TRUE, 1, 60), Group("other", "CN", TRUE, 1, 60)}),
               Child({Group("b.sub", "US", TRUE, 1, 1000)})},
    logins |-> {Group("", "FR", TRUE, 1, 1000), Group("", "FR", FALSE, 1, 1000)}],
   [zones |-> {Quiet, Parent({Group("a", "DE", TRUE, 1, 60), Group("a", "AT", TRUE, 1, 1000)}), Child({})},
    logins |-> {}]}

LoginTo(h, p, ok, u) == [domain |-> <<h, p>>, allowed |-> ok, user |-> u]
MCLogins == {LoginTo("a", "/", TRUE, "u"), LoginTo("a", "/admin", FALSE, "u"),
             LoginTo("b", "/", FALSE, ""), LoginTo("", "", TRUE, "u")}

\* The defaults, another choice of the optional parts, and a mistake.
AllUnset == [s \in Settings |-> "unset"]
MCEnvironments == {AllUnset, [AllUnset EXCEPT !["audit"] = "false", !["origins"] = "true", !["probe"] = "true"],
                   [AllUnset EXCEPT !["others"] = "malformed"]}

MCFiles == <<<<"tunnels", "events", "idx">>, <<"notifications", "idx2">>, <<"origins">>>>

-----------------------------------------------------------------------------
Audits == {"audits", "probes", "probes beside audits", "pages", "pages beside audits"}
Probes == {"probes", "probes beside audits"}
Pages == {"pages", "pages beside audits"}
Others == {"origins", "logins", "capabilities", "log", "migrations", "uptime", "quality", "events"}

pageTables == <<dashTables, dashCounts, viewVars>>
all == <<focus, dashVars, probeVars, originVars, loginVars, capVars, logVars,
         migrationVars, upVars, chartVars, eventVars>>

\* What does not move has one initial state, and what can change into its
\* other states begins in one.
Pinned ==
  /\ account = IF focus \in Pages THEN Bypassed ELSE Guarded
  /\ CASE focus = "pages beside audits" -> TRUE
       [] focus \in {"audits", "pages", "probes"} -> auditAt
       [] OTHER -> ~auditAt
  /\ ingress = <<HTTP("g"), HTTP("p")>>
  /\ focus \in Pages \/ \A t \in Tunnels : details[t].status = "inactive" \/ details[t].rules = Connected.rules
  /\ focus = "capabilities" \/ config["audit"]
  /\ focus = "origins" \/ traffic.logins = {}
  /\ focus = "migrations" \/ recorded = {}

Init ==
  /\ focus \in Audits \cup Others
  /\ AuditInit /\ ProbeInit /\ DashInit /\ OriginInit /\ LoginInit /\ CapInit
  /\ LogInit /\ MigrationInit /\ UptimeInit /\ QualityInit /\ EventInit
  /\ Pinned

Still(component, v) == IF focus \in component THEN TRUE ELSE UNCHANGED v

\* The log of logins begins with the same one.
FirstLogin == Len(authLog') = 1 => authLog'[1] = LoginTo("a", "/", TRUE, "u")

\* One audit at a time where it is there for the sake of another component.
OneAudit == audits' <= 1 /\ auditPc'["manual"] = "idle"

Step ==
  \/ focus = "audits" /\ AuditNext
  \/ focus = "probes" /\ RoundsNext /\ path'["q"] = path["q"]
  \/ focus = "probes beside audits" /\ ProbeNext /\ OneAudit /\ changes' + pathChanges' + clock' = 0
  \/ focus = "pages" /\ (BuildView \/ DashWorld) /\ changes' = 0 /\ lookups' + polls' <= 1
  \/ focus = "pages beside audits" /\ DashNext /\ OneAudit /\ lookups' + mutes' = 0
       /\ \A t \in Tunnels : details'[t].status # "down"
  \/ focus = "origins" /\ OriginNext
  \/ focus = "logins" /\ LoginNext /\ FirstLogin
  \/ focus = "capabilities" /\ CapNext
  \/ focus = "log" /\ LogNext
  \/ focus = "migrations" /\ MigrationNext
  \/ focus = "uptime" /\ UptimeNext
  \/ focus = "quality" /\ QualityNext
  \/ focus = "events" /\ EventNext

Next ==
  /\ UNCHANGED focus
  /\ Step
  /\ Still(Audits, auditVars) /\ Still(Probes, probeVars) /\ Still(Pages, pageTables)
  /\ Still({"origins"}, originVars) /\ Still({"logins"}, loginVars)
  /\ Still({"capabilities"}, capVars) /\ Still({"log"}, logVars)
  /\ Still({"migrations"}, migrationVars) /\ Still({"uptime"}, upVars) /\ Still({"quality"}, chartVars)
  /\ Still({"events"}, eventVars)

Spec == Init /\ [][Next]_all

\* The types of all the components.
DaemonTypeOK ==
  /\ AuditTypeOK /\ ProbeTypeOK /\ DashTypeOK /\ OriginTypeOK /\ LoginTypeOK /\ CapTypeOK
  /\ LogTypeOK /\ MigrationTypeOK /\ UptimeTypeOK /\ QualityTypeOK /\ EventTypeOK

\* The pages beside the audits alone.
PagesInit == Init /\ focus = "pages beside audits"
PagesSpec == PagesInit /\ [][Next]_all
=============================================================================
