--------------------------- MODULE RequestOrigins ---------------------------
(***************************************************************************)
(* The summary of where requests come from (CollectRequestOrigins): one    *)
(* loop reads the HTTP analytics of every zone that serves a hostname and  *)
(* the analytics of the Access logins, replaces the stored summary by what *)
(* it got and announces the countries the old summary did not have.  A     *)
(* source that fails is left out of the round; every call, query and       *)
(* transaction is a step.                                                  *)
(***************************************************************************)
EXTENDS FiniteSetsExt, Integers

CONSTANTS
  ServedHosts,        \* hosts with an HTTP rule in the ingress table
  Traffic,            \* what the analytics may answer: zones and logins
  ExpectedCountries,  \* EXPECTED_COUNTRIES
  Window,             \* the window asked for, in minutes
  MaxCollections,     \* bound: rounds begun
  MaxTrafficChanges,  \* bound: changes of the traffic
  MaxOriginFailures   \* bound: failed calls and queries, crashes

VARIABLES
  traffic, trafficChanges, originFailures,    \* the world
  origins, originWindow,                      \* the table, the window's setting
  announced,                                  \* events written, per country, up to 2
  originPc, round, collections,               \* the running round
  partial, unannounced                        \* history, see AnnouncedOnce

originTables == <<origins, originWindow, announced>>
originRun == <<originPc, round, collections>>
originVars == <<traffic, trafficChanges, originFailures, originTables, originRun, partial, unannounced>>

\* The host of what has none, such as a login.
NoHostname == ""

\* The zones of an account stay and are known by an id; a login has no host.
ASSUME OriginAssumption ==
  /\ Window \in Nat \ {0}
  /\ NoHostname \notin ServedHosts
  /\ \A w \in Traffic :
       /\ IsFiniteSet(w.zones) /\ IsFiniteSet(w.logins)
       /\ \A z \in w.zones : /\ z.limit \in Int /\ z.length \in Nat
                             /\ IsFiniteSet(z.groups) /\ \A g \in z.groups : g.count \in Nat
       /\ \A g \in w.logins : g.host = NoHostname /\ g.count \in Nat
  /\ \A v, w \in Traffic : {z.id : z \in v.zones} = {z.id : z \in w.zones}

Unknown == "unknown"
NormalizeCountry(code) == IF code \in {"", "XX", "T1"} THEN Unknown ELSE code

\* A zone covers the hosts that end in its name; the longest name wins.
Covering(zones, h) == {z \in zones : h \in z.covers}
ZoneFor(zones, h) == CHOOSE z \in Covering(zones, h) : \A y \in Covering(zones, h) : y.length <= z.length
ZonesServing(zones) == {ZoneFor(zones, h) : h \in {s \in ServedHosts : Covering(zones, s) # {}}}

\* A limit of 0 is none.
ClampWindow(limit) == IF limit > 0 /\ Window > limit THEN limit ELSE Window

\* What the queries and the pages add up, over a set of groups or rows.
Summed(f, S) == MapThenSumSet(LAMBDA x : f[x], S)
Sum(groups) == Summed([g \in groups |-> g.count], groups)

\* The rows a zone's answer adds, merged by the upsert of the table: one per
\* host and country, with an error status counted as a refusal.
Rows(source, groups, window) ==
  {[source |-> source, host |-> k[1], country |-> k[2], window |-> window,
    allowed |-> Sum({g \in groups : <<g.host, NormalizeCountry(g.country)>> = k /\ g.success}),
    denied |-> Sum({g \in groups : <<g.host, NormalizeCountry(g.country)>> = k /\ ~g.success}),
    requests |-> Sum({g \in groups : <<g.host, NormalizeCountry(g.country)>> = k})]
   : k \in {<<g.host, NormalizeCountry(g.country)>> : g \in groups}}

\* What a query returns: the groups since the start of the window.
GroupsSince(groups, window) == {g \in groups : g.age <= window}

\* HTTPRequestsByCountry and toHTTPOrigins: the groups of the served hosts
\* that fall into the window the zone's plan allows.
HTTPOrigins(zone, window) ==
  Rows("http", {g \in GroupsSince(zone.groups, window) : g.host \in ServedHosts}, window)

LoginOrigins == Rows("login", GroupsSince(traffic.logins, Window), Window)

Countries(rows) == {r.country : r \in rows}

\* A zone is known by its id between two calls.
ZoneIn(w, id) == CHOOSE z \in w.zones : z.id = id
Zone(id) == ZoneIn(traffic, id)

NoRound == [zones |-> {}, window |-> 0, found |-> {}, effective |-> 0, failed |-> FALSE, known |-> {}]

OriginInit ==
  /\ traffic \in Traffic
  /\ trafficChanges = 0 /\ originFailures = 0
  /\ origins = {} /\ originWindow = 0
  /\ announced = [c \in {} |-> 0]
  /\ originPc = "idle" /\ round = NoRound /\ collections = 0
  /\ partial = FALSE /\ unannounced = FALSE

-----------------------------------------------------------------------------
TrafficChanges ==
  /\ trafficChanges < MaxTrafficChanges
  /\ trafficChanges' = trafficChanges + 1
  /\ traffic' \in Traffic \ {traffic}
  /\ UNCHANGED <<originFailures, originTables, originRun, partial, unannounced>>

OriginFails == originFailures < MaxOriginFailures /\ originFailures' = originFailures + 1
OriginRoundEnds == originPc' = "idle" /\ round' = NoRound

\* Nothing but the round's own state changes.
Reading == UNCHANGED <<traffic, trafficChanges, originTables, collections, partial, unannounced>>

BeginCollection ==
  /\ originPc = "idle" /\ collections < MaxCollections
  /\ collections' = collections + 1
  /\ originPc' = "zones"
  /\ UNCHANGED <<traffic, trafficChanges, originFailures, originTables, round, partial, unannounced>>

\* Ingress and ListZones; if either fails the HTTP source is left out.
ListZones ==
  /\ originPc = "zones"
  /\ \/ /\ round' = [round EXCEPT !.zones = {z.id : z \in ZonesServing(traffic.zones)}]
        /\ originPc' = "limits"
        /\ UNCHANGED originFailures
     \/ /\ OriginFails
        /\ round' = [round EXCEPT !.failed = TRUE]
        /\ originPc' = "logins"
  /\ Reading

\* Mutation of Smallest: the window of the zone asked last.
LastWindow(effective, window) == window

\* The window that all zones allow; 0 before the first.
Smallest(effective, window) == IF effective = 0 \/ window < effective THEN window ELSE effective

\* HTTPRequestsLimits of the next zone.
ReadLimits ==
  /\ originPc = "limits" /\ round.zones # {}
  /\ LET zone == CHOOSE id \in round.zones : TRUE
         window == ClampWindow(Zone(zone).limit)
     IN \/ /\ round' = [round EXCEPT !.window = window, !.effective = Smallest(@, window)]
           /\ originPc' = "query"
           /\ UNCHANGED originFailures
        \/ /\ OriginFails
           /\ round' = [round EXCEPT !.zones = @ \ {zone}, !.failed = TRUE]
           /\ UNCHANGED originPc
  /\ Reading

\* Its groups by country.
QueryZone ==
  /\ originPc = "query"
  /\ LET zone == CHOOSE id \in round.zones : TRUE
     IN \/ /\ round' = [round EXCEPT !.zones = @ \ {zone},
                                      !.found = @ \cup HTTPOrigins(Zone(zone), round.window)]
           /\ UNCHANGED originFailures
        \/ /\ OriginFails
           /\ round' = [round EXCEPT !.zones = @ \ {zone}, !.failed = TRUE]
  /\ originPc' = "limits"
  /\ Reading

ZonesRead ==
  /\ originPc = "limits" /\ round.zones = {}
  /\ originPc' = "logins"
  /\ UNCHANGED <<originFailures, round>> /\ Reading

QueryLogins ==
  /\ originPc = "logins"
  /\ \/ /\ round' = [round EXCEPT !.found = @ \cup LoginOrigins]
        /\ UNCHANGED originFailures
     \/ OriginFails /\ round' = [round EXCEPT !.failed = TRUE]
  /\ originPc' = "known"
  /\ Reading

\* "Without a single reachable source the old summary is better than none."
NothingToStore == round.found = {} /\ round.failed

KeepOldSummary ==
  /\ originPc = "known" /\ NothingToStore
  /\ OriginRoundEnds
  /\ UNCHANGED originFailures /\ Reading

\* If the old summary cannot be read, every country passes for a new one.
ReadKnown ==
  /\ originPc = "known" /\ ~NothingToStore
  /\ \/ /\ round' = [round EXCEPT !.known = Countries(origins)]
        /\ UNCHANGED <<originFailures, partial>>
     \/ OriginFails /\ partial' = TRUE /\ UNCHANGED round
  /\ originPc' = "replace"
  /\ UNCHANGED <<traffic, trafficChanges, originTables, collections, unannounced>>

ReplaceRequestOrigins ==
  /\ originPc = "replace"
  /\ \/ /\ origins' = round.found
        /\ partial' = (partial \/ round.failed)
        /\ originPc' = "events"
        /\ UNCHANGED <<originFailures, round>>
     \/ OriginFails /\ OriginRoundEnds /\ UNCHANGED <<origins, partial>>
  /\ UNCHANGED <<traffic, trafficChanges, originWindow, announced, collections, unannounced>>

\* Mutation of NewCountries: only the countries of the rows of this round that
\* are not expected, known or not.
UnexpectedCountries == Countries(round.found) \ ({Unknown} \cup ExpectedCountries)

\* Mutation of NewCountries: the countries of the HTTP requests alone.
NewHTTPCountries ==
  Countries({r \in round.found : r.source = "http"}) \ ({Unknown} \cup ExpectedCountries \cup round.known)

\* newCountryEvents.
NewCountries == Countries(round.found) \ ({Unknown} \cup ExpectedCountries \cup round.known)

Times(c) == IF c \in DOMAIN announced THEN announced[c] ELSE 0

AnnounceCountries ==
  /\ originPc = "events"
  /\ \/ /\ announced' = [c \in DOMAIN announced \cup NewCountries |->
             IF c \in NewCountries THEN Min({2, Times(c) + 1}) ELSE Times(c)]
        /\ UNCHANGED <<originFailures, unannounced>>
     \/ /\ OriginFails
        /\ unannounced' = (unannounced \/ NewCountries # {})
        /\ UNCHANGED announced
  /\ originPc' = "window"
  /\ UNCHANGED <<traffic, trafficChanges, origins, originWindow, round, collections, partial>>

\* The two settings; the time of the summary is not kept here.
SetOriginWindow ==
  /\ originPc = "window"
  /\ \/ /\ originWindow' = IF round.effective = 0 THEN Window ELSE round.effective
        /\ UNCHANGED <<originFailures, partial>>
     \/ OriginFails /\ partial' = TRUE /\ UNCHANGED originWindow
  /\ OriginRoundEnds
  /\ UNCHANGED <<traffic, trafficChanges, origins, announced, collections, unannounced>>

OriginCrash ==
  /\ originPc # "idle"
  /\ OriginFails /\ OriginRoundEnds
  /\ unannounced' = (unannounced \/ (originPc = "events" /\ NewCountries # {}))
  /\ partial' = (partial \/ originPc \in {"events", "window"})
  /\ UNCHANGED <<traffic, trafficChanges, originTables, collections>>

OriginNext ==
  \/ TrafficChanges \/ BeginCollection \/ ListZones \/ ReadLimits \/ QueryZone \/ ZonesRead
  \/ QueryLogins \/ KeepOldSummary \/ ReadKnown \/ ReplaceRequestOrigins
  \/ AnnounceCountries \/ SetOriginWindow \/ OriginCrash

OriginSpec == OriginInit /\ [][OriginNext]_originVars

-----------------------------------------------------------------------------
(* What the pages make of the table. *)

\* The rows of one tunnel's page; those of the logins have no host.
OriginsOf(hosts) == {r \in origins : r.host \in hosts}

CountryTotals(rows) ==
  [c \in Countries(rows) |->
     LET of == {r \in rows : r.country = c}
     IN [allowed |-> Summed([r \in of |-> r.allowed], of),
         denied |-> Summed([r \in of |-> r.denied], of),
         requests |-> Summed([r \in of |-> r.requests], of)]]

TotalOf(totals) == Summed([c \in DOMAIN totals |-> totals[c].requests], DOMAIN totals)

OriginSummary(rows) ==
  [requests |-> Summed([r \in rows |-> r.requests], rows), countries |-> CountryTotals(rows)]

\* One table per host, below the account's, on the audit page.
Breakdowns(rows) ==
  [h \in {r.host : r \in rows} \ {NoHostname} |->
     LET countries == CountryTotals({r \in rows : r.host = h})
     IN [requests |-> TotalOf(countries), countries |-> countries]]

\* formatWindow: what the period is called, in minutes.
FormatWindow(minutes) ==
  CASE minutes <= 0 -> 0
    [] minutes >= 48 * 60 -> 24 * 60 * (minutes \div (24 * 60))
    [] minutes \in 24 * 60 .. 48 * 60 - 1 -> 24 * 60
    [] minutes \in 2 * 60 .. 24 * 60 - 1 -> 60 * (minutes \div 60)
    [] OTHER -> 60

-----------------------------------------------------------------------------
OriginTypeOK ==
  /\ traffic \in Traffic
  /\ \A r \in origins : r.source \in {"http", "login"} /\ r.requests \in Nat
  /\ originWindow \in 0..Window
  /\ \A c \in DOMAIN announced : announced[c] \in 1..2

\* The countries that one zone reports whatever the traffic changes to, between
\* the call for its limits and the one for its groups too.
ServedZones(w) == {z.id : z \in ZonesServing(w.zones)}
Reported(id, before, now) ==
  Countries(HTTPOrigins(ZoneIn(now, id), ClampWindow(ZoneIn(before, id).limit)))
ReportedBy(id, c) == \A v, w \in Traffic : id \in ServedZones(w) /\ c \in Reported(id, v, w)
SteadyCountries ==
  {c \in UNION {UNION {Reported(id, w, w) : id \in ServedZones(w)} : w \in Traffic} :
     \E id \in UNION {ServedZones(w) : w \in Traffic} : ReportedBy(id, c)}

\* "a country showing up for the first time": a country whose requests to one
\* zone never stop is announced at most once, unless a summary was stored
\* without one of its sources or the stored summary could not be read
\* (`partial`).
AnnouncedOnce ==
  ~partial => \A c \in SteadyCountries : Times(c) <= 1

\* Every country of the stored summary that is neither unknown nor expected
\* has been announced, also after failures of a source, unless the events of a
\* round were lost after its summary was stored.
StoredWasAnnounced ==
  originPc # "events" /\ ~unannounced =>
    Countries(origins) \ ({Unknown} \cup ExpectedCountries) \subseteq DOMAIN announced

\* The windows of what a summary is made of: the one of the logins, and of
\* every zone that serves a host, with requests or without, what its plan allows.
AskedWindows == {Window} \cup {ClampWindow(Zone(id).limit) : id \in ServedZones(traffic)}

\* The summary says no more than was asked: every row of a served host, every
\* request either allowed or denied, and the window shown with the table one
\* that every row covers, called no longer than it is, from an hour on.  It is
\* "the window that survived the plan limits", also of a zone that had nothing
\* to report, whose silence is about its own window only: as long as the
\* traffic stays as it was, exactly the smallest of the windows asked for.
\* The pages count every request once: the shares of the countries make up the
\* total, the hosts' tables the part that is not of the logins, and two tunnels
\* without a host in common what one with the hosts of both would show.
OriginsAddUp ==
  /\ \A r \in origins : r.allowed + r.denied = r.requests /\ (r.source = "http" => r.host \in ServedHosts)
  /\ originPc = "idle" /\ ~partial => \A r \in origins : originWindow <= r.window
  /\ ~partial /\ trafficChanges = 0 /\ originWindow # 0 =>
       originWindow \in AskedWindows /\ \A window \in AskedWindows : originWindow <= window
  /\ originWindow >= 60 => FormatWindow(originWindow) \in 60..originWindow
  /\ LET whole == OriginSummary(origins)
         tables == Breakdowns(origins)
         logins == OriginSummary({r \in origins : r.source = "login"})
         tunnel(hosts) == OriginSummary(OriginsOf(hosts)).requests
     IN /\ whole.requests = TotalOf(whole.countries)
        /\ whole.requests = TotalOf(tables) + logins.requests
        /\ \A hosts \in SUBSET ServedHosts :
             whole.requests = tunnel(hosts) + tunnel(ServedHosts \ hosts) + logins.requests
=============================================================================
