--------------------------- MODULE CollectorProofs ---------------------------
(***************************************************************************)
(* What survives the process, whatever breaks off: the schema of the       *)
(* database, the map of permissions, the summary of the request origins    *)
(* with the events that announced its countries, and the log of the Access *)
(* logins; and that what the pages sum up over the last two adds up.       *)
(* Proofs for every set of migrations, every environment, every number of  *)
(* recorders, all traffic, all logins and any bound.                       *)
(***************************************************************************)
EXTENDS Migrations, Capabilities, RequestOrigins, AccessLogins, SequenceTheorems, FoldLemmas

-----------------------------------------------------------------------------
(* The migrations.                                                         *)

Tables == UNION {ToSet(Files[i]) : i \in DOMAIN Files}

\* What a file has created is all there up to the statement at hand, and every
\* file before the one at hand is recorded.
MigrationInv ==
  /\ recorded \subseteq DOMAIN Files
  /\ file \in 1..(Len(Files) + 1) /\ statement \in Nat
  /\ storeState \in {"migrating", "open", "failed"}
  /\ \A i \in recorded : ToSet(Files[i]) \subseteq schema
  /\ \A i \in 1..(file - 1) : i \in recorded
  /\ \A s \in 1..statement :
       file <= Len(Files) /\ s <= Len(Files[file]) /\ Files[file][s] \in schema
  /\ storeState = "open" => file = Len(Files) + 1

LEMMA FilesTypes ==
  /\ Len(Files) \in Nat /\ DOMAIN Files = 1..Len(Files)
  /\ \A i \in DOMAIN Files : Len(Files[i]) \in Nat /\ DOMAIN Files[i] = 1..Len(Files[i])
<1>1. Files \in Seq(Seq(Tables))
  BY FilesAssumption DEF Tables
<1>2. Len(Files) \in Nat /\ DOMAIN Files = 1..Len(Files)
  BY <1>1
<1>3. \A i \in DOMAIN Files : Files[i] \in Seq(Tables)
  BY <1>1
<1>4. QED BY <1>2, <1>3

LEMMA MigrationStart == MigrationInit => MigrationInv
<1> SUFFICES ASSUME MigrationInit PROVE MigrationInv
  OBVIOUS
<1>1. PICK installed \in 0..Len(Files) :
        recorded = 1..installed /\ schema = UNION {ToSet(Files[i]) : i \in 1..installed}
  BY DEF MigrationInit
<1>2. recorded \subseteq DOMAIN Files /\ \A i \in recorded : ToSet(Files[i]) \subseteq schema
  BY <1>1, FilesTypes
<1>3. QED BY <1>2, FilesTypes DEF MigrationInit, MigrationInv

LEMMA MigrationStep ==
  ASSUME MigrationInv, [MigrationNext]_migrationVars
  PROVE  MigrationInv'
<1>1. CASE SkipRecorded
  <2>1. /\ file' = file + 1 /\ statement' = 0 /\ file \in recorded /\ file <= Len(Files)
        /\ UNCHANGED <<schema, recorded, storeState>> /\ storeState = "migrating"
    BY <1>1 DEF SkipRecorded, Migrating
  <2>2. file' \in 1..(Len(Files) + 1) /\ \A i \in 1..(file' - 1) : i \in recorded
    BY <2>1, FilesTypes DEF MigrationInv
  <2>3. QED BY <2>1, <2>2 DEF MigrationInv
<1>2. CASE Execute
  <2>1. /\ schema' = schema \cup {Files[file][statement + 1]} /\ statement' = statement + 1
        /\ UNCHANGED <<recorded, file, storeState>> /\ file <= Len(Files)
        /\ statement < Len(Files[file])
    BY <1>2 DEF Execute, Migrating
  <2>2. file \in DOMAIN Files /\ Len(Files[file]) \in Nat /\ statement \in Nat
    BY <2>1, FilesTypes DEF MigrationInv
  <2>3. \A s \in 1..statement' : s \in 1..statement \/ s = statement + 1
    BY <2>1, <2>2
  <2>4. \A s \in 1..statement' : s <= Len(Files[file]) /\ Files[file][s] \in schema'
    BY <2>1, <2>2, <2>3 DEF MigrationInv
  <2>5. QED BY <2>1, <2>2, <2>4 DEF MigrationInv
<1>3. CASE RecordMigration
  <2>1. /\ recorded' = recorded \cup {file} /\ file' = file + 1 /\ statement' = 0
        /\ UNCHANGED <<schema, storeState>> /\ storeState = "migrating"
        /\ file <= Len(Files) /\ statement = Len(Files[file])
    BY <1>3 DEF RecordMigration, Migrating, Executed
  <2>2. file \in DOMAIN Files /\ file' \in 1..(Len(Files) + 1)
    BY <2>1, FilesTypes DEF MigrationInv
  <2>3. DOMAIN Files[file] = 1..statement
    BY <2>1, <2>2, FilesTypes
  <2>4. ToSet(Files[file]) \subseteq schema
    BY <2>3 DEF ToSet, MigrationInv
  <2>5. \A i \in 1..(file' - 1) : i \in recorded'
    BY <2>1, <2>2, FilesTypes DEF MigrationInv
  <2>6. QED BY <2>1, <2>2, <2>4, <2>5 DEF MigrationInv
<1>4. CASE Opened \/ MigrationFails
  BY <1>4 DEF Opened, MigrationFails, MigrationInv
<1>5. CASE StartAgain
  BY <1>5, FilesTypes DEF StartAgain, MigrationInv
<1>6. CASE UNCHANGED migrationVars
  BY <1>6 DEF migrationVars, MigrationInv
<1>7. QED BY <1>1, <1>2, <1>3, <1>4, <1>5, <1>6 DEF MigrationNext

\* However often a start broke off, an open store has the tables of every
\* migration, and a recorded migration has taken effect.
THEOREM OpenStoreHasSchema == MigrationSpec => []OpenHasSchema
<1>1. MigrationInv => OpenHasSchema
  <2>1. SUFFICES ASSUME MigrationInv PROVE OpenHasSchema
    OBVIOUS
  <2>2. ASSUME storeState = "open", NEW i \in DOMAIN Files PROVE ToSet(Files[i]) \subseteq schema
    <3>1. i \in 1..(file - 1)
      BY <2>1, <2>2, FilesTypes DEF MigrationInv
    <3>2. QED BY <2>1, <3>1 DEF MigrationInv
  <2>3. QED BY <2>1, <2>2 DEF MigrationInv, OpenHasSchema
<1>2. QED BY <1>1, MigrationStart, MigrationStep, PTL DEF MigrationSpec

-----------------------------------------------------------------------------
(* The map of permissions.                                                 *)

KnownMaps == [Areas -> CallStates \cup {NoOutcome}]

\* A recorder that is alone will write, or has written, what is in memory.
CapInv ==
  /\ config \in [Switches -> BOOLEAN]
  /\ known \in KnownMaps /\ storedKnown \in KnownMaps
  /\ snapshot \in [Recorders -> KnownMaps \cup {NoOutcome}]
  /\ known = lastOutcome
  /\ alone =>
       /\ \A q, r \in Recorders : snapshot[q] # NoOutcome /\ snapshot[r] # NoOutcome => q = r
       /\ \A r \in Recorders : snapshot[r] \in {known, NoOutcome}
       /\ (\A r \in Recorders : snapshot[r] = NoOutcome) => storedKnown = known

LEMMA ConfigTypes == Configs \subseteq [Switches -> BOOLEAN]
<1>1. ASSUME NEW env PROVE Load(env) = NoConfig \/ Load(env) \in [Switches -> BOOLEAN]
  <2> DEFINE loaded == [s \in Switches |-> EnvBool(env[s], s \in {"audit", "release"})]
  <2>1. ASSUME NEW s \in Switches
        PROVE  EnvBool(env[s], s \in {"audit", "release"}) \in BOOLEAN
    <3>1. CASE env[s] = "unset"
      BY <3>1 DEF EnvBool
    <3>2. CASE env[s] # "unset"
      <4>1. EnvBool(env[s], s \in {"audit", "release"}) = (env[s] = "true")
        BY <3>2 DEF EnvBool
      <4>2. QED BY <4>1
    <3>3. QED BY <3>1, <3>2
  <2>2. loaded \in [Switches -> BOOLEAN]
    BY <2>1
  <2>3. Load(env) \in {NoConfig, loaded}
    BY DEF Load
  <2>4. QED BY <2>2, <2>3
<1>2. QED BY <1>1 DEF Configs

LEMMA CapStart == CapInit => CapInv
BY ConfigTypes DEF CapInit, CapInv, KnownMaps, Nothing

LEMMA CapStep ==
  ASSUME CapInv, [CapNext]_capVars
  PROVE  CapInv'
<1>1. ASSUME NEW r \in Recorders, NEW area \in Areas, NEW state \in CallStates, Record(r, area, state)
      PROVE  CapInv'
  <2> DEFINE new == [known EXCEPT ![area] = state]
  <2>1. /\ known' = new /\ snapshot' = [snapshot EXCEPT ![r] = new]
        /\ lastOutcome' = [lastOutcome EXCEPT ![area] = state]
        /\ alone' = (\A q \in Recorders : snapshot[q] = NoOutcome)
        /\ UNCHANGED <<config, storedKnown>>
    BY <1>1 DEF Record, Updated
  <2>2. new \in KnownMaps /\ known' = lastOutcome' /\ new # NoOutcome
    BY <2>1, NoOutcomeAssumption DEF CapInv, KnownMaps
  <2> HIDE DEF new
  <2>3. /\ snapshot' \in [Recorders -> KnownMaps \cup {NoOutcome}] /\ snapshot'[r] = new
        /\ \A q \in Recorders \ {r} : snapshot'[q] = snapshot[q]
    BY <2>1, <2>2 DEF CapInv
  <2>4. alone' => \A q \in Recorders \ {r} : snapshot'[q] = NoOutcome
    BY <2>1, <2>3
  <2>5. QED BY <2>1, <2>2, <2>3, <2>4 DEF CapInv
<1>2. ASSUME NEW r \in Recorders, StoreCapabilities(r)
      PROVE  CapInv'
  <2>1. /\ snapshot[r] # NoOutcome /\ snapshot' = [snapshot EXCEPT ![r] = NoOutcome]
        /\ UNCHANGED <<config, known, lastOutcome>>
        /\ \/ storedKnown' = snapshot[r] /\ UNCHANGED alone
           \/ ~alone' /\ UNCHANGED storedKnown
    BY <1>2 DEF StoreCapabilities
  <2>2. /\ snapshot' \in [Recorders -> KnownMaps \cup {NoOutcome}] /\ snapshot'[r] = NoOutcome
        /\ \A q \in Recorders \ {r} : snapshot'[q] = snapshot[q]
    BY <2>1 DEF CapInv
  <2>3. storedKnown' \in KnownMaps
    BY <2>1 DEF CapInv
  <2>4. alone' => storedKnown' = known /\ \A q \in Recorders : snapshot'[q] = NoOutcome
    BY <2>1, <2>2 DEF CapInv
  <2>5. QED BY <2>1, <2>2, <2>3, <2>4 DEF CapInv
<1>3. CASE CapRestart
  BY <1>3, ConfigTypes DEF CapRestart, CapInv, KnownMaps, Nothing
<1>4. CASE UNCHANGED capVars
  BY <1>4 DEF capVars, CapInv
<1>5. QED BY <1>1, <1>2, <1>3, <1>4 DEF CapNext

\* What a call is found to be: never "disabled", which only the configuration
\* decides.
LEMMA OutcomesAreCalls == "disabled" \notin CallStates
BY DEF CallStates, CallResults, StateOf, IsForbidden

\* After a record that met no other and whose write succeeded, the About page
\* shows the last outcome of every area; "disabled" and "off" it shows of what
\* no loop calls or runs.
THEOREM AboutPageIsCurrent == CapSpec => []PermissionsAreCurrent
<1>1. CapInv => PermissionsAreCurrent
  <2>1. SUFFICES ASSUME CapInv PROVE PermissionsAreCurrent
    OBVIOUS
  <2>2. ASSUME alone, \A r \in Recorders : snapshot[r] = NoOutcome,
               NEW area \in {a \in Areas : ~SwitchedOff(a)}
        PROVE  Permission(area) = IF lastOutcome[area] = NoOutcome THEN "unknown" ELSE lastOutcome[area]
    <3>1. storedKnown = lastOutcome
      BY <2>1, <2>2 DEF CapInv
    <3>2. QED BY <2>2, <3>1 DEF Permission
  <2>3. config \in [Switches -> BOOLEAN]
    BY <2>1 DEF CapInv
  <2>4. \A s \in {"release", "audit", "logins", "origins", "probe"} : (s \in Spawned) = config[s]
    BY <2>3 DEF Spawned, Switches
  <2>5. ASSUME NEW area \in Areas \ {"notifications"}
        PROVE  (Permission(area) = "disabled") <=> ~Called(area)
    <3>1. (Permission(area) = "disabled") <=> SwitchedOff(area)
      <4>1. storedKnown[area] \in CallStates \cup {NoOutcome}
        BY <2>1, <2>5 DEF CapInv, KnownMaps
      <4>2. QED BY <4>1, OutcomesAreCalls DEF Permission
    <3>2. area \in CapabilityKeys \ {"notifications"}
      BY <2>5, AreasAssumption
    <3>3. SwitchedOff(area) <=> ~Called(area)
      <4>1. CASE area = "tunnels"
        BY <4>1 DEF SwitchedOff, Called
      <4>2. CASE area \in {"access_apps", "service_tokens"}
        BY <2>4, <4>2 DEF SwitchedOff, Called
      <4>3. CASE area = "access_logins"
        BY <2>4, <4>3 DEF SwitchedOff, Called
      <4>4. CASE area \in {"zones", "zone_analytics", "login_analytics"}
        BY <2>4, <4>4 DEF SwitchedOff, Called
      <4>5. QED BY <3>2, <4>1, <4>2, <4>3, <4>4 DEF CapabilityKeys
    <3>4. QED BY <3>1, <3>3
  <2>6. ASSUME NEW s \in {"release", "audit", "logins", "origins", "probe"}
        PROVE  (Feature(s) = "off") <=> s \notin Spawned
    BY <2>4 DEF Feature
  <2>7. QED BY <2>2, <2>5, <2>6 DEF PermissionsAreCurrent
<1>2. QED BY <1>1, CapStart, CapStep, PTL DEF CapSpec

-----------------------------------------------------------------------------
(* The summary of the request origins.                                     *)

RoundShape ==
  round = [zones |-> round.zones, window |-> round.window, found |-> round.found,
           effective |-> round.effective, failed |-> round.failed, known |-> round.known]

\* The countries worth an event.
Notable(countries) == countries \ ({Unknown} \cup ExpectedCountries)

\* What is stored was announced, but for the countries between the two writes
\* of a round.
StoredInv ==
  /\ originPc = "events" => origins = round.found
  /\ ~unannounced =>
       /\ Notable(round.known) \subseteq DOMAIN announced
       /\ originPc # "events" => Notable(Countries(origins)) \subseteq DOMAIN announced

\* A round that no source failed has met every steady country, or will in a
\* zone that it still has to read.
MeetsSteady ==
  ~round.failed => \A c \in SteadyCountries :
    /\ originPc \in {"limits", "query"} =>
         c \in Countries(round.found) \/ \E id \in round.zones : ReportedBy(id, c)
    /\ originPc \in {"logins", "known", "replace", "events"} => c \in Countries(round.found)

\* The window a zone is asked for is the one its limits allowed.
WindowInv ==
  originPc = "query" =>
    \E v \in Traffic : round.window = ClampWindow(ZoneIn(v, CHOOSE id \in round.zones : TRUE).limit)

\* A steady country that was announced is known to every later round.
OnceInv ==
  ~partial => \A c \in SteadyCountries : c \in DOMAIN announced =>
    /\ announced[c] = 1
    /\ c \in Countries(origins)
    /\ originPc \in {"replace", "events"} => c \in round.known

OriginsInv ==
  /\ traffic \in Traffic /\ RoundShape
  /\ originPc = "idle" => round = NoRound
  /\ originPc = "query" => round.zones # {}
  /\ StoredInv /\ WindowInv /\ MeetsSteady /\ OnceInv

LEMMA MinOfTwoAndOne == Min({2, 1}) = 1
<1> DEFINE S == {2, 1}
<1>1. 1 \in S /\ \A y \in S : 1 <= y
  OBVIOUS
<1>2. \E x \in S : \A y \in S : x <= y
  BY <1>1
<1>3. Min(S) = CHOOSE x \in S : \A y \in S : x <= y
  BY DEF Min
<1>4. Min(S) \in S /\ \A y \in S : Min(S) <= y
  <2> HIDE DEF S
  <2> QED
    BY <1>2, <1>3
<1>5. Min(S) <= 1
  BY <1>1, <1>4
<1> QED
  BY <1>4, <1>5

LEMMA CountriesOfUnion ==
  ASSUME NEW A, NEW B
  PROVE  Countries(A \cup B) = Countries(A) \cup Countries(B)
BY DEF Countries

\* Whatever the traffic, some zone reports the country.
LEMMA SteadyServed ==
  ASSUME traffic \in Traffic, NEW c \in SteadyCountries
  PROVE  \E id \in ServedZones(traffic) : ReportedBy(id, c)
<1>1. PICK id : ReportedBy(id, c)
  BY DEF SteadyCountries
<1>2. id \in ServedZones(traffic)
  BY <1>1 DEF ReportedBy
<1> QED
  BY <1>1, <1>2

LEMMA SteadyStays == SteadyCountries' = SteadyCountries
OBVIOUS

LEMMA OriginsStart == OriginInit => OriginsInv
<1> SUFFICES ASSUME OriginInit PROVE OriginsInv
  OBVIOUS
<1> USE DEF OriginInit
<1>1. traffic \in Traffic /\ originPc = "idle" /\ round = NoRound
  OBVIOUS
<1>2. RoundShape
  BY DEF RoundShape, NoRound
<1>3. Countries({}) = {}
  BY DEF Countries
<1>4. round.known = {} /\ Notable({}) = {}
  BY DEF NoRound, Notable
<1>5. StoredInv
  BY <1>3, <1>4 DEF StoredInv
<1>6. DOMAIN announced = {}
  OBVIOUS
<1>7. OnceInv
  BY <1>6 DEF OnceInv
<1> QED
  BY <1>1, <1>2, <1>5, <1>7 DEF OriginsInv, WindowInv, MeetsSteady

\* Traffic that changes leaves what is steady as it is.
LEMMA OriginsTraffic == OriginsInv /\ TrafficChanges => OriginsInv'
<1> SUFFICES ASSUME OriginsInv, TrafficChanges PROVE OriginsInv'
  OBVIOUS
<1>1. traffic \in Traffic /\ traffic' \in Traffic
  BY DEF OriginsInv, TrafficChanges
<1>2. SteadyCountries' = SteadyCountries
  BY <1>1, SteadyStays
<1>3. UNCHANGED <<origins, announced, originPc, round, partial, unannounced>>
  BY DEF TrafficChanges, originTables, originRun
<1>4. RoundShape' /\ StoredInv' /\ WindowInv'
  BY <1>3 DEF OriginsInv, RoundShape, StoredInv, WindowInv
<1>5. MeetsSteady' /\ OnceInv'
  BY <1>2, <1>3 DEF OriginsInv, MeetsSteady, OnceInv
<1> QED
  BY <1>1, <1>3, <1>4, <1>5 DEF OriginsInv

\* The steps that read: the table, the events and what is steady stay.
LEMMA ReadingKeeps ==
  ASSUME OriginsInv, Reading
  PROVE  /\ traffic' \in Traffic /\ SteadyCountries' = SteadyCountries
         /\ UNCHANGED <<origins, announced, partial, unannounced>>
<1>1. traffic \in Traffic /\ traffic' \in Traffic
  BY DEF OriginsInv, Reading
<1> QED
  BY <1>1, SteadyStays DEF Reading, originTables

LEMMA OriginsBegin == OriginsInv /\ BeginCollection => OriginsInv'
<1> SUFFICES ASSUME OriginsInv, BeginCollection PROVE OriginsInv'
  OBVIOUS
<1>1. traffic \in Traffic /\ traffic' \in Traffic
  BY DEF OriginsInv, BeginCollection
<1>2. SteadyCountries' = SteadyCountries
  BY <1>1, SteadyStays
<1>3. /\ originPc = "idle" /\ originPc' = "zones"
      /\ UNCHANGED <<origins, announced, round, partial, unannounced>>
  BY DEF BeginCollection, originTables
<1>4. RoundShape' /\ StoredInv' /\ WindowInv'
  BY <1>3 DEF OriginsInv, RoundShape, StoredInv, WindowInv
<1>5. MeetsSteady' /\ OnceInv'
  BY <1>2, <1>3 DEF OriginsInv, MeetsSteady, OnceInv
<1> QED
  BY <1>1, <1>3, <1>4, <1>5 DEF OriginsInv

LEMMA OriginsListZones == OriginsInv /\ ListZones => OriginsInv'
<1> SUFFICES ASSUME OriginsInv, ListZones PROVE OriginsInv'
  OBVIOUS
<1>1. /\ traffic' \in Traffic /\ SteadyCountries' = SteadyCountries
      /\ UNCHANGED <<origins, announced, partial, unannounced>>
  BY ReadingKeeps DEF ListZones
<1>2. originPc = "zones"
  BY DEF ListZones
<1>3. RoundShape
  BY DEF OriginsInv
<1>4. CASE /\ round' = [round EXCEPT !.zones = {z.id : z \in ZonesServing(traffic.zones)}]
           /\ originPc' = "limits"
  <2>1. RoundShape' /\ round'.known = round.known /\ round'.zones = ServedZones(traffic)
    BY <1>3, <1>4 DEF RoundShape, ServedZones
  <2>2. StoredInv' /\ OnceInv'
    BY <1>1, <1>2, <1>4, <2>1 DEF OriginsInv, StoredInv, OnceInv
  <2>3. \A c \in SteadyCountries : \E id \in ServedZones(traffic) : ReportedBy(id, c)
    BY SteadyServed DEF OriginsInv
  <2>4. MeetsSteady'
    BY <1>1, <1>4, <2>1, <2>3 DEF MeetsSteady
  <2> QED
    BY <1>1, <1>4, <2>1, <2>2, <2>4 DEF OriginsInv, WindowInv
<1>5. CASE round' = [round EXCEPT !.failed = TRUE] /\ originPc' = "logins"
  <2>1. RoundShape' /\ round'.known = round.known /\ round'.failed
    BY <1>3, <1>5 DEF RoundShape
  <2>2. StoredInv' /\ OnceInv'
    BY <1>1, <1>2, <1>5, <2>1 DEF OriginsInv, StoredInv, OnceInv
  <2> QED
    BY <1>1, <1>5, <2>1, <2>2 DEF OriginsInv, WindowInv, MeetsSteady
<1> QED
  BY <1>4, <1>5 DEF ListZones

LEMMA OriginsReadLimits == OriginsInv /\ ReadLimits => OriginsInv'
<1> SUFFICES ASSUME OriginsInv, ReadLimits PROVE OriginsInv'
  OBVIOUS
<1> DEFINE zone == CHOOSE id \in round.zones : TRUE
           window == ClampWindow(Zone(zone).limit)
<1>1. /\ traffic' \in Traffic /\ SteadyCountries' = SteadyCountries
      /\ UNCHANGED <<origins, announced, partial, unannounced>>
  BY ReadingKeeps DEF ReadLimits
<1>2. originPc = "limits" /\ round.zones # {}
  BY DEF ReadLimits
<1>3. RoundShape
  BY DEF OriginsInv
<1>4. CASE /\ round' = [round EXCEPT !.window = window, !.effective = Smallest(@, window)]
           /\ originPc' = "query"
  <2>1. window = ClampWindow(ZoneIn(traffic, zone).limit)
    BY DEF Zone
  <2> HIDE DEF window
  <2>2. /\ RoundShape' /\ round'.window = window
        /\ round'.zones = round.zones /\ round'.found = round.found
        /\ round'.failed = round.failed /\ round'.known = round.known
    BY <1>3, <1>4 DEF RoundShape
  <2>3. StoredInv' /\ OnceInv'
    BY <1>1, <1>2, <1>4, <2>2 DEF OriginsInv, StoredInv, OnceInv
  <2>4. MeetsSteady'
    BY <1>1, <1>2, <1>4, <2>2 DEF OriginsInv, MeetsSteady
  <2>5. WindowInv'
    BY <2>1, <2>2 DEF OriginsInv, WindowInv
  <2> QED
    BY <1>1, <1>2, <1>4, <2>2, <2>3, <2>4, <2>5 DEF OriginsInv
<1>5. CASE /\ round' = [round EXCEPT !.zones = @ \ {zone}, !.failed = TRUE]
           /\ UNCHANGED originPc
  <2> HIDE DEF zone
  <2>1. RoundShape' /\ round'.known = round.known /\ round'.failed
    BY <1>3, <1>5 DEF RoundShape
  <2>2. StoredInv' /\ OnceInv'
    BY <1>1, <1>2, <1>5, <2>1 DEF OriginsInv, StoredInv, OnceInv
  <2> QED
    BY <1>1, <1>2, <1>5, <2>1, <2>2 DEF OriginsInv, WindowInv, MeetsSteady
<1> QED
  BY <1>4, <1>5 DEF ReadLimits

\* The zone that was read has reported its steady countries.
LEMMA OriginsQueryZone == OriginsInv /\ QueryZone => OriginsInv'
<1> SUFFICES ASSUME OriginsInv, QueryZone PROVE OriginsInv'
  OBVIOUS
<1> DEFINE zone == CHOOSE id \in round.zones : TRUE
           rows == HTTPOrigins(Zone(zone), round.window)
<1>1. /\ traffic' \in Traffic /\ SteadyCountries' = SteadyCountries
      /\ UNCHANGED <<origins, announced, partial, unannounced>>
  BY ReadingKeeps DEF QueryZone
<1>2. originPc = "query" /\ originPc' = "limits" /\ traffic \in Traffic
  BY DEF QueryZone, OriginsInv
<1>3. RoundShape
  BY DEF OriginsInv
<1>4. CASE round' = [round EXCEPT !.zones = @ \ {zone}, !.found = @ \cup rows]
  <2>1. PICK v \in Traffic : round.window = ClampWindow(ZoneIn(v, zone).limit)
    BY <1>2 DEF OriginsInv, WindowInv
  <2>2. Countries(rows) = Reported(zone, v, traffic)
    BY <2>1 DEF Reported, Zone
  <2>3. ASSUME NEW c, ReportedBy(zone, c)
        PROVE  c \in Countries(rows)
    BY <1>2, <2>2, <2>3 DEF ReportedBy
  <2> HIDE DEF zone, rows
  <2>4. /\ RoundShape' /\ round'.zones = round.zones \ {zone}
        /\ round'.found = round.found \cup rows
        /\ round'.failed = round.failed /\ round'.known = round.known
    BY <1>3, <1>4 DEF RoundShape
  <2>5. StoredInv' /\ OnceInv'
    BY <1>1, <1>2, <2>4 DEF OriginsInv, StoredInv, OnceInv
  <2>6. Countries(round'.found) = Countries(round.found) \cup Countries(rows)
    BY <2>4, CountriesOfUnion
  <2>7. MeetsSteady'
    <3> SUFFICES ASSUME ~round'.failed, NEW c \in SteadyCountries
                 PROVE  c \in Countries(round'.found) \/ \E id \in round'.zones : ReportedBy(id, c)
      BY <1>1, <1>2 DEF MeetsSteady
    <3>1. c \in Countries(round.found) \/ \E id \in round.zones : ReportedBy(id, c)
      BY <1>2, <2>4 DEF OriginsInv, MeetsSteady
    <3> QED
      BY <2>3, <2>4, <2>6, <3>1
  <2> QED
    BY <1>1, <1>2, <2>4, <2>5, <2>7 DEF OriginsInv, WindowInv
<1>5. CASE round' = [round EXCEPT !.zones = @ \ {zone}, !.failed = TRUE]
  <2> HIDE DEF zone
  <2>1. RoundShape' /\ round'.known = round.known /\ round'.failed
    BY <1>3, <1>5 DEF RoundShape
  <2>2. StoredInv' /\ OnceInv'
    BY <1>1, <1>2, <2>1 DEF OriginsInv, StoredInv, OnceInv
  <2> QED
    BY <1>1, <1>2, <2>1, <2>2 DEF OriginsInv, WindowInv, MeetsSteady
<1> QED
  BY <1>4, <1>5 DEF QueryZone

LEMMA OriginsZonesRead == OriginsInv /\ ZonesRead => OriginsInv'
<1> SUFFICES ASSUME OriginsInv, ZonesRead PROVE OriginsInv'
  OBVIOUS
<1>1. /\ traffic' \in Traffic /\ SteadyCountries' = SteadyCountries
      /\ UNCHANGED <<origins, announced, partial, unannounced>>
  BY ReadingKeeps DEF ZonesRead
<1>2. originPc = "limits" /\ round.zones = {} /\ originPc' = "logins" /\ UNCHANGED round
  BY DEF ZonesRead
<1>3. RoundShape' /\ StoredInv' /\ OnceInv'
  BY <1>1, <1>2 DEF OriginsInv, RoundShape, StoredInv, OnceInv
<1>4. MeetsSteady'
  BY <1>1, <1>2 DEF OriginsInv, MeetsSteady
<1> QED
  BY <1>1, <1>2, <1>3, <1>4 DEF OriginsInv, WindowInv

LEMMA OriginsQueryLogins == OriginsInv /\ QueryLogins => OriginsInv'
<1> SUFFICES ASSUME OriginsInv, QueryLogins PROVE OriginsInv'
  OBVIOUS
<1>1. /\ traffic' \in Traffic /\ SteadyCountries' = SteadyCountries
      /\ UNCHANGED <<origins, announced, partial, unannounced>>
  BY ReadingKeeps DEF QueryLogins
<1>2. originPc = "logins" /\ originPc' = "known"
  BY DEF QueryLogins
<1>3. RoundShape
  BY DEF OriginsInv
<1>4. CASE round' = [round EXCEPT !.found = @ \cup LoginOrigins]
  <2>1. /\ RoundShape' /\ round'.found = round.found \cup LoginOrigins
        /\ round'.failed = round.failed /\ round'.known = round.known
    BY <1>3, <1>4 DEF RoundShape
  <2>2. StoredInv' /\ OnceInv'
    BY <1>1, <1>2, <2>1 DEF OriginsInv, StoredInv, OnceInv
  <2>3. Countries(round.found) \subseteq Countries(round'.found)
    BY <2>1, CountriesOfUnion
  <2>4. MeetsSteady'
    BY <1>1, <1>2, <2>1, <2>3 DEF OriginsInv, MeetsSteady
  <2> QED
    BY <1>1, <1>2, <2>1, <2>2, <2>4 DEF OriginsInv, WindowInv
<1>5. CASE round' = [round EXCEPT !.failed = TRUE]
  <2>1. RoundShape' /\ round'.known = round.known /\ round'.failed
    BY <1>3, <1>5 DEF RoundShape
  <2>2. StoredInv' /\ OnceInv'
    BY <1>1, <1>2, <2>1 DEF OriginsInv, StoredInv, OnceInv
  <2> QED
    BY <1>1, <1>2, <2>1, <2>2 DEF OriginsInv, WindowInv, MeetsSteady
<1> QED
  BY <1>4, <1>5 DEF QueryLogins

\* The two ways a round ends before it has written anything.
LEMMA OriginsRoundDropped ==
  ASSUME OriginsInv, OriginRoundEnds, traffic' \in Traffic,
         UNCHANGED <<origins, announced, partial, unannounced>>,
         originPc # "events"
  PROVE  OriginsInv'
<1>1. SteadyCountries' = SteadyCountries
  BY SteadyStays DEF OriginsInv
<1>2. originPc' = "idle" /\ round' = NoRound
  BY DEF OriginRoundEnds
<1>3. RoundShape' /\ round'.known = {}
  BY <1>2 DEF RoundShape, NoRound
<1>4. Notable({}) = {}
  BY DEF Notable
<1>5. StoredInv'
  BY <1>2, <1>3, <1>4 DEF OriginsInv, StoredInv
<1>6. OnceInv'
  BY <1>1, <1>2 DEF OriginsInv, OnceInv
<1> QED
  BY <1>2, <1>3, <1>5, <1>6 DEF OriginsInv, WindowInv, MeetsSteady

LEMMA OriginsKeepOld == OriginsInv /\ KeepOldSummary => OriginsInv'
<1> SUFFICES ASSUME OriginsInv, KeepOldSummary PROVE OriginsInv'
  OBVIOUS
<1>1. /\ traffic' \in Traffic
      /\ UNCHANGED <<origins, announced, partial, unannounced>>
  BY ReadingKeeps DEF KeepOldSummary
<1> QED
  BY <1>1, OriginsRoundDropped DEF KeepOldSummary

LEMMA OriginsReadKnown == OriginsInv /\ ReadKnown => OriginsInv'
<1> SUFFICES ASSUME OriginsInv, ReadKnown PROVE OriginsInv'
  OBVIOUS
<1>1. traffic \in Traffic /\ traffic' \in Traffic
  BY DEF OriginsInv, ReadKnown
<1>2. SteadyCountries' = SteadyCountries
  BY <1>1, SteadyStays
<1>3. /\ originPc = "known" /\ originPc' = "replace"
      /\ UNCHANGED <<origins, announced, unannounced>>
  BY DEF ReadKnown, originTables
<1>4. RoundShape
  BY DEF OriginsInv
<1>5. CASE round' = [round EXCEPT !.known = Countries(origins)] /\ UNCHANGED partial
  <2>1. /\ RoundShape' /\ round'.known = Countries(origins)
        /\ round'.found = round.found /\ round'.failed = round.failed
    BY <1>4, <1>5 DEF RoundShape
  <2>2. StoredInv'
    BY <1>3, <2>1 DEF OriginsInv, StoredInv
  <2>3. OnceInv'
    BY <1>2, <1>3, <1>5, <2>1 DEF OriginsInv, OnceInv
  <2>4. MeetsSteady'
    BY <1>2, <1>3, <2>1 DEF OriginsInv, MeetsSteady
  <2> QED
    BY <1>1, <1>3, <2>1, <2>2, <2>3, <2>4 DEF OriginsInv, WindowInv
<1>6. CASE partial' = TRUE /\ UNCHANGED round
  <2>1. RoundShape' /\ StoredInv'
    BY <1>3, <1>6 DEF OriginsInv, RoundShape, StoredInv
  <2>2. MeetsSteady'
    BY <1>2, <1>3, <1>6 DEF OriginsInv, MeetsSteady
  <2> QED
    BY <1>1, <1>3, <1>6, <2>1, <2>2 DEF OriginsInv, WindowInv, OnceInv
<1> QED
  BY <1>5, <1>6 DEF ReadKnown

\* A summary of every source has all the steady countries; any other one is
\* counted as partial.
LEMMA OriginsReplace == OriginsInv /\ ReplaceRequestOrigins => OriginsInv'
<1> SUFFICES ASSUME OriginsInv, ReplaceRequestOrigins PROVE OriginsInv'
  OBVIOUS
<1>1. traffic \in Traffic /\ traffic' \in Traffic
  BY DEF OriginsInv, ReplaceRequestOrigins
<1>2. SteadyCountries' = SteadyCountries
  BY <1>1, SteadyStays
<1>3. originPc = "replace" /\ UNCHANGED <<announced, unannounced>>
  BY DEF ReplaceRequestOrigins
<1>4. CASE /\ origins' = round.found
           /\ partial' = (partial \/ round.failed)
           /\ originPc' = "events"
           /\ UNCHANGED round
  <2>1. RoundShape' /\ StoredInv'
    BY <1>3, <1>4 DEF OriginsInv, RoundShape, StoredInv
  <2>2. MeetsSteady'
    BY <1>2, <1>3, <1>4 DEF OriginsInv, MeetsSteady
  <2>3. OnceInv'
    <3> SUFFICES ASSUME ~partial', NEW c \in SteadyCountries, c \in DOMAIN announced
                 PROVE  announced[c] = 1 /\ c \in Countries(round.found) /\ c \in round.known
      BY <1>2, <1>3, <1>4 DEF OnceInv
    <3>1. ~partial /\ ~round.failed
      BY <1>4
    <3>2. announced[c] = 1 /\ c \in round.known
      BY <1>3, <3>1 DEF OriginsInv, OnceInv
    <3>3. c \in Countries(round.found)
      BY <1>3, <3>1 DEF OriginsInv, MeetsSteady
    <3> QED
      BY <3>2, <3>3
  <2> QED
    BY <1>1, <1>4, <2>1, <2>2, <2>3 DEF OriginsInv, WindowInv
<1>5. CASE OriginRoundEnds /\ UNCHANGED <<origins, partial>>
  BY <1>1, <1>3, <1>5, OriginsRoundDropped
<1> QED
  BY <1>4, <1>5 DEF ReplaceRequestOrigins

\* What NewCountries leaves out was known.
LEMMA NewOrKnown ==
  Notable(Countries(round.found)) \subseteq NewCountries \cup Notable(round.known)
BY DEF Notable, NewCountries

LEMMA OriginsAnnounce == OriginsInv /\ AnnounceCountries => OriginsInv'
<1> SUFFICES ASSUME OriginsInv, AnnounceCountries PROVE OriginsInv'
  OBVIOUS
<1>1. traffic \in Traffic /\ traffic' \in Traffic
  BY DEF OriginsInv, AnnounceCountries
<1>2. SteadyCountries' = SteadyCountries
  BY <1>1, SteadyStays
<1>3. originPc = "events" /\ originPc' = "window" /\ UNCHANGED <<origins, round, partial>>
  BY DEF AnnounceCountries
<1>4. origins = round.found
  BY <1>3 DEF OriginsInv, StoredInv
<1>5. RoundShape' /\ WindowInv' /\ MeetsSteady'
  BY <1>3 DEF OriginsInv, RoundShape, WindowInv, MeetsSteady
<1>6. CASE /\ announced' = [c \in DOMAIN announced \cup NewCountries |->
                IF c \in NewCountries THEN Min({2, Times(c) + 1}) ELSE Times(c)]
           /\ UNCHANGED unannounced
  <2>1. DOMAIN announced' = DOMAIN announced \cup NewCountries
    BY <1>6
  <2>2. StoredInv'
    BY <1>3, <1>4, <1>6, <2>1, NewOrKnown DEF OriginsInv, StoredInv
  <2>3. OnceInv'
    <3> SUFFICES ASSUME ~partial, NEW c \in SteadyCountries, c \in DOMAIN announced'
                 PROVE  announced'[c] = 1 /\ c \in Countries(origins)
      BY <1>2, <1>3 DEF OnceInv
    <3>1. CASE c \in NewCountries
      <4>1. c \notin round.known /\ c \in Countries(round.found)
        BY <3>1 DEF NewCountries
      <4>2. c \notin DOMAIN announced
        BY <1>3, <4>1 DEF OriginsInv, OnceInv
      <4>3. Times(c) + 1 = 1
        BY <4>2 DEF Times
      <4>4. announced'[c] = Min({2, 1})
        BY <1>6, <3>1, <4>3
      <4> QED
        BY <1>4, <4>1, <4>4, MinOfTwoAndOne
    <3>2. CASE c \notin NewCountries
      <4>1. c \in DOMAIN announced
        BY <2>1, <3>2
      <4>2. announced'[c] = announced[c]
        BY <1>6, <3>2, <4>1 DEF Times
      <4> QED
        BY <4>1, <4>2 DEF OriginsInv, OnceInv
    <3> QED
      BY <3>1, <3>2
  <2> QED
    BY <1>1, <1>3, <1>5, <2>2, <2>3 DEF OriginsInv
<1>7. CASE unannounced' = (unannounced \/ NewCountries # {}) /\ UNCHANGED announced
  <2>1. StoredInv'
    BY <1>3, <1>4, <1>7, NewOrKnown DEF OriginsInv, StoredInv
  <2>2. OnceInv'
    BY <1>2, <1>3, <1>7 DEF OriginsInv, OnceInv
  <2> QED
    BY <1>1, <1>3, <1>5, <2>1, <2>2 DEF OriginsInv
<1> QED
  BY <1>6, <1>7 DEF AnnounceCountries

LEMMA OriginsSetWindow == OriginsInv /\ SetOriginWindow => OriginsInv'
<1> SUFFICES ASSUME OriginsInv, SetOriginWindow PROVE OriginsInv'
  OBVIOUS
<1>1. traffic \in Traffic /\ traffic' \in Traffic
  BY DEF OriginsInv, SetOriginWindow
<1>2. SteadyCountries' = SteadyCountries
  BY <1>1, SteadyStays
<1>3. /\ originPc = "window" /\ originPc' = "idle" /\ round' = NoRound
      /\ UNCHANGED <<origins, announced, unannounced>>
      /\ UNCHANGED partial \/ partial'
  BY DEF SetOriginWindow, OriginRoundEnds
<1>4. RoundShape' /\ round'.known = {} /\ Notable({}) = {}
  BY <1>3 DEF RoundShape, NoRound, Notable
<1>5. StoredInv'
  BY <1>3, <1>4 DEF OriginsInv, StoredInv
<1>6. OnceInv'
  BY <1>2, <1>3 DEF OriginsInv, OnceInv
<1> QED
  BY <1>1, <1>3, <1>4, <1>5, <1>6 DEF OriginsInv, WindowInv, MeetsSteady

\* A crash after the summary was stored is counted by the two histories.
LEMMA OriginsCrash == OriginsInv /\ OriginCrash => OriginsInv'
<1> SUFFICES ASSUME OriginsInv, OriginCrash PROVE OriginsInv'
  OBVIOUS
<1>1. traffic \in Traffic /\ traffic' \in Traffic
  BY DEF OriginsInv, OriginCrash
<1>2. SteadyCountries' = SteadyCountries
  BY <1>1, SteadyStays
<1>3. /\ originPc' = "idle" /\ round' = NoRound
      /\ UNCHANGED <<origins, announced>>
      /\ unannounced' = (unannounced \/ (originPc = "events" /\ NewCountries # {}))
      /\ ~partial' => ~partial
  BY DEF OriginCrash, OriginRoundEnds, originTables
<1>4. RoundShape' /\ round'.known = {} /\ Notable({}) = {}
  BY <1>3 DEF RoundShape, NoRound, Notable
<1>5. StoredInv'
  <2> SUFFICES ASSUME ~unannounced'
               PROVE  Notable(Countries(origins)) \subseteq DOMAIN announced
    BY <1>3, <1>4 DEF StoredInv
  <2>1. ~unannounced /\ (originPc = "events" => NewCountries = {})
    BY <1>3
  <2>2. CASE originPc = "events"
    BY <2>1, <2>2, NewOrKnown DEF OriginsInv, StoredInv
  <2>3. CASE originPc # "events"
    BY <2>1, <2>3 DEF OriginsInv, StoredInv
  <2> QED
    BY <2>2, <2>3
<1>6. OnceInv'
  BY <1>2, <1>3 DEF OriginsInv, OnceInv
<1> QED
  BY <1>1, <1>3, <1>4, <1>5, <1>6 DEF OriginsInv, WindowInv, MeetsSteady

LEMMA OriginsStutter == OriginsInv /\ UNCHANGED originVars => OriginsInv'
<1> SUFFICES ASSUME OriginsInv, UNCHANGED originVars PROVE OriginsInv'
  OBVIOUS
<1>1. UNCHANGED <<traffic, origins, announced, originPc, round, partial, unannounced>>
  BY DEF originVars, originTables, originRun
<1>2. traffic' \in Traffic /\ SteadyCountries' = SteadyCountries
  BY <1>1, SteadyStays DEF OriginsInv
<1> QED
  BY <1>1, <1>2 DEF OriginsInv, RoundShape, StoredInv, WindowInv, MeetsSteady, OnceInv

LEMMA OriginsInvariant == OriginSpec => []OriginsInv
<1>1. OriginInit => OriginsInv
  BY OriginsStart
<1>2. OriginsInv /\ [OriginNext]_originVars => OriginsInv'
  BY OriginsTraffic, OriginsBegin, OriginsListZones, OriginsReadLimits, OriginsQueryZone,
     OriginsZonesRead, OriginsQueryLogins, OriginsKeepOld, OriginsReadKnown, OriginsReplace,
     OriginsAnnounce, OriginsSetWindow, OriginsCrash, OriginsStutter
  DEF OriginNext
<1> QED
  BY <1>1, <1>2, PTL DEF OriginSpec

\* Whatever source fails and wherever the process stops: outside a round's
\* last write, every notable country of the stored summary has its event,
\* unless the events of a round were lost (CollectRequestOrigins stores the
\* summary first and announces then).
THEOREM StoredCountriesAnnounced == OriginSpec => []StoredWasAnnounced
<1>1. OriginsInv => StoredWasAnnounced
  BY DEF OriginsInv, StoredInv, StoredWasAnnounced, Notable
<1> QED
  BY <1>1, OriginsInvariant, PTL

\* A country that one zone reports in every traffic is announced at most once,
\* however often and with whatever failures the summary is collected, as long
\* as no summary was stored that lacks a source and the stored one could be
\* read (newCountryEvents).
THEOREM SteadyCountriesAnnouncedOnce == OriginSpec => []AnnouncedOnce
<1>1. OriginsInv => AnnouncedOnce
  <2> SUFFICES ASSUME OriginsInv, ~partial, NEW c \in SteadyCountries
               PROVE  Times(c) <= 1
    BY DEF AnnouncedOnce
  <2>1. c \in DOMAIN announced => announced[c] = 1
    BY DEF OriginsInv, OnceInv
  <2> QED
    BY <2>1 DEF Times
<1> QED
  BY <1>1, OriginsInvariant, PTL

-----------------------------------------------------------------------------
(* The rows of the summary and what the pages add up from them.            *)

\* Every request of a row was allowed or denied; only logins have no host.
GoodRow(r) ==
  /\ r.allowed \in Int /\ r.denied \in Int /\ r.requests = r.allowed + r.denied
  /\ r.window \in Nat
  /\ \/ r.source = "http" /\ r.host \in ServedHosts
     \/ r.source = "login" /\ r.host = NoHostname

Sound(rows) == IsFiniteSet(rows) /\ \A r \in rows : GoodRow(r)

LEMMA SummedIs ==
  ASSUME NEW S, IsFiniteSet(S), NEW f, NEW h, \A x \in S : f[x] \in Int /\ h[x] = f[x]
  PROVE  Summed(h, S) = SumOver(f, S) /\ Summed(h, S) \in Int
<1>1. SumOver(f, S) = SumOver(h, S)
  BY SumSame
<1>2. SumOver(f, S) \in Int
  BY SumIsInt
<1>3. Summed(h, S) = SumOver(h, S)
  BY DEF Summed, SumOver
<1>4. QED BY <1>1, <1>2, <1>3

\* Some of the groups of an answer add up.
LEMMA SumIs ==
  ASSUME NEW groups, IsFiniteSet(groups), \A g \in groups : g.count \in Nat, NEW X \in SUBSET groups
  PROVE  Sum(X) = SumOver([g \in groups |-> g.count], X) /\ Sum(X) \in Int
<1> DEFINE all == [g \in groups |-> g.count]
           some == [g \in X |-> g.count]
<1>1. IsFiniteSet(X)
  BY FS_Subset
<1>2. \A g \in X : all[g] \in Int /\ some[g] = all[g]
  OBVIOUS
<1>3. Sum(X) = Summed(some, X)
  BY DEF Sum
<1> HIDE DEF all, some
<1>4. Summed(some, X) = SumOver(all, X) /\ Summed(some, X) \in Int
  BY <1>1, <1>2, SummedIs
<1>5. QED BY <1>3, <1>4 DEF all

\* The rows made of an answer: one source, one window, the hosts of the groups,
\* and every request either allowed or denied.
LEMMA RowsOfGroups ==
  ASSUME NEW source, NEW groups, IsFiniteSet(groups), \A g \in groups : g.count \in Nat, NEW window
  PROVE  /\ IsFiniteSet(Rows(source, groups, window))
         /\ \A r \in Rows(source, groups, window) :
              /\ r.allowed \in Int /\ r.denied \in Int /\ r.requests = r.allowed + r.denied
              /\ r.source = source /\ r.window = window /\ \E g \in groups : g.host = r.host
<1> DEFINE key == [g \in groups |-> <<g.host, NormalizeCountry(g.country)>>]
           keys == {key[g] : g \in groups}
           of(k) == {g \in groups : <<g.host, NormalizeCountry(g.country)>> = k}
           good(k) == {g \in groups : <<g.host, NormalizeCountry(g.country)>> = k /\ g.success}
           bad(k) == {g \in groups : <<g.host, NormalizeCountry(g.country)>> = k /\ ~g.success}
           row == [k \in keys |-> [source |-> source, host |-> k[1], country |-> k[2], window |-> window,
                                   allowed |-> Sum(good(k)), denied |-> Sum(bad(k)), requests |-> Sum(of(k))]]
           count == [g \in groups |-> g.count]
<1>1. IsFiniteSet(keys)
  <2> HIDE DEF key
  <2>1. QED BY ImageIsFinite
<1>2. Rows(source, groups, window) = {row[k] : k \in keys}
  BY DEF Rows
<1>3. IsFiniteSet({row[k] : k \in keys})
  <2> HIDE DEF row, keys
  <2>1. QED BY <1>1, ImageIsFinite
<1>4. ASSUME NEW k \in keys
      PROVE  /\ Sum(good(k)) \in Int /\ Sum(bad(k)) \in Int
             /\ Sum(of(k)) = Sum(good(k)) + Sum(bad(k))
  <2> DEFINE A == good(k)
             B == bad(k)
             C == of(k)
  <2>1. /\ A \in SUBSET groups /\ B \in SUBSET groups /\ C \in SUBSET groups
        /\ A \cap B = {} /\ A \cup B = C
    OBVIOUS
  <2>2. \A x \in A \cup B : count[x] \in Int
    OBVIOUS
  <2> HIDE DEF A, B, C
  <2>3. Sum(A) = SumOver([g \in groups |-> g.count], A) /\ Sum(A) \in Int
    BY <2>1, SumIs
  <2>4. Sum(B) = SumOver([g \in groups |-> g.count], B) /\ Sum(B) \in Int
    BY <2>1, SumIs
  <2>5. Sum(C) = SumOver([g \in groups |-> g.count], C)
    BY <2>1, SumIs
  <2>6. SumOver(count, A \cup B) = SumOver(count, A) + SumOver(count, B)
    <3> HIDE DEF count
    <3>1. IsFiniteSet(A) /\ IsFiniteSet(B)
      BY <2>1, FS_Subset
    <3>2. QED BY <2>1, <2>2, <3>1, SumSplit
  <2>7. Sum(C) = Sum(A) + Sum(B)
    BY <2>1, <2>3, <2>4, <2>5, <2>6
  <2>8. QED BY <2>3, <2>4, <2>7 DEF A, B, C
<1>5. \A k \in keys : \E g \in groups : g.host = k[1]
  OBVIOUS
<1> HIDE DEF keys, of, good, bad
<1>6. \A k \in keys : /\ row[k].allowed \in Int /\ row[k].denied \in Int
                      /\ row[k].requests = row[k].allowed + row[k].denied
                      /\ row[k].source = source /\ row[k].window = window
                      /\ \E g \in groups : g.host = row[k].host
  BY <1>4, <1>5
<1> HIDE DEF row
<1>7. QED BY <1>2, <1>3, <1>6

\* Totals by country add up to the rows they are of.
LEMMA CountriesAddUp ==
  ASSUME NEW rows, IsFiniteSet(rows), \A r \in rows : r.requests \in Int
  PROVE  TotalOf(CountryTotals(rows)) = SumOver([r \in rows |-> r.requests], rows)
<1> DEFINE K == Countries(rows)
           f == [r \in rows |-> r.requests]
           key == [r \in rows |-> r.country]
           of(c) == {r \in rows : r.country = c}
           part == [c \in K |-> of(c)]
           totals == CountryTotals(rows)
           g == [c \in DOMAIN totals |-> totals[c].requests]
<1>1. IsFiniteSet(K)
  <2>1. K = {key[r] : r \in rows}
    BY DEF Countries
  <2> HIDE DEF key, K
  <2>2. IsFiniteSet({key[r] : r \in rows})
    BY ImageIsFinite
  <2>3. QED BY <2>1, <2>2
<1>2. DOMAIN totals = K /\ \A c \in K : totals[c].requests = Summed([r \in of(c) |-> r.requests], of(c))
  BY DEF CountryTotals
<1>3. /\ \A r \in rows : f[r] \in Int /\ \E c \in K : r \in part[c]
      /\ \A c \in K : part[c] \subseteq rows
      /\ \A c, d \in K : c # d => part[c] \cap part[d] = {}
  BY DEF Countries
<1>4. ASSUME NEW c \in K
      PROVE  g[c] = SumOver(f, part[c]) /\ g[c] \in Int
  <2> DEFINE A == of(c)
             h == [r \in A |-> r.requests]
  <2>1. A \in SUBSET rows /\ A = part[c]
    OBVIOUS
  <2>2. g[c] = Summed(h, A)
    BY <1>2
  <2>3. \A r \in A : f[r] \in Int /\ h[r] = f[r]
    OBVIOUS
  <2> HIDE DEF A, h, f, part, g
  <2>4. IsFiniteSet(A)
    BY <2>1, FS_Subset
  <2>5. Summed(h, A) = SumOver(f, A) /\ Summed(h, A) \in Int
    BY <2>3, <2>4, SummedIs
  <2>6. QED BY <2>1, <2>2, <2>5
<1>5. TotalOf(totals) = Summed(g, K)
  <2>1. TotalOf(totals) = Summed(g, DOMAIN totals)
    BY DEF TotalOf
  <2> HIDE DEF g, totals, K
  <2>2. QED BY <1>2, <2>1
<1> HIDE DEF K, f, part, g, totals
<1>6. Summed(g, K) = SumOver(g, K)
  BY <1>1, <1>4, SummedIs
<1>7. SumOver(g, K) = SumOver(f, rows)
  <2>1. \A c \in K : g[c] = SumOver(f, part[c])
    BY <1>4
  <2>2. \A r \in rows : f[r] \in Int
    BY <1>3
  <2>3. \A r \in rows : \E c \in K : r \in part[c]
    BY <1>3
  <2>4. \A c \in K : part[c] \subseteq rows
    BY <1>3
  <2>5. \A c, d \in K : c # d => part[c] \cap part[d] = {}
    BY <1>3
  <2>6. QED BY <1>1, <2>1, <2>2, <2>3, <2>4, <2>5, SumOfParts
<1>8. QED BY <1>5, <1>6, <1>7 DEF f, totals

\* The requests of some of the rows, as every page adds them up.
LEMMA SummaryIs ==
  ASSUME NEW rows, IsFiniteSet(rows), \A r \in rows : r.requests \in Int, NEW X \in SUBSET rows
  PROVE  /\ OriginSummary(X).requests = SumOver([r \in rows |-> r.requests], X)
         /\ TotalOf(CountryTotals(X)) = SumOver([r \in rows |-> r.requests], X)
         /\ OriginSummary(X).requests \in Int
<1> DEFINE f == [r \in rows |-> r.requests]
           h == [r \in X |-> r.requests]
<1>1. IsFiniteSet(X)
  BY FS_Subset
<1>2. \A r \in X : f[r] \in Int /\ h[r] = f[r] /\ h[r] \in Int
  OBVIOUS
<1>3. OriginSummary(X).requests = Summed(h, X)
  BY DEF OriginSummary
<1>4. TotalOf(CountryTotals(X)) = SumOver(h, X)
  BY <1>1, CountriesAddUp
<1> HIDE DEF f, h
<1>5. Summed(h, X) = SumOver(f, X) /\ Summed(h, X) \in Int
  BY <1>1, <1>2, SummedIs
<1>6. SumOver(f, X) = SumOver(h, X)
  BY <1>1, <1>2, SumSame
<1>7. QED BY <1>3, <1>4, <1>5, <1>6 DEF f

\* The tables of the hosts add up to the rows that have one.
LEMMA TablesAddUp ==
  ASSUME NEW rows, IsFiniteSet(rows), \A r \in rows : r.requests \in Int
  PROVE  TotalOf(Breakdowns(rows))
           = SumOver([r \in rows |-> r.requests], {r \in rows : r.host # NoHostname})
<1> DEFINE f == [r \in rows |-> r.requests]
           S == {r \in rows : r.host # NoHostname}
           key == [r \in rows |-> r.host]
           K == {r.host : r \in rows} \ {NoHostname}
           tables == Breakdowns(rows)
           of(h) == {r \in rows : r.host = h}
           part == [h \in K |-> of(h)]
           g == [h \in DOMAIN tables |-> tables[h].requests]
<1>1. IsFiniteSet(K)
  <2>1. K \in SUBSET {key[r] : r \in rows}
    OBVIOUS
  <2> HIDE DEF key, K
  <2>2. IsFiniteSet({key[r] : r \in rows})
    BY ImageIsFinite
  <2>3. QED BY <2>1, <2>2, FS_Subset
<1>2. DOMAIN tables = K /\ \A h \in K : tables[h].requests = TotalOf(CountryTotals(of(h)))
  BY DEF Breakdowns
<1>3. /\ S \in SUBSET rows
      /\ \A r \in S : f[r] \in Int /\ \E h \in K : r \in part[h]
      /\ \A h \in K : part[h] \subseteq S
      /\ \A h, i \in K : h # i => part[h] \cap part[i] = {}
  OBVIOUS
<1>4. ASSUME NEW h \in K
      PROVE  g[h] = SumOver(f, part[h]) /\ g[h] \in Int
  <2> DEFINE A == of(h)
  <2>1. A \in SUBSET rows /\ A = part[h]
    OBVIOUS
  <2>2. g[h] = TotalOf(CountryTotals(A))
    BY <1>2
  <2> HIDE DEF A, part, g, S
  <2>3. TotalOf(CountryTotals(A)) = SumOver(f, A)
    BY <2>1, SummaryIs
  <2>4. SumOver(f, A) \in Int
    <3>1. IsFiniteSet(A) /\ \A r \in A : f[r] \in Int
      BY <2>1, FS_Subset
    <3> HIDE DEF f
    <3>2. QED BY <3>1, SumIsInt
  <2> HIDE DEF f
  <2>5. QED BY <2>1, <2>2, <2>3, <2>4
<1>5. TotalOf(tables) = Summed(g, K)
  <2>1. TotalOf(tables) = Summed(g, DOMAIN tables)
    BY DEF TotalOf
  <2> HIDE DEF g, tables, K
  <2>2. QED BY <1>2, <2>1
<1>6. IsFiniteSet(S)
  BY <1>3, FS_Subset
<1> HIDE DEF K, f, part, g, tables, S
<1>7. Summed(g, K) = SumOver(g, K)
  BY <1>1, <1>4, SummedIs
<1>8. SumOver(g, K) = SumOver(f, S)
  <2>1. \A h \in K : g[h] = SumOver(f, part[h])
    BY <1>4
  <2>2. QED BY <1>1, <1>3, <1>6, <2>1, SumOfParts
<1>9. QED BY <1>5, <1>7, <1>8 DEF f, tables, S

\* The pages count every request once.
LEMMA PagesAddUp ==
  ASSUME Sound(origins)
  PROVE  LET whole == OriginSummary(origins)
             tables == Breakdowns(origins)
             logs == OriginSummary({r \in origins : r.source = "login"})
             tunnel(hosts) == OriginSummary(OriginsOf(hosts)).requests
         IN /\ whole.requests = TotalOf(whole.countries)
            /\ whole.requests = TotalOf(tables) + logs.requests
            /\ \A hosts \in SUBSET ServedHosts :
                 whole.requests = tunnel(hosts) + tunnel(ServedHosts \ hosts) + logs.requests
<1> DEFINE f == [r \in origins |-> r.requests]
           fromLogins == {r \in origins : r.source = "login"}
           hosted == {r \in origins : r.host # NoHostname}
<1>1. /\ IsFiniteSet(origins)
      /\ \A r \in origins : /\ r.requests \in Int
                            /\ \/ r.source = "http" /\ r.host \in ServedHosts
                               \/ r.source = "login" /\ r.host = NoHostname
  BY DEF Sound, GoodRow
<1>2. NoHostname \notin ServedHosts
  BY OriginAssumption
<1>3. /\ fromLogins \in SUBSET origins /\ hosted \in SUBSET origins
      /\ hosted \cap fromLogins = {} /\ hosted \cup fromLogins = origins
  BY <1>1, <1>2
<1>4. \A r \in origins : f[r] \in Int
  BY <1>1
<1>5. ASSUME NEW X \in SUBSET origins
      PROVE  OriginSummary(X).requests = SumOver(f, X) /\ SumOver(f, X) \in Int
             /\ TotalOf(CountryTotals(X)) = SumOver(f, X)
  BY <1>1, SummaryIs
<1>6. OriginSummary(origins).countries = CountryTotals(origins)
  BY DEF OriginSummary
<1>7. TotalOf(Breakdowns(origins)) = SumOver(f, hosted)
  BY <1>1, TablesAddUp
<1>8. ASSUME NEW A \in SUBSET origins, NEW B \in SUBSET origins, A \cap B = {}
      PROVE  SumOver(f, A \cup B) = SumOver(f, A) + SumOver(f, B)
  <2>1. IsFiniteSet(A) /\ IsFiniteSet(B) /\ \A r \in A \cup B : f[r] \in Int
    BY <1>1, <1>4, FS_Subset
  <2> HIDE DEF f
  <2>2. QED BY <1>8, <2>1, SumSplit
<1>9. SumOver(f, origins) = SumOver(f, hosted) + SumOver(f, fromLogins)
  <2> HIDE DEF f, hosted, fromLogins
  <2>1. SumOver(f, hosted \cup fromLogins) = SumOver(f, hosted) + SumOver(f, fromLogins)
    BY <1>3, <1>8
  <2>2. QED BY <1>3, <2>1
<1>10. ASSUME NEW hosts \in SUBSET ServedHosts
       PROVE  SumOver(f, hosted) = SumOver(f, OriginsOf(hosts)) + SumOver(f, OriginsOf(ServedHosts \ hosts))
              /\ OriginsOf(hosts) \in SUBSET origins /\ OriginsOf(ServedHosts \ hosts) \in SUBSET origins
  <2> DEFINE A == OriginsOf(hosts)
             B == OriginsOf(ServedHosts \ hosts)
  <2>1. A \in SUBSET origins /\ B \in SUBSET origins /\ A \cap B = {} /\ A \cup B = hosted
    BY <1>1, <1>2 DEF OriginsOf
  <2> HIDE DEF A, B, f, hosted
  <2>2. SumOver(f, A \cup B) = SumOver(f, A) + SumOver(f, B)
    BY <1>8, <2>1
  <2>3. QED BY <2>1, <2>2 DEF A, B
<1> HIDE DEF f, hosted
<1>11. /\ OriginSummary(origins).requests = SumOver(f, origins)
       /\ TotalOf(CountryTotals(origins)) = SumOver(f, origins)
  BY <1>5
<1>12. OriginSummary(fromLogins).requests = SumOver(f, fromLogins) /\ SumOver(f, fromLogins) \in Int
  BY <1>3, <1>5
<1>13. ASSUME NEW hosts \in SUBSET ServedHosts
       PROVE  OriginSummary(origins).requests
                = OriginSummary(OriginsOf(hosts)).requests
                  + OriginSummary(OriginsOf(ServedHosts \ hosts)).requests + OriginSummary(fromLogins).requests
  BY <1>5, <1>9, <1>10, <1>11, <1>12
<1> HIDE DEF fromLogins
<1>14. QED BY <1>6, <1>7, <1>9, <1>11, <1>12, <1>13 DEF fromLogins

\* A period is called no longer than it is, from an hour on.
LEMMA WindowIsCalled ==
  ASSUME NEW m \in Nat, m >= 60
  PROVE  FormatWindow(m) \in 60..m
<1>1. CASE m >= 48 * 60
  <2>1. m \div (24 * 60) \in Int /\ m \div (24 * 60) >= 1 /\ (24 * 60) * (m \div (24 * 60)) <= m
    BY <1>1
  <2>2. /\ ~(m <= 0) /\ m \notin 24 * 60 .. 48 * 60 - 1 /\ m \notin 2 * 60 .. 24 * 60 - 1
    BY <1>1
  <2>3. FormatWindow(m) = 24 * 60 * (m \div (24 * 60))
    BY <1>1, <2>2, Zenon DEF FormatWindow
  <2>4. QED BY <2>1, <2>3
<1>2. CASE m \in 24 * 60 .. 48 * 60 - 1
  <2>1. ~(m <= 0) /\ ~(m >= 48 * 60) /\ m \notin 2 * 60 .. 24 * 60 - 1
    BY <1>2
  <2>2. FormatWindow(m) = 24 * 60
    BY <1>2, <2>1, Zenon DEF FormatWindow
  <2>3. QED BY <1>2, <2>2
<1>3. CASE m \in 2 * 60 .. 24 * 60 - 1
  <2>1. m \div 60 \in Int /\ m \div 60 >= 1 /\ 60 * (m \div 60) <= m
    BY <1>3
  <2>2. FormatWindow(m) = 60 * (m \div 60)
    BY <1>3 DEF FormatWindow
  <2>3. QED BY <2>1, <2>2
<1>4. CASE m < 2 * 60
  <2>1. /\ ~(m <= 0) /\ ~(m >= 48 * 60) /\ m \notin 24 * 60 .. 48 * 60 - 1
        /\ m \notin 2 * 60 .. 24 * 60 - 1
    BY <1>4
  <2>2. FormatWindow(m) = 60
    BY <2>1, Zenon DEF FormatWindow
  <2>3. QED BY <2>2
<1>5. QED BY <1>1, <1>2, <1>3, <1>4

\* The zones of the account, and one of them by its id.
Ids == {z.id : z \in traffic.zones}

LEMMA ZoneIsOne ==
  ASSUME traffic \in Traffic, NEW id \in Ids
  PROVE  /\ Zone(id).limit \in Int
         /\ IsFiniteSet(Zone(id).groups) /\ \A g \in Zone(id).groups : g.count \in Nat
<1>1. \E z \in traffic.zones : z.id = id
  BY DEF Ids
<1>2. Zone(id) \in traffic.zones
  BY <1>1 DEF Zone, ZoneIn
<1>3. QED BY <1>2, OriginAssumption

\* The zones of the served hosts are zones of the account.
LEMMA ServingAreIds ==
  ASSUME traffic \in Traffic
  PROVE  {z.id : z \in ZonesServing(traffic.zones)} \subseteq Ids
<1>1. ASSUME NEW h, Covering(traffic.zones, h) # {}
      PROVE  ZoneFor(traffic.zones, h) \in traffic.zones
  <2> DEFINE S == Covering(traffic.zones, h)
             length == [z \in S |-> z.length]
  <2>1. IsFiniteSet(traffic.zones) /\ \A z \in traffic.zones : z.length \in Nat
    BY OriginAssumption
  <2>2. S \in SUBSET traffic.zones
    BY DEF Covering
  <2>3. IsFiniteSet(S)
    <3> HIDE DEF S
    <3>1. QED BY <2>1, <2>2, FS_Subset
  <2>4. \A z \in S : length[z] \in Nat
    BY <2>1, <2>2
  <2>5. \E z \in S : \A y \in S : length[y] <= length[z]
    <3> HIDE DEF S, length
    <3>1. QED BY <1>1, <2>3, <2>4, Greatest DEF S
  <2>6. \E z \in S : \A y \in S : y.length <= z.length
    BY <2>5
  <2>7. ZoneFor(traffic.zones, h) \in S
    BY <2>6 DEF ZoneFor
  <2>8. QED BY <2>2, <2>7
<1>2. QED BY <1>1 DEF ZonesServing, Ids

\* What the round would set the window to.
Shown == IF round.effective = 0 THEN Window ELSE round.effective

\* What a round has found so far covers the window it would show.
FoundInv ==
  /\ Sound(round.found) /\ round.zones \subseteq Ids
  /\ round.effective \in 0..Window
  /\ \A r \in round.found : Shown <= r.window
  /\ originPc = "query" => round.window \in Nat /\ Shown <= round.window

\* What is stored covers the window shown, but for the window of a round
\* between its two writes.
StoredRows ==
  /\ Sound(origins) /\ originWindow \in 0..Window
  /\ ~partial => \A r \in origins :
       IF originPc \in {"events", "window"} THEN Shown <= r.window ELSE originWindow <= r.window

RowsInv == FoundInv /\ StoredRows

LEMMA NoRoundFound ==
  ASSUME traffic \in Traffic, round' = NoRound, originPc' # "query"
  PROVE  FoundInv'
<1>1. round'.found = {} /\ round'.zones = {} /\ round'.effective = 0
  BY DEF NoRound
<1>2. Sound(round.found)'
  BY <1>1, FS_EmptySet DEF Sound, GoodRow
<1>3. Window \in Nat
  BY OriginAssumption
<1>4. QED BY <1>1, <1>2, <1>3 DEF FoundInv

LEMMA RowsStored ==
  ASSUME StoredRows, UNCHANGED <<origins, originWindow>>, ~partial' => ~partial,
         \/ UNCHANGED round /\ (originPc \in {"events", "window"} <=> originPc' \in {"events", "window"})
         \/ originPc \notin {"events", "window"} /\ originPc' \notin {"events", "window"}
         \/ partial'
  PROVE  StoredRows'
BY DEF StoredRows, Shown, Sound, GoodRow

\* A round that learns of no other window nor rows.
LEMMA FoundStands ==
  ASSUME FoundInv, Ids' = Ids, UNCHANGED <<round, originPc>>
  PROVE  FoundInv'
BY DEF FoundInv, Shown, Sound, GoodRow

LEMMA FoundMoves ==
  ASSUME FoundInv, UNCHANGED traffic, originPc' # "query",
         UNCHANGED round \/ \E zones \in SUBSET Ids :
           round'.zones = zones /\ round'.found = round.found /\ round'.effective = round.effective
  PROVE  FoundInv'
<1>1. /\ round'.found = round.found /\ round'.effective = round.effective
      /\ round'.zones \subseteq Ids
  BY DEF FoundInv
<1>2. Ids' = Ids
  BY DEF Ids
<1>3. QED BY <1>1, <1>2 DEF FoundInv, Shown, Sound, GoodRow

LEMMA RowsReadLimits ==
  ASSUME OriginsInv, RowsInv, ReadLimits
  PROVE  FoundInv'
<1> DEFINE zone == CHOOSE id \in round.zones : TRUE
           window == ClampWindow(Zone(zone).limit)
<1>1. traffic \in Traffic /\ RoundShape /\ round.zones # {} /\ UNCHANGED traffic /\ Window \in Nat \ {0}
  BY OriginAssumption DEF OriginsInv, ReadLimits, Reading
<1>2. zone \in round.zones
  BY <1>1
<1>3. zone \in Ids
  BY <1>2 DEF RowsInv, FoundInv
<1> HIDE DEF zone
<1>4. window \in 1..Window
  <2>1. Zone(zone).limit \in Int
    BY <1>1, <1>3, ZoneIsOne
  <2>2. QED BY <1>1, <2>1 DEF ClampWindow
<1> HIDE DEF window
<1>5. CASE /\ round' = [round EXCEPT !.window = window, !.effective = Smallest(@, window)]
           /\ originPc' = "query"
  <2>1. /\ round'.found = round.found /\ round'.zones = round.zones /\ round'.window = window
        /\ round'.effective = Smallest(round.effective, window)
    BY <1>1, <1>5 DEF RoundShape
  <2>2. round.effective \in 0..Window /\ \A r \in round.found : Shown <= r.window /\ r.window \in Nat
    BY DEF RowsInv, FoundInv, Sound, GoodRow
  <2>3. /\ round'.effective \in 1..Window /\ round'.effective <= window
        /\ round'.effective <= Shown
    BY <1>1, <1>4, <2>1, <2>2 DEF Smallest, Shown
  <2>4. Shown' = round'.effective
    BY <2>3 DEF Shown
  <2>5. Shown \in Nat
    BY <1>1, <2>2 DEF Shown
  <2>6. \A r \in round'.found : Shown' <= r.window
    BY <2>1, <2>2, <2>3, <2>4, <2>5
  <2>7. Sound(round.found)' /\ round'.zones \subseteq Ids'
    BY <1>1, <2>1 DEF RowsInv, FoundInv, Sound, GoodRow, Ids
  <2>8. QED BY <1>1, <1>4, <2>1, <2>3, <2>4, <2>6, <2>7 DEF FoundInv
<1>6. CASE round' = [round EXCEPT !.zones = @ \ {zone}, !.failed = TRUE] /\ UNCHANGED originPc
  <2>1. /\ round'.zones = round.zones \ {zone} /\ round'.found = round.found
        /\ round'.effective = round.effective
    BY <1>1, <1>6 DEF RoundShape
  <2>2. round'.zones \in SUBSET Ids /\ originPc' # "query"
    BY <1>6, <2>1 DEF RowsInv, FoundInv, ReadLimits
  <2>3. QED BY <1>1, <2>1, <2>2, FoundMoves DEF RowsInv
<1>7. QED BY <1>5, <1>6 DEF ReadLimits, zone, window

\* The rows that are added to what a round has found.
LEMMA FoundGrows ==
  ASSUME OriginsInv, RowsInv, UNCHANGED traffic, originPc' # "query", NEW rows, Sound(rows),
         \A r \in rows : Shown <= r.window, round'.found = round.found \cup rows,
         round'.zones \subseteq round.zones, round'.effective = round.effective
  PROVE  FoundInv'
<1>1. Sound(round.found \cup rows)
  BY FS_Union DEF RowsInv, FoundInv, Sound
<1>2. Sound(round.found)'
  BY <1>1 DEF Sound, GoodRow
<1>3. Shown' = Shown /\ Ids' = Ids
  BY DEF Shown, Ids
<1>4. QED BY <1>2, <1>3 DEF RowsInv, FoundInv

LEMMA RowsQueryZone ==
  ASSUME OriginsInv, RowsInv, QueryZone
  PROVE  FoundInv'
<1> DEFINE zone == CHOOSE id \in round.zones : TRUE
           groups == {g \in GroupsSince(Zone(zone).groups, round.window) : g.host \in ServedHosts}
           rows == HTTPOrigins(Zone(zone), round.window)
<1>1. /\ traffic \in Traffic /\ RoundShape /\ round.zones # {} /\ UNCHANGED traffic
      /\ originPc = "query" /\ originPc' = "limits"
  BY DEF OriginsInv, QueryZone, Reading
<1>2. zone \in Ids
  BY <1>1 DEF RowsInv, FoundInv
<1>3. groups \in SUBSET Zone(zone).groups
  BY DEF GroupsSince
<1>4. IsFiniteSet(groups) /\ \A g \in groups : g.count \in Nat /\ g.host \in ServedHosts
  <2> HIDE DEF zone
  <2>1. IsFiniteSet(Zone(zone).groups) /\ \A g \in Zone(zone).groups : g.count \in Nat
    BY <1>1, <1>2, ZoneIsOne
  <2>2. QED BY <1>3, <2>1, FS_Subset
<1>5. rows = Rows("http", groups, round.window)
  BY DEF HTTPOrigins
<1> HIDE DEF zone, groups, rows
<1>6. round.window \in Nat /\ Shown <= round.window
  BY <1>1 DEF RowsInv, FoundInv
<1>7. Sound(rows) /\ \A r \in rows : Shown <= r.window
  <2>1. /\ IsFiniteSet(rows)
        /\ \A r \in rows : /\ r.allowed \in Int /\ r.denied \in Int /\ r.requests = r.allowed + r.denied
                           /\ r.source = "http" /\ r.window = round.window /\ \E g \in groups : g.host = r.host
    BY <1>4, <1>5, RowsOfGroups
  <2>2. QED BY <1>4, <1>6, <2>1 DEF Sound, GoodRow
<1>8. CASE round' = [round EXCEPT !.zones = @ \ {zone}, !.found = @ \cup rows]
  <2>1. /\ round'.zones \subseteq round.zones /\ round'.found = round.found \cup rows
        /\ round'.effective = round.effective
    BY <1>1, <1>8 DEF RoundShape
  <2>2. QED BY <1>1, <1>7, <2>1, FoundGrows
<1>9. CASE round' = [round EXCEPT !.zones = @ \ {zone}, !.failed = TRUE]
  <2>1. /\ round'.zones = round.zones \ {zone} /\ round'.found = round.found
        /\ round'.effective = round.effective
    BY <1>1, <1>9 DEF RoundShape
  <2>2. round'.zones \in SUBSET Ids
    BY <2>1 DEF RowsInv, FoundInv
  <2>3. QED BY <1>1, <2>1, <2>2, FoundMoves DEF RowsInv
<1>10. QED BY <1>8, <1>9 DEF QueryZone, zone, rows

LEMMA RowsQueryLogins ==
  ASSUME OriginsInv, RowsInv, QueryLogins
  PROVE  FoundInv'
<1> DEFINE groups == GroupsSince(traffic.logins, Window)
           rows == LoginOrigins
<1>1. /\ traffic \in Traffic /\ RoundShape /\ UNCHANGED traffic /\ originPc' = "known"
      /\ Window \in Nat \ {0}
  BY OriginAssumption DEF OriginsInv, QueryLogins, Reading
<1>2. IsFiniteSet(groups) /\ \A g \in groups : g.count \in Nat /\ g.host = NoHostname
  <2>1. groups \in SUBSET traffic.logins
    BY DEF GroupsSince
  <2>2. IsFiniteSet(traffic.logins) /\ \A g \in traffic.logins : g.host = NoHostname /\ g.count \in Nat
    BY <1>1, OriginAssumption
  <2> HIDE DEF groups
  <2>3. QED BY <2>1, <2>2, FS_Subset
<1>3. rows = Rows("login", groups, Window)
  BY DEF LoginOrigins
<1> HIDE DEF groups, rows
<1>4. Shown <= Window
  BY <1>1 DEF RowsInv, FoundInv, Shown
<1>5. Sound(rows) /\ \A r \in rows : Shown <= r.window
  <2>1. /\ IsFiniteSet(rows)
        /\ \A r \in rows : /\ r.allowed \in Int /\ r.denied \in Int /\ r.requests = r.allowed + r.denied
                           /\ r.source = "login" /\ r.window = Window /\ \E g \in groups : g.host = r.host
    BY <1>2, <1>3, RowsOfGroups
  <2>2. QED BY <1>1, <1>2, <1>4, <2>1 DEF Sound, GoodRow
<1>6. CASE round' = [round EXCEPT !.found = @ \cup rows]
  <2>1. /\ round'.zones \subseteq round.zones /\ round'.found = round.found \cup rows
        /\ round'.effective = round.effective
    BY <1>1, <1>6 DEF RoundShape
  <2>2. QED BY <1>1, <1>5, <2>1, FoundGrows
<1>7. CASE round' = [round EXCEPT !.failed = TRUE]
  <2>1. /\ round'.zones = round.zones /\ round'.found = round.found
        /\ round'.effective = round.effective
    BY <1>1, <1>7 DEF RoundShape
  <2>2. round'.zones \in SUBSET Ids
    BY <2>1 DEF RowsInv, FoundInv
  <2>3. QED BY <1>1, <2>1, <2>2, FoundMoves DEF RowsInv
<1>8. QED BY <1>6, <1>7 DEF QueryLogins, rows

LEMMA RowsStep == OriginsInv /\ RowsInv /\ [OriginNext]_originVars => RowsInv'
<1> SUFFICES ASSUME OriginsInv, RowsInv, [OriginNext]_originVars PROVE RowsInv'
  OBVIOUS
<1>1. traffic \in Traffic /\ RoundShape /\ FoundInv /\ StoredRows
  BY DEF OriginsInv, RowsInv
<1>2. CASE TrafficChanges \/ UNCHANGED originVars
  <2>1. /\ traffic' \in Traffic /\ UNCHANGED <<round, originPc, origins, originWindow, partial>>
    BY <1>1, <1>2 DEF TrafficChanges, originVars, originTables, originRun
  <2>2. Ids' = Ids
    BY <1>1, <2>1, OriginAssumption DEF Ids
  <2>3. QED BY <1>1, <2>1, <2>2, FoundStands, RowsStored DEF RowsInv
<1>3. CASE BeginCollection
  <2>1. /\ UNCHANGED <<traffic, round, origins, originWindow, partial>>
        /\ originPc = "idle" /\ originPc' = "zones"
    BY <1>3 DEF BeginCollection, originTables
  <2>2. QED BY <1>1, <2>1, FoundMoves, RowsStored DEF RowsInv
<1>4. CASE ListZones
  <2>1. /\ UNCHANGED <<traffic, origins, originWindow, partial>>
        /\ originPc = "zones" /\ originPc' \in {"limits", "logins"}
    BY <1>4 DEF ListZones, Reading, originTables
  <2>2. /\ round'.zones \in SUBSET Ids /\ round'.found = round.found
        /\ round'.effective = round.effective
    <3>1. CASE round' = [round EXCEPT !.zones = {z.id : z \in ZonesServing(traffic.zones)}]
      <4>1. round'.zones = {z.id : z \in ZonesServing(traffic.zones)}
            /\ round'.found = round.found /\ round'.effective = round.effective
        BY <1>1, <3>1 DEF RoundShape
      <4>2. QED BY <1>1, <4>1, ServingAreIds
    <3>2. CASE round' = [round EXCEPT !.failed = TRUE]
      BY <1>1, <3>2 DEF RoundShape, FoundInv
    <3>3. QED BY <1>4, <3>1, <3>2 DEF ListZones
  <2>3. QED BY <1>1, <2>1, <2>2, FoundMoves, RowsStored DEF RowsInv
<1>5. CASE ReadLimits \/ QueryZone \/ QueryLogins
  <2>1. FoundInv'
    BY <1>5, RowsReadLimits, RowsQueryZone, RowsQueryLogins
  <2>2. /\ UNCHANGED <<origins, originWindow, partial>>
        /\ originPc \notin {"events", "window"} /\ originPc' \notin {"events", "window"}
    BY <1>5 DEF ReadLimits, QueryZone, QueryLogins, Reading, originTables
  <2>3. QED BY <1>1, <2>1, <2>2, RowsStored DEF RowsInv
<1>6. CASE ZonesRead
  <2>1. /\ UNCHANGED <<traffic, round, origins, originWindow, partial>>
        /\ originPc = "limits" /\ originPc' = "logins"
    BY <1>6 DEF ZonesRead, Reading, originTables
  <2>2. QED BY <1>1, <2>1, FoundMoves, RowsStored DEF RowsInv
<1>7. CASE KeepOldSummary
  <2>1. /\ UNCHANGED <<traffic, origins, originWindow, partial>> /\ round' = NoRound
        /\ originPc = "known" /\ originPc' = "idle"
    BY <1>7 DEF KeepOldSummary, OriginRoundEnds, Reading, originTables
  <2>2. QED BY <1>1, <2>1, NoRoundFound, RowsStored DEF RowsInv
<1>8. CASE ReadKnown
  <2>1. /\ UNCHANGED <<traffic, origins, originWindow>> /\ (~partial' => ~partial)
        /\ originPc = "known" /\ originPc' = "replace"
    BY <1>8 DEF ReadKnown, originTables
  <2>2. /\ round'.zones = round.zones /\ round'.found = round.found
        /\ round'.effective = round.effective
    BY <1>1, <1>8 DEF ReadKnown, RoundShape
  <2>3. round'.zones \in SUBSET Ids
    BY <1>1, <2>2 DEF FoundInv
  <2>4. QED BY <1>1, <2>1, <2>2, <2>3, FoundMoves, RowsStored DEF RowsInv
<1>9. CASE ReplaceRequestOrigins
  <2>1. CASE /\ origins' = round.found /\ partial' = (partial \/ round.failed) /\ originPc' = "events"
             /\ UNCHANGED round
    <3>1. UNCHANGED <<traffic, originWindow>>
      BY <1>9 DEF ReplaceRequestOrigins
    <3>2. FoundInv'
      BY <1>1, <2>1, <3>1, FoundMoves
    <3>3. Sound(origins)'
      BY <1>1, <2>1 DEF FoundInv, Sound, GoodRow
    <3>4. QED BY <1>1, <2>1, <3>1, <3>2, <3>3 DEF RowsInv, FoundInv, StoredRows, Shown
  <2>2. CASE OriginRoundEnds /\ UNCHANGED <<origins, partial>>
    <3>1. /\ UNCHANGED <<traffic, originWindow, origins, partial>> /\ round' = NoRound
          /\ originPc = "replace" /\ originPc' = "idle"
      BY <1>9, <2>2 DEF ReplaceRequestOrigins, OriginRoundEnds
    <3>2. QED BY <1>1, <3>1, NoRoundFound, RowsStored DEF RowsInv
  <2>3. QED BY <1>9, <2>1, <2>2 DEF ReplaceRequestOrigins
<1>10. CASE AnnounceCountries
  <2>1. /\ UNCHANGED <<traffic, round, origins, originWindow, partial>>
        /\ originPc = "events" /\ originPc' = "window"
    BY <1>10 DEF AnnounceCountries
  <2>2. QED BY <1>1, <2>1, FoundMoves, RowsStored DEF RowsInv
<1>11. CASE SetOriginWindow
  <2>1. /\ UNCHANGED <<traffic, origins>> /\ round' = NoRound
        /\ originPc = "window" /\ originPc' = "idle"
    BY <1>11 DEF SetOriginWindow, OriginRoundEnds
  <2>2. FoundInv'
    BY <1>1, <2>1, NoRoundFound
  <2>3. CASE originWindow' = Shown /\ UNCHANGED partial
    <3>1. originWindow' \in 0..Window
      BY <1>1, <2>3, OriginAssumption DEF FoundInv, Shown
    <3>2. Sound(origins)'
      BY <1>1, <2>1 DEF StoredRows, Sound, GoodRow
    <3>3. QED BY <1>1, <2>1, <2>2, <2>3, <3>1, <3>2 DEF RowsInv, StoredRows
  <2>4. CASE partial' /\ UNCHANGED originWindow
    BY <1>1, <2>1, <2>2, <2>4, RowsStored DEF RowsInv
  <2>5. QED BY <1>11, <2>3, <2>4 DEF SetOriginWindow, Shown
<1>12. CASE OriginCrash
  <2>1. /\ UNCHANGED <<traffic, origins, originWindow>> /\ round' = NoRound /\ originPc' = "idle"
        /\ partial' = (partial \/ originPc \in {"events", "window"})
    BY <1>12 DEF OriginCrash, OriginRoundEnds, originTables
  <2>2. FoundInv'
    BY <1>1, <2>1, NoRoundFound
  <2>3. StoredRows'
    BY <1>1, <2>1, RowsStored
  <2>4. QED BY <2>2, <2>3 DEF RowsInv
<1>13. QED BY <1>2, <1>3, <1>4, <1>5, <1>6, <1>7, <1>8, <1>9, <1>10, <1>11, <1>12 DEF OriginNext

\* The smallest of the window asked for and of what the plans of zones allow.
SmallestOf(window, ids) ==
  /\ window = Window \/ \E id \in ids : window = ClampWindow(Zone(id).limit)
  /\ window <= Window /\ \A id \in ids : window <= ClampWindow(Zone(id).limit)

\* The zones whose limits are still to be read.
Unread == IF originPc = "query" THEN round.zones \ {CHOOSE id \in round.zones : TRUE} ELSE round.zones

\* While the traffic stays as it was, a round without a failure shows the
\* smallest window of the zones whose limits it has read, and so of all once
\* there is none left; a summary that all sources are in is of such a round.
RoundLimits ==
  /\ round.zones \subseteq ServedZones(traffic)
  /\ originPc \notin {"idle", "zones"} /\ ~round.failed => SmallestOf(Shown, ServedZones(traffic) \ Unread)
  /\ originPc \notin {"idle", "zones", "limits", "query"} /\ ~round.failed => round.zones = {}

StoredLimits == ~partial /\ originWindow # 0 => SmallestOf(originWindow, ServedZones(traffic))

LimitsInv ==
  /\ originPc = "zones" => round = NoRound
  /\ originPc \in {"events", "window"} /\ ~partial => ~round.failed
  /\ trafficChanges \in Nat
  /\ trafficChanges = 0 => RoundLimits /\ StoredLimits

\* A round without a plan to read next knows the window of all zones.
LEMMA LimitsKnown ==
  ASSUME RoundLimits, originPc \in {"logins", "known", "replace", "events", "window"}, ~round.failed
  PROVE  round.zones = {} /\ SmallestOf(Shown, ServedZones(traffic))
BY DEF RoundLimits, Unread

LEMMA StoredStands ==
  ASSUME StoredLimits, UNCHANGED <<traffic, originWindow>>, ~partial' => ~partial
  PROVE  StoredLimits'
<1>1. ServedZones(traffic)' = ServedZones(traffic)
  BY DEF ServedZones, ZonesServing, ZoneFor, Covering
<1>2. \A id : Zone(id)' = Zone(id)
  BY DEF Zone, ZoneIn
<1>3. QED BY <1>1, <1>2 DEF StoredLimits, SmallestOf, ClampWindow

LEMMA NoRoundLimits ==
  ASSUME round' = NoRound, originPc' \in {"idle", "zones"}
  PROVE  RoundLimits'
<1>1. round'.zones = {}
  BY DEF NoRound
<1>2. QED BY <1>1 DEF RoundLimits

\* A step that asks no zone.
LEMMA LimitsStand ==
  ASSUME RoundLimits, UNCHANGED traffic, round'.zones = round.zones, round'.effective = round.effective,
         ~round'.failed => ~round.failed, originPc' # "query",
         originPc \in {"limits", "logins", "known", "replace", "events", "window"},
         originPc' \in {"limits"} \/ round.zones = {} \/ round'.failed
  PROVE  RoundLimits'
<1>1. Unread' = round.zones /\ Unread = round.zones /\ Shown' = Shown
  BY DEF Unread, Shown
<1>2. ServedZones(traffic)' = ServedZones(traffic)
  BY DEF ServedZones, ZonesServing, ZoneFor, Covering
<1>3. \A ids : SmallestOf(Shown, ids)' <=> SmallestOf(Shown', ids)
  BY DEF SmallestOf, ClampWindow, Zone, ZoneIn
<1>4. QED BY <1>1, <1>2, <1>3 DEF RoundLimits

\* The window of a round after the limits of one more zone.
LEMMA SmallestGrows ==
  ASSUME Window \in Nat \ {0}, round.effective \in 0..Window, NEW zone, NEW ids,
         SmallestOf(Shown, ids), \A id \in ids \cup {zone} : ClampWindow(Zone(id).limit) \in 1..Window
  PROVE  /\ Smallest(round.effective, ClampWindow(Zone(zone).limit)) # 0
         /\ SmallestOf(Smallest(round.effective, ClampWindow(Zone(zone).limit)), ids \cup {zone})
<1> DEFINE limit(id) == ClampWindow(Zone(id).limit)
           least == Smallest(round.effective, limit(zone))
<1>1. /\ Shown = Window \/ \E id \in ids : Shown = limit(id)
      /\ Shown <= Window /\ \A id \in ids : Shown <= limit(id)
  BY DEF SmallestOf
<1>2. limit(zone) \in 1..Window /\ \A id \in ids : limit(id) \in 1..Window
  OBVIOUS
<1> HIDE DEF limit
<1>3. Shown \in 1..Window /\ least \in 1..Window /\ least <= Shown /\ least <= limit(zone)
  BY <1>2 DEF Smallest, Shown
<1>4. least = Shown \/ least = limit(zone)
  BY <1>2 DEF Smallest, Shown
<1> HIDE DEF least
<1>5. \A id \in ids \cup {zone} : least <= limit(id)
  BY <1>1, <1>2, <1>3
<1>6. least = Window \/ \E id \in ids \cup {zone} : least = limit(id)
  BY <1>1, <1>4
<1>7. QED BY <1>3, <1>5, <1>6 DEF SmallestOf, limit, least

\* What a zone's plan allows.
LEMMA LimitsInWindow ==
  ASSUME traffic \in Traffic, NEW id \in Ids
  PROVE  ClampWindow(Zone(id).limit) \in 1..Window
<1>1. Zone(id).limit \in Int /\ Window \in Nat \ {0}
  BY ZoneIsOne, OriginAssumption
<1>2. QED BY <1>1 DEF ClampWindow

LEMMA LimitsReadLimits ==
  ASSUME OriginsInv, RowsInv, RoundLimits, ReadLimits
  PROVE  RoundLimits'
<1> DEFINE zone == CHOOSE id \in round.zones : TRUE
           window == ClampWindow(Zone(zone).limit)
<1>1. /\ traffic \in Traffic /\ RoundShape /\ round.zones # {} /\ UNCHANGED traffic
      /\ originPc = "limits" /\ Window \in Nat \ {0} /\ round.effective \in 0..Window
  BY OriginAssumption DEF OriginsInv, ReadLimits, Reading, RowsInv, FoundInv
<1>2. zone \in round.zones
  BY <1>1
<1>3. ServedZones(traffic) \subseteq Ids /\ round.zones \subseteq ServedZones(traffic)
  BY <1>1, ServingAreIds DEF ServedZones, RoundLimits
<1>4. ServedZones(traffic)' = ServedZones(traffic) /\ \A id : Zone(id)' = Zone(id)
  BY <1>1 DEF ServedZones, ZonesServing, ZoneFor, Covering, Zone, ZoneIn
<1>5. CASE /\ round' = [round EXCEPT !.window = window, !.effective = Smallest(@, window)]
           /\ originPc' = "query"
  <2> DEFINE read == ServedZones(traffic) \ round.zones
  <2>1. /\ round'.zones = round.zones /\ round'.failed = round.failed
        /\ round'.effective = Smallest(round.effective, window)
    BY <1>1, <1>5 DEF RoundShape
  <2>2. Unread = round.zones /\ Unread' = round.zones \ {zone}
    BY <1>1, <1>5, <2>1 DEF Unread
  <2>3. ServedZones(traffic) \ Unread' = read \cup {zone}
    BY <1>2, <1>3, <2>2
  <2>4. \A id \in read \cup {zone} : ClampWindow(Zone(id).limit) \in 1..Window
    BY <1>1, <1>2, <1>3, LimitsInWindow
  <2>5. ASSUME ~round'.failed
        PROVE  SmallestOf(round'.effective, read \cup {zone}) /\ round'.effective # 0
    <3>1. SmallestOf(Shown, read)
      BY <1>1, <2>1, <2>2, <2>5 DEF RoundLimits
    <3> HIDE DEF read, zone
    <3>2. QED BY <1>1, <2>1, <2>4, <3>1, SmallestGrows
  <2>6. ASSUME ~round'.failed
        PROVE  SmallestOf(Shown, ServedZones(traffic) \ Unread)'
    <3>1. SmallestOf(Shown', ServedZones(traffic) \ Unread')
      BY <2>3, <2>5, <2>6 DEF Shown
    <3>2. QED BY <1>4, <3>1 DEF SmallestOf, ClampWindow
  <2>7. QED BY <1>3, <1>4, <1>5, <2>1, <2>6 DEF RoundLimits
<1>6. CASE round' = [round EXCEPT !.zones = @ \ {zone}, !.failed = TRUE] /\ UNCHANGED originPc
  <2>1. round'.zones \subseteq round.zones /\ round'.failed
    BY <1>1, <1>6 DEF RoundShape
  <2>2. QED BY <1>3, <1>4, <2>1 DEF RoundLimits
<1>7. QED BY <1>5, <1>6 DEF ReadLimits, zone, window

LEMMA LimitsQueryZone ==
  ASSUME OriginsInv, RoundLimits, QueryZone
  PROVE  RoundLimits'
<1> DEFINE zone == CHOOSE id \in round.zones : TRUE
<1>1. /\ RoundShape /\ UNCHANGED traffic /\ originPc = "query" /\ originPc' = "limits"
  BY DEF OriginsInv, QueryZone, Reading
<1>2. /\ round'.zones = round.zones \ {zone} /\ round'.effective = round.effective
      /\ round'.failed = round.failed \/ round'.failed
  BY <1>1 DEF QueryZone, RoundShape
<1>3. ServedZones(traffic)' = ServedZones(traffic) /\ \A id : Zone(id)' = Zone(id)
  BY <1>1 DEF ServedZones, ZonesServing, ZoneFor, Covering, Zone, ZoneIn
<1>4. Unread' = Unread /\ Shown' = Shown
  BY <1>1, <1>2 DEF Unread, Shown
<1> HIDE DEF zone
<1>5. ASSUME ~round'.failed
      PROVE  SmallestOf(Shown, ServedZones(traffic) \ Unread)'
  <2>1. SmallestOf(Shown, ServedZones(traffic) \ Unread)
    BY <1>1, <1>2, <1>5 DEF RoundLimits
  <2>2. QED BY <1>3, <1>4, <2>1 DEF SmallestOf, ClampWindow
<1>6. round'.zones \subseteq ServedZones(traffic)
  BY <1>2 DEF RoundLimits
<1>7. QED BY <1>1, <1>3, <1>5, <1>6 DEF RoundLimits

\* A step without a failure behind the queries of the zones.
LEMMA LimitsLater ==
  ASSUME RoundLimits, UNCHANGED traffic, round'.zones = round.zones, round'.effective = round.effective,
         ~round'.failed => ~round.failed,
         originPc \in {"logins", "known", "replace", "events", "window"},
         originPc' \in {"logins", "known", "replace", "events", "window"}
  PROVE  RoundLimits'
BY LimitsStand, LimitsKnown

LEMMA LimitsStep == OriginsInv /\ RowsInv /\ LimitsInv /\ [OriginNext]_originVars => LimitsInv'
<1> SUFFICES ASSUME OriginsInv, RowsInv, LimitsInv, [OriginNext]_originVars PROVE LimitsInv'
  OBVIOUS
<1> DEFINE steady == trafficChanges = 0
<1>1. /\ traffic \in Traffic /\ RoundShape /\ trafficChanges \in Nat
      /\ originPc \in {"idle", "zones"} => round = NoRound
      /\ originPc \in {"events", "window"} /\ ~partial => ~round.failed
      /\ steady => RoundLimits /\ StoredLimits
  BY DEF OriginsInv, LimitsInv
<1>2. CASE TrafficChanges
  <2>1. trafficChanges' # 0 /\ trafficChanges' \in Nat /\ UNCHANGED <<round, originPc, partial>>
    BY <1>1, <1>2 DEF TrafficChanges, originTables, originRun
  <2>2. QED BY <1>1, <2>1 DEF LimitsInv
<1>3. CASE UNCHANGED originVars
  <2>1. UNCHANGED <<traffic, trafficChanges, round, originPc, partial, originWindow>>
    BY <1>3 DEF originVars, originTables, originRun
  <2>2. ServedZones(traffic)' = ServedZones(traffic) /\ Unread' = Unread /\ Shown' = Shown
    BY <2>1 DEF ServedZones, ZonesServing, ZoneFor, Covering, Unread, Shown
  <2>3. \A id : Zone(id)' = Zone(id)
    BY <2>1 DEF Zone, ZoneIn
  <2>4. steady => RoundLimits'
    BY <1>1, <2>1, <2>2, <2>3 DEF RoundLimits, SmallestOf, ClampWindow
  <2>5. steady => StoredLimits'
    BY <1>1, <2>1, StoredStands
  <2>6. QED BY <1>1, <2>1, <2>4, <2>5 DEF LimitsInv
<1>4. CASE BeginCollection
  <2>1. /\ UNCHANGED <<traffic, trafficChanges, round, partial, originWindow>>
        /\ originPc = "idle" /\ originPc' = "zones"
    BY <1>4 DEF BeginCollection, originTables
  <2>2. RoundLimits' /\ round' = NoRound
    BY <1>1, <2>1, NoRoundLimits
  <2>3. QED BY <1>1, <2>1, <2>2, StoredStands DEF LimitsInv
<1>5. CASE ListZones \/ ReadLimits \/ QueryZone \/ ZonesRead \/ QueryLogins
  <2>1. /\ UNCHANGED <<traffic, trafficChanges, partial, originWindow>>
        /\ originPc' \notin {"idle", "zones", "events", "window"}
    BY <1>5 DEF ListZones, ReadLimits, QueryZone, ZonesRead, QueryLogins, Reading, originTables
  <2>2. ASSUME steady PROVE RoundLimits'
    <3>1. RoundLimits
      BY <1>1, <2>2
    <3>2. CASE ReadLimits \/ QueryZone
      BY <3>1, <3>2, LimitsReadLimits, LimitsQueryZone
    <3>3. CASE ZonesRead
      <4>1. /\ originPc = "limits" /\ originPc' = "logins" /\ round.zones = {} /\ UNCHANGED round
        BY <3>3 DEF ZonesRead
      <4>2. QED BY <2>1, <3>1, <4>1, LimitsStand
    <3>4. CASE QueryLogins
      <4>1. /\ originPc = "logins" /\ originPc' = "known" /\ round'.zones = round.zones
            /\ round'.effective = round.effective /\ (~round'.failed => ~round.failed)
        BY <1>1, <3>4 DEF QueryLogins, RoundShape
      <4>2. QED BY <2>1, <3>1, <4>1, LimitsLater
    <3>5. CASE ListZones
      <4>1. originPc = "zones" /\ round = NoRound
        BY <1>1, <3>5 DEF ListZones
      <4>2. ServedZones(traffic)' = ServedZones(traffic)
        BY <2>1 DEF ServedZones, ZonesServing, ZoneFor, Covering
      <4>3. CASE round' = [round EXCEPT !.failed = TRUE] /\ originPc' = "logins"
        <5>1. round'.failed /\ round'.zones = {}
          BY <1>1, <4>1, <4>3 DEF RoundShape, NoRound
        <5>2. QED BY <5>1 DEF RoundLimits
      <4>4. CASE round' = [round EXCEPT !.zones = {z.id : z \in ZonesServing(traffic.zones)}] /\ originPc' = "limits"
        <5>1. round'.zones = ServedZones(traffic) /\ round'.effective = 0
          BY <1>1, <4>1, <4>4 DEF RoundShape, NoRound, ServedZones
        <5>2. ServedZones(traffic)' \ Unread' = {} /\ Shown' = Window
          BY <4>2, <4>4, <5>1 DEF Unread, Shown
        <5>3. SmallestOf(Shown, ServedZones(traffic) \ Unread)'
          BY <5>2, OriginAssumption DEF SmallestOf
        <5>4. QED BY <4>2, <4>4, <5>1, <5>3 DEF RoundLimits
      <4>5. QED BY <3>5, <4>3, <4>4 DEF ListZones
    <3>6. QED BY <1>5, <3>2, <3>3, <3>4, <3>5
  <2>3. steady => StoredLimits'
    BY <1>1, <2>1, StoredStands
  <2>4. QED BY <1>1, <2>1, <2>2, <2>3 DEF LimitsInv
<1>6. CASE ReadKnown \/ AnnounceCountries
  <2>1. /\ UNCHANGED <<traffic, trafficChanges, originWindow>> /\ (~partial' => ~partial)
        /\ originPc \in {"known", "events"}
        /\ originPc' = IF originPc = "known" THEN "replace" ELSE "window"
    BY <1>6 DEF ReadKnown, AnnounceCountries, originTables
  <2>2. round'.zones = round.zones /\ round'.effective = round.effective /\ round'.failed = round.failed
    BY <1>1, <1>6 DEF ReadKnown, AnnounceCountries, RoundShape
  <2>3. steady => RoundLimits' /\ StoredLimits'
    BY <1>1, <2>1, <2>2, LimitsLater, StoredStands
  <2>4. QED BY <1>1, <2>1, <2>2, <2>3 DEF LimitsInv
<1>7. CASE ReplaceRequestOrigins
  <2>1. CASE partial' = (partial \/ round.failed) /\ originPc' = "events" /\ UNCHANGED round
    <3>1. UNCHANGED <<traffic, trafficChanges, originWindow>> /\ originPc = "replace"
      BY <1>7 DEF ReplaceRequestOrigins
    <3>2. steady => RoundLimits' /\ StoredLimits'
      BY <1>1, <1>7, <2>1, <3>1, LimitsLater, StoredStands
    <3>3. QED BY <1>1, <1>7, <2>1, <3>1, <3>2 DEF LimitsInv
  <2>2. CASE OriginRoundEnds /\ UNCHANGED partial
    <3>1. UNCHANGED <<traffic, trafficChanges, originWindow>> /\ round' = NoRound /\ originPc' = "idle"
      BY <1>7, <2>2 DEF ReplaceRequestOrigins, OriginRoundEnds
    <3>2. QED BY <1>1, <2>2, <3>1, NoRoundLimits, StoredStands DEF LimitsInv
  <2>3. QED BY <1>7, <2>1, <2>2 DEF ReplaceRequestOrigins
<1>8. CASE SetOriginWindow
  <2>1. /\ UNCHANGED <<traffic, trafficChanges>> /\ round' = NoRound
        /\ originPc = "window" /\ originPc' = "idle"
    BY <1>8 DEF SetOriginWindow, OriginRoundEnds
  <2>2. RoundLimits'
    BY <2>1, NoRoundLimits
  <2>3. ASSUME steady, originWindow' = Shown, UNCHANGED partial PROVE StoredLimits'
    <3>1. ~partial => SmallestOf(Shown, ServedZones(traffic))
      BY <1>1, <2>1, <2>3, LimitsKnown
    <3>2. ServedZones(traffic)' = ServedZones(traffic) /\ \A id : Zone(id)' = Zone(id)
      BY <2>1 DEF ServedZones, ZonesServing, ZoneFor, Covering, Zone, ZoneIn
    <3>3. QED BY <2>3, <3>1, <3>2 DEF StoredLimits, SmallestOf, ClampWindow
  <2>4. steady => StoredLimits'
    BY <1>8, <2>3 DEF SetOriginWindow, Shown, StoredLimits
  <2>5. QED BY <1>1, <2>1, <2>2, <2>4 DEF LimitsInv
<1>9. CASE KeepOldSummary \/ OriginCrash
  <2>1. UNCHANGED <<traffic, trafficChanges, originWindow>> /\ round' = NoRound /\ originPc' = "idle"
    BY <1>9 DEF KeepOldSummary, OriginCrash, OriginRoundEnds, Reading, originTables
  <2>2. partial' = partial \/ partial' = (partial \/ originPc \in {"events", "window"})
    BY <1>9 DEF KeepOldSummary, OriginCrash, Reading
  <2>3. ~partial' => ~partial
    BY <2>2
  <2>4. QED BY <1>1, <2>1, <2>3, NoRoundLimits, StoredStands DEF LimitsInv
<1>10. QED BY <1>2, <1>3, <1>4, <1>5, <1>6, <1>7, <1>8, <1>9 DEF OriginNext

LEMMA RowsStart == OriginInit => RowsInv
<1> SUFFICES ASSUME OriginInit PROVE RowsInv
  OBVIOUS
<1>1. round.found = {} /\ round.zones = {} /\ round.effective = 0 /\ origins = {}
      /\ originWindow = 0 /\ originPc = "idle"
  BY DEF OriginInit, NoRound
<1>2. Sound({})
  BY FS_EmptySet DEF Sound
<1>3. Window \in Nat
  BY OriginAssumption
<1>4. QED BY <1>1, <1>2, <1>3 DEF RowsInv, FoundInv, StoredRows

LEMMA LimitsStart == OriginInit => LimitsInv
<1> SUFFICES ASSUME OriginInit PROVE LimitsInv
  OBVIOUS
<1>1. /\ round = NoRound /\ round.zones = {} /\ originPc = "idle"
      /\ originWindow = 0 /\ trafficChanges = 0
  BY DEF OriginInit, NoRound
<1>2. QED BY <1>1 DEF LimitsInv, RoundLimits, StoredLimits

\* The stored summary accounts for its requests, its window is one that all of
\* its rows cover and the smallest of those asked for, and the pages count
\* every request of it once.
THEOREM SummariesOfOriginsAddUp == OriginSpec => []OriginsAddUp
<1>1. OriginInit => RowsInv /\ LimitsInv
  BY RowsStart, LimitsStart
<1>2. OriginsInv /\ RowsInv /\ LimitsInv /\ [OriginNext]_originVars => RowsInv' /\ LimitsInv'
  BY RowsStep, LimitsStep
<1>3. RowsInv /\ LimitsInv => OriginsAddUp
  <2> SUFFICES ASSUME RowsInv, LimitsInv PROVE OriginsAddUp
    OBVIOUS
  <2>1. Sound(origins) /\ originWindow \in Nat
    BY OriginAssumption DEF RowsInv, StoredRows
  <2>2. \A r \in origins : r.allowed + r.denied = r.requests /\ (r.source = "http" => r.host \in ServedHosts)
    BY <2>1 DEF Sound, GoodRow
  <2>3. originPc = "idle" /\ ~partial => \A r \in origins : originWindow <= r.window
    BY DEF RowsInv, StoredRows
  <2>4. originWindow >= 60 => FormatWindow(originWindow) \in 60..originWindow
    BY <2>1, WindowIsCalled
  <2>5. LET whole == OriginSummary(origins)
            tables == Breakdowns(origins)
            logs == OriginSummary({r \in origins : r.source = "login"})
            tunnel(hosts) == OriginSummary(OriginsOf(hosts)).requests
        IN /\ whole.requests = TotalOf(whole.countries)
           /\ whole.requests = TotalOf(tables) + logs.requests
           /\ \A hosts \in SUBSET ServedHosts :
                whole.requests = tunnel(hosts) + tunnel(ServedHosts \ hosts) + logs.requests
    BY <2>1, PagesAddUp
  <2>6. ~partial /\ trafficChanges = 0 /\ originWindow # 0 =>
          originWindow \in AskedWindows /\ \A window \in AskedWindows : originWindow <= window
    BY DEF LimitsInv, StoredLimits, SmallestOf, AskedWindows
  <2>7. QED BY <2>2, <2>3, <2>4, <2>5, <2>6 DEF OriginsAddUp
<1>4. QED BY <1>1, <1>2, <1>3, OriginsInvariant, PTL DEF OriginSpec

-----------------------------------------------------------------------------
(* The summary of the logins. *)

\* What a call returned when the log had n events and the window began after
\* event w; the log has only grown since.
NewestOf(n, w) ==
  {[at |-> i, login |-> authLog[i]] : i \in {j \in 1..n : j > w /\ j > n - MaxLogEntries}}

\* A place in the log that has been reached.
Reached(place) == \E n \in 0..Len(authLog) : \E w \in 0..n : place = <<n, w>>

TableIsSummary == Reached(storedAt) /\ logins = SummarizeLogins(NewestOf(storedAt[1], storedAt[2]))

ListedIsNewest(c) == Reached(listedAt[c]) /\ listed[c] = NewestOf(listedAt[c][1], listedAt[c][2])

LoginInv ==
  /\ authLog \in Seq(Logins)
  /\ windowStart \in 0..Len(authLog)
  /\ TableIsSummary
  /\ listed \in [Collectors -> SUBSET [at: Nat, login: Logins]]
  /\ listedAt \in [Collectors -> Nat \X Nat]
  /\ collecting \subseteq Collectors
  /\ \A c \in collecting : ListedIsNewest(c)

LEMMA LogGrows ==
  ASSUME authLog \in Seq(Logins), NEW l \in Logins, authLog' = Append(authLog, l)
  PROVE  \A place : Reached(place) =>
           Reached(place)' /\ NewestOf(place[1], place[2])' = NewestOf(place[1], place[2])
<1> SUFFICES ASSUME NEW n \in 0..Len(authLog), NEW w \in 0..n
             PROVE  Reached(<<n, w>>)' /\ NewestOf(n, w)' = NewestOf(n, w)
  BY DEF Reached
<1>1. Len(authLog) \in Nat /\ Len(authLog') = Len(authLog) + 1
  BY LenProperties, AppendProperties
<1>2. \A i \in 1..n : authLog'[i] = authLog[i]
  BY <1>1, AppendProperties
<1>3. Reached(<<n, w>>)'
  BY <1>1 DEF Reached
<1>4. QED BY <1>2, <1>3 DEF NewestOf

LEMMA NewestIs == authLog \in Seq(Logins) => Newest = NewestOf(Len(authLog), windowStart)
BY DEF Newest, NewestOf

LEMMA LoginInitial == LoginInit => LoginInv
<1> SUFFICES ASSUME LoginInit PROVE LoginInv
  OBVIOUS
<1>1. authLog = <<>> /\ authLog \in Seq(Logins) /\ Len(authLog) = 0 /\ Reached(<<0, 0>>)
  BY DEF LoginInit, Reached
<1>2. NewestOf(0, 0) = {}
  BY DEF NewestOf
<1>3. SummarizeLogins({}) = {}
  BY DEF SummarizeLogins
<1>4. TableIsSummary
  BY <1>1, <1>2, <1>3 DEF LoginInit, TableIsSummary
<1>5. QED BY <1>1, <1>4 DEF LoginInit, LoginInv

\* What was stored or listed stays so while the log does not change.
LEMMA LogStands ==
  ASSUME UNCHANGED authLog
  PROVE  /\ UNCHANGED <<logins, storedAt>> /\ TableIsSummary => TableIsSummary'
         /\ \A c : listed'[c] = listed[c] /\ listedAt'[c] = listedAt[c] /\ ListedIsNewest(c) => ListedIsNewest(c)'
BY DEF TableIsSummary, ListedIsNewest, Reached, NewestOf

LEMMA LoginStep == LoginInv /\ [LoginNext]_loginVars => LoginInv'
<1> SUFFICES ASSUME LoginInv, [LoginNext]_loginVars PROVE LoginInv'
  OBVIOUS
<1>1. Len(authLog) \in Nat
  BY LenProperties DEF LoginInv
<1>2. ASSUME NEW l \in Logins, authLog' = Append(authLog, l),
             UNCHANGED <<windowStart, logins, collecting, listed, listedAt, storedAt>>
      PROVE  LoginInv'
  <2>1. authLog' \in Seq(Logins) /\ Len(authLog') = Len(authLog) + 1
    BY <1>2, AppendProperties DEF LoginInv
  <2>2. Reached(storedAt)' /\ NewestOf(storedAt[1], storedAt[2])' = NewestOf(storedAt[1], storedAt[2])
    BY <1>2, LogGrows DEF LoginInv, TableIsSummary
  <2>3. \A c \in collecting : Reached(listedAt[c])'
          /\ NewestOf(listedAt[c][1], listedAt[c][2])' = NewestOf(listedAt[c][1], listedAt[c][2])
    BY <1>2, LogGrows DEF LoginInv, ListedIsNewest
  <2>4. TableIsSummary'
    BY <1>2, <2>2 DEF LoginInv, TableIsSummary
  <2>5. \A c \in collecting : ListedIsNewest(c)'
    BY <1>2, <2>3 DEF LoginInv, ListedIsNewest
  <2>6. QED BY <1>1, <1>2, <2>1, <2>4, <2>5 DEF LoginInv
<1>3. CASE SomeoneLogsIn
  BY <1>2, <1>3 DEF SomeoneLogsIn
<1>4. CASE WindowMoves
  <2>1. UNCHANGED <<authLog, logins, collecting, listed, listedAt, storedAt>> /\ windowStart' \in 0..Len(authLog)
    BY <1>1, <1>4 DEF WindowMoves, LoginInv
  <2>2. QED BY <2>1, LogStands DEF LoginInv
<1>5. ASSUME NEW c \in Collectors, ListAccessRequests(c) PROVE LoginInv'
  <2>1. UNCHANGED <<authLog, windowStart, logins, storedAt>>
    BY <1>5 DEF ListAccessRequests
  <2>2. CASE UNCHANGED <<collecting, listed, listedAt>>
    BY <2>1, <2>2, LogStands DEF LoginInv
  <2>3. CASE /\ collecting' = collecting \cup {c} /\ listed' = [listed EXCEPT ![c] = Newest]
             /\ listedAt' = [listedAt EXCEPT ![c] = <<Len(authLog), windowStart>>]
    <3>1. Newest \subseteq [at: Nat, login: Logins]
      BY DEF LoginInv, Newest
    <3>2. Reached(<<Len(authLog), windowStart>>) /\ <<Len(authLog), windowStart>> \in Nat \X Nat
      BY <1>1 DEF LoginInv, Reached
    <3>3. Newest = NewestOf(Len(authLog), windowStart)
      BY NewestIs DEF LoginInv
    <3>4. listed' \in [Collectors -> SUBSET [at: Nat, login: Logins]] /\ listedAt' \in [Collectors -> Nat \X Nat]
      BY <2>3, <3>1, <3>2 DEF LoginInv
    <3>5. listed'[c] = Newest /\ listedAt'[c] = <<Len(authLog), windowStart>>
      BY <2>3 DEF LoginInv
    <3>6. ListedIsNewest(c)'
      BY <2>1, <3>2, <3>3, <3>5 DEF ListedIsNewest, Reached, NewestOf
    <3>7. \A d \in collecting \ {c} : ListedIsNewest(d)'
      BY <2>1, <2>3, LogStands DEF LoginInv
    <3>8. \A d \in collecting' : ListedIsNewest(d)'
      BY <2>3, <3>6, <3>7
    <3>9. TableIsSummary'
      BY <2>1, LogStands DEF LoginInv
    <3>10. QED BY <2>1, <2>3, <3>4, <3>8, <3>9 DEF LoginInv
  <2>4. QED BY <1>5, <2>2, <2>3 DEF ListAccessRequests
<1>6. ASSUME NEW c \in Collectors, ReplaceAccessLogins(c) PROVE LoginInv'
  <2>1. /\ UNCHANGED <<authLog, windowStart, listedAt>> /\ c \in collecting
        /\ collecting' = collecting \ {c} /\ listed' = [listed EXCEPT ![c] = {}]
    BY <1>6 DEF ReplaceAccessLogins
  <2>2. listed' \in [Collectors -> SUBSET [at: Nat, login: Logins]]
    BY <2>1 DEF LoginInv
  <2>3. \A d \in collecting' : ListedIsNewest(d)'
    BY <2>1, LogStands DEF LoginInv
  <2>4. \/ logins' = SummarizeLogins(listed[c]) /\ storedAt' = listedAt[c]
        \/ UNCHANGED <<logins, storedAt>>
    BY <1>6 DEF ReplaceAccessLogins, Swapped
  <2>5. ListedIsNewest(c)
    BY <2>1 DEF LoginInv
  <2>6. TableIsSummary'
    <3>1. CASE logins' = SummarizeLogins(listed[c]) /\ storedAt' = listedAt[c]
      BY <2>1, <2>5, <3>1 DEF TableIsSummary, ListedIsNewest, Reached, NewestOf
    <3>2. CASE UNCHANGED <<logins, storedAt>>
      BY <2>1, <3>2, LogStands DEF LoginInv
    <3>3. QED BY <2>4, <3>1, <3>2
  <2>7. QED BY <2>1, <2>2, <2>3, <2>6 DEF LoginInv
<1>7. CASE UNCHANGED loginVars
  <2>1. UNCHANGED <<authLog, windowStart, logins, collecting, listed, listedAt, storedAt>>
    BY <1>7 DEF loginVars
  <2>2. QED BY <2>1, LogStands DEF LoginInv
<1>8. QED BY <1>3, <1>4, <1>5, <1>6, <1>7 DEF LoginNext

\* What the summary makes of the events of a host.
NamedOf(events) == {e \in events : HostOf(e.login) # NoDomain}
EventsOf(h, events) == {e \in events : HostOf(e.login) = h}

\* The events in the window when it holds no more than one call returns.
LoggedAt(i) == [at |-> i, login |-> authLog[i]]
Logged == {LoggedAt(i) : i \in (windowStart + 1)..Len(authLog)}

LEMMA LogTypes ==
  ASSUME LoginInv
  PROVE  /\ Len(authLog) \in Nat /\ windowStart \in Nat /\ DOMAIN authLog = 1..Len(authLog)
         /\ \A i \in DOMAIN authLog : authLog[i] \in Logins /\ authLog[i].allowed \in BOOLEAN
BY LoginAssumption, LenProperties DEF LoginInv

\* An event of a host is one of its entries in the window.
LEMMA EventsInWindow ==
  ASSUME LoginInv, NEW h
  PROVE  /\ EventsOf(h, Logged) = {LoggedAt(i) : i \in InWindow(h)}
         /\ IsFiniteSet(EventsOf(h, Logged)) /\ IsFiniteSet(InWindow(h))
         /\ Cardinality(EventsOf(h, Logged)) = Cardinality(InWindow(h))
         /\ {e.at : e \in EventsOf(h, Logged)} = InWindow(h)
         /\ {e.login.user : e \in EventsOf(h, Logged)} = {authLog[i].user : i \in InWindow(h)}
<1> DEFINE f == [i \in InWindow(h) |-> LoggedAt(i)]
<1>1. EventsOf(h, Logged) = {LoggedAt(i) : i \in InWindow(h)}
  BY LogTypes DEF EventsOf, Logged, LoggedAt, InWindow
<1>2. IsFiniteSet(InWindow(h))
  <2>1. InWindow(h) \subseteq 1..Len(authLog) /\ IsFiniteSet(1..Len(authLog))
    BY LogTypes, FS_Interval DEF InWindow
  <2>2. QED BY <2>1, FS_Subset
<1>3. {LoggedAt(i) : i \in InWindow(h)} = {f[i] : i \in InWindow(h)}
  OBVIOUS
<1>4. \A i, j \in InWindow(h) : f[i] = f[j] => i = j
  BY DEF LoggedAt
<1> HIDE DEF f
<1>5. /\ IsFiniteSet({f[i] : i \in InWindow(h)})
      /\ Cardinality({f[i] : i \in InWindow(h)}) = Cardinality(InWindow(h))
  BY <1>2, <1>4, ImageIsFinite, ImageSize
<1>6. \A i : LoggedAt(i).at = i /\ LoggedAt(i).login = authLog[i]
  BY DEF LoggedAt
<1>7. {e.at : e \in {LoggedAt(i) : i \in InWindow(h)}} = InWindow(h)
  BY <1>6
<1>8. {e.login.user : e \in {LoggedAt(i) : i \in InWindow(h)}} = {authLog[i].user : i \in InWindow(h)}
  BY <1>6
<1>9. QED BY <1>1, <1>2, <1>3, <1>5, <1>7, <1>8

\* An event was allowed or denied.
LEMMA AllowedOrDenied ==
  ASSUME LoginInv, NEW h, NEW l, l = SummaryOf(h, EventsOf(h, Logged))
  PROVE  /\ l.host = h /\ l.allowed \in Nat /\ l.denied \in Nat
         /\ l.allowed + l.denied = Cardinality(InWindow(h))
<1> DEFINE E == EventsOf(h, Logged)
           A == {e \in E : e.login.allowed}
           D == {e \in E : ~e.login.allowed}
<1>1. IsFiniteSet(E) /\ Cardinality(E) = Cardinality(InWindow(h))
  BY EventsInWindow
<1>2. A \cup D = E /\ A \cap D = {} /\ A \subseteq E /\ D \subseteq E
  OBVIOUS
<1>3. l.host = h /\ l.allowed = Cardinality(A) /\ l.denied = Cardinality(D)
  BY DEF SummaryOf, Count
<1> HIDE DEF A, D, E
<1>4. IsFiniteSet(A) /\ IsFiniteSet(D)
  BY <1>1, <1>2, FS_Subset
<1>5. Cardinality(A) \in Nat /\ Cardinality(D) \in Nat /\ Cardinality(A \cup D) = Cardinality(A) + Cardinality(D)
  BY <1>2, <1>4, FS_CardinalityType, DisjointSize
<1>6. QED BY <1>1, <1>2, <1>3, <1>5

\* Every request for access is counted, in the row of its host and in the
\* totals, whoever logs in, whatever fails, and however many goroutines collect.
THEOREM SummariesAccountForLog == LoginSpec => []SummaryAccountsForLog
<1>1. LoginInv => SummaryAccountsForLog
  <2> DEFINE Named == {HostOf(authLog[i]) : i \in (windowStart + 1)..Len(authLog)} \ {NoDomain}
             rows == [h \in Named |-> SummaryOf(h, EventsOf(h, Logged))]
  <2> SUFFICES ASSUME LoginInv, storedAt = <<Len(authLog), windowStart>>,
                      Len(authLog) - windowStart <= MaxLogEntries
               PROVE  SummaryAccountsForLog
    BY DEF SummaryAccountsForLog
  <2>1. /\ Len(authLog) \in Nat /\ windowStart \in Nat /\ windowStart <= Len(authLog)
        /\ DOMAIN authLog = 1..Len(authLog) /\ MaxLogEntries \in Nat
    BY LogTypes, LoginAssumption DEF LoginInv
  <2>2. NewestOf(Len(authLog), windowStart) = Logged
    BY <2>1 DEF NewestOf, Logged, LoggedAt
  <2>3. logins = SummarizeLogins(Logged)
    BY <2>2 DEF LoginInv, TableIsSummary
  <2>4. Named = {HostOf(e.login) : e \in NamedOf(Logged)}
    <3>1. \A i : LoggedAt(i).login = authLog[i]
      BY DEF LoggedAt
    <3>2. ASSUME NEW h \in Named PROVE h \in {HostOf(e.login) : e \in NamedOf(Logged)}
      <4>1. PICK i \in (windowStart + 1)..Len(authLog) : h = HostOf(authLog[i])
        OBVIOUS
      <4>2. LoggedAt(i) \in NamedOf(Logged)
        BY <3>1, <4>1 DEF NamedOf, Logged
      <4>3. QED BY <3>1, <4>1, <4>2
    <3>3. ASSUME NEW e \in NamedOf(Logged) PROVE HostOf(e.login) \in Named
      <4>1. PICK i \in (windowStart + 1)..Len(authLog) : e = LoggedAt(i)
        BY DEF NamedOf, Logged
      <4>2. QED BY <3>1, <4>1 DEF NamedOf
    <3> HIDE DEF Named
    <3>4. QED BY <3>2, <3>3
  <2>5. \A h \in Named : {e \in NamedOf(Logged) : HostOf(e.login) = h} = EventsOf(h, Logged)
    BY DEF NamedOf, EventsOf
  <2>6. logins = {rows[h] : h \in Named}
    <3>1. logins = {SummaryOf(h, {e \in NamedOf(Logged) : HostOf(e.login) = h}) : h \in Named}
      BY <2>3, <2>4 DEF SummarizeLogins, NamedOf
    <3>2. logins = {SummaryOf(h, EventsOf(h, Logged)) : h \in Named}
      BY <2>5, <3>1
    <3>3. QED BY <3>2
  <2>7. \A h \in Named : /\ rows[h].host = h /\ rows[h].allowed \in Nat /\ rows[h].denied \in Nat
                         /\ rows[h].allowed + rows[h].denied = Cardinality(InWindow(h))
    BY AllowedOrDenied
  <2>8. \A h \in Named : InWindow(h) # {}
    BY <2>1 DEF InWindow
  <2>9. \A h : h # NoDomain /\ InWindow(h) # {} => h \in Named
    BY <2>1 DEF InWindow
  <2>10. \A h \in Named : /\ rows[h].lastAt = Max(InWindow(h))
                          /\ rows[h].users = Cardinality({authLog[i].user : i \in InWindow(h)} \ {""})
    BY EventsInWindow DEF SummaryOf, UsersOf, Users, Count
  <2>11. IsFiniteSet(Named)
    <3> DEFINE host == [i \in (windowStart + 1)..Len(authLog) |-> HostOf(authLog[i])]
               hosts == {host[i] : i \in (windowStart + 1)..Len(authLog)}
    <3>1. IsFiniteSet((windowStart + 1)..Len(authLog))
      BY <2>1, FS_Interval
    <3>2. Named \subseteq hosts
      OBVIOUS
    <3>3. IsFiniteSet(hosts)
      <4> HIDE DEF host
      <4>1. QED BY <3>1, ImageIsFinite
    <3> HIDE DEF hosts
    <3>4. QED BY <3>2, <3>3, FS_Subset
  <2>12. LoginTotals.allowed + LoginTotals.denied
           = Cardinality({i \in DOMAIN authLog : i > windowStart /\ HostOf(authLog[i]) # NoDomain})
    <3> DEFINE allowed == [l \in logins |-> l.allowed]
               denied == [l \in logins |-> l.denied]
               entries0 == [l \in logins |-> InWindow(l.host)]
               sizes == [l \in logins |-> Cardinality(entries0[l])]
               all == UNION {entries0[l] : l \in logins}
    <3>1. LoginTotals.allowed = SumOver(allowed, logins) /\ LoginTotals.denied = SumOver(denied, logins)
      BY DEF LoginTotals, OverApps, SumOver
    <3>2. IsFiniteSet(logins)
      <4> HIDE DEF rows, Named
      <4>1. QED BY <2>6, <2>11, ImageIsFinite
    <3>3. \A l \in logins : /\ l.allowed \in Nat /\ l.denied \in Nat
                            /\ l.allowed + l.denied = Cardinality(InWindow(l.host))
      <4> HIDE DEF rows, Named
      <4>1. QED BY <2>6, <2>7
    <3>4. \A l \in logins : /\ allowed[l] \in Int /\ denied[l] \in Int /\ sizes[l] = allowed[l] + denied[l]
      BY <3>3
    <3>5. SumOver(sizes, logins) = SumOver(allowed, logins) + SumOver(denied, logins)
      <4> HIDE DEF allowed, denied, sizes
      <4>1. QED BY <3>2, <3>4, SumPlus
    <3>6. \A l \in logins : IsFiniteSet(entries0[l])
      BY EventsInWindow
    <3>7. \A l, m \in logins : l # m => entries0[l] \cap entries0[m] = {}
      <4>1. \A l, m \in logins : l.host = m.host => l = m
        <5> HIDE DEF rows, Named
        <5>1. QED BY <2>6, <2>7
      <4>2. QED BY <4>1 DEF InWindow
    <3>8. SumOver(sizes, logins) = Cardinality(all)
      <4> DEFINE S == logins
      <4>1. IsFiniteSet(S)
        BY <3>2
      <4>2. \A l \in S : IsFiniteSet(entries0[l]) /\ sizes[l] = Cardinality(entries0[l])
        BY <3>6
      <4>3. \A l, m \in S : l # m => entries0[l] \cap entries0[m] = {}
        BY <3>7
      <4> HIDE DEF entries0, sizes, S
      <4>4. /\ IsFiniteSet(UNION {entries0[l] : l \in S})
            /\ SumOver(sizes, S) = Cardinality(UNION {entries0[l] : l \in S})
        BY <4>1, <4>2, <4>3, SumOfSizes
      <4>5. QED BY <4>4 DEF S
    <3>9. all = {i \in DOMAIN authLog : i > windowStart /\ HostOf(authLog[i]) # NoDomain}
      <4>1. all = UNION {InWindow(h) : h \in Named}
        <5>1. \A l \in logins : l.host \in Named
          <6> HIDE DEF rows, Named
          <6>1. QED BY <2>6, <2>7
        <5>2. \A h \in Named : \E l \in logins : l.host = h
          <6> HIDE DEF rows, Named
          <6>1. QED BY <2>6, <2>7
        <5> HIDE DEF Named
        <5>3. QED BY <5>1, <5>2
      <4>2. QED BY <2>1, <4>1 DEF InWindow
    <3> HIDE DEF allowed, denied, sizes, all
    <3>10. QED BY <3>1, <3>5, <3>8, <3>9
  <2> HIDE DEF rows, Named
  <2>13. \A l \in logins : InWindow(l.host) # {}
    BY <2>6, <2>7, <2>8
  <2>14. ASSUME NEW h, h # NoDomain, InWindow(h) # {}
         PROVE  \E l \in logins : /\ l.host = h
                                  /\ l.allowed + l.denied = Cardinality(InWindow(h))
                                  /\ l.lastAt = Max(InWindow(h))
                                  /\ l.users = Cardinality({authLog[i].user : i \in InWindow(h)} \ {""})
    <3>1. h \in Named /\ rows[h] \in logins
      BY <2>6, <2>9, <2>14
    <3>2. QED BY <2>7, <2>10, <3>1
  <2>15. QED BY <2>12, <2>13, <2>14 DEF SummaryAccountsForLog
<1>2. QED BY <1>1, LoginInitial, LoginStep, PTL DEF LoginSpec
=============================================================================
