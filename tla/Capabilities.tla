---------------------------- MODULE Capabilities ----------------------------
(***************************************************************************)
(* What the API token was last observed to be allowed to read: record,     *)
(* which every collection calls after an API call, and what the About page *)
(* says from it and from the configuration.  The map is updated and        *)
(* marshalled under a lock; the snapshot is written to the database after  *)
(* the lock is released, so that two collections may write in the opposite *)
(* order.  The stored map outlives the process and its configuration.      *)
(***************************************************************************)
EXTENDS Naturals

CONSTANTS
  Areas,          \* capability keys
  Environments,   \* environments the process may be started in
  NoConfig,       \* what a malformed one gives
  Recorders,      \* goroutines that call record
  NoOutcome,      \* an area without an entry
  MaxRecords,     \* bound: outcomes recorded
  MaxCapFailures  \* bound: failed writes and restarts

\* One per area of the API that needs a permission of its own.
CapabilityKeys == {"tunnels", "access_apps", "service_tokens", "notifications", "access_logins",
                   "zones", "zone_analytics", "login_analytics"}

ASSUME AreasAssumption == Areas \subseteq CapabilityKeys

VARIABLES
  config,         \* of the running process
  known,          \* the map in memory
  storedKnown,    \* MetaCapabilities
  snapshot,       \* of each recorder about to write, or NoOutcome
  records, capFailures,
  lastOutcome,    \* history: of each area, since the process started
  alone           \* history: the last outcome was recorded with no other pending

capVars == <<config, known, storedKnown, snapshot, records, capFailures, lastOutcome, alone>>

Nothing == [a \in Areas |-> NoOutcome]

-----------------------------------------------------------------------------
(* The configuration, of which the optional parts matter here; "token"     *)
(* stands for the two credentials of the prober.                           *)

Switches == {"audit", "release", "logins", "origins", "probe", "token", "notify"}
Settings == Switches \cup {"others"}

EnvBool(value, default) == IF value = "unset" THEN default ELSE value = "true"

\* Load: every setting is read, and one that is malformed, missing or out of
\* its range fails them all.
Load(env) ==
  IF \E s \in Settings : env[s] = "malformed" THEN NoConfig
  ELSE [s \in Switches |-> EnvBool(env[s], s \in {"audit", "release"})]

Configs == {Load(env) : env \in Environments} \ {NoConfig}

\* The loops that run is asked to spawn beside the poll.
Spawned == {s \in {"release", "audit", "logins", "origins", "probe"} : config[s]}

\* Whether some loop calls an area of the API.
Called(area) ==
  CASE area = "tunnels" -> TRUE
    [] area \in {"access_apps", "service_tokens", "notifications"} -> "audit" \in Spawned
    [] area = "access_logins" -> "logins" \in Spawned
    [] area \in {"zones", "zone_analytics", "login_analytics"} -> "origins" \in Spawned

-----------------------------------------------------------------------------
(* The outcome of a call.                                                  *)

\* "authz" is an error of the Analytics API, which answers 200.
CallResults == {"answered", "401", "403", "authz", "other error"}

IsForbidden(result) == result \in {"401", "403", "authz"}

StateOf(result) ==
  IF result = "answered" THEN "ok" ELSE IF IsForbidden(result) THEN "forbidden" ELSE "error"

CallStates == {StateOf(result) : result \in CallResults}

ASSUME NoOutcomeAssumption == NoOutcome \notin [Areas -> CallStates \cup {NoOutcome}]

CapInit ==
  /\ config \in Configs
  /\ known = Nothing /\ storedKnown = Nothing
  /\ snapshot = [r \in Recorders |-> NoOutcome]
  /\ records = 0 /\ capFailures = 0
  /\ lastOutcome = Nothing
  /\ alone = FALSE

\* Mutation of Updated: the map of the last write is updated, not the one in memory.
UpdatedStored(area, state) == [storedKnown EXCEPT ![area] = state]

Updated(area, state) == [known EXCEPT ![area] = state]

\* The critical section of record.
Record(r, area, state) ==
  /\ snapshot[r] = NoOutcome /\ records < MaxRecords
  /\ records' = records + 1
  /\ known' = Updated(area, state)
  /\ snapshot' = [snapshot EXCEPT ![r] = known']
  /\ lastOutcome' = [lastOutcome EXCEPT ![area] = state]
  /\ alone' = \A q \in Recorders : snapshot[q] = NoOutcome
  /\ UNCHANGED <<config, storedKnown, capFailures>>

\* SetMeta, after the lock was released.
StoreCapabilities(r) ==
  /\ snapshot[r] # NoOutcome
  /\ snapshot' = [snapshot EXCEPT ![r] = NoOutcome]
  /\ \/ /\ storedKnown' = snapshot[r]
        /\ UNCHANGED <<capFailures, alone>>
     \/ /\ capFailures < MaxCapFailures
        /\ capFailures' = capFailures + 1
        /\ alone' = FALSE
        /\ UNCHANGED storedKnown
  /\ UNCHANGED <<config, known, records, lastOutcome>>

\* The map in memory is lost with the process, the stored one is not.  The next
\* process may be configured otherwise.
CapRestart ==
  /\ capFailures < MaxCapFailures
  /\ capFailures' = capFailures + 1
  /\ config' \in Configs
  /\ known' = Nothing /\ lastOutcome' = Nothing
  /\ snapshot' = [r \in Recorders |-> NoOutcome]
  /\ alone' = FALSE
  /\ UNCHANGED <<storedKnown, records>>

CapNext ==
  \/ \E r \in Recorders, area \in Areas, state \in CallStates :
       Called(area) /\ Record(r, area, state)
  \/ \E r \in Recorders : StoreCapabilities(r)
  \/ CapRestart

CapSpec == CapInit /\ [][CapNext]_capVars

-----------------------------------------------------------------------------
(* The About page. *)

\* Areas the program was told not to call.
SwitchedOff(area) ==
  \/ area \in {"access_apps", "service_tokens"} /\ ~config["audit"]
  \/ area = "access_logins" /\ ~config["logins"]
  \/ area \in {"zones", "zone_analytics", "login_analytics"} /\ ~config["origins"]

\* The configuration decides first.
Permission(area) ==
  IF SwitchedOff(area) THEN "disabled"
  ELSE IF storedKnown[area] = NoOutcome THEN "unknown" ELSE storedKnown[area]

\* No delivery channel is wired up, and a prober without credentials only
\* reaches the edge.
Feature(s) ==
  IF ~config[s] THEN "off"
  ELSE IF s = "notify" \/ (s = "probe" /\ ~config["token"]) THEN "unconfigured" ELSE "on"

CapTypeOK ==
  /\ config \in [Switches -> BOOLEAN]
  /\ known \in [Areas -> CallStates \cup {NoOutcome}]
  /\ storedKnown \in [Areas -> CallStates \cup {NoOutcome}]
  /\ \A r \in Recorders : snapshot[r] # NoOutcome => snapshot[r] \in [Areas -> CallStates \cup {NoOutcome}]

\* Two records that overlap may leave the older snapshot in the database, a
\* failed write or a restart the map of before.  One record that overlaps no
\* other and whose write succeeds puts all of that right: after it the About
\* page shows the last outcome of every area called since the process started,
\* of the areas called by others too, and no entry of the previous process.
\* "Disabled" it shows only areas that no loop calls, and all of those but the
\* notification policies; "off" only features whose loop does not run.
PermissionsAreCurrent ==
  /\ alone /\ (\A r \in Recorders : snapshot[r] = NoOutcome) =>
       \A area \in {a \in Areas : ~SwitchedOff(a)} :
         Permission(area) = IF lastOutcome[area] = NoOutcome THEN "unknown" ELSE lastOutcome[area]
  /\ \A area \in Areas \ {"notifications"} : (Permission(area) = "disabled") <=> ~Called(area)
  /\ \A s \in {"release", "audit", "logins", "origins", "probe"} : (Feature(s) = "off") <=> s \notin Spawned
=============================================================================
