SPECIFICATION Spec
CONSTANTS
  Tunnels = {t1}
  Statuses = {up, down}
  Connectors = {c1}
  Builds = {b1, b2}
  Versions = {1, 2}
  RuleLess = {}
  None = None
  Pollers = {p1}
  ConfigRefreshEvery = 2
  PruneEvery = 2
  CycleWrap = 2
  Retention = 2
  Mishaps = {"list", "connectors", "config"}
  MaxMishaps = 1
  MaxChanges = 2
  MaxClock = 1
INVARIANT ConnectorEventsReplay
