SPECIFICATION Spec
CONSTANTS
  Tunnels = {t1}
  Statuses = {up, down}
  Connectors = {c1}
  Builds = {b1}
  Versions = {1}
  RuleLess = {}
  None = None
  Pollers = {p1}
  ConfigRefreshEvery = 2
  PruneEvery = 2
  CycleWrap = 2
  Retention = 0
  Mishaps = {"crash", "expire", "save", "log"}
  MaxMishaps = 1
  MaxChanges = 2
  MaxClock = 2
INVARIANTS
  StatusAgreesWithHistory
  StatusEventsAreGrounded
PROPERTY ImplementsLog
