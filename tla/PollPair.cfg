SPECIFICATION Spec
CONSTANTS
  Tunnels = {t1}
  Statuses = {up, down}
  Connectors = {}
  Builds = {b1}
  Versions = {1}
  RuleLess = {}
  None = None
  Pollers = {p1, p2}
  ConfigRefreshEvery = 2
  PruneEvery = 2
  CycleWrap = 2
  Retention = 1
  Mishaps = {}
  MaxMishaps = 0
  MaxChanges = 1
  MaxClock = 0
INVARIANTS
  StatusWasRecorded
  StatusEventsAreGrounded
SYMMETRY Symmetry
