SPECIFICATION LiveSpec
CONSTANTS
  Tunnels = {t1}
  Statuses = {up, down}
  Connectors = {c1}
  Builds = {b1}
  Versions = {1, 2}
  RuleLess = {2}
  None = None
  Pollers = {p1}
  ConfigRefreshEvery = 2
  PruneEvery = 2
  CycleWrap = 2
  Retention = 1
  Mishaps = {"config", "expire"}
  MaxMishaps = 1
  MaxChanges = 2
  MaxClock = 0
  PollLoop = "poll"
  OtherLoops = {"probes"}
  Buttons = {"refresh"}
  ManualInterval = 2
  RoundTimeout = 5
  ShutdownTimeout = 1
  MaxTime = 6
INVARIANTS
  StoreClosedLast
  ManualRoundsAreFew
PROPERTIES
  EventuallyMirrors
  ProcessExits
CHECK_DEADLOCK FALSE
