SPECIFICATION Spec
CONSTANTS
  Hosts = {"g", "p", "q"}
  Apps = {"site", "path", "other"}
  Tunnels = {"t1", "t2"}
  Accounts <- MCAccounts
  NoApp = NoApp
  Auditors = {"loop", "manual"}
  MaxAudits = 2
  MaxAccountChanges = 1
  MaxAuditFailures = 1
  Ingresses <- MCIngresses
  Probers = {"loop", "manual"}
  HasServiceToken = TRUE
  NoResult = NoResult
  MaxRounds = 2
  MaxPathChanges = 1
  MaxClock = 1
  NoHost = NoHost
  NoRelease = NoRelease
  TunnelStatuses = {"healthy", "down"}
  DetailRows <- MCDetailRows
  ExpectedPublic = {}
  Releases = {"v2"}
  MaxPolls = 1
  MaxLookups = 1
  MaxMutes = 1
  ServedHosts = {"a", "b.sub", "c"}
  Traffic <- MCTraffic
  ExpectedCountries = {"AT"}
  Window = 1500
  MaxCollections = 3
  MaxTrafficChanges = 2
  MaxOriginFailures = 1
  Logins <- MCLogins
  Collectors = {"loop", "manual"}
  MaxLogEntries = 2
  MaxLogins = 3
  MaxSummaries = 2
  MaxLoginFailures = 1
  Areas = {"tunnels", "notifications", "zones"}
  Environments <- MCEnvironments
  NoConfig = NoConfig
  Recorders = {"poll", "manual"}
  NoOutcome = NoOutcome
  MaxRecords = 3
  MaxCapFailures = 1
  Messages = {"m1", "m2"}
  NoMessage = NoMessage
  Capacity = 3
  Files <- MCFiles
  MaxStarts = 3
  UpStatuses = {"healthy", "down"}
  UpUnknown = UpUnknown
  UpWindow = 2
  UpBuckets = 2
  UpRetention = 2
  MaxUpSeconds = 4
  MaxTransitions = 4
  ChartWidth = 2
  ChartBuckets = 2
  ProbeInterval = 1
  RoundLength = 1
  Latencies = {1, 3}
  MaxSamples = 3
  MaxChartSeconds = 6
  EventTunnels = {"t1", "t2"}
  Appenders = {"poll", "probes"}
  Pollers = {"poll"}
  NoTime = NoTime
  ListLimit = 3
  TunnelLimit = 2
  DefaultLimit = 2
  MaxLimit = 4
  EventRetention = 0
  MaxEventClock = 1
  MaxEvents = 4
INVARIANTS
  DaemonTypeOK
  InventorySettles
  SteadyAppsStayStored
  ProbeEventsReplay
  TokenFollowsInventory
  TimeoutsAreMeasured
  CoverageViewsAgree
  HiddenIsListed
  NoFalseGapOnceAudited
  AnnouncedOnce
  StoredWasAnnounced
  OriginsAddUp
  SummaryAccountsForLog
  PermissionsAreCurrent
  OpenHasSchema
  UptimeIsTrue
  HeartbeatsHideNothing
  QualityAddsUp
  CurveHidesNothing
  EventsInOrder
PROPERTIES
  RingIsRecentLog
CHECK_DEADLOCK FALSE
