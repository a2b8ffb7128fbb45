SPECIFICATION ClientSpec
CONSTANTS
  Callers = {c1, c2}
  Quotas = {"rest", "graphql"}
  Capacity <- MCCapacity
  Reserve <- MCReserve
  MaxAttempts = 2
  Window = 2
  MaxMishaps = 1
  MaxOthers = 1
  MaxClock = 1
  Items = {1, 2, 3, 4}
  PerPage = 2
  MaxPages = 4
  CountsGiven = {TRUE, FALSE}
  MaxShifts = 2
INVARIANTS
  ReserveHolds
  BlockIsRespected
  WalkReturnsSteady
SYMMETRY Symmetry
