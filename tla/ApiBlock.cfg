SPECIFICATION BudgetSpec
CONSTANTS
  Callers = {c1, c2}
  Quotas = {"graphql"}
  Capacity <- MCCapacity
  Reserve <- MCReserve
  MaxAttempts = 2
  Window = 3
  MaxMishaps = 0
  MaxOthers = 1
  MaxClock = 2
  Items = {}
  PerPage = 2
  MaxPages = 4
  CountsGiven = {FALSE}
  MaxShifts = 0
PROPERTY BlockHolds
SYMMETRY Symmetry
