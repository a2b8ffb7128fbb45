SPECIFICATION Spec
CONSTANTS
  Workers = {w1, w2}
  Subjects = {s1}
  Kinds = {"tunnel_status", "config_changed"}
  States = {"good", "bad"}
  MinSeverity = 2
  Cooldown = 1
  MaxMishaps = 1
  MaxClock = 2
INVARIANTS
  CooldownHolds
  NothingUrgentIsSilent
SYMMETRY Symmetry
