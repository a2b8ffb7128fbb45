SPECIFICATION Spec
CONSTANTS
  Workers = {w1}
  Subjects = {s1}
  Kinds = {"tunnel_status"}
  States = {"good", "bad"}
  MinSeverity = 2
  Cooldown = 1
  MaxMishaps = 0
  MaxClock = 1
INVARIANT RecoveryGetsThrough
