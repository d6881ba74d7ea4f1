SPECIFICATION Spec
CONSTANTS
  u1 = u1
  Users = {u1}
  s1 = s1
  s2 = s2
  SessionIds = {s1, s2}
  p1 = p1
  p2 = p2
  Requests = {p1, p2}
  Workload = {"reset", "block"}
  Nobody = Nobody
  NoSession = NoSession
  MaxActive = 1
  Lifetime = 1
  Retention = 0
  MaxTime = 0
  MaxGeneration = 0
  MaxCredential = 1
SYMMETRY Symmetry
CHECK_DEADLOCK FALSE
PROPERTIES
  RecoveryRefusesBlocked
