SPECIFICATION Spec
CONSTANTS
  u1 = u1
  Users = {u1}
  s1 = s1
  s2 = s2
  s3 = s3
  SessionIds = {s1, s2, s3}
  p1 = p1
  p2 = p2
  Requests = {p1, p2}
  Workload = {"login", "refresh"}
  Nobody = Nobody
  NoSession = NoSession
  MaxActive = 1
  Lifetime = 1
  Retention = 0
  MaxTime = 2
  MaxGeneration = 1
  MaxCredential = 0
SYMMETRY Symmetry
CHECK_DEADLOCK FALSE
INVARIANTS
  ActiveLimit
