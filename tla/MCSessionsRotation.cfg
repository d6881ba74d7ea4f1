SPECIFICATION Spec
CONSTANTS
  u1 = u1
  u2 = u2
  Users = {u1, u2}
  s1 = s1
  s2 = s2
  SessionIds = {s1, s2}
  p1 = p1
  p2 = p2
  Requests = {p1, p2}
  Workload = {"login", "refresh", "revokeAll"}
  Nobody = Nobody
  NoSession = NoSession
  MaxActive = 1
  Lifetime = 1
  Retention = 0
  MaxTime = 1
  MaxGeneration = 2
  MaxCredential = 0
SYMMETRY Symmetry
CHECK_DEADLOCK FALSE
INVARIANTS
  TypeOK
  ActiveLimitButRevived
PROPERTIES
  RefreshAtMostOnce
  RevocationIsFinal
  ReasonIsKept
  ImplementsLedger
