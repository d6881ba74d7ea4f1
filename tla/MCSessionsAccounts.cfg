SPECIFICATION Spec
CONSTANTS
  u1 = u1
  Users = {u1}
  s1 = s1
  s2 = s2
  s3 = s3
  SessionIds = {s1, s2, s3}
  p1 = p1
  p2 = p2
  Requests = {p1, p2}
  Workload = {"login", "reset", "block", "delete", "passwordChange", "emailChange", "refresh"}
  Nobody = Nobody
  NoSession = NoSession
  MaxActive = 2
  Lifetime = 1
  Retention = 0
  MaxTime = 0
  MaxGeneration = 1
  MaxCredential = 1
SYMMETRY Symmetry
CHECK_DEADLOCK FALSE
INVARIANTS
  LockInv
  NoOrphans
PROPERTIES
  BlockRevokesAll
  ChangeRevokesOthers
  ImplementsLedger
