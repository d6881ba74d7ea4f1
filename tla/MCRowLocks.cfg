SPECIFICATION FairSpec
CONSTANTS
  t1 = t1
  t2 = t2
  t3 = t3
  Transactions = {t1, t2, t3}
  u1 = u1
  Admin = Admin
  Users = {u1, Admin}
  s1 = s1
  s2 = s2
  SessionIds = {s1, s2}
  Owner <- OneOwner
  PoolSize = 2
  MaxOutages = 1
  Kinds <- KindsInFlight
  Nobody = Nobody
CHECK_DEADLOCK FALSE
INVARIANTS
  TypeOK
  OrderedNeverDeadlock
PROPERTIES
  TransactionsEnd
