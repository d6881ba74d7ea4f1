SPECIFICATION FairSpec
CONSTANTS
  u1 = u1
  s1 = s1
  f1 = f1
  f2 = f2
  Users = {u1}
  SessionIds = {s1}
  Flushers = {f1, f2}
  Owner <- OneOwner
  Refresh = Refresh
  Nobody = Nobody
  BatchSize = 2
  Ttl = 1
  MaxTime = 2
  MaxFailures = 1
INVARIANTS
  TypeOK
  ActivityInv
PROPERTIES
  AccountFollowsSession
  TimesNeverGoBack
  OnlyRecentIsLost
  BufferDrains
