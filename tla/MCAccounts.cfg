SPECIFICATION Spec
CONSTANTS
  r1 = r1
  r2 = r2
  r3 = r3
  Requests = {r1, r2, r3}
  u1 = u1
  u2 = u2
  u3 = u3
  Admin = Admin
  Users = {u1, u2, u3, Admin}
  e1 = e1
  e2 = e2
  e3 = e3
  eA = eA
  Emails = {e1, e2, e3, eA}
  n1 = n1
  n2 = n2
  nA = nA
  Nicknames = {n1, n2, nA}
  p1 = p1
  p2 = p2
  Passwords = {p1, p2}
  Unborn = Unborn
  Gone = Gone
  Nobody = Nobody
  FirstRows <- TwoAccounts
  Asked <- AnyOperation
SYMMETRY AnyOrder
CHECK_DEADLOCK FALSE
INVARIANTS
  TypeOK
  AccountsAreDistinct
  AnswersTellWhatHappened
  RefusedKeepTheirCode
  OutdatedWasLate
PROPERTIES
  ProvenAtCommit
