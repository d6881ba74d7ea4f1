SPECIFICATION Spec
CONSTANTS
  a1 = a1
  Subjects = {a1}
  c1 = c1
  c2 = c2
  Codes = {c1, c2}
  r1 = r1
  r2 = r2
  Issues = {r1, r2}
  p1 = p1
  Confirms = {p1}
  Flows = {"reset", "emailChange", "currentReset", "passwordChange"}
  Nobody = Nobody
  MaxAttempts = 1
SYMMETRY Symmetry
INVARIANT
  CodesInv
PROPERTIES
  FailedIsNeverSpent
  LatestIsSpent
  FailureSparesOthers
  CooldownHolds
