SPECIFICATION Spec
CONSTANTS
  a1 = a1
  Subjects = {a1}
  c1 = c1
  c2 = c2
  Codes = {c1, c2}
  r1 = r1
  Issues = {r1}
  p1 = p1
  p2 = p2
  Confirms = {p1, p2}
  Flows = {"registration", "reset", "emailChange", "currentReset", "passwordChange"}
  Nobody = Nobody
  MaxAttempts = 1
SYMMETRY Symmetry
INVARIANTS
  TypeOK
  AttemptsAreLimited
PROPERTIES
  CodeIsSpentOnce
