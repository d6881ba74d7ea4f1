SPECIFICATION Spec
CONSTANTS
  Requests = {1, 2}
  Kinds = {"login", "verification"}
  Ips = {"i1"}
  Emails = {"e1"}
  Sessions = {"s1"}
  Limit <- Limits
  Window <- Windows
  Busy = {"ip"}
  Second = 3
  MaxTime = 6
  MaxOutages = 0
  Ping = Ping
INVARIANTS
  RetryAfterIsEnough
