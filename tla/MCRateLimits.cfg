SPECIFICATION FairSpec
CONSTANTS
  Requests = {1, 2}
  Kinds = {"login", "verification", "api", "account", "ready"}
  Ips = {"i1"}
  Emails = {"e1"}
  Sessions = {"s1"}
  Limit <- Limits
  Window <- Windows
  Busy = {"ip"}
  Second = 1
  MaxTime = 1
  MaxOutages = 1
  Ping = Ping
INVARIANTS
  TypeOK
  LimitsHold
  ComparedWereCounted
  FailuresAreCounted
PROPERTIES
  RequestsAreAnswered
