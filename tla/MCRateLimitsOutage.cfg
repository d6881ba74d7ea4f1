SPECIFICATION OutageSpec
CONSTANTS
  Requests = {1}
  Kinds = {"api", "ready"}
  Ips = {"i1"}
  Emails = {"e1"}
  Sessions = {"s1"}
  Limit <- Limits
  Window <- Windows
  Busy = {}
  Second = 1
  MaxTime = 1
  MaxOutages = 1
  Ping = Ping
PROPERTIES
  OutagesAreSurvived
