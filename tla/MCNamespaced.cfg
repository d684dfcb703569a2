CONSTANTS
  n1 = n1
  a1 = a1
  c1 = c1
  c3 = c3
  Queries = {q1}
  Names = {n1}
  Addrs = {a1}
  Asks <- MCAsks
  MaxGrants = 2
  MaxTTL = 2
  SecTicks = 2
  MaxTime = 3
  Calls = {c1, c2, c3}
  NoCall = NoCall
  MaxWorkers = 1
  GrantSlots = 2
  RingSize = 1
  DeniedAddrs = {d1}
  AllowedAddrs = {}
  Protected = {}
  DenyAllOthers = TRUE
  Ports = 3
  MaxMappings = 2
  Deadline = 0
  ListenPool = 1
  MaxFlows = 1
  ChanCap = 1
  EventsCap = 2
  PendingCap = 2
  BufCap = 1
SPECIFICATION MCSpec
INVARIANTS
  SplicesAuthorised
  CreditExact
PROPERTIES
  ParkedResumes
CHECK_DEADLOCK FALSE
