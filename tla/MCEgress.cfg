CONSTANTS
  n1 = n1
  q1 = q1
  a1 = a1
  a2 = a2
  c1 = c1
  Queries = {q1, q2}
  Names = {n1}
  Addrs = {a1, a2}
  Asks <- MCAsks
  MaxGrants = 2
  MaxTTL = 2
  SecTicks = 2
  MaxTime = 3
  Calls = {c1, c2}
  NoCall = NoCall
  MaxWorkers = 2
  GrantSlots = 2
  RingSize = 1
  FlushTries = 2
  MaxFaults = 1
  DeniedAddrs = {d1}
  AllowedAddrs = {e1}
  Protected = {}
  DenyAllOthers = TRUE
SPECIFICATION MCSpec
INVARIANTS
  ConnectsAuthorised
  SuccessRecorded
  EndIsQuiet
  GrantAllowSound
  DenyAccounted
PROPERTIES
  CallsSettle
  RewritesLand
CHECK_DEADLOCK FALSE
