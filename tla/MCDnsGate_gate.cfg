CONSTANTS
  n1 = n1
  n2 = n2
  a1 = a1
  a2 = a2
  a3 = a3
  a4 = a4
  a5 = a5
  Queries = {q1, q2}
  Names = {n1, n2}
  Addrs = {a1, a2, a3, a4, a5}
  Asks <- MCAsks
  Dial <- MCDial
  Replies <- MCReplies
  AllowedNames = {n1}
  DeniedNames = {n2}
  DeniedAddrs = {a5}
  Protected = {a3}
  OptIn = {}
  MaxGrants = 1
  MaxTTL = 2
  SecTicks = 2
  MaxTime = 2
  MaxInflight = 2
  NoQuery = NoQuery
SPECIFICATION FairSpec
INVARIANTS
  AnsweredExported
  GrantsJudged
  GateInv
PROPERTIES
  ImplementsLedger
  QueriesSettle
  GateStops
CHECK_DEADLOCK FALSE
