CONSTANTS
  Producers = {p1, p2}
  Records = {a, b}
  Big = {b}
  High = {b}
  Marker = Marker
  FailClosed = TRUE
  EveryEvent = FALSE
  Capacity = 1
  Budget = 2
  Threshold = 2
  MaxReopens = 1
  Faulty = {"sync", "open"}
SPECIFICATION FairSpec
INVARIANTS
  CommittedDurable
  ShutdownComplete
  NoSilentLoss
  RotationSplits
PROPERTIES
  RecordsSettle
  CallersReturn
CHECK_DEADLOCK FALSE
