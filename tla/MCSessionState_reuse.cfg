CONSTANTS
  lister = lister
  reader = reader
  fetcher = fetcher
  Ids = {i1, i2, i3}
  Tools = {lister, reader, fetcher}
  NoTool = NoTool
  Paths = {p1}
  MaxCalls = 2
  MaxLists = 1
  MaxUnverified = 1
  MaxPaths = 1
  Reuse = "answered"
  Effect <- MCEffect
  Role <- MCRole
  Rules <- MCRules
SPECIFICATION Spec
PROPERTY
  TombstonesKept
CHECK_DEADLOCK FALSE
