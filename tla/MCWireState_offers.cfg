CONSTANTS
  ClientIds = {i1, i2}
  InternalIds = {}
  ServerIds = {}
  Uris = {u1}
  Elicitations = {e1}
  NoLevel = NoLevel
  Levels = {l1}
  NoUri = NoUri
  MaxInFlight = 2
  MaxRetired = 1
  MaxElicit = 1
  MaxSubscribed = 1
  MaxBytes = 8
  Revisions = {"v25"}
  Pipelined = TRUE
SPECIFICATION Spec
INVARIANTS
  CommittedWereOffered
SYMMETRY Symmetry
CHECK_DEADLOCK FALSE
