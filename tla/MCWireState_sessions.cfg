CONSTANTS
  ClientIds = {i1, i2}
  InternalIds = {n1}
  ServerIds = {s1}
  Uris = {u1, u2}
  Elicitations = {e1}
  NoLevel = NoLevel
  Levels = {l1}
  NoUri = NoUri
  MaxInFlight = 2
  MaxRetired = 1
  MaxElicit = 1
  MaxSubscribed = 1
  MaxBytes = 8
  Revisions = {"v25", "v26"}
  Pipelined = FALSE
SPECIFICATION Spec
INVARIANTS
  LedgerBalanced
  Bounded
  LateAnswersHarmless
  NoOfferAfterHandshake
  CompletedEntriesLive
PROPERTIES
  VersionSettled
SYMMETRY Symmetry
CHECK_DEADLOCK FALSE
