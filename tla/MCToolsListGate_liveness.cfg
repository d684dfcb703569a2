CONSTANTS
    c1 = c1
    i1 = i1
    None = None
    ClientIds = {c1}
    InternalIds = {i1}
    Tools = {t1}
    Allowed = {t1}
    Pinned = TRUE
    FailOn = FALSE
    DryRun = TRUE
    MaxPages = 1
    MaxPending = 1
    MaxListChanged = 2
SPECIFICATION FairSpec
INVARIANTS
    FreshNotification
PROPERTIES
    HeldSettles
    GateSettles
