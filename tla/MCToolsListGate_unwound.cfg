CONSTANTS
    c1 = c1
    c2 = c2
    i1 = i1
    i2 = i2
    t1 = t1
    None = None
    ClientIds = {c1, c2}
    InternalIds = {i1, i2}
    Tools = {t1}
    Allowed = {t1}
    Pinned = TRUE
    FailOn = FALSE
    DryRun = FALSE
    MaxPages = 2
    MaxPending = 2
    MaxListChanged = 1
SPECIFICATION Spec
SYMMETRY Symmetry
INVARIANTS
    RevalidationBehindGate
