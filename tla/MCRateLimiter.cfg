SPECIFICATION Spec
CONSTANTS
    Threads = {t1, t2}
    Keys = {k1, k2}
    MaxRequests = 2
    Window = 3
    MaxTrackedKeys = 1
    MaxTime = 6
    MaxStall = 1
    None = None
SYMMETRY Symmetry
INVARIANTS
    TypeOK
PROPERTIES
    CapGrowsOnlyWhenLive
    RetryIsOldest
    KeepsItsContract
