SPECIFICATION Spec
CONSTANTS
    k1 = k1
    k2 = k2
    k3 = k3
    k4 = k4
    Keys <- MCKeys
    Unit = 2
    Rate = 1
    Burst = 5
    Window = 2
    MaxTracked = 3
    LogInterval = 2
    MaxClock = 5
    MaxRecords = 6
SYMMETRY MCSymmetry
CHECK_DEADLOCK FALSE
INVARIANTS
    NoEarlyEviction
    DedupeExact
    AdmissionBound
    LogsTileDrops
PROPERTY DropsJustified
