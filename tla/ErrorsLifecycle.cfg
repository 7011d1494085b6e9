SPECIFICATION Spec
CONSTANTS
    i1 = i1
    g1 = g1
    c1 = c1
    c2 = c2
    a = a
    b = b
    unset = unset
    Inits = {i1}
    Getters = {g1}
    Closers <- MCClosers
    Configs <- MCConfigs
    Unset = unset
    MaxClients = 3
    MaxFailures = 1
    MaxResets = 2
    MaxBlocks = 2
CHECK_DEADLOCK FALSE
SYMMETRY MCSymmetry
INVARIANTS
    ExitHookFirst
    OneOpenClient
    WiredOnce
    IsolationHolds
