SPECIFICATION Spec
CONSTANTS
    g1 = g1
    g2 = g2
    f1 = f1
    f2 = f2
    c1 = c1
    c2 = c2
    p = p
    q = q
    Getters <- TwoGetters
    Flushers <- OneFlusher
    Closers <- TwoClosers
    Prefixes <- TwoPrefixes
    MaxClients = 3
    Numbers <- MCNumbers
    Unit = 4
    DefaultRate = 8
    DefaultBurst = 12
INVARIANTS
    OneOpenClient
    LimitUsable
PROPERTY ImplementsSlot
