SPECIFICATION Spec
CONSTANTS
    g1 = g1
    g2 = g2
    f1 = f1
    f2 = f2
    c1 = c1
    c2 = c2
    p = p
    q = q
    Getters <- OneGetter
    Flushers <- TwoFlushers
    Closers <- OneCloser
    Prefixes <- OnePrefix
    MaxClients = 3
    Numbers <- OneNumber
    Unit = 4
    DefaultRate = 8
    DefaultBurst = 12
INVARIANT FlushIsSafe
