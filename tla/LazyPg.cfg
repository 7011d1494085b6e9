SPECIFICATION FairPgSpec
CONSTANTS
    c1 = c1
    c2 = c2
    Callers <- MCCallers
    MaxDrops = 2
    MaxOutages = 1
INVARIANTS OneSession LossFoundOnce
PROPERTY Recovers
