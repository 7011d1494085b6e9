SPECIFICATION GatedSpec
CONSTANTS
    r1 = r1
    r2 = r2
    t1 = t1
    e1 = e1
    e2 = e2
    valueError = valueError
    bad = bad
    worse = worse
    LeftOut = LeftOut
    Carriers <- MCCarriers
    Requests <- MCRequests
    Main = {}
    Failures <- MCFailures
    Carries <- MCCarries
    Interrupts = {}
    Exits = {}
    Unmarkable = {e2}
    Types <- MCTypes
    Messages = {bad, worse}
    Details <- MCDetails
    MaxCodeReports <- MCCodeReports
    MaxNesting = 2
    MaxNoise = 2
    Unit = 2
    Rate = 1
    Burst = 3
    Window = 1
    MaxTracked = 4
    LogInterval = 9
    MaxClock = 1
    MaxRecords = 20
CHECK_DEADLOCK FALSE
INVARIANT NoneReportedInFlight
