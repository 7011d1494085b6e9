SPECIFICATION FairSendSpec
CONSTANTS
    r1 = r1
    t1 = t1
    parse = parse
    lookup = lookup
    explore = explore
    Requests <- MCRequests
    Threads <- MCThreads
    Steps <- MCSteps
    Events <- MCEvents
    ExemptEvents <- MCExempt
    Summary <- MCSummary
    Unit = 4
    Rate = 2
    Burst = 5
    Interval = 1
    SampleLimit = 1
    SdkRaises = TRUE
    MaxClock = 2
    MaxCaptures = 4
INVARIANTS
    ReportsTileDrops
    ReportSamplesItsDrops
    ReportsOnTime
    EveryDropAccounted
    SurvivorsComeFirst
    SummaryAccounted
PROPERTIES
    ImplementsBudget
    DropsEventuallyReported
    ShutdownDeliversTail
