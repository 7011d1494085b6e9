SPECIFICATION RequestSpec
CONSTANTS
    r1 = r1
    r2 = r2
    h1 = h1
    s1 = s1
    s2 = s2
    discogs = discogs
    groq = groq
    Requests <- MCRequests
    Helpers = {h1}
    Tasks = {r1, h1}
    Served = r1
    Steps <- MCSteps
    Services = {discogs}
    Unknown = groq
    MaxClock = 2
    MaxEntries = 2
    MaxDepth = 2
    MaxDicts = 2
    MaxRecords = 1
    MaxCalls = 1
    MaxText = 2
SYMMETRY StepSymmetry
CHECK_DEADLOCK FALSE
INVARIANTS SummaryTruthful ExactOnTheLoop HeaderReadsBack
