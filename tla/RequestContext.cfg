SPECIFICATION ContextSpec
CONSTANTS
    s1 = s1
    s2 = s2
    c1 = c1
    Servers <- MCServers
    Children <- MCChildren
    MaxCrumbs = 2
    MaxRequests = 2
    MaxTrails = 3
    MaxAdded = 3
    MaxDepth = 2
CHECK_DEADLOCK FALSE
INVARIANTS EventsAreOfTheirRequest TrailIsLatest NothingLeftBehind
