SPECIFICATION FairSpec
CONSTANTS
    c1 = c1
    c2 = c2
    c3 = c3
    Checks <- MCChecks
    Required <- MCRequired
    Timeout = 2
    Ways <- MCWays
    MaxClock = 4
INVARIANTS AnswerAgrees OkWasSaid AnsweredInTime
PROPERTY AnswerComes
CHECK_DEADLOCK FALSE
