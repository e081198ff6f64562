CONSTANTS
    Clients = {c1}
    ErrorCodes = {1}
    Commands = {0}
    NONE = NONE
    CORRUPT = CORRUPT
    Ranges <- MCRanges
    Wuids <- MCWuids
    Paths <- MCPaths
    qmax = 2
    maxwu = 1
    maxresubmit = 2
    maxwuerror = 2
    maxtimedout = 1
    maxfailed = 1
    RelsWanted = 2
    MaxRestarts = 1
    MaxRequests = 1
    Outputs = {2, CORRUPT}
    Targets = {4}
    Answers <- AnyAnswers
SPECIFICATION FairSpec
INVARIANTS check AtMostOneLive RangeCountedOnce OutstandingExact RelsExact NoRangeLost
PROPERTIES ResultIsFinal NoRevival RunEnds
CHECK_DEADLOCK FALSE
