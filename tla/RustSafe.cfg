CONSTANTS
    Clients = {c1, c2}
    ErrorCodes = {1}
    Commands = {0}
    NONE = NONE
    CORRUPT = CORRUPT
    Ranges <- MCRanges
    Wuids <- MCWuids
    Paths <- MCPaths
    qmax = 2
    maxwu = 1
    maxresubmit = 2
    maxwuerror = 2
    maxtimedout = 1
    maxfailed = 1
    RelsWanted = 3
    MaxRestarts = 0
    MaxRequests = 0
    Answers <- MCAnswers
    MaxEvents = 1
    Outputs = {2, CORRUPT}
    Targets = {5}
SPECIFICATION RustSpec
INVARIANTS HandedOutOnce RangeCountedOnce
SYMMETRY MCSymmetry
CHECK_DEADLOCK FALSE
