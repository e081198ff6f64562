CONSTANTS
    Clients = {c1, c2}
    ErrorCodes = {1}
    Commands = {0}
    NONE = NONE
    Ranges = {q1, q2}
    Wuids <- MCWuids
    Paths <- MCPaths
    maxresubmit = 2
    nrsubdir = 2
    MaxFaults = 1
    MaxTimeouts = 1
SPECIFICATION Spec
INVARIANTS NoPathClash AcknowledgedIsSettled NoResultDropped
SYMMETRY MCSymmetry
CHECK_DEADLOCK FALSE
