SPECIFICATION Spec
CONSTANTS
    Threads = {t1, t2, t3}
    Script <- MCScript
    idx_max = 3
    MaxJobs = 3
    NONE = NONE
INVARIANTS
    CountersExact
    LeaderAlone
    NoMatchLost
CHECK_DEADLOCK FALSE
