SPECIFICATION Spec
CONSTANTS
    Threads = {t1, t2, t3}
    Script <- MCScript
    idx_max = 2
    MaxJobs = 2
    NONE = NONE
INVARIANTS
    OneLeader
CHECK_DEADLOCK FALSE
