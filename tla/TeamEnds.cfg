SPECIFICATION Spec
CONSTANTS
    Threads = {t1, t2, t3}
    Script <- MCScript
    idx_max = 1
    MaxJobs = 1
    NONE = NONE
PROPERTIES
    TeamEnds
CHECK_DEADLOCK FALSE
