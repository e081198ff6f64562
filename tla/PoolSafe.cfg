SPECIFICATION FairSpec
CONSTANTS
    Workers = {w1, w2}
    NTasks <- MCNTasks
    NSq = 2
    MaxThrows = 2
    MaxDetached = 2
INVARIANTS
    TasksAccounted
    ExceptionsInTime
    KilledWhenIdle
PROPERTIES
    PoolEnds
