SPECIFICATION Spec
CONSTANTS
    t1 = t1
    t2 = t2
    t3 = t3
    Threads = {t1, t2, t3}
    Owner = t1
    Root = t2
    Leader = t1
    MPI = MPI
    NONE = NONE
    Calls <- MCCalls
    MaxRounds <- MCMaxRounds
INVARIANTS
    BarrierExact
    DestroySafe
    CollectiveExact
PROPERTIES
    BarrierImplementsAbstract
    CallsEnd
CHECK_DEADLOCK FALSE
