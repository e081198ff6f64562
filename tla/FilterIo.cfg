SPECIFICATION FairSpec
CONSTANTS
    a1 = a1
    a2 = a2
    b1 = b1
    b2 = b2
    Levels = 2
    Workers = {a1, a2, b1, b2}
    LevelOf <- MCLevelOf
    Owner = Owner
    Size = 4
    NRels = 7
    Active = {0, 2, 3, 4, 5, 6}
    SizeMax = 99
    NoSlot = NoSlot
INVARIANTS
    PipelineOrder
    OnceAndInOrder
    IndexRecovered
    ClosedMeansHandled
PROPERTIES
    FilterEnds
