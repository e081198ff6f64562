SPECIFICATION FairSpec
CONSTANTS
    Subjobs = {s1, s2}
    r2 = r2
    r1 = r1
    r0 = r0
    q0 = q0
    Rels = {r2, r0, q0}
    NoRel = NoRel
    Outstanding <- MCOutstanding
    TimeLeft <- MCTimeLeft
    Infinity = 2
    Inputs <- MCInputs
    MaxDepth = 2
INVARIANTS
    CountersSayTree
    EveryNodeInOnePlace
    DoneMeansSplit
    NoLoop
    PendingNodesAreServed
PROPERTIES
    DescentEnds
