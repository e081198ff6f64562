SPECIFICATION FairSpec
CONSTANTS
    Subjobs = {s1}
    r2 = r2
    r1 = r1
    r0 = r0
    q0 = q0
    Rels = {r1, r0}
    NoRel = NoRel
    Outstanding <- MCOutstanding
    TimeLeft <- MCTimeLeft
    Infinity = 2
    Inputs <- MCOneRetry
    MaxDepth = 2
PROPERTIES
    AnotherRelation
