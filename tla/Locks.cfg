CONSTANTS
    t1 = t1
    t2 = t2
    t3 = t3
    i1 = i1
    i2 = i2
    i3 = i3
    Threads <- ThreeThreads
    Instances <- ThreeInstances
    Access = Access
    Nothing = Nothing
    Rank <- OneByOne
    MaxRank = 2
    MaxDepth = 3
SPECIFICATION Spec
CHECK_DEADLOCK FALSE
INVARIANTS
    TypeOK
    NoCircle
