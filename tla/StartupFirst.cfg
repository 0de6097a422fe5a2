CONSTANTS
    p1 = p1
    p2 = p2
    s1 = s1
    dflt = dflt
    Processes <- OneProcess
    BitCounts = {8}
    Versions = {1}
    Settings <- TwoSettings
    Default = dflt
    NoSettings = NoSettings
    Absent = Absent
    Empty = Empty
    MaxMishaps = 0
SPECIFICATION Spec
CHECK_DEADLOCK FALSE
INVARIANTS
    OpensOrCreates
