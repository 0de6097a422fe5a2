CONSTANTS
    p1 = p1
    p2 = p2
    s1 = s1
    dflt = dflt
    Processes <- TwoProcesses
    BitCounts = {4, 8}
    Versions = {1, 2}
    Settings <- TwoSettings
    Default = dflt
    NoSettings = NoSettings
    Absent = Absent
    Empty = Empty
    MaxMishaps = 2
SPECIFICATION FairSpec
CHECK_DEADLOCK FALSE
INVARIANTS
    TypeOK
    OpenedOnOwnTerms
PROPERTIES
    FailureExplained
    WholeStaysWhole
    AllOpenInTheEnd
