CONSTANTS
    Batch = 3
    Factor = 2
    RowsPerPage = 2
    DiskPages = 8
    TryToAllocateCount = 2
    MaxDeaths = 2
SPECIFICATION FairSpec
INVARIANTS
    TypeOK
    NoGaps
PROPERTIES
    DiskFills
