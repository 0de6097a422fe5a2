CONSTANTS
    t1 = t1
    t2 = t2
    t3 = t3
    a1 = a1
    a2 = a2
    a3 = a3
    Threads <- ThreeThreads
    Ticker = Ticker
    Nobody = Nobody
    Addresses <- ThreeAddresses
    Null = Null
    Absent = Absent
    Damaged = Damaged
    Earlier = Earlier
    MaxNesting = 2
    MaxStamp = 1
    TryToAllocateCount = 2
    PageSize = 1
    DiskSize = 2
    Faults <- AllFaults
    WorkerEnabled = TRUE
SYMMETRY Alike
SPECIFICATION Spec
INVARIANTS
    LockDiscipline
    MutualExclusion
    SegmentCovered
    BusyMeansHeld
PROPERTIES
    RequestServed
    OnlyOwnerChanges
    CallsWindDown
    ImplementsLocks
    StaleOnlyByInner
