CONSTANTS
    t1 = t1
    t2 = t2
    t3 = t3
    a1 = a1
    a2 = a2
    a3 = a3
    Threads <- TwoThreads
    Ticker = Ticker
    Nobody = Nobody
    Addresses <- TwoAddresses
    Null = Null
    Absent = Absent
    Damaged = Damaged
    Earlier = Earlier
    MaxNesting = 1
    MaxStamp = 1
    TryToAllocateCount = 3
    PageSize = 1
    DiskSize = 1
    Faults <- NoFaults
    WorkerEnabled = FALSE
SPECIFICATION Spec
INVARIANTS
    ExhaustionReported
