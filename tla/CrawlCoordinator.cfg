CONSTANTS
    w1 = w1
    w2 = w2
    f1 = f1
    f2 = f2
    Callers <- MCCallers
    Fingerprints <- MCFingerprints
    Priorities <- MCPriorities
    ImportedRows <- MCImportedRows
    Requests <- MCRequests
    Concurrency = 2
    PendingLimit = 1
    Persistent = TRUE
    MaxRequests = 3
    MemoryOrder = "lifo"
    DiskOrder = "fifo"
    StartMemoryOrder = "none"
    StartDiskOrder = "fifo"
SPECIFICATION Spec
SYMMETRY MCSymmetry
INVARIANTS
    TypeOK
    OneHome
    MemoryMirrorsStore
    NoDuplicateWork
    NoMissedWakeup
    ActiveWithinLimit
PROPERTY PopsInOrder
