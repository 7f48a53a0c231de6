CONSTANTS
    w1 = w1
    w2 = w2
    a = a
    b = b
    c = c
    d = d
    Callers <- MCCallers
    Fingerprints <- MCPages
    Priorities <- MCPriorities
    Links <- MCLinks
    StartPages <- MCStartPages
    ExemptStarts = {a}
    ExemptLinks = {}
    Extras = {d}
    Callbacks <- MCMethods
    SpiderMethods = {"parse", "parse_item"}
    Unpicklable = {}
    Rejected = {}
    MaxRuns = 1
    MaxKeepAlive = 1
    MaxFaults = 0
    Faults = {}
    ImportedRows = {}
    Requests = {}
    Concurrency = 2
    PendingLimit = 1
    Persistent = TRUE
    MaxRequests = 0
    MemoryOrder = "lifo"
    DiskOrder = "lifo"
    StartMemoryOrder = "none"
    StartDiskOrder = "none"
SPECIFICATION CrawlSpec
SYMMETRY MCSymmetry
INVARIANT NoSleepOverPendingWork
