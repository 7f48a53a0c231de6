CONSTANTS
    w1 = w1
    w2 = w2
    a = a
    b = b
    c = c
    d = d
    Callers <- MCCallers
    Fingerprints <- MCPages
    Priorities <- MCPriorities
    Links <- MCLinks
    StartPages <- MCStartPages
    ExemptStarts = {a}
    ExemptLinks = {}
    Extras = {}
    Callbacks <- MCLambdas
    SpiderMethods = {"parse", "parse_item"}
    Unpicklable = {}
    Rejected = {}
    MaxRuns = 2
    MaxKeepAlive = 1
    MaxFaults = 2
    Faults = {"crash", "close", "retry", "give_up", "raise", "store", "unreadable"}
    ImportedRows = {}
    Requests = {}
    Concurrency = 2
    PendingLimit = 1
    Persistent = TRUE
    MaxRequests = 0
    MemoryOrder = "lifo"
    DiskOrder = "lifo"
    StartMemoryOrder = "none"
    StartDiskOrder = "none"
SPECIFICATION CrawlSpec
SYMMETRY MCSymmetry
INVARIANTS
    NothingIsLost
    FinishedIsExhausted
    StartBacklogBounded
PROPERTY ImplementsJob
