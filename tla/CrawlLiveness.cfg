CONSTANTS
    w1 = w1
    w2 = w2
    a = a
    b = b
    c = c
    d = d
    Callers <- MCCallers
    Fingerprints <- MCPages
    Priorities <- MCPriorities
    Links <- MCLinks
    StartPages <- MCStartPages
    ExemptStarts = {b}
    ExemptLinks = {d}
    Extras = {d}
    Callbacks <- MCMethods
    SpiderMethods = {"parse", "parse_item"}
    Unpicklable = {}
    Rejected = {c}
    MaxRuns = 2
    MaxKeepAlive = 1
    MaxFaults = 1
    Faults = {"crash", "raise"}
    ImportedRows = {}
    Requests = {}
    Concurrency = 2
    PendingLimit = 1
    Persistent = TRUE
    MaxRequests = 0
    MemoryOrder = "lifo"
    DiskOrder = "lifo"
    StartMemoryOrder = "none"
    StartDiskOrder = "none"
SPECIFICATION FairCrawlSpec
PROPERTIES
    JobsEnd
