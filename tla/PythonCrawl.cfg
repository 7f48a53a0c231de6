CONSTANTS
    a = a
    b = b
    c = c
    d = d
    e = e
    nowhere = nowhere
    Fingerprints <- MCPages
    Web <- MCWeb
    Regions <- MCRegions
    Html = {a, b, c}
    Rules <- MCRules
    FollowLinks = TRUE
    DepthLimit = 1
    DepthPriority = 1
    LongUrls = {"archive"}
    StartUrls <- MCStartUrls
    Extras = {d}
    Rejected = {e}
    Concurrency = 2
    MaxKeepAlive = 1
    Faults = {"close", "cancel", "retry", "give_up", "raise"}
    MaxFaults = 1
    MemoryOrder = "lifo"
    DiskOrder = "lifo"
    StartMemoryOrder = "fifo"
    StartDiskOrder = "none"
SPECIFICATION FairSpec
INVARIANTS
    WantedWorkIsStarted
PROPERTIES
    ImplementsJob
    CrawlEnds
