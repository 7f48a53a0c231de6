CONSTANTS
    c1 = c1
    c2 = c2
    Nobody = Nobody
    Elsewhere = Elsewhere
    Crawlers = {c1}
    Configured <- MCConfigured
    Requirements <- MCRequirements
    Connected <- MCConnected
    HandlersBase <- MCHandlersBase
    HandlersCustom <- MCHandlersCustom
    Disabled = "None"
    LazyHandlers = {"S3DownloadHandler"}
    Unbuildable = {"ProjectHandler"}
    PageLimit = 0
    ItemLimit = 0
    ErrorLimit = 0
    BarrenLimit = 2
    Persistent = {c1}
    Given = {}
    MaxFaults = 2
    MaxRepeats = 1
SPECIFICATION Spec
INVARIANTS
    TeardownIsWhole
PROPERTIES
    StopIsHonoured
    KillEnds
CHECK_DEADLOCK FALSE
