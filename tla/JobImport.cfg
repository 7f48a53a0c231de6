\* Two processes, five requests in files of two, two deaths or failing disks, four writes of the setting.
CONSTANTS
    Processes = {p1, p2}
    Values = {"fifo", "lifo"}
    DefaultValue = "lifo"
    None = "none"
    MaxWrites = 4
    ChunkSize = 2
    MaxPushes = 5
    MaxCrashes = 2
SPECIFICATION Spec
CHECK_DEADLOCK FALSE
INVARIANTS
    HighestPriorityWins
    QueuesAreRead
    ImportedOnce
