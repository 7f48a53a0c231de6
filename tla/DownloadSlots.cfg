CONSTANTS
    k1 = k1
    k2 = k2
    t1 = t1
    t2 = t2
    t3 = t3
    Keys <- MCKeys
    Tasks <- MCTasks
    Layouts <- MCLayouts
    Concurrency <- MCConcurrency
    Delay <- MCDelay
    Randomize <- MCRandomize
    MinDelay = 1
    MaxDelay = 2
    Latencies <- MCLatencies
    MaxIdle = 2
    Horizon = 3
    Engines <- MCEngines
SPECIFICATION Spec
INVARIANTS
    CountsMatchTasks
    NoOversleep
PROPERTIES
    ImplementsThrottle
    SlotNeverWedges
