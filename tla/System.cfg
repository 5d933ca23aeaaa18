CONSTANTS
    LittleWhile = 1
    MaxShift = 1
    MaxSubs = 2
    MaxFaults = 1
    MaxCalls = 6
    MaxSetbacks = 1
    m = m
    n = n
    Environments <- MCEnvironments
SPECIFICATION FairSpec
CHECK_DEADLOCK FALSE
INVARIANTS
    CountedIsWatched
    RestIsLasting
PROPERTIES
    EventuallyServed
    PartedIsStopped
