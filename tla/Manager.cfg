CONSTANTS
    LittleWhile = 1
    MaxShift = 2
    MaxSubs = 2
    MaxFaults = 2
SPECIFICATION FairSpec
CHECK_DEADLOCK FALSE
INVARIANTS
    TypeOK
    QuiescentIsConnected
    LossIsNoticed
PROPERTY
    EventuallyConnected
