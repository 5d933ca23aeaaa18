CONSTANTS
    LittleWhile = 5
    MaxShift = 16
    MaxSubs = 2
    MaxFaults = 1
SPECIFICATION Spec
CHECK_DEADLOCK FALSE
PROPERTY WatchesThroughProxy
