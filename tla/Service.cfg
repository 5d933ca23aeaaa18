CONSTANTS
    m1 = m1
    m2 = m2
    n1 = n1
    n2 = n2
    Managers <- MCManagers
    Names <- MCNames
    Sender <- OneProcessEach
    MaxCalls = 3
SPECIFICATION FairSpec
CHECK_DEADLOCK FALSE
INVARIANTS
    TypeOK
    ArmedOnlyUnwatched
    UnwatchedIsTimed
PROPERTIES
    TimedOutAlone
    ImplementsLifetime
    DeadAreDropped
    NameOrShutdown
    LonelyServiceStops
