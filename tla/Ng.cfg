CONSTANTS
    MaxChanges = 5
SPECIFICATION FairSpec
CHECK_DEADLOCK FALSE
INVARIANTS
    TypeOK
    AppearedFindsNothing
    SettledShowsHeader
    VisibleIsServed
PROPERTY
    EventuallyShown
