CONSTANTS
    Files = {f1, f2}
    Loads = {l1, l2, l3}
    NULL = NULL
    MaxDepth = 3
SPECIFICATION FairSpec
CHECK_DEADLOCK FALSE
INVARIANTS
    TypeOK
    CodeIsMapped
    SecondLoadWorks
PROPERTY EventuallyUnmapped
