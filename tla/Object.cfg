SPECIFICATION Spec
CONSTANTS
    Entries = {e1, e2, e3}
    WasAddedCalls = {"show", "hide", "add"}
    BeingRemovedCalls = {"hide"}
    MaxDepth = 6
CHECK_DEADLOCK FALSE
INVARIANTS
    TypeOK
    PanelInSync
    ShownHasParent
    DisposedIsCleanable
