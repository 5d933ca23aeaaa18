CONSTANTS
    MENU_SECTIONS = 4
    Popups = {p1}
    Sections = {s1, s2}
    Actions = {a1, a2}
    Tips = {t1, t2}
    NoPopup = NoPopup
    NULL = NULL
    Walks <- MCWalks
    MaxItems = 1
SPECIFICATION MCSpec
CHECK_DEADLOCK FALSE
SYMMETRY MCSymmetry
CONSTRAINT MCApart
INVARIANTS
    TypeOK
    TooltipFollows
    SubmenuNotLeftOn
    ReferencesBalanced
    OpenedIsReplaced
    ItemsFindTheirWidgets
