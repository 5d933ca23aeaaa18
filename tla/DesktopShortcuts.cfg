SPECIFICATION Spec
CONSTANTS
    NoKey = NoKey
    NULL = NULL
    bob = bob
    alvin = alvin
    France = France
    Germany = Germany
    Nicks <- MCNicks
    Identities <- MCIdentities
    Files <- MCFiles
INVARIANTS
    TypeOK
    NicksAreFiltered
    ListedIsAccepted
    HiddenIsRefused
