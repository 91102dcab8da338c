CONSTANTS
    Names = {"a", "b"}
    Namespaces = {"n"}
    None = None
    MaxInFlight = 2
    MaxLag = 1
    Stories <- MCStories
SPECIFICATION FairSpec
INVARIANTS
    TypeOK
    SettledOwned
    UniqueClaims
PROPERTIES
    NoTakeOver
    EventuallyOwned
CHECK_DEADLOCK FALSE
