CONSTANTS
    Workspaces = {"a", "b"}
    Projects = {"p"}
    Hosts = {"h", "k"}
    Registry <- MCRegistry
    None = None
    Incomplete = Incomplete
    Initial <- MCInitial
    Budget <- MCChanges
SPECIFICATION ResyncSpec
INVARIANTS
    TypeOK
    SettledCurrent
PROPERTY
    EventuallyCurrent
CHECK_DEADLOCK FALSE
