CONSTANTS
    Users = {"u", "v"}
    None = None
    Specs <- MCSpecs
    PageSize = 2
    Budget <- MCFaults
SPECIFICATION ResyncSpec
INVARIANTS
    TypeOK
    SettledMembers
PROPERTY
    ReachesGoal
