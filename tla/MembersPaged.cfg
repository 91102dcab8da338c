CONSTANTS
    Users = {"u", "v", "x"}
    None = None
    Specs <- MCThree
    PageSize = 2
    Budget <- Calm
SPECIFICATION Spec
INVARIANT
    SettledMembers
