CONSTANTS
    ann = ann
    bob = bob
    Users = {ann, bob}
    Privileged = {}
    Lists <- MCLists
    None = None
    MaxLag = 1
    Budgets <- MCBudgets
SPECIFICATION FairSpec
INVARIANTS
    TypeOK
    LabelsMirrorMembers
    SettledAccess
PROPERTIES
    NoEscalation
    EventuallyExact
CHECK_DEADLOCK FALSE
