CONSTANTS
    Order <- MCOrder
    Observed = {"helm"}
    Absent = "none"
    Wants <- MCWants
    Labels = {TRUE, FALSE}
    Deployments = {TRUE}
    MaxLag = 0
    Budget <- MCBusy
SPECIFICATION FairSpec
INVARIANTS
    TypeOK
    SettledReconciled
    SettledTruthful
    ReadyMeansDone
PROPERTIES
    EventuallyTruthful
CHECK_DEADLOCK FALSE
