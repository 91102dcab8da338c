CONSTANTS
    Order <- MCOrder
    Observed = {"helm"}
    Absent = "none"
    Wants <- MCWants
    Labels = {TRUE, FALSE}
    Deployments = {FALSE}
    MaxLag = 1
    Budget <- MCCrash
SPECIFICATION Spec
INVARIANTS
    SettledExplained
CHECK_DEADLOCK FALSE
