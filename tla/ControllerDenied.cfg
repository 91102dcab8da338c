CONSTANTS
    Order <- MCOneKind
    Observed = {"helm"}
    Absent = "none"
    Wants <- MCOneWants
    Labels = {FALSE}
    Deployments = {TRUE}
    MaxLag = 0
    Budget <- MCQuiet
SPECIFICATION FairSpec
PROPERTIES
    LabelBackfilled
CHECK_DEADLOCK FALSE
