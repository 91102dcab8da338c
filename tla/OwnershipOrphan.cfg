CONSTANTS
    Names = {"a"}
    Namespaces = {"n"}
    None = None
    MaxInFlight = 1
    MaxLag = 0
    Stories <- MCOrphan
SPECIFICATION Spec
PROPERTY
    AdoptsOnlyFromBackup
CHECK_DEADLOCK FALSE
