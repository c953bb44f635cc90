SPECIFICATION FairSpec
CONSTANTS
    a1 = a1
    a2 = a2
    None = None
    Actions <- MCActions
    FailureThreshold = 2
    TaskActionLimit = 2
    UserControls = {}
    MaxDisturbances = 1
    MaxWire = 1
    MayKill = TRUE
PROPERTIES
    TaskFinishes
