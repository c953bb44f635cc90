SPECIFICATION Spec
CONSTANTS
    a1 = a1
    a2 = a2
    None = None
    Actions <- MCOneAction
    FailureThreshold = 1
    TaskActionLimit = 2
    UserControls = {}
    MaxDisturbances = 1
    MaxWire = 1
    MayKill = TRUE
INVARIANT RecoveryAccepted
