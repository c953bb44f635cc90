SPECIFICATION FairSpec
CONSTANTS
    t1 = t1
    a1 = a1
    a2 = a2
    None = None
    Attempts <- MCAttempts
    Actions <- MCActions
    AttemptOf <- MCAttemptOf
    KindOf <- MCComments
    MaxTime = 1
    AuthLifetime = 1
    MinInterval = 1
    TaskActionLimit = 2
    MaxCommands = 3
INVARIANTS
    AtMostOncePerformed
    SuccessIsTrue
PROPERTIES
    NoEffectAfterStop
    ClosedAttemptIsSilent
    ImplementsContract
    ControlConverges
