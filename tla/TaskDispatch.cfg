SPECIFICATION Spec
CONSTANTS
    a1 = a1
    a2 = a2
    None = None
    Actions <- MCActions
    FailureThreshold = 2
    TaskActionLimit = 2
    UserControls <- MCAllControls
    MaxDisturbances = 1
    MaxWire = 1
    MayKill = TRUE
SYMMETRY MCSymmetry
INVARIANTS
    TaskAttemptAgree
    ConvergedAgrees
    RowsAreStorable
    FailuresHandOver
    EndIsTruthful
    RunsOnlyAuthorized
PROPERTIES
    TerminalIsFinal
