SPECIFICATION Spec
CONSTANTS
    None = None
    MaxJobs = 2
    MaxRevisions = 2
    MaxEdits = 1
    MaxFaults = 2
INVARIANTS
    OutcomeMatchesArtifact
PROPERTIES
    JobSettles
CHECK_DEADLOCK FALSE
