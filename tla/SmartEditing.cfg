SPECIFICATION Spec
CONSTANTS
    m1 = m1
    g1 = g1
    g2 = g2
    Videos <- MCVideos
    Gens <- MCGens
    MaxEdits = 1
    MaxRevisions = 2
    MaxFaults = 2
    None = None
SYMMETRY Symmetric
INVARIANTS
    TimelinePlayable
    AnalysisIsOfContent
    CancelledLeavesNothing
CHECK_DEADLOCK FALSE
