CONSTANTS
    None = None
    f1 = f1
    f2 = f2
    x = x
    y = y
    Paths <- MCPaths
    Digests <- MCDigests
    MaxImports = 2
    MaxOperations = 3
    MaxEdits = 1
    MaxFaults = 1
    j1 = j1
    j2 = j2
    c1 = c1
    c2 = c2
    Jobs = {j1, j2}
    ContentsOf <- MCContents
    PartsOf <- MCParts
    CoverJobs = {j2}
    Installations = {1, 2}
    Callers = {c1, c2}
    OldTitles <- MCOld
    SerialUploads = TRUE
    MaxOpen = 1
    PageSize = 1
    MaxPages = 3
    MaxSessions = 3
    MaxTokens = 2
    MaxCalls = 5
    MaxKills = 1
    MaxRounds = 1
SPECIFICATION MCSpec
SYMMETRY MCSymmetry
INVARIANTS
    MappingShowsItsRow
    OutcomeIsTrue
    ArchivedOnce
    ArchiveIsWhole
CHECK_DEADLOCK FALSE
