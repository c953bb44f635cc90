SPECIFICATION Spec
SYMMETRY MCSymmetry
CONSTANTS
    j1 = j1
    j2 = j2
    c1 = c1
    c2 = c2
    p1 = p1
    p2 = p2
    i1 = i1
    None = None
    Jobs <- MCTwoJobs
    Contents <- MCContents
    TitleOf <- MCTitles
    Approvals <- MCApprovals
    Identities = {i1}
    MaxTime = 1
    MinInterval = 1
    MaxEpoch = 2
    MaxCommands = 4
    ResultWriter = "worker"
INVARIANTS
    ApprovalCoversClick
    PendingApprovalIsLive
PROPERTIES
    ImplementsContract
