SPECIFICATION DiscoverySpec
CONSTANTS
    a1 = a1
    a2 = a2
    a3 = a3
    Accounts <- MCAccounts
    Blacklist = {}
    Recent = {a3}
    None = None
    MaxAttempts = 3
    SearchPages <- MCSearchPages
    TargetLimit = 2
    BatchSize = 1
    PageSize = 1
    MaxConnections = 2
    MaxRequests = 2
    MaxEvents = 5
    MaxAccumulated = 1
INVARIANTS TargetsAreFound ConfirmedIsSeen
PROPERTY ConfirmationStands
CHECK_DEADLOCK FALSE
