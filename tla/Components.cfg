SPECIFICATION MCSpec
CONSTANTS
    None = None
    Layouts <- MCLayouts
    Loads <- MCLoads
    Parameters <- MCParameters
    Threshold = 2
    MaxRuns = 4
    Keys = {1}
    Installations = {1,2}
    Challenges = {1,2}
    Credentials = {1,2,3}
    Sessions = {1}
    Capabilities = {"app"}
    ChallengeLife = 1
    SessionLife = 1
    Skew = 1
    GrantEnd = 2
    MaxTime = 1
    MaxInFlight = 2
    MaxConnections = 2
    MaxReports = 3
    MaxFrames = 1
    MaxStops = 1
    Boards <- BoardsSmall
    ScriptLengths = {1, 2}
    PerMs = 10
    Lines = {48100, 65000, 201000}
    Parts <- PartsSmall
    BriefSeconds = {12, 24}
    BrandAssets = {{}, {"logo"}}
    Overrides <- OverridesSmall
    Repairs <- RepairsSmall
    MaxShotFrames = 600
INVARIANTS
    ResultIsTrue
    HandbackResumesSafely
    AuthoredIsAccepted
    LiveUnderLive
    RegistryServes
    FreshReportsAreTaken
PROPERTIES
    GateOpensByLogin
CHECK_DEADLOCK FALSE
