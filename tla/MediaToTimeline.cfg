CONSTANTS
    none = none
    None = none
    Unknown = none
    MaterialLists <- MCMaterialLists
    RequestsOf <- MCRequestsOf
    Fps <- MCFps
    MusicIds <- MCMusic
    Transitions <- MCTransitions
    Trims <- MCTrims
    MaxSaves = 1
    MaxTotalMs = 500
    MaxParagraphs = 3
    MaxMaterialMs = 14400000
    MaxTransitionMs = 10000
    MaxCaptionCharacters = 2000
    Media <- MCMedia
    MaxMediumMs = 300
    MaxEdge = 8
    LongScene = 30
    FrameLimits <- MCFrameLimits
    MaxFrames = 8
    Chunk = 10
    MinSpeechChunks = 3
    MinSilenceChunks = 2
    Padding = 10
    PrimaryMs = 40
    BatchMs = 50
    MaxTranscript = 100
    MaxDescription = 20
    MaxTagLength = 8
    MaxTags = 2
    MaxPieces = 2
SPECIFICATION WholeSpec
INVARIANTS SelectionIsFirst CommandMatchesCut DownstreamAccepts SpeechIsWhereHeard
