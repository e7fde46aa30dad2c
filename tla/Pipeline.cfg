\* Two fields, two engines; every set of up to three claims an engine may make.
\* Streams of up to two lines in reads of any length, lines of up to four.
CONSTANTS
    Text <- MCText
    NFields = 2
    Detectors <- MCDetectors
    Claims <- MCClaims
    MaxClaims = 3
    Vetoed <- MCVetoed
    NoBody = NoBody
    NoReport = NoReport
    Newline = "newline"
    Head0 = "head"
    Tail0 = "tail"
    UsageOf <- MCUsageOf
    Streams <- MCStreams
    Bodies <- MCBodies
    MaxLine = 4
    NoStream = NoStream
    Documents <- MCDocuments
    MaxWalkDepth = 1
    NoWalk = NoWalk
    CardStarts <- MCCardStarts
    Bbans <- MCBbans
    Parts <- MCParts
    NoHit = NoHit
SPECIFICATION RequestSpec
INVARIANTS
    MaskIsExact
    LostOnlyToAVeto
    NothingUnfilteredForwarded
    ReportTellsTruth
    OneReportPerRequest
    TokensAreOfWholeLines
    EveryTextIsWalked
    GuardsTellRealFromAlike
PROPERTIES
    RelayIsOneStep
