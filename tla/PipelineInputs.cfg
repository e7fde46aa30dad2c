\* One claim of an engine at a time: the bodies are what matters here.
CONSTANTS
    Text <- MCText
    NFields = 2
    Detectors <- MCDetectors
    Claims <- MCClaims
    MaxClaims = 1
    Vetoed <- MCVetoed
    NoBody = NoBody
    NoReport = NoReport
    Newline = "newline"
    Head0 = "head"
    Tail0 = "tail"
    UsageOf <- MCUsageOf
    Streams <- MCStreams
    Bodies <- MCBodies
    MaxLine = 4
    NoStream = NoStream
    Documents <- MCDocuments
    MaxWalkDepth = 1
    NoWalk = NoWalk
    CardStarts <- MCCardStarts
    Bbans <- MCBbans
    Parts <- MCParts
    NoHit = NoHit
SPECIFICATION RequestSpec
INVARIANT EveryInputLeafIsWalked
