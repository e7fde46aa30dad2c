\* Four callers, some of them refused, through a ring of three in chunks of two:
\* a push has two chunks, the ring overflows when it records and when a push is
\* put back, two heavy reports are over the cap of the decoder, one late post may be
\* under way, and the two dialects share the windows.
CONSTANTS
    MaxReports = 4
    Reports <- MCReports
    Size <- MCSize
    RingMax = 3
    ChunkMax = 2
    BodyMax = 3
    StoreMax = 1
    MaxLate = 1
    Routes <- MCRoutes
    Route <- MCRoute
    Types <- MCTypes
    Adds <- MCAdds
    MaxCalls = 4
SPECIFICATION FairEmit
INVARIANTS
    ReportsWaitInOrder
    RepeatsAreUnheardAnswers
    CountsAddUp
PROPERTY EveryReportSettles
