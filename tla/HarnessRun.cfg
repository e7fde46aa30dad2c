SPECIFICATION LiveSpec
CONSTANTS
    Texts = {x, y}
    Total = 2
    Concurrency = 2
    MaxRuns = 2
    MaxStoredRuns = 1
    SaveMayFail = TRUE
    NoFate = NoFate
INVARIANTS
    RunsAddUp
    FlywheelIsDurable
PROPERTIES
    CaughtIsCaught
    RunEnds
