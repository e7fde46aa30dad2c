\* One key and one gateway; a create, an issue, a revocation and one mutation
\* more, each of which may meet a failed save, a crash and a pull in flight.
CONSTANTS
    AppIds = {checkout}
    Kids = {k1}
    Baselines = {inherit}
    Routes = {anthropic}
    MaxTime = 1
    MaxVersion = 4
    SaveMayFail = TRUE
    Gateways = {g1}
    NoApp = NoApp
    NoKey = NoKey
    NoSnapshot = NoSnapshot
    Torn = Torn
    Never = Never
SPECIFICATION FairSpec
INVARIANTS
    NilErrorMeansDurable
    AckedRevocationSurvives
    VersionNamesContent
    ExpiryNeedsNoPull
PROPERTIES
    RefusalIsFinal
    ImplementsDurableKeys
    RevocationReachesUnforked
