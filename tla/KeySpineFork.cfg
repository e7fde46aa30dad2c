\* A disk that may refuse a write, and a restart after it has.
CONSTANTS
    AppIds = {checkout}
    Kids = {k1}
    Baselines = {inherit}
    Routes = {anthropic}
    MaxTime = 0
    MaxVersion = 4
    SaveMayFail = TRUE
    Gateways = {g1}
    NoApp = NoApp
    NoKey = NoKey
    NoSnapshot = NoSnapshot
    Torn = Torn
    Never = Never
SPECIFICATION FairSpec
PROPERTIES
    RevocationReachesGateways
