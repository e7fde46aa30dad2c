\* One type, one term, one gateway and two owner rules: every pair of rules of a
\* type a reload can straddle. Saves succeed; the file may be edited by hand to
\* hold a regex that does not compile.
CONSTANTS
    Types = {"ACCOUNT_ID"}
    CuratedTypes = {}
    Terms = {frodo}
    frodo = frodo
    Gates = {1}
    NoGate = NoGate
    OwnerIds <- MCOwnerPair
    OwnerTypes = {"ACCOUNT_ID"}
    OwnerKinds = {"regex", "threshold", "deny_list", "allow_list"}
    MaxListTerms = 1
    MaxRows = 2
    SaveMayFail = FALSE
    FileMayCorrupt = FALSE
    FileMayBeEdited = TRUE
    Gateways = {g1}
    Builtin <- MCBuiltin
    CuratedHits <- MCCuratedHits
    Score <- MCScore
    DefaultGate = 2
    BadRule <- MCBadRule
SPECIFICATION LiveSpec
INVARIANTS
    PackVersionNamesContent
    NoTypeLostInReload
PROPERTIES
    NoRuleIsDropped
    ApprovalReachesGateways
