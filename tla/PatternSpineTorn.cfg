\* The pack of one reload suppresses a term under one type and adds it under
\* another: a request between the halves sees the suppression alone.
CONSTANTS
    Types = {"PERSON_NAME", "ACCOUNT_ID"}
    CuratedTypes = {}
    Terms = {frodo}
    frodo = frodo
    Gates = {1}
    NoGate = NoGate
    OwnerIds <- MCOwnerIds
    OwnerTypes = {"PERSON_NAME", "ACCOUNT_ID"}
    OwnerKinds = {"regex", "threshold", "deny_list", "allow_list"}
    MaxListTerms = 1
    MaxRows = 2
    SaveMayFail = FALSE
    FileMayCorrupt = FALSE
    FileMayBeEdited = FALSE
    Gateways = {g1}
    Builtin <- MCBuiltin
    CuratedHits <- MCCuratedHits
    Score <- MCScore
    DefaultGate = 2
    BadRule <- MCBadRule
SPECIFICATION SpineSpec
INVARIANT ReloadOnlyOverDetects
