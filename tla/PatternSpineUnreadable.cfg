\* patterns.json no longer parses when the control plane restarts: the pack is
\* not published, and what is served instead is the store's empty one.
CONSTANTS
    Types = {"PERSON_NAME", "ACCOUNT_ID"}
    CuratedTypes = {}
    Terms = {frodo}
    frodo = frodo
    Gates = {1}
    NoGate = NoGate
    OwnerIds <- MCOwnerIds
    OwnerTypes = {"PERSON_NAME", "ACCOUNT_ID"}
    OwnerKinds = {"regex", "threshold", "deny_list", "allow_list"}
    MaxListTerms = 1
    MaxRows = 2
    SaveMayFail = FALSE
    FileMayCorrupt = TRUE
    FileMayBeEdited = FALSE
    Gateways = {g1}
    Builtin <- MCBuiltin
    CuratedHits <- MCCuratedHits
    Score <- MCScore
    DefaultGate = 2
    BadRule <- MCBadRule
SPECIFICATION SpineSpec
PROPERTY NoRuleIsDropped
