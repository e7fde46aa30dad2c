\* One gateway with one request in flight, under a ZDR-gated baseline that is
\* applied with and without the attestation; saves fail, the file is damaged,
\* and both processes restart without bound.
CONSTANTS
    Gateways = {g1}
    Off = {}
    On = {}
    Phi = {healthcare}
    Gated = {healthcare}
    SaveMayFail = TRUE
    FileMayCorrupt = TRUE
    NoFile = NoFile
    Torn = Torn
    NoPolicy = NoPolicy
    NoBaseline = NoBaseline
    NoAction = NoAction
SPECIFICATION LiveSpec
INVARIANTS
    NilPolicyErrorMeansDurable
    ActionOfAPolicyInForce
PROPERTY AppliedPolicyIsEnforced
