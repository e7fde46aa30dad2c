\* Two gates below the default and three terms: a gate declined and asked for
\* again, a list of two terms with one left over, an id that is already taken.
CONSTANTS
    Types = {"PERSON_NAME", "PHONE"}
    CuratedTypes = {"PHONE"}
    frodo = frodo
    sam = sam
    pippin = pippin
    jargon = jargon
    t1 = t1
    t2 = t2
    t3 = t3
    t4 = t4
    t5 = t5
    Terms = {frodo, sam, pippin}
    Gates = {5, 15}
    NoGate = NoGate
    OwnerIds <- MCOwnerIds
    OwnerTypes = {"PERSON_NAME"}
    OwnerKinds = {"threshold", "deny_list"}
    MaxListTerms = 2
    MaxRows = 3
    SaveMayFail = TRUE
    FileMayCorrupt = TRUE
    Misses <- MCMisses
    FreeTypes = {"PERSON_NAME"}
    Plain = {frodo, sam, pippin}
    MaxProbes = 1
    DefaultGate = 40
    MinGate = 5
    Unseen = Unseen
    NoRun = NoRun
SYMMETRY TermSymmetry
SPECIFICATION EvidenceSpec
INVARIANTS
    PackIsTheApprovals
    NilPatternErrorMeansDurable
    NothingIsAskedTwice
PROPERTIES
    DecisionsAreKept
    EveryMissIsAnswered
    ProposalsLowerTheGate
