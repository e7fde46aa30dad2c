---------------------------- MODULE PatternPack -----------------------------
(***************************************************************************)
(* The pattern pack and the proposals it is built from, in the control     *)
(* plane: the flywheel's upserts, the owner's own proposals, approval and  *)
(* rejection, and patterns.json, which holds pack and proposals together.  *)
(* Every operation runs under the runner's mutex r.mu and ends in a save.  *)
(* The pack being served lives in the store and is read without r.mu.      *)
(*                                                                         *)
(* A save is whole or nothing (writeAtomic; Keystore shows the same temp   *)
(* file and rename step by step). Miss counters, rationales and dates are  *)
(* left out, and one run's evidence concerns one type.                     *)
(***************************************************************************)
EXTENDS Integers, Sequences, FiniteSets

CONSTANTS
    Types,          \* entity types
    CuratedTypes,   \* the types the regex library has a candidate for
    Terms,          \* free-text values a deny or allow list may hold
    Gates,          \* score gates, as integers; a lower gate accepts more
    NoGate,
    OwnerIds,       \* ids an owner may give a proposal
    OwnerTypes,     \* types an owner writes proposals for
    OwnerKinds,     \* kinds of proposal an owner writes
    MaxListTerms,   \* maxDenyTerms, maxAllowTerms
    MaxRows,        \* bound on the number of proposals
    SaveMayFail,    \* whether the disk may refuse a write
    FileMayCorrupt  \* whether patterns.json may be damaged from outside

Kinds == {"regex", "threshold", "deny_list", "allow_list"}
Settled == {"approved", "rejected"}
Statuses == Settled \cup {"proposed", "manual", "superseded"}

Bases == {"candidate", "threshold", "deny", "manual"}
Ids == (Bases \X Types \X Nat) \cup OwnerIds
Rules == [id : Ids, type : Types, kind : Kinds, gate : Nat \cup {NoGate},
          terms : SUBSET Terms]
Rows == [id : Ids, type : Types, kind : Kinds \cup {"none"}, gate : Nat \cup {NoGate},
         terms : SUBSET Terms, status : Statuses, owner : BOOLEAN]
Packs == [version : Nat, rules : SUBSET Rules]
Files == [pack : Packs, rows : Seq(Rows)]

\* No pack, no file and a file that does not parse: no version is negative.
NoPack == [version |-> -1, rules |-> {}]
NoFile == [pack |-> NoPack, rows |-> <<>>]
Torn == [pack |-> [version |-> -2, rules |-> {}], rows |-> <<>>]

ASSUME PatternAssumptions ==
    /\ CuratedTypes \cup OwnerTypes \subseteq Types
    /\ OwnerKinds \subseteq Kinds
    /\ Gates \subseteq Nat
    /\ NoGate \notin Nat
    /\ IsFiniteSet(Terms)
    /\ MaxListTerms \in Nat \ {0}
    /\ MaxRows \in Nat
    /\ SaveMayFail \in BOOLEAN
    /\ FileMayCorrupt \in BOOLEAN

VARIABLES
    up,          \* the control-plane process is serving
    rows,        \* r.proposals, in order of creation
    pack,        \* the store's pack: what gateways are served
    pending,     \* the pack an approval has saved and not yet published
    persistErr,  \* patternPersistErr is non-nil
    file         \* patterns.json

vars == <<up, rows, pack, pending, persistErr, file>>

\* The artifact of a proposal is its gate or its terms; a regex is its id.
\* owner is history: the flywheel did not create the row.
Row(id, type, kind, gate, terms, status) ==
    [id |-> id, type |-> type, kind |-> kind, gate |-> gate, terms |-> terms,
     status |-> status, owner |-> FALSE]

RuleOf(row) == [id |-> row.id, type |-> row.type, kind |-> row.kind,
                gate |-> row.gate, terms |-> row.terms]

EmptyPack == [version |-> 0, rules |-> {}]

RowsOf(rs) == {rs[i] : i \in 1 .. Len(rs)}
IdsOf(rs) == {row.id : row \in RowsOf(rs)}

\* ruleFromProposal, the hard check per kind. Flywheel rows are built to pass it.
Approvable(row) ==
    CASE row.kind = "regex" -> TRUE
      [] row.kind = "threshold" -> row.gate \in Gates
      [] row.kind \in {"deny_list", "allow_list"} ->
            Cardinality(row.terms) \in 1 .. MaxListTerms
      [] OTHER -> FALSE

Idle == up /\ pending = NoPack
-----------------------------------------------------------------------------
Init ==
    /\ up = FALSE
    /\ rows = <<>>
    /\ pack = EmptyPack
    /\ pending = NoPack
    /\ persistErr = FALSE
    /\ file = NoFile

\* Fault: a failed save is logged and no more.
SaveOrLog(p, rs) ==
    \/ file' = [pack |-> p, rows |-> rs] /\ persistErr' = FALSE
    \/ SaveMayFail /\ UNCHANGED <<persistErr, file>>

\* Fault: the pack that is saved is the one still in the store.
SaveStorePack(p, rs) ==
    \/ file' = [pack |-> pack, rows |-> rs] /\ persistErr' = FALSE
    \/ SaveMayFail /\ persistErr' = TRUE /\ UNCHANGED file

\* savePatternsLocked: pack and proposals in one file; only the outcome of the
\* last save is remembered.
SavePatternsLocked(p, rs) ==
    \/ file' = [pack |-> p, rows |-> rs] /\ persistErr' = FALSE
    \/ SaveMayFail /\ persistErr' = TRUE /\ UNCHANGED file

-----------------------------------------------------------------------------
(***************************************************************************)
(* The flywheel's upserts, as functions on the list of proposals.          *)
(***************************************************************************)
\* Fault: the base id is used again.
FirstProposalId(base, t, rs) == <<base, t, 1>>

FreeProposalId(base, t, rs) ==
    LET n == CHOOSE n \in 1 .. Len(rs) + 1 :
                /\ <<base, t, n>> \notin IdsOf(rs)
                /\ \A m \in 1 .. n - 1 : <<base, t, m>> \in IdsOf(rs)
    IN  <<base, t, n>>

OpenRows(rs, t, kind) ==
    {i \in 1 .. Len(rs) : /\ rs[i].kind = kind
                          /\ rs[i].type = t
                          /\ rs[i].status = "proposed"}

FirstOpen(rs, t, kind) ==
    CHOOSE i \in OpenRows(rs, t, kind) :
        \A j \in OpenRows(rs, t, kind) : i <= j

UpsertCandidate(rs, t) ==
    LET id == <<"candidate", t, 1>> IN
    IF id \in IdsOf(rs) THEN rs
    ELSE Append(rs, Row(id, t, "regex", NoGate, {}, "proposed"))

\* Fault: only approvals are remembered, a declined gate is asked for again.
GateIsApproved(rs, t, needed) ==
    \E row \in RowsOf(rs) : /\ row.kind = "threshold"
                            /\ row.type = t
                            /\ row.status = "approved"
                            /\ row.gate <= needed

\* Fault: only what was declined is remembered, the gate in force says the rest.
GateIsDeclined(rs, t, needed) ==
    \E row \in RowsOf(rs) : /\ row.kind = "threshold"
                            /\ row.type = t
                            /\ row.status = "rejected"
                            /\ row.gate <= needed

\* A settled row at or below the needed gate covers or has declined the ask.
GateIsSettled(rs, t, needed) ==
    \E row \in RowsOf(rs) : /\ row.kind = "threshold"
                            /\ row.type = t
                            /\ row.status \in Settled
                            /\ row.gate <= needed

UpsertThreshold(rs, t, needed) ==
    IF GateIsSettled(rs, t, needed) THEN rs
    ELSE IF OpenRows(rs, t, "threshold") # {}
    THEN LET i == FirstOpen(rs, t, "threshold") IN
         [rs EXCEPT ![i].gate = IF needed < @ THEN needed ELSE @]
    ELSE Append(rs, Row(FreeProposalId("threshold", t, rs), t, "threshold",
                        needed, {}, "proposed"))

KnownTerms(rs, t) ==
    UNION {row.terms : row \in {r \in RowsOf(rs) : r.kind = "deny_list" /\ r.type = t}}

\* Fault: the cap keeps one place free.
WithinCapLessOne(rs, t, kept) ==
    LET open == OpenRows(rs, t, "deny_list")
        have == IF open = {} THEN 0
                ELSE Cardinality(rs[FirstOpen(rs, t, "deny_list")].terms)
    IN  Cardinality(kept) < MaxListTerms - have

\* What of the fresh terms the cap lets in: the first ones, in the run's order.
WithinCap(rs, t, kept) ==
    LET open == OpenRows(rs, t, "deny_list")
        have == IF open = {} THEN 0
                ELSE Cardinality(rs[FirstOpen(rs, t, "deny_list")].terms)
    IN  Cardinality(kept) <= MaxListTerms - have

UpsertDeny(rs, t, kept) ==
    IF OpenRows(rs, t, "deny_list") # {}
    THEN [rs EXCEPT ![FirstOpen(rs, t, "deny_list")].terms = @ \cup kept]
    ELSE IF kept = {} THEN rs
    ELSE Append(rs, Row(FreeProposalId("deny", t, rs), t, "deny_list",
                        NoGate, kept, "proposed"))

ManualId(t) == <<"manual", t, 1>>

UpsertManual(rs, t) ==
    IF ManualId(t) \in IdsOf(rs) THEN rs
    ELSE Append(rs, Row(ManualId(t), t, "none", NoGate, {}, "manual"))

Supersede(rs, t) ==
    [i \in 1 .. Len(rs) |->
        IF rs[i].id = ManualId(t) /\ rs[i].status = "manual"
        THEN [rs[i] EXCEPT !.status = "superseded"] ELSE rs[i]]
-----------------------------------------------------------------------------
(***************************************************************************)
(* upsertProposals for one type t: whether its curated candidate matched   *)
(* misses, the gate the probe's scores call for or none, the terms         *)
(* Presidio never saw and those of them kept, and whether some miss had no *)
(* artifact. An artifact, new or still open, supersedes the manual row.    *)
(***************************************************************************)
UpsertProposals(t, curated, gate, terms, kept, manual) ==
    LET rs1 == IF curated THEN UpsertCandidate(rows, t) ELSE rows
        rs2 == IF gate = NoGate THEN rs1 ELSE UpsertThreshold(rs1, t, gate)
        gated == gate # NoGate /\ ~GateIsSettled(rs1, t, gate)
        rs3 == IF terms = {} THEN rs2 ELSE UpsertDeny(rs2, t, kept)
        denied == terms # {} /\ OpenRows(rs3, t, "deny_list") # {}
        rs4 == IF manual THEN UpsertManual(rs3, t) ELSE rs3
    IN  IF gated \/ denied THEN Supersede(rs4, t) ELSE rs4

Flywheel(t, curated, gate, terms, kept, manual) ==
    /\ Idle
    /\ curated => t \in CuratedTypes
    /\ kept \subseteq terms \ KnownTerms(rows, t)
    /\ WithinCap(rows, t, kept)
    /\ \A x \in terms \ (KnownTerms(rows, t) \cup kept) :
          ~WithinCap(rows, t, kept \cup {x})
    /\ rows' = UpsertProposals(t, curated, gate, terms, kept, manual)
    /\ Len(rows') <= MaxRows
    /\ SavePatternsLocked(pack, rows')
    /\ UNCHANGED <<up, pack, pending>>

\* AddProposal: authored by the owner, checked now, approved separately.
AddProposal(row) ==
    /\ Idle
    /\ Len(rows) < MaxRows
    /\ Approvable(row)
    /\ row.id \notin IdsOf(rows)
    /\ rows' = Append(rows, row)
    /\ SavePatternsLocked(pack, rows')
    /\ UNCHANGED <<up, pack, pending>>

\* The row an id names: approval takes the last match, rejection the first.
LastWith(id) == CHOOSE i \in 1 .. Len(rows) :
    rows[i].id = id /\ \A j \in i + 1 .. Len(rows) : rows[j].id # id

FirstWith(id) == CHOOSE i \in 1 .. Len(rows) :
    rows[i].id = id /\ \A j \in 1 .. i - 1 : rows[j].id # id

\* Fault: the proposal is marked approved by the next run, not by this save.
ApproveWithoutMark(id) ==
    /\ Idle
    /\ id \in IdsOf(rows)
    /\ LET row == rows[LastWith(id)] IN
        /\ row.status = "proposed"
        /\ Approvable(row)
        /\ pending' = [version |-> pack.version + 1,
                       rules |-> pack.rules \cup {RuleOf(row)}]
    /\ SavePatternsLocked(pending', rows)
    /\ UNCHANGED <<up, rows, pack>>

\* Disk first, then publish: the mutex is held until Publish.
ApproveProposal(id) ==
    /\ Idle
    /\ id \in IdsOf(rows)
    /\ LET i == LastWith(id) IN
        /\ rows[i].status = "proposed"
        /\ Approvable(rows[i])
        /\ rows' = [rows EXCEPT ![i].status = "approved"]
        /\ pending' = [version |-> pack.version + 1,
                       rules |-> pack.rules \cup {RuleOf(rows[i])}]
    /\ SavePatternsLocked(pending', rows')
    /\ UNCHANGED <<up, pack>>

Publish ==
    /\ pending # NoPack
    /\ pack' = pending
    /\ pending' = NoPack
    /\ UNCHANGED <<up, rows, persistErr, file>>

RejectProposal(id) ==
    /\ Idle
    /\ id \in IdsOf(rows)
    /\ rows[FirstWith(id)].status = "proposed"
    /\ rows' = [rows EXCEPT ![FirstWith(id)].status = "rejected"]
    /\ SavePatternsLocked(pack, rows')
    /\ UNCHANGED <<up, pack, pending>>
-----------------------------------------------------------------------------
Crash ==
    /\ up
    /\ up' = FALSE
    /\ rows' = <<>>
    /\ pack' = EmptyPack
    /\ pending' = NoPack
    /\ persistErr' = FALSE
    /\ UNCHANGED file

\* Fault: the pack is restored and the proposals start over.
BootPackOnly ==
    /\ ~up
    /\ up' = TRUE
    /\ rows' = <<>>
    /\ pack' = IF file \in {NoFile, Torn} THEN EmptyPack ELSE file.pack
    /\ persistErr' = (file = Torn)
    /\ UNCHANGED <<pending, file>>

\* NewRunner: a missing file is the first boot; one that does not parse is not
\* published and not fatal, and the store is left as main made it, empty.
Boot ==
    /\ ~up
    /\ up' = TRUE
    /\ rows' = IF file \in {NoFile, Torn} THEN <<>> ELSE file.rows
    /\ pack' = IF file \in {NoFile, Torn} THEN EmptyPack ELSE file.pack
    /\ persistErr' = (file = Torn)
    /\ UNCHANGED <<pending, file>>

Corrupt ==
    /\ FileMayCorrupt
    /\ ~up
    /\ file # NoFile
    /\ file' = Torn
    /\ UNCHANGED <<up, rows, pack, pending, persistErr>>

OwnerRows ==
    {[Row(id, t, k, g, ts, "proposed") EXCEPT !.owner = TRUE] :
        id \in OwnerIds, t \in OwnerTypes, k \in OwnerKinds, g \in Gates \cup {NoGate},
        ts \in SUBSET Terms}

\* Exactly one artifact is set, selected by the kind.
OneArtifact(row) ==
    /\ row.gate # NoGate <=> row.kind = "threshold"
    /\ row.terms # {} <=> row.kind \in {"deny_list", "allow_list"}

Next ==
    \/ \E t \in Types, curated \in BOOLEAN, gate \in Gates \cup {NoGate},
          terms \in SUBSET Terms, manual \in BOOLEAN :
          \E kept \in SUBSET terms : Flywheel(t, curated, gate, terms, kept, manual)
    \/ \E row \in {r \in OwnerRows : OneArtifact(r)} : AddProposal(row)
    \/ \E id \in IdsOf(rows) : ApproveProposal(id)
    \/ \E id \in IdsOf(rows) : RejectProposal(id)
    \/ Publish
    \/ Crash
    \/ Boot
    \/ Corrupt

Spec == Init /\ [][Next]_vars
-----------------------------------------------------------------------------
TypeOK ==
    /\ up \in BOOLEAN
    /\ rows \in Seq(Rows)
    /\ pack \in Packs
    /\ pending \in Packs \cup {NoPack}
    /\ persistErr \in BOOLEAN
    /\ file \in Files \cup {NoFile, Torn}
    /\ ~up => rows = <<>> /\ pack = EmptyPack /\ pending = NoPack

(***************************************************************************)
(* Approval is the trust boundary: the served pack is exactly the approved *)
(* proposals, and its version counts them, also after any crash between    *)
(* the save and the publish.                                               *)
(***************************************************************************)
PackIsTheApprovals ==
    Idle => /\ pack.rules = {RuleOf(row) : row \in {r \in RowsOf(rows) : r.status = "approved"}}
            /\ pack.version = Cardinality(pack.rules)

(***************************************************************************)
(* PatternPersistError: nil means the pack being served is the pack on     *)
(* disk, and the proposals with it.                                        *)
(***************************************************************************)
NilPatternErrorMeansDurable ==
    Idle /\ ~persistErr =>
        IF file = NoFile THEN pack = EmptyPack /\ rows = <<>>
        ELSE file = [pack |-> pack, rows |-> rows]

(***************************************************************************)
(* What the owner settled is not asked again: of the flywheel's rows of a  *)
(* type, each asks for a lower gate than the ones before it, and no term   *)
(* is on two of them. And an id means one row, whoever wrote it: approval  *)
(* looks for the last match and rejection for the first.                   *)
(***************************************************************************)
NothingIsAskedTwice ==
    \A i, j \in 1 .. Len(rows) :
        i < j =>
        /\ rows[i].id # rows[j].id
        /\ /\ rows[i].type = rows[j].type
           /\ rows[i].kind = rows[j].kind
           /\ ~rows[i].owner
           /\ ~rows[j].owner
           => /\ rows[i].kind = "threshold" => rows[j].gate < rows[i].gate
              /\ rows[i].terms \cap rows[j].terms = {}

(***************************************************************************)
(* No step of the program takes a decision out of patterns.json: what the  *)
(* owner settled and a save wrote leaves the file only when the file is    *)
(* damaged from outside, whatever is lost in crashes and failed saves      *)
(* before and after it. Damage ends the promise for the decisions of that  *)
(* file: a boot over it starts with no proposals (runner.go:70-73), and    *)
(* the next save writes that.                                              *)
(***************************************************************************)
DecisionsAreKept ==
    [][\A row \in RowsOf(file.rows) \ RowsOf(file'.rows) :
          row.status \in Settled => file' = Torn]_vars
=============================================================================
