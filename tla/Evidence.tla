------------------------------ MODULE Evidence -------------------------------
(***************************************************************************)
(* Where the flywheel's proposals (PatternPack) come from: the spans a run *)
(* missed are sorted into what a curated regex covers, what Presidio saw   *)
(* under the gate in force, what it never saw and a list of terms can hold *)
(* and the rest. The gates are read and Presidio is probed before the lock *)
(* is taken, so the owner may decide in between; then the proposals are    *)
(* upserted under the lock.                                                *)
(*                                                                         *)
(* Scores and gates are in hundredths. The probe asks for the texts one by *)
(* one, at most MaxProbes of them, and gives up at the first failure: the  *)
(* texts whose scores are known are some of them, any that many.           *)
(***************************************************************************)
EXTENDS PatternPack

CONSTANTS
    Misses,     \* missed spans: [type, text, term, score, curated]
    FreeTypes,  \* freeTextTypes
    Plain,      \* the terms validateDenyTerm accepts
    MaxProbes,  \* maxProbesPerRun
    DefaultGate, MinGate,  \* PresidioDefaultScoreGate, minGate
    Unseen, NoRun

ASSUME EvidenceAssumptions ==
    /\ \A m \in Misses :
        /\ DOMAIN m = {"type", "text", "term", "score", "curated"}
        /\ m.type \in Types /\ m.curated \in BOOLEAN
        /\ m.score \in Nat \cup {Unseen}
        /\ m.curated => m.type \in CuratedTypes
    /\ FreeTypes \subseteq Types
    /\ Plain \subseteq Terms
    /\ MaxProbes \in Nat
    /\ DefaultGate \in Nat /\ MinGate \in 1 .. DefaultGate - 1
    /\ Unseen \notin Nat

VARIABLE run    \* the evidence of the run whose proposals are to be upserted

allVars == <<vars, run>>

\* currentGates and gateFor, on the pack in the store.
GatesFor(t) == {rule.gate : rule \in {r \in pack.rules : r.kind = "threshold" /\ r.type = t}}
GateFor(t) == IF GatesFor(t) = {} THEN DefaultGate
              ELSE CHOOSE g \in GatesFor(t) : \A h \in GatesFor(t) : g <= h

\* Fault: to the nearest step of the grid.
ProposeNearest(score) ==
    LET g == ((score + 2) \div 5) * 5 IN IF g < MinGate THEN MinGate ELSE g

\* proposeGate: down to the grid of 0.05 and one step lower.
ProposeGate(score) ==
    LET g == (score \div 5) * 5 - 5 IN IF g < MinGate THEN MinGate ELSE g

\* A gate proposeGate builds is one the hard check of a threshold accepts.
ASSUME ProposedGatesAreValid ==
    \A m \in Misses : m.score \in Nat => ProposeGate(m.score) \in Gates

\* The texts whose raw scores a run may know (analyzeRaw): it asks only if
\* its chain has Presidio, and what it knows depends on when a probe fails.
ProbedTexts(ms, presidio) ==
    {raw \in SUBSET {m.text : m \in ms} :
        Cardinality(raw) <= (IF presidio THEN MaxProbes ELSE 0)}

\* bestOverlap: Presidio saw something of the type where the miss is.
Seen(ms, raw) == {m \in ms : m.text \in raw /\ m.score # Unseen}
Under(ms, raw, gate) == {m \in Seen(ms, raw) : m.score < gate}
Denied(ms, raw) == {m \in ms \ Seen(ms, raw) : m.type \in FreeTypes /\ m.term \in Plain}

\* synthesizeConfig: without Presidio in the chain nothing it is told would act.
SynthesizeConfig(t, ms, presidio, raw) ==
    LET under == IF presidio THEN Under(ms, raw, GateFor(t)) ELSE {}
        denied == IF presidio THEN Denied(ms, raw) ELSE {}
    IN  [scores |-> {m.score : m \in under},
         terms |-> {m.term : m \in denied},
         manual |-> ms \ (under \cup denied) # {}]

\* A run ended with these misses of one type; what a curated regex covers is
\* set aside. The pack is read at once, the probes take their time.
Gather(t, ms, presidio) ==
    /\ up
    /\ run = NoRun
    /\ LET curated == {m \in ms : m.curated} IN
        \E raw \in ProbedTexts(ms \ curated, presidio) :
            LET config == SynthesizeConfig(t, ms \ curated, presidio, raw) IN
            run' = [type |-> t, curated |-> curated # {}, scores |-> config.scores,
                    terms |-> config.terms, manual |-> config.manual]
    /\ UNCHANGED vars

Needed == IF run.scores = {} THEN NoGate
          ELSE ProposeGate(CHOOSE s \in run.scores : \A r \in run.scores : s <= r)

\* The lock is taken: corpus and proposals.
Upsert ==
    /\ run # NoRun
    /\ \E kept \in SUBSET run.terms :
          Flywheel(run.type, run.curated, Needed, run.terms, kept, run.manual)
    /\ run' = NoRun

EvidenceInit == Init /\ run = NoRun

EvidenceNext ==
    \/ \E t \in Types, presidio \in BOOLEAN :
        \E ms \in SUBSET {m \in Misses : m.type = t} : Gather(t, ms, presidio)
    \/ Upsert
    \/ /\ \/ \E row \in {r \in OwnerRows : OneArtifact(r)} : AddProposal(row)
          \/ \E id \in IdsOf(rows) : ApproveProposal(id)
          \/ \E id \in IdsOf(rows) : RejectProposal(id)
          \/ Publish
          \/ Boot
          \/ Corrupt
       /\ UNCHANGED run
    \/ Crash /\ run' = NoRun

EvidenceSpec == EvidenceInit /\ [][EvidenceNext]_allVars
-----------------------------------------------------------------------------
\* The row upsertDeny would add a term to can take no more.
OpenListIsFull(rs, t) ==
    /\ OpenRows(rs, t, "deny_list") # {}
    /\ Cardinality(rs[FirstOpen(rs, t, "deny_list")].terms) = MaxListTerms

(***************************************************************************)
(* No miss goes without an answer, although the pack may have changed      *)
(* since the evidence was gathered: when a run's proposals are in, every   *)
(* score Presidio gave is met by a gate the owner approved, declined or is *)
(* asked for (a score under minGate is beyond every gate); every term it   *)
(* never saw is on a list of its type, approved, declined or open, unless  *)
(* the one open list of the type is full, and then the rest of the terms   *)
(* is dropped; and what has no artifact leaves the manual row, a curated   *)
(* match its candidate. And what is asked can be granted: no row was       *)
(* built, or has grown, past what its approval will check.                 *)
(***************************************************************************)
EveryMissIsAnswered ==
    [][run # NoRun /\ run' = NoRun /\ up' =>
        /\ \A s \in run.scores : s < MinGate \/ GateIsSettled(rows', run.type, s)
              \/ \E i \in OpenRows(rows', run.type, "threshold") : rows'[i].gate <= s
        /\ run.terms \subseteq KnownTerms(rows', run.type) \/ OpenListIsFull(rows', run.type)
        /\ run.manual => ManualId(run.type) \in IdsOf(rows')
        /\ run.curated => <<"candidate", run.type, 1>> \in IdsOf(rows')
        /\ \A row \in RowsOf(rows') : row.status = "proposed" => Approvable(row)]_allVars

(***************************************************************************)
(* The flywheel asks only for what would change something: a gate it newly *)
(* proposes, or lowers, is lower than the one the gateways are served,     *)
(* also when that one was approved while Presidio was being probed.        *)
(***************************************************************************)
ProposalsLowerTheGate ==
    [][run # NoRun /\ run' = NoRun /\ up' =>
        \A i \in 1 .. Len(rows') :
            /\ rows'[i].kind = "threshold"
            /\ i \in 1 .. Len(rows) => rows[i].gate # rows'[i].gate
            => rows'[i].gate < GateFor(rows'[i].type)]_allVars
=============================================================================
