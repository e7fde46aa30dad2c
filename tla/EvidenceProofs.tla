--------------------------- MODULE EvidenceProofs ---------------------------
(***************************************************************************)
(* Proofs about the pattern pack and the evidence its proposals rest on.   *)
(* The list of proposals is reasoned about as a list: ListOK says what     *)
(* every row and every pair of rows satisfies, and each upsert is shown to *)
(* keep it and to leave every settled row as it is.                        *)
(***************************************************************************)
EXTENDS Evidence, FiniteSetTheorems, SequenceTheorems, TLAPS

\* A row's kind, artifact and status belong together.
RowOK(row) ==
    /\ row.kind = "none" <=> row.status \in {"manual", "superseded"}
    /\ row.kind = "threshold" => row.gate \in Nat
    /\ ~row.owner /\ row.kind # "deny_list" => row.terms = {}
    /\ row.status = "proposed" => Approvable(row)

\* What NothingIsAskedTwice says of a row and one behind it, and that the
\* flywheel adds to a kind only when its earlier rows of it are settled.
PairOK(a, b) ==
    /\ a.id # b.id
    /\ a.type = b.type /\ a.kind = b.kind /\ ~a.owner /\ ~b.owner =>
        /\ a.kind = "threshold" => b.gate < a.gate
        /\ a.terms \cap b.terms = {}
        /\ a.kind \in {"threshold", "deny_list"} => a.status \in Settled

ListOK(rs) ==
    /\ rs \in Seq(Rows)
    /\ \A i \in 1 .. Len(rs) : RowOK(rs[i])
    /\ \A i, j \in 1 .. Len(rs) : i < j => PairOK(rs[i], rs[j])

SettledOf(rs) == {row \in RowsOf(rs) : row.status \in Settled}

\* An upsert that leaves the gates alone: what it keeps of the list.
Keeps(rs, ss) ==
    /\ ListOK(ss)
    /\ SettledOf(ss) = SettledOf(rs)
    /\ Len(rs) <= Len(ss)

\* Every one of the terms is on a list of the type, or the open list is full.
Listed(rs, t, terms) ==
    \/ \A x \in terms : \E row \in RowsOf(rs) :
          row.kind = "deny_list" /\ row.type = t /\ x \in row.terms
    \/ OpenListIsFull(rs, t)

KeepsLists(rs, ss) ==
    /\ \A i \in 1 .. Len(ss) : ss[i].kind = "deny_list" =>
          i \in 1 .. Len(rs) /\ ss[i] = rs[i]
    /\ \A i \in 1 .. Len(rs) : rs[i].kind = "deny_list" =>
          i \in 1 .. Len(ss) /\ ss[i] = rs[i]

KeepsGates(rs, ss) ==
    /\ \A i \in 1 .. Len(ss) : ss[i].kind = "threshold" =>
          i \in 1 .. Len(rs) /\ ss[i] = rs[i]
    /\ \A i \in 1 .. Len(rs) : rs[i].kind = "threshold" => ss[i] = rs[i]
-----------------------------------------------------------------------------
(***************************************************************************)
(* A nonempty set of natural numbers has a least one, which is what the    *)
(* CHOOSEs of FirstOpen, FreeProposalId, Needed and GateFor rely on.       *)
(***************************************************************************)
LEMMA LeastNatural ==
    ASSUME NEW S, S \subseteq Nat, S # {}
    PROVE  \E n \in S : \A m \in S : n <= m
<1>1. \E x \in S : \A y \in S : ~(<<y, x>> \in OpToRel(<, Nat))
    <2> HIDE DEF OpToRel
    <2> QED BY NatLessThanWellFounded, WFMin
<1>2. PICK x \in S : \A y \in S : ~(<<y, x>> \in OpToRel(<, Nat))
    BY <1>1
<1>3. ASSUME NEW y \in S, y < x
      PROVE  FALSE
    <2>1. <<y, x>> \in Nat \X Nat
        OBVIOUS
    <2>2. <<y, x>> \in OpToRel(<, Nat)
        BY <2>1, <1>3 DEF OpToRel
    <2> QED BY <2>2, <1>2
<1>4. \A y \in S : x <= y
    <2> SUFFICES ASSUME NEW y \in S PROVE x <= y
        OBVIOUS
    <2>1. x \in Nat /\ y \in Nat /\ ~(y < x)
        BY <1>3
    <2> QED BY <2>1
<1> QED BY <1>4

(***************************************************************************)
(* What stands for no pack, no file and a torn one is none itself.         *)
(***************************************************************************)
LEMMA Markers ==
    NoPack \notin Packs /\ NoFile \notin Files /\ Torn \notin Files /\ NoFile # Torn
<1>1. ~(-1 \in Nat) /\ ~(-2 \in Nat) /\ -1 # -2
    OBVIOUS
<1>2. NoPack.version = -1 /\ NoFile.pack = NoPack /\ Torn.pack.version = -2
    BY DEF NoPack, NoFile, Torn
<1>3. NoPack \notin Packs
    BY <1>1, <1>2 DEF Packs
<1>4. Torn.pack \notin Packs
    BY <1>1, <1>2 DEF Packs
<1> QED BY <1>1, <1>2, <1>3, <1>4 DEF Files

(***************************************************************************)
(* A row appended behind a list keeps it well formed when it pairs with    *)
(* every row there, and settles nothing.                                   *)
(***************************************************************************)
LEMMA AppendOK ==
    ASSUME NEW rs, ListOK(rs), NEW row \in Rows, RowOK(row),
           \A i \in 1 .. Len(rs) : PairOK(rs[i], row)
    PROVE  /\ ListOK(Append(rs, row))
           /\ Len(Append(rs, row)) = Len(rs) + 1
           /\ \A i \in 1 .. Len(rs) : Append(rs, row)[i] = rs[i]
           /\ Append(rs, row)[Len(rs) + 1] = row
           /\ RowsOf(Append(rs, row)) = RowsOf(rs) \cup {row}
<1> DEFINE ss == Append(rs, row)
<1>0. rs \in Seq(Rows) /\ Len(rs) \in Nat
    BY DEF ListOK
<1>1. /\ ss \in Seq(Rows)
      /\ Len(ss) = Len(rs) + 1
      /\ \A i \in 1 .. Len(rs) : ss[i] = rs[i]
      /\ ss[Len(rs) + 1] = row
    BY <1>0, AppendProperties
<1> HIDE DEF ss
<1>2. \A i \in 1 .. Len(ss) : i \in 1 .. Len(rs) \/ i = Len(rs) + 1
    BY <1>0, <1>1
<1>3. \A i \in 1 .. Len(ss) : RowOK(ss[i])
    BY <1>1, <1>2 DEF ListOK
<1>4. ASSUME NEW i \in 1 .. Len(ss), NEW j \in 1 .. Len(ss), i < j
      PROVE  PairOK(ss[i], ss[j])
    <2>1. i \in 1 .. Len(rs)
        BY <1>0, <1>1, <1>4
    <2>2. CASE j \in 1 .. Len(rs)
        BY <2>1, <2>2, <1>1, <1>4 DEF ListOK
    <2>3. CASE j = Len(rs) + 1
        BY <2>1, <2>3, <1>1
    <2> QED BY <2>2, <2>3, <1>2
<1>5. RowsOf(ss) = RowsOf(rs) \cup {row}
    <2>1. \A i \in 1 .. Len(rs) : i \in 1 .. Len(ss)
        BY <1>0, <1>1
    <2>2. Len(rs) + 1 \in 1 .. Len(ss)
        BY <1>0, <1>1
    <2> QED BY <2>1, <2>2, <1>1, <1>2 DEF RowsOf
<1>6. ListOK(ss)
    BY <1>1, <1>3, <1>4 DEF ListOK
<1> QED BY <1>1, <1>5, <1>6 DEF ss

(***************************************************************************)
(* A row rewritten in its place keeps the list well formed when its id     *)
(* stays and it pairs with the rows before and behind it.                  *)
(***************************************************************************)
LEMMA EditOK ==
    ASSUME NEW rs, ListOK(rs), NEW k \in 1 .. Len(rs), NEW row \in Rows, RowOK(row),
           \A i \in 1 .. Len(rs) : i < k => PairOK(rs[i], row),
           \A j \in 1 .. Len(rs) : k < j => PairOK(row, rs[j]),
           NEW ss \in Seq(Rows), Len(ss) = Len(rs),
           \A i \in 1 .. Len(rs) : ss[i] = IF i = k THEN row ELSE rs[i]
    PROVE  ListOK(ss)
<1>0. rs \in Seq(Rows) /\ Len(rs) \in Nat
    BY DEF ListOK
<1>1. \A i \in 1 .. Len(ss) : RowOK(ss[i])
    BY DEF ListOK
<1>2. ASSUME NEW i \in 1 .. Len(ss), NEW j \in 1 .. Len(ss), i < j
      PROVE  PairOK(ss[i], ss[j])
    <2>1. i \in 1 .. Len(rs) /\ j \in 1 .. Len(rs)
        BY <1>2
    <2>2. CASE i = k
        <3>1. k < j /\ j # k
            BY <2>1, <2>2, <1>0, <1>2
        <3> QED BY <3>1, <2>1, <2>2
    <2>3. CASE j = k
        <3>1. i < k /\ i # k
            BY <2>1, <2>3, <1>0, <1>2
        <3> QED BY <3>1, <2>1, <2>3
    <2>4. CASE i # k /\ j # k
        BY <2>1, <2>4, <1>2 DEF ListOK
    <2> QED BY <2>2, <2>3, <2>4
<1> QED BY <1>1, <1>2 DEF ListOK

(***************************************************************************)
(* Of a list whose rows are unsettled where it differs from another, the   *)
(* settled rows are the other's.                                           *)
(***************************************************************************)
LEMMA SameSettled ==
    ASSUME NEW rs, NEW ss, Len(rs) \in Nat, Len(ss) \in Nat, Len(rs) <= Len(ss),
           \A i \in 1 .. Len(rs) : ss[i] # rs[i] =>
               rs[i].status \notin Settled /\ ss[i].status \notin Settled,
           \A i \in 1 .. Len(ss) : i \in 1 .. Len(rs) \/ ss[i].status \notin Settled
    PROVE  SettledOf(ss) = SettledOf(rs)
<1>1. ASSUME NEW row \in SettledOf(ss)
      PROVE  row \in SettledOf(rs)
    <2>1. PICK i \in 1 .. Len(ss) : row = ss[i]
        BY <1>1 DEF SettledOf, RowsOf
    <2>2. ss[i].status \in Settled
        BY <1>1, <2>1 DEF SettledOf
    <2>3. i \in 1 .. Len(rs) /\ ss[i] = rs[i]
        BY <2>2
    <2> QED BY <2>1, <2>2, <2>3 DEF SettledOf, RowsOf
<1>2. ASSUME NEW row \in SettledOf(rs)
      PROVE  row \in SettledOf(ss)
    <2>1. PICK i \in 1 .. Len(rs) : row = rs[i]
        BY <1>2 DEF SettledOf, RowsOf
    <2>2. rs[i].status \in Settled
        BY <1>2, <2>1 DEF SettledOf
    <2>3. i \in 1 .. Len(ss) /\ ss[i] = rs[i]
        BY <2>2
    <2> QED BY <2>1, <2>2, <2>3 DEF SettledOf, RowsOf
<1> QED BY <1>1, <1>2

(***************************************************************************)
(* The row FirstOpen names is an open row of its type and kind.            *)
(***************************************************************************)
LEMMA FirstOpenIsOpen ==
    ASSUME NEW rs, Len(rs) \in Nat, NEW t, NEW kind, OpenRows(rs, t, kind) # {}
    PROVE  FirstOpen(rs, t, kind) \in OpenRows(rs, t, kind)
<1>1. OpenRows(rs, t, kind) \subseteq Nat
    BY DEF OpenRows
<1>2. \E i \in OpenRows(rs, t, kind) : \A j \in OpenRows(rs, t, kind) : i <= j
    BY <1>1, LeastNatural
<1> QED BY <1>2 DEF FirstOpen

(***************************************************************************)
(* The numbers up to n are n.                                              *)
(***************************************************************************)
LEMMA UpToFinite ==
    ASSUME NEW n \in Nat
    PROVE  IsFiniteSet(1 .. n) /\ Cardinality(1 .. n) = n
<1>1. 1 \in Int /\ n \in Int
    OBVIOUS
<1>2. /\ IsFiniteSet(1 .. n)
      /\ Cardinality(1 .. n) = IF 1 > n THEN 0 ELSE n - 1 + 1
    BY <1>1, FS_Interval
<1>3. (IF 1 > n THEN 0 ELSE n - 1 + 1) = n
    OBVIOUS
<1> QED BY <1>2, <1>3

(***************************************************************************)
(* The least free suffix exists: a list of n rows cannot hold n + 1 ids.   *)
(***************************************************************************)
LEMMA ProposalIdIsFree ==
    ASSUME NEW rs, rs \in Seq(Rows), NEW base \in Bases, NEW t \in Types
    PROVE  /\ FreeProposalId(base, t, rs) \notin IdsOf(rs)
           /\ FreeProposalId(base, t, rs) \in Ids
<1> DEFINE N == 1 .. Len(rs) + 1
           Free == {n \in N : <<base, t, n>> \notin IdsOf(rs)}
<1>0. Len(rs) \in Nat
    OBVIOUS
<1>1. Free # {}
    <2> SUFFICES ASSUME Free = {} PROVE FALSE
        OBVIOUS
    <2>1. ASSUME NEW n \in N
          PROVE  \E i \in 1 .. Len(rs) : rs[i].id = <<base, t, n>>
        <3>1. <<base, t, n>> \in IdsOf(rs)
            OBVIOUS
        <3>2. PICK row \in RowsOf(rs) : row.id = <<base, t, n>>
            BY <3>1 DEF IdsOf
        <3> QED BY <3>2 DEF RowsOf
    <2> DEFINE f == [n \in N |-> CHOOSE i \in 1 .. Len(rs) : rs[i].id = <<base, t, n>>]
    <2>2. \A n \in N : f[n] \in 1 .. Len(rs) /\ rs[f[n]].id = <<base, t, n>>
        BY <2>1
    <2>3. f \in [N -> 1 .. Len(rs)]
        BY <2>2
    <2>4. /\ IsFiniteSet(N) /\ IsFiniteSet(1 .. Len(rs))
          /\ Cardinality(1 .. Len(rs)) < Cardinality(N)
        <3>1. IsFiniteSet(1 .. Len(rs)) /\ Cardinality(1 .. Len(rs)) = Len(rs)
            BY <1>0, UpToFinite
        <3>2. IsFiniteSet(N) /\ Cardinality(N) = Len(rs) + 1
            <4>1. Len(rs) + 1 \in Nat
                BY <1>0
            <4> QED BY <4>1, UpToFinite
        <3> QED BY <3>1, <3>2, <1>0
    <2> HIDE DEF f, N
    <2>5. \E x, y \in N : x # y /\ f[x] = f[y]
        BY <2>3, <2>4, FS_PigeonHole
    <2>6. PICK x \in N, y \in N : x # y /\ f[x] = f[y]
        BY <2>5
    <2>7. <<base, t, x>> = <<base, t, y>>
        BY <2>2, <2>6
    <2> QED BY <2>6, <2>7
<1>2. PICK n \in Free : \A m \in Free : n <= m
    <2>1. N \subseteq Nat
        BY <1>0
    <2>2. Free \subseteq N
        OBVIOUS
    <2> HIDE DEF Free, N
    <2> QED BY <2>1, <2>2, <1>1, LeastNatural
<1>3. \E k \in N : /\ <<base, t, k>> \notin IdsOf(rs)
                   /\ \A m \in 1 .. k - 1 : <<base, t, m>> \in IdsOf(rs)
    <2>1. ASSUME NEW m \in 1 .. n - 1
          PROVE  <<base, t, m>> \in IdsOf(rs)
        <3>1. m \in N /\ ~(n <= m)
            BY <1>0
        <3> QED BY <3>1, <1>2
    <2> QED BY <2>1
<1> DEFINE k == CHOOSE k \in N : /\ <<base, t, k>> \notin IdsOf(rs)
                                 /\ \A m \in 1 .. k - 1 : <<base, t, m>> \in IdsOf(rs)
<1>4. k \in N /\ <<base, t, k>> \notin IdsOf(rs)
    BY <1>3
<1>5. FreeProposalId(base, t, rs) = <<base, t, k>>
    BY DEF FreeProposalId
<1>6. k \in Nat
    BY <1>4, <1>0
<1> HIDE DEF k
<1>7. <<base, t, k>> \in Bases \X Types \X Nat
    BY <1>6
<1>8. <<base, t, k>> \in Ids
    BY <1>7 DEF Ids
<1> QED BY <1>4, <1>5, <1>8

(***************************************************************************)
(* An id no row has differs from every row's.                              *)
(***************************************************************************)
LEMMA FreshId ==
    ASSUME NEW rs, NEW id, id \notin IdsOf(rs)
    PROVE  \A i \in 1 .. Len(rs) : rs[i].id # id
BY DEF IdsOf, RowsOf

(***************************************************************************)
(* A curated candidate is added once: the list stays well formed, nothing  *)
(* settled changes, no gate and no list of terms does.                     *)
(***************************************************************************)
LEMMA UpsertCandidateKeeps ==
    ASSUME PatternAssumptions, NEW rs, ListOK(rs), NEW t \in Types
    PROVE  LET ss == UpsertCandidate(rs, t) IN
           /\ Keeps(rs, ss)
           /\ KeepsGates(rs, ss)
           /\ \A u : KnownTerms(ss, u) = KnownTerms(rs, u)
           /\ OpenRows(ss, t, "deny_list") = OpenRows(rs, t, "deny_list")
           /\ \A i \in OpenRows(rs, t, "deny_list") : ss[i] = rs[i]
           /\ RowsOf(rs) \subseteq RowsOf(ss)
           /\ <<"candidate", t, 1>> \in IdsOf(ss)
<1> DEFINE id == <<"candidate", t, 1>>
           row == Row(id, t, "regex", NoGate, {}, "proposed")
           ss == Append(rs, row)
<1>0. Len(rs) \in Nat
    BY DEF ListOK
<1>1. CASE id \in IdsOf(rs)
    <2>1. UpsertCandidate(rs, t) = rs
        BY <1>1 DEF UpsertCandidate
    <2> QED BY <2>1, <1>1, <1>0 DEF Keeps, KeepsGates
<1>2. CASE id \notin IdsOf(rs)
    <2>1. row \in Rows /\ RowOK(row)
        <3>1. id \in Bases \X Types \X Nat
            BY DEF Bases
        <3>2. id \in Ids
            BY <3>1 DEF Ids
        <3>3. row \in Rows
            BY <3>2 DEF Row, Rows, Kinds, Statuses, Settled
        <3>4. RowOK(row)
            BY DEF Row, RowOK, Approvable
        <3> QED BY <3>3, <3>4
    <2>2. \A i \in 1 .. Len(rs) : PairOK(rs[i], row)
        <3>1. ASSUME NEW i \in 1 .. Len(rs)
              PROVE  PairOK(rs[i], row)
            <4>1. rs[i].id # row.id
                BY <1>2, FreshId DEF Row
            <4>2. /\ row.kind = "regex" /\ row.terms = {} 
                  /\ row.kind # "threshold" /\ row.kind # "deny_list"
                BY DEF Row
            <4> HIDE DEF row
            <4> QED BY <4>1, <4>2 DEF PairOK
        <3> QED BY <3>1
    <2>3. row.kind = "regex" /\ row.status = "proposed" /\ row.terms = {} /\ row.id = id
        BY DEF Row
    <2> HIDE DEF row
    <2>4. /\ ListOK(ss)
          /\ Len(ss) = Len(rs) + 1
          /\ \A i \in 1 .. Len(rs) : ss[i] = rs[i]
          /\ ss[Len(rs) + 1] = row
          /\ RowsOf(ss) = RowsOf(rs) \cup {row}
        BY <2>1, <2>2, AppendOK
    <2> HIDE DEF ss
    <2>5. \A i \in 1 .. Len(ss) : i \in 1 .. Len(rs) \/ i = Len(rs) + 1
        BY <1>0, <2>4
    <2>6. SettledOf(ss) = SettledOf(rs)
        BY <2>3, <2>4 DEF SettledOf, Settled
    <2>7. KeepsGates(rs, ss)
        BY <2>3, <2>4, <2>5 DEF KeepsGates
    <2>8. \A u : KnownTerms(ss, u) = KnownTerms(rs, u)
        BY <2>3, <2>4 DEF KnownTerms
    <2>9. OpenRows(ss, t, "deny_list") = OpenRows(rs, t, "deny_list")
        <3>1. \A i \in 1 .. Len(rs) : i \in 1 .. Len(ss)
            BY <1>0, <2>4
        <3> QED BY <3>1, <2>3, <2>4, <2>5 DEF OpenRows
    <2>10. \A i \in OpenRows(rs, t, "deny_list") : ss[i] = rs[i]
        BY <2>4 DEF OpenRows
    <2>11. id \in IdsOf(ss)
        BY <2>3, <2>4 DEF IdsOf
    <2>12. Keeps(rs, ss)
        BY <2>4, <2>6, <1>0 DEF Keeps
    <2>13. UpsertCandidate(rs, t) = ss
        BY <1>2 DEF UpsertCandidate, ss, row
    <2> QED BY <2>4, <2>7, <2>8, <2>9, <2>10, <2>11, <2>12, <2>13
<1> QED BY <1>1, <1>2

(***************************************************************************)
(* A threshold upsert: the gate of an open row goes down, or a row is      *)
(* added; both only when no settled row covers the needed gate. Every gate *)
(* that is new is the needed one.                                          *)
(***************************************************************************)
LEMMA UpsertThresholdKeeps ==
    ASSUME PatternAssumptions, NEW rs, ListOK(rs), NEW t \in Types, NEW needed \in Gates
    PROVE  LET ss == UpsertThreshold(rs, t, needed) IN
           /\ Keeps(rs, ss)
           /\ \A i \in 1 .. Len(ss) : ss[i].kind = "threshold" =>
                 \/ i \in 1 .. Len(rs) /\ rs[i].kind = "threshold" /\ ss[i].type = rs[i].type
                    /\ ss[i].gate = rs[i].gate
                 \/ ~GateIsSettled(rs, t, needed) /\ ss[i].gate = needed /\ ss[i].type = t
           /\ \/ GateIsSettled(rs, t, needed)
              \/ \E i \in OpenRows(ss, t, "threshold") : ss[i].gate <= needed
           /\ \A u : KnownTerms(ss, u) = KnownTerms(rs, u)
           /\ OpenRows(ss, t, "deny_list") = OpenRows(rs, t, "deny_list")
           /\ \A i \in OpenRows(rs, t, "deny_list") : ss[i] = rs[i]
           /\ IdsOf(rs) \subseteq IdsOf(ss)
<1> DEFINE ss == UpsertThreshold(rs, t, needed)
<1>0. Len(rs) \in Nat /\ rs \in Seq(Rows) /\ \A i \in 1 .. Len(rs) : rs[i] \in Rows
    BY DEF ListOK
<1>1. CASE GateIsSettled(rs, t, needed)
    <2>1. ss = rs
        BY <1>1 DEF UpsertThreshold
    <2> QED BY <2>1, <1>1, <1>0 DEF Keeps
<1>2. CASE ~GateIsSettled(rs, t, needed) /\ OpenRows(rs, t, "threshold") # {}
    <2> DEFINE k == FirstOpen(rs, t, "threshold")
               row == [rs[k] EXCEPT !.gate = IF needed < @ THEN needed ELSE @]
    <2>1. k \in OpenRows(rs, t, "threshold")
        BY <1>0, <1>2, FirstOpenIsOpen
    <2>2. /\ k \in 1 .. Len(rs) /\ rs[k].kind = "threshold"
          /\ rs[k].type = t /\ rs[k].status = "proposed" /\ rs[k] \in Rows
        BY <2>1, <1>0 DEF OpenRows
    <2>3. ss = [rs EXCEPT ![k] = row]
        BY <1>2 DEF UpsertThreshold
    <2> HIDE DEF k
    <2>4. RowOK(rs[k]) /\ rs[k].gate \in Nat /\ rs[k].gate \in Gates
        BY <2>2 DEF ListOK, RowOK, Approvable
    <2>5. /\ row \in Rows
          /\ row.gate \in Gates /\ row.gate <= needed /\ row.gate <= rs[k].gate
          /\ row.gate = needed \/ row.gate = rs[k].gate
          /\ row.id = rs[k].id /\ row.type = rs[k].type /\ row.kind = rs[k].kind
          /\ row.terms = rs[k].terms /\ row.status = rs[k].status /\ row.owner = rs[k].owner
        BY <2>2, <2>4 DEF Rows, PatternAssumptions
    <2> HIDE DEF row
    <2>6. row.gate \in Nat /\ RowOK(row)
        BY <2>2, <2>4, <2>5 DEF RowOK, Approvable, PatternAssumptions
    <2>7. ASSUME NEW i \in 1 .. Len(rs), i < k
          PROVE  PairOK(rs[i], row)
        <3>1. PairOK(rs[i], rs[k])
            BY <2>2, <2>7 DEF ListOK
        <3>2. rs[i].kind = "threshold" => rs[i].gate \in Nat
            BY DEF ListOK, RowOK
        <3>3. rs[k].gate < rs[i].gate /\ rs[i].gate \in Nat => row.gate < rs[i].gate
            BY <2>4, <2>5, <2>6
        <3> QED BY <3>1, <3>2, <3>3, <2>2, <2>5 DEF PairOK
    <2>8. ASSUME NEW j \in 1 .. Len(rs), k < j
          PROVE  PairOK(row, rs[j])
        <3>1. PairOK(rs[k], rs[j])
            BY <2>2, <2>8 DEF ListOK
        <3>2. rs[k].status \notin Settled
            BY <2>2 DEF Settled
        <3> QED BY <3>1, <3>2, <2>2, <2>5 DEF PairOK
    <2>9. /\ ListOK(ss)
          /\ Len(ss) = Len(rs)
          /\ \A i \in 1 .. Len(rs) : ss[i] = IF i = k THEN row ELSE rs[i]
        <3>1. /\ ss \in Seq(Rows)
              /\ Len(ss) = Len(rs)
              /\ \A i \in 1 .. Len(rs) : ss[i] = IF i = k THEN row ELSE rs[i]
            BY <1>0, <2>2, <2>3, <2>5, ExceptSeq
        <3> HIDE DEF ss
        <3>2. \A i \in 1 .. Len(rs) : i < k => PairOK(rs[i], row)
            BY <2>7
        <3>3. \A j \in 1 .. Len(rs) : k < j => PairOK(row, rs[j])
            BY <2>8
        <3>4. ListOK(ss)
            BY <3>1, <3>2, <3>3, <2>2, <2>5, <2>6, EditOK
        <3> QED BY <3>1, <3>4
    <2> HIDE DEF ss
    <2>10. SettledOf(ss) = SettledOf(rs)
        <3>1. rs[k].status \notin Settled /\ row.status \notin Settled
            BY <2>2, <2>5 DEF Settled
        <3>2. \A i \in 1 .. Len(rs) : ss[i] # rs[i] =>
                 rs[i].status \notin Settled /\ ss[i].status \notin Settled
            BY <3>1, <2>9
        <3>3. Len(ss) \in Nat /\ Len(rs) <= Len(ss) /\ \A i \in 1 .. Len(ss) : i \in 1 .. Len(rs)
            BY <2>9, <1>0
        <3>4. \A i \in 1 .. Len(ss) : i \in 1 .. Len(rs) \/ ss[i].status \notin Settled
            BY <3>3
        <3> QED BY <3>2, <3>3, <3>4, <1>0, SameSettled
    <2>11. Keeps(rs, ss)
        BY <2>9, <2>10, <1>0 DEF Keeps
    <2>12. k \in OpenRows(ss, t, "threshold") /\ ss[k].gate <= needed
        BY <2>2, <2>5, <2>9 DEF OpenRows
    <2>13. \A u : KnownTerms(ss, u) = KnownTerms(rs, u)
        <3> SUFFICES ASSUME NEW u PROVE KnownTerms(ss, u) = KnownTerms(rs, u)
            OBVIOUS
        <3>1. {r \in RowsOf(ss) : r.kind = "deny_list" /\ r.type = u}
              = {r \in RowsOf(rs) : r.kind = "deny_list" /\ r.type = u}
            BY <2>2, <2>5, <2>9 DEF RowsOf
        <3> QED BY <3>1 DEF KnownTerms
    <2>14. OpenRows(ss, t, "deny_list") = OpenRows(rs, t, "deny_list")
        BY <2>2, <2>5, <2>9 DEF OpenRows
    <2>15. \A i \in OpenRows(rs, t, "deny_list") : ss[i] = rs[i]
        BY <2>2, <2>9 DEF OpenRows
    <2>16. \A i \in 1 .. Len(rs) : ss[i].id = rs[i].id
        BY <2>5, <2>9
    <2>17. IdsOf(rs) \subseteq IdsOf(ss)
        BY <2>16, <2>9 DEF IdsOf, RowsOf
    <2>18. \A i \in 1 .. Len(ss) : ss[i].kind = "threshold" =>
                 \/ i \in 1 .. Len(rs) /\ rs[i].kind = "threshold" /\ ss[i].type = rs[i].type
                    /\ ss[i].gate = rs[i].gate
                 \/ ~GateIsSettled(rs, t, needed) /\ ss[i].gate = needed /\ ss[i].type = t
        BY <2>2, <2>5, <2>9, <1>2
    <2> QED BY <2>11, <2>12, <2>13, <2>14, <2>15, <2>17, <2>18 DEF ss
<1>3. CASE ~GateIsSettled(rs, t, needed) /\ OpenRows(rs, t, "threshold") = {}
    <2> DEFINE id == FreeProposalId("threshold", t, rs)
               row == Row(id, t, "threshold", needed, {}, "proposed")
    <2>1. id \notin IdsOf(rs) /\ id \in Ids
        <3>1. "threshold" \in Bases
            BY DEF Bases
        <3> QED BY <3>1, <1>0, ProposalIdIsFree
    <2>2. ss = Append(rs, row)
        BY <1>3 DEF UpsertThreshold
    <2> HIDE DEF id
    <2>3. needed \in Nat
        BY DEF PatternAssumptions
    <2>4. /\ row \in Rows /\ row.id = id /\ row.type = t /\ row.kind = "threshold"
          /\ row.gate = needed /\ row.terms = {} /\ row.status = "proposed"
        BY <2>1, <2>3 DEF Row, Rows, Kinds, Statuses, Settled
    <2> HIDE DEF row
    <2>5. RowOK(row)
        BY <2>3, <2>4 DEF RowOK, Approvable
    <2>6. ASSUME NEW i \in 1 .. Len(rs)
          PROVE  PairOK(rs[i], row)
        <3>1. rs[i].id # row.id
            BY <2>1, <2>4, FreshId
        <3>2. ASSUME rs[i].type = t, rs[i].kind = "threshold"
              PROVE  rs[i].status \in Settled /\ needed < rs[i].gate
            <4>1. RowOK(rs[i]) /\ rs[i] \in Rows
                BY <1>0 DEF ListOK
            <4>2. rs[i].status # "proposed"
                BY <3>2, <1>3 DEF OpenRows
            <4>3. rs[i].status \in Settled
                BY <3>2, <4>1, <4>2 DEF RowOK, Rows, Statuses
            <4>4. rs[i].gate \in Nat /\ ~(rs[i].gate <= needed)
                BY <3>2, <4>1, <4>3, <1>3 DEF RowOK, GateIsSettled, RowsOf
            <4> QED BY <4>3, <4>4, <2>3
        <3> QED BY <3>1, <3>2, <2>4 DEF PairOK
    <2>7. /\ ListOK(ss)
          /\ Len(ss) = Len(rs) + 1
          /\ \A i \in 1 .. Len(rs) : ss[i] = rs[i]
          /\ ss[Len(rs) + 1] = row
          /\ RowsOf(ss) = RowsOf(rs) \cup {row}
        BY <2>2, <2>4, <2>5, <2>6, AppendOK
    <2> HIDE DEF ss
    <2>8. \A i \in 1 .. Len(ss) : i \in 1 .. Len(rs) \/ i = Len(rs) + 1
        BY <1>0, <2>7
    <2>9. \A i \in 1 .. Len(rs) : i \in 1 .. Len(ss)
        BY <1>0, <2>7
    <2>10. SettledOf(ss) = SettledOf(rs)
        BY <2>4, <2>7 DEF SettledOf, Settled
    <2>11. Keeps(rs, ss)
        BY <2>7, <2>10, <1>0 DEF Keeps
    <2>12. Len(rs) + 1 \in OpenRows(ss, t, "threshold") /\ ss[Len(rs) + 1].gate <= needed
        BY <1>0, <2>3, <2>4, <2>7 DEF OpenRows
    <2>13. \A u : KnownTerms(ss, u) = KnownTerms(rs, u)
        <3> SUFFICES ASSUME NEW u PROVE KnownTerms(ss, u) = KnownTerms(rs, u)
            OBVIOUS
        <3>1. {r \in RowsOf(ss) : r.kind = "deny_list" /\ r.type = u}
              = {r \in RowsOf(rs) : r.kind = "deny_list" /\ r.type = u}
            BY <2>4, <2>7
        <3> QED BY <3>1 DEF KnownTerms
    <2>14. OpenRows(ss, t, "deny_list") = OpenRows(rs, t, "deny_list")
        BY <2>4, <2>7, <2>8, <2>9 DEF OpenRows
    <2>15. \A i \in OpenRows(rs, t, "deny_list") : ss[i] = rs[i]
        BY <2>7 DEF OpenRows
    <2>16. IdsOf(rs) \subseteq IdsOf(ss)
        BY <2>7 DEF IdsOf
    <2>17. \A i \in 1 .. Len(ss) : ss[i].kind = "threshold" =>
                 \/ i \in 1 .. Len(rs) /\ rs[i].kind = "threshold" /\ ss[i].type = rs[i].type
                    /\ ss[i].gate = rs[i].gate
                 \/ ~GateIsSettled(rs, t, needed) /\ ss[i].gate = needed /\ ss[i].type = t
        BY <2>4, <2>7, <2>8, <1>3
    <2> QED BY <2>11, <2>12, <2>13, <2>14, <2>15, <2>16, <2>17 DEF ss
<1> QED BY <1>1, <1>2, <1>3

(***************************************************************************)
(* A deny-list upsert with fresh terms that fit: they go to the open list, *)
(* or to a new one. Either way they are known afterwards, and the list     *)
(* they are on holds the terms the open one held and them.                 *)
(***************************************************************************)
LEMMA UpsertDenyKeeps ==
    ASSUME PatternAssumptions, NEW rs, ListOK(rs), NEW t \in Types, NEW kept,
           kept \subseteq Terms, kept \cap KnownTerms(rs, t) = {}, WithinCap(rs, t, kept)
    PROVE  LET ss == UpsertDeny(rs, t, kept) IN
           /\ Keeps(rs, ss)
           /\ KeepsGates(rs, ss)
           /\ OpenRows(rs, t, "deny_list") # {} =>
                 LET k == FirstOpen(rs, t, "deny_list") IN
                 /\ k \in OpenRows(ss, t, "deny_list")
                 /\ k \in 1 .. Len(rs)
                 /\ ss[k].terms = rs[k].terms \cup kept
                 /\ OpenRows(ss, t, "deny_list") = OpenRows(rs, t, "deny_list")
           /\ OpenRows(rs, t, "deny_list") = {} /\ kept # {} =>
                 \E k \in 1 .. Len(ss) :
                    /\ OpenRows(ss, t, "deny_list") = {k}
                    /\ ss[k].kind = "deny_list" /\ ss[k].type = t /\ ss[k].terms = kept
           /\ \A i \in 1 .. Len(rs) : /\ i \in 1 .. Len(ss)
                                      /\ ss[i].id = rs[i].id
                                      /\ ss[i].kind = rs[i].kind
                                      /\ ss[i].type = rs[i].type
                                      /\ rs[i].terms \subseteq ss[i].terms
<1> DEFINE ss == UpsertDeny(rs, t, kept)
           k == FirstOpen(rs, t, "deny_list")
<1>0. Len(rs) \in Nat /\ rs \in Seq(Rows) /\ \A i \in 1 .. Len(rs) : rs[i] \in Rows
    BY DEF ListOK
<1>1. \A x : x \subseteq Terms => IsFiniteSet(x) /\ Cardinality(x) \in Nat
    BY FS_Subset, FS_CardinalityType DEF PatternAssumptions
<1>2. CASE OpenRows(rs, t, "deny_list") # {}
    <2> DEFINE row == [rs[k] EXCEPT !.terms = @ \cup kept]
    <2>1. k \in OpenRows(rs, t, "deny_list")
        BY <1>0, <1>2, FirstOpenIsOpen
    <2>2. /\ k \in 1 .. Len(rs) /\ rs[k].kind = "deny_list"
          /\ rs[k].type = t /\ rs[k].status = "proposed" /\ rs[k] \in Rows
        BY <2>1, <1>0 DEF OpenRows
    <2>3. ss = [rs EXCEPT ![k] = row]
        BY <1>2 DEF UpsertDeny
    <2>4. Cardinality(kept) <= MaxListTerms - Cardinality(rs[k].terms)
        BY <1>2 DEF WithinCap
    <2> HIDE DEF k
    <2>5. RowOK(rs[k]) /\ Approvable(rs[k]) /\ rs[k].terms \subseteq Terms
        BY <2>2 DEF ListOK, RowOK, Rows
    <2>6. /\ row \in Rows /\ row.gate = rs[k].gate
          /\ row.id = rs[k].id /\ row.type = rs[k].type /\ row.kind = rs[k].kind
          /\ row.terms = rs[k].terms \cup kept
          /\ row.status = rs[k].status /\ row.owner = rs[k].owner
        BY <2>2 DEF Rows
    <2> HIDE DEF row
    <2>7. rs[k].terms \subseteq KnownTerms(rs, t)
        BY <2>2 DEF KnownTerms, RowsOf
    <2>8. Cardinality(row.terms) \in 1 .. MaxListTerms
        <3>1. IsFiniteSet(kept) /\ IsFiniteSet(rs[k].terms)
              /\ Cardinality(kept) \in Nat /\ Cardinality(rs[k].terms) \in Nat
            BY <1>1, <2>5
        <3>2. Cardinality(rs[k].terms \cup kept)
              = Cardinality(rs[k].terms) + Cardinality(kept) - Cardinality(rs[k].terms \cap kept)
            BY <3>1, FS_Union
        <3>3. rs[k].terms \cap kept = {}
            BY <2>7
        <3>4. Cardinality(rs[k].terms \cap kept) = 0
            BY <3>3, FS_EmptySet
        <3>5. Cardinality(rs[k].terms) \in 1 .. MaxListTerms
            BY <2>2, <2>5 DEF Approvable
        <3> QED BY <2>4, <2>6, <3>1, <3>2, <3>4, <3>5 DEF PatternAssumptions
    <2>9. RowOK(row)
        BY <2>2, <2>5, <2>6, <2>8 DEF RowOK, Approvable
    <2>10. ASSUME NEW i \in 1 .. Len(rs), i < k
           PROVE  PairOK(rs[i], row)
        <3>1. PairOK(rs[i], rs[k])
            BY <2>2, <2>10 DEF ListOK
        <3>2. rs[i].kind = "deny_list" /\ rs[i].type = t => rs[i].terms \cap kept = {}
            BY DEF KnownTerms, RowsOf
        <3> QED BY <3>1, <3>2, <2>2, <2>6 DEF PairOK
    <2>11. ASSUME NEW j \in 1 .. Len(rs), k < j
           PROVE  PairOK(row, rs[j])
        <3>1. PairOK(rs[k], rs[j])
            BY <2>2, <2>11 DEF ListOK
        <3>2. rs[k].status \notin Settled
            BY <2>2 DEF Settled
        <3> QED BY <3>1, <3>2, <2>2, <2>6 DEF PairOK
    <2>12. /\ ss \in Seq(Rows)
           /\ Len(ss) = Len(rs)
           /\ \A i \in 1 .. Len(rs) : ss[i] = IF i = k THEN row ELSE rs[i]
        BY <1>0, <2>2, <2>3, <2>6, ExceptSeq
    <2> HIDE DEF ss
    <2>13. ListOK(ss)
        <3>1. \A i \in 1 .. Len(rs) : i < k => PairOK(rs[i], row)
            BY <2>10
        <3>2. \A j \in 1 .. Len(rs) : k < j => PairOK(row, rs[j])
            BY <2>11
        <3> QED BY <3>1, <3>2, <2>2, <2>6, <2>9, <2>12, EditOK
    <2>14. SettledOf(ss) = SettledOf(rs)
        <3>1. rs[k].status \notin Settled /\ row.status \notin Settled
            BY <2>2, <2>6 DEF Settled
        <3>2. \A i \in 1 .. Len(rs) : ss[i] # rs[i] =>
                 rs[i].status \notin Settled /\ ss[i].status \notin Settled
            BY <3>1, <2>12
        <3>3. Len(ss) \in Nat /\ Len(rs) <= Len(ss) /\ \A i \in 1 .. Len(ss) : i \in 1 .. Len(rs)
            BY <2>12, <1>0
        <3>4. \A i \in 1 .. Len(ss) : i \in 1 .. Len(rs) \/ ss[i].status \notin Settled
            BY <3>3
        <3> QED BY <3>2, <3>3, <3>4, <1>0, SameSettled
    <2>15. Keeps(rs, ss)
        BY <2>12, <2>13, <2>14, <1>0 DEF Keeps
    <2>16. KeepsGates(rs, ss)
        BY <2>2, <2>6, <2>12 DEF KeepsGates
    <2>17. k \in OpenRows(ss, t, "deny_list") /\ ss[k].terms = rs[k].terms \cup kept
        BY <2>2, <2>6, <2>12 DEF OpenRows
    <2>18. \A i \in 1 .. Len(rs) : /\ i \in 1 .. Len(ss)
                                   /\ ss[i].id = rs[i].id
                                   /\ ss[i].kind = rs[i].kind
                                   /\ ss[i].type = rs[i].type
                                   /\ rs[i].terms \subseteq ss[i].terms
        BY <2>6, <2>12
    <2>19. OpenRows(ss, t, "deny_list") = OpenRows(rs, t, "deny_list")
        <3>1. \A i \in 1 .. Len(rs) : /\ ss[i].kind = rs[i].kind /\ ss[i].type = rs[i].type
                                      /\ ss[i].status = rs[i].status
            BY <2>6, <2>12
        <3> QED BY <3>1, <2>12 DEF OpenRows
    <2> QED BY <2>2, <2>15, <2>16, <2>17, <2>18, <2>19, <1>2 DEF ss, k
<1>3. CASE OpenRows(rs, t, "deny_list") = {} /\ kept = {}
    <2>1. ss = rs
        BY <1>3 DEF UpsertDeny
    <2> QED BY <2>1, <1>3, <1>0 DEF Keeps, KeepsGates
<1>4. CASE OpenRows(rs, t, "deny_list") = {} /\ kept # {}
    <2> DEFINE id == FreeProposalId("deny", t, rs)
               row == Row(id, t, "deny_list", NoGate, kept, "proposed")
    <2>1. id \notin IdsOf(rs) /\ id \in Ids
        <3>1. "deny" \in Bases
            BY DEF Bases
        <3> QED BY <3>1, <1>0, ProposalIdIsFree
    <2>2. ss = Append(rs, row)
        BY <1>4 DEF UpsertDeny
    <2> HIDE DEF id
    <2>3. /\ row \in Rows /\ row.id = id /\ row.type = t /\ row.kind = "deny_list"
          /\ row.gate = NoGate /\ row.terms = kept /\ row.status = "proposed"
        BY <2>1 DEF Row, Rows, Kinds, Statuses, Settled
    <2> HIDE DEF row
    <2>4. Cardinality(kept) \in 1 .. MaxListTerms
        <3>1. Cardinality(kept) <= MaxListTerms - 0
            BY <1>4 DEF WithinCap
        <3>2. IsFiniteSet(kept) /\ Cardinality(kept) \in Nat
            BY <1>1
        <3>3. Cardinality(kept) # 0
            BY <3>2, <1>4, FS_EmptySet
        <3> QED BY <3>1, <3>2, <3>3 DEF PatternAssumptions
    <2>5. RowOK(row)
        BY <2>3, <2>4 DEF RowOK, Approvable
    <2>6. ASSUME NEW i \in 1 .. Len(rs)
          PROVE  PairOK(rs[i], row)
        <3>1. rs[i].id # row.id
            BY <2>1, <2>3, FreshId
        <3>2. ASSUME rs[i].type = t, rs[i].kind = "deny_list"
              PROVE  rs[i].status \in Settled /\ rs[i].terms \cap kept = {}
            <4>1. RowOK(rs[i]) /\ rs[i] \in Rows
                BY <1>0 DEF ListOK
            <4>2. rs[i].status # "proposed"
                BY <3>2, <1>4 DEF OpenRows
            <4>3. rs[i].status \in Settled
                BY <3>2, <4>1, <4>2 DEF RowOK, Rows, Statuses
            <4>4. rs[i].terms \cap kept = {}
                BY <3>2 DEF KnownTerms, RowsOf
            <4> QED BY <4>3, <4>4
        <3> QED BY <3>1, <3>2, <2>3 DEF PairOK
    <2>7. /\ ListOK(ss)
          /\ Len(ss) = Len(rs) + 1
          /\ \A i \in 1 .. Len(rs) : ss[i] = rs[i]
          /\ ss[Len(rs) + 1] = row
          /\ RowsOf(ss) = RowsOf(rs) \cup {row}
        BY <2>2, <2>3, <2>5, <2>6, AppendOK
    <2> HIDE DEF ss
    <2>8. \A i \in 1 .. Len(ss) : i \in 1 .. Len(rs) \/ i = Len(rs) + 1
        BY <1>0, <2>7
    <2>9. \A i \in 1 .. Len(rs) : i \in 1 .. Len(ss)
        BY <1>0, <2>7
    <2>10. SettledOf(ss) = SettledOf(rs)
        BY <2>3, <2>7 DEF SettledOf, Settled
    <2>11. Keeps(rs, ss)
        BY <2>7, <2>10, <1>0 DEF Keeps
    <2>12. KeepsGates(rs, ss)
        BY <2>3, <2>7, <2>8 DEF KeepsGates
    <2>13. Len(rs) + 1 \in 1 .. Len(ss)
        BY <1>0, <2>7
    <2>14. OpenRows(ss, t, "deny_list") = {Len(rs) + 1}
        <3>1. \A i \in 1 .. Len(rs) : i \notin OpenRows(ss, t, "deny_list")
            BY <2>7, <1>4 DEF OpenRows
        <3>2. Len(rs) + 1 \in OpenRows(ss, t, "deny_list")
            BY <2>3, <2>7, <2>13 DEF OpenRows
        <3>3. OpenRows(ss, t, "deny_list") \subseteq 1 .. Len(ss)
            BY DEF OpenRows
        <3> QED BY <3>1, <3>2, <3>3, <2>8
    <2>15. \E k1 \in 1 .. Len(ss) :
              /\ OpenRows(ss, t, "deny_list") = {k1}
              /\ ss[k1].kind = "deny_list" /\ ss[k1].type = t /\ ss[k1].terms = kept
        BY <2>3, <2>7, <2>13, <2>14
    <2> QED BY <2>7, <2>9, <2>11, <2>12, <2>15, <1>4 DEF ss
<1> QED BY <1>2, <1>3, <1>4

(***************************************************************************)
(* The manual row is added once and touches no gate and no list of terms.  *)
(***************************************************************************)
LEMMA UpsertManualKeeps ==
    ASSUME PatternAssumptions, NEW rs, ListOK(rs), NEW t \in Types
    PROVE  LET ss == UpsertManual(rs, t) IN
           /\ Keeps(rs, ss)
           /\ KeepsGates(rs, ss)
           /\ KeepsLists(rs, ss)
           /\ RowsOf(rs) \subseteq RowsOf(ss)
           /\ ManualId(t) \in IdsOf(ss)
<1> DEFINE row == Row(ManualId(t), t, "none", NoGate, {}, "manual")
           ss == Append(rs, row)
<1>0. Len(rs) \in Nat
    BY DEF ListOK
<1>1. CASE ManualId(t) \in IdsOf(rs)
    <2>1. UpsertManual(rs, t) = rs
        BY <1>1 DEF UpsertManual
    <2> QED BY <2>1, <1>1, <1>0 DEF Keeps, KeepsGates, KeepsLists
<1>2. CASE ManualId(t) \notin IdsOf(rs)
    <2>1. ManualId(t) \in Ids
        <3>1. ManualId(t) \in Bases \X Types \X Nat
            BY DEF Bases, ManualId
        <3> QED BY <3>1 DEF Ids
    <2>2. /\ row \in Rows /\ row.id = ManualId(t) /\ row.type = t /\ row.kind = "none"
          /\ row.terms = {} /\ row.status = "manual"
        BY <2>1 DEF Row, Rows, Statuses
    <2>3. UpsertManual(rs, t) = ss
        BY <1>2 DEF UpsertManual
    <2> HIDE DEF row
    <2>4. RowOK(row)
        BY <2>2 DEF RowOK
    <2>5. ASSUME NEW i \in 1 .. Len(rs)
          PROVE  PairOK(rs[i], row)
        <3>1. rs[i].id # row.id
            BY <1>2, <2>2, FreshId
        <3> QED BY <3>1, <2>2 DEF PairOK
    <2>6. /\ ListOK(ss)
          /\ Len(ss) = Len(rs) + 1
          /\ \A i \in 1 .. Len(rs) : ss[i] = rs[i]
          /\ ss[Len(rs) + 1] = row
          /\ RowsOf(ss) = RowsOf(rs) \cup {row}
        BY <2>2, <2>4, <2>5, AppendOK
    <2> HIDE DEF ss
    <2>7. \A i \in 1 .. Len(ss) : i \in 1 .. Len(rs) \/ i = Len(rs) + 1
        BY <1>0, <2>6
    <2>8. SettledOf(ss) = SettledOf(rs)
        BY <2>2, <2>6 DEF SettledOf, Settled
    <2>9. Keeps(rs, ss)
        BY <2>6, <2>8, <1>0 DEF Keeps
    <2>10. KeepsGates(rs, ss)
        BY <2>2, <2>6, <2>7 DEF KeepsGates
    <2>11. ManualId(t) \in IdsOf(ss)
        BY <2>2, <2>6 DEF IdsOf
    <2>12. KeepsLists(rs, ss)
        <3>1. \A i \in 1 .. Len(rs) : i \in 1 .. Len(ss)
            BY <1>0, <2>6
        <3> QED BY <3>1, <2>2, <2>6, <2>7 DEF KeepsLists
    <2> QED BY <2>3, <2>6, <2>9, <2>10, <2>11, <2>12
<1> QED BY <1>1, <1>2

(***************************************************************************)
(* Superseding a manual row changes its status and nothing else.           *)
(***************************************************************************)
LEMMA SupersedeKeeps ==
    ASSUME PatternAssumptions, NEW rs, ListOK(rs), NEW t \in Types
    PROVE  LET ss == Supersede(rs, t) IN
           /\ Keeps(rs, ss)
           /\ KeepsGates(rs, ss)
           /\ KeepsLists(rs, ss)
           /\ Len(ss) = Len(rs)
           /\ \A i \in 1 .. Len(rs) :
                 \/ ss[i] = rs[i]
                 \/ rs[i].kind = "none" /\ ss[i].kind = "none" /\ ss[i].id = rs[i].id
<1> DEFINE ss == Supersede(rs, t)
           Old(i) == rs[i].id = ManualId(t) /\ rs[i].status = "manual"
<1>0. Len(rs) \in Nat /\ rs \in Seq(Rows) /\ \A i \in 1 .. Len(rs) : rs[i] \in Rows
    BY DEF ListOK
<1>1. /\ Len(ss) = Len(rs)
      /\ \A i \in 1 .. Len(rs) :
            ss[i] = IF Old(i) THEN [rs[i] EXCEPT !.status = "superseded"] ELSE rs[i]
    BY <1>0 DEF Supersede
<1>2. ASSUME NEW i \in 1 .. Len(rs), Old(i)
      PROVE  /\ rs[i].kind = "none" /\ ss[i] \in Rows
             /\ ss[i].id = rs[i].id /\ ss[i].kind = "none" /\ ss[i].terms = rs[i].terms
             /\ ss[i].owner = rs[i].owner /\ ss[i].status = "superseded"
             /\ rs[i].status = "manual"
    <2>1. rs[i] \in Rows /\ RowOK(rs[i])
        BY <1>0 DEF ListOK
    <2>2. rs[i].kind = "none"
        BY <2>1, <1>2 DEF RowOK
    <2>3. ss[i] = [rs[i] EXCEPT !.status = "superseded"]
        BY <1>1, <1>2
    <2> HIDE DEF ss
    <2> QED BY <2>1, <2>2, <2>3, <1>2 DEF Rows, Statuses
<1>3. ASSUME NEW i \in 1 .. Len(rs), ~Old(i)
      PROVE  ss[i] = rs[i]
    BY <1>1, <1>3
<1>4. ss \in Seq(Rows)
    <2>1. \A i \in 1 .. Len(rs) : ss[i] \in Rows
        BY <1>0, <1>2, <1>3
    <2>2. ss = [i \in 1 .. Len(rs) |-> ss[i]]
        BY DEF Supersede
    <2> HIDE DEF ss
    <2>3. ss \in [1 .. Len(rs) -> Rows]
        BY <2>1, <2>2
    <2> QED BY <2>3, <1>0
<1> HIDE DEF ss
<1>5. \A i \in 1 .. Len(rs) : \/ ss[i] = rs[i]
                              \/ /\ rs[i].kind = "none" /\ ss[i].kind = "none"
                                 /\ ss[i].id = rs[i].id /\ ss[i].terms = rs[i].terms
                                 /\ ss[i].owner = rs[i].owner /\ ss[i].status = "superseded"
                                 /\ rs[i].status = "manual"
    BY <1>2, <1>3
<1> HIDE DEF Old
<1>6. ASSUME NEW i \in 1 .. Len(ss)
      PROVE  RowOK(ss[i])
    <2>1. i \in 1 .. Len(rs) /\ RowOK(rs[i])
        BY <1>1 DEF ListOK
    <2> QED BY <2>1, <1>5 DEF RowOK
<1>7. ASSUME NEW i \in 1 .. Len(ss), NEW j \in 1 .. Len(ss), i < j
      PROVE  PairOK(ss[i], ss[j])
    <2>1. i \in 1 .. Len(rs) /\ j \in 1 .. Len(rs)
        BY <1>1
    <2>2. PairOK(rs[i], rs[j]) /\ RowOK(rs[i]) /\ RowOK(rs[j])
        BY <2>1, <1>7 DEF ListOK
    <2>3. ss[i].id # ss[j].id
        BY <2>1, <2>2, <1>5 DEF PairOK
    <2>4. CASE ss[i] = rs[i] /\ ss[j] = rs[j]
        BY <2>2, <2>4
    <2>5. CASE ss[i].kind = "none"
        <3>1. RowOK(ss[i])
            BY <1>6
        <3>2. ~ss[i].owner => ss[i].terms = {}
            BY <3>1, <2>5 DEF RowOK
        <3> QED BY <3>2, <2>3, <2>5 DEF PairOK
    <2>6. CASE ss[j].kind = "none"
        <3>1. RowOK(ss[j])
            BY <1>6
        <3>2. ~ss[j].owner => ss[j].terms = {}
            BY <3>1, <2>6 DEF RowOK
        <3> QED BY <3>2, <2>3, <2>6 DEF PairOK
    <2> QED BY <2>1, <2>4, <2>5, <2>6, <1>5
<1>8. ListOK(ss)
    BY <1>4, <1>6, <1>7 DEF ListOK
<1>9. SettledOf(ss) = SettledOf(rs)
    <2>1. \A i \in 1 .. Len(rs) : ss[i] # rs[i] =>
             rs[i].status \notin Settled /\ ss[i].status \notin Settled
        BY <1>5 DEF Settled
    <2>2. Len(ss) \in Nat /\ Len(rs) <= Len(ss) /\ \A i \in 1 .. Len(ss) : i \in 1 .. Len(rs)
        BY <1>0, <1>1
    <2>3. \A i \in 1 .. Len(ss) : i \in 1 .. Len(rs) \/ ss[i].status \notin Settled
        BY <2>2
    <2> QED BY <2>1, <2>2, <2>3, <1>0, SameSettled
<1>10. Keeps(rs, ss)
    BY <1>0, <1>1, <1>8, <1>9 DEF Keeps
<1>11. KeepsGates(rs, ss)
    BY <1>1, <1>5 DEF KeepsGates
<1>12. KeepsLists(rs, ss)
    BY <1>1, <1>5 DEF KeepsLists
<1> QED BY <1>1, <1>5, <1>10, <1>11, <1>12 DEF ss

(***************************************************************************)
(* Whether the open list is full is read off the deny lists.               *)
(***************************************************************************)
LEMMA FullnessKept ==
    ASSUME NEW rs, Len(rs) \in Nat, NEW ss, KeepsLists(rs, ss), NEW t
    PROVE  OpenListIsFull(ss, t) <=> OpenListIsFull(rs, t)
<1>1. /\ OpenRows(ss, t, "deny_list") = OpenRows(rs, t, "deny_list")
      /\ \A i \in OpenRows(rs, t, "deny_list") : ss[i] = rs[i]
    BY DEF OpenRows, KeepsLists
<1>2. FirstOpen(ss, t, "deny_list") = FirstOpen(rs, t, "deny_list")
    BY <1>1 DEF FirstOpen
<1>3. CASE OpenRows(rs, t, "deny_list") = {}
    BY <1>1, <1>3 DEF OpenListIsFull
<1>4. CASE OpenRows(rs, t, "deny_list") # {}
    <2>1. FirstOpen(rs, t, "deny_list") \in OpenRows(rs, t, "deny_list")
        BY <1>4, FirstOpenIsOpen
    <2> QED BY <2>1, <1>1, <1>2, <1>4 DEF OpenListIsFull
<1> QED BY <1>3, <1>4

(***************************************************************************)
(* Which gates are settled is read off the settled rows.                   *)
(***************************************************************************)
LEMMA SettledDecides ==
    ASSUME NEW rs, NEW ss, SettledOf(ss) = SettledOf(rs), NEW t, NEW g
    PROVE  GateIsSettled(ss, t, g) <=> GateIsSettled(rs, t, g)
<1>1. \A qs : GateIsSettled(qs, t, g) <=>
                 \E row \in SettledOf(qs) : row.kind = "threshold" /\ row.type = t /\ row.gate <= g
    BY DEF GateIsSettled, SettledOf
<1> QED BY <1>1

(***************************************************************************)
(* What fits the open list is read off the open rows.                      *)
(***************************************************************************)
LEMMA OpenDecides ==
    ASSUME NEW rs, Len(rs) \in Nat, NEW ss, NEW t, NEW kept,
           OpenRows(ss, t, "deny_list") = OpenRows(rs, t, "deny_list"),
           \A i \in OpenRows(rs, t, "deny_list") : ss[i] = rs[i]
    PROVE  WithinCap(ss, t, kept) <=> WithinCap(rs, t, kept)
<1>1. FirstOpen(ss, t, "deny_list") = FirstOpen(rs, t, "deny_list")
    BY DEF FirstOpen
<1>2. CASE OpenRows(rs, t, "deny_list") = {}
    BY <1>2 DEF WithinCap
<1>3. CASE OpenRows(rs, t, "deny_list") # {}
    <2>1. FirstOpen(rs, t, "deny_list") \in OpenRows(rs, t, "deny_list")
        BY <1>3, FirstOpenIsOpen
    <2> QED BY <2>1, <1>1, <1>3 DEF WithinCap
<1> QED BY <1>2, <1>3

(***************************************************************************)
(* The terms of a run after its deny upsert: each is known, or the list it *)
(* belongs on is full. It is the list's cap that leaves a term out.        *)
(***************************************************************************)
LEMMA TermsAnswered ==
    ASSUME PatternAssumptions, NEW rs, ListOK(rs), NEW t \in Types, NEW terms, NEW kept,
           kept \subseteq Terms, kept \cap KnownTerms(rs, t) = {}, WithinCap(rs, t, kept),
           \A x \in terms : x \in KnownTerms(rs, t) \/ x \in kept
                              \/ ~WithinCap(rs, t, kept \cup {x})
    PROVE  Listed(UpsertDeny(rs, t, kept), t, terms)
<1> DEFINE ss == UpsertDeny(rs, t, kept)
           k == FirstOpen(rs, t, "deny_list")
<1>0. Len(rs) \in Nat /\ \A i \in 1 .. Len(rs) : rs[i] \in Rows
    BY DEF ListOK
<1>1. /\ Keeps(rs, ss)
      /\ OpenRows(rs, t, "deny_list") # {} =>
            /\ k \in OpenRows(ss, t, "deny_list")
            /\ k \in 1 .. Len(rs)
            /\ ss[k].terms = rs[k].terms \cup kept
            /\ OpenRows(ss, t, "deny_list") = OpenRows(rs, t, "deny_list")
      /\ OpenRows(rs, t, "deny_list") = {} /\ kept # {} =>
            \E n \in 1 .. Len(ss) :
               /\ OpenRows(ss, t, "deny_list") = {n}
               /\ ss[n].kind = "deny_list" /\ ss[n].type = t /\ ss[n].terms = kept
      /\ \A i \in 1 .. Len(rs) : /\ i \in 1 .. Len(ss)
                                 /\ ss[i].kind = rs[i].kind
                                 /\ ss[i].type = rs[i].type
                                 /\ rs[i].terms \subseteq ss[i].terms
    BY UpsertDenyKeeps
<1> HIDE DEF ss
<1>2. OpenRows(rs, t, "deny_list") # {} => ss[k] \in RowsOf(ss) /\ ss[k].kind = "deny_list"
                                             /\ ss[k].type = t
    BY <1>1 DEF OpenRows, RowsOf
<1>3. ASSUME NEW x \in KnownTerms(rs, t)
      PROVE  \E row \in RowsOf(ss) : row.kind = "deny_list" /\ row.type = t /\ x \in row.terms
    <2>1. PICK r \in RowsOf(rs) : r.kind = "deny_list" /\ r.type = t /\ x \in r.terms
        BY DEF KnownTerms
    <2>2. PICK i \in 1 .. Len(rs) : r = rs[i]
        BY DEF RowsOf
    <2>3. ss[i] \in RowsOf(ss)
        BY <1>1 DEF RowsOf
    <2> QED BY <2>1, <2>2, <2>3, <1>1
<1>4. ASSUME NEW x \in kept
      PROVE  \E row \in RowsOf(ss) : row.kind = "deny_list" /\ row.type = t /\ x \in row.terms
    <2>1. CASE OpenRows(rs, t, "deny_list") # {}
        BY <2>1, <1>1, <1>2
    <2>2. CASE OpenRows(rs, t, "deny_list") = {}
        BY <2>2, <1>1 DEF RowsOf
    <2> QED BY <2>1, <2>2
<1>5. ASSUME NEW x \in terms, x \notin KnownTerms(rs, t), x \notin kept
      PROVE  OpenListIsFull(ss, t)
    <2>1. ~WithinCap(rs, t, kept \cup {x})
        BY <1>5
    <2>2. IsFiniteSet(kept) /\ Cardinality(kept) \in Nat
        BY FS_Subset, FS_CardinalityType DEF PatternAssumptions
    <2>3. Cardinality(kept \cup {x}) = Cardinality(kept) + 1
        BY <2>2, <1>5, FS_AddElement
    <2>4. CASE OpenRows(rs, t, "deny_list") # {}
        <3>0. k \in OpenRows(rs, t, "deny_list")
            BY <2>4, <1>0, FirstOpenIsOpen
        <3>1. rs[k].terms \subseteq KnownTerms(rs, t) /\ rs[k].terms \subseteq Terms
            BY <3>0, <1>0 DEF OpenRows, KnownTerms, RowsOf, Rows
        <3>2. IsFiniteSet(rs[k].terms) /\ Cardinality(rs[k].terms) \in Nat
            BY <3>1, FS_Subset, FS_CardinalityType DEF PatternAssumptions
        <3>3. /\ Cardinality(kept) <= MaxListTerms - Cardinality(rs[k].terms)
              /\ ~(Cardinality(kept \cup {x}) <= MaxListTerms - Cardinality(rs[k].terms))
            BY <2>1, <2>4 DEF WithinCap
        <3>4. rs[k].terms \cap kept = {}
            BY <3>1
        <3>5. Cardinality(rs[k].terms \cup kept)
              = Cardinality(rs[k].terms) + Cardinality(kept) - Cardinality(rs[k].terms \cap kept)
            BY <3>2, <2>2, FS_Union
        <3>6. Cardinality(rs[k].terms \cap kept) = 0
            BY <3>4, FS_EmptySet
        <3>7. Cardinality(ss[k].terms) = MaxListTerms
            <4>1. Cardinality(rs[k].terms \cup kept) = MaxListTerms
                <5> HIDE DEF k
                <5> QED BY <2>2, <2>3, <3>2, <3>3, <3>5, <3>6 DEF PatternAssumptions
            <4> QED BY <4>1, <1>1, <2>4
        <3>8. FirstOpen(ss, t, "deny_list") = k
            <4>1. FirstOpen(ss, t, "deny_list") = FirstOpen(rs, t, "deny_list")
                BY <2>4, <1>1 DEF FirstOpen
            <4> QED BY <4>1
        <3> QED BY <3>7, <3>8, <2>4, <1>1 DEF OpenListIsFull
    <2>5. CASE OpenRows(rs, t, "deny_list") = {}
        <3>1. /\ Cardinality(kept) <= MaxListTerms - 0
              /\ ~(Cardinality(kept \cup {x}) <= MaxListTerms - 0)
            BY <2>1, <2>5 DEF WithinCap
        <3>2. Cardinality(kept) = MaxListTerms
            BY <2>2, <2>3, <3>1 DEF PatternAssumptions
        <3>3. kept # {}
            BY <3>2, FS_EmptySet DEF PatternAssumptions
        <3>4. PICK n \in 1 .. Len(ss) : OpenRows(ss, t, "deny_list") = {n} /\ ss[n].terms = kept
            BY <3>3, <2>5, <1>1
        <3>5. FirstOpen(ss, t, "deny_list") \in OpenRows(ss, t, "deny_list")
            <4>1. Len(ss) \in Nat
                BY <1>1 DEF Keeps, ListOK
            <4> QED BY <4>1, <3>4, FirstOpenIsOpen
        <3> QED BY <3>2, <3>4, <3>5 DEF OpenListIsFull
    <2> QED BY <2>4, <2>5
<1>6. CASE terms \subseteq KnownTerms(rs, t) \cup kept
    BY <1>3, <1>4, <1>6 DEF ss, Listed
<1>7. CASE ~(terms \subseteq KnownTerms(rs, t) \cup kept)
    BY <1>5, <1>7 DEF ss, Listed
<1> QED BY <1>6, <1>7

(***************************************************************************)
(* All upserts of a run, in their order: what is settled stays, the list   *)
(* stays well formed, a new gate is the needed one and no settled row      *)
(* covered it, and everything the run brought is answered.                 *)
(***************************************************************************)
LEMMA UpsertProposalsKeeps ==
    ASSUME PatternAssumptions, ListOK(rows), NEW t \in Types,
           NEW curated \in BOOLEAN, NEW gate \in Gates \cup {NoGate}, NEW terms, NEW kept,
           NEW manual \in BOOLEAN,
           terms \subseteq Terms, kept \subseteq terms \ KnownTerms(rows, t),
           WithinCap(rows, t, kept),
           \A x \in terms \ (KnownTerms(rows, t) \cup kept) : ~WithinCap(rows, t, kept \cup {x})
    PROVE  LET ss == UpsertProposals(t, curated, gate, terms, kept, manual) IN
           /\ Keeps(rows, ss)
           /\ \A i \in 1 .. Len(ss) : ss[i].kind = "threshold" =>
                 \/ i \in 1 .. Len(rows) /\ ss[i].gate = rows[i].gate
                 \/ /\ gate # NoGate /\ ~GateIsSettled(rows, t, gate)
                    /\ ss[i].gate = gate /\ ss[i].type = t
           /\ gate # NoGate => \/ GateIsSettled(ss, t, gate)
                               \/ \E i \in OpenRows(ss, t, "threshold") : ss[i].gate <= gate
           /\ \/ terms \subseteq KnownTerms(ss, t)
              \/ OpenListIsFull(ss, t)
           /\ manual => ManualId(t) \in IdsOf(ss)
           /\ curated => <<"candidate", t, 1>> \in IdsOf(ss)
<1> DEFINE rs1 == IF curated THEN UpsertCandidate(rows, t) ELSE rows
           rs2 == IF gate = NoGate THEN rs1 ELSE UpsertThreshold(rs1, t, gate)
           rs3 == IF terms = {} THEN rs2 ELSE UpsertDeny(rs2, t, kept)
           rs4 == IF manual THEN UpsertManual(rs3, t) ELSE rs3
           ss == UpsertProposals(t, curated, gate, terms, kept, manual)
           OldOrNew(qs) == \A i \in 1 .. Len(qs) : qs[i].kind = "threshold" =>
                 \/ i \in 1 .. Len(rows) /\ qs[i].gate = rows[i].gate
                 \/ /\ gate # NoGate /\ ~GateIsSettled(rows, t, gate)
                    /\ qs[i].gate = gate /\ qs[i].type = t
           Met(qs) == gate # NoGate => \/ GateIsSettled(qs, t, gate)
                         \/ \E i \in OpenRows(qs, t, "threshold") : qs[i].gate <= gate
           Candidate(qs) == curated => <<"candidate", t, 1>> \in IdsOf(qs)
<1>0. Len(rows) \in Nat
    BY DEF ListOK
<1>1. /\ Keeps(rows, rs1) /\ KeepsGates(rows, rs1)
      /\ KnownTerms(rs1, t) = KnownTerms(rows, t)
      /\ OpenRows(rs1, t, "deny_list") = OpenRows(rows, t, "deny_list")
      /\ \A i \in OpenRows(rows, t, "deny_list") : rs1[i] = rows[i]
      /\ Candidate(rs1)
    <2>1. CASE curated
        <3>1. rs1 = UpsertCandidate(rows, t)
            BY <2>1
        <3> HIDE DEF rs1
        <3> QED BY <3>1, UpsertCandidateKeeps
    <2>2. CASE ~curated
        <3>1. rs1 = rows
            BY <2>2
        <3> HIDE DEF rs1
        <3> QED BY <3>1, <2>2, <1>0 DEF Keeps, KeepsGates
    <2> QED BY <2>1, <2>2
<1> HIDE DEF rs1
<1>2. GateIsSettled(rs1, t, gate) <=> GateIsSettled(rows, t, gate)
    BY <1>1, SettledDecides DEF Keeps
<1>3. ListOK(rs1) /\ Len(rs1) \in Nat /\ Len(rows) <= Len(rs1)
    BY <1>1 DEF Keeps, ListOK
<1>4. /\ Keeps(rows, rs2) /\ OldOrNew(rs2) /\ Met(rs2)
      /\ KnownTerms(rs2, t) = KnownTerms(rows, t)
      /\ OpenRows(rs2, t, "deny_list") = OpenRows(rows, t, "deny_list")
      /\ \A i \in OpenRows(rows, t, "deny_list") : rs2[i] = rows[i]
      /\ Candidate(rs2)
    <2>1. CASE gate = NoGate
        <3>1. rs2 = rs1
            BY <2>1
        <3> HIDE DEF rs2
        <3>2. OldOrNew(rs1)
            BY <1>1 DEF KeepsGates
        <3> QED BY <3>1, <3>2, <2>1, <1>1
    <2>2. CASE gate # NoGate
        <3>0. rs2 = UpsertThreshold(rs1, t, gate) /\ gate \in Gates
            BY <2>2
        <3> HIDE DEF rs2
        <3>1. /\ Keeps(rs1, rs2)
              /\ \A i \in 1 .. Len(rs2) : rs2[i].kind = "threshold" =>
                    \/ i \in 1 .. Len(rs1) /\ rs1[i].kind = "threshold" /\ rs2[i].type = rs1[i].type
                       /\ rs2[i].gate = rs1[i].gate
                    \/ ~GateIsSettled(rs1, t, gate) /\ rs2[i].gate = gate /\ rs2[i].type = t
              /\ \/ GateIsSettled(rs1, t, gate)
                 \/ \E i \in OpenRows(rs2, t, "threshold") : rs2[i].gate <= gate
              /\ \A u : KnownTerms(rs2, u) = KnownTerms(rs1, u)
              /\ OpenRows(rs2, t, "deny_list") = OpenRows(rs1, t, "deny_list")
              /\ \A i \in OpenRows(rs1, t, "deny_list") : rs2[i] = rs1[i]
              /\ IdsOf(rs1) \subseteq IdsOf(rs2)
            BY <3>0, <1>3, UpsertThresholdKeeps
        <3>2. Keeps(rows, rs2)
            BY <3>1, <1>1, <1>3, <1>0 DEF Keeps, ListOK
        <3>3. OldOrNew(rs2)
            <4> SUFFICES ASSUME NEW i \in 1 .. Len(rs2), rs2[i].kind = "threshold"
                         PROVE  \/ i \in 1 .. Len(rows) /\ rs2[i].gate = rows[i].gate
                                \/ /\ gate # NoGate /\ ~GateIsSettled(rows, t, gate)
                                   /\ rs2[i].gate = gate /\ rs2[i].type = t
                OBVIOUS
            <4>1. CASE i \in 1 .. Len(rs1) /\ rs1[i].kind = "threshold"
                         /\ rs2[i].gate = rs1[i].gate
                <5>1. i \in 1 .. Len(rows) /\ rs1[i] = rows[i]
                    BY <4>1, <1>1 DEF KeepsGates
                <5> QED BY <5>1, <4>1
            <4>2. CASE ~GateIsSettled(rs1, t, gate) /\ rs2[i].gate = gate /\ rs2[i].type = t
                BY <4>2, <2>2, <1>2
            <4> QED BY <4>1, <4>2, <3>1
        <3>4. Met(rs2)
            <4>1. GateIsSettled(rs2, t, gate) <=> GateIsSettled(rs1, t, gate)
                BY <3>1, SettledDecides DEF Keeps
            <4> QED BY <4>1, <3>1
        <3>5. Candidate(rs2)
            BY <3>1, <1>1
        <3>6. KnownTerms(rs2, t) = KnownTerms(rows, t)
            BY <3>1, <1>1
        <3>7. /\ OpenRows(rs2, t, "deny_list") = OpenRows(rows, t, "deny_list")
              /\ \A i \in OpenRows(rows, t, "deny_list") : rs2[i] = rows[i]
            BY <3>1, <1>1
        <3> QED BY <3>2, <3>3, <3>4, <3>5, <3>6, <3>7
    <2> QED BY <2>1, <2>2
<1> HIDE DEF rs2
<1>5. ListOK(rs2) /\ Len(rs2) \in Nat /\ Len(rows) <= Len(rs2)
    BY <1>4 DEF Keeps, ListOK
<1>6. ASSUME NEW qs, NEW us, Keeps(rows, qs), OldOrNew(qs), Met(qs),
             Keeps(qs, us), KeepsGates(qs, us)
      PROVE  Keeps(rows, us) /\ OldOrNew(us) /\ Met(us)
    <2>0. Len(qs) \in Nat /\ Len(us) \in Nat /\ Len(rows) <= Len(qs) /\ Len(qs) <= Len(us)
        BY <1>6 DEF Keeps, ListOK
    <2>1. Keeps(rows, us)
        BY <1>6, <2>0, <1>0 DEF Keeps
    <2>2. OldOrNew(us)
        <3> SUFFICES ASSUME NEW i \in 1 .. Len(us), us[i].kind = "threshold"
                     PROVE  \/ i \in 1 .. Len(rows) /\ us[i].gate = rows[i].gate
                            \/ /\ gate # NoGate /\ ~GateIsSettled(rows, t, gate)
                               /\ us[i].gate = gate /\ us[i].type = t
            OBVIOUS
        <3>1. i \in 1 .. Len(qs) /\ us[i] = qs[i]
            BY <1>6 DEF KeepsGates
        <3> QED BY <3>1, <1>6
    <2>3. Met(us)
        <3>1. GateIsSettled(us, t, gate) <=> GateIsSettled(qs, t, gate)
            BY <1>6, SettledDecides DEF Keeps
        <3>2. ASSUME NEW i \in OpenRows(qs, t, "threshold"), qs[i].gate <= gate
              PROVE  i \in OpenRows(us, t, "threshold") /\ us[i].gate <= gate
            <4>1. i \in 1 .. Len(qs) /\ qs[i].kind = "threshold" /\ qs[i].type = t
                  /\ qs[i].status = "proposed"
                BY DEF OpenRows
            <4>2. i \in 1 .. Len(us) /\ us[i] = qs[i]
                BY <4>1, <2>0, <1>6 DEF KeepsGates
            <4> QED BY <4>1, <4>2, <3>2 DEF OpenRows
        <3> QED BY <3>1, <3>2, <1>6
    <2> QED BY <2>1, <2>2, <2>3
<1>7. /\ Keeps(rows, rs3) /\ OldOrNew(rs3) /\ Met(rs3) /\ Listed(rs3, t, terms) /\ Candidate(rs3)
    <2>1. CASE terms = {}
        <3>1. rs3 = rs2
            BY <2>1
        <3> HIDE DEF rs3
        <3> QED BY <3>1, <2>1, <1>4 DEF Listed
    <2>2. CASE terms # {}
        <3>0. rs3 = UpsertDeny(rs2, t, kept)
            BY <2>2
        <3> HIDE DEF rs3
        <3>1. \A x : WithinCap(rs2, t, x) <=> WithinCap(rows, t, x)
            BY <1>0, <1>4, OpenDecides
        <3>2. /\ kept \subseteq Terms /\ kept \cap KnownTerms(rs2, t) = {}
              /\ kept \subseteq terms \ KnownTerms(rs2, t)
              /\ WithinCap(rs2, t, kept)
              /\ \A x \in terms \ (KnownTerms(rs2, t) \cup kept) : ~WithinCap(rs2, t, kept \cup {x})
            BY <3>1, <1>4
        <3>3. /\ Keeps(rs2, rs3) /\ KeepsGates(rs2, rs3)
              /\ \A i \in 1 .. Len(rs2) : i \in 1 .. Len(rs3) /\ rs3[i].id = rs2[i].id
            BY <3>0, <3>2, <1>5, UpsertDenyKeeps
        <3>4. Listed(rs3, t, terms)
            <4>1. \A x \in terms : x \in KnownTerms(rs2, t) \/ x \in kept
                                   \/ ~WithinCap(rs2, t, kept \cup {x})
                BY <3>2
            <4>2. Listed(UpsertDeny(rs2, t, kept), t, terms)
                BY <4>1, <3>2, <1>5, TermsAnswered
            <4> QED BY <4>2, <3>0
        <3>5. Candidate(rs3)
            <4>1. IdsOf(rs2) \subseteq IdsOf(rs3)
                BY <3>3 DEF IdsOf, RowsOf
            <4> QED BY <4>1, <1>4
        <3>6. Keeps(rows, rs3) /\ OldOrNew(rs3) /\ Met(rs3)
            <4> HIDE DEF OldOrNew, Met
            <4> QED BY <3>3, <1>4, <1>6
        <3> QED BY <3>4, <3>5, <3>6
    <2> QED BY <2>1, <2>2
<1> HIDE DEF rs3
<1>8. ListOK(rs3) /\ Len(rs3) \in Nat
    BY <1>7 DEF Keeps, ListOK
<1>9. /\ Keeps(rows, rs4) /\ OldOrNew(rs4) /\ Met(rs4) /\ Listed(rs4, t, terms) /\ Candidate(rs4)
      /\ manual => ManualId(t) \in IdsOf(rs4)
    <2>1. CASE ~manual
        <3>1. rs4 = rs3
            BY <2>1
        <3> HIDE DEF rs4
        <3> QED BY <3>1, <2>1, <1>7
    <2>2. CASE manual
        <3>0. rs4 = UpsertManual(rs3, t)
            BY <2>2
        <3> HIDE DEF rs4
        <3>1. /\ Keeps(rs3, rs4) /\ KeepsGates(rs3, rs4) /\ KeepsLists(rs3, rs4)
              /\ RowsOf(rs3) \subseteq RowsOf(rs4)
              /\ ManualId(t) \in IdsOf(rs4)
            BY <3>0, <1>8, UpsertManualKeeps
        <3>2. Listed(rs4, t, terms)
            <4>1. OpenListIsFull(rs4, t) <=> OpenListIsFull(rs3, t)
                BY <3>1, <1>8, FullnessKept
            <4> QED BY <4>1, <3>1, <1>7 DEF Listed
        <3>3. Candidate(rs4)
            BY <3>1, <1>7 DEF IdsOf
        <3>4. Keeps(rows, rs4) /\ OldOrNew(rs4) /\ Met(rs4)
            <4> HIDE DEF OldOrNew, Met
            <4> QED BY <3>1, <1>7, <1>6
        <3> QED BY <3>1, <3>2, <3>3, <3>4
    <2> QED BY <2>1, <2>2
<1>10. ss = rs4 \/ ss = Supersede(rs4, t)
    <2> DEFINE gated == gate # NoGate /\ ~GateIsSettled(rs1, t, gate)
               denied == terms # {} /\ OpenRows(rs3, t, "deny_list") # {}
    <2>1. ss = IF gated \/ denied THEN Supersede(rs4, t) ELSE rs4
        BY DEF UpsertProposals, rs1, rs2, rs3, rs4
    <2> HIDE DEF gated, denied, ss, rs4
    <2> QED BY <2>1
<1> HIDE DEF rs4, ss
<1>11. ListOK(rs4) /\ Len(rs4) \in Nat
    <2>1. ListOK(rs4)
        BY <1>9 DEF Keeps
    <2> QED BY <2>1 DEF ListOK
<1>12. /\ Keeps(rows, ss) /\ OldOrNew(ss) /\ Met(ss) /\ Listed(ss, t, terms) /\ Candidate(ss)
       /\ manual => ManualId(t) \in IdsOf(ss)
    <2>1. CASE ss = rs4
        BY <2>1, <1>9
    <2>2. CASE ss = Supersede(rs4, t)
        <3>1. /\ Keeps(rs4, ss) /\ KeepsGates(rs4, ss) /\ KeepsLists(rs4, ss)
              /\ Len(ss) = Len(rs4)
              /\ \A i \in 1 .. Len(rs4) :
                    \/ ss[i] = rs4[i]
                    \/ rs4[i].kind = "none" /\ ss[i].kind = "none" /\ ss[i].id = rs4[i].id
            BY <2>2, <1>11, SupersedeKeeps
        <3>2. \A row \in RowsOf(rs4) : row.kind = "deny_list" => row \in RowsOf(ss)
            BY <3>1 DEF RowsOf
        <3>3. IdsOf(rs4) \subseteq IdsOf(ss)
            <4>1. \A i \in 1 .. Len(rs4) : i \in 1 .. Len(ss) /\ ss[i].id = rs4[i].id
                BY <3>1
            <4> QED BY <4>1 DEF IdsOf, RowsOf
        <3>4. Listed(ss, t, terms)
            <4>1. OpenListIsFull(ss, t) <=> OpenListIsFull(rs4, t)
                BY <3>1, <1>11, FullnessKept
            <4> QED BY <4>1, <3>2, <1>9 DEF Listed
        <3>5. Keeps(rows, ss) /\ OldOrNew(ss) /\ Met(ss)
            <4> HIDE DEF OldOrNew, Met
            <4> QED BY <3>1, <1>9, <1>6
        <3> QED BY <3>3, <3>4, <3>5, <1>9
    <2> QED BY <2>1, <2>2, <1>10
<1>13. terms \subseteq KnownTerms(ss, t) \/ OpenListIsFull(ss, t)
    BY <1>12 DEF KnownTerms, Listed
<1> QED BY <1>12, <1>13 DEF ss
-----------------------------------------------------------------------------
(***************************************************************************)
(* The inductive invariant.                                                *)
(***************************************************************************)
Approvals(rs) == {RuleOf(row) : row \in {r \in RowsOf(rs) : r.status = "approved"}}

PackOf(p, rs) ==
    /\ p.rules = Approvals(rs)
    /\ IsFiniteSet(p.rules)
    /\ p.version = Cardinality(p.rules)

Readable == file \notin {NoFile, Torn}

\* The lists of proposals, in memory and on disk.
ListInv == ListOK(rows) /\ (Readable => ListOK(file.rows))

\* The pack is the approvals wherever both are: in memory, with the pack that
\* is about to be published, and on disk.
PackInv ==
    /\ pending = NoPack => PackOf(pack, rows)
    /\ pending # NoPack => up /\ PackOf(pending, rows) /\ pack.rules \subseteq pending.rules
    /\ Readable => PackOf(file.pack, file.rows)

\* NilPatternErrorMeansDurable, also while an approval is being published.
DurableInv ==
    up /\ ~persistErr =>
        IF pending # NoPack THEN file = [pack |-> pending, rows |-> rows]
        ELSE IF file = NoFile THEN pack = EmptyPack /\ rows = <<>>
        ELSE file = [pack |-> pack, rows |-> rows]

\* Memory never forgets a decision the disk has.
KeptInv == up /\ Readable => SettledOf(file.rows) \subseteq SettledOf(rows)

Runs == [type : Types, curated : BOOLEAN, scores : SUBSET Nat, terms : SUBSET Terms,
         manual : BOOLEAN]

\* The evidence of a run holds scores a threshold can be proposed for; with no
\* approved gate for its type they were under the default one.
RunInv ==
    run # NoRun =>
        /\ up
        /\ run \in Runs
        /\ \A s \in run.scores : ProposeGate(s) \in Gates
        /\ GatesFor(run.type) = {} => \A s \in run.scores : s < DefaultGate

\* A step that loses no decision the disk has.
DecisionsHeld == Readable /\ file' # Torn => SettledOf(file.rows) \subseteq SettledOf(file'.rows)

IInv == TypeOK /\ ListInv /\ PackInv /\ DurableInv /\ KeptInv /\ RunInv
-----------------------------------------------------------------------------
(***************************************************************************)
(* Lists with the same settled rows have the same approved rules.          *)
(***************************************************************************)
LEMMA SameApprovals ==
    ASSUME NEW rs, NEW ss, SettledOf(ss) = SettledOf(rs)
    PROVE  Approvals(ss) = Approvals(rs)
<1>1. \A qs : {r \in RowsOf(qs) : r.status = "approved"}
             = {r \in SettledOf(qs) : r.status = "approved"}
    BY DEF SettledOf, Settled
<1> QED BY <1>1 DEF Approvals

(***************************************************************************)
(* In a well-formed list an id names one row, so approval's last match and *)
(* rejection's first are the same.                                         *)
(***************************************************************************)
LEMMA IdNamesOneRow ==
    ASSUME ListOK(rows), NEW id \in IdsOf(rows)
    PROVE  /\ LastWith(id) \in 1 .. Len(rows) /\ rows[LastWith(id)].id = id
           /\ FirstWith(id) \in 1 .. Len(rows) /\ rows[FirstWith(id)].id = id
<1>0. Len(rows) \in Nat
    BY DEF ListOK
<1>1. PICK k \in 1 .. Len(rows) : rows[k].id = id
    BY DEF IdsOf, RowsOf
<1>2. \A j \in k + 1 .. Len(rows) : rows[j].id # id
    <2> SUFFICES ASSUME NEW j \in k + 1 .. Len(rows) PROVE rows[j].id # id
        OBVIOUS
    <2>1. j \in 1 .. Len(rows) /\ k < j
        BY <1>0
    <2> QED BY <2>1, <1>1 DEF ListOK, PairOK
<1>3. \A j \in 1 .. k - 1 : rows[j].id # id
    <2> SUFFICES ASSUME NEW j \in 1 .. k - 1 PROVE rows[j].id # id
        OBVIOUS
    <2>1. j \in 1 .. Len(rows) /\ j < k
        BY <1>0
    <2> QED BY <2>1, <1>1 DEF ListOK, PairOK
<1>4. LastWith(id) \in 1 .. Len(rows) /\ rows[LastWith(id)].id = id
    BY <1>1, <1>2 DEF LastWith
<1>5. FirstWith(id) \in 1 .. Len(rows) /\ rows[FirstWith(id)].id = id
    BY <1>1, <1>3 DEF FirstWith
<1> QED BY <1>4, <1>5

(***************************************************************************)
(* Deciding a proposed row: the list stays well formed and earlier         *)
(* decisions stay what they are.                                           *)
(***************************************************************************)
LEMMA DecideOK ==
    ASSUME NEW rs, ListOK(rs), NEW k \in 1 .. Len(rs), rs[k].status = "proposed",
           NEW d \in Settled
    PROVE  LET ss == [rs EXCEPT ![k].status = d] IN
           /\ ListOK(ss)
           /\ Len(ss) = Len(rs)
           /\ SettledOf(rs) \subseteq SettledOf(ss)
           /\ d = "approved" => Approvals(ss) = Approvals(rs) \cup {RuleOf(rs[k])}
           /\ d = "rejected" => Approvals(ss) = Approvals(rs)
<1> DEFINE row == [rs[k] EXCEPT !.status = d]
           ss == [rs EXCEPT ![k].status = d]
<1>0. Len(rs) \in Nat /\ rs \in Seq(Rows) /\ rs[k] \in Rows /\ RowOK(rs[k])
    BY DEF ListOK
<1>1. d \in Statuses /\ d # "proposed" /\ d \notin {"manual", "superseded"}
    BY DEF Statuses, Settled
<1>2. /\ row \in Rows /\ row.gate = rs[k].gate
      /\ row.id = rs[k].id /\ row.type = rs[k].type /\ row.kind = rs[k].kind
      /\ row.terms = rs[k].terms
      /\ row.status = d /\ row.owner = rs[k].owner
    BY <1>0, <1>1 DEF Rows
<1>3. ss = [rs EXCEPT ![k] = row]
    OBVIOUS
<1> HIDE DEF row
<1>4. /\ ss \in Seq(Rows)
      /\ Len(ss) = Len(rs)
      /\ \A i \in 1 .. Len(rs) : ss[i] = IF i = k THEN row ELSE rs[i]
    BY <1>0, <1>2, <1>3, ExceptSeq
<1> HIDE DEF ss
<1>5. RowOK(row)
    <2>1. rs[k].kind # "none"
        BY <1>0 DEF RowOK
    <2> QED BY <2>1, <1>0, <1>1, <1>2 DEF RowOK
<1>6. \A i \in 1 .. Len(rs) : i < k => PairOK(rs[i], row)
    <2> SUFFICES ASSUME NEW i \in 1 .. Len(rs), i < k PROVE PairOK(rs[i], row)
        OBVIOUS
    <2>1. PairOK(rs[i], rs[k])
        BY DEF ListOK
    <2> QED BY <2>1, <1>2 DEF PairOK
<1>7. \A j \in 1 .. Len(rs) : k < j => PairOK(row, rs[j])
    <2> SUFFICES ASSUME NEW j \in 1 .. Len(rs), k < j PROVE PairOK(row, rs[j])
        OBVIOUS
    <2>1. PairOK(rs[k], rs[j])
        BY DEF ListOK
    <2> QED BY <2>1, <1>2 DEF PairOK
<1>8. ListOK(ss)
    BY <1>2, <1>4, <1>5, <1>6, <1>7, EditOK
<1>9. ASSUME NEW r \in SettledOf(rs)
      PROVE  r \in SettledOf(ss)
    <2>1. PICK i \in 1 .. Len(rs) : r = rs[i]
        BY <1>9 DEF SettledOf, RowsOf
    <2>2. i # k
        BY <2>1, <1>9 DEF SettledOf, Settled
    <2>3. ss[i] = r /\ i \in 1 .. Len(ss)
        BY <2>1, <2>2, <1>4
    <2> QED BY <2>3, <1>9 DEF SettledOf, RowsOf
<1> DEFINE A(qs) == {r \in RowsOf(qs) : r.status = "approved"}
<1>10. A(rs) \subseteq A(ss)
    BY <1>9 DEF SettledOf, Settled
<1>11. ASSUME NEW r \in A(ss)
       PROVE  r \in A(rs) \/ r = row
    <2>1. PICK i \in 1 .. Len(ss) : r = ss[i]
        BY <1>11 DEF RowsOf
    <2>2. i \in 1 .. Len(rs) /\ (i # k => r = rs[i]) /\ (i = k => r = row)
        BY <2>1, <1>4
    <2> QED BY <2>2, <1>11 DEF RowsOf
<1>12. row \in RowsOf(ss)
    BY <1>4 DEF RowsOf
<1>13. RuleOf(row) = RuleOf(rs[k])
    BY <1>2 DEF RuleOf
<1>14. ASSUME d = "approved"
       PROVE  Approvals(ss) = Approvals(rs) \cup {RuleOf(rs[k])}
    <2>1. A(ss) = A(rs) \cup {row}
        BY <1>10, <1>11, <1>12, <1>14, <1>2
    <2> QED BY <2>1, <1>13 DEF Approvals
<1>15. ASSUME d = "rejected"
       PROVE  Approvals(ss) = Approvals(rs)
    <2>1. A(ss) = A(rs)
        BY <1>10, <1>11, <1>15, <1>2
    <2> QED BY <2>1 DEF Approvals
<1> QED BY <1>4, <1>8, <1>9, <1>14, <1>15 DEF ss

(***************************************************************************)
(* What is proposed is not approved: its rule is new to the pack.          *)
(***************************************************************************)
LEMMA ProposedRuleIsNew ==
    ASSUME NEW rs, ListOK(rs), NEW k \in 1 .. Len(rs), rs[k].status = "proposed"
    PROVE  RuleOf(rs[k]) \notin Approvals(rs)
<1> SUFFICES ASSUME RuleOf(rs[k]) \in Approvals(rs) PROVE FALSE
    OBVIOUS
<1>1. PICK i \in 1 .. Len(rs) : rs[i].status = "approved" /\ RuleOf(rs[i]) = RuleOf(rs[k])
    BY DEF Approvals, RowsOf
<1>2. rs[i].id = rs[k].id
    BY <1>1 DEF RuleOf
<1>3. i # k /\ i \in Nat /\ k \in Nat
    BY <1>1 DEF ListOK
<1>4. CASE i < k
    BY <1>4, <1>2 DEF ListOK, PairOK
<1>5. CASE k < i
    BY <1>5, <1>2 DEF ListOK, PairOK
<1> QED BY <1>3, <1>4, <1>5

(***************************************************************************)
(* A save, whole or refused: given a list and a pack that belong together, *)
(* and that lose no decision, the invariant holds after it.                *)
(***************************************************************************)
LEMMA SaveKeeps ==
    ASSUME PatternAssumptions, IInv, NEW p \in Packs, up, up' = up, pack' = pack,
           ListOK(rows'), SettledOf(rows) \subseteq SettledOf(rows'),
           PackOf(p, rows'), SavePatternsLocked(p, rows'),
           \/ pending' = NoPack /\ p = pack
           \/ pending' = p /\ pack.rules \subseteq p.rules
    PROVE  /\ TypeOK' /\ ListInv' /\ PackInv' /\ DurableInv' /\ KeptInv'
           /\ DecisionsHeld
<1> DEFINE f == [pack |-> p, rows |-> rows']
<1>0. NoPack \notin Packs /\ NoFile \notin Files /\ Torn \notin Files
    BY Markers
<1>1. rows' \in Seq(Rows) /\ f \in Files /\ f # NoFile /\ f # Torn
    BY <1>0 DEF ListOK, Files
<1>2. f.pack = p /\ f.rows = rows'
    OBVIOUS
<1> HIDE DEF f
<1>3. \/ file' = f /\ persistErr' = FALSE
      \/ file' = file /\ persistErr' = TRUE
    BY DEF SavePatternsLocked, f
<1>4. TypeOK'
    BY <1>1, <1>3 DEF IInv, TypeOK
<1>5. ListInv'
    BY <1>1, <1>2, <1>3 DEF IInv, ListInv, Readable
<1>6. PackInv'
    <2>1. Readable' => PackOf(file'.pack, file'.rows)
        BY <1>1, <1>2, <1>3 DEF IInv, PackInv, Readable
    <2>2. p # NoPack
        BY <1>0
    <2> QED BY <2>1, <2>2 DEF PackInv, PackOf, Readable
<1>7. DurableInv'
    BY <1>0, <1>1, <1>3 DEF DurableInv, f
<1>8. KeptInv'
    BY <1>1, <1>2, <1>3 DEF IInv, KeptInv, Readable
<1>9. DecisionsHeld
    BY <1>2, <1>3 DEF IInv, KeptInv, DecisionsHeld
<1> QED BY <1>4, <1>5, <1>6, <1>7, <1>8, <1>9
-----------------------------------------------------------------------------
(***************************************************************************)
(* The initial state satisfies the invariant.                              *)
(***************************************************************************)
LEMMA InitHolds ==
    ASSUME PatternAssumptions, EvidenceInit
    PROVE  IInv
<1>1. TypeOK
    <2>1. EmptyPack \in Packs /\ <<>> \in Seq(Rows)
        BY DEF EmptyPack, Packs
    <2> QED BY <2>1 DEF EvidenceInit, Init, TypeOK
<1>2. ~Readable /\ run = NoRun /\ ~up /\ pending = NoPack
    BY DEF EvidenceInit, Init, Readable
<1>3. rows = <<>> /\ pack = EmptyPack
    BY DEF EvidenceInit, Init
<1>4. ListOK(rows) /\ PackOf(pack, rows)
    <2>1. ListOK(<<>>)
        BY DEF ListOK
    <2>2. Approvals(<<>>) = {}
        BY DEF Approvals, RowsOf
    <2>3. PackOf(EmptyPack, <<>>)
        BY <2>2, FS_EmptySet DEF PackOf, EmptyPack
    <2> QED BY <2>1, <2>3, <1>3
<1> QED BY <1>1, <1>2, <1>4 DEF IInv, ListInv, PackInv, DurableInv, KeptInv, RunInv

\* What the owner and the process do to a run that is being gathered: nothing,
\* as long as the control plane stays up and its pack only grows.
LEMMA RunStays ==
    ASSUME IInv, run' = run, run # NoRun => up' /\ pack.rules \subseteq pack'.rules
    PROVE  RunInv'
<1> SUFFICES ASSUME run # NoRun PROVE RunInv'
    BY DEF RunInv
<1>1. GatesFor(run.type)' = {} => GatesFor(run.type) = {}
    BY DEF GatesFor
<1> QED BY <1>1 DEF IInv, RunInv

(***************************************************************************)
(* The owner's own proposal: checked, not approved, so the pack is still   *)
(* the approvals.                                                          *)
(***************************************************************************)
LEMMA AddProposalKeeps ==
    ASSUME PatternAssumptions, IInv, NEW row \in OwnerRows, OneArtifact(row),
           AddProposal(row), run' = run
    PROVE  IInv' /\ DecisionsHeld
<1>1. /\ up /\ pending = NoPack /\ row.id \notin IdsOf(rows) /\ rows' = Append(rows, row)
      /\ Approvable(row) /\ SavePatternsLocked(pack, rows')
      /\ up' = up /\ pack' = pack /\ pending' = pending
    BY DEF AddProposal, Idle
<1>2. ListOK(rows) /\ PackOf(pack, rows) /\ pack \in Packs
    BY <1>1 DEF IInv, ListInv, PackInv, TypeOK
<1>3. /\ row \in Rows /\ row.status = "proposed" /\ row.owner /\ row.kind # "none"
      /\ row.kind \in Kinds
    <2>1. PICK id \in OwnerIds, t \in OwnerTypes, k \in OwnerKinds, g \in Gates \cup {NoGate},
               ts \in SUBSET Terms :
               row = [Row(id, t, k, g, ts, "proposed") EXCEPT !.owner = TRUE]
        BY DEF OwnerRows
    <2>2. id \in Ids /\ t \in Types /\ g \in Nat \cup {NoGate} /\ k # "none"
        BY DEF Ids, PatternAssumptions, Kinds
    <2>3. row = [id |-> id, type |-> t, kind |-> k, gate |-> g, terms |-> ts,
                 status |-> "proposed", owner |-> TRUE]
        BY <2>1 DEF Row
    <2> QED BY <2>2, <2>3 DEF Rows, Statuses, Settled
<1>4. RowOK(row)
    BY <1>1, <1>3 DEF RowOK, Approvable, PatternAssumptions
<1>5. \A i \in 1 .. Len(rows) : PairOK(rows[i], row)
    BY <1>1, <1>3, FreshId DEF PairOK
<1>6. ListOK(rows') /\ RowsOf(rows') = RowsOf(rows) \cup {row}
    BY <1>1, <1>2, <1>3, <1>4, <1>5, AppendOK
<1>7. SettledOf(rows') = SettledOf(rows)
    BY <1>3, <1>6 DEF SettledOf, Settled
<1>8. PackOf(pack, rows')
    <2>1. Approvals(rows') = Approvals(rows)
        BY <1>7, SameApprovals
    <2> QED BY <2>1, <1>2 DEF PackOf
<1>9. /\ TypeOK' /\ ListInv' /\ PackInv' /\ DurableInv' /\ KeptInv'
      /\ DecisionsHeld
    <2>1. SettledOf(rows) \subseteq SettledOf(rows')
        BY <1>7
    <2> QED BY <2>1, <1>1, <1>2, <1>6, <1>8, SaveKeeps
<1>10. RunInv'
    BY <1>1, RunStays
<1> QED BY <1>9, <1>10 DEF IInv

(***************************************************************************)
(* An approval: the pack that is saved, and will be published, is the      *)
(* approvals with the new rule, one version up.                            *)
(***************************************************************************)
LEMMA ApproveProposalKeeps ==
    ASSUME PatternAssumptions, IInv, NEW id \in IdsOf(rows), ApproveProposal(id), run' = run
    PROVE  IInv' /\ DecisionsHeld
<1> DEFINE k == LastWith(id)
<1>1. /\ up /\ pending = NoPack /\ rows[k].status = "proposed"
      /\ rows' = [rows EXCEPT ![k].status = "approved"]
      /\ pending' = [version |-> pack.version + 1, rules |-> pack.rules \cup {RuleOf(rows[k])}]
      /\ SavePatternsLocked(pending', rows')
      /\ up' = up /\ pack' = pack
    BY DEF ApproveProposal, Idle
<1>2. ListOK(rows) /\ PackOf(pack, rows) /\ pack \in Packs
    BY <1>1 DEF IInv, ListInv, PackInv, TypeOK
<1>3. k \in 1 .. Len(rows)
    BY <1>2, IdNamesOneRow
<1> HIDE DEF k
<1>4. /\ ListOK(rows') /\ SettledOf(rows) \subseteq SettledOf(rows')
      /\ Approvals(rows') = Approvals(rows) \cup {RuleOf(rows[k])}
    <2>1. "approved" \in Settled
        BY DEF Settled
    <2> QED BY <2>1, <1>1, <1>2, <1>3, DecideOK
<1>5. RuleOf(rows[k]) \notin pack.rules
    BY <1>1, <1>2, <1>3, ProposedRuleIsNew DEF PackOf
<1>6. RuleOf(rows[k]) \in Rules
    <2>1. rows[k] \in Rows /\ RowOK(rows[k])
        BY <1>2, <1>3 DEF ListOK
    <2>2. rows[k].kind \in Kinds
        BY <2>1, <1>1 DEF RowOK, Rows
    <2> QED BY <2>1, <2>2 DEF RuleOf, Rows, Rules
<1>7. pending' \in Packs /\ pack.rules \subseteq pending'.rules
    BY <1>1, <1>2, <1>6 DEF Packs
<1>8. PackOf(pending', rows')
    <2>1. IsFiniteSet(pack.rules) /\ pack.version = Cardinality(pack.rules)
          /\ pack.rules = Approvals(rows)
        BY <1>2 DEF PackOf
    <2>2. /\ IsFiniteSet(pack.rules \cup {RuleOf(rows[k])})
          /\ Cardinality(pack.rules \cup {RuleOf(rows[k])}) = Cardinality(pack.rules) + 1
        BY <2>1, <1>5, FS_AddElement
    <2> QED BY <2>1, <2>2, <1>1, <1>4 DEF PackOf
<1>9. /\ TypeOK' /\ ListInv' /\ PackInv' /\ DurableInv' /\ KeptInv'
      /\ DecisionsHeld
    <2> DEFINE p == pending'
    <2>1. /\ p \in Packs /\ pending' = p /\ pack.rules \subseteq p.rules
          /\ SavePatternsLocked(p, rows') /\ PackOf(p, rows')
        BY <1>1, <1>7, <1>8
    <2> HIDE DEF p
    <2> QED BY <2>1, <1>1, <1>4, SaveKeeps
<1>10. RunInv'
    BY <1>1, RunStays
<1> QED BY <1>9, <1>10 DEF IInv

(***************************************************************************)
(* A rejection settles a row and approves nothing.                         *)
(***************************************************************************)
LEMMA RejectProposalKeeps ==
    ASSUME PatternAssumptions, IInv, NEW id \in IdsOf(rows), RejectProposal(id), run' = run
    PROVE  IInv' /\ DecisionsHeld
<1> DEFINE k == FirstWith(id)
<1>1. /\ up /\ pending = NoPack /\ rows[k].status = "proposed"
      /\ rows' = [rows EXCEPT ![k].status = "rejected"]
      /\ SavePatternsLocked(pack, rows')
      /\ up' = up /\ pack' = pack /\ pending' = pending
    BY DEF RejectProposal, Idle
<1>2. ListOK(rows) /\ PackOf(pack, rows) /\ pack \in Packs
    BY <1>1 DEF IInv, ListInv, PackInv, TypeOK
<1>3. k \in 1 .. Len(rows)
    BY <1>2, IdNamesOneRow
<1> HIDE DEF k
<1>4. /\ ListOK(rows') /\ SettledOf(rows) \subseteq SettledOf(rows')
      /\ Approvals(rows') = Approvals(rows)
    <2>1. "rejected" \in Settled
        BY DEF Settled
    <2> QED BY <2>1, <1>1, <1>2, <1>3, DecideOK
<1>5. PackOf(pack, rows')
    BY <1>2, <1>4 DEF PackOf
<1>6. /\ TypeOK' /\ ListInv' /\ PackInv' /\ DurableInv' /\ KeptInv'
      /\ DecisionsHeld
    BY <1>1, <1>2, <1>4, <1>5, SaveKeeps
<1>7. RunInv'
    BY <1>1, RunStays
<1> QED BY <1>6, <1>7 DEF IInv

(***************************************************************************)
(* Publishing, crashing, booting and a file damaged while the process is   *)
(* down: a boot takes pack and proposals from one file, so they belong     *)
(* together.                                                               *)
(***************************************************************************)
LEMMA ProcessStepsKeep ==
    ASSUME PatternAssumptions, IInv,
           \/ Publish /\ run' = run
           \/ Boot /\ run' = run
           \/ Corrupt /\ run' = run
           \/ Crash /\ run' = NoRun
           \/ UNCHANGED allVars
    PROVE  IInv' /\ DecisionsHeld
<1>0. NoPack \notin Packs /\ NoFile \notin Files /\ Torn \notin Files /\ NoFile # Torn
    BY Markers
<1>1. /\ ListOK(<<>>) /\ PackOf(EmptyPack, <<>>)
      /\ EmptyPack \in Packs /\ <<>> \in Seq(Rows)
    <2>1. ListOK(<<>>)
        BY DEF ListOK
    <2>2. Approvals(<<>>) = {}
        BY DEF Approvals, RowsOf
    <2>3. PackOf(EmptyPack, <<>>)
        BY <2>2, FS_EmptySet DEF PackOf, EmptyPack
    <2>4. EmptyPack \in Packs
        BY DEF Packs, EmptyPack
    <2> QED BY <2>1, <2>3, <2>4
<1>2. ASSUME Publish, run' = run
      PROVE  IInv' /\ file' = file
    <2>1. /\ pending # NoPack /\ pack' = pending /\ pending' = NoPack
          /\ up' = up /\ rows' = rows /\ persistErr' = persistErr /\ file' = file
        BY <1>2 DEF Publish
    <2>2. up /\ PackOf(pending, rows) /\ pack.rules \subseteq pending.rules /\ pending \in Packs
        BY <2>1 DEF IInv, PackInv, TypeOK
    <2>3. TypeOK'
        BY <2>1, <2>2 DEF IInv, TypeOK
    <2>4. ListInv' /\ KeptInv'
        BY <2>1 DEF IInv, ListInv, KeptInv, Readable
    <2>5. PackInv'
        BY <2>1, <2>2 DEF IInv, PackInv, PackOf, Readable
    <2>6. DurableInv'
        <3>1. [pack |-> pending, rows |-> rows] \in Files
            BY <2>2 DEF IInv, TypeOK, Files
        <3>2. up /\ ~persistErr => file = [pack |-> pending, rows |-> rows] /\ file # NoFile
            BY <3>1, <2>1, <1>0 DEF IInv, DurableInv
        <3> QED BY <3>2, <2>1 DEF DurableInv
    <2>7. RunInv'
        BY <2>1, <2>2, <1>2, RunStays
    <2> QED BY <2>1, <2>3, <2>4, <2>5, <2>6, <2>7 DEF IInv
<1>3. ASSUME Boot, run' = run
      PROVE  IInv' /\ file' = file
    <2>1. /\ ~up /\ up' = TRUE /\ file' = file /\ pending' = pending
          /\ persistErr' = (file = Torn)
          /\ rows' = IF file \in {NoFile, Torn} THEN <<>> ELSE file.rows
          /\ pack' = IF file \in {NoFile, Torn} THEN EmptyPack ELSE file.pack
        BY <1>3 DEF Boot
    <2>2. pending = NoPack /\ file \in Files \cup {NoFile, Torn}
        BY <2>1 DEF IInv, TypeOK
    <2>3. run = NoRun
        BY <2>1 DEF IInv, RunInv
    <2>4. CASE file \in {NoFile, Torn}
        <3>1. rows' = <<>> /\ pack' = EmptyPack
            BY <2>1, <2>4
        <3>2. ~Readable /\ ~Readable'
            BY <2>1, <2>4 DEF Readable
        <3>3. TypeOK'
            BY <2>1, <2>2, <3>1, <1>1 DEF TypeOK
        <3>4. DurableInv'
            BY <2>1, <2>2, <2>4, <3>1, <1>0 DEF DurableInv
        <3>5. ListInv' /\ PackInv' /\ KeptInv'
            BY <2>1, <2>2, <3>1, <3>2, <1>1 DEF ListInv, PackInv, KeptInv
        <3>6. RunInv'
            BY <2>3, <1>3 DEF RunInv
        <3> QED BY <2>1, <3>3, <3>4, <3>5, <3>6 DEF IInv
    <2>5. CASE file \notin {NoFile, Torn}
        <3>1. rows' = file.rows /\ pack' = file.pack /\ file \in Files
            BY <2>1, <2>2, <2>5
        <3>2. file.rows \in Seq(Rows) /\ file.pack \in Packs
              /\ file = [pack |-> file.pack, rows |-> file.rows]
            BY <3>1 DEF Files
        <3>3. ListOK(file.rows) /\ PackOf(file.pack, file.rows)
            BY <2>5 DEF IInv, ListInv, PackInv, Readable
        <3>4. TypeOK'
            BY <2>1, <2>2, <3>1, <3>2 DEF TypeOK
        <3>5. DurableInv'
            BY <2>1, <2>2, <2>5, <3>1, <3>2 DEF DurableInv
        <3>6. ListInv' /\ PackInv' /\ KeptInv'
            <4>1. rows' = file.rows /\ pack' = file.pack /\ pending' = NoPack /\ file' = file
                BY <2>1, <2>2, <3>1
            <4>2. ListInv'
                BY <4>1, <3>3 DEF ListInv
            <4>3. PackInv'
                BY <4>1, <3>3 DEF PackInv, PackOf
            <4>4. KeptInv'
                BY <4>1 DEF KeptInv
            <4> QED BY <4>2, <4>3, <4>4
        <3>7. RunInv'
            BY <2>3, <1>3 DEF RunInv
        <3> QED BY <2>1, <3>4, <3>5, <3>6, <3>7 DEF IInv
    <2> QED BY <2>4, <2>5
<1>4. ASSUME Corrupt, run' = run
      PROVE  IInv' /\ file' = Torn
    <2>1. /\ ~up /\ file' = Torn /\ up' = up /\ rows' = rows /\ pack' = pack
          /\ pending' = pending /\ persistErr' = persistErr
        BY <1>4 DEF Corrupt
    <2>2. TypeOK'
        BY <2>1 DEF IInv, TypeOK
    <2>3. ~Readable' /\ ListInv' /\ PackInv' /\ DurableInv' /\ KeptInv'
        BY <2>1 DEF IInv, ListInv, PackInv, DurableInv, KeptInv, Readable, PackOf
    <2>4. RunInv'
        BY <2>1, <1>4 DEF IInv, RunInv
    <2> QED BY <2>1, <2>2, <2>3, <2>4 DEF IInv
<1>5. ASSUME Crash, run' = NoRun
      PROVE  IInv' /\ file' = file
    <2>1. /\ up' = FALSE /\ rows' = <<>> /\ pack' = EmptyPack /\ pending' = NoPack
          /\ persistErr' = FALSE /\ file' = file
        BY <1>5 DEF Crash
    <2>2. TypeOK'
        BY <2>1, <1>1 DEF IInv, TypeOK
    <2>3. ListInv' /\ DurableInv' /\ KeptInv'
        BY <2>1, <1>1 DEF IInv, ListInv, DurableInv, KeptInv, Readable
    <2>4. PackInv'
        BY <2>1, <1>1 DEF IInv, PackInv, PackOf, Readable
    <2>5. RunInv'
        BY <1>5 DEF RunInv
    <2> QED BY <2>1, <2>2, <2>3, <2>4, <2>5 DEF IInv
<1>6. ASSUME UNCHANGED allVars
      PROVE  IInv' /\ file' = file
    <2>1. /\ up' = up /\ rows' = rows /\ pack' = pack /\ pending' = pending
          /\ persistErr' = persistErr /\ file' = file /\ run' = run
        BY <1>6 DEF allVars, vars
    <2>2. TypeOK'
        BY <2>1 DEF IInv, TypeOK
    <2>3. ListInv' /\ KeptInv' /\ DurableInv'
        BY <2>1 DEF IInv, ListInv, KeptInv, DurableInv, Readable
    <2>4. PackInv'
        BY <2>1 DEF IInv, PackInv, PackOf, Readable
    <2>5. RunInv'
        BY <2>1 DEF IInv, RunInv, GatesFor
    <2> QED BY <2>1, <2>2, <2>3, <2>4, <2>5 DEF IInv
<1> QED BY <1>2, <1>3, <1>4, <1>5, <1>6 DEF DecisionsHeld

(***************************************************************************)
(* Gathering evidence reads the pack and changes nothing but the run;      *)
(* without an approved gate the scores are under the default one.          *)
(***************************************************************************)
LEMMA GatherKeeps ==
    ASSUME PatternAssumptions, EvidenceAssumptions, ProposedGatesAreValid, IInv,
           NEW t \in Types, NEW presidio \in BOOLEAN,
           NEW ms \in SUBSET {m \in Misses : m.type = t}, Gather(t, ms, presidio)
    PROVE  IInv' /\ file' = file
<1> DEFINE curated == {m \in ms : m.curated}
<1>1. /\ up /\ run = NoRun
      /\ up' = up /\ rows' = rows /\ pack' = pack /\ pending' = pending
      /\ persistErr' = persistErr /\ file' = file
    BY DEF Gather, vars
<1>2. PICK raw \in ProbedTexts(ms \ curated, presidio) :
         LET config == SynthesizeConfig(t, ms \ curated, presidio, raw) IN
         run' = [type |-> t, curated |-> curated # {}, scores |-> config.scores,
                 terms |-> config.terms, manual |-> config.manual]
    BY DEF Gather
<1> DEFINE rest == ms \ curated
           under == IF presidio THEN Under(rest, raw, GateFor(t)) ELSE {}
           denied == IF presidio THEN Denied(rest, raw) ELSE {}
<1>3. run' = [type |-> t, curated |-> curated # {}, scores |-> {m.score : m \in under},
              terms |-> {m.term : m \in denied}, manual |-> rest \ (under \cup denied) # {}]
    BY <1>2 DEF SynthesizeConfig
<1>4. ASSUME NEW m \in under
      PROVE  m.score \in Nat /\ ProposeGate(m.score) \in Gates /\ m.score < GateFor(t)
    <2>1. m \in Misses /\ m.score # Unseen /\ m.score < GateFor(t)
        BY DEF Under, Seen
    <2>2. m.score \in Nat
        BY <2>1 DEF EvidenceAssumptions
    <2> QED BY <2>1, <2>2 DEF ProposedGatesAreValid
<1>5. ASSUME NEW m \in denied
      PROVE  m.term \in Terms
    BY DEF Denied, EvidenceAssumptions
<1> HIDE DEF under, denied, rest, curated
<1>6. run' \in Runs
    <2>1. {m.score : m \in under} \in SUBSET Nat /\ {m.term : m \in denied} \in SUBSET Terms
        BY <1>4, <1>5
    <2> QED BY <2>1, <1>3 DEF Runs
<1>7. \A s \in run'.scores : ProposeGate(s) \in Gates /\ s < GateFor(t)
    BY <1>3, <1>4
<1>8. GatesFor(run.type)' = {} => GateFor(t) = DefaultGate
    BY <1>1, <1>3 DEF GatesFor, GateFor
<1>9. RunInv'
    BY <1>1, <1>6, <1>7, <1>8 DEF RunInv
<1>10. TypeOK'
    BY <1>1 DEF IInv, TypeOK
<1>11. ListInv' /\ KeptInv' /\ DurableInv'
    BY <1>1 DEF IInv, ListInv, KeptInv, DurableInv, Readable
<1>12. PackInv'
    BY <1>1 DEF IInv, PackInv, PackOf, Readable
<1> QED BY <1>1, <1>9, <1>10, <1>11, <1>12 DEF IInv

(***************************************************************************)
(* The gates in force, read off the approved rows.                         *)
(***************************************************************************)
LEMMA GateInForce ==
    ASSUME EvidenceAssumptions, ListOK(rows), PackOf(pack, rows), NEW t, NEW g \in Nat,
           ~GateIsSettled(rows, t, g), GatesFor(t) # {}
    PROVE  g < GateFor(t)
<1>1. ASSUME NEW h \in GatesFor(t)
      PROVE  h \in Nat /\ g < h
    <2>1. PICK rule \in pack.rules : rule.kind = "threshold" /\ rule.type = t /\ h = rule.gate
        BY DEF GatesFor
    <2>2. PICK i \in 1 .. Len(rows) : rows[i].status = "approved" /\ rule = RuleOf(rows[i])
        BY DEF PackOf, Approvals, RowsOf
    <2>3. rows[i].kind = "threshold" /\ rows[i].type = t /\ h = rows[i].gate
        BY <2>1, <2>2 DEF RuleOf
    <2>4. h \in Nat
        BY <2>3 DEF ListOK, RowOK
    <2>5. ~(h <= g)
        BY <2>2, <2>3 DEF GateIsSettled, RowsOf, Settled
    <2> QED BY <2>4, <2>5
<1>2. \E h \in GatesFor(t) : \A k \in GatesFor(t) : h <= k
    <2>1. GatesFor(t) \subseteq Nat
        BY <1>1
    <2> QED BY <2>1, LeastNatural
<1>3. GateFor(t) \in GatesFor(t)
    BY <1>2 DEF GateFor
<1> QED BY <1>1, <1>3

\* The gate a run calls for: as low as its scores need and no lower.
LEMMA NeededGate ==
    ASSUME PatternAssumptions, EvidenceAssumptions, RunInv, run # NoRun
    PROVE  /\ Needed \in Gates \cup {NoGate}
           /\ Needed = NoGate <=> run.scores = {}
           /\ Needed # NoGate =>
                 /\ GatesFor(run.type) = {} => Needed < DefaultGate
                 /\ \A s \in run.scores : s < MinGate \/ Needed <= s
<1>1. run.scores \subseteq Nat
    BY DEF RunInv, Runs
<1>2. CASE run.scores = {}
    BY <1>2 DEF Needed
<1>3. CASE run.scores # {}
    <2> DEFINE low == CHOOSE s \in run.scores : \A r \in run.scores : s <= r
    <2>1. low \in run.scores /\ \A r \in run.scores : low <= r
        BY <1>1, <1>3, LeastNatural
    <2>2. Needed = ProposeGate(low)
        BY <1>3 DEF Needed
    <2> HIDE DEF low
    <2>3. Needed \in Gates /\ Needed # NoGate
        BY <2>1, <2>2 DEF RunInv, PatternAssumptions
    <2>4. /\ low \in Nat /\ MinGate \in Nat /\ DefaultGate \in Nat /\ MinGate < DefaultGate
        BY <1>1, <2>1 DEF EvidenceAssumptions
    <2>5. (low \div 5) * 5 - 5 < low /\ (low \div 5) * 5 - 5 \in Int
        BY <2>4
    <2>6. ProposeGate(low) =
             IF (low \div 5) * 5 - 5 < MinGate THEN MinGate ELSE (low \div 5) * 5 - 5
        BY DEF ProposeGate
    <2>7. GatesFor(run.type) = {} => low < DefaultGate
        BY <2>1 DEF RunInv
    <2>8. GatesFor(run.type) = {} => Needed < DefaultGate
        BY <2>2, <2>4, <2>5, <2>6, <2>7
    <2>9. ASSUME NEW s \in run.scores
          PROVE  s < MinGate \/ Needed <= s
        <3>1. s \in Nat /\ low <= s
            BY <1>1, <2>1
        <3> QED BY <3>1, <2>2, <2>4, <2>5, <2>6
    <2> QED BY <1>3, <2>3, <2>8, <2>9
<1> QED BY <1>2, <1>3

\* What an upsert is given and what it does to the list.
LEMMA UpsertOnList ==
    ASSUME PatternAssumptions, EvidenceAssumptions, IInv, Upsert
    PROVE  /\ up /\ up' = up /\ pack' = pack /\ pending = NoPack /\ pending' = pending
           /\ run # NoRun /\ run' = NoRun /\ run \in Runs
           /\ SavePatternsLocked(pack, rows')
           /\ Keeps(rows, rows')
           /\ \A i \in 1 .. Len(rows') : rows'[i].kind = "threshold" =>
                 \/ i \in 1 .. Len(rows) /\ rows'[i].gate = rows[i].gate
                 \/ /\ Needed # NoGate /\ ~GateIsSettled(rows, run.type, Needed)
                    /\ rows'[i].gate = Needed /\ rows'[i].type = run.type
           /\ Needed # NoGate => \/ GateIsSettled(rows', run.type, Needed)
                                 \/ \E i \in OpenRows(rows', run.type, "threshold") :
                                       rows'[i].gate <= Needed
           /\ \/ run.terms \subseteq KnownTerms(rows', run.type)
              \/ OpenListIsFull(rows', run.type)
           /\ run.manual => ManualId(run.type) \in IdsOf(rows')
           /\ run.curated => <<"candidate", run.type, 1>> \in IdsOf(rows')
<1>1. run # NoRun /\ run' = NoRun
    BY DEF Upsert
<1>2. PICK kept \in SUBSET run.terms :
         Flywheel(run.type, run.curated, Needed, run.terms, kept, run.manual)
    BY DEF Upsert
<1>3. /\ Idle /\ up' = up /\ pack' = pack /\ pending' = pending
      /\ kept \subseteq run.terms \ KnownTerms(rows, run.type)
      /\ WithinCap(rows, run.type, kept)
      /\ \A x \in run.terms \ (KnownTerms(rows, run.type) \cup kept) :
            ~WithinCap(rows, run.type, kept \cup {x})
      /\ rows' = UpsertProposals(run.type, run.curated, Needed, run.terms, kept, run.manual)
      /\ SavePatternsLocked(pack, rows')
    BY <1>2 DEF Flywheel
<1>4. ListOK(rows) /\ RunInv
    BY DEF IInv, ListInv
<1>5. /\ run \in Runs /\ run.type \in Types /\ run.curated \in BOOLEAN
      /\ run.manual \in BOOLEAN /\ run.terms \subseteq Terms
    BY <1>1, <1>4 DEF RunInv, Runs
<1>6. Needed \in Gates \cup {NoGate}
    BY <1>1, <1>4, NeededGate
<1>7. up /\ pending = NoPack
    BY <1>3 DEF Idle
<1> DEFINE t == run.type
           needed == Needed
           terms == run.terms
           manual == run.manual
           curated == run.curated
           ss == rows'
<1> HIDE DEF t, needed, terms, manual, curated
<1>8. LET qs == UpsertProposals(t, curated, needed, terms, kept, manual) IN
      /\ Keeps(rows, qs)
      /\ \A i \in 1 .. Len(qs) : qs[i].kind = "threshold" =>
            \/ i \in 1 .. Len(rows) /\ qs[i].gate = rows[i].gate
            \/ /\ needed # NoGate /\ ~GateIsSettled(rows, t, needed)
               /\ qs[i].gate = needed /\ qs[i].type = t
      /\ needed # NoGate => \/ GateIsSettled(qs, t, needed)
                            \/ \E i \in OpenRows(qs, t, "threshold") : qs[i].gate <= needed
      /\ \/ terms \subseteq KnownTerms(qs, t)
         \/ OpenListIsFull(qs, t)
      /\ manual => ManualId(t) \in IdsOf(qs)
      /\ curated => <<"candidate", t, 1>> \in IdsOf(qs)
    <2>1. /\ t \in Types /\ curated \in BOOLEAN /\ needed \in Gates \cup {NoGate}
          /\ manual \in BOOLEAN /\ terms \subseteq Terms
          /\ kept \subseteq terms \ KnownTerms(rows, t) /\ WithinCap(rows, t, kept)
          /\ \A x \in terms \ (KnownTerms(rows, t) \cup kept) : ~WithinCap(rows, t, kept \cup {x})
        BY <1>3, <1>5, <1>6 DEF t, curated, needed, manual, terms
    <2> QED BY <2>1, <1>4, UpsertProposalsKeeps
<1>9. ss = UpsertProposals(t, curated, needed, terms, kept, manual)
    BY <1>3 DEF t, curated, needed, manual, terms
<1> HIDE DEF ss
<1>10. /\ Keeps(rows, ss)
       /\ \A i \in 1 .. Len(ss) : ss[i].kind = "threshold" =>
             \/ i \in 1 .. Len(rows) /\ ss[i].gate = rows[i].gate
             \/ /\ needed # NoGate /\ ~GateIsSettled(rows, t, needed)
                /\ ss[i].gate = needed /\ ss[i].type = t
       /\ needed # NoGate => \/ GateIsSettled(ss, t, needed)
                             \/ \E i \in OpenRows(ss, t, "threshold") : ss[i].gate <= needed
       /\ \/ terms \subseteq KnownTerms(ss, t)
          \/ OpenListIsFull(ss, t)
       /\ manual => ManualId(t) \in IdsOf(ss)
       /\ curated => <<"candidate", t, 1>> \in IdsOf(ss)
    BY <1>8, <1>9
<1> QED BY <1>1, <1>3, <1>5, <1>7, <1>10 DEF t, curated, needed, manual, terms, ss

(***************************************************************************)
(* The flywheel's upsert settles nothing, so the pack stays the approvals  *)
(* and no decision is lost.                                                *)
(***************************************************************************)
LEMMA UpsertKeeps ==
    ASSUME PatternAssumptions, EvidenceAssumptions, IInv, Upsert
    PROVE  IInv' /\ DecisionsHeld
<1>1. /\ up /\ up' = up /\ pack' = pack /\ pending = NoPack /\ pending' = pending
      /\ run' = NoRun /\ SavePatternsLocked(pack, rows') /\ Keeps(rows, rows')
    BY UpsertOnList
<1>2. ListOK(rows') /\ SettledOf(rows') = SettledOf(rows)
    BY <1>1 DEF Keeps
<1>3. PackOf(pack, rows) /\ pack \in Packs
    BY <1>1 DEF IInv, PackInv, TypeOK
<1>4. PackOf(pack, rows')
    <2>1. Approvals(rows') = Approvals(rows)
        BY <1>2, SameApprovals
    <2> QED BY <2>1, <1>3 DEF PackOf
<1>5. /\ TypeOK' /\ ListInv' /\ PackInv' /\ DurableInv' /\ KeptInv'
      /\ DecisionsHeld
    <2>1. SettledOf(rows) \subseteq SettledOf(rows')
        BY <1>2
    <2>2. pending' = NoPack
        BY <1>1
    <2> QED BY <2>1, <2>2, <1>1, <1>2, <1>3, <1>4, SaveKeeps
<1>6. RunInv'
    BY <1>1 DEF RunInv
<1> QED BY <1>5, <1>6 DEF IInv

(***************************************************************************)
(* Every step keeps the invariant and the decisions the disk has.          *)
(***************************************************************************)
LEMMA StepHolds ==
    ASSUME PatternAssumptions, EvidenceAssumptions, ProposedGatesAreValid,
           IInv, [EvidenceNext]_allVars
    PROVE  IInv' /\ DecisionsHeld
<1>1. ASSUME NEW t \in Types, NEW presidio \in BOOLEAN,
             NEW ms \in SUBSET {m \in Misses : m.type = t}, Gather(t, ms, presidio)
      PROVE  IInv' /\ DecisionsHeld
    BY <1>1, GatherKeeps DEF DecisionsHeld
<1>2. ASSUME Upsert
      PROVE  IInv' /\ DecisionsHeld
    BY <1>2, UpsertKeeps
<1>3. ASSUME NEW row \in {r \in OwnerRows : OneArtifact(r)}, AddProposal(row), run' = run
      PROVE  IInv' /\ DecisionsHeld
    <2>1. row \in OwnerRows /\ OneArtifact(row)
        OBVIOUS
    <2> QED BY <2>1, <1>3, AddProposalKeeps
<1>4. ASSUME NEW id \in IdsOf(rows), ApproveProposal(id), run' = run
      PROVE  IInv' /\ DecisionsHeld
    BY <1>4, ApproveProposalKeeps
<1>5. ASSUME NEW id \in IdsOf(rows), RejectProposal(id), run' = run
      PROVE  IInv' /\ DecisionsHeld
    BY <1>5, RejectProposalKeeps
<1>6. ASSUME \/ Publish /\ run' = run
             \/ Boot /\ run' = run
             \/ Corrupt /\ run' = run
             \/ Crash /\ run' = NoRun
             \/ UNCHANGED allVars
      PROVE  IInv' /\ DecisionsHeld
    BY <1>6, ProcessStepsKeep
<1> QED BY <1>1, <1>2, <1>3, <1>4, <1>5, <1>6 DEF EvidenceNext

(***************************************************************************)
(* The strengthening holds throughout.                                     *)
(***************************************************************************)
THEOREM Inductive == EvidenceSpec => []IInv
<1>1. EvidenceInit => IInv
    BY InitHolds, PatternAssumptions
<1>2. IInv /\ [EvidenceNext]_allVars => IInv'
    BY StepHolds, PatternAssumptions, EvidenceAssumptions, ProposedGatesAreValid
<1> QED BY <1>1, <1>2, PTL DEF EvidenceSpec

(***************************************************************************)
(* The state is what the code's types say, also what a save leaves behind. *)
(***************************************************************************)
THEOREM TypeCorrect == EvidenceSpec => []TypeOK
<1>1. IInv => TypeOK
    BY DEF IInv
<1> QED BY <1>1, Inductive, PTL

(***************************************************************************)
(* Approval is the trust boundary: the pack in the store is the approved   *)
(* proposals and its version counts them, after any crash, failed save and *)
(* reload.                                                                 *)
(***************************************************************************)
THEOREM PackHoldsApprovals == EvidenceSpec => []PackIsTheApprovals
<1>1. IInv => PackIsTheApprovals
    BY DEF IInv, PackInv, PackIsTheApprovals, Idle, PackOf, Approvals
<1> QED BY <1>1, Inductive, PTL

(***************************************************************************)
(* PatternPersistError is nil only when patterns.json holds the pack being *)
(* served and the proposals with it.                                       *)
(***************************************************************************)
THEOREM NilErrorMeansDurable == EvidenceSpec => []NilPatternErrorMeansDurable
<1>1. IInv => NilPatternErrorMeansDurable
    BY DEF IInv, DurableInv, NilPatternErrorMeansDurable, Idle
<1> QED BY <1>1, Inductive, PTL

(***************************************************************************)
(* The flywheel never asks twice for a gate or a term the owner settled,   *)
(* and an id means one row, also when the owner takes one of its ids.      *)
(***************************************************************************)
THEOREM AskedOnce == EvidenceSpec => []NothingIsAskedTwice
<1>1. ASSUME ListOK(rows), NEW i \in 1 .. Len(rows), NEW j \in 1 .. Len(rows), i < j
      PROVE  /\ rows[i].id # rows[j].id
             /\ /\ rows[i].type = rows[j].type
                /\ rows[i].kind = rows[j].kind
                /\ ~rows[i].owner
                /\ ~rows[j].owner
                => /\ rows[i].kind = "threshold" => rows[j].gate < rows[i].gate
                   /\ rows[i].terms \cap rows[j].terms = {}
    <2>1. PairOK(rows[i], rows[j])
        BY <1>1 DEF ListOK
    <2> QED BY <2>1 DEF PairOK
<1>2. IInv => NothingIsAskedTwice
    BY <1>1 DEF IInv, ListInv, NothingIsAskedTwice
<1> QED BY <1>2, Inductive, PTL

(***************************************************************************)
(* A decision leaves patterns.json only when the file is damaged from      *)
(* outside: no run, decision, failed save, crash or boot takes it out.     *)
(***************************************************************************)
THEOREM DecisionsSurvive == EvidenceSpec => DecisionsAreKept
<1>1. ASSUME IInv, [EvidenceNext]_allVars, NEW row \in RowsOf(file.rows) \ RowsOf(file'.rows),
             row.status \in Settled
      PROVE  file' = Torn
    <2>1. file # NoFile /\ file # Torn
        BY <1>1 DEF RowsOf, NoFile, Torn
    <2>2. file' # Torn => SettledOf(file.rows) \subseteq SettledOf(file'.rows)
        BY <1>1, <2>1, StepHolds, PatternAssumptions, EvidenceAssumptions, ProposedGatesAreValid
           DEF Readable, DecisionsHeld
    <2> QED BY <1>1, <2>2 DEF SettledOf
<1>2. IInv /\ [EvidenceNext]_allVars =>
         [\A row \in RowsOf(file.rows) \ RowsOf(file'.rows) :
             row.status \in Settled => file' = Torn]_vars
    BY <1>1
<1> QED BY <1>2, Inductive, PTL DEF EvidenceSpec, DecisionsAreKept

\* The step at which a run's proposals are in: only Upsert ends a run and
\* leaves the control plane up.
LEMMA EndsByUpsert ==
    ASSUME [EvidenceNext]_allVars, run # NoRun, run' = NoRun, up'
    PROVE  Upsert
<1>1. ~ UNCHANGED allVars
    BY DEF allVars
<1>2. ASSUME NEW t \in Types, NEW presidio \in BOOLEAN,
             NEW ms \in SUBSET {m \in Misses : m.type = t}, Gather(t, ms, presidio)
      PROVE  FALSE
    BY <1>2 DEF Gather
<1>3. ~(Crash /\ run' = NoRun)
    BY DEF Crash
<1>4. ~ UNCHANGED run
    OBVIOUS
<1> QED BY <1>1, <1>2, <1>3, <1>4 DEF EvidenceNext

(***************************************************************************)
(* What the flywheel newly asks for is below the gate in force, also when  *)
(* that one was approved while Presidio was being probed.                  *)
(***************************************************************************)
THEOREM NewGatesAreLower == EvidenceSpec => ProposalsLowerTheGate
<1>1. IInv /\ [EvidenceNext]_allVars =>
         (run # NoRun /\ run' = NoRun /\ up' =>
            \A i \in 1 .. Len(rows') :
               /\ rows'[i].kind = "threshold"
               /\ i \in 1 .. Len(rows) => rows[i].gate # rows'[i].gate
               => rows'[i].gate < GateFor(rows'[i].type))
    <2> SUFFICES ASSUME IInv, [EvidenceNext]_allVars, run # NoRun, run' = NoRun, up',
                        NEW i \in 1 .. Len(rows'), rows'[i].kind = "threshold",
                        i \in 1 .. Len(rows) => rows[i].gate # rows'[i].gate
                 PROVE  rows'[i].gate < GateFor(rows'[i].type)
        OBVIOUS
    <2>1. Upsert
        BY EndsByUpsert
    <2>2. /\ Needed # NoGate /\ ~GateIsSettled(rows, run.type, Needed)
          /\ rows'[i].gate = Needed /\ rows'[i].type = run.type /\ pending = NoPack
        BY <2>1, UpsertOnList, PatternAssumptions, EvidenceAssumptions
    <2>3. ListOK(rows) /\ PackOf(pack, rows) /\ RunInv
        BY <2>2 DEF IInv, ListInv, PackInv
    <2>4. Needed \in Gates /\ (GatesFor(run.type) = {} => Needed < DefaultGate)
        BY <2>2, <2>3, NeededGate, PatternAssumptions, EvidenceAssumptions
    <2>5. Needed \in Nat
        BY <2>4, PatternAssumptions DEF PatternAssumptions
    <2>6. CASE GatesFor(run.type) = {}
        BY <2>2, <2>4, <2>6 DEF GateFor
    <2>7. CASE GatesFor(run.type) # {}
        <3>1. Needed < GateFor(run.type)
            BY <2>2, <2>3, <2>5, <2>7, GateInForce, EvidenceAssumptions
        <3> QED BY <3>1, <2>2
    <2> QED BY <2>6, <2>7
<1>2. IInv /\ [EvidenceNext]_allVars =>
         [run # NoRun /\ run' = NoRun /\ up' =>
            \A i \in 1 .. Len(rows') :
               /\ rows'[i].kind = "threshold"
               /\ i \in 1 .. Len(rows) => rows[i].gate # rows'[i].gate
               => rows'[i].gate < GateFor(rows'[i].type)]_allVars
    BY <1>1
<1> QED BY <1>2, Inductive, PTL DEF EvidenceSpec, ProposalsLowerTheGate

(***************************************************************************)
(* No miss goes without an answer, whatever was decided between the probe  *)
(* and the lock, and nothing is asked that cannot be granted.              *)
(***************************************************************************)
THEOREM MissesAreAnswered == EvidenceSpec => EveryMissIsAnswered
<1> DEFINE Answered ==
        /\ \A s \in run.scores : s < MinGate \/ GateIsSettled(rows', run.type, s)
              \/ \E i \in OpenRows(rows', run.type, "threshold") : rows'[i].gate <= s
        /\ run.terms \subseteq KnownTerms(rows', run.type) \/ OpenListIsFull(rows', run.type)
        /\ run.manual => ManualId(run.type) \in IdsOf(rows')
        /\ run.curated => <<"candidate", run.type, 1>> \in IdsOf(rows')
        /\ \A row \in RowsOf(rows') : row.status = "proposed" => Approvable(row)
<1>1. ASSUME IInv, [EvidenceNext]_allVars, run # NoRun, run' = NoRun, up'
      PROVE  Answered
    <2>1. Upsert
        BY <1>1, EndsByUpsert
    <2>2. /\ run \in Runs /\ Keeps(rows, rows')
          /\ Needed # NoGate => \/ GateIsSettled(rows', run.type, Needed)
                                \/ \E i \in OpenRows(rows', run.type, "threshold") :
                                      rows'[i].gate <= Needed
          /\ \/ run.terms \subseteq KnownTerms(rows', run.type)
             \/ OpenListIsFull(rows', run.type)
          /\ run.manual => ManualId(run.type) \in IdsOf(rows')
          /\ run.curated => <<"candidate", run.type, 1>> \in IdsOf(rows')
        BY <1>1, <2>1, UpsertOnList, PatternAssumptions, EvidenceAssumptions
    <2>3. ListOK(rows') /\ RunInv
        BY <1>1, <2>2 DEF Keeps, IInv
    <2>4. ASSUME NEW s \in run.scores, ~(s < MinGate)
          PROVE  \/ GateIsSettled(rows', run.type, s)
                 \/ \E i \in OpenRows(rows', run.type, "threshold") : rows'[i].gate <= s
        <3>1. /\ Needed \in Gates \cup {NoGate}
              /\ Needed = NoGate <=> run.scores = {}
              /\ Needed # NoGate => \A r \in run.scores : r < MinGate \/ Needed <= r
            BY <1>1, <2>3, NeededGate, PatternAssumptions, EvidenceAssumptions
        <3>2. Needed \in Nat /\ Needed # NoGate /\ Needed <= s /\ s \in Nat
            BY <3>1, <2>2, <2>4, PatternAssumptions DEF PatternAssumptions, Runs
        <3>3. CASE GateIsSettled(rows', run.type, Needed)
            <4>1. PICK i \in 1 .. Len(rows') :
                     /\ rows'[i].kind = "threshold" /\ rows'[i].type = run.type
                     /\ rows'[i].status \in Settled /\ rows'[i].gate <= Needed
                BY <3>3 DEF GateIsSettled, RowsOf
            <4>2. rows'[i].gate \in Nat
                BY <4>1, <2>3 DEF ListOK, RowOK
            <4>3. rows'[i].gate <= s
                BY <4>1, <4>2, <3>2
            <4> QED BY <4>1, <4>3 DEF GateIsSettled, RowsOf
        <3>4. CASE \E i \in OpenRows(rows', run.type, "threshold") : rows'[i].gate <= Needed
            <4>1. PICK i \in OpenRows(rows', run.type, "threshold") : rows'[i].gate <= Needed
                BY <3>4
            <4>2. rows'[i].gate \in Nat
                BY <4>1, <2>3 DEF OpenRows, ListOK, RowOK
            <4>3. rows'[i].gate <= s
                BY <4>1, <4>2, <3>2
            <4> QED BY <4>1, <4>3
        <3> QED BY <3>2, <3>3, <3>4, <2>2
    <2>5. run.terms \subseteq KnownTerms(rows', run.type) \/ OpenListIsFull(rows', run.type)
        BY <2>2
    <2>6. \A row \in RowsOf(rows') : row.status = "proposed" => Approvable(row)
        BY <2>3 DEF ListOK, RowOK, RowsOf
    <2> QED BY <2>2, <2>4, <2>5, <2>6
<1>2. IInv /\ [EvidenceNext]_allVars =>
         [run # NoRun /\ run' = NoRun /\ up' => Answered]_allVars
    BY <1>1
<1> QED BY <1>2, Inductive, PTL DEF EvidenceSpec, EveryMissIsAnswered
=============================================================================
