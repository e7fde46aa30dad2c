-------------------------- MODULE SpineEmitProofs ---------------------------
(***************************************************************************)
(* Proofs about the report path, for every number of reports, every size   *)
(* of rings and chunks, and posts, crashes and restarts in any order; and  *)
(* that the gateway's pusher, which does more than deliver reports, takes  *)
(* no step with them that ReportDelivery does not allow.                   *)
(***************************************************************************)
EXTENDS SpineEmit, FiniteSetTheorems, TLAPS

Increasing(s) == \A i, j \in DOMAIN s : i < j => s[i] < s[j]
Before(s, t) == \A a \in ToSet(s), b \in ToSet(t) : a < b

Waiting == ToSet(pushing) \cup ToSet(ring)

\* What is being pushed is older than what was recorded since.
OrderInv ==
    /\ Increasing(pushing) /\ Increasing(ring) /\ Before(pushing, ring)
    /\ Waiting \subseteq 1 .. next - 1
    /\ \A r \in 1 .. next - 1 : Settled(r) \/ r \in Waiting

\* A report that waits was taken only by posts whose answer is still to be
\* waited for, or was not; one not yet recorded was never taken.
TakenInv ==
    /\ unheard \in Nat
    /\ \A chunk \in late : ToSet(chunk) \subseteq 1 .. next - 1
    /\ \A r \in Reports : r >= next => ingested[r] = 0
    /\ \A r \in Waiting : ingested[r] <= unheard
    /\ RepeatsAreUnheardAnswers

IInv == TypeOK /\ OrderInv /\ TakenInv
-----------------------------------------------------------------------------
(***************************************************************************)
(* The pieces the code cuts a buffer into.                                 *)
(***************************************************************************)
LEMMA PieceKeeps ==
  ASSUME NEW S, NEW s \in Seq(S), NEW m \in Nat \ {0}, NEW n \in Nat, n <= Len(s)
  PROVE  /\ SubSeq(s, m, n) \in Seq(S)
         /\ ToSet(SubSeq(s, m, n)) \subseteq ToSet(s)
         /\ Increasing(s) => Increasing(SubSeq(s, m, n))
         /\ Len(SubSeq(s, m, n)) <= Len(s)
<1> DEFINE t == SubSeq(s, m, n)
<1>1. /\ t \in Seq(S)
      /\ Len(t) = IF m <= n THEN n - m + 1 ELSE 0
      /\ \A i \in 1 .. Len(t) : m + i - 1 \in 1 .. Len(s) /\ t[i] = s[m + i - 1]
  OBVIOUS
<1>2. ToSet(t) \subseteq ToSet(s)
  BY <1>1 DEF ToSet
<1>3. Increasing(s) => Increasing(t)
  BY <1>1 DEF Increasing
<1> QED
  BY <1>1, <1>2, <1>3

\* auditRing.add and AddGatewayReports keep the newest, requeue the oldest.
LEMMA NewestKeeps ==
  ASSUME NEW S, NEW s \in Seq(S), NEW n \in Nat \ {0}
  PROVE  /\ Newest(s, n) \in Seq(S) /\ Len(Newest(s, n)) <= n
         /\ ToSet(Newest(s, n)) \subseteq ToSet(s)
         /\ Increasing(s) => Increasing(Newest(s, n))
<1>1. CASE Len(s) <= n
  BY <1>1 DEF Newest
<1>2. CASE ~(Len(s) <= n)
  <2>1. Len(s) - n + 1 \in Nat \ {0} /\ Len(s) \in Nat
    BY <1>2
  <2>2. Len(SubSeq(s, Len(s) - n + 1, Len(s))) = n
    BY <1>2
  <2> QED
    BY <1>2, <2>1, <2>2, PieceKeeps DEF Newest
<1> QED
  BY <1>1, <1>2

LEMMA OldestKeeps ==
  ASSUME NEW S, NEW s \in Seq(S), NEW n \in Nat \ {0}
  PROVE  /\ Oldest(s, n) \in Seq(S) /\ Len(Oldest(s, n)) <= n
         /\ ToSet(Oldest(s, n)) \subseteq ToSet(s)
         /\ Increasing(s) => Increasing(Oldest(s, n))
<1>1. CASE Len(s) <= n
  BY <1>1 DEF Oldest
<1>2. CASE ~(Len(s) <= n)
  <2>1. Len(SubSeq(s, 1, n)) = n
    BY <1>2
  <2> QED
    BY <1>2, <2>1, PieceKeeps DEF Oldest
<1> QED
  BY <1>1, <1>2

\* A push in order is its first chunk, and after it the rest.
LEMMA ChunkAndRest ==
  ASSUME NEW S, NEW s \in Seq(S)
  PROVE  /\ ChunkOf(s) \in Seq(S) /\ RestOf(s) \in Seq(S)
         /\ Len(RestOf(s)) <= Len(s)
         /\ ToSet(s) = ToSet(ChunkOf(s)) \cup ToSet(RestOf(s))
         /\ Increasing(s) => Increasing(RestOf(s)) /\ Before(ChunkOf(s), RestOf(s))
<1>1. ChunkMax \in Nat \ {0}
  BY ReportAssumptions
<1>2. ChunkOf(s) \in Seq(S) /\ ToSet(ChunkOf(s)) \subseteq ToSet(s)
  BY <1>1, OldestKeeps DEF ChunkOf
<1>3. /\ RestOf(s) \in Seq(S) /\ ToSet(RestOf(s)) \subseteq ToSet(s)
      /\ Len(RestOf(s)) <= Len(s)
      /\ Increasing(s) => Increasing(RestOf(s))
  BY <1>1, PieceKeeps DEF RestOf
<1>4. /\ \A i \in DOMAIN ChunkOf(s) : i \in 1 .. Len(s) /\ i <= ChunkMax /\ ChunkOf(s)[i] = s[i]
      /\ \A i \in 1 .. Len(s) : i <= ChunkMax => i \in DOMAIN ChunkOf(s) /\ ChunkOf(s)[i] = s[i]
  BY <1>1 DEF ChunkOf, Oldest
<1>5. /\ \A i \in DOMAIN RestOf(s) : i + ChunkMax \in 1 .. Len(s) /\ RestOf(s)[i] = s[i + ChunkMax]
      /\ \A i \in 1 .. Len(s) : i > ChunkMax => /\ i - ChunkMax \in DOMAIN RestOf(s)
                                               /\ RestOf(s)[i - ChunkMax] = s[i]
  BY <1>1 DEF RestOf
<1>6. ToSet(s) \subseteq ToSet(ChunkOf(s)) \cup ToSet(RestOf(s))
  <2> SUFFICES ASSUME NEW i \in 1 .. Len(s)
               PROVE  s[i] \in ToSet(ChunkOf(s)) \cup ToSet(RestOf(s))
    BY DEF ToSet
  <2>1. CASE i <= ChunkMax
    BY <1>4, <2>1 DEF ToSet
  <2>2. CASE i > ChunkMax
    BY <1>5, <2>2 DEF ToSet
  <2> QED
    BY <1>1, <2>1, <2>2
<1>7. Increasing(s) => Before(ChunkOf(s), RestOf(s))
  <2> SUFFICES ASSUME Increasing(s), NEW i \in DOMAIN ChunkOf(s), NEW j \in DOMAIN RestOf(s)
               PROVE  ChunkOf(s)[i] < RestOf(s)[j]
    BY DEF Before, ToSet
  <2>1. i \in 1 .. Len(s) /\ i <= ChunkMax /\ ChunkOf(s)[i] = s[i]
    BY <1>4
  <2>2. j + ChunkMax \in 1 .. Len(s) /\ RestOf(s)[j] = s[j + ChunkMax] /\ j \in Nat \ {0}
    BY <1>3, <1>5
  <2>3. i < j + ChunkMax
    BY <1>1, <2>1, <2>2
  <2> QED
    BY <2>1, <2>2, <2>3 DEF Increasing
<1> QED
  BY <1>2, <1>3, <1>6, <1>7

\* Two buffers, one behind the other.
LEMMA ConcatKeeps ==
  ASSUME NEW S, NEW s \in Seq(S), NEW t \in Seq(S)
  PROVE  /\ s \o t \in Seq(S)
         /\ ToSet(s \o t) = ToSet(s) \cup ToSet(t)
         /\ Increasing(s) /\ Increasing(t) /\ Before(s, t) => Increasing(s \o t)
<1>1. /\ s \o t \in Seq(S) /\ Len(s \o t) = Len(s) + Len(t)
      /\ Len(s) \in Nat /\ Len(t) \in Nat
      /\ \A i \in 1 .. Len(s) : i \in DOMAIN (s \o t) /\ (s \o t)[i] = s[i]
      /\ \A i \in 1 .. Len(t) : i + Len(s) \in DOMAIN (s \o t) /\ (s \o t)[i + Len(s)] = t[i]
      /\ DOMAIN s = 1 .. Len(s) /\ DOMAIN t = 1 .. Len(t)
      /\ DOMAIN (s \o t) = 1 .. Len(s) + Len(t)
  OBVIOUS
<1>2. ASSUME NEW i \in DOMAIN (s \o t)
      PROVE  \/ i \in DOMAIN s /\ (s \o t)[i] = s[i]
             \/ i > Len(s) /\ i - Len(s) \in DOMAIN t /\ (s \o t)[i] = t[i - Len(s)]
  <2>1. i \in Nat
    BY <1>1
  <2> QED
    BY <1>1, <2>1
<1>3. ToSet(s \o t) = ToSet(s) \cup ToSet(t)
  <2>1. ToSet(s \o t) \subseteq ToSet(s) \cup ToSet(t)
    BY <1>2 DEF ToSet
  <2>2. ToSet(s) \subseteq ToSet(s \o t)
    BY <1>1 DEF ToSet
  <2>3. ToSet(t) \subseteq ToSet(s \o t)
    BY <1>1 DEF ToSet
  <2> QED
    BY <2>1, <2>2, <2>3
<1>4. ASSUME Increasing(s), Increasing(t), Before(s, t),
             NEW i \in DOMAIN (s \o t), NEW j \in DOMAIN (s \o t), i < j
      PROVE  (s \o t)[i] < (s \o t)[j]
  <2>1. CASE j \in DOMAIN s /\ (s \o t)[j] = s[j]
    BY <1>1, <1>4, <2>1 DEF Increasing
  <2>2. CASE j > Len(s) /\ j - Len(s) \in DOMAIN t /\ (s \o t)[j] = t[j - Len(s)]
    <3>1. CASE i \in DOMAIN s /\ (s \o t)[i] = s[i]
      BY <1>4, <2>2, <3>1 DEF Before, ToSet
    <3>2. CASE i > Len(s) /\ i - Len(s) \in DOMAIN t /\ (s \o t)[i] = t[i - Len(s)]
      BY <1>1, <1>4, <2>2, <3>2 DEF Increasing
    <3> QED
      BY <1>2, <3>1, <3>2
  <2> QED
    BY <1>2, <2>1, <2>2
<1> QED
  BY <1>1, <1>3, <1>4 DEF Increasing
-----------------------------------------------------------------------------
LEMMA Bounds ==
  /\ Cardinality(Reports) \in Nat
  /\ \A r \in Reports : r \in Nat /\ r >= 1
  /\ RingMax \in Nat \ {0} /\ ChunkMax \in Nat \ {0} /\ StoreMax \in Nat \ {0}
<1>1. Cardinality(Reports) \in Nat
  BY ReportAssumptions, FS_CardinalityType
<1>2. \A r \in Reports : r \in Nat /\ r >= 1
  BY <1>1, ReportAssumptions
<1> QED
  BY <1>1, <1>2, ReportAssumptions

(***************************************************************************)
(* Initially nothing was recorded.                                         *)
(***************************************************************************)
LEMMA InitIInv == Init => IInv
<1> SUFFICES ASSUME Init PROVE IInv
  OBVIOUS
<1>1. ToSet(pushing) = {} /\ ToSet(ring) = {} /\ Waiting = {}
  BY DEF Init, ToSet, Waiting
<1>2. TypeOK
  BY Bounds DEF Init, TypeOK
<1>3. OrderInv
  BY <1>1 DEF Init, OrderInv, Increasing, Before
<1>4. TakenInv
  BY <1>1 DEF Init, TakenInv, RepeatsAreUnheardAnswers
<1> QED
  BY <1>2, <1>3, <1>4 DEF IInv

(***************************************************************************)
(* A step with which the control plane takes nothing, and after which what *)
(* no longer waits is lost, keeps the invariant if it keeps the order.     *)
(***************************************************************************)
LEMMA NothingTaken ==
  ASSUME IInv, TypeOK', UNCHANGED <<next, ingested, unheard>>,
         Increasing(pushing)', Increasing(ring)', Before(pushing, ring)',
         Waiting' \subseteq Waiting, Waiting \subseteq Waiting' \cup lost', lost \subseteq lost',
         \A chunk \in late' : chunk \in late \/ ToSet(chunk) \subseteq Waiting
  PROVE  IInv'
<1>1. OrderInv'
  BY DEF IInv, OrderInv, Settled
<1>2. TakenInv'
  BY DEF IInv, OrderInv, TakenInv, RepeatsAreUnheardAnswers
<1> QED
  BY <1>1, <1>2 DEF IInv

(***************************************************************************)
(* requeue puts the unsettled part of a push in front of what was recorded *)
(* since; what a full ring has no room for is lost.                        *)
(***************************************************************************)
LEMMA RequeueKeeps ==
  ASSUME IInv, Requeue
  PROVE  /\ pushing' \in Seq(Reports) /\ Len(pushing') <= RingMax
         /\ ring' \in Seq(Reports) /\ Len(ring') <= RingMax
         /\ Increasing(pushing)' /\ Increasing(ring)' /\ Before(pushing, ring)'
         /\ Waiting' \subseteq Waiting /\ Waiting \subseteq Waiting' \cup lost' /\ lost \subseteq lost'
<1>1. /\ pushing \in Seq(Reports) /\ ring \in Seq(Reports)
      /\ Increasing(pushing) /\ Increasing(ring) /\ Before(pushing, ring)
  BY DEF IInv, TypeOK, OrderInv
<1>2. /\ pushing \o ring \in Seq(Reports) /\ Increasing(pushing \o ring)
      /\ ToSet(pushing \o ring) = Waiting
  BY <1>1, ConcatKeeps DEF Waiting
<1>3. /\ ring' \in Seq(Reports) /\ Len(ring') <= RingMax
      /\ ToSet(ring') \subseteq Waiting /\ Increasing(ring')
  BY <1>2, Bounds, OldestKeeps DEF Requeue
<1>4. pushing' = <<>> /\ ToSet(pushing') = {} /\ Waiting' = ToSet(ring')
  BY DEF Requeue, Waiting, ToSet
<1>5. lost' = lost \cup (Waiting \ ToSet(ring'))
  BY <1>2 DEF Requeue
<1>6. Increasing(pushing)' /\ Increasing(ring)' /\ Before(pushing, ring)'
  BY <1>3, <1>4 DEF Increasing, Before
<1> QED
  BY <1>3, <1>4, <1>5, <1>6, Bounds

(***************************************************************************)
(* AddGatewayReports counts each report of a chunk once.                   *)
(***************************************************************************)
LEMMA IngestType ==
  ASSUME TypeOK, NEW chunk \in Seq(Reports), Ingest(chunk)
  PROVE  /\ store' \in Seq(Reports) /\ Len(store') <= StoreMax
         /\ ingested' \in [Reports -> Nat]
         /\ \A r \in ToSet(chunk) : r \in Reports /\ ingested'[r] = ingested[r] + 1
         /\ \A r \in Reports \ ToSet(chunk) : ingested'[r] = ingested[r]
<1>1. store \o chunk \in Seq(Reports)
  BY ConcatKeeps DEF TypeOK
<1>2. store' \in Seq(Reports) /\ Len(store') <= StoreMax
  BY <1>1, Bounds, NewestKeeps DEF Ingest
<1>3. ToSet(chunk) \subseteq Reports
  BY DEF ToSet
<1> QED
  BY <1>2, <1>3 DEF TypeOK, Ingest

(***************************************************************************)
(* The first chunk of a push is taken and waits no longer, so that no      *)
(* report of it is behind and in it at once.                               *)
(***************************************************************************)
LEMMA TakeKeepsIInv ==
  ASSUME IInv, Take
  PROVE  IInv'
<1> DEFINE chunk == ChunkOf(pushing)
<1>1. /\ pushing \in Seq(Reports) /\ ring \in Seq(Reports) /\ Len(pushing) <= RingMax
      /\ Increasing(pushing) /\ Increasing(ring) /\ Before(pushing, ring)
  BY DEF IInv, TypeOK, OrderInv
<1>2. /\ chunk \in Seq(Reports) /\ pushing' \in Seq(Reports) /\ Len(pushing') <= Len(pushing)
      /\ ToSet(pushing) = ToSet(chunk) \cup ToSet(pushing')
      /\ Increasing(pushing') /\ Before(chunk, pushing')
  BY <1>1, ChunkAndRest DEF Take
<1>3. /\ store' \in Seq(Reports) /\ Len(store') <= StoreMax
      /\ ingested' \in [Reports -> Nat]
      /\ \A r \in ToSet(chunk) : r \in Reports /\ ingested'[r] = ingested[r] + 1
      /\ \A r \in Reports \ ToSet(chunk) : ingested'[r] = ingested[r]
  BY <1>2, IngestType DEF IInv, Take
<1>4. /\ Waiting = ToSet(chunk) \cup Waiting' /\ UNCHANGED <<next, ring, late, unheard, lost>>
      /\ Waiting \subseteq Reports
  <2>1. Waiting \subseteq Reports
    BY <1>1 DEF Waiting, ToSet
  <2> QED
    BY <1>2, <2>1 DEF Take, Waiting
<1>5. \A r \in Waiting' : r \notin ToSet(chunk)
  <2>1. \A a \in ToSet(chunk), b \in Waiting' : a < b
    BY <1>1, <1>2, <1>4 DEF Waiting, Before
  <2>2. \A a \in ToSet(chunk) : ~(a < a)
    BY <1>4, Bounds
  <2> QED
    BY <2>1, <2>2
<1>6. TypeOK'
  <2>1. Len(pushing') \in Nat /\ Len(pushing) \in Nat
    BY <1>1, <1>2
  <2> QED
    BY <1>1, <1>2, <1>3, <1>4, <2>1, Bounds DEF IInv, TypeOK
<1>7. OrderInv'
  <2>1. Before(pushing, ring)'
    BY <1>1, <1>2, <1>4 DEF Before
  <2>2. ASSUME NEW r \in 1 .. next - 1 PROVE Settled(r)' \/ r \in Waiting'
    <3>1. r \in Reports
      BY Bounds, ReportAssumptions DEF IInv, TypeOK
    <3>2. CASE r \in ToSet(chunk)
      <4>1. ingested'[r] > 0
        BY <1>3, <3>1, <3>2 DEF IInv, TypeOK
      <4> QED
        BY <4>1 DEF Settled
    <3>3. CASE r \notin ToSet(chunk)
      BY <1>3, <1>4, <3>1, <3>3 DEF IInv, OrderInv, Settled
    <3> QED
      BY <3>2, <3>3
  <2> QED
    BY <1>1, <1>2, <1>4, <2>1, <2>2 DEF IInv, OrderInv
<1>8. TakenInv'
  <2>1. \A r \in Reports : r >= next => ingested'[r] = 0
    <3> SUFFICES ASSUME NEW r \in Reports, r >= next PROVE ingested'[r] = 0
      OBVIOUS
    <3>1. r \notin ToSet(chunk)
      BY <1>4, Bounds DEF IInv, OrderInv, TypeOK
    <3> QED
      BY <1>3, <3>1 DEF IInv, TakenInv
  <2>2. \A r \in Waiting' : ingested'[r] <= unheard
    BY <1>3, <1>4, <1>5 DEF IInv, TakenInv
  <2>3. \A r \in Reports : ingested'[r] <= 1 + unheard
    <3> SUFFICES ASSUME NEW r \in Reports PROVE ingested'[r] <= 1 + unheard
      OBVIOUS
    <3>1. CASE r \in ToSet(chunk)
      BY <1>3, <1>4, <3>1 DEF IInv, TypeOK, TakenInv
    <3>2. CASE r \notin ToSet(chunk)
      BY <1>3, <3>2 DEF IInv, TakenInv, RepeatsAreUnheardAnswers
    <3> QED
      BY <3>1, <3>2
  <2> QED
    BY <1>4, <2>1, <2>2, <2>3 DEF IInv, TakenInv, RepeatsAreUnheardAnswers
<1> QED
  BY <1>6, <1>7, <1>8 DEF IInv

(***************************************************************************)
(* A chunk taken late raises the allowance of every report by one, and the *)
(* count of those it holds.                                                *)
(***************************************************************************)
LEMMA TakeLateKeepsIInv ==
  ASSUME IInv, TakeLate
  PROVE  IInv'
<1>1. PICK chunk \in late :
        /\ Ingest(chunk) /\ late' = late \ {chunk}
        /\ unheard' = unheard + 1 /\ UNCHANGED <<gateway, lost>>
  BY DEF TakeLate
<1>2. chunk \in Seq(Reports) /\ UNCHANGED <<next, ring, pushing, lost>> /\ Waiting' = Waiting
  BY <1>1 DEF IInv, TypeOK, gateway, Waiting
<1>3. /\ store' \in Seq(Reports) /\ Len(store') <= StoreMax
      /\ ingested' \in [Reports -> Nat]
      /\ \A r \in ToSet(chunk) : r \in Reports /\ ingested'[r] = ingested[r] + 1
      /\ \A r \in Reports \ ToSet(chunk) : ingested'[r] = ingested[r]
  BY <1>1, <1>2, IngestType DEF IInv
<1>4. ASSUME NEW r \in Reports
      PROVE  ingested'[r] >= ingested[r] /\ ingested'[r] <= ingested[r] + 1
  <2>1. ingested[r] \in Nat
    BY DEF IInv, TypeOK
  <2> QED
    BY <1>3, <2>1
<1>5. Waiting \subseteq Reports /\ 1 .. next - 1 \subseteq Reports
  BY Bounds, ReportAssumptions DEF IInv, TypeOK, Waiting, ToSet
<1>6. TypeOK'
  BY <1>1, <1>2, <1>3 DEF IInv, TypeOK
<1>7. OrderInv'
  <2>1. ASSUME NEW r \in 1 .. next - 1 PROVE Settled(r) => Settled(r)'
    BY <1>2, <1>3, <1>4, <1>5 DEF IInv, TypeOK, Settled
  <2> QED
    BY <1>2, <2>1 DEF IInv, OrderInv, Before
<1>8. TakenInv'
  <2>1. \A r \in Reports : r >= next => ingested'[r] = 0
    <3> SUFFICES ASSUME NEW r \in Reports, r >= next PROVE ingested'[r] = 0
      OBVIOUS
    <3>1. r \notin ToSet(chunk)
      BY Bounds DEF IInv, TakenInv, TypeOK
    <3> QED
      BY <1>3, <3>1 DEF IInv, TakenInv
  <2>2. \A r \in Waiting : ingested'[r] <= unheard + 1
    BY <1>3, <1>4, <1>5 DEF IInv, TypeOK, TakenInv
  <2>3. \A r \in Reports : ingested'[r] <= 1 + (unheard + 1)
    BY <1>3, <1>4 DEF IInv, TypeOK, TakenInv, RepeatsAreUnheardAnswers
  <2> QED
    BY <1>1, <1>2, <2>1, <2>2, <2>3 DEF IInv, TakenInv, RepeatsAreUnheardAnswers
<1> QED
  BY <1>6, <1>7, <1>8 DEF IInv

(***************************************************************************)
(* auditRing.add puts the new report behind all others.                    *)
(***************************************************************************)
LEMMA RecordKeepsIInv ==
  ASSUME IInv, Record
  PROVE  IInv'
<1>1. /\ pushing \in Seq(Reports) /\ ring \in Seq(Reports) /\ next \in Nat /\ next \in Reports
      /\ Increasing(pushing) /\ Increasing(ring) /\ Before(pushing, ring)
      /\ ToSet(pushing) \subseteq 1 .. next - 1 /\ ToSet(ring) \subseteq 1 .. next - 1
  BY Bounds DEF IInv, TypeOK, OrderInv, Record, Waiting
<1> DEFINE s == Append(ring, next)
<1>2. s \in Seq(Reports) /\ ToSet(s) = ToSet(ring) \cup {next} /\ Increasing(s)
  <2> DEFINE u == <<next>>
  <2>1. u \in Seq(Reports) /\ s = ring \o u /\ ToSet(u) = {next} /\ Increasing(u)
    BY <1>1 DEF ToSet, Increasing
  <2> HIDE DEF s, u
  <2>2. Before(ring, u)
    BY <1>1, <2>1 DEF Before
  <2> QED
    BY <1>1, <2>1, <2>2, ConcatKeeps
<1>3. /\ ring' \in Seq(Reports) /\ Len(ring') <= RingMax
      /\ ToSet(ring') \subseteq ToSet(ring) \cup {next} /\ Increasing(ring')
  BY <1>2, Bounds, NewestKeeps DEF Record
<1>4. /\ next' = next + 1 /\ lost' = lost \cup ((ToSet(ring) \cup {next}) \ ToSet(ring'))
      /\ UNCHANGED <<pushing, late, store, ingested, unheard>>
  BY <1>2 DEF Record
<1>5. /\ Waiting' \subseteq Waiting \cup {next} /\ Waiting \cup {next} \subseteq Waiting' \cup lost'
      /\ Waiting' \subseteq 1 .. next
  <2>1. 1 .. next - 1 \subseteq 1 .. next /\ next \in 1 .. next
    BY <1>1, Bounds
  <2> QED
    BY <1>1, <1>3, <1>4, <2>1 DEF Waiting
<1>6. TypeOK'
  <2>1. next' \in 1 .. Cardinality(Reports) + 1
    BY <1>1, <1>4, Bounds, ReportAssumptions
  <2> QED
    BY <1>3, <1>4, <2>1 DEF IInv, TypeOK
<1>7. OrderInv'
  <2>1. Before(pushing, ring)'
    BY <1>1, <1>3, <1>4 DEF Before
  <2>2. \A r \in 1 .. next' - 1 : Settled(r)' \/ r \in Waiting'
    BY <1>1, <1>4, <1>5 DEF IInv, OrderInv, Settled
  <2> QED
    BY <1>1, <1>3, <1>4, <1>5, <2>1, <2>2 DEF IInv, OrderInv
<1>8. TakenInv'
  <2>1. \A chunk \in late' : ToSet(chunk) \subseteq 1 .. next' - 1
    BY <1>1, <1>4 DEF IInv, TakenInv
  <2>2. \A r \in Reports : r >= next' => ingested'[r] = 0
    BY <1>1, <1>4, Bounds DEF IInv, TakenInv
  <2>3. \A r \in Waiting' : ingested'[r] <= unheard
    <3>1. ingested[next] <= unheard
      BY <1>1 DEF IInv, TakenInv
    <3> QED
      BY <1>4, <1>5, <3>1 DEF IInv, TakenInv
  <2> QED
    BY <1>4, <2>1, <2>2, <2>3 DEF IInv, TakenInv, RepeatsAreUnheardAnswers
<1> QED
  BY <1>6, <1>7, <1>8 DEF IInv

(***************************************************************************)
(* Every step keeps the invariant.                                         *)
(***************************************************************************)
LEMMA NextKeepsIInv == IInv /\ [Next]_vars => IInv'
<1> SUFFICES ASSUME IInv, [Next]_vars PROVE IInv'
  OBVIOUS
<1>0. /\ pushing \in Seq(Reports) /\ ring \in Seq(Reports)
      /\ Len(pushing) <= RingMax /\ Len(ring) <= RingMax
      /\ Increasing(pushing) /\ Increasing(ring) /\ Before(pushing, ring)
      /\ Waiting = ToSet(pushing) \cup ToSet(ring)
  BY DEF IInv, TypeOK, OrderInv, Waiting
<1>1. CASE UNCHANGED vars
  <2>1. Waiting' = Waiting
    BY <1>1 DEF vars, gateway, Waiting
  <2>2. TypeOK'
    BY <1>1 DEF IInv, TypeOK, vars, gateway
  <2> QED
    BY <1>0, <1>1, <2>1, <2>2, NothingTaken DEF vars, gateway, Before
<1>2. CASE Drain
  <2>1. /\ pushing' = ring /\ ring' = <<>> /\ ToSet(ring') = {} /\ ToSet(pushing) = {}
    BY <1>2 DEF Drain, ToSet
  <2>2. Waiting' = Waiting
    BY <2>1 DEF Waiting
  <2>3. TypeOK'
    BY <1>0, <1>2, Bounds DEF Drain, IInv, TypeOK
  <2>4. Increasing(pushing)' /\ Increasing(ring)' /\ Before(pushing, ring)'
    BY <1>0, <2>1 DEF Increasing, Before
  <2> QED
    BY <1>2, <2>2, <2>3, <2>4, NothingTaken DEF Drain
<1>3. CASE Reject
  <2>1. /\ ChunkOf(pushing) \in Seq(Reports)
        /\ pushing' \in Seq(Reports) /\ Len(pushing') <= Len(pushing)
        /\ ToSet(pushing) = ToSet(ChunkOf(pushing)) \cup ToSet(pushing')
        /\ Increasing(pushing')
    BY <1>0, <1>3, ChunkAndRest DEF Reject
  <2>2. TypeOK'
    <3>1. Len(pushing') \in Nat /\ Len(pushing) \in Nat
      BY <1>0, <2>1
    <3> QED
      BY <1>0, <1>3, <2>1, <3>1, Bounds DEF Reject, IInv, TypeOK
  <2>3. /\ Waiting' \subseteq Waiting /\ Waiting \subseteq Waiting' \cup lost' /\ lost \subseteq lost'
    BY <1>3, <2>1 DEF Reject, Waiting
  <2>4. Increasing(pushing)' /\ Increasing(ring)' /\ Before(pushing, ring)'
    BY <1>0, <1>3, <2>1 DEF Reject, Before
  <2> QED
    BY <1>3, <2>2, <2>3, <2>4, NothingTaken DEF Reject
<1>4. CASE PostFails
  <2>1. TypeOK'
    BY <1>4, RequeueKeeps DEF PostFails, IInv, TypeOK
  <2> QED
    BY <1>4, <2>1, RequeueKeeps, NothingTaken DEF PostFails
<1>5. CASE GiveUp
  <2>1. ChunkOf(pushing) \in Seq(Reports) /\ ToSet(ChunkOf(pushing)) \subseteq Waiting
    BY <1>0, ChunkAndRest DEF Waiting
  <2>2. TypeOK'
    BY <1>5, <2>1, RequeueKeeps DEF GiveUp, IInv, TypeOK
  <2> QED
    BY <1>5, <2>1, <2>2, RequeueKeeps, NothingTaken DEF GiveUp
<1>6. CASE RestartControlPlane
  <2>1. Waiting' = Waiting
    BY <1>6 DEF RestartControlPlane, gateway, Waiting
  <2>2. TypeOK'
    BY <1>6, Bounds DEF RestartControlPlane, gateway, IInv, TypeOK
  <2> QED
    BY <1>0, <1>6, <2>1, <2>2, NothingTaken DEF RestartControlPlane, gateway, Before
<1>7. CASE CrashGateway
  <2>1. pushing' = <<>> /\ ring' = <<>> /\ ToSet(pushing') = {} /\ ToSet(ring') = {}
    BY <1>7 DEF CrashGateway, ToSet
  <2>2. /\ Waiting' \subseteq Waiting /\ Waiting \subseteq Waiting' \cup lost' /\ lost \subseteq lost'
    BY <1>7, <2>1 DEF CrashGateway, Waiting
  <2>3. TypeOK'
    BY <1>7, Bounds DEF CrashGateway, IInv, TypeOK
  <2>4. Increasing(pushing)' /\ Increasing(ring)' /\ Before(pushing, ring)'
    BY <2>1 DEF Increasing, Before
  <2> QED
    BY <1>7, <2>2, <2>3, <2>4, NothingTaken DEF CrashGateway
<1> QED
  BY <1>1, <1>2, <1>3, <1>4, <1>5, <1>6, <1>7, TakeKeepsIInv, TakeLateKeepsIInv, RecordKeepsIInv
  DEF Next

(***************************************************************************)
(* What waits is in order, and what was recorded waits or is settled.      *)
(***************************************************************************)
LEMMA IInvImpliesOrder == IInv => ReportsWaitInOrder
<1> SUFFICES ASSUME IInv PROVE ReportsWaitInOrder
  OBVIOUS
<1>1. Increasing(pushing \o ring) /\ ToSet(pushing \o ring) = Waiting
  BY ConcatKeeps DEF IInv, TypeOK, OrderInv, Waiting
<1> QED
  BY <1>1 DEF IInv, OrderInv, ReportsWaitInOrder, Increasing
-----------------------------------------------------------------------------
(***************************************************************************)
(* The pusher with its windows and batches, step by step, delivers reports *)
(* as ReportDelivery says, or does nothing to them.                        *)
(***************************************************************************)
THEOREM EmitImplementsDelivery == EmitSpec => Spec
<1>1. EmitInit => Init
  BY DEF EmitInit
<1>2. [EmitNext]_allVars => [Next]_vars
  BY DEF EmitNext, allVars, Next, RecordReport, Observe, RefuseCaller, Tick, TickOfReports,
         BatchTaken, BatchFails, PushReports, TakeChunk, RejectChunk, ChunkFails,
         GiveUpOnChunk, LateChunkTaken, ControlPlaneRestarts, GatewayCrashes
<1> QED
  BY <1>1, <1>2, PTL DEF EmitSpec, Spec

(***************************************************************************)
(* A recorded report waits its turn, oldest first and never twice, until   *)
(* the control plane takes it or it is lost to a full ring, a chunk it can *)
(* never accept, or a crash: ring, drain, requeue and the chunks of a push *)
(* neither drop nor reorder one.                                           *)
(***************************************************************************)
THEOREM RecordedReportsWait == EmitSpec => []ReportsWaitInOrder
BY EmitImplementsDelivery, InitIInv, NextKeepsIInv, IInvImpliesOrder, PTL DEF Spec

(***************************************************************************)
(* The control plane takes a report again at most once for each post whose *)
(* answer the gateway did not wait for, though it keeps no list of what it *)
(* has.                                                                    *)
(***************************************************************************)
THEOREM RepeatsAreExplained == EmitSpec => []RepeatsAreUnheardAnswers
<1>1. IInv => RepeatsAreUnheardAnswers
  BY DEF IInv, TakenInv
<1> QED
  BY <1>1, EmitImplementsDelivery, InitIInv, NextKeepsIInv, PTL DEF Spec
-----------------------------------------------------------------------------
Grid == [Routes -> [Counters -> Nat]]

\* metrics.observe counts a request under "requests", whatever else it counts.
CountsServed(w) ==
    \A rt \in Routes : w[rt]["requests"] = 0 =>
        \A c \in Counters : c # "authFailures" => w[rt][c] = 0

\* A batch exists only while it is posted, and only recorded reports are counted.
WindowsInv ==
    /\ phase # "posting" => batch = Zero
    /\ unobserved \subseteq 1 .. next - 1 /\ 1 .. next - 1 \subseteq Reports
    /\ window \in Grid /\ batch \in Grid /\ refused \in Grid /\ counted \in Grid /\ gone \in Grid
    /\ CountsServed(window) /\ CountsServed(batch)

CountInv == WindowsInv /\ CountsAddUp

\* Reports are pushed by the goroutine that has no batch to post.
PhaseInv == pushing # <<>> => phase = "pushing"

(***************************************************************************)
(* Counts are added route by route and counter by counter.                 *)
(***************************************************************************)
LEMMA PlusAdds ==
    ASSUME NEW a \in Grid, NEW b \in Grid
    PROVE  /\ Plus(a, b) \in Grid
           /\ \A rt \in Routes, c \in Counters : Plus(a, b)[rt][c] = a[rt][c] + b[rt][c]
<1>1. \A rt \in Routes, c \in Counters : a[rt][c] \in Nat /\ b[rt][c] \in Nat
    BY DEF Grid
<1>2. \A rt \in Routes, c \in Counters : a[rt][c] + b[rt][c] \in Nat
    BY <1>1
<1>3. \A rt \in Routes : [c \in Counters |-> a[rt][c] + b[rt][c]] \in [Counters -> Nat]
    BY <1>2
<1> QED BY <1>3 DEF Plus, Grid

LEMMA ZeroIs ==
    /\ Zero \in Grid /\ CountsServed(Zero)
    /\ \A rt \in Routes, c \in Counters : Zero[rt][c] = 0
<1>1. "requests" \in Counters
    BY DEF Counters, Named
<1> QED BY <1>1 DEF Zero, Grid, CountsServed

LEMMA OfIs ==
    ASSUME NEW rt0, NEW adds \in [Counters -> Nat]
    PROVE  /\ Of(rt0, adds) \in Grid
           /\ \A rt \in Routes, c \in Counters :
                Of(rt0, adds)[rt][c] = IF rt = rt0 THEN adds[c] ELSE 0
<1>1. \A rt \in Routes, c \in Counters : (IF rt = rt0 THEN adds[c] ELSE 0) \in Nat
    OBVIOUS
<1> QED BY <1>1 DEF Of, Grid

LEMMA ReportIs ==
    ASSUME NEW r \in Reports
    PROVE  /\ OfReport(r) \in Grid /\ Adds[r] \in [Counters -> Nat]
           /\ \A rt \in Routes, c \in Counters :
                OfReport(r)[rt][c] = IF rt = Route[r] THEN Adds[r][c] ELSE 0
<1>1. Adds[r] \in [Counters -> Nat]
    BY EmitAssumptions DEF EmitAssumptions
<1> QED BY <1>1, OfIs DEF OfReport

LEMMA RefusalIs ==
    ASSUME NEW rt0
    PROVE  /\ OfRefusal(rt0) \in Grid
           /\ \A rt \in Routes, c \in Counters :
                c # "authFailures" => OfRefusal(rt0)[rt][c] = 0
<1> DEFINE one == [c \in Counters |-> IF c = "authFailures" THEN 1 ELSE 0]
<1>1. one \in [Counters -> Nat] /\ \A c \in Counters : c # "authFailures" => one[c] = 0
    OBVIOUS
<1>2. OfRefusal(rt0) = Of(rt0, one)
    BY DEF OfRefusal
<1> HIDE DEF one
<1> QED BY <1>1, <1>2, OfIs

\* The units one request adds, and how many.
LEMMA OwnUnits ==
    ASSUME NEW r \in Reports, NEW c \in Counters
    PROVE  /\ IsFiniteSet({r} \X (1 .. Adds[r][c]))
           /\ Cardinality({r} \X (1 .. Adds[r][c])) = Adds[r][c]
<1>1. Adds[r][c] \in Nat
    BY ReportIs
<1>2. IsFiniteSet(1 .. Adds[r][c]) /\ Cardinality(1 .. Adds[r][c]) = Adds[r][c]
    <2>1. 1 \in Int /\ Adds[r][c] \in Int /\ (1 > Adds[r][c] => Adds[r][c] = 0)
        BY <1>1
    <2>2. Adds[r][c] - 1 + 1 = Adds[r][c]
        BY <1>1
    <2> QED BY <2>1, <2>2, FS_Interval
<1>3. IsFiniteSet({r}) /\ Cardinality({r}) = 1
    BY FS_Singleton
<1> DEFINE own == 1 .. Adds[r][c]
           n == Adds[r][c]
<1>4. IsFiniteSet(own) /\ Cardinality(own) = n /\ n \in Nat
    BY <1>1, <1>2
<1> HIDE DEF own, n
<1>5. IsFiniteSet({r} \X own) /\ Cardinality({r} \X own) = Cardinality({r}) * Cardinality(own)
    BY <1>3, <1>4, FS_Product
<1>6. 1 * n = n
    BY <1>4
<1>7. Cardinality({r} \X own) = n
    BY <1>3, <1>4, <1>5, <1>6
<1> QED BY <1>5, <1>7 DEF own, n

LEMMA UnitsAreFinite ==
    ASSUME NEW S \in SUBSET Reports, IsFiniteSet(S), NEW rt, NEW c \in Counters
    PROVE  IsFiniteSet(Units(S, rt, c)) /\ Cardinality(Units(S, rt, c)) \in Nat
<1> DEFINE H == {q \in S : Route[q] = rt}
           f == [r \in H |-> {r} \X (1 .. Adds[r][c])]
           T == {{r} \X (1 .. Adds[r][c]) : r \in H}
<1>1. H \in SUBSET S /\ H \subseteq Reports
    OBVIOUS
<1>2. IsFiniteSet(H)
    BY <1>1, FS_Subset
<1>3. f \in Surjection(H, T)
    BY DEF Surjection
<1>4. IsFiniteSet(T)
    BY <1>2, <1>3, FS_Surjection
<1>5. \A t \in T : IsFiniteSet(t)
    BY <1>1, OwnUnits
<1>6. IsFiniteSet(UNION T)
    BY <1>4, <1>5, FS_UNION
<1>7. Units(S, rt, c) = UNION T
    BY DEF Units
<1> QED BY <1>6, <1>7, FS_CardinalityType

LEMMA ReportsIs ==
    ASSUME NEW S
    PROVE  \A rt \in Routes, c \in Counters : OfReports(S)[rt][c] = Cardinality(Units(S, rt, c))
BY DEF OfReports

(***************************************************************************)
(* What the requests of a set add is what one of them adds and what the    *)
(* others add.                                                             *)
(***************************************************************************)
LEMMA OneMoreAdds ==
    ASSUME NEW S \in SUBSET Reports, IsFiniteSet(S), NEW r \in Reports, r \notin S,
           NEW rt \in Routes, NEW c \in Counters
    PROVE  OfReports(S \cup {r})[rt][c] = OfReports(S)[rt][c] + OfReport(r)[rt][c]
<1> DEFINE own == {r} \X (1 .. Adds[r][c])
           before == Units(S, rt, c)
           after == Units(S \cup {r}, rt, c)
<1>1. /\ OfReports(S)[rt][c] = Cardinality(before)
      /\ OfReports(S \cup {r})[rt][c] = Cardinality(after)
    BY ReportsIs
<1>2. IsFiniteSet(before) /\ Cardinality(before) \in Nat
    BY UnitsAreFinite
<1>3. OfReport(r)[rt][c] = IF rt = Route[r] THEN Adds[r][c] ELSE 0
    BY ReportIs
<1>4. CASE Route[r] = rt
    <2>1. after = before \cup own
        BY <1>4 DEF Units
    <2>2. before \cap own = {}
        BY DEF Units
    <2>3. IsFiniteSet(own) /\ Cardinality(own) = Adds[r][c] /\ Adds[r][c] \in Nat
        BY OwnUnits, ReportIs
    <2>4. Cardinality({}) = 0
        BY FS_EmptySet
    <2> HIDE DEF own, before, after
    <2>5. Cardinality(before \cup own)
            = Cardinality(before) + Cardinality(own) - Cardinality(before \cap own)
        BY <1>2, <2>3, FS_Union
    <2>6. Cardinality(before \cap own) = 0
        BY <2>2, <2>4
    <2> DEFINE m == Cardinality(before)
               n == Adds[r][c]
    <2>7. Cardinality(before \cup own) = m + n - 0 /\ m \in Nat /\ n \in Nat
        BY <1>2, <2>3, <2>5, <2>6
    <2>8. m + n - 0 = m + n
        BY <2>7
    <2> QED BY <1>1, <1>3, <1>4, <2>1, <2>7, <2>8
<1>5. CASE Route[r] # rt
    <2>1. after = before
        BY <1>5 DEF Units
    <2>2. OfReport(r)[rt][c] = 0
        BY <1>3, <1>5
    <2> HIDE DEF before, after
    <2> QED BY <1>1, <1>2, <2>1, <2>2
<1> QED BY <1>4, <1>5

LEMMA ReportsAdd ==
    ASSUME NEW S \in SUBSET Reports, IsFiniteSet(S)
    PROVE  /\ OfReports(S) \in Grid
           /\ \A r \in Reports : r \notin S => \A rt \in Routes, c \in Counters :
                OfReports(S \cup {r})[rt][c] = OfReports(S)[rt][c] + OfReport(r)[rt][c]
<1>1. \A rt \in Routes, c \in Counters : Cardinality(Units(S, rt, c)) \in Nat
    BY UnitsAreFinite
<1>2. OfReports(S) \in Grid
    BY <1>1 DEF OfReports, Grid
<1> QED BY <1>2, OneMoreAdds

LEMMA NoReportsAdd == OfReports({}) = Zero
<1>1. \A rt, c : Units({}, rt, c) = {}
    BY DEF Units
<1>2. Cardinality({}) = 0
    BY FS_EmptySet
<1> QED BY <1>1, <1>2 DEF OfReports, Zero

(***************************************************************************)
(* A batch as it is sent has all that was counted of what is sent.         *)
(***************************************************************************)
LEMMA NothingIsLeftOut ==
    ASSUME NEW w \in Grid, CountsServed(w)
    PROVE  /\ Sent(w) \in Grid
           /\ \A rt \in Routes, c \in SentCounters : Sent(w)[rt][c] = w[rt][c]
<1>1. ASSUME NEW rt \in Routes, NEW c \in Counters, ~(w[rt]["requests"] > 0), c # "authFailures"
      PROVE  w[rt][c] = 0
    <2>1. "requests" \in Counters
        BY DEF Counters, Named
    <2>2. w[rt]["requests"] \in Nat
        BY <2>1 DEF Grid
    <2>3. w[rt]["requests"] = 0
        BY <1>1, <2>2
    <2> QED BY <1>1, <2>3 DEF CountsServed
<1>2. Sent(w) \in Grid
    <2>1. \A rt \in Routes, c \in Counters : w[rt][c] \in Nat
        BY DEF Grid
    <2> QED BY <2>1 DEF Sent, Grid
<1>3. ASSUME NEW rt \in Routes, NEW c \in SentCounters
      PROVE  Sent(w)[rt][c] = w[rt][c]
    <2>1. c \in Counters
        BY DEF SentCounters
    <2>2. Sent(w)[rt][c] = IF /\ c \in SentCounters
                              /\ w[rt]["requests"] > 0 \/ c \in {"authFailures"} \cup Types
                           THEN w[rt][c] ELSE 0
        BY <2>1 DEF Sent
    <2> QED BY <1>1, <2>1, <2>2
<1> QED BY <1>2, <1>3

(***************************************************************************)
(* CountsAddUp, for one counter of one route.                              *)
(***************************************************************************)
AddsUpAt(rt, c) ==
    refused[rt][c] + OfReports(1 .. next - 1)[rt][c] =
        counted[rt][c] + gone[rt][c] + OfReports(unobserved)[rt][c] + window[rt][c] + batch[rt][c]

LEMMA PointByPoint ==
    ASSUME WindowsInv, next \in Nat
    PROVE  /\ OfReports(1 .. next - 1) \in Grid /\ OfReports(unobserved) \in Grid
           /\ IsFiniteSet(1 .. next - 1) /\ IsFiniteSet(unobserved)
           /\ CountsAddUp <=> \A rt \in Routes, c \in SentCounters : AddsUpAt(rt, c)
<1>1. IsFiniteSet(1 .. next - 1) /\ 1 .. next - 1 \in SUBSET Reports
    <2>1. 1 \in Int /\ next - 1 \in Int
        OBVIOUS
    <2> QED BY <2>1, FS_Interval DEF WindowsInv
<1>2. IsFiniteSet(unobserved) /\ unobserved \in SUBSET Reports
    BY <1>1, FS_Subset DEF WindowsInv
<1>3. OfReports(1 .. next - 1) \in Grid /\ OfReports(unobserved) \in Grid
    BY <1>1, <1>2, ReportsAdd
<1> QED BY <1>1, <1>2, <1>3 DEF CountsAddUp, AddsUpAt

\* The same of the next state.
LEMMA PointByPointNext ==
    (WindowsInv /\ next \in Nat =>
        (CountsAddUp <=> \A rt \in Routes, c \in SentCounters : AddsUpAt(rt, c)))'
<1>1. WindowsInv /\ next \in Nat =>
        (CountsAddUp <=> \A rt \in Routes, c \in SentCounters : AddsUpAt(rt, c))
    BY PointByPoint
<1> QED BY <1>1, PTL

(***************************************************************************)
(* A request that is counted adds to the window what it took from the      *)
(* uncounted, under "requests" at least.                                   *)
(***************************************************************************)
LEMMA ServedAdds ==
    ASSUME NEW w \in Grid, NEW d \in Grid, CountsServed(w), CountsServed(d)
    PROVE  CountsServed(Plus(w, d))
<1> SUFFICES ASSUME NEW rt \in Routes, Plus(w, d)[rt]["requests"] = 0,
                    NEW c \in Counters, c # "authFailures"
             PROVE  Plus(w, d)[rt][c] = 0
    BY DEF CountsServed
<1>1. "requests" \in Counters
    BY DEF Counters, Named
<1>2. w[rt]["requests"] \in Nat /\ d[rt]["requests"] \in Nat /\ w[rt][c] \in Nat /\ d[rt][c] \in Nat
    BY <1>1 DEF Grid
<1>3. /\ Plus(w, d)[rt]["requests"] = w[rt]["requests"] + d[rt]["requests"]
      /\ Plus(w, d)[rt][c] = w[rt][c] + d[rt][c]
    BY <1>1, PlusAdds
<1>4. w[rt]["requests"] = 0 /\ d[rt]["requests"] = 0
    BY <1>2, <1>3
<1>5. w[rt][c] = 0 /\ d[rt][c] = 0
    BY <1>4 DEF CountsServed
<1> QED BY <1>3, <1>5

LEMMA ReportServes ==
    ASSUME NEW r \in Reports
    PROVE  OfReport(r) \in Grid /\ CountsServed(OfReport(r))
<1>1. /\ OfReport(r) \in Grid
      /\ \A rt \in Routes, c \in Counters :
           OfReport(r)[rt][c] = IF rt = Route[r] THEN Adds[r][c] ELSE 0
    BY ReportIs
<1>2. "requests" \in Counters /\ Adds[r]["requests"] = 1
    BY EmitAssumptions DEF EmitAssumptions, Counters, Named
<1> QED BY <1>1, <1>2 DEF CountsServed

LEMMA RefusalServes ==
    ASSUME NEW rt0
    PROVE  OfRefusal(rt0) \in Grid /\ CountsServed(OfRefusal(rt0))
BY RefusalIs DEF CountsServed

(***************************************************************************)
(* Nothing is counted yet.                                                 *)
(***************************************************************************)
LEMMA CountsStart == EmitInit => CountInv
<1> SUFFICES ASSUME EmitInit PROVE CountInv
    OBVIOUS
<1>1. /\ next = 1 /\ phase = "idle" /\ unobserved = {}
      /\ window = Zero /\ batch = Zero /\ refused = Zero /\ counted = Zero /\ gone = Zero
    BY DEF EmitInit, Init
<1>2. WindowsInv
    BY <1>1, ZeroIs DEF WindowsInv
<1>3. 1 .. next - 1 = {}
    BY <1>1
<1>4. OfReports(1 .. next - 1) = Zero /\ OfReports(unobserved) = Zero
    BY <1>1, <1>3, NoReportsAdd
<1>5. \A rt \in Routes, c \in SentCounters : AddsUpAt(rt, c)
    <2> SUFFICES ASSUME NEW rt \in Routes, NEW c \in SentCounters PROVE AddsUpAt(rt, c)
        OBVIOUS
    <2>1. Zero[rt][c] = 0
        BY ZeroIs DEF SentCounters
    <2> QED BY <1>1, <1>4, <2>1 DEF AddsUpAt
<1>6. next \in Nat
    BY <1>1
<1> QED BY <1>2, <1>5, <1>6, PointByPoint DEF CountInv

(***************************************************************************)
(* A step moves counts from one place to another. It keeps the sum if what *)
(* every place has is known for each counter.                              *)
(***************************************************************************)
LEMMA Moved ==
    ASSUME CountInv, next \in Nat, next' \in Nat, WindowsInv',
           \A rt \in Routes, c \in SentCounters : AddsUpAt(rt, c) => AddsUpAt(rt, c)'
    PROVE  CountInv'
<1>1. WindowsInv /\ CountsAddUp
    BY DEF CountInv
<1>2. \A rt \in Routes, c \in SentCounters : AddsUpAt(rt, c)
    BY <1>1, PointByPoint
<1>3. \A rt \in Routes, c \in SentCounters : AddsUpAt(rt, c)'
    BY <1>2
<1>4. (CountsAddUp <=> \A rt \in Routes, c \in SentCounters : AddsUpAt(rt, c))'
    BY PointByPointNext
<1> QED BY <1>3, <1>4 DEF CountInv

(***************************************************************************)
(* The steps of the reports alone move no counts: nothing is recorded, and *)
(* no batch is being posted.                                               *)
(***************************************************************************)
LEMMA ReportsMoveNoCounts ==
    ASSUME CountInv, next \in Nat, next' = next, phase' # "posting" => batch' = Zero,
           EmitRest
    PROVE  CountInv'
<1>1. /\ unobserved' = unobserved /\ window' = window /\ batch' = batch
      /\ refused' = refused /\ counted' = counted /\ gone' = gone
    BY DEF EmitRest
<1>2. WindowsInv'
    BY <1>1 DEF CountInv, WindowsInv, CountsServed
<1>3. \A rt \in Routes, c \in SentCounters : AddsUpAt(rt, c) => AddsUpAt(rt, c)'
    BY <1>1 DEF AddsUpAt
<1> QED BY <1>2, <1>3, Moved

(***************************************************************************)
(* A request is recorded, then counted; a caller is refused.               *)
(***************************************************************************)
LEMMA RecordCounts ==
    ASSUME CountInv, next \in Nat, next' \in Nat, next # 0, RecordReport
    PROVE  CountInv'
<1>1. /\ next' = next + 1 /\ unobserved' = unobserved \cup {next}
      /\ phase' = phase /\ window' = window /\ batch' = batch
      /\ refused' = refused /\ counted' = counted /\ gone' = gone
    BY DEF RecordReport, Record
<1>2. 1 .. next' - 1 = (1 .. next - 1) \cup {next} /\ next \notin 1 .. next - 1
    BY <1>1
<1>3. next \notin unobserved /\ unobserved \subseteq 1 .. next - 1
    BY <1>2 DEF CountInv, WindowsInv
<1>4. unobserved' \subseteq 1 .. next' - 1 /\ 1 .. next' - 1 \subseteq Reports /\ next \in Reports
    <2>1. next \in Reports /\ 1 .. next - 1 \subseteq Reports
        BY DEF RecordReport, Record, CountInv, WindowsInv
    <2> QED BY <1>1, <1>2, <1>3, <2>1
<1>5. WindowsInv'
    BY <1>1, <1>4 DEF CountInv, WindowsInv, CountsServed
<1>6. IsFiniteSet(1 .. next - 1) /\ IsFiniteSet(unobserved)
    BY PointByPoint DEF CountInv
<1>7. ASSUME NEW rt \in Routes, NEW c \in SentCounters, AddsUpAt(rt, c)
      PROVE  AddsUpAt(rt, c)'
    <2>0. c \in Counters
        BY DEF SentCounters
    <2> DEFINE R == OfReports(1 .. next - 1)[rt][c]
               U == OfReports(unobserved)[rt][c]
               d == OfReport(next)[rt][c]
    <2>1. OfReports(1 .. next' - 1)[rt][c] = R + d
        <3> DEFINE S == 1 .. next - 1
        <3>1. IsFiniteSet(S) /\ next \notin S /\ S \in SUBSET Reports /\ next \in Reports
            BY <1>2, <1>4, <1>6
        <3>2. 1 .. next' - 1 = S \cup {next}
            BY <1>2
        <3> HIDE DEF S
        <3>3. OfReports(S \cup {next})[rt][c] = OfReports(S)[rt][c] + OfReport(next)[rt][c]
            BY <2>0, <3>1, ReportsAdd
        <3> QED BY <3>2, <3>3 DEF S
    <2>2. OfReports(unobserved')[rt][c] = U + d
        <3>1. unobserved \in SUBSET Reports /\ next \in Reports
            BY <1>3, <1>4 DEF CountInv, WindowsInv
        <3> QED BY <1>1, <1>3, <1>6, <2>0, <3>1, ReportsAdd
    <2>3. R \in Nat /\ U \in Nat
        <3>1. OfReports(1 .. next - 1) \in Grid /\ OfReports(unobserved) \in Grid
            BY PointByPoint DEF CountInv
        <3> QED BY <2>0, <3>1 DEF Grid
    <2>4. d \in Nat
        BY <1>4, <2>0, ReportIs DEF Grid
    <2>5. /\ refused[rt][c] \in Nat /\ counted[rt][c] \in Nat /\ gone[rt][c] \in Nat
          /\ window[rt][c] \in Nat /\ batch[rt][c] \in Nat
        BY <2>0 DEF CountInv, WindowsInv, Grid
    <2>6. refused[rt][c] + R = counted[rt][c] + gone[rt][c] + U + window[rt][c] + batch[rt][c]
        BY <1>7 DEF AddsUpAt
    <2> HIDE DEF R, U, d
    <2>7. refused[rt][c] + (R + d)
            = counted[rt][c] + gone[rt][c] + (U + d) + window[rt][c] + batch[rt][c]
        BY <2>3, <2>4, <2>5, <2>6
    <2>8. /\ refused'[rt][c] = refused[rt][c] /\ counted'[rt][c] = counted[rt][c]
          /\ gone'[rt][c] = gone[rt][c] /\ window'[rt][c] = window[rt][c]
          /\ batch'[rt][c] = batch[rt][c]
        BY <1>1
    <2> QED BY <2>1, <2>2, <2>7, <2>8, Zenon DEF AddsUpAt
<1> QED BY <1>5, <1>7, Moved

LEMMA ObserveCounts ==
    ASSUME CountInv, next \in Nat, next - 1 <= Cardinality(Reports), NEW r \in unobserved, Observe(r)
    PROVE  CountInv'
<1>1. /\ unobserved' = unobserved \ {r} /\ window' = Plus(window, OfReport(r))
      /\ next' = next /\ phase' = phase /\ batch' = batch
      /\ refused' = refused /\ counted' = counted /\ gone' = gone
    BY DEF Observe, vars, gateway
<1>2. r \in Reports /\ unobserved \subseteq 1 .. next - 1
    <2>1. unobserved \subseteq 1 .. next - 1
        BY DEF CountInv, WindowsInv
    <2>2. Reports = 1 .. Cardinality(Reports) /\ Cardinality(Reports) \in Nat
        BY ReportAssumptions, FS_CardinalityType DEF ReportAssumptions
    <2> QED BY <2>1, <2>2
<1>3. OfReport(r) \in Grid /\ CountsServed(OfReport(r))
    BY <1>2, ReportServes
<1>4. window \in Grid /\ CountsServed(window)
    BY DEF CountInv, WindowsInv
<1>5. window' \in Grid /\ CountsServed(window)'
    <2>1. Plus(window, OfReport(r)) \in Grid /\ CountsServed(Plus(window, OfReport(r)))
        BY <1>3, <1>4, PlusAdds, ServedAdds
    <2> QED BY <1>1, <2>1 DEF CountsServed
<1>6. WindowsInv'
    BY <1>1, <1>2, <1>5 DEF CountInv, WindowsInv, CountsServed
<1>7. IsFiniteSet(unobserved) /\ IsFiniteSet(unobserved') /\ IsFiniteSet(1 .. next - 1)
    <2>1. IsFiniteSet(unobserved) /\ IsFiniteSet(1 .. next - 1)
        BY PointByPoint DEF CountInv
    <2> QED BY <1>1, <2>1, FS_RemoveElement
<1>8. ASSUME NEW rt \in Routes, NEW c \in SentCounters, AddsUpAt(rt, c)
      PROVE  AddsUpAt(rt, c)'
    <2>0. c \in Counters
        BY DEF SentCounters
    <2> DEFINE R == OfReports(1 .. next - 1)[rt][c]
               U == OfReports(unobserved)[rt][c]
               U2 == OfReports(unobserved')[rt][c]
               d == OfReport(r)[rt][c]
    <2>1. unobserved = unobserved' \cup {r} /\ r \notin unobserved'
        BY <1>1
    <2>2. U = U2 + d
        <3>1. unobserved' \in SUBSET Reports /\ r \notin unobserved'
            BY <1>1, <1>2, <2>1 DEF CountInv, WindowsInv
        <3> DEFINE V == unobserved'
        <3>2. IsFiniteSet(V) /\ V \in SUBSET Reports /\ r \notin V
            BY <1>7, <3>1
        <3> HIDE DEF V
        <3>3. OfReports(V \cup {r})[rt][c] = OfReports(V)[rt][c] + OfReport(r)[rt][c]
            BY <1>2, <2>0, <3>2, ReportsAdd
        <3>4. V \cup {r} = unobserved
            BY <2>1 DEF V
        <3> QED BY <3>3, <3>4 DEF V
    <2>3. R \in Nat /\ U2 \in Nat /\ d \in Nat
        <3>1. OfReports(1 .. next - 1) \in Grid /\ OfReports(unobserved') \in Grid
            <4>1. 1 .. next - 1 \in SUBSET Reports /\ unobserved' \in SUBSET Reports
                BY <1>1 DEF CountInv, WindowsInv
            <4> QED BY <1>7, <4>1, ReportsAdd
        <3> QED BY <2>0, <1>3, <3>1 DEF Grid
    <2>4. window'[rt][c] = window[rt][c] + d
        BY <2>0, <1>1, <1>3, <1>4, PlusAdds
    <2>5. /\ refused[rt][c] \in Nat /\ counted[rt][c] \in Nat /\ gone[rt][c] \in Nat
          /\ window[rt][c] \in Nat /\ batch[rt][c] \in Nat
        BY <2>0 DEF CountInv, WindowsInv, Grid
    <2>6. refused[rt][c] + R = counted[rt][c] + gone[rt][c] + U + window[rt][c] + batch[rt][c]
        BY <1>8 DEF AddsUpAt
    <2>7. OfReports(1 .. next' - 1)[rt][c] = R
        BY <1>1
    <2> HIDE DEF R, U, U2, d
    <2>8. refused[rt][c] + R = counted[rt][c] + gone[rt][c] + U2 + (window[rt][c] + d) + batch[rt][c]
        BY <2>2, <2>3, <2>5, <2>6
    <2>9. /\ refused'[rt][c] = refused[rt][c] /\ counted'[rt][c] = counted[rt][c]
          /\ gone'[rt][c] = gone[rt][c] /\ batch'[rt][c] = batch[rt][c]
        BY <1>1
    <2> QED BY <2>4, <2>7, <2>8, <2>9, Zenon DEF AddsUpAt, U2
<1> QED BY <1>1, <1>6, <1>8, Moved

LEMMA RefusalCounts ==
    ASSUME CountInv, next \in Nat, NEW rt0 \in Routes, RefuseCaller(rt0)
    PROVE  CountInv'
<1> DEFINE D == OfRefusal(rt0)
<1>1. /\ window' = Plus(window, D) /\ refused' = Plus(refused, D)
      /\ next' = next /\ phase' = phase /\ batch' = batch /\ unobserved' = unobserved
      /\ counted' = counted /\ gone' = gone
    BY DEF RefuseCaller, vars, gateway
<1>2. D \in Grid /\ CountsServed(D)
    BY RefusalServes
<1> HIDE DEF D
<1>3. window \in Grid /\ refused \in Grid /\ CountsServed(window)
    BY DEF CountInv, WindowsInv
<1>4. window' \in Grid /\ refused' \in Grid /\ CountsServed(window)'
    <2>1. /\ Plus(window, D) \in Grid /\ Plus(refused, D) \in Grid
          /\ CountsServed(Plus(window, D))
        BY <1>2, <1>3, PlusAdds, ServedAdds
    <2> QED BY <1>1, <2>1 DEF CountsServed
<1>5. WindowsInv'
    BY <1>1, <1>4 DEF CountInv, WindowsInv, CountsServed
<1>6. ASSUME NEW rt \in Routes, NEW c \in SentCounters, AddsUpAt(rt, c)
      PROVE  AddsUpAt(rt, c)'
    <2>0. c \in Counters
        BY DEF SentCounters
    <2> DEFINE R == OfReports(1 .. next - 1)[rt][c]
               U == OfReports(unobserved)[rt][c]
               d == D[rt][c]
    <2>1. window'[rt][c] = window[rt][c] + d /\ refused'[rt][c] = refused[rt][c] + d
        BY <2>0, <1>1, <1>2, <1>3, PlusAdds
    <2>2. R \in Nat /\ U \in Nat /\ d \in Nat
        <3>1. OfReports(1 .. next - 1) \in Grid /\ OfReports(unobserved) \in Grid
            BY PointByPoint DEF CountInv
        <3> QED BY <2>0, <1>2, <3>1 DEF Grid
    <2>3. /\ refused[rt][c] \in Nat /\ counted[rt][c] \in Nat /\ gone[rt][c] \in Nat
          /\ window[rt][c] \in Nat /\ batch[rt][c] \in Nat
        BY <2>0 DEF CountInv, WindowsInv, Grid
    <2>4. refused[rt][c] + R = counted[rt][c] + gone[rt][c] + U + window[rt][c] + batch[rt][c]
        BY <1>6 DEF AddsUpAt
    <2>5. OfReports(1 .. next' - 1)[rt][c] = R /\ OfReports(unobserved')[rt][c] = U
        BY <1>1
    <2> HIDE DEF R, U, d
    <2>6. (refused[rt][c] + d) + R = counted[rt][c] + gone[rt][c] + U + (window[rt][c] + d) + batch[rt][c]
        BY <2>2, <2>3, <2>4
    <2>7. counted'[rt][c] = counted[rt][c] /\ gone'[rt][c] = gone[rt][c] /\ batch'[rt][c] = batch[rt][c]
        BY <1>1
    <2> QED BY <2>1, <2>5, <2>6, <2>7, Zenon DEF AddsUpAt
<1> QED BY <1>1, <1>5, <1>6, Moved

(***************************************************************************)
(* The windows are drained into a batch; it is taken, or gone; a crash     *)
(* takes all that the gateway has.                                         *)
(***************************************************************************)
LEMMA TickCounts ==
    ASSUME CountInv, next \in Nat, Tick
    PROVE  CountInv'
<1>1. /\ batch' = window /\ window' = Zero /\ phase = "idle" /\ phase' = "posting"
      /\ next' = next /\ unobserved' = unobserved
      /\ refused' = refused /\ counted' = counted /\ gone' = gone
    BY DEF Tick, Drained, vars, gateway
<1>2. batch = Zero
    BY <1>1 DEF CountInv, WindowsInv
<1>3. WindowsInv'
    BY <1>1, ZeroIs DEF CountInv, WindowsInv, CountsServed
<1>4. ASSUME NEW rt \in Routes, NEW c \in SentCounters, AddsUpAt(rt, c)
      PROVE  AddsUpAt(rt, c)'
    <2>0. c \in Counters
        BY DEF SentCounters
    <2> DEFINE R == OfReports(1 .. next - 1)[rt][c]
               U == OfReports(unobserved)[rt][c]
    <2>1. R \in Nat /\ U \in Nat
        <3>1. OfReports(1 .. next - 1) \in Grid /\ OfReports(unobserved) \in Grid
            BY PointByPoint DEF CountInv
        <3> QED BY <2>0, <3>1 DEF Grid
    <2>2. /\ refused[rt][c] \in Nat /\ counted[rt][c] \in Nat /\ gone[rt][c] \in Nat
          /\ window[rt][c] \in Nat
        BY <2>0 DEF CountInv, WindowsInv, Grid
    <2>3. refused[rt][c] + R = counted[rt][c] + gone[rt][c] + U + window[rt][c] + batch[rt][c]
        BY <1>4 DEF AddsUpAt
    <2>4. batch[rt][c] = 0 /\ window'[rt][c] = 0 /\ batch'[rt][c] = window[rt][c]
        BY <2>0, <1>1, <1>2, ZeroIs
    <2>5. OfReports(1 .. next' - 1)[rt][c] = R /\ OfReports(unobserved')[rt][c] = U
        BY <1>1
    <2> HIDE DEF R, U
    <2>6. refused[rt][c] + R = counted[rt][c] + gone[rt][c] + U + window'[rt][c] + batch'[rt][c]
        BY <2>1, <2>2, <2>3, <2>4
    <2>7. refused'[rt][c] = refused[rt][c] /\ counted'[rt][c] = counted[rt][c] /\ gone'[rt][c] = gone[rt][c]
        BY <1>1
    <2> QED BY <2>5, <2>6, <2>7, Zenon DEF AddsUpAt
<1> QED BY <1>1, <1>3, <1>4, Moved

LEMMA BatchCounts ==
    ASSUME CountInv, next \in Nat, BatchTaken \/ BatchFails
    PROVE  CountInv'
<1>1. /\ batch' = Zero /\ next' = next /\ unobserved' = unobserved /\ window' = window
      /\ refused' = refused
      /\ \/ counted' = Plus(counted, Sent(batch)) /\ gone' = gone
         \/ gone' = Plus(gone, batch) /\ counted' = counted
    BY DEF BatchTaken, BatchFails, PushReports, Drain, vars, gateway
<1>2. /\ batch \in Grid /\ counted \in Grid /\ gone \in Grid /\ CountsServed(batch)
    BY DEF CountInv, WindowsInv
<1>3. /\ Sent(batch) \in Grid
      /\ \A rt \in Routes, c \in SentCounters : Sent(batch)[rt][c] = batch[rt][c]
    BY <1>2, NothingIsLeftOut
<1>4. counted' \in Grid /\ gone' \in Grid
    BY <1>1, <1>2, <1>3, PlusAdds
<1>5. WindowsInv'
    BY <1>1, <1>4, ZeroIs DEF CountInv, WindowsInv, CountsServed
<1>6. ASSUME NEW rt \in Routes, NEW c \in SentCounters, AddsUpAt(rt, c)
      PROVE  AddsUpAt(rt, c)'
    <2>0. c \in Counters
        BY DEF SentCounters
    <2> DEFINE R == OfReports(1 .. next - 1)[rt][c]
               U == OfReports(unobserved)[rt][c]
    <2>1. R \in Nat /\ U \in Nat
        <3>1. OfReports(1 .. next - 1) \in Grid /\ OfReports(unobserved) \in Grid
            BY PointByPoint DEF CountInv
        <3> QED BY <2>0, <3>1 DEF Grid
    <2>2. /\ refused[rt][c] \in Nat /\ counted[rt][c] \in Nat /\ gone[rt][c] \in Nat
          /\ window[rt][c] \in Nat /\ batch[rt][c] \in Nat
        BY <2>0 DEF CountInv, WindowsInv, Grid
    <2>3. refused[rt][c] + R = counted[rt][c] + gone[rt][c] + U + window[rt][c] + batch[rt][c]
        BY <1>6 DEF AddsUpAt
    <2>4. batch'[rt][c] = 0
        BY <2>0, <1>1, ZeroIs
    <2>5. \/ counted'[rt][c] = counted[rt][c] + batch[rt][c] /\ gone'[rt][c] = gone[rt][c]
          \/ gone'[rt][c] = gone[rt][c] + batch[rt][c] /\ counted'[rt][c] = counted[rt][c]
        BY <2>0, <1>1, <1>2, <1>3, PlusAdds
    <2>6. OfReports(1 .. next' - 1)[rt][c] = R /\ OfReports(unobserved')[rt][c] = U
        BY <1>1
    <2> HIDE DEF R, U
    <2>7. refused[rt][c] + R = counted'[rt][c] + gone'[rt][c] + U + window[rt][c] + batch'[rt][c]
        BY <2>1, <2>2, <2>3, <2>4, <2>5
    <2>8. refused'[rt][c] = refused[rt][c] /\ window'[rt][c] = window[rt][c]
        BY <1>1
    <2> QED BY <2>6, <2>7, <2>8, Zenon DEF AddsUpAt
<1> QED BY <1>1, <1>5, <1>6, Moved

LEMMA CrashCounts ==
    ASSUME CountInv, next \in Nat, GatewayCrashes
    PROVE  CountInv'
<1> DEFINE O == OfReports(unobserved)
           W == Plus(window, batch)
           A == Plus(O, W)
<1>1. /\ gone' = Plus(gone, A) /\ phase' = "idle" /\ unobserved' = {}
      /\ window' = Zero /\ batch' = Zero /\ next' = next
      /\ refused' = refused /\ counted' = counted
    BY DEF GatewayCrashes, CrashGateway
<1>2. /\ window \in Grid /\ batch \in Grid /\ gone \in Grid
    BY DEF CountInv, WindowsInv
<1>3. O \in Grid
    BY PointByPoint DEF CountInv
<1> HIDE DEF O
<1>4. W \in Grid /\ \A rt \in Routes, c \in Counters : W[rt][c] = window[rt][c] + batch[rt][c]
    BY <1>2, PlusAdds
<1> HIDE DEF W
<1>5. A \in Grid /\ \A rt \in Routes, c \in Counters : A[rt][c] = O[rt][c] + W[rt][c]
    BY <1>3, <1>4, PlusAdds
<1> HIDE DEF A
<1>6. gone' \in Grid /\ \A rt \in Routes, c \in Counters : gone'[rt][c] = gone[rt][c] + A[rt][c]
    BY <1>1, <1>2, <1>5, PlusAdds
<1>7. WindowsInv'
    BY <1>1, <1>6, ZeroIs DEF CountInv, WindowsInv, CountsServed
<1>8. ASSUME NEW rt \in Routes, NEW c \in SentCounters, AddsUpAt(rt, c)
      PROVE  AddsUpAt(rt, c)'
    <2>0. c \in Counters
        BY DEF SentCounters
    <2> DEFINE R == OfReports(1 .. next - 1)[rt][c]
    <2>1. R \in Nat /\ O[rt][c] \in Nat
        <3>1. OfReports(1 .. next - 1) \in Grid
            BY PointByPoint DEF CountInv
        <3> QED BY <2>0, <1>3, <3>1 DEF Grid
    <2>2. /\ refused[rt][c] \in Nat /\ counted[rt][c] \in Nat /\ gone[rt][c] \in Nat
          /\ window[rt][c] \in Nat /\ batch[rt][c] \in Nat
        BY <2>0 DEF CountInv, WindowsInv, Grid
    <2>3. refused[rt][c] + R
            = counted[rt][c] + gone[rt][c] + O[rt][c] + window[rt][c] + batch[rt][c]
        BY <1>8 DEF AddsUpAt, O
    <2>4. OfReports(unobserved')[rt][c] = 0 /\ window'[rt][c] = 0 /\ batch'[rt][c] = 0
        BY <2>0, <1>1, ZeroIs, NoReportsAdd
    <2>5. gone'[rt][c] = gone[rt][c] + (O[rt][c] + (window[rt][c] + batch[rt][c]))
        <3>1. gone'[rt][c] = gone[rt][c] + A[rt][c] /\ A[rt][c] = O[rt][c] + W[rt][c]
              /\ W[rt][c] = window[rt][c] + batch[rt][c]
            BY <2>0, <1>4, <1>5, <1>6
        <3> QED BY <3>1, Zenon
    <2>6. OfReports(1 .. next' - 1)[rt][c] = R
        BY <1>1
    <2> HIDE DEF R
    <2>7. refused[rt][c] + R = counted[rt][c] + gone'[rt][c] + 0 + 0 + 0
        BY <2>1, <2>2, <2>3, <2>5
    <2>8. refused'[rt][c] = refused[rt][c] /\ counted'[rt][c] = counted[rt][c]
        BY <1>1
    <2> QED BY <2>4, <2>6, <2>7, <2>8, Zenon DEF AddsUpAt
<1> QED BY <1>1, <1>7, <1>8, Moved

(***************************************************************************)
(* Every step of the pusher keeps the sums.                                *)
(***************************************************************************)
LEMMA StepCounts ==
    ASSUME CountInv, PhaseInv, TypeOK, TypeOK', [EmitNext]_allVars
    PROVE  CountInv' /\ PhaseInv'
<1>1. /\ next \in Nat /\ next' \in Nat /\ next # 0 /\ next - 1 <= Cardinality(Reports)
    <2>1. Cardinality(Reports) \in Nat
        BY ReportAssumptions, FS_CardinalityType DEF ReportAssumptions
    <2> QED BY <2>1 DEF TypeOK
<1>2. CASE RecordReport
    <2>1. CountInv'
        BY <1>1, <1>2, RecordCounts
    <2> QED BY <1>2, <2>1 DEF RecordReport, Record, PhaseInv
<1>3. CASE \E r \in unobserved : Observe(r)
    <2>1. CountInv'
        BY <1>1, <1>3, ObserveCounts
    <2> QED BY <1>3, <2>1 DEF Observe, PhaseInv, vars, gateway
<1>4. CASE \E rt \in Routes : RefuseCaller(rt)
    <2>1. CountInv'
        BY <1>1, <1>4, RefusalCounts
    <2> QED BY <1>4, <2>1 DEF RefuseCaller, PhaseInv, vars, gateway
<1>5. CASE Tick
    <2>1. CountInv'
        BY <1>1, <1>5, TickCounts
    <2>2. pushing = <<>> /\ pushing' = pushing
        BY <1>5 DEF Tick, PhaseInv, vars, gateway
    <2> QED BY <2>1, <2>2 DEF PhaseInv
<1>6. CASE BatchTaken \/ BatchFails
    <2>1. CountInv'
        BY <1>1, <1>6, BatchCounts
    <2>2. pushing = <<>>
        BY <1>6 DEF BatchTaken, BatchFails, PhaseInv
    <2>3. PhaseInv'
        BY <1>6, <2>2 DEF BatchTaken, BatchFails, PushReports, PhaseInv, vars, gateway
    <2> QED BY <2>1, <2>3
<1>7. CASE GatewayCrashes
    <2>1. CountInv'
        BY <1>1, <1>7, CrashCounts
    <2> QED BY <1>7, <2>1 DEF GatewayCrashes, CrashGateway, PhaseInv
<1>8. phase # "posting" => batch = Zero
    BY DEF CountInv, WindowsInv
<1>9. CASE TickOfReports
    <2>1. EmitRest /\ phase = "idle"
        BY <1>9 DEF TickOfReports
    <2>2. next' = next
        BY <1>9 DEF TickOfReports, PushReports, Drain, vars, gateway
    <2>3. batch' = Zero
        BY <1>8, <2>1 DEF EmitRest
    <2>4. CountInv'
        BY <1>1, <2>1, <2>2, <2>3, ReportsMoveNoCounts
    <2>5. PhaseInv'
        BY <1>9, <2>1 DEF TickOfReports, PushReports, PhaseInv, vars, gateway
    <2> QED BY <2>4, <2>5
<1>10. CASE TakeChunk \/ RejectChunk \/ ChunkFails \/ GiveUpOnChunk
    <2>1. EmitRest
        BY <1>10 DEF TakeChunk, RejectChunk, ChunkFails, GiveUpOnChunk
    <2>2. next' = next
        BY <1>10 DEF TakeChunk, RejectChunk, ChunkFails, GiveUpOnChunk, Take, Reject, PostFails, GiveUp
    <2>3. phase' = phase \/ phase' = "idle"
        BY <1>10 DEF TakeChunk, RejectChunk, ChunkFails, GiveUpOnChunk, PushEnds
    <2>4. pushing # <<>>
        BY <1>10 DEF TakeChunk, RejectChunk, ChunkFails, GiveUpOnChunk, Take, Reject, PostFails, GiveUp
    <2>5. phase = "pushing"
        BY <2>4 DEF PhaseInv
    <2>6. batch' = Zero
        BY <1>8, <2>1, <2>5 DEF EmitRest
    <2>7. CountInv'
        BY <1>1, <2>1, <2>2, <2>6, ReportsMoveNoCounts
    <2>8. PhaseInv'
        BY <1>10, <2>5 DEF TakeChunk, RejectChunk, ChunkFails, GiveUpOnChunk, PushEnds, PhaseInv
    <2> QED BY <2>7, <2>8
<1>11. CASE LateChunkTaken \/ ControlPlaneRestarts \/ UNCHANGED allVars
    <2>1. EmitRest /\ phase' = phase /\ next' = next
        BY <1>11 DEF LateChunkTaken, ControlPlaneRestarts, TakeLate, RestartControlPlane,
                     allVars, emit, vars, gateway, EmitRest
    <2>2. pushing' = pushing
        BY <1>11 DEF LateChunkTaken, ControlPlaneRestarts, TakeLate, RestartControlPlane,
                     allVars, emit, vars, gateway
    <2>3. batch' = batch
        BY <2>1 DEF EmitRest
    <2>4. CountInv'
        BY <1>1, <1>8, <2>1, <2>3, ReportsMoveNoCounts
    <2>5. PhaseInv'
        BY <2>1, <2>2 DEF PhaseInv
    <2> QED BY <2>4, <2>5
<1> QED BY <1>2, <1>3, <1>4, <1>5, <1>6, <1>7, <1>9, <1>10, <1>11 DEF EmitNext

(***************************************************************************)
(* The counters that are sent add up on every route: what a request or a   *)
(* refused caller adds is in a window, in a batch, with the control plane, *)
(* or gone with a failed post or a crash, once, for any routes, redaction  *)
(* types and order of the posts. Of "detectOnly", which no batch carries,  *)
(* it says nothing.                                                        *)
(***************************************************************************)
THEOREM NothingIsCountedTwice == EmitSpec => []CountsAddUp
<1> DEFINE EInv == CountInv /\ PhaseInv
<1>1. EmitInit => EInv
    <2>1. EmitInit => PhaseInv
        BY DEF EmitInit, Init, PhaseInv
    <2> QED BY <2>1, CountsStart
<1>2. IInv => TypeOK
    BY DEF IInv
<1>3. TypeOK /\ TypeOK' /\ EInv /\ [EmitNext]_allVars => EInv'
    BY StepCounts
<1>4. EInv => CountsAddUp
    BY DEF CountInv
<1>5. EmitSpec => []TypeOK
    BY <1>2, EmitImplementsDelivery, InitIInv, NextKeepsIInv, PTL DEF Spec
<1> HIDE DEF EInv
<1> QED BY <1>1, <1>3, <1>4, <1>5, PTL DEF EmitSpec
=============================================================================
