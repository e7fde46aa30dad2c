------------------------- MODULE EnforcementProofs --------------------------
(***************************************************************************)
(* Proofs about Enforcement, for every number of gateways, ids, policy     *)
(* applies and ticks: the map of heartbeats is bounded, and what it claims *)
(* is no older than it may be. A claim ages in step with what it is about, *)
(* first on its way and then in the map; ClaimInv says by how much it may  *)
(* lag in either place.                                                    *)
(***************************************************************************)
EXTENDS EnforcementClaims, FiniteSetTheorems, TLAPS

TypeInv == TypeOK /\ IsFiniteSet(Known)

\* A refresh that has computed its records has some, or none.
ComputedInv ==
    \A r \in Refreshers : refresh[r].phase = "computed" => refresh[r].view \in Drifts

IInv == TypeInv /\ ComputedInv

HistoryOK ==
    /\ gated \in [Gateways -> SUBSET Halves]
    /\ since \in [Gateways -> 0 .. Horizon]

\* What gates now or was read for a heartbeat has gated in this tick.
HistoryInv ==
    \A g \in Gateways :
        /\ Gating(g) \subseteq gated[g]
        /\ gated[g] = Halves => since[g] = 0
        /\ beat[g] # NoBeat /\ beat[g].gates => "default" \in gated[g]

\* A claim cannot be newer than the gating it tells of.
ClaimInv ==
    /\ \A m \in flight : m.claims => since[m.from] <= m.age
    /\ \A i \in Claiming : gwEnforce[i].age < Stale =>
            since[gwEnforce[i].from] <= PostLimit + gwEnforce[i].age

CInv == IInv /\ HistoryOK /\ HistoryInv /\ ClaimInv
-----------------------------------------------------------------------------
Entries == [from : Gateways, claims : BOOLEAN, age : 0 .. Stale]
Beats == [from : Gateways, id : Ids, claims : BOOLEAN, age : 0 .. PostLimit]

\* The bounds on ages are numbers.
LEMMA Times ==
  /\ Stale \in Nat /\ Stale > 0 /\ PostLimit \in Nat
  /\ Horizon \in Nat /\ Horizon = Stale + PostLimit
BY EnforcementAssumptions DEF Horizon

(***************************************************************************)
(* Initially nothing was heard.                                            *)
(***************************************************************************)
LEMMA InitIInv == Init => IInv
<1> SUFFICES ASSUME Init PROVE IInv
  OBVIOUS
<1>1. Known = {}
  BY DEF Init, Known
<1>2. IsFiniteSet(Known) /\ Cardinality(Known) <= MaxEnforce
  BY <1>1, FS_EmptySet, EnforcementAssumptions
<1>3. NoRead \in [phase : {"idle", "applied", "policy", "computed"},
                  expected : BOOLEAN, view : Drifts \cup {NoView}]
  BY DEF NoRead
<1>4. TypeOK
  BY <1>2, <1>3 DEF Init, TypeOK, Drifts
<1> QED
  BY <1>2, <1>4 DEF Init, IInv, TypeInv, ComputedInv, NoRead

(***************************************************************************)
(* SetGatewayEnforcement keeps to maxGatewayEnforce: a new id takes a free *)
(* slot, or one that is emptied for it.                                    *)
(***************************************************************************)
LEMMA TakenKeepsBound ==
  ASSUME TypeOK, IsFiniteSet(Known), NEW m \in flight, BeatTaken(m)
  PROVE  IsFiniteSet(Known') /\ Cardinality(Known') <= MaxEnforce
<1>1. PICK old \in Evicted(m) :
          gwEnforce' = [i \in Ids |-> IF i = m.id THEN Entry(m)
                                     ELSE IF i = old THEN NoEntry ELSE gwEnforce[i]]
  BY DEF BeatTaken
<1>2. Known' \subseteq (Known \ {old}) \cup {m.id}
  BY <1>1 DEF Known
<1>3. Cardinality(Known) \in Nat
  BY FS_CardinalityType
<1>4. ASSUME NEW S, IsFiniteSet(S), Cardinality(S) <= MaxEnforce, Known' \subseteq S
      PROVE  IsFiniteSet(Known') /\ Cardinality(Known') <= MaxEnforce
  BY <1>4, FS_Subset, FS_CardinalityType, EnforcementAssumptions
<1>5. CASE m.id \in Known
  BY <1>2, <1>4, <1>5 DEF TypeOK
<1>6. CASE m.id \notin Known /\ Cardinality(Known) < MaxEnforce
  <2>1. IsFiniteSet(Known \cup {m.id}) /\ Cardinality(Known \cup {m.id}) = Cardinality(Known) + 1
    BY <1>6, FS_AddElement
  <2> QED
    BY <1>2, <1>3, <1>4, <1>6, <2>1, EnforcementAssumptions
<1>7. CASE m.id \notin Known /\ ~(Cardinality(Known) < MaxEnforce)
  <2>1. old \in Known
    <3>1. gwEnforce[m.id] = NoEntry
      BY <1>7 DEF Known, TypeOK
    <3> QED
      BY <1>3, <1>7, <3>1, EnforcementAssumptions DEF Evicted, Oldest
  <2>2. /\ IsFiniteSet(Known \ {old})
        /\ Cardinality(Known \ {old}) = Cardinality(Known) - 1
    BY <2>1, FS_RemoveElement
  <2>3. /\ IsFiniteSet((Known \ {old}) \cup {m.id})
        /\ Cardinality((Known \ {old}) \cup {m.id}) = Cardinality(Known)
    BY <1>3, <1>7, <2>2, FS_AddElement
  <2> QED
    BY <1>2, <1>4, <2>3 DEF TypeOK
<1> QED
  BY <1>3, <1>5, <1>6, <1>7, EnforcementAssumptions

(***************************************************************************)
(* An arriving heartbeat is stamped afresh.                                *)
(***************************************************************************)
LEMMA TakenKeepsTypeInv ==
  ASSUME TypeInv, NEW m \in flight, BeatTaken(m)
  PROVE  TypeInv'
<1>1. PICK old \in Evicted(m) :
          gwEnforce' = [i \in Ids |-> IF i = m.id THEN Entry(m)
                                     ELSE IF i = old THEN NoEntry ELSE gwEnforce[i]]
  BY DEF BeatTaken
<1>2. m \in Beats
  BY DEF TypeInv, TypeOK, Beats
<1>3. Entry(m) \in Entries
  BY <1>2, Times DEF Entry, Entries, Beats
<1>4. gwEnforce' \in [Ids -> Entries \cup {NoEntry}]
  BY <1>1, <1>3 DEF TypeInv, TypeOK, Entries
<1> QED
  BY <1>4, TakenKeepsBound DEF BeatTaken, TypeInv, TypeOK, Entries, posture

(***************************************************************************)
(* A tick ages the entries; an age stops counting at Stale, where the      *)
(* claim does not count any more.                                          *)
(***************************************************************************)
LEMMA TickAgesEntries ==
  ASSUME TypeInv, Tick, NEW i \in Ids
  PROVE  /\ gwEnforce'[i] \in Entries \cup {NoEntry}
         /\ i \in Known' => i \in Known
         /\ i \in Claiming' => i \in Claiming /\ gwEnforce'[i].from = gwEnforce[i].from
         /\ i \in Claiming' /\ gwEnforce'[i].age < Stale
            => /\ gwEnforce[i].age < Stale
               /\ gwEnforce'[i].age = gwEnforce[i].age + 1
<1>1. CASE gwEnforce[i] = NoEntry
  BY <1>1 DEF Tick, Aged, Known, Claiming
<1>2. CASE gwEnforce[i] # NoEntry
  <2>1. gwEnforce[i] \in Entries
    BY <1>2 DEF TypeInv, TypeOK, Entries
  <2>2. CASE gwEnforce[i].age = Stale
    BY <1>2, <2>1, <2>2, Times DEF Tick, Aged, Known, Claiming, Entries
  <2>3. CASE gwEnforce[i].age # Stale
    <3>1. gwEnforce'[i] = [gwEnforce[i] EXCEPT !.age = @ + 1]
      BY <1>2, <2>3 DEF Tick, Aged
    <3> QED
      BY <1>2, <2>1, <2>3, <3>1, Times DEF Known, Claiming, Entries
  <2> QED
    BY <2>2, <2>3
<1> QED
  BY <1>1, <1>2

LEMMA TickKeepsTypeInv ==
  ASSUME TypeInv, Tick
  PROVE  TypeInv'
<1>1. flight' \subseteq Beats
  <2> SUFFICES ASSUME NEW m \in flight PROVE [m EXCEPT !.age = @ + 1] \in Beats
    BY DEF Tick
  <2>1. m \in Beats /\ m.age < PostLimit
    BY DEF TypeInv, TypeOK, Beats, Tick
  <2> QED
    BY <2>1, Times DEF Beats
<1>2. gwEnforce' \in [Ids -> Entries \cup {NoEntry}]
  BY TickAgesEntries DEF Tick
<1>3. IsFiniteSet(Known') /\ Cardinality(Known') <= MaxEnforce
  <2>1. Known' \subseteq Known
    BY TickAgesEntries DEF Known
  <2> QED
    BY <2>1, FS_Subset, FS_CardinalityType, EnforcementAssumptions DEF TypeInv, TypeOK
<1>4. /\ id' \in [Gateways -> Ids] /\ default' \in [Gateways -> BOOLEAN]
      /\ apps' \in [Gateways -> BOOLEAN] /\ beat' \in [Gateways -> [gates : BOOLEAN] \cup {NoBeat}]
      /\ expects' \in BOOLEAN /\ drift' \in Drifts /\ refresh' = refresh
  BY DEF Tick, TypeInv, TypeOK, posture
<1> QED
  BY <1>1, <1>2, <1>3, <1>4 DEF TypeInv, TypeOK, Beats, Entries

(***************************************************************************)
(* Every step keeps the types and the bound.                               *)
(***************************************************************************)
LEMMA NextKeepsTypeInv == TypeInv /\ ComputedInv /\ [Next]_vars => TypeInv'
<1> SUFFICES ASSUME TypeInv, ComputedInv, [Next]_vars PROVE TypeInv'
  OBVIOUS
<1> USE DEF TypeInv
<1>1. ASSUME UNCHANGED gwEnforce PROVE Known' = Known
  BY <1>1 DEF Known
<1>2. CASE UNCHANGED vars
  BY <1>1, <1>2 DEF vars, posture, TypeOK
<1>3. ASSUME NEW g \in Gateways, DefaultChanges(g) PROVE TypeInv'
  BY <1>1, <1>3 DEF DefaultChanges, TypeOK
<1>4. ASSUME NEW g \in Gateways, AppsChange(g) PROVE TypeInv'
  BY <1>1, <1>4 DEF AppsChange, TypeOK
<1>5. ASSUME NEW g \in Gateways, BeatReads(g) PROVE TypeInv'
  BY <1>1, <1>5 DEF BeatReads, TypeOK, posture
<1>6. ASSUME NEW g \in Gateways, BeatPosts(g) PROVE TypeInv'
  <2>1. [from |-> g, id |-> id[g], claims |-> Claim(g), age |-> 0] \in Beats
    BY <1>6, Times DEF BeatPosts, Claim, TypeOK, Beats
  <2> QED
    BY <1>1, <1>6, <2>1 DEF BeatPosts, TypeOK, Beats, posture
<1>7. ASSUME NEW g \in Gateways, RestartGateway(g) PROVE TypeInv'
  BY <1>1, <1>7 DEF RestartGateway, TypeOK
<1>8. ASSUME NEW m \in flight, BeatLost(m) PROVE TypeInv'
  BY <1>1, <1>8 DEF BeatLost, TypeOK, posture
<1>9. CASE RestartControlPlane
  <2>1. Known' = {}
    BY <1>9 DEF RestartControlPlane, Known
  <2> QED
    BY <1>9, <2>1, FS_EmptySet, EnforcementAssumptions
    DEF RestartControlPlane, TypeOK, NoRead, Drifts, posture
<1>10. ASSUME NEW r \in Refreshers, RefreshReadsPolicy(r) PROVE TypeInv'
  BY <1>1, <1>10 DEF RefreshReadsPolicy, TypeOK, posture
<1>11. ASSUME NEW r \in Refreshers, RefreshReadsBeats(r) PROVE TypeInv'
  <2>1. View(refresh[r].expected) \in Drifts
    BY DEF View, Drifts
  <2> QED
    BY <1>1, <1>11, <2>1 DEF RefreshReadsBeats, TypeOK, posture
<1>12. ASSUME NEW r \in Refreshers, ReplaceDrift(r) PROVE TypeInv'
  <2>1. refresh[r].view \in Drifts
    BY <1>12 DEF ComputedInv, ReplaceDrift
  <2> QED
    BY <1>1, <1>12, <2>1 DEF ReplaceDrift, Replacement, NoRead, TypeOK, posture
<1>13. ASSUME NEW r \in Puts, ApplyPolicy(r) PROVE TypeInv'
  BY <1>1, <1>13 DEF ApplyPolicy, TypeOK, Refreshers, posture
<1> QED
  BY <1>2, <1>3, <1>4, <1>5, <1>6, <1>7, <1>8, <1>9, <1>10, <1>11, <1>12, <1>13,
     TakenKeepsTypeInv, TickKeepsTypeInv DEF Next

(***************************************************************************)
(* RefreshDrift replaces the drift set only after it has computed one.     *)
(***************************************************************************)
LEMMA NextKeepsComputedInv == TypeOK /\ ComputedInv /\ [Next]_vars => ComputedInv'
<1> SUFFICES ASSUME TypeOK, ComputedInv, [Next]_vars PROVE ComputedInv'
  OBVIOUS
<1> USE DEF TypeOK, ComputedInv
<1>1. CASE UNCHANGED refresh
  BY <1>1
<1>2. CASE RestartControlPlane
  BY <1>2 DEF RestartControlPlane, NoRead
<1>3. ASSUME NEW r \in Refreshers, RefreshReadsPolicy(r) PROVE ComputedInv'
  BY <1>3 DEF RefreshReadsPolicy
<1>4. ASSUME NEW r \in Refreshers, RefreshReadsBeats(r) PROVE ComputedInv'
  <2>1. View(refresh[r].expected) \in Drifts
    BY DEF View, Drifts
  <2> QED
    BY <1>4, <2>1 DEF RefreshReadsBeats
<1>5. ASSUME NEW r \in Refreshers, ReplaceDrift(r) PROVE ComputedInv'
  BY <1>5 DEF ReplaceDrift, NoRead
<1>6. ASSUME NEW r \in Puts, ApplyPolicy(r) PROVE ComputedInv'
  BY <1>6 DEF ApplyPolicy, Refreshers
<1> QED
  BY <1>1, <1>2, <1>3, <1>4, <1>5, <1>6
  DEF Next, vars, DefaultChanges, AppsChange, BeatReads, BeatPosts, RestartGateway,
      BeatLost, BeatTaken, Tick

LEMMA NextKeepsIInv == IInv /\ [Next]_vars => IInv'
BY NextKeepsTypeInv, NextKeepsComputedInv DEF IInv, TypeInv

(***************************************************************************)
(* The variables keep their types, and the store never remembers more      *)
(* gateways than maxGatewayEnforce, under however many ids they announce   *)
(* themselves.                                                             *)
(***************************************************************************)
THEOREM TypeCorrect == Spec => []TypeOK
<1>1. IInv => TypeOK
  BY DEF IInv, TypeInv
<1> QED
  BY <1>1, InitIInv, NextKeepsIInv, PTL DEF Spec
-----------------------------------------------------------------------------
(***************************************************************************)
(* The histories start from the posture.                                   *)
(***************************************************************************)
LEMMA InitCInv == InitClaims => CInv
<1> SUFFICES ASSUME InitClaims PROVE CInv
  OBVIOUS
<1>1. \A g \in Gateways : Gating(g) \subseteq Halves /\ Elapsed(Gating(g), Horizon) \in 0 .. Horizon
  BY Times DEF Gating, Elapsed
<1>2. HistoryOK
  BY <1>1 DEF InitClaims, HistoryOK
<1>3. HistoryInv
  BY DEF InitClaims, Init, HistoryInv, Elapsed
<1>4. ClaimInv
  BY DEF InitClaims, Init, ClaimInv, Claiming
<1> QED
  BY <1>2, <1>3, <1>4, InitIInv DEF InitClaims, CInv

(***************************************************************************)
(* Within a tick the histories only learn of what gates.                   *)
(***************************************************************************)
LEMMA WatchKeepsHistory ==
  ASSUME HistoryOK, HistoryInv, Watch
  PROVE  /\ HistoryOK'
         /\ \A g \in Gateways :
                /\ Gating(g)' \subseteq gated'[g] /\ gated[g] \subseteq gated'[g]
                /\ gated'[g] = Halves => since'[g] = 0
                /\ since'[g] <= since[g]
<1>1. ASSUME NEW g \in Gateways
      PROVE  /\ gated'[g] = gated[g] \cup Gating(g)'
             /\ gated'[g] \subseteq Halves
  BY DEF Watch, HistoryOK, Gating
<1>2. ASSUME NEW g \in Gateways
      PROVE  /\ since'[g] \in 0 .. Horizon /\ since'[g] <= since[g]
             /\ gated'[g] = Halves => since'[g] = 0
  BY Times DEF Watch, HistoryOK, Elapsed
<1>3. HistoryOK'
  BY <1>1, <1>2 DEF Watch, HistoryOK
<1> QED
  BY <1>1, <1>2, <1>3

(***************************************************************************)
(* Between ticks: a heartbeat claims only what was read in this tick, and  *)
(* what arrives was claimed at most PostLimit ticks ago.                   *)
(***************************************************************************)
LEMMA WatchKeepsClaimInv ==
  ASSUME CInv, Next, ~Tick, Watch, IInv'
  PROVE  CInv'
<1> USE DEF CInv, IInv, TypeInv
<1>1. HistoryInv'
  <2>1. ASSUME NEW g \in Gateways, beat'[g] # NoBeat, beat'[g].gates,
               beat[g] = NoBeat \/ beat'[g] # beat[g]
        PROVE  "default" \in gated'[g]
    <3>1. BeatReads(g)
      BY <2>1 DEF Next, DefaultChanges, AppsChange, BeatReads, BeatPosts, RestartGateway,
                  BeatLost, BeatTaken, RestartControlPlane, RefreshReadsPolicy,
                  RefreshReadsBeats, ReplaceDrift, ApplyPolicy, TypeOK
    <3>2. "default" \in Gating(g)
      BY <2>1, <3>1 DEF BeatReads, Gating, Halves, TypeOK
    <3> QED
      BY <3>2, WatchKeepsHistory DEF HistoryInv
  <2> QED
    BY <2>1, WatchKeepsHistory DEF HistoryInv
<1>2. ASSUME NEW g \in Gateways, NEW n \in Nat, since[g] <= n PROVE since'[g] <= n
  BY <1>2, WatchKeepsHistory, Times DEF HistoryOK
<1>3. \A m \in flight : m.from \in Gateways /\ m.age \in 0 .. PostLimit
  BY DEF TypeOK
<1>4. \A m \in flight : m.claims => since'[m.from] <= m.age
  BY <1>2, <1>3, Times DEF ClaimInv
<1>5. ASSUME NEW i \in Claiming, gwEnforce[i].age < Stale
      PROVE  since'[gwEnforce[i].from] <= PostLimit + gwEnforce[i].age
  <2>1. gwEnforce[i].from \in Gateways /\ gwEnforce[i].age \in Nat
    BY DEF TypeOK, Claiming
  <2> QED
    BY <1>2, <1>5, <2>1, Times DEF ClaimInv
<1>6. ASSUME UNCHANGED gwEnforce PROVE Claiming' = Claiming
  BY <1>6 DEF Claiming
<1>7. ASSUME flight' \subseteq flight, UNCHANGED gwEnforce PROVE ClaimInv'
  BY <1>4, <1>5, <1>6, <1>7 DEF ClaimInv
<1>8. ASSUME NEW g \in Gateways, BeatPosts(g) PROVE ClaimInv'
  <2> DEFINE m == [from |-> g, id |-> id[g], claims |-> Claim(g), age |-> 0]
  <2>1. Claim(g) => since'[g] = 0
    <3>1. SUFFICES ASSUME Claim(g) PROVE gated'[g] = Halves
      BY WatchKeepsHistory
    <3>2. "default" \in gated[g]
      BY <1>8, <3>1 DEF BeatPosts, Claim, HistoryInv
    <3>3. "apps" \in gated[g]
      BY <3>1 DEF Claim, HistoryInv, Gating, Halves
    <3> QED
      BY <3>2, <3>3, WatchKeepsHistory DEF HistoryOK, Halves
  <2>2. m.from = g /\ m.claims = Claim(g) /\ m.age = 0
    OBVIOUS
  <2>3. flight' = flight \cup {m} /\ UNCHANGED gwEnforce
    BY <1>8 DEF BeatPosts
  <2> HIDE DEF m
  <2>4. m.claims => since'[m.from] <= m.age
    BY <2>1, <2>2
  <2> QED
    BY <1>4, <1>5, <1>6, <2>3, <2>4 DEF ClaimInv
<1>9. ASSUME NEW m \in flight, BeatTaken(m) PROVE ClaimInv'
  <2>1. PICK old \in Evicted(m) :
            gwEnforce' = [i \in Ids |-> IF i = m.id THEN Entry(m)
                                       ELSE IF i = old THEN NoEntry ELSE gwEnforce[i]]
    BY <1>9 DEF BeatTaken
  <2>2. m.claims => since'[m.from] <= PostLimit + 0
    <3>1. m.from \in Gateways /\ m.age \in 0 .. PostLimit /\ (m.claims => since'[m.from] <= m.age)
      BY <1>3, <1>4
    <3>2. since'[m.from] \in Nat
      BY <3>1, WatchKeepsHistory, Times DEF HistoryOK
    <3> QED
      BY <3>1, <3>2, Times
  <2>3. ASSUME NEW i \in Claiming'
        PROVE  \/ i \in Claiming /\ gwEnforce'[i] = gwEnforce[i]
               \/ m.claims /\ gwEnforce'[i].from = m.from /\ gwEnforce'[i].age = 0
    BY <2>1 DEF Claiming, Entry
  <2>4. flight' \subseteq flight
    BY <1>9 DEF BeatTaken
  <2> QED
    BY <1>4, <1>5, <2>2, <2>3, <2>4 DEF ClaimInv
<1>10. ASSUME RestartControlPlane PROVE ClaimInv'
  <2>1. Claiming' = {}
    BY <1>10 DEF RestartControlPlane, Claiming
  <2> QED
    BY <1>4, <1>10, <2>1 DEF RestartControlPlane, ClaimInv
<1>11. ClaimInv'
  BY <1>7, <1>8, <1>9, <1>10
  DEF Next, DefaultChanges, AppsChange, BeatReads, RestartGateway, BeatLost,
      RefreshReadsPolicy, RefreshReadsBeats, ReplaceDrift, ApplyPolicy
<1> QED
  BY <1>1, <1>11, WatchKeepsHistory

(***************************************************************************)
(* A tick ages a claim and what it is about alike.                         *)
(***************************************************************************)
LEMMA TickKeepsClaimInv ==
  ASSUME CInv, Tick, Age, IInv'
  PROVE  CInv'
<1> USE DEF CInv, IInv, TypeInv
<1>1. ASSUME NEW g \in Gateways
      PROVE  /\ Gating(g)' = Gating(g) /\ Gating(g) \subseteq Halves /\ beat'[g] = NoBeat
             /\ gated'[g] = Gating(g)
             /\ since'[g] \in 0 .. Horizon /\ since'[g] <= since[g] + 1
             /\ gated'[g] = Halves => since'[g] = 0
  <2>1. Gating(g)' = Gating(g) /\ Gating(g) \subseteq Halves /\ beat'[g] = NoBeat
    BY DEF Tick, posture, Gating
  <2>2. gated'[g] = Gating(g)
    BY DEF Age
  <2>3. since'[g] = Elapsed(Gating(g), IF since[g] = Horizon THEN Horizon ELSE since[g] + 1)
    BY DEF Age
  <2> QED
    BY <2>1, <2>2, <2>3, Times DEF HistoryOK, Elapsed
<1>2. HistoryOK'
  BY <1>1 DEF Age, HistoryOK
<1>3. HistoryInv'
  BY <1>1 DEF HistoryInv
<1>4. ASSUME NEW m \in flight'
      PROVE  m.claims => since'[m.from] <= m.age
  <2>1. PICK n \in flight : m = [n EXCEPT !.age = @ + 1]
    BY DEF Tick
  <2>2. n \in Beats /\ (n.claims => since[n.from] <= n.age)
    BY DEF TypeOK, Beats, ClaimInv
  <2>3. m.claims = n.claims /\ m.from = n.from /\ m.age = n.age + 1 /\ n.from \in Gateways
    BY <2>1, <2>2 DEF Beats
  <2> QED
    BY <1>1, <2>2, <2>3, Times DEF Beats, HistoryOK
<1>5. ASSUME NEW i \in Claiming', gwEnforce'[i].age < Stale
      PROVE  since'[gwEnforce'[i].from] <= PostLimit + gwEnforce'[i].age
  <2>1. i \in Ids
    BY DEF Claiming
  <2>2. /\ i \in Claiming /\ gwEnforce[i].age < Stale
        /\ gwEnforce'[i].age = gwEnforce[i].age + 1 /\ gwEnforce'[i].from = gwEnforce[i].from
    BY <1>5, <2>1, TickAgesEntries
  <2>3. gwEnforce[i].from \in Gateways /\ gwEnforce[i].age \in Nat
    BY <2>2 DEF TypeOK, Claiming
  <2>4. since[gwEnforce[i].from] <= PostLimit + gwEnforce[i].age
    BY <2>2 DEF ClaimInv
  <2> QED
    BY <1>1, <2>2, <2>3, <2>4, Times DEF HistoryOK
<1> QED
  BY <1>2, <1>3, <1>4, <1>5 DEF ClaimInv

\* The inductive invariant holds in every reachable state.
LEMMA CInvHolds == SpecClaims => []CInv
<1>1. CInv /\ [NextClaims]_<<vars, histories>> => CInv'
  <2> SUFFICES ASSUME CInv, [NextClaims]_<<vars, histories>> PROVE CInv'
    OBVIOUS
  <2>1. IInv'
    BY NextKeepsIInv DEF CInv, NextClaims
  <2>2. CASE UNCHANGED <<vars, histories>>
    BY <2>1, <2>2 DEF vars, posture, histories, CInv, HistoryOK, HistoryInv, ClaimInv,
                      Claiming, Gating
  <2>3. CASE NextClaims
    BY <2>1, <2>3, WatchKeepsClaimInv, TickKeepsClaimInv DEF NextClaims, Remember
  <2> QED
    BY <2>2, <2>3
<1> QED
  BY <1>1, InitCInv, PTL DEF SpecClaims

(***************************************************************************)
(* A claim that makes the capability count was made by a gateway whose     *)
(* default action and whose apps' actions all gated in one tick, at most   *)
(* PostLimit before the store stamped the claim.                           *)
(***************************************************************************)
THEOREM ClaimsAreHonest == SpecClaims => []ClaimIsHonest
<1>1. CInv => ClaimIsHonest
  BY DEF CInv, ClaimInv, ClaimIsHonest
<1> QED
  BY <1>1, CInvHolds, PTL
=============================================================================
