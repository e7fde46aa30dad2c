------------------------- MODULE PolicySpineProofs --------------------------
(***************************************************************************)
(* Proofs about PolicySpine, for every set of gateways, every catalog of   *)
(* baselines, and saves and files that fail or do not. The argument is in  *)
(* StoresInv: at every step of a pull each of the gateway's atomics is     *)
(* that of the policy being installed, if the pull has stored it, and of   *)
(* the one installed before, if it has not; so whatever a request reads    *)
(* belongs to a policy in force, and is in its history.                    *)
(***************************************************************************)
EXTENDS PolicySpine, TLAPS

Attested(p) == p # NoPolicy /\ p.attested
ActionUnder(p) == IF p = NoPolicy THEN NoAction ELSE DeriveAction(p.baseline, p.attested)
BaselineOf(p) == IF p = NoPolicy THEN NoBaseline ELSE p.baseline

\* The policy a store is of, when the pull has stored it in these phases.
StoredBy(g, phases) == IF pull[g].phase \in phases THEN pull[g].policy ELSE installed[g]

StoresInv ==
    \A g \in Gateways :
        /\ zdrAttested[g] = Attested(StoredBy(g, {"action", "baseline"}))
        /\ policyAction[g] = ActionUnder(StoredBy(g, {"baseline"}))
        /\ policyBaseline[g] = BaselineOf(installed[g])

Resolving == [phase : {"zdr", "action", "done"}, scoped : BOOLEAN,
              baseline : Baselines \cup {NoBaseline},
              action : Actions \cup {NoAction},
              seen : SUBSET (Policies \cup {NoPolicy})]

ReqTypeOK == req \in [Gateways -> Resolving \cup {NoReq}]

\* While a request reads, every policy in force is in its history.
SeenInv ==
    \A g \in Gateways :
        /\ req[g].phase \in {"zdr", "action"} => InForce(g) \subseteq req[g].seen
        /\ req[g].phase = "zdr" => req[g].scoped
        /\ req[g].phase = "action" => ~req[g].scoped

IInv == TypeOK /\ ReqTypeOK /\ StoresInv /\ SeenInv /\ ActionOfAPolicyInForce
-----------------------------------------------------------------------------
LEMMA DerivedActions ==
  ASSUME NEW b, NEW attested
  PROVE  DeriveAction(b, attested) \in Actions
BY DEF DeriveAction, Actions

LEMMA PolicyFields ==
  ASSUME NEW p \in Policies
  PROVE  /\ p.baseline \in Baselines \cup {NoBaseline} /\ p.attested \in BOOLEAN
         /\ p # NoPolicy /\ p # NoFile /\ p # Torn
BY PolicyAssumptions DEF Policies

LEMMA TypeInit == Init => TypeOK
<1> SUFFICES ASSUME Init PROVE TypeOK
  OBVIOUS
<1>1. NoPull \in [phase : Phases, policy : Policies \cup {NoPolicy}]
  BY DEF NoPull, Phases
<1>2. /\ NoPull.phase = "idle" /\ NoPull.policy = NoPolicy
  BY DEF NoPull
<1> QED
  BY <1>1, <1>2 DEF Init, TypeOK

(***************************************************************************)
(* The store's operations and the gateways' keep their variables' types:   *)
(* a pull holds a policy from its answer on, and one that applies from the *)
(* moment its stores begin.                                                *)
(***************************************************************************)
LEMMA TypeNext == TypeOK /\ [Next]_vars => TypeOK'
<1> SUFFICES ASSUME TypeOK, [Next]_vars PROVE TypeOK'
  OBVIOUS
<1> USE DEF TypeOK
<1>1. CASE UNCHANGED vars
  BY <1>1 DEF vars, cpVars, gwVars
<1>2. ASSUME NEW p \in Policies, SetPolicy(p) PROVE TypeOK'
  BY <1>2 DEF SetPolicy, gwVars
<1>3. CASE Crash
  BY <1>3 DEF Crash, gwVars
<1>4. CASE Boot
  BY <1>4 DEF Boot, gwVars
<1>5. CASE Corrupt
  BY <1>5 DEF Corrupt, gwVars
<1>6. ASSUME NEW g \in Gateways, AskPolicy(g) PROVE TypeOK'
  BY <1>6 DEF AskPolicy, Phase, cpVars, Phases
<1>7. ASSUME NEW g \in Gateways, ServePolicy(g) PROVE TypeOK'
  BY <1>7 DEF ServePolicy, cpVars, Phases
<1>8. ASSUME NEW g \in Gateways, FetchBaselines(g) PROVE TypeOK'
  <2>1. /\ UNCHANGED <<cpVars, zdrAttested, policyAction, policyBaseline, installed>>
        /\ baselines' \in [Gateways -> BOOLEAN]
    BY <1>8 DEF FetchBaselines
  <2>2. CASE Applies(pull[g].policy)
    <3>1. pull' = [pull EXCEPT ![g].phase = "zdr"]
      BY <1>8, <2>2 DEF FetchBaselines, Phase
    <3> QED
      BY <2>1, <2>2, <3>1 DEF cpVars, Phases
  <2>3. CASE ~Applies(pull[g].policy)
    <3>1. pull' = [pull EXCEPT ![g] = NoPull]
      BY <1>8, <2>3 DEF FetchBaselines
    <3> QED
      BY <2>1, <3>1 DEF NoPull, cpVars, Phases
  <2> QED BY <2>2, <2>3
<1>9. ASSUME NEW g \in Gateways, PullFails(g) PROVE TypeOK'
  BY <1>9 DEF PullFails, NoPull, cpVars, Phases
<1>10. ASSUME NEW g \in Gateways, StoreAttestation(g) PROVE TypeOK'
  <2>1. pull[g].policy \in Policies
    BY <1>10 DEF StoreAttestation, Applies
  <2> QED
    BY <1>10, <2>1, PolicyFields DEF StoreAttestation, Phase, cpVars, Phases
<1>11. ASSUME NEW g \in Gateways, StoreAction(g) PROVE TypeOK'
  BY <1>11, DerivedActions DEF StoreAction, Phase, cpVars, Phases
<1>12. ASSUME NEW g \in Gateways, StoreBaseline(g) PROVE TypeOK'
  <2>1. pull[g].policy \in Policies
    BY <1>12 DEF StoreBaseline, Applies
  <2> QED
    BY <1>12, <2>1, PolicyFields DEF StoreBaseline, NoPull, cpVars, Phases
<1>13. ASSUME NEW g \in Gateways, RestartGateway(g) PROVE TypeOK'
  BY <1>13 DEF RestartGateway, NoPull, cpVars, Phases
<1>14. ASSUME NEW g \in Gateways, NEW own, ResolveStarts(g, own) PROVE TypeOK'
  BY <1>14 DEF ResolveStarts, cpVars, gwVars
<1>15. ASSUME NEW g \in Gateways, ResolveScoped(g) \/ ResolveGlobal(g) PROVE TypeOK'
  BY <1>15 DEF ResolveScoped, ResolveGlobal, cpVars, gwVars
<1> QED
  BY <1>1, <1>2, <1>3, <1>4, <1>5, <1>6, <1>7, <1>8, <1>9, <1>10, <1>11, <1>12, <1>13,
     <1>14, <1>15 DEF Next

(***************************************************************************)
(* The variables of store and gateways keep their types.                   *)
(***************************************************************************)
THEOREM TypeCorrect == Spec => []TypeOK
BY TypeInit, TypeNext, PTL DEF Spec

-----------------------------------------------------------------------------
(***************************************************************************)
(* policy_error is cleared only by a save of what is applied and set by    *)
(* one that fails; a restart reads the file, damaged or not.               *)
(***************************************************************************)
THEOREM NilErrorMeansDurable == Spec => []NilPolicyErrorMeansDurable
<1>1. Init => NilPolicyErrorMeansDurable
  BY DEF Init, NilPolicyErrorMeansDurable
<1>2. TypeOK /\ NilPolicyErrorMeansDurable /\ [Next]_vars => NilPolicyErrorMeansDurable'
  <2> SUFFICES ASSUME TypeOK, NilPolicyErrorMeansDurable, [Next]_vars
               PROVE  NilPolicyErrorMeansDurable'
    OBVIOUS
  <2> USE DEF NilPolicyErrorMeansDurable
  <2>1. ASSUME UNCHANGED cpVars PROVE NilPolicyErrorMeansDurable'
    BY <2>1 DEF cpVars
  <2>2. ASSUME NEW p \in Policies, SetPolicy(p) PROVE NilPolicyErrorMeansDurable'
    BY <2>2, PolicyFields DEF SetPolicy
  <2>3. CASE Crash \/ Corrupt
    BY <2>3 DEF Crash, Corrupt
  <2>4. CASE Boot
    BY <2>4 DEF Boot
  <2> QED
    BY <2>1, <2>2, <2>3, <2>4
    DEF Next, vars, AskPolicy, ServePolicy, FetchBaselines, PullFails, StoreAttestation,
        StoreAction, StoreBaseline, RestartGateway, ResolveStarts, ResolveScoped, ResolveGlobal
<1> QED
  BY <1>1, <1>2, TypeCorrect, PTL DEF Spec
-----------------------------------------------------------------------------
(***************************************************************************)
(* The stores of a pull.                                                   *)
(***************************************************************************)
LEMMA StoresInit == Init => StoresInv
<1> SUFFICES ASSUME Init, NEW g \in Gateways
             PROVE  /\ zdrAttested[g] = Attested(StoredBy(g, {"action", "baseline"}))
                    /\ policyAction[g] = ActionUnder(StoredBy(g, {"baseline"}))
                    /\ policyBaseline[g] = BaselineOf(installed[g])
  BY DEF StoresInv
<1>1. pull[g].phase = "idle" /\ installed[g] = NoPolicy
  BY DEF Init, NoPull
<1> QED
  BY <1>1 DEF Init, StoredBy, Attested, ActionUnder, BaselineOf

LEMMA StoresNext ==
  ASSUME TypeOK, StoresInv, [Next]_vars
  PROVE  StoresInv'
<1> USE DEF TypeOK, StoresInv, StoredBy
<1>1. ASSUME UNCHANGED gwVars PROVE StoresInv'
  BY <1>1 DEF gwVars
<1>2. ASSUME NEW g \in Gateways,
             \/ AskPolicy(g) \/ ServePolicy(g) \/ FetchBaselines(g) \/ PullFails(g)
      PROVE  StoresInv'
  <2>1. /\ UNCHANGED <<zdrAttested, policyAction, policyBaseline, installed>>
        /\ \A h \in Gateways : /\ pull[h].phase \in {"action", "baseline"} \/
                                  pull'[h].phase \in {"action", "baseline"}
                                 => pull'[h] = pull[h]
    BY <1>2 DEF AskPolicy, ServePolicy, FetchBaselines, PullFails, Phase, NoPull
  <2> QED
    BY <2>1
<1>3. ASSUME NEW g \in Gateways, StoreAttestation(g) PROVE StoresInv'
  <2>1. Attested(pull[g].policy) = pull[g].policy.attested
    BY <1>3, PolicyFields DEF StoreAttestation, Attested, Applies
  <2> QED
    BY <1>3, <2>1 DEF StoreAttestation, Phase
<1>4. ASSUME NEW g \in Gateways, StoreAction(g) PROVE StoresInv'
  <2>1. ActionUnder(pull[g].policy)
            = DeriveAction(pull[g].policy.baseline, pull[g].policy.attested)
    BY <1>4 DEF StoreAction, ActionUnder, Applies
  <2> QED
    BY <1>4, <2>1 DEF StoreAction, Phase
<1>5. ASSUME NEW g \in Gateways, StoreBaseline(g) PROVE StoresInv'
  <2>1. BaselineOf(pull[g].policy) = pull[g].policy.baseline
    BY <1>5 DEF StoreBaseline, BaselineOf, Applies
  <2> QED
    BY <1>5, <2>1 DEF StoreBaseline, NoPull
<1>6. ASSUME NEW g \in Gateways, RestartGateway(g) PROVE StoresInv'
  BY <1>6 DEF RestartGateway, NoPull, Attested, ActionUnder, BaselineOf
<1> QED
  BY <1>1, <1>2, <1>3, <1>4, <1>5, <1>6
  DEF Next, vars, SetPolicy, Crash, Boot, Corrupt, ResolveStarts, ResolveScoped, ResolveGlobal
-----------------------------------------------------------------------------
(***************************************************************************)
(* The requests. A policy comes into force only when the pull stores its   *)
(* attestation, and is then witnessed by the request that is reading.      *)
(***************************************************************************)
ReqInv == ReqTypeOK /\ SeenInv /\ ActionOfAPolicyInForce

LEMMA ReqInit == Init => ReqInv
BY DEF Init, ReqInv, ReqTypeOK, SeenInv, ActionOfAPolicyInForce, NoReq

LEMMA NothingComesIntoForce ==
  ASSUME ReqInv, UNCHANGED req, \A g \in Gateways : InForce(g)' \subseteq InForce(g)
  PROVE  ReqInv'
BY DEF ReqInv, ReqTypeOK, SeenInv, ActionOfAPolicyInForce

LEMMA RequestStoresLeaveForce ==
  ASSUME TypeOK, NEW g \in Gateways,
         \/ AskPolicy(g) \/ ServePolicy(g) \/ FetchBaselines(g) \/ PullFails(g)
         \/ StoreAction(g) \/ StoreBaseline(g)
  PROVE  UNCHANGED req /\ \A h \in Gateways : InForce(h)' \subseteq InForce(h)
<1> USE DEF TypeOK, InForce
<1>1. CASE AskPolicy(g) \/ ServePolicy(g) \/ FetchBaselines(g) \/ PullFails(g)
  BY <1>1 DEF AskPolicy, ServePolicy, FetchBaselines, PullFails, Phase, NoPull
<1>2. CASE StoreAction(g)
  BY <1>2 DEF StoreAction, Phase
<1>3. CASE StoreBaseline(g)
  BY <1>3 DEF StoreBaseline, NoPull
<1> QED
  BY <1>1, <1>2, <1>3

LEMMA WitnessKeepsReqInv ==
  ASSUME TypeOK, ReqInv, NEW g \in Gateways, StoreAttestation(g)
  PROVE  ReqInv'
<1> DEFINE p == pull[g].policy
<1>1. /\ p \in Policies
      /\ \A h \in Gateways : InForce(h)' \subseteq InForce(h) \cup (IF h = g THEN {p} ELSE {})
  BY DEF TypeOK, StoreAttestation, Applies, InForce, Phase
<1>2. \A h \in Gateways \ {g} : req'[h] = req[h]
  BY DEF ReqInv, ReqTypeOK, StoreAttestation, Witnessed
<1>3. CASE req[g].phase \notin {"zdr", "action"}
  BY <1>1, <1>3 DEF ReqInv, ReqTypeOK, SeenInv, ActionOfAPolicyInForce, StoreAttestation, Witnessed
<1>4. CASE req[g].phase \in {"zdr", "action"}
  <2>1. req[g] \in Resolving
    BY <1>4 DEF ReqInv, ReqTypeOK, NoReq
  <2>2. /\ req' = [req EXCEPT ![g] = [req[g] EXCEPT !.seen = @ \cup {p}]]
    BY <1>4, <2>1 DEF StoreAttestation, Witnessed, ReqInv, ReqTypeOK
  <2>3. /\ req'[g] \in Resolving /\ req'[g].phase = req[g].phase
        /\ req'[g].scoped = req[g].scoped /\ req'[g].seen = req[g].seen \cup {p}
    BY <1>1, <2>1, <2>2 DEF ReqInv, ReqTypeOK, Resolving
  <2>4. ReqTypeOK'
    BY <1>1, <2>2, <2>3 DEF ReqInv, ReqTypeOK
  <2>5. SeenInv'
    BY <1>1, <1>2, <2>3 DEF ReqInv, SeenInv
  <2>6. ActionOfAPolicyInForce'
    BY <1>2, <1>4, <2>3 DEF ReqInv, ActionOfAPolicyInForce
  <2> QED
    BY <2>4, <2>5, <2>6 DEF ReqInv
<1> QED
  BY <1>3, <1>4

(***************************************************************************)
(* What resolveAction reads last belongs to a policy in force: the         *)
(* attestation for an app's own baseline, else the derived action.         *)
(***************************************************************************)
LEMMA ReadOfAPolicyInForce ==
  ASSUME TypeOK, StoresInv, NEW g \in Gateways
  PROVE  /\ \E p \in InForce(g) : zdrAttested[g] = Attested(p)
         /\ \E p \in InForce(g) : policyAction[g] = ActionUnder(p)
BY DEF StoresInv, StoredBy, InForce

LEMMA ResolveKeepsReqInv ==
  ASSUME TypeOK, StoresInv, ReqInv, NEW g \in Gateways, ResolveScoped(g) \/ ResolveGlobal(g)
  PROVE  ReqInv'
<1>1. req[g] \in Resolving /\ req[g].phase \in {"zdr", "action"}
  BY DEF ReqInv, ReqTypeOK, NoReq, ResolveScoped, ResolveGlobal
<1>2. \A h \in Gateways : InForce(h)' = InForce(h)
  BY DEF InForce, ResolveScoped, ResolveGlobal, gwVars
<1>3. PICK p \in InForce(g), q \in InForce(g) :
          zdrAttested[g] = Attested(p) /\ policyAction[g] = ActionUnder(q)
  BY ReadOfAPolicyInForce
<1>4. /\ InForce(g) \subseteq req[g].seen
      /\ req[g].scoped <=> ResolveScoped(g)
      /\ InForce(g) \subseteq Policies \cup {NoPolicy}
  BY <1>1 DEF ReqInv, SeenInv, ResolveScoped, ResolveGlobal, TypeOK, InForce
<1> DEFINE act == IF req[g].scoped THEN DeriveAction(req[g].baseline, zdrAttested[g])
                  ELSE IF policyAction[g] = NoAction THEN "mask" ELSE policyAction[g]
<1>5. req' = [req EXCEPT ![g] = [req[g] EXCEPT !.phase = "done", !.action = act]]
  BY <1>1, <1>4 DEF ResolveScoped, ResolveGlobal, ReqInv, ReqTypeOK, Resolving
<1>6. act \in Actions
  BY DerivedActions DEF TypeOK, Actions
<1>7. /\ req'[g] \in Resolving
      /\ req'[g].phase = "done" /\ req'[g].action = act
      /\ req'[g].scoped = req[g].scoped /\ req'[g].baseline = req[g].baseline
      /\ req'[g].seen = req[g].seen
      /\ \A h \in Gateways \ {g} : req'[h] = req[h]
  BY <1>1, <1>5, <1>6 DEF ReqInv, ReqTypeOK, Resolving
<1>8. \E s \in req[g].seen : act = DerivedFrom(s, req[g].scoped, req[g].baseline)
  <2>1. CASE req[g].scoped
    <3>1. act = DerivedFrom(p, req[g].scoped, req[g].baseline)
      BY <1>3, <2>1 DEF DerivedFrom, Attested
    <3> QED
      BY <1>4, <3>1
  <2>2. CASE ~req[g].scoped
    <3>1. ActionUnder(q) = NoAction <=> q = NoPolicy
      BY DerivedActions, PolicyAssumptions DEF ActionUnder
    <3>2. act = DerivedFrom(q, req[g].scoped, req[g].baseline)
      BY <1>3, <2>2, <3>1 DEF DerivedFrom, ActionUnder
    <3> QED
      BY <1>4, <3>2
  <2> QED
    BY <2>1, <2>2
<1>9. ReqTypeOK'
  BY <1>5, <1>7 DEF ReqInv, ReqTypeOK
<1>10. SeenInv' /\ ActionOfAPolicyInForce'
  BY <1>2, <1>7, <1>8 DEF ReqInv, SeenInv, ActionOfAPolicyInForce
<1> QED
  BY <1>9, <1>10 DEF ReqInv

LEMMA ReqNext ==
  ASSUME TypeOK, StoresInv, ReqInv, [Next]_vars
  PROVE  ReqInv'
<1>1. ASSUME UNCHANGED <<gwVars, req>> PROVE ReqInv'
  BY <1>1, NothingComesIntoForce DEF gwVars, InForce
<1>2. ASSUME NEW g \in Gateways, RestartGateway(g) PROVE ReqInv'
  <2>1. /\ req'[g] = NoReq
        /\ \A h \in Gateways \ {g} : req'[h] = req[h] /\ InForce(h)' = InForce(h)
    BY <1>2 DEF RestartGateway, InForce, ReqInv, ReqTypeOK, TypeOK
  <2>2. ReqTypeOK'
    BY <1>2 DEF RestartGateway, ReqInv, ReqTypeOK
  <2> QED
    BY <2>1, <2>2 DEF ReqInv, SeenInv, ActionOfAPolicyInForce, NoReq
<1>3. ASSUME NEW g \in Gateways, NEW own \in Baselines \cup {NoBaseline}, ResolveStarts(g, own)
      PROVE  ReqInv'
  <2>1. /\ \A h \in Gateways \ {g} : req'[h] = req[h]
        /\ \A h \in Gateways : InForce(h)' = InForce(h)
        /\ InForce(g) \subseteq Policies \cup {NoPolicy}
    BY <1>3 DEF ResolveStarts, InForce, gwVars, ReqInv, ReqTypeOK, TypeOK
  <2>2. /\ req'[g] \in Resolving /\ req'[g].seen = InForce(g)
        /\ req'[g].phase = (IF req'[g].scoped THEN "zdr" ELSE "action")
    BY <1>3, <2>1 DEF ResolveStarts, Scoped, Resolving, ReqInv, ReqTypeOK, TypeOK
  <2>3. ReqTypeOK'
    BY <1>3, <2>2 DEF ResolveStarts, ReqInv, ReqTypeOK
  <2> QED
    BY <2>1, <2>2, <2>3 DEF ReqInv, SeenInv, ActionOfAPolicyInForce
<1> QED
  BY <1>1, <1>2, <1>3, RequestStoresLeaveForce, NothingComesIntoForce, WitnessKeepsReqInv,
     ResolveKeepsReqInv
  DEF Next, vars, SetPolicy, Crash, Boot, Corrupt

(***************************************************************************)
(* A request resolves to the action of a policy in force while it read,    *)
(* although resolveAction and pullPolicy take no lock between the atomics. *)
(***************************************************************************)
THEOREM ActionsOfPoliciesInForce == Spec => []ActionOfAPolicyInForce
<1>1. Init => IInv
  BY TypeInit, StoresInit, ReqInit DEF IInv, ReqInv
<1>2. IInv /\ [Next]_vars => IInv'
  BY TypeNext, StoresNext, ReqNext DEF IInv, ReqInv
<1>3. IInv => ActionOfAPolicyInForce
  BY DEF IInv
<1> QED
  BY <1>1, <1>2, <1>3, PTL DEF Spec
=============================================================================
