---------------------------- MODULE PolicySpine -----------------------------
(***************************************************************************)
(* The applied policy and the action gateways derive from it. The control  *)
(* plane keeps the policy in memory and in policy.json; a gateway polls    *)
(* it, then the baselines, and stores what it derives in four separate     *)
(* atomics, baselines, zdrAttested, policyAction, policyBaseline, which    *)
(* requests read one by one.                                               *)
(*                                                                         *)
(* Gateways run with GATEWAY_REDACT_ACTION=per_policy. The control plane   *)
(* and the gateways agree on the baselines themselves (they are compiled   *)
(* in), so a gateway has either none of them or all. A save is whole or    *)
(* nothing (temp file and rename, as in Keystore).                         *)
(***************************************************************************)
EXTENDS FiniteSets

CONSTANTS
    Gateways,
    Off, On, Phi,   \* sets of baselines, by pii_redaction: off, on, on+phi
    Gated,          \* baselines with ZDR "enforced"
    SaveMayFail, FileMayCorrupt,
    NoFile, Torn, NoPolicy, NoBaseline, NoAction

Baselines == Off \cup On \cup Phi
Policies == [baseline : Baselines \cup {NoBaseline}, attested : BOOLEAN]
Actions == {"mask", "block", "detect"}

ASSUME PolicyAssumptions ==
    /\ Off \cap On = {} /\ Off \cap Phi = {} /\ On \cap Phi = {}
    /\ NoBaseline \notin Baselines
    /\ NoPolicy \notin Policies
    /\ NoFile \notin Policies /\ Torn \notin Policies
    /\ NoFile # Torn /\ NoFile # NoPolicy /\ Torn # NoPolicy
    /\ NoAction \notin Actions
    /\ SaveMayFail \in BOOLEAN
    /\ FileMayCorrupt \in BOOLEAN

VARIABLES
    up,             \* the control-plane process is serving
    policy,         \* Store.policy
    persistErr,     \* policyPersistErr is non-nil
    file,           \* policy.json
    pull,           \* gateway -> the policy pull under way
    baselines,      \* gateway -> the baselines have been pulled
    zdrAttested,    \* gateway -> s.zdrAttested
    policyAction,   \* gateway -> s.policyAction
    policyBaseline, \* gateway -> s.policyBaseline
    req,            \* gateway -> the request resolving its action
    installed       \* history: gateway -> the policy last installed

cpVars == <<up, policy, persistErr, file>>
gwVars == <<pull, baselines, zdrAttested, policyAction, policyBaseline, installed>>
vars == <<cpVars, gwVars, req>>

\* GatewayAction: block until the coverage is attested.
DeriveAction(b, attested) ==
    IF b \in Off THEN "detect"
    ELSE IF b \in Phi \cap Gated /\ ~attested THEN "block"
    ELSE "mask"

NoPull == [phase |-> "idle", policy |-> NoPolicy]
NoReq == [phase |-> "idle"]
-----------------------------------------------------------------------------
Init ==
    /\ up = FALSE
    /\ policy = NoPolicy
    /\ persistErr = FALSE
    /\ file = NoFile
    /\ pull = [g \in Gateways |-> NoPull]
    /\ baselines = [g \in Gateways |-> FALSE]
    /\ zdrAttested = [g \in Gateways |-> FALSE]
    /\ policyAction = [g \in Gateways |-> NoAction]
    /\ policyBaseline = [g \in Gateways |-> NoBaseline]
    /\ req = [g \in Gateways |-> NoReq]
    /\ installed = [g \in Gateways |-> NoPolicy]

\* Fault: a failed save is logged and no more.
SetPolicyAndLog(p) ==
    /\ up
    /\ policy' = p
    /\ \/ file' = p /\ persistErr' = FALSE
       \/ SaveMayFail /\ UNCHANGED <<file, persistErr>>
    /\ UNCHANGED <<up, gwVars, req>>

\* PUT /api/policies as far as the policy goes: applied whether or not it is
\* saved. The empty baseline is accepted and stands for none.
SetPolicy(p) ==
    /\ up
    /\ policy' = p
    /\ \/ file' = p /\ persistErr' = FALSE
       \/ SaveMayFail /\ persistErr' = TRUE /\ UNCHANGED file
    /\ UNCHANGED <<up, gwVars, req>>

Crash ==
    /\ up
    /\ up' = FALSE
    /\ policy' = NoPolicy
    /\ persistErr' = FALSE
    /\ UNCHANGED <<file, gwVars, req>>

\* A policy.json that does not parse is logged, not fatal and not remembered.
Boot ==
    /\ ~up
    /\ up' = TRUE
    /\ policy' = IF file \in {NoFile, Torn} THEN NoPolicy ELSE file
    /\ UNCHANGED <<persistErr, file, gwVars, req>>

Corrupt ==
    /\ FileMayCorrupt
    /\ ~up
    /\ file # NoFile
    /\ file' = Torn
    /\ UNCHANGED <<up, policy, persistErr, gwVars, req>>
-----------------------------------------------------------------------------
(***************************************************************************)
(* pullPolicy: two requests to the control plane, then four stores.        *)
(***************************************************************************)
Phase(g, p) == pull' = [pull EXCEPT ![g].phase = p]

AskPolicy(g) ==
    /\ pull[g].phase = "idle"
    /\ Phase(g, "asked")
    /\ UNCHANGED <<cpVars, baselines, zdrAttested, policyAction, policyBaseline, req, installed>>

ServePolicy(g) ==
    /\ pull[g].phase = "asked"
    /\ up
    /\ pull' = [pull EXCEPT ![g] = [phase |-> "answered", policy |-> policy]]
    /\ UNCHANGED <<cpVars, baselines, zdrAttested, policyAction, policyBaseline, req, installed>>

\* Nothing applied: whatever the gateway enforces, it goes on enforcing.
Applies(p) == p # NoPolicy /\ p.baseline # NoBaseline

\* Fault: the same baseline is taken for the same policy.
FetchAndCompare(g) ==
    /\ pull[g].phase = "answered"
    /\ up
    /\ baselines' = [baselines EXCEPT ![g] = TRUE]
    /\ IF Applies(pull[g].policy) /\ pull[g].policy.baseline # policyBaseline[g]
       THEN Phase(g, "zdr") ELSE pull' = [pull EXCEPT ![g] = NoPull]
    /\ UNCHANGED <<cpVars, zdrAttested, policyAction, policyBaseline, req, installed>>

FetchBaselines(g) ==
    /\ pull[g].phase = "answered"
    /\ up
    /\ baselines' = [baselines EXCEPT ![g] = TRUE]
    /\ IF Applies(pull[g].policy)
       THEN Phase(g, "zdr") ELSE pull' = [pull EXCEPT ![g] = NoPull]
    /\ UNCHANGED <<cpVars, zdrAttested, policyAction, policyBaseline, req, installed>>

PullFails(g) ==
    /\ pull[g].phase \in {"asked", "answered"}
    /\ pull' = [pull EXCEPT ![g] = NoPull]
    /\ UNCHANGED <<cpVars, baselines, zdrAttested, policyAction, policyBaseline, req, installed>>

\* A request in flight may now be served under this policy.
Witnessed(g) ==
    req' = IF req[g].phase \in {"zdr", "action"}
           THEN [req EXCEPT ![g].seen = @ \cup {pull[g].policy}] ELSE req

\* Fault: an attestation once pulled is never taken back.
KeepAttestation(g) ==
    /\ pull[g].phase = "zdr"
    /\ zdrAttested' = [zdrAttested EXCEPT ![g] = @ \/ pull[g].policy.attested]
    /\ Phase(g, "action")
    /\ Witnessed(g)
    /\ UNCHANGED <<cpVars, baselines, policyAction, policyBaseline, installed>>

StoreAttestation(g) ==
    /\ pull[g].phase = "zdr"
    /\ zdrAttested' = [zdrAttested EXCEPT ![g] = pull[g].policy.attested]
    /\ Phase(g, "action")
    /\ Witnessed(g)
    /\ UNCHANGED <<cpVars, baselines, policyAction, policyBaseline, installed>>

StoreAction(g) ==
    /\ pull[g].phase = "action"
    /\ policyAction' = [policyAction EXCEPT
            ![g] = DeriveAction(pull[g].policy.baseline, pull[g].policy.attested)]
    /\ Phase(g, "baseline")
    /\ UNCHANGED <<cpVars, baselines, zdrAttested, policyBaseline, req, installed>>

StoreBaseline(g) ==
    /\ pull[g].phase = "baseline"
    /\ policyBaseline' = [policyBaseline EXCEPT ![g] = pull[g].policy.baseline]
    /\ pull' = [pull EXCEPT ![g] = NoPull]
    /\ installed' = [installed EXCEPT ![g] = pull[g].policy]
    /\ UNCHANGED <<cpVars, baselines, zdrAttested, policyAction, req>>

\* A gateway process starts with no policy: it masks until its first pull.
RestartGateway(g) ==
    /\ pull' = [pull EXCEPT ![g] = NoPull]
    /\ baselines' = [baselines EXCEPT ![g] = FALSE]
    /\ zdrAttested' = [zdrAttested EXCEPT ![g] = FALSE]
    /\ policyAction' = [policyAction EXCEPT ![g] = NoAction]
    /\ policyBaseline' = [policyBaseline EXCEPT ![g] = NoBaseline]
    /\ installed' = [installed EXCEPT ![g] = NoPolicy]
    /\ req' = [req EXCEPT ![g] = NoReq]
    /\ UNCHANGED cpVars
-----------------------------------------------------------------------------
(***************************************************************************)
(* resolveAction, for a caller whose app names the baseline own, or none.  *)
(* seen is history: the policies installed, or being installed, while the  *)
(* request read.                                                           *)
(***************************************************************************)
InForce(g) ==
    {installed[g]} \cup
        (IF pull[g].phase \in {"action", "baseline"} THEN {pull[g].policy} ELSE {})

Scoped(g, own) == own # NoBaseline /\ baselines[g]

\* The first load: the baselines decide whether the app's own one is used;
\* otherwise policyBaseline is read, before policyAction.
ResolveStarts(g, own) ==
    /\ req[g].phase \in {"idle", "done"}
    /\ req' = [req EXCEPT ![g] =
                [phase |-> IF Scoped(g, own) THEN "zdr" ELSE "action",
                 scoped |-> Scoped(g, own),
                 baseline |-> IF Scoped(g, own) THEN own ELSE policyBaseline[g],
                 action |-> NoAction,
                 seen |-> InForce(g)]]
    /\ UNCHANGED <<cpVars, gwVars>>

ResolveScoped(g) ==
    /\ req[g].phase = "zdr"
    /\ req' = [req EXCEPT ![g].phase = "done",
                          ![g].action = DeriveAction(req[g].baseline, zdrAttested[g])]
    /\ UNCHANGED <<cpVars, gwVars>>

ResolveGlobal(g) ==
    /\ req[g].phase = "action"
    /\ req' = [req EXCEPT ![g].phase = "done",
                          ![g].action = IF policyAction[g] = NoAction THEN "mask"
                                        ELSE policyAction[g]]
    /\ UNCHANGED <<cpVars, gwVars>>

Next ==
    \/ \E p \in Policies : SetPolicy(p)
    \/ Crash
    \/ Boot
    \/ Corrupt
    \/ \E g \in Gateways :
        \/ AskPolicy(g)
        \/ ServePolicy(g)
        \/ FetchBaselines(g)
        \/ PullFails(g)
        \/ StoreAttestation(g)
        \/ StoreAction(g)
        \/ StoreBaseline(g)
        \/ RestartGateway(g)
        \/ \E own \in Baselines \cup {NoBaseline} : ResolveStarts(g, own)
        \/ ResolveScoped(g)
        \/ ResolveGlobal(g)

Spec == Init /\ [][Next]_vars

(***************************************************************************)
(* Fairness: as for the pattern pack, the pull loop is rearmed, a pull     *)
(* begins while the control plane is up if it is up again and again, and   *)
(* requests do not always fail. Nobody is obliged to restart a gateway.    *)
(***************************************************************************)
Fairness ==
    /\ WF_vars(Boot)
    /\ \A g \in Gateways :
        /\ WF_vars(AskPolicy(g))
        /\ SF_vars(AskPolicy(g) /\ up)
        /\ SF_vars(ServePolicy(g))
        /\ SF_vars(FetchBaselines(g))
        /\ SF_vars(StoreAttestation(g))
        /\ SF_vars(StoreAction(g))
        /\ SF_vars(StoreBaseline(g))

LiveSpec == Spec /\ Fairness
-----------------------------------------------------------------------------
Phases == {"idle", "asked", "answered", "zdr", "action", "baseline"}

TypeOK ==
    /\ up \in BOOLEAN
    /\ policy \in Policies \cup {NoPolicy}
    /\ persistErr \in BOOLEAN
    /\ file \in Policies \cup {NoFile, Torn}
    /\ pull \in [Gateways -> [phase : Phases, policy : Policies \cup {NoPolicy}]]
    /\ baselines \in [Gateways -> BOOLEAN]
    /\ zdrAttested \in [Gateways -> BOOLEAN]
    /\ policyAction \in [Gateways -> Actions \cup {NoAction}]
    /\ policyBaseline \in [Gateways -> Baselines \cup {NoBaseline}]
    /\ installed \in [Gateways -> Policies \cup {NoPolicy}]
    /\ \A g \in Gateways :
        /\ pull[g].phase \in {"idle", "asked"} => pull[g].policy = NoPolicy
        /\ pull[g].phase \in {"zdr", "action", "baseline"} => Applies(pull[g].policy)
    /\ ~up => policy = NoPolicy /\ ~persistErr

(***************************************************************************)
(* policy_error on the status route is empty only while a restart would    *)
(* bring back the policy that is applied.                                  *)
(***************************************************************************)
NilPolicyErrorMeansDurable ==
    up /\ ~persistErr => policy = IF file \in {NoFile, Torn} THEN NoPolicy ELSE file

DerivedFrom(p, scoped, b) ==
    IF scoped THEN DeriveAction(b, p # NoPolicy /\ p.attested)
    ELSE IF p = NoPolicy THEN "mask" ELSE DeriveAction(p.baseline, p.attested)

(***************************************************************************)
(* A request that straddles pulls resolves to the action of one of the     *)
(* policies in force while it read, never to one that none of them calls   *)
(* for: without an attestation in force, ZDR-gated baselines block.        *)
(***************************************************************************)
ActionOfAPolicyInForce ==
    \A g \in Gateways : req[g].phase = "done" =>
        \E p \in req[g].seen :
            req[g].action = DerivedFrom(p, req[g].scoped, req[g].baseline)

(***************************************************************************)
(* A policy that stays applied and saved is enforced by every gateway,     *)
(* again and again however often gateways and control plane restart.       *)
(***************************************************************************)
AppliedPolicyIsEnforced ==
    \A g \in Gateways, p \in Policies :
        p.baseline # NoBaseline =>
            (<>[](file = p /\ (up => policy = p)) => []<>(policyAction[g] = DeriveAction(p.baseline, p.attested)))
=============================================================================
