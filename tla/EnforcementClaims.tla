------------------------- MODULE EnforcementClaims --------------------------
(***************************************************************************)
(* Enforcement with a history of what each gateway gated, for the question *)
(* of how old the truth of a claim may be. The history only watches: every *)
(* step of Enforcement is one here.                                        *)
(***************************************************************************)
EXTENDS Enforcement

VARIABLES
    gated,      \* history: gateway -> the halves of its posture that gated in this tick
    since       \* history: gateway -> ticks since one in which both halves did

histories == <<gated, since>>

Halves == {"default", "apps"}
Horizon == Stale + PostLimit    \* nothing older is told apart

\* The halves of g's posture that gate: the default action, and every app's.
Gating(g) == {h \in Halves : IF h = "default" THEN default[g] ELSE apps[g]}

\* Ticks since a tick in which both halves gated, when those of now do in this one.
Elapsed(now, age) == IF now = Halves THEN 0 ELSE age

\* Within a tick, a half that gated once has gated.
Watch ==
    /\ gated' = [g \in Gateways |-> gated[g] \cup Gating(g)']
    /\ since' = [g \in Gateways |-> Elapsed(gated'[g], since[g])]

\* The next tick begins with the posture the last one ended with.
Age ==
    /\ gated' = [g \in Gateways |-> Gating(g)]
    /\ since' = [g \in Gateways |->
                    Elapsed(Gating(g), IF since[g] = Horizon THEN Horizon ELSE since[g] + 1)]

Remember == IF Tick THEN Age ELSE Watch

InitClaims ==
    /\ Init
    /\ gated = [g \in Gateways |-> Gating(g)]
    /\ since = [g \in Gateways |-> Elapsed(Gating(g), Horizon)]

NextClaims == Next /\ Remember

SpecClaims == InitClaims /\ [][NextClaims]_<<vars, histories>>

FairClaims == SpecClaims /\ Fairness
-----------------------------------------------------------------------------
(***************************************************************************)
(* A claim that makes the capability count as enforced was true of the     *)
(* gateway that made it, and is no older than it may be: there was a tick, *)
(* at most PostLimit before the entry was stamped, in which that gateway's *)
(* default action gated and all of its apps' actions did. Heartbeats that  *)
(* are late, reordered or repeated, evictions, changes of address, and     *)
(* restarts do not stretch that.                                           *)
(*                                                                         *)
(* In one tick, not at one moment: pushHeartbeat reads the default action  *)
(* and the apps' one after the other, and between the two reads another    *)
(* goroutine may turn the first off and the second on.                     *)
(***************************************************************************)
ClaimIsHonest ==
    \A i \in Claiming : gwEnforce[i].age < Stale =>
        since[gwEnforce[i].from] <= PostLimit + gwEnforce[i].age
=============================================================================
