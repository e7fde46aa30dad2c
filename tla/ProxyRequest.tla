---------------------------- MODULE ProxyRequest ----------------------------
(***************************************************************************)
(* A request as a whole: Pipeline with its answer relayed as StreamRelay   *)
(* has it, its body walked as BodyWalk has it when it is read, and the     *)
(* guards of Validators looking at a claim while its first field is        *)
(* scanned. A body and a claim are looked at in one state and forgotten in *)
(* the next, as nothing else depends on them.                              *)
(***************************************************************************)
EXTENDS BodyWalk

allVars == <<vars, relay, walk, hit>>

RequestInit == RelayInit /\ walk = NoWalk /\ hit = NoHit

RequestNext ==
    \/ ReadAndWalk /\ UNCHANGED <<relay, hit>>
    \/ GuardClaim /\ UNCHANGED <<relay, walk>>
    \/ RelayNext /\ walk' = NoWalk /\ hit' = NoHit

RequestSpec == RequestInit /\ [][RequestNext]_allVars
=============================================================================
