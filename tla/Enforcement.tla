---------------------------- MODULE Enforcement -----------------------------
(***************************************************************************)
(* What the control plane believes of enforcement: gateways announce by    *)
(* heartbeat that they gate all of their traffic, the store keeps the last *)
(* heartbeat of each gateway id, a claim younger than Stale makes the      *)
(* capability count as enforced, and drift is recomputed from it after     *)
(* every emitter tick and every policy apply.                              *)
(*                                                                         *)
(* Time is relative: what is kept is how many ticks ago something was, and *)
(* no heartbeat older than Stale is told apart. The posture of a gateway is*)
(* an input here (PolicySpine and KeySpine): whether its default action    *)
(* gates, and whether the action of every app with a baseline of its own   *)
(* does. There is one proxy-enforced capability, and the gateways serve    *)
(* its route.                                                              *)
(***************************************************************************)
EXTENDS Integers, FiniteSets

CONSTANTS
    Gateways,
    Ids,            \* gateway ids, gw@<listen address>
    Puts,           \* policy applies that may be under way at a time
    Stale,          \* GatewayStaleAfter, in ticks
    PostLimit,      \* bound on the ticks between a claim and its arrival
    MaxEnforce,     \* maxGatewayEnforce
    MaxInFlight,    \* bound on heartbeats under way
    Never, NoBeat, NoEntry, NoView

ASSUME EnforcementAssumptions ==
    /\ Stale \in Nat \ {0} /\ PostLimit \in Nat
    /\ MaxEnforce \in Nat \ {0} /\ MaxInFlight \in Nat
    /\ "tick" \notin Puts
    /\ Never \notin Ids

Refreshers == {"tick"} \cup Puts
Drifts == {"none", "stale", "silent"}

VARIABLES
    id,           \* gateway -> the id it announces itself under
    default,      \* gateway -> enforces(the action of a caller without an app)
    apps,         \* gateway -> allAppsEnforce
    beat,         \* gateway -> the default action read for the heartbeat being made
    flight,       \* heartbeats under way to the control plane
    gwEnforce,    \* id -> [from, claims, age] of its last heartbeat; from is history
    expects,      \* the applied baseline has PIIRedaction on
    refresh,      \* refresher -> what it has read so far
    drift         \* what the drift set says of the capability

posture == <<id, default, apps>>
vars == <<posture, beat, flight, gwEnforce, expects, refresh, drift>>

NoRead == [phase |-> "idle", expected |-> FALSE, view |-> NoView]
-----------------------------------------------------------------------------
(***************************************************************************)
(* Store.GatewayEnforcement.                                               *)
(***************************************************************************)
Claiming == {i \in Ids : gwEnforce[i] # NoEntry /\ gwEnforce[i].claims}
Fresh == \E i \in Claiming : gwEnforce[i].age < Stale
EverSeen == Claiming # {}
Known == {i \in Ids : gwEnforce[i] # NoEntry}

Init ==
    /\ id \in [Gateways -> Ids]
    /\ default \in [Gateways -> BOOLEAN] /\ apps \in [Gateways -> BOOLEAN]
    /\ beat = [g \in Gateways |-> NoBeat]
    /\ flight = {}
    /\ gwEnforce = [i \in Ids |-> NoEntry]
    /\ expects \in BOOLEAN
    /\ refresh = [r \in Refreshers |-> NoRead]
    /\ drift = "none"
-----------------------------------------------------------------------------
(***************************************************************************)
(* The gateway. Policy and keystore are pulled by another goroutine, so    *)
(* the posture may move at any time, also while a heartbeat is made.       *)
(***************************************************************************)
DefaultChanges(g) ==
    /\ default' = [default EXCEPT ![g] = ~@]
    /\ UNCHANGED <<id, apps, beat, flight, gwEnforce, expects, refresh, drift>>

AppsChange(g) ==
    /\ apps' = [apps EXCEPT ![g] = ~@]
    /\ UNCHANGED <<id, default, beat, flight, gwEnforce, expects, refresh, drift>>

\* pushHeartbeat: the default action is read first.
BeatReads(g) ==
    /\ beat[g] = NoBeat
    /\ beat' = [beat EXCEPT ![g] = [gates |-> default[g]]]
    /\ UNCHANGED <<posture, flight, gwEnforce, expects, refresh, drift>>

\* Fault: the apps' own baselines are left out of the claim.
ClaimDefault(g) == beat[g].gates

Claim(g) == beat[g].gates /\ apps[g]

\* A gateway gives an answer five seconds and goes on to its next heartbeat;
\* the one it stopped waiting for may still arrive.
BeatPosts(g) ==
    /\ beat[g] # NoBeat
    /\ Cardinality(flight) < MaxInFlight
    /\ flight' = flight \cup {[from |-> g, id |-> id[g], claims |-> Claim(g), age |-> 0]}
    /\ beat' = [beat EXCEPT ![g] = NoBeat]
    /\ UNCHANGED <<posture, gwEnforce, expects, refresh, drift>>

BeatLost(m) ==
    /\ flight' = flight \ {m}
    /\ UNCHANGED <<posture, beat, gwEnforce, expects, refresh, drift>>

\* A process that stops is forgotten by nobody; the new one may listen elsewhere.
RestartGateway(g) ==
    /\ \E i \in Ids : id' = [id EXCEPT ![g] = i]
    /\ beat' = [beat EXCEPT ![g] = NoBeat]
    /\ UNCHANGED <<default, apps, flight, gwEnforce, expects, refresh, drift>>
-----------------------------------------------------------------------------
(***************************************************************************)
(* SetGatewayEnforcement: a known id is updated in place, a new one takes  *)
(* the slot of an oldest entry when all are taken.                         *)
(***************************************************************************)
Oldest == {i \in Known : \A j \in Known : gwEnforce[j].age <= gwEnforce[i].age}

Evicted(m) ==
    IF gwEnforce[m.id] = NoEntry /\ Cardinality(Known) >= MaxEnforce
    THEN Oldest ELSE {Never}

\* Fault: a heartbeat without claims keeps those of the one before it.
EntryKeepingClaims(m) ==
    [from |-> m.from, age |-> 0,
     claims |-> m.claims \/ (gwEnforce[m.id] # NoEntry /\ gwEnforce[m.id].claims)]

Entry(m) == [from |-> m.from, age |-> 0, claims |-> m.claims]

\* Stamped with the control plane's clock, on arrival.
BeatTaken(m) ==
    /\ flight' = flight \ {m}
    /\ \E old \in Evicted(m) :
        gwEnforce' = [i \in Ids |-> IF i = m.id THEN Entry(m)
                                    ELSE IF i = old THEN NoEntry ELSE gwEnforce[i]]
    /\ UNCHANGED <<posture, beat, expects, refresh, drift>>

\* Heartbeats, drift and refreshes go with the process; the policy is on disk.
RestartControlPlane ==
    /\ gwEnforce' = [i \in Ids |-> NoEntry]
    /\ refresh' = [r \in Refreshers |-> NoRead]
    /\ drift' = "none"
    /\ UNCHANGED <<posture, beat, flight, expects>>
-----------------------------------------------------------------------------
(***************************************************************************)
(* RefreshDrift: the policy is read, then the heartbeats, then the drift   *)
(* set is replaced, each under the store's lock and nothing across them.   *)
(***************************************************************************)
RefreshReadsPolicy(r) ==
    /\ refresh[r].phase = (IF r = "tick" THEN "idle" ELSE "applied")
    /\ refresh' = [refresh EXCEPT ![r] =
                    [phase |-> "policy", expected |-> expects, view |-> NoView]]
    /\ UNCHANGED <<posture, beat, flight, gwEnforce, expects, drift>>

View(expected) ==
    IF Fresh THEN "none"
    ELSE IF EverSeen THEN "stale"
    ELSE IF expected THEN "silent" ELSE "none"

RefreshReadsBeats(r) ==
    /\ refresh[r].phase = "policy"
    /\ refresh' = [refresh EXCEPT ![r] =
          [phase |-> "computed", expected |-> FALSE, view |-> View(refresh[r].expected)]]
    /\ UNCHANGED <<posture, beat, flight, gwEnforce, expects, drift>>

\* Fault: a refresh that found nothing leaves the records that are there.
ReplaceWithSome(r) == IF refresh[r].view = "none" THEN drift ELSE refresh[r].view

Replacement(r) == refresh[r].view

ReplaceDrift(r) ==
    /\ refresh[r].phase = "computed"
    /\ drift' = Replacement(r)
    /\ refresh' = [refresh EXCEPT ![r] = NoRead]
    /\ UNCHANGED <<posture, beat, flight, gwEnforce, expects>>

\* PUT /policies: Apply stores the policy, then refreshes drift.
ApplyPolicy(r) ==
    /\ r \in Puts
    /\ refresh[r].phase = "idle"
    /\ expects' \in BOOLEAN
    /\ refresh' = [refresh EXCEPT ![r].phase = "applied"]
    /\ UNCHANGED <<posture, beat, flight, gwEnforce, drift>>
-----------------------------------------------------------------------------
(***************************************************************************)
(* A tick passes for everything that has an age. Making a claim takes no   *)
(* time, and a heartbeat arrives within PostLimit or never.                *)
(***************************************************************************)
Aged(e) == IF e = NoEntry \/ e.age = Stale THEN e ELSE [e EXCEPT !.age = @ + 1]

Tick ==
    /\ \A g \in Gateways : beat[g] = NoBeat
    /\ \A m \in flight : m.age < PostLimit
    /\ flight' = {[m EXCEPT !.age = @ + 1] : m \in flight}
    /\ gwEnforce' = [i \in Ids |-> Aged(gwEnforce[i])]
    /\ UNCHANGED <<posture, beat, expects, refresh, drift>>

Next ==
    \/ \E g \in Gateways : DefaultChanges(g)
    \/ \E g \in Gateways : AppsChange(g)
    \/ \E g \in Gateways : BeatReads(g)
    \/ \E g \in Gateways : BeatPosts(g)
    \/ \E g \in Gateways : RestartGateway(g)
    \/ \E m \in flight : BeatLost(m)
    \/ \E m \in flight : BeatTaken(m)
    \/ RestartControlPlane
    \/ \E r \in Refreshers : RefreshReadsPolicy(r)
    \/ \E r \in Refreshers : RefreshReadsBeats(r)
    \/ \E r \in Refreshers : ReplaceDrift(r)
    \/ \E r \in Puts : ApplyPolicy(r)
    \/ Tick

Spec == Init /\ [][Next]_vars

(***************************************************************************)
(* The emitter's goroutine calls RefreshDrift every interval for as long   *)
(* as the process lives, and a PUT runs to its end. Time passes, strongly  *)
(* fair because what its guard waits for takes no time or ends within its  *)
(* timeout: a heartbeat being made is posted, one under way is taken or    *)
(* lost. Nothing is asked of the gateways or of the operator.              *)
(***************************************************************************)
Fairness ==
    /\ SF_vars(Tick)
    /\ WF_vars(\E g \in Gateways : BeatPosts(g))
    /\ WF_vars(\E m \in flight : BeatLost(m) \/ BeatTaken(m))
    /\ \A r \in Refreshers :
          WF_vars(RefreshReadsPolicy(r) \/ RefreshReadsBeats(r) \/ ReplaceDrift(r))
-----------------------------------------------------------------------------
TypeOK ==
    /\ id \in [Gateways -> Ids]
    /\ default \in [Gateways -> BOOLEAN] /\ apps \in [Gateways -> BOOLEAN]
    /\ beat \in [Gateways -> [gates : BOOLEAN] \cup {NoBeat}]
    /\ flight \subseteq [from : Gateways, id : Ids, claims : BOOLEAN, age : 0 .. PostLimit]
    /\ gwEnforce \in [Ids -> [from : Gateways, claims : BOOLEAN, age : 0 .. Stale]
                          \cup {NoEntry}]
    /\ Cardinality(Known) <= MaxEnforce
    /\ expects \in BOOLEAN
    /\ refresh \in [Refreshers -> [phase : {"idle", "applied", "policy", "computed"},
                                   expected : BOOLEAN, view : Drifts \cup {NoView}]]
    /\ drift \in Drifts

(***************************************************************************)
(* Once no gateway's default action gates, the control plane stops         *)
(* counting the capability as enforced, whether the gateways go on sending *)
(* heartbeats, stop or restart.                                            *)
(***************************************************************************)
UnenforcedIsNoticed == <>[](\A g \in Gateways : ~default[g]) => <>[]~Fresh

(***************************************************************************)
(* Drift settles on what the heartbeats say, although each refresh works   *)
(* on what it read and the last to finish wins: enforced for good, there   *)
(* is no record; gone stale for good, there is one, and so there is when   *)
(* the policy in force expects what no heartbeat claims and the process    *)
(* is not for ever restarted.                                              *)
(***************************************************************************)
DriftSettles ==
    /\ <>[]Fresh => <>[](drift = "none")
    /\ <>[](~Fresh /\ EverSeen) => <>[](drift = "stale")
    /\ <>[][~RestartControlPlane]_vars /\ <>[](~EverSeen /\ expects) => <>[](drift = "silent")
=============================================================================
