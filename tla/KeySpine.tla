------------------------------ MODULE KeySpine ------------------------------
(***************************************************************************)
(* Gateways pulling the keystore snapshot and authenticating against it.   *)
(* A pull is one goroutine per gateway: it asks, the control plane answers *)
(* from memory under its read lock, and the answer is installed only when  *)
(* its version differs from the installed one. Any pull may fail, leaving  *)
(* the previous snapshot in place.                                         *)
(***************************************************************************)
EXTENDS Keystore

CONSTANTS Gateways

VARIABLES
    pull,     \* per gateway: "idle", "asked" or "answered"
    answer,   \* per gateway: the snapshot an answered pull carries
    snap,     \* per gateway: the installed snapshot, NoSnapshot before the first
    vouched   \* history, per gateway: the revocations acknowledged when the
              \* control plane built the answer

gatewayVars == <<pull, answer, snap, vouched>>
vars == <<keystoreVars, gatewayVars>>

Init ==
    /\ KeystoreInit
    /\ pull = [g \in Gateways |-> "idle"]
    /\ answer = [g \in Gateways |-> NoSnapshot]
    /\ snap = [g \in Gateways |-> NoSnapshot]
    /\ vouched = [g \in Gateways |-> {}]

AskKeys(g) ==
    /\ pull[g] = "idle"
    /\ pull' = [pull EXCEPT ![g] = "asked"]
    /\ UNCHANGED <<keystoreVars, answer, snap, vouched>>

\* Fault: the handler reads the store without waiting for its lock.
ServeKeysUnlocked(g) ==
    /\ pull[g] = "asked"
    /\ up
    /\ pull' = [pull EXCEPT ![g] = "answered"]
    /\ answer' = [answer EXCEPT ![g] = MemSnapshot]
    /\ vouched' = [vouched EXCEPT ![g] = acked]
    /\ UNCHANGED <<keystoreVars, snap>>

\* handleGatewayKeys: the snapshot is taken under the read lock, so never in
\* the middle of a save.
ServeKeys(g) ==
    /\ pull[g] = "asked"
    /\ Unlocked
    /\ pull' = [pull EXCEPT ![g] = "answered"]
    /\ answer' = [answer EXCEPT ![g] = MemSnapshot]
    /\ vouched' = [vouched EXCEPT ![g] = acked]
    /\ UNCHANGED <<keystoreVars, snap>>

\* Unreachable, timed out or refused: the previous snapshot stays.
PullFails(g) ==
    /\ pull[g] # "idle"
    /\ pull' = [pull EXCEPT ![g] = "idle"]
    /\ answer' = [answer EXCEPT ![g] = NoSnapshot]
    /\ vouched' = [vouched EXCEPT ![g] = {}]
    /\ UNCHANGED <<keystoreVars, snap>>

\* Fault: only the first snapshot is ever new.
HasSnapshot(g) == snap[g] # NoSnapshot

SameVersion(g) == snap[g] # NoSnapshot /\ snap[g].version = answer[g].version

InstallKeys(g) ==
    /\ pull[g] = "answered"
    /\ snap' = IF SameVersion(g) THEN snap ELSE [snap EXCEPT ![g] = answer[g]]
    /\ pull' = [pull EXCEPT ![g] = "idle"]
    /\ answer' = [answer EXCEPT ![g] = NoSnapshot]
    /\ vouched' = [vouched EXCEPT ![g] = {}]
    /\ UNCHANGED keystoreVars

RestartGateway(g) ==
    /\ snap[g] # NoSnapshot
    /\ pull' = [pull EXCEPT ![g] = "idle"]
    /\ answer' = [answer EXCEPT ![g] = NoSnapshot]
    /\ vouched' = [vouched EXCEPT ![g] = {}]
    /\ snap' = [snap EXCEPT ![g] = NoSnapshot]
    /\ UNCHANGED keystoreVars

Next ==
    \/ KeystoreNext /\ UNCHANGED gatewayVars
    \/ \E g \in Gateways : AskKeys(g)
    \/ \E g \in Gateways : ServeKeys(g)
    \/ \E g \in Gateways : PullFails(g)
    \/ \E g \in Gateways : InstallKeys(g)
    \/ \E g \in Gateways : RestartGateway(g)

Spec == Init /\ [][Next]_vars

(***************************************************************************)
(* The pull loop re-arms its timer after every attempt, the process        *)
(* manager restarts a stopped control plane and a held lock is released.   *)
(* Nothing bounds how often the control plane stops or a pull fails; what  *)
(* is assumed is that neither keeps step with the gateway's timer: a       *)
(* gateway that could ask, be served or install again and again does.      *)
(***************************************************************************)
Fairness ==
    /\ WF_vars(Boot /\ UNCHANGED gatewayVars)
    /\ WF_vars((WriteTmp \/ SaveFails \/ CommitSave) /\ UNCHANGED gatewayVars)
    /\ \A g \in Gateways :
        /\ WF_vars(AskKeys(g))
        /\ SF_vars(AskKeys(g) /\ Unlocked)
        /\ SF_vars(ServeKeys(g))
        /\ SF_vars(InstallKeys(g))

FairSpec == Spec /\ Fairness
-----------------------------------------------------------------------------
(***************************************************************************)
(* authenticateKeystore, for a caller that holds the genuine secret.       *)
(***************************************************************************)
Accepts(g, k, route) ==
    /\ snap[g] # NoSnapshot
    /\ LET key == snap[g].keys[k] IN
        /\ key # NoKey
        /\ Active(key, now)
        /\ AllowsRoute(key, route)
        /\ snap[g].apps[key.app] # NoApp
        /\ ~snap[g].apps[key.app].disabled

TypeOK ==
    /\ KeystoreTypeOK
    /\ pull \in [Gateways -> {"idle", "asked", "answered"}]
    /\ answer \in [Gateways -> Snapshot \cup {NoSnapshot}]
    /\ snap \in [Gateways -> Snapshot \cup {NoSnapshot}]
    /\ vouched \in [Gateways -> SUBSET Kids]
    /\ \A g \in Gateways : pull[g] = "answered" <=> answer[g] # NoSnapshot

(***************************************************************************)
(* What the version compare of pullKeys rests on: a gateway whose version  *)
(* is the control plane's has the control plane's content, so skipping the *)
(* swap skips nothing. It holds until a process ends with a mutation the   *)
(* disk refused; the next process then counts the same versions again.     *)
(***************************************************************************)
VersionNamesContent ==
    \A g \in Gateways :
        (Unlocked /\ ~forked /\ snap[g] # NoSnapshot /\ snap[g].version = version)
            => snap[g] = MemSnapshot

(***************************************************************************)
(* Expiry is enforced at the edge: no gateway, however stale its snapshot, *)
(* accepts a key past the expiry it was issued with or outside its scope.  *)
(***************************************************************************)
ExpiryNeedsNoPull ==
    \A g \in Gateways, k \in Kids, r \in Routes :
        Accepts(g, k, r) =>
            /\ issued[k] # NoKey
            /\ issued[k].expires \in Times => now < issued[k].expires
            /\ AllowsRoute(issued[k], r)

(***************************************************************************)
(* A key a gateway has learned to be revoked stays revoked there, across   *)
(* later pulls, crashes of the control plane and answers already in        *)
(* flight, with two exceptions. A gateway that restarts forgets, and then  *)
(* accepts no key at all. And once a process has ended with a mutation the *)
(* disk refused (forked), the next one boots from the older file: a        *)
(* revocation that was served but never saved is gone from it, and the     *)
(* next pull takes the tombstone away again. Even then no pull takes away  *)
(* a revocation that was on disk when the answer it installs was built.    *)
(***************************************************************************)
Tombstoned(s, k) == s # NoSnapshot /\ s.keys[k] # NoKey /\ s.keys[k].revoked

Unlearned(g, k) == Tombstoned(snap[g], k) /\ snap'[g] # NoSnapshot /\ ~Tombstoned(snap'[g], k)

RefusalIsFinal ==
    [][\A g \in Gateways, k \in Kids :
          Unlearned(g, k) => forked /\ k \notin vouched[g]]_vars

(***************************************************************************)
(* A revocation that reached the disk is eventually refused by every       *)
(* gateway on every route, whatever saves failed before and after it, as   *)
(* long as no process ended with a mutation the disk had refused.          *)
(***************************************************************************)
RevocationReachesUnforked ==
    \A g \in Gateways, k \in Kids :
        (Tombstoned(FileSnapshot, k) /\ ~forked)
            ~> (forked \/ \A r \in Routes : ~Accepts(g, k, r))

(***************************************************************************)
(* SECURITY.md: a revoked keystore key stops working within one pull       *)
(* interval. The same without the exception: what the documentation says.  *)
(***************************************************************************)
RevocationReachesGateways ==
    \A g \in Gateways, k \in Kids, r \in Routes :
        Tombstoned(FileSnapshot, k) ~> ~Accepts(g, k, r)
=============================================================================
