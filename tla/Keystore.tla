------------------------------ MODULE Keystore ------------------------------
(***************************************************************************)
(* The control plane's keystore: applications, the keys issued to them,    *)
(* the version gateways compare, and the write-through file keys.json.     *)
(* One process; every mutation and its file write happen under the store's *)
(* write lock, so the only thing that can come between the steps of a save *)
(* is the end of the process.                                              *)
(***************************************************************************)
EXTENDS Integers

CONSTANTS
    AppIds,       \* slugs an operator may register
    Kids,         \* key ids crypto/rand may mint
    Baselines,    \* baseline ids a route accepts, the empty one included
    Routes,       \* wire dialects a key may be scoped to
    MaxTime,      \* bound on the clock
    MaxVersion,   \* bound on keysVersion: mutations stop there
    SaveMayFail,  \* whether the disk may refuse a write or a rename
    NoApp, NoKey, NoSnapshot, Torn, Never

Times == 0 .. MaxTime

App == [baseline : Baselines, disabled : BOOLEAN]

\* routes = {} means every route; expires = Never means the key has no expiry.
Key == [app : AppIds, routes : SUBSET Routes,
        expires : Times \cup {Never}, revoked : BOOLEAN]

Snapshot == [version : Nat,
             apps : [AppIds -> App \cup {NoApp}],
             keys : [Kids -> Key \cup {NoKey}]]

ASSUME BoundsAreNatural ==
    /\ MaxTime \in Nat
    /\ MaxVersion \in Nat
    /\ SaveMayFail \in BOOLEAN

\* The placeholders are not values of the kinds they stand in for.
ASSUME PlaceholdersAreDistinct ==
    /\ NoApp \notin App
    /\ NoKey \notin Key
    /\ NoSnapshot \notin Snapshot
    /\ Torn \notin Snapshot
    /\ Torn # NoSnapshot
    /\ Never \notin Times

VARIABLES
    up,          \* the control-plane process is serving
    apps, keys,  \* the store's maps
    version,     \* keysVersion
    persistErr,  \* keysPersistErr is non-nil
    saving,      \* where the holder of the write lock is in its save
    tmp, file,   \* keys.json.tmp and keys.json on disk
    now,         \* wall clock
    issued,      \* history: every key as it was issued
    acked,       \* history: revocations answered while no error was reported
    forked       \* history: a process ended with an unwritten mutation

storeVars == <<up, apps, keys, version, persistErr, saving>>
diskVars  == <<tmp, file>>
histVars  == <<issued, acked, forked>>
keystoreVars == <<storeVars, diskVars, now, histVars>>

EmptySnapshot == [version |-> 0,
                  apps |-> [a \in AppIds |-> NoApp],
                  keys |-> [k \in Kids |-> NoKey]]

MemSnapshot == [version |-> version, apps |-> apps, keys |-> keys]

\* What a boot would load: a missing file is the first boot, not a failure.
FileSnapshot == IF file = NoSnapshot THEN EmptySnapshot ELSE file

\* Fault: the edge trusts the snapshot to leave expired keys out.
ActiveUnlessRevoked(key, t) == ~key.revoked

Active(key, t) == ~key.revoked /\ (key.expires \in Times => t < key.expires)

AllowsRoute(key, route) == key.routes = {} \/ route \in key.routes

\* The lock is free and the process is there to take it.
Unlocked == up /\ saving = "idle"
-----------------------------------------------------------------------------
KeystoreInit ==
    /\ up = FALSE
    /\ apps = EmptySnapshot.apps
    /\ keys = EmptySnapshot.keys
    /\ version = 0
    /\ persistErr = FALSE
    /\ saving = "idle"
    /\ tmp = NoSnapshot
    /\ file = NoSnapshot
    /\ now = 0
    /\ issued = EmptySnapshot.keys
    /\ acked = {}
    /\ forked = FALSE

\* Fault: keys.json written in place, without the temp file.
BumpInPlace ==
    /\ version < MaxVersion
    /\ version' = version + 1
    /\ saving' = "writing"
    /\ file' = Torn
    /\ UNCHANGED <<up, persistErr, tmp, now, acked, forked>>

\* The version advances in memory first; the save then truncates the temp file.
BumpKeysLocked ==
    /\ version < MaxVersion
    /\ version' = version + 1
    /\ saving' = "writing"
    /\ tmp' = Torn
    /\ UNCHANGED <<up, persistErr, file, now, acked, forked>>

CreateApp(a, b) ==
    /\ Unlocked
    /\ apps[a] = NoApp
    /\ apps' = [apps EXCEPT ![a] = [baseline |-> b, disabled |-> FALSE]]
    /\ BumpKeysLocked
    /\ UNCHANGED <<keys, issued>>

\* A field the patch leaves nil is the same value again; the bump happens anyway.
UpdateApp(a, b, d) ==
    /\ Unlocked
    /\ apps[a] # NoApp
    /\ apps' = [apps EXCEPT ![a] = [baseline |-> b, disabled |-> d]]
    /\ BumpKeysLocked
    /\ UNCHANGED <<keys, issued>>

IssueKey(k, a, r, e) ==
    LET key == [app |-> a, routes |-> r, expires |-> e, revoked |-> FALSE] IN
    /\ Unlocked
    /\ apps[a] # NoApp
    /\ issued[k] = NoKey                       \* key ids are never minted twice
    /\ e \in Times => now < e
    /\ keys' = [keys EXCEPT ![k] = key]
    /\ issued' = [issued EXCEPT ![k] = key]
    /\ BumpKeysLocked
    /\ UNCHANGED apps

\* A tombstone, not a deletion. Revoking again answers without a bump.
RevokeKey(k) ==
    /\ Unlocked
    /\ keys[k] # NoKey
    /\ ~keys[k].revoked
    /\ keys' = [keys EXCEPT ![k] = [keys[k] EXCEPT !.revoked = TRUE]]
    /\ BumpKeysLocked
    /\ UNCHANGED <<apps, issued>>
-----------------------------------------------------------------------------
\* Fault: a save that leaves the tombstones out.
WriteUsableOnly ==
    /\ saving = "writing"
    /\ tmp' = [MemSnapshot EXCEPT !.keys =
                 [k \in Kids |-> IF keys[k] # NoKey /\ ~keys[k].revoked
                                 THEN keys[k] ELSE NoKey]]
    /\ saving' = "renaming"
    /\ UNCHANGED <<up, apps, keys, version, persistErr, file, now, histVars>>

WriteTmp ==
    /\ saving = "writing"
    /\ tmp' = MemSnapshot
    /\ saving' = "renaming"
    /\ UNCHANGED <<up, apps, keys, version, persistErr, file, now, histVars>>

\* Fault: the error of a failed save is dropped.
SaveFailsSilently ==
    /\ SaveMayFail
    /\ saving \in {"writing", "renaming"}
    /\ saving' = "idle"
    /\ UNCHANGED <<up, apps, keys, version, persistErr, diskVars, now, histVars>>

\* The mutation stands in memory; only the error remembers the disk refused it.
SaveFails ==
    /\ SaveMayFail
    /\ saving \in {"writing", "renaming"}
    /\ persistErr' = TRUE
    /\ saving' = "idle"
    /\ UNCHANGED <<up, apps, keys, version, diskVars, now, histVars>>

\* The rename, the error cleared, the lock released and the call answered.
CommitSave ==
    /\ saving = "renaming"
    /\ file' = tmp
    /\ tmp' = NoSnapshot
    /\ persistErr' = FALSE
    /\ saving' = "idle"
    /\ acked' = acked \cup {k \in Kids : keys[k] # NoKey /\ keys[k].revoked}
    /\ UNCHANGED <<up, apps, keys, version, now, issued, forked>>

\* The process ends at any point; memory goes, the two files stay as they are.
Crash ==
    /\ up
    /\ up' = FALSE
    /\ apps' = EmptySnapshot.apps
    /\ keys' = EmptySnapshot.keys
    /\ version' = 0
    /\ persistErr' = FALSE
    /\ saving' = "idle"
    /\ forked' = (forked \/ persistErr)
    /\ UNCHANGED <<diskVars, now, issued, acked>>

\* Fault: a boot that drops the keys it finds revoked.
BootPruningTombstones ==
    /\ ~up
    /\ file # Torn
    /\ up' = TRUE
    /\ apps' = FileSnapshot.apps
    /\ keys' = [k \in Kids |-> IF FileSnapshot.keys[k] = NoKey THEN NoKey
                               ELSE IF FileSnapshot.keys[k].revoked THEN NoKey
                               ELSE FileSnapshot.keys[k]]
    /\ version' = FileSnapshot.version
    /\ UNCHANGED <<persistErr, saving, diskVars, now, histVars>>

\* EnableKeystorePersistence: a file that does not parse is fatal, so the
\* process never comes up on one.
Boot ==
    /\ ~up
    /\ file # Torn
    /\ up' = TRUE
    /\ apps' = FileSnapshot.apps
    /\ keys' = FileSnapshot.keys
    /\ version' = FileSnapshot.version
    /\ UNCHANGED <<persistErr, saving, diskVars, now, histVars>>

Tick ==
    /\ now < MaxTime
    /\ now' = now + 1
    /\ UNCHANGED <<storeVars, diskVars, histVars>>

KeystoreNext ==
    \/ \E a \in AppIds, b \in Baselines : CreateApp(a, b)
    \/ \E a \in AppIds, b \in Baselines, d \in BOOLEAN : UpdateApp(a, b, d)
    \/ \E k \in Kids, a \in AppIds, r \in SUBSET Routes,
          e \in Times \cup {Never} : IssueKey(k, a, r, e)
    \/ \E k \in Kids : RevokeKey(k)
    \/ WriteTmp
    \/ SaveFails
    \/ CommitSave
    \/ Crash
    \/ Boot
    \/ Tick

KeystoreSpec == KeystoreInit /\ [][KeystoreNext]_keystoreVars
-----------------------------------------------------------------------------
\* Types, and the few facts that hold by the shape of the process: a process
\* that is down holds no state and no lock.
KeystoreTypeOK ==
    /\ up \in BOOLEAN
    /\ MemSnapshot \in Snapshot
    /\ persistErr \in BOOLEAN
    /\ saving \in {"idle", "writing", "renaming"}
    /\ tmp \in Snapshot \cup {NoSnapshot, Torn}
    /\ file \in Snapshot \cup {NoSnapshot, Torn}
    /\ now \in Times
    /\ issued \in [Kids -> Key \cup {NoKey}]
    /\ acked \in SUBSET Kids
    /\ forked \in BOOLEAN
    /\ ~up => saving = "idle" /\ ~persistErr

(***************************************************************************)
(* A boot never meets a half-written keys.json, wherever the previous      *)
(* process stopped: keystore_persist.go makes a corrupt file fatal and     *)
(* relies on temp file + rename never to produce one. KeystorePersistError *)
(* nil means the keystore is durable: while the lock is free and no error  *)
(* is reported, a boot would load what is in memory.                       *)
(***************************************************************************)
NilErrorMeansDurable ==
    /\ file # Torn
    /\ Unlocked /\ ~persistErr => FileSnapshot = MemSnapshot

(***************************************************************************)
(* A revocation answered while no persist error was reported is in force   *)
(* in every later process, however many crashes and failed saves follow.   *)
(* The key is still there, as a tombstone: RevokeKey keeps the record so   *)
(* that an old report still resolves to a name.                            *)
(***************************************************************************)
AckedRevocationSurvives ==
    \A k \in acked : up => keys[k] # NoKey /\ keys[k].revoked

(***************************************************************************)
(* The store, its temp file and its rename implement DurableKeys: nothing  *)
(* of the version counter, of the save's steps or of a failed save shows.  *)
(***************************************************************************)
Stage(key) == CASE key = NoKey -> "absent"
                [] key # NoKey /\ ~key.revoked -> "usable"
                [] key # NoKey /\ key.revoked -> "revoked"

StagesOf(s) == [k \in Kids |-> Stage(s.keys[k])]

Abstract == INSTANCE DurableKeys WITH
                live <- StagesOf(IF up THEN MemSnapshot ELSE FileSnapshot),
                durable <- StagesOf(FileSnapshot)

ImplementsDurableKeys == Abstract!Spec
=============================================================================
