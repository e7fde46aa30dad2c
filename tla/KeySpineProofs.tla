--------------------------- MODULE KeySpineProofs ---------------------------
(***************************************************************************)
(* The keystore and its gateways, for every number of apps, keys and       *)
(* gateways. TypeOK is inductive by itself; the safety properties follow   *)
(* from IInv, whose parts say                                              *)
(*   - which of the store's two files may be loaded, and what it holds,    *)
(*   - that a record never changes but for its tombstone,                  *)
(*   - that acknowledged revocations are on disk and those in memory,       *)
(*   - and, while no process has ended with an unwritten mutation, that    *)
(*     every snapshot a gateway holds or is about to install is an earlier *)
(*     state of the keystore, one that a crash cannot undo.                *)
(***************************************************************************)
EXTENDS KeySpine, TLAPS

\* s is t, or an older state of the same history.
Below(s, t) ==
    /\ s.version <= t.version
    /\ s.version = t.version => s = t
    /\ \A k \in Kids : Tombstoned(s, k) => Tombstoned(t, k)

Held(g) == {snap[g], answer[g]} \ {NoSnapshot}

\* Every record of s is one of those issued, perhaps with a tombstone.
Genuine(s, records) ==
    \A k \in Kids : s.keys[k] # NoKey =>
        /\ records[k] # NoKey
        /\ s.keys[k].expires = records[k].expires
        /\ s.keys[k].routes = records[k].routes

FileInv ==
    /\ file # Torn
    /\ saving = "renaming" => tmp = MemSnapshot
    /\ up /\ ~persistErr /\ saving = "idle" => FileSnapshot = MemSnapshot
    /\ up /\ ~persistErr /\ saving # "idle" => FileSnapshot.version < version

GenuineInv ==
    /\ Genuine(MemSnapshot, issued)
    /\ Genuine(FileSnapshot, issued)
    /\ \A g \in Gateways : \A s \in Held(g) : Genuine(s, issued)

AckedInv ==
    /\ \A k \in acked : Tombstoned(FileSnapshot, k)
    /\ up => \A k \in Kids : Tombstoned(FileSnapshot, k) => Tombstoned(MemSnapshot, k)

\* What a circulating snapshot is below, while no mutation has been lost.
HistoryInv ==
    ~forked =>
        /\ \A g \in Gateways : \A s \in Held(g) :
            /\ up => Below(s, MemSnapshot)
            /\ saving # "idle" => s.version < version
            /\ ~persistErr => Below(s, FileSnapshot)
        /\ \A g \in Gateways : snap[g] # NoSnapshot /\ answer[g] # NoSnapshot
                                => Below(snap[g], answer[g])

IInv == TypeOK /\ FileInv /\ GenuineInv /\ AckedInv /\ HistoryInv
-----------------------------------------------------------------------------
(***************************************************************************)
(* Type correctness.                                                       *)
(***************************************************************************)
LEMMA EmptySnapshotType == EmptySnapshot \in Snapshot
  BY DEF EmptySnapshot, Snapshot

LEMMA FileSnapshotType ==
  ASSUME KeystoreTypeOK, file # Torn
  PROVE  FileSnapshot \in Snapshot
  BY EmptySnapshotType DEF KeystoreTypeOK, FileSnapshot

\* What the four mutations share: the version, the lock and the temp file.
LEMMA BumpType ==
  ASSUME KeystoreTypeOK, Unlocked, BumpKeysLocked,
         apps' \in [AppIds -> App \cup {NoApp}],
         keys' \in [Kids -> Key \cup {NoKey}],
         issued' \in [Kids -> Key \cup {NoKey}]
  PROVE  KeystoreTypeOK'
  <1>1. MemSnapshot' \in Snapshot
    BY DEF KeystoreTypeOK, BumpKeysLocked, MemSnapshot, Snapshot
  <1> QED
    BY <1>1 DEF KeystoreTypeOK, Unlocked, BumpKeysLocked

LEMMA StoreParts ==
  ASSUME KeystoreTypeOK
  PROVE  /\ version \in Nat
         /\ apps \in [AppIds -> App \cup {NoApp}]
         /\ keys \in [Kids -> Key \cup {NoKey}]
  BY DEF KeystoreTypeOK, MemSnapshot, Snapshot

LEMMA KeystoreTypeStep ==
  ASSUME KeystoreTypeOK, KeystoreNext
  PROVE  KeystoreTypeOK'
  <1> USE StoreParts
  <1>1. ASSUME NEW a \in AppIds, NEW b \in Baselines, CreateApp(a, b)
        PROVE  KeystoreTypeOK'
    <2>1. [baseline |-> b, disabled |-> FALSE] \in App
      BY DEF App
    <2>2. apps' \in [AppIds -> App \cup {NoApp}]
      BY <1>1, <2>1 DEF CreateApp
    <2> QED
      BY <1>1, <2>2, BumpType DEF CreateApp, KeystoreTypeOK
  <1>2. ASSUME NEW a \in AppIds, NEW b \in Baselines, NEW d \in BOOLEAN,
               UpdateApp(a, b, d)
        PROVE  KeystoreTypeOK'
    <2>1. [baseline |-> b, disabled |-> d] \in App
      BY DEF App
    <2>2. apps' \in [AppIds -> App \cup {NoApp}]
      BY <1>2, <2>1 DEF UpdateApp
    <2> QED
      BY <1>2, <2>2, BumpType DEF UpdateApp, KeystoreTypeOK
  <1>3. ASSUME NEW k \in Kids, NEW a \in AppIds, NEW r \in SUBSET Routes,
               NEW e \in Times \cup {Never}, IssueKey(k, a, r, e)
        PROVE  KeystoreTypeOK'
    <2>1. [app |-> a, routes |-> r, expires |-> e, revoked |-> FALSE] \in Key
      BY DEF Key
    <2>2. /\ keys' \in [Kids -> Key \cup {NoKey}]
          /\ issued' \in [Kids -> Key \cup {NoKey}]
      BY <1>3, <2>1 DEF IssueKey, KeystoreTypeOK
    <2> QED
      BY <1>3, <2>2, BumpType DEF IssueKey, KeystoreTypeOK
  <1>4. ASSUME NEW k \in Kids, RevokeKey(k)
        PROVE  KeystoreTypeOK'
    <2>1. keys[k] \in Key
      BY <1>4 DEF RevokeKey
    <2>2. [keys[k] EXCEPT !.revoked = TRUE] \in Key
      BY <2>1 DEF Key
    <2>3. keys' \in [Kids -> Key \cup {NoKey}]
      BY <1>4, <2>2 DEF RevokeKey
    <2> QED
      BY <1>4, <2>3, BumpType DEF RevokeKey, KeystoreTypeOK
  <1>5. CASE WriteTmp
    BY <1>5 DEF WriteTmp, KeystoreTypeOK, MemSnapshot, histVars
  <1>6. CASE SaveFails
    BY <1>6 DEF SaveFails, KeystoreTypeOK, MemSnapshot, histVars, diskVars
  <1>7. CASE CommitSave
    <2>1. acked' \in SUBSET Kids
      BY <1>7 DEF CommitSave, KeystoreTypeOK
    <2> QED
      BY <1>7, <2>1 DEF CommitSave, KeystoreTypeOK, MemSnapshot
  <1>8. CASE Crash
    <2>1. MemSnapshot' = EmptySnapshot
      BY <1>8 DEF Crash, MemSnapshot, EmptySnapshot
    <2> QED
      BY <1>8, <2>1, EmptySnapshotType DEF Crash, KeystoreTypeOK, diskVars
  <1>9. CASE Boot
    <2>1. FileSnapshot \in Snapshot
      BY <1>9, FileSnapshotType DEF Boot
    <2>2. MemSnapshot' = FileSnapshot
      BY <1>9, <2>1 DEF Boot, MemSnapshot, Snapshot
    <2> QED
      BY <1>9, <2>1, <2>2 DEF Boot, KeystoreTypeOK, diskVars, histVars
  <1>10. CASE Tick
    <2>1. now' \in Times
      BY <1>10, BoundsAreNatural DEF Tick, KeystoreTypeOK, Times
    <2> QED
      BY <1>10, <2>1
      DEF Tick, KeystoreTypeOK, MemSnapshot, storeVars, diskVars, histVars
  <1> QED
    BY <1>1, <1>2, <1>3, <1>4, <1>5, <1>6, <1>7, <1>8, <1>9, <1>10
    DEF KeystoreNext

LEMMA KeystoreTypeFrame ==
  ASSUME KeystoreTypeOK, UNCHANGED keystoreVars
  PROVE  KeystoreTypeOK'
  BY DEF KeystoreTypeOK, keystoreVars, storeVars, diskVars, histVars, MemSnapshot

LEMMA InitType == Init => TypeOK
  <1> SUFFICES ASSUME Init PROVE TypeOK
    OBVIOUS
  <1>1. MemSnapshot \in Snapshot /\ issued \in [Kids -> Key \cup {NoKey}]
    <2>1. MemSnapshot = EmptySnapshot
      BY DEF Init, KeystoreInit, MemSnapshot, EmptySnapshot
    <2>2. issued = [k \in Kids |-> NoKey]
      BY DEF Init, KeystoreInit, EmptySnapshot
    <2> QED
      BY <2>1, <2>2, EmptySnapshotType
  <1>2. now \in Times
    BY BoundsAreNatural DEF Init, KeystoreInit, Times
  <1>3. KeystoreTypeOK
    BY <1>1, <1>2 DEF Init, KeystoreInit, KeystoreTypeOK
  <1> QED
    BY <1>3 DEF Init, TypeOK

LEMMA TypeStep == TypeOK /\ [Next]_vars => TypeOK'
  <1> SUFFICES ASSUME TypeOK, [Next]_vars PROVE TypeOK'
    OBVIOUS
  <1>1. CASE KeystoreNext /\ UNCHANGED gatewayVars
    BY <1>1, KeystoreTypeStep DEF TypeOK, gatewayVars
  <1>2. ASSUME NEW g \in Gateways, AskKeys(g)
        PROVE  TypeOK'
    BY <1>2, KeystoreTypeFrame DEF AskKeys, TypeOK
  <1>3. ASSUME NEW g \in Gateways, ServeKeys(g)
        PROVE  TypeOK'
    <2>1. MemSnapshot \in Snapshot /\ MemSnapshot # NoSnapshot /\ acked \in SUBSET Kids
      BY PlaceholdersAreDistinct DEF TypeOK, KeystoreTypeOK
    <2> QED
      BY <1>3, <2>1, KeystoreTypeFrame DEF ServeKeys, TypeOK
  <1>4. ASSUME NEW g \in Gateways, PullFails(g)
        PROVE  TypeOK'
    BY <1>4, KeystoreTypeFrame DEF PullFails, TypeOK
  <1>5. ASSUME NEW g \in Gateways, InstallKeys(g)
        PROVE  TypeOK'
    BY <1>5, KeystoreTypeFrame DEF InstallKeys, TypeOK
  <1>6. ASSUME NEW g \in Gateways, RestartGateway(g)
        PROVE  TypeOK'
    BY <1>6, KeystoreTypeFrame DEF RestartGateway, TypeOK
  <1>7. CASE UNCHANGED vars
    BY <1>7, KeystoreTypeFrame DEF vars, gatewayVars, TypeOK
  <1> QED
    BY <1>1, <1>2, <1>3, <1>4, <1>5, <1>6, <1>7 DEF Next

\* Every variable of the key spine keeps its type in every behaviour.
THEOREM TypeCorrect == Spec => []TypeOK
  BY InitType, TypeStep, PTL DEF Spec
-----------------------------------------------------------------------------
(***************************************************************************)
(* The inductive invariant: facts the steps share.                         *)
(***************************************************************************)
LEMMA MemSnapshotParts ==
  /\ MemSnapshot.version = version
  /\ MemSnapshot.apps = apps
  /\ MemSnapshot.keys = keys
  BY DEF MemSnapshot

LEMMA EmptySnapshotParts ==
  /\ EmptySnapshot.version = 0
  /\ EmptySnapshot.keys = [k \in Kids |-> NoKey]
  BY DEF EmptySnapshot

LEMMA HeldType ==
  ASSUME TypeOK, NEW g \in Gateways, NEW s \in Held(g)
  PROVE  s \in Snapshot /\ s.version \in Nat
  BY DEF TypeOK, Held, Snapshot

LEMMA TypesOfTypeOK ==
  ASSUME TypeOK, FileInv
  PROVE  /\ KeystoreTypeOK
         /\ MemSnapshot \in Snapshot /\ MemSnapshot # NoSnapshot
         /\ FileSnapshot \in Snapshot /\ FileSnapshot # NoSnapshot
         /\ version \in Nat /\ FileSnapshot.version \in Nat
  BY FileSnapshotType, StoreParts, PlaceholdersAreDistinct
  DEF TypeOK, KeystoreTypeOK, FileInv, Snapshot

LEMMA BelowItself ==
  ASSUME NEW s \in Snapshot
  PROVE  Below(s, s)
  BY DEF Below, Snapshot

\* One more version, with no tombstone lifted, is above everything before it.
LEMMA BelowLater ==
  ASSUME NEW s \in Snapshot, NEW t \in Snapshot, NEW u \in Snapshot,
         Below(s, t), u.version = t.version + 1,
         \A k \in Kids : Tombstoned(t, k) => Tombstoned(u, k)
  PROVE  Below(s, u) /\ s.version < u.version
  BY DEF Below, Snapshot

LEMMA GenuineKept ==
  ASSUME NEW s, NEW old, NEW new, Genuine(s, old),
         \A k \in Kids : old[k] # NoKey => new[k] = old[k]
  PROVE  Genuine(s, new)
  BY DEF Genuine

\* A mutation: the version advances, no tombstone is lifted, no record changes.
LEMMA MutationStep ==
  ASSUME IInv, TypeOK', Unlocked, BumpKeysLocked, UNCHANGED gatewayVars,
         \A k \in Kids : Tombstoned(MemSnapshot, k) => Tombstoned(MemSnapshot', k),
         \A k \in Kids : issued[k] # NoKey => issued'[k] = issued[k],
         Genuine(MemSnapshot', issued')
  PROVE  IInv'
  <1> USE DEF IInv
  <1>1. /\ FileSnapshot' = FileSnapshot
        /\ \A g \in Gateways : Held(g)' = Held(g)
    BY DEF BumpKeysLocked, FileSnapshot, Held, gatewayVars, EmptySnapshot
  <1>2. /\ MemSnapshot \in Snapshot /\ FileSnapshot \in Snapshot
        /\ MemSnapshot' \in Snapshot
        /\ version \in Nat /\ FileSnapshot.version \in Nat
        /\ MemSnapshot.version = version
        /\ MemSnapshot'.version = version'
        /\ version' = version + 1
    BY TypesOfTypeOK, MemSnapshotParts DEF BumpKeysLocked, TypeOK, KeystoreTypeOK, MemSnapshot
  <1>3. FileInv'
    <2>1. ~persistErr' => FileSnapshot = MemSnapshot
      BY DEF FileInv, Unlocked, BumpKeysLocked
    <2> QED
      BY <1>1, <1>2, <2>1 DEF FileInv, BumpKeysLocked
  <1>4. GenuineInv'
    BY <1>1, GenuineKept DEF GenuineInv
  <1>5. AckedInv'
    BY <1>1 DEF AckedInv, BumpKeysLocked, Unlocked
  <1>6. HistoryInv'
    <2> SUFFICES ASSUME ~forked
                 PROVE  /\ \A g \in Gateways : \A s \in Held(g) :
                            /\ Below(s, MemSnapshot')
                            /\ s.version < version'
                            /\ ~persistErr' => Below(s, FileSnapshot)
                        /\ \A g \in Gateways :
                             snap[g] # NoSnapshot /\ answer[g] # NoSnapshot
                               => Below(snap[g], answer[g])
      BY <1>1 DEF HistoryInv, BumpKeysLocked, gatewayVars
    <2>1. ASSUME NEW g \in Gateways, NEW s \in Held(g)
          PROVE  Below(s, MemSnapshot') /\ s.version < version'
      <3>1. s \in Snapshot
        BY HeldType
      <3>2. Below(s, MemSnapshot)
        BY DEF HistoryInv, Unlocked
      <3> QED
        BY <1>2, <3>1, <3>2, BelowLater
    <2> QED
      BY <2>1 DEF HistoryInv, BumpKeysLocked
  <1> QED
    BY <1>3, <1>4, <1>5, <1>6

\* The steps of a save, the clock and the two ends of a process.
LEMMA ProcessStep ==
  ASSUME IInv, TypeOK', UNCHANGED gatewayVars,
         WriteTmp \/ SaveFails \/ CommitSave \/ Crash \/ Boot \/ Tick
  PROVE  IInv'
  <1> USE DEF IInv
  <1>1. \A g \in Gateways : Held(g)' = Held(g)
    BY DEF Held, gatewayVars
  <1>2. /\ MemSnapshot \in Snapshot /\ FileSnapshot \in Snapshot
        /\ version \in Nat /\ FileSnapshot.version \in Nat
        /\ MemSnapshot.version = version /\ MemSnapshot.keys = keys
    BY TypesOfTypeOK, MemSnapshotParts
  <1>3. issued' = issued
    BY DEF WriteTmp, SaveFails, CommitSave, Crash, Boot, Tick, histVars
  <1>4. CASE WriteTmp \/ SaveFails \/ Tick
    <2>1. /\ FileSnapshot' = FileSnapshot /\ MemSnapshot' = MemSnapshot
          /\ UNCHANGED <<up, version, file, acked, forked>>
      BY <1>4 DEF WriteTmp, SaveFails, Tick, FileSnapshot, MemSnapshot,
                  EmptySnapshot, diskVars, histVars, storeVars
    <2>2. /\ persistErr => persistErr'
          /\ saving' # "idle" => saving # "idle"
          /\ saving' = "idle" => saving = "idle" \/ persistErr'
          /\ saving' = "renaming" => (saving = "renaming" /\ tmp' = tmp) \/ tmp' = MemSnapshot
      BY <1>4 DEF WriteTmp, SaveFails, Tick, diskVars, storeVars
    <2>3. FileInv'
      BY <2>1, <2>2 DEF FileInv
    <2>4. GenuineInv'
      BY <1>1, <1>3, <2>1 DEF GenuineInv
    <2>5. AckedInv'
      BY <2>1 DEF AckedInv
    <2>6. HistoryInv'
      BY <1>1, <2>1, <2>2 DEF HistoryInv, gatewayVars
    <2> QED
      BY <2>3, <2>4, <2>5, <2>6
  <1>5. CASE CommitSave
    <2>1. /\ MemSnapshot' = MemSnapshot /\ file' = MemSnapshot
          /\ UNCHANGED <<up, version, forked>>
          /\ saving' = "idle" /\ ~persistErr'
      BY <1>5 DEF CommitSave, FileInv, MemSnapshot
    <2>2. FileSnapshot' = MemSnapshot
      BY <2>1, TypesOfTypeOK DEF FileSnapshot
    <2>3. up
      BY <1>5 DEF CommitSave, TypeOK, KeystoreTypeOK
    <2>4. FileInv'
      BY <2>1, <2>2, <1>2, PlaceholdersAreDistinct DEF FileInv
    <2>5. GenuineInv'
      BY <1>1, <1>3, <2>1, <2>2 DEF GenuineInv
    <2>6. AckedInv'
      <3> SUFFICES ASSUME NEW k \in acked'
                   PROVE  Tombstoned(MemSnapshot, k)
        BY <2>1, <2>2 DEF AckedInv
      <3>1. CASE k \in acked
        BY <2>3, <3>1 DEF AckedInv, TypeOK, KeystoreTypeOK
      <3>2. CASE keys[k] # NoKey /\ keys[k].revoked
        BY <3>2, <1>2, TypesOfTypeOK DEF Tombstoned
      <3> QED
        BY <3>1, <3>2, <1>5 DEF CommitSave
    <2>7. HistoryInv'
      BY <1>1, <2>1, <2>2, <2>3 DEF HistoryInv, gatewayVars
    <2> QED
      BY <2>4, <2>5, <2>6, <2>7
  <1>6. CASE Crash
    <2>1. /\ FileSnapshot' = FileSnapshot /\ MemSnapshot' = EmptySnapshot
          /\ UNCHANGED <<file, acked>> /\ ~up' /\ saving' = "idle" /\ up
          /\ ~forked' => ~forked /\ ~persistErr
      BY <1>6 DEF Crash, FileSnapshot, MemSnapshot, EmptySnapshot, diskVars
    <2>2. FileInv'
      BY <2>1 DEF FileInv
    <2>3. GenuineInv'
      BY <1>1, <1>3, <2>1, EmptySnapshotParts DEF GenuineInv, Genuine
    <2>4. AckedInv'
      BY <2>1 DEF AckedInv
    <2>5. HistoryInv'
      BY <1>1, <2>1 DEF HistoryInv, gatewayVars
    <2> QED
      BY <2>2, <2>3, <2>4, <2>5
  <1>7. CASE Boot
    <2>1. /\ FileSnapshot' = FileSnapshot
          /\ UNCHANGED <<file, acked, forked, saving, persistErr>>
          /\ up' /\ ~up
      BY <1>7 DEF Boot, FileSnapshot, EmptySnapshot, diskVars, histVars
    <2>2. MemSnapshot' = FileSnapshot
      BY <1>2, <1>7 DEF Boot, MemSnapshot, Snapshot
    <2>3. saving = "idle" /\ ~persistErr
      BY <2>1 DEF TypeOK, KeystoreTypeOK
    <2>4. FileInv'
      BY <2>1, <2>2, <2>3 DEF FileInv
    <2>5. GenuineInv'
      BY <1>1, <1>3, <2>1, <2>2 DEF GenuineInv
    <2>6. AckedInv'
      BY <2>1, <2>2 DEF AckedInv
    <2>7. HistoryInv'
      BY <1>1, <2>1, <2>2, <2>3 DEF HistoryInv, gatewayVars
    <2> QED
      BY <2>4, <2>5, <2>6, <2>7
  <1> QED
    BY <1>4, <1>5, <1>6, <1>7

\* A mutation that touches no key record, CreateApp and UpdateApp.
LEMMA AppMutationStep ==
  ASSUME IInv, TypeOK', Unlocked, BumpKeysLocked, UNCHANGED gatewayVars,
         UNCHANGED <<keys, issued>>
  PROVE  IInv'
  <1>1. MemSnapshot'.keys = keys /\ MemSnapshot.keys = keys
    BY MemSnapshotParts DEF MemSnapshot
  <1>2. \A k \in Kids : Tombstoned(MemSnapshot, k) => Tombstoned(MemSnapshot', k)
    BY <1>1, PlaceholdersAreDistinct DEF Tombstoned, TypeOK, KeystoreTypeOK
  <1>3. Genuine(MemSnapshot', issued')
    BY <1>1 DEF IInv, GenuineInv, Genuine
  <1> QED
    BY <1>2, <1>3, MutationStep

LEMMA KeystoreStep ==
  ASSUME IInv, TypeOK', KeystoreNext, UNCHANGED gatewayVars
  PROVE  IInv'
  <1>1. /\ MemSnapshot \in Snapshot /\ MemSnapshot' \in Snapshot
        /\ MemSnapshot # NoSnapshot /\ MemSnapshot' # NoSnapshot
        /\ MemSnapshot.keys = keys /\ MemSnapshot'.keys = keys'
        /\ keys \in [Kids -> Key \cup {NoKey}]
        /\ issued \in [Kids -> Key \cup {NoKey}]
    BY StoreParts, MemSnapshotParts, PlaceholdersAreDistinct
    DEF IInv, TypeOK, KeystoreTypeOK, MemSnapshot
  <1>2. ASSUME NEW a \in AppIds, NEW b \in Baselines, CreateApp(a, b)
        PROVE  IInv'
    BY <1>2, AppMutationStep DEF CreateApp
  <1>3. ASSUME NEW a \in AppIds, NEW b \in Baselines, NEW d \in BOOLEAN,
               UpdateApp(a, b, d)
        PROVE  IInv'
    BY <1>3, AppMutationStep DEF UpdateApp
  <1>4. ASSUME NEW k \in Kids, NEW a \in AppIds, NEW r \in SUBSET Routes,
               NEW e \in Times \cup {Never}, IssueKey(k, a, r, e)
        PROVE  IInv'
    <2>1. keys[k] = NoKey /\ issued[k] = NoKey
      BY <1>4, <1>1 DEF IssueKey, IInv, GenuineInv, Genuine
    <2>2. \A j \in Kids : j # k => keys'[j] = keys[j] /\ issued'[j] = issued[j]
      BY <1>4, <1>1 DEF IssueKey
    <2>3. keys'[k] = issued'[k] /\ issued'[k] \in Key
      BY <1>4, <1>1 DEF IssueKey, Key
    <2>4. issued'[k] # NoKey
      BY <2>3, PlaceholdersAreDistinct
    <2>5. \A j \in Kids : Tombstoned(MemSnapshot, j) => Tombstoned(MemSnapshot', j)
      BY <1>1, <2>1, <2>2 DEF Tombstoned
    <2>6. Genuine(MemSnapshot', issued')
      <3> SUFFICES ASSUME NEW j \in Kids, keys'[j] # NoKey
                   PROVE  /\ issued'[j] # NoKey
                          /\ keys'[j].expires = issued'[j].expires
                          /\ keys'[j].routes = issued'[j].routes
        BY <1>1 DEF Genuine
      <3>1. CASE j = k
        BY <3>1, <2>3, <2>4
      <3>2. CASE j # k
        BY <3>2, <2>2, <1>1 DEF IInv, GenuineInv, Genuine
      <3> QED
        BY <3>1, <3>2
    <2> QED
      BY <1>4, <2>1, <2>2, <2>5, <2>6, MutationStep DEF IssueKey
  <1>5. ASSUME NEW k \in Kids, RevokeKey(k)
        PROVE  IInv'
    <2>1. keys[k] \in Key /\ issued' = issued
      BY <1>5, <1>1 DEF RevokeKey
    <2>2. \A j \in Kids : j # k => keys'[j] = keys[j]
      BY <1>5, <1>1 DEF RevokeKey
    <2>3. /\ keys'[k].revoked
          /\ keys'[k].expires = keys[k].expires
          /\ keys'[k].routes = keys[k].routes
          /\ keys'[k] \in Key
      <3>1. keys'[k] = [keys[k] EXCEPT !.revoked = TRUE]
        BY <1>5, <1>1 DEF RevokeKey
      <3>2. /\ keys[k].app \in AppIds
            /\ keys[k].routes \in SUBSET Routes
            /\ keys[k].expires \in Times \cup {Never}
            /\ keys[k] = [app |-> keys[k].app, routes |-> keys[k].routes,
                          expires |-> keys[k].expires, revoked |-> keys[k].revoked]
        BY <2>1 DEF Key
      <3>3. keys'[k] = [app |-> keys[k].app, routes |-> keys[k].routes,
                        expires |-> keys[k].expires, revoked |-> TRUE]
        BY <3>1, <3>2
      <3> QED
        BY <3>2, <3>3 DEF Key
    <2>4. keys'[k] # NoKey /\ keys[k] # NoKey
      BY <2>1, <2>3, PlaceholdersAreDistinct
    <2>5. \A j \in Kids : Tombstoned(MemSnapshot, j) => Tombstoned(MemSnapshot', j)
      BY <1>1, <2>2, <2>3, <2>4 DEF Tombstoned
    <2>6. Genuine(MemSnapshot', issued')
      <3> SUFFICES ASSUME NEW j \in Kids, keys'[j] # NoKey
                   PROVE  /\ issued[j] # NoKey
                          /\ keys'[j].expires = issued[j].expires
                          /\ keys'[j].routes = issued[j].routes
        BY <1>1, <2>1 DEF Genuine
      <3>1. CASE j = k
        BY <3>1, <2>3, <2>4, <1>1 DEF IInv, GenuineInv, Genuine
      <3>2. CASE j # k
        BY <3>2, <2>2, <1>1 DEF IInv, GenuineInv, Genuine
      <3> QED
        BY <3>1, <3>2
    <2> QED
      BY <1>5, <2>1, <2>5, <2>6, MutationStep DEF RevokeKey
  <1> QED
    BY <1>2, <1>3, <1>4, <1>5, ProcessStep DEF KeystoreNext

\* A gateway's step leaves the store alone. It drops an answer, takes one from
\* an unlocked store, or gives up its snapshot for none or for the answer.
LEMMA GatewayStep ==
  ASSUME IInv, TypeOK', UNCHANGED keystoreVars,
         \A h \in Gateways :
            \/ snap'[h] = snap[h] /\ answer'[h] \in {answer[h], NoSnapshot}
            \/ snap'[h] = snap[h] /\ answer'[h] = MemSnapshot /\ Unlocked
            \/ snap'[h] \in {NoSnapshot, answer[h]} /\ answer'[h] = NoSnapshot
  PROVE  IInv'
  <1> USE DEF IInv
  <1>1. /\ FileSnapshot' = FileSnapshot /\ MemSnapshot' = MemSnapshot
        /\ UNCHANGED <<up, persistErr, saving, version, tmp, file, issued,
                       acked, forked>>
    BY DEF keystoreVars, storeVars, diskVars, histVars, FileSnapshot,
           MemSnapshot, EmptySnapshot
  <1>2. MemSnapshot \in Snapshot
    BY TypesOfTypeOK
  <1>3. FileInv'
    BY <1>1 DEF FileInv
  <1>4. ASSUME NEW h \in Gateways, NEW s \in Held(h)'
        PROVE  s \in Held(h) \/ (s = MemSnapshot /\ Unlocked)
    BY DEF Held
  <1>5. GenuineInv'
    BY <1>1, <1>4 DEF GenuineInv
  <1>6. AckedInv'
    BY <1>1 DEF AckedInv
  <1>7. HistoryInv'
    <2> SUFFICES ASSUME ~forked
                 PROVE  /\ \A h \in Gateways : \A s \in Held(h)' :
                            /\ up => Below(s, MemSnapshot)
                            /\ saving # "idle" => s.version < version
                            /\ ~persistErr => Below(s, FileSnapshot)
                        /\ \A h \in Gateways :
                             snap'[h] # NoSnapshot /\ answer'[h] # NoSnapshot
                               => Below(snap'[h], answer'[h])
      BY <1>1 DEF HistoryInv
    <2>1. ASSUME NEW h \in Gateways, NEW s \in Held(h)'
          PROVE  /\ up => Below(s, MemSnapshot)
                 /\ saving # "idle" => s.version < version
                 /\ ~persistErr => Below(s, FileSnapshot)
      <3>1. CASE s \in Held(h)
        BY <3>1 DEF HistoryInv
      <3>2. CASE s = MemSnapshot /\ Unlocked
        BY <3>2, <1>2, BelowItself DEF FileInv, Unlocked
      <3> QED
        BY <3>1, <3>2, <1>4
    <2>2. ASSUME NEW h \in Gateways, snap'[h] # NoSnapshot, answer'[h] # NoSnapshot
          PROVE  Below(snap'[h], answer'[h])
      <3>1. snap'[h] = snap[h] /\ snap[h] \in Held(h)
        BY <2>2 DEF Held
      <3>2. CASE answer'[h] = answer[h]
        BY <3>1, <3>2, <2>2 DEF HistoryInv
      <3>3. CASE answer'[h] = MemSnapshot /\ Unlocked
        BY <3>1, <3>3 DEF HistoryInv, Unlocked
      <3> QED
        BY <2>2, <3>2, <3>3
    <2> QED
      BY <2>1, <2>2
  <1> QED
    BY <1>3, <1>5, <1>6, <1>7

LEMMA InvInit == Init => IInv
  <1> SUFFICES ASSUME Init PROVE IInv
    OBVIOUS
  <1>1. TypeOK
    BY InitType
  <1>2. FileSnapshot = EmptySnapshot /\ MemSnapshot = EmptySnapshot
    BY DEF Init, KeystoreInit, FileSnapshot, MemSnapshot, EmptySnapshot
  <1>3. \A g \in Gateways : Held(g) = {} /\ snap[g] = NoSnapshot
    BY DEF Init, Held
  <1>4. FileInv
    BY PlaceholdersAreDistinct DEF Init, KeystoreInit, FileInv
  <1>5. GenuineInv
    BY <1>2, <1>3, EmptySnapshotParts DEF GenuineInv, Genuine
  <1>6. AckedInv
    BY DEF Init, KeystoreInit, AckedInv
  <1>7. HistoryInv
    BY <1>3 DEF HistoryInv
  <1> QED
    BY <1>1, <1>4, <1>5, <1>6, <1>7 DEF IInv

LEMMA InvStep == IInv /\ [Next]_vars => IInv'
  <1> SUFFICES ASSUME IInv, [Next]_vars PROVE IInv'
    OBVIOUS
  <1>1. TypeOK' /\ TypeOK
    BY TypeStep DEF IInv
  <1>2. CASE KeystoreNext /\ UNCHANGED gatewayVars
    BY <1>1, <1>2, KeystoreStep
  <1>3. ASSUME NEW g \in Gateways, AskKeys(g)
        PROVE  IInv'
    BY <1>1, <1>3, GatewayStep DEF AskKeys
  <1>4. ASSUME NEW g \in Gateways, ServeKeys(g)
        PROVE  IInv'
    BY <1>1, <1>4, GatewayStep DEF ServeKeys, Unlocked, TypeOK
  <1>5. ASSUME NEW g \in Gateways, PullFails(g)
        PROVE  IInv'
    BY <1>1, <1>5, GatewayStep DEF PullFails, TypeOK
  <1>6. ASSUME NEW g \in Gateways, InstallKeys(g)
        PROVE  IInv'
    BY <1>1, <1>6, GatewayStep DEF InstallKeys, TypeOK
  <1>7. ASSUME NEW g \in Gateways, RestartGateway(g)
        PROVE  IInv'
    BY <1>1, <1>7, GatewayStep DEF RestartGateway, TypeOK
  <1>8. CASE UNCHANGED vars
    BY <1>1, <1>8, GatewayStep DEF vars, gatewayVars
  <1> QED
    BY <1>2, <1>3, <1>4, <1>5, <1>6, <1>7, <1>8 DEF Next

LEMMA Invariant == Spec => []IInv
  BY InvInit, InvStep, PTL DEF Spec
-----------------------------------------------------------------------------
(***************************************************************************)
(* The properties.                                                         *)
(***************************************************************************)

\* No crash leaves a keys.json that the next boot refuses, and a nil
\* KeystorePersistError means that a boot would load what is in memory.
THEOREM Durable == Spec => []NilErrorMeansDurable
  <1>1. IInv => NilErrorMeansDurable
    BY DEF IInv, FileInv, NilErrorMeansDurable, Unlocked
  <1> QED
    BY <1>1, Invariant, PTL

\* An acknowledged revocation is in force in every later process.
THEOREM RevocationSurvives == Spec => []AckedRevocationSurvives
  <1>1. IInv => AckedRevocationSurvives
    BY MemSnapshotParts
    DEF IInv, AckedInv, AckedRevocationSurvives, Tombstoned, TypeOK, KeystoreTypeOK
  <1> QED
    BY <1>1, Invariant, PTL

\* Equal versions mean equal content, so pullKeys never skips a change.
THEOREM VersionsNameContent == Spec => []VersionNamesContent
  <1>1. IInv => VersionNamesContent
    BY MemSnapshotParts
    DEF IInv, HistoryInv, Held, Below, VersionNamesContent, Unlocked
  <1> QED
    BY <1>1, Invariant, PTL

\* Expiry and scope are enforced from the record as issued, on any snapshot.
THEOREM ExpiryAtTheEdge == Spec => []ExpiryNeedsNoPull
  <1>1. ASSUME IInv, NEW g \in Gateways, NEW k \in Kids, NEW r \in Routes,
               Accepts(g, k, r)
        PROVE  /\ issued[k] # NoKey
               /\ issued[k].expires \in Times => now < issued[k].expires
               /\ AllowsRoute(issued[k], r)
    <2>1. Genuine(snap[g], issued) /\ snap[g].keys[k] # NoKey
      BY <1>1 DEF IInv, GenuineInv, Held, Accepts
    <2>2. /\ issued[k] # NoKey
          /\ snap[g].keys[k].expires = issued[k].expires
          /\ snap[g].keys[k].routes = issued[k].routes
      BY <2>1 DEF Genuine
    <2> QED
      BY <1>1, <2>2 DEF Accepts, Active, AllowsRoute
  <1>2. IInv => ExpiryNeedsNoPull
    BY <1>1 DEF ExpiryNeedsNoPull
  <1> QED
    BY <1>2, Invariant, PTL

\* An answer in flight carries the tombstone of every revocation that was
\* acknowledged when it was built, in whichever process built it.
VouchedInv ==
    \A g \in Gateways : answer[g] # NoSnapshot =>
        \A k \in vouched[g] : Tombstoned(answer[g], k)

LEMMA VouchedStep ==
  ASSUME IInv, VouchedInv, [Next]_vars
  PROVE  VouchedInv'
  <1>1. ASSUME NEW k \in acked, Unlocked
        PROVE  Tombstoned(MemSnapshot, k)
    BY <1>1 DEF IInv, AckedInv, TypeOK, KeystoreTypeOK, Unlocked
  <1>2. /\ answer \in [Gateways -> Snapshot \cup {NoSnapshot}]
        /\ vouched \in [Gateways -> SUBSET Kids]
    BY DEF IInv, TypeOK
  <1>3. ASSUME NEW g \in Gateways, ServeKeys(g)
        PROVE  VouchedInv'
    <2>1. \A h \in Gateways : h # g => answer'[h] = answer[h] /\ vouched'[h] = vouched[h]
      BY <1>2, <1>3 DEF ServeKeys
    <2>2. answer'[g] = MemSnapshot /\ vouched'[g] = acked /\ Unlocked
      BY <1>2, <1>3 DEF ServeKeys
    <2> QED
      BY <1>1, <2>1, <2>2 DEF VouchedInv, Tombstoned
  <1>4. ASSUME NEW g \in Gateways, PullFails(g) \/ InstallKeys(g) \/ RestartGateway(g)
        PROVE  VouchedInv'
    <2>1. \A h \in Gateways : h # g => answer'[h] = answer[h] /\ vouched'[h] = vouched[h]
      BY <1>2, <1>4 DEF PullFails, InstallKeys, RestartGateway
    <2>2. answer'[g] = NoSnapshot
      BY <1>2, <1>4 DEF PullFails, InstallKeys, RestartGateway
    <2> QED
      BY <2>1, <2>2 DEF VouchedInv, Tombstoned
  <1>5. CASE UNCHANGED <<answer, vouched>>
    BY <1>5 DEF VouchedInv, Tombstoned
  <1> QED
    BY <1>3, <1>4, <1>5 DEF Next, AskKeys, gatewayVars, vars

LEMMA VouchedInvariant == Spec => []VouchedInv
  <1>1. Init => VouchedInv
    BY DEF Init, VouchedInv
  <1> QED
    BY <1>1, VouchedStep, Invariant, PTL DEF Spec

\* A gateway unlearns a revocation only after a process has ended with an
\* unwritten mutation, and never one that was on disk when the answer it
\* installs was built.
THEOREM RefusalsAreFinal == Spec => RefusalIsFinal
  <1> DEFINE Final == \A g \in Gateways, k \in Kids :
                        Unlearned(g, k) => forked /\ k \notin vouched[g]
  <1>1. ASSUME IInv, VouchedInv, [Next]_vars
        PROVE  [Final]_vars
    <2> SUFFICES ASSUME NEW g \in Gateways, NEW k \in Kids, Unlearned(g, k)
                 PROVE  forked /\ k \notin vouched[g]
      BY DEF vars, gatewayVars
    <2>1. /\ Tombstoned(snap[g], k) /\ ~Tombstoned(snap'[g], k)
          /\ snap[g] # NoSnapshot /\ snap'[g] # NoSnapshot /\ snap'[g] # snap[g]
      BY DEF Unlearned, Tombstoned
    <2>2. PICK h \in Gateways : InstallKeys(h)
      BY <1>1, <2>1 DEF Next, AskKeys, ServeKeys, PullFails, RestartGateway, vars,
                  gatewayVars, IInv, TypeOK
    <2>3. h = g /\ snap'[g] = answer[g]
      BY <1>1, <2>1, <2>2 DEF InstallKeys, IInv, TypeOK
    <2>4. ~forked => Below(snap[g], answer[g])
      BY <1>1, <2>1, <2>3 DEF IInv, HistoryInv
    <2>5. forked
      BY <2>1, <2>3, <2>4 DEF Below
    <2>6. k \notin vouched[g]
      BY <1>1, <2>1, <2>3 DEF VouchedInv
    <2> QED
      BY <2>5, <2>6
  <1>2. [][Final]_vars <=> RefusalIsFinal
    BY DEF RefusalIsFinal
  <1> QED
    BY <1>1, <1>2, Invariant, VouchedInvariant, PTL DEF Spec

\* The store, its files and its crashes implement DurableKeys.
LEMMA SameStages ==
  ASSUME NEW s, NEW t, s.keys = t.keys
  PROVE  StagesOf(s) = StagesOf(t)
  BY DEF StagesOf

LEMMA StageValues ==
  ASSUME NEW key \in Key \cup {NoKey}
  PROVE  /\ Stage(key) = "absent" <=> key = NoKey
         /\ Stage(key) = "usable" <=> key # NoKey /\ ~key.revoked
         /\ Stage(key) = "revoked" <=> key # NoKey /\ key.revoked
  BY DEF Stage, Key

LEMMA StageOfOneKey ==
  ASSUME NEW k \in Kids, NEW f \in [Kids -> Key \cup {NoKey}], NEW key
  PROVE  [j \in Kids |-> Stage([f EXCEPT ![k] = key][j])]
           = [[j \in Kids |-> Stage(f[j])] EXCEPT ![k] = Stage(key)]
  OBVIOUS

LEMMA AbstractInit == Init => Abstract!Init
  <1> SUFFICES ASSUME Init PROVE Abstract!Init
    OBVIOUS
  <1>1. ~up /\ FileSnapshot = EmptySnapshot
    BY DEF Init, KeystoreInit, FileSnapshot
  <1>2. StagesOf(EmptySnapshot) = [k \in Kids |-> "absent"]
    BY EmptySnapshotParts DEF StagesOf, Stage
  <1> QED
    BY <1>1, <1>2 DEF Abstract!Init

\* A step that leaves the file alone and the key records in force as they are.
LEMMA StagesFrame ==
  ASSUME up' = up, keys' = keys, file' = file
  PROVE  /\ StagesOf(FileSnapshot)' = StagesOf(FileSnapshot)
         /\ StagesOf(IF up THEN MemSnapshot ELSE FileSnapshot)'
              = StagesOf(IF up THEN MemSnapshot ELSE FileSnapshot)
  BY DEF StagesOf, FileSnapshot, MemSnapshot, EmptySnapshot

LEMMA AbstractStep ==
  ASSUME IInv, [Next]_vars
  PROVE  [Abstract!Next]_<<StagesOf(IF up THEN MemSnapshot ELSE FileSnapshot),
                           StagesOf(FileSnapshot)>>
  <1> DEFINE live == StagesOf(IF up THEN MemSnapshot ELSE FileSnapshot)
             durable == StagesOf(FileSnapshot)
  <1>1. /\ MemSnapshot \in Snapshot /\ FileSnapshot \in Snapshot
        /\ MemSnapshot # NoSnapshot /\ FileSnapshot # NoSnapshot
        /\ MemSnapshot.keys = keys /\ MemSnapshot'.keys = keys'
        /\ keys \in [Kids -> Key \cup {NoKey}]
    BY TypesOfTypeOK, StoreParts, MemSnapshotParts DEF IInv, MemSnapshot
  <1>2. ASSUME NEW k \in Kids, NEW a \in AppIds, NEW r \in SUBSET Routes,
               NEW e \in Times \cup {Never}, IssueKey(k, a, r, e)
        PROVE  Abstract!Issue(k)
    <2>1. /\ up /\ up' /\ file' = file
          /\ keys' = [keys EXCEPT ![k] = [app |-> a, routes |-> r,
                                          expires |-> e, revoked |-> FALSE]]
          /\ keys[k] = NoKey
      BY <1>1, <1>2 DEF IssueKey, Unlocked, BumpKeysLocked, IInv, GenuineInv, Genuine
    <2>2. keys'[k] \in Key /\ ~keys'[k].revoked
      BY <1>1, <2>1 DEF Key
    <2>3. Stage(keys[k]) = "absent" /\ Stage(keys'[k]) = "usable"
      BY <2>1, <2>2, StageValues, PlaceholdersAreDistinct
    <2>4. durable' = durable
      BY <2>1 DEF StagesOf, FileSnapshot, EmptySnapshot
    <2>5. live = [j \in Kids |-> Stage(keys[j])] /\ live' = [j \in Kids |-> Stage(keys'[j])]
      BY <1>1, <2>1 DEF StagesOf
    <2>6. keys'[k] = [app |-> a, routes |-> r, expires |-> e, revoked |-> FALSE]
      BY <1>1, <2>1
    <2>7. live' = [live EXCEPT ![k] = "usable"]
      <3> HIDE DEF live
      <3> QED
        BY <1>1, <2>1, <2>3, <2>5, <2>6, StageOfOneKey
    <2> QED
      BY <2>3, <2>4, <2>5, <2>7 DEF Abstract!Issue
  <1>3. ASSUME NEW k \in Kids, RevokeKey(k)
        PROVE  Abstract!Revoke(k)
    <2>1. /\ up /\ up' /\ file' = file
          /\ keys' = [keys EXCEPT ![k] = [keys[k] EXCEPT !.revoked = TRUE]]
          /\ keys[k] \in Key /\ ~keys[k].revoked
      BY <1>1, <1>3 DEF RevokeKey, Unlocked, BumpKeysLocked
    <2>6. keys'[k] = [keys[k] EXCEPT !.revoked = TRUE]
      BY <1>1, <2>1
    <2>2. keys'[k] \in Key /\ keys'[k].revoked
      <3> DEFINE old == keys[k]
                 new == keys'[k]
      <3>1. old \in Key /\ new = [old EXCEPT !.revoked = TRUE]
        BY <2>1, <2>6
      <3> HIDE DEF old, new
      <3>2. new \in Key /\ new.revoked
        BY <3>1 DEF Key
      <3> QED BY <3>2 DEF new
    <2>3. Stage(keys[k]) = "usable" /\ Stage(keys'[k]) = "revoked"
      <3>1. keys[k] # NoKey /\ keys'[k] # NoKey
        BY <2>1, <2>2, PlaceholdersAreDistinct
      <3> QED
        BY <2>1, <2>2, <3>1, StageValues
    <2>4. durable' = durable
      BY <2>1 DEF StagesOf, FileSnapshot, EmptySnapshot
    <2>5. live = [j \in Kids |-> Stage(keys[j])] /\ live' = [j \in Kids |-> Stage(keys'[j])]
      BY <1>1, <2>1 DEF StagesOf
    <2>7. live' = [live EXCEPT ![k] = "revoked"]
      <3> HIDE DEF live
      <3> QED
        BY <1>1, <2>1, <2>3, <2>5, <2>6, StageOfOneKey
    <2> QED
      BY <2>3, <2>4, <2>5, <2>7 DEF Abstract!Revoke
  <1>4. CASE CommitSave
    <2>1. /\ up /\ up' /\ MemSnapshot' = MemSnapshot
          /\ file' = MemSnapshot
      BY <1>4 DEF CommitSave, IInv, FileInv, TypeOK, KeystoreTypeOK, MemSnapshot
    <2>2. live' = live /\ durable' = live
      BY <1>1, <2>1 DEF FileSnapshot
    <2>3. ASSUME NEW k \in Kids, durable[k] = "revoked"
          PROVE  live[k] = "revoked"
      <3>1. /\ FileSnapshot.keys[k] \in Key \cup {NoKey}
            /\ MemSnapshot.keys[k] \in Key \cup {NoKey}
        BY <1>1 DEF Snapshot
      <3>2. Tombstoned(FileSnapshot, k)
        BY <1>1, <2>3, <3>1, StageValues DEF StagesOf, Tombstoned
      <3>3. Tombstoned(MemSnapshot, k)
        BY <2>1, <3>2 DEF IInv, AckedInv
      <3> QED
        BY <2>1, <3>1, <3>3, StageValues DEF StagesOf, Tombstoned
    <2> QED
      BY <2>2, <2>3 DEF Abstract!Next, Abstract!Commit
  <1>5. CASE Crash
    BY <1>5 DEF Crash, diskVars, FileSnapshot, EmptySnapshot, Abstract!Next,
                Abstract!Restart
  <1>6. CASE Boot
    <2>1. file' = file /\ up' /\ ~up /\ keys' = FileSnapshot.keys
      BY <1>6 DEF Boot, diskVars
    <2> QED
      BY <1>1, <2>1 DEF StagesOf, FileSnapshot, EmptySnapshot
  <1>7. ASSUME up' = up, keys' = keys, file' = file
        PROVE  UNCHANGED <<live, durable>>
    BY <1>7, StagesFrame
  <1>8. CASE \/ \E a \in AppIds, b \in Baselines : CreateApp(a, b)
             \/ \E a \in AppIds, b \in Baselines, d \in BOOLEAN : UpdateApp(a, b, d)
             \/ WriteTmp \/ SaveFails \/ Tick \/ UNCHANGED keystoreVars
    BY <1>7, <1>8
    DEF CreateApp, UpdateApp, BumpKeysLocked, WriteTmp, SaveFails, Tick,
        keystoreVars, storeVars, diskVars, histVars
  <1>9. KeystoreNext \/ UNCHANGED keystoreVars
    BY DEF Next, AskKeys, ServeKeys, PullFails, InstallKeys, RestartGateway, vars
  <1> QED
    BY <1>2, <1>3, <1>4, <1>5, <1>6, <1>8, <1>9 DEF KeystoreNext, Abstract!Next

\* A boot serves what was durable, and nothing durable is undone.
THEOREM KeystoreImplementsDurableKeys == Spec => ImplementsDurableKeys
  BY AbstractInit, AbstractStep, Invariant, PTL
  DEF Spec, ImplementsDurableKeys, Abstract!Spec
=============================================================================
