# A TLA+ development of air-traffic

air-traffic is an AI control plane (`cmd/air-traffic-server`) with an optional
inline redaction gateway (`cmd/air-traffic-gateway`). The two are separate
processes: the control plane is the policy authority and keeps the state, the
gateway pulls that state over HTTP and enforces it on request bytes, and pushes
reports and heartbeats back. This directory models the parts of the two that
decide something: the replicated state (keys, pattern pack, policy), the report
path, the request pipeline and the harness. Every definition is translated from
the code under `src/`; `PROJECT.json` ("map") says from which lines.

## 1. Inventory

| Part (source) | State it keeps | Operations | Interacts with | Correct when |
|---|---|---|---|---|
| Keystore (`internal/store/keystore.go`, `keystore_persist.go`, `internal/server/routes_keystore.go`) | apps, keys (tombstoned, never deleted), `keysVersion`, the file `keys.json`, `keysPersistErr` | CreateApp, UpdateApp, IssueKey, RevokeKey, snapshot, load at boot | pulled by gateways; write-through file, temp file + rename | what was acknowledged as durable survives any crash; the file is always loadable; a tombstone is never lifted; a version names one content |
| Gateway keystore snapshot (`internal/gateway/keystore.go`, `spine_pull.go` pullKeys) | one atomically swapped snapshot | pull (GET, compare version, swap), authenticate | keystore route, request pipeline | a caller is accepted only on a snapshot the control plane once served; a revocation reaches the gateway |
| Pattern pack and proposals (`internal/harness/flywheel.go`, `persist.go`, `runner.go` NewRunner) | proposals, pack (in the store), `patterns.json`, `patternPersistErr`, corpus | flywheel upserts, AddProposal, Approve, Reject, load at boot | pack pulled by gateways | a rule enters the pack only by approval, once; settled proposals stay settled; the served pack is the pack on disk unless an error is reported |
| Gateway pattern reload (`spine_pull.go` pullPatterns, `detect/*.go`) | compiled regex set, chain allow list, Presidio pack, `packVersion` | pull, compile, install in three steps | requests read the three parts separately | a rejected pack installs nothing; a request in flight during a reload |
| Policy (`internal/policy`, `internal/store/policy_persist.go`, `spine_pull.go` pullPolicy, `model/gateway_action.go`) | applied policy, `policy.json`, gateway `policyAction`, `policyBaseline`, `zdrAttested`, `baselines` | PUT policies, pull, derive an action, resolve per app | heartbeat, request pipeline, drift | an unattested healthcare baseline blocks; an action never outlives its policy by more than a pull |
| Enforcement heartbeat and drift (`spine_emit.go` pushHeartbeat, `store/gateway.go`, `policy/drift.go`, `policy/reconcile.go`) | heartbeat map (at most 32, oldest evicted), drift set | heartbeat, coverage, drift refresh (tick and PUT) | policy, keystore, status route | a capability is claimed only while every caller is gated; a stale gateway raises drift |
| Report path (`gateway/audit.go`, `spine_emit.go` pushReports, `store/gateway.go`) | gateway ring, in-flight chunks, control-plane ring | record, drain, push, requeue, ingest | harness join, audit, metrics windows | a report is lost only to a full ring, a rejected chunk or a crash; order; duplicates on a lost answer |
| Metrics windows (`gateway/metrics.go`, `spine_emit.go` pushObservations) | one window of counters per route | observe, authFailure, drain, post | the pipeline, the goroutine that pushes reports, the observation feed | every count belongs to one batch; a lost batch takes no other with it |
| Request pipeline (`gateway/proxy.go`, adapters) | none across requests | authenticate, resolve action, detect, mask or block, forward, relay, record | all snapshots above | exactly one report per exit; nothing detected reaches the upstream under mask or block; a failed detector under fail-closed forwards nothing |
| Stream relay (`gateway/stream.go`) | the partial line, the tally | feed, flush, take | the pipeline's report | the counts are those of whole lines, however reads cut the stream |
| Detector chain and masking (`detect/detector.go` Merge, `redact/mask.go`) | none | run, guard, allow, merge, mask | pipeline | merged spans are disjoint and cover exactly what was found; masking removes exactly those bytes; guards by type tell real values from look-alikes |
| Harness runs (`harness/runner.go`, `score.go`, `sample.go`, `probe.go`, `gen.go`) | runs (last 50), results, ratchet, corpus, `running` | StartRun, send with bounded concurrency, wait for reports, score, flywheel | gateway, report ring, capture ring | one run at a time; counters agree with outcomes; an unverified value is never counted as caught |
| In-memory rings (`internal/store/store.go`) | calls, observations, audit, activity: last 5000 | append, list newest first, reset | every part | ids unique and increasing, oldest evicted first |
| Emitter (`internal/emitter`) | random-walk metric state | seed, tick, hooks | observations ring, drift | ticks refresh drift |
| Access checks (`server/spine_auth.go`, `routes_keystore.go`, `internal/hostguard`) | none | per-request checks | all routes | not a state machine; each is a pure predicate |
| Synthetic vendor surfaces (`internal/synthetic`, `internal/catalog`) | scenario per adapter, captures | vendor-shaped answers | store rings | data and formatting; only the capture ring matters to the rest |
| Config, envconfig, audit export, redact, credbroker | none | parsing and rendering | | pure functions on text |
| Web SPA (`web/`) | browser state | renders the API | HTTP | user interface; not modelled |

### What is hard here

* **Two processes, one truth.** Keys, pack and policy are copied by polling. The
  gateway decides whether to reload by comparing *version numbers for equality*,
  so everything rests on one version naming one content, across crashes and
  failed disk writes.
* **Persist failures are tolerated on purpose.** A mutation is applied in memory
  even when the write fails; the error is carried on the status route.
* **Different boot postures.** A corrupt keystore is fatal, a corrupt policy or
  pack is not.
* **Snapshots swapped one by one** while requests are in flight.
* **Lossy, repeating delivery.** Reports are drained, pushed in chunks, requeued
  on failure, into bounded rings on both sides; a lost answer duplicates.
* **Time.** Heartbeats go stale, keys expire, harness joins give up.


## 2. Modules

| Module | Models | Composes / extends |
|---|---|---|
| `DurableKeys` | what the keystore promises: a live record of apps and keys, a durable one that a crash falls back to, tombstones that stay | abstract specification |
| `Keystore` | the control plane's keystore: operations, two-step save, crash, boot | implements `DurableKeys` |
| `KeySpine` | gateways that pull it and authenticate callers against their snapshot | extends `Keystore` |
| `KeySpineProofs` | proofs about both | extends `KeySpine`, TLAPS |
| `PatternPack` | the pattern pack, its proposals, the flywheel, approval, `patterns.json` | |
| `Evidence` | a flywheel run from its misses to its proposals: the gates are read, Presidio is probed, and only then is the lock taken | extends `PatternPack` |
| `EvidenceProofs` | proofs about `PatternPack` as `Evidence` extends it | extends `Evidence`, TLAPS |
| `PatternSpine` | gateways that pull the pack and install it in three steps, under detections in flight | extends `PatternPack` |
| `PatternSpineProofs` | proofs about it | extends `PatternSpine`, TLAPS |
| `PolicySpine` | the applied policy, `policy.json`, the four atomics a gateway derives from it, requests that read them one by one | |
| `PolicySpineProofs` | proofs about it | extends `PolicySpine`, TLAPS |
| `Enforcement` | heartbeats, the entries the store keeps of them, drift | takes the posture `PolicySpine` and `KeySpine` decide as an input |
| `EnforcementClaims` | the same with a history of what each gateway gated, to say how old the truth of a claim may be | extends `Enforcement`, watching each of its steps |
| `EnforcementProofs` | proofs about both | extends `EnforcementClaims`, TLAPS |
| `ReportDelivery` | the report ring of a gateway, pushes in chunks, the ring of the control plane | |
| `SpineEmit` | the windows of counters and the goroutine that posts them and then pushes the reports | extends `ReportDelivery` |
| `SpineEmitProofs` | proofs about it and `ReportDelivery` | extends `SpineEmit`, TLAPS |
| `Spans` | Merge and Mask as functions of data, and what masking is for, said without either | |
| `Pipeline` | one request, from the resolved action to its one report | extends `Spans`; its report is what `ReportDelivery` carries |
| `StreamRelay` | the answer streamed to the caller read by read, and the tokens counted on the way | extends `Pipeline` and implements it (`Whole`): its steps stand for `Relay` |
| `PipelineProofs` | proofs about both | extends `StreamRelay`, TLAPS |
| `Validators` | the guards by type, and the generator of the harness they must agree with | extends `StreamRelay` |
| `BodyWalk` | which strings of a body are its text fields, in both dialects | extends `Validators`; the fields of `Pipeline` are those found |
| `ProxyRequest` | a request as a whole: the relay, the walk when the body is read, a guard while it is scanned | extends `BodyWalk` |
| `HarnessRun` | a run of the harness, from StartRun to its record, with corpus and ratchet | takes what `Pipeline`, `ReportDelivery` and the upstream make of a request as an input |
| `HarnessRunProofs` | proofs about it | extends `HarnessRun`, TLAPS |

The modules `MC...` give constants values a `.cfg` cannot write (tuples,
functions, symmetry); they define nothing else. The names of actions are those
of the functions in the code, capitalised where the code's are exported;
`PROJECT.json` maps each to its lines.

An operator introduced by a comment that begins with *Fault:* is not part of
any specification. It is a definition as a plausible bug would have it, and
stands just before the definition it would replace. Every property of every run
has one that violates it: that is how we know that the property depends on the
code.

### State and actions, module by module

**Keystore.** `apps`, `keys`, `version` and `persistErr` are the store's fields
under `s.mu`; `file` and `tmp` are `keys.json` and its temporary file. A mutation
(`CreateApp`, `UpdateApp`, `IssueKey`, `RevokeKey`) changes memory, bumps the
version and takes the lock; the save that the code does before it unlocks is the
steps `WriteTmp`, `CommitSave` (the rename) or `SaveFails`. `Crash` may fall
between any two; `Boot` reads the file. The clock is one variable, `now`. An
expiry is a time or `Never`. Secrets, hashes, names and notes are left out: a
caller is assumed to hold the secret of the key it shows.
History variables record what was issued, what was acknowledged as revoked, and
`forked`, that a process ended with a mutation the disk had refused.

**KeySpine.** Per gateway a pull in flight (`pull`, `answer`) and the installed
snapshot (`snap`). `Accepts` is `authenticateKeystore`. `RefusalIsFinal` says that a
gateway that knows a key is revoked goes on refusing it, and has an exception that the
code makes: a revocation that was served and never saved is forgotten when the process
ends with it (`forked`), and the next pull, of the older file's keys, takes the
tombstone away at the gateway too. `vouched` records, per gateway, the revocations that
were acknowledged as durable when the answer it installs was built; those it does not lose even then.

**PatternPack.** `rows` are the runner's proposals in order, `pack` the store's
pack, `pending` the pack that an approval has saved and not yet put in the store
(the two are under different locks), `file` is `patterns.json`. A proposal is a
type, a kind, and a gate or a set of terms. `DecisionsAreKept` holds for as long as
`patterns.json` is not damaged from outside: a damaged file is read as no proposals at
all (`runner.go:70-73`), and the next save writes that over every decision it held.

**Evidence.** `run` is the flywheel's evidence between `Gather`, which reads the
gates in force and probes the texts of the misses, and `Upsert`, which takes the
lock: every action of the owner may fall between the two. What a run did not
catch is a set of misses, each with the score Presidio gives its text and the gate
it would need. The property is an action property of `Upsert` because it speaks of
the pack as it is *then*. Under `proposeGate` a score below 0.05 is answered by a gate of 0.05,
which does not accept it, though the comment at `flywheel.go:496` says a proposed
gate accepts the evidence it came from; `EveryMissIsAnswered` excepts such scores. It
also excepts the terms dropped because the one open list of their type is full
(`flywheel.go:436`), and no others: a list that is settled, or of another type, excuses nothing.

**PatternSpine.** `halves` says from which rules each of a gateway's three parts
was last built (regex set, chain allow list, Presidio rules). A request detects
one term: it reads the regex set and the allow list in one step, Presidio in
another, and a reload may fall between. `inForce` collects the rule sets that
were in force meanwhile.

**PolicySpine.** The stores of one pull are steps of their own
(`StoreAttestation`, `StoreAction`, `StoreBaseline`), and so are the loads of one
request. The set of baselines is split by what they ask for, as
`DeriveGatewayAction` does.

**Enforcement.** Ages instead of times: of each heartbeat entry how many ticks ago
it arrived. `beat` is the heartbeat being made (its default action read, its apps
not yet), `flight` those under way. A `RefreshDrift` is three steps, by the
emitter's tick or by a PUT.

**EnforcementClaims.** `gated` is what of a gateway's posture gated in the present
tick, `since` how long ago both halves of it last did in one. `ClaimIsHonest` relates an
entry to the gateway that sent it. It says "in one tick" because no more is true: the
default action and the apps' are read one after the other from two snapshots, and a
policy and a keystore that change between the two reads can make up a claim that was
true at no moment. The comment of `GatewayEnforcement` (`store/gateway.go:111`) says that
everSeen means "is (or ever was)" enforcing; in the code, and in `EverSeen`, it says
that some entry present now has the claim, and the next heartbeat without it, or an
eviction, makes it false again.

**ReportDelivery.** Reports are numbers. `pushing` is what a push has drained and
not settled; its first chunk is being posted. `late` are chunks whose post the
gateway gave up on while the control plane may still handle them. Why a report
will never arrive is one history, `lost`.

**SpineEmit.** `window` and `batch` are the counters of each route, waiting and
being posted; `unobserved` are the requests whose report is in the ring and whose
counts are not in the window yet, for the handler does one after the other. A tick
posts the batch and then pushes the reports, on one goroutine: `phase` is where it
stands, and the actions of `ReportDelivery` are its steps. A batch whose post fails
is gone, unlike a chunk of reports. A report adds to the counters what `observe` adds:
to `requests`, to the counter of its action, to errors and fail-mode trips, its tokens,
and each type of redaction. `detectOnly` is among the counters and not among the
`SentCounters`: `drain` resets it and `routeObservations` puts it in no batch, so what it
counted is lost each time, and `CountsAddUp` says nothing of it. Routes are drained one after the other in the
code and at once here: a count that arrives between two drains is in this batch or
the next either way.

**Pipeline.** `phase` is where `proxyRequest` stands. An engine's answer is any
set of claims the instance allows; a body is the sequence of its text fields.
Overlapping claims are merged *before* allow lists and guards are applied within
the regex engine, and again over both engines: a veto of the merged extent
therefore drops every type in it. `rejected` is what the filters of each engine rejected
in this request. `LostOnlyToAVeto` says that a claim that is not masked and reported lies
in such a span of its own engine and field, and of what type that is: for Presidio,
which merges nothing before the filters, it is that very claim; for the regex engine a
merged stretch with the type of one of its claims, no less confident than the one lost.
`Verdict` is the action a report names: block if an engine failed under fail-closed,
whatever was resolved; else the resolved one if anything was found; else pass.

**BodyWalk.** A JSON value is a tree whose leaves are strings, and a text field is
a path in it. The walk of the code is recursive over blocks; what it should find is
said without recursion, by the grammar of the paths. The input of a tool is walked if it is
an object. An array or a string is walked nowhere, although the adapter's comments call
the input arbitrary JSON and every string leaf of it text: `EveryTextIsWalked` says what
the code does, and the run `pipeline_inputs` refutes what the comments say. A document is looked at in
the step that reads a body, and forgotten in the next: the fields `Pipeline` scans
are not its fields, but any.

**Validators.** A claim is its type and its digits. Cards, accounts and addresses are
made by the generator's own algorithms, then mistyped, set as traps or glued to a
hyphen. What a guard rejects is a member of `Vetoed` in `Pipeline`. One claim is
looked at in a step that changes nothing else. A 0 and a 9 that change places pass
Luhn's sum; `GuardsTellRealFromAlike` excepts them.

**StreamRelay.** A stream is a sequence of tokens: a newline, what stands before and
after a usage in an event, the usage, and anything else. A read is any number of
them. `partial` and `tally` are the fields of `sseLineReader` and of the scanner.
The comment at `stream.go:10` says that a line over the cap is dropped and that the reader
resynchronises at the next newline; in the code what is left of that line up to the
newline is fed as a line of its own. `TokensAreOfWholeLines` allows for an event
that is the end of such a line, and for nothing more. `RelayIsOneStep` is the refinement: with
`phase` still at "sent" while the stream is relayed, all of it is `Relay` in `Pipeline`.

**HarnessRun.** `stage` is where `execute` stands, `item`, `answer` and `fate` are
about the requests it has under way: their text, what the worker got, what the
gateway and the upstream did. The list of fates is what `Pipeline` and a vendor
leave open: blocked, masked as far as the value was named, sent on as it is,
answered with the upstream's own 400, captured by the synthetic upstream or not.
`results` and `caught` are the score's. `corpus` and `ratchet` are memory,
`corpusDir` and `lines` what is on disk; a failed append may leave part of a line.

**Type invariants.** Each state machine has one. Those of `KeySpine`, `Evidence`,
`PolicySpine`, `Enforcement`, `HarnessRun` and `Pipeline` are proved, that of
`ReportDelivery` as a part of the invariant of its proofs. The proofs about `PatternSpine` need no types of the list of
proposals: they rest on the shapes of a pull, a request and a gateway's parts.

## 3. Runs

| Run | Question | Instance |
|---|---|---|
| `key_spine` | Does the keystore keep what it acknowledged, implement `DurableKeys`, and do gateways agree with it? | 1 app, 1 key, 1 gateway, version up to 4, two points in time |
| `key_spine_fork` (violation) | SECURITY.md says a revoked key stops working within one pull interval | the same without a clock |
| `pattern_pack` | Is the served pack exactly the approvals; is nothing settled asked again, and every miss answered, whatever the owner does while Presidio is probed? | 2 types, one with a curated rule and one the owner writes for, 4 misses, 2 gates, up to 3 rows |
| `pattern_spine` | Do reloads keep the parts of a gateway together, and detections whole, and does an approval on disk reach every gateway? | 1 type, 1 term, 2 owner rules, 1 gateway, a regex that does not compile, crashes without bound |
| `pattern_spine_torn` (violation) | A comment says the window of a reload is over-detection | 2 types, no faults at all |
| `pattern_spine_unreadable` (violation) | A comment says rules are never dropped from a gateway | `patterns.json` damaged once |
| `policy_spine` | Do a gateway's atomics, and a request that reads them one by one, give the action of a policy in force? | 1 gated baseline, with and without attestation |
| `enforcement` | Is a believed claim true of its gateway and recent, a lapse noticed, and does drift settle on the truth? | 1 gateway, 2 addresses, 1 entry, 1 PUT at a time, stale after 2 ticks, a tick late at most |
| `report_delivery` | Where can a report be lost, repeated or overtaken, and where a count? | 4 callers recorded or refused, 2 routes, ring of 3, chunks of 2, 1 late post |
| `pipeline` | Is what is sent upstream what the action says, and does the report tell it? Is every text of a body looked at, a real value told from a look-alike, a stream counted as its whole lines say, and the relay of it one step of the request? | 2 fields, 2 engines, up to 3 claims each on 4 bytes; some hundred bodies of two dialects; 8 cards, 4 accounts and every one-digit slip of them; streams of 2 lines in reads of any length |
| `pipeline_inputs` (violation) | Comments say every string leaf of a tool's input is walked | the same, with one claim of each engine |
| `harness_run` | Do a run's counts, score, corpus and ratchet hold whatever is late, lost or refused, and does it end? | 2 requests at once, 2 texts, 2 runs, 1 run listed, crashes without bound |

**Why the bounds are enough.** Each was chosen as the smallest at which every
action fires and every fault is caught. In `key_spine` the version bound of 4 is a
create, an issue, a revocation and one mutation after it, which is what it takes
to lose a saved change, restart and reuse its version. More apps, keys, gateways
and routes are covered by the theorems, which are about all of them; scope in
particular (one route here) is part of `ExpiryAtTheEdge`. In `pattern_pack` a list
of two terms grows by one or overflows, of the three a run may bring, and owners write
gates and deny lists for one type only, the one whose gates the flywheel also proposes
(the other kinds of rows are in `pattern_spine`). In `pattern_spine` two rules give every pair of
packs a reload can straddle: both, either, neither. In `report_delivery` four
callers fill a ring of three while a push of two chunks is outstanding, on both
occasions on which the ring gives something up; two of them make a chunk over the
cap of the decoder, and between them they touch most of the counters, some by more than one. In `pipeline` three spans are what
it takes for a chain of overlaps whose ends do not overlap, with a merged extent
longer than any claim; a walk is given results within results and inputs one level
over the depth bound, which is 1 instead of 32; and a stream of two lines has every
position of a cut relative to a newline, and a line over a cap of four. In `enforcement` one tick is any time up to the age at
which a heartbeat is half way to stale, a heartbeat may arrive a tick late, and one entry is a full map; that a claim is true of
the gateway that made it, and not of another, is what `ClaimsAreHonest` proves for
any number of them. In `harness_run` two requests may share a text or not, one
may fail while the other is answered, and the second run meets the corpus, the
full list and the disk the first one left.

**Fairness.** Every liveness run assumes only what a goroutine's loop gives:
a gateway that can ask, be served or install again and again does (strong
fairness, because the other process may be restarted in between, without any
bound on how often), a process that is down is started again, a save ends. Time
passes. The emitter goes on ticking (`main.go:93` starts it unless
`AIRTRAFFIC_EMIT=off`, and then `DriftSettles` is not claimed). A run of the harness is scheduled, and the
timeout of its client fires; that answers or reports come is not assumed. Nothing is assumed
of operators, callers, disks or the network beyond this, and posts may fail for
ever except in `EveryReportSettles`, which says when a report is settled if posts
do not always fail: `FairEmit` has one weak fairness condition for the goroutine
(a tick, or the end of the batch it is posting) and a strong one each for a chunk
taken and a chunk refused.

**What the violation runs show** is in `PROJECT.json` under "findings", with the
line that says otherwise: a save that failed and a restart let two contents share
a version, and a gateway keeps the older one; a reload that adds a suppression and
a rule at once lets a request between its two halves miss what both packs find;
an unreadable `patterns.json` empties the pack of every gateway; the strings of a
tool's input that is an array are not scanned.

## 4. Proofs

Eight modules, checked by TLAPS for every value of the constants that satisfies the
named assumptions: any number of apps, keys, routes, gateways, proposals, reports,
requests, fields and claims, and any order of their steps. Every invariant below was
first checked by TLC on the run of its module (that of the stream with its
quantifier over texts bounded by the ends of a line).

*Keystore* (`KeySpineProofs`). The inductive invariant is
`IInv == TypeOK /\ FileInv /\ GenuineInv /\ AckedInv /\ HistoryInv`. Type
correctness alone says nothing of files that a later boot will read, nor of
answers under way. `FileInv` relates the two files to memory in each state of a
save; `GenuineInv` says that every record anywhere (memory, either file, an
answer, a snapshot at a gateway) is the one that was issued, perhaps revoked since;
`AckedInv` that a revocation acknowledged as durable is in every copy a boot may
read; `HistoryInv` that along one history versions name contents and tombstones
grow with them, which is what a version comparison rests on. With `VouchedInv`, that an
answer under way has the tombstones acknowledged when it was built, from it follow
`TypeCorrect`, `Durable`, `RevocationSurvives`, `VersionsNameContent`,
`ExpiryAtTheEdge`, the action property `RefusalsAreFinal`, and step by step the
refinement `KeystoreImplementsDurableKeys`.

*Pattern pack* (`EvidenceProofs`). `IInv == TypeOK /\ ListInv /\ PackInv /\
DurableInv /\ KeptInv /\ RunInv`. The list of proposals is ordered: no id comes
twice, of two thresholds of one type that the flywheel wrote the later is lower, and of
two of its lists no term is on both (`ListOK`); each operation on the list,
from the owner's decisions to the upserts and the superseding of a bare miss, has a lemma
that says what it keeps of settled rows. `PackInv` says what the pack is in
memory, on the way to the store and on disk, for a boot reads the one on disk;
`KeptInv` that memory never forgets a decision the disk has; `RunInv` what still holds
of evidence when the lock is taken. From it follow `PackHoldsApprovals`,
`NilErrorMeansDurable`, `AskedOnce`, and the action properties `DecisionsSurvive`,
`NewGatesAreLower` and `MissesAreAnswered`.

*Reload* (`PatternSpineProofs`). `ReloadInv` relates the parts of a gateway to the
phase of its install and, for a request, what it owes to what it holds: a type that
every pack in force finds is found, or is still among the raw claims of the half
that is to come. That proves `NothingLostInReload` whatever the control plane
serves, damaged files and lost saves included. `VersionNamesContent` and the action
property `RulesAreNotDropped` assume `SaveMayFail = FALSE` and
`FileMayCorrupt = FALSE`, as their run does. Without the second they
are false (`pattern_spine_unreadable`). Without the first a pack that is served and
not saved may be lost in a restart and its version used again. Hand-edited files
stay in. Their invariant adds to `ReloadInv` that
packs form a chain (`Below`: newer means more rules, same version same rules), that
what is served is at its head now and after a restart (`ServedInv`), and that a
gateway, its pull and what it installs follow on that chain (`Follows`).

*Policy* (`PolicySpineProofs`). `IInv == TypeOK /\ ReqTypeOK /\ StoresInv /\ SeenInv
/\ ActionOfAPolicyInForce`: at each step of a pull every atomic is that of the policy
being installed, if the pull has stored it, and else of the one before; so what a request
reads belongs to a policy in its history. From it follow `NilErrorMeansDurable`
and `ActionsOfPoliciesInForce`.

*Enforcement* (`EnforcementProofs`). A claim of age *a* needs a tick at most *a* ago in
which all of the claimer's posture gated. `HistoryInv` says that what was read for the
heartbeat being made has gated in this tick; `ClaimInv` carries it from the heartbeat
under way to the entry, and `ClaimsAreHonest` is its second half.

*Reports and counts* (`SpineEmitProofs`). `EmitImplementsDelivery` is the refinement of
`ReportDelivery` by the pusher, step by step. `OrderInv` (what is being pushed is
older than what was recorded since, and all of it is in order) and `TakenInv` (a
report that waits was taken only by posts nobody waited for) are inductive there and give
`RecordedReportsWait` and `RepeatsAreExplained` of the pusher. `NothingIsCountedTwice` is a
conservation law: every step moves counts between the uncounted requests, the windows,
the batch, the control plane and what is gone, for the counters that are sent. It needs
two facts that are not about sums: a batch exists only while it is posted, and no counter
but the refusals and the redactions, which are sent in any case, is above zero in a window
without requests, or `routeObservations` would leave it out.

*Pipeline* (`PipelineProofs`). The control flow: `IInv == ControlOK /\ SentInv /\ AuditInv /\
ReportTellsTruth /\ OneReportPerRequest`. `SentInv` says which of the three documents may
have been forwarded in which phase, `AuditInv` what the audit action means before the
report is written. From it follow `NothingUnfilteredIsForwarded`, `ReportsTellTheTruth`
and `OneReportEach`.

The data: `DataInv == DataOK /\ FieldsOK /\ ScanInv`. `DataOK` and `FieldsOK` say that claims and spans
lie in the text and that each claim is kept, merged into something kept, or lost with a span of
its engine that a filter rejected there; `ScanInv` that a field already scanned holds the merge of what was kept of
it, the field under way its own text, and the ones to come nothing. It rests on what
Merge and Mask compute, and those are folds. A fold of the community modules is a
function chosen by its equation, so each proof about one first shows that such a
function exists, by induction over the size of the index set. Induction itself is
`NatInd`, about a set instead of an operator and proved from the well-foundedness of
the naturals, for the library's induction theorems cannot be instantiated here. From then on the loop
of the code is reasoned about turn by turn. `MergeInv`: after each turn the spans are in
order and apart, each position of a claim is in one of them, each has the extent and the
type of claims absorbed, and the last bounds those to come. `Placed`: a text masked from the last span back is
the original with each span replaced, every other byte where it belongs. Both give
`MaskOfMerge`, that a merged and masked text is a masking of the claims as `Spans` defines it
without either, and with it `MaskingIsExact`, `ClaimsAreLostOnlyToAVeto` and
`PipelineTypeCorrect`.

The relay: `RelayImplementsOneStep` is the refinement of `Pipeline` by `StreamRelay`, step by
step; `StreamedRequestsKeepIt` carries `Pipeline`'s invariants into the middle of a stream.
`TokensAreCounted` is about how reads cut a stream. `LinesOfBoth` says which lines two
texts put together have: those of the first, and those that the second completes.
What the scanner carries is an end of the unfinished line, and all of it while it
is not over the cap (`Held`, `Carries`); what it counts is at least the usage of each
short line and no more than that of some end of a line (`Sound`). `StreamInv` keeps both
of the bytes read so far, whatever a read is (`CountFeeds`), through the end of the
stream (`CountEnds`) and when it breaks off. The theorems of the relay are about
`StreamSpec`; a step of `ProxyRequest` is one of it, or leaves its variables alone.

*Harness* (`HarnessRunProofs`). `IInv == Base /\ CountInv /\ FlyInv`. `Base` says that
an answer is that of the request's fate, and a report tells of one. `CountInv` says
that the counters of the run under way are the sizes of sets of requests; at the
score the failed, the blocked and those with a reported action are shown to be five
sets that do not overlap (`OutcomesAreApart`), so `RunsAreAdded`. `FlyInv` relates
memory to disk: the corpus lists its directory without repeats, the lines are
the series, one ahead between line and point; with what a boot reads back of a directory and
of a file of whole lines, `RestartLosesNothing`. `ScoreIsNoBetter` is the action property
of the score, from `Base` and the list of fates.

**Assumptions on constants** are what the code gives. The markers for nothing
(`Never` is no gateway id, `NoFile` no file) are no values of theirs: those of
`PatternPack` are records with versions no pack has. `Reports`, `Terms` and `Texts`
are finite or not empty where a ring, a list or a run needs it. A default gate lies above the lowest
one, and a gate that `proposeGate` builds is one the hard check of a
threshold accepts (`flywheel.go:41`, `:495-500`, `:573`). A text and a stream are sequences, and
a claim is a span of at least one byte in its text. The regex that
does not compile is a rule like any other (`BadRule`). A request is counted under
`requests`, whatever else it counts (`EmitAssumptions`).

*Model-checked only.* Liveness everywhere (TLAPS proves no ENABLED).
`EveryTextIsWalked` and `EveryInputLeafIsWalked` are about recursive definitions, which the provers cannot expand.
`GuardsTellRealFromAlike` is about the numbers of the instance: that a digit mistyped is
always noticed is a fact of arithmetic modulo 10 and 97, for which the check of every one-digit slip is the
better argument. `RefreshDrift`'s outcome is only in a liveness property.

## 5. Not modelled

* An operating-system crash. `writeAtomic` does not fsync; a crash here is the end
  of the process, and a rename that has returned is on disk.
* What a regex, Presidio or a language model finds; of the JSON of an answer all but its
  usage.
* The latency reservoirs of a metrics window, which go the way of its counters.
* HTTP itself: an answer arrives, fails, or comes too late.
* The sharing of one goroutine by heartbeats and pushes, except that a heartbeat may
  come late: how late a slow control plane may make it (`spine_emit.go:36`) is a question
  of durations. Nor is a silent gateway noticed where the emitter is off (`main.go:93`).
  These two hazards are listed without a property, and so are an evicted entry and a
  claim made up of two snapshots: they are steps of the model, and the code promises
  nothing of them.
* In the harness: the texts it generates around the values, span precision and rates,
  single samples. A ratchet line cut short makes `loadRatchet` drop every
  later point at a restart; `FlywheelIsDurable` excepts that case, and so does
  `CaughtIsCaught` the upstream's own 400 whose report is missing.
* The parts marked `not_modelled` in `PROJECT.json`, with the reason each has.

## 6. Plan

Built in the order of what the rest depends on: keys, pack, policy, reports,
requests, enforcement, the harness; then the metrics windows with the reports, the
evidence of the flywheel, the walk of a body, the guards and the stream with the
request. Small components share a run with the component they touch, so that each
run answers one question.

What is left to model: the coverage report of an apply and the drift of
environment-managed surfaces, the audit events made from reports, the sizes `Clamp`
leaves, the in-memory rings with their two resets, the host guard.

Proofs: each safety property but the two named above has one now. What may follow is
the refinement of the reports of `Pipeline` into `ReportDelivery`.
