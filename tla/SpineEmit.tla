------------------------------ MODULE SpineEmit ------------------------------
(***************************************************************************)
(* The gateway's two upward feeds and the one goroutine that pushes them.  *)
(* A request is added to the report ring (ReportDelivery) and then counted *)
(* in the metrics window of its route; a caller refused at authentication  *)
(* is counted and not reported. On each tick RunSpine drains the windows   *)
(* and posts what they hold as one batch of observations, then pushes the  *)
(* reports. A batch that fails is not put back: the counts are lost, the   *)
(* reports of the same requests are kept.                                  *)
(*                                                                         *)
(* A window is its counters, the redactions counted type by type. Left out *)
(* are the latency reservoirs, which are sent as percentiles.              *)
(***************************************************************************)
EXTENDS ReportDelivery

CONSTANTS
    Routes,       \* the dialects served
    Route,        \* report -> the route that served the request
    Types,        \* what a redaction may be of
    Adds,         \* report -> counter -> what metrics.observe adds to it
    MaxCalls      \* bound on the callers, recorded or refused

Named == {"requests", "blocked", "masked", "detectOnly", "failTrips", "errors",
          "authFailures", "tokensIn", "tokensOut"}
Counters == Named \cup Types

\* A drained "detectOnly" is in no observation: routeObservations has none for it.
SentCounters == Counters \ {"detectOnly"}

ASSUME EmitAssumptions ==
    /\ Types \cap Named = {}
    /\ Route \in [Reports -> Routes]
    /\ Adds \in [Reports -> [Counters -> Nat]]
    /\ \A r \in Reports : Adds[r]["requests"] = 1 /\ Adds[r]["authFailures"] = 0
    /\ MaxCalls \in Nat

VARIABLES
    phase,      \* what RunSpine's goroutine is at
    unobserved, \* requests in the ring whose handler has yet to count them
    window,     \* route -> routeMetrics.byRoute
    batch,      \* route -> what was drained and is being posted
    refused,    \* history: callers refused
    counted,    \* history: route -> counts the control plane took
    gone        \* history: route -> counts lost to a failed post or a crash

emit == <<phase, unobserved, window, batch, refused, counted, gone>>
allVars == <<vars, emit>>

Zero == [rt \in Routes |-> [c \in Counters |-> 0]]
Plus(a, b) == [rt \in Routes |-> [c \in Counters |-> a[rt][c] + b[rt][c]]]
\* What one request, or one refused caller, adds.
Of(route, adds) ==
    [rt \in Routes |-> [c \in Counters |-> IF rt = route THEN adds[c] ELSE 0]]
OfReport(r) == Of(Route[r], Adds[r])
OfRefusal(route) == Of(route, [c \in Counters |-> IF c = "authFailures" THEN 1 ELSE 0])

\* What the requests of a set add, one unit for each time one of them adds one.
Units(rs, rt, c) == UNION {{r} \X (1 .. Adds[r][c]) : r \in {q \in rs : Route[q] = rt}}
OfReports(rs) == [rt \in Routes |-> [c \in Counters |-> Cardinality(Units(rs, rt, c))]]
-----------------------------------------------------------------------------
EmitInit ==
    /\ Init
    /\ phase = "idle"
    /\ unobserved = {}
    /\ window = Zero /\ batch = Zero
    /\ refused = Zero
    /\ counted = Zero /\ gone = Zero

Calls == next - 1 + FoldFunction(LAMBDA w, n : w["authFailures"] + n, 0, refused)

\* Server.record: the ring first, the window after it.
RecordReport ==
    /\ Calls < MaxCalls
    /\ Record
    /\ unobserved' = unobserved \cup {next}
    /\ UNCHANGED <<phase, window, batch, refused, counted, gone>>

Observe(r) ==
    /\ unobserved' = unobserved \ {r}
    /\ window' = Plus(window, OfReport(r))
    /\ UNCHANGED <<vars, phase, batch, refused, counted, gone>>

\* requireClientKey counts the caller on the route it asked for.
RefuseCaller(route) ==
    /\ Calls < MaxCalls
    /\ window' = Plus(window, OfRefusal(route))
    /\ refused' = Plus(refused, OfRefusal(route))
    /\ UNCHANGED <<vars, phase, unobserved, batch, counted, gone>>
-----------------------------------------------------------------------------
EmitRest == UNCHANGED <<unobserved, window, batch, refused, counted, gone>>

\* pushReports begins: the ring is drained, if there is anything in it.
PushReports ==
    \/ Drain /\ phase' = "pushing"
    \/ ring = <<>> /\ phase' = "idle" /\ UNCHANGED vars

\* A tick that finds the windows empty posts no batch.
TickOfReports ==
    /\ phase = "idle"
    /\ window = Zero
    /\ PushReports
    /\ EmitRest

\* Fault: the reset leaves the authentication failures in the window.
DrainedButFailures ==
    /\ batch' = window
    /\ window' = [rt \in Routes |->
                    [Zero[rt] EXCEPT !["authFailures"] = window[rt]["authFailures"]]]

\* metrics.drain, of each window.
Drained == batch' = window /\ window' = Zero

\* routeMetrics.drain. It takes one window after the other: a request counted
\* meanwhile is in this batch or the next, as if before or after the drain.
Tick ==
    /\ phase = "idle"
    /\ window # Zero
    /\ phase' = "posting"
    /\ Drained
    /\ UNCHANGED <<vars, unobserved, refused, counted, gone>>

\* routeObservations: the refusals and the redactions of every route, the rest
\* of a route with requests ("blocked" as its ratio to them), "detectOnly" of none.
Sent(w) ==
    [rt \in Routes |-> [c \in Counters |->
        IF /\ c \in SentCounters
           /\ w[rt]["requests"] > 0 \/ c \in {"authFailures"} \cup Types
        THEN w[rt][c] ELSE 0]]

BatchTaken ==
    /\ phase = "posting"
    /\ counted' = Plus(counted, Sent(batch))
    /\ batch' = Zero
    /\ PushReports
    /\ UNCHANGED <<unobserved, window, refused, gone>>

\* Logged, and not put back. Nor is a batch whose answer was not waited for:
\* the control plane may have taken it (BatchTaken) or not.
BatchFails ==
    /\ phase = "posting"
    /\ gone' = Plus(gone, batch)
    /\ batch' = Zero
    /\ PushReports
    /\ UNCHANGED <<unobserved, window, refused, counted>>
-----------------------------------------------------------------------------
(***************************************************************************)
(* pushReports on the same goroutine: its steps are those of               *)
(* ReportDelivery, and the next tick is not looked at before it returns.   *)
(***************************************************************************)
PushEnds == phase' = IF pushing' = <<>> THEN "idle" ELSE phase

TakeChunk == Take /\ PushEnds /\ EmitRest
RejectChunk == Reject /\ PushEnds /\ EmitRest
ChunkFails == PostFails /\ PushEnds /\ EmitRest
GiveUpOnChunk == GiveUp /\ PushEnds /\ EmitRest
LateChunkTaken == TakeLate /\ UNCHANGED emit

ControlPlaneRestarts == RestartControlPlane /\ UNCHANGED emit

\* Requests being served end with the process, counted or not.
GatewayCrashes ==
    /\ CrashGateway
    /\ gone' = Plus(gone, Plus(OfReports(unobserved), Plus(window, batch)))
    /\ phase' = "idle"
    /\ unobserved' = {}
    /\ window' = Zero /\ batch' = Zero
    /\ UNCHANGED <<refused, counted>>

EmitNext ==
    \/ RecordReport
    \/ \E r \in unobserved : Observe(r)
    \/ \E rt \in Routes : RefuseCaller(rt)
    \/ Tick
    \/ TickOfReports
    \/ BatchTaken
    \/ BatchFails
    \/ TakeChunk
    \/ RejectChunk
    \/ ChunkFails
    \/ GiveUpOnChunk
    \/ LateChunkTaken
    \/ ControlPlaneRestarts
    \/ GatewayCrashes

EmitSpec == EmitInit /\ [][EmitNext]_allVars

(***************************************************************************)
(* Fairness: RunSpine's goroutine runs, every post of a batch ends within  *)
(* its timeout, and posts of reports that are tried again and again are    *)
(* not all failures. Requests, refusals and crashes are free to happen.    *)
(***************************************************************************)
FairEmit ==
    /\ EmitSpec
    /\ WF_allVars(Tick \/ TickOfReports \/ BatchTaken \/ BatchFails)
    /\ SF_allVars(TakeChunk)
    /\ SF_allVars(RejectChunk)
-----------------------------------------------------------------------------
(***************************************************************************)
(* The counters routeObservations sends add up, on every route: what the   *)
(* requests recorded and the callers refused should have added is in a     *)
(* window, in a batch, with the control plane, or gone with a failed post  *)
(* or a crash. So nothing is counted twice in the observation feed,        *)
(* although reports may arrive twice; a lost batch takes no other with it; *)
(* and no batch that is taken leaves one of these counts behind. The sum   *)
(* says nothing of "detectOnly", which observe counts and drain resets and *)
(* no batch carries (metrics.go:86-87, spine_emit.go:91-118), nor of the   *)
(* latencies.                                                              *)
(***************************************************************************)
CountsAddUp ==
    \A rt \in Routes, c \in SentCounters :
        refused[rt][c] + OfReports(1 .. next - 1)[rt][c] =
            counted[rt][c] + gone[rt][c] + OfReports(unobserved)[rt][c]
                + window[rt][c] + batch[rt][c]
=============================================================================
