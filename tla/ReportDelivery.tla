--------------------------- MODULE ReportDelivery ---------------------------
(***************************************************************************)
(* The report path: a gateway records one report per request in a bounded  *)
(* ring; every interval pushReports drains it and posts it in chunks; a    *)
(* chunk the control plane can never accept is dropped, any other failure  *)
(* puts the rest back at the front. The control plane appends to a bounded *)
(* ring of its own. A post may be given up on while the control plane is   *)
(* still handling it, so a report may arrive twice, and out of order.      *)
(*                                                                         *)
(* Reports are numbered as they are recorded; of their content only the    *)
(* size of the encoding matters here.                                      *)
(***************************************************************************)
EXTENDS Integers, Sequences, FiniteSets, SequencesExt, FiniteSetsExt

CONSTANTS
    Reports,     \* 1 .. n, in the order they are recorded
    Size,        \* the encoded size of each report, after Clamp
    RingMax,     \* auditRingMax
    ChunkMax,    \* reports per post, on both sides
    BodyMax,     \* the control plane's decoder cap
    StoreMax,    \* ringMax of the control plane
    MaxLate      \* bound on the posts given up on and handled all the same

ASSUME ReportAssumptions ==
    /\ IsFiniteSet(Reports) /\ Reports = 1 .. Cardinality(Reports)
    /\ Size \in [Reports -> Nat]
    /\ \A r \in Reports : Size[r] <= BodyMax
    /\ RingMax \in Nat \ {0} /\ ChunkMax \in Nat \ {0} /\ StoreMax \in Nat \ {0}
    /\ MaxLate \in Nat

VARIABLES
    next,     \* the next report to be recorded
    ring,     \* auditRing.buf
    pushing,  \* this push: what is not settled, its first chunk being posted
    late,     \* chunks whose post was given up on and may still be handled
    store,    \* Store.gwReports
    ingested, \* history: report -> how often the control plane took it
    unheard,  \* history: how many chunks it took after the gateway gave up
    lost      \* history: reports a full ring had no room for, of chunks answered
              \* 400 or 413, or in a gateway that crashed

gateway == <<next, ring, pushing>>
vars == <<gateway, late, store, ingested, unheard, lost>>

Newest(s, n) == IF Len(s) <= n THEN s ELSE SubSeq(s, Len(s) - n + 1, Len(s))
Oldest(s, n) == IF Len(s) <= n THEN s ELSE SubSeq(s, 1, n)

ChunkOf(s) == Oldest(s, ChunkMax)
RestOf(s) == SubSeq(s, ChunkMax + 1, Len(s))
Bytes(chunk) == FoldSeq(LAMBDA r, n : Size[r] + n, 0, chunk)
-----------------------------------------------------------------------------
Init ==
    /\ next = 1
    /\ ring = <<>>
    /\ pushing = <<>>
    /\ late = {}
    /\ store = <<>>
    /\ ingested = [r \in Reports |-> 0]
    /\ unheard = 0
    /\ lost = {}

\* auditRing.add: a full ring gives up its oldest report.
Record ==
    /\ next \in Reports
    /\ next' = next + 1
    /\ ring' = Newest(Append(ring, next), RingMax)
    /\ lost' = lost \cup (ToSet(Append(ring, next)) \ ToSet(ring'))
    /\ UNCHANGED <<pushing, late, store, ingested, unheard>>

\* pushReports begins: the ring is taken whole, requests go on recording.
Drain ==
    /\ pushing = <<>>
    /\ ring # <<>>
    /\ pushing' = ring
    /\ ring' = <<>>
    /\ UNCHANGED <<next, late, store, ingested, unheard, lost>>

\* Fault: only the chunk that failed is put back.
RequeueChunk ==
    /\ pushing' = <<>>
    /\ ring' = Oldest(ChunkOf(pushing) \o ring, RingMax)
    /\ lost' = lost \cup (ToSet(ChunkOf(pushing) \o ring) \ ToSet(ring'))

\* auditRing.requeue: back at the front; a full ring gives up its newest.
Requeue ==
    /\ pushing' = <<>>
    /\ ring' = Oldest(pushing \o ring, RingMax)
    /\ lost' = lost \cup (ToSet(pushing \o ring) \ ToSet(ring'))

Fits(chunk) == Bytes(chunk) <= BodyMax

\* AddGatewayReports.
Ingest(chunk) ==
    /\ store' = Newest(store \o chunk, StoreMax)
    /\ ingested' = [r \in Reports |-> IF r \in ToSet(chunk) THEN ingested[r] + 1
                                      ELSE ingested[r]]

\* Fault: the next chunk starts one report early.
TakeAndStepBack ==
    /\ pushing # <<>>
    /\ Fits(ChunkOf(pushing))
    /\ Ingest(ChunkOf(pushing))
    /\ pushing' = IF Len(pushing) <= ChunkMax THEN <<>>
                  ELSE SubSeq(pushing, ChunkMax, Len(pushing))
    /\ UNCHANGED <<next, ring, late, unheard, lost>>

Take ==
    /\ pushing # <<>>
    /\ Fits(ChunkOf(pushing))
    /\ Ingest(ChunkOf(pushing))
    /\ pushing' = RestOf(pushing)
    /\ UNCHANGED <<next, ring, late, unheard, lost>>

\* Fault: a chunk too large is tried again.
RejectAndRequeue ==
    /\ pushing # <<>>
    /\ ~Fits(ChunkOf(pushing))
    /\ Requeue
    /\ UNCHANGED <<next, late, store, ingested, unheard>>

\* 400 from a decoder that saw a body cut off at its cap: drop and go on.
Reject ==
    /\ pushing # <<>>
    /\ ~Fits(ChunkOf(pushing))
    /\ lost' = lost \cup ToSet(ChunkOf(pushing))
    /\ pushing' = RestOf(pushing)
    /\ UNCHANGED <<next, ring, late, store, ingested, unheard>>

\* The control plane is down, unreachable or of another mind about the key.
PostFails ==
    /\ pushing # <<>>
    /\ Requeue
    /\ UNCHANGED <<next, late, store, ingested, unheard>>

\* No answer within the timeout: the handler may be at work all the same.
GiveUp ==
    /\ pushing # <<>>
    /\ Fits(ChunkOf(pushing))
    /\ Cardinality(late) + unheard < MaxLate
    /\ late' = late \cup {ChunkOf(pushing)}
    /\ Requeue
    /\ UNCHANGED <<next, store, ingested, unheard>>

TakeLate ==
    \E chunk \in late :
        /\ Ingest(chunk)
        /\ late' = late \ {chunk}
        /\ unheard' = unheard + 1
        /\ UNCHANGED <<gateway, lost>>

RestartControlPlane ==
    /\ store' = <<>>
    /\ late' = {}
    /\ UNCHANGED <<gateway, ingested, unheard, lost>>

CrashGateway ==
    /\ lost' = lost \cup ToSet(ring) \cup ToSet(pushing)
    /\ ring' = <<>>
    /\ pushing' = <<>>
    /\ UNCHANGED <<next, late, store, ingested, unheard>>

Next ==
    \/ Record
    \/ Drain
    \/ Take
    \/ Reject
    \/ PostFails
    \/ GiveUp
    \/ TakeLate
    \/ RestartControlPlane
    \/ CrashGateway

Spec == Init /\ [][Next]_vars
-----------------------------------------------------------------------------
Settled(r) == ingested[r] > 0 \/ r \in lost

TypeOK ==
    /\ next \in 1 .. Cardinality(Reports) + 1
    /\ ring \in Seq(Reports) /\ Len(ring) <= RingMax
    /\ pushing \in Seq(Reports) /\ Len(pushing) <= RingMax
    /\ late \subseteq Seq(Reports)
    /\ store \in Seq(Reports) /\ Len(store) <= StoreMax
    /\ ingested \in [Reports -> Nat]

(***************************************************************************)
(* A recorded report waits to be pushed until it was taken, or was lost to *)
(* a full ring, a chunk the control plane refuses, or a crash of the       *)
(* gateway: a failed push by itself loses nothing. And what waits does so  *)
(* oldest first: a report is never behind one recorded after it, whatever  *)
(* failed in between, and never twice.                                     *)
(***************************************************************************)
ReportsWaitInOrder ==
    LET waiting == pushing \o ring IN
    /\ \A r \in 1 .. next - 1 : Settled(r) \/ r \in ToSet(waiting)
    /\ \A i, j \in DOMAIN waiting : i < j => waiting[i] < waiting[j]

(***************************************************************************)
(* A report is taken again only because the answer to an earlier post was  *)
(* not waited for.                                                         *)
(***************************************************************************)
RepeatsAreUnheardAnswers ==
    \A r \in Reports : ingested[r] <= 1 + unheard

(***************************************************************************)
(* Every report is settled in the end: no chunk stays at the head of the   *)
(* ring and keeps the others from the control plane. Settled for good, so  *)
(* it is enough that all those recorded are, again and again.              *)
(***************************************************************************)
EveryReportSettles == []<>(\A r \in 1 .. next - 1 : Settled(r))
=============================================================================
