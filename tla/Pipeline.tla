------------------------------ MODULE Pipeline ------------------------------
(***************************************************************************)
(* One request through proxyRequest: resolve the action, read the body,    *)
(* scan every text field with every engine of the chain, mask, decide,     *)
(* forward, relay, record. The policy may change at any time; the request  *)
(* keeps the action it resolved. Requests share nothing else but the rings *)
(* of ReportDelivery, so one at a time is enough.                          *)
(*                                                                         *)
(* A body is its text fields, all of the same text, a sequence of          *)
(* distinguishable bytes; which claims an engine makes of a field is       *)
(* chosen from a set per field. A type guard or an allow-list entry looks  *)
(* at a type and at the text between two offsets: Vetoed names the spans   *)
(* one of them rejects. Offsets of claims lie in the text.                 *)
(***************************************************************************)
EXTENDS Spans, FiniteSets

CONSTANTS
    Text,
    NFields,
    Detectors,      \* the engines of the chain, in order
    Claims,         \* field -> engine -> the claims it may make
    MaxClaims,      \* bound on the claims one engine makes of one field
    Vetoed,         \* {<<type, start, end>>}
    NoBody, NoReport

Fields == 1 .. NFields
Actions == {"mask", "block", "detect"}
FailModes == {"open", "closed"}
Engines == {"regex", "presidio"}
Errors == {"", "no_upstream", "body_unreadable", "invalid_json", "credential_unavailable",
           "upstream_url_unusable", "request_build_failed", "upstream_unreachable"}
Reports == [action : Actions \cup {"pass"}, error : Errors,
            upstream : BOOLEAN, failModeTripped : BOOLEAN]
Found(f) == Claims[f]["regex"] \cup Claims[f]["presidio"]

ASSUME PipelineAssumptions ==
    /\ Text \in Seq(ToSet(Text))
    /\ NFields \in Nat \ {0} /\ MaxClaims \in Nat
    /\ Detectors \in {<<"regex">>, <<"presidio">>, <<"regex", "presidio">>}
    /\ Claims \in [Fields -> [Engines -> SUBSET
            [start : 0 .. Len(Text), end : 0 .. Len(Text), type : STRING, conf : Nat]]]
    /\ \A f \in Fields : \A sp \in Found(f) : sp.start < sp.end
    /\ NoReport \notin Reports

VARIABLES
    policyAction,   \* what resolveAction yields for the caller now
    failMode,       \* cfg.FailMode, read at boot
    phase,          \* where in proxyRequest
    action,         \* the action resolved for this request
    field, engine,  \* the field being scanned, the engine to scan it next
    all,            \* the spans of this field that passed the filters
    doc,            \* the decoded document: its fields as they now are
    spans,          \* field -> the merged spans found in it
    failed,         \* an engine failed on some field
    audit,          \* audit.Action
    forwarded,      \* what the upstream was sent
    report,         \* the last report recorded
    reports,        \* history: reports recorded for this request
    claimed,        \* history: field -> engine -> every claim it made
    kept,           \* history: field -> every span that passed the filters
    rejected        \* history: field -> engine -> every span one of them rejected

history == <<claimed, kept, rejected>>
scanning == <<field, engine, all, doc, spans, failed, history>>
recorded == <<report, reports>>
vars == <<policyAction, failMode, phase, action, scanning, audit, forwarded, recorded>>

Original == [f \in Fields |-> Text]
Nothing == [f \in Fields |-> <<>>]
NoSpans == [f \in Fields |-> [e \in Engines |-> {}]]
Redacted == \E f \in Fields : spans[f] # <<>>
Final == {"idle", "refused", "done"}
-----------------------------------------------------------------------------
Init ==
    /\ policyAction \in Actions
    /\ failMode \in FailModes
    /\ phase = "idle"
    /\ action \in Actions
    /\ field = 1 /\ engine = 1 /\ all = {}
    /\ doc = Original /\ spans = Nothing /\ failed = FALSE
    /\ claimed = NoSpans /\ rejected = NoSpans /\ kept = [f \in Fields |-> {}]
    /\ audit = "pass"
    /\ forwarded = NoBody
    /\ report = NoReport /\ reports = 0

\* A pull, or a request of an app with another baseline.
PolicyChanges ==
    /\ policyAction' \in Actions \ {policyAction}
    /\ UNCHANGED <<failMode, phase, action, scanning, audit, forwarded, recorded>>

Fresh ==
    /\ field' = 1 /\ engine' = 1 /\ all' = {}
    /\ doc' = Original /\ spans' = Nothing /\ failed' = FALSE
    /\ claimed' = NoSpans /\ rejected' = NoSpans /\ kept' = [f \in Fields |-> {}]
    /\ audit' = "pass"
    /\ forwarded' = NoBody
    /\ report' = NoReport /\ reports' = 0

\* requireClientKey: counted, never reported.
Refuse ==
    /\ phase \in Final
    /\ phase' = "refused"
    /\ Fresh
    /\ UNCHANGED <<policyAction, failMode, action>>

Resolve ==
    /\ phase \in Final
    /\ phase' = "read"
    /\ action' = policyAction
    /\ Fresh
    /\ UNCHANGED <<policyAction, failMode>>

\* record, for an exit on which the gateway (or the upstream) answered.
Record(act, err, up) ==
    /\ phase' = "done"
    /\ report' = [action |-> act, error |-> err, upstream |-> up, failModeTripped |-> failed]
    /\ reports' = reports + 1

\* No upstream for the route, a body too large or cut short, not JSON.
Unreadable ==
    /\ phase = "read"
    /\ \E err \in {"no_upstream", "body_unreadable", "invalid_json"} : Record(audit, err, FALSE)
    /\ UNCHANGED <<policyAction, failMode, action, scanning, audit, forwarded>>

ReadBody ==
    /\ phase = "read"
    /\ phase' = "scan"
    /\ UNCHANGED <<policyAction, failMode, action, scanning, audit, forwarded, recorded>>
-----------------------------------------------------------------------------
(***************************************************************************)
(* Chain.Run on one field. The regex engine merges what it found itself,   *)
(* so it is its merged spans that guards and allow lists look at.          *)
(***************************************************************************)
\* Fault: an entry rejects what lies between its offsets, of whichever type.
PassesByPlace(sp) == \A v \in Vetoed : ~(v[2] = sp.start /\ v[3] = sp.end)

Passes(sp) == <<sp.type, sp.start, sp.end>> \notin Vetoed

ClaimSets(f, e) ==
    {C \in SUBSET Claims[f][e] : IsFiniteSet(C) /\ Cardinality(C) <= MaxClaims}

\* Fault: the offsets of the first span move those of the spans behind it.
MaskLeftToRight(found) == FoldLeft(Splice, doc[field], found)

Masked(found) == Mask(doc[field], found)

EngineRuns(C, found, err) ==
    LET e == Detectors[engine]
        more == {sp \in found : Passes(sp)}
    IN  /\ engine' = engine + 1
        /\ all' = all \cup more
        /\ claimed' = [claimed EXCEPT ![field][e] = @ \cup C]
        /\ kept' = [kept EXCEPT ![field] = @ \cup more]
        /\ rejected' = [rejected EXCEPT ![field][e] = @ \cup (found \ more)]
        /\ failed' = (failed \/ err)
        /\ UNCHANGED <<policyAction, failMode, phase, action, field, doc, spans, audit,
                       forwarded, recorded>>

Scans(e) == phase = "scan" /\ engine <= Len(Detectors) /\ Detectors[engine] = e

\* Merged by the engine, and without a way to fail.
RegexDetects ==
    /\ Scans("regex")
    /\ \E C \in ClaimSets(field, "regex") : \E s \in SortedSeqs(C) :
        EngineRuns(C, ToSet(Merge(s)), FALSE)

PresidioDetects ==
    /\ Scans("presidio")
    /\ \E C \in ClaimSets(field, "presidio") : EngineRuns(C, C, FALSE)

\* Presidio down or slower than the chain's timeout, or the caller gone.
PresidioFails ==
    /\ Scans("presidio")
    /\ EngineRuns({}, {}, TRUE)

EndField ==
    /\ phase = "scan"
    /\ engine = Len(Detectors) + 1
    /\ \E s \in SortedSeqs(all) :
        /\ spans' = [spans EXCEPT ![field] = Merge(s)]
        /\ doc' = IF action = "mask" THEN [doc EXCEPT ![field] = Masked(Merge(s))] ELSE doc
    /\ engine' = 1 /\ all' = {}
    /\ IF field = NFields THEN phase' = "decide" /\ UNCHANGED field
       ELSE field' = field + 1 /\ UNCHANGED phase
    /\ UNCHANGED <<policyAction, failMode, action, failed, history, audit, forwarded, recorded>>
-----------------------------------------------------------------------------
FailClosed ==
    /\ phase = "decide"
    /\ failed /\ failMode = "closed"
    /\ audit' = "block"
    /\ Record("block", "", FALSE)
    /\ UNCHANGED <<policyAction, failMode, action, scanning, forwarded>>

\* Fault: the policy is asked again, after the scan.
DecideAnew ==
    /\ phase = "decide" /\ ~(failed /\ failMode = "closed")
    /\ ~(Redacted /\ action = "block")
    /\ audit' = IF Redacted THEN policyAction ELSE audit
    /\ phase' = "forward"
    /\ UNCHANGED <<policyAction, failMode, action, scanning, forwarded, recorded>>

\* Fault: a failed engine matters only when nothing was found without it.
GoesOnFindings == phase = "decide" /\ (Redacted \/ ~(failed /\ failMode = "closed"))

Goes == phase = "decide" /\ ~(failed /\ failMode = "closed")

Block ==
    /\ Goes
    /\ Redacted /\ action = "block"
    /\ audit' = "block"
    /\ Record("block", "", FALSE)
    /\ UNCHANGED <<policyAction, failMode, action, scanning, forwarded>>

\* The audit says what was done. A decoded document always encodes again, so
\* rewrite_failed is left out.
Decide ==
    /\ Goes
    /\ ~(Redacted /\ action = "block")
    /\ audit' = IF Redacted THEN action ELSE audit
    /\ phase' = "forward"
    /\ UNCHANGED <<policyAction, failMode, action, scanning, forwarded, recorded>>

CannotForward ==
    /\ phase = "forward"
    /\ \E err \in {"credential_unavailable", "upstream_url_unusable", "request_build_failed"} :
        Record(audit, err, FALSE)
    /\ UNCHANGED <<policyAction, failMode, action, scanning, audit, forwarded>>

\* Nothing redacted: the caller's own bytes, not the decoded document.
Forward ==
    /\ phase = "forward"
    /\ phase' = "sent"
    /\ forwarded' = IF audit = "mask" THEN doc ELSE Original
    /\ UNCHANGED <<policyAction, failMode, action, scanning, audit, recorded>>

Unreachable ==
    /\ phase = "sent"
    /\ Record(audit, "upstream_unreachable", FALSE)
    /\ UNCHANGED <<policyAction, failMode, action, scanning, audit, forwarded>>

\* Fault: a relay that is cut off returns before the record.
RelayOrReturn ==
    /\ phase = "sent"
    /\ \/ Record(audit, "", TRUE)
       \/ phase' = "done" /\ UNCHANGED recorded
    /\ UNCHANGED <<policyAction, failMode, action, scanning, audit, forwarded>>

\* Relayed to the end or cut off: recorded all the same.
Relay ==
    /\ phase = "sent"
    /\ Record(audit, "", TRUE)
    /\ UNCHANGED <<policyAction, failMode, action, scanning, audit, forwarded>>

Next ==
    \/ PolicyChanges
    \/ Refuse
    \/ Resolve
    \/ Unreadable
    \/ ReadBody
    \/ RegexDetects
    \/ PresidioDetects
    \/ PresidioFails
    \/ EndField
    \/ FailClosed
    \/ Block
    \/ Decide
    \/ CannotForward
    \/ Forward
    \/ Unreachable
    \/ Relay

Spec == Init /\ [][Next]_vars
-----------------------------------------------------------------------------
Phases == Final \cup {"read", "scan", "decide", "forward", "sent"}

\* A span lies in the text and is not empty.
IsSpan(sp) ==
    /\ sp.start \in 0 .. Len(Text) /\ sp.end \in 0 .. Len(Text) /\ sp.start < sp.end
    /\ sp.type \in STRING /\ sp.conf \in Nat

\* The spans of a field come out of Merge in order and apart, as Mask needs them.
TypeOK ==
    /\ policyAction \in Actions /\ action \in Actions
    /\ failMode \in FailModes
    /\ phase \in Phases
    /\ field \in Fields /\ engine \in 1 .. Len(Detectors) + 1
    /\ audit \in Actions \cup {"pass"}
    /\ failed \in BOOLEAN
    /\ \A sp \in all : IsSpan(sp)
    /\ DOMAIN spans = Fields
    /\ \A f \in Fields, e \in Engines : claimed[f][e] \subseteq Claims[f][e]
    /\ \A f \in Fields : \A i, j \in DOMAIN spans[f] :
        IsSpan(spans[f][i]) /\ (i < j => spans[f][i].end <= spans[f][j].start)
    /\ report \in Reports \cup {NoReport}
    /\ reports \in Nat

(***************************************************************************)
(* What the upstream is sent under mask is, field by field, the text with  *)
(* exactly what passed the filters masked: all of it, whatever the engines *)
(* overlapped in, nothing else, at the right place, under the type of the  *)
(* most confident claim.                                                   *)
(***************************************************************************)
MaskIsExact ==
    forwarded # NoBody /\ action = "mask" =>
        \A f \in Fields : IsMaskingOf(forwarded[f], Text, kept[f])

(***************************************************************************)
(* A claim that is not wholly within what is reported and masked is lost   *)
(* to a filter that rejected, in this field of this request, a span of the *)
(* same engine the claim lies in: the claim itself, of Presidio's; of the  *)
(* regex engine's a stretch it merged, whose type is that of a claim in it *)
(* no less confident than the lost one. A guard or an allow-list entry     *)
(* rejects that type over just that stretch. So a claim of another type    *)
(* may be lost with a stretch it was merged into, and only so              *)
(* (regex.go:121, detector.go:104-111).                                    *)
(***************************************************************************)
LostWith(c, r, C, e) ==
    /\ r.start <= c.start /\ c.end <= r.end
    /\ <<r.type, r.start, r.end>> \in Vetoed
    /\ e = "presidio" => r = c
    /\ \E best \in C : /\ best.type = r.type /\ c.conf <= best.conf
                        /\ r.start <= best.start /\ best.end <= r.end

LostOnlyToAVeto ==
    phase = "decide" =>
        \A f \in Fields, e \in Engines : \A c \in claimed[f][e] :
            \/ \A p \in c.start + 1 .. c.end : Covered(ToSet(spans[f]), p)
            \/ \E r \in rejected[f][e] : LostWith(c, r, claimed[f][e], e)

(***************************************************************************)
(* Nothing goes upstream that the gateway was not sure to have filtered:   *)
(* under fail-closed no body an engine failed on, on whichever field;      *)
(* under block no body with anything found in it.                          *)
(***************************************************************************)
NothingUnfilteredForwarded ==
    forwarded # NoBody =>
        /\ failMode = "closed" => ~failed
        /\ action = "block" => ~Redacted

(***************************************************************************)
(* A report says of the request what was done to it. It names block when   *)
(* an engine failed under fail-closed, whatever the request had resolved   *)
(* (proxy.go:270-272); else, if something was found, the action the        *)
(* request resolved when it began, block, mask or detect; else pass. Under *)
(* block no body was sent; under mask, if any, the document MaskIsExact is *)
(* about; under detect and pass, if any, the caller's bytes. One was sent  *)
(* if the upstream answered. It has an error unless the upstream answered  *)
(* or the refusal was deliberate, and says if an engine failed.            *)
(***************************************************************************)
Verdict ==
    IF failed /\ failMode = "closed" THEN "block"
    ELSE IF Redacted THEN action ELSE "pass"

ReportTellsTruth ==
    report # NoReport =>
        /\ report.action = Verdict
        /\ report.failModeTripped <=> failed
        /\ report.error = "" <=> report.upstream \/ report.action = "block"
        /\ report.action = "block" => forwarded = NoBody
        /\ LET body == IF report.action = "mask" THEN doc ELSE Original
           IN  forwarded \in {NoBody, body} /\ (report.upstream => forwarded = body)

(***************************************************************************)
(* Every exit of an authenticated request records one report, a refused    *)
(* caller none.                                                            *)
(***************************************************************************)
OneReportPerRequest ==
    /\ phase = "done" <=> reports = 1
    /\ reports <= 1
    /\ report = NoReport <=> reports = 0
=============================================================================
