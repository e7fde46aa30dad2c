----------------------------- MODULE StreamRelay -----------------------------
(***************************************************************************)
(* The relay at the end of proxyRequest (Pipeline): the upstream's bytes   *)
(* go to the caller as they arrive, and a copy goes through the usage      *)
(* scanner of the route, which reads token counts off the data: lines of a *)
(* stream. Reads cut the stream anywhere; the caller or the upstream may   *)
(* go away at any time; what was counted by then is what is recorded.      *)
(*                                                                         *)
(* A byte here is a stretch of bytes that never matters by halves: Newline,*)
(* the head of a data: event up to its usage, one usage object, the rest   *)
(* of the event, and anything else. Input and output counts travel         *)
(* together; of the two dialects only the place of the usage differs.      *)
(*                                                                         *)
(* The relay depends on nothing the scan did, so it is looked at in detail *)
(* for the requests in which no engine claimed anything, and is the one    *)
(* step of Pipeline for the others.                                        *)
(***************************************************************************)
EXTENDS Pipeline

CONSTANTS
    Newline, Head0, Tail0,   \* "data: {...", "...}" around the usage
    UsageOf,                 \* usage object -> its input and output counts
    Streams,                 \* the bodies an upstream may stream
    Bodies,                  \* [in, out, fits]: those it may send as one JSON
    MaxLine,                 \* maxSSELineBytes
    NoStream

ASSUME RelayAssumptions ==
    /\ \A u \in DOMAIN UsageOf : UsageOf[u] \in [in : Nat, out : Nat]
    /\ Cardinality({Newline, Head0, Tail0}) = 3
    /\ {Newline, Head0, Tail0} \cap DOMAIN UsageOf = {}
    /\ Bodies \subseteq [in : Nat, out : Nat, fits : BOOLEAN]
    /\ MaxLine \in Nat \ {0}
    /\ NoStream \notin Streams
    /\ \A s \in Streams : s \in Seq(ToSet(s))

VARIABLES
    stream,    \* what the upstream streams
    relayed,   \* how much of it the caller was given, and the scanner fed
    ended,     \* the stream came to its end
    partial,   \* sseLineReader.partial
    tally,     \* tokenTally
    tokens     \* history: the counts of the report

relay == <<stream, relayed, ended, partial, tally, tokens>>
streamVars == <<vars, relay>>

None == [in |-> 0, out |-> 0]
Higher(a, b) == IF b > a THEN b ELSE a
\* tokenTally.take: the high-water mark of each count.
Highest(t, u) == [in |-> Higher(t.in, u.in), out |-> Higher(t.out, u.out)]

\* scanLine: a line that is not one whole data: event with a usage counts none.
Usage(line) ==
    IF /\ Len(line) = 3 /\ line[1] = Head0 /\ line[3] = Tail0
       /\ line[2] \in DOMAIN UsageOf
    THEN UsageOf[line[2]] ELSE None

\* The lines that end within s, without their newlines.
Newlines(s) == {i \in 1 .. Len(s) : s[i] = Newline}
Between(s, i, j) == i < j /\ \A k \in Newlines(s) : ~(i < k /\ k < j)
Lines(s) == {SubSeq(s, ij[1] + 1, ij[2] - 1) :
    ij \in {ij \in ({0} \cup Newlines(s)) \X Newlines(s) : Between(s, ij[1], ij[2])}}

\* Every line taken, in whatever order.
Scan(t, lines) ==
    [in |-> Max({t.in} \cup {Usage(l).in : l \in lines}),
     out |-> Max({t.out} \cup {Usage(l).out : l \in lines})]

LastNewline(s) == Max({0} \cup Newlines(s))

\* Fault: each read begins a line of its own.
FeedAfresh(chunk) ==
    LET last == LastNewline(chunk)
    IN  /\ tally' = Scan(tally, Lines(SubSeq(chunk, 1, last)))
        /\ partial' = SubSeq(chunk, last + 1, Len(chunk))

\* sseLineReader.feed: the partial line goes before the first newline of the
\* chunk; what is behind the last one is carried, unless it grew too long.
Feed(chunk) ==
    LET last == LastNewline(chunk)
        carried == IF last = 0 THEN partial ELSE <<>>
        rest == SubSeq(chunk, last + 1, Len(chunk))
    IN  /\ tally' = IF last = 0 THEN tally
                    ELSE Scan(tally, Lines(partial \o SubSeq(chunk, 1, last)))
        /\ partial' = IF rest # <<>> /\ Len(carried) + Len(rest) > MaxLine THEN <<>>
                      ELSE carried \o rest
-----------------------------------------------------------------------------
NoRelay ==
    /\ stream' = NoStream /\ relayed' = 0 /\ ended' = FALSE
    /\ partial' = <<>> /\ tally' = None /\ tokens' = None

RelayInit ==
    /\ Init
    /\ stream = NoStream /\ relayed = 0 /\ ended = FALSE
    /\ partial = <<>> /\ tally = None /\ tokens = None

Detailed == claimed = NoSpans
Request == UNCHANGED <<policyAction, failMode, action, scanning, audit, forwarded>>

\* The upstream answered with an event stream.
StreamBegins ==
    /\ phase = "sent" /\ Detailed
    /\ phase' = "relay"
    /\ stream' \in Streams
    /\ Request
    /\ UNCHANGED <<recorded, relayed, ended, partial, tally, tokens>>

Answered == Record(audit, "", TRUE) /\ Request

\* copyStreamWith: a read is written, then fed.
RelayChunk ==
    /\ phase = "relay" /\ ~ended
    /\ \E n \in 1 .. Len(stream) - relayed :
        /\ Feed(SubSeq(stream, relayed + 1, relayed + n))
        /\ relayed' = relayed + n
    /\ UNCHANGED <<vars, stream, ended, tokens>>

\* Fault: the line without a newline at the end is left unread.
EndUnflushed ==
    /\ phase = "relay" /\ relayed = Len(stream)
    /\ ended' = TRUE
    /\ partial' = <<>>
    /\ tokens' = tally
    /\ Answered
    /\ UNCHANGED <<stream, relayed, tally>>

\* EOF: flush scans the last line, newline or not.
StreamEnds ==
    /\ phase = "relay" /\ relayed = Len(stream)
    /\ ended' = TRUE
    /\ tally' = Highest(tally, Usage(partial))
    /\ partial' = <<>>
    /\ tokens' = tally'
    /\ Answered
    /\ UNCHANGED <<stream, relayed>>

\* Fault: an error of the copy returns before the record.
StreamCutSilently ==
    /\ phase = "relay"
    /\ tokens' = tally
    /\ phase' = "done"
    /\ Request
    /\ UNCHANGED <<recorded, stream, relayed, ended, partial, tally>>

\* The caller takes no more, or the upstream breaks off: what is counted is
\* recorded, and neither the chunk nor the partial line is scanned.
StreamCut ==
    /\ phase = "relay"
    /\ tokens' = tally
    /\ Answered
    /\ UNCHANGED <<stream, relayed, ended, partial, tally>>

\* relayWithUsage: a body that fits the limit is parsed once it is all with
\* the caller; cut off on either side, or longer than that, it counts none.
RelayJSON ==
    /\ phase = "sent" /\ Detailed
    /\ \E b \in Bodies : tokens' \in
        {None} \cup (IF b.fits THEN {[in |-> b.in, out |-> b.out]} ELSE {})
    /\ Answered
    /\ UNCHANGED <<stream, relayed, ended, partial, tally>>

\* What follows the reading of the body, and what does not belong to it.
RelayNext ==
    \/ (Refuse \/ Resolve) /\ NoRelay
    \/ /\ \/ PolicyChanges
          \/ Unreadable
          \/ RegexDetects
          \/ PresidioDetects
          \/ PresidioFails
          \/ EndField
          \/ FailClosed
          \/ Block
          \/ Decide
          \/ CannotForward
          \/ Forward
          \/ Unreachable
          \/ ~Detailed /\ Relay
       /\ UNCHANGED relay
    \/ StreamBegins
    \/ RelayChunk
    \/ StreamEnds
    \/ StreamCut
    \/ RelayJSON

StreamNext == RelayNext \/ (ReadBody /\ UNCHANGED relay)

StreamSpec == RelayInit /\ [][StreamNext]_streamVars

\* Relayed read by read, the answer is what Pipeline has as one step.
Whole == INSTANCE Pipeline WITH phase <- IF phase = "relay" THEN "sent" ELSE phase
-----------------------------------------------------------------------------
Behind(line) == {SubSeq(line, i, Len(line)) : i \in 1 .. Len(line)}

(***************************************************************************)
(* What is counted are the usages of the stream's lines, however the reads *)
(* cut them: of every line the caller was given whole and that is not      *)
(* longer than the cap, the largest counts are recorded, and no larger     *)
(* count is, unless a line over the cap ended in one. A stream that was    *)
(* cut off is recorded with what was counted by then.                      *)
(***************************************************************************)
TokensAreOfWholeLines ==
    stream # NoStream =>
        LET given == SubSeq(stream, 1, relayed)
            lines == Lines(IF ended THEN Append(given, Newline) ELSE given)
            short == {l \in lines : Len(l) <= MaxLine}
            ends == UNION {Behind(l) : l \in lines \ short}
        IN  /\ Highest(tally, Scan(None, short)) = tally
            /\ Highest(tally, Scan(None, short \cup ends)) = Scan(None, short \cup ends)
            /\ report # NoReport => tokens = tally

(***************************************************************************)
(* However a stream is cut into reads, and whichever side goes away after  *)
(* which of them, the request is one of Pipeline: no report before the     *)
(* relay is over, one after it, and nothing else touched on the way.       *)
(***************************************************************************)
RelayIsOneStep == Whole!Spec
=============================================================================
