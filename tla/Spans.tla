------------------------------- MODULE Spans --------------------------------
(***************************************************************************)
(* Merging overlapping spans and masking them. A span is what a detector   *)
(* claims of a text: offsets as in the code, start inclusive from 0 and    *)
(* end exclusive, a type and a confidence. A text is a sequence; what is   *)
(* masked is replaced by one placeholder that names its type.              *)
(***************************************************************************)
EXTENDS Integers, Sequences, SequencesExt

Before(a, b) == a.start < b.start \/ (a.start = b.start /\ a.end > b.end)

Sorted(s) == \A i, j \in 1 .. Len(s) : i < j => ~Before(s[j], s[i])

\* The sort is not stable: equal spans may come out in any order.
SortedSeqs(S) == {s \in SetToSeqs(S) : Sorted(s)}

\* The union wins the extent, the higher confidence the type.
Joined(a, b) ==
    [(IF b.conf > a.conf THEN b ELSE a) EXCEPT
        !.start = a.start, !.end = IF b.end > a.end THEN b.end ELSE a.end]

\* One turn of Merge's loop.
Absorb(out, sp) ==
    IF out = <<>> \/ sp.start >= out[Len(out)].end THEN Append(out, sp)
    ELSE [out EXCEPT ![Len(out)] = Joined(@, sp)]

\* Of a sorted sequence of spans.
Merge(spans) == FoldLeft(Absorb, <<>>, spans)

Placeholder(type) == <<"type", type>>

Splice(text, sp) ==
    IF sp.end > Len(text) \/ sp.start >= sp.end THEN text
    ELSE SubSeq(text, 1, sp.start) \o <<Placeholder(sp.type)>>
            \o SubSeq(text, sp.end + 1, Len(text))

\* Right to left, so that the offsets still to come stay valid.
Mask(text, spans) == FoldRight(LAMBDA sp, t : Splice(t, sp), spans, text)
-----------------------------------------------------------------------------
(***************************************************************************)
(* What masking is for, said without merging or offsets: of a stretch of   *)
(* positions held together by overlapping claims one placeholder is left,  *)
(* of the type of a claim in it that none in it exceeds in confidence; all *)
(* other positions are left as they are.                                   *)
(***************************************************************************)
Covers(sp, p) == sp.start < p /\ p <= sp.end

Covered(S, p) == \E sp \in S : Covers(sp, p)

Together(S, p) == \E sp \in S : Covers(sp, p) /\ Covers(sp, p + 1)

StretchFrom(S, p) ==
    {sp \in S : sp.start + 1 >= p /\ \A q \in p .. sp.start : Together(S, q)}

IsMaskingOf(out, text, S) ==
    LET kept == {p \in DOMAIN text : ~(Covered(S, p) /\ Together(S, p - 1))}
    IN  \E at \in [DOMAIN out -> kept] :
        /\ \A i, j \in DOMAIN out : i < j => at[i] < at[j]
        /\ \A p \in kept : \E i \in DOMAIN out : at[i] = p
        /\ \A i \in DOMAIN out :
            IF Covered(S, at[i])
            THEN \E best \in StretchFrom(S, at[i]) :
                    /\ out[i] = Placeholder(best.type)
                    /\ \A sp \in StretchFrom(S, at[i]) : sp.conf <= best.conf
            ELSE out[i] = text[at[i]]
=============================================================================
