----------------------------- MODULE Validators ------------------------------
(***************************************************************************)
(* The guards by type: what an engine claims as a card, an address, an     *)
(* account or a number is overruled unless the text itself bears it out.   *)
(* They run on the hits of the regex engine and on the spans of any        *)
(* engine; a span they reject is in Vetoed, in Pipeline. The harness makes *)
(* cards, addresses and accounts that should pass them, and traps that     *)
(* should not, by algorithms of its own.                                   *)
(*                                                                         *)
(* A value is its digits, without blanks, a letter standing for its value  *)
(* (A is 10); an address is its parts, each its digits. Which texts an     *)
(* engine claims is not modelled.                                          *)
(***************************************************************************)
EXTENDS StreamRelay

CONSTANTS
    CardStarts,   \* the first 15 digits of the cards generated
    Bbans,        \* the digits of an account behind DE and the check digits
    Parts,        \* what may be between the dots of an address
    NoHit

ASSUME ValidatorAssumptions ==
    /\ CardStarts \subseteq [1 .. 15 -> 0 .. 9]
    /\ Bbans \subseteq [1 .. 18 -> 0 .. 9]

VARIABLE hit   \* the claim being looked at, where it comes from, and the verdict

Sum(S, value(_)) == FoldSet(LAMBDA i, n : value(i) + n, 0, S)

\* Every second digit counts double, starting with the last or the one before.
Luhn(digits, lastDouble) ==
    LET double(i) == (Len(digits) - i) % 2 = (IF lastDouble THEN 0 ELSE 1)
        twice(d) == IF 2 * d > 9 THEN 2 * d - 9 ELSE 2 * d
    IN  Sum(DOMAIN digits, LAMBDA i : IF double(i) THEN twice(digits[i]) ELSE digits[i])

\* Fault: it is the last digit that counts double.
LuhnValidFromLast(digits) == Len(digits) \in 13 .. 19 /\ Luhn(digits, TRUE) % 10 = 0

LuhnValid(digits) == Len(digits) \in 13 .. 19 /\ Luhn(digits, FALSE) % 10 = 0

Octet(digits) == FoldLeft(LAMBDA n, d : 10 * n + d, 0, digits)
ValidOctets(parts) ==
    \A k \in DOMAIN parts :
        /\ Len(parts[k]) > 1 => parts[k][1] # 0
        /\ Octet(parts[k]) <= 255

Mod97(values) ==
    FoldLeft(LAMBDA rem, n : ((IF n > 9 THEN 100 ELSE 10) * rem + n) % 97, 0, values)
IbanMod97(values) ==
    Len(values) >= 15 /\ Mod97(SubSeq(values, 5, Len(values)) \o SubSeq(values, 1, 4)) = 1

\* glued: a hyphen stands right before or after the claim.
NotHyphenAdjacent(c) == ~c.glued

\* typeGuards.
Guard(c) ==
    CASE c.type = "CREDIT_CARD" -> NotHyphenAdjacent(c) /\ LuhnValid(c.value)
      [] c.type = "IP" -> ValidOctets(c.value)
      [] c.type = "IBAN" -> IbanMod97(c.value)
      [] c.type \in {"SSN", "ADDRESS"} -> NotHyphenAdjacent(c)
      [] OTHER -> TRUE
-----------------------------------------------------------------------------
(***************************************************************************)
(* The generator of the harness.                                           *)
(***************************************************************************)
Claimed(type, value, glued) == [type |-> type, value |-> value, glued |-> glued]
Decimal(n) ==
    IF n < 10 THEN <<n>> ELSE IF n < 100 THEN <<n \div 10, n % 10>>
    ELSE <<n \div 100, (n \div 10) % 10, n % 10>>

LuhnCard(start) == Append(start, (10 - (Luhn(start, TRUE) % 10)) % 10)
InvalidLuhn(start) ==
    LET card == LuhnCard(start) IN [card EXCEPT ![16] = (@ + 1) % 10]
Iban(bban) ==
    LET check == 98 - Mod97(bban \o <<1, 3, 1, 4, 0, 0>>) IN
    <<13, 14, check \div 10, check % 10>> \o bban

GeneratedCards == {Claimed("CREDIT_CARD", LuhnCard(s), FALSE) : s \in CardStarts}
GeneratedIbans == {Claimed("IBAN", Iban(b), FALSE) : b \in Bbans}
\* One part varies here; the code draws three of the four.
GeneratedAddresses ==
    {Claimed("IP", <<<<1, 0>>, Decimal(n), <<0>>, <<1>>>>, FALSE) : n \in 0 .. 254}
Traps == {Claimed("CREDIT_CARD", InvalidLuhn(s), FALSE) : s \in CardStarts}
         \cup {Claimed("SSN", <<>>, TRUE)}
-----------------------------------------------------------------------------
\* A card or an account with one digit wrong, or two neighbours swapped. Luhn
\* cannot tell 09 from 90.
Mistyped(c) ==
    LET digits == {i \in DOMAIN c.value : c.value[i] < 10}
        swappable == {i \in digits : i + 1 \in digits /\
            (c.type = "CREDIT_CARD" => {c.value[i], c.value[i + 1]} # {0, 9})}
        changed == {[c EXCEPT !.value[i] = d] : i \in digits, d \in 0 .. 9}
        swapped == {[c EXCEPT !.value[i] = c.value[i + 1], !.value[i + 1] = c.value[i]] :
                        i \in swappable}
    IN  (changed \cup swapped) \ {c}

Generated == GeneratedCards \cup GeneratedIbans \cup GeneratedAddresses
Wrong == Traps \cup UNION {Mistyped(c) : c \in GeneratedCards \cup GeneratedIbans}
         \cup {[c EXCEPT !.glued = TRUE] : c \in GeneratedCards}
Addresses == {Claimed("IP", <<p, q, <<0>>, <<1>>>>, FALSE) : p \in {<<1, 0>>}, q \in Parts}

\* Chain.Run looks at one claim of a field. Bound: of a field nothing is claimed
\* of yet, and one claim.
GuardClaim ==
    /\ hit = NoHit
    /\ Scans("presidio") /\ field = 1 /\ claimed = NoSpans
    /\ \E c \in Generated \cup Wrong \cup Addresses : hit' = c @@ [accepted |-> Guard(c)]
    /\ UNCHANGED vars
-----------------------------------------------------------------------------
(***************************************************************************)
(* The guards accept what the harness makes as true values, and refuse its *)
(* traps and every such value mistyped in one digit or with two neighbours *)
(* swapped, but for a 0 and a 9 side by side in a card, which no Luhn sum  *)
(* tells apart: so an unfiltered card counts as a miss and never as a      *)
(* false alarm. Of addresses they accept those with numbers up to 255,     *)
(* written without a leading zero, and no other.                           *)
(***************************************************************************)
GuardsTellRealFromAlike ==
    hit # NoHit =>
        LET c == Claimed(hit.type, hit.value, hit.glued) IN
        IF c.type = "IP" THEN hit.accepted <=> c.value[2] \in {Decimal(n) : n \in 0 .. 255}
        ELSE hit.accepted <=> c \in Generated
=============================================================================
