---------------------------- MODULE MCSpineEmit ----------------------------
(***************************************************************************)
(* Values for SpineEmit: the first two reports carry many redactions, more *)
(* than the decoder takes in one chunk. Odd requests are blocked on a      *)
(* tripped fail mode; of the even ones, on the other route, the second is  *)
(* masked twice and fails upstream, the fourth is let through with what    *)
(* was found in it, and its tokens are counted.                            *)
(***************************************************************************)
EXTENDS SpineEmit

CONSTANT MaxReports

MCReports == 1 .. MaxReports
MCSize == [r \in MCReports |-> IF r <= 2 THEN 2 ELSE 1]
MCRoutes == {"anthropic", "openai"}
MCTypes == {"EMAIL"}
Odd == {r \in MCReports : r % 2 = 1}
MCRoute == [r \in MCReports |-> IF r \in Odd THEN "openai" ELSE "anthropic"]

Once(names) == [c \in Counters |-> IF c \in names THEN 1 ELSE 0]
MCAdds == [r \in MCReports |->
    IF r \in Odd THEN Once({"requests", "blocked", "failTrips"})
    ELSE IF r = 2 THEN [Once({"requests", "masked", "errors"}) EXCEPT !["EMAIL"] = 2]
    ELSE [Once({"requests", "detectOnly", "EMAIL", "tokensOut"}) EXCEPT !["tokensIn"] = 2]]
=============================================================================
