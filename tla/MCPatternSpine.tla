--------------------------- MODULE MCPatternSpine ---------------------------
(***************************************************************************)
(* Values for PatternSpine. Presidio's own model finds the term as a       *)
(* person name, and as an account id only below the default gate; a regex  *)
(* of the pack finds it as an account id. What the rules add or suppress   *)
(* is what differs between the packs.                                      *)
(***************************************************************************)
EXTENDS PatternSpine

CONSTANT frodo

MCOwnerIds == {<<"manual", "PERSON_NAME", 7>>, <<"manual", "ACCOUNT_ID", 7>>}
MCOwnerPair == {<<"manual", "ACCOUNT_ID", 7>>, <<"manual", "ACCOUNT_ID", 8>>}
MCBuiltin == {}
MCCuratedHits == {<<frodo, t>> : t \in Types \cap {"ACCOUNT_ID"}}
MCScore == [p \in Terms \X Types |-> IF p[2] = "PERSON_NAME" THEN 2 ELSE 1]
BadRegex(t) == [id |-> <<"manual", t, 9>>, type |-> t, kind |-> "regex", gate |-> NoGate,
                terms |-> {}]
MCBadRule == BadRegex("ACCOUNT_ID")
=============================================================================
