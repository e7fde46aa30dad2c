--------------------------- MODULE MCPatternPack ----------------------------
(***************************************************************************)
(* Values for PatternPack and Evidence: three names Presidio never saw,    *)
(* one it scored below the default gate, and a phone number a curated      *)
(* regex covers. The owner takes one of the flywheel's ids.                *)
(***************************************************************************)
EXTENDS Evidence, TLC

CONSTANTS frodo, sam, pippin, jargon, t1, t2, t3, t4, t5

MCOwnerIds == {<<"threshold", "PERSON_NAME", 1>>}
Miss(type, text, term, score, curated) ==
    [type |-> type, text |-> text, term |-> term, score |-> score, curated |-> curated]
MCMisses ==
    {Miss("PERSON_NAME", t1, frodo, Unseen, FALSE), Miss("PERSON_NAME", t2, sam, Unseen, FALSE),
     Miss("PERSON_NAME", t5, pippin, Unseen, FALSE),
     Miss("PERSON_NAME", t3, jargon, 13, FALSE),
     Miss("PHONE", t4, jargon, Unseen, TRUE)}

\* No definition tells one term from another.
TermSymmetry == Permutations({frodo, sam, pippin})
=============================================================================
