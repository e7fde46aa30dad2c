---------------------------- MODULE DurableKeys -----------------------------
(***************************************************************************)
(* What the keystore promises about a key's life, with no file, version or *)
(* lock in it. The live state advances one key at a time; now and then the *)
(* whole of it becomes the durable one; the end of a process takes it back *)
(* to what is durable and to nothing else.                                 *)
(***************************************************************************)
CONSTANT Kids

VARIABLES live, durable

Init == /\ live = [k \in Kids |-> "absent"]
        /\ durable = live

Issue(k) == /\ live[k] = "absent"
            /\ live' = [live EXCEPT ![k] = "usable"]
            /\ UNCHANGED durable

Revoke(k) == /\ live[k] = "usable"
             /\ live' = [live EXCEPT ![k] = "revoked"]
             /\ UNCHANGED durable

\* Whole and at once: no reader of the durable state sees part of a change,
\* and a key that is durably revoked stays so.
Commit == /\ \A k \in Kids : durable[k] = "revoked" => live[k] = "revoked"
          /\ durable' = live
          /\ UNCHANGED live

Restart == /\ live' = durable
           /\ UNCHANGED durable

Next == \/ \E k \in Kids : Issue(k) \/ Revoke(k)
        \/ Commit
        \/ Restart

Spec == Init /\ [][Next]_<<live, durable>>
=============================================================================
