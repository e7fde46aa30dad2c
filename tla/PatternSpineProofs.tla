------------------------- MODULE PatternSpineProofs --------------------------
(***************************************************************************)
(* Proofs about the pattern pack at the gateways. What a request finds in  *)
(* a reload needs nothing of the control plane. What a version says of the *)
(* rules does: the pack that is served, over crashes and restarts, is      *)
(* followed as Served, and it only grows while every save reaches the disk *)
(* and the file can be read.                                               *)
(***************************************************************************)
EXTENDS PatternSpine, TLAPS

\* Where the install of a pack stands: which halves have its rules, which agree.
Agree(h, p) ==
    /\ p.phase \in {"idle", "asked", "regex", "chain", "presidio"}
    /\ p.phase \in {"idle", "asked", "regex"} => h.regex = h.allow /\ h.allow = h.presidio
    /\ p.phase \in {"chain", "presidio"} => h.regex = p.pack.rules
    /\ p.phase = "presidio" => h.allow = p.pack.rules

\* The builtin types of the term that nothing in force suppresses.
Unsuppressed(q) ==
    {t \in Types : /\ <<q.term, t>> \in Builtin
                   /\ \A rules \in q.inForce : t \notin Suppressed(rules, q.term)}

\* The types that each of the packs in force would find.
Owed(q) == {t \in Types : \A rules \in q.inForce : t \in FoundUnder(rules, q.term)}

\* A request at a gateway with halves h: what it was served under is recorded,
\* and what it owes is found, or is still to be filtered.
ReqOK(q, h) ==
    /\ q.phase \in {"idle", "regex", "presidio", "done"}
    /\ q.phase # "idle" =>
        q = [phase |-> q.phase, term |-> q.term, found |-> q.found, raw |-> q.raw,
             inForce |-> q.inForce]
    /\ q.phase \in {"regex", "presidio"} =>
        h.regex \in q.inForce /\ h.allow \in q.inForce /\ h.presidio \in q.inForce
    /\ q.phase = "regex" => Unsuppressed(q) \subseteq q.raw \cup q.found
    /\ q.phase = "presidio" => Owed(q) \subseteq q.raw \cup q.found
    /\ q.phase = "done" => Owed(q) \subseteq q.found

Shape ==
    /\ halves = [g \in Gateways |-> [regex |-> halves[g].regex, allow |-> halves[g].allow,
                                     presidio |-> halves[g].presidio]]
    /\ packVersion = [g \in Gateways |-> packVersion[g]]
    /\ pull = [g \in Gateways |-> [phase |-> pull[g].phase, pack |-> pull[g].pack]]
    /\ req = [g \in Gateways |-> req[g]]

ReloadInv ==
    /\ Shape
    /\ \A g \in Gateways : Agree(halves[g], pull[g]) /\ ReqOK(req[g], halves[g])
-----------------------------------------------------------------------------
(***************************************************************************)
(* Requests in a reload: each step of Chain.Run and of an install keeps    *)
(* what ReqOK says.                                                        *)
(***************************************************************************)

(***************************************************************************)
(* The more packs a request has straddled, the less it owes.               *)
(***************************************************************************)
LEMMA WitnessKeeps ==
    ASSUME NEW q, NEW h, ReqOK(q, h), q.phase \in {"regex", "presidio"}, NEW rules, NEW h2,
           h2.regex \in q.inForce \cup {rules}, h2.allow \in q.inForce \cup {rules},
           h2.presidio \in q.inForce \cup {rules}
    PROVE  ReqOK([q EXCEPT !.inForce = @ \cup {rules}], h2)
<1> DEFINE q2 == [phase |-> q.phase, term |-> q.term, found |-> q.found, raw |-> q.raw,
                  inForce |-> q.inForce \cup {rules}]
<1>1. [q EXCEPT !.inForce = @ \cup {rules}] = q2
    BY DEF ReqOK
<1>2. /\ q2.phase = q.phase /\ q2.term = q.term /\ q2.found = q.found /\ q2.raw = q.raw
      /\ q2.inForce = q.inForce \cup {rules}
    OBVIOUS
<1>3. q2 = [phase |-> q2.phase, term |-> q2.term, found |-> q2.found, raw |-> q2.raw,
            inForce |-> q2.inForce]
    OBVIOUS
<1> HIDE DEF q2
<1>4. Unsuppressed(q2) \subseteq Unsuppressed(q)
    BY <1>2 DEF Unsuppressed
<1>5. Owed(q2) \subseteq Owed(q)
    BY <1>2 DEF Owed
<1>6. /\ q2.phase = "regex" => Unsuppressed(q2) \subseteq q2.raw \cup q2.found
      /\ q2.phase = "presidio" => Owed(q2) \subseteq q2.raw \cup q2.found
      /\ q2.phase # "done" /\ q2.phase \in {"idle", "regex", "presidio", "done"}
    BY <1>2, <1>4, <1>5 DEF ReqOK
<1>7. ReqOK(q2, h2)
    BY <1>2, <1>3, <1>6 DEF ReqOK
<1> QED BY <1>1, <1>7

(***************************************************************************)
(* A half that is replaced by rules already recorded changes nothing.      *)
(***************************************************************************)
LEMMA HalfKeeps ==
    ASSUME NEW q, NEW h, ReqOK(q, h), NEW h2,
           q.phase \in {"regex", "presidio"} =>
               h2.regex \in q.inForce /\ h2.allow \in q.inForce /\ h2.presidio \in q.inForce
    PROVE  ReqOK(q, h2)
BY DEF ReqOK

(***************************************************************************)
(* The regex engine starts with all the builtin recognizers find.          *)
(***************************************************************************)
LEMMA DetectOK ==
    ASSUME NEW x, NEW h
    PROVE  ReqOK([phase |-> "regex", term |-> x, found |-> {}, raw |-> RegexFinds(h.regex, x),
                  inForce |-> {h.regex, h.allow, h.presidio}], h)
BY DEF ReqOK, Unsuppressed, RegexFinds

(***************************************************************************)
(* The span that is dropped is one that a pack in force suppresses.        *)
(***************************************************************************)
LEMMA FilterKeeps ==
    ASSUME NEW q, NEW h, ReqOK(q, h), q.phase \in {"regex", "presidio"}, NEW t \in q.raw
    PROVE  ReqOK([q EXCEPT !.raw = @ \ {t},
                           !.found = @ \cup ({t} \ Suppressed(h.allow, q.term))], h)
<1> DEFINE found2 == q.found \cup ({t} \ Suppressed(h.allow, q.term))
           q2 == [phase |-> q.phase, term |-> q.term, found |-> found2, raw |-> q.raw \ {t},
                  inForce |-> q.inForce]
<1>1. [q EXCEPT !.raw = @ \ {t},
                !.found = @ \cup ({t} \ Suppressed(h.allow, q.term))] = q2
    <2> DEFINE q1 == [q EXCEPT !.raw = q.raw \ {t}]
    <2>1. q1 = [phase |-> q.phase, term |-> q.term, found |-> q.found, raw |-> q.raw \ {t},
                inForce |-> q.inForce]
        BY DEF ReqOK
    <2> HIDE DEF q1
    <2>2. [q1 EXCEPT !.found = found2] = q2
        BY <2>1
    <2> QED BY <2>2 DEF q1
<1>2. /\ q2.phase = q.phase /\ q2.term = q.term /\ q2.found = found2 /\ q2.raw = q.raw \ {t}
      /\ q2.inForce = q.inForce
    OBVIOUS
<1>3. q2 = [phase |-> q2.phase, term |-> q2.term, found |-> q2.found, raw |-> q2.raw,
            inForce |-> q2.inForce]
    OBVIOUS
<1> HIDE DEF q2
<1>4. h.allow \in q.inForce
    BY DEF ReqOK
<1>5. Unsuppressed(q2) = Unsuppressed(q) /\ Owed(q2) = Owed(q)
    BY <1>2 DEF Unsuppressed, Owed
<1>6. t \in Unsuppressed(q) \/ t \in Owed(q) => t \in found2
    BY <1>4 DEF Unsuppressed, Owed, FoundUnder
<1>7. q.raw \cup q.found \subseteq (q.raw \ {t}) \cup q.found \cup {t}
    OBVIOUS
<1>8. /\ q.phase = "regex" => Unsuppressed(q) \subseteq (q.raw \ {t}) \cup found2
      /\ q.phase = "presidio" => Owed(q) \subseteq (q.raw \ {t}) \cup found2
    BY <1>6, <1>7 DEF ReqOK
<1>9. ReqOK(q2, h)
    BY <1>2, <1>3, <1>5, <1>8 DEF ReqOK
<1> QED BY <1>1, <1>9

(***************************************************************************)
(* A type some pack finds is one Presidio finds under it, or is builtin:   *)
(* a regex of the pack is known to both engines.                           *)
(***************************************************************************)
LEMMA PresidioFindsTheRest ==
    ASSUME NEW rules, NEW x, NEW t \in FoundUnder(rules, x)
    PROVE  t \in Types /\ (t \in PresidioFinds(rules, x) \/ <<x, t>> \in Builtin)
BY DEF FoundUnder, RegexFinds, PresidioFinds

(***************************************************************************)
(* When Presidio takes over, what it is owed beyond what it finds has been *)
(* found already.                                                          *)
(***************************************************************************)
LEMMA PresidioKeeps ==
    ASSUME NEW q, NEW h, ReqOK(q, h), q.phase = "regex", q.raw = {}
    PROVE  ReqOK([q EXCEPT !.phase = "presidio", !.raw = PresidioFinds(h.presidio, q.term)], h)
<1> DEFINE q2 == [phase |-> "presidio", term |-> q.term, found |-> q.found,
                  raw |-> PresidioFinds(h.presidio, q.term), inForce |-> q.inForce]
<1>1. [q EXCEPT !.phase = "presidio", !.raw = PresidioFinds(h.presidio, q.term)] = q2
    <2> DEFINE q1 == [q EXCEPT !.phase = "presidio"]
    <2>1. q1 = [phase |-> "presidio", term |-> q.term, found |-> q.found, raw |-> q.raw,
                inForce |-> q.inForce]
        BY DEF ReqOK
    <2> HIDE DEF q1
    <2>2. [q1 EXCEPT !.raw = PresidioFinds(h.presidio, q.term)] = q2
        BY <2>1
    <2> QED BY <2>2 DEF q1
<1>2. /\ q2.phase = "presidio" /\ q2.term = q.term /\ q2.found = q.found
      /\ q2.raw = PresidioFinds(h.presidio, q.term) /\ q2.inForce = q.inForce
    OBVIOUS
<1>3. q2 = [phase |-> q2.phase, term |-> q2.term, found |-> q2.found, raw |-> q2.raw,
            inForce |-> q2.inForce]
    OBVIOUS
<1> HIDE DEF q2
<1>4. ASSUME NEW t \in Owed(q2)
      PROVE  t \in q2.raw \cup q2.found
    <2>1. \A rules \in q.inForce : t \in FoundUnder(rules, q.term)
        BY <1>2, <1>4 DEF Owed
    <2>2. h.presidio \in q.inForce
        BY DEF ReqOK
    <2>3. CASE t \in PresidioFinds(h.presidio, q.term)
        BY <2>3, <1>2
    <2>4. CASE t \notin PresidioFinds(h.presidio, q.term)
        <3>1. t \in Types /\ <<q.term, t>> \in Builtin
            BY <2>1, <2>2, <2>4, PresidioFindsTheRest
        <3>2. \A rules \in q.inForce : t \notin Suppressed(rules, q.term)
            BY <2>1 DEF FoundUnder
        <3>3. t \in q.found
            BY <3>1, <3>2 DEF ReqOK, Unsuppressed
        <3> QED BY <3>3, <1>2
    <2> QED BY <2>3, <2>4
<1>5. h.regex \in q2.inForce /\ h.allow \in q2.inForce /\ h.presidio \in q2.inForce
    BY <1>2 DEF ReqOK
<1>6. ReqOK(q2, h)
    BY <1>2, <1>3, <1>4, <1>5 DEF ReqOK
<1> QED BY <1>1, <1>6

(***************************************************************************)
(* The chain returns when every span has been filtered.                    *)
(***************************************************************************)
LEMMA ReturnKeeps ==
    ASSUME NEW q, NEW h, ReqOK(q, h), q.phase = "presidio", q.raw = {}
    PROVE  ReqOK([q EXCEPT !.phase = "done"], h)
<1> DEFINE q2 == [phase |-> "done", term |-> q.term, found |-> q.found, raw |-> q.raw,
                  inForce |-> q.inForce]
<1>1. [q EXCEPT !.phase = "done"] = q2
    BY DEF ReqOK
<1>2. /\ q2.phase = "done" /\ q2.term = q.term /\ q2.found = q.found /\ q2.raw = q.raw
      /\ q2.inForce = q.inForce
    OBVIOUS
<1>3. q2 = [phase |-> q2.phase, term |-> q2.term, found |-> q2.found, raw |-> q2.raw,
            inForce |-> q2.inForce]
    OBVIOUS
<1> HIDE DEF q2
<1>4. Owed(q2) = Owed(q)
    BY <1>2 DEF Owed
<1>5. Owed(q) \subseteq q.found
    BY DEF ReqOK
<1>6. ReqOK(q2, h)
    BY <1>2, <1>3, <1>4, <1>5 DEF ReqOK
<1> QED BY <1>1, <1>6
-----------------------------------------------------------------------------
\* A step of gateway g changes nothing of the other gateways.
Others(g) == \A k \in Gateways \ {g} : /\ halves'[k] = halves[k] /\ pull'[k] = pull[k]
                                       /\ req'[k] = req[k] /\ packVersion'[k] = packVersion[k]

\* Records of one shape, with one field changed.
IsHalves(h) == h = [regex |-> h.regex, allow |-> h.allow, presidio |-> h.presidio]
IsPull(p) == p = [phase |-> p.phase, pack |-> p.pack]

(***************************************************************************)
(* A step of one gateway that leaves it well is a step of the system's.    *)
(***************************************************************************)
LEMMA OneGateway ==
    ASSUME ReloadInv, NEW g \in Gateways, Shape', Others(g),
           Agree(halves'[g], pull'[g]), ReqOK(req'[g], halves'[g])
    PROVE  ReloadInv'
BY DEF ReloadInv, Others

(***************************************************************************)
(* Replacing one half leaves the other two; a phase leaves the pack.       *)
(***************************************************************************)
LEMMA SetField ==
    /\ \A h, v : IsHalves(h) =>
        /\ [h EXCEPT !.regex = v] = [regex |-> v, allow |-> h.allow, presidio |-> h.presidio]
        /\ [h EXCEPT !.allow = v] = [regex |-> h.regex, allow |-> v, presidio |-> h.presidio]
        /\ [h EXCEPT !.presidio = v] = [regex |-> h.regex, allow |-> h.allow, presidio |-> v]
    /\ \A p, v : IsPull(p) => [p EXCEPT !.phase = v] = [phase |-> v, pack |-> p.pack]
<1>1. ASSUME NEW h, NEW v, IsHalves(h)
      PROVE  [h EXCEPT !.regex = v] = [regex |-> v, allow |-> h.allow, presidio |-> h.presidio]
    BY <1>1 DEF IsHalves
<1>2. ASSUME NEW h, NEW v, IsHalves(h)
      PROVE  [h EXCEPT !.allow = v] = [regex |-> h.regex, allow |-> v, presidio |-> h.presidio]
    BY <1>2 DEF IsHalves
<1>3. ASSUME NEW h, NEW v, IsHalves(h)
      PROVE  [h EXCEPT !.presidio = v] = [regex |-> h.regex, allow |-> h.allow, presidio |-> v]
    BY <1>3 DEF IsHalves
<1>4. ASSUME NEW p, NEW v, IsPull(p)
      PROVE  [p EXCEPT !.phase = v] = [phase |-> v, pack |-> p.pack]
    BY <1>4 DEF IsPull
<1> QED BY <1>1, <1>2, <1>3, <1>4

(***************************************************************************)
(* What the shapes say of one gateway.                                     *)
(***************************************************************************)
LEMMA ShapeOf ==
    ASSUME ReloadInv, NEW g \in Gateways
    PROVE  /\ DOMAIN halves = Gateways /\ DOMAIN pull = Gateways /\ DOMAIN req = Gateways
           /\ DOMAIN packVersion = Gateways
           /\ IsHalves(halves[g]) /\ IsPull(pull[g])
BY DEF ReloadInv, Shape, IsHalves, IsPull

(***************************************************************************)
(* The pull loop's steps before anything is installed, and the rejection   *)
(* of a pack, leave the halves and the request alone.                      *)
(***************************************************************************)
LEMMA PullStepsKeep ==
    ASSUME ReloadInv, NEW g \in Gateways,
           AskPatterns(g) \/ ServePatterns(g) \/ PullFails(g) \/ RejectPack(g)
    PROVE  ReloadInv' /\ Others(g)
<1>1. /\ halves' = halves /\ req' = req
      /\ \E p : pull' = [pull EXCEPT ![g] = p]
      /\ packVersion' = packVersion
         \/ packVersion' = [packVersion EXCEPT ![g] = pull[g].pack.version]
      /\ pull'[g].phase \in {"idle", "asked", "regex"}
      /\ pull[g].phase \in {"idle", "asked", "regex"}
      /\ pull'[g] = [phase |-> pull'[g].phase, pack |-> pull'[g].pack]
    <2>1. DOMAIN pull = Gateways /\ IsPull(pull[g])
        BY ShapeOf
    <2>2. CASE AskPatterns(g)
        <3>1. pull' = [pull EXCEPT ![g] = [pull[g] EXCEPT !.phase = "asked"]]
            BY <2>2 DEF AskPatterns
        <3>2. [pull[g] EXCEPT !.phase = "asked"] = [phase |-> "asked", pack |-> pull[g].pack]
            BY <2>1, SetField
        <3>3. pull' = [pull EXCEPT ![g] = [phase |-> "asked", pack |-> pull[g].pack]]
            BY <3>1, <3>2, Zenon
        <3> QED BY <2>1, <2>2, <3>3 DEF AskPatterns
    <2>3. CASE ServePatterns(g)
        <3>1. pull' = [pull EXCEPT ![g] = NoPull]
              \/ pull' = [pull EXCEPT ![g] = [phase |-> "regex", pack |-> pack]]
            BY <2>3 DEF ServePatterns
        <3> QED BY <2>1, <2>3, <3>1 DEF ServePatterns, NoPull
    <2>4. CASE PullFails(g)
        BY <2>1, <2>4 DEF PullFails, NoPull
    <2>5. CASE RejectPack(g)
        BY <2>1, <2>5 DEF RejectPack, NoPull
    <2> QED BY <2>2, <2>3, <2>4, <2>5
<1>2. Shape'
    BY <1>1 DEF ReloadInv, Shape
<1>3. Others(g)
    BY <1>1 DEF ReloadInv, Shape, Others
<1>4. Agree(halves'[g], pull'[g])
    BY <1>1 DEF ReloadInv, Agree
<1>5. ReqOK(req'[g], halves'[g])
    BY <1>1 DEF ReloadInv
<1> QED BY <1>2, <1>3, <1>4, <1>5, OneGateway

(***************************************************************************)
(* The regex half: a request in flight is from here on served under the    *)
(* new rules too.                                                          *)
(***************************************************************************)
LEMMA InstallRegexKeeps ==
    ASSUME ReloadInv, NEW g \in Gateways, InstallRegex(g)
    PROVE  /\ ReloadInv' /\ Others(g)
           /\ halves'[g].regex = pull[g].pack.rules
           /\ pull'[g] = [phase |-> "chain", pack |-> pull[g].pack]
           /\ packVersion' = packVersion
<1> DEFINE new == pull[g].pack.rules
           h2 == [regex |-> new, allow |-> halves[g].allow, presidio |-> halves[g].presidio]
<1>1. /\ DOMAIN halves = Gateways /\ DOMAIN pull = Gateways /\ DOMAIN req = Gateways
      /\ IsHalves(halves[g]) /\ IsPull(pull[g])
    BY ShapeOf
<1>2. /\ halves' = [halves EXCEPT ![g] = h2]
      /\ pull' = [pull EXCEPT ![g] = [phase |-> "chain", pack |-> pull[g].pack]]
      /\ packVersion' = packVersion
      /\ pull[g].phase = "regex"
    <2>1. halves' = [halves EXCEPT ![g] = [halves[g] EXCEPT !.regex = new]]
        BY DEF InstallRegex
    <2>2. pull' = [pull EXCEPT ![g] = [pull[g] EXCEPT !.phase = "chain"]]
        BY DEF InstallRegex
    <2>3. /\ [halves[g] EXCEPT !.regex = new] = h2
          /\ [pull[g] EXCEPT !.phase = "chain"] = [phase |-> "chain", pack |-> pull[g].pack]
        BY <1>1, SetField, Zenon
    <2> QED BY <2>1, <2>2, <2>3, Zenon DEF InstallRegex
<1>3. halves'[g] = h2 /\ pull'[g] = [phase |-> "chain", pack |-> pull[g].pack]
    BY <1>1, <1>2
<1>4. \/ /\ req[g].phase \in {"regex", "presidio"}
         /\ req' = [req EXCEPT ![g] = [req[g] EXCEPT !.inForce = @ \cup {new}]]
      \/ req[g].phase \notin {"regex", "presidio"} /\ req' = req
    BY DEF InstallRegex, Witnessed
<1>5. Agree(halves'[g], pull'[g])
    BY <1>3 DEF Agree
<1>6. ReqOK(req'[g], halves'[g])
    <2>1. ReqOK(req[g], halves[g])
        BY DEF ReloadInv
    <2>2. CASE req[g].phase \in {"regex", "presidio"}
        <3>1. req'[g] = [req[g] EXCEPT !.inForce = @ \cup {new}]
            BY <1>1, <1>4, <2>2
        <3>2. /\ h2.regex \in req[g].inForce \cup {new}
              /\ h2.allow \in req[g].inForce \cup {new}
              /\ h2.presidio \in req[g].inForce \cup {new}
            BY <2>1, <2>2 DEF ReqOK
        <3> HIDE DEF h2, new
        <3>3. ReqOK([req[g] EXCEPT !.inForce = @ \cup {new}], h2)
            BY <2>1, <2>2, <3>2, WitnessKeeps
        <3> QED BY <1>3, <3>1, <3>3
    <2>3. CASE req[g].phase \notin {"regex", "presidio"}
        BY <1>4, <2>1, <2>3 DEF ReqOK
    <2> QED BY <2>2, <2>3
<1>7. Shape'
    <2> HIDE DEF new
    <2>1. halves' = [k \in Gateways |-> [regex |-> halves'[k].regex, allow |-> halves'[k].allow,
                                         presidio |-> halves'[k].presidio]]
        BY <1>1, <1>2 DEF ReloadInv, Shape
    <2>2. pull' = [k \in Gateways |-> [phase |-> pull'[k].phase, pack |-> pull'[k].pack]]
        BY <1>1, <1>2 DEF ReloadInv, Shape
    <2>3. req' = [k \in Gateways |-> req'[k]]
        BY <1>4 DEF ReloadInv, Shape
    <2> QED BY <1>2, <2>1, <2>2, <2>3 DEF ReloadInv, Shape
<1>8. Others(g)
    BY <1>1, <1>2, <1>4 DEF Others
<1>9. ReloadInv'
    BY <1>5, <1>6, <1>7, <1>8, OneGateway
<1> QED BY <1>2, <1>3, <1>8, <1>9

(***************************************************************************)
(* The other two halves: the rules are in force already.                   *)
(***************************************************************************)
LEMMA InstallChainKeeps ==
    ASSUME ReloadInv, NEW g \in Gateways, InstallChain(g)
    PROVE  /\ ReloadInv' /\ Others(g)
           /\ pull'[g] = [phase |-> "presidio", pack |-> pull[g].pack]
           /\ packVersion' = packVersion
<1> DEFINE new == pull[g].pack.rules
           h2 == [regex |-> halves[g].regex, allow |-> new, presidio |-> halves[g].presidio]
<1>1. /\ DOMAIN halves = Gateways /\ DOMAIN pull = Gateways
      /\ IsHalves(halves[g]) /\ IsPull(pull[g])
    BY ShapeOf
<1>2. /\ halves' = [halves EXCEPT ![g] = h2]
      /\ pull' = [pull EXCEPT ![g] = [phase |-> "presidio", pack |-> pull[g].pack]]
      /\ packVersion' = packVersion /\ req' = req
      /\ pull[g].phase = "chain"
    <2>1. halves' = [halves EXCEPT ![g] = [halves[g] EXCEPT !.allow = new]]
        BY DEF InstallChain
    <2>2. pull' = [pull EXCEPT ![g] = [pull[g] EXCEPT !.phase = "presidio"]]
        BY DEF InstallChain
    <2>3. /\ [halves[g] EXCEPT !.allow = new] = h2
          /\ [pull[g] EXCEPT !.phase = "presidio"] = [phase |-> "presidio", pack |-> pull[g].pack]
        BY <1>1, SetField, Zenon
    <2> QED BY <2>1, <2>2, <2>3, Zenon DEF InstallChain
<1>3. halves'[g] = h2 /\ pull'[g] = [phase |-> "presidio", pack |-> pull[g].pack]
    BY <1>1, <1>2
<1>4. halves[g].regex = new
    BY <1>2 DEF ReloadInv, Agree
<1>5. Agree(halves'[g], pull'[g])
    BY <1>3, <1>4 DEF Agree
<1>6. ReqOK(req'[g], halves'[g])
    <2>1. ReqOK(req[g], halves[g])
        BY DEF ReloadInv
    <2>2. req[g].phase \in {"regex", "presidio"} =>
             h2.regex \in req[g].inForce /\ h2.allow \in req[g].inForce
             /\ h2.presidio \in req[g].inForce
        BY <2>1, <1>4 DEF ReqOK
    <2> HIDE DEF h2, new
    <2> QED BY <2>1, <2>2, <1>2, <1>3, HalfKeeps
<1>7. Shape'
    BY <1>1, <1>2 DEF ReloadInv, Shape
<1>8. Others(g)
    BY <1>1, <1>2 DEF Others
<1>9. ReloadInv'
    BY <1>5, <1>6, <1>7, <1>8, OneGateway
<1> QED BY <1>2, <1>3, <1>8, <1>9

(***************************************************************************)
(* The Presidio half completes the install: all three halves agree again.  *)
(***************************************************************************)
LEMMA InstallPresidioKeeps ==
    ASSUME ReloadInv, NEW g \in Gateways, InstallPresidio(g)
    PROVE  /\ ReloadInv' /\ Others(g)
           /\ halves'[g].regex = pull[g].pack.rules
           /\ pull'[g] = NoPull
           /\ packVersion'[g] = pull[g].pack.version
<1> DEFINE new == pull[g].pack.rules
           h2 == [regex |-> halves[g].regex, allow |-> halves[g].allow, presidio |-> new]
<1>1. /\ DOMAIN halves = Gateways /\ DOMAIN pull = Gateways /\ DOMAIN packVersion = Gateways
      /\ IsHalves(halves[g])
    BY ShapeOf
<1>2. /\ halves' = [halves EXCEPT ![g] = h2]
      /\ pull' = [pull EXCEPT ![g] = NoPull]
      /\ packVersion' = [packVersion EXCEPT ![g] = pull[g].pack.version]
      /\ req' = req
      /\ pull[g].phase = "presidio"
    <2>1. halves' = [halves EXCEPT ![g] = [halves[g] EXCEPT !.presidio = new]]
        BY DEF InstallPresidio
    <2>2. [halves[g] EXCEPT !.presidio = new] = h2
        BY <1>1, SetField, Zenon
    <2> QED BY <2>1, <2>2, Zenon DEF InstallPresidio
<1>3. halves'[g] = h2 /\ pull'[g] = NoPull /\ packVersion'[g] = pull[g].pack.version
    BY <1>1, <1>2
<1>4. halves[g].regex = new /\ halves[g].allow = new
    BY <1>2 DEF ReloadInv, Agree
<1>5. Agree(halves'[g], pull'[g])
    BY <1>3, <1>4 DEF Agree, NoPull
<1>6. ReqOK(req'[g], halves'[g])
    <2>1. ReqOK(req[g], halves[g])
        BY DEF ReloadInv
    <2>2. req[g].phase \in {"regex", "presidio"} =>
             h2.regex \in req[g].inForce /\ h2.allow \in req[g].inForce
             /\ h2.presidio \in req[g].inForce
        BY <2>1, <1>4 DEF ReqOK
    <2> HIDE DEF h2, new
    <2> QED BY <2>1, <2>2, <1>2, <1>3, HalfKeeps
<1>7. Shape'
    BY <1>1, <1>2 DEF ReloadInv, Shape, NoPull
<1>8. Others(g)
    BY <1>1, <1>2 DEF Others
<1>9. ReloadInv'
    BY <1>5, <1>6, <1>7, <1>8, OneGateway
<1> QED BY <1>3, <1>4, <1>8, <1>9

(***************************************************************************)
(* A gateway that starts has halves without rules and no request.          *)
(***************************************************************************)
LEMMA RestartGatewayKeeps ==
    ASSUME ReloadInv, NEW g \in Gateways, RestartGateway(g)
    PROVE  /\ ReloadInv' /\ Others(g)
           /\ halves'[g] = NoHalves /\ pull'[g] = NoPull /\ packVersion'[g] = 0
<1>1. /\ DOMAIN halves = Gateways /\ DOMAIN pull = Gateways
      /\ DOMAIN packVersion = Gateways /\ DOMAIN req = Gateways
    BY ShapeOf
<1>2. /\ halves'[g] = NoHalves /\ pull'[g] = NoPull /\ packVersion'[g] = 0 /\ req'[g] = NoReq
    BY <1>1 DEF RestartGateway
<1>3. Agree(halves'[g], pull'[g]) /\ ReqOK(req'[g], halves'[g])
    BY <1>2 DEF Agree, ReqOK, NoHalves, NoPull, NoReq
<1>4. Shape'
    BY DEF ReloadInv, Shape, RestartGateway, NoHalves, NoPull
<1>5. Others(g)
    BY <1>1 DEF Others, RestartGateway
<1>6. ReloadInv'
    BY <1>3, <1>4, <1>5, OneGateway
<1> QED BY <1>2, <1>5, <1>6

(***************************************************************************)
(* The steps of a request change nothing but the request.                  *)
(***************************************************************************)
LEMMA RequestStepsKeep ==
    ASSUME ReloadInv, NEW g \in Gateways,
           \/ \E x \in Terms : RegexDetects(g, x)
           \/ FilterSpan(g) \/ PresidioDetects(g) \/ ChainReturns(g)
    PROVE  ReloadInv' /\ UNCHANGED <<vars, halves, packVersion, pull>>
<1>1. UNCHANGED <<vars, halves, packVersion, pull>>
    BY DEF RegexDetects, FilterSpan, PresidioDetects, ChainReturns
<1>2. DOMAIN req = Gateways /\ ReqOK(req[g], halves[g])
    BY ShapeOf DEF ReloadInv
<1>3. (\E q : req' = [req EXCEPT ![g] = q]) /\ ReqOK(req'[g], halves[g])
    <2>1. ASSUME NEW x \in Terms, RegexDetects(g, x)
          PROVE  (\E q : req' = [req EXCEPT ![g] = q]) /\ ReqOK(req'[g], halves[g])
        <3> DEFINE q == [phase |-> "regex", term |-> x, found |-> {},
                         raw |-> RegexFinds(halves[g].regex, x),
                         inForce |-> {halves[g].regex, halves[g].allow, halves[g].presidio}]
        <3>1. {halves[g][h] : h \in DOMAIN NoHalves}
              = {halves[g].regex, halves[g].allow, halves[g].presidio}
            BY DEF NoHalves
        <3>2. req' = [req EXCEPT ![g] = q]
            BY <2>1, <3>1 DEF RegexDetects
        <3>3. ReqOK(q, halves[g])
            BY DetectOK
        <3> HIDE DEF q
        <3> QED BY <3>2, <3>3, <1>2
    <2>2. CASE FilterSpan(g)
        <3>1. PICK t \in req[g].raw :
                req' = [req EXCEPT
                    ![g].raw = @ \ {t},
                    ![g].found = @ \cup ({t} \ Suppressed(halves[g].allow, req[g].term))]
            BY <2>2 DEF FilterSpan
        <3> DEFINE q1 == [req[g] EXCEPT !.raw = req[g].raw \ {t}]
                   r1 == [req EXCEPT ![g] = q1]
                   q2 == [req[g] EXCEPT !.raw = @ \ {t},
                            !.found = @ \cup ({t} \ Suppressed(halves[g].allow, req[g].term))]
        <3>2. r1[g] = q1 /\ DOMAIN r1 = Gateways
            BY <1>2
        <3>3. req' = [r1 EXCEPT ![g] = q2]
            BY <3>1, <3>2 DEF r1
        <3>4. ReqOK(q2, halves[g])
            <4>1. req[g].phase \in {"regex", "presidio"}
                BY <2>2 DEF FilterSpan
            <4> QED BY <4>1, <1>2, FilterKeeps
        <3>5. req' = [req EXCEPT ![g] = q2]
            <4> HIDE DEF q1, q2
            <4> QED BY <3>2, <3>3, <1>2
        <3> HIDE DEF q2
        <3> QED BY <3>4, <3>5, <1>2
    <2>3. CASE PresidioDetects(g)
        <3> DEFINE q2 == [req[g] EXCEPT !.phase = "presidio",
                            !.raw = PresidioFinds(halves[g].presidio, req[g].term)]
                   q1 == [req[g] EXCEPT !.phase = "presidio"]
                   r1 == [req EXCEPT ![g] = q1]
        <3>1. r1[g] = q1 /\ DOMAIN r1 = Gateways
            BY <1>2
        <3>2. req' = [r1 EXCEPT ![g] = q2]
            BY <2>3, <3>1 DEF PresidioDetects, r1
        <3>3. req' = [req EXCEPT ![g] = q2]
            <4> HIDE DEF q1, q2
            <4> QED BY <3>1, <3>2, <1>2
        <3>4. ReqOK(q2, halves[g])
            <4>1. req[g].phase = "regex" /\ req[g].raw = {}
                BY <2>3 DEF PresidioDetects
            <4> QED BY <4>1, <1>2, PresidioKeeps
        <3> HIDE DEF q2
        <3> QED BY <3>3, <3>4, <1>2
    <2>4. CASE ChainReturns(g)
        <3> DEFINE q2 == [req[g] EXCEPT !.phase = "done"]
        <3>1. req' = [req EXCEPT ![g] = q2]
            BY <2>4 DEF ChainReturns
        <3>2. ReqOK(q2, halves[g])
            <4>1. req[g].phase = "presidio" /\ req[g].raw = {}
                BY <2>4 DEF ChainReturns
            <4> QED BY <4>1, <1>2, ReturnKeeps
        <3> HIDE DEF q2
        <3> QED BY <3>1, <3>2, <1>2
    <2> QED BY <2>1, <2>2, <2>3, <2>4
<1>4. ReqOK(req'[g], halves'[g]) /\ Agree(halves'[g], pull'[g])
    BY <1>1, <1>3 DEF ReloadInv
<1>5. Shape'
    BY <1>1, <1>3 DEF ReloadInv, Shape
<1>6. Others(g)
    BY <1>1, <1>2, <1>3 DEF Others
<1> QED BY <1>1, <1>4, <1>5, <1>6, OneGateway

(***************************************************************************)
(* A gateway that has not served a request yet owes nothing.               *)
(***************************************************************************)
LEMMA ReloadInvInit == SpineInit => ReloadInv
<1> SUFFICES ASSUME SpineInit PROVE ReloadInv
    OBVIOUS
<1>1. Shape
    BY DEF SpineInit, Shape, NoHalves, NoPull
<1>2. ASSUME NEW g \in Gateways
      PROVE  Agree(halves[g], pull[g]) /\ ReqOK(req[g], halves[g])
    <2>1. halves[g] = NoHalves /\ pull[g] = NoPull /\ req[g] = NoReq
        BY DEF SpineInit
    <2> QED BY <2>1 DEF Agree, ReqOK, NoHalves, NoPull, NoReq
<1> QED BY <1>1, <1>2 DEF ReloadInv

(***************************************************************************)
(* Each step of the system keeps it, of whichever gateway.                 *)
(***************************************************************************)
LEMMA ReloadInvStep ==
    ASSUME ReloadInv, [SpineNext]_allVars
    PROVE  ReloadInv'
<1>1. CASE UNCHANGED edge
    <2>1. halves' = halves /\ packVersion' = packVersion /\ pull' = pull /\ req' = req
        BY <1>1 DEF edge
    <2> QED BY <2>1 DEF ReloadInv, Shape
<1>2. ASSUME NEW g \in Gateways,
             \/ AskPatterns(g) \/ ServePatterns(g) \/ PullFails(g) \/ RejectPack(g)
             \/ InstallRegex(g) \/ InstallChain(g) \/ InstallPresidio(g)
             \/ RestartGateway(g)
             \/ \E x \in Terms : RegexDetects(g, x)
             \/ FilterSpan(g) \/ PresidioDetects(g) \/ ChainReturns(g)
      PROVE  ReloadInv'
    BY <1>2, PullStepsKeep, InstallRegexKeeps, InstallChainKeeps, InstallPresidioKeeps,
       RestartGatewayKeeps, RequestStepsKeep
<1>3. EditFile => UNCHANGED edge
    BY DEF EditFile
<1>4. UNCHANGED allVars => UNCHANGED edge
    BY DEF allVars
<1> QED BY <1>1, <1>2, <1>3, <1>4 DEF SpineNext

(***************************************************************************)
(* However many reloads a request straddles, a type that each of the packs *)
(* in force would find in the term is found, whatever the control plane    *)
(* serves and however the pull loops, installs and restarts interleave.    *)
(***************************************************************************)
THEOREM NothingLostInReload == SpineSpec => []NoTypeLostInReload
<1>1. SpineInit => ReloadInv
    BY ReloadInvInit
<1>2. ReloadInv /\ [SpineNext]_allVars => ReloadInv'
    BY ReloadInvStep
<1>3. ReloadInv => NoTypeLostInReload
    <2> SUFFICES ASSUME ReloadInv, NEW g \in Gateways, NEW t \in Types,
                        req[g].phase = "done",
                        \A rules \in req[g].inForce : t \in FoundUnder(rules, req[g].term)
                 PROVE  t \in req[g].found
        BY DEF NoTypeLostInReload
    <2> QED BY DEF ReloadInv, ReqOK, Owed
<1> QED BY <1>1, <1>2, <1>3, PTL DEF SpineSpec
-----------------------------------------------------------------------------
(***************************************************************************)
(* The pack that is served, and the one a restart would serve.             *)
(***************************************************************************)
Disk == IF file = NoFile THEN EmptyPack ELSE file.pack
Served == IF up THEN pack ELSE Disk

\* An older state of the same pack: a version is never used for other rules.
Below(p, q) ==
    /\ p.version <= q.version
    /\ p.rules \subseteq q.rules
    /\ p.version = q.version => p.rules = q.rules

ServedInv ==
    /\ up \in BOOLEAN
    /\ file # Torn /\ file = [pack |-> file.pack, rows |-> file.rows]
    /\ Disk.version \in Nat /\ Below(EmptyPack, Disk)
    /\ pack.version \in Nat /\ Below(EmptyPack, pack)
    /\ up /\ pending = NoPack => pack = Disk
    /\ pending # NoPack => up /\ Disk = pending /\ Below(pack, Disk)

\* A gateway with halves h at version v whose pull is p, while s is served.
Follows(h, v, p, s) ==
    /\ v \in Nat
    /\ p.phase \in {"idle", "asked"} =>
        /\ v <= s.version
        /\ v = s.version /\ Compiles(s.rules) => h.regex = s.rules
        /\ h.regex \subseteq s.rules
    /\ p.phase = "regex" => h.regex \subseteq p.pack.rules
    /\ p.phase \in {"regex", "chain", "presidio"} =>
        p.pack.version \in Nat /\ Below(p.pack, s)

IInv ==
    /\ ReloadInv
    /\ ServedInv
    /\ \A g \in Gateways : Follows(halves[g], packVersion[g], pull[g], Served)

(***************************************************************************)
(* Older than what is older.                                               *)
(***************************************************************************)
LEMMA BelowIsTransitive ==
    ASSUME NEW p, NEW q, NEW r, p.version \in Nat, q.version \in Nat, r.version \in Nat,
           Below(p, q), Below(q, r)
    PROVE  Below(p, r)
<1>1. p.version <= r.version
    BY DEF Below
<1>2. p.version = r.version => p.version = q.version /\ q.version = r.version
    BY DEF Below
<1> QED BY <1>1, <1>2 DEF Below

(***************************************************************************)
(* A pack with a version is not one of the markers, nor a file with it.    *)
(***************************************************************************)
LEMMA Markers ==
    ASSUME NEW p, p.version \in Nat, NEW rs
    PROVE  /\ p # NoPack
           /\ [pack |-> p, rows |-> rs] # NoFile
           /\ [pack |-> p, rows |-> rs] # Torn
<1>1. NoPack.version = -1 /\ NoFile.pack = NoPack /\ Torn.pack.version = -2
    BY DEF NoPack, NoFile, Torn
<1>2. p.version # -1 /\ p.version # -2
    OBVIOUS
<1> DEFINE f == [pack |-> p, rows |-> rs]
<1>3. f.pack = p
    OBVIOUS
<1> HIDE DEF f
<1>4. p # NoPack /\ f # NoFile /\ f # Torn
    BY <1>1, <1>2, <1>3
<1> QED BY <1>4 DEF f

(***************************************************************************)
(* Each step of the control plane serves the same rules or more under a    *)
(* higher version: a save precedes the publish, and what a crash takes     *)
(* back the disk has.                                                      *)
(***************************************************************************)
LEMMA ServedGrows ==
    ASSUME SaveMayFail = FALSE, FileMayCorrupt = FALSE, ServedInv,
           Next \/ EditFile \/ UNCHANGED vars
    PROVE  ServedInv' /\ Below(Served, Served')
<1>0. \A p : Below(p, p) <=> p.version <= p.version
    BY DEF Below
<1>1. ASSUME NEW p, p.version \in Nat, Below(EmptyPack, p), up, pending = NoPack, up' = up,
             pack' = pack, file' = [pack |-> p, rows |-> rows'],
             \/ pending' = NoPack /\ p = pack
             \/ pending' = p /\ Below(pack, p)
      PROVE  ServedInv' /\ Below(Served, Served')
    <2>1. /\ file' # NoFile /\ file' # Torn /\ p # NoPack /\ file'.pack = p
          /\ file' = [pack |-> file'.pack, rows |-> file'.rows]
        BY <1>1, Markers
    <2>2. Disk' = p
        BY <2>1 DEF Disk
    <2>3. ServedInv'
        BY <1>1, <2>1, <2>2 DEF ServedInv
    <2>4. Served' = pack /\ Served = pack
        BY <1>1 DEF Served
    <2> QED BY <2>3, <2>4 DEF ServedInv, Below
<1>2. ASSUME up, pending = NoPack, up' = up, pack' = pack, pending' = pending,
             SavePatternsLocked(pack, rows')
      PROVE  ServedInv' /\ Below(Served, Served')
    <2>1. file' = [pack |-> pack, rows |-> rows']
        BY <1>2 DEF SavePatternsLocked
    <2> QED BY <2>1, <1>1, <1>2 DEF ServedInv
<1>3. ASSUME NEW t \in Types, NEW curated \in BOOLEAN, NEW gate \in Gates \cup {NoGate},
             NEW terms \in SUBSET Terms, NEW manual \in BOOLEAN, NEW kept \in SUBSET terms,
             Flywheel(t, curated, gate, terms, kept, manual)
      PROVE  ServedInv' /\ Below(Served, Served')
    BY <1>2, <1>3 DEF Flywheel, Idle
<1>4. ASSUME NEW row, AddProposal(row)
      PROVE  ServedInv' /\ Below(Served, Served')
    BY <1>2, <1>4 DEF AddProposal, Idle
<1>5. ASSUME NEW id, RejectProposal(id)
      PROVE  ServedInv' /\ Below(Served, Served')
    BY <1>2, <1>5 DEF RejectProposal, Idle
<1>6. ASSUME NEW id, ApproveProposal(id)
      PROVE  ServedInv' /\ Below(Served, Served')
    <2> DEFINE p == [version |-> pack.version + 1,
                     rules |-> pack.rules \cup {RuleOf(rows[LastWith(id)])}]
    <2>1. /\ up /\ pending = NoPack /\ up' = up /\ pack' = pack /\ pending' = p
          /\ SavePatternsLocked(pending', rows')
        BY <1>6 DEF ApproveProposal, Idle
    <2>2. file' = [pack |-> p, rows |-> rows']
        BY <2>1 DEF SavePatternsLocked
    <2>3. p.version = pack.version + 1 /\ pack.rules \subseteq p.rules
        OBVIOUS
    <2> HIDE DEF p
    <2>4. p.version \in Nat /\ Below(pack, p)
        BY <2>3 DEF ServedInv, Below
    <2>5. Below(EmptyPack, p)
        BY <2>3, <2>4 DEF ServedInv, Below, EmptyPack
    <2> QED BY <1>1, <2>1, <2>2, <2>4, <2>5
<1>7. CASE Publish
    <2>1. /\ pending # NoPack /\ pack' = pending /\ pending' = NoPack
          /\ up' = up /\ file' = file
        BY <1>7 DEF Publish
    <2>2. up /\ Disk = pending /\ Below(pack, Disk) /\ Disk' = Disk
        BY <2>1 DEF ServedInv, Disk
    <2>3. ServedInv'
        BY <2>1, <2>2 DEF ServedInv
    <2> QED BY <2>1, <2>2, <2>3 DEF Served
<1>8. CASE Crash
    <2>1. /\ up /\ up' = FALSE /\ pack' = EmptyPack /\ pending' = NoPack /\ file' = file
        BY <1>8 DEF Crash
    <2>2. Disk' = Disk
        BY <2>1 DEF Disk
    <2>3. EmptyPack.version \in Nat /\ Below(EmptyPack, EmptyPack)
        BY DEF EmptyPack, Below
    <2>4. ServedInv'
        BY <2>1, <2>2, <2>3 DEF ServedInv
    <2>5. Served = pack /\ Served' = Disk
        BY <2>1, <2>2 DEF Served
    <2>6. Below(pack, Disk)
        BY <2>1 DEF ServedInv, Below
    <2> QED BY <2>4, <2>5, <2>6
<1>9. CASE Boot
    <2>1. ~up /\ up' = TRUE /\ pending' = pending /\ file' = file
          /\ pack' = IF file \in {NoFile, Torn} THEN EmptyPack ELSE file.pack
        BY <1>9 DEF Boot
    <2>2. pack' = Disk /\ Disk' = Disk
        BY <2>1 DEF ServedInv, Disk
    <2>3. pending = NoPack
        BY <2>1 DEF ServedInv
    <2>4. ServedInv'
        BY <2>1, <2>2, <2>3 DEF ServedInv
    <2>5. Served = Disk /\ Served' = Disk
        BY <2>1, <2>2 DEF Served
    <2> QED BY <2>4, <2>5 DEF ServedInv, Below
<1>10. ~Corrupt
    BY DEF Corrupt
<1>11. CASE EditFile
    <2> DEFINE p == [version |-> file.pack.version + 1, rules |-> file.pack.rules \cup {BadRule}]
    <2>1. /\ ~up /\ up' = up /\ file # NoFile /\ file # Torn /\ pack' = pack
          /\ pending' = pending /\ file' = [file EXCEPT !.pack = p]
        BY <1>11 DEF EditFile
    <2>2. Disk = file.pack /\ pending = NoPack
        BY <2>1 DEF Disk, ServedInv
    <2>3. p.version = Disk.version + 1 /\ Disk.rules \subseteq p.rules
        BY <2>2
    <2> HIDE DEF p
    <2>4. p.version \in Nat /\ Below(Disk, p) /\ Below(EmptyPack, p)
        BY <2>3 DEF ServedInv, Below, EmptyPack
    <2>5. file' = [pack |-> p, rows |-> file.rows]
        BY <2>1 DEF ServedInv
    <2>6. /\ file' # NoFile /\ file' # Torn /\ file'.pack = p
          /\ file' = [pack |-> file'.pack, rows |-> file'.rows]
        BY <2>4, <2>5, Markers
    <2>7. Disk' = p
        BY <2>6 DEF Disk
    <2>8. ServedInv'
        BY <2>1, <2>2, <2>4, <2>6, <2>7 DEF ServedInv
    <2>9. Served = Disk /\ Served' = p
        BY <2>1, <2>7 DEF Served
    <2> QED BY <2>4, <2>8, <2>9
<1>12. CASE UNCHANGED vars
    <2>1. up' = up /\ pack' = pack /\ pending' = pending /\ file' = file
        BY <1>12 DEF vars
    <2>2. Disk' = Disk /\ Served' = Served
        BY <2>1 DEF Disk, Served
    <2>3. ServedInv'
        BY <2>1, <2>2 DEF ServedInv
    <2>4. Below(Served, Served)
        BY DEF ServedInv, Served, Below
    <2> QED BY <2>2, <2>3, <2>4
<1> QED BY <1>3, <1>4, <1>5, <1>6, <1>7, <1>8, <1>9, <1>10, <1>11, <1>12 DEF Next

(***************************************************************************)
(* A gateway that waits follows the served pack as it grows.               *)
(***************************************************************************)
LEMMA FollowsGrowth ==
    ASSUME NEW h, NEW v, NEW p, NEW s, NEW s2, Follows(h, v, p, s), Below(s, s2),
           s.version \in Nat, s2.version \in Nat
    PROVE  Follows(h, v, p, s2)
<1>1. p.phase \in {"regex", "chain", "presidio"} => Below(p.pack, s2)
    BY BelowIsTransitive DEF Follows
<1>2. p.phase \in {"idle", "asked"} =>
        /\ v <= s2.version
        /\ v = s2.version /\ Compiles(s2.rules) => h.regex = s2.rules
        /\ h.regex \subseteq s2.rules
    <2> SUFFICES ASSUME p.phase \in {"idle", "asked"}
                 PROVE  /\ v <= s2.version
                        /\ v = s2.version /\ Compiles(s2.rules) => h.regex = s2.rules
                        /\ h.regex \subseteq s2.rules
        OBVIOUS
    <2>1. v \in Nat /\ v <= s.version /\ s.version <= s2.version
        BY DEF Follows, Below
    <2>2. v <= s2.version
        BY <2>1
    <2>3. v = s2.version => v = s.version /\ s.version = s2.version
        BY <2>1
    <2>4. v = s2.version /\ Compiles(s2.rules) => h.regex = s2.rules
        BY <2>3 DEF Follows, Below
    <2>5. h.regex \subseteq s2.rules
        BY DEF Follows, Below
    <2> QED BY <2>2, <2>4, <2>5
<1> QED BY <1>1, <1>2 DEF Follows

(***************************************************************************)
(* And so does each step of the gateway's own: a version is recorded when  *)
(* its rules are in all three halves, or cannot be installed.              *)
(***************************************************************************)
LEMMA GatewayFollows ==
    ASSUME ReloadInv, ServedInv, NEW g \in Gateways,
           Follows(halves[g], packVersion[g], pull[g], Served),
           \/ AskPatterns(g) \/ ServePatterns(g) \/ PullFails(g) \/ RejectPack(g)
           \/ InstallRegex(g) \/ InstallChain(g) \/ InstallPresidio(g)
           \/ RestartGateway(g)
    PROVE  Follows(halves'[g], packVersion'[g], pull'[g], Served)
<1>1. /\ DOMAIN halves = Gateways /\ DOMAIN pull = Gateways
      /\ DOMAIN packVersion = Gateways /\ IsPull(pull[g])
    BY ShapeOf
<1>2. Served.version \in Nat /\ Below(EmptyPack, Served) /\ Below(Served, Served)
    BY DEF ServedInv, Served, Below
<1>3. CASE AskPatterns(g)
    <2>1. /\ pull' = [pull EXCEPT ![g] = [pull[g] EXCEPT !.phase = "asked"]]
          /\ pull[g].phase = "idle" /\ halves' = halves /\ packVersion' = packVersion
        BY <1>3 DEF AskPatterns
    <2>2. [pull[g] EXCEPT !.phase = "asked"] = [phase |-> "asked", pack |-> pull[g].pack]
        BY <1>1, SetField
    <2>3. pull'[g] = [phase |-> "asked", pack |-> pull[g].pack]
        BY <2>1, <2>2, <1>1
    <2> QED BY <2>1, <2>3 DEF Follows
<1>4. CASE ServePatterns(g)
    <2>1. /\ halves' = halves /\ packVersion' = packVersion
          /\ pull[g].phase = "asked" /\ up
          /\ pull'[g] = NoPull \/ pull'[g] = [phase |-> "regex", pack |-> pack]
        BY <1>1, <1>4 DEF ServePatterns
    <2>2. Served = pack
        BY <2>1 DEF Served
    <2> QED BY <2>1, <2>2, <1>2 DEF Follows, NoPull
<1>5. CASE PullFails(g)
    <2>1. /\ halves' = halves /\ packVersion' = packVersion
          /\ pull[g].phase = "asked" /\ pull'[g] = NoPull
        BY <1>1, <1>5 DEF PullFails
    <2> QED BY <2>1 DEF Follows, NoPull
<1>6. CASE RejectPack(g)
    <2>1. /\ halves' = halves /\ packVersion'[g] = pull[g].pack.version
          /\ pull[g].phase = "regex" /\ pull'[g] = NoPull
          /\ ~Compiles(pull[g].pack.rules)
        BY <1>1, <1>6 DEF RejectPack
    <2> QED BY <2>1 DEF Follows, NoPull, Below
<1>7. CASE InstallRegex(g)
    <2>1. /\ pull'[g] = [phase |-> "chain", pack |-> pull[g].pack]
          /\ packVersion' = packVersion
        BY <1>7, InstallRegexKeeps
    <2>2. pull[g].phase = "regex"
        BY <1>7 DEF InstallRegex
    <2> QED BY <2>1, <2>2 DEF Follows
<1>8. CASE InstallChain(g)
    <2>1. /\ pull'[g] = [phase |-> "presidio", pack |-> pull[g].pack]
          /\ packVersion' = packVersion
        BY <1>8, InstallChainKeeps
    <2>2. pull[g].phase = "chain"
        BY <1>8 DEF InstallChain
    <2> QED BY <2>1, <2>2 DEF Follows
<1>9. CASE InstallPresidio(g)
    <2>1. /\ halves'[g].regex = pull[g].pack.rules
          /\ pull'[g] = NoPull
          /\ packVersion'[g] = pull[g].pack.version
        BY <1>9, InstallPresidioKeeps
    <2>2. pull[g].phase = "presidio"
        BY <1>9 DEF InstallPresidio
    <2> QED BY <2>1, <2>2 DEF Follows, NoPull, Below
<1>10. CASE RestartGateway(g)
    <2>1. halves'[g] = NoHalves /\ pull'[g] = NoPull /\ packVersion'[g] = 0
        BY <1>10, RestartGatewayKeeps
    <2> QED BY <2>1, <1>2 DEF Follows, NoPull, NoHalves, Below, EmptyPack
<1> QED BY <1>3, <1>4, <1>5, <1>6, <1>7, <1>8, <1>9, <1>10

(***************************************************************************)
(* Before the first boot nothing is served and every gateway has nothing.  *)
(***************************************************************************)
LEMMA IInvInit == SpineInit => IInv
<1> SUFFICES ASSUME SpineInit PROVE IInv
    OBVIOUS
<1>1. ReloadInv
    BY ReloadInvInit
<1>2. up = FALSE /\ pack = EmptyPack /\ pending = NoPack /\ file = NoFile
    BY DEF SpineInit, Init
<1>3. Disk = EmptyPack /\ Served = EmptyPack
    BY <1>2 DEF Disk, Served
<1>4. EmptyPack.version = 0 /\ EmptyPack.rules = {} /\ Below(EmptyPack, EmptyPack)
    BY DEF EmptyPack, Below
<1>5. file # Torn /\ file = [pack |-> file.pack, rows |-> file.rows]
    BY <1>2 DEF NoFile, Torn, NoPack
<1>6. ServedInv
    <2>1. up \in BOOLEAN /\ ~up
        BY <1>2
    <2>2. Disk.version \in Nat /\ Below(EmptyPack, Disk)
          /\ pack.version \in Nat /\ Below(EmptyPack, pack)
        BY <1>2, <1>3, <1>4
    <2>3. pending = NoPack
        BY <1>2
    <2> QED BY <2>1, <2>2, <2>3, <1>5 DEF ServedInv
<1>7. ASSUME NEW g \in Gateways
      PROVE  Follows(halves[g], packVersion[g], pull[g], Served)
    <2>1. halves[g] = NoHalves /\ packVersion[g] = 0 /\ pull[g] = NoPull
        BY DEF SpineInit
    <2> QED BY <2>1, <1>3, <1>4 DEF Follows, NoHalves, NoPull
<1> QED BY <1>1, <1>6, <1>7 DEF IInv

(***************************************************************************)
(* The gateways follow the control plane's steps, and their own.           *)
(***************************************************************************)
LEMMA IInvStep ==
    ASSUME SaveMayFail = FALSE, FileMayCorrupt = FALSE, IInv, [SpineNext]_allVars
    PROVE  IInv'
<1>1. ReloadInv'
    BY ReloadInvStep DEF IInv
<1>2. Served.version \in Nat
    BY DEF IInv, ServedInv, Served
<1>3. ASSUME Next \/ EditFile \/ UNCHANGED vars
      PROVE  ServedInv' /\ Below(Served, Served') /\ Served'.version \in Nat
    <2>1. ServedInv' /\ Below(Served, Served')
        BY <1>3, ServedGrows DEF IInv
    <2> QED BY <2>1 DEF ServedInv, Served
<1>4. CASE (Next \/ EditFile \/ UNCHANGED vars) /\ UNCHANGED edge
    <2>1. ASSUME NEW g \in Gateways
          PROVE  Follows(halves'[g], packVersion'[g], pull'[g], Served')
        <3>1. Follows(halves[g], packVersion[g], pull[g], Served)
            BY DEF IInv
        <3>2. halves'[g] = halves[g] /\ packVersion'[g] = packVersion[g] /\ pull'[g] = pull[g]
            BY <1>4 DEF edge
        <3>3. Follows(halves[g], packVersion[g], pull[g], Served')
            BY <3>1, <1>2, <1>3, <1>4, FollowsGrowth
        <3> QED BY <3>2, <3>3
    <2> QED BY <2>1, <1>1, <1>3, <1>4 DEF IInv
<1>5. ASSUME NEW g \in Gateways, UNCHANGED vars, Others(g),
             Follows(halves'[g], packVersion'[g], pull'[g], Served)
      PROVE  IInv'
    <2>1. ServedInv'
        BY <1>3, <1>5
    <2>2. Served' = Served
        BY <1>5 DEF Served, Disk, vars
    <2>3. ASSUME NEW k \in Gateways
          PROVE  Follows(halves'[k], packVersion'[k], pull'[k], Served')
        <3>1. CASE k = g
            BY <3>1, <1>5, <2>2
        <3>2. CASE k # g
            <4>1. Follows(halves[k], packVersion[k], pull[k], Served)
                BY DEF IInv
            <4> QED BY <4>1, <3>2, <1>5, <2>2 DEF Others
        <3> QED BY <3>1, <3>2
    <2> QED BY <2>1, <2>3, <1>1 DEF IInv
<1>6. ASSUME NEW g \in Gateways,
             \/ AskPatterns(g) \/ ServePatterns(g) \/ PullFails(g) \/ RejectPack(g)
             \/ InstallRegex(g) \/ InstallChain(g) \/ InstallPresidio(g)
             \/ RestartGateway(g)
      PROVE  IInv'
    <2>1. UNCHANGED vars
        BY <1>6 DEF AskPatterns, ServePatterns, PullFails, RejectPack, InstallRegex,
                    InstallChain, InstallPresidio, RestartGateway
    <2>2. Others(g)
        BY <1>6, PullStepsKeep, InstallRegexKeeps, InstallChainKeeps, InstallPresidioKeeps,
           RestartGatewayKeeps DEF IInv
    <2>3. Follows(halves'[g], packVersion'[g], pull'[g], Served)
        BY <1>6, GatewayFollows DEF IInv
    <2> QED BY <2>1, <2>2, <2>3, <1>5
<1>7. ASSUME NEW g \in Gateways,
             \/ \E x \in Terms : RegexDetects(g, x)
             \/ FilterSpan(g) \/ PresidioDetects(g) \/ ChainReturns(g)
      PROVE  IInv'
    <2>1. UNCHANGED <<vars, halves, packVersion, pull>>
        BY <1>7, RequestStepsKeep DEF IInv
    <2>2. ServedInv'
        BY <1>3, <2>1
    <2>3. Served' = Served
        BY <2>1 DEF Served, Disk, vars
    <2> QED BY <2>1, <2>2, <2>3, <1>1 DEF IInv
<1>8. EditFile => UNCHANGED edge
    BY DEF EditFile
<1>9. UNCHANGED allVars => UNCHANGED edge /\ UNCHANGED vars
    BY DEF allVars
<1> QED BY <1>4, <1>6, <1>7, <1>8, <1>9 DEF SpineNext
-----------------------------------------------------------------------------
(***************************************************************************)
(* While every save reaches the disk and the file can be read: a version   *)
(* names its rules, so that the pull loop's equality test skips nothing.   *)
(***************************************************************************)
THEOREM VersionNamesContent ==
    ASSUME SaveMayFail = FALSE, FileMayCorrupt = FALSE
    PROVE  SpineSpec => []PackVersionNamesContent
<1>1. SpineInit => IInv
    BY IInvInit
<1>2. IInv /\ [SpineNext]_allVars => IInv'
    BY IInvStep
<1>3. IInv => PackVersionNamesContent
    BY DEF IInv, ReloadInv, Agree, Follows, Served, PackVersionNamesContent
<1> QED BY <1>1, <1>2, <1>3, PTL DEF SpineSpec

(***************************************************************************)
(* Under the same assumptions no install takes a rule out of force, over   *)
(* crashes and restarts of either side and edits of the file.              *)
(***************************************************************************)
THEOREM RulesAreNotDropped ==
    ASSUME SaveMayFail = FALSE, FileMayCorrupt = FALSE
    PROVE  SpineSpec => NoRuleIsDropped
<1>1. SpineInit => IInv
    BY IInvInit
<1>2. IInv /\ [SpineNext]_allVars => IInv'
    BY IInvStep
<1>3. IInv /\ [SpineNext]_allVars =>
        [\A g \in Gateways : InstallRegex(g) => halves[g].regex \subseteq halves'[g].regex]_allVars
    <2> SUFFICES ASSUME IInv, NEW g \in Gateways, InstallRegex(g)
                 PROVE  halves[g].regex \subseteq halves'[g].regex
        OBVIOUS
    <2>1. halves'[g].regex = pull[g].pack.rules
        BY InstallRegexKeeps DEF IInv
    <2>2. pull[g].phase = "regex"
        BY DEF InstallRegex
    <2> QED BY <2>1, <2>2 DEF IInv, Follows
<1> QED BY <1>1, <1>2, <1>3, PTL DEF SpineSpec, NoRuleIsDropped
=============================================================================
