---------------------------- MODULE PatternSpine ----------------------------
(***************************************************************************)
(* The pattern pack at the gateways: pullPatterns polls the pack, compares *)
(* versions for equality and installs a new one in three steps, the regex  *)
(* recognizers, the chain's allow lists, the Presidio half, while requests *)
(* read the three one after another and never together.                    *)
(*                                                                         *)
(* A request is the detection of one term of a text; an engine that fails  *)
(* is the pipeline's concern and left out, and so are type guards, which   *)
(* no pack changes, and regexes of two types that overlap (see Pipeline).  *)
(***************************************************************************)
EXTENDS PatternPack

CONSTANTS
    Gateways,
    Builtin,      \* <<term, type>> pairs the builtin recognizers match
    CuratedHits,  \* <<term, type>> pairs a pack regex of the type matches
    Score,        \* Presidio's score of a <<term, type>> pair, 0 for unseen
    DefaultGate,  \* PresidioDefaultScoreGate
    BadRule,      \* a regex rule that does not compile
    FileMayBeEdited

ASSUME PatternSpineAssumptions ==
    /\ Builtin \subseteq Terms \X Types
    /\ CuratedHits \subseteq Terms \X Types
    /\ \A x \in Terms : Cardinality({t \in Types : <<x, t>> \in Builtin \cup CuratedHits}) <= 1
    /\ Score \in [Terms \X Types -> Nat]
    /\ DefaultGate \in Nat
    /\ BadRule \in Rules /\ BadRule.kind = "regex"
    /\ FileMayBeEdited \in BOOLEAN

VARIABLES
    halves,       \* gateway -> the rules each half was last built from
    packVersion,  \* gateway -> s.packVersion
    pull,         \* gateway -> the pull under way
    req           \* gateway -> the detection under way

edge == <<halves, packVersion, pull, req>>
allVars == <<vars, edge>>

NoHalves == [regex |-> {}, allow |-> {}, presidio |-> {}]
NoPull == [phase |-> "idle", pack |-> NoPack]
NoReq == [phase |-> "idle"]
-----------------------------------------------------------------------------
(***************************************************************************)
(* What each part of the chain makes of a term under the rules it holds.   *)
(***************************************************************************)
RegexFinds(rules, x) ==
    {t \in Types : <<x, t>> \in Builtin
                   \/ /\ \E r \in rules : r.kind = "regex" /\ r.type = t
                      /\ <<x, t>> \in CuratedHits}

Suppressed(rules, x) ==
    {r.type : r \in {s \in rules : s.kind = "allow_list" /\ x \in s.terms}}

GateFor(rules, t) ==
    LET gates == {r.gate : r \in {s \in rules : s.kind = "threshold" /\ s.type = t}}
    IN  IF gates = {} THEN DefaultGate
        ELSE CHOOSE g \in gates : \A h \in gates : g <= h

PresidioFinds(rules, x) ==
    {t \in Types :
        \/ Score[<<x, t>>] > 0 /\ Score[<<x, t>>] >= GateFor(rules, t)
        \/ \E r \in rules : r.kind = "deny_list" /\ r.type = t /\ x \in r.terms
        \/ /\ \E r \in rules : r.kind = "regex" /\ r.type = t
           /\ <<x, t>> \in CuratedHits}

\* The whole chain under one pack: what a request sees away from reloads.
FoundUnder(rules, x) ==
    (RegexFinds(rules, x) \cup PresidioFinds(rules, x)) \ Suppressed(rules, x)
-----------------------------------------------------------------------------
SpineInit ==
    /\ Init
    /\ halves = [g \in Gateways |-> NoHalves]
    /\ packVersion = [g \in Gateways |-> 0]
    /\ pull = [g \in Gateways |-> NoPull]
    /\ req = [g \in Gateways |-> NoReq]

AskPatterns(g) ==
    /\ pull[g].phase = "idle"
    /\ pull' = [pull EXCEPT ![g].phase = "asked"]
    /\ UNCHANGED <<vars, halves, packVersion, req>>

\* Fault: a gateway that has a pack does not take another.
HasSomePack(g, p) == packVersion[g] # 0

SameVersion(g, p) == p.version = packVersion[g]

\* The pack is read without r.mu: an approval that is being saved is not in it.
ServePatterns(g) ==
    /\ pull[g].phase = "asked"
    /\ up
    /\ pull' = [pull EXCEPT ![g] =
                    IF SameVersion(g, pack) THEN NoPull
                    ELSE [phase |-> "regex", pack |-> pack]]
    /\ UNCHANGED <<vars, halves, packVersion, req>>

PullFails(g) ==
    /\ pull[g].phase = "asked"
    /\ pull' = [pull EXCEPT ![g] = NoPull]
    /\ UNCHANGED <<vars, halves, packVersion, req>>

Compiles(rules) == BadRule \notin rules

\* A request in flight has now been served under these rules too.
Witnessed(g, rules) ==
    req' = IF req[g].phase \in {"regex", "presidio"}
           THEN [req EXCEPT ![g].inForce = @ \cup {rules}] ELSE req

InstallRegex(g) ==
    /\ pull[g].phase = "regex"
    /\ Compiles(pull[g].pack.rules)
    /\ halves' = [halves EXCEPT ![g].regex = pull[g].pack.rules]
    /\ pull' = [pull EXCEPT ![g].phase = "chain"]
    /\ Witnessed(g, pull[g].pack.rules)
    /\ UNCHANGED <<vars, packVersion>>

\* Fault: the chain is installed before the recognizers have compiled.
RejectAfterChain(g) ==
    /\ pull[g].phase = "regex"
    /\ ~Compiles(pull[g].pack.rules)
    /\ halves' = [halves EXCEPT ![g].allow = pull[g].pack.rules]
    /\ packVersion' = [packVersion EXCEPT ![g] = pull[g].pack.version]
    /\ pull' = [pull EXCEPT ![g] = NoPull]
    /\ UNCHANGED <<vars, req>>

\* Nothing is installed, and the version is recorded so as not to try again.
RejectPack(g) ==
    /\ pull[g].phase = "regex"
    /\ ~Compiles(pull[g].pack.rules)
    /\ packVersion' = [packVersion EXCEPT ![g] = pull[g].pack.version]
    /\ pull' = [pull EXCEPT ![g] = NoPull]
    /\ UNCHANGED <<vars, halves, req>>

InstallChain(g) ==
    /\ pull[g].phase = "chain"
    /\ halves' = [halves EXCEPT ![g].allow = pull[g].pack.rules]
    /\ pull' = [pull EXCEPT ![g].phase = "presidio"]
    /\ UNCHANGED <<vars, packVersion, req>>

\* Fault: a pack without Presidio rules leaves the Presidio half as it was.
InstallPresidioRules(g) ==
    /\ pull[g].phase = "presidio"
    /\ halves' = IF \E r \in pull[g].pack.rules : r.kind # "allow_list"
                 THEN [halves EXCEPT ![g].presidio = pull[g].pack.rules] ELSE halves
    /\ packVersion' = [packVersion EXCEPT ![g] = pull[g].pack.version]
    /\ pull' = [pull EXCEPT ![g] = NoPull]
    /\ UNCHANGED <<vars, req>>

InstallPresidio(g) ==
    /\ pull[g].phase = "presidio"
    /\ halves' = [halves EXCEPT ![g].presidio = pull[g].pack.rules]
    /\ packVersion' = [packVersion EXCEPT ![g] = pull[g].pack.version]
    /\ pull' = [pull EXCEPT ![g] = NoPull]
    /\ UNCHANGED <<vars, req>>

\* A gateway process starts with builtin recognizers and version 0.
RestartGateway(g) ==
    /\ halves' = [halves EXCEPT ![g] = NoHalves]
    /\ packVersion' = [packVersion EXCEPT ![g] = 0]
    /\ pull' = [pull EXCEPT ![g] = NoPull]
    /\ req' = [req EXCEPT ![g] = NoReq]
    /\ UNCHANGED vars
-----------------------------------------------------------------------------
(***************************************************************************)
(* Chain.Run: each engine loads its half once; the allow lists are loaded  *)
(* again for every span.                                                   *)
(***************************************************************************)
RegexDetects(g, x) ==
    /\ req[g].phase \in {"idle", "done"}
    /\ req' = [req EXCEPT ![g] =
                [phase |-> "regex", term |-> x, found |-> {},
                 raw |-> RegexFinds(halves[g].regex, x),
                 inForce |-> {halves[g][h] : h \in DOMAIN NoHalves}]]
    /\ UNCHANGED <<vars, halves, packVersion, pull>>

FilterSpan(g) ==
    /\ req[g].phase \in {"regex", "presidio"}
    /\ \E t \in req[g].raw :
        req' = [req EXCEPT
                    ![g].raw = @ \ {t},
                    ![g].found = @ \cup ({t} \ Suppressed(halves[g].allow, req[g].term))]
    /\ UNCHANGED <<vars, halves, packVersion, pull>>

PresidioDetects(g) ==
    /\ req[g].phase = "regex"
    /\ req[g].raw = {}
    /\ req' = [req EXCEPT
                ![g].phase = "presidio",
                ![g].raw = PresidioFinds(halves[g].presidio, req[g].term)]
    /\ UNCHANGED <<vars, halves, packVersion, pull>>

ChainReturns(g) ==
    /\ req[g].phase = "presidio"
    /\ req[g].raw = {}
    /\ req' = [req EXCEPT ![g].phase = "done"]
    /\ UNCHANGED <<vars, halves, packVersion, pull>>

\* The owner edits patterns.json by hand: no approval has checked the regex.
EditFile ==
    /\ FileMayBeEdited
    /\ ~up
    /\ file \notin {NoFile, Torn}
    /\ BadRule \notin file.pack.rules
    /\ file' = [file EXCEPT !.pack = [version |-> @.version + 1,
                                      rules |-> @.rules \cup {BadRule}]]
    /\ UNCHANGED <<up, rows, pack, pending, persistErr, edge>>

SpineNext ==
    \/ Next /\ UNCHANGED edge
    \/ EditFile
    \/ \E g \in Gateways :
        \/ AskPatterns(g)
        \/ ServePatterns(g)
        \/ PullFails(g)
        \/ InstallRegex(g)
        \/ RejectPack(g)
        \/ InstallChain(g)
        \/ InstallPresidio(g)
        \/ RestartGateway(g)
        \/ \E x \in Terms : RegexDetects(g, x)
        \/ FilterSpan(g)
        \/ PresidioDetects(g)
        \/ ChainReturns(g)

SpineSpec == SpineInit /\ [][SpineNext]_allVars

(***************************************************************************)
(* Fairness: the pull loop is rearmed after every pull, and if the control *)
(* plane is up again and again some pull begins while it is; a pull in     *)
(* flight may fail, but not always; the control plane is restarted; the    *)
(* mutex is released; a gateway is never obliged to restart.               *)
(***************************************************************************)
Fairness ==
    /\ WF_allVars(Boot /\ UNCHANGED edge)
    /\ WF_allVars(Publish /\ UNCHANGED edge)
    /\ \A g \in Gateways :
        /\ WF_allVars(AskPatterns(g))
        /\ SF_allVars(AskPatterns(g) /\ up)
        /\ SF_allVars(ServePatterns(g))
        /\ SF_allVars(InstallRegex(g))
        /\ SF_allVars(InstallChain(g))
        /\ SF_allVars(InstallPresidio(g))

LiveSpec == SpineSpec /\ Fairness
-----------------------------------------------------------------------------
SpineTypeOK ==
    /\ TypeOK
    /\ \A g \in Gateways :
        /\ packVersion[g] \in Nat
        /\ pull[g].phase \in {"idle", "asked", "regex", "chain", "presidio"}
        /\ pull[g].phase \in {"idle", "asked"} <=> pull[g].pack = NoPack
        /\ req[g].phase \in {"idle", "regex", "presidio", "done"}
        /\ req[g].phase # "idle" => req[g].found \subseteq Types

(***************************************************************************)
(* Between pulls the three halves come from the same rules, also after a   *)
(* pack was rejected. While every save reaches the disk, a gateway at the  *)
(* served version holds the served rules, or has rejected them: the        *)
(* equality test skips nothing.                                            *)
(***************************************************************************)
PackVersionNamesContent ==
    \A g \in Gateways :
        pull[g].phase \in {"idle", "asked"} =>
            /\ halves[g].regex = halves[g].allow /\ halves[g].allow = halves[g].presidio
            /\ up /\ packVersion[g] = pack.version /\ Compiles(pack.rules)
               => halves[g].regex = pack.rules

(***************************************************************************)
(* However many reloads a request straddles, a type that each of the packs *)
(* would find in a term is found.                                          *)
(***************************************************************************)
NoTypeLostInReload ==
    \A g \in Gateways, t \in Types :
        /\ req[g].phase = "done"
        /\ \A rules \in req[g].inForce : t \in FoundUnder(rules, req[g].term)
        => t \in req[g].found

(***************************************************************************)
(* No install takes a rule out of force: a pack only grows, and one that   *)
(* could not be restored is not published.                                 *)
(***************************************************************************)
NoRuleIsDropped ==
    [][\A g \in Gateways : InstallRegex(g) => halves[g].regex \subseteq halves'[g].regex]_allVars

(***************************************************************************)
(* The window of a reload is over-detection: a term that each of the packs *)
(* in force would mask is masked.                                          *)
(***************************************************************************)
ReloadOnlyOverDetects ==
    \A g \in Gateways :
        /\ req[g].phase = "done"
        /\ \A rules \in req[g].inForce : FoundUnder(rules, req[g].term) # {}
        => req[g].found # {}

(***************************************************************************)
(* An approval that reached the disk reaches every gateway, unless the     *)
(* file holds a regex that no gateway compiles.                            *)
(***************************************************************************)
ApprovalReachesGateways ==
    \A g \in Gateways, id \in OwnerIds :
        LET OnDisk == /\ file \notin {NoFile, Torn}
                      /\ id \in {r.id : r \in file.pack.rules}
            Rejected == file \notin {NoFile, Torn} /\ ~Compiles(file.pack.rules)
            InForce == \A h \in DOMAIN NoHalves : id \in {r.id : r \in halves[g][h]}
        IN  OnDisk /\ ~Rejected ~> InForce \/ Rejected
=============================================================================
