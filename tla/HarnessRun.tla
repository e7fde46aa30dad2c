----------------------------- MODULE HarnessRun -----------------------------
(***************************************************************************)
(* A run of the harness: StartRun, the requests it sends through the       *)
(* gateway, the wait for the gateway's reports, the score, the promotion   *)
(* of misses to the corpus, the ratchet point, the record of the run. One  *)
(* run at a time; the process may end between any two steps.               *)
(*                                                                         *)
(* Each request is a text with one seeded value. What becomes of it at the *)
(* gateway and upstream is its fate; the harness sees the answer, if it    *)
(* does not give up first, and the report and the capture, if and when     *)
(* they arrive. Proposals, the other thing a run produces, are             *)
(* PatternPack's. Spans, latencies and rates are left out, and every file  *)
(* that was written can be read.                                           *)
(***************************************************************************)
EXTENDS Integers, Sequences, FiniteSets, SequencesExt

CONSTANTS
    Texts,          \* contents of requests, with their seeded values
    Total,          \* requests of a run
    Concurrency,    \* requests under way at a time
    MaxRuns,        \* bound on the runs of a behaviour
    MaxStoredRuns,  \* maxStoredRuns
    SaveMayFail,    \* whether the disk may refuse a write, or cut it short
    NoFate

ASSUME HarnessAssumptions ==
    /\ Texts # {}
    /\ Total \in Nat \ {0} /\ Concurrency \in Nat \ {0}
    /\ MaxRuns \in Nat /\ MaxStoredRuns \in Nat \ {0}
    /\ SaveMayFail \in BOOLEAN

Requests == 1 .. Total
Stages == {"idle", "send", "join", "promote", "append", "record", "release"}

(***************************************************************************)
(* What may become of a request: the action the gateway reports, the       *)
(* answer it gives, whether the report names the value, whether there is a *)
(* capture (a real vendor keeps none) and whether the value went out raw.  *)
(***************************************************************************)
Fate(action, answer, named, captured, leaked) ==
    [action |-> action, answer |-> answer, named |-> named,
     captured |-> captured, leaked |-> leaked]

\* For what was detected, or because the detector failed.
Blocked == {Fate("block", "blocked", TRUE, FALSE, FALSE), Fate("block", "other", FALSE, FALSE, FALSE)}
\* Nothing could be sent.
Unsent == {Fate("pass", "other", FALSE, FALSE, FALSE)}
\* Masked as far as it was named, or sent on as it is; the upstream may say 400.
Sent == {Fate("mask", "other", n, c, ~n) : n, c \in BOOLEAN}
        \cup {Fate("detect", "other", TRUE, c, TRUE) : c \in BOOLEAN}
        \cup {Fate("pass", "other", FALSE, c, TRUE) : c \in BOOLEAN}
        \cup {Fate("mask", "bad", TRUE, FALSE, FALSE), Fate("pass", "bad", FALSE, FALSE, TRUE)}
Fates == Blocked \cup Unsent \cup Sent

VARIABLES
    up,         \* the control-plane process is serving
    running,    \* r.running
    runs,       \* r.runs
    started,    \* history: how many runs were started
    stage,      \* where execute stands
    item,       \* request -> its text
    answer,     \* request -> "none", "open", or what the worker got
    fate,       \* request -> what became of it, NoFate while undecided
    reported,   \* requests whose report the control plane has
    results,    \* request -> its result, once scored
    caught,     \* requests whose value the score counts as caught
    at,         \* the result flywheel is about to look at
    corpus,     \* r.corpus
    corpusDir,  \* the texts of the files of the corpus directory
    ratchet,    \* r.ratchet, as the numbers of the runs
    lines,      \* the lines of ratchet.jsonl, 0 for one cut short
    failed      \* history: an append to ratchet.jsonl has failed

sending == <<item, answer, fate, reported>>
scored == <<results, caught, at>>
process == <<up, running, runs, started>>
store == <<corpus, corpusDir, ratchet, lines, failed>>
vars == <<process, stage, sending, scored, store>>

NewRun == [status |-> "running", completed |-> 0, errors |-> 0, blocked |-> 0,
           masked |-> 0, detectOnly |-> 0, passed |-> 0]
Result(action, missed) == [action |-> action, missed |-> missed]

\* What execute holds before it has sent anything, but for the texts.
Unanswered ==
    /\ answer' = [i \in Requests |-> "none"]
    /\ fate' = [i \in Requests |-> NoFate]
    /\ reported' = {}
Unscored ==
    /\ results' = [i \in Requests |-> Result("", FALSE)]
    /\ caught' = {}
    /\ at' = 1

AnyText == CHOOSE t \in Texts : TRUE

Init ==
    /\ up = TRUE /\ running = FALSE
    /\ runs = <<>> /\ started = 0
    /\ stage = "idle"
    /\ item = [i \in Requests |-> AnyText]
    /\ answer = [i \in Requests |-> "none"]
    /\ fate = [i \in Requests |-> NoFate]
    /\ reported = {}
    /\ results = [i \in Requests |-> Result("", FALSE)]
    /\ caught = {} /\ at = 1
    /\ corpus = <<>> /\ corpusDir = {}
    /\ ratchet = <<>> /\ lines = <<>> /\ failed = FALSE
-----------------------------------------------------------------------------
Trim(s) == IF Len(s) > MaxStoredRuns THEN SubSeq(s, 2, Len(s)) ELSE s

\* Without a fresh heartbeat StartRun refuses. A replay repeats a text.
StartRun ==
    /\ up /\ ~running /\ started < MaxRuns
    /\ started' = started + 1
    /\ running' = TRUE
    /\ runs' = Trim(Append(runs, NewRun))
    /\ stage' = "send"
    /\ item' \in [Requests -> Texts]
    /\ UNCHANGED <<up, answer, fate, reported, scored, store>>

Open == {i \in Requests : answer[i] = "open"}

\* The semaphore is taken before the next worker is started, in order.
SendOne(i) ==
    /\ stage = "send" /\ answer[i] = "none"
    /\ \A j \in 1 .. i - 1 : answer[j] # "none"
    /\ Cardinality(Open) < Concurrency
    /\ answer' = [answer EXCEPT ![i] = "open"]
    /\ UNCHANGED <<process, stage, item, fate, reported, scored, store>>

\* The gateway handles a request, also one the harness has given up on.
GatewayHandles(i) ==
    /\ answer[i] \in {"open", "error"} /\ fate[i] = NoFate
    /\ \E f \in Fates : fate' = [fate EXCEPT ![i] = f]
    /\ UNCHANGED <<process, stage, item, answer, reported, scored, store>>

Counted(r, got) ==
    [r EXCEPT !.completed = @ + 1,
              !.errors = IF got = "error" THEN @ + 1 ELSE @,
              !.blocked = IF got = "blocked" THEN @ + 1 ELSE @]

Completed(i, got) ==
    /\ answer' = [answer EXCEPT ![i] = got]
    /\ runs' = [runs EXCEPT ![Len(runs)] = Counted(@, got)]
    /\ UNCHANGED <<up, running, started, stage, item, fate, reported, scored, store>>

Answered(i) == answer[i] = "open" /\ fate[i] # NoFate /\ Completed(i, fate[i].answer)

\* A timeout or a broken answer, before or after the gateway is done with it.
RequestFails(i) == answer[i] = "open" /\ Completed(i, "error")

\* The report comes when the gateway pushes it, or never (ReportDelivery).
ReportArrives(i) ==
    /\ up /\ fate[i] # NoFate /\ i \notin reported
    /\ reported' = reported \cup {i}
    /\ UNCHANGED <<process, stage, item, answer, fate, scored, store>>

AllAnswered ==
    /\ stage = "send"
    /\ \A i \in Requests : answer[i] \notin {"none", "open"}
    /\ stage' = "join"
    /\ UNCHANGED <<process, sending, scored, store>>
-----------------------------------------------------------------------------
(***************************************************************************)
(* scoreRun, once all reports are there or the deadline has passed.        *)
(***************************************************************************)

\* Fault: the wait has no deadline.
JoinedAll == \A i \in Requests : answer[i] = "error" \/ i \in reported

JoinEnds == TRUE

Joined(i) == answer[i] # "error" /\ i \in reported

\* Fault: the report of a failed request is joined as well.
ActionIfReported(i) ==
    IF i \in reported THEN fate[i].action
    ELSE IF answer[i] \in {"blocked", "bad"} THEN "block" ELSE ""

ActionOf(i) ==
    IF Joined(i) THEN fate[i].action
    ELSE IF answer[i] \in {"blocked", "bad"} THEN "block" ELSE ""

SeenRaw(i) == fate[i].captured /\ fate[i].leaked

\* Fault: what was not seen to leak counts as caught.
VerifiedOrNot(i) == answer[i] # "error"

Verified(i) == answer[i] # "error" /\ (fate[i].captured \/ ActionOf(i) = "block")

\* The value is in the capture, or no joined report names it.
Missed(i) == answer[i] # "error" /\ (SeenRaw(i) \/ ~(Joined(i) /\ fate[i].named))

ScoreRun ==
    /\ stage = "join" /\ JoinEnds
    /\ results' = [i \in Requests |-> Result(ActionOf(i), Missed(i))]
    /\ caught' = {i \in Requests : Verified(i) /\ ~SeenRaw(i)}
    /\ at' = 1
    /\ Unanswered
    /\ stage' = "promote"
    /\ UNCHANGED <<process, item, store>>
-----------------------------------------------------------------------------
(***************************************************************************)
(* flywheel: the texts of missed values become files of the corpus and,    *)
(* once saved, entries of it; then the ratchet's line and the record.      *)
(***************************************************************************)

\* Fault: an entry the disk refused is kept in memory.
KeptAlways(t, saved) == Append(corpus, t)

Kept(t, saved) == IF saved THEN Append(corpus, t) ELSE corpus

Promote ==
    /\ stage = "promote" /\ at \in Requests
    /\ at' = at + 1
    /\ IF results[at].missed /\ item[at] \notin ToSet(corpus)
       THEN \E saved \in {TRUE, ~SaveMayFail} :
                /\ corpusDir' = IF saved THEN corpusDir \cup {item[at]} ELSE corpusDir
                /\ corpus' = Kept(item[at], saved)
       ELSE UNCHANGED <<corpus, corpusDir>>
    /\ UNCHANGED <<process, stage, sending, results, caught, ratchet, lines, failed>>

Promoted ==
    /\ stage = "promote" /\ at \notin Requests
    /\ stage' = "append"
    /\ UNCHANGED <<process, sending, scored, store>>

\* A full disk may take part of a line; an error is logged and no more.
AppendRatchet ==
    /\ stage = "append"
    /\ \E written \in {<<started>>} \cup (IF SaveMayFail THEN {<<>>, <<0>>} ELSE {}) :
        /\ lines' = lines \o written
        /\ failed' = (failed \/ written # <<started>>)
    /\ stage' = "record"
    /\ UNCHANGED <<process, sending, scored, corpus, corpusDir, ratchet>>

CountOf(action) == Cardinality({i \in Requests : results[i].action = action})

Finished(r) ==
    [r EXCEPT !.masked = @ + CountOf("mask"),
              !.detectOnly = @ + CountOf("detect"),
              !.passed = @ + CountOf("pass"),
              !.status = "done"]

Record ==
    /\ stage = "record"
    /\ ratchet' = Append(ratchet, started)
    /\ runs' = [runs EXCEPT ![Len(runs)] = Finished(@)]
    /\ stage' = "release"
    /\ UNCHANGED <<up, running, started, sending, scored, corpus, corpusDir, lines, failed>>

Idle ==
    /\ running' = FALSE
    /\ stage' = "idle"
    /\ item' = [i \in Requests |-> AnyText]
    /\ Unanswered
    /\ Unscored

Release ==
    /\ stage = "release"
    /\ Idle
    /\ UNCHANGED <<up, runs, started, store>>
-----------------------------------------------------------------------------
\* loadRatchet stops at the first line it cannot decode.
Loaded(s) == SubSeq(s, 1, Cardinality({k \in 1 .. Len(s) : 0 \notin ToSet(SubSeq(s, 1, k))}))

\* The process ends with all it holds in memory.
Crash ==
    /\ up
    /\ up' = FALSE
    /\ runs' = <<>> /\ corpus' = <<>> /\ ratchet' = <<>>
    /\ Idle
    /\ UNCHANGED <<started, corpusDir, lines, failed>>

\* NewRunner.
Boot ==
    /\ ~up
    /\ up' = TRUE
    /\ corpus' = SetToSeq(corpusDir)
    /\ ratchet' = Loaded(lines)
    /\ UNCHANGED <<running, runs, started, stage, sending, scored, corpusDir, lines, failed>>

RunStep ==
    \/ \E i \in Requests : SendOne(i) \/ Answered(i) \/ RequestFails(i)
    \/ AllAnswered
    \/ ScoreRun
    \/ Promote
    \/ Promoted
    \/ AppendRatchet
    \/ Record
    \/ Release

Next ==
    \/ StartRun
    \/ RunStep
    \/ \E i \in Requests : GatewayHandles(i) \/ ReportArrives(i)
    \/ Crash
    \/ Boot

Spec == Init /\ [][Next]_vars

(***************************************************************************)
(* Fairness: the goroutine of a run is scheduled and the client's timeout  *)
(* fires. Neither the gateway nor its reports need ever come.              *)
(***************************************************************************)
LiveSpec == Spec /\ WF_vars(RunStep)
-----------------------------------------------------------------------------
TypeOK ==
    /\ up \in BOOLEAN /\ running \in BOOLEAN /\ failed \in BOOLEAN
    /\ Len(runs) <= MaxStoredRuns
    /\ started \in 0 .. MaxRuns
    /\ stage \in Stages
    /\ item \in [Requests -> Texts]
    /\ answer \in [Requests -> {"none", "open", "error", "blocked", "bad", "other"}]
    /\ fate \in [Requests -> Fates \cup {NoFate}]
    /\ reported \subseteq Requests /\ caught \subseteq Requests
    /\ at \in 1 .. Total + 1
    /\ corpus \in Seq(Texts) /\ corpusDir \subseteq Texts
    /\ ratchet \in Seq(1 .. MaxRuns) /\ lines \in Seq(0 .. MaxRuns)

Outcomes(r) == r.errors + r.blocked + r.masked + r.detectOnly + r.passed

(***************************************************************************)
(* What the list of runs shows: a run that is done heard of every request, *)
(* and counts none under two outcomes, though failures and blocks are      *)
(* counted as the answers come and the others from the joined reports,     *)
(* which may tell of requests that failed here; only the newest run is     *)
(* ever under way, and then no other can start.                            *)
(***************************************************************************)
RunsAddUp ==
    \A k \in 1 .. Len(runs) :
        /\ Outcomes(runs[k]) <= runs[k].completed /\ runs[k].completed <= Total
        /\ IF runs[k].status = "done" THEN runs[k].completed = Total
           ELSE k = Len(runs) /\ running

(***************************************************************************)
(* A run that is scored counts a value as caught only if it did not leave  *)
(* raw, also when reports or captures never came or came too late. The one *)
(* exception is a 400 of the upstream's own whose report is not there yet: *)
(* the score takes it for a block.                                         *)
(***************************************************************************)
CaughtIsCaught ==
    [][stage = "join" /\ stage' = "promote" =>
        \A i \in caught' : fate[i].leaked => answer[i] = "bad" /\ i \notin reported]_vars

(***************************************************************************)
(* The corpus that runs replay is the one a restart would load, without    *)
(* repeats, whatever writes failed; and so is the ratchet series, between  *)
(* its line and its point, unless an append has failed.                    *)
(***************************************************************************)
FlywheelIsDurable ==
    up => /\ ToSet(corpus) = corpusDir /\ Len(corpus) = Cardinality(corpusDir)
          /\ ~failed /\ stage # "record" => ratchet = Loaded(lines)

(***************************************************************************)
(* A run ends, and the next may start, however few answers and reports     *)
(* come.                                                                   *)
(***************************************************************************)
RunEnds == running ~> ~running
=============================================================================
