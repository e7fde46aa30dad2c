-------------------------- MODULE HarnessRunProofs ---------------------------
(***************************************************************************)
(* Proofs about a run of the harness: the counters of the run are the      *)
(* sizes of sets of requests that do not overlap, the corpus is what the   *)
(* files hold, and the score is no better than what left.                  *)
(***************************************************************************)
EXTENDS HarnessRun, FiniteSetTheorems, SequenceTheorems, TLAPS

(***************************************************************************)
(* The requests of a run are as many as Total says.                        *)
(***************************************************************************)
LEMMA RequestsAreTotal ==
    ASSUME HarnessAssumptions
    PROVE  /\ IsFiniteSet(Requests) /\ Cardinality(Requests) = Total
           /\ \A S : S \subseteq Requests =>
                IsFiniteSet(S) /\ Cardinality(S) \in Nat /\ Cardinality(S) <= Total
<1>0. 1 \in Int /\ Total \in Nat /\ Total \in Int /\ Total > 0
    BY DEF HarnessAssumptions
<1>1. /\ IsFiniteSet(1 .. Total)
      /\ Cardinality(1 .. Total) = IF 1 > Total THEN 0 ELSE Total - 1 + 1
    BY <1>0, FS_Interval
<1>2. IsFiniteSet(Requests) /\ Cardinality(Requests) = Total
    BY <1>0, <1>1 DEF Requests
<1>3. ASSUME NEW S, S \subseteq Requests
      PROVE  IsFiniteSet(S) /\ Cardinality(S) \in Nat /\ Cardinality(S) <= Total
    <2>1. IsFiniteSet(S) /\ Cardinality(S) <= Cardinality(Requests)
        BY <1>2, <1>3, FS_Subset
    <2> QED BY <2>1, <1>2, FS_CardinalityType
<1> QED BY <1>2, <1>3

(***************************************************************************)
(* Sets that do not overlap are together as large as their union.          *)
(***************************************************************************)
LEMMA DisjointSum ==
    ASSUME NEW A, NEW B, IsFiniteSet(A), IsFiniteSet(B), A \cap B = {}
    PROVE  IsFiniteSet(A \cup B) /\ Cardinality(A \cup B) = Cardinality(A) + Cardinality(B)
<1>1. /\ IsFiniteSet(A \cup B)
      /\ Cardinality(A \cup B) = Cardinality(A) + Cardinality(B) - Cardinality(A \cap B)
    BY FS_Union
<1>2. Cardinality(A \cap B) = 0
    BY FS_EmptySet
<1>3. Cardinality(A) \in Nat /\ Cardinality(B) \in Nat
    BY FS_CardinalityType
<1> QED BY <1>1, <1>2, <1>3

(***************************************************************************)
(* A sequence of the elements of a finite set, each once.                  *)
(***************************************************************************)
LEMMA SetToSeqLists ==
    ASSUME NEW S, IsFiniteSet(S)
    PROVE  LET s == SetToSeq(S) IN
           s \in Seq(S) /\ ToSet(s) = S /\ Len(s) = Cardinality(S)
<1> DEFINE n == Cardinality(S)
           s == SetToSeq(S)
<1>1. n \in Nat /\ ExistsBijection(1 .. n, S)
    BY FS_CardinalityType
<1>2. \E f \in [1 .. n -> S] : IsInjective(f)
    BY <1>1 DEF ExistsBijection, Bijection, Injection
<1>3. s \in [1 .. n -> S] /\ IsInjective(s)
    BY <1>2 DEF SetToSeq
<1> HIDE DEF s
<1>4. s \in Injection(1 .. n, S)
    BY <1>3 DEF Injection
<1>5. Cardinality(1 .. n) = n
    <2>1. 1 \in Int /\ n \in Int
        BY <1>1
    <2>2. Cardinality(1 .. n) = IF 1 > n THEN 0 ELSE n - 1 + 1
        BY <2>1, FS_Interval
    <2> QED BY <2>2, <1>1
<1>6. s \in Surjection(1 .. n, S)
    <2>1. Cardinality(1 .. n) = Cardinality(S) <=> s \in Surjection(1 .. n, S)
        BY <1>4, FS_Injection
    <2> QED BY <2>1, <1>5
<1> HIDE DEF n
<1>7. s \in Seq(S) /\ Len(s) = n /\ DOMAIN s = 1 .. n
    BY <1>1, <1>3
<1>8. ToSet(s) = S
    BY <1>3, <1>6, <1>7 DEF ToSet, Surjection
<1> QED BY <1>7, <1>8 DEF s, n

(***************************************************************************)
(* An appended element joins the set of a sequence's elements.             *)
(***************************************************************************)
LEMMA ToSetAppend ==
    ASSUME NEW T, NEW s \in Seq(T), NEW x \in T
    PROVE  /\ Append(s, x) \in Seq(T)
           /\ ToSet(Append(s, x)) = ToSet(s) \cup {x}
           /\ Len(Append(s, x)) = Len(s) + 1
<1>1. /\ Append(s, x) \in Seq(T)
      /\ Len(Append(s, x)) = Len(s) + 1
      /\ \A i \in 1 .. Len(s) : Append(s, x)[i] = s[i]
      /\ Append(s, x)[Len(s) + 1] = x
    BY AppendProperties
<1>2. DOMAIN s = 1 .. Len(s) /\ DOMAIN Append(s, x) = 1 .. Len(s) + 1 /\ Len(s) \in Nat
    BY <1>1, LenProperties
<1>3. \A i \in 1 .. Len(s) + 1 : i \in 1 .. Len(s) \/ i = Len(s) + 1
    BY <1>2
<1>4. (\A i \in 1 .. Len(s) : i \in 1 .. Len(s) + 1) /\ Len(s) + 1 \in 1 .. Len(s) + 1
    BY <1>2
<1> HIDE DEF ToSet
<1>5. ToSet(Append(s, x)) = ToSet(s) \cup {x}
    BY <1>1, <1>2, <1>3, <1>4 DEF ToSet
<1> QED BY <1>1, <1>5

(***************************************************************************)
(* loadRatchet reads whole lines to the end of a file that has no other.   *)
(***************************************************************************)
LEMMA LoadedWhole ==
    ASSUME NEW s \in Seq(Nat \ {0})
    PROVE  Loaded(s) = s
<1> DEFINE K == {k \in 1 .. Len(s) : 0 \notin ToSet(SubSeq(s, 1, k))}
<1>0. Len(s) \in Nat /\ \A i \in 1 .. Len(s) : s[i] \in Nat \ {0}
    OBVIOUS
<1>1. ASSUME NEW k \in 1 .. Len(s)
      PROVE  0 \notin ToSet(SubSeq(s, 1, k))
    <2>1. SubSeq(s, 1, k) \in Seq(Nat \ {0})
        <3>1. 1 \in Int /\ k \in Int /\ \A i \in 1 .. k : s[i] \in Nat \ {0}
            BY <1>0
        <3> QED BY <3>1, SubSeqProperties
    <2> DEFINE u == SubSeq(s, 1, k)
    <2> HIDE DEF u
    <2>2. \A i \in DOMAIN u : u[i] \in Nat \ {0}
        BY <2>1 DEF u
    <2>3. 0 \notin ToSet(u)
        BY <2>2 DEF ToSet
    <2> QED BY <2>3 DEF u
<1>2. K = 1 .. Len(s)
    BY <1>1
<1>3. Cardinality(1 .. Len(s)) = Len(s)
    <2>1. 1 \in Int /\ Len(s) \in Int
        BY <1>0
    <2>2. Cardinality(1 .. Len(s)) = IF 1 > Len(s) THEN 0 ELSE Len(s) - 1 + 1
        BY <2>1, FS_Interval
    <2> QED BY <2>2, <1>0
<1>4. Loaded(s) = SubSeq(s, 1, Len(s))
    BY <1>2, <1>3 DEF Loaded
<1>5. SubSeq(s, 1, Len(s)) = s
    BY SubSeqFull
<1> QED BY <1>4, <1>5

(***************************************************************************)
(* What it reads has no line cut short, wherever the file has one.         *)
(***************************************************************************)
LEMMA LoadedLines ==
    ASSUME NEW n \in Nat, NEW s \in Seq(0 .. n)
    PROVE  Loaded(s) \in Seq(1 .. n)
<1> DEFINE K == {k \in 1 .. Len(s) : 0 \notin ToSet(SubSeq(s, 1, k))}
           m == Cardinality(K)
<1>0. Len(s) \in Nat /\ \A i \in 1 .. Len(s) : s[i] \in 0 .. n
    OBVIOUS
<1>1. \A k \in Nat : IsFiniteSet(1 .. k) /\ Cardinality(1 .. k) = k
    <2> SUFFICES ASSUME NEW k \in Nat
                 PROVE  IsFiniteSet(1 .. k) /\ Cardinality(1 .. k) = k
        OBVIOUS
    <2>1. 1 \in Int /\ k \in Int
        OBVIOUS
    <2>2. IsFiniteSet(1 .. k) /\ Cardinality(1 .. k) = IF 1 > k THEN 0 ELSE k - 1 + 1
        BY <2>1, FS_Interval
    <2> QED BY <2>2
<1>2. m \in Nat /\ m <= Len(s)
    <2>1. K \in SUBSET (1 .. Len(s))
        OBVIOUS
    <2> HIDE DEF K
    <2>2. IsFiniteSet(K) /\ m <= Cardinality(1 .. Len(s))
        BY <2>1, <1>0, <1>1, FS_Subset
    <2> QED BY <2>2, <1>0, <1>1, FS_CardinalityType
<1>3. ASSUME NEW i \in 1 .. m, s[i] = 0
      PROVE  FALSE
    <2>0. i \in 1 .. Len(s) /\ i \in Nat
        BY <1>0, <1>2
    <2>1. ASSUME NEW k \in K
          PROVE  k < i
        <3> SUFFICES ASSUME i <= k PROVE FALSE
            BY <2>0, <1>0
        <3>1. k \in 1 .. Len(s) /\ 0 \notin ToSet(SubSeq(s, 1, k))
            OBVIOUS
        <3>2. /\ SubSeq(s, 1, k) \in Seq(0 .. n)
              /\ Len(SubSeq(s, 1, k)) = k
              /\ SubSeq(s, 1, k)[i] = 0
            <4>1. 1 \in Int /\ k \in Int /\ \A j \in 1 .. k : s[j] \in 0 .. n
                BY <3>1, <1>0
            <4>2. /\ SubSeq(s, 1, k) \in Seq(0 .. n)
                  /\ Len(SubSeq(s, 1, k)) = IF 1 <= k THEN k - 1 + 1 ELSE 0
                  /\ \A j \in 1 .. k - 1 + 1 : SubSeq(s, 1, k)[j] = s[1 + j - 1]
                BY <4>1, SubSeqProperties
            <4>3. i \in 1 .. k - 1 + 1 /\ 1 + i - 1 = i /\ 1 <= k /\ k - 1 + 1 = k
                BY <3>1, <2>0, <1>0
            <4> QED BY <4>2, <4>3, <1>3
        <3> DEFINE u == SubSeq(s, 1, k)
        <3> HIDE DEF u
        <3>3. i \in DOMAIN u
            BY <3>2, <2>0 DEF u
        <3> QED BY <3>1, <3>2, <3>3 DEF ToSet, u
    <2>2. K \in SUBSET (1 .. i - 1) /\ i - 1 \in Nat
        BY <2>1, <2>0, <1>0
    <2> HIDE DEF K
    <2>3. m <= i - 1
        <3>1. IsFiniteSet(1 .. i - 1) /\ Cardinality(1 .. i - 1) = i - 1
            BY <2>2, <1>1
        <3>2. Cardinality(K) <= Cardinality(1 .. i - 1)
            BY <2>2, <3>1, FS_Subset
        <3> QED BY <3>1, <3>2
    <2> QED BY <2>0, <2>3, <1>2
<1>4. Loaded(s) = SubSeq(s, 1, m)
    BY DEF Loaded
<1> HIDE DEF m
<1>5. \A i \in 1 .. m : s[i] \in 1 .. n
    BY <1>0, <1>2, <1>3
<1>6. 1 \in Int /\ m \in Int
    BY <1>2
<1> QED BY <1>4, <1>5, <1>6, SubSeqProperties
-----------------------------------------------------------------------------
\* What the control plane keeps of a run.
RunRecs == [status : {"running", "done"}, completed : Nat, errors : Nat, blocked : Nat,
            masked : Nat, detectOnly : Nat, passed : Nat]

Answers == {"none", "open", "error", "blocked", "bad", "other"}
Heard == {"blocked", "bad", "other"}

\* The stages in which requests are with the gateway.
Sending == stage \in {"send", "join"}

(***************************************************************************)
(* What holds of requests, whatever is counted: an answer is the gateway's *)
(* own, a report tells of a fate, and all of it belongs to a run under way.*)
(***************************************************************************)
Base ==
    /\ TypeOK
    /\ runs \in Seq(RunRecs)
    /\ IsFiniteSet(corpusDir)
    /\ (running <=> stage # "idle")
    /\ running => up /\ Len(runs) # 0 /\ started # 0
    /\ \A i \in Requests : answer[i] \in Heard => fate[i] # NoFate /\ answer[i] = fate[i].answer
    /\ \A i \in reported : fate[i] # NoFate
    /\ stage = "join" => \A i \in Requests : answer[i] \notin {"none", "open"}
    /\ ~Sending => reported = {} /\ \A i \in Requests : answer[i] = "none" /\ fate[i] = NoFate

\* Only a block keeps the value from an upstream for sure, and a block for what
\* was detected is answered as one.
FateOK(f) ==
    /\ f.answer \in Heard
    /\ f.leaked \in BOOLEAN /\ f.captured \in BOOLEAN
    /\ f.action \in {"block", "mask", "detect", "pass"}
    /\ f.action = "block" \/ f.answer = "blocked" => ~f.leaked
    /\ f.answer = "blocked" => f.action = "block"

(***************************************************************************)
(* What a fate may be: only a block keeps the value from an upstream for   *)
(* sure, and a block of the gateway's own is answered as one.              *)
(***************************************************************************)
LEMMA FatesAre ==
    ASSUME NEW f \in Fates
    PROVE  FateOK(f)
<1> DEFINE Actions == {"block", "mask", "detect", "pass"}
<1>1. ASSUME NEW a \in Actions, NEW w \in Heard, NEW n, NEW c \in BOOLEAN, NEW l \in BOOLEAN,
             a = "block" \/ w = "blocked" => l = FALSE,
             w = "blocked" => a = "block"
      PROVE  FateOK(Fate(a, w, n, c, l))
    <2> DEFINE g == Fate(a, w, n, c, l)
    <2>1. g.action = a /\ g.answer = w /\ g.captured = c /\ g.leaked = l
        BY Zenon DEF Fate
    <2> HIDE DEF g
    <2>2. FateOK(g)
        BY <1>1, <2>1, Zenon DEF FateOK
    <2> QED BY <2>2 DEF g
<1>2. /\ \A a \in Actions : a \in {"block", "mask", "detect", "pass"}
      /\ {"block", "mask", "detect", "pass"} \subseteq Actions
      /\ "blocked" \in Heard /\ "other" \in Heard /\ "bad" \in Heard
      /\ "mask" # "block" /\ "detect" # "block" /\ "pass" # "block"
      /\ "other" # "blocked" /\ "bad" # "blocked"
    BY DEF Heard
<1> HIDE DEF Actions
<1>3. CASE f \in Blocked \cup Unsent
    <2>1. FateOK(Fate("block", "blocked", TRUE, FALSE, FALSE))
        BY <1>1, <1>2, Zenon
    <2>2. FateOK(Fate("block", "other", FALSE, FALSE, FALSE))
        BY <1>1, <1>2, Zenon
    <2>3. FateOK(Fate("pass", "other", FALSE, FALSE, FALSE))
        BY <1>1, <1>2, Zenon
    <2> QED BY <1>3, <2>1, <2>2, <2>3, Zenon DEF Blocked, Unsent
<1>4. CASE f \in Sent
    <2>1. \A n, c \in BOOLEAN : FateOK(Fate("mask", "other", n, c, ~n))
        BY <1>1, <1>2, Zenon
    <2>2. \A c \in BOOLEAN : FateOK(Fate("detect", "other", TRUE, c, TRUE))
        BY <1>1, <1>2, Zenon
    <2>3. \A c \in BOOLEAN : FateOK(Fate("pass", "other", FALSE, c, TRUE))
        BY <1>1, <1>2, Zenon
    <2>4. FateOK(Fate("mask", "bad", TRUE, FALSE, FALSE))
        BY <1>1, <1>2, Zenon
    <2>5. FateOK(Fate("pass", "bad", FALSE, FALSE, TRUE))
        BY <1>1, <1>2, Zenon
    <2>6. \/ \E n \in BOOLEAN : \E c \in BOOLEAN : f = Fate("mask", "other", n, c, ~n)
          \/ \E c \in BOOLEAN : f = Fate("detect", "other", TRUE, c, TRUE)
          \/ \E c \in BOOLEAN : f = Fate("pass", "other", FALSE, c, TRUE)
          \/ f = Fate("mask", "bad", TRUE, FALSE, FALSE)
          \/ f = Fate("pass", "bad", FALSE, FALSE, TRUE)
        <3> DEFINE S1 == {Fate("mask", "other", n, c, ~n) : n, c \in BOOLEAN}
                   S2 == {Fate("detect", "other", TRUE, c, TRUE) : c \in BOOLEAN}
                   S3 == {Fate("pass", "other", FALSE, c, TRUE) : c \in BOOLEAN}
                   S4 == {Fate("mask", "bad", TRUE, FALSE, FALSE),
                          Fate("pass", "bad", FALSE, FALSE, TRUE)}
        <3>0. f \in S1 \/ f \in S2 \/ f \in S3 \/ f \in S4
            <4>1. Sent = S1 \cup S2 \cup S3 \cup S4
                BY DEF Sent
            <4> HIDE DEF S1, S2, S3, S4
            <4> QED BY <4>1, <1>4
        <3>1. CASE f \in S1
            <4>1. PICK n \in BOOLEAN, c \in BOOLEAN : f = Fate("mask", "other", n, c, ~n)
                BY <3>1
            <4> QED BY <4>1, Zenon
        <3>2. CASE f \in S2
            BY <3>2, Zenon
        <3>3. CASE f \in S3
            BY <3>3, Zenon
        <3>4. CASE f \in S4
            BY <3>4, Zenon
        <3> HIDE DEF S1, S2, S3, S4
        <3> QED BY <3>0, <3>1, <3>2, <3>3, <3>4, Zenon
    <2> QED BY <2>1, <2>2, <2>3, <2>4, <2>5, <2>6, Zenon
<1>5. FateOK(f)
    BY <1>3, <1>4 DEF Fates
<1> QED BY <1>5

(***************************************************************************)
(* The counters that an answer moves, and those it leaves.                 *)
(***************************************************************************)
LEMMA Recounted ==
    ASSUME NEW r \in RunRecs, NEW got
    PROVE  LET r2 == Counted(r, got)
           IN  /\ r2 \in RunRecs
               /\ r2.status = r.status /\ r2.completed = r.completed + 1
               /\ r2.errors = IF got = "error" THEN r.errors + 1 ELSE r.errors
               /\ r2.blocked = IF got = "blocked" THEN r.blocked + 1 ELSE r.blocked
               /\ r2.masked = r.masked /\ r2.detectOnly = r.detectOnly /\ r2.passed = r.passed
<1> DEFINE a == [r EXCEPT !.completed = r.completed + 1]
           b == [a EXCEPT !.errors = IF got = "error" THEN r.errors + 1 ELSE r.errors]
           c == [b EXCEPT !.blocked = IF got = "blocked" THEN r.blocked + 1 ELSE r.blocked]
<1>1. /\ a \in RunRecs /\ a.completed = r.completed + 1 /\ a.status = r.status
      /\ a.errors = r.errors /\ a.blocked = r.blocked
      /\ a.masked = r.masked /\ a.detectOnly = r.detectOnly /\ a.passed = r.passed
    BY DEF RunRecs
<1> HIDE DEF a
<1>2. /\ b \in RunRecs /\ b.completed = a.completed /\ b.status = a.status
      /\ b.errors = IF got = "error" THEN r.errors + 1 ELSE r.errors
      /\ b.blocked = a.blocked
      /\ b.masked = a.masked /\ b.detectOnly = a.detectOnly /\ b.passed = a.passed
    <2>1. (IF got = "error" THEN r.errors + 1 ELSE r.errors) \in Nat
        BY DEF RunRecs
    <2> QED BY <2>1, <1>1 DEF RunRecs
<1> HIDE DEF b
<1>3. /\ c \in RunRecs /\ c.completed = b.completed /\ c.status = b.status
      /\ c.errors = b.errors
      /\ c.blocked = IF got = "blocked" THEN r.blocked + 1 ELSE r.blocked
      /\ c.masked = b.masked /\ c.detectOnly = b.detectOnly /\ c.passed = b.passed
    <2>1. (IF got = "blocked" THEN r.blocked + 1 ELSE r.blocked) \in Nat
        BY DEF RunRecs
    <2> QED BY <2>1, <1>2 DEF RunRecs
<1> HIDE DEF c
<1>4. /\ c \in RunRecs
      /\ c.status = r.status /\ c.completed = r.completed + 1
      /\ c.errors = IF got = "error" THEN r.errors + 1 ELSE r.errors
      /\ c.blocked = IF got = "blocked" THEN r.blocked + 1 ELSE r.blocked
      /\ c.masked = r.masked /\ c.detectOnly = r.detectOnly /\ c.passed = r.passed
    BY <1>1, <1>2, <1>3, Zenon
<1>5. Counted(r, got) = c
    BY Zenon DEF a, b, c, Counted
<1> QED BY <1>4, <1>5

(***************************************************************************)
(* The list of runs keeps its last ones, the newest at least.              *)
(***************************************************************************)
LEMMA TrimKeeps ==
    ASSUME HarnessAssumptions, NEW s \in Seq(RunRecs), NEW r \in RunRecs,
           Len(s) <= MaxStoredRuns
    PROVE  LET u == Trim(Append(s, r)) IN
           /\ u \in Seq(RunRecs)
           /\ Len(u) <= MaxStoredRuns /\ Len(u) # 0
           /\ u[Len(u)] = r
           /\ \A k \in 1 .. Len(u) : k # Len(u) => \E j \in 1 .. Len(s) : u[k] = s[j]
<1> DEFINE a == Append(s, r)
           n == Len(s)
<1>0. n \in Nat /\ MaxStoredRuns \in Nat /\ MaxStoredRuns > 0
    BY DEF HarnessAssumptions
<1>1. /\ a \in Seq(RunRecs) /\ Len(a) = n + 1
      /\ \A i \in 1 .. n : a[i] = s[i]
      /\ a[n + 1] = r
    BY AppendProperties
<1> HIDE DEF a
<1>2. CASE ~(Len(a) > MaxStoredRuns)
    <2>1. Trim(a) = a
        BY <1>2 DEF Trim
    <2>2. \A k \in 1 .. Len(a) : k # Len(a) => k \in 1 .. n
        BY <1>0, <1>1
    <2>3. Len(a) <= MaxStoredRuns /\ Len(a) # 0
        BY <1>0, <1>1, <1>2
    <2> QED BY <2>1, <2>2, <2>3, <1>1 DEF a
<1>3. CASE Len(a) > MaxStoredRuns
    <2> DEFINE u == SubSeq(a, 2, Len(a))
    <2>1. Trim(a) = u
        BY <1>3 DEF Trim
    <2>2. n >= 1 /\ n = MaxStoredRuns
        BY <1>0, <1>1, <1>3
    <2>3. /\ u \in Seq(RunRecs) /\ Len(u) = n
          /\ \A i \in 1 .. n : u[i] = a[i + 1]
        <3>1. 2 \in Int /\ Len(a) \in Int /\ \A i \in 2 .. Len(a) : a[i] \in RunRecs
            BY <1>0, <1>1
        <3>2. /\ u \in Seq(RunRecs)
              /\ Len(u) = IF 2 <= Len(a) THEN Len(a) - 2 + 1 ELSE 0
              /\ \A i \in 1 .. Len(a) - 2 + 1 : u[i] = a[2 + i - 1]
            BY <3>1, SubSeqProperties
        <3>3. 2 <= Len(a) /\ Len(a) - 2 + 1 = n /\ \A i \in 1 .. n : 2 + i - 1 = i + 1
            BY <1>0, <1>1, <2>2
        <3> HIDE DEF u
        <3> QED BY <3>2, <3>3
    <2> HIDE DEF u
    <2>4. u[n] = r
        BY <1>0, <1>1, <2>2, <2>3
    <2>5. \A k \in 1 .. n : k # n => k + 1 \in 1 .. n /\ u[k] = s[k + 1]
        BY <1>0, <1>1, <2>3
    <2> QED BY <1>0, <2>1, <2>2, <2>3, <2>4, <2>5 DEF a
<1> QED BY <1>2, <1>3
-----------------------------------------------------------------------------
(***************************************************************************)
(* A new control plane has heard nothing and holds nothing.                *)
(***************************************************************************)
LEMMA BaseInit ==
    ASSUME HarnessAssumptions, Init
    PROVE  Base
<1>1. AnyText \in Texts
    BY DEF AnyText, HarnessAssumptions
<1>2. 0 \in 0 .. MaxRuns /\ 1 \in 1 .. Total + 1 /\ 0 <= MaxStoredRuns
    BY DEF HarnessAssumptions
<1>3. TypeOK
    <2>1. Len(runs) <= MaxStoredRuns
        BY <1>2 DEF Init
    <2>2. started \in 0 .. MaxRuns /\ at \in 1 .. Total + 1
        BY <1>2 DEF Init
    <2>3. up \in BOOLEAN /\ running \in BOOLEAN /\ failed \in BOOLEAN /\ stage \in Stages
        BY DEF Init, Stages
    <2>4. item \in [Requests -> Texts]
        BY <1>1 DEF Init
    <2>5. answer \in [Requests -> {"none", "open", "error", "blocked", "bad", "other"}]
        BY DEF Init
    <2>6. fate \in [Requests -> Fates \cup {NoFate}]
        BY DEF Init
    <2>7. /\ corpus \in Seq(Texts) /\ ratchet \in Seq(1 .. MaxRuns)
          /\ lines \in Seq(0 .. MaxRuns)
        BY EmptySeq DEF Init
    <2>8. reported \subseteq Requests /\ caught \subseteq Requests /\ corpusDir \subseteq Texts
        BY DEF Init
    <2> QED BY <2>1, <2>2, <2>3, <2>4, <2>5, <2>6, <2>7, <2>8 DEF TypeOK
<1>4. IsFiniteSet(corpusDir) /\ runs \in Seq(RunRecs)
    BY FS_EmptySet, EmptySeq DEF Init
<1>5. (running <=> stage # "idle") /\ ~running /\ ~Sending
    BY DEF Init, Sending
<1>6. /\ reported = {} 
      /\ \A j \in Requests : answer[j] = "none" /\ fate[j] = NoFate
    BY DEF Init
<1>7. "none" \notin Heard /\ (stage = "join" => Sending)
    BY DEF Heard, Sending
<1> QED BY <1>3, <1>4, <1>5, <1>6, <1>7 DEF Base

(***************************************************************************)
(* The run starts.                                                         *)
(***************************************************************************)
LEMMA StartRunBase ==
    ASSUME HarnessAssumptions, Base, StartRun
    PROVE  /\ Base'
           /\ NewRun \in RunRecs /\ runs' = Trim(Append(runs, NewRun))
           /\ Len(runs') # 0 /\ runs'[Len(runs')] = NewRun
           /\ \A k \in 1 .. Len(runs') : k # Len(runs') =>
                \E j \in 1 .. Len(runs) : runs'[k] = runs[j]
<1>1. NewRun \in RunRecs
    BY DEF NewRun, RunRecs
<1>2. /\ up /\ ~running /\ started < MaxRuns /\ started' = started + 1
      /\ running' = TRUE /\ runs' = Trim(Append(runs, NewRun)) /\ stage' = "send"
      /\ item' \in [Requests -> Texts]
      /\ up' = up /\ answer' = answer /\ fate' = fate /\ reported' = reported
      /\ results' = results /\ caught' = caught /\ at' = at
      /\ corpus' = corpus /\ corpusDir' = corpusDir /\ ratchet' = ratchet /\ lines' = lines
      /\ failed' = failed
    BY DEF StartRun, scored, store
<1>3. /\ runs' \in Seq(RunRecs) /\ Len(runs') <= MaxStoredRuns
      /\ Len(runs') # 0 /\ runs'[Len(runs')] = NewRun
      /\ \A k \in 1 .. Len(runs') : k # Len(runs') =>
           \E j \in 1 .. Len(runs) : runs'[k] = runs[j]
    <2>1. runs \in Seq(RunRecs) /\ Len(runs) <= MaxStoredRuns
        BY DEF Base, TypeOK
    <2>2. LET u == Trim(Append(runs, NewRun)) IN
          /\ u \in Seq(RunRecs) /\ Len(u) <= MaxStoredRuns /\ Len(u) # 0
          /\ u[Len(u)] = NewRun
          /\ \A k \in 1 .. Len(u) : k # Len(u) => \E j \in 1 .. Len(runs) : u[k] = runs[j]
        BY <1>1, <2>1, TrimKeeps
    <2> DEFINE u == Trim(Append(runs, NewRun))
    <2>3. runs' = u
        BY <1>2
    <2> HIDE DEF u
    <2> QED BY <2>2, <2>3, Zenon DEF u
<1>4. started' \in 0 .. MaxRuns /\ started' # 0
    BY <1>2 DEF Base, TypeOK, HarnessAssumptions
<1>5. TypeOK'
    BY <1>2, <1>3, <1>4 DEF Base, TypeOK, Stages
<1>6. stage' # "idle" /\ stage' # "join" /\ Sending'
    BY <1>2 DEF Sending
<1>7. (running' <=> stage' # "idle") /\ up'
    BY <1>2, <1>6
<1>8. Base'
    BY <1>2, <1>3, <1>4, <1>5, <1>6, <1>7 DEF Base
<1> QED BY <1>1, <1>2, <1>3, <1>8

(***************************************************************************)
(* A request is sent, handled, reported: the run's record stays as it is.  *)
(***************************************************************************)
LEMMA SendingBase ==
    ASSUME HarnessAssumptions, Base, NEW i \in Requests,
           SendOne(i) \/ GatewayHandles(i) \/ ReportArrives(i)
    PROVE  Base'
<1>1. /\ up' = up /\ running' = running /\ runs' = runs /\ started' = started
      /\ stage' = stage /\ item' = item
      /\ results' = results /\ caught' = caught /\ at' = at
      /\ corpus' = corpus /\ corpusDir' = corpusDir /\ ratchet' = ratchet /\ lines' = lines
      /\ failed' = failed
    BY DEF SendOne, GatewayHandles, ReportArrives, process, scored, store
<1>2. CASE SendOne(i)
    <2>1. /\ stage = "send" /\ answer' = [answer EXCEPT ![i] = "open"]
          /\ fate' = fate /\ reported' = reported
        BY <1>2 DEF SendOne
    <2>2. TypeOK'
        BY <1>1, <2>1 DEF Base, TypeOK
    <2>3. \A j \in Requests : answer'[j] \in Heard => answer'[j] = answer[j]
        BY <2>1 DEF Base, TypeOK, Heard
    <2>4. Sending' /\ Sending /\ stage' # "join"
        BY <1>1, <2>1 DEF Sending
    <2> QED BY <1>1, <2>1, <2>2, <2>3, <2>4 DEF Base
<1>3. CASE GatewayHandles(i)
    <2>1. PICK f \in Fates : /\ answer[i] \in {"open", "error"} /\ fate[i] = NoFate
                             /\ fate' = [fate EXCEPT ![i] = f]
                             /\ answer' = answer /\ reported' = reported
        BY <1>3 DEF GatewayHandles
    <2>2. TypeOK'
        BY <1>1, <2>1 DEF Base, TypeOK
    <2>3. answer[i] \notin Heard /\ answer[i] # "none" /\ i \notin reported
        BY <2>1 DEF Heard, Base
    <2>4. Sending
        BY <2>1, <2>3 DEF Base
    <2>5. \A j \in Requests : j # i => fate'[j] = fate[j]
        BY <2>1 DEF Base, TypeOK
    <2>6. reported \subseteq Requests
        BY DEF Base, TypeOK
    <2>7. Sending'
        BY <1>1, <2>4 DEF Sending
    <2> QED BY <1>1, <2>1, <2>2, <2>3, <2>5, <2>6, <2>7 DEF Base
<1>4. CASE ReportArrives(i)
    <2>1. /\ fate[i] # NoFate /\ reported' = reported \cup {i}
          /\ answer' = answer /\ fate' = fate
        BY <1>4 DEF ReportArrives
    <2>2. TypeOK'
        BY <1>1, <2>1 DEF Base, TypeOK
    <2>3. Sending
        BY <2>1 DEF Base
    <2>4. Sending'
        BY <1>1, <2>3 DEF Sending
    <2> QED BY <1>1, <2>1, <2>2, <2>4 DEF Base
<1> QED BY <1>2, <1>3, <1>4

(***************************************************************************)
(* An answer: the gateway's, or the harness gives up. It is counted in the *)
(* newest run's record.                                                    *)
(***************************************************************************)
LEMMA CompletedBase ==
    ASSUME HarnessAssumptions, Base, NEW i \in Requests, Answered(i) \/ RequestFails(i)
    PROVE  \E got \in Heard \cup {"error"} :
           /\ Base'
           /\ stage = "send" /\ stage' = "send" /\ results' = results
           /\ answer[i] = "open" /\ answer' = [answer EXCEPT ![i] = got]
           /\ Len(runs) \in 1 .. Len(runs) /\ Len(runs') = Len(runs)
           /\ \A k \in 1 .. Len(runs) : k # Len(runs) => runs'[k] = runs[k]
           /\ LET r == runs[Len(runs)]
                  r2 == runs'[Len(runs)]
              IN  /\ r2.status = r.status /\ r2.completed = r.completed + 1
                  /\ r2.errors = IF got = "error" THEN r.errors + 1 ELSE r.errors
                  /\ r2.blocked = IF got = "blocked" THEN r.blocked + 1 ELSE r.blocked
                  /\ r2.masked = r.masked /\ r2.detectOnly = r.detectOnly
                  /\ r2.passed = r.passed
<1>1. PICK got : /\ answer[i] = "open" /\ Completed(i, got)
                 /\ \/ got = "error"
                    \/ fate[i] # NoFate /\ got = fate[i].answer
    BY DEF Answered, RequestFails
<1>2. got \in Heard \cup {"error"}
    <2>1. fate[i] # NoFate => fate[i] \in Fates
        BY DEF Base, TypeOK
    <2>2. fate[i] # NoFate => fate[i].answer \in Heard
        BY <2>1, FatesAre DEF FateOK
    <2> QED BY <1>1, <2>2
<1>3. Sending /\ stage # "join" /\ running
    <2>1. Sending
        BY <1>1 DEF Base
    <2>2. stage # "join"
        BY <1>1 DEF Base
    <2>3. stage # "idle"
        BY <2>1 DEF Sending
    <2> QED BY <2>1, <2>2, <2>3 DEF Base
<1>4. Len(runs) \in 1 .. Len(runs) /\ runs \in Seq(RunRecs) /\ runs[Len(runs)] \in RunRecs
    <2>1. runs \in Seq(RunRecs) /\ Len(runs) # 0
        BY <1>3 DEF Base
    <2> QED BY <2>1
<1> DEFINE r == runs[Len(runs)]
           r2 == Counted(r, got)
<1>5. /\ runs' = [runs EXCEPT ![Len(runs)] = r2]
      /\ answer' = [answer EXCEPT ![i] = got]
      /\ up' = up /\ running' = running /\ started' = started
      /\ stage' = stage /\ item' = item /\ fate' = fate /\ reported' = reported
      /\ results' = results /\ caught' = caught /\ at' = at
      /\ corpus' = corpus /\ corpusDir' = corpusDir /\ ratchet' = ratchet /\ lines' = lines
      /\ failed' = failed
    BY <1>1, Zenon DEF Completed, scored, store
<1>6. /\ r2 \in RunRecs
      /\ r2.status = r.status /\ r2.completed = r.completed + 1
      /\ r2.errors = IF got = "error" THEN r.errors + 1 ELSE r.errors
      /\ r2.blocked = IF got = "blocked" THEN r.blocked + 1 ELSE r.blocked
      /\ r2.masked = r.masked /\ r2.detectOnly = r.detectOnly /\ r2.passed = r.passed
    BY <1>4, Recounted
<1> HIDE DEF r2
<1>7. /\ runs' \in Seq(RunRecs) /\ Len(runs') = Len(runs) /\ runs'[Len(runs)] = r2
      /\ \A k \in 1 .. Len(runs) : k # Len(runs) => runs'[k] = runs[k]
    BY <1>4, <1>5, <1>6, ExceptSeq
<1>8. TypeOK'
    <2>1. answer' \in [Requests -> Answers]
        BY <1>2, <1>5 DEF Base, TypeOK, Answers, Heard
    <2>2. answer' \in [Requests -> {"none", "open", "error", "blocked", "bad", "other"}]
        BY <2>1 DEF Answers
    <2> HIDE <1>2, <1>6
    <2> QED BY <2>2, <1>5, <1>7 DEF Base, TypeOK
<1>9. /\ answer'[i] = got /\ \A j \in Requests : j # i => answer'[j] = answer[j]
    BY <1>5 DEF Base, TypeOK
<1>10. \A j \in Requests : answer'[j] \in Heard => fate'[j] # NoFate /\ answer'[j] = fate'[j].answer
    <2>1. "error" \notin Heard
        BY DEF Heard
    <2> QED BY <1>1, <1>5, <1>9, <2>1 DEF Base
<1>11. Sending' /\ stage' # "join" /\ stage = "send" /\ stage' = "send"
    BY <1>3, <1>5 DEF Sending
<1>12. Base'
    BY <1>5, <1>7, <1>8, <1>10, <1>11 DEF Base
<1> QED BY <1>1, <1>2, <1>4, <1>5, <1>6, <1>7, <1>11, <1>12
-----------------------------------------------------------------------------
(***************************************************************************)
(* The last answer, the score, the end of the promotion.                   *)
(***************************************************************************)
LEMMA ScoringBase ==
    ASSUME HarnessAssumptions, Base, AllAnswered \/ ScoreRun \/ Promoted
    PROVE  Base'
<1>1. /\ up' = up /\ running' = running /\ runs' = runs /\ started' = started /\ item' = item
      /\ corpus' = corpus /\ corpusDir' = corpusDir /\ ratchet' = ratchet /\ lines' = lines
      /\ failed' = failed
    BY DEF AllAnswered, ScoreRun, Promoted, process, sending, store
<1>2. CASE AllAnswered
    <2>1. /\ stage = "send" /\ stage' = "join"
          /\ \A i \in Requests : answer[i] \notin {"none", "open"}
          /\ answer' = answer /\ fate' = fate /\ reported' = reported
          /\ results' = results /\ caught' = caught /\ at' = at
        BY <1>2 DEF AllAnswered, sending, scored
    <2>2. TypeOK'
        BY <1>1, <2>1 DEF Base, TypeOK, Stages
    <2>3. Sending' /\ (running' <=> stage' # "idle")
        BY <1>1, <2>1 DEF Base, Sending
    <2> QED BY <1>1, <2>1, <2>2, <2>3 DEF Base
<1>3. CASE ScoreRun
    <2>1. /\ stage = "join" /\ stage' = "promote" /\ at' = 1
          /\ caught' \subseteq Requests
          /\ answer' = [i \in Requests |-> "none"] /\ fate' = [i \in Requests |-> NoFate]
          /\ reported' = {}
        BY <1>3 DEF ScoreRun, Unanswered
    <2>2. at' \in 1 .. Total + 1
        BY <2>1 DEF HarnessAssumptions
    <2>3. answer' \in [Requests -> {"none", "open", "error", "blocked", "bad", "other"}]
        BY <2>1
    <2>4. fate' \in [Requests -> Fates \cup {NoFate}]
        BY <2>1
    <2>5. stage' \in Stages /\ reported' \subseteq Requests
        BY <2>1 DEF Stages
    <2>6. TypeOK'
        BY <1>1, <2>1, <2>2, <2>3, <2>4, <2>5 DEF Base, TypeOK
    <2>7. ~Sending' /\ (running' <=> stage' # "idle") /\ stage' # "join"
        BY <1>1, <2>1 DEF Base, Sending
    <2>8. \A i \in Requests : answer'[i] = "none" /\ fate'[i] = NoFate
        BY <2>1
    <2>9. "none" \notin Heard
        BY DEF Heard
    <2> QED BY <1>1, <2>1, <2>6, <2>7, <2>8, <2>9 DEF Base
<1>4. CASE Promoted
    <2>1. /\ stage = "promote" /\ stage' = "append"
          /\ answer' = answer /\ fate' = fate /\ reported' = reported
          /\ results' = results /\ caught' = caught /\ at' = at
        BY <1>4 DEF Promoted, sending, scored
    <2>2. TypeOK'
        BY <1>1, <2>1 DEF Base, TypeOK, Stages
    <2>3. ~Sending /\ ~Sending' /\ (running' <=> stage' # "idle") /\ stage' # "join"
        BY <1>1, <2>1 DEF Base, Sending
    <2> QED BY <1>1, <2>1, <2>2, <2>3 DEF Base
<1> QED BY <1>2, <1>3, <1>4

(***************************************************************************)
(* A result is looked at: its text is a new entry of the corpus and of the *)
(* directory, or neither has it.                                           *)
(***************************************************************************)
LEMMA PromoteBase ==
    ASSUME HarnessAssumptions, Base, Promote
    PROVE  /\ Base'
           /\ \/ corpus' = corpus /\ corpusDir' = corpusDir
              \/ \E t \in Texts : /\ t \notin ToSet(corpus)
                                  /\ corpus' = Append(corpus, t)
                                  /\ corpusDir' = corpusDir \cup {t}
<1>1. /\ stage = "promote" /\ stage' = "promote" /\ at \in Requests /\ at' = at + 1
      /\ up' = up /\ running' = running /\ runs' = runs /\ started' = started
      /\ item' = item /\ answer' = answer /\ fate' = fate /\ reported' = reported
      /\ caught' = caught /\ ratchet' = ratchet /\ lines' = lines /\ failed' = failed
    BY DEF Promote, process, sending
<1>2. \/ corpus' = corpus /\ corpusDir' = corpusDir
      \/ /\ item[at] \notin ToSet(corpus) /\ corpus' = Append(corpus, item[at])
         /\ corpusDir' = corpusDir \cup {item[at]}
    BY DEF Promote, Kept
<1>3. item[at] \in Texts /\ corpus \in Seq(Texts) /\ corpusDir \subseteq Texts
      /\ IsFiniteSet(corpusDir)
    BY <1>1 DEF Base, TypeOK
<1>4. corpus' \in Seq(Texts) /\ corpusDir' \subseteq Texts
    BY <1>2, <1>3
<1>5. IsFiniteSet(corpusDir')
    BY <1>2, <1>3, FS_AddElement
<1>6. at' \in 1 .. Total + 1
    BY <1>1 DEF Requests, HarnessAssumptions
<1>7. TypeOK'
    BY <1>1, <1>4, <1>6 DEF Base, TypeOK
<1>8. ~Sending /\ ~Sending' /\ (running' <=> stage' # "idle") /\ stage' # "join"
    BY <1>1 DEF Base, Sending
<1>9. Base'
    BY <1>1, <1>5, <1>7, <1>8 DEF Base
<1> QED BY <1>2, <1>3, <1>9

(***************************************************************************)
(* A line goes to the file, whole, cut short or not at all.                *)
(***************************************************************************)
LEMMA AppendBase ==
    ASSUME HarnessAssumptions, Base, AppendRatchet
    PROVE  /\ Base'
           /\ ~failed' => ~failed /\ lines' = Append(lines, started) /\ started \in 1 .. MaxRuns
<1>1. PICK written \in {<<started>>} \cup {<<>>, <<0>>} :
        lines' = lines \o written /\ failed' = (failed \/ written # <<started>>)
    BY DEF AppendRatchet
<1>2. /\ stage = "append" /\ stage' = "record"
      /\ up' = up /\ running' = running /\ runs' = runs /\ started' = started
      /\ item' = item /\ answer' = answer /\ fate' = fate /\ reported' = reported
      /\ results' = results /\ caught' = caught /\ at' = at
      /\ corpus' = corpus /\ corpusDir' = corpusDir /\ ratchet' = ratchet
    BY DEF AppendRatchet, process, sending, scored
<1>3. started \in 0 .. MaxRuns /\ 0 \in 0 .. MaxRuns /\ lines \in Seq(0 .. MaxRuns)
    BY DEF Base, TypeOK, HarnessAssumptions
<1>4. written \in Seq(0 .. MaxRuns)
    <2>1. <<>> \in Seq(0 .. MaxRuns)
        BY EmptySeq
    <2>2. <<started>> \in Seq(0 .. MaxRuns) /\ <<0>> \in Seq(0 .. MaxRuns)
        BY <1>3
    <2>3. written = <<started>> \/ written = <<>> \/ written = <<0>>
        BY <1>1
    <2> QED BY <2>1, <2>2, <2>3, Zenon
<1>5. lines' \in Seq(0 .. MaxRuns) /\ failed' \in BOOLEAN
    BY <1>1, <1>3, <1>4, ConcatProperties
<1>6. TypeOK'
    BY <1>2, <1>5 DEF Base, TypeOK, Stages
<1>7. ~Sending /\ ~Sending' /\ (running' <=> stage' # "idle") /\ stage' # "join" /\ running
    BY <1>2 DEF Base, Sending
<1>8. Base'
    BY <1>2, <1>6, <1>7 DEF Base
<1>9. ASSUME ~failed'
      PROVE  ~failed /\ lines' = Append(lines, started) /\ started \in 1 .. MaxRuns
    <2>1. ~failed /\ written = <<started>>
        BY <1>1, <1>9
    <2>2. lines' = lines \o <<started>>
        BY <1>1, <2>1
    <2>3. lines \o <<started>> = Append(lines, started)
        BY <1>3, AppendIsConcat
    <2>4. started # 0
        BY <1>7 DEF Base
    <2> QED BY <1>3, <2>1, <2>2, <2>3, <2>4
<1> QED BY <1>8, <1>9

(***************************************************************************)
(* A count of results is a number.                                         *)
(***************************************************************************)
LEMMA CountsAreNat ==
    ASSUME HarnessAssumptions
    PROVE  \A a : CountOf(a) \in Nat
<1> SUFFICES ASSUME NEW a PROVE CountOf(a) \in Nat
    OBVIOUS
<1> DEFINE S == {i \in Requests : results[i].action = a}
<1>1. S \in SUBSET Requests
    OBVIOUS
<1>2. S \subseteq Requests
    BY <1>1
<1> HIDE DEF S
<1>3. Cardinality(S) \in Nat
    BY <1>2, RequestsAreTotal
<1> QED BY <1>3 DEF CountOf, S

(***************************************************************************)
(* The counters that the record of a run sets.                             *)
(***************************************************************************)
LEMMA FinishedRun ==
    ASSUME HarnessAssumptions, NEW r \in RunRecs
    PROVE  LET r2 == Finished(r)
           IN  /\ r2 \in RunRecs
               /\ r2.status = "done" /\ r2.completed = r.completed
               /\ r2.errors = r.errors /\ r2.blocked = r.blocked
               /\ r2.masked = r.masked + CountOf("mask")
               /\ r2.detectOnly = r.detectOnly + CountOf("detect")
               /\ r2.passed = r.passed + CountOf("pass")
<1> DEFINE m == r.masked + CountOf("mask")
           d == r.detectOnly + CountOf("detect")
           p == r.passed + CountOf("pass")
           e == [r EXCEPT !.masked = m]
           f == [e EXCEPT !.detectOnly = d]
           g == [f EXCEPT !.passed = p]
           h == [g EXCEPT !.status = "done"]
<1>0. m \in Nat /\ d \in Nat /\ p \in Nat
    BY CountsAreNat DEF RunRecs
<1> HIDE DEF m, d, p
<1>1. /\ e \in RunRecs /\ e.masked = m /\ e.completed = r.completed
      /\ e.errors = r.errors /\ e.blocked = r.blocked
      /\ e.detectOnly = r.detectOnly /\ e.passed = r.passed
    BY <1>0 DEF RunRecs
<1> HIDE DEF e
<1>2. /\ f \in RunRecs /\ f.masked = e.masked /\ f.completed = e.completed
      /\ f.errors = e.errors /\ f.blocked = e.blocked
      /\ f.detectOnly = d /\ f.passed = e.passed
    BY <1>0, <1>1 DEF RunRecs
<1> HIDE DEF f
<1>3. /\ g \in RunRecs /\ g.masked = f.masked /\ g.completed = f.completed
      /\ g.errors = f.errors /\ g.blocked = f.blocked
      /\ g.detectOnly = f.detectOnly /\ g.passed = p
    BY <1>0, <1>2 DEF RunRecs
<1> HIDE DEF g
<1>4. /\ h \in RunRecs /\ h.masked = g.masked /\ h.completed = g.completed
      /\ h.errors = g.errors /\ h.blocked = g.blocked
      /\ h.detectOnly = g.detectOnly /\ h.passed = g.passed /\ h.status = "done"
    BY <1>3 DEF RunRecs
<1> HIDE DEF h
<1>5. Finished(r) = h
    BY Zenon DEF e, f, g, h, m, d, p, Finished
<1>6. /\ h.masked = m /\ h.detectOnly = d /\ h.passed = p
      /\ h.completed = r.completed /\ h.errors = r.errors /\ h.blocked = r.blocked
    BY <1>1, <1>2, <1>3, <1>4, Zenon
<1> QED BY <1>4, <1>5, <1>6 DEF m, d, p

(***************************************************************************)
(* The newest run is done and the series has its point.                    *)
(***************************************************************************)
LEMMA RecordBase ==
    ASSUME HarnessAssumptions, Base, Record
    PROVE  /\ Base'
           /\ Len(runs) \in 1 .. Len(runs) /\ Len(runs') = Len(runs)
           /\ runs[Len(runs)] \in RunRecs
           /\ runs'[Len(runs)] = Finished(runs[Len(runs)])
           /\ \A k \in 1 .. Len(runs) : k # Len(runs) => runs'[k] = runs[k]
           /\ started \in 1 .. MaxRuns
<1>1. /\ stage = "record" /\ stage' = "release"
      /\ ratchet' = Append(ratchet, started)
      /\ runs' = [runs EXCEPT ![Len(runs)] = Finished(runs[Len(runs)])]
      /\ up' = up /\ running' = running /\ started' = started
      /\ item' = item /\ answer' = answer /\ fate' = fate /\ reported' = reported
      /\ results' = results /\ caught' = caught /\ at' = at
      /\ corpus' = corpus /\ corpusDir' = corpusDir /\ lines' = lines /\ failed' = failed
    BY Zenon DEF Record, sending, scored
<1>2. ~Sending /\ ~Sending' /\ running /\ (running' <=> stage' # "idle") /\ stage' # "join"
    BY <1>1 DEF Base, Sending
<1>3. runs \in Seq(RunRecs) /\ Len(runs) # 0 /\ started # 0
    BY <1>2 DEF Base
<1>4. Len(runs) \in 1 .. Len(runs) /\ runs[Len(runs)] \in RunRecs
    BY <1>3
<1>5. Finished(runs[Len(runs)]) \in RunRecs
    BY <1>4, FinishedRun
<1> DEFINE r2 == Finished(runs[Len(runs)])
<1> HIDE DEF r2
<1>6. /\ runs' \in Seq(RunRecs) /\ Len(runs') = Len(runs) /\ runs'[Len(runs)] = r2
      /\ \A k \in 1 .. Len(runs) : k # Len(runs) => runs'[k] = runs[k]
    <2>1. r2 \in RunRecs /\ runs' = [runs EXCEPT ![Len(runs)] = r2]
        BY <1>1, <1>5 DEF r2
    <2> QED BY <1>3, <1>4, <2>1, ExceptSeq
<1>7. started \in 1 .. MaxRuns
    BY <1>3 DEF Base, TypeOK
<1>8. ratchet' \in Seq(1 .. MaxRuns)
    <2>1. ratchet \in Seq(1 .. MaxRuns)
        BY DEF Base, TypeOK
    <2> QED BY <1>1, <1>7, <2>1
<1>9. TypeOK'
    <2> HIDE <1>5
    <2>1. Len(runs') <= MaxStoredRuns
        BY <1>6 DEF Base, TypeOK
    <2> QED BY <2>1, <1>1, <1>8 DEF Base, TypeOK, Stages
<1>10. Base'
    BY <1>1, <1>2, <1>3, <1>6, <1>9 DEF Base
<1> QED BY <1>4, <1>6, <1>7, <1>10 DEF r2

(***************************************************************************)
(* Between runs, and when the process has ended, nothing of a run is left. *)
(***************************************************************************)
LEMMA IdleBase ==
    ASSUME HarnessAssumptions, Base, Idle, runs' \in Seq(RunRecs), Len(runs') <= MaxStoredRuns,
           up' \in BOOLEAN, started' = started, corpus' \in Seq(Texts), corpusDir' = corpusDir,
           ratchet' \in Seq(1 .. MaxRuns), lines' = lines, failed' = failed
    PROVE  Base'
<1>1. /\ running' = FALSE /\ stage' = "idle" /\ item' = [i \in Requests |-> AnyText]
      /\ answer' = [i \in Requests |-> "none"] /\ fate' = [i \in Requests |-> NoFate]
      /\ reported' = {} /\ caught' = {} /\ at' = 1
    BY DEF Idle, Unanswered, Unscored
<1>2. AnyText \in Texts
    BY DEF AnyText, HarnessAssumptions
<1>3. TypeOK'
    <2>1. item' \in [Requests -> Texts]
        BY <1>1, <1>2
    <2>2. answer' \in [Requests -> {"none", "open", "error", "blocked", "bad", "other"}]
        BY <1>1
    <2>3. fate' \in [Requests -> Fates \cup {NoFate}]
        BY <1>1
    <2>4. running' \in BOOLEAN /\ stage' \in Stages
        BY <1>1 DEF Stages
    <2>5. at' \in 1 .. Total + 1
        BY <1>1 DEF HarnessAssumptions
    <2>6. reported' \subseteq Requests /\ caught' \subseteq Requests
        BY <1>1
    <2> QED BY <2>1, <2>2, <2>3, <2>4, <2>5, <2>6 DEF Base, TypeOK
<1>4. ~Sending' /\ stage' # "join" /\ (running' <=> stage' # "idle") /\ ~running'
    BY <1>1 DEF Sending
<1>5. \A i \in Requests : answer'[i] = "none" /\ fate'[i] = NoFate
    BY <1>1
<1>6. "none" \notin Heard
    BY DEF Heard
<1> QED BY <1>1, <1>3, <1>4, <1>5, <1>6 DEF Base

(***************************************************************************)
(* A restart loads the directory and the whole lines of the file.          *)
(***************************************************************************)
LEMMA BootBase ==
    ASSUME HarnessAssumptions, Base, Boot
    PROVE  /\ Base'
           /\ ToSet(corpus') = corpusDir' /\ Len(corpus') = Cardinality(corpusDir')
<1>1. /\ ~up /\ up' = TRUE /\ corpus' = SetToSeq(corpusDir) /\ ratchet' = Loaded(lines)
      /\ running' = running /\ runs' = runs /\ started' = started /\ stage' = stage
      /\ item' = item /\ answer' = answer /\ fate' = fate /\ reported' = reported
      /\ results' = results /\ caught' = caught /\ at' = at
      /\ corpusDir' = corpusDir /\ lines' = lines /\ failed' = failed
    BY DEF Boot, sending, scored
<1>2. corpusDir \subseteq Texts /\ IsFiniteSet(corpusDir)
    BY DEF Base, TypeOK
<1>3. /\ SetToSeq(corpusDir) \in Seq(corpusDir) /\ ToSet(SetToSeq(corpusDir)) = corpusDir
      /\ Len(SetToSeq(corpusDir)) = Cardinality(corpusDir)
    BY <1>2, SetToSeqLists
<1>4. SetToSeq(corpusDir) \in Seq(Texts)
    BY <1>2, <1>3, SeqMonotonic
<1>5. Loaded(lines) \in Seq(1 .. MaxRuns)
    <2>1. MaxRuns \in Nat /\ lines \in Seq(0 .. MaxRuns)
        BY DEF Base, TypeOK, HarnessAssumptions
    <2> QED BY <2>1, LoadedLines
<1>6. TypeOK'
    BY <1>1, <1>4, <1>5 DEF Base, TypeOK
<1>7. Sending' <=> Sending
    BY <1>1 DEF Sending
<1>8. Base'
    BY <1>1, <1>2, <1>6, <1>7 DEF Base
<1> QED BY <1>1, <1>3, <1>8
-----------------------------------------------------------------------------
Got(a) == {i \in Requests : answer[i] = a}
Over == {i \in Requests : answer[i] \notin {"none", "open"}}

\* A run that is done, and what the newest one has while it is under way.
DoneRun(r) == r.status = "done" /\ r.completed = Total /\ Outcomes(r) <= Total

NoneScored(r) == r.status = "running" /\ r.masked = 0 /\ r.detectOnly = 0 /\ r.passed = 0

CountsAnswers(r) ==
    /\ NoneScored(r)
    /\ r.completed = Cardinality(Over)
    /\ r.errors = Cardinality(Got("error")) /\ r.blocked = Cardinality(Got("blocked"))

CountsScores(r) ==
    /\ NoneScored(r)
    /\ r.completed = Total
    /\ r.errors + r.blocked + CountOf("mask") + CountOf("detect") + CountOf("pass") <= Total

CountInv ==
    /\ \A k \in 1 .. Len(runs) :
        k # Len(runs) \/ stage \in {"idle", "release"} => DoneRun(runs[k])
    /\ Sending => CountsAnswers(runs[Len(runs)])
    /\ stage \in {"promote", "append", "record"} => CountsScores(runs[Len(runs)])

FlyInv ==
    /\ up => ToSet(corpus) = corpusDir /\ Len(corpus) = Cardinality(corpusDir)
    /\ ~failed =>
        /\ lines \in Seq(1 .. MaxRuns)
        /\ up /\ stage # "record" => ratchet = lines
        /\ stage = "record" => lines = Append(ratchet, started)

IInv == Base /\ CountInv /\ FlyInv

(***************************************************************************)
(* One request more has an answer.                                         *)
(***************************************************************************)
LEMMA OneMoreAnswer ==
    ASSUME HarnessAssumptions, TypeOK, NEW i \in Requests, NEW got,
           answer[i] = "open", got \in Heard \cup {"error"},
           answer' = [answer EXCEPT ![i] = got]
    PROVE  /\ Cardinality(Over)' = Cardinality(Over) + 1
           /\ Cardinality(Got("error"))' =
                IF got = "error" THEN Cardinality(Got("error")) + 1 ELSE Cardinality(Got("error"))
           /\ Cardinality(Got("blocked"))' =
                IF got = "blocked" THEN Cardinality(Got("blocked")) + 1
                ELSE Cardinality(Got("blocked"))
<1>1. answer'[i] = got /\ \A j \in Requests : j # i => answer'[j] = answer[j]
    BY DEF TypeOK
<1>2. got \notin {"none", "open"}
    BY DEF Heard
<1>3. Over' = Over \cup {i} /\ i \notin Over /\ Over \subseteq Requests
    BY <1>1, <1>2 DEF Over
<1>4. \A a : a # "open" => Got(a)' = (IF got = a THEN Got(a) \cup {i} ELSE Got(a))
    <2> SUFFICES ASSUME NEW a, a # "open"
                 PROVE  Got(a)' = (IF got = a THEN Got(a) \cup {i} ELSE Got(a))
        OBVIOUS
    <2>1. CASE got = a
        BY <1>1, <2>1 DEF Got
    <2>2. CASE got # a
        BY <1>1, <2>2 DEF Got
    <2> QED BY <2>1, <2>2
<1>5. \A a : a # "open" => i \notin Got(a) /\ Got(a) \subseteq Requests
    BY DEF Got
<1>6. \A S : S \subseteq Requests => IsFiniteSet(S)
    BY RequestsAreTotal
<1>7. \A S : S \subseteq Requests /\ i \notin S => Cardinality(S \cup {i}) = Cardinality(S) + 1
    BY <1>6, FS_AddElement
<1>8. Cardinality(Over)' = Cardinality(Over) + 1
    BY <1>3, <1>7
<1>9. "error" # "open" /\ "blocked" # "open"
    OBVIOUS
<1>10. Cardinality(Got("error"))' =
         IF got = "error" THEN Cardinality(Got("error")) + 1 ELSE Cardinality(Got("error"))
    BY <1>4, <1>5, <1>7, <1>9
<1>11. Cardinality(Got("blocked"))' =
         IF got = "blocked" THEN Cardinality(Got("blocked")) + 1 ELSE Cardinality(Got("blocked"))
    BY <1>4, <1>5, <1>7, <1>9
<1> QED BY <1>8, <1>10, <1>11

(***************************************************************************)
(* Nothing a request is sent for, handled or reported by is an answer.     *)
(***************************************************************************)
LEMMA NoAnswerYet ==
    ASSUME HarnessAssumptions, TypeOK, NEW i \in Requests,
           \/ answer' = answer
           \/ answer[i] = "none" /\ answer' = [answer EXCEPT ![i] = "open"]
    PROVE  /\ Cardinality(Over)' = Cardinality(Over)
           /\ Cardinality(Got("error"))' = Cardinality(Got("error"))
           /\ Cardinality(Got("blocked"))' = Cardinality(Got("blocked"))
<1>1. \A j \in Requests : /\ answer'[j] \in {"none", "open"} <=> answer[j] \in {"none", "open"}
                          /\ answer'[j] = "error" <=> answer[j] = "error"
                          /\ answer'[j] = "blocked" <=> answer[j] = "blocked"
    BY DEF TypeOK
<1>2. Over' = Over /\ Got("error")' = Got("error") /\ Got("blocked")' = Got("blocked")
    BY <1>1 DEF Over, Got
<1> QED BY <1>2

(***************************************************************************)
(* The score keeps the outcomes apart: the failed, the blocked, and those  *)
(* a report gives one of three other actions are five sets of requests     *)
(* that do not overlap, of Total in all.                                   *)
(***************************************************************************)
LEMMA OutcomesAreApart ==
    ASSUME HarnessAssumptions, Base, ScoreRun
    PROVE  Cardinality(Got("error")) + Cardinality(Got("blocked"))
           + CountOf("mask")' + CountOf("detect")' + CountOf("pass")' <= Total
<1> DEFINE By(a) == {i \in Requests : results'[i].action = a}
           E == Got("error")
           B == Got("blocked")
           M == By("mask")
           D == By("detect")
           P == By("pass")
<1>1. results' = [i \in Requests |-> Result(ActionOf(i), Missed(i))]
    BY DEF ScoreRun
<1>2. \A i \in Requests : results'[i].action = ActionOf(i)
    BY <1>1, Zenon DEF Result
<1>3. ASSUME NEW i \in Requests, answer[i] = "error" \/ answer[i] = "blocked"
      PROVE  ActionOf(i) = "block" \/ ActionOf(i) = ""
    <2>1. CASE Joined(i)
        <3>1. i \in reported /\ answer[i] = "blocked"
            BY <1>3, <2>1 DEF Joined
        <3>2. fate[i] # NoFate /\ fate[i].answer = "blocked"
            BY <3>1 DEF Base, Heard
        <3>3. fate[i] \in Fates
            BY <3>2 DEF Base, TypeOK
        <3>4. fate[i].action = "block"
            BY <3>2, <3>3, FatesAre DEF FateOK
        <3> QED BY <2>1, <3>4 DEF ActionOf
    <2>2. CASE ~Joined(i)
        BY <2>2 DEF ActionOf
    <2> QED BY <2>1, <2>2
<1>4. /\ E \subseteq Requests /\ B \subseteq Requests /\ M \subseteq Requests
      /\ D \subseteq Requests /\ P \subseteq Requests
    BY DEF Got
<1>5. E \cap B = {}
    BY DEF Got
<1>6. \A i \in E \cup B : i \notin M /\ i \notin D /\ i \notin P
    <2>1. \A i \in E \cup B : i \in Requests /\ (answer[i] = "error" \/ answer[i] = "blocked")
        BY DEF Got
    <2>2. \A i \in E \cup B : results'[i].action = "block" \/ results'[i].action = ""
        BY <1>2, <1>3, <2>1
    <2> QED BY <2>2
<1>7. M \cap D = {} /\ M \cap P = {} /\ D \cap P = {}
    OBVIOUS
<1>8. /\ CountOf("mask")' = Cardinality(M) /\ CountOf("detect")' = Cardinality(D)
      /\ CountOf("pass")' = Cardinality(P)
    BY DEF CountOf
<1> HIDE DEF E, B, M, D, P
<1>9. \A S : S \subseteq Requests => IsFiniteSet(S) /\ Cardinality(S) \in Nat /\ Cardinality(S) <= Total
    BY RequestsAreTotal
<1>10. Cardinality(E \cup B) = Cardinality(E) + Cardinality(B)
    BY <1>4, <1>5, <1>9, DisjointSum
<1>11. Cardinality((E \cup B) \cup M) = Cardinality(E \cup B) + Cardinality(M)
    <2>1. (E \cup B) \cap M = {} /\ E \cup B \subseteq Requests
        BY <1>4, <1>6
    <2> QED BY <1>4, <1>9, <2>1, DisjointSum
<1>12. Cardinality(((E \cup B) \cup M) \cup D) = Cardinality((E \cup B) \cup M) + Cardinality(D)
    <2>1. ((E \cup B) \cup M) \cap D = {} /\ (E \cup B) \cup M \subseteq Requests
        BY <1>4, <1>6, <1>7
    <2> QED BY <1>4, <1>9, <2>1, DisjointSum
<1>13. Cardinality((((E \cup B) \cup M) \cup D) \cup P)
         = Cardinality(((E \cup B) \cup M) \cup D) + Cardinality(P)
    <2>1. (((E \cup B) \cup M) \cup D) \cap P = {} /\ ((E \cup B) \cup M) \cup D \subseteq Requests
        BY <1>4, <1>6, <1>7
    <2> QED BY <1>4, <1>9, <2>1, DisjointSum
<1>14. Cardinality((((E \cup B) \cup M) \cup D) \cup P) <= Total
    <2>1. (((E \cup B) \cup M) \cup D) \cup P \subseteq Requests
        BY <1>4
    <2> QED BY <2>1, <1>9
<1>15. /\ Cardinality(E) \in Nat /\ Cardinality(B) \in Nat /\ Cardinality(M) \in Nat
       /\ Cardinality(D) \in Nat /\ Cardinality(P) \in Nat
    BY <1>4, <1>9
<1>16. Cardinality(E) + Cardinality(B) + Cardinality(M) + Cardinality(D) + Cardinality(P) <= Total
    BY <1>10, <1>11, <1>12, <1>13, <1>14, <1>15
<1> QED BY <1>8, <1>16 DEF E, B

(***************************************************************************)
(* Failed and blocked requests are among the answered ones, and not both.  *)
(***************************************************************************)
LEMMA AnswersAreApart ==
    ASSUME HarnessAssumptions
    PROVE  Cardinality(Got("error")) + Cardinality(Got("blocked")) <= Cardinality(Over)
<1> DEFINE E == Got("error")
           B == Got("blocked")
<1>1. E \subseteq Requests /\ B \subseteq Requests /\ Over \subseteq Requests
    BY DEF Got, Over
<1>2. E \cap B = {} /\ E \cup B \subseteq Over
    BY DEF Got, Over
<1> HIDE DEF E, B
<1>3. \A S : S \subseteq Requests => IsFiniteSet(S)
    BY RequestsAreTotal
<1>4. Cardinality(E \cup B) = Cardinality(E) + Cardinality(B)
    BY <1>1, <1>2, <1>3, DisjointSum
<1>5. Cardinality(E \cup B) <= Cardinality(Over)
    BY <1>1, <1>2, <1>3, FS_Subset
<1> QED BY <1>4, <1>5 DEF E, B

(***************************************************************************)
(* What the score counts is kept until the run is recorded.                *)
(***************************************************************************)
LEMMA SameCounts ==
    ASSUME results' = results
    PROVE  \A a : CountOf(a)' = CountOf(a)
<1> SUFFICES ASSUME NEW a PROVE CountOf(a)' = CountOf(a)
    OBVIOUS
<1> QED BY DEF CountOf

(***************************************************************************)
(* The counters, while requests are under way: a run starts, requests are  *)
(* sent and handled and reported, answers come.                            *)
(***************************************************************************)
LEMMA CountsWhileSending ==
    ASSUME HarnessAssumptions, Base, CountInv,
           \/ StartRun
           \/ AllAnswered
           \/ \E i \in Requests : \/ SendOne(i) \/ GatewayHandles(i) \/ ReportArrives(i)
                                 \/ Answered(i) \/ RequestFails(i)
    PROVE  CountInv'
<1>1. CASE StartRun
    <2>1. /\ Len(runs') # 0 /\ runs'[Len(runs')] = NewRun
          /\ \A k \in 1 .. Len(runs') : k # Len(runs') =>
               \E j \in 1 .. Len(runs) : runs'[k] = runs[j]
        BY <1>1, StartRunBase
    <2>2. stage = "idle" /\ stage' = "send" /\ answer' = answer /\ ~Sending
        BY <1>1 DEF StartRun, Base, Sending
    <2>3. \A j \in 1 .. Len(runs) : DoneRun(runs[j])
        BY <2>2 DEF CountInv
    <2>4. \A i \in Requests : answer'[i] = "none"
        BY <2>2 DEF Base
    <2>5. Over' = {} /\ Got("error")' = {} /\ Got("blocked")' = {}
        BY <2>4 DEF Over, Got
    <2>6. /\ Cardinality(Over)' = 0 /\ Cardinality(Got("error"))' = 0
          /\ Cardinality(Got("blocked"))' = 0
        BY <2>5, FS_EmptySet
    <2>7. /\ NewRun.status = "running" /\ NewRun.completed = 0
          /\ NewRun.errors = 0 /\ NewRun.blocked = 0
          /\ NewRun.masked = 0 /\ NewRun.detectOnly = 0 /\ NewRun.passed = 0
        BY DEF NewRun
    <2>8. CountsAnswers(runs[Len(runs)])'
        BY <2>1, <2>6, <2>7 DEF CountsAnswers, NoneScored
    <2>9. \A k \in 1 .. Len(runs') : k # Len(runs') => DoneRun(runs'[k])
        BY <2>1, <2>3
    <2>10. \A k \in 1 .. Len(runs') : k # Len(runs') => DoneRun(runs[k])'
        BY <2>9 DEF DoneRun, Outcomes
    <2> QED BY <2>2, <2>8, <2>10 DEF CountInv
<1>2. ASSUME runs' = runs, Sending => Sending', Sending' => Sending,
             stage' \in {"idle", "release"} <=> stage \in {"idle", "release"},
             stage' \in {"promote", "append", "record"} <=> stage \in {"promote", "append", "record"},
             results' = results,
             Cardinality(Over)' = Cardinality(Over),
             Cardinality(Got("error"))' = Cardinality(Got("error")),
             Cardinality(Got("blocked"))' = Cardinality(Got("blocked"))
      PROVE  CountInv'
    <2>1. /\ CountOf("mask")' = CountOf("mask") /\ CountOf("detect")' = CountOf("detect")
          /\ CountOf("pass")' = CountOf("pass")
        BY <1>2, SameCounts
    <2>2. CountsAnswers(runs[Len(runs)])' <=> CountsAnswers(runs[Len(runs)])
        BY <1>2 DEF CountsAnswers, NoneScored
    <2>3. CountsScores(runs[Len(runs)])' <=> CountsScores(runs[Len(runs)])
        BY <1>2, <2>1 DEF CountsScores, NoneScored
    <2>4. \A k : DoneRun(runs[k])' <=> DoneRun(runs[k])
        BY <1>2 DEF DoneRun, Outcomes
    <2> QED BY <1>2, <2>2, <2>3, <2>4 DEF CountInv
<1>3. TypeOK
    BY DEF Base
<1>4. CASE AllAnswered
    <2>1. /\ runs' = runs /\ results' = results /\ answer' = answer
          /\ stage = "send" /\ stage' = "join"
        BY <1>4 DEF AllAnswered, process, sending, scored
    <2>2. Over' = Over /\ Got("error")' = Got("error") /\ Got("blocked")' = Got("blocked")
        BY <2>1 DEF Over, Got
    <2>3. Sending /\ Sending'
        BY <2>1 DEF Sending
    <2> QED BY <2>1, <2>2, <2>3, <1>2
<1>5. ASSUME NEW i \in Requests, SendOne(i) \/ GatewayHandles(i) \/ ReportArrives(i)
      PROVE  CountInv'
    <2>1. /\ runs' = runs /\ results' = results /\ stage' = stage
          /\ \/ answer' = answer
             \/ answer[i] = "none" /\ answer' = [answer EXCEPT ![i] = "open"]
        BY <1>5 DEF SendOne, GatewayHandles, ReportArrives, process, scored
    <2>2. /\ Cardinality(Over)' = Cardinality(Over)
          /\ Cardinality(Got("error"))' = Cardinality(Got("error"))
          /\ Cardinality(Got("blocked"))' = Cardinality(Got("blocked"))
        BY <2>1, <1>3, NoAnswerYet
    <2>3. Sending' <=> Sending
        BY <2>1 DEF Sending
    <2> QED BY <2>1, <2>2, <2>3, <1>2
<1>6. ASSUME NEW i \in Requests, Answered(i) \/ RequestFails(i)
      PROVE  CountInv'
    <2>1. PICK got \in Heard \cup {"error"} :
           /\ stage = "send" /\ stage' = "send" /\ results' = results
           /\ answer[i] = "open" /\ answer' = [answer EXCEPT ![i] = got]
           /\ Len(runs) \in 1 .. Len(runs) /\ Len(runs') = Len(runs)
           /\ \A k \in 1 .. Len(runs) : k # Len(runs) => runs'[k] = runs[k]
           /\ LET r == runs[Len(runs)]
                  r2 == runs'[Len(runs)]
              IN  /\ r2.status = r.status /\ r2.completed = r.completed + 1
                  /\ r2.errors = IF got = "error" THEN r.errors + 1 ELSE r.errors
                  /\ r2.blocked = IF got = "blocked" THEN r.blocked + 1 ELSE r.blocked
                  /\ r2.masked = r.masked /\ r2.detectOnly = r.detectOnly
                  /\ r2.passed = r.passed
        BY <1>6, CompletedBase
    <2>2. /\ Cardinality(Over)' = Cardinality(Over) + 1
          /\ Cardinality(Got("error"))' =
               IF got = "error" THEN Cardinality(Got("error")) + 1 ELSE Cardinality(Got("error"))
          /\ Cardinality(Got("blocked"))' =
               IF got = "blocked" THEN Cardinality(Got("blocked")) + 1
               ELSE Cardinality(Got("blocked"))
        BY <2>1, <1>3, OneMoreAnswer
    <2>3. CountsAnswers(runs[Len(runs)])
        BY <2>1 DEF CountInv, Sending
    <2>4. CountsAnswers(runs[Len(runs)])'
        BY <2>1, <2>2, <2>3 DEF CountsAnswers, NoneScored
    <2>5. \A k \in 1 .. Len(runs) : k # Len(runs) => DoneRun(runs[k])
        BY DEF CountInv
    <2>6. \A k \in 1 .. Len(runs') : k # Len(runs') => DoneRun(runs[k])'
        BY <2>1, <2>5 DEF DoneRun, Outcomes
    <2> QED BY <2>1, <2>4, <2>6 DEF CountInv
<1> QED BY <1>1, <1>4, <1>5, <1>6

(***************************************************************************)
(* The counters, once the requests are done with.                          *)
(***************************************************************************)
LEMMA CountsOnceScored ==
    ASSUME HarnessAssumptions, Base, CountInv,
           ScoreRun \/ Promote \/ Promoted \/ AppendRatchet \/ Record \/ Release
    PROVE  CountInv'
<1>1. CASE ScoreRun
    <2>1. stage = "join" /\ stage' = "promote" /\ runs' = runs
        BY <1>1 DEF ScoreRun, process
    <2>2. Sending /\ ~Sending'
        BY <2>1 DEF Sending
    <2>3. CountsAnswers(runs[Len(runs)])
        BY <2>2 DEF CountInv
    <2>4. Over = Requests
        BY <2>1 DEF Base, Over
    <2>5. Cardinality(Over) = Total
        BY <2>4, RequestsAreTotal
    <2>6. Cardinality(Got("error")) + Cardinality(Got("blocked"))
          + CountOf("mask")' + CountOf("detect")' + CountOf("pass")' <= Total
        BY <1>1, OutcomesAreApart
    <2>7. CountsScores(runs[Len(runs)])'
        BY <2>1, <2>3, <2>5, <2>6 DEF CountsScores, CountsAnswers, NoneScored
    <2>8. \A k \in 1 .. Len(runs) : k # Len(runs) => DoneRun(runs[k])
        BY DEF CountInv
    <2>9. \A k \in 1 .. Len(runs') : k # Len(runs') => DoneRun(runs[k])'
        BY <2>1, <2>8 DEF DoneRun, Outcomes
    <2> QED BY <2>1, <2>2, <2>7, <2>9 DEF CountInv
<1>2. CASE Promote \/ Promoted \/ AppendRatchet
    <2>1. runs' = runs
        BY <1>2 DEF Promote, Promoted, AppendRatchet, process
    <2>2. results' = results
        BY <1>2 DEF Promote, Promoted, AppendRatchet, scored
    <2>3. /\ stage \in {"promote", "append", "record"}
          /\ stage' \in {"promote", "append", "record"}
        BY <1>2 DEF Promote, Promoted, AppendRatchet
    <2>4. ~Sending' /\ stage' \notin {"idle", "release"}
        BY <2>3 DEF Sending
    <2>5. /\ CountOf("mask")' = CountOf("mask") /\ CountOf("detect")' = CountOf("detect")
          /\ CountOf("pass")' = CountOf("pass")
        BY <2>2, SameCounts
    <2>6. CountsScores(runs[Len(runs)])
        BY <2>3 DEF CountInv
    <2>7. CountsScores(runs[Len(runs)])'
        BY <2>1, <2>5, <2>6 DEF CountsScores, NoneScored
    <2>8. \A k \in 1 .. Len(runs) : k # Len(runs) => DoneRun(runs[k])
        BY DEF CountInv
    <2>9. \A k \in 1 .. Len(runs') : k # Len(runs') => DoneRun(runs[k])'
        BY <2>1, <2>8 DEF DoneRun, Outcomes
    <2> QED BY <2>4, <2>7, <2>9 DEF CountInv
<1>3. CASE Record
    <2>1. /\ Len(runs) \in 1 .. Len(runs) /\ Len(runs') = Len(runs)
          /\ runs[Len(runs)] \in RunRecs
          /\ runs'[Len(runs)] = Finished(runs[Len(runs)])
          /\ \A k \in 1 .. Len(runs) : k # Len(runs) => runs'[k] = runs[k]
        BY <1>3, RecordBase
    <2>2. stage = "record" /\ stage' = "release"
        BY <1>3 DEF Record
    <2>3. CountsScores(runs[Len(runs)])
        BY <2>2 DEF CountInv
    <2> DEFINE r == runs[Len(runs)]
               r2 == Finished(r)
    <2>4. /\ r2 \in RunRecs
          /\ r2.status = "done" /\ r2.completed = r.completed
          /\ r2.errors = r.errors /\ r2.blocked = r.blocked
          /\ r2.masked = r.masked + CountOf("mask")
          /\ r2.detectOnly = r.detectOnly + CountOf("detect")
          /\ r2.passed = r.passed + CountOf("pass")
        BY <2>1, FinishedRun
    <2>5. /\ r.masked = 0 /\ r.detectOnly = 0 /\ r.passed = 0 /\ r.completed = Total
          /\ r.errors + r.blocked + CountOf("mask") + CountOf("detect") + CountOf("pass") <= Total
        BY <2>3 DEF CountsScores, NoneScored
    <2>6. r.errors \in Nat /\ r.blocked \in Nat
        BY <2>1 DEF RunRecs
    <2>a. runs'[Len(runs)] = r2
        BY <2>1
    <2> HIDE DEF r2, r
    <2>7. r2.masked \in Nat /\ r2.detectOnly \in Nat /\ r2.passed \in Nat
        BY <2>4 DEF RunRecs
    <2>8. CountOf("mask") = r2.masked /\ CountOf("detect") = r2.detectOnly /\ CountOf("pass") = r2.passed
        <3>1. CountOf("mask") \in Nat /\ CountOf("detect") \in Nat /\ CountOf("pass") \in Nat
            BY CountsAreNat
        <3> QED BY <2>4, <2>5, <3>1
    <2>9. DoneRun(r2)
        BY <2>4, <2>5, <2>6, <2>7, <2>8 DEF DoneRun, Outcomes
    <2>10. \A k \in 1 .. Len(runs) : k # Len(runs) => DoneRun(runs[k])
        BY DEF CountInv
    <2>11. \A k \in 1 .. Len(runs') : DoneRun(runs'[k])
        BY <2>1, <2>a, <2>9, <2>10
    <2>12. \A k \in 1 .. Len(runs') : DoneRun(runs[k])'
        BY <2>11 DEF DoneRun, Outcomes
    <2>13. ~Sending' /\ stage' \notin {"promote", "append", "record"}
        BY <2>2 DEF Sending
    <2> QED BY <2>12, <2>13 DEF CountInv
<1>4. CASE Release
    <2>1. stage = "release" /\ stage' = "idle" /\ runs' = runs
        BY <1>4 DEF Release, Idle
    <2>2. \A k \in 1 .. Len(runs) : DoneRun(runs[k])
        BY <2>1 DEF CountInv
    <2>3. \A k \in 1 .. Len(runs') : DoneRun(runs[k])'
        BY <2>1, <2>2 DEF DoneRun, Outcomes
    <2>4. ~Sending' /\ stage' \notin {"promote", "append", "record"}
        BY <2>1 DEF Sending
    <2> QED BY <2>3, <2>4 DEF CountInv
<1> QED BY <1>1, <1>2, <1>3, <1>4

(***************************************************************************)
(* The corpus and the series keep to their files: promotion adds to both   *)
(* the same text, the ratchet's line comes before its point.               *)
(***************************************************************************)
LEMMA FlyStep ==
    ASSUME HarnessAssumptions, Base, FlyInv,
           \/ StartRun \/ AllAnswered \/ ScoreRun \/ Promote \/ Promoted
           \/ AppendRatchet \/ Record \/ Release \/ Crash \/ Boot
           \/ \E i \in Requests : \/ SendOne(i) \/ GatewayHandles(i) \/ ReportArrives(i)
                                 \/ Answered(i) \/ RequestFails(i)
    PROVE  FlyInv'
<1>1. ASSUME up' = up, corpus' = corpus, corpusDir' = corpusDir, ratchet' = ratchet,
             lines' = lines, failed' = failed, stage # "record", stage' # "record"
      PROVE  FlyInv'
    BY <1>1 DEF FlyInv
<1>2. CASE StartRun
    <2>1. stage = "idle" /\ stage' = "send"
        BY <1>2 DEF StartRun, Base
    <2> QED BY <1>1, <1>2, <2>1 DEF StartRun, store
<1>3. CASE AllAnswered \/ ScoreRun \/ Promoted
    <2>1. /\ up' = up /\ corpus' = corpus /\ corpusDir' = corpusDir /\ ratchet' = ratchet
          /\ lines' = lines /\ failed' = failed
        BY <1>3 DEF AllAnswered, ScoreRun, Promoted, process, store
    <2>2. stage # "record" /\ stage' # "record"
        BY <1>3 DEF AllAnswered, ScoreRun, Promoted
    <2> QED BY <1>1, <2>1, <2>2
<1>4. ASSUME NEW i \in Requests,
             SendOne(i) \/ GatewayHandles(i) \/ ReportArrives(i) \/ Answered(i) \/ RequestFails(i)
      PROVE  FlyInv'
    <2>1. /\ corpus' = corpus /\ corpusDir' = corpusDir /\ ratchet' = ratchet
          /\ lines' = lines /\ failed' = failed
        BY <1>4 DEF SendOne, GatewayHandles, ReportArrives, Answered, RequestFails, Completed, store
    <2>2. up' = up /\ stage' = stage /\ started' = started
        BY <1>4 DEF SendOne, GatewayHandles, ReportArrives, Answered, RequestFails, Completed, process
    <2> QED BY <2>1, <2>2 DEF FlyInv
<1>5. CASE Promote
    <2>1. \/ corpus' = corpus /\ corpusDir' = corpusDir
          \/ \E t \in Texts : /\ t \notin ToSet(corpus)
                              /\ corpus' = Append(corpus, t)
                              /\ corpusDir' = corpusDir \cup {t}
        BY <1>5, PromoteBase
    <2>2. /\ stage = "promote" /\ stage' = "promote" /\ up' = up /\ ratchet' = ratchet
          /\ lines' = lines /\ failed' = failed
        BY <1>5 DEF Promote, process
    <2>3. up
        BY <2>2 DEF Base
    <2>4. ToSet(corpus) = corpusDir /\ Len(corpus) = Cardinality(corpusDir)
        BY <2>3 DEF FlyInv
    <2>5. corpus \in Seq(Texts) /\ IsFiniteSet(corpusDir)
        BY DEF Base, TypeOK
    <2>6. ASSUME NEW t \in Texts, t \notin ToSet(corpus), corpus' = Append(corpus, t),
                 corpusDir' = corpusDir \cup {t}
          PROVE  ToSet(corpus') = corpusDir' /\ Len(corpus') = Cardinality(corpusDir')
        <3>1. /\ ToSet(Append(corpus, t)) = ToSet(corpus) \cup {t}
              /\ Len(Append(corpus, t)) = Len(corpus) + 1
            BY <2>5, <2>6, ToSetAppend
        <3>2. Cardinality(corpusDir \cup {t}) = Cardinality(corpusDir) + 1
            BY <2>4, <2>5, <2>6, FS_AddElement
        <3> QED BY <2>4, <2>6, <3>1, <3>2
    <2>7. ToSet(corpus)' = corpusDir' /\ Len(corpus)' = Cardinality(corpusDir)'
        BY <2>1, <2>4, <2>6
    <2> QED BY <2>2, <2>7 DEF FlyInv
<1>6. CASE AppendRatchet
    <2>1. ~failed' => ~failed /\ lines' = Append(lines, started) /\ started \in 1 .. MaxRuns
        BY <1>6, AppendBase
    <2>2. /\ stage = "append" /\ stage' = "record" /\ up' = up /\ started' = started
          /\ corpus' = corpus /\ corpusDir' = corpusDir /\ ratchet' = ratchet
        BY <1>6 DEF AppendRatchet, process
    <2>3. up
        BY <2>2 DEF Base
    <2>4. ~failed' => lines \in Seq(1 .. MaxRuns) /\ ratchet = lines
        BY <2>1, <2>2, <2>3 DEF FlyInv
    <2>5. ASSUME ~failed'
          PROVE  lines' \in Seq(1 .. MaxRuns) /\ lines' = Append(ratchet', started')
        <3>1. Append(lines, started) \in Seq(1 .. MaxRuns)
            BY <2>1, <2>4, <2>5, AppendProperties
        <3> QED BY <2>1, <2>2, <2>4, <2>5, <3>1
    <2>6. up' => ToSet(corpus)' = corpusDir' /\ Len(corpus)' = Cardinality(corpusDir)'
        BY <2>2 DEF FlyInv
    <2> QED BY <2>2, <2>5, <2>6 DEF FlyInv
<1>7. CASE Record
    <2>1. /\ stage = "record" /\ stage' = "release" /\ ratchet' = Append(ratchet, started)
          /\ up' = up /\ corpus' = corpus /\ corpusDir' = corpusDir /\ lines' = lines
          /\ failed' = failed
        BY <1>7, Zenon DEF Record
    <2>2. ~failed' => lines' \in Seq(1 .. MaxRuns) /\ ratchet' = lines'
        BY <2>1 DEF FlyInv
    <2>3. up' => ToSet(corpus)' = corpusDir' /\ Len(corpus)' = Cardinality(corpusDir)'
        BY <2>1 DEF FlyInv
    <2> QED BY <2>1, <2>2, <2>3 DEF FlyInv
<1>8. CASE Release
    BY <1>1, <1>8 DEF Release, Idle, store
<1>9. CASE Crash
    <2>1. up' = FALSE /\ stage' = "idle" /\ lines' = lines /\ failed' = failed
        BY <1>9 DEF Crash, Idle
    <2> QED BY <2>1 DEF FlyInv
<1>10. CASE Boot
    <2>1. ToSet(corpus)' = corpusDir' /\ Len(corpus)' = Cardinality(corpusDir)'
        BY <1>10, BootBase
    <2>2. ~up /\ ratchet' = Loaded(lines) /\ stage' = stage /\ lines' = lines /\ failed' = failed
        BY <1>10 DEF Boot
    <2>3. stage' # "record"
        BY <2>2 DEF Base
    <2>4. ASSUME ~failed'
          PROVE  lines' \in Seq(1 .. MaxRuns) /\ ratchet' = lines'
        <3>1. lines \in Seq(1 .. MaxRuns)
            BY <2>2, <2>4 DEF FlyInv
        <3>2. lines \in Seq(Nat \ {0})
            <4>1. 1 .. MaxRuns \subseteq Nat \ {0}
                BY DEF HarnessAssumptions
            <4> QED BY <3>1, <4>1, SeqMonotonic
        <3> QED BY <2>2, <3>1, <3>2, LoadedWhole
    <2> QED BY <2>1, <2>3, <2>4 DEF FlyInv
<1> QED BY <1>2, <1>3, <1>4, <1>5, <1>6, <1>7, <1>8, <1>9, <1>10

(***************************************************************************)
(* A run counts as caught only what a block kept in, or what the capture   *)
(* does not show, and a capture shows all that left.                       *)
(***************************************************************************)
LEMMA ScoreIsHonest ==
    ASSUME Base, ScoreRun, NEW i \in caught', fate[i].leaked
    PROVE  answer[i] = "bad" /\ i \notin reported
<1>1. caught' = {j \in Requests : Verified(j) /\ ~SeenRaw(j)}
    BY DEF ScoreRun
<1>2. i \in Requests /\ Verified(i) /\ ~SeenRaw(i)
    BY <1>1
<1>3. answer[i] # "error" /\ ActionOf(i) = "block"
    BY <1>2 DEF Verified, SeenRaw
<1>4. ASSUME fate[i] # NoFate
      PROVE  fate[i].action # "block" /\ fate[i].answer # "blocked"
    <2>1. fate[i] \in Fates
        BY <1>2, <1>4 DEF Base, TypeOK
    <2>2. fate[i].action = "block" \/ fate[i].answer = "blocked" => ~fate[i].leaked
        BY <2>1, FatesAre, Zenon DEF FateOK
    <2> QED BY <2>2
<1>5. i \notin reported
    <2>1. ASSUME i \in reported
          PROVE  FALSE
        <3>1. ActionOf(i) = fate[i].action /\ fate[i] # NoFate
            BY <1>3, <2>1 DEF ActionOf, Joined, Base
        <3> QED BY <1>3, <1>4, <3>1
    <2> QED BY <2>1
<1>6. answer[i] \in {"blocked", "bad"}
    <2>1. ActionOf(i) = IF answer[i] \in {"blocked", "bad"} THEN "block" ELSE ""
        BY <1>5 DEF ActionOf, Joined
    <2> QED BY <1>3, <2>1
<1>7. answer[i] # "blocked"
    <2>1. ASSUME answer[i] = "blocked"
          PROVE  FALSE
        <3>1. fate[i] # NoFate /\ fate[i].answer = "blocked"
            BY <1>2, <2>1 DEF Base, Heard
        <3> QED BY <1>4, <3>1
    <2> QED BY <2>1
<1> QED BY <1>5, <1>6, <1>7
-----------------------------------------------------------------------------
\* What a step of the score may count as caught.
CaughtStep ==
    stage = "join" /\ stage' = "promote" =>
        \A i \in caught' : fate[i].leaked => answer[i] = "bad" /\ i \notin reported

(***************************************************************************)
(* Every step keeps the invariant.                                         *)
(***************************************************************************)
LEMMA Step ==
    ASSUME HarnessAssumptions, IInv, [Next]_vars
    PROVE  IInv' /\ CaughtStep
<1> DEFINE Requesting == \E i \in Requests : \/ SendOne(i) \/ GatewayHandles(i) \/ ReportArrives(i)
                                            \/ Answered(i) \/ RequestFails(i)
<1>1. Base /\ CountInv /\ FlyInv
    BY DEF IInv
<1>2. \/ StartRun \/ AllAnswered \/ ScoreRun \/ Promote \/ Promoted \/ AppendRatchet
      \/ Record \/ Release \/ Crash \/ Boot \/ Requesting \/ UNCHANGED vars
    BY DEF Next, RunStep
<1>3. CASE UNCHANGED vars
    <2>1. /\ up' = up /\ running' = running /\ runs' = runs /\ started' = started
          /\ stage' = stage /\ item' = item /\ answer' = answer /\ fate' = fate
          /\ reported' = reported /\ results' = results /\ caught' = caught /\ at' = at
          /\ corpus' = corpus /\ corpusDir' = corpusDir /\ ratchet' = ratchet
          /\ lines' = lines /\ failed' = failed
        BY <1>3 DEF vars, process, sending, scored, store
    <2>2. Base'
        BY <1>1, <2>1 DEF Base, TypeOK, Sending
    <2>3. CountInv'
        <3>1. /\ CountOf("mask")' = CountOf("mask") /\ CountOf("detect")' = CountOf("detect")
              /\ CountOf("pass")' = CountOf("pass")
            BY <2>1, SameCounts
        <3>2. Over' = Over /\ \A a : Got(a)' = Got(a)
            BY <2>1 DEF Over, Got
        <3> QED BY <1>1, <2>1, <3>1, <3>2
                DEF CountInv, Sending, CountsAnswers, CountsScores, NoneScored, DoneRun, Outcomes
    <2>4. FlyInv'
        BY <1>1, <2>1 DEF FlyInv
    <2>5. CaughtStep
        BY <2>1 DEF CaughtStep
    <2> QED BY <2>2, <2>3, <2>4, <2>5 DEF IInv
<1>4. CASE Requesting
    <2>1. Base'
        BY <1>1, <1>4, SendingBase, CompletedBase
    <2>2. CountInv'
        BY <1>1, <1>4, CountsWhileSending
    <2>3. FlyInv'
        BY <1>1, <1>4, FlyStep
    <2>4. stage' = stage
        BY <1>4 DEF SendOne, GatewayHandles, ReportArrives, Answered, RequestFails, Completed
    <2>5. CaughtStep
        BY <2>4 DEF CaughtStep
    <2> QED BY <2>1, <2>2, <2>3, <2>5 DEF IInv
<1>5. CASE StartRun \/ AllAnswered
    <2>1. Base'
        BY <1>1, <1>5, StartRunBase, ScoringBase
    <2>2. CountInv'
        BY <1>1, <1>5, CountsWhileSending
    <2>3. FlyInv'
        BY <1>1, <1>5, FlyStep
    <2>4. stage' # "promote"
        BY <1>5 DEF StartRun, AllAnswered
    <2>5. CaughtStep
        BY <2>4 DEF CaughtStep
    <2> QED BY <2>1, <2>2, <2>3, <2>5 DEF IInv
<1>6. CASE ScoreRun
    <2>1. Base'
        BY <1>1, <1>6, ScoringBase
    <2>2. CountInv'
        BY <1>1, <1>6, CountsOnceScored
    <2>3. FlyInv'
        BY <1>1, <1>6, FlyStep
    <2>5. CaughtStep
        BY <1>1, <1>6, ScoreIsHonest DEF CaughtStep
    <2> QED BY <2>1, <2>2, <2>3, <2>5 DEF IInv
<1>7. CASE Promote \/ Promoted \/ AppendRatchet \/ Record
    <2>1. Base'
        BY <1>1, <1>7, ScoringBase, PromoteBase, AppendBase, RecordBase
    <2>2. CountInv'
        BY <1>1, <1>7, CountsOnceScored
    <2>3. FlyInv'
        BY <1>1, <1>7, FlyStep
    <2>4. stage # "join"
        BY <1>7 DEF Promote, Promoted, AppendRatchet, Record
    <2>5. CaughtStep
        BY <2>4 DEF CaughtStep
    <2> QED BY <2>1, <2>2, <2>3, <2>5 DEF IInv
<1>8. CASE Release
    <2>1. /\ Idle /\ up' = up /\ runs' = runs /\ started' = started
          /\ corpus' = corpus /\ corpusDir' = corpusDir /\ ratchet' = ratchet
          /\ lines' = lines /\ failed' = failed
        BY <1>8 DEF Release, store
    <2>2. Base'
        BY <1>1, <2>1, IdleBase DEF Base, TypeOK
    <2>3. CountInv'
        BY <1>1, <1>8, CountsOnceScored
    <2>4. FlyInv'
        BY <1>1, <1>8, FlyStep
    <2>5. CaughtStep
        BY <2>1 DEF CaughtStep, Idle
    <2> QED BY <2>2, <2>3, <2>4, <2>5 DEF IInv
<1>9. CASE Crash
    <2>1. /\ Idle /\ up' = FALSE /\ runs' = <<>> /\ corpus' = <<>> /\ ratchet' = <<>>
          /\ started' = started /\ corpusDir' = corpusDir /\ lines' = lines /\ failed' = failed
        BY <1>9 DEF Crash
    <2>2. runs' \in Seq(RunRecs) /\ corpus' \in Seq(Texts) /\ ratchet' \in Seq(1 .. MaxRuns)
        BY <2>1, EmptySeq
    <2>3. Len(runs') = 0 /\ Len(runs') <= MaxStoredRuns /\ up' \in BOOLEAN
        <3>1. Len(runs') = 0
            BY <2>1
        <3>2. up' \in BOOLEAN
            BY <2>1
        <3> QED BY <3>1, <3>2 DEF HarnessAssumptions
    <2>4. Base'
        BY <1>1, <2>1, <2>2, <2>3, IdleBase
    <2>5. stage' = "idle"
        BY <2>1 DEF Idle
    <2>6. CountInv'
        BY <2>3, <2>5 DEF CountInv, Sending
    <2>7. FlyInv'
        BY <1>1, <1>9, FlyStep
    <2>8. CaughtStep
        BY <2>5 DEF CaughtStep
    <2> QED BY <2>4, <2>6, <2>7, <2>8 DEF IInv
<1>10. CASE Boot
    <2>1. Base'
        BY <1>1, <1>10, BootBase
    <2>2. /\ ~up /\ runs' = runs /\ stage' = stage
        BY <1>10 DEF Boot
    <2>3. stage = "idle"
        BY <1>1, <2>2 DEF Base
    <2>4. \A k \in 1 .. Len(runs) : DoneRun(runs[k])
        BY <1>1, <2>3 DEF CountInv
    <2>5. \A k \in 1 .. Len(runs') : DoneRun(runs[k])'
        BY <2>2, <2>4 DEF DoneRun, Outcomes
    <2>6. CountInv'
        BY <2>2, <2>3, <2>5 DEF CountInv, Sending
    <2>7. FlyInv'
        BY <1>1, <1>10, FlyStep
    <2>8. CaughtStep
        BY <2>2 DEF CaughtStep
    <2> QED BY <2>1, <2>6, <2>7, <2>8 DEF IInv
<1> QED BY <1>2, <1>3, <1>4, <1>5, <1>6, <1>7, <1>8, <1>9, <1>10

(***************************************************************************)
(* The invariant holds of a new control plane.                             *)
(***************************************************************************)
LEMMA Starts ==
    ASSUME HarnessAssumptions, Init
    PROVE  IInv
<1>1. Base
    BY BaseInit
<1>2. runs = <<>> /\ stage = "idle" /\ ~failed
    BY DEF Init
<1>3. CountInv
    <2>1. Len(runs) = 0
        BY <1>2
    <2> QED BY <1>2, <2>1 DEF CountInv, Sending
<1>4. corpus = <<>> /\ corpusDir = {} /\ ratchet = <<>> /\ lines = <<>>
    BY DEF Init
<1>5. ToSet(corpus) = corpusDir /\ Len(corpus) = Cardinality(corpusDir)
    <2>1. Cardinality({}) = 0
        BY FS_EmptySet
    <2>2. DOMAIN <<>> = {}
        OBVIOUS
    <2>3. ToSet(<<>>) = {}
        BY <2>2 DEF ToSet
    <2> QED BY <1>4, <2>1, <2>3
<1>6. lines \in Seq(1 .. MaxRuns)
    BY <1>4, EmptySeq
<1>7. FlyInv
    BY <1>2, <1>4, <1>5, <1>6 DEF FlyInv
<1> QED BY <1>1, <1>3, <1>7 DEF IInv

(***************************************************************************)
(* The invariant holds in every state of a behaviour, and every step is    *)
(* honest.                                                                 *)
(***************************************************************************)
LEMMA Always ==
    ASSUME HarnessAssumptions
    PROVE  Spec => []IInv /\ [][CaughtStep]_vars
<1>1. Init => IInv
    BY Starts
<1>2. IInv /\ [Next]_vars => IInv' /\ CaughtStep
    BY Step
<1> QED BY <1>1, <1>2, PTL DEF Spec
-----------------------------------------------------------------------------
(***************************************************************************)
(* The variables have their types (Runner, and the files it keeps).        *)
(***************************************************************************)
THEOREM TypeCorrect == Spec => []TypeOK
<1>1. IInv => TypeOK
    BY DEF IInv, Base
<1> QED BY <1>1, Always, HarnessAssumptions, PTL

(***************************************************************************)
(* RunsAddUp: no run counts a request twice, though execute counts the     *)
(* errors and blocks as answers come and the rest from joined reports.     *)
(***************************************************************************)
THEOREM RunsAreAdded == Spec => []RunsAddUp
<1>1. ASSUME IInv
      PROVE  RunsAddUp
    <2> SUFFICES ASSUME NEW k \in 1 .. Len(runs)
                 PROVE  /\ Outcomes(runs[k]) <= runs[k].completed /\ runs[k].completed <= Total
                        /\ IF runs[k].status = "done" THEN runs[k].completed = Total
                           ELSE k = Len(runs) /\ running
        BY DEF RunsAddUp
    <2>1. Total \in Nat /\ "running" # "done"
        BY HarnessAssumptions DEF HarnessAssumptions
    <2>2. /\ Base /\ CountInv
          /\ runs \in Seq(RunRecs)
          /\ runs[k] \in RunRecs
        BY <1>1 DEF IInv, Base
    <2>3. CASE k # Len(runs) \/ stage \in {"idle", "release"}
        <3>1. DoneRun(runs[k])
            BY <2>2, <2>3 DEF CountInv
        <3> QED BY <2>1, <3>1 DEF DoneRun
    <2>4. CASE k = Len(runs) /\ Sending
        <3>1. CountsAnswers(runs[k])
            BY <2>2, <2>4 DEF CountInv
        <3>2. running
            BY <2>2, <2>4 DEF Base, Sending
        <3>3. Cardinality(Over) \in Nat /\ Cardinality(Over) <= Total
            <4>1. Over \subseteq Requests
                BY DEF Over
            <4> QED BY <4>1, RequestsAreTotal, HarnessAssumptions
        <3>4. Cardinality(Got("error")) + Cardinality(Got("blocked")) <= Cardinality(Over)
            BY AnswersAreApart, HarnessAssumptions
        <3>5. /\ Cardinality(Got("error")) \in Nat /\ Cardinality(Got("blocked")) \in Nat
            <4>1. Got("error") \subseteq Requests /\ Got("blocked") \subseteq Requests
                BY DEF Got
            <4> QED BY <4>1, RequestsAreTotal, HarnessAssumptions
        <3> QED BY <2>1, <2>4, <3>1, <3>2, <3>3, <3>4, <3>5 DEF CountsAnswers, NoneScored, Outcomes
    <2>5. CASE k = Len(runs) /\ stage \in {"promote", "append", "record"}
        <3>1. CountsScores(runs[k])
            BY <2>2, <2>5 DEF CountInv
        <3>2. running
            BY <2>2, <2>5 DEF Base
        <3>3. CountOf("mask") \in Nat /\ CountOf("detect") \in Nat /\ CountOf("pass") \in Nat
            BY CountsAreNat, HarnessAssumptions
        <3>4. runs[k].errors \in Nat /\ runs[k].blocked \in Nat
            BY <2>2 DEF RunRecs
        <3> QED BY <2>1, <2>5, <3>1, <3>2, <3>3, <3>4 DEF CountsScores, NoneScored, Outcomes
    <2>6. stage \in Stages
        BY <2>2 DEF Base, TypeOK
    <2> QED BY <2>3, <2>4, <2>5, <2>6 DEF Stages, Sending
<1> QED BY <1>1, Always, HarnessAssumptions, PTL

(***************************************************************************)
(* FlywheelIsDurable: memory and disk agree on the corpus and, unless an   *)
(* append failed, on the ratchet series, over any number of restarts.      *)
(***************************************************************************)
THEOREM RestartLosesNothing == Spec => []FlywheelIsDurable
<1>1. ASSUME IInv
      PROVE  FlywheelIsDurable
    <2>1. FlyInv
        BY <1>1 DEF IInv
    <2>2. ASSUME up, ~failed, stage # "record"
          PROVE  ratchet = Loaded(lines)
        <3>1. lines \in Seq(1 .. MaxRuns) /\ ratchet = lines
            BY <2>1, <2>2 DEF FlyInv
        <3>2. 1 .. MaxRuns \subseteq Nat \ {0}
            BY HarnessAssumptions DEF HarnessAssumptions
        <3>3. lines \in Seq(Nat \ {0})
            BY <3>1, <3>2, SeqMonotonic
        <3> QED BY <3>1, <3>3, LoadedWhole
    <2> QED BY <2>1, <2>2 DEF FlyInv, FlywheelIsDurable
<1> QED BY <1>1, Always, HarnessAssumptions, PTL

(***************************************************************************)
(* CaughtIsCaught: a value that left raw is scored as caught only if its   *)
(* request got a 400 and its report is not there.                          *)
(***************************************************************************)
THEOREM ScoreIsNoBetter == Spec => CaughtIsCaught
<1>1. Spec => [][CaughtStep]_vars
    BY Always, HarnessAssumptions
<1> QED BY <1>1 DEF CaughtIsCaught, CaughtStep
=============================================================================
