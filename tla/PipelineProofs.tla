--------------------------- MODULE PipelineProofs ---------------------------
(***************************************************************************)
(* Proofs about a request, for every text, every number of fields, every   *)
(* chain, every set of claims and every veto: what is masked is exactly    *)
(* what was found, nothing unfiltered is forwarded, and the one report of  *)
(* a request tells what was done.                                          *)
(*                                                                         *)
(* Merge and Mask are folds over sequences. A fold is a function on sets   *)
(* of indices that is chosen by its equation; that such a function exists  *)
(* is proved by induction, and from then on the loop of the code is        *)
(* reasoned about turn by turn.                                            *)
(*                                                                         *)
(* Then the relay: that reading a stream piece by piece implements         *)
(* Pipeline's one step, and that however the pieces are cut what is        *)
(* counted are the usages of whole lines.                                  *)
(***************************************************************************)
EXTENDS StreamRelay, FiniteSetTheorems, SequenceTheorems, WellFoundedInduction, TLAPS
-----------------------------------------------------------------------------
(***************************************************************************)
(* Induction over the naturals, of a set instead of an operator: a         *)
(* counterexample would be a least one.                                    *)
(***************************************************************************)
LEMMA NatInd ==
    ASSUME NEW S \in SUBSET Nat, 0 \in S, \A n \in S : n + 1 \in S
    PROVE  S = Nat
<1> DEFINE T == Nat \ S
<1> SUFFICES ASSUME T # {} PROVE FALSE
  OBVIOUS
<1> DEFINE R == OpToRel(<, Nat)
<1>0. R = {ss \in Nat \X Nat : ss[1] < ss[2]}
  BY DEF OpToRel
<1>1. IsWellFoundedOn(R, Nat)
  BY NatLessThanWellFounded
<1>2. T \subseteq Nat
  OBVIOUS
<1> HIDE DEF R
<1>3. PICK x \in T : \A y \in T : ~ (<<y, x>> \in R)
  BY <1>1, <1>2, WFMin
<1>4. x # 0 /\ x - 1 \in Nat
  BY <1>3
<1>5. <<x-1, x>> \in R
  BY <1>4, <1>0, <1>2
<1>6. x - 1 \in S
  BY <1>5, <1>3, <1>4
<1> QED
  BY <1>6, <1>3

\* FoldLeft's function, on the sets of indices up to n.
IsFold(g, s, n) ==
    g = [I \in SUBSET (1 .. n) |->
            IF I = {} THEN <<>>
            ELSE LET x == Max(I) IN Absorb(g[I \ {x}], s[x])]

(***************************************************************************)
(* The greatest of a set to which an index above all of it is added.       *)
(***************************************************************************)
LEMMA MaxOf ==
    ASSUME NEW n \in Nat, NEW I \in SUBSET (1 .. n)
    PROVE  Max(I \cup {n + 1}) = n + 1
<1> DEFINE J == I \cup {n + 1}
<1>1. n + 1 \in J /\ \A y \in J : n + 1 >= y
  OBVIOUS
<1>2. \A x \in J : (\A y \in J : x >= y) => x = n + 1
  OBVIOUS
<1> HIDE DEF J
<1>3. Max(J) = n + 1
  BY <1>1, <1>2, Zenon DEF Max
<1> QED BY <1>3 DEF J

(***************************************************************************)
(* The function FoldLeft chooses exists, on the sets of indices up to any  *)
(* n.                                                                      *)
(***************************************************************************)
LEMMA FoldExists == \A s : \A n \in Nat : \E g : IsFold(g, s, n)
<1> SUFFICES ASSUME NEW s PROVE \A n \in Nat : \E g : IsFold(g, s, n)
  OBVIOUS
<1> DEFINE S == {n \in Nat : \E g : IsFold(g, s, n)}
<1>1. 0 \in S
  <2> DEFINE h == [I \in SUBSET (1 .. 0) |-> <<>>]
  <2>1. \A I \in SUBSET (1 .. 0) : I = {}
    OBVIOUS
  <2>2. h = [I \in SUBSET (1 .. 0) |->
                IF I = {} THEN <<>> ELSE LET x == Max(I) IN Absorb(h[I \ {x}], s[x])]
    BY <2>1
  <2> QED BY <2>2 DEF IsFold
<1>2. ASSUME NEW n \in S PROVE n + 1 \in S
  <2>1. PICK g : IsFold(g, s, n)
    OBVIOUS
  <2> DEFINE h == [I \in SUBSET (1 .. n + 1) |->
                     IF n + 1 \in I THEN Absorb(g[I \ {n + 1}], s[n + 1]) ELSE g[I]]
  <2>2. SUFFICES ASSUME NEW I \in SUBSET (1 .. n + 1)
                 PROVE  h[I] = IF I = {} THEN <<>>
                               ELSE LET x == Max(I) IN Absorb(h[I \ {x}], s[x])
    <3> HIDE DEF h
    <3>1. ASSUME \A I \in SUBSET (1 .. n + 1) :
                    h[I] = IF I = {} THEN <<>>
                               ELSE LET x == Max(I) IN Absorb(h[I \ {x}], s[x])
          PROVE  h = [I \in SUBSET (1 .. n + 1) |->
                    IF I = {} THEN <<>>
                               ELSE LET x == Max(I) IN Absorb(h[I \ {x}], s[x])]
       BY <3>1 DEF h
    <3>2. n + 1 \in Nat OBVIOUS
    <3> QED BY <3>1, <3>2, Zenon DEF IsFold
  <2>3. CASE n + 1 \in I
    <3>1. I \ {n + 1} \in SUBSET (1 .. n)
      OBVIOUS
    <3>2. Max(I) = n + 1
      <4>1. I = (I \ {n + 1}) \cup {n + 1}
        BY <2>3
      <4> QED BY <3>1, <4>1, MaxOf
    <3>3. h[I \ {n + 1}] = g[I \ {n + 1}]
      BY <3>1
    <3> QED BY <2>3, <3>2, <3>3
  <2>4. CASE n + 1 \notin I
    <3>1. I \in SUBSET (1 .. n)
      BY <2>4
    <3>2. h[I] = g[I]
      BY <2>4
    <3>3. g[I] = IF I = {} THEN <<>> ELSE LET x == Max(I) IN Absorb(g[I \ {x}], s[x])
      BY <2>1, <3>1 DEF IsFold
    <3>4. \A x : h[I \ {x}] = g[I \ {x}]
      BY <3>1, <2>4
    <3> QED BY <3>2, <3>3, <3>4
  <2> QED BY <2>3, <2>4
<1> QED
  <2>1. S = Nat BY <1>1, <1>2, NatInd
  <2> QED BY <2>1

(***************************************************************************)
(* Merge is that function on the set of all indices: a recursive           *)
(* definition to reason about.                                             *)
(***************************************************************************)
LEMMA MergeIsFold ==
    ASSUME NEW X, NEW s \in Seq(X)
    PROVE  \E g : IsFold(g, s, Len(s)) /\ Merge(s) = g[1 .. Len(s)]
<1>0. Len(s) \in Nat /\ DOMAIN s = 1 .. Len(s)
  OBVIOUS
<1> DEFINE f == CHOOSE g : g = [I \in SUBSET (DOMAIN s) |->
            IF I = {} THEN <<>>
            ELSE LET x == Max(I) IN Absorb(g[I \ {x}], s[x])]
<1>1. \E g : g = [I \in SUBSET (DOMAIN s) |->
            IF I = {} THEN <<>>
            ELSE LET x == Max(I) IN Absorb(g[I \ {x}], s[x])]
  <2>1. PICK g : IsFold(g, s, Len(s))
    BY <1>0, FoldExists
  <2>2. g = [I \in SUBSET (DOMAIN s) |->
            IF I = {} THEN <<>>
            ELSE LET x == Max(I) IN Absorb(g[I \ {x}], s[x])]
    BY <2>1, <1>0, Zenon DEF IsFold
  <2> QED
    BY <2>2, Zenon
<1>2. f = [I \in SUBSET (DOMAIN s) |->
            IF I = {} THEN <<>>
            ELSE LET x == Max(I) IN Absorb(f[I \ {x}], s[x])]
  BY <1>1, Zenon
<1>3. Merge(s) = f[DOMAIN s]
  BY Zenon DEF Merge, FoldLeft, MapThenFoldSet
<1>4. IsFold(f, s, Len(s))
  BY <1>0, <1>2, Zenon DEF IsFold
<1> QED
  BY <1>0, <1>3, <1>4, Zenon

(***************************************************************************)
(* The least of a set of last indices to which the one before them is      *)
(* added.                                                                  *)
(***************************************************************************)
LEMMA MinOf ==
    ASSUME NEW n \in Nat, NEW k \in Nat, k < n, NEW I \in SUBSET (n - k + 1 .. n)
    PROVE  Min(I \cup {n - k}) = n - k
<1> DEFINE J == I \cup {n - k}
<1>1. n - k \in J /\ \A y \in J : n - k <= y
  OBVIOUS
<1>2. \A x \in J : (\A y \in J : x <= y) => x = n - k
  OBVIOUS
<1> HIDE DEF J
<1>3. Min(J) = n - k
  BY <1>1, <1>2, Zenon DEF Min
<1> QED BY <1>3 DEF J

\* FoldRight's function, on the sets of the last k indices.
IsUnfold(g, text, s, k) ==
    g = [I \in SUBSET (Len(s) - k + 1 .. Len(s)) |->
            IF I = {} THEN text
            ELSE LET x == Min(I) IN Splice(g[I \ {x}], s[x])]

(***************************************************************************)
(* The function FoldRight chooses exists, on the sets of the last k        *)
(* indices.                                                                *)
(***************************************************************************)
LEMMA UnfoldExists ==
    ASSUME NEW X, NEW s \in Seq(X), NEW text
    PROVE  \A k \in 0 .. Len(s) : \E g : IsUnfold(g, text, s, k)
<1> DEFINE n == Len(s)
<1>0. n \in Nat
  OBVIOUS
<1> HIDE DEF n
<1> DEFINE S == {k \in Nat : k <= n => \E g : IsUnfold(g, text, s, k)}
<1>1. 0 \in S
  <2> DEFINE h == [I \in SUBSET (n + 1 .. n) |-> text]
  <2>1. n + 1 .. n = {} /\ n - 0 + 1 = n + 1
    BY <1>0
  <2>2. h = [I \in SUBSET (n - 0 + 1 .. n) |->
                IF I = {} THEN text ELSE LET x == Min(I) IN Splice(h[I \ {x}], s[x])]
    BY <2>1
  <2> QED BY <2>2 DEF IsUnfold, n
<1>2. ASSUME NEW k \in S PROVE k + 1 \in S
  <2> SUFFICES ASSUME k + 1 <= n PROVE \E g : IsUnfold(g, text, s, k + 1)
    OBVIOUS
  <2>1. PICK g : IsUnfold(g, text, s, k)
    BY <1>0
  <2>a. k \in Nat /\ n - k \in Nat /\ n - (k + 1) + 1 = n - k /\ n - k <= n
    BY <1>0
  <2> DEFINE h == [I \in SUBSET (n - k .. n) |->
                     IF n - k \in I THEN Splice(g[I \ {n - k}], s[n - k]) ELSE g[I]]
  <2>2. SUFFICES ASSUME NEW I \in SUBSET (n - k .. n)
                 PROVE  h[I] = IF I = {} THEN text
                               ELSE LET x == Min(I) IN Splice(h[I \ {x}], s[x])
    <3> HIDE DEF h
    <3>1. ASSUME \A I \in SUBSET (n - k .. n) :
                    h[I] = IF I = {} THEN text
                               ELSE LET x == Min(I) IN Splice(h[I \ {x}], s[x])
          PROVE  h = [I \in SUBSET (n - k .. n) |->
                    IF I = {} THEN text
                               ELSE LET x == Min(I) IN Splice(h[I \ {x}], s[x])]
       BY <3>1 DEF h
    <3> QED BY <3>1, <2>a, Zenon DEF IsUnfold, n
  <2>3. CASE n - k \in I
    <3>1. I \ {n - k} \in SUBSET (n - k + 1 .. n)
      BY <1>0
    <3>2. Min(I) = n - k
      <4>1. I = (I \ {n - k}) \cup {n - k}
        BY <2>3
      <4>2. k < n
        BY <1>0, <2>a
      <4> QED BY <3>1, <4>1, <4>2, <1>0, <2>a, MinOf
    <3>3. h[I \ {n - k}] = g[I \ {n - k}]
      BY <3>1
    <3> QED BY <2>3, <3>2, <3>3
  <2>4. CASE n - k \notin I
    <3>1. I \in SUBSET (n - k + 1 .. n)
      BY <2>4, <1>0
    <3>2. h[I] = g[I]
      BY <2>4
    <3>3. g[I] = IF I = {} THEN text ELSE LET x == Min(I) IN Splice(g[I \ {x}], s[x])
      BY <2>1, <3>1 DEF IsUnfold, n
    <3>4. \A x : h[I \ {x}] = g[I \ {x}]
      BY <3>1, <2>4
    <3> QED BY <3>2, <3>3, <3>4
  <2> QED BY <2>3, <2>4
<1> QED
  <2>1. S = Nat BY <1>1, <1>2, NatInd
  <2> QED BY <2>1 DEF n

(***************************************************************************)
(* Mask is that function on the set of all indices.                        *)
(***************************************************************************)
LEMMA MaskIsUnfold ==
    ASSUME NEW X, NEW s \in Seq(X), NEW text
    PROVE  \E g : IsUnfold(g, text, s, Len(s)) /\ Mask(text, s) = g[1 .. Len(s)]
<1>0. Len(s) \in Nat /\ DOMAIN s = 1 .. Len(s) /\ Len(s) - Len(s) + 1 = 1
  OBVIOUS
<1> DEFINE f == CHOOSE g : g = [I \in SUBSET (DOMAIN s) |->
            IF I = {} THEN text
            ELSE LET x == Min(I) IN Splice(g[I \ {x}], s[x])]
<1>1. \E g : g = [I \in SUBSET (DOMAIN s) |->
            IF I = {} THEN text
            ELSE LET x == Min(I) IN Splice(g[I \ {x}], s[x])]
  <2>1. PICK g : IsUnfold(g, text, s, Len(s))
    <3>1. Len(s) \in 0 .. Len(s)
      BY <1>0
    <3> QED BY <3>1, UnfoldExists
  <2>2. g = [I \in SUBSET (DOMAIN s) |->
            IF I = {} THEN text
            ELSE LET x == Min(I) IN Splice(g[I \ {x}], s[x])]
    BY <2>1, <1>0, Zenon DEF IsUnfold
  <2> QED
    BY <2>2, Zenon
<1>2. f = [I \in SUBSET (DOMAIN s) |->
            IF I = {} THEN text
            ELSE LET x == Min(I) IN Splice(f[I \ {x}], s[x])]
  BY <1>1, Zenon
<1>3. Mask(text, s) = f[DOMAIN s]
  BY Zenon DEF Mask, FoldRight, MapThenFoldSet
<1>4. IsUnfold(f, text, s, Len(s))
  BY <1>0, <1>2, Zenon DEF IsUnfold
<1> QED
  BY <1>0, <1>3, <1>4, Zenon
-----------------------------------------------------------------------------
\* Spans of a text of n bytes, none of them empty.
SpansIn(n) == {sp \in [start : 0 .. n, end : 0 .. n, type : STRING, conf : Nat] :
                    sp.start < sp.end}

Within(a, b) == b.start <= a.start /\ a.end <= b.end

\* In order and without overlap.
Apart(out) == \A i, j \in DOMAIN out : i < j => out[i].end <= out[j].start

\* A merged span is a stretch of claims D that overlap one another, of the type
\* of its most confident one.
Merges(m, D) ==
    /\ \E d \in D : m.start = d.start
    /\ \A q \in m.start + 1 .. m.end - 1 : Together(D, q)
    /\ \E d \in D : Within(d, m) /\ d.type = m.type /\ d.conf = m.conf
    /\ \A d \in D : Within(d, m) => d.conf <= m.conf

\* out is what Merge has made of the claims D so far.
MergeInv(out, D, n) ==
    /\ out \in Seq(SpansIn(n))
    /\ Apart(out)
    /\ \A d \in D : \E i \in DOMAIN out : Within(d, out[i])
    /\ \A i \in DOMAIN out : Merges(out[i], D)

(***************************************************************************)
(* One turn of Merge's loop, a span that begins where the last one ends or *)
(* behind it.                                                              *)
(***************************************************************************)
LEMMA AppendKeeps ==
    ASSUME NEW n \in Nat, NEW out, NEW D \in SUBSET SpansIn(n), NEW sp \in SpansIn(n),
           MergeInv(out, D, n), \A d \in D : d.start <= sp.start,
           out = <<>> \/ sp.start >= out[Len(out)].end
    PROVE  MergeInv(Append(out, sp), D \cup {sp}, n)
<1> DEFINE new == Append(out, sp)
<1>1. /\ out \in Seq(SpansIn(n)) /\ Len(out) \in Nat /\ DOMAIN out = 1 .. Len(out)
      /\ new \in Seq(SpansIn(n)) /\ Len(new) = Len(out) + 1 /\ DOMAIN new = 1 .. Len(new)
      /\ \A i \in DOMAIN out : new[i] = out[i] /\ out[i] \in SpansIn(n)
      /\ new[Len(new)] = sp
  BY DEF MergeInv
<1> HIDE DEF new
<1>2. \A i \in DOMAIN out : out[i].end <= sp.start
  <2> SUFFICES ASSUME NEW i \in DOMAIN out PROVE out[i].end <= sp.start
    OBVIOUS
  <2>1. Len(out) \in DOMAIN out /\ sp.start >= out[Len(out)].end
    BY <1>1
  <2>2. i = Len(out) \/ out[i].end <= out[Len(out)].start
    BY <1>1, <2>1 DEF MergeInv, Apart
  <2>3. out[Len(out)].start < out[Len(out)].end
    BY <1>1, <2>1 DEF SpansIn
  <2>4. out[i] \in SpansIn(n) /\ out[Len(out)] \in SpansIn(n)
    BY <1>1, <2>1
  <2> QED
    BY <2>1, <2>2, <2>3, <2>4 DEF SpansIn
<1>3. Apart(new)
  BY <1>1, <1>2 DEF Apart, MergeInv
<1>4. \A d \in D \cup {sp} : \E i \in DOMAIN new : Within(d, new[i])
  <2>1. ASSUME NEW d \in D PROVE \E i \in DOMAIN new : Within(d, new[i])
    BY <1>1 DEF MergeInv
  <2>2. \E i \in DOMAIN new : Within(sp, new[i])
    <3>1. Len(new) \in DOMAIN new /\ new[Len(new)] = sp
      BY <1>1
    <3>2. Within(sp, sp)
      BY DEF Within, SpansIn
    <3> QED BY <3>1, <3>2
  <2> QED BY <2>1, <2>2
<1>5. ASSUME NEW i \in DOMAIN out PROVE Merges(out[i], D \cup {sp})
  <2>1. Merges(out[i], D)
    BY <1>5 DEF MergeInv
  <2>2. ~Within(sp, out[i])
    BY <1>1, <1>2 DEF Within, SpansIn
  <2> QED
    BY <2>1, <2>2 DEF Merges, Together
<1>6. Merges(sp, D \cup {sp})
  <2>1. \A q \in sp.start + 1 .. sp.end - 1 : Covers(sp, q) /\ Covers(sp, q + 1)
    BY DEF Covers, SpansIn
  <2>2. \A d \in D : ~Within(d, sp)
    <3> SUFFICES ASSUME NEW d \in D, Within(d, sp) PROVE FALSE
      OBVIOUS
    <3>1. PICK i \in DOMAIN out : Within(d, out[i])
      BY DEF MergeInv
    <3> QED
      BY <1>1, <1>2, <3>1 DEF Within, SpansIn
  <2>3. Within(sp, sp)
    BY DEF Within, SpansIn
  <2> QED
    BY <2>1, <2>2, <2>3 DEF Merges, Together, SpansIn
<1>7. ASSUME NEW i \in DOMAIN new PROVE Merges(new[i], D \cup {sp})
  <2>1. i \in DOMAIN out \/ i = Len(new)
    BY <1>1
  <2>2. CASE i \in DOMAIN out
    BY <2>2, <1>1, <1>5
  <2>3. CASE i = Len(new)
    BY <2>3, <1>1, <1>6
  <2> QED
    BY <2>1, <2>2, <2>3
<1> QED
  BY <1>1, <1>3, <1>4, <1>7 DEF MergeInv, new

(***************************************************************************)
(* Two spans that overlap, joined: the union of both, of the type of the   *)
(* more confident.                                                         *)
(***************************************************************************)
LEMMA JoinedIs ==
    ASSUME NEW n \in Nat, NEW a \in SpansIn(n), NEW b \in SpansIn(n),
           a.start <= b.start, b.start < a.end
    PROVE  LET j == Joined(a, b) IN
           /\ j \in SpansIn(n)
           /\ j.start = a.start
           /\ j.end = IF b.end > a.end THEN b.end ELSE a.end
           /\ j.conf >= a.conf /\ j.conf >= b.conf
           /\ \/ j.type = a.type /\ j.conf = a.conf
              \/ j.type = b.type /\ j.conf = b.conf
<1> DEFINE wider == IF b.end > a.end THEN b.end ELSE a.end
           SpansHere == [start : 0 .. n, end : 0 .. n, type : STRING, conf : Nat]
<1>1. a \in SpansHere /\ b \in SpansHere /\ a.start < a.end /\ b.start < b.end
  BY DEF SpansIn
<1>2. a.start \in 0 .. n /\ wider \in 0 .. n /\ a.start < wider
  BY <1>1
<1>3. ASSUME NEW c \in SpansHere, NEW k, k = [c EXCEPT !.start = a.start, !.end = wider]
      PROVE  /\ k \in SpansIn(n) /\ k.start = a.start /\ k.end = wider
             /\ k.type = c.type /\ k.conf = c.conf
  BY <1>2, <1>3 DEF SpansIn
<1>4. a.conf \in Nat /\ b.conf \in Nat
  BY <1>1
<1> DEFINE j == Joined(a, b)
           c == IF b.conf > a.conf THEN b ELSE a
<1>5. j = [c EXCEPT !.start = a.start, !.end = wider]
  BY DEF Joined
<1> HIDE DEF j, wider, SpansHere
<1>6. /\ j \in SpansIn(n) /\ j.start = a.start /\ j.end = wider
      /\ j.type = (IF b.conf > a.conf THEN b ELSE a).type
      /\ j.conf = (IF b.conf > a.conf THEN b ELSE a).conf
  <2>1. c \in SpansHere
    BY <1>1
  <2> HIDE DEF c
  <2>2. /\ j \in SpansIn(n) /\ j.start = a.start /\ j.end = wider
        /\ j.type = c.type /\ j.conf = c.conf
    BY <2>1, <1>3, <1>5
  <2> QED BY <2>2 DEF c
<1>7. /\ j.conf >= a.conf /\ j.conf >= b.conf
      /\ \/ j.type = a.type /\ j.conf = a.conf
         \/ j.type = b.type /\ j.conf = b.conf
  BY <1>4, <1>6
<1> QED
  BY <1>6, <1>7 DEF j, wider

(***************************************************************************)
(* One turn of Merge's loop, a span that begins within the last one.       *)
(***************************************************************************)
LEMMA JoinKeeps ==
    ASSUME NEW n \in Nat, NEW out, NEW D \in SUBSET SpansIn(n), NEW sp \in SpansIn(n),
           MergeInv(out, D, n), \A d \in D : d.start <= sp.start,
           out # <<>>, sp.start < out[Len(out)].end
    PROVE  MergeInv([out EXCEPT ![Len(out)] = Joined(@, sp)], D \cup {sp}, n)
<1> DEFINE last == out[Len(out)]
           j == Joined(last, sp)
           new == [out EXCEPT ![Len(out)] = Joined(@, sp)]
<1>1. /\ out \in Seq(SpansIn(n)) /\ Len(out) \in Nat \ {0} /\ DOMAIN out = 1 .. Len(out)
      /\ \A i \in DOMAIN out : out[i] \in SpansIn(n)
      /\ Len(out) \in DOMAIN out
  BY DEF MergeInv
<1>2. last \in SpansIn(n) /\ last.start <= sp.start
  <2>1. \A i \in DOMAIN out : \E d \in D : out[i].start = d.start
    BY DEF MergeInv, Merges
  <2> QED
    BY <1>1, <2>1
<1>3. /\ j \in SpansIn(n)
      /\ j.start = last.start
      /\ j.end = IF sp.end > last.end THEN sp.end ELSE last.end
      /\ j.conf >= last.conf /\ j.conf >= sp.conf
      /\ \/ j.type = last.type /\ j.conf = last.conf
         \/ j.type = sp.type /\ j.conf = sp.conf
  BY <1>2, JoinedIs
<1>4. /\ new \in Seq(SpansIn(n)) /\ Len(new) = Len(out) /\ DOMAIN new = DOMAIN out
      /\ \A i \in DOMAIN out : i # Len(out) => new[i] = out[i]
      /\ new[Len(out)] = j
  BY <1>1, <1>3
<1> HIDE DEF new, j
<1>5. \A i \in DOMAIN out : i # Len(out) => out[i].end <= last.start
  BY <1>1 DEF MergeInv, Apart
<1>6. Apart(new)
  BY <1>1, <1>3, <1>4, <1>5 DEF Apart, MergeInv
<1>7. Within(last, j) /\ Within(sp, j)
  BY <1>2, <1>3 DEF Within, SpansIn
<1>8. \A d \in D \cup {sp} : \E i \in DOMAIN new : Within(d, new[i])
  <2>1. ASSUME NEW d \in D PROVE \E i \in DOMAIN new : Within(d, new[i])
    <3>1. PICK i \in DOMAIN out : Within(d, out[i])
      BY DEF MergeInv
    <3>2. CASE i = Len(out)
      <4>1. Within(d, j)
        BY <3>1, <3>2, <1>7, <1>2, <1>3 DEF Within, SpansIn
      <4> QED BY <4>1, <1>4, <1>1
    <3>3. CASE i # Len(out)
      BY <3>1, <3>3, <1>4
    <3> QED BY <3>2, <3>3
  <2>2. \E i \in DOMAIN new : Within(sp, new[i])
    BY <1>1, <1>4, <1>7
  <2> QED BY <2>1, <2>2
<1>9. ASSUME NEW i \in DOMAIN out, i # Len(out) PROVE Merges(out[i], D \cup {sp})
  <2>1. Merges(out[i], D)
    BY <1>9 DEF MergeInv
  <2>2. ~Within(sp, out[i])
    BY <1>1, <1>2, <1>5, <1>9 DEF Within, SpansIn
  <2> QED
    BY <2>1, <2>2 DEF Merges, Together
<1>10. Merges(j, D \cup {sp})
  <2>0. Merges(last, D)
    BY <1>1 DEF MergeInv
  <2>1. ASSUME NEW q \in j.start + 1 .. j.end - 1 PROVE Together(D \cup {sp}, q)
    <3>1. CASE q < last.end
      <4>1. q \in last.start + 1 .. last.end - 1
        BY <1>2, <1>3, <3>1 DEF SpansIn
      <4> QED
        BY <4>1, <2>0 DEF Merges, Together
    <3>2. CASE q >= last.end
      <4>1. Covers(sp, q) /\ Covers(sp, q + 1)
        BY <1>2, <1>3, <3>2 DEF Covers, SpansIn
      <4> QED
        BY <4>1 DEF Together
    <3> QED
      BY <3>1, <3>2, <1>2, <1>3 DEF SpansIn
  <2>2. \E d \in D \cup {sp} : Within(d, j) /\ d.type = j.type /\ d.conf = j.conf
    <3>1. PICK d \in D : Within(d, last) /\ d.type = last.type /\ d.conf = last.conf
      BY <2>0 DEF Merges
    <3>2. Within(d, j)
      BY <3>1, <1>7, <1>2, <1>3 DEF Within, SpansIn
    <3> QED
      BY <3>1, <3>2, <1>3, <1>7
  <2>3. ASSUME NEW d \in D, Within(d, j) PROVE d.conf <= j.conf
    <3>1. PICK i \in DOMAIN out : Within(d, out[i])
      BY DEF MergeInv
    <3>2. i = Len(out)
      <4> SUFFICES ASSUME i # Len(out) PROVE FALSE
        OBVIOUS
      <4>1. out[i].end <= j.start /\ out[i] \in SpansIn(n)
        BY <1>1, <1>3, <1>5
      <4> QED
        BY <4>1, <3>1, <2>3, <1>3 DEF Within, SpansIn
    <3>3. d.conf <= last.conf
      BY <3>1, <3>2, <2>0 DEF Merges
    <3> QED
      BY <3>3, <1>2, <1>3 DEF SpansIn
  <2>4. \E d \in D \cup {sp} : j.start = d.start
    BY <2>0, <1>3 DEF Merges
  <2> QED
    BY <2>1, <2>2, <2>3, <2>4, <1>3 DEF Merges
<1>11. ASSUME NEW i \in DOMAIN new PROVE Merges(new[i], D \cup {sp})
  BY <1>4, <1>9, <1>10
<1> QED
  BY <1>4, <1>6, <1>8, <1>11 DEF MergeInv, new

(***************************************************************************)
(* What it is to be a sorted sequence of the elements of a set.            *)
(***************************************************************************)
LEMMA SortedSeqIs ==
    ASSUME NEW S, IsFiniteSet(S), NEW s \in SortedSeqs(S)
    PROVE  s \in Seq(S) /\ S = {s[i] : i \in 1 .. Len(s)} /\ Sorted(s)
<1> DEFINE c == Cardinality(S)
<1>1. c \in Nat
  BY FS_CardinalityType
<1>2. s \in [1 .. c -> S] /\ \A i, j \in 1 .. c : i # j => s[i] # s[j]
  BY DEF SortedSeqs, SetToSeqs
<1>3. s \in Seq(S) /\ Len(s) = c
  BY <1>1, <1>2
<1>4. IsFiniteSet(1 .. c) /\ Cardinality(1 .. c) = c
  BY <1>1, FS_Interval
<1>5. s \in Injection(1 .. c, S)
  BY <1>2 DEF Injection, IsInjective
<1>6. s \in Surjection(1 .. c, S)
  BY <1>4, <1>5, FS_Injection
<1>7. S = {s[i] : i \in 1 .. c}
  BY <1>2, <1>6 DEF Surjection
<1> QED
  BY <1>3, <1>7 DEF SortedSeqs

(***************************************************************************)
(* Merge of any sorted sequence of spans: apart, every claim within one of *)
(* them, and each a stretch of claims that overlap. Induction over the     *)
(* turns of the loop.                                                      *)
(***************************************************************************)
LEMMA MergeIs ==
    ASSUME NEW n \in Nat, NEW s \in Seq(SpansIn(n)), Sorted(s)
    PROVE  MergeInv(Merge(s), {s[i] : i \in 1 .. Len(s)}, n)
<1> DEFINE D(k) == {s[i] : i \in 1 .. k}
<1>1. PICK g : IsFold(g, s, Len(s)) /\ Merge(s) = g[1 .. Len(s)]
  BY MergeIsFold
<1>2. Len(s) \in Nat /\ \A i \in 1 .. Len(s) : s[i] \in SpansIn(n)
  OBVIOUS
<1> DEFINE K == {k \in Nat : k <= Len(s) => MergeInv(g[1 .. k], D(k), n)}
<1>3. 0 \in K
  <2>1. g[{}] = <<>>
    BY <1>1 DEF IsFold
  <2>2. 1 .. 0 = {} /\ D(0) = {}
    OBVIOUS
  <2>3. MergeInv(<<>>, {}, n)
    BY DEF MergeInv, Apart
  <2> QED
    BY <2>1, <2>2, <2>3
<1>4. ASSUME NEW k \in K PROVE k + 1 \in K
  <2> SUFFICES ASSUME k + 1 <= Len(s) PROVE MergeInv(g[1 .. k + 1], D(k + 1), n)
    OBVIOUS
  <2>1. k \in Nat /\ k <= Len(s) /\ k + 1 \in 1 .. Len(s) /\ 1 .. k + 1 \in SUBSET (1 .. Len(s))
    BY <1>2
  <2>2. MergeInv(g[1 .. k], D(k), n)
    BY <2>1
  <2>3. g[1 .. k + 1] = Absorb(g[1 .. k], s[k + 1])
    <3>1. (1 .. k) \cup {k + 1} = 1 .. k + 1 /\ (1 .. k + 1) \ {k + 1} = 1 .. k
      BY <2>1
    <3>2. Max(1 .. k + 1) = k + 1
      BY <2>1, <3>1, MaxOf
    <3>3. 1 \in 1 .. k + 1
      BY <2>1
    <3> QED
      BY <1>1, <2>1, <3>1, <3>2, <3>3 DEF IsFold
  <2>4. D(k + 1) = D(k) \cup {s[k + 1]}
    BY <2>1
  <2>5. D(k) \in SUBSET SpansIn(n) /\ s[k + 1] \in SpansIn(n)
    BY <1>2, <2>1
  <2>6. \A d \in D(k) : d.start <= s[k + 1].start
    <3> SUFFICES ASSUME NEW i \in 1 .. k PROVE s[i].start <= s[k + 1].start
      OBVIOUS
    <3>1. i \in 1 .. Len(s) /\ i < k + 1
      BY <2>1
    <3>2. ~Before(s[k + 1], s[i])
      BY <2>1, <3>1 DEF Sorted
    <3>3. s[i] \in SpansIn(n)
      BY <1>2, <3>1
    <3> QED
      BY <3>2, <3>3, <2>5 DEF Before, SpansIn
  <2> DEFINE out == g[1 .. k]
             sp == s[k + 1]
             new == D(k)
  <2> HIDE DEF out, sp, new
  <2>7. MergeInv(out, new, n) /\ new \in SUBSET SpansIn(n) /\ sp \in SpansIn(n)
        /\ \A d \in new : d.start <= sp.start
    BY <2>2, <2>5, <2>6 DEF out, sp, new
  <2>8. MergeInv(Absorb(out, sp), new \cup {sp}, n)
    <3>1. CASE out = <<>> \/ sp.start >= out[Len(out)].end
      BY <2>7, <3>1, AppendKeeps DEF Absorb
    <3>2. CASE ~(out = <<>> \/ sp.start >= out[Len(out)].end)
      <4>1. out # <<>> /\ out \in Seq(SpansIn(n))
        BY <2>7, <3>2 DEF MergeInv
      <4>2. out[Len(out)] \in SpansIn(n)
        BY <4>1
      <4>3. sp.start < out[Len(out)].end
        <5> DEFINE l == out[Len(out)]
        <5>1. ~(sp.start >= l.end) /\ l \in SpansIn(n)
          BY <3>2, <4>2
        <5> HIDE DEF l
        <5>2. sp.start \in Nat /\ l.end \in Nat
          BY <2>7, <5>1 DEF SpansIn
        <5>3. sp.start < l.end
          BY <5>1, <5>2
        <5> QED BY <5>3 DEF l
      <4> QED
        BY <2>7, <3>2, <4>1, <4>3, JoinKeeps DEF Absorb
    <3> QED BY <3>1, <3>2
  <2> QED
    BY <2>3, <2>4, <2>8 DEF out, sp, new
<1> QED
  <2>1. K = Nat
    <3> HIDE DEF K
    <3>1. K \in SUBSET Nat
      BY DEF K
    <3> QED BY <1>3, <1>4, <3>1, NatInd
  <2>2. Len(s) \in K
    <3> HIDE DEF K
    <3> QED BY <1>2, <2>1
  <2> QED BY <2>2, <1>1

(***************************************************************************)
(* The same of a set of claims: it does not matter in which order a sort   *)
(* that is not stable leaves equal ones.                                   *)
(***************************************************************************)
LEMMA MergeOfSet ==
    ASSUME NEW n \in Nat, NEW S \in SUBSET SpansIn(n), IsFiniteSet(S), NEW s \in SortedSeqs(S)
    PROVE  MergeInv(Merge(s), S, n)
<1>1. s \in Seq(S) /\ S = {s[i] : i \in 1 .. Len(s)} /\ Sorted(s)
  BY SortedSeqIs
<1>2. s \in Seq(SpansIn(n))
  BY <1>1
<1> QED BY <1>1, <1>2, MergeIs
-----------------------------------------------------------------------------
\* Positions that masking the spans R leaves: of each span only the first.
LeftOf(text, R) == {p \in 1 .. Len(text) : \A r \in R : ~(r.start + 1 < p /\ p <= r.end)}

\* out is text with the spans R masked, and at says where its elements come from.
Placed(out, text, at, R) ==
    /\ at \in [1 .. Len(out) -> LeftOf(text, R)]
    /\ \A i, j \in 1 .. Len(out) : i < j => at[i] < at[j]
    /\ \A p \in LeftOf(text, R) : \E i \in 1 .. Len(out) : at[i] = p
    /\ \A i \in 1 .. Len(out) :
        /\ \A r \in R : at[i] = r.start + 1 => out[i] = Placeholder(r.type)
        /\ (\A r \in R : at[i] # r.start + 1) => out[i] = text[at[i]]
    /\ \A p \in 1 .. Len(text) : (\A r \in R : p <= r.start) => p <= Len(out) /\ at[p] = p

(***************************************************************************)
(* One splice: what is before the span stays in place, what is behind it   *)
(* moves.                                                                  *)
(***************************************************************************)
LEMMA SpliceIs ==
    ASSUME NEW Y, NEW out \in Seq(Y), NEW sp,
           sp.start \in Nat, sp.end \in Nat, sp.start < sp.end, sp.end <= Len(out),
           Placeholder(sp.type) \in Y
    PROVE  LET new == Splice(out, sp)
               less == sp.end - sp.start - 1
           IN  /\ new \in Seq(Y)
               /\ Len(new) = Len(out) - less
               /\ \A i \in 1 .. Len(new) :
                    /\ i <= sp.start => new[i] = out[i]
                    /\ i = sp.start + 1 => new[i] = Placeholder(sp.type)
                    /\ i > sp.start + 1 => new[i] = out[i + less]
<1> DEFINE a == sp.start
           b == sp.end
           x == Placeholder(sp.type)
           new == Splice(out, sp)
<1>n. new = SubSeq(out, 1, a) \o <<x>> \o SubSeq(out, b + 1, Len(out))
  <2>1. ~(sp.end > Len(out) \/ sp.start >= sp.end)
    OBVIOUS
  <2> QED
    BY <2>1, Zenon DEF Splice
<1>a. a \in Nat /\ b \in Nat /\ a < b /\ b <= Len(out) /\ x \in Y
  OBVIOUS
<1> HIDE DEF a, b, x, new
<1> DEFINE u == SubSeq(out, 1, a)
           v == SubSeq(out, b + 1, Len(out))
<1>0. Len(out) \in Nat
  OBVIOUS
<1>1. u \in Seq(Y) /\ Len(u) = a /\ \A i \in 1 .. a : u[i] = out[i]
  BY <1>0, <1>a
<1>2. v \in Seq(Y) /\ Len(v) = Len(out) - b /\ \A i \in 1 .. Len(out) - b : v[i] = out[b + i]
  BY <1>0, <1>a
<1> HIDE DEF u, v
<1> DEFINE w == u \o <<x>>
<1>3. w \in Seq(Y) /\ Len(w) = a + 1 /\ (\A i \in 1 .. a : w[i] = u[i]) /\ w[a + 1] = x
  BY <1>1, <1>a
<1> HIDE DEF w
<1>4. /\ w \o v \in Seq(Y) /\ Len(w \o v) = Len(w) + Len(v)
      /\ \A i \in 1 .. Len(w) + Len(v) : (w \o v)[i] = IF i <= Len(w) THEN w[i] ELSE v[i - Len(w)]
  BY <1>2, <1>3, ConcatProperties
<1>5. Len(w \o v) = Len(out) - (b - a) + 1
  BY <1>0, <1>2, <1>3, <1>4, <1>a
<1>8. ASSUME NEW i \in 1 .. Len(w \o v)
      PROVE  /\ i <= a => (w \o v)[i] = out[i]
             /\ i = a + 1 => (w \o v)[i] = x
             /\ i > a + 1 => (w \o v)[i] = out[i + (b - a - 1)]
  <2>1. (w \o v)[i] = IF i <= a + 1 THEN w[i] ELSE v[i - (a + 1)]
    BY <1>3, <1>4, <1>8
  <2>2. CASE i <= a
    BY <2>1, <2>2, <1>0, <1>1, <1>3, <1>a
  <2>3. CASE i = a + 1
    BY <2>1, <2>3, <1>0, <1>3, <1>a
  <2>4. CASE i > a + 1
    <3>1. i - (a + 1) \in 1 .. Len(out) - b /\ b + (i - (a + 1)) = i + (b - a - 1)
      BY <2>4, <1>0, <1>5, <1>a, <1>8
    <3>2. v[i - (a + 1)] = out[b + (i - (a + 1))]
      BY <3>1, <1>2
    <3>3. (w \o v)[i] = v[i - (a + 1)]
      BY <2>1, <2>4, <1>0, <1>a
    <3>4. ~(i <= a) /\ i # a + 1
      BY <2>4, <1>0, <1>a
    <3> QED
      BY <3>1, <3>2, <3>3, <3>4
  <2> QED
    BY <2>2, <2>3, <2>4, <1>0, <1>a
<1>9. new = w \o v
  BY <1>n DEF u, v, w
<1>10. Len(new) = Len(out) - (b - a - 1)
  BY <1>5, <1>9, <1>0, <1>a
<1> QED
  BY <1>4, <1>8, <1>9, <1>10 DEF a, b, x, new

(***************************************************************************)
(* A span spliced in front of those spliced before: their placeholders     *)
(* stay right, which is why Mask goes from right to left.                  *)
(***************************************************************************)
LEMMA SpliceKeeps ==
    ASSUME NEW Y, NEW text \in Seq(Y), NEW out \in Seq(Y), NEW at,
           NEW R \in SUBSET SpansIn(Len(text)), NEW sp \in SpansIn(Len(text)),
           Placeholder(sp.type) \in Y,
           Placed(out, text, at, R), \A r \in R : sp.end <= r.start
    PROVE  /\ Splice(out, sp) \in Seq(Y)
           /\ \E new : Placed(Splice(out, sp), text, new, R \cup {sp})
<1> DEFINE L == Len(text)
           a == sp.start
           b == sp.end
           spliced == Splice(out, sp)
           S == R \cup {sp}
<1>0. L \in Nat /\ a \in Nat /\ b \in 0 .. L /\ a < b /\ Len(out) \in Nat
  BY DEF SpansIn
<1>1. \A r \in R : r.start \in Nat /\ r.end \in Nat /\ b <= r.start /\ r.start < r.end
  BY DEF SpansIn
<1>2. \A p \in 1 .. b : p <= Len(out) /\ at[p] = p
  <2> SUFFICES ASSUME NEW p \in 1 .. b PROVE p <= Len(out) /\ at[p] = p
    OBVIOUS
  <2>1. p \in 1 .. Len(text) /\ \A r \in R : p <= r.start
    BY <1>0, <1>1
  <2> QED
    BY <2>1 DEF Placed
<1>3. b <= Len(out)
  BY <1>0, <1>2
<1>4. /\ spliced \in Seq(Y)
      /\ Len(spliced) = Len(out) - (b - a) + 1
      /\ \A i \in 1 .. Len(spliced) :
            spliced[i] = IF i <= a THEN out[i] ELSE IF i = a + 1 THEN Placeholder(sp.type)
                         ELSE out[i + (b - a) - 1]
  <2>1. b \in Nat
    BY <1>0
  <2>2. /\ spliced \in Seq(Y)
        /\ Len(spliced) = Len(out) - (b - a - 1)
        /\ \A i \in 1 .. Len(spliced) :
            /\ i <= a => spliced[i] = out[i]
            /\ i = a + 1 => spliced[i] = Placeholder(sp.type)
            /\ i > a + 1 => spliced[i] = out[i + (b - a - 1)]
    BY <2>1, <1>0, <1>3, SpliceIs
  <2> HIDE DEF L, a, b, spliced
  <2>3. \A i \in 1 .. Len(spliced) : i + (b - a - 1) = i + (b - a) - 1
    BY <1>0, <2>1
  <2>4. Len(out) - (b - a - 1) = Len(out) - (b - a) + 1
    BY <1>0, <2>1
  <2> QED
    BY <2>1, <2>2, <2>3, <2>4, <1>0
<1> DEFINE new == [i \in 1 .. Len(spliced) |-> IF i <= a + 1 THEN i ELSE at[i + (b - a) - 1]]
<1>5. at \in [1 .. Len(out) -> LeftOf(text, R)]
      /\ \A i, j \in 1 .. Len(out) : i < j => at[i] < at[j]
  BY DEF Placed
<1>6. \A i \in 1 .. Len(out) : at[i] \in 1 .. L /\ (i > b => at[i] > b)
  <2> SUFFICES ASSUME NEW i \in 1 .. Len(out) PROVE at[i] \in 1 .. L /\ (i > b => at[i] > b)
    OBVIOUS
  <2>1. at[i] \in 1 .. L
    BY <1>5 DEF LeftOf
  <2>2. i > b => at[b] < at[i] /\ at[b] = b
    BY <1>0, <1>2, <1>3, <1>5
  <2> QED
    BY <1>0, <2>1, <2>2
<1> HIDE DEF L, a, b, spliced
<1>7. ASSUME NEW i \in 1 .. Len(spliced)
      PROVE  /\ i <= a + 1 => new[i] = i /\ i \in 1 .. b
             /\ i > a + 1 => /\ i + (b - a) - 1 \in 1 .. Len(out)
                             /\ i + (b - a) - 1 > b
                             /\ new[i] = at[i + (b - a) - 1]
                             /\ new[i] > b
  BY <1>0, <1>3, <1>4, <1>6
<1>8. \A i \in 1 .. Len(spliced) : new[i] \in LeftOf(text, S)
  <2> SUFFICES ASSUME NEW i \in 1 .. Len(spliced) PROVE new[i] \in LeftOf(text, S)
    OBVIOUS
  <2>1. CASE i <= a + 1
    BY <2>1, <1>0, <1>1, <1>7 DEF LeftOf, L, a, b
  <2>2. CASE i > a + 1
    <3>1. new[i] \in LeftOf(text, R) /\ new[i] > b
      BY <2>2, <1>5, <1>7
    <3> QED
      BY <3>1, <1>0 DEF LeftOf, a, b
  <2> QED
    BY <2>1, <2>2, <1>0, <1>4
<1>9. \A i, j \in 1 .. Len(spliced) : i < j => new[i] < new[j]
  <2> SUFFICES ASSUME NEW i \in 1 .. Len(spliced), NEW j \in 1 .. Len(spliced), i < j
               PROVE  new[i] < new[j]
    OBVIOUS
  <2> HIDE DEF new
  <2>1. CASE j <= a + 1
    BY <2>1, <1>0, <1>7
  <2>2. CASE i <= a + 1 /\ j > a + 1
    <3> DEFINE k == j + (b - a) - 1
    <3>1. new[i] = i /\ i \in 1 .. b
      BY <2>2, <1>7
    <3>2. k \in 1 .. Len(out) /\ new[j] = at[k] /\ new[j] > b
      BY <2>2, <1>7
    <3> HIDE DEF k
    <3>3. new[j] \in 1 .. L
      BY <3>2, <1>6
    <3> QED
      BY <3>1, <3>2, <3>3, <1>0
  <2>3. CASE i > a + 1
    <3> DEFINE k == i + (b - a) - 1
               l == j + (b - a) - 1
    <3>1. j > a + 1
      BY <2>3, <1>0, <1>4
    <3>2. k \in 1 .. Len(out) /\ new[i] = at[k]
      BY <2>3, <1>7
    <3>3. l \in 1 .. Len(out) /\ new[j] = at[l]
      BY <3>1, <1>7
    <3>4. k < l
      BY <1>0
    <3> HIDE DEF k, l
    <3> QED
      BY <3>2, <3>3, <3>4, <1>5
  <2> QED
    BY <2>1, <2>2, <2>3, <1>0, <1>4
<1>10. \A p \in LeftOf(text, S) : \E i \in 1 .. Len(spliced) : new[i] = p
  <2> SUFFICES ASSUME NEW p \in LeftOf(text, S) PROVE \E i \in 1 .. Len(spliced) : new[i] = p
    OBVIOUS
  <2>1. p \in 1 .. L /\ p \in LeftOf(text, R) /\ (p <= a + 1 \/ p > b)
    BY <1>0 DEF LeftOf, L, a, b
  <2>2. CASE p <= a + 1
    <3>1. p \in 1 .. Len(spliced)
      BY <1>0, <1>3, <1>4, <2>1, <2>2
    <3> QED
      BY <3>1, <2>2, <1>7
  <2>3. CASE p > b
    <3>1. PICK i \in 1 .. Len(out) : at[i] = p
      BY <2>1 DEF Placed
    <3>2. i > b
      BY <3>1, <2>3, <1>0, <1>2
    <3>3. i - (b - a) + 1 \in 1 .. Len(spliced) /\ i - (b - a) + 1 > a + 1
          /\ (i - (b - a) + 1) + (b - a) - 1 = i
      BY <3>2, <1>0, <1>3, <1>4
    <3>4. new[i - (b - a) + 1] = p
      BY <3>1, <3>3, <1>7
    <3> QED
      BY <3>3, <3>4
  <2> QED
    BY <2>1, <2>2, <2>3
<1>11. ASSUME NEW i \in 1 .. Len(spliced)
       PROVE  /\ \A r \in S : new[i] = r.start + 1 => spliced[i] = Placeholder(r.type)
              /\ (\A r \in S : new[i] # r.start + 1) => spliced[i] = text[new[i]]
  <2> HIDE DEF new
  <2>1. CASE i <= a
    <3>1. new[i] = i /\ spliced[i] = out[i] /\ i \in 1 .. b /\ i \in 1 .. Len(out) /\ at[i] = i
      BY <2>1, <1>0, <1>2, <1>3, <1>4, <1>7, <1>11
    <3>2. \A r \in S : i # r.start + 1
      BY <2>1, <3>1, <1>0, <1>1 DEF a
    <3>3. out[i] = text[i]
      BY <3>1, <3>2 DEF Placed
    <3> QED
      BY <3>1, <3>2, <3>3
  <2>2. CASE i = a + 1
    <3>1. new[i] = i /\ spliced[i] = Placeholder(sp.type)
      BY <2>2, <1>0, <1>4, <1>7, <1>11
    <3>2. \A r \in R : i # r.start + 1
      BY <2>2, <1>0, <1>1
    <3>3. i = sp.start + 1
      BY <2>2 DEF a
    <3> QED
      BY <3>1, <3>2, <3>3
  <2>3. CASE i > a + 1
    <3> DEFINE k == i + (b - a) - 1
    <3>1. k \in 1 .. Len(out) /\ new[i] = at[k] /\ new[i] > b /\ spliced[i] = out[k]
      BY <2>3, <1>0, <1>4, <1>7, <1>11
    <3> HIDE DEF k
    <3>2. new[i] # sp.start + 1
      BY <3>1, <1>0 DEF a
    <3> QED
      BY <3>1, <3>2 DEF Placed
  <2> QED
    BY <2>1, <2>2, <2>3, <1>0, <1>4
<1>12. ASSUME NEW p \in 1 .. L, \A r \in S : p <= r.start
       PROVE  p <= Len(spliced) /\ new[p] = p
  <2>1. p <= a
    BY <1>12 DEF a
  <2> QED
    BY <2>1, <1>0, <1>3, <1>4
<1>13. new \in [1 .. Len(spliced) -> LeftOf(text, S)]
  BY <1>8
<1>14. Placed(spliced, text, new, S)
  <2> HIDE DEF new, S
  <2> QED
    BY <1>9, <1>10, <1>11, <1>12, <1>13 DEF Placed, L
<1> QED
  BY <1>4, <1>14 DEF spliced

\* The last k spans of m.
LastSpans(m, k) == {m[i] : i \in Len(m) - k + 1 .. Len(m)}

(***************************************************************************)
(* Mask of any spans that are apart: every position outside them is left,  *)
(* of every span one placeholder, all in order. Induction over the spans   *)
(* from the last.                                                          *)
(***************************************************************************)
LEMMA MaskIs ==
    ASSUME NEW Y, NEW text \in Seq(Y), NEW m \in Seq(SpansIn(Len(text))), Apart(m),
           \A t \in STRING : Placeholder(t) \in Y
    PROVE  /\ Mask(text, m) \in Seq(Y)
           /\ \E at : Placed(Mask(text, m), text, at, {m[i] : i \in 1 .. Len(m)})
<1> DEFINE n == Len(m)
           L == Len(text)
<1>1. PICK g : IsUnfold(g, text, m, n) /\ Mask(text, m) = g[1 .. n]
  BY MaskIsUnfold
<1>2. n \in Nat /\ \A i \in 1 .. n : m[i] \in SpansIn(L)
  OBVIOUS
<1> DEFINE Good(k) == /\ g[n - k + 1 .. n] \in Seq(Y)
                      /\ \E at : Placed(g[n - k + 1 .. n], text, at, LastSpans(m, k))
           K == {k \in Nat : k <= n => Good(k)}
<1>3. Good(0)
  <2>1. g[{}] = text
    BY <1>1 DEF IsUnfold
  <2>2. n - 0 + 1 .. n = {} /\ LastSpans(m, 0) = {}
    BY <1>2 DEF LastSpans
  <2> DEFINE id == [i \in 1 .. L |-> i]
  <2>3. Placed(text, text, id, {})
    BY DEF Placed, LeftOf
  <2> QED
    BY <2>1, <2>2, <2>3
<1>4. ASSUME NEW k \in Nat, k + 1 <= n, Good(k) PROVE Good(k + 1)
  <2>1. k <= n /\ n - k \in 1 .. n /\ n - (k + 1) + 1 = n - k
    BY <1>2, <1>4
  <2> DEFINE out == g[n - k + 1 .. n]
             sp == m[n - k]
             behind == LastSpans(m, k)
  <2>2. out \in Seq(Y) /\ \E at : Placed(out, text, at, behind)
    BY <1>4
  <2>3. g[n - k .. n] = Splice(out, sp)
    <3>1. (n - k + 1 .. n) \cup {n - k} = n - k .. n /\ (n - k .. n) \ {n - k} = n - k + 1 .. n
      BY <2>1, <1>2
    <3>2. Min(n - k .. n) = n - k
      <4>1. k < n /\ n - k + 1 .. n \in SUBSET (n - k + 1 .. n)
        BY <1>4, <1>2
      <4>2. Min((n - k + 1 .. n) \cup {n - k}) = n - k
        <5> HIDE DEF n
        <5> QED BY <1>2, <4>1, MinOf
      <4> QED
        BY <3>1, <4>2
    <3>3. n - k .. n # {} /\ n - k .. n \in SUBSET (n - n + 1 .. n)
      <4>1. n - n + 1 = 1 /\ n - k \in n - k .. n
        BY <2>1, <1>2
      <4>2. \A i \in n - k .. n : i \in 1 .. n
        <5> HIDE DEF n
        <5> QED BY <2>1, <1>2
      <4> QED BY <4>1, <4>2
    <3> QED
      BY <1>1, <3>1, <3>2, <3>3 DEF IsUnfold
  <2>4. LastSpans(m, k + 1) = behind \cup {sp}
    <3>1. n - (k + 1) + 1 .. n = (n - k + 1 .. n) \cup {n - k}
      <4> HIDE DEF n
      <4> QED BY <2>1, <1>2
    <3> QED
      BY <3>1 DEF LastSpans
  <2>5. behind \in SUBSET SpansIn(L) /\ sp \in SpansIn(L)
    BY <1>2, <2>1 DEF LastSpans
  <2>6. \A r \in behind : sp.end <= r.start
    <3> SUFFICES ASSUME NEW i \in n - k + 1 .. n PROVE sp.end <= m[i].start
      BY DEF LastSpans
    <3>1. i \in DOMAIN m /\ n - k \in DOMAIN m /\ n - k < i
      BY <2>1, <1>2
    <3> QED
      BY <3>1 DEF Apart
  <2>7. Placeholder(sp.type) \in Y
    BY <2>5 DEF SpansIn
  <2> HIDE DEF out, sp, behind, n
  <2>8. PICK at : Placed(out, text, at, behind)
    BY <2>2
  <2>9. /\ Splice(out, sp) \in Seq(Y)
        /\ \E new : Placed(Splice(out, sp), text, new, behind \cup {sp})
    BY <2>2, <2>5, <2>6, <2>7, <2>8, SpliceKeeps
  <2> QED
    BY <2>1, <2>3, <2>4, <2>9
<1> HIDE DEF Good
<1>5. K \in SUBSET Nat /\ 0 \in K /\ \A k \in K : k + 1 \in K
  <2>1. \A k \in Nat : k + 1 <= n => k <= n
    BY <1>2
  <2> QED
    BY <1>3, <1>4, <2>1
<1>6. Good(n)
  <2>1. K = Nat
    <3> HIDE DEF K
    <3> QED BY <1>5, NatInd
  <2>2. \A k \in Nat : k <= n => Good(k)
    BY <2>1
  <2> QED BY <1>2, <2>2
<1>7. n - n + 1 = 1 /\ LastSpans(m, n) = {m[i] : i \in 1 .. n}
  BY <1>2 DEF LastSpans
<1> QED
  BY <1>1, <1>6, <1>7 DEF Good

(***************************************************************************)
(* What the claims S hold together is what the merged spans m cover.       *)
(***************************************************************************)
LEMMA StretchesAre ==
    ASSUME NEW n \in Nat, NEW S \in SUBSET SpansIn(n), NEW m, MergeInv(m, S, n),
           NEW p \in Nat
    PROVE  /\ Covered(S, p) <=> \E i \in DOMAIN m : Covers(m[i], p)
           /\ Together(S, p) <=> \E i \in DOMAIN m : Covers(m[i], p) /\ Covers(m[i], p + 1)
<1>1. DOMAIN m = 1 .. Len(m) /\ \A i \in DOMAIN m : m[i] \in SpansIn(n) /\ Merges(m[i], S)
  BY DEF MergeInv
<1>2. ASSUME NEW d \in S, NEW q \in Nat, Covers(d, q)
      PROVE  \A i \in DOMAIN m : Within(d, m[i]) => Covers(m[i], q)
  BY <1>1, <1>2 DEF Covers, Within, SpansIn
<1>3. ASSUME NEW i \in DOMAIN m, Covers(m[i], p), Covers(m[i], p + 1)
      PROVE  Together(S, p)
  <2>1. p \in m[i].start + 1 .. m[i].end - 1
    BY <1>1, <1>3 DEF Covers, SpansIn
  <2> QED BY <1>1, <2>1 DEF Merges
<1>4. ASSUME NEW i \in DOMAIN m, Covers(m[i], p)
      PROVE  Covered(S, p)
  <2>0. m[i].start \in Nat /\ m[i].end \in Nat /\ m[i].start < p /\ p <= m[i].end
    BY <1>1, <1>4 DEF Covers, SpansIn
  <2>1. CASE p < m[i].end
    <3>1. Together(S, p)
      BY <2>0, <2>1, <1>3, <1>4 DEF Covers
    <3> QED BY <3>1 DEF Together, Covered
  <2>2. CASE p = m[i].end /\ m[i].start + 1 < p
    <3>1. p - 1 \in m[i].start + 1 .. m[i].end - 1 /\ p - 1 + 1 = p
      BY <2>0, <2>2
    <3>2. Together(S, p - 1)
      BY <1>1, <3>1 DEF Merges
    <3> QED BY <3>1, <3>2 DEF Together, Covered
  <2>3. CASE p = m[i].end /\ m[i].start + 1 = p
    <3>1. PICK d \in S : Within(d, m[i])
      BY <1>1 DEF Merges
    <3>2. Covers(d, p)
      BY <2>0, <2>3, <3>1 DEF Within, Covers, SpansIn
    <3> QED BY <3>2 DEF Covered
  <2> QED
    BY <2>0, <2>1, <2>2, <2>3
<1>5. ASSUME NEW d \in S PROVE \E i \in DOMAIN m : Within(d, m[i])
  BY DEF MergeInv
<1>6. Covered(S, p) => \E i \in DOMAIN m : Covers(m[i], p)
  BY <1>2, <1>5 DEF Covered
<1>7. Together(S, p) => \E i \in DOMAIN m : Covers(m[i], p) /\ Covers(m[i], p + 1)
  <2>1. p + 1 \in Nat
    OBVIOUS
  <2> QED BY <2>1, <1>2, <1>5 DEF Together
<1> QED
  BY <1>3, <1>4, <1>6, <1>7

(***************************************************************************)
(* No position is covered by two merged spans.                             *)
(***************************************************************************)
LEMMA OneCovers ==
    ASSUME NEW n \in Nat, NEW S, NEW m, MergeInv(m, S, n), NEW p \in Nat,
           NEW i \in DOMAIN m, NEW j \in DOMAIN m, Covers(m[i], p), Covers(m[j], p)
    PROVE  i = j
<1>1. DOMAIN m = 1 .. Len(m) /\ Len(m) \in Nat /\ m[i] \in SpansIn(n) /\ m[j] \in SpansIn(n)
  BY DEF MergeInv
<1>2. (i < j => m[i].end <= m[j].start) /\ (j < i => m[j].end <= m[i].start)
  BY DEF MergeInv, Apart
<1> QED
  BY <1>1, <1>2 DEF Covers, SpansIn

(***************************************************************************)
(* The claims held together from the first position of a merged span on    *)
(* are those in it.                                                        *)
(***************************************************************************)
LEMMA StretchIs ==
    ASSUME NEW n \in Nat, NEW S \in SUBSET SpansIn(n), NEW m, MergeInv(m, S, n),
           NEW i \in DOMAIN m
    PROVE  StretchFrom(S, m[i].start + 1) = {d \in S : Within(d, m[i])}
<1> DEFINE p == m[i].start + 1
<1>1. DOMAIN m = 1 .. Len(m) /\ Len(m) \in Nat /\ \A j \in DOMAIN m : m[j] \in SpansIn(n)
  BY DEF MergeInv
<1>2. p \in Nat /\ p <= m[i].end /\ m[i].end \in Nat /\ Covers(m[i], p) /\ m[i].start < p
  BY <1>1 DEF SpansIn, Covers
<1>3. ASSUME NEW d \in S, Within(d, m[i]) PROVE d \in StretchFrom(S, p)
  <2>0. d.start \in Nat /\ d.end \in Nat /\ d.start < d.end
    BY DEF SpansIn
  <2>1. d.start + 1 >= p
    BY <1>3, <1>1, <2>0 DEF Within, SpansIn
  <2>2. ASSUME NEW q \in p .. d.start PROVE Together(S, q)
    <3>1. q \in Nat /\ Covers(m[i], q) /\ Covers(m[i], q + 1)
      BY <1>1, <1>2, <1>3, <2>0, <2>2 DEF Covers, Within, SpansIn
    <3> QED BY <3>1, StretchesAre
  <2> QED BY <2>1, <2>2 DEF StretchFrom
<1>4. ASSUME NEW d \in StretchFrom(S, p) PROVE d \in S /\ Within(d, m[i])
  <2>1. d \in S /\ d.start + 1 >= p /\ \A q \in p .. d.start : Together(S, q)
    BY <1>4 DEF StretchFrom
  <2>2. d.start \in Nat /\ d.end \in Nat /\ d.start < d.end
    BY <2>1 DEF SpansIn
  <2>3. PICK j \in DOMAIN m : Within(d, m[j])
    BY <2>1 DEF MergeInv
  <2>4. m[j].start <= d.start /\ d.end <= m[j].end /\ m[j].start \in Nat /\ m[j].end \in Nat
    BY <2>3, <1>1 DEF Within, SpansIn
  <2>5. ~(j < i)
    <3> SUFFICES ASSUME j < i PROVE FALSE
      OBVIOUS
    <3>1. m[j].end <= m[i].start
      BY DEF MergeInv, Apart
    <3> QED BY <3>1, <2>1, <2>2, <2>4, <1>1 DEF SpansIn
  <2>6. ~(i < j)
    <3> SUFFICES ASSUME i < j PROVE FALSE
      OBVIOUS
    <3>1. m[i].end <= m[j].start
      BY DEF MergeInv, Apart
    <3>2. m[i].end \in p .. d.start
      BY <3>1, <1>2, <2>2, <2>4
    <3>3. PICK k \in DOMAIN m : Covers(m[k], m[i].end) /\ Covers(m[k], m[i].end + 1)
      BY <3>2, <2>1, <1>2, StretchesAre
    <3>4. Covers(m[i], m[i].end)
      BY <1>1 DEF Covers, SpansIn
    <3>5. k = i
      BY <3>3, <3>4, <1>2, OneCovers
    <3> QED BY <3>3, <3>5, <1>2 DEF Covers
  <2> QED BY <2>1, <2>3, <2>5, <2>6, <1>1
<1> QED
  BY <1>3, <1>4 DEF StretchFrom

\* The spans of S within r are those of the stretch that r begins.
FillsStretch(S, r) == StretchFrom(S, r.start + 1) = {d \in S : Within(d, r)}

\* StretchIs, under one name.
LEMMA MergedStretches ==
    ASSUME NEW n \in Nat, NEW S \in SUBSET SpansIn(n), NEW m, MergeInv(m, S, n)
    PROVE  \A j \in DOMAIN m : FillsStretch(S, m[j])
<1> SUFFICES ASSUME NEW j \in DOMAIN m PROVE FillsStretch(S, m[j])
  OBVIOUS
<1> QED BY StretchIs DEF FillsStretch

(***************************************************************************)
(* A text with the merged spans of S masked is S masked.                   *)
(***************************************************************************)
LEMMA MaskingIs ==
    ASSUME NEW text, NEW Y, text \in Seq(Y), NEW S \in SUBSET SpansIn(Len(text)),
           NEW m, MergeInv(m, S, Len(text)),
           NEW out \in Seq(Y), NEW at, Placed(out, text, at, {m[i] : i \in 1 .. Len(m)})
    PROVE  IsMaskingOf(out, text, S)
<1> DEFINE n == Len(text)
           R == {m[i] : i \in 1 .. Len(m)}
           left == {p \in DOMAIN text : ~(Covered(S, p) /\ Together(S, p - 1))}
<1>1. /\ n \in Nat /\ DOMAIN text = 1 .. n /\ DOMAIN out = 1 .. Len(out)
      /\ DOMAIN m = 1 .. Len(m) /\ Len(m) \in Nat
      /\ \A i \in DOMAIN m : m[i] \in SpansIn(n)
  BY DEF MergeInv
<1>2. \A i \in DOMAIN m : m[i].start \in Nat /\ m[i].end \in Nat /\ m[i].start < m[i].end
  BY <1>1 DEF SpansIn
<1>s. \A p \in Nat :
        /\ Covered(S, p) <=> \E i \in DOMAIN m : Covers(m[i], p)
        /\ Together(S, p) <=> \E i \in DOMAIN m : Covers(m[i], p) /\ Covers(m[i], p + 1)
  <2>1. n \in Nat /\ S \in SUBSET SpansIn(n) /\ MergeInv(m, S, n)
    BY <1>1
  <2> HIDE DEF n
  <2> QED
    BY <2>1, StretchesAre
<1>3. ASSUME NEW p \in 1 .. n
      PROVE  (Covered(S, p) /\ Together(S, p - 1)) <=> \E i \in DOMAIN m :
                m[i].start + 1 < p /\ p <= m[i].end
  <2>1. p \in Nat /\ p - 1 \in Nat /\ p - 1 + 1 = p
    BY <1>3
  <2>2. ASSUME Covered(S, p), Together(S, p - 1)
        PROVE  \E i \in DOMAIN m : m[i].start + 1 < p /\ p <= m[i].end
    <3>1. PICK i \in DOMAIN m : Covers(m[i], p - 1) /\ Covers(m[i], p - 1 + 1)
      BY <2>1, <2>2, <1>s
    <3> QED
      BY <3>1, <2>1, <1>2 DEF Covers
  <2>3. ASSUME NEW i \in DOMAIN m, m[i].start + 1 < p, p <= m[i].end
        PROVE  Covered(S, p) /\ Together(S, p - 1)
    <3>1. Covers(m[i], p) /\ Covers(m[i], p - 1) /\ Covers(m[i], p - 1 + 1)
      BY <2>1, <2>3, <1>2 DEF Covers
    <3> QED
      BY <3>1, <2>1, <1>s
  <2> QED BY <2>2, <2>3
<1>4. left = LeftOf(text, R)
  BY <1>1, <1>3 DEF LeftOf
<1>5. /\ at \in [DOMAIN out -> left]
      /\ \A i, j \in DOMAIN out : i < j => at[i] < at[j]
      /\ \A p \in left : \E i \in DOMAIN out : at[i] = p
  <2> HIDE DEF left, R
  <2> QED
    BY <1>1, <1>4 DEF Placed, R
<1>6. ASSUME NEW i \in DOMAIN out
      PROVE  IF Covered(S, at[i])
             THEN \E best \in StretchFrom(S, at[i]) :
                    /\ out[i] = Placeholder(best.type)
                    /\ \A sp \in StretchFrom(S, at[i]) : sp.conf <= best.conf
             ELSE out[i] = text[at[i]]
  <2>1. at[i] \in 1 .. n /\ ~(Covered(S, at[i]) /\ Together(S, at[i] - 1))
    BY <1>1, <1>5
  <2>2. /\ \A r \in R : at[i] = r.start + 1 => out[i] = Placeholder(r.type)
        /\ (\A r \in R : at[i] # r.start + 1) => out[i] = text[at[i]]
    BY <1>1 DEF Placed
  <2>3. CASE Covered(S, at[i])
    <3>1. PICK j \in DOMAIN m : Covers(m[j], at[i])
      BY <2>1, <2>3, <1>1, <1>s
    <3>2. at[i] = m[j].start + 1
      BY <3>1, <2>1, <1>2, <1>3 DEF Covers
    <3>3. m[j] \in R
      BY <1>1
    <3>4. out[i] = Placeholder(m[j].type)
      BY <2>2, <3>2, <3>3
    <3>5. StretchFrom(S, at[i]) = {d \in S : Within(d, m[j])}
      <4>1. n \in Nat /\ S \in SUBSET SpansIn(n) /\ MergeInv(m, S, n)
        BY <1>1
      <4> HIDE DEF n
      <4>2. FillsStretch(S, m[j])
        BY <4>1, MergedStretches
      <4> QED
        BY <4>2, <3>2 DEF FillsStretch
    <3>6. PICK best \in S : Within(best, m[j]) /\ best.type = m[j].type /\ best.conf = m[j].conf
      BY DEF MergeInv, Merges
    <3>7. \A d \in S : Within(d, m[j]) => d.conf <= m[j].conf
      BY DEF MergeInv, Merges
    <3> QED
      BY <2>3, <3>4, <3>5, <3>6, <3>7
  <2>4. CASE ~Covered(S, at[i])
    <3>1. ASSUME NEW r \in R PROVE at[i] # r.start + 1
      <4>1. PICK j \in DOMAIN m : r = m[j]
        BY <1>1
      <4>2. ~Covers(m[j], at[i])
        BY <2>1, <2>4, <1>1, <1>s
      <4> QED
        BY <4>1, <4>2, <1>2 DEF Covers
    <3> QED
      BY <2>2, <2>4, <3>1
  <2> QED
    BY <2>3, <2>4
<1> QED
  BY <1>5, <1>6, Zenon DEF IsMaskingOf

(***************************************************************************)
(* Merging and masking do what masking is for, whatever the text, whatever *)
(* the claims and however they overlap.                                    *)
(***************************************************************************)
LEMMA MaskOfMerge ==
    ASSUME NEW Y, NEW text \in Seq(Y), \A t \in STRING : Placeholder(t) \in Y,
           NEW S \in SUBSET SpansIn(Len(text)), IsFiniteSet(S), NEW s \in SortedSeqs(S)
    PROVE  IsMaskingOf(Mask(text, Merge(s)), text, S)
<1>1. MergeInv(Merge(s), S, Len(text))
  BY MergeOfSet
<1>2. Merge(s) \in Seq(SpansIn(Len(text))) /\ Apart(Merge(s))
  BY <1>1 DEF MergeInv
<1>3. PICK at : Placed(Mask(text, Merge(s)), text, at, {Merge(s)[i] : i \in 1 .. Len(Merge(s))})
  BY <1>2, MaskIs
<1>4. Mask(text, Merge(s)) \in Seq(Y)
  BY <1>2, MaskIs
<1> QED
  BY <1>1, <1>3, <1>4, MaskingIs
-----------------------------------------------------------------------------
\* The part of the type invariant the control flow needs.
ControlOK ==
    /\ action \in Actions /\ policyAction \in Actions
    /\ failMode \in FailModes
    /\ phase \in Phases \cup {"relay"}
    /\ audit \in Actions \cup {"pass"}
    /\ failed \in BOOLEAN
    /\ report \in Reports \cup {NoReport}
    /\ reports \in {0, 1}

\* The request has passed both refusals.
Passed ==
    /\ failMode = "closed" => ~failed
    /\ action = "block" => ~Redacted

\* Nothing is sent before the decision, and nothing found before the scan.
SentInv ==
    /\ phase \notin {"sent", "relay", "done"} => forwarded = NoBody
    /\ phase \in {"forward", "sent", "relay"} => Passed
    /\ phase \in {"sent", "relay"} => forwarded = IF audit = "mask" THEN doc ELSE Original
    /\ forwarded # NoBody => Passed
    /\ phase = "read" => ~Redacted /\ ~failed

\* What the audit says while the request is under way.
AuditInv ==
    /\ phase \in {"read", "scan", "decide"} => audit = "pass"
    /\ phase \in {"forward", "sent", "relay"} => audit = IF Redacted THEN action ELSE "pass"

IInv ==
    /\ ControlOK
    /\ SentInv
    /\ AuditInv
    /\ ReportTellsTruth
    /\ OneReportPerRequest
-----------------------------------------------------------------------------
(***************************************************************************)
(* Initially no request has been made.                                     *)
(***************************************************************************)
LEMMA InitIInv == Init => IInv
<1> SUFFICES ASSUME Init PROVE IInv
  OBVIOUS
<1>1. ControlOK
  BY DEF Init, ControlOK, Phases, Final
<1>2. ~Redacted
  BY DEF Init, Redacted, Nothing
<1>3. SentInv /\ AuditInv
  BY <1>2 DEF Init, SentInv, AuditInv
<1>4. ReportTellsTruth /\ OneReportPerRequest
  BY DEF Init, ReportTellsTruth, OneReportPerRequest
<1> QED
  BY <1>1, <1>3, <1>4 DEF IInv

(***************************************************************************)
(* A new request, refused or resolved, starts from nothing found, nothing  *)
(* sent and nothing recorded.                                              *)
(***************************************************************************)
LEMMA FreshKeepsIInv ==
    ASSUME IInv, Fresh, phase' \in {"refused", "read"},
           action' \in Actions, UNCHANGED <<policyAction, failMode>>
    PROVE  IInv'
<1>1. ControlOK'
  BY DEF IInv, ControlOK, Fresh, Phases, Final
<1>2. ~Redacted'
  BY DEF Fresh, Redacted, Nothing
<1>3. SentInv' /\ AuditInv'
  BY <1>2 DEF Fresh, SentInv, AuditInv
<1>4. ReportTellsTruth' /\ OneReportPerRequest'
  BY DEF Fresh, ReportTellsTruth, OneReportPerRequest
<1> QED
  BY <1>1, <1>3, <1>4 DEF IInv

(***************************************************************************)
(* The first record of a request ends it.                                  *)
(***************************************************************************)
LEMMA FirstRecord ==
    ASSUME NEW act, NEW err, NEW up, reports = 0, Record(act, err, up)
    PROVE  /\ phase' = "done" /\ reports' = 1
           /\ report' # NoReport => OneReportPerRequest'
BY DEF Record, OneReportPerRequest

\* What the upstream is sent of a request reported so, if anything.
Sent(act) == IF act = "mask" THEN doc ELSE Original

(***************************************************************************)
(* A report recorded once, by an exit that is past nothing or past both    *)
(* refusals, keeps the invariant when what it says is so.                  *)
(***************************************************************************)
LEMMA RecordKeepsIInv ==
    ASSUME NEW act \in Actions \cup {"pass"}, NEW err \in Errors, NEW up \in BOOLEAN,
           IInv, phase \notin Final, Record(act, err, up),
           audit' \in Actions \cup {"pass"},
           UNCHANGED <<policyAction, failMode, action, scanning, forwarded>>,
           forwarded # NoBody => Passed,
           act = Verdict,
           err = "" <=> up \/ act = "block",
           act = "block" => forwarded = NoBody,
           forwarded \in {NoBody, Sent(act)}, up => forwarded = Sent(act)
    PROVE  IInv'
<1>1. reports = 0
  BY DEF IInv, ControlOK, OneReportPerRequest, Final
<1>2. /\ report' \in Reports
      /\ report'.action = act /\ report'.error = err /\ report'.upstream = up
      /\ report'.failModeTripped = failed
  BY DEF IInv, ControlOK, Record, Reports
<1>3. Redacted' = Redacted /\ Passed' = Passed
  BY DEF scanning, Redacted, Passed
<1>4. ControlOK'
  <2>1. failed' \in BOOLEAN
    BY DEF IInv, ControlOK, scanning
  <2>2. phase' = "done" /\ reports' = 1
    BY <1>1, FirstRecord
  <2>3. action' \in Actions /\ policyAction' \in Actions /\ failMode' \in FailModes
    BY DEF IInv, ControlOK
  <2>4. phase' \in Phases
    BY <2>2 DEF Phases, Final
  <2> QED
    BY <1>2, <2>1, <2>2, <2>3, <2>4 DEF ControlOK
<1>5. SentInv' /\ AuditInv'
  BY <1>3 DEF Record, SentInv, AuditInv
<1>6. OneReportPerRequest'
  <2>1. NoReport \notin Reports
    BY PipelineAssumptions
  <2>2. report' # NoReport
    BY <1>2, <2>1
  <2> QED
    BY <1>1, <2>2, FirstRecord
<1>7. ReportTellsTruth'
  <2>1. Verdict' = Verdict /\ Sent(act)' = Sent(act) /\ failed' = failed
    BY <1>3 DEF Verdict, Sent, scanning, Original
  <2>2. forwarded' = forwarded
    OBVIOUS
  <2> QED
    BY <1>2, <2>1, <2>2 DEF ReportTellsTruth, Sent
<1> QED
  BY <1>4, <1>5, <1>6, <1>7 DEF IInv
-----------------------------------------------------------------------------
(***************************************************************************)
(* Scanning touches neither the audit nor what was sent.                   *)
(***************************************************************************)
LEMMA ScanKeepsIInv ==
    ASSUME IInv, phase = "scan", phase' \in {"scan", "decide"}, failed' \in BOOLEAN,
           UNCHANGED <<policyAction, failMode, action, audit, forwarded, recorded>>
    PROVE  IInv'
<1>1. report = NoReport /\ reports = 0 /\ forwarded = NoBody /\ audit = "pass"
  BY DEF IInv, ControlOK, OneReportPerRequest, SentInv, AuditInv
<1>2. ControlOK'
  BY DEF IInv, ControlOK, Phases, Final, recorded
<1>3. SentInv' /\ AuditInv'
  BY <1>1 DEF SentInv, AuditInv
<1>4. ReportTellsTruth' /\ OneReportPerRequest'
  BY <1>1 DEF ReportTellsTruth, OneReportPerRequest, recorded
<1> QED
  BY <1>2, <1>3, <1>4 DEF IInv

(***************************************************************************)
(* Every step keeps the invariant.                                         *)
(***************************************************************************)
LEMMA NextKeepsIInv == IInv /\ [Next]_vars => IInv'
<1> SUFFICES ASSUME IInv, [Next]_vars PROVE IInv'
  OBVIOUS
<1> USE DEF IInv
<1>1. CASE UNCHANGED vars
  <2>1. Redacted' = Redacted /\ Passed' = Passed
    BY <1>1 DEF vars, scanning, Redacted, Passed
  <2>2. ControlOK' /\ SentInv' /\ AuditInv'
    BY <1>1, <2>1 DEF vars, scanning, recorded, ControlOK, SentInv, AuditInv
  <2>3. ReportTellsTruth' /\ OneReportPerRequest'
    BY <1>1, <2>1 DEF vars, scanning, recorded, ReportTellsTruth, Verdict, Original,
                      OneReportPerRequest
  <2> QED
    BY <2>2, <2>3
<1>2. CASE PolicyChanges
  <2>1. Redacted' = Redacted /\ Passed' = Passed
    BY <1>2 DEF PolicyChanges, scanning, Redacted, Passed
  <2>2. ControlOK' /\ SentInv' /\ AuditInv'
    BY <1>2, <2>1 DEF PolicyChanges, scanning, recorded, ControlOK, SentInv, AuditInv
  <2>3. ReportTellsTruth' /\ OneReportPerRequest'
    BY <1>2, <2>1 DEF PolicyChanges, scanning, recorded, ReportTellsTruth, Verdict, Original,
                      OneReportPerRequest
  <2> QED
    BY <2>2, <2>3
<1>3. CASE Refuse
  BY <1>3, FreshKeepsIInv DEF Refuse, ControlOK
<1>4. CASE Resolve
  BY <1>4, FreshKeepsIInv DEF Resolve, ControlOK
<1>5. CASE Unreadable
  <2>1. PICK err \in {"no_upstream", "body_unreadable", "invalid_json"} :
            Record(audit, err, FALSE)
    BY <1>5 DEF Unreadable
  <2>2. phase = "read" /\ audit = "pass" /\ forwarded = NoBody /\ Verdict = "pass"
    BY <1>5 DEF Unreadable, SentInv, AuditInv, Verdict
  <2>3. err \in Errors /\ err # ""
    BY DEF Errors
  <2> QED
    BY <1>5, <2>1, <2>2, <2>3, RecordKeepsIInv DEF Unreadable, Final, ControlOK
<1>6. CASE ReadBody
  <2>1. Redacted' = Redacted /\ report = NoReport /\ reports = 0
    BY <1>6 DEF ReadBody, scanning, Redacted, ControlOK, OneReportPerRequest
  <2>2. ControlOK' /\ SentInv' /\ AuditInv'
    BY <1>6, <2>1 DEF ReadBody, scanning, recorded, ControlOK, SentInv, AuditInv, Passed,
                      Phases, Final
  <2>3. ReportTellsTruth' /\ OneReportPerRequest'
    BY <1>6, <2>1 DEF ReadBody, recorded, ReportTellsTruth, OneReportPerRequest
  <2> QED
    BY <2>2, <2>3
<1>7. CASE RegexDetects
  <2>1. PICK C \in ClaimSets(field, "regex") : \E s \in SortedSeqs(C) :
            EngineRuns(C, ToSet(Merge(s)), FALSE)
    BY <1>7 DEF RegexDetects
  <2>2. phase = "scan" /\ failed' = failed /\ failed \in BOOLEAN
    BY <1>7, <2>1 DEF RegexDetects, Scans, EngineRuns, ControlOK
  <2> QED
    BY <2>1, <2>2, ScanKeepsIInv DEF EngineRuns
<1>8. CASE PresidioDetects
  <2>1. PICK C \in ClaimSets(field, "presidio") : EngineRuns(C, C, FALSE)
    BY <1>8 DEF PresidioDetects
  <2>2. phase = "scan" /\ failed' = failed /\ failed \in BOOLEAN
    BY <1>8, <2>1 DEF PresidioDetects, Scans, EngineRuns, ControlOK
  <2> QED
    BY <2>1, <2>2, ScanKeepsIInv DEF EngineRuns
<1>9. CASE PresidioFails
  BY <1>9, ScanKeepsIInv DEF PresidioFails, Scans, EngineRuns
<1>10. CASE EndField
  BY <1>10, ScanKeepsIInv DEF EndField, ControlOK
<1>11. CASE FailClosed
  <2>1. forwarded = NoBody /\ Verdict = "block"
    BY <1>11 DEF FailClosed, SentInv, Verdict
  <2> QED
    BY <1>11, <2>1, RecordKeepsIInv DEF FailClosed, Final, Actions, Errors
<1>12. CASE Block
  <2>1. forwarded = NoBody /\ phase = "decide" /\ Verdict = "block"
    BY <1>12 DEF Block, Goes, SentInv, Verdict
  <2> QED
    BY <1>12, <2>1, RecordKeepsIInv DEF Block, Final, Actions, Errors
<1>13. CASE Decide
  <2>1. /\ phase = "decide" /\ audit = "pass" /\ forwarded = NoBody /\ Passed
        /\ report = NoReport /\ reports = 0
    BY <1>13 DEF Decide, Goes, SentInv, AuditInv, Passed, ControlOK, OneReportPerRequest
  <2>2. Redacted' = Redacted /\ Passed' = Passed
    BY <1>13 DEF Decide, scanning, Redacted, Passed
  <2>3. ControlOK' /\ SentInv' /\ AuditInv'
    BY <1>13, <2>1, <2>2 DEF Decide, scanning, recorded, ControlOK, SentInv, AuditInv,
                             Phases, Final
  <2>4. ReportTellsTruth' /\ OneReportPerRequest'
    BY <1>13, <2>1 DEF Decide, recorded, ReportTellsTruth, OneReportPerRequest
  <2> QED
    BY <2>3, <2>4
<1>14. CASE CannotForward
  <2>1. PICK err \in {"credential_unavailable", "upstream_url_unusable",
                      "request_build_failed"} : Record(audit, err, FALSE)
    BY <1>14 DEF CannotForward
  <2>2. err \in Errors /\ err # ""
    BY DEF Errors
  <2>3. /\ phase = "forward" /\ forwarded = NoBody /\ audit \in Actions \cup {"pass"}
        /\ audit = Verdict /\ audit # "block"
    BY <1>14 DEF CannotForward, SentInv, AuditInv, ControlOK, Passed, Verdict
  <2> QED
    BY <1>14, <2>1, <2>2, <2>3, RecordKeepsIInv DEF CannotForward, Final
<1>15. CASE Forward
  <2>1. /\ phase = "forward" /\ Passed
        /\ report = NoReport /\ reports = 0
    BY <1>15 DEF Forward, SentInv, ControlOK, OneReportPerRequest
  <2>2. Redacted' = Redacted /\ Passed' = Passed
    BY <1>15 DEF Forward, scanning, Redacted, Passed
  <2>3. ControlOK' /\ SentInv' /\ AuditInv'
    BY <1>15, <2>1, <2>2 DEF Forward, scanning, recorded, ControlOK, SentInv, AuditInv,
                             Phases, Final
  <2>4. ReportTellsTruth' /\ OneReportPerRequest'
    BY <1>15, <2>1 DEF Forward, recorded, ReportTellsTruth, OneReportPerRequest
  <2> QED
    BY <2>3, <2>4
<1>16. ASSUME phase = "sent"
       PROVE  /\ Passed /\ audit \in Actions \cup {"pass"}
              /\ audit = Verdict /\ audit # "block" /\ forwarded = Sent(audit)
  BY <1>16 DEF SentInv, AuditInv, ControlOK, Passed, Verdict, Sent
<1>17. CASE Unreachable
  BY <1>17, <1>16, RecordKeepsIInv DEF Unreachable, Final, Errors
<1>18. CASE Relay
  BY <1>18, <1>16, RecordKeepsIInv DEF Relay, Final, Errors
<1> QED
  BY <1>1, <1>2, <1>3, <1>4, <1>5, <1>6, <1>7, <1>8, <1>9, <1>10, <1>11, <1>12, <1>13,
     <1>14, <1>15, <1>17, <1>18 DEF Next
-----------------------------------------------------------------------------
TextLen == Len(Text)
\* What a text is made of, masked or not.
Tokens == ToSet(Text) \cup {Placeholder(t) : t \in STRING}

(***************************************************************************)
(* Texts and claims as the assumptions have them.                          *)
(***************************************************************************)
LEMMA TextOK ==
    /\ TextLen \in Nat /\ Text \in Seq(Tokens) /\ \A t \in STRING : Placeholder(t) \in Tokens
    /\ \A f \in Fields : \A e \in Engines : Claims[f][e] \subseteq SpansIn(TextLen)
<1>1. Text \in Seq(ToSet(Text))
  BY PipelineAssumptions
<1>2. TextLen \in Nat /\ Text \in Seq(Tokens)
  BY <1>1 DEF TextLen, Tokens
<1>3. ASSUME NEW f \in Fields, NEW e \in Engines, NEW c \in Claims[f][e]
      PROVE  c \in SpansIn(TextLen)
  <2>1. c \in [start : 0 .. TextLen, end : 0 .. TextLen, type : STRING, conf : Nat]
    BY <1>3, PipelineAssumptions DEF TextLen
  <2>2. c \in Found(f)
    BY <1>3 DEF Found, Engines
  <2>3. c.start < c.end
    BY <2>2, PipelineAssumptions
  <2> QED BY <2>1, <2>3 DEF SpansIn
<1> QED
  BY <1>2, <1>3 DEF Tokens

\* The field was scanned to its end.
FieldDone(f) ==
    \E s \in SortedSeqs(kept[f]) :
        /\ spans[f] = Merge(s)
        /\ doc[f] = IF action = "mask" THEN Mask(Text, Merge(s)) ELSE Text

\* A claim of an engine is kept, in a merged extent perhaps, or was rejected.
Accounted(c, K, R, C, e) ==
    \/ \E k \in K : Within(c, k)
    \/ \E r \in R : LostWith(c, r, C, e)

\* The types of the data.
DataOK ==
    /\ field \in Fields /\ engine \in 1 .. Len(Detectors) + 1
    /\ all \in SUBSET SpansIn(TextLen)
    /\ doc \in [Fields -> Seq(Tokens)]
    /\ spans \in [Fields -> Seq(SpansIn(TextLen))]
    /\ claimed \in [Fields -> [Engines -> SUBSET SpansIn(TextLen)]]
    /\ rejected \in [Fields -> [Engines -> SUBSET SpansIn(TextLen)]]
    /\ kept \in [Fields -> SUBSET SpansIn(TextLen)]

\* What holds of every field at any time.
FieldsOK ==
    \A f \in Fields :
        /\ Apart(spans[f])
        /\ IsFiniteSet(kept[f])
        /\ \A e \in Engines : claimed[f][e] \subseteq Claims[f][e]
        /\ \A e \in Engines : \A c \in claimed[f][e] :
            Accounted(c, kept[f], rejected[f][e], claimed[f][e], e)

Untouched(f) == kept[f] = {} /\ doc[f] = Text

\* How far the scan has come: fields before the current one are done, those
\* behind it untouched, and what was kept of the current one is what its end
\* will merge.
ScanInv ==
    /\ phase = "read" => field = 1 /\ engine = 1 /\ all = {} /\ \A f \in Fields : Untouched(f)
    /\ phase = "scan" =>
        /\ all = kept[field] /\ doc[field] = Text
        /\ \A f \in Fields : f < field => FieldDone(f)
        /\ \A f \in Fields : f > field => Untouched(f)
    /\ phase \in {"decide", "forward", "sent", "relay"} => \A f \in Fields : FieldDone(f)
    /\ forwarded # NoBody =>
        /\ \A f \in Fields : FieldDone(f)
        /\ forwarded = IF action = "mask" /\ Redacted THEN doc ELSE Original

DataInv == DataOK /\ FieldsOK /\ ScanInv

(***************************************************************************)
(* A new request starts from untouched fields.                             *)
(***************************************************************************)
LEMMA FreshData ==
    ASSUME Fresh, phase' \in {"refused", "read"} PROVE DataInv'
<1>1. 1 \in Fields /\ 1 \in 1 .. Len(Detectors) + 1
  BY PipelineAssumptions DEF Fields
<1>2. DataOK'
  BY <1>1, TextOK DEF Fresh, DataOK, Original, Nothing, NoSpans, TextLen
<1>3. FieldsOK'
  BY FS_EmptySet DEF Fresh, FieldsOK, Nothing, NoSpans, Apart
<1>4. ScanInv'
  BY DEF Fresh, ScanInv, Untouched, Original
<1> QED BY <1>2, <1>3, <1>4 DEF DataInv

(***************************************************************************)
(* So does the first.                                                      *)
(***************************************************************************)
LEMMA InitData == Init => DataInv
<1> SUFFICES ASSUME Init PROVE DataInv
  OBVIOUS
<1>1. 1 \in Fields /\ 1 \in 1 .. Len(Detectors) + 1
  BY PipelineAssumptions DEF Fields
<1>2. DataOK
  BY <1>1, TextOK DEF Init, DataOK, Original, Nothing, NoSpans, TextLen
<1>3. FieldsOK
  BY FS_EmptySet DEF Init, FieldsOK, Nothing, NoSpans, Apart
<1>4. ScanInv
  BY DEF Init, ScanInv
<1> QED BY <1>2, <1>3, <1>4 DEF DataInv

(***************************************************************************)
(* Steps that neither scan nor send.                                       *)
(***************************************************************************)
LEMMA SameData ==
    ASSUME DataInv, UNCHANGED <<action, scanning, forwarded>>,
           \/ phase' = phase
           \/ phase = "read" /\ phase' = "scan"
           \/ phase = "decide" /\ phase' = "forward"
           \/ phase = "sent" /\ phase' = "relay"
           \/ phase' = "done"
    PROVE  DataInv'
<1>1. DataOK' /\ FieldsOK'
  BY DEF DataInv, DataOK, FieldsOK, scanning, history
<1>2. \A f \in Fields : (FieldDone(f) => FieldDone(f)') /\ (Untouched(f) => Untouched(f)')
  BY DEF FieldDone, Untouched, scanning, history
<1>3. Redacted' = Redacted
  BY DEF Redacted, scanning
<1>4. ScanInv'
  <2>1. phase' = "read" => phase = "read"
    OBVIOUS
  <2>2. CASE phase' = "scan"
    <3>1. CASE phase = "scan"
      BY <2>2, <3>1, <1>2, <1>3 DEF DataInv, DataOK, ScanInv, scanning, history, Original
    <3>2. CASE phase = "read"
      <4>1. field' = 1 /\ all' = {} /\ (\A f \in Fields : Untouched(f)')
        BY <3>2, <1>2 DEF DataInv, ScanInv, scanning
      <4>2. 1 \in Fields /\ \A f \in Fields : ~(f < 1)
        BY PipelineAssumptions DEF Fields
      <4> QED
        BY <2>2, <3>2, <4>1, <4>2, <1>2, <1>3 DEF DataInv, ScanInv, Untouched, scanning, Original
    <3> QED BY <2>2, <3>1, <3>2
  <2>3. CASE phase' # "scan"
    BY <2>1, <2>3, <1>2, <1>3 DEF DataInv, ScanInv, scanning, history, Original
  <2> QED BY <2>2, <2>3
<1> QED BY <1>1, <1>4 DEF DataInv

\* A claim stays accounted for when more is kept, rejected and claimed.
LEMMA AccountedStays ==
    ASSUME NEW c, NEW e, NEW K, NEW R, NEW C, NEW K2, NEW R2, NEW C2,
           Accounted(c, K, R, C, e), K \subseteq K2, R \subseteq R2, C \subseteq C2
    PROVE  Accounted(c, K2, R2, C2, e)
<1>1. \A r : LostWith(c, r, C, e) => LostWith(c, r, C2, e)
  BY DEF LostWith
<1> QED BY <1>1 DEF Accounted

\* What an engine hands to the filters of the claims C: merged, or one by one.
Handed(C, found, e) ==
    \A c \in C : \E k \in found :
        /\ Within(c, k)
        /\ e = "presidio" => k = c
        /\ \E best \in C : best.type = k.type /\ Within(best, k) /\ c.conf <= best.conf

(***************************************************************************)
(* An engine adds claims and the spans it found that passed the filters;   *)
(* every claim is in one of them or was rejected.                          *)
(***************************************************************************)
LEMMA EngineData ==
    ASSUME IInv, DataInv, phase = "scan", engine <= Len(Detectors),
           NEW C \in SUBSET Claims[field][Detectors[engine]],
           NEW found \in SUBSET SpansIn(TextLen), IsFiniteSet(found),
           Handed(C, found, Detectors[engine]),
           NEW err, EngineRuns(C, found, err)
    PROVE  DataInv'
<1> DEFINE e0 == Detectors[engine]
           more == {sp \in found : Passes(sp)}
           less == found \ more
<1>0. Len(Detectors) \in Nat /\ e0 \in Engines
  <2>1. engine \in 1 .. Len(Detectors) /\ Len(Detectors) \in Nat
    BY PipelineAssumptions DEF DataInv, DataOK
  <2> QED BY <2>1, PipelineAssumptions DEF Engines
<1>1. /\ UNCHANGED <<phase, action, field, doc, spans, forwarded>>
      /\ engine' = engine + 1 /\ all' = all \cup more
      /\ claimed' = [claimed EXCEPT ![field][e0] = @ \cup C]
      /\ kept' = [kept EXCEPT ![field] = @ \cup more]
      /\ rejected' = [rejected EXCEPT ![field][e0] = @ \cup less]
  BY DEF EngineRuns
<1>2. IsFiniteSet(more) /\ more \in SUBSET SpansIn(TextLen) /\ less \in SUBSET SpansIn(TextLen)
  BY FS_Subset
<1>3. \A c \in C : Accounted(c, more, less, C, e0)
  <2> SUFFICES ASSUME NEW c \in C PROVE Accounted(c, more, less, C, e0)
    OBVIOUS
  <2>1. PICK k \in found : /\ Within(c, k)
                           /\ e0 = "presidio" => k = c
                           /\ \E best \in C : /\ best.type = k.type /\ Within(best, k)
                                               /\ c.conf <= best.conf
    BY DEF Handed
  <2>2. CASE Passes(k)
    BY <2>1, <2>2 DEF Accounted
  <2>3. CASE ~Passes(k)
    <3>1. <<k.type, k.start, k.end>> \in Vetoed /\ k \in less
      BY <2>3 DEF Passes
    <3> HIDE DEF e0, less
    <3>2. LostWith(c, k, C, e0)
      BY <2>1, <3>1 DEF LostWith, Within
    <3> QED BY <3>1, <3>2 DEF Accounted
  <2> QED BY <2>2, <2>3
<1>30. C \in SUBSET Claims[field][e0]
  OBVIOUS
<1> HIDE DEF more, less, e0
<1>4. \A f \in Fields : /\ f # field => /\ claimed'[f] = claimed[f] /\ kept'[f] = kept[f]
                                         /\ rejected'[f] = rejected[f]
                        /\ f = field => kept'[f] = kept[f] \cup more
  BY <1>1 DEF DataInv, DataOK
<1>40. field \in Fields
  BY DEF DataInv, DataOK
<1>41. \A e \in Engines :
         /\ e # e0 => claimed'[field][e] = claimed[field][e] /\ rejected'[field][e] = rejected[field][e]
         /\ e = e0 => /\ claimed'[field][e] = claimed[field][e] \cup C
                      /\ rejected'[field][e] = rejected[field][e] \cup less
  <2>1. claimed[field] \in [Engines -> SUBSET SpansIn(TextLen)]
        /\ rejected[field] \in [Engines -> SUBSET SpansIn(TextLen)]
    BY <1>40 DEF DataInv, DataOK
  <2>2. /\ claimed'[field] = [claimed[field] EXCEPT ![e0] = @ \cup C]
        /\ rejected'[field] = [rejected[field] EXCEPT ![e0] = @ \cup less]
    BY <1>1, <1>40 DEF DataInv, DataOK
  <2> QED BY <1>0, <2>1, <2>2
<1>5. DataOK'
  <2>1. C \subseteq SpansIn(TextLen)
    BY <1>0, <1>30, <1>40, TextOK
  <2>2. engine' \in 1 .. Len(Detectors) + 1
    BY <1>0, <1>1 DEF DataInv, DataOK
  <2>3. kept' \in [Fields -> SUBSET SpansIn(TextLen)]
    BY <1>1, <1>2 DEF DataInv, DataOK
  <2>4. /\ [claimed[field] EXCEPT ![e0] = @ \cup C] \in [Engines -> SUBSET SpansIn(TextLen)]
        /\ [rejected[field] EXCEPT ![e0] = @ \cup less] \in [Engines -> SUBSET SpansIn(TextLen)]
    <3>1. claimed[field] \in [Engines -> SUBSET SpansIn(TextLen)]
          /\ rejected[field] \in [Engines -> SUBSET SpansIn(TextLen)]
      BY <1>40 DEF DataInv, DataOK
    <3> QED BY <1>0, <1>2, <2>1, <3>1
  <2>5. /\ claimed' \in [Fields -> [Engines -> SUBSET SpansIn(TextLen)]]
        /\ rejected' \in [Fields -> [Engines -> SUBSET SpansIn(TextLen)]]
    BY <1>1, <2>4 DEF DataInv, DataOK
  <2> QED
    BY <1>1, <1>2, <2>2, <2>3, <2>5 DEF DataInv, DataOK
<1>6. FieldsOK'
  <2> SUFFICES ASSUME NEW f \in Fields
               PROVE  /\ Apart(spans'[f])
                      /\ IsFiniteSet(kept'[f])
                      /\ \A e \in Engines : claimed'[f][e] \subseteq Claims[f][e]
                      /\ \A e \in Engines : \A c \in claimed'[f][e] :
                          Accounted(c, kept'[f], rejected'[f][e], claimed'[f][e], e)
    BY DEF FieldsOK
  <2>1. Apart(spans'[f])
    BY <1>1 DEF DataInv, FieldsOK
  <2>2. IsFiniteSet(kept'[f])
    <3>1. IsFiniteSet(kept[f])
      BY DEF DataInv, FieldsOK
    <3>2. CASE f = field
      <4>1. IsFiniteSet(kept[f] \cup more)
        BY <3>1, <1>2, FS_Union
      <4> QED BY <4>1, <3>2, <1>4
    <3>3. CASE f # field
      BY <3>1, <3>3, <1>4
    <3> QED BY <3>2, <3>3
  <2>3. ASSUME NEW e \in Engines PROVE claimed'[f][e] \subseteq Claims[f][e]
    <3>1. claimed[f][e] \subseteq Claims[f][e]
      BY DEF DataInv, FieldsOK
    <3>2. CASE f = field /\ e = e0
      BY <3>1, <3>2, <1>30, <1>41
    <3>3. CASE ~(f = field /\ e = e0)
      BY <3>1, <3>3, <1>4, <1>41
    <3> QED BY <3>2, <3>3
  <2>4. ASSUME NEW e \in Engines
        PROVE  /\ claimed[f][e] \subseteq claimed'[f][e] /\ kept[f] \subseteq kept'[f]
               /\ rejected[f][e] \subseteq rejected'[f][e]
    BY <1>4, <1>41
  <2>5. ASSUME NEW e \in Engines, NEW c \in claimed'[f][e]
        PROVE  Accounted(c, kept'[f], rejected'[f][e], claimed'[f][e], e)
    <3>1. CASE c \in claimed[f][e]
      <4>1. Accounted(c, kept[f], rejected[f][e], claimed[f][e], e)
        BY <3>1 DEF DataInv, FieldsOK
      <4> QED BY <4>1, <2>4, AccountedStays
    <3>2. CASE c \notin claimed[f][e]
      <4>1. f = field /\ e = e0 /\ c \in C
        BY <3>2, <2>5, <1>4, <1>41
      <4>2. /\ Accounted(c, more, less, C, e)
            /\ more \subseteq kept'[f] /\ less \subseteq rejected'[f][e] /\ C \subseteq claimed'[f][e]
        BY <4>1, <1>3, <1>4, <1>41
      <4> QED BY <4>2, AccountedStays
    <3> QED BY <3>1, <3>2
  <2> QED BY <2>1, <2>2, <2>3, <2>5
<1>7. ScanInv'
  <2>0. field \in Int /\ \A f \in Fields : f \in Int
    BY DEF DataInv, DataOK, Fields
  <2>1. forwarded' = NoBody /\ phase' = "scan"
    BY <1>1 DEF IInv, SentInv
  <2>2. all' = kept'[field'] /\ doc'[field'] = Text
    BY <1>1, <1>4 DEF DataInv, DataOK, ScanInv
  <2>3. \A f \in Fields : f < field => FieldDone(f)'
    BY <1>1, <1>4, <2>0 DEF DataInv, ScanInv, FieldDone
  <2>4. \A f \in Fields : f > field => Untouched(f)'
    BY <1>1, <1>4, <2>0 DEF DataInv, ScanInv, Untouched
  <2> QED
    BY <1>1, <2>1, <2>2, <2>3, <2>4 DEF ScanInv
<1> QED BY <1>5, <1>6, <1>7 DEF DataInv

(***************************************************************************)
(* The regex engine merges its claims, so it is merged spans that pass or  *)
(* do not.                                                                 *)
(***************************************************************************)
LEMMA RegexData == ASSUME IInv, DataInv, RegexDetects PROVE DataInv'
<1>0. PICK C \in ClaimSets(field, "regex") : \E s \in SortedSeqs(C) :
        EngineRuns(C, ToSet(Merge(s)), FALSE)
  BY DEF RegexDetects
<1>1. PICK s \in SortedSeqs(C) : EngineRuns(C, ToSet(Merge(s)), FALSE)
  BY <1>0
<1>2. phase = "scan" /\ engine <= Len(Detectors) /\ field \in Fields
  BY DEF RegexDetects, Scans, DataInv, DataOK
<1>3. /\ C \in SUBSET Claims[field]["regex"] /\ C \in SUBSET SpansIn(TextLen) /\ IsFiniteSet(C)
      /\ Detectors[engine] = "regex"
  BY <1>2, TextOK DEF ClaimSets, Engines, RegexDetects, Scans
<1>4. MergeInv(Merge(s), C, TextLen)
  BY <1>3, TextOK, MergeOfSet
<1> DEFINE m == Merge(s)
<1> HIDE DEF m
<1>5. /\ m \in Seq(SpansIn(TextLen)) /\ \A c \in C : \E i \in DOMAIN m : Within(c, m[i])
      /\ \A i \in DOMAIN m : Merges(m[i], C)
  BY <1>4 DEF MergeInv, m
<1>6. ToSet(m) \in SUBSET SpansIn(TextLen) /\ \A i \in DOMAIN m : m[i] \in ToSet(m)
  BY <1>5 DEF ToSet
<1>7. IsFiniteSet(ToSet(m))
  <2>1. IsFiniteSet(1 .. Len(m)) /\ DOMAIN m = 1 .. Len(m)
    BY <1>5, FS_Interval
  <2> QED
    <3>1. m \in [1 .. Len(m) -> ToSet(m)]
      BY <2>1, <1>5 DEF ToSet
    <3>2. m \in Surjection(1 .. Len(m), ToSet(m))
      BY <3>1, <2>1 DEF Surjection, ToSet
    <3> QED BY <3>2, <2>1, FS_Surjection
<1>8. Handed(C, ToSet(m), "regex")
  <2> SUFFICES ASSUME NEW c \in C
               PROVE  \E k \in ToSet(m) :
                        /\ Within(c, k)
                        /\ "regex" = "presidio" => k = c
                        /\ \E best \in C : /\ best.type = k.type /\ Within(best, k)
                                            /\ c.conf <= best.conf
    BY DEF Handed
  <2>1. PICK i \in DOMAIN m : Within(c, m[i])
    BY <1>5
  <2>2. \E best \in C : best.type = m[i].type /\ Within(best, m[i]) /\ c.conf <= best.conf
    BY <1>5, <2>1 DEF Merges
  <2>3. m[i] \in ToSet(m) /\ "regex" # "presidio"
    BY <1>6
  <2> QED BY <2>1, <2>2, <2>3
<1>9. EngineRuns(C, ToSet(m), FALSE)
  BY <1>1 DEF m
<1> QED
  BY <1>2, <1>3, <1>6, <1>7, <1>8, <1>9, EngineData

(***************************************************************************)
(* Presidio's claims are looked at one by one; when it fails it claims     *)
(* nothing.                                                                *)
(***************************************************************************)
LEMMA PresidioData == ASSUME IInv, DataInv, PresidioDetects \/ PresidioFails PROVE DataInv'
<1>1. phase = "scan" /\ engine <= Len(Detectors) /\ field \in Fields
  BY DEF PresidioDetects, PresidioFails, Scans, DataInv, DataOK
<1>2. \A c \in SpansIn(TextLen) : Within(c, c)
  BY TextOK DEF SpansIn, Within
<1>3. CASE PresidioDetects
  <2>1. PICK C \in ClaimSets(field, "presidio") : EngineRuns(C, C, FALSE)
    BY <1>3 DEF PresidioDetects
  <2>2. /\ C \in SUBSET Claims[field]["presidio"] /\ C \in SUBSET SpansIn(TextLen)
        /\ IsFiniteSet(C) /\ Detectors[engine] = "presidio"
    BY <1>1, <1>3, TextOK DEF ClaimSets, Engines, PresidioDetects, Scans
  <2>3. Handed(C, C, "presidio")
    <3>1. \A c \in C : c.conf <= c.conf
      BY <2>2 DEF SpansIn
    <3> QED BY <1>2, <2>2, <3>1 DEF Handed
  <2> QED BY <1>1, <2>1, <2>2, <2>3, EngineData
<1>4. CASE PresidioFails
  <2>1. EngineRuns({}, {}, TRUE)
    BY <1>4 DEF PresidioFails
  <2>2. Handed({}, {}, Detectors[engine])
    BY DEF Handed
  <2> QED BY <1>1, <2>1, <2>2, FS_EmptySet, EngineData
<1> QED BY <1>3, <1>4

(***************************************************************************)
(* The end of a field: what was kept of it is merged and, under mask,      *)
(* masked.                                                                 *)
(***************************************************************************)
LEMMA EndFieldData == ASSUME IInv, DataInv, EndField PROVE DataInv'
<1>1. PICK s \in SortedSeqs(all) :
        /\ spans' = [spans EXCEPT ![field] = Merge(s)]
        /\ doc' = IF action = "mask" THEN [doc EXCEPT ![field] = Masked(Merge(s))] ELSE doc
  BY DEF EndField
<1>2. /\ phase = "scan" /\ field \in Fields /\ all = kept[field] /\ doc[field] = Text
      /\ all \in SUBSET SpansIn(TextLen) /\ IsFiniteSet(all) /\ forwarded = NoBody
  BY DEF EndField, IInv, SentInv, DataInv, DataOK, FieldsOK, ScanInv
<1>3. MergeInv(Merge(s), all, TextLen)
  BY <1>2, TextOK, MergeOfSet
<1>4. Merge(s) \in Seq(SpansIn(TextLen)) /\ Apart(Merge(s))
  BY <1>3 DEF MergeInv
<1>5. Mask(Text, Merge(s)) \in Seq(Tokens)
  BY <1>4, TextOK, MaskIs DEF TextLen
<1>6. UNCHANGED <<action, claimed, kept, rejected, forwarded>> /\ engine' = 1 /\ all' = {}
  BY DEF EndField, history
<1>7. \A f \in Fields :
        /\ f # field => spans'[f] = spans[f] /\ doc'[f] = doc[f]
        /\ f = field => /\ spans'[f] = Merge(s)
                        /\ doc'[f] = IF action = "mask" THEN Mask(Text, Merge(s)) ELSE Text
  BY <1>1, <1>2 DEF DataInv, DataOK, Masked
<1>8. \A f \in Fields : (f = field \/ FieldDone(f)) => FieldDone(f)'
  <2> SUFFICES ASSUME NEW f \in Fields, f = field \/ FieldDone(f) PROVE FieldDone(f)'
    OBVIOUS
  <2>1. CASE f = field
    <3>1. s \in SortedSeqs(kept'[f]) /\ spans'[f] = Merge(s)
      BY <1>2, <1>6, <1>7, <2>1
    <3>2. doc'[f] = IF action' = "mask" THEN Mask(Text, Merge(s)) ELSE Text
      BY <1>6, <1>7, <2>1
    <3> QED BY <3>1, <3>2 DEF FieldDone
  <2>2. CASE f # field
    BY <2>2, <1>6, <1>7 DEF FieldDone
  <2> QED BY <2>1, <2>2
<1>9. DataOK'
  <2>1. spans' \in [Fields -> Seq(SpansIn(TextLen))] /\ doc' \in [Fields -> Seq(Tokens)]
    BY <1>1, <1>2, <1>4, <1>5 DEF DataInv, DataOK, Masked
  <2>2. field' \in Fields /\ engine' \in 1 .. Len(Detectors) + 1
    BY <1>6, PipelineAssumptions DEF EndField, DataInv, DataOK, Fields
  <2> QED BY <1>6, <2>1, <2>2 DEF DataInv, DataOK
<1>10. FieldsOK'
  BY <1>4, <1>6, <1>7 DEF DataInv, FieldsOK
<1>11. ScanInv'
  <2>0. field \in Int /\ (\A f \in Fields : f \in Int /\ f <= NFields) /\ NFields \in Int
    BY <1>2, PipelineAssumptions DEF Fields
  <2>1. CASE field = NFields
    <3>1. phase' = "decide"
      BY <2>1 DEF EndField
    <3>2. \A f \in Fields : f < field \/ f = field
      BY <2>0, <2>1
    <3>3. \A f \in Fields : FieldDone(f)'
      BY <1>2, <1>8, <3>2 DEF DataInv, ScanInv
    <3> QED BY <1>2, <1>6, <3>1, <3>3 DEF ScanInv
  <2>2. CASE field # NFields
    <3>1. phase' = "scan" /\ field' = field + 1 /\ field + 1 \in Fields
      BY <1>2, <2>0, <2>2 DEF EndField, Fields
    <3>2. Untouched(field + 1)
      BY <1>2, <2>0, <3>1 DEF DataInv, ScanInv
    <3>3. all' = kept'[field'] /\ doc'[field'] = Text
      BY <1>6, <1>7, <2>0, <3>1, <3>2 DEF Untouched
    <3>4. \A f \in Fields : f < field' => FieldDone(f)'
      <4>1. \A f \in Fields : f < field + 1 => f < field \/ f = field
        BY <2>0
      <4> QED BY <4>1, <1>2, <1>8, <3>1 DEF DataInv, ScanInv
    <3>5. \A f \in Fields : f > field' => Untouched(f)'
      <4>1. \A f \in Fields : f > field + 1 => f > field /\ f # field
        BY <2>0
      <4> QED BY <4>1, <1>2, <1>6, <1>7, <3>1 DEF DataInv, ScanInv, Untouched
    <3> QED BY <1>2, <1>6, <3>1, <3>3, <3>4, <3>5 DEF ScanInv
  <2> QED BY <2>1, <2>2
<1> QED BY <1>9, <1>10, <1>11 DEF DataInv

(***************************************************************************)
(* What is sent is the document as masked, or the caller's own.            *)
(***************************************************************************)
LEMMA ForwardData == ASSUME IInv, DataInv, Forward PROVE DataInv'
<1>1. /\ phase = "forward" /\ phase' = "sent" /\ UNCHANGED <<action, scanning>>
      /\ forwarded' = IF audit = "mask" THEN doc ELSE Original
      /\ audit = IF Redacted THEN action ELSE "pass"
  BY DEF Forward, IInv, AuditInv
<1>2. DataOK' /\ FieldsOK'
  BY <1>1 DEF DataInv, DataOK, FieldsOK, scanning, history
<1>3. (\A f \in Fields : FieldDone(f)') /\ Redacted' = Redacted
  BY <1>1 DEF DataInv, ScanInv, FieldDone, Redacted, scanning, history
<1>4. forwarded' = IF action' = "mask" /\ Redacted' THEN doc' ELSE Original
  BY <1>1, <1>3 DEF scanning
<1>5. ScanInv'
  BY <1>1, <1>3, <1>4 DEF ScanInv, Original
<1> QED BY <1>2, <1>5 DEF DataInv

(***************************************************************************)
(* Every step keeps what is known of the data.                             *)
(***************************************************************************)
LEMMA NextData == IInv /\ DataInv /\ [Next]_vars => DataInv'
<1> SUFFICES ASSUME IInv, DataInv, [Next]_vars PROVE DataInv'
  OBVIOUS
<1>1. CASE UNCHANGED vars \/ PolicyChanges
  BY <1>1, SameData DEF vars, PolicyChanges
<1>2. CASE Refuse \/ Resolve
  BY <1>2, FreshData DEF Refuse, Resolve
<1>3. CASE Unreadable
  BY <1>3, SameData DEF Unreadable, Record
<1>4. CASE ReadBody \/ Decide
  BY <1>4, SameData DEF ReadBody, Decide, Goes
<1>5. CASE FailClosed \/ Block
  BY <1>5, SameData DEF FailClosed, Block, Record
<1>6. CASE CannotForward
  BY <1>6, SameData DEF CannotForward, Record
<1>7. CASE Unreachable \/ Relay
  BY <1>7, SameData DEF Unreachable, Relay, Record
<1> QED
  BY <1>1, <1>2, <1>3, <1>4, <1>5, <1>6, <1>7, RegexData, PresidioData, EndFieldData,
     ForwardData DEF Next

(***************************************************************************)
(* Nothing to mask.                                                        *)
(***************************************************************************)
LEMMA MaskOfNothing == Mask(Text, <<>>) = Text
<1>1. <<>> \in Seq({}) /\ Len(<<>>) = 0 /\ 1 .. 0 = {} /\ 0 - 0 + 1 = 1
  OBVIOUS
<1>2. PICK g : IsUnfold(g, Text, <<>>, 0) /\ Mask(Text, <<>>) = g[1 .. 0]
  BY <1>1, MaskIsUnfold
<1>3. g[{}] = Text
  BY <1>1, <1>2 DEF IsUnfold
<1> QED BY <1>1, <1>2, <1>3

-----------------------------------------------------------------------------
(***************************************************************************)
(* Under fail-closed no body an engine failed on goes upstream, and under  *)
(* block no body with a finding (proxyRequest's two refusals).             *)
(***************************************************************************)
THEOREM NothingUnfilteredIsForwarded == Spec => []NothingUnfilteredForwarded
<1>1. IInv => NothingUnfilteredForwarded
  BY DEF IInv, SentInv, Passed, NothingUnfilteredForwarded
<1> QED
  BY <1>1, InitIInv, NextKeepsIInv, PTL DEF Spec

(***************************************************************************)
(* A report names block when an engine failed under fail-closed, else the  *)
(* action the request resolved when it began if anything was found, else   *)
(* pass, whatever the policy did meanwhile; and no body was sent, or the   *)
(* one that goes with what it names (proxyRequest's exits).                *)
(***************************************************************************)
THEOREM ReportsTellTheTruth == Spec => []ReportTellsTruth
<1>1. IInv => ReportTellsTruth
  BY DEF IInv
<1> QED
  BY <1>1, InitIInv, NextKeepsIInv, PTL DEF Spec

(***************************************************************************)
(* Every exit records one report, and only an exit does.                   *)
(***************************************************************************)
THEOREM OneReportEach == Spec => []OneReportPerRequest
<1>1. IInv => OneReportPerRequest
  BY DEF IInv
<1> QED
  BY <1>1, InitIInv, NextKeepsIInv, PTL DEF Spec

\* What the invariants say of a masked document.
LEMMA MaskIsExactHere == IInv /\ DataInv => MaskIsExact
<1> SUFFICES ASSUME DataInv, forwarded # NoBody, action = "mask", NEW f \in Fields
             PROVE  IsMaskingOf(forwarded[f], Text, kept[f])
  BY DEF MaskIsExact
<1>1. PICK s \in SortedSeqs(kept[f]) : spans[f] = Merge(s) /\ doc[f] = Mask(Text, Merge(s))
  BY DEF DataInv, ScanInv, FieldDone
<1>2. forwarded[f] = Mask(Text, Merge(s))
  <2>1. CASE Redacted
    BY <1>1, <2>1 DEF DataInv, ScanInv
  <2>2. CASE ~Redacted
    <3>1. Merge(s) = <<>> /\ forwarded[f] = Text
      BY <1>1, <2>2 DEF DataInv, ScanInv, Redacted, Original
    <3> QED BY <3>1, MaskOfNothing
  <2> QED BY <2>1, <2>2
<1>3. kept[f] \in SUBSET SpansIn(Len(Text)) /\ IsFiniteSet(kept[f])
  BY DEF DataInv, DataOK, FieldsOK, TextLen
<1>4. IsMaskingOf(Mask(Text, Merge(s)), Text, kept[f])
  BY <1>3, TextOK, MaskOfMerge
<1> QED BY <1>2, <1>4

(***************************************************************************)
(* What goes upstream under mask is, field by field, the caller's text     *)
(* with exactly what the engines found and the filters kept masked, under  *)
(* the type of the most confident claim (Merge, Mask, proxyRequest): for   *)
(* every text, every set of claims and every way they overlap.             *)
(***************************************************************************)
THEOREM MaskingIsExact == Spec => []MaskIsExact
BY MaskIsExactHere, InitIInv, InitData, NextKeepsIInv, NextData, PTL DEF Spec

\* What the invariants say of a claim, when all fields are scanned.
LEMMA LostOnlyHere == IInv /\ DataInv => LostOnlyToAVeto
<1> SUFFICES ASSUME DataInv, phase = "decide", NEW f \in Fields, NEW e \in Engines,
                    NEW c \in claimed[f][e]
             PROVE  \/ \A p \in c.start + 1 .. c.end : Covered(ToSet(spans[f]), p)
                    \/ \E r \in rejected[f][e] : LostWith(c, r, claimed[f][e], e)
  BY DEF LostOnlyToAVeto
<1>1. Accounted(c, kept[f], rejected[f][e], claimed[f][e], e)
  BY DEF DataInv, FieldsOK
<1>2. ASSUME NEW k \in kept[f], Within(c, k), NEW p \in c.start + 1 .. c.end
      PROVE  Covered(ToSet(spans[f]), p)
  <2>1. PICK s \in SortedSeqs(kept[f]) : spans[f] = Merge(s)
    BY DEF DataInv, ScanInv, FieldDone
  <2>2. kept[f] \in SUBSET SpansIn(TextLen) /\ IsFiniteSet(kept[f])
    BY DEF DataInv, DataOK, FieldsOK
  <2>3. MergeInv(spans[f], kept[f], TextLen)
    BY <2>1, <2>2, TextOK, MergeOfSet
  <2>4. PICK i \in DOMAIN spans[f] : Within(k, spans[f][i])
    BY <2>3 DEF MergeInv
  <2>5. c \in SpansIn(TextLen) /\ k \in SpansIn(TextLen) /\ spans[f][i] \in SpansIn(TextLen)
    BY <2>2, <2>3 DEF DataInv, DataOK, MergeInv
  <2>6. \A x \in SpansIn(TextLen) : x.start \in Int /\ x.end \in Int
    BY TextOK DEF SpansIn
  <2>7. /\ c.start \in Int /\ c.end \in Int /\ k.start \in Int /\ k.end \in Int
        /\ spans[f][i].start \in Int /\ spans[f][i].end \in Int
    BY <2>5, <2>6
  <2>8. Covers(spans[f][i], p)
    BY <1>2, <2>4, <2>7 DEF Within, Covers
  <2>9. spans[f][i] \in ToSet(spans[f])
    BY DEF ToSet
  <2> QED BY <2>8, <2>9 DEF Covered
<1> QED BY <1>1, <1>2 DEF Accounted

(***************************************************************************)
(* Every claim an engine makes ends up within a reported and masked span,  *)
(* unless a guard or an allow-list entry rejected it in this request, or   *)
(* the stretch the regex engine merged it into, under the type of a claim  *)
(* no less confident (Chain.Run, Regex.Detect).                            *)
(***************************************************************************)
THEOREM ClaimsAreLostOnlyToAVeto == Spec => []LostOnlyToAVeto
BY LostOnlyHere, InitIInv, InitData, NextKeepsIInv, NextData, PTL DEF Spec

\* A request of Pipeline alone is never in the middle of a relay.
NotRelaying == phase # "relay"

(***************************************************************************)
(* Type correctness; in particular the spans of a field are in the text,   *)
(* in order and apart, whenever they are read.                             *)
(***************************************************************************)
THEOREM PipelineTypeCorrect == Spec => []TypeOK
<1>1. IInv /\ DataInv /\ NotRelaying => TypeOK
  <2> SUFFICES ASSUME IInv, DataInv, NotRelaying PROVE TypeOK
    OBVIOUS
  <2>1. /\ policyAction \in Actions /\ action \in Actions /\ failMode \in FailModes
        /\ phase \in Phases /\ audit \in Actions \cup {"pass"} /\ failed \in BOOLEAN
        /\ report \in Reports \cup {NoReport} /\ reports \in Nat
    BY DEF IInv, ControlOK, NotRelaying
  <2>2. /\ field \in Fields /\ engine \in 1 .. Len(Detectors) + 1 /\ DOMAIN spans = Fields
        /\ \A f \in Fields, e \in Engines : claimed[f][e] \subseteq Claims[f][e]
    BY DEF DataInv, DataOK, FieldsOK
  <2>3. \A sp \in SpansIn(TextLen) : IsSpan(sp)
    BY DEF SpansIn, IsSpan, TextLen
  <2>4. \A sp \in all : IsSpan(sp)
    BY <2>3 DEF DataInv, DataOK
  <2>5. \A f \in Fields : \A i, j \in DOMAIN spans[f] :
            IsSpan(spans[f][i]) /\ (i < j => spans[f][i].end <= spans[f][j].start)
    BY <2>3 DEF DataInv, DataOK, FieldsOK, Apart
  <2> QED BY <2>1, <2>2, <2>4, <2>5 DEF TypeOK
<1>2. Init => NotRelaying
  BY DEF Init, NotRelaying
<1>3. NotRelaying /\ [Next]_vars => NotRelaying'
  <2> SUFFICES ASSUME phase # "relay", [Next]_vars PROVE phase' # "relay"
    BY DEF NotRelaying
  <2>1. CASE UNCHANGED vars \/ PolicyChanges \/ Refuse \/ Resolve \/ ReadBody
    BY <2>1 DEF vars, PolicyChanges, Refuse, Resolve, ReadBody
  <2>2. CASE RegexDetects \/ PresidioDetects \/ PresidioFails \/ EndField
    BY <2>2 DEF RegexDetects, PresidioDetects, PresidioFails, EndField, EngineRuns
  <2>3. CASE Decide \/ Forward
    BY <2>3 DEF Decide, Forward
  <2>4. \A act, err, up : Record(act, err, up) => phase' # "relay"
    BY DEF Record
  <2>5. CASE Unreadable \/ FailClosed \/ Block \/ CannotForward \/ Unreachable \/ Relay
    BY <2>4, <2>5 DEF Unreadable, FailClosed, Block, CannotForward, Unreachable, Relay
  <2> QED BY <2>1, <2>2, <2>3, <2>5 DEF Next
<1> QED
  BY <1>1, <1>2, <1>3, InitIInv, InitData, NextKeepsIInv, NextData, PTL DEF Spec
-----------------------------------------------------------------------------
(***************************************************************************)
(* A stream is relayed by a request that was sent: the answer's end is     *)
(* recorded as Relay records it.                                           *)
(***************************************************************************)
LEMMA AnsweredKeeps ==
    ASSUME IInv, DataInv, phase \in {"sent", "relay"}, Answered PROVE IInv' /\ DataInv'
<1>1. /\ Passed /\ audit \in Actions \cup {"pass"}
      /\ audit = Verdict /\ audit # "block" /\ forwarded = Sent(audit)
  BY DEF IInv, SentInv, AuditInv, ControlOK, Passed, Verdict, Sent
<1>2. Record(audit, "", TRUE) /\ phase' = "done"
      /\ UNCHANGED <<policyAction, failMode, action, scanning, audit, forwarded>>
  BY DEF Answered, Request, Record
<1>3. IInv'
  BY <1>1, <1>2, RecordKeepsIInv DEF Final, Errors
<1>4. DataInv'
  BY <1>2, SameData
<1> QED BY <1>3, <1>4

\* When it begins nothing is recorded.
LEMMA BeginsKeeps ==
    ASSUME IInv, DataInv, StreamBegins PROVE IInv' /\ DataInv'
<1>1. /\ phase = "sent" /\ phase' = "relay"
      /\ UNCHANGED <<policyAction, failMode, action, scanning, audit, forwarded, recorded>>
  BY DEF StreamBegins, Request
<1>2. Redacted' = Redacted /\ Passed' = Passed
  BY <1>1 DEF scanning, Redacted, Passed
<1>3. report = NoReport /\ reports = 0
  BY <1>1 DEF IInv, ControlOK, OneReportPerRequest
<1>4. ControlOK' /\ SentInv' /\ AuditInv'
  BY <1>1, <1>2, <1>3 DEF IInv, ControlOK, SentInv, AuditInv, scanning, recorded
<1>5. ReportTellsTruth' /\ OneReportPerRequest'
  BY <1>1, <1>3 DEF ReportTellsTruth, OneReportPerRequest, recorded
<1>6. DataInv'
  BY <1>1, SameData
<1> QED BY <1>4, <1>5, <1>6 DEF IInv

(***************************************************************************)
(* So what holds of Pipeline holds while the answer is relayed read by     *)
(* read.                                                                   *)
(***************************************************************************)
LEMMA StreamKeeps == IInv /\ DataInv /\ [StreamNext]_streamVars => IInv' /\ DataInv'
<1> SUFFICES ASSUME IInv, DataInv, [StreamNext]_streamVars PROVE IInv' /\ DataInv'
  OBVIOUS
<1>1. CASE UNCHANGED streamVars \/ RelayChunk
  <2>1. UNCHANGED vars
    BY <1>1 DEF streamVars, RelayChunk
  <2> QED BY <2>1, NextKeepsIInv, NextData
<1>2. CASE StreamBegins
  BY <1>2, BeginsKeeps
<1>3. CASE StreamEnds \/ StreamCut \/ RelayJSON
  BY <1>3, AnsweredKeeps DEF StreamEnds, StreamCut, RelayJSON
<1>4. CASE Next
  BY <1>4, NextKeepsIInv, NextData
<1> QED
  BY <1>1, <1>2, <1>3, <1>4 DEF StreamNext, RelayNext, Next

\* The relay starts like Pipeline.
LEMMA StreamInit == RelayInit => IInv /\ DataInv
BY InitIInv, InitData DEF RelayInit

(***************************************************************************)
(* The refinement: a step of the relay is a step of the whole request, or  *)
(* none.                                                                   *)
(***************************************************************************)
LEMMA RelayInitMaps == RelayInit => Whole!Init
BY DEF RelayInit, Init, Whole!Init, Actions, Whole!Actions, FailModes, Whole!FailModes,
       Original, Whole!Original, Nothing, Whole!Nothing, NoSpans, Whole!NoSpans,
       Fields, Whole!Fields, Engines, Whole!Engines

\* The end of a relay is the one step Relay of Pipeline.
LEMMA AnsweredMaps ==
    ASSUME phase \in {"sent", "relay"}, Answered PROVE Whole!Relay
BY DEF Answered, Request, Record, scanning, history, Whole!Relay, Whole!Record, Whole!scanning,
       Whole!history

(***************************************************************************)
(* The operators of Spans and of the libraries do not depend on the phase. *)
(***************************************************************************)
LEMMA SameOperators ==
    /\ \A S : Whole!SortedSeqs(S) = SortedSeqs(S)
    /\ \A s : Whole!Merge(s) = Merge(s) /\ Whole!ToSet(s) = ToSet(s)
    /\ \A text, s : Whole!Mask(text, s) = Mask(text, s)
    /\ \A f, e : Whole!ClaimSets(f, e) = ClaimSets(f, e)
<1>1. \A S : Whole!Cardinality(S) = Cardinality(S) /\ (Whole!IsFiniteSet(S) <=> IsFiniteSet(S))
  BY Zenon DEF Whole!Cardinality, Cardinality, Whole!IsFiniteSet, IsFiniteSet
<1>2. \A S : Whole!SetToSeqs(S) = SetToSeqs(S)
  BY <1>1, Zenon DEF Whole!SetToSeqs, SetToSeqs
<1>3. \A s : Whole!Sorted(s) <=> Sorted(s)
  BY Zenon DEF Whole!Sorted, Sorted, Whole!Before, Before
<1>4. \A S : Whole!SortedSeqs(S) = SortedSeqs(S)
  BY <1>2, <1>3, Zenon DEF Whole!SortedSeqs, SortedSeqs
<1>5. \A s : Whole!Merge(s) = Merge(s)
  BY Zenon DEF Whole!Merge, Merge, Whole!FoldLeft, FoldLeft, Whole!MapThenFoldSet,
     MapThenFoldSet, Whole!Max, Max, Whole!Absorb, Absorb, Whole!Joined, Joined
<1>6. \A text, s : Whole!Mask(text, s) = Mask(text, s)
  BY Zenon DEF Whole!Mask, Mask, Whole!FoldRight, FoldRight, Whole!MapThenFoldSet,
     MapThenFoldSet, Whole!Min, Min, Whole!Splice, Splice, Whole!Placeholder, Placeholder
<1>7. \A s : Whole!ToSet(s) = ToSet(s)
  BY Zenon DEF Whole!ToSet, ToSet
<1>8. \A f, e : Whole!ClaimSets(f, e) = ClaimSets(f, e)
  BY <1>1, Zenon DEF Whole!ClaimSets, ClaimSets
<1> QED BY <1>4, <1>5, <1>6, <1>7, <1>8

\* The steps of a scan.
LEMMA ScanMaps ==
    ASSUME RegexDetects \/ PresidioDetects \/ PresidioFails \/ EndField
    PROVE  Whole!Next
<1>1. phase = "scan" /\ phase' # "relay"
  BY DEF RegexDetects, PresidioDetects, PresidioFails, EndField, Scans, EngineRuns
<1>2. ASSUME NEW C, NEW found, NEW err, EngineRuns(C, found, err)
      PROVE  Whole!EngineRuns(C, found, err)
  BY <1>1, <1>2 DEF EngineRuns, Whole!EngineRuns, Passes, Whole!Passes, recorded, Whole!recorded
<1>3. \A e : Scans(e) => Whole!Scans(e)
  BY <1>1 DEF Scans, Whole!Scans
<1>5. CASE RegexDetects
  BY <1>2, <1>3, <1>5, SameOperators DEF RegexDetects, Whole!RegexDetects, Whole!Next
<1>6. CASE PresidioDetects
  BY <1>2, <1>3, <1>6, SameOperators DEF PresidioDetects, Whole!PresidioDetects, Whole!Next
<1>7. CASE PresidioFails
  BY <1>2, <1>3, <1>7 DEF PresidioFails, Whole!PresidioFails, Whole!Next
<1>8. CASE EndField
  BY <1>1, <1>8, SameOperators DEF EndField, Whole!EndField, Whole!Next, Masked, Whole!Masked,
     history, Whole!history, recorded, Whole!recorded
<1> QED BY <1>5, <1>6, <1>7, <1>8

\* A new request.
LEMMA FreshMaps == ASSUME Fresh PROVE Whole!Fresh
BY DEF Fresh, Whole!Fresh, Original, Whole!Original, Nothing, Whole!Nothing,
       NoSpans, Whole!NoSpans, Fields, Whole!Fields, Engines, Whole!Engines

\* Each step of the relay is a step of Pipeline or leaves its state alone.
LEMMA StreamStepMaps == [StreamNext]_streamVars => [Whole!Next]_(Whole!vars)
<1> SUFFICES ASSUME [StreamNext]_streamVars PROVE Whole!Next \/ UNCHANGED Whole!vars
  OBVIOUS
<1> USE DEF scanning, Whole!scanning, history, Whole!history, recorded, Whole!recorded
<1>1. CASE UNCHANGED streamVars \/ RelayChunk \/ StreamBegins
  BY <1>1 DEF streamVars, RelayChunk, StreamBegins, Request, vars, Whole!vars
<1>2. CASE StreamEnds \/ StreamCut \/ RelayJSON
  BY <1>2, AnsweredMaps DEF StreamEnds, StreamCut, RelayJSON, Whole!Next
<1>3. CASE Relay
  BY <1>3 DEF Relay, Record, Whole!Relay, Whole!Record, Whole!Next
<1>4. CASE PolicyChanges
  BY <1>4 DEF PolicyChanges, Whole!PolicyChanges, Actions, Whole!Actions, Whole!Next
<1>5. CASE Refuse
  BY <1>5, FreshMaps DEF Refuse, Whole!Refuse, Final, Whole!Final, Whole!Next
<1>6. CASE Resolve
  BY <1>6, FreshMaps DEF Resolve, Whole!Resolve, Final, Whole!Final, Whole!Next
<1>7. CASE ReadBody
  BY <1>7 DEF ReadBody, Whole!ReadBody, Whole!Next
<1>8. CASE Unreadable
  BY <1>8 DEF Unreadable, Record, Whole!Unreadable, Whole!Record, Whole!Next
<1>9. Whole!Redacted = Redacted /\ Whole!Goes = Goes
  BY DEF Redacted, Whole!Redacted, Goes, Whole!Goes, Fields, Whole!Fields
<1>10. CASE FailClosed
  BY <1>10 DEF FailClosed, Record, Whole!FailClosed, Whole!Record, Whole!Next
<1>11. CASE Block
  BY <1>9, <1>11 DEF Block, Goes, Record, Whole!Block, Whole!Record, Whole!Next
<1>12. CASE Decide
  BY <1>9, <1>12 DEF Decide, Goes, Whole!Decide, Whole!Next
<1>13. CASE CannotForward
  BY <1>13 DEF CannotForward, Record, Whole!CannotForward, Whole!Record, Whole!Next
<1>14. CASE Forward
  BY <1>14 DEF Forward, Whole!Forward, Original, Whole!Original, Fields, Whole!Fields, Whole!Next
<1>15. CASE Unreachable
  BY <1>15 DEF Unreachable, Record, Whole!Unreachable, Whole!Record, Whole!Next
<1> QED
  BY <1>1, <1>2, <1>3, <1>4, <1>5, <1>6, <1>7, <1>8, <1>10, <1>11, <1>12, <1>13, <1>14,
     <1>15, ScanMaps DEF StreamNext, RelayNext

(***************************************************************************)
(* The relay read by read, with a caller or an upstream that may go away   *)
(* after any of them, is a request of Pipeline.                            *)
(***************************************************************************)
THEOREM RelayImplementsOneStep == StreamSpec => RelayIsOneStep
BY RelayInitMaps, StreamStepMaps, PTL DEF StreamSpec, RelayIsOneStep, Whole!Spec

(***************************************************************************)
(* A request whose answer is streamed keeps what Pipeline promises, in the *)
(* middle of the relay too.                                                *)
(***************************************************************************)
THEOREM StreamedRequestsKeepIt ==
    StreamSpec => [](/\ MaskIsExact /\ LostOnlyToAVeto /\ NothingUnfilteredForwarded
                     /\ ReportTellsTruth /\ OneReportPerRequest)
<1>1. IInv => NothingUnfilteredForwarded /\ ReportTellsTruth /\ OneReportPerRequest
  BY DEF IInv, SentInv, Passed, NothingUnfilteredForwarded
<1> QED
  BY <1>1, MaskIsExactHere, LostOnlyHere, StreamInit, StreamKeeps, PTL DEF StreamSpec

-----------------------------------------------------------------------------
(***************************************************************************)
(* A stretch of a sequence.                                                *)
(***************************************************************************)
LEMMA StretchOf ==
    ASSUME NEW X, NEW s \in Seq(X), NEW i \in Nat, NEW j \in Nat, 1 <= i, i <= j + 1, j <= Len(s)
    PROVE  /\ SubSeq(s, i, j) \in Seq(X)
           /\ Len(SubSeq(s, i, j)) = j - i + 1
           /\ \A p \in 1 .. j - i + 1 : SubSeq(s, i, j)[p] = s[i + p - 1]
<1>1. \A p \in i .. j : s[p] \in X
  <2>1. \A p \in i .. j : p \in 1 .. Len(s)
    OBVIOUS
  <2> QED BY <2>1
<1> QED BY <1>1, SubSeqProperties

(***************************************************************************)
(* A stretch of two sequences put together: of the first, of the second,   *)
(* or of both.                                                             *)
(***************************************************************************)
LEMMA StretchOfFirst ==
    ASSUME NEW X, NEW a \in Seq(X), NEW d \in Seq(X), NEW i \in Nat, NEW j \in Nat,
           1 <= i, i <= j + 1, j <= Len(a)
    PROVE  SubSeq(a \o d, i, j) = SubSeq(a, i, j)
<1> DEFINE s == a \o d
           l == SubSeq(s, i, j)
           r == SubSeq(a, i, j)
<1>1. s \in Seq(X) /\ Len(s) = Len(a) + Len(d) /\ \A p \in 1 .. Len(a) : s[p] = a[p]
  BY ConcatProperties
<1> HIDE DEF s
<1>2. l \in Seq(X) /\ Len(l) = j - i + 1 /\ \A p \in 1 .. j - i + 1 : l[p] = s[i + p - 1]
  BY <1>1, StretchOf
<1>3. r \in Seq(X) /\ Len(r) = j - i + 1 /\ \A p \in 1 .. j - i + 1 : r[p] = a[i + p - 1]
  BY StretchOf
<1> HIDE DEF l, r
<1>4. \A p \in 1 .. Len(l) : l[p] = r[p]
  <2>1. \A p \in 1 .. j - i + 1 : i + p - 1 \in 1 .. Len(a)
    OBVIOUS
  <2> QED BY <2>1, <1>1, <1>2, <1>3
<1>5. l = r
  BY <1>2, <1>3, <1>4, SeqEqual
<1> QED BY <1>5 DEF l, r, s

\* A stretch of the second of two texts.
LEMMA StretchOfSecond ==
    ASSUME NEW X, NEW a \in Seq(X), NEW d \in Seq(X), NEW i \in Nat, NEW j \in Nat,
           1 <= i, i <= j + 1, j <= Len(d)
    PROVE  SubSeq(a \o d, Len(a) + i, Len(a) + j) = SubSeq(d, i, j)
<1> DEFINE s == a \o d
           l == SubSeq(s, Len(a) + i, Len(a) + j)
           r == SubSeq(d, i, j)
<1>1. s \in Seq(X) /\ Len(s) = Len(a) + Len(d)
      /\ \A p \in 1 .. Len(d) : s[Len(a) + p] = d[p]
  BY ConcatProperties
<1> HIDE DEF s
<1>2. l \in Seq(X) /\ Len(l) = j - i + 1
      /\ \A p \in 1 .. j - i + 1 : l[p] = s[Len(a) + i + p - 1]
  BY <1>1, StretchOf
<1>3. r \in Seq(X) /\ Len(r) = j - i + 1 /\ \A p \in 1 .. j - i + 1 : r[p] = d[i + p - 1]
  BY StretchOf
<1> HIDE DEF l, r
<1>4. \A p \in 1 .. Len(l) : l[p] = r[p]
  <2>1. \A p \in 1 .. j - i + 1 : i + p - 1 \in 1 .. Len(d)
                                  /\ Len(a) + i + p - 1 = Len(a) + (i + p - 1)
    OBVIOUS
  <2> QED BY <2>1, <1>1, <1>2, <1>3
<1>5. l = r
  BY <1>2, <1>3, <1>4, SeqEqual
<1> QED BY <1>5 DEF l, r, s

\* A stretch across both.
LEMMA StretchOfBoth ==
    ASSUME NEW X, NEW a \in Seq(X), NEW d \in Seq(X), NEW i \in Nat, NEW j \in Nat,
           1 <= i, i <= Len(a) + 1, j <= Len(d)
    PROVE  SubSeq(a \o d, i, Len(a) + j) = SubSeq(a, i, Len(a)) \o SubSeq(d, 1, j)
<1> DEFINE s == a \o d
           l == SubSeq(s, i, Len(a) + j)
           x == SubSeq(a, i, Len(a))
           y == SubSeq(d, 1, j)
           r == x \o y
<1>0. Len(a) \in Nat /\ Len(d) \in Nat
  OBVIOUS
<1>1. s \in Seq(X) /\ Len(s) = Len(a) + Len(d)
      /\ \A p \in 1 .. Len(a) + Len(d) : s[p] = IF p <= Len(a) THEN a[p] ELSE d[p - Len(a)]
  BY ConcatProperties
<1> HIDE DEF s
<1>2. l \in Seq(X) /\ Len(l) = Len(a) + j - i + 1
      /\ \A p \in 1 .. Len(a) + j - i + 1 : l[p] = s[i + p - 1]
  BY <1>0, <1>1, StretchOf
<1>3. x \in Seq(X) /\ Len(x) = Len(a) - i + 1
      /\ \A p \in 1 .. Len(a) - i + 1 : x[p] = a[i + p - 1]
  BY <1>0, StretchOf
<1>4. y \in Seq(X) /\ Len(y) = j /\ \A p \in 1 .. j : y[p] = d[p]
  <2>1. y \in Seq(X) /\ Len(y) = j - 1 + 1 /\ \A p \in 1 .. j - 1 + 1 : y[p] = d[1 + p - 1]
    BY <1>0, StretchOf
  <2> QED BY <2>1
<1> HIDE DEF l, x, y
<1>5. r \in Seq(X) /\ Len(r) = Len(x) + Len(y)
      /\ \A p \in 1 .. Len(x) + Len(y) : r[p] = IF p <= Len(x) THEN x[p] ELSE y[p - Len(x)]
  BY <1>3, <1>4, ConcatProperties
<1> HIDE DEF r
<1>6. ASSUME NEW p \in 1 .. Len(l) PROVE l[p] = r[p]
  <2>0. p \in Nat /\ 1 <= p /\ p <= Len(a) + j - i + 1 /\ i + p - 1 \in 1 .. Len(a) + Len(d)
    BY <1>0, <1>2
  <2>1. CASE p <= Len(x)
    <3>1. i + p - 1 <= Len(a) /\ p \in 1 .. Len(a) - i + 1
      BY <2>0, <2>1, <1>0, <1>3
    <3>2. l[p] = a[i + p - 1]
      BY <2>0, <3>1, <1>1, <1>2
    <3>3. r[p] = x[p]
      BY <2>0, <2>1, <1>0, <1>3, <1>4, <1>5
    <3> QED BY <3>1, <3>2, <3>3, <1>3
  <2>2. CASE p > Len(x)
    <3> DEFINE q == p - Len(x)
    <3>0. Len(x) \in Nat /\ Len(x) = Len(a) - i + 1
      BY <1>0, <1>3
    <3>1. ~(i + p - 1 <= Len(a)) /\ q = i + p - 1 - Len(a) /\ q \in Nat /\ 1 <= q /\ q <= j
          /\ ~(p <= Len(x)) /\ p \in 1 .. Len(x) + j
      BY <2>0, <2>2, <1>0, <3>0
    <3>2. q = p - Len(x)
      OBVIOUS
    <3> HIDE DEF q
    <3>3. l[p] = d[q]
      <4> DEFINE m == i + p - 1
      <4>0. m \in 1 .. Len(a) + Len(d) /\ ~(m <= Len(a)) /\ m - Len(a) = q
        BY <2>0, <3>1
      <4>1. l[p] = s[m]
        BY <1>2
      <4> HIDE DEF m
      <4>2. s[m] = IF m <= Len(a) THEN a[m] ELSE d[m - Len(a)]
        BY <4>0, <1>1
      <4> QED BY <4>0, <4>1, <4>2
    <3>4. r[p] = y[q]
      BY <3>1, <3>2, <1>4, <1>5
    <3>5. q \in 1 .. j
      BY <3>1
    <3> QED BY <3>3, <3>4, <3>5, <1>4
  <2> QED BY <2>1, <2>2, <2>0, <1>0, <1>3
<1>7. Len(l) = Len(r)
  BY <1>0, <1>2, <1>3, <1>4, <1>5
<1>8. l = r
  BY <1>2, <1>5, <1>6, <1>7, SeqEqual
<1> QED BY <1>8 DEF l, r, s, x, y
-----------------------------------------------------------------------------

\* From the place i of a to the place j of d.
Crosses(a, d, i, j) ==
    /\ i \in Nat /\ j \in Nat
    /\ 1 <= i /\ i <= Len(a) + 1 /\ j <= Len(d)

Crossing(a, d, i, j) == SubSeq(a \o d, i, Len(a) + j) = SubSeq(a, i, Len(a)) \o SubSeq(d, 1, j)

\* StretchOfBoth, under one name.
LEMMA CrossingIs ==
    ASSUME NEW X, NEW a \in Seq(X), NEW d \in Seq(X), NEW i, NEW j, Crosses(a, d, i, j)
    PROVE  Crossing(a, d, i, j)
<1>1. i \in Nat /\ j \in Nat /\ 1 <= i /\ i <= Len(a) + 1 /\ j <= Len(d)
  BY DEF Crosses
<1> QED BY <1>1, StretchOfBoth DEF Crossing

\* A line of s stands between i and j.
Cut(s, i, j) ==
    /\ i = 0 \/ i \in Newlines(s)
    /\ j \in Newlines(s) /\ i < j
    /\ \A k \in Nat : k \in Newlines(s) => k <= i \/ j <= k
LineAt(s, i, j) == SubSeq(s, i + 1, j - 1)
Rest(a, n) == SubSeq(a, n + 1, Len(a))
IsFirst(k, d) == k \in Newlines(d) /\ \A h \in Nat : h \in Newlines(d) => k <= h
IsLast(n, a) == (n = 0 \/ n \in Newlines(a)) /\ \A h \in Nat : h \in Newlines(a) => h <= n

\* A newline of a text is within it.
LEMMA NewlineIs ==
    ASSUME NEW X, NEW s \in Seq(X)
    PROVE  \A k : k \in Newlines(s) <=> k \in Nat /\ 1 <= k /\ k <= Len(s) /\ s[k] = Newline
BY DEF Newlines

\* Between, as the set of pairs in Lines has it.
LEMMA CutIs ==
    ASSUME NEW X, NEW s \in Seq(X), NEW i \in Nat, NEW j \in Nat
    PROVE  (i \in {0} \cup Newlines(s) /\ j \in Newlines(s) /\ Between(s, i, j)) <=> Cut(s, i, j)
<1>1. \A k : k \in Newlines(s) => k \in Nat
  BY NewlineIs
<1>2. Between(s, i, j) <=> i < j /\ \A k \in Nat : k \in Newlines(s) => ~(i < k /\ k < j)
  BY <1>1 DEF Between
<1>3. \A k \in Nat : ~(i < k /\ k < j) <=> k <= i \/ j <= k
  OBVIOUS
<1> QED BY <1>2, <1>3 DEF Cut

\* A line is what a cut is of.
LEMMA LineIs ==
    ASSUME NEW X, NEW s \in Seq(X)
    PROVE  \A l : l \in Lines(s) <=>
              \E i \in Nat, j \in Nat : Cut(s, i, j) /\ l = LineAt(s, i, j)
<1>1. \A k : k \in Newlines(s) => k \in Nat
  BY NewlineIs
<1>2. ASSUME NEW l \in Lines(s)
      PROVE  \E i \in Nat, j \in Nat : Cut(s, i, j) /\ l = LineAt(s, i, j)
  <2>1. PICK ij \in ({0} \cup Newlines(s)) \X Newlines(s) :
            Between(s, ij[1], ij[2]) /\ l = LineAt(s, ij[1], ij[2])
    BY DEF Lines, LineAt
  <2>2. ij[1] \in Nat /\ ij[2] \in Nat /\ ij[1] \in {0} \cup Newlines(s) /\ ij[2] \in Newlines(s)
    BY <1>1
  <2> QED BY <2>1, <2>2, CutIs
<1>3. ASSUME NEW i \in Nat, NEW j \in Nat, Cut(s, i, j) PROVE LineAt(s, i, j) \in Lines(s)
  <2>1. i \in {0} \cup Newlines(s) /\ j \in Newlines(s) /\ Between(s, i, j)
    BY <1>3, CutIs
  <2>2. <<i, j>> \in {ij \in ({0} \cup Newlines(s)) \X Newlines(s) : Between(s, ij[1], ij[2])}
    BY <2>1
  <2> DEFINE ij == <<i, j>>
  <2>3. ij[1] = i /\ ij[2] = j
    OBVIOUS
  <2> HIDE DEF ij
  <2>4. LineAt(s, ij[1], ij[2]) \in Lines(s)
    BY <2>2, Zenon DEF Lines, ij, LineAt
  <2> QED BY <2>3, <2>4
<1> QED BY <1>2, <1>3

\* The newlines of two texts are those of the first and, behind it, of the second.
LEMMA NewlinesOfBoth ==
    ASSUME NEW X, NEW a \in Seq(X), NEW d \in Seq(X)
    PROVE  /\ \A j \in Nat : j <= Len(a) => (j \in Newlines(a \o d) <=> j \in Newlines(a))
           /\ \A k \in Nat \ {0} : Len(a) + k \in Newlines(a \o d) <=> k \in Newlines(d)
           /\ \A j \in Nat : j > Len(a) /\ j \in Newlines(a \o d) => j - Len(a) \in Newlines(d)
<1>1. Len(a \o d) = Len(a) + Len(d) /\ Len(a) \in Nat /\ Len(d) \in Nat
      /\ \A p \in 1 .. Len(a) + Len(d) : (a \o d)[p] = IF p <= Len(a) THEN a[p] ELSE d[p - Len(a)]
  BY ConcatProperties
<1> QED BY <1>1 DEF Newlines

(***************************************************************************)
(* l is a line that d completes, with r before its first newline, or one   *)
(* behind it.                                                              *)
(***************************************************************************)
Completed(l, r, d) ==
    \/ \E h \in Nat, k \in Nat : h # 0 /\ Cut(d, h, k) /\ l = LineAt(d, h, k)
    \/ \E k \in Nat : IsFirst(k, d) /\ l = r \o LineAt(d, 0, k)

(***************************************************************************)
(* The lines of a stream that goes on with d: those there were, the one    *)
(* that d completes, and those in d behind it.                             *)
(***************************************************************************)
LEMMA LinesOfBoth ==
    ASSUME NEW X, NEW a \in Seq(X), NEW d \in Seq(X), NEW n \in Nat, IsLast(n, a)
    PROVE  \A l : l \in Lines(a \o d) <=> l \in Lines(a) \/ Completed(l, Rest(a, n), d)
<1> DEFINE s == a \o d
           A == Len(a)
           D == Len(d)
           NA == Newlines(a)
           ND == Newlines(d)
           NS == Newlines(s)
<1>0. A \in Nat /\ D \in Nat /\ s \in Seq(X)
  BY ConcatProperties
<1>1. /\ \A j \in Nat : j <= A => (j \in NS <=> j \in NA)
      /\ \A k \in Nat \ {0} : A + k \in NS <=> k \in ND
      /\ \A j \in Nat : j > A /\ j \in NS => j - A \in ND
  BY NewlinesOfBoth
<1>2. /\ \A k : k \in NA => k \in Nat /\ 1 <= k /\ k <= A
      /\ \A k : k \in ND => k \in Nat /\ 1 <= k /\ k <= D
      /\ \A k : k \in NS => k \in Nat /\ 1 <= k
  BY <1>0, NewlineIs
<1>3. n <= A
  BY <1>0, <1>2 DEF IsLast
<1>4. (n = 0 \/ n \in NA) /\ \A h \in Nat : h \in NA => h <= n
  BY DEF IsLast
<1>5. /\ \A i, j : Cut(s, i, j) <=> /\ i = 0 \/ i \in NS
                                    /\ j \in NS /\ i < j
                                    /\ \A k \in Nat : k \in NS => k <= i \/ j <= k
      /\ \A i, j : Cut(a, i, j) <=> /\ i = 0 \/ i \in NA
                                    /\ j \in NA /\ i < j
                                    /\ \A k \in Nat : k \in NA => k <= i \/ j <= k
      /\ \A i, j : Cut(d, i, j) <=> /\ i = 0 \/ i \in ND
                                    /\ j \in ND /\ i < j
                                    /\ \A k \in Nat : k \in ND => k <= i \/ j <= k
      /\ \A k : IsFirst(k, d) <=> k \in ND /\ \A h \in Nat : h \in ND => k <= h
  BY DEF Cut, IsFirst
<1> HIDE DEF NA, ND, NS
<1>6. ASSUME NEW i \in Nat, NEW j \in Nat, i < j, j <= A
      PROVE  /\ Cut(s, i, j) <=> Cut(a, i, j)
             /\ LineAt(s, i, j) = LineAt(a, i, j)
  <2>0. i <= A
    BY <1>0, <1>6
  <2>1. (i = 0 \/ i \in NS) <=> (i = 0 \/ i \in NA)
    BY <2>0, <1>1
  <2>2. j \in NS <=> j \in NA
    BY <1>1, <1>6
  <2>3. (\A k \in Nat : k \in NS => k <= i \/ j <= k)
        <=> (\A k \in Nat : k \in NA => k <= i \/ j <= k)
    <3>1. \A k \in Nat : (k \in NS => k <= i \/ j <= k) <=> (k \in NA => k <= i \/ j <= k)
      <4> SUFFICES ASSUME NEW k \in Nat
                   PROVE  (k \in NS => k <= i \/ j <= k) <=> (k \in NA => k <= i \/ j <= k)
        OBVIOUS
      <4>1. CASE k <= A
        BY <4>1, <1>1
      <4>2. CASE j <= k
        BY <4>2
      <4> QED BY <4>1, <4>2, <1>0, <1>6
    <3> QED BY <3>1
  <2>4. Cut(s, i, j) <=> Cut(a, i, j)
    BY <2>1, <2>2, <2>3, <1>5
  <2>5. i + 1 \in Nat /\ j - 1 \in Nat /\ 1 <= i + 1 /\ i + 1 <= j - 1 + 1 /\ j - 1 <= A
    BY <1>0, <1>6
  <2> QED BY <2>4, <2>5, StretchOfFirst DEF LineAt
<1>7. ASSUME NEW h \in Nat \ {0}, NEW k \in Nat, h < k, k <= D
      PROVE  /\ Cut(s, A + h, A + k) <=> Cut(d, h, k)
             /\ LineAt(s, A + h, A + k) = LineAt(d, h, k)
  <2>0. k \in Nat \ {0} /\ A + h # 0 /\ (A + h < A + k) /\ h # 0
    BY <1>0, <1>7
  <2>1. (A + h \in NS <=> h \in ND) /\ (A + k \in NS <=> k \in ND)
    BY <2>0, <1>1
  <2>2. ASSUME \A j \in Nat : j \in NS => j <= A + h \/ A + k <= j, NEW q \in Nat, q \in ND
        PROVE  q <= h \/ k <= q
    <3>1. q \in Nat \ {0}
      BY <1>2, <2>2
    <3>2. A + q \in NS /\ A + q \in Nat
      BY <3>1, <1>0, <1>1, <2>2
    <3>3. A + q <= A + h \/ A + k <= A + q
      BY <3>2, <2>2
    <3> QED BY <3>3, <1>0
  <2>3. ASSUME \A q \in Nat : q \in ND => q <= h \/ k <= q, NEW j \in Nat, j \in NS
        PROVE  j <= A + h \/ A + k <= j
    <3>1. CASE j <= A
      BY <3>1, <1>0
    <3>2. CASE j > A
      <4> DEFINE q == j - A
      <4>1. q \in ND /\ q \in Nat /\ j = A + q
        <5>1. q \in ND
          BY <3>2, <1>1, <2>3
        <5> QED BY <5>1, <3>2, <1>0
      <4> HIDE DEF q
      <4>2. q <= h \/ k <= q
        BY <4>1, <2>3
      <4> QED BY <4>1, <4>2, <1>0
    <3> QED BY <3>1, <3>2, <1>0
  <2>4. Cut(s, A + h, A + k) <=> Cut(d, h, k)
    BY <2>0, <2>1, <2>2, <2>3, <1>5, <1>7
  <2> DEFINE h1 == h + 1
             k1 == k - 1
             u == A + h
             v == A + k
  <2>5. h1 \in Nat /\ k1 \in Nat /\ 1 <= h1 /\ h1 <= k1 + 1 /\ k1 <= D
        /\ A + h1 = u + 1 /\ A + k1 = v - 1
    BY <1>0, <1>7
  <2> HIDE DEF h1, k1, u, v
  <2>6. SubSeq(s, u + 1, v - 1) = SubSeq(d, h1, k1)
    <3>1. SubSeq(s, A + h1, A + k1) = SubSeq(d, h1, k1)
      BY <2>5, StretchOfSecond
    <3> QED BY <3>1, <2>5
  <2>7. LineAt(s, u, v) = LineAt(d, h, k)
    BY <2>6 DEF h1, k1, LineAt
  <2> QED BY <2>4, <2>7 DEF u, v
<1>8. ASSUME NEW i \in Nat, i <= A, NEW k \in Nat, k \in ND
      PROVE  Cut(s, i, A + k) <=> i = n /\ IsFirst(k, d)
  <2>0. k \in Nat \ {0} /\ k <= D /\ i < A + k /\ A + k \in NS /\ A + k \in Nat
    BY <1>0, <1>1, <1>2, <1>8
  <2>1. (i = 0 \/ i \in NS) <=> (i = 0 \/ i \in NA)
    BY <1>0, <1>1, <1>8
  <2>2. n = 0 \/ n \in NS
    BY <1>0, <1>1, <1>3, <1>4
  <2>3. ASSUME Cut(s, i, A + k) PROVE i = n /\ IsFirst(k, d)
    <3>1. \A j \in Nat : j \in NS => j <= i \/ A + k <= j
      BY <2>3, <1>5
    <3>2. i <= n
      BY <2>1, <2>3, <1>4, <1>5
    <3>3. n <= i
      <4>1. CASE n = 0
        BY <4>1
      <4>2. CASE n \in NS
        <5>1. n <= i \/ A + k <= n
          BY <4>2, <3>1
        <5> QED BY <5>1, <2>0, <1>0, <1>3
      <4> QED BY <4>1, <4>2, <2>2
    <3>4. ASSUME NEW h \in Nat, h \in ND PROVE k <= h
      <4>1. h \in Nat \ {0}
        BY <1>2, <3>4
      <4>2. A + h \in NS /\ A + h \in Nat /\ ~(A + h <= i)
        BY <4>1, <1>0, <1>1, <1>8, <3>4
      <4>3. A + k <= A + h
        BY <4>2, <3>1
      <4> QED BY <4>3, <1>0
    <3> QED BY <3>2, <3>3, <3>4, <1>5, <1>8
  <2>4. ASSUME i = n, IsFirst(k, d) PROVE Cut(s, i, A + k)
    <3>1. ASSUME NEW j \in Nat, j \in NS PROVE j <= i \/ A + k <= j
      <4>1. CASE j <= A
        BY <4>1, <1>1, <1>4, <2>4, <3>1
      <4>2. CASE j > A
        <5>1. j - A \in ND /\ j - A \in Nat
          BY <4>2, <1>0, <1>1, <3>1
        <5>2. k <= j - A
          BY <5>1, <2>4, <1>5
        <5> QED BY <5>2, <1>0
      <4> QED BY <4>1, <4>2, <1>0
    <3> QED BY <3>1, <2>0, <2>2, <2>4, <1>5
  <2> QED BY <2>3, <2>4
<1>9. ASSUME NEW k \in Nat, k \in ND
      PROVE  LineAt(s, n, A + k) = Rest(a, n) \o LineAt(d, 0, k)
  <2> DEFINE i == n + 1
             j == k - 1
             v == A + k
  <2>1. i \in Nat /\ j \in Nat /\ 1 <= i /\ i <= A + 1 /\ j <= D /\ A + j = v - 1
    BY <1>0, <1>2, <1>3, <1>9
  <2> HIDE DEF i, j, v
  <2>2. SubSeq(s, i, v - 1) = SubSeq(a, i, A) \o SubSeq(d, 1, j)
    <3>1. SubSeq(s, i, A + j) = SubSeq(a, i, A) \o SubSeq(d, 1, j)
      <4>1. Crosses(a, d, i, j)
        BY <2>1 DEF Crosses
      <4>2. Crossing(a, d, i, j)
        BY <4>1, CrossingIs
      <4> QED BY <4>2 DEF Crossing
    <3> QED BY <2>1, <3>1
  <2>3. LineAt(s, n, v) = SubSeq(s, i, v - 1)
    BY DEF i, LineAt
  <2>4. LineAt(d, 0, k) = SubSeq(d, 1, j)
    BY DEF j, LineAt
  <2>5. Rest(a, n) = SubSeq(a, i, A)
    BY DEF i, Rest
  <2>6. LineAt(s, n, v) = Rest(a, n) \o LineAt(d, 0, k)
    BY <2>2, <2>3, <2>4, <2>5
  <2> QED BY <2>6 DEF v
<1>10. \A l : l \in Lines(s) <=>
          \E i \in Nat, j \in Nat : Cut(s, i, j) /\ l = LineAt(s, i, j)
  BY <1>0, LineIs
<1>11. \A l : l \in Lines(a) <=>
          \E i \in Nat, j \in Nat : Cut(a, i, j) /\ l = LineAt(a, i, j)
  BY LineIs
<1> HIDE DEF s, A, D
<1>12. ASSUME NEW i \in Nat, NEW j \in Nat, Cut(s, i, j), NEW l, l = LineAt(s, i, j)
       PROVE  \/ l \in Lines(a)
              \/ \E h \in Nat, k \in Nat : h # 0 /\ Cut(d, h, k) /\ l = LineAt(d, h, k)
              \/ \E k \in Nat : IsFirst(k, d) /\ l = Rest(a, n) \o LineAt(d, 0, k)
  <2>0. i < j /\ j \in NS
    BY <1>5, <1>12
  <2>1. CASE j <= A
    BY <2>0, <2>1, <1>6, <1>11, <1>12
  <2>2. CASE j > A /\ i > A
    <3> DEFINE h == i - A
               k == j - A
    <3>1. h \in Nat \ {0} /\ k \in Nat /\ i = A + h /\ j = A + k /\ h < k /\ h # 0
      BY <2>0, <2>2, <1>0
    <3>2. k \in ND
      BY <2>0, <2>2, <1>1
    <3> HIDE DEF h, k
    <3>3. k <= D
      BY <3>2, <1>2
    <3>4. Cut(d, h, k) /\ LineAt(s, A + h, A + k) = LineAt(d, h, k)
      BY <3>1, <3>3, <1>7, <1>12
    <3>5. l = LineAt(d, h, k)
      <4>1. i = A + h /\ j = A + k
        BY <3>1
      <4> QED BY <4>1, <3>4, <1>12, Zenon
    <3> QED BY <3>1, <3>4, <3>5
  <2>3. CASE j > A /\ i <= A
    <3> DEFINE k == j - A
    <3>1. k \in Nat /\ j = A + k
      BY <2>3, <1>0
    <3>2. k \in ND
      BY <2>0, <2>3, <1>1
    <3> HIDE DEF k
    <3>3. i = n /\ IsFirst(k, d)
      BY <3>1, <3>2, <2>3, <1>8, <1>12
    <3>4. LineAt(s, n, A + k) = Rest(a, n) \o LineAt(d, 0, k)
      BY <3>1, <3>2, <1>9
    <3>5. i = n /\ j = A + k
      BY <3>1, <3>3
    <3>6. l = Rest(a, n) \o LineAt(d, 0, k)
      BY <3>4, <3>5, <1>12, Zenon
    <3>7. k \in Nat /\ IsFirst(k, d)
      BY <3>1, <3>3
    <3> QED BY <3>6, <3>7, Zenon
  <2>4. j <= A \/ (j > A /\ i > A) \/ (j > A /\ i <= A)
    BY <1>0
  <2> QED BY <2>1, <2>2, <2>3, <2>4, Zenon
<1>13. ASSUME NEW l, l \in Lines(a) PROVE l \in Lines(s)
  <2>1. PICK i \in Nat, j \in Nat : Cut(a, i, j) /\ l = LineAt(a, i, j)
    BY <1>11, <1>13
  <2>2. i < j /\ j <= A
    BY <2>1, <1>2, <1>5
  <2> QED BY <2>1, <2>2, <1>6, <1>10
<1>14. ASSUME NEW h \in Nat, NEW k \in Nat, h # 0, Cut(d, h, k)
       PROVE  LineAt(d, h, k) \in Lines(s)
  <2>1. h \in Nat \ {0} /\ h < k /\ k <= D /\ A + h \in Nat /\ A + k \in Nat
    BY <1>0, <1>2, <1>5, <1>14
  <2>2. Cut(s, A + h, A + k) /\ LineAt(s, A + h, A + k) = LineAt(d, h, k)
    BY <2>1, <1>7, <1>14
  <2>3. LineAt(s, A + h, A + k) \in Lines(s)
    BY <2>1, <2>2, <1>10, Zenon
  <2> QED BY <2>2, <2>3, Zenon
<1>15. ASSUME NEW k \in Nat, IsFirst(k, d)
       PROVE  Rest(a, n) \o LineAt(d, 0, k) \in Lines(s)
  <2>1. k \in ND /\ A + k \in Nat
    BY <1>0, <1>5, <1>15
  <2>2. Cut(s, n, A + k)
    BY <2>1, <1>3, <1>8, <1>15
  <2>3. LineAt(s, n, A + k) = Rest(a, n) \o LineAt(d, 0, k)
    BY <2>1, <1>9
  <2>4. LineAt(s, n, A + k) \in Lines(s)
    BY <2>1, <2>2, <1>10, Zenon
  <2> QED BY <2>3, <2>4, Zenon
<1>16. ASSUME NEW l, l \in Lines(s)
       PROVE  \/ l \in Lines(a)
              \/ \E h \in Nat, k \in Nat : h # 0 /\ Cut(d, h, k) /\ l = LineAt(d, h, k)
              \/ \E k \in Nat : IsFirst(k, d) /\ l = Rest(a, n) \o LineAt(d, 0, k)
  <2>1. PICK i \in Nat, j \in Nat : Cut(s, i, j) /\ l = LineAt(s, i, j)
    BY <1>10, <1>16
  <2> QED BY <2>1, <1>12, Zenon
<1>17. \A l : l \in Lines(s) <=>
           \/ l \in Lines(a)
           \/ \E h \in Nat, k \in Nat : h # 0 /\ Cut(d, h, k) /\ l = LineAt(d, h, k)
           \/ \E k \in Nat : IsFirst(k, d) /\ l = Rest(a, n) \o LineAt(d, 0, k)
  BY <1>13, <1>14, <1>15, <1>16, Zenon
<1>18. \A l : l \in Lines(s) <=> l \in Lines(a) \/ Completed(l, Rest(a, n), d)
  BY <1>17, Zenon DEF Completed
<1> QED BY <1>18 DEF s

-----------------------------------------------------------------------------
(***************************************************************************)
(* A set of numbers with a bound has a largest one.                        *)
(***************************************************************************)
LEMMA MaxExists ==
    ASSUME NEW S \in SUBSET Nat, S # {}, NEW B \in Nat, \A x \in S : x <= B
    PROVE  Max(S) \in S /\ \A y \in S : y <= Max(S)
<1> DEFINE P == {b \in Nat : \A T \in SUBSET Nat : T # {} /\ (\A x \in T : x <= b)
                                => \E m \in T : \A y \in T : m >= y}
<1>1. 0 \in P
  <2> SUFFICES ASSUME NEW T \in SUBSET Nat, T # {}, \A x \in T : x <= 0
               PROVE  \E m \in T : \A y \in T : m >= y
    OBVIOUS
  <2>1. PICK m \in T : TRUE
    OBVIOUS
  <2>2. ASSUME NEW y \in T PROVE m >= y
    <3>1. y \in Nat /\ m \in Nat /\ y <= 0
      OBVIOUS
    <3> QED BY <3>1
  <2> QED BY <2>2
<1>2. ASSUME NEW b \in P PROVE b + 1 \in P
  <2> SUFFICES ASSUME NEW T \in SUBSET Nat, T # {}, \A x \in T : x <= b + 1
               PROVE  \E m \in T : \A y \in T : m >= y
    OBVIOUS
  <2>1. CASE b + 1 \in T
    BY <2>1
  <2>2. CASE b + 1 \notin T
    <3>1. ASSUME NEW x \in T PROVE x <= b
      <4>1. x \in Nat /\ x <= b + 1 /\ x # b + 1 /\ b \in Nat
        BY <2>2
      <4> QED BY <4>1
    <3> QED BY <3>1
  <2> QED BY <2>1, <2>2
<1> HIDE DEF P
<1>3. P = Nat
  <2>1. P \in SUBSET Nat
    BY DEF P
  <2> QED BY <1>1, <1>2, <2>1, NatInd
<1>4. B \in P
  BY <1>3
<1>5. \E m \in S : \A y \in S : m >= y
  BY <1>4 DEF P
<1>6. Max(S) \in S /\ \A y \in S : Max(S) >= y
  BY <1>5, Zenon DEF Max
<1>7. ASSUME NEW y \in S PROVE y <= Max(S)
  <2>1. y \in Nat /\ Max(S) \in Nat /\ Max(S) >= y
    BY <1>6
  <2> QED BY <2>1
<1> QED BY <1>6, <1>7

(***************************************************************************)
(* Counts, and their order.                                                *)
(***************************************************************************)
Counts == [in : Nat, out : Nat]
AtMost(t, u) == t.in <= u.in /\ t.out <= u.out

\* What a line counts is a pair of counts.
LEMMA UsageIsCounts == \A l : Usage(l) \in Counts
BY RelayAssumptions DEF Usage, Counts, None

\* No usage in a text over X is larger than B.
Bounds(X, B) == \A x \in X : x \in DOMAIN UsageOf => UsageOf[x].in <= B /\ UsageOf[x].out <= B

\* A text is finite, so that what its lines count has a bound.
LEMMA BoundExists ==
    ASSUME NEW s, s \in Seq(ToSet(s))
    PROVE  \E B \in Nat : Bounds(ToSet(s), B)
<1> DEFINE X == ToSet(s)
           Q(n) == \E B \in Nat : Bounds({s[i] : i \in 1 .. n}, B)
           P == {n \in Nat : n <= Len(s) => Q(n)}
<1>0. Len(s) \in Nat
  OBVIOUS
<1>1. 0 \in P
  <2>1. {s[i] : i \in 1 .. 0} = {}
    OBVIOUS
  <2> QED BY <2>1 DEF Bounds
<1>2. ASSUME NEW n \in P PROVE n + 1 \in P
  <2>0. n \in Nat
    OBVIOUS
  <2> HIDE DEF Q
  <2> SUFFICES ASSUME n + 1 <= Len(s) PROVE Q(n + 1)
    BY <2>0
  <2>a. Q(n)
    <3>1. n <= Len(s)
      BY <1>0, <2>0
    <3> QED BY <3>1
  <2>1. PICK B \in Nat : Bounds({s[i] : i \in 1 .. n}, B)
    BY <2>a DEF Q
  <2>2. {s[i] : i \in 1 .. n + 1} = {s[i] : i \in 1 .. n} \cup {s[n + 1]}
    <3>1. 1 .. n + 1 = (1 .. n) \cup {n + 1}
      BY <2>0
    <3> QED BY <3>1
  <2>3. CASE s[n + 1] \notin DOMAIN UsageOf
    BY <2>1, <2>2, <2>3 DEF Bounds, Q
  <2>4. CASE s[n + 1] \in DOMAIN UsageOf
    <3> DEFINE u == UsageOf[s[n + 1]]
               C == B + u.in + u.out
    <3>1. u \in Counts
      BY <2>4, RelayAssumptions DEF Counts
    <3>2. u.in \in Nat /\ u.out \in Nat
      BY <3>1 DEF Counts
    <3> HIDE DEF u
    <3>3. C \in Nat /\ B <= C /\ u.in <= C /\ u.out <= C
      BY <3>2
    <3> HIDE DEF C
    <3>4. ASSUME NEW x, x \in {s[i] : i \in 1 .. n}, x \in DOMAIN UsageOf
          PROVE  UsageOf[x].in <= C /\ UsageOf[x].out <= C
      <4> DEFINE p == UsageOf[x].in
                 q == UsageOf[x].out
      <4>1. p \in Nat /\ q \in Nat
        BY <3>4, RelayAssumptions
      <4>2. p <= B /\ q <= B
        BY <2>1, <3>4 DEF Bounds
      <4> HIDE DEF p, q
      <4>3. p <= C /\ q <= C
        BY <3>3, <4>1, <4>2
      <4> QED BY <4>3 DEF p, q
    <3>5. UsageOf[s[n + 1]].in <= C /\ UsageOf[s[n + 1]].out <= C
      BY <3>3 DEF u
    <3>6. Bounds({s[i] : i \in 1 .. n + 1}, C)
      BY <2>2, <3>4, <3>5, Zenon DEF Bounds
    <3> QED BY <3>3, <3>6 DEF Q
  <2> QED BY <2>3, <2>4
<1>3. P = Nat
  <2> HIDE DEF P
  <2>1. P \in SUBSET Nat
    BY DEF P
  <2> QED BY <1>1, <1>2, <2>1, NatInd
<1>4. Len(s) \in Nat
  OBVIOUS
<1>5. \E B \in Nat : Bounds({s[i] : i \in 1 .. Len(s)}, B)
  <2> HIDE DEF Q
  <2>1. Len(s) \in P
    <3> HIDE DEF P
    <3> QED BY <1>3, <1>4
  <2>2. Q(Len(s))
    BY <1>4, <2>1
  <2> QED BY <2>2 DEF Q
<1>6. {s[i] : i \in 1 .. Len(s)} = ToSet(s)
  BY DEF ToSet
<1> QED BY <1>5, <1>6

\* A line over X counts no more than X's bound.
LEMMA UsageInBounds ==
    ASSUME NEW X, NEW B \in Nat, Bounds(X, B), NEW l \in Seq(X)
    PROVE  Usage(l).in <= B /\ Usage(l).out <= B
<1>1. CASE Usage(l) = None
  BY <1>1 DEF None
<1>2. CASE Usage(l) # None
  <2>1. Len(l) = 3 /\ l[2] \in DOMAIN UsageOf /\ Usage(l) = UsageOf[l[2]]
    BY <1>2 DEF Usage
  <2>2. l[2] \in X
    <3>1. 2 \in 1 .. Len(l)
      BY <2>1
    <3> QED BY <3>1, ElementOfSeq
  <2> QED BY <2>1, <2>2 DEF Bounds
<1> QED BY <1>1, <1>2


\* The lines of a text over X are texts over X.
LEMMA LinesAreTexts ==
    ASSUME NEW X, NEW s \in Seq(X), NEW l \in Lines(s) PROVE l \in Seq(X)
<1>1. PICK i \in Nat, j \in Nat : Cut(s, i, j) /\ l = LineAt(s, i, j)
  BY LineIs
<1>2. i < j /\ j <= Len(s)
  BY <1>1, NewlineIs DEF Cut
<1> DEFINE p == i + 1
           q == j - 1
<1>3. p \in Nat /\ q \in Nat /\ 1 <= p /\ p <= q + 1 /\ q <= Len(s)
  BY <1>2
<1>4. l = SubSeq(s, p, q)
  BY <1>1 DEF LineAt
<1> HIDE DEF p, q
<1> QED BY <1>3, <1>4, StretchOf

\* S is the count t and those f gives the lines L, none above B.
Collects(S, t, L, f, B) ==
    /\ t \in Nat /\ B \in Nat /\ \A l \in L : f[l] \in Nat /\ f[l] <= B
    /\ t \in S /\ \A l \in L : f[l] \in S
    /\ \A x \in S : x = t \/ \E l \in L : x = f[l]

(***************************************************************************)
(* What a scan of some lines makes of a count: at least what it was and    *)
(* what each line has, and no more than one of them.                       *)
(***************************************************************************)
LEMMA LargestOf ==
    ASSUME NEW S, NEW t, NEW L, NEW f, NEW B, Collects(S, t, L, f, B)
    PROVE  /\ Max(S) \in Nat /\ t <= Max(S)
           /\ \A l \in L : f[l] <= Max(S)
           /\ Max(S) = t \/ \E l \in L : Max(S) = f[l]
<1> USE DEF Collects
<1> DEFINE C == B + t
<1>1. S \in SUBSET Nat /\ S # {} /\ C \in Nat
  OBVIOUS
<1>2. ASSUME NEW x \in S PROVE x <= C
  <2>1. CASE x = t
    BY <2>1
  <2>2. CASE x # t
    <3>1. PICK l \in L : x = f[l]
      BY <2>2
    <3>2. x \in Nat /\ x <= B
      BY <3>1
    <3> QED BY <3>2
  <2> QED BY <2>1, <2>2
<1> HIDE DEF C
<1>3. Max(S) \in S /\ \A y \in S : y <= Max(S)
  BY <1>1, <1>2, MaxExists
<1> QED BY <1>1, <1>3

\* The scan of a set of lines, as counts.
LEMMA ScanIs ==
    ASSUME NEW X, NEW B \in Nat, Bounds(X, B), NEW t \in Counts, NEW L \in SUBSET Seq(X)
    PROVE  LET u == Scan(t, L) IN
              /\ u \in Counts /\ AtMost(t, u)
              /\ \A l \in L : AtMost(Usage(l), u)
              /\ u.in = t.in \/ \E l \in L : u.in = Usage(l).in
              /\ u.out = t.out \/ \E l \in L : u.out = Usage(l).out
<1> DEFINE f == [l \in L |-> Usage(l).in]
           g == [l \in L |-> Usage(l).out]
           a == t.in
           b == t.out
           S == {a} \cup {Usage(l).in : l \in L}
           R == {b} \cup {Usage(l).out : l \in L}
<1>1. a \in Nat /\ b \in Nat
  BY DEF Counts
<1>2. \A l \in L : Usage(l).in \in Nat /\ Usage(l).in <= B
                  /\ Usage(l).out \in Nat /\ Usage(l).out <= B
  BY UsageIsCounts, UsageInBounds DEF Counts
<1>3. \A l \in L : f[l] = Usage(l).in /\ g[l] = Usage(l).out
  OBVIOUS
<1> HIDE DEF f, g, a, b
<1>4. a \in S /\ (\A l \in L : f[l] \in S) /\ \A x \in S : x = a \/ \E l \in L : x = f[l]
  BY <1>3
<1>5. b \in R /\ (\A l \in L : g[l] \in R) /\ \A x \in R : x = b \/ \E l \in L : x = g[l]
  BY <1>3
<1>6. Scan(t, L) = [in |-> Max(S), out |-> Max(R)]
  BY DEF Scan, a, b
<1> HIDE DEF S, R
<1>7. \A l \in L : f[l] \in Nat /\ f[l] <= B /\ g[l] \in Nat /\ g[l] <= B
  BY <1>2, <1>3
<1>b. Collects(S, a, L, f, B) /\ Collects(R, b, L, g, B)
  BY <1>1, <1>4, <1>5, <1>7 DEF Collects
<1>8. /\ Max(S) \in Nat /\ a <= Max(S) /\ \A l \in L : f[l] <= Max(S)
      /\ Max(S) = a \/ \E l \in L : Max(S) = f[l]
  BY <1>b, LargestOf
<1>9. /\ Max(R) \in Nat /\ b <= Max(R) /\ \A l \in L : g[l] <= Max(R)
      /\ Max(R) = b \/ \E l \in L : Max(R) = g[l]
  BY <1>b, LargestOf
<1>10. Scan(t, L) \in Counts /\ Scan(t, L).in = Max(S) /\ Scan(t, L).out = Max(R)
  BY <1>6, <1>8, <1>9 DEF Counts
<1> QED BY <1>3, <1>8, <1>9, <1>10 DEF AtMost, a, b

(***************************************************************************)
(* What the scanner may hold of a line r: an end of it, and all of it when *)
(* the line is not over the cap.                                           *)
(***************************************************************************)
Held(X, p, r) ==
    /\ \E x \in Seq(X) : r = x \o p
    /\ Len(r) <= MaxLine => p = r

\* A line is held as a whole at first.
LEMMA HeldAll == ASSUME NEW X, NEW r \in Seq(X) PROVE Held(X, r, r)
<1>1. r = <<>> \o r /\ <<>> \in Seq(X)
  BY ConcatEmptySeq, EmptySeq
<1> QED BY <1>1 DEF Held

\* More of the line comes, and is held.
LEMMA HeldGrows ==
    ASSUME NEW X, NEW p \in Seq(X), NEW r \in Seq(X), NEW y \in Seq(X), Held(X, p, r)
    PROVE  Held(X, p \o y, r \o y)
<1>1. PICK x \in Seq(X) : r = x \o p
  BY DEF Held
<1>2. r \o y = x \o (p \o y)
  BY <1>1, ConcatAssociative
<1>3. Len(r \o y) = Len(r) + Len(y) /\ Len(r) \in Nat /\ Len(y) \in Nat
  BY ConcatProperties
<1>4. Len(r \o y) <= MaxLine => Len(r) <= MaxLine
  BY <1>3, RelayAssumptions
<1>5. Len(r \o y) <= MaxLine => p \o y = r \o y
  BY <1>4, Zenon DEF Held
<1> QED BY <1>2, <1>5 DEF Held

\* A line over the cap is dropped.
LEMMA HeldNone ==
    ASSUME NEW X, NEW r \in Seq(X), ~(Len(r) <= MaxLine) PROVE Held(X, <<>>, r)
BY ConcatEmptySeq DEF Held

(***************************************************************************)
(* A tally is sound for the lines seen: as large as the usage of each line *)
(* that is not over the cap, and each count is nothing or that of a line,  *)
(* or of the end of a line over the cap.                                   *)
(***************************************************************************)
Sound(X, t, L) ==
    /\ t \in Counts
    /\ \A l \in L : Len(l) <= MaxLine => AtMost(Usage(l), t)
    /\ t.in = 0 \/ \E l \in L, p \in Seq(X) : Held(X, p, l) /\ t.in = Usage(p).in
    /\ t.out = 0 \/ \E l \in L, p \in Seq(X) : Held(X, p, l) /\ t.out = Usage(p).out

\* AtMost is transitive.
LEMMA AtMostTrans ==
    ASSUME NEW t \in Counts, NEW u \in Counts, NEW v \in Counts, AtMost(t, u), AtMost(u, v)
    PROVE  AtMost(t, v)
BY DEF AtMost, Counts

(***************************************************************************)
(* A sound tally stays sound when lines arrive and what is held of each is *)
(* scanned, and nothing else.                                              *)
(***************************************************************************)
Takes(X, t, u, K, L, M) ==
    /\ L \subseteq M /\ u \in Counts /\ AtMost(t, u) /\ K \subseteq Seq(X)
    /\ \A l \in M : l \in L \/ \E p \in K : Held(X, p, l)
    /\ \A p \in K : AtMost(Usage(p), u) /\ \E l \in M : Held(X, p, l)
    /\ u.in = t.in \/ \E p \in K : u.in = Usage(p).in
    /\ u.out = t.out \/ \E p \in K : u.out = Usage(p).out

\* The count stays sound when the lines behind a chunk's newlines are taken.
LEMMA SoundGrows ==
    ASSUME NEW X, NEW t, NEW u, NEW K, NEW L, NEW M, Sound(X, t, L), Takes(X, t, u, K, L, M)
    PROVE  Sound(X, u, M)
<1> USE DEF Takes
<1>1. ASSUME NEW l \in M, Len(l) <= MaxLine PROVE AtMost(Usage(l), u)
  <2>1. CASE l \in L
    <3>1. t \in Counts /\ AtMost(Usage(l), t)
      BY <1>1, <2>1 DEF Sound
    <3> QED BY <3>1, AtMostTrans, UsageIsCounts
  <2>2. CASE l \notin L
    <3>1. PICK p \in K : Held(X, p, l)
      BY <2>2
    <3>2. p = l
      BY <1>1, <3>1 DEF Held
    <3> QED BY <3>2
  <2> QED BY <2>1, <2>2
<1>2. u.in = 0 \/ \E l \in M, p \in Seq(X) : Held(X, p, l) /\ u.in = Usage(p).in
  <2>1. CASE u.in = t.in
    BY <2>1 DEF Sound
  <2>2. CASE \E p \in K : u.in = Usage(p).in
    BY <2>2
  <2> QED BY <2>1, <2>2
<1>3. u.out = 0 \/ \E l \in M, p \in Seq(X) : Held(X, p, l) /\ u.out = Usage(p).out
  <2>1. CASE u.out = t.out
    BY <2>1 DEF Sound
  <2>2. CASE \E p \in K : u.out = Usage(p).out
    BY <2>2
  <2> QED BY <2>1, <2>2
<1> QED BY <1>1, <1>2, <1>3 DEF Sound

-----------------------------------------------------------------------------
(***************************************************************************)
(* What is behind no newline adds no line.                                 *)
(***************************************************************************)
LEMMA QuietAddsNoLine ==
    ASSUME NEW X, NEW a \in Seq(X), NEW d \in Seq(X), Newlines(d) = {}, NEW n \in Nat, IsLast(n, a)
    PROVE  /\ Lines(a \o d) = Lines(a)
           /\ IsLast(n, a \o d)
           /\ Rest(a \o d, n) = Rest(a, n) \o d
<1>1. \A h, k : ~Cut(d, h, k) /\ ~IsFirst(k, d)
  BY DEF Cut, IsFirst
<1>2. Lines(a \o d) = Lines(a)
  <2>1. \A l : l \in Lines(a \o d) <=> l \in Lines(a)
    <3>1. \A l : ~Completed(l, Rest(a, n), d)
      BY <1>1 DEF Completed
    <3> QED BY <3>1, LinesOfBoth
  <2> QED BY <2>1, Zenon
<1>3. /\ n <= Len(a) /\ Len(a) \in Nat /\ Len(d) \in Nat
      /\ Len(a \o d) = Len(a) + Len(d) /\ a \o d \in Seq(X)
  BY NewlineIs, ConcatProperties DEF IsLast
<1>4. ASSUME NEW h \in Nat, h \in Newlines(a \o d) PROVE h \in Newlines(a)
  <2>1. CASE h <= Len(a)
    BY <1>4, <2>1, NewlinesOfBoth
  <2>2. CASE h > Len(a)
    BY <1>4, <2>2, NewlinesOfBoth
  <2> QED BY <2>1, <2>2, <1>3
<1>5. n = 0 \/ n \in Newlines(a \o d)
  BY <1>3, NewlinesOfBoth DEF IsLast
<1>6. IsLast(n, a \o d)
  BY <1>4, <1>5 DEF IsLast
<1>7. Rest(a \o d, n) = Rest(a, n) \o d
  <2> DEFINE i == n + 1
             j == Len(d)
             L == Len(a \o d)
  <2>1. i \in Nat /\ j \in Nat /\ 1 <= i /\ i <= Len(a) + 1 /\ j <= Len(d) /\ L = Len(a) + j
    BY <1>3
  <2>2. SubSeq(d, 1, Len(d)) = d
    BY SubSeqFull
  <2> HIDE DEF i, j, L
  <2>3. SubSeq(a \o d, i, Len(a) + j) = SubSeq(a, i, Len(a)) \o SubSeq(d, 1, j)
    <3>1. Crosses(a, d, i, j)
      BY <2>1 DEF Crosses
    <3>2. Crossing(a, d, i, j)
      BY <3>1, CrossingIs
    <3> QED BY <3>2 DEF Crossing
  <2>4. SubSeq(a \o d, i, L) = SubSeq(a, i, Len(a)) \o SubSeq(d, 1, j)
    BY <2>1, <2>3
  <2> QED BY <2>2, <2>4 DEF i, j, L, Rest
<1> QED BY <1>2, <1>6, <1>7

(***************************************************************************)
(* What is behind the last newline of a text that ends in one: nothing.    *)
(***************************************************************************)
LEMMA NothingBehind ==
    ASSUME NEW X, NEW a \in Seq(X), IsLast(Len(a), a) PROVE Rest(a, Len(a)) = <<>>
BY SubSeqEmpty DEF Rest

\* What is behind the last newline is a text.
LEMMA RestIsText ==
    ASSUME NEW X, NEW a \in Seq(X), NEW n \in Nat, IsLast(n, a) PROVE Rest(a, n) \in Seq(X)
<1>1. n <= Len(a) /\ Len(a) \in Nat
  BY NewlineIs DEF IsLast
<1> DEFINE i == n + 1
<1>2. i \in Nat /\ 1 <= i /\ i <= Len(a) + 1
  BY <1>1
<1> HIDE DEF i
<1>3. SubSeq(a, i, Len(a)) \in Seq(X)
  BY <1>1, <1>2, StretchOf
<1> QED BY <1>3 DEF i, Rest

(***************************************************************************)
(* A newline at the end of what is put behind a is the last of both.       *)
(***************************************************************************)
LEMMA LastOfBoth ==
    ASSUME NEW X, NEW a \in Seq(X), NEW e \in Seq(X), Len(e) # 0, IsLast(Len(e), e)
    PROVE  IsLast(Len(a \o e), a \o e)
<1>1. Len(a) \in Nat /\ Len(e) \in Nat \ {0} /\ Len(a \o e) = Len(a) + Len(e) /\ a \o e \in Seq(X)
  BY ConcatProperties
<1>2. Len(e) \in Newlines(e)
  BY DEF IsLast
<1>3. Len(a \o e) \in Newlines(a \o e)
  BY <1>1, <1>2, NewlinesOfBoth
<1>4. \A h \in Nat : h \in Newlines(a \o e) => h <= Len(a \o e)
  BY <1>1, NewlineIs
<1> QED BY <1>3, <1>4 DEF IsLast

(***************************************************************************)
(* A chunk up to its last newline, and behind it.                          *)
(***************************************************************************)
LEMMA LastNewlineIs ==
    ASSUME NEW X, NEW c \in Seq(X)
    PROVE  LastNewline(c) \in Nat /\ LastNewline(c) <= Len(c) /\ IsLast(LastNewline(c), c)
<1> DEFINE S == {0} \cup Newlines(c)
           m == Max(S)
<1>1. S \in SUBSET Nat /\ S # {} /\ Len(c) \in Nat
  BY NewlineIs
<1>2. \A x \in S : x <= Len(c)
  BY <1>1, NewlineIs
<1>3. \A x : x \in S <=> x = 0 \/ x \in Newlines(c)
  OBVIOUS
<1>4. LastNewline(c) = m
  BY DEF LastNewline
<1> HIDE DEF S
<1>5. m \in S /\ \A y \in S : y <= m
  BY <1>1, <1>2, MaxExists
<1> HIDE DEF m
<1>6. /\ m \in Nat /\ m <= Len(c) /\ (m = 0 \/ m \in Newlines(c))
      /\ \A h \in Nat : h \in Newlines(c) => h <= m
  BY <1>1, <1>2, <1>3, <1>5
<1> QED BY <1>4, <1>6 DEF IsLast

\* Of m places, the place p behind last, counted from the first.
PastLast(last, m, p) ==
    /\ last + p = last + 1 + p - 1
    /\ last + p \in Nat /\ 1 <= last + p /\ last + p <= m /\ ~(last + p <= last)

LEMMA PlaceBehind ==
    ASSUME NEW last \in Nat, NEW m \in Nat, NEW p \in 1 .. m - (last + 1) + 1
    PROVE  PastLast(last, m, p)
BY DEF PastLast

\* The chunk c, and what it is up to its last newline and behind it.
Parts(X, c, last, e, f) ==
    /\ last \in Nat /\ e \in Seq(X) /\ f \in Seq(X) /\ c = e \o f
    /\ Len(e) = last /\ Newlines(f) = {}
    /\ IsLast(last, e)

\* A chunk is what is up to its last newline and what is behind it.
LEMMA ChunkParts ==
    ASSUME NEW X, NEW c \in Seq(X), NEW last, last = LastNewline(c),
           NEW e, e = SubSeq(c, 1, last), NEW f, f = SubSeq(c, last + 1, Len(c))
    PROVE  Parts(X, c, last, e, f)
<1>1. last \in Nat /\ last <= Len(c) /\ IsLast(last, c) /\ Len(c) \in Nat
  BY LastNewlineIs
<1>2. e \in Seq(X) /\ Len(e) = last /\ \A p \in 1 .. last : e[p] = c[p]
  <2>1. e \in Seq(X) /\ Len(e) = last - 1 + 1 /\ \A p \in 1 .. last - 1 + 1 : e[p] = c[1 + p - 1]
    BY <1>1, StretchOf
  <2> QED BY <1>1, <2>1
<1> DEFINE i == last + 1
<1>3. i \in Nat /\ 1 <= i /\ i <= Len(c) + 1 /\ f = SubSeq(c, i, Len(c))
  BY <1>1
<1> HIDE DEF i
<1>4. f \in Seq(X) /\ Len(f) = Len(c) - i + 1 /\ \A p \in 1 .. Len(c) - i + 1 : f[p] = c[i + p - 1]
  <2> DEFINE m == Len(c)
  <2>1. m \in Nat /\ i <= m + 1 /\ m <= Len(c)
    BY <1>1, <1>3
  <2> HIDE DEF m
  <2>2. /\ SubSeq(c, i, m) \in Seq(X) /\ Len(SubSeq(c, i, m)) = m - i + 1
        /\ \A p \in 1 .. m - i + 1 : SubSeq(c, i, m)[p] = c[i + p - 1]
    BY <2>1, <1>3, StretchOf, SMTT(30)
  <2>3. f = SubSeq(c, i, m)
    BY <1>3 DEF m
  <2>4. f \in Seq(X) /\ Len(f) = m - i + 1 /\ \A p \in 1 .. m - i + 1 : f[p] = c[i + p - 1]
    BY <2>2, <2>3
  <2> QED BY <2>4 DEF m
<1>5. ASSUME NEW p \in Nat, p \in Newlines(f) PROVE FALSE
  <2>1. 1 <= p /\ p <= Len(f) /\ f[p] = Newline
    BY <1>4, <1>5, NewlineIs
  <2> DEFINE q == last + p
  <2>2. /\ p \in 1 .. Len(c) - i + 1 /\ q = i + p - 1
        /\ q \in Nat /\ 1 <= q /\ q <= Len(c) /\ ~(q <= last)
    <3>1. p \in 1 .. Len(c) - (last + 1) + 1
      <4> DEFINE w == Len(c) - (last + 1) + 1
      <4>1. p \in Nat /\ 1 <= p /\ p <= w
        BY <2>1, <1>4 DEF i
      <4>2. w \in Int
        BY <1>1
      <4> HIDE DEF w
      <4>3. p \in 1 .. w
        BY <4>1, <4>2
      <4> QED BY <4>3 DEF w
    <3>2. last \in Nat /\ Len(c) \in Nat
      BY <1>1
    <3>3. PastLast(last, Len(c), p)
      BY <3>1, <3>2, PlaceBehind
    <3> QED BY <3>1, <3>3 DEF PastLast, i
  <2> HIDE DEF q
  <2>3. f[p] = c[q]
    BY <2>2, <1>4
  <2>4. q \in Newlines(c)
    BY <2>1, <2>2, <2>3, NewlineIs
  <2> QED BY <2>2, <2>4, <1>1 DEF IsLast
<1>6. Newlines(f) = {}
  BY <1>4, <1>5, NewlineIs
<1>7. c = e \o f
  <2>1. SubSeq(c, 1, last) \o SubSeq(c, last + 1, Len(c)) = SubSeq(c, 1, Len(c))
    <3>1. 1 \in 1 .. Len(c) + 1 /\ last \in 1 - 1 .. Len(c) /\ Len(c) \in last .. Len(c)
      BY <1>1
    <3> QED BY <3>1, ConcatAdjacentSubSeq
  <2>2. SubSeq(c, 1, Len(c)) = c
    BY SubSeqFull
  <2> QED BY <2>1, <2>2
<1>8. IsLast(last, e)
  <2>1. last = 0 \/ last \in Newlines(e)
    <3> SUFFICES ASSUME last # 0 PROVE last \in Newlines(e)
      OBVIOUS
    <3>1. last \in Newlines(c)
      BY <1>1 DEF IsLast
    <3>2. c[last] = Newline /\ 1 <= last
      BY <3>1, NewlineIs
    <3>3. e[last] = Newline
      <4>1. last \in 1 .. last
        BY <3>2, <1>1
      <4> QED BY <4>1, <3>2, <1>2
    <3>4. last \in Nat /\ 1 <= last /\ last <= Len(e) /\ e[last] = Newline
      BY <3>2, <3>3, <1>1, <1>2
    <3> QED BY <3>4, <1>2, NewlineIs
  <2>2. \A h \in Nat : h \in Newlines(e) => h <= last
    BY <1>2, NewlineIs
  <2> QED BY <2>1, <2>2 DEF IsLast
<1> QED BY <1>1, <1>2, <1>4, <1>6, <1>7, <1>8 DEF Parts


\* p is what is carried of a stream of which a was read.
Carries(X, p, a) ==
    /\ p \in Seq(X) /\ Newlines(p) = {}
    /\ \E n \in Nat : IsLast(n, a) /\ Held(X, p, Rest(a, n))

\* Nothing has no lines.
LEMMA EmptyText == <<>> \in Seq({}) /\ Newlines(<<>>) = {} /\ \A X : <<>> \in Seq(X)
BY EmptySeq DEF Newlines

\* The lines of a text, and of what follows a newline of it.
LEMMA LinesOfPart ==
    ASSUME NEW X, NEW p \in Seq(X), Newlines(p) = {}, NEW e \in Seq(X)
    PROVE  \A l : l \in Lines(p \o e) <=> Completed(l, p, e)
<1>1. IsLast(0, p)
  BY DEF IsLast
<1>2. \A l : l \notin Lines(p)
  BY LineIs DEF Cut
<1>3. Rest(p, 0) = p
  BY SubSeqFull DEF Rest
<1>4. 0 \in Nat
  OBVIOUS
<1> QED BY <1>1, <1>2, <1>3, <1>4, LinesOfBoth

(***************************************************************************)
(* A chunk without a newline: it is carried, unless that is too long.      *)
(***************************************************************************)
LEMMA CarriesOn ==
    ASSUME NEW X, NEW a \in Seq(X), NEW p, Carries(X, p, a), NEW f \in Seq(X), Newlines(f) = {},
           NEW q, q = IF f # <<>> /\ Len(p) + Len(f) > MaxLine THEN <<>> ELSE p \o f
    PROVE  Carries(X, q, a \o f) /\ Lines(a \o f) = Lines(a)
<1>1. PICK n \in Nat : IsLast(n, a) /\ Held(X, p, Rest(a, n))
  BY DEF Carries
<1>2. /\ Lines(a \o f) = Lines(a) /\ IsLast(n, a \o f)
      /\ Rest(a \o f, n) = Rest(a, n) \o f /\ Rest(a, n) \in Seq(X) /\ p \in Seq(X)
      /\ Newlines(p) = {}
  BY <1>1, QuietAddsNoLine, RestIsText DEF Carries
<1> DEFINE r == Rest(a, n)
<1>3. r \in Seq(X) /\ Held(X, p, r) /\ Len(r) \in Nat /\ Len(p) \in Nat /\ Len(f) \in Nat
      /\ r \o f \in Seq(X) /\ Len(r \o f) = Len(r) + Len(f)
  BY <1>1, <1>2, ConcatProperties
<1> HIDE DEF r
<1>4. CASE q = p \o f
  <2>1. Held(X, p \o f, r \o f)
    BY <1>2, <1>3, HeldGrows
  <2>2. \A h : h \notin Newlines(p \o f)
    <3>1. ASSUME NEW h \in Nat, h \in Newlines(p \o f) PROVE FALSE
      <4>1. CASE h <= Len(p)
        BY <1>2, <3>1, <4>1, NewlinesOfBoth
      <4>2. CASE h > Len(p)
        BY <1>2, <3>1, <4>2, NewlinesOfBoth
      <4> QED BY <4>1, <4>2, <1>3
    <3>2. p \o f \in Seq(X)
      BY <1>2, ConcatProperties
    <3> QED BY <3>1, <3>2, NewlineIs
  <2>3. p \o f \in Seq(X)
    BY <1>2, ConcatProperties
  <2>4. Held(X, q, Rest(a \o f, n)) /\ q \in Seq(X) /\ Newlines(q) = {}
    BY <1>2, <1>4, <2>1, <2>2, <2>3 DEF r
  <2> QED BY <1>2, <2>4 DEF Carries
<1>5. CASE q # p \o f
  <2>1. q = <<>> /\ Len(p) + Len(f) > MaxLine
    BY <1>5
  <2>2. ~(Len(r \o f) <= MaxLine)
    <3>1. CASE Len(r) <= MaxLine
      BY <1>3, <2>1, <3>1, RelayAssumptions DEF Held
    <3>2. CASE ~(Len(r) <= MaxLine)
      BY <1>3, <3>2, RelayAssumptions
    <3> QED BY <3>1, <3>2
  <2>3. Held(X, <<>>, r \o f)
    BY <1>3, <2>2, HeldNone
  <2>4. <<>> \in Seq(X) /\ Newlines(<<>>) = {}
    BY EmptyText
  <2>5. Held(X, q, Rest(a \o f, n)) /\ q \in Seq(X) /\ Newlines(q) = {}
    BY <1>2, <2>1, <2>3, <2>4 DEF r
  <2> QED BY <1>2, <2>5 DEF Carries
<1> QED BY <1>2, <1>4, <1>5

(***************************************************************************)
(* A chunk up to its last newline: the lines it completes are scanned, the *)
(* first of them behind what was carried, and nothing is carried on.       *)
(***************************************************************************)
LEMMA LinesAreTaken ==
    ASSUME NEW X, NEW B \in Nat, Bounds(X, B), NEW a \in Seq(X), NEW p, Carries(X, p, a),
           NEW e \in Seq(X), Len(e) # 0, IsLast(Len(e), e), NEW t, Sound(X, t, Lines(a))
    PROVE  /\ Sound(X, Scan(t, Lines(p \o e)), Lines(a \o e))
           /\ Carries(X, <<>>, a \o e)
<1>1. PICK n \in Nat : IsLast(n, a) /\ Held(X, p, Rest(a, n))
  BY DEF Carries
<1> DEFINE r == Rest(a, n)
           L == Lines(a)
           M == Lines(a \o e)
           K == Lines(p \o e)
           u == Scan(t, K)
<1>2. p \in Seq(X) /\ Newlines(p) = {} /\ r \in Seq(X) /\ p \o e \in Seq(X) /\ a \o e \in Seq(X)
  BY <1>1, RestIsText, ConcatProperties DEF Carries
<1>3. \A l : l \in M <=> l \in L \/ Completed(l, r, e)
  BY <1>1, LinesOfBoth
<1>4. \A l : l \in K <=> Completed(l, p, e)
  BY <1>2, LinesOfPart
<1>5. K \in SUBSET Seq(X)
  BY <1>2, LinesAreTexts
<1>6. Held(X, p, r)
  BY <1>1
<1>7. t \in Counts
  BY DEF Sound
<1>8. /\ u \in Counts /\ AtMost(t, u)
      /\ \A l \in K : AtMost(Usage(l), u)
      /\ u.in = t.in \/ \E l \in K : u.in = Usage(l).in
      /\ u.out = t.out \/ \E l \in K : u.out = Usage(l).out
  BY <1>5, <1>7, ScanIs
<1> HIDE DEF r, L, M, K, u
<1>9. \A k \in Nat : IsFirst(k, e) => LineAt(e, 0, k) \in Seq(X)
  <2> SUFFICES ASSUME NEW k \in Nat, IsFirst(k, e) PROVE LineAt(e, 0, k) \in Seq(X)
    OBVIOUS
  <2> DEFINE j == k - 1
  <2>1. 1 <= k /\ k <= Len(e)
    BY NewlineIs DEF IsFirst
  <2>2. j \in Nat /\ 1 \in Nat /\ 1 <= 1 /\ 1 <= j + 1 /\ j <= Len(e)
    BY <2>1
  <2>3. LineAt(e, 0, k) = SubSeq(e, 1, j)
    BY DEF LineAt
  <2> HIDE DEF j
  <2> QED BY <2>2, <2>3, StretchOf
<1>10. \A k \in Nat : IsFirst(k, e) => Held(X, p \o LineAt(e, 0, k), r \o LineAt(e, 0, k))
  BY <1>2, <1>6, <1>9, HeldGrows
<1>a. \A h, k, o : h \in Nat /\ k \in Nat /\ h # 0 /\ Cut(e, h, k)
                   => Completed(LineAt(e, h, k), o, e)
  BY Zenon DEF Completed
<1>b. \A k, o : k \in Nat /\ IsFirst(k, e) => Completed(o \o LineAt(e, 0, k), o, e)
  BY Zenon DEF Completed
<1>11. ASSUME NEW l \in M PROVE l \in L \/ \E q \in K : Held(X, q, l)
  <2> SUFFICES ASSUME Completed(l, r, e) PROVE \E q \in K : Held(X, q, l)
    BY <1>3
  <2>1. ASSUME NEW h \in Nat, NEW k \in Nat, h # 0, Cut(e, h, k), l = LineAt(e, h, k)
        PROVE  \E q \in K : Held(X, q, l)
    <3>1. l \in K
      BY <2>1, <1>4, <1>a
    <3> QED BY <3>1, <1>5, HeldAll
  <2>2. ASSUME NEW k \in Nat, IsFirst(k, e), l = r \o LineAt(e, 0, k)
        PROVE  \E q \in K : Held(X, q, l)
    <3>1. p \o LineAt(e, 0, k) \in K
      BY <2>2, <1>4, <1>b
    <3> QED BY <2>2, <3>1, <1>10
  <2> QED BY <2>1, <2>2 DEF Completed
<1>12. ASSUME NEW q \in K PROVE \E l \in M : Held(X, q, l)
  <2>0. Completed(q, p, e)
    BY <1>4
  <2>1. ASSUME NEW h \in Nat, NEW k \in Nat, h # 0, Cut(e, h, k), q = LineAt(e, h, k)
        PROVE  \E l \in M : Held(X, q, l)
    <3>1. q \in M
      BY <2>1, <1>3, <1>a
    <3> QED BY <3>1, <1>5, HeldAll
  <2>2. ASSUME NEW k \in Nat, IsFirst(k, e), q = p \o LineAt(e, 0, k)
        PROVE  \E l \in M : Held(X, q, l)
    <3>1. r \o LineAt(e, 0, k) \in M
      BY <2>2, <1>3, <1>b
    <3> QED BY <2>2, <3>1, <1>10
  <2> QED BY <2>0, <2>1, <2>2 DEF Completed
<1>13. L \subseteq M
  BY <1>3
<1>14. Sound(X, t, L)
  BY DEF L
<1>15. Sound(X, u, M)
  <2>1. Takes(X, t, u, K, L, M)
    BY <1>5, <1>8, <1>11, <1>12, <1>13, Zenon DEF Takes
  <2> QED BY <2>1, <1>14, SoundGrows
<1>16. Carries(X, <<>>, a \o e)
  <2> DEFINE m == Len(a \o e)
  <2>1. IsLast(m, a \o e) /\ m \in Nat
    BY <1>2, LastOfBoth
  <2>2. Rest(a \o e, m) = <<>>
    BY <1>2, <2>1, NothingBehind
  <2>3. <<>> \in Seq(X) /\ Newlines(<<>>) = {}
    BY EmptyText
  <2>4. Held(X, <<>>, Rest(a \o e, m))
    BY <2>2, <2>3, HeldAll
  <2> HIDE DEF m
  <2> QED BY <2>1, <2>3, <2>4 DEF Carries
<1> QED BY <1>15, <1>16 DEF u, K, M

-----------------------------------------------------------------------------
(***************************************************************************)
(* The scanner over the stream s of which n bytes were read: what is       *)
(* carried and what is counted.                                            *)
(***************************************************************************)
Bytes(s) == ToSet(s) \cup {Newline}
Read(s, n) == SubSeq(s, 1, n)
Seen(s, n, over) == IF over THEN Append(Read(s, n), Newline) ELSE Read(s, n)
CountInv(s, n, over, p, t) ==
    /\ s \in Streams /\ n \in 0 .. Len(s) /\ over \in BOOLEAN
    /\ Sound(Bytes(s), t, Lines(Seen(s, n, over)))
    /\ ~over => Carries(Bytes(s), p, Read(s, n))

\* A stream and what was read of it are texts, with a bound on what they count.
LEMMA StreamIsText ==
    ASSUME NEW s \in Streams
    PROVE  /\ s \in Seq(Bytes(s)) /\ Len(s) \in Nat
           /\ \E B \in Nat : Bounds(Bytes(s), B)
           /\ \A n \in 0 .. Len(s) : Read(s, n) \in Seq(Bytes(s)) /\ Len(Read(s, n)) = n
<1>1. s \in Seq(ToSet(s))
  BY RelayAssumptions
<1>2. s \in Seq(Bytes(s)) /\ Len(s) \in Nat
  <2>1. ToSet(s) \subseteq Bytes(s)
    BY DEF Bytes
  <2> QED BY <1>1, <2>1, SeqMonotonic
<1>3. \E B \in Nat : Bounds(Bytes(s), B)
  <2>1. PICK B \in Nat : Bounds(ToSet(s), B)
    BY <1>1, BoundExists
  <2>2. Newline \notin DOMAIN UsageOf
    BY RelayAssumptions
  <2>3. Bounds(Bytes(s), B)
    BY <2>1, <2>2 DEF Bounds, Bytes
  <2> QED BY <2>3
<1>4. ASSUME NEW n \in 0 .. Len(s) PROVE Read(s, n) \in Seq(Bytes(s)) /\ Len(Read(s, n)) = n
  <2>1. 1 \in Nat /\ n \in Nat /\ 1 <= 1 /\ 1 <= n + 1 /\ n <= Len(s)
    BY <1>2
  <2>2. SubSeq(s, 1, n) \in Seq(Bytes(s)) /\ Len(SubSeq(s, 1, n)) = n - 1 + 1
    BY <1>2, <2>1, StretchOf
  <2> QED BY <2>1, <2>2 DEF Read
<1> QED BY <1>2, <1>3, <1>4

\* Before the first read.
LEMMA CountStarts ==
    ASSUME NEW s \in Streams PROVE CountInv(s, 0, FALSE, <<>>, None)
<1>1. Read(s, 0) = <<>> /\ 0 \in 0 .. Len(s)
  BY StreamIsText, SubSeqEmpty DEF Read
<1>2. \A l : l \notin Lines(<<>>)
  BY EmptyText, LineIs DEF Cut
<1>3. Sound(Bytes(s), None, Lines(<<>>))
  BY <1>2 DEF Sound, None, Counts
<1>4. IsLast(0, <<>>) /\ Rest(<<>>, 0) = <<>>
  BY EmptyText, SubSeqEmpty DEF IsLast, Rest
<1>5. Held(Bytes(s), <<>>, <<>>)
  BY EmptyText, HeldAll
<1>6. Carries(Bytes(s), <<>>, <<>>)
  BY <1>4, <1>5, EmptyText DEF Carries
<1> QED BY <1>1, <1>3, <1>6 DEF CountInv, Seen

\* ConcatAssociative, under one name.
AsOne(a, e, f) == (a \o e) \o f = a \o (e \o f)

LEMMA ThreeAreOne ==
    ASSUME NEW X, NEW a \in Seq(X), NEW e \in Seq(X), NEW f \in Seq(X)
    PROVE  AsOne(a, e, f)
BY ConcatAssociative DEF AsOne

(***************************************************************************)
(* A chunk is fed.                                                         *)
(***************************************************************************)
LEMMA ChunkIsFed ==
    ASSUME NEW X, NEW B \in Nat, Bounds(X, B), NEW a \in Seq(X), NEW c \in Seq(X),
           Carries(X, partial, a), Sound(X, tally, Lines(a)), Feed(c)
    PROVE  Carries(X, partial', a \o c) /\ Sound(X, tally', Lines(a \o c))
<1> DEFINE last == LastNewline(c)
           e == SubSeq(c, 1, last)
           f == SubSeq(c, last + 1, Len(c))
           carried == IF last = 0 THEN partial ELSE <<>>
<1>1. /\ tally' = IF last = 0 THEN tally ELSE Scan(tally, Lines(partial \o e))
      /\ partial' = IF f # <<>> /\ Len(carried) + Len(f) > MaxLine THEN <<>> ELSE carried \o f
  BY DEF Feed
<1>2. /\ last \in Nat /\ e \in Seq(X) /\ f \in Seq(X) /\ c = e \o f
      /\ Len(e) = last /\ Newlines(f) = {} /\ IsLast(last, e)
  <2>1. Parts(X, c, last, e, f)
    <3>1. c \in Seq(X)
      OBVIOUS
    <3> QED BY <3>1, ChunkParts
  <2> HIDE DEF last, e, f
  <2> QED BY <2>1 DEF Parts
<1>a. last = 0 => carried = partial
  OBVIOUS
<1>b. last # 0 => carried = <<>>
  OBVIOUS
<1> HIDE DEF last, e, f, carried
<1>3. CASE last = 0
  <2>1. e = <<>>
    BY <1>2, <1>3, EmptySeq
  <2>2. c = f
    BY <1>2, <2>1, ConcatEmptySeq
  <2>3. Carries(X, partial', a \o f) /\ Lines(a \o f) = Lines(a)
    BY <1>1, <1>2, <1>3, <1>a, CarriesOn
  <2> QED BY <1>1, <1>3, <2>2, <2>3
<1>4. CASE last # 0
  <2>1. Len(e) # 0 /\ IsLast(Len(e), e)
    BY <1>2, <1>4
  <2>2. Sound(X, Scan(tally, Lines(partial \o e)), Lines(a \o e)) /\ Carries(X, <<>>, a \o e)
    BY <1>2, <2>1, LinesAreTaken
  <2>3. a \o e \in Seq(X)
    BY <1>2, ConcatProperties
  <2>4. partial' = IF f # <<>> /\ Len(<<>>) + Len(f) > MaxLine THEN <<>> ELSE <<>> \o f
    BY <1>1, <1>4, <1>b
  <2>5. Carries(X, partial', (a \o e) \o f) /\ Lines((a \o e) \o f) = Lines(a \o e)
    BY <1>2, <2>2, <2>3, <2>4, CarriesOn
  <2>6. (a \o e) \o f = a \o c
    <3>1. AsOne(a, e, f)
      BY <1>2, ThreeAreOne
    <3> QED BY <3>1, <1>2 DEF AsOne
  <2> QED BY <1>1, <1>4, <2>2, <2>5, <2>6
<1> QED BY <1>3, <1>4

\* A read keeps the count right.
LEMMA CountFeeds ==
    ASSUME CountInv(stream, relayed, FALSE, partial, tally),
           NEW n \in 1 .. Len(stream) - relayed, Feed(SubSeq(stream, relayed + 1, relayed + n))
    PROVE  CountInv(stream, relayed + n, FALSE, partial', tally')
<1> DEFINE X == Bytes(stream)
           a == Read(stream, relayed)
           c == SubSeq(stream, relayed + 1, relayed + n)
           m == relayed + n
<1>1. /\ stream \in Streams /\ relayed \in 0 .. Len(stream)
      /\ Sound(X, tally, Lines(a)) /\ Carries(X, partial, a)
  BY DEF CountInv, Seen
<1>2. stream \in Seq(X) /\ Len(stream) \in Nat /\ a \in Seq(X)
  BY <1>1, StreamIsText
<1>3. m \in 0 .. Len(stream) /\ relayed \in Nat /\ n \in Nat \ {0} /\ m \in relayed .. Len(stream)
  BY <1>1, <1>2
<1>4. c \in Seq(X)
  <2> DEFINE i == relayed + 1
  <2>1. i \in Nat /\ m \in Nat /\ 1 <= i /\ i <= m + 1 /\ m <= Len(stream)
    BY <1>3
  <2> HIDE DEF i, m
  <2>2. SubSeq(stream, i, m) \in Seq(X)
    BY <2>1, <1>2, StretchOf
  <2> QED BY <2>2 DEF i, m
<1>5. Read(stream, m) = a \o c
  <2>1. 1 \in 1 .. Len(stream) + 1 /\ relayed \in 1 - 1 .. Len(stream)
    BY <1>1, <1>2
  <2>2. SubSeq(stream, 1, relayed) \o SubSeq(stream, relayed + 1, m) = SubSeq(stream, 1, m)
    BY <1>2, <1>3, <2>1, ConcatAdjacentSubSeq
  <2> QED BY <2>2 DEF Read
<1>6. PICK B \in Nat : Bounds(X, B)
  BY <1>1, StreamIsText
<1>7. Feed(c)
  OBVIOUS
<1> HIDE DEF X, a, c, m
<1>8. Carries(X, partial', a \o c) /\ Sound(X, tally', Lines(a \o c))
  BY <1>1, <1>2, <1>4, <1>6, <1>7, ChunkIsFed
<1>9. CountInv(stream, m, FALSE, partial', tally')
  BY <1>1, <1>3, <1>5, <1>8 DEF CountInv, Seen, X
<1> QED BY <1>9 DEF m

-----------------------------------------------------------------------------
\* u is the count t and those of the lines L, the largest of each.
Gathers(t, L, u) ==
    /\ u \in Counts /\ AtMost(t, u)
    /\ \A l \in L : AtMost(Usage(l), u)
    /\ u.in = t.in \/ \E l \in L : u.in = Usage(l).in
    /\ u.out = t.out \/ \E l \in L : u.out = Usage(l).out

\* ScanIs, under one name.
LEMMA ScanGathers ==
    ASSUME NEW X, NEW B \in Nat, Bounds(X, B), NEW t \in Counts, NEW L \in SUBSET Seq(X)
    PROVE  Gathers(t, L, Scan(t, L))
BY ScanIs DEF Gathers

\* The high-water mark of two counts.
LEMMA HighestIs ==
    ASSUME NEW t \in Counts, NEW u \in Counts, NEW v, v = Highest(t, u)
    PROVE  /\ v \in Counts /\ AtMost(t, v) /\ AtMost(u, v)
           /\ v.in = t.in \/ v.in = u.in
           /\ v.out = t.out \/ v.out = u.out
<1>1. t.in \in Nat /\ t.out \in Nat /\ u.in \in Nat /\ u.out \in Nat
  BY DEF Counts
<1>2. v.in = Higher(t.in, u.in) /\ v.out = Higher(t.out, u.out)
      /\ v = [in |-> Higher(t.in, u.in), out |-> Higher(t.out, u.out)]
  BY DEF Highest
<1>3. v.in \in Nat /\ t.in <= v.in /\ u.in <= v.in /\ (v.in = t.in \/ v.in = u.in)
  BY <1>1, <1>2 DEF Higher
<1>4. v.out \in Nat /\ t.out <= v.out /\ u.out <= v.out /\ (v.out = t.out \/ v.out = u.out)
  BY <1>1, <1>2 DEF Higher
<1>5. v \in Counts
  <2>1. v = [in |-> v.in, out |-> v.out]
    BY <1>2
  <2> QED BY <2>1, <1>3, <1>4 DEF Counts
<1> QED BY <1>3, <1>4, <1>5 DEF AtMost

(***************************************************************************)
(* At the end of a stream what is carried is taken for its last line.      *)
(***************************************************************************)
LEMMA CountEnds ==
    ASSUME NEW s, NEW p, NEW t, CountInv(s, Len(s), FALSE, p, t)
    PROVE  CountInv(s, Len(s), TRUE, <<>>, Highest(t, Usage(p)))
<1> DEFINE X == Bytes(s)
           a == Read(s, Len(s))
           e == <<Newline>>
           u == Highest(t, Usage(p))
           L == Lines(a)
           M == Lines(a \o e)
<1>1. s \in Streams /\ Sound(X, t, L) /\ Carries(X, p, a)
  BY DEF CountInv, Seen
<1>2. Len(s) \in Nat /\ a \in Seq(X) /\ Newline \in X /\ e \in Seq(X)
  <2>1. Len(s) \in Nat /\ Len(s) \in 0 .. Len(s)
    BY <1>1, StreamIsText
  <2>2. a \in Seq(X)
    BY <1>1, <2>1, StreamIsText
  <2>3. Newline \in X
    BY DEF Bytes
  <2> HIDE DEF X
  <2>4. e \in Seq(X)
    BY <2>3, ElementOfSeq, EmptySeq, AppendProperties
  <2> QED BY <2>1, <2>2, <2>3, <2>4
<1>3. Append(a, Newline) = a \o e
  BY <1>2, AppendIsConcat
<1>4. PICK n \in Nat : IsLast(n, a) /\ Held(X, p, Rest(a, n))
  BY <1>1 DEF Carries
<1>5. p \in Seq(X) /\ Rest(a, n) \in Seq(X)
  BY <1>1, <1>2, <1>4, RestIsText DEF Carries
<1>6. u \in Counts /\ AtMost(t, u) /\ AtMost(Usage(p), u)
      /\ (u.in = t.in \/ u.in = Usage(p).in) /\ (u.out = t.out \/ u.out = Usage(p).out)
  <2> DEFINE w == Usage(p)
  <2>1. t \in Counts /\ w \in Counts
    BY <1>1, UsageIsCounts DEF Sound
  <2>2. u = Highest(t, w)
    OBVIOUS
  <2> HIDE DEF u, w
  <2>3. /\ u \in Counts /\ AtMost(t, u) /\ AtMost(w, u)
        /\ (u.in = t.in \/ u.in = w.in) /\ (u.out = t.out \/ u.out = w.out)
    BY <2>1, <2>2, HighestIs
  <2> QED BY <2>3 DEF w
<1>7. \A k \in Nat : k \in Newlines(e) <=> k = 1
  <2>1. Len(e) = 1 /\ e[1] = Newline
    OBVIOUS
  <2> QED BY <2>1 DEF Newlines
<1>8. LineAt(e, 0, 1) = <<>>
  BY SubSeqEmpty DEF LineAt
<1>9. \A l : Completed(l, Rest(a, n), e) <=> l = Rest(a, n)
  <2>1. \A h, k \in Nat : h # 0 => ~Cut(e, h, k)
    BY <1>7 DEF Cut
  <2>2. \A k \in Nat : IsFirst(k, e) <=> k = 1
    BY <1>7 DEF IsFirst
  <2>3. Rest(a, n) \o LineAt(e, 0, 1) = Rest(a, n)
    BY <1>5, <1>8, ConcatEmptySeq
  <2>4. 1 \in Nat
    OBVIOUS
  <2> QED BY <2>1, <2>2, <2>3, <2>4, Zenon DEF Completed
<1>10. \A l : l \in M <=> l \in L \/ l = Rest(a, n)
  <2>1. \A l : l \in M <=> l \in L \/ Completed(l, Rest(a, n), e)
    BY <1>2, <1>4, LinesOfBoth
  <2> QED BY <1>9, <2>1
<1>11. Sound(X, u, M)
  <2> HIDE DEF u, L, M, X
  <2> DEFINE K == {p}
  <2>1. K \subseteq Seq(X) /\ L \subseteq M
    BY <1>5, <1>10
  <2>2. \A l \in M : l \in L \/ \E q \in K : Held(X, q, l)
    BY <1>4, <1>10
  <2>3. \A q \in K : AtMost(Usage(q), u) /\ \E l \in M : Held(X, q, l)
    BY <1>4, <1>6, <1>10
  <2>4. u.in = t.in \/ \E q \in K : u.in = Usage(q).in
    BY <1>6
  <2>5. u.out = t.out \/ \E q \in K : u.out = Usage(q).out
    BY <1>6
  <2> HIDE DEF K
  <2>6. Takes(X, t, u, K, L, M)
    BY <2>1, <2>2, <2>3, <2>4, <2>5, <1>6 DEF Takes
  <2> QED BY <1>1, <2>6, SoundGrows
<1> HIDE DEF u
<1>12. CountInv(s, Len(s), TRUE, <<>>, u)
  BY <1>1, <1>2, <1>3, <1>11 DEF CountInv, Seen
<1> QED BY <1>12 DEF u

\* t is what the property asks for of these lines.
Told(lines, t) ==
    LET short == {l \in lines : Len(l) <= MaxLine}
        ends == UNION {Behind(l) : l \in lines \ short}
    IN  /\ Highest(t, Scan(None, short)) = t
        /\ Highest(t, Scan(None, short \cup ends)) = Scan(None, short \cup ends)

(***************************************************************************)
(* What is counted is what the property asks for.                          *)
(***************************************************************************)
LEMMA CountTells ==
    ASSUME NEW s, NEW n, NEW over, NEW p, NEW t, CountInv(s, n, over, p, t)
    PROVE  Told(Lines(Seen(s, n, over)), t)
<1> DEFINE X == Bytes(s)
           L == Lines(Seen(s, n, over))
           short == {l \in L : Len(l) <= MaxLine}
           ends == UNION {Behind(l) : l \in L \ short}
           every == short \cup ends
           u == Scan(None, short)
           v == Scan(None, every)
<1>1. s \in Streams /\ n \in 0 .. Len(s) /\ Sound(X, t, L)
  BY DEF CountInv
<1>2. Seen(s, n, over) \in Seq(X)
  <2>1. Read(s, n) \in Seq(X) /\ Newline \in X
    BY <1>1, StreamIsText DEF Bytes
  <2>2. Append(Read(s, n), Newline) \in Seq(X)
    BY <2>1, AppendProperties
  <2> QED BY <2>1, <2>2 DEF Seen
<1>3. L \subseteq Seq(X)
  BY <1>2, LinesAreTexts
<1>4. PICK B \in Nat : Bounds(X, B)
  BY <1>1, StreamIsText
<1>5. ASSUME NEW l \in Seq(X), NEW q \in Behind(l) PROVE q \in Seq(X)
  <2>1. PICK i \in 1 .. Len(l) : q = SubSeq(l, i, Len(l))
    BY DEF Behind
  <2> DEFINE m == Len(l)
  <2>2. i \in Nat /\ m \in Nat /\ 1 <= i /\ i <= m + 1 /\ m <= Len(l)
    BY <2>1
  <2> HIDE DEF m
  <2>3. SubSeq(l, i, m) \in Seq(X)
    BY <2>2, StretchOf
  <2> QED BY <2>1, <2>3 DEF m
<1>6. short \in SUBSET Seq(X) /\ every \in SUBSET Seq(X)
  BY <1>3, <1>5
<1>7. None \in Counts
  BY DEF None, Counts
<1>8. u \in Counts /\ v \in Counts
      /\ (u.in = None.in \/ \E l \in short : u.in = Usage(l).in)
      /\ (u.out = None.out \/ \E l \in short : u.out = Usage(l).out)
      /\ \A l \in every : AtMost(Usage(l), v)
  <2>1. Gathers(None, short, Scan(None, short))
    BY <1>4, <1>6, <1>7, ScanGathers
  <2>2. Gathers(None, every, Scan(None, every))
    BY <1>4, <1>6, <1>7, ScanGathers
  <2> HIDE DEF every
  <2> QED BY <2>1, <2>2, Zenon DEF Gathers
<1>9. t \in Counts /\ \A l \in short : AtMost(Usage(l), t)
  BY <1>1 DEF Sound
<1>10. ASSUME NEW l \in L, NEW q \in Seq(X), Held(X, q, l)
       PROVE  q \in every \/ Usage(q) = None
  <2>1. CASE Len(l) <= MaxLine
    <3>1. l \in short
      BY <2>1
    <3>2. q = l
      BY <1>10, <2>1 DEF Held
    <3> QED BY <3>1, <3>2
  <2>2. CASE ~(Len(l) <= MaxLine)
    <3>1. PICK x \in Seq(X) : l = x \o q
      BY <1>10 DEF Held
    <3>2. Len(l) = Len(x) + Len(q) /\ Len(x) \in Nat /\ Len(q) \in Nat
      BY <3>1, ConcatProperties
    <3>3. CASE Len(q) = 0
      BY <3>3 DEF Usage
    <3>4. CASE Len(q) # 0
      <4> DEFINE i == Len(x) + 1
      <4>1. SubSeq(x \o q, Len(x) + 1, Len(x) + Len(q)) = SubSeq(q, 1, Len(q))
        <5>1. 1 \in Nat /\ 1 <= 1 /\ 1 <= Len(q) + 1 /\ Len(q) <= Len(q)
          BY <3>2
        <5> QED BY <3>2, <5>1, StretchOfSecond
      <4>2. SubSeq(q, 1, Len(q)) = q
        BY SubSeqFull
      <4>3. i \in 1 .. Len(l)
        BY <3>2, <3>4
      <4>4. q = SubSeq(l, i, Len(l))
        BY <3>1, <3>2, <4>1, <4>2
      <4>5. q \in Behind(l)
        BY <4>3, <4>4 DEF Behind
      <4>6. l \in L \ short
        BY <2>2
      <4>7. q \in ends
        BY <4>5, <4>6
      <4> QED BY <4>7
    <3> QED BY <3>3, <3>4
  <2> QED BY <2>1, <2>2
<1>11. AtMost(u, t)
  <2>1. t.in \in Nat /\ t.out \in Nat /\ None.in = 0 /\ None.out = 0
    BY <1>9 DEF Counts, None
  <2> HIDE DEF u
  <2> QED BY <1>8, <1>9, <2>1 DEF AtMost
<1>12. AtMost(t, v)
  <2>1. v.in \in Nat /\ v.out \in Nat /\ None.in = 0 /\ None.out = 0
    BY <1>8 DEF Counts, None
  <2> HIDE DEF v, every
  <2>2. t.in <= v.in
    BY <1>1, <1>8, <1>10, <2>1 DEF Sound, AtMost
  <2>3. t.out <= v.out
    BY <1>1, <1>8, <1>10, <2>1 DEF Sound, AtMost
  <2> QED BY <2>2, <2>3 DEF AtMost
<1>13. \A w, z \in Counts : AtMost(w, z) => Highest(z, w) = z /\ Highest(w, z) = z
  <2> SUFFICES ASSUME NEW w \in Counts, NEW z \in Counts, AtMost(w, z)
               PROVE  Highest(z, w) = z /\ Highest(w, z) = z
    OBVIOUS
  <2>1. w.in \in Nat /\ w.out \in Nat /\ z.in \in Nat /\ z.out \in Nat
        /\ w.in <= z.in /\ w.out <= z.out /\ z = [in |-> z.in, out |-> z.out]
    BY DEF Counts, AtMost
  <2>2. \A a, b \in Nat : a <= b => Higher(a, b) = b /\ Higher(b, a) = b
    BY DEF Higher
  <2>3. Highest(z, w) = [in |-> z.in, out |-> z.out] /\ Highest(w, z) = [in |-> z.in, out |-> z.out]
    BY <2>1, <2>2 DEF Highest
  <2> QED BY <2>1, <2>3
<1> HIDE DEF u, v, every
<1>14. Highest(t, u) = t /\ Highest(t, v) = v
  BY <1>8, <1>9, <1>11, <1>12, <1>13
<1> QED BY <1>14 DEF u, v, every, Told

-----------------------------------------------------------------------------
(***************************************************************************)
(* Without a stream the scanner is at rest; with one the request is being  *)
(* relayed, or is over and was recorded with what was counted.             *)
(***************************************************************************)
AtRest ==
    /\ relayed = 0 /\ ended = FALSE /\ partial = <<>> /\ tally = None
    /\ phase # "relay"

StreamInv ==
    /\ stream = NoStream => AtRest
    /\ stream # NoStream =>
        /\ CountInv(stream, relayed, ended, partial, tally)
        /\ \/ phase = "relay" /\ ended = FALSE
           \/ phase = "done" /\ tokens = tally

\* Nothing streams initially, and nothing when a new request begins.
LEMMA StreamInvInit == RelayInit => StreamInv
BY DEF RelayInit, Init, StreamInv, AtRest

\* A stream begins, unread.
LEMMA StreamInvBegins == ASSUME StreamInv, StreamBegins PROVE StreamInv'
<1>1. /\ phase = "sent" /\ phase' = "relay" /\ stream' \in Streams
      /\ UNCHANGED <<relayed, ended, partial, tally>>
  BY DEF StreamBegins
<1>2. AtRest
  BY <1>1 DEF StreamInv
<1>3. stream' # NoStream
  BY <1>1, RelayAssumptions
<1>4. CountInv(stream', 0, FALSE, <<>>, None)
  BY <1>1, CountStarts
<1>5. relayed' = 0 /\ ended' = FALSE /\ partial' = <<>> /\ tally' = None
  BY <1>1, <1>2 DEF AtRest
<1>6. CountInv(stream', relayed', ended', partial', tally')
  BY <1>4, <1>5
<1> QED BY <1>1, <1>3, <1>5, <1>6 DEF StreamInv

\* While a request is relayed there is a stream.
LEMMA Streaming ==
    ASSUME StreamInv, phase = "relay"
    PROVE  /\ stream # NoStream /\ ended = FALSE
           /\ CountInv(stream, relayed, FALSE, partial, tally)
BY DEF StreamInv, AtRest

\* One read of it.
LEMMA StreamInvChunk == ASSUME StreamInv, RelayChunk PROVE StreamInv'
<1>1. /\ phase = "relay" /\ UNCHANGED <<stream, ended, phase>>
  BY DEF RelayChunk, vars
<1>2. PICK n \in 1 .. Len(stream) - relayed :
        Feed(SubSeq(stream, relayed + 1, relayed + n)) /\ relayed' = relayed + n
  BY DEF RelayChunk
<1>3. stream # NoStream /\ ended = FALSE /\ CountInv(stream, relayed, FALSE, partial, tally)
  BY <1>1, Streaming
<1>4. CountInv(stream, relayed + n, FALSE, partial', tally')
  BY <1>2, <1>3, CountFeeds
<1>5. CountInv(stream', relayed', ended', partial', tally')
  BY <1>1, <1>2, <1>3, <1>4
<1> QED BY <1>1, <1>3, <1>5 DEF StreamInv

\* Its end.
LEMMA StreamInvEnds == ASSUME StreamInv, StreamEnds PROVE StreamInv'
<1>1. /\ phase = "relay" /\ relayed = Len(stream) /\ ended' = TRUE /\ partial' = <<>>
      /\ tally' = Highest(tally, Usage(partial)) /\ tokens' = tally'
      /\ phase' = "done" /\ UNCHANGED <<stream, relayed>>
  BY DEF StreamEnds, Answered, Record
<1>2. stream # NoStream /\ CountInv(stream, relayed, FALSE, partial, tally)
  BY <1>1, Streaming
<1>3. CountInv(stream, relayed, TRUE, <<>>, Highest(tally, Usage(partial)))
  BY <1>1, <1>2, CountEnds
<1>4. CountInv(stream', relayed', ended', partial', tally')
  BY <1>1, <1>3
<1> QED BY <1>1, <1>2, <1>4 DEF StreamInv

\* It breaks off.
LEMMA StreamInvCut == ASSUME StreamInv, StreamCut PROVE StreamInv'
<1>1. /\ phase = "relay" /\ phase' = "done" /\ tokens' = tally
      /\ UNCHANGED <<stream, relayed, ended, partial, tally>>
  BY DEF StreamCut, Answered, Record
<1>2. /\ stream # NoStream /\ ended = FALSE
      /\ CountInv(stream, relayed, FALSE, partial, tally)
  BY <1>1, Streaming
<1>3. CountInv(stream', relayed', ended', partial', tally')
  BY <1>1, <1>2
<1> QED BY <1>1, <1>2, <1>3 DEF StreamInv

\* Another request, or a step of this one before its body is relayed.
LEMMA StreamInvElsewhere ==
    ASSUME StreamInv, UNCHANGED relay,
           \/ phase' = phase
           \/ phase \notin {"relay", "done"} /\ phase' # "relay"
    PROVE  StreamInv'
<1>1. UNCHANGED <<stream, relayed, ended, partial, tally, tokens>>
  BY DEF relay
<1>2. CASE stream = NoStream
  <2>1. AtRest
    BY <1>2 DEF StreamInv
  <2>2. AtRest'
    BY <1>1, <2>1 DEF AtRest
  <2> QED BY <1>1, <1>2, <2>2 DEF StreamInv
<1>3. CASE stream # NoStream
  <2>1. /\ CountInv(stream, relayed, ended, partial, tally)
        /\ \/ phase = "relay" /\ ended = FALSE
           \/ phase = "done" /\ tokens = tally
    BY <1>3 DEF StreamInv
  <2>2. phase' = phase
    BY <2>1
  <2>3. CountInv(stream', relayed', ended', partial', tally')
    BY <1>1, <2>1
  <2> QED BY <1>1, <1>3, <2>1, <2>2, <2>3 DEF StreamInv
<1> QED BY <1>2, <1>3

(***************************************************************************)
(* No step of the relay, or of the request around it, miscounts.           *)
(***************************************************************************)
LEMMA StreamInvKept == StreamInv /\ [StreamNext]_streamVars => StreamInv'
<1> SUFFICES ASSUME StreamInv, [StreamNext]_streamVars PROVE StreamInv'
  OBVIOUS
<1>1. CASE UNCHANGED streamVars
  BY <1>1, StreamInvElsewhere DEF streamVars, vars
<1>2. CASE (Refuse \/ Resolve) /\ NoRelay
  <2>1. stream' = NoStream /\ AtRest'
    BY <1>2 DEF Refuse, Resolve, NoRelay, AtRest, None
  <2> QED BY <2>1 DEF StreamInv
<1>3. CASE PolicyChanges /\ UNCHANGED relay
  BY <1>3, StreamInvElsewhere DEF PolicyChanges
<1>4. CASE /\ \/ Unreadable \/ ReadBody \/ FailClosed \/ Block \/ Decide \/ CannotForward
              \/ Forward \/ Unreachable \/ Relay
           /\ UNCHANGED relay
  <2>1. phase \notin {"relay", "done"} /\ phase' # "relay"
    BY <1>4 DEF Unreadable, ReadBody, FailClosed, Block, Decide, Goes, CannotForward, Forward,
         Unreachable, Relay, Record
  <2> QED BY <1>4, <2>1, StreamInvElsewhere
<1>5. CASE (RegexDetects \/ PresidioDetects \/ PresidioFails \/ EndField) /\ UNCHANGED relay
  <2>1. phase \notin {"relay", "done"} /\ phase' # "relay"
    BY <1>5 DEF RegexDetects, PresidioDetects, PresidioFails, EndField, Scans, EngineRuns
  <2> QED BY <1>5, <2>1, StreamInvElsewhere
<1>6. CASE RelayJSON
  <2>1. /\ phase = "sent" /\ phase' = "done"
        /\ UNCHANGED <<stream, relayed, ended, partial, tally>>
    BY <1>6 DEF RelayJSON, Answered, Record
  <2>2. stream = NoStream /\ AtRest
    BY <2>1 DEF StreamInv
  <2>3. AtRest'
    BY <2>1, <2>2 DEF AtRest
  <2> QED BY <2>1, <2>2, <2>3 DEF StreamInv
<1> QED
  BY <1>1, <1>2, <1>3, <1>4, <1>5, <1>6, StreamInvBegins, StreamInvChunk, StreamInvEnds,
     StreamInvCut DEF StreamNext, RelayNext

\* A report is only there once the request is over.
LEMMA TokensTold ==
    ASSUME IInv, StreamInv, stream # NoStream, report # NoReport PROVE tokens = tally
<1>1. phase = "done"
  BY DEF IInv, ControlOK, OneReportPerRequest
<1> QED BY <1>1 DEF StreamInv

(***************************************************************************)
(* However the reads cut a stream, and whenever it breaks off, what is     *)
(* counted and recorded are the largest usages of the lines the caller was *)
(* given whole (sseLineReader.feed, flush, tokenTally.take).               *)
(***************************************************************************)
THEOREM TokensAreCounted == StreamSpec => []TokensAreOfWholeLines
<1>1. IInv /\ StreamInv => TokensAreOfWholeLines
  <2> SUFFICES ASSUME IInv, StreamInv, stream # NoStream PROVE TokensAreOfWholeLines
    BY DEF TokensAreOfWholeLines
  <2>1. CountInv(stream, relayed, ended, partial, tally)
    BY DEF StreamInv
  <2>2. Told(Lines(Seen(stream, relayed, ended)), tally)
    BY <2>1, CountTells
  <2>3. report # NoReport => tokens = tally
    BY TokensTold
  <2> QED BY <2>2, <2>3, Zenon DEF Told, Seen, Read, TokensAreOfWholeLines
<1> QED
  BY <1>1, StreamInit, StreamKeeps, StreamInvInit, StreamInvKept, PTL DEF StreamSpec
=============================================================================
