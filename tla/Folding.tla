------------------------------ MODULE Folding ------------------------------
(* Folds over sequences for the proofs: FoldLeft of the community modules, *)
(* unfolded step by step, for any operator Op and whatever else it is      *)
(* given, ctx.  The theorems about a fold are instances of these.          *)
EXTENDS Naturals, Sequences, WellFoundedInduction, TLAPS

CONSTANT Op(_, _, _)

\* The index that the fold takes from a set of indices.
Top(S) == CHOOSE x \in S : \A y \in S : x >= y

\* What FoldLeft iterates over the sets of indices, from the last index down.
Iteration(ctx, S, h, base, seq) ==
  h = [s \in SUBSET S |-> IF s = {} THEN base ELSE Op(ctx, h[s \ {Top(s)}], seq[Top(s)])]

Fold(ctx, base, seq) ==
  (CHOOSE h : Iteration(ctx, DOMAIN seq, h, base, seq))[DOMAIN seq]

-----------------------------------------------------------------------------
\* A set that has zero and with every number the next has all of 0 .. n.
LEMMA Counting ==
  ASSUME NEW n \in Nat, NEW A, 0 \in A, \A k \in 1 .. n : k - 1 \in A => k \in A
  PROVE  \A k \in 0 .. n : k \in A
<1>1. SUFFICES ASSUME NEW k \in 0 .. n, k \notin A PROVE FALSE
  OBVIOUS
<1> DEFINE R == {ss \in Nat \X Nat : ss[1] < ss[2]}
           B == (0 .. n) \ A
<1>2. IsWellFoundedOn(R, Nat)
  BY NatLessThanWellFounded DEF OpToRel
<1>3. B \subseteq Nat /\ B # {}
  BY <1>1
<1> HIDE DEF R
<1>4. PICK x \in B : \A y \in B : <<y, x>> \notin R
  BY <1>2, <1>3, WFMin
<1>5. x \in 1 .. n
  BY <1>4
<1>6. x - 1 \in B
  BY <1>4, <1>5
<1>7. <<x - 1, x>> \in R
  BY <1>5 DEF R
<1>8. QED
  BY <1>4, <1>6, <1>7

\* The index taken from all indices up to k is k.
LEMMA TopOfUpTo ==
  ASSUME NEW k \in Nat, k # 0
  PROVE  Top(1 .. k) = k /\ (1 .. k) \ {k} = 1 .. (k - 1) /\ 1 .. k # {}
<1>1. k \in 1 .. k /\ \A y \in 1 .. k : k >= y
  OBVIOUS
<1>2. \A x \in 1 .. k : (\A y \in 1 .. k : x >= y) => x = k
  OBVIOUS
<1>3. Top(1 .. k) = k
  BY <1>1, <1>2 DEF Top
<1>4. QED
  BY <1>1, <1>3

\* The index taken from a set of indices up to k is k, if it is there.
LEMMA TopOfSubset ==
  ASSUME NEW k \in Nat, k # 0, NEW s \in SUBSET (1 .. k), k \in s
  PROVE  Top(s) = k
<1>1. \A y \in s : k >= y
  OBVIOUS
<1>2. \A x \in s : (\A y \in s : x >= y) => x = k
  OBVIOUS
<1>3. QED
  BY <1>1, <1>2 DEF Top

\* The iteration exists, over the indices up to any k.
LEMMA IterationExists ==
  ASSUME NEW ctx, NEW base, NEW seq, NEW n \in Nat
  PROVE  \E h : Iteration(ctx, 1 .. n, h, base, seq)
<1> DEFINE A == {k \in 0 .. n : \E h : Iteration(ctx, 1 .. k, h, base, seq)}
<1>1. 0 \in A
  <2>1. SUBSET (1 .. 0) = {{}}
    OBVIOUS
  <2>2. Iteration(ctx, 1 .. 0, [s \in {{}} |-> base], base, seq)
    BY <2>1 DEF Iteration
  <2>3. QED
    BY <2>2
<1>2. ASSUME NEW k \in 1 .. n, k - 1 \in A PROVE k \in A
  <2>1. PICK h : Iteration(ctx, 1 .. (k - 1), h, base, seq)
    BY <1>2
  <2> DEFINE g == [s \in SUBSET (1 .. k) |->
                     IF k \in s THEN Op(ctx, h[s \ {k}], seq[k]) ELSE h[s]]
  <2>2. ASSUME NEW s \in SUBSET (1 .. k)
        PROVE  g[s] = IF s = {} THEN base ELSE Op(ctx, g[s \ {Top(s)}], seq[Top(s)])
    <3>1. CASE k \in s
      <4>1. Top(s) = k /\ s \ {k} \in SUBSET (1 .. k) /\ k \notin s \ {k} /\ s # {}
        BY <3>1, TopOfSubset
      <4>2. QED
        BY <3>1, <4>1
    <3>2. CASE k \notin s
      <4>1. s \in SUBSET (1 .. (k - 1))
        BY <3>2
      <4>2. h[s] = IF s = {} THEN base ELSE Op(ctx, h[s \ {Top(s)}], seq[Top(s)])
        BY <2>1, <4>1 DEF Iteration
      <4>3. g[s] = h[s] /\ g[s \ {Top(s)}] = h[s \ {Top(s)}]
        BY <3>2
      <4>4. QED
        BY <4>2, <4>3
    <3>3. QED
      BY <3>1, <3>2
  <2>3. Iteration(ctx, 1 .. k, g, base, seq)
    BY <2>2 DEF Iteration
  <2> HIDE DEF g
  <2>4. QED
    BY <2>3
<1> HIDE DEF A
<1>3. n \in A
  BY <1>1, <1>2, Counting
<1>4. QED
  BY <1>3 DEF A

-----------------------------------------------------------------------------
(* What a fold does                                                        *)

\* The results of a fold after each element.
Through(ctx, p, base, seq) ==
  /\ p[0] = base
  /\ \A k \in 1 .. Len(seq) : p[k] = Op(ctx, p[k - 1], seq[k])

\* A fold has its intermediate results, and its result is the last of them.
LEMMA FoldThrough ==
  ASSUME NEW ctx, NEW base, NEW C, NEW seq \in Seq(C)
  PROVE  \E p : Through(ctx, p, base, seq) /\ Fold(ctx, base, seq) = p[Len(seq)]
<1> DEFINE n == Len(seq)
           h == CHOOSE g : Iteration(ctx, 1 .. n, g, base, seq)
           p == [k \in 0 .. n |-> h[1 .. k]]
<1>1. DOMAIN seq = 1 .. n /\ n \in Nat
  OBVIOUS
<1>2. Iteration(ctx, 1 .. n, h, base, seq)
  BY <1>1, IterationExists
<1>3. Fold(ctx, base, seq) = h[1 .. n]
  BY <1>1 DEF Fold, Iteration
<1> HIDE DEF h
<1>4. \A s \in SUBSET (1 .. n) : h[s] = IF s = {} THEN base ELSE Op(ctx, h[s \ {Top(s)}], seq[Top(s)])
  BY <1>2 DEF Iteration
<1> HIDE DEF n
<1>5. p[0] = base
  <2>1. 1 .. 0 = {} /\ {} \in SUBSET (1 .. n) /\ 0 \in 0 .. n
    BY <1>1
  <2>2. h[{}] = base
    BY <1>4, <2>1
  <2>3. QED
    BY <2>1, <2>2
<1>6. ASSUME NEW k \in 1 .. n PROVE p[k] = Op(ctx, p[k - 1], seq[k])
  <2>1. k \in Nat /\ k # 0 /\ 1 .. k \in SUBSET (1 .. n) /\ k - 1 \in 0 .. n /\ k \in 0 .. n
    BY <1>1
  <2>2. h[1 .. k] = Op(ctx, h[1 .. (k - 1)], seq[k])
    BY <1>4, <2>1, TopOfUpTo
  <2>3. QED
    BY <2>1, <2>2
<1>7. p[n] = h[1 .. n]
  BY <1>1
<1> HIDE DEF p
<1>8. QED
  BY <1>3, <1>5, <1>6, <1>7 DEF n, Through

\* Two lists of results agree.
LEMMA ThroughOnce ==
  ASSUME NEW ctx, NEW base, NEW C, NEW seq \in Seq(C), NEW p, NEW q,
         Through(ctx, p, base, seq), Through(ctx, q, base, seq)
  PROVE  \A k \in 0 .. Len(seq) : p[k] = q[k]
<1> DEFINE A == {k \in 0 .. Len(seq) : p[k] = q[k]}
<1>1. Len(seq) \in Nat
  OBVIOUS
<1>2. 0 \in A
  BY <1>1 DEF Through
<1>3. ASSUME NEW k \in 1 .. Len(seq), k - 1 \in A PROVE k \in A
  BY <1>3 DEF Through
<1> HIDE DEF A
<1>4. \A k \in 0 .. Len(seq) : k \in A
  BY <1>1, <1>2, <1>3, Counting
<1>5. QED
  BY <1>4 DEF A

\* A fold stays where its base is, if its operator does.
LEMMA FoldStays ==
  ASSUME NEW C, NEW seq \in Seq(C), NEW V, NEW ctx, NEW base \in V,
         \A v \in V, c \in C : Op(ctx, v, c) \in V
  PROVE  Fold(ctx, base, seq) \in V
<1>1. PICK p : Through(ctx, p, base, seq) /\ Fold(ctx, base, seq) = p[Len(seq)]
  BY FoldThrough
<1> DEFINE A == {k \in 0 .. Len(seq) : p[k] \in V}
<1>2. Len(seq) \in Nat
  OBVIOUS
<1>3. 0 \in A
  BY <1>1, <1>2 DEF Through
<1>4. ASSUME NEW k \in 1 .. Len(seq), k - 1 \in A PROVE k \in A
  <2>1. seq[k] \in C
    OBVIOUS
  <2>2. QED
    BY <1>1, <1>4, <2>1 DEF Through
<1> HIDE DEF A
<1>5. \A k \in 0 .. Len(seq) : k \in A
  BY <1>2, <1>3, <1>4, Counting
<1>6. QED
  BY <1>1, <1>2, <1>5 DEF A

\* A fold over nothing is its base.
LEMMA FoldEmpty == ASSUME NEW ctx, NEW base PROVE Fold(ctx, base, <<>>) = base
<1>1. <<>> \in Seq({}) /\ Len(<<>>) = 0
  OBVIOUS
<1>2. PICK p : Through(ctx, p, base, <<>>) /\ Fold(ctx, base, <<>>) = p[Len(<<>>)]
  BY <1>1, FoldThrough
<1>3. QED
  BY <1>1, <1>2 DEF Through

\* A fold over two sequences goes on where the first one ends.
LEMMA FoldConcat ==
  ASSUME NEW ctx, NEW base, NEW C, NEW s \in Seq(C), NEW t \in Seq(C)
  PROVE  Fold(ctx, base, s \o t) = Fold(ctx, Fold(ctx, base, s), t)
<1> DEFINE m == Len(s)
           n == Len(t)
           st == s \o t
<1>a. /\ m \in Nat /\ n \in Nat /\ st \in Seq(C) /\ Len(st) = m + n
      /\ \A k \in 1 .. m : st[k] = s[k]
      /\ \A k \in 1 .. n : st[m + k] = t[k]
  OBVIOUS
<1> HIDE DEF st, m, n
<1>b. st \in Seq(C)
  BY <1>a
<1>1. PICK p : Through(ctx, p, base, st) /\ Fold(ctx, base, st) = p[Len(st)]
  BY <1>b, FoldThrough
<1>2. PICK q : Through(ctx, q, base, s) /\ Fold(ctx, base, s) = q[Len(s)]
  BY FoldThrough
<1>3. PICK r : Through(ctx, r, Fold(ctx, base, s), t) /\ Fold(ctx, Fold(ctx, base, s), t) = r[Len(t)]
  BY FoldThrough
<1>4. Through(ctx, p, base, s)
  <2>1. \A k \in 1 .. m : k \in 1 .. Len(st)
    BY <1>a
  <2>2. QED
    BY <1>a, <1>1, <2>1 DEF Through, m
<1>5. p[m] = Fold(ctx, base, s)
  BY <1>2, <1>4, <1>a, ThroughOnce DEF m
<1> DEFINE u == [k \in 0 .. n |-> p[m + k]]
<1>6. Through(ctx, u, Fold(ctx, base, s), t)
  <2>1. u[0] = Fold(ctx, base, s)
    BY <1>a, <1>5
  <2>2. ASSUME NEW k \in 1 .. n PROVE u[k] = Op(ctx, u[k - 1], t[k])
    <3>1. m + k \in 1 .. Len(st) /\ (m + k) - 1 = m + (k - 1) /\ k - 1 \in 0 .. n /\ k \in 0 .. n
      BY <1>a
    <3>2. p[m + k] = Op(ctx, p[m + (k - 1)], t[k])
      BY <1>a, <1>1, <3>1 DEF Through
    <3>3. QED
      BY <3>1, <3>2
  <2> HIDE DEF u
  <2>3. QED
    BY <2>1, <2>2 DEF Through, n
<1>7. u[n] = p[Len(st)]
  BY <1>a
<1> HIDE DEF u
<1>8. u[n] = r[n]
  <2>1. \A k \in 0 .. n : u[k] = r[k]
    BY <1>3, <1>6, ThroughOnce DEF n
  <2>2. QED
    BY <1>a, <2>1
<1>9. QED
  BY <1>1, <1>3, <1>7, <1>8 DEF st, n

\* A fold over one element more applies the operator once more.
LEMMA FoldAppend ==
  ASSUME NEW ctx, NEW base, NEW C, NEW s \in Seq(C), NEW c \in C
  PROVE  Fold(ctx, base, Append(s, c)) = Op(ctx, Fold(ctx, base, s), c)
<1> DEFINE t == <<c>>
<1>1. Append(s, c) = s \o t /\ t \in Seq(C) /\ Len(t) = 1 /\ t[1] = c
  OBVIOUS
<1> HIDE DEF t
<1>2. PICK p : Through(ctx, p, Fold(ctx, base, s), t) /\ Fold(ctx, Fold(ctx, base, s), t) = p[Len(t)]
  BY <1>1, FoldThrough
<1>3. p[1] = Op(ctx, p[0], c) /\ p[0] = Fold(ctx, base, s)
  BY <1>1, <1>2 DEF Through
<1>4. Fold(ctx, base, s \o t) = Fold(ctx, Fold(ctx, base, s), t)
  BY <1>1, FoldConcat
<1>5. QED
  BY <1>1, <1>2, <1>3, <1>4
=============================================================================
