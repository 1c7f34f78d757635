----------------------------- MODULE DataLemmas -----------------------------
(***************************************************************************)
(* What the proofs need to know of FlattenSeq and SumFunctionOnSet, both   *)
(* defined by recursion in the community modules, and of sequences,        *)
(* division, sets of natural numbers and the slots of a cycle.  Each       *)
(* recursion is pinned down by well-founded induction over finite sets, as *)
(* a function that exists and is unique; induction over Nat, for a set,    *)
(* rests on the least element of a set of natural numbers.                 *)
(***************************************************************************)
EXTENDS Integers, SequencesExt, FiniteSetTheorems, WellFoundedInduction, TLAPS

\* An instance of FS_Interval that the provers find.
LEMMA IntervalFinite == ASSUME NEW n \in Int PROVE IsFiniteSet(1 .. n)
BY FS_Interval

\* A non-empty set of natural numbers has a least element.
LEMMA LeastNatural ==
  ASSUME NEW T, T \subseteq Nat, T # {}
  PROVE  \E n \in T : \A m \in T : n <= m
<1> DEFINE Below == {0 .. n : n \in T}
<1>1. IsWellFoundedOn(StrictSubsetOrdering(Nat), FiniteSubsetsOf(Nat))
  BY FS_StrictSubsetOrderingWellFounded
<1>2. Below \subseteq FiniteSubsetsOf(Nat) /\ Below # {}
  <2>1. ASSUME NEW n \in T PROVE 0 .. n \in FiniteSubsetsOf(Nat)
    <3>1. n \in Int /\ 0 .. n \in SUBSET Nat
      OBVIOUS
    <3> QED BY <3>1, FS_Interval DEF FiniteSubsetsOf
  <2> QED BY <2>1
<1>3. PICK x \in Below : \A y \in Below : ~ (<<y, x>> \in StrictSubsetOrdering(Nat))
  <2> HIDE DEF Below
  <2> QED BY <1>1, <1>2, WFMin
<1>4. PICK n \in T : x = 0 .. n
  BY DEF Below
<1>5. ASSUME NEW m \in T, m < n PROVE FALSE
  <2>1. 0 .. m \in Below
    OBVIOUS
  <2>2. 0 .. m \subseteq 0 .. n /\ 0 .. m # 0 .. n
    BY <1>5
  <2>3. 0 .. m \in SUBSET Nat /\ 0 .. n \in SUBSET Nat
    OBVIOUS
  <2> HIDE DEF Below
  <2> QED BY <1>3, <1>4, <2>1, <2>2, <2>3 DEF StrictSubsetOrdering
<1> QED BY <1>5

\* Induction on the natural numbers, for a set.
LEMMA Induction ==
  ASSUME NEW T, 0 \in T, \A n \in Nat : n \in T => n + 1 \in T
  PROVE  Nat \subseteq T
<1> SUFFICES ASSUME NEW k \in Nat, k \notin T PROVE FALSE
  OBVIOUS
<1>1. PICK n \in Nat \ T : \A m \in Nat \ T : n <= m
  BY LeastNatural
<1>2. n # 0 /\ n - 1 \in Nat
  BY <1>1
<1>3. n - 1 \in T
  BY <1>1, <1>2
<1> QED BY <1>1, <1>2, <1>3

-----------------------------------------------------------------------------
(* FlattenSeq                                                              *)

Flattening(seqs, f) ==
  f = [i \in 1 .. Len(seqs) |-> IF i = 1 THEN seqs[i] ELSE f[i - 1] \o seqs[i]]

LEMMA FlatteningExists ==
  ASSUME NEW seqs, Len(seqs) \in Nat PROVE \E f : Flattening(seqs, f)
<1> DEFINE Upto(n, f) == f = [i \in 1 .. n |-> IF i = 1 THEN seqs[i] ELSE f[i - 1] \o seqs[i]]
           T == {n \in Nat : \E f : Upto(n, f)}
<1>1. 0 \in T
  <2>1. Upto(0, [i \in 1 .. 0 |-> seqs[i]])
    OBVIOUS
  <2> QED BY <2>1
<1>2. ASSUME NEW n \in Nat, n \in T PROVE n + 1 \in T
  <2>1. PICK f : Upto(n, f)
    BY <1>2
  <2> DEFINE g == [i \in 1 .. n + 1 |->
                     IF i <= n THEN f[i] ELSE IF i = 1 THEN seqs[i] ELSE f[i - 1] \o seqs[i]]
  <2>2. ASSUME NEW i \in 1 .. n + 1
        PROVE  g[i] = IF i = 1 THEN seqs[i] ELSE g[i - 1] \o seqs[i]
    <3>1. CASE i <= n
      <4>1. i \in 1 .. n /\ (i # 1 => i - 1 \in 1 .. n /\ i - 1 \in 1 .. n + 1)
        BY <3>1
      <4>2. f[i] = IF i = 1 THEN seqs[i] ELSE f[i - 1] \o seqs[i]
        BY <2>1, <4>1
      <4>3. g[i] = f[i] /\ (i # 1 => g[i - 1] = f[i - 1])
        BY <3>1, <4>1
      <4> QED BY <4>2, <4>3
    <3>2. CASE ~ (i <= n)
      <4>1. i = n + 1 /\ (i # 1 => i - 1 \in 1 .. n + 1 /\ i - 1 <= n)
        BY <3>2
      <4> QED BY <3>2, <4>1
    <3> QED BY <3>1, <3>2
  <2>3. g = [i \in 1 .. n + 1 |-> g[i]]
    OBVIOUS
  <2>4. \E h : Upto(n + 1, h)
    <3> HIDE DEF g
    <3> QED BY <2>2, <2>3
  <2> HIDE DEF Upto
  <2> QED BY <2>4
<1>3. Len(seqs) \in T
  <2> HIDE DEF T
  <2> QED BY <1>1, <1>2, Induction
<1> QED BY <1>3 DEF Flattening

LEMMA FlattenUnfolds ==
  ASSUME NEW seqs, Len(seqs) \in Nat, Len(seqs) # 0
  PROVE  \E f : /\ FlattenSeq(seqs) = f[Len(seqs)]
                /\ f[1] = seqs[1]
                /\ \A i \in 2 .. Len(seqs) : f[i] = f[i - 1] \o seqs[i]
<1> DEFINE f == CHOOSE f : Flattening(seqs, f)
<1>1. Flattening(seqs, f)
  BY FlatteningExists
<1>2. FlattenSeq(seqs) = f[Len(seqs)]
  BY DEF FlattenSeq, Flattening
<1> HIDE DEF f
<1>3. \A i \in 1 .. Len(seqs) : f[i] = IF i = 1 THEN seqs[i] ELSE f[i - 1] \o seqs[i]
  BY <1>1 DEF Flattening
<1>4. f[1] = seqs[1]
  <2>1. 1 \in 1 .. Len(seqs)
    OBVIOUS
  <2> QED BY <1>3, <2>1
<1>5. ASSUME NEW i \in 2 .. Len(seqs) PROVE f[i] = f[i - 1] \o seqs[i]
  <2>1. i \in 1 .. Len(seqs) /\ i # 1
    OBVIOUS
  <2> QED BY <1>3, <2>1
<1> QED BY <1>2, <1>4, <1>5

LEMMA FlattenEmpty == FlattenSeq(<<>>) = <<>>
BY DEF FlattenSeq

\* front is seqs without its last element.
FrontOf(X, front, seqs, n) ==
  /\ n \in Nat /\ Len(seqs) = n + 1 /\ Len(front) = n /\ (n = 0 => front = <<>>)
  /\ \A i \in 1 .. n + 1 : seqs[i] \in Seq(X)
  /\ \A i \in 1 .. n : front[i] = seqs[i]

\* A flat sequence is the flat front and the last piece.
LEMMA FlattenLast ==
  ASSUME NEW X, NEW front, NEW seqs, NEW n, FrontOf(X, front, seqs, n)
  PROVE  FlattenSeq(seqs) = FlattenSeq(front) \o seqs[n + 1]
<1> USE DEF FrontOf
<1>1. PICK f : /\ FlattenSeq(seqs) = f[n + 1]
               /\ f[1] = seqs[1]
               /\ \A i \in 2 .. n + 1 : f[i] = f[i - 1] \o seqs[i]
  <2>1. Len(seqs) \in Nat /\ Len(seqs) # 0 /\ Len(seqs) = n + 1
    OBVIOUS
  <2>2. PICK f : /\ FlattenSeq(seqs) = f[Len(seqs)]
                 /\ f[1] = seqs[1]
                 /\ \A i \in 2 .. Len(seqs) : f[i] = f[i - 1] \o seqs[i]
    BY ONLY <2>1, FlattenUnfolds
  <2> QED BY ONLY <2>1, <2>2, Zenon
<1>2. CASE n = 0
  <2>1. FlattenSeq(front) = <<>>
    BY <1>2, FlattenEmpty
  <2>2. seqs[n + 1] \in Seq(X) /\ FlattenSeq(seqs) = seqs[n + 1]
    BY <1>1, <1>2
  <2> QED BY <2>1, <2>2
<1>3. CASE n # 0
  <2>1. PICK g : /\ FlattenSeq(front) = g[n]
                 /\ g[1] = front[1]
                 /\ \A i \in 2 .. n : g[i] = g[i - 1] \o front[i]
    <3>1. Len(front) \in Nat /\ Len(front) # 0 /\ Len(front) = n
      BY <1>3
    <3>2. PICK g : /\ FlattenSeq(front) = g[Len(front)]
                   /\ g[1] = front[1]
                   /\ \A i \in 2 .. Len(front) : g[i] = g[i - 1] \o front[i]
      BY ONLY <3>1, FlattenUnfolds
    <3> QED BY ONLY <3>1, <3>2, Zenon
  <2> DEFINE T == {m \in Nat : m + 1 <= n => f[m + 1] = g[m + 1]}
  <2>2. 0 \in T
    BY <1>1, <1>3, <2>1
  <2>3. ASSUME NEW m \in Nat, m \in T PROVE m + 1 \in T
    <3>1. SUFFICES ASSUME NEW k \in 2 .. n, k = (m + 1) + 1 PROVE f[k] = g[k]
      OBVIOUS
    <3>2. k \in 2 .. n + 1 /\ k \in 1 .. n /\ k - 1 = m + 1 /\ m + 1 <= n
      BY <3>1
    <3>3. f[k - 1] = g[k - 1]
      BY <2>3, <3>2
    <3>4. f[k] = f[k - 1] \o seqs[k] /\ g[k] = g[k - 1] \o front[k] /\ front[k] = seqs[k]
      BY <1>1, <2>1, <3>2
    <3> QED BY <3>3, <3>4
  <2>4. n - 1 \in T
    <3> HIDE DEF T
    <3>1. n - 1 \in Nat
      BY <1>3
    <3> QED BY <2>2, <2>3, <3>1, Induction
  <2>5. f[n] = g[n]
    <3>1. (n - 1) + 1 = n
      OBVIOUS
    <3> QED BY <2>4, <3>1
  <2>6. n + 1 \in 2 .. n + 1 /\ (n + 1) - 1 = n
    BY <1>3
  <2>7. f[n + 1] = f[n] \o seqs[n + 1]
    BY <1>1, <2>6
  <2> QED BY ONLY <1>1, <2>1, <2>5, <2>7, Zenon
<1> QED BY <1>2, <1>3

LEMMA ConcatPieces ==
  ASSUME NEW X, NEW s \in Seq(X), NEW t \in Seq(X)
  PROVE  /\ s \o t \in Seq(X) /\ Len(s \o t) = Len(s) + Len(t)
         /\ SubSeq(s \o t, Len(s) + 1, Len(s) + Len(t)) = t
         /\ \A a, b \in Nat : b <= Len(s) => SubSeq(s \o t, a + 1, b) = SubSeq(s, a + 1, b)
OBVIOUS

\* Where the pieces of a sequence of sequences are in the flat one.
LEMMA ConcatElements ==
  ASSUME NEW X, NEW s \in Seq(X), NEW t \in Seq(X)
  PROVE  /\ \A n \in 1 .. Len(s) : (s \o t)[n] = s[n]
         /\ \A m \in 1 .. Len(t) : (s \o t)[Len(s) + m] = t[m]
OBVIOUS

\* at[i] is the number of elements before seqs[i] in the flat sequence.
PiecesAt(X, seqs, n, at) ==
  /\ n \in Nat /\ Len(seqs) = n /\ (n = 0 => seqs = <<>>)
  /\ \A i \in 1 .. n : seqs[i] \in Seq(X)
  /\ at[1] = 0 /\ \A i \in 1 .. n : at[i + 1] = at[i] + Len(seqs[i])

LEMMA FlattenedPieces ==
  ASSUME NEW X, NEW seqs, NEW n, NEW at, PiecesAt(X, seqs, n, at)
  PROVE  /\ FlattenSeq(seqs) \in Seq(X)
         /\ at[n + 1] \in Nat /\ Len(FlattenSeq(seqs)) = at[n + 1]
         /\ \A i \in 1 .. n : SubSeq(FlattenSeq(seqs), at[i] + 1, at[i + 1]) = seqs[i]
<1> USE DEF PiecesAt
<1>1. CASE n = 0
  <2>1. FlattenSeq(seqs) = <<>>
    BY <1>1 DEF FlattenSeq
  <2>2. <<>> \in Seq(X) /\ Len(<<>>) = 0
    OBVIOUS
  <2> QED BY <1>1, <2>1, <2>2
<1>2. CASE n # 0
  <2>1. PICK f : /\ FlattenSeq(seqs) = f[n]
                 /\ f[1] = seqs[1]
                 /\ \A i \in 2 .. n : f[i] = f[i - 1] \o seqs[i]
    BY <1>2, FlattenUnfolds
  <2> DEFINE Piece(m, i) == /\ at[i] \in Nat /\ at[i + 1] \in Nat /\ at[i + 1] <= at[m + 1]
                            /\ SubSeq(f[m], at[i] + 1, at[i + 1]) = seqs[i]
             Good(m) == /\ f[m] \in Seq(X) /\ at[m + 1] \in Nat /\ Len(f[m]) = at[m + 1]
                        /\ \A i \in 1 .. m : Piece(m, i)
             T == {m \in Nat : m + 1 <= n => Good(m + 1)}
  <2>2. Good(1)
    <3>1. seqs[1] \in Seq(X) /\ at[1 + 1] = Len(seqs[1]) /\ at[1] = 0 /\ f[1] = seqs[1]
          /\ Len(seqs[1]) \in Nat
      BY <1>2, <2>1
    <3>2. SubSeq(seqs[1], 0 + 1, Len(seqs[1])) = seqs[1]
      BY <3>1
    <3>3. Piece(1, 1)
      BY <3>1, <3>2
    <3>4. \A i \in 1 .. 1 : i = 1
      OBVIOUS
    <3> HIDE DEF Piece
    <3> QED BY <3>1, <3>3, <3>4
  <2>3. ASSUME NEW m \in Nat \ {0}, Good(m), NEW k \in 2 .. n, k = m + 1 PROVE Good(k)
    <3>1. /\ f[k] = f[k - 1] \o seqs[k] /\ seqs[k] \in Seq(X)
          /\ at[k + 1] = at[k] + Len(seqs[k]) /\ Len(seqs[k]) \in Nat
      <4>1. k \in 1 .. n
        OBVIOUS
      <4>2. f[k] = f[k - 1] \o seqs[k]
        BY <2>1
      <4>3. seqs[k] \in Seq(X) /\ at[k + 1] = at[k] + Len(seqs[k])
        BY <4>1
      <4>4. Len(seqs[k]) \in Nat
        BY <4>3
      <4> QED BY <4>2, <4>3, <4>4
    <3>2. f[m] \in Seq(X) /\ at[k] \in Nat /\ Len(f[m]) = at[k] /\ f[k] = f[m] \o seqs[k]
      BY <2>3, <3>1
    <3>3. /\ f[k] \in Seq(X) /\ Len(f[k]) = Len(f[m]) + Len(seqs[k])
          /\ SubSeq(f[k], Len(f[m]) + 1, Len(f[m]) + Len(seqs[k])) = seqs[k]
          /\ \A a, b \in Nat : b <= Len(f[m]) => SubSeq(f[k], a + 1, b) = SubSeq(f[m], a + 1, b)
      <4>1. PICK u \in Seq(X), v \in Seq(X) : u = f[m] /\ v = seqs[k]
        BY <3>1, <3>2
      <4>2. /\ u \o v \in Seq(X) /\ Len(u \o v) = Len(u) + Len(v)
            /\ SubSeq(u \o v, Len(u) + 1, Len(u) + Len(v)) = v
            /\ \A a, b \in Nat : b <= Len(u) => SubSeq(u \o v, a + 1, b) = SubSeq(u, a + 1, b)
        BY ConcatPieces
      <4>3. f[k] = u \o v
        BY <3>2, <4>1
      <4> QED BY ONLY <4>1, <4>2, <4>3
    <3>4. at[k + 1] \in Nat /\ Len(f[k]) = at[k + 1] /\ at[k] <= at[k + 1]
      <4>1. Len(f[m]) = at[k] /\ at[k] \in Nat
        BY <3>2
      <4>2. at[k + 1] = at[k] + Len(seqs[k]) /\ Len(seqs[k]) \in Nat
        BY <3>1
      <4>3. f[k] \in Seq(X) /\ Len(f[k]) = Len(f[m]) + Len(seqs[k])
        BY <3>3
      <4> QED BY ONLY <4>1, <4>2, <4>3
    <3>5. ASSUME NEW i \in 1 .. m PROVE Piece(k, i)
      <4>1. /\ at[i] \in Nat /\ at[i + 1] \in Nat /\ at[i + 1] <= at[k]
            /\ SubSeq(f[m], at[i] + 1, at[i + 1]) = seqs[i]
        BY <2>3
      <4>2. SubSeq(f[k], at[i] + 1, at[i + 1]) = SubSeq(f[m], at[i] + 1, at[i + 1])
        BY <4>1, <3>2, <3>3
      <4>3. at[i + 1] <= at[k + 1]
        BY ONLY <4>1, <3>2, <3>4
      <4> QED BY <4>1, <4>2, <4>3, Zenon
    <3>6. Piece(k, k)
      <4>1. SubSeq(f[k], at[k] + 1, at[k + 1]) = seqs[k]
        BY ONLY <3>1, <3>2, <3>3
      <4>2. at[k + 1] <= at[k + 1]
        BY ONLY <3>4
      <4> QED BY <4>1, <4>2, <3>2, <3>4, Zenon
    <3>7. \A i \in 1 .. k : i \in 1 .. m \/ i = k
      BY <2>3
    <3> HIDE DEF Piece
    <3> QED BY <3>3, <3>4, <3>5, <3>6, <3>7
  <2> HIDE DEF Good
  <2>4. 0 \in T
    BY <2>2
  <2>5. ASSUME NEW m \in Nat, m \in T PROVE m + 1 \in T
    <3>1. CASE m + 2 <= n
      <4>1. Good(m + 1)
        BY <2>5, <3>1
      <4>2. Good((m + 1) + 1)
        BY <2>3, <4>1, <3>1
      <4> QED BY <4>2
    <3>2. CASE ~ (m + 2 <= n)
      BY <3>2
    <3> QED BY <3>1, <3>2
  <2>6. n - 1 \in T
    <3> HIDE DEF T
    <3>1. Nat \subseteq T
      BY <2>4, <2>5, Induction
    <3> QED BY <3>1, <1>2
  <2>7. Good(n)
    <3>1. (n - 1) + 1 = n
      BY <1>2
    <3> QED BY <2>6, <3>1, <1>2
  <2> QED BY <2>1, <2>7 DEF Good
<1> QED BY <1>1, <1>2

LEMMA ConcatAssoc ==
  ASSUME NEW X, NEW s \in Seq(X), NEW t \in Seq(X), NEW u \in Seq(X)
  PROVE  (s \o t) \o u = s \o (t \o u)
OBVIOUS

\* A sequence is what comes before a place and what comes after it.
LEMMA SplitAt ==
  ASSUME NEW X, NEW s \in Seq(X), NEW k \in Nat, k <= Len(s)
  PROVE  \E t \in Seq(X), u \in Seq(X) :
           /\ t = SubSeq(s, 1, k) /\ u = SubSeq(s, k + 1, Len(s))
           /\ Len(t) = k /\ s = t \o u
           /\ \A i \in 1 .. k : t[i] = s[i] /\ i \in DOMAIN s
           /\ \A i \in DOMAIN u : u[i] = s[k + i] /\ k + i \in DOMAIN s
<1>1. PICK t \in Seq(X) : t = SubSeq(s, 1, k)
  <2>1. SubSeq(s, 1, k) \in Seq(X)
    OBVIOUS
  <2> QED BY <2>1
<1>2. PICK u \in Seq(X) : u = SubSeq(s, k + 1, Len(s))
  <2>1. SubSeq(s, k + 1, Len(s)) \in Seq(X)
    OBVIOUS
  <2> QED BY <2>1
<1>3. Len(t) = k /\ \A i \in 1 .. k : t[i] = s[i] /\ i \in DOMAIN s
  BY <1>1
<1>4. Len(u) = Len(s) - k /\ \A i \in DOMAIN u : u[i] = s[k + i] /\ k + i \in DOMAIN s
  BY <1>2
<1>5. s = t \o u
  <2>1. PICK w \in Seq(X) : w = t \o u /\ Len(w) = Len(s)
    <3>1. t \o u \in Seq(X) /\ Len(t \o u) = Len(t) + Len(u)
      BY ONLY t \in Seq(X), u \in Seq(X), ConcatPieces
    <3>2. Len(t) + Len(u) = Len(s)
      BY <1>3, <1>4
    <3> QED BY ONLY <3>1, <3>2, Zenon
  <2>2. ASSUME NEW i \in 1 .. Len(s) PROVE s[i] = w[i]
    <3>1. CASE i <= k
      BY <1>3, <2>1, <3>1, ConcatElements
    <3>2. CASE i > k
      <4>1. PICK j \in 1 .. Len(u) : j = i - k
        BY <1>4, <3>2
      <4>2. w[Len(t) + j] = u[j]
        BY <2>1, ConcatElements
      <4>3. Len(t) + j = i /\ k + j = i /\ u[j] = s[k + j]
        BY <1>3, <1>4, <4>1
      <4> QED BY ONLY <4>2, <4>3, Zenon
    <3> QED BY <3>1, <3>2
  <2>3. s = w
    <3>1. PICK n \in Nat : n = Len(s) /\ Len(w) = n
      BY ONLY <2>1, s \in Seq(X)
    <3>2. s = [i \in 1 .. n |-> s[i]] /\ w = [i \in 1 .. n |-> w[i]]
      BY ONLY <3>1, s \in Seq(X), w \in Seq(X)
    <3>3. \A i \in 1 .. n : s[i] = w[i]
      BY ONLY <2>2, <3>1
    <3> QED BY ONLY <3>2, <3>3
  <2> QED BY ONLY <2>1, <2>3, Zenon
<1> QED BY <1>1, <1>2, <1>3, <1>4, <1>5

-----------------------------------------------------------------------------
(* SumFunctionOnSet                                                        *)

First(s) == CHOOSE x \in s : TRUE

\* The recursive function of a sum, on the sets of a family.
SumNext(f, g, s) == IF s = {} THEN 0 ELSE f[First(s)] + g[s \ {First(s)}]
Summing(f, family, g) == g = [s \in family |-> SumNext(f, g, s)]

LEMMA SmallerSubset ==
  ASSUME NEW S, IsFiniteSet(S), NEW s \in SUBSET S, NEW x \in s
  PROVE  /\ IsFiniteSet(s) /\ Cardinality(s) \in Nat \ {0}
         /\ s \ {x} \in SUBSET S /\ Cardinality(s \ {x}) = Cardinality(s) - 1
<1>1. IsFiniteSet(s)
  BY FS_Subset
<1>2. Cardinality(s) \in Nat /\ Cardinality(s) # 0
  BY <1>1, FS_CardinalityType, FS_EmptySet
<1> QED BY <1>1, <1>2, FS_RemoveElement

LEMMA SummingExists ==
  ASSUME NEW f, NEW S, IsFiniteSet(S) PROVE \E g : Summing(f, SUBSET S, g)
<1> DEFINE Small(n) == {s \in SUBSET S : Cardinality(s) <= n}
           T == {n \in Nat : \E g : Summing(f, Small(n), g)}
<1>1. \A s \in SUBSET S : IsFiniteSet(s) /\ Cardinality(s) \in Nat /\ (Cardinality(s) = 0 <=> s = {})
  BY FS_Subset, FS_CardinalityType, FS_EmptySet
<1>2. 0 \in T
  <2>1. \A s \in Small(0) : s = {}
    BY <1>1
  <2> DEFINE g == [s \in Small(0) |-> 0]
  <2>2. Summing(f, Small(0), g)
    BY <2>1 DEF Summing, SumNext
  <2> QED BY <2>2
<1>3. ASSUME NEW n \in Nat, n \in T PROVE n + 1 \in T
  <2>1. PICK g : Summing(f, Small(n), g)
    BY <1>3
  <2> DEFINE h == [s \in Small(n + 1) |-> SumNext(f, g, s)]
  <2>2. ASSUME NEW s \in Small(n + 1), s # {}
        PROVE  s \ {First(s)} \in Small(n) /\ s \ {First(s)} \in Small(n + 1)
    <3>1. First(s) \in s
      BY <2>2 DEF First
    <3>2. s \ {First(s)} \in SUBSET S /\ Cardinality(s \ {First(s)}) = Cardinality(s) - 1
      BY <3>1, SmallerSubset
    <3> QED BY <3>2, <1>1
  <2>3. \A s \in Small(n) : g[s] = SumNext(f, g, s) /\ s \in Small(n + 1)
    BY <2>1, <1>1 DEF Summing
  <2>4. ASSUME NEW s \in Small(n + 1) PROVE SumNext(f, h, s) = SumNext(f, g, s)
    <3>1. CASE s = {}
      BY <3>1 DEF SumNext
    <3>2. CASE s # {}
      <4>1. h[s \ {First(s)}] = g[s \ {First(s)}]
        BY <2>2, <2>3, <3>2
      <4> HIDE DEF h
      <4> QED BY <4>1, <3>2 DEF SumNext
    <3> QED BY <3>1, <3>2
  <2>5. \E k : Summing(f, Small(n + 1), k)
    BY <2>4 DEF Summing
  <2> QED
    <3> HIDE DEF Small
    <3> QED BY <2>5
<1>4. Cardinality(S) \in T
  <2> HIDE DEF T
  <2> QED BY <1>2, <1>3, Induction, FS_CardinalityType
<1>5. Small(Cardinality(S)) = SUBSET S
  BY FS_Subset
<1> QED BY <1>4, <1>5

\* Two such functions agree where both are defined and the summands are the same.
LEMMA SummingUnique ==
  ASSUME NEW f, NEW e, NEW S, IsFiniteSet(S), \A x \in S : f[x] = e[x],
         NEW families, SUBSET S \subseteq families, NEW g, Summing(f, families, g),
         NEW familyh, SUBSET S \subseteq familyh, NEW h, Summing(e, familyh, h)
  PROVE  g[S] = h[S]
<1> DEFINE T == {n \in Nat : \A s \in SUBSET S : Cardinality(s) = n => g[s] = h[s]}
<1>1. \A s \in SUBSET S :
        /\ g[s] = IF s = {} THEN 0 ELSE f[First(s)] + g[s \ {First(s)}]
        /\ h[s] = IF s = {} THEN 0 ELSE e[First(s)] + h[s \ {First(s)}]
  BY DEF Summing, SumNext
<1>2. 0 \in T
  <2>1. ASSUME NEW s \in SUBSET S, Cardinality(s) = 0 PROVE g[s] = h[s]
    <3>1. s = {}
      BY <2>1, FS_Subset, FS_EmptySet
    <3> QED BY <3>1, <1>1
  <2> QED BY <2>1
<1>3. ASSUME NEW n \in Nat, n \in T PROVE n + 1 \in T
  <2>1. ASSUME NEW s \in SUBSET S, Cardinality(s) = n + 1 PROVE g[s] = h[s]
    <3>1. s # {}
      BY <2>1, FS_EmptySet
    <3>2. PICK x \in s : x = First(s)
      BY <3>1 DEF First
    <3>3. s \ {x} \in SUBSET S /\ Cardinality(s \ {x}) = n
      BY <2>1, SmallerSubset
    <3>4. g[s \ {x}] = h[s \ {x}] /\ f[x] = e[x]
      BY <1>3, <3>3
    <3>5. g[s] = f[x] + g[s \ {x}] /\ h[s] = e[x] + h[s \ {x}]
      BY <3>1, <3>2, <1>1
    <3> QED BY <3>4, <3>5
  <2> QED BY <2>1
<1>4. Cardinality(S) \in T
  <2> HIDE DEF T
  <2> QED BY <1>2, <1>3, Induction, FS_CardinalityType
<1> QED BY <1>4

LEMMA SumIs ==
  ASSUME NEW f, NEW S, IsFiniteSet(S)
  PROVE  \E g : Summing(f, SUBSET S, g) /\ SumFunctionOnSet(f, S) = g[S]
<1> DEFINE g == CHOOSE g : Summing(f, SUBSET S, g)
<1>1. Summing(f, SUBSET S, g)
  BY SummingExists
<1>2. SumFunctionOnSet(f, S) = g[S]
  BY DEF SumFunctionOnSet, FoldFunctionOnSet, MapThenFoldSet, Summing, SumNext, First
<1> QED BY <1>1, <1>2

THEOREM SumEmpty == ASSUME NEW f PROVE SumFunctionOnSet(f, {}) = 0
<1>1. PICK g : Summing(f, SUBSET {}, g) /\ SumFunctionOnSet(f, {}) = g[{}]
  BY FS_EmptySet, SumIs
<1> QED BY <1>1 DEF Summing, SumNext

LEMMA SumFirst ==
  ASSUME NEW f, NEW S, IsFiniteSet(S), S # {}
  PROVE  SumFunctionOnSet(f, S) = f[First(S)] + SumFunctionOnSet(f, S \ {First(S)})
<1>1. PICK x \in S : x = First(S)
  BY DEF First
<1>2. PICK R : R = S \ {x}
  OBVIOUS
<1>3. IsFiniteSet(R) /\ SUBSET R \subseteq SUBSET S
  BY <1>2, FS_Subset
<1>4. PICK g : Summing(f, SUBSET S, g) /\ SumFunctionOnSet(f, S) = g[S]
  BY SumIs
<1>5. PICK h : Summing(f, SUBSET R, h) /\ SumFunctionOnSet(f, R) = h[R]
  BY <1>3, SumIs
<1>6. g[R] = h[R]
  <2>1. \A y \in R : f[y] = f[y]
    OBVIOUS
  <2>2. SUBSET R \subseteq SUBSET R
    OBVIOUS
  <2> QED BY ONLY <1>3, <1>4, <1>5, <2>1, <2>2, SummingUnique
<1>7. g[S] = f[x] + g[R]
  BY <1>1, <1>2, <1>4 DEF Summing, SumNext
<1> QED BY <1>1, <1>2, <1>4, <1>5, <1>6, <1>7

\* A sum depends on the summands and nothing else.
THEOREM SumCongruent ==
  ASSUME NEW f, NEW e, NEW S, IsFiniteSet(S), \A x \in S : f[x] = e[x]
  PROVE  SumFunctionOnSet(f, S) = SumFunctionOnSet(e, S)
<1>1. PICK g : Summing(f, SUBSET S, g) /\ SumFunctionOnSet(f, S) = g[S]
  BY SumIs
<1>2. PICK h : Summing(e, SUBSET S, h) /\ SumFunctionOnSet(e, S) = h[S]
  BY SumIs
<1> QED BY <1>1, <1>2, SummingUnique

LEMMA SumTyped ==
  ASSUME NEW f, NEW S, IsFiniteSet(S), \A y \in S : f[y] \in Int
  PROVE  SumFunctionOnSet(f, S) \in Int
<1> DEFINE T == {n \in Nat : \A s \in SUBSET S : Cardinality(s) = n => SumFunctionOnSet(f, s) \in Int}
<1>1. 0 \in T
  <2>1. ASSUME NEW s \in SUBSET S, Cardinality(s) = 0 PROVE SumFunctionOnSet(f, s) \in Int
    <3>1. s = {}
      BY <2>1, FS_Subset, FS_EmptySet
    <3> QED BY <3>1, SumEmpty
  <2> QED BY <2>1
<1>2. ASSUME NEW n \in Nat, n \in T PROVE n + 1 \in T
  <2>1. ASSUME NEW s \in SUBSET S, Cardinality(s) = n + 1 PROVE SumFunctionOnSet(f, s) \in Int
    <3>1. s # {} /\ IsFiniteSet(s)
      BY <2>1, FS_EmptySet, FS_Subset
    <3>2. PICK x \in s : x = First(s)
      BY <3>1 DEF First
    <3>3. s \ {x} \in SUBSET S /\ Cardinality(s \ {x}) = n
      BY <2>1, SmallerSubset
    <3>4. SumFunctionOnSet(f, s \ {x}) \in Int /\ f[x] \in Int
      BY <1>2, <3>3
    <3>5. SumFunctionOnSet(f, s) = f[x] + SumFunctionOnSet(f, s \ {x})
      BY <3>1, <3>2, SumFirst
    <3> QED BY <3>4, <3>5
  <2> QED BY <2>1
<1>3. Cardinality(S) \in T
  <2> HIDE DEF T
  <2> QED BY <1>1, <1>2, Induction, FS_CardinalityType
<1> QED BY <1>3

\* Any summand may be taken out of a sum.
THEOREM SumStep ==
  ASSUME NEW f, NEW S, IsFiniteSet(S), \A y \in S : f[y] \in Int, NEW x \in S
  PROVE  /\ SumFunctionOnSet(f, S) \in Int /\ SumFunctionOnSet(f, S \ {x}) \in Int
         /\ SumFunctionOnSet(f, S) = f[x] + SumFunctionOnSet(f, S \ {x})
<1> DEFINE Good(s) == \A y \in s : SumFunctionOnSet(f, s) = f[y] + SumFunctionOnSet(f, s \ {y})
           T == {n \in Nat : \A s \in SUBSET S : Cardinality(s) = n => Good(s)}
<1>1. \A s \in SUBSET S : IsFiniteSet(s)
  BY FS_Subset
<1>2. \A s \in SUBSET S : SumFunctionOnSet(f, s) \in Int
  BY <1>1, SumTyped
<1>3. 0 \in T
  <2>1. ASSUME NEW s \in SUBSET S, Cardinality(s) = 0 PROVE Good(s)
    <3>1. s = {}
      BY <1>1, <2>1, FS_EmptySet
    <3> QED BY <3>1
  <2> HIDE DEF Good
  <2> QED BY <2>1
<1>4. ASSUME NEW n \in Nat, n \in T PROVE n + 1 \in T
  <2>1. ASSUME NEW s \in SUBSET S, Cardinality(s) = n + 1 PROVE Good(s)
    <3> SUFFICES ASSUME NEW y \in s
                 PROVE  SumFunctionOnSet(f, s) = f[y] + SumFunctionOnSet(f, s \ {y})
      OBVIOUS
    <3>1. PICK z \in s : z = First(s)
      BY DEF First
    <3>2. SumFunctionOnSet(f, s) = f[z] + SumFunctionOnSet(f, s \ {z})
      BY <1>1, <3>1, SumFirst
    <3>3. CASE y = z
      BY <3>2, <3>3
    <3>4. CASE y # z
      <4>1. PICK r \in SUBSET S : r = (s \ {y}) \ {z} /\ r = (s \ {z}) \ {y}
        OBVIOUS
      <4>2. ASSUME NEW w \in s PROVE s \ {w} \in SUBSET S /\ Cardinality(s \ {w}) = n
        BY ONLY <2>1, SmallerSubset, IsFiniteSet(S), s \in SUBSET S, w \in s, n \in Nat
      <4>3. Good(s \ {y}) /\ Good(s \ {z})
        BY <1>4, <4>2
      <4>4. z \in s \ {y} /\ y \in s \ {z}
        BY <3>4
      <4>5. SumFunctionOnSet(f, s \ {z}) = f[y] + SumFunctionOnSet(f, r)
        BY <4>1, <4>3, <4>4
      <4>6. SumFunctionOnSet(f, s \ {y}) = f[z] + SumFunctionOnSet(f, r)
        BY <4>1, <4>3, <4>4
      <4>7. SumFunctionOnSet(f, r) \in Int /\ f[y] \in Int /\ f[z] \in Int
        BY <1>2
      <4> QED BY <3>2, <4>5, <4>6, <4>7
    <3> QED BY <3>3, <3>4
  <2> HIDE DEF Good
  <2> QED BY <2>1
<1>5. Cardinality(S) \in T
  <2> HIDE DEF T
  <2> QED BY <1>3, <1>4, Induction, FS_CardinalityType
<1>6. S \in SUBSET S /\ S \ {x} \in SUBSET S
  OBVIOUS
<1> QED BY <1>2, <1>5, <1>6

\* The sum over a sequence, with its last element.
Extends(f, g, n) ==
  /\ n \in Nat /\ \A i \in 1 .. n : f[i] = g[i]
  /\ \A i \in 1 .. n + 1 : f[i] \in Int

LEMMA SumLast ==
  ASSUME NEW f, NEW g, NEW n, Extends(f, g, n)
  PROVE  SumFunctionOnSet(f, 1 .. n + 1) = f[n + 1] + SumFunctionOnSet(g, 1 .. n)
<1>1. n \in Nat /\ n + 1 \in 1 .. n + 1 /\ (1 .. n + 1) \ {n + 1} = 1 .. n
  BY DEF Extends
<1>2. IsFiniteSet(1 .. n + 1) /\ IsFiniteSet(1 .. n)
  BY <1>1, IntervalFinite
<1>3. SumFunctionOnSet(f, 1 .. n + 1) = f[n + 1] + SumFunctionOnSet(f, (1 .. n + 1) \ {n + 1})
  <2>1. \A y \in 1 .. n + 1 : f[y] \in Int
    BY DEF Extends
  <2> QED BY ONLY <1>1, <1>2, <2>1, SumStep
<1>4. SumFunctionOnSet(f, 1 .. n) = SumFunctionOnSet(g, 1 .. n)
  <2>1. \A y \in 1 .. n : f[y] = g[y]
    BY DEF Extends
  <2> QED BY ONLY <1>2, <2>1, SumCongruent
<1> QED BY <1>1, <1>3, <1>4

LEMMA SumNatural ==
  ASSUME NEW f, NEW n \in Nat, \A i \in 1 .. n : f[i] \in Nat
  PROVE  SumFunctionOnSet(f, 1 .. n) \in Nat
<1> DEFINE T == {m \in Nat : m <= n => SumFunctionOnSet(f, 1 .. m) \in Nat}
<1>1. 0 \in T
  <2>1. 1 .. 0 = {}
    OBVIOUS
  <2> QED BY <2>1, SumEmpty
<1>2. ASSUME NEW m \in Nat, m \in T PROVE m + 1 \in T
  <2>1. SUFFICES ASSUME m + 1 <= n PROVE SumFunctionOnSet(f, 1 .. m + 1) \in Nat
    OBVIOUS
  <2>2. Extends(f, f, m)
    BY <2>1 DEF Extends
  <2>3. SumFunctionOnSet(f, 1 .. m + 1) = f[m + 1] + SumFunctionOnSet(f, 1 .. m)
    BY <2>2, SumLast
  <2>4. f[m + 1] \in Nat /\ SumFunctionOnSet(f, 1 .. m) \in Nat
    BY <1>2, <2>1
  <2> QED BY <2>3, <2>4
<1>3. n \in T
  <2> HIDE DEF T
  <2> QED BY <1>1, <1>2, Induction
<1> QED BY <1>3

-----------------------------------------------------------------------------
(* Division                                                                *)

\* Quotient and remainder of naturals.
LEMMA DivMod ==
  ASSUME NEW r \in Nat \ {0}, NEW x \in Nat
  PROVE  /\ x \div r \in Nat
         /\ x % r \in 0 .. r - 1
         /\ x = (x \div r) * r + (x % r)
  OBVIOUS

\* Multiplication by a positive ratio is monotone.
LEMMA TimesMonotone ==
  ASSUME NEW r \in Nat \ {0}, NEW a \in Int, NEW b \in Int, a <= b
  PROVE  a * r <= b * r
  OBVIOUS

\* A quotient is characterised by the multiples around its dividend.
LEMMA DivUnique ==
  ASSUME NEW r \in Nat \ {0}, NEW x \in Nat, NEW q \in Nat,
         q * r <= x, x < (q + 1) * r
  PROVE  x \div r = q
<1> DEFINE d == x \div r
<1>1. d \in Nat /\ x = d * r + (x % r) /\ x % r \in 0 .. r - 1
  BY DivMod
<1>2. CASE d < q
  <2>1. (d + 1) * r <= q * r
    BY <1>1, <1>2, TimesMonotone
  <2>2. (d + 1) * r = d * r + r
    BY <1>1
  <2> QED
    BY <2>1, <2>2, <1>1
<1>3. CASE d > q
  <2>1. (q + 1) * r <= d * r
    BY <1>1, <1>3, TimesMonotone
  <2> QED
    BY <2>1, <1>1
<1> QED
  BY <1>1, <1>2, <1>3

-----------------------------------------------------------------------------
(* Taking turns                                                            *)

\* Quotient and remainder of a number written as one and the other.
LEMMA QuotientIs ==
  ASSUME NEW r \in Nat \ {0}, NEW q \in Nat, NEW d \in 0 .. r - 1
  PROVE  (q * r + d) \div r = q /\ (q * r + d) % r = d
<1>1. PICK x \in Nat : x = q * r + d
  <2>1. q * r + d \in Nat
    OBVIOUS
  <2> QED BY <2>1
<1>2. (q + 1) * r = q * r + r
  OBVIOUS
<1>3. x \div r = q
  BY <1>1, <1>2, DivUnique
<1>4. x = (x \div r) * r + (x % r)
  BY DivMod
<1> QED BY <1>1, <1>3, <1>4

LEMMA SameSize ==
  ASSUME NEW S, IsFiniteSet(S), NEW T, NEW f \in [S -> T],
         \A a, b \in S : f[a] = f[b] => a = b, \A t \in T : \E a \in S : f[a] = t
  PROVE  Cardinality(T) = Cardinality(S)
<1>1. f \in Bijection(S, T)
  BY DEF Bijection, Injection, Surjection, IsInjective
<1> QED BY <1>1, FS_Bijection DEF ExistsBijection

\* The slot of the i-th element of a stream that takes `block` elements from each of
\* `period` slots in turn, beginning at slot `off`.
SlotOf(block, period, off, i) == ((((i - 1) \div block) + off) % period) + 1

Remains(r, q, d) == r \in Nat \ {0} /\ q \in Nat /\ d \in 0 .. r - 1

LEMMA Quotients ==
  \A x, r, q, d : Remains(r, q, d) /\ x = q * r + d => x \div r = q /\ x % r = d
BY QuotientIs DEF Remains

Stream(block, period, off, o) ==
  block \in Nat \ {0} /\ period \in Nat \ {0} /\ off \in Nat /\ o \in 0 .. period - 1 /\ o = off % period
\* Element r of unit e of round c.
Place(block, period, c, e, r, x) ==
  c \in Nat /\ e \in 0 .. period - 1 /\ r \in 0 .. block - 1 /\ x = (c * period + e) * block + r + 1
Reached(period, o, e) == IF e + o < period THEN e + o + 1 ELSE e + o - period + 1

\* The slot reached by unit e of a round.
LEMMA PlaceSlots ==
  ASSUME NEW block, NEW period, NEW off, NEW o, NEW c, NEW e, NEW r, NEW x,
         Stream(block, period, off, o), Place(block, period, c, e, r, x)
  PROVE  SlotOf(block, period, off, x) = Reached(period, o, e)
<1>u. /\ block \in Nat \ {0} /\ period \in Nat \ {0} /\ off \in Nat /\ o \in 0 .. period - 1
      /\ o = off % period /\ c \in Nat /\ e \in 0 .. period - 1 /\ r \in 0 .. block - 1
      /\ x = (c * period + e) * block + r + 1
  BY DEF Stream, Place
<1>v. /\ block \in Nat \ {0} /\ period \in Nat \ {0} /\ off \in Nat /\ o \in 0 .. period - 1
      /\ o = off % period /\ c \in Nat /\ e \in 0 .. period - 1 /\ r \in 0 .. block - 1
  BY ONLY <1>u, Zenon
<1> USE <1>v
<1>1. PICK q \in Nat : off = q * period + o
  <2>1. off = (off \div period) * period + (off % period) /\ off \div period \in Nat
    BY DivMod
  <2> QED BY ONLY <2>1, o = off % period
<1>2. PICK b \in Nat : b = c * period + e
  <2>1. c * period + e \in Nat
    OBVIOUS
  <2> QED BY <2>1
<1>3. (b * block + r) \div block = b
  <2>1. block \in Nat \ {0} /\ r \in 0 .. block - 1
    OBVIOUS
  <2> QED BY ONLY <2>1, <1>2, Quotients DEF Remains
<1>4. SlotOf(block, period, off, b * block + r + 1) = ((b + off) % period) + 1
  <2>1. (b * block + r + 1) - 1 = b * block + r
    OBVIOUS
  <2> QED BY <1>3, <2>1 DEF SlotOf
<1>x. x = b * block + r + 1
  BY ONLY <1>2, <1>u, Zenon
<1>5. CASE e + o < period
  <2>1. PICK d \in 0 .. period - 1 : d = e + o
    <3>1. e + o \in 0 .. period - 1
      BY <1>5
    <3> QED BY <3>1
  <2>2. PICK m \in Nat : m = c + q
    BY <1>1
  <2>3. b + off = m * period + d /\ Remains(period, m, d)
    <3>1. (c + q) * period = c * period + q * period
      BY <1>1
    <3>2. PICK u \in Int, v \in Int, w \in Int : u = c * period /\ v = q * period /\ w = m * period
      BY <1>1, <2>2
    <3>3. w = u + v /\ b = u + e /\ off = v + o
      BY ONLY <1>1, <1>2, <2>2, <3>1, <3>2, Zenon
    <3>4. b + off = w + d
      BY ONLY <1>v, <2>1, <3>2, <3>3
    <3> QED BY <2>1, <3>2, <3>4 DEF Remains
  <2>4. (b + off) % period = d
    BY ONLY <2>3, Quotients, Zenon
  <2> QED BY ONLY <1>x, <1>4, <1>5, <2>1, <2>4 DEF Reached
<1>6. CASE ~ (e + o < period)
  <2>1. PICK d \in 0 .. period - 1 : d = e + o - period
    <3>1. e + o - period \in 0 .. period - 1
      BY <1>6
    <3> QED BY <3>1
  <2>2. PICK m \in Nat : m = c + q + 1
    BY <1>1
  <2>3. b + off = m * period + d /\ Remains(period, m, d)
    <3>1. (c + q + 1) * period = c * period + q * period + period
      BY <1>1
    <3>2. PICK u \in Int, v \in Int, w \in Int : u = c * period /\ v = q * period /\ w = m * period
      BY <1>1, <2>2
    <3>3. w = u + v + period /\ b = u + e /\ off = v + o
      BY ONLY <1>1, <1>2, <2>2, <3>1, <3>2, Zenon
    <3>4. b + off = w + d
      BY ONLY <1>v, <2>1, <3>2, <3>3
    <3> QED BY <2>1, <3>2, <3>4 DEF Remains
  <2>4. (b + off) % period = d
    BY ONLY <2>3, Quotients, Zenon
  <2> QED BY ONLY <1>x, <1>4, <1>6, <2>1, <2>4 DEF Reached
<1> QED BY <1>5, <1>6

\* The unit of a round that reaches slot j, when rounds begin at slot o + 1.
Unit(period, o, j) == IF j - 1 >= o THEN j - 1 - o ELSE j - 1 - o + period

LEMMA UnitIs ==
  ASSUME NEW period \in Nat \ {0}, NEW o \in 0 .. period - 1
  PROVE  /\ \A j \in 1 .. period :
              /\ Unit(period, o, j) \in 0 .. period - 1
              /\ j = IF Unit(period, o, j) + o < period THEN Unit(period, o, j) + o + 1
                     ELSE Unit(period, o, j) + o - period + 1
         /\ \A e \in 0 .. period - 1, j \in 1 .. period :
              j = (IF e + o < period THEN e + o + 1 ELSE e + o - period + 1)
                => e = Unit(period, o, j)
BY DEF Unit

\* Element r of the c-th visit of slot j.
Visit(block, period, o, j, c, r) == (c * period + Unit(period, o, j)) * block + r + 1

\* The place of an element: its round, its unit of the round and its offset.
LEMMA PlaceOf ==
  ASSUME NEW block \in Nat \ {0}, NEW period \in Nat \ {0}, NEW rounds \in Nat,
         NEW n, n = rounds * period * block, NEW i \in 1 .. n
  PROVE  \E c, e, r : c \in 0 .. rounds - 1 /\ Place(block, period, c, e, r, i)
<1>0. PICK x \in Nat : x = i - 1
  OBVIOUS
<1>1. PICK b \in Nat, r \in 0 .. block - 1 : x = b * block + r
  BY DivMod
<1>2. PICK c \in Nat, e \in 0 .. period - 1 : b = c * period + e
  BY DivMod
<1>3. c < rounds
  <2>1. SUFFICES ASSUME c >= rounds PROVE FALSE
    OBVIOUS
  <2>2. rounds * period <= c * period
    BY <2>1, TimesMonotone
  <2>3. rounds * period <= b /\ rounds * period \in Int
    BY <1>2, <2>2
  <2>4. (rounds * period) * block <= b * block
    BY <2>3, TimesMonotone
  <2>5. PICK w \in Int : w = (rounds * period) * block /\ i <= w
    <3>1. (rounds * period) * block \in Int /\ i \in 1 .. n /\ n = (rounds * period) * block
      OBVIOUS
    <3> QED BY ONLY <3>1
  <2>6. PICK v \in Int : v = b * block
    OBVIOUS
  <2>7. w <= v
    BY ONLY <2>4, <2>5, <2>6
  <2> QED BY <1>0, <1>1, <2>5, <2>6, <2>7
<1>4. c \in 0 .. rounds - 1
  BY <1>3
<1>5. i = (c * period + e) * block + r + 1
  <2>1. i = b * block + r + 1
    BY <1>0, <1>1
  <2> QED BY ONLY <2>1, <1>2, Zenon
<1> QED BY <1>1, <1>2, <1>4, <1>5 DEF Place

Turns(block, period, off, rounds, slots) ==
  /\ block \in Nat \ {0} /\ period \in Nat \ {0} /\ off \in Nat /\ rounds \in Nat
  /\ slots \in SUBSET (1 .. period)

Taken(block, period, off, rounds, slots) ==
  {i \in 1 .. rounds * period * block : SlotOf(block, period, off, i) \in slots}

\* Over whole rounds, a set of slots gets its share of the elements.
LEMMA ShareOfRounds ==
  ASSUME NEW block, NEW period, NEW off, NEW rounds, NEW slots,
         Turns(block, period, off, rounds, slots)
  PROVE  Cardinality(Taken(block, period, off, rounds, slots)) = Cardinality(slots) * rounds * block
<1>t. /\ block \in Nat \ {0} /\ period \in Nat \ {0} /\ off \in Nat /\ rounds \in Nat
      /\ slots \in SUBSET (1 .. period)
  BY DEF Turns
<1> USE <1>t
<1>o. PICK o \in 0 .. period - 1 : o = off % period
  BY DivMod
<1>s. Stream(block, period, off, o)
  BY <1>o DEF Stream
<1> DEFINE S == (slots \X (0 .. rounds - 1)) \X (0 .. block - 1)
           T == {i \in 1 .. rounds * period * block : SlotOf(block, period, off, i) \in slots}
           f == [p \in S |-> Visit(block, period, o, p[1][1], p[1][2], p[2])]
<1>1. \A j \in slots : /\ j \in 1 .. period
                       /\ Unit(period, o, j) \in 0 .. period - 1
                       /\ j = IF Unit(period, o, j) + o < period THEN Unit(period, o, j) + o + 1
                              ELSE Unit(period, o, j) + o - period + 1
  BY UnitIs
<1>2. \A e \in 0 .. period - 1, j \in 1 .. period :
         j = (IF e + o < period THEN e + o + 1 ELSE e + o - period + 1) => e = Unit(period, o, j)
  BY UnitIs
<1>3. ASSUME NEW j \in slots, NEW c \in 0 .. rounds - 1, NEW r \in 0 .. block - 1
      PROVE  /\ <<<<j, c>>, r>> \in S
             /\ f[<<<<j, c>>, r>>] = Visit(block, period, o, j, c, r)
  <2>1. <<<<j, c>>, r>> \in S
    OBVIOUS
  <2> QED BY <2>1
<1>4. ASSUME NEW j \in slots, NEW c \in 0 .. rounds - 1, NEW r \in 0 .. block - 1
      PROVE  Visit(block, period, o, j, c, r) \in T
  <2>1. PICK e \in 0 .. period - 1 : /\ e = Unit(period, o, j)
                                     /\ j = IF e + o < period THEN e + o + 1 ELSE e + o - period + 1
    BY <1>1
  <2>2. \A x : x = (c * period + e) * block + r + 1 => SlotOf(block, period, off, x) = j
    <3>1. SUFFICES ASSUME NEW x, x = (c * period + e) * block + r + 1
                   PROVE  SlotOf(block, period, off, x) = j
      OBVIOUS
    <3>2. Place(block, period, c, e, r, x)
      BY <3>1 DEF Place
    <3>3. SlotOf(block, period, off, x) = Reached(period, o, e)
      BY ONLY <1>s, <3>2, PlaceSlots
    <3>4. j = Reached(period, o, e)
      BY ONLY <2>1, Zenon DEF Reached
    <3> QED BY ONLY <3>3, <3>4, Zenon
  <2>3. PICK x \in Int : x = (c * period + e) * block + r + 1
    OBVIOUS
  <2>4. x \in 1 .. rounds * period * block
    <3>1. (c + 1) * period <= rounds * period
      BY TimesMonotone
    <3>2. (c * period + e) + 1 <= rounds * period
      BY <3>1
    <3>3. ((c * period + e) + 1) * block <= (rounds * period) * block
      BY <3>2, TimesMonotone
    <3>4. PICK u \in Nat : u = c * period + e
      <4>1. c * period + e \in Nat
        OBVIOUS
      <4> QED BY <4>1
    <3>5. PICK v \in Nat : v = u * block
      OBVIOUS
    <3>6. PICK w \in Nat : w = (rounds * period) * block
      OBVIOUS
    <3>7. (u + 1) * block = v + block
      BY <3>5
    <3>8. x = v + r + 1 /\ v + block <= w
      BY ONLY <2>3, <3>3, <3>4, <3>5, <3>6, <3>7, Zenon
    <3>9. x \in 1 .. w
      BY ONLY <2>3, <3>5, <3>6, <3>8, r \in 0 .. block - 1, block \in Nat \ {0}
    <3> QED BY <3>6, <3>9
  <2> QED BY <2>1, <2>2, <2>3, <2>4 DEF Visit
<1>5. ASSUME NEW i \in T
      PROVE  \E j \in slots, c \in 0 .. rounds - 1, r \in 0 .. block - 1 :
               i = Visit(block, period, o, j, c, r)
  <2>1. PICK c, e, r : c \in 0 .. rounds - 1 /\ Place(block, period, c, e, r, i)
    <3>1. PICK n : n = rounds * period * block /\ i \in 1 .. n
      OBVIOUS
    <3> QED BY <3>1, PlaceOf
  <2>2. PICK j \in slots : j = SlotOf(block, period, off, i)
    OBVIOUS
  <2>3. j = Reached(period, o, e)
    <3>1. SlotOf(block, period, off, i) = Reached(period, o, e)
      BY ONLY <1>s, <2>1, PlaceSlots
    <3> QED BY ONLY <2>2, <3>1, Zenon
  <2>4. j \in 1 .. period
    BY <1>1
  <2>5. e = Unit(period, o, j)
    <3>1. e \in 0 .. period - 1
      BY <2>1 DEF Place
    <3> QED BY ONLY <1>2, <2>3, <2>4, <3>1, Zenon DEF Reached
  <2>6. i = Visit(block, period, o, j, c, r)
    BY ONLY <2>1, <2>5, Zenon DEF Visit, Place
  <2>7. r \in 0 .. block - 1
    BY <2>1 DEF Place
  <2> QED BY <2>1, <2>6, <2>7
<1>6. ASSUME NEW j \in slots, NEW c \in 0 .. rounds - 1, NEW r \in 0 .. block - 1,
             NEW k \in slots, NEW d \in 0 .. rounds - 1, NEW q \in 0 .. block - 1,
             Visit(block, period, o, j, c, r) = Visit(block, period, o, k, d, q)
      PROVE  j = k /\ c = d /\ r = q
  <2>1. PICK e \in 0 .. period - 1, g \in 0 .. period - 1 :
          e = Unit(period, o, j) /\ g = Unit(period, o, k)
    BY <1>1
  <2>2. PICK a \in Nat, b \in Nat : a = c * period + e /\ b = d * period + g
    <3>1. c * period + e \in Nat /\ d * period + g \in Nat
      OBVIOUS
    <3> QED BY <3>1
  <2>3. a * block + r + 1 = b * block + q + 1
    BY ONLY <1>6, <2>1, <2>2, Zenon DEF Visit
  <2>4. a * block + r = b * block + q
    BY <2>3
  <2>5. /\ block \in Nat \ {0} /\ period \in Nat \ {0} /\ r \in 0 .. block - 1
        /\ q \in 0 .. block - 1 /\ c \in Nat /\ d \in Nat
    OBVIOUS
  <2>6. a = b /\ r = q
    <3>1. PICK x : x = a * block + r
      OBVIOUS
    <3>2. Remains(block, a, r) /\ Remains(block, b, q)
      BY ONLY <2>2, <2>5 DEF Remains
    <3>3. x \div block = a /\ x % block = r /\ x \div block = b /\ x % block = q
      BY ONLY <2>4, <3>1, <3>2, Quotients, Zenon
    <3> QED BY ONLY <3>3, Zenon
  <2>7. c = d /\ e = g
    <3>1. a = c * period + e /\ a = d * period + g
      BY ONLY <2>2, <2>6, Zenon
    <3>2. /\ a \div period = c /\ a % period = e
          /\ a \div period = d /\ a % period = g
      <4>1. Remains(period, c, e) /\ Remains(period, d, g)
        BY ONLY <2>1, <2>5 DEF Remains
      <4> QED BY ONLY <3>1, <4>1, Quotients, Zenon
    <3> QED BY ONLY <3>2, Zenon
  <2>8. j = k
    <3>1. /\ j = IF e + o < period THEN e + o + 1 ELSE e + o - period + 1
          /\ k = IF g + o < period THEN g + o + 1 ELSE g + o - period + 1
      BY <1>1, <2>1
    <3> QED BY ONLY <2>7, <3>1, Zenon
  <2> QED BY <2>6, <2>7, <2>8
<1>7. ASSUME NEW p \in S
      PROVE  \E j \in slots, c \in 0 .. rounds - 1, r \in 0 .. block - 1 : p = <<<<j, c>>, r>>
  <2>1. p[1] \in slots \X (0 .. rounds - 1) /\ p[2] \in 0 .. block - 1 /\ p = <<p[1], p[2]>>
    OBVIOUS
  <2>2. p[1][1] \in slots /\ p[1][2] \in 0 .. rounds - 1 /\ p[1] = <<p[1][1], p[1][2]>>
    BY <2>1
  <2>3. p = <<<<p[1][1], p[1][2]>>, p[2]>>
    BY ONLY <2>1, <2>2, Zenon
  <2> QED BY <2>1, <2>2, <2>3
<1> DEFINE Triple(j, c, r) == j \in slots /\ c \in 0 .. rounds - 1 /\ r \in 0 .. block - 1
<1>13. \A j, c, r : Triple(j, c, r) =>
          /\ <<<<j, c>>, r>> \in S
          /\ f[<<<<j, c>>, r>>] = Visit(block, period, o, j, c, r)
          /\ Visit(block, period, o, j, c, r) \in T
  BY <1>3, <1>4
<1>14. \A i \in T : \E j, c, r : Triple(j, c, r) /\ i = Visit(block, period, o, j, c, r)
  BY <1>5
<1>15. \A j, c, r, k, d, q :
          Triple(j, c, r) /\ Triple(k, d, q)
          /\ Visit(block, period, o, j, c, r) = Visit(block, period, o, k, d, q)
          => j = k /\ c = d /\ r = q
  BY <1>6
<1>16. \A p \in S : \E j, c, r : Triple(j, c, r) /\ p = <<<<j, c>>, r>>
  BY <1>7
<1>17. f = [p \in S |-> f[p]]
  BY DEF f
<1> HIDE DEF S, T, f, Triple
<1>8. f \in [S -> T]
  <2>2. ASSUME NEW p \in S PROVE f[p] \in T
    <3>1. PICK j, c, r : Triple(j, c, r) /\ p = <<<<j, c>>, r>>
      BY <1>16
    <3>2. f[p] = Visit(block, period, o, j, c, r) /\ Visit(block, period, o, j, c, r) \in T
      BY ONLY <1>13, <3>1, Zenon
    <3> QED BY ONLY <3>2, Zenon
  <2> QED BY ONLY <1>17, <2>2
<1>9. ASSUME NEW t \in T PROVE \E p \in S : f[p] = t
  <2>1. PICK j, c, r : Triple(j, c, r) /\ t = Visit(block, period, o, j, c, r)
    BY <1>14
  <2>2. <<<<j, c>>, r>> \in S /\ f[<<<<j, c>>, r>>] = t
    BY ONLY <1>13, <2>1, Zenon
  <2> QED BY ONLY <2>2, Zenon
<1>10. \A p, u \in S : f[p] = f[u] => p = u
  <2>1. SUFFICES ASSUME NEW p \in S, NEW u \in S, f[p] = f[u] PROVE p = u
    OBVIOUS
  <2>2. PICK j, c, r : Triple(j, c, r) /\ p = <<<<j, c>>, r>>
    BY <1>16
  <2>3. PICK k, d, q : Triple(k, d, q) /\ u = <<<<k, d>>, q>>
    BY <1>16
  <2>4. f[p] = Visit(block, period, o, j, c, r) /\ f[u] = Visit(block, period, o, k, d, q)
    BY ONLY <1>13, <2>2, <2>3, Zenon
  <2>5. Visit(block, period, o, j, c, r) = Visit(block, period, o, k, d, q)
    BY ONLY <2>1, <2>4, Zenon
  <2>6. j = k /\ c = d /\ r = q
    BY ONLY <1>15, <2>2, <2>3, <2>5, Zenon
  <2> QED BY ONLY <2>2, <2>3, <2>6, Zenon
<1>11. IsFiniteSet(S) /\ Cardinality(S) = (Cardinality(slots) * rounds) * block
  <2>1. IsFiniteSet(slots)
    <3>1. IsFiniteSet(1 .. period) /\ slots \subseteq 1 .. period
      BY IntervalFinite
    <3> QED BY ONLY <3>1, FS_Subset, Zenon
  <2>2. /\ IsFiniteSet(0 .. rounds - 1) /\ Cardinality(0 .. rounds - 1) = rounds
        /\ IsFiniteSet(0 .. block - 1) /\ Cardinality(0 .. block - 1) = block
    <3>1. \A n \in Nat : IsFiniteSet(0 .. n - 1) /\ Cardinality(0 .. n - 1) = n
      BY FS_Interval
    <3> QED BY <3>1
  <2>3. \A A, B : IsFiniteSet(A) /\ IsFiniteSet(B)
          => IsFiniteSet(A \X B) /\ Cardinality(A \X B) = Cardinality(A) * Cardinality(B)
    BY ONLY FS_Product, Zenon
  <2>4. /\ IsFiniteSet(slots \X (0 .. rounds - 1))
        /\ Cardinality(slots \X (0 .. rounds - 1)) = Cardinality(slots) * rounds
    BY ONLY <2>1, <2>2, <2>3, Zenon
  <2>5. Cardinality(S) = Cardinality(slots \X (0 .. rounds - 1)) * block /\ IsFiniteSet(S)
    BY ONLY <2>2, <2>3, <2>4, Zenon DEF S
  <2> QED BY ONLY <2>4, <2>5, Zenon
<1>12. Cardinality(T) = Cardinality(S)
  BY <1>8, <1>9, <1>10, <1>11, SameSize, Zenon
<1> QED BY ONLY <1>11, <1>12, Zenon DEF T, Taken

-----------------------------------------------------------------------------
(* Runs of one number after another                                        *)

\* Sequence i of seqs is size[i] times the number i.
NumberRuns(n, size, seqs) ==
  /\ n \in Nat /\ \A i \in 1 .. n : size[i] \in Nat
  /\ seqs = [i \in 1 .. n |-> [k \in 1 .. size[i] |-> i]]

LEMMA RunsPlaced ==
  ASSUME NEW n, NEW size, NEW seqs, NumberRuns(n, size, seqs)
  PROVE  PiecesAt(1 .. n, seqs, n, [i \in 1 .. n + 1 |-> SumFunctionOnSet(size, 1 .. i - 1)])
<1> DEFINE at == [i \in 1 .. n + 1 |-> SumFunctionOnSet(size, 1 .. i - 1)]
<1>0. n \in Nat /\ \A i \in 1 .. n : size[i] \in Nat
  BY DEF NumberRuns
<1>1. Len(seqs) = n /\ (n = 0 => seqs = <<>>)
  BY DEF NumberRuns
<1>2. ASSUME NEW i \in 1 .. n PROVE seqs[i] \in Seq(1 .. n) /\ Len(seqs[i]) = size[i]
  <2>1. seqs[i] = [k \in 1 .. size[i] |-> i] /\ size[i] \in Nat
    BY <1>0 DEF NumberRuns
  <2>2. [k \in 1 .. size[i] |-> i] \in Seq(1 .. n) /\ Len([k \in 1 .. size[i] |-> i]) = size[i]
    <3>1. PICK X, m : X = 1 .. n /\ m = size[i] /\ m \in Nat /\ i \in X
      BY <2>1
    <3>2. [k \in 1 .. m |-> i] \in Seq(X) /\ Len([k \in 1 .. m |-> i]) = m
      <4>1. PICK f : f = [k \in 1 .. m |-> i]
        OBVIOUS
      <4>2. f \in [1 .. m -> X] /\ DOMAIN f = 1 .. m
        BY ONLY <3>1, <4>1
      <4>3. f \in Seq(X)
        <5>1. m \in Nat
          BY <3>1
        <5> QED BY ONLY <5>1, <4>2
      <4>4. Len(f) = m
        BY ONLY <3>1, <4>2, <4>3
      <4> QED BY ONLY <4>1, <4>3, <4>4, Zenon
    <3> QED BY ONLY <3>1, <3>2, Zenon
  <2> QED BY ONLY <2>1, <2>2, Zenon
<1>3. at[1] = 0
  <2>1. 1 .. 1 - 1 = {} /\ 1 \in 1 .. n + 1
    BY <1>0
  <2> QED BY <2>1, SumEmpty
<1>4. ASSUME NEW i \in 1 .. n PROVE at[i + 1] = at[i] + size[i]
  <2>1. PICK m \in Nat : i = m + 1
    <3>1. i - 1 \in Nat /\ i = (i - 1) + 1
      BY <1>0
    <3> QED BY ONLY <3>1
  <2>2. /\ at[i + 1] = SumFunctionOnSet(size, 1 .. m + 1)
        /\ at[i] = SumFunctionOnSet(size, 1 .. m)
    <3>1. /\ i \in 1 .. n + 1 /\ i + 1 \in 1 .. n + 1
          /\ i - 1 = m /\ (i + 1) - 1 = m + 1
      BY <1>0, <2>1
    <3> QED BY <3>1
  <2>3. Extends(size, size, m) /\ \A k \in 1 .. m : size[k] \in Nat
    BY <1>0, <2>1 DEF Extends
  <2>4. /\ SumFunctionOnSet(size, 1 .. m + 1) = size[m + 1] + SumFunctionOnSet(size, 1 .. m)
        /\ SumFunctionOnSet(size, 1 .. m) \in Nat
    BY <2>3, SumLast, SumNatural
  <2>5. size[m + 1] = size[i] /\ size[i] \in Nat
    BY <1>0, <2>1
  <2> QED BY ONLY <2>2, <2>4, <2>5
<1> HIDE DEF at
<1> QED BY <1>0, <1>1, <1>2, <1>3, <1>4 DEF PiecesAt, at

\* Of a flattening of runs, each number is as often there as its run is long.
LEMMA RunsCounted ==
  ASSUME NEW n, NEW size, NEW seqs, NumberRuns(n, size, seqs)
  PROVE  /\ FlattenSeq(seqs) \in Seq(1 .. n)
         /\ Len(FlattenSeq(seqs)) = SumFunctionOnSet(size, 1 .. n)
         /\ \A s \in 1 .. n :
              Cardinality({j \in 1 .. Len(FlattenSeq(seqs)) : FlattenSeq(seqs)[j] = s}) = size[s]
<1>0. n \in Nat /\ \A i \in 1 .. n : size[i] \in Nat
  BY DEF NumberRuns
<1>1. PICK at : /\ PiecesAt(1 .. n, seqs, n, at)
                /\ at = [i \in 1 .. n + 1 |-> SumFunctionOnSet(size, 1 .. i - 1)]
  BY RunsPlaced
<1>2. PICK flat : flat = FlattenSeq(seqs)
  OBVIOUS
<1>3. /\ flat \in Seq(1 .. n) /\ at[n + 1] \in Nat /\ Len(flat) = at[n + 1]
      /\ \A i \in 1 .. n : SubSeq(flat, at[i] + 1, at[i + 1]) = seqs[i]
  <2>1. PICK X : X = 1 .. n
    OBVIOUS
  <2>2. PiecesAt(X, seqs, n, at)
    BY ONLY <1>1, <2>1, Zenon
  <2>3. /\ FlattenSeq(seqs) \in Seq(X) /\ at[n + 1] \in Nat /\ Len(FlattenSeq(seqs)) = at[n + 1]
        /\ \A i \in 1 .. n : SubSeq(FlattenSeq(seqs), at[i] + 1, at[i + 1]) = seqs[i]
    BY ONLY <2>2, FlattenedPieces
  <2> QED BY ONLY <1>2, <2>1, <2>3, Zenon
<1>4. at[1] = 0 /\ at[n + 1] = SumFunctionOnSet(size, 1 .. n)
  <2>1. n + 1 \in 1 .. n + 1 /\ (n + 1) - 1 = n
    BY <1>0
  <2>2. at[1] = 0
    BY <1>1 DEF PiecesAt
  <2> QED BY <1>1, <2>1, <2>2
<1>5. ASSUME NEW i \in 1 .. n
      PROVE  /\ at[i] \in Nat /\ at[i + 1] \in Nat /\ size[i] \in Nat
             /\ at[i + 1] = at[i] + size[i] /\ seqs[i] = [k \in 1 .. size[i] |-> i]
  <2>1. \A k \in 1 .. i - 1 : size[k] \in Nat
    BY <1>0
  <2>2. i - 1 \in Nat /\ i \in 1 .. n + 1
    BY <1>0
  <2>3. at[i] \in Nat
    BY <1>1, <2>1, <2>2, SumNatural
  <2>4. seqs[i] = [k \in 1 .. size[i] |-> i] /\ Len(seqs[i]) = size[i]
    BY <1>0 DEF NumberRuns
  <2>5. at[i + 1] = at[i] + Len(seqs[i])
    BY <1>1 DEF PiecesAt
  <2>6. size[i] \in Nat
    BY <1>0
  <2>7. at[i + 1] \in Nat
    BY ONLY <2>3, <2>4, <2>5, <2>6
  <2> QED BY ONLY <2>3, <2>4, <2>5, <2>6, <2>7, Zenon
<1>6. ASSUME NEW i \in 1 .. n PROVE at[i + 1] <= at[n + 1]
  <2> DEFINE T == {m \in Nat : i + m <= n => at[i + 1] <= at[i + m + 1]}
  <2>1. 0 \in T
    <3>1. PICK x \in Nat : at[i + 1] = x
      BY <1>5
    <3>2. i + 0 + 1 = i + 1
      OBVIOUS
    <3> QED BY <3>1, <3>2
  <2>2. ASSUME NEW m \in Nat, m \in T PROVE m + 1 \in T
    <3>1. SUFFICES ASSUME i + (m + 1) <= n PROVE at[i + 1] <= at[i + (m + 1) + 1]
      OBVIOUS
    <3>2. PICK k \in 1 .. n : k = i + m + 1
      <4>1. i + m + 1 \in 1 .. n
        BY <1>0, <3>1
      <4> QED BY <4>1
    <3>3. at[k] \in Nat /\ at[k + 1] = at[k] + size[k] /\ size[k] \in Nat /\ at[i + 1] \in Nat
      BY <1>5, Zenon
    <3>4. at[i + 1] <= at[k]
      <4>1. i + m <= n
        BY <1>0, <3>1
      <4>2. at[i + 1] <= at[i + m + 1]
        BY <2>2, <4>1
      <4> QED BY ONLY <3>2, <4>2, Zenon
    <3>5. i + (m + 1) + 1 = k + 1
      BY <3>2
    <3> QED BY ONLY <3>3, <3>4, <3>5
  <2>3. n - i \in T
    <3> HIDE DEF T
    <3>1. n - i \in Nat
      BY <1>0
    <3> QED BY <2>1, <2>2, <3>1, Induction
  <2>4. i + (n - i) = n
    BY <1>0
  <2> QED BY <1>0, <2>3, <2>4
<1>7. ASSUME NEW i \in 1 .. n, NEW j \in at[i] + 1 .. at[i + 1]
      PROVE  j \in 1 .. Len(flat) /\ flat[j] = i
  <2>1. PICK a \in Nat, b \in Nat : a = at[i] /\ b = at[i + 1] /\ b = a + size[i] /\ b <= Len(flat)
    <3>1. /\ at[i] \in Nat /\ at[i + 1] \in Nat /\ at[i + 1] = at[i] + size[i]
          /\ at[i + 1] <= at[n + 1] /\ Len(flat) = at[n + 1]
      BY <1>3, <1>5, <1>6, Zenon
    <3> QED BY ONLY <3>1, Zenon
  <2>0. size[i] \in Nat /\ j \in a + 1 .. b /\ Len(flat) \in Nat
    BY <1>3, <1>5, <2>1
  <2>2. j \in 1 .. Len(flat) /\ j - a \in 1 .. size[i]
    BY ONLY <2>0, <2>1
  <2>3. SubSeq(flat, a + 1, b) = [k \in 1 .. size[i] |-> i]
    BY <1>3, <1>5, <2>1
  <2>4. SubSeq(flat, a + 1, b)[j - a] = flat[j]
    <3>1. j \in a + 1 .. b
      BY <2>1
    <3>2. PICK k \in Nat : k = j - a /\ k \in 1 .. b - a /\ a + k = j
      BY ONLY <2>0, <2>1, <2>2
    <3>4. SubSeq(flat, a + 1, b)[k] = flat[a + k]
      <4>1. PICK X : flat \in Seq(X)
        BY <1>3
      <4>2. b <= Len(flat) /\ a \in Nat /\ b \in Nat
        BY <2>1
      <4> QED BY ONLY <3>2, <4>1, <4>2
    <3> QED BY ONLY <3>2, <3>4, Zenon
  <2>5. [k \in 1 .. size[i] |-> i][j - a] = i
    BY <2>2
  <2> QED BY ONLY <2>2, <2>3, <2>4, <2>5, Zenon
<1>8. ASSUME NEW j \in 1 .. Len(flat) PROVE \E i \in 1 .. n : j \in at[i] + 1 .. at[i + 1]
  <2> DEFINE T == {i \in Nat : i <= n /\ j <= at[i + 1]}
  <2>1. n \in T
    BY <1>0, <1>3
  <2>2. PICK i \in T : \A m \in T : i <= m
    BY <2>1, LeastNatural
  <2>3. i # 0
    BY <1>3, <1>4, <2>2
  <2>4. i \in 1 .. n /\ i - 1 \in Nat /\ (i - 1) + 1 = i /\ i - 1 <= n
    BY <1>0, <2>2, <2>3
  <2>5. ~ (j <= at[i])
    <3>1. SUFFICES ASSUME j <= at[i] PROVE FALSE
      OBVIOUS
    <3>2. i - 1 \in T
      BY <2>4, <3>1
    <3> HIDE DEF T
    <3>3. i <= i - 1
      BY <2>2, <3>2
    <3> QED BY <2>4, <3>3
  <2>6. at[i] \in Nat /\ at[i + 1] \in Nat /\ j <= at[i + 1]
    <3>1. j <= at[i + 1]
      BY <2>2
    <3>2. i \in 1 .. n
      BY <2>4
    <3> QED BY ONLY <1>5, <3>1, <3>2, Zenon
  <2>7. j \in at[i] + 1 .. at[i + 1]
    <3>1. j \in Nat
      BY <1>3
    <3> QED BY ONLY <2>5, <2>6, <3>1
  <2> QED BY <2>4, <2>7
<1>9. ASSUME NEW s \in 1 .. n
      PROVE  {j \in 1 .. Len(flat) : flat[j] = s} = at[s] + 1 .. at[s + 1]
  <2>1. ASSUME NEW j \in 1 .. Len(flat), flat[j] = s PROVE j \in at[s] + 1 .. at[s + 1]
    <3>1. PICK i \in 1 .. n : j \in at[i] + 1 .. at[i + 1]
      BY <1>8
    <3>2. i = s
      BY <1>7, <2>1, <3>1
    <3> QED BY <3>1, <3>2
  <2> QED BY <1>7, <2>1
<1>10. ASSUME NEW s \in 1 .. n
       PROVE  Cardinality({j \in 1 .. Len(flat) : flat[j] = s}) = size[s]
  <2>1. PICK a \in Nat, b \in Nat : a = at[s] /\ b = at[s + 1] /\ b = a + size[s] /\ size[s] \in Nat
    <3>1. /\ at[s] \in Nat /\ at[s + 1] \in Nat /\ at[s + 1] = at[s] + size[s] /\ size[s] \in Nat
      BY <1>5, Zenon
    <3> QED BY ONLY <3>1, Zenon
  <2>2. Cardinality(a + 1 .. b) = size[s]
    <3>1. \A x, y \in Int : Cardinality(x .. y) = IF x > y THEN 0 ELSE y - x + 1
      BY FS_Interval
    <3>2. Cardinality(a + 1 .. b) = IF a + 1 > b THEN 0 ELSE b - (a + 1) + 1
      BY <3>1
    <3> QED BY ONLY <2>1, <3>2
  <2> QED BY <1>9, <2>1, <2>2
<1> QED BY <1>2, <1>3, <1>4, <1>10

LEMMA SumScaled ==
  ASSUME NEW f, NEW g, NEW d \in Int, NEW n \in Nat,
         \A i \in 1 .. n : f[i] \in Nat /\ g[i] \in Nat /\ g[i] = f[i] * d
  PROVE  SumFunctionOnSet(g, 1 .. n) = SumFunctionOnSet(f, 1 .. n) * d
<1> DEFINE T == {m \in Nat : m <= n => SumFunctionOnSet(g, 1 .. m) = SumFunctionOnSet(f, 1 .. m) * d}
<1>1. 0 \in T
  <2>1. 1 .. 0 = {}
    OBVIOUS
  <2> QED BY <2>1, SumEmpty
<1>2. ASSUME NEW m \in Nat, m \in T PROVE m + 1 \in T
  <2>1. SUFFICES ASSUME m + 1 <= n
                 PROVE SumFunctionOnSet(g, 1 .. m + 1) = SumFunctionOnSet(f, 1 .. m + 1) * d
    OBVIOUS
  <2>2. Extends(f, f, m) /\ Extends(g, g, m)
    BY <2>1 DEF Extends
  <2>3. /\ SumFunctionOnSet(f, 1 .. m + 1) = f[m + 1] + SumFunctionOnSet(f, 1 .. m)
        /\ SumFunctionOnSet(g, 1 .. m + 1) = g[m + 1] + SumFunctionOnSet(g, 1 .. m)
    BY ONLY <2>2, SumLast
  <2>4. SumFunctionOnSet(f, 1 .. m) \in Nat
    BY <2>1, SumNatural
  <2>5. SumFunctionOnSet(g, 1 .. m) = SumFunctionOnSet(f, 1 .. m) * d
    BY <1>2, <2>1
  <2>6. f[m + 1] \in Nat /\ g[m + 1] = f[m + 1] * d
    BY <2>1
  <2>7. PICK x \in Nat, y \in Nat : x = f[m + 1] /\ y = SumFunctionOnSet(f, 1 .. m)
    BY <2>4, <2>6
  <2>8. (x + y) * d = x * d + y * d
    OBVIOUS
  <2> QED BY ONLY <2>3, <2>5, <2>6, <2>7, <2>8, Zenon
<1>3. n \in T
  <2> HIDE DEF T
  <2> QED BY <1>1, <1>2, Induction
<1> QED BY <1>3


LEMMA IntDivMod ==
  ASSUME NEW r \in Nat \ {0}, NEW x \in Int
  PROVE  /\ x \div r \in Int
         /\ x % r \in 0 .. r - 1
         /\ x = (x \div r) * r + (x % r)
OBVIOUS

\* A non-empty finite set of natural numbers has a greatest element.
LEMMA GreatestNatural ==
  ASSUME NEW S, S \subseteq Nat, IsFiniteSet(S), S # {}
  PROVE  \E x \in S : \A y \in S : x >= y
<1> DEFINE Subsets(n) == {s \in SUBSET S : Cardinality(s) = n + 1}
           T == {n \in Nat : \A s \in Subsets(n) : \E x \in s : \A y \in s : x >= y}
<1>1. \A s \in SUBSET S : IsFiniteSet(s) /\ Cardinality(s) \in Nat /\ (Cardinality(s) = 0 <=> s = {})
  BY FS_Subset, FS_CardinalityType, FS_EmptySet
<1>2. 0 \in T
  <2> SUFFICES ASSUME NEW s \in Subsets(0) PROVE \E x \in s : \A y \in s : x >= y
    OBVIOUS
  <2>1. PICK x \in s : Cardinality(s \ {x}) = 0
    BY <1>1, SmallerSubset
  <2>2. s = {x} /\ x \in Nat
    BY <1>1, <2>1
  <2> QED BY <2>2
<1>3. ASSUME NEW n \in Nat, n \in T PROVE n + 1 \in T
  <2> SUFFICES ASSUME NEW s \in Subsets(n + 1) PROVE \E x \in s : \A y \in s : x >= y
    OBVIOUS
  <2>1. PICK x \in s : x \in Nat /\ s \ {x} \in Subsets(n)
    <3>1. s \in SUBSET S /\ Cardinality(s) = n + 2
      OBVIOUS
    <3>2. PICK x \in s : x \in Nat
      BY <1>1, <3>1
    <3>3. Cardinality(s \ {x}) = Cardinality(s) - 1 /\ s \ {x} \in SUBSET S
      BY <3>1, <3>2, SmallerSubset
    <3> QED BY <3>1, <3>2, <3>3
  <2>2. PICK z \in s \ {x} : \A y \in s \ {x} : z >= y
    BY <1>3, <2>1
  <2>3. z \in Nat /\ \A y \in s : y \in Nat
    OBVIOUS
  <2>4. CASE x >= z
    BY <2>1, <2>2, <2>3, <2>4
  <2>5. CASE z >= x
    BY <2>1, <2>2, <2>3, <2>5
  <2> QED BY <2>1, <2>3, <2>4, <2>5
<1>4. Nat \subseteq T
  <2> HIDE DEF T
  <2> QED BY <1>2, <1>3, Induction
<1>5. PICK n \in Nat : Cardinality(S) = n + 1
  <2>1. PICK c \in Nat : c = Cardinality(S) /\ c # 0
    BY <1>1
  <2>2. c - 1 \in Nat /\ c = (c - 1) + 1
    BY <2>1
  <2> QED BY <2>1, <2>2
<1> QED BY <1>4, <1>5
=============================================================================
