------------------------- MODULE StreamCacheProofs -------------------------
(***************************************************************************)
(* Proofs about StreamCache for every stack, ratio, window and chunking.   *)
(* The argument: in every reachable state the cache of a layer is a        *)
(* function of the number of positions it was given (Holds), whatever the  *)
(* chunks were, provided the stream starts on a group boundary.  Two       *)
(* consequences follow: compressed history only grows, and a cached        *)
(* forward pass is attention over the whole history.                       *)
(***************************************************************************)
EXTENDS StreamCache, SequenceTheorems, DataLemmas

-----------------------------------------------------------------------------
(* Groups of positions                                                     *)

\* Multiples of the divisor pass through a quotient.
LEMMA DivShift ==
  ASSUME NEW r \in Nat \ {0}, NEW x \in Nat, NEW a \in Nat
  PROVE  (a * r + x) \div r = a + (x \div r)
<1> DEFINE d == x \div r
<1>1. d \in Nat /\ x = d * r + (x % r) /\ x % r \in 0 .. r - 1
  BY DivMod
<1>2. (a + d) * r = a * r + d * r /\ (a + d + 1) * r = a * r + d * r + r /\ a * r \in Nat
  BY <1>1
<1>3. /\ (a + d) * r <= a * r + x /\ a * r + x < (a + d + 1) * r
      /\ a * r + x \in Nat /\ a + d \in Nat
  BY <1>1, <1>2
<1> HIDE DEF d
<1> QED
  BY <1>3, DivUnique DEF d

-----------------------------------------------------------------------------
(* Ranges of positions                                                     *)

\* arange(a, b) is the sequence of b - a consecutive positions from a.
LEMMA ArangeType ==
  ASSUME NEW a \in Nat, NEW b \in Nat, a <= b
  PROVE  /\ Arange(a, b) \in Seq(Nat)
         /\ Len(Arange(a, b)) = b - a
         /\ \A i \in 1 .. b - a : Arange(a, b)[i] = a + i - 1
         /\ DOMAIN Arange(a, b) = 1 .. b - a
  BY DEF Arange

\* Adjacent aranges join to one.
LEMMA ArangeConcat ==
  ASSUME NEW a \in Nat, NEW b \in Nat, NEW c \in Nat, a <= b, b <= c
  PROVE  Arange(a, b) \o Arange(b, c) = Arange(a, c)
  BY DEF Arange

\* Dropping the first k positions of an arange moves its start.
LEMMA ArangeSubSeq ==
  ASSUME NEW a \in Nat, NEW c \in Nat, NEW k \in Nat, a + k <= c
  PROVE  SubSeq(Arange(a, c), k + 1, c - a) = Arange(a + k, c)
  BY DEF Arange

\* Truncating the joined window gives the window after the new positions.
LEMMA WindowStep ==
  ASSUME NEW n \in Nat, NEW m \in Nat, Start <= n, n <= m
  PROVE  KeepLast(LocalAt(n) \o Arange(n, m), Window) = LocalAt(m)
<1> USE StartAssumption, WindowAssumption
<1> DEFINE a == Larger(Start, n - Window)
           b == Larger(Start, m - Window)
<1>1. a \in Nat /\ b \in Nat /\ a <= n /\ b <= m /\ a <= b
  BY DEF Larger
<1>2. LocalAt(n) = Arange(a, n) /\ LocalAt(m) = Arange(b, m)
  BY DEF LocalAt
<1>3. Larger((m - a) - Window, 0) = b - a
  BY <1>1 DEF Larger
<1> HIDE DEF a, b
<1>4. LocalAt(n) \o Arange(n, m) = Arange(a, m)
  <2>1. Arange(a, n) \o Arange(n, m) = Arange(a, m)
    BY <1>1, ArangeConcat
  <2> QED
    BY <1>2, <2>1
<1>5. Len(Arange(a, m)) = m - a
  <2>1. a <= m
    BY <1>1
  <2> QED
    BY <1>1, <2>1, ArangeType
<1>6. SubSeq(Arange(a, m), (b - a) + 1, m - a) = Arange(b, m)
  <2> DEFINE k == b - a
  <2>1. k \in Nat /\ a + k = b /\ a + k <= m
    BY <1>1
  <2> HIDE DEF k
  <2>2. SubSeq(Arange(a, m), k + 1, m - a) = Arange(a + k, m)
    BY <1>1, <2>1, ArangeSubSeq
  <2> QED
    BY <2>1, <2>2 DEF k
<1> QED
  BY <1>1, <1>2, <1>3, <1>4, <1>5, <1>6 DEF KeepLast

-----------------------------------------------------------------------------
(* The compressor on a stream that starts on a group boundary              *)

\* The first m multiples of r, shifted by one: where runs start.
Firsts(r, m) == {j * r + 1 : j \in 0 .. m - 1}

\* Among m whole groups there are m first members.
LEMMA FirstsCount ==
  ASSUME NEW r \in Nat \ {0}, NEW m \in Nat
  PROVE  Cardinality(Firsts(r, m)) = m
<1> DEFINE f == [k \in 1 .. m |-> (k - 1) * r + 1]
<1>1. f \in [1 .. m -> Firsts(r, m)]
  <2> SUFFICES ASSUME NEW k \in 1 .. m
               PROVE  (k - 1) * r + 1 \in Firsts(r, m)
    OBVIOUS
  <2>1. k - 1 \in 0 .. m - 1
    OBVIOUS
  <2> QED
    BY <2>1 DEF Firsts
<1>2. ASSUME NEW k \in 1 .. m, NEW l \in 1 .. m, f[k] = f[l]
      PROVE  k = l
  <2>1. (k - 1) * r = (l - 1) * r
    BY <1>2
  <2>2. CASE k < l
    <3>1. (k - 1 + 1) * r <= (l - 1) * r
      BY <2>2, TimesMonotone
    <3>2. (k - 1 + 1) * r = (k - 1) * r + r
      OBVIOUS
    <3> QED
      BY <2>1, <3>1, <3>2
  <2>3. CASE l < k
    <3>1. (l - 1 + 1) * r <= (k - 1) * r
      BY <2>3, TimesMonotone
    <3>2. (l - 1 + 1) * r = (l - 1) * r + r
      OBVIOUS
    <3> QED
      BY <2>1, <3>1, <3>2
  <2> QED
    BY <2>2, <2>3
<1>3. ASSUME NEW x \in Firsts(r, m)
      PROVE  \E k \in 1 .. m : f[k] = x
  <2>1. PICK j \in 0 .. m - 1 : x = j * r + 1
    BY DEF Firsts
  <2>2. j + 1 \in 1 .. m /\ f[j + 1] = x
    BY <2>1
  <2> QED
    BY <2>2
<1>4. f \in Bijection(1 .. m, Firsts(r, m))
  BY <1>1, <1>2, <1>3 DEF Bijection, Injection, Surjection, IsInjective
<1> HIDE DEF f
<1> QED
  BY <1>4, FS_CountingElements DEF ExistsBijection

\* The quotient of the i-th position of an aligned stream.
LEMMA GroupOfIndex ==
  ASSUME NEW r \in Nat \ {0}, NEW a \in Nat, NEW n \in Nat, NEW i \in 1 .. n
  PROVE  /\ Arange(a * r, a * r + n)[i] = a * r + (i - 1)
         /\ Arange(a * r, a * r + n)[i] \div r = a + ((i - 1) \div r)
<1>1. a * r \in Nat /\ (a * r + n) - a * r = n
  OBVIOUS
<1>2. Arange(a * r, a * r + n)[i] = a * r + (i - 1)
  BY <1>1 DEF Arange
<1>3. (a * r + (i - 1)) \div r = a + ((i - 1) \div r)
  <2> DEFINE x == i - 1
  <2>1. x \in Nat
    OBVIOUS
  <2> HIDE DEF x
  <2>2. (a * r + x) \div r = a + (x \div r)
    BY <2>1, DivShift
  <2> QED
    BY <2>2 DEF x
<1> QED
  BY <1>2, <1>3

\* Where the members of the j-th group sit in a stream of n positions.
Slots(n, r, j) == {i \in 1 .. n : j * r + 1 <= i /\ i <= (j + 1) * r}

\* In a stream that starts at a group boundary the members of the j-th group
\* are the j-th slots.
LEMMA MembersAligned ==
  ASSUME NEW r \in Nat \ {0}, NEW a \in Nat, NEW n \in Nat, NEW j \in Nat
  PROVE  MembersOf(Arange(a * r, a * r + n), r, a + j) = Slots(n, r, j)
<1> DEFINE s == Arange(a * r, a * r + n)
<1>1. DOMAIN s = 1 .. n
  BY DEF Arange
<1>2. ASSUME NEW i \in 1 .. n
      PROVE  s[i] \div r = a + j <=> j * r + 1 <= i /\ i <= (j + 1) * r
  <2> DEFINE d == (i - 1) \div r
  <2>1. s[i] \div r = a + d
    BY GroupOfIndex
  <2>2. d \in Nat /\ i - 1 = d * r + ((i - 1) % r) /\ (i - 1) % r \in 0 .. r - 1
    <3> DEFINE x == i - 1
    <3>1. x \in Nat
      OBVIOUS
    <3> HIDE DEF x
    <3>2. x \div r \in Nat /\ x = (x \div r) * r + (x % r) /\ x % r \in 0 .. r - 1
      BY <3>1, DivMod
    <3> QED
      BY <3>2 DEF x
  <2>3. (j + 1) * r = j * r + r /\ (d + 1) * r = d * r + r
    BY <2>2
  <2>4. ASSUME j * r + 1 <= i, i <= (j + 1) * r
        PROVE  d = j
    BY <2>4, DivUnique
  <2> QED
    BY <2>1, <2>2, <2>3, <2>4
<1> HIDE DEF s
<1> QED
  BY <1>1, <1>2 DEF MembersOf, Slots, s

\* Runs start at the multiples of the ratio.
LEMMA RunStartsAligned ==
  ASSUME NEW r \in Nat \ {0}, NEW a \in Nat, NEW n \in Nat, NEW i \in 1 .. n
  PROVE  i \in RunStarts(Arange(a * r, a * r + n), r) <=> \E j \in Nat : i = j * r + 1
<1> DEFINE s == Arange(a * r, a * r + n)
           x == i - 1
           d == x \div r
<1>1. DOMAIN s = 1 .. n
  BY DEF Arange
<1>2. x \in Nat /\ i = x + 1
  OBVIOUS
<1>3. s[i] \div r = a + d
  BY GroupOfIndex
<1> HIDE DEF x
<1>4. d \in Nat /\ x = d * r + (x % r) /\ x % r \in 0 .. r - 1
  BY <1>2, DivMod
<1>5. CASE i = 1
  <2>1. i = 0 * r + 1
    BY <1>5
  <2> HIDE DEF s
  <2> QED
    BY <1>1, <1>5, <2>1 DEF RunStarts, s
<1>6. CASE i > 1
  <2> DEFINE y == x - 1
             e == y \div r
  <2>1. y \in Nat /\ i - 1 \in 1 .. n /\ (i - 1) - 1 = y
    BY <1>2, <1>6
  <2>2. s[i - 1] \div r = a + ((i - 1 - 1) \div r)
    BY <2>1, GroupOfIndex
  <2>3. s[i - 1] \div r = a + e
    BY <2>1, <2>2
  <2> HIDE DEF y, s
  <2>4. e \in Nat /\ y = e * r + (y % r) /\ y % r \in 0 .. r - 1
    BY <2>1, DivMod
  <2>5. i \in RunStarts(s, r) <=> d # e
    <3>1. d \in Nat /\ e \in Nat
      BY <1>4, <2>4
    <3> HIDE DEF d, e
    <3> QED
      BY <1>1, <1>3, <1>6, <2>3, <3>1 DEF RunStarts
  <2>6. y = x - 1
    BY DEF y
  <2>7. CASE x % r = 0
    <3>1. x = d * r /\ i = d * r + 1
      BY <1>2, <1>4, <2>7
    <3>2. d # e
      <4> SUFFICES ASSUME d = e PROVE FALSE
        OBVIOUS
      <4> QED
        BY <3>1, <2>4, <2>6
    <3> QED
      BY <3>1, <3>2, <2>5, <1>4 DEF s
  <2>8. CASE x % r # 0
    <3>1. d * r <= y /\ y < (d + 1) * r
      <4>1. (d + 1) * r = d * r + r
        BY <1>4
      <4> QED
        BY <4>1, <1>4, <2>6, <2>8
    <3>2. e = d
      BY <3>1, <1>4, <2>1, DivUnique
    <3>3. ASSUME NEW j \in Nat, i = j * r + 1
          PROVE  FALSE
      <4>1. x = j * r /\ (j + 1) * r = j * r + r
        BY <1>2, <3>3
      <4>2. j * r <= x /\ x < (j + 1) * r
        BY <4>1, <1>2
      <4>3. d = j
        BY <4>2, <1>2, DivUnique
      <4> QED
        BY <4>1, <4>3, <1>4, <2>8
    <3> QED
      BY <3>2, <3>3, <2>5 DEF s
  <2> QED
    BY <2>7, <2>8
<1> QED
  BY <1>5, <1>6, <1>2

\* A group of an aligned stream is complete iff its last member has arrived.
LEMMA CompleteAligned ==
  ASSUME NEW r \in Nat \ {0}, NEW a \in Nat, NEW n \in Nat, NEW j \in Nat,
         j * r + 1 <= n
  PROVE  Cardinality(MembersOf(Arange(a * r, a * r + n), r, a + j)) = r
           <=> j < n \div r
<1> DEFINE M == Slots(n, r, j)
           d == n \div r
<1>1. MembersOf(Arange(a * r, a * r + n), r, a + j) = M
  BY MembersAligned
<1>2. d \in Nat /\ n = d * r + (n % r) /\ n % r \in 0 .. r - 1
  BY DivMod
<1>3. (j + 1) * r = j * r + r /\ j * r \in Nat
  OBVIOUS
<1>4. CASE j < d
  <2>1. (j + 1) * r <= d * r
    BY <1>2, <1>4, TimesMonotone
  <2>2. M = j * r + 1 .. j * r + r
    BY <1>2, <1>3, <2>1 DEF Slots
  <2>3. Cardinality(j * r + 1 .. j * r + r) = r
    BY <1>3, FS_Interval
  <2> QED
    BY <1>1, <1>4, <2>2, <2>3
<1>5. CASE ~ (j < d)
  <2>1. d * r <= j * r
    BY <1>2, <1>5, TimesMonotone
  <2>2. n < (j + 1) * r
    BY <1>2, <1>3, <2>1
  <2>3. M = j * r + 1 .. n
    BY <1>3, <2>2 DEF Slots
  <2>4. Cardinality(j * r + 1 .. n) = n - j * r
    BY <1>3, FS_Interval
  <2> HIDE DEF M
  <2> QED
    BY <1>1, <1>3, <1>5, <2>2, <2>3, <2>4
<1> QED
  BY <1>4, <1>5

\* The loop emits exactly the complete groups.
LEMMA EmittedAligned ==
  ASSUME NEW r \in Nat \ {0}, NEW a \in Nat, NEW n \in Nat
  PROVE  Emitted(Arange(a * r, a * r + n), r) = Firsts(r, n \div r)
<1> DEFINE s == Arange(a * r, a * r + n)
           d == n \div r
<1>1. DOMAIN s = 1 .. n
  BY DEF Arange
<1>2. d \in Nat /\ n = d * r + (n % r) /\ n % r \in 0 .. r - 1
  BY DivMod
<1>3. ASSUME NEW i \in 1 .. n, NEW j \in Nat, i = j * r + 1
      PROVE  Cardinality(MembersOf(s, r, s[i] \div r)) = r <=> j < d
  <2>1. (i - 1) \div r = j
    <3>1. j * r <= j * r /\ j * r < (j + 1) * r /\ j * r \in Nat
      OBVIOUS
    <3>2. (j * r) \div r = j
      BY <3>1, DivUnique
    <3> QED
      BY <3>2, <1>3
  <2>2. s[i] \div r = a + j
    BY <2>1, GroupOfIndex
  <2>3. Cardinality(MembersOf(s, r, a + j)) = r <=> j < d
    <3>1. j * r + 1 <= n
      BY <1>3
    <3> QED
      BY <3>1, CompleteAligned
  <2> QED
    BY <2>2, <2>3
<1>4. RunStarts(s, r) \subseteq 1 .. n
  BY <1>1 DEF RunStarts
<1>5. \A i \in 1 .. n : i \in RunStarts(s, r) <=> \E j \in Nat : i = j * r + 1
  BY RunStartsAligned
<1> HIDE DEF s, d
<1>6. ASSUME NEW i \in Emitted(s, r)
      PROVE  i \in Firsts(r, d)
  <2>1. i \in RunStarts(s, r) /\ i \in 1 .. n
    BY <1>4 DEF Emitted
  <2>2. PICK j \in Nat : i = j * r + 1
    BY <1>5, <2>1
  <2>3. Cardinality(MembersOf(s, r, s[i] \div r)) = r
    BY <2>1 DEF Emitted
  <2>4. j < d
    BY <1>3, <2>1, <2>2, <2>3
  <2> QED
    BY <1>2, <2>2, <2>4 DEF Firsts
<1>7. ASSUME NEW j \in 0 .. d - 1
      PROVE  j * r + 1 \in Emitted(s, r)
  <2>1. (j + 1) * r <= d * r /\ (j + 1) * r = j * r + r /\ j * r \in Nat
    BY <1>2, TimesMonotone
  <2>2. j * r + 1 \in 1 .. n
    BY <1>2, <2>1
  <2>3. j * r + 1 \in RunStarts(s, r)
    BY <1>2, <1>5, <2>2
  <2>4. ASSUME NEW i \in RunStarts(s, r), i <= j * r + 1
        PROVE  Cardinality(MembersOf(s, r, s[i] \div r)) = r
    <3>1. i \in 1 .. n
      BY <1>4
    <3>2. PICK k \in Nat : i = k * r + 1
      BY <1>5, <3>1
    <3>3. k < d
      <4>1. k * r \in Nat /\ k * r <= j * r
        BY <3>2, <2>4, <2>1
      <4>2. CASE k > j
        <5>1. (j + 1) * r <= k * r
          BY <4>2, TimesMonotone, <1>2
        <5> QED
          BY <5>1, <4>1, <2>1
      <4> QED
        BY <4>2, <1>2
    <3> QED
      BY <1>3, <3>1, <3>2, <3>3
  <2> QED
    BY <2>3, <2>4 DEF Emitted
<1> QED
  <2>1. Firsts(r, d) \subseteq Emitted(s, r)
    BY <1>7 DEF Firsts
  <2> QED
    BY <1>6, <2>1 DEF s, d

\* Runs are numbered in stream order.
LEMMA NthFirst ==
  ASSUME NEW r \in Nat \ {0}, NEW m \in Nat, NEW k \in 1 .. m
  PROVE  NthOf(Firsts(r, m), k) = (k - 1) * r + 1
<1> DEFINE S == Firsts(r, m)
           upTo(i) == {j \in S : j <= i}
<1>1. ASSUME NEW q \in 0 .. m - 1
      PROVE  Cardinality(upTo(q * r + 1)) = q + 1
  <2>1. upTo(q * r + 1) = Firsts(r, q + 1)
    <3>1. ASSUME NEW p \in 0 .. m - 1
          PROVE  p * r + 1 <= q * r + 1 <=> p <= q
      <4>1. CASE p <= q
        BY <4>1, TimesMonotone
      <4>2. CASE p > q
        <5>1. (q + 1) * r <= p * r /\ (q + 1) * r = q * r + r
          BY <4>2, TimesMonotone
        <5> QED
          BY <4>2, <5>1
      <4> QED
        BY <4>1, <4>2
    <3>2. upTo(q * r + 1) \subseteq Firsts(r, q + 1)
      BY <3>1 DEF Firsts
    <3>3. Firsts(r, q + 1) \subseteq upTo(q * r + 1)
      BY <3>1 DEF Firsts
    <3> QED
      BY <3>2, <3>3
  <2>2. q + 1 \in Nat
    OBVIOUS
  <2> QED
    BY <2>1, <2>2, FirstsCount
<1>2. k - 1 \in 0 .. m - 1
  OBVIOUS
<1>3. (k - 1) * r + 1 \in S
  BY <1>2 DEF Firsts
<1>4. Cardinality(upTo((k - 1) * r + 1)) = k
  <2>1. Cardinality(upTo((k - 1) * r + 1)) = (k - 1) + 1
    BY <1>1, <1>2
  <2> QED
    BY <2>1
<1>5. ASSUME NEW i \in S, Cardinality(upTo(i)) = k
      PROVE  i = (k - 1) * r + 1
  <2>1. PICK q \in 0 .. m - 1 : i = q * r + 1
    BY DEF Firsts
  <2>2. q + 1 = k
    BY <1>1, <1>5, <2>1
  <2> QED
    BY <2>1, <2>2
<1> QED
  BY <1>3, <1>4, <1>5 DEF NthOf

\* A complete group of an aligned stream: the run it opens and its members.
GroupAt(r, a, n, j) ==
  LET s == Arange(a * r, a * r + n)
  IN  /\ s[j * r + 1] \div r = a + j
      /\ MembersOf(s, r, a + j) = j * r + 1 .. j * r + r

\* A group whose end is in the stream is complete: all its slots are members.
LEMMA GroupSlots ==
  ASSUME NEW r \in Nat \ {0}, NEW a \in Nat, NEW n \in Nat, NEW j \in Nat,
         (j + 1) * r <= n
  PROVE  GroupAt(r, a, n, j)
<1> DEFINE s == Arange(a * r, a * r + n)
           first == j * r + 1
<1>1. j * r \in Nat /\ (j + 1) * r = j * r + r /\ a * r \in Nat /\ (a + j) * r = a * r + j * r
  OBVIOUS
<1>2. first \in 1 .. n
  BY <1>1
<1>3. s[first] \div r = a + j
  <2>1. s[first] \div r = a + ((first - 1) \div r)
    BY <1>2, GroupOfIndex
  <2>2. first - 1 = j * r /\ (j * r) \div r = j
    BY <1>1, DivUnique
  <2> QED
    BY <2>1, <2>2
<1>4. MembersOf(s, r, a + j) = j * r + 1 .. j * r + r
  <2>1. MembersOf(s, r, a + j) = Slots(n, r, j)
    BY MembersAligned
  <2>2. j * r + r <= n
    BY <1>1
  <2> DEFINE p == j * r
  <2>3. p \in Nat /\ (j + 1) * r = p + r /\ p + r <= n
    BY <1>1, <2>2
  <2> HIDE DEF p, s
  <2>4. {i \in 1 .. n : p + 1 <= i /\ i <= p + r} = p + 1 .. p + r
    BY <2>3
  <2>5. Slots(n, r, j) = {i \in 1 .. n : p + 1 <= i /\ i <= p + r}
    BY <2>3 DEF Slots, p
  <2> QED
    BY <2>1, <2>4, <2>5 DEF p
<1> QED
  BY <1>3, <1>4 DEF GroupAt

\* Positions of an aligned stream, group by group.
LEMMA EntryAligned ==
  ASSUME NEW r \in Nat \ {0}, NEW a \in Nat, NEW n \in Nat, NEW j \in Nat,
         (j + 1) * r <= n
  PROVE  Entry(Arange(a * r, a * r + n), r, j * r + 1) = GroupEntry(r, a + j)
<1> DEFINE s == Arange(a * r, a * r + n)
           first == j * r + 1
<1>1. j * r \in Nat /\ (j + 1) * r = j * r + r /\ a * r \in Nat /\ (a + j) * r = a * r + j * r
  OBVIOUS
<1>2. GroupAt(r, a, n, j)
  BY GroupSlots
<1>3. s[first] \div r = a + j
  BY <1>2 DEF GroupAt
<1>4. MembersOf(s, r, a + j) = j * r + 1 .. j * r + r
  BY <1>2 DEF GroupAt
<1>5. \A i \in 1 .. n : s[i] = a * r + (i - 1)
  BY GroupOfIndex
<1>6. {s[i] : i \in j * r + 1 .. j * r + r} = (a + j) * r .. ((a + j) * r) + r - 1
  <2> HIDE DEF s
  <2>1. \A i \in j * r + 1 .. j * r + r : s[i] = a * r + (i - 1)
    BY <1>1, <1>5
  <2>2. ASSUME NEW p \in (a + j) * r .. ((a + j) * r) + r - 1
        PROVE  \E i \in j * r + 1 .. j * r + r : s[i] = p
    <3> DEFINE x == a * r
               y == j * r
               i == (p - x) + 1
    <3>1. x \in Nat /\ y \in Nat /\ (a + j) * r = x + y
      BY <1>1
    <3> HIDE DEF x, y
    <3>2. i \in y + 1 .. y + r /\ x + (i - 1) = p
      BY <3>1
    <3> HIDE DEF i
    <3>3. s[i] = x + (i - 1)
      BY <2>1, <3>2 DEF x, y
    <3> QED
      BY <3>2, <3>3 DEF y
  <2>3. \A i \in j * r + 1 .. j * r + r : s[i] \in (a + j) * r .. ((a + j) * r) + r - 1
    BY <1>1, <2>1
  <2> QED
    BY <2>2, <2>3
<1> HIDE DEF s, first
<1> QED
  BY <1>3, <1>4, <1>6 DEF Entry, GroupEntry, first, s

\* All complete groups are emitted, in order, and exactly they are consumed.
LEMMA CompressAligned ==
  ASSUME NEW r \in Nat \ {0}, NEW a \in Nat, NEW n \in Nat
  PROVE  /\ Compress(Arange(a * r, a * r + n), r).entries
              = [k \in 1 .. n \div r |-> GroupEntry(r, a + k - 1)]
         /\ Compress(Arange(a * r, a * r + n), r).consumed = (n \div r) * r
<1> DEFINE s == Arange(a * r, a * r + n)
           d == n \div r
           S == Emitted(s, r)
           taken == UNION {MembersOf(s, r, s[i] \div r) : i \in S}
<1>1. d \in Nat /\ n = d * r + (n % r) /\ n % r \in 0 .. r - 1
  BY DivMod
<1>2. S = Firsts(r, d)
  BY EmittedAligned
<1>3. Cardinality(S) = d
  BY <1>1, <1>2, FirstsCount
<1>4. ASSUME NEW j \in 0 .. d - 1
      PROVE  /\ j \in Nat /\ (j + 1) * r <= d * r /\ (j + 1) * r <= n
             /\ (j + 1) * r = j * r + r
  BY <1>1, TimesMonotone
<1>5. ASSUME NEW k \in 1 .. d
      PROVE  Entry(s, r, NthOf(S, k)) = GroupEntry(r, a + k - 1)
  <2> DEFINE j == k - 1
  <2>1. j \in 0 .. d - 1 /\ a + j = a + k - 1
    BY <1>1
  <2>2. NthOf(S, k) = j * r + 1
    BY <1>1, <1>2, NthFirst
  <2> HIDE DEF j, S, d
  <2>3. Entry(s, r, j * r + 1) = GroupEntry(r, a + j)
    BY <2>1, <1>4, EntryAligned
  <2> QED
    BY <2>1, <2>2, <2>3
<1>6. ASSUME NEW j \in 0 .. d - 1
      PROVE  MembersOf(s, r, s[j * r + 1] \div r) = j * r + 1 .. j * r + r
  <2>1. j \in Nat /\ (j + 1) * r <= n
    BY <1>4
  <2>2. GroupAt(r, a, n, j)
    BY <2>1, GroupSlots
  <2> QED
    BY <2>2 DEF GroupAt
<1>7. Compress(s, r).entries = [k \in 1 .. d |-> GroupEntry(r, a + k - 1)]
  <2> HIDE DEF s, S, d
  <2> QED
    BY <1>3, <1>5 DEF Compress, S
<1>8. ASSUME d > 0
      PROVE  d * r \in taken /\ \A i \in taken : i \in Int /\ i <= d * r
  <2>1. d - 1 \in 0 .. d - 1 /\ (d - 1) * r + r = d * r /\ (d - 1) * r \in Nat /\ d * r \in Nat
    BY <1>1, <1>8
  <2>2. (d - 1) * r + 1 \in S
    BY <1>2, <2>1 DEF Firsts
  <2>3. d * r \in MembersOf(s, r, s[(d - 1) * r + 1] \div r)
    BY <1>6, <2>1
  <2>4. ASSUME NEW i \in taken
        PROVE  i \in Int /\ i <= d * r
    <3>1. PICK f \in S : i \in MembersOf(s, r, s[f] \div r)
      OBVIOUS
    <3>2. PICK j \in 0 .. d - 1 : f = j * r + 1
      BY <1>2 DEF Firsts
    <3>3. i \in j * r + 1 .. j * r + r
      BY <1>6, <3>1, <3>2
    <3> QED
      BY <1>4, <3>3, <2>1
  <2> QED
    BY <2>2, <2>3, <2>4
<1>9. Compress(s, r).consumed = d * r
  <2>1. CASE d = 0
    <3>1. S = {}
      BY <1>2, <2>1 DEF Firsts
    <3> HIDE DEF s, S
    <3> QED
      BY <2>1, <3>1 DEF Compress, S
  <2>2. CASE d > 0
    <3>1. S # {}
      BY <1>8, <2>2
    <3>2. ASSUME NEW m \in taken, \A j \in taken : j <= m
          PROVE  m = d * r
      <4>1. d * r <= m /\ m <= d * r /\ m \in Int
        BY <1>8, <2>2, <3>2
      <4> QED
        BY <1>1, <4>1
    <3>3. (CHOOSE m \in taken : \A j \in taken : j <= m) = d * r
      <4> HIDE DEF taken
      <4> QED
        BY <1>8, <2>2, <3>2
    <3> HIDE DEF s, S
    <3> QED
      BY <3>1, <3>3 DEF Compress, S
  <2> QED
    BY <1>1, <2>1, <2>2
<1> QED
  BY <1>7, <1>9

-----------------------------------------------------------------------------
(* One layer                                                               *)

\* Groups lo, .., hi - 1, complete.
GroupsFrom(r, lo, hi) == [k \in 1 .. hi - lo |-> GroupEntry(r, lo + k - 1)]

\* The entries of groups lo .. hi - 1, one each.
LEMMA GroupsFromType ==
  ASSUME NEW r \in Nat \ {0}, NEW lo \in Nat, NEW hi \in Nat, lo <= hi
  PROVE  /\ GroupsFrom(r, lo, hi) \in Seq([end : Int, members : SUBSET Nat])
         /\ Len(GroupsFrom(r, lo, hi)) = hi - lo
         /\ DOMAIN GroupsFrom(r, lo, hi) = 1 .. hi - lo
<1>1. ASSUME NEW g \in Nat
      PROVE  GroupEntry(r, g) \in [end : Int, members : SUBSET Nat]
  <2>1. (g + 1) * r - 1 \in Int /\ g * r \in Nat
    OBVIOUS
  <2>2. g * r .. (g * r) + r - 1 \subseteq Nat
    BY <2>1
  <2> QED
    BY <2>1, <2>2 DEF GroupEntry
<1> QED
  BY <1>1 DEF GroupsFrom

\* Adjacent ranges of groups join to one.
LEMMA GroupsFromConcat ==
  ASSUME NEW r \in Nat \ {0}, NEW a \in Nat, NEW b \in Nat, NEW c \in Nat, a <= b, b <= c
  PROVE  GroupsFrom(r, a, b) \o GroupsFrom(r, b, c) = GroupsFrom(r, a, c)
  BY DEF GroupsFrom

\* What the compressor makes of the pending group and the positions n, .., m-1.
GroupsGrow(r, n, m) ==
  LET s == PendingAt(r, n) \o Arange(n, m)
      c == Compress(s, r)
  IN  /\ c.entries = GroupsFrom(r, n \div r, m \div r)
      /\ SubSeq(s, c.consumed + 1, Len(s)) = PendingAt(r, m)

\* Compressing the pending group and the new chunk yields exactly the groups
\* that became complete, and leaves the rest.
LEMMA GroupsStep ==
  ASSUME NEW r \in Nat \ {0}, NEW n \in Nat, NEW m \in Nat, n <= m
  PROVE  GroupsGrow(r, n, m) /\ n \div r <= m \div r
<1> DEFINE b == n \div r
           x == m - b * r
           d == x \div r
           s == PendingAt(r, n) \o Arange(n, m)
<1>1. b \in Nat /\ b * r <= n /\ b * r \in Nat
  BY DivMod
<1>2. x \in Nat /\ m = b * r + x
  BY <1>1
<1>3. s = Arange(b * r, m)
  <2> DEFINE k == b * r
  <2>1. k \in Nat /\ k <= n
    BY <1>1
  <2>2. PendingAt(r, n) = Arange(k, n)
    BY DEF PendingAt
  <2> HIDE DEF k
  <2>3. Arange(k, n) \o Arange(n, m) = Arange(k, m)
    BY <2>1, ArangeConcat
  <2> QED
    BY <2>2, <2>3 DEF k
<1> HIDE DEF b, x, s
<1>4. d \in Nat /\ x = d * r + (x % r) /\ x % r \in 0 .. r - 1
  BY <1>2, DivMod
<1> HIDE DEF d
<1>5. m \div r = b + d
  BY <1>1, <1>2, DivShift DEF d
<1>6. /\ Compress(s, r).entries = [k \in 1 .. d |-> GroupEntry(r, b + k - 1)]
      /\ Compress(s, r).consumed = d * r
  BY <1>1, <1>2, <1>3, CompressAligned DEF d
<1>7. Compress(s, r).entries = GroupsFrom(r, b, m \div r)
  <2> DEFINE e == m \div r
  <2>1. e - b = d
    BY <1>1, <1>4, <1>5
  <2> HIDE DEF e
  <2> QED
    BY <2>1, <1>6 DEF GroupsFrom, e
<1>8. SubSeq(s, Compress(s, r).consumed + 1, Len(s)) = PendingAt(r, m)
  <2> DEFINE lo == b * r
             k == d * r
  <2>1. lo \in Nat /\ k \in Nat /\ lo + k <= m /\ lo <= m /\ lo + k = (m \div r) * r
    BY <1>1, <1>2, <1>4, <1>5
  <2>2. Compress(s, r).consumed = k /\ s = Arange(lo, m)
    BY <1>3, <1>6
  <2> HIDE DEF lo, k
  <2>3. Len(s) = m - lo
    BY <2>1, <2>2, ArangeType
  <2>4. SubSeq(Arange(lo, m), k + 1, m - lo) = Arange(lo + k, m)
    BY <2>1, ArangeSubSeq
  <2> QED
    BY <2>1, <2>2, <2>3, <2>4 DEF PendingAt
<1>9. b <= m \div r
  BY <1>1, <1>4, <1>5
<1>10. GroupsGrow(r, n, m)
  BY <1>7, <1>8 DEF GroupsGrow, s, b
<1> QED
  BY <1>9, <1>10 DEF b

EntryType == [end : Int, members : SUBSET Nat]

\* The index of a layer names its compressed entries, in the same chunks.
IndexMatches(c) ==
  /\ c.indexLens = c.chunkLens
  /\ c.indexed = [k \in DOMAIN c.compressed |-> c.compressed[k].end]

EndsOf(es) == [k \in DOMAIN es |-> es[k].end]

\* The boundaries of a store of entries are a sequence of the same length.
LEMMA EndsType ==
  ASSUME NEW es \in Seq(EntryType)
  PROVE  /\ EndsOf(es) \in Seq(Int)
         /\ Len(EndsOf(es)) = Len(es)
         /\ \A k \in 1 .. Len(es) : EndsOf(es)[k] = es[k].end
<1>1. DOMAIN es = 1 .. Len(es) /\ Len(es) \in Nat
  OBVIOUS
<1>2. \A k \in 1 .. Len(es) : es[k] \in EntryType
  OBVIOUS
<1>3. \A k \in 1 .. Len(es) : es[k].end \in Int
  BY <1>2 DEF EntryType
<1>4. EndsOf(es) = [k \in 1 .. Len(es) |-> es[k].end]
  BY <1>1 DEF EndsOf
<1> QED
  BY <1>1, <1>3, <1>4

\* What an append does to a layer, field by field.
LEMMA AppendedFields ==
  ASSUME NEW c \in LayerType, NEW ps \in Seq(Nat), ps # <<>>, NEW es \in Seq(EntryType)
  PROVE  /\ Appended(c, ps, es) \in LayerType
         /\ Appended(c, ps, es).local = KeepLast(c.local \o ps, Window)
         /\ Appended(c, ps, es).next = Larger(c.next, ps[Len(ps)] + 1)
         /\ Appended(c, ps, es).pending = c.pending
         /\ Appended(c, ps, es).compressed = c.compressed \o es
         /\ IndexMatches(c) => IndexMatches(Appended(c, ps, es))
<1> DEFINE a == Appended(c, ps, es)
           ends == EndsOf(es)
<1>1. /\ c.local \in Seq(Nat) /\ c.pending \in Seq(Nat) /\ c.next \in Nat
      /\ c.compressed \in Seq(EntryType) /\ c.chunkLens \in Seq(Nat)
      /\ c.indexed \in Seq(Int) /\ c.indexLens \in Seq(Nat)
  BY DEF LayerType, EntryType
<1> DEFINE local == KeepLast(c.local \o ps, Window)
           next == Larger(c.next, ps[Len(ps)] + 1)
           chunkLens == IF es = <<>> THEN c.chunkLens ELSE Append(c.chunkLens, Len(es))
           indexLens == IF es = <<>> THEN c.indexLens ELSE Append(c.indexLens, Len(es))
<1>2. a = [c EXCEPT !.local = local, !.next = next,
                    !.compressed = c.compressed \o es, !.chunkLens = chunkLens,
                    !.indexed = c.indexed \o ends, !.indexLens = indexLens]
  <2>1. DOMAIN c = {"local", "pending", "next", "compressed", "chunkLens", "indexed", "indexLens"}
    BY DEF LayerType
  <2> QED
    BY <2>1 DEF Appended, EndsOf
<1>3. ends \in Seq(Int) /\ Len(ends) = Len(es) /\ \A k \in 1 .. Len(es) : ends[k] = es[k].end
  BY EndsType
<1> HIDE DEF a, ends
<1>4. local \in Seq(Nat)
  <2> DEFINE j == c.local \o ps
             b == Larger(Len(j) - Window, 0) + 1
  <2>1. j \in Seq(Nat) /\ b \in Nat \ {0}
    BY <1>1, WindowAssumption DEF Larger
  <2>2. local = SubSeq(j, b, Len(j))
    BY DEF KeepLast
  <2> HIDE DEF j, b
  <2> QED
    BY <2>1, <2>2
<1>5. next \in Nat
  <2>1. Len(ps) \in 1 .. Len(ps) /\ ps[Len(ps)] \in Nat
    OBVIOUS
  <2> QED
    BY <1>1, <2>1 DEF Larger
<1>6. c.compressed \o es \in Seq(EntryType) /\ c.indexed \o ends \in Seq(Int)
  BY <1>1, <1>3
<1>7. chunkLens \in Seq(Nat) /\ indexLens \in Seq(Nat)
  BY <1>1
<1> HIDE DEF local, next, chunkLens, indexLens
<1>8. a \in LayerType
  BY <1>1, <1>2, <1>4, <1>5, <1>6, <1>7 DEF LayerType, EntryType
<1>9. /\ a.local = local /\ a.next = next /\ a.pending = c.pending
      /\ a.compressed = c.compressed \o es /\ a.chunkLens = chunkLens
      /\ a.indexed = c.indexed \o ends /\ a.indexLens = indexLens
  BY <1>2 DEF LayerType
<1>10. ASSUME IndexMatches(c)
       PROVE  IndexMatches(a)
  <2>1. a.indexLens = a.chunkLens
    BY <1>9, <1>10 DEF IndexMatches, indexLens, chunkLens
  <2> DEFINE u == c.compressed
             old == EndsOf(u)
  <2>2. u \in Seq(EntryType) /\ a.indexed = old \o ends /\ a.compressed = u \o es
    BY <1>1, <1>9, <1>10 DEF IndexMatches, EndsOf
  <2> HIDE DEF u
  <2>3. old \in Seq(Int) /\ Len(old) = Len(u) /\ \A k \in 1 .. Len(u) : old[k] = u[k].end
    BY <2>2, EndsType
  <2> HIDE DEF old
  <2>4. old \o ends = [k \in DOMAIN (u \o es) |-> (u \o es)[k].end]
    <3> DEFINE w == u \o es
               n == Len(u)
               m == Len(es)
    <3>1. n \in Nat /\ m \in Nat /\ DOMAIN w = 1 .. n + m
      BY <2>2
    <3>2. \A k \in 1 .. n + m : w[k] = IF k <= n THEN u[k] ELSE es[k - n]
      BY <2>2
    <3>3. \A k \in 1 .. n + m : (old \o ends)[k] = IF k <= n THEN old[k] ELSE ends[k - n]
      BY <2>2, <2>3, <1>3
    <3>4. old \o ends = [k \in 1 .. n + m |-> (old \o ends)[k]]
      <4>0. old \in Seq(Int) /\ ends \in Seq(Int) /\ Len(old) = n /\ Len(ends) = m
        BY <2>3, <1>3
      <4> HIDE DEF n, m
      <4>1. \A x, y \in Seq(Int) : x \o y \in Seq(Int) /\ Len(x \o y) = Len(x) + Len(y)
        OBVIOUS
      <4>3. old \o ends \in Seq(Int) /\ Len(old \o ends) = n + m
        BY <4>0, <4>1
      <4> DEFINE j == old \o ends
      <4>5. j \in Seq(Int) /\ Len(j) = n + m
        BY <4>3
      <4> HIDE DEF j
      <4>2. j = [k \in 1 .. Len(j) |-> j[k]]
        BY <4>5
      <4> QED
        BY <4>5, <4>2 DEF j
    <3> HIDE DEF w, n, m
    <3>5. \A k \in 1 .. n + m : k > n => k - n \in 1 .. m
      BY <3>1
    <3>6. \A k \in 1 .. n + m : (old \o ends)[k] = w[k].end
      <4> SUFFICES ASSUME NEW k \in 1 .. n + m
                   PROVE  (old \o ends)[k] = w[k].end
        OBVIOUS
      <4> DEFINE v == (old \o ends)[k]
      <4>1. w[k] = (IF k <= n THEN u[k] ELSE es[k - n])
            /\ v = (IF k <= n THEN old[k] ELSE ends[k - n])
        BY <3>2, <3>3
      <4> HIDE DEF v
      <4>2. CASE k <= n
        <5>1. old[k] = u[k].end
          BY <3>1, <4>2, <2>3 DEF n
        <5> QED
          BY <4>1, <4>2, <5>1 DEF v
      <4>3. CASE k > n
        <5>1. ends[k - n] = es[k - n].end
          BY <3>5, <4>3, <1>3 DEF m
        <5> QED
          BY <3>1, <4>1, <4>3, <5>1 DEF v
      <4>4. k <= n \/ k > n
        BY <3>1
      <4> QED
        BY <4>2, <4>3, <4>4
    <3>7. old \o ends = [k \in 1 .. n + m |-> w[k].end]
      BY <3>4, <3>6
    <3> QED
      BY <3>1, <3>7 DEF w
  <2> QED
    BY <2>1, <2>2, <2>4 DEF IndexMatches
<1> QED
  BY <1>8, <1>9, <1>10 DEF a, local, next

\* The cache of layer l after the positions below n of a stream.
Holds(l, c, n) ==
  /\ c \in LayerType
  /\ c.local = LocalAt(n)
  /\ c.next = IF n = Start THEN 0 ELSE n
  /\ c.pending = IF Ratio[l] = 0 THEN <<>> ELSE PendingAt(Ratio[l], n)
  /\ c.compressed = IF Ratio[l] = 0 THEN <<>> ELSE EntriesAt(Ratio[l], n)
  /\ IndexMatches(c)

\* Quotients grow with the dividend.
LEMMA DivMonotone ==
  ASSUME NEW r \in Nat \ {0}, NEW n \in Nat, NEW m \in Nat, n <= m
  PROVE  n \div r <= m \div r
  BY GroupsStep

\* What is pending is a sequence of positions.
LEMMA PendingType ==
  ASSUME NEW r \in Nat \ {0}, NEW n \in Nat
  PROVE  PendingAt(r, n) \in Seq(Nat)
<1> DEFINE b == (n \div r) * r
<1>1. b \in Nat /\ b <= n
  BY DivMod
<1>2. PendingAt(r, n) = Arange(b, n)
  BY DEF PendingAt
<1> HIDE DEF b
<1> QED
  BY <1>1, <1>2, ArangeType

\* What module.py:132-134 leaves: the pending group of the longer stream.
LEMMA LeftoverStep ==
  ASSUME NEW l \in Layer, NEW c, NEW n \in Nat, NEW m \in Nat, n <= m,
         Holds(l, c, n), Ratio[l] # 0
  PROVE  /\ Leftover(c, Arange(n, m), Ratio[l]) \in LayerType
         /\ Leftover(c, Arange(n, m), Ratio[l])
              = [c EXCEPT !.pending = PendingAt(Ratio[l], m)]
         /\ Compress(StreamOf(c, Arange(n, m)), Ratio[l]).entries
              = GroupsFrom(Ratio[l], n \div Ratio[l], m \div Ratio[l])
<1> DEFINE r == Ratio[l]
           s == StreamOf(c, Arange(n, m))
<1>1. r \in Nat \ {0}
  BY RatioAssumption DEF Layer
<1>2. s = PendingAt(r, n) \o Arange(n, m)
  BY DEF Holds, StreamOf
<1> HIDE DEF r
<1>3. GroupsGrow(r, n, m)
  BY <1>1, GroupsStep
<1>4. /\ Compress(s, r).entries = GroupsFrom(r, n \div r, m \div r)
      /\ SubSeq(s, Compress(s, r).consumed + 1, Len(s)) = PendingAt(r, m)
  BY <1>2, <1>3 DEF GroupsGrow
<1>5. Leftover(c, Arange(n, m), r) = [c EXCEPT !.pending = PendingAt(r, m)]
  BY <1>4 DEF Leftover
<1>6. PendingAt(r, m) \in Seq(Nat)
  BY <1>1, PendingType
<1>7. [c EXCEPT !.pending = PendingAt(r, m)] \in LayerType
  BY <1>6 DEF Holds, LayerType
<1> QED
  BY <1>4, <1>5, <1>7 DEF r

\* A layer that is given the positions n, .., m - 1 advances from n to m.
LEMMA LayerStep ==
  ASSUME NEW l \in Layer, NEW c, NEW n \in Nat, NEW m \in Nat, Start <= n, n < m,
         Holds(l, c, n)
  PROVE  Holds(l, Updated(l, c, Arange(n, m)), m)
<1> USE StartAssumption
<1> DEFINE ps == Arange(n, m)
           r == Ratio[l]
<1>1. ps \in Seq(Nat) /\ ps # <<>> /\ Len(ps) = m - n /\ ps[m - n] = m - 1
  <2>0. n <= m
    OBVIOUS
  <2>1. ps \in Seq(Nat) /\ Len(ps) = m - n /\ \A i \in 1 .. m - n : ps[i] = n + i - 1
    BY <2>0, ArangeType
  <2>2. m - n \in 1 .. m - n
    OBVIOUS
  <2>3. n + (m - n) - 1 = m - 1
    OBVIOUS
  <2> HIDE DEF ps
  <2> QED
    BY <2>1, <2>2, <2>3
<1>2. KeepLast(LocalAt(n) \o ps, Window) = LocalAt(m)
  BY WindowStep
<1>3. Larger(c.next, ps[Len(ps)] + 1) = m /\ m # Start
  BY <1>1 DEF Holds, Larger
<1>6. c.local = LocalAt(n) /\ c \in LayerType /\ IndexMatches(c)
  BY DEF Holds
<1> DEFINE u == Updated(l, c, ps)
<1> HIDE DEF ps, u
<1>4. CASE r = 0
  <2>1. Updated(l, c, ps) = Appended(c, ps, <<>>)
    BY <1>4 DEF Updated
  <2>2. <<>> \in Seq(EntryType)
    OBVIOUS
  <2>3. c.compressed = <<>> /\ c.pending = <<>> /\ c \in LayerType /\ IndexMatches(c)
    BY <1>4 DEF Holds
  <2>4. /\ Appended(c, ps, <<>>) \in LayerType
        /\ Appended(c, ps, <<>>).local = KeepLast(c.local \o ps, Window)
        /\ Appended(c, ps, <<>>).next = Larger(c.next, ps[Len(ps)] + 1)
        /\ Appended(c, ps, <<>>).pending = c.pending
        /\ Appended(c, ps, <<>>).compressed = c.compressed \o <<>>
        /\ IndexMatches(Appended(c, ps, <<>>))
    BY <1>1, <2>2, <2>3, AppendedFields
  <2>5. c.compressed \o <<>> = <<>>
    BY <2>3
  <2> QED
    <3>1. /\ u \in LayerType /\ u.local = LocalAt(m) /\ u.next = m
          /\ u.pending = <<>> /\ u.compressed = <<>> /\ IndexMatches(u)
      BY <1>2, <1>3, <1>6, <2>1, <2>3, <2>4, <2>5 DEF u
    <3>2. Holds(l, u, m)
      BY <1>3, <1>4, <3>1 DEF Holds
    <3> QED
      BY <3>2 DEF u, ps
<1>5. CASE r # 0
  <2> DEFINE a == Start \div r
             left == Leftover(c, ps, r)
             es == GroupsFrom(r, n \div r, m \div r)
  <2>1. r \in Nat \ {0}
    BY <1>5, RatioAssumption DEF Layer
  <2>2. /\ left \in LayerType
        /\ left = [c EXCEPT !.pending = PendingAt(r, m)]
        /\ Compress(StreamOf(c, ps), r).entries = es
    BY <1>5, LeftoverStep DEF ps
  <2>3. Updated(l, c, ps) = Appended(left, ps, es)
    BY <1>5, <2>2 DEF Updated
  <2>4. a \in Nat /\ n \div r \in Nat /\ m \div r \in Nat /\ a <= n \div r /\ n \div r <= m \div r
    <3> HIDE DEF r
    <3>1. n <= m
      OBVIOUS
    <3>2. Start \div r <= n \div r /\ n \div r <= m \div r
      BY <2>1, <3>1, DivMonotone
    <3> QED
      BY <2>1, <3>2, DivMod
  <2>5. es \in Seq(EntryType)
    BY <2>1, <2>4, GroupsFromType DEF EntryType
  <2>6. /\ left.local = c.local /\ left.next = c.next /\ left.pending = PendingAt(r, m)
        /\ left.compressed = c.compressed /\ IndexMatches(left)
    BY <2>2 DEF Holds, LayerType, IndexMatches
  <2> HIDE DEF left
  <2>7. /\ Appended(left, ps, es) \in LayerType
        /\ Appended(left, ps, es).local = KeepLast(left.local \o ps, Window)
        /\ Appended(left, ps, es).next = Larger(left.next, ps[Len(ps)] + 1)
        /\ Appended(left, ps, es).pending = left.pending
        /\ Appended(left, ps, es).compressed = left.compressed \o es
        /\ IndexMatches(Appended(left, ps, es))
    BY <1>1, <2>2, <2>5, <2>6, AppendedFields
  <2>8. c.compressed \o es = EntriesAt(r, m)
    <3>1. c.compressed = GroupsFrom(r, a, n \div r)
      BY <1>5 DEF Holds, EntriesAt, GroupsFrom
    <3>2. GroupsFrom(r, a, n \div r) \o es = GroupsFrom(r, a, m \div r)
      BY <2>1, <2>4, GroupsFromConcat
    <3> QED
      BY <3>1, <3>2 DEF EntriesAt, GroupsFrom
  <2> HIDE DEF es
  <2> QED
    <3>1. /\ u \in LayerType /\ u.local = LocalAt(m) /\ u.next = m
          /\ u.pending = PendingAt(r, m) /\ u.compressed = EntriesAt(r, m) /\ IndexMatches(u)
      BY <1>2, <1>3, <1>6, <2>3, <2>6, <2>7, <2>8 DEF u
    <3>2. Holds(l, u, m)
      BY <1>3, <1>5, <3>1 DEF Holds
    <3> QED
      BY <3>2 DEF u, ps
<1> QED
  BY <1>4, <1>5

-----------------------------------------------------------------------------
(* The inductive invariant                                                 *)

\* All layers of a cache have been given the positions below n.
AllHold(c, n) == n <= MaxTokens /\ \A l \in Layer : Holds(l, c[l], n)

\* Inside a call that hands n, .., m - 1 down the stack (or raised there): the
\* layers behind have taken the chunk, the ones ahead have not.
Underway(n, m) ==
  /\ m <= MaxTokens
  /\ chunk = Arange(n, m)
  /\ \A l \in Layer : l < at => Holds(l, cache[l], m)
  /\ \A l \in Layer : l > at => Holds(l, cache[l], n)
  /\ status = "running" => Holds(at, cache[at], n)

\* The strengthening: the content of every intact layer is a function of one
\* stream position, which is what makes the properties independent of chunking.
Inv ==
  /\ cache \in [Layer -> LayerType]
  /\ \A l \in Layer : IndexMatches(cache[l])
  /\ status \in {"idle", "running", "failed"}
  /\ at \in Layer
  /\ DOMAIN reads = Layer
  /\ status = "idle" => chunk = <<>> /\ \E n \in Nat : Start <= n /\ AllHold(cache, n)
  /\ status # "idle" => \E n, m \in Nat : Start <= n /\ n < m /\ Underway(n, m)
  /\ saved # NONE => /\ saved \in [Layer -> LayerType]
                     /\ \E n \in Nat : Start <= n /\ AllHold(saved, n)

\* A fresh layer has been given nothing; on a group boundary nothing is pending.
LEMMA EmptyHolds ==
  ASSUME AlignedStart, NEW l \in Layer
  PROVE  Holds(l, EmptyLayer, Start)
<1> USE StartAssumption, WindowAssumption
<1>1. EmptyLayer \in LayerType
  BY DEF EmptyLayer, LayerType
<1>2. LocalAt(Start) = <<>>
  <2>1. Larger(Start, Start - Window) = Start
    BY DEF Larger
  <2> QED
    BY <2>1 DEF LocalAt, Arange
<1>3. IndexMatches(EmptyLayer)
  BY DEF IndexMatches, EmptyLayer
<1>4. ASSUME Ratio[l] # 0
      PROVE  PendingAt(Ratio[l], Start) = <<>> /\ EntriesAt(Ratio[l], Start) = <<>>
  <2> DEFINE r == Ratio[l]
  <2>1. r \in Nat \ {0} /\ Start % r = 0
    BY <1>4, RatioAssumption DEF Layer, AlignedStart
  <2> HIDE DEF r
  <2> DEFINE d == Start \div r
  <2>2. d \in Nat /\ d * r = Start
    BY <2>1, DivMod
  <2>3. PendingAt(r, Start) = <<>>
    BY <2>2 DEF PendingAt, Arange
  <2> HIDE DEF d
  <2>4. EntriesAt(r, Start) = <<>>
    BY <2>2 DEF EntriesAt, d
  <2> QED
    BY <2>3, <2>4 DEF r
<1> QED
  BY <1>1, <1>2, <1>3, <1>4 DEF Holds, EmptyLayer

\* The local window is empty only before the first token.
LEMMA LocalAtEmpty ==
  ASSUME NEW n \in Nat, Start <= n
  PROVE  LocalAt(n) = <<>> <=> n = Start
<1> USE StartAssumption, WindowAssumption
<1> DEFINE a == Larger(Start, n - Window)
<1>1. a \in Nat /\ a <= n /\ (a = n <=> n = Start) /\ LocalAt(n) = Arange(a, n)
  BY DEF Larger, LocalAt
<1> HIDE DEF a
<1>2. Arange(a, n) \in Seq(Nat) /\ Len(Arange(a, n)) = n - a
  BY <1>1, ArangeType
<1> QED
  BY <1>1, <1>2

\* A layer in the state after n positions has seen n positions.
LEMMA SeenHolds ==
  ASSUME NEW l \in Layer, NEW n \in Nat, Start <= n, Holds(l, cache[l], n)
  PROVE  Seen(l) = n
<1>1. cache[l].local = LocalAt(n) /\ cache[l].next = IF n = Start THEN 0 ELSE n
  BY DEF Holds
<1>2. cache[l].local = <<>> <=> n = Start
  BY <1>1, LocalAtEmpty
<1> QED
  BY <1>1, <1>2 DEF Seen

\* First and last position of a chunk.
LEMMA ChunkEnds ==
  ASSUME NEW n \in Nat, NEW m \in Nat, n < m
  PROVE  /\ Arange(n, m) \in Seq(Nat) /\ Arange(n, m) # <<>>
         /\ Arange(n, m)[1] = n
         /\ Arange(n, m)[Len(Arange(n, m))] + 1 = m
<1>1. n <= m /\ m - n \in 1 .. m - n /\ 1 \in 1 .. m - n
  OBVIOUS
<1>2. /\ Arange(n, m) \in Seq(Nat) /\ Len(Arange(n, m)) = m - n
      /\ \A i \in 1 .. m - n : Arange(n, m)[i] = n + i - 1
  BY <1>1, ArangeType
<1> QED
  BY <1>1, <1>2

\* The invariant holds initially.
LEMMA InitInv ==
  ASSUME AlignedStart, Init
  PROVE  Inv
<1>1. \A l \in Layer : Holds(l, EmptyLayer, Start)
  BY EmptyHolds
<1>2. 0 \in Layer
  BY LayersAssumption DEF Layer
<1>3. AllHold(cache, Start) /\ cache \in [Layer -> LayerType] /\ \A l \in Layer : IndexMatches(cache[l])
  BY <1>1, BoundAssumption DEF AllHold, Init, Holds
<1> QED
  BY <1>2, <1>3, StartAssumption DEF Init, Inv, NoReads

\* Dropping the cache keeps the invariant.
LEMMA NewCacheInv ==
  ASSUME AlignedStart, Inv, NewCache
  PROVE  Inv'
<1>1. \A l \in Layer : Holds(l, EmptyLayer, Start)
  BY EmptyHolds
<1>2. 0 \in Layer
  BY LayersAssumption DEF Layer
<1>3. /\ AllHold(cache', Start) /\ cache' \in [Layer -> LayerType]
      /\ \A l \in Layer : IndexMatches(cache'[l])
  BY <1>1, BoundAssumption DEF AllHold, NewCache, Holds
<1> QED
  BY <1>2, <1>3, StartAssumption DEF NewCache, Inv, NoReads

\* Writing the cache out keeps the invariant.
LEMMA SaveInv ==
  ASSUME Inv, Save
  PROVE  Inv'
<1>1. UNCHANGED <<cache, status, chunk, at, reads>> /\ status = "idle" /\ saved' = cache
  BY DEF Save
<1>2. saved' \in [Layer -> LayerType] /\ \E n \in Nat : Start <= n /\ AllHold(saved', n)
  BY <1>1 DEF Inv
<1> QED
  BY <1>1, <1>2 DEF Inv

\* Rebuilding leaves a cache that was written at rest as it was.
LEMMA RestoreInv ==
  ASSUME Inv, Restore
  PROVE  Inv'
<1>1. PICK n \in Nat : Start <= n /\ AllHold(saved, n)
  BY DEF Restore, Inv
<1>2. saved \in [Layer -> LayerType] /\ 0 \in Layer
  BY LayersAssumption DEF Restore, Inv, Layer
<1>3. ASSUME NEW l \in Layer
      PROVE  cache'[l] = saved[l]
  <2>1. Holds(l, saved[l], n)
    BY <1>1 DEF AllHold
  <2>2. ~ (saved[l].next = 0 /\ saved[l].local # <<>>)
    BY <1>1, <2>1, LocalAtEmpty, StartAssumption DEF Holds
  <2>3. cache'[l] = [saved[l] EXCEPT !.next = @]
    BY <2>2 DEF Restore, Rebuilt
  <2> QED
    BY <2>1, <2>3 DEF Holds, LayerType
<1>4. cache' = saved
  BY <1>2, <1>3 DEF Restore, Rebuilt
<1>5. AllHold(cache', n) /\ cache' \in [Layer -> LayerType] /\ \A l \in Layer : IndexMatches(cache'[l])
  BY <1>1, <1>2, <1>4 DEF AllHold, Holds
<1> QED
  BY <1>1, <1>2, <1>5 DEF Restore, Inv, NoReads

\* The start of a forward call keeps the invariant.
LEMMA BeginForwardInv ==
  ASSUME Inv, NEW k \in ChunkSizes, BeginForward(k)
  PROVE  Inv'
<1>1. PICK n \in Nat : Start <= n /\ AllHold(cache, n)
  BY DEF Inv, BeginForward
<1>2. 0 \in Layer /\ k \in Nat \ {0}
  BY LayersAssumption, ChunkAssumption DEF Layer
<1>3. NextPosition = n
  <2>1. Holds(0, cache[0], n)
    BY <1>1, <1>2 DEF AllHold
  <2> QED
    BY <1>1, <1>2, <2>1, SeenHolds DEF Seen, NextPosition
<1>4. n + k \in Nat /\ n < n + k
  BY <1>2
<1>5. chunk' = Arange(n, n + k) /\ status' = "running" /\ at' = 0 /\ UNCHANGED <<cache, reads, saved>>
  BY <1>3 DEF BeginForward
<1>6. Underway(n, n + k)'
  <2>1. n + k <= MaxTokens
    BY <1>3 DEF BeginForward
  <2> QED
    BY <2>1, <1>1, <1>2, <1>5 DEF Underway, AllHold, Layer
<1> QED
  BY <1>1, <1>2, <1>4, <1>5, <1>6 DEF Inv

\* One layer advances, or the call raises in it.
LEMMA LayerForwardInv ==
  ASSUME Inv, LayerForward
  PROVE  Inv'
<1>1. PICK n \in Nat, m \in Nat : Start <= n /\ n < m /\ Underway(n, m)
  BY DEF Inv, LayerForward
<1>2. /\ at \in Layer /\ cache \in [Layer -> LayerType] /\ chunk = Arange(n, m)
      /\ status = "running" /\ Holds(at, cache[at], n)
  BY <1>1 DEF Underway, LayerForward, Inv
<1>3. Holds(at, cache'[at], m)
  <2>1. cache'[at] = Updated(at, cache[at], Arange(n, m))
    BY <1>2 DEF LayerForward
  <2> QED
    BY <1>1, <1>2, <2>1, LayerStep
<1>4. \A l \in Layer : l # at => cache'[l] = cache[l]
  BY <1>2 DEF LayerForward
<1>5. cache' \in [Layer -> LayerType] /\ \A l \in Layer : IndexMatches(cache'[l])
  BY <1>2, <1>3, <1>4 DEF LayerForward, Holds, Inv
<1>6. DOMAIN reads' = Layer /\ UNCHANGED saved
  BY DEF LayerForward, Inv
<1>7. CASE at + 1 < NumLayers
  <2>1. at' = at + 1 /\ UNCHANGED <<status, chunk>> /\ at' \in Layer
    BY <1>2, <1>7, LayersAssumption DEF LayerForward, Layer
  <2>2. Underway(n, m)'
    BY <1>1, <1>2, <1>3, <1>4, <2>1 DEF Underway, Layer
  <2> QED
    BY <1>1, <1>2, <1>5, <1>6, <2>1, <2>2 DEF Inv
<1>8. CASE ~ (at + 1 < NumLayers)
  <2>1. at' = 0 /\ status' = "idle" /\ chunk' = <<>> /\ 0 \in Layer
    BY <1>8, LayersAssumption DEF LayerForward, Layer
  <2>2. \A l \in Layer : l <= at
    BY <1>2, <1>8, LayersAssumption DEF Layer
  <2>3. AllHold(cache', m)
    BY <1>1, <1>2, <1>3, <1>4, <2>2 DEF Underway, AllHold, Layer
  <2> QED
    BY <1>1, <1>5, <1>6, <2>1, <2>3 DEF Inv
<1> QED
  BY <1>7, <1>8

\* A call that raises keeps the invariant, with its layer left out.
LEMMA LayerRaiseInv ==
  ASSUME Inv, LayerRaise
  PROVE  Inv'
<1>1. PICK n \in Nat, m \in Nat : Start <= n /\ n < m /\ Underway(n, m)
  BY DEF Inv, LayerRaise
<1>2. /\ at \in Layer /\ cache \in [Layer -> LayerType] /\ chunk = Arange(n, m)
      /\ status = "running" /\ Holds(at, cache[at], n)
  BY <1>1 DEF Underway, LayerRaise, Inv
<1>3. cache'[at] \in LayerType /\ IndexMatches(cache'[at])
  <2>1. CASE UNCHANGED cache
    BY <1>2, <2>1 DEF Holds
  <2>2. CASE cache' = [cache EXCEPT ![at] = Updated(at, @, chunk)]
    <3>1. Holds(at, cache'[at], m)
      BY <1>1, <1>2, <2>2, LayerStep
    <3> QED
      BY <3>1 DEF Holds
  <2>3. CASE Ratio[at] # 0 /\ cache' = [cache EXCEPT ![at] = Leftover(@, chunk, Ratio[at])]
    <3> DEFINE c == cache[at]
               d == Leftover(c, Arange(n, m), Ratio[at])
    <3>1. cache'[at] = d
      BY <1>2, <2>3
    <3>2. d \in LayerType /\ d = [c EXCEPT !.pending = PendingAt(Ratio[at], m)]
      <4>1. n <= m
        BY <1>1
      <4> QED
        BY <1>2, <2>3, <4>1, LeftoverStep
    <3>3. c \in LayerType /\ IndexMatches(c)
      BY <1>2 DEF Holds
    <3> HIDE DEF c, d
    <3> QED
      BY <3>1, <3>2, <3>3 DEF IndexMatches, LayerType
  <2> QED
    BY <2>1, <2>2, <2>3 DEF LayerRaise
<1>4. \A l \in Layer : l # at => cache'[l] = cache[l]
  BY <1>2 DEF LayerRaise
<1>5. cache' \in [Layer -> LayerType] /\ \A l \in Layer : IndexMatches(cache'[l])
  <2>1. DOMAIN cache' = Layer /\ cache' = [l \in Layer |-> cache'[l]]
    BY <1>2 DEF LayerRaise
  <2> QED
    BY <1>2, <1>3, <1>4, <2>1 DEF Inv
<1>6. status' = "failed" /\ UNCHANGED <<chunk, at, reads, saved>>
  BY DEF LayerRaise
<1>7. Underway(n, m)'
  BY <1>1, <1>4, <1>6 DEF Underway, Layer
<1> QED
  BY <1>1, <1>5, <1>6, <1>7 DEF Inv

\* A stuttering step changes nothing the invariant speaks of.
LEMMA StutterInv ==
  ASSUME Inv, UNCHANGED vars
  PROVE  Inv'
  BY DEF Inv, vars, Underway

\* The content of every layer is fixed by the stream position alone: what the
\* other theorems read off (cache.py:169-223 under module.py:100-169).
THEOREM Inductive == AlignedStart => (Spec => []Inv)
<1> SUFFICES ASSUME AlignedStart PROVE Spec => []Inv
  OBVIOUS
<1>1. Init => Inv
  BY InitInv
<1>2. Inv /\ [Next]_vars => Inv'
  BY NewCacheInv, SaveInv, RestoreInv, BeginForwardInv, LayerForwardInv, LayerRaiseInv,
     StutterInv DEF Next
<1> QED
  BY <1>1, <1>2, PTL DEF Spec

-----------------------------------------------------------------------------
(* The properties                                                          *)

\* Every intact layer has taken the stream up to one position, its own.
LEMMA IntactHolds ==
  ASSUME Inv, NEW l \in Layer, Intact(l)
  PROVE  \E n \in Nat : /\ Start <= n
                       /\ Holds(l, cache[l], n)
                       /\ Seen(l) = n
<1>1. CASE status = "idle"
  <2>1. PICK n \in Nat : Start <= n /\ AllHold(cache, n)
    BY <1>1 DEF Inv
  <2>2. Holds(l, cache[l], n)
    BY <2>1 DEF AllHold
  <2> QED
    BY <2>1, <2>2, SeenHolds
<1>2. CASE status # "idle"
  <2>1. PICK n \in Nat, m \in Nat : Start <= n /\ n < m /\ Underway(n, m)
    BY <1>2 DEF Inv
  <2>2. Holds(l, cache[l], n) \/ Holds(l, cache[l], m)
    <3>1. status \in {"running", "failed"} /\ at \in Layer
      BY <1>2 DEF Inv
    <3>2. l < at \/ l > at \/ l = at
      BY <3>1, LayersAssumption DEF Layer
    <3> QED
      BY <2>1, <3>1, <3>2 DEF Underway, Intact
  <2>3. Start <= m
    BY <2>1, StartAssumption
  <2> QED
    BY <2>1, <2>2, <2>3, SeenHolds
<1> QED
  BY <1>1, <1>2

\* Every value stored in a layer and every control value is of its type.
THEOREM Typing == AlignedStart => (Spec => []TypeOK)
<1> SUFFICES ASSUME AlignedStart PROVE Spec => []TypeOK
  OBVIOUS
<1>1. ASSUME Inv
      PROVE  TypeOK
  <2>1. CASE status = "idle"
    BY <1>1, <2>1 DEF Inv, TypeOK
  <2>2. CASE status # "idle"
    <3>1. PICK n \in Nat, m \in Nat : n < m /\ chunk = Arange(n, m)
      BY <1>1, <2>2 DEF Inv, Underway
    <3>2. chunk \in Seq(Nat) /\ chunk # <<>>
      BY <3>1, ChunkEnds
    <3> QED
      BY <1>1, <2>2, <3>2 DEF Inv, TypeOK
  <2> QED
    BY <2>1, <2>2
<1> QED
  BY <1>1, Inductive, PTL

\* Whatever the chunk lengths, a layer keeps exactly the last Window positions
\* of its stream (LayerCache.append, cache.py:194-206).
THEOREM WindowIsExact == AlignedStart => (Spec => []LocalWindowExact)
<1> SUFFICES ASSUME AlignedStart PROVE Spec => []LocalWindowExact
  OBVIOUS
<1>1. ASSUME Inv
      PROVE  LocalWindowExact
  BY <1>1, IntactHolds DEF LocalWindowExact, Holds
<1> QED
  BY <1>1, Inductive, PTL

\* No token is lost, repeated or mixed into a wrong group by the way the stream
\* is cut (compressor.py:26-38 under module.py:117-134).
THEOREM GroupsAreConserved == AlignedStart => (Spec => []GroupsConserved)
<1> SUFFICES ASSUME AlignedStart PROVE Spec => []GroupsConserved
  OBVIOUS
<1>1. ASSUME Inv
      PROVE  GroupsConserved
  BY <1>1, IntactHolds DEF GroupsConserved, Holds
<1> QED
  BY <1>1, Inductive, PTL

\* The index never disagrees with the store it indexes, also after a raise
\* (LayerCache.append, cache.py:207-223; csa.py:71).
THEOREM IndexIsAligned == AlignedStart => (Spec => []IndexAligned)
<1> SUFFICES ASSUME AlignedStart PROVE Spec => []IndexAligned
  OBVIOUS
<1>1. ASSUME Inv
      PROVE  IndexAligned
  BY <1>1 DEF Inv, IndexAligned, IndexMatches
<1> QED
  BY <1>1, Inductive, PTL

\* Layers agree on the stream position at rest, and split around the layer a
\* call has reached (nemotron.py:586-589 reads layer 0 for all of them).
THEOREM LayersAreInStep == AlignedStart => (Spec => []LayersInStep)
<1> SUFFICES ASSUME AlignedStart PROVE Spec => []LayersInStep
  OBVIOUS
<1>1. ASSUME Inv
      PROVE  LayersInStep
  <2>0. 0 \in Layer
    BY LayersAssumption DEF Layer
  <2>1. ASSUME status = "idle"
        PROVE  \A l \in Layer : Seen(l) = Seen(0)
    <3>1. PICK n \in Nat : Start <= n /\ AllHold(cache, n)
      BY <1>1, <2>1 DEF Inv
    <3>2. \A l \in Layer : Seen(l) = n
      BY <3>1, SeenHolds DEF AllHold
    <3> QED
      BY <2>0, <3>2
  <2>2. ASSUME status = "running", NEW l \in Layer
        PROVE  Seen(l) = IF l < at THEN chunk[Len(chunk)] + 1 ELSE chunk[1]
    <3>1. PICK n \in Nat, m \in Nat : Start <= n /\ n < m /\ Underway(n, m)
      BY <1>1, <2>2 DEF Inv
    <3>2. chunk[Len(chunk)] + 1 = m /\ chunk[1] = n
      BY <3>1, ChunkEnds DEF Underway
    <3>3. at \in Layer /\ Start <= m
      BY <1>1, <3>1, StartAssumption DEF Inv
    <3>4. CASE l < at
      BY <2>2, <3>1, <3>2, <3>3, <3>4, SeenHolds DEF Underway
    <3>5. CASE ~ (l < at)
      <4>1. l = at \/ l > at
        BY <3>3, <3>5 DEF Layer
      <4>2. Holds(l, cache[l], n)
        BY <2>2, <3>1, <4>1 DEF Underway
      <4> QED
        BY <3>1, <3>2, <3>5, <4>2, SeenHolds
    <3> QED
      BY <3>4, <3>5
  <2>3. ASSUME saved # NONE
        PROVE  \A l \in Layer : /\ saved[l].next = saved[0].next
                                /\ Len(saved[l].local) = Len(saved[0].local)
    <3>1. PICK n \in Nat : AllHold(saved, n)
      BY <1>1, <2>3 DEF Inv
    <3> QED
      BY <2>0, <3>1 DEF AllHold, Holds
  <2> QED
    BY <2>1, <2>2, <2>3 DEF LayersInStep
<1> QED
  BY <1>1, Inductive, PTL

-----------------------------------------------------------------------------
(* Append-only history                                                     *)

IsPrefixOf(old, new) == Len(old) <= Len(new) /\ SubSeq(new, 1, Len(old)) = old

\* Every store is a prefix of itself.
LEMMA PrefixSelf ==
  ASSUME NEW s \in Seq(EntryType)
  PROVE  IsPrefixOf(s, s)
  BY DEF IsPrefixOf

\* The entries after n positions are a prefix of those after m >= n.
LEMMA EntriesPrefix ==
  ASSUME NEW r \in Nat \ {0}, NEW n \in Nat, NEW m \in Nat, Start <= n, n <= m
  PROVE  IsPrefixOf(EntriesAt(r, n), EntriesAt(r, m))
<1> USE StartAssumption
<1> DEFINE a == Start \div r
           b == n \div r
           c == m \div r
<1>1. a \in Nat /\ b \in Nat /\ c \in Nat /\ a <= b /\ b <= c
  BY DivMod, DivMonotone
<1>2. EntriesAt(r, n) = GroupsFrom(r, a, b) /\ EntriesAt(r, m) = GroupsFrom(r, a, c)
  BY DEF EntriesAt, GroupsFrom
<1> HIDE DEF a, b, c
<1>3. IsPrefixOf(GroupsFrom(r, a, b), GroupsFrom(r, a, c))
  BY <1>1 DEF IsPrefixOf, GroupsFrom
<1> QED
  BY <1>2, <1>3

\* Inside a forward call, also one that raises, no stored compressed entry is
\* dropped, reordered or rewritten (LayerCache.append, cache.py:207-216).
THEOREM HistoryIsAppendOnly == AlignedStart => (Spec => HistoryAppendOnly)
<1> SUFFICES ASSUME AlignedStart PROVE Spec => HistoryAppendOnly
  OBVIOUS
<1>1. ASSUME Inv, Next, status = "running", NEW l \in Layer
      PROVE  IsPrefixOf(cache[l].compressed, cache'[l].compressed)
  <2>1. PICK n \in Nat, m \in Nat : Start <= n /\ n < m /\ Underway(n, m)
    BY <1>1 DEF Inv
  <2>2. /\ at \in Layer /\ cache \in [Layer -> LayerType] /\ chunk = Arange(n, m)
        /\ Holds(at, cache[at], n)
    BY <1>1, <2>1 DEF Underway, Inv
  <2>3. \A s \in LayerType : s.compressed \in Seq(EntryType)
    BY DEF LayerType, EntryType
  <2>4. CASE cache'[l] = cache[l]
    BY <2>2, <2>3, <2>4, PrefixSelf
  <2>5. CASE cache' = [cache EXCEPT ![at] = Updated(at, @, chunk)] /\ l = at
    <3>1. Holds(at, cache'[at], m)
      BY <2>1, <2>2, <2>5, LayerStep
    <3>2. CASE Ratio[at] = 0
      <4>1. cache[at].compressed = <<>> /\ cache'[at].compressed = <<>>
        BY <2>2, <3>1, <3>2 DEF Holds
      <4>2. <<>> \in Seq(EntryType)
        OBVIOUS
      <4> QED
        BY <2>5, <4>1, <4>2, PrefixSelf
    <3>3. CASE Ratio[at] # 0
      <4> DEFINE r == Ratio[at]
      <4>1. r \in Nat \ {0} /\ n <= m
        BY <2>1, <2>2, <3>3, RatioAssumption DEF Layer
      <4>2. cache[at].compressed = EntriesAt(r, n) /\ cache'[at].compressed = EntriesAt(r, m)
        BY <2>2, <3>1, <3>3 DEF Holds
      <4> HIDE DEF r
      <4>3. IsPrefixOf(EntriesAt(r, n), EntriesAt(r, m))
        BY <2>1, <4>1, EntriesPrefix
      <4> QED
        BY <2>5, <4>2, <4>3
    <3> QED
      BY <3>2, <3>3
  <2>6. CASE /\ Ratio[at] # 0 /\ l = at
             /\ cache' = [cache EXCEPT ![at] = Leftover(@, chunk, Ratio[at])]
    <3>1. n <= m
      BY <2>1
    <3>2. cache'[at] = [cache[at] EXCEPT !.pending = PendingAt(Ratio[at], m)]
      BY <2>2, <2>6, <3>1, LeftoverStep
    <3>3. cache'[at].compressed = cache[at].compressed
      BY <2>2, <3>2 DEF LayerType
    <3> QED
      BY <2>2, <2>3, <2>6, <3>3, PrefixSelf
  <2> QED
    BY <1>1, <2>2, <2>4, <2>5, <2>6
       DEF Next, BeginForward, LayerForward, LayerRaise, NewCache, Save, Restore
<1>2. Inv /\ [Next]_vars =>
        [status = "running" =>
           \A l \in Layer :
              LET old == cache[l].compressed
                  new == cache'[l].compressed
              IN  Len(old) <= Len(new) /\ SubSeq(new, 1, Len(old)) = old]_vars
  BY <1>1 DEF IsPrefixOf
<1> QED
  BY <1>2, Inductive, PTL DEF Spec, HistoryAppendOnly

-----------------------------------------------------------------------------
(* Refinement of attention over the whole history                          *)

\* The set of positions of an arange is an interval.
LEMMA RangeOfArange ==
  ASSUME NEW a \in Nat, NEW b \in Nat, a <= b
  PROVE  RangeOf(Arange(a, b)) = a .. b - 1
<1> DEFINE s == Arange(a, b)
<1>1. DOMAIN s = 1 .. b - a /\ \A i \in 1 .. b - a : s[i] = a + i - 1
  BY ArangeType
<1>2. ASSUME NEW p \in a .. b - 1
      PROVE  p \in RangeOf(s)
  <2>1. (p - a) + 1 \in 1 .. b - a /\ a + ((p - a) + 1) - 1 = p
    OBVIOUS
  <2> DEFINE i == (p - a) + 1
  <2> HIDE DEF i, s
  <2>2. s[i] = p
    BY <1>1, <2>1 DEF i
  <2> QED
    BY <1>1, <2>1, <2>2 DEF RangeOf, i
<1> HIDE DEF s
<1>3. RangeOf(s) \subseteq a .. b - 1
  BY <1>1 DEF RangeOf
<1> QED
  BY <1>2, <1>3 DEF s

\* The raw keys a query mixes are the sliding window of the whole history.
LEMMA LocalReads ==
  ASSUME NEW n \in Nat, NEW m \in Nat, Start <= n, n < m, NEW q \in n .. m - 1
  PROVE  {p \in RangeOf(LocalAt(n) \o Arange(n, m)) : p <= q /\ p >= q - Window + 1}
           = FullHistory!WindowKeys(Start .. m - 1, q)
<1> USE StartAssumption, WindowAssumption
<1> DEFINE a == Larger(Start, n - Window)
<1>1. a \in Nat /\ a <= n /\ a <= m /\ n <= m /\ Start <= a /\ (a = Start \/ a = n - Window)
  BY DEF Larger
<1>2. LocalAt(n) = Arange(a, n)
  BY DEF LocalAt
<1> HIDE DEF a
<1>3. Arange(a, n) \o Arange(n, m) = Arange(a, m)
  BY <1>1, ArangeConcat
<1>4. RangeOf(LocalAt(n) \o Arange(n, m)) = a .. m - 1
  BY <1>1, <1>2, <1>3, RangeOfArange
<1> QED
  BY <1>1, <1>4 DEF FullHistory!WindowKeys

\* The entries whose end a query has reached are the groups it would see.
LEMMA GroupReads ==
  ASSUME NEW r \in Nat \ {0}, Start % r = 0,
         NEW m \in Nat, Start <= m, NEW q \in Nat, q < m
  PROVE  {e.end : e \in {x \in RangeOf(EntriesAt(r, m)) : x.end <= q}}
           = FullHistory!VisibleGroups(Start .. m - 1, r, q)
<1> USE StartAssumption
<1> DEFINE a == Start \div r
           c == m \div r
           E == RangeOf(EntriesAt(r, m))
           V == FullHistory!VisibleGroups(Start .. m - 1, r, q)
<1>1. a \in Nat /\ c \in Nat /\ a <= c /\ a * r = Start
      /\ m = c * r + (m % r) /\ m % r \in 0 .. r - 1
  <2>1. a \in Nat /\ Start = a * r + (Start % r)
    BY DivMod
  <2>2. c \in Nat /\ m = c * r + (m % r) /\ m % r \in 0 .. r - 1
    BY DivMod
  <2>3. a <= c
    BY DivMonotone
  <2>4. a * r \in Nat
    BY <2>1
  <2> QED
    BY <2>1, <2>2, <2>3, <2>4
<1>2. E = {GroupEntry(r, g) : g \in a .. c - 1}
  <2>1. EntriesAt(r, m) = GroupsFrom(r, a, c)
    BY DEF EntriesAt, GroupsFrom
  <2> HIDE DEF a, c
  <2>2. ASSUME NEW g \in a .. c - 1
        PROVE  GroupEntry(r, g) \in RangeOf(GroupsFrom(r, a, c))
    <3> DEFINE k == (g - a) + 1
    <3>1. k \in 1 .. c - a /\ a + k - 1 = g
      BY <1>1
    <3> HIDE DEF k
    <3>2. GroupsFrom(r, a, c)[k] = GroupEntry(r, g)
      BY <3>1 DEF GroupsFrom
    <3>3. k \in DOMAIN GroupsFrom(r, a, c)
      BY <3>1 DEF GroupsFrom
    <3> QED
      BY <3>2, <3>3 DEF RangeOf
  <2>3. ASSUME NEW x \in RangeOf(GroupsFrom(r, a, c))
        PROVE  \E g \in a .. c - 1 : x = GroupEntry(r, g)
    <3>1. PICK k \in 1 .. c - a : x = GroupEntry(r, a + k - 1)
      BY DEF RangeOf, GroupsFrom
    <3>2. a + k - 1 \in a .. c - 1
      BY <1>1
    <3> QED
      BY <3>1, <3>2
  <2> QED
    BY <2>1, <2>2, <2>3
<1> HIDE DEF a, c, E
<1>3. ASSUME NEW g \in a .. c - 1, (g + 1) * r - 1 <= q
      PROVE  (g + 1) * r - 1 \in V
  <2> DEFINE b == g * r
  <2>1. g \in Nat /\ a <= g /\ g + 1 <= c
    BY <1>1
  <2>2. a * r <= b /\ (g + 1) * r <= c * r /\ (g + 1) * r = b + r /\ b \in Nat
    BY <1>1, <2>1, TimesMonotone
  <2>3. ((g + 1) * r) % r = 0
    BY <2>1
  <2> DEFINE e == (g + 1) * r - 1
  <2>4. e \in Start .. m - 1 /\ e + 1 = (g + 1) * r /\ e - r + 1 = b /\ Start <= b
    BY <1>1, <2>2
  <2>5. (e + 1) % r = 0
    BY <2>3, <2>4
  <2> HIDE DEF e, b
  <2> QED
    BY <1>3, <2>4, <2>5 DEF FullHistory!VisibleGroups, e
<1>4. ASSUME NEW e \in V
      PROVE  \E g \in a .. c - 1 : e = (g + 1) * r - 1 /\ e <= q
  <2>1. e \in Start .. m - 1 /\ e <= q /\ (e + 1) % r = 0 /\ (e - r + 1) .. e \subseteq Start .. m - 1
    BY DEF FullHistory!VisibleGroups
  <2> DEFINE d == (e + 1) \div r
  <2>2. d \in Nat /\ e + 1 = d * r
    <3> DEFINE x == e + 1
    <3>1. x \in Nat /\ x % r = 0
      BY <2>1
    <3> HIDE DEF x
    <3>2. x \div r \in Nat /\ x = (x \div r) * r + (x % r)
      BY <3>1, DivMod
    <3> QED
      BY <3>1, <3>2 DEF x
  <2> HIDE DEF d
  <2>3. e - r + 1 >= Start
    BY <2>1
  <2> DEFINE dr == d * r
             ar == a * r
             cr == c * r
  <2>4. /\ dr \in Nat /\ ar \in Nat /\ cr \in Nat
        /\ dr <= m /\ dr >= ar + r /\ m < cr + r
    BY <1>1, <2>1, <2>2, <2>3
  <2> HIDE DEF dr, ar, cr
  <2>5. d <= c
    <3>1. CASE d > c
      <4>1. (c + 1) * r <= d * r /\ (c + 1) * r = c * r + r
        BY <1>1, <2>2, <3>1, TimesMonotone
      <4>2. cr + r <= dr
        BY <4>1 DEF cr, dr
      <4> QED
        BY <2>4, <4>2
    <3> QED
      BY <1>1, <2>2, <3>1
  <2>6. d >= a + 1
    <3>1. CASE d <= a
      <4>1. dr <= ar
        BY <1>1, <2>2, <3>1, TimesMonotone DEF dr, ar
      <4> QED
        BY <2>4, <4>1
    <3> QED
      BY <1>1, <2>2, <3>1
  <2>7. d - 1 \in a .. c - 1 /\ (d - 1) + 1 = d
    BY <1>1, <2>2, <2>5, <2>6
  <2> QED
    BY <2>1, <2>2, <2>7
<1>5. \A g \in a .. c - 1 : GroupEntry(r, g).end = (g + 1) * r - 1
  BY DEF GroupEntry
<1> HIDE DEF V
<1> QED
  BY <1>2, <1>3, <1>4, <1>5 DEF E, V

\* One cached attention call reads what the full history offers.
LEMMA ReadsMatch ==
  ASSUME AlignedStart, NEW l \in Layer, NEW c, NEW n \in Nat, NEW m \in Nat,
         Start <= n, n < m, Holds(l, c, n)
  PROVE  Mixed(l, c, Arange(n, m)) = FullHistory!Attend(l, Start .. m - 1, n .. m - 1)
<1> USE StartAssumption
<1> DEFINE ps == Arange(n, m)
           new == Updated(l, c, ps)
           local(q) == {p \in RangeOf(c.local \o ps) : p <= q /\ p >= q - Window + 1}
           groups(q) == {e.end : e \in {x \in RangeOf(new.compressed) : x.end <= q}}
<1>1. RangeOf(ps) = n .. m - 1
  <2>1. n <= m
    OBVIOUS
  <2> QED
    BY <2>1, RangeOfArange
<1>2. Holds(l, new, m)
  BY LayerStep
<1>3. \A q \in n .. m - 1 : local(q) = FullHistory!WindowKeys(Start .. m - 1, q)
  BY LocalReads DEF Holds
<1>4. \A q \in n .. m - 1 :
        groups(q) = IF Ratio[l] = 0 THEN {} ELSE FullHistory!VisibleGroups(Start .. m - 1, Ratio[l], q)
  <2> SUFFICES ASSUME NEW q \in n .. m - 1
               PROVE  groups(q) = IF Ratio[l] = 0 THEN {}
                                  ELSE FullHistory!VisibleGroups(Start .. m - 1, Ratio[l], q)
    OBVIOUS
  <2> HIDE DEF new
  <2>1. CASE Ratio[l] = 0
    <3>1. new.compressed = <<>>
      BY <1>2, <2>1 DEF Holds
    <3> QED
      BY <2>1, <3>1 DEF RangeOf
  <2>2. CASE Ratio[l] # 0
    <3> DEFINE r == Ratio[l]
    <3>1. r \in Nat \ {0} /\ Start % r = 0 /\ Start <= m /\ q \in Nat /\ q < m
      BY <2>2, RatioAssumption DEF Layer, AlignedStart
    <3>2. new.compressed = EntriesAt(r, m)
      BY <1>2, <2>2 DEF Holds
    <3> HIDE DEF r
    <3>3. {e.end : e \in {x \in RangeOf(EntriesAt(r, m)) : x.end <= q}}
            = FullHistory!VisibleGroups(Start .. m - 1, r, q)
      BY <3>1, GroupReads
    <3> QED
      BY <2>2, <3>2, <3>3 DEF r
  <2> QED
    BY <2>1, <2>2
<1> HIDE DEF local, groups
<1>5. Mixed(l, c, ps) = [q \in RangeOf(ps) |-> [local |-> local(q), groups |-> groups(q)]]
  BY DEF Mixed, local, groups
<1> HIDE DEF ps
<1> QED
  BY <1>1, <1>3, <1>4, <1>5 DEF FullHistory!Attend, ps

\* What the layers were given, as the abstract history sees it.
LEMMA KeysAtRest ==
  ASSUME NEW n \in Nat, Start <= n, AllHold(cache, n), status = "idle"
  PROVE  Keys = [l \in Layer |-> Start .. n - 1]
<1>1. \A l \in Layer : Intact(l) /\ Seen(l) = n
  BY SeenHolds DEF AllHold, Intact
<1> QED
  BY <1>1 DEF Keys

\* Within a call the layers behind have the chunk and the others do not.
LEMMA KeysUnderway ==
  ASSUME NEW n \in Nat, NEW m \in Nat, Start <= n, n < m, Underway(n, m),
         status \in {"running", "failed"}, at \in Layer
  PROVE  Keys = [l \in Layer |-> Start .. (IF l < at THEN m ELSE n) - 1]
<1>1. chunk[1] = n /\ Start <= m
  <2>1. Arange(n, m)[1] = n
    BY ChunkEnds
  <2> QED
    BY <2>1, StartAssumption DEF Underway
<1>2. ASSUME NEW l \in Layer
      PROVE  (IF Intact(l) THEN Seen(l) ELSE chunk[1]) = IF l < at THEN m ELSE n
  <2>1. CASE l < at
    <3>1. Holds(l, cache[l], m) /\ Intact(l)
      BY <2>1 DEF Underway, Intact, Layer
    <3> QED
      BY <1>1, <2>1, <3>1, SeenHolds
  <2>2. CASE l > at
    <3>1. Holds(l, cache[l], n) /\ Intact(l)
      BY <2>2 DEF Underway, Intact, Layer
    <3>2. ~ (l < at)
      BY <2>2 DEF Layer
    <3> QED
      BY <3>1, <3>2, SeenHolds
  <2>3. CASE l = at
    <3>1. ~ (l < at)
      BY <2>3 DEF Layer
    <3>2. CASE status = "running"
      <4>1. Holds(l, cache[l], n) /\ Intact(l)
        BY <2>3, <3>2 DEF Underway, Intact
      <4> QED
        BY <3>1, <4>1, SeenHolds
    <3>3. CASE status = "failed"
      BY <1>1, <2>3, <3>1, <3>3 DEF Intact
    <3> QED
      BY <3>2, <3>3
  <2>4. l < at \/ l > at \/ l = at
    BY DEF Layer
  <2> QED
    BY <2>1, <2>2, <2>3, <2>4
<1> QED
  BY <1>2 DEF Keys

\* A cached forward answers as attention over the whole history would, for
\* every stack, window, chunking and save/restore in between (module.py:100-169
\* against its no-cache branch).
THEOREM CachedIsFullHistory == AlignedStart => (Spec => CachedEqualsFullHistory)
<1> SUFFICES ASSUME AlignedStart PROVE Spec => CachedEqualsFullHistory
  OBVIOUS
<1> USE StartAssumption
<1>1. Init => FullHistory!Init
  <2> SUFFICES ASSUME Init PROVE FullHistory!Init
    OBVIOUS
  <2>1. AllHold(cache, Start) /\ status = "idle"
    BY EmptyHolds, BoundAssumption DEF Init, AllHold
  <2>2. Keys = [l \in Layer |-> Start .. Start - 1]
    BY <2>1, KeysAtRest
  <2>3. Start .. Start - 1 = {}
    OBVIOUS
  <2> QED
    BY <2>2, <2>3 DEF Init, FullHistory!Init, FullHistory!Layer, Layer, NoReads,
       FullHistory!NoReads
<1>2. ASSUME Inv, Inv', Next
      PROVE  FullHistory!Next \/ UNCHANGED FullHistory!vars
  <2>1. CASE \E k \in ChunkSizes : BeginForward(k)
    <3>1. PICK n \in Nat : Start <= n /\ AllHold(cache, n) /\ status = "idle"
      BY <1>2, <2>1 DEF Inv, BeginForward
    <3>2. UNCHANGED <<cache, reads>> /\ status' = "running"
      BY <2>1 DEF BeginForward
    <3>3. \A l \in Layer : Intact(l)' /\ Seen(l)' = n
      BY <3>1, <3>2, SeenHolds DEF AllHold, Intact, Seen
    <3>4. Keys' = [l \in Layer |-> Start .. n - 1]
      BY <3>3 DEF Keys
    <3>5. Keys = [l \in Layer |-> Start .. n - 1]
      BY <3>1, KeysAtRest
    <3> QED
      BY <3>2, <3>4, <3>5 DEF FullHistory!vars
  <2>2. CASE LayerForward
    <3>1. PICK n \in Nat, m \in Nat : Start <= n /\ n < m /\ Underway(n, m)
      BY <1>2, <2>2 DEF Inv, LayerForward
    <3>2. /\ at \in Layer /\ status = "running" /\ chunk = Arange(n, m)
          /\ Holds(at, cache[at], n) /\ m <= MaxTokens /\ cache \in [Layer -> LayerType]
      BY <1>2, <2>2, <3>1 DEF Inv, Underway, LayerForward
    <3>3. Keys = [l \in Layer |-> Start .. (IF l < at THEN m ELSE n) - 1]
      BY <3>1, <3>2, KeysUnderway
    <3>4. Holds(at, cache'[at], m)
      BY <2>2, <3>1, <3>2, LayerStep DEF LayerForward
    <3>5. \A l \in Layer : l # at => cache'[l] = cache[l]
      BY <2>2, <3>2 DEF LayerForward
    <3>6. ASSUME NEW l \in Layer
          PROVE  Keys'[l] = Start .. (IF l <= at THEN m ELSE n) - 1
      <4>1. status' # "failed"
        BY <2>2, <3>2 DEF LayerForward
      <4>2. Holds(l, cache'[l], IF l <= at THEN m ELSE n)
        <5>1. CASE l = at
          BY <3>2, <3>4, <5>1 DEF Layer
        <5>2. CASE l < at
          BY <3>1, <3>2, <3>5, <5>2 DEF Underway, Layer
        <5>3. CASE l > at
          BY <3>1, <3>2, <3>5, <5>3 DEF Underway, Layer
        <5> QED
          BY <3>2, <5>1, <5>2, <5>3 DEF Layer
      <4>3. Seen(l)' = IF l <= at THEN m ELSE n
        <5> DEFINE k == IF l <= at THEN m ELSE n
        <5>1. k \in Nat /\ Start <= k /\ Holds(l, cache'[l], k)
          BY <3>1, <4>2
        <5> HIDE DEF k
        <5>2. cache'[l].local = LocalAt(k) /\ cache'[l].next = IF k = Start THEN 0 ELSE k
          BY <5>1 DEF Holds
        <5>3. cache'[l].local = <<>> <=> k = Start
          BY <5>1, <5>2, LocalAtEmpty
        <5>4. Seen(l)' = k
          BY <5>1, <5>2, <5>3 DEF Seen
        <5> QED
          BY <5>4 DEF k
      <4> QED
        BY <4>1, <4>3 DEF Keys, Intact
    <3>7. Keys' = [Keys EXCEPT ![at] = @ \cup (n .. m - 1)]
      <4>1. (Start .. n - 1) \cup (n .. m - 1) = Start .. m - 1
        BY <3>1
      <4>2. Keys[at] = Start .. n - 1
        BY <3>2, <3>3 DEF Layer
      <4>3. ASSUME NEW l \in Layer
            PROVE  Keys'[l] = [Keys EXCEPT ![at] = @ \cup (n .. m - 1)][l]
        <5>1. CASE l = at
          BY <3>2, <3>3, <3>6, <4>1, <4>2, <5>1 DEF Layer
        <5>2. CASE l # at
          <6>1. l <= at <=> l < at
            BY <3>2, <5>2 DEF Layer
          <6> QED
            BY <3>2, <3>3, <3>6, <5>2, <6>1
        <5> QED
          BY <5>1, <5>2
      <4> QED
        BY <3>3, <4>3 DEF Keys
    <3>8. reads' = [reads EXCEPT ![at] = FullHistory!Attend(at, Keys[at] \cup (n .. m - 1), n .. m - 1)]
      <4>1. Mixed(at, cache[at], Arange(n, m)) = FullHistory!Attend(at, Start .. m - 1, n .. m - 1)
        BY <3>1, <3>2, ReadsMatch
      <4>2. Keys[at] \cup (n .. m - 1) = Start .. m - 1
        BY <3>1, <3>2, <3>3 DEF Layer
      <4> QED
        BY <2>2, <3>2, <4>1, <4>2 DEF LayerForward
    <3>9. FullHistory!Extend(at, n, m)
      <4>1. Keys[at] = Start .. n - 1
        BY <3>2, <3>3 DEF Layer
      <4> QED
        BY <3>1, <3>7, <3>8, <4>1 DEF FullHistory!Extend
    <3>10. n \in 0 .. MaxTokens /\ m \in 0 .. MaxTokens
      BY <3>1, <3>2, BoundAssumption
    <3> QED
      BY <3>2, <3>9, <3>10 DEF FullHistory!Next, FullHistory!Layer, Layer
  <2>3. CASE LayerRaise
    <3>1. PICK n \in Nat, m \in Nat : Start <= n /\ n < m /\ Underway(n, m)
      BY <1>2, <2>3 DEF Inv, LayerRaise
    <3>2. Keys = [l \in Layer |-> Start .. (IF l < at THEN m ELSE n) - 1]
      BY <1>2, <2>3, <3>1, KeysUnderway DEF Inv, LayerRaise
    <3>3. /\ status' = "failed" /\ UNCHANGED <<chunk, at, reads>> /\ at \in Layer
          /\ cache \in [Layer -> LayerType] /\ chunk[1] = n
      <4>1. chunk[1] = n
        <5>1. Arange(n, m)[1] = n
          BY <3>1, ChunkEnds
        <5> QED
          BY <3>1, <5>1 DEF Underway
      <4> QED
        BY <1>2, <2>3, <4>1 DEF Inv, LayerRaise
    <3>4. \A l \in Layer : l # at => cache'[l] = cache[l]
      BY <2>3, <3>3 DEF LayerRaise
    <3>5. ASSUME NEW l \in Layer
          PROVE  Keys'[l] = Keys[l]
      <4>1. CASE l = at
        <5>1. Keys'[l] = Start .. n - 1
          BY <3>3, <4>1 DEF Keys, Intact
        <5> QED
          BY <3>2, <3>3, <4>1, <5>1 DEF Layer
      <4>2. CASE l # at
        <5>1. status = "running"
          BY <2>3 DEF LayerRaise
        <5>2. Intact(l)' /\ Intact(l) /\ Seen(l)' = Seen(l)
          BY <3>3, <3>4, <4>2, <5>1 DEF Intact, Seen
        <5> QED
          BY <5>2 DEF Keys
      <4> QED
        BY <4>1, <4>2
    <3>6. Keys' = Keys
      BY <3>5 DEF Keys
    <3> QED
      BY <3>3, <3>6 DEF FullHistory!vars
  <2>4. ASSUME NewCache \/ Restore
        PROVE  FullHistory!Next
    <3>1. status' = "idle" /\ reads' = NoReads
      BY <2>4 DEF NewCache, Restore
    <3>2. PICK n \in Nat : Start <= n /\ AllHold(cache, n)'
      BY <1>2, <3>1 DEF Inv
    <3>3. \A l \in Layer : Intact(l)' /\ Seen(l)' = n
      <4> SUFFICES ASSUME NEW l \in Layer
                   PROVE  Intact(l)' /\ Seen(l)' = n
        OBVIOUS
      <4>1. Holds(l, cache'[l], n)
        BY <3>2 DEF AllHold
      <4>2. cache'[l].local = LocalAt(n) /\ cache'[l].next = IF n = Start THEN 0 ELSE n
        BY <4>1 DEF Holds
      <4>3. cache'[l].local = <<>> <=> n = Start
        BY <3>2, <4>2, LocalAtEmpty
      <4> QED
        BY <3>1, <4>2, <4>3 DEF Seen, Intact
    <3>4. Keys' = [l \in Layer |-> Start .. n - 1]
      BY <3>3 DEF Keys
    <3>5. n \in 0 .. MaxTokens
      BY <3>2, BoundAssumption DEF AllHold
    <3>6. FullHistory!Resume(n)
      BY <3>1, <3>4 DEF FullHistory!Resume, FullHistory!Layer, Layer, NoReads, FullHistory!NoReads
    <3> QED
      BY <3>5, <3>6 DEF FullHistory!Next
  <2>5. CASE Save
    BY <2>5 DEF Save, FullHistory!vars, Keys, Intact, Seen
  <2> QED
    BY <1>2, <2>1, <2>2, <2>3, <2>4, <2>5 DEF Next
<1>3. ASSUME UNCHANGED vars
      PROVE  UNCHANGED FullHistory!vars
  BY <1>3 DEF vars, FullHistory!vars, Keys, Intact, Seen
<1>4. Inv /\ Inv' /\ [Next]_vars => [FullHistory!Next]_(FullHistory!vars)
  BY <1>2, <1>3
<1> QED
  BY <1>1, <1>4, Inductive, PTL DEF Spec, CachedEqualsFullHistory, FullHistory!Spec

=============================================================================
