-------------------------- MODULE RetrievalProofs --------------------------
(***************************************************************************)
(* Sparse retrieval.  The branch of an attention layer, for every history, *)
(* cut into chunks and sub-chunks of any size, every block of queries and  *)
(* every fall of the ties; and the two readers of one memory, CSA2Stack    *)
(* and HierarchicalIndexer, for every cadence, content, pool and chunk     *)
(* size, with the chunked selection both are built on.                     *)
(***************************************************************************)
EXTENDS LightningIndexer, GlobalMemory, DataLemmas

LEMMA MinIs ==
  ASSUME NEW a \in Int, NEW b \in Int PROVE Min({a, b}) = IF a <= b THEN a ELSE b
BY DEF Min

-----------------------------------------------------------------------------
(* The running list                                                        *)

KeysOf(held) == {held[i].key : i \in DOMAIN held}

\* The list holds the IndexTopK of the scored entries that have the highest values.
TopOf(held, scored, value) ==
  /\ Len(held) \in 0 .. IndexTopK /\ DOMAIN held = 1 .. Len(held)
  /\ \A i, j \in 1 .. Len(held) : i # j => held[i].key # held[j].key
  /\ \A i \in 1 .. Len(held) : held[i].key \in scored /\ held[i].score = value[held[i].key]
  /\ \A x \in scored \ KeysOf(held) :
       Len(held) = IndexTopK /\ \A i \in 1 .. Len(held) : held[i].score >= value[x]

Valued(value, scored) == \A x \in scored : value[x] \in Int

LEMMA ListLength ==
  ASSUME NEW held, NEW scored, NEW value, TopOf(held, scored, value)
  PROVE  Len(held) \in Nat /\ Len(held) <= IndexTopK /\ DOMAIN held = 1 .. Len(held)
<1>1. Len(held) \in 0 .. IndexTopK /\ DOMAIN held = 1 .. Len(held)
  BY Zenon DEF TopOf
<1> QED BY <1>1, IndexerAssumption

LEMMA KeysCounted ==
  ASSUME NEW held, NEW scored, NEW value, TopOf(held, scored, value)
  PROVE  /\ IsFiniteSet(KeysOf(held)) /\ Cardinality(KeysOf(held)) = Len(held)
         /\ KeysOf(held) \subseteq scored
         /\ \A i \in 1 .. Len(held) : held[i].key \in KeysOf(held)
<1>0. Len(held) \in 0 .. IndexTopK /\ DOMAIN held = 1 .. Len(held)
  BY Zenon DEF TopOf
<1>1. PICK n \in Nat : n = Len(held) /\ DOMAIN held = 1 .. n
  <2>1. Len(held) \in Nat
    BY <1>0, IndexerAssumption
  <2> QED BY ONLY <1>0, <2>1, Zenon
<1>2. PICK T : T = KeysOf(held) /\ T = {held[i].key : i \in 1 .. n}
  BY <1>1 DEF KeysOf
<1>3. PICK f : f = [i \in 1 .. n |-> held[i].key]
  OBVIOUS
<1>4. f \in [1 .. n -> T] /\ \A t \in T : \E i \in 1 .. n : f[i] = t
  BY ONLY <1>2, <1>3
<1>5. \A i, j \in 1 .. n : f[i] = f[j] => i = j
  BY <1>1, <1>3 DEF TopOf
<1>6. IsFiniteSet(1 .. n) /\ Cardinality(1 .. n) = n
  BY FS_Interval
<1>7. f \in Bijection(1 .. n, T)
  BY <1>4, <1>5 DEF Bijection, Injection, Surjection, IsInjective
<1>8. IsFiniteSet(T) /\ Cardinality(T) = n
  <2>1. ExistsBijection(1 .. n, T)
    BY <1>7 DEF ExistsBijection
  <2> QED BY <1>6, <2>1, FS_Bijection
<1>9. T \subseteq scored
  BY <1>1, <1>2 DEF TopOf
<1> QED BY <1>1, <1>2, <1>8, <1>9

\* What beats an entry left out of one list beats it in a later one that chose
\* among the first one's.
LEMMA Dominates ==
  ASSUME NEW a, NEW A, NEW m, NEW K, NEW value, TopOf(a, A, value), TopOf(m, K, value),
         Valued(value, A), Valued(value, K), KeysOf(a) \subseteq K,
         NEW x \in A, x \notin KeysOf(a)
  PROVE  Len(m) = IndexTopK /\ \A i \in 1 .. Len(m) : m[i].score >= value[x]
<1>1. /\ Len(a) = IndexTopK /\ IndexTopK \in Nat /\ Len(m) \in 0 .. IndexTopK
      /\ \A i \in 1 .. Len(a) : a[i].score >= value[x] /\ a[i].score = value[a[i].key]
  BY IndexerAssumption DEF TopOf
<1>2. PICK Ka, Km : Ka = KeysOf(a) /\ Km = KeysOf(m)
  OBVIOUS
<1>3. /\ IsFiniteSet(Ka) /\ Cardinality(Ka) = IndexTopK /\ Ka \subseteq K
      /\ IsFiniteSet(Km) /\ Cardinality(Km) = Len(m) /\ Km \subseteq K
      /\ \A i \in 1 .. Len(m) : m[i].key \in Km
  BY <1>1, <1>2, KeysCounted
<1>4. \A y \in Ka : value[y] >= value[x]
  <2>1. \A y \in Ka : \E i \in 1 .. Len(a) : y = a[i].key
    BY <1>2 DEF KeysOf, TopOf
  <2> QED BY <1>1, <2>1
<1>5. \A y \in Ka \ Km : Len(m) = IndexTopK /\ \A i \in 1 .. Len(m) : m[i].score >= value[y]
  BY <1>2, <1>3 DEF TopOf
<1>6. Len(m) = IndexTopK
  <2>1. CASE Ka \subseteq Km
    <3>1. Cardinality(Ka) <= Cardinality(Km)
      BY <1>3, <2>1, FS_Subset
    <3> QED BY <1>1, <1>3, <3>1
  <2>2. CASE ~ (Ka \subseteq Km)
    BY <1>5, <2>2
  <2> QED BY <2>1, <2>2
<1>7. ASSUME NEW i \in 1 .. Len(m) PROVE m[i].score >= value[x]
  <2>1. m[i].key \in Km /\ m[i].score = value[m[i].key] /\ m[i].score \in Int
    BY <1>3 DEF TopOf, Valued
  <2>2. CASE m[i].key \in Ka
    BY <1>4, <2>1, <2>2
  <2>3. CASE m[i].key \notin Ka
    <3>1. ~ (Ka \subseteq Km)
      <4>1. SUFFICES ASSUME Ka \subseteq Km PROVE FALSE
        OBVIOUS
      <4>2. Ka = Km
        BY <1>3, <1>6, <4>1, FS_Subset
      <4> QED BY <2>1, <2>3, <4>2
    <3>2. PICK y \in Ka : m[i].score >= value[y]
      BY <1>5, <3>1
    <3>3. value[y] \in Int /\ value[x] \in Int /\ value[y] >= value[x]
      BY <1>3, <1>4 DEF Valued
    <3> QED BY ONLY <2>1, <3>2, <3>3
  <2> QED BY <2>2, <2>3
<1> QED BY <1>6, <1>7

\* Lists of two sets of entries, merged.
LEMMA MergedTop ==
  ASSUME NEW a, NEW A, NEW b, NEW B, NEW m, NEW value, TopOf(a, A, value), TopOf(b, B, value),
         TopOf(m, KeysOf(a) \cup KeysOf(b), value), Valued(value, A), Valued(value, B)
  PROVE  TopOf(m, A \cup B, value)
<1>1. KeysOf(a) \subseteq A /\ KeysOf(b) \subseteq B
  BY KeysCounted
<1>2. PICK K : K = KeysOf(a) \cup KeysOf(b)
  OBVIOUS
<1>3. TopOf(m, K, value) /\ KeysOf(a) \subseteq K /\ KeysOf(b) \subseteq K /\ K \subseteq A \cup B
      /\ Valued(value, K)
  BY <1>1, <1>2 DEF Valued
<1>4. ASSUME NEW x \in (A \cup B) \ KeysOf(m)
      PROVE  Len(m) = IndexTopK /\ \A i \in 1 .. Len(m) : m[i].score >= value[x]
  <2>1. CASE x \in K
    BY <1>3, <1>4, <2>1 DEF TopOf
  <2>2. CASE x \in A /\ x \notin KeysOf(a)
    BY <1>3, <2>2, Dominates
  <2>3. CASE x \in B /\ x \notin KeysOf(b)
    BY <1>3, <2>3, Dominates
  <2> QED BY <1>2, <1>4, <2>1, <2>2, <2>3
<1> QED BY <1>3, <1>4 DEF TopOf

\* torch.topk of a list of entries.
LEMMA PickedTop ==
  ASSUME NEW entries, NEW n \in Nat, Len(entries) = n, DOMAIN entries = 1 .. n, NEW value,
         \A i, j \in 1 .. n : i # j => entries[i].key # entries[j].key,
         \A i \in 1 .. n : entries[i].score = value[entries[i].key] /\ entries[i].score \in Int,
         NEW t \in TopKOf(entries, IndexTopK)
  PROVE  /\ TopOf(t, KeysOf(entries), value)
         /\ \A i \in 1 .. Len(t) : \E j \in 1 .. n : t[i] = entries[j]
         /\ t = [i \in 1 .. Len(t) |-> t[i]]
<1>1. PICK k \in Nat : k = IndexTopK
  BY IndexerAssumption
<1>2. PICK m \in Nat : m = Min({k, n}) /\ m = IF k <= n THEN k ELSE n
  BY MinIs
<1>3. PICK p \in Picks(entries, IndexTopK) : t = [i \in DOMAIN p |-> entries[p[i]]]
  BY DEF TopKOf
<1>4. /\ p \in [1 .. m -> 1 .. n]
      /\ \A i, j \in 1 .. m : i < j => p[i] # p[j]
      /\ \A e \in 1 .. n : (\A i \in 1 .. m : p[i] # e) =>
           \A i \in 1 .. m : entries[p[i]].score >= entries[e].score
  <2>1. p \in [1 .. m -> 1 .. n] /\ DOMAIN p = 1 .. m
    BY <1>1, <1>2 DEF Picks
  <2> QED BY <2>1 DEF Picks
<1>5. DOMAIN t = 1 .. m /\ Len(t) = m /\ \A i \in 1 .. m : t[i] = entries[p[i]] /\ p[i] \in 1 .. n
  BY <1>3, <1>4
<1>6. \A i, j \in 1 .. m : i # j => p[i] # p[j]
  BY <1>4
<1>7. ASSUME NEW i \in 1 .. m, NEW j \in 1 .. m, i # j PROVE t[i].key # t[j].key
  <2>1. p[i] \in 1 .. n /\ p[j] \in 1 .. n /\ p[i] # p[j]
    BY <1>5, <1>6, <1>7
  <2>2. entries[p[i]].key # entries[p[j]].key
    BY <2>1
  <2> QED BY <1>5, <2>2
<1>8. \A i \in 1 .. m : t[i].key \in KeysOf(entries) /\ t[i].score = value[t[i].key]
  BY <1>5 DEF KeysOf
<1>9. ASSUME NEW x \in KeysOf(entries) \ KeysOf(t)
      PROVE  m = k /\ \A i \in 1 .. m : t[i].score >= value[x]
  <2>1. PICK e \in 1 .. n : x = entries[e].key
    BY DEF KeysOf
  <2>2. ASSUME NEW i \in 1 .. m PROVE p[i] # e
    <3>1. t[i].key \in KeysOf(t) /\ t[i] = entries[p[i]]
      BY <1>5 DEF KeysOf
    <3> QED BY <1>9, <2>1, <3>1
  <2>3. m = k
    <3>1. SUFFICES ASSUME m = n PROVE FALSE
      BY <1>2
    <3>2. p \in Injection(1 .. n, 1 .. n) /\ IsFiniteSet(1 .. n)
      BY <1>4, <1>6, <3>1, IntervalFinite DEF Injection, IsInjective
    <3>3. p \in Surjection(1 .. n, 1 .. n)
      BY <3>2, FS_Injection
    <3> QED BY <2>2, <3>1, <3>3 DEF Surjection
  <2> QED BY <1>4, <1>5, <2>1, <2>2, <2>3
<1>10. TopOf(t, KeysOf(entries), value)
  <2>1. Len(t) \in 0 .. IndexTopK
    BY <1>1, <1>2, <1>5
  <2>2. \A x \in KeysOf(entries) \ KeysOf(t) :
          Len(t) = IndexTopK /\ \A i \in 1 .. Len(t) : t[i].score >= value[x]
    BY <1>1, <1>5, <1>9
  <2> QED BY ONLY <1>5, <1>7, <1>8, <2>1, <2>2, Zenon DEF TopOf
<1>11. t = [i \in 1 .. Len(t) |-> t[i]]
  <2>1. DOMAIN p = 1 .. m
    BY <1>4
  <2> QED BY <1>3, <1>5, <2>1
<1> QED BY <1>5, <1>10, <1>11

LEMMA TopOfSame ==
  ASSUME NEW held, NEW scored, NEW value, NEW other, TopOf(held, scored, value),
         \A x \in scored : value[x] = other[x]
  PROVE  TopOf(held, scored, other)
BY DEF TopOf

\* One list after the other.
LEMMA JoinedList ==
  ASSUME NEW a, NEW b, NEW m \in Nat, NEW n \in Nat, Len(a) = m, DOMAIN a = 1 .. m,
         a = [i \in 1 .. m |-> a[i]], Len(b) = n, b = [i \in 1 .. n |-> b[i]]
  PROVE  /\ Len(a \o b) = m + n /\ DOMAIN (a \o b) = 1 .. m + n
         /\ \A i \in 1 .. m : (a \o b)[i] = a[i]
         /\ \A i \in 1 .. n : (a \o b)[m + i] = b[i]
<1>1. PICK X : X = {a[i] : i \in 1 .. m} \cup {b[i] : i \in 1 .. n}
  OBVIOUS
<1>2. a \in [1 .. m -> X] /\ b \in [1 .. n -> X]
  BY ONLY <1>1, a = [i \in 1 .. m |-> a[i]], b = [i \in 1 .. n |-> b[i]]
<1>3. a \in Seq(X) /\ b \in Seq(X)
  <2>1. m \in Nat /\ n \in Nat
    OBVIOUS
  <2> QED BY ONLY <1>2, <2>1
<1>4. PICK c \in Seq(X) : /\ c = a \o b /\ Len(c) = m + n
                          /\ \A i \in 1 .. m : c[i] = a[i]
                          /\ \A i \in 1 .. n : c[m + i] = b[i]
  <2>1. /\ a \o b \in Seq(X) /\ Len(a \o b) = Len(a) + Len(b)
        /\ \A i \in 1 .. Len(a) : (a \o b)[i] = a[i]
        /\ \A i \in 1 .. Len(b) : (a \o b)[Len(a) + i] = b[i]
    BY ONLY <1>3, ConcatPieces, ConcatElements
  <2>2. Len(a) = m /\ Len(b) = n
    OBVIOUS
  <2> QED BY ONLY <2>1, <2>2
<1>5. DOMAIN c = 1 .. m + n
  BY <1>4
<1> QED BY ONLY <1>4, <1>5, Zenon

-----------------------------------------------------------------------------
(* The invariant                                                           *)

NumChunks == Len(input.positions)

\* The entries of the chunks before c and the first n of c.
UpTo(c, n) == {k \in Keys : k[1] < c \/ (k[1] = c /\ k[2] <= n)}

Value(q, given) == [k \in DOMAIN given |-> Masked(Allowed(q, k), given[k])]

\* An entry as Candidates makes it, its index counted over all chunks.
Made(q, given, at, k) ==
  [score |-> Masked(Allowed(q, k), given[k]), valid |-> Allowed(q, k),
   index |-> at[k[1]] + k[2] - 1, key |-> k]

ListOK(held, q, given, at) ==
  /\ held = [i \in 1 .. Len(held) |-> held[i]]
  /\ TopOf(held, DOMAIN given, Value(q, given))
  /\ \A i \in 1 .. Len(held) : held[i] = Made(q, given, at, held[i].key)

Scored(given, keys) == DOMAIN given = keys /\ \A k \in keys : given[k] \in Scores

\* The valid entries of the list that are in the chunks before c.
Found(held, c) ==
  {[rank |-> r, key |-> held[r].key] :
     r \in {n \in 1 .. Len(held) : held[n].valid /\ held[n].key[1] < c}}

\* AttendsExact, of one query.
AttendsAt(q, reads, given, sunk) ==
  LET read == {a.key : a \in reads}
  IN  /\ read \subseteq Causal(q)
      /\ Cardinality(reads) = Min({IndexTopK, Cardinality(Causal(q))})
      /\ Cardinality(read) = Cardinality(reads)
      /\ \A a \in read, k \in Causal(q) \ read : given[a] >= given[k]
      /\ sunk <=> Causal(q) = {}

Covered == IF phase = "score" THEN UpTo(chunkAt, sub) ELSE Keys

CursorOK ==
  /\ input \in Inputs /\ phase \in {"score", "gather"} /\ start \in Nat /\ sub \in Nat
  /\ chunkAt \in 1 .. NumChunks + 1

StartsOK ==
  /\ starts \in Seq(Nat) /\ Len(starts) = (IF phase = "score" THEN chunkAt ELSE NumChunks + 1)
  /\ starts[1] = 0 /\ \A c \in 1 .. Len(starts) - 1 : starts[c + 1] = starts[c] + Width(c)
  /\ offset = starts[chunkAt]

BlockOK ==
  \A q \in Block :
    /\ Scored(scores[q], Covered) /\ ListOK(best[q], q, scores[q], starts)
    /\ attended[q] = IF phase = "score" THEN {} ELSE Found(best[q], chunkAt)

LaterOK ==
  \A q \in Queries : q > start =>
    /\ q \notin sink
    /\ q \notin Block => scores[q] = <<>> /\ best[q] = <<>> /\ attended[q] = {}

DoneOK == \A q \in Queries : q <= start => AttendsAt(q, attended[q], scores[q], q \in sink)

IndexerInv == CursorOK /\ StartsOK /\ BlockOK /\ LaterOK /\ DoneOK

LEMMA CallIs ==
  ASSUME CursorOK
  PROVE  /\ NumChunks \in Nat /\ Chunks = 1 .. NumChunks
         /\ Queries \subseteq Nat \ {0} /\ Block \subseteq Queries
         /\ \A q \in Queries : input.queries[q] \in Nat
         /\ \A c \in Chunks : Width(c) \in Nat
         /\ \A k : k \in Keys <=> k = <<k[1], k[2]>> /\ k[1] \in Chunks /\ k[2] \in 1 .. Width(k[1])
         /\ \A k \in Keys : input.positions[k[1]][k[2]] \in Nat
<1>1. input.positions \in Seq(Seq(Nat)) /\ input.queries \in Seq(Nat)
  BY InputsAssumption DEF CursorOK
<1>2. NumChunks \in Nat /\ Chunks = 1 .. NumChunks /\ Queries = 1 .. Len(input.queries)
      /\ Len(input.queries) \in Nat
  BY <1>1 DEF NumChunks, Chunks, Queries
<1>3. \A c \in Chunks : input.positions[c] \in Seq(Nat)
  BY <1>1 DEF Chunks
<1>4. \A c \in Chunks : Width(c) \in Nat /\ DOMAIN input.positions[c] = 1 .. Width(c)
  BY <1>3 DEF Width
<1>5. \A q \in Queries : input.queries[q] \in Nat
  BY <1>1 DEF Queries
<1>6. ASSUME NEW k
      PROVE  k \in Keys <=> k = <<k[1], k[2]>> /\ k[1] \in Chunks /\ k[2] \in 1 .. Width(k[1])
  <2>1. ASSUME k \in Keys PROVE k = <<k[1], k[2]>> /\ k[1] \in Chunks /\ k[2] \in 1 .. Width(k[1])
    <3>1. k \in Chunks \X UNION {1 .. Width(c) : c \in Chunks} /\ k[2] <= Width(k[1])
      BY <2>1 DEF Keys
    <3>2. k = <<k[1], k[2]>> /\ k[1] \in Chunks /\ k[2] \in UNION {1 .. Width(c) : c \in Chunks}
      BY <3>1
    <3>3. PICK c \in Chunks : k[2] \in 1 .. Width(c)
      BY <3>2
    <3> QED BY <1>4, <3>1, <3>2, <3>3
  <2>2. ASSUME k = <<k[1], k[2]>>, k[1] \in Chunks, k[2] \in 1 .. Width(k[1]) PROVE k \in Keys
    <3>1. k[2] \in UNION {1 .. Width(c) : c \in Chunks}
      BY <2>2
    <3>2. k \in Chunks \X UNION {1 .. Width(c) : c \in Chunks}
      <4>1. <<k[1], k[2]>> \in Chunks \X UNION {1 .. Width(c) : c \in Chunks}
        BY <2>2, <3>1
      <4> QED BY <2>2, <4>1
    <3>3. k[2] <= Width(k[1])
      BY <1>4, <2>2
    <3> QED BY <3>2, <3>3 DEF Keys
  <2> QED BY <2>1, <2>2
<1>7. ASSUME NEW k \in Keys PROVE input.positions[k[1]][k[2]] \in Nat
  <2>1. k[1] \in Chunks /\ k[2] \in 1 .. Width(k[1])
    BY <1>6
  <2> QED BY <1>3, <1>4, <2>1
<1>8. Block \subseteq Queries
  BY DEF Block
<1> QED BY <1>2, <1>4, <1>5, <1>6, <1>7, <1>8

LEMMA StartsGrow ==
  ASSUME CursorOK, StartsOK
  PROVE  /\ \A c \in 1 .. Len(starts) : starts[c] \in Nat
         /\ \A c, d \in 1 .. Len(starts) : c < d => starts[c] + Width(c) <= starts[d]
<1>1. PICK n \in Nat : n = Len(starts) /\ n \in 1 .. NumChunks + 1
  BY CallIs DEF StartsOK, CursorOK
<1>2. /\ \A c \in 1 .. n : starts[c] \in Nat
      /\ \A c \in 1 .. n - 1 : starts[c + 1] = starts[c] + Width(c) /\ Width(c) \in Nat
  BY <1>1, CallIs DEF StartsOK
<1>3. ASSUME NEW c \in 1 .. n PROVE \A d \in 1 .. n : c < d => starts[c] + Width(c) <= starts[d]
  <2>1. PICK T : T = {m \in Nat : c + 1 + m <= n => starts[c] + Width(c) <= starts[c + 1 + m]}
    OBVIOUS
  <2>2. 0 \in T
    BY <1>2, <2>1
  <2>3. ASSUME NEW m \in Nat, m \in T PROVE m + 1 \in T
    <3>1. SUFFICES ASSUME c + 1 + (m + 1) <= n PROVE starts[c] + Width(c) <= starts[c + 1 + (m + 1)]
      BY <2>1
    <3>2. PICK e \in 1 .. n - 1 : e = c + 1 + m
      BY <3>1
    <3>3. starts[c] + Width(c) <= starts[e]
      BY <2>1, <2>3, <3>2
    <3>4. starts[e + 1] = starts[e] + Width(e) /\ Width(e) \in Nat /\ starts[e] \in Nat
          /\ starts[c] \in Nat /\ c \in 1 .. n - 1
      BY <1>2, <3>2
    <3>5. c + 1 + (m + 1) = e + 1
      BY <3>2
    <3>6. Width(c) \in Nat
      BY <1>2, <3>4
    <3>7. starts[c] + Width(c) <= starts[e + 1]
      BY ONLY <3>3, <3>4, <3>6
    <3> QED BY <3>5, <3>7
  <2>4. Nat \subseteq T
    BY <2>2, <2>3, Induction
  <2>5. ASSUME NEW d \in 1 .. n, c < d PROVE starts[c] + Width(c) <= starts[d]
    <3>1. PICK m \in Nat : d = c + 1 + m
      <4>1. d - (c + 1) \in Nat /\ d = c + 1 + (d - (c + 1))
        BY <2>5
      <4> QED BY ONLY <4>1
    <3>2. c + 1 + m <= n => starts[c] + Width(c) <= starts[c + 1 + m]
      BY ONLY <2>1, <2>4, m \in Nat
    <3>3. d <= n
      BY <2>5
    <3> QED BY ONLY <3>1, <3>2, <3>3
  <2> QED BY <2>5
<1> QED BY <1>1, <1>2, <1>3

-----------------------------------------------------------------------------
(* Scoring a sub-chunk                                                     *)


LEMMA SubChunkIs ==
  ASSUME CursorOK, chunkAt \in Chunks, sub < Width(chunkAt)
  PROVE  /\ Cardinality(SubChunk) \in Nat
         /\ SubChunk = {<<chunkAt, sub + i>> : i \in 1 .. Cardinality(SubChunk)}
         /\ UpTo(chunkAt, sub + CandidateChunk) = UpTo(chunkAt, sub) \cup SubChunk
         /\ SubChunk \cap UpTo(chunkAt, sub) = {}
<1>1. Width(chunkAt) \in Nat /\ sub \in Nat /\ CandidateChunk \in Nat \ {0}
  BY CallIs, IndexerAssumption DEF CursorOK
<1>2. PICK w \in Nat : w = Width(chunkAt)
  BY <1>1
<1>3. PICK hi \in Nat : /\ hi = Min({sub + CandidateChunk, w})
                        /\ hi = IF sub + CandidateChunk <= w THEN sub + CandidateChunk ELSE w
  BY <1>1, <1>2, MinIs
<1>4. PICK n \in Nat : n = hi - sub
  BY <1>1, <1>2, <1>3
<1>5. PICK S : S = SubChunk
  OBVIOUS
<1>6. S = {<<chunkAt, j>> : j \in sub + 1 .. hi}
  BY <1>2, <1>3, <1>5 DEF SubChunk
<1>7. S = {<<chunkAt, sub + i>> : i \in 1 .. n}
  <2>1. \A j \in sub + 1 .. hi : j - sub \in 1 .. n /\ j = sub + (j - sub)
    BY <1>1, <1>3, <1>4
  <2>2. \A i \in 1 .. n : sub + i \in sub + 1 .. hi
    BY <1>1, <1>3, <1>4
  <2>3. ASSUME NEW k \in S PROVE \E i \in 1 .. n : k = <<chunkAt, sub + i>>
    <3>1. PICK j \in sub + 1 .. hi : k = <<chunkAt, j>>
      BY <1>6
    <3>2. PICK i \in 1 .. n : j = sub + i
      BY <2>1
    <3> QED BY <3>1, <3>2
  <2>4. ASSUME NEW i \in 1 .. n PROVE <<chunkAt, sub + i>> \in S
    BY <1>6, <2>2
  <2> QED BY <2>3, <2>4
<1>8. Cardinality(S) = n
  <2>1. PICK f : f = [i \in 1 .. n |-> <<chunkAt, sub + i>>]
    OBVIOUS
  <2>2. f \in [1 .. n -> S] /\ \A k \in S : \E i \in 1 .. n : f[i] = k
    BY ONLY <1>7, <2>1
  <2>3. ASSUME NEW i \in 1 .. n, NEW j \in 1 .. n, f[i] = f[j] PROVE i = j
    <3>1. sub + i = sub + j
      BY <2>1, <2>3
    <3> QED BY ONLY <1>1, <3>1, i \in 1 .. n, j \in 1 .. n
  <2>4. IsFiniteSet(1 .. n) /\ Cardinality(1 .. n) = n
    BY FS_Interval
  <2> QED BY ONLY <2>2, <2>3, <2>4, SameSize
<1>9. ASSUME NEW k PROVE k \in UpTo(chunkAt, sub + CandidateChunk) <=> k \in UpTo(chunkAt, sub) \cup S
  <2>1. chunkAt \in Int /\ \A c \in Chunks : c \in Int
    BY CallIs
  <2>2. k \in S <=> k = <<k[1], k[2]>> /\ k[1] = chunkAt /\ k[2] \in sub + 1 .. hi
    BY <1>6
  <2>3. k \in Keys <=> k = <<k[1], k[2]>> /\ k[1] \in Chunks /\ k[2] \in 1 .. Width(k[1])
    BY CallIs
  <2>4. CASE k[1] = chunkAt
    <3>1. k \in Keys <=> k = <<k[1], k[2]>> /\ k[2] \in 1 .. w
      BY <1>2, <2>3, <2>4
    <3>2. /\ k \in UpTo(chunkAt, sub + CandidateChunk) <=> k \in Keys /\ k[2] <= sub + CandidateChunk
          /\ k \in UpTo(chunkAt, sub) <=> k \in Keys /\ k[2] <= sub
      BY <2>1, <2>4 DEF UpTo
    <3>3. k[2] \in 1 .. w => (k[2] <= sub + CandidateChunk <=> k[2] <= sub \/ k[2] \in sub + 1 .. hi)
      BY <1>1, <1>3
    <3>4. k[2] \in sub + 1 .. hi => k[2] \in 1 .. w
      BY <1>1, <1>3
    <3> QED BY <2>2, <2>4, <3>1, <3>2, <3>3, <3>4
  <2>5. CASE k[1] # chunkAt
    BY <2>2, <2>5 DEF UpTo
  <2> QED BY <2>4, <2>5
<1>10. S \cap UpTo(chunkAt, sub) = {}
  <2>1. SUFFICES ASSUME NEW k \in S, k \in UpTo(chunkAt, sub) PROVE FALSE
    OBVIOUS
  <2>2. PICK j \in sub + 1 .. hi : k = <<chunkAt, j>>
    BY <1>6
  <2>3. k[1] = chunkAt /\ k[2] = j /\ chunkAt \in Int
    BY <2>2, CallIs
  <2>4. j <= sub
    BY <2>1, <2>3 DEF UpTo
  <2> QED BY <1>1, <1>3, <2>4
<1> QED BY <1>5, <1>7, <1>8, <1>9, <1>10

LEMMA CandidatesAre ==
  ASSUME CursorOK, StartsOK, phase = "score", chunkAt \in Chunks, sub < Width(chunkAt),
         NEW q, NEW given, given[q] \in [SubChunk -> Scores]
  PROVE  LET n == Cardinality(SubChunk)
             c == Candidates(q, given)
         IN  /\ Len(c) = n /\ DOMAIN c = 1 .. n /\ c = [i \in 1 .. n |-> c[i]]
             /\ \A i \in 1 .. n : /\ c[i].key = <<chunkAt, sub + i>>
                                  /\ c[i] = Made(q, given[q], starts, c[i].key)
                                  /\ c[i].score = Value(q, given[q])[c[i].key]
                                  /\ c[i].score \in Int
             /\ KeysOf(c) = SubChunk
             /\ \A i, j \in 1 .. n : i # j => c[i].key # c[j].key
<1>1. PICK n \in Nat : n = Cardinality(SubChunk)
  BY SubChunkIs
<1>2. SubChunk = {<<chunkAt, sub + i>> : i \in 1 .. n}
  BY <1>1, SubChunkIs
<1>3. PICK c : /\ c = Candidates(q, given)
               /\ c = [i \in 1 .. n |-> [score |-> Masked(Allowed(q, <<chunkAt, sub + i>>),
                                                            given[q][<<chunkAt, sub + i>>]),
                                         valid |-> Allowed(q, <<chunkAt, sub + i>>),
                                         index |-> offset + sub + i - 1, key |-> <<chunkAt, sub + i>>]]
  BY <1>1 DEF Candidates
<1>4. Len(c) = n /\ DOMAIN c = 1 .. n /\ c = [i \in 1 .. n |-> c[i]]
  <2>1. DOMAIN c = 1 .. n
    BY <1>3
  <2>2. c = [i \in 1 .. n |-> c[i]]
    BY ONLY <1>3
  <2> QED BY <2>1, <2>2
<1>5. offset = starts[chunkAt] /\ offset \in Int /\ sub \in Nat
  <2>1. chunkAt \in 1 .. Len(starts)
    BY CallIs DEF StartsOK, CursorOK
  <2> QED BY <2>1, StartsGrow DEF StartsOK, CursorOK
<1>6. ASSUME NEW i \in 1 .. n
      PROVE  /\ c[i].key = <<chunkAt, sub + i>> /\ c[i].key \in SubChunk
             /\ c[i] = Made(q, given[q], starts, c[i].key)
             /\ c[i].score = Value(q, given[q])[c[i].key] /\ c[i].score \in Int
  <2>1. PICK k : k = <<chunkAt, sub + i>>
    OBVIOUS
  <2>2. k \in SubChunk /\ k[1] = chunkAt /\ k[2] = sub + i
    BY <1>2, <2>1
  <2>3. c[i] = [score |-> Masked(Allowed(q, k), given[q][k]), valid |-> Allowed(q, k),
                index |-> offset + sub + i - 1, key |-> k]
    BY <1>3, <2>1, Zenon
  <2>4. offset + sub + i - 1 = starts[k[1]] + k[2] - 1
    BY <1>5, <2>2
  <2>5. c[i] = Made(q, given[q], starts, k)
    BY <2>3, <2>4, Zenon DEF Made
  <2>6. c[i].key = k /\ c[i].score = Masked(Allowed(q, k), given[q][k])
    <3>1. PICK r, x, a, d : /\ x = Masked(Allowed(q, k), given[q][k]) /\ r = c[i]
                            /\ r = [score |-> x, valid |-> a, index |-> d, key |-> k]
      BY <2>3, Zenon
    <3>2. r.key = k /\ r.score = x
      BY ONLY <3>1
    <3> QED BY <3>1, <3>2
  <2>7. given[q][k] \in Scores /\ DOMAIN given[q] = SubChunk
    BY <2>2
  <2>8. c[i].score = Value(q, given[q])[k]
    BY <2>2, <2>6, <2>7 DEF Value
  <2>9. c[i].score \in Int
    BY <2>6, <2>7, ScoresAssumption DEF Masked
  <2> QED BY <2>1, <2>2, <2>5, <2>6, <2>8, <2>9
<1>7. KeysOf(c) = SubChunk
  <2>1. \A i \in 1 .. n : c[i].key = <<chunkAt, sub + i>>
    BY <1>6
  <2> QED BY ONLY <1>2, <1>4, <2>1 DEF KeysOf
<1>8. ASSUME NEW i \in 1 .. n, NEW j \in 1 .. n, i # j PROVE c[i].key # c[j].key
  <2>1. c[i].key = <<chunkAt, sub + i>> /\ c[j].key = <<chunkAt, sub + j>>
    BY <1>6
  <2>2. sub + i # sub + j
    BY <1>5, <1>8
  <2> QED BY ONLY <2>1, <2>2
<1> QED BY <1>1, <1>3, <1>4, <1>6, <1>7, <1>8

\* What MergeCandidates does to the list of one query.
LEMMA MergeOne ==
  ASSUME CursorOK, StartsOK, phase = "score", chunkAt \in Chunks, sub < Width(chunkAt),
         NEW q, NEW given, given[q] \in [SubChunk -> Scores],
         Scored(scores[q], UpTo(chunkAt, sub)), ListOK(best[q], q, scores[q], starts),
         NEW m \in Merged(q, given),
         NEW s, s = [k \in DOMAIN scores[q] \cup SubChunk |->
                       IF k \in SubChunk THEN given[q][k] ELSE scores[q][k]]
  PROVE  Scored(s, UpTo(chunkAt, sub + CandidateChunk)) /\ ListOK(m, q, s, starts)
<1>1. PICK A, B, v, old, g :
        A = DOMAIN scores[q] /\ B = SubChunk /\ v = Value(q, s) /\ old = best[q] /\ g = given[q]
  OBVIOUS
<1>2. /\ A = UpTo(chunkAt, sub) /\ A \cap B = {} /\ A \cup B = UpTo(chunkAt, sub + CandidateChunk)
      /\ DOMAIN s = A \cup B /\ \A k \in A : s[k] = scores[q][k] /\ s[k] \in Scores
      /\ \A k \in B : s[k] = g[k] /\ s[k] \in Scores
  BY <1>1, SubChunkIs DEF Scored
<1>3. Scored(s, UpTo(chunkAt, sub + CandidateChunk))
  BY <1>2 DEF Scored
<1>4. \A k \in A \cup B : v[k] = Masked(Allowed(q, k), s[k]) /\ v[k] \in Int
  BY <1>1, <1>2, ScoresAssumption DEF Value, Masked
<1>5. Valued(v, A) /\ Valued(v, B)
  BY <1>4 DEF Valued
<1>6. TopOf(old, A, v)
  <2>1. \A k \in A : Value(q, scores[q])[k] = v[k]
    BY <1>1, <1>2, <1>4 DEF Value
  <2>2. TopOf(old, A, Value(q, scores[q]))
    BY <1>1 DEF ListOK
  <2> QED BY <2>1, <2>2, TopOfSame
<1>7. PICK local \in TopKOf(Candidates(q, given), IndexTopK) : m \in TopKOf(old \o local, IndexTopK)
  BY <1>1 DEF Merged
<1>8. PICK c : c = Candidates(q, given)
  OBVIOUS
<1>9. PICK n \in Nat : n = Cardinality(SubChunk)
  BY SubChunkIs
<1>10. /\ Len(c) = n /\ DOMAIN c = 1 .. n /\ KeysOf(c) = B
       /\ \A i, j \in 1 .. n : i # j => c[i].key # c[j].key
       /\ \A i \in 1 .. n : c[i] = Made(q, g, starts, c[i].key) /\ c[i].score \in Int
                            /\ c[i].score = Value(q, g)[c[i].key]
  BY <1>1, <1>8, <1>9, CandidatesAre
<1>11. \A i \in 1 .. n : /\ c[i].key \in B /\ c[i].score = v[c[i].key]
                         /\ c[i] = Made(q, s, starts, c[i].key)
  <2>1. ASSUME NEW i \in 1 .. n PROVE c[i].key \in B
    BY <1>10 DEF KeysOf
  <2>2. DOMAIN g = B
    BY <1>1
  <2>3. \A k \in B : Value(q, g)[k] = v[k] /\ Made(q, g, starts, k) = Made(q, s, starts, k)
    BY <1>2, <1>4, <2>2 DEF Value, Made
  <2> QED BY <1>10, <2>1, <2>3
<1>12. /\ TopOf(local, B, v) /\ local = [i \in 1 .. Len(local) |-> local[i]]
       /\ \A i \in 1 .. Len(local) : \E j \in 1 .. n : local[i] = c[j]
  <2>1. local \in TopKOf(c, IndexTopK)
    BY <1>7, <1>8
  <2>2. \A i \in 1 .. n : c[i].score = v[c[i].key] /\ c[i].score \in Int
    BY <1>10, <1>11
  <2> QED BY ONLY <1>10, <2>1, <2>2, PickedTop, n \in Nat
<1>13. PICK a \in Nat : a = Len(old)
  <2>1. Len(old) \in Nat
    BY <1>6, ListLength
  <2> QED BY ONLY <2>1
<1>14. PICK b \in Nat : b = Len(local)
  <2>1. Len(local) \in Nat
    BY <1>12, ListLength
  <2> QED BY ONLY <2>1
<1>15. /\ DOMAIN old = 1 .. a /\ old = [i \in 1 .. a |-> old[i]]
       /\ \A i \in 1 .. a : /\ old[i].key \in A /\ old[i].score = v[old[i].key]
                            /\ old[i] = Made(q, scores[q], starts, old[i].key)
       /\ \A i, j \in 1 .. a : i # j => old[i].key # old[j].key
  BY <1>1, <1>6, <1>13 DEF TopOf, ListOK
<1>16. \A i \in 1 .. a : old[i] = Made(q, s, starts, old[i].key)
  BY <1>2, <1>15 DEF Made
<1>17. /\ DOMAIN local = 1 .. b /\ local = [i \in 1 .. b |-> local[i]]
       /\ \A i \in 1 .. b : /\ local[i].key \in B /\ local[i].score = v[local[i].key]
                            /\ local[i] = Made(q, s, starts, local[i].key)
       /\ \A i, j \in 1 .. b : i # j => local[i].key # local[j].key
  <2>1. DOMAIN local = 1 .. b /\ local = [i \in 1 .. b |-> local[i]]
    <3>1. DOMAIN local = 1 .. Len(local)
      BY <1>12, ListLength
    <3> QED BY <1>12, <1>14, <3>1
  <2>2. /\ \A i \in 1 .. b : local[i].key \in B /\ local[i].score = v[local[i].key]
        /\ \A i, j \in 1 .. b : i # j => local[i].key # local[j].key
    BY <1>12, <1>14 DEF TopOf
  <2>3. \A i \in 1 .. b : local[i] = Made(q, s, starts, local[i].key)
    BY <1>11, <1>12, <1>14
  <2> QED BY ONLY <2>1, <2>2, <2>3, Zenon
<1>18. PICK e : e = old \o local
  OBVIOUS
<1>19. /\ Len(e) = a + b /\ DOMAIN e = 1 .. a + b
       /\ \A i \in 1 .. a : e[i] = old[i]
       /\ \A i \in 1 .. b : e[a + i] = local[i]
  BY ONLY <1>18, <1>13, <1>14, <1>15, <1>17, JoinedList, a \in Nat, b \in Nat
<1>20. ASSUME NEW i \in 1 .. a + b
       PROVE  \/ i \in 1 .. a /\ e[i] = old[i]
              \/ i \notin 1 .. a /\ \E j \in 1 .. b : i = a + j /\ e[i] = local[j]
  <2>1. CASE i \in 1 .. a
    BY <1>19, <2>1
  <2>2. CASE i \notin 1 .. a
    <3>1. PICK j \in 1 .. b : i = a + j
      <4>1. i - a \in 1 .. b /\ i = a + (i - a)
        BY <2>2
      <4> QED BY ONLY <4>1
    <3> QED BY <1>19, <2>2, <3>1
  <2> QED BY <2>1, <2>2
<1>21. ASSUME NEW i \in 1 .. a + b
       PROVE  /\ e[i].score = v[e[i].key] /\ e[i].score \in Int
              /\ e[i] = Made(q, s, starts, e[i].key)
  <2>1. e[i].score = v[e[i].key] /\ e[i] = Made(q, s, starts, e[i].key) /\ e[i].key \in A \cup B
    <3>1. CASE i \in 1 .. a /\ e[i] = old[i]
      BY <1>15, <1>16, <3>1
    <3>2. CASE \E j \in 1 .. b : e[i] = local[j]
      BY <1>17, <3>2
    <3> QED BY <1>20, <3>1, <3>2
  <2> QED BY <1>4, <2>1
<1>22. ASSUME NEW i \in 1 .. a + b, NEW j \in 1 .. a + b, i # j PROVE e[i].key # e[j].key
  <2>1. CASE i \in 1 .. a /\ j \in 1 .. a
    BY <1>15, <1>19, <1>22, <2>1
  <2>2. CASE i \in 1 .. a /\ j \notin 1 .. a
    <3>1. e[i].key \in A /\ e[j].key \in B
      BY <1>15, <1>17, <1>20, <2>2
    <3> QED BY <1>2, <3>1
  <2>3. CASE i \notin 1 .. a /\ j \in 1 .. a
    <3>1. e[i].key \in B /\ e[j].key \in A
      BY <1>15, <1>17, <1>20, <2>3
    <3> QED BY <1>2, <3>1
  <2>4. CASE i \notin 1 .. a /\ j \notin 1 .. a
    <3>1. PICK x \in 1 .. b, y \in 1 .. b : i = a + x /\ j = a + y /\ e[i] = local[x] /\ e[j] = local[y]
      BY <1>20, <2>4
    <3> QED BY <1>17, <1>22, <3>1
  <2> QED BY <2>1, <2>2, <2>3, <2>4
<1>23. KeysOf(e) = KeysOf(old) \cup KeysOf(local)
  <2>1. ASSUME NEW i \in 1 .. a + b PROVE e[i].key \in KeysOf(old) \cup KeysOf(local)
    BY <1>15, <1>17, <1>20 DEF KeysOf
  <2>2. ASSUME NEW i \in 1 .. a PROVE old[i].key \in KeysOf(e)
    <3>1. i \in 1 .. a + b /\ e[i] = old[i]
      BY <1>19
    <3> QED BY <1>19, <3>1 DEF KeysOf
  <2>3. ASSUME NEW i \in 1 .. b PROVE local[i].key \in KeysOf(e)
    <3>1. a + i \in 1 .. a + b /\ e[a + i] = local[i]
      BY <1>19
    <3> QED BY <1>19, <3>1 DEF KeysOf
  <2>4. KeysOf(e) \subseteq KeysOf(old) \cup KeysOf(local)
    BY <1>19, <2>1 DEF KeysOf
  <2>5. KeysOf(old) \subseteq KeysOf(e)
    BY <1>15, <2>2 DEF KeysOf
  <2>6. KeysOf(local) \subseteq KeysOf(e)
    BY <1>17, <2>3 DEF KeysOf
  <2> QED BY <2>4, <2>5, <2>6
<1>24. /\ TopOf(m, KeysOf(e), v) /\ m = [i \in 1 .. Len(m) |-> m[i]]
       /\ \A i \in 1 .. Len(m) : \E j \in 1 .. a + b : m[i] = e[j]
  <2>1. m \in TopKOf(e, IndexTopK)
    BY <1>18, <1>7
  <2>2. \A i, j \in 1 .. a + b : i # j => e[i].key # e[j].key
    BY <1>22
  <2>3. \A i \in 1 .. a + b : e[i].score = v[e[i].key] /\ e[i].score \in Int
    BY <1>21
  <2>4. PICK l \in Nat : l = a + b
    OBVIOUS
  <2>5. Len(e) = l /\ DOMAIN e = 1 .. l
    BY <1>19, <2>4
  <2>6. /\ TopOf(m, KeysOf(e), v) /\ m = [i \in 1 .. Len(m) |-> m[i]]
        /\ \A i \in 1 .. Len(m) : \E j \in 1 .. l : m[i] = e[j]
    <3>1. \A i, j \in 1 .. l : i # j => e[i].key # e[j].key
      BY ONLY <2>2, <2>4
    <3>2. \A i \in 1 .. l : e[i].score = v[e[i].key] /\ e[i].score \in Int
      BY ONLY <2>3, <2>4
    <3>3. l \in Nat
      OBVIOUS
    <3> QED BY ONLY <2>1, <2>5, <3>1, <3>2, <3>3, PickedTop
  <2> QED BY <2>4, <2>6
<1>25. TopOf(m, A \cup B, v)
  BY <1>5, <1>6, <1>12, <1>23, <1>24, MergedTop
<1>26. \A i \in 1 .. Len(m) : m[i] = Made(q, s, starts, m[i].key)
  BY <1>21, <1>24
<1>27. ListOK(m, q, s, starts)
  <2>1. TopOf(m, DOMAIN s, Value(q, s))
    BY <1>1, <1>2, <1>25
  <2> QED BY <1>24, <1>26, <2>1 DEF ListOK
<1> QED BY <1>3, <1>27

-----------------------------------------------------------------------------
(* Gathering                                                               *)

\* The indices of the list that fall into a chunk are those of its entries.
LEMMA GatherOne ==
  ASSUME CursorOK, StartsOK, phase = "gather", chunkAt \in Chunks, NEW q,
         Scored(scores[q], Keys), ListOK(best[q], q, scores[q], starts)
  PROVE  Found(best[q], chunkAt) \cup InChunk(q) = Found(best[q], chunkAt + 1)
<1>1. PICK h, n : h = best[q] /\ n = Len(h)
  OBVIOUS
<1>2. n \in Nat /\ DOMAIN h = 1 .. n
  <2>1. TopOf(h, DOMAIN scores[q], Value(q, scores[q]))
    BY <1>1 DEF ListOK
  <2> QED BY <1>1, <2>1, ListLength
<1>3. \A r \in 1 .. n : h[r].key \in Keys /\ h[r] = Made(q, scores[q], starts, h[r].key)
  BY <1>1 DEF ListOK, TopOf, Scored
<1>4. /\ chunkAt \in 1 .. Len(starts) /\ Width(chunkAt) \in Nat /\ offset = starts[chunkAt]
      /\ offset \in Nat /\ Chunks \subseteq 1 .. Len(starts)
  <2>1. Len(starts) = NumChunks + 1 /\ NumChunks \in Nat /\ Chunks = 1 .. NumChunks
    BY CallIs DEF StartsOK
  <2>2. chunkAt \in 1 .. Len(starts) /\ Chunks \subseteq 1 .. Len(starts)
    BY <2>1
  <2> QED BY <2>2, CallIs, StartsGrow DEF StartsOK
<1>5. ASSUME NEW r \in 1 .. n
      PROVE  /\ offset <= h[r].index /\ h[r].index < offset + Width(chunkAt) <=> h[r].key[1] = chunkAt
             /\ h[r].key[1] = chunkAt => <<chunkAt, h[r].index - offset + 1>> = h[r].key
             /\ h[r].key[1] \in Int
  <2>1. PICK k : k = h[r].key
    OBVIOUS
  <2>2. k = <<k[1], k[2]>> /\ k[1] \in Chunks /\ k[2] \in 1 .. Width(k[1])
    BY <1>3, <2>1, CallIs
  <2>3. h[r].index = starts[k[1]] + k[2] - 1
    <3>1. PICK x, a, d : /\ d = starts[k[1]] + k[2] - 1
                         /\ h[r] = [score |-> x, valid |-> a, index |-> d, key |-> k]
      BY <1>3, <2>1, Zenon DEF Made
    <3> QED BY <3>1
  <2>4. k[1] \in 1 .. Len(starts) /\ starts[k[1]] \in Nat /\ Width(k[1]) \in Nat /\ k[2] \in Nat
    BY <1>4, <2>2, CallIs, StartsGrow
  <2>5. PICK i : i = h[r].index
    OBVIOUS
  <2>6. PICK c \in 1 .. Len(starts), j \in Nat, s \in Nat, w \in Nat :
          c = k[1] /\ j = k[2] /\ s = starts[k[1]] /\ w = Width(k[1])
    BY <2>4
  <2>7. j \in 1 .. w /\ i = s + j - 1
    BY <2>5, <2>2, <2>3, <2>6
  <2>8. c \in Int /\ chunkAt \in Int
    BY <1>4, <2>6
  <2>9. CASE c = chunkAt
    <3>1. s = offset /\ w = Width(chunkAt)
      BY <1>4, <2>6, <2>9
    <3>2. offset <= i /\ i < offset + Width(chunkAt) /\ i - offset + 1 = j
      BY ONLY <1>4, <2>7, <3>1, s \in Nat, w \in Nat, j \in Nat
    <3> QED BY <2>5, <2>1, <2>2, <2>6, <2>8, <2>9, <3>2
  <2>10. CASE c < chunkAt
    <3>1. s + w <= offset
      BY <1>4, <2>6, <2>10, StartsGrow
    <3>2. ~ (offset <= i)
      BY ONLY <1>4, <2>7, <3>1, s \in Nat, w \in Nat, j \in Nat
    <3> QED BY <2>5, <2>1, <2>6, <2>8, <2>10, <3>2
  <2>11. CASE c > chunkAt
    <3>1. offset + Width(chunkAt) <= s
      BY <1>4, <2>6, <2>11, StartsGrow
    <3>2. ~ (i < offset + Width(chunkAt))
      BY ONLY <1>4, <2>7, <3>1, s \in Nat, w \in Nat, j \in Nat
    <3> QED BY <2>5, <2>1, <2>6, <2>8, <2>11, <3>2
  <2> QED BY <2>8, <2>9, <2>10, <2>11
<1>6. InChunk(q) = {[rank |-> r, key |-> h[r].key] : r \in {i \in 1 .. n : h[i].valid /\ h[i].key[1] = chunkAt}}
  <2>1. PICK R : R = {i \in 1 .. n : h[i].valid /\ h[i].key[1] = chunkAt}
    OBVIOUS
  <2>2. R = {i \in 1 .. n : h[i].valid /\ offset <= h[i].index /\ h[i].index < offset + Width(chunkAt)}
    BY <1>5, <2>1
  <2>3. \A r \in R : <<chunkAt, h[r].index - offset + 1>> = h[r].key
    BY <1>5, <2>1
  <2>4. InChunk(q) = {[rank |-> r, key |-> <<chunkAt, h[r].index - offset + 1>>] : r \in R}
    BY <1>1, <1>2, <2>2, Zenon DEF InChunk
  <2>5. InChunk(q) = {[rank |-> r, key |-> h[r].key] : r \in R}
    BY ONLY <2>3, <2>4
  <2> QED BY <2>1, <2>5
<1>7. \A r \in 1 .. n : h[r].key[1] < chunkAt + 1 <=> h[r].key[1] < chunkAt \/ h[r].key[1] = chunkAt
  BY <1>4, <1>5
<1>8. PICK F, G, H : /\ F = {i \in 1 .. n : h[i].valid /\ h[i].key[1] < chunkAt}
                     /\ G = {i \in 1 .. n : h[i].valid /\ h[i].key[1] = chunkAt}
                     /\ H = {i \in 1 .. n : h[i].valid /\ h[i].key[1] < chunkAt + 1}
  OBVIOUS
<1>9. F \cup G = H
  BY ONLY <1>7, <1>8
<1>10. /\ Found(best[q], chunkAt) = {[rank |-> r, key |-> h[r].key] : r \in F}
       /\ Found(best[q], chunkAt + 1) = {[rank |-> r, key |-> h[r].key] : r \in H}
       /\ InChunk(q) = {[rank |-> r, key |-> h[r].key] : r \in G}
  BY <1>1, <1>6, <1>8, Zenon DEF Found
<1> QED BY ONLY <1>9, <1>10

LEMMA KeysFinite == ASSUME CursorOK, StartsOK, phase = "gather" PROVE IsFiniteSet(Keys)
<1>1. PICK n \in Nat : n = NumChunks /\ Chunks = 1 .. n /\ Len(starts) = n + 1
  BY CallIs DEF StartsOK
<1>2. PICK m \in Nat : m = starts[n + 1]
  BY <1>1, StartsGrow
<1>3. ASSUME NEW k \in Keys PROVE k \in (1 .. n) \X (1 .. m)
  <2>1. k = <<k[1], k[2]>> /\ k[1] \in 1 .. n /\ k[2] \in 1 .. Width(k[1]) /\ Width(k[1]) \in Nat
    BY <1>1, CallIs
  <2>2. starts[k[1]] \in Nat /\ starts[k[1]] + Width(k[1]) <= m
    BY <1>1, <1>2, <2>1, StartsGrow
  <2>3. k[2] \in 1 .. m
    BY <2>1, <2>2
  <2>4. <<k[1], k[2]>> \in (1 .. n) \X (1 .. m)
    BY <2>1, <2>3
  <2> QED BY <2>1, <2>4
<1>4. IsFiniteSet((1 .. n) \X (1 .. m))
  <2>1. IsFiniteSet(1 .. n) /\ IsFiniteSet(1 .. m)
    BY IntervalFinite
  <2> QED BY ONLY <2>1, FS_Product
<1> QED BY <1>3, <1>4, FS_Subset

\* What a query has attended to once every chunk has been gathered.
LEMMA Attended ==
  ASSUME CursorOK, StartsOK, phase = "gather", chunkAt = NumChunks + 1, NEW q,
         Scored(scores[q], Keys), ListOK(best[q], q, scores[q], starts),
         attended[q] = Found(best[q], chunkAt)
  PROVE  AttendsAt(q, attended[q], scores[q], \A r \in DOMAIN best[q] : ~ best[q][r].valid)
<1>1. PICK h, n, g, v, C : /\ h = best[q] /\ n = Len(h) /\ g = scores[q] /\ v = Value(q, g)
                           /\ C = Causal(q)
  OBVIOUS
<1>2. TopOf(h, Keys, v)
  BY <1>1 DEF ListOK, Scored
<1>3. n \in Nat /\ n <= IndexTopK /\ DOMAIN h = 1 .. n /\ IndexTopK \in Nat \ {0}
  BY <1>1, <1>2, ListLength, IndexerAssumption
<1>4. \A k \in Keys : (k \in C <=> Allowed(q, k)) /\ g[k] \in Scores /\ v[k] = Masked(Allowed(q, k), g[k])
  BY <1>1 DEF Causal, Allowed, Scored, Value
<1>5. C \subseteq Keys
  BY <1>1 DEF Causal
<1>6. ASSUME NEW r \in 1 .. n
      PROVE  /\ h[r].key \in Keys /\ h[r].score = v[h[r].key]
             /\ h[r].valid <=> h[r].key \in C
  <2>1. PICK k \in Keys : k = h[r].key /\ h[r] = Made(q, g, starts, k) /\ h[r].score = v[k]
    BY <1>1, <1>2 DEF TopOf, ListOK
  <2>2. h[r].valid <=> Allowed(q, k)
    <3>1. PICK x, a, d : /\ a = Allowed(q, k)
                         /\ h[r] = [score |-> x, valid |-> a, index |-> d, key |-> k]
      BY <2>1, Zenon DEF Made
    <3>2. h[r].valid = a
      BY ONLY <3>1
    <3> QED BY ONLY <3>1, <3>2, Zenon
  <2> QED BY <1>4, <2>1, <2>2
<1>7. PICK V : V = {r \in 1 .. n : h[r].key \in C}
  OBVIOUS
<1>8. attended[q] = {[rank |-> r, key |-> h[r].key] : r \in V}
  <2>1. \A r \in 1 .. n : h[r].key[1] < chunkAt
    BY <1>6, CallIs
  <2>2. V = {r \in 1 .. n : h[r].valid /\ h[r].key[1] < chunkAt}
    BY <1>6, <1>7, <2>1
  <2> QED BY <1>1, <2>2, Zenon DEF Found
<1>9. PICK reads, read : /\ reads = attended[q] /\ read = {a.key : a \in reads}
  OBVIOUS
<1>10. read = {h[r].key : r \in V}
  <2>1. ASSUME NEW r \in V PROVE h[r].key \in read
    <3>1. PICK x : x = [rank |-> r, key |-> h[r].key]
      OBVIOUS
    <3>2. x \in reads /\ x.key = h[r].key
      BY <1>8, <1>9, <3>1
    <3> QED BY <1>9, <3>2
  <2>2. ASSUME NEW a \in reads PROVE \E r \in V : a.key = h[r].key
    BY <1>8, <1>9
  <2> QED BY <1>9, <2>1, <2>2
<1>11. read = C \cap KeysOf(h) /\ read \subseteq C
  <2>1. KeysOf(h) = {h[r].key : r \in 1 .. n}
    BY <1>3 DEF KeysOf
  <2> QED BY ONLY <1>7, <1>10, <2>1
<1>12. IsFiniteSet(V) /\ Cardinality(V) \in Nat /\ Cardinality(V) <= n
  <2>1. IsFiniteSet(1 .. n) /\ Cardinality(1 .. n) = n
    BY <1>3, FS_Interval
  <2>2. V \subseteq 1 .. n
    BY <1>7
  <2> QED BY <2>1, <2>2, FS_Subset, FS_CardinalityType
<1>13. Cardinality(reads) = Cardinality(V)
  <2>1. PICK f : f = [r \in V |-> [rank |-> r, key |-> h[r].key]]
    OBVIOUS
  <2>2. f \in [V -> reads] /\ \A a \in reads : \E r \in V : f[r] = a
    BY ONLY <1>8, <1>9, <2>1
  <2>3. \A r, s \in V : f[r] = f[s] => r = s
    <3>1. \A r \in V : f[r].rank = r
      BY <2>1
    <3> QED BY ONLY <3>1
  <2> QED BY ONLY <1>12, <2>2, <2>3, SameSize
<1>14. Cardinality(read) = Cardinality(V)
  <2>1. PICK f : f = [r \in V |-> h[r].key]
    OBVIOUS
  <2>2. f \in [V -> read] /\ \A a \in read : \E r \in V : f[r] = a
    BY ONLY <1>10, <2>1
  <2>3. \A r, s \in V : f[r] = f[s] => r = s
    BY <1>1, <1>2, <1>7, <2>1 DEF TopOf
  <2> QED BY ONLY <1>12, <2>2, <2>3, SameSize
<1>15. IsFiniteSet(C) /\ Cardinality(C) \in Nat
  BY <1>5, KeysFinite, FS_Subset, FS_CardinalityType
<1>16. ASSUME NEW x \in C \ read
       PROVE  n = IndexTopK /\ V = 1 .. n /\ \A r \in 1 .. n : h[r].score >= g[x]
  <2>1. x \in Keys \ KeysOf(h) /\ v[x] = g[x] /\ g[x] \in Scores
    BY <1>4, <1>5, <1>11 DEF Masked
  <2>2. n = IndexTopK /\ \A r \in 1 .. n : h[r].score >= g[x]
    BY <1>1, <1>2, <2>1 DEF TopOf
  <2>3. ASSUME NEW r \in 1 .. n PROVE h[r].key \in C
    <3>1. SUFFICES ASSUME h[r].key \notin C PROVE FALSE
      OBVIOUS
    <3>2. h[r].score = NegInf
      BY <1>4, <1>6, <3>1 DEF Masked
    <3> QED BY <2>1, <2>2, <3>2, ScoresAssumption
  <2> QED BY <1>7, <2>2, <2>3
<1>17. Cardinality(reads) = Min({IndexTopK, Cardinality(C)})
  <2>1. Min({IndexTopK, Cardinality(C)}) = IF IndexTopK <= Cardinality(C) THEN IndexTopK ELSE Cardinality(C)
    BY <1>3, <1>15, MinIs
  <2>2. CASE read = C
    BY <1>3, <1>12, <1>13, <1>14, <2>1, <2>2
  <2>3. CASE read # C
    <3>1. n = IndexTopK /\ V = 1 .. n
      BY <1>11, <1>16, <2>3
    <3>2. Cardinality(V) = n
      BY <1>3, <3>1, FS_Interval
    <3>3. Cardinality(read) <= Cardinality(C)
      BY <1>11, <1>15, FS_Subset
    <3> QED BY <1>13, <1>14, <2>1, <3>1, <3>2, <3>3
  <2> QED BY <2>2, <2>3
<1>18. ASSUME NEW a \in read, NEW k \in C \ read PROVE g[a] >= g[k]
  <2>1. PICK r \in V : a = h[r].key
    BY <1>10
  <2>2. r \in 1 .. n /\ a \in C
    BY <1>7, <2>1
  <2>3. h[r].score = g[a]
    BY <1>4, <1>6, <2>1, <2>2 DEF Masked
  <2> QED BY <1>16, <2>2, <2>3
<1>19. (\A r \in 1 .. n : ~ h[r].valid) <=> C = {}
  <2>1. (\A r \in 1 .. n : ~ h[r].valid) <=> V = {}
    BY <1>6, <1>7
  <2>2. C = {} => V = {}
    BY <1>7
  <2>3. ASSUME C # {} PROVE V # {}
    <3>1. PICK x \in C : TRUE
      BY <2>3
    <3>2. CASE x \in read
      BY <1>10, <3>2
    <3>3. CASE x \notin read
      <4>1. n = IndexTopK /\ V = 1 .. n
        BY <1>16, <3>1, <3>3
      <4>2. 1 \in V
        BY <1>3, <4>1
      <4> QED BY <4>2
    <3> QED BY <3>2, <3>3
  <2> QED BY <2>1, <2>2, <2>3
<1>20. /\ read \subseteq Causal(q) /\ Cardinality(reads) = Min({IndexTopK, Cardinality(Causal(q))})
       /\ Cardinality(read) = Cardinality(reads)
       /\ \A a \in read, k \in Causal(q) \ read : scores[q][a] >= scores[q][k]
       /\ (\A r \in DOMAIN best[q] : ~ best[q][r].valid) <=> Causal(q) = {}
  BY <1>1, <1>3, <1>11, <1>13, <1>14, <1>17, <1>18, <1>19
<1> QED BY <1>9, <1>20, Zenon DEF AttendsAt

-----------------------------------------------------------------------------
(* Every step keeps the invariant                                          *)

LEMMA CallSame ==
  ASSUME UNCHANGED input
  PROVE  /\ NumChunks' = NumChunks /\ Queries' = Queries /\ Chunks' = Chunks /\ Keys' = Keys
         /\ \A c : Width(c)' = Width(c)
         /\ \A q : Causal(q)' = Causal(q)
<1>1. NumChunks' = NumChunks /\ Queries' = Queries /\ Chunks' = Chunks /\ \A c : Width(c)' = Width(c)
  BY DEF NumChunks, Queries, Chunks, Width
<1>2. Keys' = Keys
  BY DEF Keys, Chunks, Width
<1>3. \A q : Causal(q)' = Causal(q)
  BY <1>2 DEF Causal
<1> QED BY <1>1, <1>2, <1>3

LEMMA NothingScored ==
  ASSUME NEW q, NEW at
  PROVE  ListOK(<<>>, q, <<>>, at) /\ Scored(<<>>, {}) /\ \A c : Found(<<>>, c) = {}
<1>1. Len(<<>>) = 0 /\ DOMAIN <<>> = {} /\ 1 .. 0 = {}
  OBVIOUS
<1>2. <<>> = [i \in 1 .. 0 |-> <<>>[i]]
  OBVIOUS
<1>3. KeysOf(<<>>) = {}
  BY <1>1 DEF KeysOf
<1>4. \A v : TopOf(<<>>, {}, v)
  BY <1>1, <1>3, IndexerAssumption DEF TopOf
<1> QED BY <1>1, <1>2, <1>4 DEF ListOK, Scored, Found

LEMMA UpToEnds ==
  ASSUME CursorOK
  PROVE  /\ UpTo(1, 0) = {}
         /\ \A n : UpTo(NumChunks + 1, n) = Keys
         /\ chunkAt \in Chunks /\ sub >= Width(chunkAt) => UpTo(chunkAt + 1, 0) = UpTo(chunkAt, sub)
<1>1. \A k \in Keys : k[1] \in 1 .. NumChunks /\ k[2] \in 1 .. Width(k[1]) /\ Width(k[1]) \in Nat
  BY CallIs
<1>2. NumChunks \in Nat /\ sub \in Nat /\ chunkAt \in Nat
  BY CallIs DEF CursorOK
<1>3. UpTo(1, 0) = {}
  BY <1>1, <1>2 DEF UpTo
<1>4. \A n : UpTo(NumChunks + 1, n) = Keys
  BY <1>1, <1>2 DEF UpTo
<1>5. ASSUME chunkAt \in Chunks, sub >= Width(chunkAt), NEW k \in Keys
      PROVE  k \in UpTo(chunkAt + 1, 0) <=> k \in UpTo(chunkAt, sub)
  <2>1. k[1] \in Nat /\ k[2] \in Nat \ {0}
    BY <1>1, <1>2
  <2>2. k \in UpTo(chunkAt + 1, 0) <=> k[1] <= chunkAt
    BY <1>2, <2>1 DEF UpTo
  <2>3. k[1] = chunkAt => k[2] <= sub
    BY <1>1, <1>2, <1>5
  <2>4. k \in UpTo(chunkAt, sub) <=> k[1] <= chunkAt
    BY <1>2, <2>1, <2>3 DEF UpTo
  <2> QED BY <2>2, <2>4
<1>6. \A c, n : UpTo(c, n) \subseteq Keys
  BY DEF UpTo
<1> QED BY <1>3, <1>4, <1>5, <1>6

LEMMA ListOtherStarts ==
  ASSUME NEW held, NEW q, NEW given, NEW at, NEW other, ListOK(held, q, given, at),
         \A k \in DOMAIN given : at[k[1]] = other[k[1]]
  PROVE  ListOK(held, q, given, other)
<1>1. \A i \in 1 .. Len(held) : held[i].key \in DOMAIN given /\ held[i] = Made(q, given, at, held[i].key)
  BY DEF ListOK, TopOf
<1>2. \A k \in DOMAIN given : Made(q, given, at, k) = Made(q, given, other, k)
  BY DEF Made
<1>3. \A i \in 1 .. Len(held) : held[i] = Made(q, given, other, held[i].key)
  BY ONLY <1>1, <1>2
<1> QED BY <1>3 DEF ListOK

\* The invariant's parts about the queries, when the step leaves the call alone.
LEMMA BlockPrimed ==
  ASSUME UNCHANGED input,
         \A q \in Block' : /\ Scored(scores'[q], Covered') /\ ListOK(best'[q], q, scores'[q], starts')
                           /\ attended'[q] = IF phase' = "score" THEN {} ELSE Found(best'[q], chunkAt')
  PROVE  BlockOK'
<1>1. ASSUME NEW q, ListOK(best'[q], q, scores'[q], starts')
      PROVE  ListOK(best[q], q, scores[q], starts)'
  BY <1>1 DEF ListOK, Value, Made, Allowed
<1> QED BY <1>1 DEF BlockOK

LEMMA DonePrimed ==
  ASSUME UNCHANGED input, start' = start, DoneOK, start \in Nat, Queries \subseteq Nat,
         \A q \in Queries : q \notin Block => scores'[q] = scores[q] /\ attended'[q] = attended[q],
         sink' = sink
  PROVE  DoneOK'
<1>1. ASSUME NEW q \in Queries, q <= start PROVE AttendsAt(q, attended[q], scores[q], q \in sink)'
  <2>1. q \notin Block
    BY <1>1 DEF Block
  <2>2. scores'[q] = scores[q] /\ attended'[q] = attended[q] /\ Causal(q)' = Causal(q)
    BY <2>1, CallSame
  <2>3. AttendsAt(q, attended[q], scores[q], q \in sink)
    BY <1>1 DEF DoneOK
  <2> QED BY <2>2, <2>3 DEF AttendsAt
<1>2. Queries' = Queries
  BY CallSame
<1> QED BY <1>1, <1>2 DEF DoneOK

LEMMA MergeStep == ASSUME IndexerInv, MergeCandidates PROVE IndexerInv'
<1>1. /\ phase = "score" /\ phase' = "score" /\ chunkAt \in Chunks /\ sub < Width(chunkAt)
      /\ sub' = sub + CandidateChunk
      /\ UNCHANGED <<input, phase, start, chunkAt, offset, attended, sink, starts>>
  BY DEF MergeCandidates
<1>2. CursorOK /\ StartsOK /\ BlockOK /\ LaterOK /\ DoneOK
  BY DEF IndexerInv
<1>3. PICK given \in [Block -> [SubChunk -> Scores]] :
        /\ \E b \in [Block -> UNION Range([q \in Block |-> Merged(q, given)])] :
             /\ \A q \in Block : b[q] \in [p \in Block |-> Merged(p, given)][q]
             /\ best' = [q \in Queries |-> IF q \in Block THEN b[q] ELSE best[q]]
        /\ scores' = [q \in Queries |->
                        IF q \in Block
                        THEN [k \in DOMAIN scores[q] \cup SubChunk |->
                                IF k \in SubChunk THEN given[q][k] ELSE scores[q][k]]
                        ELSE scores[q]]
  BY Zenon DEF MergeCandidates
<1>4. Block \subseteq Queries /\ Block' = Block /\ Queries' = Queries
  BY <1>1, CallSame DEF Block
<1>5. /\ \A q \in Block : best'[q] \in Merged(q, given)
      /\ \A q \in Queries : q \notin Block => best'[q] = best[q] /\ scores'[q] = scores[q]
      /\ \A q \in Block : scores'[q] = [k \in DOMAIN scores[q] \cup SubChunk |->
                                          IF k \in SubChunk THEN given[q][k] ELSE scores[q][k]]
  BY <1>3, <1>4
<1>6. ASSUME NEW q \in Block
      PROVE  /\ Scored(scores'[q], UpTo(chunkAt, sub + CandidateChunk))
             /\ ListOK(best'[q], q, scores'[q], starts)
  <2>1. Scored(scores[q], UpTo(chunkAt, sub)) /\ ListOK(best[q], q, scores[q], starts)
    BY <1>1, <1>2 DEF BlockOK, Covered
  <2>2. given[q] \in [SubChunk -> Scores]
    OBVIOUS
  <2> QED BY <1>1, <1>2, <1>5, <2>1, <2>2, MergeOne
<1>7. CursorOK'
  BY <1>1, <1>2, CallSame, IndexerAssumption DEF CursorOK
<1>8. StartsOK'
  BY <1>1, <1>2, CallSame DEF StartsOK
<1>9. BlockOK'
  <2>1. Covered' = UpTo(chunkAt, sub + CandidateChunk)
    BY <1>1, CallSame DEF Covered, UpTo
  <2>2. \A q \in Block : attended'[q] = {}
    BY <1>1, <1>2 DEF BlockOK
  <2> QED BY <1>1, <1>4, <1>6, <2>1, <2>2, BlockPrimed
<1>10. LaterOK'
  BY <1>1, <1>2, <1>4, <1>5 DEF LaterOK
<1>11. DoneOK'
  <2>1. start \in Nat /\ Queries \subseteq Nat
    BY <1>2, CallIs DEF CursorOK
  <2> QED BY <1>1, <1>2, <1>5, <2>1, DonePrimed
<1> QED BY <1>7, <1>8, <1>9, <1>10, <1>11 DEF IndexerInv

LEMMA NextChunkStep == ASSUME IndexerInv, NextChunk PROVE IndexerInv'
<1>1. /\ phase = "score" /\ phase' = "score" /\ chunkAt \in Chunks /\ sub >= Width(chunkAt)
      /\ chunkAt' = chunkAt + 1 /\ sub' = 0 /\ offset' = offset + Width(chunkAt)
      /\ starts' = Append(starts, offset')
      /\ UNCHANGED <<input, start, best, attended, sink, scores>>
  BY DEF NextChunk
<1>2. CursorOK /\ StartsOK /\ BlockOK /\ LaterOK /\ DoneOK
  BY DEF IndexerInv
<1>3. Block \subseteq Queries /\ Block' = Block /\ Queries' = Queries /\ NumChunks' = NumChunks
  BY <1>1, CallSame DEF Block
<1>4. /\ NumChunks \in Nat /\ Chunks = 1 .. NumChunks /\ Width(chunkAt) \in Nat
      /\ chunkAt \in 1 .. NumChunks
  BY <1>1, <1>2, CallIs
<1>5. PICK n \in Nat, w \in Nat, o \in Nat : n = chunkAt /\ w = Width(chunkAt) /\ o = offset
  <2>1. chunkAt \in Nat /\ offset \in Nat
    <3>1. Len(starts) = chunkAt /\ offset = starts[chunkAt] /\ chunkAt \in 1 .. Len(starts)
      BY <1>1, <1>2, <1>4 DEF StartsOK
    <3> QED BY <1>2, <1>4, <3>1, StartsGrow
  <2> QED BY ONLY <1>4, <2>1
<1>6. /\ starts \in Seq(Nat) /\ Len(starts) = n /\ starts[n] = o /\ starts[1] = 0
      /\ \A c \in 1 .. n - 1 : starts[c + 1] = starts[c] + Width(c)
  BY <1>1, <1>2, <1>5 DEF StartsOK
<1>7. /\ starts' \in Seq(Nat) /\ Len(starts') = n + 1 /\ starts'[n + 1] = o + w
      /\ \A c \in 1 .. n : starts'[c] = starts[c]
  BY <1>1, <1>5, <1>6
<1>8. CursorOK'
  BY <1>1, <1>2, <1>3, <1>4 DEF CursorOK
<1>9. StartsOK'
  <2>1. starts'[1] = 0
    BY <1>4, <1>5, <1>6, <1>7
  <2>2. ASSUME NEW c \in 1 .. n PROVE starts'[c + 1] = starts'[c] + Width(c)
    <3>1. CASE c = n
      BY <1>5, <1>6, <1>7, <3>1
    <3>2. CASE c # n
      <4>1. c \in 1 .. n - 1 /\ c + 1 \in 1 .. n
        BY <3>2
      <4> QED BY <1>6, <1>7, <4>1
    <3> QED BY <3>1, <3>2
  <2>3. /\ starts' \in Seq(Nat) /\ Len(starts') = chunkAt' /\ starts'[1] = 0
        /\ \A c \in 1 .. Len(starts') - 1 : starts'[c + 1] = starts'[c] + Width(c)'
        /\ offset' = starts'[chunkAt']
    BY <1>1, <1>5, <1>7, <2>1, <2>2, CallSame
  <2> QED BY <1>1, <2>3 DEF StartsOK
<1>10. BlockOK'
  <2>1. Covered' = UpTo(chunkAt, sub)
    <3>1. Covered' = UpTo(chunkAt + 1, 0)
      BY <1>1, CallSame DEF Covered, UpTo
    <3> QED BY <1>1, <1>2, <3>1, UpToEnds
  <2>2. ASSUME NEW q \in Block
        PROVE  /\ Scored(scores[q], UpTo(chunkAt, sub)) /\ ListOK(best[q], q, scores[q], starts')
               /\ attended[q] = {}
    <3>1. /\ Scored(scores[q], UpTo(chunkAt, sub)) /\ ListOK(best[q], q, scores[q], starts)
          /\ attended[q] = {}
      BY <1>1, <1>2 DEF BlockOK, Covered
    <3>2. ASSUME NEW k \in DOMAIN scores[q] PROVE starts[k[1]] = starts'[k[1]]
      <4>1. k \in Keys /\ (k[1] < chunkAt \/ k[1] = chunkAt)
        BY <3>1 DEF Scored, UpTo
      <4>2. k[1] \in 1 .. n
        BY <1>2, <1>4, <1>5, <4>1, CallIs
      <4> QED BY <1>7, <4>2
    <3> QED BY <3>1, <3>2, ListOtherStarts
  <2> QED BY <1>1, <1>3, <2>1, <2>2, BlockPrimed
<1>11. LaterOK'
  BY <1>1, <1>2, <1>3 DEF LaterOK
<1>12. DoneOK'
  <2>1. start \in Nat /\ Queries \subseteq Nat
    BY <1>2, CallIs DEF CursorOK
  <2> QED BY <1>1, <1>2, <2>1, DonePrimed
<1> QED BY <1>8, <1>9, <1>10, <1>11, <1>12 DEF IndexerInv

LEMMA RetrievedStep == ASSUME IndexerInv, Retrieved PROVE IndexerInv'
<1>1. /\ phase = "score" /\ phase' = "gather" /\ chunkAt \notin Chunks
      /\ chunkAt' = 1 /\ offset' = 0
      /\ UNCHANGED <<input, start, sub, best, attended, sink, scores, starts>>
  BY DEF Retrieved
<1>2. CursorOK /\ StartsOK /\ BlockOK /\ LaterOK /\ DoneOK
  BY DEF IndexerInv
<1>3. Block \subseteq Queries /\ Block' = Block /\ Queries' = Queries /\ NumChunks' = NumChunks
  BY <1>1, CallSame DEF Block
<1>4. NumChunks \in Nat /\ chunkAt = NumChunks + 1
  BY <1>1, <1>2, CallIs DEF CursorOK
<1>5. CursorOK'
  BY <1>1, <1>2, <1>3, <1>4 DEF CursorOK
<1>6. StartsOK'
  BY <1>1, <1>2, <1>3, <1>4, CallSame DEF StartsOK
<1>7. BlockOK'
  <2>1. Covered' = Keys
    BY <1>1, CallSame DEF Covered
  <2>2. \A q \in Block : Scored(scores[q], Keys) /\ ListOK(best[q], q, scores[q], starts) /\ attended[q] = {}
    <3>1. Covered = Keys
      BY <1>1, <1>2, <1>4, UpToEnds DEF Covered
    <3> QED BY <1>1, <1>2, <3>1 DEF BlockOK
  <2>3. ASSUME NEW q \in Block PROVE Found(best[q], 1) = {}
    <3>1. ASSUME NEW r \in 1 .. Len(best[q]) PROVE ~ (best[q][r].key[1] < 1)
      <4>1. best[q][r].key \in Keys
        BY <2>2 DEF ListOK, TopOf, Scored
      <4>2. best[q][r].key[1] \in 1 .. NumChunks
        BY <1>2, <4>1, CallIs
      <4> QED BY <1>4, <4>2
    <3> QED BY <3>1 DEF Found
  <2> QED BY <1>1, <1>3, <2>1, <2>2, <2>3, BlockPrimed
<1>8. LaterOK'
  BY <1>1, <1>2, <1>3 DEF LaterOK
<1>9. DoneOK'
  <2>1. start \in Nat /\ Queries \subseteq Nat
    BY <1>2, CallIs DEF CursorOK
  <2> QED BY <1>1, <1>2, <2>1, DonePrimed
<1> QED BY <1>5, <1>6, <1>7, <1>8, <1>9 DEF IndexerInv

LEMMA GatherStep == ASSUME IndexerInv, GatherChunk PROVE IndexerInv'
<1>1. /\ phase = "gather" /\ phase' = "gather" /\ chunkAt \in Chunks
      /\ chunkAt' = chunkAt + 1 /\ offset' = offset + Width(chunkAt)
      /\ attended' = [q \in Queries |->
                        IF q \in Block THEN attended[q] \cup InChunk(q) ELSE attended[q]]
      /\ UNCHANGED <<input, start, sub, best, sink, scores, starts>>
  BY DEF GatherChunk
<1>2. CursorOK /\ StartsOK /\ BlockOK /\ LaterOK /\ DoneOK
  BY DEF IndexerInv
<1>3. Block \subseteq Queries /\ Block' = Block /\ Queries' = Queries /\ NumChunks' = NumChunks
  BY <1>1, CallSame DEF Block
<1>4. NumChunks \in Nat /\ chunkAt \in 1 .. NumChunks
  BY <1>1, <1>2, CallIs
<1>5. CursorOK'
  BY <1>1, <1>2, <1>3, <1>4 DEF CursorOK
<1>6. StartsOK'
  <2>1. chunkAt \in 1 .. Len(starts) - 1
    BY <1>1, <1>2, <1>4 DEF StartsOK
  <2>2. offset' = starts'[chunkAt']
    BY <1>1, <1>2, <2>1 DEF StartsOK
  <2> QED BY <1>1, <1>2, <1>3, <2>2, CallSame DEF StartsOK
<1>7. BlockOK'
  <2>1. Covered' = Keys
    BY <1>1, CallSame DEF Covered
  <2>2. ASSUME NEW q \in Block
        PROVE  /\ Scored(scores[q], Keys) /\ ListOK(best[q], q, scores[q], starts)
               /\ attended'[q] = Found(best[q], chunkAt + 1)
    <3>1. /\ Scored(scores[q], Keys) /\ ListOK(best[q], q, scores[q], starts)
          /\ attended[q] = Found(best[q], chunkAt)
      BY <1>1, <1>2 DEF BlockOK, Covered
    <3>2. attended'[q] = attended[q] \cup InChunk(q)
      BY <1>1, <1>3
    <3> QED BY <1>1, <1>2, <3>1, <3>2, GatherOne
  <2> QED BY <1>1, <1>3, <2>1, <2>2, BlockPrimed
<1>8. \A q \in Queries : q \notin Block => attended'[q] = attended[q]
  BY <1>1
<1>9. LaterOK'
  BY <1>1, <1>2, <1>3, <1>8 DEF LaterOK
<1>10. DoneOK'
  <2>1. start \in Nat /\ Queries \subseteq Nat
    BY <1>2, CallIs DEF CursorOK
  <2> QED BY <1>1, <1>2, <1>8, <2>1, DonePrimed
<1> QED BY <1>5, <1>6, <1>7, <1>9, <1>10 DEF IndexerInv

LEMMA EndBlockStep == ASSUME IndexerInv, EndBlock PROVE IndexerInv'
<1>1. /\ phase = "gather" /\ phase' = "score" /\ chunkAt \notin Chunks
      /\ sink' = sink \cup {q \in Block : \A r \in DOMAIN best[q] : ~ best[q][r].valid}
      /\ start' = start + QueryBlock /\ best' = [q \in Queries |-> <<>>]
      /\ chunkAt' = 1 /\ sub' = 0 /\ offset' = 0 /\ starts' = <<0>>
      /\ UNCHANGED <<input, attended, scores>>
  BY DEF EndBlock
<1>2. CursorOK /\ StartsOK /\ BlockOK /\ LaterOK /\ DoneOK
  BY DEF IndexerInv
<1>3. Queries' = Queries /\ NumChunks' = NumChunks /\ Queries \subseteq Nat
  BY <1>1, <1>2, CallSame, CallIs
<1>4. NumChunks \in Nat /\ chunkAt = NumChunks + 1
  BY <1>1, <1>2, CallIs DEF CursorOK
<1>5. start \in Nat /\ QueryBlock \in Nat \ {0}
  BY <1>2, IndexerAssumption DEF CursorOK
<1>6. ASSUME NEW q \in Queries, q > start' PROVE q > start /\ q \notin Block
  BY <1>1, <1>3, <1>5, <1>6 DEF Block
<1>7. \A q \in Queries : q <= start' => q <= start \/ q \in Block
  BY <1>1, <1>3, <1>5 DEF Block
<1>8. CursorOK'
  BY <1>1, <1>2, <1>3, <1>4, <1>5 DEF CursorOK
<1>9. StartsOK'
  <2>1. starts' \in Seq(Nat) /\ Len(starts') = 1 /\ starts'[1] = 0
    BY <1>1
  <2> QED BY <1>1, <2>1 DEF StartsOK
<1>10. ASSUME NEW q \in Queries, q > start'
       PROVE  q \notin sink' /\ scores[q] = <<>> /\ best'[q] = <<>> /\ attended[q] = {}
  <2>1. q \notin sink /\ scores[q] = <<>> /\ attended[q] = {} /\ q \notin Block
    BY <1>2, <1>6, <1>10 DEF LaterOK
  <2> QED BY <1>1, <2>1
<1>11. LaterOK'
  BY <1>1, <1>3, <1>10 DEF LaterOK
<1>12. BlockOK'
  <2>1. Covered' = {}
    <3>1. Covered' = UpTo(1, 0)
      BY <1>1, CallSame DEF Covered, UpTo
    <3> QED BY <1>2, <3>1, UpToEnds
  <2>2. \A q \in Block' : q \in Queries /\ q > start'
    BY <1>3 DEF Block
  <2>3. ASSUME NEW q \in Block'
        PROVE  /\ Scored(scores'[q], Covered') /\ ListOK(best'[q], q, scores'[q], starts')
               /\ attended'[q] = {}
    <3>1. scores'[q] = <<>> /\ best'[q] = <<>> /\ attended'[q] = {}
      BY <1>1, <1>10, <2>2
    <3> QED BY <2>1, <3>1, NothingScored
  <2> QED BY <1>1, <2>3, BlockPrimed
<1>13. DoneOK'
  <2>1. ASSUME NEW q \in Queries, q <= start' PROVE AttendsAt(q, attended[q], scores[q], q \in sink')
    <3>1. CASE q \in Block
      <4>1. q \in sink' <=> \A r \in DOMAIN best[q] : ~ best[q][r].valid
        <5>1. q \notin sink
          BY <1>2, <3>1 DEF LaterOK, Block
        <5> QED BY <1>1, <3>1, <5>1, Zenon
      <4>2. /\ Scored(scores[q], Keys) /\ ListOK(best[q], q, scores[q], starts)
            /\ attended[q] = Found(best[q], chunkAt)
        BY <1>1, <1>2, <3>1 DEF BlockOK, Covered
      <4>3. AttendsAt(q, attended[q], scores[q], \A r \in DOMAIN best[q] : ~ best[q][r].valid)
        BY <1>1, <1>2, <1>4, <4>2, Attended
      <4> QED BY ONLY <4>1, <4>3, Zenon DEF AttendsAt
    <3>2. CASE q \notin Block
      <4>1. q <= start
        BY <1>7, <2>1, <3>2
      <4>2. AttendsAt(q, attended[q], scores[q], q \in sink)
        BY <1>2, <4>1 DEF DoneOK
      <4>3. q \in sink' <=> q \in sink
        BY <1>1, <3>2
      <4> QED BY ONLY <4>2, <4>3, Zenon DEF AttendsAt
    <3> QED BY <3>1, <3>2
  <2>2. ASSUME NEW q \in Queries, q <= start' PROVE AttendsAt(q, attended[q], scores[q], q \in sink)'
    <3>1. Causal(q)' = Causal(q) /\ attended'[q] = attended[q] /\ scores'[q] = scores[q]
      BY <1>1, CallSame
    <3> QED BY <2>1, <2>2, <3>1 DEF AttendsAt
  <2> QED BY <1>3, <2>2 DEF DoneOK
<1> QED BY <1>8, <1>9, <1>11, <1>12, <1>13 DEF IndexerInv

LEMMA IndexerStart == IndexerInit => IndexerInv
<1> SUFFICES ASSUME IndexerInit PROVE IndexerInv
  OBVIOUS
<1>1. /\ input \in Inputs /\ phase = "score" /\ start = 0 /\ chunkAt = 1 /\ sub = 0 /\ offset = 0
      /\ best = [q \in Queries |-> <<>>] /\ attended = [q \in Queries |-> {}] /\ sink = {}
      /\ scores = [q \in Queries |-> <<>>] /\ starts = <<0>>
  BY DEF IndexerInit
<1>2. input.positions \in Seq(Seq(Nat)) /\ input.queries \in Seq(Nat)
  BY <1>1, InputsAssumption
<1>3. NumChunks \in Nat /\ Queries \subseteq Nat \ {0}
  BY <1>2 DEF NumChunks, Queries
<1>4. CursorOK
  BY <1>1, <1>3 DEF CursorOK
<1>5. StartsOK
  <2>1. starts \in Seq(Nat) /\ Len(starts) = 1 /\ starts[1] = 0
    BY <1>1
  <2> QED BY <1>1, <2>1 DEF StartsOK
<1>6. BlockOK
  <2>1. Covered = {}
    BY <1>1, <1>4, UpToEnds DEF Covered
  <2>2. ASSUME NEW q \in Block
        PROVE  /\ Scored(scores[q], Covered) /\ ListOK(best[q], q, scores[q], starts)
               /\ attended[q] = {}
    <3>1. scores[q] = <<>> /\ best[q] = <<>> /\ attended[q] = {}
      BY <1>1 DEF Block
    <3> QED BY <2>1, <3>1, NothingScored
  <2> QED BY <1>1, <2>2 DEF BlockOK
<1>7. LaterOK
  BY <1>1 DEF LaterOK
<1>8. DoneOK
  BY <1>1, <1>3 DEF DoneOK
<1> QED BY <1>4, <1>5, <1>6, <1>7, <1>8 DEF IndexerInv

LEMMA IndexerStutters == ASSUME IndexerInv, UNCHANGED indexerVars PROVE IndexerInv'
<1>1. UNCHANGED <<input, phase, start, chunkAt, sub, offset, best, attended, sink, scores, starts>>
  BY DEF indexerVars
<1>2. CursorOK /\ StartsOK /\ BlockOK /\ LaterOK /\ DoneOK
  BY DEF IndexerInv
<1>3. CursorOK' /\ StartsOK'
  BY <1>1, <1>2, CallSame DEF CursorOK, StartsOK
<1>4. BlockOK'
  <2>1. Block' = Block /\ Covered' = Covered
    BY <1>1, CallSame DEF Block, Covered, UpTo
  <2>2. \A q \in Block : /\ Scored(scores[q], Covered) /\ ListOK(best[q], q, scores[q], starts)
                         /\ attended[q] = IF phase = "score" THEN {} ELSE Found(best[q], chunkAt)
    BY <1>2 DEF BlockOK
  <2> QED BY <1>1, <2>1, <2>2, BlockPrimed
<1>5. LaterOK'
  BY <1>1, <1>2, CallSame DEF LaterOK, Block
<1>6. DoneOK'
  <2>1. start \in Nat /\ Queries \subseteq Nat
    BY <1>2, CallIs DEF CursorOK
  <2> QED BY <1>1, <1>2, <2>1, DonePrimed
<1> QED BY <1>3, <1>4, <1>5, <1>6 DEF IndexerInv

-----------------------------------------------------------------------------
(* The theorems                                                            *)

\* The loop over blocks, chunks and sub-chunks (attention/csa.py,
\* attention/lightning_indexer.py) keeps the cursor, the offsets, the lists and what
\* is gathered in step, whatever the history and the sizes.
THEOREM IndexerInvariant == IndexerSpec => []IndexerInv
<1>1. IndexerInv /\ [IndexerNext]_indexerVars => IndexerInv'
  BY MergeStep, NextChunkStep, RetrievedStep, GatherStep, EndBlockStep, IndexerStutters
     DEF IndexerNext
<1> QED BY IndexerStart, <1>1, PTL DEF IndexerSpec

\* The running list of a query is a top-k of everything scored for it so far.
THEOREM ListIsTopK == IndexerSpec => []RunningTopK
<1>1. IndexerInv => RunningTopK
  <2> SUFFICES ASSUME IndexerInv, NEW q \in Block
               PROVE  LET kept == {best[q][r].key : r \in DOMAIN best[q]}
                          value(k) == Masked(Allowed(q, k), scores[q][k])
                      IN  /\ kept \subseteq DOMAIN scores[q]
                          /\ \A r, s \in DOMAIN best[q] : r # s => best[q][r].key # best[q][s].key
                          /\ \A k \in DOMAIN scores[q] \ kept :
                               Len(best[q]) = IndexTopK /\ \A kk \in kept : value(kk) >= value(k)
    BY DEF RunningTopK
  <2>1. PICK h, g, v : h = best[q] /\ g = scores[q] /\ v = Value(q, g)
    OBVIOUS
  <2>2. TopOf(h, DOMAIN g, v)
    BY <2>1 DEF IndexerInv, BlockOK, ListOK
  <2>3. PICK kept : kept = {h[r].key : r \in DOMAIN h} /\ kept = KeysOf(h)
    BY DEF KeysOf
  <2>4. /\ kept \subseteq DOMAIN g
        /\ \A r, s \in DOMAIN h : r # s => h[r].key # h[s].key
        /\ \A k \in DOMAIN g \ kept : Len(h) = IndexTopK /\ \A kk \in kept : v[kk] >= v[k]
    BY <2>2, <2>3 DEF TopOf
  <2>5. \A k \in DOMAIN g : v[k] = Masked(Allowed(q, k), g[k])
    BY <2>1 DEF Value
  <2> QED BY <2>1, <2>3, <2>4, <2>5
<1> QED BY <1>1, IndexerInvariant, PTL

\* A query whose block is done has attended to the best IndexTopK of the groups
\* complete at its position, each once and where it is stored.
THEOREM AttendsToTheBest == IndexerSpec => []AttendsExact
<1>1. IndexerInv => AttendsExact
  <2> SUFFICES ASSUME IndexerInv, NEW q \in Queries, q <= start
               PROVE  LET read == {a.key : a \in attended[q]}
                      IN  /\ read \subseteq Causal(q)
                          /\ Cardinality(attended[q]) = Min({IndexTopK, Cardinality(Causal(q))})
                          /\ Cardinality(read) = Cardinality(attended[q])
                          /\ \A a \in read, k \in Causal(q) \ read : scores[q][a] >= scores[q][k]
                          /\ q \in sink <=> Causal(q) = {}
    BY DEF AttendsExact
  <2>1. AttendsAt(q, attended[q], scores[q], q \in sink)
    BY DEF IndexerInv, DoneOK
  <2> QED BY <2>1, Zenon DEF AttendsAt
<1> QED BY <1>1, IndexerInvariant, PTL

-----------------------------------------------------------------------------
(* The deterministic top-k                                                 *)

LEMMA LeastIs ==
  ASSUME NEW a \in Int, NEW b \in Int
  PROVE  Least(a, b) \in {a, b} /\ Least(a, b) <= a /\ Least(a, b) <= b
BY DEF Least

Scorable(x) == x.score \in Int /\ x.index \in Int

\* Candidates with numbers for scores, each at its own index.
Listed(entries, n) ==
  /\ n \in Nat /\ Len(entries) = n /\ DOMAIN entries = 1 .. n
  /\ \A i \in 1 .. n : Scorable(entries[i])
  /\ \A i, j \in 1 .. n : i # j => entries[i].index # entries[j].index

LEMMA BeforeIsOrder ==
  /\ \A x, y, z : Scorable(x) /\ Scorable(y) /\ Scorable(z) /\ Before(x, y) /\ Before(y, z) => Before(x, z)
  /\ \A x : Scorable(x) => ~ Before(x, x)
  /\ \A x, y : Scorable(x) /\ Scorable(y) /\ x.index # y.index => Before(x, y) \/ Before(y, x)
BY DEF Scorable, Before

\* Every candidate has a rank of its own, and the ranks are in order.
LEMMA RanksAre ==
  ASSUME NEW entries, NEW n, Listed(entries, n)
  PROVE  /\ \A i \in 1 .. n : Rank(entries, i) \in 1 .. n
         /\ \A i, j \in 1 .. n : Before(entries[i], entries[j]) <=> Rank(entries, i) < Rank(entries, j)
         /\ \A m \in 1 .. n : \E i \in 1 .. n : Rank(entries, i) = m
<1>0. n \in Nat /\ DOMAIN entries = 1 .. n /\ IsFiniteSet(1 .. n) /\ Cardinality(1 .. n) = n
  <2>1. n \in Nat /\ DOMAIN entries = 1 .. n
    BY DEF Listed
  <2> QED BY <2>1, FS_Interval
<1>1. PICK under : under = [i \in 1 .. n |-> {j \in 1 .. n : Before(entries[j], entries[i])}]
  OBVIOUS
<1>2. ASSUME NEW i \in 1 .. n
      PROVE  /\ Rank(entries, i) = Cardinality(under[i]) + 1 /\ IsFiniteSet(under[i])
             /\ Cardinality(under[i]) \in Nat /\ Cardinality(under[i]) < n
  <2>1. under[i] = {j \in 1 .. n : Before(entries[j], entries[i])} /\ under[i] \subseteq 1 .. n
    BY <1>1
  <2>2. Rank(entries, i) = Cardinality(under[i]) + 1
    BY <1>0, <2>1 DEF Rank
  <2>3. i \notin under[i]
    BY <2>1, BeforeIsOrder DEF Listed
  <2>4. IsFiniteSet(under[i]) /\ Cardinality(under[i]) <= n /\ Cardinality(under[i]) # n
        /\ Cardinality(under[i]) \in Nat
    BY <1>0, <2>1, <2>3, FS_Subset, FS_CardinalityType
  <2> QED BY <1>0, <2>2, <2>4
<1>3. ASSUME NEW i \in 1 .. n, NEW j \in 1 .. n, Before(entries[i], entries[j])
      PROVE  Rank(entries, i) < Rank(entries, j)
  <2>1. under[i] \subseteq under[j]
    <3>1. ASSUME NEW k \in 1 .. n, Before(entries[k], entries[i]) PROVE Before(entries[k], entries[j])
      BY <1>3, <3>1, BeforeIsOrder DEF Listed
    <3> QED BY <1>1, <3>1
  <2>2. i \in under[j] /\ i \notin under[i]
    BY <1>1, <1>3, BeforeIsOrder DEF Listed
  <2>3. Cardinality(under[i]) <= Cardinality(under[j]) /\ Cardinality(under[i]) # Cardinality(under[j])
    BY <1>2, <2>1, <2>2, FS_Subset
  <2> QED BY <1>2, <2>3
<1>4. ASSUME NEW i \in 1 .. n, NEW j \in 1 .. n, i # j PROVE Rank(entries, i) # Rank(entries, j)
  <2>1. Before(entries[i], entries[j]) \/ Before(entries[j], entries[i])
    BY <1>4, BeforeIsOrder DEF Listed
  <2>2. Rank(entries, i) \in Int /\ Rank(entries, j) \in Int
    BY <1>2
  <2> QED BY <1>3, <2>1, <2>2
<1>5. \A i \in 1 .. n : Rank(entries, i) \in 1 .. n
  BY <1>0, <1>2
<1>6. ASSUME NEW i \in 1 .. n, NEW j \in 1 .. n, Rank(entries, i) < Rank(entries, j)
      PROVE  Before(entries[i], entries[j])
  <2>1. Rank(entries, i) \in Int /\ Rank(entries, j) \in Int /\ i # j
    BY <1>5, <1>6
  <2>2. Before(entries[i], entries[j]) \/ Before(entries[j], entries[i])
    BY <2>1, BeforeIsOrder DEF Listed
  <2> QED BY <1>3, <1>6, <2>1, <2>2
<1>7. PICK f : f = [i \in 1 .. n |-> Rank(entries, i)]
  OBVIOUS
<1>8. f \in Injection(1 .. n, 1 .. n)
  BY <1>4, <1>5, <1>7 DEF Injection, IsInjective
<1>9. f \in Surjection(1 .. n, 1 .. n)
  BY <1>0, <1>8, FS_Injection
<1>10. \A m \in 1 .. n : \E i \in 1 .. n : Rank(entries, i) = m
  BY <1>7, <1>9 DEF Surjection
<1> QED BY <1>3, <1>5, <1>6, <1>10

\* The first m of n candidates, in order, of at most k.
FirstOf(t, m, entries, n, k) ==
  /\ Len(t) = m /\ DOMAIN t = 1 .. m /\ t = [i \in 1 .. m |-> t[i]]
  /\ \A i \in 1 .. m : \E j \in 1 .. n : t[i] = entries[j]
  /\ \A i, j \in 1 .. m : i < j => Before(t[i], t[j])
  /\ \A j \in 1 .. n : (\A i \in 1 .. m : t[i] # entries[j]) =>
       m = k /\ \A i \in 1 .. m : Before(t[i], entries[j])

LEMMA LexTopKIs ==
  ASSUME NEW entries, NEW n, Listed(entries, n), n # 0, NEW k \in Nat \ {0}
  PROVE  FirstOf(LexTopK(entries, k), Least(k, n), entries, n, k)
<1>0. PICK t : t = LexTopK(entries, k)
  OBVIOUS
<1>1. n \in Nat \ {0} /\ Len(entries) = n /\ DOMAIN entries = 1 .. n
  BY DEF Listed
<1>2. PICK m \in 1 .. n : m = Least(k, n) /\ m = Greatest(1, Least(k, Len(entries)))
  BY <1>1 DEF Least, Greatest
<1>3. PICK c : c = [i \in 1 .. n |-> Ranked(entries, i)]
  OBVIOUS
<1>4. \A i \in 1 .. n : c[i] \in 1 .. n /\ Rank(entries, c[i]) = i
  <2>1. \A i \in 1 .. n : \E j \in 1 .. n : Rank(entries, j) = i
    BY RanksAre
  <2> QED BY <1>1, <1>3, <2>1 DEF Ranked
<1>5. t = [i \in 1 .. m |-> entries[c[i]]]
  <2>1. t = [i \in 1 .. m |-> entries[Ranked(entries, i)]]
    BY <1>0, <1>1, <1>2 DEF LexTopK
  <2>2. \A i \in 1 .. m : c[i] = Ranked(entries, i)
    BY <1>1, <1>3
  <2> QED BY ONLY <2>1, <2>2
<1>6. Len(t) = m /\ DOMAIN t = 1 .. m /\ t = [i \in 1 .. m |-> t[i]]
      /\ \A i \in 1 .. m : t[i] = entries[c[i]] /\ c[i] \in 1 .. n /\ Rank(entries, c[i]) = i
  <2>1. DOMAIN t = 1 .. m
    BY <1>5
  <2>2. \A i \in 1 .. m : i \in 1 .. n
    BY <1>1
  <2> QED BY <1>4, <1>5, <2>1, <2>2
<1>7. ASSUME NEW i \in 1 .. m, NEW j \in 1 .. m, i < j PROVE Before(t[i], t[j])
  <2>1. c[i] \in 1 .. n /\ c[j] \in 1 .. n /\ Rank(entries, c[i]) < Rank(entries, c[j])
    BY <1>6, <1>7
  <2>2. Before(entries[c[i]], entries[c[j]])
    BY <2>1, RanksAre
  <2> QED BY <1>6, <2>2
<1>8. ASSUME NEW j \in 1 .. n, \A i \in 1 .. m : t[i] # entries[j]
      PROVE  m = k /\ \A i \in 1 .. m : Before(t[i], entries[j])
  <2>1. PICK r \in 1 .. n : r = Rank(entries, j)
    BY RanksAre
  <2>2. r \notin 1 .. m
    <3>1. SUFFICES ASSUME r \in 1 .. m PROVE FALSE
      OBVIOUS
    <3>2. c[r] \in 1 .. n /\ Rank(entries, c[r]) = Rank(entries, j) /\ t[r] = entries[c[r]]
      BY <1>6, <2>1, <3>1
    <3>3. c[r] = j
      <4>1. ~ Before(entries[c[r]], entries[j]) /\ ~ Before(entries[j], entries[c[r]])
        BY <2>1, <3>2, RanksAre
      <4> QED BY <3>2, <4>1, BeforeIsOrder DEF Listed
    <3> QED BY <1>8, <3>1, <3>2, <3>3
  <2>3. m < r /\ m = k
    BY <1>1, <1>2, <2>2 DEF Least
  <2>4. ASSUME NEW i \in 1 .. m PROVE Before(t[i], entries[j])
    <3>1. c[i] \in 1 .. n /\ Rank(entries, c[i]) < Rank(entries, j)
      BY <1>1, <1>6, <2>1, <2>3
    <3>2. Before(entries[c[i]], entries[j])
      BY <3>1, RanksAre
    <3> QED BY <1>6, <3>2
  <2> QED BY <2>3, <2>4
<1>9. FirstOf(t, m, entries, n, k)
  BY <1>2, <1>4, <1>6, <1>7, <1>8 DEF FirstOf
<1> QED BY <1>0, <1>2, <1>9

\* A row of scores, and a position of it as a candidate.
IsRow(row, l) == l \in Nat /\ Len(row) = l /\ DOMAIN row = 1 .. l /\ \A i \in 1 .. l : row[i] \in Int

Item(row, p) == [score |-> row[p + 1], index |-> p]

\* The list is the top-k of the first m positions of the row.
TopAt(held, m, row, k) ==
  /\ Len(held) = Least(k, m) /\ DOMAIN held = 1 .. Least(k, m)
  /\ held = [i \in 1 .. Least(k, m) |-> held[i]]
  /\ \A i \in 1 .. Least(k, m) : held[i].index \in 0 .. m - 1 /\ held[i] = Item(row, held[i].index)
  /\ \A i, j \in 1 .. Least(k, m) : i < j => Before(held[i], held[j])
  /\ \A p \in 0 .. m - 1 : (\A i \in 1 .. Least(k, m) : held[i].index # p) =>
       Least(k, m) = k /\ \A i \in 1 .. Least(k, m) : Before(held[i], Item(row, p))

LEMMA ItemIs ==
  ASSUME NEW row, NEW l, IsRow(row, l), NEW p \in 0 .. l - 1
  PROVE  Item(row, p).index = p /\ Scorable(Item(row, p))
<1>1. p + 1 \in 1 .. l /\ p \in Int
  BY DEF IsRow
<1>2. row[p + 1] \in Int
  BY <1>1 DEF IsRow
<1> QED BY <1>1, <1>2 DEF Item, Scorable

LEMMA NextTop ==
  ASSUME NEW row, NEW l, IsRow(row, l), NEW k \in Nat \ {0}, NEW m \in Nat, NEW w \in Nat \ {0},
         m + w <= l, NEW h, TopAt(h, m, row, k), NEW s, Len(s) = w,
         s = [i \in 1 .. w |-> Item(row, m + i - 1)]
  PROVE  TopAt(LexTopK(h \o s, k), m + w, row, k)
<1>1. PICK a \in Nat : a = Least(k, m) /\ a = IF k <= m THEN k ELSE m
  BY DEF Least
<1>2. PICK n \in Nat \ {0} : n = a + w
  OBVIOUS
<1>3. PICK e : e = h \o s
  OBVIOUS
<1>4. l \in Nat
  BY DEF IsRow
<1>5. /\ Len(h) = a /\ DOMAIN h = 1 .. a /\ h = [i \in 1 .. a |-> h[i]]
      /\ \A i \in 1 .. a : h[i].index \in 0 .. m - 1 /\ h[i] = Item(row, h[i].index)
      /\ \A i, j \in 1 .. a : i < j => Before(h[i], h[j])
      /\ \A p \in 0 .. m - 1 : (\A i \in 1 .. a : h[i].index # p) =>
           a = k /\ \A i \in 1 .. a : Before(h[i], Item(row, p))
  BY <1>1 DEF TopAt
<1>6. DOMAIN s = 1 .. w /\ s = [i \in 1 .. w |-> s[i]] /\ \A i \in 1 .. w : s[i] = Item(row, m + i - 1)
  OBVIOUS
<1>7. /\ Len(e) = n /\ DOMAIN e = 1 .. n
      /\ \A i \in 1 .. a : e[i] = h[i]
      /\ \A i \in 1 .. w : e[a + i] = s[i]
  BY ONLY <1>2, <1>3, <1>5, <1>6, JoinedList, a \in Nat, w \in Nat, Len(s) = w
<1>8. \A i \in 1 .. a : h[i].index \in 0 .. l - 1 /\ Scorable(h[i])
  <2>1. \A i \in 1 .. a : h[i].index \in 0 .. l - 1
    BY <1>4, <1>5
  <2> QED BY <1>5, <2>1, ItemIs
<1>9. ASSUME NEW i \in 1 .. w PROVE s[i].index = m + i - 1 /\ Scorable(s[i])
  <2>1. PICK p \in 0 .. l - 1 : p = m + i - 1
    BY <1>4
  <2>2. s[i] = Item(row, p)
    BY <1>6, <2>1
  <2> QED BY <2>1, <2>2, ItemIs
<1>10. ASSUME NEW i \in 1 .. n
       PROVE  \/ i \in 1 .. a /\ e[i] = h[i]
              \/ i \notin 1 .. a /\ \E j \in 1 .. w : i = a + j /\ e[i] = s[j]
  <2>1. CASE i \in 1 .. a
    BY <1>7, <2>1
  <2>2. CASE i \notin 1 .. a
    <3>1. PICK j \in 1 .. w : i = a + j
      <4>1. i - a \in 1 .. w /\ i = a + (i - a)
        BY <1>2, <2>2
      <4> QED BY ONLY <4>1
    <3> QED BY <1>7, <2>2, <3>1
  <2> QED BY <2>1, <2>2
<1>11. ASSUME NEW i \in 1 .. a, NEW j \in 1 .. a, i # j PROVE h[i].index # h[j].index
  <2>1. SUFFICES ASSUME h[i] = h[j] PROVE FALSE
    BY <1>5
  <2>2. Before(h[i], h[j]) \/ Before(h[j], h[i])
    <3>1. i < j \/ j < i
      BY <1>11
    <3> QED BY <1>5, <3>1
  <2> QED BY <1>8, <2>1, <2>2, BeforeIsOrder
<1>12. ASSUME NEW i \in 1 .. n
       PROVE  Scorable(e[i]) /\ e[i].index \in 0 .. m + w - 1 /\ e[i] = Item(row, e[i].index)
  <2>1. CASE i \in 1 .. a /\ e[i] = h[i]
    <3>1. h[i].index \in 0 .. m + w - 1
      BY <1>5, <2>1
    <3> QED BY <1>5, <1>8, <2>1, <3>1
  <2>2. CASE \E j \in 1 .. w : e[i] = s[j]
    <3>1. PICK j \in 1 .. w : e[i] = s[j]
      BY <2>2
    <3>2. m + j - 1 \in 0 .. m + w - 1
      OBVIOUS
    <3> QED BY <1>6, <1>9, <3>1, <3>2
  <2> QED BY <1>10, <2>1, <2>2
<1>13. ASSUME NEW i \in 1 .. n, NEW j \in 1 .. n, i # j PROVE e[i].index # e[j].index
  <2>1. CASE i \in 1 .. a /\ j \in 1 .. a
    BY <1>7, <1>11, <1>13, <2>1
  <2>2. CASE i \in 1 .. a /\ j \notin 1 .. a
    <3>1. PICK y \in 1 .. w : e[i] = h[i] /\ e[j] = s[y]
      BY <1>10, <2>2
    <3>2. h[i].index < m /\ s[y].index >= m
      BY <1>5, <1>9, <2>2
    <3> QED BY <1>5, <1>9, <2>2, <3>1, <3>2
  <2>3. CASE i \notin 1 .. a /\ j \in 1 .. a
    <3>1. PICK y \in 1 .. w : e[j] = h[j] /\ e[i] = s[y]
      BY <1>10, <2>3
    <3>2. h[j].index < m /\ s[y].index >= m
      BY <1>5, <1>9, <2>3
    <3> QED BY <1>5, <1>9, <2>3, <3>1, <3>2
  <2>4. CASE i \notin 1 .. a /\ j \notin 1 .. a
    <3>1. PICK x \in 1 .. w, y \in 1 .. w : i = a + x /\ j = a + y /\ e[i] = s[x] /\ e[j] = s[y]
      BY <1>10, <2>4
    <3>2. x # y /\ m + x - 1 # m + y - 1
      BY <1>13, <3>1
    <3> QED BY <1>9, <3>1, <3>2
  <2> QED BY <2>1, <2>2, <2>3, <2>4
<1>14. Listed(e, n)
  BY <1>7, <1>12, <1>13 DEF Listed
<1>15. PICK t : t = LexTopK(e, k)
  OBVIOUS
<1>16. PICK b \in Nat : /\ b = Least(k, n) /\ b = Least(k, m + w) /\ b <= n /\ b <= k
                        /\ a = k => b = k
  BY <1>1, <1>2 DEF Least
<1>17. /\ Len(t) = b /\ DOMAIN t = 1 .. b /\ t = [i \in 1 .. b |-> t[i]]
       /\ \A i \in 1 .. b : \E j \in 1 .. n : t[i] = e[j]
       /\ \A i, j \in 1 .. b : i < j => Before(t[i], t[j])
       /\ \A j \in 1 .. n : (\A i \in 1 .. b : t[i] # e[j]) => b = k /\ \A i \in 1 .. b : Before(t[i], e[j])
  <2>1. FirstOf(t, b, e, n, k)
    BY <1>14, <1>15, <1>16, LexTopKIs
  <2> QED BY ONLY <2>1 DEF FirstOf
<1>18. \A i \in 1 .. b : t[i].index \in 0 .. m + w - 1 /\ t[i] = Item(row, t[i].index) /\ Scorable(t[i])
  BY <1>12, <1>17
<1>19. ASSUME NEW j \in 1 .. n, \A i \in 1 .. b : t[i].index # e[j].index
       PROVE  b = k /\ \A i \in 1 .. b : Before(t[i], e[j])
  <2>1. \A i \in 1 .. b : t[i] # e[j]
    BY <1>19
  <2> QED BY <1>17, <2>1
<1>20. ASSUME NEW p \in 0 .. m + w - 1, \A i \in 1 .. b : t[i].index # p
       PROVE  b = k /\ \A i \in 1 .. b : Before(t[i], Item(row, p))
  <2>1. CASE \E j \in 1 .. n : e[j].index = p
    BY <1>12, <1>19, <1>20, <2>1
  <2>2. CASE ~ \E j \in 1 .. n : e[j].index = p
    <3>1. p < m
      <4>1. SUFFICES ASSUME p >= m PROVE FALSE
        OBVIOUS
      <4>2. PICK x \in 1 .. w : p = m + x - 1
        <5>1. p - m + 1 \in 1 .. w /\ p = m + (p - m + 1) - 1
          BY <4>1
        <5> QED BY ONLY <5>1
      <4>3. a + x \in 1 .. n /\ e[a + x].index = p
        <5>1. a + x \in 1 .. n
          BY <1>2
        <5>2. e[a + x] = s[x] /\ s[x].index = p
          BY <1>7, <1>9, <4>2
        <5> QED BY <5>1, <5>2
      <4> QED BY <2>2, <4>3
    <3>2. \A j \in 1 .. a : j \in 1 .. n /\ e[j] = h[j]
      BY <1>2, <1>7
    <3>3. a = k /\ b = k /\ \A j \in 1 .. a : Before(h[j], Item(row, p))
      <4>1. p \in 0 .. m - 1 /\ \A j \in 1 .. a : h[j].index # p
        BY <2>2, <3>1, <3>2
      <4> QED BY <1>5, <1>16, <4>1
    <3>4. Scorable(Item(row, p))
      <4>1. p \in 0 .. l - 1
        BY <1>4
      <4> QED BY <4>1, ItemIs
    <3>5. ASSUME NEW i \in 1 .. b, ~ Before(t[i], Item(row, p)) PROVE FALSE
      <4>1. \A j \in 1 .. a : t[i] # h[j]
        BY <3>3, <3>5
      <4>2. \A j \in 1 .. a : \E x \in 1 .. a : t[x] = h[j]
        <5>1. SUFFICES ASSUME NEW j \in 1 .. a, \A x \in 1 .. b : t[x] # e[j] PROVE FALSE
          BY <3>2, <3>3
        <5>2. Before(t[i], h[j])
          BY <1>17, <3>2, <5>1
        <5> QED BY <1>8, <1>18, <3>3, <3>4, <3>5, <5>2, BeforeIsOrder
      <4>3. PICK f : f = [j \in 1 .. a |-> CHOOSE x \in 1 .. a : t[x] = h[j]]
        OBVIOUS
      <4>4. \A j \in 1 .. a : f[j] \in 1 .. a /\ t[f[j]] = h[j]
        BY <4>2, <4>3
      <4>5. f \in Injection(1 .. a, 1 .. a)
        <5>1. \A x, y \in 1 .. a : f[x] = f[y] => x = y
          BY <1>11, <4>4
        <5>2. f \in [1 .. a -> 1 .. a]
          BY <4>3, <4>4
        <5> QED BY <5>1, <5>2 DEF Injection, IsInjective
      <4>6. f \in Surjection(1 .. a, 1 .. a)
        BY <4>5, IntervalFinite, FS_Injection
      <4>7. PICK j \in 1 .. a : f[j] = i
        BY <3>3, <4>6 DEF Surjection
      <4> QED BY <4>1, <4>4, <4>7
    <3> QED BY <3>3, <3>5
  <2> QED BY <2>1, <2>2
<1>21. TopAt(t, m + w, row, k)
  BY <1>16, <1>17, <1>18, <1>20 DEF TopAt
<1> QED BY <1>3, <1>15, <1>21

-----------------------------------------------------------------------------
(* The running top-k over the chunks of a row                              *)

NextHeld(row, k, width, held, n) == LexTopK(held \o Slice(row, (n - 1) * width, width), k)

Chunking(row, k, width, c, f) ==
  f = [n \in 0 .. c |-> IF n = 0 THEN <<>> ELSE NextHeld(row, k, width, f[n - 1], n)]

LEMMA ChunkingExists ==
  ASSUME NEW row, NEW k, NEW width, NEW c \in Nat PROVE \E f : Chunking(row, k, width, c, f)
<1> DEFINE T == {n \in Nat : \E f : Chunking(row, k, width, n, f)}
<1>1. 0 \in T
  <2>1. Chunking(row, k, width, 0, [n \in 0 .. 0 |-> <<>>])
    BY DEF Chunking
  <2> QED BY <2>1
<1>2. ASSUME NEW n \in Nat, n \in T PROVE n + 1 \in T
  <2>1. PICK f : Chunking(row, k, width, n, f)
    BY <1>2
  <2> DEFINE g == [i \in 0 .. n + 1 |-> IF i <= n THEN f[i] ELSE NextHeld(row, k, width, f[i - 1], i)]
  <2>2. ASSUME NEW i \in 0 .. n + 1
        PROVE  g[i] = IF i = 0 THEN <<>> ELSE NextHeld(row, k, width, g[i - 1], i)
    <3>1. CASE i <= n
      <4>1. i \in 0 .. n /\ (i # 0 => i - 1 \in 0 .. n /\ i - 1 \in 0 .. n + 1)
        BY <3>1
      <4>2. f[i] = IF i = 0 THEN <<>> ELSE NextHeld(row, k, width, f[i - 1], i)
        BY <2>1, <4>1 DEF Chunking
      <4>3. g[i] = f[i] /\ (i # 0 => g[i - 1] = f[i - 1])
        BY <3>1, <4>1
      <4> QED BY <4>2, <4>3
    <3>2. CASE ~ (i <= n)
      <4>1. i = n + 1 /\ i # 0 /\ i - 1 \in 0 .. n + 1 /\ i - 1 <= n
        BY <3>2
      <4> QED BY <3>2, <4>1
    <3> QED BY <3>1, <3>2
  <2>3. g = [i \in 0 .. n + 1 |-> g[i]]
    OBVIOUS
  <2>4. \E h : Chunking(row, k, width, n + 1, h)
    <3> HIDE DEF g
    <3> QED BY <2>2, <2>3 DEF Chunking
  <2> QED BY <2>4
<1>3. c \in T
  <2> HIDE DEF T
  <2> QED BY <1>1, <1>2, Induction
<1> QED BY <1>3

Held(row, k, width, c, f) ==
  /\ ChunkedTopK(row, k, width) = f[c] /\ f[0] = <<>>
  /\ \A n \in 1 .. c : f[n] = NextHeld(row, k, width, f[n - 1], n)

LEMMA ChunkedUnfolds ==
  ASSUME NEW row, NEW k, NEW width, NEW c \in Nat, c = ChunkCount(row, width)
  PROVE  \E f : Held(row, k, width, c, f)
<1> DEFINE f == CHOOSE f : Chunking(row, k, width, c, f)
<1>1. Chunking(row, k, width, c, f)
  BY ChunkingExists
<1>2. ChunkedTopK(row, k, width) = f[c]
  BY DEF ChunkedTopK, Chunking, NextHeld
<1> HIDE DEF f
<1>3. \A n \in 0 .. c : f[n] = IF n = 0 THEN <<>> ELSE NextHeld(row, k, width, f[n - 1], n)
  BY <1>1 DEF Chunking
<1>4. f[0] = <<>>
  BY <1>3
<1>5. ASSUME NEW n \in 1 .. c PROVE f[n] = NextHeld(row, k, width, f[n - 1], n)
  <2>1. n \in 0 .. c /\ n # 0
    OBVIOUS
  <2> QED BY <1>3, <2>1
<1> HIDE DEF f
<1>6. Held(row, k, width, c, f)
  BY <1>2, <1>4, <1>5 DEF Held
<1> QED BY <1>6

\* Where the chunks of a row start and end.
LEMMA ChunksCover ==
  ASSUME NEW l \in Nat, NEW width \in Nat \ {0}, NEW c, c = (l + width - 1) \div width
  PROVE  /\ c \in Nat /\ Least(c * width, l) = l
         /\ \A n \in 0 .. c - 1 : n * width \in Nat /\ n * width < l
<1>1. PICK x \in Nat : x = l + width - 1
  OBVIOUS
<1>2. PICK r \in 0 .. width - 1 : c \in Nat /\ x = c * width + r
  BY <1>1, DivMod
<1>3. PICK d \in Int : d = c * width
  BY <1>2
<1>4. d >= l /\ d <= l + width - 1
  BY <1>1, <1>2, <1>3
<1>5. Least(c * width, l) = l
  BY <1>3, <1>4 DEF Least
<1>6. ASSUME NEW n \in 0 .. c - 1 PROVE n * width \in Nat /\ n * width < l
  <2>1. n \in Nat /\ n + 1 \in Int /\ n + 1 <= c
    BY <1>2
  <2>2. (n + 1) * width <= c * width
    BY <1>2, <2>1, TimesMonotone
  <2>3. (n + 1) * width = n * width + width /\ n * width \in Nat
    BY <2>1
  <2> QED BY <1>3, <1>4, <2>2, <2>3
<1> QED BY <1>2, <1>5, <1>6

\* What ChunkedTopK returns, however the row is cut into chunks.
LEMMA ChunkedTopKIs ==
  ASSUME NEW row, NEW l, IsRow(row, l), NEW k \in Nat \ {0}, NEW width \in Nat \ {0}
  PROVE  TopAt(ChunkedTopK(row, k, width), l, row, k)
<1>1. l \in Nat /\ Len(row) = l
  BY DEF IsRow
<1>2. PICK c \in Nat : /\ c = ChunkCount(row, width) /\ Least(c * width, l) = l
                       /\ \A n \in 0 .. c - 1 : n * width \in Nat /\ n * width < l
  BY <1>1, ChunksCover DEF ChunkCount
<1>3. PICK f : /\ ChunkedTopK(row, k, width) = f[c] /\ f[0] = <<>>
               /\ \A n \in 1 .. c : f[n] = NextHeld(row, k, width, f[n - 1], n)
  <2>1. PICK f : Held(row, k, width, c, f)
    BY <1>2, ChunkedUnfolds
  <2> QED BY <2>1 DEF Held
<1> DEFINE T == {n \in Nat : n <= c => TopAt(f[n], Least(n * width, l), row, k)}
<1>4. 0 \in T
  <2>1. Least(0 * width, l) = 0 /\ Least(k, 0) = 0
    BY <1>1 DEF Least
  <2>2. TopAt(<<>>, 0, row, k)
    BY <2>1 DEF TopAt
  <2> QED BY <1>3, <2>1, <2>2
<1>5. ASSUME NEW n \in Nat, n \in T PROVE n + 1 \in T
  <2>1. SUFFICES ASSUME n + 1 <= c PROVE TopAt(f[n + 1], Least((n + 1) * width, l), row, k)
    OBVIOUS
  <2>2. PICK m \in Nat : m = n * width /\ m < l
    <3>1. n \in 0 .. c - 1
      BY <2>1
    <3> QED BY <1>2, <3>1
  <2>3. (n + 1) * width = m + width
    BY <2>2
  <2>4. PICK w \in Nat \ {0} : w = Least(width, l - m) /\ m + w <= l /\ Least(m + width, l) = m + w
    <3>1. CASE width <= l - m
      <4>1. Least(width, l - m) = width /\ Least(m + width, l) = m + width /\ m + width <= l
        BY <1>1, <2>2, <3>1 DEF Least
      <4> QED BY <4>1
    <3>2. CASE ~ (width <= l - m)
      <4>1. Least(width, l - m) = l - m /\ Least(m + width, l) = m + (l - m) /\ l - m \in Nat \ {0}
        BY <1>1, <2>2, <3>2 DEF Least
      <4> QED BY <1>1, <4>1
    <3> QED BY <3>1, <3>2
  <2>5. TopAt(f[n], m, row, k)
    <3>1. Least(m, l) = m /\ n <= c
      BY <1>1, <2>1, <2>2 DEF Least
    <3>2. TopAt(f[n], Least(n * width, l), row, k)
      BY <1>5, <3>1
    <3> QED BY <2>2, <3>1, <3>2
  <2>6. PICK s : s = Slice(row, m, width)
    OBVIOUS
  <2>7. s = [i \in 1 .. w |-> Item(row, m + i - 1)] /\ Len(s) = w
    <3>1. s = [i \in 1 .. w |-> [score |-> row[m + i], index |-> m + i - 1]]
      BY <1>1, <2>4, <2>6 DEF Slice
    <3>2. ASSUME NEW i \in 1 .. w
          PROVE  [score |-> row[m + i], index |-> m + i - 1] = Item(row, m + i - 1)
      <4>1. m + i - 1 + 1 = m + i
        OBVIOUS
      <4> QED BY <4>1 DEF Item
    <3>3. s = [i \in 1 .. w |-> Item(row, m + i - 1)]
      BY ONLY <3>1, <3>2
    <3> QED BY <3>3
  <2>8. f[n + 1] = LexTopK(f[n] \o s, k)
    <3>1. n + 1 \in 1 .. c /\ n + 1 - 1 = n
      BY <2>1
    <3>2. f[n + 1] = NextHeld(row, k, width, f[n], n + 1)
      BY <1>3, <3>1
    <3> QED BY <2>2, <2>6, <3>1, <3>2 DEF NextHeld
  <2>9. TopAt(LexTopK(f[n] \o s, k), m + w, row, k)
    BY <2>4, <2>5, <2>7, NextTop
  <2> QED BY <2>3, <2>4, <2>8, <2>9
<1>6. c \in T
  <2> HIDE DEF T
  <2> QED BY <1>2, <1>4, <1>5, Induction
<1> QED BY <1>2, <1>3, <1>6

\* The positions of the m first of l, in order.
SelectedAs(pos, m, row, l) ==
  /\ m \in Nat /\ Len(pos) = m /\ DOMAIN pos = 1 .. m /\ pos = [i \in 1 .. m |-> pos[i]]
  /\ \A i \in 1 .. m : pos[i] \in 0 .. l - 1
  /\ \A i, j \in 1 .. m : i < j => Before(Item(row, pos[i]), Item(row, pos[j]))
  /\ \A i, j \in 1 .. m : i # j => pos[i] # pos[j]
  /\ \A p \in 0 .. l - 1 : (\A i \in 1 .. m : pos[i] # p) =>
       \A i \in 1 .. m : Before(Item(row, pos[i]), Item(row, p))

LEMMA IndicesSelected ==
  ASSUME NEW row, NEW l, IsRow(row, l), NEW k \in Nat \ {0}, NEW width \in Nat \ {0}
  PROVE  SelectedAs(Indices(ChunkedTopK(row, k, width)), Least(k, l), row, l)
<1>0. l \in Nat
  BY DEF IsRow
<1>1. PICK m \in Nat : m = Least(k, l)
  BY <1>0 DEF Least
<1>2. PICK h : h = ChunkedTopK(row, k, width)
  OBVIOUS
<1>3. /\ DOMAIN h = 1 .. m
      /\ \A i \in 1 .. m : h[i].index \in 0 .. l - 1 /\ h[i] = Item(row, h[i].index)
      /\ \A i, j \in 1 .. m : i < j => Before(h[i], h[j])
      /\ \A p \in 0 .. l - 1 : (\A i \in 1 .. m : h[i].index # p) =>
           \A i \in 1 .. m : Before(h[i], Item(row, p))
  <2>1. TopAt(h, l, row, k)
    BY <1>2, ChunkedTopKIs
  <2> QED BY ONLY <1>1, <2>1 DEF TopAt
<1>4. PICK pos : pos = [i \in 1 .. m |-> h[i].index] /\ pos = Indices(h)
  BY <1>3 DEF Indices
<1>5. /\ Len(pos) = m /\ DOMAIN pos = 1 .. m /\ pos = [i \in 1 .. m |-> pos[i]]
      /\ \A i \in 1 .. m : pos[i] \in 0 .. l - 1 /\ h[i] = Item(row, pos[i])
  BY <1>3, <1>4
<1>6. ASSUME NEW i \in 1 .. m, NEW j \in 1 .. m, i # j PROVE pos[i] # pos[j]
  <2>1. SUFFICES ASSUME h[i] = h[j] PROVE FALSE
    BY <1>5
  <2>2. Before(h[i], h[j]) \/ Before(h[j], h[i])
    <3>1. i < j \/ j < i
      BY <1>6
    <3> QED BY <1>3, <3>1
  <2>3. Scorable(h[i])
    BY <1>5, ItemIs
  <2> QED BY <2>1, <2>2, <2>3, BeforeIsOrder
<1>7. ASSUME NEW p \in 0 .. l - 1, \A i \in 1 .. m : pos[i] # p, NEW i \in 1 .. m
      PROVE  Before(Item(row, pos[i]), Item(row, p))
  <2>1. \A j \in 1 .. m : h[j].index # p
    BY <1>4, <1>7
  <2> QED BY <1>3, <1>5, <2>1
<1>8. SelectedAs(pos, m, row, l)
  BY <1>3, <1>5, <1>6, <1>7 DEF SelectedAs
<1> QED BY <1>1, <1>2, <1>4, <1>8

\* The selection is a top-k, whatever the chunks.
THEOREM SelectedIsTop ==
  ASSUME NEW row, NEW l, IsRow(row, l), NEW k, NEW m, m = Least(k, l),
         NEW pos, SelectedAs(pos, m, row, l)
  PROVE  IsTopK(pos, row, k)
<1>1. /\ l \in Nat /\ Len(row) = l /\ m \in Nat /\ Len(pos) = m /\ DOMAIN pos = 1 .. m
      /\ \A i \in 1 .. m : pos[i] \in 0 .. l - 1
  BY DEF IsRow, SelectedAs
<1> DEFINE item(p) == [score |-> row[p + 1], index |-> p]
           chosen  == ToSet(pos)
<1>2. chosen = {pos[i] : i \in 1 .. m}
  BY <1>1 DEF ToSet
<1>3. Len(pos) = Least(k, Len(row)) /\ chosen \subseteq 0 .. Len(row) - 1
  BY <1>1, <1>2
<1>4. ASSUME NEW i \in DOMAIN pos, NEW j \in DOMAIN pos, i < j
      PROVE  pos[i] # pos[j] /\ ~ Before(item(pos[j]), item(pos[i]))
  <2>1. i \in 1 .. m /\ j \in 1 .. m /\ i # j
    BY <1>1, <1>4
  <2>2. Before(Item(row, pos[i]), Item(row, pos[j])) /\ pos[i] # pos[j]
    BY <1>4, <2>1 DEF SelectedAs
  <2>3. Scorable(Item(row, pos[i])) /\ Scorable(Item(row, pos[j]))
    BY <1>1, <2>1, ItemIs
  <2>4. ~ Before(Item(row, pos[j]), Item(row, pos[i]))
    BY <2>2, <2>3, BeforeIsOrder
  <2> QED BY <2>2, <2>4 DEF Item
<1>5. ASSUME NEW p \in (0 .. Len(row) - 1) \ chosen, NEW c \in chosen
      PROVE  item(c).score > item(p).score \/ (item(c).score = item(p).score /\ c < p)
  <2>1. p \in 0 .. l - 1 /\ \A i \in 1 .. m : pos[i] # p
    BY <1>1, <1>2
  <2>2. PICK i \in 1 .. m : c = pos[i]
    BY <1>2
  <2>3. Before(Item(row, c), Item(row, p))
    BY <2>1, <2>2 DEF SelectedAs
  <2> QED BY <2>3 DEF Item, Before
<1> QED BY <1>3, <1>4, <1>5 DEF IsTopK

\* The chunked top-k is the top-k of the whole row, whatever the chunk.
THEOREM ChunkedIsTop ==
  ASSUME NEW row, NEW l, IsRow(row, l), NEW k \in Nat \ {0}, NEW width \in Nat \ {0}
  PROVE  IsTopK(Indices(ChunkedTopK(row, k, width)), row, k)
BY IndicesSelected, SelectedIsTop

-----------------------------------------------------------------------------
(* What the layers of the stack select                                     *)

\* A layer of a stack of these modes, with a query of a row of the call.
Querying(modes, c, l, b, t) ==
  /\ modes \in Cadences /\ c \in Calls /\ l \in DOMAIN modes
  /\ b \in DOMAIN c.hidden /\ t \in DOMAIN c.hidden[b]

\* n positions of a memory of size s.
Positions(ids, n, s) ==
  /\ n \in Nat /\ Len(ids) = n /\ DOMAIN ids = 1 .. n /\ ids = [i \in 1 .. n |-> ids[i]]
  /\ \A i \in 1 .. n : ids[i] \in 0 .. s - 1

LEMMA MemoryIs ==
  ASSUME NEW c \in Calls, NEW b \in DOMAIN c.hidden
  PROVE  Len(c.memory[b]) \in Nat \ {0} /\ DOMAIN c.memory[b] = 1 .. Len(c.memory[b])
BY CallsAssumption

LEMMA ScoresAre ==
  ASSUME NEW modes, NEW c, NEW l, NEW b, NEW t, Querying(modes, c, l, b, t),
         NEW ids, NEW n, Positions(ids, n, Len(c.memory[b]))
  PROVE  IsRow(ScoreRow(c, l, b, t, ids), n)
<1>1. /\ modes \in Cadences /\ c \in Calls /\ l \in DOMAIN modes
      /\ b \in DOMAIN c.hidden /\ t \in DOMAIN c.hidden[b] /\ b \in DOMAIN c.memory
  BY CallsAssumption DEF Querying
<1>2. n \in Nat /\ DOMAIN ids = 1 .. n /\ \A i \in 1 .. n : ids[i] \in 0 .. Len(c.memory[b]) - 1
  BY DEF Positions
<1>3. PICK row : row = ScoreRow(c, l, b, t, ids)
  OBVIOUS
<1>4. row = [i \in 1 .. n |-> Affinity[l][c.hidden[b][t]][c.memory[b][ids[i] + 1]]]
  BY <1>2, <1>3 DEF ScoreRow
<1>5. ASSUME NEW i \in 1 .. n PROVE row[i] \in Int
  <2>1. PICK p \in DOMAIN c.memory[b] : p = ids[i] + 1
    <3>1. ids[i] \in 0 .. Len(c.memory[b]) - 1 /\ Len(c.memory[b]) \in Nat
      BY <1>1, <1>2, MemoryIs
    <3>2. ids[i] + 1 \in 1 .. Len(c.memory[b])
      BY <3>1
    <3> QED BY <1>1, <3>2, MemoryIs
  <2>2. Affinity[l][c.hidden[b][t]][c.memory[b][p]] \in Int
    BY <1>1, <2>1, AffinityAssumption
  <2> QED BY <1>4, <2>1, <2>2
<1>6. DOMAIN row = 1 .. n /\ Len(row) = n
  BY <1>2, <1>4
<1> QED BY <1>2, <1>3, <1>5, <1>6 DEF IsRow

LEMMA EverythingIs ==
  ASSUME NEW c \in Calls, NEW b \in DOMAIN c.hidden
  PROVE  Positions(Everything(c, b), Len(c.memory[b]), Len(c.memory[b]))
<1>1. PICK s \in Nat : s = Len(c.memory[b]) /\ DOMAIN c.memory[b] = 1 .. s
  BY MemoryIs
<1>2. Everything(c, b) = [i \in 1 .. s |-> i - 1]
  BY <1>1 DEF Everything
<1>3. \A i \in 1 .. s : i - 1 \in 0 .. s - 1
  OBVIOUS
<1> QED BY <1>1, <1>2, <1>3 DEF Positions

\* What a full layer selects for a query.
LEMMA FullSelects ==
  ASSUME NEW modes, NEW c, NEW l, NEW b, NEW t, Querying(modes, c, l, b, t), chunk \in ChunkSizes
  PROVE  SelectedAs(FullIndices(c, l)[b][t], Least(TopK, Len(c.memory[b])),
                    ScoreRow(c, l, b, t, Everything(c, b)), Len(c.memory[b]))
<1>1. c \in Calls /\ b \in DOMAIN c.hidden /\ t \in DOMAIN c.hidden[b]
  BY DEF Querying
<1>2. PICK s \in Nat \ {0} : s = Len(c.memory[b])
  BY <1>1, MemoryIs
<1>3. PICK k \in Nat \ {0} : k = Least(TopK, s) /\ Least(k, s) = k
  BY SizesAssumption DEF Least
<1>4. PICK row : row = ScoreRow(c, l, b, t, Everything(c, b)) /\ IsRow(row, s)
  BY <1>1, <1>2, EverythingIs, ScoresAre
<1>5. FullIndices(c, l)[b][t] = Indices(ChunkedTopK(row, k, chunk))
  BY <1>1, <1>2, <1>3, <1>4 DEF FullIndices, ForQueries
<1>6. chunk \in Nat \ {0}
  BY SizesAssumption
<1>7. SelectedAs(Indices(ChunkedTopK(row, k, chunk)), k, row, s)
  BY <1>3, <1>4, <1>6, IndicesSelected
<1> QED BY <1>2, <1>3, <1>4, <1>5, <1>7

\* What a reindex layer selects for a query: the places in the pool, and what is there.
LEMMA ReindexSelects ==
  ASSUME NEW modes, NEW c, NEW l, NEW b, NEW t, Querying(modes, c, l, b, t), chunk \in ChunkSizes,
         NEW from, Positions(from[b], PoolSize, Len(c.memory[b]))
  PROVE  \E slots :
           /\ SelectedAs(slots, Least(TopK, PoolSize), ScoreRow(c, l, b, t, from[b]), PoolSize)
           /\ ReindexIndices(c, l, from)[b][t] =
                [i \in 1 .. Least(TopK, PoolSize) |-> from[b][slots[i] + 1]]
<1>1. c \in Calls /\ b \in DOMAIN c.hidden /\ t \in DOMAIN c.hidden[b]
  BY DEF Querying
<1>2. Len(from[b]) = PoolSize /\ PoolSize \in Nat \ {0}
  BY SizesAssumption DEF Positions
<1>3. PICK k \in Nat \ {0} : k = Least(TopK, PoolSize) /\ Least(k, PoolSize) = k
  BY SizesAssumption DEF Least
<1>4. PICK row : row = ScoreRow(c, l, b, t, from[b]) /\ IsRow(row, PoolSize)
  BY <1>1, <1>2, ScoresAre
<1>5. PICK slots : slots = Indices(ChunkedTopK(row, k, chunk))
  OBVIOUS
<1>6. ReindexIndices(c, l, from)[b][t] = [i \in DOMAIN slots |-> from[b][slots[i] + 1]]
  BY <1>1, <1>2, <1>3, <1>4, <1>5 DEF ReindexIndices, ForQueries
<1>7. chunk \in Nat \ {0}
  BY SizesAssumption
<1>8. SelectedAs(slots, k, row, PoolSize)
  BY <1>3, <1>4, <1>5, <1>7, IndicesSelected
<1>9. DOMAIN slots = 1 .. k
  BY <1>8 DEF SelectedAs
<1>10. ReindexIndices(c, l, from)[b][t] = [i \in 1 .. k |-> from[b][slots[i] + 1]]
  BY ONLY <1>6, <1>9
<1> QED BY <1>3, <1>4, <1>8, <1>10

-----------------------------------------------------------------------------
(* The pool of a selection                                                 *)

NextSeen(known, x) == IF Contains(known, x) THEN known ELSE Append(known, x)

Seeing(all, c, f) == f = [n \in 0 .. c |-> IF n = 0 THEN <<>> ELSE NextSeen(f[n - 1], all[n])]

LEMMA SeeingExists ==
  ASSUME NEW all, NEW c \in Nat PROVE \E f : Seeing(all, c, f)
<1> DEFINE T == {n \in Nat : \E f : Seeing(all, n, f)}
<1>1. 0 \in T
  <2>1. Seeing(all, 0, [n \in 0 .. 0 |-> <<>>])
    BY DEF Seeing
  <2> QED BY <2>1
<1>2. ASSUME NEW n \in Nat, n \in T PROVE n + 1 \in T
  <2>1. PICK f : Seeing(all, n, f)
    BY <1>2
  <2> DEFINE g == [i \in 0 .. n + 1 |-> IF i <= n THEN f[i] ELSE NextSeen(f[i - 1], all[i])]
  <2>2. ASSUME NEW i \in 0 .. n + 1
        PROVE  g[i] = IF i = 0 THEN <<>> ELSE NextSeen(g[i - 1], all[i])
    <3>1. CASE i <= n
      <4>1. i \in 0 .. n /\ (i # 0 => i - 1 \in 0 .. n /\ i - 1 \in 0 .. n + 1)
        BY <3>1
      <4>2. f[i] = IF i = 0 THEN <<>> ELSE NextSeen(f[i - 1], all[i])
        BY <2>1, <4>1 DEF Seeing
      <4>3. g[i] = f[i] /\ (i # 0 => g[i - 1] = f[i - 1])
        BY <3>1, <4>1
      <4> QED BY <4>2, <4>3
    <3>2. CASE ~ (i <= n)
      <4>1. i = n + 1 /\ i # 0 /\ i - 1 \in 0 .. n + 1 /\ i - 1 <= n
        BY <3>2
      <4> QED BY <3>2, <4>1
    <3> QED BY <3>1, <3>2
  <2>3. g = [i \in 0 .. n + 1 |-> g[i]]
    OBVIOUS
  <2>4. \E h : Seeing(all, n + 1, h)
    <3> HIDE DEF g
    <3> QED BY <2>2, <2>3 DEF Seeing
  <2> QED BY <2>4
<1>3. c \in T
  <2> HIDE DEF T
  <2> QED BY <1>1, <1>2, Induction
<1> QED BY <1>3

\* The first appearances are elements of the sequence, and there are some if it has any.
LEMMA FirstsAre ==
  ASSUME NEW X, NEW all \in Seq(X)
  PROVE  Firsts(all) \in Seq(X) /\ (Len(all) > 0 => Len(Firsts(all)) > 0)
<1>1. PICK c \in Nat : c = Len(all)
  OBVIOUS
<1> DEFINE f == CHOOSE f : Seeing(all, c, f)
<1>2. Seeing(all, c, f)
  BY SeeingExists
<1>3. Firsts(all) = f[c]
  BY <1>1 DEF Firsts, Seeing, NextSeen
<1> HIDE DEF f
<1>4. \A n \in 0 .. c : f[n] = IF n = 0 THEN <<>> ELSE NextSeen(f[n - 1], all[n])
  BY <1>2 DEF Seeing
<1> DEFINE T == {n \in Nat : n <= c => f[n] \in Seq(X) /\ (n > 0 => Len(f[n]) > 0)}
<1>5. 0 \in T
  <2>1. f[0] = <<>>
    BY <1>4
  <2>2. f[0] \in Seq(X)
    BY <2>1
  <2> QED BY ONLY <2>2, ~ (0 > 0), 0 \in Nat
<1>6. ASSUME NEW n \in Nat, n \in T PROVE n + 1 \in T
  <2>1. SUFFICES ASSUME n + 1 <= c PROVE f[n + 1] \in Seq(X) /\ Len(f[n + 1]) > 0
    OBVIOUS
  <2>2. PICK known \in Seq(X) : known = f[n]
    BY <1>6, <2>1
  <2>3. PICK x \in X : x = all[n + 1]
    <3>1. n + 1 \in DOMAIN all
      BY <1>1, <2>1
    <3> QED BY <3>1
  <2>4. f[n + 1] = NextSeen(known, x)
    <3>1. n + 1 \in 0 .. c /\ n + 1 # 0 /\ n + 1 - 1 = n
      BY <2>1
    <3> QED BY <1>4, <2>2, <2>3, <3>1
  <2>5. CASE Contains(known, x)
    <3>1. Len(known) > 0
      BY <2>5 DEF Contains
    <3> QED BY <2>4, <2>5, <3>1 DEF NextSeen
  <2>6. CASE ~ Contains(known, x)
    <3>1. f[n + 1] = Append(known, x)
      BY <2>4, <2>6 DEF NextSeen
    <3> QED BY <3>1
  <2> QED BY <2>5, <2>6
<1>7. c \in T
  <2> HIDE DEF T
  <2> QED BY <1>5, <1>6, Induction
<1> QED BY <1>1, <1>3, <1>7

\* What is in a flat sequence, and that it is at least as long as its first piece.
LEMMA FlattenWithin ==
  ASSUME NEW X, NEW seqs, NEW n \in Nat, Len(seqs) = n, n = 0 => seqs = <<>>,
         \A i \in 1 .. n : seqs[i] \in Seq(X)
  PROVE  FlattenSeq(seqs) \in Seq(X) /\ (n > 0 => Len(FlattenSeq(seqs)) >= Len(seqs[1]))
<1>1. CASE n = 0
  <2>1. FlattenSeq(seqs) = <<>>
    BY <1>1, FlattenEmpty
  <2>2. FlattenSeq(seqs) \in Seq(X)
    BY <2>1
  <2> QED BY <1>1, <2>2
<1>2. CASE n > 0
  <2>1. PICK f : /\ FlattenSeq(seqs) = f[n] /\ f[1] = seqs[1]
                 /\ \A i \in 2 .. n : f[i] = f[i - 1] \o seqs[i]
    <3>1. Len(seqs) \in Nat /\ Len(seqs) # 0
      BY <1>2
    <3>2. PICK f : /\ FlattenSeq(seqs) = f[Len(seqs)] /\ f[1] = seqs[1]
                   /\ \A i \in 2 .. Len(seqs) : f[i] = f[i - 1] \o seqs[i]
      BY ONLY <3>1, FlattenUnfolds
    <3> QED BY ONLY <3>2, Len(seqs) = n
  <2> DEFINE T == {i \in Nat : i + 1 <= n => f[i + 1] \in Seq(X) /\ Len(f[i + 1]) >= Len(seqs[1])}
  <2>2. 0 \in T
    <3>1. 1 \in 1 .. n
      BY <1>2
    <3>2. seqs[1] \in Seq(X)
      BY <3>1
    <3> QED BY <2>1, <3>2
  <2>3. ASSUME NEW i \in Nat, i \in T PROVE i + 1 \in T
    <3>1. PICK j \in Nat : j = i + 1 + 1 /\ j - 1 = i + 1
      OBVIOUS
    <3>2. SUFFICES ASSUME j <= n PROVE f[j] \in Seq(X) /\ Len(f[j]) >= Len(seqs[1])
      BY <3>1
    <3>3. j \in 2 .. n /\ j \in 1 .. n /\ 1 \in 1 .. n
      BY <3>1, <3>2
    <3>4. PICK s \in Seq(X), t \in Seq(X), u \in Seq(X) :
            s = f[j - 1] /\ t = seqs[j] /\ u = seqs[1] /\ Len(s) >= Len(u)
      BY <2>3, <3>1, <3>2, <3>3
    <3>5. f[j] = s \o t
      BY ONLY <2>1, <3>3, <3>4
    <3>6. s \o t \in Seq(X) /\ Len(s \o t) = Len(s) + Len(t)
      BY ONLY s \in Seq(X), t \in Seq(X), ConcatPieces
    <3>7. Len(s) \in Nat /\ Len(t) \in Nat /\ Len(u) \in Nat
      OBVIOUS
    <3>8. Len(s) + Len(t) >= Len(u)
      <4>1. \A x, y, z \in Nat : x >= z => x + y >= z
        OBVIOUS
      <4> QED BY ONLY <3>4, <3>7, <4>1
    <3> QED BY ONLY <3>4, <3>5, <3>6, <3>8
  <2>4. n - 1 \in T
    <3>1. n - 1 \in Nat
      BY <1>2
    <3> HIDE DEF T
    <3> QED BY <2>2, <2>3, <3>1, Induction
  <2> QED BY <1>2, <2>1, <2>4
<1> QED BY <1>1, <1>2

\* The ids of a row's pool: selected by one of its queries, or 0 when it has none.
LEMMA PoolHolds ==
  ASSUME NEW selected, NEW b \in DOMAIN selected, NEW X, NEW n \in Nat,
         Len(selected[b]) = n, n = 0 => selected[b] = <<>>,
         \A t \in 1 .. n : selected[b][t] \in Seq(X) /\ Len(selected[b][t]) > 0
  PROVE  /\ PoolFromIndices(selected)[b] = [i \in 1 .. PoolSize |-> PoolFromIndices(selected)[b][i]]
         /\ \A i \in 1 .. PoolSize :
              IF n = 0 THEN PoolFromIndices(selected)[b][i] = 0 ELSE PoolFromIndices(selected)[b][i] \in X
<1>1. PICK all \in Seq(X) : all = FlattenSeq(selected[b]) /\ (n > 0 => Len(all) > 0)
                            /\ (n = 0 => all = <<>>)
  <2>1. FlattenSeq(selected[b]) \in Seq(X)
        /\ (n > 0 => Len(FlattenSeq(selected[b])) >= Len(selected[b][1]))
    BY FlattenWithin
  <2>2. n > 0 => 1 \in 1 .. n
    OBVIOUS
  <2>3. n > 0 => selected[b][1] \in Seq(X) /\ Len(selected[b][1]) > 0
    BY <2>2
  <2> QED BY <2>1, <2>3, FlattenEmpty
<1>2. PICK seen \in Seq(X) : seen = Firsts(all) /\ (n > 0 => Len(seen) > 0)
  BY <1>1, FirstsAre
<1>3. PICK ids : ids = IF seen = <<>> THEN <<0>> ELSE seen
  OBVIOUS
<1>4. PoolFromIndices(selected)[b] = [i \in 1 .. PoolSize |-> ids[Least(i, Len(ids))]]
  BY <1>1, <1>2, <1>3 DEF PoolFromIndices
<1>5. ASSUME NEW i \in 1 .. PoolSize
      PROVE  IF n = 0 THEN ids[Least(i, Len(ids))] = 0 ELSE ids[Least(i, Len(ids))] \in X
  <2>0. i \in Nat \ {0}
    BY SizesAssumption
  <2>1. CASE n = 0
    <3>1. all = <<>> /\ all \in Seq({})
      BY <1>1, <2>1
    <3>2. seen \in Seq({})
      BY <1>2, <3>1, FirstsAre
    <3>3. ids = <<0>>
      BY <1>3, <3>2
    <3>4. Least(i, 1) = 1
      BY <2>0 DEF Least
    <3> QED BY <2>1, <3>3, <3>4
  <2>2. CASE n # 0
    <3>1. ids = seen /\ Len(seen) \in Nat \ {0}
      BY <1>2, <1>3, <2>2
    <3>2. Least(i, Len(seen)) \in 1 .. Len(seen)
      BY <2>0, <3>1 DEF Least
    <3> QED BY <2>2, <3>1, <3>2
  <2> QED BY <2>1, <2>2
<1> QED BY <1>4, <1>5

LEMMA AppendedList ==
  ASSUME NEW s, NEW n \in Nat, Len(s) = n, s = [i \in 1 .. n |-> s[i]], NEW x
  PROVE  /\ Len(Append(s, x)) = n + 1 /\ Append(s, x) = [i \in 1 .. n + 1 |-> Append(s, x)[i]]
         /\ Append(s, x)[n + 1] = x /\ \A i \in 1 .. n : Append(s, x)[i] = s[i]
<1>1. PICK X : X = {s[i] : i \in 1 .. n} \cup {x}
  OBVIOUS
<1>2. s \in [1 .. n -> X]
  BY ONLY <1>1, s = [i \in 1 .. n |-> s[i]]
<1>3. s \in Seq(X)
  <2>1. n \in Nat
    OBVIOUS
  <2> QED BY ONLY <1>2, <2>1
<1>4. x \in X
  BY <1>1
<1>5. PICK a : a = Append(s, x)
  OBVIOUS
<1>6. a \in Seq(X) /\ Len(a) = n + 1 /\ n \in Nat
  BY ONLY <1>3, <1>4, <1>5, Len(s) = n, n \in Nat
<1>7. a = [i \in 1 .. n + 1 |-> a[i]]
  BY ONLY <1>6
<1>8. a[n + 1] = x /\ \A i \in 1 .. n : a[i] = s[i]
  BY ONLY <1>3, <1>4, <1>5, Len(s) = n, n \in Nat
<1> QED BY ONLY <1>5, <1>6, <1>7, <1>8

-----------------------------------------------------------------------------
(* What a stack that begins with a full layer has read                     *)

\* The last full layer up to l.
LastFull(modes, l) ==
  LET full == {k \in 1 .. l : modes[k] = "full"}
  IN  CHOOSE k \in full : \A kk \in full : k >= kk

LEMMA LastFullIs ==
  ASSUME NEW modes, modes[1] = "full", NEW l \in Nat \ {0}
  PROVE  /\ LastFull(modes, l) \in 1 .. l /\ modes[LastFull(modes, l)] = "full"
         /\ \A k \in 1 .. l : modes[k] = "full" => k <= LastFull(modes, l)
<1>1. PICK F : F = {k \in 1 .. l : modes[k] = "full"}
  OBVIOUS
<1>2. PICK T : T = {n \in Nat : \E k \in F : n = l - k}
  OBVIOUS
<1>3. 1 \in F /\ l - 1 \in T
  BY <1>1, <1>2
<1>4. PICK n \in T : \A m \in T : n <= m
  BY <1>2, <1>3, LeastNatural
<1>5. PICK k \in F : n = l - k
  BY <1>2, <1>4
<1>6. ASSUME NEW kk \in F PROVE k >= kk
  <2>1. kk \in 1 .. l /\ k \in 1 .. l /\ n \in Nat
    BY <1>1, <1>2
  <2>2. l - kk \in T
    BY <1>2, <2>1
  <2>3. n <= l - kk
    BY <1>4, <2>2
  <2> QED BY <1>5, <2>1, <2>3
<1>7. LastFull(modes, l) \in F /\ \A kk \in F : LastFull(modes, l) >= kk
  <2>1. LastFull(modes, l) = CHOOSE x \in F : \A kk \in F : x >= kk
    BY <1>1 DEF LastFull
  <2> QED BY <1>6, <2>1
<1>8. LastFull(modes, l) \in 1 .. l
  BY <1>1, <1>7
<1> QED BY <1>1, <1>7, <1>8

LEMMA LastFullSteps ==
  ASSUME NEW modes, modes[1] = "full", NEW n \in Nat
  PROVE  /\ modes[n + 1] = "full" => LastFull(modes, n + 1) = n + 1
         /\ modes[n + 1] # "full" => n # 0 /\ LastFull(modes, n + 1) = LastFull(modes, n)
<1>1. PICK k \in 1 .. n + 1 : /\ k = LastFull(modes, n + 1) /\ modes[k] = "full"
                              /\ \A i \in 1 .. n + 1 : modes[i] = "full" => i <= k
  BY LastFullIs
<1>2. CASE modes[n + 1] = "full"
  BY <1>1, <1>2
<1>3. CASE modes[n + 1] # "full"
  <2>1. n # 0
    BY <1>3
  <2>2. PICK j \in 1 .. n : /\ j = LastFull(modes, n) /\ modes[j] = "full"
                            /\ \A i \in 1 .. n : modes[i] = "full" => i <= j
    BY <2>1, LastFullIs
  <2>3. k \in 1 .. n /\ j \in 1 .. n + 1
    BY <1>1, <1>3
  <2>4. k <= j /\ j <= k
    BY <1>1, <2>2, <2>3
  <2> QED BY <1>1, <1>3, <2>1, <2>2, <2>3, <2>4
<1> QED BY <1>2, <1>3

\* Positions of the memory, some for every query of every row.
Chosen(s, c) ==
  /\ s = [b \in DOMAIN c.hidden |-> s[b]]
  /\ \A b \in DOMAIN c.hidden :
       /\ s[b] = [t \in DOMAIN c.hidden[b] |-> s[b][t]]
       /\ \A t \in DOMAIN c.hidden[b] :
            s[b][t] \in Seq(0 .. Len(c.memory[b]) - 1) /\ Len(s[b][t]) > 0

\* A pool for the rows of the call, of positions of their memories.
Pooled(p, c) ==
  /\ p = [b \in DOMAIN c.hidden |-> p[b]]
  /\ \A b \in DOMAIN c.hidden : Positions(p[b], PoolSize, Len(c.memory[b]))

\* What the queries of row b have read in a layer.
SeenIn(read, c, b) == UNION {ToSet(read[b][t]) : t \in DOMAIN c.hidden[b]}

\* The pool holds what the queries of its row selected.
Drawn(p, read, c) ==
  \A b \in DOMAIN c.hidden : DOMAIN c.hidden[b] # {} =>
    \A i \in 1 .. PoolSize : p[b][i] \in SeenIn(read, c, b)

LEMMA FullChosen ==
  ASSUME NEW modes \in Cadences, NEW c \in Calls, NEW l \in DOMAIN modes, chunk \in ChunkSizes
  PROVE  Chosen(FullIndices(c, l), c)
<1>1. PICK s : s = FullIndices(c, l)
  OBVIOUS
<1>2. /\ s = [b \in DOMAIN c.hidden |-> s[b]]
      /\ \A b \in DOMAIN c.hidden : s[b] = [t \in DOMAIN c.hidden[b] |-> s[b][t]]
  BY <1>1 DEF FullIndices, ForQueries
<1>3. ASSUME NEW b \in DOMAIN c.hidden, NEW t \in DOMAIN c.hidden[b]
      PROVE  s[b][t] \in Seq(0 .. Len(c.memory[b]) - 1) /\ Len(s[b][t]) > 0
  <2>1. PICK m \in Nat \ {0}, k \in Nat \ {0} : m = Len(c.memory[b]) /\ k = Least(TopK, m)
    BY SizesAssumption, MemoryIs DEF Least
  <2>2. PICK row : SelectedAs(s[b][t], k, row, m)
    <3>1. Querying(modes, c, l, b, t)
      BY DEF Querying
    <3> QED BY <1>1, <2>1, <3>1, FullSelects
  <2>3. /\ Len(s[b][t]) = k /\ s[b][t] = [i \in 1 .. k |-> s[b][t][i]]
        /\ \A i \in 1 .. k : s[b][t][i] \in 0 .. m - 1
    BY ONLY <2>2 DEF SelectedAs
  <2>4. s[b][t] \in [1 .. k -> 0 .. m - 1]
    BY ONLY <2>3
  <2>5. k \in Nat /\ k > 0
    OBVIOUS
  <2> QED BY ONLY <2>1, <2>3, <2>4, <2>5
<1> QED BY <1>1, <1>2, <1>3 DEF Chosen

\* A reindex layer selects from the pool, so what its queries read is in the pool.
LEMMA ReindexChosen ==
  ASSUME NEW modes \in Cadences, NEW c \in Calls, NEW l \in DOMAIN modes, chunk \in ChunkSizes,
         NEW p, Pooled(p, c)
  PROVE  /\ Chosen(ReindexIndices(c, l, p), c)
         /\ \A b \in DOMAIN c.hidden : \A x \in SeenIn(ReindexIndices(c, l, p), c, b) :
              DOMAIN c.hidden[b] # {} /\ \E i \in 1 .. PoolSize : x = p[b][i]
<1>1. PICK s : s = ReindexIndices(c, l, p)
  OBVIOUS
<1>2. /\ s = [b \in DOMAIN c.hidden |-> s[b]]
      /\ \A b \in DOMAIN c.hidden : s[b] = [t \in DOMAIN c.hidden[b] |-> s[b][t]]
  BY <1>1 DEF ReindexIndices, ForQueries
<1>3. ASSUME NEW b \in DOMAIN c.hidden, NEW t \in DOMAIN c.hidden[b]
      PROVE  /\ s[b][t] \in Seq(0 .. Len(c.memory[b]) - 1) /\ Len(s[b][t]) > 0
             /\ \A x \in ToSet(s[b][t]) : \E i \in 1 .. PoolSize : x = p[b][i]
  <2>1. PICK m \in Nat \ {0}, k \in Nat \ {0} : m = Len(c.memory[b]) /\ k = Least(TopK, PoolSize)
    BY SizesAssumption, MemoryIs DEF Least
  <2>2. Positions(p[b], PoolSize, Len(c.memory[b])) /\ Querying(modes, c, l, b, t)
    BY DEF Pooled, Querying
  <2>3. PICK slots, row : /\ SelectedAs(slots, k, row, PoolSize)
                          /\ s[b][t] = [i \in 1 .. k |-> p[b][slots[i] + 1]]
    BY <1>1, <2>1, <2>2, ReindexSelects
  <2>4. ASSUME NEW i \in 1 .. k
        PROVE  /\ slots[i] + 1 \in 1 .. PoolSize
               /\ p[b][slots[i] + 1] \in 0 .. m - 1
    <3>1. slots[i] \in 0 .. PoolSize - 1 /\ PoolSize \in Nat
      BY <2>3, SizesAssumption DEF SelectedAs
    <3>2. slots[i] + 1 \in 1 .. PoolSize
      BY <3>1
    <3> QED BY <2>1, <2>2, <3>2 DEF Positions
  <2>5. s[b][t] \in [1 .. k -> 0 .. m - 1] /\ DOMAIN s[b][t] = 1 .. k
    BY <2>3, <2>4
  <2>6. s[b][t] \in Seq(0 .. m - 1) /\ Len(s[b][t]) > 0
    <3>1. k \in Nat /\ k > 0
      OBVIOUS
    <3> QED BY ONLY <2>5, <3>1
  <2>7. ASSUME NEW x \in ToSet(s[b][t]) PROVE \E i \in 1 .. PoolSize : x = p[b][i]
    <3>1. PICK i \in 1 .. k : x = s[b][t][i]
      BY <2>5, <2>7 DEF ToSet
    <3>2. x = p[b][slots[i] + 1]
      BY <2>3, <3>1
    <3> QED BY <2>4, <3>2
  <2> QED BY <2>1, <2>6, <2>7
<1>4. ASSUME NEW b \in DOMAIN c.hidden, NEW x \in SeenIn(s, c, b)
      PROVE  DOMAIN c.hidden[b] # {} /\ \E i \in 1 .. PoolSize : x = p[b][i]
  <2>1. PICK t \in DOMAIN c.hidden[b] : x \in ToSet(s[b][t])
    BY <1>4 DEF SeenIn
  <2> QED BY <1>3, <2>1
<1> QED BY <1>1, <1>2, <1>3, <1>4 DEF Chosen

\* The pool of a selection.
LEMMA PoolDrawn ==
  ASSUME NEW c \in Calls, NEW s, Chosen(s, c)
  PROVE  Pooled(PoolFromIndices(s), c) /\ Drawn(PoolFromIndices(s), s, c)
<1>1. PICK p : p = PoolFromIndices(s)
  OBVIOUS
<1>2. DOMAIN s = DOMAIN c.hidden
  BY DEF Chosen
<1>3. p = [b \in DOMAIN c.hidden |-> p[b]]
  BY <1>1, <1>2 DEF PoolFromIndices
<1>4. ASSUME NEW b \in DOMAIN c.hidden
      PROVE  /\ Positions(p[b], PoolSize, Len(c.memory[b]))
             /\ DOMAIN c.hidden[b] # {} => \A i \in 1 .. PoolSize : p[b][i] \in SeenIn(s, c, b)
  <2>1. PICK n \in Nat : n = Len(c.hidden[b]) /\ DOMAIN c.hidden[b] = 1 .. n
    BY CallsAssumption
  <2>2. PICK m \in Nat \ {0} : m = Len(c.memory[b])
    BY MemoryIs
  <2>3. s[b] = [t \in 1 .. n |-> s[b][t]] /\ \A t \in 1 .. n : s[b][t] \in Seq(0 .. m - 1) /\ Len(s[b][t]) > 0
    BY <2>1, <2>2 DEF Chosen
  <2>4. PICK X : X = SeenIn(s, c, b)
    OBVIOUS
  <2>5. ASSUME NEW t \in 1 .. n PROVE s[b][t] \in Seq(X)
    <3>1. PICK r \in Nat : /\ r = Len(s[b][t]) /\ DOMAIN s[b][t] = 1 .. r
                           /\ s[b][t] = [i \in 1 .. r |-> s[b][t][i]]
      <4>1. PICK q \in Seq(0 .. m - 1) : q = s[b][t]
        BY <2>3
      <4>2. Len(q) \in Nat /\ DOMAIN q = 1 .. Len(q) /\ q = [i \in 1 .. Len(q) |-> q[i]]
        OBVIOUS
      <4> QED BY ONLY <4>1, <4>2
    <3>2. \A i \in 1 .. r : s[b][t][i] \in X
      BY <2>1, <2>4, <3>1 DEF SeenIn, ToSet
    <3>3. s[b][t] \in [1 .. r -> X]
      BY ONLY <3>1, <3>2
    <3> QED BY ONLY <3>3, r \in Nat
  <2>6. X \subseteq 0 .. m - 1
    <3>1. ASSUME NEW x \in X PROVE x \in 0 .. m - 1
      <4>1. PICK t \in 1 .. n : x \in ToSet(s[b][t])
        BY <2>1, <2>4 DEF SeenIn
      <4>2. PICK i \in DOMAIN s[b][t] : x = s[b][t][i]
        BY <4>1 DEF ToSet
      <4>3. s[b][t] \in Seq(0 .. m - 1)
        BY <2>3
      <4> QED BY ONLY <4>2, <4>3
    <3> QED BY <3>1
  <2>7. Len(s[b]) = n /\ (n = 0 => s[b] = <<>>) /\ b \in DOMAIN s
    BY <1>2, <2>3
  <2>8. /\ p[b] = [i \in 1 .. PoolSize |-> p[b][i]]
        /\ \A i \in 1 .. PoolSize : IF n = 0 THEN p[b][i] = 0 ELSE p[b][i] \in X
    <3>1. \A t \in 1 .. n : s[b][t] \in Seq(X) /\ Len(s[b][t]) > 0
      BY <2>3, <2>5
    <3> QED BY ONLY <1>1, <2>7, <3>1, n \in Nat, PoolHolds
  <2>9. ASSUME NEW i \in 1 .. PoolSize PROVE p[b][i] \in 0 .. m - 1
    <3>1. p[b][i] = 0 \/ p[b][i] \in X
      BY <2>8
    <3>2. 0 \in 0 .. m - 1
      OBVIOUS
    <3> QED BY ONLY <2>6, <3>1, <3>2
  <2>10. PoolSize \in Nat /\ Len(p[b]) = PoolSize /\ DOMAIN p[b] = 1 .. PoolSize
    <3>1. PoolSize \in Nat
      BY SizesAssumption
    <3> QED BY ONLY <2>8, <3>1
  <2>11. Positions(p[b], PoolSize, Len(c.memory[b]))
    BY <2>2, <2>8, <2>9, <2>10 DEF Positions
  <2>12. DOMAIN c.hidden[b] # {} => n # 0
    BY <2>1
  <2> QED BY <2>4, <2>8, <2>11, <2>12
<1> QED BY <1>1, <1>3, <1>4 DEF Pooled, Drawn

\* n layers of a call have run: what they read the last full layer before them had read.
ReadsLastFull(modes, c, read, n) ==
  \A l \in 1 .. n : \A b \in DOMAIN c.hidden :
    SeenIn(read[l], c, b) \subseteq SeenIn(read[LastFull(modes, l)], c, b)

Reading(modes, c, read, n, pub, p) ==
  /\ Chosen(pub, c) /\ pub = read[n]
  /\ Pooled(p, c) /\ Drawn(p, read[LastFull(modes, n)], c)
  /\ ReadsLastFull(modes, c, read, n)

\* A layer more that reads no more than the last full layer, or is one.
LEMMA ReadsOneMore ==
  ASSUME NEW modes, modes[1] = "full", NEW c, NEW read, NEW n \in Nat, ReadsLastFull(modes, c, read, n),
         NEW more, NEW s, more[n + 1] = s, \A i \in 1 .. n : more[i] = read[i],
         \A b \in DOMAIN c.hidden :
           SeenIn(s, c, b) \subseteq SeenIn(more[LastFull(modes, n + 1)], c, b)
  PROVE  ReadsLastFull(modes, c, more, n + 1)
<1>1. ASSUME NEW l \in 1 .. n + 1, NEW b \in DOMAIN c.hidden
      PROVE  SeenIn(more[l], c, b) \subseteq SeenIn(more[LastFull(modes, l)], c, b)
  <2>1. CASE l = n + 1
    BY <2>1
  <2>2. CASE l # n + 1
    <3>1. l \in 1 .. n /\ l \in Nat \ {0}
      BY <2>2
    <3>2. PICK k \in 1 .. l : k = LastFull(modes, l)
      BY <3>1, LastFullIs
    <3>3. k \in 1 .. n
      BY <3>1
    <3>4. SeenIn(read[l], c, b) \subseteq SeenIn(read[k], c, b)
      BY <3>1, <3>2 DEF ReadsLastFull
    <3>5. more[l] = read[l] /\ more[k] = read[k]
      BY <3>1, <3>3
    <3> QED BY ONLY <3>2, <3>4, <3>5
  <2> QED BY <2>1, <2>2
<1> QED BY <1>1 DEF ReadsLastFull

LEMMA FullReads ==
  ASSUME NEW modes, modes[1] = "full", NEW c \in Calls, NEW read, NEW n \in Nat,
         n # 0 => ReadsLastFull(modes, c, read, n),
         NEW more, NEW s, more[n + 1] = s, \A i \in 1 .. n : more[i] = read[i],
         Chosen(s, c), modes[n + 1] = "full"
  PROVE  Reading(modes, c, more, n + 1, s, PoolFromIndices(s))
<1>1. LastFull(modes, n + 1) = n + 1
  BY LastFullSteps
<1>2. Pooled(PoolFromIndices(s), c) /\ Drawn(PoolFromIndices(s), s, c)
  BY PoolDrawn
<1>3. ReadsLastFull(modes, c, read, n)
  <2>1. CASE n = 0
    BY <2>1 DEF ReadsLastFull
  <2> QED BY <2>1
<1>4. \A b \in DOMAIN c.hidden : SeenIn(s, c, b) \subseteq SeenIn(more[LastFull(modes, n + 1)], c, b)
  BY <1>1
<1>5. ReadsLastFull(modes, c, more, n + 1)
  BY <1>3, <1>4, ReadsOneMore
<1> QED BY <1>1, <1>2, <1>5 DEF Reading

LEMMA LaterReads ==
  ASSUME NEW modes, modes[1] = "full", NEW c \in Calls, NEW read, NEW n \in Nat \ {0}, NEW pub, NEW p,
         Reading(modes, c, read, n, pub, p),
         NEW more, NEW s, more[n + 1] = s, \A i \in 1 .. n : more[i] = read[i],
         Chosen(s, c), modes[n + 1] # "full",
         \A b \in DOMAIN c.hidden : SeenIn(s, c, b) \subseteq SeenIn(read[LastFull(modes, n)], c, b)
  PROVE  Reading(modes, c, more, n + 1, s, p)
<1>1. PICK k \in 1 .. n : k = LastFull(modes, n) /\ k = LastFull(modes, n + 1)
  BY LastFullIs, LastFullSteps
<1>2. more[k] = read[k]
  OBVIOUS
<1>3. ReadsLastFull(modes, c, read, n) /\ Pooled(p, c) /\ Drawn(p, read[k], c)
  BY <1>1 DEF Reading
<1>4. \A b \in DOMAIN c.hidden : SeenIn(s, c, b) \subseteq SeenIn(more[LastFull(modes, n + 1)], c, b)
  BY <1>1, <1>2
<1>5. ReadsLastFull(modes, c, more, n + 1)
  BY <1>3, <1>4, ReadsOneMore
<1> QED BY <1>1, <1>2, <1>3, <1>5 DEF Reading

-----------------------------------------------------------------------------
(* Each layer's selection is the top-k of what it scored                   *)

ExactFor(modes, c, read, n, p) ==
  \A b \in DOMAIN c.hidden : \A t \in DOMAIN c.hidden[b] :
    LET chosen == read[n][b][t]
    IN  CASE modes[n] = "full" ->
               IsTopK(chosen, ScoreRow(c, n, b, t, Everything(c, b)), TopK)
          [] modes[n] = "reindex" ->
               \E slots \in [DOMAIN chosen -> 0 .. PoolSize - 1] :
                 /\ IsTopK(slots, ScoreRow(c, n, b, t, p[b]), TopK)
                 /\ \A i \in DOMAIN chosen : chosen[i] = p[b][slots[i] + 1]
          [] OTHER -> TRUE

LEMMA FullExact ==
  ASSUME NEW modes \in Cadences, NEW c \in Calls, NEW n \in DOMAIN modes, modes[n] = "full",
         chunk \in ChunkSizes, NEW read, read[n] = FullIndices(c, n), NEW p
  PROVE  ExactFor(modes, c, read, n, p)
<1>1. ASSUME NEW b \in DOMAIN c.hidden, NEW t \in DOMAIN c.hidden[b]
      PROVE  IsTopK(read[n][b][t], ScoreRow(c, n, b, t, Everything(c, b)), TopK)
  <2>1. Querying(modes, c, n, b, t)
    BY DEF Querying
  <2>2. PICK m \in Nat : m = Len(c.memory[b])
    BY MemoryIs
  <2>3. PICK row : row = ScoreRow(c, n, b, t, Everything(c, b)) /\ IsRow(row, m)
    BY <2>1, <2>2, EverythingIs, ScoresAre
  <2>4. SelectedAs(read[n][b][t], Least(TopK, m), row, m)
    BY <2>1, <2>2, <2>3, FullSelects
  <2> QED BY <2>3, <2>4, SelectedIsTop
<1> QED BY <1>1 DEF ExactFor

LEMMA ReindexExact ==
  ASSUME NEW modes \in Cadences, NEW c \in Calls, NEW n \in DOMAIN modes, modes[n] = "reindex",
         chunk \in ChunkSizes, NEW read, NEW p, Pooled(p, c), read[n] = ReindexIndices(c, n, p)
  PROVE  ExactFor(modes, c, read, n, p)
<1>1. ASSUME NEW b \in DOMAIN c.hidden, NEW t \in DOMAIN c.hidden[b]
      PROVE  \E slots \in [DOMAIN read[n][b][t] -> 0 .. PoolSize - 1] :
               /\ IsTopK(slots, ScoreRow(c, n, b, t, p[b]), TopK)
               /\ \A i \in DOMAIN read[n][b][t] : read[n][b][t][i] = p[b][slots[i] + 1]
  <2>1. Querying(modes, c, n, b, t) /\ Positions(p[b], PoolSize, Len(c.memory[b]))
    BY DEF Querying, Pooled
  <2>2. PICK row : row = ScoreRow(c, n, b, t, p[b]) /\ IsRow(row, PoolSize)
    BY <2>1, ScoresAre
  <2>3. PICK m : m = Least(TopK, PoolSize)
    OBVIOUS
  <2>4. PICK slots : /\ SelectedAs(slots, m, row, PoolSize)
                     /\ read[n][b][t] = [i \in 1 .. m |-> p[b][slots[i] + 1]]
    BY <2>1, <2>2, <2>3, ReindexSelects
  <2>5. slots \in [1 .. m -> 0 .. PoolSize - 1]
    <3>1. slots = [i \in 1 .. m |-> slots[i]] /\ \A i \in 1 .. m : slots[i] \in 0 .. PoolSize - 1
      BY <2>4 DEF SelectedAs
    <3> QED BY ONLY <3>1
  <2>6. IsTopK(slots, row, TopK)
    BY <2>2, <2>3, <2>4, SelectedIsTop
  <2>7. /\ DOMAIN read[n][b][t] = 1 .. m
        /\ \A i \in 1 .. m : read[n][b][t][i] = p[b][slots[i] + 1]
    BY ONLY <2>4
  <2> QED BY <2>2, <2>5, <2>6, <2>7
<1> QED BY <1>1 DEF ExactFor

-----------------------------------------------------------------------------
(* The invariant of the stack                                              *)

\* A pool is of PoolSize positions for each row, for whichever call it was made.
PoolShaped(p) ==
  p # NONE =>
    /\ p = [b \in DOMAIN p |-> p[b]]
    /\ \A b \in DOMAIN p :
         /\ p[b] = [i \in 1 .. PoolSize |-> p[b][i]]
         /\ \A i \in 1 .. PoolSize : p[b][i] \in Nat

StackTyped ==
  /\ cadence \in Cadences /\ chunk \in ChunkSizes
  /\ call # NONE => call \in Calls
  /\ call = NONE => indices = <<>>
  /\ Len(indices) \in 0 .. Len(cadence) /\ indices = [i \in 1 .. Len(indices) |-> indices[i]]
  /\ PoolShaped(pool) /\ (snapshot # NONE => PoolShaped(snapshot.pool))

\* What the layers of this call have read, when the first of them is a full one.
Reads ==
  call # NONE /\ cadence[1] = "full" /\ Len(indices) # 0 =>
    Reading(cadence, call, indices, Len(indices), published, pool)

StackInvariant == StackTyped /\ Reads /\ SelectionExact

LEMMA SelectionIs ==
  SelectionExact <=>
    (call # NONE /\ Len(indices) > 0 => ExactFor(cadence, call, indices, Len(indices), pool))
BY DEF SelectionExact, Ran, ExactFor

LEMMA PooledShaped ==
  ASSUME NEW c \in Calls, NEW p, Pooled(p, c)
  PROVE  PoolShaped(p)
<1>1. p = [b \in DOMAIN c.hidden |-> p[b]]
  BY DEF Pooled
<1>2. DOMAIN p = DOMAIN c.hidden
  BY ONLY <1>1
<1>3. ASSUME NEW b \in DOMAIN c.hidden, NEW i \in 1 .. PoolSize
      PROVE  p[b] = [j \in 1 .. PoolSize |-> p[b][j]] /\ p[b][i] \in Nat
  <2>1. Positions(p[b], PoolSize, Len(c.memory[b]))
    BY DEF Pooled
  <2>2. p[b] = [j \in 1 .. PoolSize |-> p[b][j]] /\ p[b][i] \in 0 .. Len(c.memory[b]) - 1
    BY ONLY <2>1, i \in 1 .. PoolSize DEF Positions
  <2>3. Len(c.memory[b]) \in Nat
    BY MemoryIs
  <2> QED BY <2>2, <2>3
<1>4. 1 \in 1 .. PoolSize
  BY SizesAssumption
<1> QED BY <1>1, <1>2, <1>3, <1>4 DEF PoolShaped

\* A pool that can be gathered is one of positions of the memory.
LEMMA PoolIsPooled ==
  ASSUME StackTyped, call # NONE, PoolFits
  PROVE  Pooled(pool, call)
<1>1. PICK c \in Calls : c = call
  BY DEF StackTyped
<1>2. PICK p : p = pool
  OBVIOUS
<1>3. /\ DOMAIN p = DOMAIN c.hidden /\ p = [b \in DOMAIN p |-> p[b]]
      /\ \A b \in DOMAIN p :
           /\ p[b] = [i \in 1 .. PoolSize |-> p[b][i]]
           /\ \A i \in 1 .. PoolSize : p[b][i] \in Nat
           /\ \A q \in ToSet(p[b]) : q < Len(c.memory[b])
  BY <1>1, <1>2 DEF StackTyped, PoolShaped, PoolFits, InMemory
<1>4. ASSUME NEW b \in DOMAIN c.hidden PROVE Positions(p[b], PoolSize, Len(c.memory[b]))
  <2>1. PICK m \in Nat : m = Len(c.memory[b])
    BY MemoryIs
  <2>2. p[b] = [i \in 1 .. PoolSize |-> p[b][i]] /\ PoolSize \in Nat
    BY <1>3, SizesAssumption
  <2>3. DOMAIN p[b] = 1 .. PoolSize /\ Len(p[b]) = PoolSize
    BY ONLY <2>2
  <2>4. ASSUME NEW i \in 1 .. PoolSize PROVE p[b][i] \in 0 .. m - 1
    <3>1. p[b][i] \in ToSet(p[b])
      BY <2>3 DEF ToSet
    <3>2. p[b][i] \in Nat /\ p[b][i] < m
      BY <1>3, <2>1, <3>1
    <3> QED BY <3>2
  <2> QED BY <2>1, <2>2, <2>3, <2>4 DEF Positions
<1> QED BY <1>1, <1>2, <1>3, <1>4 DEF Pooled

\* A pool or a selection for the call is not refused.
LEMMA PooledFits ==
  ASSUME call \in Calls, Pooled(pool, call) PROVE PoolFits
<1>1. PICK c \in Calls : c = call
  OBVIOUS
<1>2. PICK p : p = pool
  OBVIOUS
<1>3. p = [b \in DOMAIN c.hidden |-> p[b]] /\ DOMAIN p = DOMAIN c.hidden
  <2>1. p = [b \in DOMAIN c.hidden |-> p[b]]
    BY <1>1, <1>2 DEF Pooled
  <2> QED BY ONLY <2>1
<1>4. ASSUME NEW b \in DOMAIN c.hidden
      PROVE  p[b] \in [1 .. PoolSize -> Nat] /\ \A q \in ToSet(p[b]) : q < Len(c.memory[b])
  <2>1. PICK m \in Nat : m = Len(c.memory[b])
    BY MemoryIs
  <2>2. /\ DOMAIN p[b] = 1 .. PoolSize /\ p[b] = [i \in 1 .. PoolSize |-> p[b][i]]
        /\ \A i \in 1 .. PoolSize : p[b][i] \in 0 .. m - 1
    BY <1>1, <1>2, <2>1 DEF Pooled, Positions
  <2>3. \A i \in 1 .. PoolSize : p[b][i] \in Nat /\ p[b][i] < m
    BY <2>2
  <2>4. p[b] \in [1 .. PoolSize -> Nat]
    BY ONLY <2>2, <2>3
  <2> QED BY <2>1, <2>2, <2>3, <2>4 DEF ToSet
<1>5. p \in [DOMAIN c.hidden -> [1 .. PoolSize -> Nat]]
  BY ONLY <1>3, <1>4
<1>6. p # NONE
  BY <1>5, NoneAssumption
<1> QED BY <1>1, <1>2, <1>3, <1>4, <1>6 DEF PoolFits, InMemory

LEMMA ChosenFits ==
  ASSUME call \in Calls, Chosen(published, call) PROVE PublishedFits
<1>1. PICK c \in Calls : c = call
  OBVIOUS
<1>2. PICK s : s = published
  OBVIOUS
<1>3. s = [b \in DOMAIN c.hidden |-> s[b]] /\ DOMAIN s = DOMAIN c.hidden
  <2>1. s = [b \in DOMAIN c.hidden |-> s[b]]
    BY <1>1, <1>2 DEF Chosen
  <2> QED BY ONLY <2>1
<1>4. ASSUME NEW b \in DOMAIN c.hidden
      PROVE  /\ s[b] \in Seq(Seq(Nat)) /\ DOMAIN s[b] = DOMAIN c.hidden[b]
             /\ \A t \in DOMAIN s[b] : \A q \in ToSet(s[b][t]) : q < Len(c.memory[b])
  <2>1. PICK m \in Nat : m = Len(c.memory[b])
    BY MemoryIs
  <2>2. PICK n \in Nat : DOMAIN c.hidden[b] = 1 .. n
    BY CallsAssumption
  <2>3. s[b] = [t \in 1 .. n |-> s[b][t]] /\ \A t \in 1 .. n : s[b][t] \in Seq(0 .. m - 1)
    BY <1>1, <1>2, <2>1, <2>2 DEF Chosen
  <2>4. ASSUME NEW t \in 1 .. n
        PROVE  s[b][t] \in Seq(Nat) /\ \A q \in ToSet(s[b][t]) : q < m
    <3>1. PICK ids \in Seq(0 .. m - 1) : ids = s[b][t]
      BY <2>3
    <3>2. 0 .. m - 1 \subseteq Nat
      OBVIOUS
    <3>3. ids \in Seq(Nat)
      BY ONLY ids \in Seq(0 .. m - 1), <3>2
    <3>4. ASSUME NEW q \in ToSet(ids) PROVE q < m
      <4>1. PICK i \in DOMAIN ids : q = ids[i]
        BY DEF ToSet
      <4>2. q \in 0 .. m - 1
        BY ONLY ids \in Seq(0 .. m - 1), <4>1
      <4> QED BY <4>2
    <3> QED BY ONLY <3>1, <3>3, <3>4
  <2>5. s[b] \in [1 .. n -> Seq(Nat)] /\ DOMAIN s[b] = 1 .. n
    BY ONLY <2>3, <2>4
  <2>6. s[b] \in Seq(Seq(Nat))
    BY ONLY <2>5, n \in Nat
  <2> QED BY ONLY <2>1, <2>2, <2>4, <2>5, <2>6
<1>5. s \in [DOMAIN c.hidden -> Seq(Seq(Nat))]
  BY ONLY <1>3, <1>4
<1>6. s # NONE
  BY <1>5, NoneAssumption
<1> QED BY <1>1, <1>2, <1>3, <1>4, <1>6 DEF PublishedFits, InMemory

\* Layer n + 1 of a stack of modes m runs, and s follows what the layers before it read.
NextOf(m, c, n, read, more, s, mode) ==
  /\ m \in Cadences /\ c \in Calls /\ n \in Nat
  /\ n + 1 \in DOMAIN m /\ m[n + 1] = mode /\ n + 1 \in 0 .. Len(m)
  /\ Len(more) = n + 1 /\ more = [i \in 1 .. n + 1 |-> more[i]]
  /\ more[n + 1] = s /\ \A i \in 1 .. n : more[i] = read[i]

LEMMA NextLayer ==
  ASSUME StackTyped, NEW mode, Runs(mode), NEW s
  PROVE  /\ NextOf(cadence, call, Len(indices), indices, Append(indices, s), s, mode)
         /\ Layer = Len(indices) + 1 /\ call # NONE
<1>1. PICK m \in Cadences, c \in Calls : m = cadence /\ c = call
  BY DEF StackTyped, Runs
<1>2. Len(m) \in Nat /\ DOMAIN m = 1 .. Len(m)
  BY CadencesAssumption
<1>3. PICK n \in Nat : n = Len(indices) /\ n \in 0 .. Len(m) /\ indices = [i \in 1 .. n |-> indices[i]]
  BY <1>1, <1>2 DEF StackTyped
<1>4. n + 1 = Layer /\ n + 1 \in DOMAIN m /\ m[n + 1] = mode /\ n + 1 \in 0 .. Len(m)
  BY <1>1, <1>2, <1>3 DEF Runs, Layer
<1>5. PICK more : more = Append(indices, s)
  OBVIOUS
<1>6. /\ Len(more) = n + 1 /\ more = [i \in 1 .. n + 1 |-> more[i]]
      /\ more[n + 1] = s /\ \A i \in 1 .. n : more[i] = indices[i]
  BY <1>3, <1>5, AppendedList
<1>7. NextOf(m, c, n, indices, more, s, mode)
  BY <1>4, <1>6 DEF NextOf
<1> QED BY <1>1, <1>3, <1>4, <1>5, <1>7 DEF Runs

LEMMA FullStep == StackInvariant /\ FullLayer => StackInvariant'
<1> SUFFICES ASSUME StackInvariant, FullLayer PROVE StackInvariant'
  OBVIOUS
<1>1. StackTyped /\ Runs("full") /\ chunk \in ChunkSizes
  BY DEF StackInvariant, StackTyped, FullLayer
<1>2. PICK s : s = FullIndices(call, Layer)
  OBVIOUS
<1>3. PICK m \in Cadences, c \in Calls, n \in Nat, more \in {Append(indices, s)} :
        /\ m = cadence /\ c = call /\ n = Len(indices) /\ n + 1 = Layer
        /\ n + 1 \in DOMAIN m /\ m[n + 1] = "full" /\ n + 1 \in 0 .. Len(m)
        /\ Len(more) = n + 1 /\ more = [i \in 1 .. n + 1 |-> more[i]]
        /\ more[n + 1] = s /\ \A i \in 1 .. n : more[i] = indices[i]
  BY <1>1, NextLayer DEF NextOf
<1>4. /\ indices' = more /\ published' = s /\ pool' = PoolFromIndices(s)
      /\ cadence' = m /\ call' = c /\ chunk' = chunk /\ snapshot' = snapshot
  BY <1>2, <1>3 DEF FullLayer
<1>5. Chosen(s, c)
  BY <1>1, <1>2, <1>3, FullChosen
<1>6. Pooled(PoolFromIndices(s), c) /\ PoolShaped(PoolFromIndices(s))
  BY <1>5, PoolDrawn, PooledShaped
<1>7. call # NONE
  BY <1>1 DEF Runs
<1>8. StackTyped'
  <2>1. snapshot # NONE => PoolShaped(snapshot.pool)
    BY <1>1 DEF StackTyped
  <2> QED BY <1>1, <1>3, <1>4, <1>6, <1>7, <2>1 DEF StackTyped
<1>9. Reads'
  <2>1. SUFFICES ASSUME m[1] = "full" PROVE Reading(m, c, more, n + 1, s, PoolFromIndices(s))
    BY <1>3, <1>4 DEF Reads
  <2>2. PICK read : read = indices
    OBVIOUS
  <2>3. n # 0 => ReadsLastFull(m, c, read, n)
    BY <1>3, <1>7, <2>1, <2>2 DEF StackInvariant, Reads, Reading
  <2>4. \A i \in 1 .. n : more[i] = read[i]
    BY <1>3, <2>2
  <2>5. more[n + 1] = s /\ m[n + 1] = "full"
    BY <1>3
  <2> QED BY <1>5, <2>1, <2>3, <2>4, <2>5, FullReads
<1>10. SelectionExact'
  <2>1. ExactFor(m, c, more, n + 1, PoolFromIndices(s))
    <3>1. more[n + 1] = FullIndices(c, n + 1)
      BY <1>2, <1>3
    <3> QED BY <1>1, <1>3, <3>1, FullExact
  <2>2. SelectionExact' <=>
          (call' # NONE /\ Len(indices') > 0 => ExactFor(cadence', call', indices', Len(indices'), pool'))
    BY DEF SelectionExact, Ran, ExactFor
  <2> QED BY <1>3, <1>4, <2>1, <2>2
<1> QED BY <1>8, <1>9, <1>10 DEF StackInvariant

LEMMA ReindexStep == StackInvariant /\ ReindexLayer => StackInvariant'
<1> SUFFICES ASSUME StackInvariant, ReindexLayer PROVE StackInvariant'
  OBVIOUS
<1>1. StackTyped /\ Runs("reindex") /\ chunk \in ChunkSizes /\ PoolFits /\ call # NONE
  BY DEF StackInvariant, StackTyped, ReindexLayer, Runs
<1>2. PICK s : s = ReindexIndices(call, Layer, pool)
  OBVIOUS
<1>3. PICK m \in Cadences, c \in Calls, n \in Nat, more \in {Append(indices, s)} :
        /\ m = cadence /\ c = call /\ n = Len(indices) /\ n + 1 = Layer
        /\ n + 1 \in DOMAIN m /\ m[n + 1] = "reindex" /\ n + 1 \in 0 .. Len(m)
        /\ Len(more) = n + 1 /\ more = [i \in 1 .. n + 1 |-> more[i]]
        /\ more[n + 1] = s /\ \A i \in 1 .. n : more[i] = indices[i]
  BY <1>1, NextLayer DEF NextOf
<1>4. PICK p, pub, read : p = pool /\ pub = published /\ read = indices
  OBVIOUS
<1>5. /\ indices' = more /\ published' = s /\ pool' = p
      /\ cadence' = m /\ call' = c /\ chunk' = chunk /\ snapshot' = snapshot
  BY <1>2, <1>3, <1>4 DEF ReindexLayer
<1>6. Pooled(p, c)
  BY <1>1, <1>3, <1>4, PoolIsPooled
<1>7. /\ Chosen(s, c)
      /\ \A b \in DOMAIN c.hidden : \A x \in SeenIn(s, c, b) :
           DOMAIN c.hidden[b] # {} /\ \E i \in 1 .. PoolSize : x = p[b][i]
  <2>1. s = ReindexIndices(c, n + 1, p) /\ n + 1 \in DOMAIN m
    BY <1>2, <1>3, <1>4
  <2> QED BY <1>1, <1>6, <2>1, ReindexChosen
<1>8. StackTyped'
  <2>1. PoolShaped(p) /\ (snapshot # NONE => PoolShaped(snapshot.pool))
    BY <1>1, <1>4 DEF StackTyped
  <2> QED BY <1>1, <1>3, <1>5, <2>1 DEF StackTyped
<1>9. Reads'
  <2>1. SUFFICES ASSUME m[1] = "full" PROVE Reading(m, c, more, n + 1, s, p)
    BY <1>3, <1>5 DEF Reads
  <2>2. n # 0 /\ m[n + 1] # "full"
    BY <1>3, <2>1
  <2>3. Reading(m, c, read, n, pub, p)
    BY <1>1, <1>3, <1>4, <2>1, <2>2 DEF StackInvariant, Reads
  <2>4. ASSUME NEW b \in DOMAIN c.hidden
        PROVE  SeenIn(s, c, b) \subseteq SeenIn(read[LastFull(m, n)], c, b)
    <3>1. Drawn(p, read[LastFull(m, n)], c)
      BY <2>3 DEF Reading
    <3> QED BY <1>7, <3>1 DEF Drawn
  <2>5. \A i \in 1 .. n : more[i] = read[i]
    BY <1>3, <1>4
  <2>6. more[n + 1] = s /\ n \in Nat \ {0}
    BY <1>3, <2>2
  <2> QED BY <1>7, <2>1, <2>2, <2>3, <2>4, <2>5, <2>6, LaterReads
<1>10. SelectionExact'
  <2>1. ExactFor(m, c, more, n + 1, p)
    <3>1. more[n + 1] = ReindexIndices(c, n + 1, p)
      BY <1>2, <1>3, <1>4
    <3> QED BY <1>1, <1>3, <1>6, <3>1, ReindexExact
  <2>2. SelectionExact' <=>
          (call' # NONE /\ Len(indices') > 0 => ExactFor(cadence', call', indices', Len(indices'), pool'))
    BY DEF SelectionExact, Ran, ExactFor
  <2> QED BY <1>3, <1>5, <2>1, <2>2
<1> QED BY <1>8, <1>9, <1>10 DEF StackInvariant

LEMMA ReuseStep == StackInvariant /\ ReuseLayer => StackInvariant'
<1> SUFFICES ASSUME StackInvariant, ReuseLayer PROVE StackInvariant'
  OBVIOUS
<1>1. StackTyped /\ Runs("reuse") /\ call # NONE
  BY DEF StackInvariant, ReuseLayer, Runs
<1>2. PICK s, p, read : s = published /\ p = pool /\ read = indices
  OBVIOUS
<1>3. PICK m \in Cadences, c \in Calls, n \in Nat, more \in {Append(indices, s)} :
        /\ m = cadence /\ c = call /\ n = Len(indices) /\ n + 1 = Layer
        /\ n + 1 \in DOMAIN m /\ m[n + 1] = "reuse" /\ n + 1 \in 0 .. Len(m)
        /\ Len(more) = n + 1 /\ more = [i \in 1 .. n + 1 |-> more[i]]
        /\ more[n + 1] = s /\ \A i \in 1 .. n : more[i] = indices[i]
  BY <1>1, NextLayer DEF NextOf
<1>4. /\ indices' = more /\ published' = s /\ pool' = p
      /\ cadence' = m /\ call' = c /\ chunk' = chunk /\ snapshot' = snapshot
  BY <1>2, <1>3 DEF ReuseLayer
<1>5. StackTyped'
  <2>1. PoolShaped(p) /\ (snapshot # NONE => PoolShaped(snapshot.pool)) /\ chunk \in ChunkSizes
    BY <1>1, <1>2 DEF StackTyped
  <2> QED BY <1>1, <1>3, <1>4, <2>1 DEF StackTyped
<1>6. Reads'
  <2>1. SUFFICES ASSUME m[1] = "full" PROVE Reading(m, c, more, n + 1, s, p)
    BY <1>3, <1>4 DEF Reads
  <2>2. n # 0 /\ m[n + 1] # "full"
    BY <1>3, <2>1
  <2>3. Reading(m, c, read, n, s, p)
    BY <1>1, <1>2, <1>3, <2>1, <2>2 DEF StackInvariant, Reads
  <2>4. Chosen(s, c) /\ s = read[n] /\ ReadsLastFull(m, c, read, n) /\ n \in 1 .. n
    BY <2>2, <2>3 DEF Reading
  <2>5. \A b \in DOMAIN c.hidden : SeenIn(s, c, b) \subseteq SeenIn(read[LastFull(m, n)], c, b)
    BY <2>4 DEF ReadsLastFull
  <2>6. \A i \in 1 .. n : more[i] = read[i]
    BY <1>2, <1>3
  <2>7. more[n + 1] = s /\ n \in Nat \ {0}
    BY <1>3, <2>2
  <2> QED BY <2>1, <2>2, <2>3, <2>4, <2>5, <2>6, <2>7, LaterReads
<1>7. SelectionExact'
  <2>1. ExactFor(m, c, more, n + 1, p)
    BY <1>3 DEF ExactFor
  <2>2. SelectionExact' <=>
          (call' # NONE /\ Len(indices') > 0 => ExactFor(cadence', call', indices', Len(indices'), pool'))
    BY DEF SelectionExact, Ran, ExactFor
  <2> QED BY <1>3, <1>4, <2>1, <2>2
<1> QED BY <1>5, <1>6, <1>7 DEF StackInvariant

LEMMA IdleStep ==
  StackInvariant /\ (Begin \/ Raise \/ Return \/ TakeSnapshot \/ LoadSnapshot) => StackInvariant'
<1> SUFFICES ASSUME StackInvariant, Begin \/ Raise \/ Return \/ TakeSnapshot \/ LoadSnapshot
             PROVE  StackInvariant'
  OBVIOUS
<1>1. StackTyped
  BY DEF StackInvariant
<1>2. (call' = NONE \/ indices' = <<>>) /\ (call' = NONE => indices' = <<>>) /\ cadence' = cadence
  BY <1>1 DEF StackTyped, Begin, Raise, Return, TakeSnapshot, LoadSnapshot
<1>3. chunk' \in ChunkSizes /\ (call' # NONE => call' \in Calls)
  BY <1>1 DEF StackTyped, Begin, Raise, Return, TakeSnapshot, LoadSnapshot
<1>4. PoolShaped(pool') /\ (snapshot' # NONE => PoolShaped(snapshot'.pool))
  <2>1. PoolShaped(NONE)
    BY DEF PoolShaped
  <2>2. PoolShaped(pool) /\ (snapshot # NONE => PoolShaped(snapshot.pool))
    BY <1>1 DEF StackTyped
  <2>3. CASE TakeSnapshot
    BY <2>2, <2>3 DEF TakeSnapshot
  <2>4. CASE LoadSnapshot
    BY <2>1, <2>2, <2>4 DEF LoadSnapshot
  <2>5. CASE Begin \/ Raise \/ Return
    BY <2>2, <2>5 DEF Begin, Raise, Return
  <2> QED BY <2>3, <2>4, <2>5
<1>5. indices' = <<>>
  BY <1>2
<1>6. StackTyped'
  <2>1. cadence \in Cadences /\ Len(cadence) \in Nat
    BY <1>1, CadencesAssumption DEF StackTyped
  <2>2. Len(indices') \in 0 .. Len(cadence') /\ indices' = [i \in 1 .. Len(indices') |-> indices'[i]]
    BY <1>2, <1>5, <2>1
  <2> QED BY <1>2, <1>3, <1>4, <1>5, <2>1, <2>2 DEF StackTyped
<1>7. Reads'
  BY <1>5 DEF Reads
<1>8. SelectionExact'
  BY <1>5 DEF SelectionExact, Ran
<1> QED BY <1>6, <1>7, <1>8 DEF StackInvariant

\* Nothing of the stack changes in a retrieval.
LEMMA StackUnchanged == StackInvariant /\ UNCHANGED stackVars => StackInvariant'
<1> SUFFICES ASSUME StackInvariant, UNCHANGED stackVars PROVE StackInvariant'
  OBVIOUS
<1>1. /\ cadence' = cadence /\ published' = published /\ pool' = pool /\ call' = call
      /\ chunk' = chunk /\ indices' = indices /\ snapshot' = snapshot
  BY DEF stackVars
<1>2. StackTyped'
  BY <1>1 DEF StackInvariant, StackTyped
<1>3. Reads'
  BY <1>1 DEF StackInvariant, Reads
<1>4. SelectionExact'
  <2>1. SelectionExact' <=>
          (call' # NONE /\ Len(indices') > 0 => ExactFor(cadence', call', indices', Len(indices'), pool'))
    BY DEF SelectionExact, Ran, ExactFor
  <2> QED BY <1>1, <2>1, SelectionIs DEF StackInvariant
<1> QED BY <1>2, <1>3, <1>4 DEF StackInvariant

LEMMA StackBegins == Init => StackInvariant
<1> SUFFICES ASSUME Init PROVE StackInvariant
  OBVIOUS
<1>1. /\ cadence \in Cadences /\ pool = NONE /\ call = NONE /\ chunk \in ChunkSizes
      /\ indices = <<>> /\ snapshot = NONE
  BY DEF Init, StackInit
<1>2. Len(cadence) \in Nat
  BY <1>1, CadencesAssumption
<1>3. StackTyped
  <2>1. Len(indices) \in 0 .. Len(cadence) /\ indices = [i \in 1 .. Len(indices) |-> indices[i]]
    BY <1>1, <1>2
  <2> QED BY <1>1, <2>1 DEF StackTyped, PoolShaped
<1>4. Reads /\ SelectionExact
  BY <1>1 DEF Reads, SelectionExact, Ran
<1> QED BY <1>3, <1>4 DEF StackInvariant

LEMMA StackSteps == StackInvariant /\ [Next]_vars => StackInvariant'
<1> SUFFICES ASSUME StackInvariant, [Next]_vars PROVE StackInvariant'
  OBVIOUS
<1>1. CASE FullLayer
  BY <1>1, FullStep
<1>2. CASE ReindexLayer
  BY <1>2, ReindexStep
<1>3. CASE ReuseLayer
  BY <1>3, ReuseStep
<1>4. CASE Begin \/ Raise \/ Return \/ TakeSnapshot \/ LoadSnapshot
  BY <1>4, IdleStep
<1>5. CASE Retrieve
  BY <1>5, StackUnchanged DEF Retrieve
<1>6. CASE UNCHANGED vars
  BY <1>6, StackUnchanged DEF vars, stackVars
<1> QED BY <1>1, <1>2, <1>3, <1>4, <1>5, <1>6 DEF Next, StackNext

\* Every layer of the stack selects exactly the top-k of what it scores, a full
\* layer of the memory and a reindex layer of the pool, whatever the chunk size.
THEOREM SelectsExactly == Spec => []SelectionExact
<1>1. StackInvariant => SelectionExact
  BY DEF StackInvariant
<1> QED BY <1>1, StackBegins, StackSteps, PTL DEF Spec

\* A stack that begins with a full layer never reads what another call left.
THEOREM ReadsOwnMemory == Spec => []ReadsThisMemory
<1>1. StackInvariant => ReadsThisMemory
  <2> SUFFICES ASSUME StackInvariant, call # NONE, cadence[1] = "full"
               PROVE  /\ ~ Refused
                      /\ \A l \in DOMAIN indices, b \in DOMAIN call.hidden :
                           SeenIn(indices[l], call, b)
                             \subseteq SeenIn(indices[LastFull(cadence, l)], call, b)
    BY DEF ReadsThisMemory, SeenIn, LastFull
  <2>1. PICK m \in Cadences, c \in Calls : m = cadence /\ c = call
    BY DEF StackInvariant, StackTyped
  <2>2. PICK n \in Nat : n = Len(indices) /\ indices = [i \in 1 .. n |-> indices[i]]
    BY <2>1, CadencesAssumption DEF StackInvariant, StackTyped
  <2>3. DOMAIN indices = 1 .. n
    BY ONLY <2>2
  <2>4. CASE n = 0
    <3>1. ~ Refused
      BY <2>2, <2>4 DEF Refused, Runs, Layer
    <3> QED BY <2>3, <2>4, <3>1
  <2>5. CASE n # 0
    <3>1. Reading(m, c, indices, n, published, pool)
      BY <2>1, <2>2, <2>5 DEF StackInvariant, Reads
    <3>2. PoolFits /\ PublishedFits
      BY <2>1, <3>1, PooledFits, ChosenFits DEF Reading
    <3>3. ~ Refused
      BY <3>2 DEF Refused
    <3> QED BY <2>1, <2>3, <3>1, <3>3 DEF Reading, ReadsLastFull
  <2> QED BY <2>4, <2>5
<1> QED BY <1>1, StackBegins, StackSteps, PTL DEF Spec

-----------------------------------------------------------------------------
(* The hierarchical retrieval                                              *)

\* The k best of m positions, whichever of equal ones.
Best(ids, k, dense, m) ==
  /\ \A i \in 1 .. k : ids[i] \in 0 .. m - 1
  /\ \A i, j \in 1 .. k : i # j => ids[i] # ids[j]
  /\ \A i, j \in 1 .. k : i < j => dense[ids[i] + 1] >= dense[ids[j] + 1]
  /\ \A p \in 0 .. m - 1 : (\A i \in 1 .. k : ids[i] # p) =>
       \A i \in 1 .. k : dense[ids[i] + 1] >= dense[p + 1]

\* The i-th best scores no more in one selection than in another.
LEMMA BestNoBetter ==
  ASSUME NEW dense, NEW m, IsRow(dense, m), NEW k \in Nat, NEW s, Best(s, k, dense, m),
         NEW t, Best(t, k, dense, m), NEW i \in 1 .. k
  PROVE  dense[s[i] + 1] <= dense[t[i] + 1]
<1>1. m \in Nat /\ \A p \in 0 .. m - 1 : dense[p + 1] \in Int
  <2>1. m \in Nat
    BY DEF IsRow
  <2>2. ASSUME NEW p \in 0 .. m - 1 PROVE dense[p + 1] \in Int
    <3>1. p + 1 \in 1 .. m
      BY <2>1
    <3> QED BY <3>1 DEF IsRow
  <2> QED BY <2>1, <2>2
<1>2. PICK v \in Int : v = dense[t[i] + 1]
  BY <1>1 DEF Best
<1>3. PICK u \in Int : u = dense[s[i] + 1]
  BY <1>1 DEF Best
<1>4. SUFFICES ASSUME u > v PROVE FALSE
  BY <1>2, <1>3
<1>5. ASSUME NEW j \in 1 .. i PROVE \E x \in 1 .. i - 1 : t[x] = s[j]
  <2>1. j \in 1 .. k /\ i \in Nat /\ j \in Nat
    OBVIOUS
  <2>2. PICK p \in 0 .. m - 1 : p = s[j]
    BY <2>1 DEF Best
  <2>3. PICK w \in Int : w = dense[p + 1]
    BY <1>1
  <2>4. w > v
    <3>1. CASE j = i
      BY <1>3, <1>4, <2>2, <2>3, <3>1
    <3>2. CASE j # i
      <4>1. j < i
        BY <2>1, <3>2
      <4>2. w >= u
        BY <1>3, <2>1, <2>2, <2>3, <4>1 DEF Best
      <4> QED BY <1>4, <4>2
    <3> QED BY <3>1, <3>2
  <2>5. PICK x \in 1 .. k : t[x] = p
    <3>1. SUFFICES ASSUME \A x \in 1 .. k : t[x] # p PROVE FALSE
      OBVIOUS
    <3>2. v >= w
      BY <1>2, <2>3, <3>1 DEF Best
    <3> QED BY <2>4, <3>2
  <2>6. x < i
    <3>1. SUFFICES ASSUME ~ (x < i) PROVE FALSE
      OBVIOUS
    <3>2. CASE x = i
      BY <1>2, <2>3, <2>4, <2>5, <3>2
    <3>3. CASE x # i
      <4>1. i < x
        BY <2>1, <3>1, <3>3
      <4>2. v >= w
        BY <1>2, <2>3, <2>5, <4>1 DEF Best
      <4> QED BY <2>4, <4>2
    <3> QED BY <3>2, <3>3
  <2>7. x \in 1 .. i - 1
    BY <2>1, <2>6
  <2> QED BY <2>2, <2>5, <2>7
<1>6. PICK f : f = [j \in 1 .. i |-> CHOOSE x \in 1 .. i - 1 : t[x] = s[j]]
  OBVIOUS
<1>7. \A j \in 1 .. i : f[j] \in 1 .. i - 1 /\ t[f[j]] = s[j]
  BY <1>5, <1>6
<1>8. f \in [1 .. i -> 1 .. i - 1]
  BY <1>6, <1>7
<1>9. /\ IsFiniteSet(1 .. i) /\ IsFiniteSet(1 .. i - 1)
      /\ Cardinality(1 .. i - 1) < Cardinality(1 .. i)
  <2>1. i \in Nat /\ i - 1 \in Nat
    OBVIOUS
  <2>2. Cardinality(1 .. i) = i /\ Cardinality(1 .. i - 1) = i - 1
        /\ IsFiniteSet(1 .. i) /\ IsFiniteSet(1 .. i - 1)
    BY <2>1, FS_Interval
  <2> QED BY <2>1, <2>2
<1>10. PICK x \in 1 .. i, y \in 1 .. i : x # y /\ f[x] = f[y]
  BY <1>8, <1>9, FS_PigeonHole
<1>11. s[x] = s[y] /\ x \in 1 .. k /\ y \in 1 .. k
  BY <1>7, <1>10
<1> QED BY <1>10, <1>11 DEF Best

\* A top-k is a selection of the best.
LEMMA TopIsBest ==
  ASSUME NEW dense, NEW m, IsRow(dense, m), NEW k \in Nat, k <= m, NEW t \in [1 .. k -> 0 .. m - 1],
         IsTopK(t, dense, k)
  PROVE  Best(t, k, dense, m)
<1>1. m \in Nat /\ Len(dense) = m /\ \A p \in 0 .. m - 1 : dense[p + 1] \in Int
  <2>1. m \in Nat /\ Len(dense) = m
    BY DEF IsRow
  <2>2. ASSUME NEW p \in 0 .. m - 1 PROVE dense[p + 1] \in Int
    <3>1. p + 1 \in 1 .. m
      BY <2>1
    <3> QED BY <3>1 DEF IsRow
  <2> QED BY <2>1, <2>2
<1>2. DOMAIN t = 1 .. k /\ \A i \in 1 .. k : t[i] \in 0 .. m - 1 /\ dense[t[i] + 1] \in Int
  BY <1>1
<1>3. ASSUME NEW i \in 1 .. k, NEW j \in 1 .. k, i < j
      PROVE  t[i] # t[j] /\ dense[t[i] + 1] >= dense[t[j] + 1]
  <2>1. t[i] # t[j] /\ ~ Before(Item(dense, t[j]), Item(dense, t[i]))
    BY <1>2, <1>3 DEF IsTopK, Item
  <2>2. ~ (dense[t[j] + 1] > dense[t[i] + 1])
    BY <2>1 DEF Before, Item
  <2> QED BY <1>2, <2>1, <2>2
<1>4. ASSUME NEW i \in 1 .. k, NEW j \in 1 .. k, i # j PROVE t[i] # t[j]
  <2>1. i < j \/ j < i
    BY <1>4
  <2> QED BY <1>3, <2>1
<1>5. ASSUME NEW p \in 0 .. m - 1, \A i \in 1 .. k : t[i] # p, NEW i \in 1 .. k
      PROVE  dense[t[i] + 1] >= dense[p + 1]
  <2>1. t[i] \in ToSet(t) /\ p \in (0 .. Len(dense) - 1) \ ToSet(t)
    BY <1>1, <1>2, <1>5 DEF ToSet
  <2>2. dense[t[i] + 1] > dense[p + 1] \/ dense[t[i] + 1] = dense[p + 1]
    BY <2>1 DEF IsTopK
  <2> QED BY <1>1, <1>2, <2>2
<1> QED BY <1>2, <1>3, <1>4, <1>5 DEF Best

\* The two stages: the pool is cands, and the result is read from it at slots.
Staged(coarse, cands, size, m, fine, slots, k, ids, dense) ==
  /\ m \in Nat /\ size \in Nat /\ k \in Nat \ {0} /\ k <= size /\ size <= m
  /\ SelectedAs(cands, size, coarse, m) /\ IsRow(dense, m)
  /\ IsRow(fine, size) /\ fine = [i \in 1 .. size |-> dense[cands[i] + 1]]
  /\ SelectedAs(slots, k, fine, size) /\ ids = [i \in 1 .. k |-> cands[slots[i] + 1]]

\* k positions of the pool that score as well as any other of it, in order.
BestOfPool(ids, k, m, cands, dense) ==
  /\ Len(ids) = k /\ DOMAIN ids = 1 .. k
  /\ \A i \in 1 .. k : ids[i] \in 0 .. m - 1 /\ ids[i] \in ToSet(cands)
  /\ \A i, j \in 1 .. k : i # j => ids[i] # ids[j]
  /\ \A i, j \in 1 .. k : i < j => dense[ids[i] + 1] >= dense[ids[j] + 1]
  /\ \A p \in ToSet(cands) : (\A i \in 1 .. k : ids[i] # p) =>
       \A i \in 1 .. k : dense[ids[i] + 1] >= dense[p + 1]

LEMMA StagedIs ==
  ASSUME NEW coarse, NEW cands, NEW size, NEW m, NEW fine, NEW slots, NEW k, NEW ids, NEW dense,
         Staged(coarse, cands, size, m, fine, slots, k, ids, dense)
  PROVE  BestOfPool(ids, k, m, cands, dense)
<1>1. /\ m \in Nat /\ size \in Nat /\ k \in Nat \ {0} /\ k <= size /\ size <= m
      /\ fine = [i \in 1 .. size |-> dense[cands[i] + 1]]
      /\ ids = [i \in 1 .. k |-> cands[slots[i] + 1]]
  BY DEF Staged
<1>2. /\ DOMAIN cands = 1 .. size /\ \A i \in 1 .. size : cands[i] \in 0 .. m - 1
      /\ \A i, j \in 1 .. size : i # j => cands[i] # cands[j]
  BY DEF Staged, SelectedAs
<1>3. /\ \A i \in 1 .. k : slots[i] \in 0 .. size - 1
      /\ \A i, j \in 1 .. k : i # j => slots[i] # slots[j]
      /\ \A i, j \in 1 .. k : i < j => Before(Item(fine, slots[i]), Item(fine, slots[j]))
      /\ \A p \in 0 .. size - 1 : (\A i \in 1 .. k : slots[i] # p) =>
           \A i \in 1 .. k : Before(Item(fine, slots[i]), Item(fine, p))
  BY DEF Staged, SelectedAs
<1>4. ASSUME NEW i \in 1 .. k
      PROVE  /\ slots[i] + 1 \in 1 .. size /\ slots[i] \in Int /\ ids[i] = cands[slots[i] + 1]
             /\ Item(fine, slots[i]).score = dense[ids[i] + 1]
  <2>1. slots[i] \in 0 .. size - 1
    BY <1>3
  <2>2. slots[i] + 1 \in 1 .. size /\ slots[i] \in Int
    BY <1>1, <2>1
  <2>3. ids[i] = cands[slots[i] + 1]
    BY <1>1
  <2>4. fine[slots[i] + 1] = dense[ids[i] + 1]
    BY <1>1, <2>2, <2>3
  <2> QED BY <2>2, <2>3, <2>4 DEF Item
<1>5. \A p \in 0 .. m - 1 : dense[p + 1] \in Int
  <2>1. ASSUME NEW p \in 0 .. m - 1 PROVE dense[p + 1] \in Int
    <3>1. p + 1 \in 1 .. m
      BY <1>1
    <3> QED BY <3>1 DEF Staged, IsRow
  <2> QED BY <2>1
<1>6. ASSUME NEW i \in 1 .. k
      PROVE  ids[i] \in 0 .. m - 1 /\ ids[i] \in ToSet(cands) /\ dense[ids[i] + 1] \in Int
  <2>1. ids[i] \in 0 .. m - 1 /\ ids[i] \in ToSet(cands)
    BY <1>2, <1>4 DEF ToSet
  <2> QED BY <1>5, <2>1
<1>7. ASSUME NEW i \in 1 .. k, NEW j \in 1 .. k, i # j PROVE ids[i] # ids[j]
  <2>1. slots[i] # slots[j]
    BY <1>3, <1>7
  <2>2. slots[i] + 1 # slots[j] + 1
    BY <1>4, <2>1
  <2> QED BY <1>2, <1>4, <2>2
<1>8. ASSUME NEW i \in 1 .. k, NEW j \in 1 .. k, i < j PROVE dense[ids[i] + 1] >= dense[ids[j] + 1]
  <2>1. Before(Item(fine, slots[i]), Item(fine, slots[j]))
    BY <1>3, <1>8
  <2>2. PICK x \in Int, y \in Int : x = dense[ids[i] + 1] /\ y = dense[ids[j] + 1]
    BY <1>6
  <2>3. x > y \/ x = y
    BY <1>4, <2>1, <2>2 DEF Before
  <2> QED BY <2>2, <2>3
<1>9. ASSUME NEW p \in ToSet(cands), \A i \in 1 .. k : ids[i] # p, NEW i \in 1 .. k
      PROVE  dense[ids[i] + 1] >= dense[p + 1]
  <2>1. PICK x \in 1 .. size : p = cands[x]
    BY <1>2 DEF ToSet
  <2>2. PICK q \in 0 .. size - 1 : q + 1 = x
    <3>1. x - 1 \in 0 .. size - 1 /\ (x - 1) + 1 = x
      BY <1>1
    <3> QED BY ONLY <3>1
  <2>3. \A j \in 1 .. k : slots[j] # q
    BY <1>4, <1>9, <2>1, <2>2
  <2>4. Before(Item(fine, slots[i]), Item(fine, q))
    BY <1>3, <2>3
  <2>5. Item(fine, q).score = dense[p + 1]
    BY <1>1, <2>1, <2>2 DEF Item
  <2>6. PICK y \in Int, z \in Int : y = dense[ids[i] + 1] /\ z = dense[p + 1]
    BY <1>2, <1>5, <1>6, <2>1
  <2>7. y > z \/ y = z
    BY <1>4, <2>4, <2>5, <2>6 DEF Before
  <2> QED BY <2>6, <2>7
<1>10. Len(ids) = k /\ DOMAIN ids = 1 .. k
  <2>1. k \in Nat
    BY <1>1
  <2> QED BY ONLY <1>1, <2>1
<1> QED BY <1>6, <1>7, <1>8, <1>9, <1>10 DEF BestOfPool

\* With a pool of the whole memory the result is a selection of the best.
LEMMA StagedBest ==
  ASSUME NEW coarse, NEW cands, NEW m, NEW fine, NEW slots, NEW k, NEW ids, NEW dense,
         Staged(coarse, cands, m, m, fine, slots, k, ids, dense)
  PROVE  Best(ids, k, dense, m)
<1>1. m \in Nat
  BY DEF Staged
<1>2. cands \in Injection(1 .. m, 0 .. m - 1)
  <2>1. /\ cands = [i \in 1 .. m |-> cands[i]] /\ \A i \in 1 .. m : cands[i] \in 0 .. m - 1
        /\ \A i, j \in 1 .. m : i # j => cands[i] # cands[j]
    BY DEF Staged, SelectedAs
  <2>2. cands \in [1 .. m -> 0 .. m - 1]
    BY ONLY <2>1
  <2> QED BY <2>1, <2>2 DEF Injection, IsInjective
<1>3. IsFiniteSet(0 .. m - 1) /\ Cardinality(0 .. m - 1) = Cardinality(1 .. m)
  <2>1. 0 \in Int /\ 1 \in Int /\ m \in Int /\ m - 1 \in Int
    BY <1>1
  <2>2. /\ IsFiniteSet(0 .. m - 1)
        /\ Cardinality(0 .. m - 1) = IF 0 > m - 1 THEN 0 ELSE m - 1 - 0 + 1
        /\ Cardinality(1 .. m) = IF 1 > m THEN 0 ELSE m - 1 + 1
    BY ONLY <2>1, FS_Interval
  <2> QED BY <1>1, <2>2
<1>4. cands \in Surjection(1 .. m, 0 .. m - 1)
  BY <1>2, <1>3, FS_Injection
<1>5. ASSUME NEW p \in 0 .. m - 1 PROVE p \in ToSet(cands)
  <2>1. DOMAIN cands = 1 .. m
    BY <1>2 DEF Injection
  <2> QED BY <1>4, <2>1 DEF Surjection, ToSet
<1>6. /\ \A i \in 1 .. k : ids[i] \in 0 .. m - 1
      /\ \A i, j \in 1 .. k : i # j => ids[i] # ids[j]
      /\ \A i, j \in 1 .. k : i < j => dense[ids[i] + 1] >= dense[ids[j] + 1]
      /\ \A p \in ToSet(cands) : (\A i \in 1 .. k : ids[i] # p) =>
           \A i \in 1 .. k : dense[ids[i] + 1] >= dense[p + 1]
  BY StagedIs DEF BestOfPool
<1> QED BY <1>5, <1>6 DEF Best

LEMMA LeastOfLeast ==
  ASSUME NEW top \in Nat \ {0}, NEW size \in Nat, size >= top, NEW m \in Nat \ {0}
  PROVE  /\ Least(size, m) \in Nat \ {0} /\ Least(size, m) <= m
         /\ Least(top, Least(size, m)) \in Nat \ {0} /\ Least(top, Least(size, m)) <= Least(size, m)
         /\ Least(top, Least(size, m)) = Least(top, m)
         /\ Least(Least(size, m), m) = Least(size, m)
         /\ Least(Least(top, Least(size, m)), Least(size, m)) = Least(top, Least(size, m))
         /\ size >= m => Least(size, m) = m
BY DEF Least

\* What one retrieval returns.
LEMMA RetrieveReturns ==
  ASSUME NEW c \in Calls, NEW config \in IndexPools, NEW b \in DOMAIN c.hidden,
         NEW t \in DOMAIN c.hidden[b], NEW r,
         NEW size, size = Least(config.pool, Len(c.memory[b])),
         NEW cands, cands = CandidatePool(c.hidden[b][t], c.memory[b], size),
         r = [query |-> c.hidden[b][t], memory |-> c.memory[b], config |-> config, candidates |-> cands,
              indices |-> FineTopK(c.hidden[b][t], c.memory[b], cands, Least(config.top, size))]
  PROVE  RetrievesTop(r)
<1>1. PICK q, mem : q = c.hidden[b][t] /\ mem = c.memory[b]
  OBVIOUS
<1>2. PICK m \in Nat \ {0} : m = Len(mem) /\ DOMAIN mem = 1 .. m
  BY <1>1, MemoryIs
<1>3. PICK top \in Nat \ {0}, whole \in Nat : top = config.top /\ whole = config.pool /\ whole >= top
  BY IndexAssumption
<1>4. PICK k \in Nat \ {0} : /\ k = Least(top, size) /\ k = Least(top, m) /\ k <= size /\ Least(k, size) = k
                             /\ size \in Nat \ {0} /\ size <= m /\ Least(size, m) = size
                             /\ size = Least(whole, m) /\ (whole >= m => size = m)
  <2>1. size = Least(whole, m) /\ whole >= top
    BY <1>1, <1>2, <1>3
  <2>2. /\ Least(whole, m) \in Nat \ {0} /\ Least(whole, m) <= m
        /\ Least(top, Least(whole, m)) \in Nat \ {0} /\ Least(top, Least(whole, m)) <= Least(whole, m)
        /\ Least(top, Least(whole, m)) = Least(top, m)
        /\ Least(Least(whole, m), m) = Least(whole, m)
        /\ Least(Least(top, Least(whole, m)), Least(whole, m)) = Least(top, Least(whole, m))
        /\ whole >= m => Least(whole, m) = m
    BY ONLY <2>1, top \in Nat \ {0}, whole \in Nat, m \in Nat \ {0}, LeastOfLeast
  <2> QED BY ONLY <2>1, <2>2
<1>5. \A p \in 1 .. m : Coarse[q][mem[p]] \in Int /\ Fine[q][mem[p]] \in Int
  <2>1. b \in DOMAIN c.memory
    BY CallsAssumption
  <2> QED BY <1>1, <1>2, <2>1, TablesAssumption
<1>6. PICK coarse : coarse = RowOf(Coarse, q, mem) /\ IsRow(coarse, m)
  <2>1. RowOf(Coarse, q, mem) = [p \in 1 .. m |-> Coarse[q][mem[p]]]
    BY <1>2 DEF RowOf
  <2>2. \A p \in 1 .. m : RowOf(Coarse, q, mem)[p] \in Int
    BY <1>5, <2>1
  <2>3. DOMAIN RowOf(Coarse, q, mem) = 1 .. m /\ m \in Nat /\ Len(RowOf(Coarse, q, mem)) = m
    BY <2>1
  <2> QED BY <2>2, <2>3 DEF IsRow
<1>7. PICK dense : dense = [p \in DOMAIN mem |-> Fine[q][mem[p]]] /\ IsRow(dense, m)
                   /\ \A p \in 1 .. m : dense[p] = Fine[q][mem[p]]
  <2>1. PICK dense : dense = [p \in 1 .. m |-> Fine[q][mem[p]]]
    OBVIOUS
  <2>2. DOMAIN dense = 1 .. m /\ m \in Nat /\ Len(dense) = m
    BY <2>1
  <2>3. \A p \in 1 .. m : dense[p] \in Int
    BY <1>5, <2>1
  <2> QED BY <1>2, <2>1, <2>2, <2>3 DEF IsRow
<1>8. IndexChunk \in Nat \ {0}
  BY IndexAssumption
<1>9. SelectedAs(cands, size, coarse, m)
  <2>1. cands = Indices(ChunkedTopK(coarse, size, IndexChunk))
    BY <1>1, <1>6 DEF CandidatePool
  <2> QED BY <1>4, <1>6, <1>8, <2>1, IndicesSelected
<1>10. DOMAIN cands = 1 .. size /\ \A i \in 1 .. size : cands[i] + 1 \in 1 .. m
  <2>1. DOMAIN cands = 1 .. size /\ \A i \in 1 .. size : cands[i] \in 0 .. m - 1
    BY <1>9 DEF SelectedAs
  <2> QED BY <2>1
<1>11. PICK fine : /\ fine = [i \in DOMAIN cands |-> Fine[q][mem[cands[i] + 1]]]
                   /\ fine = [i \in 1 .. size |-> dense[cands[i] + 1]] /\ IsRow(fine, size)
  <2>1. PICK fine : fine = [i \in 1 .. size |-> dense[cands[i] + 1]]
    OBVIOUS
  <2>2. \A i \in 1 .. size : dense[cands[i] + 1] = Fine[q][mem[cands[i] + 1]]
    BY <1>7, <1>10
  <2>3. fine = [i \in DOMAIN cands |-> Fine[q][mem[cands[i] + 1]]]
    BY ONLY <1>10, <2>1, <2>2
  <2>4. DOMAIN fine = 1 .. size /\ size \in Nat /\ Len(fine) = size
    BY <1>4, <2>1
  <2>5. \A i \in 1 .. size : fine[i] \in Int
    BY <1>5, <1>10, <2>1, <2>2
  <2> QED BY <2>1, <2>3, <2>4, <2>5 DEF IsRow
<1>12. PICK slots : slots = Indices(ChunkedTopK(fine, k, IndexChunk)) /\ SelectedAs(slots, k, fine, size)
  <2>1. SelectedAs(Indices(ChunkedTopK(fine, k, IndexChunk)), Least(k, size), fine, size)
    BY <1>8, <1>11, IndicesSelected
  <2> QED BY ONLY <1>4, <2>1
<1>13. PICK ids : /\ ids = FineTopK(q, mem, cands, k)
                  /\ ids = [i \in 1 .. k |-> cands[slots[i] + 1]]
  <2>1. FineTopK(q, mem, cands, k) = [i \in DOMAIN slots |-> cands[slots[i] + 1]]
    BY <1>11, <1>12 DEF FineTopK
  <2>2. DOMAIN slots = 1 .. k
    BY <1>12 DEF SelectedAs
  <2> QED BY ONLY <2>1, <2>2
<1>14. Staged(coarse, cands, size, m, fine, slots, k, ids, dense)
  BY <1>4, <1>7, <1>9, <1>11, <1>12, <1>13 DEF Staged
<1>15. /\ Len(ids) = k /\ DOMAIN ids = 1 .. k
       /\ \A i \in 1 .. k : ids[i] \in 0 .. m - 1 /\ ids[i] \in ToSet(cands)
       /\ \A i, j \in 1 .. k : i # j => ids[i] # ids[j]
       /\ \A i, j \in 1 .. k : i < j => dense[ids[i] + 1] >= dense[ids[j] + 1]
       /\ \A p \in ToSet(cands) : (\A i \in 1 .. k : ids[i] # p) =>
            \A i \in 1 .. k : dense[ids[i] + 1] >= dense[p + 1]
  <2>1. BestOfPool(ids, k, m, cands, dense)
    BY <1>14, StagedIs
  <2> QED BY ONLY <2>1 DEF BestOfPool
<1>16. ASSUME NEW p \in 0 .. m - 1 PROVE Fine[q][mem[p + 1]] = dense[p + 1]
  <2>1. p + 1 \in 1 .. m
    OBVIOUS
  <2> QED BY <1>7, <2>1
<1>17. ToSet(cands) \subseteq 0 .. m - 1
  BY <1>9 DEF SelectedAs, ToSet
<1>18. /\ r.query = q /\ r.memory = mem /\ r.config.top = top /\ r.config.pool = whole
       /\ r.candidates = cands /\ r.indices = ids
  BY <1>1, <1>3, <1>4, <1>13
<1>19. IsTopK(cands, coarse, whole)
  BY <1>4, <1>6, <1>9, SelectedIsTop
<1>20. IsInjective(ids) /\ ToSet(ids) \subseteq ToSet(cands)
  BY <1>15 DEF IsInjective, ToSet
<1>21. ASSUME NEW i \in 1 .. k, NEW j \in 1 .. k, i < j
       PROVE  Fine[q][mem[ids[i] + 1]] >= Fine[q][mem[ids[j] + 1]]
  BY <1>15, <1>16, <1>21
<1>22. ASSUME NEW p \in ToSet(cands) \ ToSet(ids), NEW i \in 1 .. k
       PROVE  Fine[q][mem[ids[i] + 1]] >= Fine[q][mem[p + 1]]
  <2>1. \A j \in 1 .. k : ids[j] # p
    BY <1>15 DEF ToSet
  <2> QED BY <1>15, <1>16, <1>17, <2>1
<1>23. ASSUME whole >= m, NEW chosen \in [1 .. k -> 0 .. m - 1], IsTopK(chosen, dense, k), NEW i \in 1 .. k
       PROVE  Fine[q][mem[ids[i] + 1]] = Fine[q][mem[chosen[i] + 1]]
  <2>1. Best(ids, k, dense, m)
    <3>1. Staged(coarse, cands, m, m, fine, slots, k, ids, dense)
      BY <1>4, <1>14, <1>23
    <3> QED BY <3>1, StagedBest
  <2>2. Best(chosen, k, dense, m)
    <3>1. k <= m /\ k \in Nat
      BY <1>4
    <3> QED BY <1>7, <1>23, <3>1, TopIsBest
  <2>3. dense[ids[i] + 1] <= dense[chosen[i] + 1] /\ dense[chosen[i] + 1] <= dense[ids[i] + 1]
    BY <1>7, <2>1, <2>2, BestNoBetter
  <2>4. dense[ids[i] + 1] \in Int /\ dense[chosen[i] + 1] \in Int
    <3>1. ids[i] + 1 \in 1 .. m /\ chosen[i] + 1 \in 1 .. m
      BY <1>15
    <3> QED BY <1>7, <3>1 DEF IsRow
  <2>5. dense[ids[i] + 1] = dense[chosen[i] + 1]
    BY <2>3, <2>4
  <2>6. ids[i] \in 0 .. m - 1 /\ chosen[i] \in 0 .. m - 1
    BY <1>15
  <2> QED BY <1>16, <2>5, <2>6
<1>24. /\ r.query = q /\ r.memory = mem /\ Least(r.config.top, Len(r.memory)) = k /\ Len(r.memory) = m
       /\ r.config.pool = whole /\ r.candidates = cands /\ r.indices = ids
  BY <1>2, <1>4, <1>18
<1>25. IsTopK(r.candidates, RowOf(Coarse, r.query, r.memory), r.config.pool)
  BY ONLY <1>6, <1>19, <1>24
<1>26. [p \in DOMAIN r.memory |-> Fine[r.query][r.memory[p]]] = dense
  BY ONLY <1>7, <1>24
<1>27. \A i, j \in DOMAIN r.indices : i < j =>
         Fine[r.query][r.memory[r.indices[i] + 1]] >= Fine[r.query][r.memory[r.indices[j] + 1]]
  BY ONLY <1>15, <1>21, <1>24
<1>28. \A p \in ToSet(r.candidates) \ ToSet(r.indices), i \in DOMAIN r.indices :
         Fine[r.query][r.memory[r.indices[i] + 1]] >= Fine[r.query][r.memory[p + 1]]
  BY ONLY <1>15, <1>22, <1>24
<1>29. r.config.pool >= Len(r.memory) =>
         \A chosen \in [1 .. k -> 0 .. m - 1] : IsTopK(chosen, dense, k) =>
           \A i \in 1 .. k :
             Fine[r.query][r.memory[r.indices[i] + 1]] = Fine[r.query][r.memory[chosen[i] + 1]]
  BY ONLY <1>23, <1>24
<1>30. Len(r.indices) = k /\ IsInjective(r.indices) /\ ToSet(r.indices) \subseteq ToSet(r.candidates)
  BY ONLY <1>15, <1>20, <1>24
<1> QED BY ONLY <1>24, <1>25, <1>26, <1>27, <1>28, <1>29, <1>30 DEF RetrievesTop

\* Both stages of a hierarchical retrieval are exact, and with a pool of the whole
\* memory the result scores as a dense top-k does.
THEOREM RetrievesExactly == Spec => []RetrievalExact
<1>1. Init => RetrievalExact
  BY DEF Init, RetrievalExact
<1>2. RetrievalExact /\ [Next]_vars => RetrievalExact'
  <2> SUFFICES ASSUME RetrievalExact, [Next]_vars PROVE RetrievalExact'
    OBVIOUS
  <2>1. CASE StackNext /\ retrieved' = NONE
    BY <2>1 DEF RetrievalExact
  <2>2. CASE Retrieve
    <3>1. PICK c \in Calls, config \in IndexPools : \E b \in DOMAIN c.hidden : \E t \in DOMAIN c.hidden[b] :
            RetrieveWith(c.hidden[b][t], c.memory[b], config)
      BY <2>2 DEF Retrieve
    <3>2. PICK b \in DOMAIN c.hidden : \E t \in DOMAIN c.hidden[b] :
            RetrieveWith(c.hidden[b][t], c.memory[b], config)
      BY <3>1
    <3>3. PICK t \in DOMAIN c.hidden[b] : RetrieveWith(c.hidden[b][t], c.memory[b], config)
      BY <3>2
    <3>4. PICK r : r = retrieved'
      OBVIOUS
    <3>5. PICK size : size = Least(config.pool, Len(c.memory[b]))
      OBVIOUS
    <3>6. PICK cands : cands = CandidatePool(c.hidden[b][t], c.memory[b], size)
      OBVIOUS
    <3>7. r = [query |-> c.hidden[b][t], memory |-> c.memory[b], config |-> config, candidates |-> cands,
               indices |-> FineTopK(c.hidden[b][t], c.memory[b], cands, Least(config.top, size))]
      BY <3>3, <3>4, <3>5, <3>6 DEF RetrieveWith
    <3>8. RetrievesTop(r)
      BY <3>5, <3>6, <3>7, RetrieveReturns
    <3> QED BY <3>4, <3>8 DEF RetrievalExact
  <2>3. CASE UNCHANGED vars
    BY <2>3 DEF vars, RetrievalExact
  <2> QED BY <2>1, <2>2, <2>3 DEF Next
<1> QED BY <1>1, <1>2, PTL DEF Spec
=============================================================================
