------------------------- MODULE DeterministicTopK -------------------------
(***************************************************************************)
(* The deterministic top-k of model/csa2.py and model/sparse_indexer.py:   *)
(* by score descending, then by index ascending, over a row of scores that *)
(* is seen a chunk at a time.  Positions count from 0, as in the code.     *)
(***************************************************************************)
EXTENDS Integers, Sequences, SequencesExt

Least(a, b) == IF a <= b THEN a ELSE b

Greatest(a, b) == IF a <= b THEN b ELSE a

\* Mutant: of equal scores the last comes first.
BeforeLastFirst(x, y) == x.score > y.score \/ (x.score = y.score /\ x.index > y.index)

Before(x, y) == x.score > y.score \/ (x.score = y.score /\ x.index < y.index)

\* Where the two stable sorts put a candidate: after all that come before it.
Rank(candidates, i) ==
  Cardinality({j \in DOMAIN candidates : Before(candidates[j], candidates[i])}) + 1

Ranked(candidates, n) == CHOOSE i \in DOMAIN candidates : Rank(candidates, i) = n

\* _lex_topk, _deterministic_topk: at least one, at most all of the candidates.
LexTopK(candidates, k) ==
  [n \in 1 .. Greatest(1, Least(k, Len(candidates))) |->
     candidates[Ranked(candidates, n)]]

\* The candidates of one chunk of a row.
Slice(row, start, chunk) ==
  [i \in 1 .. Least(chunk, Len(row) - start) |->
     [score |-> row[start + i], index |-> start + i - 1]]

ChunkCount(row, chunk) == (Len(row) + chunk - 1) \div chunk

\* Mutant: each chunk is cut to its own top-k and these are joined.
ChunkedTopKJoined(row, k, chunk) ==
  LET best[n \in 0 .. ChunkCount(row, chunk)] ==
        IF n = 0 THEN <<>>
        ELSE best[n - 1] \o LexTopK(Slice(row, (n - 1) * chunk, chunk), k)
  IN  SubSeq(best[ChunkCount(row, chunk)], 1, Least(k, Len(row)))

\* The running top-k over the chunks of a row.
ChunkedTopK(row, k, chunk) ==
  LET best[n \in 0 .. ChunkCount(row, chunk)] ==
        IF n = 0 THEN <<>>
        ELSE LexTopK(best[n - 1] \o Slice(row, (n - 1) * chunk, chunk), k)
  IN  best[ChunkCount(row, chunk)]

Indices(selected) == [i \in DOMAIN selected |-> selected[i].index]

\* What a deterministic top-k is, said without an algorithm: the positions come
\* in order, each once, and whatever is left out comes after all of them.
IsTopK(positions, row, k) ==
  LET item(p) == [score |-> row[p + 1], index |-> p]
      chosen  == ToSet(positions)
  IN  /\ Len(positions) = Least(k, Len(row))
      /\ chosen \subseteq 0 .. Len(row) - 1
      /\ \A i, j \in DOMAIN positions :
           i < j => positions[i] # positions[j] /\ ~ Before(item(positions[j]), item(positions[i]))
      /\ \A p \in (0 .. Len(row) - 1) \ chosen, c \in chosen :
           item(c).score > item(p).score \/ (item(c).score = item(p).score /\ c < p)

=============================================================================
