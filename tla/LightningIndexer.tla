-------------------------- MODULE LightningIndexer --------------------------
(***************************************************************************)
(* The sparse branch over a compressed history: forward_from_compressed    *)
(* (attention/csa.py) retrieves for a block of queries at a time, with     *)
(* forward_chunked (attention/lightning_indexer.py) scoring the history in *)
(* sub-chunks and keeping only a running top-k, and then gathers the       *)
(* selected values chunk by chunk through the global indices.              *)
(*                                                                         *)
(* One head of one sequence.  Scores are integers, chosen as a candidate   *)
(* is scored; the entries are those StreamCache stores.                    *)
(***************************************************************************)
EXTENDS Integers, SequencesExt

CONSTANTS
  IndexTopK,            \* index_topk
  CandidateChunk,  \* candidate_chunk_size
  QueryBlock,      \* attention_query_block
  Scores,          \* what a query and an entry can score
  NegInf,          \* the score of a masked candidate
  Inputs           \* the calls considered: the positions of the entries of each
                   \* chunk and those of the queries

ASSUME IndexerAssumption ==                     \* configuration.py:80
  /\ IndexTopK \in Nat \ {0} /\ CandidateChunk \in Nat \ {0} /\ QueryBlock \in Nat \ {0}
ASSUME ScoresAssumption ==
  NegInf \in Int /\ Scores \subseteq Int /\ \A v \in Scores : v > NegInf
ASSUME InputsAssumption ==
  \A x \in Inputs : x.positions \in Seq(Seq(Nat)) /\ x.queries \in Seq(Nat)

VARIABLES
  input,     \* the call
  phase,     \* "score" or "gather"
  start,     \* queries before the block under way
  chunkAt,     \* the chunk under way
  sub,       \* substart
  offset,    \* key_offset, and offset of the gather loop
  best,      \* best[q]: best_scores, best_indices, best_valid, in their order
  attended,  \* attended[q]: what its output sums over
  sink,      \* the queries whose output is sink_value
  scores,    \* history: scores[q], the score of each entry scored for q
  starts     \* history: key_offset at each chunk scored so far in the block

indexerVars == <<input, phase, start, chunkAt, sub, offset, best, attended, sink, scores, starts>>

Queries == DOMAIN input.queries
Chunks  == DOMAIN input.positions
Width(c) == Len(input.positions[c])

\* The queries of the block under way.
Block == {q \in Queries : start < q /\ q <= start + QueryBlock}

IndexerInit ==
  /\ input \in Inputs
  /\ phase = "score"
  /\ start = 0 /\ chunkAt = 1 /\ sub = 0 /\ offset = 0
  /\ best = [q \in Queries |-> <<>>]
  /\ attended = [q \in Queries |-> {}]
  /\ sink = {}
  /\ scores = [q \in Queries |-> <<>>]
  /\ starts = <<0>>

-----------------------------------------------------------------------------
(* forward_chunked                                                         *)

\* torch.topk: the k entries of largest score in descending order, any of
\* those that tie.
Picks(entries, k) ==
  {p \in [1 .. Min({k, Len(entries)}) -> DOMAIN entries] :
     /\ \A i, j \in DOMAIN p : i < j => p[i] # p[j] /\ entries[p[i]].score >= entries[p[j]].score
     /\ \A n \in DOMAIN entries :
          (\A i \in DOMAIN p : p[i] # n) =>
             \A i \in DOMAIN p : entries[p[i]].score >= entries[n].score}

TopKOf(entries, k) ==
  {[i \in DOMAIN p |-> entries[p[i]]] : p \in Picks(entries, k)}

\* Mutant: a group is hidden from the query at its own last position.
AllowedStrict(q, k) == input.positions[k[1]][k[2]] < input.queries[q]

\* A group may be used from its last position on.
Allowed(q, k) == input.positions[k[1]][k[2]] <= input.queries[q]

\* The entries in the sub-chunk.
SubChunk == {<<chunkAt, j>> : j \in sub + 1 .. Min({sub + CandidateChunk, Width(chunkAt)})}

\* Mutant: a masked candidate scores zero.
MaskedZero(allowed, v) == IF allowed THEN v ELSE 0

Masked(allowed, v) == IF allowed THEN v ELSE NegInf

\* Mutant: an index is local to its sub-chunk.
CandidatesLocal(q, given) ==
  [i \in 1 .. Cardinality(SubChunk) |->
     LET k == <<chunkAt, sub + i>>
     IN  [score |-> Masked(Allowed(q, k), given[q][k]), valid |-> Allowed(q, k),
          index |-> offset + i - 1, key |-> k]]

\* The candidates of query q in the sub-chunk.  "key" is history: which entry of
\* which chunk a candidate is.
Candidates(q, given) ==
  [i \in 1 .. Cardinality(SubChunk) |->
     LET k == <<chunkAt, sub + i>>
     IN  [score |-> Masked(Allowed(q, k), given[q][k]), valid |-> Allowed(q, k),
          index |-> offset + sub + i - 1, key |-> k]]

\* Mutant: the old list and the new are joined and cut, not sorted.
MergedUnsorted(q, given) ==
  {SubSeq(best[q] \o local, 1, Min({IndexTopK, Len(best[q] \o local)})) :
     local \in TopKOf(Candidates(q, given), IndexTopK)}

\* The running top-k after merging the sub-chunk's own.
Merged(q, given) ==
  UNION {TopKOf(best[q] \o local, IndexTopK) : local \in TopKOf(Candidates(q, given), IndexTopK)}

MergeCandidates ==
  /\ phase = "score"
  /\ Block # {}
  /\ chunkAt \in Chunks
  /\ sub < Width(chunkAt)
  /\ \E given \in [Block -> [SubChunk -> Scores]] :
       /\ LET merged == [q \in Block |-> Merged(q, given)]
          IN  \E b \in [Block -> UNION Range(merged)] :
                /\ \A q \in Block : b[q] \in merged[q]
                /\ best' = [q \in Queries |-> IF q \in Block THEN b[q] ELSE best[q]]
       /\ scores' = [q \in Queries |->
                       IF q \in Block
                       THEN [k \in DOMAIN scores[q] \cup SubChunk |->
                               IF k \in SubChunk THEN given[q][k] ELSE scores[q][k]]
                       ELSE scores[q]]
  /\ sub' = sub + CandidateChunk
  /\ UNCHANGED <<input, phase, start, chunkAt, offset, attended, sink, starts>>

\* Mutant: the offset does not advance with the chunk.
NextChunkSameOffset ==
  /\ phase = "score"
  /\ Block # {}
  /\ chunkAt \in Chunks
  /\ sub >= Width(chunkAt)
  /\ chunkAt' = chunkAt + 1
  /\ sub' = 0
  /\ starts' = Append(starts, offset)
  /\ UNCHANGED <<input, phase, start, offset, best, attended, sink, scores>>

NextChunk ==
  /\ phase = "score"
  /\ Block # {}
  /\ chunkAt \in Chunks
  /\ sub >= Width(chunkAt)
  /\ chunkAt' = chunkAt + 1
  /\ sub' = 0
  /\ offset' = offset + Width(chunkAt)
  /\ starts' = Append(starts, offset')
  /\ UNCHANGED <<input, phase, start, best, attended, sink, scores>>

\* Weights: a softmax over the valid ones, zero for the others.
Retrieved ==
  /\ phase = "score"
  /\ Block # {}
  /\ chunkAt \notin Chunks
  /\ phase' = "gather"
  /\ chunkAt' = 1
  /\ offset' = 0
  /\ UNCHANGED <<input, start, sub, best, attended, sink, scores, starts>>

-----------------------------------------------------------------------------
(* The gather of forward_from_compressed                                   *)

\* The entries of best[q] that fall into the chunk, by rank, and where.
InChunk(q) ==
  {[rank |-> r, key |-> <<chunkAt, best[q][r].index - offset + 1>>] :
     r \in {n \in DOMAIN best[q] :
              /\ best[q][n].valid
              /\ offset <= best[q][n].index /\ best[q][n].index < offset + Width(chunkAt)}}

GatherChunk ==
  /\ phase = "gather"
  /\ chunkAt \in Chunks
  /\ attended' = [q \in Queries |->
                    IF q \in Block THEN attended[q] \cup InChunk(q) ELSE attended[q]]
  /\ offset' = offset + Width(chunkAt)
  /\ chunkAt' = chunkAt + 1
  /\ UNCHANGED <<input, phase, start, sub, best, sink, scores, starts>>

\* A query without a valid entry gets the sink; the next block starts over.
EndBlock ==
  /\ phase = "gather"
  /\ chunkAt \notin Chunks
  /\ sink' = sink \cup {q \in Block : \A r \in DOMAIN best[q] : ~ best[q][r].valid}
  /\ start' = start + QueryBlock
  /\ best' = [q \in Queries |-> <<>>]
  /\ phase' = "score"
  /\ chunkAt' = 1 /\ sub' = 0 /\ offset' = 0
  /\ starts' = <<0>>
  /\ UNCHANGED <<input, attended, scores>>

IndexerNext == MergeCandidates \/ NextChunk \/ Retrieved \/ GatherChunk \/ EndBlock

IndexerSpec == IndexerInit /\ [][IndexerNext]_indexerVars

-----------------------------------------------------------------------------
Keys == {k \in Chunks \X UNION {1 .. Width(c) : c \in Chunks} : k[2] <= Width(k[1])}

\* The running list is a top-k of everything scored so far, however the history
\* is cut into chunks and sub-chunks and however ties fall: no entry is kept
\* twice, and nothing scored and left out, masked or not, beats anything kept.
RunningTopK ==
  \A q \in Block :
    LET kept == {best[q][r].key : r \in DOMAIN best[q]}
        value(k) == Masked(Allowed(q, k), scores[q][k])
    IN  /\ kept \subseteq DOMAIN scores[q]
        /\ \A r, s \in DOMAIN best[q] : r # s => best[q][r].key # best[q][s].key
        /\ \A k \in DOMAIN scores[q] \ kept :
             Len(best[q]) = IndexTopK /\ \A kk \in kept : value(kk) >= value(k)

\* The groups that are complete at the query.
Causal(q) == {k \in Keys : input.positions[k[1]][k[2]] <= input.queries[q]}

\* A query attends to the best IndexTopK of the groups complete at its position,
\* each once and through the right chunk and slot, never to a later one, and to
\* the sink exactly when there is none.
AttendsExact ==
  \A q \in Queries : q <= start =>
    LET read == {a.key : a \in attended[q]}
    IN  /\ read \subseteq Causal(q)
        /\ Cardinality(attended[q]) = Min({IndexTopK, Cardinality(Causal(q))})
        /\ Cardinality(read) = Cardinality(attended[q])
        /\ \A a \in read, k \in Causal(q) \ read :
             scores[q][a] >= scores[q][k]
        /\ q \in sink <=> Causal(q) = {}

=============================================================================
