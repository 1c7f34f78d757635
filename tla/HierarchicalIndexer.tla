------------------------ MODULE HierarchicalIndexer ------------------------
(***************************************************************************)
(* HierarchicalIndexer.retrieve (model/sparse_indexer.py): a pool by       *)
(* coarse scores of the whole memory, then the top-k of the pool by exact  *)
(* ones.  The coarse scores come from projected, perhaps quantised codes   *)
(* and need not agree with the exact ones.                                 *)
(***************************************************************************)
EXTENDS DeterministicTopK

CONSTANTS
  Coarse,      \* Coarse[query content][memory content], and the exact scores
  Fine,
  IndexPools,  \* candidate_pool_size, with the top_k of the configuration
  IndexChunk   \* chunk_size

ASSUME IndexAssumption ==                        \* sparse_indexer.py:42-59
  /\ IndexChunk \in Nat \ {0}
  /\ \A p \in IndexPools : p.top \in Nat \ {0} /\ p.pool \in Nat /\ p.pool >= p.top

VARIABLE retrieved  \* the last retrieval, until the next call: what was asked and what came back

RowOf(table, query, memory) == [p \in DOMAIN memory |-> table[query][memory[p]]]

CandidatePool(query, memory, size) ==
  Indices(ChunkedTopK(RowOf(Coarse, query, memory), size, IndexChunk))

\* Mutant: positions in the pool are returned for positions in the memory.
FineTopKLocal(query, memory, candidates, k) ==
  Indices(ChunkedTopK([i \in DOMAIN candidates |-> Fine[query][memory[candidates[i] + 1]]],
                      k, IndexChunk))

\* The top-k of the pool, as memory positions.
FineTopK(query, memory, candidates, k) ==
  LET row == [i \in DOMAIN candidates |-> Fine[query][memory[candidates[i] + 1]]]
      top == Indices(ChunkedTopK(row, k, IndexChunk))
  IN  [i \in DOMAIN top |-> candidates[top[i] + 1]]

\* One query against one row of memory.
RetrieveWith(query, memory, config) ==
  LET size == Least(config.pool, Len(memory))
      k    == Least(config.top, size)
      candidates == CandidatePool(query, memory, size)
  IN  /\ Len(memory) >= 1
      /\ retrieved' = [query |-> query, memory |-> memory, config |-> config,
                       candidates |-> candidates,
                       indices |-> FineTopK(query, memory, candidates, k)]

-----------------------------------------------------------------------------
\* The two stages select what they should, whatever the chunk size and the ties:
\* the pool is the top of the memory by coarse score, the result the top of the
\* pool by exact score; and with a pool that covers the memory the result
\* scores as well as a dense top-k does.
RetrievesTop(r) ==
  LET fine(p) == Fine[r.query][r.memory[p + 1]]
      k == Least(r.config.top, Len(r.memory))
      dense == [p \in DOMAIN r.memory |-> Fine[r.query][r.memory[p]]]
  IN  /\ IsTopK(r.candidates, RowOf(Coarse, r.query, r.memory), r.config.pool)
      /\ Len(r.indices) = k
      /\ IsInjective(r.indices)
      /\ ToSet(r.indices) \subseteq ToSet(r.candidates)
      /\ \A i, j \in DOMAIN r.indices : i < j => fine(r.indices[i]) >= fine(r.indices[j])
      /\ \A p \in ToSet(r.candidates) \ ToSet(r.indices), i \in DOMAIN r.indices :
           fine(r.indices[i]) >= fine(p)
      /\ r.config.pool >= Len(r.memory) =>
           \A best \in [1 .. k -> 0 .. Len(r.memory) - 1] :
             IsTopK(best, dense, k) => \A i \in 1 .. k : fine(r.indices[i]) = fine(best[i])

=============================================================================
