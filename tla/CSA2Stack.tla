------------------------------ MODULE CSA2Stack ------------------------------
(***************************************************************************)
(* CSA2Stack (model/csa2.py): layers that attend to a global memory.  A    *)
(* "full" layer scores all of it and publishes what it selected and a pool *)
(* of candidates, a "reindex" layer scores the pool and publishes, a       *)
(* "reuse" layer reads what was published last.  Both outlive the call.    *)
(*                                                                         *)
(* A query and a memory position are what they contain; Affinity gives the *)
(* score of one for the other in a layer.                                  *)
(***************************************************************************)
EXTENDS DeterministicTopK

CONSTANTS
  Cadences,   \* the modes of the layers, the stacks considered
  Affinity,   \* Affinity[layer][query content][memory content]
  TopK,       \* top_k
  PoolSize,   \* candidate_pool_size
  ChunkSizes, \* the chunk argument
  Calls,      \* hidden and memory of each batch row: [hidden, memory]
  NONE

Modes == {"full", "reindex", "reuse"}

ASSUME CadencesAssumption == Cadences \subseteq Seq(Modes) \ {<<>>}
ASSUME SizesAssumption ==                          \* csa2.py:81-84, 243
  /\ TopK \in Nat \ {0} /\ PoolSize \in Nat \ {0} /\ ChunkSizes \subseteq Nat \ {0}
ASSUME CallsAssumption ==                          \* csa2.py:241, 332; both are tensors
  \A c \in Calls :
    /\ DOMAIN c.hidden = DOMAIN c.memory
    /\ \A b \in DOMAIN c.memory :
         /\ Len(c.hidden[b]) \in Nat /\ DOMAIN c.hidden[b] = 1 .. Len(c.hidden[b])
         /\ Len(c.memory[b]) \in Nat \ {0} /\ DOMAIN c.memory[b] = 1 .. Len(c.memory[b])
         /\ DOMAIN c.hidden[b] = DOMAIN c.hidden[1]
         /\ DOMAIN c.memory[b] = DOMAIN c.memory[1]
ASSUME AffinityAssumption ==                       \* scores are numbers
  \A m \in Cadences, c \in Calls : \A l \in DOMAIN m, b \in DOMAIN c.memory :
    \A t \in DOMAIN c.hidden[b], p \in DOMAIN c.memory[b] :
      Affinity[l][c.hidden[b][t]][c.memory[b][p]] \in Int
ASSUME NoneAssumption ==                           \* None is no tensor
  \A c \in Calls :
    /\ NONE \notin [DOMAIN c.hidden -> [1 .. PoolSize -> Nat]]
    /\ NONE \notin [DOMAIN c.hidden -> Seq(Seq(Nat))]

VARIABLES
  cadence,    \* the modes of this stack's layers
  published,  \* _published_indices: a sequence of positions per row and query
  pool,       \* _candidate_pool: a sequence of positions per row
  call,       \* the forward call under way, or NONE
  chunk,      \* its chunk argument
  indices,    \* indices_per_layer
  snapshot    \* the snapshot the caller holds, or NONE

stackVars == <<cadence, published, pool, call, chunk, indices, snapshot>>

StackInit ==
  /\ cadence \in Cadences
  /\ published = NONE /\ pool = NONE
  /\ call = NONE
  /\ chunk \in ChunkSizes
  /\ indices = <<>>
  /\ snapshot = NONE

-----------------------------------------------------------------------------
(* CSA2Layer.forward                                                       *)

\* The scores of query t of row b in layer l for the given memory positions.
ScoreRow(c, l, b, t, positions) ==
  [i \in DOMAIN positions |->
     Affinity[l][c.hidden[b][t]][c.memory[b][positions[i] + 1]]]

Everything(c, b) == [i \in DOMAIN c.memory[b] |-> i - 1]

\* A selection for every query of every row.
ForQueries(c, Select(_, _)) ==
  [b \in DOMAIN c.hidden |-> [t \in DOMAIN c.hidden[b] |-> Select(b, t)]]

FullIndices(c, l) ==
  LET Select(b, t) ==
        Indices(ChunkedTopK(ScoreRow(c, l, b, t, Everything(c, b)),
                            Least(TopK, Len(c.memory[b])), chunk))
  IN  ForQueries(c, Select)

\* Positions in the pool are selected, and mapped to memory positions.
ReindexIndices(c, l, from) ==
  LET Select(b, t) ==
        LET slots == Indices(ChunkedTopK(ScoreRow(c, l, b, t, from[b]),
                                         Least(TopK, Len(from[b])), chunk))
        IN  [i \in DOMAIN slots |-> from[b][slots[i] + 1]]
  IN  ForQueries(c, Select)

\* The first appearances in a sequence, in order.
Firsts(all) ==
  LET seen[n \in 0 .. Len(all)] ==
        IF n = 0 THEN <<>>
        ELSE LET known == seen[n - 1]
             IN  IF Contains(known, all[n]) THEN known ELSE Append(known, all[n])
  IN  seen[Len(all)]

\* Mutant: the pool keeps the last ids, not the first.
PoolFromIndicesLast(selected) ==
  [b \in DOMAIN selected |->
     LET ids == Firsts(Reverse(FlattenSeq(selected[b])))
     IN  [i \in 1 .. PoolSize |-> ids[Least(i, Len(ids))]]]

\* _pool_from_indices: the ids of a row by first appearance, over its queries in
\* order, cut to the pool's size or padded with the last.
PoolFromIndices(selected) ==
  [b \in DOMAIN selected |->
     LET seen == Firsts(FlattenSeq(selected[b]))
         ids  == IF seen = <<>> THEN <<0>> ELSE seen
     IN  [i \in 1 .. PoolSize |-> ids[Least(i, Len(ids))]]]

-----------------------------------------------------------------------------
(* CSA2Stack.forward                                                       *)

Begin ==
  /\ call = NONE
  /\ \E c \in Calls, n \in ChunkSizes : call' = c /\ chunk' = n
  /\ UNCHANGED <<cadence, published, pool, indices, snapshot>>

Layer == Len(indices) + 1

Runs(mode) == call # NONE /\ Layer <= Len(cadence) /\ cadence[Layer] = mode

\* Mutant: the pool is built once and kept.
FullLayerKeepsPool ==
  /\ Runs("full")
  /\ LET selected == FullIndices(call, Layer)
     IN  /\ indices' = Append(indices, selected)
         /\ published' = selected
         /\ pool' = IF pool = NONE THEN PoolFromIndices(selected) ELSE pool
  /\ UNCHANGED <<cadence, call, chunk, snapshot>>

FullLayer ==
  /\ Runs("full")
  /\ LET selected == FullIndices(call, Layer)
     IN  /\ indices' = Append(indices, selected)
         /\ published' = selected
         /\ pool' = PoolFromIndices(selected)
  /\ UNCHANGED <<cadence, call, chunk, snapshot>>

InMemory(positions, b) == \A p \in ToSet(positions) : p < Len(call.memory[b])

\* There is a pool, for as many rows, and every id can be gathered.
PoolFits ==
  /\ pool # NONE
  /\ DOMAIN pool = DOMAIN call.hidden
  /\ \A b \in DOMAIN pool : InMemory(pool[b], b)

ReindexLayer ==
  /\ Runs("reindex")
  /\ PoolFits
  /\ LET selected == ReindexIndices(call, Layer, pool)
     IN  /\ indices' = Append(indices, selected)
         /\ published' = selected
  /\ UNCHANGED <<cadence, pool, call, chunk, snapshot>>

\* There are published indices, for as many rows and queries, in the memory.
PublishedFits ==
  /\ published # NONE
  /\ DOMAIN published = DOMAIN call.hidden
  /\ \A b \in DOMAIN published :
       /\ DOMAIN published[b] = DOMAIN call.hidden[b]
       /\ \A t \in DOMAIN published[b] : InMemory(published[b][t], b)

ReuseLayer ==
  /\ Runs("reuse")
  /\ PublishedFits
  /\ indices' = Append(indices, published)
  /\ UNCHANGED <<cadence, published, pool, call, chunk, snapshot>>

Refused ==
  \/ Runs("reindex") /\ ~ PoolFits
  \/ Runs("reuse") /\ ~ PublishedFits

\* The call raises; what earlier layers published stays.
Raise ==
  /\ Refused
  /\ call' = NONE
  /\ indices' = <<>>
  /\ UNCHANGED <<cadence, published, pool, chunk, snapshot>>

Return ==
  /\ call # NONE
  /\ Layer > Len(cadence)
  /\ call' = NONE
  /\ indices' = <<>>
  /\ UNCHANGED <<cadence, published, pool, chunk, snapshot>>

-----------------------------------------------------------------------------
(* Snapshots                                                               *)

TakeSnapshot ==
  /\ call = NONE
  /\ snapshot' = [published |-> published, pool |-> pool]
  /\ UNCHANGED <<cadence, published, pool, call, chunk, indices>>

\* A stack of the same configuration, perhaps a new one, takes over the published
\* state.  load_snapshot_strict pops it from the caller's dictionary.
LoadSnapshot ==
  /\ call = NONE
  /\ snapshot # NONE
  /\ published' = snapshot.published /\ pool' = snapshot.pool
  /\ snapshot' = [published |-> NONE, pool |-> NONE]
  /\ UNCHANGED <<cadence, call, chunk, indices>>

StackNext ==
  \/ Begin \/ FullLayer \/ ReindexLayer \/ ReuseLayer \/ Raise \/ Return
  \/ TakeSnapshot \/ LoadSnapshot

=============================================================================
