---------------------------- MODULE GlobalMemory ----------------------------
(***************************************************************************)
(* The two readers of a global memory together, as the combined tests and  *)
(* the micro validation script use them: a CSA2 stack with its calls and   *)
(* snapshots, and retrievals of the hierarchical indexer over the same     *)
(* memories.                                                               *)
(***************************************************************************)
EXTENDS CSA2Stack, HierarchicalIndexer

ASSUME TablesAssumption ==                         \* scores are numbers
  \A c \in Calls : \A b \in DOMAIN c.memory :
    \A t \in DOMAIN c.hidden[b], p \in DOMAIN c.memory[b] :
      /\ Coarse[c.hidden[b][t]][c.memory[b][p]] \in Int
      /\ Fine[c.hidden[b][t]][c.memory[b][p]] \in Int

vars == <<cadence, published, pool, call, chunk, indices, snapshot, retrieved>>

Init == StackInit /\ retrieved = NONE

Retrieve ==
  /\ call = NONE
  /\ \E c \in Calls, config \in IndexPools :
       \E b \in DOMAIN c.hidden : \E t \in DOMAIN c.hidden[b] :
         RetrieveWith(c.hidden[b][t], c.memory[b], config)
  /\ UNCHANGED stackVars

Next ==
  \/ /\ StackNext
     /\ retrieved' = NONE
  \/ Retrieve

Spec == Init /\ [][Next]_vars

-----------------------------------------------------------------------------
\* How many layers have run.
Ran == Len(indices)

\* A full layer selects exactly the top-k of the whole memory by score and then
\* by position, whatever the chunk size; a reindex layer that of the pool.
SelectionExact ==
  call # NONE /\ Ran > 0 =>
    \A b \in DOMAIN call.hidden : \A t \in DOMAIN call.hidden[b] :
      LET chosen == indices[Ran][b][t]
      IN  CASE cadence[Ran] = "full" ->
                 IsTopK(chosen, ScoreRow(call, Ran, b, t, Everything(call, b)), TopK)
            [] cadence[Ran] = "reindex" ->
                 \E slots \in [DOMAIN chosen -> 0 .. PoolSize - 1] :
                   /\ IsTopK(slots, ScoreRow(call, Ran, b, t, pool[b]), TopK)
                   /\ \A i \in DOMAIN chosen : chosen[i] = pool[b][slots[i] + 1]
            [] OTHER -> TRUE

\* A stack that begins with a full layer never works with another call's
\* memory: every later layer reads only positions the last full layer of this
\* call selected for the same row, whatever calls and loads went before, and
\* so it never raises.
ReadsThisMemory ==
  call # NONE /\ cadence[1] = "full" =>
    /\ ~ Refused
    /\ \A l \in DOMAIN indices, b \in DOMAIN call.hidden :
         LET full == {k \in 1 .. l : cadence[k] = "full"}
             last == CHOOSE k \in full : \A kk \in full : k >= kk
             seen(n) == UNION {ToSet(indices[n][b][t]) : t \in DOMAIN call.hidden[b]}
         IN  seen(l) \subseteq seen(last)

\* The retrieval of the hierarchical indexer is exact in both stages.
RetrievalExact == retrieved # NONE => RetrievesTop(retrieved)

=============================================================================
