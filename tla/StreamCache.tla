---------------------------- MODULE StreamCache ----------------------------
(***************************************************************************)
(* The bounded KV cache of the decoder stack (model/attention/cache.py),   *)
(* the compressor that folds complete groups out of the token stream       *)
(* (compressor.py) and the attention layers that read and update it in the *)
(* middle of a forward pass (module.py).                                   *)
(*                                                                         *)
(* A token is its position.  A forward call hands one chunk of consecutive *)
(* positions to the layers one after the other; it may raise in any layer, *)
(* which leaves the layers before it advanced and the ones after it not.   *)
(* Callers then drop the cache, or go back to one they serialised before.  *)
(***************************************************************************)
EXTENDS Integers, Sequences, FiniteSets

CONSTANTS
  NumLayers,   \* config.num_hidden_layers
  Ratio,       \* Ratio[l]: csa/hca compression ratio, 0 where the mode is sliding
  Window,      \* config.sliding_window
  Start,       \* first position of a fresh stream (explicit position_ids if # 0)
  Offload,     \* TRUE iff the cache is built with compressed_device set
  ChunkSizes,  \* lengths of the chunks a caller may pass
  MaxTokens,   \* bound on the positions explored
  NONE         \* "nothing serialised yet"

ASSUME LayersAssumption == NumLayers \in Nat \ {0}
ASSUME RatioAssumption  == Ratio \in [0 .. NumLayers - 1 -> Nat]
ASSUME WindowAssumption == Window \in Nat \ {0}
ASSUME StartAssumption  == Start \in Nat
ASSUME ChunkAssumption  == ChunkSizes \subseteq Nat \ {0}
ASSUME BoundAssumption  == MaxTokens \in Nat /\ Start <= MaxTokens
ASSUME OffloadAssumption == Offload \in BOOLEAN

VARIABLES
  cache,   \* cache[l]: the LayerCache of layer l
  status,  \* "idle", "running" (inside a forward call) or "failed" (it raised)
  chunk,   \* position_ids of the forward call
  at,      \* the layer the call has reached
  reads,   \* reads[l]: what the last attention call on layer l mixed
  saved    \* the last serialised cache, or NONE

vars == <<cache, status, chunk, at, reads, saved>>

Layer == 0 .. NumLayers - 1

\* torch.arange(lo, hi)
Arange(lo, hi) == [i \in 1 .. hi - lo |-> lo + i - 1]

Larger(a, b) == IF a >= b THEN a ELSE b

RangeOf(s) == {s[i] : i \in DOMAIN s}

-----------------------------------------------------------------------------
(* LearnedCompressor.forward_with_positions                                *)

\* Indices of s that open a run of equal groups (torch.unique_consecutive).
RunStarts(s, r) ==
  {i \in DOMAIN s : i = 1 \/ s[i] \div r # s[i - 1] \div r}

\* Indices of every member of group g, wherever it occurs in s.
MembersOf(s, r, g) == {i \in DOMAIN s : s[i] \div r = g}

\* The runs emitted: the loop breaks at the first group that is not complete.
Emitted(s, r) ==
  {i \in RunStarts(s, r) :
     \A j \in RunStarts(s, r) :
        j <= i => Cardinality(MembersOf(s, r, s[j] \div r)) = r}

\* One compressed entry: a group mixed from its members, stamped with its end.
Entry(s, r, i) ==
  LET g == s[i] \div r
  IN  [end |-> (g + 1) * r - 1, members |-> {s[j] : j \in MembersOf(s, r, g)}]

\* The k-th emitted run in stream order.
NthOf(S, k) == CHOOSE i \in S : Cardinality({j \in S : j <= i}) = k

Compress(s, r) ==
  LET S == Emitted(s, r)
      taken == UNION {MembersOf(s, r, s[i] \div r) : i \in S}
  IN  [entries  |-> [k \in 1 .. Cardinality(S) |-> Entry(s, r, NthOf(S, k))],
       consumed |-> IF S = {} THEN 0
                    ELSE CHOOSE m \in taken : \A j \in taken : j <= m]

-----------------------------------------------------------------------------
(* LayerCache / KestrelCache                                               *)

EmptyLayer ==
  [local |-> <<>>, pending |-> <<>>, next |-> 0,
   compressed |-> <<>>, chunkLens |-> <<>>, indexed |-> <<>>, indexLens |-> <<>>]

\* mutant: the window is cut one position short
KeepLastShort(s, w) == SubSeq(s, Larger((Len(s) - w) + 1, 0) + 1, Len(s))

\* local_key[:, :, -keep:] with keep = min(local_window, T)
KeepLast(s, w) == SubSeq(s, Larger(Len(s) - w, 0) + 1, Len(s))

\* mutant: the compressed store is trimmed like the local window
AppendedTrimmed(c, positions, entries) ==
  [c EXCEPT
     !.local = KeepLast(@ \o positions, Window),
     !.next  = Larger(@, positions[Len(positions)] + 1),
     !.compressed = KeepLast(@ \o entries, Window),
     !.indexed    = @ \o [k \in DOMAIN entries |-> entries[k].end]]

\* LayerCache.append on the entries the compressor emitted: an empty append
\* adds no chunk, and the index receives a chunk exactly when the store does.
Appended(c, positions, entries) ==
  [c EXCEPT
     !.local = KeepLast(@ \o positions, Window),
     !.next  = Larger(@, positions[Len(positions)] + 1),
     !.compressed = @ \o entries,
     !.chunkLens  = IF entries = <<>> THEN @ ELSE Append(@, Len(entries)),
     !.indexed    = @ \o [k \in DOMAIN entries |-> entries[k].end],
     !.indexLens  = IF entries = <<>> THEN @ ELSE Append(@, Len(entries))]

\* mutant: the pending group is forgotten
StreamOfChunk(c, positions) == positions

\* The pending group joined with the new chunk, and what is left of it.
StreamOf(c, positions) == c.pending \o positions

Leftover(c, positions, r) ==
  LET s == StreamOf(c, positions)
  IN  [c EXCEPT !.pending = SubSeq(s, Compress(s, r).consumed + 1, Len(s))]

\* The cache effects of V4FlashAttention.forward, in their order: the pending
\* group is replaced before KestrelCache.update appends.
Updated(l, c, positions) ==
  IF Ratio[l] = 0
    THEN Appended(c, positions, <<>>)
    ELSE Appended(Leftover(c, positions, Ratio[l]), positions,
                 Compress(StreamOf(c, positions), Ratio[l]).entries)

\* mutant: a group's last member does not see its own group
MixedExclusive(l, c, positions) ==
  LET raw == RangeOf(c.local \o positions)
      new == Updated(l, c, positions)
  IN  [q \in RangeOf(positions) |->
         [local  |-> {p \in raw : p <= q /\ p >= q - Window + 1},
          groups |-> {e.end : e \in {x \in RangeOf(new.compressed) : x.end < q}}]]

\* What attention reads: the local keys held before truncation, and every
\* compressed entry present after this chunk's own groups were appended.
Mixed(l, c, positions) ==
  LET raw == RangeOf(c.local \o positions)
      new == Updated(l, c, positions)
  IN  [q \in RangeOf(positions) |->
         [local  |-> {p \in raw : p <= q /\ p >= q - Window + 1},
          groups |-> {e.end : e \in {x \in RangeOf(new.compressed) : x.end <= q}}]]

\* KestrelCache.from_state_dict: a layer whose next_position was not recorded
\* takes it from its last local position.
Rebuilt(d) ==
  [l \in Layer |->
     [d[l] EXCEPT !.next = IF @ = 0 /\ d[l].local # <<>>
                             THEN d[l].local[Len(d[l].local)] + 1 ELSE @]]

NoReads == [l \in Layer |-> <<>>]

-----------------------------------------------------------------------------
Init ==
  /\ cache = [l \in Layer |-> EmptyLayer]
  /\ status = "idle"
  /\ chunk = <<>>
  /\ at = 0
  /\ reads = NoReads
  /\ saved = NONE

\* mutant: next_position is taken for the last position
NextPositionOverlap == cache[0].next - 1

\* Where the next chunk starts: the caller's own position_ids for a fresh
\* stream that does not begin at 0, past_key_values.length(0) otherwise.
NextPosition == IF cache[0].local = <<>> THEN Start ELSE cache[0].next

BeginForward(n) ==
  /\ status = "idle"
  /\ NextPosition + n <= MaxTokens
  /\ status' = "running"
  /\ chunk' = Arange(NextPosition, NextPosition + n)
  /\ at' = 0
  /\ UNCHANGED <<cache, reads, saved>>

\* One decoder layer; the last one ends the call.
LayerForward ==
  /\ status = "running"
  /\ cache' = [cache EXCEPT ![at] = Updated(at, @, chunk)]
  /\ reads' = [reads EXCEPT ![at] = Mixed(at, cache[at], chunk)]
  /\ IF at + 1 < NumLayers
       THEN at' = at + 1 /\ UNCHANGED <<status, chunk>>
       ELSE at' = 0 /\ status' = "idle" /\ chunk' = <<>>
  /\ UNCHANGED saved

\* mutant: the exception is swallowed and the half-advanced cache used again
LayerRaiseSwallowed ==
  /\ status = "running"
  /\ status' = "idle" /\ chunk' = <<>> /\ at' = 0
  /\ UNCHANGED <<cache, reads, saved>>

\* A layer raises before it touches the cache, after it (in the attention or
\* MLP arithmetic), or in KestrelCache.update when an offloaded cache is used
\* with gradients: then the pending group has been replaced and nothing stored.
LayerRaise ==
  /\ status = "running"
  /\ \/ UNCHANGED cache
     \/ cache' = [cache EXCEPT ![at] = Updated(at, @, chunk)]
     \/ /\ Offload
        /\ Ratio[at] # 0
        /\ cache' = [cache EXCEPT ![at] = Leftover(@, chunk, Ratio[at])]
  /\ status' = "failed"
  /\ UNCHANGED <<chunk, at, reads, saved>>

\* generate and run_chunked_forward build their cache per call: after an
\* exception, or for another prompt, the stream starts over.
NewCache ==
  /\ status # "running"
  /\ cache' = [l \in Layer |-> EmptyLayer]
  /\ status' = "idle"
  /\ chunk' = <<>>
  /\ at' = 0
  /\ reads' = NoReads
  /\ UNCHANGED saved

\* The state_dict is written out (state_dict itself shares the live lists).
Save ==
  /\ status = "idle"
  /\ saved' = cache
  /\ UNCHANGED <<cache, status, chunk, at, reads>>

Restore ==
  /\ status # "running"
  /\ saved # NONE
  /\ cache' = Rebuilt(saved)
  /\ status' = "idle"
  /\ chunk' = <<>>
  /\ at' = 0
  /\ reads' = NoReads
  /\ UNCHANGED saved

Next ==
  \/ \E n \in ChunkSizes : BeginForward(n)
  \/ LayerForward
  \/ LayerRaise
  \/ NewCache
  \/ Save
  \/ Restore

Spec == Init /\ [][Next]_vars

-----------------------------------------------------------------------------
(* Properties                                                              *)

\* Positions layer l has been given, as one past the last.
Seen(l) == IF cache[l].local = <<>> THEN Start ELSE cache[l].next

\* The local window after n positions.
LocalAt(n) == Arange(Larger(Start, n - Window), n)

\* Group g, complete; the entries and the pending rest after n positions.
GroupEntry(r, g) == [end |-> (g + 1) * r - 1, members |-> g * r .. (g * r) + r - 1]

EntriesAt(r, n) ==
  [k \in 1 .. (n \div r) - (Start \div r) |-> GroupEntry(r, (Start \div r) + k - 1)]

PendingAt(r, n) == Arange((n \div r) * r, n)

\* Streams start at a group boundary of every compressing layer.
AlignedStart == \A l \in Layer : Ratio[l] # 0 => Start % Ratio[l] = 0

Intact(l) == ~ (status = "failed" /\ l = at)

LayerType ==
  [local : Seq(Nat), pending : Seq(Nat), next : Nat,
   compressed : Seq([end : Int, members : SUBSET Nat]), chunkLens : Seq(Nat),
   indexed : Seq(Int), indexLens : Seq(Nat)]

\* Types of the variables.
TypeOK ==
  /\ cache \in [Layer -> LayerType]
  /\ status \in {"idle", "running", "failed"}
  /\ at \in Layer
  /\ chunk \in Seq(Nat)
  /\ status = "idle" <=> chunk = <<>>
  /\ DOMAIN reads = Layer
  /\ saved # NONE => saved \in [Layer -> LayerType]

\* The retained window is neither short nor stale: whatever the chunking, each
\* layer holds exactly the last Window positions it was given, in order
\* (LayerCache.append truncates after joining; cache.py:194-206).
LocalWindowExact ==
  \A l \in Layer : Intact(l) => cache[l].local = LocalAt(Seen(l))

\* No token is lost, duplicated or mixed into a wrong group: the entries are
\* the complete groups in order, each from its own members once, and pending
\* is the incomplete rest (compressor.py:26-38, module.py:117-134).
GroupsConserved ==
  \A l \in Layer :
     Intact(l) /\ Ratio[l] # 0 =>
       /\ cache[l].compressed = EntriesAt(Ratio[l], Seen(l))
       /\ cache[l].pending = PendingAt(Ratio[l], Seen(l))

\* The index has the boundaries of the compressed store, chunk by chunk: with
\* other boundaries csa.py:71 drops it and projects the whole history again.
IndexAligned ==
  \A l \in Layer :
     /\ cache[l].indexLens = cache[l].chunkLens
     /\ cache[l].indexed = [k \in DOMAIN cache[l].compressed |-> cache[l].compressed[k].end]

\* Layers advance together: at rest they agree on the stream position that the
\* model takes from layer 0 alone (nemotron.py:587), within a call the ones
\* behind have the chunk and the ones ahead do not; a written cache agrees too.
LayersInStep ==
  /\ status = "idle" => \A l \in Layer : Seen(l) = Seen(0)
  /\ status = "running" =>
       \A l \in Layer :
          Seen(l) = IF l < at THEN chunk[Len(chunk)] + 1 ELSE chunk[1]
  /\ saved # NONE =>
       \A l \in Layer : saved[l].next = saved[0].next /\ Len(saved[l].local) = Len(saved[0].local)

\* Compressed history is append-only: inside a forward call, also one that
\* raises, no stored entry is dropped, reordered or rewritten (cache.py:83).
HistoryAppendOnly ==
  [][status = "running" =>
       \A l \in Layer :
          LET old == cache[l].compressed
              new == cache'[l].compressed
          IN  Len(old) <= Len(new) /\ SubSeq(new, 1, Len(old)) = old]_vars

\* A cached forward answers as attention over the whole history would, however
\* the stream is cut into chunks (prefill and decode agree).  A layer that
\* raised has answered nothing.
Keys == [l \in Layer |-> Start .. (IF Intact(l) THEN Seen(l) ELSE chunk[1]) - 1]

FullHistory ==
  INSTANCE FullHistoryAttention WITH Positions <- 0 .. MaxTokens, keys <- Keys

CachedEqualsFullHistory == FullHistory!Spec

=============================================================================
