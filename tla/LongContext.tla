---------------------------- MODULE LongContext ----------------------------
(***************************************************************************)
(* run_chunked_forward (training/long_context.py): a sequence is run in    *)
(* chunks against one streaming cache, its loss is put together from the   *)
(* chunks and from the edges between them, and an optimizer, if there is   *)
(* one, gets the gradient of it.                                           *)
(*                                                                         *)
(* A loss term is the position it predicts and how far back its gradient   *)
(* reaches: to "from", through the cache, or nowhere if the logits it was  *)
(* computed from are detached.  What the layers hold is StreamCache's      *)
(* subject; here a tensor of the cache is known by the position it was     *)
(* made at, because a checkpointed run passes the cache from chunk to      *)
(* chunk as a flat tuple of tensors and a layout that says how to cut it.  *)
(***************************************************************************)
EXTENDS Naturals, FiniteSets, SequencesExt

CONSTANTS
  Lengths,    \* lengths of the sequences considered
  Chunks,     \* execution_chunk_tokens
  Intervals,  \* detach_interval_tokens
  Pixels,     \* whether pixel_values is given
  Ratio,      \* compression ratio of each decoder layer, 0 for a sliding one
  Scaled,     \* layers whose index is quantised with scales
  NONE

\* _LayerCheckpointLayout
Layouts ==
  [hasLocal : BOOLEAN, hasPending : BOOLEAN, compressedCount : Nat, scaleFlags : Seq(BOOLEAN),
   next : Nat]

ASSUME LengthsAssumption   == Lengths \subseteq Nat
ASSUME ChunksAssumption    == Chunks \subseteq Nat \ {0}     \* long_context.py:36
ASSUME IntervalsAssumption == Intervals \subseteq Nat \ {0}  \* long_context.py:36
ASSUME PixelsAssumption    == Pixels \subseteq BOOLEAN
ASSUME RatioAssumption     == Ratio \in Seq(Nat) /\ Scaled \subseteq DOMAIN Ratio
ASSUME NoneAssumption      == NONE \notin Nat /\ NONE \notin Seq(Layouts)

VARIABLES
  cfg,         \* what the caller asked for
  pc,          \* where the call is
  start, stop, \* the chunk under way
  nextDetach,  \* next_detach
  horizon,     \* the earliest position a gradient through the cache reaches
  previous,    \* previous_last_logits: the reach of its gradient, <<>> if None
  cache,       \* the cache; history, if it is passed on flat: what it would hold
  boundary,    \* checkpoint_state and checkpoint_layout
  replays,     \* the closures that backward would run again, one per chunk
  lossTerms,   \* loss_terms
  interval,    \* interval_terms
  counts,      \* counts[t]: how often target t is in the reported loss
  tokens,      \* total_tokens
  grads,       \* grads[t]: the reach of each gradient of target t accumulated
  updates      \* optimizer.step() calls

vars == <<cfg, pc, start, stop, nextDetach, horizon, previous, cache, boundary, replays,
          lossTerms, interval, counts, tokens, grads, updates>>
accounts == <<lossTerms, interval, counts, tokens>>

\* labels[:, 1:].ne(-100); without labels there are none
Configs ==
  UNION {[length : {n}, chunk : Chunks, interval : Intervals,
          mode : {"full_recompute", "stateful_truncated"},
          train : BOOLEAN, pixels : Pixels,
          valid : SUBSET (1 .. n - 1)] : n \in Lengths}

Stateful == cfg.mode = "stateful_truncated"
Checkpointed == cfg.train /\ ~ Stateful

Least(a, b) == IF a <= b THEN a ELSE b

-----------------------------------------------------------------------------
(* The cache, and what crosses a checkpoint boundary of it                 *)

NewCache ==
  [l \in DOMAIN Ratio |->
     [local |-> <<>>, pending |-> <<>>, compressed |-> <<>>, index |-> <<>>, next |-> 0]]

Triple(what, n) == [i \in 1 .. 3 |-> <<what, i, n>>]  \* keys, values and positions

\* A chunk run against the cache.
Extended(c, from, to) ==
  [l \in DOMAIN Ratio |->
     LET r == Ratio[l]
         emits == r # 0 /\ to \div r > from \div r
         scale == IF l \in Scaled THEN <<<<"scale", to>>>> ELSE <<>>
     IN  [local      |-> Triple("local", to),
          pending    |-> IF r = 0 THEN <<>> ELSE Triple("pending", to),
          compressed |-> IF emits THEN Append(c[l].compressed, Triple("compressed", to))
                         ELSE c[l].compressed,
          index      |-> IF emits THEN Append(c[l].index, <<<<"index", to>>>> \o scale)
                         ELSE c[l].index,
          next       |-> to]]

\* _cache_to_checkpoint_state: every tensor in one tuple, and the layers' layouts.
StateOf(c) ==
  FlattenSeq([l \in DOMAIN c |-> c[l].local \o c[l].pending
                                 \o FlattenSeq(c[l].compressed) \o FlattenSeq(c[l].index)])

LayoutOf(c) ==
  [l \in DOMAIN c |->
     [hasLocal |-> c[l].local # <<>>, hasPending |-> c[l].pending # <<>>,
      compressedCount |-> Len(c[l].compressed),
      scaleFlags |-> [i \in DOMAIN c[l].index |-> Len(c[l].index[i]) = 2],
      next |-> c[l].next]]

\* The offsets of a layer's pieces from its first tensor, with three tensors for
\* the local window, the pending group and each chunk, and one or two for an index.
PendingAt(spec) == IF spec.hasLocal THEN 3 ELSE 0
CompressedAt(spec, k) == PendingAt(spec) + (IF spec.hasPending THEN 3 ELSE 0) + 3 * (k - 1)
IndexAt(spec, k) ==
  CompressedAt(spec, spec.compressedCount + 1) + (k - 1)
    + Cardinality({j \in 1 .. k - 1 : spec.scaleFlags[j]})
Size(spec) == IndexAt(spec, Len(spec.scaleFlags) + 1)

\* Where take() is when it comes to layer l.
Cursor(layout, l) == SumFunctionOnSet([m \in DOMAIN layout |-> Size(layout[m])], 1 .. l - 1)

\* The layout neither takes more tensors than there are nor leaves any.
Describes(layout, state) ==
  IF layout = NONE THEN state = <<>> ELSE Cursor(layout, Len(layout) + 1) = Len(state)

\* _cache_from_checkpoint_state
LayerOf(tensors, spec) ==
  LET Piece(from, to) == SubSeq(tensors, from + 1, to)
  IN  [local      |-> Piece(0, PendingAt(spec)),
       pending    |-> Piece(PendingAt(spec), CompressedAt(spec, 1)),
       compressed |-> [k \in 1 .. spec.compressedCount |->
                         Piece(CompressedAt(spec, k), CompressedAt(spec, k + 1))],
       index      |-> [k \in DOMAIN spec.scaleFlags |->
                         Piece(IndexAt(spec, k), IndexAt(spec, k + 1))],
       next       |-> spec.next]

CacheOf(state, layout) ==
  IF layout = NONE THEN NewCache
  ELSE [l \in DOMAIN layout |->
          LayerOf(SubSeq(state, Cursor(layout, l) + 1, Cursor(layout, l + 1)), layout[l])]

-----------------------------------------------------------------------------
Init ==
  /\ cfg \in Configs
  /\ pc = "chunk"
  /\ start = 0 /\ stop = 0
  /\ nextDetach = cfg.interval
  /\ horizon = 0
  /\ previous = <<>>
  /\ cache = NewCache
  /\ boundary = [state |-> <<>>, layout |-> NONE]
  /\ replays = <<>>
  /\ lossTerms = {} /\ interval = {}
  /\ counts = [t \in cfg.valid |-> 0]
  /\ tokens = 0
  /\ grads = [t \in cfg.valid |-> <<>>]
  /\ updates = 0

Stop ==
  LET n == Least(start + cfg.chunk, cfg.length)
  IN  IF Stateful THEN Least(n, nextDetach) ELSE n

\* Mutant of Closure: the layout is looked up when the chunk is run again.
ClosureLate ==
  [cache |-> cache, state |-> boundary.state, layout |-> LayoutOf(Extended(cache, start, Stop))]

\* The closure of a checkpointed chunk keeps the tensors and the layout that
\* were current when it was made.  History: the cache it will be compared with.
Closure == [cache |-> cache, state |-> boundary.state, layout |-> boundary.layout]

\* The chunk run from the boundary it was given, to the next one.
CheckpointedChunk ==
  LET after == Extended(CacheOf(boundary.state, boundary.layout), start, Stop)
  IN  [state |-> StateOf(after), layout |-> LayoutOf(after)]

\* The model is always given a cache, and refuses pixel_values then.
Refuses == cfg.pixels /\ start = 0

\* The model call, direct or through a checkpoint boundary.
Forward ==
  /\ pc = "chunk"
  /\ start < cfg.length
  /\ stop' = Stop
  /\ IF Refuses \/ (Checkpointed /\ ~ Describes(boundary.layout, boundary.state))
       THEN pc' = "raised" /\ UNCHANGED <<cache, boundary, replays>>
       ELSE /\ pc' = "loss"
            /\ cache' = Extended(cache, start, Stop)
            /\ IF Checkpointed
                 THEN replays' = Append(replays, Closure) /\ boundary' = CheckpointedChunk
                 ELSE UNCHANGED <<boundary, replays>>
  /\ UNCHANGED <<cfg, start, nextDetach, horizon, previous, accounts, grads, updates>>

\* Mutant of EdgeTerms: the edges between chunks are forgotten.
EdgeTermsDropped == {}

\* The edge from the previous chunk's last logit to this chunk's first label,
\* and the chunk's own targets.
EdgeTerms ==
  {[target |-> start, from |-> r] : r \in Range(previous)}

InnerTerms == {[target |-> t, from |-> horizon] : t \in start + 1 .. stop - 1}

Labelled(terms) == {x \in terms : x.target \in cfg.valid}

Loss ==
  /\ pc = "loss"
  /\ LET terms == Labelled(EdgeTerms \cup InnerTerms)
     IN  /\ lossTerms' = IF Stateful THEN lossTerms ELSE lossTerms \cup terms
         /\ interval' = interval \cup terms
         /\ counts' = [t \in cfg.valid |->
                         counts[t] + Cardinality({x \in terms : x.target = t})]
         /\ tokens' = tokens + Cardinality(terms)
  /\ previous' = <<horizon>>
  /\ start' = stop
  /\ pc' = IF Stateful /\ stop >= nextDetach THEN "detach" ELSE "chunk"
  /\ UNCHANGED <<cfg, stop, nextDetach, horizon, cache, boundary, replays, grads, updates>>

-----------------------------------------------------------------------------
\* backward() of a weighted sum of terms: an error if none of them has a graph.
HasGraph(terms) == \E x \in terms : x.from # NONE

Accumulated(terms) ==
  [t \in cfg.valid |->
     LET mine == {x \in terms : x.target = t /\ x.from # NONE}
     IN  IF mine = {} THEN grads[t] ELSE Append(grads[t], (CHOOSE x \in mine : TRUE).from)]

\* Mutants of Detach: the retained logit keeps its graph; the next detach stays
\* where it is.
DetachKeepsLogit ==
  /\ pc = "detach"
  /\ pc' = "chunk"
  /\ interval' = {}
  /\ horizon' = start
  /\ nextDetach' = nextDetach + cfg.interval
  /\ UNCHANGED <<cfg, start, stop, previous, cache, boundary, replays, lossTerms, counts, tokens,
                 grads, updates>>

DetachOnce ==
  /\ pc = "detach"
  /\ pc' = "chunk"
  /\ interval' = {}
  /\ horizon' = start
  /\ previous' = <<NONE>>
  /\ UNCHANGED <<cfg, start, stop, nextDetach, cache, boundary, replays, lossTerms, counts, tokens,
                 grads, updates>>

\* The end of a detach interval.  loss_terms is empty in this mode.
Detach ==
  /\ pc = "detach"
  /\ IF cfg.train /\ lossTerms # {}
       THEN IF HasGraph(interval)
              THEN grads' = Accumulated(interval) /\ pc' = "chunk"
              ELSE pc' = "raised" /\ UNCHANGED grads
       ELSE pc' = "chunk" /\ UNCHANGED grads
  /\ interval' = {}
  /\ horizon' = start
  /\ previous' = <<NONE>>
  /\ nextDetach' = nextDetach + cfg.interval
  /\ UNCHANGED <<cfg, start, stop, cache, boundary, replays, lossTerms, counts, tokens, updates>>

\* Mutant of Due: both modes look in the same list, as the detach branch does.
DueShared == lossTerms

\* After the last chunk: the rest of a truncated run, or the whole loss.
Due == IF Stateful THEN interval ELSE lossTerms

End ==
  /\ pc = "chunk"
  /\ start >= cfg.length
  /\ IF cfg.train /\ Due # {}
       THEN IF HasGraph(Due)
              THEN grads' = Accumulated(Due) /\ pc' = "done" /\ updates' = updates + 1
              ELSE pc' = "raised" /\ UNCHANGED <<grads, updates>>
       ELSE /\ pc' = "done"
            /\ updates' = IF cfg.train THEN updates + 1 ELSE updates
            /\ UNCHANGED grads
  /\ UNCHANGED <<cfg, start, stop, nextDetach, horizon, previous, cache, boundary, replays, accounts>>

Next == Forward \/ Loss \/ Detach \/ End

Spec == Init /\ [][Next]_vars

\* One thread runs the call to its end.
FairSpec == Spec /\ WF_vars(Next)

-----------------------------------------------------------------------------
\* After a training call every target beyond the last detach has accumulated
\* exactly one gradient, and one that reaches back to that detach: the whole
\* sequence in full_recompute, across checkpointed chunks.  No target ever
\* gets two, whatever retains or releases graphs on the way.
GradientsExact ==
  /\ \A t \in cfg.valid : Len(grads[t]) <= 1
  /\ pc = "done" /\ cfg.train =>
       \A t \in cfg.valid : t > horizon => grads[t] = <<horizon>>

\* A truncated run retains no graph older than the interval under way: not
\* through the cache, not through a term kept for later, and not through the
\* one logit that crosses the boundary.
GraphBounded ==
  Stateful =>
    \A r \in {horizon} \cup Range(previous) \cup {x.from : x \in interval \cup lossTerms} :
      r # NONE => r + cfg.interval >= nextDetach

\* Running a checkpointed chunk again in backward starts from the cache that its
\* first run started from, and that a run without boundaries would have there:
\* every tensor of the positions before the chunk, in its place, and no other.
ReplayFaithful ==
  /\ pc = "done" =>
       \A k \in DOMAIN replays :
         LET c == replays[k]
         IN  Describes(c.layout, c.state) /\ CacheOf(c.state, c.layout) = c.cache
  /\ pc = "loss" /\ Checkpointed => CacheOf(boundary.state, boundary.layout) = cache

\* However it is chunked, checkpointed or truncated, the call scores each
\* label once and reports a loss over all of them.
ScoredOnce == INSTANCE SequenceLoss WITH
  labelled <- cfg.valid,
  scored   <- {t \in cfg.valid : counts[t] > 0},
  outcome  <- CASE pc = "done" -> "reported" [] pc = "raised" -> "raised" [] OTHER -> "open"

ImplementsSequenceLoss == ScoredOnce!Spec

\* Chunk and detach boundaries always advance: the call returns or raises.
Terminates == <>(pc \in {"done", "raised"})

\* long_context.py:385-386: "Scale by total sequence tokens so chunks accumulate
\* one comparable gradient independent of the detach interval."  Every label
\* would then have contributed when the optimizer steps.
GradientIndependentOfInterval ==
  pc = "done" /\ cfg.train => \A t \in cfg.valid : Len(grads[t]) = 1

=============================================================================
