--------------------------- MODULE ResidualMixing ---------------------------
(***************************************************************************)
(* The residual mixers of a decoder layer (model/attention/mhc.py) and the *)
(* fused backend that replaces the pair of them by one pass                *)
(* (model/attention/mhc_singlepass.py).  A layer's output is a combination *)
(* of its input, the attention update and the MLP update; a hidden state   *)
(* is one integer, and so is an entry of a mixing matrix: the algebra does *)
(* not depend on the unit.                                                 *)
(***************************************************************************)
EXTENDS Integers

CONSTANTS
  Logits,    \* values of the logits of a mixer
  Row(_, _), \* what sinkhorn(logits, iterations) has in its first row
  Iterations,
  Scales,    \* values of residual_scale
  Inputs,    \* values of a hidden state or an update
  NoModule   \* None

\* sinkhorn returns a matrix; a single stream is the 1 x 1 matrix 1 and has no second entry.
ASSUME RowAssumption ==
  \A logits \in Logits, n \in Iterations : Row(logits, n) \in [self : Int, cross : Int]
ASSUME ValueAssumption == Scales \subseteq Int /\ Inputs \subseteq Int

VARIABLES
  streams,  \* of every mixer of the layer: 1 or more than one
  attn,     \* attn_mhc
  mlp,      \* mlp_mhc
  single,   \* mhc_fused, or NoModule
  kept,     \* [module: its snapshot and metadata; history: of, the pair it is of], or NoModule
  source    \* history: the pair the parameters of the fused module are of

mixingVars == <<streams, attn, mlp, single, kept, source>>

-----------------------------------------------------------------------------
Mixers == [logits : Logits, iterations : Iterations, scale : Scales, enabled : BOOLEAN]

\* A decoder layer gives both mixers the same iterations and the same flag.
Pairs ==
  {p \in [attn : Mixers, mlp : Mixers] :
     p.attn.iterations = p.mlp.iterations /\ p.attn.enabled = p.mlp.enabled}

\* ManifoldHyperConnection.forward: base + scale * (first row of the matrix times the streams).
Entry(logits, n) == IF streams = 1 THEN [self |-> 1, cross |-> 0] ELSE Row(logits, n)

Combine(scale, row, base, update) == base + scale * (row.self * base + row.cross * update)

Mix(mixer, base, update) ==
  IF mixer.enabled
  THEN Combine(mixer.scale, Entry(mixer.logits, mixer.iterations), base, update)
  ELSE base + update

\* The layer with the residual backend.
Sequential(a, m, base, attention, update) == Mix(m, Mix(a, base, attention), update)

\* Mutant: the attention update is not carried through the second mixer.
FuseDirect(sa, rowA, sm, rowM, base, attention, update) ==
  LET alpha == (1 + sm * rowM.self) * (1 + sa * rowA.self)
      beta == sa * rowA.cross
      gamma == sm * rowM.cross
  IN  alpha * base + beta * attention + gamma * update

\* SinglePassMHC.coefficients and forward.
Fuse(sa, rowA, sm, rowM, base, attention, update) ==
  LET alpha == (1 + sm * rowM.self) * (1 + sa * rowA.self)
      beta == (1 + sm * rowM.self) * (sa * rowA.cross)
      gamma == sm * rowM.cross
  IN  alpha * base + beta * attention + gamma * update

FusedOut(f, base, attention, update) ==
  IF f.enabled
  THEN Fuse(f.scaleAttn, Entry(f.logitsAttn, f.iterations),
            f.scaleMlp, Entry(f.logitsMlp, f.iterations), base, attention, update)
  ELSE base + attention + update

\* SinglePassMHC.from_sequential: iterations of the first, enabled only if both are.
FromSequential(a, m) ==
  [logitsAttn |-> a.logits, logitsMlp |-> m.logits, iterations |-> a.iterations,
   scaleAttn |-> a.scale, scaleMlp |-> m.scale, enabled |-> a.enabled /\ m.enabled]

-----------------------------------------------------------------------------
\* A snapshot, if there is one, is of the fused module of another such layer.
MixingInit ==
  /\ streams \in 1 .. 2
  /\ \E p \in Pairs : attn = p.attn /\ mlp = p.mlp
  /\ single = NoModule /\ source = NoModule
  /\ \/ kept = NoModule
     \/ \E p \in Pairs : kept = [module |-> FromSequential(p.attn, p.mlp), of |-> p]

\* An optimizer step or a checkpoint moves the parameters of the pair.
MoveAttn ==
  /\ \E logits \in Logits, scale \in Scales :
       attn' = [attn EXCEPT !.logits = logits, !.scale = scale]
  /\ UNCHANGED <<streams, mlp, single, kept, source>>

MoveMlp ==
  /\ \E logits \in Logits, scale \in Scales :
       mlp' = [mlp EXCEPT !.logits = logits, !.scale = scale]
  /\ UNCHANGED <<streams, attn, single, kept, source>>

PromoteToSinglePass ==
  /\ single' = FromSequential(attn, mlp)
  /\ source' = [attn |-> attn, mlp |-> mlp]
  /\ UNCHANGED <<streams, attn, mlp, kept>>

SetEnabled(on) ==
  /\ single # NoModule
  /\ single' = [single EXCEPT !.enabled = on]
  /\ UNCHANGED <<streams, attn, mlp, kept, source>>

TakeMixing ==
  /\ single # NoModule
  /\ kept' = [module |-> single, of |-> source]
  /\ UNCHANGED <<streams, attn, mlp, single, source>>

\* load_snapshot_strict: the iterations must agree, the flag is not compared and stays.
LoadMixing ==
  /\ single # NoModule /\ kept # NoModule
  /\ kept.module.iterations = single.iterations
  /\ single' = [kept.module EXCEPT !.enabled = single.enabled]
  /\ source' = kept.of
  /\ UNCHANGED <<streams, attn, mlp, kept>>

MixingNext ==
  \/ MoveAttn \/ MoveMlp \/ PromoteToSinglePass
  \/ (\E on \in BOOLEAN : SetEnabled(on)) \/ TakeMixing \/ LoadMixing

MixingSpec == MixingInit /\ [][MixingNext]_mixingVars

-----------------------------------------------------------------------------
\* The fused backend gives the output of the pair its parameters are of, promoted
\* or from a snapshot, for every number of streams and whatever became of the
\* pair since, as long as its flag is that of the pair.
FusedReproduces ==
  single # NoModule =>
    (single.enabled = source.attn.enabled =>
       \A base, attention, update \in Inputs :
         FusedOut(single, base, attention, update)
           = Sequential(source.attn, source.mlp, base, attention, update))

=============================================================================
