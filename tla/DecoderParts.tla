---------------------------- MODULE DecoderParts ----------------------------
(***************************************************************************)
(* Which parts of the transplanted decoder train, and what a checkpoint of *)
(* them restores (RealNemotronKestrelForCausalLM and RealDecoderLayer of   *)
(* model/nemotron.py, the encode policy of model/vision/internvit.py, and  *)
(* the fused mixer of model/attention/mhc_singlepass.py): freeze_backbone  *)
(* and the vision stages, the cache of encoded images, the copy of the     *)
(* residual mixers in the fused backend, and the state dict that holds the *)
(* trainable parameters only.                                             *)
(*                                                                         *)
(* Weights are known by the training step that last moved them, 0 being    *)
(* what the loader gave them.                                              *)
(***************************************************************************)
EXTENDS Integers, FiniteSets

CONSTANTS
  Layers,       \* number of decoder layers
  Images,
  StagesUsed,   \* the vision stages the callers select
  MHCEnabled,   \* config.mhc_enabled
  StepBound,    \* bound on training steps
  LaunchBound,  \* bound on launches after the first
  Absent        \* None

ASSUME PartsAssumption ==
  /\ StagesUsed \subseteq {"none", "projector", "last4", "upper12", "all"}  \* nemotron.py:358
  /\ Layers \in Nat /\ StepBound \in Nat /\ LaunchBound \in Nat

VARIABLES
  weights,   \* part -> the step that last moved it
  fused,     \* layer -> Absent, or the weights of the two mixers copied
  routed,    \* mhc_backend = "single_pass" in every layer
  start,     \* trainable_layer_start
  unfrozen, \* parts with requires_grad
  encoded,   \* _vision_encoded_cache: image -> Absent or the encoder's weights
  disk,      \* a checkpoint: trainable_state_dict
  saved,     \* history: what the saved model computed with, or Absent if the dict leaves some of it out
  clock,     \* history: training steps
  launches   \* history: launches, and whether the last load restored a whole model

partsVars == <<weights, fused, routed, start, unfrozen, encoded, disk, saved, clock, launches>>

-----------------------------------------------------------------------------
Index == 1 .. Layers

Attention == {"attention"} \X Index
AttnMHC == {"attn_mhc"} \X Index
MlpMHC == {"mlp_mhc"} \X Index
\* Blocks of the encoder: blocks[-4:], the rest of blocks[-12:], the earlier ones,
\* and what is in no block.
Last4 == {<<"vision", "last4">>}
Upper12 == Last4 \cup {<<"vision", "upper12">>}
Blocks == Upper12 \cup {<<"vision", "early">>}
VisionEncoder == Blocks \cup {<<"vision", "embeddings">>}
Projector == {<<"vision", "projector">>}
Vision == VisionEncoder \cup Projector
Body == {<<"body", "base">>}  \* embeddings, norms, MLPs, head
Parts == Attention \cup AttnMHC \cup MlpMHC \cup Vision \cup Body

InLayer(l) == {<<"attention", l>>, <<"attn_mhc", l>>, <<"mlp_mhc", l>>}

\* freeze_backbone: everything, vision included, and then the suffix of the layers.
BackboneScope(from) ==
  {p \in Attention : p[2] > from}
  \cup IF MHCEnabled THEN {p \in AttnMHC \cup MlpMHC : p[2] > from} ELSE {}

VisionScope(stage) ==
  CASE stage = "none" -> {}
    [] stage = "projector" -> Projector
    [] stage = "last4" -> Projector \cup Last4
    [] stage = "upper12" -> Projector \cup Upper12
    [] stage = "all" -> Projector \cup Blocks

EncoderWeights == [p \in VisionEncoder |-> weights[p]]
VisionFrozen == VisionEncoder \cap unfrozen = {}

\* Mutant: whether the encoder is frozen or not.
CacheableAlways == TRUE

\* visual_tokens: the cache is read and written only while the encoder is frozen.
Cacheable == VisionFrozen

CacheAfter(image) ==
  IF Cacheable /\ encoded[image] = Absent
  THEN [encoded EXCEPT ![image] = EncoderWeights] ELSE encoded

\* The encoding a forward pass projects.
Encoding(image) ==
  IF Cacheable /\ encoded[image] # Absent THEN encoded[image] ELSE EncoderWeights

\* from_sequential copies both mixers.
MixersOf(l) == <<weights[<<"attn_mhc", l>>], weights[<<"mlp_mhc", l>>]>>
Promoted == [l \in Index |-> MixersOf(l)]

\* The residual mixing of a layer: the fused coefficients replace the second mixer.
Mixing(l) == IF routed /\ fused[l] # Absent THEN fused[l] ELSE MixersOf(l)

\* Everything a forward pass depends on.
Model == [weights |-> weights, mixing |-> [l \in Index |-> Mixing(l)]]

\* Layers before the start run under no_grad while training, so what is before
\* them in the graph gets no gradient either; nor does a mixer out of use.
InGraph(image) ==
  {p \in UNION {InLayer(l) : l \in Index} :
     p[2] > start /\ ~ (p[1] = "mlp_mhc" /\ routed /\ fused[p[2]] # Absent)}
  \cup IF start = 0 /\ image # Absent THEN Vision ELSE {}

-----------------------------------------------------------------------------
\* load_real_nemotron_transplant: constructed, then freeze_backbone() and the stage.
Loaded(stage) ==
  /\ weights' = [p \in Parts |-> 0]
  /\ fused' = [l \in Index |-> IF routed' THEN <<0, 0>> ELSE Absent]
  /\ start' = 0
  /\ unfrozen' = BackboneScope(0) \cup VisionScope(stage)
  /\ encoded' = [i \in Images |-> Absent]

PartsInit ==
  /\ weights = [p \in Parts |-> 0]
  /\ routed \in BOOLEAN
  /\ fused = [l \in Index |-> IF routed THEN <<0, 0>> ELSE Absent]
  /\ start = 0
  /\ \E stage \in StagesUsed : unfrozen = BackboneScope(0) \cup VisionScope(stage)
  /\ encoded = [i \in Images |-> Absent]
  /\ disk = Absent
  /\ saved = Absent
  /\ clock = 0
  /\ launches = [count |-> 0, whole |-> FALSE]

\* What is assumed of callers: one that freezes an encoder again after unfreezing it
\* calls clear_vision_cache first.  set_vision_trainable does not, and its stages are
\* meant to go forward only; both callers in the repository select one stage per load.
ClearedBefore(stage) ==
  ~ VisionFrozen /\ VisionScope(stage) \cap VisionEncoder = {} => \A i \in Images : encoded[i] = Absent

\* freeze_backbone and then set_vision_trainable, the order of every caller.
Configure(from, stage) ==
  /\ ClearedBefore(stage)
  /\ start' = from
  /\ unfrozen' = BackboneScope(from) \cup VisionScope(stage)
  /\ UNCHANGED <<weights, fused, routed, encoded, disk, saved, clock, launches>>

ClearVisionCache ==
  /\ encoded' = [i \in Images |-> Absent]
  /\ UNCHANGED <<weights, fused, routed, start, unfrozen, disk, saved, clock, launches>>

\* A forward pass without gradients.  KestrelForCausalLM.visual_tokens keeps the same
\* cache under the same condition.
VisualTokens(image) ==
  /\ encoded' = CacheAfter(image)
  /\ UNCHANGED <<weights, fused, routed, start, unfrozen, disk, saved, clock, launches>>

TrainParts(image) ==
  /\ clock < StepBound
  /\ clock' = clock + 1
  /\ weights' = [p \in Parts |-> IF p \in unfrozen \cap InGraph(image) THEN clock' ELSE weights[p]]
  /\ encoded' = IF image = Absent THEN encoded ELSE CacheAfter(image)
  /\ launches' = [launches EXCEPT !.whole = FALSE]
  /\ UNCHANGED <<fused, routed, start, unfrozen, disk, saved>>

\* promote_to_single_pass in every layer, and mhc_backend set to route there or back.
Promote ==
  /\ fused' = Promoted
  /\ UNCHANGED <<weights, routed, start, unfrozen, encoded, disk, saved, clock, launches>>

Route(on) ==
  /\ routed' = on
  /\ launches' = [launches EXCEPT !.whole = FALSE]
  /\ UNCHANGED <<weights, fused, start, unfrozen, encoded, disk, saved, clock>>

SaveParts ==
  /\ disk' = [p \in unfrozen |-> weights[p]]
  /\ saved' = IF /\ \A p \in Parts \ unfrozen : weights[p] = 0
                 /\ \A l \in Index : Mixing(l) = MixersOf(l)
              THEN Model ELSE Absent
  /\ UNCHANGED <<weights, fused, routed, start, unfrozen, encoded, clock, launches>>

\* Mutant: the residual mixers are not restored.
LoadedAttention ==
  [p \in Parts |-> IF p \in unfrozen \cap DOMAIN disk \cap Attention THEN disk[p] ELSE weights[p]]

\* load_trainable_state_dict: the trainable parameters, all of which must be there
\* but those with an allowed prefix; what else the dict holds is ignored.
LoadedParts == [p \in Parts |-> IF p \in unfrozen \cap DOMAIN disk THEN disk[p] ELSE weights[p]]

LoadParts(allowMissing) ==
  /\ disk # Absent
  /\ unfrozen \ DOMAIN disk \subseteq allowMissing  \* KeyError
  /\ weights' = LoadedParts
  /\ launches' = [launches EXCEPT !.whole = /\ DOMAIN disk = unfrozen
                                            /\ \A p \in Parts \ unfrozen : weights[p] = 0]
  /\ UNCHANGED <<fused, routed, start, unfrozen, encoded, disk, saved, clock>>

Relaunch(stage) ==
  /\ launches.count < LaunchBound
  /\ routed' \in BOOLEAN
  /\ Loaded(stage)
  /\ launches' = [count |-> launches.count + 1, whole |-> FALSE]
  /\ UNCHANGED <<disk, saved, clock>>

PartsNext ==
  \/ \E from \in 0 .. Layers, stage \in StagesUsed : Configure(from, stage)
  \/ ClearVisionCache
  \/ \E image \in Images : VisualTokens(image)
  \/ \E image \in Images \cup {Absent} : TrainParts(image)
  \/ Promote
  \/ \E on \in BOOLEAN : Route(on)
  \/ SaveParts
  \/ \E allowMissing \in {{}, Projector} : LoadParts(allowMissing)
  \/ \E stage \in StagesUsed : Relaunch(stage)

PartsSpec == PartsInit /\ [][PartsNext]_partsVars

-----------------------------------------------------------------------------
\* An image is never projected from an encoding the encoder would no longer
\* give: whatever is frozen, trained, loaded and frozen again, the cache is read
\* only where it is current.
EncodedIsCurrent == \A i \in Images : Encoding(i) = EncoderWeights

\* A checkpoint holds the trainable parameters only, and still restores the
\* model: when nothing it leaves out had moved and the scope is the same, loading
\* it gives the weights and the residual mixing of the model that was saved, once
\* a fused backend has been promoted again: its copy is not in the checkpoint.
ResumedExactly ==
  launches.whole /\ saved # Absent /\ (routed => fused = Promoted) => Model = saved

=============================================================================
