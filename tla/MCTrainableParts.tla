-------------------------- MODULE MCTrainableParts --------------------------
(***************************************************************************)
(* The parts of the models that train one at a time and depend on each     *)
(* other's state: the gates of the memory path, the decoder's scopes with  *)
(* its caches and checkpoints, and the residual mixers with their fused    *)
(* copy.                                                                   *)
(*                                                                         *)
(* A row of a mixing matrix is here any pair of small numbers that depends *)
(* on the logits and the iterations; scales and values have both signs.    *)
(***************************************************************************)
EXTENDS CEDMemory, DecoderParts, ResidualMixing

VARIABLE part  \* which of the three this behaviour is of; the others stay as they began

MCLogits == {0, 1}
MCRow(logits, n) == [self |-> 1 + logits, cross |-> n - logits]
MCScales == {-1, 2}
MCInputs == {-2, 0, 1}

partVars == <<memoryVars, partsVars, mixingVars, part>>

MemoryPart == part = "memory" /\ ModelStep /\ UNCHANGED <<partsVars, mixingVars, part>>
DecoderPart == part = "decoder" /\ PartsNext /\ UNCHANGED <<memoryVars, mixingVars, part>>
MixingPart == part = "mixing" /\ MixingNext /\ UNCHANGED <<memoryVars, partsVars, part>>

TrainablePartsInit ==
  /\ part \in {"memory", "decoder", "mixing"}
  /\ MemoryInit /\ PartsInit /\ MixingInit
  /\ part # "decoder" => ~ routed /\ unfrozen = BackboneScope(0)
  /\ part # "mixing" => streams = 1 /\ ~ attn.enabled /\ attn = mlp /\ attn.logits = 0
                        /\ attn.scale = 2 /\ attn.iterations = 1 /\ kept = NoModule

TrainablePartsSpec ==
  TrainablePartsInit /\ [][MemoryPart \/ DecoderPart \/ MixingPart]_partVars

=============================================================================
