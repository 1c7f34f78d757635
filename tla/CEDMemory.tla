----------------------------- MODULE CEDMemory -----------------------------
(***************************************************************************)
(* The memory path of the encoder-decoder student: the encoder, the bridge *)
(* that turns its states into a shared global key/value memory             *)
(* (model/encoder_bridge.py), and its two readers in the decoder: the      *)
(* gated hook (model/ced.py) and a stack of sparse memory layers           *)
(* (model/csa2.py).  Modelled is which parameters still have the exact     *)
(* zero they are initialised with and which of them a backward pass        *)
(* reaches: a product with an exact zero passes no gradient, and neither   *)
(* does a value taken out of the graph.  Any other gradient is taken to be *)
(* non-zero.                                                               *)
(***************************************************************************)
EXTENDS Naturals, FiniteSets

VARIABLES
  moved,      \* parameters that differ from their initial value
  trainable,  \* parameters with requires_grad
  enabled,    \* ExternalMemoryHook.enabled
  snapshot,   \* the moved parameters of a snapshot of the bridge
  opened      \* history: the gates somebody has written a non-zero value into

memoryVars == <<moved, trainable, enabled, snapshot, opened>>

-----------------------------------------------------------------------------
Encoder == {"encoder"}
Decoder == {"decoder"}
Hook == {"gate", "memory_proj"}
Sparse == {"csa_qk", "csa_out"}  \* csa_qk: q_proj and k_proj of a layer
Adapter == {"adapt_in", "adapt_down", "output_scale"}  \* adapt_in: adapt_gate_proj, adapt_up_proj
Bridge == Adapter \cup {"norm", "proj", "detail", "k_proj", "v_proj", "output_gate"}
Params == Encoder \cup Decoder \cup Hook \cup Sparse \cup Bridge
Gates == {"gate", "output_gate"}

\* Mutant: the inner projection of the adapter is initialised like any other.
ZeroInitOuter == Gates \cup {"output_scale", "csa_out"}

\* Initialised to exact zeros.
ZeroInit == Gates \cup {"output_scale", "adapt_down", "csa_out"}

Zero(p) == p \in ZeroInit \ moved

\* What the decoder reads, and through what: nothing, the encoder's states, or
\* a memory built by the bridge from a semantic tap alone or with a detail tap.
Taps == {"semantic", "detail"}
Paths == {[reader |-> "none", tap |-> "encoder"], [reader |-> "hook", tap |-> "encoder"]}
         \cup [reader : {"hook", "sparse"}, tap : Taps]

\* ExternalMemoryHook.forward returns its input before it uses the gate.
HookOpen == enabled /\ ~ Zero("gate")

\* Mutant: the memory is not scaled.
BridgeScaleMissing == 1

\* _project_memory scales by float(output_gate.detach()): a number, not a parameter.
BridgeScale == IF Zero("output_gate") THEN 0 ELSE 1

\* What the fused input of the memory depends on to first order.
BehindFused(tap) ==
  Encoder \cup {"norm", "proj"}
  \cup {p \in {"detail"} : tap = "detail"}
  \cup {p \in {"output_scale"} : ~ Zero("adapt_down")}
  \cup {p \in {"adapt_down"} : ~ Zero("output_scale")}
  \cup {p \in {"adapt_in"} : ~ Zero("adapt_down") /\ ~ Zero("output_scale")}

BehindBridge(tap, projections) ==
  IF BridgeScale = 0 THEN {} ELSE projections \cup BehindFused(tap)

\* hidden + gate * memory_proj(pooled values).
ReachedByHook(tap) ==
  IF ~ HookOpen THEN {}
  ELSE Hook \cup IF tap = "encoder" THEN Encoder ELSE BehindBridge(tap, {"v_proj"})

\* hidden + out_proj(softmax(scores) * values): out_proj and the values gate each other.
ReachedBySparse(tap) ==
  {p \in {"csa_out"} : BridgeScale # 0}
  \cup IF Zero("csa_out") \/ BridgeScale = 0 THEN {}
       ELSE {"csa_qk"} \cup BehindBridge(tap, {"k_proj", "v_proj"})

\* The parameters that get a gradient from the logits of a decode.
Reached(path) ==
  Decoder \cup CASE path.reader = "none" -> {}
                [] path.reader = "hook" -> ReachedByHook(path.tap)
                [] path.reader = "sparse" -> ReachedBySparse(path.tap)

-----------------------------------------------------------------------------
MemoryInit ==
  /\ moved = {}
  /\ trainable = Params
  /\ enabled = TRUE
  /\ snapshot = {}  \* of a bridge just built
  /\ opened = {}

\* A decode, backward, and a step of an optimizer over what is trainable.
TrainStep(path) ==
  /\ moved' = moved \cup (Reached(path) \cap trainable)
  /\ UNCHANGED <<trainable, enabled, snapshot, opened>>

\* freeze_encoder, freeze_decoder and EncoderMemoryBridge.freeze, and their opposites.
Freeze(group) ==
  /\ trainable' = trainable \ group
  /\ UNCHANGED <<moved, enabled, snapshot, opened>>

Unfreeze(group) ==
  /\ trainable' = trainable \cup group
  /\ UNCHANGED <<moved, enabled, snapshot, opened>>

SetMemoryEnabled(on) ==
  /\ enabled' = on
  /\ UNCHANGED <<moved, trainable, snapshot, opened>>

\* A gate written by hand, as the tests do: gate.fill_(x).
FillGate(gate, open) ==
  /\ moved' = IF open THEN moved \cup {gate} ELSE moved \ {gate}
  /\ opened' = IF open THEN opened \cup {gate} ELSE opened
  /\ UNCHANGED <<trainable, enabled, snapshot>>

\* state_dict_snapshot clones; load_snapshot_strict writes every tensor of the bridge.
TakeSnapshot ==
  /\ snapshot' = moved \cap Bridge
  /\ UNCHANGED <<moved, trainable, enabled, opened>>

LoadSnapshot ==
  /\ moved' = (moved \ Bridge) \cup snapshot
  /\ UNCHANGED <<trainable, enabled, snapshot, opened>>

ModelStep ==
  \/ \E path \in Paths : TrainStep(path)
  \/ \E group \in {Encoder, Decoder, Bridge} : Freeze(group) \/ Unfreeze(group)
  \/ \E on \in BOOLEAN : SetMemoryEnabled(on)
  \/ TakeSnapshot \/ LoadSnapshot
  \/ \E gate \in Gates, open \in BOOLEAN : FillGate(gate, open)

MemorySpec == MemoryInit /\ [][ModelStep]_memoryVars

\* Training alone: every parameter trainable, no gate written by hand.
TrainingSpec ==
  /\ MemoryInit
  /\ [][\E path \in Paths : TrainStep(path)]_memoryVars
  /\ \A path \in Paths : WF_memoryVars(TrainStep(path))

-----------------------------------------------------------------------------
MemoryTypeOK ==
  /\ moved \subseteq Params /\ trainable \subseteq Params
  /\ enabled \in BOOLEAN
  /\ snapshot \subseteq Bridge
  /\ opened \subseteq Gates

\* The residual adapter of the bridge is a product of two factors that both
\* start at zero, so neither gets a gradient: whatever is trained, opened or
\* frozen, the adapter stays what it is at initialisation.
AdapterInert == moved \cap Adapter = {}

\* A gate never opens by training: whatever is read, trained and frozen, the
\* hook moves only once its gate has been written by hand, and nothing in or
\* behind the bridge before its output gate has.
GatesOpenByHand ==
  /\ moved \cap Hook # {} => "gate" \in opened
  /\ moved \cap (Bridge \cup Sparse) # {} => "output_gate" \in opened
  /\ moved \cap (Bridge \ Gates) # {} => "gate" \in opened \/ "csa_out" \in moved
  /\ moved \cap Encoder # {} => opened # {}

\* "Exact 0.0: gated contribution is exactly zero until training opens it"
\* (encoder_bridge.py:192): training does open the gate.
TrainingOpensGate == <>(~ Zero("output_gate"))

=============================================================================
