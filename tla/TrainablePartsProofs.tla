------------------------ MODULE TrainablePartsProofs ------------------------
(***************************************************************************)
(* Proofs about the parts of the models that train one at a time:          *)
(*   - the zero-initialised parameters of the memory path that no training *)
(*     ever moves.  A parameter in a snapshot of the bridge comes back     *)
(*     when it is loaded, so the invariant says of snapshots what it says  *)
(*     of the model;                                                       *)
(*   - the decoder's cache of encoded images, and what a checkpoint of the *)
(*     trainable parameters restores.  A checkpoint that leaves nothing    *)
(*     out is everything that is not as the loader gave it, so the         *)
(*     invariant relates it to the model it was saved from;                *)
(*   - the fused backend of a decoder layer gives the output of the two    *)
(*     mixers it replaces, for every value of their parameters and of the  *)
(*     states.                                                             *)
(***************************************************************************)
EXTENDS CEDMemory, DecoderParts, ResidualMixing, TLAPS

\* What holds of a set of moved parameters of the bridge, in the model or in a snapshot.
BridgeClosed(set) ==
  /\ set \cap Adapter = {}
  /\ set \cap Bridge # {} => "output_gate" \in opened
  /\ set \cap (Bridge \ Gates) # {} => "gate" \in opened \/ "csa_out" \in moved

MemoryInv ==
  /\ MemoryTypeOK
  /\ BridgeClosed(moved)
  /\ BridgeClosed(snapshot)
  /\ moved \cap Hook # {} => "gate" \in opened
  /\ moved \cap Sparse # {} => "output_gate" \in opened
  /\ moved \cap Encoder # {} => opened # {}

\* A gate that is not zero has been moved, and both adapter factors at zero
\* pass no gradient on.
LEMMA ReachedClosed ==
  ASSUME MemoryInv, NEW path \in Paths
  PROVE  /\ Reached(path) \subseteq Params
         /\ Reached(path) \cap Adapter = {}
         /\ Reached(path) \cap Hook # {} => "gate" \in moved
         /\ Reached(path) \cap (Bridge \cup Sparse) # {} => "output_gate" \in moved
         /\ Reached(path) \cap (Bridge \ Gates) # {} => "gate" \in moved \/ "csa_out" \in moved
         /\ Reached(path) \cap Encoder # {} => "gate" \in moved \/ "output_gate" \in moved
<1> USE DEF Params, Encoder, Decoder, Hook, Sparse, Bridge, Adapter, Gates
<1>1. Zero("adapt_down") /\ Zero("output_scale")
  BY DEF MemoryInv, BridgeClosed, Zero, ZeroInit
<1>2. /\ ~ Zero("gate") => "gate" \in moved
      /\ ~ Zero("output_gate") => "output_gate" \in moved
      /\ ~ Zero("csa_out") => "csa_out" \in moved
  BY DEF Zero, ZeroInit
<1>3. \A tap : BehindFused(tap) \subseteq {"encoder", "norm", "proj", "detail"}
  BY <1>1 DEF BehindFused
<1>4. \A tap, projections :
        /\ BehindBridge(tap, projections)
             \subseteq projections \cup {"encoder", "norm", "proj", "detail"}
        /\ BridgeScale = 0 => BehindBridge(tap, projections) = {}
  BY <1>3 DEF BehindBridge
<1>5. BridgeScale # 0 => "output_gate" \in moved
  BY <1>2 DEF BridgeScale
<1>6. CASE path.reader = "none"
  <2>1. Reached(path) = Decoder
    BY <1>6 DEF Reached
  <2> QED BY <2>1
<1>7. CASE path.reader = "hook"
  <2>1. Reached(path) = Decoder \cup ReachedByHook(path.tap)
    BY <1>7 DEF Reached
  <2>2. CASE ~ HookOpen
    BY <2>1, <2>2 DEF ReachedByHook
  <2>3. CASE HookOpen
    <3>1. "gate" \in moved
      BY <2>3, <1>2 DEF HookOpen
    <3>2. Reached(path) \subseteq Decoder \cup Hook \cup {"v_proj", "encoder", "norm", "proj", "detail"}
      BY <2>1, <2>3, <1>4 DEF ReachedByHook
    <3>3. Reached(path) \cap (Bridge \cup Sparse) # {} => BridgeScale # 0
      BY <2>1, <2>3, <1>4 DEF ReachedByHook
    <3> QED BY <3>1, <3>2, <3>3, <1>5
  <2> QED BY <2>2, <2>3
<1>8. CASE path.reader = "sparse"
  <2>1. Reached(path) = Decoder \cup ReachedBySparse(path.tap)
    BY <1>8 DEF Reached
  <2>2. CASE BridgeScale = 0
    BY <2>1, <2>2 DEF ReachedBySparse
  <2>3. CASE BridgeScale # 0 /\ Zero("csa_out")
    BY <2>1, <2>3, <1>5 DEF ReachedBySparse
  <2>4. CASE BridgeScale # 0 /\ ~ Zero("csa_out")
    <3>1. Reached(path) \subseteq Decoder \cup {"csa_out", "csa_qk", "k_proj", "v_proj",
                                               "encoder", "norm", "proj", "detail"}
      BY <2>1, <2>4, <1>4 DEF ReachedBySparse
    <3> QED BY <3>1, <2>4, <1>2, <1>5
  <2> QED BY <2>2, <2>3, <2>4
<1>9. path.reader \in {"none", "hook", "sparse"}
  BY DEF Paths
<1> QED BY <1>6, <1>7, <1>8, <1>9

LEMMA MemoryInitially == MemoryInit => MemoryInv
BY DEF MemoryInit, MemoryInv, MemoryTypeOK, BridgeClosed, Params, Bridge, Gates, Encoder, Decoder,
       Hook, Sparse, Adapter

LEMMA TrainKeeps ==
  ASSUME MemoryInv, NEW path \in Paths, TrainStep(path)
  PROVE  MemoryInv'
<1> DEFINE reached == Reached(path)
<1>1. /\ reached \subseteq Params
      /\ reached \cap Adapter = {}
      /\ reached \cap Hook # {} => "gate" \in moved
      /\ reached \cap (Bridge \cup Sparse) # {} => "output_gate" \in moved
      /\ reached \cap (Bridge \ Gates) # {} => "gate" \in moved \/ "csa_out" \in moved
      /\ reached \cap Encoder # {} => "gate" \in moved \/ "output_gate" \in moved
  BY ReachedClosed
<1>2. /\ moved' = moved \cup (reached \cap trainable)
      /\ trainable' = trainable /\ enabled' = enabled
      /\ snapshot' = snapshot /\ opened' = opened
  BY DEF TrainStep
<1> HIDE DEF reached
<1>3. /\ "gate" \in moved => "gate" \in opened
      /\ "output_gate" \in moved => "output_gate" \in opened
  BY DEF MemoryInv, BridgeClosed, Hook, Bridge
<1>4. MemoryTypeOK'
  BY <1>1, <1>2 DEF MemoryInv, MemoryTypeOK
<1>5. BridgeClosed(moved)'
  BY <1>1, <1>2, <1>3 DEF MemoryInv, BridgeClosed
<1>6. BridgeClosed(snapshot)'
  BY <1>2 DEF MemoryInv, BridgeClosed
<1>7. /\ moved' \cap Hook # {} => "gate" \in opened'
      /\ moved' \cap Sparse # {} => "output_gate" \in opened'
      /\ moved' \cap Encoder # {} => opened' # {}
  BY <1>1, <1>2, <1>3 DEF MemoryInv
<1> QED BY <1>4, <1>5, <1>6, <1>7 DEF MemoryInv

LEMMA ModelStepKeeps == ASSUME MemoryInv, [ModelStep]_memoryVars PROVE MemoryInv'
<1> USE DEF MemoryInv, MemoryTypeOK, BridgeClosed
<1>1. CASE \E path \in Paths : TrainStep(path)
  BY <1>1, TrainKeeps
<1>2. CASE \E group \in {Encoder, Decoder, Bridge} : Freeze(group) \/ Unfreeze(group)
  BY <1>2 DEF Freeze, Unfreeze, Params
<1>3. CASE \E on \in BOOLEAN : SetMemoryEnabled(on)
  BY <1>3 DEF SetMemoryEnabled
<1>4. CASE TakeSnapshot
  BY <1>4 DEF TakeSnapshot
<1>5. CASE LoadSnapshot
  BY <1>5 DEF LoadSnapshot, Params, Adapter, Bridge, Hook, Sparse, Encoder
<1>6. CASE \E gate \in Gates, open \in BOOLEAN : FillGate(gate, open)
  <2> PICK gate \in Gates, open \in BOOLEAN : FillGate(gate, open)
    BY <1>6
  <2>1. CASE open
    BY <2>1 DEF FillGate, Gates, Params, Adapter, Bridge, Hook, Sparse, Encoder
  <2>2. CASE ~ open
    BY <2>2 DEF FillGate, Gates
  <2> QED BY <2>1, <2>2
<1>7. CASE UNCHANGED memoryVars
  BY <1>7 DEF memoryVars
<1> QED BY <1>1, <1>2, <1>3, <1>4, <1>5, <1>6, <1>7 DEF ModelStep

\* The invariant of the memory path.
THEOREM MemoryInvariant == MemorySpec => []MemoryInv
BY MemoryInitially, ModelStepKeeps, PTL DEF MemorySpec

\* The bridge's residual adapter stays as it was initialised, however the model
\* is trained, frozen, opened, snapshotted and restored.
THEOREM AdapterNeverTrains == MemorySpec => []AdapterInert
<1>1. MemoryInv => AdapterInert
  BY DEF MemoryInv, BridgeClosed, AdapterInert
<1> QED BY <1>1, MemoryInvariant, PTL

\* No gate opens by training.
THEOREM GatesNeverTrainOpen == MemorySpec => []GatesOpenByHand
<1>1. MemoryInv => GatesOpenByHand
  BY DEF MemoryInv, BridgeClosed, GatesOpenByHand
<1> QED BY <1>1, MemoryInvariant, PTL

-----------------------------------------------------------------------------
\* The weights a checkpoint that leaves nothing out restores.
Restored == [p \in Parts |-> IF p \in DOMAIN disk THEN disk[p] ELSE 0]

PartsTypeOK ==
  /\ weights \in [Parts -> Nat]
  /\ clock \in Nat
  /\ encoded = [i \in Images |-> encoded[i]]
  /\ unfrozen \subseteq Parts
  /\ disk # Absent => disk \in [DOMAIN disk -> Nat]
  /\ launches \in [count : Nat, whole : BOOLEAN]

\* While the encoder is frozen its cache holds what it would give.
CacheCurrent == VisionFrozen => \A i \in Images : encoded[i] \in {Absent, EncoderWeights}

\* A checkpoint of a model computed from its weights alone holds every weight
\* that is not the loader's.
DiskComplete ==
  saved # Absent =>
    saved = [weights |-> Restored,
             mixing |-> [l \in Index |-> <<Restored[<<"attn_mhc", l>>], Restored[<<"mlp_mhc", l>>]>>]]

WholeRestored == launches.whole /\ saved # Absent => weights = Restored

PartsInv == PartsTypeOK /\ CacheCurrent /\ DiskComplete /\ WholeRestored

LEMMA ScopesInParts ==
  /\ \A from : BackboneScope(from) \subseteq Parts /\ BackboneScope(from) \cap VisionEncoder = {}
  /\ \A stage \in StagesUsed : VisionScope(stage) \subseteq Parts
<1>1. \A from : BackboneScope(from) \subseteq Parts
  BY DEF BackboneScope, Parts
<1>2. \A from : BackboneScope(from) \cap VisionEncoder = {}
  BY DEF BackboneScope, Attention, AttnMHC, MlpMHC, VisionEncoder, Blocks, Upper12, Last4
<1>3. \A stage \in StagesUsed : VisionScope(stage) \subseteq Parts
  BY PartsAssumption DEF VisionScope, Projector, Last4, Upper12, Blocks, VisionEncoder, Vision, Parts
<1> QED BY <1>1, <1>2, <1>3

\* What a forward pass adds to the cache is current too.
LEMMA CacheKept ==
  ASSUME CacheCurrent, NEW image, encoded = [i \in Images |-> encoded[i]]
  PROVE  /\ VisionFrozen => \A i \in Images : CacheAfter(image)[i] \in {Absent, EncoderWeights}
         /\ CacheAfter(image) = [i \in Images |-> CacheAfter(image)[i]]
BY DEF CacheCurrent, CacheAfter, Cacheable

LEMMA PartsInitially == PartsInit => PartsInv
<1> SUFFICES ASSUME PartsInit PROVE PartsInv
  OBVIOUS
<1>1. PartsTypeOK
  BY ScopesInParts DEF PartsInit, PartsTypeOK
<1>2. CacheCurrent /\ DiskComplete /\ WholeRestored
  BY DEF PartsInit, CacheCurrent, DiskComplete, WholeRestored
<1> QED BY <1>1, <1>2 DEF PartsInv

LEMMA TrainPartsKeeps ==
  ASSUME PartsInv, NEW image \in Images \cup {Absent}, TrainParts(image) PROVE PartsInv'
<1> USE DEF PartsInv
<1>1. /\ VisionFrozen => \A i \in Images : encoded'[i] \in {Absent, EncoderWeights}
      /\ encoded' = [i \in Images |-> encoded'[i]]
  BY CacheKept DEF TrainParts, CacheCurrent, PartsTypeOK
<1>2. PartsTypeOK'
  <2>1. clock' \in Nat /\ weights' \in [Parts -> Nat]
    BY DEF TrainParts, PartsTypeOK
  <2>2. launches' \in [count : Nat, whole : BOOLEAN]
    BY DEF TrainParts, PartsTypeOK
  <2> QED BY <1>1, <2>1, <2>2 DEF TrainParts, PartsTypeOK
<1>3. VisionFrozen' = VisionFrozen
  BY DEF TrainParts, VisionFrozen
<1>4. VisionFrozen => EncoderWeights' = EncoderWeights
  BY DEF TrainParts, EncoderWeights, VisionFrozen, Parts, Vision
<1>5. CacheCurrent'
  BY <1>1, <1>3, <1>4 DEF CacheCurrent
<1>6. DiskComplete'
  BY DEF TrainParts, DiskComplete, Restored
<1>7. WholeRestored'
  BY DEF TrainParts, WholeRestored, PartsTypeOK
<1> QED BY <1>2, <1>5, <1>6, <1>7

LEMMA LoadPartsKeeps ==
  ASSUME PartsInv, NEW allowMissing, LoadParts(allowMissing) PROVE PartsInv'
<1> USE DEF PartsInv
<1>1. PartsTypeOK'
  BY DEF LoadParts, LoadedParts, PartsTypeOK
<1>2. VisionFrozen' = VisionFrozen
  BY DEF LoadParts, VisionFrozen
<1>3. VisionFrozen => EncoderWeights' = EncoderWeights
  BY DEF LoadParts, LoadedParts, EncoderWeights, VisionFrozen, Parts, Vision
<1>4. CacheCurrent'
  BY <1>2, <1>3 DEF CacheCurrent, LoadParts
<1>5. DiskComplete'
  BY DEF LoadParts, DiskComplete, Restored
<1>6. ASSUME launches'.whole PROVE weights' = Restored'
  <2>1. DOMAIN disk = unfrozen /\ \A p \in Parts \ unfrozen : weights[p] = 0
    BY <1>6 DEF LoadParts, PartsTypeOK
  <2> QED BY <2>1 DEF LoadParts, LoadedParts, Restored
<1>7. WholeRestored'
  BY <1>6 DEF WholeRestored
<1> QED BY <1>1, <1>4, <1>5, <1>7

LEMMA SavePartsKeeps == ASSUME PartsInv, SaveParts PROVE PartsInv'
<1> USE DEF PartsInv
<1>1. PartsTypeOK' /\ CacheCurrent'
  BY DEF SaveParts, PartsTypeOK, CacheCurrent, VisionFrozen, EncoderWeights
<1>2. ASSUME saved' # Absent
      PROVE  /\ Restored' = weights
             /\ saved' = [weights |-> weights, mixing |-> [l \in Index |-> MixersOf(l)]]
  <2>1. /\ \A p \in Parts \ unfrozen : weights[p] = 0
        /\ \A l \in Index : Mixing(l) = MixersOf(l)
        /\ saved' = Model
    BY <1>2 DEF SaveParts
  <2>2. disk' = [p \in unfrozen |-> weights[p]]
    BY DEF SaveParts
  <2>3. Restored' = [p \in Parts |-> IF p \in unfrozen THEN weights[p] ELSE 0]
    BY <2>2 DEF Restored, PartsTypeOK
  <2>4. Restored' = weights
    BY <2>1, <2>3 DEF PartsTypeOK
  <2> QED BY <2>1, <2>4 DEF Model
<1>3. DiskComplete'
  BY <1>2 DEF DiskComplete, MixersOf
<1>4. WholeRestored'
  BY <1>2 DEF WholeRestored, SaveParts
<1> QED BY <1>1, <1>3, <1>4

\* A change of scope leaves a frozen encoder with the weights it had.
LEMMA ConfigureKeeps ==
  ASSUME PartsInv, NEW from, NEW stage \in StagesUsed, Configure(from, stage) PROVE PartsInv'
<1> USE DEF PartsInv
<1>1. PartsTypeOK'
  BY ScopesInParts DEF Configure, PartsTypeOK
<1>2. ASSUME VisionFrozen' PROVE \A i \in Images : encoded[i] \in {Absent, EncoderWeights}
  <2>1. VisionScope(stage) \cap VisionEncoder = {}
    BY <1>2 DEF Configure, VisionFrozen
  <2> QED BY <2>1 DEF Configure, ClearedBefore, CacheCurrent
<1>3. CacheCurrent'
  BY <1>2 DEF CacheCurrent, Configure, EncoderWeights
<1>4. DiskComplete' /\ WholeRestored'
  BY DEF Configure, DiskComplete, WholeRestored, Restored
<1> QED BY <1>1, <1>3, <1>4

LEMMA RelaunchKeeps ==
  ASSUME PartsInv, NEW stage \in StagesUsed, Relaunch(stage) PROVE PartsInv'
<1> USE DEF PartsInv
<1>1. PartsTypeOK'
  BY ScopesInParts DEF Relaunch, Loaded, PartsTypeOK
<1>2. CacheCurrent'
  BY DEF Relaunch, Loaded, CacheCurrent
<1>3. DiskComplete' /\ WholeRestored'
  BY DEF Relaunch, DiskComplete, WholeRestored, Restored
<1> QED BY <1>1, <1>2, <1>3

LEMMA PartsStepKeeps == ASSUME PartsInv, [PartsNext]_partsVars PROVE PartsInv'
<1> USE DEF PartsInv
<1>1. ASSUME NEW image \in Images, VisualTokens(image) PROVE PartsInv'
  <2>1. CacheCurrent' /\ encoded' = [i \in Images |-> encoded'[i]]
    BY <1>1, CacheKept DEF VisualTokens, CacheCurrent, PartsTypeOK, VisionFrozen, EncoderWeights
  <2> QED BY <1>1, <2>1 DEF VisualTokens, PartsTypeOK, DiskComplete, WholeRestored, Restored
<1>2. CASE ClearVisionCache
  BY <1>2 DEF ClearVisionCache, PartsTypeOK, CacheCurrent, DiskComplete, WholeRestored, Restored
<1>3. CASE Promote
  BY <1>3 DEF Promote, PartsTypeOK, CacheCurrent, VisionFrozen, EncoderWeights, DiskComplete,
              WholeRestored, Restored
<1>4. ASSUME NEW on \in BOOLEAN, Route(on) PROVE PartsInv'
  <2>1. PartsTypeOK' /\ WholeRestored'
    BY <1>4 DEF Route, PartsTypeOK, WholeRestored
  <2>2. CacheCurrent' /\ DiskComplete'
    BY <1>4 DEF Route, CacheCurrent, VisionFrozen, EncoderWeights, DiskComplete, Restored
  <2> QED BY <2>1, <2>2
<1>5. CASE UNCHANGED partsVars
  BY <1>5 DEF partsVars, PartsTypeOK, CacheCurrent, VisionFrozen, EncoderWeights, DiskComplete,
              WholeRestored, Restored
<1> QED
  BY <1>1, <1>2, <1>3, <1>4, <1>5, TrainPartsKeeps, LoadPartsKeeps, SavePartsKeeps, ConfigureKeeps,
     RelaunchKeeps DEF PartsNext

\* The invariant of the decoder's parts.
THEOREM PartsInvariant == PartsSpec => []PartsInv
BY PartsInitially, PartsStepKeeps, PTL DEF PartsSpec

\* A cached encoding is what the encoder would give, whatever is trained, loaded
\* and frozen in between.
THEOREM EncodedAlwaysCurrent == PartsSpec => []EncodedIsCurrent
<1>1. PartsInv => EncodedIsCurrent
  BY DEF PartsInv, CacheCurrent, EncodedIsCurrent, Encoding, Cacheable
<1> QED BY <1>1, PartsInvariant, PTL

\* A checkpoint of the trainable parameters alone restores the whole model,
\* its residual mixing included, for every number of layers and every history of
\* scopes, promotions, saves and launches.
THEOREM CheckpointsRestoreTheModel == PartsSpec => []ResumedExactly
<1>1. ASSUME PartsInv, launches.whole, saved # Absent, routed => fused = Promoted
      PROVE  Model = saved
  <2>1. weights = Restored
    BY <1>1 DEF PartsInv, WholeRestored
  <2>2. \A l \in Index : Mixing(l) = MixersOf(l)
    BY <1>1 DEF Mixing, Promoted
  <2> QED BY <1>1, <2>1, <2>2 DEF PartsInv, DiskComplete, Model, MixersOf
<1>2. PartsInv => ResumedExactly
  BY <1>1 DEF ResumedExactly
<1> QED BY <1>2, PartsInvariant, PTL

-----------------------------------------------------------------------------
\* The two mixings expand to the three closed-form coefficients
\* (mhc_singlepass.py, "derived exactly from the two matrices").
LEMMA FusionIsExact ==
  ASSUME NEW sa \in Int, NEW rowA \in [self : Int, cross : Int],
         NEW sm \in Int, NEW rowM \in [self : Int, cross : Int],
         NEW base \in Int, NEW attention \in Int, NEW update \in Int
  PROVE  Fuse(sa, rowA, sm, rowM, base, attention, update)
           = Combine(sm, rowM, Combine(sa, rowA, base, attention), update)
BY SMTT(60) DEF Fuse, Combine

\* A row of a mixing matrix has the two entries the coefficients read.
LEMMA EntryTyped ==
  ASSUME NEW logits \in Logits, NEW n \in Iterations
  PROVE  Entry(logits, n) \in [self : Int, cross : Int]
<1>1. CASE streams = 1
  BY <1>1 DEF Entry
<1>2. CASE streams # 1
  BY <1>2, RowAssumption DEF Entry
<1> QED BY <1>1, <1>2

\* The parameters and iterations of a fused module are those of a pair.
Copies(f, a, m) ==
  /\ f.logitsAttn = a.logits /\ f.logitsMlp = m.logits /\ f.iterations = a.iterations
  /\ f.scaleAttn = a.scale /\ f.scaleMlp = m.scale

\* A copy of a pair with the same iterations and flag, and that flag, reproduces it.
LEMMA CopyExact ==
  ASSUME NEW a \in Mixers, NEW m \in Mixers,
         a.iterations = m.iterations, a.enabled = m.enabled,
         NEW f, Copies(f, a, m), f.enabled = a.enabled,
         NEW base \in Int, NEW attention \in Int, NEW update \in Int
  PROVE  FusedOut(f, base, attention, update) = Sequential(a, m, base, attention, update)
<1>1. a.enabled \in BOOLEAN
  BY DEF Mixers
<1>2. CASE ~ a.enabled
  <2>1. FusedOut(f, base, attention, update) = base + attention + update
    BY <1>2 DEF FusedOut
  <2>2. Sequential(a, m, base, attention, update) = base + attention + update
    BY <1>2 DEF Sequential, Mix
  <2> QED BY <2>1, <2>2
<1>3. CASE a.enabled
  <2> DEFINE rowA == Entry(a.logits, a.iterations)
             rowM == Entry(m.logits, m.iterations)
  <2>1. rowA \in [self : Int, cross : Int] /\ rowM \in [self : Int, cross : Int]
    BY EntryTyped DEF Mixers
  <2>2. a.scale \in Int /\ m.scale \in Int
    BY ValueAssumption DEF Mixers
  <2>3. FusedOut(f, base, attention, update)
          = Fuse(a.scale, rowA, m.scale, rowM, base, attention, update)
    BY <1>3 DEF FusedOut, Copies
  <2>4. Sequential(a, m, base, attention, update)
          = Combine(m.scale, rowM, Combine(a.scale, rowA, base, attention), update)
    BY <1>3 DEF Sequential, Mix
  <2> HIDE DEF rowA, rowM
  <2> QED BY <2>1, <2>2, <2>3, <2>4, FusionIsExact
<1> QED BY <1>1, <1>2, <1>3

\* from_sequential reproduces a pair with the same iterations and the same flag,
\* on every hidden state and every two updates.
THEOREM FromSequentialExact ==
  ASSUME NEW a \in Mixers, NEW m \in Mixers,
         a.iterations = m.iterations, a.enabled = m.enabled,
         NEW base \in Int, NEW attention \in Int, NEW update \in Int
  PROVE  FusedOut(FromSequential(a, m), base, attention, update)
           = Sequential(a, m, base, attention, update)
<1>1. a.enabled \in BOOLEAN
  BY DEF Mixers
<1>2. Copies(FromSequential(a, m), a, m)
  BY DEF FromSequential, Copies
<1>3. FromSequential(a, m).enabled = a.enabled
  BY <1>1 DEF FromSequential
<1> QED BY <1>2, <1>3, CopyExact

-----------------------------------------------------------------------------
\* What a fused module, or a snapshot of one, keeps of a pair it is of: the two
\* mixers agree in their iterations and flag, and it has their parameters.
IsOf(f, p) == p \in Pairs /\ Copies(f, p.attn, p.mlp)

FusedModules ==
  [logitsAttn : Logits, logitsMlp : Logits, iterations : Iterations,
   scaleAttn : Scales, scaleMlp : Scales, enabled : BOOLEAN]

MixingInvariant ==
  /\ attn \in Mixers /\ mlp \in Mixers
  /\ attn.iterations = mlp.iterations /\ attn.enabled = mlp.enabled
  /\ single # NoModule => single \in FusedModules /\ IsOf(single, source)
  /\ kept # NoModule => kept.module \in FusedModules /\ IsOf(kept.module, kept.of)

LEMMA FusedTyped ==
  ASSUME NEW a \in Mixers, NEW m \in Mixers, a.iterations = m.iterations, a.enabled = m.enabled
  PROVE  /\ FromSequential(a, m) \in FusedModules
         /\ IsOf(FromSequential(a, m), [attn |-> a, mlp |-> m])
<1>1. FromSequential(a, m) \in FusedModules
  BY DEF FromSequential, FusedModules, Mixers
<1>2. [attn |-> a, mlp |-> m] \in Pairs
  BY DEF Pairs
<1>3. Copies(FromSequential(a, m), a, m)
  BY DEF FromSequential, Copies
<1> QED BY <1>1, <1>2, <1>3 DEF IsOf

\* Setting the flag of a fused module leaves the pair it is of.
LEMMA FlagKept ==
  ASSUME NEW f \in FusedModules, NEW on \in BOOLEAN, NEW p, IsOf(f, p)
  PROVE  [f EXCEPT !.enabled = on] \in FusedModules /\ IsOf([f EXCEPT !.enabled = on], p)
<1>1. [f EXCEPT !.enabled = on] \in FusedModules
  BY DEF FusedModules
<1>2. Copies(f, p.attn, p.mlp) => Copies([f EXCEPT !.enabled = on], p.attn, p.mlp)
  BY DEF Copies, FusedModules
<1> QED BY <1>1, <1>2 DEF IsOf

LEMMA MixingInitial == MixingInit => MixingInvariant
<1> SUFFICES ASSUME MixingInit PROVE MixingInvariant
  OBVIOUS
<1>1. /\ attn \in Mixers /\ mlp \in Mixers
      /\ attn.iterations = mlp.iterations /\ attn.enabled = mlp.enabled
  BY DEF MixingInit, Pairs
<1>2. single = NoModule
  BY DEF MixingInit
<1>3. ASSUME kept # NoModule PROVE kept.module \in FusedModules /\ IsOf(kept.module, kept.of)
  <2>1. PICK p \in Pairs : kept = [module |-> FromSequential(p.attn, p.mlp), of |-> p]
    BY <1>3 DEF MixingInit
  <2>2. p = [attn |-> p.attn, mlp |-> p.mlp]
    BY DEF Pairs
  <2>3. kept.module \in FusedModules /\ IsOf(kept.module, p)
    BY <2>1, <2>2, FusedTyped DEF Pairs
  <2> QED BY <2>1, <2>3
<1> QED BY <1>1, <1>2, <1>3 DEF MixingInvariant

LEMMA MixingKept == ASSUME MixingInvariant, [MixingNext]_mixingVars PROVE MixingInvariant'
<1>1. CASE MoveAttn
  BY <1>1 DEF MoveAttn, MixingInvariant, Mixers
<1>2. CASE MoveMlp
  BY <1>2 DEF MoveMlp, MixingInvariant, Mixers
<1>3. CASE PromoteToSinglePass
  <2>1. single' \in FusedModules /\ IsOf(single', source')
    BY <1>3, FusedTyped DEF PromoteToSinglePass, MixingInvariant
  <2> QED BY <1>3, <2>1 DEF PromoteToSinglePass, MixingInvariant
<1>4. ASSUME NEW on \in BOOLEAN, SetEnabled(on) PROVE MixingInvariant'
  <2>1. single' \in FusedModules /\ IsOf(single', source')
    BY <1>4, FlagKept DEF SetEnabled, MixingInvariant
  <2> QED BY <1>4, <2>1 DEF SetEnabled, MixingInvariant
<1>5. CASE TakeMixing
  BY <1>5 DEF TakeMixing, MixingInvariant
<1>6. CASE LoadMixing
  <2>1. single.enabled \in BOOLEAN
    BY <1>6 DEF LoadMixing, MixingInvariant, FusedModules
  <2>2. single' \in FusedModules /\ IsOf(single', source')
    BY <1>6, <2>1, FlagKept DEF LoadMixing, MixingInvariant
  <2> QED BY <1>6, <2>2 DEF LoadMixing, MixingInvariant
<1>7. CASE UNCHANGED mixingVars
  BY <1>7 DEF mixingVars, MixingInvariant
<1> QED BY <1>1, <1>2, <1>3, <1>4, <1>5, <1>6, <1>7 DEF MixingNext

\* The fused backend of a layer reproduces the pair its parameters are of, for
\* every finite or infinite set of parameters, inputs and updates, and every
\* sequence of promotions, switches, snapshots and restores.
THEOREM FusedAlwaysReproduces == MixingSpec => []FusedReproduces
<1>1. MixingInvariant => FusedReproduces
  <2> SUFFICES ASSUME MixingInvariant, single # NoModule, single.enabled = source.attn.enabled,
                      NEW base \in Inputs, NEW attention \in Inputs, NEW update \in Inputs
               PROVE  FusedOut(single, base, attention, update)
                        = Sequential(source.attn, source.mlp, base, attention, update)
    BY DEF FusedReproduces
  <2>1. base \in Int /\ attention \in Int /\ update \in Int
    BY ValueAssumption
  <2>2. source \in Pairs /\ Copies(single, source.attn, source.mlp)
    BY DEF MixingInvariant, IsOf
  <2>3. /\ source.attn \in Mixers /\ source.mlp \in Mixers
        /\ source.attn.iterations = source.mlp.iterations
        /\ source.attn.enabled = source.mlp.enabled
    BY <2>2 DEF Pairs
  <2> QED BY <2>1, <2>2, <2>3, CopyExact
<1> QED BY <1>1, MixingInitial, MixingKept, PTL DEF MixingSpec

=============================================================================
