CONSTANTS
  Layers = 2
  Images = {i1}
  StagesUsed = {"none", "last4"}
  MHCEnabled = TRUE
  StepBound = 2
  LaunchBound = 1
  Absent = Absent
  Logits <- MCLogits
  Row <- MCRow
  Iterations = {1, 3}
  Scales <- MCScales
  Inputs <- MCInputs
  NoModule = NoModule
SPECIFICATION TrainablePartsSpec
INVARIANTS
  AdapterInert
  GatesOpenByHand
  EncodedIsCurrent
  
  FusedReproduces
