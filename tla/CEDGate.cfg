SPECIFICATION TrainingSpec
PROPERTIES
  TrainingOpensGate
