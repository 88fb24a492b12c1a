SPECIFICATION Spec
CONSTANTS
  Layers = {l0, l1}
  NumVectors = 3
  RawSteps = 2
  MinSteps = 2
  InitNorm = 0
  MaxNorm = 1
  MiniBatches = 2
  SaveFreq = 3
  MaxSteps = 6
  MaxCrashes = 1
INVARIANTS
  TypeOK
  Synchronized
  TargetIsV0
  OneEvalPerVector
  RolloutsLagOneStep
PROPERTIES
  FinishedStay
  SwitchTogether
