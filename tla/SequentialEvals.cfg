SPECIFICATION Spec
CONSTANTS
  Layers = {l0, l1}
  NumVectors = 3
  RawSteps = 2
  MinSteps = 2
  InitNorm = 0
  MaxNorm = 1
  MiniBatches = 2
  SaveFreq = 3
  MaxSteps = 5
  MaxCrashes = 0
INVARIANTS
  FinishedAreJudged
