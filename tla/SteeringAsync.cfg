CONSTANTS
  Curricula = {"raw_then_double"}
  AsyncModes = {TRUE}
  BypassModes = {FALSE}
  AlphaModes = {TRUE}
  NumVectors = 4
  WarmupSteps = 2
  Scale = 1
  AlphaInit = 2
  MaxNorm = 2
  MiniBatches = 2
  SaveFreq = 2
  TestFreq = 3
  TotalSteps = 6
  MaxCrashes = 0
SPECIFICATION Spec
INVARIANTS
  SameVector
