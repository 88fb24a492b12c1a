CONSTANTS
  Curricula = {"none", "alpha_then_basis"}
  AsyncModes = {FALSE}
  BypassModes = {FALSE}
  AlphaModes = {TRUE}
  NumVectors = 2
  WarmupSteps = 2
  Scale = 1
  AlphaInit = 2
  MaxNorm = 2
  MiniBatches = 2
  SaveFreq = 2
  TestFreq = 3
  TotalSteps = 3
  MaxCrashes = 0
SPECIFICATION Spec
INVARIANTS
  ZeroHeals
