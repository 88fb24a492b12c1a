CONSTANTS
  Curricula = {"raw_then_double"}
  AsyncModes = {FALSE}
  BypassModes = {FALSE}
  AlphaModes = {TRUE}
  NumVectors = 4
  WarmupSteps = 2
  Scale = 1
  AlphaInit = 2
  MaxNorm = 3
  MiniBatches = 2
  SaveFreq = 2
  TestFreq = 3
  TotalSteps = 6
  MaxCrashes = 1
SPECIFICATION Spec
PROPERTIES
  AlphaSurvives
