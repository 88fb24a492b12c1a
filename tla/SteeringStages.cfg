CONSTANTS
  Curricula = {"none", "warmup_expand", "alpha_then_basis", "progressive_double", "raw_then_double"}
  AsyncModes = {FALSE}
  BypassModes = {FALSE, TRUE}
  AlphaModes = {FALSE, TRUE}
  NumVectors = 4
  WarmupSteps = 3
  Scale = 1
  AlphaInit = 2
  MaxNorm = 2
  MiniBatches = 2
  SaveFreq = 2
  TestFreq = 3
  TotalSteps = 9
  MaxCrashes = 2
SPECIFICATION Spec
INVARIANTS
  TypeOK
  SameVector
  SeedsTrain
  AllActive
  StraysOnce
PROPERTIES
  EntryKeepsDirections
  AlphaFixed
