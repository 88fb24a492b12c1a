SPECIFICATION Spec
CONSTANTS
  BatchesPerEpoch = 4
  Epochs = 2
  TotalSteps = 5
  GenSize = 2
  PromptSize = 3
  MaxGenBatches = 3
  SaveFreq = 2
  MaxLaunches = 3
INVARIANTS
  TypeOK
  DrawnOnce
  EndIsSaved
PROPERTIES
  OnPolicy
  FullBatches
