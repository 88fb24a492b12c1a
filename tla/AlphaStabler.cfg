SPECIFICATION FairSpec
CONSTANTS
  Ranks = {r0, r1}
  NumLayers = 2
  WarmupSteps = 3
  Interval = 2
  Persistence = 2
  Scale = 4
  Release = 1
  Warning = 2
  BetaNum = 1
  BetaDen = 4
  Control = TRUE
  MicroBatches = 2
  MaxUpdates = 8
  MaxCrashes = 1
INVARIANTS
  TypeOK
  Agreement
  Aligned
  FlagsFixed
  CalibratedOnWarmup
  ControlIsEarned
PROPERTIES
  ActsAsOne
  Ends
