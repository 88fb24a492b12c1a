CONSTANTS
  r0 = r0
  r1 = r1
  Ranks = {r0, r1}
  Rank0 = r0
  UseCritic = TRUE
  UseAlpha = TRUE
  TotalSteps = 3
  SaveFreq = 2
  MaxActorKeep = 1
  MaxCriticKeep = 3
  ResumeModes = {"auto"}
  MaxLaunches = 3
SPECIFICATION Spec
CHECK_DEADLOCK FALSE
INVARIANT TrackedIsWhole
