CONSTANTS
  r0 = r0
  r1 = r1
  Ranks = {r0, r1}
  Rank0 = r0
  UseCritic = TRUE
  UseAlpha = TRUE
  TotalSteps = 3
  SaveFreq = 2
  MaxActorKeep = 2
  MaxCriticKeep = 3
  ResumeModes = {"auto"}
  MaxLaunches = 3
SPECIFICATION FairSpec
CHECK_DEADLOCK FALSE
INVARIANT TypeOK
INVARIANT TrackedIsWhole
INVARIANT BoundedLoss
INVARIANT KeepPerLaunch
PROPERTY CommitIsOwn
PROPERTY ActsAtomically
PROPERTY LaunchEnds
