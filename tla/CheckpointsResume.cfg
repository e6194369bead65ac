SPECIFICATION FairSpec
CONSTANTS
  Ranks = {r0, r1}
  UseCritic = TRUE
  TotalSteps = 3
  StepsPerEpoch = 2
  Epochs = 2
  SaveFreq = 2
  Keep = 2
  Warmup = 2
  Esi = {TRUE, FALSE}
  Modes = {"auto"}
  MaxRuns = 3
INVARIANTS CheckpointsAreSound AsUninterrupted RotationBounds
PROPERTY GetsOn
CHECK_DEADLOCK FALSE
