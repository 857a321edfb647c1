CONSTANTS
  Ranks = {1, 2}
  Managers <- ActorCritic
  TotalSteps = 7
  NumBatches = 8
  SaveFreq = 2
  MaxKeep = 2
  EsiMayEnd = TRUE
  MaxCrashes = 2
SPECIFICATION Spec
INVARIANTS TrackedComplete DataMatchesWeights KeptPerRun
CHECK_DEADLOCK FALSE
