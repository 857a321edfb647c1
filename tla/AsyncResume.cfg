CONSTANTS
  TotalRolloutSteps = 4
  RequiredSamples = 2
  TriggerParameterSyncStep = 1
  PendingCap = 1
  MaxRequiredSamples = 2
  MayFail = {3}
  DatasetSize = 5
  TotalEpochs = 1
  SaveFreq = 1
  EsiMayEnd = TRUE
  MaxCrashes = 2
SPECIFICATION FairSpec
INVARIANTS NoPromptTwice OnlyInFlightLost VersionCountsSamples
PROPERTIES TotalReached
\* Training ends.
CHECK_DEADLOCK FALSE
