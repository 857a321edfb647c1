CONSTANTS
  TotalRolloutSteps = 9
  RequiredSamples = 2
  TriggerParameterSyncStep = 2
  StalenessPct = 25
  ServerSlots = 1
  PendingCap = 2
  MayFail = {2}
  SaveFreq = 1
  TestFreq = 2
  EsiMayEnd = TRUE
SPECIFICATION FairSpec
PROPERTIES Termination PausedWakes ImplementsFlow
\* Both fit() calls return: the run stops.
CHECK_DEADLOCK FALSE
