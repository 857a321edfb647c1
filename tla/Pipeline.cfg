CONSTANTS
  TotalRolloutSteps = 5
  RequiredSamples = 1
  TriggerParameterSyncStep = 1
  StalenessPct = 100
  ServerSlots = 3
  PendingCap = 2
  MayFail = {2}
  SaveFreq = 2
  TestFreq = 2
  EsiMayEnd = FALSE
SPECIFICATION Spec
INVARIANTS NoSampleTwice OverrunByOne LossesCounted DrainedWhenPaused EndSignalLast EndSignalSurvives QueueWaitBounded
\* Both fit() calls return: the run stops.
CHECK_DEADLOCK FALSE
