CONSTANTS
  TotalRolloutSteps = 3
  RequiredSamples = 1
  TriggerParameterSyncStep = 1
  StalenessPct = 100
  ServerSlots = 1
  PendingCap = 2
  MayFail = {}
  SaveFreq = 1
  TestFreq = 1
  EsiMayEnd = FALSE
SPECIFICATION Spec
INVARIANTS SavedWhenDue
\* Both fit() calls return: the run stops.
CHECK_DEADLOCK FALSE
