CONSTANTS
  PromptLength = 1
  ResponseLength = 7
  MaxAssistantTurns = 3
  MaxUserTurns = 0
  MaxParallelCalls = 2
  HasImageProcessor = TRUE
  MinImages = 1
  MaxImages = 2
  InteractionGiven = {TRUE, FALSE}
  MaxCalls = 3
  MaxUserTokens = 2
  MaxVersion = 2
SPECIFICATION Spec
INVARIANTS OutputAligned ImagesMatch InstancesReleased RequestFits
CHECK_DEADLOCK FALSE
