CONSTANTS
  r1 = r1
  r2 = r2
  w1 = w1
  w2 = w2
  Requests = {r1, r2}
  Workers = {w1, w2}
  WorkerOf <- TwoWorkers
  NumServers = 2
  CacheSize = 2
  EnginePauses = TRUE
  MaxVersion = 1
  PromptLength = 2
  ResponseLength = 3
  MaxModelLen = 6
  PromptLen = 1
  LimitGiven = {TRUE, FALSE}
  InitLimit = 2
  NoLimit = NoLimit
  Partial = TRUE
SPECIFICATION FairSpec
INVARIANTS NoneRunsWhileLoading ContinuesItself InflightAccounted
PROPERTIES ImplementsStream EveryRequestReturns
CHECK_DEADLOCK FALSE
