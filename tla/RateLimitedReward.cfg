CONSTANTS
  Requests = {1, 2, 3, 4, 5}
  Workers = {"w1", "w2"}
  WorkerOf <- FourAndOne
  Limiters <- Both
  MaxConcurrent = 1
  Timeout = 2
  SyncScores = {TRUE, FALSE}
  PoolThreads = 3
  Hanging = {1, 3}
  LastArrival = 1
  MaxTime = 17
SPECIFICATION FairSpec
INVARIANTS WithinQuota
PROPERTIES EveryAnswered
CHECK_DEADLOCK FALSE
