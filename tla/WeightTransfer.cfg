CONSTANTS
  Receivers = {1, 2}
  Size <- Sizes5
  BucketSize = 2
  SlowJoin = TRUE
SPECIFICATION FairSpec
INVARIANTS LoadsInOrder AnnouncedIntact
PROPERTIES AllReceived
\* A transfer ends, and a receiver that has missed an announcement waits for ever.
CHECK_DEADLOCK FALSE
