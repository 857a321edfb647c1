SPECIFICATION ActorSpec
CONSTANTS
    Settings <- MCSettings
    NumMini = 2
    PpoEpochs = 2
    MaxUpdates = 3
    MaxRestarts = 1
INVARIANTS OneTeacherPerUpdate TeacherFollowsStudent
\* A training ends.
CHECK_DEADLOCK FALSE
