CONSTANTS
  Consumers = {c1, c2}
  MaxQueueSize = 2
  MaxProduced = 5
  MaxValidate = 1
SPECIFICATION Spec
INVARIANTS NoLostWakeup
PROPERTIES OnlyClearUnaccounted ImplementsLog
