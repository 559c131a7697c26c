CONSTANTS
  NumSubscribers = 1
  Depth = 2
  Reliable = TRUE
  Values = {1}
  LowWords = {0}
  StoreBufferCap = 1
  MaxPublish = 2
SPECIFICATION Spec
INVARIANTS NoLostWakeup
CHECK_DEADLOCK FALSE
