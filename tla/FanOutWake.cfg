CONSTANTS
  NumSubscribers = 2
  Depth = 2
  Reliable = FALSE
  Values = {1}
  LowWords <- MCLowWords
  StoreBufferCap = 0
  MaxPublish = 2
SPECIFICATION Spec
INVARIANTS NoLostWakeup
CHECK_DEADLOCK FALSE
