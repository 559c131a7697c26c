CONSTANTS
  NumSubscribers = 1
  Depth = 1
  Reliable = FALSE
  Values = {1, 2}
  LowWords = {0}
  StoreBufferCap = 0
  MaxPublish = 2
SPECIFICATION Spec
INVARIANTS DeliveredAsPublished
ACTION_CONSTRAINT DistinctPayloads
CHECK_DEADLOCK FALSE
