SPECIFICATION EntrySpec
CONSTANTS
  NumSubscribers = 1
  Depth = 2
  Reliable = TRUE
  Values = {1, 2, 3}
  LowWords = {0}
  StoreBufferCap = 2
  MaxPublish = 3
  NumAps = 2
  PollLimit = 3
  Capacity = 2
  MaxSends = 4
  ArenaLength = 16
  FirstLength = 3
  Slack = 1
  MapSizes = {2, 3, 5, 6}
  MaxChanges = 3
  QueueDepth = 3
  IdSpace = 5
  MaxWaits = 2
  MaxWrites = 2
  Configs <- Images
  QueueCapacity = 2
  MaxEvents = 3
  MaxTicks = 2
  CountMax = 15
  MaxCommands = 7
INVARIANTS EntryOwned
CHECK_DEADLOCK FALSE
