SPECIFICATION MCSpec
CONSTANTS
  NumSubscribers = 1
  Depth = 2
  Reliable = TRUE
  Values = {1, 2, 3}
  LowWords = {0}
  StoreBufferCap = 2
  MaxPublish = 3
  NumAps = 2
  PollLimit = 3
  Capacity = 2
  MaxSends = 4
  ArenaLength = 16
  FirstLength = 3
  Slack = 1
  MapSizes = {2, 3, 5, 6}
  MaxChanges = 3
  QueueDepth = 3
  IdSpace = 5
  MaxWaits = 2
  MaxWrites = 2
  Configs <- Images
  QueueCapacity = 2
  MaxEvents = 3
  MaxTicks = 2
  CountMax = 15
  MaxCommands = 7
INVARIANTS
  ReliableInv ReliableDelivery
  StartupInv HandoffOwned
  LinkInOrder OwnedWithFinalMap
  ReturnsCompleted QueueInStep
  RegistersPreserved EventsReachTheirReader
   ArenasSound
  ResultTellsOutcome
PROPERTIES ImplementsBroadcast BootEnds PromptWaitEnds EveryInterruptEnds RunEnds
\* A vCPU that trapped, a program that returned and a device without commands stop.
CHECK_DEADLOCK FALSE
