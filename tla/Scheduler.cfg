CONSTANTS
  f1 = f1
  f2 = f2
  f3 = f3
  f4 = f4
  f5 = f5
  Frames = {f1, f2}
  Cancellable = {f1}
  LaneCapacity = 1
  CriticalWeight = 1
  InteractiveWeight = 1
  BulkWeight = 1
SPECIFICATION FairSpec
INVARIANTS
  TypeOK
  ResultTruthful
  DoneSendNeverBlocks
  StatsBalance
PROPERTIES
  CallersReleased
  CloseEndsRun
  DeliveryContract
CHECK_DEADLOCK FALSE
