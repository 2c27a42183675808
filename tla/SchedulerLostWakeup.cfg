CONSTANTS
  f1 = f1
  f2 = f2
  f3 = f3
  f4 = f4
  f5 = f5
  Frames = {f1, f2}
  Cancellable = {}
  LaneCapacity = 64
  CriticalWeight = 8
  InteractiveWeight = 4
  BulkWeight = 1
SPECIFICATION FairSteadySpec
PROPERTIES
  QueuedFramesServed
CHECK_DEADLOCK FALSE
