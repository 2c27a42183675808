CONSTANTS
  f1 = f1
  f2 = f2
  f3 = f3
  f4 = f4
  f5 = f5
  Frames = {f1, f2, f3, f4, f5}
  Cancellable = {}
  LaneCapacity = 3
  CriticalWeight = 2
  InteractiveWeight = 1
  BulkWeight = 1
SPECIFICATION SteadySpec
SYMMETRY FrameSymmetry
INVARIANTS
  BypassBound
CHECK_DEADLOCK FALSE
