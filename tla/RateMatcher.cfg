CONSTANTS
  Interval = 10
  MaxAdjustment = 1
  CheckInterval = 2
  RingCapacity = 16
  JitterCapacity = 16
SPECIFICATION Spec
INVARIANTS NearHalfFull
