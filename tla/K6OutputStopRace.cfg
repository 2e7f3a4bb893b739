SPECIFICATION Spec
CONSTANTS
  Producers = {p1}
  QueueSize = 2
  BatchMax = 2
  MaxCall = 1
  MaxSamples = 3
INVARIANT StopAlwaysDrains
CHECK_DEADLOCK FALSE
