SPECIFICATION Spec
CONSTANTS
  Producers = {p1, p2}
  QueueSize = 2
  BatchMax = 2
  MaxCall = 2
  MaxSamples = 5
INVARIANTS
  TypeOK
  DropsAccounted
  SamplesInOrder
  LoneProducerNeverRejected
  StopServes
PROPERTIES
  FlusherServes
CHECK_DEADLOCK FALSE
