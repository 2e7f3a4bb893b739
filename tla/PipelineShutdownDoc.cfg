CONSTANTS
  Services = {a}
  Signals = {"trace"}
  Silent = {}
  Callers = {vu}
  MaxQueueSize = 2
  BatchSize = 2
  MaxRecords <- MCMaxRecords
  MaxPoints <- MCMaxPoints
SPECIFICATION Spec
INVARIANT ShutdownDelivers
CHECK_DEADLOCK FALSE
