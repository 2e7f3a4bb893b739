CONSTANTS
  Services = {a}
  Signals = {"trace", "log"}
  Silent = {"log"}
  Callers = {vu}
  MaxQueueSize = 2
  BatchSize = 2
  MaxRecords <- MCMaxRecords
  MaxPoints <- MCMaxPoints
SPECIFICATION Spec
INVARIANTS
  TypeOK
  ExportersClosedOnce
  StatsExact
  FlushServes
  ShutdownServes
PROPERTIES
  PipelineMoves
CHECK_DEADLOCK FALSE
