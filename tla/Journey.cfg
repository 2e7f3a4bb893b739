SPECIFICATION Spec
CONSTANTS
  Node <- TripNode
  Depth <- TripDepth
  Root = "flow"
  Kind <- TripKind
  Kids <- TripKids
  Fallbacks <- TripFallbacks
  OnFailure <- TripOnFailure
  Retries <- TripRetries
  Backoff <- TripBackoff
  BaseDelay <- TripBaseDelay
  Timeout <- TripTimeout
  Messaging = {"leaf", "bank"}
  PublishLatency = 1
  Dice <- TripDice
INVARIANTS
  TypeOK
  CallDiscipline
  InterleavingInvisible
  SpansNest
  TimesAddUp
  FailuresExplained
PROPERTIES
  Termination
