CONSTANTS
  Parts <- MCParts
  Places <- MCPlaces
  Entries <- MCEntries
  Cascades <- MCCascades
  ServiceKind <- MCServiceKind
  Edges <- MCEdges
  NoEdge = "none"
  From <- MCFrom
  To <- MCTo
  Protocol <- MCProtocol
  Workers = {w}
  Faults <- MCFaults
  ErrorRate <- MCErrorRate
  Timed = {"http", "grpc"}
  Telemetry <- MCTelemetry
  Whole = 2
  MaxIntensity = 1
  MaxEvents = 2
SPECIFICATION Spec
INVARIANT GrpcSuccessUnset
CHECK_DEADLOCK FALSE
