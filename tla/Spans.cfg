CONSTANTS
  Parts <- MCParts
  Places <- MCPlaces
  Entries <- MCEntries
  Cascades <- MCCascades
  ServiceKind <- MCServiceKind
  Edges <- MCEdges
  NoEdge = "none"
  From <- MCFrom
  To <- MCTo
  Protocol <- MCProtocol
  Workers = {v, w}
  Faults <- MCFaults
  ErrorRate <- MCErrorRate
  Timed = {"http", "grpc"}
  Telemetry <- MCTelemetry
  Whole = 2
  MaxIntensity = 1
  MaxEvents = 3
SPECIFICATION Spec
INVARIANTS
  TypeOK
  CacheSound
  ActiveExact
  VerdictsAgree
  IncidentsAgree
  SilencedStaysSilent
SYMMETRY Symmetry
CHECK_DEADLOCK FALSE
