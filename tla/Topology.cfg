SPECIFICATION Spec
CONSTANTS
  Nil = Nil
  NaN = NaN
  DefaultNamespace = "xk6-otel-gen"
  Rest <- MCRest
  Attributes <- MCAttributes
  Empty = "empty"
  Reread <- MCReread
  Docs <- MCDocs
INVARIANTS
  GraphsServed
  LintAgrees
  SchemaWhole
  RoundTrip
CHECK_DEADLOCK FALSE
