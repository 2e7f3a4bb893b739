SPECIFICATION Spec
CONSTANTS
  Op = {a, b, c}
  Edge = {e1, e2, e3, e4, e5}
INVARIANT Counted
INVARIANT VerdictJustified
PROPERTY TopologicalOrder
CHECK_DEADLOCK FALSE
