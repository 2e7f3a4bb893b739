SPECIFICATION FairSpec
CONSTANTS
  g1 = g1
  g2 = g2
  done = done
  depth = depth
  NoKey = NoKey
  Callers = {g1, g2}
  Keys = {done, depth}
  Amounts <- MCAmounts
  Bindings <- MCBindings
  MaxTotal = 2
PROPERTIES
  ReportsExplained
  AddsAreAtomic
  AddsMakeProgress
CHECK_DEADLOCK FALSE
