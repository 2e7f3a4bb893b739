SPECIFICATION Spec
CONSTANTS
  topo = topo
  bad = bad
  boot = boot
  v1 = v1
  v2 = v2
  VUs <- MCVUs
  Boot = boot
  Paths = {topo, bad}
  Valid = {topo}
  Scripts <- MCScripts
  NoPath = NoPath
INVARIANT EnginesHaveOverlay
CHECK_DEADLOCK FALSE
