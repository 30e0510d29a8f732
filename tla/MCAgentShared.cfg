CONSTANTS
  br = br  vx = vx  eth = eth  nb = nb  nv = nv
  Link = {br, vx, eth}
  Name = {nb, nv}
  Specs <- SharedNames
  None = None
  Resyncs = FALSE
  StaleReads = FALSE
  MaxEdits = 2
  MaxFaults = 0
SPECIFICATION Spec
INVARIANT MissingDependencyDown
PROPERTIES OnlyManagedTouched
CHECK_DEADLOCK FALSE
