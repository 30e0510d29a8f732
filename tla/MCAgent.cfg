CONSTANTS
  br = br  vx = vx  eth = eth  nb = nb  nv = nv
  Link = {br, vx}
  Name = {nb, nv}
  Specs <- BridgeAndVXLAN
  None = None
  Resyncs = TRUE
  StaleReads = FALSE
  MaxEdits = 2
  MaxFaults = 1
SPECIFICATION Spec
INVARIANTS TypeOK NoOrphan WriteAhead MissingDependencyDown
PROPERTIES DownBeforeDelete ReadyWhenUp FollowsLifecycle
CHECK_DEADLOCK FALSE
