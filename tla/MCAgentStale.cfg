CONSTANTS
  br = br  vx = vx  eth = eth  nb = nb  nv = nv
  Link = {br, vx}
  Name = {nb, nv}
  Specs <- Fixed
  None = None
  Resyncs = FALSE
  StaleReads = TRUE
  MaxEdits = 1
  MaxFaults = 0
SPECIFICATION Spec
INVARIANT SettledWithoutOrphan
CHECK_DEADLOCK FALSE
