CONSTANTS
  br = br  vx = vx  eth = eth  nb = nb  nv = nv
  Link = {br, vx}
  Name = {nb, nv}
  Specs <- OptionalBridge
  None = None
  Resyncs = FALSE
  StaleReads = FALSE
  MaxEdits = 1
  MaxFaults = 1
SPECIFICATION FairSpec
PROPERTIES Converges DeletionCompletes
CHECK_DEADLOCK FALSE
