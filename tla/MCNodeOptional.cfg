CONSTANTS
  eth = eth  br = br  vx = vx
  Link <- Names
  Name <- Names
  LinkName <- Names
  None = None
  NoRef = NoRef
  Nodes <- OptionalDevice
  Settings <- Some
  Foreign <- Elsewhere
  Capacity = 1
  MaxTrouble = 1
SPECIFICATION FairSpec
PROPERTY ConfiguredWithoutIt
CHECK_DEADLOCK FALSE
