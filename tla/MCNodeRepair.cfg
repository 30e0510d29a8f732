CONSTANTS
  eth = eth  br = br  vx = vx
  Link <- Names
  Name <- Names
  LinkName <- Names
  None = None
  NoRef = NoRef
  Nodes <- Two
  Settings <- Some
  Foreign <- Elsewhere
  Capacity = 1
  MaxTrouble = 2
SPECIFICATION FairSpec
INVARIANTS TypeOK Covered SearchIsBreadthFirst SetDownAsAsked
PROPERTIES WatcherSpec UpsertSuffices DependentsDown Repaired
CHECK_DEADLOCK FALSE
