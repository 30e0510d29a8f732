CONSTANTS
  a = a  b = b
  Link = {l1, l2}
  Node = {n1}
  Label = {a, b}
  Selector = {{a}, {a, b}}
  None = None
  StaleReads = FALSE
  MaxEdits = 3
  MaxFaults = 1
SPECIFICATION Spec
SYMMETRY Symmetry
INVARIANTS TypeOK Tracked SettledWithoutLeftovers
PROPERTIES FollowsLifecycle
CHECK_DEADLOCK FALSE
