CONSTANTS
  a = a  b = b
  Link = {l1}
  Node = {n1}
  Label = {a, b}
  Selector = {{a}, {a, b}}
  None = None
  StaleReads = FALSE
  MaxEdits = 2
  MaxFaults = 0
SPECIFICATION Spec
INVARIANT SettledWithoutStuckNodeLinks
CHECK_DEADLOCK FALSE
