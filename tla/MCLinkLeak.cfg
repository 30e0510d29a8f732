CONSTANTS
  a = a  b = b
  Link = {l1}
  Node = {n1}
  Label = {a, b}
  Selector = {{a}, {a, b}}
  None = None
  StaleReads = TRUE
  MaxEdits = 3
  MaxFaults = 0
SPECIFICATION Spec
INVARIANT SettledWithoutLeftovers
CHECK_DEADLOCK FALSE
