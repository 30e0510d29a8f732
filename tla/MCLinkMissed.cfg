CONSTANTS
  a = a  b = b
  Link = {l1, l2}
  Node = {n1}
  Label = {a, b}
  Selector = {{a}, {a, b}}
  None = None
  StaleReads = FALSE
  MaxEdits = 3
  MaxFaults = 0
SPECIFICATION Spec
INVARIANT SettledWithAllLinks
CHECK_DEADLOCK FALSE
