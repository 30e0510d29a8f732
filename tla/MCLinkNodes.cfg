CONSTANTS
  a = a  b = b
  Link = {l1, l2}
  Node = {n1, n2}
  Label = {a, b}
  Selector = {{a}, {a, b}}
  None = None
  StaleReads = FALSE
  MaxEdits = 2
  MaxFaults = 2
SPECIFICATION Spec
SYMMETRY Symmetry
INVARIANTS Tracked SettledWithoutLeftovers
CHECK_DEADLOCK FALSE
