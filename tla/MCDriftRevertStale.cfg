SPECIFICATION Spec
CONSTANTS
  Paths = {p}
  Values = {a, b}
  Absent = absent
  Operators = {o1}
  None = none
  MaxApplyAttempts = 1
  MaxChain = 3
  MaxShips = 1
  MaxDrifts = 2
CHECK_DEADLOCK FALSE
PROPERTIES NeverMasksStale
