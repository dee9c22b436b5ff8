SPECIFICATION Spec
SYMMETRY Symmetry
CONSTANTS
  Paths = {p, q}
  Values = {a}
  Absent = absent
  Operators = {o1, o2}
  None = none
  MaxApplyAttempts = 2
  MaxChain = 3
  MaxShips = 2
  MaxDrifts = 1
CHECK_DEADLOCK FALSE
INVARIANTS RevertTypeOK RestoredIsReal CleanAfterShip DraftedOnItsParent
