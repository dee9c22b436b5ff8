\* Three attempts against a budget of two: a modify and a create that needs it.
SPECIFICATION FairSpec
CONSTANTS
  c = c
  m = m
  d = d
  Ships = {s1}
  Nodes = {c, m}
  Kind <- ChainKind
  Deps <- MixedDeps
  MaxApplyAttempts = 2
  MaxParallel = 2
  MaxRetries = 1
  MaxAttempts = 3
  MaxDrifts = 1
  MaxLate = 1
INVARIANTS
  CreatesAreBudgeted
  LandsOnce
PROPERTY
  ShipReturns
CHECK_DEADLOCK FALSE
