\* Two ships of one proposal at the same time: a modify and a create that needs it.
SPECIFICATION Spec
CONSTANTS
  c = c
  m = m
  d = d
  Ships = {s1, s2}
  Nodes = {c, m}
  Kind <- ChainKind
  Deps <- MixedDeps
  MaxApplyAttempts = 2
  MaxParallel = 2
  MaxRetries = 0
  MaxAttempts = 3
  MaxDrifts = 0
  MaxLate = 0
INVARIANTS
  DependenciesLanded
  LandingsAreRecorded
PROPERTIES
  AppliedIsKept
  SealsAreSound
SYMMETRY Alike
CHECK_DEADLOCK FALSE
