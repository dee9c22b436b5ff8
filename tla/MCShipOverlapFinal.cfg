\* Two ships of one proposal: what the first applies while the second has read the history.
SPECIFICATION Spec
CONSTANTS
  c = c
  m = m
  d = d
  Ships = {s1, s2}
  Nodes = {c, m}
  Kind <- ChainKind
  Deps <- MixedDeps
  MaxApplyAttempts = 2
  MaxParallel = 2
  MaxRetries = 0
  MaxAttempts = 2
  MaxDrifts = 0
  MaxLate = 0
PROPERTY
  AppliedIsFinal
CHECK_DEADLOCK FALSE
