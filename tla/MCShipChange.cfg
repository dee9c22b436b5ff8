\* One ship at a time: a create, the modify that needs it, a destroy; two attempts.
SPECIFICATION Spec
CONSTANTS
  c = c
  m = m
  d = d
  Ships = {s1}
  Nodes = {c, m, d}
  Kind <- ChainKind
  Deps <- ChainDeps
  MaxApplyAttempts = 1
  MaxParallel = 2
  MaxRetries = 1
  MaxAttempts = 2
  MaxDrifts = 1
  MaxLate = 1
INVARIANTS
  ShipTypeOK
  InFlightIsDurable
  AppliedIsReal
  DependenciesFirst
PROPERTIES
  AppliedIsFinal
CHECK_DEADLOCK FALSE
