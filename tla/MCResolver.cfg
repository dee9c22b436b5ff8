SPECIFICATION Spec
CONSTANTS
  Resources = {a, b, c}
  DataSources = {d}
  NoProposal = noProposal
  MaxUses = 3
  a = a
  b = b
  c = c
  d = d
SYMMETRY AddressSymmetry
INVARIANTS
  ShipsInOrder
  RecordedAcyclic
CHECK_DEADLOCK FALSE
