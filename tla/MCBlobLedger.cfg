\* Two processes append two proposals; one lock expires, one process dies.
SPECIFICATION Spec
CONSTANTS
  Procs = {w1, w2}
  Free = Free
  MaxExpiries = 1
  Proposals = {p1, p2}
  Genesis = Genesis
  None = None
  MaxCrashes = 1
SYMMETRY Symmetry
INVARIANTS
  TypeOK
  ExclusiveUntilExpiry
  ChainSound
  OneHead
  HintOnChain
  AcknowledgedOnChain
PROPERTY
  Refines
