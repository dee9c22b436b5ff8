\* Two processes, two proposals, one crash, one torn head write.
SPECIFICATION Spec
CONSTANTS
  Procs = {w1, w2}
  Free = Free
  Proposals = {p1, p2}
  Genesis = Genesis
  Corrupt = Corrupt
  None = None
  Absent = Absent
  Empty = Empty
  MaxCrashes = 1
  MaxTorn = 1
CHECK_DEADLOCK FALSE
INVARIANTS
  GitTypeOK
  HolderOwnsLock
  ChainReadable
  ReadersNeverBroken
  AcknowledgedIsAccepted
  OneSalt
PROPERTIES
  ImplementsUntilTorn
SYMMETRY Symmetry
