\* An interrupted append resumes between the fresh listing and the delete.
SPECIFICATION GCSpec
CONSTANTS
  Procs = {w1}
  Free = Free
  MaxExpiries = 1
  Proposals = {p1}
  Genesis = Genesis
  None = None
  MaxCrashes = 1
PROPERTY
  NeverDeletesReferenced
