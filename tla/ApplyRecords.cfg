\* Two ships of one proposal, three attempts, one acquisition outliving its TTL.
SPECIFICATION Spec
CONSTANTS
  Procs = {w1, w2}
  Free = Free
  MaxExpiries = 1
  MaxAttempts = 3
  MaxSaves = 1
INVARIANTS
  RecordTypeOK
  OwnRecord
  ParentIsSealed
  OwnAttemptsChained
PROPERTY
  SealedIsFinal
CHECK_DEADLOCK FALSE
