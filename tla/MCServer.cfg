\* Two goroutines share the clone, on the platforms whose approvals name a commit.
SPECIFICATION Spec
SYMMETRY Symmetry
CONSTANTS
  a = a
  base = base
  h1 = h1
  h2 = h2
  none = none
  PRs = {a}
  Base = base
  Handlers = {h1, h2}
  None = none
  Platforms = {"github", "bitbucketserver"}
  MaxPushes = 2
  MaxEvents = 3
  MaxCrashes = 1
CHECK_DEADLOCK FALSE
INVARIANTS
  ServerTypeOK
  UndisturbedCheckout
  ApprovedIsReviewed
