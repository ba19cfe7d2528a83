SPECIFICATION Spec
CONSTANTS
  c1 = c1
  c2 = c2
  Clients = {c1, c2}
  None = None
  Casts <- MCCasts
  Right = "right"
  MaxTries = 2
  MaxLost = 1
  MaxAged = 1
INVARIANTS
  DriveMadeOnce
  CommitTruth
  NothingLeftBehind
  RightPasswordEnough
CHECK_DEADLOCK FALSE
