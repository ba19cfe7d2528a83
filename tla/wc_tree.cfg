\* A working copy of a repository in which others committed once.
SPECIFICATION Spec
CONSTANTS
  None = None
  Refused = Refused
  Separator = 1
  Bytes <- MCBytes
  MergedBy <- MCMergedBy
  Paths <- MCPaths
  FirstDrive <- MCFirstDrive
  OthersDrive <- MCOthersDrive
  MaxLocal = 2
  MaxSync = 2
  MaxSteps = 3
INVARIANTS
  BaseTrue
PROPERTIES
  Restores
  ChangesKept
  CommitLands
  CommitSettles
CHECK_DEADLOCK FALSE
