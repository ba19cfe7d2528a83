\* A working copy of a repository over whose node others have committed.
SPECIFICATION Spec
CONSTANTS
  None = None
  Refused = Refused
  Separator = 1
  Bytes <- MCBytes
  MergedBy <- MCMergedBy
  Paths <- MCTop
  FirstDrive <- MCFirstFile
  OthersDrive <- MCOthersEdit
  MaxLocal = 2
  MaxSync = 1
  MaxSteps = 3
PROPERTIES
  ReplaceChecked
CHECK_DEADLOCK FALSE
