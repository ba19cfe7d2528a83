SPECIFICATION Spec
CONSTANTS
  Kinds = {"command", "stream", "file", "many", "report", "commit"}
  MaxCalls = 2
  MaxItems = 1
  Cap = 1
INVARIANTS
  StaysInStep
  CommitTruth
CHECK_DEADLOCK FALSE
PROPERTIES
  CancelReturns
  CallsReturn
