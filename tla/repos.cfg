\* Commits of working copies at the youngest revision or one behind, and what
\* the repository and the in-memory session answer afterwards.
SPECIFICATION Spec
CONSTANTS
  None = None
  Refused = Refused
  Separator = 1
  Bytes <- MCBytes
  MergedBy <- MCMergedBy
  LocalChanges <- MCLocalChanges
  MaxRev = 4
INVARIANTS
  
  HistoryRight
  ReportLands
  DumpLoads
  BackendsAgree
CHECK_DEADLOCK FALSE
