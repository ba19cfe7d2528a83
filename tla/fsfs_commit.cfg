SPECIFICATION Spec
CONSTANTS
    t1 = t1
    t2 = t2
    p1 = p1
    p2 = p2
    Threads <- MCThreads
    Procs <- MCProcsApart
    ProcOf <- MCApart
    Paths <- MCPaths
    Changes <- MCPaths
    PathOf <- MCPathOf
    Conflict <- MCConflict
    Tokens = {}
    Vals = {}
    None = None
    DontCare = DontCare
    MaxRev = 2
    MaxTxn = 2
SYMMETRY MCSymmetry
INVARIANTS
    TypeOK
    RevisionsComplete
    ReturnedDurable
PROPERTIES
    IsHistory
