SPECIFICATION FairSpec
CONSTANTS
    t1 = t1
    t2 = t2
    p1 = p1
    p2 = p2
    Threads <- MCThreads
    Procs <- MCProcsApart
    ProcOf <- MCApart
    Paths <- MCOnePath
    Changes <- MCOnePath
    PathOf <- MCOnePathOf
    Conflict <- MCOneConflict
    Tokens = {k1}
    Vals = {v1}
    None = None
    DontCare = DontCare
    MaxRev = 1
    MaxTxn = 1
PROPERTIES
    LocksRespected
    RevpropSwap
    CallsReturn
