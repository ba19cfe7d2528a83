\* Two goroutines of one process.
SPECIFICATION Spec
CONSTANTS
    t1 = t1
    t2 = t2
    p1 = p1
    p2 = p2
    Threads <- MCThreads
    Procs <- MCProcsShared
    ProcOf <- MCShared
    Paths <- MCOnePath
    Changes <- MCOnePath
    PathOf <- MCOnePathOf
    Conflict <- MCOneConflict
    Tokens = {}
    Vals = {}
    None = None
    DontCare = DontCare
    MaxRev = 2
    MaxTxn = 2
INVARIANT WriteSerialized
