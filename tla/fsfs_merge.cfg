SPECIFICATION PromiseSpec
CONSTANTS
    t1 = t1
    t2 = t2
    Txns <- MCTxns
    Paths <- MCPaths
    Imported <- MCImported
    Original = Original
    None = None
    MaxRev = 3
    MaxOps = 3
SYMMETRY MCSymmetry
\* A run ends at youngest = MaxRev with no transaction open.
CHECK_DEADLOCK FALSE
INVARIANTS
    NoLostUpdate
    NothingElseChanges
    WorkLands
    DeletesLand
PROPERTY KeepsPromise
