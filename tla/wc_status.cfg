SPECIFICATION Spec
CONSTANTS
    a = a
    b = b
    Lines <- TwoLines
    MaxRevision = 3
    MaxSaves = 2
    MaxInterrupts = 1
    None = None
SYMMETRY Symmetry
INVARIANTS
    StatusShowsEdits
