\* Two shells on one project, cells inside cells, a failed write, a killed kernel.
SPECIFICATION Spec
CONSTANTS
    Shells = {p1, p2}
    SessionRefs = {1, 2}
    NameOrder <- MCOneName
    Objs <- MCOneObj
    WbRef <- MCOneRef
    Parents <- MCNoParents
    MaxContent = 1
    MaxCells = 2
    MaxDepth = 2
    MaxFailures = 1
    MaxCrashes = 1
INVARIANTS
    IndexNotAhead
    CommittedCellsComplete
    RebuildCoversIndex
SYMMETRY Symmetric
