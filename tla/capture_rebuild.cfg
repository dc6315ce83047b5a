\* One shell, two cells: a binding and a mutation.
SPECIFICATION Spec
CONSTANTS
    Shells = {p1}
    SessionRefs = {1}
    NameOrder <- MCNames
    Objs <- MCObjs
    WbRef <- MCRefs
    Parents <- MCParents
    MaxContent = 1
    MaxCells = 2
    MaxDepth = 1
    MaxFailures = 0
    MaxCrashes = 0
INVARIANT
    RebuildIsComplete
