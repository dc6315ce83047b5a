\* One shell, two sessions after one another at most, no failure.
SPECIFICATION Spec
CONSTANTS
    Shells = {p1}
    SessionRefs = {1, 2}
    NameOrder <- MCNames
    Objs <- MCObjs
    WbRef <- MCRefs
    Parents <- MCParents
    MaxContent = 1
    MaxCells = 2
    MaxDepth = 1
    MaxFailures = 0
    MaxCrashes = 0
INVARIANTS
    TypeOK
    LogReplaysNamespace
    RebuildRestores
