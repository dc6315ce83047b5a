\* One bundle whose blocker report cannot be rewritten.
SPECIFICATION Spec
CONSTANTS
    Procs = {p1}
    Sources = {"stale"}
    Bundle <- MCBundle
    Sweeps = {}
    Torn = Torn
    MaxCommands = 2
    MaxCrashes = 0
INVARIANT NothingStronger
CHECK_DEADLOCK FALSE
