\* Two processes transition one hypothesis at once.
SPECIFICATION Spec
CONSTANTS
    Procs = {p1, p2}
    LADDER <- LINEAR_TRANSITIONS
    TERMINAL_STATES = {"abandoned"}
    Tiers = {"projection"}
    Statuses = {"single_run_evidence"}
    Requests <- MCRequests
    NoFile = NoFile
    Empty = Empty
    Corrupt = Corrupt
    MaxCommands = 4
    MaxClock = 0
    MaxCrashes = 0
INVARIANT
    ForwardInOrder
CHECK_DEADLOCK FALSE
