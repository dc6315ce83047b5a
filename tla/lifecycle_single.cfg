\* One process, killed at most once: the ladder, the receipts and the index.
SPECIFICATION Spec
CONSTANTS
    Procs = {p1}
    LADDER <- LINEAR_TRANSITIONS
    TERMINAL_STATES = {"abandoned"}
    Tiers = {"projection"}
    Statuses = {"single_run_evidence"}
    Requests <- MCRequests
    NoFile = NoFile
    Empty = Empty
    Corrupt = Corrupt
    MaxCommands = 9
    MaxClock = 1
    MaxCrashes = 1
INVARIANTS
    TypeOK
    ForwardInOrder
    ClaimableWasApproved
    IndexNotAhead
    ReceiptsChain
    ReceiptsInOrder
    IndexedWhenQuiet
PROPERTY
    ImplementsLadder
CHECK_DEADLOCK FALSE
