\* Two processes that rebuild the graph while the records are written.
SPECIFICATION Spec
CONSTANTS
    Procs = {p1, p2}
    History <- MCHistory
    ControlBlockers = {"control_leaky", "missing_controls"}
    Recorded = 4
    MaxRebuilds = 3
    MaxCrashes = 1
SYMMETRY Symmetric
INVARIANTS
    TypeOK
    CalmRebuildsAgree
    QueryIsClosure
    ClaimsTraced
    DebtFound
CHECK_DEADLOCK FALSE
