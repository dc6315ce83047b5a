\* Two processes in one run directory, every gate: what may earn and say more
\* than an association.
SPECIFICATION Spec
CONSTANTS
    Procs = {p1, p2}
    Payloads <- MCGatePayloads
    Sentences <- MCSentences
    Torn = Torn
    MaxCommands = 3
    MaxCrashes = 1
INVARIANTS
    TypeOK
    CausalNeedsGate
    ClaimBearingNeedsGate
    CausalNeedsControls
    AllowedDraftNeedsGate
SYMMETRY Symmetric
CHECK_DEADLOCK FALSE
