\* A verify, a second one into the same directory, a card.
SPECIFICATION Spec
CONSTANTS
    Procs = {p1}
    Payloads <- MCPartialPayloads
    Sentences <- MCSentences
    Torn = Torn
    MaxCommands = 4
    MaxCrashes = 0
INVARIANTS
    CausalHasCleanControls
CHECK_DEADLOCK FALSE
