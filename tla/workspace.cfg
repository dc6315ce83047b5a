\* Two processes at once, ledgers edited meanwhile, one process killed.
SPECIFICATION Spec
CONSTANTS
    NoFile = NoFile
    Blank = Blank
    Procs = {p1, p2}
    Names = {"mwb-demo"}
    Initialised = {"mwb-demo"}
    Headings <- MCHeadings
    Runs <- MCRuns
    Manifest <- MCManifest
    Report <- MCReport
    Reviewed = {"r1"}
    Cards <- MCCards
    Texts <- MCTexts
    MaxCommands = 3
    MaxEdits = 1
    MaxCrashes = 1
    MaxMoves = 4
SYMMETRY Symmetric
INVARIANTS
    TypeOK
    OnlyValidIndexed
    LedgersRestored
    RebuildKeepsRecords
PROPERTIES
    LateCommandsKeep
    ProposalsValidate
CHECK_DEADLOCK FALSE
