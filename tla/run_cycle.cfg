\* Bundles of one slug, ingested and followed up by two processes.
SPECIFICATION Spec
CONSTANTS
    Procs = {p1, p2}
    Sources = {"leaky", "layered", "bad_debt", "invalid"}
    Bundle <- MCBundle
    Sweeps <- MCSweeps
    Torn = Torn
    MaxCommands = 3
    MaxCrashes = 1
SYMMETRY Symmetric
INVARIANTS
    TypeOK
    IngestIsWhole
    CardTellsSource
    ProbeFollowsSource
    SweepsEarnNothing
CHECK_DEADLOCK FALSE
