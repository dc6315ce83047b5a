# TLA+ models of the Mechanism Workbench (`mwb`)

TLA+ modules that model the parts of `mwb` whose correctness depends on the
order of events, TLC configurations that check them on small instances, and
TLAPS proofs of what matters most for instances of every size. Paths below are
relative to `src/mwb/` of the repository.

## The system

`mwb` is a local-first command line tool and IPython extension for
interpretability research. Its state is a tree of files under `.mechanism/`,
Git-visible ledgers under `research/`, and `workbench.sqlite`, an index of both.
There are no threads and there is no daemon. What makes it hard is that

- several commands and IPython kernels may work in one `.mechanism/` at once,
  and nothing locks a file: a command is a read followed by several writes;
- each file is rewritten in place (`write_text` truncates first) and each SQLite
  row is a transaction of its own, so a killed process leaves any prefix of its
  writes, perhaps with half a file at the end;
- names are derived from content: two commands may have one run directory, one
  receipt reference, one row; and the clock behind them (`time.py`) counts
  seconds.

| component | state | operations | what makes it correct |
|---|---|---|---|
| hypothesis lifecycle (`hypothesis_lifecycle.py`) | state file, receipt log, two tables | `transition`, alternatives | forward in order; claimable only if approved; log and index tell the file's path |
| claim grammar (`claim_grammar.py`) | tables of requirements, blocks, caveats | `check_claim`, `write_report` | verdicts monotone in evidence and doubt; the recommended type is tenable |
| policy profiles (`policy_profiles.py`) | two built-in profiles | `evaluate_verification` | a strict claim has its operations |
| causal verification (`workflows/verify.py`, `causal_verification.py`) | run directories | `verify` | no evidence past a failed gate |
| blockers, cards (`workflows/blockers.py`, `workflows/cards.py`) | cards in runs, `cards/`, `claims/` | `card` | a card's tier is earned by the run it names |
| draft guard (`workflows/draft_guard.py`) | reads `claims/` | `draft-check` | no sentence stronger than its evidence |
| session capture (`session.py`, `ipython/`) | session directories, events, rows | cell hooks, start, close | the log replays to the namespace; index never ahead of files |
| SQLite index (`sqlite_index.py`) | `workbench.sqlite` | inserts, rebuild, repair | a rebuild finds what was indexed |
| evidence graph (`evidence_graph.py`) | edge file, summary, table | `graph rebuild`, queries | file, summary and table agree and follow from the records; a query finds all it should |
| ledgers (`ledgers.py`) | four ledgers, proposals | scaffold, validate, propose | only ledgers without errors are indexed; a proposal fits the ledger it is for |
| diagnosis and probes (`workflows/diagnosis.py`, `next_probe.py`, `sweep.py`) | files of a run | diagnose, next-probe, materialize, run-probe, sweep | plan, diagnosis and probe follow from the run's files; a planned sweep is no evidence |
| ingest (`adapters/generic_bundle.py`, `workflows/ingest.py`) | an external run's directory | `ingest` | what is derived tells one bundle, not a mixture; never stronger than it |
| static compiler, spaces, preflight | reports | `static-check`, `preflight` | a verdict that follows from the checks |
| project (`project.py`, `events.py`) | `project.toml`, events | `init`, discovery | initialised once, never again over the user's files |
| artifacts, bundle audit, benchmarks, adapters of third-party libraries, context facade, CLI | rows, reports | | no state shared with the above beyond rows of their own |

They interact through files only. `verify` writes a run directory; `card` reads
it and writes a claim; `claim check` reads the claim and writes a report beside
it; `draft-check` reads both. The grammar judges for `claim check` and for the
guard. `ingest` fills a run directory from outside and derives its card and its
next-probe plan; `diagnose`, `next-probe` and `run-probe` follow a run up from its
files and lead to a new run directory. The graph is collected from the files of
hypotheses, sessions, runs and claims. The ledgers are the user's: commands read
them into rows and write proposals, which the user copies. Session capture, the
lifecycle, the ledgers and every workflow insert into SQLite; the rebuild reads
their files.

## Modules

| module | models | checked or proved by |
|---|---|---|
| `HypothesisLadder` | what the lifecycle promises: one atomic step per transition | refined by the next |
| `HypothesisLifecycle` | `transition` as the code makes it, write by write | `lifecycle_*` |
| `ClaimGrammar` | `check_claim` with its tables, as operators | |
| `ClaimReview` | a card edited between two checks | `claim_review` |
| `PolicyProfiles`, `MechanismCards`, `DraftGuard` | the pure parts of the evidence path | |
| `EvidencePipeline` | `verify`, `card`, `claim check`, `draft-check` over shared run directories; composes the five modules above | `pipeline_*` |
| `EvidenceGraph` | `graph rebuild` over records that change, and the queries | `evidence_graph` |
| `NextProbe` | next-probe plan, diagnosis tree, materialized probe, as operators on a run's files | |
| `RunCycle` | `ingest`, `card`, `diagnose`, `next-probe`, `run-probe`, `sweep` over shared run directories; composes `NextProbe` and `MechanismCards` | `run_cycle`, `ingest_stronger` |
| `Ledgers` | the ledger parsers and the proposals, as operators | |
| `Workspace` | `init`, `ledger`, `hypothesis explain`, `rebuild-index`, and the user's edits; composes `Ledgers` and `SqliteIndex` | `workspace` |
| `SqliteIndex` | tables, inserts, the rebuild of the capture tables (what the last of its inserts leaves of each ref), as operators | |
| `SessionCapture` | the hooks of IPython shells, their files and rows; composes `SqliteIndex` | `capture_*` |
| `MC*` | values of the constants | |
| `Claims_proofs` | theorems about `ClaimReview` and `EvidencePipeline`, which both rest on `ClaimGrammar` | TLAPS |
| `WorkspaceRecords_proofs` | what a rebuild of a `Workspace` keeps, on top of `Workspace_proofs` | TLAPS |
| the other `*_proofs` | theorems about the module they are named after | TLAPS |
| `SequenceFacts` | lemmas on sequences and finite sets that several of them cite | TLAPS |

How the state corresponds to the code:

- **HypothesisLifecycle.** `stateFile` is `hypotheses/<ref>_lifecycle.json`
  (`NoFile`, `Empty` after the truncation, `Corrupt` when two writers overlap),
  `receipts` the lines of `<ref>_transitions.jsonl`, `stateRow` and
  `receiptRows` the two tables. A process runs `Load` (read, validate, build
  state and receipt), `OpenState`, `WriteState`, `AppendReceipt`, `IndexState`,
  `IndexReceipt`: `transition()` from top to bottom, one action per effect other
  processes can see. A refused request and a file that does not parse end the
  command without effect, so they are no action. `written` is a history
  variable.
- **ClaimReview.** Its only variable is the card. Lists are sets, because no
  verdict depends on their order; which blockers a report prints first is left out.
  A card has blockers and debt of its own and in its `metadata`; the code reads the
  first list that is not empty (`OwnOrMetadata`), and edits go to either.
- **EvidencePipeline.** `files[ref]` holds, for each run reference, the four
  files of its directory that are read back, its card in the directory and under
  `claims/`, and the grammar report of its claim. Each content has a history
  field `by`, the command (or commands) it was made by. `run_ref` is the tuple
  the code hashes. `jobs` is what each process does next. Everything `verify`
  computes it computes before its first write, so the computation is part of the
  step `Verify`. The outcome of the numeric work (deltas, whether telemetry is
  over a threshold) is part of the payload.
- **SessionCapture.** A hook is a list `todo` of writes, each an action; the list
  is computed when the hook starts, as in the code, where both snapshots of the
  namespace are taken before the first write: a line for each name the cell bound
  (`BoundLines`) and for each it deleted (`DeletedLines`), with its rows, then the
  record of the cell. `Fail` drops the rest of the list (the exception that
  IPython reports), `Crash` also the process. A cell may run inside a cell.
  `MaxCells` bounds the cells of all sessions (`CellsRun`). `files` is what has been
  written whole, `torn` the files that hold half a record: `session.json` from its
  truncation (`OpenSessionJson`) to its content (`WriteSessionJson`), a log whose
  last line a failure or a kill has cut short (`CutShort`).
- **EvidenceGraph.** `History` is what other commands write, in order, and
  `written` how far they have got: a record file is the latest entry of its path.
  A rebuild is `Begin`, four `Collect` steps (one per directory, so the records
  may change in between), `Open` and `Close` of the edge file, `WriteSummary`,
  `Delete` and one `Insert` per edge, each a transaction in the code. Two writers
  of the edge file may overlap, which leaves the tail of the longer content
  (`Covers`, `Overwritten`). The queries are operators on the edge file. An edge is a
  record of everything its hash covers, so deduplication is that of a set. Which
  blockers are about controls, the code tells from their names (`evidence_graph.py:407`):
  a constant, `ControlBlockers`.
  `RunsAssumption` says how the commands name what a run's directory holds: the
  manifest as the directory, one card of one claim, debts as debts (`cards.py:30`,
  `cards.py:211`).
- **RunCycle.** `files[run]` holds the eight files of a run directory that some
  command reads back. A command is a list `todo` of reads and writes, which
  interleave with those of other processes; what it has read since its last write
  is what the next one is computed from, as each helper in the code loads the
  directory again. `ReadFile` ends a command on a torn file, `WriteFile` on a
  report or a debt that cannot be rewritten. `mixed` and `origin` are history:
  which bundles went into a directory, and which one a file tells of. A command
  forgets its source as soon as an ingest of another one into its directory starts.
  The source's manifest is kept but for provenance and claim, its policy report
  included, which the card reads (`generic_bundle.py:96`, `cards.py:23`).
- **Workspace.** A command is a list `todo` of steps; `files` are `project.toml`,
  the ledgers, the explanations and the proposals, `events` the lines of
  `events.jsonl`, `index` and `rebuilt` the two databases. A check that a file is
  missing and its creation are different steps (`IfMissing`, `Open`, `Write`), and
  so are truncation and content. A database that has been removed is `NoTables`.
  `Edit` and `Approve` are the user's. `valid`, `finished`, `alone` and `fresh`
  are history variables. `WorkspaceNames` and `WorkspaceTexts` assume that a
  missing or empty file is told apart from a project's name and a ledger's text,
  `WorkspaceRuns` that a run's directory is none of a hypothesis.

## Runs

| run | instance | shows |
|---|---|---|
| `lifecycle_single` | 1 process, the full ladder, 1 terminal state, 9 commands in one second or two, 1 crash | `ForwardInOrder`, `ReceiptsChain`, `ReceiptsInOrder`, `IndexedWhenQuiet`, `ClaimableWasApproved`, `IndexNotAhead`, `ImplementsLadder` |
| `claim_review` | cards of every tier and profile, 2 blockers of 5 and 1 item of debt of 3 kinds, each on the card or in its metadata | `DoubtNeverHelps`, `EvidenceNeverHurts`, `SupportedIsUnblocked`, `NothingAboveTier` |
| `pipeline_gates` | 2 processes, 14 payloads, 3 commands, 1 crash | `CausalNeedsGate`, `ClaimBearingNeedsGate`, `CausalNeedsControls`, `AllowedDraftNeedsGate` |
| `capture_single` | 1 shell, 2 sessions, 2 names, 2 objects (one the other's child), 2 cells | `LogReplaysNamespace`, `RebuildRestores` |
| `capture_faults` | 2 shells, 2 sessions, cells nested twice, 1 failure, 1 crash, either also half-way through a write | `IndexNotAhead`, `CommittedCellsComplete`, `RebuildCoversIndex` |
| `evidence_graph` | 2 processes, 5 records of which 4 are there at the start, 3 rebuilds, 1 crash | `CalmRebuildsAgree`, `QueryIsClosure`, `ClaimsTraced`, `DebtFound` |
| `run_cycle` | 2 processes, 4 bundles of one slug (one with a policy report) and a sweep, 3 commands, 1 crash | `IngestIsWhole`, `CardTellsSource`, `ProbeFollowsSource`, `SweepsEarnNothing` |
| `workspace` | 2 processes, 3 commands, 1 edit, 1 crash, 4 of these in all | `OnlyValidIndexed`, `LedgersRestored`, `RebuildKeepsRecords`, `LateCommandsKeep`, `ProposalsValidate` |

The type invariant of each module with one is checked as well. What the less obvious
ones say:

- `CalmRebuildsAgree`: however rebuilds overlap, and whatever a killed one left
  behind, when the last has ended the edge file, the summary and the table are
  those of the records, unless a record was written or a rebuild killed meanwhile.
  `calm` in the model remembers whether that is so.
- `IngestIsWhole`: after an ingest that none overlapped, nothing of an earlier
  bundle of the same slug, or of a broken-off ingest, is left in the manifest, the
  metrics or the blocker report. `CardTellsSource` and `ProbeFollowsSource` say
  what then follows for the files derived from these.
- `OnlyValidIndexed`: although each ledger is read at a moment of its own, and may
  be edited or cut short meanwhile, a row of the live index was an entry of a
  ledger without errors.
  Each ledger is judged by its own text: the property would not see valid ledgers
  indexed beside a faulty one.
- `LateCommandsKeep`: a command that begins after some `init` returned never
  creates a ledger, `project.toml` or the creation event again, so it leaves what the
  user put there. It says nothing of an `init` that found a ledger missing before
  that and has still to write it: this one overwrites the user's edit.
- `DoubtNeverHelps` compares what the grammar reads: the card's own list, or else
  that of its metadata. `EvidenceNeverHurts` likewise.
- `AllowedDraftNeedsGate`: of a sentence whose marker is one of a claim type above
  an association, through a card or a grammar report; of "causes", which has no
  marker, only through a card.
- `IndexNotAhead` of the capture: a row has the file's record it repeats. A session
  that has not ended may have lost its document to a `close` that was cut short; a
  row that another session's has replaced is not missed.
- `RebuildCoversIndex`: if no file ends in half a record (`Readable`), a rebuild has
  what the live index has. If one does, the rebuild raises, and its output is gone.
- `ProbeFollowsSource`: of commands whose directory kept one bundle; where an ingest
  of another falls between the three loads it is silent.
- `QueryIsClosure`: after one iteration for each node and one more the queue is empty,
  so the search ends however the edges form cycles, and has found the closure.
- `ProposalsValidate`: a proposal adds no error; it is an entry more if its heading is
  one, and else leaves the entries as they are.

Why the bounds are enough. The ladder has eight states and nine commands walk it
to the end with one more to spare; the guards tell apart only its first state,
its last, `claimable`, and the rest. That `ClaimableWasApproved` and
`IndexNotAhead` hold for any number of processes is proved below; `lifecycle_race`
is the instance with two. A race needs two processes and a crash needs to happen
once: no step depends on how many happened before. A run directory is shared by at
most what two commands wrote, and the payloads fail each gate alone and pass each
other way round it. A verdict of the grammar depends on blockers and debt one by
one (a disjunction over each), so two blockers and a debt at once cover their
interplay, and one in each list what hides what. The capture bounds give a name every history a diff can see: bound,
rebound, aliased, mutated, deleted, in one cell or over two. The records of the
graph have a cycle, every directory and a run that changes its blockers, and
three rebuilds let two overlap after one that was killed. The bundles of `run_cycle`
cover each branch of `_recommend` and each way an ingest ends early; ingest,
follow-up and another ingest into the same directory are three commands. In
`workspace` a command that works alone, one beside it, an edit and a crash are
the four moves that its properties relate. Processes are interchangeable, so the
runs with two declare them symmetric.

The four remaining runs expect a violation. They state a sentence of the
documentation and show the code not keeping it:

| run | sentence | what happens |
|---|---|---|
| `lifecycle_race` (`ForwardInOrder`) | `docs/HYPOTHESIS_LIFECYCLE.md:63`, "Forward transitions must happen in order." | read at `hypothesis_lifecycle.py:57`, write at `:99`, no lock: of two commands the later write wins whatever it validated against |
| `pipeline_stale_report` (`CausalHasCleanControls`) | `docs/CAUSAL_VERIFICATION.md:95`, causal necessity only with "clean controls" | a strict run's `blocker_report.json` survives in the shared directory (`causal_verification.py:398`) and `card_from_run` does not diagnose metrics when a report has blockers (`cards.py:17-19`) |
| `capture_rebuild` (`RebuildIsComplete`) | `README.md:287`, the index "can be rebuilt or repaired" | `sqlite_index.py:206` skips mutations: versions and edges are lost |
| `ingest_stronger` (`NothingStronger`) | `docs/ADAPTERS.md:113`, ingest "must not convert imported artifacts into stronger evidence than their validated content supports" | the manifest and metrics of a bundle are written (`generic_bundle.py:121`) before its blocker report is rewritten, which may raise (`:127`, `:262-265`); the directory stays without blockers, and `mwb card` of it makes a card the bundle does not support |

`CHECK_DEADLOCK FALSE` stands in the configurations whose system really stops:
with its commands used up, or over a file that no longer parses, nobody has
anything left to do. It does not stand in those of session capture, where nobody
may get stuck: a hook has its next write, and a shell outside of one may exit.

**Fairness.** None is assumed. There is no daemon, no retry and no lock to wait for:
nobody has to run a command, and a command is a straight line of steps over a list
it has computed, which ends by its shape if its process goes on. A liveness property
of one would say no more than that. The one loop whose end depends on data, the
search of a graph with cycles, is bounded in `QueryIsClosure`; what is left of
"eventually" is stated as invariants of quiet states (`IndexedWhenQuiet`,
`RebuildRestores`, `LogReplaysNamespace`, `LedgersRestored`, `CalmRebuildsAgree`).

## Proofs

TLAPS checks the theorems below for every value of the constants that satisfies
the modules' assumptions (well-formed ladder and requests, payloads and
sentences of their types, numeric bounds that are naturals, a reviewed run with a
name: without a run ref it is proposed under that of its directory).

| theorem | states | argument |
|---|---|---|
| `HypothesisLifecycle_proofs`: `TypeCorrect` | `TypeOK` | inductive as it stands |
| `ClaimableApproved` | `ClaimableWasApproved`, any number of processes | the file, the history and every state a process is about to write are backed by an approved write, or are one (`ClaimInv`): a claimable state may be in a process's hands before it is in the file |
| `IndexBehind` | `IndexNotAhead`, any number of processes | a process past the append has its receipt in the log (`IndexInv`) |
| `ForwardOrder` | `ForwardInOrder`, one process | `SingleInv`: while a command is in flight, the file is still what it validated against, or is what it writes |
| `Refinement` | `ImplementsLadder`, one process | under `SingleInv`, the complete write is a step of the ladder and every other step a stutter |
| `Claims_proofs`: `DoubtMonotone`, `EvidenceMonotone` | `DoubtNeverHelps`, `EvidenceNeverHurts`, of what the grammar reads | the sets of met and of reachable types shrink and grow with what they are computed from; the highest of a larger set is no lower |
| `Recommended`, `TierIsCeiling` | `SupportedIsUnblocked`, `NothingAboveTier` | from the definitions, by the same lemmas |
| `TypeCorrect` of the pipeline | `TypeOK` | inductive as it stands |
| `CausalGated`, `CausalControlled`, `ClaimBearingGated`, `DraftGated` | the four safety invariants of `pipeline_gates` | `PipelineInv`: every card is one `card_from_run` computes from contents that commands of that directory wrote (`CardsEarned`), every grammar report, written or in hand, is one of such a card (`ReportsBacked`, `ChecksBacked`) |
| `HypothesisLifecycle_proofs`: `ReceiptPath`, `ReceiptOrder` | `ReceiptsChain`, `ReceiptsInOrder`, one process | `HeldInv`: what a process is about to write goes on from where the file stands; without a crash the log is one line short exactly between the complete write and the append (`ChainInv`); with crashes no line of it is above the file's state (`OrderInv`) |
| `QuietIndexed` | `IndexedWhenQuiet`, one process | `QuietInv`: from its complete write on a process holds what is in the file |
| `EvidenceGraph_proofs`: `TypeCorrect` | `TypeOK` | inductive as it stands |
| `CalmAgree` | `CalmRebuildsAgree`, any number of rebuilds and processes, any records | `CalmInv`: how much each rebuild has collected, and that each of file, summary and table is right as soon as no rebuild has it ahead; of the table, that one of the rebuilds that insert still holds all that is missing |
| `DebtTraced` | `DebtFound`, any records named as `RunsAssumption` says | by `CalmAgree` the edge file has the edges of the records; of these only a blocker report and an item of debt give the three relations that the queries ask for (`DoubtsOfRuns`), and their ends name the run or claim they are of (`RunsNamed`) |
| `SessionCapture_proofs`: `Types` | `TypeOK`, any shells, sessions, names and objects | `TypeInv`: the types, and that a hook which still has a line or a cell to write has the session and the cell they are for |
| `NotAhead` | `IndexNotAhead`, wherever a write is cut short | `IndexInv`: a hook has the file's line before the row's (`ArrangedInv`, `RowInv`), a session is one shell's (`Disjoint`), so nobody else inserts the row of an event first (`EventInv`, which counts copies) or changes a cell between its line and its row (`CellInv`) |
| `CommitsComplete` | `CommittedCellsComplete` | `CountInv`: a session's log has lines of the cells its capture has counted only; `CommitInv`: what a cell lists is what the log has for it, and a committed cell has no line to come |
| `RebuildCovers` | `RebuildCoversIndex`, any failures, crashes and nesting | only of files that can be read whole; `CoverInv`: `IndexInv`; a session whose log has a line has a document (`CountInv`), so the rebuild reads the log; a row of a cell bears its ref (`CellsKeyed`). Of the rows that finitely many logs give a ref, the last stays (`InsertedCovers`, `LastPair`) |
| `LogReplays` | `LogReplaysNamespace`, no cell inside a cell | `ReplayInv`: while a cell's hook runs, the log tells of each name what the cell was opened on, and with the lines still due what the cell left (`Settles`); outside of one it tells the namespace |
| `RebuildFinds` | `RebuildRestores` | `RestoreInv`: a document, event, cell or registering line is followed by its rows (`LinkedInv`), one shell writes a session (`SoleInv`), a ref has one row (`KeyedInv`); so unless something was cut short, what is in a file is indexed or its row is due (`DocsInv`, `EventsEven`, `CellsRestored`, `ObjectsRestored`, `EdgesRestored`) |
| `RunCycle_proofs`: `Types` | `TypeOK` | `IInv`, below |
| `OneIngest` | `IngestIsWhole` | `WholeInv`: a directory that one source went into holds each of its files, or a process that ingests it has still to write it |
| `CardsTell`, `ProbesFollow` | `CardTellsSource` (policy report and ceiling included: `CeilingFacts`), `ProbeFollowsSource` | `DirsInv`, `JobsInv`, `OneInv`: a command of one source finds that source's files in its directory, or has yet to write them, and what it has read and computed since is theirs |
| `SweepsLeadNowhere` | `SweepsEarnNothing` | `DirsInv` and `JobsInv` for the directories of sweeps: each file, read, held or written, is one of a sweep |
| `Workspace_proofs`: `Types` | `TypeOK` | `IInv`, below |
| `ValidIndexed` | `OnlyValidIndexed` | `JobGood`: unless it has seen an error, what a command has parsed, and what it has still to insert, was valid when it was read; `RecordsInv`: so is every ledger without errors |
| `LateKeep` | `LateCommandsKeep` | an `init` that has read the events has every owned file there, or among its own steps to come (`Creates`), so that when it returns all of them are there, and nothing removes a file; a command that begins then finds them, and has no step that writes one (`JobGood`) |
| `Proposing` | `ProposalsValidate` | what is in a proposal file is what a card or a reviewed run gives (`FilesInv`), formed as the parser wants it; the entries of a longer ledger are those it had, and the new one if its heading is one (`ClaimApproved`, `RunCounted`) |
| `Restored` | `LedgersRestored` | `LInv`, below |
| `WorkspaceRecords_proofs`: `KeepsRecords` | `RebuildKeepsRecords`, any number of processes, crashes and rebuilds | `FitsInv`, `ExplainedInv`, `CountInv` and `RebuildInv`, below |

`IInv` of `RunCycle_proofs` and of `Workspace_proofs` were invariants of the runs
`run_cycle` and `workspace` before they were
proved. In both, a command is a list of steps, so half of the invariant says what
lists there are. For the run cycle these are the tails of its seven commands, with
what has been read by then (`Remains`, `Reading`). For the workspace, where a
check may put steps in front of the others, it is an order among the steps: a
project is read before it is named, `project.toml` is looked for before it is
read, the ledgers come after the events (`Ordered`), the return comes last; with
facts on what a list keeps when its front is replaced (`GoesGood`).

`LInv` says of the process that works alone how far it is: of a validation, that
each ledger is either still to be read or without errors, and its rows in the live
index or still to be inserted (`SoloV`); of a rebuild, the same of its own tables,
until it has restored the rows (`SoloR`). That needs the order of the steps
(`Shape`): a validation reads no ledger before it made it and indexes none before
it read all, a rebuild makes none, and no other command does any of it. What has
returned, and still stands, is in the index for good (`Freshes`): only a validation
inserts rows of ledgers and only a rebuild makes tables, none is under way, and one
that begins takes the standing away. The invariant was
checked on `workspace`, and for one process with six moves (570 828 states).

`KeepsRecords` rests on what commands do beside a rebuild. An explanation in the
directory of a hypothesis is of one of its runs (`FitsInv`); it is indexed only after
its file is there, and no file goes away (`ExplainedInv`); an event is inserted by
a process that has appended a line for it, so of each project the lines are never
fewer than the rows and the processes about to insert one, which needs the number
of elements of a set and of equal elements in a list, bag or sequence
(`CountInv`; a torn line ends the count, and every rebuild). `RebuildInv` follows
the rebuild that no other one overlaps: it removes and makes its tables before it
restores rows (`RebuildOrder`), and whatever it noted of the live index when it
began it has restored, or has the step still to come that will find it in the files
(`Keeps`). The four were checked for one process with six moves (214 345 states)
and two processes with four (1 554 091 states).

The rebuild of the capture tables was modelled as a loop of inserts, and could not
be reasoned about. It is a set now: the rows that the lines of the logs give, each
at its place (session, line), and of the rows of one ref the one at the last place,
which is what `INSERT OR REPLACE` in that order leaves. `Told` says in the same way
what a log tells of a name: what its last line for the name does. `RestoreInv` was an
invariant of `capture_single` and of an instance with two shells before it was
proved.

`SingleProcess` is an assumption of five theorems, not of the module: the run
`lifecycle_race` shows that they need it. `cap_mechanism_without_generalization`
is proved on the way to change nothing: whatever the search calls a mechanism
generalizes.

What the proofs taught about the models: `CardTellsSource` and
`ProbeFollowsSource` were not inductive as the history of `RunCycle` stood, and
false for four commands: a bundle ingested twice, around another, while a command
was under way made the command's files look like one bundle's. Three commands
could not show it. `StartIngest` now clears the history of every command that
works there. `LedgersRestored` was false for five moves of one process: an `init`
killed between two ledgers, an edit, a rebuild that restores nothing because a
ledger is missing, and a validation that makes it. The code does what it should (a
rebuild after that restores all); the history had forgotten that to make a ledger
is to change one. `Puts` says so now.

Only model-checked:

- `LogReplaysNamespace` is proved, and checked, where no cell runs inside another:
  it is false where one does (see below), for the outer cell loses its place.
- `QueryIsClosure` and `ClaimsTraced` of the graph: a breadth-first search that folds
  over a queue, against a closure. A fold takes an operator, and the provers cannot
  instantiate a theorem about one.
- Anything about `ENABLED`.

Induction itself is no obstacle where it is about a set of numbers:
`SequenceFacts` shows so that a sequence made of pieces (`FlattenSeq`, an
operator of the community modules that the parsers of `Ledgers` use) has its
elements in the pieces and grows with them at its end, that a set of a sequence's
elements is finite, and that of finitely many places in logs one is the last.
`SelectSeq`, `@@` and `:>` mean nothing to the provers; the modules that are
proved about do without them where it matters.

## Noted while modelling

These disagreements between code and documentation, or inside the code, follow
from the definitions of the modules; they have no run of their own.

- A hypothesis in a kill state may move to another one, or to the same
  (`hypothesis_lifecycle.py:179`), where `docs/HYPOTHESIS_LIFECYCLE.md:63` lets a
  live state do so.
- `claimable` to `claimable` needs no approval and erases the approver from the
  state file (`:175` against `docs/HYPOTHESIS_LIFECYCLE.md:23`).
- Two identical transitions within a second share one receipt row (`:78-88`).
- `off_manifold_intervention` blocks necessity, sufficiency and mechanism, not
  mediation and generalization above them (`claim_grammar.py:107`).
- A dry run with a lock has `claim_bearing` true (`causal_verification.py:154`).
- Under the exploratory profile a verification without operations gets candidate
  evidence, and a causal card, with no receipt (`causal_verification.py:505`,
  `cards.py:167-171`); its `zero_ablate` stays diagnostic unless the payload says
  otherwise (`causal_verification.py:98`).
- A negative target delta makes 0.8 of it larger than itself, so a control below
  that passes (`blockers.py:38`).
- A grammar report claims its claim's ref in `claims/` and may shadow the card
  (`draft_guard.py:18-21`). It lists no forbidden phrase, and "causes" and "fully
  explains" are no marker of a claim type: a draft may then say that X causes Y
  over an association card.
- A card's own blockers hide those of its metadata, and its own debt that of its
  metadata (`claim_grammar.py:283-292`): a projection claim that
  `metadata_mismatch` in the metadata blocks becomes caveated when
  `dictionary_interference` is added to the card.
- A kernel killed inside `close()` leaves an empty `session.json` beside the session's
  row (`session.py:110`, `:253-261`). A rebuild removes its output and then raises on
  the file, before it has restored any session (`sqlite_index.py:181`, `:199`); a torn
  line of a log stops it in the same way.
- A card's debt items have neither a status nor a type they stand in the way of,
  and its policy profile is in its metadata: the grammar sees neither.
- A cell run inside a cell takes the outer cell's place; what the outer one does
  afterwards is not captured (`capture.py:52`, `:75`; `session.py:251`).
- A name rebound to a copy of an object whose ref another name held is
  `alias_bound` although the content changed: no version is indexed
  (`capture.py:131-158`).
- A failed cell hook leaves its cell current, so a later hook may commit it twice.
- Cell refs begin again in every session and are the primary key of their table,
  so the rows of two sessions replace one another (`session.py:119`, `:244`),
  where `docs/archive/mwb_phase0_ledger.md:140` counts cells as indexed.
- A grammar report in `claims/` gives a `supports` edge even when it says that the
  claim is blocked (`EvidenceGraph!claim_edges`); only results of sweeps carry a
  `result_ref`, so results of causal verification have no edges.
- A rebuild of the graph that is killed between truncating the edge file and
  writing it leaves an empty file, and queries answer from it without a word.
- The edges of one rebuild may come from records no moment had together.
- `write_card` overwrites `scientific_debt.json` with the card's own debt, so the
  debt `ingest` has just imported is lost, where `docs/DIAGNOSIS_AND_PROBES.md:66`
  says that it remains.
- Any blocker but a leaky control leaves candidate evidence at causal necessity
  (`MechanismCards!card_from_run`).
- `materialize_probe` without a plan of its own keeps an older `next_probe.json`.
- A claim proposal for a generated card has the heading `### claim_<slug>`
  (`cards.py:30`), which `CLAIM_HEADING_RE` never matches: copied into the ledger
  it is silently no entry.
- Rows of entries that were removed from a ledger stay in the live index.
- Manifests reach the table `runs` only in a rebuild, where ledger rows of the
  same id replace them (`ledgers.py:119`).
- A `project.toml` or run ledger left empty by a killed `init` is never repaired:
  every later command finds it there, and fails on it.
- Of two explanations of one hypothesis a rebuild keeps the one of the first run
  directory, the live index the one made last.
- A torn line of `events.jsonl` makes `init` and the rebuild raise, and swallows
  the line appended after it.
- An `init` that races another may overwrite a ledger the other has just created, and
  what the user has put into it since.

## Not modelled, and why

- Formatting, YAML and Markdown twins of JSON files, printed output, stable
  hashes (a `stable_ref` is the tuple it hashes, without collisions).
- Files that nothing reads back: streams, exceptions, source snapshots,
  `verification_results.jsonl`, `telemetry.jsonl`.
- The SQLite rows of the pipeline and of diagnosis: none of their commands reads
  them.
- In `RunCycle`, two writers of one file at the same moment (as for the pipeline),
  and the run directories of `verify`, which `EvidencePipeline` has. In
  `Workspace`, how run directories and explanations of a rebuild's other tables
  come about.
- The rows of one file during a rebuild of the index, which nobody reads before
  it is done: they go in together.
- Static compiler, spaces and preflight, bundle audit, reference benchmarks,
  adapters of third-party libraries: pure functions of their input whose reports
  no other component reads, and file copies; no order of events matters there.
- The arithmetic of interventions and third-party backends: their outcome is an
  input.
- Two writers that truncate and write the same file of a run at the same moment
  (modelled for the lifecycle's state file): in the pipeline a write of a live
  process is one step, and only a killed one leaves a torn file. A reader that
  meets a half-written file of a live process ends like one that meets a torn one.
- `%load_ext` and `%unload_ext` inside a cell; resuming a session twice within a
  second in one process.
- The parts of the table at the top that the plan below still has.

## Plan

Done, in this order: the lifecycle with its refinement and proofs; the grammar,
policy, cards, guard and the pipeline with their proofs; capture and the rebuild
of its tables; the evidence graph; diagnosis, probes and ingest; ledgers, project
and the rest of the rebuild; proofs about the capture, the run cycle and the
workspace.

Next:

1. Proofs: what can be said of the queries of the graph without the search.
2. An abstract specification of the evidence gate and its refinement by the
   pipeline.
3. The static gate: compiler, spaces and preflight as operators against the rules
   their documentation states, in a run shared with the grammar.

The set of runs is kept small: where one instance can ask the questions of two
runs of a component, they are merged when a new component is added.
