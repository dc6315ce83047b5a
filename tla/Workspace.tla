------------------------------- MODULE Workspace -------------------------------
(* A workspace as its first commands make it and its last resort restores it:   *)
(* `mwb init`, `mwb ledger ...`, `mwb hypothesis explain` and `mwb              *)
(* rebuild-index` (project.py, events.py, ledgers.py, sqlite_index.py).  The    *)
(* ledgers are the user's: the commands only create and read them, and propose  *)
(* entries, which the user may copy.  Several commands run at once, none locks  *)
(* anything, any may be killed, and write_text truncates a file before it       *)
(* writes.                                                                      *)
(*                                                                              *)
(* A command is the list of its next steps, each << operation, argument ... >>. *)
(* The rows of one file go into the rebuilt index together, as nobody reads it  *)
(* before it is done.  A run directory and its manifest are there from the      *)
(* start; RunCycle has how they come about.                                     *)
EXTENDS SqliteIndex, Ledgers, FiniteSetsExt

CONSTANTS
    Procs,
    Names,          \* project names given to `mwb init`
    Runs,           \* run directories in the order of their names
    Manifest, Report,   \* of each run: its manifest, and the report's primary blocker
    Reviewed, Cards,    \* the runs and MechanismCards proposals are made of
    Texts,          \* what the user may save as a ledger, of each kind
    Initialised,    \* the project names whose workspace may be there at the start
    MaxCommands, MaxEdits, MaxCrashes, MaxMoves     \* bounds, and one on their sum

ASSUME WorkspaceBounds == /\ MaxCommands \in Nat /\ MaxEdits \in Nat
                          /\ MaxCrashes \in Nat /\ MaxMoves \in Nat
                          /\ Initialised \subseteq Names
(* A missing file is neither an empty one nor the project of that name; some    *)
(* commands call a project mwb-demo that has none.                              *)
ASSUME WorkspaceNames == /\ "mwb-demo" \in Names /\ NoFile # Blank
                         /\ {NoFile, Blank} \cap Names = {}
                         /\ Runs \in Seq(Range(Runs))
(* A manifest without a run ref is proposed under the name of its directory.    *)
ASSUME RunsNamed == \A run \in Reviewed : Manifest[run].run_ref # ""

VARIABLES
    files,      \* what is at each path, or NoFile
    events,     \* the lines of events.jsonl
    index,      \* workbench.sqlite
    rebuilt,    \* workbench.rebuilt.sqlite, or NoTables
    jobs,       \* the command of each process, and its steps to come
    valid,      \* history: the entries that were ever in a ledger without errors
    finished,   \* history: has an init returned?
    alone,      \* history: the processes nothing has happened beside since they began
    fresh,      \* history: of which commands the last one worked alone, and still stands
    commands, edits, crashes    \* counters
vars == << files, events, index, rebuilt, jobs, valid, finished, alone, fresh,
           commands, edits, crashes >>

Hypotheses == { Manifest[r].hypothesis : r \in Range(Runs) }
(* A run directory is no hypothesis directory (runs/ and hypotheses/), and a    *)
(* manifest no missing or empty file.                                           *)
ASSUME WorkspaceRuns == Range(Runs) \cap (Hypotheses \cup {NoFile, Blank}) = {}
Toml == << "toml" >>
Ledger(kind) == << "ledger", kind >>
Explained(of) == << "explained", of >>
Proposal(kind) == << "proposal", kind >>
Paths == {Toml} \cup { Ledger(k) : k \in Kinds }
         \cup { Explained(x) : x \in Range(Runs) \cup Hypotheses }
         \cup { Proposal(k) : k \in {"runs", "claims"} }

(* What a ledger may hold: what the user writes, and what is proposed for it.   *)
Proposals(kind) ==
    CASE kind = "runs" -> { run_proposal(Manifest[r], Report[r]) : r \in Reviewed }
      [] kind = "claims" -> { claim_proposal(card) : card \in Cards }
      [] OTHER -> {}
Sections(kind) == (UNION { Range(text) : text \in Texts[kind] }) \cup Proposals(kind)
ASSUME WorkspaceTexts ==
    \A kind \in Kinds : /\ Texts[kind] \subseteq Seq(Sections(kind))
                        /\ {NoFile, Blank} \cap Seq(Sections(kind)) = {}

Tables == Kinds \cup {"projects", "alternative_explanations"}
EmptyTables ==
    [table \in Tables \cup {"events"} |-> IF table = "events" THEN EmptyBag ELSE {}]
(* A database that is no file has none.                                         *)
NoTables == [table \in {} |-> {}]

-----------------------------------------------------------------------------
(* The steps of the commands.                                                   *)

(* _write_if_missing, and the project.toml of init: the file is opened and      *)
(* written only after a check that it is missing.                               *)
if_missing(path, content) == << << "if missing", path, content >> >>
write_text(path, content) == << << "open", path >>, << "write", path, content >> >>

KindOrder == << "claims", "decisions", "research", "runs" >>
ensure_research_scaffold ==
    [i \in DOMAIN KindOrder |-> << "if missing", Ledger(KindOrder[i]), << >> >>]

(* ProjectManager.init; the event is appended and inserted if none is read.     *)
init(name) ==
    if_missing(Toml, name)
    \o << << "read project" >>, << "insert project" >>, << "read events" >> >>
    \o ensure_research_scaffold

(* discover_or_create, followed by what a command does.                         *)
discover_or_create == << << "discover", "create" >> >>
discover == << << "discover", "fail" >> >>

parse_research_ledgers == [i \in DOMAIN KindOrder |-> << "parse", KindOrder[i] >>]
validate_ledgers ==
    discover_or_create \o ensure_research_scaffold \o parse_research_ledgers
    \o << << "index ledgers" >> >>
propose_run_ledger_row(run) ==
    discover_or_create
    \o write_text(Proposal("runs"), run_proposal(Manifest[run], Report[run]))
propose_claim_update(card) ==
    discover_or_create \o write_text(Proposal("claims"), claim_proposal(card))

(* explain: its two files and its row are those of the hypothesis, and say which *)
(* run they explain.  Mutant: the row first.                                    *)
explain_RowFirst(run) ==
    LET hypothesis == Manifest[run].hypothesis
    IN  discover_or_create
        \o << << "insert", "alternative_explanations", Row(hypothesis, run) >> >>
        \o write_text(Explained(run), run) \o write_text(Explained(hypothesis), run)
explain(run) ==
    LET hypothesis == Manifest[run].hypothesis
    IN  discover_or_create
        \o write_text(Explained(run), run) \o write_text(Explained(hypothesis), run)
        \o << << "insert", "alternative_explanations", Row(hypothesis, run) >> >>

(* rebuild_sqlite_index.                                                        *)
RestoreFiles ==
    LET hypotheses == SetToSeq(Hypotheses)
    IN  << << "unlink" >>, << "initialize schema" >>, << "restore events" >> >>
        \o [i \in DOMAIN Runs |-> << "restore run", Runs[i] >>]
        \o [i \in DOMAIN hypotheses |-> << "restore hypothesis", hypotheses[i] >>]
RestoreLedgers == parse_research_ledgers \o << << "restore ledgers" >> >>
(* Mutant: the ledgers are indexed before the runs.                             *)
rebuild_index_LedgersFirst ==
    discover \o SubSeq(RestoreFiles, 1, 3) \o RestoreLedgers
    \o SubSeq(RestoreFiles, 4, Len(RestoreFiles))
rebuild_index == discover \o RestoreFiles \o RestoreLedgers

Commands ==
    { [name |-> "init", steps |-> init(n)] : n \in Names }
    \cup {[name |-> "validate", steps |-> validate_ledgers]}
    \cup { [name |-> "propose", steps |-> propose_run_ledger_row(r)] : r \in Reviewed }
    \cup { [name |-> "propose", steps |-> propose_claim_update(c)] : c \in Cards }
    \cup { [name |-> "explain", steps |-> explain(r)] : r \in Range(Runs) }
    \cup {[name |-> "rebuild", steps |-> rebuild_index]}

-----------------------------------------------------------------------------
NoJob ==
    [name |-> "none", todo |-> << >>, project |-> NoFile, parsed |-> << >>, errors |-> FALSE,
     seen |-> {}, created |-> FALSE, late |-> FALSE, overlapped |-> FALSE,
     events |-> EmptyBag, explained |-> {}]

Init ==
    /\ \/ /\ files = [path \in Paths |-> NoFile]
          /\ events = << >> /\ index = EmptyTables /\ finished = FALSE
       \/ \E name \in Initialised :
          /\ files = [path \in Paths |->
                         CASE path = Toml -> name
                           [] \E k \in Kinds : path = Ledger(k) -> << >>
                           [] OTHER -> NoFile]
          /\ events = << name >>
          /\ index = [EmptyTables EXCEPT !.projects = {Row(name, name)},
                                         !.events = BagAdd(EmptyBag, name)]
          /\ finished = TRUE
    /\ rebuilt = NoTables
    /\ jobs = [p \in Procs |-> NoJob]
    /\ valid = [k \in Kinds |-> {}]
    /\ alone = {} /\ fresh = {}
    /\ commands = 0 /\ edits = 0 /\ crashes = 0

Working(p) == jobs[p].todo # << >>
Op(p) == Head(jobs[p].todo)[1]
Arg(p) == Head(jobs[p].todo)[2]
Content(p) == Head(jobs[p].todo)[3]
At(p, op) == Working(p) /\ Op(p) = op

Becomes(p, job) == jobs' = [jobs EXCEPT ![p] = job]
(* The next step is done, and some steps come first.                            *)
Then(job, steps) == [job EXCEPT !.todo = steps \o Tail(@)]
Done(p) == Becomes(p, Then(jobs[p], << >>))
Raise(p) == Becomes(p, NoJob)

Quiet == \A p \in Procs : ~ Working(p)
MayMove == commands + edits + crashes < MaxMoves

Began(c) == [NoJob EXCEPT !.name = c.name, !.late = finished,
                          !.todo = Append(c.steps, << "return" >>)]
BeganRebuild(c, beside) ==
    [Began(c) EXCEPT !.overlapped = beside # {}, !.events = index.events,
                     !.explained = RefsOf(index.alternative_explanations)]
Begin(p) ==
    /\ ~ Working(p) /\ commands < MaxCommands /\ MayMove
    /\ \E c \in Commands :
         LET beside == { q \in Procs : c.name = "rebuild" /\ jobs[q].name = "rebuild" }
         IN  /\ jobs' = [q \in Procs |->
                    CASE q # p -> [jobs[q] EXCEPT !.overlapped = @ \/ q \in beside]
                      [] q = p /\ c.name = "rebuild" -> BeganRebuild(c, beside)
                      [] q = p /\ c.name # "rebuild" -> Began(c)]
             /\ fresh' = fresh \ {c.name}
    /\ alone' = IF Quiet THEN {p} ELSE {}
    /\ commands' = commands + 1
    /\ UNCHANGED << files, events, index, rebuilt, valid, finished, edits, crashes >>

Return(p) ==
    /\ At(p, "return") /\ Becomes(p, NoJob)
    /\ finished' = (finished \/ jobs[p].created)
    /\ fresh' = IF p \in alone /\ jobs[p].name \in {"validate", "rebuild"}
                   /\ (jobs[p].name = "validate" => ~ jobs[p].errors)
                THEN fresh \cup {jobs[p].name} ELSE fresh
    /\ UNCHANGED << files, events, index, rebuilt, valid, alone, commands, edits, crashes >>

History == << valid, finished, alone, fresh, commands, edits, crashes >>

-----------------------------------------------------------------------------
(* Files.                                                                       *)

(* No file is ever removed: the checks that find theirs are taken together.     *)
AfterPresent(todo) ==
    LET present(step) == step[1] = "if missing" /\ files[step[2]] # NoFile
        next == CHOOSE i \in DOMAIN todo :
                  ~ present(todo[i]) /\ \A j \in 1 .. (i - 1) : present(todo[j])
    IN  SubSeq(todo, next, Len(todo))

(* Mutant: the file is written whether or not it is there.                      *)
IfMissing_Always(p) ==
    /\ At(p, "if missing")
    /\ Becomes(p, Then(jobs[p], write_text(Arg(p), Content(p))))
    /\ UNCHANGED << files, events, index, rebuilt, History >>
IfMissing(p) ==
    /\ At(p, "if missing")
    /\ IF files[Arg(p)] = NoFile
       THEN Becomes(p, Then(jobs[p], write_text(Arg(p), Content(p))))
       ELSE Becomes(p, [jobs[p] EXCEPT !.todo = AfterPresent(@)])
    /\ UNCHANGED << files, events, index, rebuilt, History >>

(* A ledger that is made or written is one that nobody has read as it is now.   *)
Puts(path, content) ==
    /\ files' = [files EXCEPT ![path] = content]
    /\ fresh' = IF \E kind \in Kinds : path = Ledger(kind) THEN {} ELSE fresh
    /\ UNCHANGED << events, index, rebuilt, valid, finished, alone, commands, edits, crashes >>
Open(p) == At(p, "open") /\ Done(p) /\ Puts(Arg(p), Blank)
Write(p) == At(p, "write") /\ Done(p) /\ Puts(Arg(p), Content(p))

(* discover, discover_or_create: an empty project.toml has no project.          *)
Discover(p) ==
    /\ At(p, "discover")
    /\ \/ /\ files[Toml] \in Names
          /\ Becomes(p, Then([jobs[p] EXCEPT !.project = files[Toml]], << >>))
       \/ /\ files[Toml] = NoFile /\ Arg(p) = "create"
          /\ Becomes(p, Then(jobs[p], init("mwb-demo")))
       \/ /\ files[Toml] = Blank \/ (files[Toml] = NoFile /\ Arg(p) = "fail")
          /\ Raise(p)
    /\ UNCHANGED << files, events, index, rebuilt, History >>

(* The rest of init.                                                            *)
ReadProject(p) ==
    /\ At(p, "read project")
    /\ IF files[Toml] = Blank THEN Raise(p)
       ELSE Becomes(p, Then([jobs[p] EXCEPT !.project = files[Toml]], << >>))
    /\ UNCHANGED << files, events, index, rebuilt, History >>

(* insert or ignore                                                             *)
InsertProject(p) ==
    /\ At(p, "insert project") /\ Done(p)
    /\ index' = [index EXCEPT !.projects = @ \cup {Row(jobs[p].project, jobs[p].project)}]
    /\ UNCHANGED << files, events, rebuilt, History >>

Torn == "torn"
ReadEvents(p) ==
    /\ At(p, "read events")
    /\ IF Torn \in Range(events) THEN Raise(p)
       ELSE Becomes(p, Then([jobs[p] EXCEPT !.created = TRUE],
                            IF events # << >> THEN << >>
                            ELSE << << "append event" >>, << "insert event" >> >>))
    /\ UNCHANGED << files, events, index, rebuilt, History >>

(* A line appended after a torn one is part of it.                              *)
AppendLine(line) ==
    events' = IF events # << >> /\ Last(events) = Torn THEN events ELSE Append(events, line)
AppendEvent(p) ==
    /\ At(p, "append event") /\ Done(p)
    /\ AppendLine(jobs[p].project)
    /\ UNCHANGED << files, index, rebuilt, History >>
InsertEvent(p) ==
    /\ At(p, "insert event") /\ Done(p)
    /\ index' = insert_event(index, jobs[p].project)
    /\ UNCHANGED << files, events, rebuilt, History >>

-----------------------------------------------------------------------------
(* Ledgers and explanations.  A ledger is read at one moment, the four one      *)
(* after another; all entries are there before the errors are looked at.        *)
Parse(p) ==
    /\ At(p, "parse")
    /\ LET kind == Arg(p)
           text == files[Ledger(kind)]
           rows == Entries(kind, text)
       IN  Becomes(p, Then([jobs[p] EXCEPT
               !.parsed = @ \o [i \in DOMAIN rows |-> << "insert", kind, rows[i] >>],
               !.errors = @ \/ HasErrors(kind, text)], << >>))
    /\ UNCHANGED << files, events, index, rebuilt, History >>

(* Mutant: what was parsed is indexed, errors or not.                           *)
IndexLedgers_Anyway(p) ==
    /\ At(p, "index ledgers")
    /\ Becomes(p, Then([jobs[p] EXCEPT !.parsed = << >>], jobs[p].parsed))
    /\ UNCHANGED << files, events, index, rebuilt, History >>
IndexLedgers(p) ==
    /\ At(p, "index ledgers")
    /\ Becomes(p, Then([jobs[p] EXCEPT !.parsed = << >>],
                       IF jobs[p].errors THEN << >> ELSE jobs[p].parsed))
    /\ UNCHANGED << files, events, index, rebuilt, History >>

Insert(p) ==
    /\ At(p, "insert") /\ Done(p)
    /\ index' = insert_payload(index, Arg(p), Content(p).ref, Content(p).payload)
    /\ UNCHANGED << files, events, rebuilt, History >>

-----------------------------------------------------------------------------
(* rebuild_sqlite_index.  A second one may remove the output of the first; the  *)
(* next insert then finds an empty database, and raises.                        *)
Unlink(p) ==
    /\ At(p, "unlink") /\ Done(p)
    /\ rebuilt' = NoTables
    /\ UNCHANGED << files, events, index, History >>
(* ... and the row of the project.                                              *)
InitializeSchema(p) ==
    /\ At(p, "initialize schema") /\ Done(p)
    /\ LET tables == IF rebuilt = NoTables THEN EmptyTables ELSE rebuilt
           row == Row(jobs[p].project, jobs[p].project)
       IN  rebuilt' = [tables EXCEPT !.projects = @ \cup {row}]
    /\ UNCHANGED << files, events, index, History >>

Restoring(p, op) == At(p, op) /\ UNCHANGED << files, events, index, History >>
Lost(p) == Raise(p) /\ UNCHANGED rebuilt
(* Rows are inserted, if the tables are still there.                            *)
Restore(p, job, tables) ==
    IF rebuilt = NoTables THEN Lost(p) ELSE Becomes(p, Then(job, << >>)) /\ rebuilt' = tables
Nothing(p) == Done(p) /\ UNCHANGED rebuilt

(* One row of each line, in the bag that nobody reads in order.                 *)
insert_events(tables, lines) ==
    [tables EXCEPT !.events =
        @ (+) [line \in Range(lines) |-> Cardinality({ i \in DOMAIN lines : lines[i] = line })]]

(* _read_jsonl raises on a torn line.  Mutant: it takes it for an event.        *)
RestoreEvents_AnyLine(p) ==
    /\ Restoring(p, "restore events")
    /\ Restore(p, jobs[p], insert_events(rebuilt, events))
RestoreEvents(p) ==
    /\ Restoring(p, "restore events")
    /\ IF Torn \in Range(events) THEN Lost(p)
       ELSE IF events = << >> THEN Nothing(p)
       ELSE Restore(p, jobs[p], insert_events(rebuilt, events))

(* _insert_json_file_once: the first explanation of a hypothesis that is met,   *)
(* first in the run directories.  An empty file is no JSON.                     *)
RestoreExplanation(p, of, tables) ==
    LET run == files[Explained(of)]
        hypothesis == Manifest[run].hypothesis
    IN  IF run = Blank THEN Raise(p) /\ rebuilt' = tables
        ELSE IF (run = NoFile) \/ hypothesis \in jobs[p].seen
        THEN Done(p) /\ rebuilt' = tables
        ELSE Restore(p, [jobs[p] EXCEPT !.seen = @ \cup {hypothesis}],
                     insert_payload(tables, "alternative_explanations", hypothesis, run))
RestoreRun(p) ==
    /\ Restoring(p, "restore run")
    /\ IF rebuilt = NoTables THEN Lost(p)
       ELSE RestoreExplanation(p, Arg(p),
                               insert_payload(rebuilt, "runs", Arg(p), Manifest[Arg(p)]))
RestoreHypothesis(p) ==
    Restoring(p, "restore hypothesis") /\ RestoreExplanation(p, Arg(p), rebuilt)

(* insert_payload of each row in turn: of the rows with one ref the last stays. *)
insert_rows(tables, steps) ==
    LET Of(table) == { i \in DOMAIN steps : steps[i][2] = table }
        ref(i) == steps[i][3].ref
    IN  [table \in DOMAIN tables |->
            IF Of(table) = {} THEN tables[table]
            ELSE { row \in tables[table] : \A i \in Of(table) : ref(i) # row.ref }
                 \cup { steps[i][3] : i \in { j \in Of(table) :
                                             \A k \in Of(table) : ref(k) = ref(j) => k <= j } }]
RestoreLedgerRows(p) ==
    /\ Restoring(p, "restore ledgers")
    /\ IF jobs[p].errors \/ jobs[p].parsed = << >> THEN Nothing(p)
       ELSE Restore(p, jobs[p], insert_rows(rebuilt, jobs[p].parsed))

-----------------------------------------------------------------------------
(* The user: saves a ledger, or copies a proposal to the end of one.            *)
Saved(kind, text) ==
    /\ edits < MaxEdits /\ MayMove /\ edits' = edits + 1
    /\ files' = [files EXCEPT ![Ledger(kind)] = text]
    /\ valid' = [valid EXCEPT ![kind] =
                    IF HasErrors(kind, text) THEN @ ELSE @ \cup Range(Entries(kind, text))]
    /\ alone' = {} /\ fresh' = {}
    /\ UNCHANGED << events, index, rebuilt, jobs, finished, commands, crashes >>
Edit(kind) ==
    /\ files[Ledger(kind)] # NoFile
    /\ \E text \in Texts[kind] \ {files[Ledger(kind)]} : Saved(kind, text)
Approve(kind) ==
    /\ kind \in {"claims", "runs"}
    /\ files[Proposal(kind)] \notin {NoFile, Blank}
    /\ files[Ledger(kind)] \notin {NoFile, Blank}
    /\ Saved(kind, Append(files[Ledger(kind)], files[Proposal(kind)]))

(* A process is killed, maybe within the append of a line.                      *)
Crash(p) ==
    /\ Working(p) /\ crashes < MaxCrashes /\ MayMove /\ crashes' = crashes + 1
    /\ Raise(p)
    /\ events' = events \/ (Op(p) = "append event" /\ AppendLine(Torn))
    /\ UNCHANGED << files, index, rebuilt, valid, finished, alone, fresh, commands, edits >>

Step(p) ==
    \/ IfMissing(p) \/ Open(p) \/ Write(p) \/ Discover(p) \/ ReadProject(p)
    \/ InsertProject(p) \/ ReadEvents(p) \/ AppendEvent(p) \/ InsertEvent(p)
    \/ Parse(p) \/ IndexLedgers(p) \/ Insert(p)
    \/ Unlink(p) \/ InitializeSchema(p) \/ RestoreEvents(p)
    \/ RestoreRun(p) \/ RestoreHypothesis(p) \/ RestoreLedgerRows(p)

Next ==
    \/ \E p \in Procs : Begin(p) \/ Step(p) \/ Return(p) \/ Crash(p)
    \/ \E kind \in Kinds : Edit(kind) \/ Approve(kind)

Spec == Init /\ [][Next]_vars

-----------------------------------------------------------------------------
(* The project and the events are whole, cut short or missing; the tables hold  *)
(* one row of each ref, and rows of their own.                                  *)
TypeOK ==
    /\ files[Toml] \in Names \cup {NoFile, Blank}
    /\ Range(events) \subseteq Names \cup {Torn}
    /\ \A tables \in {index} \cup ({rebuilt} \ {NoTables}) :
         /\ DOMAIN tables = Tables \cup {"events"}
         /\ tables.projects \subseteq { Row(n, n) : n \in Names }
         /\ BagToSet(tables.events) \subseteq Names
         /\ RefsOf(tables.alternative_explanations) \subseteq Hypotheses
         /\ \A t \in Tables : \A x, y \in tables[t] : x.ref = y.ref => x = y
    /\ \A p \in Procs : jobs[p].project \in Names \cup {NoFile}
    /\ alone \subseteq Procs /\ fresh \subseteq {"validate", "rebuild"}

(* An entry of the live index was once in a ledger that passed the parser:      *)
(* whoever edits ledgers while they are read, and whichever scaffold is cut     *)
(* short (validate_ledgers returns before it indexes when any ledger fails).    *)
OnlyValidIndexed ==
    \A kind \in Kinds : index[kind] \subseteq valid[kind]

(* "repair-index re-parse[s] the Git-visible ledgers and restore[s] indexed      *)
(* rows": when nothing went on beside the last validation, which succeeded, and *)
(* the last rebuild, and no ledger changed since, both indices hold every entry *)
(* of the ledgers, in `runs` over the manifest of the run.                      *)
LedgersRestored ==
    fresh = {"validate", "rebuild"} =>
        \A kind \in Kinds :
            Range(Entries(kind, files[Ledger(kind)]))
                \subseteq index[kind] \cap rebuilt[kind]

(* A rebuild about to report success, that no other rebuild overlapped, has all *)
(* the events and explanations the live index had when it began, whatever was   *)
(* killed before it and goes on beside it.                                      *)
RebuildKeepsRecords ==
    \A p \in Procs :
        At(p, "return") /\ jobs[p].name = "rebuild" /\ ~ jobs[p].overlapped =>
            /\ rebuilt # NoTables
            /\ jobs[p].events \sqsubseteq rebuilt.events
            /\ jobs[p].explained \subseteq RefsOf(rebuilt.alternative_explanations)
            /\ Range(Runs) \subseteq RefsOf(rebuilt.runs)

(* Once an init has returned, no command that begins writes the project, a      *)
(* ledger or the event of its creation again, whatever was killed: these        *)
(* commands leave what the user put into a ledger.  Of an init that is still on *)
(* its way this is not said: it may have found a ledger missing before, and     *)
(* then writes the empty one over what the user has made of it since.           *)
Owned == << files[Toml], [k \in Kinds |-> files[Ledger(k)]], events >>
LateCommandsKeep ==
    [][\A p \in Procs : jobs[p].late /\ jobs'[p] # jobs[p] => Owned' = Owned]_vars

(* A proposal copied to the end of a ledger adds no error but that of an entry  *)
(* with its id.  It is one entry more if it is a row or its heading is that of  *)
(* a claim, and otherwise the entries stay as they were: so it is with the      *)
(* claim_<slug> of every card that card_from_run makes.                         *)
Proposed(kind) == files[Proposal(kind)]
ApprovalValid(kind) ==
    LET old == files[Ledger(kind)]
        new == files'[Ledger(kind)]
        known == { Entries(kind, old)[i].ref : i \in DOMAIN Entries(kind, old) }
        id == IF kind = "runs" THEN Proposed(kind).run_id ELSE Proposed(kind).heading
    IN  ~ HasErrors(kind, old) /\ id \notin known =>
          /\ ~ HasErrors(kind, new)
          /\ IF kind = "runs" \/ id \in Headings.claims
             THEN Len(Entries(kind, new)) = Len(Entries(kind, old)) + 1
             ELSE Entries(kind, new) = Entries(kind, old)
ProposalsValidate ==
    [][\A kind \in {"claims", "runs"} : Approve(kind) => ApprovalValid(kind)]_vars
================================================================================
