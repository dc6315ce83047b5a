-------------------------------- MODULE RunCycle --------------------------------
(* The life of a run directory after the experiment: an external bundle is      *)
(* ingested into it (adapters/generic_bundle.py), `mwb card`, `mwb diagnose`    *)
(* and `mwb next-probe --materialize` derive files from it, and `mwb run-probe` *)
(* or `mwb sweep --dry-run` write a new one (workflows/sweep.py).  A command    *)
(* is a list of reads and writes of single files, with which those of other     *)
(* processes interleave; it may raise half-way or be killed in any of them.     *)
(*                                                                              *)
(* mechanism_card.json stands for its copies under cards/ and claims/, a JSON   *)
(* file for the YAML and Markdown beside it.  The rows inserted for a tree and  *)
(* a probe, and the receipts and results of a sweep, are left out: no command   *)
(* here reads them.                                                             *)
EXTENDS NextProbe

CONSTANTS
    Procs,
    Sources, Bundle,    \* the bundles that may be ingested, and what each holds
    Sweeps,         \* the sweeps that may be asked for
    Torn,           \* the content of a file whose writer was killed
    MaxCommands, MaxCrashes     \* bounds

(* A bundle: what slugify makes of its run ref, the required fields it has, its *)
(* manifest, metrics, blocker report and debt.  Its policy report is the one in *)
(* the manifest or, if that is empty, in the manifest's metadata, and NoPolicy  *)
(* when there is none.  "stale" and "bad": a rewrite of the file leaves the     *)
(* source's own run ref somewhere, or cannot be done.                           *)
RequiredFields == {"run_ref", "target_delta", "matched_control_delta"}
IsSequence(list) == list \in Seq(Range(list))
ASSUME SourceAssumption ==
    \A s \in Sources :
        /\ Bundle[s].fields \subseteq RequiredFields
        /\ \A axis \in Axes : /\ IsSequence(Bundle[s].tried_axes[axis])
                             /\ IsSequence(Bundle[s].available_axes[axis])
        /\ \A report, other \in Bundle[s].report :
             /\ report = other /\ report.stale \in BOOLEAN /\ IsSequence(report.blockers)
             /\ \A a, b \in report.primary_blocker : a = b
        /\ \A debt \in Bundle[s].debt : debt.bad \in BOOLEAN
ASSUME CycleBounds == MaxCommands \in Nat /\ MaxCrashes \in Nat

TheOne(set) == CHOOSE x \in set : TRUE

Slugs == { Bundle[s].slug : s \in Sources }

(* validate_source *)
Valid(s) == Bundle[s].fields = RequiredFields

-----------------------------------------------------------------------------
(* Where a run is, and what its files hold.                                     *)
External(slug) == << "run_external_generic", slug >>
SweepRun(sweep) == << "run_sweep", sweep >>
IsSweep(run) == run[1] = "run_sweep"

(* ingest: the source's manifest is kept but for its provenance, which becomes  *)
(* the adapter's, and its claim, which is dropped.                              *)
IngestedManifest(s) ==
    [status |-> IF Bundle[s].status = {} THEN "insufficient_evidence"
                ELSE TheOne(Bundle[s].status),
     policy_report |-> Bundle[s].policy_report, claim_bearing |-> FALSE, slug |-> {Bundle[s].slug},
     source_hypothesis_ref |-> Bundle[s].source_hypothesis_ref,
     tried_axes |-> Bundle[s].tried_axes, available_axes |-> Bundle[s].available_axes]

(* _derived_blocker_report, or _rewrite_blocker_report of the source's.         *)
IngestedReport(s) ==
    IF Bundle[s].report = {}
    THEN [blockers |-> diagnosed(Bundle[s].metrics), failing |-> failing(Bundle[s].metrics),
          primary_blocker |-> primary_blocker(diagnosed(Bundle[s].metrics))]
    ELSE LET report == TheOne(Bundle[s].report)
         IN  [blockers |-> report.blockers, failing |-> report.failing,
              primary_blocker |-> report.primary_blocker]

(* Mutant: a planned sweep takes itself for evidence.                           *)
SweepManifest_Candidate(sweep) ==
    [status |-> "candidate_evidence", policy_report |-> NoPolicy, claim_bearing |-> FALSE,
     source_hypothesis_ref |-> {sweep.target_ref},
     tried_axes |-> sweep.axes, available_axes |-> sweep.axes, slug |-> {}]
(* write_sweep_run                                                              *)
SweepManifest(sweep) ==
    [status |-> IF sweep.dry_run THEN "dry_run" ELSE "planned", policy_report |-> NoPolicy,
     claim_bearing |-> FALSE, source_hypothesis_ref |-> {sweep.target_ref},
     tried_axes |-> sweep.axes, available_axes |-> sweep.axes, slug |-> {}]
SweepReport ==
    [blockers |-> << "artifact_incomplete" >>, failing |-> {},
     primary_blocker |-> {"artifact_incomplete"}]

FileNames ==
    {"manifest", "metrics", "report", "debt", "next_probe", "tree", "probe", "card"}
EmptyDir == [file \in FileNames |-> {}]

-----------------------------------------------------------------------------
(* The commands, as the files they read and write one after another.            *)
Read(file) == [op |-> "read", file |-> file]
Write(file) == [op |-> "write", file |-> file]
ReadPayload == << Read("manifest"), Read("metrics"), Read("report") >>
WriteCard == ReadPayload \o << Write("card"), Write("debt") >>
WriteNextProbe == ReadPayload \o << Write("next_probe") >>
WriteDiagnosis == ReadPayload \o << Read("debt"), Write("tree") >>
WriteSweep == << Write("manifest"), Write("metrics"), Write("report") >>

(* Mutants: a report is written only when the source has one; the card comes    *)
(* before the blockers.                                                         *)
IngestBundle_NoDerived(s) ==
    << Write("manifest"), Write("metrics") >>
    \o (IF Bundle[s].report = {} THEN << >> ELSE << Write("report") >>)
    \o (IF Bundle[s].debt = {} THEN << >> ELSE << Write("debt") >>)
    \o WriteNextProbe \o WriteCard
IngestBundle_CardFirst(s) ==
    << Write("manifest"), Write("metrics") >> \o WriteCard \o << Write("report") >>
    \o (IF Bundle[s].debt = {} THEN << >> ELSE << Write("debt") >>) \o WriteNextProbe
IngestBundle(s) ==
    << Write("manifest"), Write("metrics"), Write("report") >>
    \o (IF Bundle[s].debt = {} THEN << >> ELSE << Write("debt") >>)
    \o WriteNextProbe \o WriteCard

(* A command: the run directory it works in, its list, and the source or sweep  *)
(* it was given, {} if none.                                                    *)
Command(run, todo, source, sweep) ==
    [run |-> run, todo |-> todo, source |-> source, sweep |-> sweep]
Ingest(s) == Command(External(Bundle[s].slug), IngestBundle(s), {s}, {})
Derive(run, todo) == Command(run, todo, {}, {})
Sweep(sweep) == Command(SweepRun(sweep), WriteSweep, {}, {sweep})
DerivedCommands ==
    { WriteCard, WriteNextProbe, WriteDiagnosis,
      WriteNextProbe \o WriteDiagnosis \o ReadPayload \o << Write("probe") >>,
      << Read("probe") >> }

-----------------------------------------------------------------------------
VARIABLES
    files,      \* of each run directory there is: its files, {} or {content}
    jobs,       \* what each process still has to do, and has read and computed
    mixed,      \* history: the sources that were ingested into a slug's directory
                \* since it was last quiet, with Torn if one of them broke off
    origin,     \* history: of each file of each directory, the one source it tells
    commands, crashes

vars == << files, jobs, mixed, origin, commands, crashes >>

Idle == [run |-> << "none" >>, todo |-> << >>]
Busy(p) == jobs[p].todo # << >>

Init ==
    /\ files = << >> /\ origin = << >>
    /\ jobs = [p \in Procs |-> Idle]
    /\ mixed = [slug \in Slugs |-> {}]
    /\ commands = 0 /\ crashes = 0

(* The ingests under way into a directory.                                      *)
Ingesting(run) == { p \in Procs : Busy(p) /\ jobs[p].run = run /\ jobs[p].source # {} }

(* What a directory holds, as far as one complete ingest determines it.         *)
Whole(run) ==
    IF IsSweep(run) \/ Ingesting(run) # {} \/ Torn \in mixed[run[2]]
       \/ Cardinality(mixed[run[2]]) # 1
    THEN {} ELSE mixed[run[2]]

Start(p) ==
    /\ ~Busy(p) /\ commands < MaxCommands
    /\ commands' = commands + 1 /\ UNCHANGED crashes
Started(command, of) ==
    [run |-> command.run, todo |-> command.todo, source |-> command.source,
     sweep |-> command.sweep, read |-> EmptyDir, wrote |-> EmptyDir, of |-> of]

With(directories, run) ==
    [r \in DOMAIN directories \cup {run} |->
        IF r \in DOMAIN directories THEN directories[r] ELSE EmptyDir]
mkdir(run) == files' = With(files, run) /\ origin' = With(origin, run)

(* validate_source, then mkdir(run_dir); a bundle that is not valid ends here.  *)
(* A command under way in the directory no longer tells of one other source.    *)
StartIngest(p, s) ==
    LET run == External(Bundle[s].slug)
        sources == IF Ingesting(run) = {} THEN {s} ELSE mixed[Bundle[s].slug] \cup {s}
        Stale(q) == Busy(q) /\ jobs[q].run = run /\ jobs[q].of # {s}
    IN  /\ Start(p) /\ Valid(s)
        /\ jobs' = [q \in Procs |->
                       IF q = p THEN Started(Ingest(s), IF sources = {s} THEN {s} ELSE {})
                       ELSE IF Stale(q) THEN [jobs[q] EXCEPT !.of = {}] ELSE jobs[q]]
        /\ mkdir(run)
        /\ mixed' = [mixed EXCEPT ![Bundle[s].slug] = sources]

StartDerived(p, run, todo) ==
    /\ Start(p)
    /\ jobs' = [jobs EXCEPT ![p] = Started(Derive(run, todo), Whole(run))]
    /\ UNCHANGED << files, origin, mixed >>

StartSweep(p, sweep) ==
    /\ Start(p)
    /\ jobs' = [jobs EXCEPT ![p] = Started(Sweep(sweep), {})]
    /\ mkdir(SweepRun(sweep))
    /\ UNCHANGED mixed

(* The job breaks off: what it wrote stays.                                     *)
Abandoned(job) ==
    mixed' = IF job.source = {} THEN mixed ELSE [mixed EXCEPT ![job.run[2]] = @ \cup {Torn}]
Fail(p) ==
    /\ jobs' = [jobs EXCEPT ![p] = Idle]
    /\ Abandoned(jobs[p])
    /\ UNCHANGED << files, origin, commands, crashes >>

(* A file is read; one that does not parse ends the command.  run-probe then    *)
(* goes on in the directory of its sweep, or ends: an unsupported kind.         *)
ReadFile(p) ==
    /\ Busy(p) /\ Head(jobs[p].todo).op = "read" /\ Head(jobs[p].todo).file # "probe"
    /\ LET job == jobs[p]
           file == Head(job.todo).file
           content == files[job.run][file]
       IN  IF Torn \in content THEN Fail(p)
           ELSE /\ jobs' = [jobs EXCEPT ![p] = [job EXCEPT !.read[file] = content,
                                                          !.todo = Tail(@)]]
                /\ UNCHANGED << files, origin, mixed, commands, crashes >>

(* Mutant: the sweep is written over the run it is to follow up.                *)
run_probe_InPlace(p) ==
    /\ Busy(p) /\ Head(jobs[p].todo) = Read("probe")
    /\ LET content == files[jobs[p].run].probe
           probe == TheOne(content)
           sweep == [target_ref |-> probe.target_ref, axes |-> probe.axes, dry_run |-> TRUE]
       IN  IF content \in {{}, {Torn}} \/ ~probe.runnable THEN Fail(p)
           ELSE /\ jobs' = [jobs EXCEPT ![p] = [@ EXCEPT !.of = {}, !.todo = WriteSweep,
                                                         !.sweep = {sweep}]]
                /\ UNCHANGED << files, origin, mixed, commands, crashes >>
run_probe(p) ==
    /\ Busy(p) /\ Head(jobs[p].todo) = Read("probe")
    /\ LET content == files[jobs[p].run].probe
           probe == TheOne(content)
           sweep == [target_ref |-> probe.target_ref, axes |-> probe.axes, dry_run |-> TRUE]
       IN  IF content \in {{}, {Torn}} \/ ~probe.runnable THEN Fail(p)
           ELSE /\ jobs' = [jobs EXCEPT ![p] = [@ EXCEPT !.run = SweepRun(sweep), !.of = {},
                                                         !.todo = WriteSweep,
                                                         !.sweep = {sweep}]]
                /\ mkdir(SweepRun(sweep))
                /\ UNCHANGED << mixed, commands, crashes >>

(* What a job writes, of what it has read and written; only an ingest or a      *)
(* sweep writes the first three.                                                *)
Payload(job) ==
    load_next_probe_payload(job.run, job.read.manifest, job.read.metrics, job.read.report)
Card(job) ==
    card_from_run(job.read.manifest, job.read.metrics,
                  { Range(report.blockers) : report \in job.read.report })
Content(job, file) ==
    CASE file = "manifest" /\ job.sweep # {} -> SweepManifest(TheOne(job.sweep))
      [] file = "manifest" /\ job.sweep = {} -> IngestedManifest(TheOne(job.source))
      [] file = "metrics" -> IF job.sweep # {} THEN NoMetrics
                             ELSE Bundle[TheOne(job.source)].metrics
      [] file = "report" -> IF job.sweep # {} THEN SweepReport
                            ELSE IngestedReport(TheOne(job.source))
      [] file = "debt" /\ job.wrote.card = {} ->
           TheOne(Bundle[TheOne(job.source)].debt).items
      [] file = "debt" /\ job.wrote.card # {} -> TheOne(job.wrote.card).metadata.debt
      [] file = "next_probe" -> build_next_probe(Payload(job))
      [] file = "tree" -> diagnose_payload(Payload(job), UNION job.read.debt)
      [] file = "probe" -> materialize(TheOne(job.wrote.next_probe), TheOne(job.wrote.tree),
                                       Payload(job))
      [] file = "card" -> Card(job)

Kept == {"next_probe", "tree", "card"}
(* The rewrite of a report or a debt raises before it is written.               *)
Raises(job, file) ==
    \E s \in job.source :
        \/ file = "report" /\ \E report \in Bundle[s].report : report.stale
        \/ file = "debt" /\ job.wrote.card = {} /\ \E debt \in Bundle[s].debt : debt.bad

WriteFile(p) ==
    /\ Busy(p) /\ Head(jobs[p].todo).op = "write"
    /\ LET job == jobs[p]
           file == Head(job.todo).file
       IN  IF Raises(job, file) THEN Fail(p)
           ELSE /\ files' = [files EXCEPT ![job.run][file] = {Content(job, file)}]
                /\ origin' = [origin EXCEPT ![job.run][file] = job.of]
                /\ jobs' = [jobs EXCEPT ![p] =
                               IF Tail(job.todo) = << >> THEN Idle
                               ELSE [job EXCEPT
                                        !.wrote[file] = IF file \in Kept
                                                        THEN {Content(job, file)} ELSE {},
                                        !.read = EmptyDir, !.todo = Tail(@)]]
                /\ UNCHANGED << mixed, commands, crashes >>

(* Killed before its next step, or in the middle of a write.                    *)
Crash(p) ==
    /\ Busy(p) /\ crashes < MaxCrashes
    /\ \/ UNCHANGED << files, origin >>
       \/ LET run == jobs[p].run
              next == Head(jobs[p].todo)
          IN  /\ next.op = "write"
              /\ files' = [files EXCEPT ![run][next.file] = {Torn}]
              /\ origin' = [origin EXCEPT ![run][next.file] = {}]
    /\ jobs' = [jobs EXCEPT ![p] = Idle]
    /\ Abandoned(jobs[p])
    /\ crashes' = crashes + 1
    /\ UNCHANGED commands

Next ==
    \E p \in Procs :
        \/ \E s \in Sources : StartIngest(p, s)
        \/ \E run \in DOMAIN files, todo \in DerivedCommands : StartDerived(p, run, todo)
        \/ \E sweep \in Sweeps : StartSweep(p, sweep)
        \/ ReadFile(p) \/ run_probe(p) \/ WriteFile(p) \/ Crash(p)

Spec == Init /\ [][Next]_vars

-----------------------------------------------------------------------------
(* Directories are those of bundles and sweeps, a manifest lies in the directory *)
(* its run ref names, and a process has left to do what ends a command.         *)
AllCommands == { IngestBundle(s) : s \in Sources } \cup DerivedCommands \cup {WriteSweep}
TypeOK ==
    /\ \A run \in DOMAIN files :
         /\ IsSweep(run) \/ run \in { External(slug) : slug \in Slugs }
         /\ \A file \in FileNames : Cardinality(files[run][file]) <= 1
         /\ \A manifest \in files[run].manifest \ {Torn} :
              manifest.slug = IF IsSweep(run) THEN {} ELSE {run[2]}
    /\ DOMAIN origin = DOMAIN files
    /\ \A p \in Procs :
         \/ jobs[p] = Idle
         \/ Busy(p) /\ \E command \in AllCommands : \E k \in DOMAIN command :
                          jobs[p].todo = SubSeq(command, k, Len(command))
    /\ mixed \in [Slugs -> SUBSET (Sources \cup {Torn})]
    /\ commands \in 0 .. MaxCommands /\ crashes \in 0 .. MaxCrashes

(* Bundles whose run refs have one slug share a directory.  When an ingest has  *)
(* ended that no other overlapped, nothing of an earlier bundle, of a failed    *)
(* ingest or of a killed one is left in what the derived files are made of.     *)
IngestIsWhole ==
    \A run \in DOMAIN files : \A s \in Whole(run) :
        /\ files[run].manifest = {IngestedManifest(s)}
        /\ files[run].metrics = {Bundle[s].metrics}
        /\ files[run].report = {IngestedReport(s)}

(* A card of one bundle's files has the blockers the bundle reports, or those   *)
(* its metrics show if it reports none, and those of its policy report; it is   *)
(* above an association only if the bundle's status is and no control leaks,    *)
(* and never above the ceiling of the policy report.                            *)
CardTellsSource ==
    \A run \in DOMAIN files : \A s \in origin[run].card :
        \A card \in files[run].card :
            LET reported == UNION { Range(report.blockers) : report \in Bundle[s].report }
                found == IF reported # {} THEN reported
                         ELSE diagnose_blockers(Bundle[s].metrics)
                policy == Bundle[s].policy_report
            IN  /\ card.blockers = found \cup policy.blockers
                /\ card.evidence_tier # "association" =>
                       /\ Bundle[s].status \notin {{}, {"insufficient_evidence"}}
                       /\ "control_leaky" \notin found
                       /\ policy.claim_ceiling # "diagnostic_only"
                /\ policy.claim_ceiling \in ClaimTypes =>
                       claim_order(card.evidence_tier) <= claim_order(policy.claim_ceiling)

(* A plan, a tree and a probe come from three loads of the run.  A plan of one  *)
(* bundle names what is available and was not tried.  A probe, if all three     *)
(* loads are of one bundle, can be run only for a leaky control, and tries what *)
(* its plan's command names; its tree has the failed metrics and the primary    *)
(* blocker the bundle reports.                                                  *)
ProbeFollowsSource ==
    \A run \in DOMAIN files : \A s \in Sources :
        LET Named(plan) == plan.recommendation.axis # NoAxis =>
                plan.recommendation.value \in
                    Range(Bundle[s].available_axes[plan.recommendation.axis])
                    \ Range(Bundle[s].tried_axes[plan.recommendation.axis])
            report == IngestedReport(s)
        IN  /\ s \in origin[run].next_probe =>
                 \A plan \in files[run].next_probe : Named(plan)
            /\ s \in origin[run].probe => \A probe \in files[run].probe :
                 LET recommended == probe.plan.recommendation
                 IN  /\ probe.runnable =>
                          /\ Named(probe.plan)
                          /\ "control_leaky" \in
                               IF report.blockers # << >> THEN Range(report.blockers)
                               ELSE diagnose_blockers(Bundle[s].metrics)
                          /\ probe.axes = [NoAxes EXCEPT ![recommended.axis] =
                                              << recommended.value >>]
                     /\ probe.tree.negative_evidence.metrics = report.failing
                     /\ report.primary_blocker \subseteq {probe.tree.primary_blocker}

(* What a sweep writes is no evidence and leads no further, in whatever state   *)
(* its directory is read: a card of it is an association, its tree says that    *)
(* artifacts are missing, and its probe cannot be run, so probes do not chain.  *)
SweepsEarnNothing ==
    \A run \in DOMAIN files : IsSweep(run) =>
        /\ \A card \in files[run].card \ {Torn} : card.evidence_tier = "association"
        /\ \A tree \in files[run].tree \ {Torn} :
             tree.primary_blocker = "artifact_incomplete"
        /\ \A probe \in files[run].probe \ {Torn} : ~probe.runnable

(* docs/ADAPTERS.md:113: an ingest "must not convert imported artifacts into    *)
(* stronger evidence than their validated content supports".                    *)
Supported(s) ==
    card_from_run({IngestedManifest(s)}, {Bundle[s].metrics},
                  {Range(IngestedReport(s).blockers)}).evidence_tier
NothingStronger ==
    \A run \in DOMAIN files : \A card \in files[run].card \ {Torn} : ~IsSweep(run) =>
        \E s \in Sources : Bundle[s].slug = run[2]
                          /\ claim_order(card.evidence_tier) <= claim_order(Supported(s))
===============================================================================
