--------------------------- MODULE EvidencePipeline ---------------------------
(* The path of evidence from `mwb verify` through `mwb card` to `mwb            *)
(* draft-check` (workflows/verify.py, causal_verification.py, workflows/cards.py,*)
(* claim_grammar.py, workflows/draft_guard.py) for one hypothesis: hypotheses    *)
(* share no run directory.  A run directory is named by a hash of the operation *)
(* names and the posture, so verifying again with other numbers, thresholds or  *)
(* another profile writes into the same directory.  Each command writes its     *)
(* files one after another; commands of several processes interleave between    *)
(* any two writes and a process may die in the middle of one.  The SQLite rows  *)
(* the same commands insert are not modelled: none of these commands reads them. *)
EXTENDS DraftGuard, PolicyProfiles

CONSTANTS
    Procs,          \* the processes that may run a command
    Payloads,       \* the verify commands that may be issued
    Torn,           \* the content of a file whose writer was killed
    Sentences,      \* the draft sentences considered, each a set of phrases
    MaxCommands, MaxCrashes     \* bounds

(* A verify command: its prediction lock, what the static compiler says of the  *)
(* hypothesis, its flags, whether the hypothesis has a verification section and, *)
(* if so, its operations, whether their telemetry is off-manifold, the profile, *)
(* the section's own zero-ablation ceiling and the mean deltas it computes to.  *)
Payload ==
    [lock : BOOLEAN, static : {"missing", "fail", "pass"}, diagnostic_only : BOOLEAN,
     dry_run : BOOLEAN, verification : BOOLEAN,
     operations : SUBSET {"resample_ablate", "noising", "denoising", "feature_amplify",
                          "zero_ablate"},
     off_manifold : BOOLEAN, profile : Profiles,
     zero_ablation_claim_ceiling : {"diagnostic_only", "causal_necessity"},
     target_delta : Int, matched_control_delta : Int]

ASSUME PayloadAssumption == Payloads \subseteq Payload
ASSUME SentenceAssumption == Sentences \subseteq SUBSET Phrases
ASSUME PipelineBounds == MaxCommands \in Nat /\ MaxCrashes \in Nat

-----------------------------------------------------------------------------
(* What a verify command computes before it writes.                             *)

(* Mutants: the lock, or the static report, is not asked for.                   *)
gate_blockers_NoLock(in) ==
    IF in.diagnostic_only THEN {}
    ELSE IF in.static = "missing" THEN {"static_compiler_missing"}
    ELSE IF in.static = "fail" THEN {"static_compiler_failed"} ELSE {}
gate_blockers_NoStatic(in) ==
    IF in.diagnostic_only \/ in.lock THEN {} ELSE {"prediction_lock_missing"}

(* run_verify: why the gate refuses, if it does                                 *)
gate_blockers(in) ==
    IF in.diagnostic_only THEN {}
    ELSE IF ~in.lock THEN {"prediction_lock_missing"}
    ELSE IF in.static = "missing" THEN {"static_compiler_missing"}
    ELSE IF in.static = "fail" THEN {"static_compiler_failed"} ELSE {}

gate_posture(in) == IF in.diagnostic_only THEN "diagnostic_only" ELSE "claim_bearing"

Kind(in) ==
    IF gate_blockers(in) # {} THEN "blocked"
    ELSE IF in.verification THEN "operations" ELSE "minimal"

run_ref(in) ==
    CASE Kind(in) = "blocked"    -> << "blocked", gate_blockers(in), in.dry_run >>
      [] Kind(in) = "minimal"    -> << "minimal", {}, in.dry_run >>
      [] Kind(in) = "operations" -> << "operations", in.operations,
             IF in.dry_run THEN "dry_run" ELSE gate_posture(in) >>
RunRefs == { run_ref(in) : in \in Payloads }

policy_report(in) ==
    IF Kind(in) = "operations"
    THEN evaluate_verification(in.operations, ~in.diagnostic_only /\ ~in.dry_run, in.profile)
    ELSE NoPolicy

(* The blockers of the operations: telemetry over a threshold, zero ablation    *)
(* under the section's own ceiling.                                             *)
operation_blockers(in) ==
    (IF in.operations # {} /\ in.off_manifold THEN {"off_manifold_intervention"} ELSE {}) \cup
    (IF /\ ~in.diagnostic_only /\ "zero_ablate" \in in.operations
        /\ in.zero_ablation_claim_ceiling = "diagnostic_only"
     THEN {"zero_ablation_claim_ceiling"} ELSE {})

blockers(in) ==
    CASE Kind(in) = "blocked"    -> gate_blockers(in)
      [] Kind(in) = "minimal"    -> IF in.dry_run THEN {"artifact_incomplete"} ELSE {}
      [] Kind(in) = "operations" -> operation_blockers(in) \cup policy_report(in).blockers

zero_capped(in) == "zero_ablation_claim_ceiling" \in blockers(in)

(* Mutant: the blockers do not lower the status.                                *)
status_Unblocked(in) ==
    IF Kind(in) = "blocked" THEN "blocked"
    ELSE IF Kind(in) = "minimal" THEN IF in.dry_run THEN "dry_run" ELSE "planned"
    ELSE IF zero_capped(in) THEN "diagnostic_only"
    ELSE IF in.dry_run THEN "dry_run"
    ELSE IF in.diagnostic_only THEN "diagnostic_only" ELSE "candidate_evidence"

status(in) ==
    IF Kind(in) = "blocked" THEN "blocked"
    ELSE IF Kind(in) = "minimal" THEN IF in.dry_run THEN "dry_run" ELSE "planned"
    ELSE IF zero_capped(in) THEN "diagnostic_only"
    ELSE IF blockers(in) # {} THEN "insufficient_evidence"
    ELSE IF in.dry_run THEN "dry_run"
    ELSE IF in.diagnostic_only THEN "diagnostic_only" ELSE "candidate_evidence"

evidence_posture(in) ==
    IF Kind(in) = "blocked" THEN "blocked"
    ELSE IF zero_capped(in) THEN "diagnostic_only" ELSE gate_posture(in)

claim_bearing(in) == Kind(in) = "operations" /\ evidence_posture(in) = "claim_bearing"

metrics(in) ==
    IF Kind(in) = "operations" /\ in.operations # {}
    THEN Metrics({in.target_delta}, {in.matched_control_delta},
                 {in.target_delta - in.matched_control_delta}, {})
    ELSE NoMetrics

(* run_manifest.json.  "by" is a history field here and below: the command that *)
(* wrote the content.                                                           *)
Manifest(in) ==
    [status |-> status(in), claim_bearing |-> claim_bearing(in),
     policy_report |-> policy_report(in), by |-> in]

(* intervention_receipts.jsonl: which operations, and whether a backend ran them *)
Receipts(in) ==
    [operations |-> IF Kind(in) = "operations" THEN in.operations ELSE {},
     backend_executed |-> Kind(in) = "operations" /\ ~in.dry_run, by |-> in]

-----------------------------------------------------------------------------
VARIABLES
    run_dirs,       \* the run directories that exist
    files,          \* of each run: manifest, metrics, receipts and blocker report in
                    \* its directory, its card there and under claims/, and the grammar
                    \* report of its claim; {} or {content}
    jobs,           \* what each process is doing
    commands, crashes

vars == << run_dirs, files, jobs, commands, crashes >>

FileNames == {"manifest", "metrics", "receipts", "report", "card", "claim", "grammar"}

(* A process is idle or about to take the step its job names: the file it is to *)
(* write next, or the one it is to read.                                        *)
Idle == [step |-> "idle"]
VerifyJob(step, in) == [step |-> step, by |-> in]
CardJob(step, ref, manifest, measured, report) ==
    [step |-> step, ref |-> ref, manifest |-> manifest, metrics |-> measured, report |-> report]
CheckJob(ref, report, by) == [step |-> "grammar", ref |-> ref, report |-> report, by |-> by]

Init ==
    /\ run_dirs = {}
    /\ files = [r \in RunRefs |->
                   [manifest |-> {}, metrics |-> {}, receipts |-> {}, report |-> {},
                    card |-> {}, claim |-> {}, grammar |-> {}]]
    /\ jobs = [p \in Procs |-> Idle]
    /\ commands = 0 /\ crashes = 0

Issue(p) ==
    /\ jobs[p] = Idle /\ commands < MaxCommands
    /\ commands' = commands + 1
    /\ UNCHANGED crashes

Put(ref, file, content) == files' = [files EXCEPT ![ref][file] = {content}]
Goto(p, job) == jobs' = [jobs EXCEPT ![p] = job]

(* verify_payload up to mkdir(run_dir): all is computed before a file is written. *)
Verify(p, in) ==
    /\ Issue(p)
    /\ run_dirs' = run_dirs \cup {run_ref(in)}
    /\ Goto(p, VerifyJob("manifest", in))
    /\ UNCHANGED files

(* _write_artifacts.  verification_run.json, verification_results.jsonl and     *)
(* telemetry.jsonl, which no command here reads back, are left out.             *)
WriteManifest(p) ==
    /\ jobs[p].step = "manifest"
    /\ Put(run_ref(jobs[p].by), "manifest", Manifest(jobs[p].by))
    /\ Goto(p, VerifyJob("metrics", jobs[p].by))
    /\ UNCHANGED << run_dirs, commands, crashes >>

(* Mutant: the manifest is written under the name of the metrics.               *)
WriteMetrics_Manifest(p) ==
    /\ jobs[p].step = "metrics"
    /\ Put(run_ref(jobs[p].by), "metrics", Manifest(jobs[p].by))
    /\ Goto(p, VerifyJob("receipts", jobs[p].by))
    /\ UNCHANGED << run_dirs, commands, crashes >>

WriteMetrics(p) ==
    /\ jobs[p].step = "metrics"
    /\ Put(run_ref(jobs[p].by), "metrics", [values |-> metrics(jobs[p].by), by |-> jobs[p].by])
    /\ Goto(p, VerifyJob("receipts", jobs[p].by))
    /\ UNCHANGED << run_dirs, commands, crashes >>

(* A run without blockers ends here and leaves blocker_report.json as it was.   *)
WriteReceipts(p) ==
    /\ jobs[p].step = "receipts"
    /\ Put(run_ref(jobs[p].by), "receipts", Receipts(jobs[p].by))
    /\ Goto(p, IF blockers(jobs[p].by) # {} THEN VerifyJob("report", jobs[p].by) ELSE Idle)
    /\ UNCHANGED << run_dirs, commands, crashes >>

WriteReport(p) ==
    /\ jobs[p].step = "report"
    /\ Put(run_ref(jobs[p].by), "report", [blockers |-> blockers(jobs[p].by), by |-> jobs[p].by])
    /\ Goto(p, Idle)
    /\ UNCHANGED << run_dirs, commands, crashes >>

(* `mwb card <run>`: three reads, any of which ends the command when the file   *)
(* does not parse, then the card in the run directory, then the claim.          *)
Card(p, ref) ==
    /\ Issue(p)
    /\ ref \in run_dirs
    /\ Goto(p, CardJob("read_manifest", ref, {}, {}, {}))
    /\ UNCHANGED << run_dirs, files >>

ReadManifest(p) ==
    /\ jobs[p].step = "read_manifest"
    /\ LET content == files[jobs[p].ref].manifest
       IN  Goto(p, IF Torn \in content THEN Idle
                   ELSE CardJob("read_metrics", jobs[p].ref, content, {}, {}))
    /\ UNCHANGED << run_dirs, files, commands, crashes >>

ReadMetrics(p) ==
    /\ jobs[p].step = "read_metrics"
    /\ LET content == files[jobs[p].ref].metrics
       IN  Goto(p, IF Torn \in content THEN Idle
                   ELSE CardJob("read_report", jobs[p].ref, jobs[p].manifest, content, {}))
    /\ UNCHANGED << run_dirs, files, commands, crashes >>

ReadReport(p) ==
    /\ jobs[p].step = "read_report"
    /\ LET content == files[jobs[p].ref].report
       IN  Goto(p, IF Torn \in content THEN Idle
                   ELSE CardJob("card", jobs[p].ref, jobs[p].manifest, jobs[p].metrics, content))
    /\ UNCHANGED << run_dirs, files, commands, crashes >>

Sources(job) ==
    [manifest |-> { m.by : m \in job.manifest }, metrics |-> { m.by : m \in job.metrics },
     report |-> { r.by : r \in job.report }]
MechanismCard(job) ==
    [card |-> card_from_run(job.manifest, { m.values : m \in job.metrics },
                            { r.blockers : r \in job.report }),
     by |-> Sources(job)]

(* write_card: mechanism_card.json (and the two files beside it), then the card *)
(* under cards/ and claims/.                                                    *)
WriteCard(p) ==
    /\ jobs[p].step = "card"
    /\ Put(jobs[p].ref, "card", MechanismCard(jobs[p]))
    /\ Goto(p, [jobs[p] EXCEPT !.step = "claim"])
    /\ UNCHANGED << run_dirs, commands, crashes >>

PublishClaim(p) ==
    /\ jobs[p].step = "claim"
    /\ Put(jobs[p].ref, "claim", MechanismCard(jobs[p]))
    /\ Goto(p, Idle)
    /\ UNCHANGED << run_dirs, commands, crashes >>

(* `mwb claim check` on a claim file that embeds the card under claims/: the    *)
(* report is computed, then written as claims/<claim_ref>_grammar_report.json.  *)
ClaimCheck(p, ref, t, profile) ==
    /\ Issue(p)
    /\ \E claim \in files[ref].claim \ {Torn} :
         Goto(p, CheckJob(ref, check_claim([claim.card EXCEPT !.policy_profile = profile], t),
                          claim.by))
    /\ UNCHANGED << run_dirs, files >>

WriteGrammar(p) ==
    /\ jobs[p].step = "grammar"
    /\ Put(jobs[p].ref, "grammar", [report |-> jobs[p].report, by |-> jobs[p].by])
    /\ Goto(p, Idle)
    /\ UNCHANGED << run_dirs, commands, crashes >>

(* The process is killed between two steps, or in the middle of a write.        *)
Crash(p) ==
    /\ jobs[p] # Idle /\ crashes < MaxCrashes
    /\ \/ UNCHANGED files
       \/ jobs[p].step \in {"manifest", "metrics", "receipts", "report"}
          /\ Put(run_ref(jobs[p].by), jobs[p].step, Torn)
       \/ jobs[p].step \in {"card", "claim", "grammar"} /\ Put(jobs[p].ref, jobs[p].step, Torn)
    /\ Goto(p, Idle)
    /\ crashes' = crashes + 1
    /\ UNCHANGED << run_dirs, commands >>

Step(p) ==
    \/ \E in \in Payloads : Verify(p, in)
    \/ WriteManifest(p) \/ WriteMetrics(p) \/ WriteReceipts(p) \/ WriteReport(p)
    \/ \E ref \in RunRefs : Card(p, ref)
    \/ ReadManifest(p) \/ ReadMetrics(p) \/ ReadReport(p) \/ WriteCard(p) \/ PublishClaim(p)
    \/ \E ref \in RunRefs, t \in ClaimTypes, profile \in Profiles : ClaimCheck(p, ref, t, profile)
    \/ WriteGrammar(p) \/ Crash(p)

Next == \E p \in Procs : Step(p)

Spec == Init /\ [][Next]_vars

-----------------------------------------------------------------------------
(* load_claim_cards: each JSON file under claims/ claims its ref, in the order  *)
(* the directory lists them, so a tag resolves to the card or, as if it were    *)
(* one, to the grammar report.  A file that does not parse ends the check.      *)
as_card(report) ==
    [evidence_tier |-> report.evidence_tier, evidence |-> {}, blockers |-> report.blockers,
     debt |-> {}, metadata |-> [blockers |-> {}, debt |-> {}],
     policy_profile |-> report.policy_profile, blocked_language |-> {},
     required_caveats |-> report.required_caveats]
Resolved(ref) ==
    IF \E r \in RunRefs : Torn \in files[r].claim \cup files[r].grammar THEN {}
    ELSE files[ref].claim
         \cup { [card |-> as_card(g.report), by |-> g.by] : g \in files[ref].grammar }

-----------------------------------------------------------------------------
Blockers ==
    {"prediction_lock_missing", "static_compiler_missing", "static_compiler_failed",
     "off_manifold_intervention", "zero_ablation_claim_ceiling", "missing_resample_ablation",
     "missing_noising", "missing_denoising", "artifact_incomplete", "control_leaky",
     "specificity_gap_failed"}
BlockedPhrases ==
    CausalWords \cup {"fully explains", "fully implements", "complete mechanism for", "specificity"}
CardPayload ==
    [evidence_tier : ClaimTypes, evidence : {{}}, blockers : SUBSET Blockers, debt : {{}},
     metadata : [blockers : SUBSET Blockers,
                 debt : SUBSET [kind : {"causal_sufficiency", "controls",
                                        "heldout_generalization"},
                                unresolved : {FALSE}, upgrade_to : {""}]],
     policy_profile : {"strict"}, blocked_language : SUBSET BlockedPhrases,
     required_caveats : {FALSE}]
Provenance ==
    [manifest : SUBSET Payloads, metrics : SUBSET Payloads, report : SUBSET Payloads]
CardContent == [card : CardPayload, by : Provenance]
GrammarReport ==
    [claim_type : ClaimTypes, status : {"blocked", "caveated", "allowed"},
     evidence_tier : ClaimTypes, policy_profile : Profiles, supported_claim_type : ClaimTypes,
     blockers : SUBSET (Blockers \cup {"policy_generalization_required"}),
     required_caveats : BOOLEAN]
GrammarContent == [report : GrammarReport, by : Provenance]

(* The contents a run's files may have, besides Torn.                           *)
Ran(ref, in) == in \in Payloads /\ run_ref(in) = ref
ManifestOf(ref, m) == Ran(ref, m.by) /\ m = Manifest(m.by)
MetricsOf(ref, m) == Ran(ref, m.by) /\ m = [values |-> metrics(m.by), by |-> m.by]
ReceiptsOf(ref, r) == Ran(ref, r.by) /\ r = Receipts(r.by)
ReportOf(ref, r) == Ran(ref, r.by) /\ r = [blockers |-> blockers(r.by), by |-> r.by]

Fits(ref, f, x) ==
    /\ f = "manifest" => ManifestOf(ref, x)
    /\ f = "metrics" => MetricsOf(ref, x)
    /\ f = "receipts" => ReceiptsOf(ref, x)
    /\ f = "report" => ReportOf(ref, x)
    /\ f \in {"card", "claim"} => x \in CardContent
    /\ f = "grammar" => x \in GrammarContent

AtMostOne(S) == \A x, y \in S : x = y
RunFilesOK(ref) ==
    /\ DOMAIN files[ref] = FileNames
    /\ \A f \in FileNames :
        /\ AtMostOne(files[ref][f])
        /\ \A x \in files[ref][f] \ {Torn} : Fits(ref, f, x)

VerifySteps == {"manifest", "metrics", "receipts", "report"}
CardSteps == {"read_manifest", "read_metrics", "read_report", "card", "claim"}
JobOK(job) ==
    /\ job.step \in {"idle", "grammar"} \cup VerifySteps \cup CardSteps
    /\ job.step = "idle" => job = Idle
    /\ job.step \in VerifySteps => job.by \in Payloads /\ job = VerifyJob(job.step, job.by)
    /\ job.step \in CardSteps =>
        /\ job.ref \in RunRefs
        /\ AtMostOne(job.manifest) /\ AtMostOne(job.metrics) /\ AtMostOne(job.report)
        /\ \A m \in job.manifest : ManifestOf(job.ref, m)
        /\ \A m \in job.metrics : MetricsOf(job.ref, m)
        /\ \A r \in job.report : ReportOf(job.ref, r)
        /\ job = CardJob(job.step, job.ref, job.manifest, job.metrics, job.report)
    /\ job.step = "grammar" =>
        /\ job.ref \in RunRefs /\ job.report \in GrammarReport /\ job.by \in Provenance
        /\ job = CheckJob(job.ref, job.report, job.by)

(* Every file holds what its writers put there or was torn by a crash, and a    *)
(* run directory holds only what commands that hash to its name wrote.          *)
TypeOK ==
    /\ run_dirs \subseteq RunRefs
    /\ DOMAIN files = RunRefs /\ \A ref \in RunRefs : RunFilesOK(ref)
    /\ DOMAIN jobs = Procs /\ \A p \in Procs : JobOK(jobs[p])
    /\ commands \in 0 .. MaxCommands
    /\ crashes \in 0 .. MaxCrashes

(* The command passed every gate between a hypothesis and causal evidence: a    *)
(* lock, a passing static report, a real run, on-manifold telemetry, and the    *)
(* operations its profile asks for.                                             *)
Gated(in) ==
    /\ in.lock /\ in.static = "pass" /\ in.verification
    /\ ~in.diagnostic_only /\ ~in.dry_run
    /\ in.operations # {} => ~in.off_manifold
    /\ in.profile = "strict" => {"resample_ablate", "noising", "denoising"} \subseteq in.operations
    /\ "zero_ablate" \in in.operations =>
         in.profile = "exploratory" /\ in.zero_ablation_claim_ceiling # "diagnostic_only"

(* Whatever is written over what, by whom, and wherever a command dies, a card  *)
(* or claim says more than "association" only of a manifest whose own command   *)
(* passed every gate.                                                           *)
Causal(content) == content # Torn /\ content.card.evidence_tier # "association"
CausalNeedsGate ==
    \A ref \in RunRefs : \A c \in files[ref].card \cup files[ref].claim :
        Causal(c) => \E in \in c.by.manifest : Gated(in)

(* A sentence the guard lets pass says more than an association by the marker   *)
(* of a claim type, through a card or through a grammar report however old, or  *)
(* by a word that association cards forbid, through a card: then the card leads *)
(* back to a command that passed every gate.  "causes" has no marker and a      *)
(* report no list of forbidden words, so through a report "causes" passes over  *)
(* an association; and "fully explains" no association card forbids.            *)
SaysMore(x, ref, phrases) ==
    \/ infer_claim_type(phrases) # "association"
    \/ x \in files[ref].claim /\ phrases \cap CausalWords # {}
AllowedDraftNeedsGate ==
    \A ref \in RunRefs : \A x \in Resolved(ref) : \A phrases \in Sentences :
        /\ SaysMore(x, ref, phrases)
        /\ check_sentence(x.card, phrases, TRUE) = "allowed"
        => \E in \in x.by.manifest : Gated(in)

(* A manifest bears a claim only if its command had a lock and a passing static *)
(* report and was not diagnostic.                                               *)
ClaimBearingNeedsGate ==
    \A ref \in RunRefs : \A m \in files[ref].manifest \ {Torn} :
        m.claim_bearing => m.by.lock /\ m.by.static = "pass" /\ ~m.by.diagnostic_only

(* A card made from the files of one command, and no report of another, is      *)
(* causal only if that command's control moved less than 0.8 of its target.     *)
CleanControls(in) == 5 * in.matched_control_delta < 4 * in.target_delta
CausalNeedsControls ==
    \A ref \in RunRefs : \A c \in files[ref].card \cup files[ref].claim :
        Causal(c) /\ c.by.report = {} /\ c.by.metrics = c.by.manifest =>
            \A in \in c.by.metrics : in.operations # {} => CleanControls(in)

-----------------------------------------------------------------------------
(* What the documentation says and the code does not keep.                      *)

(* "`causal_necessity` only when a claim-bearing run has ... clean controls":   *)
(* the metrics a causal card was made from show clean controls.                 *)
CausalHasCleanControls ==
    \A ref \in RunRefs : \A c \in files[ref].claim :
        Causal(c) => \A in \in c.by.metrics : in.operations # {} => CleanControls(in)
===============================================================================
