------------------------------- MODULE MCRunCycle -------------------------------
EXTENDS RunCycle

Symmetric == Permutations(Procs)

MCAxes(layers, patch_modes) ==
    [axis \in Axes |-> IF axis = "layers" THEN layers ELSE patch_modes]
Clean == Metrics({10}, {1}, {9}, {})
Leaking == Metrics({10}, {9}, {1}, {})
Report(blockers, primary, failed, stale) ==
    [blockers |-> blockers, primary_blocker |-> {primary}, failing |-> failed,
     stale |-> stale]
Debt(bad) ==
    [items |-> {[kind |-> "heldout_generalization", unresolved |-> TRUE,
                 upgrade_to |-> ""]},
     bad |-> bad]

Base ==
    [slug |-> "a", fields |-> RequiredFields, status |-> {}, metrics |-> Leaking,
     policy_report |-> NoPolicy, report |-> {}, debt |-> {}, source_hypothesis_ref |-> {<< "hyp", "h" >>},
     tried_axes |-> MCAxes(<< "1" >>, << "mean" >>),
     available_axes |-> MCAxes(<< "1", "2" >>, << "mean", "direct" >>)]

(* One that leaks, without a report; one that reports another blocker as well,  *)
(* and has tried all layers; one under a policy that caps what it supports,     *)
(* whose debt cannot be rewritten; one that lacks metrics; one of a mechanism   *)
(* but for the blocker it reports, in a report that cannot be rewritten.        *)
MCBundle ==
    [leaky |-> Base,
     layered |-> [Base EXCEPT !.status = {"candidate_evidence"}, !.debt = {Debt(FALSE)},
                    !.report = {Report(<< "control_leaky", "dictionary_interference" >>,
                                       "dictionary_interference", {"family"}, FALSE)},
                    !.source_hypothesis_ref = {},
                    !.tried_axes = MCAxes(<< "1", "2" >>, << "mean" >>)],
     bad_debt |-> [Base EXCEPT !.status = {"candidate_evidence"}, !.metrics = Clean,
                    !.policy_report = [policy_profile |-> "strict",
                                       blockers |-> {"policy_generalization_required"},
                                       claim_ceiling |-> "projection"],
                    !.debt = {Debt(TRUE)}],
     invalid |-> [Base EXCEPT !.fields = {"run_ref"}],
     stale |-> [Base EXCEPT !.status = {"mechanism_supported"}, !.metrics = Clean,
                    !.report = {Report(<< "dictionary_interference" >>,
                                       "dictionary_interference", {}, TRUE)}]]
MCSweeps ==
    { [target_ref |-> << "hyp", "h" >>, axes |-> MCAxes(<< "1" >>, << >>),
       dry_run |-> FALSE] }
===============================================================================
