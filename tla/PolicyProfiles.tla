---------------------------- MODULE PolicyProfiles ----------------------------
(* Policy profiles (policy_profiles.py): which verification operations a        *)
(* profile demands of a claim-bearing run, and the claim ceiling it sets.  The  *)
(* fields only the profile report prints are left out; operations are a set,    *)
(* since only membership is asked.  "" is None.                                 *)

BUILTIN_PROFILES ==
    [strict |->
        [zero_ablation_claim_ceiling |-> "diagnostic_only",
         require_resample_ablation_for_candidate |-> TRUE,
         require_noising_and_denoising |-> TRUE,
         require_generalization_for_mechanism_word |-> TRUE],
     exploratory |->
        [zero_ablation_claim_ceiling |-> "causal_necessity",
         require_resample_ablation_for_candidate |-> FALSE,
         require_noising_and_denoising |-> FALSE,
         require_generalization_for_mechanism_word |-> FALSE]]
Profiles == DOMAIN BUILTIN_PROFILES

Required(profile) ==
    (IF BUILTIN_PROFILES[profile].require_resample_ablation_for_candidate
     THEN {"resample_ablate"} ELSE {}) \cup
    (IF BUILTIN_PROFILES[profile].require_noising_and_denoising
     THEN {"noising", "denoising"} ELSE {})

missing_blocker ==
    [resample_ablate |-> "missing_resample_ablation", noising |-> "missing_noising",
     denoising |-> "missing_denoising"]

(* evaluate_verification: nothing is asked of a run that bears no claim.        *)
ZeroCapped(operations, claim_bearing) == claim_bearing /\ "zero_ablate" \in operations

policy_blockers(operations, claim_bearing, profile) ==
    (IF /\ ZeroCapped(operations, claim_bearing)
        /\ BUILTIN_PROFILES[profile].zero_ablation_claim_ceiling = "diagnostic_only"
     THEN {"zero_ablation_claim_ceiling"} ELSE {}) \cup
    (IF claim_bearing THEN { missing_blocker[op] : op \in Required(profile) \ operations }
     ELSE {})

claim_ceiling(operations, claim_bearing, profile) ==
    IF ZeroCapped(operations, claim_bearing)
    THEN BUILTIN_PROFILES[profile].zero_ablation_claim_ceiling ELSE ""

evaluate_verification(operations, claim_bearing, profile) ==
    [policy_profile |-> profile,
     blockers |-> policy_blockers(operations, claim_bearing, profile),
     claim_ceiling |-> claim_ceiling(operations, claim_bearing, profile)]
===============================================================================
