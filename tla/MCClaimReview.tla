---------------------------- MODULE MCClaimReview ----------------------------
EXTENDS ClaimReview

StartCard(tier, evidence, profile) ==
    [evidence_tier |-> tier, evidence |-> evidence, blockers |-> {}, debt |-> {},
     metadata |-> [blockers |-> {}, debt |-> {}], policy_profile |-> profile]

(* Cards with the evidence their tier implies, and cards with a list of their   *)
(* own, under both profiles.                                                    *)
MCCards ==
    { StartCard(t, {}, profile) : t \in ClaimTypes, profile \in {"strict", "exploratory"} }
    \cup { StartCard("association",
                     {{ "association", "static_projection_or_path_algebra",
                        "specificity_controls", "telemetry_clean" }}, profile) : profile \in {"strict", "exploratory"} }
MCItems == EvidenceItems
(* One blocker of each kind: what stops all but association, what stops causal  *)
(* claims, what stops the strongest and caveats weaker ones.                    *)
MCFindings ==
    { "metadata_mismatch", "off_manifold_intervention", "control_leaky",
      "dictionary_interference", "self_repair_suspected" }
MCUpgrades == {"", "causal_sufficiency", "generalization"}
==============================================================================
