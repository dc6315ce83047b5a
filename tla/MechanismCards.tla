---------------------------- MODULE MechanismCards ----------------------------
(* What a run directory earns (workflows/blockers.py, workflows/cards.py): the  *)
(* blockers its metrics show and the evidence tier, blockers and forbidden      *)
(* language of its MechanismCard.  A JSON value that may be absent is {} or     *)
(* {the value}; deltas are integers; lists of blockers are sets.                *)
EXTENDS ClaimGrammar, Integers

(* control_metrics.json, and the empty object: what a missing file reads as.    *)
Metrics(target, control, gap, family) ==
    [target_delta |-> target, matched_control_delta |-> control,
     specificity_gap |-> gap, family_min_gap |-> family]
NoMetrics == Metrics({}, {}, {}, {})

(* Mutant: the leak test is strict, so a control at the very ratio passes.      *)
Leaky_Strict(target, control) == 10 * control > 8 * target
(* control >= target * 0.8, the control_leaky_ratio                             *)
Leaky(target, control) == 10 * control >= 8 * target

diagnose_blockers(metrics) ==
    (IF metrics.target_delta = {} \/ metrics.matched_control_delta = {}
     THEN {"artifact_incomplete"} ELSE {}) \cup
    (IF \/ \E t \in metrics.target_delta, c \in metrics.matched_control_delta : Leaky(t, c)
        \/ \E g \in metrics.family_min_gap : g <= 0
     THEN {"control_leaky"} ELSE {}) \cup
    (IF \E g \in metrics.specificity_gap : g <= 0
     THEN {"specificity_gap_failed"} ELSE {})

status_to_tier ==
    [projection_supported         |-> "projection",
     causal_necessity_supported   |-> "causal_necessity",
     causal_sufficiency_supported |-> "causal_sufficiency",
     mediation_supported          |-> "mediation",
     generalization_supported     |-> "generalization",
     mechanism_supported          |-> "mechanism"]

(* _evidence_tier: one status earns its tier only unblocked; candidate evidence *)
(* earns causal necessity with any blocker but a leaky control.                 *)
evidence_tier(status, blockers) ==
    IF "control_leaky" \in blockers THEN "association"
    ELSE IF status \in DOMAIN status_to_tier /\ blockers = {} THEN status_to_tier[status]
    ELSE IF status \in {"causal_necessity_supported", "candidate_evidence"}
         THEN "causal_necessity" ELSE "association"

(* _apply_claim_ceiling                                                         *)
apply_claim_ceiling(tier, ceiling) ==
    IF ceiling = "diagnostic_only" THEN "association"
    ELSE IF ceiling \in ClaimTypes /\ claim_order(ceiling) < claim_order(tier)
         THEN ceiling ELSE tier

CausalWords == {"causes", "is necessary for", "is sufficient for", "implements", "mechanism for"}

(* language_for_tier: what it forbids                                           *)
blocked_language(tier, blockers) ==
    (CASE tier \in {"association", "projection"} -> CausalWords
       [] tier = "causal_necessity" -> CausalWords \ {"causes", "is necessary for"}
       [] tier = "causal_sufficiency" -> {"implements", "mechanism for", "fully explains"}
       [] tier \in {"mediation", "generalization"} -> {"fully implements", "complete mechanism for"}
       [] OTHER -> {})
    \cup (IF "control_leaky" \in blockers
          THEN {"specificity", "implements", "mechanism for"} ELSE {})

(* scientific_debt_items: an item has neither a status nor an upgrade target.   *)
scientific_debt_items(blockers, status) ==
    { [kind |-> k, unresolved |-> FALSE, upgrade_to |-> ""] :
        k \in {"causal_sufficiency"}
          \cup (IF "control_leaky" \in blockers THEN {"controls"} ELSE {})
          \cup (IF \/ "insufficient_heldout_generalization" \in blockers
                   \/ status = "insufficient_evidence"
                THEN {"heldout_generalization"} ELSE {}) }

(* The blockers named policy_*                                                  *)
non_policy_blockers(blockers) == blockers \ {"policy_generalization_required"}

NoPolicy == [policy_profile |-> "strict", blockers |-> {}, claim_ceiling |-> ""]

(* card_from_run over what the three files hold: a manifest                     *)
(* [status, policy_report, ...], metrics, a set of reported blockers.  The      *)
(* metrics are diagnosed only when no blocker is reported.  The policy profile  *)
(* goes into the metadata, where the grammar does not look for it; the debt     *)
(* goes there alone, the blockers there and, by card_payload, beside them.      *)
card_from_run(manifest, metrics, report) ==
    LET reported == UNION report
        diagnosed ==
            IF reported # {} THEN reported
            ELSE diagnose_blockers(IF metrics = {} THEN NoMetrics ELSE CHOOSE m \in metrics : TRUE)
        read ==
            IF manifest = {} THEN [status |-> "insufficient_evidence", policy_report |-> NoPolicy]
            ELSE CHOOSE m \in manifest : TRUE
        blockers == diagnosed \cup read.policy_report.blockers
        tier == apply_claim_ceiling(evidence_tier(read.status, non_policy_blockers(diagnosed)),
                                    read.policy_report.claim_ceiling)
    IN  [evidence_tier |-> tier, evidence |-> {}, blockers |-> blockers, debt |-> {},
         metadata |-> [blockers |-> blockers,
                       debt |-> scientific_debt_items(blockers, read.status)],
         policy_profile |-> "strict",
         blocked_language |-> blocked_language(tier, blockers), required_caveats |-> FALSE]
===============================================================================
