----------------------------- MODULE ClaimGrammar -----------------------------
(* Claim grammar (claim_grammar.py): which paper-facing claim types a card's    *)
(* evidence, blockers and debt allow.  A card is a record                       *)
(*   [evidence_tier, evidence, blockers, debt, metadata, policy_profile]        *)
(* whose evidence is {} (the key is absent) or {the listed items}, whose debt   *)
(* is a set of [unresolved, upgrade_to], upgrade_to "" when not named, and whose *)
(* metadata hold a list of blockers and one of debt of their own.  Lists are    *)
(* sets, an absent one the empty set: no verdict depends on their order.        *)
EXTENDS Naturals

CLAIM_ORDER ==
    [association |-> 0, projection |-> 1, causal_necessity |-> 2, causal_sufficiency |-> 3,
     mediation |-> 4, generalization |-> 5, mechanism |-> 6]
ClaimTypes == DOMAIN CLAIM_ORDER

claim_order(t) == IF t \in ClaimTypes THEN CLAIM_ORDER[t] ELSE 0

NecessityEvidence ==
    { "association", "static_projection_or_path_algebra", "causal_necessity",
      "specificity_controls", "telemetry_clean" }

CLAIM_REQUIREMENTS ==
    [association        |-> {"association"},
     projection         |-> {"association", "static_projection_or_path_algebra"},
     causal_necessity   |-> NecessityEvidence,
     causal_sufficiency |-> NecessityEvidence \cup {"causal_sufficiency"},
     mediation          |-> NecessityEvidence \cup {"mediation"},
     generalization     |-> NecessityEvidence \cup {"generalization_minimum"},
     mechanism          |-> NecessityEvidence \cup
         {"causal_sufficiency", "alternative_explanations_resolved", "generalization_minimum"}]

EvidenceItems == UNION { CLAIM_REQUIREMENTS[t] : t \in ClaimTypes }

(* Every tier brings just what a claim of that type requires.                   *)
TIER_EVIDENCE == CLAIM_REQUIREMENTS

BLOCKED_BY ==
    [metadata_mismatch           |-> ClaimTypes \ {"association"},
     backend_untrusted           |-> {"causal_necessity", "causal_sufficiency", "mediation",
                                      "mechanism"},
     control_leaky               |-> {"generalization", "mechanism"},
     off_manifold_intervention   |-> {"causal_necessity", "causal_sufficiency", "mechanism"},
     dictionary_interference     |-> {"mechanism"},
     self_repair_suspected       |-> {"mediation", "mechanism"},
     insufficient_heldout_generalization |-> {"generalization", "mechanism"},
     policy_generalization_required      |-> {"mechanism"}]

CAVEATED_BY ==
    [control_leaky               |-> {"causal_necessity", "causal_sufficiency", "mediation"},
     dictionary_interference     |-> {"projection", "causal_necessity"},
     self_repair_suspected       |-> {"causal_necessity", "causal_sufficiency"},
     insufficient_heldout_generalization |->
         {"causal_necessity", "causal_sufficiency", "mediation"}]

(* A blocker the tables do not name blocks and caveats nothing.                 *)
Blocks(b, t) == b \in DOMAIN BLOCKED_BY /\ t \in BLOCKED_BY[b]
Caveats(b, t) == b \in DOMAIN CAVEATED_BY /\ t \in CAVEATED_BY[b]

debt_blocks_claim(item, t) ==
    item.upgrade_to \in ClaimTypes /\ claim_order(t) >= claim_order(item.upgrade_to)

(* The card's own list is read or, where it is empty, that of its metadata: one *)
(* item in the first hides all of the second.                                   *)
OwnOrMetadata(own, other) == IF own # {} THEN own ELSE other

card_blockers(card) == OwnOrMetadata(card.blockers, card.metadata.blockers)
scientific_debt(card) ==
    { item \in OwnOrMetadata(card.debt, card.metadata.debt) : item.unresolved }

Evidence(card) ==
    IF card.evidence # {} THEN UNION card.evidence
    ELSE IF card.evidence_tier \in ClaimTypes THEN TIER_EVIDENCE[card.evidence_tier] ELSE {}

requirements_for_profile(t, profile) ==
    CLAIM_REQUIREMENTS[t] \
        (IF profile = "exploratory" /\ t = "mechanism" THEN {"generalization_minimum"} ELSE {})

(* The card's blockers, and the one the strict profile adds for the word        *)
(* "mechanism" without generalization.                                          *)
CheckedBlockers(card, t) ==
    card_blockers(card) \cup
        (IF /\ t = "mechanism" /\ card.policy_profile = "strict"
            /\ "generalization_minimum" \notin Evidence(card)
         THEN {"policy_generalization_required"} ELSE {})

(* Mutant: one met requirement is enough.                                       *)
Missing_Any(card, t) ==
    IF requirements_for_profile(t, card.policy_profile) \cap Evidence(card) # {} THEN {}
    ELSE requirements_for_profile(t, card.policy_profile)
Missing(card, t) == requirements_for_profile(t, card.policy_profile) \ Evidence(card)
BlockingBlockers(card, t) == { b \in CheckedBlockers(card, t) : Blocks(b, t) }
BlockingDebt(card, t) == { item \in scientific_debt(card) : debt_blocks_claim(item, t) }

required_caveats(card, t) ==
    \/ \E b \in CheckedBlockers(card, t) : Caveats(b, t)
    \/ \E item \in scientific_debt(card) :
         item.upgrade_to = "generalization" /\ claim_order(t) < claim_order("generalization")

Blocked(card, t) ==
    Missing(card, t) # {} \/ BlockingBlockers(card, t) # {} \/ BlockingDebt(card, t) # {}

(* Mutant: a caveat is looked for before a reason to block.                     *)
Status_CaveatFirst(card, t) ==
    IF required_caveats(card, t) THEN "caveated"
    ELSE IF Blocked(card, t) THEN "blocked" ELSE "allowed"
Status(card, t) ==
    IF Blocked(card, t) THEN "blocked"
    ELSE IF required_caveats(card, t) THEN "caveated" ELSE "allowed"

(* Mutant: unresolved debt does not lower the supported type.                   *)
supported_claim_type_NoDebt(evidence, blockers, debt) ==
    LET met == { t \in ClaimTypes : CLAIM_REQUIREMENTS[t] \subseteq evidence }
                   \cup {"association"}
        reach == { t \in ClaimTypes :
                     /\ \E s \in met : claim_order(t) <= claim_order(s)
                     /\ \A b \in blockers : ~Blocks(b, t) } \cup {"association"}
    IN  CHOOSE t \in reach : \A s \in reach : claim_order(s) <= claim_order(t)

(* supported_claim_type_for_evidence: the last type whose requirements are met, *)
(* then the highest one at or below it that no blocker or debt stops.           *)
supported_claim_type_for_evidence(evidence, blockers, debt) ==
    LET met == { t \in ClaimTypes : CLAIM_REQUIREMENTS[t] \subseteq evidence }
                   \cup {"association"}
        reach == { t \in ClaimTypes :
                     /\ \E s \in met : claim_order(t) <= claim_order(s)
                     /\ \A b \in blockers : ~Blocks(b, t)
                     /\ \A item \in debt : ~debt_blocks_claim(item, t) }
                   \cup {"association"}
    IN  CHOOSE t \in reach : \A s \in reach : claim_order(s) <= claim_order(t)

(* Mutant: the cap applies to mechanisms that do generalize.                    *)
cap_mechanism_Inverted(t, evidence) ==
    IF t # "mechanism" \/ "generalization_minimum" \notin evidence THEN t
    ELSE IF "causal_sufficiency" \in evidence THEN "causal_sufficiency" ELSE "causal_necessity"
cap_mechanism_without_generalization(t, evidence) ==
    IF t # "mechanism" \/ "generalization_minimum" \in evidence THEN t
    ELSE IF "causal_sufficiency" \in evidence THEN "causal_sufficiency" ELSE "causal_necessity"

SupportedType(card, t) ==
    LET s == supported_claim_type_for_evidence(
                 Evidence(card), CheckedBlockers(card, t), scientific_debt(card))
    IN  IF card.policy_profile = "strict"
        THEN cap_mechanism_without_generalization(s, Evidence(card)) ELSE s

(* check_claim                                                                  *)
check_claim(card, t) ==
    [claim_type |-> t, status |-> Status(card, t),
     evidence_tier |-> card.evidence_tier, policy_profile |-> card.policy_profile,
     supported_claim_type |-> SupportedType(card, t),
     blockers |-> IF BlockingBlockers(card, t) # {} THEN BlockingBlockers(card, t)
                  ELSE CheckedBlockers(card, t),
     required_caveats |-> required_caveats(card, t)]
===============================================================================
