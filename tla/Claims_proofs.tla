----------------------------- MODULE Claims_proofs -----------------------------
(* What may be claimed: of one card under review, for every card, and of the    *)
(* cards of the pipeline, for every set of commands, any number of processes    *)
(* and any number of crashes.                                                   *)
EXTENDS ClaimReview, EvidencePipeline, TLAPS

-----------------------------------------------------------------------------
(* How the claim grammar's judgement moves with a card's evidence, blockers and *)
(* debt.                                                                        *)

(* The claim types and their order.                                             *)
LEMMA Orders ==
    /\ ClaimTypes = {"association", "projection", "causal_necessity", "causal_sufficiency",
                     "mediation", "generalization", "mechanism"}
    /\ claim_order("association") = 0 /\ claim_order("projection") = 1
    /\ claim_order("causal_necessity") = 2 /\ claim_order("causal_sufficiency") = 3
    /\ claim_order("mediation") = 4 /\ claim_order("generalization") = 5
    /\ claim_order("mechanism") = 6
<1>1. ClaimTypes = {"association", "projection", "causal_necessity", "causal_sufficiency",
                    "mediation", "generalization", "mechanism"}
  BY DEF ClaimTypes, CLAIM_ORDER
<1> QED
  BY <1>1 DEF claim_order, CLAIM_ORDER

(* A set of types with "association" in it has a strongest one.                 *)
LEMMA HasStrongest ==
    ASSUME NEW S \in SUBSET ClaimTypes, "association" \in S
    PROVE  \E t \in S : \A s \in S : claim_order(s) <= claim_order(t)
<1>1. CASE "mechanism" \in S
  BY <1>1, Orders
<1>2. CASE "mechanism" \notin S /\ "generalization" \in S
  BY <1>2, Orders
<1>3. CASE {"mechanism", "generalization"} \cap S = {} /\ "mediation" \in S
  BY <1>3, Orders
<1>4. CASE {"mechanism", "generalization", "mediation"} \cap S = {} /\ "causal_sufficiency" \in S
  BY <1>4, Orders
<1>5. CASE S \subseteq {"association", "projection", "causal_necessity"}
  BY <1>5, Orders
<1> QED
  BY <1>1, <1>2, <1>3, <1>4, <1>5, Orders

-----------------------------------------------------------------------------
(* The supported claim type.                                                    *)
Met(E) == { t \in ClaimTypes : CLAIM_REQUIREMENTS[t] \subseteq E } \cup {"association"}
Reach(E, B, D) ==
    { t \in ClaimTypes : /\ \E s \in Met(E) : claim_order(t) <= claim_order(s)
                         /\ \A b \in B : ~Blocks(b, t)
                         /\ \A item \in D : ~debt_blocks_claim(item, t) } \cup {"association"}

(* The supported type is the highest of the reachable ones, and one of the      *)
(* claim types.                                                                 *)
LEMMA Supported ==
    ASSUME NEW E, NEW B, NEW D
    PROVE  LET s == supported_claim_type_for_evidence(E, B, D)
           IN  /\ s \in Reach(E, B, D) /\ s \in ClaimTypes
               /\ \A u \in Reach(E, B, D) : claim_order(u) <= claim_order(s)
<1>1. Reach(E, B, D) \in SUBSET ClaimTypes /\ "association" \in Reach(E, B, D)
  BY Orders DEF Reach
<1>2. supported_claim_type_for_evidence(E, B, D) =
        CHOOSE t \in Reach(E, B, D) : \A s \in Reach(E, B, D) : claim_order(s) <= claim_order(t)
  BY DEF supported_claim_type_for_evidence, Reach, Met
<1> QED
  BY <1>1, <1>2, HasStrongest

(* Only evidence of generalization supports "mechanism", so the cap the strict  *)
(* profile puts on it never applies.                                            *)
LEMMA MechanismGeneralizes ==
    ASSUME NEW E, NEW B, NEW D, supported_claim_type_for_evidence(E, B, D) = "mechanism"
    PROVE  "generalization_minimum" \in E
<1>1. "mechanism" \in Reach(E, B, D)
  BY Supported
<1>2. PICK s \in Met(E) : claim_order("mechanism") <= claim_order(s)
  BY <1>1 DEF Reach
<1>3. s = "mechanism"
  BY <1>2, Orders DEF Met
<1>4. CLAIM_REQUIREMENTS["mechanism"] \subseteq E
  BY <1>2, <1>3 DEF Met
<1> QED
  BY <1>4 DEF CLAIM_REQUIREMENTS

(* What a report says of a card's support: the types its evidence, blockers and *)
(* debt leave reachable.                                                        *)
LEMMA SupportedIs ==
    ASSUME NEW c, NEW t
    PROVE  SupportedType(c, t) =
             supported_claim_type_for_evidence(Evidence(c), CheckedBlockers(c, t),
                                               scientific_debt(c))
BY MechanismGeneralizes DEF SupportedType, cap_mechanism_without_generalization

(* Less to reach, less supported.                                               *)
LEMMA ReachMonotone ==
    ASSUME NEW E1, NEW B1, NEW D1, NEW E2, NEW B2, NEW D2,
           E2 \subseteq E1, B1 \subseteq B2, D1 \subseteq D2
    PROVE  claim_order(supported_claim_type_for_evidence(E2, B2, D2)) <=
           claim_order(supported_claim_type_for_evidence(E1, B1, D1))
<1>1. Met(E2) \subseteq Met(E1)
  BY DEF Met
<1>2. Reach(E2, B2, D2) \subseteq Reach(E1, B1, D1)
  BY <1>1 DEF Reach
<1> QED
  BY <1>2, Supported

-----------------------------------------------------------------------------
(* The verdict.                                                                 *)
LEMMA VerdictMonotone ==
    ASSUME NEW old, NEW new, NEW t,
           Missing(old, t) \subseteq Missing(new, t),
           CheckedBlockers(old, t) \subseteq CheckedBlockers(new, t),
           scientific_debt(old) \subseteq scientific_debt(new)
    PROVE  Rank(Status(new, t)) <= Rank(Status(old, t))
<1>1. Blocked(old, t) => Blocked(new, t)
  BY DEF Blocked, BlockingBlockers, BlockingDebt
<1>2. required_caveats(old, t) => required_caveats(new, t)
  BY DEF required_caveats
<1>3. Rank("allowed") = 2 /\ Rank("caveated") = 1 /\ Rank("blocked") = 0
  BY DEF Rank
<1> QED
  BY <1>1, <1>2, <1>3 DEF Status

(* A card with more blockers or debt in the lists that are read fares no        *)
(* better, in verdict or supported type.                                        *)
LEMMA DoubtWeakens ==
    ASSUME NEW old, NEW new, Doubted(old, new)
    PROVE  NoBetter(old, new)
<1> SUFFICES ASSUME NEW t \in ClaimTypes
             PROVE  /\ Rank(Status(new, t)) <= Rank(Status(old, t))
                    /\ claim_order(SupportedType(new, t)) <= claim_order(SupportedType(old, t))
  BY DEF NoBetter
<1>1. Evidence(new) = Evidence(old)
  BY DEF Doubted, SameBasis, Evidence
<1>2. Missing(old, t) = Missing(new, t)
  BY <1>1 DEF Missing, Doubted, SameBasis
<1>3. CheckedBlockers(old, t) \subseteq CheckedBlockers(new, t)
  BY <1>1 DEF CheckedBlockers, Doubted, SameBasis
<1>4. scientific_debt(old) \subseteq scientific_debt(new)
  BY DEF Doubted
<1> QED
  BY <1>1, <1>2, <1>3, <1>4, VerdictMonotone, SupportedIs, ReachMonotone

(* A card with more evidence fares no worse.                                    *)
LEMMA EvidenceStrengthens ==
    ASSUME NEW old, NEW new, Corroborated(old, new)
    PROVE  NoBetter(new, old)
<1> SUFFICES ASSUME NEW t \in ClaimTypes
             PROVE  /\ Rank(Status(old, t)) <= Rank(Status(new, t))
                    /\ claim_order(SupportedType(old, t)) <= claim_order(SupportedType(new, t))
  BY DEF NoBetter
<1>1. Evidence(old) \subseteq Evidence(new)
  BY DEF Corroborated
<1>2. Missing(new, t) \subseteq Missing(old, t)
  BY <1>1 DEF Missing, Corroborated, SameBasis
<1>3. CheckedBlockers(new, t) \subseteq CheckedBlockers(old, t)
  BY <1>1 DEF CheckedBlockers, Corroborated, SameBasis
<1>4. scientific_debt(new) = scientific_debt(old)
  BY DEF Corroborated
<1> QED
  BY <1>1, <1>2, <1>3, <1>4, VerdictMonotone, SupportedIs, ReachMonotone

-----------------------------------------------------------------------------
(* A card edited in one field, to a value of that field, is a card.              *)
LEMMA Edited ==
    ASSUME NEW c \in ReviewedCard
    PROVE  /\ c.blockers \subseteq Findings /\ c.metadata.blockers \subseteq Findings
           /\ c.debt \subseteq DebtItem /\ c.metadata.debt \subseteq DebtItem
           /\ \A e \in SUBSET SUBSET EvidenceItems : [c EXCEPT !.evidence = e] \in ReviewedCard
           /\ \A B \in SUBSET Findings :
                /\ [c EXCEPT !.blockers = B] \in ReviewedCard
                /\ [c EXCEPT !.metadata.blockers = B] \in ReviewedCard
           /\ \A D \in SUBSET DebtItem :
                /\ [c EXCEPT !.debt = D] \in ReviewedCard
                /\ [c EXCEPT !.metadata.debt = D] \in ReviewedCard
<1> USE DEF ReviewedCard
<1>1. /\ c.blockers \subseteq Findings /\ c.metadata.blockers \subseteq Findings
      /\ c.debt \subseteq DebtItem /\ c.metadata.debt \subseteq DebtItem
  OBVIOUS
<1>2. ASSUME NEW e \in SUBSET SUBSET EvidenceItems
      PROVE  [c EXCEPT !.evidence = e] \in ReviewedCard
  OBVIOUS
<1>3. ASSUME NEW B \in SUBSET Findings
      PROVE  /\ [c EXCEPT !.blockers = B] \in ReviewedCard
             /\ [c EXCEPT !.metadata.blockers = B] \in ReviewedCard
  OBVIOUS
<1>4. ASSUME NEW D \in SUBSET DebtItem
      PROVE  /\ [c EXCEPT !.debt = D] \in ReviewedCard
             /\ [c EXCEPT !.metadata.debt = D] \in ReviewedCard
  OBVIOUS
<1> QED
  BY <1>1, <1>2, <1>3, <1>4

(* An item of debt added or resolved leaves a set of items of debt.             *)
LEMMA DebtKept ==
    ASSUME NEW D \in SUBSET DebtItem
    PROVE  /\ \A u \in Upgrades : D \cup {[unresolved |-> TRUE, upgrade_to |-> u]}
                                  \in SUBSET DebtItem
           /\ \A item \in D : Settled(D, item) \in SUBSET DebtItem
<1>1. \A u \in Upgrades : [unresolved |-> TRUE, upgrade_to |-> u] \in DebtItem
  BY DEF DebtItem
<1>2. \A item \in D : [item EXCEPT !.unresolved = FALSE] \in DebtItem
  BY DEF DebtItem
<1> QED
  BY <1>1, <1>2 DEF Settled

(* The card under review stays a card.                                          *)
LEMMA Typed == SpecReview => []ReviewedOK
<1>1. InitReview => ReviewedOK
  BY CardsAssumption DEF InitReview, ReviewedOK
<1>2. ASSUME ReviewedOK, [NextReview]_card PROVE ReviewedOK'
  <2>0. card \in ReviewedCard
    BY <1>2 DEF ReviewedOK
  <2>1. CASE AddEvidence
    <3>1. Evidence(card) \subseteq EvidenceItems
      <4>1. UNION card.evidence \subseteq EvidenceItems
        BY <2>0 DEF ReviewedCard
      <4>2. \A t \in ClaimTypes : TIER_EVIDENCE[t] \subseteq EvidenceItems
        BY DEF TIER_EVIDENCE, EvidenceItems
      <4> QED
        BY <4>1, <4>2 DEF Evidence
    <3>2. PICK item \in Items :
            card' = [card EXCEPT !.evidence = {Evidence(card) \cup {item}}]
      BY <2>1 DEF AddEvidence
    <3>3. {Evidence(card) \cup {item}} \in SUBSET SUBSET EvidenceItems
      BY <3>1, ItemsAssumption
    <3> QED
      BY <2>0, <3>2, <3>3, Edited DEF ReviewedOK
  <2>2. CASE RecordBlocker
    <3>1. PICK b \in Findings :
            \/ card' = [card EXCEPT !.blockers = card.blockers \cup {b}]
            \/ card' = [card EXCEPT !.metadata.blockers = card.metadata.blockers \cup {b}]
      BY <2>2 DEF RecordBlocker
    <3>2. /\ card.blockers \cup {b} \in SUBSET Findings
          /\ card.metadata.blockers \cup {b} \in SUBSET Findings
      BY <2>0, Edited
    <3> QED
      BY <2>0, <3>1, <3>2, Edited DEF ReviewedOK
  <2>3. CASE ClearBlocker
    <3>1. PICK b :
            \/ card' = [card EXCEPT !.blockers = card.blockers \ {b}]
            \/ card' = [card EXCEPT !.metadata.blockers = card.metadata.blockers \ {b}]
      BY <2>3 DEF ClearBlocker
    <3>2. /\ card.blockers \ {b} \in SUBSET Findings
          /\ card.metadata.blockers \ {b} \in SUBSET Findings
      BY <2>0, Edited
    <3> QED
      BY <2>0, <3>1, <3>2, Edited DEF ReviewedOK
  <2>4. CASE RecordDebt
    <3>1. PICK u \in Upgrades :
            \/ card' = [card EXCEPT !.debt =
                           card.debt \cup {[unresolved |-> TRUE, upgrade_to |-> u]}]
            \/ card' = [card EXCEPT !.metadata.debt =
                           card.metadata.debt \cup {[unresolved |-> TRUE, upgrade_to |-> u]}]
      BY <2>4 DEF RecordDebt
    <3> QED
      BY <2>0, <3>1, DebtKept, Edited DEF ReviewedOK
  <2>5. CASE ResolveDebt
    <3>1. CASE \E item \in card.debt :
                 card' = [card EXCEPT !.debt = Settled(card.debt, item)]
      BY <2>0, <3>1, DebtKept, Edited DEF ReviewedOK
    <3>2. CASE \E item \in card.metadata.debt :
                 card' = [card EXCEPT !.metadata.debt = Settled(card.metadata.debt, item)]
      BY <2>0, <3>2, DebtKept, Edited DEF ReviewedOK
    <3> QED
      BY <2>5, <3>1, <3>2 DEF ResolveDebt
  <2>6. CASE card' = card
    BY <2>0, <2>6 DEF ReviewedOK
  <2> QED
    BY <1>2, <2>1, <2>2, <2>3, <2>4, <2>5, <2>6 DEF NextReview
<1> QED
  BY <1>1, <1>2, PTL DEF SpecReview

(* DoubtNeverHelps: of every card, a blocker or a debt more in the lists that   *)
(* the grammar reads makes no verdict better and no recommended type stronger.  *)
THEOREM DoubtMonotone == SpecReview => DoubtNeverHelps
<1>1. [NextReview]_card => [Doubted(card, card') => NoBetter(card, card')]_card
  BY DoubtWeakens
<1> QED
  BY <1>1, PTL DEF SpecReview, DoubtNeverHelps

(* EvidenceNeverHurts: nor does evidence make a verdict worse.                  *)
THEOREM EvidenceMonotone == SpecReview => EvidenceNeverHurts
<1>1. [NextReview]_card => [Corroborated(card, card') => NoBetter(card', card)]_card
  BY EvidenceStrengthens
<1> QED
  BY <1>1, PTL DEF SpecReview, EvidenceNeverHurts

(* SupportedIsUnblocked: what a report recommends instead, no blocker and no    *)
(* debt of the card stops.                                                      *)
THEOREM Recommended == SpecReview => []SupportedIsUnblocked
<1>1. SupportedIsUnblocked
  <2> SUFFICES ASSUME NEW t \in ClaimTypes, NEW s, s = SupportedType(card, t), s # "association"
               PROVE  BlockingBlockers(card, s) = {} /\ BlockingDebt(card, s) = {}
    BY DEF SupportedIsUnblocked
  <2>1. s \in Reach(Evidence(card), CheckedBlockers(card, t), scientific_debt(card))
    BY SupportedIs, Supported
  <2>2. s = "mechanism" => "generalization_minimum" \in Evidence(card)
    BY SupportedIs, MechanismGeneralizes
  <2>3. CheckedBlockers(card, s) \subseteq CheckedBlockers(card, t)
    BY <2>2 DEF CheckedBlockers
  <2> QED
    BY <2>1, <2>3 DEF Reach, BlockingBlockers, BlockingDebt
<1> QED
  BY <1>1, PTL

(* NothingAboveTier: without a list of its own, a card is let claim no more     *)
(* than its tier.                                                               *)
THEOREM TierIsCeiling == SpecReview => []NothingAboveTier
<1>1. ReviewedOK => NothingAboveTier
  <2> SUFFICES ASSUME ReviewedOK, NEW t \in ClaimTypes, card.evidence = {},
                      Status(card, t) # "blocked"
               PROVE  claim_order(t) <= claim_order(card.evidence_tier)
    BY DEF NothingAboveTier
  <2>1. card.evidence_tier \in ClaimTypes
    BY DEF ReviewedOK, ReviewedCard
  <2>2. Evidence(card) = CLAIM_REQUIREMENTS[card.evidence_tier]
    BY <2>1 DEF Evidence, TIER_EVIDENCE
  <2>3. requirements_for_profile(t, card.policy_profile) \subseteq Evidence(card)
    BY DEF Status, Blocked, Missing
  <2>4. CLAIM_REQUIREMENTS[t] \ {"generalization_minimum"} \subseteq
          CLAIM_REQUIREMENTS[card.evidence_tier]
    BY <2>2, <2>3 DEF requirements_for_profile
  <2> QED
    BY <2>1, <2>2, <2>3, <2>4, Orders
    DEF requirements_for_profile, CLAIM_REQUIREMENTS, NecessityEvidence
<1> QED
  BY <1>1, Typed, PTL

-----------------------------------------------------------------------------
(* What a verify command computes.                                              *)

(* Only a command that passed every gate is candidate evidence.                 *)
LEMMA CandidateGated ==
    ASSUME NEW in \in Payloads, status(in) = "candidate_evidence"
    PROVE  Gated(in)
<1>1. in \in Payload
  BY PayloadAssumption
<1>0. Kind(in) \in {"blocked", "minimal", "operations"}
  BY DEF Kind
<1>2. /\ Kind(in) = "operations" /\ ~zero_capped(in) /\ blockers(in) = {}
      /\ ~in.dry_run /\ ~in.diagnostic_only
  <2>1. Kind(in) # "blocked" /\ Kind(in) # "minimal" /\ ~zero_capped(in)
    BY DEF status
  <2>2. blockers(in) = {}
    BY <2>1 DEF status
  <2>3. ~in.dry_run
    BY <2>1, <2>2 DEF status
  <2> QED
    BY <1>0, <2>1, <2>2, <2>3 DEF status
<1>3. gate_blockers(in) = {} /\ in.verification
  BY <1>2 DEF Kind
<1>4. in.lock /\ in.static = "pass"
  BY <1>1, <1>2, <1>3 DEF gate_blockers, Payload
<1>5. operation_blockers(in) = {} /\ policy_report(in).blockers = {}
  BY <1>2 DEF blockers
<1>6. /\ in.operations # {} => ~in.off_manifold
      /\ "zero_ablate" \in in.operations =>
           in.zero_ablation_claim_ceiling # "diagnostic_only"
  BY <1>1, <1>2, <1>5 DEF operation_blockers, Payload
<1>7. policy_blockers(in.operations, TRUE, in.profile) = {}
  BY <1>2, <1>5 DEF policy_report, evaluate_verification
<1>8. in.profile \in {"strict", "exploratory"}
  BY <1>1 DEF Payload, Profiles, BUILTIN_PROFILES
<1>9. in.profile = "strict" => {"resample_ablate", "noising", "denoising"} \subseteq in.operations
  <2>1. Required(in.profile) \subseteq in.operations
    BY <1>7 DEF policy_blockers
  <2>2. in.profile = "strict" =>
          Required(in.profile) = {"resample_ablate"} \cup {"noising", "denoising"}
    BY DEF Required, BUILTIN_PROFILES
  <2> QED
    BY <2>1, <2>2
<1>10. "zero_ablate" \in in.operations => in.profile = "exploratory"
  BY <1>7, <1>8 DEF policy_blockers, ZeroCapped, BUILTIN_PROFILES
<1> QED
  BY <1>2, <1>3, <1>4, <1>6, <1>9, <1>10 DEF Gated

(* A command bears a claim only past the lock and the static report.            *)
LEMMA BearingGated ==
    ASSUME NEW in \in Payloads, claim_bearing(in)
    PROVE  in.lock /\ in.static = "pass" /\ ~in.diagnostic_only
<1>1. in \in Payload
  BY PayloadAssumption
<1>2. Kind(in) = "operations" /\ evidence_posture(in) = "claim_bearing"
  BY DEF claim_bearing
<1>3. gate_blockers(in) = {} /\ gate_posture(in) = "claim_bearing"
  BY <1>2 DEF Kind, evidence_posture
<1> QED
  BY <1>1, <1>3 DEF gate_blockers, gate_posture, Payload

(* The blockers a command reports are among the named ones.                     *)
LEMMA PolicyTyped ==
    ASSUME NEW in \in Payloads
    PROVE  policy_report(in).blockers \subseteq Blockers
<1>1. in \in Payload /\ in.profile \in {"strict", "exploratory"}
  BY PayloadAssumption DEF Payload, Profiles, BUILTIN_PROFILES
<1>2. Required(in.profile) \subseteq {"resample_ablate", "noising", "denoising"}
  BY <1>1 DEF Required, BUILTIN_PROFILES
<1>3. \A op \in Required(in.profile) : missing_blocker[op] \in Blockers
  BY <1>2 DEF missing_blocker, Blockers
<1>4. ASSUME NEW bearing \in BOOLEAN
      PROVE  policy_blockers(in.operations, bearing, in.profile) \subseteq Blockers
  BY <1>3 DEF policy_blockers, Blockers
<1> QED
  BY <1>1, <1>4 DEF policy_report, evaluate_verification, NoPolicy, Payload

(* The blockers that verify finds have names of blockers.                       *)
LEMMA BlockersTyped ==
    ASSUME NEW in \in Payloads
    PROVE  blockers(in) \subseteq Blockers
<1>1. Kind(in) \in {"blocked", "minimal", "operations"}
  BY DEF Kind
<1>2. gate_blockers(in) \subseteq Blockers /\ operation_blockers(in) \subseteq Blockers
  BY DEF gate_blockers, operation_blockers, Blockers
<1>3. CASE Kind(in) = "blocked"
  BY <1>2, <1>3 DEF blockers
<1>4. CASE Kind(in) = "minimal"
  BY <1>4 DEF blockers, Blockers
<1>5. CASE Kind(in) = "operations"
  BY <1>2, <1>5, PolicyTyped DEF blockers
<1> QED
  BY <1>1, <1>3, <1>4, <1>5

(* The status of a verification is one of six.                                  *)
LEMMA StatusRange ==
    ASSUME NEW in
    PROVE  status(in) \in {"blocked", "dry_run", "planned", "diagnostic_only",
                           "insufficient_evidence", "candidate_evidence"}
BY DEF status

-----------------------------------------------------------------------------
(* What card_from_run makes of its files.                                       *)

(* The claim types again, and that association is the lowest of them.           *)
LEMMA ClaimOrders ==
    /\ ClaimTypes = {"association", "projection", "causal_necessity", "causal_sufficiency",
                     "mediation", "generalization", "mechanism"}
    /\ \A t \in ClaimTypes : claim_order(t) \in 0 .. 6
    /\ claim_order("association") = 0
    /\ \A t \in ClaimTypes : t # "association" => claim_order(t) > 0
<1>1. ClaimTypes = {"association", "projection", "causal_necessity", "causal_sufficiency",
                    "mediation", "generalization", "mechanism"}
  BY DEF ClaimTypes, CLAIM_ORDER
<1> QED
  BY <1>1 DEF claim_order, CLAIM_ORDER

(* A ceiling leaves association alone and a claim type a claim type.            *)
LEMMA Ceiling ==
    ASSUME NEW ceiling
    PROVE  /\ apply_claim_ceiling("association", ceiling) = "association"
           /\ \A tier \in ClaimTypes : apply_claim_ceiling(tier, ceiling) \in ClaimTypes
BY ClaimOrders DEF apply_claim_ceiling

(* Of the statuses a verify command records, one earns more than an association, *)
(* and only if no control leaks.                                                *)
LEMMA TierEarned ==
    ASSUME NEW s \in {"blocked", "dry_run", "planned", "diagnostic_only",
                      "insufficient_evidence", "candidate_evidence"}, NEW B
    PROVE  /\ evidence_tier(s, B) \in {"association", "causal_necessity"}
           /\ evidence_tier(s, B) # "association" =>
                s = "candidate_evidence" /\ "control_leaky" \notin B
<1>1. s \notin DOMAIN status_to_tier
  BY DEF status_to_tier
<1> QED
  BY <1>1 DEF evidence_tier

(* The same of a manifest that is missing or was written by a command.          *)
Read(M) ==
    IF M = {} THEN [status |-> "insufficient_evidence", policy_report |-> NoPolicy]
    ELSE CHOOSE m \in M : TRUE
Diagnosed(X, R) ==
    IF UNION R # {} THEN UNION R
    ELSE diagnose_blockers(IF X = {} THEN NoMetrics ELSE CHOOSE x \in X : TRUE)

(* The tier of a card: that of the manifest's status and the diagnosed          *)
(* blockers, under the policy's ceiling.                                        *)
LEMMA CardTier ==
    ASSUME NEW M, NEW X, NEW R
    PROVE  card_from_run(M, X, R).evidence_tier =
             apply_claim_ceiling(
                 evidence_tier(Read(M).status, non_policy_blockers(Diagnosed(X, R))),
                 Read(M).policy_report.claim_ceiling)
BY DEF card_from_run, Read, Diagnosed

(* What a card reads as its run's status; candidate evidence comes from a       *)
(* manifest that is there, of a command that passed every gate.                 *)
LEMMA ReadStatus ==
    ASSUME NEW ref, NEW M, \A m \in M : ManifestOf(ref, m)
    PROVE  /\ Read(M).status \in {"blocked", "dry_run", "planned", "diagnostic_only",
                                  "insufficient_evidence", "candidate_evidence"}
           /\ Read(M).policy_report.blockers \subseteq Blockers
           /\ Read(M).status = "candidate_evidence" =>
                Read(M) \in M /\ Gated(Read(M).by)
<1>1. CASE M = {}
  BY <1>1 DEF Read, NoPolicy
<1>2. CASE M # {}
  <2>1. Read(M) \in M
    BY <1>2 DEF Read
  <2>2. Read(M).by \in Payloads /\ Read(M) = Manifest(Read(M).by)
    BY <2>1 DEF ManifestOf, Ran
  <2>3. /\ Read(M).status = status(Read(M).by)
        /\ Read(M).policy_report = policy_report(Read(M).by)
    BY <2>2 DEF Manifest
  <2> QED
    BY <2>1, <2>2, <2>3, StatusRange, PolicyTyped, CandidateGated
<1> QED
  BY <1>1, <1>2

(* A causal card owes its tier to a manifest of a command that passed every     *)
(* gate.                                                                        *)
LEMMA CardGated ==
    ASSUME NEW job, job.step \in CardSteps, JobOK(job),
           MechanismCard(job).card.evidence_tier # "association"
    PROVE  /\ Read(job.manifest) \in job.manifest
           /\ Gated(Read(job.manifest).by)
           /\ Read(job.manifest).status = "candidate_evidence"
           /\ "control_leaky" \notin
                Diagnosed({ m.values : m \in job.metrics }, { r.blockers : r \in job.report })
<1> DEFINE X == { m.values : m \in job.metrics }
           R == { r.blockers : r \in job.report }
           B == non_policy_blockers(Diagnosed(X, R))
<1>1. \A m \in job.manifest : ManifestOf(job.ref, m)
  BY DEF JobOK
<1>2. MechanismCard(job).card.evidence_tier =
        apply_claim_ceiling(evidence_tier(Read(job.manifest).status, B),
                            Read(job.manifest).policy_report.claim_ceiling)
  BY CardTier DEF MechanismCard
<1>3. evidence_tier(Read(job.manifest).status, B) # "association"
  BY <1>2, Ceiling
<1>4. Read(job.manifest).status = "candidate_evidence" /\ "control_leaky" \notin B
  <2>1. Read(job.manifest).status \in {"blocked", "dry_run", "planned", "diagnostic_only",
                                       "insufficient_evidence", "candidate_evidence"}
    BY <1>1, ReadStatus
  <2> HIDE DEF B
  <2> QED
    BY <1>3, <2>1, TierEarned
<1> QED
  BY <1>1, <1>4, ReadStatus DEF non_policy_blockers

(* ... and, when it was made from one command's files alone, to clean controls. *)
LEMMA CardControls ==
    ASSUME NEW job, job.step \in CardSteps, JobOK(job),
           MechanismCard(job).card.evidence_tier # "association",
           Sources(job).report = {}, Sources(job).metrics = Sources(job).manifest,
           NEW in \in Sources(job).metrics, in.operations # {}
    PROVE  CleanControls(in)
<1> DEFINE X == { m.values : m \in job.metrics }
           R == { r.blockers : r \in job.report }
<1>1. /\ Read(job.manifest) \in job.manifest
      /\ Read(job.manifest).status = "candidate_evidence"
      /\ "control_leaky" \notin Diagnosed(X, R)
  BY CardGated
<1>2. /\ AtMostOne(job.manifest) /\ AtMostOne(job.metrics)
      /\ \A m \in job.manifest : ManifestOf(job.ref, m)
      /\ \A m \in job.metrics : MetricsOf(job.ref, m)
  BY DEF JobOK
<1>3. in \in { m.by : m \in job.manifest }
  BY DEF Sources
<1>4. Read(job.manifest).by = in
  BY <1>1, <1>2, <1>3 DEF AtMostOne
<1>5. in \in Payloads /\ status(in) = "candidate_evidence"
  BY <1>1, <1>2, <1>4 DEF ManifestOf, Ran, Manifest
<1>6. Kind(in) = "operations"
  BY <1>5 DEF status, Kind
<1>7. X = {metrics(in)}
  <2>1. PICK x \in job.metrics : x.by = in
    BY DEF Sources
  <2>2. x.values = metrics(in) /\ \A y \in job.metrics : y = x
    BY <1>2, <2>1 DEF MetricsOf, AtMostOne
  <2> QED
    BY <2>1, <2>2
<1>8. UNION R = {}
  BY DEF Sources
<1>9. "control_leaky" \notin diagnose_blockers(metrics(in))
  BY <1>1, <1>7, <1>8 DEF Diagnosed
<1>10. metrics(in) = Metrics({in.target_delta}, {in.matched_control_delta},
                             {in.target_delta - in.matched_control_delta}, {})
  BY <1>6 DEF metrics
<1>11. ~Leaky(in.target_delta, in.matched_control_delta)
  BY <1>9, <1>10 DEF diagnose_blockers, Metrics
<1>12. in.target_delta \in Int /\ in.matched_control_delta \in Int
  BY <1>5, PayloadAssumption DEF Payload
<1> QED
  BY <1>11, <1>12 DEF Leaky, CleanControls

-----------------------------------------------------------------------------
(* The types of cards and grammar reports.                                      *)

(* The blockers a card is given have names of blockers.                         *)
LEMMA DiagnosisTyped ==
    ASSUME NEW X, NEW R, \A r \in R : r \subseteq Blockers
    PROVE  Diagnosed(X, R) \subseteq Blockers
<1>1. \A m : diagnose_blockers(m) \subseteq Blockers
  BY DEF diagnose_blockers, Blockers
<1> QED
  BY <1>1 DEF Diagnosed

(* The language a card forbids is made of the tables' phrases.                  *)
LEMMA LanguageTyped ==
    ASSUME NEW tier, NEW B
    PROVE  blocked_language(tier, B) \subseteq BlockedPhrases
<1>1. {"specificity", "implements", "mechanism for"} \subseteq BlockedPhrases
  BY DEF BlockedPhrases, CausalWords
<1>2. CausalWords \subseteq BlockedPhrases
  BY DEF BlockedPhrases
<1>3. /\ {"implements", "mechanism for", "fully explains"} \subseteq BlockedPhrases
      /\ {"fully implements", "complete mechanism for"} \subseteq BlockedPhrases
  BY DEF BlockedPhrases, CausalWords
<1> QED
  BY <1>1, <1>2, <1>3 DEF blocked_language

Debt == [kind : {"causal_sufficiency", "controls", "heldout_generalization"},
         unresolved : {FALSE}, upgrade_to : {""}]
(* The debt a card is given is made of the items of debt there are.             *)
LEMMA DebtTyped ==
    ASSUME NEW B, NEW s
    PROVE  scientific_debt_items(B, s) \subseteq Debt
<1> DEFINE K == {"causal_sufficiency"}
                \cup (IF "control_leaky" \in B THEN {"controls"} ELSE {})
                \cup (IF \/ "insufficient_heldout_generalization" \in B
                         \/ s = "insufficient_evidence"
                      THEN {"heldout_generalization"} ELSE {})
<1>1. K \subseteq {"causal_sufficiency", "controls", "heldout_generalization"}
  OBVIOUS
<1>2. scientific_debt_items(B, s) =
        { [kind |-> k, unresolved |-> FALSE, upgrade_to |-> ""] : k \in K }
  BY DEF scientific_debt_items
<1> HIDE DEF K
<1>3. ASSUME NEW k \in {"causal_sufficiency", "controls", "heldout_generalization"}
      PROVE  [kind |-> k, unresolved |-> FALSE, upgrade_to |-> ""] \in Debt
  BY DEF Debt
<1> QED
  BY <1>1, <1>2, <1>3

(* What card_from_run computes from a directory's files is a card.              *)
LEMMA CardTyped ==
    ASSUME NEW job, job.step \in CardSteps, JobOK(job)
    PROVE  MechanismCard(job) \in CardContent
<1> DEFINE X == { m.values : m \in job.metrics }
           R == { r.blockers : r \in job.report }
           c == card_from_run(job.manifest, X, R)
           B == Diagnosed(X, R) \cup Read(job.manifest).policy_report.blockers
<1>1. /\ \A m \in job.manifest : ManifestOf(job.ref, m)
      /\ \A m \in job.metrics : MetricsOf(job.ref, m)
      /\ \A r \in job.report : ReportOf(job.ref, r)
  BY DEF JobOK
<1>2. \A r \in R : r \subseteq Blockers
  BY <1>1, BlockersTyped DEF ReportOf, Ran
<1>3. B \subseteq Blockers
  BY <1>1, <1>2, DiagnosisTyped, ReadStatus
<1>4. c = [evidence_tier |-> c.evidence_tier, evidence |-> {}, blockers |-> B, debt |-> {},
           metadata |-> [blockers |-> B,
                         debt |-> scientific_debt_items(B, Read(job.manifest).status)],
           policy_profile |-> "strict",
           blocked_language |-> blocked_language(c.evidence_tier, B),
           required_caveats |-> FALSE]
  BY DEF card_from_run, Read, Diagnosed
<1>5. c.evidence_tier \in ClaimTypes
  <2>1. Read(job.manifest).status \in {"blocked", "dry_run", "planned", "diagnostic_only",
                                       "insufficient_evidence", "candidate_evidence"}
    BY <1>1, ReadStatus
  <2>2. \A S : evidence_tier(Read(job.manifest).status, S) \in {"association", "causal_necessity"}
    BY <2>1, TierEarned
  <2> QED
    BY <2>2, CardTier, Ceiling, ClaimOrders
<1>6. scientific_debt_items(B, Read(job.manifest).status) \subseteq Debt
  BY DebtTyped
<1>7. c \in CardPayload
  <2> DEFINE debt == scientific_debt_items(B, Read(job.manifest).status)
             language == blocked_language(c.evidence_tier, B)
             tier == c.evidence_tier
  <2>1. language \subseteq BlockedPhrases
    BY LanguageTyped
  <2>2. c = [evidence_tier |-> tier, evidence |-> {}, blockers |-> B, debt |-> {},
             metadata |-> [blockers |-> B, debt |-> debt], policy_profile |-> "strict", blocked_language |-> language,
             required_caveats |-> FALSE]
    BY <1>4
  <2>3. tier \in ClaimTypes /\ B \in SUBSET Blockers /\ debt \in SUBSET Debt
        /\ language \in SUBSET BlockedPhrases
    BY <1>3, <1>5, <1>6, <2>1
  <2> HIDE DEF c, B, debt, language, tier
  <2> QED
    BY <2>2, <2>3 DEF CardPayload, Debt
<1>8. Sources(job) \in Provenance
  BY <1>1 DEF Sources, Provenance, ManifestOf, MetricsOf, ReportOf, Ran
<1> QED
  BY <1>7, <1>8 DEF MechanismCard, CardContent

(* The strongest type of a set that has one.                                    *)
LEMMA Strongest ==
    ASSUME NEW S \in SUBSET ClaimTypes, "association" \in S
    PROVE  \E t \in S : \A s \in S : claim_order(s) <= claim_order(t)
<1>1. /\ S \subseteq {"association", "projection", "causal_necessity", "causal_sufficiency",
                      "mediation", "generalization", "mechanism"}
      /\ claim_order("association") = 0 /\ claim_order("projection") = 1
      /\ claim_order("causal_necessity") = 2 /\ claim_order("causal_sufficiency") = 3
      /\ claim_order("mediation") = 4 /\ claim_order("generalization") = 5
      /\ claim_order("mechanism") = 6
  BY ClaimOrders DEF claim_order, CLAIM_ORDER
<1>2. CASE "mechanism" \in S
  BY <1>1, <1>2
<1>3. CASE "mechanism" \notin S /\ "generalization" \in S
  BY <1>1, <1>3
<1>4. CASE {"mechanism", "generalization"} \cap S = {} /\ "mediation" \in S
  BY <1>1, <1>4
<1>5. CASE {"mechanism", "generalization", "mediation"} \cap S = {} /\ "causal_sufficiency" \in S
  BY <1>1, <1>5
<1>6. CASE S \subseteq {"association", "projection", "causal_necessity"}
  BY <1>1, <1>6
<1> QED
  BY <1>1, <1>2, <1>3, <1>4, <1>5, <1>6

(* The supported type of any card is a claim type.                              *)
LEMMA SupportedTyped ==
    ASSUME NEW c, NEW t
    PROVE  SupportedType(c, t) \in ClaimTypes
<1>1. ASSUME NEW E, NEW B, NEW D
      PROVE  supported_claim_type_for_evidence(E, B, D) \in ClaimTypes
  <2> DEFINE met == { u \in ClaimTypes : CLAIM_REQUIREMENTS[u] \subseteq E } \cup {"association"}
             reach == { u \in ClaimTypes :
                          /\ \E s \in met : claim_order(u) <= claim_order(s)
                          /\ \A b \in B : ~Blocks(b, u)
                          /\ \A item \in D : ~debt_blocks_claim(item, u) } \cup {"association"}
  <2>1. reach \in SUBSET ClaimTypes /\ "association" \in reach
    BY ClaimOrders
  <2>2. \E u \in reach : \A s \in reach : claim_order(s) <= claim_order(u)
    <3> HIDE DEF reach
    <3> QED
      BY <2>1, Strongest
  <2>3. supported_claim_type_for_evidence(E, B, D) =
          CHOOSE u \in reach : \A s \in reach : claim_order(s) <= claim_order(u)
    BY DEF supported_claim_type_for_evidence
  <2> HIDE DEF reach
  <2> QED
    BY <2>1, <2>2, <2>3
<1>2. \A E : \A u \in ClaimTypes : cap_mechanism_without_generalization(u, E) \in ClaimTypes
  BY ClaimOrders DEF cap_mechanism_without_generalization
<1> QED
  BY <1>1, <1>2 DEF SupportedType

(* A check of a card gives a grammar report, with the tier of the card.         *)
LEMMA CheckTyped ==
    ASSUME NEW c \in CardPayload, NEW t \in ClaimTypes, NEW profile \in Profiles
    PROVE  /\ check_claim([c EXCEPT !.policy_profile = profile], t) \in GrammarReport
           /\ check_claim([c EXCEPT !.policy_profile = profile], t).evidence_tier = c.evidence_tier
<1> DEFINE d == [c EXCEPT !.policy_profile = profile]
<1>1. /\ d.evidence_tier = c.evidence_tier /\ d.policy_profile = profile
      /\ card_blockers(d) = card_blockers(c)
  BY DEF CardPayload, card_blockers, OwnOrMetadata
<1>2. c.evidence_tier \in ClaimTypes /\ card_blockers(c) \subseteq Blockers
  BY DEF CardPayload, card_blockers, OwnOrMetadata
<1> HIDE DEF d
<1>3. CheckedBlockers(d, t) \subseteq Blockers \cup {"policy_generalization_required"}
  BY <1>1, <1>2 DEF CheckedBlockers
<1>4. Status(d, t) \in {"blocked", "caveated", "allowed"}
  BY DEF Status
<1>5. required_caveats(d, t) \in BOOLEAN
  BY DEF required_caveats
<1>6. SupportedType(d, t) \in ClaimTypes
  BY SupportedTyped
<1>7. BlockingBlockers(d, t) \subseteq CheckedBlockers(d, t)
  BY DEF BlockingBlockers
<1>8. check_claim(d, t) \in GrammarReport /\ check_claim(d, t).evidence_tier = c.evidence_tier
  BY <1>1, <1>2, <1>3, <1>4, <1>5, <1>6, <1>7 DEF check_claim, GrammarReport
<1> QED
  BY <1>8 DEF d

-----------------------------------------------------------------------------
(* Type correctness.                                                            *)

(* A project without runs is of the right types.                                *)
LEMMA InitTyped == Init => TypeOK
<1> SUFFICES ASSUME Init PROVE TypeOK
  OBVIOUS
<1>1. \A ref \in RunRefs : RunFilesOK(ref)
  BY DEF Init, RunFilesOK, AtMostOne, FileNames
<1>2. JobOK(Idle)
  BY DEF JobOK, Idle, VerifySteps, CardSteps
<1> QED
  BY <1>1, <1>2, PipelineBounds DEF Init, TypeOK

(* A write changes one file of one run, and keeps the types if the content fits. *)
LEMMA PutKeeps ==
    ASSUME TypeOK, NEW ref \in RunRefs, NEW f \in FileNames, NEW content,
           Put(ref, f, content)
    PROVE  /\ DOMAIN files' = RunRefs
           /\ files'[ref][f] = {content}
           /\ \A r \in RunRefs : DOMAIN files'[r] = FileNames
           /\ \A r \in RunRefs, g \in FileNames :
                r # ref \/ g # f => files'[r][g] = files[r][g]
BY DEF TypeOK, RunFilesOK, Put

(* A write of a fitting or torn content leaves the files of every directory in  *)
(* order.                                                                       *)
LEMMA PutTyped ==
    ASSUME TypeOK, NEW ref \in RunRefs, NEW f \in FileNames, NEW content,
           content = Torn \/ Fits(ref, f, content), Put(ref, f, content)
    PROVE  DOMAIN files' = RunRefs /\ \A r \in RunRefs : RunFilesOK(r)'
<1> SUFFICES ASSUME NEW r \in RunRefs, NEW g \in FileNames
             PROVE  /\ AtMostOne(files'[r][g])
                    /\ \A x \in files'[r][g] \ {Torn} : Fits(r, g, x)
  BY PutKeeps DEF RunFilesOK
<1>1. CASE r = ref /\ g = f
  BY <1>1, PutKeeps DEF AtMostOne
<1>2. CASE r # ref \/ g # f
  BY <1>2, PutKeeps DEF TypeOK, RunFilesOK
<1> QED
  BY <1>1, <1>2

(* A process that goes on to a well-formed job leaves every job well-formed.    *)
LEMMA GotoTyped ==
    ASSUME TypeOK, NEW p \in Procs, NEW job, JobOK(job), Goto(p, job)
    PROVE  DOMAIN jobs' = Procs /\ \A q \in Procs : JobOK(jobs'[q])
BY DEF TypeOK, Goto

(* No job is a well-formed job.                                                 *)
LEMMA IdleTyped == JobOK(Idle)
BY DEF JobOK, Idle, VerifySteps, CardSteps

(* A step of verify holds a payload.                                            *)
LEMMA VerifyTyped ==
    ASSUME NEW step \in VerifySteps, NEW in \in Payloads
    PROVE  JobOK(VerifyJob(step, in))
BY DEF JobOK, VerifyJob, VerifySteps, CardSteps

(* What a process that verifies holds: a payload, of a run in the project.      *)
LEMMA VerifyFields ==
    ASSUME TypeOK, NEW p \in Procs, jobs[p].step \in VerifySteps
    PROVE  jobs[p].by \in Payloads /\ run_ref(jobs[p].by) \in RunRefs
BY DEF TypeOK, JobOK, RunRefs

(* What a process that makes or checks a card holds: files of the one run.      *)
LEMMA CardFields ==
    ASSUME TypeOK, NEW p \in Procs, jobs[p].step \in CardSteps
    PROVE  /\ JobOK(jobs[p]) /\ jobs[p].ref \in RunRefs
           /\ AtMostOne(jobs[p].manifest) /\ AtMostOne(jobs[p].metrics)
           /\ AtMostOne(jobs[p].report)
           /\ \A m \in jobs[p].manifest : ManifestOf(jobs[p].ref, m)
           /\ \A m \in jobs[p].metrics : MetricsOf(jobs[p].ref, m)
           /\ \A r \in jobs[p].report : ReportOf(jobs[p].ref, r)
BY DEF TypeOK, JobOK

(* A step of card that holds files of the one run is well-formed.               *)
LEMMA CardJobTyped ==
    ASSUME NEW step \in CardSteps, NEW ref \in RunRefs, NEW M, NEW X, NEW R,
           AtMostOne(M), AtMostOne(X), AtMostOne(R),
           \A m \in M : ManifestOf(ref, m), \A x \in X : MetricsOf(ref, x),
           \A r \in R : ReportOf(ref, r)
    PROVE  JobOK(CardJob(step, ref, M, X, R))
BY DEF JobOK, CardJob, VerifySteps, CardSteps

(* What a file that parses holds.                                               *)
LEMMA FileFields ==
    ASSUME TypeOK, NEW ref \in RunRefs, NEW f \in FileNames, Torn \notin files[ref][f]
    PROVE  AtMostOne(files[ref][f]) /\ \A x \in files[ref][f] : Fits(ref, f, x)
BY DEF TypeOK, RunFilesOK

(* A step that writes a file keeps the types.                                   *)
LEMMA WriteTyped ==
    ASSUME TypeOK, NEW p \in Procs, NEW ref \in RunRefs, NEW f \in FileNames, NEW content,
           content = Torn \/ Fits(ref, f, content), Put(ref, f, content),
           NEW job, JobOK(job), Goto(p, job),
           run_dirs' = run_dirs, commands' = commands, crashes' \in 0 .. MaxCrashes
    PROVE  TypeOK'
BY PutTyped, GotoTyped DEF TypeOK

(* A step that only reads, or begins a command, keeps the types.                *)
LEMMA ReadTyped ==
    ASSUME TypeOK, NEW p \in Procs, NEW job, JobOK(job), Goto(p, job),
           run_dirs' \subseteq RunRefs, files' = files,
           commands' \in 0 .. MaxCommands, crashes' \in 0 .. MaxCrashes
    PROVE  TypeOK'
<1>1. \A r \in RunRefs : RunFilesOK(r)'
  BY DEF TypeOK, RunFilesOK
<1> QED
  BY <1>1, GotoTyped DEF TypeOK

(* To begin a command keeps both counters within their bounds.                  *)
LEMMA IssueCounts ==
    ASSUME TypeOK, NEW p \in Procs, Issue(p)
    PROVE  commands' \in 0 .. MaxCommands /\ crashes' \in 0 .. MaxCrashes
BY PipelineBounds DEF TypeOK, Issue

(* One step for each action.                                                    *)
LEMMA StepTyped ==
    ASSUME TypeOK, NEW p \in Procs, Step(p)
    PROVE  TypeOK'
<1>1. ASSUME NEW in \in Payloads, Verify(p, in) PROVE TypeOK'
  <2>1. JobOK(VerifyJob("manifest", in)) /\ run_ref(in) \in RunRefs
    BY VerifyTyped DEF VerifySteps, RunRefs
  <2>2. run_dirs' \subseteq RunRefs
    BY <1>1, <2>1 DEF Verify, TypeOK
  <2> QED
    BY <1>1, <2>1, <2>2, IssueCounts, ReadTyped DEF Verify
<1>2. ASSUME WriteManifest(p) PROVE TypeOK'
  <2>1. jobs[p].by \in Payloads /\ run_ref(jobs[p].by) \in RunRefs
    BY <1>2, VerifyFields DEF WriteManifest, VerifySteps
  <2>2. Fits(run_ref(jobs[p].by), "manifest", Manifest(jobs[p].by))
    BY <2>1 DEF Fits, ManifestOf, Ran, Manifest
  <2>3. JobOK(VerifyJob("metrics", jobs[p].by))
    BY <2>1, VerifyTyped DEF VerifySteps
  <2> QED
    BY <1>2, <2>1, <2>2, <2>3, WriteTyped DEF WriteManifest, FileNames, TypeOK
<1>3. ASSUME WriteMetrics(p) PROVE TypeOK'
  <2>1. jobs[p].by \in Payloads /\ run_ref(jobs[p].by) \in RunRefs
    BY <1>3, VerifyFields DEF WriteMetrics, VerifySteps
  <2>2. Fits(run_ref(jobs[p].by), "metrics",
             [values |-> metrics(jobs[p].by), by |-> jobs[p].by])
    BY <2>1 DEF Fits, MetricsOf, Ran
  <2>3. JobOK(VerifyJob("receipts", jobs[p].by))
    BY <2>1, VerifyTyped DEF VerifySteps
  <2> QED
    BY <1>3, <2>1, <2>2, <2>3, WriteTyped DEF WriteMetrics, FileNames, TypeOK
<1>4. ASSUME WriteReceipts(p) PROVE TypeOK'
  <2>1. jobs[p].by \in Payloads /\ run_ref(jobs[p].by) \in RunRefs
    BY <1>4, VerifyFields DEF WriteReceipts, VerifySteps
  <2>2. Fits(run_ref(jobs[p].by), "receipts", Receipts(jobs[p].by))
    BY <2>1 DEF Fits, ReceiptsOf, Ran, Receipts
  <2>3. JobOK(IF blockers(jobs[p].by) # {} THEN VerifyJob("report", jobs[p].by) ELSE Idle)
    BY <2>1, VerifyTyped, IdleTyped DEF VerifySteps
  <2> QED
    BY <1>4, <2>1, <2>2, <2>3, WriteTyped DEF WriteReceipts, FileNames, TypeOK
<1>5. ASSUME WriteReport(p) PROVE TypeOK'
  <2>1. jobs[p].by \in Payloads /\ run_ref(jobs[p].by) \in RunRefs
    BY <1>5, VerifyFields DEF WriteReport, VerifySteps
  <2>2. Fits(run_ref(jobs[p].by), "report",
             [blockers |-> blockers(jobs[p].by), by |-> jobs[p].by])
    BY <2>1 DEF Fits, ReportOf, Ran
  <2> QED
    BY <1>5, <2>1, <2>2, IdleTyped, WriteTyped DEF WriteReport, FileNames, TypeOK
<1>6. ASSUME NEW ref \in RunRefs, Card(p, ref) PROVE TypeOK'
  <2>1. JobOK(CardJob("read_manifest", ref, {}, {}, {}))
    BY CardJobTyped DEF CardSteps, AtMostOne
  <2> QED
    BY <1>6, <2>1, IssueCounts, ReadTyped DEF Card, TypeOK
<1>7. ASSUME ReadManifest(p) PROVE TypeOK'
  <2> DEFINE ref == jobs[p].ref
             content == files[ref].manifest
             job == IF Torn \in content THEN Idle ELSE CardJob("read_metrics", ref, content, {}, {})
  <2>1. ref \in RunRefs
    BY <1>7, CardFields DEF ReadManifest, CardSteps
  <2>2. CASE Torn \in content
    BY <1>7, <2>2, IdleTyped, ReadTyped DEF ReadManifest, TypeOK
  <2>3. CASE Torn \notin content
    <3>1. AtMostOne(content) /\ \A m \in content : ManifestOf(ref, m)
      BY <2>1, <2>3, FileFields DEF FileNames, Fits
    <3>2. JobOK(CardJob("read_metrics", ref, content, {}, {}))
      BY <2>1, <3>1, CardJobTyped DEF CardSteps, AtMostOne
    <3> QED
      BY <1>7, <2>3, <3>2, ReadTyped DEF ReadManifest, TypeOK
  <2> QED
    BY <2>2, <2>3
<1>8. ASSUME ReadMetrics(p) PROVE TypeOK'
  <2> DEFINE ref == jobs[p].ref
             content == files[ref].metrics
  <2>1. ref \in RunRefs /\ AtMostOne(jobs[p].manifest)
        /\ \A m \in jobs[p].manifest : ManifestOf(ref, m)
    BY <1>8, CardFields DEF ReadMetrics, CardSteps
  <2>2. CASE Torn \in content
    BY <1>8, <2>2, IdleTyped, ReadTyped DEF ReadMetrics, TypeOK
  <2>3. CASE Torn \notin content
    <3>1. AtMostOne(content) /\ \A m \in content : MetricsOf(ref, m)
      BY <2>1, <2>3, FileFields DEF FileNames, Fits
    <3>2. JobOK(CardJob("read_report", ref, jobs[p].manifest, content, {}))
      BY <2>1, <3>1, CardJobTyped DEF CardSteps, AtMostOne
    <3> QED
      BY <1>8, <2>3, <3>2, ReadTyped DEF ReadMetrics, TypeOK
  <2> QED
    BY <2>2, <2>3
<1>9. ASSUME ReadReport(p) PROVE TypeOK'
  <2> DEFINE ref == jobs[p].ref
             content == files[ref].report
  <2>1. ref \in RunRefs /\ AtMostOne(jobs[p].manifest) /\ AtMostOne(jobs[p].metrics)
        /\ (\A m \in jobs[p].manifest : ManifestOf(ref, m))
        /\ \A m \in jobs[p].metrics : MetricsOf(ref, m)
    BY <1>9, CardFields DEF ReadReport, CardSteps
  <2>2. CASE Torn \in content
    BY <1>9, <2>2, IdleTyped, ReadTyped DEF ReadReport, TypeOK
  <2>3. CASE Torn \notin content
    <3>1. AtMostOne(content) /\ \A r \in content : ReportOf(ref, r)
      BY <2>1, <2>3, FileFields DEF FileNames, Fits
    <3>2. JobOK(CardJob("card", ref, jobs[p].manifest, jobs[p].metrics, content))
      BY <2>1, <3>1, CardJobTyped DEF CardSteps
    <3> QED
      BY <1>9, <2>3, <3>2, ReadTyped DEF ReadReport, TypeOK
  <2> QED
    BY <2>2, <2>3
<1>10. ASSUME WriteCard(p) PROVE TypeOK'
  <2>1. JobOK(jobs[p]) /\ jobs[p].ref \in RunRefs /\ jobs[p].step \in CardSteps
    BY <1>10, CardFields DEF WriteCard, CardSteps
  <2>2. Fits(jobs[p].ref, "card", MechanismCard(jobs[p]))
    BY <2>1, CardTyped DEF Fits
  <2>3. [jobs[p] EXCEPT !.step = "claim"] =
          CardJob("claim", jobs[p].ref, jobs[p].manifest, jobs[p].metrics, jobs[p].report)
    BY <2>1 DEF JobOK, CardJob
  <2>4. JobOK([jobs[p] EXCEPT !.step = "claim"])
    BY <2>1, <2>3, CardFields, CardJobTyped DEF CardSteps
  <2> QED
    BY <1>10, <2>1, <2>2, <2>4, WriteTyped DEF WriteCard, FileNames, TypeOK
<1>11. ASSUME PublishClaim(p) PROVE TypeOK'
  <2>1. JobOK(jobs[p]) /\ jobs[p].ref \in RunRefs /\ jobs[p].step \in CardSteps
    BY <1>11, CardFields DEF PublishClaim, CardSteps
  <2>2. Fits(jobs[p].ref, "claim", MechanismCard(jobs[p]))
    BY <2>1, CardTyped DEF Fits
  <2> QED
    BY <1>11, <2>1, <2>2, IdleTyped, WriteTyped DEF PublishClaim, FileNames, TypeOK
<1>12. ASSUME NEW ref \in RunRefs, NEW t \in ClaimTypes, NEW profile \in Profiles,
              ClaimCheck(p, ref, t, profile)
       PROVE  TypeOK'
  <2>1. PICK claim \in files[ref].claim \ {Torn} :
          Goto(p, CheckJob(ref, check_claim([claim.card EXCEPT !.policy_profile = profile], t),
                           claim.by))
    BY <1>12 DEF ClaimCheck
  <2>2. claim \in CardContent
    BY <2>1 DEF TypeOK, RunFilesOK, FileNames, Fits
  <2>3. /\ check_claim([claim.card EXCEPT !.policy_profile = profile], t) \in GrammarReport
        /\ claim.by \in Provenance
    BY <2>2, CheckTyped DEF CardContent
  <2>4. JobOK(CheckJob(ref, check_claim([claim.card EXCEPT !.policy_profile = profile], t),
                       claim.by))
    BY <2>3 DEF JobOK, CheckJob, VerifySteps, CardSteps
  <2> QED
    BY <1>12, <2>1, <2>4, IssueCounts, ReadTyped DEF ClaimCheck, TypeOK
<1>13. ASSUME WriteGrammar(p) PROVE TypeOK'
  <2>1. jobs[p].ref \in RunRefs /\ jobs[p].report \in GrammarReport /\ jobs[p].by \in Provenance
    BY <1>13 DEF WriteGrammar, TypeOK, JobOK
  <2>2. Fits(jobs[p].ref, "grammar", [report |-> jobs[p].report, by |-> jobs[p].by])
    BY <2>1 DEF Fits, GrammarContent
  <2> QED
    BY <1>13, <2>1, <2>2, IdleTyped, WriteTyped DEF WriteGrammar, FileNames, TypeOK
<1>14. ASSUME Crash(p) PROVE TypeOK'
  <2>1. crashes' \in 0 .. MaxCrashes /\ commands' = commands /\ run_dirs' = run_dirs
    BY <1>14, PipelineBounds DEF Crash, TypeOK
  <2>2. CASE files' = files
    BY <1>14, <2>1, <2>2, IdleTyped, ReadTyped DEF Crash, TypeOK
  <2>3. CASE /\ jobs[p].step \in {"manifest", "metrics", "receipts", "report"}
             /\ Put(run_ref(jobs[p].by), jobs[p].step, Torn)
    <3>1. run_ref(jobs[p].by) \in RunRefs /\ jobs[p].step \in FileNames
      BY <2>3, VerifyFields DEF VerifySteps, FileNames
    <3> QED
      BY <1>14, <2>1, <2>3, <3>1, IdleTyped, WriteTyped DEF Crash
  <2>4. CASE /\ jobs[p].step \in {"card", "claim", "grammar"}
             /\ Put(jobs[p].ref, jobs[p].step, Torn)
    <3>1. jobs[p].ref \in RunRefs /\ jobs[p].step \in FileNames
      BY <2>4 DEF TypeOK, JobOK, CardSteps, FileNames
    <3> QED
      BY <1>14, <2>1, <2>4, <3>1, IdleTyped, WriteTyped DEF Crash
  <2> QED
    BY <1>14, <2>2, <2>3, <2>4 DEF Crash
<1> QED
  BY <1>1, <1>2, <1>3, <1>4, <1>5, <1>6, <1>7, <1>8, <1>9, <1>10, <1>11, <1>12, <1>13, <1>14
  DEF Step

(* Every file holds what a command with that run's name put there, or is torn.  *)
THEOREM TypeCorrect == Spec => []TypeOK
<1>1. ASSUME TypeOK, [Next]_vars PROVE TypeOK'
  <2>1. CASE UNCHANGED vars
    BY <1>1, <2>1 DEF vars, TypeOK, RunFilesOK
  <2>2. CASE Next
    BY <1>1, <2>2, StepTyped DEF Next
  <2> QED
    BY <1>1, <2>1, <2>2
<1> QED
  BY InitTyped, <1>1, PTL DEF Spec

-----------------------------------------------------------------------------
(* What a card, a claim and a grammar report owe their tier to.  The reports    *)
(* and the checks in flight have to be followed too: a report outlives the card *)
(* it was made of, and the draft guard may read it instead.                     *)

Earned(c) ==
    Causal(c) =>
        /\ \E in \in c.by.manifest : Gated(in)
        /\ c.by.report = {} /\ c.by.metrics = c.by.manifest =>
             \A in \in c.by.metrics : in.operations # {} => CleanControls(in)
(* A card without a tier forbids the words of causes.                           *)
Guarded(c) ==
    c # Torn /\ c.card.evidence_tier = "association" =>
        CausalWords \subseteq c.card.blocked_language
Backed(g) ==
    g.report.evidence_tier # "association" => \E in \in g.by.manifest : Gated(in)

CardsEarned ==
    \A ref \in RunRefs : /\ \A c \in files[ref].card : Earned(c) /\ Guarded(c)
                         /\ \A c \in files[ref].claim : Earned(c) /\ Guarded(c)
ReportsBacked == \A ref \in RunRefs : \A g \in files[ref].grammar \ {Torn} : Backed(g)
ChecksBacked == \A p \in Procs : jobs[p].step = "grammar" => Backed(jobs[p])
PipelineInv == TypeOK /\ CardsEarned /\ ReportsBacked /\ ChecksBacked

(* A card computed from the files of commands is earned: a tier above           *)
(* association leads back to a gated manifest and, where no report judged it,   *)
(* to clean controls.                                                           *)
LEMMA CardEarned ==
    ASSUME NEW job, job.step \in CardSteps, JobOK(job)
    PROVE  Earned(MechanismCard(job))
<1> DEFINE c == MechanismCard(job)
<1> SUFFICES ASSUME Causal(c) PROVE Earned(c)
  BY DEF Earned
<1>1. c.card.evidence_tier # "association" /\ c.by = Sources(job)
  BY DEF Causal, MechanismCard
<1>2. \E in \in c.by.manifest : Gated(in)
  <2>1. Read(job.manifest) \in job.manifest /\ Gated(Read(job.manifest).by)
    BY <1>1, CardGated
  <2>2. c.by.manifest = { m.by : m \in job.manifest }
    BY <1>1 DEF Sources
  <2> QED
    BY <2>1, <2>2
<1>3. ASSUME c.by.report = {}, c.by.metrics = c.by.manifest,
             NEW in \in c.by.metrics, in.operations # {}
      PROVE  CleanControls(in)
  BY <1>1, <1>3, CardControls
<1> QED
  BY <1>2, <1>3 DEF Earned

(* ... and guarded: an association card is given the list of its tier.          *)
LEMMA CardGuarded ==
    ASSUME NEW job
    PROVE  Guarded(MechanismCard(job))
<1> DEFINE c == MechanismCard(job).card
<1> SUFFICES ASSUME c.evidence_tier = "association"
             PROVE  CausalWords \subseteq c.blocked_language
  BY DEF Guarded
<1>1. \E B : c.blocked_language = blocked_language(c.evidence_tier, B)
  BY DEF MechanismCard, card_from_run
<1>2. \A B : CausalWords \subseteq blocked_language("association", B)
  BY DEF blocked_language
<1> QED
  BY <1>1, <1>2

(* A write of an earned card, or of a report of one, keeps the cards earned and *)
(* the reports backed.                                                          *)
LEMMA PutInv ==
    ASSUME PipelineInv, NEW p \in Procs, NEW ref \in RunRefs, NEW f \in FileNames,
           NEW content, Put(ref, f, content),
           f \in {"card", "claim"} => Earned(content) /\ Guarded(content),
           f = "grammar" => content = Torn \/ Backed(content)
    PROVE  CardsEarned' /\ ReportsBacked'
<1>1. TypeOK
  BY DEF PipelineInv
<1>2. ASSUME NEW r \in RunRefs, NEW g \in {"card", "claim"}, NEW c \in files'[r][g]
      PROVE  Earned(c) /\ Guarded(c)
  <2>1. g \in FileNames
    BY DEF FileNames
  <2>2. CASE r = ref /\ g = f
    BY <1>1, <1>2, <2>2, PutKeeps
  <2>3. CASE r # ref \/ g # f
    BY <1>1, <1>2, <2>1, <2>3, PutKeeps DEF PipelineInv, CardsEarned
  <2> QED
    BY <2>2, <2>3
<1>3. ASSUME NEW r \in RunRefs, NEW g \in files'[r].grammar \ {Torn}
      PROVE  Backed(g)
  <2>1. CASE r = ref /\ f = "grammar"
    BY <1>1, <1>3, <2>1, PutKeeps
  <2>2. CASE r # ref \/ f # "grammar"
    BY <1>1, <1>3, <2>2, PutKeeps DEF PipelineInv, ReportsBacked, FileNames
  <2> QED
    BY <2>1, <2>2
<1> QED
  BY <1>2, <1>3 DEF CardsEarned, ReportsBacked

(* A process that goes on to write the report of an earned card keeps the       *)
(* reports in hand backed.                                                      *)
LEMMA GotoInv ==
    ASSUME PipelineInv, NEW p \in Procs, NEW job, Goto(p, job),
           job.step = "grammar" => Backed(job)
    PROVE  ChecksBacked'
BY DEF PipelineInv, TypeOK, ChecksBacked, Goto

(* The file a write names, and what a step leaves its process to do.            *)
LEMMA StepInv ==
    ASSUME PipelineInv, NEW p \in Procs, Step(p)
    PROVE  PipelineInv'
<1>0. TypeOK /\ TypeOK'
  BY StepTyped DEF PipelineInv
<1>u. ASSUME files' = files PROVE CardsEarned' /\ ReportsBacked'
  BY <1>u DEF PipelineInv, CardsEarned, ReportsBacked
<1>s. /\ Idle.step # "grammar"
      /\ \A step, in : VerifyJob(step, in).step = step
      /\ \A step, ref, M, X, R : CardJob(step, ref, M, X, R).step = step
  BY DEF Idle, VerifyJob, CardJob
<1>1. ASSUME NEW in \in Payloads, Verify(p, in)
      PROVE  CardsEarned' /\ ReportsBacked' /\ ChecksBacked'
  BY <1>1, <1>u, <1>s, GotoInv DEF Verify
<1>2. ASSUME WriteManifest(p) PROVE CardsEarned' /\ ReportsBacked' /\ ChecksBacked'
  <2>1. run_ref(jobs[p].by) \in RunRefs
    BY <1>0, <1>2, VerifyFields DEF WriteManifest, VerifySteps
  <2> QED
    BY <1>2, <1>s, <2>1, PutInv, GotoInv DEF WriteManifest, FileNames
<1>3. ASSUME WriteMetrics(p) PROVE CardsEarned' /\ ReportsBacked' /\ ChecksBacked'
  <2>1. run_ref(jobs[p].by) \in RunRefs
    BY <1>0, <1>3, VerifyFields DEF WriteMetrics, VerifySteps
  <2> QED
    BY <1>3, <1>s, <2>1, PutInv, GotoInv DEF WriteMetrics, FileNames
<1>4. ASSUME WriteReceipts(p) PROVE CardsEarned' /\ ReportsBacked' /\ ChecksBacked'
  <2>1. run_ref(jobs[p].by) \in RunRefs
    BY <1>0, <1>4, VerifyFields DEF WriteReceipts, VerifySteps
  <2>2. (IF blockers(jobs[p].by) # {} THEN VerifyJob("report", jobs[p].by) ELSE Idle).step
           # "grammar"
    BY <1>s
  <2> QED
    BY <1>4, <2>1, <2>2, PutInv, GotoInv DEF WriteReceipts, FileNames
<1>5. ASSUME WriteReport(p) PROVE CardsEarned' /\ ReportsBacked' /\ ChecksBacked'
  <2>1. run_ref(jobs[p].by) \in RunRefs
    BY <1>0, <1>5, VerifyFields DEF WriteReport, VerifySteps
  <2> QED
    BY <1>5, <1>s, <2>1, PutInv, GotoInv DEF WriteReport, FileNames
<1>6. ASSUME NEW ref \in RunRefs, Card(p, ref)
      PROVE  CardsEarned' /\ ReportsBacked' /\ ChecksBacked'
  BY <1>6, <1>u, <1>s, GotoInv DEF Card
<1>7. ASSUME ReadManifest(p) PROVE CardsEarned' /\ ReportsBacked' /\ ChecksBacked'
  BY <1>7, <1>u, <1>s, GotoInv DEF ReadManifest
<1>8. ASSUME ReadMetrics(p) PROVE CardsEarned' /\ ReportsBacked' /\ ChecksBacked'
  BY <1>8, <1>u, <1>s, GotoInv DEF ReadMetrics
<1>9. ASSUME ReadReport(p) PROVE CardsEarned' /\ ReportsBacked' /\ ChecksBacked'
  BY <1>9, <1>u, <1>s, GotoInv DEF ReadReport
<1>10. ASSUME WriteCard(p) PROVE CardsEarned' /\ ReportsBacked' /\ ChecksBacked'
  <2>1. JobOK(jobs[p]) /\ jobs[p].ref \in RunRefs /\ jobs[p].step \in CardSteps
    BY <1>0, <1>10, CardFields DEF WriteCard, CardSteps
  <2>2. Earned(MechanismCard(jobs[p])) /\ Guarded(MechanismCard(jobs[p]))
    BY <2>1, CardEarned, CardGuarded
  <2>3. [jobs[p] EXCEPT !.step = "claim"].step # "grammar"
    BY <2>1 DEF JobOK, CardJob
  <2> QED
    BY <1>10, <2>1, <2>2, <2>3, PutInv, GotoInv DEF WriteCard, FileNames
<1>11. ASSUME PublishClaim(p) PROVE CardsEarned' /\ ReportsBacked' /\ ChecksBacked'
  <2>1. JobOK(jobs[p]) /\ jobs[p].ref \in RunRefs /\ jobs[p].step \in CardSteps
    BY <1>0, <1>11, CardFields DEF PublishClaim, CardSteps
  <2>2. Earned(MechanismCard(jobs[p])) /\ Guarded(MechanismCard(jobs[p]))
    BY <2>1, CardEarned, CardGuarded
  <2> QED
    BY <1>11, <1>s, <2>1, <2>2, PutInv, GotoInv DEF PublishClaim, FileNames
<1>12. ASSUME NEW ref \in RunRefs, NEW t \in ClaimTypes, NEW profile \in Profiles,
              ClaimCheck(p, ref, t, profile)
       PROVE  CardsEarned' /\ ReportsBacked' /\ ChecksBacked'
  <2>1. PICK claim \in files[ref].claim \ {Torn} :
          Goto(p, CheckJob(ref, check_claim([claim.card EXCEPT !.policy_profile = profile], t),
                           claim.by))
    BY <1>12 DEF ClaimCheck
  <2>2. claim \in CardContent /\ Earned(claim)
    BY <1>0, <2>1 DEF PipelineInv, CardsEarned, TypeOK, RunFilesOK, FileNames, Fits
  <2>3. check_claim([claim.card EXCEPT !.policy_profile = profile], t).evidence_tier
          = claim.card.evidence_tier
    BY <2>2, CheckTyped DEF CardContent
  <2>4. Backed(CheckJob(ref, check_claim([claim.card EXCEPT !.policy_profile = profile], t),
                        claim.by))
    BY <2>1, <2>2, <2>3 DEF Backed, CheckJob, Earned, Causal
  <2> QED
    BY <1>12, <1>u, <2>1, <2>4, GotoInv DEF ClaimCheck
<1>13. ASSUME WriteGrammar(p) PROVE CardsEarned' /\ ReportsBacked' /\ ChecksBacked'
  <2>1. jobs[p].ref \in RunRefs
    BY <1>0, <1>13 DEF WriteGrammar, TypeOK, JobOK
  <2>2. Backed([report |-> jobs[p].report, by |-> jobs[p].by])
    BY <1>13 DEF WriteGrammar, PipelineInv, ChecksBacked, Backed
  <2> QED
    BY <1>13, <1>s, <2>1, <2>2, PutInv, GotoInv DEF WriteGrammar, FileNames
<1>14. ASSUME Crash(p) PROVE CardsEarned' /\ ReportsBacked' /\ ChecksBacked'
  <2>1. ChecksBacked'
    BY <1>14, <1>s, GotoInv DEF Crash
  <2>2. Earned(Torn) /\ Guarded(Torn)
    BY DEF Earned, Guarded, Causal
  <2>3. CASE files' = files
    BY <2>1, <2>3, <1>u
  <2>4. CASE /\ jobs[p].step \in {"manifest", "metrics", "receipts", "report"}
             /\ Put(run_ref(jobs[p].by), jobs[p].step, Torn)
    <3>1. run_ref(jobs[p].by) \in RunRefs /\ jobs[p].step \in FileNames
      BY <1>0, <2>4, VerifyFields DEF VerifySteps, FileNames
    <3> QED
      BY <2>1, <2>2, <2>4, <3>1, PutInv
  <2>5. CASE /\ jobs[p].step \in {"card", "claim", "grammar"}
             /\ Put(jobs[p].ref, jobs[p].step, Torn)
    <3>1. jobs[p].ref \in RunRefs /\ jobs[p].step \in FileNames
      BY <1>0, <2>5 DEF TypeOK, JobOK, CardSteps, FileNames
    <3> QED
      BY <2>1, <2>2, <2>5, <3>1, PutInv
  <2> QED
    BY <1>14, <2>3, <2>4, <2>5 DEF Crash
<1>15. CardsEarned' /\ ReportsBacked' /\ ChecksBacked'
  BY <1>1, <1>2, <1>3, <1>4, <1>5, <1>6, <1>7, <1>8, <1>9, <1>10, <1>11, <1>12, <1>13, <1>14
  DEF Step
<1> QED
  BY <1>0, <1>15 DEF PipelineInv

(* The invariant of the pipeline, for every behaviour.                          *)
LEMMA Inductive == Spec => []PipelineInv
<1>1. Init => PipelineInv
  <2> SUFFICES ASSUME Init PROVE PipelineInv
    OBVIOUS
  <2>1. \A p \in Procs : jobs[p].step # "grammar"
    BY DEF Init, Idle
  <2> QED
    BY <2>1, InitTyped DEF Init, PipelineInv, CardsEarned, ReportsBacked, ChecksBacked
<1>2. ASSUME PipelineInv, [Next]_vars PROVE PipelineInv'
  <2>1. CASE UNCHANGED vars
    BY <1>2, <2>1
    DEF vars, PipelineInv, CardsEarned, ReportsBacked, ChecksBacked, TypeOK, RunFilesOK
  <2>2. CASE Next
    BY <1>2, <2>2, StepInv DEF Next
  <2> QED
    BY <1>2, <2>1, <2>2
<1> QED
  BY <1>1, <1>2, PTL DEF Spec

-----------------------------------------------------------------------------
(* The draft guard.                                                             *)

(* The type a sentence claims, judged by its phrases, is a claim type.          *)
LEMMA InferTyped ==
    ASSUME NEW phrases
    PROVE  infer_claim_type(phrases) \in ClaimTypes
<1> DEFINE marked == { m[2] : m \in { n \in MARKERS : n[1] \in phrases } } \cup {"association"}
<1>1. \A m \in MARKERS : m[2] \in ClaimTypes
  <2>1. \A a, b : << a, b >>[2] = b
    OBVIOUS
  <2>2. \A m \in MARKERS : \E a, b : m = << a, b >> /\ b \in ClaimTypes
    BY ClaimOrders, Zenon DEF MARKERS
  <2> QED
    BY <2>1, <2>2
<1>2. marked \subseteq ClaimTypes /\ "association" \in marked
  BY <1>1, ClaimOrders
<1>3. /\ MarkerOrder["association"] = 1 /\ MarkerOrder["projection"] = 2
      /\ MarkerOrder["causal_necessity"] = 3 /\ MarkerOrder["causal_sufficiency"] = 4
      /\ MarkerOrder["generalization"] = 5 /\ MarkerOrder["mediation"] = 6
      /\ MarkerOrder["mechanism"] = 7
  BY DEF MarkerOrder
<1>4. \E t \in marked : \A s \in marked : MarkerOrder[s] <= MarkerOrder[t]
  <2> HIDE DEF marked
  <2>1. marked \subseteq {"association", "projection", "causal_necessity", "causal_sufficiency",
                          "mediation", "generalization", "mechanism"}
    BY <1>2, ClaimOrders
  <2>2. CASE "mechanism" \in marked
    BY <1>3, <2>1, <2>2
  <2>3. CASE "mechanism" \notin marked /\ "mediation" \in marked
    BY <1>3, <2>1, <2>3
  <2>4. CASE {"mechanism", "mediation"} \cap marked = {} /\ "generalization" \in marked
    BY <1>3, <2>1, <2>4
  <2>5. CASE /\ {"mechanism", "mediation", "generalization"} \cap marked = {}
             /\ "causal_sufficiency" \in marked
    BY <1>3, <2>1, <2>5
  <2>6. CASE marked \subseteq {"association", "projection", "causal_necessity"}
    BY <1>2, <1>3, <2>6
  <2> QED
    BY <2>1, <2>2, <2>3, <2>4, <2>5, <2>6
<1>5. infer_claim_type(phrases) =
        CHOOSE t \in marked : \A s \in marked : MarkerOrder[s] <= MarkerOrder[t]
  BY DEF infer_claim_type
<1> HIDE DEF marked
<1> QED
  BY <1>2, <1>4, <1>5

(* A card of tier "association" lets a sentence say no more than that.          *)
LEMMA AssociationOnly ==
    ASSUME NEW c, c.evidence = {}, c.evidence_tier = "association",
           NEW t \in ClaimTypes, t # "association"
    PROVE  Status(c, t) = "blocked"
<1>1. Evidence(c) = {"association"}
  BY ClaimOrders DEF Evidence, TIER_EVIDENCE, CLAIM_REQUIREMENTS
<1>2. "static_projection_or_path_algebra" \in CLAIM_REQUIREMENTS[t]
  BY ClaimOrders DEF CLAIM_REQUIREMENTS, NecessityEvidence
<1>3. "static_projection_or_path_algebra" \in requirements_for_profile(t, c.policy_profile)
  BY <1>2 DEF requirements_for_profile
<1>4. Missing(c, t) # {}
  BY <1>1, <1>3 DEF Missing
<1> QED
  BY <1>4 DEF Status, Blocked

(* A card that the draft guard resolves a reference to has no evidence of its   *)
(* own, and a tier above association only from a gated command.                 *)
LEMMA ResolvedBacked ==
    ASSUME PipelineInv, NEW ref \in RunRefs, NEW x \in Resolved(ref)
    PROVE  /\ x.card.evidence = {}
           /\ x.card.evidence_tier # "association" => \E in \in x.by.manifest : Gated(in)
<1>1. \A r \in RunRefs : Torn \notin files[r].claim /\ Torn \notin files[r].grammar
  BY DEF Resolved
<1>2. CASE x \in files[ref].claim
  <2>1. x # Torn /\ x \in CardContent /\ Earned(x)
    BY <1>1, <1>2 DEF PipelineInv, CardsEarned, TypeOK, RunFilesOK, FileNames, Fits
  <2> QED
    BY <2>1 DEF CardContent, CardPayload, Earned, Causal
<1>3. CASE x \notin files[ref].claim
  <2>1. PICK g \in files[ref].grammar : x = [card |-> as_card(g.report), by |-> g.by]
    BY <1>1, <1>3 DEF Resolved
  <2>2. Backed(g)
    BY <1>1, <2>1 DEF PipelineInv, ReportsBacked
  <2> QED
    BY <2>1, <2>2 DEF Backed, as_card
<1> QED
  BY <1>2, <1>3

-----------------------------------------------------------------------------
(* CausalNeedsGate: nothing above an association without a command that passed  *)
(* every gate of verify, whatever overwrites what.                              *)
THEOREM CausalGated == Spec => []CausalNeedsGate
<1>1. PipelineInv => CausalNeedsGate
  BY DEF PipelineInv, CardsEarned, Earned, CausalNeedsGate
<1> QED
  BY <1>1, Inductive, PTL

(* CausalNeedsControls: the card of one command's files is causal only over     *)
(* clean controls.                                                              *)
THEOREM CausalControlled == Spec => []CausalNeedsControls
<1>1. PipelineInv => CausalNeedsControls
  BY DEF PipelineInv, CardsEarned, Earned, CausalNeedsControls
<1> QED
  BY <1>1, Inductive, PTL

(* ClaimBearingNeedsGate: the flag claim_bearing needs the lock and the static  *)
(* report.                                                                      *)
THEOREM ClaimBearingGated == Spec => []ClaimBearingNeedsGate
<1>1. TypeOK => ClaimBearingNeedsGate
  <2> SUFFICES ASSUME TypeOK, NEW ref \in RunRefs, NEW m \in files[ref].manifest \ {Torn},
                      m.claim_bearing
               PROVE  m.by.lock /\ m.by.static = "pass" /\ ~m.by.diagnostic_only
    BY DEF ClaimBearingNeedsGate
  <2>1. m.by \in Payloads /\ m = Manifest(m.by)
    BY DEF TypeOK, RunFilesOK, FileNames, Fits, ManifestOf, Ran
  <2>2. claim_bearing(m.by)
    BY <2>1 DEF Manifest
  <2> QED
    BY <2>1, <2>2, BearingGated
<1> QED
  BY <1>1, TypeCorrect, PTL

(* AllowedDraftNeedsGate: what a draft is let say beyond an association, by a   *)
(* claim type's marker through a card or a report of any age, or by a forbidden *)
(* word through a card, leads back to such a command.                           *)
THEOREM DraftGated == Spec => []AllowedDraftNeedsGate
<1>1. PipelineInv => AllowedDraftNeedsGate
  <2> SUFFICES ASSUME PipelineInv, NEW ref \in RunRefs, NEW x \in Resolved(ref),
                      NEW phrases \in Sentences, SaysMore(x, ref, phrases),
                      check_sentence(x.card, phrases, TRUE) = "allowed"
               PROVE  \E in \in x.by.manifest : Gated(in)
    BY DEF AllowedDraftNeedsGate
  <2>1. /\ Status(x.card, infer_claim_type(phrases)) # "blocked"
        /\ phrases \cap x.card.blocked_language = {}
    BY DEF check_sentence
  <2>2. CASE infer_claim_type(phrases) # "association"
    <3>1. x.card.evidence_tier # "association"
      BY <2>1, <2>2, InferTyped, AssociationOnly, ResolvedBacked
    <3> QED
      BY <3>1, ResolvedBacked
  <2>3. CASE x \in files[ref].claim /\ phrases \cap CausalWords # {}
    <3>1. Guarded(x) /\ x # Torn
      BY <2>3 DEF PipelineInv, CardsEarned, Resolved
    <3>2. x.card.evidence_tier # "association"
      BY <2>1, <2>3, <3>1 DEF Guarded
    <3> QED
      BY <3>2, ResolvedBacked
  <2> QED
    BY <2>2, <2>3 DEF SaysMore
<1> QED
  BY <1>1, Inductive, PTL
===============================================================================
