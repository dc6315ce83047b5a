----------------------------- MODULE ClaimReview -----------------------------
(* One claim through its reviews: the card that `mwb claim check` and the draft *)
(* guard judge is edited between two checks.  Evidence is added to the list the *)
(* file carries, a blocker or an item of scientific debt is recorded, an item   *)
(* is resolved, a blocker cleared, in the card's own lists or in those of its   *)
(* metadata.  The judgement is ClaimGrammar's.                                  *)
EXTENDS ClaimGrammar, FiniteSets

CONSTANTS
    Cards,          \* the cards a review may start from
    Items,          \* the evidence that may be added
    Findings,       \* the blockers that may be recorded
    Upgrades,       \* the claim types an item of debt may stand in the way of, or ""
    MaxBlockers, MaxDebt    \* bounds

DebtItem == [unresolved : BOOLEAN, upgrade_to : Upgrades]
ReviewedCard ==
    [evidence_tier : ClaimTypes, evidence : SUBSET SUBSET EvidenceItems,
     blockers : SUBSET Findings, debt : SUBSET DebtItem,
     metadata : [blockers : SUBSET Findings, debt : SUBSET DebtItem],
     policy_profile : {"strict", "exploratory"}]

ASSUME ItemsAssumption == Items \subseteq EvidenceItems
ASSUME CardsAssumption ==
    \A c \in Cards :
        /\ c \in ReviewedCard /\ c.blockers = {} /\ c.debt = {}
        /\ c.metadata = [blockers |-> {}, debt |-> {}]

VARIABLE card

InitReview == card \in Cards

AddEvidence ==
    /\ card.evidence # {}
    /\ \E item \in Items : card' = [card EXCEPT !.evidence = {Evidence(card) \cup {item}}]

RecordBlocker ==
    /\ Cardinality(card.blockers) + Cardinality(card.metadata.blockers) < MaxBlockers
    /\ \E b \in Findings :
         \/ card' = [card EXCEPT !.blockers = @ \cup {b}]
         \/ card' = [card EXCEPT !.metadata.blockers = @ \cup {b}]

ClearBlocker ==
    \/ \E b \in card.blockers : card' = [card EXCEPT !.blockers = @ \ {b}]
    \/ \E b \in card.metadata.blockers : card' = [card EXCEPT !.metadata.blockers = @ \ {b}]

RecordDebt ==
    /\ Cardinality(card.debt) + Cardinality(card.metadata.debt) < MaxDebt
    /\ \E u \in Upgrades :
         LET item == [unresolved |-> TRUE, upgrade_to |-> u]
         IN  \/ card' = [card EXCEPT !.debt = @ \cup {item}]
             \/ card' = [card EXCEPT !.metadata.debt = @ \cup {item}]

Settled(debt, item) == (debt \ {item}) \cup {[item EXCEPT !.unresolved = FALSE]}
ResolveDebt ==
    \/ \E item \in card.debt : card' = [card EXCEPT !.debt = Settled(@, item)]
    \/ \E item \in card.metadata.debt : card' = [card EXCEPT !.metadata.debt = Settled(@, item)]

NextReview == AddEvidence \/ RecordBlocker \/ ClearBlocker \/ RecordDebt \/ ResolveDebt

SpecReview == InitReview /\ [][NextReview]_card

-----------------------------------------------------------------------------
(* A review leaves a card the grammar can judge.                                *)
ReviewedOK == card \in ReviewedCard

Rank(verdict) ==
    CASE verdict = "allowed" -> 2 [] verdict = "caveated" -> 1 [] verdict = "blocked" -> 0

(* The second card is judged no better than the first, for any claim.           *)
NoBetter(old, new) ==
    \A t \in ClaimTypes :
        /\ Rank(Status(new, t)) <= Rank(Status(old, t))
        /\ claim_order(SupportedType(new, t)) <= claim_order(SupportedType(old, t))

(* A doubt more in the list the grammar reads never makes a verdict better or   *)
(* the supported claim type stronger: blocking, caveats and the search for the  *)
(* supported type agree on what weakens a claim.  A doubt recorded in an empty  *)
(* list of the card's own is another matter: it hides those of the metadata     *)
(* (claim_grammar.py:283-292), and can turn "blocked" into "caveated".          *)
SameBasis(old, new) ==
    old.evidence_tier = new.evidence_tier /\ old.policy_profile = new.policy_profile
Doubted(old, new) ==
    /\ SameBasis(old, new)
    /\ new.evidence = old.evidence
    /\ card_blockers(old) \subseteq card_blockers(new)
    /\ scientific_debt(old) \subseteq scientific_debt(new)
DoubtNeverHelps == [][Doubted(card, card') => NoBetter(card, card')]_card

(* Evidence never makes a verdict worse or the supported type weaker.           *)
Corroborated(old, new) ==
    /\ SameBasis(old, new)
    /\ card_blockers(new) = card_blockers(old)
    /\ scientific_debt(new) = scientific_debt(old)
    /\ Evidence(old) \subseteq Evidence(new)
EvidenceNeverHurts == [][Corroborated(card, card') => NoBetter(card', card)]_card

(* The type a report recommends instead is not one that a blocker or an item of *)
(* debt stops.                                                                  *)
SupportedIsUnblocked ==
    \A t \in ClaimTypes :
        LET s == SupportedType(card, t)
        IN  s # "association" => BlockingBlockers(card, s) = {} /\ BlockingDebt(card, s) = {}

(* A card that lists no evidence is let claim nothing above the tier it earned. *)
NothingAboveTier ==
    \A t \in ClaimTypes :
        card.evidence = {} /\ Status(card, t) # "blocked" =>
            claim_order(t) <= claim_order(card.evidence_tier)
==============================================================================
