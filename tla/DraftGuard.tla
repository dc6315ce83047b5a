------------------------------ MODULE DraftGuard ------------------------------
(* The draft guard (workflows/draft_guard.py) and the claim type the grammar    *)
(* infers from a sentence.  A sentence is the set of the tables' phrases that   *)
(* occur in it, and whether it spells out the required caveats.                 *)
EXTENDS MechanismCards

(* The phrases of the language tables with the claim type their marker names;   *)
(* "causes" and "fully explains" carry no marker.                               *)
MARKERS ==
    { << "implements", "mechanism" >>, << "mediates the tested effect", "mediation" >>,
      << "generalizes across the tested settings", "generalization" >>,
      << "is sufficient for", "causal_sufficiency" >>,
      << "is necessary for", "causal_necessity" >>,
      << "is causally implicated in", "causal_necessity" >>,
      << "projects onto", "projection" >>, << "is associated with", "association" >> }
Phrases == { m[1] : m \in MARKERS } \cup {"causes", "fully explains"}

(* infer_claim_type tries the types in this order, the last one first.          *)
MarkerOrder ==
    [mechanism |-> 7, mediation |-> 6, generalization |-> 5, causal_sufficiency |-> 4,
     causal_necessity |-> 3, projection |-> 2, association |-> 1]
infer_claim_type(phrases) ==
    LET marked == { m[2] : m \in { n \in MARKERS : n[1] \in phrases } } \cup {"association"}
    IN  CHOOSE t \in marked : \A s \in marked : MarkerOrder[s] <= MarkerOrder[t]

(* Mutant: grammar verdicts are not consulted, only the phrase lists.           *)
check_sentence_PhrasesOnly(card, phrases, caveated) ==
    IF phrases \cap card.blocked_language # {} THEN "blocked"
    ELSE IF card.required_caveats /\ ~caveated THEN "caveated" ELSE "allowed"

(* check_draft_text, of one tagged sentence against the payload its tag         *)
(* resolves to: the grammar first, then the card's phrase list, then its        *)
(* required caveats.                                                            *)
check_sentence(card, phrases, caveated) ==
    LET verdict == Status(card, infer_claim_type(phrases))
    IN  IF verdict \in {"blocked", "caveated"} THEN verdict
        ELSE IF phrases \cap card.blocked_language # {} THEN "blocked"
        ELSE IF card.required_caveats /\ ~caveated THEN "caveated" ELSE "allowed"
===============================================================================
