-------------------------------- MODULE Ledgers --------------------------------
(* The research ledgers (ledgers.py): what the parsers make of the text of a    *)
(* ledger, and the entries `mwb ledger propose-run` and `propose-claim` offer   *)
(* for review.                                                                  *)
(*                                                                              *)
(* A Markdown ledger is the sequence of its headings, outside of fences, each   *)
(*   [heading, block, payload]                                                  *)
(* with the state of the YAML block that should follow and its mapping, a       *)
(* function from the fields that are there; of a list only that it is one is    *)
(* kept ("list").  The run ledger is the sequence of its rows.  A file may      *)
(* also be missing (NoFile) or empty (Blank).                                   *)
EXTENDS Integers, SequencesExt

CONSTANTS
    NoFile, Blank,
    Headings        \* [claims, decisions, research |-> what the patterns match]

Kinds == {"claims", "decisions", "research", "runs"}
id_field == [claims |-> "claim_id", decisions |-> "decision_id", research |-> "entry_id",
             runs |-> "run_id"]

CLAIM_STATUSES ==
    {"no_real_evidence", "single_run_evidence", "candidate_evidence", "causal_evidence",
     "replicated_evidence", "weakened", "contradicted", "insufficient_evidence"}
DECISION_STATUSES == {"proposed", "accepted", "superseded", "rejected"}

Required ==
    [claims |-> {"status", "allowed", "forbidden"}, decisions |-> {"status"},
     research |-> {"entry_id"}, runs |-> {"run_id"}]
RequiredLists ==
    [claims |-> {"allowed", "forbidden"}, decisions |-> {}, research |-> {}, runs |-> {}]
OptionalLists ==
    [claims |-> {"required_caveats", "debt_flags", "linked_experiments", "linked_runs",
                 "linked_decisions", "tags"},
     decisions |-> {"affected_experiments", "affected_claims"},
     research |-> {"linked_runs", "linked_claims", "linked_decisions", "open_questions"},
     runs |-> {}]

(* payload.get(field)                                                           *)
Get(payload, field) == IF field \in DOMAIN payload THEN payload[field] ELSE ""

UnknownStatus(kind, payload) ==
    \/ kind = "claims" /\ Get(payload, "status") \notin CLAIM_STATUSES
    \/ kind = "decisions" /\ Get(payload, "status") \notin DECISION_STATUSES

(* The elements of a sequence that are in a set.                                *)
Among(seq, chosen) ==
    FlattenSeq([i \in DOMAIN seq |-> IF seq[i] \in chosen THEN << seq[i] >> ELSE << >>])

(* _parse_markdown_yaml_entries: the headings that are entries.  The entries of *)
(* the research log lie under dates and are named by their payloads alone.      *)
Matched(kind, section) == section.heading \in Headings[kind]
IsEntry(kind, section) == Matched(kind, section) /\ section.block = "yaml"
EntryId(kind, section) ==
    IF kind = "research" THEN Get(section.payload, "entry_id") ELSE section.heading
markdown_entries(kind, text) ==
    Among(text, { section \in Range(text) : IsEntry(kind, section) })

Misnamed(kind, section) ==
    \/ id_field[kind] \notin DOMAIN section.payload
    \/ kind # "research" /\ Get(section.payload, id_field[kind]) # section.heading
Malformed(kind, payload) ==
    \/ ~ Required[kind] \subseteq DOMAIN payload
    \/ UnknownStatus(kind, payload)
    \/ \E field \in RequiredLists[kind] \cup (OptionalLists[kind] \cap DOMAIN payload) :
         Get(payload, field) # "list"
Repeated(ids) == \E i, j \in DOMAIN ids : i < j /\ ids[i] = ids[j]

(* parse_claim_ledger, parse_decision_log and parse_research_log: is there an   *)
(* error?  A heading that no pattern matches is none.                           *)
markdown_errors(kind, text) ==
    LET entries == markdown_entries(kind, text)
    IN  \/ \E i \in DOMAIN text : Matched(kind, text[i]) /\ text[i].block # "yaml"
        \/ \E i \in DOMAIN entries : Misnamed(kind, entries[i])
                                     \/ Malformed(kind, entries[i].payload)
        \/ Repeated([i \in DOMAIN entries |-> EntryId(kind, entries[i])])

(* parse_run_ledger; an empty file has no header.                               *)
named_rows(rows) == Among(rows, { row \in Range(rows) : row.run_id # "" })
run_errors(rows) ==
    LET named == named_rows(rows)
    IN  \/ \E i \in DOMAIN rows : rows[i].run_id = ""
        \/ Repeated([i \in DOMAIN named |-> named[i].run_id])

(* parse_research_ledgers, of one ledger.                                       *)
HasErrors(kind, text) ==
    \/ text = NoFile
    \/ text = Blank /\ kind = "runs"
    \/ text \notin {NoFile, Blank} /\ kind = "runs" /\ run_errors(text)
    \/ text \notin {NoFile, Blank} /\ kind # "runs" /\ markdown_errors(kind, text)

(* The rows of a ledger in the order of its entries.                            *)
LedgerRow(kind, ref, payload) ==
    [ref |-> ref, payload |-> [ledger_kind |-> kind, fields |-> payload]]
Entries(kind, text) ==
    IF text \in {NoFile, Blank} THEN << >>
    ELSE IF kind = "runs"
    THEN LET named == named_rows(text)
         IN  [i \in DOMAIN named |-> LedgerRow(kind, named[i].run_id, named[i])]
    ELSE LET entries == markdown_entries(kind, text)
         IN  [i \in DOMAIN entries |->
                 LedgerRow(kind, EntryId(kind, entries[i]), entries[i].payload)]

-----------------------------------------------------------------------------
(* The proposals, with {} or {value} for what a card or report may lack.        *)

(* Mutant: the status of the card, as it is.                                    *)
_claim_status_from_card_AsIs(card) == card.status
_claim_status_from_card(card) ==
    IF card.status \in CLAIM_STATUSES THEN card.status
    ELSE IF card.evidence_tier \in {"association", "projection"} THEN "single_run_evidence"
    ELSE "no_real_evidence"

(* propose_claim_update; a card that names no claim is given C000 and its ref.  *)
claim_id_of(card) ==
    IF card.claim_ref # {} THEN CHOOSE ref \in card.claim_ref : TRUE ELSE card.c000_ref
claim_proposal(card) ==
    LET lists == {"allowed", "forbidden", "required_caveats", "debt_flags", "linked_runs",
                  "linked_decisions"}
    IN  [heading |-> claim_id_of(card), block |-> "yaml",
         payload |-> [field \in lists \cup {"claim_id", "status"} |->
                         IF field \in lists THEN "list"
                         ELSE IF field = "claim_id" THEN claim_id_of(card)
                         ELSE _claim_status_from_card(card)]]

(* propose_run_ledger_row, of what it reads: a row is a run, its status and     *)
(* the primary blocker of its report.                                           *)
run_proposal(manifest, report) ==
    [run_id |-> manifest.run_ref, status |-> manifest.status, blocker |-> report]
================================================================================
