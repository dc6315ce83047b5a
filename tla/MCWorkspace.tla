------------------------------ MODULE MCWorkspace ------------------------------
EXTENDS Workspace

Symmetric == Permutations(Procs)

MCRuns == << "r1" >>
MCManifest ==
    [r \in Range(MCRuns) |-> [run_ref |-> r, status |-> "insufficient_evidence",
                              hypothesis |-> "h"]]
MCReport == [r1 |-> "control_leaky"]

MCHeadings ==
    [claims |-> {"C1", "C2", "C000_mc"}, decisions |-> {"D1", "D2"},
     research |-> {"2026-06-26"}, runs |-> {}]

(* A card whose claim the user named, and one as card_from_run makes it.        *)
MCCard(claim) ==
    [claim_ref |-> {claim}, status |-> "association_only", evidence_tier |-> "association",
     c000_ref |-> "C000_mc"]
MCCards == { MCCard("C2"), MCCard("claim_r1") }

Lists(fields) == [field \in fields |-> "list"]
Claim(id, status) ==
    [heading |-> id, block |-> "yaml",
     payload |-> Lists({"allowed", "forbidden"}) @@ ("claim_id" :> id)
                @@ ("status" :> status)]
Decision(id, status) ==
    [heading |-> id, block |-> "yaml",
     payload |-> Lists({"affected_claims"}) @@ ("decision_id" :> id)
                @@ ("status" :> status)]
(* A claim, a decision that parses beside one that does not, and a run.         *)
MCTexts ==
    [claims |-> { << Claim("C1", "weakened") >> },
     decisions |-> { << Decision("D1", "accepted"), Decision("D2", "proven") >> },
     research |-> {},
     runs |-> { << [run_id |-> "r1", status |-> "done", blocker |-> ""] >> }]
================================================================================
