------------------------ MODULE MCHypothesisLifecycle ------------------------
EXTENDS HypothesisLifecycle

Req(to, tier, status, approval) ==
    [to |-> to, tier |-> tier, status |-> status, approval |-> approval]

(* One command for each forward rung, a kill, the approved promotion, the       *)
(* promotion with half an approval and with none.                               *)
MCRequests ==
    { Req(s, "", "", {}) : s \in Rungs \ {"noticed", "cheap_proxy_supported"} }
    \cup { Req("cheap_proxy_supported", "projection", "single_run_evidence", {}),
           Req("abandoned", "", "", {}),
           Req("claimable", "", "", {"approved_by"}),
           Req("claimable", "", "", Approval) }
==============================================================================
