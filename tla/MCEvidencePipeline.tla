-------------------------- MODULE MCEvidencePipeline --------------------------
EXTENDS EvidencePipeline, TLC

Full == {"resample_ablate", "noising", "denoising"}

(* A locked, statically passing, executed strict command; the others vary it.   *)
Strict(operations, target, control) ==
    [lock |-> TRUE, static |-> "pass", diagnostic_only |-> FALSE, dry_run |-> FALSE,
     verification |-> TRUE, operations |-> operations, off_manifold |-> FALSE,
     profile |-> "strict", zero_ablation_claim_ceiling |-> "diagnostic_only",
     target_delta |-> target, matched_control_delta |-> control]
Good == Strict(Full, 10, 1)
Leaking == Strict(Full, 10, 8)
Drifting == [Good EXCEPT !.off_manifold = TRUE]
Partial == Strict({"resample_ablate"}, 10, 9)
Zero == [Strict({"zero_ablate"}, 10, 1) EXCEPT !.profile = "exploratory"]

(* Each gate failed alone, and each way past one.                               *)
MCGatePayloads ==
    { Good, Leaking, Drifting,
      [Good EXCEPT !.lock = FALSE], [Good EXCEPT !.static = "missing"],
      [Good EXCEPT !.static = "fail"], [Good EXCEPT !.diagnostic_only = TRUE],
      [Good EXCEPT !.dry_run = TRUE], [Good EXCEPT !.verification = FALSE],
      Partial, [Partial EXCEPT !.profile = "exploratory"],
      Zero, [Zero EXCEPT !.zero_ablation_claim_ceiling = "causal_necessity"],
      [Strict({}, 0, 0) EXCEPT !.profile = "exploratory"] }

(* The run directory that two profiles share.                                   *)
MCPartialPayloads == { Partial, [Partial EXCEPT !.profile = "exploratory"] }

(* A sentence with each phrase alone.                                           *)
MCSentences == { {phrase} : phrase \in Phrases }

Symmetric == Permutations(Procs)
===============================================================================
