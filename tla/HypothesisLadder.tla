--------------------------- MODULE HypothesisLadder ---------------------------
(* What the hypothesis lifecycle promises (docs/HYPOTHESIS_LIFECYCLE.md,         *)
(* "States"): one research state that climbs the ladder rung by rung, may be     *)
(* killed from anywhere, and is promoted to "claimable" only with an approval.   *)
(* A transition is one step here; HypothesisLifecycle is how the code makes it.  *)
EXTENDS Naturals, Sequences

CONSTANTS LADDER, TERMINAL_STATES

VARIABLES
    current,    \* the research state
    approved    \* whether a promotion to "claimable" has ever been approved

vars == << current, approved >>

Init == current = "noticed" /\ approved = FALSE

Advance ==
    /\ \E i \in 1 .. Len(LADDER) - 2 : current = LADDER[i] /\ current' = LADDER[i + 1]
    /\ UNCHANGED approved

Promote ==
    /\ current = LADDER[Len(LADDER) - 1]
    /\ current' = "claimable" /\ approved' = TRUE

(* An approval may also be restated.                                             *)
Reapprove == current = "claimable" /\ approved' = TRUE /\ UNCHANGED current

Kill == current' \in TERMINAL_STATES /\ UNCHANGED approved

Next == Advance \/ Promote \/ Reapprove \/ Kill

Spec == Init /\ [][Next]_vars
===============================================================================
