---------------------------- MODULE MCEvidenceGraph ----------------------------
EXTENDS EvidenceGraph, TLC

Symmetric == Permutations(Procs)

Unit == << "unit", "u" >>
Features == << "obj", "features" >>
Graph == << "obj", "graph" >>
Hyp == << "hyp", "h" >>
Run == << "run", "r" >>
Card == << "mc", "r" >>
Claim == << "claim", "r" >>
Report == << "cgr", "r" >>

(* A session whose two objects are each other's parents.                        *)
Event(object, parents) ==
    [object_ref |-> object, cell_ref |-> << "cell", "1" >>, parents |-> parents,
     artifact_refs |-> {}]
MCSession ==
    [cells |-> {[cell_ref |-> << "cell", "1" >>, artifact_refs |-> {<< "art", "plot" >>}]},
     namespace_objects |-> {Event(Features, {Graph}), Event(Graph, {Features})},
     artifacts |-> {}]

MCHypothesis ==
    [ref |-> {Hyp}, units |-> {Unit}, example_bundle_ref |-> {}, control_bundle_ref |-> {},
     parents |-> {Unit, Features}]

(* A run, before and after it has a card, and run again with clean controls.    *)
MCRun(blockers, card, debt) ==
    [run_ref |-> {Run}, source_hypothesis_ref |-> {Hyp}, results |-> {},
     blocker_report |-> {[wb_ref |-> << "blocker", "r" >>, blockers |-> blockers]},
     card |-> card, debt |-> debt]
MCCard ==
    [card_ref |-> {Card}, claim_ref |-> {Claim}, metadata_claim_ref |-> {Claim},
     status |-> "insufficient_evidence"]
Debt(kind, blocker) ==
    [debt_ref |-> << "debt", kind >>, kind |-> kind, blocker |-> blocker]

MCReport ==
    [claim_ref |-> {Claim}, wb_ref |-> {Report}, mechanism_card_ref |-> {}, run_ref |-> {},
     parents |-> {Card}, draft_refs |-> {}]

Put(dir, path, doc) == [dir |-> dir, path |-> path, doc |-> doc]
MCHistory ==
    << Put("hypotheses", Hyp, MCHypothesis),
       Put("sessions", << "sess", "1" >>, MCSession),
       Put("runs", Run, MCRun({"control_leaky"}, {MCCard},
                              {Debt("controls", {"control_leaky"})})),
       Put("claims", Report, MCReport),
       Put("runs", Run, MCRun({}, {MCCard}, {})) >>
===============================================================================
