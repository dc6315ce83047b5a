------------------------------- MODULE NextProbe -------------------------------
(* What a run directory calls for next (workflows/next_probe.py,                *)
(* workflows/diagnosis.py): the next-probe plan, the diagnosis tree and the     *)
(* materialized probe of a payload, which is what the three files of a run hold.*)
(* Refs are hashes of what they name: plan, tree and probe are their own refs.  *)
(* Wording, provenance rows and the nodes, one per blocker, are left out.       *)
EXTENDS MechanismCards, SequencesExt

Axes == {"layers", "patch_modes"}
NoAxis == "none"    \* of a recommendation that names none
NoAxes == [axis \in Axes |-> << >>]

(* diagnose_blockers again, in the order it lists them and with its             *)
(* blocking_metrics that fail.                                                  *)
Listed(blocker, found) == IF blocker \in found THEN << blocker >> ELSE << >>
diagnosed(metrics) ==
    LET found == diagnose_blockers(metrics)
    IN  Listed("artifact_incomplete", found) \o Listed("control_leaky", found)
        \o Listed("specificity_gap_failed", found)
failing(metrics) ==
    (IF \E t \in metrics.target_delta, c \in metrics.matched_control_delta : Leaky(t, c)
     THEN {"matched_control_delta"} ELSE {})
    \cup (IF \E g \in metrics.family_min_gap : g <= 0 THEN {"family_min_gap"} ELSE {})
(* The first of these in BLOCKER_PRIORITY, which lacks the third.               *)
primary_blocker(blockers) ==
    IF "artifact_incomplete" \in Range(blockers) THEN {"artifact_incomplete"}
    ELSE {"control_leaky"} \cap Range(blockers)

(* load_next_probe_payload of a directory: a file is {} when missing.           *)
Field(file, field, missing) ==
    IF file = {} THEN missing ELSE (CHOOSE f \in file : TRUE)[field]
load_next_probe_payload(run_ref, manifest, metrics, report) ==
    LET reported == Field(report, "blockers", << >>)
    IN  [run_ref |-> run_ref,
         source_hypothesis_ref |-> Field(manifest, "source_hypothesis_ref", {}),
         status |-> Field(manifest, "status", "insufficient_evidence"),
         metrics |-> IF metrics = {} THEN NoMetrics ELSE CHOOSE m \in metrics : TRUE,
         blockers |-> IF reported # << >> \/ metrics \subseteq {NoMetrics} THEN reported
                      ELSE diagnosed(CHOOSE m \in metrics : TRUE),
         primary_blocker |-> Field(report, "primary_blocker", {}),
         failing |-> Field(report, "failing", {}),
         tried_axes |-> Field(manifest, "tried_axes", NoAxes),
         available_axes |-> Field(manifest, "available_axes", NoAxes)]

-----------------------------------------------------------------------------
(* _primary: four blockers come first, then whatever is listed first.           *)
_primary(blockers) ==
    LET found == Range(blockers)
    IN  IF "metadata_mismatch" \in found THEN "metadata_mismatch"
        ELSE IF "backend_untrusted" \in found THEN "backend_untrusted"
        ELSE IF "artifact_incomplete" \in found THEN "artifact_incomplete"
        ELSE IF "control_leaky" \in found THEN "control_leaky"
        ELSE IF blockers # << >> THEN Head(blockers) ELSE "insufficient_effect_size"

(* Mutant: what was tried is offered again.                                     *)
_untried_Any(name, tried, available) == available[name]
_untried(name, tried, available) ==
    FlattenSeq([i \in DOMAIN available[name] |->
                   IF available[name][i] \in Range(tried[name]) THEN << >>
                   ELSE << available[name][i] >>])

Recommendation(kind, axis, value) == [kind |-> kind, axis |-> axis, value |-> value]
_recommend(primary, tried, available) ==
    LET layers == _untried("layers", tried, available)
        patch_modes == _untried("patch_modes", tried, available)
    IN  CASE primary = "artifact_incomplete" ->
               Recommendation("recommendation_without_command", NoAxis, NoAxis)
          [] primary = "control_leaky" /\ layers # << >> ->
               Recommendation("smallest_axis_extension", "layers", Head(layers))
          [] /\ primary = "control_leaky" /\ layers = << >>
             /\ "direct" \in Range(patch_modes) ->
               Recommendation("switch_patch_mode", "patch_modes", "direct")
          [] /\ primary = "control_leaky" /\ layers = << >>
             /\ "direct" \notin Range(patch_modes) ->
               Recommendation("refresh_controls", NoAxis, NoAxis)
          [] OTHER -> Recommendation("heldout_generalization", NoAxis, NoAxis)

build_next_probe(payload) ==
    LET blockers == IF payload.blockers = << >> THEN diagnosed(payload.metrics)
                    ELSE payload.blockers
        primary == _primary(blockers)
    IN  [source_run_ref |-> payload.run_ref, status |-> payload.status, primary |-> primary,
         recommendation |-> _recommend(primary, payload.tried_axes, payload.available_axes)]

-----------------------------------------------------------------------------
(* diagnose_payload, with _negative_evidence; a debt is [unresolved, kind, ...].*)
diagnose_payload(payload, debt) ==
    LET planned == build_next_probe(payload).primary
        primary == IF payload.primary_blocker = {} THEN planned
                   ELSE CHOOSE b \in payload.primary_blocker : TRUE
        listed == IF payload.blockers = << >> THEN << planned >> ELSE payload.blockers
    IN  [source_run_ref |-> payload.run_ref, status |-> payload.status,
         primary_blocker |-> primary,
         blockers |-> IF primary \in Range(listed) THEN listed ELSE << primary >> \o listed,
         negative_evidence |-> [debt |-> { item \in debt : item.unresolved },
                                metrics |-> payload.failing]]

(* ProbeRegistry.materialize: the plan names the kind of probe, the payload the *)
(* value.                                                                       *)
_first_untried(name, payload, preferred) ==
    LET untried == _untried(name, payload.tried_axes, payload.available_axes)
    IN  CASE preferred \cap Range(untried) # {} -> preferred
          [] preferred \cap Range(untried) = {} /\ untried # << >> -> {Head(untried)}
          [] OTHER -> {}

_target_ref(payload) ==
    IF payload.source_hypothesis_ref = {} THEN payload.run_ref
    ELSE CHOOSE h \in payload.source_hypothesis_ref : TRUE

materialize(plan, tree, payload) ==
    LET kind == plan.recommendation.kind
        axis == CASE kind = "smallest_axis_extension" -> "layers"
                  [] kind = "switch_patch_mode" -> "patch_modes"
                  [] OTHER -> NoAxis
        value == IF axis = NoAxis THEN {}
                 ELSE _first_untried(axis, payload,
                                     IF axis = "layers" THEN {} ELSE {"direct"})
    IN  [plan |-> plan, tree |-> tree, runnable |-> value # {},
         probe_kind |-> IF kind = "smallest_axis_extension" /\ value # {}
                        THEN "sweep_axis_extension" ELSE kind,
         target_ref |-> _target_ref(payload),
         axes |-> [name \in Axes |-> IF name = axis /\ value # {}
                                     THEN << CHOOSE v \in value : TRUE >> ELSE << >>]]
===============================================================================
