------------------------------ MODULE RunCycle_proofs ------------------------------
(* Proofs about RunCycle: what the files of a run directory are made of, when   *)
(* any number of processes ingest, derive, sweep and are killed in it.          *)
EXTENDS RunCycle, SequenceFacts

Inputs == {"manifest", "metrics", "report"}

-----------------------------------------------------------------------------
(* What the derivations make of the files of a sweep.                           *)

(* A choice from a set that is not empty is one of its elements.                *)
LEMMA TheOneFacts ==
    /\ \A S : S # {} => TheOne(S) \in S
    /\ \A x : TheOne({x}) = x
BY DEF TheOne

(* A blocker that is listed if it was found.                                    *)
LEMMA ListedRange ==
    ASSUME NEW b, NEW S
    PROVE  Listed(b, S) \in Seq({b}) /\ Range(Listed(b, S)) = S \cap {b}
<1>1. CASE b \in S
  BY <1>1 DEF Listed, Range
<1>2. CASE b \notin S
  BY <1>2 DEF Listed, Range
<1> QED
  BY <1>1, <1>2

(* The elements of two lists, one behind the other.                             *)
LEMMA RangeConcat ==
    ASSUME NEW S, NEW a \in Seq(S), NEW b \in Seq(S)
    PROVE  a \o b \in Seq(S) /\ Range(a \o b) = Range(a) \cup Range(b)
<1>1. /\ a \o b \in Seq(S) /\ Len(a \o b) = Len(a) + Len(b)
      /\ \A i \in 1 .. Len(a) : (a \o b)[i] = a[i]
      /\ \A i \in 1 .. Len(b) : (a \o b)[Len(a) + i] = b[i]
  BY ConcatIndex
<1>2. /\ DOMAIN a = 1 .. Len(a) /\ DOMAIN b = 1 .. Len(b)
      /\ DOMAIN (a \o b) = 1 .. Len(a \o b) /\ Len(a) \in Nat /\ Len(b) \in Nat
  BY <1>1
<1>3. ASSUME NEW x \in Range(a \o b) PROVE x \in Range(a) \cup Range(b)
  <2>1. PICK i \in 1 .. Len(a \o b) : (a \o b)[i] = x
    BY <1>2 DEF Range
  <2>2. CASE i <= Len(a)
    BY <1>1, <1>2, <2>1, <2>2 DEF Range
  <2>3. CASE i > Len(a)
    <3>1. i - Len(a) \in 1 .. Len(b) /\ Len(a) + (i - Len(a)) = i
      BY <1>1, <1>2, <2>1, <2>3
    <3>2. b[i - Len(a)] = x
      BY <1>1, <2>1, <3>1
    <3> QED
      BY <1>2, <3>1, <3>2 DEF Range
  <2> QED
    BY <1>2, <2>1, <2>2, <2>3
<1>4. ASSUME NEW x \in Range(a) PROVE x \in Range(a \o b)
  <2>1. PICK i \in 1 .. Len(a) : a[i] = x
    BY <1>2 DEF Range
  <2>2. i \in 1 .. Len(a \o b) /\ (a \o b)[i] = x
    BY <1>1, <1>2, <2>1
  <2> QED
    BY <1>2, <2>2 DEF Range
<1>5. ASSUME NEW x \in Range(b) PROVE x \in Range(a \o b)
  <2>1. PICK i \in 1 .. Len(b) : b[i] = x
    BY <1>2 DEF Range
  <2>2. Len(a) + i \in 1 .. Len(a \o b) /\ (a \o b)[Len(a) + i] = x
    BY <1>1, <1>2, <2>1
  <2> QED
    BY <1>2, <2>2 DEF Range
<1> QED
  BY <1>1, <1>3, <1>4, <1>5

Diagnoses == {"artifact_incomplete", "control_leaky", "specificity_gap_failed"}

(* The list has the blockers that the metrics show, and no others.              *)
LEMMA DiagnosedRange ==
    ASSUME NEW m
    PROVE  /\ diagnosed(m) \in Seq(Diagnoses)
           /\ Range(diagnosed(m)) = diagnose_blockers(m)
<1> DEFINE D == diagnose_blockers(m)
           a == Listed("artifact_incomplete", D)
           b == Listed("control_leaky", D)
           c == Listed("specificity_gap_failed", D)
<1>1. D \subseteq Diagnoses
  <2>1. \A A, B, C : (IF A THEN {"artifact_incomplete"} ELSE {}) \cup
                     (IF B THEN {"control_leaky"} ELSE {}) \cup
                     (IF C THEN {"specificity_gap_failed"} ELSE {}) \subseteq Diagnoses
    BY DEF Diagnoses
  <2> QED
    BY <2>1 DEF diagnose_blockers
<1> HIDE DEF D
<1>2. a \in Seq(Diagnoses) /\ b \in Seq(Diagnoses) /\ c \in Seq(Diagnoses)
  <2>1. \A x, S : x \in Diagnoses => Listed(x, S) \in Seq(Diagnoses)
    BY DEF Listed
  <2> QED
    BY <2>1 DEF Diagnoses
<1>3. /\ Range(a) = D \cap {"artifact_incomplete"} /\ Range(b) = D \cap {"control_leaky"}
      /\ Range(c) = D \cap {"specificity_gap_failed"}
  BY ListedRange
<1>4. diagnosed(m) = (a \o b) \o c
  BY DEF diagnosed, D
<1> HIDE DEF a, b, c
<1>0. \A u, v \in Seq(Diagnoses) :
         u \o v \in Seq(Diagnoses) /\ Range(u \o v) = Range(u) \cup Range(v)
  BY RangeConcat
<1>5. a \o b \in Seq(Diagnoses) /\ Range(a \o b) = Range(a) \cup Range(b)
  BY <1>0, <1>2, Zenon
<1> DEFINE ab == a \o b
<1>6. ab \in Seq(Diagnoses) /\ ab = a \o b
  BY <1>5
<1> HIDE DEF ab
<1>7. ab \o c \in Seq(Diagnoses) /\ Range(ab \o c) = Range(ab) \cup Range(c)
  BY <1>0, <1>2, <1>6, Zenon
<1>8. (a \o b) \o c \in Seq(Diagnoses) /\ Range((a \o b) \o c) = Range(a \o b) \cup Range(c)
  BY <1>6, <1>7
<1>9. Range(diagnosed(m)) = D
  BY <1>1, <1>3, <1>4, <1>5, <1>8 DEF Diagnoses
<1> QED
  BY <1>4, <1>8, <1>9 DEF D

(* No ceiling leaves every tier as it is.                                       *)
LEMMA NoCeiling == \A tier : apply_claim_ceiling(tier, NoPolicy.claim_ceiling) = tier
<1>1. NoPolicy.claim_ceiling = ""
  BY Zenon DEF NoPolicy
<1>2. "" # "diagnostic_only" /\ "" \notin ClaimTypes
  BY Zenon DEF ClaimTypes, CLAIM_ORDER
<1> QED
  BY <1>1, <1>2, Zenon DEF apply_claim_ceiling

(* What the files of a sweep tell: nothing ran, and nothing follows from it.    *)
SweepContent(file, x) ==
    /\ file = "manifest" => x.status \in {"dry_run", "planned"} /\ x.policy_report = NoPolicy
    /\ file = "metrics" => x = NoMetrics
    /\ file = "report" => x = SweepReport
    /\ file = "next_probe" => x.recommendation.kind = "recommendation_without_command"
    /\ file = "tree" => x.primary_blocker = "artifact_incomplete"
    /\ file = "probe" => ~x.runnable
    /\ file = "card" => x.evidence_tier = "association"
SweepFile(file, content) == \A x \in content : SweepContent(file, x)

(* A dry run measured nothing: all that can be said of it is that artifacts are *)
(* missing.                                                                     *)
LEMMA NothingMeasured ==
    /\ diagnose_blockers(NoMetrics) = {"artifact_incomplete"}
    /\ Range(SweepReport.blockers) = {"artifact_incomplete"}
    /\ SweepReport.blockers = << "artifact_incomplete" >>
    /\ SweepReport.primary_blocker = {"artifact_incomplete"}
<1>1. /\ NoMetrics.target_delta = {} /\ NoMetrics.matched_control_delta = {}
      /\ NoMetrics.family_min_gap = {} /\ NoMetrics.specificity_gap = {}
  BY DEF NoMetrics, Metrics
<1>2. diagnose_blockers(NoMetrics) = {"artifact_incomplete"}
  BY <1>1 DEF diagnose_blockers
<1>3. /\ SweepReport.blockers = << "artifact_incomplete" >>
      /\ SweepReport.primary_blocker = {"artifact_incomplete"}
  BY DEF SweepReport
<1>4. \A x : Range(<< x >>) = {x}
  BY DEF Range
<1> QED
  BY <1>2, <1>3, <1>4

(* card_from_run, of what a sweep wrote: no claim above an association.         *)
LEMMA SweepCard ==
    ASSUME NEW manifest, NEW metrics, NEW report,
           SweepFile("manifest", manifest), SweepFile("metrics", metrics),
           SweepFile("report", report)
    PROVE  card_from_run(manifest, metrics,
                         { Range(r.blockers) : r \in report }).evidence_tier = "association"
<1> DEFINE reported == UNION { Range(r.blockers) : r \in report }
           found == IF reported # {} THEN reported
                    ELSE diagnose_blockers(IF metrics = {} THEN NoMetrics
                                           ELSE CHOOSE m \in metrics : TRUE)
           read == IF manifest = {}
                   THEN [status |-> "insufficient_evidence", policy_report |-> NoPolicy]
                   ELSE CHOOSE m \in manifest : TRUE
           tier == apply_claim_ceiling(
                     evidence_tier(read.status, non_policy_blockers(found)),
                     read.policy_report.claim_ceiling)
<1>1. \A r \in report : Range(r.blockers) = {"artifact_incomplete"}
  BY NothingMeasured DEF SweepFile, SweepContent
<1>2. reported \subseteq {"artifact_incomplete"}
  BY <1>1
<1>3. (IF metrics = {} THEN NoMetrics ELSE CHOOSE m \in metrics : TRUE) = NoMetrics
  BY DEF SweepFile, SweepContent
<1>4. found = {"artifact_incomplete"}
  BY <1>2, <1>3, NothingMeasured
<1>5. /\ read.status \in {"insufficient_evidence", "dry_run", "planned"}
      /\ read.policy_report = NoPolicy
  BY DEF SweepFile, SweepContent
<1> HIDE DEF reported, found, read
<1>6. non_policy_blockers(found) = {"artifact_incomplete"}
  BY <1>4 DEF non_policy_blockers
<1>7. evidence_tier(read.status, non_policy_blockers(found)) = "association"
  BY <1>5, <1>6 DEF evidence_tier, status_to_tier
<1>8. tier = "association"
  BY <1>5, <1>7, NoCeiling, Zenon
<1> HIDE DEF tier
<1>9. card_from_run(manifest, metrics,
                    { Range(r.blockers) : r \in report }).evidence_tier = tier
  BY DEF card_from_run, tier, read, found, reported
<1> QED
  BY <1>8, <1>9

(* The payload of a sweep, however much of it is missing.                       *)
SweepPayload(payload) ==
    /\ payload.metrics = NoMetrics
    /\ payload.blockers \in {<< >>, << "artifact_incomplete" >>}
    /\ payload.primary_blocker \subseteq {"artifact_incomplete"}

(* load_next_probe_payload, of what a sweep wrote.                              *)
LEMMA SweepPayloads ==
    ASSUME NEW run, NEW manifest, NEW metrics, NEW report,
           SweepFile("metrics", metrics), SweepFile("report", report)
    PROVE  SweepPayload(load_next_probe_payload(run, manifest, metrics, report))
<1>1. metrics \subseteq {NoMetrics} /\ (metrics # {} => (CHOOSE m \in metrics : TRUE) = NoMetrics)
  BY DEF SweepFile, SweepContent
<1>2. /\ Field(report, "blockers", << >>) \in {<< >>, << "artifact_incomplete" >>}
      /\ Field(report, "primary_blocker", {}) \subseteq {"artifact_incomplete"}
  <2>1. CASE report = {}
    BY <2>1 DEF Field
  <2>2. CASE report # {}
    <3>1. (CHOOSE f \in report : TRUE) = SweepReport
      BY <2>2 DEF SweepFile, SweepContent
    <3> QED
      BY <2>2, <3>1, NothingMeasured DEF Field
  <2> QED
    BY <2>1, <2>2
<1> QED
  BY <1>1, <1>2 DEF SweepPayload, load_next_probe_payload

(* Missing artifacts come first among the blockers of a sweep ...               *)
LEMMA SweepPrimary ==
    ASSUME NEW payload, SweepPayload(payload)
    PROVE  build_next_probe(payload).primary = "artifact_incomplete"
<1> DEFINE blockers == IF payload.blockers = << >> THEN diagnosed(payload.metrics)
                       ELSE payload.blockers
<1>1. Range(blockers) = {"artifact_incomplete"}
  <2>1. Range(diagnosed(NoMetrics)) = {"artifact_incomplete"}
    BY DiagnosedRange, NothingMeasured
  <2>2. << "artifact_incomplete" >> # << >>
    OBVIOUS
  <2> QED
    BY <2>1, <2>2, NothingMeasured DEF SweepPayload
<1> HIDE DEF blockers
<1>2. _primary(blockers) = "artifact_incomplete"
  BY <1>1 DEF _primary
<1> QED
  BY <1>2 DEF build_next_probe, blockers

(* ... so no probe is recommended that can be run,                              *)
LEMMA SweepPlan ==
    ASSUME NEW payload, SweepPayload(payload)
    PROVE  SweepContent("next_probe", build_next_probe(payload))
<1>1. \A tried, available :
        _recommend("artifact_incomplete", tried, available).kind
            = "recommendation_without_command"
  BY DEF _recommend, Recommendation
<1>2. build_next_probe(payload).recommendation.kind = "recommendation_without_command"
  <2>1. build_next_probe(payload).recommendation =
          _recommend(build_next_probe(payload).primary, payload.tried_axes,
                     payload.available_axes)
    BY DEF build_next_probe
  <2> QED
    BY <1>1, <2>1, SweepPrimary
<1> QED
  BY <1>2 DEF SweepContent

(* its tree says the same,                                                      *)
LEMMA SweepTree ==
    ASSUME NEW payload, SweepPayload(payload), NEW debt
    PROVE  SweepContent("tree", diagnose_payload(payload, debt))
<1> DEFINE planned == build_next_probe(payload).primary
           primary == IF payload.primary_blocker = {} THEN planned
                      ELSE CHOOSE b \in payload.primary_blocker : TRUE
<1>1. primary = "artifact_incomplete"
  BY SweepPrimary DEF SweepPayload
<1>2. diagnose_payload(payload, debt).primary_blocker = primary
  BY DEF diagnose_payload
<1> QED
  BY <1>1, <1>2 DEF SweepContent

(* and what is materialized of such a plan is not runnable.                     *)
LEMMA SweepProbe ==
    ASSUME NEW plan, SweepContent("next_probe", plan), NEW tree, NEW payload
    PROVE  SweepContent("probe", materialize(plan, tree, payload))
<1>1. plan.recommendation.kind = "recommendation_without_command"
  BY DEF SweepContent
<1>2. ~ materialize(plan, tree, payload).runnable
  BY <1>1 DEF materialize
<1> QED
  BY <1>2 DEF SweepContent

-----------------------------------------------------------------------------
(* What the derivations make of the files of one ingest.                        *)
PayloadOf(s) ==
    load_next_probe_payload(External(Bundle[s].slug), {IngestedManifest(s)},
                            {Bundle[s].metrics}, {IngestedReport(s)})
PlanOf(s) == build_next_probe(PayloadOf(s))
CardOf(s) ==
    card_from_run({IngestedManifest(s)}, {Bundle[s].metrics}, {Range(IngestedReport(s).blockers)})

(* The blocker report an ingest leaves: the bundle's, or what its metrics show. *)
LEMMA ReportFacts ==
    ASSUME NEW s \in Sources
    PROVE  /\ IsSequence(IngestedReport(s).blockers)
           /\ \A a, b \in IngestedReport(s).primary_blocker : a = b
           /\ Bundle[s].report = {} =>
                Range(IngestedReport(s).blockers) = diagnose_blockers(Bundle[s].metrics)
           /\ \A report \in Bundle[s].report :
                IngestedReport(s).blockers = report.blockers
                /\ Bundle[s].report = {report}
<1>1. CASE Bundle[s].report = {}
  <2>1. /\ IngestedReport(s).blockers = diagnosed(Bundle[s].metrics)
        /\ IngestedReport(s).primary_blocker = primary_blocker(diagnosed(Bundle[s].metrics))
    BY <1>1 DEF IngestedReport
  <2>2. IsSequence(diagnosed(Bundle[s].metrics))
    <3>1. diagnosed(Bundle[s].metrics) \in Seq(Diagnoses)
      BY DiagnosedRange
    <3> QED
      BY <3>1 DEF IsSequence, Range
  <2>3. \A a, b \in primary_blocker(diagnosed(Bundle[s].metrics)) : a = b
    BY DEF primary_blocker
  <2> QED
    BY <1>1, <2>1, <2>2, <2>3, DiagnosedRange
<1>2. CASE Bundle[s].report # {}
  <2>1. PICK report \in Bundle[s].report : TRUE
    BY <1>2
  <2>2. /\ Bundle[s].report = {report} /\ IsSequence(report.blockers)
        /\ \A a, b \in report.primary_blocker : a = b
    BY <2>1, SourceAssumption
  <2>3. TheOne(Bundle[s].report) = report
    BY <2>2, TheOneFacts
  <2>4. /\ IngestedReport(s).blockers = report.blockers
        /\ IngestedReport(s).primary_blocker = report.primary_blocker
    BY <1>2, <2>3 DEF IngestedReport
  <2> QED
    BY <1>2, <2>2, <2>4
<1> QED
  BY <1>1, <1>2

(* A ceiling is one: what it leaves of a tier is not above it, and it raises    *)
(* none.                                                                        *)
LEMMA CeilingFacts ==
    ASSUME NEW tier, NEW ceiling
    PROVE  LET capped == apply_claim_ceiling(tier, ceiling)
           IN  /\ ceiling \in ClaimTypes => claim_order(capped) <= claim_order(ceiling)
               /\ ceiling = "diagnostic_only" => capped = "association"
               /\ tier = "association" => capped = "association"
<1>1. \A t : claim_order(t) \in 0 .. 6
  BY DEF claim_order, ClaimTypes, CLAIM_ORDER
<1>2. claim_order("association") = 0
  BY DEF claim_order, ClaimTypes, CLAIM_ORDER
<1>3. "diagnostic_only" \notin ClaimTypes
  BY Zenon DEF ClaimTypes, CLAIM_ORDER
<1> QED
  BY <1>1, <1>2, <1>3 DEF apply_claim_ceiling

(* What a card may claim of a bundle.                                           *)
CardTells(s, card) ==
    LET reported == UNION { Range(report.blockers) : report \in Bundle[s].report }
        found == IF reported # {} THEN reported ELSE diagnose_blockers(Bundle[s].metrics)
        policy == Bundle[s].policy_report
    IN  /\ card.blockers = found \cup policy.blockers
        /\ card.evidence_tier # "association" =>
               /\ Bundle[s].status \notin {{}, {"insufficient_evidence"}}
               /\ "control_leaky" \notin found
               /\ policy.claim_ceiling # "diagnostic_only"
        /\ policy.claim_ceiling \in ClaimTypes =>
               claim_order(card.evidence_tier) <= claim_order(policy.claim_ceiling)

(* card_from_run, of all three files of one bundle.                             *)
LEMMA CardOfTells ==
    ASSUME NEW s \in Sources
    PROVE  CardTells(s, CardOf(s))
<1> DEFINE m == IngestedManifest(s)
           policy == Bundle[s].policy_report
           blockers == Range(IngestedReport(s).blockers)
           reported == UNION { Range(report.blockers) : report \in Bundle[s].report }
           found == IF reported # {} THEN reported ELSE diagnose_blockers(Bundle[s].metrics)
           tier == evidence_tier(m.status, non_policy_blockers(found))
<1>1. /\ m.policy_report = policy
      /\ Bundle[s].status = {} => m.status = "insufficient_evidence"
      /\ Bundle[s].status # {} => m.status = TheOne(Bundle[s].status)
  BY DEF IngestedManifest
<1>2. found = IF blockers # {} THEN blockers ELSE diagnose_blockers(Bundle[s].metrics)
  <2>1. CASE Bundle[s].report = {}
    <3>1. reported = {}
      BY <2>1
    <3> QED
      BY <2>1, <3>1, ReportFacts
  <2>2. ASSUME NEW report \in Bundle[s].report
        PROVE  reported = blockers
    <3>1. Bundle[s].report = {report} /\ IngestedReport(s).blockers = report.blockers
      BY <2>2, ReportFacts
    <3> QED
      BY <3>1
  <2> QED
    BY <2>1, <2>2
<1>3. UNION {blockers} = blockers
  OBVIOUS
<1> HIDE DEF m, found, blockers, policy
<1>5. /\ CardOf(s).blockers = found \cup policy.blockers
      /\ CardOf(s).evidence_tier = apply_claim_ceiling(tier, policy.claim_ceiling)
  <2> DEFINE reads == IF blockers # {} THEN blockers
                      ELSE diagnose_blockers(IF {Bundle[s].metrics} = {} THEN NoMetrics
                             ELSE CHOOSE x \in {Bundle[s].metrics} : TRUE)
             read == IF {m} = {}
                     THEN [status |-> "insufficient_evidence", policy_report |-> NoPolicy]
                     ELSE CHOOSE x \in {m} : TRUE
  <2>1. reads = found
    BY <1>2
  <2>2. read = m
    OBVIOUS
  <2>3. /\ CardOf(s).blockers = reads \cup read.policy_report.blockers
        /\ CardOf(s).evidence_tier =
             apply_claim_ceiling(evidence_tier(read.status, non_policy_blockers(reads)),
                                 read.policy_report.claim_ceiling)
    BY <1>3 DEF CardOf, card_from_run, blockers, m
  <2> HIDE DEF reads, read
  <2> QED
    BY <1>1, <2>1, <2>2, <2>3
<1>7. "control_leaky" \in found => tier = "association"
  BY DEF evidence_tier, non_policy_blockers
<1>8. m.status = "insufficient_evidence" => tier = "association"
  BY DEF evidence_tier, status_to_tier
<1>9. Bundle[s].status \in {{}, {"insufficient_evidence"}} => m.status = "insufficient_evidence"
  BY <1>1, TheOneFacts
<1> HIDE DEF tier
<1>10. CardOf(s).evidence_tier # "association" => tier # "association"
  BY <1>5, CeilingFacts
<1>11. policy.claim_ceiling = "diagnostic_only" => CardOf(s).evidence_tier = "association"
  BY <1>5, CeilingFacts
<1>12. policy.claim_ceiling \in ClaimTypes =>
         claim_order(CardOf(s).evidence_tier) <= claim_order(policy.claim_ceiling)
  BY <1>5, CeilingFacts
<1> QED
  BY <1>5, <1>7, <1>8, <1>9, <1>10, <1>11, <1>12, Zenon DEF CardTells, found, policy

(* What is available and was not tried.                                         *)
LEMMA UntriedFacts ==
    ASSUME NEW name, NEW tried, NEW available,
           IsSequence(available[name])
    PROVE  _untried(name, tried, available)
             \in Seq(Range(available[name]) \ Range(tried[name]))
<1> DEFINE A == available[name]
           T == Range(tried[name])
           V == Range(A) \ T
           parts == [i \in DOMAIN A |-> IF A[i] \in T THEN << >> ELSE << A[i] >>]
<1>1. A \in Seq(Range(A)) /\ DOMAIN A = 1 .. Len(A) /\ Len(A) \in Nat
  BY DEF IsSequence
<1>2. \A i \in DOMAIN A : A[i] \in Range(A)
  BY DEF Range
<1>3. _untried(name, tried, available) = FlattenSeq(parts)
  BY DEF _untried
<1> HIDE DEF A, T
<1>4. \A i \in DOMAIN A : (IF A[i] \in T THEN << >> ELSE << A[i] >>) \in Seq(V)
  <2>1. \A x \in V : << x >> \in Seq(V)
    OBVIOUS
  <2>2. \A i \in DOMAIN A : A[i] \notin T => A[i] \in V
    BY <1>2
  <2> HIDE DEF V
  <2> QED
    BY <2>1, <2>2
<1> HIDE DEF V
<1>5. parts \in Seq(Seq(V))
  BY <1>1, <1>4
<1> HIDE DEF parts
<1>6. FlattenSeq(parts) \in Seq(V)
  BY <1>5, SeqClosed, FlattenClosed
<1> QED
  BY <1>3, <1>6 DEF V, A, T

(* The elements of a list, and its first.                                       *)
LEMMA HeadInRange ==
    ASSUME NEW V, NEW L \in Seq(V)
    PROVE  Range(L) \subseteq V /\ (L # << >> => Head(L) \in V /\ Head(L) \in Range(L))
BY DEF Range

(* The kinds of recommendation, with the axis they name.                        *)
LEMMA RecommendFacts ==
    ASSUME NEW primary, NEW tried, NEW available
    PROVE  LET rec == _recommend(primary, tried, available)
               layers == _untried("layers", tried, available)
               modes == _untried("patch_modes", tried, available)
           IN  \/ /\ rec.kind = "smallest_axis_extension" /\ primary = "control_leaky"
                  /\ rec.axis = "layers" /\ layers # << >> /\ rec.value = Head(layers)
               \/ /\ rec.kind = "switch_patch_mode" /\ primary = "control_leaky"
                  /\ rec.axis = "patch_modes" /\ "direct" \in Range(modes)
                  /\ rec.value = "direct"
               \/ /\ rec.kind \notin {"smallest_axis_extension", "switch_patch_mode"}
                  /\ rec.axis = NoAxis
<1> DEFINE rec == _recommend(primary, tried, available)
           layers == _untried("layers", tried, available)
           modes == _untried("patch_modes", tried, available)
<1>1. rec = IF primary = "artifact_incomplete"
            THEN Recommendation("recommendation_without_command", NoAxis, NoAxis)
            ELSE IF primary # "control_leaky"
            THEN Recommendation("heldout_generalization", NoAxis, NoAxis)
            ELSE IF layers # << >>
            THEN Recommendation("smallest_axis_extension", "layers", Head(layers))
            ELSE IF "direct" \in Range(modes)
            THEN Recommendation("switch_patch_mode", "patch_modes", "direct")
            ELSE Recommendation("refresh_controls", NoAxis, NoAxis)
  <2> DEFINE full == layers # << >>
             direct == "direct" \in Range(modes)
             first == Head(layers)
  <2>1. rec = CASE primary = "artifact_incomplete" ->
                     Recommendation("recommendation_without_command", NoAxis, NoAxis)
                [] primary = "control_leaky" /\ full ->
                     Recommendation("smallest_axis_extension", "layers", first)
                [] primary = "control_leaky" /\ layers = << >> /\ direct ->
                     Recommendation("switch_patch_mode", "patch_modes", "direct")
                [] primary = "control_leaky" /\ layers = << >> /\ "direct" \notin Range(modes) ->
                     Recommendation("refresh_controls", NoAxis, NoAxis)
                [] OTHER -> Recommendation("heldout_generalization", NoAxis, NoAxis)
    BY DEF _recommend
  <2> HIDE DEF rec, layers, modes
  <2> QED
    BY <2>1
<1> HIDE DEF rec, layers, modes
<1>2. \A k, a, v : /\ Recommendation(k, a, v).kind = k /\ Recommendation(k, a, v).axis = a
                   /\ Recommendation(k, a, v).value = v
  BY DEF Recommendation
<1>3. \/ /\ rec.kind = "smallest_axis_extension" /\ primary = "control_leaky"
         /\ rec.axis = "layers" /\ layers # << >> /\ rec.value = Head(layers)
      \/ /\ rec.kind = "switch_patch_mode" /\ primary = "control_leaky"
         /\ rec.axis = "patch_modes" /\ "direct" \in Range(modes)
         /\ rec.value = "direct"
      \/ /\ rec.kind \notin {"smallest_axis_extension", "switch_patch_mode"}
         /\ rec.axis = NoAxis
  BY <1>1, <1>2
<1> QED
  BY <1>3 DEF rec, layers, modes

(* The primary blocker of a list is one of it.                                  *)
LEMMA PrimaryLeaky ==
    ASSUME NEW blockers, IsSequence(blockers), _primary(blockers) = "control_leaky"
    PROVE  "control_leaky" \in Range(blockers)
<1>1. blockers # << >> => Head(blockers) \in Range(blockers)
  BY HeadInRange DEF IsSequence
<1> QED
  BY <1>1 DEF _primary

(* load_next_probe_payload, of all three files of one bundle.                   *)
LEMMA PayloadFacts ==
    ASSUME NEW s \in Sources
    PROVE  /\ PayloadOf(s).tried_axes = Bundle[s].tried_axes
           /\ PayloadOf(s).available_axes = Bundle[s].available_axes
           /\ PayloadOf(s).metrics = Bundle[s].metrics
           /\ PayloadOf(s).primary_blocker = IngestedReport(s).primary_blocker
           /\ PayloadOf(s).failing = IngestedReport(s).failing
           /\ PayloadOf(s).blockers \in {IngestedReport(s).blockers, diagnosed(Bundle[s].metrics)}
           /\ IngestedReport(s).blockers # << >> =>
                PayloadOf(s).blockers = IngestedReport(s).blockers
<1> DEFINE m == IngestedManifest(s)
           r == IngestedReport(s)
           x == Bundle[s].metrics
           ref == External(Bundle[s].slug)
<1>1. m.tried_axes = Bundle[s].tried_axes /\ m.available_axes = Bundle[s].available_axes
  BY DEF IngestedManifest
<1> HIDE DEF m, r, x, ref
<1>2. /\ Field({m}, "tried_axes", NoAxes) = m.tried_axes
      /\ Field({m}, "available_axes", NoAxes) = m.available_axes
      /\ Field({r}, "blockers", << >>) = r.blockers
      /\ Field({r}, "primary_blocker", {}) = r.primary_blocker
      /\ Field({r}, "failing", {}) = r.failing
  BY DEF Field
<1>3. {x} # {} /\ (CHOOSE z \in {x} : TRUE) = x
  OBVIOUS
<1>4. PayloadOf(s) = load_next_probe_payload(ref, {m}, {x}, {r})
  BY DEF PayloadOf, m, r, x, ref
<1>5. /\ PayloadOf(s).tried_axes = m.tried_axes
      /\ PayloadOf(s).available_axes = m.available_axes
      /\ PayloadOf(s).metrics = x
      /\ PayloadOf(s).primary_blocker = r.primary_blocker
      /\ PayloadOf(s).failing = r.failing
      /\ PayloadOf(s).blockers = IF r.blockers # << >> \/ {x} \subseteq {NoMetrics}
                                 THEN r.blockers ELSE diagnosed(x)
  BY <1>2, <1>3, <1>4 DEF load_next_probe_payload
<1> QED
  BY <1>1, <1>5 DEF m, r, x

(* What the plan and the probe of a bundle may say.                             *)
Named(s, plan) ==
    plan.recommendation.axis # NoAxis =>
        plan.recommendation.value \in
            Range(Bundle[s].available_axes[plan.recommendation.axis])
            \ Range(Bundle[s].tried_axes[plan.recommendation.axis])
Shown(s) ==
    IF IngestedReport(s).blockers # << >> THEN Range(IngestedReport(s).blockers)
    ELSE diagnose_blockers(Bundle[s].metrics)

(* build_next_probe recommends an axis for a leaky control only, and there the  *)
(* first value that was not tried, or the direct patch mode.                    *)
LEMMA PlanFacts ==
    ASSUME NEW s \in Sources
    PROVE  LET rec == PlanOf(s).recommendation
               layers == _untried("layers", Bundle[s].tried_axes, Bundle[s].available_axes)
               modes == _untried("patch_modes", Bundle[s].tried_axes, Bundle[s].available_axes)
           IN  \/ /\ rec.kind = "smallest_axis_extension" /\ "control_leaky" \in Shown(s)
                  /\ rec.axis = "layers" /\ layers # << >> /\ rec.value = Head(layers)
               \/ /\ rec.kind = "switch_patch_mode" /\ "control_leaky" \in Shown(s)
                  /\ rec.axis = "patch_modes" /\ "direct" \in Range(modes)
                  /\ rec.value = "direct"
               \/ /\ rec.kind \notin {"smallest_axis_extension", "switch_patch_mode"}
                  /\ rec.axis = NoAxis
<1> DEFINE P == PayloadOf(s)
           B == IF P.blockers = << >> THEN diagnosed(P.metrics) ELSE P.blockers
<1>1. IsSequence(B) /\ Range(B) \subseteq Shown(s)
  <2>1. IsSequence(diagnosed(Bundle[s].metrics))
    BY DiagnosedRange DEF IsSequence, Range
  <2> QED
    BY <2>1, PayloadFacts, DiagnosedRange, ReportFacts DEF Shown
<1> HIDE DEF B
<1>2. PlanOf(s).recommendation =
        _recommend(_primary(B), Bundle[s].tried_axes, Bundle[s].available_axes)
  <2>1. PlanOf(s).recommendation = _recommend(_primary(B), P.tried_axes, P.available_axes)
    BY DEF PlanOf, build_next_probe, B
  <2> QED
    BY <2>1, PayloadFacts
<1>3. _primary(B) = "control_leaky" => "control_leaky" \in Shown(s)
  BY <1>1, PrimaryLeaky
<1> QED
  BY <1>2, <1>3, RecommendFacts

(* So a plan names what the bundle has and did not try.                         *)
LEMMA PlanNamed ==
    ASSUME NEW s \in Sources
    PROVE  Named(s, PlanOf(s))
<1> DEFINE rec == PlanOf(s).recommendation
           layers == _untried("layers", Bundle[s].tried_axes, Bundle[s].available_axes)
           modes == _untried("patch_modes", Bundle[s].tried_axes, Bundle[s].available_axes)
           New(axis) == Range(Bundle[s].available_axes[axis]) \ Range(Bundle[s].tried_axes[axis])
<1>1. IsSequence(Bundle[s].available_axes["layers"])
      /\ IsSequence(Bundle[s].available_axes["patch_modes"])
  BY SourceAssumption DEF Axes
<1>2. layers \in Seq(New("layers")) /\ modes \in Seq(New("patch_modes"))
  BY <1>1, UntriedFacts
<1> HIDE DEF New, layers, modes
<1>3. (layers # << >> => Head(layers) \in New("layers")) /\ Range(modes) \subseteq New("patch_modes")
  BY <1>2, HeadInRange
<1>4. \/ rec.axis = "layers" /\ layers # << >> /\ rec.value = Head(layers)
      \/ rec.axis = "patch_modes" /\ "direct" \in Range(modes) /\ rec.value = "direct"
      \/ rec.axis = NoAxis
  BY PlanFacts DEF layers, modes
<1>5. rec.axis # NoAxis => rec.value \in New(rec.axis)
  BY <1>3, <1>4
<1> QED
  BY <1>5 DEF Named, New

ProbeOf(s, debt) == materialize(PlanOf(s), diagnose_payload(PayloadOf(s), debt), PayloadOf(s))
ProbeTells(s, probe) ==
    LET recommended == probe.plan.recommendation
    IN  /\ probe.runnable =>
             /\ Named(s, probe.plan)
             /\ "control_leaky" \in Shown(s)
             /\ probe.axes = [NoAxes EXCEPT ![recommended.axis] = << recommended.value >>]
        /\ probe.tree.negative_evidence.metrics = IngestedReport(s).failing
        /\ IngestedReport(s).primary_blocker \subseteq {probe.tree.primary_blocker}

(* diagnose_payload, of one bundle: its primary blocker and its failed metrics. *)
LEMMA TreeTells ==
    ASSUME NEW s \in Sources, NEW debt
    PROVE  LET tree == diagnose_payload(PayloadOf(s), debt)
           IN  /\ tree.negative_evidence.metrics = IngestedReport(s).failing
               /\ IngestedReport(s).primary_blocker \subseteq {tree.primary_blocker}
<1> DEFINE P == PayloadOf(s)
<1>1. P.failing = IngestedReport(s).failing
      /\ P.primary_blocker = IngestedReport(s).primary_blocker
  BY PayloadFacts
<1>2. \A a, b \in P.primary_blocker : a = b
  BY <1>1, ReportFacts
<1> HIDE DEF P
<1> DEFINE tree == diagnose_payload(P, debt)
<1>3. /\ tree.negative_evidence.metrics = P.failing
      /\ tree.primary_blocker = IF P.primary_blocker = {} THEN build_next_probe(P).primary
                                ELSE CHOOSE b \in P.primary_blocker : TRUE
  BY DEF diagnose_payload
<1> HIDE DEF tree
<1>4. P.primary_blocker \subseteq {tree.primary_blocker}
  BY <1>2, <1>3
<1> QED
  BY <1>1, <1>3, <1>4 DEF tree, P

(* ProbeRegistry.materialize, when plan, tree and payload are of one bundle.    *)
LEMMA ProbeOfTells ==
    ASSUME NEW s \in Sources, NEW debt
    PROVE  ProbeTells(s, ProbeOf(s, debt))
<1> DEFINE P == PayloadOf(s)
           plan == PlanOf(s)
           rec == plan.recommendation
           tree == diagnose_payload(P, debt)
           layers == _untried("layers", Bundle[s].tried_axes, Bundle[s].available_axes)
           modes == _untried("patch_modes", Bundle[s].tried_axes, Bundle[s].available_axes)
           probe == materialize(plan, tree, P)
           preferred(axis) == IF axis = "layers" THEN {} ELSE {"direct"}
<1>1. \/ /\ rec.kind = "smallest_axis_extension" /\ "control_leaky" \in Shown(s)
         /\ rec.axis = "layers" /\ layers # << >> /\ rec.value = Head(layers)
      \/ /\ rec.kind = "switch_patch_mode" /\ "control_leaky" \in Shown(s)
         /\ rec.axis = "patch_modes" /\ "direct" \in Range(modes)
         /\ rec.value = "direct"
      \/ /\ rec.kind \notin {"smallest_axis_extension", "switch_patch_mode"}
         /\ rec.axis = NoAxis
  BY PlanFacts
<1>2. /\ _untried("layers", P.tried_axes, P.available_axes) = layers
      /\ _untried("patch_modes", P.tried_axes, P.available_axes) = modes
  BY PayloadFacts
<1>3. Named(s, plan)
  BY PlanNamed
<1>4. tree.negative_evidence.metrics = IngestedReport(s).failing
      /\ IngestedReport(s).primary_blocker \subseteq {tree.primary_blocker}
  BY TreeTells
<1> HIDE DEF P, plan, tree, layers, modes
<1>5. probe.plan = plan /\ probe.tree = tree
  BY DEF materialize
<1>6. ASSUME rec.kind = "smallest_axis_extension" /\ rec.axis = "layers"
           /\ layers # << >> /\ rec.value = Head(layers) /\ "control_leaky" \in Shown(s)
      PROVE  ProbeTells(s, probe)
  <2>1. _first_untried("layers", P, {}) = {Head(layers)}
    BY <1>2, <1>6 DEF _first_untried
  <2>2. probe.axes = [name \in Axes |-> IF name = "layers" THEN << Head(layers) >> ELSE << >>]
    BY <1>6, <2>1 DEF materialize, NoAxis
  <2>3. probe.axes = [NoAxes EXCEPT !["layers"] = << Head(layers) >>]
    BY <2>2 DEF NoAxes, Axes
  <2> HIDE DEF probe
  <2> QED
    BY <1>3, <1>4, <1>5, <1>6, <2>3 DEF ProbeTells
<1>7. ASSUME rec.kind = "switch_patch_mode" /\ rec.axis = "patch_modes"
           /\ "direct" \in Range(modes) /\ rec.value = "direct" /\ "control_leaky" \in Shown(s)
      PROVE  ProbeTells(s, probe)
  <2>1. _first_untried("patch_modes", P, {"direct"}) = {"direct"}
    BY <1>2, <1>7 DEF _first_untried
  <2>2. probe.axes = [name \in Axes |-> IF name = "patch_modes" THEN << "direct" >> ELSE << >>]
    BY <1>7, <2>1 DEF materialize, NoAxis
  <2>3. probe.axes = [NoAxes EXCEPT !["patch_modes"] = << "direct" >>]
    BY <2>2 DEF NoAxes, Axes
  <2> HIDE DEF probe
  <2> QED
    BY <1>3, <1>4, <1>5, <1>7, <2>3 DEF ProbeTells
<1>8. ASSUME rec.kind \notin {"smallest_axis_extension", "switch_patch_mode"}
      PROVE  ProbeTells(s, probe)
  <2>1. ~ probe.runnable
    BY <1>8 DEF materialize
  <2> HIDE DEF probe
  <2> QED
    BY <1>4, <1>5, <2>1 DEF ProbeTells
<1>9. ProbeTells(s, probe)
  <2> HIDE DEF probe, rec
  <2> QED
    BY <1>1, <1>6, <1>7, <1>8
<1> QED
  BY <1>9 DEF ProbeOf, P, plan, tree

-----------------------------------------------------------------------------
(* The commands.                                                                *)
Ops == [op : {"read", "write"}, file : FileNames]
Derivations == {"next_probe", "tree", "probe", "card"}

(* A read is no write, and each is of one file.                                 *)
LEMMA OpFacts ==
    /\ \A file \in FileNames : Read(file) \in Ops /\ Write(file) \in Ops
    /\ \A file : /\ Read(file).op = "read" /\ Read(file).file = file
                 /\ Write(file).op = "write" /\ Write(file).file = file
    /\ \A x \in Ops : /\ x.file \in FileNames
                      /\ x.op = "write" => x = Write(x.file)
                      /\ x.op = "read" => x = Read(x.file)
                      /\ x.op # "write" => x.op = "read"
BY DEF Read, Write, Ops

(* Before a derivation is written the three inputs are read, and nothing is     *)
(* written between.                                                             *)
Prepared(c) ==
    \A k \in 1 .. Len(c) : c[k].op = "write" /\ c[k].file \in Derivations =>
        \A f \in Inputs : \E i \in 1 .. k - 1 :
            c[i] = Read(f) /\ \A j \in i .. k - 1 : c[j].op = "read"
(* The inputs are written before anything is read.                              *)
Ordered(c) ==
    \A i, k \in 1 .. Len(c) :
        c[i].op = "write" /\ c[i].file \in Inputs /\ c[k].op = "read" => i < k
(* A derived command writes no input; most have nothing to do with a probe.     *)
Derives(c) == \A x \in Range(c) : x.op = "write" => x.file \notin Inputs
Plain(c) == Derives(c) /\ Read("probe") \notin Range(c) /\ Write("probe") \notin Range(c)
(* A plan and a tree are written before a probe, or have been.                  *)
ProbeReady(c, wrote) ==
    \A k \in 1 .. Len(c) : c[k] = Write("probe") =>
        \A f \in {"next_probe", "tree"} :
            wrote[f] # {} \/ \E i \in 1 .. k - 1 : c[i] = Write(f)

(* It ends with a write, or with the one file that is no payload.               *)
Ends(c) == c[Len(c)].op = "write" \/ c[Len(c)] = Read("probe")

(* What comes before or after, stays before or after.                           *)
LEMMA PreparedConcat ==
    ASSUME NEW a \in Seq(Ops), NEW b \in Seq(Ops), Prepared(a), Prepared(b)
    PROVE  Prepared(a \o b)
<1> DEFINE c == a \o b
<1>1. /\ c \in Seq(Ops) /\ Len(c) = Len(a) + Len(b) /\ Len(a) \in Nat /\ Len(b) \in Nat
      /\ \A i \in 1 .. Len(a) : c[i] = a[i]
      /\ \A i \in 1 .. Len(b) : c[Len(a) + i] = b[i]
  BY ConcatIndex
<1> HIDE DEF c
<1>2. SUFFICES ASSUME NEW k \in 1 .. Len(c), c[k].op = "write", c[k].file \in Derivations,
                      NEW f \in Inputs
               PROVE  \E i \in 1 .. k - 1 :
                        c[i] = Read(f) /\ \A j \in i .. k - 1 : c[j].op = "read"
  BY DEF Prepared, c
<1>3. CASE k <= Len(a)
  <2>1. k \in 1 .. Len(a) /\ c[k] = a[k]
    BY <1>1, <1>3
  <2>2. PICK i \in 1 .. k - 1 : a[i] = Read(f) /\ \A j \in i .. k - 1 : a[j].op = "read"
    BY <1>2, <2>1 DEF Prepared
  <2>3. \A j \in 1 .. k - 1 : c[j] = a[j]
    BY <1>1, <2>1
  <2> QED
    BY <2>2, <2>3
<1>4. CASE k > Len(a)
  <2> DEFINE n == k - Len(a)
  <2>1. n \in 1 .. Len(b) /\ k = Len(a) + n
    BY <1>1, <1>4
  <2>2. c[k] = b[n]
    BY <1>1, <2>1
  <2> HIDE DEF n
  <2>3. PICK i \in 1 .. n - 1 : b[i] = Read(f) /\ \A j \in i .. n - 1 : b[j].op = "read"
    BY <1>2, <2>1, <2>2 DEF Prepared
  <2>4. Len(a) + i \in 1 .. k - 1 /\ i \in 1 .. Len(b)
    BY <1>1, <2>1, <2>3
  <2>6. c[Len(a) + i] = Read(f)
    BY <1>1, <2>3, <2>4
  <2>5. ASSUME NEW j \in Len(a) + i .. k - 1 PROVE c[j].op = "read"
    <3>1. j - Len(a) \in i .. n - 1 /\ j - Len(a) \in 1 .. Len(b) /\ j = Len(a) + (j - Len(a))
      BY <1>1, <2>1, <2>3
    <3>2. c[j] = b[j - Len(a)]
      BY <1>1, <3>1
    <3> QED
      BY <2>3, <3>1, <3>2
  <2>7. \A j \in Len(a) + i .. k - 1 : c[j].op = "read"
    BY <2>5
  <2> DEFINE m == Len(a) + i
  <2>8. m \in 1 .. k - 1 /\ c[m] = Read(f) /\ \A j \in m .. k - 1 : c[j].op = "read"
    BY <2>4, <2>6, <2>7
  <2> HIDE DEF m
  <2> QED
    BY <2>8, Zenon
<1>5. k <= Len(a) \/ k > Len(a)
  BY <1>1
<1> QED
  BY <1>3, <1>4, <1>5, Zenon

(* An ingest goes on with derivations.                                          *)
LEMMA OrderedConcat ==
    ASSUME NEW a \in Seq(Ops), NEW b \in Seq(Ops), Ordered(a), Derives(b)
    PROVE  Ordered(a \o b)
<1> DEFINE c == a \o b
<1>1. /\ c \in Seq(Ops) /\ Len(c) = Len(a) + Len(b) /\ Len(a) \in Nat /\ Len(b) \in Nat
      /\ \A i \in 1 .. Len(a) : c[i] = a[i]
      /\ \A i \in 1 .. Len(b) : c[Len(a) + i] = b[i]
  BY ConcatIndex
<1> HIDE DEF c
<1>2. SUFFICES ASSUME NEW i \in 1 .. Len(c), NEW k \in 1 .. Len(c), c[i].op = "write",
                      c[i].file \in Inputs, c[k].op = "read"
               PROVE  i < k
  BY DEF Ordered, c
<1>3. i <= Len(a)
  <2> SUFFICES ASSUME i > Len(a) PROVE FALSE
    BY <1>1
  <2>1. i - Len(a) \in 1 .. Len(b) /\ i = Len(a) + (i - Len(a))
    BY <1>1
  <2>2. c[i] = b[i - Len(a)]
    BY <1>1, <2>1
  <2>3. b[i - Len(a)] \in Range(b)
    BY <2>1 DEF Range
  <2> QED
    BY <1>2, <2>2, <2>3 DEF Derives
<1>4. CASE k <= Len(a)
  <2>1. i \in 1 .. Len(a) /\ k \in 1 .. Len(a) /\ c[i] = a[i] /\ c[k] = a[k]
    BY <1>1, <1>3, <1>4
  <2> QED
    BY <1>2, <2>1 DEF Ordered
<1> QED
  BY <1>1, <1>3, <1>4

(* Three operations before one or two.                                          *)
LEMMA ConcatThree ==
    ASSUME NEW a \in Seq(Ops), 3 = Len(a), NEW b \in Seq(Ops)
    PROVE  /\ a \o b \in Seq(Ops) /\ Len(a \o b) = 3 + Len(b)
           /\ \A i \in 1 .. 3 : (a \o b)[i] = a[i]
           /\ Len(b) >= 1 => (a \o b)[4] = b[1]
           /\ Len(b) >= 2 => (a \o b)[5] = b[2]
<1>1. /\ a \o b \in Seq(Ops) /\ Len(a \o b) = Len(a) + Len(b)
      /\ \A i \in 1 .. Len(a) : (a \o b)[i] = a[i]
      /\ \A i \in 1 .. Len(b) : (a \o b)[Len(a) + i] = b[i]
  BY ConcatIndex
<1>2. Len(b) \in Nat /\ (Len(b) >= 1 => 1 \in 1 .. Len(b)) /\ (Len(b) >= 2 => 2 \in 1 .. Len(b))
      /\ 3 + 1 = 4 /\ 3 + 2 = 5
  OBVIOUS
<1>3. /\ 1 \in 1 .. Len(b) => (a \o b)[3 + 1] = b[1]
      /\ 2 \in 1 .. Len(b) => (a \o b)[3 + 2] = b[2]
  BY <1>1
<1> QED
  BY <1>1, <1>2, <1>3

(* The parts of commands, operation by operation.                               *)
LEMMA Parts ==
    /\ ReadPayload \in Seq(Ops) /\ Len(ReadPayload) = 3
       /\ ReadPayload[1] = Read("manifest") /\ ReadPayload[2] = Read("metrics")
       /\ ReadPayload[3] = Read("report")
    /\ WriteCard \in Seq(Ops) /\ Len(WriteCard) = 5
       /\ \A i \in 1 .. 3 : WriteCard[i] = ReadPayload[i]
       /\ WriteCard[4] = Write("card") /\ WriteCard[5] = Write("debt")
    /\ WriteNextProbe \in Seq(Ops) /\ Len(WriteNextProbe) = 4
       /\ \A i \in 1 .. 3 : WriteNextProbe[i] = ReadPayload[i]
       /\ WriteNextProbe[4] = Write("next_probe")
    /\ WriteDiagnosis \in Seq(Ops) /\ Len(WriteDiagnosis) = 5
       /\ \A i \in 1 .. 3 : WriteDiagnosis[i] = ReadPayload[i]
       /\ WriteDiagnosis[4] = Read("debt") /\ WriteDiagnosis[5] = Write("tree")
<1>1. \A file \in {"manifest", "metrics", "report", "card", "debt", "next_probe", "tree"} :
        Read(file) \in Ops /\ Write(file) \in Ops
  BY OpFacts DEF FileNames
<1>2. /\ ReadPayload \in Seq(Ops) /\ Len(ReadPayload) = 3
      /\ ReadPayload[1] = Read("manifest") /\ ReadPayload[2] = Read("metrics")
      /\ ReadPayload[3] = Read("report")
  BY <1>1 DEF ReadPayload
<1>4. ASSUME NEW x \in Ops, NEW y \in Ops
      PROVE  LET c == ReadPayload \o << x, y >>
             IN  /\ c \in Seq(Ops) /\ Len(c) = 5 /\ \A i \in 1 .. 3 : c[i] = ReadPayload[i]
                 /\ c[4] = x /\ c[5] = y
  <2> DEFINE b == << x, y >>
  <2>1. b \in Seq(Ops) /\ Len(b) = 2 /\ b[1] = x /\ b[2] = y
    OBVIOUS
  <2> HIDE DEF b
  <2>2. /\ ReadPayload \o b \in Seq(Ops) /\ Len(ReadPayload \o b) = 5
        /\ \A i \in 1 .. 3 : (ReadPayload \o b)[i] = ReadPayload[i]
        /\ (ReadPayload \o b)[4] = x /\ (ReadPayload \o b)[5] = y
    <3>1. /\ ReadPayload \o b \in Seq(Ops) /\ Len(ReadPayload \o b) = 3 + Len(b)
          /\ \A i \in 1 .. 3 : (ReadPayload \o b)[i] = ReadPayload[i]
          /\ Len(b) >= 1 => (ReadPayload \o b)[4] = b[1]
          /\ Len(b) >= 2 => (ReadPayload \o b)[5] = b[2]
      BY <1>2, <2>1, ConcatThree, Zenon
    <3> QED
      BY <2>1, <3>1
  <2> QED
    BY <2>2 DEF b
<1>5. ASSUME NEW x \in Ops
      PROVE  LET c == ReadPayload \o << x >>
             IN  /\ c \in Seq(Ops) /\ Len(c) = 4 /\ \A i \in 1 .. 3 : c[i] = ReadPayload[i]
                 /\ c[4] = x
  <2> DEFINE b == << x >>
  <2>1. b \in Seq(Ops) /\ Len(b) = 1 /\ b[1] = x
    OBVIOUS
  <2> HIDE DEF b
  <2>2. /\ ReadPayload \o b \in Seq(Ops) /\ Len(ReadPayload \o b) = 4
        /\ \A i \in 1 .. 3 : (ReadPayload \o b)[i] = ReadPayload[i]
        /\ (ReadPayload \o b)[4] = x
    <3>1. /\ ReadPayload \o b \in Seq(Ops) /\ Len(ReadPayload \o b) = 3 + Len(b)
          /\ \A i \in 1 .. 3 : (ReadPayload \o b)[i] = ReadPayload[i]
          /\ Len(b) >= 1 => (ReadPayload \o b)[4] = b[1]
          /\ Len(b) >= 2 => (ReadPayload \o b)[5] = b[2]
      BY <1>2, <2>1, ConcatThree, Zenon
    <3> QED
      BY <2>1, <3>1
  <2> QED
    BY <2>2 DEF b
<1>6. /\ WriteCard \in Seq(Ops) /\ Len(WriteCard) = 5
      /\ \A i \in 1 .. 3 : WriteCard[i] = ReadPayload[i]
      /\ WriteCard[4] = Write("card") /\ WriteCard[5] = Write("debt")
  BY <1>1, <1>4 DEF WriteCard
<1>7. /\ WriteNextProbe \in Seq(Ops) /\ Len(WriteNextProbe) = 4
      /\ \A i \in 1 .. 3 : WriteNextProbe[i] = ReadPayload[i]
      /\ WriteNextProbe[4] = Write("next_probe")
  BY <1>1, <1>5 DEF WriteNextProbe
<1>8. /\ WriteDiagnosis \in Seq(Ops) /\ Len(WriteDiagnosis) = 5
      /\ \A i \in 1 .. 3 : WriteDiagnosis[i] = ReadPayload[i]
      /\ WriteDiagnosis[4] = Read("debt") /\ WriteDiagnosis[5] = Write("tree")
  BY <1>1, <1>4 DEF WriteDiagnosis
<1> QED
  BY <1>2, <1>6, <1>7, <1>8


(* A concatenation of plain lists is one, and has what either has.              *)
LEMMA PlainConcat ==
    ASSUME NEW a \in Seq(Ops), NEW b \in Seq(Ops)
    PROVE  /\ a \o b \in Seq(Ops)
           /\ Range(a \o b) = Range(a) \cup Range(b)
           /\ Plain(a) /\ Plain(b) => Plain(a \o b)
<1>1. a \o b \in Seq(Ops) /\ Range(a \o b) = Range(a) \cup Range(b)
  BY RangeConcat
<1> QED
  BY <1>1 DEF Plain, Derives

(* The last of two lists decides how they end.                                  *)
LEMMA EndsConcat ==
    ASSUME NEW a \in Seq(Ops), NEW b \in Seq(Ops), b # << >>, Ends(b)
    PROVE  Ends(a \o b)
<1>1. /\ Len(a \o b) = Len(a) + Len(b)
      /\ \A i \in 1 .. Len(b) : (a \o b)[Len(a) + i] = b[i]
  BY ConcatIndex
<1>2. Len(b) \in 1 .. Len(b)
  OBVIOUS
<1>3. (a \o b)[Len(a \o b)] = b[Len(b)]
  BY <1>1, <1>2
<1> QED
  BY <1>3 DEF Ends

(* The parts of commands: each is plain, and reads the inputs before it derives.*)
LEMMA PartsReady ==
    /\ ReadPayload \in Seq(Ops) /\ Plain(ReadPayload) /\ Prepared(ReadPayload)
    /\ WriteCard \in Seq(Ops) /\ Plain(WriteCard) /\ Prepared(WriteCard)
    /\ WriteNextProbe \in Seq(Ops) /\ Plain(WriteNextProbe) /\ Prepared(WriteNextProbe)
       /\ Write("next_probe") \in Range(WriteNextProbe)
    /\ WriteDiagnosis \in Seq(Ops) /\ Plain(WriteDiagnosis) /\ Prepared(WriteDiagnosis)
       /\ Write("tree") \in Range(WriteDiagnosis)
<1>1. \A file, other : Read(file) # Write(other) /\ (Write(file) = Write(other) => file = other)
                      /\ (Read(file) = Read(other) => file = other)
  BY DEF Read, Write
<1>2. /\ \A i \in 1 .. 3 : ReadPayload[i] \in { Read(f) : f \in Inputs }
      /\ \A f \in Inputs : \E i \in 1 .. 3 : ReadPayload[i] = Read(f)
  BY Parts DEF Inputs
<1>3. \A f \in Inputs : Read(f).op = "read" /\ Read(f) # Read("probe")
  BY <1>1, OpFacts DEF Inputs
<1> DEFINE Reads(c, n) == /\ \A i \in 1 .. n : c[i].op = "read" /\ c[i] # Read("probe")
                          /\ \A i \in 1 .. n : c[i] # Write("probe")
                          /\ \A f \in Inputs : \E i \in 1 .. 3 : c[i] = Read(f)
<1>4. Reads(ReadPayload, 3)
  BY <1>1, <1>2, <1>3
<1>5. Reads(WriteCard, 3) /\ Reads(WriteNextProbe, 3) /\ Reads(WriteDiagnosis, 4)
  <2>1. Reads(WriteCard, 3) /\ Reads(WriteNextProbe, 3) /\ Reads(WriteDiagnosis, 3)
    BY <1>4, Parts
  <2>2. WriteDiagnosis[4].op = "read" /\ WriteDiagnosis[4] # Read("probe")
        /\ WriteDiagnosis[4] # Write("probe")
    BY <1>1, Parts, OpFacts
  <2> QED
    BY <2>1, <2>2
<1> HIDE DEF Reads
<1>6. ASSUME NEW c \in Seq(Ops), NEW n \in 3 .. 4, Reads(c, n), n <= Len(c),
             \A i \in n + 1 .. Len(c) : c[i] # Write("probe") /\ c[i] # Read("probe")
                                      /\ (c[i].op = "write" => c[i].file \notin Inputs)
      PROVE  Plain(c)
  <2>1. \A i \in 1 .. Len(c) : i \in 1 .. n \/ i \in n + 1 .. Len(c)
    OBVIOUS
  <2>2. \A i \in 1 .. Len(c) : c[i] # Write("probe") /\ c[i] # Read("probe")
                              /\ (c[i].op = "write" => c[i].file \notin Inputs)
    BY <1>6, <2>1 DEF Reads
  <2>3. \A x \in Range(c) : \E i \in 1 .. Len(c) : x = c[i]
    BY DEF Range
  <2> QED
    BY <2>2, <2>3 DEF Plain, Derives
<1>7. ASSUME NEW c \in Seq(Ops), NEW n \in 3 .. 4, Reads(c, n), n <= Len(c),
             \A i \in n + 2 .. Len(c) : c[i] \notin { Write(f) : f \in Derivations }
      PROVE  Prepared(c)
  <2> SUFFICES ASSUME NEW k \in 1 .. Len(c), c[k].op = "write", c[k].file \in Derivations,
                      NEW f \in Inputs
               PROVE  \E i \in 1 .. k - 1 : c[i] = Read(f) /\ \A j \in i .. k - 1 : c[j].op = "read"
    BY DEF Prepared
  <2>1. c[k] = Write(c[k].file)
    BY OpFacts
  <2>2. k = n + 1
    <3>1. k \notin n + 2 .. Len(c)
      BY <1>7, <2>1
    <3>2. k \notin 1 .. n
      BY <1>7 DEF Reads
    <3> QED
      BY <3>1, <3>2
  <2>3. PICK i \in 1 .. 3 : c[i] = Read(f)
    BY <1>7 DEF Reads
  <2>4. \A j \in i .. k - 1 : j \in 1 .. n
    BY <2>2
  <2>5. i \in 1 .. k - 1 /\ \A j \in i .. k - 1 : c[j].op = "read"
    BY <1>7, <2>2, <2>4 DEF Reads
  <2> QED
    BY <2>3, <2>5, Zenon
<1>8. \A f \in {"card", "debt", "next_probe", "tree"} :
        Write(f) # Write("probe") /\ Write(f) # Read("probe") /\ Write(f).file \notin Inputs
  BY <1>1, OpFacts DEF Inputs
<1>9. Write("debt") \notin { Write(f) : f \in Derivations }
  BY <1>1 DEF Derivations
<1>10. ReadPayload \in Seq(Ops) /\ Plain(ReadPayload) /\ Prepared(ReadPayload)
  <2>1. /\ 3 <= Len(ReadPayload) /\ 3 \in 3 .. 4
        /\ \A i \in 3 + 1 .. Len(ReadPayload) : FALSE
        /\ \A i \in 3 + 2 .. Len(ReadPayload) : FALSE
    BY Parts
  <2> QED
    BY <1>4, <1>6, <1>7, <2>1, Parts
<1>11. WriteCard \in Seq(Ops) /\ Plain(WriteCard) /\ Prepared(WriteCard)
  <2>1. /\ 3 <= Len(WriteCard) /\ 3 \in 3 .. 4
        /\ \A i \in 3 + 1 .. Len(WriteCard) : i = 4 \/ i = 5
        /\ \A i \in 3 + 2 .. Len(WriteCard) : i = 5
    BY Parts
  <2>2. \A i \in 3 + 1 .. Len(WriteCard) :
          /\ WriteCard[i] # Write("probe") /\ WriteCard[i] # Read("probe")
          /\ WriteCard[i].op = "write" => WriteCard[i].file \notin Inputs
    BY <1>8, <2>1, Parts
  <2>3. \A i \in 3 + 2 .. Len(WriteCard) : WriteCard[i] \notin { Write(f) : f \in Derivations }
    BY <1>9, <2>1, Parts
  <2> QED
    BY <1>5, <1>6, <1>7, <2>1, <2>2, <2>3, Parts
<1>12. /\ WriteNextProbe \in Seq(Ops) /\ Plain(WriteNextProbe) /\ Prepared(WriteNextProbe)
       /\ Write("next_probe") \in Range(WriteNextProbe)
  <2>1. /\ 3 <= Len(WriteNextProbe) /\ 3 \in 3 .. 4
        /\ \A i \in 3 + 1 .. Len(WriteNextProbe) : i = 4
        /\ \A i \in 3 + 2 .. Len(WriteNextProbe) : FALSE
    BY Parts
  <2>2. \A i \in 3 + 1 .. Len(WriteNextProbe) :
          /\ WriteNextProbe[i] # Write("probe") /\ WriteNextProbe[i] # Read("probe")
          /\ WriteNextProbe[i].op = "write" => WriteNextProbe[i].file \notin Inputs
    BY <1>8, <2>1, Parts
  <2>3. Write("next_probe") \in Range(WriteNextProbe)
    BY Parts DEF Range
  <2> QED
    BY <1>5, <1>6, <1>7, <2>1, <2>2, <2>3, Parts
<1>13. /\ WriteDiagnosis \in Seq(Ops) /\ Plain(WriteDiagnosis) /\ Prepared(WriteDiagnosis)
       /\ Write("tree") \in Range(WriteDiagnosis)
  <2>1. /\ 4 <= Len(WriteDiagnosis) /\ 4 \in 3 .. 4
        /\ \A i \in 4 + 1 .. Len(WriteDiagnosis) : i = 5
        /\ \A i \in 4 + 2 .. Len(WriteDiagnosis) : FALSE
    BY Parts
  <2>2. \A i \in 4 + 1 .. Len(WriteDiagnosis) :
          /\ WriteDiagnosis[i] # Write("probe") /\ WriteDiagnosis[i] # Read("probe")
          /\ WriteDiagnosis[i].op = "write" => WriteDiagnosis[i].file \notin Inputs
    BY <1>8, <2>1, Parts
  <2>3. Write("tree") \in Range(WriteDiagnosis)
    BY Parts DEF Range
  <2> QED
    BY <1>5, <1>6, <1>7, <2>1, <2>2, <2>3, Parts
<1> QED
  BY <1>10, <1>11, <1>12, <1>13
-----------------------------------------------------------------------------
(* An ingest: every input is written, and then the derivations.                 *)
LEMMA IngestReady ==
    ASSUME NEW s
    PROVE  LET c == IngestBundle(s)
           IN  /\ c \in Seq(Ops) /\ c # << >> /\ Ends(c)
               /\ Prepared(c) /\ Ordered(c)
               /\ Read("probe") \notin Range(c) /\ Write("probe") \notin Range(c)
               /\ \A f \in Inputs : Write(f) \in Range(c)
<1> DEFINE w == << Write("manifest"), Write("metrics"), Write("report") >>
           d == IF Bundle[s].debt = {} THEN << >> ELSE << Write("debt") >>
<1>1. \A file \in FileNames : Read(file) \in Ops /\ Write(file) \in Ops
  BY OpFacts
<1>2. \A file, other : Read(file) # Write(other)
  BY DEF Read, Write
<1>3. \A f \in Inputs \cup {"debt"} : f \notin Derivations /\ Write(f) # Write("probe")
  BY DEF Inputs, Derivations, Write
<1>4. /\ w \in Seq(Ops) /\ w # << >>
      /\ Range(w) = { Write(f) : f \in Inputs }
  <2>1. w \in Seq(Ops) /\ Len(w) = 3 /\ w[1] = Write("manifest") /\ w[2] = Write("metrics")
        /\ w[3] = Write("report") /\ DOMAIN w = 1 .. 3
    BY <1>1 DEF FileNames
  <2> HIDE DEF w
  <2>2. w # << >>
    <3>1. Len(<< >>) # 3
      OBVIOUS
    <3> QED
      BY <2>1, <3>1, Zenon
  <2>3. \A i \in 1 .. 3 : i = 1 \/ i = 2 \/ i = 3
    OBVIOUS
  <2>4. Range(w) = {Write("manifest"), Write("metrics"), Write("report")}
    BY <2>1, <2>3 DEF Range
  <2> QED
    BY <2>1, <2>2, <2>4 DEF Inputs
<1>5. /\ d \in Seq(Ops) /\ Range(d) \subseteq {Write("debt")}
  <2>1. << >> \in Seq(Ops) /\ Range(<< >>) = {}
    BY DEF Range
  <2>2. << Write("debt") >> \in Seq(Ops) /\ Range(<< Write("debt") >>) = {Write("debt")}
    BY <1>1 DEF FileNames, Range
  <2> QED
    BY <2>1, <2>2
<1> HIDE DEF w, d
<1>6. \A c \in Seq(Ops) : Range(c) \subseteq { Write(f) : f \in Inputs \cup {"debt"} } =>
                         Prepared(c) /\ Ordered(c)
  <2> SUFFICES ASSUME NEW c \in Seq(Ops),
                      Range(c) \subseteq { Write(f) : f \in Inputs \cup {"debt"} }
               PROVE  Prepared(c) /\ Ordered(c)
    OBVIOUS
  <2>1. ASSUME NEW i \in 1 .. Len(c)
        PROVE  c[i].op = "write" /\ c[i].file \notin Derivations
    <3>1. c[i] \in Range(c)
      BY DEF Range
    <3>2. PICK f \in Inputs \cup {"debt"} : c[i] = Write(f)
      BY <3>1
    <3> QED
      BY <1>3, <3>2, OpFacts
  <2> QED
    BY <2>1 DEF Prepared, Ordered
<1>7. Plain(d)
  BY <1>2, <1>3, <1>5, OpFacts DEF Plain, Derives, Inputs
<1> DEFINE c1 == w \o d
           c2 == c1 \o WriteNextProbe
           c3 == c2 \o WriteCard
<1>8. /\ c1 \in Seq(Ops) /\ Range(c1) = Range(w) \cup Range(d)
      /\ Prepared(c1) /\ Ordered(c1)
  <2>1. c1 \in Seq(Ops) /\ Range(c1) = Range(w) \cup Range(d)
    BY <1>4, <1>5, PlainConcat
  <2> QED
    BY <1>4, <1>5, <1>6, <2>1
<1> HIDE DEF c1
<1>9. /\ c2 \in Seq(Ops) /\ Range(c2) = Range(c1) \cup Range(WriteNextProbe)
      /\ Prepared(c2) /\ Ordered(c2)
  BY <1>8, PartsReady, PlainConcat, PreparedConcat, OrderedConcat DEF Plain
<1> HIDE DEF c2
<1>10. /\ c3 \in Seq(Ops) /\ Range(c3) = Range(c2) \cup Range(WriteCard)
       /\ Prepared(c3) /\ Ordered(c3)
  BY <1>9, PartsReady, PlainConcat, PreparedConcat, OrderedConcat DEF Plain
<1>11. IngestBundle(s) = c3
  BY DEF IngestBundle, w, d, c1, c2
<1> HIDE DEF c3
<1>12. Read("probe") \notin Range(c3) /\ Write("probe") \notin Range(c3)
  <2>1. Read("probe") \notin Range(c1) /\ Write("probe") \notin Range(c1)
    BY <1>2, <1>3, <1>4, <1>5, <1>8
  <2> QED
    BY <1>9, <1>10, <2>1, PartsReady DEF Plain
<1>13. \A f \in Inputs : Write(f) \in Range(c3)
  BY <1>4, <1>8, <1>9, <1>10
<1>14. c3 # << >>
  <2>1. Range(<< >>) = {} /\ Inputs # {}
    BY DEF Range, Inputs
  <2> QED
    BY <1>13, <2>1
<1>15. Ends(c3)
  <2>1. WriteCard # << >> /\ Ends(WriteCard)
    BY Parts, OpFacts DEF Ends
  <2> QED
    BY <1>9, <2>1, PartsReady, EndsConcat DEF c3
<1> QED
  BY <1>10, <1>11, <1>12, <1>13, <1>14, <1>15

(* What is derived of a run that is there.                                      *)
LEMMA DerivedReady ==
    ASSUME NEW c \in DerivedCommands
    PROVE  /\ c \in Seq(Ops) /\ c # << >> /\ Ends(c)
           /\ Prepared(c) /\ Derives(c) /\ ProbeReady(c, EmptyDir)
<1>1. \A file \in FileNames : Read(file) \in Ops /\ Write(file) \in Ops
  BY OpFacts
<1>2. \A a \in Seq(Ops) : Plain(a) => ProbeReady(a, EmptyDir) /\ Derives(a)
  BY DEF Plain, ProbeReady, Range
<1>3. \A a \in Seq(Ops) : \A x : x \in Range(a) => a # << >>
  BY DEF Range
<1>4. CASE c = WriteCard \/ c = WriteNextProbe \/ c = WriteDiagnosis
  <2>1. c \in Seq(Ops) /\ Plain(c) /\ Prepared(c) /\ Len(c) >= 3
    <3>1. Len(WriteCard) >= 3 /\ Len(WriteNextProbe) >= 3 /\ Len(WriteDiagnosis) >= 3
      BY Parts
    <3> QED
      BY <1>4, <3>1, PartsReady, Zenon
  <2>2. Ends(WriteCard) /\ Ends(WriteNextProbe) /\ Ends(WriteDiagnosis)
    BY Parts, OpFacts DEF Ends
  <2>3. Ends(c)
    BY <1>4, <2>2, Zenon
  <2> QED
    BY <1>2, <2>1, <2>3
<1> DEFINE one == << Read("probe") >>
           last == << Write("probe") >>
<1>5. /\ one \in Seq(Ops) /\ Len(one) = 1 /\ one[1] = Read("probe")
      /\ last \in Seq(Ops) /\ Len(last) = 1 /\ last[1] = Write("probe")
  BY <1>1 DEF FileNames
<1> HIDE DEF one, last
<1>6. CASE c = one
  <2>0. Len(c) = 1 /\ c[1] = Read("probe") /\ \A i \in 1 .. 1 : i = 1
    BY <1>5, <1>6
  <2>1. \A i \in 1 .. Len(c) : c[i] = Read("probe")
    BY <2>0
  <2>2. Read("probe").op = "read" /\ Read("probe") # Write("probe")
    BY DEF Read, Write
  <2>3. \A x \in Range(c) : x = Read("probe")
    BY <1>5, <1>6, <2>1 DEF Range
  <2>4. Prepared(c) /\ ProbeReady(c, EmptyDir)
    BY <2>1, <2>2 DEF Prepared, ProbeReady
  <2>5. Derives(c)
    BY <2>2, <2>3 DEF Derives
  <2>6. Ends(c)
    BY <2>0 DEF Ends
  <2> QED
    BY <1>5, <1>6, <2>4, <2>5, <2>6, SMTT(30)
<1>7. CASE c = WriteNextProbe \o WriteDiagnosis \o ReadPayload \o last
  <2> DEFINE c1 == WriteNextProbe \o WriteDiagnosis
             c2 == c1 \o ReadPayload
             r == ReadPayload \o last
  <2>1. /\ c1 \in Seq(Ops) /\ Plain(c1) /\ Prepared(c1)
        /\ Write("next_probe") \in Range(c1) /\ Write("tree") \in Range(c1)
    BY PartsReady, PlainConcat, PreparedConcat
  <2> HIDE DEF c1
  <2>2. /\ c2 \in Seq(Ops) /\ Plain(c2)
        /\ Write("next_probe") \in Range(c2) /\ Write("tree") \in Range(c2)
    BY <2>1, PartsReady, PlainConcat
  <2>3. r \in Seq(Ops) /\ Len(r) = 4 /\ r[4] = Write("probe")
        /\ \A i \in 1 .. 3 : r[i] = ReadPayload[i]
    <3>1. /\ r \in Seq(Ops) /\ Len(r) = 3 + Len(last)
          /\ \A i \in 1 .. 3 : r[i] = ReadPayload[i]
          /\ Len(last) >= 1 => r[4] = last[1]
      BY <1>5, Parts, ConcatThree, Zenon
    <3> QED
      BY <1>5, <3>1
  <2>4. Prepared(r)
    <3>1. \A i \in 1 .. 3 : r[i].op = "read"
      BY <2>3, Parts, OpFacts
    <3>2. \A f \in Inputs : \E i \in 1 .. 3 : r[i] = Read(f)
      BY <2>3, Parts DEF Inputs
    <3>3. ASSUME NEW k \in 1 .. Len(r), r[k].op = "write", NEW f \in Inputs
          PROVE  \E i \in 1 .. k - 1 : r[i] = Read(f) /\ \A j \in i .. k - 1 : r[j].op = "read"
      <4>1. k = 4
        BY <2>3, <3>1, <3>3
      <4>2. PICK i \in 1 .. 3 : r[i] = Read(f)
        BY <3>2
      <4>3. i \in 1 .. k - 1 /\ \A j \in i .. k - 1 : r[j].op = "read"
        BY <3>1, <4>1
      <4> QED
        BY <4>2, <4>3, Zenon
    <3> QED
      BY <3>3 DEF Prepared
  <2>5. c = c1 \o r
    <3>1. WriteNextProbe \o WriteDiagnosis \o ReadPayload \o last = c2 \o last
      BY DEF c1
    <3>2. \A u, v, t \in Seq(Ops) : (u \o v) \o t = u \o (v \o t)
      BY ConcatAssociative
    <3>3. (c1 \o ReadPayload) \o last = c1 \o (ReadPayload \o last)
      BY <1>5, <2>1, <3>2, PartsReady, ZenonT(30)
    <3> QED
      BY <1>7, <3>1, <3>3, Zenon
  <2> HIDE DEF r
  <2>6. c \in Seq(Ops) /\ Prepared(c)
    BY <2>1, <2>3, <2>4, <2>5, PlainConcat, PreparedConcat
  <2>7. c = c2 \o last
    BY <1>7 DEF c1
  <2> HIDE DEF c2
  <2>8. /\ Len(c) = Len(c2) + 1 /\ Len(c2) \in Nat
        /\ \A i \in 1 .. Len(c2) : c[i] = c2[i]
        /\ Range(c) = Range(c2) \cup Range(last)
    <3>1. /\ Len(c) = Len(c2) + Len(last)
          /\ \A i \in 1 .. Len(c2) : c[i] = c2[i]
      BY <1>5, <2>2, <2>7, ConcatIndex
    <3>2. Range(c) = Range(c2) \cup Range(last)
      BY <1>5, <2>2, <2>7, PlainConcat
    <3> QED
      BY <1>5, <2>2, <3>1, <3>2
  <2>9. Derives(c)
    <3>1. Range(last) = {Write("probe")} /\ Write("probe").file \notin Inputs
      BY <1>5, OpFacts DEF Range, Inputs
    <3> QED
      BY <2>2, <2>8, <3>1 DEF Derives, Plain
  <2>10. ASSUME NEW k \in 1 .. Len(c), c[k] = Write("probe"), NEW f \in {"next_probe", "tree"}
         PROVE  \E i \in 1 .. k - 1 : c[i] = Write(f)
    <3>1. k \notin 1 .. Len(c2)
      BY <2>2, <2>8, <2>10 DEF Plain, Range
    <3>2. k = Len(c2) + 1
      BY <2>8, <3>1
    <3>3. PICK i \in 1 .. Len(c2) : c2[i] = Write(f)
      BY <2>2 DEF Range
    <3>4. i \in 1 .. k - 1 /\ c[i] = Write(f)
      BY <2>8, <3>2, <3>3
    <3> QED
      BY <3>4, Zenon
  <2>11. c # << >>
    BY <2>6, <2>8
  <2>12. Ends(c)
    <3>1. last # << >> /\ Ends(last)
      BY <1>5, OpFacts DEF Ends
    <3> QED
      BY <1>5, <2>2, <2>7, <3>1, EndsConcat
  <2> QED
    BY <2>6, <2>9, <2>10, <2>11, <2>12 DEF ProbeReady
<1> QED
  BY <1>4, <1>6, <1>7 DEF DerivedCommands, one, last

(* A sweep writes the inputs and nothing else.                                  *)
LEMMA SweepReady ==
    /\ WriteSweep \in Seq(Ops) /\ WriteSweep # << >> /\ Ends(WriteSweep)
    /\ Range(WriteSweep) \subseteq { Write(f) : f \in Inputs }
<1>1. /\ WriteSweep \in Seq(Ops) /\ Len(WriteSweep) = 3 /\ DOMAIN WriteSweep = 1 .. 3
      /\ WriteSweep[1] = Write("manifest") /\ WriteSweep[2] = Write("metrics")
      /\ WriteSweep[3] = Write("report")
  BY OpFacts DEF WriteSweep, FileNames
<1>2. \A i \in 1 .. 3 : i = 1 \/ i = 2 \/ i = 3
  OBVIOUS
<1>3. Range(WriteSweep) \subseteq { Write(f) : f \in Inputs }
  BY <1>1, <1>2 DEF Range, Inputs
<1>4. WriteSweep # << >> /\ Ends(WriteSweep)
  BY <1>1, OpFacts DEF Ends
<1> QED
  BY <1>1, <1>3, <1>4, Zenon

-----------------------------------------------------------------------------
(* The invariant.                                                               *)
Told(s, f) ==
    IF f = "manifest" THEN IngestedManifest(s)
    ELSE IF f = "metrics" THEN Bundle[s].metrics ELSE IngestedReport(s)
(* A file that is derived of one whole bundle.                                  *)
Derived(s, f, x) ==
    /\ f = "next_probe" => x = PlanOf(s)
    /\ f = "tree" => \E debt : x = diagnose_payload(PayloadOf(s), debt)
    /\ f = "probe" => \E debt : x = ProbeOf(s, debt)
    /\ f = "card" => x = CardOf(s)

(* A run directory: each file once at most, what its origin says, and in a sweep *)
(* nothing but what a sweep tells.                                              *)
Dir(run, dir, of) ==
    /\ DOMAIN dir = FileNames /\ DOMAIN of = FileNames
    /\ IsSweep(run) \/ run \in { External(slug) : slug \in Slugs }
    /\ \A f \in FileNames : dir[f] = {} \/ \E x \in dir[f] : dir[f] = {x}
    /\ \A m \in dir["manifest"] \ {Torn} : m.slug = IF IsSweep(run) THEN {} ELSE {run[2]}
    /\ IsSweep(run) => \A f \in FileNames : SweepFile(f, dir[f] \ {Torn})
    /\ \A f \in FileNames : \A s \in of[f] :
         /\ s \in Sources /\ run = External(Bundle[s].slug)
         /\ \A x \in dir[f] : Derived(s, f, x)

(* A command under way: what is left of it ...                                  *)
JobFields == {"run", "todo", "source", "sweep", "read", "wrote", "of"}
Remains(todo) ==
    /\ todo \in Seq(Ops) /\ todo # << >>
    /\ \E c \in AllCommands : \E k \in DOMAIN c : todo = SubSeq(c, k, Len(c))
    /\ Ends(todo)
Kind(job) ==
    \/ \E s \in Sources :
         /\ job.source = {s} /\ job.sweep = {} /\ job.run = External(Bundle[s].slug)
         /\ Ordered(job.todo) /\ Read("probe") \notin Range(job.todo)
    \/ /\ job.source = {} /\ job.of = {}
       /\ \E sweep \in job.sweep : job.sweep = {sweep} /\ job.run = SweepRun(sweep)
       /\ Range(job.todo) \subseteq { Write(f) : f \in Inputs }
    \/ job.source = {} /\ job.sweep = {} /\ Derives(job.todo)
(* ... and what the derivations left will have read, and what it has written.   *)
Reading(job) ==
    \A k \in 1 .. Len(job.todo) :
        job.todo[k].op = "write" /\ job.todo[k].file \in Derivations =>
            \A f \in Inputs :
                \/ \E i \in 1 .. k - 1 : /\ job.todo[i] = Read(f)
                                         /\ \A j \in i .. k - 1 : job.todo[j].op = "read"
                \/ /\ \A j \in 1 .. k - 1 : job.todo[j].op = "read"
                   /\ \A s \in job.of : job.read[f] = {Told(s, f)}
Written(job) ==
    /\ ProbeReady(job.todo, job.wrote)
    /\ \A s \in job.of, f \in FileNames : \A x \in job.wrote[f] : Derived(s, f, x)
    /\ IsSweep(job.run) /\ job.sweep = {} =>
         \A f \in FileNames : SweepFile(f, job.read[f]) /\ SweepFile(f, job.wrote[f])
Job(job) ==
    /\ DOMAIN job = JobFields /\ DOMAIN job.read = FileNames /\ DOMAIN job.wrote = FileNames
    /\ Remains(job.todo) /\ Kind(job) /\ Reading(job) /\ Written(job)

DirsInv ==
    /\ DOMAIN origin = DOMAIN files
    /\ \A run \in DOMAIN files : Dir(run, files[run], origin[run])
JobsInv ==
    /\ DOMAIN jobs = Procs
    /\ \A p \in Procs : jobs[p] = Idle \/ (Job(jobs[p]) /\ jobs[p].run \in DOMAIN files)
(* The sources of a slug, those under way among them.                           *)
MixedInv ==
    /\ mixed \in [Slugs -> SUBSET (Sources \cup {Torn})]
    /\ \A slug \in Slugs : IsFiniteSet(mixed[slug])
    /\ \A slug \in Slugs : \A s \in mixed[slug] \ {Torn} : Bundle[s].slug = slug
    /\ \A p \in Procs : Busy(p) => \A s \in jobs[p].source : s \in mixed[Bundle[s].slug]
(* A command of one source: no other source is ingested where it works, and it   *)
(* finds the files of that one or will write them itself.                       *)
OneInv ==
    \A p \in Procs : Busy(p) => \A s \in jobs[p].of :
        /\ s \in Sources /\ jobs[p].of = {s} /\ jobs[p].run = External(Bundle[s].slug)
        /\ \A q \in Procs : Busy(q) /\ jobs[q].run = jobs[p].run => jobs[q].source \subseteq {s}
        /\ \A f \in Inputs : \/ files[jobs[p].run][f] \in {{Told(s, f)}, {Torn}}
                             \/ Write(f) \in Range(jobs[p].todo)
(* A directory of one source holds its files, but for what is still to come.    *)
WholeInv ==
    \A slug \in Slugs, s \in Sources :
        External(slug) \in DOMAIN files /\ mixed[slug] = {s} /\ s # Torn =>
            \A f \in Inputs :
                \/ files[External(slug)][f] = {Told(s, f)}
                \/ \E p \in Procs : /\ Busy(p) /\ jobs[p].source = {s}
                                    /\ Write(f) \in Range(jobs[p].todo)
CountInv == commands \in 0 .. MaxCommands /\ crashes \in 0 .. MaxCrashes
IInv == DirsInv /\ JobsInv /\ MixedInv /\ OneInv /\ WholeInv /\ CountInv

-----------------------------------------------------------------------------
(* A command, step by step.                                                     *)

(* The list without its first operation.                                        *)
LEMMA TailFacts ==
    ASSUME NEW t \in Seq(Ops), t # << >>
    PROVE  /\ Head(t) = t[1] /\ Head(t) \in Ops /\ Tail(t) \in Seq(Ops)
           /\ Len(t) \in Nat /\ Len(t) >= 1 /\ Len(Tail(t)) = Len(t) - 1
           /\ \A i \in 1 .. Len(Tail(t)) : i + 1 \in 1 .. Len(t) /\ Tail(t)[i] = t[i + 1]
           /\ Range(t) = {Head(t)} \cup Range(Tail(t))
<1>1. /\ Head(t) = t[1] /\ Head(t) \in Ops /\ Tail(t) \in Seq(Ops)
      /\ Len(t) \in Nat /\ Len(t) >= 1 /\ Len(Tail(t)) = Len(t) - 1
      /\ \A i \in 1 .. Len(Tail(t)) : i + 1 \in 1 .. Len(t) /\ Tail(t)[i] = t[i + 1]
      /\ DOMAIN t = 1 .. Len(t) /\ DOMAIN Tail(t) = 1 .. Len(Tail(t))
  OBVIOUS
<1>2. ASSUME NEW x \in Range(t) PROVE x \in {Head(t)} \cup Range(Tail(t))
  <2>1. PICK i \in 1 .. Len(t) : t[i] = x
    BY <1>1 DEF Range
  <2>2. CASE i = 1
    BY <1>1, <2>1, <2>2
  <2>3. CASE i # 1
    <3>1. i - 1 \in 1 .. Len(Tail(t)) /\ (i - 1) + 1 = i
      BY <1>1, <2>3
    <3>2. Tail(t)[i - 1] = x
      BY <1>1, <2>1, <3>1
    <3> QED
      BY <1>1, <3>1, <3>2 DEF Range
  <2> QED
    BY <2>2, <2>3
<1>3. ASSUME NEW x \in {Head(t)} \cup Range(Tail(t)) PROVE x \in Range(t)
  <2>1. CASE x = Head(t)
    <3>1. 1 \in 1 .. Len(t)
      BY <1>1
    <3> QED
      BY <1>1, <2>1, <3>1 DEF Range
  <2>2. CASE x \in Range(Tail(t))
    BY <1>1, <2>2 DEF Range
  <2> QED
    BY <2>1, <2>2
<1> QED
  BY <1>1, <1>2, <1>3

(* What remains of a command is left when its first operation is done.          *)
LEMMA RemainsTail ==
    ASSUME NEW t, Remains(t), Tail(t) # << >>
    PROVE  Remains(Tail(t))
<1>1. t \in Seq(Ops) /\ t # << >> /\ Ends(t)
  BY DEF Remains
<1>2. PICK c \in AllCommands : \E k \in DOMAIN c : t = SubSeq(c, k, Len(c))
  BY DEF Remains
<1>3. PICK k \in DOMAIN c : t = SubSeq(c, k, Len(c))
  BY <1>2
<1>4. c \in Seq(Ops)
  BY IngestReady, DerivedReady, SweepReady DEF AllCommands
<1>5. Tail(t) \in Seq(Ops) /\ Len(Tail(t)) # 0
  <2>1. Tail(t) \in Seq(Ops)
    BY <1>1, TailFacts
  <2> QED
    BY <2>1, EmptyByLength, Zenon
<1>6. k + 1 \in DOMAIN c /\ Tail(t) = SubSeq(c, k + 1, Len(c))
  <2>1. k \in 1 .. Len(c) /\ Len(c) \in Nat
    BY <1>4
  <2>2. Len(t) = Len(c) - k + 1
    BY <1>3, <1>4, <2>1
  <2>3. Len(Tail(t)) = Len(c) - k
    BY <1>1, <2>1, <2>2, TailFacts
  <2>4. k + 1 \in 1 .. Len(c)
    BY <1>5, <2>1, <2>3
  <2>5. Tail(SubSeq(c, k, Len(c))) = SubSeq(c, k + 1, Len(c))
    BY <1>4, <2>1, <2>4, SMTT(30)
  <2>6. k + 1 \in DOMAIN c
    BY <1>4, <2>4
  <2> QED
    BY <1>3, <2>5, <2>6, Zenon
<1>7. Ends(Tail(t))
  <2>1. Len(Tail(t)) \in 1 .. Len(Tail(t)) /\ Len(Tail(t)) + 1 = Len(t)
    BY <1>1, <1>5, TailFacts
  <2>2. Tail(t)[Len(Tail(t))] = t[Len(t)]
    BY <1>1, <2>1, TailFacts
  <2> QED
    BY <1>1, <2>2 DEF Ends
<1> QED
  BY <1>5, <1>6, <1>7 DEF Remains

(* A read is never the last operation, but for that of a probe.                 *)
LEMMA ReadGoesOn ==
    ASSUME NEW t, Remains(t), Head(t).op = "read", Head(t).file # "probe"
    PROVE  Tail(t) # << >>
<1> SUFFICES ASSUME Tail(t) = << >> PROVE FALSE
  OBVIOUS
<1>1. t \in Seq(Ops) /\ t # << >> /\ Ends(t)
  BY DEF Remains
<1>2. Len(t) = 1 /\ Head(t) = t[1]
  <2>1. /\ Tail(t) \in Seq(Ops) /\ Head(t) = t[1]
        /\ Len(t) \in Nat /\ Len(Tail(t)) = Len(t) - 1
    BY <1>1, TailFacts
  <2>2. Len(Tail(t)) = 0
    BY <2>1, EmptyByLength, Zenon
  <2> QED
    BY <2>1, <2>2
<1>3. t[1].op = "write" \/ t[1] = Read("probe")
  BY <1>1, <1>2 DEF Ends
<1> QED
  BY <1>2, <1>3, OpFacts

(* What kind of command it is does not change on the way.                       *)
LEMMA KindTail ==
    ASSUME NEW job, Kind(job), job.todo \in Seq(Ops), job.todo # << >>,
           NEW next, next.run = job.run, next.source = job.source, next.sweep = job.sweep,
           next.of = job.of, next.todo = Tail(job.todo)
    PROVE  Kind(next)
<1>1. Range(next.todo) \subseteq Range(job.todo)
  BY TailFacts
<1>2. Ordered(job.todo) => Ordered(next.todo)
  <2> SUFFICES ASSUME Ordered(job.todo),
                      NEW i \in 1 .. Len(next.todo), NEW k \in 1 .. Len(next.todo),
                      next.todo[i].op = "write", next.todo[i].file \in Inputs,
                      next.todo[k].op = "read"
               PROVE  i < k
    BY DEF Ordered
  <2>1. /\ i + 1 \in 1 .. Len(job.todo) /\ next.todo[i] = job.todo[i + 1]
        /\ k + 1 \in 1 .. Len(job.todo) /\ next.todo[k] = job.todo[k + 1]
    BY TailFacts
  <2>2. i + 1 < k + 1
    BY <2>1 DEF Ordered
  <2> QED
    BY <2>2
<1>3. Derives(job.todo) => Derives(next.todo)
  BY <1>1 DEF Derives
<1> QED
  BY <1>1, <1>2, <1>3 DEF Kind

(* One step of a command: the job goes on.                                      *)
Goes(job, next) ==
    /\ DOMAIN next = JobFields /\ next.run = job.run /\ next.source = job.source
    /\ next.sweep = job.sweep /\ next.of = job.of /\ next.todo = Tail(job.todo)

(* What is read, is what the derivations left will have read.                   *)
Reads(job, f, content, next) ==
    /\ Job(job) /\ Head(job.todo).op = "read" /\ Head(job.todo).file # "probe"
    /\ f = Head(job.todo).file
    /\ f \in Inputs => \A s \in job.of : content = {Told(s, f)}
    /\ IsSweep(job.run) => SweepFile(f, content)
    /\ Goes(job, next) /\ next.read = [job.read EXCEPT ![f] = content]
    /\ next.wrote = job.wrote

(* ReadFile keeps the rest of the command ready for what it will derive.        *)
LEMMA ReadJob ==
    ASSUME NEW job, NEW f, NEW content, NEW next, Reads(job, f, content, next)
    PROVE  Job(next)
<1> USE DEF Reads
<1> DEFINE t == job.todo
           u == next.todo
<1>1. t \in Seq(Ops) /\ t # << >> /\ f \in FileNames
  <2>1. t \in Seq(Ops) /\ t # << >>
    BY DEF Job, Remains
  <2> QED
    BY <2>1, TailFacts, OpFacts
<1>2. /\ u = Tail(t) /\ u # << >> /\ Remains(u)
  BY ReadGoesOn, RemainsTail DEF Goes, Job
<1>3. /\ u \in Seq(Ops) /\ Len(t) \in Nat /\ Len(t) >= 1 /\ Len(u) = Len(t) - 1
      /\ t[1] = Read(f)
      /\ \A i \in 1 .. Len(u) : i + 1 \in 1 .. Len(t) /\ u[i] = t[i + 1]
  <2>1. Head(t) = t[1] /\ Head(t) \in Ops
    BY <1>1, TailFacts
  <2> QED
    BY <1>1, <1>2, <2>1, TailFacts, OpFacts
<1>4. Kind(next)
  BY <1>1, KindTail DEF Job, Goes
<1>5. DOMAIN next.read = FileNames /\ DOMAIN next.wrote = FileNames
  BY DEF Job
<1>6. Reading(job) /\ Written(job) /\ DOMAIN job.read = FileNames
  BY DEF Job
<1>7. next.of = job.of /\ next.run = job.run /\ next.sweep = job.sweep
  BY DEF Goes
<1> HIDE DEF t, u
<1>8. Reading(next)
  <2> SUFFICES ASSUME NEW k \in 1 .. Len(u), u[k].op = "write", u[k].file \in Derivations,
                      NEW g \in Inputs
               PROVE  \/ \E i \in 1 .. k - 1 : /\ u[i] = Read(g)
                                                /\ \A j \in i .. k - 1 : u[j].op = "read"
                      \/ /\ \A j \in 1 .. k - 1 : u[j].op = "read"
                         /\ \A s \in next.of : next.read[g] = {Told(s, g)}
    BY DEF Reading, u
  <2>1. k + 1 \in 1 .. Len(t) /\ u[k] = t[k + 1] /\ (k + 1) - 1 = k
    BY <1>3
  <2>2. \A j \in 1 .. k - 1 : u[j] = t[j + 1]
    BY <1>3
  <2>3. \/ \E i \in 1 .. k : t[i] = Read(g) /\ \A j \in i .. k : t[j].op = "read"
        \/ /\ \A j \in 1 .. k : t[j].op = "read"
           /\ \A s \in job.of : job.read[g] = {Told(s, g)}
    BY <1>6, <2>1 DEF Reading, t
  <2>4. ASSUME NEW i \in 1 .. k, t[i] = Read(g), \A j \in i .. k : t[j].op = "read", i # 1
        PROVE  \E m \in 1 .. k - 1 : u[m] = Read(g) /\ \A j \in m .. k - 1 : u[j].op = "read"
    <3>1. i - 1 \in 1 .. k - 1 /\ (i - 1) + 1 = i
      BY <2>4
    <3>2. u[i - 1] = Read(g)
      BY <2>2, <2>4, <3>1
    <3>3. ASSUME NEW j \in i - 1 .. k - 1 PROVE u[j].op = "read"
      <4>1. j \in 1 .. k - 1 /\ j + 1 \in i .. k
        BY <3>1
      <4> QED
        BY <2>2, <2>4, <4>1
    <3> QED
      BY <3>1, <3>2, <3>3, Zenon
  <2>5. ASSUME \A j \in 1 .. k : t[j].op = "read"
        PROVE  \A j \in 1 .. k - 1 : u[j].op = "read"
    <3>1. \A j \in 1 .. k - 1 : j + 1 \in 1 .. k
      OBVIOUS
    <3> QED
      BY <2>2, <2>5, <3>1
  <2>6. ASSUME t[1] = Read(g) PROVE \A s \in next.of : next.read[g] = {Told(s, g)}
    <3>1. g = f
      BY <1>3, <2>6, OpFacts
    <3> QED
      BY <1>1, <1>6, <1>7, <3>1
  <2>7. ASSUME \A s \in job.of : job.read[g] = {Told(s, g)}
        PROVE  \A s \in next.of : next.read[g] = {Told(s, g)}
    <3>1. g \in FileNames
      BY DEF Inputs, FileNames
    <3> QED
      BY <1>1, <1>6, <1>7, <2>7, <3>1
  <2>8. CASE \E i \in 1 .. k : t[i] = Read(g) /\ \A j \in i .. k : t[j].op = "read"
    <3>1. PICK i \in 1 .. k : t[i] = Read(g) /\ \A j \in i .. k : t[j].op = "read"
      BY <2>8
    <3>2. CASE i = 1
      BY <2>5, <2>6, <3>1, <3>2
    <3>3. CASE i # 1
      BY <2>4, <3>1, <3>3
    <3> QED
      BY <3>2, <3>3, Zenon
  <2>9. CASE /\ \A j \in 1 .. k : t[j].op = "read"
             /\ \A s \in job.of : job.read[g] = {Told(s, g)}
    BY <2>5, <2>7, <2>9, Zenon
  <2> QED
    BY <2>3, <2>8, <2>9, Zenon
<1>9. Written(next)
  <2>1. ProbeReady(u, next.wrote)
    <3> SUFFICES ASSUME NEW k \in 1 .. Len(u), u[k] = Write("probe"),
                        NEW g \in {"next_probe", "tree"}
                 PROVE  next.wrote[g] # {} \/ \E i \in 1 .. k - 1 : u[i] = Write(g)
      BY DEF ProbeReady
    <3>1. k + 1 \in 1 .. Len(t) /\ t[k + 1] = Write("probe") /\ (k + 1) - 1 = k
      BY <1>3
    <3>2. job.wrote[g] # {} \/ \E i \in 1 .. k : t[i] = Write(g)
      BY <1>6, <3>1 DEF Written, ProbeReady, t
    <3>3. ASSUME NEW i \in 1 .. k, t[i] = Write(g)
          PROVE  i - 1 \in 1 .. k - 1 /\ u[i - 1] = Write(g)
      <4>1. i # 1
        BY <1>3, <3>3 DEF Read, Write
      <4>2. i - 1 \in 1 .. Len(u) /\ (i - 1) + 1 = i
        BY <1>3, <4>1
      <4> QED
        BY <1>3, <3>3, <4>1, <4>2
    <3> QED
      BY <3>2, <3>3
  <2>2. \A s \in next.of, g \in FileNames : \A x \in next.wrote[g] : Derived(s, g, x)
    BY <1>6, <1>7 DEF Written
  <2>3. IsSweep(next.run) /\ next.sweep = {} =>
          \A g \in FileNames : SweepFile(g, next.read[g]) /\ SweepFile(g, next.wrote[g])
    BY <1>6, <1>7 DEF Written
  <2> QED
    BY <2>1, <2>2, <2>3 DEF Written, u
<1> QED
  BY <1>2, <1>4, <1>5, <1>8, <1>9 DEF Job, Goes, u

(* After a write nothing is read, and it may be that something is written.      *)
Writes(job, f, content, next) ==
    /\ Job(job) /\ Head(job.todo).op = "write" /\ f = Head(job.todo).file
    /\ Tail(job.todo) # << >> /\ (f \in Kept => content # {})
    /\ \A s \in job.of : \A x \in content : Derived(s, f, x)
    /\ IsSweep(job.run) => SweepFile(f, content)
    /\ Goes(job, next) /\ next.read = EmptyDir
    /\ next.wrote = [job.wrote EXCEPT ![f] = content]

(* So does WriteFile, which forgets what was read: a derivation reads for       *)
(* itself.                                                                      *)
LEMMA WriteJob ==
    ASSUME NEW job, NEW f, NEW content, NEW next, Writes(job, f, content, next)
    PROVE  Job(next)
<1> USE DEF Writes
<1> DEFINE t == job.todo
           u == next.todo
<1>1. t \in Seq(Ops) /\ t # << >> /\ f \in FileNames
  <2>1. t \in Seq(Ops) /\ t # << >>
    BY DEF Job, Remains
  <2> QED
    BY <2>1, TailFacts, OpFacts
<1>2. /\ u = Tail(t) /\ u # << >> /\ Remains(u)
  BY RemainsTail DEF Goes, Job
<1>3. /\ u \in Seq(Ops) /\ Len(t) \in Nat /\ Len(t) >= 1 /\ Len(u) = Len(t) - 1
      /\ t[1] = Write(f) /\ t[1].op # "read"
      /\ \A i \in 1 .. Len(u) : i + 1 \in 1 .. Len(t) /\ u[i] = t[i + 1]
  <2>1. Head(t) = t[1] /\ Head(t) \in Ops
    BY <1>1, TailFacts
  <2> QED
    BY <1>1, <1>2, <2>1, TailFacts, OpFacts
<1>4. Kind(next)
  BY <1>1, KindTail DEF Job, Goes
<1>5. DOMAIN next.read = FileNames /\ DOMAIN next.wrote = FileNames
  BY DEF Job, EmptyDir
<1>6. Reading(job) /\ Written(job) /\ DOMAIN job.wrote = FileNames
  BY DEF Job
<1>7. next.of = job.of /\ next.run = job.run /\ next.sweep = job.sweep
  BY DEF Goes
<1> HIDE DEF t, u
<1>8. Reading(next)
  <2> SUFFICES ASSUME NEW k \in 1 .. Len(u), u[k].op = "write", u[k].file \in Derivations,
                      NEW g \in Inputs
               PROVE  \E i \in 1 .. k - 1 : /\ u[i] = Read(g)
                                            /\ \A j \in i .. k - 1 : u[j].op = "read"
    BY DEF Reading, u
  <2>1. k + 1 \in 1 .. Len(t) /\ u[k] = t[k + 1] /\ (k + 1) - 1 = k /\ 1 \in 1 .. k
    BY <1>3
  <2>2. ASSUME NEW j \in 1 .. k - 1 PROVE u[j] = t[j + 1]
    <3>1. j \in 1 .. Len(u)
      BY <1>3
    <3> QED
      BY <1>3, <3>1, Zenon
  <2>3. \E i \in 1 .. k : t[i] = Read(g) /\ \A j \in i .. k : t[j].op = "read"
    <3>1. \/ \E i \in 1 .. k : t[i] = Read(g) /\ \A j \in i .. k : t[j].op = "read"
          \/ \A j \in 1 .. k : t[j].op = "read"
      BY <1>6, <2>1 DEF Reading, t
    <3> QED
      BY <1>3, <2>1, <3>1
  <2>4. PICK i \in 1 .. k : t[i] = Read(g) /\ \A j \in i .. k : t[j].op = "read"
    BY <2>3
  <2>5. i # 1
    BY <1>3, <2>4 DEF Read, Write
  <2>6. i - 1 \in 1 .. k - 1 /\ (i - 1) + 1 = i
    BY <2>5
  <2>7. u[i - 1] = Read(g)
    BY <2>2, <2>4, <2>6
  <2>8. ASSUME NEW j \in i - 1 .. k - 1 PROVE u[j].op = "read"
    <3>1. j \in 1 .. k - 1 /\ j + 1 \in i .. k
      BY <2>6
    <3> QED
      BY <2>2, <2>4, <3>1
  <2> QED
    BY <2>6, <2>7, <2>8, Zenon
<1>9. Written(next)
  <2>1. ProbeReady(u, next.wrote)
    <3> SUFFICES ASSUME NEW k \in 1 .. Len(u), u[k] = Write("probe"),
                        NEW g \in {"next_probe", "tree"}
                 PROVE  next.wrote[g] # {} \/ \E i \in 1 .. k - 1 : u[i] = Write(g)
      BY DEF ProbeReady
    <3>1. k + 1 \in 1 .. Len(t) /\ t[k + 1] = Write("probe") /\ (k + 1) - 1 = k
      BY <1>3
    <3>2. job.wrote[g] # {} \/ \E i \in 1 .. k : t[i] = Write(g)
      BY <1>6, <3>1 DEF Written, ProbeReady, t
    <3>3. ASSUME NEW i \in 1 .. k, t[i] = Write(g), i # 1
          PROVE  i - 1 \in 1 .. k - 1 /\ u[i - 1] = Write(g)
      <4>1. i - 1 \in 1 .. Len(u) /\ (i - 1) + 1 = i
        BY <1>3, <3>3
      <4> QED
        BY <1>3, <3>3, <4>1
    <3>4. g \in FileNames /\ g \in Kept
      BY DEF FileNames, Kept
    <3>5. ASSUME t[1] = Write(g) PROVE next.wrote[g] # {}
      <4>1. g = f
        BY <1>3, <3>5, OpFacts
      <4> QED
        BY <1>1, <1>6, <3>4, <4>1
    <3>6. ASSUME job.wrote[g] # {} PROVE next.wrote[g] # {}
      <4>1. CASE g = f
        BY <1>1, <1>6, <3>4, <4>1
      <4>2. CASE g # f
        BY <1>6, <3>4, <3>6, <4>2
      <4> QED
        BY <4>1, <4>2
    <3> QED
      BY <3>2, <3>3, <3>5, <3>6
  <2>2. ASSUME NEW s \in next.of, NEW g \in FileNames, NEW x \in next.wrote[g]
        PROVE  Derived(s, g, x)
    <3>1. CASE g = f
      BY <1>1, <1>6, <1>7, <2>2, <3>1
    <3>2. CASE g # f
      <4>1. x \in job.wrote[g] /\ s \in job.of
        BY <1>6, <1>7, <2>2, <3>2
      <4> QED
        BY <1>6, <4>1 DEF Written
    <3> QED
      BY <3>1, <3>2
  <2>3. ASSUME IsSweep(next.run) /\ next.sweep = {}, NEW g \in FileNames
        PROVE  SweepFile(g, next.read[g]) /\ SweepFile(g, next.wrote[g])
    <3>1. next.read[g] = {}
      BY DEF EmptyDir
    <3>2. IsSweep(job.run) /\ job.sweep = {}
      BY <1>7, <2>3
    <3>3. SweepFile(g, job.wrote[g])
      BY <1>6, <3>2 DEF Written
    <3>4. SweepFile(g, next.wrote[g])
      <4>1. CASE g = f
        BY <1>1, <1>6, <3>2, <4>1
      <4>2. CASE g # f
        <5>1. next.wrote[g] = job.wrote[g]
          BY <1>6, <4>2
        <5> QED
          BY <3>3, <5>1
      <4> QED
        BY <4>1, <4>2
    <3> QED
      BY <3>1, <3>4 DEF SweepFile
  <2> QED
    BY <2>1, <2>2, <2>3 DEF Written, u
<1> QED
  BY <1>2, <1>4, <1>5, <1>8, <1>9 DEF Job, Goes, u

(* A derivation that is next was preceded by its reads.                         *)
LEMMA HasRead ==
    ASSUME NEW job, Job(job), NEW f \in Derivations, Head(job.todo) = Write(f),
           NEW s \in job.of
    PROVE  \A g \in Inputs : job.read[g] = {Told(s, g)}
<1>1. /\ job.todo \in Seq(Ops) /\ 1 \in 1 .. Len(job.todo) /\ job.todo[1] = Write(f)
  BY TailFacts DEF Job, Remains
<1>2. job.todo[1].op = "write" /\ job.todo[1].file = f
  BY <1>1, OpFacts
<1>3. ASSUME NEW g \in Inputs
      PROVE  \/ \E i \in 1 .. 1 - 1 : /\ job.todo[i] = Read(g)
                                      /\ \A j \in i .. 1 - 1 : job.todo[j].op = "read"
             \/ /\ \A j \in 1 .. 1 - 1 : job.todo[j].op = "read"
                /\ \A z \in job.of : job.read[g] = {Told(z, g)}
  BY <1>1, <1>2 DEF Job, Reading
<1>4. \A i \in 1 .. 1 - 1 : FALSE
  OBVIOUS
<1> QED
  BY <1>3, <1>4

(* What a command writes, file by file.                                         *)
LEMMA Contents ==
    ASSUME NEW job
    PROVE  /\ Content(job, "manifest") = IF job.sweep # {} THEN SweepManifest(TheOne(job.sweep))
                                         ELSE IngestedManifest(TheOne(job.source))
           /\ Content(job, "metrics") = IF job.sweep # {} THEN NoMetrics
                                        ELSE Bundle[TheOne(job.source)].metrics
           /\ Content(job, "report") = IF job.sweep # {} THEN SweepReport
                                       ELSE IngestedReport(TheOne(job.source))
           /\ Content(job, "next_probe") = build_next_probe(Payload(job))
           /\ Content(job, "tree") = diagnose_payload(Payload(job), UNION job.read.debt)
           /\ Content(job, "probe") = materialize(TheOne(job.wrote.next_probe),
                                                  TheOne(job.wrote.tree), Payload(job))
           /\ Content(job, "card") = Card(job)
<1> DEFINE sm == SweepManifest(TheOne(job.sweep))
           im == IngestedManifest(TheOne(job.source))
           me == IF job.sweep # {} THEN NoMetrics ELSE Bundle[TheOne(job.source)].metrics
           re == IF job.sweep # {} THEN SweepReport ELSE IngestedReport(TheOne(job.source))
           d1 == TheOne(Bundle[TheOne(job.source)].debt).items
           d2 == TheOne(job.wrote.card).debt
           np == build_next_probe(Payload(job))
           tr == diagnose_payload(Payload(job), UNION job.read.debt)
           pr == materialize(TheOne(job.wrote.next_probe), TheOne(job.wrote.tree), Payload(job))
           ca == Card(job)
           sweep == job.sweep # {}
           carded == job.wrote.card # {}
<1>1. \A file : Content(job, file) =
        CASE file = "manifest" /\ sweep -> sm
          [] file = "manifest" /\ ~ sweep -> im
          [] file = "metrics" -> me
          [] file = "report" -> re
          [] file = "debt" /\ ~ carded -> d1
          [] file = "debt" /\ carded -> d2
          [] file = "next_probe" -> np
          [] file = "tree" -> tr
          [] file = "probe" -> pr
          [] file = "card" -> ca
  BY DEF Content
<1>2. /\ Content(job, "manifest") = IF sweep THEN sm ELSE im
      /\ Content(job, "metrics") = me /\ Content(job, "report") = re
      /\ Content(job, "next_probe") = np /\ Content(job, "tree") = tr
      /\ Content(job, "probe") = pr /\ Content(job, "card") = ca
  <2> HIDE DEF sm, im, me, re, d1, d2, np, tr, pr, ca, sweep, carded
  <2> QED
    BY <1>1
<1> QED
  BY <1>2

(* A command of one source writes what derives of it.                           *)
LEMMA WritesDerived ==
    ASSUME NEW job, Job(job), NEW f \in FileNames, Head(job.todo) = Write(f),
           NEW s \in job.of, s \in Sources, job.run = External(Bundle[s].slug)
    PROVE  Derived(s, f, Content(job, f))
<1>1. CASE f \notin Derivations
  BY <1>1 DEF Derived, Derivations
<1>2. ASSUME f \in Derivations PROVE Payload(job) = PayloadOf(s) /\ Card(job) = CardOf(s)
  <2>1. \A g \in Inputs : job.read[g] = {Told(s, g)}
    BY <1>2, HasRead
  <2>2. /\ job.read.manifest = {IngestedManifest(s)} /\ job.read.metrics = {Bundle[s].metrics}
        /\ job.read.report = {IngestedReport(s)}
    BY <2>1 DEF Inputs, Told
  <2>3. Payload(job) = PayloadOf(s)
    BY <2>2, Zenon DEF Payload, PayloadOf
  <2>4. { Range(report.blockers) : report \in job.read.report }
          = {Range(IngestedReport(s).blockers)}
    BY <2>2
  <2>5. Card(job) = CardOf(s)
    BY <2>2, <2>4, Zenon DEF Card, CardOf
  <2> QED
    BY <2>3, <2>5
<1>3. CASE f = "next_probe"
  <2>1. Content(job, f) = PlanOf(s)
    BY <1>2, <1>3, Contents DEF PlanOf, Derivations
  <2> QED
    BY <1>3, <2>1 DEF Derived
<1>4. CASE f = "tree"
  <2>1. Content(job, f) = diagnose_payload(PayloadOf(s), UNION job.read.debt)
    BY <1>2, <1>4, Contents DEF Derivations
  <2> QED
    BY <1>4, <2>1 DEF Derived
<1>5. CASE f = "card"
  <2>1. Content(job, f) = CardOf(s)
    BY <1>2, <1>5, Contents DEF Derivations
  <2> QED
    BY <1>5, <2>1 DEF Derived
<1>6. CASE f = "probe"
  <2>1. /\ job.todo \in Seq(Ops) /\ 1 \in 1 .. Len(job.todo) /\ job.todo[1] = Write("probe")
    BY <1>6, TailFacts DEF Job, Remains
  <2>2. \A i \in 1 .. 1 - 1 : FALSE
    OBVIOUS
  <2>3. job.wrote["next_probe"] # {} /\ job.wrote["tree"] # {}
    <3>1. ProbeReady(job.todo, job.wrote)
      BY DEF Job, Written
    <3> QED
      BY <2>1, <2>2, <3>1 DEF ProbeReady
  <2>4. \A g \in FileNames : \A x \in job.wrote[g] : Derived(s, g, x)
    BY DEF Job, Written
  <2>5. TheOne(job.wrote["next_probe"]) = PlanOf(s)
    BY <2>3, <2>4, TheOneFacts DEF Derived, FileNames
  <2>6. PICK debt : TheOne(job.wrote["tree"]) = diagnose_payload(PayloadOf(s), debt)
    <3>1. TheOne(job.wrote["tree"]) \in job.wrote["tree"]
      BY <2>3, TheOneFacts
    <3>2. Derived(s, "tree", TheOne(job.wrote["tree"]))
      BY <2>4, <3>1 DEF FileNames
    <3> QED
      BY <3>2 DEF Derived
  <2>7. Content(job, f) = materialize(TheOne(job.wrote["next_probe"]),
                                      TheOne(job.wrote["tree"]), Payload(job))
    BY <1>6, Contents
  <2>8. Content(job, f) = ProbeOf(s, debt)
    BY <1>2, <1>6, <2>5, <2>6, <2>7 DEF ProbeOf, Derivations
  <2> QED
    BY <1>6, <2>8 DEF Derived
<1> QED
  BY <1>1, <1>3, <1>4, <1>5, <1>6 DEF Derivations

(* An input is written by an ingest, or by a sweep in its own directory.        *)
LEMMA WritesInput ==
    ASSUME NEW job, Job(job), NEW f \in Inputs, Head(job.todo) = Write(f)
    PROVE  \/ \E s \in Sources : /\ job.source = {s} /\ job.run = External(Bundle[s].slug)
                                 /\ Content(job, f) = Told(s, f)
           \/ \E sweep : /\ job.source = {} /\ job.sweep = {sweep}
                         /\ job.run = SweepRun(sweep)
<1>1. Write(f) \in Range(job.todo) /\ Write(f).op = "write" /\ Write(f).file = f
  BY TailFacts, OpFacts DEF Job, Remains
<1>2. ~ Derives(job.todo)
  BY <1>1 DEF Derives
<1>3. CASE \E s \in Sources : /\ job.source = {s} /\ job.sweep = {}
                              /\ job.run = External(Bundle[s].slug)
  <2>1. PICK s \in Sources : /\ job.source = {s} /\ job.sweep = {}
                             /\ job.run = External(Bundle[s].slug)
    BY <1>3
  <2>2. TheOne(job.source) = s
    BY <2>1, TheOneFacts
  <2>3. Content(job, f) = Told(s, f)
    BY <2>1, <2>2, Contents DEF Told, Inputs
  <2> QED
    BY <2>1, <2>3
<1> QED
  BY <1>2, <1>3 DEF Job, Kind

(* What is written in the directory of a sweep.                                 *)
LEMMA WritesSweep ==
    ASSUME NEW job, Job(job), NEW f \in FileNames, Head(job.todo) = Write(f), IsSweep(job.run)
    PROVE  SweepContent(f, Content(job, f))
<1>0. ~ \E s \in Sources : job.run = External(Bundle[s].slug)
  BY DEF IsSweep, External
<1>1. CASE job.sweep # {}
  <2>1. f \in Inputs
    <3>1. Range(job.todo) \subseteq { Write(g) : g \in Inputs }
      BY <1>0, <1>1 DEF Job, Kind
    <3>2. Write(f) \in Range(job.todo)
      BY TailFacts DEF Job, Remains
    <3> QED
      BY <3>1, <3>2, OpFacts
  <2>2. \A sweep : /\ SweepManifest(sweep).status \in {"dry_run", "planned"}
                   /\ SweepManifest(sweep).policy_report = NoPolicy
    BY DEF SweepManifest
  <2>3. CASE f = "manifest"
    <3>1. Content(job, "manifest") = SweepManifest(TheOne(job.sweep))
      BY <1>1, Contents
    <3>2. SweepContent("manifest", SweepManifest(TheOne(job.sweep)))
      BY <2>2 DEF SweepContent
    <3> QED
      BY <2>3, <3>1, <3>2, Zenon
  <2>4. CASE f = "metrics"
    <3>1. Content(job, "metrics") = NoMetrics
      BY <1>1, Contents
    <3> QED
      BY <2>4, <3>1 DEF SweepContent
  <2>5. CASE f = "report"
    <3>1. Content(job, "report") = SweepReport
      BY <1>1, Contents
    <3> QED
      BY <2>5, <3>1 DEF SweepContent
  <2>6. f = "manifest" \/ f = "metrics" \/ f = "report"
    BY <2>1 DEF Inputs
  <2> QED
    BY <2>3, <2>4, <2>5, <2>6, Zenon
<1>2. CASE job.sweep = {}
  <2>1. f \notin Inputs
    <3>1. Derives(job.todo)
      BY <1>0, <1>2 DEF Job, Kind
    <3>2. Write(f) \in Range(job.todo) /\ Write(f).op = "write" /\ Write(f).file = f
      BY TailFacts, OpFacts DEF Job, Remains
    <3> QED
      BY <3>1, <3>2 DEF Derives
  <2>2. \A g \in FileNames : SweepFile(g, job.read[g]) /\ SweepFile(g, job.wrote[g])
    BY <1>2 DEF Job, Written
  <2>3. /\ SweepFile("manifest", job.read.manifest) /\ SweepFile("metrics", job.read.metrics)
        /\ SweepFile("report", job.read.report)
    BY <2>2 DEF FileNames
  <2>4. SweepPayload(Payload(job))
    BY <2>3, SweepPayloads DEF Payload
  <2>5. CASE f = "next_probe"
    <3>1. SweepContent("next_probe", build_next_probe(Payload(job)))
      BY <2>4, SweepPlan
    <3>2. Content(job, "next_probe") = build_next_probe(Payload(job))
      BY Contents
    <3> QED
      BY <2>5, <3>1, <3>2, Zenon
  <2>6. CASE f = "tree"
    <3>1. SweepContent("tree", diagnose_payload(Payload(job), UNION job.read.debt))
      BY <2>4, SweepTree
    <3>2. Content(job, "tree") = diagnose_payload(Payload(job), UNION job.read.debt)
      BY Contents
    <3> QED
      BY <2>6, <3>1, <3>2, Zenon
  <2>7. CASE f = "card"
    <3>1. Card(job).evidence_tier = "association"
      BY <2>3, SweepCard DEF Card
    <3> QED
      BY <2>7, <3>1, Contents DEF SweepContent
  <2>8. CASE f = "probe"
    <3>1. /\ job.todo \in Seq(Ops) /\ 1 \in 1 .. Len(job.todo) /\ job.todo[1] = Write("probe")
      BY <2>8, TailFacts DEF Job, Remains
    <3>2. \A i \in 1 .. 1 - 1 : FALSE
      OBVIOUS
    <3>3. job.wrote["next_probe"] # {}
      <4>1. ProbeReady(job.todo, job.wrote)
        BY DEF Job, Written
      <4> QED
        BY <3>1, <3>2, <4>1 DEF ProbeReady
    <3>4. SweepContent("next_probe", TheOne(job.wrote["next_probe"]))
      BY <2>2, <3>3, TheOneFacts DEF SweepFile, FileNames
    <3>5. SweepContent("probe", materialize(TheOne(job.wrote["next_probe"]),
                                            TheOne(job.wrote["tree"]), Payload(job)))
      BY <3>4, SweepProbe
    <3> QED
      BY <2>8, <3>5, Contents
  <2>9. CASE f = "debt"
    BY <2>9 DEF SweepContent
  <2> QED
    BY <2>1, <2>5, <2>6, <2>7, <2>8, <2>9 DEF FileNames, Inputs
<1> QED
  BY <1>1, <1>2

(* A manifest lies in the directory its run ref names.                          *)
LEMMA WritesManifest ==
    ASSUME NEW job, Job(job), Head(job.todo) = Write("manifest")
    PROVE  Content(job, "manifest").slug = IF IsSweep(job.run) THEN {} ELSE {job.run[2]}
<1>1. "manifest" \in Inputs
  BY DEF Inputs
<1>2. CASE \E s \in Sources : /\ job.source = {s} /\ job.run = External(Bundle[s].slug)
                              /\ Content(job, "manifest") = Told(s, "manifest")
  <2>1. PICK s \in Sources : /\ job.run = External(Bundle[s].slug)
                             /\ Content(job, "manifest") = Told(s, "manifest")
    BY <1>2
  <2>2. Told(s, "manifest").slug = {Bundle[s].slug}
    BY DEF Told, IngestedManifest
  <2>3. ~ IsSweep(job.run) /\ job.run[2] = Bundle[s].slug
    BY <2>1 DEF IsSweep, External
  <2> QED
    BY <2>1, <2>2, <2>3
<1>3. CASE \E sweep : job.source = {} /\ job.sweep = {sweep} /\ job.run = SweepRun(sweep)
  <2>1. Content(job, "manifest") = SweepManifest(TheOne(job.sweep)) /\ IsSweep(job.run)
    <3>1. job.sweep # {} /\ IsSweep(job.run)
      BY <1>3 DEF IsSweep, SweepRun
    <3> QED
      BY <3>1, Contents
  <2>2. \A sweep : SweepManifest(sweep).slug = {}
    BY DEF SweepManifest
  <2> QED
    BY <2>1, <2>2
<1> QED
  BY <1>1, <1>2, <1>3, WritesInput

(* A command that has done nothing yet.                                         *)
LEMMA NewJob ==
    ASSUME NEW job, DOMAIN job = JobFields, job.todo \in AllCommands, job.todo \in Seq(Ops),
           job.todo # << >>, Ends(job.todo), Prepared(job.todo), ProbeReady(job.todo, EmptyDir),
           Kind(job), DOMAIN job.read = FileNames, DOMAIN job.wrote = FileNames,
           job.sweep = {} => job.read = EmptyDir /\ job.wrote = EmptyDir,
           job.sweep # {} => ProbeReady(job.todo, job.wrote)
    PROVE  Job(job)
<1>1. Remains(job.todo)
  <2>1. 1 \in DOMAIN job.todo /\ SubSeq(job.todo, 1, Len(job.todo)) = job.todo
    OBVIOUS
  <2> QED
    BY <2>1, Zenon DEF Remains
<1>2. Reading(job)
  BY DEF Reading, Prepared
<1>3. \A f \in FileNames : EmptyDir[f] = {}
  BY DEF EmptyDir
<1>4. job.sweep # {} => job.of = {}
  BY DEF Kind
<1>5. Written(job)
  BY <1>3, <1>4 DEF Written, SweepFile
<1> QED
  BY <1>1, <1>2, <1>5 DEF Job

(* The three commands as they start.                                            *)
LEMMA IngestJob ==
    ASSUME NEW s \in Sources, NEW of
    PROVE  Job(Started(Ingest(s), of))
<1> DEFINE job == Started(Ingest(s), of)
<1>1. /\ DOMAIN job = JobFields /\ job.todo = IngestBundle(s)
      /\ job.run = External(Bundle[s].slug) /\ job.source = {s} /\ job.sweep = {}
      /\ job.read = EmptyDir /\ job.wrote = EmptyDir
  BY DEF Started, Ingest, Command, JobFields
<1> HIDE DEF job
<1>2. /\ job.todo \in Seq(Ops) /\ job.todo # << >> /\ Ends(job.todo)
      /\ Prepared(job.todo) /\ Ordered(job.todo)
      /\ Read("probe") \notin Range(job.todo) /\ Write("probe") \notin Range(job.todo)
  BY <1>1, IngestReady, Zenon
<1>3. job.todo \in AllCommands
  BY <1>1 DEF AllCommands
<1>4. ProbeReady(job.todo, EmptyDir)
  BY <1>2 DEF ProbeReady, Range
<1>5. Kind(job)
  BY <1>1, <1>2 DEF Kind
<1>6. DOMAIN EmptyDir = FileNames
  BY DEF EmptyDir
<1>7. Job(job)
  BY <1>1, <1>2, <1>3, <1>4, <1>5, <1>6, NewJob
<1> QED
  BY <1>7 DEF job

(* ... `mwb card`, `mwb diagnose`, `mwb next-probe` and `mwb run-probe` ...     *)
LEMMA DerivedJob ==
    ASSUME NEW c \in DerivedCommands, NEW run, NEW of
    PROVE  Job(Started(Derive(run, c), of))
<1> DEFINE job == Started(Derive(run, c), of)
<1>1. /\ DOMAIN job = JobFields /\ job.todo = c /\ job.source = {} /\ job.sweep = {}
      /\ job.read = EmptyDir /\ job.wrote = EmptyDir
  BY DEF Started, Derive, Command, JobFields
<1> HIDE DEF job
<1>2. /\ job.todo \in Seq(Ops) /\ job.todo # << >> /\ Ends(job.todo)
      /\ Prepared(job.todo) /\ Derives(job.todo) /\ ProbeReady(job.todo, EmptyDir)
  BY <1>1, DerivedReady, Zenon
<1>3. job.todo \in AllCommands
  BY <1>1 DEF AllCommands
<1>5. Kind(job)
  BY <1>1, <1>2 DEF Kind
<1>6. DOMAIN EmptyDir = FileNames
  BY DEF EmptyDir
<1>7. Job(job)
  BY <1>1, <1>2, <1>3, <1>5, <1>6, NewJob
<1> QED
  BY <1>7 DEF job

(* ... and the writing of a sweep.                                              *)
LEMMA SweepJob ==
    ASSUME NEW sweep, NEW job, DOMAIN job = JobFields, job.todo = WriteSweep,
           job.run = SweepRun(sweep), job.source = {}, job.sweep = {sweep}, job.of = {},
           DOMAIN job.read = FileNames, DOMAIN job.wrote = FileNames
    PROVE  Job(job)
<1>1. /\ job.todo \in Seq(Ops) /\ job.todo # << >> /\ Ends(job.todo)
      /\ Range(job.todo) \subseteq { Write(f) : f \in Inputs }
  BY SweepReady
<1>2. ASSUME NEW k \in 1 .. Len(job.todo)
      PROVE  job.todo[k].file \notin Derivations /\ job.todo[k] # Write("probe")
  <2>1. job.todo[k] \in Range(job.todo)
    BY <1>1 DEF Range
  <2>2. PICK f \in Inputs : job.todo[k] = Write(f)
    BY <1>1, <2>1
  <2> QED
    BY <2>2, OpFacts DEF Inputs, Derivations
<1>3. Prepared(job.todo) /\ ProbeReady(job.todo, EmptyDir) /\ ProbeReady(job.todo, job.wrote)
  BY <1>2 DEF Prepared, ProbeReady
<1>4. job.todo \in AllCommands
  BY DEF AllCommands
<1>5. Kind(job)
  BY <1>1 DEF Kind
<1> QED
  BY <1>1, <1>3, <1>4, <1>5, NewJob

(* The command of another source was started: no whole source is told.          *)
LEMMA StaleJob ==
    ASSUME NEW job, Job(job)
    PROVE  /\ Job([job EXCEPT !.of = {}])
           /\ LET next == [job EXCEPT !.of = {}]
              IN  /\ next.run = job.run /\ next.todo = job.todo /\ next.source = job.source
                  /\ next.sweep = job.sweep /\ next.of = {} /\ next.read = job.read
                  /\ next.wrote = job.wrote
<1> DEFINE next == [job EXCEPT !.of = {}]
<1>1. /\ DOMAIN job = JobFields /\ DOMAIN job.read = FileNames /\ DOMAIN job.wrote = FileNames
      /\ Remains(job.todo) /\ Kind(job) /\ Reading(job) /\ Written(job)
  BY DEF Job
<1>2. /\ DOMAIN next = JobFields /\ next.run = job.run /\ next.todo = job.todo
      /\ next.source = job.source /\ next.sweep = job.sweep /\ next.of = {}
      /\ next.read = job.read /\ next.wrote = job.wrote
  BY <1>1 DEF JobFields
<1> HIDE DEF next
<1>3. Kind(next)
  BY <1>1, <1>2 DEF Kind
<1>4. Reading(next)
  BY <1>1, <1>2, SMTT(30) DEF Reading
<1>5. Written(next)
  BY <1>1, <1>2 DEF Written
<1>6. Job(next)
  BY <1>1, <1>2, <1>3, <1>4, <1>5 DEF Job
<1> QED
  BY <1>2, <1>6 DEF next

-----------------------------------------------------------------------------
(* The steps: the directories.                                                  *)
LEMMA NewDir ==
    ASSUME NEW run, IsSweep(run) \/ run \in { External(slug) : slug \in Slugs }
    PROVE  Dir(run, EmptyDir, EmptyDir)
<1>1. DOMAIN EmptyDir = FileNames /\ \A f \in FileNames : EmptyDir[f] = {}
  BY DEF EmptyDir
<1> HIDE DEF EmptyDir
<1> QED
  BY <1>1 DEF Dir, SweepFile, FileNames

(* A file of a directory is written over, by what its place allows.             *)
LEMMA WrittenDir ==
    ASSUME NEW run, NEW dir, NEW of, Dir(run, dir, of), NEW f \in FileNames, NEW x, NEW told,
           f = "manifest" => x = Torn \/ x.slug = IF IsSweep(run) THEN {} ELSE {run[2]},
           IsSweep(run) => x = Torn \/ SweepContent(f, x),
           \A s \in told : s \in Sources /\ run = External(Bundle[s].slug) /\ Derived(s, f, x)
    PROVE  Dir(run, [dir EXCEPT ![f] = {x}], [of EXCEPT ![f] = told])
<1> DEFINE d == [dir EXCEPT ![f] = {x}]
           o == [of EXCEPT ![f] = told]
<1>1. DOMAIN dir = FileNames /\ DOMAIN of = FileNames
  BY DEF Dir
<1>2. /\ DOMAIN d = FileNames /\ DOMAIN o = FileNames /\ d[f] = {x} /\ o[f] = told
      /\ \A g \in FileNames : g # f => d[g] = dir[g] /\ o[g] = of[g]
  BY <1>1
<1> HIDE DEF d, o
<1>3. \A g \in FileNames : d[g] = {} \/ \E y \in d[g] : d[g] = {y}
  BY <1>2 DEF Dir
<1>4. \A m \in d["manifest"] \ {Torn} : m.slug = IF IsSweep(run) THEN {} ELSE {run[2]}
  <2>1. "manifest" \in FileNames
    BY DEF FileNames
  <2>2. CASE f = "manifest"
    BY <1>2, <2>2
  <2>3. CASE f # "manifest"
    BY <1>2, <2>1, <2>3 DEF Dir
  <2> QED
    BY <2>2, <2>3
<1>5. IsSweep(run) => \A g \in FileNames : SweepFile(g, d[g] \ {Torn})
  BY <1>2 DEF Dir, SweepFile
<1>6. \A g \in FileNames : \A s \in o[g] :
        /\ s \in Sources /\ run = External(Bundle[s].slug)
        /\ \A y \in d[g] : Derived(s, g, y)
  BY <1>2 DEF Dir
<1>7. Dir(run, d, o)
  BY <1>2, <1>3, <1>4, <1>5, <1>6 DEF Dir
<1> QED
  BY <1>7 DEF d, o

(* A directory is made, if it is not there.                                     *)
LEMMA MadeDir ==
    ASSUME NEW run, DirsInv, mkdir(run), IsSweep(run) \/ run \in { External(slug) : slug \in Slugs }
    PROVE  /\ DirsInv' /\ DOMAIN files' = DOMAIN files \cup {run}
           /\ \A r \in DOMAIN files : files'[r] = files[r]
<1>1. /\ DOMAIN files' = DOMAIN files \cup {run} /\ DOMAIN origin' = DOMAIN origin \cup {run}
      /\ \A r \in DOMAIN files : files'[r] = files[r]
      /\ \A r \in DOMAIN origin : origin'[r] = origin[r]
      /\ run \notin DOMAIN files => files'[run] = EmptyDir
      /\ run \notin DOMAIN origin => origin'[run] = EmptyDir
  BY DEF mkdir, With
<1>2. DOMAIN origin = DOMAIN files
  BY DEF DirsInv
<1>3. ASSUME NEW r \in DOMAIN files' PROVE Dir(r, files'[r], origin'[r])
  <2>1. CASE r \in DOMAIN files
    <3>1. Dir(r, files[r], origin[r])
      BY <2>1 DEF DirsInv
    <3> QED
      BY <1>1, <1>2, <2>1, <3>1
  <2>2. CASE r \notin DOMAIN files
    <3>1. r = run
      BY <1>1, <2>2
    <3>2. files'[r] = EmptyDir /\ origin'[r] = EmptyDir
      BY <1>1, <1>2, <2>2, <3>1
    <3>3. Dir(r, EmptyDir, EmptyDir)
      BY <3>1, NewDir
    <3> QED
      BY <3>2, <3>3
  <2> QED
    BY <2>1, <2>2
<1>4. DirsInv'
  BY <1>1, <1>2, <1>3 DEF DirsInv
<1> QED
  BY <1>1, <1>4

(* A file is written.                                                           *)
Rewrites(run, f, x, told) ==
    /\ run \in DOMAIN files /\ f \in FileNames
    /\ f = "manifest" => x = Torn \/ x.slug = IF IsSweep(run) THEN {} ELSE {run[2]}
    /\ IsSweep(run) => x = Torn \/ SweepContent(f, x)
    /\ \A s \in told : s \in Sources /\ run = External(Bundle[s].slug) /\ Derived(s, f, x)
    /\ files' = [files EXCEPT ![run][f] = {x}] /\ origin' = [origin EXCEPT ![run][f] = told]

(* Only that file changes, and the directories stay as they must be.            *)
LEMMA FileWritten ==
    ASSUME DirsInv, NEW run, NEW f, NEW x, NEW told, Rewrites(run, f, x, told)
    PROVE  /\ DirsInv' /\ DOMAIN files' = DOMAIN files
           /\ files'[run][f] = {x}
           /\ \A r \in DOMAIN files, g \in FileNames :
                r # run \/ g # f => files'[r][g] = files[r][g]
<1> USE DEF Rewrites
<1>1. DOMAIN origin = DOMAIN files /\ \A r \in DOMAIN files : Dir(r, files[r], origin[r])
  BY DEF DirsInv
<1>2. /\ DOMAIN files' = DOMAIN files /\ DOMAIN origin' = DOMAIN files
      /\ files'[run] = [files[run] EXCEPT ![f] = {x}]
      /\ origin'[run] = [origin[run] EXCEPT ![f] = told]
      /\ \A r \in DOMAIN files : r # run => files'[r] = files[r] /\ origin'[r] = origin[r]
  BY <1>1
<1>3. Dir(run, files'[run], origin'[run])
  <2>1. Dir(run, [files[run] EXCEPT ![f] = {x}], [origin[run] EXCEPT ![f] = told])
    BY <1>1, WrittenDir
  <2> QED
    BY <1>2, <2>1
<1>4. ASSUME NEW r \in DOMAIN files' PROVE Dir(r, files'[r], origin'[r])
  <2>1. CASE r = run
    BY <1>3, <2>1
  <2>2. CASE r # run
    BY <1>1, <1>2, <2>2
  <2> QED
    BY <2>1, <2>2
<1>5. DirsInv'
  BY <1>2, <1>4 DEF DirsInv
<1>6. DOMAIN files[run] = FileNames
  BY <1>1 DEF Dir
<1> QED
  BY <1>2, <1>5, <1>6

-----------------------------------------------------------------------------
(* The steps: a command that ends before its time, whatever it left torn.       *)
LEMMA BusyJob ==
    ASSUME IInv, NEW p \in Procs, Busy(p)
    PROVE  Job(jobs[p]) /\ jobs[p].run \in DOMAIN files
<1>1. jobs[p] = Idle \/ (Job(jobs[p]) /\ jobs[p].run \in DOMAIN files)
  BY DEF IInv, JobsInv
<1>2. jobs[p] # Idle
  BY DEF Busy, Idle
<1> QED
  BY <1>1, <1>2

(* A slug has one directory, and none of a sweep.                               *)
LEMMA ExternalFacts ==
    /\ \A slug : External(slug)[2] = slug /\ ~ IsSweep(External(slug))
    /\ \A sweep : IsSweep(SweepRun(sweep))
    /\ \A a, b : External(a) = External(b) => a = b
BY DEF External, IsSweep, SweepRun

Tears(p) ==
    /\ DOMAIN files' = DOMAIN files
    /\ \A run \in DOMAIN files, f \in FileNames :
         \/ files'[run][f] = files[run][f]
         \/ /\ files'[run][f] = {Torn} /\ run = jobs[p].run
            /\ Head(jobs[p].todo) = Write(f)

(* A job that breaks off, by an error or a kill, leaves the others what they    *)
(* need.                                                                        *)
LEMMA BreaksOff ==
    ASSUME IInv, NEW p \in Procs, Busy(p),
           jobs' = [jobs EXCEPT ![p] = Idle], Abandoned(jobs[p]),
           Tears(p)
    PROVE  JobsInv' /\ MixedInv' /\ OneInv' /\ WholeInv'
<1> DEFINE job == jobs[p]
<1>1. Job(job) /\ job.run \in DOMAIN files
  BY BusyJob
<1>2. /\ DOMAIN jobs' = Procs /\ jobs'[p] = Idle /\ ~ Busy(p)'
      /\ \A q \in Procs : q # p => jobs'[q] = jobs[q] /\ (Busy(q)' <=> Busy(q))
  <2>1. DOMAIN jobs = Procs /\ Idle.todo = << >>
    BY DEF IInv, JobsInv, Idle
  <2> HIDE DEF Idle
  <2> QED
    BY <2>1 DEF Busy
<1>3. job.source = {} \/ \E s \in Sources : /\ job.source = {s} /\ job.run = External(Bundle[s].slug)
                                           /\ job.run[2] = Bundle[s].slug
  BY <1>1, ExternalFacts DEF Job, Kind
<1>4. /\ mixed \in [Slugs -> SUBSET (Sources \cup {Torn})]
      /\ \A slug \in Slugs : IsFiniteSet(mixed[slug])
      /\ \A slug \in Slugs : \A s \in mixed[slug] \ {Torn} : Bundle[s].slug = slug
      /\ \A q \in Procs : Busy(q) => \A s \in jobs[q].source : s \in mixed[Bundle[s].slug]
  BY DEF IInv, MixedInv
<1>5. /\ mixed' \in [Slugs -> SUBSET (Sources \cup {Torn})]
      /\ \A slug \in Slugs : mixed[slug] \subseteq mixed'[slug]
      /\ \A slug \in Slugs : mixed'[slug] \in {mixed[slug], mixed[slug] \cup {Torn}}
      /\ job.source # {} => Torn \in mixed'[job.run[2]]
  <2>1. CASE job.source = {}
    BY <1>4, <2>1 DEF Abandoned
  <2>2. CASE job.source # {}
    <3>1. PICK s \in Sources : job.run[2] = Bundle[s].slug
      BY <1>3, <2>2
    <3>2. job.run[2] \in Slugs
      BY <3>1 DEF Slugs
    <3>3. mixed' = [mixed EXCEPT ![job.run[2]] = @ \cup {Torn}]
      BY <2>2 DEF Abandoned
    <3> QED
      BY <1>4, <3>2, <3>3
  <2> QED
    BY <2>1, <2>2
<1> HIDE DEF job
<1>6. MixedInv'
  <2>1. \A slug \in Slugs : IsFiniteSet(mixed'[slug])
    <3> SUFFICES ASSUME NEW slug \in Slugs PROVE IsFiniteSet(mixed'[slug])
      OBVIOUS
    <3>1. mixed'[slug] = mixed[slug] \/ mixed'[slug] = mixed[slug] \cup {Torn}
      BY <1>5
    <3>2. IsFiniteSet(mixed[slug]) /\ IsFiniteSet(mixed[slug] \cup {Torn})
      BY <1>4, FiniteAdd, Zenon
    <3> QED
      BY <3>1, <3>2, Zenon
  <2>2. \A slug \in Slugs : \A s \in mixed'[slug] \ {Torn} : Bundle[s].slug = slug
    BY <1>4, <1>5
  <2>3. ASSUME NEW q \in Procs, Busy(q)', NEW s \in jobs'[q].source
        PROVE  s \in mixed'[Bundle[s].slug]
    <3>1. q # p /\ jobs'[q] = jobs[q] /\ Busy(q)
      BY <1>2, <2>3
    <3>2. s \in mixed[Bundle[s].slug]
      BY <1>4, <2>3, <3>1
    <3>3. Bundle[s].slug \in Slugs
      <4>1. Job(jobs[q])
        BY <3>1, BusyJob
      <4>2. s \in Sources
        BY <2>3, <3>1, <4>1 DEF Job, Kind
      <4> QED
        BY <4>2 DEF Slugs
    <3> QED
      BY <1>5, <3>2, <3>3
  <2> QED
    BY <1>5, <2>1, <2>2, <2>3 DEF MixedInv
<1>7. JobsInv'
  <2>1. ASSUME NEW q \in Procs
        PROVE  jobs'[q] = Idle \/ (Job(jobs'[q]) /\ jobs'[q].run \in DOMAIN files')
    <3>1. jobs[q] = Idle \/ (Job(jobs[q]) /\ jobs[q].run \in DOMAIN files)
      BY DEF IInv, JobsInv
    <3> QED
      BY <1>2, <3>1 DEF Tears
  <2> QED
    BY <1>2, <2>1 DEF JobsInv
<1>8. OneInv'
  <2> SUFFICES ASSUME NEW q \in Procs, Busy(q)', NEW s \in jobs'[q].of
               PROVE  /\ s \in Sources /\ jobs'[q].of = {s}
                      /\ jobs'[q].run = External(Bundle[s].slug)
                      /\ \A z \in Procs : Busy(z)' /\ jobs'[z].run = jobs'[q].run =>
                            jobs'[z].source \subseteq {s}
                      /\ \A f \in Inputs :
                           \/ files'[jobs'[q].run][f] \in {{Told(s, f)}, {Torn}}
                           \/ Write(f) \in Range(jobs'[q].todo)
    BY DEF OneInv
  <2>1. q # p /\ jobs'[q] = jobs[q] /\ Busy(q)
    BY <1>2
  <2>2. /\ s \in Sources /\ jobs[q].of = {s} /\ jobs[q].run = External(Bundle[s].slug)
        /\ \A z \in Procs : Busy(z) /\ jobs[z].run = jobs[q].run => jobs[z].source \subseteq {s}
        /\ \A f \in Inputs : \/ files[jobs[q].run][f] \in {{Told(s, f)}, {Torn}}
                             \/ Write(f) \in Range(jobs[q].todo)
    BY <2>1 DEF IInv, OneInv
  <2>3. \A z \in Procs : Busy(z)' => Busy(z) /\ jobs'[z] = jobs[z]
    BY <1>2
  <2>4. jobs[q].run \in DOMAIN files /\ Inputs \subseteq FileNames
    BY <2>1, BusyJob DEF Inputs, FileNames
  <2>5. \A f \in Inputs : files'[jobs[q].run][f] \in {files[jobs[q].run][f], {Torn}}
    BY <2>4 DEF Tears
  <2> QED
    BY <2>1, <2>2, <2>3, <2>5
<1>9. WholeInv'
  <2> SUFFICES ASSUME NEW slug \in Slugs, NEW s \in Sources, External(slug) \in DOMAIN files',
                      mixed'[slug] = {s}, s # Torn, NEW f \in Inputs
               PROVE  \/ files'[External(slug)][f] = {Told(s, f)}
                      \/ \E q \in Procs : /\ Busy(q)' /\ jobs'[q].source = {s}
                                          /\ Write(f) \in Range(jobs'[q].todo)
    BY DEF WholeInv
  <2>1. mixed[slug] = {s} /\ Torn \notin mixed'[slug]
    BY <1>5
  <2>2. Bundle[s].slug = slug
    BY <1>4, <2>1
  <2>3. ~ (job.source # {} /\ job.run[2] = slug)
    BY <1>5, <2>1
  <2>4. \/ files[External(slug)][f] = {Told(s, f)}
        \/ \E q \in Procs : /\ Busy(q) /\ jobs[q].source = {s}
                            /\ Write(f) \in Range(jobs[q].todo)
    BY <2>1 DEF IInv, WholeInv, Tears
  <2>5. CASE \E q \in Procs : /\ Busy(q) /\ jobs[q].source = {s}
                              /\ Write(f) \in Range(jobs[q].todo)
    <3>1. PICK q \in Procs : /\ Busy(q) /\ jobs[q].source = {s}
                             /\ Write(f) \in Range(jobs[q].todo)
      BY <2>5
    <3>2. q # p
      BY <1>3, <2>2, <2>3, <3>1 DEF job
    <3>3. Busy(q)' /\ jobs'[q] = jobs[q]
      BY <1>2, <3>1, <3>2
    <3> QED
      BY <3>1, <3>3
  <2>6. CASE files[External(slug)][f] = {Told(s, f)}
    <3>1. f \in FileNames
      BY DEF Inputs, FileNames
    <3>2. ~ (External(slug) = job.run /\ Head(job.todo) = Write(f))
      <4>1. SUFFICES ASSUME External(slug) = job.run, Head(job.todo) = Write(f) PROVE FALSE
        OBVIOUS
      <4>2. CASE \E z \in Sources : job.source = {z} /\ job.run = External(Bundle[z].slug)
        BY <2>3, <4>1, <4>2, ExternalFacts
      <4>3. CASE \E sweep : job.run = SweepRun(sweep)
        BY <4>1, <4>3, ExternalFacts
      <4> QED
        BY <1>1, <4>1, <4>2, <4>3, WritesInput
    <3>3. files'[External(slug)][f] = files[External(slug)][f]
      BY <3>1, <3>2 DEF job, Tears
    <3> QED
      BY <2>6, <3>3
  <2> QED
    BY <2>4, <2>5, <2>6
<1> QED
  BY <1>6, <1>7, <1>8, <1>9

(* A command that goes on, or ends with its last write.                         *)
Fills(p) ==
    /\ DOMAIN files' = DOMAIN files
    /\ \A run \in DOMAIN files, f \in FileNames :
         /\ run = jobs[p].run /\ Head(jobs[p].todo) = Write(f) =>
              files'[run][f] = {Content(jobs[p], f)}
         /\ ~ (run = jobs[p].run /\ Head(jobs[p].todo) = Write(f)) =>
              files'[run][f] = files[run][f]

(* Reads and writes of one job leave the others what they need.                 *)
LEMMA GoesOn ==
    ASSUME IInv, NEW p \in Procs, Busy(p), NEW next,
           jobs' = [jobs EXCEPT ![p] = next], mixed' = mixed,
           \/ next = Idle /\ Tail(jobs[p].todo) = << >>
           \/ Goes(jobs[p], next) /\ Job(next),
           Fills(p)
    PROVE  JobsInv' /\ MixedInv' /\ OneInv' /\ WholeInv'
<1> DEFINE job == jobs[p]
<1>1. Job(job) /\ job.run \in DOMAIN files
  BY BusyJob
<1>0. job.todo \in Seq(Ops) /\ job.todo # << >>
  BY <1>1 DEF Job, Remains
<1>2. /\ DOMAIN jobs' = Procs /\ jobs'[p] = next
      /\ \A q \in Procs : q # p => jobs'[q] = jobs[q] /\ (Busy(q)' <=> Busy(q))
  <2>1. DOMAIN jobs = Procs
    BY DEF IInv, JobsInv
  <2> QED
    BY <2>1 DEF Busy
<1>3. \A f : Write(f) \in Range(job.todo) /\ Head(job.todo) # Write(f) =>
               Write(f) \in Range(Tail(job.todo))
  BY <1>0, TailFacts
<1>4. \A x : x \notin Range(<< >>)
  BY DEF Range
<1>5. \A q \in Procs : Busy(q)' =>
        /\ Busy(q) /\ jobs'[q].run = jobs[q].run /\ jobs'[q].of = jobs[q].of
        /\ jobs'[q].source = jobs[q].source
  <2>1. Busy(p)' => Goes(job, next)
    BY <1>2 DEF Busy, Idle
  <2>2. Goes(job, next) => /\ next.run = job.run /\ next.of = job.of /\ next.source = job.source
    BY DEF Goes
  <2> QED
    BY <1>2, <2>1, <2>2 DEF job
<1>6. ASSUME NEW q \in Procs, NEW f, Busy(q), Write(f) \in Range(jobs[q].todo),
             q # p \/ Head(job.todo) # Write(f)
      PROVE  Busy(q)' /\ Write(f) \in Range(jobs'[q].todo) /\ jobs'[q].source = jobs[q].source
  <2>1. CASE q # p
    BY <1>2, <1>6, <2>1
  <2>2. CASE q = p
    <3>1. Write(f) \in Range(Tail(job.todo))
      BY <1>3, <1>6, <2>2 DEF job
    <3>2. Goes(job, next)
      BY <1>4, <3>1 DEF job
    <3>3. jobs'[q].todo = Tail(job.todo) /\ jobs'[q].source = job.source
      BY <1>2, <2>2, <3>2 DEF Goes
    <3>4. Tail(job.todo) # << >>
      BY <1>4, <3>1
    <3> QED
      BY <2>2, <3>1, <3>3, <3>4 DEF Busy, job
  <2> QED
    BY <2>1, <2>2
<1>7. \A q \in Procs : Busy(q) => \A s \in jobs[q].source : s \in mixed[Bundle[s].slug]
  BY DEF IInv, MixedInv
<1>8. MixedInv'
  <2>1. \A q \in Procs : Busy(q)' => \A s \in jobs'[q].source : s \in mixed'[Bundle[s].slug]
    BY <1>5, <1>7
  <2> QED
    BY <2>1 DEF IInv, MixedInv
<1>9. JobsInv'
  <2>1. ASSUME NEW q \in Procs
        PROVE  jobs'[q] = Idle \/ (Job(jobs'[q]) /\ jobs'[q].run \in DOMAIN files')
    <3>1. CASE q # p
      <4>1. jobs[q] = Idle \/ (Job(jobs[q]) /\ jobs[q].run \in DOMAIN files)
        BY DEF IInv, JobsInv
      <4> QED
        BY <1>2, <3>1, <4>1 DEF Fills
    <3>2. CASE q = p
      BY <1>1, <1>2, <3>2 DEF Goes, job, Fills
    <3> QED
      BY <3>1, <3>2
  <2> QED
    BY <1>2, <2>1 DEF JobsInv
<1> HIDE DEF job
<1>10. Inputs \subseteq FileNames
  BY DEF Inputs, FileNames
<1>11. ASSUME NEW f \in Inputs, Head(job.todo) = Write(f), NEW slug, job.run = External(slug)
       PROVE  \E s \in Sources : /\ job.source = {s} /\ Bundle[s].slug = slug
                                 /\ Content(job, f) = Told(s, f)
  <2>1. ~ \E sweep : job.run = SweepRun(sweep)
    BY <1>11, ExternalFacts
  <2>2. PICK s \in Sources : /\ job.source = {s} /\ job.run = External(Bundle[s].slug)
                             /\ Content(job, f) = Told(s, f)
    BY <1>1, <1>11, <2>1, WritesInput
  <2>3. Bundle[s].slug = slug
    BY <1>11, <2>2, ExternalFacts
  <2> QED
    BY <2>2, <2>3
<1>12. OneInv'
  <2> SUFFICES ASSUME NEW q \in Procs, Busy(q)', NEW s \in jobs'[q].of
               PROVE  /\ s \in Sources /\ jobs'[q].of = {s}
                      /\ jobs'[q].run = External(Bundle[s].slug)
                      /\ \A z \in Procs : Busy(z)' /\ jobs'[z].run = jobs'[q].run =>
                            jobs'[z].source \subseteq {s}
                      /\ \A f \in Inputs :
                           \/ files'[jobs'[q].run][f] \in {{Told(s, f)}, {Torn}}
                           \/ Write(f) \in Range(jobs'[q].todo)
    BY DEF OneInv
  <2>1. Busy(q) /\ jobs'[q].run = jobs[q].run /\ jobs'[q].of = jobs[q].of
    BY <1>5
  <2>2. /\ s \in Sources /\ jobs[q].of = {s} /\ jobs[q].run = External(Bundle[s].slug)
        /\ \A z \in Procs : Busy(z) /\ jobs[z].run = jobs[q].run => jobs[z].source \subseteq {s}
        /\ \A f \in Inputs : \/ files[jobs[q].run][f] \in {{Told(s, f)}, {Torn}}
                             \/ Write(f) \in Range(jobs[q].todo)
    BY <2>1 DEF IInv, OneInv
  <2>3. jobs[q].run \in DOMAIN files
    BY <2>1, BusyJob
  <2>4. ASSUME NEW f \in Inputs
        PROVE  \/ files'[jobs[q].run][f] \in {{Told(s, f)}, {Torn}}
               \/ Write(f) \in Range(jobs'[q].todo)
    <3>1. CASE jobs[q].run = job.run /\ Head(job.todo) = Write(f)
      <4>1. job.source \subseteq {s}
        BY <2>2, <3>1 DEF job
      <4>2. Content(job, f) = Told(s, f)
        <5>1. Head(job.todo) = Write(f) /\ job.run = External(Bundle[s].slug)
          BY <2>2, <3>1
        <5>2. PICK z \in Sources : job.source = {z} /\ Content(job, f) = Told(z, f)
          BY <1>11, <5>1
        <5>3. z = s
          BY <4>1, <5>2
        <5> QED
          BY <5>2, <5>3
      <4>3. files'[jobs[q].run][f] = {Content(job, f)}
        BY <1>10, <2>3, <3>1 DEF job, Fills
      <4> QED
        BY <4>2, <4>3
    <3>2. CASE ~ (jobs[q].run = job.run /\ Head(job.todo) = Write(f))
      <4>1. files'[jobs[q].run][f] = files[jobs[q].run][f]
        BY <1>10, <2>3, <3>2 DEF job, Fills
      <4>2. q # p \/ Head(job.todo) # Write(f)
        BY <3>2 DEF job
      <4> QED
        BY <1>6, <2>1, <2>2, <4>1, <4>2
    <3> QED
      BY <3>1, <3>2
  <2>5. \A z \in Procs : Busy(z)' /\ jobs'[z].run = jobs[q].run => jobs'[z].source \subseteq {s}
    BY <1>5, <2>2
  <2> QED
    BY <2>1, <2>2, <2>4, <2>5
<1>13. WholeInv'
  <2> SUFFICES ASSUME NEW slug \in Slugs, NEW s \in Sources, External(slug) \in DOMAIN files',
                      mixed'[slug] = {s}, s # Torn, NEW f \in Inputs
               PROVE  \/ files'[External(slug)][f] = {Told(s, f)}
                      \/ \E q \in Procs : /\ Busy(q)' /\ jobs'[q].source = {s}
                                          /\ Write(f) \in Range(jobs'[q].todo)
    BY DEF WholeInv
  <2>1. \/ files[External(slug)][f] = {Told(s, f)}
        \/ \E q \in Procs : /\ Busy(q) /\ jobs[q].source = {s}
                            /\ Write(f) \in Range(jobs[q].todo)
    <3>1. WholeInv /\ External(slug) \in DOMAIN files /\ mixed[slug] = {s}
      BY DEF IInv, Fills
    <3> QED
      BY <3>1 DEF WholeInv
  <2>2. CASE External(slug) = job.run /\ Head(job.todo) = Write(f)
    <3>1. PICK z \in Sources : /\ job.source = {z} /\ Bundle[z].slug = slug
                               /\ Content(job, f) = Told(z, f)
      BY <1>11, <2>2
    <3>2. z = s
      <4>1. z \in mixed[slug]
        BY <1>7, <3>1 DEF job
      <4> QED
        BY <4>1
    <3>3. files'[External(slug)][f] = {Content(job, f)}
      BY <1>1, <1>10, <2>2 DEF job, Fills
    <3> QED
      BY <3>1, <3>2, <3>3
  <2>3. CASE ~ (External(slug) = job.run /\ Head(job.todo) = Write(f))
    <3>1. files'[External(slug)][f] = files[External(slug)][f]
      BY <1>10, <2>3 DEF job, Fills
    <3>2. ASSUME NEW q \in Procs, Busy(q), jobs[q].source = {s}, Write(f) \in Range(jobs[q].todo)
          PROVE  q # p \/ Head(job.todo) # Write(f)
      <4> SUFFICES ASSUME q = p, Head(job.todo) = Write(f) PROVE FALSE
        OBVIOUS
      <4>1. job.run = External(Bundle[s].slug)
        BY <1>1, <3>2 DEF job, Job, Kind
      <4>2. Bundle[s].slug = slug
        BY DEF IInv, MixedInv
      <4> QED
        BY <2>3, <4>1, <4>2
    <3> QED
      BY <1>6, <2>1, <3>1, <3>2
  <2> QED
    BY <2>2, <2>3
<1> QED
  BY <1>8, <1>9, <1>12, <1>13

(* The steps that end a command, and those that read and write.                 *)
LEMMA FailKeeps ==
    ASSUME IInv, NEW p \in Procs, Busy(p), Fail(p)
    PROVE  IInv'
<1>1. /\ jobs' = [jobs EXCEPT ![p] = Idle] /\ Abandoned(jobs[p])
      /\ files' = files /\ origin' = origin /\ commands' = commands /\ crashes' = crashes
  BY DEF Fail
<1>2. JobsInv' /\ MixedInv' /\ OneInv' /\ WholeInv'
  <2>1. Tears(p)
    BY <1>1 DEF Tears
  <2> QED
    BY <1>1, <2>1, BreaksOff
<1>3. DirsInv'
  BY <1>1 DEF IInv, DirsInv
<1>4. CountInv'
  BY <1>1 DEF IInv, CountInv
<1> QED
  BY <1>2, <1>3, <1>4 DEF IInv

(* A kill, before a step or in the middle of a write.                           *)
LEMMA CrashKeeps ==
    ASSUME IInv, NEW p \in Procs, Crash(p)
    PROVE  IInv'
<1>1. /\ Busy(p) /\ jobs' = [jobs EXCEPT ![p] = Idle] /\ Abandoned(jobs[p])
      /\ commands' = commands /\ crashes' = crashes + 1 /\ crashes < MaxCrashes
  BY DEF Crash
<1>2. CountInv'
  BY <1>1, CycleBounds DEF IInv, CountInv
<1>3. CASE files' = files /\ origin' = origin
  <2>1. Tears(p)
    BY <1>3 DEF Tears
  <2>2. JobsInv' /\ MixedInv' /\ OneInv' /\ WholeInv'
    BY <1>1, <2>1, BreaksOff
  <2>3. DirsInv'
    BY <1>3 DEF IInv, DirsInv
  <2> QED
    BY <1>2, <2>2, <2>3 DEF IInv
<1>4. ASSUME NEW run, run = jobs[p].run, NEW next, next = Head(jobs[p].todo), next.op = "write",
             files' = [files EXCEPT ![run][next.file] = {Torn}],
             origin' = [origin EXCEPT ![run][next.file] = {}]
      PROVE  IInv'
  <2>1. Job(jobs[p]) /\ run \in DOMAIN files
    BY <1>1, <1>4, BusyJob
  <2>2. next = Write(next.file) /\ next.file \in FileNames
    <3>1. next \in Ops
      BY <1>4, <2>1, TailFacts DEF Job, Remains
    <3> QED
      BY <1>4, <3>1, OpFacts
  <2>3. /\ DirsInv' /\ DOMAIN files' = DOMAIN files /\ files'[run][next.file] = {Torn}
        /\ \A r \in DOMAIN files, g \in FileNames :
             r # run \/ g # next.file => files'[r][g] = files[r][g]
    <3>1. PICK f, x, told : f = next.file /\ x = Torn /\ told = {}
      OBVIOUS
    <3>2. Rewrites(run, f, x, told)
      BY <1>4, <2>1, <2>2, <3>1 DEF Rewrites
    <3>3. DirsInv
      BY DEF IInv
    <3>4. /\ DirsInv' /\ DOMAIN files' = DOMAIN files /\ files'[run][f] = {x}
          /\ \A r \in DOMAIN files, g \in FileNames :
               r # run \/ g # f => files'[r][g] = files[r][g]
      BY <3>2, <3>3, FileWritten
    <3> QED
      BY <3>1, <3>4
  <2>4. Tears(p)
    BY <1>4, <2>2, <2>3 DEF Tears
  <2>5. JobsInv' /\ MixedInv' /\ OneInv' /\ WholeInv'
    BY <1>1, <2>4, BreaksOff
  <2> QED
    BY <1>2, <2>3, <2>5 DEF IInv
<1> QED
  BY <1>3, <1>4 DEF Crash

(* What is left of a command that reads next writes no input any more.          *)
LEMMA InputsWritten ==
    ASSUME NEW job, Job(job), Head(job.todo).op = "read", NEW s \in job.of
    PROVE  \A f \in Inputs : Write(f) \notin Range(job.todo)
<1> SUFFICES ASSUME NEW f \in Inputs, Write(f) \in Range(job.todo) PROVE FALSE
  OBVIOUS
<1>1. /\ job.todo \in Seq(Ops) /\ 1 \in 1 .. Len(job.todo) /\ job.todo[1].op = "read"
  BY TailFacts DEF Job, Remains
<1>2. PICK i \in 1 .. Len(job.todo) : job.todo[i] = Write(f)
  BY <1>1 DEF Range
<1>3. Write(f).op = "write" /\ Write(f).file = f
  BY OpFacts
<1>4. ~ Ordered(job.todo)
  <2>1. ~ (i < 1)
    BY <1>1
  <2> QED
    BY <1>1, <1>2, <1>3, <2>1 DEF Ordered
<1>5. ~ Derives(job.todo)
  BY <1>3 DEF Derives
<1> QED
  BY <1>4, <1>5 DEF Job, Kind

(* ReadFile, which may fail on a torn file.                                     *)
LEMMA ReadKeeps ==
    ASSUME IInv, NEW p \in Procs, ReadFile(p)
    PROVE  IInv'
<1> DEFINE job == jobs[p]
           f == Head(job.todo).file
           content == files[job.run][f]
           next == [job EXCEPT !.read[f] = content, !.todo = Tail(job.todo)]
<1>1. /\ Busy(p) /\ Head(job.todo).op = "read" /\ f # "probe"
  BY DEF ReadFile
<1>2. CASE Torn \in content
  BY <1>1, <1>2, FailKeeps DEF ReadFile
<1>3. CASE Torn \notin content
  <2>1. /\ jobs' = [jobs EXCEPT ![p] = next]
        /\ files' = files /\ origin' = origin /\ mixed' = mixed
        /\ commands' = commands /\ crashes' = crashes
    BY <1>3 DEF ReadFile
  <2>2. Job(job) /\ job.run \in DOMAIN files
    BY <1>1, BusyJob
  <2>3. f \in FileNames
    <3>1. Head(job.todo) \in Ops
      BY <2>2, TailFacts DEF Job, Remains
    <3> QED
      BY <3>1, OpFacts
  <2>4. DOMAIN job = JobFields /\ DOMAIN job.read = FileNames
    BY <2>2 DEF Job
  <2>5. /\ DOMAIN next = JobFields /\ next.run = job.run /\ next.source = job.source
        /\ next.sweep = job.sweep /\ next.of = job.of /\ next.todo = Tail(job.todo)
        /\ next.read = [job.read EXCEPT ![f] = content] /\ next.wrote = job.wrote
    <3> HIDE DEF f, content, job
    <3> QED
      BY <2>4 DEF JobFields
  <2>6. f \in Inputs => \A s \in job.of : content = {Told(s, f)}
    <3> SUFFICES ASSUME f \in Inputs, NEW s \in job.of PROVE content = {Told(s, f)}
      OBVIOUS
    <3>1. Write(f) \notin Range(job.todo)
      BY <1>1, <2>2, InputsWritten
    <3>2. content \in {{Told(s, f)}, {Torn}} \/ Write(f) \in Range(job.todo)
      <4>1. OneInv /\ Busy(p)
        BY <1>1 DEF IInv
      <4>2. PICK g : g = f
        OBVIOUS
      <4>3. files[job.run][g] \in {{Told(s, g)}, {Torn}} \/ Write(g) \in Range(job.todo)
        <5> HIDE DEF f
        <5> QED
          BY <4>1, <4>2 DEF OneInv
      <4> QED
        BY <4>2, <4>3
    <3> QED
      BY <1>3, <3>1, <3>2
  <2>7. IsSweep(job.run) => SweepFile(f, content)
    <3>1. Dir(job.run, files[job.run], origin[job.run])
      BY <2>2 DEF IInv, DirsInv
    <3> QED
      BY <1>3, <2>3, <3>1 DEF Dir, SweepFile
  <2>8. Goes(job, next)
    BY <2>5 DEF Goes
  <2>9. Job(next)
    <3>1. PICK j, n, c, g : j = job /\ n = next /\ c = content /\ g = f
      OBVIOUS
    <3>2. g = Head(j.todo).file
      BY <3>1
    <3> HIDE DEF job, next, content, f
    <3>3. Reads(j, g, c, n)
      BY <1>1, <2>2, <2>5, <2>6, <2>7, <2>8, <3>1, <3>2 DEF Reads
    <3>4. Job(n)
      BY <3>3, ReadJob
    <3> QED
      BY <3>1, <3>4
  <2>10. Tail(job.todo) # << >>
    BY <1>1, <2>2, ReadGoesOn DEF Job
  <2>11. Fills(p)
    <3>1. \A g : Head(jobs[p].todo) # Write(g)
      BY <1>1, OpFacts
    <3> QED
      BY <2>1, <3>1 DEF Fills
  <2>12. JobsInv' /\ MixedInv' /\ OneInv' /\ WholeInv'
    <3> HIDE DEF next
    <3> QED
      BY <1>1, <2>1, <2>8, <2>9, <2>11, GoesOn
  <2>13. DirsInv' /\ CountInv'
    BY <2>1 DEF IInv, DirsInv, CountInv
  <2> QED
    BY <2>12, <2>13 DEF IInv
<1> QED
  BY <1>2, <1>3

(* WriteFile, which may fail before it writes.                                  *)
LEMMA WriteKeeps ==
    ASSUME IInv, NEW p \in Procs, WriteFile(p)
    PROVE  IInv'
<1> DEFINE job == jobs[p]
           f == Head(job.todo).file
           x == Content(job, f)
           kept == IF f \in Kept THEN {x} ELSE {}
           next == [job EXCEPT !.wrote[f] = kept, !.read = EmptyDir, !.todo = Tail(job.todo)]
<1>1. /\ Busy(p) /\ Head(job.todo).op = "write"
  BY DEF WriteFile
<1>2. CASE Raises(job, f)
  BY <1>1, <1>2, FailKeeps DEF WriteFile
<1>3. CASE ~ Raises(job, f)
  <2>1. /\ files' = [files EXCEPT ![job.run][f] = {x}]
        /\ origin' = [origin EXCEPT ![job.run][f] = job.of]
        /\ jobs' = [jobs EXCEPT ![p] = IF Tail(job.todo) = << >> THEN Idle ELSE next]
        /\ mixed' = mixed /\ commands' = commands /\ crashes' = crashes
    BY <1>3 DEF WriteFile
  <2>2. Job(job) /\ job.run \in DOMAIN files
    BY <1>1, BusyJob
  <2>3. f \in FileNames /\ Head(job.todo) = Write(f)
    <3>1. Head(job.todo) \in Ops
      BY <2>2, TailFacts DEF Job, Remains
    <3> QED
      BY <1>1, <3>1, OpFacts
  <2>4. DOMAIN job = JobFields /\ DOMAIN job.wrote = FileNames
    BY <2>2 DEF Job
  <2>5. /\ DOMAIN next = JobFields /\ next.run = job.run /\ next.source = job.source
        /\ next.sweep = job.sweep /\ next.of = job.of /\ next.todo = Tail(job.todo)
        /\ next.wrote = [job.wrote EXCEPT ![f] = kept] /\ next.read = EmptyDir
    <3> HIDE DEF f, kept, job
    <3> QED
      BY <2>4 DEF JobFields
  <2>6. \A s \in job.of : /\ s \in Sources /\ job.run = External(Bundle[s].slug)
                          /\ Derived(s, f, x)
    <3> SUFFICES ASSUME NEW s \in job.of
                 PROVE  /\ s \in Sources /\ job.run = External(Bundle[s].slug)
                        /\ Derived(s, f, x)
      OBVIOUS
    <3>1. s \in Sources /\ job.run = External(Bundle[s].slug)
      BY <1>1 DEF IInv, OneInv
    <3> HIDE DEF f, job
    <3> QED
      BY <2>2, <2>3, <3>1, WritesDerived
  <2>7. IsSweep(job.run) => SweepContent(f, x)
    <3> HIDE DEF f, job
    <3> QED
      BY <2>2, <2>3, WritesSweep
  <2>8. f = "manifest" => x.slug = IF IsSweep(job.run) THEN {} ELSE {job.run[2]}
    <3> HIDE DEF f, job
    <3> QED
      BY <2>2, <2>3, WritesManifest
  <2>9. Goes(job, next)
    BY <2>5 DEF Goes
  <2>10. PICK j, n, g, c, y : j = job /\ n = next /\ g = f /\ c = kept /\ y = x
    OBVIOUS
  <2>11. ASSUME Tail(job.todo) # << >> PROVE Job(next)
    <3>1. /\ Head(j.todo).op = "write" /\ g = Head(j.todo).file /\ Tail(j.todo) # << >>
      BY <1>1, <2>10, <2>11
    <3>2. g \in Kept => c # {}
      BY <2>10
    <3>3. \A z \in c : z = y
      BY <2>10
    <3> HIDE DEF job, next, f, kept, x
    <3>4. /\ \A s \in j.of : \A z \in c : Derived(s, g, z)
          /\ IsSweep(j.run) => SweepFile(g, c)
      BY <2>6, <2>7, <2>10, <3>3 DEF SweepFile
    <3>5. Writes(j, g, c, n)
      BY <2>2, <2>5, <2>9, <2>10, <3>1, <3>2, <3>4 DEF Writes
    <3>6. Job(n)
      BY <3>5, WriteJob
    <3> QED
      BY <2>10, <3>6
  <2>12. /\ DirsInv' /\ DOMAIN files' = DOMAIN files /\ files'[job.run][f] = {x}
         /\ \A r \in DOMAIN files, z \in FileNames :
              r # job.run \/ z # f => files'[r][z] = files[r][z]
    <3> HIDE DEF job, next, f, kept, x
    <3>1. PICK r, told : r = job.run /\ told = job.of
      OBVIOUS
    <3>2. Rewrites(r, g, y, told)
      BY <2>1, <2>2, <2>3, <2>6, <2>7, <2>8, <2>10, <3>1 DEF Rewrites
    <3>3. DirsInv
      BY DEF IInv
    <3>4. /\ DirsInv' /\ DOMAIN files' = DOMAIN files /\ files'[r][g] = {y}
          /\ \A q \in DOMAIN files, z \in FileNames :
               q # r \/ z # g => files'[q][z] = files[q][z]
      BY <3>2, <3>3, FileWritten
    <3> QED
      BY <2>10, <3>1, <3>4
  <2>13. Fills(p)
    <3>1. \A z : Head(job.todo) = Write(z) <=> z = f
      BY <2>3, OpFacts
    <3>2. job = jobs[p] /\ x = Content(job, f)
      OBVIOUS
    <3>3. ASSUME NEW run \in DOMAIN files, NEW z \in FileNames
          PROVE  /\ run = job.run /\ z = f => files'[run][z] = {Content(job, z)}
                 /\ ~ (run = job.run /\ z = f) => files'[run][z] = files[run][z]
      <4> HIDE DEF job, f, x
      <4> QED
        BY <2>12, <3>2
    <3> HIDE DEF f, x
    <3> QED
      BY <2>12, <3>1, <3>3 DEF Fills
  <2>14. JobsInv' /\ MixedInv' /\ OneInv' /\ WholeInv'
    <3> DEFINE m == IF Tail(job.todo) = << >> THEN Idle ELSE next
    <3>1. \/ m = Idle /\ Tail(jobs[p].todo) = << >>
          \/ Goes(jobs[p], m) /\ Job(m)
      <4> HIDE DEF next, Idle
      <4> QED
        BY <2>9, <2>11
    <3>2. jobs' = [jobs EXCEPT ![p] = m]
      BY <2>1
    <3>3. PICK k : k = m
      OBVIOUS
    <3> HIDE DEF m
    <3>4. jobs' = [jobs EXCEPT ![p] = k]
          /\ (\/ k = Idle /\ Tail(jobs[p].todo) = << >>
              \/ Goes(jobs[p], k) /\ Job(k))
      BY <3>1, <3>2, <3>3
    <3> QED
      BY <1>1, <2>1, <2>13, <3>4, GoesOn
  <2>15. CountInv'
    BY <2>1 DEF IInv, CountInv
  <2> QED
    BY <2>12, <2>14, <2>15 DEF IInv
<1> QED
  BY <1>2, <1>3

(* A directory of one whole source: nobody ingests there, and all three files    *)
(* are that one's.                                                              *)
LEMMA WholeFacts ==
    ASSUME IInv, NEW run \in DOMAIN files, NEW s \in Whole(run)
    PROVE  /\ s \in Sources /\ Whole(run) = {s} /\ run = External(Bundle[s].slug)
           /\ \A q \in Procs : Busy(q) /\ jobs[q].run = run => jobs[q].source = {}
           /\ \A f \in Inputs : files[run][f] = {Told(s, f)}
<1>1. /\ ~ IsSweep(run) /\ Ingesting(run) = {} /\ Torn \notin mixed[run[2]]
      /\ Cardinality(mixed[run[2]]) = 1 /\ Whole(run) = mixed[run[2]]
  BY DEF Whole
<1>2. PICK slug \in Slugs : run = External(slug)
  <2>1. DirsInv
    BY DEF IInv
  <2>2. Dir(run, files[run], origin[run])
    BY <2>1 DEF DirsInv
  <2>3. run \in { External(slug) : slug \in Slugs }
    BY <1>1, <2>2 DEF Dir
  <2> QED
    BY <2>3
<1>3. run[2] = slug
  BY <1>2, ExternalFacts
<1>4. MixedInv /\ WholeInv
  BY DEF IInv
<1>5. mixed[slug] = {s}
  <2>1. IsFiniteSet(mixed[slug])
    BY <1>4 DEF MixedInv
  <2>2. PICK x : mixed[slug] = {x}
    BY <1>1, <1>3, <2>1, FiniteAdd
  <2> QED
    BY <1>1, <1>3, <2>2
<1>6. s # Torn /\ s \in Sources /\ Bundle[s].slug = slug
  BY <1>1, <1>3, <1>4, <1>5 DEF MixedInv
<1>7. \A q \in Procs : Busy(q) /\ jobs[q].run = run => jobs[q].source = {}
  BY <1>1 DEF Ingesting
<1>8. ASSUME NEW f \in Inputs PROVE files[run][f] = {Told(s, f)}
  <2>1. \/ files[External(slug)][f] = {Told(s, f)}
        \/ \E p \in Procs : /\ Busy(p) /\ jobs[p].source = {s}
                            /\ Write(f) \in Range(jobs[p].todo)
    BY <1>2, <1>4, <1>5, <1>6 DEF WholeInv
  <2>2. ASSUME NEW p \in Procs, Busy(p), jobs[p].source = {s} PROVE FALSE
    <3>1. Job(jobs[p])
      BY <2>2, BusyJob
    <3>2. jobs[p].run = External(Bundle[s].slug)
      BY <2>2, <3>1 DEF Job, Kind
    <3> QED
      BY <1>2, <1>6, <1>7, <2>2, <3>2
  <2> QED
    BY <1>2, <2>1, <2>2
<1> QED
  BY <1>1, <1>2, <1>3, <1>5, <1>6, <1>7, <1>8

(* A process starts to write a sweep, at once or with the probe it has read.    *)
Sweeping(p, sweep, next) ==
    /\ Job(next) /\ next.source = {} /\ next.of = {} /\ next.run = SweepRun(sweep)
    /\ jobs' = [jobs EXCEPT ![p] = next] /\ mkdir(SweepRun(sweep)) /\ mixed' = mixed
    /\ Busy(p) => jobs[p].source = {}

(* A new directory of a sweep disturbs nothing that is told of bundles.         *)
LEMMA SweepStarts ==
    ASSUME IInv, NEW p \in Procs, NEW sweep, NEW next, Sweeping(p, sweep, next)
    PROVE  DirsInv' /\ JobsInv' /\ MixedInv' /\ OneInv' /\ WholeInv'
<1> DEFINE run == SweepRun(sweep)
<1>1. /\ DirsInv' /\ DOMAIN files' = DOMAIN files \cup {run}
      /\ \A r \in DOMAIN files : files'[r] = files[r]
  <2>1. IsSweep(run) /\ mkdir(run) /\ DirsInv
    BY ExternalFacts DEF Sweeping, IInv
  <2> HIDE DEF run
  <2> QED
    BY <2>1, MadeDir
<1>2. IsSweep(run) /\ \A slug : run # External(slug)
  BY ExternalFacts
<1>3. /\ Job(next) /\ next.source = {} /\ next.of = {} /\ next.run = run
      /\ mixed' = mixed /\ (Busy(p) => jobs[p].source = {})
  BY DEF Sweeping
<1>4. /\ DOMAIN jobs' = Procs /\ jobs'[p] = next
      /\ \A q \in Procs : q # p => jobs'[q] = jobs[q] /\ (Busy(q)' <=> Busy(q))
  <2>1. DOMAIN jobs = Procs
    BY DEF IInv, JobsInv
  <2>2. jobs' = [jobs EXCEPT ![p] = next]
    BY DEF Sweeping
  <2> QED
    BY <2>1, <2>2 DEF Busy
<1> HIDE DEF run
<1>5. JobsInv'
  <2>1. ASSUME NEW q \in Procs
        PROVE  jobs'[q] = Idle \/ (Job(jobs'[q]) /\ jobs'[q].run \in DOMAIN files')
    <3>1. jobs[q] = Idle \/ (Job(jobs[q]) /\ jobs[q].run \in DOMAIN files)
      BY DEF IInv, JobsInv
    <3> QED
      BY <1>1, <1>3, <1>4, <3>1
  <2> QED
    BY <1>4, <2>1 DEF JobsInv
<1>6. MixedInv'
  <2>1. MixedInv
    BY DEF IInv
  <2>2. \A q \in Procs : Busy(q)' => \A s \in jobs'[q].source : s \in mixed'[Bundle[s].slug]
    BY <1>3, <1>4, <2>1 DEF MixedInv
  <2> QED
    BY <1>3, <2>1, <2>2 DEF MixedInv
<1>7. OneInv'
  <2> SUFFICES ASSUME NEW q \in Procs, Busy(q)', NEW s \in jobs'[q].of
               PROVE  /\ s \in Sources /\ jobs'[q].of = {s}
                      /\ jobs'[q].run = External(Bundle[s].slug)
                      /\ \A z \in Procs : Busy(z)' /\ jobs'[z].run = jobs'[q].run =>
                            jobs'[z].source \subseteq {s}
                      /\ \A f \in Inputs :
                           \/ files'[jobs'[q].run][f] \in {{Told(s, f)}, {Torn}}
                           \/ Write(f) \in Range(jobs'[q].todo)
    BY DEF OneInv
  <2>1. q # p /\ jobs'[q] = jobs[q] /\ Busy(q)
    BY <1>3, <1>4
  <2>2. /\ s \in Sources /\ jobs[q].of = {s} /\ jobs[q].run = External(Bundle[s].slug)
        /\ \A z \in Procs : Busy(z) /\ jobs[z].run = jobs[q].run => jobs[z].source \subseteq {s}
        /\ \A f \in Inputs : \/ files[jobs[q].run][f] \in {{Told(s, f)}, {Torn}}
                             \/ Write(f) \in Range(jobs[q].todo)
    BY <2>1 DEF IInv, OneInv
  <2>3. jobs[q].run \in DOMAIN files
    BY <2>1, BusyJob
  <2>4. \A z \in Procs : Busy(z)' /\ jobs'[z].run = jobs[q].run => jobs'[z].source \subseteq {s}
    BY <1>3, <1>4, <2>2
  <2> QED
    BY <1>1, <2>1, <2>2, <2>3, <2>4
<1>8. WholeInv'
  <2> SUFFICES ASSUME NEW slug \in Slugs, NEW s \in Sources, External(slug) \in DOMAIN files',
                      mixed'[slug] = {s}, s # Torn, NEW f \in Inputs
               PROVE  \/ files'[External(slug)][f] = {Told(s, f)}
                      \/ \E q \in Procs : /\ Busy(q)' /\ jobs'[q].source = {s}
                                          /\ Write(f) \in Range(jobs'[q].todo)
    BY DEF WholeInv
  <2>1. External(slug) \in DOMAIN files /\ mixed[slug] = {s}
    BY <1>1, <1>2, <1>3
  <2>2. \/ files[External(slug)][f] = {Told(s, f)}
        \/ \E q \in Procs : /\ Busy(q) /\ jobs[q].source = {s}
                            /\ Write(f) \in Range(jobs[q].todo)
    BY <2>1 DEF IInv, WholeInv
  <2>3. ASSUME NEW q \in Procs, Busy(q), jobs[q].source = {s}, Write(f) \in Range(jobs[q].todo)
        PROVE  Busy(q)' /\ jobs'[q].source = {s} /\ Write(f) \in Range(jobs'[q].todo)
    <3>1. q # p
      BY <1>3, <2>3
    <3> QED
      BY <1>4, <2>3, <3>1
  <2> QED
    BY <1>1, <2>1, <2>2, <2>3
<1> QED
  BY <1>1, <1>5, <1>6, <1>7, <1>8

(* `mwb sweep --dry-run`.                                                       *)
LEMMA SweepKeeps ==
    ASSUME IInv, NEW p \in Procs, NEW sweep, StartSweep(p, sweep)
    PROVE  IInv'
<1> DEFINE next == Started(Sweep(sweep), {})
<1>1. /\ ~ Busy(p) /\ commands < MaxCommands /\ commands' = commands + 1 /\ crashes' = crashes
      /\ jobs' = [jobs EXCEPT ![p] = next] /\ mkdir(SweepRun(sweep)) /\ mixed' = mixed
  BY DEF StartSweep, Start
<1>2. /\ DOMAIN next = JobFields /\ next.todo = WriteSweep /\ next.run = SweepRun(sweep)
      /\ next.source = {} /\ next.sweep = {sweep} /\ next.of = {}
      /\ DOMAIN next.read = FileNames /\ DOMAIN next.wrote = FileNames
  BY DEF Started, Sweep, Command, JobFields, EmptyDir
<1> HIDE DEF next
<1>3. Job(next)
  BY <1>2, SweepJob
<1>4. Sweeping(p, sweep, next)
  BY <1>1, <1>2, <1>3 DEF Sweeping
<1>5. DirsInv' /\ JobsInv' /\ MixedInv' /\ OneInv' /\ WholeInv'
  BY <1>4, SweepStarts
<1>6. CountInv'
  BY <1>1, CycleBounds DEF IInv, CountInv
<1> QED
  BY <1>5, <1>6 DEF IInv

(* `mwb run-probe`, once the probe is read.                                     *)
LEMMA ProbeKeeps ==
    ASSUME IInv, NEW p \in Procs, run_probe(p)
    PROVE  IInv'
<1> DEFINE job == jobs[p]
           content == files[job.run].probe
           probe == TheOne(content)
           sweep == [target_ref |-> probe.target_ref, axes |-> probe.axes, dry_run |-> TRUE]
           next == [job EXCEPT !.run = SweepRun(sweep), !.of = {}, !.todo = WriteSweep,
                               !.sweep = {sweep}]
<1>1. /\ Busy(p) /\ Head(job.todo) = Read("probe")
  BY DEF run_probe
<1>2. CASE content \in {{}, {Torn}} \/ ~ probe.runnable
  BY <1>1, <1>2, FailKeeps DEF run_probe
<1>3. CASE ~ (content \in {{}, {Torn}} \/ ~ probe.runnable)
  <2>1. /\ jobs' = [jobs EXCEPT ![p] = next] /\ mkdir(SweepRun(sweep))
        /\ mixed' = mixed /\ commands' = commands /\ crashes' = crashes
    BY <1>3 DEF run_probe
  <2>2. Job(job)
    BY <1>1, BusyJob
  <2>3. DOMAIN job = JobFields
    BY <2>2 DEF Job
  <2>4. job.source = {}
    <3>1. Read("probe") \in Range(job.todo)
      BY <1>1, <2>2, TailFacts DEF Job, Remains
    <3> HIDE DEF job
    <3> QED
      BY <2>2, <3>1 DEF Job, Kind
  <2>5. PICK z, n : z = sweep /\ n = next
    OBVIOUS
  <2>6. /\ DOMAIN n = JobFields /\ n.todo = WriteSweep /\ n.run = SweepRun(z)
        /\ n.source = job.source /\ n.sweep = {z} /\ n.of = {}
        /\ n.read = job.read /\ n.wrote = job.wrote
    <3> HIDE DEF job, sweep
    <3> QED
      BY <2>3, <2>5 DEF JobFields
  <2> HIDE DEF next, sweep
  <2>7. /\ n.source = {} /\ DOMAIN n.read = FileNames /\ DOMAIN n.wrote = FileNames
    BY <2>2, <2>4, <2>6 DEF Job
  <2>8. Job(n)
    BY <2>6, <2>7, SweepJob
  <2>9. Sweeping(p, z, n)
    BY <2>1, <2>4, <2>5, <2>6, <2>7, <2>8 DEF Sweeping
  <2>10. DirsInv' /\ JobsInv' /\ MixedInv' /\ OneInv' /\ WholeInv'
    BY <2>9, SweepStarts
  <2>11. CountInv'
    BY <2>1 DEF IInv, CountInv
  <2> QED
    BY <2>10, <2>11 DEF IInv
<1> QED
  BY <1>2, <1>3

(* A derivation starts: it tells of the one source its directory is whole of.   *)
LEMMA DerivedKeeps ==
    ASSUME IInv, NEW p \in Procs, NEW run \in DOMAIN files, NEW todo \in DerivedCommands,
           StartDerived(p, run, todo)
    PROVE  IInv'
<1> DEFINE next == Started(Derive(run, todo), Whole(run))
<1>1. /\ ~ Busy(p) /\ commands < MaxCommands /\ commands' = commands + 1 /\ crashes' = crashes
      /\ jobs' = [jobs EXCEPT ![p] = next]
      /\ files' = files /\ origin' = origin /\ mixed' = mixed
  BY DEF StartDerived, Start
<1>2. Job(next)
  BY DerivedJob
<1>3. next.run = run /\ next.source = {} /\ next.of = Whole(run)
  BY DEF Started, Derive, Command
<1> HIDE DEF next
<1>4. /\ DOMAIN jobs' = Procs /\ jobs'[p] = next
      /\ \A q \in Procs : q # p => jobs'[q] = jobs[q] /\ (Busy(q)' <=> Busy(q))
  <2>1. DOMAIN jobs = Procs
    BY DEF IInv, JobsInv
  <2> QED
    BY <1>1, <2>1 DEF Busy
<1>5. DirsInv' /\ CountInv'
  BY <1>1, CycleBounds DEF IInv, DirsInv, CountInv
<1>6. JobsInv'
  <2>1. ASSUME NEW q \in Procs
        PROVE  jobs'[q] = Idle \/ (Job(jobs'[q]) /\ jobs'[q].run \in DOMAIN files')
    <3>1. jobs[q] = Idle \/ (Job(jobs[q]) /\ jobs[q].run \in DOMAIN files)
      BY DEF IInv, JobsInv
    <3> QED
      BY <1>1, <1>2, <1>3, <1>4, <3>1
  <2> QED
    BY <1>4, <2>1 DEF JobsInv
<1>7. MixedInv'
  <2>1. MixedInv
    BY DEF IInv
  <2>2. \A q \in Procs : Busy(q)' => \A s \in jobs'[q].source : s \in mixed'[Bundle[s].slug]
    BY <1>1, <1>3, <1>4, <2>1 DEF MixedInv
  <2> QED
    BY <1>1, <2>1, <2>2 DEF MixedInv
<1>8. OneInv'
  <2> SUFFICES ASSUME NEW q \in Procs, Busy(q)', NEW s \in jobs'[q].of
               PROVE  /\ s \in Sources /\ jobs'[q].of = {s}
                      /\ jobs'[q].run = External(Bundle[s].slug)
                      /\ \A z \in Procs : Busy(z)' /\ jobs'[z].run = jobs'[q].run =>
                            jobs'[z].source \subseteq {s}
                      /\ \A f \in Inputs :
                           \/ files'[jobs'[q].run][f] \in {{Told(s, f)}, {Torn}}
                           \/ Write(f) \in Range(jobs'[q].todo)
    BY DEF OneInv
  <2>1. CASE q = p
    <3>1. s \in Whole(run)
      BY <1>3, <1>4, <2>1
    <3>2. /\ s \in Sources /\ Whole(run) = {s} /\ run = External(Bundle[s].slug)
          /\ \A z \in Procs : Busy(z) /\ jobs[z].run = run => jobs[z].source = {}
          /\ \A f \in Inputs : files[run][f] = {Told(s, f)}
      BY <3>1, WholeFacts
    <3>3. \A z \in Procs : Busy(z)' /\ jobs'[z].run = run => jobs'[z].source \subseteq {s}
      BY <1>3, <1>4, <3>2
    <3> QED
      BY <1>1, <1>3, <1>4, <2>1, <3>2, <3>3
  <2>2. CASE q # p
    <3>1. jobs'[q] = jobs[q] /\ Busy(q)
      BY <1>4, <2>2
    <3>2. /\ s \in Sources /\ jobs[q].of = {s} /\ jobs[q].run = External(Bundle[s].slug)
          /\ \A z \in Procs : Busy(z) /\ jobs[z].run = jobs[q].run => jobs[z].source \subseteq {s}
          /\ \A f \in Inputs : \/ files[jobs[q].run][f] \in {{Told(s, f)}, {Torn}}
                               \/ Write(f) \in Range(jobs[q].todo)
      BY <3>1 DEF IInv, OneInv
    <3>3. \A z \in Procs : Busy(z)' /\ jobs'[z].run = jobs[q].run => jobs'[z].source \subseteq {s}
      BY <1>3, <1>4, <3>2
    <3> QED
      BY <1>1, <3>1, <3>2, <3>3
  <2> QED
    BY <2>1, <2>2
<1>9. WholeInv'
  <2> SUFFICES ASSUME NEW slug \in Slugs, NEW s \in Sources, External(slug) \in DOMAIN files',
                      mixed'[slug] = {s}, s # Torn, NEW f \in Inputs
               PROVE  \/ files'[External(slug)][f] = {Told(s, f)}
                      \/ \E q \in Procs : /\ Busy(q)' /\ jobs'[q].source = {s}
                                          /\ Write(f) \in Range(jobs'[q].todo)
    BY DEF WholeInv
  <2>1. \/ files[External(slug)][f] = {Told(s, f)}
        \/ \E q \in Procs : /\ Busy(q) /\ jobs[q].source = {s}
                            /\ Write(f) \in Range(jobs[q].todo)
    BY <1>1 DEF IInv, WholeInv
  <2>2. ASSUME NEW q \in Procs, Busy(q), jobs[q].source = {s}, Write(f) \in Range(jobs[q].todo)
        PROVE  Busy(q)' /\ jobs'[q].source = {s} /\ Write(f) \in Range(jobs'[q].todo)
    <3>1. q # p
      BY <1>1, <2>2
    <3> QED
      BY <1>4, <2>2, <3>1
  <2> QED
    BY <1>1, <2>1, <2>2
<1> QED
  BY <1>5, <1>6, <1>7, <1>8, <1>9 DEF IInv

(* An ingest starts: what else is under way in its directory tells of this       *)
(* source alone, or of none.                                                    *)
LEMMA IngestKeeps ==
    ASSUME IInv, NEW p \in Procs, NEW s \in Sources, StartIngest(p, s)
    PROVE  IInv'
<1> DEFINE slug == Bundle[s].slug
           run == External(slug)
           sources == IF Ingesting(run) = {} THEN {s} ELSE mixed[slug] \cup {s}
           Stale(q) == Busy(q) /\ jobs[q].run = run /\ jobs[q].of # {s}
           of == IF sources = {s} THEN {s} ELSE {}
           next == Started(Ingest(s), of)
<1>1. /\ ~ Busy(p) /\ commands < MaxCommands /\ commands' = commands + 1 /\ crashes' = crashes
      /\ mkdir(run) /\ mixed' = [mixed EXCEPT ![slug] = sources]
      /\ jobs' = [q \in Procs |-> IF q = p THEN next
                                  ELSE IF Stale(q) THEN [jobs[q] EXCEPT !.of = {}] ELSE jobs[q]]
  BY DEF StartIngest, Start
<1>2. Job(next)
  BY IngestJob
<1>3. /\ next.run = run /\ next.source = {s} /\ next.of = of /\ next.todo = IngestBundle(s)
  BY DEF Started, Ingest, Command
<1>4. slug \in Slugs
  BY DEF Slugs
<1>5. \A f \in Inputs : Write(f) \in Range(next.todo)
  BY <1>3, IngestReady
<1>6. DirsInv /\ JobsInv /\ MixedInv /\ OneInv /\ WholeInv /\ CountInv
  BY DEF IInv
<1>7. /\ s \in sources /\ IsFiniteSet(sources) /\ sources \subseteq Sources \cup {Torn}
      /\ \A x \in sources \ {Torn} : Bundle[x].slug = slug
      /\ Ingesting(run) = {} \/ mixed[slug] \subseteq sources
  <2>1. CASE Ingesting(run) = {}
    <3>1. sources = {s}
      BY <2>1
    <3>2. IsFiniteSet({s})
      <4>1. IsFiniteSet({} \cup {s}) /\ {} \cup {s} = {s}
        BY FiniteAdd
      <4> QED
        BY <4>1
    <3> QED
      BY <2>1, <3>1, <3>2
  <2>2. CASE Ingesting(run) # {}
    <3>1. sources = mixed[slug] \cup {s}
      BY <2>2
    <3>2. /\ IsFiniteSet(mixed[slug]) /\ mixed[slug] \subseteq Sources \cup {Torn}
          /\ \A x \in mixed[slug] \ {Torn} : Bundle[x].slug = slug
      <4> HIDE DEF slug
      <4> QED
        BY <1>4, <1>6 DEF MixedInv
    <3>3. IsFiniteSet(mixed[slug] \cup {s})
      <4> HIDE DEF slug
      <4> QED
        BY <3>2, FiniteAdd
    <3> HIDE DEF sources, slug
    <3>4. \A x \in sources \ {Torn} : x = s \/ x \in mixed[slug] \ {Torn}
      BY <3>1
    <3>5. Bundle[s].slug = slug
      BY DEF slug
    <3> QED
      BY <3>1, <3>2, <3>3, <3>4, <3>5
  <2> QED
    BY <2>1, <2>2
<1>8. /\ DirsInv' /\ DOMAIN files' = DOMAIN files \cup {run}
      /\ \A r \in DOMAIN files : files'[r] = files[r]
  <2>1. run \in { External(z) : z \in Slugs }
    BY <1>4
  <2> HIDE DEF run
  <2> QED
    BY <1>1, <1>6, <2>1, MadeDir
<1>9. /\ DOMAIN jobs' = Procs /\ jobs'[p] = next
      /\ \A q \in Procs : q # p /\ Stale(q) => jobs'[q] = [jobs[q] EXCEPT !.of = {}]
      /\ \A q \in Procs : q # p /\ ~ Stale(q) => jobs'[q] = jobs[q]
  <2> HIDE DEF next, Stale
  <2> QED
    BY <1>1
<1>10. ASSUME NEW q \in Procs, q # p
       PROVE  /\ jobs'[q].todo = jobs[q].todo
              /\ Busy(q) => /\ Job(jobs'[q]) /\ jobs'[q].run = jobs[q].run
                            /\ jobs'[q].source = jobs[q].source
              /\ Stale(q) => jobs'[q].of = {}
              /\ ~ Stale(q) => jobs'[q] = jobs[q]
  <2>1. Busy(q) => Job(jobs[q])
    BY BusyJob
  <2>2. ASSUME Stale(q)
        PROVE  /\ Job(jobs'[q]) /\ jobs'[q].run = jobs[q].run /\ jobs'[q].todo = jobs[q].todo
               /\ jobs'[q].source = jobs[q].source /\ jobs'[q].of = {}
    <3>1. Job(jobs[q])
      BY <2>1, <2>2
    <3>2. PICK j : j = jobs[q]
      OBVIOUS
    <3>3. jobs'[q] = [j EXCEPT !.of = {}]
      BY <1>9, <1>10, <2>2, <3>2
    <3>4. /\ Job([j EXCEPT !.of = {}])
          /\ LET n == [j EXCEPT !.of = {}]
             IN  /\ n.run = j.run /\ n.todo = j.todo /\ n.source = j.source /\ n.of = {}
      BY <3>1, <3>2, StaleJob
    <3> QED
      BY <3>2, <3>3, <3>4
  <2>3. ASSUME ~ Stale(q) PROVE jobs'[q] = jobs[q]
    BY <1>9, <1>10, <2>3
  <2> HIDE DEF Stale
  <2> QED
    BY <2>1, <2>2, <2>3
<1>11. \A q \in Procs : q # p => (Busy(q)' <=> Busy(q))
  BY <1>10 DEF Busy
<1>12. JobsInv'
  <2>1. ASSUME NEW q \in Procs
        PROVE  jobs'[q] = Idle \/ (Job(jobs'[q]) /\ jobs'[q].run \in DOMAIN files')
    <3>1. CASE q = p
      <4> HIDE DEF next, run
      <4> QED
        BY <1>2, <1>3, <1>8, <1>9, <3>1
    <3>2. CASE q # p /\ Busy(q)
      <4>1. jobs[q].run \in DOMAIN files
        BY <3>2, BusyJob
      <4>2. Job(jobs'[q]) /\ jobs'[q].run = jobs[q].run
        BY <1>10, <3>2
      <4> HIDE DEF run
      <4> QED
        BY <1>8, <4>1, <4>2
    <3>3. CASE q # p /\ ~ Busy(q)
      <4>1. jobs'[q] = jobs[q]
        BY <1>10, <3>3
      <4>2. jobs[q] = Idle
        <5>1. jobs[q] = Idle \/ Job(jobs[q])
          BY <1>6 DEF JobsInv
        <5> QED
          BY <3>3, <5>1 DEF Job, Remains, Busy
      <4> QED
        BY <4>1, <4>2
    <3> QED
      BY <3>1, <3>2, <3>3
  <2> QED
    BY <1>9, <2>1 DEF JobsInv
<1>13. /\ mixed'[slug] = sources /\ \A z \in Slugs : z # slug => mixed'[z] = mixed[z]
       /\ mixed' \in [Slugs -> SUBSET (Sources \cup {Torn})]
  <2> HIDE DEF slug, sources
  <2> QED
    BY <1>1, <1>4, <1>6, <1>7 DEF MixedInv
<1>14. MixedInv'
  <2>1. ASSUME NEW q \in Procs, Busy(q)', NEW x \in jobs'[q].source
        PROVE  x \in mixed'[Bundle[x].slug]
    <3>1. CASE q = p
      <4>1. x = s
        <5> HIDE DEF next
        <5> QED
          BY <1>3, <1>9, <2>1, <3>1
      <4> QED
        BY <1>7, <1>13, <4>1
    <3>2. CASE q # p
      <4>1. Busy(q) /\ x \in jobs[q].source
        BY <1>10, <1>11, <2>1, <3>2
      <4>2. x \in mixed[Bundle[x].slug]
        BY <1>6, <4>1 DEF MixedInv
      <4>3. Job(jobs[q])
        BY <4>1, BusyJob
      <4>4. x \in Sources /\ jobs[q].run = External(Bundle[x].slug)
        BY <4>1, <4>3 DEF Job, Kind
      <4>5. CASE Bundle[x].slug = slug
        <5>1. q \in Ingesting(run)
          BY <4>1, <4>4, <4>5 DEF Ingesting
        <5> HIDE DEF slug, sources, run
        <5> QED
          BY <1>7, <1>13, <4>2, <4>5, <5>1
      <4>6. CASE Bundle[x].slug # slug
        <5>1. Bundle[x].slug \in Slugs
          BY <4>4 DEF Slugs
        <5> HIDE DEF slug, sources, run
        <5> QED
          BY <1>13, <4>2, <4>6, <5>1
      <4> QED
        BY <4>5, <4>6
    <3> QED
      BY <3>1, <3>2
  <2>2. \A z \in Slugs : /\ IsFiniteSet(mixed'[z])
                         /\ \A x \in mixed'[z] \ {Torn} : Bundle[x].slug = z
    <3> HIDE DEF slug, sources, run
    <3>1. ASSUME NEW z \in Slugs
          PROVE  /\ IsFiniteSet(mixed'[z])
                 /\ \A x \in mixed'[z] \ {Torn} : Bundle[x].slug = z
      <4>1. CASE z = slug
        BY <1>7, <1>13, <4>1
      <4>2. CASE z # slug
        <5>1. mixed'[z] = mixed[z]
          BY <1>13, <4>2
        <5>2. /\ IsFiniteSet(mixed[z])
              /\ \A x \in mixed[z] \ {Torn} : Bundle[x].slug = z
          BY <1>6 DEF MixedInv
        <5> QED
          BY <5>1, <5>2
      <4> QED
        BY <4>1, <4>2
    <3> QED
      BY <3>1
  <2> QED
    BY <1>13, <2>1, <2>2 DEF MixedInv
<1>15. OneInv'
  <2> SUFFICES ASSUME NEW q \in Procs, Busy(q)', NEW x \in jobs'[q].of
               PROVE  /\ x \in Sources /\ jobs'[q].of = {x}
                      /\ jobs'[q].run = External(Bundle[x].slug)
                      /\ \A z \in Procs : Busy(z)' /\ jobs'[z].run = jobs'[q].run =>
                            jobs'[z].source \subseteq {x}
                      /\ \A f \in Inputs :
                           \/ files'[jobs'[q].run][f] \in {{Told(x, f)}, {Torn}}
                           \/ Write(f) \in Range(jobs'[q].todo)
    BY DEF OneInv
  <2>1. CASE q = p
    <3>1. x = s /\ of = {s} /\ sources = {s}
      <4> HIDE DEF next, sources
      <4> QED
        BY <1>3, <1>9, <2>1
    <3>2. /\ jobs'[q].of = {s} /\ jobs'[q].run = run
          /\ \A f \in Inputs : Write(f) \in Range(jobs'[q].todo)
      <4> HIDE DEF next, of, run
      <4> QED
        BY <1>3, <1>5, <1>9, <2>1, <3>1
    <3>3. ASSUME NEW z \in Procs, Busy(z)', jobs'[z].run = run, z # p
          PROVE  jobs[z].source \subseteq {s}
      <4>1. Busy(z) /\ jobs[z].run = run
        BY <1>10, <1>11, <3>3
      <4>2. Job(jobs[z])
        BY <4>1, BusyJob
      <4> SUFFICES ASSUME NEW y \in jobs[z].source PROVE y = s
        OBVIOUS
      <4>3. y \in Sources /\ jobs[z].run = External(Bundle[y].slug) /\ jobs[z].source # {}
        BY <4>2 DEF Job, Kind
      <4>4. Bundle[y].slug = slug
        BY <4>1, <4>3, ExternalFacts
      <4>5. z \in Ingesting(run)
        BY <4>1, <4>3 DEF Ingesting
      <4>6. y \in mixed[Bundle[y].slug]
        BY <1>6, <4>1 DEF MixedInv
      <4> HIDE DEF slug, sources, run
      <4> QED
        BY <1>7, <3>1, <4>4, <4>5, <4>6
    <3>4. \A z \in Procs : Busy(z)' /\ jobs'[z].run = run => jobs'[z].source \subseteq {s}
      <4>1. ASSUME NEW z \in Procs, Busy(z)', jobs'[z].run = run
            PROVE  jobs'[z].source \subseteq {s}
        <5>1. CASE z = p
          <6> HIDE DEF next
          <6> QED
            BY <1>3, <1>9, <5>1
        <5>2. CASE z # p
          BY <1>10, <1>11, <3>3, <4>1, <5>2
        <5> QED
          BY <5>1, <5>2
      <4> QED
        BY <4>1
    <3>5. run = External(Bundle[s].slug)
      OBVIOUS
    <3> HIDE DEF run
    <3> QED
      BY <3>1, <3>2, <3>4, <3>5
  <2>2. CASE q # p
    <3>1. Busy(q) /\ ~ Stale(q) /\ jobs'[q] = jobs[q]
      <4> HIDE DEF Stale
      <4> QED
        BY <1>10, <1>11, <2>2
    <3>2. /\ x \in Sources /\ jobs[q].of = {x} /\ jobs[q].run = External(Bundle[x].slug)
          /\ \A z \in Procs : Busy(z) /\ jobs[z].run = jobs[q].run => jobs[z].source \subseteq {x}
          /\ \A f \in Inputs : \/ files[jobs[q].run][f] \in {{Told(x, f)}, {Torn}}
                               \/ Write(f) \in Range(jobs[q].todo)
      BY <1>6, <3>1 DEF OneInv
    <3>3. jobs[q].run \in DOMAIN files
      BY <3>1, BusyJob
    <3>4. jobs[q].run = run => x = s
      BY <3>1, <3>2
    <3>5. ASSUME NEW z \in Procs, Busy(z)', jobs'[z].run = jobs[q].run
          PROVE  jobs'[z].source \subseteq {x}
      <4>1. CASE z = p
        <5> HIDE DEF next, run
        <5> QED
          BY <1>3, <1>9, <3>4, <3>5, <4>1
      <4>2. CASE z # p
        BY <1>10, <1>11, <3>2, <3>5, <4>2
      <4> QED
        BY <4>1, <4>2
    <3> HIDE DEF run
    <3> QED
      BY <1>8, <3>1, <3>2, <3>3, <3>5
  <2> QED
    BY <2>1, <2>2
<1>16. WholeInv'
  <2> SUFFICES ASSUME NEW z \in Slugs, NEW x \in Sources, External(z) \in DOMAIN files',
                      mixed'[z] = {x}, x # Torn, NEW f \in Inputs
               PROVE  \/ files'[External(z)][f] = {Told(x, f)}
                      \/ \E q \in Procs : /\ Busy(q)' /\ jobs'[q].source = {x}
                                          /\ Write(f) \in Range(jobs'[q].todo)
    BY DEF WholeInv
  <2>1. CASE z = slug
    <3>1. x = s
      <4> HIDE DEF slug, sources
      <4> QED
        BY <1>7, <1>13, <2>1
    <3>2. Busy(p)' /\ jobs'[p].source = {s} /\ Write(f) \in Range(jobs'[p].todo)
      <4>1. next.todo # << >>
        BY <1>2 DEF Job, Remains
      <4> HIDE DEF next
      <4> QED
        BY <1>3, <1>5, <1>9, <4>1 DEF Busy
    <3> QED
      BY <3>1, <3>2
  <2>2. CASE z # slug
    <3>1. mixed[z] = {x} /\ External(z) # run
      <4>1. External(z) # run
        BY <2>2, ExternalFacts
      <4> HIDE DEF slug, sources, run
      <4> QED
        BY <1>13, <2>2, <4>1
    <3>2. External(z) \in DOMAIN files
      <4> HIDE DEF run
      <4> QED
        BY <1>8, <3>1
    <3>3. \/ files[External(z)][f] = {Told(x, f)}
          \/ \E q \in Procs : /\ Busy(q) /\ jobs[q].source = {x}
                              /\ Write(f) \in Range(jobs[q].todo)
      BY <1>6, <3>1, <3>2 DEF WholeInv
    <3>4. ASSUME NEW q \in Procs, Busy(q), jobs[q].source = {x}, Write(f) \in Range(jobs[q].todo)
          PROVE  Busy(q)' /\ jobs'[q].source = {x} /\ Write(f) \in Range(jobs'[q].todo)
      <4>1. q # p
        BY <1>1, <3>4
      <4> QED
        BY <1>10, <1>11, <3>4, <4>1
    <3> HIDE DEF run
    <3> QED
      BY <1>8, <3>2, <3>3, <3>4
  <2> QED
    BY <2>1, <2>2
<1>17. CountInv'
  BY <1>1, <1>6, CycleBounds DEF CountInv
<1> QED
  BY <1>8, <1>12, <1>14, <1>15, <1>16, <1>17 DEF IInv

-----------------------------------------------------------------------------
(* The invariant holds at first and is kept by every step.                      *)
LEMMA InitInv == Init => IInv
<1> SUFFICES ASSUME Init PROVE IInv
  OBVIOUS
<1>1. /\ files = << >> /\ origin = << >> /\ commands = 0 /\ crashes = 0
      /\ DOMAIN jobs = Procs /\ \A p \in Procs : jobs[p] = Idle
      /\ mixed = [slug \in Slugs |-> {}]
  BY DEF Init
<1>2. DOMAIN files = {} /\ DOMAIN origin = {}
  <2>1. << >> = [i \in 1 .. 0 |-> i]
    OBVIOUS
  <2>2. DOMAIN << >> = {}
    BY <2>1
  <2> QED
    BY <1>1, <2>2
<1>3. \A p \in Procs : ~ Busy(p)
  BY <1>1 DEF Busy, Idle
<1>4. DirsInv /\ JobsInv /\ OneInv
  BY <1>1, <1>2, <1>3 DEF DirsInv, JobsInv, OneInv
<1>5. MixedInv /\ WholeInv
  BY <1>1, <1>2, <1>3, FiniteAdd DEF MixedInv, WholeInv
<1>6. CountInv
  BY <1>1, CycleBounds DEF CountInv
<1> QED
  BY <1>4, <1>5, <1>6 DEF IInv

(* Nothing happens.                                                             *)
LEMMA StutterKeeps ==
    ASSUME IInv, UNCHANGED vars
    PROVE  IInv'
<1>1. /\ files' = files /\ jobs' = jobs /\ mixed' = mixed /\ origin' = origin
      /\ commands' = commands /\ crashes' = crashes
  BY DEF vars
<1>2. \A p : Busy(p)' <=> Busy(p)
  BY <1>1 DEF Busy
<1>3. DirsInv' /\ JobsInv' /\ CountInv'
  BY <1>1 DEF IInv, DirsInv, JobsInv, CountInv
<1>4. MixedInv /\ OneInv /\ WholeInv
  BY DEF IInv
<1>5. MixedInv'
  BY <1>1, <1>2, <1>4 DEF MixedInv
<1>6. OneInv'
  BY <1>1, <1>2, <1>4 DEF OneInv
<1>7. WholeInv'
  BY <1>1, <1>2, <1>4 DEF WholeInv
<1> QED
  BY <1>3, <1>5, <1>6, <1>7 DEF IInv

(* Every step.                                                                  *)
LEMMA StepInv == IInv /\ [Next]_vars => IInv'
<1> SUFFICES ASSUME IInv, [Next]_vars PROVE IInv'
  OBVIOUS
<1>1. CASE UNCHANGED vars
  BY <1>1, StutterKeeps
<1>2. CASE Next
  <2>1. PICK p \in Procs :
          \/ \E s \in Sources : StartIngest(p, s)
          \/ \E run \in DOMAIN files, todo \in DerivedCommands : StartDerived(p, run, todo)
          \/ \E sweep \in Sweeps : StartSweep(p, sweep)
          \/ ReadFile(p) \/ run_probe(p) \/ WriteFile(p) \/ Crash(p)
    BY <1>2 DEF Next
  <2>2. CASE \E s \in Sources : StartIngest(p, s)
    BY <2>2, IngestKeeps
  <2>3. CASE \E run \in DOMAIN files, todo \in DerivedCommands : StartDerived(p, run, todo)
    BY <2>3, DerivedKeeps
  <2>4. CASE \E sweep \in Sweeps : StartSweep(p, sweep)
    BY <2>4, SweepKeeps
  <2>5. CASE ReadFile(p)
    BY <2>5, ReadKeeps
  <2>6. CASE run_probe(p)
    BY <2>6, ProbeKeeps
  <2>7. CASE WriteFile(p)
    BY <2>7, WriteKeeps
  <2>8. CASE Crash(p)
    BY <2>8, CrashKeeps
  <2> QED
    BY <2>1, <2>2, <2>3, <2>4, <2>5, <2>6, <2>7, <2>8
<1> QED
  BY <1>1, <1>2

(* In every state of every run: what is on disk and under way is as IInv says.  *)
THEOREM Invariant == Spec => []IInv
BY InitInv, StepInv, PTL DEF Spec

-----------------------------------------------------------------------------
(* The properties.                                                              *)

(* Directories and commands are of the kinds there are, each file is there once *)
(* at most, and a manifest lies in the directory its run ref names.             *)
THEOREM Types == Spec => []TypeOK
<1>1. ASSUME IInv PROVE TypeOK
  <2>1. DirsInv /\ JobsInv /\ MixedInv /\ CountInv
    BY <1>1 DEF IInv
  <2>2. ASSUME NEW run \in DOMAIN files
        PROVE  /\ IsSweep(run) \/ run \in { External(slug) : slug \in Slugs }
               /\ \A file \in FileNames : Cardinality(files[run][file]) <= 1
               /\ \A manifest \in files[run].manifest \ {Torn} :
                    manifest.slug = IF IsSweep(run) THEN {} ELSE {run[2]}
    <3>1. Dir(run, files[run], origin[run])
      BY <2>1 DEF DirsInv
    <3>2. ASSUME NEW f \in FileNames PROVE Cardinality(files[run][f]) <= 1
      <4>1. files[run][f] = {} \/ \E x : files[run][f] = {x}
        BY <3>1 DEF Dir
      <4>2. Cardinality(files[run][f]) = 0 \/ Cardinality(files[run][f]) = 1
        BY <4>1, SingletonSize, Zenon
      <4> QED
        BY <4>2
    <3> QED
      BY <3>1, <3>2 DEF Dir
  <2>3. ASSUME NEW p \in Procs
        PROVE  \/ jobs[p] = Idle
               \/ Busy(p) /\ \E command \in AllCommands : \E k \in DOMAIN command :
                                jobs[p].todo = SubSeq(command, k, Len(command))
    <3>1. jobs[p] = Idle \/ Remains(jobs[p].todo)
      BY <2>1 DEF JobsInv, Job
    <3> QED
      BY <3>1, Zenon DEF Remains, Busy
  <2> QED
    BY <2>1, <2>2, <2>3 DEF TypeOK, DirsInv, MixedInv, CountInv
<1> QED
  BY <1>1, Invariant, PTL

(* What derived files are made of is one bundle's, once an ingest has ended that *)
(* no other overlapped: nothing of an earlier, a failed or a killed one is left. *)
THEOREM OneIngest == Spec => []IngestIsWhole
<1>1. ASSUME IInv PROVE IngestIsWhole
  <2> SUFFICES ASSUME NEW run \in DOMAIN files, NEW s \in Whole(run)
               PROVE  /\ files[run].manifest = {IngestedManifest(s)}
                      /\ files[run].metrics = {Bundle[s].metrics}
                      /\ files[run].report = {IngestedReport(s)}
    BY DEF IngestIsWhole
  <2>1. \A f \in Inputs : files[run][f] = {Told(s, f)}
    BY <1>1, WholeFacts
  <2> QED
    BY <2>1 DEF Told, Inputs
<1> QED
  BY <1>1, Invariant, PTL

(* A card that one bundle was under alone has that bundle's blockers, and is    *)
(* above an association only if its status is and no control leaks.             *)
THEOREM CardsTell == Spec => []CardTellsSource
<1>1. ASSUME IInv PROVE CardTellsSource
  <2>1. ASSUME NEW run \in DOMAIN files, NEW s \in origin[run].card,
               NEW card \in files[run].card
        PROVE  CardTells(s, card)
    <3>1. Dir(run, files[run], origin[run])
      BY <1>1 DEF IInv, DirsInv
    <3>2. s \in Sources /\ card = CardOf(s)
      BY <3>1 DEF Dir, Derived, FileNames
    <3> QED
      BY <3>2, CardOfTells
  <2> QED
    BY <2>1 DEF CardTellsSource, CardTells
<1> QED
  BY <1>1, Invariant, PTL

(* A plan names what its bundle has and did not try; a probe can be run only for *)
(* a leaky control of its bundle, and tries what its plan names.                *)
THEOREM ProbesFollow == Spec => []ProbeFollowsSource
<1>1. ASSUME IInv PROVE ProbeFollowsSource
  <2>1. ASSUME NEW run \in DOMAIN files, NEW s \in Sources
        PROVE  /\ s \in origin[run].next_probe =>
                    \A plan \in files[run].next_probe : Named(s, plan)
               /\ s \in origin[run].probe =>
                    \A probe \in files[run].probe : ProbeTells(s, probe)
    <3>1. Dir(run, files[run], origin[run])
      BY <1>1 DEF IInv, DirsInv
    <3>2. ASSUME s \in origin[run].next_probe, NEW plan \in files[run].next_probe
          PROVE  Named(s, plan)
      <4>1. plan = PlanOf(s)
        BY <3>1, <3>2 DEF Dir, Derived, FileNames
      <4> QED
        BY <4>1, PlanNamed
    <3>3. ASSUME s \in origin[run].probe, NEW probe \in files[run].probe
          PROVE  ProbeTells(s, probe)
      <4>1. \E debt : probe = ProbeOf(s, debt)
        BY <3>1, <3>3 DEF Dir, Derived, FileNames
      <4> QED
        BY <4>1, ProbeOfTells
    <3> QED
      BY <3>2, <3>3
  <2> QED
    BY <2>1 DEF ProbeFollowsSource, ProbeTells, Named, Shown
<1> QED
  BY <1>1, Invariant, PTL

(* Whatever is read in a sweep's directory, and whenever: a card of it is an    *)
(* association, its tree says that artifacts are missing, and no probe of it    *)
(* can be run.                                                                  *)
THEOREM SweepsLeadNowhere == Spec => []SweepsEarnNothing
<1>1. ASSUME IInv PROVE SweepsEarnNothing
  <2>1. ASSUME NEW run \in DOMAIN files, IsSweep(run), NEW f \in FileNames,
               NEW x \in files[run][f] \ {Torn}
        PROVE  SweepContent(f, x)
    <3>1. Dir(run, files[run], origin[run])
      BY <1>1 DEF IInv, DirsInv
    <3> QED
      BY <2>1, <3>1 DEF Dir, SweepFile
  <2>2. "card" \in FileNames /\ "tree" \in FileNames /\ "probe" \in FileNames
    BY DEF FileNames
  <2> QED
    BY <2>1, <2>2 DEF SweepsEarnNothing, SweepContent
<1> QED
  BY <1>1, Invariant, PTL
===============================================================================
