-------------------------- MODULE EvidenceGraph_proofs --------------------------
(* Proofs about EvidenceGraph, for every number of processes, every history of  *)
(* records, whatever edges they give, and every bound.                          *)
EXTENDS EvidenceGraph, FiniteSetTheorems, TLAPS

USE GraphBounds, HistoryAssumption

-----------------------------------------------------------------------------
(* The edges of the records at one moment, directory by directory.              *)
LEMMA EdgesAtMoment ==
    ASSUME NEW n \in 0 .. Len(History)
    PROVE  /\ EdgesAt[n] = EdgesOf("hypotheses", n) \cup EdgesOf("sessions", n)
                           \cup EdgesOf("runs", n) \cup EdgesOf("claims", n)
           /\ EdgesAt[n] \subseteq AllEdges
<1>1. EdgesAt[n] = UNION { EdgesOf(dir, n) : dir \in Dirs }
  BY DEF EdgesAt
<1> QED
  BY <1>1 DEF AllEdges, Dirs

(* A set of one element has one, and the empty set none.                        *)
LEMMA AtMostOne ==
    ASSUME NEW x
    PROVE  Cardinality({x}) <= 1 /\ Cardinality({}) <= 1
<1>1. Cardinality({x}) = 1
  BY FS_Singleton, Zenon
<1>2. Cardinality({}) = 0
  BY FS_EmptySet, Zenon
<1> QED
  BY <1>1, <1>2

(* What is put into the edge file consists of what was in it and what a rebuild *)
(* has collected; over less than that it is just what was collected.            *)
LEMMA FileOverwritten ==
    ASSUME NEW lines, NEW file \in Overwritten(lines)
    PROVE  /\ file.lines \subseteq edge_file.lines \cup lines
           /\ file.torn \in BOOLEAN
           /\ Covers(lines) => file = [lines |-> lines, torn |-> FALSE]
<1>1. CASE Covers(lines)
  <2>1. file = [lines |-> lines, torn |-> FALSE]
    BY <1>1 DEF Overwritten
  <2> QED
    BY <2>1
<1>2. CASE ~ Covers(lines)
  <2>1. PICK rest \in {{}, edge_file.lines \ lines}, torn \in BOOLEAN :
          file = [lines |-> lines \cup rest, torn |-> torn]
    BY <1>2 DEF Overwritten
  <2>2. file.lines = lines \cup rest /\ file.torn = torn
    BY <2>1
  <2> QED
    BY <1>2, <2>2
<1> QED
  BY <1>1, <1>2

(* Type correctness: whatever overlaps, file and table hold edges of records,   *)
(* and a rebuild that inserts has something left to insert.                     *)
THEOREM TypeCorrect == Spec => []TypeOK
<1>1. Init => TypeOK
  BY FS_EmptySet DEF Init, TypeOK, Labels
<1>2. TypeOK /\ [Next]_vars => TypeOK'
  <2> SUFFICES ASSUME TypeOK, [Next]_vars PROVE TypeOK'
    OBVIOUS
  <2> USE DEF TypeOK, Labels
  <2>1. CASE UNCHANGED vars
    BY <2>1 DEF vars, counts
  <2>2. CASE WriteRecord
    BY <2>2, FS_EmptySet DEF WriteRecord, counts
  <2>3. ASSUME NEW p \in Procs, Begin(p) PROVE TypeOK'
    <3>1. written' = written /\ written \in 0 .. written
      BY <2>3 DEF Begin
    <3>2. calm' \subseteq 0 .. written' /\ Cardinality(calm') <= 1
      <4>1. CASE AllIdle
        <5>1. calm' = {written}
          BY <2>3, <4>1 DEF Begin
        <5> QED
          BY <3>1, <5>1, AtMostOne
      <4>2. CASE ~AllIdle
        <5>1. calm' = calm
          BY <2>3, <4>2 DEF Begin
        <5> QED
          BY <3>1, <5>1
      <4> QED
        BY <4>1, <4>2
    <3> QED
      BY <2>3, <3>1, <3>2 DEF Begin, Goto, Dirs
  <2>4. ASSUME NEW p \in Procs, Collect(p) PROVE TypeOK'
    <3>1. EdgesOf(pc[p], written) \subseteq AllEdges
      BY <2>4, EdgesAtMoment DEF Collect, Dirs
    <3>2. Following[pc[p]] \in Labels /\ Following[pc[p]] # "insert"
      BY <2>4 DEF Collect, Following, Dirs
    <3> QED
      BY <2>4, <3>1, <3>2 DEF Collect, Goto, counts
  <2>5. ASSUME NEW p \in Procs, Open(p) PROVE TypeOK'
    BY <2>5 DEF Open, Goto, counts
  <2>6. ASSUME NEW p \in Procs, Close(p) PROVE TypeOK'
    <3>1. edge_file'.lines \subseteq AllEdges /\ edge_file'.torn \in BOOLEAN
      BY <2>6, FileOverwritten DEF Close
    <3> QED
      BY <2>6, <3>1 DEF Close, Goto, counts
  <2>7. ASSUME NEW p \in Procs, WriteSummary(p) PROVE TypeOK'
    BY <2>7, AtMostOne DEF WriteSummary, Goto, counts
  <2>8. ASSUME NEW p \in Procs, Delete(p) PROVE TypeOK'
    BY <2>8 DEF Delete, Goto, counts
  <2>9. ASSUME NEW p \in Procs, Insert(p) PROVE TypeOK'
    BY <2>9 DEF Insert, Goto, counts
  <2>10. ASSUME NEW p \in Procs, Crash(p) PROVE TypeOK'
    BY <2>10, FS_EmptySet DEF Crash, Goto
  <2> QED
    BY <2>1, <2>2, <2>3, <2>4, <2>5, <2>6, <2>7, <2>8, <2>9, <2>10 DEF Next, Rebuild
<1> QED
  BY <1>1, <1>2, PTL DEF Spec

-----------------------------------------------------------------------------
(* CalmRebuildsAgree speaks of the moment when the last rebuild has ended.  The *)
(* invariant says what holds meanwhile: how far each rebuild has collected, and *)
(* that file, summary and table are those of the records as soon as no rebuild  *)
(* has them still to write.  A table that one rebuild deletes under another is  *)
(* completed by the one that deleted it last: it still holds what is missing.   *)
ToClose == Dirs \cup {"open", "close"}
ToSummary == ToClose \cup {"summary"}
ToDelete == ToSummary \cup {"delete"}

EdgeFile(lines) == [lines |-> lines, torn |-> FALSE]

CollectedInv(p, n) ==
    /\ pc[p] = "hypotheses" => collected[p] = {}
    /\ pc[p] = "sessions" => collected[p] = EdgesOf("hypotheses", n)
    /\ pc[p] = "runs" =>
         collected[p] = EdgesOf("hypotheses", n) \cup EdgesOf("sessions", n)
    /\ pc[p] = "claims" =>
         collected[p] = EdgesOf("hypotheses", n) \cup EdgesOf("sessions", n)
                        \cup EdgesOf("runs", n)
    /\ pc[p] \in {"open", "close", "summary", "delete"} => collected[p] = EdgesAt[n]
    /\ pc[p] = "insert" => collected[p] \subseteq EdgesAt[n]

FileInv(n) ==
    /\ (\E p \in Procs : pc[p] = "close") =>
         edge_file \in {EdgeFile({}), EdgeFile(EdgesAt[n])}
    /\ (\A p \in Procs : pc[p] \notin ToClose) => edge_file = EdgeFile(EdgesAt[n])

SummaryInv(n) ==
    (\A p \in Procs : pc[p] \notin ToSummary) => summary = {Summary(EdgesAt[n])}

RowsInv(n) ==
    /\ (\E p \in Procs : pc[p] = "insert") => rows \subseteq EdgesAt[n]
    /\ (\A p \in Procs : pc[p] \notin ToDelete) =>
         /\ rows \subseteq EdgesAt[n]
         /\ \/ EdgesAt[n] \subseteq rows
            \/ \E p \in Procs : pc[p] = "insert" /\ EdgesAt[n] \subseteq rows \cup collected[p]

CalmAt(n) ==
    /\ AllIdle \/ n = written
    /\ \A p \in Procs : CollectedInv(p, n)
    /\ FileInv(n) /\ SummaryInv(n) /\ RowsInv(n)

CalmInv == \A n \in calm : CalmAt(n)

(* The invariant of the rebuilds says what a calm project's files and table     *)
(* hold.                                                                        *)
LEMMA InvSuffices == CalmInv => CalmRebuildsAgree
<1> SUFFICES ASSUME CalmInv, NEW n \in calm, AllIdle
             PROVE  /\ edge_file = [lines |-> EdgesAt[n], torn |-> FALSE]
                    /\ summary = {Summary(EdgesAt[n])}
                    /\ rows = EdgesAt[n]
  BY DEF CalmRebuildsAgree
<1>1. \A p \in Procs : pc[p] = "idle"
  BY DEF AllIdle, Idle
<1> QED
  BY <1>1 DEF CalmInv, CalmAt, FileInv, SummaryInv, RowsInv, EdgeFile, ToClose, ToSummary,
              ToDelete, Dirs

(* Whatever overlaps, and whatever a killed rebuild has left, undisturbed       *)
(* rebuilds leave file, summary and table as the records are.                   *)
THEOREM CalmAgree == Spec => []CalmRebuildsAgree
<1>1. Init => CalmInv
  BY DEF Init, CalmInv
<1>2. TypeOK /\ CalmInv /\ [Next]_vars => CalmInv'
  <2> SUFFICES ASSUME TypeOK, CalmInv, [Next]_vars, NEW n \in calm'
               PROVE  CalmAt(n)'
    BY DEF CalmInv
  <2> USE DEF CollectedInv, FileInv, SummaryInv, RowsInv, ToClose, ToSummary, ToDelete
  <2>0. /\ pc \in [Procs -> Labels]
        /\ collected \in [Procs -> SUBSET AllEdges]
    BY DEF TypeOK
  <2>1. CASE UNCHANGED vars
    BY <2>1 DEF vars, counts, CalmInv, CalmAt, AllIdle, Idle
  <2>2. CASE WriteRecord
    <3>1. AllIdle /\ n \in calm
      BY <2>2 DEF WriteRecord
    <3> QED
      BY <2>2, <3>1 DEF WriteRecord, CalmInv, CalmAt, AllIdle, Idle
  <2>3. ASSUME NEW p \in Procs, Begin(p) PROVE CalmAt(n)'
    <3>1. n = written'
      <4>1. CASE AllIdle
        BY <2>3, <4>1 DEF Begin
      <4>2. CASE ~AllIdle
        BY <2>3, <4>2 DEF Begin, CalmInv, CalmAt
      <4> QED
        BY <4>1, <4>2
    <3>2. pc' = [pc EXCEPT ![p] = "hypotheses"] /\ collected' = [collected EXCEPT ![p] = {}]
      BY <2>3 DEF Begin, Goto
    <3>3. CASE AllIdle
      <4>1. \A q \in Procs \ {p} : pc'[q] = "idle"
        BY <2>0, <3>2, <3>3 DEF AllIdle, Idle
      <4> QED
        BY <2>0, <3>1, <3>2, <4>1 DEF CalmAt, Dirs
    <3>4. CASE ~AllIdle
      <4>1. CalmAt(n)
        BY <2>3, <3>4 DEF Begin, CalmInv
      <4>2. UNCHANGED << edge_file, summary, rows >>
        BY <2>3 DEF Begin
      <4> QED
        BY <2>0, <3>1, <3>2, <4>1, <4>2 DEF CalmAt, Dirs
    <3> QED
      BY <3>3, <3>4
  <2>4. ASSUME NEW p \in Procs, Rebuild(p)
        PROVE  /\ CalmAt(n) /\ n = written /\ written' = written
               /\ n \in 0 .. Len(History)
    <3>1. ~AllIdle /\ n \in calm /\ written' = written
      BY <2>4 DEF Rebuild, Collect, Open, Close, WriteSummary, Delete, Insert,
                  AllIdle, Idle, Dirs
    <3> QED
      BY <3>1 DEF CalmInv, CalmAt, TypeOK
  <2>5. ASSUME NEW p \in Procs, Collect(p) PROVE CalmAt(n)'
    <3>1. CalmAt(n) /\ n = written /\ written' = written /\ n \in 0 .. Len(History)
      BY <2>4, <2>5 DEF Rebuild
    <3>2. /\ pc[p] \in Dirs
          /\ pc' = [pc EXCEPT ![p] = Following[pc[p]]]
          /\ collected' = [collected EXCEPT ![p] = @ \cup EdgesOf(pc[p], n)]
          /\ UNCHANGED << edge_file, summary, rows >>
      BY <2>5, <3>1 DEF Collect, Goto
    <3>3. CollectedInv(p, n)'
      BY <2>0, <3>1, <3>2, EdgesAtMoment DEF CalmAt, Dirs, Following
    <3>4. pc'[p] \in ToClose \ {"close"}
      BY <2>0, <3>2 DEF Dirs, Following
    <3>5. \A q \in Procs \ {p} : pc'[q] = pc[q] /\ collected'[q] = collected[q]
      BY <2>0, <3>2
    <3>6. \A q \in Procs \ {p} : CollectedInv(q, n)'
      BY <3>1, <3>5 DEF CalmAt
    <3>7. FileInv(n)'
      BY <3>1, <3>2, <3>4, <3>5 DEF CalmAt
    <3>8. SummaryInv(n)'
      BY <3>4
    <3>9. RowsInv(n)'
      <4>1. ~ \A q \in Procs : pc'[q] \notin ToDelete
        BY <3>4
      <4>2. ASSUME NEW q \in Procs, pc'[q] = "insert" PROVE rows' \subseteq EdgesAt[n]
        <5>1. pc'[p] # "insert"
          BY <3>4 DEF Dirs
        <5>2. q # p
          BY <4>2, <5>1, Zenon
        <5> QED
          BY <3>1, <3>2, <3>5, <4>2, <5>2 DEF CalmAt
      <4> QED
        BY <4>1, <4>2
    <3> QED
      BY <3>1, <3>3, <3>6, <3>7, <3>8, <3>9 DEF CalmAt
  <2>6. ASSUME NEW p \in Procs, Open(p) PROVE CalmAt(n)'
    <3>1. CalmAt(n) /\ n = written /\ written' = written
      BY <2>4, <2>6 DEF Rebuild
    <3> QED
      BY <2>0, <2>6, <3>1 DEF Open, Goto, CalmAt, EdgeFile, Dirs
  <2>7. ASSUME NEW p \in Procs, Close(p) PROVE CalmAt(n)'
    <3>1. CalmAt(n) /\ n = written /\ written' = written
      BY <2>4, <2>7 DEF Rebuild
    <3>2. collected[p] = EdgesAt[n]
      BY <2>7, <3>1 DEF Close, CalmAt
    <3>3. Covers(collected[p])
      BY <2>7, <3>1, <3>2 DEF Close, CalmAt, EdgeFile, Covers
    <3>4. edge_file' = EdgeFile(EdgesAt[n])
      BY <2>7, <3>2, <3>3, FileOverwritten DEF Close, EdgeFile
    <3> QED
      BY <2>0, <2>7, <3>1, <3>4 DEF Close, Goto, CalmAt, Dirs
  <2>8. ASSUME NEW p \in Procs, WriteSummary(p) PROVE CalmAt(n)'
    <3>1. CalmAt(n) /\ n = written /\ written' = written
      BY <2>4, <2>8 DEF Rebuild
    <3>2. summary' = {Summary(EdgesAt[n])}
      BY <2>8, <3>1 DEF WriteSummary, CalmAt
    <3> QED
      BY <2>0, <2>8, <3>1, <3>2 DEF WriteSummary, Goto, CalmAt, Dirs
  <2>9. ASSUME NEW p \in Procs, Delete(p) PROVE CalmAt(n)'
    <3>1. CalmAt(n) /\ n = written /\ written' = written
      BY <2>4, <2>9 DEF Rebuild
    <3>2. collected[p] = EdgesAt[n]
      BY <2>9, <3>1 DEF Delete, CalmAt
    <3> QED
      BY <2>0, <2>9, <3>1, <3>2 DEF Delete, Goto, CalmAt, Dirs
  <2>10. ASSUME NEW p \in Procs, Insert(p) PROVE CalmAt(n)'
    <3>1. CalmAt(n) /\ n = written /\ written' = written
      BY <2>4, <2>10 DEF Rebuild
    <3>2. PICK edge \in collected[p] :
            /\ rows' = rows \cup {edge}
            /\ collected' = [collected EXCEPT ![p] = @ \ {edge}]
            /\ Goto(p, IF collected[p] = {edge} THEN "idle" ELSE "insert")
      BY <2>10 DEF Insert, TypeOK
    <3>3. pc[p] = "insert" /\ UNCHANGED << edge_file, summary >>
      BY <2>10 DEF Insert
    <3> QED
      BY <2>0, <3>1, <3>2, <3>3 DEF Goto, CalmAt, Dirs
  <2>11. ASSUME NEW p \in Procs, Crash(p) PROVE CalmAt(n)'
    BY <2>11 DEF Crash
  <2> QED
    BY <2>1, <2>2, <2>3, <2>5, <2>6, <2>7, <2>8, <2>9, <2>10, <2>11 DEF Next, Rebuild
<1> QED
  BY <1>1, <1>2, TypeCorrect, InvSuffices, PTL DEF Spec

-----------------------------------------------------------------------------
(* What the queries of one step find.                                           *)

(* An edge of these is what make_edge is told.                                  *)
LEMMA Made ==
    ASSUME NEW src, NEW dst, NEW relation, NEW source, NEW path, NEW src_type, NEW dst_type,
           NEW about
    PROVE  /\ \A e \in make_edge(src, dst, relation, source, path, src_type, dst_type, about) :
                e.src = src /\ e.dst = dst /\ e.relation = relation
           /\ src # NoRef /\ dst # NoRef =>
                \E e \in make_edge(src, dst, relation, source, path, src_type, dst_type, about) :
                    e.src = src /\ e.dst = dst /\ e.relation = relation
<1> DEFINE edge == [src |-> src, dst |-> dst, relation |-> relation, source |-> source,
                    path |-> path, src_type |-> src_type, dst_type |-> dst_type,
                    about |-> about]
<1>1. edge.src = src /\ edge.dst = dst /\ edge.relation = relation
  OBVIOUS
<1>2. make_edge(src, dst, relation, source, path, src_type, dst_type, about)
        = { e \in {edge} : src # NoRef /\ dst # NoRef }
  BY Zenon DEF make_edge
<1> HIDE DEF edge
<1> QED
  BY <1>1, <1>2, Zenon

(* An edge is what make_edge is told, whatever that is.                         *)
LEMMA MadeIs ==
    \A src, dst, relation, source, path, src_type, dst_type, about :
      \A e : e \in make_edge(src, dst, relation, source, path, src_type, dst_type, about)
            => e.src = src /\ e.dst = dst /\ e.relation = relation
  BY Made

(* The relations by which debts and contradictions are found.                   *)
Doubts == {"contradicts", "fails_on", "confounded_by"}
Doubtful(E) == { e \in E : e.relation \in Doubts }

(* Hypotheses give none.                                                        *)
LEMMA HypothesesTrust == \A path, h : Doubtful(hypothesis_edges(path, h)) = {}
<1>1. "depends_on" \notin Doubts
  BY DEF Doubts
<1> SUFFICES ASSUME NEW path, NEW h, NEW e \in hypothesis_edges(path, h)
             PROVE  e.relation \notin Doubts
  BY Zenon DEF Doubtful
<1>2. PICK src, type : e \in make_edge(src, Default(h.ref, path), "depends_on",
                                     Default(h.ref, path), path, type, "hypothesis", Nothing)
  BY Zenon DEF hypothesis_edges
<1>3. e.relation = "depends_on"
  BY <1>2, MadeIs
<1> QED
  BY <1>1, <1>3, Zenon

(* Nor do sessions.                                                             *)
LEMMA SessionsTrust == \A path, s : Doubtful(session_edges(path, s)) = {}
<1>1. "depends_on" \notin Doubts /\ "derived_from" \notin Doubts
  BY DEF Doubts
<1> SUFFICES ASSUME NEW path, NEW s, NEW e \in session_edges(path, s)
             PROVE  e.relation \notin Doubts
  BY Zenon DEF Doubtful
<1>2. \/ \E cell : e \in cell_edges(path, cell)
      \/ \E event : e \in namespace_edges(path, event)
      \/ \E artifact : e \in artifact_edges(path, artifact)
  BY Zenon DEF session_edges
<1>3. ASSUME NEW cell, e \in cell_edges(path, cell) PROVE e.relation = "derived_from"
  <2>1. PICK a : e \in make_edge(cell.cell_ref, a, "derived_from", cell.cell_ref, path,
                               "cell", "artifact", Nothing)
    BY <1>3, Zenon DEF cell_edges
  <2> QED
    BY <2>1, MadeIs
<1>4. ASSUME NEW event, e \in namespace_edges(path, event) PROVE e.relation = "derived_from"
  <2>1. \/ e \in make_edge(event.cell_ref, event.object_ref, "derived_from",
                            event.object_ref, path, "cell", "object", Nothing)
        \/ \E p : e \in make_edge(p, event.object_ref, "derived_from",
                                   event.object_ref, path, "object", "object", Nothing)
        \/ \E a : e \in make_edge(event.object_ref, a, "derived_from",
                                   event.object_ref, path, "object", "artifact", Nothing)
    BY <1>4, Zenon DEF namespace_edges
  <2> QED
    BY <2>1, MadeIs
<1>5. ASSUME NEW artifact, e \in artifact_edges(path, artifact)
      PROVE  e.relation \in {"derived_from", "depends_on"}
  <2> DEFINE ref == artifact.artifact_ref
  <2>1. \/ \E c : e \in make_edge(c, ref, "derived_from", ref, path, "cell", "artifact", Nothing)
        \/ \E o : e \in make_edge(o, ref, "derived_from", ref, path, "object", "artifact", Nothing)
        \/ \E p : e \in make_edge(p, ref, "depends_on", ref, path, "parent", "artifact", Nothing)
    BY <1>5, Zenon DEF artifact_edges
  <2> QED
    BY <2>1, MadeIs
<1> QED
  BY <1>1, <1>2, <1>3, <1>4, <1>5, Zenon

(* Nor do claims.                                                               *)
LEMMA ClaimsTrust == \A path, c : Doubtful(claim_edges(path, c)) = {}
<1>1. "depends_on" \notin Doubts /\ "supports" \notin Doubts /\ "cited_by" \notin Doubts
  BY DEF Doubts
<1> SUFFICES ASSUME NEW path, NEW c, NEW e \in claim_edges(path, c)
             PROVE  e.relation \notin Doubts
  BY Zenon DEF Doubtful
<1> DEFINE claim == Default(c.claim_ref, Default(c.wb_ref, path))
           card == Default(c.mechanism_card_ref, Default(c.wb_ref, NoRef))
<1>2. \/ e \in make_edge(card, claim, "supports", claim, path, "mechanism_card", "claim", Nothing)
      \/ \E src, type : e \in make_edge(src, claim, "depends_on", claim, path, type, "claim", Nothing)
      \/ \E d : e \in make_edge(claim, d, "cited_by", claim, path, "claim", "draft", Nothing)
  BY Zenon DEF claim_edges
<1>3. e.relation \in {"depends_on", "supports", "cited_by"}
  BY <1>2, MadeIs
<1> QED
  BY <1>1, <1>3, Zenon

(* A reference of a kind is not the empty one.                                  *)
LEMMA NamedRefs ==
    /\ \A ref : ref[1] = "debt" => ref # NoRef
    /\ \A b : << "control", b >> # NoRef
<1>1. "debt" # "" /\ "control" # ""
  BY Zenon
<1>2. NoRef[1] = "" /\ \A b : << "control", b >>[1] = "control"
  <2>1. \A x, y : << x, y >>[1] = x
    OBVIOUS
  <2> QED
    BY <2>1, Zenon DEF NoRef
<1> QED
  BY <1>1, <1>2, Zenon

(* What a blocker report gives.                                                 *)
LEMMA BlockerDoubts ==
    ASSUME NEW path, NEW run, NEW report
    PROVE  /\ \A e \in blocker_edges(path, run, report) :
                /\ e.dst = run
                /\ \/ /\ e.relation = "contradicts"
                      /\ \E b \in report.blockers : AboutControls(b) /\ e.src = << "control", b >>
                   \/ e.relation \in {"fails_on", "confounded_by"} /\ e.src = report.wb_ref
           /\ run # NoRef =>
                \A b \in report.blockers : AboutControls(b) =>
                    \E e \in blocker_edges(path, run, report) :
                        e.relation = "contradicts" /\ e.dst = run /\ e.src = << "control", b >>
<1> DEFINE against(b) == make_edge(<< "control", b >>, run, "contradicts", report.wb_ref, path,
                                   "control", "run", b)
           mixed(b) == make_edge(report.wb_ref, run, "confounded_by", report.wb_ref, path,
                                 "blocker_report", "run", b)
           failed(b) == make_edge(report.wb_ref, run, "fails_on", report.wb_ref, path,
                                  "blocker_report", "run", b)
<1>1. \A e : e \in blocker_edges(path, run, report) <=>
               \E b \in report.blockers : \/ AboutControls(b) /\ e \in against(b)
                                          \/ e \in mixed(b) \/ e \in failed(b)
  <2> DEFINE edges(b) == (IF AboutControls(b) THEN against(b) ELSE {}) \cup mixed(b) \cup failed(b)
  <2>1. blocker_edges(path, run, report) = UNION { edges(b) : b \in report.blockers }
    BY Zenon DEF blocker_edges
  <2> HIDE DEF against, mixed, failed
  <2>2. \A b : \A e : e \in edges(b) <=> \/ AboutControls(b) /\ e \in against(b)
                                        \/ e \in mixed(b) \/ e \in failed(b)
    OBVIOUS
  <2> HIDE DEF edges
  <2> QED
    BY <2>1, <2>2, Zenon
<1>2. \A b : /\ \A e \in against(b) : /\ e.src = << "control", b >> /\ e.dst = run
                                      /\ e.relation = "contradicts"
             /\ \A e \in mixed(b) : /\ e.src = report.wb_ref /\ e.dst = run
                                    /\ e.relation = "confounded_by"
             /\ \A e \in failed(b) : /\ e.src = report.wb_ref /\ e.dst = run
                                     /\ e.relation = "fails_on"
  BY MadeIs
<1>3. \A b : run # NoRef => \E e \in against(b) : /\ e.src = << "control", b >> /\ e.dst = run
                                                 /\ e.relation = "contradicts"
  BY Made, NamedRefs
<1> HIDE DEF against, mixed, failed
<1>4. ASSUME NEW e \in blocker_edges(path, run, report)
      PROVE  /\ e.dst = run
             /\ \/ /\ e.relation = "contradicts"
                   /\ \E b \in report.blockers : AboutControls(b) /\ e.src = << "control", b >>
                \/ e.relation \in {"fails_on", "confounded_by"} /\ e.src = report.wb_ref
  <2>1. PICK b \in report.blockers : \/ AboutControls(b) /\ e \in against(b)
                                     \/ e \in mixed(b) \/ e \in failed(b)
    BY <1>1, <1>4, Zenon
  <2>2. CASE AboutControls(b) /\ e \in against(b)
    BY <1>2, <2>2, Zenon
  <2>3. CASE e \in mixed(b) \/ e \in failed(b)
    <3>1. e.dst = run /\ e.src = report.wb_ref /\ e.relation \in {"fails_on", "confounded_by"}
      BY <1>2, <2>3
    <3> QED
      BY <3>1
  <2> QED
    BY <2>1, <2>2, <2>3, Zenon
<1>5. ASSUME run # NoRef, NEW b \in report.blockers, AboutControls(b)
      PROVE  \E e \in blocker_edges(path, run, report) :
                 e.relation = "contradicts" /\ e.dst = run /\ e.src = << "control", b >>
  BY <1>1, <1>3, <1>5, Zenon
<1> QED
  BY <1>4, <1>5, Zenon

(* What an item of debt gives.                                                  *)
LEMMA DebtDoubts ==
    ASSUME NEW path, NEW claim, NEW fallback, NEW item
    PROVE  /\ \A e \in debt_edges(path, claim, fallback, item) :
                /\ e.relation \in {"fails_on", "confounded_by"} /\ e.src = item.debt_ref
                /\ e.dst = Default(claim, fallback)
           /\ item.debt_ref # NoRef /\ Default(claim, fallback) # NoRef =>
                \E e \in debt_edges(path, claim, fallback, item) :
                    /\ e.relation = "fails_on" /\ e.src = item.debt_ref
                    /\ e.dst = Default(claim, fallback)
<1> DEFINE type == IF claim # {} THEN "claim" ELSE "mechanism_card"
           edge(relation) == make_edge(item.debt_ref, Default(claim, fallback), relation,
                                       item.debt_ref, path, "scientific_debt", type, item.kind)
<1>1. /\ edge("fails_on") \subseteq debt_edges(path, claim, fallback, item)
      /\ \A e \in debt_edges(path, claim, fallback, item) :
           e \in edge("fails_on") \/ e \in edge("confounded_by")
  BY Zenon DEF debt_edges
<1>2. \A relation : \A e \in edge(relation) : /\ e.src = item.debt_ref
                                              /\ e.dst = Default(claim, fallback)
                                              /\ e.relation = relation
  BY MadeIs
<1>3. item.debt_ref # NoRef /\ Default(claim, fallback) # NoRef =>
        \E e \in edge("fails_on") : /\ e.src = item.debt_ref
                                    /\ e.dst = Default(claim, fallback)
                                    /\ e.relation = "fails_on"
  BY Made
<1> HIDE DEF edge
<1> QED
  BY <1>1, <1>2, <1>3

(* Where the blockers of a run and its debt without a claim point.              *)
Dir(path, r) == Default(r.run_ref, path)
Fallback(path, r) == Default(UNION { card.card_ref : card \in r.card }, Dir(path, r))
(* The edges of a run that are doubts: these, and no others.                    *)
LEMMA RunDoubts ==
    ASSUME NEW path, NEW r
    PROVE  /\ \A e \in run_edges(path, r) :
                \/ e.relation \notin Doubts
                \/ \E report \in r.blocker_report : e \in blocker_edges(path, Dir(path, r), report)
                \/ \E item \in r.debt : e \in debt_edges(path, Claims(r), Fallback(path, r), item)
           /\ \A report \in r.blocker_report :
                blocker_edges(path, Dir(path, r), report) \subseteq run_edges(path, r)
           /\ \A item \in r.debt :
                debt_edges(path, Claims(r), Fallback(path, r), item) \subseteq run_edges(path, r)
<1> DEFINE run == Dir(path, r)
           tested(h) == make_edge(h, run, "tested_by", run, path, "hypothesis", "run", Nothing)
<1>1. \A e : e \in run_edges(path, r) <=>
        \/ \E h \in r.source_hypothesis_ref : e \in tested(h)
        \/ \E result \in r.results : e \in result_edges(path, run, result)
        \/ \E report \in r.blocker_report : e \in blocker_edges(path, run, report)
        \/ \E card \in r.card : e \in card_edges(path, run, card)
        \/ \E item \in r.debt : e \in debt_edges(path, Claims(r), Fallback(path, r), item)
  BY Zenon DEF run_edges, Dir, Fallback, Claims
<1>2. "tested_by" \notin Doubts /\ "derived_from" \notin Doubts /\ "supports" \notin Doubts
  BY DEF Doubts
<1>3. ASSUME NEW h, NEW e \in tested(h) PROVE e.relation \notin Doubts
  BY <1>2, <1>3, MadeIs
<1>4. ASSUME NEW result, NEW e \in result_edges(path, run, result) PROVE e.relation \notin Doubts
  <2>1. \/ e \in make_edge(run, result.result_ref, "derived_from", run, path,
                           "run", "verification_result", Nothing)
        \/ \E h : e \in make_edge(h, result.result_ref, "tested_by", result.result_ref, path,
                                  "hypothesis", "verification_result", Nothing)
    BY <1>4, Zenon DEF result_edges
  <2> QED
    BY <1>2, <2>1, MadeIs
<1>5. ASSUME NEW card, NEW e \in card_edges(path, run, card) PROVE e.relation \notin Doubts
  <2> DEFINE ref == Default(card.card_ref, NoRef)
  <2>1. \/ e \in make_edge(run, ref, "supports", ref, path, "run", "mechanism_card", card.status)
        \/ \E c : e \in make_edge(ref, c, "supports", ref, path, "mechanism_card", "claim",
                                  card.status)
    BY <1>5, Zenon DEF card_edges
  <2> QED
    BY <1>2, <2>1, MadeIs
<1> HIDE DEF tested, run
<1>6. \A e \in run_edges(path, r) :
        \/ e.relation \notin Doubts
        \/ \E report \in r.blocker_report : e \in blocker_edges(path, run, report)
        \/ \E item \in r.debt : e \in debt_edges(path, Claims(r), Fallback(path, r), item)
  BY <1>1, <1>3, <1>4, <1>5, Zenon
<1>7. /\ \A report \in r.blocker_report : blocker_edges(path, run, report) \subseteq run_edges(path, r)
      /\ \A item \in r.debt :
           debt_edges(path, Claims(r), Fallback(path, r), item) \subseteq run_edges(path, r)
  BY <1>1, Zenon
<1> QED
  BY <1>6, <1>7 DEF run

(* Of the edges of all records, only those of runs are doubts.                  *)
LEMMA DoubtsOfRuns ==
    ASSUME NEW n \in 0 .. Len(History)
    PROVE  /\ \A e \in EdgesAt[n] : e.relation \in Doubts =>
                \E i \in Current("runs", n) : e \in run_edges(History[i].path, History[i].doc)
           /\ \A i \in Current("runs", n) : run_edges(History[i].path, History[i].doc) \subseteq EdgesAt[n]
<1>1. EdgesAt[n] = EdgesOf("hypotheses", n) \cup EdgesOf("sessions", n)
                   \cup EdgesOf("runs", n) \cup EdgesOf("claims", n)
  BY EdgesAtMoment
<1>2. \A dir : \A e : e \in EdgesOf(dir, n) <=>
        \E i \in Current(dir, n) : e \in file_edges(dir, History[i].path, History[i].doc)
  BY Zenon DEF EdgesOf
<1>3. \A path, doc : /\ file_edges("hypotheses", path, doc) = hypothesis_edges(path, doc)
                     /\ file_edges("sessions", path, doc) = session_edges(path, doc)
                     /\ file_edges("runs", path, doc) = run_edges(path, doc)
                     /\ file_edges("claims", path, doc) = claim_edges(path, doc)
  BY DEF file_edges
<1>4. \A path, doc : /\ \A e \in hypothesis_edges(path, doc) : e.relation \notin Doubts
                     /\ \A e \in session_edges(path, doc) : e.relation \notin Doubts
                     /\ \A e \in claim_edges(path, doc) : e.relation \notin Doubts
  <2>1. \A E : Doubtful(E) = {} => \A e \in E : e.relation \notin Doubts
    BY DEF Doubtful
  <2> QED
    BY <2>1, HypothesesTrust, SessionsTrust, ClaimsTrust, Zenon
<1>5. /\ \A e \in EdgesOf("hypotheses", n) : e.relation \notin Doubts
      /\ \A e \in EdgesOf("sessions", n) : e.relation \notin Doubts
      /\ \A e \in EdgesOf("claims", n) : e.relation \notin Doubts
  BY <1>2, <1>3, <1>4
<1>6. \A e : e \in EdgesOf("runs", n) <=>
        \E i \in Current("runs", n) : e \in run_edges(History[i].path, History[i].doc)
  BY <1>2, <1>3
<1>7. \A e : e \in EdgesAt[n] <=> \/ e \in EdgesOf("hypotheses", n) \/ e \in EdgesOf("sessions", n)
                                  \/ e \in EdgesOf("runs", n) \/ e \in EdgesOf("claims", n)
  BY <1>1
<1> QED
  BY <1>5, <1>6, <1>7

(* A run directory has one record, which is what the assumption says.           *)
LEMMA RunsNamed ==
    ASSUME NEW n \in 0 .. Len(History), NEW i \in Current("runs", n)
    PROVE  LET r == History[i].doc
               path == History[i].path
           IN  /\ Dir(path, r) = path /\ path # NoRef
               /\ \A run \in r.run_ref : run = path
               /\ \A j \in Current("runs", n) : History[j].path = path => j = i
               /\ \A c \in Claims(r) : Default(Claims(r), Fallback(path, r)) = c
               /\ \A c \in Claims(r) : c # NoRef
               /\ \A j \in Current("runs", n) : \A c \in Claims(History[j].doc) :
                    Claims(r) = {} => Default(Claims(r), Fallback(path, r)) # c
               /\ \A report \in r.blocker_report : report.wb_ref[1] # "debt"
               /\ \A item \in r.debt : item.debt_ref[1] = "debt"
<1> DEFINE r == History[i].doc
           path == History[i].path
<1>1. i \in DOMAIN History /\ i \in 1 .. n /\ History[i].dir = "runs"
  BY HistoryAssumption DEF Current
<1>2. \A j \in Current("runs", n) : j \in DOMAIN History /\ j \in 1 .. n /\ History[j].dir = "runs"
  BY HistoryAssumption DEF Current
<1>3. \A j \in Current("runs", n) :
        /\ History[j].doc.run_ref \subseteq {History[j].path} /\ History[j].path # NoRef
        /\ \A c, d \in Claims(History[j].doc) : c = d
        /\ \A c \in Claims(History[j].doc) : c # NoRef /\ c[1] \notin {"run", "mc"}
        /\ History[j].path[1] = "run"
        /\ \A card \in History[j].doc.card : \A ref \in card.card_ref : ref[1] = "mc"
        /\ \A report \in History[j].doc.blocker_report : report.wb_ref[1] # "debt"
        /\ \A item \in History[j].doc.debt : item.debt_ref[1] = "debt"
  BY <1>2, RunsAssumption, Zenon DEF Claims
<1> HIDE DEF r, path
<1>4. /\ r.run_ref \subseteq {path} /\ path # NoRef /\ path[1] = "run"
      /\ \A c, d \in Claims(r) : c = d
      /\ \A c \in Claims(r) : c # NoRef /\ c[1] \notin {"run", "mc"}
      /\ \A card \in r.card : \A ref \in card.card_ref : ref[1] = "mc"
      /\ \A report \in r.blocker_report : report.wb_ref[1] # "debt"
      /\ \A item \in r.debt : item.debt_ref[1] = "debt"
  BY <1>3, Zenon DEF r, path
<1>5. \A field, fallback : Default(field, fallback) \in field \/ (field = {} /\ Default(field, fallback) = fallback)
  BY DEF Default
<1>6. Dir(path, r) = path
  BY <1>4, <1>5 DEF Dir
<1>7. \A j \in Current("runs", n) : History[j].path = path => j = i
  <2> SUFFICES ASSUME NEW j \in Current("runs", n), History[j].path = path PROVE j = i
    OBVIOUS
  <2>1. n \in Nat /\ i \in Int /\ j \in Int
    BY <1>1, <1>2
  <2>2. \A k, l \in Current("runs", n) : k < l => History[l].path # History[k].path
    <3> SUFFICES ASSUME NEW k \in Current("runs", n), NEW l \in Current("runs", n), k < l
                 PROVE  History[l].path # History[k].path
      OBVIOUS
    <3>1. k \in 1 .. n /\ l \in 1 .. n /\ n \in Nat
      BY <1>2
    <3>2. l \in k + 1 .. n
      BY <3>1
    <3>3. << History[l].dir, History[l].path >> # << "runs", History[k].path >>
      BY <3>2 DEF Current
    <3> QED
      BY <1>2, <3>3
  <2> QED
    BY <2>1, <2>2 DEF path
<1>8. Fallback(path, r)[1] \in {"run", "mc"}
  <2>1. \A ref \in UNION { card.card_ref : card \in r.card } : ref[1] = "mc"
    BY <1>4, Zenon
  <2> QED
    BY <1>4, <1>5, <1>6, <2>1 DEF Fallback
<1>9. /\ \A run \in r.run_ref : run = path
      /\ \A c \in Claims(r) : Default(Claims(r), Fallback(path, r)) = c
      /\ Claims(r) = {} => Default(Claims(r), Fallback(path, r)) = Fallback(path, r)
  BY <1>4, <1>5
<1>10. \A j \in Current("runs", n) : \A c \in Claims(History[j].doc) : c[1] \notin {"run", "mc"}
  BY <1>3, Zenon
<1>11. \A j \in Current("runs", n) : \A c \in Claims(History[j].doc) :
         Claims(r) = {} => Default(Claims(r), Fallback(path, r)) # c
  BY <1>8, <1>9, <1>10
<1> QED
  BY <1>4, <1>6, <1>7, <1>9, <1>11 DEF r, path

(* The debt of a claim is that of its runs, ...                                 *)
LEMMA DebtOfClaim ==
    ASSUME NEW n \in 0 .. Len(History), NEW r \in Records("runs", n), NEW claim \in Claims(r)
    PROVE  debt_blocking(EdgesAt[n], claim)
             = UNION { { item.debt_ref : item \in other.debt } :
                         other \in { x \in Records("runs", n) : claim \in Claims(x) } }
<1>1. PICK k \in Current("runs", n) : History[k].doc = r
  BY Zenon DEF Records
<1>2. \A s : s \in debt_blocking(EdgesAt[n], claim) <=>
        \E e \in EdgesAt[n] : /\ e.relation \in {"fails_on", "confounded_by"} /\ e.dst = claim
                              /\ e.src[1] = "debt" /\ s = e.src
  BY Zenon DEF debt_blocking
<1>3. \A s : s \in UNION { { item.debt_ref : item \in other.debt } :
                             other \in { x \in Records("runs", n) : claim \in Claims(x) } }
        <=> \E i \in Current("runs", n) :
              claim \in Claims(History[i].doc) /\ \E item \in History[i].doc.debt : s = item.debt_ref
  <2>1. \A other : other \in Records("runs", n) <=> \E i \in Current("runs", n) : other = History[i].doc
    BY Zenon DEF Records
  <2>2. \A s : s \in UNION { { item.debt_ref : item \in other.debt } :
                             other \in { x \in Records("runs", n) : claim \in Claims(x) } }
          <=> \E other \in Records("runs", n) :
                claim \in Claims(other) /\ \E item \in other.debt : s = item.debt_ref
    <3> DEFINE Owed(x) == { item.debt_ref : item \in x.debt }
               its == { x \in Records("runs", n) : claim \in Claims(x) }
    <3>1. \A x, s : s \in Owed(x) <=> \E item \in x.debt : s = item.debt_ref
      BY Zenon
    <3>2. \A x : x \in its <=> x \in Records("runs", n) /\ claim \in Claims(x)
      BY Zenon
    <3> HIDE DEF Owed, its
    <3>3. \A s : s \in UNION { Owed(other) : other \in its } <=> \E other \in its : s \in Owed(other)
      BY Zenon
    <3>4. \A s : s \in UNION { Owed(other) : other \in its }
            <=> \E other \in Records("runs", n) :
                  claim \in Claims(other) /\ \E item \in other.debt : s = item.debt_ref
      BY <3>1, <3>2, <3>3
    <3> QED
      BY <3>4, Zenon DEF Owed, its
  <2> QED
    BY <2>1, <2>2
<1>4. ASSUME NEW e \in EdgesAt[n], e.relation \in {"fails_on", "confounded_by"}, e.dst = claim,
             e.src[1] = "debt"
      PROVE  \E i \in Current("runs", n) :
               claim \in Claims(History[i].doc) /\ \E item \in History[i].doc.debt : e.src = item.debt_ref
  <2>1. e.relation \in Doubts
    BY <1>4 DEF Doubts
  <2>2. PICK i \in Current("runs", n) : e \in run_edges(History[i].path, History[i].doc)
    BY <2>1, DoubtsOfRuns
  <2>3. PICK x, path : x = History[i].doc /\ path = History[i].path
    OBVIOUS
  <2>4. \/ \E report \in x.blocker_report : e \in blocker_edges(path, Dir(path, x), report)
        \/ \E item \in x.debt : e \in debt_edges(path, Claims(x), Fallback(path, x), item)
    BY <2>1, <2>2, <2>3, RunDoubts
  <2>5. /\ \A report \in x.blocker_report : report.wb_ref[1] # "debt"
        /\ Claims(x) = {} => Default(Claims(x), Fallback(path, x)) # claim
        /\ \A c \in Claims(x) : Default(Claims(x), Fallback(path, x)) = c
    <3> DEFINE y == History[i].doc
               at == History[i].path
    <3>1. \A report \in y.blocker_report : report.wb_ref[1] # "debt"
      BY RunsNamed
    <3>2. \A c \in Claims(y) : Default(Claims(y), Fallback(at, y)) = c
      BY RunsNamed
    <3>3. \A j \in Current("runs", n) : \A c \in Claims(History[j].doc) :
            Claims(y) = {} => Default(Claims(y), Fallback(at, y)) # c
      BY RunsNamed
    <3>4. claim \in Claims(History[k].doc)
      BY <1>1
    <3>5. Claims(y) = {} => Default(Claims(y), Fallback(at, y)) # claim
      BY <3>3, <3>4, Zenon
    <3>6. x = y /\ path = at
      BY <2>3, Zenon
    <3> HIDE DEF y, at
    <3> QED
      BY <3>1, <3>2, <3>5, <3>6
  <2>6. ASSUME NEW report \in x.blocker_report, e \in blocker_edges(path, Dir(path, x), report)
        PROVE  FALSE
    <3>1. e.relation = "contradicts" \/ e.src = report.wb_ref
      BY <2>6, BlockerDoubts
    <3> QED
      BY <1>4, <2>5, <3>1
  <2>7. PICK item \in x.debt : e \in debt_edges(path, Claims(x), Fallback(path, x), item)
    BY <2>4, <2>6
  <2>8. e.src = item.debt_ref /\ e.dst = Default(Claims(x), Fallback(path, x))
    BY <2>7, DebtDoubts
  <2>9. claim \in Claims(x)
    BY <1>4, <2>5, <2>8
  <2> QED
    BY <2>3, <2>7, <2>8, <2>9
<1>5. ASSUME NEW i \in Current("runs", n), claim \in Claims(History[i].doc),
             NEW item \in History[i].doc.debt
      PROVE  \E e \in EdgesAt[n] : /\ e.relation = "fails_on" /\ e.dst = claim
                                   /\ e.src[1] = "debt" /\ item.debt_ref = e.src
  <2>1. PICK x, path : x = History[i].doc /\ path = History[i].path
    OBVIOUS
  <2>2. /\ item.debt_ref[1] = "debt" /\ claim # NoRef
        /\ Default(Claims(x), Fallback(path, x)) = claim
    BY <1>5, <2>1, RunsNamed
  <2>3. item.debt_ref # NoRef
    BY <2>2, NamedRefs
  <2>4. PICK e \in debt_edges(path, Claims(x), Fallback(path, x), item) :
          /\ e.relation = "fails_on" /\ e.src = item.debt_ref /\ e.dst = claim
    BY <2>2, <2>3, DebtDoubts
  <2>5. e \in EdgesAt[n]
    BY <1>5, <2>1, <2>4, RunDoubts, DoubtsOfRuns
  <2> QED
    BY <2>2, <2>4, <2>5
<1>6. ASSUME NEW s PROVE s \in debt_blocking(EdgesAt[n], claim) <=>
        \E i \in Current("runs", n) :
          claim \in Claims(History[i].doc) /\ \E item \in History[i].doc.debt : s = item.debt_ref
  <2>1. "fails_on" \in {"fails_on", "confounded_by"}
    OBVIOUS
  <2> QED
    BY <1>2, <1>4, <1>5, <2>1
<1> QED
  BY <1>3, <1>6, Zenon

(* ... and what contradicts a run is what its report says of controls.          *)
LEMMA ContradictionsOfRun ==
    ASSUME NEW n \in 0 .. Len(History), NEW r \in Records("runs", n), NEW run \in r.run_ref
    PROVE  controls_contradicting(EdgesAt[n], run)
             = { << "control", b >> : b \in
                   { x \in UNION { rep.blockers : rep \in r.blocker_report } : AboutControls(x) } }
<1>1. PICK k \in Current("runs", n) : History[k].doc = r
  BY Zenon DEF Records
<1>2. PICK path : path = History[k].path
  OBVIOUS
<1>3. /\ Dir(path, r) = path /\ path # NoRef /\ run = path
      /\ \A i \in Current("runs", n) : History[i].path = path => i = k
  BY <1>1, <1>2, RunsNamed
<1>4. \A s : s \in controls_contradicting(EdgesAt[n], run) <=>
        \E e \in EdgesAt[n] : e.relation = "contradicts" /\ e.dst = run /\ s = e.src
  BY Zenon DEF controls_contradicting
<1>5. \A s : s \in { << "control", b >> : b \in
                       { x \in UNION { rep.blockers : rep \in r.blocker_report } :
                           AboutControls(x) } }
        <=> \E report \in r.blocker_report : \E b \in report.blockers :
              AboutControls(b) /\ s = << "control", b >>
  BY Zenon
<1>6. ASSUME NEW e \in EdgesAt[n], e.relation = "contradicts", e.dst = run
      PROVE  \E report \in r.blocker_report : \E b \in report.blockers :
               AboutControls(b) /\ e.src = << "control", b >>
  <2>1. e.relation \in Doubts
    BY <1>6 DEF Doubts
  <2>2. PICK i \in Current("runs", n) : e \in run_edges(History[i].path, History[i].doc)
    BY <2>1, DoubtsOfRuns
  <2>3. PICK x, at : x = History[i].doc /\ at = History[i].path
    OBVIOUS
  <2>4. \/ \E report \in x.blocker_report : e \in blocker_edges(at, Dir(at, x), report)
        \/ \E item \in x.debt : e \in debt_edges(at, Claims(x), Fallback(at, x), item)
    BY <2>1, <2>2, <2>3, RunDoubts
  <2>5. \A item : e \notin debt_edges(at, Claims(x), Fallback(at, x), item)
    BY <1>6, DebtDoubts
  <2>6. PICK report \in x.blocker_report : e \in blocker_edges(at, Dir(at, x), report)
    BY <2>4, <2>5
  <2>7. /\ e.dst = Dir(at, x)
        /\ \E b \in report.blockers : AboutControls(b) /\ e.src = << "control", b >>
    BY <1>6, <2>6, BlockerDoubts
  <2>8. Dir(at, x) = at
    BY <2>3, RunsNamed
  <2>9. i = k
    BY <1>3, <1>6, <2>3, <2>7, <2>8
  <2> QED
    BY <1>1, <2>3, <2>6, <2>7, <2>9
<1>7. ASSUME NEW report \in r.blocker_report, NEW b \in report.blockers, AboutControls(b)
      PROVE  \E e \in EdgesAt[n] : /\ e.relation = "contradicts" /\ e.dst = run
                                   /\ e.src = << "control", b >>
  <2>1. PICK e \in blocker_edges(path, Dir(path, r), report) :
          /\ e.relation = "contradicts" /\ e.dst = Dir(path, r) /\ e.src = << "control", b >>
    BY <1>3, <1>7, BlockerDoubts
  <2>2. e \in EdgesAt[n]
    BY <1>1, <1>2, <2>1, RunDoubts, DoubtsOfRuns
  <2> QED
    BY <1>3, <2>1, <2>2
<1>8. ASSUME NEW s PROVE s \in controls_contradicting(EdgesAt[n], run) <=>
        \E report \in r.blocker_report : \E b \in report.blockers :
          AboutControls(b) /\ s = << "control", b >>
  <2>1. ASSUME s \in controls_contradicting(EdgesAt[n], run)
        PROVE  \E report \in r.blocker_report : \E b \in report.blockers :
                 AboutControls(b) /\ s = << "control", b >>
    <3>1. PICK e : /\ e \in EdgesAt[n] /\ e.relation = "contradicts" /\ e.dst = run
                   /\ s = e.src
      BY <1>4, <2>1, Zenon
    <3>2. \E report \in r.blocker_report : \E b \in report.blockers :
            AboutControls(b) /\ e.src = << "control", b >>
      BY <1>6, <3>1, Zenon
    <3> QED
      BY <3>1, <3>2, Zenon
  <2>2. ASSUME NEW report \in r.blocker_report, NEW b \in report.blockers, AboutControls(b),
               s = << "control", b >>
        PROVE  s \in controls_contradicting(EdgesAt[n], run)
    <3>1. PICK e \in EdgesAt[n] : /\ e.relation = "contradicts" /\ e.dst = run
                                  /\ e.src = << "control", b >>
      BY <1>7, <2>2, Zenon
    <3> QED
      BY <1>4, <2>2, <3>1, Zenon
  <2> QED
    BY <2>1, <2>2, Zenon
<1> QED
  BY <1>5, <1>8, Zenon

(* After an undisturbed rebuild the query for the debt of a claim finds that of *)
(* its runs, and the one for contradictions of a run what its report says of    *)
(* controls: no other record of any directory gives such edges.                 *)
THEOREM DebtTraced == Spec => []DebtFound
<1>1. TypeOK /\ CalmRebuildsAgree => DebtFound
  <2> SUFFICES ASSUME TypeOK, CalmRebuildsAgree, AllIdle, NEW n \in calm,
                      NEW r \in Records("runs", n)
               PROVE  /\ \A claim \in Claims(r) :
                           debt_blocking(edge_file.lines, claim)
                             = UNION { { item.debt_ref : item \in other.debt } :
                                         other \in { x \in Records("runs", n) :
                                                       claim \in Claims(x) } }
                      /\ \A run \in r.run_ref :
                           controls_contradicting(edge_file.lines, run)
                             = { << "control", b >> : b \in
                                   { x \in UNION { rep.blockers : rep \in r.blocker_report } :
                                       AboutControls(x) } }
    BY Zenon DEF DebtFound
  <2>1. n \in 0 .. Len(History)
    <3>1. n \in 0 .. written /\ written \in 0 .. Len(History)
      BY DEF TypeOK
    <3> QED
      BY <3>1
  <2>2. edge_file.lines = EdgesAt[n]
    BY DEF CalmRebuildsAgree
  <2>3. ASSUME NEW claim \in Claims(r)
        PROVE  debt_blocking(edge_file.lines, claim)
                 = UNION { { item.debt_ref : item \in other.debt } :
                             other \in { x \in Records("runs", n) : claim \in Claims(x) } }
    <3>1. debt_blocking(EdgesAt[n], claim)
            = UNION { { item.debt_ref : item \in other.debt } :
                        other \in { x \in Records("runs", n) : claim \in Claims(x) } }
      BY <2>1, DebtOfClaim, Zenon
    <3> QED
      BY <2>2, <3>1, Zenon
  <2>4. ASSUME NEW run \in r.run_ref
        PROVE  controls_contradicting(edge_file.lines, run)
                 = { << "control", b >> : b \in
                       { x \in UNION { rep.blockers : rep \in r.blocker_report } :
                           AboutControls(x) } }
    <3>1. controls_contradicting(EdgesAt[n], run)
            = { << "control", b >> : b \in
                  { x \in UNION { rep.blockers : rep \in r.blocker_report } :
                      AboutControls(x) } }
      BY <2>1, ContradictionsOfRun, Zenon
    <3> QED
      BY <2>2, <3>1, Zenon
  <2> QED
    BY <2>3, <2>4, Zenon
<1> QED
  BY <1>1, TypeCorrect, CalmAgree, PTL
===============================================================================
