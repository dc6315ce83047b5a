----------------------------- MODULE EvidenceGraph -----------------------------
(* The provenance graph (evidence_graph.py): `mwb graph rebuild` derives edges  *)
(* from the hypothesis, session, run and claim files, replaces                  *)
(* graph/evidence_edges.jsonl and graph_summary.json by them and then the table *)
(* evidence_edges, a row at a time; `mwb graph query` reads the edge file.      *)
(* Nothing is locked: other commands write records while a rebuild reads them,  *)
(* several rebuilds overlap, and any of them may be killed.                     *)
(*                                                                              *)
(* A ref is a pair << prefix, name >>, NoRef what Python has as "".  A JSON     *)
(* field that may be absent is {} or {its value}.  The ref of an edge is a hash *)
(* of everything the edge says, so an edge is its own ref.  Timestamps are left *)
(* out, and an edge file fits the writer's buffer: it is written at the close.  *)
EXTENDS Integers, SequencesExt, FiniteSetsExt

CONSTANTS
    Procs,          \* processes that run `mwb graph rebuild`
    History,        \* the record files other commands write, in order
    ControlBlockers,    \* the blockers whose name has "control" in it
    Recorded,       \* how many of these are there at the start
    MaxRebuilds, MaxCrashes     \* bounds

ASSUME GraphBounds == MaxRebuilds \in Nat /\ MaxCrashes \in Nat

Dirs == {"hypotheses", "sessions", "runs", "claims"}

(* A write replaces the records of one file (or run directory) of a directory.  *)
ASSUME HistoryAssumption ==
    /\ Len(History) \in Nat /\ DOMAIN History = 1 .. Len(History)
    /\ \A i \in DOMAIN History : History[i].dir \in Dirs
    /\ Recorded \in 0 .. Len(History)

NoRef == << "", "" >>
Nothing == ""    \* an edge tells no status, blocker or kind
Default(field, fallback) == IF field = {} THEN fallback ELSE CHOOSE x \in field : TRUE

-----------------------------------------------------------------------------
(* make_edge; _dedupe_edges drops an edge with an empty end.                    *)
make_edge(src, dst, relation, source, path, src_type, dst_type, about) ==
    { e \in { [src |-> src, dst |-> dst, relation |-> relation, source |-> source,
               path |-> path, src_type |-> src_type, dst_type |-> dst_type,
               about |-> about] } : src # NoRef /\ dst # NoRef }

(* Mutant: the edges of a hypothesis leave it.                                  *)
hypothesis_edges_Reversed(path, h) ==
    LET ref == Default(h.ref, path)
    IN  UNION { make_edge(ref, p, "depends_on", ref, path, "hypothesis", "parent", Nothing) :
                  p \in h.units \cup h.example_bundle_ref \cup h.control_bundle_ref
                        \cup h.parents }
(* _collect_hypothesis_edges, of one file: its units and bundles, and the       *)
(* parents that are none of these.                                              *)
hypothesis_edges(path, h) ==
    LET ref == Default(h.ref, path)
        edge(src, type) ==
          make_edge(src, ref, "depends_on", ref, path, type, "hypothesis", Nothing)
        bundles == h.example_bundle_ref \cup h.control_bundle_ref
    IN  UNION ({ edge(u, "mechanistic_unit") : u \in h.units }
               \cup { edge(b, "example_bundle") : b \in h.example_bundle_ref }
               \cup { edge(b, "control_bundle") : b \in h.control_bundle_ref }
               \cup { edge(p, "parent") : p \in h.parents \ (h.units \cup bundles) })

(* _collect_session_edges, of one session: its cells, the events of its         *)
(* namespace, whatever they record, and its artifacts.                          *)
cell_edges(path, cell) ==
    IF cell.cell_ref = NoRef THEN {}
    ELSE UNION { make_edge(cell.cell_ref, a, "derived_from", cell.cell_ref, path,
                           "cell", "artifact", Nothing) : a \in cell.artifact_refs }
namespace_edges(path, event) ==
    LET obj == event.object_ref
    IN  make_edge(event.cell_ref, obj, "derived_from", obj, path, "cell", "object", Nothing)
        \cup (UNION { make_edge(p, obj, "derived_from", obj, path, "object", "object",
                                Nothing) : p \in event.parents })
        \cup (UNION { make_edge(obj, a, "derived_from", obj, path, "object", "artifact",
                                Nothing) : a \in event.artifact_refs })
artifact_edges(path, artifact) ==
    LET ref == artifact.artifact_ref
    IN  IF ref = NoRef THEN {}
        ELSE UNION ({ make_edge(c, ref, "derived_from", ref, path, "cell", "artifact",
                                Nothing) : c \in artifact.cell_ref }
                    \cup { make_edge(o, ref, "derived_from", ref, path, "object",
                                     "artifact", Nothing) : o \in artifact.created_by_ref }
                    \cup { make_edge(p, ref, "depends_on", ref, path, "parent",
                                     "artifact", Nothing) : p \in artifact.parents })
session_edges(path, s) ==
    UNION ({ cell_edges(path, cell) : cell \in s.cells }
           \cup { namespace_edges(path, event) : event \in s.namespace_objects }
           \cup { artifact_edges(path, artifact) : artifact \in s.artifacts })

(* _collect_run_edges, of one run directory.                                    *)
result_edges(path, run, result) ==
    IF result.result_ref = NoRef THEN {}
    ELSE make_edge(run, result.result_ref, "derived_from", run, path,
                   "run", "verification_result", Nothing)
         \cup UNION { make_edge(h, result.result_ref, "tested_by", result.result_ref, path,
                                "hypothesis", "verification_result", Nothing) :
                        h \in result.hypothesis_ref }

(* _collect_blocker_edges; only a blocker about controls is a contradiction,    *)
(* which the code tells from its name.                                          *)
AboutControls(blocker) == blocker \in ControlBlockers
blocker_edges(path, run, report) ==
    LET edges(blocker) ==
          (IF AboutControls(blocker)
           THEN make_edge(<< "control", blocker >>, run, "contradicts", report.wb_ref, path,
                          "control", "run", blocker) ELSE {})
          \cup make_edge(report.wb_ref, run, "confounded_by", report.wb_ref, path,
                         "blocker_report", "run", blocker)
          \cup make_edge(report.wb_ref, run, "fails_on", report.wb_ref, path,
                         "blocker_report", "run", blocker)
    IN  UNION { edges(blocker) : blocker \in report.blockers }

(* _claim_ref: of the card, else of its metadata.                               *)
claim_ref(card) == IF card.claim_ref # {} THEN card.claim_ref ELSE card.metadata_claim_ref

card_edges(path, run, card) ==
    LET ref == Default(card.card_ref, NoRef)
    IN  IF ref = NoRef THEN {}
        ELSE make_edge(run, ref, "supports", ref, path, "run", "mechanism_card",
                       card.status)
             \cup UNION { make_edge(ref, c, "supports", ref, path, "mechanism_card",
                                    "claim", card.status) : c \in claim_ref(card) }

(* Mutant: a debt is put down to the card, not to its claim.                    *)
debt_edges_Card(path, claim, fallback, item) ==
    make_edge(item.debt_ref, fallback, "fails_on", item.debt_ref, path, "scientific_debt",
              "mechanism_card", item.kind)
(* _collect_debt_edges                                                          *)
debt_edges(path, claim, fallback, item) ==
    LET type == IF claim # {} THEN "claim" ELSE "mechanism_card"
        edge(relation) == make_edge(item.debt_ref, Default(claim, fallback), relation,
                                    item.debt_ref, path, "scientific_debt", type, item.kind)
    IN  edge("fails_on") \cup (IF item.blocker # {} THEN edge("confounded_by") ELSE {})

run_edges(path, r) ==
    LET run == Default(r.run_ref, path)
        card_ref == UNION { card.card_ref : card \in r.card }
        claim == UNION { claim_ref(card) : card \in r.card }
    IN  UNION ({ make_edge(h, run, "tested_by", run, path, "hypothesis", "run", Nothing) :
                   h \in r.source_hypothesis_ref }
               \cup { result_edges(path, run, result) : result \in r.results }
               \cup { blocker_edges(path, run, report) : report \in r.blocker_report }
               \cup { card_edges(path, run, card) : card \in r.card }
               \cup { debt_edges(path, claim, Default(card_ref, run), item) :
                        item \in r.debt })

(* _collect_claim_edges, of one file of claims/: a card, or a grammar report,   *)
(* whose own ref then passes for a card's.                                      *)
claim_edges(path, c) ==
    LET claim == Default(c.claim_ref, Default(c.wb_ref, path))
        card == Default(c.mechanism_card_ref, Default(c.wb_ref, NoRef))
        edge(src, type) ==
          make_edge(src, claim, "depends_on", claim, path, type, "claim", Nothing)
    IN  (IF card = claim THEN {}
         ELSE make_edge(card, claim, "supports", claim, path, "mechanism_card", "claim",
                        Nothing))
        \cup UNION ({ edge(run, "run") : run \in c.run_ref }
                    \cup { edge(p, "parent") : p \in c.parents }
                    \cup { make_edge(claim, d, "cited_by", claim, path, "claim", "draft",
                                     Nothing) : d \in c.draft_refs })

(* A run lies where its manifest says.  It has one card at most, of one claim,  *)
(* which goes by a name of its own; and debts are told apart from reports.      *)
ASSUME RunsAssumption ==
    \A i \in DOMAIN History : History[i].dir = "runs" =>
        LET r == History[i].doc
            claims == UNION { claim_ref(card) : card \in r.card }
        IN  /\ r.run_ref \subseteq {History[i].path} /\ History[i].path # NoRef
            /\ \A c, d \in claims : c = d
            /\ \A c \in claims : c # NoRef /\ c[1] \notin {"run", "mc"}
            /\ History[i].path[1] = "run"
            /\ \A card \in r.card : \A ref \in card.card_ref : ref[1] = "mc"
            /\ \A report \in r.blocker_report : report.wb_ref[1] # "debt"
            /\ \A item \in r.debt : item.debt_ref[1] = "debt"

-----------------------------------------------------------------------------
(* The records after the first n writes, and the edges of a directory of them.  *)
Current(dir, n) ==
    { i \in 1 .. n : /\ History[i].dir = dir
                     /\ \A j \in i + 1 .. n : << History[j].dir, History[j].path >>
                                                # << dir, History[i].path >> }
Records(dir, n) == { History[i].doc : i \in Current(dir, n) }

file_edges(dir, path, doc) ==
    CASE dir = "hypotheses" -> hypothesis_edges(path, doc)
      [] dir = "sessions"   -> session_edges(path, doc)
      [] dir = "runs"       -> run_edges(path, doc)
      [] dir = "claims"     -> claim_edges(path, doc)
EdgesOf(dir, n) ==
    UNION { file_edges(dir, History[i].path, History[i].doc) : i \in Current(dir, n) }
EdgesAt == [n \in 0 .. Len(History) |-> UNION { EdgesOf(dir, n) : dir \in Dirs }]

(* _summary                                                                     *)
Nodes(edges) == { e.src : e \in edges } \cup { e.dst : e \in edges }
Summary(edges) == [edges |-> Cardinality(edges), nodes |-> Cardinality(Nodes(edges))]

-----------------------------------------------------------------------------
(* The queries, of the edges of the file.                                       *)
traversable == {"depends_on", "derived_from", "tested_by", "supports", "generalizes_to",
                "cited_by"}
Traversed(edges) == { e \in edges : e.relation \in traversable }

is_claim_ref(ref, edge) == ref[1] = "claim" \/ edge.dst_type = "claim"

InOrder(edges) == FoldSet(LAMBDA e, seq : Append(seq, e), << >>, edges)

(* Mutant: of the edges out of a node, only one is kept.                        *)
adjacency_First(edges, ref) ==
    LET out == InOrder({ e \in Traversed(edges) : e.src = ref })
    IN  IF out = << >> THEN out ELSE << Head(out) >>
adjacency(edges, ref) == InOrder({ e \in Traversed(edges) : e.src = ref })

(* The search of _query_claims_depending_on: breadth first, a node judged by    *)
(* the edge it is first reached by.  What it has come to after an iteration for *)
(* each node, and one more.                                                     *)
search(edges, ref) ==
    LET visit(s, e) ==
          IF e.dst \in s.visited THEN s
          ELSE [queue |-> Append(s.queue, e.dst), visited |-> s.visited \cup {e.dst},
                results |-> s.results \cup (IF is_claim_ref(e.dst, e) THEN {e.dst} ELSE {})]
        expand(s, i) ==
          IF s.queue = << >> THEN s
          ELSE FoldLeft(visit, [s EXCEPT !.queue = Tail(@)],
                        adjacency(edges, Head(s.queue)))
        start == [queue |-> << ref >>, visited |-> {ref}, results |-> {}]
    IN  FoldLeft(expand, start, [i \in 1 .. Cardinality(Nodes(edges)) + 1 |-> i])

claims_depending_on(edges, ref) == search(edges, ref).results

controls_contradicting(edges, ref) ==
    { e.src : e \in { x \in edges : x.relation = "contradicts" /\ x.dst = ref } }
cells_producing(edges, ref) ==
    { e.src : e \in { x \in edges : /\ x.relation = "derived_from" /\ x.dst = ref
                                    /\ x.src[1] = "cell" } }
debt_blocking(edges, ref) ==
    { e.src : e \in { x \in edges : /\ x.relation \in {"fails_on", "confounded_by"}
                                    /\ x.dst = ref /\ x.src[1] = "debt" } }

-----------------------------------------------------------------------------
VARIABLES
    written,    \* how much of History has been written
    pc,         \* of each process: what its rebuild does next
    collected,  \* of each process: the edges its rebuild has collected and not
                \* inserted yet
    edge_file,  \* graph/evidence_edges.jsonl
    summary,    \* graph/graph_summary.json, the set {} when there is none
    rows,       \* the table evidence_edges of workbench.sqlite
    calm,       \* history: how much was written while the rebuilds ran that last
                \* overlapped; {} when a write or a kill came in between
    rebuilds, crashes

vars == << written, pc, collected, edge_file, summary, rows, calm, rebuilds, crashes >>
counts == << rebuilds, crashes >>

Idle(p) == pc[p] = "idle"
AllIdle == \A p \in Procs : Idle(p)

Init ==
    /\ written = Recorded
    /\ pc = [p \in Procs |-> "idle"]
    /\ collected = [p \in Procs |-> {}]
    /\ edge_file = [lines |-> {}, torn |-> FALSE]
    /\ summary = {} /\ rows = {}
    /\ calm = {}
    /\ rebuilds = 0 /\ crashes = 0

(* Another command writes its next record.                                      *)
WriteRecord ==
    /\ written < Len(History)
    /\ written' = written + 1
    /\ calm' = IF AllIdle THEN calm ELSE {}
    /\ UNCHANGED << pc, collected, edge_file, summary, rows, counts >>

Goto(p, label) == pc' = [pc EXCEPT ![p] = label]

(* rebuild: the directories one after another, then the edge file.              *)
Following ==
    [hypotheses |-> "sessions", sessions |-> "runs", runs |-> "claims", claims |-> "open"]

Begin(p) ==
    /\ Idle(p) /\ rebuilds < MaxRebuilds
    /\ Goto(p, "hypotheses")
    /\ collected' = [collected EXCEPT ![p] = {}]
    /\ calm' = IF AllIdle THEN {written} ELSE calm
    /\ rebuilds' = rebuilds + 1
    /\ UNCHANGED << written, edge_file, summary, rows, crashes >>

(* Mutant: a rebuild starts from the lines of the last one.                     *)
Collect_Incremental(p) ==
    /\ pc[p] \in Dirs
    /\ Goto(p, Following[pc[p]])
    /\ collected' = [collected EXCEPT
                        ![p] = @ \cup edge_file.lines \cup EdgesOf(pc[p], written)]
    /\ UNCHANGED << written, edge_file, summary, rows, calm, counts >>
(* The files of one directory are read.                                         *)
Collect(p) ==
    /\ pc[p] \in Dirs
    /\ Goto(p, Following[pc[p]])
    /\ collected' = [collected EXCEPT ![p] = @ \cup EdgesOf(pc[p], written)]
    /\ UNCHANGED << written, edge_file, summary, rows, calm, counts >>

(* _write_jsonl: the file is truncated, and its lines are written from the start *)
(* at the close.  What another rebuild has put there since is overwritten as far *)
(* as these go; where it is longer, its end stays, cut anywhere.                *)
Open(p) ==
    /\ pc[p] = "open"
    /\ edge_file' = [lines |-> {}, torn |-> FALSE]
    /\ Goto(p, "close")
    /\ UNCHANGED << written, collected, summary, rows, calm, counts >>

Covers(lines) ==
    /\ edge_file.lines \subseteq lines
    /\ edge_file.lines = lines => ~edge_file.torn
Overwritten(lines) ==
    IF Covers(lines) THEN {[lines |-> lines, torn |-> FALSE]}
    ELSE { [lines |-> lines \cup rest, torn |-> torn] :
             rest \in {{}, edge_file.lines \ lines}, torn \in BOOLEAN }

Close(p) ==
    /\ pc[p] = "close"
    /\ edge_file' \in Overwritten(collected[p])
    /\ Goto(p, "summary")
    /\ UNCHANGED << written, collected, summary, rows, calm, counts >>

WriteSummary(p) ==
    /\ pc[p] = "summary"
    /\ summary' = {Summary(collected[p])}
    /\ Goto(p, "delete")
    /\ UNCHANGED << written, collected, edge_file, rows, calm, counts >>

(* Mutant: the edges go with the rows.                                          *)
Delete_Edges(p) ==
    /\ pc[p] = "delete"
    /\ rows' = {}
    /\ collected' = [collected EXCEPT ![p] = {}]
    /\ Goto(p, "insert")
    /\ UNCHANGED << written, edge_file, summary, calm, counts >>
(* Every row goes, in a transaction of its own ...                              *)
Delete(p) ==
    /\ pc[p] = "delete"
    /\ rows' = {}
    /\ Goto(p, IF collected[p] = {} THEN "idle" ELSE "insert")
    /\ UNCHANGED << written, collected, edge_file, summary, calm, counts >>

(* ... and the edges come one by one, in the order of their refs.               *)
Insert(p) ==
    /\ pc[p] = "insert"
    /\ LET edge == CHOOSE e \in collected[p] : TRUE
       IN  /\ rows' = rows \cup {edge}
           /\ collected' = [collected EXCEPT ![p] = @ \ {edge}]
           /\ Goto(p, IF collected[p] = {edge} THEN "idle" ELSE "insert")
    /\ UNCHANGED << written, edge_file, summary, calm, counts >>

(* Killed, or an exception: a record that another command is just writing does  *)
(* not parse, the database is locked.                                           *)
Crash(p) ==
    /\ ~Idle(p) /\ crashes < MaxCrashes
    /\ Goto(p, "idle")
    /\ collected' = [collected EXCEPT ![p] = {}]
    /\ calm' = {}
    /\ crashes' = crashes + 1
    /\ UNCHANGED << written, edge_file, summary, rows, rebuilds >>

Rebuild(p) ==
    \/ Collect(p) \/ Open(p) \/ Close(p) \/ WriteSummary(p) \/ Delete(p) \/ Insert(p)

Next == WriteRecord \/ \E p \in Procs : Begin(p) \/ Rebuild(p) \/ Crash(p)

(* Nobody has to start a rebuild, to write a record or to go on with either.    *)
Spec == Init /\ [][Next]_vars

-----------------------------------------------------------------------------
AllEdges == UNION { EdgesAt[n] : n \in 0 .. Len(History) }
Labels == Dirs \cup {"idle", "open", "close", "summary", "delete", "insert"}

(* Every variable holds what a rebuild can put there; one that inserts has      *)
(* edges left, of those it collected.                                           *)
TypeOK ==
    /\ written \in 0 .. Len(History)
    /\ pc \in [Procs -> Labels]
    /\ collected \in [Procs -> SUBSET AllEdges]
    /\ \A p \in Procs : pc[p] = "insert" => collected[p] # {}
    /\ edge_file.lines \subseteq AllEdges /\ edge_file.torn \in BOOLEAN
    /\ rows \subseteq AllEdges
    /\ Cardinality(summary) <= 1
    /\ calm \subseteq 0 .. written /\ Cardinality(calm) <= 1
    /\ rebuilds \in 0 .. MaxRebuilds /\ crashes \in 0 .. MaxCrashes

(* Whatever an earlier rebuild left behind when it was killed, and however many *)
(* rebuilds overlap, once they have ended the edge file, the summary and the    *)
(* table are those of the records, if no record was written and no rebuild was  *)
(* killed in between.                                                           *)
CalmRebuildsAgree ==
    \A n \in calm :
        AllIdle => /\ edge_file = [lines |-> EdgesAt[n], torn |-> FALSE]
                   /\ summary = {Summary(EdgesAt[n])}
                   /\ rows = EdgesAt[n]

(* The search of _query_claims_depending_on ends, with the claims in the        *)
(* transitive closure of the traversable edges, over several hops and however   *)
(* the edges form cycles: no node is expanded twice.                            *)
Reachable(edges, ref) ==
    LET successors(seen, k) == seen \cup { e.dst : e \in { x \in edges : x.src \in seen } }
    IN  FoldLeft(successors, {ref}, [k \in 1 .. Cardinality(Nodes(edges)) |-> k])
ClaimsReachable(edges, ref) ==
    LET reachable == Reachable(edges, ref)
    IN  { e.dst : e \in { x \in edges : x.src \in reachable /\ is_claim_ref(x.dst, x) } }
        \ {ref}
QueryIsClosure ==
    AllIdle => \A ref \in Nodes(edge_file.lines) :
        /\ search(edge_file.lines, ref).queue = << >>
        /\ claims_depending_on(edge_file.lines, ref)
             = ClaimsReachable(Traversed(edge_file.lines), ref)

(* After such a rebuild a claim is found from every unit, bundle and parent of  *)
(* the hypothesis its run tested, and from every object these come from: the    *)
(* first question docs/EVIDENCE_GRAPH.md says the graph answers.                *)
Claims(r) == UNION { claim_ref(card) : card \in r.card }
ClaimsTraced ==
    AllIdle => \A n \in calm :
        \A r \in Records("runs", n), h \in Records("hypotheses", n),
           s \in Records("sessions", n) :
            h.ref = r.source_hypothesis_ref =>
                \A source \in h.units \cup h.example_bundle_ref \cup h.control_bundle_ref
                              \cup h.parents :
                    LET ancestors == UNION { e.parents : e \in { x \in s.namespace_objects :
                                                                  x.object_ref = source } }
                    IN  \A ref \in {source} \cup ancestors :
                            Claims(r) \subseteq claims_depending_on(edge_file.lines, ref)

(* After such a rebuild the debt that blocks a claim is the debt of its runs,   *)
(* and what contradicts a run is what its blocker report says of controls.      *)
DebtFound ==
    AllIdle => \A n \in calm :
            LET runs == Records("runs", n)
            IN  \A r \in runs :
                  /\ \A claim \in Claims(r) :
                       debt_blocking(edge_file.lines, claim)
                         = UNION { { item.debt_ref : item \in other.debt } :
                                     other \in { x \in runs : claim \in Claims(x) } }
                  /\ \A run \in r.run_ref :
                       controls_contradicting(edge_file.lines, run)
                         = { << "control", b >> : b \in
                               { x \in UNION { rep.blockers : rep \in r.blocker_report } :
                                   AboutControls(x) } }
===============================================================================
