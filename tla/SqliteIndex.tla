----------------------------- MODULE SqliteIndex -----------------------------
(* The tables of workbench.sqlite that session capture writes, and the rebuild  *)
(* of them from the files (sqlite_index.py).  A table is a set of rows          *)
(* [ref, payload], its primary key ref; the autoincremented table events is a   *)
(* bag, whose order nobody reads.  The files are a record                       *)
(*   session_json, cells_jsonl, namespace_jsonl   of each session directory     *)
(*   events_jsonl                                 a bag of lines                *)
EXTENDS Integers, SequencesExt, BagsExt

EmptyIndex ==
    [sessions |-> {}, cells |-> {}, objects |-> {}, object_versions |-> {},
     lineage_edges |-> {}, events |-> EmptyBag]

Row(ref, payload) == [ref |-> ref, payload |-> payload]
RefsOf(rows) == { row.ref : row \in rows }

(* Mutant: rows are never replaced.                                             *)
insert_payload_Ignore(index, table, ref, payload) ==
    [index EXCEPT ![table] =
        IF \E row \in @ : row.ref = ref THEN @ ELSE @ \cup {Row(ref, payload)}]
(* insert or replace, a transaction of its own                                  *)
insert_payload(index, table, ref, payload) ==
    [index EXCEPT ![table] =
        { row \in @ : row.ref # ref } \cup {Row(ref, payload)}]

insert_event(index, event) == [index EXCEPT !.events = BagAdd(@, event)]

(* An edge is keyed by its ends and relation; session and cell are its payload. *)
EdgeRef(relation, src, dst) == << relation, src, dst >>

CellEdge(line) ==
    EdgeRef(IF line.event = "object_mutated" THEN "mutated_in_cell" ELSE "created_in_cell",
            line.cell_ref, line.object_ref)
ParentEdges(line) == { EdgeRef("parent", parent, line.object_ref) : parent \in line.parents }
LineageEdges(line) == {CellEdge(line)} \cup ParentEdges(line)

-----------------------------------------------------------------------------
(* rebuild_sqlite_index, of the records of sessions, numbers in the order of    *)
(* their directories.  It reads the logs from their first to their last line;   *)
(* a place is a pair << session, line >>.                                       *)
Places(log, sessions) == UNION { {s} \X DOMAIN log[s] : s \in sessions }
Before(a, b) == a[1] < b[1] \/ (a[1] = b[1] /\ a[2] < b[2])

(* insert_payload of the rows of each place: of those of a ref, the last stays. *)
inserted(rows) ==
    UNION { { row \in rows[at] : \A later \in DOMAIN rows : Before(at, later) =>
                                   \A other \in rows[later] : other.ref # row.ref } :
              at \in DOMAIN rows }

session_rows(files, sessions) ==
    UNION { { Row(s, doc) : doc \in files.session_json[s] } : s \in sessions }

cell_rows(files, sessions) ==
    [at \in Places(files.cells_jsonl, sessions) |->
        LET cell == files.cells_jsonl[at[1]][at[2]] IN {Row(cell.cell_ref, cell)}]

(* The lines of the namespace log that the rebuild does not skip.               *)
Registered(files, at) ==
    { line \in {files.namespace_jsonl[at[1]][at[2]]} : line.event = "object_registered" }

(* Mutant: the namespace log of a session is not read.                          *)
object_rows_None(files, sessions) ==
    [at \in Places(files.namespace_jsonl, sessions) |-> {}]
object_rows(files, sessions) ==
    [at \in Places(files.namespace_jsonl, sessions) |->
        { Row(line.object_ref, [content |-> line.content]) : line \in Registered(files, at) }]

(* _insert_lineage_edges_from_event                                             *)
edge_rows(files, sessions) ==
    [at \in Places(files.namespace_jsonl, sessions) |->
        UNION { { Row(edge, [session_ref |-> at[1], cell_ref |-> line.cell_ref]) :
                    edge \in LineageEdges(line) } : line \in Registered(files, at) }]

rebuild_sqlite_index(files, sessions) ==
    [sessions |-> session_rows(files, sessions),
     cells |-> inserted(cell_rows(files, sessions)),
     objects |-> inserted(object_rows(files, sessions)),
     object_versions |-> {},
     lineage_edges |-> inserted(edge_rows(files, sessions)),
     events |-> files.events_jsonl]
==============================================================================
