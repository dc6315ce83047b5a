---------------------------- MODULE SessionCapture ----------------------------
(* Session capture (session.py, ipython/capture.py, ipython/extension.py): the  *)
(* hooks of an IPython shell record each cell and the bindings of workbench     *)
(* objects it changed, first in files of the session's directory, then in       *)
(* SQLite.  Several shells share the index and events.jsonl.  A hook is a       *)
(* sequence of writes, each durable by itself: the kernel may be killed, or a   *)
(* write may fail, between any two or in the middle of one.  IPython reports an *)
(* exception of a hook and runs on.  Streams, exception and source files, which *)
(* nothing reads back, are left out.                                            *)
EXTENDS SqliteIndex

CONSTANTS
    Shells,         \* IPython processes
    SessionRefs,    \* session refs, numbers in the order of their directories
    NameOrder,      \* the variable names, in the order of user_ns
    Objs,           \* Python objects
    WbRef, Parents, \* of each object: its wb_ref and the refs of its parents
    MaxContent, MaxCells, MaxDepth, MaxFailures, MaxCrashes    \* bounds

Names == Range(NameOrder)
Refs == Range(WbRef)

ASSUME SessionRefsAssumption == SessionRefs \subseteq Nat
ASSUME NamesAssumption == NameOrder \in Seq(Names) /\ IsInjective(NameOrder)
ASSUME ObjsAssumption ==
    /\ DOMAIN WbRef = Objs /\ DOMAIN Parents = Objs
    /\ \A obj \in Objs : IsFiniteSet(Parents[obj])
ASSUME CaptureBounds ==
    /\ MaxContent \in Nat /\ MaxCells \in Nat /\ MaxDepth \in Nat
    /\ MaxFailures \in Nat /\ MaxCrashes \in Nat
    /\ IsFiniteSet(SessionRefs)

VARIABLES
    user_ns,    \* of each shell: the names bound to workbench objects
    content,    \* of each shell: what its objects hold, a version number
    capture,    \* of each shell: the capture and its session
    depth,      \* of each shell: how many cells are executing, one inside another
    todo,       \* of each shell: what the running hook has still to write
    files,      \* what was written whole to the session directories and events.jsonl
    torn,       \* the files that hold half a record
    index,      \* workbench.sqlite
    failures, crashes

vars == << user_ns, content, capture, depth, todo, files, torn, index, failures, crashes >>
disk == << files, torn, index >>
counts == << failures, crashes >>

(* A capture without hooks; a session whose hooks are installed, its cell       *)
(* counter, the capture's current cell if any, and, for the properties, the     *)
(* bindings it started from.                                                    *)
NoCapture == [session |-> {}]
Capture(session, counter, cell, base) ==
    [session |-> {session}, counter |-> counter, cell |-> cell, base |-> base]
Ref(p) == CHOOSE s \in capture[p].session : TRUE

-----------------------------------------------------------------------------
(* snapshot_namespace                                                           *)
snapshot_namespace(p) ==
    [name \in DOMAIN user_ns[p] |->
        [obj |-> user_ns[p][name], content |-> content[p][user_ns[p][name]]]]

Value(v) == [object_ref |-> WbRef[v.obj], content |-> v.content]
Values(ns) == [name \in DOMAIN ns |-> Value(ns[name])]

(* Mutant: a name rebound to an object that already had one is no event.        *)
BindingEvent_SkipAlias(before, name, value) ==
    IF /\ name \in DOMAIN before
       /\ Value(before[name]).object_ref # WbRef[value.obj]
       /\ \E other \in DOMAIN before : WbRef[before[other].obj] = WbRef[value.obj]
    THEN "none"
    ELSE IF name \notin DOMAIN before \/ WbRef[before[name].obj] # WbRef[value.obj]
         THEN IF \E other \in DOMAIN before : WbRef[before[other].obj] = WbRef[value.obj]
              THEN "alias_bound" ELSE "object_registered"
    ELSE IF Value(before[name]) # Value(value) THEN "object_mutated" ELSE "none"

(* register_workbench_changes: what a name's value after the cell is to the     *)
(* bindings before it.                                                          *)
BindingEvent(before, name, value) ==
    LET bound_before == { WbRef[before[other].obj] : other \in DOMAIN before }
    IN  IF name \notin DOMAIN before \/ WbRef[before[name].obj] # WbRef[value.obj]
        THEN IF WbRef[value.obj] \in bound_before THEN "alias_bound" ELSE "object_registered"
        ELSE IF Value(before[name]) # Value(value) THEN "object_mutated" ELSE "none"

Line(p, event, name, obj, cell) ==
    [event |-> event, cell_ref |-> cell, variable_name |-> name, object_ref |-> WbRef[obj],
     content |-> content[p][obj], parents |-> Parents[obj]]

(* The names a cell has bound or whose object it changed, then those it deleted. *)
BoundLines(p, cell) ==
    LET after == snapshot_namespace(p)
        line(name) ==
          LET event == BindingEvent(cell.namespace_before, name, after[name])
          IN  IF event = "none" THEN << >>
              ELSE << Line(p, event, name, after[name].obj, cell.ref) >>
    IN  [i \in DOMAIN NameOrder |->
            IF NameOrder[i] \in DOMAIN after THEN line(NameOrder[i]) ELSE << >>]
DeletedLines(p, cell) ==
    LET before == cell.namespace_before
    IN  [i \in DOMAIN NameOrder |->
            IF NameOrder[i] \in DOMAIN before \ DOMAIN user_ns[p]
            THEN << Line(p, "alias_deleted", NameOrder[i], before[NameOrder[i]].obj,
                         cell.ref) >>
            ELSE << >>]
Changes(p) ==
    LET cell == CHOOSE c \in capture[p].cell : TRUE
    IN  FlattenSeq(BoundLines(p, cell)) \o FlattenSeq(DeletedLines(p, cell))

(* What is to be written: an insert, a line of a log or an event.               *)
Insert(table, ref, payload) ==
    [write |-> "insert", table |-> table, ref |-> ref, payload |-> payload]
Event(session, type) == << [write |-> "log_event", event |-> << type, session >>],
                           [write |-> "insert_event", event |-> << type, session >>] >>

EdgeInserts(session, line) ==
    LET inserts == [edge \in LineageEdges(line) |->
                      Insert("lineage_edges", edge,
                             [session_ref |-> session, cell_ref |-> line.cell_ref])]
        parents == SetToSeq(ParentEdges(line))
    IN  << inserts[CellEdge(line)] >> \o [i \in DOMAIN parents |-> inserts[parents[i]]]

IndexInserts(session, line) ==
    CASE line.event = "object_registered" ->
           << Insert("objects", line.object_ref, [content |-> line.content]) >>
           \o EdgeInserts(session, line)
      [] line.event = "object_mutated" ->
           << Insert("object_versions", << line.object_ref, line.content >>,
                     [content |-> line.content]) >>
           \o EdgeInserts(session, line)
      [] OTHER -> << >>

(* Mutant: the rows are inserted before the line is logged.                     *)
register_object_event_RowsFirst(session, line) ==
    IndexInserts(session, line) \o << [write |-> "log_line", line |-> line] >>
    \o Event(session, line.event)
register_object_event(session, line) ==
    << [write |-> "log_line", line |-> line] >> \o IndexInserts(session, line)
    \o Event(session, line.event)

(* Mutant: the cell is committed before its changes are registered.             *)
PostRunWrites_CommitFirst(p) ==
    LET changes == Changes(p)
    IN  << [write |-> "log_cell"], [write |-> "insert_cell"] >>
        \o FlattenSeq([i \in DOMAIN changes |-> register_object_event(Ref(p), changes[i])])
        \o Event(Ref(p), "cell_executed")

(* post_run_cell: the changes, then commit_cell.                                *)
PostRunWrites(p) ==
    LET changes == Changes(p)
    IN  FlattenSeq([i \in DOMAIN changes |-> register_object_event(Ref(p), changes[i])])
        \o << [write |-> "log_cell"], [write |-> "insert_cell"] >>
        \o Event(Ref(p), "cell_executed")

SessionWrites(session, ended) ==
    << [write |-> "session_json", session |-> session, doc |-> [ended |-> ended]],
       Insert("sessions", session, [ended |-> ended]) >>

-----------------------------------------------------------------------------
Init ==
    /\ user_ns = [p \in Shells |-> << >>]
    /\ content = [p \in Shells |-> [o \in Objs |-> 0]]
    /\ capture = [p \in Shells |-> NoCapture]
    /\ depth = [p \in Shells |-> 0]
    /\ todo = [p \in Shells |-> << >>]
    /\ files = [session_json |-> [s \in SessionRefs |-> {}],
                cells_jsonl |-> [s \in SessionRefs |-> << >>],
                namespace_jsonl |-> [s \in SessionRefs |-> << >>],
                events_jsonl |-> EmptyBag]
    /\ torn = {} /\ index = EmptyIndex
    /\ failures = 0 /\ crashes = 0

(* session.json is emptied before it is written again: while it is torn it      *)
(* holds no document. A torn log ends in half a line, which runs into the next  *)
(* one.                                                                         *)
SessionJson(s) == << "session_json", s >>
Started == { s \in SessionRefs : files.session_json[s] # {} }
Emptied == { s \in SessionRefs : SessionJson(s) \in torn }
session_json(s) == IF s \in Emptied THEN {} ELSE files.session_json[s]
Starting == UNION { capture[p].session : p \in Shells }
Hooked(p) == capture[p].session # {} /\ todo[p] = << >>

(* start_workbench_ipython, also to resume: always a session of its own, in a   *)
(* directory of its own.                                                        *)
Start(p) ==
    /\ capture[p] = NoCapture /\ todo[p] = << >> /\ depth[p] = 0
    /\ \E s \in SessionRefs \ (Started \cup Emptied \cup Starting) :
        /\ capture' = [capture EXCEPT ![p] =
                          Capture(s, 0, {}, Values(snapshot_namespace(p)))]
        /\ todo' = [todo EXCEPT ![p] = SessionWrites(s, FALSE) \o Event(s, "session_started")]
    /\ UNCHANGED << user_ns, content, depth, disk, counts >>

(* unload_ipython_extension: the hooks go first.                                *)
Close(p) ==
    /\ Hooked(p) /\ depth[p] = 0
    /\ todo' = [todo EXCEPT ![p] = SessionWrites(Ref(p), TRUE)]
    /\ capture' = [capture EXCEPT ![p] = NoCapture]
    /\ UNCHANGED << user_ns, content, depth, disk, counts >>

NewCell(p) ==
    [ref |-> capture[p].counter + 1, namespace_before |-> snapshot_namespace(p),
     created_object_refs |-> {}, mutated_object_refs |-> {}]

(* The cells of all sessions, for the bound.                                    *)
CellsRun ==
    Cardinality({ c \in SessionRefs \X (1 .. MaxCells) :
                    IF c[1] \in Starting
                    THEN \E p \in Shells : c[1] \in capture[p].session
                                           /\ c[2] <= capture[p].counter
                    ELSE c[2] <= Len(files.cells_jsonl[c[1]]) })

(* pre_run_cell, of a cell the user runs or one that runs inside it.  When the  *)
(* source cannot be written, the capture keeps the cell it had.                 *)
RunCell(p) ==
    /\ Hooked(p) /\ depth[p] < MaxDepth /\ CellsRun < MaxCells
    /\ depth' = [depth EXCEPT ![p] = @ + 1]
    /\ \/ /\ capture' = [capture EXCEPT ![p].counter = @ + 1, ![p].cell = {NewCell(p)}]
          /\ UNCHANGED failures
       \/ /\ failures < MaxFailures
          /\ capture' = [capture EXCEPT ![p].counter = @ + 1]
          /\ failures' = failures + 1
    /\ UNCHANGED << user_ns, content, todo, disk, crashes >>

(* What the code of a cell does to the namespace and to workbench objects.      *)
Bind(p, name, obj) ==
    /\ depth[p] > 0 /\ todo[p] = << >>
    /\ user_ns' = [user_ns EXCEPT
                      ![p] = [n \in DOMAIN @ \cup {name} |-> IF n = name THEN obj ELSE @[n]]]
    /\ UNCHANGED << content, capture, depth, todo, disk, counts >>

Unbind(p, name) ==
    /\ depth[p] > 0 /\ todo[p] = << >> /\ name \in DOMAIN user_ns[p]
    /\ user_ns' = [user_ns EXCEPT ![p] = [n \in DOMAIN @ \ {name} |-> @[n]]]
    /\ UNCHANGED << content, capture, depth, todo, disk, counts >>

Mutate(p, obj) ==
    /\ depth[p] > 0 /\ todo[p] = << >> /\ content[p][obj] < MaxContent
    /\ content' = [content EXCEPT ![p][obj] = @ + 1]
    /\ UNCHANGED << user_ns, capture, depth, todo, disk, counts >>

(* post_run_cell; without a current cell it does nothing.                       *)
PostRunCell(p) ==
    /\ Hooked(p) /\ depth[p] > 0
    /\ depth' = [depth EXCEPT ![p] = @ - 1]
    /\ todo' = [todo EXCEPT ![p] = IF capture[p].cell = {} THEN << >> ELSE PostRunWrites(p)]
    /\ UNCHANGED << user_ns, content, capture, disk, counts >>

-----------------------------------------------------------------------------
(* The writes of a hook.                                                        *)
Next1(p) == todo' = [todo EXCEPT ![p] = Tail(@)]
Due(p, write) == todo[p] # << >> /\ Head(todo[p]).write = write
Current(p) == CHOOSE c \in capture[p].cell : TRUE
CellRecord(p) ==
    [cell_ref |-> Current(p).ref, session_ref |-> Ref(p),
     created_object_refs |-> Current(p).created_object_refs,
     mutated_object_refs |-> Current(p).mutated_object_refs]

(* write_session_json is a write_text, which empties the file, then writes.     *)
OpenSessionJson(p) ==
    /\ Due(p, "session_json") /\ Head(todo[p]).session \notin Emptied
    /\ torn' = torn \cup {SessionJson(Head(todo[p]).session)}
    /\ UNCHANGED << user_ns, content, capture, depth, todo, files, index, counts >>

WriteSessionJson(p) ==
    /\ Due(p, "session_json") /\ Head(todo[p]).session \in Emptied
    /\ files' = [files EXCEPT !.session_json[Head(todo[p]).session] = {Head(todo[p]).doc}]
    /\ torn' = torn \ {SessionJson(Head(todo[p]).session)}
    /\ Next1(p)
    /\ UNCHANGED << user_ns, content, capture, depth, index, counts >>

InsertRow(p) ==
    /\ Due(p, "insert")
    /\ LET w == Head(todo[p])
       IN  index' = insert_payload(index, w.table, w.ref, w.payload)
    /\ Next1(p)
    /\ UNCHANGED << user_ns, content, capture, depth, files, torn, counts >>

LogEvent(p) ==
    /\ Due(p, "log_event")
    /\ files' = [files EXCEPT !.events_jsonl = BagAdd(@, Head(todo[p]).event)]
    /\ Next1(p)
    /\ UNCHANGED << user_ns, content, capture, depth, torn, index, counts >>

(* Mutant: the cell is dropped with its first event.                            *)
InsertEvent_DropCell(p) ==
    /\ Due(p, "insert_event")
    /\ index' = insert_event(index, Head(todo[p]).event)
    /\ Next1(p)
    /\ capture' = [capture EXCEPT ![p].cell = {}]
    /\ UNCHANGED << user_ns, content, depth, files, torn, counts >>

(* The last write of a cell's hook leaves the capture without a cell.           *)
InsertEvent(p) ==
    /\ Due(p, "insert_event")
    /\ index' = insert_event(index, Head(todo[p]).event)
    /\ Next1(p)
    /\ capture' = IF Len(todo[p]) = 1 THEN [capture EXCEPT ![p].cell = {}] ELSE capture
    /\ UNCHANGED << user_ns, content, depth, files, torn, counts >>

(* A line of namespace_objects.jsonl; the cell keeps the refs it registers.     *)
LogLine(p) ==
    /\ Due(p, "log_line")
    /\ LET line == Head(todo[p]).line
           cell == [Current(p) EXCEPT
                      !.created_object_refs =
                          @ \cup (IF line.event = "object_registered" THEN {line.object_ref} ELSE {}),
                      !.mutated_object_refs =
                          @ \cup (IF line.event = "object_mutated" THEN {line.object_ref} ELSE {})]
       IN  /\ files' = [files EXCEPT !.namespace_jsonl[Ref(p)] = Append(@, line)]
           /\ capture' = [capture EXCEPT ![p].cell = {cell}]
    /\ Next1(p)
    /\ UNCHANGED << user_ns, content, depth, torn, index, counts >>

LogCell(p) ==
    /\ Due(p, "log_cell")
    /\ files' = [files EXCEPT !.cells_jsonl[Ref(p)] = Append(@, CellRecord(p))]
    /\ Next1(p)
    /\ UNCHANGED << user_ns, content, capture, depth, torn, index, counts >>

InsertCell(p) ==
    /\ Due(p, "insert_cell")
    /\ index' = insert_payload(index, "cells", Current(p).ref, CellRecord(p))
    /\ Next1(p)
    /\ UNCHANGED << user_ns, content, capture, depth, files, torn, counts >>

(* A line that is cut short leaves its log torn.                                *)
HalfLine(p) ==
    CASE Due(p, "log_line") -> {<< "namespace_jsonl", Ref(p) >>}
      [] Due(p, "log_cell") -> {<< "cells_jsonl", Ref(p) >>}
      [] Due(p, "log_event") -> {<< "events_jsonl" >>}
      [] OTHER -> {}
CutShort(p) == torn' = torn \/ torn' = torn \cup HalfLine(p)

(* A write raises (a full disk, a locked database): the rest of the hook is     *)
(* lost.  A capture that could not start is not installed; one whose cell hook  *)
(* failed keeps its cell.                                                       *)
Fail(p) ==
    /\ todo[p] # << >> /\ failures < MaxFailures
    /\ todo' = [todo EXCEPT ![p] = << >>]
    /\ capture' = IF capture[p].session # {} /\ capture[p].counter = 0
                  THEN [capture EXCEPT ![p] = NoCapture] ELSE capture
    /\ failures' = failures + 1
    /\ CutShort(p)
    /\ UNCHANGED << user_ns, content, depth, files, index, crashes >>

(* The kernel exits after its session was closed, or is killed.                 *)
Gone(p) ==
    /\ user_ns' = [user_ns EXCEPT ![p] = << >>]
    /\ content' = [content EXCEPT ![p] = [o \in Objs |-> 0]]
    /\ capture' = [capture EXCEPT ![p] = NoCapture]
    /\ depth' = [depth EXCEPT ![p] = 0]
    /\ todo' = [todo EXCEPT ![p] = << >>]
    /\ UNCHANGED << files, index >>

Exit(p) ==
    /\ capture[p] = NoCapture /\ todo[p] = << >> /\ depth[p] = 0
    /\ Gone(p)
    /\ UNCHANGED << torn, counts >>

Crash(p) ==
    /\ capture[p] # NoCapture \/ todo[p] # << >>
    /\ crashes < MaxCrashes
    /\ Gone(p) /\ CutShort(p)
    /\ crashes' = crashes + 1
    /\ UNCHANGED failures

Step(p) ==
    \/ Start(p) \/ Close(p) \/ RunCell(p) \/ PostRunCell(p)
    \/ \E name \in Names, obj \in Objs : Bind(p, name, obj)
    \/ \E name \in Names : Unbind(p, name)
    \/ \E obj \in Objs : Mutate(p, obj)
    \/ WriteSessionJson(p) \/ InsertRow(p) \/ LogEvent(p) \/ InsertEvent(p)
    \/ LogLine(p) \/ LogCell(p) \/ InsertCell(p)
    \/ Fail(p) \/ Exit(p) \/ Crash(p)

Next == \E p \in Shells : OpenSessionJson(p) \/ Step(p)

Spec == Init /\ [][Next]_vars

-----------------------------------------------------------------------------
Lines == [event : {"object_registered", "alias_bound", "object_mutated", "alias_deleted"},
          cell_ref : 1 .. MaxCells, variable_name : Names, object_ref : Refs,
          content : 0 .. MaxContent, parents : Range(Parents)]
Cells == [cell_ref : 1 .. MaxCells, session_ref : SessionRefs,
          created_object_refs : SUBSET Refs, mutated_object_refs : SUBSET Refs]
Bindings == UNION { [bound -> Objs] : bound \in SUBSET Names }
TornFiles ==
    ({"session_json", "cells_jsonl", "namespace_jsonl"} \X SessionRefs) \cup {<< "events_jsonl" >>}

(* Every variable holds what the hooks can put there, and a hook has writes left *)
(* only for the session and the cell it has.                                    *)
TypeOK ==
    /\ user_ns \in [Shells -> Bindings]
    /\ content \in [Shells -> [Objs -> 0 .. MaxContent]]
    /\ depth \in [Shells -> 0 .. MaxDepth]
    /\ \A p \in Shells : capture[p] # NoCapture =>
        /\ capture[p].session \subseteq SessionRefs /\ Cardinality(capture[p].session) = 1
        /\ capture[p].counter \in 0 .. MaxCells
        /\ Cardinality(capture[p].cell) <= 1
        /\ \A c \in capture[p].cell : c.ref \in 1 .. capture[p].counter
        /\ (\E i \in DOMAIN todo[p] : todo[p][i].write \in {"log_line", "log_cell", "insert_cell"})
            => capture[p].cell # {}
    /\ \A s \in SessionRefs :
        /\ Cardinality(files.session_json[s]) <= 1
        /\ files.cells_jsonl[s] \in Seq(Cells)
        /\ files.namespace_jsonl[s] \in Seq(Lines)
    /\ IsABag(files.events_jsonl) /\ IsABag(index.events)
    /\ torn \subseteq TornFiles
    /\ failures \in 0 .. MaxFailures /\ crashes \in 0 .. MaxCrashes

LinesOf(s) == Range(files.namespace_jsonl[s])
CellsOf(s) == Range(files.cells_jsonl[s])

(* Whatever is killed or fails, the index is never ahead of the files: each row *)
(* has the line, event or document it indexes. Only the document of a session   *)
(* whose row tells no end may be gone: its end emptied session.json and was cut *)
(* short.                                                                       *)
IndexNotAhead ==
    /\ \A row \in index.sessions :
         \/ \E doc \in session_json(row.ref) : row.payload.ended => doc.ended
         \/ row.ref \in Emptied /\ ~row.payload.ended
    /\ \A row \in index.cells : \E s \in SessionRefs : row.payload \in CellsOf(s)
    /\ \A row \in index.objects : \E s \in SessionRefs : \E line \in LinesOf(s) :
         line.object_ref = row.ref /\ line.content = row.payload.content
    /\ \A row \in index.object_versions : \E s \in SessionRefs : \E line \in LinesOf(s) :
         << line.object_ref, line.content >> = row.ref
    /\ \A row \in index.lineage_edges : \E line \in LinesOf(row.payload.session_ref) :
         row.ref \in LineageEdges(line) /\ line.cell_ref = row.payload.cell_ref
    /\ index.events \sqsubseteq files.events_jsonl

(* A cell line is the commit of its cell: the refs it lists as created or       *)
(* mutated are in the namespace log of its session, and, unless a hook failed   *)
(* (its cell is committed again with what comes later), they are all the log    *)
(* has for the cell.                                                            *)
RefsIn(s, cell, event) ==
    { line.object_ref : line \in { l \in LinesOf(s) : l.cell_ref = cell /\ l.event = event } }
CommittedCellsComplete ==
    \A s \in SessionRefs : \A cell \in CellsOf(s) :
        LET created == RefsIn(s, cell.cell_ref, "object_registered")
            mutated == RefsIn(s, cell.cell_ref, "object_mutated")
        IN  /\ cell.session_ref = s
            /\ cell.created_object_refs \subseteq created
            /\ cell.mutated_object_refs \subseteq mutated
            /\ failures = 0 =>
                 cell.created_object_refs = created /\ cell.mutated_object_refs = mutated

(* Between cells, the namespace log of a session, replayed over the bindings the *)
(* session started from, is the namespace: which names are bound to which refs, *)
(* and what the objects hold.  (Unless a hook failed.)  The last line of a name *)
(* tells what became of it.                                                     *)
LinesFor(log, name) == { i \in DOMAIN log : log[i].variable_name = name }
ToldBy(line) ==
    IF line.event = "alias_deleted" THEN {}
    ELSE {[object_ref |-> line.object_ref, content |-> line.content]}
Told(log, base, name) ==
    IF LinesFor(log, name) # {} THEN ToldBy(log[Max(LinesFor(log, name))])
    ELSE IF name \in DOMAIN base THEN {base[name]} ELSE {}
Replayed(p) ==
    LET told(name) == Told(files.namespace_jsonl[Ref(p)], capture[p].base, name)
    IN  [name \in { n \in Names : told(n) # {} } |-> CHOOSE value \in told(name) : TRUE]
LogReplaysNamespace ==
    \A p \in Shells : failures = 0 /\ Hooked(p) /\ depth[p] = 0 =>
        Replayed(p) = Values(snapshot_namespace(p))

(* A rebuild (sqlite_index.py) raises at the first half record, its output      *)
(* already unlinked. When it can read the files, whatever was killed and        *)
(* whoever else writes, it loses no session, cell, object or event of the live  *)
(* index; and after one session that nothing cut short, it can, and it finds    *)
(* the same rows of them, and no edge that the live index lacks.                *)
Rebuilt == rebuild_sqlite_index(files, Started)
Quiet == \A p \in Shells : todo[p] = << >>
Readable == torn = {}
Covered ==
    /\ \A table \in {"sessions", "cells", "objects"} :
         RefsOf(index[table]) \subseteq RefsOf(Rebuilt[table])
    /\ index.events \sqsubseteq Rebuilt.events
RebuildCoversIndex == Readable => Covered
RebuildRestores ==
    Quiet /\ failures = 0 /\ crashes = 0 /\ Cardinality(Started) = 1 =>
        /\ Readable
        /\ \A table \in {"sessions", "cells", "objects", "events"} : Rebuilt[table] = index[table]
        /\ RefsOf(Rebuilt.lineage_edges) \subseteq RefsOf(index.lineage_edges)

-----------------------------------------------------------------------------
(* What the documentation says and the code does not keep.                      *)

(* "SQLite is used as a rebuildable operational index": what is indexed can be  *)
(* rebuilt.                                                                     *)
RebuildIsComplete ==
    Quiet /\ Readable =>
        \A table \in {"objects", "object_versions", "lineage_edges"} :
            RefsOf(index[table]) \subseteq RefsOf(Rebuilt[table])
===============================================================================
