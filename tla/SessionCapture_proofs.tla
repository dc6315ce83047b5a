------------------------- MODULE SessionCapture_proofs -------------------------
(* Proofs about SessionCapture, for every set of shells, sessions, names and    *)
(* objects and every bound.                                                     *)
EXTENDS SessionCapture, SequenceFacts

USE SessionRefsAssumption, NamesAssumption, ObjsAssumption, CaptureBounds

-----------------------------------------------------------------------------
(* What the variables hold.                                                     *)
ValuesOf == [obj : Objs, content : 0 .. MaxContent]
Snapshots == UNION { [bound -> ValuesOf] : bound \in SUBSET Names }
Bases == UNION { [bound -> [object_ref : Refs, content : 0 .. MaxContent]] :
                   bound \in SUBSET Names }
CellStates ==
    [ref : 1 .. MaxCells, namespace_before : Snapshots,
     created_object_refs : SUBSET Refs, mutated_object_refs : SUBSET Refs]
Captures ==
    [session : {{s} : s \in SessionRefs}, counter : 0 .. MaxCells,
     cell : {{}} \cup {{c} : c \in CellStates}, base : Bases]
Docs == [ended : BOOLEAN]
EventTypes == {"session_started", "cell_executed", "object_registered", "alias_bound",
               "object_mutated", "alias_deleted"}
Events == EventTypes \X SessionRefs
EventBags == UNION { [E -> Nat \ {0}] : E \in SUBSET Events }
FilesSet ==
    [session_json : [SessionRefs -> {{}} \cup {{d} : d \in Docs}],
     cells_jsonl : [SessionRefs -> Seq(Cells)],
     namespace_jsonl : [SessionRefs -> Seq(Lines)],
     events_jsonl : EventBags]

(* The rows of the tables, as sets of rows.                                     *)
EdgeRefs == UNION { LineageEdges(line) : line \in Lines }
Contents == [content : 0 .. MaxContent]
SessionRows == [ref : SessionRefs, payload : Docs]
CellRows == [ref : 1 .. MaxCells, payload : Cells]
ObjectRows == [ref : Refs, payload : Contents]
VersionRows == [ref : Refs \X (0 .. MaxContent), payload : Contents]
EdgeRows == [ref : EdgeRefs, payload : [session_ref : SessionRefs, cell_ref : 1 .. MaxCells]]
Indexes ==
    [sessions : SUBSET SessionRows, cells : SUBSET CellRows, objects : SUBSET ObjectRows,
     object_versions : SUBSET VersionRows, lineage_edges : SUBSET EdgeRows, events : EventBags]

(* The writes of a hook.                                                        *)
RowWrite(table, rows) == { Insert(table, row.ref, row.payload) : row \in rows }
DocWrites == [write : {"session_json"}, session : SessionRefs, doc : Docs]
LineWrites == [write : {"log_line"}, line : Lines]
EventWrites == [write : {"log_event", "insert_event"}, event : Events]
CellWrites == [write : {"log_cell", "insert_cell"}]
LineRowWrites ==
    RowWrite("objects", ObjectRows) \cup RowWrite("object_versions", VersionRows)
    \cup RowWrite("lineage_edges", EdgeRows)
Writes ==
    DocWrites \cup RowWrite("sessions", SessionRows) \cup LineWrites \cup LineRowWrites
    \cup EventWrites \cup CellWrites

LineWrite(line) == [write |-> "log_line", line |-> line]
EventLog(e) == [write |-> "log_event", event |-> e]
EventRow(e) == [write |-> "insert_event", event |-> e]

Typed ==
    /\ user_ns \in [Shells -> Bindings]
    /\ content \in [Shells -> [Objs -> 0 .. MaxContent]]
    /\ capture \in [Shells -> Captures \cup {NoCapture}]
    /\ depth \in [Shells -> 0 .. MaxDepth]
    /\ todo \in [Shells -> Seq(Writes)]
    /\ files \in FilesSet /\ index \in Indexes
    /\ failures \in 0 .. MaxFailures /\ crashes \in 0 .. MaxCrashes

(* A row that the line it is written for speaks of.                             *)
RowOf(w, s, line) ==
    /\ w.write = "insert"
    /\ \/ /\ w.table = "objects" /\ line.event = "object_registered"
          /\ w.ref = line.object_ref /\ w.payload = [content |-> line.content]
       \/ /\ w.table = "object_versions" /\ line.event = "object_mutated"
          /\ w.ref = << line.object_ref, line.content >>
          /\ w.payload = [content |-> line.content]
       \/ /\ w.table = "lineage_edges" /\ line.event \in {"object_registered", "object_mutated"}
          /\ w.ref \in LineageEdges(line)
          /\ w.payload = [session_ref |-> s, cell_ref |-> line.cell_ref]

(* The writes that register lines of a cell: each row after a line it is of,    *)
(* each event in the index right after the same event in the file.              *)
RowsOf(s, line) == { w \in LineRowWrites : RowOf(w, s, line) }
RegisterWrites == LineWrites \cup LineRowWrites \cup EventWrites
Registering(L, s, r) ==
    \A j \in 1 .. Len(L) :
        /\ L[j].write = "log_line" => L[j].line.cell_ref = r
        /\ L[j].write = "insert" =>
             \E i \in 1 .. j - 1 : L[i].write = "log_line" /\ RowOf(L[j], s, L[i].line)
        /\ L[j].write \in {"log_event", "insert_event"} => L[j].event[2] = s
        /\ L[j].write = "insert_event" => j > 1 /\ L[j - 1] = EventLog(L[j].event)
Registers(s, r) == { L \in Seq(RegisterWrites) : Registering(L, s, r) }

(* All but the half records: what emptying a session.json leaves as it was.     *)
others == << user_ns, content, capture, depth, todo, files, index, failures, crashes >>
(* So it is no step for the invariants that do not speak of half records.       *)
LEMMA NextSteps ==
    ASSUME [Next]_vars
    PROVE  (\E p \in Shells : Step(p)) \/ UNCHANGED others
BY DEF Next, OpenSessionJson, vars, others, counts

-----------------------------------------------------------------------------
(* What a hook has to write when it starts.                                     *)
LEMMA EventWritesTyped ==
    ASSUME NEW s \in SessionRefs, NEW type \in EventTypes
    PROVE  /\ << type, s >> \in Events
           /\ Event(s, type) \in Seq(Writes) /\ Len(Event(s, type)) = 2
           /\ Event(s, type)[1] = EventLog(<< type, s >>)
           /\ Event(s, type)[2] = EventRow(<< type, s >>)
<1>1. << type, s >> \in Events
  BY DEF Events
<1>2. EventLog(<< type, s >>) \in Writes /\ EventRow(<< type, s >>) \in Writes
  BY <1>1 DEF EventLog, EventRow, Writes, EventWrites
<1>3. Event(s, type) = << EventLog(<< type, s >>), EventRow(<< type, s >>) >>
  BY DEF Event, EventLog, EventRow
<1> QED
  BY <1>1, <1>2, <1>3

(* The document of a session, then its row.                                     *)
LEMMA SessionWritesTyped ==
    ASSUME NEW s \in SessionRefs, NEW ended \in BOOLEAN
    PROVE  LET w == SessionWrites(s, ended)
           IN  /\ w \in Seq(Writes) /\ Len(w) = 2
               /\ w[1] = [write |-> "session_json", session |-> s, doc |-> [ended |-> ended]]
               /\ w[2] = Insert("sessions", s, [ended |-> ended])
<1> DEFINE d == [ended |-> ended]
           a == [write |-> "session_json", session |-> s, doc |-> d]
           b == Insert("sessions", s, d)
<1>1. d \in Docs
  BY DEF Docs
<1>2. a \in Writes
  BY <1>1 DEF Writes, DocWrites
<1>3. [ref |-> s, payload |-> d] \in SessionRows
  BY <1>1 DEF SessionRows
<1>4. b \in RowWrite("sessions", SessionRows)
  BY <1>3 DEF RowWrite
<1>5. b \in Writes
  BY <1>4 DEF Writes
<1>6. SessionWrites(s, ended) = << a, b >>
  BY DEF SessionWrites
<1> HIDE DEF a, b
<1>7. /\ << a, b >> \in Seq(Writes) /\ Len(<< a, b >>) = 2
      /\ << a, b >>[1] = a /\ << a, b >>[2] = b
  BY <1>2, <1>5
<1> QED
  BY <1>6, <1>7 DEF a, b

(* What starts a session: its document, its row, and the event twice.           *)
LEMMA StartWrites ==
    ASSUME NEW s \in SessionRefs
    PROVE  LET w == SessionWrites(s, FALSE) \o Event(s, "session_started")
               e == << "session_started", s >>
           IN  /\ w \in Seq(Writes) /\ Len(w) = 4
               /\ w[1] = [write |-> "session_json", session |-> s, doc |-> [ended |-> FALSE]]
               /\ w[2] = Insert("sessions", s, [ended |-> FALSE])
               /\ w[3] = EventLog(e) /\ w[4] = EventRow(e)
<1> DEFINE a == SessionWrites(s, FALSE)
           b == Event(s, "session_started")
<1>1. /\ a \in Seq(Writes) /\ Len(a) = 2
      /\ a[1] = [write |-> "session_json", session |-> s, doc |-> [ended |-> FALSE]]
      /\ a[2] = Insert("sessions", s, [ended |-> FALSE])
  BY SessionWritesTyped
<1>2. /\ b \in Seq(Writes) /\ Len(b) = 2
      /\ b[1] = EventLog(<< "session_started", s >>)
      /\ b[2] = EventRow(<< "session_started", s >>)
  BY EventWritesTyped DEF EventTypes
<1> HIDE DEF a, b
<1>3. /\ a \o b \in Seq(Writes) /\ Len(a \o b) = 4
      /\ (a \o b)[1] = a[1] /\ (a \o b)[2] = a[2]
      /\ (a \o b)[3] = b[1] /\ (a \o b)[4] = b[2]
  <2>1. a \in Seq(Writes) /\ b \in Seq(Writes) /\ Len(a) = 2 /\ Len(b) = 2
    BY <1>1, <1>2
  <2> QED
    BY <2>1, ConcatPairs
<1>4. /\ a \o b \in Seq(Writes) /\ Len(a \o b) = 4
      /\ (a \o b)[1] = [write |-> "session_json", session |-> s, doc |-> [ended |-> FALSE]]
      /\ (a \o b)[2] = Insert("sessions", s, [ended |-> FALSE])
      /\ (a \o b)[3] = EventLog(<< "session_started", s >>)
      /\ (a \o b)[4] = EventRow(<< "session_started", s >>)
  BY <1>1, <1>2, <1>3
<1> QED
  BY <1>4, Zenon DEF a, b

(* The writes of several lines of a cell, one after the other, are writes of    *)
(* lines of the cell.                                                           *)
LEMMA RegistersClosed ==
    ASSUME NEW s, NEW r
    PROVE  ClosedUnderConcat(Registers(s, r)) /\ << >> \in Registers(s, r)
<1>1. ASSUME NEW a \in Registers(s, r), NEW b \in Registers(s, r)
      PROVE  a \o b \in Registers(s, r)
  <2>1. a \in Seq(RegisterWrites) /\ b \in Seq(RegisterWrites)
    BY DEF Registers
  <2> DEFINE c == a \o b
  <2>2. /\ c \in Seq(RegisterWrites) /\ Len(c) = Len(a) + Len(b)
        /\ \A i \in 1 .. Len(a) : c[i] = a[i]
        /\ \A i \in 1 .. Len(b) : c[Len(a) + i] = b[i]
    BY <2>1, ConcatIndex
  <2> HIDE DEF c
  <2>3. ASSUME NEW j \in 1 .. Len(c)
        PROVE  /\ c[j].write = "log_line" => c[j].line.cell_ref = r
               /\ c[j].write = "insert" =>
                    \E i \in 1 .. j - 1 : c[i].write = "log_line" /\ RowOf(c[j], s, c[i].line)
               /\ c[j].write \in {"log_event", "insert_event"} => c[j].event[2] = s
               /\ c[j].write = "insert_event" => j > 1 /\ c[j - 1] = EventLog(c[j].event)
    <3>1. CASE j \in 1 .. Len(a)
      <4>1. c[j] = a[j] /\ \A i \in 1 .. j - 1 : c[i] = a[i]
        BY <2>1, <2>2, <3>1
      <4>2. Registering(a, s, r)
        BY DEF Registers
      <4>3. j > 1 => c[j - 1] = a[j - 1]
        BY <4>1, <3>1
      <4> QED
        BY <4>1, <4>2, <4>3, <3>1 DEF Registering
    <3>2. CASE j \notin 1 .. Len(a)
      <4>1. PICK k \in 1 .. Len(b) : j = Len(a) + k
        <5>1. j - Len(a) \in 1 .. Len(b) /\ j = Len(a) + (j - Len(a))
          BY <2>1, <2>2, <3>2
        <5> QED
          BY <5>1
      <4>2. c[j] = b[k]
        BY <4>1, <2>2
      <4>3. /\ b[k].write = "log_line" => b[k].line.cell_ref = r
            /\ b[k].write \in {"log_event", "insert_event"} => b[k].event[2] = s
            /\ b[k].write = "insert_event" => k > 1 /\ b[k - 1] = EventLog(b[k].event)
        BY <4>1 DEF Registers, Registering
      <4>4. ASSUME k > 1 PROVE j > 1 /\ c[j - 1] = b[k - 1]
        <5>1. k - 1 \in 1 .. Len(b) /\ j - 1 = Len(a) + (k - 1) /\ j > 1
          BY <4>1, <4>4, <2>1
        <5> QED
          BY <5>1, <2>2
      <4>5. ASSUME b[k].write = "insert"
            PROVE  \E i \in 1 .. j - 1 : c[i].write = "log_line" /\ RowOf(c[j], s, c[i].line)
        <5>1. PICK i \in 1 .. k - 1 : b[i].write = "log_line" /\ RowOf(b[k], s, b[i].line)
          BY <4>5, <4>1 DEF Registers, Registering
        <5>2. i \in 1 .. Len(b) /\ Len(a) + i \in 1 .. j - 1
          BY <4>1, <5>1, <2>1
        <5>3. c[Len(a) + i] = b[i]
          BY <5>2, <2>2
        <5> QED
          BY <5>1, <5>2, <5>3, <4>2
      <4> QED
        BY <4>2, <4>3, <4>4, <4>5
    <3> QED
      BY <3>1, <3>2
  <2>4. c \in Registers(s, r)
    BY <2>2, <2>3 DEF Registers, Registering
  <2> QED
    BY <2>4 DEF c
<1>2. << >> \in Registers(s, r)
  BY DEF Registers, Registering
<1> QED
  BY <1>1, <1>2 DEF ClosedUnderConcat

(* The edges of a line are rows of the line.                                    *)
LEMMA EdgeWrites ==
    ASSUME NEW s \in SessionRefs, NEW line \in Lines,
           line.event \in {"object_registered", "object_mutated"}
    PROVE  EdgeInserts(s, line) \in Seq(RowsOf(s, line))
<1> DEFINE payload == [session_ref |-> s, cell_ref |-> line.cell_ref]
           inserts == [edge \in LineageEdges(line) |-> Insert("lineage_edges", edge, payload)]
           parents == SetToSeq(ParentEdges(line))
           rest == [i \in DOMAIN parents |-> inserts[parents[i]]]
<1>1. ASSUME NEW edge \in LineageEdges(line) PROVE inserts[edge] \in RowsOf(s, line)
  <2> DEFINE w == Insert("lineage_edges", edge, payload)
  <2>1. [ref |-> edge, payload |-> payload] \in EdgeRows
    BY DEF EdgeRows, EdgeRefs, Lines
  <2>2. w \in LineRowWrites
    BY <2>1 DEF LineRowWrites, RowWrite
  <2>3. RowOf(w, s, line)
    BY DEF RowOf, Insert
  <2> QED
    BY <2>2, <2>3 DEF RowsOf
<1>2. CellEdge(line) \in LineageEdges(line) /\ ParentEdges(line) \subseteq LineageEdges(line)
  BY DEF LineageEdges
<1>3. parents \in Seq(ParentEdges(line))
  <2>1. IsFiniteSet(line.parents)
    BY DEF Lines, Range
  <2> DEFINE edge == [parent \in line.parents |-> EdgeRef("parent", parent, line.object_ref)]
  <2>2. /\ edge \in [line.parents -> ParentEdges(line)]
        /\ \A t \in ParentEdges(line) : \E parent \in line.parents : edge[parent] = t
    BY DEF ParentEdges
  <2> HIDE DEF edge
  <2>3. IsFiniteSet(ParentEdges(line))
    BY <2>1, <2>2, FiniteRange
  <2> QED
    BY <2>3, SetToSeqTyped
<1> HIDE DEF inserts, parents, payload
<1>4. rest \in Seq(RowsOf(s, line))
  BY <1>1, <1>2, <1>3
<1>5. << inserts[CellEdge(line)] >> \in Seq(RowsOf(s, line))
  BY <1>1, <1>2
<1> HIDE DEF rest
<1>6. << inserts[CellEdge(line)] >> \o rest \in Seq(RowsOf(s, line))
  BY <1>4, <1>5, ConcatProperties
<1>7. EdgeInserts(s, line) = << inserts[CellEdge(line)] >> \o rest
  BY DEF EdgeInserts, inserts, rest, parents, payload
<1> QED
  BY <1>6, <1>7

(* All inserts of a line are rows of the line.                                  *)
LEMMA RowWrites ==
    ASSUME NEW s \in SessionRefs, NEW line \in Lines
    PROVE  IndexInserts(s, line) \in Seq(RowsOf(s, line))
<1>1. CASE line.event = "object_registered"
  <2> DEFINE w == Insert("objects", line.object_ref, [content |-> line.content])
  <2>1. [ref |-> line.object_ref, payload |-> [content |-> line.content]] \in ObjectRows
    BY DEF ObjectRows, Contents, Lines
  <2>2. w \in LineRowWrites
    BY <2>1 DEF LineRowWrites, RowWrite
  <2>3. << w >> \in Seq(RowsOf(s, line))
    BY <1>1, <2>2 DEF RowsOf, RowOf, Insert
  <2>4. IndexInserts(s, line) = << w >> \o EdgeInserts(s, line)
    BY <1>1 DEF IndexInserts
  <2> HIDE DEF w
  <2>5. EdgeInserts(s, line) \in Seq(RowsOf(s, line))
    BY <1>1, EdgeWrites
  <2> QED
    BY <2>3, <2>4, <2>5, ConcatProperties
<1>2. CASE line.event = "object_mutated"
  <2> DEFINE w == Insert("object_versions", << line.object_ref, line.content >>,
                         [content |-> line.content])
  <2> DEFINE row == [ref |-> << line.object_ref, line.content >>,
                     payload |-> [content |-> line.content]]
  <2>1. row \in VersionRows
    BY DEF VersionRows, Contents, Lines
  <2>2. w \in LineRowWrites
    <3>1. w = Insert("object_versions", row.ref, row.payload)
      OBVIOUS
    <3> HIDE DEF row, w
    <3> QED
      BY <2>1, <3>1 DEF LineRowWrites, RowWrite
  <2>3. << w >> \in Seq(RowsOf(s, line))
    BY <1>2, <2>2 DEF RowsOf, RowOf, Insert
  <2>4. IndexInserts(s, line) = << w >> \o EdgeInserts(s, line)
    BY <1>2 DEF IndexInserts
  <2> HIDE DEF w
  <2>5. EdgeInserts(s, line) \in Seq(RowsOf(s, line))
    BY <1>2, EdgeWrites
  <2> QED
    BY <2>3, <2>4, <2>5, ConcatProperties
<1>3. CASE line.event \notin {"object_registered", "object_mutated"}
  <2>1. IndexInserts(s, line) = << >>
    BY <1>3 DEF IndexInserts
  <2> QED
    BY <2>1
<1> QED
  BY <1>1, <1>2, <1>3

(* register_object_event: the line, the rows it speaks of, then its event       *)
(* twice.                                                                       *)
LEMMA LineWritesRegister ==
    ASSUME NEW s \in SessionRefs, NEW line \in Lines
    PROVE  register_object_event(s, line) \in Registers(s, line.cell_ref)
<1> DEFINE first == << LineWrite(line) >>
           rows == IndexInserts(s, line)
           last == Event(s, line.event)
           a == first \o rows
           L == a \o last
<1>1. /\ rows \in Seq(RegisterWrites)
      /\ \A i \in 1 .. Len(rows) : RowOf(rows[i], s, line) /\ rows[i].write = "insert"
  <2>1. rows \in Seq(RowsOf(s, line))
    BY RowWrites
  <2> HIDE DEF rows
  <2> QED
    BY <2>1 DEF RowsOf, RowOf, RegisterWrites
<1>2. first \in Seq(RegisterWrites) /\ Len(first) = 1 /\ first[1] = LineWrite(line)
  BY DEF LineWrite, RegisterWrites, LineWrites
<1>3. /\ last \in Seq(RegisterWrites) /\ Len(last) = 2
      /\ last[1] = EventLog(<< line.event, s >>) /\ last[2] = EventRow(<< line.event, s >>)
  <2>1. line.event \in EventTypes
    BY DEF Lines, EventTypes
  <2>2. /\ << line.event, s >> \in Events
        /\ Len(last) = 2
        /\ last[1] = EventLog(<< line.event, s >>) /\ last[2] = EventRow(<< line.event, s >>)
        /\ last = << last[1], last[2] >>
    BY <2>1, EventWritesTyped DEF Event
  <2> HIDE DEF last
  <2>3. last[1] \in RegisterWrites /\ last[2] \in RegisterWrites
    BY <2>2 DEF EventLog, EventRow, RegisterWrites, EventWrites
  <2>4. << last[1], last[2] >> \in Seq(RegisterWrites)
    BY <2>3
  <2> QED
    BY <2>2, <2>4
<1> HIDE DEF first, rows, last
<1>4. /\ a \in Seq(RegisterWrites) /\ Len(a) = Len(first) + Len(rows)
      /\ \A i \in 1 .. Len(first) : a[i] = first[i]
      /\ \A i \in 1 .. Len(rows) : a[Len(first) + i] = rows[i]
  <2>1. first \in Seq(RegisterWrites) /\ rows \in Seq(RegisterWrites)
    BY <1>1, <1>2
  <2> QED
    BY <2>1, ConcatIndex
<1>5. /\ L \in Seq(RegisterWrites) /\ Len(L) = Len(a) + Len(last)
      /\ \A i \in 1 .. Len(a) : L[i] = a[i]
      /\ \A i \in 1 .. Len(last) : L[Len(a) + i] = last[i]
  <2> HIDE DEF a
  <2>1. a \in Seq(RegisterWrites) /\ last \in Seq(RegisterWrites)
    BY <1>3, <1>4
  <2> QED
    BY <2>1, ConcatIndex
<1> HIDE DEF a, L
<1>6. /\ Len(rows) \in Nat /\ Len(L) = Len(rows) + 3
      /\ L[1] = LineWrite(line)
      /\ \A i \in 1 .. Len(rows) : L[1 + i] = rows[i]
      /\ L[Len(rows) + 2] = EventLog(<< line.event, s >>)
      /\ L[Len(rows) + 3] = EventRow(<< line.event, s >>)
  <2>1. Len(rows) \in Nat /\ Len(a) = Len(rows) + 1 /\ Len(L) = Len(rows) + 3
    BY <1>1, <1>2, <1>3, <1>4, <1>5
  <2>2. L[1] = a[1] /\ a[1] = first[1]
    <3>1. 1 \in 1 .. Len(a) /\ 1 \in 1 .. Len(first)
      BY <1>2, <2>1
    <3> QED
      BY <3>1, <1>4, <1>5
  <2>3. ASSUME NEW i \in 1 .. Len(rows) PROVE L[1 + i] = rows[i]
    <3>1. 1 + i \in 1 .. Len(a)
      BY <2>1
    <3> QED
      BY <3>1, <1>2, <1>4, <1>5
  <2>4. L[Len(a) + 1] = last[1] /\ L[Len(a) + 2] = last[2]
    BY <1>3, <1>5
  <2>5. Len(a) + 1 = Len(rows) + 2 /\ Len(a) + 2 = Len(rows) + 3
    BY <2>1
  <2> QED
    BY <1>2, <1>3, <2>1, <2>2, <2>3, <2>4, <2>5
<1>7. ASSUME NEW j \in 1 .. Len(L)
      PROVE  /\ L[j].write = "log_line" => L[j].line.cell_ref = line.cell_ref
             /\ L[j].write = "insert" =>
                  \E i \in 1 .. j - 1 : L[i].write = "log_line" /\ RowOf(L[j], s, L[i].line)
             /\ L[j].write \in {"log_event", "insert_event"} => L[j].event[2] = s
             /\ L[j].write = "insert_event" => j > 1 /\ L[j - 1] = EventLog(L[j].event)
  <2>1. CASE j = 1
    BY <2>1, <1>6 DEF LineWrite
  <2>2. CASE j \in 2 .. Len(rows) + 1
    <3>1. j - 1 \in 1 .. Len(rows) /\ j = 1 + (j - 1) /\ 1 \in 1 .. j - 1
      BY <2>2, <1>6
    <3>2. L[j] = rows[j - 1]
      BY <3>1, <1>6
    <3>3. RowOf(L[j], s, line) /\ L[j].write = "insert"
      BY <3>1, <3>2, <1>1
    <3>4. L[1].write = "log_line" /\ L[1].line = line
      BY <1>6 DEF LineWrite
    <3> QED
      BY <3>1, <3>3, <3>4
  <2>3. CASE j = Len(rows) + 2
    BY <2>3, <1>6 DEF EventLog
  <2>4. CASE j = Len(rows) + 3
    <3>1. L[j] = EventRow(<< line.event, s >>) /\ j > 1 /\ j - 1 = Len(rows) + 2
      BY <2>4, <1>6
    <3>2. L[j - 1] = EventLog(<< line.event, s >>)
      BY <3>1, <1>6
    <3> QED
      BY <3>1, <3>2 DEF EventRow
  <2> QED
    BY <1>6, <2>1, <2>2, <2>3, <2>4
<1>8. L \in Registers(s, line.cell_ref)
  BY <1>5, <1>7 DEF Registers, Registering
<1>9. register_object_event(s, line) = L
  BY DEF register_object_event, L, a, first, rows, last, LineWrite
<1> QED
  BY <1>8, <1>9

CellLines(r) == { line \in Lines : line.cell_ref = r }

(* snapshot_namespace                                                           *)
LEMMA SnapshotTyped ==
    ASSUME Typed, NEW p \in Shells
    PROVE  snapshot_namespace(p) \in Snapshots
<1>1. PICK bound \in SUBSET Names : user_ns[p] \in [bound -> Objs]
  BY DEF Typed, Bindings
<1>2. snapshot_namespace(p) \in [bound -> ValuesOf]
  BY <1>1 DEF Typed, snapshot_namespace, ValuesOf
<1> QED
  BY <1>1, <1>2 DEF Snapshots

(* A line of an event of a name and an object.                                  *)
LEMMA LineTyped ==
    ASSUME Typed, NEW p \in Shells, NEW name \in Names, NEW obj \in Objs,
           NEW event \in {"object_registered", "alias_bound", "object_mutated", "alias_deleted"},
           NEW r \in 1 .. MaxCells
    PROVE  Line(p, event, name, obj, r) \in CellLines(r)
<1>1. WbRef[obj] \in Refs /\ Parents[obj] \in Range(Parents)
  BY DEF Refs, Range
<1>2. content[p][obj] \in 0 .. MaxContent
  BY DEF Typed
<1> QED
  BY <1>1, <1>2 DEF Line, CellLines, Lines

(* The changes of a cell are lines of that cell.                                *)
LEMMA ChangesTyped ==
    ASSUME Typed, NEW p \in Shells, NEW c \in CellStates, capture[p].cell = {c}
    PROVE  Changes(p) \in Seq(CellLines(c.ref))
<1> DEFINE S == CellLines(c.ref)
           after == snapshot_namespace(p)
           before == c.namespace_before
<1>0. c.ref \in 1 .. MaxCells /\ before \in Snapshots /\ NameOrder \in Seq(Names)
  BY DEF CellStates
<1>1. after \in Snapshots
  BY SnapshotTyped
<1>2. ASSUME NEW name \in DOMAIN after, name \in Names
      PROVE  after[name].obj \in Objs
  BY <1>1 DEF Snapshots, ValuesOf
<1>3. ASSUME NEW name \in DOMAIN before, name \in Names
      PROVE  before[name].obj \in Objs
  BY <1>0 DEF Snapshots, ValuesOf
<1>4. ASSUME NEW name \in Names, name \in DOMAIN after
      PROVE  LET event == BindingEvent(before, name, after[name])
             IN  event # "none" => << Line(p, event, name, after[name].obj, c.ref) >> \in Seq(S)
  <2> DEFINE event == BindingEvent(before, name, after[name])
  <2>1. event \in {"object_registered", "alias_bound", "object_mutated", "none"}
    BY Zenon DEF BindingEvent
  <2> HIDE DEF event, after, before
  <2>2. ASSUME event # "none" PROVE Line(p, event, name, after[name].obj, c.ref) \in S
    BY <2>1, <2>2, <1>0, <1>2, <1>4, LineTyped
  <2> HIDE DEF S
  <2>3. event # "none" => << Line(p, event, name, after[name].obj, c.ref) >> \in Seq(S)
    BY <2>2
  <2> QED
    BY <2>3 DEF event
<1>5. BoundLines(p, c) \in Seq(Seq(S))
  <2>1. ASSUME NEW i \in DOMAIN NameOrder
        PROVE  (IF NameOrder[i] \in DOMAIN after
                THEN LET event == BindingEvent(before, NameOrder[i], after[NameOrder[i]])
                     IN  IF event = "none" THEN << >>
                         ELSE << Line(p, event, NameOrder[i], after[NameOrder[i]].obj, c.ref) >>
                ELSE << >>) \in Seq(S)
    <3>1. NameOrder[i] \in Names /\ << >> \in Seq(S)
      BY <1>0
    <3> HIDE DEF S, after, before
    <3> QED
      BY <3>1, <1>4
  <2> HIDE DEF S, after, before
  <2>2. DOMAIN NameOrder = 1 .. Len(NameOrder) /\ Len(NameOrder) \in Nat
    BY <1>0
  <2>3. BoundLines(p, c)
          = [i \in DOMAIN NameOrder |->
               IF NameOrder[i] \in DOMAIN after
               THEN LET event == BindingEvent(before, NameOrder[i], after[NameOrder[i]])
                    IN  IF event = "none" THEN << >>
                        ELSE << Line(p, event, NameOrder[i], after[NameOrder[i]].obj, c.ref) >>
               ELSE << >>]
    BY DEF BoundLines, after, before
  <2>4. BoundLines(p, c) \in [1 .. Len(NameOrder) -> Seq(S)]
    BY <2>1, <2>2, <2>3
  <2> QED
    BY <2>2, <2>4
<1>6. DeletedLines(p, c) \in Seq(Seq(S))
  <2>1. ASSUME NEW i \in DOMAIN NameOrder
        PROVE  (IF NameOrder[i] \in DOMAIN before \ DOMAIN user_ns[p]
                THEN << Line(p, "alias_deleted", NameOrder[i], before[NameOrder[i]].obj, c.ref) >>
                ELSE << >>) \in Seq(S)
    <3>1. NameOrder[i] \in Names /\ << >> \in Seq(S)
      BY <1>0
    <3>2. ASSUME NameOrder[i] \in DOMAIN before
          PROVE  Line(p, "alias_deleted", NameOrder[i], before[NameOrder[i]].obj, c.ref) \in S
      <4>1. before[NameOrder[i]].obj \in Objs
        BY <3>1, <3>2, <1>3
      <4> HIDE DEF before
      <4> QED
        BY <4>1, <3>1, <1>0, LineTyped
    <3> HIDE DEF S, before
    <3> QED
      BY <3>1, <3>2
  <2> HIDE DEF S
  <2>2. DOMAIN NameOrder = 1 .. Len(NameOrder) /\ Len(NameOrder) \in Nat
    BY <1>0
  <2>3. DeletedLines(p, c) \in [1 .. Len(NameOrder) -> Seq(S)]
    BY <2>1, <2>2 DEF DeletedLines
  <2> QED
    BY <2>2, <2>3
<1> HIDE DEF S
<1>7. ClosedUnderConcat(Seq(S)) /\ << >> \in Seq(S)
  BY SeqClosed
<1>8. FlattenSeq(BoundLines(p, c)) \in Seq(S) /\ FlattenSeq(DeletedLines(p, c)) \in Seq(S)
  <2> DEFINE bound == BoundLines(p, c)
             deleted == DeletedLines(p, c)
  <2> HIDE DEF bound, deleted
  <2>1. bound \in Seq(Seq(S)) /\ deleted \in Seq(Seq(S))
    BY <1>5, <1>6 DEF bound, deleted
  <2>2. FlattenSeq(bound) \in Seq(S)
    BY <2>1, <1>7, FlattenClosed
  <2>3. FlattenSeq(deleted) \in Seq(S)
    BY <2>1, <1>7, FlattenClosed
  <2> QED
    BY <2>2, <2>3 DEF bound, deleted
<1>9. FlattenSeq(BoundLines(p, c)) \o FlattenSeq(DeletedLines(p, c)) \in Seq(S)
  BY <1>8, <1>7 DEF ClosedUnderConcat
<1>10. (CHOOSE x \in capture[p].cell : TRUE) = c
  OBVIOUS
<1>11. Changes(p) = FlattenSeq(BoundLines(p, c)) \o FlattenSeq(DeletedLines(p, c))
  BY <1>10 DEF Changes
<1> QED
  BY <1>9, <1>11 DEF S

(* How the writes of a hook are arranged: what one needs of the write before    *)
(* it, and that the lines of a cell are logged before the cell.                 *)
SessionDoc(s, d) == [write |-> "session_json", session |-> s, doc |-> d]
Arranged(L) ==
    \A j \in 1 .. Len(L) :
        /\ L[j].write = "session_json" => j = 1
        /\ L[j].write = "insert" /\ L[j].table = "sessions" /\ j > 1 =>
             L[j - 1] = SessionDoc(L[j].ref, L[j].payload)
        /\ L[j].write = "insert_event" /\ j > 1 => L[j - 1] = EventLog(L[j].event)
        /\ L[j].write = "insert_cell" /\ j > 1 => L[j - 1].write = "log_cell"
        /\ L[j].write = "log_cell" =>
             \A i \in 1 .. Len(L) : L[i].write = "log_line" => i < j

(* What the hook of cell r of session s has to write when it starts.            *)
CellHook(L, s, r) ==
    /\ L \in Seq(Writes) /\ Len(L) > 0 /\ Arranged(L)
    /\ L[1].write \in {"log_line", "log_event", "log_cell"}
    /\ L[Len(L)].write = "insert_event"
    /\ \A j \in 1 .. Len(L) :
         /\ L[j].write # "session_json"
         /\ L[j].write = "log_line" => L[j].line.cell_ref = r
         /\ L[j].write = "insert" =>
              /\ L[j].table # "sessions"
              /\ \E i \in 1 .. j - 1 : L[i].write = "log_line" /\ RowOf(L[j], s, L[i].line)
         /\ L[j].write \in {"log_event", "insert_event"} => L[j].event[2] = s

(* Registering a line writes no session and commits no cell.                    *)
LEMMA RegisterWritesTyped ==
    /\ RegisterWrites \subseteq Writes
    /\ \A w \in RegisterWrites :
         /\ w.write \in {"log_line", "insert", "log_event", "insert_event"}
         /\ w.write = "insert" => w.table # "sessions"
<1>1. RegisterWrites \subseteq Writes
  BY DEF RegisterWrites, Writes
<1>2. \A w \in LineRowWrites : w.write = "insert" /\ w.table # "sessions"
  BY DEF LineRowWrites, RowWrite, Insert
<1>3. \A w \in LineWrites \cup EventWrites :
         w.write \in {"log_line", "log_event", "insert_event"}
  BY DEF LineWrites, EventWrites
<1> QED
  BY <1>1, <1>2, <1>3 DEF RegisterWrites

(* PostRunWrites is the hook of the current cell: its lines and their rows,     *)
(* then its commit, then its event.                                             *)
LEMMA PostRunHook ==
    ASSUME Typed, NEW p \in Shells, NEW s \in SessionRefs, NEW c \in CellStates,
           capture[p].session = {s}, capture[p].cell = {c}
    PROVE  CellHook(PostRunWrites(p), s, c.ref)
<1> DEFINE changes == Changes(p)
           hooks == [i \in DOMAIN changes |-> register_object_event(s, changes[i])]
           R == FlattenSeq(hooks)
           C == << [write |-> "log_cell"], [write |-> "insert_cell"] >>
           E == Event(s, "cell_executed")
           T == R \o C
           L == T \o E
<1>1. R \in Registers(s, c.ref)
  <2> DEFINE G == Registers(s, c.ref)
  <2>1. changes \in Seq(CellLines(c.ref))
    BY ChangesTyped
  <2>2. \A line \in CellLines(c.ref) : register_object_event(s, line) \in G
    BY LineWritesRegister DEF CellLines
  <2>3. ClosedUnderConcat(G) /\ << >> \in G
    BY RegistersClosed
  <2> HIDE DEF G, changes
  <2>4. hooks \in Seq(G)
    BY <2>1, <2>2
  <2> HIDE DEF hooks
  <2>5. FlattenSeq(hooks) \in G
    BY <2>3, <2>4, FlattenClosed
  <2> QED
    BY <2>5 DEF G
<1>2. PostRunWrites(p) = L
  <2>1. Ref(p) = s
    BY DEF Ref
  <2> QED
    BY <2>1 DEF PostRunWrites
<1> HIDE DEF R, hooks, changes
<1>3. R \in Seq(RegisterWrites) /\ Registering(R, s, c.ref)
  BY <1>1 DEF Registers
<1>4. /\ C \in Seq(Writes) /\ Len(C) = 2
      /\ C[1] = [write |-> "log_cell"] /\ C[2] = [write |-> "insert_cell"]
  BY DEF Writes, CellWrites
<1>5. /\ E \in Seq(Writes) /\ Len(E) = 2
      /\ E[1] = EventLog(<< "cell_executed", s >>)
      /\ E[2] = EventRow(<< "cell_executed", s >>)
  BY EventWritesTyped DEF EventTypes
<1>6. /\ R \in Seq(Writes) /\ Len(R) \in Nat
      /\ \A i \in 1 .. Len(R) : R[i] \in RegisterWrites
  BY <1>3, RegisterWritesTyped
<1> HIDE DEF C, E
<1>7. /\ T \in Seq(Writes) /\ Len(T) = Len(R) + Len(C)
      /\ \A i \in 1 .. Len(R) : T[i] = R[i]
      /\ \A i \in 1 .. Len(C) : T[Len(R) + i] = C[i]
  <2>1. R \in Seq(Writes) /\ C \in Seq(Writes)
    BY <1>4, <1>6
  <2> QED
    BY <2>1, ConcatIndex
<1>8. /\ L \in Seq(Writes) /\ Len(L) = Len(T) + Len(E)
      /\ \A i \in 1 .. Len(T) : L[i] = T[i]
      /\ \A i \in 1 .. Len(E) : L[Len(T) + i] = E[i]
  <2> HIDE DEF T
  <2>1. T \in Seq(Writes) /\ E \in Seq(Writes)
    BY <1>5, <1>7
  <2> QED
    BY <2>1, ConcatIndex
<1> HIDE DEF T, L
<1> DEFINE n == Len(R)
<1>9. /\ n \in Nat /\ Len(L) = n + 4
      /\ \A i \in 1 .. n : L[i] = R[i]
      /\ L[n + 1] = [write |-> "log_cell"] /\ L[n + 2] = [write |-> "insert_cell"]
      /\ L[n + 3] = EventLog(<< "cell_executed", s >>)
      /\ L[n + 4] = EventRow(<< "cell_executed", s >>)
  <2>1. n \in Nat /\ Len(T) = n + 2 /\ Len(L) = n + 4
    BY <1>4, <1>5, <1>6, <1>7, <1>8
  <2>2. ASSUME NEW i \in 1 .. n PROVE L[i] = R[i]
    <3>1. i \in 1 .. Len(T)
      BY <2>1
    <3> QED
      BY <3>1, <1>7, <1>8
  <2>3. T[n + 1] = C[1] /\ T[n + 2] = C[2]
    BY <1>4, <1>7
  <2>4. n + 1 \in 1 .. Len(T) /\ n + 2 \in 1 .. Len(T)
    BY <2>1
  <2>5. L[n + 1] = T[n + 1] /\ L[n + 2] = T[n + 2]
    BY <2>4, <1>8
  <2>6. L[Len(T) + 1] = E[1] /\ L[Len(T) + 2] = E[2]
    BY <1>5, <1>8
  <2>7. Len(T) + 1 = n + 3 /\ Len(T) + 2 = n + 4
    BY <2>1
  <2> QED
    BY <1>4, <1>5, <2>1, <2>2, <2>3, <2>5, <2>6, <2>7
<1>10. \A i \in 1 .. n :
          /\ L[i].write \in {"log_line", "insert", "log_event", "insert_event"}
          /\ L[i].write = "insert" => L[i].table # "sessions"
  BY <1>6, <1>9, RegisterWritesTyped
<1>11. /\ L[n + 1].write = "log_cell" /\ L[n + 2].write = "insert_cell"
       /\ L[n + 3].write = "log_event" /\ L[n + 4].write = "insert_event"
       /\ \A i \in n + 1 .. n + 4 :
            i = n + 1 \/ i = n + 2 \/ i = n + 3 \/ i = n + 4
  BY <1>9 DEF EventLog, EventRow
<1>12. ASSUME NEW j \in 1 .. n
       PROVE  /\ L[j].write = "log_line" => L[j].line.cell_ref = c.ref
              /\ L[j].write = "insert" =>
                   \E i \in 1 .. j - 1 : L[i].write = "log_line" /\ RowOf(L[j], s, L[i].line)
              /\ L[j].write \in {"log_event", "insert_event"} => L[j].event[2] = s
              /\ L[j].write = "insert_event" => j > 1 /\ L[j - 1] = EventLog(L[j].event)
  <2>1. L[j] = R[j] /\ \A i \in 1 .. j - 1 : L[i] = R[i]
    BY <1>9
  <2>2. j > 1 => L[j - 1] = R[j - 1]
    BY <2>1
  <2> QED
    BY <2>1, <2>2, <1>3 DEF Registering
<1>13. 1 .. Len(L) = (1 .. n) \cup (n + 1 .. n + 4)
  BY <1>9
<1> HIDE DEF n
<1>14. \A i \in 1 .. Len(L) : L[i].write = "log_line" => i <= n
  <2>1. ASSUME NEW i \in n + 1 .. n + 4 PROVE L[i].write # "log_line"
    <3>1. L[i].write \in {"log_cell", "insert_cell", "log_event", "insert_event"}
      BY <1>11, Zenon
    <3> QED
      BY <3>1
  <2>2. n \in Nat /\ \A i \in 1 .. Len(L) : i \in n + 1 .. n + 4 \/ i <= n
    BY <1>9, <1>13
  <2> QED
    BY <2>1, <2>2, Zenon
<1>15. Arranged(L)
  <2>1. ASSUME NEW j \in 1 .. Len(L)
        PROVE  /\ L[j].write = "session_json" => j = 1
               /\ L[j].write = "insert" /\ L[j].table = "sessions" /\ j > 1 =>
                    L[j - 1] = SessionDoc(L[j].ref, L[j].payload)
               /\ L[j].write = "insert_event" /\ j > 1 => L[j - 1] = EventLog(L[j].event)
               /\ L[j].write = "insert_cell" /\ j > 1 => L[j - 1].write = "log_cell"
               /\ L[j].write = "log_cell" =>
                    \A i \in 1 .. Len(L) : L[i].write = "log_line" => i < j
    <3>1. CASE j \in 1 .. n
      BY <3>1, <1>10, <1>12
    <3>2. CASE j = n + 1
      BY <3>2, <1>9, <1>11, <1>14
    <3>3. CASE j = n + 2
      <4>1. j - 1 = n + 1
        BY <3>3, <1>9
      <4> QED
        BY <4>1, <3>3, <1>9, <1>11
    <3>4. CASE j = n + 3
      BY <3>4, <1>11
    <3>5. CASE j = n + 4
      <4>1. j - 1 = n + 3
        BY <3>5, <1>9
      <4>2. L[j].event = << "cell_executed", s >> /\ L[j].write = "insert_event"
        BY <3>5, <1>9 DEF EventRow
      <4> QED
        BY <4>1, <4>2, <1>9
    <3> QED
      BY <3>1, <3>2, <3>3, <3>4, <3>5, <1>11, <1>13
  <2> QED
    BY <2>1 DEF Arranged
<1>16. L[1].write \in {"log_line", "log_event", "log_cell"}
  <2>1. CASE n = 0
    BY <2>1, <1>9, <1>11
  <2>2. CASE n # 0
    <3>1. 1 \in 1 .. n
      BY <2>2, <1>9
    <3>2. L[1].write # "insert" /\ L[1].write # "insert_event"
      BY <3>1, <1>12
    <3> QED
      BY <3>1, <3>2, <1>10
  <2> QED
    BY <2>1, <2>2
<1>17. ASSUME NEW j \in 1 .. Len(L)
       PROVE  /\ L[j].write # "session_json"
              /\ L[j].write = "log_line" => L[j].line.cell_ref = c.ref
              /\ L[j].write = "insert" =>
                   /\ L[j].table # "sessions"
                   /\ \E i \in 1 .. j - 1 : L[i].write = "log_line" /\ RowOf(L[j], s, L[i].line)
              /\ L[j].write \in {"log_event", "insert_event"} => L[j].event[2] = s
  <2>1. CASE j \in 1 .. n
    BY <2>1, <1>10, <1>12
  <2>2. CASE j \in n + 1 .. n + 4
    <3>1. j = n + 1 \/ j = n + 2 \/ j = n + 3 \/ j = n + 4
      BY <2>2, <1>11
    <3>2. L[n + 3].event = << "cell_executed", s >> /\ L[n + 4].event = << "cell_executed", s >>
      BY <1>9 DEF EventLog, EventRow
    <3> QED
      BY <3>1, <3>2, <1>11
  <2> QED
    BY <2>1, <2>2, <1>13
<1>18. Len(L) > 0 /\ L[Len(L)].write = "insert_event"
  BY <1>9, <1>11
<1> QED
  BY <1>2, <1>8, <1>15, <1>16, <1>17, <1>18 DEF CellHook

-----------------------------------------------------------------------------
(* What the writes and the lists of them are made of.                           *)
LEMMA WriteShapes ==
    ASSUME NEW w \in Writes
    PROVE  /\ w.write = "session_json" => w.session \in SessionRefs /\ w.doc \in Docs
           /\ w.write = "log_line" => w.line \in Lines
           /\ w.write \in {"log_event", "insert_event"} => w.event \in Events
           /\ w.write \in {"session_json", "insert", "log_line", "log_event", "insert_event",
                           "log_cell", "insert_cell"}
           /\ w.write = "insert" =>
                \E table \in {"sessions", "objects", "object_versions", "lineage_edges"} :
                  /\ w.table = table
                  /\ [ref |-> w.ref, payload |-> w.payload] \in
                       (CASE table = "sessions" -> SessionRows
                          [] table = "objects" -> ObjectRows
                          [] table = "object_versions" -> VersionRows
                          [] table = "lineage_edges" -> EdgeRows)
<1>1. CASE w \in DocWrites
  BY <1>1 DEF DocWrites
<1>2. CASE w \in LineWrites
  BY <1>2 DEF LineWrites
<1>3. CASE w \in EventWrites
  BY <1>3 DEF EventWrites
<1>4. CASE w \in CellWrites
  BY <1>4 DEF CellWrites
<1>5. CASE w \in RowWrite("sessions", SessionRows)
  BY <1>5 DEF RowWrite, Insert, SessionRows
<1>6. CASE w \in RowWrite("objects", ObjectRows)
  BY <1>6 DEF RowWrite, Insert, ObjectRows
<1>7. CASE w \in RowWrite("object_versions", VersionRows)
  BY <1>7 DEF RowWrite, Insert, VersionRows
<1>8. CASE w \in RowWrite("lineage_edges", EdgeRows)
  BY <1>8 DEF RowWrite, Insert, EdgeRows
<1> QED
  BY <1>1, <1>2, <1>3, <1>4, <1>5, <1>6, <1>7, <1>8 DEF Writes, LineRowWrites

(* The write that is due and those after it.                                    *)
LEMMA DueFacts ==
    ASSUME Typed, NEW p \in Shells, todo[p] # << >>
    PROVE  /\ Head(todo[p]) = todo[p][1] /\ Head(todo[p]) \in Writes
           /\ Len(todo[p]) \in Nat /\ Len(todo[p]) > 0
           /\ Tail(todo[p]) \in Seq(Writes) /\ Len(Tail(todo[p])) = Len(todo[p]) - 1
           /\ \A i \in 1 .. Len(Tail(todo[p])) :
                i + 1 \in 1 .. Len(todo[p]) /\ Tail(todo[p])[i] = todo[p][i + 1]
<1>1. todo[p] \in Seq(Writes)
  BY DEF Typed
<1> QED
  BY <1>1

(* Without its first write, a hook stays arranged.                              *)
LEMMA ArrangedTail ==
    ASSUME NEW L \in Seq(Writes), L # << >>, Arranged(L)
    PROVE  Arranged(Tail(L))
<1> DEFINE T == Tail(L)
<1>1. /\ T \in Seq(Writes) /\ Len(T) = Len(L) - 1 /\ Len(L) \in Nat
      /\ \A i \in 1 .. Len(T) : i + 1 \in 1 .. Len(L) /\ T[i] = L[i + 1]
  OBVIOUS
<1> HIDE DEF T
<1>2. ASSUME NEW j \in 1 .. Len(T)
      PROVE  /\ T[j].write = "session_json" => j = 1
             /\ T[j].write = "insert" /\ T[j].table = "sessions" /\ j > 1 =>
                  T[j - 1] = SessionDoc(T[j].ref, T[j].payload)
             /\ T[j].write = "insert_event" /\ j > 1 => T[j - 1] = EventLog(T[j].event)
             /\ T[j].write = "insert_cell" /\ j > 1 => T[j - 1].write = "log_cell"
             /\ T[j].write = "log_cell" =>
                  \A i \in 1 .. Len(T) : T[i].write = "log_line" => i < j
  <2>1. j + 1 \in 1 .. Len(L) /\ T[j] = L[j + 1] /\ j + 1 > 1 /\ (j + 1) - 1 = j
    BY <1>1
  <2>2. j > 1 => T[j - 1] = L[j] /\ j \in 1 .. Len(L)
    BY <1>1
  <2>3. /\ T[j].write # "session_json"
        /\ T[j].write = "insert" /\ T[j].table = "sessions" =>
             L[j] = SessionDoc(T[j].ref, T[j].payload)
        /\ T[j].write = "insert_event" => L[j] = EventLog(T[j].event)
        /\ T[j].write = "insert_cell" => L[j].write = "log_cell"
        /\ T[j].write = "log_cell" =>
             \A i \in 1 .. Len(L) : L[i].write = "log_line" => i < j + 1
    BY <2>1 DEF Arranged
  <2>4. ASSUME T[j].write = "log_cell", NEW i \in 1 .. Len(T), T[i].write = "log_line"
        PROVE  i < j
    <3>1. i + 1 \in 1 .. Len(L) /\ L[i + 1].write = "log_line"
      BY <2>4, <1>1
    <3>2. i + 1 < j + 1
      BY <2>3, <2>4, <3>1
    <3> QED
      BY <3>2, <1>1
  <2> QED
    BY <2>2, <2>3, <2>4
<1> QED
  BY <1>2 DEF Arranged, T

(* A capture with a session has one, and at most one cell.                      *)
LEMMA CaptureFacts ==
    ASSUME Typed, NEW p \in Shells, capture[p].session # {}
    PROVE  /\ capture[p] \in Captures /\ capture[p] # NoCapture
           /\ \E s \in SessionRefs : capture[p].session = {s} /\ Ref(p) = s
           /\ capture[p].cell # {} =>
                \E c \in CellStates : capture[p].cell = {c} /\ Current(p) = c
<1>1. capture[p] \in Captures /\ capture[p] # NoCapture
  BY DEF Typed, NoCapture
<1>2. PICK s \in SessionRefs : capture[p].session = {s}
  BY <1>1 DEF Captures
<1>3. Ref(p) = s
  BY <1>2 DEF Ref
<1>4. ASSUME capture[p].cell # {}
      PROVE  \E c \in CellStates : capture[p].cell = {c} /\ Current(p) = c
  <2>1. PICK c \in CellStates : capture[p].cell = {c}
    BY <1>1, <1>4 DEF Captures
  <2>2. Current(p) = c
    BY <2>1 DEF Current
  <2> QED
    BY <2>1, <2>2
<1> QED
  BY <1>1, <1>2, <1>3, <1>4

(* A hook that logs or indexes an event has a session, one that logs a line or  *)
(* a cell has a cell, which its capture has counted.                            *)
CaptureInv ==
    \A p \in Shells :
        /\ \A i \in 1 .. Len(todo[p]) :
             /\ todo[p][i].write \notin {"session_json", "insert"} => capture[p].session # {}
             /\ todo[p][i].write \in {"log_line", "log_cell", "insert_cell"} =>
                  capture[p].cell # {}
        /\ capture[p].session # {} => \A c \in capture[p].cell : c.ref <= capture[p].counter

(* The bound on the cells of all sessions bounds the counter of each.           *)
LEMMA CellsBound ==
    ASSUME Typed, NEW p \in Shells, capture[p].session # {}, CellsRun < MaxCells
    PROVE  capture[p].counter + 1 <= MaxCells
<1>1. PICK s \in SessionRefs : capture[p].session = {s}
  BY CaptureFacts
<1>2. capture[p].counter \in 0 .. MaxCells
  BY CaptureFacts DEF Captures
<1> DEFINE n == capture[p].counter
           All == SessionRefs \X (1 .. MaxCells)
           Run(c) == IF c[1] \in Starting
                     THEN \E q \in Shells : c[1] \in capture[q].session /\ c[2] <= capture[q].counter
                     ELSE c[2] <= Len(files.cells_jsonl[c[1]])
           Ran == { c \in All : Run(c) }
<1>3. IsFiniteSet(All)
  BY FinitePairs
<1>4. {s} \X (1 .. n) \subseteq Ran
  <2>1. s \in Starting
    BY <1>1 DEF Starting
  <2>2. ASSUME NEW c \in {s} \X (1 .. n) PROVE c \in Ran
    <3>1. c[1] = s /\ c[2] \in 1 .. n /\ c \in All
      BY <1>2
    <3>2. c[1] \in capture[p].session /\ c[2] <= capture[p].counter
      BY <1>1, <1>2, <3>1
    <3> QED
      BY <2>1, <3>1, <3>2
  <2> QED
    BY <2>2
<1>5. CellsRun = Cardinality(Ran)
  BY DEF CellsRun
<1> HIDE DEF Run, All
<1>6. Ran \subseteq All
  OBVIOUS
<1> HIDE DEF Ran
<1>7. /\ Cardinality({s} \X (1 .. n)) \in Nat /\ Cardinality(Ran) \in Nat
      /\ Cardinality({s} \X (1 .. n)) <= Cardinality(Ran)
  BY <1>3, <1>4, <1>6, SubsetSize
<1>8. Cardinality({s} \X (1 .. n)) = n
  <2>1. n \in Nat
    BY <1>2
  <2> HIDE DEF n
  <2> QED
    BY <2>1, NumberedPairs
<1> QED
  BY <1>2, <1>5, <1>7, <1>8

-----------------------------------------------------------------------------
(* What the inserts do to the index, and a logged event to a bag.               *)
WithRow(rows, ref, payload) == { row \in rows : row.ref # ref } \cup {Row(ref, payload)}
OtherTables(i, j, table) ==
    /\ \A other \in {"sessions", "cells", "objects", "object_versions", "lineage_edges"} \ {table} :
         j[other] = i[other]
    /\ j.events = i.events

(* insert_payload of a row a hook writes: the row replaces those of its key,    *)
(* the other tables are left alone.                                             *)
LEMMA InsertedRow ==
    ASSUME NEW i \in Indexes, NEW w \in Writes, w.write = "insert"
    PROVE  LET j == insert_payload(i, w.table, w.ref, w.payload)
           IN  /\ j \in Indexes
               /\ w.table \in {"sessions", "objects", "object_versions", "lineage_edges"}
               /\ j[w.table] = WithRow(i[w.table], w.ref, w.payload)
               /\ OtherTables(i, j, w.table)
<1> DEFINE j == insert_payload(i, w.table, w.ref, w.payload)
           r == Row(w.ref, w.payload)
<1>1. PICK table \in {"sessions", "objects", "object_versions", "lineage_edges"} :
         /\ w.table = table
         /\ r \in (CASE table = "sessions" -> SessionRows
                     [] table = "objects" -> ObjectRows
                     [] table = "object_versions" -> VersionRows
                     [] table = "lineage_edges" -> EdgeRows)
  BY WriteShapes DEF Row
<1>2. j = [i EXCEPT ![w.table] = WithRow(i[w.table], w.ref, w.payload)]
  BY DEF insert_payload, WithRow, Row
<1> HIDE DEF j, r
<1>3. /\ j \in Indexes
      /\ w.table \in {"sessions", "objects", "object_versions", "lineage_edges"}
      /\ j[w.table] = WithRow(i[w.table], w.ref, w.payload)
      /\ OtherTables(i, j, w.table)
  <2>1. CASE table = "sessions"
    BY <1>1, <1>2, <2>1 DEF Indexes, WithRow, r, OtherTables
  <2>2. CASE table = "objects"
    BY <1>1, <1>2, <2>2 DEF Indexes, WithRow, r, OtherTables
  <2>3. CASE table = "object_versions"
    BY <1>1, <1>2, <2>3 DEF Indexes, WithRow, r, OtherTables
  <2>4. CASE table = "lineage_edges"
    BY <1>1, <1>2, <2>4 DEF Indexes, WithRow, r, OtherTables
  <2> QED
    BY <1>1, <2>1, <2>2, <2>3, <2>4
<1> QED
  BY <1>3 DEF j

(* insert_payload of a cell.                                                    *)
LEMMA InsertedCell ==
    ASSUME NEW i \in Indexes, NEW cell \in Cells
    PROVE  LET j == insert_payload(i, "cells", cell.cell_ref, cell)
           IN  /\ j \in Indexes
               /\ j.cells = WithRow(i.cells, cell.cell_ref, cell)
               /\ OtherTables(i, j, "cells")
<1> DEFINE j == insert_payload(i, "cells", cell.cell_ref, cell)
<1>1. j = [i EXCEPT !.cells = WithRow(i.cells, cell.cell_ref, cell)]
  BY DEF insert_payload, WithRow, Row
<1>2. Row(cell.cell_ref, cell) \in CellRows
  BY DEF Row, CellRows, Cells
<1> HIDE DEF j
<1>3. /\ j \in Indexes
      /\ j.cells = WithRow(i.cells, cell.cell_ref, cell)
      /\ OtherTables(i, j, "cells")
  BY <1>1, <1>2 DEF Indexes, WithRow, OtherTables
<1> QED
  BY <1>3 DEF j

Copies(e, B) == IF e \in DOMAIN B THEN B[e] ELSE 0

(* An event added to a bag: one copy more of it, no more of any other.          *)
LEMMA LoggedEvent ==
    ASSUME NEW B \in EventBags, NEW e \in Events
    PROVE  /\ BagAdd(B, e) \in EventBags
           /\ Copies(e, B) \in Nat
           /\ Copies(e, BagAdd(B, e)) = Copies(e, B) + 1
           /\ \A d \in Events \ {e} : Copies(d, BagAdd(B, e)) = Copies(d, B)
<1>1. PICK E \in SUBSET Events : B \in [E -> Nat \ {0}]
  BY DEF EventBags
<1>2. CASE e \in E
  <2>1. BagAdd(B, e) = [d \in E |-> IF d = e THEN B[d] + 1 ELSE B[d]]
    BY <1>1, <1>2 DEF BagAdd
  <2>2. BagAdd(B, e) \in [E -> Nat \ {0}]
    BY <1>1, <2>1
  <2>3. BagAdd(B, e) \in EventBags
    BY <1>1, <2>2 DEF EventBags
  <2>4. DOMAIN B = E /\ DOMAIN BagAdd(B, e) = E
    BY <1>1, <2>2
  <2> QED
    BY <1>1, <1>2, <2>1, <2>3, <2>4 DEF Copies
<1>3. CASE e \notin E
  <2>1. BagAdd(B, e) = [d \in E \cup {e} |-> IF d = e THEN 1 ELSE B[d]]
    BY <1>1, <1>3 DEF BagAdd
  <2>2. BagAdd(B, e) \in [E \cup {e} -> Nat \ {0}]
    BY <1>1, <2>1
  <2>3. BagAdd(B, e) \in EventBags
    <3>1. E \cup {e} \in SUBSET Events
      BY <1>1
    <3> QED
      BY <3>1, <2>2 DEF EventBags
  <2>4. DOMAIN B = E /\ DOMAIN BagAdd(B, e) = E \cup {e}
    BY <1>1, <2>2
  <2> QED
    BY <1>1, <1>3, <2>1, <2>3, <2>4 DEF Copies
<1> QED
  BY <1>2, <1>3

-----------------------------------------------------------------------------
(* What the variables hold is kept by every step.                               *)
TypeInv == Typed /\ CaptureInv

(* The initial state.                                                           *)
LEMMA TypeInit == Init => TypeInv
<1> SUFFICES ASSUME Init PROVE TypeInv
  OBVIOUS
<1>1. user_ns \in [Shells -> Bindings]
  <2>1. << >> \in [{} -> Objs] /\ {} \in SUBSET Names
    OBVIOUS
  <2>2. << >> \in Bindings
    BY <2>1, Zenon DEF Bindings
  <2> QED
    BY <2>2 DEF Init
<1>2. EmptyBag \in EventBags
  <2>1. EmptyBag \in [{} -> Nat \ {0}] /\ {} \in SUBSET Events
    BY DEF EmptyBag, SetToBag
  <2> QED
    BY <2>1, Zenon DEF EventBags
<1>3. files \in FilesSet /\ index \in Indexes
  BY <1>2 DEF Init, FilesSet, Indexes, EmptyIndex
<1>4. /\ content \in [Shells -> [Objs -> 0 .. MaxContent]]
      /\ capture \in [Shells -> Captures \cup {NoCapture}]
      /\ depth \in [Shells -> 0 .. MaxDepth]
      /\ todo \in [Shells -> Seq(Writes)]
      /\ failures \in 0 .. MaxFailures /\ crashes \in 0 .. MaxCrashes
  BY DEF Init
<1>5. CaptureInv
  BY DEF Init, CaptureInv, NoCapture
<1> QED
  BY <1>1, <1>3, <1>4, <1>5 DEF TypeInv, Typed

(* Each action in turn. start_workbench_ipython starts with a session of its    *)
(* own.                                                                         *)
LEMMA StartTyped ==
    ASSUME TypeInv, NEW p \in Shells, Start(p)
    PROVE  TypeInv'
<1>1. PICK s \in SessionRefs :
        /\ capture' = [capture EXCEPT ![p] = Capture(s, 0, {}, Values(snapshot_namespace(p)))]
        /\ todo' = [todo EXCEPT ![p] = SessionWrites(s, FALSE) \o Event(s, "session_started")]
  BY DEF Start
<1> DEFINE w == SessionWrites(s, FALSE) \o Event(s, "session_started")
           base == Values(snapshot_namespace(p))
<1>2. base \in Bases
  <2>1. PICK bound \in SUBSET Names : snapshot_namespace(p) \in [bound -> ValuesOf]
    BY SnapshotTyped DEF TypeInv, Snapshots
  <2>2. \A v \in ValuesOf : Value(v) \in [object_ref : Refs, content : 0 .. MaxContent]
    BY DEF Value, ValuesOf, Refs, Range
  <2>3. base \in [bound -> [object_ref : Refs, content : 0 .. MaxContent]]
    BY <2>1, <2>2 DEF Values
  <2> QED
    BY <2>3 DEF Bases
<1>3. /\ w \in Seq(Writes) /\ Len(w) = 4
      /\ w[1].write = "session_json" /\ w[2].write = "insert"
      /\ w[3].write = "log_event" /\ w[4].write = "insert_event"
  <2> DEFINE d == [ended |-> FALSE]
             e == << "session_started", s >>
  <2>1. /\ w \in Seq(Writes) /\ Len(w) = 4
        /\ w[1] = SessionDoc(s, d) /\ w[2] = Insert("sessions", s, d)
        /\ w[3] = EventLog(e) /\ w[4] = EventRow(e)
    BY StartWrites, Zenon DEF SessionDoc
  <2> HIDE DEF w, d, e
  <2> QED
    BY <2>1 DEF SessionDoc, Insert, EventLog, EventRow
<1> HIDE DEF w, base
<1>4. Capture(s, 0, {}, base) \in Captures
  BY <1>2 DEF Capture, Captures
<1>5. Typed'
  BY <1>1, <1>3, <1>4 DEF TypeInv, Typed, Start, disk, counts, w, base
<1>6. todo'[p] = w /\ capture'[p] = Capture(s, 0, {}, base)
  BY <1>1 DEF TypeInv, Typed, w, base
<1>7. ASSUME NEW q \in Shells, q # p PROVE todo'[q] = todo[q] /\ capture'[q] = capture[q]
  BY <1>1, <1>7 DEF TypeInv, Typed
<1>8. \A i \in 1 .. Len(w) : w[i].write \notin {"log_line", "log_cell", "insert_cell"}
  BY <1>3
<1>9. capture'[p].session = {s} /\ capture'[p].cell = {}
  BY <1>6 DEF Capture
<1>10. CaptureInv'
  BY <1>6, <1>7, <1>8, <1>9 DEF TypeInv, CaptureInv
<1> QED
  BY <1>5, <1>10 DEF TypeInv

(* unload_ipython_extension                                                     *)
LEMMA CloseTyped ==
    ASSUME TypeInv, NEW p \in Shells, Close(p)
    PROVE  TypeInv'
<1>1. PICK s \in SessionRefs : Ref(p) = s
  BY CaptureFacts DEF Close, Hooked, TypeInv
<1> DEFINE w == SessionWrites(s, TRUE)
<1>2. /\ w \in Seq(Writes) /\ Len(w) = 2
      /\ w[1].write = "session_json" /\ w[2].write = "insert"
  <2> DEFINE d == [ended |-> TRUE]
  <2>1. /\ w \in Seq(Writes) /\ Len(w) = 2
        /\ w[1] = SessionDoc(s, d) /\ w[2] = Insert("sessions", s, d)
    <3>1. TRUE \in BOOLEAN
      OBVIOUS
    <3> QED
      BY <3>1, SessionWritesTyped, Zenon DEF SessionDoc
  <2> HIDE DEF w, d
  <2> QED
    BY <2>1 DEF SessionDoc, Insert
<1> HIDE DEF w
<1>3. /\ capture' = [capture EXCEPT ![p] = NoCapture]
      /\ todo' = [todo EXCEPT ![p] = w]
  BY <1>1 DEF Close, w
<1>4. Typed'
  BY <1>2, <1>3 DEF TypeInv, Typed, Close, disk, counts
<1>5. todo'[p] = w /\ capture'[p] = NoCapture
  BY <1>3 DEF TypeInv, Typed
<1>6. ASSUME NEW q \in Shells, q # p PROVE todo'[q] = todo[q] /\ capture'[q] = capture[q]
  BY <1>3, <1>6 DEF TypeInv, Typed
<1>7. \A i \in 1 .. Len(w) : w[i].write \in {"session_json", "insert"}
  BY <1>2
<1>8. CaptureInv'
  BY <1>5, <1>6, <1>7 DEF TypeInv, CaptureInv, NoCapture
<1> QED
  BY <1>4, <1>8 DEF TypeInv

(* A capture with another counter, and one with another cell.                   *)
LEMMA Counted ==
    ASSUME NEW k \in Captures, NEW n \in 0 .. MaxCells
    PROVE  LET counted == [k EXCEPT !.counter = n]
           IN  /\ counted \in Captures /\ counted.session = k.session
               /\ counted.counter = n /\ counted.cell = k.cell
BY DEF Captures

(* A capture with another cell.                                                 *)
LEMMA Holding ==
    ASSUME NEW k \in Captures, NEW cell \in {{}} \cup {{c} : c \in CellStates}
    PROVE  LET holding == [k EXCEPT !.cell = cell]
           IN  /\ holding \in Captures /\ holding.session = k.session
               /\ holding.counter = k.counter /\ holding.cell = cell
BY DEF Captures

(* pre_run_cell, whether or not it opens a cell.                                *)
LEMMA RunCellTyped ==
    ASSUME TypeInv, NEW p \in Shells, RunCell(p)
    PROVE  TypeInv'
<1>1. /\ capture[p].session # {} /\ todo[p] = << >> /\ CellsRun < MaxCells
      /\ depth[p] < MaxDepth /\ depth' = [depth EXCEPT ![p] = @ + 1]
      /\ UNCHANGED << user_ns, content, todo, files, index, crashes >>
  BY DEF RunCell, Hooked, disk
<1>2. capture[p] \in Captures /\ capture[p].counter + 1 \in 1 .. MaxCells
  <2>1. capture[p] \in Captures
    BY <1>1, CaptureFacts DEF TypeInv
  <2>2. capture[p].counter + 1 <= MaxCells
    BY <1>1, CellsBound DEF TypeInv
  <2> QED
    BY <2>1, <2>2 DEF Captures
<1> DEFINE k == capture[p]
           n == capture[p].counter + 1
           counted == [k EXCEPT !.counter = n]
           opened == [counted EXCEPT !.cell = {NewCell(p)}]
<1>3. NewCell(p) \in CellStates /\ NewCell(p).ref = n
  <2>1. snapshot_namespace(p) \in Snapshots
    BY SnapshotTyped DEF TypeInv
  <2> QED
    BY <1>2, <2>1 DEF NewCell, CellStates
<1>6. /\ failures' \in 0 .. MaxFailures
      /\ \/ capture' = [capture EXCEPT ![p] = opened]
         \/ capture' = [capture EXCEPT ![p] = counted]
  BY DEF RunCell, TypeInv, Typed
<1> HIDE DEF k, n
<1>4. counted \in Captures /\ counted.session = k.session /\ counted.counter = n /\ counted.cell = k.cell
  <2>1. k \in Captures /\ n \in 0 .. MaxCells
    BY <1>2 DEF k, n
  <2> QED
    BY <2>1, Counted
<1> HIDE DEF counted
<1>5. opened \in Captures /\ opened.session = k.session /\ opened.counter = n
      /\ opened.cell = {NewCell(p)}
  <2>1. 0 \in 0 .. MaxCells /\ {NewCell(p)} \in {{}} \cup {{c} : c \in CellStates}
    BY <1>3
  <2> QED
    BY <2>1, <1>4, Holding
<1> HIDE DEF opened
<1>7. Typed'
  <2>1. capture' \in [Shells -> Captures \cup {NoCapture}]
    BY <1>4, <1>5, <1>6 DEF TypeInv, Typed
  <2>2. depth' \in [Shells -> 0 .. MaxDepth]
    BY <1>1 DEF TypeInv, Typed
  <2> QED
    BY <1>1, <1>6, <2>1, <2>2 DEF TypeInv, Typed
<1>8. \A c \in capture'[p].cell : c.ref <= capture'[p].counter
  <2>1. \A c \in capture[p].cell : c.ref <= capture[p].counter
    BY <1>1 DEF TypeInv, CaptureInv
  <2>2. \A c \in capture[p].cell : c.ref \in Nat
    BY <1>2 DEF Captures, CellStates
  <2>3. capture[p].counter \in Nat
    BY <1>2 DEF Captures
  <2>4. capture'[p] = opened \/ capture'[p] = counted
    BY <1>6 DEF TypeInv, Typed
  <2>5. CASE capture'[p] = opened
    BY <2>5, <2>3, <1>3, <1>5 DEF n
  <2>6. CASE capture'[p] = counted
    BY <2>6, <2>1, <2>2, <2>3, <1>4 DEF k, n
  <2> QED
    BY <2>4, <2>5, <2>6
<1>9. ASSUME NEW q \in Shells, q # p PROVE capture'[q] = capture[q]
  BY <1>6, <1>9 DEF TypeInv, Typed
<1>10. todo' = todo /\ todo[p] = << >> /\ Len(<< >>) = 0
  BY <1>1
<1>11. CaptureInv'
  BY <1>8, <1>9, <1>10 DEF TypeInv, CaptureInv
<1> QED
  BY <1>7, <1>11 DEF TypeInv

(* The code of a cell.                                                          *)
LEMMA CodeTyped ==
    ASSUME TypeInv, NEW p \in Shells,
           \/ \E name \in Names, obj \in Objs : Bind(p, name, obj)
           \/ \E name \in Names : Unbind(p, name)
           \/ \E obj \in Objs : Mutate(p, obj)
    PROVE  TypeInv'
<1>1. UNCHANGED << capture, depth, todo, files, index, failures, crashes >>
  BY DEF Bind, Unbind, Mutate, disk, counts
<1>2. CaptureInv'
  BY <1>1 DEF TypeInv, CaptureInv
<1>3. PICK bound \in SUBSET Names : user_ns[p] \in [bound -> Objs]
  BY DEF TypeInv, Typed, Bindings
<1>4. user_ns' \in [Shells -> Bindings]
  <2>1. ASSUME NEW name \in Names, NEW obj \in Objs, Bind(p, name, obj)
        PROVE  user_ns' \in [Shells -> Bindings]
    <3> DEFINE bindings == [n \in DOMAIN user_ns[p] \cup {name} |->
                              IF n = name THEN obj ELSE user_ns[p][n]]
    <3>1. bindings \in [bound \cup {name} -> Objs]
      BY <1>3
    <3>2. bindings \in Bindings
      <4>1. bound \cup {name} \in SUBSET Names
        OBVIOUS
      <4> HIDE DEF bindings
      <4> QED
        BY <3>1, <4>1 DEF Bindings
    <3>3. user_ns' = [user_ns EXCEPT ![p] = bindings]
      BY <2>1 DEF Bind
    <3> QED
      BY <3>2, <3>3 DEF TypeInv, Typed
  <2>2. ASSUME NEW name \in Names, Unbind(p, name)
        PROVE  user_ns' \in [Shells -> Bindings]
    <3> DEFINE bindings == [n \in DOMAIN user_ns[p] \ {name} |-> user_ns[p][n]]
    <3>1. bindings \in [bound \ {name} -> Objs]
      BY <1>3
    <3>2. bindings \in Bindings
      BY <3>1, Zenon DEF Bindings
    <3>3. user_ns' = [user_ns EXCEPT ![p] = bindings]
      BY <2>2 DEF Unbind
    <3> QED
      BY <3>2, <3>3 DEF TypeInv, Typed
  <2>3. ASSUME NEW obj \in Objs, Mutate(p, obj)
        PROVE  user_ns' \in [Shells -> Bindings]
    BY <2>3 DEF Mutate, TypeInv, Typed
  <2> QED
    BY <2>1, <2>2, <2>3
<1>5. content' \in [Shells -> [Objs -> 0 .. MaxContent]]
  <2>1. ASSUME NEW obj \in Objs, Mutate(p, obj)
        PROVE  content' \in [Shells -> [Objs -> 0 .. MaxContent]]
    <3>1. content[p] \in [Objs -> 0 .. MaxContent] /\ content[p][obj] + 1 \in 0 .. MaxContent
      BY <2>1 DEF Mutate, TypeInv, Typed
    <3>2. [content[p] EXCEPT ![obj] = @ + 1] \in [Objs -> 0 .. MaxContent]
      BY <3>1
    <3>3. content' = [content EXCEPT ![p] = [content[p] EXCEPT ![obj] = @ + 1]]
      BY <2>1 DEF Mutate
    <3> QED
      BY <3>2, <3>3 DEF TypeInv, Typed
  <2> QED
    BY <2>1 DEF Bind, Unbind, TypeInv, Typed
<1> QED
  BY <1>1, <1>2, <1>4, <1>5 DEF TypeInv, Typed

(* post_run_cell finds writes for the session and the cell it has.              *)
LEMMA PostRunCellTyped ==
    ASSUME TypeInv, NEW p \in Shells, PostRunCell(p)
    PROVE  TypeInv'
<1>1. /\ capture[p].session # {} /\ todo[p] = << >> /\ depth[p] > 0
      /\ depth' = [depth EXCEPT ![p] = @ - 1]
      /\ UNCHANGED << user_ns, content, capture, files, index, failures, crashes >>
  BY DEF PostRunCell, Hooked, disk, counts
<1>2. \E L \in Seq(Writes) :
        /\ todo' = [todo EXCEPT ![p] = L]
        /\ capture[p].cell = {} => L = << >>
  <2>1. CASE capture[p].cell = {}
    <3>1. todo' = [todo EXCEPT ![p] = << >>] /\ << >> \in Seq(Writes)
      BY <2>1 DEF PostRunCell
    <3> QED
      BY <3>1
  <2>2. CASE capture[p].cell # {}
    <3>1. PICK s \in SessionRefs, c \in CellStates :
            capture[p].session = {s} /\ capture[p].cell = {c}
      BY <1>1, <2>2, CaptureFacts DEF TypeInv
    <3>2. CellHook(PostRunWrites(p), s, c.ref)
      BY <3>1, PostRunHook DEF TypeInv
    <3>3. todo' = [todo EXCEPT ![p] = PostRunWrites(p)]
      BY <2>2 DEF PostRunCell
    <3> QED
      BY <2>2, <3>2, <3>3 DEF CellHook
  <2> QED
    BY <2>1, <2>2
<1>3. PICK L \in Seq(Writes) : todo' = [todo EXCEPT ![p] = L] /\ (capture[p].cell = {} => L = << >>)
  BY <1>2
<1>4. Typed'
  <2>1. depth' \in [Shells -> 0 .. MaxDepth]
    BY <1>1 DEF TypeInv, Typed
  <2> QED
    BY <1>1, <1>3, <2>1 DEF TypeInv, Typed
<1>5. todo'[p] = L /\ \A q \in Shells \ {p} : todo'[q] = todo[q]
  BY <1>3 DEF TypeInv, Typed
<1>6. capture[p].cell = {} => Len(L) = 0
  BY <1>3
<1>7. CaptureInv'
  BY <1>1, <1>5, <1>6 DEF TypeInv, CaptureInv
<1> QED
  BY <1>4, <1>7 DEF TypeInv

(* A write leaves the hook with the writes after it.                            *)
LEMMA NextWrite ==
    ASSUME TypeInv, NEW p \in Shells, todo[p] # << >>, Next1(p)
    PROVE  /\ todo' \in [Shells -> Seq(Writes)]
           /\ todo'[p] = Tail(todo[p])
           /\ \A q \in Shells \ {p} : todo'[q] = todo[q]
           /\ \A q \in Shells : \A i \in 1 .. Len(todo'[q]) :
                \E j \in 1 .. Len(todo[q]) : todo'[q][i] = todo[q][j]
<1>1. /\ todo' = [todo EXCEPT ![p] = Tail(todo[p])]
      /\ todo \in [Shells -> Seq(Writes)]
  BY DEF Next1, TypeInv, Typed
<1>2. /\ Tail(todo[p]) \in Seq(Writes)
      /\ \A i \in 1 .. Len(Tail(todo[p])) :
           i + 1 \in 1 .. Len(todo[p]) /\ Tail(todo[p])[i] = todo[p][i + 1]
  BY DueFacts DEF TypeInv
<1>3. todo'[p] = Tail(todo[p]) /\ \A q \in Shells \ {p} : todo'[q] = todo[q]
  BY <1>1
<1>4. ASSUME NEW q \in Shells, NEW i \in 1 .. Len(todo'[q])
      PROVE  \E j \in 1 .. Len(todo[q]) : todo'[q][i] = todo[q][j]
  <2>1. CASE q = p
    BY <2>1, <1>2, <1>3
  <2>2. CASE q # p
    BY <2>2, <1>3
  <2> QED
    BY <2>1, <2>2
<1>5. todo' \in [Shells -> Seq(Writes)]
  BY <1>1, <1>2
<1> QED
  BY <1>3, <1>4, <1>5

(* A write that keeps the session, and the cell while there is more to write,   *)
(* keeps what is due backed by them.                                            *)
LEMMA NextWriteCapture ==
    ASSUME TypeInv, NEW p \in Shells, todo[p] # << >>, Next1(p),
           \A q \in Shells :
             /\ capture'[q].session = capture[q].session
             /\ capture'[q].counter = capture[q].counter
             /\ capture[q].cell # {} /\ todo'[q] # << >> => capture'[q].cell # {}
             /\ \A c \in capture'[q].cell : c.ref <= capture[q].counter
                                           \/ c \in capture[q].cell
    PROVE  CaptureInv'
<1>1. ASSUME NEW q \in Shells, NEW i \in 1 .. Len(todo'[q])
      PROVE  /\ todo'[q][i].write \notin {"session_json", "insert"} => capture'[q].session # {}
             /\ todo'[q][i].write \in {"log_line", "log_cell", "insert_cell"} => capture'[q].cell # {}
  <2>1. PICK j \in 1 .. Len(todo[q]) : todo'[q][i] = todo[q][j]
    BY NextWrite
  <2>2. todo'[q] # << >>
    BY <1>1
  <2> QED
    BY <2>1, <2>2 DEF TypeInv, CaptureInv
<1>2. ASSUME NEW q \in Shells, capture'[q].session # {}, NEW c \in capture'[q].cell
      PROVE  c.ref <= capture'[q].counter
  BY <1>2 DEF TypeInv, CaptureInv
<1> QED
  BY <1>1, <1>2 DEF CaptureInv

(* session.json and events.jsonl.                                               *)
LEMMA FileWriteTyped ==
    ASSUME TypeInv, NEW p \in Shells, WriteSessionJson(p) \/ LogEvent(p)
    PROVE  TypeInv'
<1>1. /\ todo[p] # << >> /\ Next1(p)
      /\ UNCHANGED << user_ns, content, capture, depth, index, failures, crashes >>
  BY DEF WriteSessionJson, LogEvent, Due, counts
<1>2. Head(todo[p]) \in Writes
  BY <1>1, DueFacts DEF TypeInv
<1>3. CASE WriteSessionJson(p)
  <2> DEFINE w == Head(todo[p])
  <2>1. w.session \in SessionRefs /\ w.doc \in Docs
    BY <1>2, <1>3, WriteShapes DEF WriteSessionJson, Due
  <2>2. files' = [files EXCEPT !.session_json[w.session] = {w.doc}]
    BY <1>3 DEF WriteSessionJson
  <2> HIDE DEF w
  <2>3. files' \in FilesSet
    BY <2>1, <2>2 DEF TypeInv, Typed, FilesSet
  <2>4. CaptureInv'
    BY <1>1, NextWriteCapture DEF TypeInv, CaptureInv
  <2> QED
    BY <1>1, <2>3, <2>4, NextWrite DEF TypeInv, Typed
<1>4. CASE LogEvent(p)
  <2> DEFINE e == Head(todo[p]).event
  <2>1. e \in Events
    BY <1>2, <1>4, WriteShapes DEF LogEvent, Due
  <2>2. files' = [files EXCEPT !.events_jsonl = BagAdd(files.events_jsonl, e)]
    BY <1>4 DEF LogEvent
  <2> HIDE DEF e
  <2>3. BagAdd(files.events_jsonl, e) \in EventBags
    <3>1. files.events_jsonl \in EventBags
      BY DEF TypeInv, Typed, FilesSet
    <3> QED
      BY <2>1, <3>1, LoggedEvent
  <2>4. files' \in FilesSet
    BY <2>2, <2>3 DEF TypeInv, Typed, FilesSet
  <2>5. CaptureInv'
    BY <1>1, NextWriteCapture DEF TypeInv, CaptureInv
  <2> QED
    BY <1>1, <2>4, <2>5, NextWrite DEF TypeInv, Typed
<1> QED
  BY <1>3, <1>4

(* Rows of sessions and of lines.                                               *)
LEMMA InsertRowTyped ==
    ASSUME TypeInv, NEW p \in Shells, InsertRow(p)
    PROVE  TypeInv'
<1> DEFINE w == Head(todo[p])
<1>1. /\ todo[p] # << >> /\ Next1(p) /\ w.write = "insert"
      /\ index' = insert_payload(index, w.table, w.ref, w.payload)
      /\ UNCHANGED << user_ns, content, capture, depth, files, failures, crashes >>
  BY DEF InsertRow, Due, counts
<1>2. w \in Writes
  BY <1>1, DueFacts DEF TypeInv
<1> HIDE DEF w
<1>3. index' \in Indexes
  BY <1>1, <1>2, InsertedRow DEF TypeInv, Typed
<1>4. CaptureInv'
  BY <1>1, NextWriteCapture DEF TypeInv, CaptureInv
<1> QED
  BY <1>1, <1>3, <1>4, NextWrite DEF TypeInv, Typed

(* Rows of events, the last of which drops the cell.                            *)
LEMMA InsertEventTyped ==
    ASSUME TypeInv, NEW p \in Shells, InsertEvent(p)
    PROVE  TypeInv'
<1> DEFINE w == Head(todo[p])
<1>1. /\ todo[p] # << >> /\ Next1(p) /\ w.write = "insert_event"
      /\ index' = [index EXCEPT !.events = BagAdd(index.events, w.event)]
      /\ UNCHANGED << user_ns, content, depth, files, failures, crashes >>
  BY DEF InsertEvent, Due, counts, insert_event
<1>2. w \in Writes /\ w = todo[p][1] /\ 1 \in 1 .. Len(todo[p])
  BY <1>1, DueFacts DEF TypeInv
<1> HIDE DEF w
<1>3. index' \in Indexes
  <2>1. w.event \in Events /\ index.events \in EventBags
    BY <1>1, <1>2, WriteShapes DEF TypeInv, Typed, Indexes
  <2>2. BagAdd(index.events, w.event) \in EventBags
    BY <2>1, LoggedEvent
  <2> QED
    BY <1>1, <2>2 DEF TypeInv, Typed, Indexes
<1>4. capture[p].session # {} /\ capture[p] \in Captures
  <2>1. capture[p].session # {}
    BY <1>1, <1>2 DEF TypeInv, CaptureInv
  <2> QED
    BY <2>1, CaptureFacts DEF TypeInv
<1>5. /\ capture' \in [Shells -> Captures \cup {NoCapture}]
      /\ \A q \in Shells :
           /\ capture'[q].session = capture[q].session
           /\ capture'[q].counter = capture[q].counter
           /\ capture[q].cell # {} /\ todo'[q] # << >> => capture'[q].cell # {}
           /\ \A c \in capture'[q].cell : c \in capture[q].cell
  <2> DEFINE k == capture[p]
             emptied == [k EXCEPT !.cell = {}]
  <2>1. CASE Len(todo[p]) = 1
    <3>1. capture' = [capture EXCEPT ![p] = emptied]
      BY <2>1 DEF InsertEvent
    <3> HIDE DEF k
    <3>2. emptied \in Captures /\ emptied.session = k.session /\ emptied.counter = k.counter
          /\ emptied.cell = {}
      <4>1. k \in Captures /\ 0 \in 0 .. MaxCells /\ {} \in {{}} \cup {{c} : c \in CellStates}
        BY <1>4 DEF k
      <4> QED
        BY <4>1, Holding
    <3>3. todo'[p] = << >>
      <4>1. Len(Tail(todo[p])) = 0 /\ Tail(todo[p]) \in Seq(Writes)
        BY <1>1, <2>1, DueFacts DEF TypeInv
      <4>2. Tail(todo[p]) = << >>
        BY <4>1, EmptyByLength
      <4> QED
        BY <1>1, <4>2, NextWrite
    <3> HIDE DEF emptied
    <3>4. capture'[p] = emptied /\ \A q \in Shells \ {p} : capture'[q] = capture[q]
      BY <3>1 DEF TypeInv, Typed
    <3>5. capture' \in [Shells -> Captures \cup {NoCapture}]
      BY <3>1, <3>2 DEF TypeInv, Typed
    <3> QED
      BY <3>2, <3>3, <3>4, <3>5 DEF k
  <2>2. CASE Len(todo[p]) # 1
    BY <2>2 DEF InsertEvent, TypeInv, Typed
  <2> QED
    BY <2>1, <2>2
<1>6. CaptureInv'
  BY <1>1, <1>5, NextWriteCapture
<1> QED
  BY <1>1, <1>3, <1>5, <1>6, NextWrite DEF TypeInv, Typed

(* The cell after a line of it is logged.                                       *)
NotedRefs(line, event) == IF line.event = event THEN {line.object_ref} ELSE {}
NotedCell(c, line) ==
    [c EXCEPT !.created_object_refs = @ \cup NotedRefs(line, "object_registered"),
              !.mutated_object_refs = @ \cup NotedRefs(line, "object_mutated")]

(* What a cell lists after a line is noted in it.                               *)
LEMMA NotedCellTyped ==
    ASSUME NEW c \in CellStates, NEW line \in Lines
    PROVE  LET cell == NotedCell(c, line)
           IN  /\ cell \in CellStates /\ cell.ref = c.ref
               /\ cell.created_object_refs =
                    c.created_object_refs \cup NotedRefs(line, "object_registered")
               /\ cell.mutated_object_refs =
                    c.mutated_object_refs \cup NotedRefs(line, "object_mutated")
<1>1. /\ NotedRefs(line, "object_registered") \subseteq Refs
      /\ NotedRefs(line, "object_mutated") \subseteq Refs
  BY DEF NotedRefs, Lines
<1> QED
  BY <1>1 DEF NotedCell, CellStates

(* A line is logged to the session of the capture and noted in its cell.        *)
LEMMA LogLineEffect ==
    ASSUME TypeInv, NEW p \in Shells, LogLine(p)
    PROVE  \E s \in SessionRefs, c \in CellStates, held \in Captures :
             /\ todo[p] # << >> /\ Head(todo[p]) = todo[p][1]
             /\ todo[p][1].write = "log_line" /\ todo[p][1].line \in Lines
             /\ capture[p].session = {s} /\ capture[p].cell = {c} /\ Current(p) = c
             /\ capture[p] \in Captures
             /\ held.session = {s} /\ held.counter = capture[p].counter
             /\ held.cell = {NotedCell(c, todo[p][1].line)}
             /\ capture' = [capture EXCEPT ![p] = held] /\ capture'[p] = held
             /\ \A q \in Shells \ {p} : capture'[q] = capture[q]
             /\ files' = [files EXCEPT !.namespace_jsonl[s] =
                            Append(files.namespace_jsonl[s], todo[p][1].line)]
<1> DEFINE w == Head(todo[p])
           line == w.line
<1>1. todo[p] # << >> /\ w.write = "log_line"
  BY DEF LogLine, Due
<1>2. w \in Writes /\ w = todo[p][1] /\ 1 \in 1 .. Len(todo[p])
  BY <1>1, DueFacts DEF TypeInv
<1> HIDE DEF w
<1>3. line \in Lines
  BY <1>1, <1>2, WriteShapes
<1>4. capture[p].session # {} /\ capture[p].cell # {}
  BY <1>1, <1>2 DEF TypeInv, CaptureInv
<1>5. PICK s \in SessionRefs, c \in CellStates :
        /\ capture[p].session = {s} /\ Ref(p) = s
        /\ capture[p].cell = {c} /\ Current(p) = c
        /\ capture[p] \in Captures
  BY <1>4, CaptureFacts DEF TypeInv
<1> DEFINE cell == NotedCell(c, line)
           k == capture[p]
           held == [k EXCEPT !.cell = {cell}]
<1>6. cell \in CellStates
  BY <1>3, NotedCellTyped
<1>7. /\ files' = [files EXCEPT !.namespace_jsonl[s] = Append(files.namespace_jsonl[s], line)]
      /\ capture' = [capture EXCEPT ![p] = held]
  BY <1>5 DEF LogLine, NotedCell, NotedRefs, w
<1> HIDE DEF cell, k
<1>8. /\ held \in Captures /\ held.session = k.session
      /\ held.counter = k.counter /\ held.cell = {cell}
  <2>1. k \in Captures /\ {cell} \in {{}} \cup {{x} : x \in CellStates}
    BY <1>5, <1>6 DEF k
  <2> QED
    BY <2>1, Holding
<1> HIDE DEF held
<1>9. capture'[p] = held /\ \A q \in Shells \ {p} : capture'[q] = capture[q]
  BY <1>7 DEF TypeInv, Typed
<1>10. k = capture[p] /\ cell = NotedCell(c, line) /\ w = Head(todo[p])
  BY DEF k, cell, w
<1>11. todo[p] # << >> /\ Head(todo[p]) = todo[p][1] /\ w = todo[p][1]
  BY <1>1, <1>2, <1>10, Zenon
<1>12. todo[p][1].write = "log_line" /\ todo[p][1].line \in Lines /\ line = todo[p][1].line
  BY <1>1, <1>3, <1>11, Zenon
<1>13. /\ held.session = {s} /\ held.counter = capture[p].counter
       /\ held.cell = {NotedCell(c, todo[p][1].line)}
  BY <1>5, <1>8, <1>10, <1>12, Zenon
<1>14. files' = [files EXCEPT !.namespace_jsonl[s] =
                    Append(files.namespace_jsonl[s], todo[p][1].line)]
  BY <1>7, <1>12, Zenon
<1> HIDE DEF line
<1> QED
  BY <1>5, <1>7, <1>8, <1>9, <1>11, <1>12, <1>13, <1>14, Zenon

(* namespace_objects.jsonl                                                      *)
LEMMA LogLineTyped ==
    ASSUME TypeInv, NEW p \in Shells, LogLine(p)
    PROVE  TypeInv'
<1>1. PICK s \in SessionRefs, c \in CellStates, held \in Captures :
        /\ todo[p] # << >> /\ Head(todo[p]) = todo[p][1]
        /\ todo[p][1].write = "log_line" /\ todo[p][1].line \in Lines
        /\ capture[p].session = {s} /\ capture[p].cell = {c} /\ Current(p) = c
        /\ capture[p] \in Captures
        /\ held.session = {s} /\ held.counter = capture[p].counter
        /\ held.cell = {NotedCell(c, todo[p][1].line)}
        /\ capture' = [capture EXCEPT ![p] = held] /\ capture'[p] = held
        /\ \A q \in Shells \ {p} : capture'[q] = capture[q]
        /\ files' = [files EXCEPT !.namespace_jsonl[s] =
                       Append(files.namespace_jsonl[s], todo[p][1].line)]
  BY LogLineEffect, Zenon
<1> DEFINE line == todo[p][1].line
<1>2. /\ todo[p] # << >> /\ Next1(p)
      /\ UNCHANGED << user_ns, content, depth, index, failures, crashes >>
  BY DEF LogLine, Due, counts
<1>3. files' \in FilesSet
  <2>1. Append(files.namespace_jsonl[s], line) \in Seq(Lines)
    <3>1. files.namespace_jsonl[s] \in Seq(Lines)
      BY DEF TypeInv, Typed, FilesSet
    <3> QED
      BY <1>1, <3>1
  <2> QED
    BY <1>1, <2>1 DEF TypeInv, Typed, FilesSet
<1>4. capture' \in [Shells -> Captures \cup {NoCapture}]
  BY <1>1 DEF TypeInv, Typed
<1>5. NotedCell(c, line).ref = c.ref
  BY <1>1, NotedCellTyped
<1>6. c.ref <= capture[p].counter
  BY <1>1 DEF TypeInv, CaptureInv
<1>7. CaptureInv'
  <2>1. ASSUME NEW q \in Shells
        PROVE  /\ capture'[q].session = capture[q].session
               /\ capture'[q].counter = capture[q].counter
               /\ capture[q].cell # {} /\ todo'[q] # << >> => capture'[q].cell # {}
               /\ \A d \in capture'[q].cell : d.ref <= capture[q].counter \/ d \in capture[q].cell
    BY <1>1, <1>5, <1>6
  <2> QED
    BY <1>2, <2>1, NextWriteCapture
<1> QED
  BY <1>2, <1>3, <1>4, <1>7, NextWrite DEF TypeInv, Typed

(* The record of the current cell.                                              *)
LEMMA CellRecordTyped ==
    ASSUME TypeInv, NEW p \in Shells, NEW s \in SessionRefs, NEW c \in CellStates,
           capture[p].session = {s}, capture[p].cell = {c}
    PROVE  /\ CellRecord(p) = [cell_ref |-> c.ref, session_ref |-> s,
                               created_object_refs |-> c.created_object_refs,
                               mutated_object_refs |-> c.mutated_object_refs]
           /\ CellRecord(p) \in Cells
<1>1. Ref(p) = s /\ Current(p) = c
  BY DEF Ref, Current
<1>2. CellRecord(p) = [cell_ref |-> c.ref, session_ref |-> s,
                       created_object_refs |-> c.created_object_refs,
                       mutated_object_refs |-> c.mutated_object_refs]
  BY <1>1 DEF CellRecord
<1> QED
  BY <1>2 DEF Cells, CellStates

(* cells.jsonl and the row of a cell.                                           *)
LEMMA CellWriteTyped ==
    ASSUME TypeInv, NEW p \in Shells, LogCell(p) \/ InsertCell(p)
    PROVE  TypeInv'
<1>1. /\ todo[p] # << >> /\ Next1(p) /\ Head(todo[p]).write \in {"log_cell", "insert_cell"}
      /\ UNCHANGED << user_ns, content, capture, depth, failures, crashes >>
  BY DEF LogCell, InsertCell, Due, counts
<1>2. Head(todo[p]) = todo[p][1] /\ 1 \in 1 .. Len(todo[p])
  BY <1>1, DueFacts DEF TypeInv
<1>3. PICK s \in SessionRefs, c \in CellStates :
        capture[p].session = {s} /\ capture[p].cell = {c} /\ Ref(p) = s /\ Current(p) = c
  <2>1. capture[p].session # {} /\ capture[p].cell # {}
    BY <1>1, <1>2 DEF TypeInv, CaptureInv
  <2> QED
    BY <2>1, CaptureFacts DEF TypeInv
<1>4. CellRecord(p) \in Cells /\ CellRecord(p).cell_ref = c.ref
  BY <1>3, CellRecordTyped
<1>5. CaptureInv'
  BY <1>1, NextWriteCapture DEF TypeInv, CaptureInv
<1>6. CASE LogCell(p)
  <2>1. Append(files.cells_jsonl[s], CellRecord(p)) \in Seq(Cells)
    <3>1. files.cells_jsonl[s] \in Seq(Cells)
      BY DEF TypeInv, Typed, FilesSet
    <3> QED
      BY <1>4, <3>1
  <2>2. /\ files' = [files EXCEPT !.cells_jsonl[s] = Append(files.cells_jsonl[s], CellRecord(p))]
        /\ index' = index
    BY <1>3, <1>6 DEF LogCell
  <2>3. files' \in FilesSet
    BY <2>1, <2>2 DEF TypeInv, Typed, FilesSet
  <2> QED
    BY <1>1, <1>5, <2>2, <2>3, NextWrite DEF TypeInv, Typed
<1>7. CASE InsertCell(p)
  <2>1. /\ index' = insert_payload(index, "cells", CellRecord(p).cell_ref, CellRecord(p))
        /\ files' = files
    BY <1>3, <1>4, <1>7 DEF InsertCell
  <2>2. index' \in Indexes
    BY <1>4, <2>1, InsertedCell DEF TypeInv, Typed
  <2> QED
    BY <1>1, <1>5, <2>1, <2>2, NextWrite DEF TypeInv, Typed
<1> QED
  BY <1>6, <1>7

(* A hook that is cut short.                                                    *)
LEMMA CutTyped ==
    ASSUME TypeInv, NEW p \in Shells, Fail(p) \/ Exit(p) \/ Crash(p)
    PROVE  TypeInv'
<1>1. /\ todo' = [todo EXCEPT ![p] = << >>] /\ UNCHANGED << files, index >>
      /\ capture' = capture \/ capture' = [capture EXCEPT ![p] = NoCapture]
  BY DEF Fail, Exit, Crash, Gone, disk
<1>2. /\ user_ns' \in [Shells -> Bindings]
      /\ content' \in [Shells -> [Objs -> 0 .. MaxContent]]
      /\ depth' \in [Shells -> 0 .. MaxDepth]
  <2>1. << >> \in Bindings
    <3>1. << >> \in [{} -> Objs] /\ {} \in SUBSET Names
      OBVIOUS
    <3> QED
      BY <3>1, Zenon DEF Bindings
  <2>2. [o \in Objs |-> 0] \in [Objs -> 0 .. MaxContent] /\ 0 \in 0 .. MaxDepth
    OBVIOUS
  <2>3. \/ UNCHANGED << user_ns, content, depth >>
        \/ /\ user_ns' = [user_ns EXCEPT ![p] = << >>]
           /\ content' = [content EXCEPT ![p] = [o \in Objs |-> 0]]
           /\ depth' = [depth EXCEPT ![p] = 0]
    BY DEF Fail, Exit, Crash, Gone
  <2>4. /\ user_ns \in [Shells -> Bindings]
        /\ content \in [Shells -> [Objs -> 0 .. MaxContent]]
        /\ depth \in [Shells -> 0 .. MaxDepth]
    BY DEF TypeInv, Typed
  <2> QED
    BY <2>1, <2>2, <2>3, <2>4
<1>3. failures' \in 0 .. MaxFailures /\ crashes' \in 0 .. MaxCrashes
  BY DEF Fail, Exit, Crash, counts, TypeInv, Typed
<1>4. Typed'
  <2>1. todo' \in [Shells -> Seq(Writes)]
    BY <1>1 DEF TypeInv, Typed
  <2>2. capture' \in [Shells -> Captures \cup {NoCapture}]
    BY <1>1 DEF TypeInv, Typed
  <2> QED
    BY <1>1, <1>2, <1>3, <2>1, <2>2 DEF TypeInv, Typed
<1>5. todo'[p] = << >> /\ \A q \in Shells \ {p} : todo'[q] = todo[q]
  BY <1>1 DEF TypeInv, Typed
<1>6. \A q \in Shells \ {p} : capture'[q] = capture[q]
  BY <1>1 DEF TypeInv, Typed
<1>7. capture'[p] = capture[p] \/ capture'[p] = NoCapture
  BY <1>1 DEF TypeInv, Typed
<1>8. CaptureInv'
  <2>1. NoCapture.session = {} /\ Len(<< >>) = 0
    BY DEF NoCapture
  <2> QED
    BY <1>5, <1>6, <1>7, <2>1 DEF TypeInv, CaptureInv
<1> QED
  BY <1>4, <1>8 DEF TypeInv

(* Every step.                                                                  *)
LEMMA TypeInductive == TypeInv /\ [Next]_vars => TypeInv'
<1> SUFFICES ASSUME TypeInv, [Next]_vars PROVE TypeInv'
  OBVIOUS
<1>1. ASSUME NEW p \in Shells, Step(p) PROVE TypeInv'
  BY <1>1, StartTyped, CloseTyped, RunCellTyped, PostRunCellTyped, CodeTyped, FileWriteTyped,
     InsertRowTyped, InsertEventTyped, LogLineTyped, CellWriteTyped, CutTyped DEF Step
<1>2. CASE UNCHANGED others
  BY <1>2 DEF others, TypeInv, Typed, CaptureInv
<1> QED
  BY <1>1, <1>2, NextSteps

(* In every reachable state the variables hold what the hooks put there, and    *)
(* what a hook has left to write is backed by its session and its cell.         *)
THEOREM TypeInvariant == Spec => []TypeInv
<1> QED
  BY TypeInit, TypeInductive, PTL DEF Spec

(* The half records of the files there are.                                     *)
LEMMA TornTyped ==
    TypeInv /\ torn \subseteq TornFiles /\ [Next]_vars => torn' \subseteq TornFiles
<1> SUFFICES ASSUME TypeInv, torn \subseteq TornFiles, [Next]_vars PROVE torn' \subseteq TornFiles
  OBVIOUS
<1>1. ASSUME NEW p \in Shells, OpenSessionJson(p) PROVE torn' \subseteq TornFiles
  <2>1. todo[p] # << >> /\ Head(todo[p]).write = "session_json"
    BY <1>1 DEF OpenSessionJson, Due
  <2>2. Head(todo[p]) \in Writes
    BY <2>1, DueFacts DEF TypeInv
  <2>3. Head(todo[p]).session \in SessionRefs
    BY <2>1, <2>2, WriteShapes
  <2> QED
    BY <1>1, <2>3 DEF OpenSessionJson, SessionJson, TornFiles
<1>2. ASSUME NEW p \in Shells, CutShort(p) PROVE torn' \subseteq TornFiles
  <2>1. HalfLine(p) \subseteq TornFiles
    <3>1. ASSUME Due(p, "log_line") \/ Due(p, "log_cell") PROVE Ref(p) \in SessionRefs
      <4>1. todo[p] # << >> /\ Head(todo[p]).write \in {"log_line", "log_cell"}
        BY <3>1 DEF Due
      <4>2. 1 \in 1 .. Len(todo[p]) /\ Head(todo[p]) = todo[p][1]
        BY <4>1, DueFacts DEF TypeInv
      <4>3. capture[p].session # {}
        BY <4>1, <4>2 DEF TypeInv, CaptureInv
      <4> QED
        BY <4>3, CaptureFacts DEF TypeInv
    <3> QED
      BY <3>1 DEF HalfLine, TornFiles
  <2> QED
    BY <1>2, <2>1 DEF CutShort
<1>3. ASSUME NEW p \in Shells, Step(p) PROVE torn' \subseteq torn \/ CutShort(p)
  BY <1>3 DEF Step, Start, Close, RunCell, PostRunCell, Bind, Unbind, Mutate, WriteSessionJson,
              InsertRow, LogEvent, InsertEvent, LogLine, LogCell, InsertCell, Fail, Exit, Crash,
              disk
<1> QED
  BY <1>1, <1>2, <1>3 DEF Next, vars

(* TypeOK states a part of it.                                                  *)
LEMMA TypeImplies == TypeInv /\ torn \subseteq TornFiles => TypeOK
<1> SUFFICES ASSUME TypeInv, torn \subseteq TornFiles PROVE TypeOK
  OBVIOUS
<1>1. ASSUME NEW p \in Shells, capture[p] # NoCapture
      PROVE  /\ capture[p].session \subseteq SessionRefs /\ Cardinality(capture[p].session) = 1
             /\ capture[p].counter \in 0 .. MaxCells
             /\ Cardinality(capture[p].cell) <= 1
             /\ \A c \in capture[p].cell : c.ref \in 1 .. capture[p].counter
             /\ (\E i \in DOMAIN todo[p] :
                   todo[p][i].write \in {"log_line", "log_cell", "insert_cell"})
                  => capture[p].cell # {}
  <2>1. capture[p] \in Captures
    BY <1>1 DEF TypeInv, Typed
  <2>2. PICK s \in SessionRefs : capture[p].session = {s}
    BY <2>1 DEF Captures
  <2>3. Cardinality(capture[p].session) = 1
    BY <2>2, SingletonSize
  <2>4. Cardinality(capture[p].cell) <= 1
    <3>1. capture[p].cell = {} \/ \E c \in CellStates : capture[p].cell = {c}
      BY <2>1 DEF Captures
    <3>2. capture[p].cell = {} => Cardinality(capture[p].cell) = 0
      BY SingletonSize, Zenon
    <3>3. \A c \in CellStates : capture[p].cell = {c} => Cardinality(capture[p].cell) = 1
      BY SingletonSize, Zenon
    <3> DEFINE n == Cardinality(capture[p].cell)
    <3>4. n = 0 \/ n = 1
      BY <3>1, <3>2, <3>3, Zenon
    <3> HIDE DEF n
    <3>5. n <= 1
      BY <3>4
    <3> QED
      BY <3>5 DEF n
  <2>5. \A c \in capture[p].cell : c.ref \in 1 .. capture[p].counter
    <3>1. \A c \in capture[p].cell : c.ref \in 1 .. MaxCells /\ c.ref <= capture[p].counter
      BY <2>1, <2>2 DEF Captures, CellStates, TypeInv, CaptureInv
    <3>2. capture[p].counter \in Nat
      BY <2>1 DEF Captures
    <3> QED
      BY <3>1, <3>2
  <2>6. todo[p] \in Seq(Writes) /\ DOMAIN todo[p] = 1 .. Len(todo[p])
    BY DEF TypeInv, Typed
  <2> QED
    BY <2>1, <2>2, <2>3, <2>4, <2>5, <2>6 DEF Captures, TypeInv, CaptureInv
<1>2. ASSUME NEW s \in SessionRefs
      PROVE  /\ Cardinality(files.session_json[s]) <= 1
             /\ files.cells_jsonl[s] \in Seq(Cells) /\ files.namespace_jsonl[s] \in Seq(Lines)
  <2>1. files.session_json[s] = {} \/ \E d \in Docs : files.session_json[s] = {d}
    <3>1. files.session_json \in [SessionRefs -> {{}} \cup {{d} : d \in Docs}]
      BY DEF TypeInv, Typed, FilesSet
    <3> QED
      BY <3>1
  <2>2. Cardinality(files.session_json[s]) <= 1
    <3>1. ASSUME NEW d, files.session_json[s] = {d}
          PROVE  Cardinality(files.session_json[s]) = 1
      BY <3>1, SingletonSize, Zenon
    <3>2. \A x : x = 0 \/ x = 1 => x <= 1
      OBVIOUS
    <3>3. Cardinality(files.session_json[s]) = 0 \/ Cardinality(files.session_json[s]) = 1
      BY <2>1, <3>1, SingletonSize, Zenon
    <3> QED
      BY <3>2, <3>3, Zenon
  <2> QED
    BY <2>2 DEF TypeInv, Typed, FilesSet
<1>3. IsABag(files.events_jsonl) /\ IsABag(index.events)
  <2>1. \A B \in EventBags : IsABag(B)
    BY DEF EventBags, IsABag
  <2>2. files.events_jsonl \in EventBags /\ index.events \in EventBags
    BY DEF TypeInv, Typed, FilesSet, Indexes
  <2> QED
    BY <2>1, <2>2
<1> QED
  BY <1>1, <1>2, <1>3 DEF TypeOK, TypeInv, Typed

(* What the hooks write, wherever they are cut, has the shape the readers of    *)
(* the files and tables expect, and no hook has a cell to write that its        *)
(* capture has lost.                                                            *)
THEOREM Types == Spec => []TypeOK
<1>1. Init => TypeInv /\ torn \subseteq TornFiles
  BY TypeInit DEF Init
<1>2. TypeInv /\ torn \subseteq TornFiles /\ [Next]_vars
        => (TypeInv /\ torn \subseteq TornFiles)'
  BY TypeInductive, TornTyped
<1> QED
  BY <1>1, <1>2, TypeImplies, PTL DEF Spec

-----------------------------------------------------------------------------
(* The writes of every hook stay arranged as they started.                      *)
StartHook(L, s) ==
    /\ L \in Seq(Writes) /\ Len(L) = 4
    /\ L[1] = SessionDoc(s, [ended |-> FALSE]) /\ L[2] = Insert("sessions", s, [ended |-> FALSE])
    /\ L[3] = EventLog(<< "session_started", s >>)
    /\ L[4] = EventRow(<< "session_started", s >>)
CloseHook(L, s) ==
    /\ L \in Seq(Writes) /\ Len(L) = 2
    /\ L[1] = SessionDoc(s, [ended |-> TRUE]) /\ L[2] = Insert("sessions", s, [ended |-> TRUE])

(* Each kind of step, by what the later invariants need of it. The hook that    *)
(* starts a session.                                                            *)
LEMMA StartEffect ==
    ASSUME TypeInv, NEW p \in Shells, Start(p)
    PROVE  \E s \in SessionRefs, k \in Captures :
             /\ s \notin Started /\ s \notin Starting /\ capture[p] = NoCapture /\ todo[p] = << >>
             /\ StartHook(todo'[p], s)
             /\ capture'[p] = k /\ k.session = {s} /\ k.counter = 0 /\ k.cell = {}
             /\ \A q \in Shells \ {p} : todo'[q] = todo[q] /\ capture'[q] = capture[q]
             /\ UNCHANGED << files, index, failures >>
<1>1. PICK s \in SessionRefs :
        /\ s \notin Started /\ s \notin Starting
        /\ capture' = [capture EXCEPT ![p] = Capture(s, 0, {}, Values(snapshot_namespace(p)))]
        /\ todo' = [todo EXCEPT ![p] = SessionWrites(s, FALSE) \o Event(s, "session_started")]
  BY DEF Start
<1> DEFINE k == capture'[p]
           L == SessionWrites(s, FALSE) \o Event(s, "session_started")
<1>2. StartHook(L, s)
  BY StartWrites, Zenon DEF StartHook, SessionDoc
<1> HIDE DEF L
<1>3. k = Capture(s, 0, {}, Values(snapshot_namespace(p))) /\ todo'[p] = L
  BY <1>1 DEF TypeInv, Typed, L
<1>4. k.session = {s} /\ k.counter = 0 /\ k.cell = {}
  BY <1>3 DEF Capture
<1>5. k \in Captures
  <2>1. TypeInv'
    BY StartTyped
  <2>2. k \in Captures \cup {NoCapture}
    BY <2>1 DEF TypeInv, Typed
  <2> QED
    BY <1>4, <2>2 DEF NoCapture
<1>6. \A q \in Shells \ {p} : todo'[q] = todo[q] /\ capture'[q] = capture[q]
  BY <1>1 DEF TypeInv, Typed
<1>7. capture[p] = NoCapture /\ todo[p] = << >> /\ UNCHANGED << files, index, failures >>
  BY DEF Start, disk, counts
<1> QED
  BY <1>1, <1>2, <1>3, <1>4, <1>5, <1>6, <1>7

(* The hook that ends a session, which its capture has already left.            *)
LEMMA CloseEffect ==
    ASSUME TypeInv, NEW p \in Shells, Close(p)
    PROVE  \E s \in SessionRefs :
             /\ capture[p].session = {s} /\ todo[p] = << >>
             /\ CloseHook(todo'[p], s)
             /\ capture'[p] = NoCapture
             /\ \A q \in Shells \ {p} : todo'[q] = todo[q] /\ capture'[q] = capture[q]
             /\ UNCHANGED << files, index, failures >>
<1>1. PICK s \in SessionRefs : capture[p].session = {s} /\ Ref(p) = s
  BY CaptureFacts DEF Close, Hooked, TypeInv
<1> DEFINE L == SessionWrites(s, TRUE)
<1>2. CloseHook(L, s)
  <2>1. TRUE \in BOOLEAN
    OBVIOUS
  <2> QED
    BY <2>1, SessionWritesTyped, Zenon DEF CloseHook, SessionDoc
<1> HIDE DEF L
<1>3. /\ capture' = [capture EXCEPT ![p] = NoCapture]
      /\ todo' = [todo EXCEPT ![p] = L]
      /\ UNCHANGED << files, index, failures >> /\ todo[p] = << >>
  BY <1>1 DEF Close, Hooked, L, disk, counts
<1>4. /\ todo'[p] = L /\ capture'[p] = NoCapture
      /\ \A q \in Shells \ {p} : todo'[q] = todo[q] /\ capture'[q] = capture[q]
  BY <1>3 DEF TypeInv, Typed
<1> QED
  BY <1>1, <1>2, <1>3, <1>4

(* The hook after a cell, if there is a current one.                            *)
LEMMA PostRunCellEffect ==
    ASSUME TypeInv, NEW p \in Shells, PostRunCell(p)
    PROVE  /\ todo[p] = << >> /\ UNCHANGED << capture, files, index, failures >>
           /\ \A q \in Shells \ {p} : todo'[q] = todo[q]
           /\ \/ todo'[p] = << >>
              \/ \E s \in SessionRefs, c \in CellStates :
                   /\ capture[p].session = {s} /\ capture[p].cell = {c} /\ Current(p) = c
                   /\ CellHook(todo'[p], s, c.ref)
<1>1. /\ capture[p].session # {} /\ todo[p] = << >>
      /\ UNCHANGED << capture, files, index, failures >>
  BY DEF PostRunCell, Hooked, disk, counts
<1>2. CASE capture[p].cell = {}
  <2>1. todo' = [todo EXCEPT ![p] = << >>]
    BY <1>2 DEF PostRunCell
  <2> QED
    BY <1>1, <2>1 DEF TypeInv, Typed
<1>3. CASE capture[p].cell # {}
  <2>1. PICK s \in SessionRefs, c \in CellStates :
          capture[p].session = {s} /\ capture[p].cell = {c} /\ Current(p) = c
    BY <1>1, <1>3, CaptureFacts DEF TypeInv
  <2>2. CellHook(PostRunWrites(p), s, c.ref)
    BY <2>1, PostRunHook DEF TypeInv
  <2>3. todo' = [todo EXCEPT ![p] = PostRunWrites(p)]
    BY <1>3 DEF PostRunCell
  <2>4. todo'[p] = PostRunWrites(p) /\ \A q \in Shells \ {p} : todo'[q] = todo[q]
    BY <2>3 DEF TypeInv, Typed
  <2> QED
    BY <1>1, <2>1, <2>2, <2>4
<1> QED
  BY <1>2, <1>3

(* The steps that write nothing and start no hook, and those that cut one.      *)
Idle(p) ==
    \/ RunCell(p)
    \/ \E name \in Names, obj \in Objs : Bind(p, name, obj)
    \/ \E name \in Names : Unbind(p, name)
    \/ \E obj \in Objs : Mutate(p, obj)
(* They leave the files, the index and what is due alone.                       *)
LEMMA IdleEffect ==
    ASSUME TypeInv, NEW p \in Shells, Idle(p)
    PROVE  /\ UNCHANGED << todo, files, index >>
           /\ \A q \in Shells : capture'[q].session = capture[q].session
           /\ \A q \in Shells \ {p} : capture'[q] = capture[q]
<1>1. UNCHANGED << todo, files, index >>
  BY DEF Idle, RunCell, Bind, Unbind, Mutate, disk
<1>2. ASSUME RunCell(p)
      PROVE  \A q \in Shells : /\ capture'[q].session = capture[q].session
                               /\ q # p => capture'[q] = capture[q]
  <2>1. capture[p] \in Captures
    BY <1>2, CaptureFacts DEF RunCell, Hooked, TypeInv
  <2>2. \/ capture' = [capture EXCEPT ![p].counter = @ + 1, ![p].cell = {NewCell(p)}]
        \/ capture' = [capture EXCEPT ![p].counter = @ + 1]
    BY <1>2 DEF RunCell
  <2>3. capture'[p].session = capture[p].session
    BY <2>1, <2>2 DEF Captures, TypeInv, Typed
  <2>4. \A q \in Shells \ {p} : capture'[q] = capture[q]
    BY <2>2 DEF TypeInv, Typed
  <2> QED
    BY <2>3, <2>4
<1>3. ASSUME ~RunCell(p) PROVE UNCHANGED capture
  BY <1>3 DEF Idle, Bind, Unbind, Mutate
<1> QED
  BY <1>1, <1>2, <1>3

Cut(p) == Fail(p) \/ Exit(p) \/ Crash(p)
(* Nothing is due any more; a capture is dropped, or it had run a cell.         *)
LEMMA CutEffect ==
    ASSUME TypeInv, NEW p \in Shells, Cut(p)
    PROVE  /\ todo'[p] = << >>
           /\ \/ capture'[p] = NoCapture
              \/ capture'[p] = capture[p] /\ (capture[p].session = {} \/ capture[p].counter # 0)
           /\ \A q \in Shells \ {p} : todo'[q] = todo[q] /\ capture'[q] = capture[q]
           /\ UNCHANGED << files, index >>
<1>1. /\ todo' = [todo EXCEPT ![p] = << >>] /\ UNCHANGED << files, index >>
      /\ \/ capture' = capture /\ (capture[p].session = {} \/ capture[p].counter # 0)
         \/ capture' = [capture EXCEPT ![p] = NoCapture]
  BY DEF Cut, Fail, Exit, Crash, Gone, disk
<1> QED
  BY <1>1 DEF TypeInv, Typed

(* The steps that write, and what each of them leaves as it was.                *)
Write(p) ==
    \/ WriteSessionJson(p) \/ InsertRow(p) \/ LogEvent(p) \/ InsertEvent(p)
    \/ LogLine(p) \/ LogCell(p) \/ InsertCell(p)
(* The write that was due is done, and the next one is due.                     *)
LEMMA WriteEffect ==
    ASSUME TypeInv, NEW p \in Shells, Write(p)
    PROVE  /\ todo[p] # << >> /\ Next1(p)
           /\ Head(todo[p]) = todo[p][1] /\ todo[p][1] \in Writes
           /\ Len(todo[p]) \in Nat /\ Len(todo[p]) > 0 /\ Len(todo'[p]) = Len(todo[p]) - 1
           /\ \A i \in 1 .. Len(todo'[p]) :
                i + 1 \in 1 .. Len(todo[p]) /\ todo'[p][i] = todo[p][i + 1]
           /\ \A q \in Shells \ {p} : todo'[q] = todo[q] /\ capture'[q] = capture[q]
           /\ \A q \in Shells : capture'[q].session = capture[q].session
<1>1. todo[p] # << >> /\ Next1(p)
  BY DEF Write, WriteSessionJson, InsertRow, LogEvent, InsertEvent, LogLine, LogCell, InsertCell,
         Due
<1>2. /\ Head(todo[p]) = todo[p][1] /\ todo[p][1] \in Writes
      /\ Len(todo[p]) \in Nat /\ Len(todo[p]) > 0
      /\ Len(Tail(todo[p])) = Len(todo[p]) - 1
      /\ \A i \in 1 .. Len(Tail(todo[p])) :
           i + 1 \in 1 .. Len(todo[p]) /\ Tail(todo[p])[i] = todo[p][i + 1]
  BY <1>1, DueFacts DEF TypeInv
<1>3. todo'[p] = Tail(todo[p]) /\ \A q \in Shells \ {p} : todo'[q] = todo[q]
  BY <1>1, NextWrite
<1>4. \A q \in Shells : /\ capture'[q].session = capture[q].session
                        /\ q # p => capture'[q] = capture[q]
  <2>1. CASE LogLine(p)
    <3>1. PICK s \in SessionRefs, c \in CellStates, held \in Captures :
            /\ todo[p] # << >> /\ Head(todo[p]) = todo[p][1]
            /\ todo[p][1].write = "log_line" /\ todo[p][1].line \in Lines
            /\ capture[p].session = {s} /\ capture[p].cell = {c} /\ Current(p) = c
            /\ capture[p] \in Captures
            /\ held.session = {s} /\ held.counter = capture[p].counter
            /\ held.cell = {NotedCell(c, todo[p][1].line)}
            /\ capture' = [capture EXCEPT ![p] = held] /\ capture'[p] = held
            /\ \A q \in Shells \ {p} : capture'[q] = capture[q]
            /\ files' = [files EXCEPT !.namespace_jsonl[s] =
                           Append(files.namespace_jsonl[s], todo[p][1].line)]
      BY <2>1, LogLineEffect, Zenon
    <3> QED
      BY <3>1
  <2>2. CASE InsertEvent(p) /\ Len(todo[p]) = 1
    <3>1. capture' = [capture EXCEPT ![p].cell = {}]
      BY <2>2 DEF InsertEvent
    <3>2. capture[p].session # {}
      BY <1>1, <1>2, <2>2 DEF InsertEvent, Due, TypeInv, CaptureInv
    <3>3. capture[p] \in Captures
      BY <3>2, CaptureFacts DEF TypeInv
    <3>4. capture'[p].session = capture[p].session
      BY <3>1, <3>3 DEF TypeInv, Typed, Captures
    <3> QED
      BY <3>1, <3>4 DEF TypeInv, Typed
  <2>3. CASE ~LogLine(p) /\ ~(InsertEvent(p) /\ Len(todo[p]) = 1)
    <3>1. capture' = capture
      BY <2>3 DEF Write, WriteSessionJson, InsertRow, LogEvent, InsertEvent, LogCell, InsertCell
    <3> QED
      BY <3>1
  <2> QED
    BY <2>1, <2>2, <2>3
<1> QED
  BY <1>1, <1>2, <1>3, <1>4

(* These are all the steps.                                                     *)
LEMMA StepKinds ==
    ASSUME NEW p \in Shells, Step(p)
    PROVE  Start(p) \/ Close(p) \/ PostRunCell(p) \/ Idle(p) \/ Write(p) \/ Cut(p)
BY DEF Step, Idle, Write, Cut

ArrangedInv == \A p \in Shells : Arranged(todo[p])

(* The hooks of a session are arranged.                                         *)
LEMMA ArrangedHooks ==
    ASSUME NEW L, NEW s
    PROVE  /\ Arranged(<< >>)
           /\ StartHook(L, s) => Arranged(L)
           /\ CloseHook(L, s) => Arranged(L)
<1>1. Arranged(<< >>)
  BY DEF Arranged
<1>2. ASSUME StartHook(L, s) PROVE Arranged(L)
  <2>1. /\ Len(L) = 4 /\ L[1].write = "session_json" /\ L[2].write = "insert"
        /\ L[3].write = "log_event" /\ L[4].write = "insert_event"
        /\ L[1] = SessionDoc(L[2].ref, L[2].payload) /\ L[3] = EventLog(L[4].event)
    BY <1>2 DEF StartHook, SessionDoc, Insert, EventLog, EventRow
  <2>2. ASSUME NEW j \in 1 .. Len(L) PROVE j = 1 \/ j = 2 \/ j = 3 \/ j = 4
    BY <2>1
  <2>3. 2 - 1 = 1 /\ 4 - 1 = 3
    OBVIOUS
  <2> QED
    BY <2>1, <2>2, <2>3 DEF Arranged
<1>3. ASSUME CloseHook(L, s) PROVE Arranged(L)
  <2>1. /\ Len(L) = 2 /\ L[1].write = "session_json" /\ L[2].write = "insert"
        /\ L[1] = SessionDoc(L[2].ref, L[2].payload)
    BY <1>3 DEF CloseHook, SessionDoc, Insert
  <2>2. ASSUME NEW j \in 1 .. Len(L) PROVE j = 1 \/ j = 2
    BY <2>1
  <2>3. 2 - 1 = 1
    OBVIOUS
  <2> QED
    BY <2>1, <2>2, <2>3 DEF Arranged
<1> QED
  BY <1>1, <1>2, <1>3

(* Every hook starts arranged and is done from its front.                       *)
LEMMA ArrangedInductive == TypeInv /\ ArrangedInv /\ [Next]_vars => ArrangedInv'
<1> SUFFICES ASSUME TypeInv, ArrangedInv, [Next]_vars PROVE ArrangedInv'
  OBVIOUS
<1>1. ASSUME NEW p \in Shells, Step(p)
      PROVE  Arranged(todo'[p]) /\ \A q \in Shells \ {p} : todo'[q] = todo[q]
  <2>1. CASE Start(p)
    BY <2>1, StartEffect, ArrangedHooks
  <2>2. CASE Close(p)
    BY <2>2, CloseEffect, ArrangedHooks
  <2>3. CASE PostRunCell(p)
    BY <2>3, PostRunCellEffect, ArrangedHooks DEF CellHook
  <2>4. CASE Idle(p)
    BY <2>4, IdleEffect DEF ArrangedInv
  <2>5. CASE Write(p)
    <3>1. todo[p] \in Seq(Writes) /\ todo[p] # << >> /\ Arranged(todo[p])
      BY <2>5, WriteEffect DEF TypeInv, Typed, ArrangedInv
    <3>2. Arranged(Tail(todo[p]))
      BY <3>1, ArrangedTail
    <3>3. todo'[p] = Tail(todo[p])
      BY <2>5, WriteEffect, NextWrite
    <3> QED
      BY <2>5, <3>2, <3>3, WriteEffect
  <2>6. CASE Cut(p)
    BY <2>6, CutEffect, ArrangedHooks
  <2> QED
    BY <1>1, <2>1, <2>2, <2>3, <2>4, <2>5, <2>6, StepKinds
<1>2. CASE \E p \in Shells : Step(p)
  BY <1>1, <1>2 DEF ArrangedInv
<1>3. CASE UNCHANGED others
  BY <1>3 DEF others, ArrangedInv
<1> QED
  BY <1>2, <1>3, NextSteps

-----------------------------------------------------------------------------
(* Sessions: a session has one shell; its document is written before its row,   *)
(* and once more when it ends.                                                  *)
Owns(p, s) == capture[p].session = {s}
Disjoint == \A p, q \in Shells, s \in SessionRefs : Owns(p, s) /\ Owns(q, s) => p = q
HasDoc(s, d) == \E doc \in files.session_json[s] : d.ended => doc.ended
DocDue(p, w) ==
    /\ ~w.doc.ended => Owns(p, w.session) /\ files.session_json[w.session] = {}
    /\ w.doc.ended => capture[p].session = {} /\ files.session_json[w.session] # {}
SessionInv ==
    /\ Disjoint
    /\ \A p \in Shells, s \in SessionRefs : Owns(p, s) /\ files.session_json[s] = {} =>
         todo[p] # << >> /\ todo[p][1].write = "session_json" /\ capture[p].counter = 0
    /\ \A p \in Shells : todo[p] # << >> =>
         /\ todo[p][1].write = "session_json" => DocDue(p, todo[p][1])
         /\ todo[p][1].write = "insert" /\ todo[p][1].table = "sessions" =>
              HasDoc(todo[p][1].ref, todo[p][1].payload)
SessionsIndexed == \A row \in index.sessions : HasDoc(row.ref, row.payload)

(* Documents are only ever replaced by what says no less.                       *)
LEMMA DocsKept ==
    ASSUME TypeInv, SessionInv, NEW p \in Shells, Step(p)
    PROVE  \A s \in SessionRefs :
             /\ \A d \in Docs : HasDoc(s, d) => HasDoc(s, d)'
             /\ files.session_json[s] # {} => files'.session_json[s] # {}
<1>1. CASE ~WriteSessionJson(p)
  <2>1. files'.session_json = files.session_json
    <3>1. CASE Write(p)
      BY <1>1, <3>1 DEF Write, InsertRow, LogEvent, InsertEvent, LogLine, LogCell, InsertCell,
                        TypeInv, Typed, FilesSet
    <3>2. CASE ~Write(p)
      BY <3>2, StepKinds, StartEffect, CloseEffect, PostRunCellEffect, IdleEffect, CutEffect
    <3> QED
      BY <3>1, <3>2
  <2> QED
    BY <2>1 DEF HasDoc
<1>2. CASE WriteSessionJson(p)
  <2> DEFINE w == todo[p][1]
  <2>1. todo[p] # << >> /\ w \in Writes /\ w.write = "session_json" /\ Head(todo[p]) = w
    BY <1>2, WriteEffect DEF Write, WriteSessionJson, Due
  <2>2. PICK t \in SessionRefs, doc \in Docs : w.session = t /\ w.doc = doc
    BY <2>1, WriteShapes
  <2>3. ~doc.ended => files.session_json[t] = {}
    BY <2>1, <2>2 DEF SessionInv, DocDue
  <2>4. files' = [files EXCEPT !.session_json[t] = {doc}]
    BY <1>2, <2>1, <2>2 DEF WriteSessionJson
  <2> HIDE DEF w
  <2>5. /\ files'.session_json[t] = {doc}
        /\ \A s \in SessionRefs \ {t} : files'.session_json[s] = files.session_json[s]
    BY <2>2, <2>4 DEF TypeInv, Typed, FilesSet
  <2>6. \A d \in Docs : HasDoc(t, d) => HasDoc(t, d)'
    BY <2>2, <2>3, <2>5 DEF HasDoc, Docs
  <2> QED
    BY <2>5, <2>6 DEF HasDoc
<1> QED
  BY <1>1, <1>2

(* It is kept by every step.                                                    *)
LEMMA SessionInductive ==
    TypeInv /\ ArrangedInv /\ SessionInv /\ [Next]_vars => SessionInv'
<1> SUFFICES ASSUME TypeInv, ArrangedInv, SessionInv, [Next]_vars PROVE SessionInv'
  OBVIOUS
<1>1. ASSUME NEW p \in Shells, Step(p) PROVE SessionInv'
  <2>1. Disjoint'
    <3>1. CASE Start(p)
      <4>1. PICK s \in SessionRefs :
              /\ s \notin Starting /\ capture'[p].session = {s}
              /\ \A q \in Shells \ {p} : capture'[q] = capture[q]
        BY <3>1, StartEffect
      <4>2. \A q \in Shells \ {p} : capture'[q].session # {s}
        BY <4>1 DEF Starting
      <4>3. ASSUME NEW a \in Shells, NEW b \in Shells, NEW t \in SessionRefs,
                   capture'[a].session = {t}, capture'[b].session = {t}
            PROVE  a = b
        <5>1. CASE t = s
          BY <4>1, <4>2, <4>3, <5>1
        <5>2. CASE t # s
          <6>1. a # p /\ b # p
            BY <4>1, <4>3, <5>2
          <6>2. capture[a].session = {t} /\ capture[b].session = {t}
            BY <4>1, <4>3, <6>1
          <6> QED
            BY <6>2 DEF SessionInv, Disjoint, Owns
        <5> QED
          BY <5>1, <5>2
      <4> QED
        BY <4>3 DEF Disjoint, Owns
    <3>2. CASE ~Start(p)
      <4>1. \A q \in Shells : capture'[q].session = capture[q].session \/ capture'[q].session = {}
        <5>1. NoCapture.session = {}
          BY DEF NoCapture
        <5> QED
          BY <1>1, <3>2, <5>1, StepKinds, CloseEffect, PostRunCellEffect, IdleEffect, WriteEffect,
             CutEffect
      <4> QED
        BY <4>1 DEF Disjoint, Owns, SessionInv
    <3> QED
      BY <3>1, <3>2
  <2>2. ASSUME NEW q \in Shells, NEW s \in SessionRefs, capture'[q].session = {s},
               files'.session_json[s] = {}
        PROVE  /\ todo'[q] # << >> /\ todo'[q][1].write = "session_json"
               /\ capture'[q].counter = 0
    <3>1. files.session_json[s] = {}
      BY <1>1, <2>2, DocsKept
    <3>2. CASE q # p
      <4>1. todo'[q] = todo[q] /\ capture'[q] = capture[q]
        BY <1>1, <3>2, StepKinds, StartEffect, CloseEffect, PostRunCellEffect, IdleEffect,
           WriteEffect, CutEffect
      <4> QED
        BY <2>2, <3>1, <4>1 DEF SessionInv, Owns
    <3>3. CASE q = p /\ Start(p)
      <4>1. PICK t \in SessionRefs : StartHook(todo'[p], t) /\ capture'[p].counter = 0
        BY <3>3, StartEffect
      <4>2. Len(todo'[p]) = 4 /\ todo'[p][1] = SessionDoc(t, [ended |-> FALSE])
        BY <4>1 DEF StartHook
      <4> QED
        BY <3>3, <4>1, <4>2 DEF SessionDoc
    <3>4. CASE q = p /\ ~Start(p)
      <4>1. NoCapture.session = {}
        BY DEF NoCapture
      <4>2. ~Close(p)
        BY <2>2, <3>4, <4>1, CloseEffect
      <4>3. capture[p].session = {s}
        BY <1>1, <2>2, <3>4, <4>1, <4>2, StepKinds, PostRunCellEffect, IdleEffect, WriteEffect,
           CutEffect
      <4>4. todo[p] # << >> /\ todo[p][1].write = "session_json" /\ capture[p].counter = 0
        BY <3>1, <3>4, <4>3 DEF SessionInv, Owns
      <4>5. ~PostRunCell(p) /\ ~Idle(p)
        BY <4>4, PostRunCellEffect DEF Idle, RunCell, Bind, Unbind, Mutate, Hooked
      <4>6. ~Cut(p)
        BY <2>2, <3>4, <4>1, <4>3, <4>4, CutEffect
      <4>7. Write(p)
        BY <1>1, <3>4, <4>2, <4>5, <4>6, StepKinds
      <4>8. WriteSessionJson(p)
        BY <4>4, <4>7, WriteEffect DEF Write, InsertRow, LogEvent, InsertEvent, LogLine, LogCell,
                                       InsertCell, Due
      <4>9. DocDue(p, todo[p][1]) /\ todo[p][1] \in Writes
        BY <4>4, <4>7, WriteEffect DEF SessionInv
      <4>10. PICK t \in SessionRefs, doc \in Docs : todo[p][1].session = t /\ todo[p][1].doc = doc
        BY <4>4, <4>9, WriteShapes
      <4>11. t = s
        <5>1. ~doc.ended
          BY <4>3, <4>9, <4>10 DEF DocDue, Docs
        <5> QED
          BY <4>3, <4>9, <4>10, <5>1 DEF DocDue, Owns
      <4>12. files' = [files EXCEPT !.session_json[s] = {doc}]
        BY <4>7, <4>8, <4>10, <4>11, WriteEffect DEF WriteSessionJson
      <4>13. files'.session_json[s] = {doc}
        BY <4>12 DEF TypeInv, Typed, FilesSet
      <4> QED
        BY <2>2, <4>13
    <3> QED
      BY <3>2, <3>3, <3>4
  <2>3. ASSUME NEW q \in Shells, NEW w \in Writes, todo'[q] # << >>, todo'[q][1] = w
        PROVE  /\ w.write = "session_json" =>
                    /\ ~w.doc.ended => capture'[q].session = {w.session}
                                       /\ files'.session_json[w.session] = {}
                    /\ w.doc.ended => capture'[q].session = {}
                                      /\ files'.session_json[w.session] # {}
               /\ w.write = "insert" /\ w.table = "sessions" => HasDoc(w.ref, w.payload)'
    <3>1. CASE q # p \/ Idle(p)
      <4>1. todo'[q] = todo[q] /\ capture'[q].session = capture[q].session
        BY <1>1, <3>1, StepKinds, StartEffect, CloseEffect, PostRunCellEffect, IdleEffect,
           WriteEffect, CutEffect
      <4>2. /\ w.write = "session_json" => DocDue(q, w)
            /\ w.write = "insert" /\ w.table = "sessions" => HasDoc(w.ref, w.payload)
        BY <2>3, <4>1 DEF SessionInv
      <4>3. w.write = "insert" /\ w.table = "sessions" => w.ref \in SessionRefs /\ w.payload \in Docs
        BY WriteShapes DEF SessionRows
      <4>4. w.write = "insert" /\ w.table = "sessions" => HasDoc(w.ref, w.payload)'
        BY <1>1, <4>2, <4>3, DocsKept
      <4>5. ASSUME w.write = "session_json", ~w.doc.ended
            PROVE  files'.session_json[w.session] = {}
        <5>1. w.session \in SessionRefs /\ capture[q].session = {w.session}
              /\ files.session_json[w.session] = {}
          BY <4>2, <4>5, WriteShapes DEF DocDue, Owns
        <5>2. CASE WriteSessionJson(p) /\ q # p
          <6>1. /\ todo[p] # << >> /\ todo[p][1].write = "session_json" /\ todo[p][1] \in Writes
                /\ Head(todo[p]) = todo[p][1]
            BY <5>2, WriteEffect DEF Write, WriteSessionJson, Due
          <6>2. DocDue(p, todo[p][1]) /\ Disjoint
            BY <6>1 DEF SessionInv
          <6>3. PICK t \in SessionRefs, doc \in Docs :
                  todo[p][1].session = t /\ todo[p][1].doc = doc
            BY <6>1, WriteShapes
          <6>4. t # w.session
            <7>1. CASE doc.ended
              BY <5>1, <6>2, <6>3, <7>1 DEF DocDue
            <7>2. CASE ~doc.ended
              <8>1. Owns(p, t) /\ Owns(q, w.session)
                BY <5>1, <6>2, <6>3, <7>2 DEF DocDue, Owns
              <8> QED
                BY <5>1, <5>2, <6>2, <8>1 DEF Disjoint
            <7> QED
              BY <7>1, <7>2
          <6>5. files' = [files EXCEPT !.session_json[t] = {doc}]
            BY <5>2, <6>1, <6>3 DEF WriteSessionJson
          <6> QED
            BY <5>1, <6>4, <6>5 DEF TypeInv, Typed, FilesSet
        <5>3. CASE ~(WriteSessionJson(p) /\ q # p)
          <6>1. ~WriteSessionJson(p)
            BY <3>1, <5>3, <2>3, <4>1, NextWrite DEF Idle, RunCell, Bind, Unbind, Mutate, Hooked,
                                                    WriteSessionJson, Due
          <6>2. files'.session_json = files.session_json
            <7>1. CASE Write(p)
              BY <6>1, <7>1 DEF Write, InsertRow, LogEvent, InsertEvent, LogLine, LogCell,
                                InsertCell, TypeInv, Typed, FilesSet
            <7>2. CASE ~Write(p)
              BY <1>1, <7>2, StepKinds, StartEffect, CloseEffect, PostRunCellEffect, IdleEffect,
                 CutEffect
            <7> QED
              BY <7>1, <7>2
          <6> QED
            BY <5>1, <6>2
        <5> QED
          BY <5>2, <5>3
      <4>6. ASSUME w.write = "session_json", w.doc.ended
            PROVE  files'.session_json[w.session] # {}
        <5>1. w.session \in SessionRefs /\ files.session_json[w.session] # {}
          BY <4>2, <4>6, WriteShapes DEF DocDue
        <5> QED
          BY <1>1, <5>1, DocsKept
      <4> QED
        BY <4>1, <4>2, <4>4, <4>5, <4>6 DEF DocDue, Owns
    <3>2. CASE q = p /\ Start(p)
      <4>1. PICK s \in SessionRefs :
              /\ s \notin Started /\ StartHook(todo'[p], s) /\ capture'[p].session = {s}
              /\ files' = files
        BY <3>2, StartEffect
      <4>2. w = SessionDoc(s, [ended |-> FALSE])
        BY <2>3, <3>2, <4>1 DEF StartHook
      <4>3. w.write = "session_json" /\ w.session = s /\ w.doc = [ended |-> FALSE]
        BY <4>2 DEF SessionDoc
      <4>4. ~w.doc.ended /\ files'.session_json[s] = {}
        BY <4>1, <4>3 DEF Started
      <4> QED
        BY <3>2, <4>1, <4>3, <4>4
    <3>3. CASE q = p /\ Close(p)
      <4>1. PICK s \in SessionRefs :
              /\ capture[p].session = {s} /\ todo[p] = << >> /\ CloseHook(todo'[p], s)
              /\ capture'[p] = NoCapture /\ files' = files
        BY <3>3, CloseEffect
      <4>2. w = SessionDoc(s, [ended |-> TRUE])
        BY <2>3, <3>3, <4>1 DEF CloseHook
      <4>3. w.write = "session_json" /\ w.session = s /\ w.doc = [ended |-> TRUE]
        BY <4>2 DEF SessionDoc
      <4>4. w.doc.ended
        BY <4>3
      <4>5. files.session_json[s] # {}
        <5>1. Owns(p, s)
          BY <4>1 DEF Owns
        <5> QED
          BY <4>1, <5>1 DEF SessionInv
      <4> QED
        BY <3>3, <4>1, <4>3, <4>4, <4>5 DEF NoCapture
    <3>4. CASE q = p /\ (PostRunCell(p) \/ Cut(p))
      <4>1. w.write \in {"log_line", "log_event", "log_cell"}
        BY <2>3, <3>4, PostRunCellEffect, CutEffect DEF CellHook
      <4> QED
        BY <4>1
    <3>5. CASE q = p /\ Write(p)
      <4>1. 1 \in 1 .. Len(todo'[p])
        <5>1. todo'[p] \in Seq(Writes)
          BY <3>5, WriteEffect, NextWrite
        <5> QED
          BY <2>3, <3>5, <5>1, EmptyByLength
      <4>2. 2 \in 1 .. Len(todo[p]) /\ w = todo[p][2]
        BY <2>3, <3>5, <4>1, WriteEffect
      <4>3. /\ w.write # "session_json"
            /\ w.write = "insert" /\ w.table = "sessions" =>
                 todo[p][1] = SessionDoc(w.ref, w.payload)
        <5>1. 2 - 1 = 1 /\ 2 > 1 /\ 2 # 1
          OBVIOUS
        <5> QED
          BY <4>2, <5>1 DEF ArrangedInv, Arranged
      <4>4. ASSUME w.write = "insert", w.table = "sessions"
            PROVE  HasDoc(w.ref, w.payload)'
        <5>1. w.ref \in SessionRefs /\ w.payload \in Docs
          BY <4>4, WriteShapes DEF SessionRows
        <5>2. /\ todo[p][1].write = "session_json" /\ todo[p][1].session = w.ref
              /\ todo[p][1].doc = w.payload /\ Head(todo[p]) = todo[p][1]
          BY <3>5, <4>3, <4>4, WriteEffect DEF SessionDoc
        <5>3. WriteSessionJson(p)
          BY <3>5, <5>2 DEF Write, InsertRow, LogEvent, InsertEvent, LogLine, LogCell,
                            InsertCell, Due
        <5>4. files' = [files EXCEPT !.session_json[w.ref] = {w.payload}]
          BY <5>2, <5>3 DEF WriteSessionJson
        <5>5. files'.session_json[w.ref] = {w.payload}
          BY <5>1, <5>4 DEF TypeInv, Typed, FilesSet
        <5> QED
          BY <5>5 DEF HasDoc
      <4> QED
        BY <4>3, <4>4
    <3> QED
      BY <1>1, <3>1, <3>2, <3>3, <3>4, <3>5, StepKinds
  <2>4. ASSUME NEW q \in Shells, todo'[q] # << >> PROVE todo'[q][1] \in Writes
    <3>1. todo'[q] \in Seq(Writes)
      BY TypeInductive DEF TypeInv, Typed
    <3>2. Len(todo'[q]) # 0
      BY <2>4, <3>1, EmptyByLength
    <3> QED
      BY <3>1, <3>2
  <2> QED
    BY <2>1, <2>2, <2>3, <2>4 DEF SessionInv, Owns, DocDue
<1>2. CASE UNCHANGED others
  BY <1>2 DEF others, SessionInv, Disjoint, Owns, DocDue, HasDoc
<1> QED
  BY <1>1, <1>2, NextSteps

-----------------------------------------------------------------------------
(* What a step does to the tables, the logs and the bags of events.             *)

(* A row a step puts into a table is the one of the write that was due.         *)
LEMMA NewRows ==
    ASSUME TypeInv, NEW p \in Shells, Step(p),
           NEW T \in {"sessions", "objects", "object_versions", "lineage_edges"}
    PROVE  \A row \in index'[T] :
             \/ row \in index[T]
             \/ /\ InsertRow(p) /\ todo[p] # << >> /\ todo[p][1] \in Writes
                /\ todo[p][1].write = "insert" /\ todo[p][1].table = T
                /\ row = Row(todo[p][1].ref, todo[p][1].payload)
<1> DEFINE w == todo[p][1]
<1>1. CASE InsertRow(p)
  <2>1. /\ todo[p] # << >> /\ w \in Writes /\ w.write = "insert" /\ Head(todo[p]) = w
    BY <1>1, WriteEffect DEF Write, InsertRow, Due
  <2>2. index' = insert_payload(index, w.table, w.ref, w.payload)
    BY <1>1, <2>1 DEF InsertRow
  <2> HIDE DEF w
  <2>3. /\ index'[w.table] = WithRow(index[w.table], w.ref, w.payload)
        /\ OtherTables(index, index', w.table)
    <3>1. index \in Indexes
      BY DEF TypeInv, Typed
    <3> QED
      BY <2>1, <2>2, <3>1, InsertedRow
  <2>4. CASE T = w.table
    BY <1>1, <2>1, <2>3, <2>4 DEF WithRow, w
  <2>5. CASE T # w.table
    BY <2>3, <2>5 DEF OtherTables
  <2> QED
    BY <2>4, <2>5
<1>2. CASE InsertCell(p)
  <2>1. /\ todo[p] # << >> /\ w \in Writes /\ w.write = "insert_cell" /\ Head(todo[p]) = w
        /\ 1 \in 1 .. Len(todo[p])
    BY <1>2, WriteEffect DEF Write, InsertCell, Due
  <2>2. capture[p].session # {} /\ capture[p].cell # {}
    BY <2>1 DEF TypeInv, CaptureInv
  <2>3. PICK s \in SessionRefs, c \in CellStates :
          capture[p].session = {s} /\ capture[p].cell = {c} /\ Current(p) = c
    BY <2>2, CaptureFacts DEF TypeInv
  <2>4. CellRecord(p) \in Cells /\ CellRecord(p).cell_ref = c.ref
    BY <2>3, CellRecordTyped
  <2>5. index' = insert_payload(index, "cells", CellRecord(p).cell_ref, CellRecord(p))
    BY <1>2, <2>3, <2>4 DEF InsertCell
  <2>6. index \in Indexes
    BY DEF TypeInv, Typed
  <2>7. OtherTables(index, index', "cells")
    BY <2>4, <2>5, <2>6, InsertedCell
  <2> QED
    BY <2>7 DEF OtherTables
<1>3. CASE InsertEvent(p)
  BY <1>3 DEF InsertEvent, insert_event, TypeInv, Typed, Indexes
<1>4. CASE ~InsertRow(p) /\ ~InsertCell(p) /\ ~InsertEvent(p)
  <2>1. index' = index
    <3>1. CASE Write(p)
      BY <1>4, <3>1 DEF Write, WriteSessionJson, LogEvent, LogLine, LogCell
    <3>2. CASE ~Write(p)
      BY <3>2, StepKinds, StartEffect, CloseEffect, PostRunCellEffect, IdleEffect, CutEffect
    <3> QED
      BY <3>1, <3>2
  <2> QED
    BY <2>1
<1> QED
  BY <1>1, <1>2, <1>3, <1>4

(* A row of a cell is the record of the current one.                            *)
LEMMA NewCellRows ==
    ASSUME TypeInv, NEW p \in Shells, Step(p)
    PROVE  \A row \in index'.cells :
             \/ row \in index.cells
             \/ /\ InsertCell(p) /\ todo[p] # << >> /\ todo[p][1].write = "insert_cell"
                /\ row.payload = CellRecord(p) /\ row.ref = CellRecord(p).cell_ref
<1> DEFINE w == todo[p][1]
<1>1. CASE InsertRow(p)
  <2>1. /\ todo[p] # << >> /\ w \in Writes /\ w.write = "insert" /\ Head(todo[p]) = w
    BY <1>1, WriteEffect DEF Write, InsertRow, Due
  <2>2. index' = insert_payload(index, w.table, w.ref, w.payload)
    BY <1>1, <2>1 DEF InsertRow
  <2> HIDE DEF w
  <2>3. /\ OtherTables(index, index', w.table)
        /\ w.table \in {"sessions", "objects", "object_versions", "lineage_edges"}
    <3>1. index \in Indexes
      BY DEF TypeInv, Typed
    <3> QED
      BY <2>1, <2>2, <3>1, InsertedRow
  <2> QED
    BY <2>3 DEF OtherTables
<1>2. CASE InsertCell(p)
  <2>1. /\ todo[p] # << >> /\ w \in Writes /\ w.write = "insert_cell" /\ Head(todo[p]) = w
        /\ 1 \in 1 .. Len(todo[p])
    BY <1>2, WriteEffect DEF Write, InsertCell, Due
  <2>2. capture[p].session # {} /\ capture[p].cell # {}
    BY <2>1 DEF TypeInv, CaptureInv
  <2>3. PICK s \in SessionRefs, c \in CellStates :
          capture[p].session = {s} /\ capture[p].cell = {c} /\ Current(p) = c
    BY <2>2, CaptureFacts DEF TypeInv
  <2>4. CellRecord(p) \in Cells /\ CellRecord(p).cell_ref = c.ref
    BY <2>3, CellRecordTyped
  <2>5. index' = insert_payload(index, "cells", CellRecord(p).cell_ref, CellRecord(p))
    BY <1>2, <2>3, <2>4 DEF InsertCell
  <2>6. index \in Indexes
    BY DEF TypeInv, Typed
  <2>7. index'.cells = WithRow(index.cells, CellRecord(p).cell_ref, CellRecord(p))
    BY <2>4, <2>5, <2>6, InsertedCell
  <2> QED
    BY <1>2, <2>1, <2>7 DEF WithRow, Row
<1>3. CASE InsertEvent(p)
  BY <1>3 DEF InsertEvent, insert_event, TypeInv, Typed, Indexes
<1>4. CASE ~InsertRow(p) /\ ~InsertCell(p) /\ ~InsertEvent(p)
  <2>1. index' = index
    <3>1. CASE Write(p)
      BY <1>4, <3>1 DEF Write, WriteSessionJson, LogEvent, LogLine, LogCell
    <3>2. CASE ~Write(p)
      BY <3>2, StepKinds, StartEffect, CloseEffect, PostRunCellEffect, IdleEffect, CutEffect
    <3> QED
      BY <3>1, <3>2
  <2> QED
    BY <2>1
<1> QED
  BY <1>1, <1>2, <1>3, <1>4

(* Logs are only appended to, by the shell of the session.                      *)
LEMMA NewLines ==
    ASSUME TypeInv, NEW p \in Shells, Step(p), NEW s \in SessionRefs
    PROVE  /\ LinesOf(s)' = LinesOf(s) \cup
                (IF LogLine(p) /\ Owns(p, s) THEN {todo[p][1].line} ELSE {})
           /\ CellsOf(s)' = CellsOf(s) \cup
                (IF LogCell(p) /\ Owns(p, s) THEN {CellRecord(p)} ELSE {})
<1>1. \A L : \A x : L \in Seq(Lines) /\ x \in Lines => Range(Append(L, x)) = Range(L) \cup {x}
  BY AppendedRange
<1>2. \A L : \A x : L \in Seq(Cells) /\ x \in Cells => Range(Append(L, x)) = Range(L) \cup {x}
  BY AppendedRange
<1>3. CASE LogLine(p)
  <2>1. PICK t \in SessionRefs, c \in CellStates, held \in Captures :
          /\ todo[p] # << >> /\ Head(todo[p]) = todo[p][1]
          /\ todo[p][1].write = "log_line" /\ todo[p][1].line \in Lines
          /\ capture[p].session = {t} /\ capture[p].cell = {c} /\ Current(p) = c
          /\ capture[p] \in Captures
          /\ held.session = {t} /\ held.counter = capture[p].counter
          /\ held.cell = {NotedCell(c, todo[p][1].line)}
          /\ capture' = [capture EXCEPT ![p] = held] /\ capture'[p] = held
          /\ \A q \in Shells \ {p} : capture'[q] = capture[q]
          /\ files' = [files EXCEPT !.namespace_jsonl[t] =
                         Append(files.namespace_jsonl[t], todo[p][1].line)]
    BY <1>3, LogLineEffect, Zenon
  <2>2. /\ files'.namespace_jsonl[s] = IF s = t THEN Append(files.namespace_jsonl[t], todo[p][1].line)
                                                ELSE files.namespace_jsonl[s]
        /\ files'.cells_jsonl = files.cells_jsonl
        /\ files.namespace_jsonl[t] \in Seq(Lines)
    BY <2>1 DEF TypeInv, Typed, FilesSet
  <2>3. ~LogCell(p)
    BY <1>3 DEF LogLine, LogCell, Due
  <2>4. CellsOf(s)' = CellsOf(s)
    BY <2>2 DEF CellsOf
  <2>5. CASE s = t
    <3>1. LinesOf(s)' = LinesOf(s) \cup {todo[p][1].line}
      BY <1>1, <2>1, <2>2, <2>5 DEF LinesOf
    <3>2. Owns(p, s)
      BY <2>1, <2>5 DEF Owns
    <3> QED
      BY <1>3, <2>3, <2>4, <3>1, <3>2
  <2>6. CASE s # t
    <3>1. LinesOf(s)' = LinesOf(s)
      BY <2>2, <2>6 DEF LinesOf
    <3>2. ~Owns(p, s)
      BY <2>1, <2>6 DEF Owns
    <3> QED
      BY <2>3, <2>4, <3>1, <3>2
  <2> QED
    BY <2>5, <2>6
<1>4. CASE LogCell(p)
  <2>1. /\ todo[p] # << >> /\ todo[p][1].write = "log_cell" /\ 1 \in 1 .. Len(todo[p])
    BY <1>4, WriteEffect DEF Write, LogCell, Due
  <2>2. capture[p].session # {} /\ capture[p].cell # {}
    BY <2>1 DEF TypeInv, CaptureInv
  <2>3. PICK t \in SessionRefs, c \in CellStates :
          capture[p].session = {t} /\ Ref(p) = t /\ capture[p].cell = {c}
    BY <2>2, CaptureFacts DEF TypeInv
  <2>4. CellRecord(p) \in Cells
    BY <2>3, CellRecordTyped
  <2>5. /\ files' = [files EXCEPT !.cells_jsonl[t] = Append(files.cells_jsonl[t], CellRecord(p))]
    BY <1>4, <2>3 DEF LogCell
  <2>6. /\ files'.cells_jsonl[s] = IF s = t THEN Append(files.cells_jsonl[t], CellRecord(p))
                                            ELSE files.cells_jsonl[s]
        /\ files'.namespace_jsonl = files.namespace_jsonl
        /\ files.cells_jsonl[t] \in Seq(Cells)
    BY <2>5 DEF TypeInv, Typed, FilesSet
  <2>7. ~LogLine(p)
    BY <1>4 DEF LogLine, LogCell, Due
  <2>8. LinesOf(s)' = LinesOf(s)
    BY <2>6 DEF LinesOf
  <2>9. CASE s = t
    <3>1. CellsOf(s)' = CellsOf(s) \cup {CellRecord(p)}
      BY <1>2, <2>4, <2>6, <2>9 DEF CellsOf
    <3>2. Owns(p, s)
      BY <2>3, <2>9 DEF Owns
    <3> QED
      BY <1>4, <2>7, <2>8, <3>1, <3>2
  <2>10. CASE s # t
    <3>1. CellsOf(s)' = CellsOf(s)
      BY <2>6, <2>10 DEF CellsOf
    <3>2. ~Owns(p, s)
      BY <2>3, <2>10 DEF Owns
    <3> QED
      BY <2>7, <2>8, <3>1, <3>2
  <2> QED
    BY <2>9, <2>10
<1>5. CASE ~LogLine(p) /\ ~LogCell(p)
  <2>1. /\ files'.namespace_jsonl = files.namespace_jsonl
        /\ files'.cells_jsonl = files.cells_jsonl
    <3>1. CASE Write(p)
      BY <1>5, <3>1 DEF Write, WriteSessionJson, LogEvent, InsertRow, InsertEvent, InsertCell,
                        TypeInv, Typed, FilesSet
    <3>2. CASE ~Write(p)
      BY <3>2, StepKinds, StartEffect, CloseEffect, PostRunCellEffect, IdleEffect, CutEffect
    <3> QED
      BY <3>1, <3>2
  <2> QED
    BY <1>5, <2>1 DEF LinesOf, CellsOf
<1> QED
  BY <1>3, <1>4, <1>5

(* An event is one more copy in the file, later one more in the index.          *)
LEMMA NewEvents ==
    ASSUME TypeInv, NEW p \in Shells, Step(p), NEW e \in Events
    PROVE  /\ Copies(e, files.events_jsonl) \in Nat /\ Copies(e, index.events) \in Nat
           /\ Copies(e, files'.events_jsonl) = Copies(e, files.events_jsonl)
                + (IF LogEvent(p) /\ todo[p][1].event = e THEN 1 ELSE 0)
           /\ Copies(e, index'.events) = Copies(e, index.events)
                + (IF InsertEvent(p) /\ todo[p][1].event = e THEN 1 ELSE 0)
<1>1. /\ files.events_jsonl \in EventBags /\ index.events \in EventBags
  BY DEF TypeInv, Typed, FilesSet, Indexes
<1>2. Copies(e, files.events_jsonl) \in Nat /\ Copies(e, index.events) \in Nat
  BY <1>1, LoggedEvent
<1>3. CASE LogEvent(p)
  <2>1. /\ todo[p] # << >> /\ todo[p][1].write = "log_event" /\ todo[p][1] \in Writes
        /\ Head(todo[p]) = todo[p][1]
    BY <1>3, WriteEffect DEF Write, LogEvent, Due
  <2>2. PICK d \in Events : todo[p][1].event = d
    BY <2>1, WriteShapes
  <2>3. files'.events_jsonl = BagAdd(files.events_jsonl, d) /\ index' = index
    BY <1>3, <2>1, <2>2 DEF LogEvent, TypeInv, Typed, FilesSet
  <2>4. ~InsertEvent(p)
    BY <1>3 DEF LogEvent, InsertEvent, Due
  <2>5. Copies(e, BagAdd(files.events_jsonl, d)) =
          Copies(e, files.events_jsonl) + (IF d = e THEN 1 ELSE 0)
    <3>1. CASE d = e
      BY <1>1, <3>1, LoggedEvent
    <3>2. CASE d # e
      <4>1. e \in Events \ {d}
        BY <3>2
      <4>2. Copies(e, BagAdd(files.events_jsonl, d)) = Copies(e, files.events_jsonl)
        BY <1>1, <4>1, LoggedEvent
      <4> QED
        BY <1>2, <3>2, <4>2
    <3> QED
      BY <3>1, <3>2
  <2> QED
    BY <1>2, <1>3, <2>2, <2>3, <2>4, <2>5
<1>4. CASE InsertEvent(p)
  <2>1. /\ todo[p] # << >> /\ todo[p][1].write = "insert_event" /\ todo[p][1] \in Writes
        /\ Head(todo[p]) = todo[p][1]
    BY <1>4, WriteEffect DEF Write, InsertEvent, Due
  <2>2. PICK d \in Events : todo[p][1].event = d
    BY <2>1, WriteShapes
  <2>3. index'.events = BagAdd(index.events, d) /\ files' = files
    BY <1>4, <2>1, <2>2 DEF InsertEvent, insert_event, TypeInv, Typed, Indexes
  <2>4. ~LogEvent(p)
    BY <1>4 DEF LogEvent, InsertEvent, Due
  <2>5. Copies(e, BagAdd(index.events, d)) =
          Copies(e, index.events) + (IF d = e THEN 1 ELSE 0)
    <3>1. CASE d = e
      BY <1>1, <3>1, LoggedEvent
    <3>2. CASE d # e
      <4>1. e \in Events \ {d}
        BY <3>2
      <4>2. Copies(e, BagAdd(index.events, d)) = Copies(e, index.events)
        BY <1>1, <4>1, LoggedEvent
      <4> QED
        BY <1>2, <3>2, <4>2
    <3> QED
      BY <3>1, <3>2
  <2> QED
    BY <1>2, <1>4, <2>2, <2>3, <2>4, <2>5
<1>5. CASE ~LogEvent(p) /\ ~InsertEvent(p)
  <2>1. index'.events = index.events
    <3>1. CASE InsertRow(p) \/ InsertCell(p)
      <4>1. CASE InsertRow(p)
        <5> DEFINE w == todo[p][1]
        <5>1. /\ w \in Writes /\ w.write = "insert" /\ Head(todo[p]) = w
          BY <4>1, WriteEffect DEF Write, InsertRow, Due
        <5>2. index' = insert_payload(index, w.table, w.ref, w.payload) /\ index \in Indexes
          BY <4>1, <5>1 DEF InsertRow, TypeInv, Typed
        <5> HIDE DEF w
        <5>3. OtherTables(index, index', w.table)
          BY <5>1, <5>2, InsertedRow
        <5> QED
          BY <5>3 DEF OtherTables
      <4>2. CASE InsertCell(p)
        BY <4>2 DEF InsertCell, insert_payload, TypeInv, Typed, Indexes
      <4> QED
        BY <3>1, <4>1, <4>2
    <3>2. CASE ~InsertRow(p) /\ ~InsertCell(p)
      <4>1. CASE Write(p)
        BY <1>5, <3>2, <4>1 DEF Write, WriteSessionJson, LogLine, LogCell
      <4>2. CASE ~Write(p)
        BY <4>2, StepKinds, StartEffect, CloseEffect, PostRunCellEffect, IdleEffect, CutEffect
      <4> QED
        BY <4>1, <4>2
    <3> QED
      BY <3>1, <3>2
  <2>2. files'.events_jsonl = files.events_jsonl
    <3>1. CASE Write(p)
      BY <1>5, <3>1 DEF Write, WriteSessionJson, InsertRow, InsertCell, LogLine, LogCell,
                        TypeInv, Typed, FilesSet
    <3>2. CASE ~Write(p)
      BY <3>2, StepKinds, StartEffect, CloseEffect, PostRunCellEffect, IdleEffect, CutEffect
    <3> QED
      BY <3>1, <3>2
  <2> QED
    BY <1>2, <1>5, <2>1, <2>2
<1> QED
  BY <1>3, <1>4, <1>5

-----------------------------------------------------------------------------
(* The rows of sessions have their documents.                                   *)
LEMMA SessionsIndexedInductive ==
    TypeInv /\ SessionInv /\ SessionsIndexed /\ [Next]_vars => SessionsIndexed'
<1> SUFFICES ASSUME TypeInv, SessionInv, SessionsIndexed, [Next]_vars PROVE SessionsIndexed'
  OBVIOUS
<1>1. ASSUME NEW p \in Shells, Step(p), NEW row \in index'.sessions
      PROVE  HasDoc(row.ref, row.payload)'
  <2>1. row.ref \in SessionRefs /\ row.payload \in Docs
    <3>1. index' \in Indexes
      BY TypeInductive DEF TypeInv, Typed
    <3> QED
      BY <3>1 DEF Indexes, SessionRows
  <2>2. HasDoc(row.ref, row.payload)
    <3>1. CASE row \in index.sessions
      BY <3>1 DEF SessionsIndexed
    <3>2. CASE row \notin index.sessions
      <4>1. /\ todo[p] # << >> /\ todo[p][1].write = "insert" /\ todo[p][1].table = "sessions"
            /\ row = Row(todo[p][1].ref, todo[p][1].payload)
        BY <1>1, <3>2, NewRows
      <4> QED
        BY <4>1 DEF SessionInv, Row
    <3> QED
      BY <3>1, <3>2
  <2> QED
    BY <1>1, <2>1, <2>2, DocsKept
<1>2. CASE \E p \in Shells : Step(p)
  BY <1>1, <1>2 DEF SessionsIndexed
<1>3. CASE UNCHANGED others
  BY <1>3 DEF others, SessionsIndexed, HasDoc
<1> QED
  BY <1>2, <1>3, NextSteps

-----------------------------------------------------------------------------
(* Rows of objects: a hook writes each after the line it is of, which stays in  *)
(* its log.                                                                     *)
Backed(w) == \E s \in SessionRefs : \E line \in LinesOf(s) : RowOf(w, s, line)
LineDue(L, j, s) ==
    \E i \in 1 .. j - 1 : L[i].write = "log_line" /\ RowOf(L[j], s, L[i].line)
RowInv ==
    \A p \in Shells : \A j \in 1 .. Len(todo[p]) :
        todo[p][j].write = "insert" /\ todo[p][j].table # "sessions" =>
            Backed(todo[p][j]) \/ \E s \in SessionRefs : Owns(p, s) /\ LineDue(todo[p], j, s)
LineTables == {"objects", "object_versions", "lineage_edges"}
RowsBacked ==
    \A table \in LineTables : \A row \in index[table] :
        Backed(Insert(table, row.ref, row.payload))

(* Lines are never taken back, so what a row is of stays.                       *)
LEMMA BackedKept ==
    ASSUME TypeInv, NEW p \in Shells, Step(p), NEW w, Backed(w)
    PROVE  \E s \in SessionRefs : \E line \in LinesOf(s)' : RowOf(w, s, line)
<1>1. PICK s \in SessionRefs : \E line \in LinesOf(s) : RowOf(w, s, line)
  BY DEF Backed
<1>2. PICK line \in LinesOf(s) : RowOf(w, s, line)
  BY <1>1
<1>3. line \in LinesOf(s)'
  BY <1>2, NewLines
<1> QED
  BY <1>2, <1>3

(* The line of a row is before it in its hook or already in the log.            *)
LEMMA RowInductive == TypeInv /\ RowInv /\ [Next]_vars => RowInv'
<1> SUFFICES ASSUME TypeInv, RowInv, [Next]_vars PROVE RowInv'
  OBVIOUS
<1>1. ASSUME NEW p \in Shells, Step(p), NEW q \in Shells, NEW j \in 1 .. Len(todo'[q]),
             NEW w, w = todo'[q][j], w.write = "insert", w.table # "sessions"
      PROVE  \/ \E s \in SessionRefs : \E line \in LinesOf(s)' : RowOf(w, s, line)
             \/ \E s \in SessionRefs : capture'[q].session = {s} /\ LineDue(todo'[q], j, s)
  <2>1. CASE q # p \/ Idle(p)
    <3>1. todo'[q] = todo[q] /\ capture'[q].session = capture[q].session
      BY <1>1, <2>1, StepKinds, StartEffect, CloseEffect, PostRunCellEffect, IdleEffect,
         WriteEffect, CutEffect
    <3>2. Backed(w) \/ \E s \in SessionRefs : Owns(q, s) /\ LineDue(todo[q], j, s)
      BY <1>1, <3>1 DEF RowInv
    <3>3. CASE Backed(w)
      BY <1>1, <3>3, BackedKept
    <3>4. CASE \E s \in SessionRefs : Owns(q, s) /\ LineDue(todo[q], j, s)
      BY <3>1, <3>4 DEF Owns
    <3> QED
      BY <3>2, <3>3, <3>4
  <2>2. CASE q = p /\ (Start(p) \/ Close(p))
    <3>1. PICK s \in SessionRefs : StartHook(todo'[p], s) \/ CloseHook(todo'[p], s)
      BY <2>2, StartEffect, CloseEffect
    <3>2. CASE StartHook(todo'[p], s)
      <4>1. j = 1 \/ j = 2 \/ j = 3 \/ j = 4
        BY <1>1, <2>2, <3>2 DEF StartHook
      <4> QED
        BY <1>1, <2>2, <3>2, <4>1 DEF StartHook, SessionDoc, Insert, EventLog, EventRow
    <3>3. CASE CloseHook(todo'[p], s)
      <4>1. j = 1 \/ j = 2
        BY <1>1, <2>2, <3>3 DEF CloseHook
      <4> QED
        BY <1>1, <2>2, <3>3, <4>1 DEF CloseHook, SessionDoc, Insert
    <3> QED
      BY <3>1, <3>2, <3>3
  <2>3. CASE q = p /\ PostRunCell(p)
    <3>1. todo'[p] # << >>
      BY <1>1, <2>3
    <3>2. PICK s \in SessionRefs, c \in CellStates :
            capture'[p].session = {s} /\ CellHook(todo'[p], s, c.ref)
      BY <2>3, <3>1, PostRunCellEffect
    <3>3. \E i \in 1 .. j - 1 :
            todo'[p][i].write = "log_line" /\ RowOf(todo'[p][j], s, todo'[p][i].line)
      BY <1>1, <2>3, <3>2 DEF CellHook
    <3> QED
      BY <2>3, <3>2, <3>3 DEF LineDue
  <2>4. CASE q = p /\ Cut(p)
    <3>1. todo'[p] = << >>
      BY <2>4, CutEffect
    <3> QED
      BY <2>4, <3>1
  <2>5. CASE q = p /\ Write(p)
    <3>1. j + 1 \in 1 .. Len(todo[p]) /\ w = todo[p][j + 1] /\ (j + 1) - 1 = j /\ j \in Nat
      BY <1>1, <2>5, WriteEffect
    <3>2. Backed(w) \/ \E s \in SessionRefs : Owns(p, s) /\ LineDue(todo[p], j + 1, s)
      BY <1>1, <3>1 DEF RowInv
    <3>3. CASE Backed(w)
      BY <1>1, <3>3, BackedKept
    <3>4. CASE \E s \in SessionRefs : Owns(p, s) /\ LineDue(todo[p], j + 1, s)
      <4>1. PICK s \in SessionRefs : Owns(p, s) /\ LineDue(todo[p], j + 1, s)
        BY <3>4
      <4>2. PICK i \in 1 .. j : todo[p][i].write = "log_line" /\ RowOf(w, s, todo[p][i].line)
        BY <3>1, <4>1 DEF LineDue
      <4>3. CASE i = 1
        <5>1. LogLine(p)
          BY <2>5, <4>2, <4>3, WriteEffect DEF Write, WriteSessionJson, InsertRow, LogEvent,
             InsertEvent, LogCell, InsertCell, Due
        <5>2. todo[p][1].line \in LinesOf(s)'
          BY <1>1, <4>1, <5>1, NewLines
        <5> QED
          BY <4>2, <4>3, <5>2
      <4>4. CASE i # 1
        <5>1. /\ i - 1 \in 1 .. j - 1 /\ i - 1 \in 1 .. Len(todo'[p])
              /\ (i - 1) + 1 = i
          BY <1>1, <2>5, <4>2, <4>4
        <5>2. todo'[p][i - 1] = todo[p][i]
          <6>1. \A k \in 1 .. Len(todo'[p]) : todo'[p][k] = todo[p][k + 1]
            BY <2>5, WriteEffect
          <6>2. todo'[p][i - 1] = todo[p][(i - 1) + 1]
            BY <5>1, <6>1
          <6> QED
            BY <5>1, <6>2
        <5>3. LineDue(todo'[p], j, s)
          BY <1>1, <2>5, <4>2, <5>1, <5>2 DEF LineDue
        <5>4. capture'[p].session = {s}
          BY <2>5, <4>1, WriteEffect DEF Owns
        <5> QED
          BY <2>5, <5>3, <5>4
      <4> QED
        BY <4>3, <4>4
    <3> QED
      BY <3>2, <3>3, <3>4
  <2> QED
    BY <1>1, <2>1, <2>2, <2>3, <2>4, <2>5, StepKinds
<1>2. CASE \E p \in Shells : Step(p)
  BY <1>1, <1>2 DEF RowInv, Backed, Owns
<1>3. CASE UNCHANGED others
  BY <1>3 DEF others, RowInv, Backed, Owns, LinesOf
<1> QED
  BY <1>2, <1>3, NextSteps

(* So every row of an object, a version or an edge has its line.                *)
LEMMA RowsBackedInductive ==
    TypeInv /\ RowInv /\ RowsBacked /\ [Next]_vars => RowsBacked'
<1> SUFFICES ASSUME TypeInv, RowInv, RowsBacked, [Next]_vars PROVE RowsBacked'
  OBVIOUS
<1>1. ASSUME NEW p \in Shells, Step(p), NEW table \in LineTables, NEW row \in index'[table]
      PROVE  \E s \in SessionRefs : \E line \in LinesOf(s)' :
               RowOf(Insert(table, row.ref, row.payload), s, line)
  <2> DEFINE w == Insert(table, row.ref, row.payload)
  <2>1. Backed(w)
    <3>1. CASE row \in index[table]
      BY <3>1 DEF RowsBacked
    <3>2. CASE row \notin index[table]
      <4>1. /\ todo[p] # << >> /\ todo[p][1].write = "insert" /\ todo[p][1].table = table
            /\ row = Row(todo[p][1].ref, todo[p][1].payload)
        BY <1>1, <3>2, NewRows DEF LineTables
      <4>2. 1 \in 1 .. Len(todo[p])
        BY <4>1, DueFacts DEF TypeInv
      <4>3. ~ \E s \in SessionRefs : LineDue(todo[p], 1, s)
        BY DEF LineDue
      <4>4. Backed(todo[p][1])
        BY <4>1, <4>2, <4>3 DEF RowInv, LineTables
      <4>5. \A s, line : RowOf(todo[p][1], s, line) => RowOf(w, s, line)
        BY <4>1 DEF RowOf, Row, Insert
      <4> QED
        BY <4>4, <4>5 DEF Backed
    <3> QED
      BY <3>1, <3>2
  <2> HIDE DEF w
  <2>2. \E s \in SessionRefs : \E line \in LinesOf(s)' : RowOf(w, s, line)
    BY <1>1, <2>1, BackedKept
  <2> QED
    BY <2>2 DEF w
<1>2. CASE \E p \in Shells : Step(p)
  BY <1>1, <1>2 DEF RowsBacked, Backed
<1>3. CASE UNCHANGED others
  BY <1>3 DEF others, RowsBacked, Backed, LinesOf
<1> QED
  BY <1>2, <1>3, NextSteps

-----------------------------------------------------------------------------
(* Events: what is due is of the shell's own session, and a row of one is       *)
(* inserted only while the file has a copy more.                                *)
EventInv ==
    /\ \A e \in Events : Copies(e, index.events) <= Copies(e, files.events_jsonl)
    /\ \A p \in Shells : \A j \in 1 .. Len(todo[p]) :
         todo[p][j].write \in {"log_event", "insert_event"} => Owns(p, todo[p][j].event[2])
    /\ \A p \in Shells : todo[p] # << >> /\ todo[p][1].write = "insert_event" =>
         Copies(todo[p][1].event, index.events) < Copies(todo[p][1].event, files.events_jsonl)

(* The session of an event is of one shell, so no other shell can insert its    *)
(* row first.                                                                   *)
LEMMA EventInductive ==
    TypeInv /\ ArrangedInv /\ Disjoint /\ EventInv /\ [Next]_vars => EventInv'
<1> SUFFICES ASSUME TypeInv, ArrangedInv, Disjoint, EventInv, [Next]_vars PROVE EventInv'
  OBVIOUS
<1>1. ASSUME NEW p \in Shells, Step(p) PROVE EventInv'
  <2>1. ASSUME NEW e \in Events
        PROVE  Copies(e, index'.events) <= Copies(e, files'.events_jsonl)
    <3>1. CASE InsertEvent(p) /\ todo[p][1].event = e
      <4>1. /\ todo[p] # << >> /\ todo[p][1].write = "insert_event" /\ ~LogEvent(p)
        BY <3>1, WriteEffect DEF Write, InsertEvent, LogEvent, Due
      <4>2. Copies(e, index.events) < Copies(e, files.events_jsonl)
        BY <3>1, <4>1 DEF EventInv
      <4> QED
        BY <1>1, <3>1, <4>1, <4>2, NewEvents
    <3>2. CASE ~(InsertEvent(p) /\ todo[p][1].event = e)
      <4>1. Copies(e, index.events) <= Copies(e, files.events_jsonl)
        BY DEF EventInv
      <4>2. /\ Copies(e, files.events_jsonl) \in Nat /\ Copies(e, index.events) \in Nat
            /\ Copies(e, index'.events) = Copies(e, index.events) + 0
            /\ \/ Copies(e, files'.events_jsonl) = Copies(e, files.events_jsonl) + 0
               \/ Copies(e, files'.events_jsonl) = Copies(e, files.events_jsonl) + 1
        BY <1>1, <3>2, NewEvents, Zenon
      <4> QED
        BY <4>1, <4>2
    <3> QED
      BY <3>1, <3>2
  <2>2. ASSUME NEW q \in Shells, NEW j \in 1 .. Len(todo'[q]), NEW w, w = todo'[q][j],
               w.write \in {"log_event", "insert_event"}
        PROVE  capture'[q].session = {w.event[2]}
    <3>1. CASE q # p \/ Idle(p)
      <4>1. todo'[q] = todo[q] /\ capture'[q].session = capture[q].session
        BY <1>1, <3>1, StepKinds, StartEffect, CloseEffect, PostRunCellEffect, IdleEffect,
           WriteEffect, CutEffect
      <4> QED
        BY <2>2, <4>1 DEF EventInv, Owns
    <3>2. CASE q = p /\ Start(p)
      <4>1. PICK s \in SessionRefs : StartHook(todo'[p], s) /\ capture'[p].session = {s}
        BY <3>2, StartEffect
      <4>2. j = 1 \/ j = 2 \/ j = 3 \/ j = 4
        BY <2>2, <3>2, <4>1 DEF StartHook
      <4>3. w = EventLog(<< "session_started", s >>) \/ w = EventRow(<< "session_started", s >>)
        BY <2>2, <3>2, <4>1, <4>2 DEF StartHook, SessionDoc, Insert
      <4> QED
        BY <3>2, <4>1, <4>3 DEF EventLog, EventRow
    <3>3. CASE q = p /\ Close(p)
      <4>1. PICK s \in SessionRefs : CloseHook(todo'[p], s)
        BY <3>3, CloseEffect
      <4>2. j = 1 \/ j = 2
        BY <2>2, <3>3, <4>1 DEF CloseHook
      <4> QED
        BY <2>2, <3>3, <4>1, <4>2 DEF CloseHook, SessionDoc, Insert
    <3>4. CASE q = p /\ PostRunCell(p)
      <4>1. todo'[p] # << >>
        BY <2>2, <3>4
      <4>2. PICK s \in SessionRefs, c \in CellStates :
              capture'[p].session = {s} /\ CellHook(todo'[p], s, c.ref)
        BY <3>4, <4>1, PostRunCellEffect
      <4> QED
        BY <2>2, <3>4, <4>2 DEF CellHook
    <3>5. CASE q = p /\ Cut(p)
      <4>1. todo'[p] = << >>
        BY <3>5, CutEffect
      <4> QED
        BY <2>2, <3>5, <4>1
    <3>6. CASE q = p /\ Write(p)
      <4>1. j + 1 \in 1 .. Len(todo[p]) /\ w = todo[p][j + 1]
        BY <2>2, <3>6, WriteEffect
      <4>2. capture'[p].session = capture[p].session
        BY <3>6, WriteEffect
      <4> QED
        BY <2>2, <3>6, <4>1, <4>2 DEF EventInv, Owns
    <3> QED
      BY <1>1, <3>1, <3>2, <3>3, <3>4, <3>5, <3>6, StepKinds
  <2>3. ASSUME NEW q \in Shells, todo'[q] # << >>, NEW w, w = todo'[q][1],
               w.write = "insert_event"
        PROVE  Copies(w.event, index'.events) < Copies(w.event, files'.events_jsonl)
    <3>1. CASE q # p \/ Idle(p)
      <4>1. todo'[q] = todo[q]
        BY <1>1, <3>1, StepKinds, StartEffect, CloseEffect, PostRunCellEffect, IdleEffect,
           WriteEffect, CutEffect
      <4>2. /\ Copies(w.event, index.events) < Copies(w.event, files.events_jsonl)
            /\ Owns(q, w.event[2]) /\ w \in Writes
        <5>1. w \in Writes /\ 1 \in 1 .. Len(todo[q])
          BY <2>3, <4>1, DueFacts DEF TypeInv
        <5> QED
          BY <2>3, <4>1, <5>1 DEF EventInv
      <4>3. PICK e \in Events : w.event = e
        BY <2>3, <4>2, WriteShapes
      <4>4. ~(InsertEvent(p) /\ todo[p][1].event = e)
        <5>1. ASSUME InsertEvent(p), todo[p][1].event = e PROVE FALSE
          <6>1. /\ todo[p] # << >> /\ todo[p][1].write = "insert_event" /\ 1 \in 1 .. Len(todo[p])
            BY <5>1, WriteEffect DEF Write, InsertEvent, Due
          <6>2. Owns(p, e[2])
            BY <5>1, <6>1 DEF EventInv
          <6>3. e[2] \in SessionRefs
            BY DEF Events
          <6>4. q = p
            BY <4>2, <4>3, <6>2, <6>3 DEF Disjoint
          <6>5. Idle(p)
            BY <3>1, <6>4
          <6> QED
            BY <6>1, <6>5 DEF Idle, RunCell, Bind, Unbind, Mutate, Hooked
        <5> QED
          BY <5>1
      <4>5. /\ Copies(e, files.events_jsonl) \in Nat /\ Copies(e, index.events) \in Nat
            /\ Copies(e, index'.events) = Copies(e, index.events) + 0
            /\ \/ Copies(e, files'.events_jsonl) = Copies(e, files.events_jsonl) + 0
               \/ Copies(e, files'.events_jsonl) = Copies(e, files.events_jsonl) + 1
        BY <1>1, <4>4, NewEvents, Zenon
      <4> QED
        BY <4>2, <4>3, <4>5
    <3>2. CASE q = p /\ (Start(p) \/ Close(p) \/ PostRunCell(p) \/ Cut(p))
      <4>1. w.write \in {"session_json", "log_line", "log_event", "log_cell"}
        <5>1. CASE Start(p)
          <6>1. PICK s \in SessionRefs : StartHook(todo'[p], s)
            BY <5>1, StartEffect
          <6>2. todo'[p][1].write = "session_json"
            BY <6>1 DEF StartHook, SessionDoc
          <6> QED
            BY <2>3, <3>2, <6>2
        <5>2. CASE Close(p)
          <6>1. PICK s \in SessionRefs : CloseHook(todo'[p], s)
            BY <5>2, CloseEffect
          <6>2. todo'[p][1].write = "session_json"
            BY <6>1 DEF CloseHook, SessionDoc
          <6> QED
            BY <2>3, <3>2, <6>2
        <5>3. CASE PostRunCell(p)
          BY <2>3, <3>2, <5>3, PostRunCellEffect DEF CellHook
        <5>4. CASE Cut(p)
          BY <2>3, <3>2, <5>4, CutEffect
        <5> QED
          BY <3>2, <5>1, <5>2, <5>3, <5>4
      <4> QED
        BY <2>3, <4>1
    <3>3. CASE q = p /\ Write(p)
      <4>1. 1 \in 1 .. Len(todo'[p])
        <5>1. todo'[p] \in Seq(Writes)
          BY <3>3, WriteEffect, NextWrite
        <5> QED
          BY <2>3, <3>3, <5>1, EmptyByLength
      <4>2. 2 \in 1 .. Len(todo[p]) /\ w = todo[p][2]
        BY <2>3, <3>3, <4>1, WriteEffect
      <4>3. todo[p][1] = EventLog(w.event)
        <5>1. 2 - 1 = 1 /\ 2 > 1
          OBVIOUS
        <5> QED
          BY <2>3, <4>2, <5>1 DEF ArrangedInv, Arranged
      <4>4. todo[p][1].write = "log_event" /\ todo[p][1].event = w.event
        BY <4>3 DEF EventLog
      <4>5. LogEvent(p) /\ ~InsertEvent(p)
        BY <3>3, <4>4, WriteEffect DEF Write, WriteSessionJson, InsertRow, LogLine, InsertEvent,
           LogCell, InsertCell, Due
      <4>6. PICK e \in Events : w.event = e
        BY <3>3, <4>4, WriteEffect, WriteShapes
      <4>7. /\ Copies(e, files.events_jsonl) \in Nat /\ Copies(e, index.events) \in Nat
            /\ Copies(e, index'.events) = Copies(e, index.events) + 0
            /\ Copies(e, files'.events_jsonl) = Copies(e, files.events_jsonl) + 1
        BY <1>1, <4>4, <4>5, <4>6, NewEvents, Zenon
      <4>8. Copies(e, index.events) <= Copies(e, files.events_jsonl)
        BY DEF EventInv
      <4> QED
        BY <4>6, <4>7, <4>8
    <3> QED
      BY <1>1, <3>1, <3>2, <3>3, StepKinds
  <2> QED
    BY <2>1, <2>2, <2>3 DEF EventInv, Owns
<1>2. CASE UNCHANGED others
  BY <1>2 DEF others, EventInv, Owns
<1> QED
  BY <1>1, <1>2, NextSteps

-----------------------------------------------------------------------------
(* Cells: the row of one follows its line in the log of its session.            *)
CellLogged(p) ==
    \E s \in SessionRefs : Owns(p, s) /\ CellRecord(p) \in CellsOf(s)
CellInv ==
    /\ \A p \in Shells : todo[p] # << >> /\ todo[p][1].write = "insert_cell" => CellLogged(p)
    /\ \A row \in index.cells : \E s \in SessionRefs : row.payload \in CellsOf(s)

(* Between the line and the row of a cell its record does not change.           *)
LEMMA CellInductive == TypeInv /\ ArrangedInv /\ CellInv /\ [Next]_vars => CellInv'
<1> SUFFICES ASSUME TypeInv, ArrangedInv, CellInv, [Next]_vars PROVE CellInv'
  OBVIOUS
<1>1. ASSUME NEW p \in Shells, Step(p) PROVE CellInv'
  <2>1. ASSUME NEW row \in index'.cells
        PROVE  \E s \in SessionRefs : row.payload \in CellsOf(s)'
    <3>1. \E s \in SessionRefs : row.payload \in CellsOf(s)
      <4>1. CASE row \in index.cells
        BY <4>1 DEF CellInv
      <4>2. CASE row \notin index.cells
        <5>1. /\ todo[p] # << >> /\ todo[p][1].write = "insert_cell"
              /\ row.payload = CellRecord(p)
          BY <1>1, <4>2, NewCellRows
        <5> QED
          BY <5>1 DEF CellInv, CellLogged
      <4> QED
        BY <4>1, <4>2
    <3>2. PICK s \in SessionRefs : row.payload \in CellsOf(s)
      BY <3>1
    <3>3. row.payload \in CellsOf(s)'
      BY <1>1, <3>2, NewLines
    <3> QED
      BY <3>3
  <2>2. ASSUME NEW q \in Shells, todo'[q] # << >>, todo'[q][1].write = "insert_cell"
        PROVE  CellLogged(q)'
    <3>1. CASE q # p
      <4>1. todo'[q] = todo[q] /\ capture'[q] = capture[q]
        BY <1>1, <3>1, StepKinds, StartEffect, CloseEffect, PostRunCellEffect, IdleEffect,
           WriteEffect, CutEffect
      <4>2. CellLogged(q)
        BY <2>2, <4>1 DEF CellInv
      <4>3. CellRecord(q)' = CellRecord(q)
        BY <4>1 DEF CellRecord, Current, Ref
      <4>4. PICK s \in SessionRefs : Owns(q, s) /\ CellRecord(q) \in CellsOf(s)
        BY <4>2 DEF CellLogged
      <4>5. capture'[q].session = {s} /\ CellRecord(q)' \in CellsOf(s)'
        BY <1>1, <4>1, <4>3, <4>4, NewLines DEF Owns
      <4> QED
        BY <4>5 DEF CellLogged, Owns
    <3>2. CASE q = p /\ Idle(p)
      <4>1. todo[p] = << >> /\ todo'[p] = todo[p]
        BY <3>2, IdleEffect DEF Idle, RunCell, Bind, Unbind, Mutate, Hooked
      <4> QED
        BY <2>2, <3>2, <4>1
    <3>3. CASE q = p /\ (Start(p) \/ Close(p) \/ PostRunCell(p) \/ Cut(p))
      <4>1. todo'[q][1].write \in {"session_json", "log_line", "log_event", "log_cell"}
        <5>1. CASE Start(p)
          <6>1. PICK s \in SessionRefs : StartHook(todo'[p], s)
            BY <5>1, StartEffect
          <6>2. todo'[p][1].write = "session_json"
            BY <6>1 DEF StartHook, SessionDoc
          <6> QED
            BY <2>2, <3>3, <6>2
        <5>2. CASE Close(p)
          <6>1. PICK s \in SessionRefs : CloseHook(todo'[p], s)
            BY <5>2, CloseEffect
          <6>2. todo'[p][1].write = "session_json"
            BY <6>1 DEF CloseHook, SessionDoc
          <6> QED
            BY <2>2, <3>3, <6>2
        <5>3. CASE PostRunCell(p)
          BY <2>2, <3>3, <5>3, PostRunCellEffect DEF CellHook
        <5>4. CASE Cut(p)
          BY <2>2, <3>3, <5>4, CutEffect
        <5> QED
          BY <3>3, <5>1, <5>2, <5>3, <5>4
      <4> QED
        BY <2>2, <4>1
    <3>4. CASE q = p /\ Write(p)
      <4>1. 1 \in 1 .. Len(todo'[p])
        <5>1. todo'[p] \in Seq(Writes)
          BY <3>4, WriteEffect, NextWrite
        <5> QED
          BY <2>2, <3>4, <5>1, EmptyByLength
      <4>2. 2 \in 1 .. Len(todo[p]) /\ todo[p][2].write = "insert_cell"
        BY <2>2, <3>4, <4>1, WriteEffect
      <4>3. todo[p][1].write = "log_cell"
        <5>1. 2 - 1 = 1 /\ 2 > 1
          OBVIOUS
        <5> QED
          BY <4>2, <5>1 DEF ArrangedInv, Arranged
      <4>4. LogCell(p)
        BY <3>4, <4>3, WriteEffect DEF Write, WriteSessionJson, InsertRow, LogLine, InsertEvent,
           LogEvent, InsertCell, Due
      <4>5. capture' = capture
        BY <4>4 DEF LogCell
      <4>6. CellRecord(p)' = CellRecord(p)
        BY <4>5 DEF CellRecord, Current, Ref
      <4>7. PICK s \in SessionRefs : Owns(p, s)
        <5>1. capture[p].session # {}
          <6>1. 1 \in 1 .. Len(todo[p])
            BY <3>4, WriteEffect
          <6> QED
            BY <4>3, <6>1 DEF TypeInv, CaptureInv
        <5> QED
          BY <5>1, CaptureFacts DEF TypeInv, Owns
      <4>8. CellRecord(p) \in CellsOf(s)'
        BY <1>1, <4>4, <4>7, NewLines
      <4> QED
        BY <3>4, <4>5, <4>6, <4>7, <4>8 DEF CellLogged, Owns
    <3> QED
      BY <1>1, <3>1, <3>2, <3>3, <3>4, StepKinds
  <2> QED
    BY <2>1, <2>2 DEF CellInv
<1>2. CASE UNCHANGED others
  BY <1>2 DEF others, CellInv, CellLogged, Owns, CellRecord, Current, Ref, CellsOf
<1> QED
  BY <1>1, <1>2, NextSteps

-----------------------------------------------------------------------------
(* The index is never ahead of the files.                                       *)
IndexInv ==
    /\ ArrangedInv /\ SessionInv /\ SessionsIndexed /\ RowInv /\ RowsBacked
    /\ EventInv /\ CellInv

(* The initial state: nothing is due, indexed or logged.                        *)
LEMMA IndexInit == Init => IndexInv
<1> SUFFICES ASSUME Init PROVE IndexInv
  OBVIOUS
<1>1. \A p \in Shells : capture[p].session = {} /\ todo[p] = << >>
  BY DEF Init, NoCapture
<1>2. /\ index.sessions = {} /\ index.cells = {} /\ index.objects = {}
      /\ index.object_versions = {} /\ index.lineage_edges = {}
      /\ index.events = files.events_jsonl
  BY DEF Init, EmptyIndex
<1>3. ArrangedInv
  BY <1>1, ArrangedHooks DEF ArrangedInv
<1>4. SessionInv
  BY <1>1 DEF SessionInv, Disjoint, Owns
<1>5. SessionsIndexed /\ RowsBacked
  BY <1>2 DEF SessionsIndexed, RowsBacked, LineTables
<1>6. RowInv
  BY <1>1 DEF RowInv
<1>7. EventInv
  <2>1. \A e \in Events : Copies(e, index.events) <= Copies(e, files.events_jsonl)
    <3>1. ASSUME NEW e \in Events PROVE Copies(e, files.events_jsonl) \in Nat
      BY TypeInit, LoggedEvent DEF TypeInv, Typed, FilesSet
    <3> QED
      BY <1>2, <3>1
  <2> QED
    BY <1>1, <2>1 DEF EventInv
<1>8. CellInv
  BY <1>1, <1>2 DEF CellInv
<1> QED
  BY <1>3, <1>4, <1>5, <1>6, <1>7, <1>8 DEF IndexInv

(* Every step.                                                                  *)
LEMMA IndexInductive == TypeInv /\ IndexInv /\ [Next]_vars => IndexInv'
BY ArrangedInductive, SessionInductive, SessionsIndexedInductive, RowInductive,
   RowsBackedInductive, EventInductive, CellInductive DEF IndexInv, SessionInv

(* Each event of the index is in the file.                                      *)
LEMMA EventsLogged == TypeInv /\ IndexInv => index.events \sqsubseteq files.events_jsonl
<1> SUFFICES ASSUME TypeInv, IndexInv PROVE index.events \sqsubseteq files.events_jsonl
  OBVIOUS
<1>1. PICK E \in SUBSET Events, F \in SUBSET Events :
        index.events \in [E -> Nat \ {0}] /\ files.events_jsonl \in [F -> Nat \ {0}]
  BY DEF TypeInv, Typed, Indexes, FilesSet, EventBags
<1>2. ASSUME NEW e \in DOMAIN index.events
      PROVE  e \in DOMAIN files.events_jsonl /\ index.events[e] <= files.events_jsonl[e]
  <2>1. Copies(e, index.events) <= Copies(e, files.events_jsonl)
    BY <1>1 DEF IndexInv, EventInv
  <2>2. index.events[e] \in Nat \ {0} /\ Copies(e, index.events) = index.events[e]
    BY <1>1 DEF Copies
  <2> QED
    BY <2>1, <2>2 DEF Copies
<1> QED
  BY <1>2 DEF \sqsubseteq

-----------------------------------------------------------------------------
(* What a step does to the cell and the counter of a session's capture.         *)
LEMMA FailuresCounted ==
    ASSUME TypeInv, NEW p \in Shells, Step(p), failures' = 0
    PROVE  failures = 0 /\ ~Fail(p)
<1>1. failures \in Nat
  BY DEF TypeInv, Typed
<1>2. failures' = failures \/ failures' = failures + 1
  BY DEF Step, Start, Close, RunCell, PostRunCell, Bind, Unbind, Mutate, WriteSessionJson,
         InsertRow, LogEvent, InsertEvent, LogLine, LogCell, InsertCell, Fail, Exit, Crash, counts
<1>3. Fail(p) => failures' = failures + 1
  BY DEF Fail
<1> QED
  BY <1>1, <1>2, <1>3

(* pre_run_cell counts the cell and opens it, or its write failed.              *)
LEMMA CellOpened ==
    ASSUME TypeInv, NEW p \in Shells, RunCell(p)
    PROVE  /\ capture[p].session # {} /\ todo[p] = << >> /\ capture[p] \in Captures
           /\ capture'[p].counter = capture[p].counter + 1
           /\ \/ failures' # 0 /\ capture'[p].cell = capture[p].cell
              \/ \E c \in CellStates :
                   /\ capture'[p].cell = {c} /\ c.ref = capture[p].counter + 1
                   /\ c.created_object_refs = {} /\ c.mutated_object_refs = {}
<1>1. /\ capture[p].session # {} /\ todo[p] = << >> /\ CellsRun < MaxCells
  BY DEF RunCell, Hooked
<1>2. capture[p] \in Captures /\ capture[p].counter + 1 \in 1 .. MaxCells
  <2>1. capture[p] \in Captures
    BY <1>1, CaptureFacts DEF TypeInv
  <2>2. capture[p].counter + 1 <= MaxCells
    BY <1>1, CellsBound DEF TypeInv
  <2> QED
    BY <2>1, <2>2 DEF Captures
<1> DEFINE k == capture[p]
           n == capture[p].counter + 1
           counted == [k EXCEPT !.counter = n]
           c == NewCell(p)
           opened == [counted EXCEPT !.cell = {c}]
<1>3. c \in CellStates /\ c.ref = n /\ c.created_object_refs = {} /\ c.mutated_object_refs = {}
  <2>1. snapshot_namespace(p) \in Snapshots
    BY SnapshotTyped DEF TypeInv
  <2> QED
    BY <1>2, <2>1 DEF NewCell, CellStates
<1> HIDE DEF c
<1>4. \/ capture' = [capture EXCEPT ![p] = opened]
      \/ capture' = [capture EXCEPT ![p] = counted] /\ failures' = failures + 1
  BY DEF RunCell, c
<1>5. failures + 1 # 0
  BY DEF TypeInv, Typed
<1> HIDE DEF k, n
<1>6. counted \in Captures /\ counted.counter = n /\ counted.cell = k.cell
  <2>1. k \in Captures /\ n \in 0 .. MaxCells
    BY <1>2 DEF k, n
  <2> QED
    BY <2>1, Counted
<1> HIDE DEF counted
<1>7. opened.counter = n /\ opened.cell = {c}
  <2>1. {c} \in {{}} \cup {{x} : x \in CellStates}
    BY <1>3
  <2> QED
    BY <2>1, <1>6, Holding
<1> HIDE DEF opened
<1>8. \/ capture'[p] = opened
      \/ capture'[p] = counted /\ failures' # 0
  BY <1>4, <1>5 DEF TypeInv, Typed
<1> QED
  BY <1>1, <1>2, <1>3, <1>6, <1>7, <1>8 DEF k, n

(* A cell is a new one, or the cell there was, with what a line noted in it.    *)
LEMMA CellChanges ==
    ASSUME TypeInv, NEW p \in Shells, Step(p), NEW q \in Shells, NEW s \in SessionRefs,
           capture'[q].session = {s}
    PROVE  \/ /\ q = p /\ Start(p) /\ files.session_json[s] = {}
              /\ capture'[q].cell = {} /\ capture'[q].counter = 0
           \/ /\ capture[q].session = {s} /\ capture[q] \in Captures
              /\ \/ /\ capture'[q].cell \subseteq capture[q].cell
                    /\ capture'[q].counter = capture[q].counter
                 \/ /\ q = p /\ RunCell(p) /\ failures' # 0
                    /\ capture'[q].cell = capture[q].cell
                    /\ capture'[q].counter = capture[q].counter + 1
                 \/ /\ q = p /\ RunCell(p) /\ capture'[q].counter = capture[q].counter + 1
                    /\ \E c \in CellStates :
                         /\ capture'[q].cell = {c} /\ c.ref = capture[q].counter + 1
                         /\ c.created_object_refs = {} /\ c.mutated_object_refs = {}
                 \/ /\ q = p /\ LogLine(p) /\ todo[p][1].line \in Lines
                    /\ capture'[q].counter = capture[q].counter
                    /\ \E c \in CellStates :
                         /\ capture[q].cell = {c}
                         /\ capture'[q].cell = {NotedCell(c, todo[p][1].line)}
<1>1. CASE capture'[q] = capture[q]
  <2>1. capture[q] \in Captures
    BY <1>1, CaptureFacts DEF TypeInv
  <2> QED
    BY <1>1, <2>1
<1>2. CASE capture'[q] # capture[q]
  <2>1. q = p
    BY <1>2, StepKinds, StartEffect, CloseEffect, PostRunCellEffect, IdleEffect, WriteEffect,
       CutEffect
  <2>2. CASE Start(p)
    <3>1. PICK t \in SessionRefs : t \notin Started /\ capture'[p].session = {t}
                                   /\ capture'[p].counter = 0 /\ capture'[p].cell = {}
      BY <2>2, StartEffect
    <3>2. t = s
      BY <2>1, <3>1
    <3> QED
      BY <2>1, <2>2, <3>1, <3>2 DEF Started
  <2>3. CASE RunCell(p)
    <3>1. capture[p].session = {s}
      BY <2>1, <2>3, IdleEffect DEF Idle
    <3> QED
      BY <2>1, <2>3, <3>1, CellOpened
  <2>4. CASE LogLine(p)
    <3>1. PICK t \in SessionRefs, c \in CellStates, held \in Captures :
            /\ todo[p] # << >> /\ Head(todo[p]) = todo[p][1]
            /\ todo[p][1].write = "log_line" /\ todo[p][1].line \in Lines
            /\ capture[p].session = {t} /\ capture[p].cell = {c} /\ Current(p) = c
            /\ capture[p] \in Captures
            /\ held.session = {t} /\ held.counter = capture[p].counter
            /\ held.cell = {NotedCell(c, todo[p][1].line)}
            /\ capture' = [capture EXCEPT ![p] = held] /\ capture'[p] = held
            /\ \A r \in Shells \ {p} : capture'[r] = capture[r]
            /\ files' = [files EXCEPT !.namespace_jsonl[t] =
                           Append(files.namespace_jsonl[t], todo[p][1].line)]
      BY <2>4, LogLineEffect, Zenon
    <3>2. t = s
      BY <2>1, <3>1
    <3> QED
      BY <2>1, <2>4, <3>1, <3>2
  <2>5. CASE InsertEvent(p)
    <3>1. capture[p].session = {s}
      BY <2>1, <2>5, WriteEffect DEF Write
    <3>2. capture[p] \in Captures
      BY <3>1, CaptureFacts DEF TypeInv
    <3> DEFINE k == capture[p]
               emptied == [k EXCEPT !.cell = {}]
    <3>3. capture' = [capture EXCEPT ![p] = emptied]
      BY <1>2, <2>1, <2>5 DEF InsertEvent
    <3> HIDE DEF k
    <3>4. emptied.counter = k.counter /\ emptied.cell = {}
      BY <3>2, Holding DEF k
    <3> HIDE DEF emptied
    <3>5. capture'[p] = emptied
      BY <3>3 DEF TypeInv, Typed
    <3> QED
      BY <2>1, <3>1, <3>2, <3>4, <3>5 DEF k
  <2>6. CASE Close(p) \/ Cut(p)
    <3>1. NoCapture.session = {}
      BY DEF NoCapture
    <3>2. capture'[p] # NoCapture
      BY <2>1, <3>1, Zenon
    <3> QED
      BY <1>2, <2>1, <2>6, <3>2, CloseEffect, CutEffect
  <2>7. CASE ~(Start(p) \/ RunCell(p) \/ LogLine(p) \/ InsertEvent(p) \/ Close(p) \/ Cut(p))
    <3>1. capture' = capture
      BY <2>7 DEF Step, Cut, PostRunCell, Bind, Unbind, Mutate, WriteSessionJson, InsertRow,
                  LogEvent, LogCell, InsertCell
    <3> QED
      BY <1>2, <3>1
  <2> QED
    BY <2>2, <2>3, <2>4, <2>5, <2>6, <2>7
<1> QED
  BY <1>1, <1>2

(* The refs of a cell in the log: one more if a line of it is logged.           *)
LEMMA NewRefs ==
    ASSUME TypeInv, NEW p \in Shells, Step(p), NEW s \in SessionRefs, NEW k, NEW event
    PROVE  RefsIn(s, k, event)' = RefsIn(s, k, event) \cup
             (IF LogLine(p) /\ Owns(p, s) /\ todo[p][1].line.cell_ref = k
              THEN NotedRefs(todo[p][1].line, event) ELSE {})
<1>1. LinesOf(s)' = LinesOf(s) \cup
        (IF LogLine(p) /\ Owns(p, s) THEN {todo[p][1].line} ELSE {})
  BY NewLines
<1> DEFINE line == todo[p][1].line
<1>2. RefsIn(s, k, event)' =
        { l.object_ref : l \in { m \in LinesOf(s)' : m.cell_ref = k /\ m.event = event } }
  BY DEF RefsIn
<1> HIDE DEF line
<1> QED
  BY <1>1, <1>2 DEF RefsIn, NotedRefs, line

-----------------------------------------------------------------------------
(* Commits: the cells and lines of a session are of the cells it has counted,   *)
(* the lines due of its current one; its log is empty until it has a document.  *)
Orderly(p) ==
    /\ \A c \in capture[p].cell : \A j \in 1 .. Len(todo[p]) :
         todo[p][j].write = "log_line" => todo[p][j].line.cell_ref = c.ref
    /\ todo[p] # << >> => todo[p][Len(todo[p])].write = "insert_event"
NoLineDue(L) == \A j \in 1 .. Len(L) : L[j].write # "log_line"
CountInv ==
    \A s \in SessionRefs :
        /\ files.session_json[s] = {} => LinesOf(s) = {} /\ CellsOf(s) = {}
        /\ \A p \in Shells : Owns(p, s) =>
             /\ \A line \in LinesOf(s) : line.cell_ref <= capture[p].counter
             /\ \A cell \in CellsOf(s) : cell.cell_ref <= capture[p].counter
             /\ Orderly(p)

(* What a cell lists is what the log of its session has for it, and, unless a   *)
(* hook failed, nothing more of it is to be logged once it is committed.        *)
Complete(s, k, created, mutated) ==
    /\ created \subseteq RefsIn(s, k, "object_registered")
    /\ mutated \subseteq RefsIn(s, k, "object_mutated")
    /\ failures = 0 => /\ created = RefsIn(s, k, "object_registered")
                       /\ mutated = RefsIn(s, k, "object_mutated")
CommitInv ==
    \A s \in SessionRefs :
        /\ \A cell \in CellsOf(s) :
             /\ cell.session_ref = s
             /\ Complete(s, cell.cell_ref, cell.created_object_refs, cell.mutated_object_refs)
        /\ \A p \in Shells : Owns(p, s) => \A c \in capture[p].cell :
             /\ Complete(s, c.ref, c.created_object_refs, c.mutated_object_refs)
             /\ failures = 0 /\ (\E cell \in CellsOf(s) : cell.cell_ref = c.ref) =>
                  todo[p] # << >> /\ NoLineDue(todo[p])

(* It is kept by every step.                                                    *)
LEMMA CountInductive ==
    TypeInv /\ SessionInv /\ CountInv /\ [Next]_vars => CountInv'
<1> SUFFICES ASSUME TypeInv, SessionInv, CountInv, [Next]_vars PROVE CountInv'
  OBVIOUS
<1>1. ASSUME NEW p \in Shells, Step(p), NEW s \in SessionRefs PROVE
        /\ files'.session_json[s] = {} => LinesOf(s)' = {} /\ CellsOf(s)' = {}
        /\ \A q \in Shells : capture'[q].session = {s} =>
             /\ \A line \in LinesOf(s)' : line.cell_ref <= capture'[q].counter
             /\ \A cell \in CellsOf(s)' : cell.cell_ref <= capture'[q].counter
             /\ Orderly(q)'
  <2>1. ASSUME LogLine(p) \/ LogCell(p), Owns(p, s)
        PROVE  files.session_json[s] # {}
    <3>1. todo[p][1].write \in {"log_line", "log_cell"}
      BY <2>1, WriteEffect DEF Write, LogLine, LogCell, Due
    <3> QED
      BY <2>1, <3>1 DEF SessionInv
  <2>2. ASSUME files'.session_json[s] = {}
        PROVE  LinesOf(s)' = {} /\ CellsOf(s)' = {}
    <3>1. files.session_json[s] = {}
      BY <1>1, <2>2, DocsKept
    <3>2. LinesOf(s) = {} /\ CellsOf(s) = {}
      BY <3>1 DEF CountInv
    <3>3. ~((LogLine(p) \/ LogCell(p)) /\ Owns(p, s))
      BY <2>1, <3>1
    <3> QED
      BY <1>1, <3>2, <3>3, NewLines
  <2>3. ASSUME NEW q \in Shells, capture'[q].session = {s}
        PROVE  /\ \A line \in LinesOf(s)' : line.cell_ref <= capture'[q].counter
               /\ \A cell \in CellsOf(s)' : cell.cell_ref <= capture'[q].counter
    <3>1. CASE q = p /\ Start(p) /\ files.session_json[s] = {}
      <4>1. LinesOf(s) = {} /\ CellsOf(s) = {}
        BY <3>1 DEF CountInv
      <4>2. ~LogLine(p) /\ ~LogCell(p)
        BY <3>1 DEF Start, LogLine, LogCell, Due
      <4> QED
        BY <1>1, <4>1, <4>2, NewLines
    <3>2. CASE /\ capture[q].session = {s} /\ capture[q] \in Captures
               /\ \/ capture'[q].counter = capture[q].counter
                  \/ capture'[q].counter = capture[q].counter + 1
      <4>1. capture[q].counter \in Nat /\ capture[q].counter <= capture'[q].counter
        BY <3>2 DEF Captures
      <4>2. ASSUME NEW line \in LinesOf(s)' PROVE line.cell_ref <= capture'[q].counter
        <5>1. line \in Lines
          <6>1. files'.namespace_jsonl[s] \in Seq(Lines)
            BY TypeInductive DEF TypeInv, Typed, FilesSet
          <6> QED
            BY <4>2, <6>1 DEF LinesOf, Range
        <5>2. line.cell_ref \in Nat
          BY <5>1 DEF Lines
        <5>3. line.cell_ref <= capture[q].counter
          <6>1. CASE line \in LinesOf(s)
            BY <3>2, <6>1 DEF CountInv, Owns
          <6>2. CASE line \notin LinesOf(s)
            <7>1. LogLine(p) /\ Owns(p, s) /\ line = todo[p][1].line
              BY <1>1, <4>2, <6>2, NewLines
            <7>2. q = p
              BY <3>2, <7>1 DEF SessionInv, Disjoint, Owns
            <7>3. PICK c \in CellStates : capture[p].cell = {c} /\ Current(p) = c
              BY <7>1, LogLineEffect
            <7>4. todo[p][1].write = "log_line" /\ 1 \in 1 .. Len(todo[p])
              <8>1. Head(todo[p]).write = "log_line"
                BY <7>1 DEF LogLine, Due
              <8> QED
                BY <7>1, <8>1, WriteEffect DEF Write
            <7>5. line.cell_ref = c.ref
              BY <7>1, <7>3, <7>4 DEF CountInv, Orderly
            <7>6. c.ref <= capture[p].counter
              BY <3>2, <7>2, <7>3 DEF TypeInv, CaptureInv
            <7> QED
              BY <7>2, <7>5, <7>6
          <6> QED
            BY <6>1, <6>2
        <5> QED
          BY <4>1, <5>2, <5>3, <3>2
      <4>3. ASSUME NEW cell \in CellsOf(s)' PROVE cell.cell_ref <= capture'[q].counter
        <5>1. cell \in Cells
          <6>1. files'.cells_jsonl[s] \in Seq(Cells)
            BY TypeInductive DEF TypeInv, Typed, FilesSet
          <6> QED
            BY <4>3, <6>1 DEF CellsOf, Range
        <5>2. cell.cell_ref \in Nat
          BY <5>1 DEF Cells
        <5>3. cell.cell_ref <= capture[q].counter
          <6>1. CASE cell \in CellsOf(s)
            BY <3>2, <6>1 DEF CountInv, Owns
          <6>2. CASE cell \notin CellsOf(s)
            <7>1. LogCell(p) /\ Owns(p, s) /\ cell = CellRecord(p)
              BY <1>1, <4>3, <6>2, NewLines
            <7>2. q = p
              BY <3>2, <7>1 DEF SessionInv, Disjoint, Owns
            <7>3. todo[p][1].write = "log_cell" /\ 1 \in 1 .. Len(todo[p])
              BY <7>1, WriteEffect DEF Write, LogCell, Due
            <7>4. capture[p].cell # {}
              BY <7>3 DEF TypeInv, CaptureInv
            <7>5. PICK c \in CellStates : capture[p].cell = {c}
              BY <3>2, <7>2, <7>4, CaptureFacts DEF TypeInv
            <7>6. cell.cell_ref = c.ref
              BY <3>2, <7>1, <7>2, <7>5, CellRecordTyped
            <7>7. c.ref <= capture[p].counter
              BY <3>2, <7>2, <7>5 DEF TypeInv, CaptureInv
            <7> QED
              BY <7>2, <7>6, <7>7
          <6> QED
            BY <6>1, <6>2
        <5> QED
          BY <4>1, <5>2, <5>3, <3>2
      <4> QED
        BY <4>2, <4>3
    <3>3. \/ q = p /\ Start(p) /\ files.session_json[s] = {}
          \/ /\ capture[q].session = {s} /\ capture[q] \in Captures
             /\ \/ capture'[q].counter = capture[q].counter
                \/ capture'[q].counter = capture[q].counter + 1
      BY <1>1, <2>3, CellChanges
    <3> QED
      BY <3>1, <3>2, <3>3
  <2>4. ASSUME NEW q \in Shells, capture'[q].session = {s}
        PROVE  Orderly(q)'
    <3>1. CASE q # p \/ (PostRunCell(p) /\ todo'[p] = << >>)
      <4>1. (todo'[q] = todo[q] \/ todo'[q] = << >>) /\ capture'[q] = capture[q]
        BY <1>1, <3>1, StepKinds, StartEffect, CloseEffect, PostRunCellEffect, IdleEffect,
           WriteEffect, CutEffect
      <4> QED
        BY <2>4, <4>1 DEF CountInv, Owns, Orderly
    <3>2. CASE q = p /\ Start(p)
      <4>1. PICK t \in SessionRefs : StartHook(todo'[p], t) /\ capture'[p].cell = {}
        BY <3>2, StartEffect
      <4>2. todo'[p][Len(todo'[p])].write = "insert_event"
        BY <4>1 DEF StartHook, EventRow
      <4> QED
        BY <3>2, <4>1, <4>2 DEF Orderly
    <3>3. CASE q = p /\ Close(p)
      <4>1. NoCapture.session = {}
        BY DEF NoCapture
      <4>2. capture'[p] # NoCapture
        BY <2>4, <3>3, <4>1, Zenon
      <4> QED
        BY <3>3, <4>2, CloseEffect
    <3>4. CASE q = p /\ PostRunCell(p) /\ todo'[p] # << >>
      <4>1. PICK t \in SessionRefs, c \in CellStates :
              /\ capture'[p].cell = {c} /\ CellHook(todo'[p], t, c.ref)
        BY <3>4, PostRunCellEffect
      <4> QED
        BY <3>4, <4>1 DEF CellHook, Orderly
    <3>5. CASE q = p /\ Idle(p)
      <4>1. todo'[p] = << >>
        BY <3>5, <2>4, IdleEffect, CaptureFacts DEF Idle, RunCell, Bind, Unbind, Mutate, Hooked
      <4> QED
        BY <3>5, <4>1 DEF Orderly
    <3>6. CASE q = p /\ Cut(p)
      <4>1. todo'[p] = << >>
        BY <3>6, CutEffect
      <4> QED
        BY <3>6, <4>1 DEF Orderly
    <3>7. CASE q = p /\ Write(p)
      <4>1. /\ Len(todo[p]) \in Nat /\ Len(todo[p]) > 0 /\ Len(todo'[p]) = Len(todo[p]) - 1
            /\ \A i \in 1 .. Len(todo'[p]) :
                 i + 1 \in 1 .. Len(todo[p]) /\ todo'[p][i] = todo[p][i + 1]
            /\ capture[p].session = {s} /\ todo[p] # << >>
        BY <2>4, <3>7, WriteEffect
      <4>2. ASSUME todo'[p] # << >> PROVE todo'[p][Len(todo'[p])].write = "insert_event"
        <5>1. todo'[p] \in Seq(Writes)
          BY <3>7, WriteEffect, NextWrite
        <5>2. Len(todo'[p]) \in 1 .. Len(todo'[p]) /\ Len(todo'[p]) + 1 = Len(todo[p])
          BY <4>1, <4>2, <5>1, EmptyByLength
        <5>3. todo'[p][Len(todo'[p])] = todo[p][Len(todo[p])]
          BY <4>1, <5>2
        <5>4. todo[p][Len(todo[p])].write = "insert_event"
          BY <4>1 DEF CountInv, Owns, Orderly
        <5> QED
          BY <5>3, <5>4
      <4>3. ASSUME NEW c \in capture'[p].cell PROVE \E d \in capture[p].cell : d.ref = c.ref
        <5>1. ~Start(p) /\ ~RunCell(p)
          BY <4>1 DEF Start, RunCell, Hooked
        <5>2. \/ capture'[p].cell \subseteq capture[p].cell
              \/ /\ todo[p][1].line \in Lines
                 /\ \E d \in CellStates : /\ capture[p].cell = {d}
                                          /\ capture'[p].cell = {NotedCell(d, todo[p][1].line)}
          BY <1>1, <2>4, <3>7, <5>1, CellChanges
        <5>3. CASE capture'[p].cell \subseteq capture[p].cell
          BY <4>3, <5>3
        <5>4. CASE /\ todo[p][1].line \in Lines
                   /\ \E d \in CellStates : /\ capture[p].cell = {d}
                                            /\ capture'[p].cell = {NotedCell(d, todo[p][1].line)}
          <6>1. PICK d \in CellStates : /\ capture[p].cell = {d}
                                        /\ capture'[p].cell = {NotedCell(d, todo[p][1].line)}
            BY <5>4
          <6>2. NotedCell(d, todo[p][1].line).ref = d.ref
            BY <5>4, NotedCellTyped
          <6> QED
            BY <4>3, <6>1, <6>2
        <5> QED
          BY <5>2, <5>3, <5>4
      <4>4. ASSUME NEW c \in capture'[p].cell, NEW j \in 1 .. Len(todo'[p]),
                   todo'[p][j].write = "log_line"
            PROVE  todo'[p][j].line.cell_ref = c.ref
        <5>1. PICK d \in capture[p].cell : d.ref = c.ref
          BY <4>3
        <5>2. Orderly(p)
          BY <4>1 DEF CountInv, Owns
        <5>3. /\ j + 1 \in 1 .. Len(todo[p]) /\ todo'[p][j] = todo[p][j + 1]
              /\ todo[p][j + 1].write = "log_line"
          BY <4>1, <4>4
        <5>4. todo[p][j + 1].line.cell_ref = d.ref
          BY <5>2, <5>3 DEF Orderly
        <5> QED
          BY <5>1, <5>3, <5>4
      <4> QED
        BY <3>7, <4>2, <4>4 DEF Orderly
    <3>8. Start(p) \/ Close(p) \/ PostRunCell(p) \/ Idle(p) \/ Write(p) \/ Cut(p)
      BY <1>1, StepKinds
    <3> QED
      BY <3>1, <3>2, <3>3, <3>4, <3>5, <3>6, <3>7, <3>8, Zenon
  <2> QED
    BY <2>2, <2>3, <2>4, Zenon
<1>2. CASE \E p \in Shells : Step(p)
  BY <1>1, <1>2 DEF CountInv, Owns
<1>3. CASE UNCHANGED others
  BY <1>3 DEF others, CountInv, Owns, LinesOf, CellsOf, Orderly
<1> QED
  BY <1>2, <1>3, NextSteps

(* What is complete stays so, unless a line of the same cell is logged after it. *)
LEMMA CompleteKept ==
    ASSUME TypeInv, NEW p \in Shells, Step(p), NEW s \in SessionRefs,
           NEW k, NEW created, NEW mutated, Complete(s, k, created, mutated),
           LogLine(p) /\ Owns(p, s) /\ todo[p][1].line.cell_ref = k => failures # 0
    PROVE  Complete(s, k, created, mutated)'
<1> DEFINE more(event) == IF LogLine(p) /\ Owns(p, s) /\ todo[p][1].line.cell_ref = k
                          THEN NotedRefs(todo[p][1].line, event) ELSE {}
<1>1. /\ RefsIn(s, k, "object_registered")' =
           RefsIn(s, k, "object_registered") \cup more("object_registered")
      /\ RefsIn(s, k, "object_mutated")' =
           RefsIn(s, k, "object_mutated") \cup more("object_mutated")
  BY NewRefs
<1>2. ASSUME failures' = 0 PROVE more("object_registered") = {} /\ more("object_mutated") = {}
  <2>1. ~(LogLine(p) /\ Owns(p, s) /\ todo[p][1].line.cell_ref = k)
    BY <1>2, FailuresCounted
  <2> QED
    BY <2>1
<1> HIDE DEF more
<1>3. failures' = 0 => failures = 0
  BY FailuresCounted
<1> QED
  BY <1>1, <1>2, <1>3 DEF Complete

(* A line of a committed cell would have to follow its commit in the hook, and  *)
(* every later cell has a higher number.                                        *)
LEMMA CommitInductive ==
    TypeInv /\ ArrangedInv /\ SessionInv /\ CountInv /\ CommitInv /\ [Next]_vars => CommitInv'
<1> SUFFICES ASSUME TypeInv, ArrangedInv, SessionInv, CountInv, CommitInv, [Next]_vars
             PROVE  CommitInv'
  OBVIOUS
<1>1. ASSUME NEW p \in Shells, Step(p), NEW s \in SessionRefs PROVE
        /\ \A cell \in CellsOf(s)' :
             /\ cell.session_ref = s
             /\ Complete(s, cell.cell_ref, cell.created_object_refs, cell.mutated_object_refs)'
        /\ \A q \in Shells : capture'[q].session = {s} => \A c \in capture'[q].cell :
             /\ Complete(s, c.ref, c.created_object_refs, c.mutated_object_refs)'
             /\ failures' = 0 /\ (\E cell \in CellsOf(s)' : cell.cell_ref = c.ref) =>
                  todo'[q] # << >> /\ NoLineDue(todo'[q])
  <2>1. ASSUME NEW cell \in CellsOf(s)'
        PROVE  /\ cell.session_ref = s
               /\ Complete(s, cell.cell_ref, cell.created_object_refs, cell.mutated_object_refs)'
    <3>1. CASE cell \in CellsOf(s)
      <4>1. /\ cell.session_ref = s
            /\ Complete(s, cell.cell_ref, cell.created_object_refs, cell.mutated_object_refs)
        BY <3>1 DEF CommitInv
      <4>2. ASSUME LogLine(p), Owns(p, s), todo[p][1].line.cell_ref = cell.cell_ref, failures = 0
            PROVE  FALSE
        <5>1. PICK c \in CellStates : capture[p].cell = {c} /\ todo[p][1].write = "log_line"
          BY <4>2, LogLineEffect
        <5>2. 1 \in 1 .. Len(todo[p])
          BY <4>2, WriteEffect DEF Write
        <5>3. c.ref = cell.cell_ref
          BY <4>2, <5>1, <5>2 DEF CountInv, Orderly
        <5>4. NoLineDue(todo[p])
          BY <3>1, <4>2, <5>1, <5>3 DEF CommitInv
        <5> QED
          BY <5>1, <5>2, <5>4 DEF NoLineDue
      <4> QED
        BY <1>1, <4>1, <4>2, CompleteKept
    <3>2. CASE cell \notin CellsOf(s)
      <4>1. LogCell(p) /\ Owns(p, s) /\ cell = CellRecord(p)
        BY <1>1, <2>1, <3>2, NewLines
      <4>2. todo[p][1].write = "log_cell" /\ 1 \in 1 .. Len(todo[p])
        <5>1. Head(todo[p]).write = "log_cell"
          BY <4>1 DEF LogCell, Due
        <5> QED
          BY <4>1, <5>1, WriteEffect DEF Write
      <4>3. capture[p].cell # {} /\ capture[p].session = {s}
        BY <4>1, <4>2 DEF TypeInv, CaptureInv, Owns
      <4>4. PICK c \in CellStates : capture[p].cell = {c}
        BY <4>3, CaptureFacts DEF TypeInv
      <4>5. /\ cell.cell_ref = c.ref /\ cell.session_ref = s
            /\ cell.created_object_refs = c.created_object_refs
            /\ cell.mutated_object_refs = c.mutated_object_refs
        BY <4>1, <4>3, <4>4, CellRecordTyped
      <4>6. Complete(s, c.ref, c.created_object_refs, c.mutated_object_refs)
        BY <4>1, <4>4 DEF CommitInv
      <4>7. ~LogLine(p)
        BY <4>1 DEF LogCell, LogLine, Due
      <4>8. Complete(s, c.ref, c.created_object_refs, c.mutated_object_refs)'
        BY <1>1, <4>6, <4>7, CompleteKept
      <4>9. Complete(s, cell.cell_ref, cell.created_object_refs, cell.mutated_object_refs)'
        BY <4>5, <4>8
      <4> QED
        BY <4>5, <4>9
    <3> QED
      BY <3>1, <3>2
  <2>2. ASSUME NEW q \in Shells, capture'[q].session = {s}, NEW c \in capture'[q].cell
        PROVE  Complete(s, c.ref, c.created_object_refs, c.mutated_object_refs)'
    <3>1. CASE capture[q].session = {s} /\ c \in capture[q].cell /\ ~(q = p /\ LogLine(p))
      <4>1. Complete(s, c.ref, c.created_object_refs, c.mutated_object_refs)
        BY <3>1 DEF CommitInv, Owns
      <4>2. ~(LogLine(p) /\ Owns(p, s))
        BY <3>1 DEF SessionInv, Disjoint, Owns
      <4> QED
        BY <1>1, <4>1, <4>2, CompleteKept
    <3>2. ASSUME capture[q].session = {s}, q = p, RunCell(p), NEW d \in CellStates,
                 capture'[q].cell = {d}, d.ref = capture[q].counter + 1,
                 d.created_object_refs = {}, d.mutated_object_refs = {}, capture[q] \in Captures
          PROVE  Complete(s, c.ref, c.created_object_refs, c.mutated_object_refs)'
      <4>1. c = d
        BY <2>2, <3>2
      <4>2. ASSUME NEW line \in LinesOf(s) PROVE line.cell_ref # d.ref
        <5>1. line.cell_ref <= capture[q].counter
          BY <3>2 DEF CountInv, Owns
        <5>2. line \in Lines
          <6>1. files.namespace_jsonl[s] \in Seq(Lines)
            BY DEF TypeInv, Typed, FilesSet
          <6> QED
            BY <6>1 DEF LinesOf, Range
        <5>3. line.cell_ref \in Nat /\ capture[q].counter \in Nat
          BY <3>2, <5>2 DEF Lines, Captures
        <5> QED
          BY <3>2, <5>1, <5>3
      <4>3. RefsIn(s, d.ref, "object_registered") = {} /\ RefsIn(s, d.ref, "object_mutated") = {}
        BY <4>2 DEF RefsIn
      <4>4. Complete(s, d.ref, d.created_object_refs, d.mutated_object_refs)
        BY <3>2, <4>3 DEF Complete
      <4>5. ~LogLine(p)
        BY <3>2 DEF RunCell, Hooked, LogLine, Due
      <4>6. Complete(s, d.ref, d.created_object_refs, d.mutated_object_refs)'
        BY <1>1, <4>4, <4>5, CompleteKept
      <4> QED
        BY <4>1, <4>6
    <3>3. ASSUME capture[q].session = {s}, q = p, LogLine(p), todo[p][1].line \in Lines,
                 NEW d \in CellStates, capture[q].cell = {d},
                 capture'[q].cell = {NotedCell(d, todo[p][1].line)}
          PROVE  Complete(s, c.ref, c.created_object_refs, c.mutated_object_refs)'
      <4>1. PICK line \in Lines : line = todo[p][1].line
        BY <3>3
      <4>2. /\ c.ref = d.ref
            /\ c.created_object_refs = d.created_object_refs \cup NotedRefs(line, "object_registered")
            /\ c.mutated_object_refs = d.mutated_object_refs \cup NotedRefs(line, "object_mutated")
        BY <2>2, <3>3, <4>1, NotedCellTyped
      <4>3. Complete(s, d.ref, d.created_object_refs, d.mutated_object_refs)
        BY <3>3 DEF CommitInv, Owns
      <4>4. line.cell_ref = d.ref
        <5>1. todo[p][1].write = "log_line" /\ 1 \in 1 .. Len(todo[p])
          <6>1. Head(todo[p]).write = "log_line"
            BY <3>3 DEF LogLine, Due
          <6> QED
            BY <3>3, <6>1, WriteEffect DEF Write
        <5>2. Orderly(p)
          BY <3>3 DEF CountInv, Owns
        <5> QED
          BY <3>3, <4>1, <5>1, <5>2 DEF Orderly
      <4>5. /\ RefsIn(s, d.ref, "object_registered")' =
                 RefsIn(s, d.ref, "object_registered") \cup NotedRefs(line, "object_registered")
            /\ RefsIn(s, d.ref, "object_mutated")' =
                 RefsIn(s, d.ref, "object_mutated") \cup NotedRefs(line, "object_mutated")
        BY <1>1, <3>3, <4>1, <4>4, NewRefs DEF Owns
      <4>6. failures' = 0 => failures = 0
        BY <1>1, FailuresCounted
      <4>7. Complete(s, d.ref, c.created_object_refs, c.mutated_object_refs)'
        BY <4>2, <4>3, <4>5, <4>6 DEF Complete
      <4> QED
        BY <4>2, <4>7
    <3>4. \/ capture'[q].cell = {}
          \/ capture[q].session = {s} /\ c \in capture[q].cell /\ ~(q = p /\ LogLine(p))
          \/ /\ capture[q].session = {s} /\ q = p /\ RunCell(p) /\ capture[q] \in Captures
             /\ \E d \in CellStates :
                  /\ capture'[q].cell = {d} /\ d.ref = capture[q].counter + 1
                  /\ d.created_object_refs = {} /\ d.mutated_object_refs = {}
          \/ /\ capture[q].session = {s} /\ q = p /\ LogLine(p) /\ todo[p][1].line \in Lines
             /\ \E d \in CellStates :
                  /\ capture[q].cell = {d}
                  /\ capture'[q].cell = {NotedCell(d, todo[p][1].line)}
      <4>1. CASE LogLine(p) /\ q = p
        <5>1. PICK t \in SessionRefs, d \in CellStates, held \in Captures :
                /\ todo[p] # << >> /\ Head(todo[p]) = todo[p][1]
                /\ todo[p][1].write = "log_line" /\ todo[p][1].line \in Lines
                /\ capture[p].session = {t} /\ capture[p].cell = {d} /\ Current(p) = d
                /\ capture[p] \in Captures
                /\ held.session = {t} /\ held.counter = capture[p].counter
                /\ held.cell = {NotedCell(d, todo[p][1].line)}
                /\ capture' = [capture EXCEPT ![p] = held] /\ capture'[p] = held
                /\ \A r \in Shells \ {p} : capture'[r] = capture[r]
                /\ files' = [files EXCEPT !.namespace_jsonl[t] =
                               Append(files.namespace_jsonl[t], todo[p][1].line)]
          BY <4>1, LogLineEffect, Zenon
        <5>2. t = s
          BY <2>2, <4>1, <5>1
        <5> QED
          BY <4>1, <5>1, <5>2
      <4>2. CASE ~(LogLine(p) /\ q = p)
        <5>1. \/ /\ q = p /\ Start(p) /\ files.session_json[s] = {}
                 /\ capture'[q].cell = {} /\ capture'[q].counter = 0
              \/ /\ capture[q].session = {s} /\ capture[q] \in Captures
                 /\ \/ /\ capture'[q].cell \subseteq capture[q].cell
                       /\ capture'[q].counter = capture[q].counter
                    \/ /\ q = p /\ RunCell(p) /\ failures' # 0
                       /\ capture'[q].cell = capture[q].cell
                       /\ capture'[q].counter = capture[q].counter + 1
                    \/ /\ q = p /\ RunCell(p) /\ capture'[q].counter = capture[q].counter + 1
                       /\ \E d \in CellStates :
                            /\ capture'[q].cell = {d} /\ d.ref = capture[q].counter + 1
                            /\ d.created_object_refs = {} /\ d.mutated_object_refs = {}
                    \/ /\ q = p /\ LogLine(p) /\ todo[p][1].line \in Lines
                       /\ capture'[q].counter = capture[q].counter
                       /\ \E d \in CellStates :
                            /\ capture[q].cell = {d}
                            /\ capture'[q].cell = {NotedCell(d, todo[p][1].line)}
          BY <1>1, <2>2, CellChanges, Zenon
        <5> QED
          BY <2>2, <4>2, <5>1
      <4> QED
        BY <4>1, <4>2
    <3> QED
      BY <2>2, <3>1, <3>2, <3>3, <3>4
  <2>3. ASSUME NEW q \in Shells, capture'[q].session = {s}, NEW c \in capture'[q].cell,
               failures' = 0, NEW cell \in CellsOf(s)', cell.cell_ref = c.ref
        PROVE  todo'[q] # << >> /\ NoLineDue(todo'[q])
    <3>1. failures = 0 /\ ~Fail(p)
      BY <1>1, <2>3, FailuresCounted
    <3>2. \/ /\ capture[q].session = {s} /\ capture'[q].cell \subseteq capture[q].cell
          \/ /\ q = p /\ RunCell(p) /\ capture[q].session = {s} /\ capture[q] \in Captures
             /\ c.ref = capture[q].counter + 1
          \/ /\ q = p /\ LogLine(p) /\ capture[q].session = {s}
             /\ \E d \in capture[q].cell : d.ref = c.ref
      <4>1. CASE LogLine(p) /\ q = p
        <5>1. PICK d \in CellStates :
                /\ capture[p].cell = {d} /\ todo[p][1].line \in Lines
                /\ capture'[p].cell = {NotedCell(d, todo[p][1].line)}
          <6>1. ~Start(p) /\ ~RunCell(p)
            BY <4>1 DEF Start, RunCell, Hooked, LogLine, Due
          <6>2. PICK d \in CellStates : capture[p].cell = {d} /\ todo[p][1].line \in Lines
            BY <4>1, LogLineEffect
          <6>3. capture'[p].cell = {NotedCell(d, todo[p][1].line)}
            <7>1. PICK t \in SessionRefs, x \in CellStates, held \in Captures :
                    /\ todo[p] # << >> /\ Head(todo[p]) = todo[p][1]
                    /\ todo[p][1].write = "log_line" /\ todo[p][1].line \in Lines
                    /\ capture[p].session = {t} /\ capture[p].cell = {x} /\ Current(p) = x
                    /\ capture[p] \in Captures
                    /\ held.session = {t} /\ held.counter = capture[p].counter
                    /\ held.cell = {NotedCell(x, todo[p][1].line)}
                    /\ capture' = [capture EXCEPT ![p] = held] /\ capture'[p] = held
                    /\ \A r \in Shells \ {p} : capture'[r] = capture[r]
                    /\ files' = [files EXCEPT !.namespace_jsonl[t] =
                                   Append(files.namespace_jsonl[t], todo[p][1].line)]
              BY <4>1, LogLineEffect, Zenon
            <7> QED
              BY <6>2, <7>1
          <6> QED
            BY <6>2, <6>3
        <5>2. c.ref = d.ref
          BY <2>3, <4>1, <5>1, NotedCellTyped
        <5>3. capture[q].session = {s}
          BY <2>3, <4>1, WriteEffect DEF Write
        <5> QED
          BY <4>1, <5>1, <5>2, <5>3
      <4>2. CASE ~(LogLine(p) /\ q = p)
        <5>1. \/ /\ q = p /\ Start(p) /\ files.session_json[s] = {}
                 /\ capture'[q].cell = {} /\ capture'[q].counter = 0
              \/ /\ capture[q].session = {s} /\ capture[q] \in Captures
                 /\ \/ /\ capture'[q].cell \subseteq capture[q].cell
                       /\ capture'[q].counter = capture[q].counter
                    \/ /\ q = p /\ RunCell(p) /\ failures' # 0
                       /\ capture'[q].cell = capture[q].cell
                       /\ capture'[q].counter = capture[q].counter + 1
                    \/ /\ q = p /\ RunCell(p) /\ capture'[q].counter = capture[q].counter + 1
                       /\ \E d \in CellStates :
                            /\ capture'[q].cell = {d} /\ d.ref = capture[q].counter + 1
                            /\ d.created_object_refs = {} /\ d.mutated_object_refs = {}
                    \/ /\ q = p /\ LogLine(p) /\ todo[p][1].line \in Lines
                       /\ capture'[q].counter = capture[q].counter
                       /\ \E d \in CellStates :
                            /\ capture[q].cell = {d}
                            /\ capture'[q].cell = {NotedCell(d, todo[p][1].line)}
          BY <1>1, <2>3, CellChanges, Zenon
        <5> QED
          BY <2>3, <4>2, <5>1
      <4> QED
        BY <4>1, <4>2
    <3>3. CASE q = p /\ RunCell(p) /\ capture[q].session = {s} /\ capture[q] \in Captures
               /\ c.ref = capture[q].counter + 1
      <4>1. ~LogCell(p)
        BY <3>3 DEF RunCell, Hooked, LogCell, Due
      <4>2. cell \in CellsOf(s)
        BY <1>1, <2>3, <4>1, NewLines
      <4>3. cell.cell_ref <= capture[q].counter
        BY <3>3, <4>2 DEF CountInv, Owns
      <4>4. capture[q].counter \in Nat
        BY <3>3 DEF Captures
      <4> QED
        BY <2>3, <3>3, <4>3, <4>4
    <3>4. ASSUME capture[q].session = {s}, NEW d \in capture[q].cell, d.ref = c.ref,
                 cell \in CellsOf(s)
          PROVE  todo[q] # << >> /\ NoLineDue(todo[q])
      BY <2>3, <3>1, <3>4 DEF CommitInv, Owns
    <3>5. CASE q = p /\ LogLine(p) /\ capture[q].session = {s}
               /\ \E d \in capture[q].cell : d.ref = c.ref
      <4>1. todo[p][1].write = "log_line" /\ 1 \in 1 .. Len(todo[p])
        <5>1. Head(todo[p]).write = "log_line"
          BY <3>5 DEF LogLine, Due
        <5> QED
          BY <3>5, <5>1, WriteEffect DEF Write
      <4>2. ~LogCell(p)
        BY <3>5 DEF LogLine, LogCell, Due
      <4>3. cell \in CellsOf(s)
        BY <1>1, <2>3, <4>2, NewLines
      <4>4. NoLineDue(todo[p])
        BY <3>4, <3>5, <4>3
      <4> QED
        BY <4>1, <4>4 DEF NoLineDue
    <3>6. ASSUME capture[q].session = {s}, capture'[q].cell \subseteq capture[q].cell
          PROVE  todo'[q] # << >> /\ NoLineDue(todo'[q])
      <4>1. c \in capture[q].cell
        BY <2>3, <3>6
      <4>2. CASE q # p
        <5>1. todo'[q] = todo[q]
          BY <1>1, <4>2, StepKinds, StartEffect, CloseEffect, PostRunCellEffect, IdleEffect,
             WriteEffect, CutEffect
        <5>2. ~(LogCell(p) /\ Owns(p, s))
          BY <3>6, <4>2 DEF SessionInv, Disjoint, Owns
        <5>3. cell \in CellsOf(s)
          BY <1>1, <2>3, <5>2, NewLines
        <5> QED
          BY <3>4, <3>6, <4>1, <5>1, <5>3
      <4>3. CASE q = p /\ LogCell(p)
        <5>1. /\ todo[p][1].write = "log_cell" /\ todo[p] # << >>
              /\ Len(todo[p]) \in Nat /\ Len(todo[p]) > 0 /\ Len(todo'[p]) = Len(todo[p]) - 1
              /\ \A i \in 1 .. Len(todo'[p]) :
                   i + 1 \in 1 .. Len(todo[p]) /\ todo'[p][i] = todo[p][i + 1]
          <6>1. Head(todo[p]).write = "log_cell"
            BY <4>3 DEF LogCell, Due
          <6> QED
            BY <4>3, <6>1, WriteEffect DEF Write
        <5>2. todo[p][Len(todo[p])].write = "insert_event"
          BY <3>6, <4>3, <5>1 DEF CountInv, Owns, Orderly
        <5>3. Len(todo[p]) # 1
          BY <5>1, <5>2
        <5>4. todo'[p] # << >>
          <6>1. Len(todo'[p]) # 0
            BY <5>1, <5>3
          <6> QED
            BY <6>1
        <5>5. \A i \in 1 .. Len(todo[p]) : todo[p][i].write = "log_line" => i < 1
          <6>1. 1 \in 1 .. Len(todo[p])
            BY <5>1
          <6> QED
            BY <5>1, <6>1 DEF ArrangedInv, Arranged
        <5>6. NoLineDue(todo'[p])
          BY <5>1, <5>5 DEF NoLineDue
        <5> QED
          BY <4>3, <5>4, <5>6
      <4>4. CASE q = p /\ ~LogCell(p)
        <5>1. cell \in CellsOf(s)
          BY <1>1, <2>3, <4>4, NewLines
        <5>2. todo[p] # << >> /\ NoLineDue(todo[p])
          BY <3>4, <3>6, <4>1, <4>4, <5>1
        <5>3. NoCapture.session = {}
          BY DEF NoCapture
        <5>4. capture'[p] # NoCapture
          BY <2>3, <4>4, <5>3, Zenon
        <5>5. ~Start(p) /\ ~Close(p) /\ ~PostRunCell(p) /\ ~Idle(p)
          BY <5>2 DEF Start, Close, PostRunCell, Idle, RunCell, Bind, Unbind, Mutate, Hooked
        <5>6. ~Cut(p)
          <6>1. ASSUME Exit(p) \/ Crash(p) PROVE capture'[p] = NoCapture
            BY <6>1 DEF Exit, Crash, Gone, TypeInv, Typed
          <6> QED
            BY <3>1, <5>4, <6>1 DEF Cut
        <5>7. Write(p)
          BY <1>1, <5>5, <5>6, StepKinds
        <5>8. /\ todo[p][1] \in Writes /\ Head(todo[p]) = todo[p][1]
              /\ Len(todo[p]) \in Nat /\ Len(todo[p]) > 0 /\ Len(todo'[p]) = Len(todo[p]) - 1
              /\ \A i \in 1 .. Len(todo'[p]) :
                   i + 1 \in 1 .. Len(todo[p]) /\ todo'[p][i] = todo[p][i + 1]
          BY <5>7, WriteEffect
        <5>9. Len(todo[p]) # 1
          <6>1. ASSUME Len(todo[p]) = 1 PROVE FALSE
            <7>1. todo[p][Len(todo[p])].write = "insert_event"
              BY <3>6, <4>4, <5>2 DEF CountInv, Owns, Orderly
            <7>2. Head(todo[p]).write = "insert_event"
              BY <5>8, <6>1, <7>1
            <7>3. InsertEvent(p)
              BY <5>7, <7>2 DEF Write, WriteSessionJson, InsertRow, LogEvent, LogLine, LogCell,
                                InsertCell, Due
            <7>4. capture' = [capture EXCEPT ![p].cell = {}]
              BY <6>1, <7>3 DEF InsertEvent
            <7>5. capture[p] \in Captures
              BY <3>6, <4>4, CaptureFacts DEF TypeInv
            <7>6. capture'[p].cell = {}
              BY <7>4, <7>5 DEF TypeInv, Typed, Captures
            <7> QED
              BY <2>3, <4>4, <7>6
          <6> QED
            BY <6>1
        <5>10. todo'[p] # << >>
          <6>1. Len(todo'[p]) # 0
            BY <5>8, <5>9
          <6> QED
            BY <6>1
        <5>11. NoLineDue(todo'[p])
          BY <5>2, <5>8 DEF NoLineDue
        <5> QED
          BY <4>4, <5>10, <5>11
      <4> QED
        BY <4>2, <4>3, <4>4
    <3> QED
      BY <3>2, <3>3, <3>5, <3>6
  <2> QED
    BY <2>1, <2>2, <2>3
<1>2. CASE \E p \in Shells : Step(p)
  BY <1>1, <1>2 DEF CommitInv, Owns
<1>3. CASE UNCHANGED others
  BY <1>3 DEF others, CommitInv, Owns, LinesOf, CellsOf, Complete, RefsIn
<1> QED
  BY <1>2, <1>3, NextSteps

(* The initial state: no session is owned, and the logs are empty.              *)
LEMMA CommitInit == Init => CountInv /\ CommitInv
<1> SUFFICES ASSUME Init PROVE CountInv /\ CommitInv
  OBVIOUS
<1>1. \A p \in Shells, s \in SessionRefs : ~Owns(p, s)
  BY DEF Init, NoCapture, Owns
<1>2. \A s \in SessionRefs : LinesOf(s) = {} /\ CellsOf(s) = {}
  BY DEF Init, LinesOf, CellsOf, Range
<1> QED
  BY <1>1, <1>2 DEF CountInv, CommitInv

(* CommittedCellsComplete is what the invariant says of the logged cells.       *)
LEMMA CommitImplies == CommitInv => CommittedCellsComplete
BY DEF CommitInv, CommittedCellsComplete, Complete

(* A line of cells.jsonl is the commit of its cell: what it lists as created or *)
(* mutated is logged, and it is all that is logged for the cell unless a hook   *)
(* failed, whatever other shells write and wherever one is killed.              *)
THEOREM CommitsComplete == Spec => []CommittedCellsComplete
<1>1. Init => TypeInv /\ IndexInv /\ CountInv /\ CommitInv
  BY TypeInit, IndexInit, CommitInit
<1>2. TypeInv /\ IndexInv /\ CountInv /\ CommitInv /\ [Next]_vars
        => (TypeInv /\ IndexInv /\ CountInv /\ CommitInv)'
  BY TypeInductive, IndexInductive, CountInductive, CommitInductive DEF IndexInv
<1> QED
  BY <1>1, <1>2, CommitImplies, PTL DEF Spec

-----------------------------------------------------------------------------
(* What a rebuild finds.  Of the rows of a key in logs of finitely many         *)
(* sessions, one stays: none comes after the last.                              *)
LEMMA InsertedCovers ==
    ASSUME NEW T, NEW log \in [SessionRefs -> Seq(T)], NEW S \in SUBSET SessionRefs,
           NEW rows, DOMAIN rows = Places(log, S), NEW at \in DOMAIN rows, NEW row \in rows[at]
    PROVE  row.ref \in RefsOf(inserted(rows))
<1> DEFINE Q == { a \in DOMAIN rows : \E r \in rows[a] : r.ref = row.ref }
           bound == [s \in S |-> Len(log[s])]
<1>1. ASSUME NEW a \in DOMAIN rows PROVE a[1] \in S /\ a[2] \in 1 .. Len(log[a[1]]) /\ a[2] \in Nat
  <2>1. PICK s \in S : a \in {s} \X DOMAIN log[s]
    BY DEF Places
  <2>2. log[s] \in Seq(T) /\ DOMAIN log[s] = 1 .. Len(log[s])
    OBVIOUS
  <2> QED
    BY <2>1, <2>2
<1>2. bound \in [S -> Nat]
  OBVIOUS
<1>3. \A a \in Q : a[1] \in S /\ a[2] \in 1 .. bound[a[1]]
  BY <1>1
<1>4. Q # {} /\ S \in SUBSET Nat
  OBVIOUS
<1>5. IsFiniteSet(S)
  BY FiniteSubset
<1> HIDE DEF Q, bound
<1>6. PICK a \in Q : \A b \in Q : b[1] < a[1] \/ (b[1] = a[1] /\ b[2] <= a[2])
  BY <1>2, <1>3, <1>4, <1>5, LastPair
<1>7. PICK r \in rows[a] : a \in DOMAIN rows /\ r.ref = row.ref
  BY DEF Q
<1>8. ASSUME NEW later \in DOMAIN rows, Before(a, later), NEW other \in rows[later]
      PROVE  other.ref # r.ref
  <2> SUFFICES ASSUME other.ref = r.ref PROVE FALSE
    OBVIOUS
  <2>1. later \in Q
    BY <1>7 DEF Q
  <2>2. later[1] < a[1] \/ (later[1] = a[1] /\ later[2] <= a[2])
    BY <1>6, <2>1
  <2>3. later[1] \in Nat /\ later[2] \in Nat /\ a[1] \in Nat /\ a[2] \in Nat
    BY <1>1, <1>4, <1>7
  <2> QED
    BY <1>8, <2>2, <2>3 DEF Before
<1>9. r \in inserted(rows)
  BY <1>7, <1>8 DEF inserted
<1> QED
  BY <1>7, <1>9 DEF RefsOf

CellsKeyed == \A row \in index.cells : row.ref = row.payload.cell_ref

(* A row of a cell is keyed by the number of the cell.                          *)
LEMMA CellsKeyedInductive == TypeInv /\ CellsKeyed /\ [Next]_vars => CellsKeyed'
<1> SUFFICES ASSUME TypeInv, CellsKeyed, [Next]_vars PROVE CellsKeyed'
  OBVIOUS
<1>1. ASSUME NEW p \in Shells, Step(p), NEW row \in index'.cells
      PROVE  row.ref = row.payload.cell_ref
  <2>1. row \in index.cells \/ (row.payload = CellRecord(p) /\ row.ref = CellRecord(p).cell_ref)
    BY <1>1, NewCellRows
  <2> QED
    BY <2>1 DEF CellsKeyed
<1>2. CASE UNCHANGED others
  BY <1>2 DEF others, CellsKeyed
<1> QED
  BY <1>1, <1>2, NextSteps DEF CellsKeyed

(* A session with something in its log has a document, so the rebuild reads it. *)
LEMMA LoggedStarted ==
    ASSUME TypeInv, CountInv, NEW s \in SessionRefs, LinesOf(s) # {} \/ CellsOf(s) # {}
    PROVE  s \in Started
BY DEF CountInv, Started

(* The place of a line that is in a log.                                        *)
LEMMA PlaceOf ==
    ASSUME NEW T, NEW log \in [SessionRefs -> Seq(T)], NEW S \in SUBSET SessionRefs,
           NEW s \in S, NEW x \in Range(log[s])
    PROVE  \E at \in Places(log, S) : at[1] = s /\ log[at[1]][at[2]] = x
<1>1. PICK i \in DOMAIN log[s] : log[s][i] = x
  BY DEF Range
<1>2. << s, i >> \in {s} \X DOMAIN log[s]
  OBVIOUS
<1>3. << s, i >> \in Places(log, S)
  BY <1>2 DEF Places
<1>4. << s, i >>[1] = s /\ << s, i >>[2] = i
  OBVIOUS
<1> QED
  BY <1>1, <1>3, <1>4

CoverInv == IndexInv /\ CountInv /\ CellsKeyed

(* A rebuild that can read the files covers what the invariants say of the rows. *)
LEMMA CoverImplies == TypeInv /\ CoverInv => Covered
<1> SUFFICES ASSUME TypeInv, CoverInv PROVE Covered
  OBVIOUS
<1>1. /\ files.session_json \in [SessionRefs -> {{}} \cup {{d} : d \in Docs}]
      /\ files.cells_jsonl \in [SessionRefs -> Seq(Cells)]
      /\ files.namespace_jsonl \in [SessionRefs -> Seq(Lines)]
      /\ Started \in SUBSET SessionRefs
  BY DEF TypeInv, Typed, FilesSet, Started
<1>2. /\ Rebuilt.sessions = session_rows(files, Started)
      /\ Rebuilt.cells = inserted(cell_rows(files, Started))
      /\ Rebuilt.objects = inserted(object_rows(files, Started))
      /\ Rebuilt.events = files.events_jsonl
  BY DEF Rebuilt, rebuild_sqlite_index
<1>3. ASSUME NEW row \in index.sessions PROVE row.ref \in RefsOf(Rebuilt.sessions)
  <2>1. row.ref \in SessionRefs
    BY DEF TypeInv, Typed, Indexes, SessionRows
  <2>2. PICK doc \in files.session_json[row.ref] : TRUE
    BY DEF CoverInv, IndexInv, SessionsIndexed, HasDoc
  <2>3. row.ref \in Started
    BY <2>1, <2>2 DEF Started
  <2>4. Row(row.ref, doc) \in Rebuilt.sessions
    BY <1>2, <2>3 DEF session_rows
  <2> QED
    BY <2>4 DEF RefsOf, Row
<1>4. ASSUME NEW row \in index.cells PROVE row.ref \in RefsOf(Rebuilt.cells)
  <2>1. PICK s \in SessionRefs : row.payload \in CellsOf(s)
    BY DEF CoverInv, IndexInv, CellInv
  <2>2. s \in Started
    BY <2>1, LoggedStarted DEF CoverInv
  <2>3. PICK at \in Places(files.cells_jsonl, Started) :
          files.cells_jsonl[at[1]][at[2]] = row.payload
    <3>0. PICK T : T = Cells
      OBVIOUS
    <3>1. PICK log \in [SessionRefs -> Seq(T)], S \in SUBSET SessionRefs :
            log = files.cells_jsonl /\ S = Started
      BY <1>1, <3>0
    <3>2. PICK cell \in Range(log[s]) : s \in S /\ cell = row.payload
      BY <2>1, <2>2, <3>1 DEF CellsOf
    <3>3. \E at \in Places(log, S) : at[1] = s /\ log[at[1]][at[2]] = cell
      <4>1. s \in S /\ cell \in Range(log[s])
        BY <3>2
      <4>2. \A t \in S : \A x \in Range(log[t]) :
              \E at \in Places(log, S) : at[1] = t /\ log[at[1]][at[2]] = x
        BY PlaceOf
      <4> QED
        BY <4>1, <4>2, Zenon
    <3> QED
      BY <3>1, <3>2, <3>3, Zenon
  <2> DEFINE rows == cell_rows(files, Started)
  <2>4. DOMAIN rows = Places(files.cells_jsonl, Started)
    BY DEF cell_rows
  <2>5. Row(row.payload.cell_ref, row.payload) \in rows[at]
    BY <2>3 DEF cell_rows
  <2> HIDE DEF rows
  <2>6. Row(row.payload.cell_ref, row.payload).ref \in RefsOf(inserted(rows))
    BY <1>1, <2>3, <2>4, <2>5, InsertedCovers
  <2>7. Row(row.payload.cell_ref, row.payload).ref = row.ref
    BY DEF CoverInv, CellsKeyed, Row
  <2> QED
    BY <1>2, <2>6, <2>7 DEF rows
<1>5. ASSUME NEW row \in index.objects PROVE row.ref \in RefsOf(Rebuilt.objects)
  <2>1. PICK s \in SessionRefs : \E line \in LinesOf(s) :
          RowOf(Insert("objects", row.ref, row.payload), s, line)
    BY DEF CoverInv, IndexInv, RowsBacked, LineTables, Backed
  <2>2. PICK line \in LinesOf(s) : RowOf(Insert("objects", row.ref, row.payload), s, line)
    BY <2>1
  <2>3. line.event = "object_registered" /\ row.ref = line.object_ref
    BY <2>2 DEF RowOf, Insert
  <2>4. s \in Started
    BY <2>2, LoggedStarted DEF CoverInv
  <2>5. PICK at \in Places(files.namespace_jsonl, Started) :
          files.namespace_jsonl[at[1]][at[2]] = line
    <3>1. PICK log \in [SessionRefs -> Seq(Lines)], S \in SUBSET SessionRefs :
            log = files.namespace_jsonl /\ S = Started
      BY <1>1
    <3>2. s \in S /\ line \in Range(log[s])
      BY <2>2, <2>4, <3>1 DEF LinesOf
    <3>3. \E at \in Places(log, S) : at[1] = s /\ log[at[1]][at[2]] = line
      <4>1. s \in S /\ line \in Range(log[s])
        BY <3>2
      <4>2. \A t \in S : \A x \in Range(log[t]) :
              \E at \in Places(log, S) : at[1] = t /\ log[at[1]][at[2]] = x
        BY PlaceOf
      <4> QED
        BY <4>1, <4>2, Zenon
    <3> QED
      BY <3>1, <3>3, Zenon
  <2> DEFINE rows == object_rows(files, Started)
  <2>6. DOMAIN rows = Places(files.namespace_jsonl, Started)
    BY DEF object_rows
  <2>7. Row(line.object_ref, [content |-> line.content]) \in rows[at]
    BY <2>3, <2>5 DEF object_rows, Registered
  <2> HIDE DEF rows
  <2>8. Row(line.object_ref, [content |-> line.content]).ref \in RefsOf(inserted(rows))
    BY <1>1, <2>5, <2>6, <2>7, InsertedCovers
  <2>9. Row(line.object_ref, [content |-> line.content]).ref = row.ref
    BY <2>3 DEF Row
  <2> QED
    BY <1>2, <2>8, <2>9 DEF rows
<1>6. \A table \in {"sessions", "cells", "objects"} :
        RefsOf(index[table]) \subseteq RefsOf(Rebuilt[table])
  BY <1>3, <1>4, <1>5 DEF RefsOf
<1>7. index.events \sqsubseteq Rebuilt.events
  BY <1>2, EventsLogged DEF CoverInv
<1> QED
  BY <1>6, <1>7 DEF Covered

(* Whatever was killed or failed, and whichever shells write, a rebuild of      *)
(* files that end in no half record loses no session, cell, object or event     *)
(* that the live index has.                                                     *)
THEOREM RebuildCovers == Spec => []RebuildCoversIndex
<1>1. Init => TypeInv /\ CoverInv
  <2>1. Init => CellsKeyed
    BY DEF Init, EmptyIndex, CellsKeyed
  <2> QED
    BY <2>1, TypeInit, IndexInit, CommitInit DEF CoverInv
<1>2. TypeInv /\ CoverInv /\ [Next]_vars => (TypeInv /\ CoverInv)'
  BY TypeInductive, IndexInductive, CountInductive, CellsKeyedInductive DEF CoverInv, IndexInv
<1> QED
  <2>1. TypeInv /\ CoverInv => RebuildCoversIndex
    BY CoverImplies DEF RebuildCoversIndex
  <2> QED
    BY <1>1, <1>2, <2>1, PTL DEF Spec

-----------------------------------------------------------------------------
(* What a log tells of a name: what its last line tells, or what it was bound   *)
(* to at the start.                                                             *)
LEMMA ToldAppend ==
    ASSUME NEW log \in Seq(Lines), NEW line \in Lines, NEW base, NEW name
    PROVE  Told(Append(log, line), base, name) =
             IF line.variable_name = name THEN ToldBy(line) ELSE Told(log, base, name)
<1> DEFINE more == Append(log, line)
           n == Len(log)
           I == LinesFor(log, name)
           J == LinesFor(more, name)
<1>1. /\ n \in Nat /\ DOMAIN log = 1 .. n /\ DOMAIN more = 1 .. n + 1
      /\ more[n + 1] = line /\ \A i \in 1 .. n : more[i] = log[i]
  OBVIOUS
<1> HIDE DEF n, more
<1>2. /\ I \subseteq 1 .. n /\ J \subseteq 1 .. n + 1
      /\ \A i \in 1 .. n : i \in I <=> i \in J
      /\ n + 1 \in J <=> line.variable_name = name
  BY <1>1 DEF LinesFor
<1>3. CASE line.variable_name = name
  <2>1. Max(J) = n + 1
    <3> HIDE DEF J
    <3>1. \A j \in J : j <= n + 1
      BY <1>1, <1>2
    <3>2. n + 1 \in Nat /\ J \subseteq 1 .. n + 1 /\ n + 1 \in J
      BY <1>1, <1>2, <1>3
    <3> QED
      BY <3>1, <3>2, MaxOfMany
  <2>2. Told(more, base, name) = ToldBy(more[Max(J)])
    BY <1>2, <1>3 DEF Told
  <2> QED
    BY <1>1, <1>3, <2>1, <2>2 DEF more
<1>4. CASE line.variable_name # name
  <2>1. I = J
    <3>1. \A j \in J : j \in 1 .. n
      BY <1>1, <1>2, <1>4
    <3> QED
      BY <1>2, <3>1
  <2>2. CASE I = {}
    BY <1>4, <2>1, <2>2 DEF Told, more
  <2>3. CASE I # {}
    <3>1. Max(I) \in I
      <4> HIDE DEF I, J
      <4> QED
        BY <1>1, <1>2, <2>3, MaxOfSome
    <3>2. more[Max(I)] = log[Max(I)]
      BY <1>1, <1>2, <3>1
    <3>3. /\ Told(more, base, name) = ToldBy(more[Max(J)])
          /\ Told(log, base, name) = ToldBy(log[Max(I)])
      BY <2>1, <2>3 DEF Told
    <3> QED
      BY <1>4, <2>1, <3>2, <3>3 DEF more
  <2> QED
    BY <2>2, <2>3
<1> QED
  BY <1>3, <1>4

(* The value of a name in a snapshot, if it is bound.                           *)
Held(ns, name) == IF name \in DOMAIN ns THEN {Value(ns[name])} ELSE {}

(* register_workbench_changes: the line of a bound name tells its value, and a  *)
(* name without one has the value it had.                                       *)
LEMMA BoundTells ==
    ASSUME Typed, NEW p \in Shells, NEW before \in Snapshots, NEW name \in Names,
           name \in DOMAIN snapshot_namespace(p), NEW r \in 1 .. MaxCells,
           NEW event, event = BindingEvent(before, name, snapshot_namespace(p)[name])
    PROVE  /\ event = "none" => Held(before, name) = Held(snapshot_namespace(p), name)
           /\ event # "none" =>
                LET line == Line(p, event, name, snapshot_namespace(p)[name].obj, r)
                IN  /\ line \in CellLines(r) /\ line.variable_name = name
                    /\ ToldBy(line) = Held(snapshot_namespace(p), name)
<1> DEFINE after == snapshot_namespace(p)
           obj == user_ns[p][name]
           line == Line(p, event, name, after[name].obj, r)
<1>1. after[name].obj = obj /\ after[name].content = content[p][obj]
  BY DEF snapshot_namespace
<1>2. obj \in Objs
  <2>1. PICK bound \in SUBSET Names : user_ns[p] \in [bound -> Objs]
    BY DEF Typed, Bindings
  <2> QED
    BY <2>1 DEF snapshot_namespace
<1>3. event \in {"object_registered", "alias_bound", "object_mutated", "none"}
  BY Zenon DEF BindingEvent
<1>4. event = "none" => name \in DOMAIN before /\ Value(before[name]) = Value(after[name])
  <2>1. \A x, y : Value(x) = Value(y) => Value(y) = Value(x)
    OBVIOUS
  <2> HIDE DEF after
  <2>2. event = "none" => name \in DOMAIN before /\ Value(after[name]) = Value(before[name])
    BY DEF BindingEvent, after
  <2> QED
    BY <2>1, <2>2, Zenon
<1>5. ASSUME event # "none"
      PROVE  /\ line \in CellLines(r) /\ line.variable_name = name
             /\ ToldBy(line) = Held(after, name)
  <2>1. event \in {"object_registered", "alias_bound", "object_mutated", "alias_deleted"}
        /\ event # "alias_deleted"
    BY <1>3, <1>5
  <2> HIDE DEF after, obj
  <2>2. line \in CellLines(r)
    BY <1>1, <1>2, <2>1, LineTyped
  <2>3. /\ line.event = event /\ line.variable_name = name
        /\ line.object_ref = WbRef[obj] /\ line.content = content[p][obj]
    BY <1>1 DEF Line
  <2>4. ToldBy(line) = {[object_ref |-> WbRef[obj], content |-> content[p][obj]]}
    BY <2>1, <2>3 DEF ToldBy
  <2>5. Held(after, name) = {[object_ref |-> WbRef[obj], content |-> content[p][obj]]}
    BY <1>1 DEF Held, Value, after
  <2> QED
    BY <2>2, <2>3, <2>4, <2>5
<1>6. event = "none" => Held(before, name) = Held(after, name)
  <2> HIDE DEF after
  <2> QED
    BY <1>4 DEF Held, after
<1> QED
  BY <1>5, <1>6

(* The line of a name the cell deleted tells that it is unbound.                *)
LEMMA DeletedTells ==
    ASSUME Typed, NEW p \in Shells, NEW before \in Snapshots, NEW name \in Names,
           name \in DOMAIN before \ DOMAIN user_ns[p], NEW r \in 1 .. MaxCells
    PROVE  LET line == Line(p, "alias_deleted", name, before[name].obj, r)
           IN  /\ line \in CellLines(r) /\ line.variable_name = name
               /\ ToldBy(line) = Held(snapshot_namespace(p), name)
<1>1. before[name].obj \in Objs
  BY DEF Snapshots, ValuesOf
<1> DEFINE line == Line(p, "alias_deleted", name, before[name].obj, r)
<1>2. line \in CellLines(r)
  BY <1>1, LineTyped
<1>3. line.event = "alias_deleted" /\ line.variable_name = name
  BY DEF Line
<1>4. name \notin DOMAIN snapshot_namespace(p)
  BY DEF snapshot_namespace
<1> HIDE DEF line
<1>5. line \in CellLines(r) /\ line.variable_name = name
      /\ ToldBy(line) = Held(snapshot_namespace(p), name)
  BY <1>2, <1>3, <1>4 DEF ToldBy, Held
<1> QED
  BY <1>5 DEF line

(* The lines of a cell that tell the value a name has after it.                 *)
Telling(p, r) ==
    { line \in CellLines(r) : ToldBy(line) = Held(snapshot_namespace(p), line.variable_name) }

(* Every change is told, and a name no line is of has the value it had.         *)
LEMMA ChangesTell ==
    ASSUME Typed, NEW p \in Shells, NEW c \in CellStates, capture[p].cell = {c}
    PROVE  /\ Changes(p) \in Seq(Telling(p, c.ref))
           /\ \A name \in Names :
                \/ Held(c.namespace_before, name) = Held(snapshot_namespace(p), name)
                \/ \E k \in 1 .. Len(Changes(p)) : Changes(p)[k].variable_name = name
<1> DEFINE S == Telling(p, c.ref)
           after == snapshot_namespace(p)
           before == c.namespace_before
           bound == BoundLines(p, c)
           deleted == DeletedLines(p, c)
           n == Len(NameOrder)
           event(i) == BindingEvent(before, NameOrder[i], after[NameOrder[i]])
           line(i) == Line(p, event(i), NameOrder[i], after[NameOrder[i]].obj, c.ref)
           gone(i) == Line(p, "alias_deleted", NameOrder[i], before[NameOrder[i]].obj, c.ref)
<1>0. /\ c.ref \in 1 .. MaxCells /\ before \in Snapshots
      /\ n \in Nat /\ DOMAIN NameOrder = 1 .. n /\ \A i \in 1 .. n : NameOrder[i] \in Names
      /\ \A name \in Names : \E i \in 1 .. n : NameOrder[i] = name
  <2>1. c.ref \in 1 .. MaxCells /\ before \in Snapshots
    BY DEF CellStates
  <2>2. n \in Nat /\ DOMAIN NameOrder = 1 .. n
    OBVIOUS
  <2>3. \A i \in 1 .. n : NameOrder[i] \in Names
    BY <2>2 DEF Names, Range
  <2>4. \A name \in Names : \E i \in 1 .. n : NameOrder[i] = name
    BY <2>2 DEF Names, Range
  <2> QED
    BY <2>1, <2>2, <2>3, <2>4
<1>1. /\ DOMAIN bound = 1 .. n
      /\ \A i \in 1 .. n :
           bound[i] = IF NameOrder[i] \in DOMAIN after
                      THEN (IF event(i) = "none" THEN << >> ELSE << line(i) >>) ELSE << >>
  BY <1>0 DEF BoundLines
<1>2. /\ DOMAIN deleted = 1 .. n
      /\ \A i \in 1 .. n :
           deleted[i] = IF NameOrder[i] \in DOMAIN before \ DOMAIN user_ns[p]
                        THEN << gone(i) >> ELSE << >>
  BY <1>0 DEF DeletedLines
<1>3. \A i \in 1 .. n : NameOrder[i] \in DOMAIN after =>
         /\ event(i) = "none" => Held(before, NameOrder[i]) = Held(after, NameOrder[i])
         /\ event(i) # "none" => line(i) \in S /\ line(i).variable_name = NameOrder[i]
  <2>1. ASSUME NEW i \in 1 .. n, NameOrder[i] \in DOMAIN after
        PROVE  /\ event(i) = "none" => Held(before, NameOrder[i]) = Held(after, NameOrder[i])
               /\ event(i) # "none" => line(i) \in S /\ line(i).variable_name = NameOrder[i]
    <3>0. PICK ev : ev = event(i)
      OBVIOUS
    <3>1. PICK name \in Names, bef \in Snapshots, r \in 1 .. MaxCells :
            name = NameOrder[i] /\ bef = before /\ r = c.ref /\ ev = event(i)
      BY <1>0, <3>0
    <3>2. name \in DOMAIN snapshot_namespace(p)
          /\ ev = BindingEvent(bef, name, snapshot_namespace(p)[name])
      BY <2>1, <3>1
    <3>3. /\ ev = "none" => Held(bef, name) = Held(snapshot_namespace(p), name)
          /\ ev # "none" =>
               LET l == Line(p, ev, name, snapshot_namespace(p)[name].obj, r)
               IN  /\ l \in CellLines(r) /\ l.variable_name = name
                   /\ ToldBy(l) = Held(snapshot_namespace(p), name)
      BY <3>2, BoundTells
    <3>4. line(i) = Line(p, ev, name, snapshot_namespace(p)[name].obj, r)
      BY <3>1, Zenon
    <3> HIDE DEF line, event, after, before
    <3>5. event(i) # "none" => line(i) \in S /\ line(i).variable_name = NameOrder[i]
      BY <3>1, <3>3, <3>4 DEF Telling
    <3> QED
      BY <3>1, <3>3, <3>5 DEF after
  <2> QED
    BY <2>1
<1>4. \A i \in 1 .. n : NameOrder[i] \in DOMAIN before \ DOMAIN user_ns[p] =>
         gone(i) \in S /\ gone(i).variable_name = NameOrder[i]
  <2>1. ASSUME NEW i \in 1 .. n, NameOrder[i] \in DOMAIN before \ DOMAIN user_ns[p]
        PROVE  gone(i) \in S /\ gone(i).variable_name = NameOrder[i]
    <3>1. PICK name \in Names, bef \in Snapshots, r \in 1 .. MaxCells :
            name = NameOrder[i] /\ bef = before /\ r = c.ref
      BY <1>0
    <3>2. LET l == Line(p, "alias_deleted", name, bef[name].obj, r)
          IN  /\ l \in CellLines(r) /\ l.variable_name = name
              /\ ToldBy(l) = Held(snapshot_namespace(p), name)
      BY <2>1, <3>1, DeletedTells
    <3>3. gone(i) = Line(p, "alias_deleted", name, bef[name].obj, r)
      BY <3>1, Zenon
    <3> HIDE DEF gone, before
    <3> QED
      BY <3>1, <3>2, <3>3 DEF Telling
  <2> QED
    BY <2>1
<1> HIDE DEF S, after, bound, deleted, line, gone, event, n
<1>5. \A op : << op >>[1] = op /\ Len(<< op >>) = 1 /\ (op \in S => << op >> \in Seq(S))
  OBVIOUS
<1>5a. << >> \in Seq(S)
  OBVIOUS
<1>6. ASSUME NEW i \in 1 .. n
      PROVE  /\ bound[i] \in Seq(S) /\ deleted[i] \in Seq(S)
             /\ \/ Held(before, NameOrder[i]) = Held(after, NameOrder[i])
                \/ /\ 1 \in 1 .. Len(bound[i]) /\ bound[i][1].variable_name = NameOrder[i]
                \/ /\ 1 \in 1 .. Len(deleted[i]) /\ deleted[i][1].variable_name = NameOrder[i]
  <2> HIDE DEF before
  <2>0. 1 \in 1 .. 1 /\ DOMAIN after = DOMAIN user_ns[p]
    BY DEF after, snapshot_namespace
  <2>1. CASE NameOrder[i] \in DOMAIN after
    <3>1. deleted[i] = << >>
      BY <1>2, <2>0, <2>1
    <3>2. CASE event(i) = "none"
      BY <1>1, <1>3, <1>5a, <2>1, <3>1, <3>2, Zenon
    <3>3. CASE event(i) # "none"
      <4>1. bound[i] = << line(i) >> /\ line(i) \in S /\ line(i).variable_name = NameOrder[i]
        BY <1>1, <1>3, <2>1, <3>3, Zenon
      <4> QED
        BY <1>5, <1>5a, <2>0, <3>1, <4>1, Zenon
    <3> QED
      BY <3>2, <3>3
  <2>2. CASE NameOrder[i] \notin DOMAIN after
    <3>1. bound[i] = << >>
      BY <1>1, <2>2, Zenon
    <3>2. CASE NameOrder[i] \in DOMAIN before
      <4>1. deleted[i] = << gone(i) >> /\ gone(i) \in S /\ gone(i).variable_name = NameOrder[i]
        BY <1>2, <1>4, <2>0, <2>2, <3>2, Zenon
      <4> QED
        BY <1>5, <1>5a, <2>0, <3>1, <4>1, Zenon
    <3>3. CASE NameOrder[i] \notin DOMAIN before
      <4>1. deleted[i] = << >>
        BY <1>2, <3>3, Zenon
      <4>2. Held(before, NameOrder[i]) = Held(after, NameOrder[i])
        BY <2>2, <3>3 DEF Held
      <4> QED
        BY <1>5a, <3>1, <4>1, <4>2, Zenon
    <3> QED
      BY <3>2, <3>3
  <2> QED
    BY <2>1, <2>2
<1>7. /\ bound \in Seq(Seq(S)) /\ Len(bound) = n
      /\ deleted \in Seq(Seq(S)) /\ Len(deleted) = n
  <2>1. \A i \in 1 .. n : bound[i] \in Seq(S) /\ deleted[i] \in Seq(S)
    BY <1>6
  <2>2. bound = [i \in 1 .. n |-> bound[i]] /\ deleted = [i \in 1 .. n |-> deleted[i]]
    BY <1>0, <1>1, <1>2 DEF bound, deleted, BoundLines, DeletedLines
  <2>3. bound \in [1 .. n -> Seq(S)] /\ deleted \in [1 .. n -> Seq(S)]
    BY <2>1, <2>2
  <2> QED
    BY <1>0, <2>3
<1> DEFINE B == FlattenSeq(bound)
           D == FlattenSeq(deleted)
<1>8. B \in Seq(S) /\ D \in Seq(S)
  <2>1. ClosedUnderConcat(Seq(S)) /\ << >> \in Seq(S)
    BY SeqClosed
  <2> QED
    BY <1>7, <2>1, FlattenClosed
<1>9. /\ \A i \in 1 .. n : \A j \in 1 .. Len(bound[i]) : \E k \in 1 .. Len(B) : B[k] = bound[i][j]
      /\ \A i \in 1 .. n : \A j \in 1 .. Len(deleted[i]) :
            \E k \in 1 .. Len(D) : D[k] = deleted[i][j]
  <2>1. PICK K : K = S
    OBVIOUS
  <2>2. PICK u \in Seq(Seq(K)), v \in Seq(Seq(K)) : u = bound /\ v = deleted
    BY <1>7, <2>1
  <2>2a. \A seqs \in Seq(Seq(K)) : \A i \in 1 .. Len(seqs) : \A j \in 1 .. Len(seqs[i]) :
            \E k \in 1 .. Len(FlattenSeq(seqs)) : FlattenSeq(seqs)[k] = seqs[i][j]
    BY FlattenHas, Zenon
  <2>2b. u \in Seq(Seq(K)) /\ v \in Seq(Seq(K))
    OBVIOUS
  <2>3. \A i \in 1 .. Len(u) : \A j \in 1 .. Len(u[i]) :
           \E k \in 1 .. Len(FlattenSeq(u)) : FlattenSeq(u)[k] = u[i][j]
    BY <2>2a, <2>2b, Zenon
  <2>4. \A i \in 1 .. Len(v) : \A j \in 1 .. Len(v[i]) :
           \E k \in 1 .. Len(FlattenSeq(v)) : FlattenSeq(v)[k] = v[i][j]
    BY <2>2a, <2>2b, Zenon
  <2>5. Len(u) = n /\ Len(v) = n
    BY <1>7, <2>2
  <2>6. FlattenSeq(u) = B /\ FlattenSeq(v) = D
    BY <2>2, Zenon
  <2> HIDE DEF B, D
  <2>7. ASSUME NEW i \in 1 .. n, NEW j \in 1 .. Len(bound[i])
        PROVE  \E k \in 1 .. Len(B) : B[k] = bound[i][j]
    <3>1. i \in 1 .. Len(u) /\ j \in 1 .. Len(u[i]) /\ u[i][j] = bound[i][j]
      BY <2>2, <2>5
    <3>2. PICK k \in 1 .. Len(FlattenSeq(u)) : FlattenSeq(u)[k] = u[i][j]
      BY <2>3, <3>1, Zenon
    <3>3. k \in 1 .. Len(B) /\ B[k] = bound[i][j]
      BY <2>6, <3>1, <3>2, Zenon
    <3> QED
      BY <3>3, Zenon
  <2>8. ASSUME NEW i \in 1 .. n, NEW j \in 1 .. Len(deleted[i])
        PROVE  \E k \in 1 .. Len(D) : D[k] = deleted[i][j]
    <3>1. i \in 1 .. Len(v) /\ j \in 1 .. Len(v[i]) /\ v[i][j] = deleted[i][j]
      BY <2>2, <2>5
    <3>2. PICK k \in 1 .. Len(FlattenSeq(v)) : FlattenSeq(v)[k] = v[i][j]
      BY <2>4, <3>1, Zenon
    <3>3. k \in 1 .. Len(D) /\ D[k] = deleted[i][j]
      BY <2>6, <3>1, <3>2, Zenon
    <3> QED
      BY <3>3, Zenon
  <2> QED
    BY <2>7, <2>8
<1> HIDE DEF B, D
<1>10. Changes(p) = B \o D
  <2>1. (CHOOSE x \in capture[p].cell : TRUE) = c
    OBVIOUS
  <2> QED
    BY <2>1 DEF Changes, B, D, bound, deleted
<1>11. /\ B \o D \in Seq(S) /\ Len(B \o D) = Len(B) + Len(D)
       /\ \A k \in 1 .. Len(B) : (B \o D)[k] = B[k]
       /\ \A k \in 1 .. Len(D) : (B \o D)[Len(B) + k] = D[k]
  BY <1>8, ConcatIndex
<1>12. Len(B) \in Nat /\ Len(D) \in Nat
  BY <1>8
<1>13. /\ \A k \in 1 .. Len(B) : k \in 1 .. Len(B \o D)
       /\ \A k \in 1 .. Len(D) : Len(B) + k \in 1 .. Len(B \o D)
  BY <1>11, <1>12
<1>14. ASSUME NEW name \in Names, Held(before, name) # Held(after, name)
       PROVE  \E k \in 1 .. Len(B \o D) : (B \o D)[k].variable_name = name
  <2>1. PICK i \in 1 .. n : NameOrder[i] = name
    BY <1>0
  <2>2. CASE 1 \in 1 .. Len(bound[i]) /\ bound[i][1].variable_name = name
    <3>1. PICK k \in 1 .. Len(B) : B[k] = bound[i][1]
      BY <1>9, <2>2
    <3> QED
      BY <1>11, <1>13, <2>2, <3>1
  <2>3. CASE 1 \in 1 .. Len(deleted[i]) /\ deleted[i][1].variable_name = name
    <3>1. PICK k \in 1 .. Len(D) : D[k] = deleted[i][1]
      BY <1>9, <2>3
    <3>2. (B \o D)[Len(B) + k] = D[k] /\ Len(B) + k \in 1 .. Len(B \o D)
      BY <1>11, <1>13, Zenon
    <3>3. PICK m \in 1 .. Len(B \o D) : m = Len(B) + k
      BY <3>2
    <3>4. (B \o D)[m].variable_name = name
      BY <2>3, <3>1, <3>2, <3>3, Zenon
    <3> QED
      BY <3>4, Zenon
  <2> HIDE DEF before
  <2> QED
    BY <1>6, <1>14, <2>1, <2>2, <2>3, Zenon
<1> QED
  BY <1>10, <1>11, <1>14 DEF S, after

(* The writes whose lines are of a set.                                         *)
WritesOf(Good) == { w \in Writes : w.write = "log_line" => w.line \in Good }

(* register_object_event starts with its line and logs no other.                *)
LEMMA RegisterTells ==
    ASSUME NEW s \in SessionRefs, NEW Good, NEW line \in Lines, line \in Good
    PROVE  /\ register_object_event(s, line) \in Seq(WritesOf(Good))
           /\ Len(register_object_event(s, line)) > 0
           /\ register_object_event(s, line)[1] = LineWrite(line)
<1> DEFINE first == << LineWrite(line) >>
           rows == IndexInserts(s, line)
           last == Event(s, line.event)
           W == WritesOf(Good)
<1>1. rows \in Seq(W)
  <2>1. rows \in Seq(RowsOf(s, line))
    BY RowWrites
  <2>2. RowsOf(s, line) \subseteq W
    <3>1. \A w \in RowsOf(s, line) : w \in Writes /\ w.write = "insert"
      BY DEF RowsOf, RowOf, Writes
    <3> QED
      BY <3>1 DEF WritesOf
  <2> HIDE DEF rows, W
  <2> QED
    BY <2>1, <2>2
<1>2. first \in Seq(W) /\ Len(first) = 1 /\ first[1] = LineWrite(line)
  <2>1. LineWrite(line) \in Writes /\ LineWrite(line).line = line
    BY DEF LineWrite, Writes, LineWrites
  <2>2. LineWrite(line) \in W
    BY <2>1 DEF WritesOf
  <2>3. \A op : << op >>[1] = op /\ Len(<< op >>) = 1 /\ (op \in W => << op >> \in Seq(W))
    OBVIOUS
  <2> HIDE DEF W
  <2> QED
    BY <2>2, <2>3, Zenon
<1>3. last \in Seq(W)
  <2>1. line.event \in EventTypes
    BY DEF Lines, EventTypes
  <2>2. /\ << line.event, s >> \in Events /\ last \in Seq(Writes) /\ Len(last) = 2
        /\ last[1] = EventLog(<< line.event, s >>) /\ last[2] = EventRow(<< line.event, s >>)
    BY <2>1, EventWritesTyped
  <2> HIDE DEF last
  <2>3. last[1].write # "log_line" /\ last[2].write # "log_line"
    BY <2>2 DEF EventLog, EventRow
  <2>4. last[1] \in Writes /\ last[2] \in Writes
    <3>1. 1 \in 1 .. Len(last) /\ 2 \in 1 .. Len(last)
      BY <2>2
    <3>2. \A L \in Seq(Writes) : \A i \in 1 .. Len(L) : L[i] \in Writes
      OBVIOUS
    <3> QED
      BY <2>2, <3>1, <3>2, Zenon
  <2>5. last[1] \in W /\ last[2] \in W
    BY <2>3, <2>4 DEF WritesOf
  <2> HIDE DEF W
  <2> QED
    BY <2>2, <2>5, PairTyped
<1>4. register_object_event(s, line) = (first \o rows) \o last
  BY DEF register_object_event, LineWrite
<1> HIDE DEF first, rows, last, W
<1>5. /\ first \o rows \in Seq(W) /\ Len(first \o rows) = Len(first) + Len(rows)
      /\ \A i \in 1 .. Len(first) : (first \o rows)[i] = first[i]
  BY <1>1, <1>2, ConcatIndex
<1>6. PICK a \in Seq(W) : a = first \o rows
  BY <1>5
<1>7. /\ a \o last \in Seq(W) /\ Len(a \o last) = Len(a) + Len(last)
      /\ \A i \in 1 .. Len(a) : (a \o last)[i] = a[i]
  BY <1>3, ConcatIndex
<1>8. /\ Len(a) > 0 /\ 1 \in 1 .. Len(a) /\ 1 \in 1 .. Len(first) /\ Len(a) \in Nat
      /\ Len(last) \in Nat
  BY <1>1, <1>2, <1>3, <1>5, <1>6
<1>9. (a \o last)[1] = LineWrite(line) /\ Len(a \o last) > 0
  BY <1>2, <1>5, <1>6, <1>7, <1>8
<1> QED
  BY <1>4, <1>6, <1>7, <1>9 DEF W

(* What is due of a name: its lines tell what it holds now, and if none is due  *)
(* the log does.                                                                *)
LineOf(w, name) == w.write = "log_line" /\ w.line.variable_name = name
Settles(L, name, told, now) ==
    /\ \A i \in 1 .. Len(L) : LineOf(L[i], name) => ToldBy(L[i].line) = now
    /\ (\A i \in 1 .. Len(L) : ~LineOf(L[i], name)) => told = now

(* post_run_cell settles every name that the log tells as it was before the     *)
(* cell.                                                                        *)
LEMMA PostRunSettles ==
    ASSUME Typed, NEW p \in Shells, NEW s \in SessionRefs, NEW c \in CellStates,
           capture[p].session = {s}, capture[p].cell = {c}, NEW name \in Names
    PROVE  Settles(PostRunWrites(p), name, Held(c.namespace_before, name),
                   Held(snapshot_namespace(p), name))
<1> DEFINE changes == Changes(p)
           Good == Telling(p, c.ref)
           hooks == [i \in DOMAIN changes |-> register_object_event(s, changes[i])]
           R == FlattenSeq(hooks)
           C == << [write |-> "log_cell"], [write |-> "insert_cell"] >>
           E == Event(s, "cell_executed")
           W == WritesOf(Good)
           now == Held(snapshot_namespace(p), name)
           before == Held(c.namespace_before, name)
<1>1. /\ changes \in Seq(Good)
      /\ before = now \/ \E k \in 1 .. Len(changes) : changes[k].variable_name = name
  BY ChangesTell
<1>1a. \A line \in Good : line \in Lines /\ (line.variable_name = name => ToldBy(line) = now)
  BY DEF Telling, CellLines
<1>2. PostRunWrites(p) = (R \o C) \o E
  <2>1. Ref(p) = s
    BY DEF Ref
  <2> QED
    BY <2>1 DEF PostRunWrites
<1> HIDE DEF changes, Good, now, before
<1>3. /\ hooks \in Seq(Seq(W)) /\ Len(hooks) = Len(changes)
      /\ \A k \in 1 .. Len(changes) :
            hooks[k][1] = LineWrite(changes[k]) /\ 1 \in 1 .. Len(hooks[k])
  <2>1. \A k \in 1 .. Len(changes) : changes[k] \in Good /\ changes[k] \in Lines
    BY <1>1, <1>1a
  <2>2. \A k \in 1 .. Len(changes) :
          /\ register_object_event(s, changes[k]) \in Seq(W)
          /\ Len(register_object_event(s, changes[k])) > 0
          /\ register_object_event(s, changes[k])[1] = LineWrite(changes[k])
    BY <2>1, RegisterTells
  <2>3. DOMAIN changes = 1 .. Len(changes) /\ Len(changes) \in Nat
    BY <1>1
  <2>4. \A k \in 1 .. Len(changes) : hooks[k] = register_object_event(s, changes[k])
    BY <2>3
  <2> HIDE DEF W
  <2>5. hooks \in [1 .. Len(changes) -> Seq(W)]
    BY <2>2, <2>3
  <2> HIDE DEF hooks
  <2>6. \A k \in 1 .. Len(changes) : hooks[k][1] = LineWrite(changes[k]) /\ Len(hooks[k]) > 0
    BY <2>2, <2>4
  <2>7. \A k \in 1 .. Len(changes) : Len(hooks[k]) \in Nat
    BY <2>5
  <2> QED
    BY <2>3, <2>5, <2>6, <2>7
<1> HIDE DEF hooks, W
<1>4. R \in Seq(W)
  <2>1. ClosedUnderConcat(Seq(W)) /\ << >> \in Seq(W)
    BY SeqClosed
  <2> QED
    BY <1>3, <2>1, FlattenClosed
<1>5. \A k \in 1 .. Len(changes) : \E i \in 1 .. Len(R) : R[i] = LineWrite(changes[k])
  <2>1. PICK K : K = W
    OBVIOUS
  <2>2. PICK u \in Seq(Seq(K)) : u = hooks
    BY <1>3, <2>1
  <2>4. FlattenSeq(u) = R /\ Len(u) = Len(changes)
    BY <1>3, <2>2
  <2> HIDE DEF R, C, E
  <2>2a. \A seqs \in Seq(Seq(K)) : \A i \in 1 .. Len(seqs) : \A j \in 1 .. Len(seqs[i]) :
            \E k \in 1 .. Len(FlattenSeq(seqs)) : FlattenSeq(seqs)[k] = seqs[i][j]
    BY FlattenHas, Zenon
  <2>2b. u \in Seq(Seq(K))
    OBVIOUS
  <2>3. \A i \in 1 .. Len(u) : \A j \in 1 .. Len(u[i]) :
           \E k \in 1 .. Len(FlattenSeq(u)) : FlattenSeq(u)[k] = u[i][j]
    BY <2>2a, <2>2b, Zenon
  <2>5. ASSUME NEW k \in 1 .. Len(changes)
        PROVE  \E i \in 1 .. Len(R) : R[i] = LineWrite(changes[k])
    <3>1. k \in 1 .. Len(u) /\ 1 \in 1 .. Len(u[k]) /\ u[k][1] = LineWrite(changes[k])
      BY <1>3, <2>2, <2>4
    <3>2. \E i \in 1 .. Len(FlattenSeq(u)) : FlattenSeq(u)[i] = u[k][1]
      BY <2>3, <3>1, Zenon
    <3> QED
      BY <2>4, <3>1, <3>2, Zenon
  <2> QED
    BY <2>5
<1>6. C \in Seq(W) /\ E \in Seq(W)
  <2>1. /\ C \in Seq(Writes) /\ Len(C) = 2
        /\ C[1] = [write |-> "log_cell"] /\ C[2] = [write |-> "insert_cell"]
    BY DEF Writes, CellWrites
  <2>2. /\ E \in Seq(Writes) /\ Len(E) = 2
        /\ E[1] = EventLog(<< "cell_executed", s >>) /\ E[2] = EventRow(<< "cell_executed", s >>)
    BY EventWritesTyped DEF EventTypes
  <2> HIDE DEF C, E
  <2>3. /\ C[1].write # "log_line" /\ C[2].write # "log_line"
        /\ E[1].write # "log_line" /\ E[2].write # "log_line"
    BY <2>1, <2>2 DEF EventLog, EventRow
  <2>3a. 1 \in 1 .. Len(C) /\ 2 \in 1 .. Len(C) /\ 1 \in 1 .. Len(E) /\ 2 \in 1 .. Len(E)
    BY <2>1, <2>2
  <2>3b. \A L \in Seq(Writes) : \A i \in 1 .. Len(L) : L[i] \in Writes
    OBVIOUS
  <2>4. C[1] \in Writes /\ C[2] \in Writes
    BY <2>1, <2>3a, <2>3b, Zenon
  <2>5. E[1] \in Writes /\ E[2] \in Writes
    BY <2>2, <2>3a, <2>3b, Zenon
  <2>6. C[1] \in W /\ C[2] \in W /\ E[1] \in W /\ E[2] \in W
    BY <2>3, <2>4, <2>5 DEF W, WritesOf
  <2>7. C \in Seq(W)
    BY <2>1, <2>6, PairTyped
  <2>8. E \in Seq(W)
    BY <2>2, <2>6, PairTyped
  <2> QED
    BY <2>7, <2>8
<1> HIDE DEF R, C, E
<1>7. PICK T \in Seq(W) :
        /\ T = R \o C /\ Len(T) = Len(R) + Len(C)
        /\ \A i \in 1 .. Len(R) : T[i] = R[i]
  <2>1. /\ R \o C \in Seq(W) /\ Len(R \o C) = Len(R) + Len(C)
        /\ \A i \in 1 .. Len(R) : (R \o C)[i] = R[i]
    BY <1>4, <1>6, ConcatIndex
  <2> QED
    BY <2>1
<1>8. PICK L \in Seq(W) :
        /\ L = T \o E /\ Len(L) = Len(T) + Len(E)
        /\ \A i \in 1 .. Len(T) : L[i] = T[i]
  <2>1. /\ T \o E \in Seq(W) /\ Len(T \o E) = Len(T) + Len(E)
        /\ \A i \in 1 .. Len(T) : (T \o E)[i] = T[i]
    BY <1>6, ConcatIndex
  <2> QED
    BY <2>1
<1>9. Len(R) \in Nat /\ Len(C) \in Nat /\ Len(E) \in Nat
  BY <1>4, <1>6
<1>10. \A i \in 1 .. Len(R) : i \in 1 .. Len(T) /\ i \in 1 .. Len(L) /\ L[i] = R[i]
  <2>1. \A i \in 1 .. Len(R) : i \in 1 .. Len(T) /\ i \in 1 .. Len(L)
    BY <1>7, <1>8, <1>9
  <2> QED
    BY <1>7, <1>8, <2>1
<1>11. ASSUME NEW i \in 1 .. Len(L), LineOf(L[i], name) PROVE ToldBy(L[i].line) = now
  <2>1. L[i] \in W
    OBVIOUS
  <2>2. L[i].line \in Good /\ L[i].line.variable_name = name
    BY <1>11, <2>1 DEF W, WritesOf, LineOf
  <2> QED
    BY <1>1a, <2>2
<1>12. ASSUME \A i \in 1 .. Len(L) : ~LineOf(L[i], name) PROVE before = now
  <2> SUFFICES ASSUME NEW k \in 1 .. Len(changes), changes[k].variable_name = name PROVE FALSE
    BY <1>1
  <2>1. PICK i \in 1 .. Len(R) : R[i] = LineWrite(changes[k])
    BY <1>5
  <2>2. i \in 1 .. Len(L) /\ L[i] = LineWrite(changes[k])
    BY <1>10, <2>1
  <2>3. LineOf(L[i], name)
    BY <2>2 DEF LineOf, LineWrite
  <2> QED
    BY <1>12, <2>2, <2>3
<1>13. Settles(L, name, before, now)
  BY <1>11, <1>12 DEF Settles
<1>14. PostRunWrites(p) = L
  BY <1>2, <1>7, <1>8
<1> QED
  BY <1>13, <1>14 DEF before, now

-----------------------------------------------------------------------------
(* What a step of one shell leaves alone.                                       *)
LEMMA OthersAlone ==
    ASSUME TypeInv, NEW p \in Shells, Step(p), NEW q \in Shells \ {p}
    PROVE  /\ user_ns'[q] = user_ns[q] /\ content'[q] = content[q] /\ depth'[q] = depth[q]
           /\ todo'[q] = todo[q] /\ capture'[q] = capture[q]
<1>1. todo'[q] = todo[q] /\ capture'[q] = capture[q]
  BY StepKinds, StartEffect, CloseEffect, PostRunCellEffect, IdleEffect, WriteEffect, CutEffect
<1>2. user_ns'[q] = user_ns[q] /\ content'[q] = content[q] /\ depth'[q] = depth[q]
  <2>1. /\ user_ns' = user_ns \/ \E x : user_ns' = [user_ns EXCEPT ![p] = x]
        /\ content' = content \/ \E x : content' = [content EXCEPT ![p] = x]
        /\ depth' = depth \/ \E x : depth' = [depth EXCEPT ![p] = x]
    <3>1. CASE Write(p)
      BY <3>1 DEF Write, WriteSessionJson, InsertRow, LogEvent, InsertEvent, LogLine, LogCell,
                  InsertCell
    <3>2. CASE Start(p) \/ Close(p)
      BY <3>2 DEF Start, Close
    <3>3. CASE PostRunCell(p) \/ RunCell(p)
      BY <3>3 DEF PostRunCell, RunCell
    <3>4. CASE \E name \in Names, obj \in Objs : Bind(p, name, obj)
      BY <3>4 DEF Bind
    <3>5. CASE \E name \in Names : Unbind(p, name)
      BY <3>5 DEF Unbind
    <3>6. CASE \E obj \in Objs : Mutate(p, obj)
      <4>1. PICK obj \in Objs : Mutate(p, obj)
        BY <3>6
      <4>2. content' = [content EXCEPT ![p] = [content[p] EXCEPT ![obj] = @ + 1]]
        BY <4>1 DEF Mutate
      <4> QED
        BY <4>1, <4>2 DEF Mutate
    <3>7. CASE Cut(p)
      BY <3>7 DEF Cut, Fail, Exit, Crash, Gone
    <3> QED
      BY <3>1, <3>2, <3>3, <3>4, <3>5, <3>6, <3>7 DEF Step, Write, Cut
  <2> QED
    BY <2>1 DEF TypeInv, Typed
<1> QED
  BY <1>1, <1>2

(* The namespace log of a session is appended to by its shell only.             *)
LEMMA NamespaceLog ==
    ASSUME TypeInv, NEW p \in Shells, Step(p), NEW s \in SessionRefs
    PROVE  /\ LogLine(p) /\ Owns(p, s) =>
                /\ files'.namespace_jsonl[s] = Append(files.namespace_jsonl[s], todo[p][1].line)
                /\ todo[p][1].line \in Lines
           /\ ~(LogLine(p) /\ Owns(p, s)) => files'.namespace_jsonl[s] = files.namespace_jsonl[s]
<1>1. CASE LogLine(p)
  <2>1. PICK t \in SessionRefs :
          /\ capture[p].session = {t} /\ todo[p][1].line \in Lines
          /\ files' = [files EXCEPT !.namespace_jsonl[t] =
                         Append(files.namespace_jsonl[t], todo[p][1].line)]
    BY <1>1, LogLineEffect, Zenon
  <2>2. files'.namespace_jsonl[s] = IF s = t THEN Append(files.namespace_jsonl[t], todo[p][1].line)
                                             ELSE files.namespace_jsonl[s]
    BY <2>1 DEF TypeInv, Typed, FilesSet
  <2>3. Owns(p, s) <=> s = t
    BY <2>1 DEF Owns
  <2> QED
    BY <1>1, <2>1, <2>2, <2>3
<1>2. CASE ~LogLine(p)
  <2>1. files'.namespace_jsonl = files.namespace_jsonl
    <3>1. CASE Write(p)
      BY <1>2, <3>1 DEF Write, WriteSessionJson, LogEvent, InsertRow, InsertEvent, InsertCell,
                        LogCell, TypeInv, Typed, FilesSet
    <3>2. CASE ~Write(p)
      BY <3>2, StepKinds, StartEffect, CloseEffect, PostRunCellEffect, IdleEffect, CutEffect
    <3> QED
      BY <3>1, <3>2
  <2> QED
    BY <1>2, <2>1
<1> QED
  BY <1>1, <1>2

(* A session keeps the bindings it started from.                                *)
LEMMA BaseKept ==
    ASSUME TypeInv, NEW p \in Shells, capture[p].session # {}, RunCell(p) \/ Write(p)
    PROVE  capture'[p].base = capture[p].base
<1> DEFINE k == capture[p]
<1>1. k \in Captures
  BY CaptureFacts DEF TypeInv
<1>2. \A n, cell : /\ [k EXCEPT !.counter = n].base = k.base
                   /\ [k EXCEPT !.cell = cell].base = k.base
                   /\ [[k EXCEPT !.counter = n] EXCEPT !.cell = cell].base = k.base
  BY <1>1 DEF Captures
<1>3. \/ capture' = capture
      \/ \E n : capture' = [capture EXCEPT ![p] = [k EXCEPT !.counter = n]]
      \/ \E cell : capture' = [capture EXCEPT ![p] = [k EXCEPT !.cell = cell]]
      \/ \E n, cell :
            capture' = [capture EXCEPT ![p] = [[k EXCEPT !.counter = n] EXCEPT !.cell = cell]]
  <2>1. CASE RunCell(p)
    <3> DEFINE n == capture[p].counter + 1
               cell == {NewCell(p)}
    <3>1. \/ capture' = [capture EXCEPT ![p] = [[k EXCEPT !.counter = n] EXCEPT !.cell = cell]]
          \/ capture' = [capture EXCEPT ![p] = [k EXCEPT !.counter = n]]
      BY <2>1 DEF RunCell
    <3> HIDE DEF n, cell
    <3> QED
      BY <3>1
  <2>2. CASE LogLine(p)
    BY <2>2 DEF LogLine
  <2>3. CASE InsertEvent(p)
    BY <2>3 DEF InsertEvent
  <2>4. CASE Write(p) /\ ~LogLine(p) /\ ~InsertEvent(p)
    BY <2>4 DEF Write, WriteSessionJson, InsertRow, LogEvent, LogCell, InsertCell
  <2> QED
    BY <2>1, <2>2, <2>3, <2>4
<1> HIDE DEF k
<1>4. \/ capture'[p] = k
      \/ \E n : capture'[p] = [k EXCEPT !.counter = n]
      \/ \E cell : capture'[p] = [k EXCEPT !.cell = cell]
      \/ \E n, cell : capture'[p] = [[k EXCEPT !.counter = n] EXCEPT !.cell = cell]
  <2>1. \A x : [capture EXCEPT ![p] = x][p] = x
    BY DEF TypeInv, Typed
  <2>2. CASE capture' = capture
    BY <2>2 DEF k
  <2>3. CASE \E n : capture' = [capture EXCEPT ![p] = [k EXCEPT !.counter = n]]
    <3>1. PICK n : capture' = [capture EXCEPT ![p] = [k EXCEPT !.counter = n]]
      BY <2>3
    <3>2. capture'[p] = [k EXCEPT !.counter = n]
      BY <2>1, <3>1, Zenon
    <3> QED
      BY <3>2, Zenon
  <2>4. CASE \E cell : capture' = [capture EXCEPT ![p] = [k EXCEPT !.cell = cell]]
    <3>1. PICK cell : capture' = [capture EXCEPT ![p] = [k EXCEPT !.cell = cell]]
      BY <2>4
    <3>2. capture'[p] = [k EXCEPT !.cell = cell]
      BY <2>1, <3>1, Zenon
    <3> QED
      BY <3>2, Zenon
  <2>5. CASE \E n, cell :
               capture' = [capture EXCEPT ![p] = [[k EXCEPT !.counter = n] EXCEPT !.cell = cell]]
    <3>1. PICK n, cell :
            capture' = [capture EXCEPT ![p] = [[k EXCEPT !.counter = n] EXCEPT !.cell = cell]]
      BY <2>5
    <3>2. capture'[p] = [[k EXCEPT !.counter = n] EXCEPT !.cell = cell]
      BY <2>1, <3>1, Zenon
    <3> QED
      BY <3>2, Zenon
  <2> QED
    BY <1>3, <2>2, <2>3, <2>4, <2>5, Zenon
<1>5. capture'[p].base = k.base
  <2>1. CASE \E n : capture'[p] = [k EXCEPT !.counter = n]
    BY <1>2, <2>1
  <2>2. CASE \E cell : capture'[p] = [k EXCEPT !.cell = cell]
    BY <1>2, <2>2
  <2>3. CASE \E n, cell : capture'[p] = [[k EXCEPT !.counter = n] EXCEPT !.cell = cell]
    BY <1>2, <2>3
  <2> QED
    BY <1>4, <2>1, <2>2, <2>3
<1> QED
  BY <1>5 DEF k

-----------------------------------------------------------------------------
(* The log and what is due of it tell the namespace: after the cell, what it    *)
(* holds; in a cell, what it held when the cell was opened.                     *)
Logged(p, s, name) == Told(files.namespace_jsonl[s], capture[p].base, name)
InCell(p, s) ==
    /\ todo[p] = << >>
    /\ \E c \in CellStates :
         /\ capture[p].cell = {c}
         /\ \A name \in Names : Logged(p, s, name) = Held(c.namespace_before, name)
AfterCell(p, s) ==
    \A name \in Names :
        Settles(todo[p], name, Logged(p, s, name), Held(snapshot_namespace(p), name))
ReplayInv ==
    failures = 0 => \A p \in Shells, s \in SessionRefs : Owns(p, s) =>
        (depth[p] = 0 => AfterCell(p, s)) /\ (depth[p] # 0 => InCell(p, s))

(* Settled names stay so without a write that is no line of theirs.             *)
LEMMA SettlesTail ==
    ASSUME NEW L \in Seq(Writes), L # << >>, NEW name, NEW told, NEW now,
           Settles(L, name, told, now), NEW then,
           then = IF LineOf(L[1], name) THEN ToldBy(L[1].line) ELSE told
    PROVE  Settles(Tail(L), name, then, now)
<1> DEFINE T == Tail(L)
<1>1. /\ Len(L) \in Nat /\ Len(L) > 0 /\ Len(T) = Len(L) - 1
      /\ \A i \in 1 .. Len(T) : T[i] = L[i + 1] /\ i + 1 \in 1 .. Len(L)
      /\ \A i \in 1 .. Len(L) : i = 1 \/ (i - 1 \in 1 .. Len(T) /\ T[i - 1] = L[i])
  <2>1. Len(L) \in Nat /\ Len(L) > 0 /\ Len(T) = Len(L) - 1
    BY EmptyByLength
  <2>2. \A i \in 1 .. Len(T) : T[i] = L[i + 1]
    OBVIOUS
  <2> HIDE DEF T
  <2>3. ASSUME NEW i \in 1 .. Len(L), i # 1 PROVE i - 1 \in 1 .. Len(T) /\ T[i - 1] = L[i]
    <3>1. i - 1 \in 1 .. Len(T) /\ (i - 1) + 1 = i
      BY <2>1, <2>3
    <3> QED
      BY <2>2, <3>1
  <2>4. \A i \in 1 .. Len(T) : i + 1 \in 1 .. Len(L)
    BY <2>1
  <2> QED
    BY <2>1, <2>2, <2>3, <2>4
<1> HIDE DEF T
<1>2. \A i \in 1 .. Len(T) : LineOf(T[i], name) => ToldBy(T[i].line) = now
  BY <1>1 DEF Settles
<1>3. ASSUME \A i \in 1 .. Len(T) : ~LineOf(T[i], name) PROVE then = now
  <2>1. 1 \in 1 .. Len(L)
    BY <1>1
  <2>2. CASE LineOf(L[1], name)
    BY <2>1, <2>2 DEF Settles
  <2>3. CASE ~LineOf(L[1], name)
    <3>1. \A i \in 1 .. Len(L) : ~LineOf(L[i], name)
      BY <1>1, <1>3, <2>3
    <3> QED
      BY <2>3, <3>1 DEF Settles
  <2> QED
    BY <2>2, <2>3
<1> QED
  BY <1>2, <1>3 DEF Settles, T

ReplayOf(p, s) == (depth[p] = 0 => AfterCell(p, s)) /\ (depth[p] # 0 => InCell(p, s))

(* A session that starts logs nothing yet, and tells what it started from.      *)
LEMMA StartReplays ==
    ASSUME TypeInv, CountInv, NEW p \in Shells, Start(p), NEW s \in SessionRefs, Owns(p, s)'
    PROVE  ReplayOf(p, s)'
<1> DEFINE ns == snapshot_namespace(p)
<1>1. PICK t \in SessionRefs :
        /\ t \notin Started /\ t \notin Starting
        /\ capture' = [capture EXCEPT ![p] = Capture(t, 0, {}, Values(ns))]
        /\ depth[p] = 0 /\ UNCHANGED << user_ns, content, depth, files >>
  BY DEF Start, disk
<1>2. capture'[p] = Capture(t, 0, {}, Values(ns))
  BY <1>1 DEF TypeInv, Typed
<1>3. t = s /\ capture'[p].base = Values(ns)
  BY <1>2 DEF Capture, Owns
<1>4. LinesOf(s) = {}
  BY <1>1, <1>3 DEF Started, CountInv
<1>5. DOMAIN files.namespace_jsonl[s] = {}
  BY <1>4 DEF LinesOf, Range
<1>6. ASSUME NEW name \in Names
      PROVE  Told(files.namespace_jsonl[s], Values(ns), name) = Held(ns, name)
  <2> HIDE DEF ns
  <2>1. LinesFor(files.namespace_jsonl[s], name) = {}
    BY <1>5 DEF LinesFor
  <2> QED
    BY <2>1 DEF Told, Held, Values
<1>7. ASSUME NEW i \in 1 .. Len(todo'[p]) PROVE todo'[p][i].write # "log_line"
  <2>1. PICK u \in SessionRefs : StartHook(todo'[p], u)
    BY StartEffect
  <2>2. i = 1 \/ i = 2 \/ i = 3 \/ i = 4
    BY <2>1 DEF StartHook
  <2> QED
    BY <2>1, <2>2 DEF StartHook, SessionDoc, Insert, EventLog, EventRow
<1>8. ASSUME NEW name \in Names
      PROVE  Settles(todo'[p], name, Logged(p, s, name)', Held(snapshot_namespace(p)', name))
  <2>1. snapshot_namespace(p)' = ns
    BY <1>1 DEF snapshot_namespace
  <2>2. Logged(p, s, name)' = Told(files.namespace_jsonl[s], Values(ns), name)
    BY <1>1, <1>3 DEF Logged
  <2> HIDE DEF ns
  <2>3. Logged(p, s, name)' = Held(snapshot_namespace(p)', name)
    BY <1>6, <2>1, <2>2
  <2> QED
    BY <1>7, <2>3 DEF Settles, LineOf
<1>9. AfterCell(p, s)'
  BY <1>8 DEF AfterCell, Held, Value
<1>10. depth'[p] = 0
  BY <1>1
<1> QED
  BY <1>9, <1>10 DEF ReplayOf

(* pre_run_cell opens the cell on what the log tells.                           *)
LEMMA RunCellReplays ==
    ASSUME MaxDepth <= 1, TypeInv, NEW p \in Shells, RunCell(p), failures' = 0,
           NEW s \in SessionRefs, Owns(p, s), ReplayOf(p, s)
    PROVE  ReplayOf(p, s)'
<1> DEFINE c == NewCell(p)
<1>1. /\ depth[p] = 0 /\ depth'[p] = 1 /\ todo[p] = << >> /\ todo' = todo /\ files' = files
      /\ capture[p].session # {} /\ CellsRun < MaxCells
  <2>1. depth[p] \in 0 .. MaxDepth /\ depth[p] < MaxDepth /\ MaxDepth \in Nat
    BY DEF RunCell, TypeInv, Typed
  <2>2. depth[p] = 0
    BY <2>1
  <2>3. depth'[p] = depth[p] + 1
    BY DEF RunCell, TypeInv, Typed
  <2> QED
    BY <2>2, <2>3 DEF RunCell, Hooked, disk
<1>2. c \in CellStates /\ c.namespace_before = snapshot_namespace(p)
  <2>1. capture[p] \in Captures
    BY <1>1, CaptureFacts DEF TypeInv
  <2>2. capture[p].counter + 1 <= MaxCells
    BY <1>1, CellsBound DEF TypeInv
  <2>3. capture[p].counter + 1 \in 1 .. MaxCells
    BY <2>1, <2>2 DEF Captures
  <2>4. snapshot_namespace(p) \in Snapshots
    BY SnapshotTyped DEF TypeInv
  <2> QED
    BY <2>3, <2>4 DEF NewCell, CellStates
<1> HIDE DEF c
<1>3. capture'[p].cell = {c}
  <2>1. failures + 1 # 0
    BY DEF TypeInv, Typed
  <2>2. capture' = [capture EXCEPT ![p].counter = @ + 1, ![p].cell = {c}]
    BY <2>1 DEF RunCell, c
  <2>3. capture[p] \in Captures
    BY <1>1, CaptureFacts DEF TypeInv
  <2>4. capture' = [capture EXCEPT ![p] =
                      [[capture[p] EXCEPT !.counter = capture[p].counter + 1] EXCEPT !.cell = {c}]]
    BY <2>2
  <2>5. capture'[p] = [[capture[p] EXCEPT !.counter = capture[p].counter + 1] EXCEPT !.cell = {c}]
    BY <2>4 DEF TypeInv, Typed
  <2> QED
    BY <2>3, <2>5 DEF Captures
<1>4. capture'[p].base = capture[p].base
  BY <1>1, BaseKept
<1>5. ASSUME NEW name \in Names PROVE Logged(p, s, name)' = Held(c.namespace_before, name)
  <2>1. Settles(todo[p], name, Logged(p, s, name), Held(snapshot_namespace(p), name))
    BY <1>1 DEF ReplayOf, AfterCell
  <2>2. Len(todo[p]) = 0
    BY <1>1
  <2>3. Logged(p, s, name) = Held(snapshot_namespace(p), name)
    BY <2>1, <2>2 DEF Settles
  <2>4. Logged(p, s, name)' = Logged(p, s, name)
    BY <1>1, <1>4 DEF Logged
  <2> QED
    BY <1>2, <2>3, <2>4
<1>6. InCell(p, s)'
  <2>1. todo'[p] = << >>
    BY <1>1
  <2>2. \A name \in Names : Logged(p, s, name)' = Held(c.namespace_before, name)
    BY <1>5
  <2> QED
    BY <1>2, <1>3, <2>1, <2>2 DEF InCell, Held, Value
<1>7. depth'[p] # 0
  BY <1>1
<1> QED
  BY <1>6, <1>7 DEF ReplayOf

(* The code of a cell is not logged before the cell is over.                    *)
LEMMA CodeReplays ==
    ASSUME TypeInv, NEW p \in Shells,
           \/ \E name \in Names, obj \in Objs : Bind(p, name, obj)
           \/ \E name \in Names : Unbind(p, name)
           \/ \E obj \in Objs : Mutate(p, obj),
           NEW s \in SessionRefs, ReplayOf(p, s)
    PROVE  ReplayOf(p, s)'
<1>1. depth[p] # 0 /\ UNCHANGED << depth, todo, files, capture >>
  <2>1. depth[p] > 0 /\ UNCHANGED << depth, todo, disk, capture >>
    BY DEF Bind, Unbind, Mutate
  <2>2. depth[p] \in 0 .. MaxDepth
    BY DEF TypeInv, Typed
  <2> QED
    BY <2>1, <2>2 DEF disk
<1>2. InCell(p, s)
  BY <1>1 DEF ReplayOf
<1>3. InCell(p, s)'
  BY <1>1, <1>2 DEF InCell, Logged, Held, Value
<1> QED
  BY <1>1, <1>3 DEF ReplayOf

(* post_run_cell                                                                *)
LEMMA PostRunReplays ==
    ASSUME MaxDepth <= 1, TypeInv, NEW p \in Shells, PostRunCell(p),
           NEW s \in SessionRefs, Owns(p, s), ReplayOf(p, s)
    PROVE  ReplayOf(p, s)'
<1>1. /\ depth[p] # 0 /\ depth'[p] = 0 /\ UNCHANGED << user_ns, content, capture, files >>
      /\ todo'[p] = IF capture[p].cell = {} THEN << >> ELSE PostRunWrites(p)
  <2>1. depth[p] \in 0 .. MaxDepth /\ depth[p] > 0 /\ MaxDepth \in Nat
    BY DEF PostRunCell, TypeInv, Typed
  <2>2. depth[p] = 1
    BY <2>1
  <2>3. depth'[p] = depth[p] - 1
    BY DEF PostRunCell, TypeInv, Typed
  <2>4. todo'[p] = IF capture[p].cell = {} THEN << >> ELSE PostRunWrites(p)
    BY DEF PostRunCell, TypeInv, Typed
  <2> QED
    BY <2>2, <2>3, <2>4 DEF PostRunCell, disk
<1>2. PICK c \in CellStates :
        /\ capture[p].cell = {c}
        /\ \A name \in Names : Logged(p, s, name) = Held(c.namespace_before, name)
  BY <1>1 DEF ReplayOf, InCell
<1>3. todo'[p] = PostRunWrites(p)
  BY <1>1, <1>2
<1>4. ASSUME NEW name \in Names
      PROVE  Settles(todo'[p], name, Logged(p, s, name)', Held(snapshot_namespace(p)', name))
  <2>1. Settles(PostRunWrites(p), name, Held(c.namespace_before, name),
                Held(snapshot_namespace(p), name))
    BY <1>2, PostRunSettles DEF Owns, TypeInv
  <2>2. Logged(p, s, name)' = Logged(p, s, name)
    BY <1>1 DEF Logged
  <2>3. snapshot_namespace(p)' = snapshot_namespace(p)
    BY <1>1 DEF snapshot_namespace
  <2> QED
    BY <1>2, <1>3, <2>1, <2>2, <2>3
<1>5. AfterCell(p, s)'
  BY <1>4 DEF AfterCell, Held, Value
<1> QED
  BY <1>1, <1>5 DEF ReplayOf

(* The writes of a hook: a line settles its name, the others settle none.       *)
LEMMA WriteReplays ==
    ASSUME TypeInv, NEW p \in Shells, Write(p), NEW s \in SessionRefs, Owns(p, s), ReplayOf(p, s)
    PROVE  ReplayOf(p, s)'
<1>1. /\ todo[p] # << >> /\ todo[p][1] \in Writes /\ todo[p] \in Seq(Writes)
      /\ todo'[p] = Tail(todo[p])
  BY WriteEffect, NextWrite DEF TypeInv, Typed
<1>2. UNCHANGED << user_ns, content, depth >>
  BY DEF Write, WriteSessionJson, InsertRow, LogEvent, InsertEvent, LogLine, LogCell, InsertCell
<1>3. depth[p] = 0 /\ AfterCell(p, s)
  BY <1>1 DEF ReplayOf, InCell
<1>4. capture[p].session # {}
  BY DEF Owns
<1>5. capture'[p].base = capture[p].base
  BY <1>4, BaseKept
<1>6. LogLine(p) <=> todo[p][1].write = "log_line"
  <2>1. Head(todo[p]) = todo[p][1]
    BY WriteEffect
  <2> QED
    BY <2>1 DEF Write, WriteSessionJson, InsertRow, LogEvent, InsertEvent, LogLine, LogCell,
                InsertCell, Due
<1>7. Step(p)
  BY DEF Step, Write
<1>8. ASSUME NEW name \in Names
      PROVE  Settles(todo'[p], name, Logged(p, s, name)', Held(snapshot_namespace(p)', name))
  <2> DEFINE told == Logged(p, s, name)
             w == todo[p][1]
             then == IF LineOf(w, name) THEN ToldBy(w.line) ELSE told
  <2>1. Logged(p, s, name)' = then
    <3>1. CASE LogLine(p)
      <4>1. /\ files'.namespace_jsonl[s] = Append(files.namespace_jsonl[s], w.line)
            /\ w.line \in Lines
        BY <1>7, <3>1, NamespaceLog
      <4>2. files.namespace_jsonl[s] \in Seq(Lines)
        BY DEF TypeInv, Typed, FilesSet
      <4>0. PICK base : base = capture[p].base
        OBVIOUS
      <4>3. PICK log \in Seq(Lines), line \in Lines :
              log = files.namespace_jsonl[s] /\ line = w.line /\ base = capture[p].base
        BY <4>0, <4>1, <4>2
      <4>4. Told(Append(log, line), base, name) =
              IF line.variable_name = name THEN ToldBy(line) ELSE Told(log, base, name)
        BY ToldAppend
      <4>5. Logged(p, s, name)' = Told(Append(log, line), base, name)
        BY <1>5, <4>1, <4>3 DEF Logged
      <4>6. told = Told(log, base, name)
        BY <4>3 DEF Logged
      <4>7. LineOf(w, name) <=> line.variable_name = name
        BY <1>6, <3>1, <4>3 DEF LineOf
      <4> HIDE DEF told, w
      <4> QED
        BY <4>3, <4>4, <4>5, <4>6, <4>7
    <3>2. CASE ~LogLine(p)
      <4>1. files'.namespace_jsonl[s] = files.namespace_jsonl[s]
        BY <1>7, <3>2, NamespaceLog
      <4>2. ~LineOf(w, name)
        BY <1>6, <3>2 DEF LineOf
      <4>3. Logged(p, s, name)' = told
        BY <1>5, <4>1 DEF Logged
      <4> HIDE DEF told, w
      <4> QED
        BY <4>2, <4>3
    <3> QED
      BY <3>1, <3>2
  <2>0. PICK now, t : now = Held(snapshot_namespace(p), name) /\ t = told
    OBVIOUS
  <2>2. PICK L \in Seq(Writes) :
          L = todo[p] /\ now = Held(snapshot_namespace(p), name) /\ t = told
    BY <1>1, <2>0
  <2>3. Settles(L, name, t, now) /\ L # << >>
    BY <1>1, <1>3, <2>2 DEF AfterCell
  <2>4. PICK th : th = then
    OBVIOUS
  <2>5. th = IF LineOf(L[1], name) THEN ToldBy(L[1].line) ELSE t
    BY <2>2, <2>4, Zenon
  <2> HIDE DEF then, told, w
  <2>6. Settles(Tail(L), name, th, now)
    BY <2>3, <2>5, SettlesTail
  <2>7. snapshot_namespace(p)' = snapshot_namespace(p)
    BY <1>2 DEF snapshot_namespace
  <2> QED
    BY <1>1, <2>1, <2>2, <2>4, <2>6, <2>7
<1>9. AfterCell(p, s)'
  BY <1>8 DEF AfterCell, Held, Value
<1>10. depth'[p] = 0
  BY <1>2, <1>3
<1> QED
  BY <1>9, <1>10 DEF ReplayOf

(* Every step, while no cell runs inside another.                               *)
LEMMA ReplayInductive ==
    ASSUME MaxDepth <= 1
    PROVE  TypeInv /\ Disjoint /\ CountInv /\ ReplayInv /\ [Next]_vars => ReplayInv'
<1> SUFFICES ASSUME TypeInv, Disjoint, CountInv, ReplayInv, [Next]_vars PROVE ReplayInv'
  OBVIOUS
<1>1. ASSUME NEW p \in Shells, Step(p), failures' = 0,
             NEW q \in Shells, NEW s \in SessionRefs, Owns(q, s)'
      PROVE  ReplayOf(q, s)'
  <2>1. failures = 0 /\ ~Fail(p)
    BY <1>1, FailuresCounted
  <2>2. \A t \in SessionRefs : Owns(q, t) => ReplayOf(q, t)
    BY <2>1 DEF ReplayInv, ReplayOf
  <2>3. CASE q # p
    <3>1. /\ user_ns'[q] = user_ns[q] /\ content'[q] = content[q] /\ depth'[q] = depth[q]
          /\ todo'[q] = todo[q] /\ capture'[q] = capture[q]
      BY <1>1, <2>3, OthersAlone
    <3>2. Owns(q, s) /\ ~Owns(p, s)
      BY <1>1, <2>3, <3>1 DEF Owns, Disjoint
    <3>3. files'.namespace_jsonl[s] = files.namespace_jsonl[s]
      BY <1>1, <3>2, NamespaceLog
    <3>4. ReplayOf(q, s)
      BY <2>2, <3>2
    <3>5. snapshot_namespace(q)' = snapshot_namespace(q)
      BY <3>1 DEF snapshot_namespace
    <3>6. \A name \in Names : Logged(q, s, name)' = Logged(q, s, name)
      BY <3>1, <3>3 DEF Logged
    <3>7. AfterCell(q, s) => AfterCell(q, s)'
      BY <3>1, <3>5, <3>6 DEF AfterCell, Held, Value
    <3>8. InCell(q, s) => InCell(q, s)'
      BY <3>1, <3>6 DEF InCell, Held, Value
    <3> QED
      BY <3>1, <3>4, <3>7, <3>8 DEF ReplayOf
  <2>4. CASE q = p /\ Start(p)
    BY <1>1, <2>4, StartReplays
  <2>5. CASE q = p /\ (RunCell(p) \/ PostRunCell(p) \/ Write(p))
    <3>1. capture'[p].session = capture[p].session
      BY <2>5, IdleEffect, PostRunCellEffect, WriteEffect DEF Idle
    <3>2. Owns(p, s) /\ ReplayOf(p, s)
      BY <1>1, <2>2, <2>5, <3>1 DEF Owns
    <3> QED
      BY <1>1, <2>5, <3>2, RunCellReplays, PostRunReplays, WriteReplays
  <2>6. CASE q = p /\ Idle(p) /\ ~RunCell(p)
    <3>1. capture'[p].session = capture[p].session
      BY <2>6, IdleEffect
    <3>2. ReplayOf(p, s)
      BY <1>1, <2>2, <2>6, <3>1 DEF Owns
    <3> QED
      BY <2>6, <3>2, CodeReplays DEF Idle
  <2>7. CASE q = p /\ (Close(p) \/ Cut(p))
    <3>1. Close(p) \/ Exit(p) \/ Crash(p)
      BY <2>1, <2>7 DEF Cut
    <3>2. capture'[p] = NoCapture
      BY <3>1, CloseEffect DEF Exit, Crash, Gone, TypeInv, Typed
    <3>3. capture'[p].session = {}
      BY <3>2 DEF NoCapture
    <3> QED
      BY <1>1, <2>7, <3>3 DEF Owns
  <2> QED
    BY <1>1, <2>3, <2>4, <2>5, <2>6, <2>7, StepKinds
<1>2. CASE UNCHANGED others
  <2>1. \A q \in Shells, s \in SessionRefs : Owns(q, s)' => Owns(q, s)
    BY <1>2 DEF others, Owns
  <2>2. \A q \in Shells, s \in SessionRefs : ReplayOf(q, s) => ReplayOf(q, s)'
    <3>1. ASSUME NEW q \in Shells, NEW s \in SessionRefs PROVE ReplayOf(q, s)' = ReplayOf(q, s)
      <4>1. snapshot_namespace(q)' = snapshot_namespace(q)
        BY <1>2 DEF others, snapshot_namespace, Held, Value
      <4>2. \A name : Logged(q, s, name)' = Logged(q, s, name)
        BY <1>2 DEF others, Logged
      <4>3. AfterCell(q, s)' = AfterCell(q, s)
        BY <1>2, <4>1, <4>2 DEF others, AfterCell
      <4>4. InCell(q, s)' = InCell(q, s)
        BY <1>2, <4>2 DEF others, InCell
      <4> QED
        BY <1>2, <4>3, <4>4 DEF others, ReplayOf
    <3> QED
      BY <3>1
  <2> QED
    BY <1>2, <2>1, <2>2 DEF ReplayInv, ReplayOf, others
<1>3. (\E p \in Shells : Step(p)) => ReplayInv'
  BY <1>1 DEF ReplayInv, ReplayOf
<1> QED
  BY <1>2, <1>3, NextSteps

(* LogReplaysNamespace is what the invariant says between cells.                *)
LEMMA ReplayImplies == TypeInv /\ ReplayInv => LogReplaysNamespace
<1> SUFFICES ASSUME TypeInv, ReplayInv, NEW p \in Shells, failures = 0, Hooked(p), depth[p] = 0
             PROVE  Replayed(p) = Values(snapshot_namespace(p))
  BY DEF LogReplaysNamespace
<1> DEFINE ns == snapshot_namespace(p)
<1>1. PICK s \in SessionRefs : capture[p].session = {s} /\ Ref(p) = s
  BY CaptureFacts DEF Hooked, TypeInv
<1>2. ASSUME NEW name \in Names
      PROVE  Told(files.namespace_jsonl[Ref(p)], capture[p].base, name) = Held(ns, name)
  <2>1. Settles(todo[p], name, Logged(p, s, name), Held(ns, name))
    BY <1>1 DEF ReplayInv, AfterCell, Owns
  <2>2. Len(todo[p]) = 0
    BY DEF Hooked
  <2> HIDE DEF ns
  <2> QED
    BY <1>1, <2>1, <2>2 DEF Settles, Logged
<1>3. DOMAIN ns \subseteq Names
  <2>1. ns \in Snapshots
    BY SnapshotTyped DEF TypeInv
  <2> HIDE DEF ns
  <2> QED
    BY <2>1 DEF Snapshots
<1> HIDE DEF ns
<1>4. \A name \in Names : Held(ns, name) # {} <=> name \in DOMAIN ns
  BY DEF Held
<1>5. { n \in Names : Told(files.namespace_jsonl[Ref(p)], capture[p].base, n) # {} } = DOMAIN ns
  BY <1>2, <1>3, <1>4
<1>6. \A name \in DOMAIN ns :
         (CHOOSE v \in Told(files.namespace_jsonl[Ref(p)], capture[p].base, name) : TRUE)
           = Value(ns[name])
  <2>1. \A x : (CHOOSE v \in {x} : TRUE) = x
    OBVIOUS
  <2>2. ASSUME NEW name \in DOMAIN ns
        PROVE  (CHOOSE v \in Told(files.namespace_jsonl[Ref(p)], capture[p].base, name) : TRUE)
                 = Value(ns[name])
    <3>1. Told(files.namespace_jsonl[Ref(p)], capture[p].base, name) = {Value(ns[name])}
      BY <1>2, <1>3 DEF Held
    <3> QED
      BY <2>1, <3>1, Zenon
  <2> QED
    BY <2>2
<1>7. Replayed(p) = [name \in DOMAIN ns |-> Value(ns[name])]
  BY <1>5, <1>6 DEF Replayed
<1> QED
  BY <1>7 DEF Values, ns

(* Between cells the namespace log of a session, replayed over the bindings the *)
(* session started from, is the namespace of its shell, if no hook failed and   *)
(* no cell ran inside another.                                                  *)
THEOREM LogReplays ==
    ASSUME MaxDepth <= 1
    PROVE  Spec => []LogReplaysNamespace
<1>1. Init => TypeInv /\ IndexInv /\ CountInv /\ ReplayInv
  <2>1. ASSUME Init PROVE ReplayInv
    <3>1. \A p \in Shells : capture[p] = NoCapture
      BY <2>1 DEF Init
    <3>2. \A p \in Shells : capture[p].session = {}
      BY <3>1 DEF NoCapture
    <3> QED
      BY <3>2 DEF ReplayInv, Owns
  <2> QED
    BY <2>1, TypeInit, IndexInit, CommitInit
<1>2. TypeInv /\ IndexInv /\ CountInv /\ ReplayInv /\ [Next]_vars
        => (TypeInv /\ IndexInv /\ CountInv /\ ReplayInv)'
  BY TypeInductive, IndexInductive, CountInductive, ReplayInductive DEF IndexInv, SessionInv
<1> QED
  BY <1>1, <1>2, ReplayImplies, PTL DEF Spec
-----------------------------------------------------------------------------
(* What each write of a hook is followed by: a document or an event by its row, *)
(* a cell by its own, a line that registers an object by the rows of it.        *)
Registered1(w) == w.write = "log_line" /\ w.line.event = "object_registered"
ObjectWrite(line) == Insert("objects", line.object_ref, [content |-> line.content])
EdgeDue(w, e) == w.write = "insert" /\ w.table = "lineage_edges" /\ w.ref = e
RowDue(w, table) == w.write = "insert" /\ w.table = table
Followed(L, i) ==
    /\ L[i].write = "session_json" =>
         i < Len(L) /\ L[i + 1] = Insert("sessions", L[i].session, L[i].doc)
    /\ L[i].write = "log_event" => i < Len(L) /\ L[i + 1] = EventRow(L[i].event)
    /\ L[i].write = "log_cell" => i < Len(L) /\ L[i + 1].write = "insert_cell"
    /\ Registered1(L[i]) =>
         /\ i < Len(L) /\ L[i + 1] = ObjectWrite(L[i].line)
         /\ \A e \in LineageEdges(L[i].line) : \E j \in i + 1 .. Len(L) : EdgeDue(L[j], e)
Preceded(L, i) ==
    RowDue(L[i], "objects") =>
        i > 1 /\ Registered1(L[i - 1]) /\ L[i] = ObjectWrite(L[i - 1].line)
Chained(L) == \A i \in 1 .. Len(L) : Followed(L, i) /\ Preceded(L, i)
Chains == { L \in Seq(Writes) : Chained(L) }

(* Hooks follow one another.                                                    *)
LEMMA ChainsClosed == ClosedUnderConcat(Chains) /\ << >> \in Chains
<1>1. ASSUME NEW a \in Chains, NEW b \in Chains
      PROVE  a \o b \in Chains
  <2>1. a \in Seq(Writes) /\ b \in Seq(Writes) /\ Chained(a) /\ Chained(b)
    BY DEF Chains
  <2> DEFINE c == a \o b
             n == Len(a)
  <2>2. /\ c \in Seq(Writes) /\ Len(c) = n + Len(b)
        /\ \A i \in 1 .. n : c[i] = a[i]
        /\ \A i \in 1 .. Len(b) : c[n + i] = b[i]
    BY <2>1, ConcatIndex
  <2>3. n \in Nat /\ Len(b) \in Nat
    BY <2>1
  <2> HIDE DEF c, n
  <2>4. ASSUME NEW i \in 1 .. Len(c)
        PROVE  Followed(c, i) /\ Preceded(c, i)
    <3>1. CASE i \in 1 .. n
      <4>1. c[i] = a[i] /\ Followed(a, i) /\ Preceded(a, i)
        BY <2>1, <2>2, <3>1 DEF Chained, n
      <4>2. i < n => i + 1 \in 1 .. n /\ i < Len(c) /\ c[i + 1] = a[i + 1]
        BY <2>2, <2>3, <3>1
      <4>3. i > 1 => c[i - 1] = a[i - 1]
        <5>1. i > 1 => i - 1 \in 1 .. n
          BY <2>3, <3>1
        <5> QED
          BY <2>2, <5>1
      <4>4. ASSUME NEW e, NEW j \in i + 1 .. Len(a), EdgeDue(a[j], e)
            PROVE  j \in i + 1 .. Len(c) /\ EdgeDue(c[j], e)
        <5>1. j \in 1 .. n /\ j \in i + 1 .. Len(c)
          BY <2>2, <2>3, <3>1 DEF n
        <5> QED
          BY <2>2, <4>4, <5>1
      <4>5. Preceded(c, i)
        BY <4>1, <4>3 DEF Preceded
      <4>6. Registered1(c[i]) =>
               \A e \in LineageEdges(c[i].line) : \E j \in i + 1 .. Len(c) : EdgeDue(c[j], e)
        BY <4>1, <4>4 DEF Followed
      <4>7. Followed(c, i)
        BY <4>1, <4>2, <4>6 DEF Followed, n
      <4> QED
        BY <4>5, <4>7
    <3>2. CASE i \notin 1 .. n
      <4>1. PICK k \in 1 .. Len(b) : i = n + k
        <5>1. i - n \in 1 .. Len(b) /\ i = n + (i - n)
          BY <2>2, <2>3, <3>2
        <5> QED
          BY <5>1
      <4>2. c[i] = b[k] /\ Followed(b, k) /\ Preceded(b, k)
        BY <2>1, <2>2, <4>1 DEF Chained
      <4>3. k < Len(b) => i < Len(c) /\ c[i + 1] = b[k + 1]
        <5>1. k < Len(b) => k + 1 \in 1 .. Len(b) /\ i + 1 = n + (k + 1) /\ i < Len(c)
          <6>1. PICK lb, lc \in Nat : lb = Len(b) /\ lc = Len(c) /\ lc = n + lb
            BY <2>2, <2>3
          <6>2. n \in Nat /\ k \in 1 .. lb /\ i = n + k
            BY <2>3, <4>1, <6>1
          <6>3. k < lb => k + 1 \in 1 .. lb /\ i + 1 = n + (k + 1) /\ i < lc
            BY <6>1, <6>2
          <6> QED
            BY <6>1, <6>3, Zenon
        <5> QED
          BY <2>2, <5>1
      <4>4. k > 1 => i > 1 /\ c[i - 1] = b[k - 1]
        <5>1. k > 1 => k - 1 \in 1 .. Len(b) /\ i - 1 = n + (k - 1) /\ i > 1
          BY <2>2, <2>3, <4>1
        <5> QED
          BY <2>2, <5>1
      <4>5. ASSUME NEW e, NEW j \in k + 1 .. Len(b), EdgeDue(b[j], e)
            PROVE  \E m \in i + 1 .. Len(c) : EdgeDue(c[m], e)
        <5>1. j \in 1 .. Len(b) /\ n + j \in i + 1 .. Len(c)
          BY <2>2, <2>3, <4>1
        <5>2. c[n + j] = b[j]
          BY <2>2, <5>1
        <5> QED
          BY <4>5, <5>1, <5>2
      <4>6. Preceded(c, i)
        BY <4>2, <4>4 DEF Preceded
      <4>7. Registered1(c[i]) =>
               \A e \in LineageEdges(c[i].line) : \E j \in i + 1 .. Len(c) : EdgeDue(c[j], e)
        BY <4>2, <4>5 DEF Followed
      <4>8. Followed(c, i)
        BY <4>2, <4>3, <4>7 DEF Followed
      <4> QED
        BY <4>6, <4>8
    <3> QED
      BY <3>1, <3>2
  <2> QED
    BY <2>2, <2>4 DEF Chains, Chained, c
<1>2. << >> \in Chains
  BY DEF Chains, Chained
<1> QED
  BY <1>1, <1>2 DEF ClosedUnderConcat

(* A document and its row, an event and its row, a cell and its row.            *)
LEMMA PairsChained ==
    ASSUME NEW s \in SessionRefs
    PROVE  /\ \A ended \in BOOLEAN : SessionWrites(s, ended) \in Chains
           /\ \A type \in EventTypes : Event(s, type) \in Chains
           /\ << [write |-> "log_cell"], [write |-> "insert_cell"] >> \in Chains
<1>1. ASSUME NEW L \in Seq(Writes), Len(L) = 2, Followed(L, 1),
             L[2].write \in {"insert", "insert_event", "insert_cell"},
             ~RowDue(L[1], "objects"), ~RowDue(L[2], "objects")
      PROVE  L \in Chains
  <2>1. Followed(L, 2)
    BY <1>1 DEF Followed, Registered1
  <2>2. \A i \in 1 .. Len(L) : i = 1 \/ i = 2
    BY <1>1
  <2>3. Preceded(L, 1) /\ Preceded(L, 2)
    BY <1>1 DEF Preceded
  <2> QED
    BY <1>1, <2>1, <2>2, <2>3 DEF Chains, Chained
<1>2. ASSUME NEW ended \in BOOLEAN
      PROVE  SessionWrites(s, ended) \in Chains
  <2>1. PICK L : L = SessionWrites(s, ended)
    OBVIOUS
  <2>2. /\ L \in Seq(Writes) /\ Len(L) = 2
        /\ L[1] = [write |-> "session_json", session |-> s, doc |-> [ended |-> ended]]
        /\ L[2] = Insert("sessions", s, [ended |-> ended])
    BY <2>1, SessionWritesTyped
  <2>3. Followed(L, 1)
    BY <2>2 DEF Followed, Registered1
  <2>4. /\ L[2].write = "insert" /\ ~RowDue(L[1], "objects") /\ ~RowDue(L[2], "objects")
    BY <2>2 DEF RowDue, Insert
  <2> QED
    BY <1>1, <2>1, <2>2, <2>3, <2>4
<1>3. ASSUME NEW type \in EventTypes
      PROVE  Event(s, type) \in Chains
  <2>1. PICK L : L = Event(s, type)
    OBVIOUS
  <2>2. /\ L \in Seq(Writes) /\ Len(L) = 2
        /\ L[1] = EventLog(<< type, s >>) /\ L[2] = EventRow(<< type, s >>)
    BY <2>1, EventWritesTyped
  <2>3. Followed(L, 1)
    BY <2>2 DEF Followed, Registered1, EventLog, EventRow
  <2>4. L[2].write = "insert_event" /\ ~RowDue(L[1], "objects") /\ ~RowDue(L[2], "objects")
    BY <2>2 DEF RowDue, EventLog, EventRow
  <2> QED
    BY <1>1, <2>1, <2>2, <2>3, <2>4
<1>4. << [write |-> "log_cell"], [write |-> "insert_cell"] >> \in Chains
  <2>1. PICK L : L = << [write |-> "log_cell"], [write |-> "insert_cell"] >>
    OBVIOUS
  <2>2. /\ L \in Seq(Writes) /\ Len(L) = 2
        /\ L[1] = [write |-> "log_cell"] /\ L[2] = [write |-> "insert_cell"]
    BY <2>1 DEF Writes, CellWrites
  <2>3. Followed(L, 1)
    BY <2>2 DEF Followed, Registered1
  <2>4. L[2].write = "insert_cell" /\ ~RowDue(L[1], "objects") /\ ~RowDue(L[2], "objects")
    BY <2>2 DEF RowDue
  <2> QED
    BY <1>1, <2>1, <2>2, <2>3, <2>4
<1> QED
  BY <1>2, <1>3, <1>4

(* The inserts of the edges of a line: each edge has one.                       *)
LEMMA EdgesInserted ==
    ASSUME NEW s \in SessionRefs, NEW line \in Lines
    PROVE  /\ \A i \in 1 .. Len(EdgeInserts(s, line)) :
                RowDue(EdgeInserts(s, line)[i], "lineage_edges")
           /\ \A e \in LineageEdges(line) : \E i \in 1 .. Len(EdgeInserts(s, line)) :
                EdgeDue(EdgeInserts(s, line)[i], e)
<1> DEFINE payload == [session_ref |-> s, cell_ref |-> line.cell_ref]
           inserts == [edge \in LineageEdges(line) |-> Insert("lineage_edges", edge, payload)]
           parents == SetToSeq(ParentEdges(line))
           rest == [i \in DOMAIN parents |-> inserts[parents[i]]]
           first == << inserts[CellEdge(line)] >>
           EdgeSet == { inserts[e] : e \in LineageEdges(line) }
<1>1. \A e \in LineageEdges(line) :
         EdgeDue(inserts[e], e) /\ RowDue(inserts[e], "lineage_edges") /\ inserts[e] \in EdgeSet
  BY DEF EdgeDue, RowDue, Insert
<1>2. /\ CellEdge(line) \in LineageEdges(line) /\ ParentEdges(line) \subseteq LineageEdges(line)
      /\ LineageEdges(line) = {CellEdge(line)} \cup ParentEdges(line)
  BY DEF LineageEdges
<1>3. IsFiniteSet(ParentEdges(line))
  <2>1. IsFiniteSet(line.parents)
    BY DEF Lines, Range
  <2> DEFINE edge == [parent \in line.parents |-> EdgeRef("parent", parent, line.object_ref)]
  <2>2. /\ edge \in [line.parents -> ParentEdges(line)]
        /\ \A t \in ParentEdges(line) : \E parent \in line.parents : edge[parent] = t
    BY DEF ParentEdges
  <2> HIDE DEF edge
  <2> QED
    BY <2>1, <2>2, FiniteRange
<1>4. /\ parents \in Seq(ParentEdges(line))
      /\ \A e \in ParentEdges(line) : \E i \in 1 .. Len(parents) : parents[i] = e
  BY <1>3, SetToSeqTyped, SetToSeqHas
<1>5. EdgeInserts(s, line) = first \o rest
  BY DEF EdgeInserts
<1> HIDE DEF inserts, parents, payload
<1>6. /\ Len(parents) \in Nat /\ DOMAIN parents = 1 .. Len(parents)
      /\ rest \in Seq(EdgeSet) /\ Len(rest) = Len(parents)
      /\ \A i \in 1 .. Len(parents) : rest[i] = inserts[parents[i]]
  <2>1. \A i \in 1 .. Len(parents) : parents[i] \in LineageEdges(line)
    BY <1>2, <1>4
  <2>2. Len(parents) \in Nat /\ DOMAIN parents = 1 .. Len(parents)
    BY <1>4
  <2> HIDE DEF EdgeSet
  <2>3. \A i \in 1 .. Len(parents) : inserts[parents[i]] \in EdgeSet
    BY <1>1, <2>1
  <2> QED
    BY <2>2, <2>3
<1>7. first \in Seq(EdgeSet) /\ Len(first) = 1 /\ first[1] = inserts[CellEdge(line)]
  <2> HIDE DEF EdgeSet
  <2> QED
    BY <1>1, <1>2
<1>8. \A d \in EdgeSet : RowDue(d, "lineage_edges")
  BY <1>1
<1> HIDE DEF first, rest, EdgeSet
<1> DEFINE L == first \o rest
<1>9. /\ L \in Seq(EdgeSet) /\ Len(L) = 1 + Len(parents) /\ L[1] = inserts[CellEdge(line)]
      /\ \A i \in 1 .. Len(parents) : L[1 + i] = inserts[parents[i]]
  <2>1. PICK a \in Seq(EdgeSet), b \in Seq(EdgeSet) : a = first /\ b = rest
    BY <1>6, <1>7
  <2>2. /\ a \o b \in Seq(EdgeSet) /\ Len(a \o b) = Len(a) + Len(b)
        /\ \A i \in 1 .. Len(a) : (a \o b)[i] = a[i]
        /\ \A i \in 1 .. Len(b) : (a \o b)[Len(a) + i] = b[i]
    BY ConcatIndex
  <2>3. a \o b = L
    BY <2>1
  <2> HIDE DEF L
  <2>4. L \in Seq(EdgeSet) /\ Len(L) = 1 + Len(parents) /\ L[1] = a[1]
    <3>1. Len(a) = 1 /\ Len(b) = Len(parents)
      BY <1>6, <1>7, <2>1
    <3>2. (a \o b)[1] = a[1] /\ Len(a \o b) = 1 + Len(parents)
      BY <2>2, <3>1
    <3> QED
      BY <2>2, <2>3, <3>2, Zenon
  <2>5. \A i \in 1 .. Len(parents) : L[1 + i] = b[i]
    BY <1>6, <1>7, <2>1, <2>2, <2>3
  <2> QED
    BY <1>6, <1>7, <2>1, <2>4, <2>5
<1> HIDE DEF L
<1>10. ASSUME NEW e \in LineageEdges(line)
       PROVE  \E i \in 1 .. Len(L) : EdgeDue(L[i], e)
  <2>1. CASE e = CellEdge(line)
    <3>1. 1 \in 1 .. Len(L) /\ L[1] = inserts[e]
      BY <1>6, <1>9, <2>1
    <3> QED
      BY <1>1, <3>1
  <2>2. CASE e \in ParentEdges(line)
    <3>1. PICK i \in 1 .. Len(parents) : parents[i] = e
      BY <1>4, <2>2
    <3>2. 1 + i \in 1 .. Len(L) /\ L[1 + i] = inserts[e]
      BY <1>6, <1>9, <3>1
    <3> QED
      BY <1>1, <3>2
  <2> QED
    BY <1>2, <2>1, <2>2
<1>11. \A i \in 1 .. Len(L) : RowDue(L[i], "lineage_edges")
  BY <1>8, <1>9
<1> QED
  BY <1>5, <1>10, <1>11 DEF L

(* register_object_event: after the line that registers an object come its row  *)
(* and the edges of the line; no other row of objects is written.               *)
LEMMA RegisterChained ==
    ASSUME NEW s \in SessionRefs, NEW line \in Lines
    PROVE  register_object_event(s, line) \in Chains
<1> DEFINE first == << LineWrite(line) >>
           rows == IndexInserts(s, line)
           edges == EdgeInserts(s, line)
           A == first \o rows
<1>1. /\ first \in Seq(Writes) /\ Len(first) = 1 /\ first[1] = LineWrite(line)
      /\ first[1].write = "log_line" /\ first[1].line = line
  BY DEF LineWrite, Writes, LineWrites
<1>2. rows \in Seq(Writes) /\ Len(rows) \in Nat /\ \A i \in 1 .. Len(rows) : rows[i].write = "insert"
  <2>1. rows \in Seq(RowsOf(s, line))
    BY RowWrites
  <2>2. \A w \in RowsOf(s, line) : w \in Writes /\ w.write = "insert"
    BY DEF RowsOf, RowOf, Writes
  <2> HIDE DEF rows
  <2> QED
    BY <2>1, <2>2
<1>3. /\ \A i \in 1 .. Len(edges) : RowDue(edges[i], "lineage_edges")
      /\ \A e \in LineageEdges(line) : \E i \in 1 .. Len(edges) : EdgeDue(edges[i], e)
  BY EdgesInserted
<1>4. /\ \A i \in 1 .. Len(rows) : RowDue(rows[i], "objects") =>
           i = 1 /\ line.event = "object_registered" /\ rows[i] = ObjectWrite(line)
      /\ line.event = "object_registered" =>
           /\ 1 \in 1 .. Len(rows) /\ rows[1] = ObjectWrite(line)
           /\ \A e \in LineageEdges(line) : \E i \in 2 .. Len(rows) : EdgeDue(rows[i], e)
  <2>1. CASE line.event \in {"object_registered", "object_mutated"}
    <3>0. PICK w : /\ rows = << w >> \o edges
                   /\ line.event = "object_registered" => w = ObjectWrite(line)
                   /\ line.event = "object_mutated" => w.table = "object_versions"
      <4>1. CASE line.event = "object_registered"
        BY <4>1 DEF IndexInserts, ObjectWrite
      <4>2. CASE line.event = "object_mutated"
        <5> DEFINE v == Insert("object_versions", << line.object_ref, line.content >>,
                               [content |-> line.content])
        <5>1. rows = << v >> \o edges
          BY <4>2 DEF IndexInserts
        <5>2. v.table = "object_versions"
          BY DEF Insert
        <5> HIDE DEF v
        <5> QED
          BY <4>2, <5>1, <5>2
      <4> QED
        BY <2>1, <4>1, <4>2
    <3>1. PICK K : K = RowsOf(s, line)
      OBVIOUS
    <3>2. edges \in Seq(K)
      BY <2>1, <3>1, EdgeWrites
    <3>3. rows \in Seq(K)
      BY <3>1, RowWrites
    <3> HIDE DEF rows, edges
    <3>4. PICK b \in Seq(K \cup {w}), a \in Seq(K \cup {w}) : b = edges /\ a = << w >>
      <4>1. edges \in Seq(K \cup {w})
        BY <3>2
      <4>2. << w >> \in Seq(K \cup {w})
        OBVIOUS
      <4> QED
        BY <4>1, <4>2, Zenon
    <3>5. /\ Len(a \o b) = Len(a) + Len(b)
          /\ \A i \in 1 .. Len(a) : (a \o b)[i] = a[i]
          /\ \A i \in 1 .. Len(b) : (a \o b)[Len(a) + i] = b[i]
      BY ConcatIndex
    <3>6. a \o b = rows /\ Len(a) = 1 /\ a[1] = w
      BY <3>0, <3>4
    <3>7. /\ Len(edges) \in Nat /\ Len(rows) = 1 + Len(edges) /\ rows[1] = w
          /\ \A i \in 1 .. Len(edges) : rows[1 + i] = edges[i]
      BY <3>4, <3>5, <3>6
    <3>8. \A i \in 2 .. Len(rows) : RowDue(rows[i], "lineage_edges")
      <4>1. ASSUME NEW i \in 2 .. Len(rows) PROVE RowDue(rows[i], "lineage_edges")
        <5>1. i - 1 \in 1 .. Len(edges) /\ i = 1 + (i - 1)
          BY <3>7
        <5>2. rows[i] = edges[i - 1]
          BY <3>7, <5>1
        <5> QED
          BY <1>3, <5>1, <5>2
      <4> QED
        BY <4>1
    <3>9. \A e \in LineageEdges(line) : \E i \in 2 .. Len(rows) : EdgeDue(rows[i], e)
      <4>1. ASSUME NEW e \in LineageEdges(line) PROVE \E i \in 2 .. Len(rows) : EdgeDue(rows[i], e)
        <5>1. PICK j \in 1 .. Len(edges) : EdgeDue(edges[j], e)
          BY <1>3
        <5>2. 1 + j \in 2 .. Len(rows) /\ rows[1 + j] = edges[j]
          BY <3>7
        <5> QED
          BY <5>1, <5>2
      <4> QED
        BY <4>1
    <3>10. \A i \in 1 .. Len(rows) : RowDue(rows[i], "objects") =>
             i = 1 /\ line.event = "object_registered" /\ rows[i] = ObjectWrite(line)
      <4>1. ASSUME NEW i \in 1 .. Len(rows), RowDue(rows[i], "objects")
            PROVE  i = 1 /\ line.event = "object_registered" /\ rows[i] = ObjectWrite(line)
        <5>1. i \notin 2 .. Len(rows)
          BY <3>8, <4>1 DEF RowDue
        <5>2. i = 1
          BY <5>1
        <5> QED
          BY <2>1, <3>0, <3>7, <4>1, <5>2 DEF RowDue
      <4> QED
        BY <4>1
    <3>11. ASSUME line.event = "object_registered"
           PROVE  1 \in 1 .. Len(rows) /\ rows[1] = ObjectWrite(line)
      <4>1. w = ObjectWrite(line)
        BY <3>0, <3>11
      <4> QED
        BY <3>7, <4>1
    <3> QED
      BY <3>9, <3>10, <3>11, Zenon
  <2>2. CASE line.event \notin {"object_registered", "object_mutated"}
    <3>1. rows = << >>
      BY <2>2 DEF IndexInserts
    <3> QED
      BY <2>2, <3>1
  <2> QED
    BY <2>1, <2>2
<1> HIDE DEF first, rows, edges
<1>5. /\ A \in Seq(Writes) /\ Len(A) = 1 + Len(rows) /\ A[1] = LineWrite(line)
      /\ \A i \in 1 .. Len(rows) : A[1 + i] = rows[i]
  <2>1. /\ A \in Seq(Writes) /\ Len(A) = Len(first) + Len(rows)
        /\ \A i \in 1 .. Len(first) : A[i] = first[i]
        /\ \A i \in 1 .. Len(rows) : A[Len(first) + i] = rows[i]
    <3>1. PICK a \in Seq(Writes), b \in Seq(Writes) : a = first /\ b = rows
      BY <1>1, <1>2
    <3>2. /\ a \o b \in Seq(Writes) /\ Len(a \o b) = Len(a) + Len(b)
          /\ \A i \in 1 .. Len(a) : (a \o b)[i] = a[i]
          /\ \A i \in 1 .. Len(b) : (a \o b)[Len(a) + i] = b[i]
      BY ConcatIndex
    <3> QED
      BY <3>1, <3>2, Zenon
  <2> HIDE DEF A
  <2> QED
    BY <1>1, <2>1
<1> HIDE DEF A
<1>6. ASSUME NEW i \in 1 .. Len(A) PROVE Followed(A, i) /\ Preceded(A, i)
  <2>1. CASE i = 1
    <3>1. A[i].write = "log_line" /\ A[i].line = line
      BY <1>1, <1>5, <2>1
    <3>2. ASSUME line.event = "object_registered"
          PROVE  /\ i < Len(A) /\ A[i + 1] = ObjectWrite(line)
                 /\ \A e \in LineageEdges(line) : \E j \in i + 1 .. Len(A) : EdgeDue(A[j], e)
      <4>1. i < Len(A) /\ A[i + 1] = ObjectWrite(line)
        BY <1>2, <1>4, <1>5, <2>1, <3>2
      <4>2. ASSUME NEW e \in LineageEdges(line) PROVE \E j \in i + 1 .. Len(A) : EdgeDue(A[j], e)
        <5>1. PICK k \in 2 .. Len(rows) : EdgeDue(rows[k], e)
          BY <1>4, <3>2
        <5>2. 1 + k \in i + 1 .. Len(A) /\ A[1 + k] = rows[k]
          BY <1>2, <1>5, <2>1
        <5> QED
          BY <5>1, <5>2
      <4> QED
        BY <4>1, <4>2
    <3>3. Followed(A, i)
      BY <3>1, <3>2 DEF Followed, Registered1
    <3>4. Preceded(A, i)
      BY <3>1 DEF Preceded, RowDue
    <3> QED
      BY <3>3, <3>4
  <2>2. CASE i # 1
    <3>1. PICK k \in 1 .. Len(rows) : i = 1 + k
      <4>1. i - 1 \in 1 .. Len(rows) /\ i = 1 + (i - 1)
        BY <1>2, <1>5, <2>2
      <4> QED
        BY <4>1
    <3>2. A[i] = rows[k] /\ A[i].write = "insert"
      BY <1>2, <1>5, <3>1
    <3>3. Followed(A, i)
      BY <3>2 DEF Followed, Registered1
    <3>4. ASSUME RowDue(A[i], "objects")
          PROVE  i > 1 /\ Registered1(A[i - 1]) /\ A[i] = ObjectWrite(A[i - 1].line)
      <4>1. k = 1 /\ line.event = "object_registered" /\ A[i] = ObjectWrite(line)
        BY <1>4, <3>2, <3>4
      <4>2. i = 2 /\ i - 1 = 1
        BY <3>1, <4>1
      <4>3. A[1].write = "log_line" /\ A[1].line = line
        BY <1>1, <1>5
      <4> QED
        BY <4>1, <4>2, <4>3 DEF Registered1
    <3> QED
      BY <3>3, <3>4 DEF Preceded
  <2> QED
    BY <2>1, <2>2
<1>7. A \in Chains
  BY <1>5, <1>6 DEF Chains, Chained
<1>8. Event(s, line.event) \in Chains
  <2>1. line.event \in EventTypes
    BY DEF Lines, EventTypes
  <2> QED
    BY <2>1, PairsChained
<1>9. register_object_event(s, line) = A \o Event(s, line.event)
  BY DEF register_object_event, A, first, rows, LineWrite
<1> QED
  BY <1>7, <1>8, <1>9, ChainsClosed DEF ClosedUnderConcat

(* So every hook is chained when it starts.                                     *)
LEMMA PostRunChained ==
    ASSUME Typed, NEW p \in Shells, NEW s \in SessionRefs, NEW c \in CellStates,
           capture[p].session = {s}, capture[p].cell = {c}
    PROVE  PostRunWrites(p) \in Chains
<1> DEFINE changes == Changes(p)
           hooks == [i \in DOMAIN changes |-> register_object_event(s, changes[i])]
           R == FlattenSeq(hooks)
           C == << [write |-> "log_cell"], [write |-> "insert_cell"] >>
           E == Event(s, "cell_executed")
<1>1. changes \in Seq(Lines)
  <2>1. changes \in Seq(CellLines(c.ref))
    BY ChangesTyped
  <2> HIDE DEF changes
  <2> QED
    BY <2>1 DEF CellLines
<1>2. PostRunWrites(p) = (R \o C) \o E
  <2>1. Ref(p) = s
    BY DEF Ref
  <2> QED
    BY <2>1 DEF PostRunWrites
<1>3. R \in Chains
  <2>1. \A line \in Lines : register_object_event(s, line) \in Chains
    BY RegisterChained
  <2> HIDE DEF changes
  <2>2. hooks \in Seq(Chains)
    BY <1>1, <2>1
  <2> HIDE DEF hooks
  <2>3. PICK G : G = Chains
    OBVIOUS
  <2>4. ClosedUnderConcat(G) /\ << >> \in G /\ hooks \in Seq(G)
    BY <2>2, <2>3, ChainsClosed
  <2>5. FlattenSeq(hooks) \in G
    BY <2>4, FlattenClosed
  <2> QED
    BY <2>3, <2>5
<1>4. C \in Chains /\ E \in Chains
  BY PairsChained DEF EventTypes
<1> HIDE DEF R, C, E
<1>5. R \o C \in Chains
  BY <1>3, <1>4, ChainsClosed DEF ClosedUnderConcat
<1> QED
  BY <1>2, <1>4, <1>5, ChainsClosed DEF ClosedUnderConcat
-----------------------------------------------------------------------------
(* What is due stays linked, as the hook is done from its front.                *)
Linked(L) == \A i \in 1 .. Len(L) : Followed(L, i) /\ (i > 1 => Preceded(L, i))
LinkedInv == \A p \in Shells : Linked(todo[p])

(* Without its first write, a hook stays linked.                                *)
LEMMA LinkedTail ==
    ASSUME NEW L \in Seq(Writes), L # << >>, Linked(L)
    PROVE  Linked(Tail(L))
<1> DEFINE T == Tail(L)
<1>1. /\ T \in Seq(Writes) /\ Len(T) = Len(L) - 1 /\ Len(L) \in Nat
      /\ \A i \in 1 .. Len(T) : i + 1 \in 1 .. Len(L) /\ T[i] = L[i + 1]
  OBVIOUS
<1> HIDE DEF T
<1>2. ASSUME NEW i \in 1 .. Len(T)
      PROVE  Followed(T, i) /\ (i > 1 => Preceded(T, i))
  <2>1. /\ i + 1 \in 1 .. Len(L) /\ T[i] = L[i + 1] /\ (i + 1) - 1 = i /\ i + 1 > 1
        /\ Followed(L, i + 1) /\ Preceded(L, i + 1)
    BY <1>1 DEF Linked
  <2>2. i + 1 < Len(L) => i < Len(T) /\ T[i + 1] = L[(i + 1) + 1]
    BY <1>1
  <2>3. i > 1 => T[i - 1] = L[i]
    BY <1>1
  <2>4. ASSUME NEW e, NEW j \in (i + 1) + 1 .. Len(L), EdgeDue(L[j], e)
        PROVE  \E m \in i + 1 .. Len(T) : EdgeDue(T[m], e)
    <3>1. j - 1 \in i + 1 .. Len(T) /\ j - 1 \in 1 .. Len(T) /\ (j - 1) + 1 = j
      BY <1>1
    <3>2. T[j - 1] = L[j]
      BY <1>1, <3>1
    <3> QED
      BY <2>4, <3>1, <3>2
  <2>5. i > 1 => Preceded(T, i)
    BY <2>1, <2>3 DEF Preceded
  <2>6. Registered1(T[i]) =>
           \A e \in LineageEdges(T[i].line) : \E j \in i + 1 .. Len(T) : EdgeDue(T[j], e)
    BY <2>1, <2>4 DEF Followed
  <2>7. Followed(T, i)
    BY <2>1, <2>2, <2>6 DEF Followed
  <2> QED
    BY <2>5, <2>7
<1> QED
  BY <1>2 DEF Linked, T

(* Every hook starts linked.                                                    *)
LEMMA LinkedInductive == TypeInv /\ LinkedInv /\ [Next]_vars => LinkedInv'
<1> SUFFICES ASSUME TypeInv, LinkedInv, [Next]_vars PROVE LinkedInv'
  OBVIOUS
<1>0. /\ \A L \in Chains : Linked(L)
      /\ Linked(<< >>)
  BY DEF Chains, Chained, Linked
<1>1. ASSUME NEW p \in Shells, Step(p)
      PROVE  Linked(todo'[p]) /\ \A q \in Shells \ {p} : todo'[q] = todo[q]
  <2>1. CASE Start(p)
    <3>1. PICK s \in SessionRefs :
            todo' = [todo EXCEPT ![p] = SessionWrites(s, FALSE) \o Event(s, "session_started")]
      BY <2>1 DEF Start
    <3>2. SessionWrites(s, FALSE) \in Chains /\ Event(s, "session_started") \in Chains
      BY PairsChained DEF EventTypes
    <3>3. SessionWrites(s, FALSE) \o Event(s, "session_started") \in Chains
      BY <3>2, ChainsClosed DEF ClosedUnderConcat
    <3>4. todo'[p] = SessionWrites(s, FALSE) \o Event(s, "session_started")
      BY <3>1 DEF TypeInv, Typed
    <3> QED
      BY <1>0, <2>1, <3>3, <3>4, StartEffect
  <2>2. CASE Close(p)
    <3>1. Ref(p) \in SessionRefs
      BY <2>2, CaptureFacts DEF Close, Hooked, TypeInv
    <3>2. todo'[p] = SessionWrites(Ref(p), TRUE)
      BY <2>2 DEF Close, TypeInv, Typed
    <3> QED
      BY <1>0, <2>2, <3>1, <3>2, PairsChained, CloseEffect
  <2>3. CASE PostRunCell(p)
    <3>1. capture[p].session # {}
      BY <2>3 DEF PostRunCell, Hooked
    <3>2. todo'[p] = << >> \/ (capture[p].cell # {} /\ todo'[p] = PostRunWrites(p))
      BY <2>3 DEF PostRunCell, TypeInv, Typed
    <3>3. ASSUME capture[p].cell # {} PROVE PostRunWrites(p) \in Chains
      <4>1. PICK s \in SessionRefs, c \in CellStates :
              capture[p].session = {s} /\ capture[p].cell = {c}
        BY <3>1, <3>3, CaptureFacts DEF TypeInv
      <4> QED
        BY <4>1, PostRunChained DEF TypeInv
    <3> QED
      BY <1>0, <2>3, <3>2, <3>3, PostRunCellEffect
  <2>4. CASE Idle(p)
    BY <2>4, IdleEffect DEF LinkedInv
  <2>5. CASE Write(p)
    <3>1. todo[p] \in Seq(Writes) /\ todo[p] # << >> /\ Linked(todo[p])
      BY <2>5, WriteEffect DEF TypeInv, Typed, LinkedInv
    <3>2. Linked(Tail(todo[p]))
      BY <3>1, LinkedTail
    <3>3. todo'[p] = Tail(todo[p])
      BY <2>5, WriteEffect, NextWrite
    <3> QED
      BY <2>5, <3>2, <3>3, WriteEffect
  <2>6. CASE Cut(p)
    BY <1>0, <2>6, CutEffect
  <2> QED
    BY <1>1, <2>1, <2>2, <2>3, <2>4, <2>5, <2>6, StepKinds
<1>2. CASE \E p \in Shells : Step(p)
  BY <1>1, <1>2 DEF LinkedInv
<1>3. CASE UNCHANGED others
  BY <1>3 DEF others, LinkedInv
<1> QED
  BY <1>2, <1>3, NextSteps

-----------------------------------------------------------------------------
(* The write that is due, and what is due after it.                             *)
First(p, write) == todo[p] # << >> /\ todo[p][1].write = write
FirstRow(p, table) == todo[p] # << >> /\ RowDue(todo[p][1], table)

(* After a write comes the one that belongs to it, and no other needs one.      *)
LEMMA NextDue ==
    ASSUME TypeInv, ArrangedInv, LinkedInv, NEW p \in Shells, Write(p), todo'[p] # << >>
    PROVE  LET w == todo[p][1]
               v == todo'[p][1]
           IN  /\ v.write # "session_json"
               /\ RowDue(v, "sessions") <=> w.write = "session_json"
               /\ w.write = "session_json" => v = Insert("sessions", w.session, w.doc)
               /\ w.write = "log_event" => v = EventRow(w.event)
               /\ v.write = "insert_event" => w = EventLog(v.event)
               /\ w.write = "log_cell" => v.write = "insert_cell"
               /\ v.write = "insert_cell" => w.write = "log_cell"
               /\ Registered1(w) => v = ObjectWrite(w.line)
               /\ RowDue(v, "objects") => Registered1(w)
<1> DEFINE L == todo[p]
           w == L[1]
           v == todo'[p][1]
<1>1. /\ L \in Seq(Writes) /\ Arranged(L) /\ Linked(L)
      /\ Len(L) \in Nat /\ Len(L) > 0 /\ Len(todo'[p]) = Len(L) - 1
      /\ \A i \in 1 .. Len(todo'[p]) : i + 1 \in 1 .. Len(L) /\ todo'[p][i] = L[i + 1]
  BY WriteEffect DEF TypeInv, Typed, ArrangedInv, LinkedInv
<1>2. Len(todo'[p]) # 0
  <2>1. todo'[p] \in Seq(Writes)
    BY WriteEffect, NextWrite
  <2> QED
    BY <2>1, EmptyByLength
<1>3. 1 \in 1 .. Len(L) /\ 2 \in 1 .. Len(L) /\ v = L[2] /\ 2 - 1 = 1 /\ 1 + 1 = 2 /\ 1 < Len(L)
  BY <1>1, <1>2
<1>4. /\ v.write # "session_json"
      /\ RowDue(v, "sessions") => w = SessionDoc(v.ref, v.payload)
      /\ v.write = "insert_event" => w = EventLog(v.event)
      /\ v.write = "insert_cell" => w.write = "log_cell"
  BY <1>1, <1>3 DEF Arranged, RowDue
<1>5. Followed(L, 1) /\ Preceded(L, 2)
  BY <1>1, <1>3 DEF Linked
<1> HIDE DEF L
<1>6. /\ w.write = "session_json" => v = Insert("sessions", w.session, w.doc)
      /\ w.write = "log_event" => v = EventRow(w.event)
      /\ w.write = "log_cell" => v.write = "insert_cell"
      /\ Registered1(w) => v = ObjectWrite(w.line)
      /\ RowDue(v, "objects") => Registered1(w)
  BY <1>3, <1>5 DEF Followed, Preceded
<1>7. RowDue(v, "sessions") => w.write = "session_json"
  BY <1>4 DEF SessionDoc
<1>8. w.write = "session_json" => RowDue(v, "sessions")
  BY <1>6 DEF RowDue, Insert
<1> QED
  BY <1>4, <1>6, <1>7, <1>8 DEF L

(* A step that is no write changes nothing that is due, or finds nothing due    *)
(* and starts a hook, with a document or a line of a file, or cuts one.         *)
LEMMA Starts ==
    ASSUME TypeInv, NEW p \in Shells, Step(p), ~Write(p)
    PROVE  \/ todo' = todo
           \/ todo'[p] = << >> /\ (todo[p] = << >> \/ Fail(p) \/ Crash(p))
           \/ /\ todo[p] = << >> /\ todo'[p] # << >>
              /\ todo'[p][1].write \in {"session_json", "log_line", "log_event", "log_cell"}
<1>1. CASE Start(p)
  <2>1. PICK s \in SessionRefs : todo[p] = << >> /\ StartHook(todo'[p], s)
    BY <1>1, StartEffect
  <2>2. todo'[p][1].write = "session_json" /\ Len(todo'[p]) = 4
    BY <2>1 DEF StartHook, SessionDoc
  <2>3. todo'[p] \in Seq(Writes)
    BY <2>1 DEF StartHook
  <2>4. todo'[p] # << >>
    BY <2>2, <2>3, EmptyByLength
  <2> QED
    BY <2>1, <2>2, <2>4
<1>2. CASE Close(p)
  <2>1. PICK s \in SessionRefs : todo[p] = << >> /\ CloseHook(todo'[p], s)
    BY <1>2, CloseEffect
  <2>2. todo'[p][1].write = "session_json" /\ Len(todo'[p]) = 2
    BY <2>1 DEF CloseHook, SessionDoc
  <2>3. todo'[p] \in Seq(Writes)
    BY <2>1 DEF CloseHook
  <2>4. todo'[p] # << >>
    BY <2>2, <2>3, EmptyByLength
  <2> QED
    BY <2>1, <2>2, <2>4
<1>3. CASE PostRunCell(p)
  <2>1. todo[p] = << >>
    BY <1>3, PostRunCellEffect
  <2>2. CASE todo'[p] = << >>
    BY <2>1, <2>2
  <2>3. CASE todo'[p] # << >>
    <3>1. PICK s \in SessionRefs, c \in CellStates : CellHook(todo'[p], s, c.ref)
      BY <1>3, <2>3, PostRunCellEffect
    <3> QED
      BY <2>1, <2>3, <3>1 DEF CellHook
  <2> QED
    BY <2>2, <2>3
<1>4. CASE Idle(p)
  BY <1>4, IdleEffect
<1>5. CASE Cut(p)
  <2>1. todo'[p] = << >>
    BY <1>5, CutEffect
  <2>2. Exit(p) => todo[p] = << >>
    BY DEF Exit
  <2> QED
    BY <1>5, <2>1, <2>2 DEF Cut
<1> QED
  BY <1>1, <1>2, <1>3, <1>4, <1>5, StepKinds

-----------------------------------------------------------------------------
(* A hook that has more to write than a document and its row has a session.     *)
SessionWrite(w) == w.write = "session_json" \/ RowDue(w, "sessions")
HeldInv ==
    \A p \in Shells : \A i \in 1 .. Len(todo[p]) :
        SessionWrite(todo[p][i]) \/ capture[p].session # {}

(* It keeps it until the hook is over.                                          *)
LEMMA HeldInductive == TypeInv /\ HeldInv /\ [Next]_vars => HeldInv'
<1> SUFFICES ASSUME TypeInv, HeldInv, [Next]_vars PROVE HeldInv'
  OBVIOUS
<1>1. ASSUME NEW p \in Shells, Step(p), NEW q \in Shells, NEW i \in 1 .. Len(todo'[q])
      PROVE  SessionWrite(todo'[q][i]) \/ capture'[q].session # {}
  <2>1. CASE q # p
    <3>1. todo'[q] = todo[q] /\ capture'[q] = capture[q]
      BY <1>1, <2>1, OthersAlone
    <3> QED
      BY <1>1, <3>1 DEF HeldInv
  <2>2. CASE q = p /\ Start(p)
    BY <2>2, StartEffect
  <2>3. CASE q = p /\ Close(p)
    <3>1. PICK s \in SessionRefs : CloseHook(todo'[p], s)
      BY <2>3, CloseEffect
    <3>2. i = 1 \/ i = 2
      BY <1>1, <2>3, <3>1 DEF CloseHook
    <3> QED
      BY <2>3, <3>1, <3>2 DEF CloseHook, SessionWrite, RowDue, SessionDoc, Insert
  <2>4. CASE q = p /\ PostRunCell(p)
    <3>1. capture'[p] = capture[p] /\ capture[p].session # {}
      BY <2>4, PostRunCellEffect DEF PostRunCell, Hooked
    <3> QED
      BY <2>4, <3>1
  <2>5. CASE q = p /\ Idle(p)
    BY <1>1, <2>5, IdleEffect DEF HeldInv
  <2>6. CASE q = p /\ Write(p)
    BY <1>1, <2>6, WriteEffect DEF HeldInv
  <2>7. CASE q = p /\ Cut(p)
    BY <1>1, <2>7, CutEffect
  <2> QED
    BY <1>1, <2>1, <2>2, <2>3, <2>4, <2>5, <2>6, <2>7, StepKinds
<1>2. CASE \E p \in Shells : Step(p)
  BY <1>1, <1>2 DEF HeldInv
<1>3. CASE UNCHANGED others
  BY <1>3 DEF others, HeldInv
<1> QED
  BY <1>2, <1>3, NextSteps
-----------------------------------------------------------------------------
(* What a step does to each table: the row that was due is put into it.         *)
Putting(p, table) == InsertRow(p) /\ todo[p][1].table = table

(* A table is changed by the insert of a row of it, and by nothing else.        *)
LEMMA TablesStep ==
    ASSUME TypeInv, NEW p \in Shells, Step(p),
           NEW T \in {"sessions", "objects", "object_versions", "lineage_edges"}
    PROVE  /\ Putting(p, T) =>
                /\ FirstRow(p, T) /\ todo[p][1] \in Writes
                /\ index'[T] = WithRow(index[T], todo[p][1].ref, todo[p][1].payload)
           /\ ~Putting(p, T) => index'[T] = index[T]
<1> DEFINE w == todo[p][1]
<1>1. CASE InsertRow(p)
  <2>1. /\ todo[p] # << >> /\ w \in Writes /\ w.write = "insert" /\ Head(todo[p]) = w
    BY <1>1, WriteEffect DEF Write, InsertRow, Due
  <2>2. index' = insert_payload(index, w.table, w.ref, w.payload)
    BY <1>1, <2>1 DEF InsertRow
  <2>3. w.table = T => FirstRow(p, T)
    BY <2>1 DEF FirstRow, RowDue
  <2> HIDE DEF w
  <2>4. /\ index'[w.table] = WithRow(index[w.table], w.ref, w.payload)
        /\ OtherTables(index, index', w.table)
    <3>1. index \in Indexes
      BY DEF TypeInv, Typed
    <3> QED
      BY <2>1, <2>2, <3>1, InsertedRow
  <2>5. T # w.table => index'[T] = index[T]
    BY <2>4 DEF OtherTables
  <2> QED
    BY <1>1, <2>1, <2>3, <2>4, <2>5 DEF Putting, w
<1>2. CASE ~InsertRow(p)
  <2>1. CASE InsertCell(p)
    <3>1. /\ todo[p] # << >> /\ w.write = "insert_cell" /\ 1 \in 1 .. Len(todo[p])
      BY <2>1, WriteEffect DEF Write, InsertCell, Due
    <3>2. capture[p].session # {} /\ capture[p].cell # {}
      BY <3>1 DEF TypeInv, CaptureInv
    <3>3. PICK s \in SessionRefs, c \in CellStates :
            capture[p].session = {s} /\ capture[p].cell = {c} /\ Current(p) = c
      BY <3>2, CaptureFacts DEF TypeInv
    <3>4. CellRecord(p) \in Cells /\ CellRecord(p).cell_ref = c.ref
      BY <3>3, CellRecordTyped
    <3>5. index' = insert_payload(index, "cells", CellRecord(p).cell_ref, CellRecord(p))
      BY <2>1, <3>3, <3>4 DEF InsertCell
    <3>6. index \in Indexes
      BY DEF TypeInv, Typed
    <3>7. OtherTables(index, index', "cells")
      BY <3>4, <3>5, <3>6, InsertedCell
    <3> QED
      BY <1>2, <3>7 DEF OtherTables, Putting
  <2>2. CASE InsertEvent(p)
    BY <1>2, <2>2 DEF InsertEvent, insert_event, TypeInv, Typed, Indexes, Putting
  <2>3. CASE ~InsertCell(p) /\ ~InsertEvent(p)
    <3>1. CASE Write(p)
      BY <1>2, <2>3, <3>1 DEF Write, WriteSessionJson, LogEvent, LogLine, LogCell, Putting
    <3>2. CASE ~Write(p)
      BY <1>2, <3>2, StepKinds, StartEffect, CloseEffect, PostRunCellEffect, IdleEffect,
         CutEffect DEF Putting
    <3> QED
      BY <3>1, <3>2
  <2> QED
    BY <2>1, <2>2, <2>3
<1> QED
  BY <1>1, <1>2

(* The table of cells, which only insert_cell changes.                          *)
LEMMA CellsStep ==
    ASSUME TypeInv, NEW p \in Shells, Step(p)
    PROVE  /\ InsertCell(p) =>
                /\ First(p, "insert_cell") /\ CellRecord(p) \in Cells
                /\ index'.cells = WithRow(index.cells, CellRecord(p).cell_ref, CellRecord(p))
           /\ ~InsertCell(p) => index'.cells = index.cells
<1> DEFINE w == todo[p][1]
<1>1. CASE InsertCell(p)
  <2>1. /\ todo[p] # << >> /\ w.write = "insert_cell" /\ 1 \in 1 .. Len(todo[p])
    BY <1>1, WriteEffect DEF Write, InsertCell, Due
  <2>2. capture[p].session # {} /\ capture[p].cell # {}
    BY <2>1 DEF TypeInv, CaptureInv
  <2>3. PICK s \in SessionRefs, c \in CellStates :
          capture[p].session = {s} /\ capture[p].cell = {c} /\ Current(p) = c
    BY <2>2, CaptureFacts DEF TypeInv
  <2>4. CellRecord(p) \in Cells /\ CellRecord(p).cell_ref = c.ref
    BY <2>3, CellRecordTyped
  <2>5. index' = insert_payload(index, "cells", CellRecord(p).cell_ref, CellRecord(p))
    BY <1>1, <2>3, <2>4 DEF InsertCell
  <2>6. index \in Indexes
    BY DEF TypeInv, Typed
  <2>7. index'.cells = WithRow(index.cells, CellRecord(p).cell_ref, CellRecord(p))
    BY <2>4, <2>5, <2>6, InsertedCell
  <2> QED
    BY <1>1, <2>1, <2>4, <2>7 DEF First
<1>2. CASE InsertRow(p)
  <2>1. /\ todo[p] # << >> /\ w \in Writes /\ w.write = "insert" /\ Head(todo[p]) = w
    BY <1>2, WriteEffect DEF Write, InsertRow, Due
  <2>2. index' = insert_payload(index, w.table, w.ref, w.payload)
    BY <1>2, <2>1 DEF InsertRow
  <2>3. ~InsertCell(p)
    BY <2>1 DEF InsertCell, Due
  <2> HIDE DEF w
  <2>4. /\ OtherTables(index, index', w.table)
        /\ w.table \in {"sessions", "objects", "object_versions", "lineage_edges"}
    <3>1. index \in Indexes
      BY DEF TypeInv, Typed
    <3> QED
      BY <2>1, <2>2, <3>1, InsertedRow
  <2> QED
    BY <2>3, <2>4 DEF OtherTables
<1>3. CASE ~InsertRow(p) /\ ~InsertCell(p)
  <2>1. CASE InsertEvent(p)
    BY <1>3, <2>1 DEF InsertEvent, insert_event, TypeInv, Typed, Indexes
  <2>2. CASE ~InsertEvent(p)
    <3>1. CASE Write(p)
      BY <1>3, <2>2, <3>1 DEF Write, WriteSessionJson, LogEvent, LogLine, LogCell
    <3>2. CASE ~Write(p)
      BY <1>3, <3>2, StepKinds, StartEffect, CloseEffect, PostRunCellEffect, IdleEffect, CutEffect
    <3> QED
      BY <3>1, <3>2
  <2> QED
    BY <2>1, <2>2
<1> QED
  BY <1>1, <1>2, <1>3

(* session.json of a session, which only its own write changes.                 *)
LEMMA DocsStep ==
    ASSUME TypeInv, NEW p \in Shells, Step(p)
    PROVE  /\ WriteSessionJson(p) =>
                /\ First(p, "session_json")
                /\ todo[p][1].session \in SessionRefs /\ todo[p][1].doc \in Docs
                /\ files'.session_json[todo[p][1].session] = {todo[p][1].doc}
                /\ \A s \in SessionRefs \ {todo[p][1].session} :
                     files'.session_json[s] = files.session_json[s]
           /\ ~WriteSessionJson(p) => files'.session_json = files.session_json
<1>1. CASE ~WriteSessionJson(p)
  <2>1. CASE Write(p)
    BY <1>1, <2>1 DEF Write, InsertRow, LogEvent, InsertEvent, LogLine, LogCell, InsertCell,
                      TypeInv, Typed, FilesSet
  <2>2. CASE ~Write(p)
    BY <1>1, <2>2, StepKinds, StartEffect, CloseEffect, PostRunCellEffect, IdleEffect, CutEffect
  <2> QED
    BY <2>1, <2>2
<1>2. CASE WriteSessionJson(p)
  <2> DEFINE w == todo[p][1]
  <2>1. todo[p] # << >> /\ w \in Writes /\ w.write = "session_json" /\ Head(todo[p]) = w
    BY <1>2, WriteEffect DEF Write, WriteSessionJson, Due
  <2>2. PICK t \in SessionRefs, doc \in Docs : w.session = t /\ w.doc = doc
    BY <2>1, WriteShapes
  <2>3. files' = [files EXCEPT !.session_json[t] = {doc}]
    BY <1>2, <2>1, <2>2 DEF WriteSessionJson
  <2>4. First(p, "session_json")
    BY <2>1 DEF First
  <2> HIDE DEF w
  <2>5. /\ files'.session_json[t] = {doc}
        /\ \A s \in SessionRefs \ {t} : files'.session_json[s] = files.session_json[s]
    BY <2>2, <2>3 DEF TypeInv, Typed, FilesSet
  <2> QED
    BY <1>2, <2>2, <2>4, <2>5 DEF w
<1> QED
  BY <1>1, <1>2

(* While nothing failed or was killed, no hook was cut short.                   *)
Calm == failures = 0 /\ crashes = 0
(* It was calm before a step after which it is, and the step cut nothing short. *)
LEMMA CalmStep ==
    ASSUME TypeInv, NEW p \in Shells, Step(p), Calm'
    PROVE  Calm /\ ~Fail(p) /\ ~Crash(p)
<1>1. failures = 0 /\ ~Fail(p)
  BY FailuresCounted DEF Calm
<1>2. crashes \in Nat
  BY DEF TypeInv, Typed
<1>3. crashes' = crashes \/ crashes' = crashes + 1
  BY DEF Step, Start, Close, RunCell, PostRunCell, Bind, Unbind, Mutate, WriteSessionJson,
         InsertRow, LogEvent, InsertEvent, LogLine, LogCell, InsertCell, Fail, Exit, Crash, counts
<1>4. Crash(p) => crashes' = crashes + 1
  BY DEF Crash
<1> QED
  BY <1>1, <1>2, <1>3, <1>4 DEF Calm

-----------------------------------------------------------------------------
(* A table has one row of each key.                                             *)
OfOneKey(rows) == \A a, b \in rows : a.ref = b.ref => a = b
KeyedInv == OfOneKey(index.sessions) /\ OfOneKey(index.cells) /\ OfOneKey(index.objects)

(* A row that replaces those of its key leaves one of each key.                 *)
LEMMA KeyedWith ==
    ASSUME NEW rows, OfOneKey(rows), NEW ref, NEW payload
    PROVE  OfOneKey(WithRow(rows, ref, payload))
  BY DEF OfOneKey, WithRow, Row

(* insert_payload replaces the row of the key.                                  *)
LEMMA KeyedInductive == TypeInv /\ KeyedInv /\ [Next]_vars => KeyedInv'
<1> SUFFICES ASSUME TypeInv, KeyedInv, [Next]_vars PROVE KeyedInv'
  OBVIOUS
<1>1. ASSUME NEW p \in Shells, Step(p) PROVE KeyedInv'
  <2>1. OfOneKey(index.sessions)'
    <3>1. index'.sessions = index.sessions
          \/ index'.sessions = WithRow(index.sessions, todo[p][1].ref, todo[p][1].payload)
      BY <1>1, TablesStep
    <3> QED
      BY <3>1, KeyedWith DEF KeyedInv
  <2>2. OfOneKey(index.objects)'
    <3>1. index'.objects = index.objects
          \/ index'.objects = WithRow(index.objects, todo[p][1].ref, todo[p][1].payload)
      BY <1>1, TablesStep
    <3> QED
      BY <3>1, KeyedWith DEF KeyedInv
  <2>3. OfOneKey(index.cells)'
    <3>1. index'.cells = index.cells
          \/ index'.cells = WithRow(index.cells, CellRecord(p).cell_ref, CellRecord(p))
      BY <1>1, CellsStep
    <3> QED
      BY <3>1, KeyedWith DEF KeyedInv
  <2> QED
    BY <2>1, <2>2, <2>3 DEF KeyedInv
<1>2. CASE UNCHANGED others
  BY <1>2 DEF others, KeyedInv
<1> QED
  BY <1>1, <1>2, NextSteps
-----------------------------------------------------------------------------
(* The write that is due is the one that is done.                               *)
LEMMA WriteKind ==
    ASSUME TypeInv, NEW p \in Shells, Write(p)
    PROVE  /\ WriteSessionJson(p) <=> First(p, "session_json")
           /\ InsertRow(p) <=> First(p, "insert")
           /\ LogEvent(p) <=> First(p, "log_event")
           /\ InsertEvent(p) <=> First(p, "insert_event")
           /\ LogLine(p) <=> First(p, "log_line")
           /\ LogCell(p) <=> First(p, "log_cell")
           /\ InsertCell(p) <=> First(p, "insert_cell")
<1>1. todo[p] # << >> /\ Head(todo[p]) = todo[p][1]
  BY WriteEffect
<1>2. /\ WriteSessionJson(p) => First(p, "session_json")
      /\ InsertRow(p) => First(p, "insert")
      /\ LogEvent(p) => First(p, "log_event")
      /\ InsertEvent(p) => First(p, "insert_event")
      /\ LogLine(p) => First(p, "log_line")
      /\ LogCell(p) => First(p, "log_cell")
      /\ InsertCell(p) => First(p, "insert_cell")
  BY <1>1 DEF WriteSessionJson, InsertRow, LogEvent, InsertEvent, LogLine, LogCell, InsertCell,
              Due, First
<1> QED
  BY <1>2 DEF Write, First

(* After a document, an event or a cell of a log, or the line of an object,     *)
(* there is more to write.                                                      *)
LEMMA MoreDue ==
    ASSUME TypeInv, LinkedInv, NEW p \in Shells, Write(p),
           todo[p][1].write \in {"session_json", "log_event", "log_cell"} \/ Registered1(todo[p][1])
    PROVE  todo'[p] # << >>
<1> DEFINE L == todo[p]
<1>1. /\ L \in Seq(Writes) /\ Len(L) \in Nat /\ Len(L) > 0 /\ Len(todo'[p]) = Len(L) - 1
      /\ Linked(L)
  BY WriteEffect DEF TypeInv, Typed, LinkedInv
<1>2. 1 \in 1 .. Len(L)
  BY <1>1
<1>3. Followed(L, 1)
  BY <1>1, <1>2 DEF Linked
<1>4. 1 < Len(L)
  BY <1>3 DEF Followed
<1>5. Len(todo'[p]) # 0
  <2>1. \A n \in Nat : 1 < n => n - 1 # 0
    OBVIOUS
  <2>2. Len(L) - 1 # 0
    BY <1>1, <1>4, <2>1, Zenon
  <2> QED
    BY <1>1, <2>2, Zenon
<1>6. todo'[p] \in Seq(Writes)
  BY WriteEffect, NextWrite
<1> QED
  BY <1>5, <1>6, EmptyByLength

(* While nothing is cut short, what is due stays so until its shell writes it.  *)
LEMMA DueKept ==
    ASSUME TypeInv, NEW p \in Shells, Step(p), Calm', NEW q \in Shells, todo[q] # << >>
    PROVE  todo'[q] = todo[q] \/ (q = p /\ Write(p))
<1>1. CASE q # p
  BY <1>1, OthersAlone
<1>2. CASE q = p /\ ~Write(p)
  BY <1>2, CalmStep, Starts
<1> QED
  BY <1>1, <1>2

-----------------------------------------------------------------------------
(* One shell writes the document and the row of a session.                      *)
Writing(p, s) ==
    \/ First(p, "session_json") /\ todo[p][1].session = s
    \/ FirstRow(p, "sessions") /\ todo[p][1].ref = s
Busy(p, s) == Owns(p, s) \/ Writing(p, s)
SoleInv == \A p, q \in Shells, s \in SessionRefs : Busy(p, s) /\ Busy(q, s) => p = q

(* A shell takes up a session only when it starts it.                           *)
LEMMA BusyStep ==
    ASSUME TypeInv, ArrangedInv, LinkedInv, NEW p \in Shells, Step(p), NEW q \in Shells,
           NEW s \in SessionRefs, Busy(q, s)'
    PROVE  Busy(q, s) \/ (q = p /\ s \notin Started /\ s \notin Starting)
<1>1. CASE q # p
  <2>1. todo'[q] = todo[q] /\ capture'[q] = capture[q]
    BY <1>1, OthersAlone
  <2> QED
    BY <2>1 DEF Busy, Owns, Writing, First, FirstRow
<1>2. CASE q = p /\ Start(p)
  <2>1. PICK t \in SessionRefs, k \in Captures :
          /\ t \notin Started /\ t \notin Starting
          /\ StartHook(todo'[p], t) /\ capture'[p] = k /\ k.session = {t}
    BY <1>2, StartEffect
  <2>2. todo'[p][1].write = "session_json" /\ todo'[p][1].session = t
    BY <2>1 DEF StartHook, SessionDoc
  <2>3. Owns(p, s)' => s = t
    BY <2>1 DEF Owns
  <2>4. Writing(p, s)' => s = t
    BY <2>2 DEF Writing, First, FirstRow, RowDue
  <2> QED
    BY <1>2, <2>1, <2>3, <2>4 DEF Busy
<1>3. CASE q = p /\ Close(p)
  <2>1. PICK t \in SessionRefs :
          capture[p].session = {t} /\ CloseHook(todo'[p], t) /\ capture'[p] = NoCapture
    BY <1>3, CloseEffect
  <2>2. todo'[p][1].write = "session_json" /\ todo'[p][1].session = t
    BY <2>1 DEF CloseHook, SessionDoc
  <2>3. ~Owns(p, s)'
    BY <2>1 DEF Owns, NoCapture
  <2>4. Writing(p, s)' => s = t
    BY <2>2 DEF Writing, First, FirstRow, RowDue
  <2> QED
    BY <1>3, <2>1, <2>3, <2>4 DEF Busy, Owns
<1>4. CASE q = p /\ PostRunCell(p)
  <2>1. capture' = capture /\ todo[p] = << >>
    BY <1>4, PostRunCellEffect
  <2>2. ~Write(p)
    BY <2>1, WriteEffect
  <2>3. \/ todo' = todo \/ todo'[p] = << >>
        \/ todo'[p][1].write \in {"session_json", "log_line", "log_event", "log_cell"}
    BY <1>4, <2>2, Starts DEF Step
  <2>4. Writing(p, s)' => Writing(p, s) \/ todo'[p][1].write = "session_json"
    BY <2>1, <2>3 DEF Writing, First, FirstRow, RowDue
  <2>5. todo'[p] = << >> \/ todo'[p][1].write # "session_json"
    <3>1. CASE todo'[p] = << >>
      BY <3>1
    <3>2. CASE todo'[p] # << >>
      <4>1. PICK t \in SessionRefs, c \in CellStates : CellHook(todo'[p], t, c.ref)
        BY <1>4, <3>2, PostRunCellEffect
      <4> QED
        BY <4>1 DEF CellHook
    <3> QED
      BY <3>1, <3>2
  <2>6. ~Writing(p, s)' \/ Writing(p, s)
    BY <2>4, <2>5 DEF Writing, First, FirstRow
  <2> QED
    BY <1>4, <2>1, <2>6 DEF Busy, Owns
<1>5. CASE q = p /\ Idle(p)
  <2>1. todo' = todo /\ capture'[q].session = capture[q].session
    BY <1>5, IdleEffect
  <2> QED
    BY <2>1 DEF Busy, Owns, Writing, First, FirstRow
<1>6. CASE q = p /\ Write(p)
  <2>1. capture'[q].session = capture[q].session /\ todo[p] # << >>
    BY <1>6, WriteEffect
  <2>2. ASSUME Writing(p, s)' PROVE Writing(p, s)
    <3> DEFINE w == todo[p][1]
               v == todo'[p][1]
    <3>1. todo'[p] # << >>
      BY <2>2 DEF Writing, First, FirstRow
    <3>2. /\ v.write # "session_json"
          /\ RowDue(v, "sessions") => w.write = "session_json"
          /\ w.write = "session_json" => v = Insert("sessions", w.session, w.doc)
      BY <1>6, <3>1, NextDue
    <3>3. RowDue(v, "sessions") /\ v.ref = s
      BY <2>2, <3>2 DEF Writing, First, FirstRow
    <3>4. w.write = "session_json" /\ w.session = s
      BY <3>2, <3>3 DEF Insert
    <3> QED
      BY <2>1, <3>4 DEF Writing, First
  <2> QED
    BY <1>6, <2>1, <2>2 DEF Busy, Owns
<1>7. CASE q = p /\ Cut(p)
  <2>1. todo'[p] = << >> /\ (capture'[p] = NoCapture \/ capture'[p] = capture[p])
    BY <1>7, CutEffect
  <2>2. ~Writing(p, s)'
    BY <2>1 DEF Writing, First, FirstRow
  <2>3. Owns(p, s)' => Owns(p, s)
    <3>1. CASE capture'[p] = capture[p]
      BY <3>1 DEF Owns
    <3>2. CASE capture'[p] = NoCapture
      <4>1. capture'[p].session = {} /\ {} # {s}
        BY <3>2 DEF NoCapture
      <4> QED
        BY <4>1 DEF Owns
    <3> QED
      BY <2>1, <3>1, <3>2
  <2> QED
    BY <1>7, <2>2, <2>3 DEF Busy
<1> QED
  BY <1>1, <1>2, <1>3, <1>4, <1>5, <1>6, <1>7, StepKinds

(* A session nobody has started is of no shell.                                 *)
LEMMA BusyStarted ==
    ASSUME SessionInv, NEW p \in Shells, NEW s \in SessionRefs, Busy(p, s)
    PROVE  s \in Started \/ s \in Starting
<1>1. CASE Owns(p, s)
  BY <1>1 DEF Owns, Starting
<1>2. CASE First(p, "session_json") /\ todo[p][1].session = s
  <2>1. DocDue(p, todo[p][1])
    BY <1>2 DEF SessionInv, First
  <2>2. Owns(p, s) \/ files.session_json[s] # {}
    BY <1>2, <2>1 DEF DocDue
  <2> QED
    BY <1>1, <2>2 DEF Started
<1>3. CASE FirstRow(p, "sessions") /\ todo[p][1].ref = s
  <2>1. HasDoc(s, todo[p][1].payload)
    BY <1>3 DEF SessionInv, FirstRow, RowDue
  <2> QED
    BY <2>1 DEF HasDoc, Started
<1> QED
  BY <1>1, <1>2, <1>3 DEF Busy, Writing

(* So a session stays of one shell.                                             *)
LEMMA SoleInductive ==
    TypeInv /\ ArrangedInv /\ SessionInv /\ LinkedInv /\ SoleInv /\ [Next]_vars => SoleInv'
<1> SUFFICES ASSUME TypeInv, ArrangedInv, SessionInv, LinkedInv, SoleInv, [Next]_vars
             PROVE  SoleInv'
  OBVIOUS
<1>1. ASSUME NEW p \in Shells, Step(p) PROVE SoleInv'
  <2>1. ASSUME NEW a \in Shells, NEW b \in Shells, NEW s \in SessionRefs, Busy(a, s)', Busy(b, s)'
        PROVE  a = b
    <3>1. Busy(a, s) \/ (a = p /\ s \notin Started /\ s \notin Starting)
      BY <1>1, <2>1, BusyStep
    <3>2. Busy(b, s) \/ (b = p /\ s \notin Started /\ s \notin Starting)
      BY <1>1, <2>1, BusyStep
    <3>3. (Busy(a, s) \/ Busy(b, s)) => s \in Started \/ s \in Starting
      BY BusyStarted
    <3> QED
      BY <3>1, <3>2, <3>3 DEF SoleInv
  <2> QED
    BY <2>1 DEF SoleInv
<1>2. CASE UNCHANGED others
  BY <1>2 DEF others, SoleInv, Busy, Owns, Writing, First, FirstRow
<1> QED
  BY <1>1, <1>2, NextSteps
-----------------------------------------------------------------------------
(* A document that tells the end of its session is written whole, and no shell  *)
(* has the session or writes its document any more.                             *)
Rewrites(p, s) == Owns(p, s) \/ (First(p, "session_json") /\ todo[p][1].session = s)
EndsWhole ==
    \A s \in SessionRefs : [ended |-> TRUE] \in files.session_json[s] =>
        s \notin Emptied /\ \A p \in Shells : ~Rewrites(p, s)

(* What is already there is taken up by no shell.                               *)
LEMMA RewritesStep ==
    ASSUME TypeInv, ArrangedInv, LinkedInv, NEW p \in Shells, Step(p), NEW q \in Shells,
           NEW s \in Started, Rewrites(q, s)'
    PROVE  Rewrites(q, s)
<1>1. Busy(q, s)'
  BY DEF Rewrites, Busy, Writing
<1>2. s \in SessionRefs
  BY DEF Started
<1>3. Busy(q, s)
  BY <1>1, <1>2, BusyStep
<1>4. ASSUME FirstRow(q, "sessions"), ~Rewrites(q, s) PROVE FALSE
  <2>1. todo[q] # << >> /\ todo[q][1].write # "session_json"
    BY <1>4 DEF FirstRow, RowDue
  <2>2. CASE q # p
    <3>1. todo'[q] = todo[q] /\ capture'[q] = capture[q]
      BY <2>2, OthersAlone
    <3> QED
      BY <1>4, <3>1 DEF Rewrites, Owns, First
  <2>3. CASE q = p /\ Write(p)
    <3>1. capture'[q].session = capture[q].session
      BY <2>3, WriteEffect
    <3>2. todo'[p] # << >> => todo'[p][1].write # "session_json"
      BY <2>3, NextDue
    <3> QED
      BY <1>4, <2>3, <3>1, <3>2 DEF Rewrites, Owns, First
  <2>4. CASE q = p /\ Cut(p)
    <3>1. todo'[p] = << >> /\ (capture'[p] = NoCapture \/ capture'[p] = capture[p])
      BY <2>4, CutEffect
    <3>2. NoCapture.session # {s}
      <4>1. NoCapture.session = {} /\ {} # {s}
        BY DEF NoCapture
      <4> QED
        BY <4>1
    <3> QED
      BY <1>4, <2>4, <3>1, <3>2 DEF Rewrites, Owns, First
  <2>5. CASE q = p /\ Idle(p)
    <3>1. todo' = todo /\ capture'[q].session = capture[q].session
      BY <2>5, IdleEffect
    <3> QED
      BY <1>4, <3>1 DEF Rewrites, Owns, First
  <2>6. ~Start(p) \/ q # p
    BY <2>1, StartEffect
  <2>7. ~Close(p) \/ q # p
    BY <2>1, CloseEffect
  <2>8. ~PostRunCell(p) \/ q # p
    BY <2>1, PostRunCellEffect
  <2> QED
    BY <2>2, <2>3, <2>4, <2>5, <2>6, <2>7, <2>8, StepKinds
<1> QED
  BY <1>3, <1>4 DEF Busy, Writing, Rewrites

(* At first nothing is due and no session has a shell.                          *)
LEMMA SoleInit == Init => LinkedInv /\ SoleInv
<1> SUFFICES ASSUME Init PROVE LinkedInv /\ SoleInv
  OBVIOUS
<1>1. \A p \in Shells : capture[p].session = {} /\ todo[p] = << >>
  BY DEF Init, NoCapture
<1>2. \A p \in Shells, s \in SessionRefs : ~Owns(p, s) /\ ~Writing(p, s)
  BY <1>1 DEF Owns, Writing, First, FirstRow
<1>3. SoleInv
  BY <1>2 DEF SoleInv, Busy
<1> QED
  BY <1>1, <1>3 DEF LinkedInv, Linked

(* Only a session.json that is opened is emptied.                               *)
LEMMA EmptiedStep ==
    ASSUME NEW p \in Shells, Step(p)
    PROVE  Emptied' \subseteq Emptied
<1>1. \A s : SessionJson(s) \notin HalfLine(p)
  BY DEF SessionJson, HalfLine
<1>2. torn' \subseteq torn \/ torn' = torn \cup HalfLine(p)
  BY DEF Step, Start, Close, RunCell, PostRunCell, Bind, Unbind, Mutate, WriteSessionJson,
         InsertRow, LogEvent, InsertEvent, LogLine, LogCell, InsertCell, Fail, Exit, Crash,
         CutShort, disk
<1> QED
  BY <1>1, <1>2 DEF Emptied, SessionJson

(* The document of the end is the last of its session.                          *)
LEMMA EndsInductive ==
    TypeInv /\ ArrangedInv /\ SessionInv /\ LinkedInv /\ SoleInv /\ EndsWhole /\ [Next]_vars
      => EndsWhole'
<1> SUFFICES ASSUME TypeInv, ArrangedInv, SessionInv, LinkedInv, SoleInv, EndsWhole, [Next]_vars
             PROVE  EndsWhole'
  OBVIOUS
<1>1. ASSUME NEW p \in Shells, Step(p), NEW s \in SessionRefs,
             [ended |-> TRUE] \in files'.session_json[s]
      PROVE  s \notin Emptied' /\ \A q \in Shells : ~Rewrites(q, s)'
  <2>1. CASE WriteSessionJson(p) /\ todo[p][1].session = s
    <3>1. /\ First(p, "session_json") /\ todo[p][1].doc = [ended |-> TRUE]
          /\ Head(todo[p]) = todo[p][1]
      <4>1. First(p, "session_json") /\ files'.session_json[s] = {todo[p][1].doc}
        BY <1>1, <2>1, DocsStep
      <4>2. Write(p)
        BY <2>1 DEF Write
      <4> QED
        BY <1>1, <4>1, <4>2, WriteEffect
    <3>2. s \notin Emptied'
      BY <2>1, <3>1 DEF WriteSessionJson, Emptied, SessionJson
    <3>3. Busy(p, s) /\ capture[p].session = {} /\ s \in Started
      <4>1. DocDue(p, todo[p][1]) /\ todo[p][1].doc.ended
        BY <3>1 DEF SessionInv, First
      <4> QED
        BY <2>1, <3>1, <4>1 DEF DocDue, Started, Busy, Writing
    <3>4. ASSUME NEW q \in Shells, Rewrites(q, s)' PROVE FALSE
      <4>1. Rewrites(q, s)
        BY <1>1, <3>3, <3>4, RewritesStep
      <4>2. q = p
        BY <3>3, <4>1 DEF SoleInv, Rewrites, Busy, Writing
      <4>3. Write(p)
        BY <2>1 DEF Write
      <4>4. ~Owns(p, s)'
        <5>1. capture'[p].session = {} /\ {} # {s}
          BY <3>3, <4>3, WriteEffect
        <5> QED
          BY <5>1 DEF Owns
      <4>5. todo'[p] # << >> => todo'[p][1].write # "session_json"
        BY <4>3, NextDue
      <4> QED
        BY <3>4, <4>2, <4>4, <4>5 DEF Rewrites, First
    <3> QED
      BY <3>2, <3>4
  <2>2. CASE ~(WriteSessionJson(p) /\ todo[p][1].session = s)
    <3>1. [ended |-> TRUE] \in files.session_json[s]
      BY <1>1, <2>2, DocsStep
    <3>2. s \in Started /\ s \notin Emptied /\ \A q \in Shells : ~Rewrites(q, s)
      BY <3>1 DEF Started, EndsWhole
    <3>3. s \notin Emptied'
      BY <1>1, <3>2, EmptiedStep
    <3> QED
      BY <1>1, <3>2, <3>3, RewritesStep
  <2> QED
    BY <2>1, <2>2
<1>2. ASSUME NEW p \in Shells, OpenSessionJson(p) PROVE EndsWhole'
  <2>1. /\ UNCHANGED << capture, todo, files >> /\ First(p, "session_json")
        /\ torn' = torn \cup {SessionJson(todo[p][1].session)}
    <3>1. todo[p] # << >> /\ Head(todo[p]) = todo[p][1]
      BY <1>2, DueFacts DEF OpenSessionJson, Due, TypeInv
    <3> QED
      BY <1>2, <3>1 DEF OpenSessionJson, Due, First
  <2>2. ASSUME NEW s \in SessionRefs, [ended |-> TRUE] \in files.session_json[s]
        PROVE  SessionJson(s) \notin torn' /\ \A q \in Shells : ~Rewrites(q, s)
    <3>1. SessionJson(s) \notin torn /\ \A q \in Shells : ~Rewrites(q, s)
      BY <2>2 DEF EndsWhole, Emptied
    <3>2. todo[p][1].session # s
      BY <2>1, <3>1 DEF Rewrites
    <3> QED
      BY <2>1, <3>1, <3>2 DEF SessionJson
  <2> QED
    BY <2>1, <2>2 DEF EndsWhole, Emptied, Rewrites, Owns, First
<1>3. CASE UNCHANGED vars
  BY <1>3 DEF vars, EndsWhole, Emptied, Rewrites, Owns, First
<1> QED
  BY <1>1, <1>2, <1>3 DEF Next, EndsWhole

(* IndexNotAhead is what the invariant says of the index and the files.         *)
LEMMA IndexImplies == TypeInv /\ IndexInv /\ EndsWhole => IndexNotAhead
<1> SUFFICES ASSUME TypeInv, IndexInv, EndsWhole PROVE IndexNotAhead
  OBVIOUS
<1>1. ASSUME NEW row \in index.sessions
      PROVE  \/ \E doc \in session_json(row.ref) : row.payload.ended => doc.ended
             \/ row.ref \in Emptied /\ ~row.payload.ended
  <2>1. row.ref \in SessionRefs /\ row.payload \in Docs
    BY DEF TypeInv, Typed, Indexes, SessionRows
  <2>2. PICK doc \in files.session_json[row.ref] : row.payload.ended => doc.ended
    BY DEF IndexInv, SessionsIndexed, HasDoc
  <2>3. doc \in Docs
    <3>1. files.session_json \in [SessionRefs -> {{}} \cup {{d} : d \in Docs}]
      BY DEF TypeInv, Typed, FilesSet
    <3> QED
      BY <2>1, <2>2, <3>1
  <2>4. CASE row.ref \notin Emptied
    BY <2>2, <2>4 DEF session_json
  <2>5. CASE row.ref \in Emptied
    <3>1. doc # [ended |-> TRUE]
      BY <2>1, <2>2, <2>5 DEF EndsWhole
    <3>2. ~doc.ended
      BY <2>3, <3>1 DEF Docs
    <3> QED
      BY <2>2, <2>5, <3>2
  <2> QED
    BY <2>4, <2>5
<1>2. \A row \in index.cells : \E s \in SessionRefs : row.payload \in CellsOf(s)
  BY DEF IndexInv, CellInv
<1>3. ASSUME NEW row \in index.objects
      PROVE  \E s \in SessionRefs : \E line \in LinesOf(s) :
               line.object_ref = row.ref /\ line.content = row.payload.content
  <2>1. PICK s \in SessionRefs : \E line \in LinesOf(s) :
          RowOf(Insert("objects", row.ref, row.payload), s, line)
    BY DEF IndexInv, RowsBacked, LineTables, Backed
  <2>2. PICK line \in LinesOf(s) : RowOf(Insert("objects", row.ref, row.payload), s, line)
    BY <2>1
  <2>3. row.ref = line.object_ref /\ row.payload = [content |-> line.content]
    BY <2>2 DEF RowOf, Insert
  <2>4. row.payload.content = line.content
    BY <2>3
  <2> QED
    BY <2>2, <2>3, <2>4
<1>4. ASSUME NEW row \in index.object_versions
      PROVE  \E s \in SessionRefs : \E line \in LinesOf(s) :
               << line.object_ref, line.content >> = row.ref
  <2>1. PICK s \in SessionRefs : \E line \in LinesOf(s) :
          RowOf(Insert("object_versions", row.ref, row.payload), s, line)
    BY DEF IndexInv, RowsBacked, LineTables, Backed
  <2>2. PICK line \in LinesOf(s) : RowOf(Insert("object_versions", row.ref, row.payload), s, line)
    BY <2>1
  <2> QED
    BY <2>2 DEF RowOf, Insert
<1>5. ASSUME NEW row \in index.lineage_edges
      PROVE  \E line \in LinesOf(row.payload.session_ref) :
               row.ref \in LineageEdges(line) /\ line.cell_ref = row.payload.cell_ref
  <2>1. PICK s \in SessionRefs : \E line \in LinesOf(s) :
          RowOf(Insert("lineage_edges", row.ref, row.payload), s, line)
    BY DEF IndexInv, RowsBacked, LineTables, Backed
  <2>2. PICK line \in LinesOf(s) : RowOf(Insert("lineage_edges", row.ref, row.payload), s, line)
    BY <2>1
  <2> QED
    BY <2>2 DEF RowOf, Insert
<1>6. index.events \sqsubseteq files.events_jsonl
  BY EventsLogged
<1> QED
  BY <1>1, <1>2, <1>3, <1>4, <1>5, <1>6 DEF IndexNotAhead

(* Whatever is killed or fails between any two writes or within one, and        *)
(* whichever shells write at the same time, the index holds no row or event     *)
(* that is not in the files (session.py and capture.py write the file first);   *)
(* of a session that tells no end, only an emptied session.json may be left.    *)
THEOREM NotAhead == Spec => []IndexNotAhead
<1> DEFINE Inv == IndexInv /\ LinkedInv /\ SoleInv /\ EndsWhole
<1>1. Init => TypeInv /\ Inv
  <2>1. Init => EndsWhole
    BY DEF Init, EndsWhole
  <2> QED
    BY <2>1, TypeInit, IndexInit, SoleInit
<1>2. TypeInv /\ Inv /\ [Next]_vars => (TypeInv /\ Inv)'
  BY TypeInductive, IndexInductive, LinkedInductive, SoleInductive, EndsInductive DEF IndexInv
<1>3. TypeInv /\ Inv => IndexNotAhead
  BY IndexImplies
<1> HIDE DEF Inv
<1> QED
  BY <1>1, <1>2, <1>3, PTL DEF Spec

(* While nothing is cut short, only a session.json that is being written is     *)
(* torn.                                                                        *)
TornCalm ==
    Calm => \A file \in torn : \E p \in Shells :
        First(p, "session_json") /\ file = SessionJson(todo[p][1].session)
(* Its next write makes it whole.                                               *)
LEMMA TornCalmInductive == TypeInv /\ TornCalm /\ [Next]_vars => TornCalm'
<1> SUFFICES ASSUME TypeInv, TornCalm, [Next]_vars, Calm', NEW file \in torn'
             PROVE  \E p \in Shells :
                      First(p, "session_json")' /\ file = SessionJson(todo'[p][1].session)
  BY DEF TornCalm, SessionJson, First
<1>1. ASSUME NEW p \in Shells, Step(p)
      PROVE  \E q \in Shells :
               First(q, "session_json")' /\ file = SessionJson(todo'[q][1].session)
  <2>1. Calm /\ ~Fail(p) /\ ~Crash(p)
    BY <1>1, CalmStep
  <2>2. file \in torn
    BY <1>1, <2>1 DEF Step, Start, Close, RunCell, PostRunCell, Bind, Unbind, Mutate,
       WriteSessionJson, InsertRow, LogEvent, InsertEvent, LogLine, LogCell, InsertCell, Exit, disk
  <2>3. PICK q \in Shells : First(q, "session_json") /\ file = SessionJson(todo[q][1].session)
    BY <2>1, <2>2 DEF TornCalm
  <2>4. ~(q = p /\ Write(p))
    <3>1. ASSUME q = p, Write(p) PROVE FALSE
      <4>1. WriteSessionJson(p) /\ Head(todo[p]) = todo[p][1]
        BY <2>3, <3>1, WriteKind, WriteEffect
      <4>2. torn' = torn \ {SessionJson(todo[p][1].session)}
        BY <4>1 DEF WriteSessionJson
      <4> QED
        BY <2>3, <3>1, <4>2
    <3> QED
      BY <3>1
  <2>5. todo'[q] = todo[q]
    BY <1>1, <2>3, <2>4, DueKept DEF First
  <2> QED
    BY <2>3, <2>5 DEF First
<1>2. ASSUME NEW p \in Shells, OpenSessionJson(p)
      PROVE  \E q \in Shells :
               First(q, "session_json")' /\ file = SessionJson(todo'[q][1].session)
  <2>1. /\ todo' = todo /\ Calm' = Calm /\ First(p, "session_json")
        /\ torn' = torn \cup {SessionJson(todo[p][1].session)}
    <3>1. todo[p] # << >> /\ Head(todo[p]) = todo[p][1]
      BY <1>2, DueFacts DEF OpenSessionJson, Due, TypeInv
    <3> QED
      BY <1>2, <3>1 DEF OpenSessionJson, Due, First, Calm, counts
  <2> QED
    BY <2>1 DEF TornCalm, First
<1>3. CASE UNCHANGED vars
  BY <1>3 DEF vars, TornCalm, Calm, First
<1> QED
  BY <1>1, <1>2, <1>3 DEF Next

-----------------------------------------------------------------------------
(* Sessions: the row that is due is of the document; while nothing is cut       *)
(* short, a document has its row or the row is due.                             *)
DocRowDue == \A p \in Shells : FirstRow(p, "sessions") =>
                files.session_json[todo[p][1].ref] = {todo[p][1].payload}
HasRow(s, doc) ==
    \/ Row(s, doc) \in index.sessions
    \/ \E p \in Shells : todo[p] # << >> /\ todo[p][1] = Insert("sessions", s, doc)
DocsInv ==
    /\ DocRowDue
    /\ Calm => \A s \in SessionRefs : \A doc \in files.session_json[s] : HasRow(s, doc)

(* No other shell writes the document in between.                               *)
LEMMA DocRowKept ==
    ASSUME TypeInv, ArrangedInv, LinkedInv, SoleInv, DocRowDue, NEW p \in Shells, Step(p)
    PROVE  DocRowDue'
<1> SUFFICES ASSUME NEW q \in Shells, FirstRow(q, "sessions")'
             PROVE  files'.session_json[todo'[q][1].ref] = {todo'[q][1].payload}
  BY DEF DocRowDue
<1> DEFINE w == todo[q][1]
           v == todo'[q][1]
<1>1. CASE todo'[q] = todo[q]
  <2>1. FirstRow(q, "sessions") /\ w = v /\ w \in Writes
    <3>1. todo'[q] # << >> /\ RowDue(v, "sessions")
      BY DEF FirstRow
    <3>2. todo[q] # << >>
      BY <1>1, <3>1
    <3> QED
      BY <1>1, <3>1, <3>2, DueFacts DEF FirstRow, TypeInv
  <2>2. w.ref \in SessionRefs
    <3>1. w.write = "insert" /\ w.table = "sessions"
      BY <2>1 DEF FirstRow, RowDue
    <3> QED
      BY <2>1, <3>1, WriteShapes DEF SessionRows
  <2>3. files.session_json[w.ref] = {w.payload}
    BY <2>1 DEF DocRowDue
  <2>4. files'.session_json[w.ref] = files.session_json[w.ref]
    <3>1. CASE WriteSessionJson(p)
      <4>1. /\ First(p, "session_json") /\ todo[p][1].session \in SessionRefs
            /\ \A s \in SessionRefs \ {todo[p][1].session} :
                 files'.session_json[s] = files.session_json[s]
        BY <3>1, DocsStep
      <4>2. ASSUME todo[p][1].session = w.ref PROVE FALSE
        <5>1. Busy(p, w.ref) /\ Busy(q, w.ref)
          BY <2>1, <4>1, <4>2 DEF Busy, Writing
        <5>2. p = q
          BY <2>2, <5>1 DEF SoleInv
        <5> QED
          BY <2>1, <4>1, <5>2 DEF First, FirstRow, RowDue
      <4> QED
        BY <2>2, <4>1, <4>2
    <3>2. CASE ~WriteSessionJson(p)
      BY <3>2, DocsStep
    <3> QED
      BY <3>1, <3>2
  <2> QED
    BY <2>1, <2>3, <2>4
<1>2. CASE todo'[q] # todo[q]
  <2>1. q = p
    BY <1>2, OthersAlone
  <2>2. todo'[q] # << >> /\ RowDue(v, "sessions")
    BY DEF FirstRow
  <2>3. Write(p)
    BY <1>2, <2>1, <2>2, Starts DEF RowDue
  <2>4. w.write = "session_json" /\ v = Insert("sessions", w.session, w.doc)
    BY <2>1, <2>2, <2>3, NextDue
  <2>5. WriteSessionJson(p)
    BY <2>1, <2>3, <2>4, WriteEffect, WriteKind DEF First
  <2>6. files'.session_json[w.session] = {w.doc}
    BY <2>1, <2>5, DocsStep
  <2> QED
    BY <2>4, <2>6 DEF Insert
<1> QED
  BY <1>1, <1>2

(* A document is written just before its row.                                   *)
LEMMA DocHasRow ==
    ASSUME TypeInv, ArrangedInv, LinkedInv, DocsInv, NEW p \in Shells, Step(p), Calm',
           NEW s \in SessionRefs, NEW doc, doc \in files'.session_json[s]
    PROVE  HasRow(s, doc)'
<1> DEFINE w == todo[p][1]
<1>1. CASE WriteSessionJson(p) /\ w.session = s
  <2>1. Write(p) /\ First(p, "session_json") /\ files'.session_json[s] = {w.doc}
    BY <1>1, DocsStep DEF Write
  <2>2. todo'[p] # << >>
    BY <2>1, MoreDue DEF First
  <2>3. todo'[p][1] = Insert("sessions", w.session, w.doc)
    BY <2>1, <2>2, NextDue DEF First
  <2>4. doc = w.doc
    BY <2>1
  <2> QED
    BY <1>1, <2>2, <2>3, <2>4 DEF HasRow
<1>2. CASE ~(WriteSessionJson(p) /\ w.session = s)
  <2>1. doc \in files.session_json[s]
    BY <1>2, DocsStep
  <2>2. HasRow(s, doc)
    BY <2>1, CalmStep DEF DocsInv
  <2>3. CASE Row(s, doc) \in index.sessions
    <3>1. CASE ~Putting(p, "sessions")
      <4>1. index'.sessions = index.sessions
        BY <3>1, TablesStep
      <4> QED
        BY <2>3, <4>1 DEF HasRow
    <3>2. CASE Putting(p, "sessions")
      <4>1. FirstRow(p, "sessions") /\ index'.sessions = WithRow(index.sessions, w.ref, w.payload)
        BY <3>2, TablesStep
      <4>2. ASSUME w.ref = s PROVE w.payload = doc
        <5>1. files.session_json[w.ref] = {w.payload}
          BY <4>1 DEF DocsInv, DocRowDue
        <5>2. doc \in {w.payload}
          BY <2>1, <4>2, <5>1, Zenon
        <5> QED
          BY <5>2
      <4>3. Row(s, doc) \in index'.sessions
        BY <2>3, <4>1, <4>2 DEF WithRow, Row
      <4> QED
        BY <4>3 DEF HasRow
    <3> QED
      BY <3>1, <3>2
  <2>4. ASSUME NEW q \in Shells, todo[q] # << >>, todo[q][1] = Insert("sessions", s, doc)
        PROVE  HasRow(s, doc)'
    <3>1. CASE todo'[q] = todo[q]
      BY <2>4, <3>1 DEF HasRow
    <3>2. CASE q = p /\ Write(p)
      <4>1. w.write = "insert" /\ w.table = "sessions" /\ w.ref = s /\ w.payload = doc
        BY <2>4, <3>2 DEF Insert
      <4>2. Putting(p, "sessions")
        BY <2>4, <3>2, <4>1, WriteKind DEF First, Putting
      <4>3. index'.sessions = WithRow(index.sessions, s, doc)
        BY <4>1, <4>2, TablesStep
      <4>4. Row(s, doc) \in index'.sessions
        BY <4>3 DEF WithRow
      <4> QED
        BY <4>4 DEF HasRow
    <3> QED
      BY <2>4, <3>1, <3>2, DueKept
  <2> QED
    BY <2>2, <2>3, <2>4 DEF HasRow
<1> QED
  BY <1>1, <1>2

(* Every step.                                                                  *)
LEMMA DocsInductive ==
    TypeInv /\ ArrangedInv /\ LinkedInv /\ SoleInv /\ DocsInv /\ [Next]_vars => DocsInv'
<1> SUFFICES ASSUME TypeInv, ArrangedInv, LinkedInv, SoleInv, DocsInv, [Next]_vars
             PROVE  DocsInv'
  OBVIOUS
<1>1. ASSUME NEW p \in Shells, Step(p) PROVE DocsInv'
  <2>1. DocRowDue'
    BY <1>1, DocRowKept DEF DocsInv
  <2>2. ASSUME Calm', NEW s \in SessionRefs, NEW doc, doc \in files'.session_json[s]
        PROVE  HasRow(s, doc)'
    BY <1>1, <2>2, DocHasRow
  <2> QED
    BY <2>1, <2>2 DEF DocsInv
<1>2. CASE UNCHANGED others
  BY <1>2 DEF others, DocsInv, DocRowDue, HasRow, Calm, FirstRow
<1> QED
  BY <1>1, <1>2, NextSteps

-----------------------------------------------------------------------------
(* Events: while nothing is cut short, the file has no more copies of an event  *)
(* than the index, except the one that is due.                                  *)
RowOfEventDue(e) == \E p \in Shells : todo[p] # << >> /\ todo[p][1] = EventRow(e)
EventsEven ==
    Calm => \A e \in Events :
        IF RowOfEventDue(e)
        THEN Copies(e, files.events_jsonl) = Copies(e, index.events) + 1
        ELSE Copies(e, files.events_jsonl) = Copies(e, index.events)

(* The session of an event is of one shell, so one row of it is due at a time.  *)
LEMMA EventsEvenInductive ==
    TypeInv /\ ArrangedInv /\ LinkedInv /\ Disjoint /\ EventInv /\ EventsEven /\ [Next]_vars
        => EventsEven'
<1> SUFFICES ASSUME TypeInv, ArrangedInv, LinkedInv, Disjoint, EventInv, EventsEven, [Next]_vars
             PROVE  EventsEven'
  OBVIOUS
<1>1. ASSUME NEW p \in Shells, Step(p), Calm', NEW e \in Events
      PROVE  IF RowOfEventDue(e)'
             THEN Copies(e, files'.events_jsonl) = Copies(e, index'.events) + 1
             ELSE Copies(e, files'.events_jsonl) = Copies(e, index'.events)
  <2> DEFINE w == todo[p][1]
             N == Copies(e, files.events_jsonl)
             M == Copies(e, index.events)
  <2>1. /\ N \in Nat /\ M \in Nat
        /\ Copies(e, files'.events_jsonl) = N + (IF LogEvent(p) /\ w.event = e THEN 1 ELSE 0)
        /\ Copies(e, index'.events) = M + (IF InsertEvent(p) /\ w.event = e THEN 1 ELSE 0)
    BY <1>1, NewEvents
  <2>2. IF RowOfEventDue(e) THEN N = M + 1 ELSE N = M
    BY <1>1, CalmStep DEF EventsEven
  <2>3. ASSUME NEW a \in Shells, NEW b \in Shells, todo[a] # << >>, todo[b] # << >>,
               todo[a][1].write \in {"log_event", "insert_event"},
               todo[b][1].write \in {"log_event", "insert_event"},
               todo[a][1].event = e, todo[b][1].event = e
        PROVE  a = b
    <3>1. 1 \in 1 .. Len(todo[a]) /\ 1 \in 1 .. Len(todo[b])
      BY <2>3, DueFacts DEF TypeInv
    <3>2. Owns(a, e[2]) /\ Owns(b, e[2]) /\ e[2] \in SessionRefs
      BY <2>3, <3>1 DEF EventInv, Events
    <3> QED
      BY <3>2 DEF Disjoint
  <2> HIDE DEF N, M
  <2>4. CASE LogEvent(p) /\ w.event = e
    <3>1. Write(p) /\ First(p, "log_event")
      BY <2>4, WriteKind DEF Write
    <3>2. todo'[p] # << >>
      BY <3>1, MoreDue DEF First
    <3>3. todo'[p][1] = EventRow(e)
      BY <2>4, <3>1, <3>2, NextDue DEF First
    <3>4. RowOfEventDue(e)'
      BY <3>2, <3>3 DEF RowOfEventDue
    <3>5. ~RowOfEventDue(e)
      <4>1. ASSUME NEW q \in Shells, todo[q] # << >>, todo[q][1] = EventRow(e)
            PROVE  FALSE
        <5>1. todo[q][1].write = "insert_event" /\ todo[q][1].event = e
          BY <4>1 DEF EventRow
        <5>2. todo[p] # << >> /\ w.write = "log_event"
          BY <3>1 DEF First
        <5>3. q = p
          BY <2>3, <2>4, <4>1, <5>1, <5>2
        <5> QED
          BY <5>1, <5>2, <5>3
      <4> QED
        BY <4>1 DEF RowOfEventDue
    <3>6. ~InsertEvent(p)
      BY <3>1, WriteKind DEF First
    <3> QED
      BY <2>1, <2>2, <2>4, <3>4, <3>5, <3>6
  <2>5. CASE InsertEvent(p) /\ w.event = e
    <3>1. Write(p) /\ First(p, "insert_event")
      BY <2>5, WriteKind DEF Write
    <3>2. w = EventRow(e)
      <4>1. todo[p] # << >> /\ w \in Writes /\ w.write = "insert_event"
        BY <3>1, WriteEffect DEF First
      <4>2. w \in EventWrites
        BY <4>1 DEF Writes, DocWrites, RowWrite, LineWrites, LineRowWrites, CellWrites, Insert
      <4> QED
        BY <2>5, <4>1, <4>2 DEF EventWrites, EventRow
    <3>3. RowOfEventDue(e)
      BY <3>1, <3>2 DEF RowOfEventDue, First
    <3>4. ~RowOfEventDue(e)'
      <4>1. ASSUME NEW q \in Shells, todo'[q] # << >>, todo'[q][1] = EventRow(e)
            PROVE  FALSE
        <5>1. CASE q = p
          <6>1. todo'[q][1].write = "insert_event" /\ todo'[q][1].event = e
            BY <4>1 DEF EventRow
          <6>2. w = EventLog(e)
            BY <3>1, <4>1, <5>1, <6>1, NextDue
          <6> QED
            BY <3>2, <6>2 DEF EventLog, EventRow
        <5>2. CASE q # p
          <6>1. todo'[q] = todo[q]
            BY <1>1, <5>2, OthersAlone
          <6>2. /\ todo[q][1].write = "insert_event" /\ todo[q][1].event = e /\ todo[q] # << >>
                /\ w.write = "insert_event" /\ todo[p] # << >>
            BY <3>1, <4>1, <6>1 DEF EventRow, First
          <6>3. q = p
            BY <2>3, <2>5, <6>2
          <6> QED
            BY <5>2, <6>3
        <5> QED
          BY <5>1, <5>2
      <4> QED
        BY <4>1 DEF RowOfEventDue
    <3>5. ~LogEvent(p)
      BY <3>1, WriteKind DEF First
    <3> QED
      BY <2>1, <2>2, <2>5, <3>3, <3>4, <3>5
  <2>6. CASE ~(LogEvent(p) /\ w.event = e) /\ ~(InsertEvent(p) /\ w.event = e)
    <3>1. RowOfEventDue(e) => RowOfEventDue(e)'
      <4>1. ASSUME NEW q \in Shells, todo[q] # << >>, todo[q][1] = EventRow(e)
            PROVE  todo'[q] = todo[q]
        <5>1. CASE q = p /\ Write(p)
          <6>1. w.write = "insert_event" /\ w.event = e
            BY <4>1, <5>1 DEF EventRow
          <6>2. InsertEvent(p)
            BY <4>1, <5>1, <6>1, WriteKind DEF First
          <6> QED
            BY <2>6, <6>1, <6>2
        <5> QED
          BY <1>1, <4>1, <5>1, DueKept
      <4> QED
        BY <4>1 DEF RowOfEventDue
    <3>2. RowOfEventDue(e)' => RowOfEventDue(e)
      <4>1. ASSUME NEW q \in Shells, todo'[q] # << >>, todo'[q][1] = EventRow(e)
            PROVE  todo'[q] = todo[q]
        <5>1. CASE q # p
          BY <1>1, <5>1, OthersAlone
        <5>2. CASE q = p /\ Write(p)
          <6>1. todo'[q][1].write = "insert_event" /\ todo'[q][1].event = e
            BY <4>1 DEF EventRow
          <6>2. w = EventLog(e)
            BY <4>1, <5>2, <6>1, NextDue
          <6>3. todo[p] # << >> /\ w.write = "log_event" /\ w.event = e
            BY <5>2, <6>2, WriteEffect DEF EventLog
          <6>4. LogEvent(p)
            BY <5>2, <6>3, WriteKind DEF First
          <6> QED
            BY <2>6, <6>3, <6>4
        <5>3. CASE q = p /\ ~Write(p)
          BY <1>1, <4>1, <5>3, Starts DEF EventRow
        <5> QED
          BY <5>1, <5>2, <5>3
      <4> QED
        BY <4>1 DEF RowOfEventDue
    <3> QED
      BY <2>1, <2>2, <2>6, <3>1, <3>2
  <2> QED
    BY <2>4, <2>5, <2>6
<1>2. ASSUME NEW p \in Shells, Step(p) PROVE EventsEven'
  BY <1>1, <1>2 DEF EventsEven
<1>3. CASE UNCHANGED others
  BY <1>3 DEF others, EventsEven, RowOfEventDue, Calm
<1> QED
  BY <1>2, <1>3, NextSteps
-----------------------------------------------------------------------------
(* A shell with something due writes it next, if nothing is cut short.          *)
LEMMA DueWrites ==
    ASSUME TypeInv, NEW p \in Shells, Step(p), Calm', todo[p] # << >>
    PROVE  Write(p)
<1>1. ~Start(p) /\ ~Close(p) /\ ~PostRunCell(p) /\ ~Exit(p)
  BY DEF Start, Close, PostRunCell, Exit, Hooked
<1>2. ~Idle(p)
  BY DEF Idle, RunCell, Bind, Unbind, Mutate, Hooked
<1>3. ~Fail(p) /\ ~Crash(p)
  BY CalmStep
<1> QED
  BY <1>1, <1>2, <1>3, StepKinds DEF Cut

(* While one session has a document, a shell with more than a document to write *)
(* has that session.                                                            *)
LEMMA TheSession ==
    ASSUME TypeInv, SessionInv, HeldInv, NEW t \in SessionRefs, Started \subseteq {t},
           NEW p \in Shells, todo[p] # << >>, ~SessionWrite(todo[p][1])
    PROVE  Owns(p, t)
<1>1. capture[p].session # {}
  <2>1. 1 \in 1 .. Len(todo[p])
    BY DueFacts DEF TypeInv
  <2> QED
    BY <2>1 DEF HeldInv
<1>2. PICK s \in SessionRefs : capture[p].session = {s}
  BY <1>1, CaptureFacts DEF TypeInv
<1>3. files.session_json[s] # {}
  BY <1>2 DEF SessionInv, Owns, SessionWrite
<1>4. s \in Started
  BY <1>3 DEF Started
<1> QED
  BY <1>2, <1>4 DEF Owns

(* A session that has a document keeps it.                                      *)
LEMMA StartedKept ==
    ASSUME TypeInv, SessionInv, NEW p \in Shells, Step(p)
    PROVE  Started \subseteq Started'
  BY DocsKept DEF Started

-----------------------------------------------------------------------------
(* Cells: while nothing is cut short, a logged cell of the only session has its *)
(* row or the row is due.                                                       *)
CellRowDue(c, t) ==
    \E p \in Shells : First(p, "insert_cell") /\ Owns(p, t) /\ CellRecord(p) = c
CellsRestored ==
    Calm => \A t \in SessionRefs : Started \subseteq {t} => \A c \in CellsOf(t) :
        Row(c.cell_ref, c) \in index.cells \/ CellRowDue(c, t)

(* A cell number is logged with one list of refs: all that the log has for it.  *)
LEMMA OneCell ==
    ASSUME TypeInv, CommitInv, failures = 0, NEW t \in SessionRefs,
           NEW c \in CellsOf(t), NEW d \in CellsOf(t), c.cell_ref = d.cell_ref
    PROVE  c = d
<1>1. c \in Cells /\ d \in Cells
  BY DEF TypeInv, Typed, FilesSet, CellsOf, Range
<1>2. /\ c.session_ref = t /\ Complete(t, c.cell_ref, c.created_object_refs, c.mutated_object_refs)
      /\ d.session_ref = t /\ Complete(t, d.cell_ref, d.created_object_refs, d.mutated_object_refs)
  BY DEF CommitInv
<1>3. /\ c.created_object_refs = d.created_object_refs
      /\ c.mutated_object_refs = d.mutated_object_refs
  BY <1>2 DEF Complete
<1> QED
  BY <1>1, <1>2, <1>3 DEF Cells

(* The record of the cell does not change while it is logged or indexed.        *)
LEMMA RecordKept ==
    ASSUME NEW p \in Shells, LogCell(p) \/ InsertCell(p)
    PROVE  CellRecord(p)' = CellRecord(p) /\ capture' = capture
  BY DEF LogCell, InsertCell, CellRecord, Current, Ref

(* A logged cell is followed by its row; a later row of its number is the same. *)
LEMMA CellsRestoredStep ==
    ASSUME TypeInv, ArrangedInv, LinkedInv, SessionInv, CountInv, CommitInv, CellInv, CellsRestored,
           NEW p \in Shells, Step(p), Calm', NEW t \in SessionRefs, Started' \subseteq {t},
           NEW c, c \in CellsOf(t)'
    PROVE  Row(c.cell_ref, c) \in index'.cells \/ CellRowDue(c, t)'
<1>1. Started \subseteq {t} /\ Calm
  BY StartedKept, CalmStep
<1>2. CASE c \notin CellsOf(t)
  <2>1. LogCell(p) /\ Owns(p, t) /\ c = CellRecord(p)
    BY <1>2, NewLines
  <2>2. Write(p) /\ First(p, "log_cell")
    BY <2>1, WriteKind DEF Write
  <2>3. todo'[p] # << >>
    BY <2>2, MoreDue DEF First
  <2>4. todo'[p][1].write = "insert_cell"
    BY <2>2, <2>3, NextDue DEF First
  <2>5. CellRecord(p)' = c /\ capture' = capture
    BY <2>1, RecordKept
  <2>6. Owns(p, t)'
    BY <2>1, <2>5 DEF Owns
  <2> QED
    BY <2>3, <2>4, <2>5, <2>6 DEF CellRowDue, First
<1>3. CASE c \in CellsOf(t) /\ Row(c.cell_ref, c) \in index.cells
  <2>1. CASE ~InsertCell(p)
    BY <1>3, <2>1, CellsStep
  <2>2. CASE InsertCell(p)
    <3> DEFINE d == CellRecord(p)
    <3>1. First(p, "insert_cell") /\ index'.cells = WithRow(index.cells, d.cell_ref, d)
      BY <2>2, CellsStep
    <3>2. PICK s \in SessionRefs : d \in CellsOf(s)
      BY <3>1 DEF CellInv, CellLogged, First
    <3>3. s \in Started
      BY <3>2, LoggedStarted
    <3>4. d \in CellsOf(t)
      BY <1>1, <3>2, <3>3
    <3>5. failures = 0
      BY <1>1 DEF Calm
    <3> HIDE DEF d
    <3>6. c.cell_ref = d.cell_ref => c = d
      BY <1>3, <3>4, <3>5, OneCell
    <3> QED
      BY <1>3, <3>1, <3>6 DEF WithRow, Row
  <2> QED
    BY <2>1, <2>2
<1>4. ASSUME NEW q \in Shells, First(q, "insert_cell"), Owns(q, t), CellRecord(q) = c
      PROVE  Row(c.cell_ref, c) \in index'.cells \/ CellRowDue(c, t)'
  <2>1. CASE q # p
    <3>1. todo'[q] = todo[q] /\ capture'[q] = capture[q]
      BY <2>1, OthersAlone
    <3>2. First(q, "insert_cell")' /\ Owns(q, t)' /\ CellRecord(q)' = CellRecord(q)
      BY <1>4, <3>1 DEF First, Owns, CellRecord, Current, Ref
    <3> QED
      BY <1>4, <3>2 DEF CellRowDue
  <2>2. CASE q = p
    <3>1. InsertCell(p)
      BY <1>4, <2>2, DueWrites, WriteKind DEF First
    <3>2. index'.cells = WithRow(index.cells, c.cell_ref, c)
      BY <1>4, <2>2, <3>1, CellsStep
    <3> QED
      BY <3>2 DEF WithRow
  <2> QED
    BY <2>1, <2>2
<1> QED
  BY <1>1, <1>2, <1>3, <1>4 DEF CellsRestored, CellRowDue

(* Every step.                                                                  *)
LEMMA CellsRestoredInductive ==
    /\ TypeInv /\ ArrangedInv /\ LinkedInv /\ SessionInv /\ CountInv /\ CommitInv /\ CellInv
    /\ CellsRestored /\ [Next]_vars
    => CellsRestored'
<1> SUFFICES ASSUME TypeInv, ArrangedInv, LinkedInv, SessionInv, CountInv, CommitInv, CellInv,
                    CellsRestored, [Next]_vars
             PROVE  CellsRestored'
  OBVIOUS
<1>1. ASSUME NEW p \in Shells, Step(p) PROVE CellsRestored'
  <2>1. ASSUME Calm', NEW t \in SessionRefs, Started' \subseteq {t}, NEW c, c \in CellsOf(t)'
        PROVE  Row(c.cell_ref, c) \in index'.cells \/ CellRowDue(c, t)'
    BY <1>1, <2>1, CellsRestoredStep
  <2> QED
    BY <2>1 DEF CellsRestored
<1>2. CASE UNCHANGED others
  <2>1. /\ Calm' = Calm /\ Started' = Started /\ index' = index
        /\ \A t : CellsOf(t)' = CellsOf(t)
    BY <1>2 DEF others, Calm, Started, CellsOf
  <2>2. \A p \in Shells : CellRecord(p)' = CellRecord(p)
    BY <1>2 DEF others, CellRecord, Current, Ref
  <2>3. \A c, t : CellRowDue(c, t)' = CellRowDue(c, t)
    BY <1>2, <2>2 DEF others, CellRowDue, First, Owns
  <2> QED
    BY <2>1, <2>3 DEF CellsRestored
<1> QED
  BY <1>1, <1>2, NextSteps

-----------------------------------------------------------------------------
(* Edges: while nothing is cut short, each edge of a line that registers an     *)
(* object is in the index or due.                                               *)
EdgesRestored ==
    Calm => \A s \in SessionRefs : \A line \in LinesOf(s) :
        line.event = "object_registered" => \A e \in LineageEdges(line) :
            \/ e \in RefsOf(index.lineage_edges)
            \/ \E p \in Shells : \E j \in 1 .. Len(todo[p]) : EdgeDue(todo[p][j], e)

(* A line is followed by its edges, and a row is never deleted.                 *)
LEMMA EdgesRestoredStep ==
    ASSUME TypeInv, LinkedInv, EdgesRestored, NEW p \in Shells, Step(p), Calm',
           NEW s \in SessionRefs, NEW line, line \in LinesOf(s)', line.event = "object_registered",
           NEW e \in LineageEdges(line)
    PROVE  \/ e \in RefsOf(index'.lineage_edges)
           \/ \E q \in Shells : \E j \in 1 .. Len(todo'[q]) : EdgeDue(todo'[q][j], e)
<1> DEFINE w == todo[p][1]
<1>1. CASE line \notin LinesOf(s)
  <2>1. LogLine(p) /\ line = w.line
    BY <1>1, NewLines
  <2>2. Write(p) /\ First(p, "log_line")
    BY <2>1, WriteKind DEF Write
  <2>3. /\ todo[p] # << >> /\ Len(todo[p]) \in Nat /\ Len(todo[p]) > 0
        /\ Len(todo'[p]) = Len(todo[p]) - 1 /\ Registered1(w)
        /\ \A i \in 1 .. Len(todo'[p]) : todo'[p][i] = todo[p][i + 1]
    BY <2>1, <2>2, WriteEffect DEF Registered1, First
  <2>4. Followed(todo[p], 1)
    <3>1. 1 \in 1 .. Len(todo[p])
      BY <2>3
    <3> QED
      BY <3>1 DEF LinkedInv, Linked
  <2>5. PICK j \in 2 .. Len(todo[p]) : EdgeDue(todo[p][j], e)
    BY <2>1, <2>3, <2>4 DEF Followed
  <2>6. j - 1 \in 1 .. Len(todo'[p]) /\ (j - 1) + 1 = j
    BY <2>3
  <2>7. EdgeDue(todo'[p][j - 1], e)
    BY <2>3, <2>5, <2>6
  <2> QED
    BY <2>6, <2>7
<1>2. CASE e \in RefsOf(index.lineage_edges)
  <2>1. \/ index'.lineage_edges = index.lineage_edges
        \/ index'.lineage_edges = WithRow(index.lineage_edges, w.ref, w.payload)
    BY TablesStep
  <2>2. PICK row \in index.lineage_edges : row.ref = e
    BY <1>2 DEF RefsOf
  <2>3. \E new \in index'.lineage_edges : new.ref = e
    <3>1. CASE index'.lineage_edges = index.lineage_edges
      BY <2>2, <3>1
    <3>2. CASE index'.lineage_edges = WithRow(index.lineage_edges, w.ref, w.payload)
      <4>1. w.ref # e => row \in index'.lineage_edges
        BY <2>2, <3>2 DEF WithRow
      <4>2. /\ Row(w.ref, w.payload) \in index'.lineage_edges
            /\ Row(w.ref, w.payload).ref = w.ref
        BY <3>2 DEF WithRow, Row
      <4> QED
        BY <2>2, <4>1, <4>2
    <3> QED
      BY <2>1, <3>1, <3>2
  <2>4. e \in RefsOf(index'.lineage_edges)
    BY <2>3 DEF RefsOf
  <2> QED
    BY <2>4
<1>3. ASSUME NEW q \in Shells, NEW j \in 1 .. Len(todo[q]), EdgeDue(todo[q][j], e)
      PROVE  \/ e \in RefsOf(index'.lineage_edges)
             \/ \E r \in Shells : \E k \in 1 .. Len(todo'[r]) : EdgeDue(todo'[r][k], e)
  <2>1. CASE q # p
    <3>1. todo'[q] = todo[q]
      BY <2>1, OthersAlone
    <3> QED
      BY <1>3, <3>1
  <2>2. CASE q = p
    <3>1. todo[p] # << >>
      <4>1. todo[p] \in Seq(Writes) /\ Len(todo[p]) # 0
        BY <1>3, <2>2 DEF TypeInv, Typed
      <4> QED
        BY <4>1, EmptyByLength
    <3>2. Write(p)
      BY <3>1, DueWrites
    <3>3. /\ Len(todo[p]) \in Nat /\ Len(todo'[p]) = Len(todo[p]) - 1
          /\ \A i \in 1 .. Len(todo'[p]) : todo'[p][i] = todo[p][i + 1]
      BY <3>2, WriteEffect
    <3>4. CASE j = 1
      <4>1. Putting(p, "lineage_edges") /\ w.ref = e
        BY <1>3, <2>2, <3>1, <3>2, <3>4, WriteKind DEF EdgeDue, First, Putting
      <4>2. index'.lineage_edges = WithRow(index.lineage_edges, e, w.payload)
        BY <4>1, TablesStep
      <4>3. e \in RefsOf(index'.lineage_edges)
        BY <4>2 DEF RefsOf, WithRow, Row
      <4> QED
        BY <4>3
    <3>5. CASE j # 1
      <4>1. j - 1 \in 1 .. Len(todo'[p]) /\ (j - 1) + 1 = j
        BY <1>3, <2>2, <3>3, <3>5
      <4>2. EdgeDue(todo'[p][j - 1], e)
        BY <1>3, <2>2, <3>3, <4>1
      <4> QED
        BY <4>1, <4>2
    <3> QED
      BY <3>4, <3>5
  <2> QED
    BY <2>1, <2>2
<1> QED
  BY <1>1, <1>2, <1>3, CalmStep DEF EdgesRestored

(* Every step.                                                                  *)
LEMMA EdgesRestoredInductive ==
    TypeInv /\ LinkedInv /\ EdgesRestored /\ [Next]_vars => EdgesRestored'
<1> SUFFICES ASSUME TypeInv, LinkedInv, EdgesRestored, [Next]_vars PROVE EdgesRestored'
  OBVIOUS
<1>1. ASSUME NEW p \in Shells, Step(p) PROVE EdgesRestored'
  BY <1>1, EdgesRestoredStep DEF EdgesRestored
<1>2. CASE UNCHANGED others
  BY <1>2 DEF others, EdgesRestored, Calm, LinesOf
<1> QED
  BY <1>1, <1>2, NextSteps
-----------------------------------------------------------------------------
(* The rows of objects that a log gives: of each ref, the last line registering *)
(* it.                                                                          *)
RegisteredAt(log) == { i \in 1 .. Len(log) : log[i].event = "object_registered" }
LastAt(log) == { i \in RegisteredAt(log) :
                   \A j \in RegisteredAt(log) : i < j => log[j].object_ref # log[i].object_ref }
ObjectRow(line) == Row(line.object_ref, [content |-> line.content])
Latest(log) == { ObjectRow(log[i]) : i \in LastAt(log) }

(* A line that registers an object replaces the row of its ref.                 *)
LEMMA LatestAppend ==
    ASSUME NEW log \in Seq(Lines), NEW line \in Lines
    PROVE  Latest(Append(log, line)) =
             IF line.event = "object_registered"
             THEN WithRow(Latest(log), line.object_ref, [content |-> line.content])
             ELSE Latest(log)
<1> DEFINE n == Len(log)
           more == Append(log, line)
<1>1. /\ n \in Nat /\ Len(more) = n + 1 /\ more[n + 1] = line
      /\ \A i \in 1 .. n : more[i] = log[i] /\ i \in 1 .. n + 1
      /\ \A i \in 1 .. n + 1 : i \in 1 .. n \/ i = n + 1
  OBVIOUS
<1> HIDE DEF more
<1>2. \A i \in RegisteredAt(log) : i \in 1 .. n /\ i < n + 1 /\ i # n + 1 /\ ~(n + 1 < i)
  BY <1>1 DEF RegisteredAt
<1> HIDE DEF n
<1>3. CASE line.event # "object_registered"
  <2>1. RegisteredAt(more) = RegisteredAt(log)
    BY <1>1, <1>2, <1>3 DEF RegisteredAt, n
  <2>2. LastAt(more) = LastAt(log)
    BY <1>1, <1>2, <2>1 DEF LastAt
  <2>3. \A i \in LastAt(log) : more[i] = log[i]
    BY <1>1, <1>2 DEF LastAt
  <2>4. Latest(more) = Latest(log)
    BY <2>2, <2>3 DEF Latest
  <2> QED
    BY <1>3, <2>4 DEF more
<1>4. CASE line.event = "object_registered"
  <2>1. /\ \A i \in RegisteredAt(log) : i \in RegisteredAt(more) /\ more[i] = log[i]
        /\ n + 1 \in RegisteredAt(more)
        /\ \A i \in RegisteredAt(more) : i \in RegisteredAt(log) \/ i = n + 1
    BY <1>1, <1>2, <1>4 DEF RegisteredAt, n
  <2>2. n + 1 \in LastAt(more)
    BY <1>1, <1>2, <2>1 DEF LastAt
  <2>3. \A i \in RegisteredAt(log) :
          i \in LastAt(more) <=> i \in LastAt(log) /\ log[i].object_ref # line.object_ref
    <3>1. ASSUME NEW i \in RegisteredAt(log)
          PROVE  i \in LastAt(more) <=> i \in LastAt(log) /\ log[i].object_ref # line.object_ref
      <4>1. i < n + 1 /\ more[i] = log[i]
        BY <1>2, <2>1
      <4>2. ASSUME i \in LastAt(more)
            PROVE  i \in LastAt(log) /\ log[i].object_ref # line.object_ref
        BY <1>1, <2>1, <4>1, <4>2 DEF LastAt
      <4>3. ASSUME i \in LastAt(log), log[i].object_ref # line.object_ref
            PROVE  i \in LastAt(more)
        BY <1>1, <2>1, <4>1, <4>3 DEF LastAt
      <4> QED
        BY <4>2, <4>3
    <3> QED
      BY <3>1
  <2>4. ObjectRow(more[n + 1]) = Row(line.object_ref, [content |-> line.content])
    BY <1>1 DEF ObjectRow
  <2>5. \A row \in Latest(more) :
          row \in WithRow(Latest(log), line.object_ref, [content |-> line.content])
    <3>1. ASSUME NEW i \in LastAt(more)
          PROVE  ObjectRow(more[i]) \in
                   WithRow(Latest(log), line.object_ref, [content |-> line.content])
      <4>1. CASE i = n + 1
        BY <2>4, <4>1 DEF WithRow
      <4>2. CASE i \in RegisteredAt(log)
        <5>1. i \in LastAt(log) /\ log[i].object_ref # line.object_ref /\ more[i] = log[i]
          BY <2>1, <2>3, <3>1, <4>2
        <5>2. ObjectRow(log[i]) \in Latest(log) /\ ObjectRow(log[i]).ref # line.object_ref
          BY <5>1 DEF Latest, ObjectRow, Row
        <5> QED
          BY <5>1, <5>2 DEF WithRow
      <4>3. i \in RegisteredAt(more)
        BY DEF LastAt
      <4> QED
        BY <2>1, <4>1, <4>2, <4>3
    <3> QED
      BY <3>1 DEF Latest
  <2>6. \A row \in WithRow(Latest(log), line.object_ref, [content |-> line.content]) :
          row \in Latest(more)
    <3>1. Row(line.object_ref, [content |-> line.content]) \in Latest(more)
      BY <2>2, <2>4 DEF Latest
    <3>2. ASSUME NEW i \in LastAt(log), ObjectRow(log[i]).ref # line.object_ref
          PROVE  ObjectRow(log[i]) \in Latest(more)
      <4>1. i \in RegisteredAt(log) /\ log[i].object_ref # line.object_ref
        BY <3>2 DEF LastAt, ObjectRow, Row
      <4>2. i \in LastAt(more) /\ more[i] = log[i]
        BY <2>1, <2>3, <4>1
      <4> QED
        BY <4>2 DEF Latest
    <3> QED
      BY <3>1, <3>2 DEF WithRow, Latest
  <2>7. Latest(more) = WithRow(Latest(log), line.object_ref, [content |-> line.content])
    BY <2>5, <2>6
  <2> QED
    BY <1>4, <2>7 DEF more
<1> QED
  BY <1>3, <1>4

-----------------------------------------------------------------------------
(* Objects: while nothing is cut short, the table has the rows that the log of  *)
(* the only session gives, once the row that is due is inserted.                *)
ObjectDue == \E p \in Shells : FirstRow(p, "objects")
ObjectsOf(log) ==
    /\ \A p \in Shells : FirstRow(p, "objects") =>
         Latest(log) = WithRow(index.objects, todo[p][1].ref, todo[p][1].payload)
    /\ ~ObjectDue => index.objects = Latest(log)
ObjectsRestored ==
    Calm => \A t \in SessionRefs : Started \subseteq {t} => ObjectsOf(files.namespace_jsonl[t])

(* The line of an object, then its row, are written by the same shell.          *)
LEMMA ObjectsRestoredStep ==
    ASSUME TypeInv, ArrangedInv, LinkedInv, HeldInv, SessionInv, ObjectsRestored,
           NEW p \in Shells, Step(p), Calm', NEW t \in SessionRefs, Started' \subseteq {t}
    PROVE  ObjectsOf(files.namespace_jsonl[t])'
<1> DEFINE w == todo[p][1]
           v == todo'[p][1]
           log == files.namespace_jsonl[t]
           new == files'.namespace_jsonl[t]
<1>1. Started \subseteq {t} /\ Calm
  BY StartedKept, CalmStep
<1>2. ObjectsOf(log)
  BY <1>1 DEF ObjectsRestored
<1>3. ASSUME NEW q \in Shells, todo[q] # << >>, ~SessionWrite(todo[q][1]) PROVE Owns(q, t)
  BY <1>1, <1>3, TheSession
<1>4. \A q \in Shells : FirstRow(q, "objects") => Owns(q, t)
  BY <1>3 DEF FirstRow, RowDue, SessionWrite
<1>5. ASSUME NEW q \in Shells, q # p PROVE FirstRow(q, "objects")' <=> FirstRow(q, "objects")
  BY <1>5, OthersAlone DEF FirstRow
<1>6. FirstRow(p, "objects")' =>
         (FirstRow(p, "objects") /\ todo'[p] = todo[p] /\ ~Write(p))
         \/ (Write(p) /\ Registered1(w) /\ v = ObjectWrite(w.line))
  <2>1. SUFFICES ASSUME FirstRow(p, "objects")'
                 PROVE  (FirstRow(p, "objects") /\ todo'[p] = todo[p] /\ ~Write(p))
                        \/ (Write(p) /\ Registered1(w) /\ v = ObjectWrite(w.line))
    OBVIOUS
  <2>2. todo'[p] # << >> /\ RowDue(v, "objects")
    BY <2>1 DEF FirstRow
  <2>3. CASE Write(p)
    BY <2>2, <2>3, NextDue
  <2>4. CASE ~Write(p)
    BY <2>1, <2>2, <2>4, Starts DEF FirstRow, RowDue
  <2> QED
    BY <2>3, <2>4
<1>7. FirstRow(p, "objects") => Putting(p, "objects") /\ Write(p) /\ ~LogLine(p)
  <2>1. SUFFICES ASSUME FirstRow(p, "objects")
                 PROVE  Putting(p, "objects") /\ Write(p) /\ ~LogLine(p)
    OBVIOUS
  <2>2. Write(p)
    BY <2>1, DueWrites DEF FirstRow
  <2> QED
    BY <2>1, <2>2, WriteKind DEF FirstRow, RowDue, First, Putting
<1> HIDE DEF w, v
<1>8. CASE LogLine(p)
  <2>1. Write(p) /\ todo[p] # << >> /\ w.write = "log_line"
    BY <1>8, WriteKind DEF Write, First, w
  <2>2. Owns(p, t)
    BY <1>3, <2>1 DEF SessionWrite, RowDue, w
  <2>3. new = Append(log, w.line) /\ w.line \in Lines /\ log \in Seq(Lines)
    BY <1>8, <2>2, NamespaceLog DEF w, TypeInv, Typed, FilesSet
  <2>4. ~ObjectDue /\ ~Putting(p, "objects")
    <3>1. ASSUME NEW q \in Shells, FirstRow(q, "objects") PROVE FALSE
      <4>1. Owns(q, t)
        BY <1>4, <3>1
      <4>2. q = p
        BY <2>2, <4>1 DEF SessionInv, Disjoint
      <4> QED
        BY <1>7, <1>8, <3>1, <4>2
    <3> QED
      BY <3>1, TablesStep DEF ObjectDue
  <2>5. index.objects = Latest(log) /\ index'.objects = index.objects
    BY <1>2, <2>4, TablesStep DEF ObjectsOf
  <2>6. CASE w.line.event = "object_registered"
    <3>1. Registered1(w)
      BY <2>1, <2>6 DEF Registered1
    <3>2. todo'[p] # << >>
      BY <2>1, <3>1, MoreDue DEF w
    <3>3. v = ObjectWrite(w.line)
      BY <2>1, <3>1, <3>2, NextDue DEF w, v
    <3>4. FirstRow(p, "objects")' /\ v.ref = w.line.object_ref
          /\ v.payload = [content |-> w.line.content]
      BY <3>2, <3>3 DEF ObjectWrite, Insert, FirstRow, RowDue, v
    <3>5. Latest(new) = WithRow(Latest(log), v.ref, v.payload)
      BY <2>3, <2>6, <3>4, LatestAppend
    <3>6. ASSUME NEW q \in Shells, FirstRow(q, "objects")' PROVE q = p
      BY <1>5, <2>4, <3>6 DEF ObjectDue
    <3>7. Latest(new) = WithRow(index'.objects, v.ref, v.payload)
      BY <2>5, <3>5
    <3> QED
      BY <3>4, <3>6, <3>7 DEF ObjectsOf, ObjectDue, v
  <2>7. CASE w.line.event # "object_registered"
    <3>1. Latest(new) = Latest(log)
      BY <2>3, <2>7, LatestAppend
    <3>2. ~ObjectDue'
      BY <1>5, <1>6, <2>1, <2>4, <2>7 DEF ObjectDue, Registered1
    <3> QED
      BY <2>5, <3>1, <3>2 DEF ObjectsOf, ObjectDue
  <2> QED
    BY <2>6, <2>7
<1>9. CASE ~LogLine(p)
  <2>1. new = log
    BY <1>9, NamespaceLog
  <2>2. ~(Write(p) /\ Registered1(w))
    BY <1>9, WriteKind, WriteEffect DEF Registered1, First, w
  <2>3. CASE Putting(p, "objects")
    <3>1. FirstRow(p, "objects") /\ index'.objects = WithRow(index.objects, w.ref, w.payload)
      BY <2>3, TablesStep DEF w
    <3>2. index'.objects = Latest(log)
      BY <1>2, <3>1 DEF ObjectsOf, w
    <3>3. ASSUME NEW q \in Shells, FirstRow(q, "objects") PROVE q = p
      BY <1>4, <3>1, <3>3 DEF SessionInv, Disjoint
    <3>4. ~FirstRow(p, "objects")'
      BY <1>6, <1>7, <2>2, <3>1
    <3>5. ~ObjectDue'
      BY <1>5, <3>3, <3>4 DEF ObjectDue
    <3> QED
      BY <2>1, <3>2, <3>5 DEF ObjectsOf, ObjectDue
  <2>4. CASE ~Putting(p, "objects")
    <3>1. index'.objects = index.objects
      BY <2>4, TablesStep
    <3>2. ~FirstRow(p, "objects") /\ ~FirstRow(p, "objects")'
      BY <1>6, <1>7, <2>2, <2>4
    <3>3. \A q \in Shells : FirstRow(q, "objects")' <=> FirstRow(q, "objects")
      BY <1>5, <3>2
    <3>4. ASSUME NEW q \in Shells, FirstRow(q, "objects")'
          PROVE  Latest(new) = WithRow(index'.objects, todo'[q][1].ref, todo'[q][1].payload)
      <4>1. q # p /\ FirstRow(q, "objects")
        BY <3>2, <3>3, <3>4
      <4>2. todo'[q] = todo[q]
        BY <4>1, OthersAlone
      <4> QED
        BY <1>2, <2>1, <3>1, <4>1, <4>2 DEF ObjectsOf
    <3>5. ~ObjectDue' => index'.objects = Latest(new)
      BY <1>2, <2>1, <3>1, <3>3 DEF ObjectsOf, ObjectDue
    <3> QED
      BY <3>4, <3>5 DEF ObjectsOf
  <2> QED
    BY <2>3, <2>4
<1> QED
  BY <1>8, <1>9

(* Every step.                                                                  *)
LEMMA ObjectsRestoredInductive ==
    /\ TypeInv /\ ArrangedInv /\ LinkedInv /\ HeldInv /\ SessionInv /\ ObjectsRestored
    /\ [Next]_vars
    => ObjectsRestored'
<1> SUFFICES ASSUME TypeInv, ArrangedInv, LinkedInv, HeldInv, SessionInv, ObjectsRestored,
                    [Next]_vars
             PROVE  ObjectsRestored'
  OBVIOUS
<1>1. ASSUME NEW p \in Shells, Step(p) PROVE ObjectsRestored'
  BY <1>1, ObjectsRestoredStep DEF ObjectsRestored
<1>2. CASE UNCHANGED others
  BY <1>2 DEF others, ObjectsRestored, Calm, Started, ObjectsOf, ObjectDue, FirstRow
<1> QED
  BY <1>1, <1>2, NextSteps
-----------------------------------------------------------------------------
(* All that a rebuild after a single session rests on.                          *)
RestoreInv ==
    /\ CoverInv /\ CommitInv /\ LinkedInv /\ HeldInv /\ SoleInv /\ KeyedInv
    /\ DocsInv /\ EventsEven /\ CellsRestored /\ EdgesRestored /\ ObjectsRestored

(* The initial state: nothing is due, logged or indexed.                        *)
LEMMA RestoreInit == Init => RestoreInv
<1> SUFFICES ASSUME Init PROVE RestoreInv
  OBVIOUS
<1>1. \A p \in Shells : capture[p].session = {} /\ todo[p] = << >>
  BY DEF Init, NoCapture
<1>2. /\ index.sessions = {} /\ index.cells = {} /\ index.objects = {}
      /\ index.events = files.events_jsonl
      /\ \A s \in SessionRefs :
           files.session_json[s] = {} /\ files.cells_jsonl[s] = << >>
           /\ files.namespace_jsonl[s] = << >>
  BY DEF Init, EmptyIndex
<1>3. CoverInv /\ CommitInv
  <2>1. CellsKeyed
    BY <1>2 DEF CellsKeyed
  <2> QED
    BY <2>1, IndexInit, CommitInit DEF CoverInv
<1>4. HeldInv
  BY <1>1 DEF HeldInv
<1>5. \A p \in Shells : \A write : ~First(p, write) /\ ~FirstRow(p, write)
  BY <1>1 DEF First, FirstRow
<1>6. LinkedInv /\ SoleInv
  BY SoleInit
<1>7. KeyedInv
  BY <1>2 DEF KeyedInv, OfOneKey
<1>8. DocsInv
  BY <1>2, <1>5 DEF DocsInv, DocRowDue
<1>9. EventsEven
  BY <1>1, <1>2 DEF EventsEven, RowOfEventDue
<1>10. \A s \in SessionRefs : CellsOf(s) = {} /\ LinesOf(s) = {}
  BY DEF Init, CellsOf, LinesOf, Range
<1>11. CellsRestored /\ EdgesRestored
  BY <1>10 DEF CellsRestored, EdgesRestored
<1>12. ObjectsRestored
  <2>1. Latest(<< >>) = {}
    BY DEF Latest, LastAt, RegisteredAt
  <2> QED
    BY <1>2, <1>5, <2>1 DEF ObjectsRestored, ObjectsOf
<1> QED
  BY <1>3, <1>4, <1>6, <1>7, <1>8, <1>9, <1>11, <1>12 DEF RestoreInv

(* Every step.                                                                  *)
LEMMA RestoreInductive == TypeInv /\ RestoreInv /\ [Next]_vars => RestoreInv'
<1> SUFFICES ASSUME TypeInv, RestoreInv, [Next]_vars PROVE RestoreInv'
  OBVIOUS
<1>1. /\ IndexInv /\ CountInv /\ CellsKeyed /\ CommitInv /\ LinkedInv /\ HeldInv /\ SoleInv
      /\ KeyedInv /\ DocsInv /\ EventsEven /\ CellsRestored /\ EdgesRestored /\ ObjectsRestored
  BY DEF RestoreInv, CoverInv
<1>2. ArrangedInv /\ SessionInv /\ Disjoint /\ EventInv /\ CellInv
  BY <1>1 DEF IndexInv, SessionInv
<1>3. CoverInv'
  BY <1>1, <1>2, IndexInductive, CountInductive, CellsKeyedInductive DEF CoverInv
<1>4. CommitInv' /\ LinkedInv' /\ HeldInv' /\ KeyedInv'
  BY <1>1, <1>2, CommitInductive, LinkedInductive, HeldInductive, KeyedInductive
<1>5. SoleInv' /\ DocsInv' /\ EventsEven'
  BY <1>1, <1>2, SoleInductive, DocsInductive, EventsEvenInductive
<1>6. CellsRestored' /\ EdgesRestored' /\ ObjectsRestored'
  BY <1>1, <1>2, CellsRestoredInductive, EdgesRestoredInductive, ObjectsRestoredInductive
<1> QED
  BY <1>3, <1>4, <1>5, <1>6 DEF RestoreInv

-----------------------------------------------------------------------------
(* Bags with the same copies of each event are equal.                           *)
LEMMA SameCopies ==
    ASSUME NEW A \in EventBags, NEW B \in EventBags,
           \A e \in Events : Copies(e, A) = Copies(e, B)
    PROVE  A = B
<1>1. PICK D \in SUBSET Events : A \in [D -> Nat \ {0}]
  BY DEF EventBags
<1>2. PICK E \in SUBSET Events : B \in [E -> Nat \ {0}]
  BY DEF EventBags
<1>3. \A e \in Events : (e \in D <=> Copies(e, A) # 0) /\ (e \in E <=> Copies(e, B) # 0)
  BY <1>1, <1>2 DEF Copies
<1>4. D = E
  BY <1>3
<1>5. \A e \in D : A[e] = B[e]
  BY <1>1, <1>2, <1>4 DEF Copies
<1> QED
  BY <1>1, <1>2, <1>4, <1>5

(* The rows a rebuild of one session has for its objects.                       *)
LEMMA ObjectsRebuilt ==
    ASSUME NEW s \in SessionRefs, files.namespace_jsonl[s] \in Seq(Lines)
    PROVE  inserted(object_rows(files, {s})) = Latest(files.namespace_jsonl[s])
<1> DEFINE log == files.namespace_jsonl[s]
           rows == object_rows(files, {s})
<1>1. /\ DOMAIN rows = Places(files.namespace_jsonl, {s})
      /\ \A at \in DOMAIN rows :
           rows[at] = { ObjectRow(line) : line \in Registered(files, at) }
  BY DEF object_rows, ObjectRow
<1>2. DOMAIN log = 1 .. Len(log) /\ Len(log) \in Nat
  OBVIOUS
<1>3. \A at : at \in DOMAIN rows <=> \E i \in 1 .. Len(log) : at = << s, i >>
  BY <1>1, <1>2 DEF Places
<1>4. \A i \in 1 .. Len(log) :
        rows[<< s, i >>] = IF i \in RegisteredAt(log) THEN {ObjectRow(log[i])} ELSE {}
  <2>1. ASSUME NEW i \in 1 .. Len(log)
        PROVE  rows[<< s, i >>] = IF i \in RegisteredAt(log) THEN {ObjectRow(log[i])} ELSE {}
    <3>1. << s, i >> \in DOMAIN rows
      BY <1>3
    <3>2. Registered(files, << s, i >>) = IF i \in RegisteredAt(log) THEN {log[i]} ELSE {}
      BY DEF Registered, RegisteredAt
    <3>3. rows[<< s, i >>] = { ObjectRow(line) : line \in Registered(files, << s, i >>) }
      BY <1>1, <3>1
    <3> HIDE DEF log, rows
    <3> QED
      BY <3>2, <3>3
  <2> QED
    BY <2>1
<1>5. \A i, j \in 1 .. Len(log) : Before(<< s, i >>, << s, j >>) <=> i < j
  <2>1. s \in Nat /\ ~(s < s)
    OBVIOUS
  <2>2. \A i, j : Before(<< s, i >>, << s, j >>) <=> s < s \/ (s = s /\ i < j)
    BY Zenon DEF Before
  <2> QED
    BY <2>1, <2>2, Zenon
<1> HIDE DEF log, rows
<1>6. ASSUME NEW row \in inserted(rows) PROVE row \in Latest(log)
  <2>1. PICK at \in DOMAIN rows :
          /\ row \in rows[at]
          /\ \A later \in DOMAIN rows : Before(at, later) =>
               \A other \in rows[later] : other.ref # row.ref
    BY <1>6 DEF inserted
  <2>2. PICK i \in 1 .. Len(log) : at = << s, i >>
    BY <1>3, <2>1
  <2>3. i \in RegisteredAt(log) /\ row = ObjectRow(log[i])
    <3>1. row \in rows[<< s, i >>]
      BY <2>1, <2>2, Zenon
    <3>2. rows[<< s, i >>] = IF i \in RegisteredAt(log) THEN {ObjectRow(log[i])} ELSE {}
      BY <1>4, Zenon
    <3> QED
      BY <3>1, <3>2
  <2>4. ASSUME NEW j \in RegisteredAt(log), i < j PROVE log[j].object_ref # log[i].object_ref
    <3>1. j \in 1 .. Len(log)
      BY DEF RegisteredAt
    <3>2. << s, j >> \in DOMAIN rows /\ Before(at, << s, j >>)
      BY <1>3, <1>5, <2>2, <2>4, <3>1
    <3>3. ObjectRow(log[j]) \in rows[<< s, j >>]
      BY <1>4, <3>1
    <3>4. ObjectRow(log[j]).ref # row.ref
      BY <2>1, <3>2, <3>3
    <3> QED
      BY <2>3, <3>4 DEF ObjectRow, Row
  <2> QED
    BY <2>3, <2>4 DEF Latest, LastAt
<1>7. ASSUME NEW i \in LastAt(log) PROVE ObjectRow(log[i]) \in inserted(rows)
  <2>1. /\ i \in RegisteredAt(log) /\ i \in 1 .. Len(log)
        /\ \A j \in RegisteredAt(log) : i < j => log[j].object_ref # log[i].object_ref
    BY DEF LastAt, RegisteredAt
  <2>2. << s, i >> \in DOMAIN rows /\ ObjectRow(log[i]) \in rows[<< s, i >>]
    BY <1>3, <1>4, <2>1
  <2>3. ASSUME NEW later \in DOMAIN rows, Before(<< s, i >>, later), NEW other \in rows[later]
        PROVE  other.ref # ObjectRow(log[i]).ref
    <3>1. PICK j \in 1 .. Len(log) : later = << s, j >>
      BY <1>3
    <3>2. j \in RegisteredAt(log) /\ other = ObjectRow(log[j]) /\ i < j
      BY <1>4, <1>5, <2>1, <2>3, <3>1
    <3> QED
      BY <2>1, <3>2 DEF ObjectRow, Row
  <2> QED
    BY <2>2, <2>3 DEF inserted
<1>8. inserted(rows) = Latest(log)
  BY <1>6, <1>7 DEF Latest
<1> QED
  BY <1>8 DEF log, rows

(* A row that a rebuild inserts is one of the rows it is given.                 *)
LEMMA InsertedGiven ==
    ASSUME NEW rows, NEW row \in inserted(rows)
    PROVE  \E at \in DOMAIN rows : row \in rows[at]
  BY DEF inserted

(* RebuildRestores is what the invariants say when nothing is due.              *)
LEMMA RestoreImplies == TypeInv /\ RestoreInv /\ TornCalm => RebuildRestores
<1> SUFFICES ASSUME TypeInv, RestoreInv, TornCalm, Quiet, failures = 0, crashes = 0,
                    Cardinality(Started) = 1
             PROVE  /\ Readable
                    /\ \A table \in {"sessions", "cells", "objects", "events"} :
                         Rebuilt[table] = index[table]
                    /\ RefsOf(Rebuilt.lineage_edges) \subseteq RefsOf(index.lineage_edges)
  BY DEF RebuildRestores
<1>1. PICK s \in SessionRefs : Started = {s}
  <2>1. IsFiniteSet(Started)
    BY FiniteSubset DEF Started
  <2>2. PICK s : Started = {s}
    BY <2>1, FiniteAdd
  <2> QED
    BY <2>2 DEF Started
<1>2. Calm
  BY DEF Calm
<1>3. \A p \in Shells : \A kind : ~First(p, kind) /\ ~FirstRow(p, kind)
  BY DEF Quiet, First, FirstRow
<1>4. /\ Rebuilt.sessions = session_rows(files, {s})
      /\ Rebuilt.cells = inserted(cell_rows(files, {s}))
      /\ Rebuilt.objects = inserted(object_rows(files, {s}))
      /\ Rebuilt.lineage_edges = inserted(edge_rows(files, {s}))
      /\ Rebuilt.events = files.events_jsonl
  BY <1>1 DEF Rebuilt, rebuild_sqlite_index
<1>5. /\ files.cells_jsonl[s] \in Seq(Cells) /\ files.namespace_jsonl[s] \in Seq(Lines)
      /\ files.events_jsonl \in EventBags /\ index.events \in EventBags
      /\ \A row \in index.sessions : row \in SessionRows
      /\ \A row \in index.cells : row \in CellRows
  BY DEF TypeInv, Typed, FilesSet, Indexes
<1>6. /\ KeyedInv /\ DocsInv /\ EventsEven /\ CellsRestored /\ EdgesRestored /\ ObjectsRestored
      /\ CoverInv
  BY DEF RestoreInv
<1>7. Rebuilt.sessions = index.sessions
  <2>1. ASSUME NEW doc \in files.session_json[s] PROVE Row(s, doc) \in index.sessions
    BY <1>2, <1>6 DEF DocsInv, HasRow, Quiet
  <2>2. ASSUME NEW row \in index.sessions
        PROVE  \E doc \in files.session_json[s] : row = Row(s, doc)
    <3>1. row \in SessionRows
      BY <1>5
    <3>2. PICK doc \in files.session_json[row.ref] : TRUE
      BY <1>6 DEF CoverInv, IndexInv, SessionsIndexed, HasDoc
    <3>3. row.ref = s
      BY <1>1, <3>1, <3>2 DEF Started, SessionRows
    <3>4. Row(s, doc) \in index.sessions /\ Row(s, doc).ref = s
      BY <2>1, <3>2, <3>3 DEF Row
    <3>5. row = Row(s, doc)
      BY <1>6, <3>3, <3>4 DEF KeyedInv, OfOneKey
    <3> QED
      BY <3>2, <3>3, <3>5
  <2>3. session_rows(files, {s}) = { Row(s, doc) : doc \in files.session_json[s] }
    BY DEF session_rows
  <2>4. index.sessions = { Row(s, doc) : doc \in files.session_json[s] }
    BY <2>1, <2>2
  <2> QED
    BY <1>4, <2>3, <2>4
<1>8. Rebuilt.cells = index.cells
  <2> DEFINE rows == cell_rows(files, {s})
  <2>1. ASSUME NEW row \in inserted(rows) PROVE row \in index.cells
    <3>1. PICK at \in DOMAIN rows : row \in rows[at]
      BY <2>1, InsertedGiven
    <3>2. PICK i \in DOMAIN files.cells_jsonl[s] : at = << s, i >>
      BY <3>1 DEF cell_rows, Places
    <3>3. row = Row(files.cells_jsonl[s][i].cell_ref, files.cells_jsonl[s][i])
      BY <3>1, <3>2 DEF cell_rows
    <3>4. files.cells_jsonl[s][i] \in CellsOf(s)
      BY <3>2 DEF CellsOf, Range
    <3>5. ~CellRowDue(files.cells_jsonl[s][i], s)
      BY <1>3 DEF CellRowDue
    <3> QED
      BY <1>1, <1>2, <1>6, <3>3, <3>4, <3>5 DEF CellsRestored
  <2>2. ASSUME NEW row \in index.cells PROVE row \in inserted(rows)
    <3>1. RefsOf(index.cells) \subseteq RefsOf(inserted(rows))
      BY <1>4, <1>6, CoverImplies DEF Covered
    <3>2. PICK other \in inserted(rows) : other.ref = row.ref
      BY <3>1 DEF RefsOf
    <3>3. other = row
      BY <1>6, <2>1, <3>2 DEF KeyedInv, OfOneKey
    <3> QED
      BY <3>2, <3>3
  <2>3. inserted(rows) = index.cells
    BY <2>1, <2>2
  <2> QED
    BY <1>4, <2>3
<1>9. Rebuilt.objects = index.objects
  <2>1. index.objects = Latest(files.namespace_jsonl[s])
    BY <1>1, <1>2, <1>3, <1>6 DEF ObjectsRestored, ObjectsOf, ObjectDue
  <2> QED
    BY <1>4, <1>5, <2>1, ObjectsRebuilt
<1>10. Rebuilt.events = index.events
  <2>1. \A e \in Events : ~RowOfEventDue(e)
    BY DEF RowOfEventDue, Quiet
  <2>2. \A e \in Events : Copies(e, files.events_jsonl) = Copies(e, index.events)
    BY <1>2, <1>6, <2>1 DEF EventsEven
  <2> QED
    BY <1>4, <1>5, <2>2, SameCopies
<1>11. ASSUME NEW row \in Rebuilt.lineage_edges PROVE row.ref \in RefsOf(index.lineage_edges)
  <2> DEFINE rows == edge_rows(files, {s})
  <2>1. PICK at \in DOMAIN rows : row \in rows[at]
    BY <1>4, <1>11, InsertedGiven
  <2>2. PICK i \in DOMAIN files.namespace_jsonl[s] : at = << s, i >>
    BY <2>1 DEF edge_rows, Places
  <2>3. PICK line \in Registered(files, at) : row.ref \in LineageEdges(line)
    BY <2>1 DEF edge_rows, Row
  <2>4. line = files.namespace_jsonl[s][i] /\ line.event = "object_registered"
    BY <2>2, <2>3 DEF Registered
  <2>5. line \in LinesOf(s)
    BY <2>2, <2>4 DEF LinesOf, Range
  <2>6. \A p \in Shells : ~\E j \in 1 .. Len(todo[p]) : EdgeDue(todo[p][j], row.ref)
    <3>1. \A p \in Shells : 1 .. Len(todo[p]) = {}
      BY DEF Quiet
    <3> QED
      BY <3>1
  <2> QED
    BY <1>2, <1>6, <2>3, <2>4, <2>5, <2>6 DEF EdgesRestored
<1>12. RefsOf(Rebuilt.lineage_edges) \subseteq RefsOf(index.lineage_edges)
  BY <1>11 DEF RefsOf
<1>13. Readable
  BY <1>2, <1>3 DEF TornCalm, Readable
<1> QED
  BY <1>7, <1>8, <1>9, <1>10, <1>12, <1>13

(* After one session that nothing cut short, a rebuild from the files finds the *)
(* sessions, cells, objects and events of the live index, and no edge that it   *)
(* lacks.                                                                       *)
THEOREM RebuildFinds == Spec => []RebuildRestores
<1>1. Init => TypeInv /\ RestoreInv /\ TornCalm
  BY TypeInit, RestoreInit DEF Init, TornCalm
<1>2. TypeInv /\ RestoreInv /\ TornCalm /\ [Next]_vars => (TypeInv /\ RestoreInv /\ TornCalm)'
  BY TypeInductive, RestoreInductive, TornCalmInductive
<1> QED
  BY <1>1, <1>2, RestoreImplies, PTL DEF Spec
===============================================================================
