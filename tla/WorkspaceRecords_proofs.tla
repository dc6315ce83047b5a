------------------------ MODULE WorkspaceRecords_proofs ------------------------
(* What a rebuild restores beside whatever else goes on, for any number of      *)
(* processes, projects, runs and texts.                                         *)
EXTENDS Workspace_proofs

-----------------------------------------------------------------------------
(* What a rebuild keeps.                                                        *)

(* The steps that write, into the explanation of a hypothesis, a run of         *)
(* another one; those that index one, and that open its file.                   *)
Misfits ==
    { s \in AnyStep : /\ s[1] \in {"write", "if missing"}
                      /\ \E h \in Hypotheses :
                           s[2] = Explained(h) /\ Manifest[s[3]].hypothesis # h }
Explaining == { s \in AnyStep : s[1] = "insert" /\ s[2] = "alternative_explanations" }
Explains(h) == { s \in Explaining : s[3].ref = h }
Opens(h) == {<< "open", Explained(h) >>}
(* The steps that make the tables of a rebuild, and those that fill them.       *)
InsertsEvent == {<< "insert event" >>}
Unlinks == {<< "unlink" >>}
Schema == {<< "initialize schema" >>}
EventsStep == {<< "restore events" >>}
RunStep(run) == {<< "restore run", run >>}
HypothesisStep(h) == {<< "restore hypothesis", h >>}
Making == { s \in AnyStep : s[1] \in {"unlink", "initialize schema"} }
Restores == { s \in AnyStep : s[1] \in {"restore events", "restore run", "restore hypothesis"} }

(* They are told apart by their operations.                                     *)
LEMMA RecordSorts ==
    ASSUME NEW s
    PROVE  /\ s \in Misfits => s[1] \in {"write", "if missing"} /\ s[2] \notin OwnedPaths
           /\ s \in Explaining => s[1] = "insert" /\ s[2] = "alternative_explanations"
           /\ \A h : s \in Explains(h) => s \in Explaining /\ s[3].ref = h
           /\ \A h : s \in Opens(h) => s[1] = "open" /\ s[2] = Explained(h)
           /\ s \in InsertsEvent => s[1] = "insert event"
           /\ s \in Unlinks => s[1] = "unlink"
           /\ s \in Schema => s[1] = "initialize schema"
           /\ s \in EventsStep => s[1] = "restore events"
           /\ \A r : s \in RunStep(r) => s[1] = "restore run" /\ s[2] = r
           /\ \A h : s \in HypothesisStep(h) => s[1] = "restore hypothesis" /\ s[2] = h
           /\ s \in Making => s[1] \in {"unlink", "initialize schema"}
           /\ s \in Restores => s[1] \in {"restore events", "restore run", "restore hypothesis"}
<1>1. \A op : \A t : t = << op >> => t[1] = op
  <2>1. \A op : << op >>[1] = op
    OBVIOUS
  <2> QED
    BY <2>1, Zenon
<1>2. \A op, x : \A t : t = << op, x >> => t[1] = op /\ t[2] = x
  <2>1. \A op, x : << op, x >>[1] = op /\ << op, x >>[2] = x
    OBVIOUS
  <2> QED
    BY <2>1, Zenon
<1>3. s \in Misfits => s[1] \in {"write", "if missing"} /\ s[2] \notin OwnedPaths
  <2>1. \A h \in Hypotheses : Explained(h) \notin OwnedPaths
    BY PathsDiffer DEF OwnedPaths, Explainable
  <2> QED
    BY <2>1 DEF Misfits
<1>4. /\ s \in Explaining => s[1] = "insert" /\ s[2] = "alternative_explanations"
      /\ \A h : s \in Explains(h) => s \in Explaining /\ s[3].ref = h
  BY DEF Explaining, Explains
<1>5. \A h : s \in Opens(h) => s[1] = "open" /\ s[2] = Explained(h)
  BY <1>2 DEF Opens
<1>6. /\ s \in InsertsEvent => s[1] = "insert event"
      /\ s \in Unlinks => s[1] = "unlink"
      /\ s \in Schema => s[1] = "initialize schema"
      /\ s \in EventsStep => s[1] = "restore events"
  BY <1>1 DEF InsertsEvent, Unlinks, Schema, EventsStep
<1>7. /\ \A r : s \in RunStep(r) => s[1] = "restore run" /\ s[2] = r
      /\ \A h : s \in HypothesisStep(h) => s[1] = "restore hypothesis" /\ s[2] = h
  BY <1>2 DEF RunStep, HypothesisStep
<1>8. /\ s \in Making => s[1] \in {"unlink", "initialize schema"}
      /\ s \in Restores => s[1] \in {"restore events", "restore run", "restore hypothesis"}
  BY DEF Making, Restores
<1> QED
  BY <1>3, <1>4, <1>5, <1>6, <1>7, <1>8

(* An event is inserted first, or right after its line is appended.             *)
Tidy(L) ==
    \A m \in 1 .. Len(L) : L[m] \in InsertsEvent => m = 1 \/ (m = 2 /\ L[1] \in AppendsEvent)
(* The steps that may come first: they are no part of an explanation or a       *)
(* rebuild, and insert the event that they append.                              *)
Harmless(K) ==
    /\ K \in Seq(AnyStep) /\ Tidy(K)
    /\ ~ Has(K, Misfits) /\ ~ Has(K, Explaining) /\ ~ Has(K, Making \cup Restores)
    /\ K # << >> => K[1] \notin InsertsEvent

(* They are harmless by their operations and paths.                             *)
HarmlessStep(s) ==
    /\ s[1] \notin {"unlink", "initialize schema", "restore events", "restore run",
                    "restore hypothesis", "insert event"}
    /\ s \notin Misfits /\ s \notin Explaining

(* A list of harmless steps.                                                   *)
LEMMA HarmlessSteps ==
    ASSUME NEW K \in Seq(AnyStep), \A m \in 1 .. Len(K) : HarmlessStep(K[m])
    PROVE  Harmless(K)
<1>1. ASSUME NEW m \in 1 .. Len(K)
      PROVE  /\ K[m] \notin InsertsEvent /\ K[m] \notin Making \cup Restores
             /\ K[m] \notin Misfits /\ K[m] \notin Explaining
  <2>1. HarmlessStep(K[m])
    BY <1>1
  <2> QED
    BY <2>1, RecordSorts DEF HarmlessStep
<1>2. K # << >> => 1 \in 1 .. Len(K)
  OBVIOUS
<1>3. Tidy(K) /\ ~ Has(K, Misfits) /\ ~ Has(K, Explaining) /\ ~ Has(K, Making \cup Restores)
  BY <1>1 DEF Tidy, Has
<1> QED
  BY <1>1, <1>2, <1>3 DEF Harmless

(* No steps are harmless.                                                       *)
LEMMA HarmlessNone == Harmless(<< >>)
<1>1. << >> \in Seq(AnyStep) /\ \A m \in 1 .. Len(<< >>) : HarmlessStep(<< >>[m])
  OBVIOUS
<1> QED
  BY <1>1, HarmlessSteps

(* The ledgers are no explanations.                                             *)
LEMMA ScaffoldFits ==
    /\ ensure_research_scaffold \in Seq(AnyStep)
    /\ ~ Has(ensure_research_scaffold, Misfits)
<1> DEFINE L == ensure_research_scaffold
<1>1. L \in Seq(AnyStep) /\ Len(L) = 4
  BY ListParts, OpsLists, CalmScaffold
<1>2. \A i \in 1 .. 4 : KindOrder[i] \in Kinds /\ DOMAIN KindOrder = 1 .. 4
  BY DEF KindOrder, Kinds
<1>3. ASSUME NEW i \in 1 .. 4 PROVE L[i] \notin Misfits
  <2>1. L[i] = << "if missing", Ledger(KindOrder[i]), << >> >>
    BY <1>2 DEF ensure_research_scaffold
  <2>2. L[i][2] = Ledger(KindOrder[i])
    <3>1. \A x : << "if missing", x, << >> >>[2] = x
      OBVIOUS
    <3> QED
      BY <2>1, <3>1
  <2>3. L[i][2] \in OwnedPaths
    BY <1>2, <2>2 DEF OwnedPaths
  <2> QED
    BY <2>3, RecordSorts
<1> HIDE DEF L
<1>4. L \in Seq(AnyStep) /\ ~ Has(L, Misfits)
  BY <1>1, <1>3 DEF Has
<1> QED
  BY <1>4 DEF L

(* So is what init does.                                                        *)
LEMMA HarmlessInit ==
    ASSUME NEW name \in Names
    PROVE  Harmless(init(name))
<1> DEFINE O == {"if missing", "read project", "insert project", "read events"}
           a == if_missing(Toml, name)
           M == << << "read project" >>, << "insert project" >>, << "read events" >> >>
           L == ensure_research_scaffold
<1>1. init(name) \in Seq(WithOps(O))
  BY InitOps
<1>2. init(name) = (a \o M) \o L
  BY DEF init
<1>3. ~ Has(a, Misfits) /\ a \in Seq(AnyStep)
  <2>1. << Toml, name >> \in Contents
    BY DEF Contents, TomlContents
  <2>2. a \in Seq(AnyStep)
    BY <2>1, FileParts, OpsLists
  <2>3. Len(a) = 1 /\ a[1][2] = Toml
    BY DEF if_missing
  <2>4. Toml \in OwnedPaths
    BY DEF OwnedPaths
  <2>5. a[1] \notin Misfits
    BY <2>3, <2>4, RecordSorts
  <2> HIDE DEF a
  <2>6. \A m \in 1 .. Len(a) : a[m] = a[1]
    BY <2>3
  <2> QED
    BY <2>2, <2>5, <2>6 DEF Has
<1>4. M \in Seq(AnyStep) /\ ~ Has(M, Misfits)
  <2> DEFINE rp == << "read project" >>
             ip == << "insert project" >>
             re == << "read events" >>
  <2>1. rp \in AnyStep /\ ip \in AnyStep /\ re \in AnyStep
    BY OpsLists DEF PlainOps
  <2>2. rp[1] = "read project" /\ ip[1] = "insert project" /\ re[1] = "read events"
    OBVIOUS
  <2> HIDE DEF rp, ip, re
  <2>3. rp \notin Misfits /\ ip \notin Misfits /\ re \notin Misfits
    BY <2>2, RecordSorts
  <2> DEFINE N == << rp, ip, re >>
  <2>4. N \in Seq(AnyStep) /\ \A m \in 1 .. Len(N) : N[m] \in {rp, ip, re}
    BY <2>1
  <2> HIDE DEF N
  <2>5. ~ Has(N, Misfits)
    BY <2>3, <2>4 DEF Has
  <2> QED
    BY <2>4, <2>5 DEF N, rp, ip, re
<1>5. L \in Seq(AnyStep) /\ ~ Has(L, Misfits)
  BY ScaffoldFits
<1> HIDE DEF a, M, L
<1>6. ~ Has(a \o M, Misfits) /\ a \o M \in Seq(AnyStep)
  BY <1>3, <1>4, ConcatHas
<1>7. ~ Has(init(name), Misfits)
  <2>1. ~ Has((a \o M) \o L, Misfits)
    BY <1>5, <1>6, ConcatHas
  <2> QED
    BY <1>2, <2>1, Zenon
<1>8. init(name) \in Seq(AnyStep)
  BY <1>1, OpsLists
<1>9. ASSUME NEW m \in 1 .. Len(init(name)) PROVE HarmlessStep(init(name)[m])
  <2>1. init(name)[m][1] \in O
    BY <1>1, OpsLists
  <2>2. init(name)[m] \notin Misfits
    BY <1>7 DEF Has
  <2>3. init(name)[m] \notin Explaining
    BY <2>1, RecordSorts
  <2> QED
    BY <2>1, <2>2, <2>3 DEF HarmlessStep
<1> QED
  BY <1>8, <1>9, HarmlessSteps

(* So are the steps that write what fits a file,                                *)
LEMMA HarmlessWrite ==
    ASSUME NEW path, NEW c, << path, c >> \in Contents,
           \A h \in Hypotheses : path = Explained(h) => Manifest[c].hypothesis = h
    PROVE  Harmless(write_text(path, c))
<1> DEFINE a == << "open", path >>
           b == << "write", path, c >>
           K == << a, b >>
<1>1. a[1] = "open" /\ b[1] = "write" /\ b[2] = path /\ b[3] = c
  OBVIOUS
<1>2. write_text(path, c) = K /\ K \in Seq(AnyStep)
  <2>1. write_text(path, c) \in Seq(AnyStep)
    BY FileParts, OpsLists
  <2> QED
    BY <2>1 DEF write_text
<1> HIDE DEF a, b
<1>3. HarmlessStep(a)
  BY <1>1, RecordSorts DEF HarmlessStep
<1>4. HarmlessStep(b)
  <2>1. b \notin Misfits
    BY <1>1 DEF Misfits
  <2> QED
    BY <1>1, <2>1, RecordSorts DEF HarmlessStep
<1>5. \A m \in 1 .. Len(K) : K[m] \in {a, b}
  OBVIOUS
<1> HIDE DEF K
<1>6. \A m \in 1 .. Len(K) : HarmlessStep(K[m])
  BY <1>3, <1>4, <1>5
<1> QED
  BY <1>2, <1>6, HarmlessSteps

(* those that insert entries of ledgers,                                        *)
LEMMA HarmlessInserts ==
    ASSUME NEW K \in Seq(Inserts(AllRows))
    PROVE  Harmless(K)
<1>1. Inserts(AllRows) \subseteq AnyStep
  BY DEF AnyStep, Steps
<1>2. \A S, T : S \subseteq T => Seq(S) \subseteq Seq(T)
  OBVIOUS
<1>3. K \in Seq(AnyStep)
  BY <1>1, <1>2, Zenon
<1>4. ASSUME NEW m \in 1 .. Len(K) PROVE HarmlessStep(K[m])
  <2>1. K[m] \in Inserts(AllRows)
    OBVIOUS
  <2>2. K[m][1] = "insert" /\ K[m][2] \in Kinds
    BY <2>1 DEF Inserts
  <2>3. "alternative_explanations" \notin Kinds
    BY TableNames
  <2> QED
    BY <2>2, <2>3, RecordSorts DEF HarmlessStep
<1> QED
  BY <1>3, <1>4, HarmlessSteps

(* and those that append an event and insert it.                                *)
LEMMA HarmlessEvent == Harmless(<< << "append event" >>, << "insert event" >> >>)
<1> DEFINE a == << "append event" >>
           b == << "insert event" >>
           K == << a, b >>
<1>1. a[1] = "append event" /\ b[1] = "insert event" /\ a \in AppendsEvent
  BY DEF AppendsEvent
<1>2. a \in AnyStep /\ b \in AnyStep
  BY OpsLists DEF PlainOps
<1> HIDE DEF a, b
<1>3. K \in Seq(AnyStep) /\ Len(K) = 2 /\ K[1] = a /\ K[2] = b
  BY <1>2
<1> HIDE DEF K
<1>4. \A m \in 1 .. Len(K) : (m = 1 /\ K[m] = a) \/ (m = 2 /\ K[m] = b)
  BY <1>3
<1>5. /\ a \notin Misfits /\ a \notin Explaining /\ a \notin Making \cup Restores
      /\ a \notin InsertsEvent
      /\ b \notin Misfits /\ b \notin Explaining /\ b \notin Making \cup Restores
  BY <1>1, RecordSorts
<1>6. Tidy(K)
  BY <1>1, <1>3, <1>4, <1>5 DEF Tidy
<1>7. ~ Has(K, Misfits) /\ ~ Has(K, Explaining) /\ ~ Has(K, Making \cup Restores)
  BY <1>4, <1>5 DEF Has
<1> QED
  BY <1>3, <1>5, <1>6, <1>7 DEF Harmless, K, a, b

-----------------------------------------------------------------------------
(* What a step leaves to do.                                                    *)

Carries(j, i) ==
    i.name = j.name /\ i.events = j.events /\ i.explained = j.explained
    /\ i.overlapped = j.overlapped
(* A job goes on: it has done its first step, or checks for files that are      *)
(* there, and the steps of K come first.                                        *)
Leads(j, i, n, K) ==
    /\ j.todo \in Seq(AnyStep) /\ n \in 2 .. Len(j.todo) /\ Harmless(K)
    /\ i.todo = K \o From(j.todo, n)
    /\ K # << >> => j.todo[1] \notin AppendsEvent
    /\ n = 2 \/ \A m \in 1 .. Len(j.todo) : m < n => j.todo[m][1] = "if missing"
ExplainOps == {"restore run", "restore hypothesis"}
FindOps == {"discover", "read project"}
AppendOps == {"append event"}
(* A process goes on with the job i.                                            *)
GoesOn(p, i) ==
    /\ Working(p) /\ jobs' = [jobs EXCEPT ![p] = i] /\ Carries(jobs[p], i)
    /\ \E n, K : Leads(jobs[p], i, n, K)
    /\ Op(p) \notin ExplainOps => i.seen = jobs[p].seen
    /\ Op(p) \notin FindOps => i.project = jobs[p].project

(* A step that is replaced by harmless ones leads to them.                      *)
LEMMA ThenLeads ==
    ASSUME JobsInv, NEW p \in Procs, NEW op, At(p, op), op # "return",
           NEW k \in Job, Carries(jobs[p], k), k.todo = jobs[p].todo,
           op \notin ExplainOps => k.seen = jobs[p].seen,
           op \notin FindOps => k.project = jobs[p].project,
           NEW K, Harmless(K), op \in AppendOps => K = << >>, Becomes(p, Then(k, K))
    PROVE  \E i : GoesOn(p, i) /\ i.seen = k.seen
                  /\ i.todo = K \o From(jobs[p].todo, 2)
<1>1. PICK i, j : i = Then(k, K) /\ j = jobs[p]
  OBVIOUS
<1>2. /\ j.todo \in Seq(AnyStep) /\ 2 \in 1 .. Len(j.todo) /\ Tail(j.todo) = From(j.todo, 2)
      /\ j.todo[1] = Head(j.todo) /\ 2 \in 2 .. Len(j.todo)
  <2>1. /\ j.todo \in Seq(AnyStep) /\ 2 \in 1 .. Len(j.todo) /\ Tail(j.todo) = From(j.todo, 2)
        /\ j.todo[1] = Head(j.todo)
    BY <1>1, FirstDone
  <2>2. \A n \in Nat : 2 \in 1 .. n => 2 \in 2 .. n
    OBVIOUS
  <2>3. Len(j.todo) \in Nat
    BY <2>1
  <2> QED
    BY <2>1, <2>2, <2>3
<1>3. K \in Seq(AnyStep) /\ K \o Tail(j.todo) \in Seq(AnyStep)
  <2>1. Tail(j.todo) \in Seq(AnyStep)
    BY <1>2, FromIndex
  <2> QED
    BY <2>1 DEF Harmless
<1>4. i = [k EXCEPT !.todo = K \o Tail(j.todo)]
  BY <1>1 DEF Then
<1>5. /\ i.todo = K \o Tail(j.todo) /\ i.name = k.name /\ i.events = k.events
      /\ i.explained = k.explained /\ i.overlapped = k.overlapped /\ i.seen = k.seen
      /\ i.project = k.project
  BY <1>4 DEF Job
<1>6. Op(p) = op /\ Working(p)
  BY DEF At
<1>7. K # << >> => j.todo[1] \notin AppendsEvent
  <2>1. j.todo[1] \in AppendsEvent => op \in AppendOps
    BY <1>1, <1>2, <1>6, StepSorts, Zenon DEF Op, AppendOps
  <2> QED
    BY <2>1
<1>8. Leads(j, i, 2, K)
  <2>1. i.todo = K \o From(j.todo, 2)
    BY <1>2, <1>5, Zenon
  <2> QED
    BY <1>2, <1>7, <2>1 DEF Leads
<1>9. jobs' = [jobs EXCEPT ![p] = i]
  BY <1>1 DEF Becomes
<1>10. Carries(jobs[p], i)
  BY <1>5 DEF Carries
<1> QED
  BY <1>1, <1>2, <1>5, <1>6, <1>8, <1>9, <1>10 DEF GoesOn

(* Most steps are done, and that is all.                                        *)
LEMMA DoneLeads ==
    ASSUME JobsInv, NEW p \in Procs, NEW op, At(p, op), op # "return", Done(p)
    PROVE  \E i : GoesOn(p, i) /\ i.seen = jobs[p].seen /\ i.todo = From(jobs[p].todo, 2)
<1>1. jobs[p] \in Job
  BY DEF JobsInv
<1>2. Becomes(p, Then(jobs[p], << >>))
  BY DEF Done
<1>3. PICK j : j = jobs[p]
  OBVIOUS
<1>4. \E i : GoesOn(p, i) /\ i.seen = j.seen /\ i.todo = << >> \o From(j.todo, 2)
  BY <1>1, <1>2, <1>3, HarmlessNone, ThenLeads DEF Carries
<1>5. << >> \o From(j.todo, 2) = From(j.todo, 2)
  <2>1. j.todo \in Seq(AnyStep) /\ 2 \in 1 .. Len(j.todo)
    BY <1>3, FirstDone
  <2>2. From(j.todo, 2) \in Seq(AnyStep)
    BY <2>1, FromIndex
  <2> QED
    BY <2>2, ConcatEmptySeq
<1> QED
  BY <1>3, <1>4, <1>5

(* The explanation of a hypothesis is one of its runs, and no step writes one   *)
(* that is not.                                                                 *)
FitsInv ==
    /\ \A h \in Hypotheses : \/ files[Explained(h)] \in {NoFile, Blank}
                             \/ Manifest[files[Explained(h)]].hypothesis = h
    /\ \A p \in Procs : ~ Has(jobs[p].todo, Misfits)

(* A missing file is written, and those that are there are passed over.         *)
LEMMA LeadsIfMissing ==
    ASSUME IInv, FitsInv, NEW p \in Procs, IfMissing(p)
    PROVE  \E i : GoesOn(p, i)
<1>1. At(p, "if missing") /\ Working(p) /\ Op(p) = "if missing"
  BY DEF IfMissing, At
<1>2. JobsInv
  BY DEF IInv
<1>3. AtStep(jobs[p], Head(jobs[p].todo), valid) /\ JobGood(jobs[p], World)
      /\ Head(jobs[p].todo)[1] = "if missing" /\ Head(jobs[p].todo)[2] = Arg(p)
      /\ Head(jobs[p].todo)[3] = Content(p)
  BY <1>1, <1>2, Acting
<1>4. PICK j, h, path, c : /\ j = jobs[p] /\ h = Head(jobs[p].todo)
                           /\ path = Arg(p) /\ c = Content(p)
  OBVIOUS
<1>5. j \in Job /\ j.todo # << >> /\ j.todo \in Seq(AnyStep) /\ Ends(j.todo, Return1)
      /\ 1 \in 1 .. Len(j.todo) /\ j.todo[1] = h /\ h \in AnyStep
  BY <1>3, <1>4 DEF AtStep, JobGood, Job
<1>0. h[1] = "if missing" /\ "if missing" \notin AppendOps
  BY <1>3, <1>4, Zenon DEF AppendOps
<1>6. << path, c >> \in Contents /\ h[2] = path /\ h[3] = c
  BY <1>3, <1>4, StepShape DEF AtStep
<1>7. CASE files[path] = NoFile
  <2>1. PICK K : K = write_text(path, c)
    OBVIOUS
  <2>2. h \notin Misfits
    BY <1>4, <1>5 DEF FitsInv, Has
  <2>3. \A g \in Hypotheses : path = Explained(g) => Manifest[c].hypothesis = g
    BY <1>0, <1>5, <1>6, <2>2 DEF Misfits
  <2>4. Harmless(K)
    BY <1>6, <2>1, <2>3, HarmlessWrite
  <2>5. Becomes(p, Then(j, K))
    BY <1>4, <1>7, <2>1, Zenon DEF IfMissing
  <2> QED
    BY <1>0, <1>1, <1>2, <1>4, <1>5, <2>4, <2>5, ThenLeads DEF Carries
<1>8. CASE files[path] # NoFile
  <2>1. PICK L : L = j.todo
    OBVIOUS
  <2>2. L \in Seq(AnyStep) /\ L # << >> /\ L[Len(L)] = Return1 /\ Len(L) \in Nat
    <3>1. Len(L) \in Nat /\ Len(L) \in 1 .. Len(L)
      <4>1. \A n \in Nat : 1 \in 1 .. n => n \in 1 .. n
        OBVIOUS
      <4>2. Len(L) \in Nat /\ 1 \in 1 .. Len(L)
        BY <1>5, <2>1
      <4> QED
        BY <4>1, <4>2, Zenon
    <3> QED
      BY <1>5, <2>1, <3>1 DEF Ends
  <2>3. PICK n \in 1 .. Len(L) :
          /\ AfterPresent(L) = From(L, n)
          /\ \A m \in 1 .. Len(L) : m < n => L[m][1] = "if missing" /\ files[L[m][2]] # NoFile
          /\ ~ (L[n][1] = "if missing" /\ files[L[n][2]] # NoFile)
    BY <2>2, SkipsPresent
  <2>4. n \in 2 .. Len(L)
    <3>1. n # 1
      BY <1>0, <1>5, <1>6, <1>8, <2>1, <2>3
    <3>2. \A k \in Nat : \A m \in 1 .. k : m # 1 => m \in 2 .. k
      OBVIOUS
    <3> QED
      BY <2>2, <3>1, <3>2, Zenon
  <2>5. PICK R, i : R = From(L, n) /\ i = [j EXCEPT !.todo = R]
    OBVIOUS
  <2>6. R \in Seq(AnyStep) /\ << >> \o R = R
    <3>1. n \in 1 .. Len(L) + 1
      BY <2>2
    <3>2. R \in Seq(AnyStep)
      BY <2>2, <2>5, <3>1, FromIndex
    <3> QED
      BY <3>2, ConcatEmptySeq
  <2>7. i.todo = R /\ Carries(j, i) /\ i.seen = j.seen /\ i.project = j.project
    BY <1>5, <2>5, <2>6 DEF Job, Carries
  <2>8. jobs' = [jobs EXCEPT ![p] = i]
    <3>1. jobs' = [jobs EXCEPT ![p] = [j EXCEPT !.todo = AfterPresent(@)]]
      BY <1>4, <1>8, Zenon DEF IfMissing, Becomes
    <3>2. [j EXCEPT !.todo = AfterPresent(@)] = i
      BY <1>5, <2>1, <2>3, <2>5 DEF Job
    <3> QED
      BY <3>1, <3>2, Zenon
  <2>9. Leads(j, i, n, << >>)
    <3>1. i.todo = << >> \o From(j.todo, n)
      BY <2>1, <2>5, <2>6, <2>7
    <3>2. \A m \in 1 .. Len(j.todo) : m < n => j.todo[m][1] = "if missing"
      BY <2>1, <2>3
    <3> QED
      BY <2>1, <2>2, <2>4, <3>1, <3>2, HarmlessNone DEF Leads
  <2> QED
    BY <1>1, <1>4, <2>7, <2>8, <2>9 DEF GoesOn
<1> QED
  BY <1>7, <1>8

-----------------------------------------------------------------------------
(* The steps that end a command or go on to the next.                           *)
OnlyDone(p) == IfMissing(p) \/ Open(p) \/ Write(p) \/ InsertProject(p) \/ AppendEvent(p)
               \/ InsertEvent(p) \/ Insert(p) \/ Unlink(p) \/ InitializeSchema(p)

(* They end the command or go on to its next step.                             *)
LEMMA LeadsDone ==
    ASSUME IInv, FitsInv, NEW p \in Procs, OnlyDone(p)
    PROVE  \E i : GoesOn(p, i)
<1>1. JobsInv
  BY DEF IInv
<1>2. ASSUME NEW op, At(p, op), op # "return", Done(p) PROVE \E i : GoesOn(p, i)
  BY <1>1, <1>2, DoneLeads
<1>3. IfMissing(p) => \E i : GoesOn(p, i)
  BY LeadsIfMissing
<1>4. Open(p) \/ Write(p) \/ Insert(p) \/ Unlink(p) => \E i : GoesOn(p, i)
  BY <1>2 DEF Open, Write, Insert, Unlink
<1>5. InsertProject(p) => \E i : GoesOn(p, i)
  BY <1>2, Zenon DEF InsertProject
<1>6. AppendEvent(p) => \E i : GoesOn(p, i)
  BY <1>2, Zenon DEF AppendEvent
<1>7. InsertEvent(p) => \E i : GoesOn(p, i)
  BY <1>2, Zenon DEF InsertEvent
<1>8. InitializeSchema(p) => \E i : GoesOn(p, i)
  BY <1>2, Zenon DEF InitializeSchema
<1> QED
  BY <1>3, <1>4, <1>5, <1>6, <1>7, <1>8, Zenon DEF OnlyDone

(* The project is found, or made first by the steps of init.                    *)
LEMMA LeadsFinds ==
    ASSUME IInv, NEW p \in Procs, Discover(p) \/ ReadProject(p)
    PROVE  Raise(p) \/ \E i : GoesOn(p, i)
<1>1. JobsInv /\ FilesInv
  BY DEF IInv
<1>2. PICK op : At(p, op) /\ op \in FindOps /\ op # "return"
  BY Zenon DEF Discover, ReadProject, FindOps
<1>3. op \notin ExplainOps /\ op \notin AppendOps
  <2>1. FindOps \cap ExplainOps = {} /\ FindOps \cap AppendOps = {}
    BY Zenon DEF FindOps, ExplainOps, AppendOps
  <2> QED
    BY <1>2, <2>1
<1>4. PICK j : j = jobs[p] /\ j \in Job
  BY <1>1 DEF JobsInv
<1>5. \/ Raise(p)
      \/ files[Toml] = NoFile /\ Discover(p) /\ Becomes(p, Then(j, init("mwb-demo")))
      \/ (files[Toml] \in Names \/ (files[Toml] # Blank /\ ReadProject(p)))
         /\ Becomes(p, Then([j EXCEPT !.project = files[Toml]], << >>))
  BY <1>4, Zenon DEF Discover, ReadProject
<1>6. ASSUME files[Toml] \in Names,
             Becomes(p, Then([j EXCEPT !.project = files[Toml]], << >>))
      PROVE  \E i : GoesOn(p, i)
  <2>1. PICK k : k = [j EXCEPT !.project = files[Toml]]
    OBVIOUS
  <2>2. k \in Job /\ k.todo = j.todo /\ Carries(j, k) /\ k.seen = j.seen
    BY <1>4, <1>6, <2>1 DEF Job, Carries
  <2>3. PICK K : K = << >> /\ Harmless(K)
    BY HarmlessNone
  <2>4. Becomes(p, Then(k, K))
    BY <1>6, <2>1, <2>3
  <2> QED
    BY <1>1, <1>2, <1>3, <1>4, <2>2, <2>3, <2>4, ThenLeads
<1>7. ASSUME Becomes(p, Then(j, init("mwb-demo"))) PROVE \E i : GoesOn(p, i)
  <2>1. PICK K : K = init("mwb-demo") /\ Harmless(K)
    BY NoContent, HarmlessInit
  <2>2. Becomes(p, Then(j, K)) /\ Carries(j, j)
    BY <1>7, <2>1 DEF Carries
  <2> QED
    BY <1>1, <1>2, <1>3, <1>4, <2>1, <2>2, ThenLeads
<1>8. ReadProject(p) /\ files[Toml] # Blank => files[Toml] \in Names
  <2>1. ReadProject(p) => At(p, "read project")
    BY DEF ReadProject
  <2>2. ReadProject(p) => files[Toml] # NoFile
    BY <1>1, <2>1, AtToml
  <2> QED
    BY <1>1, <2>2 DEF FilesInv
<1> QED
  BY <1>5, <1>6, <1>7, <1>8, Zenon

(* The events are read, a ledger is, and what was read comes first.             *)
LEMMA LeadsReadEvents ==
    ASSUME IInv, NEW p \in Procs, ReadEvents(p)
    PROVE  Raise(p) \/ \E i : GoesOn(p, i)
<1>1. JobsInv
  BY DEF IInv
<1>2. PICK op : /\ At(p, op) /\ op # "return" /\ op \notin ExplainOps /\ op \notin FindOps
                /\ op \notin AppendOps
  <2>1. At(p, "read events")
    BY DEF ReadEvents
  <2>2. /\ "read events" # "return" /\ "read events" \notin ExplainOps
        /\ "read events" \notin FindOps /\ "read events" \notin AppendOps
    BY Zenon DEF FindOps, ExplainOps, AppendOps
  <2> QED
    BY <2>1, <2>2, Zenon
<1>3. PICK j, k : j = jobs[p] /\ j \in Job /\ k = [j EXCEPT !.created = TRUE]
  BY <1>1 DEF JobsInv
<1>4. k \in Job /\ k.todo = j.todo /\ Carries(j, k) /\ k.seen = j.seen /\ k.project = j.project
  BY <1>3 DEF Job, Carries
<1>5. \/ Raise(p)
      \/ \E K : Harmless(K) /\ Becomes(p, Then(k, K))
  BY <1>3, HarmlessNone, HarmlessEvent, Zenon DEF ReadEvents
<1> QED
  BY <1>1, <1>2, <1>3, <1>4, <1>5, ThenLeads

(* What a parsed ledger leaves to do.                                          *)
LEMMA LeadsParse ==
    ASSUME IInv, NEW p \in Procs, Parse(p)
    PROVE  \E i : GoesOn(p, i)
<1>1. JobsInv /\ FilesInv
  BY DEF IInv
<1>2. PICK op : /\ At(p, op) /\ op = "parse"
  BY DEF Parse
<1>3. op # "return" /\ op \notin ExplainOps /\ op \notin FindOps /\ op \notin AppendOps
  BY <1>2, Zenon DEF FindOps, ExplainOps, AppendOps
<1>4. Arg(p) \in Kinds
  <2>1. /\ Head(jobs[p].todo) \in Steps(valid) /\ Head(jobs[p].todo)[1] = "parse"
        /\ Head(jobs[p].todo)[2] = Arg(p)
    BY <1>1, <1>2, Acting DEF AtStep
  <2> QED
    BY <2>1, StepShape
<1>5. PICK j, kind, text : /\ j = jobs[p] /\ j \in Job /\ kind = Arg(p)
                           /\ text = files[Ledger(kind)]
  BY <1>1 DEF JobsInv
<1>6. kind \in Kinds /\ text \in Seq(Sections(kind)) \cup {NoFile, Blank}
  BY <1>1, <1>4, <1>5 DEF FilesInv
<1>7. PICK rows : rows = Entries(kind, text) /\ rows \in Seq(AllRows[kind])
  BY <1>6, EntriesTyped
<1>8. PICK new : /\ new = [i \in DOMAIN rows |-> << "insert", kind, rows[i] >>]
                 /\ new \in Seq(Inserts(AllRows))
  BY <1>6, <1>7, EntryInserts
<1>9. PICK e \in BOOLEAN : e = (j.errors \/ HasErrors(kind, text))
  OBVIOUS
<1>10. jobs' = [jobs EXCEPT ![p] = Then([j EXCEPT !.parsed = @ \o new, !.errors = e], << >>)]
  BY <1>5, <1>7, <1>8, <1>9, Zenon DEF Parse, Becomes
<1>11. PICK P \in Seq(Inserts(AllRows)) : P = j.parsed \o new
  <2>1. j.parsed \in Seq(Inserts(AllRows))
    BY <1>5 DEF Job
  <2>2. \A S : \A a, b \in Seq(S) : a \o b \in Seq(S)
    BY ConcatProperties
  <2> QED
    BY <1>8, <2>1, <2>2, Zenon
<1>12. PICK k : k = [j EXCEPT !.parsed = P, !.errors = e]
  OBVIOUS
<1>13. k \in Job /\ k.todo = j.todo /\ Carries(j, k) /\ k.seen = j.seen /\ k.project = j.project
  BY <1>5, <1>12 DEF Job, Carries
<1>14. Becomes(p, Then(k, << >>))
  BY <1>10, <1>11, <1>12 DEF Becomes
<1> QED
  BY <1>1, <1>2, <1>3, <1>5, <1>13, <1>14, HarmlessNone, ThenLeads

(* What the rows of the ledgers leave to do.                                   *)
LEMMA LeadsIndexLedgers ==
    ASSUME IInv, NEW p \in Procs, IndexLedgers(p)
    PROVE  \E i : GoesOn(p, i)
<1>1. JobsInv
  BY DEF IInv
<1>2. PICK op : /\ At(p, op) /\ op # "return" /\ op \notin ExplainOps /\ op \notin FindOps
                /\ op \notin AppendOps
  <2>1. At(p, "index ledgers")
    BY DEF IndexLedgers
  <2>2. /\ "index ledgers" # "return" /\ "index ledgers" \notin ExplainOps
        /\ "index ledgers" \notin FindOps /\ "index ledgers" \notin AppendOps
    BY Zenon DEF FindOps, ExplainOps, AppendOps
  <2> QED
    BY <2>1, <2>2, Zenon
<1>3. PICK j : j = jobs[p] /\ j \in Job
  BY <1>1 DEF JobsInv
<1>4. PICK K, k : /\ K = IF j.errors THEN << >> ELSE j.parsed
                  /\ k = [j EXCEPT !.parsed = << >>]
  OBVIOUS
<1>5. K \in Seq(Inserts(AllRows)) /\ << >> \in Seq(Inserts(AllRows))
  <2>1. << >> \in Seq(Inserts(AllRows)) /\ j.parsed \in Seq(Inserts(AllRows))
    BY <1>3, NothingFirst DEF Job
  <2> QED
    BY <1>4, <2>1
<1>6. Harmless(K)
  BY <1>5, HarmlessInserts
<1>7. k \in Job /\ k.todo = j.todo /\ Carries(j, k) /\ k.seen = j.seen /\ k.project = j.project
  BY <1>3, <1>4, <1>5 DEF Job, Carries
<1>8. Becomes(p, Then(k, K))
  BY <1>3, <1>4, Zenon DEF IndexLedgers
<1> QED
  BY <1>1, <1>2, <1>3, <1>6, <1>7, <1>8, ThenLeads

(* The events of a rebuild or the rows of the ledgers are restored.             *)
LEMMA LeadsRestores ==
    ASSUME IInv, NEW p \in Procs, RestoreEvents(p) \/ RestoreLedgerRows(p)
    PROVE  \/ Raise(p) /\ UNCHANGED rebuilt
           \/ \E i : GoesOn(p, i) /\ i.seen = jobs[p].seen /\ i.todo = From(jobs[p].todo, 2)
<1>1. JobsInv
  BY DEF IInv
<1>2. PICK op : At(p, op) /\ op # "return"
  <2>1. At(p, "restore events") \/ At(p, "restore ledgers")
    BY Zenon DEF RestoreEvents, RestoreLedgerRows, Restoring
  <2>2. "restore events" # "return" /\ "restore ledgers" # "return"
    BY Zenon
  <2> QED
    BY <2>1, <2>2, Zenon
<1>3. (Raise(p) /\ UNCHANGED rebuilt) \/ Done(p)
  BY Zenon DEF RestoreEvents, RestoreLedgerRows, Restore, Lost, Nothing, Done
<1> QED
  BY <1>1, <1>2, <1>3, DoneLeads

(* What becomes of the explanation in a file.                                   *)
ExplanationAt(p, i, of, tables) ==
    LET run == files[Explained(of)]
        hypothesis == Manifest[run].hypothesis
    IN  /\ run # Blank
        /\ \/ /\ run = NoFile \/ hypothesis \in jobs[p].seen
              /\ i.seen = jobs[p].seen /\ rebuilt' = tables
           \/ /\ run # NoFile /\ rebuilt # NoTables /\ i.seen = jobs[p].seen \cup {hypothesis}
              /\ rebuilt' = insert_payload(tables, "alternative_explanations", hypothesis, run)

(* An explanation is restored, or the rebuild fails.                           *)
LEMMA LeadsExplanation ==
    ASSUME IInv, NEW p \in Procs, NEW op \in ExplainOps, At(p, op), NEW of \in Explainable,
           NEW tables, RestoreExplanation(p, of, tables)
    PROVE  \/ Raise(p)
           \/ \E i : /\ GoesOn(p, i) /\ ExplanationAt(p, i, of, tables)
                     /\ i.todo = From(jobs[p].todo, 2)
<1>1. JobsInv /\ FilesInv
  BY DEF IInv
<1>2. op # "return" /\ op \notin FindOps /\ op \notin AppendOps
  BY Zenon DEF FindOps, ExplainOps, AppendOps
<1>3. PICK j, run, h : /\ j = jobs[p] /\ j \in Job /\ run = files[Explained(of)]
                       /\ h = Manifest[run].hypothesis
  BY <1>1 DEF JobsInv
<1>4. PICK new : new = insert_payload(tables, "alternative_explanations", h, run)
  OBVIOUS
<1>5. \/ Raise(p)
      \/ run # Blank /\ (run = NoFile \/ h \in j.seen) /\ Done(p) /\ rebuilt' = tables
      \/ /\ run # Blank /\ run # NoFile /\ rebuilt # NoTables /\ rebuilt' = new
         /\ Becomes(p, Then([j EXCEPT !.seen = @ \cup {h}], << >>))
  BY <1>3, <1>4, Zenon DEF RestoreExplanation, Restore, Lost
<1>6. ASSUME run # Blank, run = NoFile \/ h \in j.seen, Done(p), rebuilt' = tables
      PROVE  \E i : /\ GoesOn(p, i) /\ ExplanationAt(p, i, of, tables)
                    /\ i.todo = From(jobs[p].todo, 2)
  <2>1. PICK i : GoesOn(p, i) /\ i.seen = j.seen /\ i.todo = From(jobs[p].todo, 2)
    BY <1>1, <1>2, <1>3, <1>6, DoneLeads
  <2>2. ExplanationAt(p, i, of, tables)
    BY <1>3, <1>6, <2>1 DEF ExplanationAt
  <2> QED
    BY <2>1, <2>2
<1>7. ASSUME run # Blank, run # NoFile, rebuilt # NoTables, rebuilt' = new,
             Becomes(p, Then([j EXCEPT !.seen = @ \cup {h}], << >>))
      PROVE  \E i : /\ GoesOn(p, i) /\ ExplanationAt(p, i, of, tables)
                    /\ i.todo = From(jobs[p].todo, 2)
  <2>1. h \in Hypotheses
    BY <1>1, <1>3, <1>7 DEF FilesInv, Hypotheses
  <2>2. PICK seen \in SUBSET Hypotheses : seen = j.seen \cup {h}
    BY <1>3, <2>1 DEF Job
  <2>3. PICK k \in Job : k = [j EXCEPT !.seen = seen]
    <3>1. [j EXCEPT !.seen = seen] \in Job
      BY <1>3 DEF Job
    <3> QED
      BY <3>1
  <2>4. /\ k.todo = j.todo /\ Carries(j, k) /\ k.seen = seen /\ k.project = j.project
    BY <1>3, <2>3 DEF Job, Carries
  <2>5. PICK K : K = << >> /\ Harmless(K) /\ Becomes(p, Then(k, K))
    BY <1>7, <2>2, <2>3, HarmlessNone, Zenon
  <2>6a. \E i : GoesOn(p, i) /\ i.seen = k.seen /\ i.todo = K \o From(jobs[p].todo, 2)
    <3>1. /\ Carries(jobs[p], k) /\ k.todo = jobs[p].todo
          /\ (op \notin ExplainOps => k.seen = jobs[p].seen)
          /\ (op \notin FindOps => k.project = jobs[p].project)
          /\ (op \in AppendOps => K = << >>) /\ op # "return"
      BY <1>2, <1>3, <2>4, <2>5
    <3>2. Harmless(K) /\ Becomes(p, Then(k, K))
      BY <2>5
    <3> QED
      BY <1>1, <3>1, <3>2, ThenLeads
  <2>6. \E i : GoesOn(p, i) /\ i.seen = seen /\ i.todo = << >> \o From(jobs[p].todo, 2)
    BY <2>4, <2>5, <2>6a
  <2>7. << >> \o From(jobs[p].todo, 2) = From(jobs[p].todo, 2)
    <3>1. jobs[p].todo \in Seq(AnyStep) /\ 2 \in 1 .. Len(jobs[p].todo)
      BY <1>1, <1>2, FirstDone
    <3>2. From(jobs[p].todo, 2) \in Seq(AnyStep)
      BY <3>1, FromIndex
    <3> QED
      BY <3>2, ConcatEmptySeq
  <2>8. PICK i : GoesOn(p, i) /\ i.seen = seen /\ i.todo = From(jobs[p].todo, 2)
    BY <2>6, <2>7
  <2>9. ExplanationAt(p, i, of, tables)
    BY <1>3, <1>4, <1>7, <2>2, <2>8 DEF ExplanationAt
  <2> QED
    BY <2>8, <2>9
<1> QED
  BY <1>5, <1>6, <1>7

(* A run is restored, and its explanation, or a hypothesis is.                  *)
RunRestored(p, i) ==
    /\ rebuilt # NoTables
    /\ ExplanationAt(p, i, Arg(p), insert_payload(rebuilt, "runs", Arg(p), Manifest[Arg(p)]))
(* A run is restored, or the rebuild fails.                                    *)
LEMMA LeadsRestoreRun ==
    ASSUME IInv, NEW p \in Procs, RestoreRun(p)
    PROVE  \/ Raise(p)
           \/ \E i : /\ GoesOn(p, i) /\ i.todo = From(jobs[p].todo, 2)
                     /\ Arg(p) \in Range(Runs) /\ RunRestored(p, i)
<1>1. At(p, "restore run")
  BY DEF RestoreRun, Restoring
<1>2. PICK op : At(p, op) /\ op \in ExplainOps
  BY <1>1, Zenon DEF ExplainOps
<1>3. PICK of, tables : /\ of = Arg(p)
                        /\ tables = insert_payload(rebuilt, "runs", of, Manifest[of])
  OBVIOUS
<1>4. of \in Range(Runs) /\ of \in Explainable
  <2>1. /\ Head(jobs[p].todo) \in Steps(valid) /\ Head(jobs[p].todo)[1] = "restore run"
        /\ Head(jobs[p].todo)[2] = Arg(p)
    BY <1>1, Acting DEF AtStep, IInv
  <2> QED
    BY <1>3, <2>1, StepShape DEF Explainable
<1>5. Raise(p) \/ (rebuilt # NoTables /\ RestoreExplanation(p, of, tables))
  BY <1>3, Zenon DEF RestoreRun, Lost
<1>6. ASSUME rebuilt # NoTables, RestoreExplanation(p, of, tables)
      PROVE  \/ Raise(p)
             \/ \E i : /\ GoesOn(p, i) /\ ExplanationAt(p, i, of, tables)
                       /\ i.todo = From(jobs[p].todo, 2)
  BY <1>2, <1>4, <1>6, LeadsExplanation
<1> QED
  BY <1>3, <1>4, <1>5, <1>6 DEF RunRestored

(* The explanation of a hypothesis is restored, or the rebuild fails.          *)
LEMMA LeadsRestoreHypothesis ==
    ASSUME IInv, NEW p \in Procs, RestoreHypothesis(p)
    PROVE  \/ Raise(p)
           \/ \E i : /\ GoesOn(p, i) /\ i.todo = From(jobs[p].todo, 2)
                     /\ Arg(p) \in Hypotheses /\ ExplanationAt(p, i, Arg(p), rebuilt)
<1>1. At(p, "restore hypothesis")
  BY DEF RestoreHypothesis, Restoring
<1>2. PICK op : At(p, op) /\ op \in ExplainOps
  BY <1>1, Zenon DEF ExplainOps
<1>3. PICK of, tables : of = Arg(p) /\ tables = rebuilt
  OBVIOUS
<1>4. of \in Hypotheses /\ of \in Explainable
  <2>1. /\ Head(jobs[p].todo) \in Steps(valid) /\ Head(jobs[p].todo)[1] = "restore hypothesis"
        /\ Head(jobs[p].todo)[2] = Arg(p)
    BY <1>1, Acting DEF AtStep, IInv
  <2> QED
    BY <1>3, <2>1, StepShape DEF Explainable
<1>5. RestoreExplanation(p, of, tables)
  BY <1>3, Zenon DEF RestoreHypothesis
<1>6. \/ Raise(p)
      \/ \E i : /\ GoesOn(p, i) /\ ExplanationAt(p, i, of, tables)
                /\ i.todo = From(jobs[p].todo, 2)
  BY <1>2, <1>4, <1>5, LeadsExplanation
<1> QED
  BY <1>3, <1>4, <1>6

(* Every step of a process ends its command, or goes on to the next.            *)
LEMMA StepLeads ==
    ASSUME IInv, FitsInv, NEW p \in Procs, Step(p)
    PROVE  Raise(p) \/ \E i : GoesOn(p, i)
<1>1. OnlyDone(p) => \E i : GoesOn(p, i)
  BY LeadsDone
<1>2. Discover(p) \/ ReadProject(p) => Raise(p) \/ \E i : GoesOn(p, i)
  BY LeadsFinds
<1>3. ReadEvents(p) => Raise(p) \/ \E i : GoesOn(p, i)
  BY LeadsReadEvents
<1>4. Parse(p) => \E i : GoesOn(p, i)
  BY LeadsParse
<1>5. IndexLedgers(p) => \E i : GoesOn(p, i)
  BY LeadsIndexLedgers
<1>6. RestoreEvents(p) \/ RestoreLedgerRows(p) => Raise(p) \/ \E i : GoesOn(p, i)
  BY LeadsRestores
<1>7. RestoreRun(p) => Raise(p) \/ \E i : GoesOn(p, i)
  BY LeadsRestoreRun
<1>8. RestoreHypothesis(p) => Raise(p) \/ \E i : GoesOn(p, i)
  BY LeadsRestoreHypothesis
<1> QED
  BY <1>1, <1>2, <1>3, <1>4, <1>5, <1>6, <1>7, <1>8, Zenon DEF Step, OnlyDone

-----------------------------------------------------------------------------
(* Lines, events and tables.                                                    *)

(* How often a name is in a bag of events.                                      *)
Copies(name, bag) == IF name \in DOMAIN bag THEN bag[name] ELSE 0

(* An event is inserted.                                                        *)
LEMMA EventCopies ==
    ASSUME NEW bag \in EventBags, NEW name \in Names
    PROVE  /\ Copies(name, bag) \in Nat
           /\ Copies(name, BagAdd(bag, name)) = Copies(name, bag) + 1
           /\ \A n \in Names \ {name} : Copies(n, BagAdd(bag, name)) = Copies(n, bag)
<1>1. PICK D \in SUBSET Names : bag \in [D -> Nat \ {0}]
  BY DEF EventBags
<1>2. CASE name \in D
  <2>1. BagAdd(bag, name) = [e \in D |-> IF e = name THEN bag[e] + 1 ELSE bag[e]]
    BY <1>1, <1>2 DEF BagAdd
  <2>2. DOMAIN bag = D /\ DOMAIN BagAdd(bag, name) = D
    BY <1>1, <2>1
  <2> QED
    BY <1>1, <1>2, <2>1, <2>2 DEF Copies
<1>3. CASE name \notin D
  <2>1. BagAdd(bag, name) = [e \in D \cup {name} |-> IF e = name THEN 1 ELSE bag[e]]
    BY <1>1, <1>3 DEF BagAdd
  <2>2. DOMAIN bag = D /\ DOMAIN BagAdd(bag, name) = D \cup {name}
    BY <1>1, <2>1
  <2> QED
    BY <1>1, <1>3, <2>1, <2>2 DEF Copies
<1> QED
  BY <1>2, <1>3

(* An empty bag has none.                                                       *)
LEMMA NoCopies == \A name : Copies(name, EmptyBag) = 0
BY DEF Copies, EmptyBag, SetToBag

(* A bag that has as many events of each project is one that has them.          *)
LEMMA CopiesBag ==
    ASSUME NEW old \in EventBags, NEW new \in EventBags,
           \A n \in Names : Copies(n, old) <= Copies(n, new)
    PROVE  old \sqsubseteq new
<1>1. PICK D \in SUBSET Names : old \in [D -> Nat \ {0}]
  BY DEF EventBags
<1>2. PICK E \in SUBSET Names : new \in [E -> Nat \ {0}]
  BY DEF EventBags
<1>3. ASSUME NEW n \in D PROVE n \in E /\ old[n] <= new[n]
  <2>1. n \in Names /\ Copies(n, old) = old[n] /\ old[n] \in Nat \ {0}
    BY <1>1 DEF Copies
  <2>2. n \in E => Copies(n, new) = new[n]
    BY <1>2 DEF Copies
  <2>3. n \notin E => Copies(n, new) = 0
    BY <1>2 DEF Copies
  <2>4. old[n] <= Copies(n, new)
    BY <2>1
  <2>5. n \in E
    BY <2>1, <2>3, <2>4
  <2> QED
    BY <2>2, <2>4, <2>5
<1> QED
  BY <1>1, <1>2, <1>3 DEF \sqsubseteq

(* The tables get the events of all lines, and keep what else they have.        *)
LEMMA LinesRestored ==
    ASSUME NEW tables, TablesOf(tables), NEW lines \in Seq(Names)
    PROVE  LET new == insert_events(tables, lines)
           IN  /\ \A n \in Names : CountOf(lines, n) <= Copies(n, new.events)
               /\ new.runs = tables.runs
               /\ new.alternative_explanations = tables.alternative_explanations
<1> DEFINE count == [line \in Range(lines) |->
                        Cardinality({ i \in DOMAIN lines : lines[i] = line })]
           bag == tables.events (+) count
           new == insert_events(tables, lines)
<1>1. new = [tables EXCEPT !.events = bag]
  BY Zenon DEF insert_events
<1>2. DOMAIN tables = Tables \cup {"events"}
  BY DEF TablesOf
<1> HIDE DEF bag, new
<1>3. new.events = bag /\ \A t \in Tables : new[t] = tables[t]
  BY <1>1, <1>2, TableNames
<1>4. new.runs = tables.runs /\ new.alternative_explanations = tables.alternative_explanations
  BY <1>3, TableNames
<1>5. PICK D \in SUBSET Names : tables.events \in [D -> Nat \ {0}]
  BY DEF TablesOf, EventBags
<1>6. ASSUME NEW n \in Names PROVE CountOf(lines, n) <= Copies(n, bag)
  <2>1. CountOf(lines, n) \in Nat
    BY OccurrenceCount
  <2>2. CASE n \in Range(lines)
    <3>1. count[n] = CountOf(lines, n) /\ DOMAIN count = Range(lines)
      BY <2>2 DEF CountOf, PlacesOf
    <3> HIDE DEF count
    <3>2. n \in D => tables.events[n] \in Nat
      BY <1>5
    <3>3. DOMAIN tables.events = D
      BY <1>5
    <3>4. bag[n] = (IF n \in D THEN tables.events[n] ELSE 0) + count[n] /\ n \in DOMAIN bag
      BY <2>2, <3>1, <3>3 DEF bag, (+)
    <3> QED
      BY <2>1, <3>1, <3>2, <3>4 DEF Copies
  <2>3. CASE n \notin Range(lines)
    <3>1. PlacesOf(lines, n) = {}
      BY <2>3 DEF PlacesOf, Range
    <3>2. CountOf(lines, n) = 0
      BY <3>1, SingletonSize DEF CountOf
    <3>3. n \in DOMAIN bag => bag[n] \in Nat
      <4>1. DOMAIN count = Range(lines) /\ DOMAIN tables.events = D
        BY <1>5
      <4> HIDE DEF count
      <4>2. n \in DOMAIN bag => n \in D /\ bag[n] = tables.events[n] + 0
        BY <2>3, <4>1 DEF bag, (+)
      <4> QED
        BY <1>5, <4>2
    <3> QED
      BY <3>2, <3>3 DEF Copies
  <2> QED
    BY <2>2, <2>3
<1> QED
  BY <1>3, <1>4, <1>6 DEF new

(* A row of a run or of an explanation.                                         *)
LEMMA PayloadRefs ==
    ASSUME NEW tables, TablesOf(tables), NEW ref, NEW payload,
           NEW table \in {"runs", "alternative_explanations"}
    PROVE  LET new == insert_payload(tables, table, ref, payload)
           IN  /\ new.events = tables.events
               /\ RefsOf(new[table]) = RefsOf(tables[table]) \cup {ref}
               /\ \A t \in {"runs", "alternative_explanations"} \ {table} : new[t] = tables[t]
<1> DEFINE new == insert_payload(tables, table, ref, payload)
           row == Row(ref, payload)
<1>1. DOMAIN tables = Tables \cup {"events"}
  BY DEF TablesOf
<1>2. "runs" \in Tables /\ "alternative_explanations" \in Tables /\ table # "events"
      /\ "events" \notin Tables
  BY TableNames
<1>3. /\ new[table] = { x \in tables[table] : x.ref # ref } \cup {row}
      /\ \A t \in Tables \cup {"events"} : t # table => new[t] = tables[t]
  BY <1>1, <1>2 DEF insert_payload
<1>4. row.ref = ref
  BY DEF Row
<1> HIDE DEF new, row
<1>5. RefsOf(new[table]) = RefsOf(tables[table]) \cup {ref}
  BY <1>3, <1>4 DEF RefsOf
<1> QED
  BY <1>2, <1>3, <1>5 DEF new

(* The rows of the ledgers replace runs, and take none away.                    *)
LEMMA RowsRefs ==
    ASSUME NEW tables, TablesOf(tables), NEW steps \in Seq(Inserts(AllRows))
    PROVE  LET new == insert_rows(tables, steps)
           IN  /\ new.events = tables.events
               /\ new.alternative_explanations = tables.alternative_explanations
               /\ RefsOf(tables.runs) \subseteq RefsOf(new.runs)
<1> DEFINE Of(table) == { i \in DOMAIN steps : steps[i][2] = table }
           ref(i) == steps[i][3].ref
           Others(table) == { row \in tables[table] : \A i \in Of(table) : ref(i) # row.ref }
           Lasts(table) == { i \in Of(table) : \A k \in Of(table) : ref(k) = ref(i) => k <= i }
           new == insert_rows(tables, steps)
<1>1. DOMAIN tables = Tables \cup {"events"}
  BY DEF TablesOf
<1>2. new = [table \in DOMAIN tables |->
                IF Of(table) = {} THEN tables[table]
                ELSE Others(table) \cup { steps[i][3] : i \in Lasts(table) }]
  BY Zenon DEF insert_rows
<1>3. \A i \in DOMAIN steps : steps[i][2] \in Kinds
  <2>1. \A i \in DOMAIN steps : steps[i] \in Inserts(AllRows)
    OBVIOUS
  <2>2. \A s \in Inserts(AllRows) : s[2] \in Kinds
    BY DEF Inserts
  <2> QED
    BY <2>1, <2>2
<1>4. \A t : t \notin Kinds => Of(t) = {}
  BY <1>3
<1>5. \A t : Of(t) \subseteq 1 .. Len(steps) /\ Len(steps) \in Nat
  OBVIOUS
<1> HIDE DEF new, Of
<1>6. /\ new.events = tables.events
      /\ new.alternative_explanations = tables.alternative_explanations
  BY <1>1, <1>2, <1>4, TableNames
<1>7. CASE Of("runs") = {}
  <2>1. new.runs = tables.runs
    BY <1>1, <1>2, <1>7, TableNames
  <2> QED
    BY <1>6, <2>1 DEF new
<1>8. CASE Of("runs") # {}
  <2>1. new.runs = Others("runs") \cup { steps[i][3] : i \in Lasts("runs") }
    BY <1>1, <1>2, <1>8, TableNames
  <2>2. ASSUME NEW row \in tables.runs PROVE row.ref \in RefsOf(new.runs)
    <3>1. CASE \A i \in Of("runs") : ref(i) # row.ref
      BY <2>1, <3>1 DEF RefsOf
    <3>2. CASE \E i \in Of("runs") : ref(i) = row.ref
      <4> DEFINE I == { i \in Of("runs") : ref(i) = row.ref }
      <4>1. I # {} /\ I \subseteq 1 .. Len(steps) /\ Len(steps) \in Nat
        BY <1>5, <3>2
      <4>2. PICK m : m \in I /\ \A i \in I : i <= m
        <5> HIDE DEF I
        <5> QED
          BY <4>1, MaxOfSome
      <4>3. m \in Lasts("runs") /\ steps[m][3].ref = row.ref
        BY <4>2
      <4> HIDE DEF Lasts
      <4>4. steps[m][3] \in new.runs
        BY <2>1, <4>3
      <4> QED
        BY <4>3, <4>4 DEF RefsOf
    <3> QED
      BY <3>1, <3>2
  <2>3. RefsOf(tables.runs) \subseteq RefsOf(new.runs)
    BY <2>2 DEF RefsOf
  <2> QED
    BY <1>6, <2>3 DEF new
<1> QED
  BY <1>7, <1>8

-----------------------------------------------------------------------------
(* What changes beside a rebuild.                                               *)

(* What each step of a process may change.                                      *)
LEMMA StepChanges ==
    ASSUME NEW p \in Procs, Step(p)
    PROVE  /\ files' = files \/ Open(p) \/ Write(p)
           /\ events' = events \/ AppendEvent(p)
           /\ index' = index \/ InsertProject(p) \/ InsertEvent(p) \/ Insert(p)
           /\ \/ rebuilt' = rebuilt
              \/ Unlink(p) \/ InitializeSchema(p) \/ RestoreEvents(p)
              \/ RestoreRun(p) \/ RestoreHypothesis(p) \/ RestoreLedgerRows(p)
<1>1. IfMissing(p) => UNCHANGED << files, events, index, rebuilt >>
  BY Zenon DEF IfMissing
<1>2. Open(p) \/ Write(p) => UNCHANGED << events, index, rebuilt >>
  BY Zenon DEF Open, Write, Puts
<1>3. Discover(p) \/ ReadProject(p) => UNCHANGED << files, events, index, rebuilt >>
  BY Zenon DEF Discover, ReadProject
<1>4. InsertProject(p) \/ InsertEvent(p) \/ Insert(p) => UNCHANGED << files, events, rebuilt >>
  BY Zenon DEF InsertProject, InsertEvent, Insert
<1>5. ReadEvents(p) => UNCHANGED << files, events, index, rebuilt >>
  BY Zenon DEF ReadEvents
<1>6. AppendEvent(p) => UNCHANGED << files, index, rebuilt >>
  BY Zenon DEF AppendEvent
<1>7. Parse(p) \/ IndexLedgers(p) => UNCHANGED << files, events, index, rebuilt >>
  BY Zenon DEF Parse, IndexLedgers
<1>8. Unlink(p) \/ InitializeSchema(p) => UNCHANGED << files, events, index >>
  BY Zenon DEF Unlink, InitializeSchema
<1>9. RestoreEvents(p) \/ RestoreLedgerRows(p) => UNCHANGED << files, events, index >>
  BY Zenon DEF RestoreEvents, RestoreLedgerRows, Restoring
<1>10. RestoreRun(p) \/ RestoreHypothesis(p) => UNCHANGED << files, events, index >>
  BY Zenon DEF RestoreRun, RestoreHypothesis, Restoring
<1> QED
  BY <1>1, <1>2, <1>3, <1>4, <1>5, <1>6, <1>7, <1>8, <1>9, <1>10 DEF Step

(* The steps of the others: what they leave alone.                              *)
Others == \/ \E p \in Procs : Begin(p) \/ Return(p)
          \/ \E p \in Procs : Crash(p)
          \/ \E kind \in Kinds : Edit(kind) \/ Approve(kind)
          \/ UNCHANGED vars

(* They leave the tables alone, and change files and lines little.             *)
LEMMA OthersChange ==
    ASSUME Others
    PROVE  /\ UNCHANGED << index, rebuilt >>
           /\ files' = files \/ \E kind \in Kinds : \E text : files' = [files EXCEPT ![Ledger(kind)] = text]
           /\ events' = events \/ AppendLine(Torn)
<1>1. ASSUME NEW p \in Procs, Begin(p) \/ Return(p)
      PROVE  UNCHANGED << files, events, index, rebuilt >>
  BY <1>1, Zenon DEF Begin, Return
<1>2. ASSUME NEW p \in Procs, Crash(p)
      PROVE  UNCHANGED << files, index, rebuilt >> /\ (events' = events \/ AppendLine(Torn))
  BY <1>2, Zenon DEF Crash
<1>3. ASSUME NEW kind \in Kinds, Edit(kind) \/ Approve(kind)
      PROVE  UNCHANGED << index, rebuilt, events >>
             /\ \E text : files' = [files EXCEPT ![Ledger(kind)] = text]
  <2>1. \E text : Saved(kind, text)
    BY <1>3, Zenon DEF Edit, Approve
  <2> QED
    BY <2>1, Zenon DEF Saved
<1>4. UNCHANGED vars => UNCHANGED << files, events, index, rebuilt >>
  BY DEF vars
<1> QED
  BY <1>1, <1>2, <1>3, <1>4 DEF Others

(* Every step is one of a process or of the others.                             *)
LEMMA StepOrOther == [Next]_vars => (\E p \in Procs : Step(p)) \/ Others
BY Zenon DEF Next, Others

(* A line is added, which leaves those there are.                               *)
LEMMA LinesGrow ==
    ASSUME RecordsInv, NEW line \in Names \cup {Torn}, AppendLine(line)
    PROVE  /\ Torn \in Range(events) => Torn \in Range(events')
           /\ line = Torn \/ (events # << >> /\ Last(events) = Torn) => Torn \in Range(events')
           /\ \/ Torn \in Range(events')
              \/ \A n : /\ CountOf(events, n) \in Nat
                        /\ CountOf(events', n) = CountOf(events, n) + (IF line = n THEN 1 ELSE 0)
<1>1. events \in Seq(Names \cup {Torn})
  BY DEF RecordsInv
<1>2. CASE events # << >> /\ Last(events) = Torn
  <2>1. events' = events
    BY <1>2 DEF AppendLine
  <2>2. Torn \in Range(events)
    <3>1. Len(events) \in DOMAIN events /\ events[Len(events)] = Torn
      BY <1>1, <1>2 DEF Last
    <3> QED
      BY <3>1 DEF Range
  <2> QED
    BY <2>1, <2>2
<1>3. CASE ~ (events # << >> /\ Last(events) = Torn)
  <2>1. events' = Append(events, line)
    BY <1>3 DEF AppendLine
  <2>2. \A n \in DOMAIN events : n \in DOMAIN events' /\ events'[n] = events[n]
    BY <1>1, <2>1
  <2>3. Torn \in Range(events) => Torn \in Range(events')
    BY <2>2 DEF Range
  <2>4. line = Torn => Torn \in Range(events')
    <3>1. Len(events) + 1 \in DOMAIN events' /\ events'[Len(events) + 1] = line
      BY <1>1, <2>1
    <3> QED
      BY <3>1 DEF Range
  <2>5. \A n : /\ CountOf(events, n) \in Nat
               /\ CountOf(events', n) = CountOf(events, n) + (IF line = n THEN 1 ELSE 0)
    BY <1>1, <2>1, OccurrenceCount
  <2> QED
    BY <1>3, <2>3, <2>4, <2>5
<1> QED
  BY <1>2, <1>3

(* The explanations that are there stay, and so do the lines of the events,     *)
(* unless one is torn.                                                          *)
There == { h \in Hypotheses : files[Explained(h)] # NoFile }
Grown ==
    /\ There \subseteq There'
    /\ Torn \in Range(events) => Torn \in Range(events')
    /\ \/ Torn \in Range(events')
       \/ \A n : CountOf(events, n) \in Nat /\ CountOf(events', n) \in Nat
                 /\ CountOf(events, n) <= CountOf(events', n)

(* No line is lost, unless one is torn.                                        *)
LEMMA LinesStay ==
    ASSUME RecordsInv, events' = events \/ \E line \in Names \cup {Torn} : AppendLine(line)
    PROVE  /\ Torn \in Range(events) => Torn \in Range(events')
           /\ \/ Torn \in Range(events')
              \/ \A n : CountOf(events, n) \in Nat /\ CountOf(events', n) \in Nat
                        /\ CountOf(events, n) <= CountOf(events', n)
<1>1. CASE events' = events
  <2>1. events \in Seq(Names \cup {Torn})
    BY DEF RecordsInv
  <2>2. \A n : CountOf(events, n) \in Nat
    BY <2>1, OccurrenceCount
  <2>3. \A n : CountOf(events', n) = CountOf(events, n)
    BY <1>1
  <2>4. \A c \in Nat : c <= c
    OBVIOUS
  <2> QED
    BY <1>1, <2>2, <2>3, <2>4
<1>2. ASSUME NEW line \in Names \cup {Torn}, AppendLine(line)
      PROVE  /\ Torn \in Range(events) => Torn \in Range(events')
             /\ \/ Torn \in Range(events')
                \/ \A n : CountOf(events, n) \in Nat /\ CountOf(events', n) \in Nat
                          /\ CountOf(events, n) <= CountOf(events', n)
  <2>1. /\ Torn \in Range(events) => Torn \in Range(events')
        /\ \/ Torn \in Range(events')
           \/ \A n : /\ CountOf(events, n) \in Nat
                     /\ CountOf(events', n) = CountOf(events, n) + (IF line = n THEN 1 ELSE 0)
    BY <1>2, LinesGrow
  <2>2. \A n : CountOf(events, n) \in Nat
               /\ CountOf(events', n) = CountOf(events, n) + (IF line = n THEN 1 ELSE 0)
               => /\ CountOf(events', n) \in Nat
                  /\ CountOf(events, n) <= CountOf(events', n)
    <3> SUFFICES ASSUME NEW a \in Nat, NEW b, NEW n, b = a + (IF line = n THEN 1 ELSE 0)
                 PROVE  b \in Nat /\ a <= b
      OBVIOUS
    <3> QED
      OBVIOUS
  <2> QED
    BY <2>1, <2>2
<1> QED
  BY <1>1, <1>2

(* A step of a process alone changes an explanation.                           *)
LEMMA FilesStay ==
    ASSUME IInv, [Next]_vars
    PROVE  \A h \in Hypotheses :
                \/ files'[Explained(h)] = files[Explained(h)]
                \/ \E p \in Procs : /\ At(p, "open") \/ At(p, "write")
                                    /\ Head(jobs[p].todo)[2] = Explained(h)
                                    /\ Step(p)
                                    /\ At(p, "open") => files'[Explained(h)] = Blank
                                    /\ At(p, "write") => files'[Explained(h)] = Content(p)
<1> SUFFICES ASSUME NEW h \in Hypotheses, files'[Explained(h)] # files[Explained(h)]
             PROVE  \E p \in Procs : /\ At(p, "open") \/ At(p, "write")
                                     /\ Head(jobs[p].todo)[2] = Explained(h)
                                     /\ Step(p)
                                     /\ At(p, "open") => files'[Explained(h)] = Blank
                                     /\ At(p, "write") => files'[Explained(h)] = Content(p)
  OBVIOUS
<1>1. Explained(h) \in DOMAIN files
  <2>1. h \in Explainable
    BY DEF Explainable
  <2> QED
    BY <2>1, PathsDiffer DEF IInv, FilesInv
<1>2. ~ Others
  <2>1. ASSUME NEW kind \in Kinds, NEW text, files' = [files EXCEPT ![Ledger(kind)] = text]
        PROVE  FALSE
    <3>1. Ledger(kind) # Explained(h)
      BY PathsDiffer DEF Explainable
    <3> QED
      BY <1>1, <2>1, <3>1
  <2> QED
    BY <2>1, OthersChange
<1>3. PICK p \in Procs : Step(p)
  BY <1>2, StepOrOther
<1>4. Open(p) \/ Write(p)
  BY <1>3, StepChanges
<1>5. ASSUME NEW content, files' = [files EXCEPT ![Arg(p)] = content]
      PROVE  Arg(p) = Explained(h) /\ files'[Explained(h)] = content
  BY <1>1, <1>5
<1>6. CASE Open(p)
  <2>1. At(p, "open") /\ files' = [files EXCEPT ![Arg(p)] = Blank]
    BY <1>6 DEF Open, Puts
  <2>2. ~ At(p, "write")
    BY <2>1 DEF At
  <2> QED
    BY <1>3, <1>5, <2>1, <2>2 DEF Arg
<1>7. CASE Write(p)
  <2>1. At(p, "write") /\ files' = [files EXCEPT ![Arg(p)] = Content(p)]
    BY <1>7 DEF Write, Puts
  <2>2. ~ At(p, "open")
    BY <2>1 DEF At
  <2> QED
    BY <1>3, <1>5, <2>1, <2>2 DEF Arg
<1> QED
  BY <1>4, <1>6, <1>7

(* What is written is no missing file.                                          *)
LEMMA Grows ==
    ASSUME IInv, [Next]_vars
    PROVE  Grown
<1>1. FilesInv /\ RecordsInv /\ JobsInv
  BY DEF IInv
<1>2. events' = events \/ \E line \in Names \cup {Torn} : AppendLine(line)
  <2>1. ASSUME NEW p \in Procs, AppendEvent(p)
        PROVE  AppendLine(jobs[p].project) /\ jobs[p].project \in Names
    <3>1. At(p, "append event") /\ AppendLine(jobs[p].project)
      BY <2>1, Zenon DEF AppendEvent
    <3>2. jobs[p].project \in Names
      BY <1>1, <3>1, AtNamed
    <3> QED
      BY <3>1, <3>2
  <2> QED
    BY <2>1, StepOrOther, StepChanges, OthersChange
<1>3. There \subseteq There'
  <2> SUFFICES ASSUME NEW h \in Hypotheses, files[Explained(h)] # NoFile
               PROVE  files'[Explained(h)] # NoFile
    BY DEF There, Hypotheses
  <2>1. ASSUME NEW p \in Procs, At(p, "write"), Head(jobs[p].todo)[2] = Explained(h)
        PROVE  Content(p) # NoFile
    <3>1. AtStep(jobs[p], Head(jobs[p].todo), valid)
          /\ Head(jobs[p].todo)[1] = "write" /\ Head(jobs[p].todo)[3] = Content(p)
      BY <1>1, <2>1, Acting
    <3>2. << Explained(h), Content(p) >> \in Contents
      BY <2>1, <3>1, StepShape DEF AtStep
    <3>3. Content(p) \in Range(Runs)
      BY <3>2, ContentFits DEF Explainable
    <3> QED
      BY <3>3, WorkspaceRuns
  <2> QED
    BY <2>1, FilesStay, NoContent
<1>4. Hypotheses' = Hypotheses
  BY DEF Hypotheses
<1> QED
  BY <1>1, <1>2, <1>3, LinesStay DEF Grown

-----------------------------------------------------------------------------
(* The jobs, one step on.                                                       *)

(* A job that has as much to do as before, and relies on the same.              *)
SameJob(j, i) ==
    /\ i.todo = j.todo /\ i.name = j.name /\ i.project = j.project /\ i.seen = j.seen
    /\ i.events = j.events /\ i.explained = j.explained
    /\ j.overlapped => i.overlapped
(* A job that has all its steps to do, and what a rebuild notes of the index.   *)
JobBegins(i, c) ==
    /\ i.todo = Append(c.steps, Return1) /\ i.name = c.name
    /\ i.seen = {} /\ i.project = NoFile
    /\ c.name = "rebuild" => /\ i.events = index.events
                             /\ i.explained = RefsOf(index.alternative_explanations)
RebuildBeside(p) == \E q \in Procs \ {p} : jobs[q].name = "rebuild"

(* What begins beside a rebuild overlaps it, when it is another rebuild.       *)
LEMMA BeginChanges ==
    ASSUME IInv, NEW p \in Procs, Begin(p)
    PROVE  \E c \in Commands :
             /\ ~ Working(p) /\ JobBegins(jobs'[p], c)
             /\ c.name = "rebuild" /\ RebuildBeside(p) => jobs'[p].overlapped
             /\ \A q \in Procs \ {p} :
                  /\ SameJob(jobs[q], jobs'[q])
                  /\ c.name = "rebuild" /\ jobs[q].name = "rebuild" => jobs'[q].overlapped
<1>1. /\ ~ Working(p)
      /\ \E c \in Commands, beside \in SUBSET Procs :
           /\ beside = { q \in Procs : c.name = "rebuild" /\ jobs[q].name = "rebuild" }
           /\ jobs' = [q \in Procs |->
                  CASE q # p -> [jobs[q] EXCEPT !.overlapped = @ \/ q \in beside]
                    [] q = p /\ c.name = "rebuild" -> BeganRebuild(c, beside)
                    [] q = p /\ c.name # "rebuild" -> Began(c)]
  BY DEF Begin
<1>2. PICK c \in Commands, beside \in SUBSET Procs :
        /\ beside = { q \in Procs : c.name = "rebuild" /\ jobs[q].name = "rebuild" }
        /\ jobs' = [q \in Procs |->
               CASE q # p -> [jobs[q] EXCEPT !.overlapped = @ \/ q \in beside]
                 [] q = p /\ c.name = "rebuild" -> BeganRebuild(c, beside)
                 [] q = p /\ c.name # "rebuild" -> Began(c)]
  BY <1>1
<1>3. PICK b, r : b = Began(c) /\ r = BeganRebuild(c, beside)
  OBVIOUS
<1>4. jobs' = [q \in Procs |->
               CASE q # p -> [jobs[q] EXCEPT !.overlapped = @ \/ q \in beside]
                 [] q = p /\ c.name = "rebuild" -> r
                 [] q = p /\ c.name # "rebuild" -> b]
  BY <1>2, <1>3, Zenon
<1>5. jobs'[p] = (IF c.name = "rebuild" THEN r ELSE b)
  BY <1>4
<1>6. /\ b.todo = Append(c.steps, Return1) /\ b.name = c.name
      /\ b.seen = {} /\ b.project = NoFile
  BY <1>3 DEF Began, NoJob, Return1
<1>7. /\ r.todo = Append(c.steps, Return1) /\ r.name = c.name
      /\ r.seen = {} /\ r.project = NoFile
      /\ r.overlapped = (beside # {}) /\ r.events = index.events
      /\ r.explained = RefsOf(index.alternative_explanations)
  BY <1>3 DEF BeganRebuild, Began, NoJob, Return1
<1>8. JobBegins(jobs'[p], c)
  BY <1>5, <1>6, <1>7 DEF JobBegins
<1>9. c.name = "rebuild" /\ RebuildBeside(p) => jobs'[p].overlapped
  BY <1>2, <1>5, <1>7 DEF RebuildBeside
<1>10. ASSUME NEW q \in Procs \ {p}
       PROVE  /\ SameJob(jobs[q], jobs'[q])
              /\ c.name = "rebuild" /\ jobs[q].name = "rebuild" => jobs'[q].overlapped
  <2>1. PICK j, i : j = jobs[q] /\ i = [j EXCEPT !.overlapped = @ \/ q \in beside]
    OBVIOUS
  <2>2. jobs'[q] = i
    BY <1>4, <2>1
  <2>3. j \in Job
    BY <2>1 DEF IInv, JobsInv
  <2>4. /\ i.todo = j.todo /\ i.name = j.name /\ i.project = j.project /\ i.seen = j.seen
        /\ i.events = j.events /\ i.explained = j.explained
        /\ i.overlapped = (j.overlapped \/ q \in beside)
    BY <2>1, <2>3 DEF Job
  <2> QED
    BY <1>2, <2>1, <2>2, <2>4 DEF SameJob
<1> QED
  BY <1>1, <1>8, <1>9, <1>10

(* A process stays where it is, ends, goes on or begins.                        *)
JobNext(q) ==
    \/ SameJob(jobs[q], jobs'[q])
    \/ jobs'[q] = NoJob
    \/ Step(q) /\ GoesOn(q, jobs'[q])
    \/ Begin(q) /\ \E c \in Commands : JobBegins(jobs'[q], c)

(* What a step makes of each job.                                              *)
LEMMA JobChanges ==
    ASSUME IInv, FitsInv, [Next]_vars, NEW q \in Procs
    PROVE  JobNext(q)
<1>1. jobs \in [Procs -> Job]
  BY DEF IInv, JobsInv
<1>2. \A j : SameJob(j, j)
  BY DEF SameJob
<1>3. jobs' = jobs => JobNext(q)
  BY <1>2 DEF JobNext
<1>4. ASSUME NEW p \in Procs, NEW i, jobs' = [jobs EXCEPT ![p] = i]
      PROVE  jobs'[p] = i /\ (q # p => JobNext(q))
  <2>1. jobs'[p] = i /\ (q # p => jobs'[q] = jobs[q])
    BY <1>1, <1>4
  <2> QED
    BY <1>2, <2>1 DEF JobNext
<1>5. ASSUME NEW p \in Procs, Raise(p) PROVE JobNext(q)
  <2>1. jobs' = [jobs EXCEPT ![p] = NoJob]
    BY <1>5 DEF Raise, Becomes
  <2> QED
    BY <1>4, <2>1 DEF JobNext
<1>6. ASSUME NEW p \in Procs, Step(p) PROVE JobNext(q)
  <2>1. CASE Raise(p)
    BY <1>5, <2>1
  <2>2. ASSUME NEW i, GoesOn(p, i) PROVE JobNext(q)
    <3>1. jobs' = [jobs EXCEPT ![p] = i]
      BY <2>2 DEF GoesOn
    <3>2. jobs'[p] = i /\ (q # p => JobNext(q))
      BY <1>4, <3>1
    <3>3. GoesOn(p, jobs'[p])
      BY <2>2, <3>2
    <3> QED
      BY <1>6, <3>2, <3>3 DEF JobNext
  <2> QED
    BY <1>6, <2>1, <2>2, StepLeads
<1>7. ASSUME NEW p \in Procs, Begin(p) PROVE JobNext(q)
  <2>1. PICK c \in Commands :
          /\ JobBegins(jobs'[p], c)
          /\ \A k \in Procs \ {p} : SameJob(jobs[k], jobs'[k])
    BY <1>7, BeginChanges
  <2> QED
    BY <1>7, <2>1 DEF JobNext
<1>8. ASSUME NEW p \in Procs, Return(p) \/ Crash(p) PROVE JobNext(q)
  <2>1. Raise(p)
    BY <1>8, Zenon DEF Return, Crash, Raise
  <2> QED
    BY <1>5, <2>1
<1>9. ASSUME NEW kind \in Kinds, Edit(kind) \/ Approve(kind) PROVE JobNext(q)
  <2>1. jobs' = jobs
    BY <1>9, Zenon DEF Edit, Approve, Saved
  <2> QED
    BY <1>3, <2>1
<1>10. UNCHANGED vars => JobNext(q)
  BY <1>3 DEF vars
<1> QED
  BY <1>6, <1>7, <1>8, <1>9, <1>10 DEF Next

(* A job goes on with no more of what it must not do than it has.               *)
LEMMA LeadsHas ==
    ASSUME NEW j, NEW i, NEW n, NEW K, Leads(j, i, n, K), NEW B
    PROVE  /\ j.todo \in Seq(AnyStep) /\ K \in Seq(AnyStep) /\ From(j.todo, n) \in Seq(AnyStep)
           /\ i.todo \in Seq(AnyStep)
           /\ n \in 1 .. Len(j.todo) + 1
           /\ Has(i.todo, B) <=> Has(K, B) \/ Has(From(j.todo, n), B)
           /\ Has(From(j.todo, n), B) => Has(j.todo, B)
           /\ Has(j.todo, B) /\ (\A m \in 1 .. Len(j.todo) : m < n => j.todo[m] \notin B)
                => Has(From(j.todo, n), B)
<1>1. j.todo \in Seq(AnyStep) /\ K \in Seq(AnyStep) /\ n \in 2 .. Len(j.todo)
      /\ i.todo = K \o From(j.todo, n)
  BY DEF Leads, Harmless
<1>2. Len(j.todo) \in Nat
  BY <1>1
<1>3. \A c \in Nat : \A m \in 2 .. c : m \in 1 .. c + 1
  OBVIOUS
<1>4. n \in 1 .. Len(j.todo) + 1
  BY <1>1, <1>2, <1>3
<1>5. From(j.todo, n) \in Seq(AnyStep)
  BY <1>1, <1>4, FromIndex
<1>6. i.todo \in Seq(AnyStep)
  BY <1>1, <1>5
<1>7. Has(i.todo, B) <=> Has(K, B) \/ Has(From(j.todo, n), B)
  <2>1. \A F \in Seq(AnyStep) : Has(K \o F, B) <=> Has(K, B) \/ Has(F, B)
    BY <1>1, ConcatHas
  <2> QED
    BY <1>1, <1>5, <2>1
<1>8. /\ Has(From(j.todo, n), B) => Has(j.todo, B)
      /\ Has(j.todo, B) /\ (\A m \in 1 .. Len(j.todo) : m < n => j.todo[m] \notin B)
           => Has(From(j.todo, n), B)
  <2>1. PICK L : L = j.todo
    OBVIOUS
  <2> QED
    BY <1>1, <1>4, <2>1, FromHas
<1> QED
  BY <1>1, <1>4, <1>5, <1>6, <1>7, <1>8, Zenon

-----------------------------------------------------------------------------
(* The commands, as they begin.                                                 *)

(* The steps that neither write an explanation of another hypothesis, nor index *)
(* one, nor insert an event.                                                    *)
Modest == { s \in AnyStep : s \notin Misfits /\ s \notin Explaining /\ s \notin InsertsEvent }

(* A list of steps that has none of these.                                      *)
LEMMA ModestLists ==
    /\ \A L \in Seq(AnyStep) :
         ~ Has(L, Misfits) /\ ~ Has(L, Explaining) /\ ~ Has(L, InsertsEvent) => L \in Seq(Modest)
    /\ \A L \in Seq(Modest) :
         L \in Seq(AnyStep) /\ ~ Has(L, Misfits) /\ ~ Has(L, Explaining) /\ ~ Has(L, InsertsEvent)
    /\ \A K, L \in Seq(Modest) : K \o L \in Seq(Modest)
<1>1. ASSUME NEW L \in Seq(AnyStep),
             ~ Has(L, Misfits), ~ Has(L, Explaining), ~ Has(L, InsertsEvent)
      PROVE  L \in Seq(Modest)
  <2>1. \A m \in 1 .. Len(L) : L[m] \in Modest
    BY <1>1 DEF Modest, Has
  <2>2. \A S, T : \A M \in Seq(S) : (\A m \in 1 .. Len(M) : M[m] \in T) => M \in Seq(T)
    OBVIOUS
  <2> QED
    BY <2>1, <2>2, Zenon
<1>2. ASSUME NEW L \in Seq(Modest)
      PROVE  L \in Seq(AnyStep) /\ ~ Has(L, Misfits) /\ ~ Has(L, Explaining)
             /\ ~ Has(L, InsertsEvent)
  <2>1. \A S, T : S \subseteq T => Seq(S) \subseteq Seq(T)
    OBVIOUS
  <2>2. Modest \subseteq AnyStep
    BY DEF Modest
  <2>3. L \in Seq(AnyStep)
    BY <2>1, <2>2, Zenon
  <2>4. \A m \in 1 .. Len(L) : L[m] \in Modest
    OBVIOUS
  <2>5. ~ Has(L, Misfits) /\ ~ Has(L, Explaining) /\ ~ Has(L, InsertsEvent)
    BY <2>4 DEF Modest, Has
  <2> QED
    BY <2>3, <2>5
<1>3. \A K, L \in Seq(Modest) : K \o L \in Seq(Modest)
  BY ConcatProperties
<1> QED
  BY <1>1, <1>2, <1>3, Zenon

(* They are so by their operations.                                             *)
LEMMA ModestOps ==
    ASSUME NEW O, O \cap {"write", "if missing", "insert", "insert event"} = {}
    PROVE  Seq(WithOps(O)) \subseteq Seq(Modest)
<1> SUFFICES ASSUME NEW L \in Seq(WithOps(O)) PROVE L \in Seq(Modest)
  OBVIOUS
<1>1. \A B : (\A s \in B : s[1] \notin O) => ~ Has(L, B)
  BY OpsLack
<1>2. /\ \A s \in Misfits : s[1] \notin O
      /\ \A s \in Explaining : s[1] \notin O
      /\ \A s \in InsertsEvent : s[1] \notin O
  <2> SUFFICES ASSUME NEW s PROVE /\ s \in Misfits => s[1] \notin O
                                  /\ s \in Explaining => s[1] \notin O
                                  /\ s \in InsertsEvent => s[1] \notin O
    OBVIOUS
  <2> QED
    BY RecordSorts
<1>3. ~ Has(L, Misfits) /\ ~ Has(L, Explaining) /\ ~ Has(L, InsertsEvent)
  BY <1>1, <1>2, Zenon
<1>4. L \in Seq(AnyStep)
  BY OpsLists
<1> QED
  BY <1>3, <1>4, ModestLists

(* The parts that write files.                                                  *)
LEMMA ModestParts ==
    /\ \A name \in Names : init(name) \in Seq(Modest)
    /\ ensure_research_scaffold \in Seq(Modest)
    /\ discover_or_create \in Seq(Modest) /\ << Return1 >> \in Seq(Modest)
    /\ \A path, c : << path, c >> \in Contents
                    /\ (\A h \in Hypotheses : path = Explained(h) => Manifest[c].hypothesis = h)
                    => write_text(path, c) \in Seq(Modest)
<1>1. ASSUME NEW O, O \subseteq {"if missing", "read project", "insert project", "read events",
                                 "open", "write"},
             NEW L \in Seq(WithOps(O)), ~ Has(L, Misfits)
      PROVE  L \in Seq(Modest)
  <2>1. L \in Seq(AnyStep)
    BY OpsLists
  <2>2. /\ \A s \in Explaining : s[1] \notin O
        /\ \A s \in InsertsEvent : s[1] \notin O
    <3> SUFFICES ASSUME NEW s PROVE /\ s \in Explaining => s[1] \notin O
                                    /\ s \in InsertsEvent => s[1] \notin O
      OBVIOUS
    <3> QED
      BY <1>1, RecordSorts
  <2>3. ~ Has(L, Explaining) /\ ~ Has(L, InsertsEvent)
    BY <2>2, OpsLack
  <2> QED
    BY <1>1, <2>1, <2>3, ModestLists
<1>2. ASSUME NEW name \in Names PROVE init(name) \in Seq(Modest)
  <2>1. ~ Has(init(name), Misfits)
    BY HarmlessInit DEF Harmless
  <2> QED
    BY <1>1, <2>1, InitOps
<1>3. ensure_research_scaffold \in Seq(Modest)
  BY <1>1, ScaffoldFits, ListParts
<1>4. discover_or_create \in Seq(Modest)
  BY ListParts, ModestOps
<1>5. << Return1 >> \in Seq(Modest)
  <2>1. << << "return" >> >> \in Seq(WithOps({"return"}))
    BY OpsLists DEF PlainOps
  <2>2. Return1 = << "return" >>
    BY DEF Return1
  <2> QED
    BY <2>1, <2>2, ModestOps
<1>6. ASSUME NEW path, NEW c, << path, c >> \in Contents,
             \A h \in Hypotheses : path = Explained(h) => Manifest[c].hypothesis = h
      PROVE  write_text(path, c) \in Seq(Modest)
  <2>1. ~ Has(write_text(path, c), Misfits)
    BY <1>6, HarmlessWrite DEF Harmless
  <2>2. write_text(path, c) \in Seq(WithOps({"open", "write"}))
    BY <1>6, FileParts
  <2> QED
    BY <1>1, <2>1, <2>2
<1> QED
  BY <1>2, <1>3, <1>4, <1>5, <1>6

(* The row of an explanation comes after its file has been opened.              *)
ExplainedFirst(L) == \A h \in Hypotheses : Precedes(L, Explains(h), Opens(h), FALSE)
Careful(L) == /\ L \in Seq(AnyStep) /\ ~ Has(L, Misfits) /\ ~ Has(L, InsertsEvent)
              /\ ExplainedFirst(L)

(* A list of such steps is careful.                                            *)
LEMMA ModestCareful ==
    ASSUME NEW L \in Seq(Modest)
    PROVE  Careful(L)
<1>1. L \in Seq(AnyStep) /\ ~ Has(L, Misfits) /\ ~ Has(L, Explaining) /\ ~ Has(L, InsertsEvent)
  BY ModestLists
<1>2. \A h \in Hypotheses : \A i \in 1 .. Len(L) : L[i] \notin Explains(h)
  BY <1>1, RecordSorts DEF Has
<1> QED
  BY <1>1, <1>2 DEF Careful, ExplainedFirst, Precedes

(* The steps that explain a run are careful.                                   *)
LEMMA ExplainCareful ==
    ASSUME NEW r \in Range(Runs)
    PROVE  Careful(Append(explain(r), Return1))
<1>1. PICK x, last, a, b, d :
        /\ x = Manifest[r].hypothesis
        /\ last = << "insert", "alternative_explanations", Row(x, r) >>
        /\ a = write_text(Explained(r), r) /\ b = write_text(Explained(x), r)
        /\ d = discover_or_create
  OBVIOUS
<1>2. r \in Explainable /\ x \in Explainable /\ x \in Hypotheses
  BY <1>1 DEF Explainable, Hypotheses
<1>3. \A y \in Explainable : << Explained(y), r >> \in Contents
  BY DEF Contents, ExplainedContents
<1>4. a \in Seq(Modest)
  <2>1. ASSUME NEW h \in Hypotheses PROVE Explained(r) # Explained(h)
    <3>1. h \in Explainable /\ r # h
      BY WorkspaceRuns DEF Explainable
    <3> QED
      BY <1>2, <3>1, PathsDiffer
  <2> QED
    BY <1>1, <1>2, <1>3, <2>1, ModestParts
<1>5. b \in Seq(Modest)
  <2>1. ASSUME NEW h \in Hypotheses, Explained(x) = Explained(h) PROVE Manifest[r].hypothesis = h
    <3>1. h \in Explainable
      BY DEF Explainable
    <3> QED
      BY <1>1, <1>2, <2>1, <3>1, PathsDiffer
  <2> QED
    BY <1>1, <1>2, <1>3, <2>1, ModestParts
<1>6. PICK P : P = (d \o a) \o b
  OBVIOUS
<1>7. P \in Seq(Modest) /\ Careful(P) /\ P \in Seq(AnyStep)
  <2>1. d \in Seq(Modest)
    BY <1>1, ModestParts
  <2>2. P \in Seq(Modest)
    BY <1>4, <1>5, <1>6, <2>1, ModestLists
  <2> QED
    BY <2>2, ModestLists, ModestCareful
<1>8. Has(P, Opens(x))
  <2>1. b \in Seq(AnyStep) /\ d \o a \in Seq(AnyStep)
    <3>1. d \in Seq(Modest)
      BY <1>1, ModestParts
    <3> QED
      BY <1>4, <1>5, <3>1, ModestLists
  <2>2. Has(b, Opens(x))
    <3>1. b = << << "open", Explained(x) >>, << "write", Explained(x), r >> >>
      BY <1>1 DEF write_text
    <3>2. 1 \in 1 .. Len(b) /\ b[1] = << "open", Explained(x) >>
      BY <3>1
    <3> QED
      BY <3>2 DEF Has, Opens
  <2> QED
    BY <1>6, <2>1, <2>2, ConcatHas
<1>9. last \in AnyStep /\ last[1] = "insert" /\ \A h : last \in Explains(h) => h = x
  <2>1. last \in ExplainInserts
    BY <1>1 DEF ExplainInserts
  <2>2. last \in AnyStep
    BY <2>1 DEF AnyStep, Steps, OtherSteps
  <2>3. last[1] = "insert" /\ last[3].ref = x
    BY <1>1 DEF Row
  <2> QED
    BY <2>2, <2>3, RecordSorts
<1>10. PICK Q : Q = << last, Return1 >>
  OBVIOUS
<1>11. Return1 \in AnyStep /\ Return1[1] = "return"
  <2>1. << "return" >> \in AnyStep
    BY OpsLists DEF PlainOps
  <2>2. << "return" >>[1] = "return"
    OBVIOUS
  <2> QED
    BY <2>1, <2>2 DEF Return1
<1>12. Q \in Seq(AnyStep) /\ \A i \in 1 .. Len(Q) : Q[i] \in {last, Return1}
  BY <1>9, <1>10, <1>11
<1>13. Append(explain(r), Return1) = P \o Q
  <2>1. explain(r) = P \o << last >>
    BY <1>1, <1>6, Zenon DEF explain
  <2>2. \A L \in Seq(AnyStep) : Append(L \o << last >>, Return1) = L \o << last, Return1 >>
    BY <1>9, <1>11
  <2> QED
    BY <1>7, <1>10, <2>1, <2>2
<1>14. ~ Has(Q, Misfits) /\ ~ Has(Q, InsertsEvent)
  <2>1. \A s \in {last, Return1} : s[1] \in {"insert", "return"}
    BY <1>9, <1>11
  <2>2. \A s \in {last, Return1} : s \notin Misfits /\ s \notin InsertsEvent
    BY <2>1, RecordSorts
  <2> QED
    BY <1>12, <2>2 DEF Has
<1>15. ASSUME NEW h \in Hypotheses PROVE Precedes(P \o Q, Explains(h), Opens(h), FALSE)
  <2>1. Precedes(P, Explains(h), Opens(h), FALSE)
    BY <1>7 DEF Careful, ExplainedFirst
  <2>2. Return1 \notin Explains(h)
    BY <1>11, RecordSorts
  <2>3. \A i \in 1 .. Len(Q) : Q[i] \in Explains(h) => h = x
    BY <1>9, <1>12, <2>2
  <2>4. PICK then : then = Has(P, Opens(h)) /\ then \in BOOLEAN
    BY DEF Has
  <2>5. Precedes(Q, Explains(h), Opens(h), then)
    BY <1>8, <2>3, <2>4 DEF Precedes
  <2> QED
    BY <1>7, <1>12, <2>1, <2>4, <2>5, ConcatPrecedes
<1>16. ~ Has(P \o Q, Misfits) /\ ~ Has(P \o Q, InsertsEvent)
  <2>1. ~ Has(P, Misfits) /\ ~ Has(P, InsertsEvent)
    BY <1>7 DEF Careful
  <2> QED
    BY <1>7, <1>12, <1>14, <2>1, ConcatHas
<1>17. P \o Q \in Seq(AnyStep)
  BY <1>7, <1>12
<1>18. Careful(P \o Q)
  BY <1>15, <1>16, <1>17 DEF Careful, ExplainedFirst
<1> QED
  BY <1>13, <1>18

(* Every command begins so.                                                     *)
LEMMA CommandCareful ==
    ASSUME NEW c \in Commands
    PROVE  Careful(Append(c.steps, Return1))
<1>1. ASSUME NEW L \in Seq(Modest) PROVE Careful(Append(L, Return1))
  <2>1. << Return1 >> \in Seq(Modest) /\ Return1 \in Modest
    <3>1. << Return1 >> \in Seq(Modest)
      BY ModestParts
    <3>2. \A x : \A S : << x >> \in Seq(S) => x \in S
      <4> SUFFICES ASSUME NEW x, NEW S, << x >> \in Seq(S) PROVE x \in S
        OBVIOUS
      <4>1. Len(<< x >>) = 1 /\ << x >>[1] = x
        OBVIOUS
      <4> QED
        BY <4>1
    <3> QED
      BY <3>1, <3>2
  <2>2. Append(L, Return1) \in Seq(Modest)
    BY <1>1, <2>1
  <2> QED
    BY <2>2, ModestCareful
<1>2. ASSUME NEW n \in Names PROVE Careful(Append(init(n), Return1))
  BY <1>1, ModestParts
<1>3. ASSUME NEW r \in Reviewed PROVE propose_run_ledger_row(r) \in Seq(Modest)
  <2>1. PICK x : x = run_proposal(Manifest[r], Report[r])
    OBVIOUS
  <2>2. x \in Proposals("runs")
    BY <2>1 DEF Proposals
  <2>3. << Proposal("runs"), x >> \in Contents
    <3>1. << Proposal("runs"), x >> \in {Proposal("runs")} \X Proposals("runs")
      BY <2>2
    <3>2. << Proposal("runs"), x >> \in ProposalContents
      BY <3>1 DEF ProposalContents, Proposable
    <3> QED
      BY <3>2 DEF Contents
  <2>4. \A h \in Hypotheses : Proposal("runs") # Explained(h)
    BY PathsDiffer DEF Proposable, Explainable
  <2>5. write_text(Proposal("runs"), x) \in Seq(Modest)
    BY <2>3, <2>4, ModestParts
  <2> QED
    BY <2>1, <2>5, ModestParts, ModestLists DEF propose_run_ledger_row
<1>4. ASSUME NEW card \in Cards PROVE propose_claim_update(card) \in Seq(Modest)
  <2>1. PICK x : x = claim_proposal(card)
    OBVIOUS
  <2>2. x \in Proposals("claims")
    BY <2>1 DEF Proposals
  <2>3. << Proposal("claims"), x >> \in Contents
    <3>1. << Proposal("claims"), x >> \in {Proposal("claims")} \X Proposals("claims")
      BY <2>2
    <3>2. << Proposal("claims"), x >> \in ProposalContents
      BY <3>1 DEF ProposalContents, Proposable
    <3> QED
      BY <3>2 DEF Contents
  <2>4. \A h \in Hypotheses : Proposal("claims") # Explained(h)
    BY PathsDiffer DEF Proposable, Explainable
  <2>5. write_text(Proposal("claims"), x) \in Seq(Modest)
    BY <2>3, <2>4, ModestParts
  <2> QED
    BY <2>1, <2>5, ModestParts, ModestLists DEF propose_claim_update
<1>5. validate_ledgers \in Seq(Modest)
  <2>1. PICK I : I = << << "index ledgers" >> >>
    OBVIOUS
  <2>2. I \in Seq(Modest)
    <3>1. I \in Seq(WithOps({"index ledgers"}))
      BY <2>1, OpsLists DEF PlainOps
    <3>2. {"index ledgers"} \cap {"write", "if missing", "insert", "insert event"} = {}
      BY Zenon
    <3> QED
      BY <3>1, <3>2, ModestOps
  <2>3. parse_research_ledgers \in Seq(Modest)
    BY ListParts, ModestOps
  <2>4. discover_or_create \o ensure_research_scaffold \in Seq(Modest)
    BY ModestParts, ModestLists
  <2>5. (discover_or_create \o ensure_research_scaffold) \o parse_research_ledgers \in Seq(Modest)
    BY <2>3, <2>4, ModestLists
  <2>6. validate_ledgers
          = ((discover_or_create \o ensure_research_scaffold) \o parse_research_ledgers) \o I
    BY <2>1, Zenon DEF validate_ledgers
  <2> QED
    BY <2>2, <2>5, <2>6, ModestLists
<1>6. rebuild_index \in Seq(Modest)
  <2>1. discover \in Seq(Modest) /\ parse_research_ledgers \in Seq(Modest)
    BY ListParts, ModestOps
  <2>2. RestoreFiles \in Seq(Modest)
    <3>1. RestoreOps \cap {"write", "if missing", "insert", "insert event"} = {}
      BY Zenon DEF RestoreOps
    <3> QED
      BY <3>1, ListParts, ModestOps
  <2>3. PICK R : R = << << "restore ledgers" >> >>
    OBVIOUS
  <2>4. R \in Seq(Modest)
    <3>1. R \in Seq(WithOps({"restore ledgers"}))
      BY <2>3, OpsLists DEF PlainOps
    <3>2. {"restore ledgers"} \cap {"write", "if missing", "insert", "insert event"} = {}
      BY Zenon
    <3> QED
      BY <3>1, <3>2, ModestOps
  <2>5. RestoreLedgers \in Seq(Modest)
    <3>1. RestoreLedgers = parse_research_ledgers \o R
      BY <2>3, Zenon DEF RestoreLedgers
    <3> QED
      BY <2>1, <2>4, <3>1, ModestLists
  <2>6. discover \o RestoreFiles \in Seq(Modest)
    BY <2>1, <2>2, ModestLists
  <2> QED
    BY <2>5, <2>6, ModestLists, Zenon DEF rebuild_index
<1> QED
  <2>1. PICK V, R : V = [name |-> "validate", steps |-> validate_ledgers]
                    /\ R = [name |-> "rebuild", steps |-> rebuild_index]
    OBVIOUS
  <2>2. V.steps = validate_ledgers /\ R.steps = rebuild_index
    BY <2>1
  <2>3. \/ \E n \in Names : c = [name |-> "init", steps |-> init(n)]
        \/ c = V
        \/ \E r \in Reviewed : c = [name |-> "propose", steps |-> propose_run_ledger_row(r)]
        \/ \E d \in Cards : c = [name |-> "propose", steps |-> propose_claim_update(d)]
        \/ \E r \in Range(Runs) : c = [name |-> "explain", steps |-> explain(r)]
        \/ c = R
    BY <2>1, Zenon DEF Commands
  <2> QED
    BY <1>1, <1>2, <1>3, <1>4, <1>5, <1>6, <2>2, <2>3, ExplainCareful

-----------------------------------------------------------------------------
(* The order of a rebuild.                                                      *)

(* The tables are removed and made before rows go into them.                    *)
RebuildOrder(L) ==
    /\ Follows(L, Making, EventsStep) /\ Follows(L, Unlinks, Schema)
    /\ \A h \in Hypotheses : Follows(L, Making, HypothesisStep(h))
    /\ \A r \in Range(Runs) : Follows(L, Making, RunStep(r))
    /\ Never(L, Restores, Making)
Restoring1(L) ==
    /\ Has(L, EventsStep)
    /\ \A h \in Hypotheses : Has(L, HypothesisStep(h))
    /\ \A r \in Range(Runs) : Has(L, RunStep(r))

(* A list has a step for each element of another one.                           *)
LEMMA EachHas ==
    ASSUME NEW S, NEW L \in Seq(S), NEW op, \A x \in S : << op, x >> \in WithOps({op}),
           NEW M, M = [i \in DOMAIN L |-> << op, L[i] >>]
    PROVE  M \in Seq(WithOps({op})) /\ \A x \in Range(L) : Has(M, {<< op, x >>})
<1>1. DOMAIN L = 1 .. Len(L) /\ Len(L) \in Nat /\ \A i \in 1 .. Len(L) : L[i] \in S
  OBVIOUS
<1>2. \A n \in Nat : \A T : \A f \in [1 .. n -> T] : f \in Seq(T) /\ Len(f) = n
  OBVIOUS
<1>3. M \in [1 .. Len(L) -> WithOps({op})]
  BY <1>1
<1>4. M \in Seq(WithOps({op})) /\ Len(M) = Len(L)
  BY <1>1, <1>2, <1>3, Zenon
<1>5. ASSUME NEW x \in Range(L) PROVE Has(M, {<< op, x >>})
  <2>1. PICK i \in 1 .. Len(L) : L[i] = x
    BY <1>1 DEF Range
  <2>2. M[i] = << op, x >> /\ i \in 1 .. Len(M)
    BY <1>1, <1>4, <2>1
  <2> QED
    BY <2>2 DEF Has
<1> QED
  BY <1>4, <1>5

(* A rebuild is that of its tables, and then of all rows.                       *)
LEMMA RebuildParts ==
    \E D, N, Y : /\ Append(rebuild_index, Return1) = D \o (N \o Y)
                 /\ D \in Seq(AnyStep) /\ N \in Seq(AnyStep) /\ Y \in Seq(AnyStep)
                 /\ ~ Has(D, Making) /\ ~ Has(D, Restores)
                 /\ ~ Has(N, Restores) /\ Has(N, Schema) /\ Follows(N, Unlinks, Schema)
                 /\ ~ Has(Y, Making) /\ Restoring1(Y)
<1>c. \A t, v \in Seq(AnyStep) : t \o v \in Seq(AnyStep)
  BY ConcatProperties
<1>h. \A t, v \in Seq(AnyStep) : \A B : Has(t \o v, B) <=> Has(t, B) \/ Has(v, B)
  BY ConcatHas
<1>s. /\ \A x \in AnyStep : << x >> \in Seq(AnyStep)
      /\ \A x, y \in AnyStep : << x, y >> \in Seq(AnyStep)
  OBVIOUS
<1>1. PICK u, s, e, D, N, E, R, H, P, l :
        /\ u = << "unlink" >> /\ s = << "initialize schema" >> /\ e = << "restore events" >>
        /\ D = discover /\ N = << u, s >> /\ E = << e >>
        /\ R = [i \in DOMAIN Runs |-> << "restore run", Runs[i] >>]
        /\ H = [i \in DOMAIN SetToSeq(Hypotheses) |->
                    << "restore hypothesis", SetToSeq(Hypotheses)[i] >>]
        /\ P = parse_research_ledgers /\ l = << "restore ledgers" >>
  OBVIOUS
<1>2. /\ u \in AnyStep /\ s \in AnyStep /\ e \in AnyStep /\ l \in AnyStep /\ Return1 \in AnyStep
      /\ u[1] = "unlink" /\ s[1] = "initialize schema" /\ e[1] = "restore events"
      /\ l[1] = "restore ledgers" /\ Return1[1] = "return"
  <2>1. /\ << "unlink" >> \in AnyStep /\ << "initialize schema" >> \in AnyStep
        /\ << "restore events" >> \in AnyStep /\ << "restore ledgers" >> \in AnyStep
        /\ << "return" >> \in AnyStep
    BY OpsLists DEF PlainOps
  <2>2. \A op : << op >>[1] = op
    OBVIOUS
  <2> QED
    BY <1>1, <2>1, <2>2, Zenon DEF Return1
<1>3. D \in Seq(WithOps({"discover"})) /\ P \in Seq(WithOps({"parse"}))
  BY <1>1, ListParts
<1>4. CalmSteps \subseteq AnyStep
  BY DEF CalmSteps, AnyStep, Steps
<1>5. /\ \A r \in Range(Runs) : << "restore run", r >> \in WithOps({"restore run"})
      /\ \A h \in Hypotheses : << "restore hypothesis", h >> \in WithOps({"restore hypothesis"})
  <2>1. \A x, y : << x, y >>[1] = x
    OBVIOUS
  <2> QED
    BY <1>4, <2>1, CalmOnes DEF WithOps
<1>6. R \in Seq(WithOps({"restore run"})) /\ \A r \in Range(Runs) : Has(R, RunStep(r))
  <2>1. Runs \in Seq(Range(Runs))
    BY WorkspaceNames
  <2>2. R \in Seq(WithOps({"restore run"}))
        /\ \A r \in Range(Runs) : Has(R, {<< "restore run", r >>})
    BY <1>1, <1>5, <2>1, EachHas, Zenon
  <2> QED
    BY <2>2, Zenon DEF RunStep
<1>7. H \in Seq(WithOps({"restore hypothesis"})) /\ \A h \in Hypotheses : Has(H, HypothesisStep(h))
  <2>1. PICK L : L = SetToSeq(Hypotheses)
    OBVIOUS
  <2>2. L \in Seq(Hypotheses) /\ \A h \in Hypotheses : h \in Range(L)
    <3>1. L \in Seq(Hypotheses)
      BY <2>1, HypothesesFinite, SetToSeqTyped
    <3>2. \A h \in Hypotheses : h \in Range(L)
      BY <2>1, HypothesesFinite, SetToSeqHas DEF Range
    <3> QED
      BY <3>1, <3>2
  <2>3. H = [i \in DOMAIN L |-> << "restore hypothesis", L[i] >>]
    BY <1>1, <2>1, Zenon
  <2>4. H \in Seq(WithOps({"restore hypothesis"}))
        /\ \A h \in Range(L) : Has(H, {<< "restore hypothesis", h >>})
    BY <1>5, <2>2, <2>3, EachHas, Zenon
  <2> QED
    BY <2>2, <2>4, Zenon DEF HypothesisStep
<1>8. PICK V, Z, Y : /\ V = (E \o R) \o H /\ Z = P \o (<< l >> \o << Return1 >>)
                     /\ Y = V \o Z
  OBVIOUS
<1>9. /\ D \in Seq(AnyStep) /\ N \in Seq(AnyStep) /\ E \in Seq(AnyStep) /\ R \in Seq(AnyStep)
      /\ H \in Seq(AnyStep) /\ P \in Seq(AnyStep)
  <2>1. N \in Seq(AnyStep) /\ E \in Seq(AnyStep)
    BY <1>c, <1>s, <1>1, <1>2, Zenon
  <2> QED
    BY <1>3, <1>6, <1>7, <2>1, OpsLists
<1>10. << l >> \in Seq(AnyStep) /\ << Return1 >> \in Seq(AnyStep)
       /\ << l >> \o << Return1 >> \in Seq(AnyStep)
  BY <1>c, <1>s, <1>2, Zenon
<1>11. V \in Seq(AnyStep) /\ Z \in Seq(AnyStep) /\ Y \in Seq(AnyStep) /\ E \o R \in Seq(AnyStep)
  <2>1. V \in Seq(AnyStep) /\ E \o R \in Seq(AnyStep)
    BY <1>c, <1>s, <1>8, <1>9, Zenon
  <2>2. Z \in Seq(AnyStep)
    BY <1>c, <1>s, <1>8, <1>9, <1>10, Zenon
  <2> QED
    BY <1>c, <1>s, <1>8, <2>1, <2>2, Zenon
<1>12. Append(rebuild_index, Return1) = D \o (N \o Y)
  <2>1. RestoreFiles = (<< u, s, e >> \o R) \o H
    BY <1>1, Zenon DEF RestoreFiles
  <2>2. << u, s, e >> = N \o E
    <3>1. \A x, y, z : << x, y, z >> = << x, y >> \o << z >>
      OBVIOUS
    <3>2. N = << u, s >> /\ E = << e >>
      BY <1>1, Zenon
    <3> QED
      BY <3>1, <3>2
  <2>3. PICK F, L : F = RestoreFiles /\ L = Append(rebuild_index, Return1)
    OBVIOUS
  <2>4. F = ((N \o E) \o R) \o H
    BY <2>1, <2>2, <2>3, Zenon
  <2>5. L = Append((D \o F) \o (P \o << l >>), Return1)
    BY <1>1, <2>3, Zenon DEF rebuild_index, RestoreLedgers
  <2>6. l \in AnyStep /\ Return1 \in AnyStep
    BY <1>2, Zenon
  <2>7. PICK X, A : X = E \o R /\ A = D \o F
    OBVIOUS
  <2>8. X \in Seq(AnyStep)
    BY <1>c, <1>9, <2>7, Zenon
  <2>9. F = N \o V
    <3>1. (N \o E) \o R = N \o (E \o R)
      <4>1. N \in Seq(AnyStep) /\ E \in Seq(AnyStep) /\ R \in Seq(AnyStep)
        BY <1>9, Zenon
      <4> QED
        BY <4>1, Associated
    <3>2. (N \o X) \o H = N \o (X \o H)
      <4>1. N \in Seq(AnyStep) /\ X \in Seq(AnyStep) /\ H \in Seq(AnyStep)
        BY <1>9, <2>8, Zenon
      <4> QED
        BY <4>1, Associated
    <3>3. V = X \o H
      BY <1>8, <2>7, Zenon
    <3> QED
      BY <2>4, <2>7, <3>1, <3>2, <3>3, Zenon
  <2>10. F \in Seq(AnyStep)
    BY <1>c, <1>9, <1>11, <2>9, Zenon
  <2>11. A \in Seq(AnyStep)
    BY <1>c, <1>9, <2>7, <2>10, Zenon
  <2>12. L = A \o Z
    <3>1. Append(A \o (P \o << l >>), Return1) = A \o (P \o (<< l >> \o << Return1 >>))
      <4>1. A \in Seq(AnyStep) /\ P \in Seq(AnyStep)
        BY <1>9, <2>11, Zenon
      <4> QED
        BY <4>1, <2>6, TwoLast
    <3> QED
      BY <1>8, <2>5, <2>7, <3>1, Zenon
  <2>13. A \o Z = D \o (F \o Z)
    <3>1. (D \o F) \o Z = D \o (F \o Z)
      <4>1. D \in Seq(AnyStep) /\ F \in Seq(AnyStep) /\ Z \in Seq(AnyStep)
        BY <1>9, <1>11, <2>10, Zenon
      <4> QED
        BY <4>1, Associated
    <3> QED
      BY <2>7, <3>1, Zenon
  <2>14. F \o Z = N \o (V \o Z)
    <3>1. (N \o V) \o Z = N \o (V \o Z)
      <4>1. N \in Seq(AnyStep) /\ V \in Seq(AnyStep) /\ Z \in Seq(AnyStep)
        BY <1>9, <1>11, Zenon
      <4> QED
        BY <4>1, Associated
    <3> QED
      BY <2>9, <3>1, Zenon
  <2> QED
    BY <1>8, <2>3, <2>12, <2>13, <2>14, Zenon
<1>13. /\ ~ Has(D, Making) /\ ~ Has(D, Restores)
       /\ ~ Has(E, Making) /\ ~ Has(R, Making) /\ ~ Has(H, Making) /\ ~ Has(P, Making)
  <2>1. \A x : /\ x \in Making => x[1] \in {"unlink", "initialize schema"}
               /\ x \in Restores =>
                    x[1] \in {"restore events", "restore run", "restore hypothesis"}
    BY RecordSorts, Zenon
  <2>2. /\ \A x \in Making : x[1] \notin {"discover"} /\ x[1] \notin {"parse"}
               /\ x[1] \notin {"restore run"} /\ x[1] \notin {"restore hypothesis"}
               /\ x[1] # "restore events"
        /\ \A x \in Restores : x[1] \notin {"discover"}
    BY <2>1
  <2>3. ~ Has(D, Making) /\ ~ Has(D, Restores) /\ ~ Has(P, Making)
    BY <1>3, <2>2, OpsLack, Zenon
  <2>4. ~ Has(R, Making) /\ ~ Has(H, Making)
    BY <1>6, <1>7, <2>2, OpsLack, Zenon
  <2>5. \A i \in 1 .. Len(<< e >>) : << e >>[i] = e
    OBVIOUS
  <2>6. e \notin Making
    BY <1>2, <2>2, Zenon
  <2>7. ~ Has(E, Making)
    BY <1>1, <2>5, <2>6, Zenon DEF Has
  <2> QED
    BY <2>3, <2>4, <2>7
<1>14. ~ Has(<< l >> \o << Return1 >>, Making)
  <2>1. \A x \in Making : x[1] # "restore ledgers" /\ x[1] # "return"
    <3> SUFFICES ASSUME NEW x \in Making PROVE x[1] # "restore ledgers" /\ x[1] # "return"
      OBVIOUS
    <3> QED
      BY RecordSorts
  <2>2. l \notin Making /\ Return1 \notin Making
    BY <1>2, <2>1, Zenon
  <2>3. \A x : \A i \in 1 .. Len(<< x >>) : << x >>[i] = x
    OBVIOUS
  <2>4. ~ Has(<< l >>, Making) /\ ~ Has(<< Return1 >>, Making)
    BY <2>2, <2>3, Zenon DEF Has
  <2> QED
    BY <1>10, <2>4, <1>h, Zenon
<1>15. ~ Has(Y, Making)
  <2>1. ~ Has(E \o R, Making)
    BY <1>9, <1>13, <1>h, Zenon
  <2>2. ~ Has(V, Making)
    BY <1>8, <1>9, <1>11, <1>13, <2>1, <1>h, Zenon
  <2>3. ~ Has(Z, Making)
    <3>1. PICK T : T = << l >> \o << Return1 >>
      OBVIOUS
    <3>2. T \in Seq(AnyStep) /\ ~ Has(T, Making) /\ Z = P \o T
      BY <1>8, <1>10, <1>14, <3>1, Zenon
    <3> QED
      BY <1>9, <1>13, <3>2, <1>h, Zenon
  <2> QED
    BY <1>8, <1>11, <2>2, <2>3, <1>h, Zenon
<1>16. Restoring1(Y)
  <2>1. Has(E, EventsStep)
    <3>1. \A x : 1 \in 1 .. Len(<< x >>) /\ << x >>[1] = x
      OBVIOUS
    <3>2. e \in EventsStep
      BY <1>1, Zenon DEF EventsStep
    <3> QED
      BY <1>1, <3>1, <3>2, Zenon DEF Has
  <2>2. \A B : Has(E, B) \/ Has(R, B) \/ Has(H, B) => Has(Y, B)
    <3> SUFFICES ASSUME NEW B, Has(E, B) \/ Has(R, B) \/ Has(H, B) PROVE Has(Y, B)
      OBVIOUS
    <3>1. Has(E \o R, B) \/ Has(H, B)
      BY <1>9, <1>h, Zenon
    <3>2. Has(V, B)
      BY <1>8, <1>9, <1>11, <3>1, <1>h, Zenon
    <3> QED
      BY <1>8, <1>11, <3>2, <1>h, Zenon
  <2> QED
    BY <1>6, <1>7, <2>1, <2>2, Zenon DEF Restoring1
<1>17. ~ Has(N, Restores) /\ Has(N, Schema) /\ Follows(N, Unlinks, Schema)
  <2>1. Len(N) = 2 /\ N[1] = u /\ N[2] = s
    BY <1>1, Zenon
  <2>2. \A i \in 1 .. Len(N) : i = 1 \/ i = 2
    BY <2>1
  <2>3. u \notin Restores /\ s \notin Restores
    <3>1. \A x \in Restores : x[1] # "unlink" /\ x[1] # "initialize schema"
      <4>1. \A x \in Restores : x[1] \in {"restore events", "restore run", "restore hypothesis"}
        BY RecordSorts, Zenon
      <4> QED
        BY <4>1
    <3> QED
      BY <1>2, <3>1, Zenon
  <2>4. s \in Schema /\ s \notin Unlinks
    <3>1. s \in Schema
      BY <1>1, Zenon DEF Schema
    <3>2. \A x \in Unlinks : x[1] = "unlink"
      BY RecordSorts, Zenon
    <3>3. "unlink" # "initialize schema"
      BY Zenon
    <3> QED
      BY <1>2, <3>1, <3>2, <3>3, Zenon
  <2>5. 1 \in 1 .. Len(N) /\ 2 \in 1 .. Len(N) /\ 1 < 2
    BY <2>1
  <2> QED
    BY <2>1, <2>2, <2>3, <2>4, <2>5, Zenon DEF Has, Follows
<1> QED
  BY <1>9, <1>11, <1>12, <1>13, <1>15, <1>16, <1>17, Zenon

(* A rebuild begins in that order, and with all it has to do.                   *)
LEMMA RebuildBegins ==
    LET L == Append(rebuild_index, Return1)
    IN  RebuildOrder(L) /\ Restoring1(L) /\ Has(L, Schema)
<1>1. PICK D, N, Y : /\ Append(rebuild_index, Return1) = D \o (N \o Y)
                     /\ D \in Seq(AnyStep) /\ N \in Seq(AnyStep) /\ Y \in Seq(AnyStep)
                     /\ ~ Has(D, Making) /\ ~ Has(D, Restores)
                     /\ ~ Has(N, Restores) /\ Has(N, Schema) /\ Follows(N, Unlinks, Schema)
                     /\ ~ Has(Y, Making) /\ Restoring1(Y)
  BY RebuildParts, Zenon
<1>2. PICK M, L : M = N \o Y /\ L = D \o M
  OBVIOUS
<1>3. M \in Seq(AnyStep) /\ L \in Seq(AnyStep)
  BY <1>1, <1>2, ConcatProperties
<1>4. \A B : /\ Has(M, B) <=> Has(N, B) \/ Has(Y, B)
             /\ Has(L, B) <=> Has(D, B) \/ Has(M, B)
  <2>1. \A B : Has(N \o Y, B) <=> Has(N, B) \/ Has(Y, B)
    BY <1>1, ConcatHas
  <2>2. \A B : Has(D \o M, B) <=> Has(D, B) \/ Has(M, B)
    BY <1>1, <1>3, ConcatHas
  <2> QED
    BY <1>2, <2>1, <2>2, Zenon
<1>5. Restoring1(L) /\ Has(L, Schema)
  BY <1>1, <1>4 DEF Restoring1
<1>6. ASSUME NEW B, Has(Y, B) PROVE Follows(L, Making, B)
  <2>1. Follows(Y, Making, B) /\ Follows(D, Making, B)
    BY <1>1, LacksOrder
  <2>2. Follows(M, Making, B)
    BY <1>1, <1>2, <1>6, <2>1, ConcatFollows
  <2> QED
    BY <1>1, <1>2, <1>3, <2>1, <2>2, ConcatFollows
<1>7. ~ Has(D, Unlinks) /\ ~ Has(Y, Unlinks)
  <2>1. Unlinks \subseteq Making
    <3>1. << "unlink" >> \in AnyStep
      BY OpsLists DEF PlainOps
    <3>2. \A s \in Unlinks : s = << "unlink" >> /\ s[1] = "unlink"
      BY DEF Unlinks
    <3> QED
      BY <3>1, <3>2 DEF Making
  <2> QED
    BY <1>1, <2>1 DEF Has
<1>8. Follows(L, Unlinks, Schema)
  <2>1. Follows(Y, Unlinks, Schema) /\ Follows(D, Unlinks, Schema)
    BY <1>7, LacksOrder
  <2>2. Follows(M, Unlinks, Schema)
    BY <1>1, <1>2, <2>1, ConcatFollows
  <2> QED
    BY <1>1, <1>2, <1>3, <2>1, <2>2, ConcatFollows
<1>9. Never(L, Restores, Making)
  <2>1. Never(Y, Restores, Making)
    BY <1>1 DEF Has, Never
  <2>2. Never(M, Restores, Making)
    BY <1>1, <1>2, <2>1, ConcatNever
  <2> QED
    BY <1>1, <1>2, <1>3, <2>2, ConcatNever
<1>10. RebuildOrder(L)
  BY <1>1, <1>6, <1>8, <1>9 DEF RebuildOrder, Restoring1
<1> QED
  BY <1>1, <1>2, <1>5, <1>10, Zenon

-----------------------------------------------------------------------------
(* What holds of explanations.                                                  *)

(* The lists that the jobs go on with.                                          *)
LEMMA NextTodo ==
    ASSUME IInv, FitsInv, [Next]_vars, NEW q \in Procs
    PROVE  \/ jobs'[q].todo = jobs[q].todo
           \/ jobs'[q].todo = << >>
           \/ Step(q) /\ \E n, K : Leads(jobs[q], jobs'[q], n, K)
           \/ \E c \in Commands : jobs'[q].todo = Append(c.steps, Return1)
<1>1. JobNext(q)
  BY JobChanges
<1>2. SameJob(jobs[q], jobs'[q]) => jobs'[q].todo = jobs[q].todo
  BY DEF SameJob
<1>3. jobs'[q] = NoJob => jobs'[q].todo = << >>
  BY NoJobGood
<1>4. GoesOn(q, jobs'[q]) => \E n, K : Leads(jobs[q], jobs'[q], n, K)
  BY Zenon DEF GoesOn
<1>5. \A c : JobBegins(jobs'[q], c) => jobs'[q].todo = Append(c.steps, Return1)
  BY DEF JobBegins
<1> QED
  BY <1>1, <1>2, <1>3, <1>4, <1>5 DEF JobNext

(* An explanation stays that of its hypothesis.                                 *)
LEMMA FitsNext ==
    ASSUME IInv, FitsInv, [Next]_vars
    PROVE  FitsInv'
<1>1. ASSUME NEW h \in Hypotheses
      PROVE  \/ files'[Explained(h)] \in {NoFile, Blank}
             \/ Manifest[files'[Explained(h)]].hypothesis = h
  <2>1. ASSUME NEW p \in Procs, At(p, "write"), Head(jobs[p].todo)[2] = Explained(h)
        PROVE  Manifest[Content(p)].hypothesis = h
    <3>1. PICK j, s : j = jobs[p] /\ s = Head(jobs[p].todo)
      OBVIOUS
    <3>2. AtStep(j, s, valid) /\ s[1] = "write" /\ s[3] = Content(p)
      BY <2>1, <3>1, Acting DEF IInv
    <3>3. s \in AnyStep /\ 1 \in 1 .. Len(j.todo) /\ j.todo[1] = s
      BY <3>2 DEF AtStep
    <3>4. s \notin Misfits
      BY <3>1, <3>3 DEF FitsInv, Has
    <3> QED
      BY <2>1, <3>1, <3>2, <3>3, <3>4 DEF Misfits
  <2> QED
    BY <2>1, FilesStay DEF FitsInv
<1>2. ASSUME NEW q \in Procs PROVE ~ Has(jobs'[q].todo, Misfits)
  <2>1. ~ Has(jobs[q].todo, Misfits)
    BY DEF FitsInv
  <2>2. ASSUME NEW n, NEW K, Leads(jobs[q], jobs'[q], n, K) PROVE ~ Has(jobs'[q].todo, Misfits)
    <3>1. ~ Has(K, Misfits)
      BY <2>2 DEF Leads, Harmless
    <3> QED
      BY <2>1, <2>2, <3>1, LeadsHas
  <2>3. \A c \in Commands : ~ Has(Append(c.steps, Return1), Misfits)
    BY CommandCareful DEF Careful
  <2>4. ~ Has(<< >>, Misfits)
    BY NothingFirst
  <2> QED
    BY <2>1, <2>2, <2>3, <2>4, NextTodo
<1>3. Hypotheses' = Hypotheses /\ Misfits' = Misfits
  <2>1. AnyStep' = AnyStep
    BY DEF AnyStep, Steps, OtherSteps, Inserts, AllRows
  <2> QED
    BY <2>1 DEF Hypotheses, Misfits
<1> QED
  BY <1>1, <1>2, <1>3 DEF FitsInv

(* An explanation is indexed, or about to be, when its file is there or about   *)
(* to be opened.                                                                *)
ExplainedInv ==
    \A h \in Hypotheses : files[Explained(h)] = NoFile =>
        /\ h \notin RefsOf(index.alternative_explanations)
        /\ \A p \in Procs : Precedes(jobs[p].todo, Explains(h), Opens(h), FALSE)

(* What is indexed has been opened before.                                      *)
LEMMA ExplainedRefs ==
    ASSUME IInv, ExplainedInv, [Next]_vars, NEW h \in Hypotheses, files[Explained(h)] = NoFile
    PROVE  h \notin RefsOf(index'.alternative_explanations)
<1>1. h \notin RefsOf(index.alternative_explanations)
  BY DEF ExplainedInv
<1>2. DOMAIN index = Tables \cup {"events"} /\ TablesOf(index)
  BY DEF IInv, IndexInv, TablesOf
<1>3. index' = index => h \notin RefsOf(index'.alternative_explanations)
  BY <1>1
<1>4. ASSUME NEW new, index' = [index EXCEPT !.projects = new]
      PROVE  h \notin RefsOf(index'.alternative_explanations)
  <2>1. index'.alternative_explanations = index.alternative_explanations
    BY <1>2, <1>4, TableNames
  <2> QED
    BY <1>1, <2>1
<1>5. ASSUME NEW new, index' = [index EXCEPT !.events = new]
      PROVE  h \notin RefsOf(index'.alternative_explanations)
  <2>1. index'.alternative_explanations = index.alternative_explanations
    BY <1>2, <1>5, TableNames
  <2> QED
    BY <1>1, <2>1
<1>6. ASSUME NEW p \in Procs, Insert(p)
      PROVE  h \notin RefsOf(index'.alternative_explanations)
  <2>1. At(p, "insert") /\ index' = insert_payload(index, Arg(p), Content(p).ref, Content(p).payload)
    BY <1>6 DEF Insert
  <2>2. PICK j, s : j = jobs[p] /\ s = Head(jobs[p].todo)
    OBVIOUS
  <2>3. AtStep(j, s, valid) /\ s[1] = "insert" /\ s[2] = Arg(p) /\ s[3] = Content(p)
    BY <2>1, <2>2, Acting DEF IInv
  <2>4. s \in AnyStep /\ 1 \in 1 .. Len(j.todo) /\ j.todo[1] = s
    BY <2>3 DEF AtStep
  <2>5. Arg(p) = "alternative_explanations" => Content(p).ref # h
    <3>1. Precedes(j.todo, Explains(h), Opens(h), FALSE)
      BY <2>2 DEF ExplainedInv
    <3>2. \A m \in 1 .. Len(j.todo) : ~ (m < 1)
      BY <2>3, NoneBefore DEF AtStep
    <3>3. s \notin Explains(h)
      BY <2>4, <3>1, <3>2 DEF Precedes
    <3> QED
      BY <2>3, <2>4, <3>3 DEF Explains, Explaining
  <2>6. CASE Arg(p) = "alternative_explanations"
    <3>1. RefsOf(index'.alternative_explanations)
            = RefsOf(index.alternative_explanations) \cup {Content(p).ref}
      BY <1>2, <2>1, <2>6, PayloadRefs
    <3> QED
      BY <1>1, <2>5, <2>6, <3>1
  <2>7. CASE Arg(p) # "alternative_explanations"
    <3>1. index'.alternative_explanations = index.alternative_explanations
      BY <1>2, <2>1, <2>7, TableNames DEF insert_payload
    <3> QED
      BY <1>1, <3>1
  <2> QED
    BY <2>6, <2>7
<1>7. ASSUME NEW p \in Procs, InsertProject(p) \/ InsertEvent(p)
      PROVE  h \notin RefsOf(index'.alternative_explanations)
  <2>1. InsertProject(p) => \E new : index' = [index EXCEPT !.projects = new]
    BY Zenon DEF InsertProject
  <2>2. InsertEvent(p) => \E new : index' = [index EXCEPT !.events = new]
    BY Zenon DEF InsertEvent, insert_event
  <2> QED
    BY <1>4, <1>5, <1>7, <2>1, <2>2
<1> QED
  BY <1>3, <1>6, <1>7, StepOrOther, StepChanges, OthersChange

(* A process about to open a file does nothing else.                            *)
LEMMA OpenOnly ==
    ASSUME NEW p \in Procs, At(p, "open"), Step(p)
    PROVE  Open(p)
<1>1. \A op : At(p, op) => op = "open"
  BY DEF At
<1>2. \A op \in {"if missing", "write", "discover", "read project", "insert project", "read events",
                 "append event", "insert event", "parse", "index ledgers", "insert", "unlink",
                 "initialize schema", "restore events", "restore run", "restore hypothesis",
                 "restore ledgers"} : op # "open"
  BY Zenon
<1> QED
  BY <1>1, <1>2, Zenon DEF Step, IfMissing, Write, Discover, ReadProject, InsertProject,
     ReadEvents, AppendEvent, InsertEvent, Parse, IndexLedgers, Insert, Unlink,
     InitializeSchema, RestoreEvents, RestoreRun, RestoreHypothesis, RestoreLedgerRows, Restoring

(* Explanations are indexed after their files are opened.                       *)
LEMMA ExplainedNext ==
    ASSUME IInv, FitsInv, ExplainedInv, [Next]_vars
    PROVE  ExplainedInv'
<1> SUFFICES ASSUME NEW h \in Hypotheses, files'[Explained(h)] = NoFile
             PROVE  /\ h \notin RefsOf(index'.alternative_explanations)
                    /\ \A q \in Procs : Precedes(jobs'[q].todo, Explains(h), Opens(h), FALSE)
  <2>1. Hypotheses' = Hypotheses
    BY DEF Hypotheses
  <2>2. \A h \in Hypotheses : Explains(h)' = Explains(h)
    <3>1. AnyStep' = AnyStep
      BY DEF AnyStep, Steps, OtherSteps, Inserts, AllRows
    <3> QED
      BY <3>1 DEF Explains, Explaining
  <2> QED
    BY <2>1, <2>2 DEF ExplainedInv
<1>1. files[Explained(h)] = NoFile
  <2>1. There \subseteq There' /\ Hypotheses' = Hypotheses
    BY Grows DEF Grown, Hypotheses
  <2> QED
    BY <2>1 DEF There
<1>2. h \notin RefsOf(index'.alternative_explanations)
  BY <1>1, ExplainedRefs
<1>3. ASSUME NEW q \in Procs PROVE Precedes(jobs'[q].todo, Explains(h), Opens(h), FALSE)
  <2>1. Precedes(jobs[q].todo, Explains(h), Opens(h), FALSE)
    BY <1>1 DEF ExplainedInv
  <2>2. ASSUME NEW n, NEW K, Step(q), Leads(jobs[q], jobs'[q], n, K)
        PROVE  Precedes(jobs'[q].todo, Explains(h), Opens(h), FALSE)
    <3>1. PICK j, i : j = jobs[q] /\ i = jobs'[q]
      OBVIOUS
    <3>2. Leads(j, i, n, K)
      BY <2>2, <3>1
    <3>3. /\ j.todo \in Seq(AnyStep) /\ K \in Seq(AnyStep) /\ From(j.todo, n) \in Seq(AnyStep)
          /\ n \in 1 .. Len(j.todo) + 1
      BY <3>2, LeadsHas
    <3>4. i.todo = K \o From(j.todo, n) /\ ~ Has(K, Explaining)
      BY <3>2 DEF Leads, Harmless
    <3>5. ASSUME NEW m \in 1 .. Len(j.todo), m < n, j.todo[m] \in Opens(h) PROVE FALSE
      <4>1. j.todo[m][1] = "open" /\ j.todo[m][2] = Explained(h)
        BY <3>5, RecordSorts
      <4>2. n = 2
        <5>1. n = 2 \/ j.todo[m][1] = "if missing"
          BY <3>2, <3>5, Zenon DEF Leads
        <5>2. "open" # "if missing"
          BY Zenon
        <5> QED
          BY <4>1, <5>1, <5>2, Zenon
      <4>3. m = 1
        <5>1. \A c \in Nat : \A k \in 1 .. c : k < 2 => k = 1
          OBVIOUS
        <5>2. Len(j.todo) \in Nat
          BY <3>3
        <5> QED
          BY <3>5, <4>2, <5>1, <5>2
      <4>4. j.todo # << >> /\ Head(j.todo) = j.todo[1]
        BY <3>3, <3>5
      <4>5. At(q, "open") /\ Arg(q) = Explained(h)
        BY <3>1, <4>1, <4>3, <4>4 DEF At, Working, Op, Arg
      <4>6. Open(q)
        BY <2>2, <4>5, OpenOnly
      <4>7. files' = [files EXCEPT ![Explained(h)] = Blank]
        BY <4>5, <4>6 DEF Open, Puts
      <4>8. Explained(h) \in DOMAIN files
        BY PathsDiffer DEF IInv, FilesInv, Explainable
      <4> QED
        BY <4>7, <4>8, NoContent
    <3>6. Precedes(From(j.todo, n), Explains(h), Opens(h), FALSE)
      BY <2>1, <3>1, <3>3, <3>5, FromPrecedes
    <3>7. Precedes(K, Explains(h), Opens(h), FALSE)
      <4>1. \A m \in 1 .. Len(K) : K[m] \notin Explains(h)
        BY <3>4, RecordSorts DEF Has
      <4> QED
        BY <4>1 DEF Precedes
    <3>8. Precedes(K \o From(j.todo, n), Explains(h), Opens(h), FALSE)
      BY <3>3, <3>6, <3>7, ConcatPrecedes
    <3> QED
      BY <3>1, <3>4, <3>8
  <2>3. \A c \in Commands : Precedes(Append(c.steps, Return1), Explains(h), Opens(h), FALSE)
    BY CommandCareful DEF Careful, ExplainedFirst
  <2>4. Precedes(<< >>, Explains(h), Opens(h), FALSE)
    <3>1. \A m \in 1 .. Len(<< >>) : FALSE
      OBVIOUS
    <3> QED
      BY <3>1 DEF Precedes
  <2> QED
    BY <2>1, <2>2, <2>3, <2>4, NextTodo
<1> QED
  BY <1>2, <1>3

-----------------------------------------------------------------------------
(* What holds of events.                                                        *)

(* The processes about to insert the event of a project.                        *)
FirstInserts(L) == L # << >> /\ L[1] \in InsertsEvent
Inserting(n) == { p \in Procs : FirstInserts(jobs[p].todo) /\ jobs[p].project = n }
(* Each event that is indexed, or about to be, has a line of its own, unless    *)
(* one is torn.                                                                 *)
CountInv ==
    /\ \A p \in Procs : Tidy(jobs[p].todo)
    /\ \A n \in Names : IsFiniteSet(Inserting(n))
    /\ \/ Torn \in Range(events)
       \/ \A n \in Names :
            Copies(n, index.events) + Cardinality(Inserting(n)) <= CountOf(events, n)

(* Where an event is inserted in the steps that a job goes on with.             *)
LEMMA LeadsInserts ==
    ASSUME NEW j, NEW i, NEW n, NEW K, Leads(j, i, n, K), Tidy(j.todo),
           NEW m \in 1 .. Len(i.todo), i.todo[m] \in InsertsEvent
    PROVE  \/ m = 1 /\ j.todo[1] \in AppendsEvent
           \/ m = 2 /\ i.todo[1] \in AppendsEvent
<1>1. PICK L, M, F : L = j.todo /\ M = i.todo /\ F = From(j.todo, n)
  OBVIOUS
<1>2. /\ L \in Seq(AnyStep) /\ K \in Seq(AnyStep) /\ F \in Seq(AnyStep) /\ n \in 1 .. Len(L) + 1
      /\ F = From(L, n)
  BY <1>1, LeadsHas
<1>3. M = K \o F /\ Tidy(K) /\ (K # << >> => K[1] \notin InsertsEvent) /\ n \in 2 .. Len(L)
      /\ (K # << >> => L[1] \notin AppendsEvent)
  BY <1>1 DEF Leads, Harmless
<1>4. /\ Len(M) = Len(K) + Len(F)
      /\ \A k \in 1 .. Len(K) : M[k] = K[k]
      /\ \A k \in 1 .. Len(F) : M[Len(K) + k] = F[k]
      /\ Len(K) \in Nat /\ Len(F) \in Nat /\ Len(L) \in Nat
  <2>1. K \in Seq(AnyStep) /\ F \in Seq(AnyStep) /\ L \in Seq(AnyStep)
    BY <1>2, Zenon
  <2>2. /\ Len(K \o F) = Len(K) + Len(F)
        /\ \A k \in 1 .. Len(K) : (K \o F)[k] = K[k]
        /\ \A k \in 1 .. Len(F) : (K \o F)[Len(K) + k] = F[k]
    BY <2>1, ConcatIndex
  <2> QED
    BY <2>1, <2>2, <1>3
<1>5. CASE m <= Len(K)
  <2>1. m \in 1 .. Len(K)
    BY <1>4, <1>5, <1>1
  <2>2. K[m] \in InsertsEvent
    BY <1>1, <1>4, <2>1
  <2>3. K # << >>
    BY <2>1
  <2>4. m = 1 \/ (m = 2 /\ K[1] \in AppendsEvent)
    BY <1>3, <2>1, <2>2 DEF Tidy
  <2>5. m # 1
    BY <1>3, <2>2, <2>3
  <2>6. 1 \in 1 .. Len(K)
    BY <1>4, <2>1
  <2> QED
    BY <1>1, <1>4, <2>4, <2>5, <2>6
<1>6. CASE ~ (m <= Len(K))
  <2>1. PICK k \in 1 .. Len(F) : m = Len(K) + k
    <3>1. m - Len(K) \in 1 .. Len(F) /\ m = Len(K) + (m - Len(K))
      BY <1>1, <1>4, <1>6
    <3> QED
      BY <3>1
  <2>2. n - 1 + k \in 1 .. Len(L) /\ F[k] = L[n - 1 + k]
    BY <1>2, FromIndex
  <2>3. L[n - 1 + k] \in InsertsEvent
    BY <1>1, <1>4, <2>1, <2>2
  <2>4. n - 1 + k = 1 \/ (n - 1 + k = 2 /\ L[1] \in AppendsEvent)
    BY <1>1, <2>2, <2>3 DEF Tidy
  <2>5. k = 1 /\ L[1] \in AppendsEvent
    BY <1>3, <1>4, <2>1, <2>4
  <2>6. K = << >>
    BY <1>3, <2>5
  <2>7. Len(K) = 0
    BY <1>2, <2>6, EmptyByLength
  <2> QED
    BY <1>1, <1>4, <2>1, <2>5, <2>7
<1> QED
  BY <1>5, <1>6

(* An event is inserted first, or right after its line is appended.             *)
LEMMA TidyNext ==
    ASSUME IInv, FitsInv, CountInv, [Next]_vars, NEW q \in Procs
    PROVE  Tidy(jobs'[q].todo)
<1>1. Tidy(jobs[q].todo)
  BY DEF CountInv
<1>2. ASSUME NEW n, NEW K, Leads(jobs[q], jobs'[q], n, K) PROVE Tidy(jobs'[q].todo)
  BY <1>1, <1>2, LeadsInserts DEF Tidy
<1>3. ASSUME NEW c \in Commands PROVE Tidy(Append(c.steps, Return1))
  <2>1. ~ Has(Append(c.steps, Return1), InsertsEvent)
    BY CommandCareful DEF Careful
  <2> QED
    BY <2>1 DEF Has, Tidy
<1>4. Tidy(<< >>)
  BY DEF Tidy
<1> QED
  BY <1>1, <1>2, <1>3, <1>4, NextTodo

(* A process about to append or to insert an event does nothing else.           *)
LEMMA EventOnly ==
    ASSUME NEW p \in Procs, Step(p)
    PROVE  /\ At(p, "append event") => AppendEvent(p)
           /\ At(p, "insert event") => InsertEvent(p)
<1>1. \A op, qp : At(p, op) /\ At(p, qp) => op = qp
  BY DEF At
<1>2. \A op \in {"if missing", "open", "write", "discover", "read project", "insert project",
                 "read events", "parse", "index ledgers", "insert", "unlink",
                 "initialize schema", "restore events", "restore run", "restore hypothesis",
                 "restore ledgers"} : op # "append event" /\ op # "insert event"
  BY Zenon
<1>3. "insert event" # "append event"
  BY Zenon
<1> QED
  BY <1>1, <1>2, <1>3, Zenon DEF Step, IfMissing, Open, Write, Discover, ReadProject, InsertProject,
     ReadEvents, AppendEvent, InsertEvent, Parse, IndexLedgers, Insert, Unlink,
     InitializeSchema, RestoreEvents, RestoreRun, RestoreHypothesis, RestoreLedgerRows, Restoring

(* What the first step of a list is.                                            *)
LEMMA FirstOf ==
    ASSUME JobsInv, NEW p \in Procs
    PROVE  /\ Working(p) <=> jobs[p].todo # << >>
           /\ Working(p) => Op(p) = jobs[p].todo[1][1] /\ Head(jobs[p].todo) = jobs[p].todo[1]
           /\ FirstInserts(jobs[p].todo) <=> At(p, "insert event")
           /\ jobs[p].todo # << >> /\ jobs[p].todo[1] \in AppendsEvent <=> At(p, "append event")
<1>1. PICK j : j = jobs[p]
  OBVIOUS
<1>2. j.todo \in Seq(AnyStep) /\ (j.todo # << >> => Head(j.todo) = j.todo[1] /\ j.todo[1] \in AnyStep)
  <2>1. j \in Job
    BY <1>1 DEF JobsInv
  <2>2. j.todo \in Seq(AnyStep)
    BY <2>1 DEF Job
  <2> QED
    BY <2>2
<1>3. Working(p) <=> j.todo # << >>
  BY <1>1 DEF Working
<1>4. Working(p) => Op(p) = j.todo[1][1] /\ Head(jobs[p].todo) = j.todo[1]
  BY <1>1, <1>2, <1>3 DEF Op
<1>5. ASSUME NEW s \in AnyStep
      PROVE  /\ s \in InsertsEvent <=> s[1] = "insert event"
             /\ s \in AppendsEvent <=> s[1] = "append event"
  <2>1. "insert event" \in PlainOps /\ "append event" \in PlainOps
    BY Zenon DEF PlainOps
  <2>2. s[1] \in PlainOps => s = << s[1] >>
    BY StepShape DEF AnyStep
  <2>3. s \in InsertsEvent => s[1] = "insert event"
    BY RecordSorts, Zenon
  <2>4. s \in AppendsEvent => s[1] = "append event"
    BY StepSorts, Zenon
  <2>5. s[1] = "insert event" => s \in InsertsEvent
    BY <2>1, <2>2, Zenon DEF InsertsEvent
  <2>6. s[1] = "append event" => s \in AppendsEvent
    BY <2>1, <2>2, Zenon DEF AppendsEvent
  <2> QED
    BY <2>3, <2>4, <2>5, <2>6, Zenon
<1>6. FirstInserts(jobs[p].todo) <=> At(p, "insert event")
  BY <1>1, <1>2, <1>3, <1>4, <1>5, Zenon DEF FirstInserts, At
<1>7. jobs[p].todo # << >> /\ jobs[p].todo[1] \in AppendsEvent <=> At(p, "append event")
  BY <1>1, <1>2, <1>3, <1>4, <1>5, Zenon DEF At
<1> QED
  BY <1>1, <1>3, <1>4, <1>6, <1>7, Zenon

(* Who comes to insert an event has just appended its line.                     *)
LEMMA InsertingNext ==
    ASSUME IInv, FitsInv, CountInv, [Next]_vars, NEW n \in Names, NEW q \in Procs,
           FirstInserts(jobs'[q].todo), jobs'[q].project = n
    PROVE  q \in Inserting(n) \/ (AppendEvent(q) /\ jobs[q].project = n)
<1>1. JobNext(q) /\ Tidy(jobs[q].todo) /\ JobsInv
  BY JobChanges DEF CountInv, IInv
<1>2. jobs'[q].todo # << >>
  BY DEF FirstInserts
<1>3. CASE SameJob(jobs[q], jobs'[q])
  BY <1>3 DEF SameJob, Inserting
<1>4. CASE jobs'[q] = NoJob
  BY <1>2, <1>4, NoJobGood
<1>5. CASE Begin(q) /\ \E c \in Commands : JobBegins(jobs'[q], c)
  <2>1. PICK c \in Commands : jobs'[q].todo = Append(c.steps, Return1)
    BY <1>5 DEF JobBegins
  <2>2. Append(c.steps, Return1) \in Seq(AnyStep) /\ ~ Has(Append(c.steps, Return1), InsertsEvent)
    BY CommandCareful DEF Careful
  <2>3. PICK L : L = jobs'[q].todo
    OBVIOUS
  <2>4. L \in Seq(AnyStep) /\ ~ Has(L, InsertsEvent) /\ L # << >> /\ L[1] \in InsertsEvent
    BY <2>1, <2>2, <2>3 DEF FirstInserts
  <2>5. 1 \in 1 .. Len(L)
    BY <2>4
  <2> QED
    BY <2>4, <2>5 DEF Has
<1>6. CASE Step(q) /\ GoesOn(q, jobs'[q])
  <2>1. PICK m, K : Leads(jobs[q], jobs'[q], m, K)
    BY <1>6, Zenon DEF GoesOn
  <2>2. PICK L, M : L = jobs[q].todo /\ M = jobs'[q].todo
    OBVIOUS
  <2>3. M \in Seq(AnyStep) /\ M # << >> /\ M[1] \in InsertsEvent
    BY <2>1, <2>2, LeadsHas DEF FirstInserts
  <2>4. 1 \in 1 .. Len(M)
    BY <2>3
  <2>5. ~ (1 = 2)
    OBVIOUS
  <2>6. L[1] \in AppendsEvent
    BY <1>1, <2>1, <2>2, <2>3, <2>4, <2>5, LeadsInserts
  <2>7. L # << >>
    BY <1>6, <2>2 DEF GoesOn, Working
  <2>8. At(q, "append event")
    BY <1>1, <2>2, <2>6, <2>7, FirstOf, Zenon
  <2>9. AppendEvent(q)
    BY <1>6, <2>8, EventOnly, Zenon
  <2>10. jobs'[q].project = jobs[q].project
    <3>1. Op(q) = "append event"
      BY <2>8, Zenon DEF At
    <3>2. Op(q) \notin FindOps
      <4>1. "append event" \notin FindOps
        BY Zenon DEF FindOps
      <4> QED
        BY <3>1, <4>1, Zenon
    <3> QED
      BY <1>6, <3>2, Zenon DEF GoesOn
  <2> QED
    BY <2>9, <2>10
<1> QED
  BY <1>1, <1>3, <1>4, <1>5, <1>6 DEF JobNext

(* What the rows of a table and the project leave of the events.                *)
LEMMA EventsKept ==
    ASSUME IInv, NEW p \in Procs, InsertProject(p) \/ Insert(p)
    PROVE  index'.events = index.events
<1>1. DOMAIN index = Tables \cup {"events"} /\ TablesOf(index)
  BY DEF IInv, IndexInv, TablesOf
<1>2. ASSUME NEW new, index' = [index EXCEPT !.projects = new]
      PROVE  index'.events = index.events
  BY <1>1, <1>2, TableNames
<1>3. InsertProject(p) => \E new : index' = [index EXCEPT !.projects = new]
  BY Zenon DEF InsertProject
<1>4. ASSUME Insert(p) PROVE index'.events = index.events
  <2>1. At(p, "insert") /\ index' = insert_payload(index, Arg(p), Content(p).ref, Content(p).payload)
    BY <1>4 DEF Insert
  <2>2. PICK s : s = Head(jobs[p].todo)
    OBVIOUS
  <2>3. AtStep(jobs[p], s, valid) /\ s[1] = "insert" /\ s[2] = Arg(p)
    BY <2>1, <2>2, Acting DEF IInv
  <2>4. s[2] \in Kinds \cup {"alternative_explanations"}
    <3>1. s \in Inserts(valid) \cup ExplainInserts
      BY <2>3, StepShape DEF AtStep
    <3> QED
      BY <3>1, InsertShape
  <2>5. Arg(p) # "events"
    BY <2>3, <2>4, TableNames
  <2> QED
    BY <1>1, <2>1, <2>5, TableNames DEF insert_payload
<1> QED
  BY <1>2, <1>3, <1>4

(* The processes that insert events are no more than before, or have lines.     *)
LEMMA InsertingSize ==
    ASSUME NEW n, IsFiniteSet(Inserting(n)), NEW T
    PROVE  /\ Cardinality(Inserting(n)) \in Nat
           /\ T \subseteq Inserting(n) =>
                /\ IsFiniteSet(T) /\ Cardinality(T) \in Nat
                /\ Cardinality(T) <= Cardinality(Inserting(n))
           /\ \A p \in Inserting(n) : T \subseteq Inserting(n) \ {p} =>
                IsFiniteSet(T) /\ Cardinality(T) \in Nat
                /\ Cardinality(T) + 1 <= Cardinality(Inserting(n))
           /\ \A p : T \subseteq Inserting(n) \cup {p} =>
                IsFiniteSet(T) /\ Cardinality(T) \in Nat
                /\ Cardinality(T) <= Cardinality(Inserting(n)) + 1
<1>1. PICK S : S = Inserting(n)
  OBVIOUS
<1>2. IsFiniteSet(S) /\ Cardinality(S) \in Nat
  BY <1>1, CountedElement
<1>3. \A U : IsFiniteSet(U) /\ T \subseteq U =>
        IsFiniteSet(T) /\ Cardinality(T) \in Nat /\ Cardinality(T) <= Cardinality(U)
  <2> SUFFICES ASSUME NEW U, IsFiniteSet(U), T \subseteq U
               PROVE  IsFiniteSet(T) /\ Cardinality(T) \in Nat /\ Cardinality(T) <= Cardinality(U)
    OBVIOUS
  <2>1. U \in SUBSET U /\ T \in SUBSET U
    OBVIOUS
  <2> QED
    BY <2>1, FiniteSubset, SubsetSize
<1>4. \A p \in S : T \subseteq S \ {p} =>
        IsFiniteSet(T) /\ Cardinality(T) \in Nat /\ Cardinality(T) + 1 <= Cardinality(S)
  <2> SUFFICES ASSUME NEW p \in S, T \subseteq S \ {p}
               PROVE  IsFiniteSet(T) /\ Cardinality(T) \in Nat
                      /\ Cardinality(T) + 1 <= Cardinality(S)
    OBVIOUS
  <2>1. IsFiniteSet(S \ {p}) /\ Cardinality(S \ {p}) = Cardinality(S) - 1
    BY <1>2, CountedElement
  <2>2. IsFiniteSet(T) /\ Cardinality(T) \in Nat /\ Cardinality(T) <= Cardinality(S \ {p})
    BY <1>3, <2>1
  <2> QED
    BY <1>2, <2>1, <2>2
<1>5. \A p : T \subseteq S \cup {p} =>
        IsFiniteSet(T) /\ Cardinality(T) \in Nat /\ Cardinality(T) <= Cardinality(S) + 1
  <2> SUFFICES ASSUME NEW p, T \subseteq S \cup {p}
               PROVE  IsFiniteSet(T) /\ Cardinality(T) \in Nat
                      /\ Cardinality(T) <= Cardinality(S) + 1
    OBVIOUS
  <2>1. IsFiniteSet(S \cup {p})
    BY <1>2, CountedElement
  <2>2. Cardinality(S \cup {p}) \in Nat /\ Cardinality(S \cup {p}) <= Cardinality(S) + 1
    <3>1. CASE p \in S
      <4>1. S \cup {p} = S
        BY <3>1
      <4> QED
        BY <1>2, <4>1
    <3>2. CASE p \notin S
      BY <1>2, <3>2, CountedElement
    <3> QED
      BY <3>1, <3>2
  <2>3. IsFiniteSet(T) /\ Cardinality(T) \in Nat /\ Cardinality(T) <= Cardinality(S \cup {p})
    BY <1>3, <2>1
  <2> QED
    BY <1>2, <2>2, <2>3
<1> QED
  BY <1>1, <1>2, <1>3, <1>4, <1>5

(* The processes that insert events, one step on.                               *)
InsertingThen(n) == { p \in Procs : FirstInserts(jobs'[p].todo) /\ jobs'[p].project = n }

(* They are those of the next state.                                           *)
LEMMA InsertingPrimed == \A n : Inserting(n)' = InsertingThen(n)
BY DEF Inserting, InsertingThen, FirstInserts, InsertsEvent

(* A line is appended.                                                          *)
LEMMA CountAppends ==
    ASSUME IInv, FitsInv, CountInv, [Next]_vars, NEW p \in Procs, AppendEvent(p), NEW n \in Names
    PROVE  /\ IsFiniteSet(InsertingThen(n))
           /\ \/ Torn \in Range(events')
              \/ Copies(n, index'.events) + Cardinality(InsertingThen(n)) <= CountOf(events', n)
<1>1. At(p, "append event") /\ Done(p) /\ AppendLine(jobs[p].project) /\ index' = index
  BY Zenon DEF AppendEvent
<1>2. jobs[p].project \in Names
  <2>1. PICK op : op = "append event"
    OBVIOUS
  <2>2. At(p, op) /\ op \in {"insert project", "read events", "append event", "insert event",
                             "initialize schema"}
    BY <1>1, <2>1, Zenon
  <2>3. JobsInv
    BY DEF IInv
  <2> QED
    BY <2>2, <2>3, AtNamed, Zenon
<1>3. \A q \in Procs \ {p} : jobs'[q] = jobs[q]
  BY <1>1 DEF Done, Becomes, IInv, JobsInv
<1>4. InsertingThen(n) \subseteq Inserting(n) \cup (IF jobs[p].project = n THEN {p} ELSE {})
  <2> SUFFICES ASSUME NEW q \in Procs, FirstInserts(jobs'[q].todo), jobs'[q].project = n,
                      q \notin Inserting(n)
               PROVE  q = p /\ jobs[p].project = n
    BY DEF InsertingThen
  <2>1. jobs[q].project = n
    BY InsertingNext
  <2>2. q = p
    BY <1>3 DEF Inserting
  <2> QED
    BY <2>1, <2>2
<1>5. Copies(n, index.events) \in Nat
  <2>1. index.events \in EventBags
    BY DEF IInv, IndexInv, TablesOf
  <2> QED
    BY <2>1, EventCopies
<1>6. IsFiniteSet(Inserting(n))
  BY DEF CountInv
<1>7. /\ Cardinality(Inserting(n)) \in Nat /\ Cardinality(InsertingThen(n)) \in Nat
      /\ IsFiniteSet(InsertingThen(n))
      /\ Cardinality(InsertingThen(n))
           <= Cardinality(Inserting(n)) + (IF jobs[p].project = n THEN 1 ELSE 0)
  <2>1. CASE jobs[p].project = n
    BY <1>4, <1>6, <2>1, InsertingSize
  <2>2. CASE jobs[p].project # n
    <3>1. InsertingThen(n) \subseteq Inserting(n)
      BY <1>4, <2>2
    <3>2. /\ Cardinality(Inserting(n)) \in Nat /\ Cardinality(InsertingThen(n)) \in Nat
          /\ IsFiniteSet(InsertingThen(n))
          /\ Cardinality(InsertingThen(n)) <= Cardinality(Inserting(n))
      BY <1>6, <3>1, InsertingSize
    <3> QED
      BY <2>2, <3>2
  <2> QED
    BY <2>1, <2>2
<1>8. ASSUME Torn \notin Range(events')
      PROVE  Copies(n, index'.events) + Cardinality(InsertingThen(n)) <= CountOf(events', n)
  <2>1. RecordsInv
    BY DEF IInv
  <2>2. /\ Torn \in Range(events) => Torn \in Range(events')
        /\ CountOf(events, n) \in Nat
        /\ CountOf(events', n) = CountOf(events, n) + (IF jobs[p].project = n THEN 1 ELSE 0)
    BY <1>1, <1>2, <1>8, <2>1, LinesGrow
  <2>3. Copies(n, index.events) + Cardinality(Inserting(n)) <= CountOf(events, n)
    BY <1>8, <2>2 DEF CountInv
  <2>4. index' = index
    BY <1>1, Zenon
  <2> QED
    BY <1>5, <1>7, <2>2, <2>3, <2>4
<1> QED
  BY <1>7, <1>8

(* An event is inserted.                                                        *)
LEMMA CountInserts ==
    ASSUME IInv, FitsInv, CountInv, [Next]_vars, NEW p \in Procs, InsertEvent(p), NEW n \in Names,
           InsertingThen(n) \subseteq Inserting(n)
    PROVE  \/ Torn \in Range(events')
           \/ Copies(n, index'.events) + Cardinality(InsertingThen(n)) <= CountOf(events', n)
<1>1. At(p, "insert event") /\ index' = insert_event(index, jobs[p].project) /\ events' = events
      /\ Done(p)
  BY Zenon DEF InsertEvent
<1>2. jobs[p].project \in Names
  <2>1. PICK op : op = "insert event"
    OBVIOUS
  <2>2. At(p, op) /\ op \in {"insert project", "read events", "append event", "insert event",
                             "initialize schema"}
    BY <1>1, <2>1, Zenon
  <2>3. JobsInv
    BY DEF IInv
  <2> QED
    BY <2>2, <2>3, AtNamed, Zenon
<1>3. JobsInv /\ TablesOf(index) /\ index.events \in EventBags /\ DOMAIN index = Tables \cup {"events"}
  BY DEF IInv, IndexInv, TablesOf
<1>4. index'.events = BagAdd(index.events, jobs[p].project)
  <2>1. index' = [index EXCEPT !.events = BagAdd(index.events, jobs[p].project)]
    BY <1>1 DEF insert_event
  <2> QED
    BY <1>3, <2>1
<1>5. /\ Copies(n, index.events) \in Nat
      /\ Copies(n, index'.events)
           = Copies(n, index.events) + (IF jobs[p].project = n THEN 1 ELSE 0)
  <2>1. CASE jobs[p].project = n
    BY <1>2, <1>3, <1>4, <2>1, EventCopies
  <2>2. CASE jobs[p].project # n
    BY <1>2, <1>3, <1>4, <2>2, EventCopies
  <2> QED
    BY <2>1, <2>2
<1>6. FirstInserts(jobs[p].todo)
  BY <1>1, <1>3, FirstOf, Zenon
<1>7. ~ AppendEvent(p)
  <2>1. "insert event" # "append event"
    BY Zenon
  <2> QED
    BY <1>1, <2>1, Zenon DEF AppendEvent, At
<1>8. p \notin InsertingThen(n)
  <2> SUFFICES ASSUME FirstInserts(jobs'[p].todo) PROVE FALSE
    BY DEF InsertingThen
  <2>1. PICK op : op = "insert event"
    OBVIOUS
  <2>2. At(p, op) /\ op # "return"
    <3>1. "insert event" # "return"
      BY Zenon
    <3> QED
      BY <1>1, <2>1, <3>1, Zenon
  <2>3. PICK i : GoesOn(p, i)
    BY <1>1, <1>3, <2>2, DoneLeads
  <2>4. jobs'[p] = i
    BY <1>3, <2>3 DEF GoesOn, JobsInv
  <2>5. PICK m, K : Leads(jobs[p], jobs'[p], m, K)
    BY <2>3, <2>4, Zenon DEF GoesOn
  <2>6. jobs'[p].todo \in Seq(AnyStep) /\ jobs'[p].todo # << >> /\ jobs'[p].todo[1] \in InsertsEvent
    BY <2>5, LeadsHas DEF FirstInserts
  <2>7. PICK M : M = jobs'[p].todo
    OBVIOUS
  <2>8. 1 \in 1 .. Len(M)
    BY <2>6, <2>7
  <2>9. ~ (1 = 2)
    OBVIOUS
  <2>10. jobs[p].todo[1] \in AppendsEvent
    BY <2>5, <2>6, <2>7, <2>8, <2>9, LeadsInserts DEF CountInv
  <2>11. At(p, "append event")
    BY <1>3, <1>6, <2>10, FirstOf, Zenon DEF FirstInserts
  <2>12. Step(p)
    BY Zenon DEF Step
  <2> QED
    BY <1>7, <2>11, <2>12, EventOnly, Zenon
<1>9. /\ Cardinality(Inserting(n)) \in Nat /\ Cardinality(InsertingThen(n)) \in Nat
      /\ Cardinality(InsertingThen(n)) + (IF jobs[p].project = n THEN 1 ELSE 0)
           <= Cardinality(Inserting(n))
  <2>1. IsFiniteSet(Inserting(n))
    BY DEF CountInv
  <2>2. CASE jobs[p].project = n
    <3>1. p \in Inserting(n) /\ InsertingThen(n) \subseteq Inserting(n) \ {p}
      BY <1>6, <1>8, <2>2 DEF Inserting
    <3> QED
      BY <2>1, <2>2, <3>1, InsertingSize
  <2>3. CASE jobs[p].project # n
    BY <2>1, <2>3, InsertingSize
  <2> QED
    BY <2>2, <2>3
<1>10. ASSUME Torn \notin Range(events')
       PROVE  Copies(n, index'.events) + Cardinality(InsertingThen(n)) <= CountOf(events', n)
  <2>1. RecordsInv
    BY DEF IInv
  <2>2. CountOf(events, n) \in Nat
    BY <1>10, Grows DEF Grown
  <2>3. events' = events
    BY <1>1, Zenon
  <2>4. Copies(n, index.events) + Cardinality(Inserting(n)) <= CountOf(events, n)
    BY <1>10, <2>3 DEF CountInv
  <2> QED
    BY <1>5, <1>9, <2>2, <2>3, <2>4
<1> QED
  BY <1>10

(* Each event that is indexed, or about to be, keeps a line of its own.         *)
LEMMA CountNext ==
    ASSUME IInv, FitsInv, CountInv, [Next]_vars
    PROVE  CountInv'
<1>1. \A q \in Procs : Tidy(jobs'[q].todo)
  BY TidyNext
<1>2. ASSUME NEW n \in Names
      PROVE  /\ IsFiniteSet(InsertingThen(n))
             /\ \/ Torn \in Range(events')
                \/ Copies(n, index'.events) + Cardinality(InsertingThen(n)) <= CountOf(events', n)
  <2>1. CASE \E p \in Procs : AppendEvent(p)
    BY <2>1, CountAppends
  <2>2. CASE ~ \E p \in Procs : AppendEvent(p)
    <3>1. InsertingThen(n) \subseteq Inserting(n)
      BY <2>2, InsertingNext DEF InsertingThen
    <3>2. IsFiniteSet(Inserting(n))
      BY DEF CountInv
    <3>3. /\ Cardinality(Inserting(n)) \in Nat /\ Cardinality(InsertingThen(n)) \in Nat
          /\ IsFiniteSet(InsertingThen(n))
          /\ Cardinality(InsertingThen(n)) <= Cardinality(Inserting(n))
      BY <3>1, <3>2, InsertingSize
    <3>4. CASE \E p \in Procs : InsertEvent(p)
      BY <3>1, <3>3, <3>4, CountInserts
    <3>5. CASE ~ \E p \in Procs : InsertEvent(p)
      <4>1. index'.events = index.events
        <5>1. ASSUME NEW p \in Procs, Step(p) PROVE index'.events = index.events
          <6>1. index' = index \/ InsertProject(p) \/ Insert(p)
            BY <3>5, <5>1, StepChanges
          <6> QED
            BY <6>1, EventsKept
        <5>2. Others => index' = index
          BY OthersChange
        <5> QED
          BY <5>1, <5>2, StepOrOther
      <4>2. CASE Torn \notin Range(events')
        <5>1. /\ Torn \notin Range(events) /\ CountOf(events, n) \in Nat
              /\ CountOf(events', n) \in Nat /\ CountOf(events, n) <= CountOf(events', n)
          BY <4>2, Grows DEF Grown
        <5>2. Copies(n, index.events) + Cardinality(Inserting(n)) <= CountOf(events, n)
          BY <5>1 DEF CountInv
        <5>3. Copies(n, index.events) \in Nat
          <6>1. index.events \in EventBags
            BY DEF IInv, IndexInv, TablesOf
          <6> QED
            BY <6>1, EventCopies
        <5> QED
          BY <3>3, <4>1, <5>1, <5>2, <5>3
      <4> QED
        BY <3>3, <4>2
    <3> QED
      BY <3>4, <3>5
  <2> QED
    BY <2>1, <2>2
<1>3. ASSUME NEW n \in Names
      PROVE  /\ IsFiniteSet(Inserting(n)')
             /\ \/ Torn \in Range(events')
                \/ Copies(n, index'.events) + Cardinality(Inserting(n)') <= CountOf(events', n)
  BY <1>2, InsertingPrimed
<1>4. /\ \A q : Tidy(jobs'[q].todo) <=> Tidy(jobs[q].todo)'
      /\ Torn \in Range(events') <=> (Torn \in Range(events))'
      /\ \A n : Copies(n, index'.events) = Copies(n, index.events)'
                /\ CountOf(events', n) = CountOf(events, n)'
  BY DEF Tidy, Torn, Copies, CountOf, PlacesOf, InsertsEvent, AppendsEvent
<1> QED
  BY <1>1, <1>3, <1>4 DEF CountInv

-----------------------------------------------------------------------------
(* What holds of a rebuild.                                                     *)

(* It has, or will restore, what was there when it began.                       *)
KeepsEvents(j, tables, lines) ==
    IF Has(j.todo, EventsStep)
    THEN Torn \in Range(lines) \/ \A n \in Names : Copies(n, j.events) <= CountOf(lines, n)
    ELSE \A n \in Names : Copies(n, j.events) <= Copies(n, tables.events)
KeepsExplained(j, tables, there) ==
    \A h \in j.explained :
        h \in there /\ (\/ Has(j.todo, HypothesisStep(h))
                        \/ h \in RefsOf(tables.alternative_explanations))
KeepsRuns(j, tables) ==
    \A r \in Range(Runs) : Has(j.todo, RunStep(r)) \/ r \in RefsOf(tables.runs)
(* It has restored the explanations it has seen, in the tables it has made.     *)
KeepsSeen(j, tables) ==
    IF Has(j.todo, Making) THEN j.seen = {}
    ELSE j.seen \subseteq RefsOf(tables.alternative_explanations)
Keeps(j, tables, lines, there) ==
    /\ Has(j.todo, Schema) \/ tables # NoTables
    /\ KeepsEvents(j, tables, lines) /\ KeepsExplained(j, tables, there)
    /\ KeepsRuns(j, tables) /\ KeepsSeen(j, tables)

(* The steps of a rebuild are told apart.                                       *)
LEMMA RestoreParts ==
    /\ Schema \subseteq Making /\ Unlinks \subseteq Making /\ EventsStep \subseteq Restores
    /\ \A r \in Range(Runs) : RunStep(r) \subseteq Restores
    /\ \A h \in Hypotheses : HypothesisStep(h) \subseteq Restores
    /\ \A s \in Making : s \notin Restores
    /\ \A s \in EventsStep : \A x : s \notin RunStep(x) /\ s \notin HypothesisStep(x)
    /\ \A x : \A s \in RunStep(x) : /\ \A y : s \notin HypothesisStep(y)
                                    /\ \A y : s \in RunStep(y) => x = y
    /\ \A x : \A s \in HypothesisStep(x) : \A y : s \in HypothesisStep(y) => x = y
    /\ \A s \in Making \cup Restores : s[1] # "if missing"
<1>1. << "unlink" >> \in AnyStep /\ << "initialize schema" >> \in AnyStep
      /\ << "restore events" >> \in AnyStep
  <2>1. "unlink" \in PlainOps /\ "initialize schema" \in PlainOps /\ "restore events" \in PlainOps
    BY Zenon DEF PlainOps
  <2> QED
    BY <2>1, OpsLists, Zenon
<1>2. /\ \A r \in Range(Runs) : << "restore run", r >> \in AnyStep
      /\ \A h \in Hypotheses : << "restore hypothesis", h >> \in AnyStep
  <2>1. /\ \A r \in Range(Runs) : << "restore run", r >> \in CalmSteps
        /\ \A h \in Hypotheses : << "restore hypothesis", h >> \in CalmSteps
    BY CalmOnes, Zenon
  <2>2. CalmSteps \subseteq AnyStep
    BY DEF CalmSteps, AnyStep, Steps
  <2> QED
    BY <2>1, <2>2, Zenon
<1>3. \A op \in {"unlink", "initialize schema"} :
        \A qp \in {"restore events", "restore run", "restore hypothesis"} : op # qp
  BY Zenon
<1>4. /\ "restore events" # "restore run" /\ "restore events" # "restore hypothesis"
      /\ "restore run" # "restore hypothesis"
  BY Zenon
<1>5. \A op \in {"unlink", "initialize schema", "restore events", "restore run",
                 "restore hypothesis"} : op # "if missing"
  BY Zenon
<1>6. Unlinks \subseteq Making
  <2>1. << "unlink" >>[1] = "unlink"
    BY Zenon
  <2> QED
    BY <1>1, <2>1, Zenon DEF Unlinks, Making
<1>7. Schema \subseteq Making
  <2>1. << "initialize schema" >>[1] = "initialize schema"
    BY Zenon
  <2> QED
    BY <1>1, <2>1, Zenon DEF Schema, Making
<1>8. EventsStep \subseteq Restores
  <2>1. << "restore events" >>[1] = "restore events"
    BY Zenon
  <2> QED
    BY <1>1, <2>1, Zenon DEF EventsStep, Restores
<1>9. \A r \in Range(Runs) : RunStep(r) \subseteq Restores
  <2>1. \A r : << "restore run", r >>[1] = "restore run"
    BY Zenon
  <2> QED
    BY <1>2, <2>1, Zenon DEF RunStep, Restores
<1>10. \A h \in Hypotheses : HypothesisStep(h) \subseteq Restores
  <2>1. \A h : << "restore hypothesis", h >>[1] = "restore hypothesis"
    BY Zenon
  <2> QED
    BY <1>2, <2>1, Zenon DEF HypothesisStep, Restores
<1>11. \A s \in Making : s \notin Restores
  BY <1>3, RecordSorts, Zenon
<1>12. \A s \in EventsStep : \A x : s \notin RunStep(x) /\ s \notin HypothesisStep(x)
  BY <1>4, RecordSorts, Zenon
<1>13. \A x : \A s \in RunStep(x) : /\ \A y : s \notin HypothesisStep(y)
                                    /\ \A y : s \in RunStep(y) => x = y
  <2>1. \A x, s : s \in RunStep(x) => s[1] = "restore run" /\ s[2] = x
    BY RecordSorts, Zenon
  <2>2. \A x, s : s \in HypothesisStep(x) => s[1] = "restore hypothesis"
    BY RecordSorts, Zenon
  <2>3. \A x, s : s \in RunStep(x) => \A y : s \notin HypothesisStep(y)
    BY <1>4, <2>1, <2>2, Zenon
  <2>4. \A x, s : s \in RunStep(x) => s[2] = x
    BY <2>1, Zenon
  <2>5. \A x, s : s \in RunStep(x) => \A y : s \in RunStep(y) => x = y
    BY <2>4, Zenon
  <2> QED
    BY <2>3, <2>5, Zenon
<1>14. \A x : \A s \in HypothesisStep(x) : \A y : s \in HypothesisStep(y) => x = y
  <2>1. \A x, s : s \in HypothesisStep(x) => s[2] = x
    BY RecordSorts, Zenon
  <2> QED
    BY <2>1, Zenon
<1>15. \A s \in Making \cup Restores : s[1] # "if missing"
  BY <1>5, RecordSorts, Zenon
<1> QED
  BY <1>6, <1>7, <1>8, <1>9, <1>10, <1>11, <1>12, <1>13, <1>14, <1>15, Zenon

(* What is left for a rebuild that goes on.                                     *)
LEMMA LeadsLeft ==
    ASSUME NEW j, NEW i, NEW n, NEW K, Leads(j, i, n, K), NEW B, B \subseteq Making \cup Restores
    PROVE  /\ Has(i.todo, B) => Has(j.todo, B)
           /\ j.todo[1] \notin B /\ Has(j.todo, B) => Has(i.todo, B)
<1>1. ~ Has(K, B)
  <2>1. ~ Has(K, Making \cup Restores)
    BY DEF Leads, Harmless
  <2> QED
    BY <2>1 DEF Has
<1>2. ASSUME j.todo[1] \notin B, NEW m \in 1 .. Len(j.todo), m < n
      PROVE  j.todo[m] \notin B
  <2>1. CASE n = 2
    <3>1. m = 1
      <4>1. j.todo \in Seq(AnyStep)
        BY DEF Leads
      <4>2. Len(j.todo) \in Nat
        BY <4>1
      <4> QED
        BY <1>2, <2>1, <4>2
    <3> QED
      BY <1>2, <3>1
  <2>2. CASE n # 2
    <3>1. j.todo[m][1] = "if missing"
      BY <1>2, <2>2, Zenon DEF Leads
    <3>2. \A s \in B : s[1] # "if missing"
      BY RestoreParts, Zenon
    <3> QED
      BY <3>1, <3>2, Zenon
  <2> QED
    BY <2>1, <2>2
<1> QED
  BY <1>1, <1>2, LeadsHas

(* The order of a rebuild stays.                                                *)
LEMMA LeadsRebuildOrder ==
    ASSUME NEW j, NEW i, NEW n, NEW K, Leads(j, i, n, K), RebuildOrder(j.todo)
    PROVE  RebuildOrder(i.todo)
<1>1. PICK L, M, F : L = j.todo /\ M = i.todo /\ F = From(j.todo, n)
  OBVIOUS
<1>2. /\ L \in Seq(AnyStep) /\ K \in Seq(AnyStep) /\ F \in Seq(AnyStep) /\ n \in 1 .. Len(L) + 1
      /\ F = From(L, n)
  BY <1>1, LeadsHas
<1>3. M = K \o F /\ ~ Has(K, Making \cup Restores)
  BY <1>1 DEF Leads, Harmless
<1>4. ~ Has(K, Making) /\ ~ Has(K, Restores) /\ ~ Has(K, Unlinks)
  BY <1>3, RestoreParts DEF Has
<1>5. \A B : Follows(L, Making, B) => Follows(M, Making, B)
  <2> SUFFICES ASSUME NEW B, Follows(L, Making, B) PROVE Follows(M, Making, B)
    OBVIOUS
  <2>1. Follows(F, Making, B)
    BY <1>2, FromFollows
  <2>2. Follows(K, Making, B)
    BY <1>4, LacksOrder
  <2>3. Follows(K \o F, Making, B)
    BY <1>2, <2>1, <2>2, ConcatFollows
  <2> QED
    BY <1>3, <2>3
<1>6. Follows(L, Unlinks, Schema) => Follows(M, Unlinks, Schema)
  <2> SUFFICES ASSUME Follows(L, Unlinks, Schema) PROVE Follows(M, Unlinks, Schema)
    OBVIOUS
  <2>1. Follows(F, Unlinks, Schema)
    BY <1>2, FromFollows
  <2>2. Follows(K, Unlinks, Schema)
    BY <1>4, LacksOrder
  <2>3. Follows(K \o F, Unlinks, Schema)
    BY <1>2, <2>1, <2>2, ConcatFollows
  <2> QED
    BY <1>3, <2>3
<1>7. Never(L, Restores, Making) => Never(M, Restores, Making)
  <2> SUFFICES ASSUME Never(L, Restores, Making) PROVE Never(M, Restores, Making)
    OBVIOUS
  <2>1. Never(F, Restores, Making)
    BY <1>2, FromNever
  <2>2. Never(K \o F, Restores, Making)
    BY <1>2, <1>4, <2>1, ConcatNever
  <2> QED
    BY <1>3, <2>2
<1> QED
  BY <1>1, <1>5, <1>6, <1>7 DEF RebuildOrder

(* No tables are taken away, nor their rows.                                    *)
Richer(old, new) ==
    \/ new = old
    \/ /\ old # NoTables /\ new # NoTables /\ new.events = old.events
       /\ new.alternative_explanations = old.alternative_explanations
       /\ RefsOf(old.runs) \subseteq RefsOf(new.runs)
(* As many lines of each project, unless one is torn.                           *)
LinesLater(old, new) ==
    /\ Torn \in Range(old) => Torn \in Range(new)
    /\ \/ Torn \in Range(new)
       \/ \A n \in Names : /\ CountOf(old, n) \in Nat /\ CountOf(new, n) \in Nat
                           /\ CountOf(old, n) <= CountOf(new, n)
(* A rebuild relies on what it noted when it began.                             *)
Notes(j) == j.events \in EventBags /\ j.explained \subseteq Hypotheses

(* A rebuild keeps what it relies on while no more is done to its tables.      *)
LEMMA KeepsStay ==
    ASSUME NEW j, NEW i, NEW old, NEW new, NEW lines, NEW more, NEW there, NEW then,
           Keeps(j, old, lines, there), Richer(old, new), LinesLater(lines, more),
           there \subseteq then, Notes(j),
           i.events = j.events, i.explained = j.explained, i.seen = j.seen,
           \A B : B \subseteq Making \cup Restores => (Has(i.todo, B) <=> Has(j.todo, B))
    PROVE  Keeps(i, new, more, then)
<1>1. /\ Has(i.todo, Schema) <=> Has(j.todo, Schema)
      /\ Has(i.todo, Making) <=> Has(j.todo, Making)
      /\ Has(i.todo, EventsStep) <=> Has(j.todo, EventsStep)
      /\ \A r \in Range(Runs) : Has(i.todo, RunStep(r)) <=> Has(j.todo, RunStep(r))
      /\ \A h \in Hypotheses : Has(i.todo, HypothesisStep(h)) <=> Has(j.todo, HypothesisStep(h))
  <2>1. /\ Schema \subseteq Making \cup Restores /\ Making \subseteq Making \cup Restores
        /\ EventsStep \subseteq Making \cup Restores
        /\ \A r \in Range(Runs) : RunStep(r) \subseteq Making \cup Restores
        /\ \A h \in Hypotheses : HypothesisStep(h) \subseteq Making \cup Restores
    BY RestoreParts
  <2> QED
    BY <2>1
<1>2. Has(i.todo, Schema) \/ new # NoTables
  BY <1>1 DEF Keeps, Richer
<1>3. KeepsEvents(i, new, more)
  <2>1. KeepsEvents(j, old, lines)
    BY DEF Keeps
  <2>2. CASE Has(j.todo, EventsStep)
    <3>1. Torn \in Range(lines) \/ \A n \in Names : Copies(n, j.events) <= CountOf(lines, n)
      BY <2>1, <2>2 DEF KeepsEvents
    <3>2. \A n \in Names : Copies(n, j.events) \in Nat
      BY EventCopies DEF Notes
    <3>3. Torn \in Range(more) \/ \A n \in Names : Copies(n, j.events) <= CountOf(more, n)
      BY <3>1, <3>2 DEF LinesLater
    <3> QED
      BY <1>1, <2>2, <3>3 DEF KeepsEvents
  <2>3. CASE ~ Has(j.todo, EventsStep)
    <3>1. \A n \in Names : Copies(n, j.events) <= Copies(n, old.events)
      BY <2>1, <2>3 DEF KeepsEvents
    <3>2. new.events = old.events
      BY DEF Richer
    <3> QED
      BY <1>1, <2>3, <3>1, <3>2 DEF KeepsEvents
  <2> QED
    BY <2>2, <2>3
<1>4. KeepsExplained(i, new, then)
  <2>1. KeepsExplained(j, old, there)
    BY DEF Keeps
  <2>2. new.alternative_explanations = old.alternative_explanations
    BY DEF Richer
  <2> QED
    BY <1>1, <2>1, <2>2 DEF KeepsExplained, Notes
<1>5. KeepsRuns(i, new)
  <2>1. KeepsRuns(j, old)
    BY DEF Keeps
  <2>2. RefsOf(old.runs) \subseteq RefsOf(new.runs)
    BY DEF Richer
  <2> QED
    BY <1>1, <2>1, <2>2 DEF KeepsRuns
<1>6. KeepsSeen(i, new)
  <2>1. KeepsSeen(j, old)
    BY DEF Keeps
  <2>2. new.alternative_explanations = old.alternative_explanations
    BY DEF Richer
  <2> QED
    BY <1>1, <2>1, <2>2 DEF KeepsSeen
<1> QED
  BY <1>2, <1>3, <1>4, <1>5, <1>6 DEF Keeps

(* The first step of a job that goes on.                                        *)
LEMMA LeadsFirst ==
    ASSUME NEW j, NEW i, NEW n, NEW K, Leads(j, i, n, K)
    PROVE  /\ j.todo \in Seq(AnyStep) /\ Len(j.todo) \in Nat /\ 1 \in 1 .. Len(j.todo)
           /\ j.todo[1] \in AnyStep
<1>1. j.todo \in Seq(AnyStep) /\ n \in 2 .. Len(j.todo)
  BY DEF Leads
<1>2. Len(j.todo) \in Nat /\ 1 \in 1 .. Len(j.todo)
  BY <1>1
<1> QED
  BY <1>1, <1>2

(* A rebuild that makes its tables has all rows to restore.                     *)
LEMMA KeepsMakes ==
    ASSUME NEW j, NEW i, NEW n, NEW K, Leads(j, i, n, K), RebuildOrder(j.todo),
           j.todo[1] \in Making,
           NEW old, NEW new, NEW lines, NEW more, NEW there, NEW then,
           Keeps(j, old, lines, there), new # NoTables \/ j.todo[1] \in Unlinks,
           LinesLater(lines, more), there \subseteq then, Notes(j),
           i.events = j.events, i.explained = j.explained, i.seen = j.seen
    PROVE  Keeps(i, new, more, then)
<1>1. PICK L : L = j.todo
  OBVIOUS
<1>2. L \in Seq(AnyStep) /\ 1 \in 1 .. Len(L) /\ L[1] \in Making /\ L[1] \notin Restores
  BY <1>1, LeadsFirst, RestoreParts
<1>3. ASSUME NEW B, B \subseteq Restores, Follows(L, Making, B)
      PROVE  Has(j.todo, B) /\ Has(i.todo, B)
  <2>1. Has(L, B)
    BY <1>2, <1>3 DEF Follows, Has
  <2>2. L[1] \notin B /\ B \subseteq Making \cup Restores
    BY <1>2, <1>3
  <2> QED
    BY <1>1, <2>1, <2>2, LeadsLeft
<1>4. /\ Has(j.todo, EventsStep) /\ Has(i.todo, EventsStep)
      /\ \A h \in Hypotheses : Has(i.todo, HypothesisStep(h))
      /\ \A r \in Range(Runs) : Has(i.todo, RunStep(r))
  BY <1>1, <1>3, RestoreParts DEF RebuildOrder
<1>5. Has(i.todo, Schema) \/ new # NoTables
  <2>1. CASE L[1] \in Unlinks
    <3>1. Follows(L, Unlinks, Schema)
      BY <1>1 DEF RebuildOrder
    <3>2. Has(L, Schema)
      BY <1>2, <2>1, <3>1 DEF Follows, Has
    <3>3. L[1] \notin Schema
      <4>1. "unlink" # "initialize schema"
        BY Zenon
      <4> QED
        BY <2>1, <4>1, RecordSorts, Zenon
    <3>4. Schema \subseteq Making \cup Restores
      BY RestoreParts
    <3> QED
      BY <1>1, <3>2, <3>3, <3>4, LeadsLeft
  <2> QED
    BY <1>1, <2>1
<1>6. j.seen = {}
  <2>1. Has(j.todo, Making)
    BY <1>1, <1>2 DEF Has
  <2> QED
    BY <2>1 DEF Keeps, KeepsSeen
<1>7. KeepsEvents(i, new, more)
  <2>1. Torn \in Range(lines) \/ \A m \in Names : Copies(m, j.events) <= CountOf(lines, m)
    BY <1>4 DEF Keeps, KeepsEvents
  <2>2. \A m \in Names : Copies(m, j.events) \in Nat
    BY EventCopies DEF Notes
  <2>3. Torn \in Range(more) \/ \A m \in Names : Copies(m, j.events) <= CountOf(more, m)
    BY <2>1, <2>2 DEF LinesLater
  <2> QED
    BY <1>4, <2>3 DEF KeepsEvents
<1>8. KeepsExplained(i, new, then)
  BY <1>4 DEF Keeps, KeepsExplained, Notes
<1>9. KeepsRuns(i, new)
  BY <1>4 DEF KeepsRuns
<1>10. KeepsSeen(i, new)
  BY <1>6 DEF KeepsSeen
<1> QED
  BY <1>5, <1>7, <1>8, <1>9, <1>10 DEF Keeps

(* A rebuild that restores rows has made its tables.                            *)
LEMMA FillsMade ==
    ASSUME NEW j, j.todo \in Seq(AnyStep), 1 \in 1 .. Len(j.todo), RebuildOrder(j.todo),
           j.todo[1] \in Restores, NEW old, NEW lines, NEW there, Keeps(j, old, lines, there)
    PROVE  /\ ~ Has(j.todo, Making) /\ old # NoTables
           /\ j.seen \subseteq RefsOf(old.alternative_explanations)
<1>1. PICK L : L = j.todo /\ Len(L) \in Nat
  OBVIOUS
<1>2. \A m \in 1 .. Len(L) : m = 1 \/ 1 < m
  BY <1>1
<1>3. L[1] \notin Making
  BY <1>1, RestoreParts
<1>4. ~ Has(L, Making)
  BY <1>1, <1>2, <1>3 DEF Has, RebuildOrder, Never
<1>5. ~ Has(L, Schema)
  BY <1>4, RestoreParts DEF Has
<1> QED
  BY <1>1, <1>4, <1>5 DEF Keeps, KeepsSeen

(* What a step of a rebuild restores: the rows it is for.                       *)
Fills(s, old, new, lines, there) ==
    /\ new # NoTables
    /\ RefsOf(old.alternative_explanations) \subseteq RefsOf(new.alternative_explanations)
    /\ RefsOf(old.runs) \subseteq RefsOf(new.runs)
    /\ IF s \in EventsStep
       THEN /\ Torn \notin Range(lines)
            /\ \A n \in Names : /\ CountOf(lines, n) \in Nat /\ Copies(n, new.events) \in Nat
                                /\ CountOf(lines, n) <= Copies(n, new.events)
       ELSE new.events = old.events
    /\ \A r \in Range(Runs) : s \in RunStep(r) => r \in RefsOf(new.runs)
    /\ \A h \in there : s \in HypothesisStep(h) => h \in RefsOf(new.alternative_explanations)

(* It keeps what it relies on when it restores rows.                           *)
LEMMA KeepsFills ==
    ASSUME NEW j, NEW i, NEW n, NEW K, Leads(j, i, n, K), RebuildOrder(j.todo),
           j.todo[1] \in Restores,
           NEW old, NEW new, NEW lines, NEW more, NEW there, NEW then,
           Keeps(j, old, lines, there), Fills(j.todo[1], old, new, lines, there),
           LinesLater(lines, more), there \subseteq then, Notes(j),
           i.events = j.events, i.explained = j.explained,
           i.seen \subseteq RefsOf(new.alternative_explanations)
    PROVE  Keeps(i, new, more, then)
<1>1. PICK s : s = j.todo[1]
  OBVIOUS
<1>2. j.todo \in Seq(AnyStep) /\ 1 \in 1 .. Len(j.todo)
  BY LeadsFirst
<1>3. ~ Has(j.todo, Making)
  BY <1>2, FillsMade
<1>4. ASSUME NEW B, B \subseteq Restores
      PROVE  (Has(i.todo, B) => Has(j.todo, B)) /\ (s \notin B /\ Has(j.todo, B) => Has(i.todo, B))
  <2>1. B \subseteq Making \cup Restores
    BY <1>4
  <2> QED
    BY <1>1, <2>1, LeadsLeft
<1>5. ~ Has(i.todo, Making)
  <2>1. Making \subseteq Making \cup Restores
    OBVIOUS
  <2> QED
    BY <1>3, <2>1, LeadsLeft
<1>6. KeepsEvents(i, new, more)
  <2>1. Has(i.todo, EventsStep) => Has(j.todo, EventsStep)
    BY <1>4, RestoreParts
  <2>2. \A m \in Names : Copies(m, j.events) \in Nat
    BY EventCopies DEF Notes
  <2>3. KeepsEvents(j, old, lines)
    BY DEF Keeps
  <2>4. CASE Has(i.todo, EventsStep)
    <3>1. Torn \in Range(lines) \/ \A m \in Names : Copies(m, j.events) <= CountOf(lines, m)
      BY <2>1, <2>3, <2>4 DEF KeepsEvents
    <3>2. Torn \in Range(more) \/ \A m \in Names : Copies(m, j.events) <= CountOf(more, m)
      BY <2>2, <3>1 DEF LinesLater
    <3> QED
      BY <2>4, <3>2 DEF KeepsEvents
  <2>5. CASE ~ Has(i.todo, EventsStep) /\ s \in EventsStep
    <3>1. Has(j.todo, EventsStep)
      BY <1>1, <1>2, <2>5 DEF Has
    <3>2. /\ Torn \notin Range(lines)
          /\ \A m \in Names : /\ CountOf(lines, m) \in Nat /\ Copies(m, new.events) \in Nat
                              /\ CountOf(lines, m) <= Copies(m, new.events)
      BY <1>1, <2>5 DEF Fills
    <3>3. \A m \in Names : Copies(m, j.events) <= CountOf(lines, m)
      BY <2>3, <3>1, <3>2 DEF KeepsEvents
    <3>4. \A m \in Names : Copies(m, j.events) <= Copies(m, new.events)
      BY <2>2, <3>2, <3>3
    <3> QED
      BY <2>5, <3>4 DEF KeepsEvents
  <2>6. CASE ~ Has(i.todo, EventsStep) /\ s \notin EventsStep
    <3>1. ~ Has(j.todo, EventsStep)
      BY <1>4, <2>6, RestoreParts
    <3>2. new.events = old.events
      BY <1>1, <2>6 DEF Fills
    <3>3. \A m \in Names : Copies(m, j.events) <= Copies(m, old.events)
      BY <2>3, <3>1 DEF KeepsEvents
    <3> QED
      BY <2>6, <3>2, <3>3 DEF KeepsEvents
  <2> QED
    BY <2>4, <2>5, <2>6
<1>7. KeepsExplained(i, new, then)
  <2> SUFFICES ASSUME NEW h \in j.explained
               PROVE  h \in then /\ (\/ Has(i.todo, HypothesisStep(h))
                                     \/ h \in RefsOf(new.alternative_explanations))
    BY DEF KeepsExplained
  <2>1. h \in Hypotheses /\ HypothesisStep(h) \subseteq Restores
    BY RestoreParts DEF Notes
  <2>2. h \in there /\ (Has(j.todo, HypothesisStep(h)) \/ h \in RefsOf(old.alternative_explanations))
    BY DEF Keeps, KeepsExplained
  <2>3. s \in HypothesisStep(h) => h \in RefsOf(new.alternative_explanations)
    BY <1>1, <2>2 DEF Fills
  <2>4. h \in RefsOf(old.alternative_explanations) => h \in RefsOf(new.alternative_explanations)
    BY DEF Fills
  <2> QED
    BY <1>4, <2>1, <2>2, <2>3, <2>4
<1>8. KeepsRuns(i, new)
  <2> SUFFICES ASSUME NEW r \in Range(Runs)
               PROVE  Has(i.todo, RunStep(r)) \/ r \in RefsOf(new.runs)
    BY DEF KeepsRuns
  <2>1. RunStep(r) \subseteq Restores
    BY RestoreParts
  <2>2. Has(j.todo, RunStep(r)) \/ r \in RefsOf(old.runs)
    BY DEF Keeps, KeepsRuns
  <2>3. s \in RunStep(r) => r \in RefsOf(new.runs)
    BY <1>1 DEF Fills
  <2>4. r \in RefsOf(old.runs) => r \in RefsOf(new.runs)
    BY DEF Fills
  <2> QED
    BY <1>4, <2>1, <2>2, <2>3, <2>4
<1>9. KeepsSeen(i, new)
  BY <1>5 DEF KeepsSeen
<1>10. new # NoTables
  BY DEF Fills
<1> QED
  BY <1>6, <1>7, <1>8, <1>9, <1>10 DEF Keeps

(* The steps of a rebuild, by their operations.                                 *)
LEMMA RestoreShape ==
    ASSUME NEW s \in AnyStep
    PROVE  /\ s[1] = "unlink" => s \in Unlinks
           /\ s[1] = "initialize schema" => s \in Making
           /\ s[1] = "restore events" => s \in EventsStep
           /\ s[1] = "restore run" => s \in RunStep(s[2])
           /\ s[1] = "restore hypothesis" => s \in HypothesisStep(s[2])
<1>1. /\ \A op \in {"unlink", "initialize schema", "restore events"} : op \in PlainOps
      /\ "restore run" \notin PlainOps /\ "restore hypothesis" \notin PlainOps
  BY Zenon DEF PlainOps
<1>2. s[1] \in PlainOps => s = << s[1] >>
  BY StepShape DEF AnyStep
<1>3. s[1] = "unlink" => s \in Unlinks
  BY <1>1, <1>2, Zenon DEF Unlinks
<1>4. s[1] = "initialize schema" => s \in Making
  <2>1. s[1] = "initialize schema" => s \in Schema
    BY <1>1, <1>2, Zenon DEF Schema
  <2> QED
    BY <2>1, RestoreParts, Zenon
<1>5. s[1] = "restore events" => s \in EventsStep
  BY <1>1, <1>2, Zenon DEF EventsStep
<1>6. \A op, S : s \in With1(op, S) => s[1] = op /\ s = << op, s[2] >>
  BY DEF With1
<1>7. \/ s \in PlainSteps \/ s \in With1("discover", Hows) \/ s \in With1("parse", Kinds)
      \/ s \in With1("restore run", Range(Runs))
      \/ s \in With1("restore hypothesis", Hypotheses)
      \/ s \in With1("open", Paths) \/ s \in Writes \/ s \in Inserts(AllRows) \cup ExplainInserts
  BY DEF AnyStep, Steps, OtherSteps
<1>8. /\ s \in PlainSteps => s[1] \in PlainOps
      /\ s \in Writes => s[1] \in {"write", "if missing"}
      /\ s \in Inserts(AllRows) \cup ExplainInserts => s[1] = "insert"
  <2>1. s \in PlainSteps => s[1] \in PlainOps
    BY DEF PlainSteps
  <2>2. ASSUME s \in Writes PROVE s[1] \in {"write", "if missing"}
    <3>1. PICK op \in {"write", "if missing"} :
                 s \in { << op, at[1], at[2] >> : at \in Contents }
      BY <2>2 DEF Writes
    <3>2. PICK at \in Contents : s = << op, at[1], at[2] >>
      BY <3>1
    <3>3. s[1] = op
      BY <3>2
    <3> QED
      BY <3>1, <3>3
  <2>3. s \in Inserts(AllRows) \cup ExplainInserts => s[1] = "insert"
    BY DEF Inserts, ExplainInserts
  <2> QED
    BY <2>1, <2>2, <2>3, Zenon
<1>9. /\ \A op \in {"discover", "parse", "open", "write", "if missing", "insert",
                    "restore hypothesis"} : op # "restore run"
      /\ \A op \in {"discover", "parse", "open", "write", "if missing", "insert",
                    "restore run"} : op # "restore hypothesis"
  BY Zenon
<1>10. s[1] = "restore run" => s = << "restore run", s[2] >>
  BY <1>1, <1>6, <1>7, <1>8, <1>9, Zenon
<1>11. s[1] = "restore hypothesis" => s = << "restore hypothesis", s[2] >>
  BY <1>1, <1>6, <1>7, <1>8, <1>9, Zenon
<1>12. s[1] = "restore run" => s \in RunStep(s[2])
  BY <1>10, Zenon DEF RunStep
<1>13. s[1] = "restore hypothesis" => s \in HypothesisStep(s[2])
  BY <1>11, Zenon DEF HypothesisStep
<1> QED
  BY <1>3, <1>4, <1>5, <1>12, <1>13, Zenon

(* What a step of a rebuild is, by its action.                                  *)
LEMMA RestoreFirst ==
    ASSUME JobsInv, NEW p \in Procs
    PROVE  /\ Unlink(p) => jobs[p].todo[1] \in Unlinks
           /\ InitializeSchema(p) => jobs[p].todo[1] \in Making
           /\ RestoreEvents(p) => jobs[p].todo[1] \in EventsStep
           /\ RestoreRun(p) => jobs[p].todo[1] \in RunStep(Arg(p))
           /\ RestoreHypothesis(p) => jobs[p].todo[1] \in HypothesisStep(Arg(p))
           /\ RestoreLedgerRows(p) => jobs[p].todo[1] \notin Making \cup Restores
<1>1. ASSUME NEW op, At(p, op)
      PROVE  /\ jobs[p].todo[1] \in AnyStep /\ jobs[p].todo[1][1] = op
             /\ jobs[p].todo[1][2] = Arg(p)
  <2>1. /\ AtStep(jobs[p], Head(jobs[p].todo), valid) /\ Head(jobs[p].todo)[1] = op
        /\ Head(jobs[p].todo)[2] = Arg(p)
    BY <1>1, Acting, Zenon
  <2> QED
    BY <2>1, Zenon DEF AtStep
<1>2. PICK s : s = jobs[p].todo[1]
  OBVIOUS
<1>3. Unlink(p) => s \in Unlinks
  <2>1. Unlink(p) => At(p, "unlink")
    BY Zenon DEF Unlink
  <2> QED
    BY <1>1, <1>2, <2>1, RestoreShape, Zenon
<1>4. InitializeSchema(p) => s \in Making
  <2>1. InitializeSchema(p) => At(p, "initialize schema")
    BY Zenon DEF InitializeSchema
  <2> QED
    BY <1>1, <1>2, <2>1, RestoreShape, Zenon
<1>5. RestoreEvents(p) => s \in EventsStep
  <2>1. RestoreEvents(p) => At(p, "restore events")
    BY Zenon DEF RestoreEvents, Restoring
  <2> QED
    BY <1>1, <1>2, <2>1, RestoreShape, Zenon
<1>6. RestoreRun(p) => s \in RunStep(Arg(p))
  <2>1. RestoreRun(p) => At(p, "restore run")
    BY Zenon DEF RestoreRun, Restoring
  <2>2. RestoreRun(p) => s \in AnyStep /\ s[1] = "restore run" /\ s[2] = Arg(p)
    BY <1>1, <1>2, <2>1, Zenon
  <2> QED
    BY <2>2, RestoreShape, Zenon
<1>7. RestoreHypothesis(p) => s \in HypothesisStep(Arg(p))
  <2>1. RestoreHypothesis(p) => At(p, "restore hypothesis")
    BY Zenon DEF RestoreHypothesis, Restoring
  <2>2. RestoreHypothesis(p) => s \in AnyStep /\ s[1] = "restore hypothesis" /\ s[2] = Arg(p)
    BY <1>1, <1>2, <2>1, Zenon
  <2> QED
    BY <2>2, RestoreShape, Zenon
<1>8. RestoreLedgerRows(p) => s \notin Making \cup Restores
  <2>1. RestoreLedgerRows(p) => At(p, "restore ledgers")
    BY Zenon DEF RestoreLedgerRows, Restoring
  <2>2. \A op \in {"unlink", "initialize schema", "restore events", "restore run",
                   "restore hypothesis"} : op # "restore ledgers"
    BY Zenon
  <2>3. RestoreLedgerRows(p) => s[1] = "restore ledgers"
    BY <1>1, <1>2, <2>1, Zenon
  <2>4. s \in Making \cup Restores => s[1] # "restore ledgers"
    BY <2>2, RecordSorts, Zenon
  <2> QED
    BY <2>3, <2>4, Zenon
<1> QED
  BY <1>2, <1>3, <1>4, <1>5, <1>6, <1>7, <1>8, Zenon

(* A process at a step of a rebuild does it, and nothing else.                  *)
LEMMA RestoreOnly ==
    ASSUME JobsInv, NEW p \in Procs, Step(p), jobs[p].todo[1] \in Making \cup Restores
    PROVE  \/ Unlink(p) \/ InitializeSchema(p) \/ RestoreEvents(p)
           \/ RestoreRun(p) \/ RestoreHypothesis(p)
<1>1. PICK O : O = {"unlink", "initialize schema", "restore events", "restore run",
                    "restore hypothesis"}
  OBVIOUS
<1>2. jobs[p].todo[1][1] \in O
  BY <1>1, RecordSorts, Zenon
<1>3. \A op : At(p, op) => op \in O
  <2> SUFFICES ASSUME NEW op, At(p, op) PROVE op \in O
    OBVIOUS
  <2>1. Working(p) /\ Op(p) = op
    BY Zenon DEF At
  <2>2. Op(p) = jobs[p].todo[1][1]
    BY <2>1, FirstOf, Zenon
  <2> QED
    BY <1>2, <2>1, <2>2, Zenon
<1>4. \A op \in {"if missing", "open", "write", "discover", "read project", "insert project",
                 "read events", "append event", "insert event", "parse", "index ledgers", "insert",
                 "restore ledgers"} : op \notin O
  BY <1>1, Zenon
<1> QED
  BY <1>3, <1>4, Zenon DEF Step, IfMissing, Open, Write, Discover, ReadProject, InsertProject,
     ReadEvents, AppendEvent, InsertEvent, Parse, IndexLedgers, Insert, RestoreLedgerRows, Restoring

-----------------------------------------------------------------------------
(* What a step of a rebuild keeps.                                              *)

(* The tables are there, and stay when a row is inserted.                       *)
LEMMA TablesThere ==
    ASSUME NEW tables, TablesOf(tables)
    PROVE  /\ tables # NoTables
           /\ \A new : [tables EXCEPT !.projects = new] # NoTables
           /\ \A t, ref, payload : insert_payload(tables, t, ref, payload) # NoTables
<1>1. DOMAIN tables # {} /\ DOMAIN NoTables = {}
  BY TableNames DEF TablesOf, NoTables
<1>2. \A new : DOMAIN [tables EXCEPT !.projects = new] = DOMAIN tables
  OBVIOUS
<1>3. \A t, ref, payload : DOMAIN insert_payload(tables, t, ref, payload) = DOMAIN tables
  BY DEF insert_payload
<1> QED
  BY <1>1, <1>2, <1>3

(* The lines and the explanations, one step on; what a rebuild has noted.       *)
LEMMA WorldLater ==
    ASSUME IInv, [Next]_vars
    PROVE  /\ LinesLater(events, events') /\ There \subseteq There'
           /\ \A p \in Procs : Notes(jobs[p])
<1>1. LinesLater(events, events') /\ There \subseteq There'
  BY Grows DEF Grown, LinesLater
<1>2. \A p \in Procs : jobs[p] \in Job
  BY DEF IInv, JobsInv
<1>3. \A p \in Procs : Notes(jobs[p])
  BY <1>2 DEF Job, Notes
<1> QED
  BY <1>1, <1>3

(* A process that goes on: what its job is.                                     *)
LEMMA GoesAs ==
    ASSUME IInv, NEW p \in Procs, NEW i, GoesOn(p, i)
    PROVE  /\ jobs'[p] = i /\ \E n, K : Leads(jobs[p], jobs'[p], n, K)
           /\ i.events = jobs[p].events /\ i.explained = jobs[p].explained
           /\ i.name = jobs[p].name /\ i.overlapped = jobs[p].overlapped
           /\ jobs[p].todo \in Seq(AnyStep) /\ 1 \in 1 .. Len(jobs[p].todo)
           /\ jobs[p].todo[1] \in AnyStep
<1>1. jobs'[p] = i
  BY DEF GoesOn, IInv, JobsInv
<1>2. \E n, K : Leads(jobs[p], i, n, K)
  BY Zenon DEF GoesOn
<1>3. Carries(jobs[p], i)
  BY Zenon DEF GoesOn
<1> QED
  BY <1>1, <1>2, <1>3, LeadsFirst DEF Carries

(* What a rebuild relies on, now and one step on.                               *)
Safe(p) == RebuildOrder(jobs[p].todo) /\ Keeps(jobs[p], rebuilt, events, There)
SafeThen(p) == Keeps(jobs'[p], rebuilt', events', There')

(* The tables are removed, or made.                                            *)
LEMMA SafeMakes ==
    ASSUME IInv, FitsInv, [Next]_vars, NEW p \in Procs, Safe(p),
           Unlink(p) \/ InitializeSchema(p)
    PROVE  SafeThen(p)
<1>1. PICK i : GoesOn(p, i)
  BY LeadsDone, Zenon DEF OnlyDone
<1>2. PICK n, K : Leads(jobs[p], jobs'[p], n, K)
  BY <1>1, GoesAs
<1>3. jobs'[p].events = jobs[p].events /\ jobs'[p].explained = jobs[p].explained
  BY <1>1, GoesAs
<1>4. jobs'[p].seen = jobs[p].seen
  <2>1. Op(p) \notin ExplainOps
    <3>1. At(p, "unlink") \/ At(p, "initialize schema")
      BY Zenon DEF Unlink, InitializeSchema
    <3>2. "unlink" \notin ExplainOps /\ "initialize schema" \notin ExplainOps
      BY Zenon DEF ExplainOps
    <3> QED
      BY <3>1, <3>2, Zenon DEF At
  <2>2. i.seen = jobs[p].seen
    BY <1>1, <2>1, Zenon DEF GoesOn
  <2> QED
    BY <1>1, <2>2, GoesAs
<1>5. /\ jobs[p].todo[1] \in Making
      /\ rebuilt' # NoTables \/ jobs[p].todo[1] \in Unlinks
  <2>1. JobsInv
    BY DEF IInv
  <2>2. Unlink(p) => jobs[p].todo[1] \in Unlinks
    BY <2>1, RestoreFirst, Zenon
  <2>3. InitializeSchema(p) => jobs[p].todo[1] \in Making
    BY <2>1, RestoreFirst, Zenon
  <2>4. ASSUME InitializeSchema(p) PROVE rebuilt' # NoTables
    <3>1. PICK tables : /\ tables = IF rebuilt = NoTables THEN EmptyTables ELSE rebuilt
                        /\ \E new : rebuilt' = [tables EXCEPT !.projects = new]
      BY <2>4, Zenon DEF InitializeSchema
    <3>2. TablesOf(tables)
      BY <3>1, EmptyGood DEF IInv, RebuiltInv
    <3> QED
      BY <3>1, <3>2, TablesThere
  <2> QED
    BY <2>2, <2>3, <2>4, RestoreParts
<1> QED
  BY <1>2, <1>3, <1>4, <1>5, WorldLater, KeepsMakes DEF Safe, SafeThen

(* All lines of the events are restored.                                        *)
LEMMA SafeEvents ==
    ASSUME IInv, FitsInv, [Next]_vars, NEW p \in Procs, Safe(p), RestoreEvents(p)
    PROVE  Raise(p) \/ SafeThen(p)
<1>1. JobsInv /\ RecordsInv
  BY DEF IInv
<1>2. PICK s : s = jobs[p].todo[1] /\ s \in EventsStep
  BY <1>1, RestoreFirst, Zenon
<1> SUFFICES ASSUME ~ Raise(p) PROVE SafeThen(p)
  OBVIOUS
<1>3. PICK i : GoesOn(p, i) /\ i.seen = jobs[p].seen
  BY LeadsRestores, Zenon
<1>4. PICK n, K : Leads(jobs[p], jobs'[p], n, K)
  BY <1>3, GoesAs
<1>5. /\ jobs'[p].events = jobs[p].events /\ jobs'[p].explained = jobs[p].explained
      /\ jobs'[p].seen = jobs[p].seen
      /\ jobs[p].todo \in Seq(AnyStep) /\ 1 \in 1 .. Len(jobs[p].todo)
  BY <1>3, GoesAs
<1>6. s \in Restores
  BY <1>2, RestoreParts
<1>7. rebuilt # NoTables /\ jobs[p].seen \subseteq RefsOf(rebuilt.alternative_explanations)
  BY <1>2, <1>5, <1>6, FillsMade DEF Safe
<1>8. TablesOf(rebuilt)
  BY <1>7 DEF IInv, RebuiltInv
<1>9. /\ Torn \notin Range(events)
      /\ \/ events = << >> /\ rebuilt' = rebuilt
         \/ rebuilt' = insert_events(rebuilt, events)
  BY <1>7, Zenon DEF RestoreEvents, Restore, Lost, Nothing
<1>10. events \in Seq(Names)
  <2>1. events \in Seq(Names \cup {Torn})
    BY <1>1 DEF RecordsInv
  <2>2. \A m \in 1 .. Len(events) : events[m] # Torn
    BY <1>9, <2>1 DEF Range
  <2> QED
    BY <2>1, <2>2
<1>11. rebuilt' # NoTables /\ rebuilt'.events \in EventBags
  <2>1. TablesOf(insert_events(rebuilt, events))
    BY <1>8, <1>10, EventsRestored
  <2>2. TablesOf(rebuilt')
    BY <1>8, <1>9, <2>1
  <2> QED
    BY <2>2, TablesThere DEF TablesOf
<1>12. \A m \in Names : Copies(m, rebuilt'.events) \in Nat
  BY <1>11, EventCopies
<1>13. \A m \in Names : CountOf(events, m) \in Nat /\ CountOf(events, m) <= Copies(m, rebuilt'.events)
  <2>1. \A m \in Names : CountOf(events, m) \in Nat
    BY <1>10, OccurrenceCount
  <2>2. CASE events = << >> /\ rebuilt' = rebuilt
    <3>1. \A m : CountOf(<< >>, m) = 0
      <4>1. \A m : PlacesOf(<< >>, m) = {}
        BY DEF PlacesOf
      <4> QED
        BY <4>1, SingletonSize DEF CountOf
    <3> QED
      BY <1>12, <2>2, <3>1
  <2>3. CASE rebuilt' = insert_events(rebuilt, events)
    BY <1>8, <1>10, <2>1, <2>3, LinesRestored
  <2> QED
    BY <1>9, <2>1, <2>2, <2>3
<1>14. /\ rebuilt'.runs = rebuilt.runs
       /\ rebuilt'.alternative_explanations = rebuilt.alternative_explanations
  <2>1. CASE rebuilt' = insert_events(rebuilt, events)
    BY <1>8, <1>10, <2>1, LinesRestored
  <2> QED
    BY <1>9, <2>1
<1>15. Fills(s, rebuilt, rebuilt', events, There)
  BY <1>2, <1>9, <1>11, <1>12, <1>13, <1>14, RestoreParts DEF Fills
<1> QED
  BY <1>2, <1>4, <1>5, <1>6, <1>7, <1>14, <1>15, WorldLater, KeepsFills DEF Safe, SafeThen

(* What becomes of an explanation is what is restored.                          *)
LEMMA ExplanationFills ==
    ASSUME NEW p \in Procs, NEW i, NEW of, NEW tables, TablesOf(tables),
           ExplanationAt(p, i, of, tables),
           jobs[p].seen \subseteq RefsOf(tables.alternative_explanations)
    PROVE  /\ rebuilt' # NoTables /\ rebuilt'.events = tables.events
           /\ rebuilt'.runs = tables.runs
           /\ RefsOf(tables.alternative_explanations)
                \subseteq RefsOf(rebuilt'.alternative_explanations)
           /\ i.seen \subseteq RefsOf(rebuilt'.alternative_explanations)
           /\ files[Explained(of)] # Blank
           /\ files[Explained(of)] # NoFile =>
                Manifest[files[Explained(of)]].hypothesis
                  \in RefsOf(rebuilt'.alternative_explanations)
<1>1. PICK run, h : run = files[Explained(of)] /\ h = Manifest[run].hypothesis
  OBVIOUS
<1>2. /\ run # Blank
      /\ \/ (run = NoFile \/ h \in jobs[p].seen) /\ i.seen = jobs[p].seen /\ rebuilt' = tables
         \/ /\ i.seen = jobs[p].seen \cup {h}
            /\ rebuilt' = insert_payload(tables, "alternative_explanations", h, run)
  BY <1>1, Zenon DEF ExplanationAt
<1>3. CASE (run = NoFile \/ h \in jobs[p].seen) /\ i.seen = jobs[p].seen /\ rebuilt' = tables
  BY <1>1, <1>2, <1>3, TablesThere
<1>4. CASE /\ i.seen = jobs[p].seen \cup {h}
           /\ rebuilt' = insert_payload(tables, "alternative_explanations", h, run)
  <2>1. PICK new : new = insert_payload(tables, "alternative_explanations", h, run)
    OBVIOUS
  <2>2. /\ new.events = tables.events
        /\ RefsOf(new.alternative_explanations) = RefsOf(tables.alternative_explanations) \cup {h}
        /\ new.runs = tables.runs
    <3>1. "runs" # "alternative_explanations"
      OBVIOUS
    <3> QED
      BY <2>1, <3>1, PayloadRefs
  <2>3. new # NoTables
    BY <2>1, TablesThere
  <2> QED
    BY <1>1, <1>2, <1>4, <2>1, <2>2, <2>3
<1> QED
  BY <1>2, <1>3, <1>4

(* A run is restored, with the explanation in its directory.                    *)
LEMMA SafeRun ==
    ASSUME IInv, FitsInv, [Next]_vars, NEW p \in Procs, Safe(p), RestoreRun(p)
    PROVE  Raise(p) \/ SafeThen(p)
<1>1. PICK s, r : s = jobs[p].todo[1] /\ r = Arg(p) /\ s \in RunStep(r)
  <2>1. JobsInv
    BY DEF IInv
  <2> QED
    BY <2>1, RestoreFirst, Zenon
<1> SUFFICES ASSUME ~ Raise(p) PROVE SafeThen(p)
  OBVIOUS
<1>2. PICK i : GoesOn(p, i) /\ r \in Range(Runs) /\ RunRestored(p, i)
  BY <1>1, LeadsRestoreRun, Zenon
<1>3. PICK n, K : Leads(jobs[p], jobs'[p], n, K)
  BY <1>2, GoesAs
<1>4. /\ jobs'[p].events = jobs[p].events /\ jobs'[p].explained = jobs[p].explained
      /\ jobs'[p] = i
      /\ jobs[p].todo \in Seq(AnyStep) /\ 1 \in 1 .. Len(jobs[p].todo)
  BY <1>2, GoesAs
<1>5. s \in Restores
  BY <1>1, <1>2, RestoreParts
<1>6. rebuilt # NoTables /\ jobs[p].seen \subseteq RefsOf(rebuilt.alternative_explanations)
  BY <1>1, <1>4, <1>5, FillsMade DEF Safe
<1>7. TablesOf(rebuilt)
  BY <1>6 DEF IInv, RebuiltInv
<1>8. PICK tables : /\ tables = insert_payload(rebuilt, "runs", r, Manifest[r])
                    /\ ExplanationAt(p, i, r, tables)
  BY <1>1, <1>2 DEF RunRestored
<1>9. TablesOf(tables)
  <2>1. "runs" \in Kinds /\ "runs" # "alternative_explanations"
    BY TableNames
  <2> QED
    BY <1>7, <1>8, <2>1, PayloadInserted
<1>10. /\ tables.events = rebuilt.events
       /\ RefsOf(tables.runs) = RefsOf(rebuilt.runs) \cup {r}
       /\ tables.alternative_explanations = rebuilt.alternative_explanations
  <2>1. "runs" # "alternative_explanations"
    OBVIOUS
  <2> QED
    BY <1>7, <1>8, <2>1, PayloadRefs
<1>11. /\ rebuilt' # NoTables /\ rebuilt'.events = tables.events
       /\ rebuilt'.runs = tables.runs
       /\ RefsOf(tables.alternative_explanations)
            \subseteq RefsOf(rebuilt'.alternative_explanations)
       /\ i.seen \subseteq RefsOf(rebuilt'.alternative_explanations)
  BY <1>6, <1>8, <1>9, <1>10, ExplanationFills
<1>12. /\ s \notin EventsStep /\ \A h : s \notin HypothesisStep(h)
       /\ \A x : s \in RunStep(x) => x = r
  BY <1>1, RestoreParts
<1>13. Fills(s, rebuilt, rebuilt', events, There)
  BY <1>10, <1>11, <1>12 DEF Fills
<1> QED
  BY <1>1, <1>3, <1>4, <1>5, <1>11, <1>13, WorldLater, KeepsFills DEF Safe, SafeThen

(* The explanation of a hypothesis is restored.                                 *)
LEMMA SafeHypothesis ==
    ASSUME IInv, FitsInv, [Next]_vars, NEW p \in Procs, Safe(p), RestoreHypothesis(p)
    PROVE  Raise(p) \/ SafeThen(p)
<1>1. PICK s, of : s = jobs[p].todo[1] /\ of = Arg(p) /\ s \in HypothesisStep(of)
  <2>1. JobsInv
    BY DEF IInv
  <2> QED
    BY <2>1, RestoreFirst, Zenon
<1> SUFFICES ASSUME ~ Raise(p) PROVE SafeThen(p)
  OBVIOUS
<1>2. PICK i : GoesOn(p, i) /\ of \in Hypotheses /\ ExplanationAt(p, i, of, rebuilt)
  BY <1>1, LeadsRestoreHypothesis, Zenon
<1>3. PICK n, K : Leads(jobs[p], jobs'[p], n, K)
  BY <1>2, GoesAs
<1>4. /\ jobs'[p].events = jobs[p].events /\ jobs'[p].explained = jobs[p].explained
      /\ jobs'[p] = i
      /\ jobs[p].todo \in Seq(AnyStep) /\ 1 \in 1 .. Len(jobs[p].todo)
  BY <1>2, GoesAs
<1>5. s \in Restores
  BY <1>1, <1>2, RestoreParts
<1>6. rebuilt # NoTables /\ jobs[p].seen \subseteq RefsOf(rebuilt.alternative_explanations)
  BY <1>1, <1>4, <1>5, FillsMade DEF Safe
<1>7. TablesOf(rebuilt)
  BY <1>6 DEF IInv, RebuiltInv
<1>8. /\ rebuilt' # NoTables /\ rebuilt'.events = rebuilt.events
      /\ rebuilt'.runs = rebuilt.runs
      /\ RefsOf(rebuilt.alternative_explanations)
           \subseteq RefsOf(rebuilt'.alternative_explanations)
      /\ i.seen \subseteq RefsOf(rebuilt'.alternative_explanations)
      /\ files[Explained(of)] # Blank
      /\ files[Explained(of)] # NoFile =>
           Manifest[files[Explained(of)]].hypothesis
             \in RefsOf(rebuilt'.alternative_explanations)
  BY <1>2, <1>6, <1>7, ExplanationFills
<1>9. of \in There => of \in RefsOf(rebuilt'.alternative_explanations)
  <2>1. of \in There => files[Explained(of)] # NoFile
    BY DEF There
  <2> QED
    BY <1>2, <1>8, <2>1 DEF FitsInv
<1>10. /\ s \notin EventsStep /\ \A r : s \notin RunStep(r)
       /\ \A x : s \in HypothesisStep(x) => x = of
  BY <1>1, RestoreParts
<1>11. Fills(s, rebuilt, rebuilt', events, There)
  BY <1>8, <1>9, <1>10 DEF Fills
<1> QED
  BY <1>1, <1>3, <1>4, <1>5, <1>8, <1>11, WorldLater, KeepsFills DEF Safe, SafeThen

(* The other steps leave what a rebuild has restored, and has to.               *)
LEMMA SafePasses ==
    ASSUME IInv, FitsInv, [Next]_vars, NEW p \in Procs, Safe(p), Step(p),
           jobs[p].todo[1] \notin Making \cup Restores
    PROVE  Raise(p) \/ SafeThen(p)
<1>1. PICK s : s = jobs[p].todo[1]
  OBVIOUS
<1>2. JobsInv
  BY DEF IInv
<1> SUFFICES ASSUME ~ Raise(p) PROVE SafeThen(p)
  OBVIOUS
<1>3. PICK i : GoesOn(p, i)
  BY StepLeads, Zenon
<1>4. PICK n, K : Leads(jobs[p], jobs'[p], n, K)
  BY <1>3, GoesAs
<1>5. /\ jobs'[p].events = jobs[p].events /\ jobs'[p].explained = jobs[p].explained
      /\ jobs'[p] = i
      /\ jobs[p].todo \in Seq(AnyStep) /\ 1 \in 1 .. Len(jobs[p].todo)
      /\ jobs[p].todo[1] \in AnyStep
  BY <1>3, GoesAs
<1>6. jobs'[p].seen = jobs[p].seen
  <2>1. Working(p)
    BY <1>3, Zenon DEF GoesOn
  <2>2. Op(p) = s[1] /\ s \in AnyStep
    BY <1>1, <1>2, <1>5, <2>1, FirstOf, Zenon
  <2>3. s[1] \notin ExplainOps
    <3>1. s[1] \in ExplainOps => s[1] \in {"restore events", "restore run", "restore hypothesis"}
      BY Zenon DEF ExplainOps
    <3>2. s[1] \in {"restore events", "restore run", "restore hypothesis"} => s \in Restores
      BY <2>2, Zenon DEF Restores
    <3> QED
      BY <1>1, <3>1, <3>2, Zenon
  <2> QED
    BY <1>3, <1>5, <2>2, <2>3, Zenon DEF GoesOn
<1>7. Richer(rebuilt, rebuilt')
  <2>1. ~ Unlink(p) /\ ~ InitializeSchema(p) /\ ~ RestoreEvents(p)
        /\ ~ RestoreRun(p) /\ ~ RestoreHypothesis(p)
    <3>1. s \notin Making /\ s \notin Restores /\ s \notin Unlinks /\ s \notin EventsStep
      BY <1>1, RestoreParts
    <3>2. ~ RestoreRun(p)
      <4>1. RestoreRun(p) => Raise(p) \/ Arg(p) \in Range(Runs)
        BY LeadsRestoreRun, Zenon
      <4>2. Arg(p) \in Range(Runs) => s \notin RunStep(Arg(p))
        BY <3>1, RestoreParts
      <4> QED
        BY <1>1, <1>2, <4>1, <4>2, RestoreFirst, Zenon
    <3>3. ~ RestoreHypothesis(p)
      <4>1. RestoreHypothesis(p) => Raise(p) \/ Arg(p) \in Hypotheses
        BY LeadsRestoreHypothesis, Zenon
      <4>2. Arg(p) \in Hypotheses => s \notin HypothesisStep(Arg(p))
        BY <3>1, RestoreParts
      <4> QED
        BY <1>1, <1>2, <4>1, <4>2, RestoreFirst, Zenon
    <3> QED
      BY <1>1, <1>2, <3>1, <3>2, <3>3, RestoreFirst, Zenon
  <2>2. rebuilt' = rebuilt \/ RestoreLedgerRows(p)
    BY <2>1, StepChanges, Zenon
  <2>3. CASE RestoreLedgerRows(p) /\ rebuilt' # rebuilt
    <3>1. rebuilt # NoTables /\ rebuilt' = insert_rows(rebuilt, jobs[p].parsed) /\ ~ jobs[p].errors
      BY <2>3, Zenon DEF RestoreLedgerRows, Restore, Lost, Nothing
    <3>2. TablesOf(rebuilt)
      BY <3>1 DEF IInv, RebuiltInv
    <3>3. jobs[p].parsed \in Seq(Inserts(AllRows))
      BY <1>2 DEF JobsInv, Job
    <3>4. TablesOf(rebuilt') /\ rebuilt' # NoTables
      BY <3>1, <3>2, <3>3, RowsInserted, TablesThere
    <3>5. /\ rebuilt'.events = rebuilt.events
          /\ rebuilt'.alternative_explanations = rebuilt.alternative_explanations
          /\ RefsOf(rebuilt.runs) \subseteq RefsOf(rebuilt'.runs)
      BY <3>1, <3>2, <3>3, RowsRefs
    <3> QED
      BY <3>1, <3>4, <3>5 DEF Richer
  <2> QED
    BY <2>2, <2>3 DEF Richer
<1>8. \A B : B \subseteq Making \cup Restores => (Has(jobs'[p].todo, B) <=> Has(jobs[p].todo, B))
  <2> SUFFICES ASSUME NEW B, B \subseteq Making \cup Restores
               PROVE  Has(jobs'[p].todo, B) <=> Has(jobs[p].todo, B)
    OBVIOUS
  <2>1. jobs[p].todo[1] \notin B
    OBVIOUS
  <2> QED
    BY <1>4, <2>1, LeadsLeft
<1> QED
  BY <1>5, <1>6, <1>7, <1>8, WorldLater, KeepsStay DEF Safe, SafeThen

(* Every step of a rebuild.                                                     *)
LEMMA SafeStep ==
    ASSUME IInv, FitsInv, [Next]_vars, NEW p \in Procs, Safe(p), Step(p)
    PROVE  Raise(p) \/ SafeThen(p)
<1>1. CASE jobs[p].todo[1] \in Making \cup Restores
  <2>1. JobsInv
    BY DEF IInv
  <2> QED
    BY <1>1, <2>1, RestoreOnly, SafeMakes, SafeEvents, SafeRun, SafeHypothesis
<1> QED
  BY <1>1, SafePasses

-----------------------------------------------------------------------------
(* A rebuild that no other one overlaps has, or will restore, what was there    *)
(* when it began.                                                               *)
RebuildInv ==
    /\ \A p, q \in Procs : p # q /\ jobs[p].name = "rebuild" /\ jobs[q].name = "rebuild"
                           => jobs[p].overlapped
    /\ \A p \in Procs : jobs[p].name = "rebuild" => RebuildOrder(jobs[p].todo)
    /\ \A p \in Procs : jobs[p].name = "rebuild" /\ ~ jobs[p].overlapped => Safe(p)

(* A job that is there after a step was there before, or begins.                *)
LEMMA NameNext ==
    ASSUME IInv, FitsInv, [Next]_vars, NEW p \in Procs, jobs'[p].name = "rebuild", ~ Begin(p)
    PROVE  /\ jobs[p].name = "rebuild" /\ (jobs[p].overlapped => jobs'[p].overlapped)
           /\ \/ SameJob(jobs[p], jobs'[p])
              \/ Step(p) /\ \E n, K : Leads(jobs[p], jobs'[p], n, K)
<1>1. JobNext(p)
  BY JobChanges
<1>2. jobs'[p] # NoJob
  BY DEF NoJob
<1>3. CASE SameJob(jobs[p], jobs'[p])
  BY <1>3 DEF SameJob
<1>4. CASE Step(p) /\ GoesOn(p, jobs'[p])
  BY <1>4, GoesAs
<1> QED
  BY <1>1, <1>2, <1>3, <1>4 DEF JobNext

(* Two rebuilds at once overlap.                                                *)
LEMMA OverlapNext ==
    ASSUME IInv, FitsInv, RebuildInv, [Next]_vars, NEW p \in Procs, NEW q \in Procs, p # q,
           jobs'[p].name = "rebuild", jobs'[q].name = "rebuild"
    PROVE  jobs'[p].overlapped
<1>1. CASE Begin(p)
  <2>1. PICK c \in Commands :
          /\ JobBegins(jobs'[p], c) /\ (c.name = "rebuild" /\ RebuildBeside(p) => jobs'[p].overlapped)
          /\ \A r \in Procs \ {p} : SameJob(jobs[r], jobs'[r])
    BY <1>1, BeginChanges
  <2>2. c.name = "rebuild" /\ jobs[q].name = "rebuild"
    BY <2>1 DEF JobBegins, SameJob
  <2> QED
    BY <2>1, <2>2 DEF RebuildBeside
<1>2. CASE Begin(q)
  <2>1. PICK c \in Commands :
          /\ JobBegins(jobs'[q], c)
          /\ \A r \in Procs \ {q} :
               /\ SameJob(jobs[r], jobs'[r])
               /\ c.name = "rebuild" /\ jobs[r].name = "rebuild" => jobs'[r].overlapped
    BY <1>2, BeginChanges
  <2>2. c.name = "rebuild" /\ jobs[p].name = "rebuild"
    BY <2>1 DEF JobBegins, SameJob
  <2> QED
    BY <2>1, <2>2
<1>3. CASE ~ Begin(p) /\ ~ Begin(q)
  <2>1. jobs[p].name = "rebuild" /\ (jobs[p].overlapped => jobs'[p].overlapped)
    BY <1>3, NameNext
  <2>2. jobs[q].name = "rebuild"
    BY <1>3, NameNext
  <2> QED
    BY <2>1, <2>2 DEF RebuildInv
<1> QED
  BY <1>1, <1>2, <1>3

(* A rebuild that begins.                                                       *)
LEMMA RebuildStarts ==
    ASSUME IInv, NEW p \in Procs, Begin(p), jobs'[p].name = "rebuild"
    PROVE  /\ RebuildOrder(jobs'[p].todo) /\ Restoring1(jobs'[p].todo) /\ Has(jobs'[p].todo, Schema)
           /\ jobs'[p].seen = {} /\ jobs'[p].events = index.events
           /\ jobs'[p].explained = RefsOf(index.alternative_explanations)
<1>1. PICK c \in Commands : JobBegins(jobs'[p], c)
  BY BeginChanges
<1>2. c.name = "rebuild"
  BY <1>1 DEF JobBegins
<1>3. jobs'[p].todo = Append(rebuild_index, Return1)
  BY <1>1, <1>2, NamedSteps DEF JobBegins
<1> QED
  BY <1>1, <1>2, <1>3, RebuildBegins DEF JobBegins

(* The order of its steps stays.                                                *)
LEMMA OrderNext ==
    ASSUME IInv, FitsInv, RebuildInv, [Next]_vars, NEW p \in Procs, jobs'[p].name = "rebuild"
    PROVE  RebuildOrder(jobs'[p].todo)
<1>1. CASE Begin(p)
  BY <1>1, RebuildStarts
<1>2. CASE ~ Begin(p)
  <2>1. jobs[p].name = "rebuild" /\ (\/ SameJob(jobs[p], jobs'[p])
                                     \/ \E n, K : Leads(jobs[p], jobs'[p], n, K))
    BY <1>2, NameNext
  <2>2. RebuildOrder(jobs[p].todo)
    BY <2>1 DEF RebuildInv
  <2> QED
    BY <2>1, <2>2, LeadsRebuildOrder DEF SameJob
<1> QED
  BY <1>1, <1>2

(* Only a rebuild changes the rebuilt tables.                                   *)
LEMMA RebuildsOnly ==
    ASSUME IInv, Shapes, NEW q \in Procs, Step(q), rebuilt' # rebuilt
    PROVE  jobs[q].name = "rebuild"
<1>1. JobsInv
  BY DEF IInv
<1>2. \/ Unlink(q) \/ InitializeSchema(q) \/ RestoreEvents(q)
      \/ RestoreRun(q) \/ RestoreHypothesis(q) \/ RestoreLedgerRows(q)
  BY StepChanges, Zenon
<1>3. PICK op : At(q, op) /\ (op \in RestoreOps \/ op = "restore ledgers")
  <2>1. \A op \in {"unlink", "initialize schema", "restore events", "restore run",
                   "restore hypothesis"} : op \in RestoreOps
    BY Zenon DEF RestoreOps
  <2> QED
    BY <1>2, <2>1, Zenon DEF Unlink, InitializeSchema, RestoreEvents, RestoreRun,
       RestoreHypothesis, RestoreLedgerRows, Restoring
<1>4. PICK j, s : /\ j = jobs[q] /\ s = j.todo[1] /\ s \in AnyStep /\ s[1] = op
                  /\ 1 \in 1 .. Len(j.todo)
  BY <1>1, <1>3, Acting, Zenon DEF AtStep
<1>5. s \in Rebuilds \cup RestoreStep
  <2>1. op \in RestoreOps => s \in Rebuilds
    BY <1>4, Zenon DEF Rebuilds
  <2>2. ASSUME op = "restore ledgers" PROVE s \in RestoreStep
    <3>1. "restore ledgers" \in PlainOps
      BY Zenon DEF PlainOps
    <3>2. s[1] \in PlainOps => s = << s[1] >>
      BY <1>4, StepShape DEF AnyStep
    <3> QED
      BY <1>4, <2>2, <3>1, <3>2, Zenon DEF RestoreStep
  <2> QED
    BY <1>3, <2>1, <2>2, Zenon
<1>6. Has(j.todo, Rebuilds \cup RestoreStep)
  BY <1>4, <1>5, Zenon DEF Has
<1> QED
  BY <1>4, <1>6, Zenon DEF Shapes, Shape

(* What it relies on when it begins.                                            *)
LEMMA SafeBegins ==
    ASSUME IInv, ExplainedInv, CountInv, NEW p \in Procs, Begin(p), jobs'[p].name = "rebuild"
    PROVE  SafeThen(p)
<1>1. PICK i : i = jobs'[p]
  OBVIOUS
<1>2. /\ Restoring1(i.todo) /\ Has(i.todo, Schema) /\ i.seen = {} /\ i.events = index.events
      /\ i.explained = RefsOf(index.alternative_explanations)
  BY <1>1, RebuildStarts
<1>3. UNCHANGED << files, events, index, rebuilt >>
  BY Zenon DEF Begin
<1>4. TablesOf(index) /\ index.events \in EventBags
  BY DEF IInv, IndexInv, TablesOf
<1>5. There' = There
  BY <1>3 DEF There, Hypotheses
<1>6. KeepsEvents(i, rebuilt, events)
  <2>1. CASE Torn \notin Range(events)
    <3>1. ASSUME NEW n \in Names PROVE Copies(n, index.events) <= CountOf(events, n)
      <4>1. Copies(n, index.events) + Cardinality(Inserting(n)) <= CountOf(events, n)
        BY <2>1 DEF CountInv
      <4>2. Copies(n, index.events) \in Nat
        BY <1>4, EventCopies
      <4>3. Cardinality(Inserting(n)) \in Nat
        BY InsertingSize DEF CountInv
      <4>4. CountOf(events, n) \in Nat
        <5>1. events \in Seq(Names \cup {Torn})
          BY DEF IInv, RecordsInv
        <5> QED
          BY <5>1, OccurrenceCount
      <4> QED
        BY <4>1, <4>2, <4>3, <4>4
    <3> QED
      BY <1>2, <3>1 DEF KeepsEvents, Restoring1
  <2> QED
    BY <1>2, <2>1 DEF KeepsEvents, Restoring1
<1>7. KeepsExplained(i, rebuilt, There)
  <2>1. RefsOf(index.alternative_explanations) \subseteq Hypotheses
    BY <1>4 DEF TablesOf
  <2>2. \A h \in RefsOf(index.alternative_explanations) : h \in There
    BY <2>1 DEF ExplainedInv, There
  <2> QED
    BY <1>2, <2>1, <2>2 DEF KeepsExplained, Restoring1
<1>8. KeepsRuns(i, rebuilt)
  BY <1>2 DEF KeepsRuns, Restoring1
<1>9. KeepsSeen(i, rebuilt)
  BY <1>2 DEF KeepsSeen
<1> QED
  BY <1>1, <1>2, <1>3, <1>5, <1>6, <1>7, <1>8, <1>9 DEF Keeps, SafeThen

(* What it relies on stays, whatever goes on beside it.                         *)
LEMMA SafeNext ==
    ASSUME IInv, FitsInv, ExplainedInv, CountInv, RebuildInv, Shapes, [Next]_vars,
           NEW p \in Procs, jobs'[p].name = "rebuild", ~ jobs'[p].overlapped
    PROVE  SafeThen(p)
<1>1. CASE Begin(p)
  BY <1>1, SafeBegins
<1>2. CASE ~ Begin(p) /\ Step(p)
  <2>1. jobs[p].name = "rebuild" /\ ~ jobs[p].overlapped
    BY <1>2, NameNext
  <2>2. Safe(p)
    BY <2>1 DEF RebuildInv
  <2>3. ~ Raise(p)
    <3>1. Raise(p) => jobs'[p] = NoJob
      BY DEF Raise, Becomes, IInv, JobsInv
    <3> QED
      BY <3>1 DEF NoJob
  <2> QED
    BY <1>2, <2>2, <2>3, SafeStep
<1>3. CASE ~ Begin(p) /\ ~ Step(p)
  <2>1. jobs[p].name = "rebuild" /\ ~ jobs[p].overlapped /\ SameJob(jobs[p], jobs'[p])
    BY <1>3, NameNext
  <2>2. Safe(p)
    BY <2>1 DEF RebuildInv
  <2>3. rebuilt' = rebuilt
    <3>1. ASSUME NEW q \in Procs, Step(q) PROVE rebuilt' = rebuilt
      <4>1. q # p
        BY <1>3, <3>1
      <4>2. jobs[q].name # "rebuild"
        BY <2>1, <4>1 DEF RebuildInv
      <4> QED
        BY <3>1, <4>2, RebuildsOnly
    <3>2. Others => rebuilt' = rebuilt
      BY OthersChange
    <3> QED
      BY <3>1, <3>2, StepOrOther
  <2>4. Richer(rebuilt, rebuilt')
    BY <2>3 DEF Richer
  <2>5. \A B : B \subseteq Making \cup Restores => (Has(jobs'[p].todo, B) <=> Has(jobs[p].todo, B))
    BY <2>1 DEF SameJob
  <2> QED
    BY <2>1, <2>2, <2>4, <2>5, WorldLater, KeepsStay DEF Safe, SafeThen, SameJob
<1> QED
  BY <1>1, <1>2, <1>3

(* What a rebuild relies on, one step on, is that of the next state.            *)
LEMMA SafePrimed ==
    /\ \A L : RebuildOrder(L)' <=> RebuildOrder(L)
    /\ \A p : SafeThen(p) <=> Keeps(jobs[p], rebuilt, events, There)'
<1>1. /\ Making' = Making /\ Restores' = Restores /\ Schema' = Schema /\ Unlinks' = Unlinks
      /\ EventsStep' = EventsStep /\ Hypotheses' = Hypotheses /\ NoTables' = NoTables
  <2>1. AnyStep' = AnyStep
    BY DEF AnyStep, Steps, OtherSteps, Inserts, AllRows
  <2>2. Making' = Making /\ Restores' = Restores
    BY <2>1, Zenon DEF Making, Restores
  <2>3. Schema' = Schema /\ Unlinks' = Unlinks /\ EventsStep' = EventsStep
    BY Zenon DEF Schema, Unlinks, EventsStep
  <2>4. Hypotheses' = Hypotheses /\ NoTables' = NoTables
    BY DEF Hypotheses, NoTables
  <2> QED
    BY <2>2, <2>3, <2>4
<1>2. \A x : RunStep(x)' = RunStep(x) /\ HypothesisStep(x)' = HypothesisStep(x)
  BY Zenon DEF RunStep, HypothesisStep
<1>3. \A L : RebuildOrder(L)' <=> RebuildOrder(L)
  BY <1>1, <1>2 DEF RebuildOrder, Follows, Never
<1>4. \A p : SafeThen(p) <=> Keeps(jobs[p], rebuilt, events, There)'
  BY <1>1, <1>2 DEF SafeThen, Keeps, KeepsEvents, KeepsExplained, KeepsRuns, KeepsSeen,
     Has, Copies, CountOf, PlacesOf, Torn, RefsOf
<1> QED
  BY <1>3, <1>4

(* The invariant of rebuilds is kept.                                           *)
LEMMA RebuildNext ==
    ASSUME IInv, FitsInv, ExplainedInv, CountInv, RebuildInv, Shapes, [Next]_vars
    PROVE  RebuildInv'
<1>1. \A p, q \in Procs : p # q /\ jobs'[p].name = "rebuild" /\ jobs'[q].name = "rebuild"
                          => jobs'[p].overlapped
  BY OverlapNext
<1>2. \A p \in Procs : jobs'[p].name = "rebuild" => RebuildOrder(jobs'[p].todo)
  BY OrderNext
<1>3. \A p \in Procs : jobs'[p].name = "rebuild" /\ ~ jobs'[p].overlapped => SafeThen(p)
  BY SafeNext
<1>4. \A p \in Procs : jobs'[p].name = "rebuild" => RebuildOrder(jobs[p].todo)'
  <2>1. \A L : RebuildOrder(L) => RebuildOrder(L)'
    BY SafePrimed
  <2> QED
    BY <1>2, <2>1 DEF RebuildOrder, Follows, Never, Making, Restores, Schema, Unlinks, EventsStep,
       HypothesisStep, RunStep, AnyStep, Steps, OtherSteps, Inserts, AllRows, Hypotheses
<1>5. \A p \in Procs : jobs'[p].name = "rebuild" /\ ~ jobs'[p].overlapped => Safe(p)'
  BY <1>3, <1>4, SafePrimed DEF Safe
<1> QED
  BY <1>1, <1>4, <1>5 DEF RebuildInv

(* The start.                                                                   *)
LEMMA InitRecords ==
    Init => FitsInv /\ ExplainedInv /\ CountInv /\ RebuildInv
<1> SUFFICES ASSUME Init PROVE FitsInv /\ ExplainedInv /\ CountInv /\ RebuildInv
  OBVIOUS
<1>1. \A h \in Hypotheses : files[Explained(h)] = NoFile
  BY InitFiles DEF Explainable
<1>2. \A p \in Procs : jobs[p].todo = << >> /\ jobs[p].name = "none"
  <2>1. jobs = [p \in Procs |-> NoJob]
    BY DEF Init
  <2> QED
    BY <2>1 DEF NoJob
<1>3. FitsInv
  BY <1>1, <1>2, NothingFirst DEF FitsInv
<1>4. RebuildInv
  BY <1>2 DEF RebuildInv
<1>5. /\ index.alternative_explanations = {}
      /\ \A n \in Names : Copies(n, index.events) = CountOf(events, n)
                          /\ CountOf(events, n) \in Nat
  <2>1. CASE index = EmptyTables /\ events = << >>
    <3>1. \A n : CountOf(<< >>, n) = 0
      <4>1. \A n : PlacesOf(<< >>, n) = {}
        BY DEF PlacesOf
      <4> QED
        BY <4>1, SingletonSize DEF CountOf
    <3> QED
      BY <2>1, <3>1, EmptyGood, TableNames, NoCopies
  <2>2. ASSUME NEW name \in Initialised, events = << name >>,
               index = [EmptyTables EXCEPT !.projects = {Row(name, name)},
                                           !.events = BagAdd(EmptyBag, name)]
        PROVE  /\ index.alternative_explanations = {}
               /\ \A n \in Names : Copies(n, index.events) = CountOf(events, n)
                                   /\ CountOf(events, n) \in Nat
    <3>1. name \in Names
      BY WorkspaceBounds
    <3>2. PICK bag, t, row : bag = BagAdd(EmptyBag, name) /\ t = EmptyTables
                             /\ row = {Row(name, name)}
      OBVIOUS
    <3>3. DOMAIN t = Tables \cup {"events"} /\ t.alternative_explanations = {}
      BY <3>2, EmptyGood, TableNames DEF TablesOf
    <3>4. index = [t EXCEPT !.projects = row, !.events = bag]
      BY <2>2, <3>2, Zenon
    <3>5. index.alternative_explanations = {} /\ index.events = bag
      BY <3>3, <3>4, TableNames
    <3>6. \A n \in Names : Copies(n, bag) = IF n = name THEN 1 ELSE 0
      <4>1. EmptyBag \in EventBags
        BY OneMore
      <4>2. Copies(name, bag) = 0 + 1 /\ \A n \in Names \ {name} : Copies(n, bag) = 0
        BY <3>1, <3>2, <4>1, EventCopies, NoCopies
      <4> QED
        BY <4>2
    <3>7. \A n : CountOf(events, n) = IF name = n THEN 1 ELSE 0
      <4>1. PICK L : L \in Seq(Names) /\ Len(L) = 0 /\ L = << >>
        <5>1. << >> \in Seq(Names) /\ Len(<< >>) = 0
          OBVIOUS
        <5> QED
          BY <5>1, Zenon
      <4>2. events = Append(L, name)
        BY <2>2, <4>1
      <4>3. \A n : PlacesOf(L, n) = {}
        BY <4>1 DEF PlacesOf
      <4>4. \A n : CountOf(L, n) = 0
        BY <4>3, SingletonSize DEF CountOf
      <4>5. PICK M : M = L /\ M \in Seq(Names)
        BY <4>1, Zenon
      <4>6. \A n : CountOf(Append(M, name), n) = CountOf(M, n) + (IF name = n THEN 1 ELSE 0)
        BY <3>1, <4>5, OccurrenceCount
      <4> QED
        BY <4>2, <4>4, <4>5, <4>6
    <3> QED
      BY <3>5, <3>6, <3>7
  <2>3. \/ index = EmptyTables /\ events = << >>
        \/ \E name \in Initialised :
             /\ events = << name >>
             /\ index = [EmptyTables EXCEPT !.projects = {Row(name, name)},
                                            !.events = BagAdd(EmptyBag, name)]
    BY Zenon DEF Init
  <2> QED
    BY <2>1, <2>2, <2>3
<1>6. ExplainedInv
  <2>1. \A h \in Hypotheses : \A p \in Procs :
          Precedes(jobs[p].todo, Explains(h), Opens(h), FALSE)
    <3>1. \A m \in 1 .. Len(<< >>) : FALSE
      OBVIOUS
    <3>2. \A A, B : Precedes(<< >>, A, B, FALSE)
      BY <3>1 DEF Precedes
    <3> QED
      BY <1>2, <3>2
  <2> QED
    BY <1>5, <2>1 DEF ExplainedInv, RefsOf
<1>7. CountInv
  <2>1. \A p \in Procs : Tidy(jobs[p].todo)
    <3>1. Tidy(<< >>)
      BY DEF Tidy
    <3> QED
      BY <1>2, <3>1
  <2>2. \A n : Inserting(n) = {}
    BY <1>2 DEF Inserting, FirstInserts
  <2>3. \A n \in Names : Copies(n, index.events) + 0 <= CountOf(events, n)
    BY <1>5
  <2> QED
    BY <2>1, <2>2, <2>3, SingletonSize, FiniteAdd DEF CountInv
<1> QED
  BY <1>3, <1>4, <1>6, <1>7

(* A rebuild about to report success has restored all it noted.                 *)
LEMMA SafeReturns ==
    ASSUME IInv, RebuildInv, NEW p \in Procs, At(p, "return"), jobs[p].name = "rebuild",
           ~ jobs[p].overlapped
    PROVE  /\ rebuilt # NoTables /\ jobs[p].events \sqsubseteq rebuilt.events
           /\ jobs[p].explained \subseteq RefsOf(rebuilt.alternative_explanations)
           /\ Range(Runs) \subseteq RefsOf(rebuilt.runs)
<1>1. PICK j : j = jobs[p]
  OBVIOUS
<1>2. /\ AtStep(j, Head(j.todo), valid) /\ Head(j.todo)[1] = "return" /\ JobGood(j, World)
  BY <1>1, Acting DEF IInv
<1>3. PICK s : s = j.todo[1] /\ s[1] = "return" /\ 1 \in 1 .. Len(j.todo) /\ Len(j.todo) \in Nat
               /\ s \in AnyStep
  BY <1>2 DEF AtStep
<1>4. s = Return1
  <2>1. s[1] \in PlainOps => s = << s[1] >>
    BY <1>3, StepShape DEF AnyStep
  <2>2. "return" \in PlainOps
    BY Zenon DEF PlainOps
  <2> QED
    BY <1>3, <2>1, <2>2, Zenon DEF Return1
<1>5. Len(j.todo) = 1
  <2>1. PICK L : L = j.todo
    OBVIOUS
  <2>2. Ends(L, Return1) /\ L[1] = Return1 /\ 1 \in 1 .. Len(L)
    <3>1. Ends(j.todo, Return1)
      BY <1>2 DEF JobGood
    <3> QED
      BY <1>3, <1>4, <2>1, <3>1, Zenon
  <2>3. L # << >>
    <3>1. Len(<< >>) = 0 /\ 1 \notin 1 .. 0
      OBVIOUS
    <3> QED
      BY <2>2, <3>1, Zenon
  <2>4. \A i \in 1 .. Len(L) : L[i] = Return1 <=> i = Len(L)
    BY <2>2, <2>3, Zenon DEF Ends
  <2>5. Len(L) = 1
    BY <2>2, <2>4, Zenon
  <2> QED
    BY <2>1, <2>5, Zenon
<1>6. ASSUME NEW B, \A e \in B : e[1] # "return" PROVE ~ Has(j.todo, B)
  <2>1. s \notin B
    BY <1>3, <1>6
  <2>2. \A m \in 1 .. 1 : m = 1
    OBVIOUS
  <2> QED
    BY <1>3, <1>5, <2>1, <2>2 DEF Has
<1>7. /\ ~ Has(j.todo, Schema) /\ ~ Has(j.todo, EventsStep)
      /\ \A h \in Hypotheses : ~ Has(j.todo, HypothesisStep(h))
      /\ \A r \in Range(Runs) : ~ Has(j.todo, RunStep(r))
  <2>1. \A op \in {"initialize schema", "restore events", "restore run", "restore hypothesis"} :
          op # "return"
    BY Zenon
  <2>2. \A e \in Schema : e[1] # "return"
    BY <2>1, RecordSorts, Zenon
  <2>3. \A e \in EventsStep : e[1] # "return"
    BY <2>1, RecordSorts, Zenon
  <2>4. \A h : \A e \in HypothesisStep(h) : e[1] # "return"
    BY <2>1, RecordSorts, Zenon
  <2>5. \A r : \A e \in RunStep(r) : e[1] # "return"
    BY <2>1, RecordSorts, Zenon
  <2> QED
    BY <1>6, <2>2, <2>3, <2>4, <2>5, Zenon
<1>8. Keeps(j, rebuilt, events, There)
  BY <1>1 DEF RebuildInv, Safe
<1>9. rebuilt # NoTables
  BY <1>7, <1>8 DEF Keeps
<1>10. rebuilt.events \in EventBags
  BY <1>9 DEF IInv, RebuiltInv, TablesOf
<1>11. j.events \in EventBags /\ j.explained \subseteq Hypotheses
  <2>1. j \in Job
    BY <1>1 DEF IInv, JobsInv
  <2> QED
    BY <2>1 DEF Job
<1>12. \A n \in Names : Copies(n, j.events) <= Copies(n, rebuilt.events)
  BY <1>7, <1>8 DEF Keeps, KeepsEvents
<1>13. j.events \sqsubseteq rebuilt.events
  BY <1>10, <1>11, <1>12, CopiesBag
<1>14. j.explained \subseteq RefsOf(rebuilt.alternative_explanations)
  BY <1>7, <1>8, <1>11 DEF Keeps, KeepsExplained
<1>15. Range(Runs) \subseteq RefsOf(rebuilt.runs)
  BY <1>7, <1>8 DEF Keeps, KeepsRuns
<1> QED
  BY <1>1, <1>9, <1>13, <1>14, <1>15

(* A rebuild that succeeds, and that no other one overlapped, has all the       *)
(* events and explanations the live index had when it began, and all runs,      *)
(* whatever was killed before it and goes on beside it.                         *)
THEOREM KeepsRecords == Spec => []RebuildKeepsRecords
<1>1. IInv /\ RebuildInv => RebuildKeepsRecords
  BY SafeReturns DEF RebuildKeepsRecords
<1>2. Spec => []IInv /\ []LInv /\ [][Next]_vars
  <2>1. IInv /\ LInv /\ [Next]_vars => LInv'
    BY SoloNext
  <2> QED
    BY <2>1, Invariant, SoloInit, PTL DEF Spec
<1>3. Spec => [](FitsInv /\ ExplainedInv /\ CountInv /\ RebuildInv)
  <2>1. IInv /\ LInv /\ (FitsInv /\ ExplainedInv /\ CountInv /\ RebuildInv) /\ [Next]_vars
          => (FitsInv /\ ExplainedInv /\ CountInv /\ RebuildInv)'
    <3>1. LInv => Shapes
      BY DEF LInv
    <3> QED
      BY <3>1, FitsNext, ExplainedNext, CountNext, RebuildNext
  <2>2. Init => (FitsInv /\ ExplainedInv /\ CountInv /\ RebuildInv)
    BY InitRecords
  <2> QED
    BY <1>2, <2>1, <2>2, PTL DEF Spec
<1> QED
  BY <1>1, <1>2, <1>3, PTL
===============================================================================
