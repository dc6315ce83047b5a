---------------------- MODULE HypothesisLifecycle_proofs ----------------------
(* Proofs about HypothesisLifecycle, for every set of processes, every ladder,  *)
(* every set of requests and every bound.                                       *)
EXTENDS HypothesisLifecycle, TLAPS

USE RequestAssumption, BoundAssumption

-----------------------------------------------------------------------------
(* A request that names no tier or status inherits one: what is loaded is       *)
(* always a state and a receipt of the declared shape.                          *)
LEMMA NewTyped ==
    ASSUME NEW file \in HypothesisState \cup {NoFile}, NEW req \in Requests,
           clock \in 0 .. MaxClock
    PROVE  /\ NewState(file, req) \in HypothesisState
           /\ NewReceipt(file, req) \in Receipt
<1> req \in Request
  OBVIOUS
<1>1. "noticed" \in States
  BY LadderAssumption DEF States, Rungs
<1>2. From(file) \in States
  BY <1>1, FileAssumption DEF From, HypothesisState
<1> QED
  BY <1>2 DEF NewState, NewReceipt, HypothesisState, Receipt, Request

(* The values that mean "no such record" are no records.                        *)
LEMMA Sentinels ==
    /\ NoFile \notin HypothesisState /\ NoFile \notin Receipt
    /\ Empty \notin HypothesisState /\ Corrupt \notin HypothesisState
BY FileAssumption

(* A process in mid-command holds a state and a receipt.                        *)
LEMMA InFlight ==
    ASSUME TypeOK, NEW p \in Procs, pc[p] # "idle"
    PROVE  state[p] \in HypothesisState /\ receipt[p] \in Receipt
BY DEF TypeOK

(* Type correctness, and that a process in mid-command holds what it will write. *)
THEOREM TypeCorrect == Spec => []TypeOK
<1>1. Init => TypeOK
  BY DEF Init, TypeOK, File, PC
<1>2. TypeOK /\ [Next]_vars => TypeOK'
  <2> SUFFICES ASSUME TypeOK, [Next]_vars PROVE TypeOK'
    OBVIOUS
  <2> USE DEF TypeOK, PC
  <2>1. CASE UNCHANGED vars
    BY <2>1 DEF vars
  <2>2. CASE Tick
    BY <2>2 DEF Tick, files, rows, locals
  <2>3. ASSUME NEW p \in Procs, NEW req \in Requests, Load(p, req) PROVE TypeOK'
    <3>1. stateFile \in HypothesisState \cup {NoFile}
      BY <2>3 DEF Load, File
    <3>2. /\ NewState(stateFile, req) \in HypothesisState
          /\ NewReceipt(stateFile, req) \in Receipt
      BY <3>1, NewTyped
    <3> QED
      BY <2>3, <3>2, Sentinels DEF Load, files, rows
  <2>4. ASSUME NEW p \in Procs, OpenState(p) PROVE TypeOK'
    BY <2>4 DEF OpenState, File, rows, locals
  <2>5. ASSUME NEW p \in Procs, WriteState(p) PROVE TypeOK'
    <3>1. state[p] \in HypothesisState
      BY <2>5, InFlight DEF WriteState
    <3>2. stateFile' \in File
      BY <2>5, <3>1 DEF WriteState, File
    <3>3. Append(written, state[p]) \in Seq(HypothesisState)
      BY <3>1
    <3>4. written' \in Seq(HypothesisState)
      BY <2>5, <3>3 DEF WriteState
    <3> QED
      BY <2>5, <3>2, <3>4 DEF WriteState, rows, locals
  <2>6. ASSUME NEW p \in Procs, AppendReceipt(p) PROVE TypeOK'
    <3>1. receipts' \in Seq(Receipt)
      BY <2>6, InFlight DEF AppendReceipt
    <3> QED
      BY <2>6, <3>1 DEF AppendReceipt, rows, locals
  <2>7. ASSUME NEW p \in Procs, IndexState(p) PROVE TypeOK'
    BY <2>7 DEF IndexState, files, locals
  <2>8. ASSUME NEW p \in Procs, IndexReceipt(p) PROVE TypeOK'
    BY <2>8 DEF IndexReceipt, End, files
  <2>9. ASSUME NEW p \in Procs, Crash(p) PROVE TypeOK'
    BY <2>9 DEF Crash, End, files, rows
  <2> QED
    BY <2>1, <2>2, <2>3, <2>4, <2>5, <2>6, <2>7, <2>8, <2>9 DEF Next, Step
<1> QED
  BY <1>1, <1>2, PTL DEF Spec

-----------------------------------------------------------------------------
(* However many processes interleave and die, "claimable" goes back to an       *)
(* approved command.  The invariant is not inductive by itself: a process may   *)
(* hold, from an old read, the state it will write.  The strengthening covers   *)
(* the state in the file and every state about to be written.                   *)
ClaimBacked(st) == st.state = "claimable" => st.approval = Approval \/ ApprovedOnce
ClaimInv ==
    /\ stateFile \in HypothesisState => (stateFile.state = "claimable" => ApprovedOnce)
    /\ \A p \in Procs : pc[p] \in {"open", "write"} => ClaimBacked(state[p])

(* A transition that passes validation reaches "claimable" with the whole       *)
(* approval, or by staying there.                                               *)
LEMMA LoadBacked ==
    ASSUME TypeOK, ClaimInv, NEW p \in Procs, NEW req \in Requests, Load(p, req)
    PROVE  ClaimBacked(NewState(stateFile, req))
<1> SUFFICES ASSUME req.to = "claimable", req.approval # Approval
             PROVE  ApprovedOnce
  BY DEF ClaimBacked, NewState
<1>1. From(stateFile) = "claimable"
  <2>1. "claimable" \notin TERMINAL_STATES
    BY TerminalAssumption, LadderAssumption DEF Rungs
  <2> QED
    BY <2>1, TerminalAssumption DEF Load, Allowed
<1>2. stateFile \in HypothesisState
  BY <1>1 DEF Load, TypeOK, File, From
<1> QED
  BY <1>1, <1>2, Sentinels DEF ClaimInv, ClaimBacked, From

(* A claimable hypothesis was approved by a human on the way.                   *)
THEOREM ClaimableApproved == Spec => []ClaimableWasApproved
<1> DEFINE Inv == ClaimInv /\ ClaimableWasApproved
<1>1. Init => Inv
  BY Sentinels DEF Init, ClaimInv, ClaimableWasApproved
<1>2. TypeOK /\ Inv /\ [Next]_vars => Inv'
  <2> SUFFICES ASSUME TypeOK, Inv, [Next]_vars PROVE Inv'
    OBVIOUS
  <2>1. CASE UNCHANGED vars
    BY <2>1 DEF vars, ClaimInv, ClaimBacked, ClaimableWasApproved, ApprovedOnce
  <2>2. CASE Tick
    BY <2>2 DEF Tick, files, rows, locals, ClaimInv, ClaimBacked,
                ClaimableWasApproved, ApprovedOnce
  <2>3. ASSUME NEW p \in Procs, NEW req \in Requests, Load(p, req) PROVE Inv'
    <3>1. ClaimBacked(NewState(stateFile, req))
      BY <2>3, LoadBacked
    <3> QED
      BY <2>3, <3>1 DEF Load, files, rows, TypeOK, PC, ClaimInv, ClaimBacked,
                        ClaimableWasApproved, ApprovedOnce
  <2>4. ASSUME NEW p \in Procs, OpenState(p) PROVE Inv'
    BY <2>4, Sentinels DEF OpenState, rows, locals, TypeOK, PC, ClaimInv, ClaimBacked,
                           ClaimableWasApproved, ApprovedOnce
  <2>5. ASSUME NEW p \in Procs, WriteState(p) PROVE Inv'
    <3>1. CASE written' = Append(written, state[p]) /\ stateFile' = state[p]
      <4>1. /\ state[p] \in HypothesisState /\ written \in Seq(HypothesisState)
            /\ Len(written) \in Nat /\ Len(written') = Len(written) + 1
            /\ \A i \in 1 .. Len(written) : written'[i] = written[i]
            /\ written'[Len(written) + 1] = state[p]
        BY <2>5, <3>1, InFlight DEF WriteState, TypeOK
      <4>2. ApprovedOnce => ApprovedOnce'
        BY <4>1 DEF ApprovedOnce
      <4>3. state[p].state = "claimable" => ApprovedOnce'
        BY <2>5, <4>1, <4>2 DEF WriteState, ClaimInv, ClaimBacked, ApprovedOnce
      <4>4. ClaimInv'
        BY <2>5, <3>1, <4>2, <4>3 DEF WriteState, locals, TypeOK, PC, ClaimInv, ClaimBacked
      <4>5. ClaimableWasApproved'
        BY <4>1, <4>3 DEF ClaimableWasApproved, ClaimBacked, ApprovedOnce
      <4> QED
        BY <4>4, <4>5
    <3>2. CASE stateFile' = Corrupt /\ UNCHANGED written
      BY <2>5, <3>2, Sentinels DEF WriteState, locals, TypeOK, PC, ClaimInv, ClaimBacked,
                                   ClaimableWasApproved, ApprovedOnce
    <3> QED
      BY <2>5, <3>1, <3>2 DEF WriteState
  <2>6. ASSUME NEW p \in Procs,
               AppendReceipt(p) \/ IndexState(p) \/ IndexReceipt(p) \/ Crash(p)
        PROVE  Inv'
    <3>1. /\ UNCHANGED << stateFile, written >>
          /\ \A q \in Procs : /\ pc'[q] \in {"open", "write"} => pc[q] = pc'[q]
                              /\ q # p => state'[q] = state[q]
          /\ pc'[p] \notin {"open", "write"}
      BY <2>6 DEF AppendReceipt, IndexState, IndexReceipt, Crash, End, files, locals,
                  TypeOK, PC
    <3> QED
      BY <3>1 DEF ClaimInv, ClaimBacked, ClaimableWasApproved, ApprovedOnce
  <2> QED
    BY <2>1, <2>2, <2>3, <2>4, <2>5, <2>6 DEF Next, Step
<1> QED
  BY <1>1, <1>2, TypeCorrect, PTL DEF Spec

-----------------------------------------------------------------------------
(* The index is behind the files, never ahead.  Between its append and its last *)
(* commit a process still holds a receipt that is in the log, and at every step *)
(* the state it holds is the one its receipt records.                           *)
Logged(r) == \E i \in 1 .. Len(receipts) : receipts[i] = r
IndexInv ==
    /\ IndexNotAhead
    /\ \A p \in Procs : pc[p] # "idle" => Recorded(state[p], receipt[p])
    /\ \A p \in Procs : pc[p] \in {"index_state", "index_receipt"} => Logged(receipt[p])

(* Appending a receipt keeps every receipt that is in the log.                  *)
LEMMA AppendKeeps ==
    ASSUME receipts \in Seq(Receipt), NEW r \in Receipt, receipts' = Append(receipts, r)
    PROVE  /\ r = receipts'[Len(receipts')] /\ Len(receipts') \in 1 .. Len(receipts')
           /\ \A i \in 1 .. Len(receipts) :
                i \in 1 .. Len(receipts') /\ receipts'[i] = receipts[i]
OBVIOUS

(* A row of the index is in the files, wherever a process was killed.           *)
THEOREM IndexBehind == Spec => []IndexNotAhead
<1>1. Init => IndexInv
  BY DEF Init, IndexInv, IndexNotAhead
<1>2. TypeOK /\ IndexInv /\ [Next]_vars => IndexInv'
  <2> SUFFICES ASSUME TypeOK, IndexInv, [Next]_vars PROVE IndexInv'
    OBVIOUS
  <2> USE DEF IndexInv, IndexNotAhead, Logged
  <2>1. CASE UNCHANGED vars
    BY <2>1 DEF vars, Recorded
  <2>2. CASE Tick
    BY <2>2 DEF Tick, files, rows, locals, Recorded
  <2>3. ASSUME NEW p \in Procs, NEW req \in Requests, Load(p, req) PROVE IndexInv'
    <3>1. Recorded(NewState(stateFile, req), NewReceipt(stateFile, req))
      BY DEF Recorded, NewState, NewReceipt
    <3> QED
      BY <2>3, <3>1 DEF Load, files, rows, TypeOK, PC, Recorded
  <2>4. ASSUME NEW p \in Procs, OpenState(p) \/ WriteState(p) PROVE IndexInv'
    <3>1. /\ UNCHANGED << receipts, rows, locals >>
          /\ \A q \in Procs : q # p => pc'[q] = pc[q]
          /\ pc[p] # "idle" /\ pc'[p] \notin {"index_state", "index_receipt"}
      BY <2>4 DEF OpenState, WriteState, TypeOK
    <3> QED
      BY <3>1 DEF rows, locals, Recorded
  <2>5. ASSUME NEW p \in Procs, AppendReceipt(p) PROVE IndexInv'
    <3>1. receipts' = Append(receipts, receipt[p]) /\ receipt[p] \in Receipt
      BY <2>5, InFlight DEF AppendReceipt
    <3>2. receipt' = receipt /\ state' = state
      BY <2>5 DEF AppendReceipt, locals
    <3>3. ASSUME NEW q \in Procs, pc'[q] \in {"index_state", "index_receipt"}
          PROVE  Logged(receipt[q])'
      <4>1. CASE q = p
        BY <3>1, <3>2, <4>1, AppendKeeps DEF TypeOK
      <4>2. CASE q # p
        <5>1. Logged(receipt[q])
          BY <2>5, <3>3, <4>2 DEF AppendReceipt, TypeOK
        <5> QED
          BY <3>1, <3>2, <5>1, AppendKeeps DEF TypeOK
      <4> QED
        BY <4>1, <4>2
    <3>4. \A q \in Procs : pc'[q] # "idle" => Recorded(state[q], receipt[q])
      BY <2>5 DEF AppendReceipt, TypeOK, PC
    <3>5. IndexNotAhead'
      BY <2>5, <3>1, AppendKeeps DEF TypeOK, AppendReceipt, rows, Recorded
    <3> QED
      BY <3>2, <3>3, <3>4, <3>5 DEF Recorded
  <2>6. ASSUME NEW p \in Procs, IndexState(p) PROVE IndexInv'
    <3>1. stateRow' = state[p] /\ Recorded(state[p], receipt[p]) /\ Logged(receipt[p])
      BY <2>6 DEF IndexState
    <3>2. IndexNotAhead'
      BY <2>6, <3>1 DEF IndexState, files, Recorded
    <3> QED
      BY <2>6, <3>2 DEF IndexState, files, locals, TypeOK, PC, Recorded
  <2>7. ASSUME NEW p \in Procs, IndexReceipt(p) PROVE IndexInv'
    <3>1. Logged(receipt[p])
      BY <2>7 DEF IndexReceipt
    <3>2. IndexNotAhead'
      BY <2>7, <3>1 DEF IndexReceipt, files, Recorded
    <3> QED
      BY <2>7, <3>2 DEF IndexReceipt, End, files, TypeOK, PC, Recorded
  <2>8. ASSUME NEW p \in Procs, Crash(p) PROVE IndexInv'
    BY <2>8 DEF Crash, End, files, rows, TypeOK, PC, Recorded
  <2> QED
    BY <2>1, <2>2, <2>3, <2>4, <2>5, <2>6, <2>7, <2>8 DEF Next, Step
<1>3. IndexInv => IndexNotAhead
  BY DEF IndexInv
<1> QED
  BY <1>1, <1>2, <1>3, TypeCorrect, PTL DEF Spec

-----------------------------------------------------------------------------
(* One process at a time.  While it is between its read and its write nobody    *)
(* changes the file, so what it validated still holds when it writes; a crash   *)
(* in the write leaves a file nothing can be read from again.                   *)
SingleProcess == \A p, q \in Procs : p = q

Last == Len(written)
SingleInv ==
    /\ ForwardInOrder
    /\ stateFile # Corrupt
    /\ stateFile = NoFile => written = << >>
    /\ stateFile \in HypothesisState => Last > 0 /\ stateFile = written[Last]
    /\ \A p \in Procs : /\ pc[p] \in {"open", "write"} => Legal(Before(Last + 1), state[p])
                        /\ pc[p] = "write" => stateFile = Empty

(* What a read finds is where the path stands, and what validation accepts is a *)
(* legal step from there.                                                       *)
LEMMA LoadLegal ==
    ASSUME TypeOK, SingleInv, NEW p \in Procs, NEW req \in Requests, Load(p, req)
    PROVE  /\ From(stateFile) = Before(Last + 1)
           /\ Legal(Before(Last + 1), NewState(stateFile, req))
<1>1. From(stateFile) = Before(Last + 1)
  <2>1. stateFile \in HypothesisState \cup {NoFile}
    BY DEF Load, TypeOK, File
  <2>2. CASE stateFile = NoFile
    BY <2>2 DEF SingleInv, From, Before, Last
  <2>3. CASE stateFile \in HypothesisState
    BY <2>3, Sentinels DEF SingleInv, From, Before, Last, TypeOK
  <2> QED
    BY <2>1, <2>2, <2>3
<1>2. Linear(From(stateFile)) = { s \in Rungs : Climbs(From(stateFile), s) }
  BY LadderAssumption DEF Linear, Climbs, Rungs
<1> QED
  BY <1>1, <1>2 DEF Load, Allowed, Legal, NewState

(* A complete write extends the path by one.                                    *)
LEMMA AppendPath ==
    ASSUME written \in Seq(HypothesisState), NEW st \in HypothesisState,
           written' = Append(written, st)
    PROVE  /\ Last \in Nat /\ Last' = Last + 1 /\ written'[Last'] = st
           /\ \A i \in 1 .. Last : written'[i] = written[i]
           /\ \A i \in 1 .. Last' : Before(i)' = Before(i)
           /\ Before(Last + 1)' = st.state
<1>1. /\ Last \in Nat /\ Last' = Last + 1 /\ written'[Last + 1] = st
      /\ \A i \in 1 .. Last : written'[i] = written[i]
  BY DEF Last
<1>2. \A i \in 1 .. Last + 1 : Before(i)' = Before(i)
  <2> SUFFICES ASSUME NEW i \in 1 .. Last + 1 PROVE Before(i)' = Before(i)
    OBVIOUS
  <2>1. i = 1 \/ i - 1 \in 1 .. Last
    BY <1>1
  <2> QED
    BY <1>1, <2>1 DEF Before
<1>3. Before(Last + 1)' = st.state
  <2>1. Last' + 1 # 1 /\ (Last' + 1) - 1 = Last + 1
    BY <1>1
  <2> QED
    BY <1>1, <2>1 DEF Before
<1> QED
  BY <1>1, <1>2, <1>3

(* It is kept while one process runs at a time.                                 *)
LEMMA SingleInductive == ASSUME SingleProcess PROVE Spec => []SingleInv
<1> USE DEF SingleProcess
<1>1. Init => SingleInv
  BY Sentinels, FileAssumption DEF Init, SingleInv, ForwardInOrder, Last
<1>2. TypeOK /\ SingleInv /\ [Next]_vars => SingleInv'
  <2> SUFFICES ASSUME TypeOK, SingleInv, [Next]_vars PROVE SingleInv'
    OBVIOUS
  <2>1. CASE UNCHANGED vars \/ Tick
    BY <2>1 DEF vars, Tick, files, rows, locals, SingleInv, ForwardInOrder, Before, Last
  <2>2. ASSUME NEW p \in Procs, NEW req \in Requests, Load(p, req) PROVE SingleInv'
    <3>1. Legal(Before(Last + 1), NewState(stateFile, req))
      BY <2>2, LoadLegal
    <3> QED
      BY <2>2, <3>1 DEF Load, files, rows, TypeOK, PC, SingleInv, ForwardInOrder, Before, Last
  <2>3. ASSUME NEW p \in Procs, OpenState(p) PROVE SingleInv'
    BY <2>3, Sentinels, FileAssumption
       DEF OpenState, rows, locals, TypeOK, PC, SingleInv, ForwardInOrder, Before, Last
  <2>4. ASSUME NEW p \in Procs, WriteState(p) PROVE SingleInv'
    <3>1. /\ stateFile' = state[p] /\ written' = Append(written, state[p])
          /\ Legal(Before(Last + 1), state[p]) /\ state[p] \in HypothesisState
      BY <2>4, InFlight DEF WriteState, SingleInv
    <3>2. \A q \in Procs : pc'[q] = "append"
      BY <2>4 DEF WriteState, TypeOK
    <3>3. /\ Last \in Nat /\ Last' = Last + 1 /\ written'[Last'] = state[p]
          /\ \A i \in 1 .. Last : written'[i] = written[i]
          /\ \A i \in 1 .. Last' : Before(i)' = Before(i)
      BY <3>1, AppendPath DEF TypeOK
    <3>4. ForwardInOrder'
      <4> SUFFICES ASSUME NEW i \in 1 .. Last' PROVE Legal(Before(i), written'[i])
        BY <3>3 DEF ForwardInOrder, Last
      <4>1. CASE i \in 1 .. Last
        BY <3>3, <4>1 DEF SingleInv, ForwardInOrder, Last
      <4>2. CASE i = Last + 1
        BY <3>1, <3>3, <4>2
      <4> QED
        BY <3>3, <4>1, <4>2
    <3> QED
      BY <3>1, <3>2, <3>3, <3>4, Sentinels DEF SingleInv
  <2>5. ASSUME NEW p \in Procs,
               AppendReceipt(p) \/ IndexState(p) \/ IndexReceipt(p) \/ Crash(p)
        PROVE  SingleInv'
    <3>1. /\ UNCHANGED << stateFile, written >>
          /\ \A q \in Procs : pc'[q] \notin {"open", "write"}
      BY <2>5 DEF AppendReceipt, IndexState, IndexReceipt, Crash, End, files, TypeOK, PC
    <3> QED
      BY <3>1 DEF SingleInv, ForwardInOrder, Before, Last
  <2> QED
    BY <2>1, <2>2, <2>3, <2>4, <2>5 DEF Next, Step
<1> QED
  BY <1>1, <1>2, TypeCorrect, PTL DEF Spec

(* One process at a time, killed at any step, moves a hypothesis up the ladder  *)
(* in order.                                                                    *)
THEOREM ForwardOrder == ASSUME SingleProcess PROVE Spec => []ForwardInOrder
<1>1. SingleInv => ForwardInOrder
  BY DEF SingleInv
<1> QED
  BY <1>1, SingleInductive, PTL

(* The state that counts is the one at the end of the path.                     *)
Current == Before(Last + 1)

(* A complete write is one step of the abstract ladder, or none.                *)
LEMMA WriteImplements ==
    ASSUME TypeOK, SingleInv, NEW p \in Procs, WriteState(p)
    PROVE  Ladder!Next \/ (Current' = Current /\ ApprovedOnce' = ApprovedOnce)
<1> DEFINE st == state[p]
<1>1. /\ written' = Append(written, st) /\ st \in HypothesisState
      /\ Legal(Current, st)
  BY InFlight DEF WriteState, SingleInv, Current
<1>2. /\ Last \in Nat /\ Last' = Last + 1 /\ written'[Last'] = st
      /\ \A i \in 1 .. Last : written'[i] = written[i]
      /\ Current' = st.state
  BY <1>1, AppendPath DEF TypeOK, Current
<1>3. /\ ApprovedOnce' = TRUE <=>
            ApprovedOnce = TRUE \/ (st.state = "claimable" /\ st.approval = Approval)
      /\ ApprovedOnce \in BOOLEAN /\ ApprovedOnce' \in BOOLEAN
  <2>1. ApprovedOnce' <=> \E j \in 1 .. Last' : written'[j].state = "claimable"
                                                 /\ written'[j].approval = Approval
    BY DEF ApprovedOnce, Last
  <2>2. ApprovedOnce <=> \E j \in 1 .. Last : written[j].state = "claimable"
                                                /\ written[j].approval = Approval
    BY DEF ApprovedOnce, Last
  <2>3. \A j : j \in 1 .. Last' <=> j \in 1 .. Last \/ j = Last'
    BY <1>2
  <2>4. ApprovedOnce' <=> ApprovedOnce \/ (st.state = "claimable" /\ st.approval = Approval)
    BY <1>2, <2>1, <2>2, <2>3
  <2>5. ApprovedOnce \in BOOLEAN /\ ApprovedOnce' \in BOOLEAN
    BY DEF ApprovedOnce
  <2> QED
    BY <2>4, <2>5
<1>4. "claimable" \notin TERMINAL_STATES
  BY TerminalAssumption, LadderAssumption DEF Rungs
<1> HIDE DEF st
<1>5. CASE st.state = Current
  <2>1. CASE st.state = "claimable" /\ st.approval = Approval
    BY <1>2, <1>3, <1>5, <2>1 DEF Ladder!Next, Ladder!Reapprove, Current, Last
  <2>2. CASE ~(st.state = "claimable" /\ st.approval = Approval)
    BY <1>2, <1>3, <1>5, <2>2
  <2> QED
    BY <2>1, <2>2
<1>6. CASE st.state \in TERMINAL_STATES
  BY <1>2, <1>3, <1>4, <1>6 DEF Ladder!Next, Ladder!Kill, Current, Last
<1>7. ASSUME Climbs(Current, st.state), st.state = "claimable" => st.approval = Approval
      PROVE  Ladder!Next
  <2>1. PICK k \in 1 .. Len(LADDER) - 1 : Current = LADDER[k] /\ st.state = LADDER[k + 1]
    BY <1>7 DEF Climbs
  <2>2. CASE k = Len(LADDER) - 1
    BY <1>2, <1>3, <1>7, <2>1, <2>2, LadderAssumption
       DEF Ladder!Next, Ladder!Promote, Current, Last
  <2>3. CASE k # Len(LADDER) - 1
    <3>1. k \in 1 .. Len(LADDER) - 2 /\ st.state # "claimable"
      BY <2>1, <2>3, LadderAssumption
    <3> QED
      BY <1>2, <1>3, <2>1, <3>1 DEF Ladder!Next, Ladder!Advance, Current, Last
  <2> QED
    BY <2>2, <2>3
<1> QED
  BY <1>1, <1>5, <1>6, <1>7 DEF Legal

(* One process at a time, the code's sequence of writes implements the atomic   *)
(* ladder: only a complete write of the state file moves it.                    *)
THEOREM Refinement == ASSUME SingleProcess PROVE Spec => ImplementsLadder
<1>1. Init => Ladder!Init
  BY DEF Init, Ladder!Init, Before, ApprovedOnce
<1>2. TypeOK /\ SingleInv /\ [Next]_vars => [Ladder!Next]_Ladder!vars
  <2> SUFFICES ASSUME TypeOK, SingleInv, [Next]_vars,
                      ~(Current' = Current /\ ApprovedOnce' = ApprovedOnce)
               PROVE  Ladder!Next
    BY DEF Ladder!vars, Current, Last
  <2>1. PICK p \in Procs : WriteState(p)
    <3>1. written' # written
      BY DEF Current, Last, Before, ApprovedOnce
    <3> QED
      BY <3>1 DEF Next, Step, Tick, Load, OpenState, AppendReceipt, IndexState,
                  IndexReceipt, Crash, vars
  <2> QED
    BY <2>1, WriteImplements
<1> QED
  BY <1>1, <1>2, TypeCorrect, SingleInductive, PTL DEF Spec, ImplementsLadder, Ladder!Spec

-----------------------------------------------------------------------------
(* One process at a time: what its receipt says.  Up to the write, it leaves the *)
(* state the path stands at and reaches the state about to be written.          *)
To(r) == r.request.to
HeldInv ==
    \A p \in Procs : pc[p] \in {"open", "write"} =>
        receipt[p].from = Current /\ To(receipt[p]) = state[p].state

(* A request that is loaded leaves where the path stands.                       *)
LEMMA LoadHeld ==
    ASSUME TypeOK, SingleInv, NEW p \in Procs, NEW req \in Requests, Load(p, req)
    PROVE  /\ receipt'[p] = NewReceipt(stateFile, req) /\ state'[p] = NewState(stateFile, req)
           /\ NewReceipt(stateFile, req).from = Current
           /\ To(NewReceipt(stateFile, req)) = NewState(stateFile, req).state
<1>1. From(stateFile) = Current
  BY LoadLegal DEF Current
<1>2. receipt'[p] = NewReceipt(stateFile, req) /\ state'[p] = NewState(stateFile, req)
  BY DEF Load, TypeOK
<1>3. NewReceipt(stateFile, req).from = From(stateFile) /\ To(NewReceipt(stateFile, req)) = req.to
  BY Zenon DEF NewReceipt, To
<1>4. NewState(stateFile, req).state = req.to
  BY Zenon DEF NewState
<1> QED
  BY <1>1, <1>2, <1>3, <1>4

(* It is kept while one process runs at a time.                                 *)
LEMMA HeldInductive == ASSUME SingleProcess PROVE Spec => []HeldInv
<1> USE DEF SingleProcess
<1>1. Init => HeldInv
  BY DEF Init, HeldInv
<1>2. TypeOK /\ SingleInv /\ HeldInv /\ [Next]_vars => HeldInv'
  <2> SUFFICES ASSUME TypeOK, SingleInv, HeldInv, [Next]_vars PROVE HeldInv'
    OBVIOUS
  <2> USE DEF HeldInv
  <2>1. CASE UNCHANGED vars \/ Tick
    BY <2>1 DEF vars, Tick, locals, Current, Before, Last
  <2>2. ASSUME NEW p \in Procs, NEW req \in Requests, Load(p, req) PROVE HeldInv'
    <3>1. Current' = Current
      BY <2>2 DEF Load, Current, Before, Last
    <3> QED
      BY <2>2, <3>1, LoadHeld
  <2>3. ASSUME NEW p \in Procs, OpenState(p) PROVE HeldInv'
    <3>1. Current' = Current
      BY <2>3 DEF OpenState, Current, Before, Last
    <3> QED
      BY <2>3, <3>1 DEF OpenState, locals
  <2>4. ASSUME NEW p \in Procs,
               WriteState(p) \/ AppendReceipt(p) \/ IndexState(p) \/ IndexReceipt(p) \/ Crash(p)
        PROVE  HeldInv'
    BY <2>4 DEF WriteState, AppendReceipt, IndexState, IndexReceipt, Crash, End, TypeOK
  <2> QED
    BY <2>1, <2>2, <2>3, <2>4 DEF Next, Step
<1> QED
  BY <1>1, <1>2, TypeCorrect, SingleInductive, PTL DEF Spec

-----------------------------------------------------------------------------
(* Without a crash the receipt log follows the path.  Only between the complete *)
(* write and the append is the log one line short, and the line to come is the  *)
(* receipt of the last write.                                                   *)
Chained(i) == receipts[i].from = Before(i) /\ To(receipts[i]) = written[i].state
ChainInv ==
    crashes = 0 =>
        /\ \A i \in 1 .. Len(receipts) : Chained(i)
        /\ (\A p \in Procs : pc[p] # "append") => Len(receipts) = Last
        /\ \A p \in Procs : pc[p] = "append" =>
             /\ Last = Len(receipts) + 1
             /\ receipt[p].from = Before(Last) /\ To(receipt[p]) = written[Last].state

(* Without a crash, the receipt log is the path the state file took, one        *)
(* receipt a write (transition appends one after each).                         *)
THEOREM ReceiptPath == ASSUME SingleProcess PROVE Spec => []ReceiptsChain
<1> USE DEF SingleProcess
<1>1. Init => ChainInv
  BY DEF Init, ChainInv, Last
<1>2. TypeOK /\ SingleInv /\ HeldInv /\ ChainInv /\ [Next]_vars => ChainInv'
  <2> SUFFICES ASSUME TypeOK, SingleInv, HeldInv, ChainInv, [Next]_vars, crashes' = 0
               PROVE  ChainInv'
    BY DEF ChainInv
  <2>0. crashes = 0
    BY DEF TypeOK, Next, Step, Tick, Load, OpenState, WriteState, AppendReceipt, IndexState,
           IndexReceipt, Crash, vars
  <2>1. CASE UNCHANGED vars \/ Tick
    BY <2>0, <2>1 DEF vars, Tick, files, locals, ChainInv, Chained, Before, Last
  <2>2. ASSUME NEW p \in Procs, NEW req \in Requests, Load(p, req) PROVE ChainInv'
    BY <2>0, <2>2 DEF Load, files, TypeOK, ChainInv, Chained, Before, Last
  <2>3. ASSUME NEW p \in Procs, OpenState(p) PROVE ChainInv'
    BY <2>0, <2>3 DEF OpenState, locals, TypeOK, ChainInv, Chained, Before, Last
  <2>4. ASSUME NEW p \in Procs, WriteState(p) PROVE ChainInv'
    <3>1. /\ written' = Append(written, state[p]) /\ state[p] \in HypothesisState
          /\ receipt[p].from = Current /\ To(receipt[p]) = state[p].state
      BY <2>4, InFlight DEF WriteState, SingleInv, HeldInv
    <3>2. /\ Last \in Nat /\ Last' = Last + 1 /\ written'[Last'] = state[p]
          /\ \A i \in 1 .. Last : written'[i] = written[i]
          /\ \A i \in 1 .. Last' : Before(i)' = Before(i)
      BY <3>1, AppendPath DEF TypeOK
    <3>3. Before(Last)' = Before(Last + 1)
      BY <3>2
    <3>4. /\ Len(receipts) = Last /\ \A i \in 1 .. Last : Chained(i)
          /\ receipts' = receipts /\ receipt' = receipt
          /\ \A q \in Procs : q = p
      BY <2>0, <2>4 DEF WriteState, locals, ChainInv
    <3>5. \A i \in 1 .. Last : Chained(i)'
      BY <3>2, <3>4 DEF Chained
    <3> QED
      BY <2>4, <3>1, <3>2, <3>3, <3>4, <3>5 DEF ChainInv, Current, WriteState, TypeOK
  <2>5. ASSUME NEW p \in Procs, AppendReceipt(p) PROVE ChainInv'
    <3>1. /\ receipts' = Append(receipts, receipt[p]) /\ receipt[p] \in Receipt
          /\ written' = written /\ Last' = Last
          /\ \A i : Before(i)' = Before(i)
      BY <2>5, InFlight DEF AppendReceipt, Before, Last
    <3>2. /\ Len(receipts') = Len(receipts) + 1 /\ Len(receipts) \in Nat
          /\ receipts'[Len(receipts) + 1] = receipt[p]
          /\ \A i \in 1 .. Len(receipts) : receipts'[i] = receipts[i]
      BY <3>1 DEF TypeOK
    <3>3. /\ Last = Len(receipts) + 1 /\ \A i \in 1 .. Len(receipts) : Chained(i)
          /\ receipt[p].from = Before(Last) /\ To(receipt[p]) = written[Last].state
      BY <2>0, <2>5 DEF AppendReceipt, ChainInv
    <3>4. \A i \in 1 .. Len(receipts') : Chained(i)'
      <4> SUFFICES ASSUME NEW i \in 1 .. Len(receipts') PROVE Chained(i)'
        OBVIOUS
      <4>1. i \in 1 .. Len(receipts) \/ i = Last
        BY <3>2, <3>3
      <4> QED
        BY <3>1, <3>2, <3>3, <4>1 DEF Chained
    <3>5. \A q \in Procs : pc'[q] # "append"
      BY <2>5 DEF AppendReceipt, TypeOK
    <3> QED
      BY <3>1, <3>2, <3>3, <3>4, <3>5 DEF ChainInv
  <2>6. ASSUME NEW p \in Procs, IndexState(p) \/ IndexReceipt(p) PROVE ChainInv'
    BY <2>0, <2>6 DEF IndexState, IndexReceipt, End, files, TypeOK, ChainInv, Chained,
                      Before, Last
  <2>7. ASSUME NEW p \in Procs, Crash(p) PROVE FALSE
    BY <2>0, <2>7 DEF Crash, TypeOK
  <2> QED
    BY <2>1, <2>2, <2>3, <2>4, <2>5, <2>6, <2>7 DEF Next, Step
<1>3. TypeOK /\ ChainInv => ReceiptsChain
  <2> SUFFICES ASSUME TypeOK, ChainInv, crashes = 0
               PROVE  /\ Len(receipts) \in {Len(written), Len(written) - 1}
                      /\ \A i \in 1 .. Len(receipts) : Chained(i)
    BY DEF ReceiptsChain, Chained, To
  <2> QED
    BY DEF TypeOK, ChainInv, Last
<1> QED
  BY <1>1, <1>2, <1>3, TypeCorrect, SingleInductive, HeldInductive, PTL DEF Spec

-----------------------------------------------------------------------------
(* Without a crash the live row follows the file: from its complete write on a  *)
(* process holds what is in the file, and it ends only after it has indexed it. *)
QuietInv ==
    crashes = 0 =>
        /\ (\A p \in Procs : pc[p] = "idle") => stateRow = stateFile
        /\ \A p \in Procs : pc[p] \in {"append", "index_state", "index_receipt"} =>
             stateFile = state[p]
        /\ \A p \in Procs : pc[p] = "index_receipt" => stateRow = state[p]

(* Without a crash, the row of an idle system is the state file.                *)
THEOREM QuietIndexed == ASSUME SingleProcess PROVE Spec => []IndexedWhenQuiet
<1> USE DEF SingleProcess
<1>1. Init => QuietInv
  BY DEF Init, QuietInv
<1>2. TypeOK /\ SingleInv /\ QuietInv /\ [Next]_vars => QuietInv'
  <2> SUFFICES ASSUME TypeOK, SingleInv, QuietInv, [Next]_vars, crashes' = 0 PROVE QuietInv'
    BY DEF QuietInv
  <2>0. crashes = 0
    BY DEF TypeOK, Next, Step, Tick, Load, OpenState, WriteState, AppendReceipt, IndexState,
           IndexReceipt, Crash, vars
  <2>1. CASE UNCHANGED vars \/ Tick
    BY <2>0, <2>1 DEF vars, Tick, files, rows, locals, QuietInv
  <2>2. ASSUME NEW p \in Procs, \/ \E req \in Requests : Load(p, req)
                                \/ OpenState(p)
        PROVE  QuietInv'
    BY <2>2 DEF Load, OpenState, TypeOK, QuietInv
  <2>3. ASSUME NEW p \in Procs, WriteState(p) PROVE QuietInv'
    <3>1. stateFile' = state[p]
      BY <2>3 DEF WriteState, SingleInv
    <3> QED
      BY <2>3, <3>1 DEF WriteState, locals, TypeOK, QuietInv
  <2>4. ASSUME NEW p \in Procs, AppendReceipt(p) \/ IndexState(p) PROVE QuietInv'
    BY <2>0, <2>4 DEF AppendReceipt, IndexState, files, locals, TypeOK, QuietInv
  <2>5. ASSUME NEW p \in Procs, IndexReceipt(p) PROVE QuietInv'
    BY <2>0, <2>5 DEF IndexReceipt, End, files, TypeOK, QuietInv
  <2>6. ASSUME NEW p \in Procs, Crash(p) PROVE FALSE
    BY <2>0, <2>6 DEF Crash, TypeOK
  <2> QED
    BY <2>1, <2>2, <2>3, <2>4, <2>5, <2>6 DEF Next, Step
<1>3. QuietInv => IndexedWhenQuiet
  BY DEF QuietInv, IndexedWhenQuiet
<1> QED
  BY <1>1, <1>2, <1>3, TypeCorrect, SingleInductive, PTL DEF Spec

-----------------------------------------------------------------------------
(* What a state file and a receipt name are states.                             *)
LEMMA StateTyped == ASSUME NEW st \in HypothesisState PROVE st.state \in States
BY DEF HypothesisState

(* Where a receipt leaves and arrives.                                          *)
LEMMA ReceiptStates ==
    ASSUME NEW r \in Receipt PROVE r.from \in States /\ To(r) \in States
BY DEF Receipt, Request, To

(* Ranks number the rungs from one, and every kill state is above them.         *)
LEMMA RankOfRung ==
    ASSUME NEW k \in 1 .. Len(LADDER)
    PROVE  LADDER[k] \in Rungs /\ Rank(LADDER[k]) = k
<1>1. LADDER[k] \in Rungs
  BY DEF Rungs
<1>2. \A i \in 1 .. Len(LADDER) : LADDER[i] = LADDER[k] <=> i = k
  BY LadderAssumption
<1>3. (CHOOSE i \in 1 .. Len(LADDER) : LADDER[i] = LADDER[k]) = k
  BY <1>2
<1> QED
  BY <1>1, <1>3 DEF Rank

(* A kill state is above every rung.                                            *)
LEMMA RankOfTerminal ==
    ASSUME NEW s \in TERMINAL_STATES PROVE Rank(s) = Len(LADDER) + 1
BY TerminalAssumption DEF Rank

(* Every state has a rank.                                                      *)
LEMMA RankTyped ==
    ASSUME NEW s \in States PROVE Rank(s) \in 1 .. Len(LADDER) + 1
<1>1. Len(LADDER) \in Nat
  BY LadderAssumption
<1>2. CASE s \in Rungs
  <2>1. PICK k \in 1 .. Len(LADDER) : s = LADDER[k]
    BY <1>2 DEF Rungs
  <2> QED
    BY <1>1, <2>1, RankOfRung
<1>3. CASE s \in TERMINAL_STATES
  BY <1>1, <1>3, RankOfTerminal
<1> QED
  BY <1>2, <1>3 DEF States

(* A legal step never goes down.                                                *)
LEMMA LegalRises ==
    ASSUME NEW from \in States, NEW new \in HypothesisState, Legal(from, new)
    PROVE  Rank(from) <= Rank(new.state)
<1>1. new.state \in States /\ Len(LADDER) \in Nat
  BY LadderAssumption, StateTyped
<1>2. Rank(from) \in 1 .. Len(LADDER) + 1 /\ Rank(new.state) \in 1 .. Len(LADDER) + 1
  BY <1>1, RankTyped
<1>3. CASE new.state = from
  BY <1>2, <1>3
<1>4. CASE new.state \in TERMINAL_STATES
  BY <1>1, <1>2, <1>4, RankOfTerminal
<1>5. CASE Climbs(from, new.state)
  <2>1. PICK k \in 1 .. Len(LADDER) - 1 : from = LADDER[k] /\ new.state = LADDER[k + 1]
    BY <1>5 DEF Climbs
  <2>2. k \in 1 .. Len(LADDER) /\ k + 1 \in 1 .. Len(LADDER)
    BY <1>1
  <2>3. Rank(from) = k /\ Rank(new.state) = k + 1
    BY <2>1, <2>2, RankOfRung
  <2> QED
    BY <2>3
<1> QED
  BY <1>3, <1>4, <1>5 DEF Legal

(* The state the path stands at is a state.                                     *)
LEMMA CurrentTyped == ASSUME TypeOK PROVE Current \in States
<1>1. "noticed" \in States
  BY LadderAssumption DEF States, Rungs
<1>2. Last \in Nat /\ \A i \in 1 .. Last : written[i].state \in States
  BY StateTyped DEF TypeOK, Last
<1>3. Last + 1 = 1 \/ (Last + 1) - 1 \in 1 .. Last
  BY <1>2
<1> QED
  BY <1>1, <1>2, <1>3 DEF Current, Before

(* A crash between the write and the append loses a receipt, so the log is no   *)
(* longer the path.  It is still in the order of the path, because every rung   *)
(* the log has is at or below the state the file was last written with.         *)
Below(s) == \A i \in 1 .. Len(receipts) : Rank(To(receipts[i])) <= Rank(s)
OrderInv ==
    /\ ReceiptsInOrder
    /\ Below(Current)
    /\ \A p \in Procs : pc[p] = "append" =>
         Below(receipt[p].from) /\ Rank(To(receipt[p])) <= Rank(Current)

(* Whatever is killed, the receipts are in the order of the ladder.             *)
THEOREM ReceiptOrder == ASSUME SingleProcess PROVE Spec => []ReceiptsInOrder
<1> USE DEF SingleProcess
<1>1. Init => OrderInv
  BY DEF Init, OrderInv, ReceiptsInOrder, Below
<1>2. TypeOK /\ SingleInv /\ HeldInv /\ OrderInv /\ [Next]_vars => OrderInv'
  <2> SUFFICES ASSUME TypeOK, SingleInv, HeldInv, OrderInv, [Next]_vars PROVE OrderInv'
    OBVIOUS
  <2>1. CASE UNCHANGED vars \/ Tick
    BY <2>1 DEF vars, Tick, files, locals, OrderInv, ReceiptsInOrder, Below, Current, Before, Last
  <2>2. ASSUME NEW p \in Procs, NEW req \in Requests, Load(p, req) PROVE OrderInv'
    BY <2>2 DEF Load, files, TypeOK, OrderInv, ReceiptsInOrder, Below, Current, Before, Last
  <2>3. ASSUME NEW p \in Procs,
               OpenState(p) \/ IndexState(p) \/ IndexReceipt(p) \/ Crash(p)
        PROVE  OrderInv'
    <3>1. /\ receipts' = receipts /\ written' = written
          /\ \A q \in Procs : pc'[q] # "append"
      BY <2>3 DEF OpenState, IndexState, IndexReceipt, Crash, End, files, TypeOK
    <3> QED
      BY <3>1 DEF OrderInv, ReceiptsInOrder, Below, Current, Before, Last
  <2>4. ASSUME NEW p \in Procs, WriteState(p) PROVE OrderInv'
    <3>1. /\ written' = Append(written, state[p]) /\ state[p] \in HypothesisState
          /\ Legal(Current, state[p])
          /\ receipt[p].from = Current /\ To(receipt[p]) = state[p].state
          /\ receipts' = receipts /\ receipt' = receipt
          /\ \A q \in Procs : q = p
      BY <2>4, InFlight DEF WriteState, SingleInv, HeldInv, locals, Current
    <3>2. Current' = state[p].state
      BY <3>1, AppendPath DEF TypeOK, Current
    <3>3. Rank(Current) <= Rank(state[p].state)
      BY <3>1, CurrentTyped, LegalRises
    <3>4. \A i \in 1 .. Len(receipts) : Rank(To(receipts[i])) <= Rank(state[p].state)
      <4> SUFFICES ASSUME NEW i \in 1 .. Len(receipts)
                   PROVE  Rank(To(receipts[i])) <= Rank(state[p].state)
        OBVIOUS
      <4>1. To(receipts[i]) \in States /\ Current \in States /\ state[p].state \in States
        BY <3>1, StateTyped, ReceiptStates, CurrentTyped DEF TypeOK
      <4>2. /\ Rank(To(receipts[i])) \in Nat /\ Rank(Current) \in Nat
            /\ Rank(state[p].state) \in Nat
        BY <4>1, RankTyped, LadderAssumption
      <4>3. Rank(To(receipts[i])) <= Rank(Current)
        BY DEF OrderInv, Below
      <4> QED
        BY <3>3, <4>2, <4>3
    <3>5. Rank(state[p].state) <= Rank(state[p].state)
      BY <3>1, RankTyped, StateTyped, LadderAssumption
    <3> QED
      BY <3>1, <3>2, <3>4, <3>5 DEF OrderInv, ReceiptsInOrder, Below
  <2>5. ASSUME NEW p \in Procs, AppendReceipt(p) PROVE OrderInv'
    <3>1. /\ receipts' = Append(receipts, receipt[p]) /\ receipt[p] \in Receipt
          /\ written' = written /\ Current' = Current
          /\ \A q \in Procs : pc'[q] # "append"
      BY <2>5, InFlight DEF AppendReceipt, Current, Before, Last, TypeOK
    <3>2. /\ Len(receipts') = Len(receipts) + 1 /\ Len(receipts) \in Nat
          /\ receipts'[Len(receipts) + 1] = receipt[p]
          /\ \A i \in 1 .. Len(receipts) : receipts'[i] = receipts[i]
      BY <3>1 DEF TypeOK
    <3>3. Below(receipt[p].from) /\ Rank(To(receipt[p])) <= Rank(Current)
      BY <2>5 DEF AppendReceipt, OrderInv
    <3>4. ReceiptsInOrder'
      <4> SUFFICES ASSUME NEW i \in 1 .. Len(receipts'), NEW j \in 1 .. Len(receipts'), i < j
                   PROVE  Rank(To(receipts'[i])) <= Rank(receipts'[j].from)
        BY DEF ReceiptsInOrder, To
      <4>1. i \in 1 .. Len(receipts)
        BY <3>2
      <4>2. CASE j \in 1 .. Len(receipts)
        BY <3>2, <4>1, <4>2 DEF OrderInv, ReceiptsInOrder, To
      <4>3. CASE j = Len(receipts) + 1
        BY <3>2, <3>3, <4>1, <4>3 DEF Below
      <4> QED
        BY <3>2, <4>2, <4>3
    <3>5. Below(Current)'
      <4> SUFFICES ASSUME NEW i \in 1 .. Len(receipts')
                   PROVE  Rank(To(receipts'[i])) <= Rank(Current)
        BY <3>1 DEF Below
      <4>1. i \in 1 .. Len(receipts) \/ i = Len(receipts) + 1
        BY <3>2
      <4> QED
        BY <3>2, <3>3, <4>1 DEF OrderInv, Below
    <3> QED
      BY <3>1, <3>4, <3>5 DEF OrderInv
  <2> QED
    BY <2>1, <2>2, <2>3, <2>4, <2>5 DEF Next, Step
<1>3. OrderInv => ReceiptsInOrder
  BY DEF OrderInv
<1> QED
  BY <1>1, <1>2, <1>3, TypeCorrect, SingleInductive, HeldInductive, PTL DEF Spec
===============================================================================
