------------------------- MODULE HypothesisLifecycle -------------------------
(* The lifecycle of one hypothesis, as `mwb hypothesis transition` drives it    *)
(* (hypothesis_lifecycle.py).  A command is a read of <ref>_lifecycle.json      *)
(* followed by four separate writes: the state file is truncated and rewritten, *)
(* a receipt line is appended, and two rows are committed to workbench.sqlite,  *)
(* each in a transaction of its own.  Nothing locks the files, so the commands  *)
(* of several processes interleave between any two of those steps, and a        *)
(* process may die between them.  Hypotheses share no file and no row: one      *)
(* hypothesis stands for all.                                                   *)
EXTENDS Naturals, Sequences, FiniteSets

CONSTANTS
    Procs,              \* the processes that may run a command
    LADDER,             \* the forward states in order (LINEAR_TRANSITIONS, or the
                        \* same with rungs merged: no guard tells the middle ones apart)
    TERMINAL_STATES,    \* the kill states, a part of the code's eight
    Tiers, Statuses,    \* evidence tiers and claim statuses a command may name
    Requests,           \* the commands that may be issued
    NoFile,             \* there is no state file
    Empty,              \* the state file is open for writing and has no text yet
    Corrupt,            \* its text is not JSON
    MaxCommands, MaxClock, MaxCrashes   \* bounds

LINEAR_TRANSITIONS ==
    << "noticed", "triaged", "structurally_plausible", "cheap_proxy_supported",
       "exact_patch_supported", "control_clean", "generalized", "claimable" >>

Rungs == { LADDER[i] : i \in 1 .. Len(LADDER) }
States == Rungs \cup TERMINAL_STATES

(* What the operator vouches for: --approved-by and --decision-ref.             *)
Approval == {"approved_by", "decision_ref"}

(* An option that is not given is "".                                           *)
HypothesisState ==
    [state : States, evidence_tier : Tiers \cup {"none"},
     claim_status : Statuses \cup {""}, approval : SUBSET Approval]

Request ==
    [to : States, tier : Tiers \cup {""}, status : Statuses \cup {""},
     approval : SUBSET Approval]

(* A receipt is named by a hash of the request, the state it left and the       *)
(* second it was made in; the record itself holds the inherited tier and status. *)
Receipt ==
    [from : States, request : Request, second : 0 .. MaxClock,
     evidence_tier : Tiers \cup {"none"}, claim_status : Statuses \cup {""}]
wb_ref(receipt) == << receipt.from, receipt.request, receipt.second >>

File == HypothesisState \cup {NoFile, Empty, Corrupt}

ASSUME LadderAssumption ==
    /\ LADDER \in Seq(STRING) /\ Len(LADDER) >= 2
    /\ LADDER[1] = "noticed" /\ LADDER[Len(LADDER)] = "claimable"
    /\ \A i, j \in 1 .. Len(LADDER) : LADDER[i] = LADDER[j] => i = j
ASSUME TerminalAssumption == TERMINAL_STATES \cap Rungs = {}
ASSUME RequestAssumption == Requests \subseteq Request
ASSUME TierAssumption == "" \notin Tiers
ASSUME FileAssumption ==
    /\ {NoFile, Empty, Corrupt} \cap (HypothesisState \cup Receipt) = {}
    /\ NoFile # Empty /\ NoFile # Corrupt /\ Empty # Corrupt
ASSUME BoundAssumption == MaxCommands \in Nat /\ MaxClock \in Nat /\ MaxCrashes \in Nat

VARIABLES
    stateFile,      \* hypotheses/<ref>_lifecycle.json
    receipts,       \* hypotheses/<ref>_transitions.jsonl
    stateRow,       \* the row of the table hypothesis_states, or NoFile
    receiptRows,    \* the rows of the table hypothesis_transitions
    pc, state, receipt,   \* of each process: its next step, what it will write
    written,        \* history: every state the file was completely written with
    clock, commands, crashes   \* utc_now() in seconds, and two counters

vars == << stateFile, receipts, stateRow, receiptRows, pc, state, receipt,
           written, clock, commands, crashes >>
files == << stateFile, receipts >>
rows == << stateRow, receiptRows >>
locals == << state, receipt >>

(* LINEAR_TRANSITIONS.get(from)                                                 *)
Linear(from) == { LADDER[i + 1] : i \in { j \in 1 .. Len(LADDER) - 1 : LADDER[j] = from } }

(* Mutants: promotion without the approval check; any order accepted.           *)
Allowed_Unapproved(from, to, approval) == to \in {from} \cup Linear(from) \cup TERMINAL_STATES
Allowed_AnyOrder(from, to, approval) == to = "claimable" => approval = Approval

(* _validate_transition: the transition is not refused                          *)
Allowed(from, to, approval) ==
    \/ to = from
    \/ /\ to = "claimable" => approval = Approval
       /\ to \in Linear(from) \cup TERMINAL_STATES

From(file) == IF file = NoFile THEN "noticed" ELSE file.state

NewState(file, req) ==
    [state |-> req.to,
     evidence_tier |-> IF req.tier # "" THEN req.tier
                       ELSE IF file = NoFile THEN "none" ELSE file.evidence_tier,
     claim_status |-> IF req.status # "" \/ file = NoFile THEN req.status
                      ELSE file.claim_status,
     approval |-> req.approval]

(* Mutant: the receipt is built from the new state.                             *)
NewReceipt_FromNew(file, req) ==
    [from |-> req.to, request |-> req, second |-> clock,
     evidence_tier |-> NewState(file, req).evidence_tier,
     claim_status |-> NewState(file, req).claim_status]

NewReceipt(file, req) ==
    [from |-> From(file), request |-> req, second |-> clock,
     evidence_tier |-> NewState(file, req).evidence_tier,
     claim_status |-> NewState(file, req).claim_status]

Init ==
    /\ stateFile = NoFile /\ receipts = << >>
    /\ stateRow = NoFile /\ receiptRows = {}
    /\ pc = [p \in Procs |-> "idle"]
    /\ state = [p \in Procs |-> NoFile] /\ receipt = [p \in Procs |-> NoFile]
    /\ written = << >>
    /\ clock = 0 /\ commands = 0 /\ crashes = 0

(* transition(): load the state, validate, build the new state and the receipt. *)
(* A file that is not JSON, or a refused request, ends the command with no effect. *)
Load(p, req) ==
    /\ pc[p] = "idle" /\ commands < MaxCommands
    /\ stateFile \notin {Empty, Corrupt}
    /\ Allowed(From(stateFile), req.to, req.approval)
    /\ state' = [state EXCEPT ![p] = NewState(stateFile, req)]
    /\ receipt' = [receipt EXCEPT ![p] = NewReceipt(stateFile, req)]
    /\ pc' = [pc EXCEPT ![p] = "open"]
    /\ commands' = commands + 1
    /\ UNCHANGED << files, rows, written, clock, crashes >>

(* write_text opens the file, which empties it, ...                             *)
OpenState(p) ==
    /\ pc[p] = "open"
    /\ stateFile' = Empty
    /\ pc' = [pc EXCEPT ![p] = "write"]
    /\ UNCHANGED << receipts, rows, locals, written, clock, commands, crashes >>

(* ... and writes from its first byte on.  Over the text another process has    *)
(* written since, a shorter text leaves that one's tail behind.                 *)
WriteState(p) ==
    /\ pc[p] = "write"
    /\ \/ stateFile' = state[p] /\ written' = Append(written, state[p])
       \/ stateFile # Empty /\ stateFile' = Corrupt /\ UNCHANGED written
    /\ pc' = [pc EXCEPT ![p] = "append"]
    /\ UNCHANGED << receipts, rows, locals, clock, commands, crashes >>

(* Mutants: the state is appended to the receipt log; nothing is appended; the  *)
(* log is rewritten newest first.                                               *)
AppendReceipt_State(p) ==
    /\ pc[p] = "append"
    /\ receipts' = Append(receipts, state[p])
    /\ pc' = [pc EXCEPT ![p] = "index_state"]
    /\ UNCHANGED << stateFile, rows, locals, written, clock, commands, crashes >>
AppendReceipt_Skipped(p) ==
    /\ pc[p] = "append"
    /\ pc' = [pc EXCEPT ![p] = "index_state"]
    /\ UNCHANGED << files, rows, locals, written, clock, commands, crashes >>
AppendReceipt_NewestFirst(p) ==
    /\ pc[p] = "append"
    /\ receipts' = << receipt[p] >> \o receipts
    /\ pc' = [pc EXCEPT ![p] = "index_state"]
    /\ UNCHANGED << stateFile, rows, locals, written, clock, commands, crashes >>

(* _append_transition                                                           *)
AppendReceipt(p) ==
    /\ pc[p] = "append"
    /\ receipts' = Append(receipts, receipt[p])
    /\ pc' = [pc EXCEPT ![p] = "index_state"]
    /\ UNCHANGED << stateFile, rows, locals, written, clock, commands, crashes >>

(* Mutant: insert or ignore.                                                    *)
IndexState_Ignore(p) ==
    /\ pc[p] = "index_state"
    /\ stateRow' = IF stateRow = NoFile THEN state[p] ELSE stateRow
    /\ pc' = [pc EXCEPT ![p] = "index_receipt"]
    /\ UNCHANGED << files, receiptRows, locals, written, clock, commands, crashes >>

(* insert or replace the row of hypothesis_states                               *)
IndexState(p) ==
    /\ pc[p] = "index_state"
    /\ stateRow' = state[p]
    /\ pc' = [pc EXCEPT ![p] = "index_receipt"]
    /\ UNCHANGED << files, receiptRows, locals, written, clock, commands, crashes >>

(* The command, and what it held, ends.                                         *)
End(p) ==
    /\ pc' = [pc EXCEPT ![p] = "idle"]
    /\ state' = [state EXCEPT ![p] = NoFile]
    /\ receipt' = [receipt EXCEPT ![p] = NoFile]

(* insert or replace the row of hypothesis_transitions, by the receipt's wb_ref *)
IndexReceipt(p) ==
    /\ pc[p] = "index_receipt"
    /\ receiptRows' = { r \in receiptRows : wb_ref(r) # wb_ref(receipt[p]) } \cup {receipt[p]}
    /\ End(p)
    /\ UNCHANGED << files, stateRow, written, clock, commands, crashes >>

(* The process is killed between two steps: what it wrote stays.                *)
Crash(p) ==
    /\ pc[p] # "idle" /\ crashes < MaxCrashes
    /\ End(p)
    /\ crashes' = crashes + 1
    /\ UNCHANGED << files, rows, written, clock, commands >>

Tick ==
    /\ clock < MaxClock
    /\ clock' = clock + 1
    /\ UNCHANGED << files, rows, pc, locals, written, commands, crashes >>

Step(p) ==
    \/ \E req \in Requests : Load(p, req)
    \/ OpenState(p) \/ WriteState(p) \/ AppendReceipt(p)
    \/ IndexState(p) \/ IndexReceipt(p) \/ Crash(p)

Next == Tick \/ \E p \in Procs : Step(p)

Spec == Init /\ [][Next]_vars

-----------------------------------------------------------------------------
PC == {"idle", "open", "write", "append", "index_state", "index_receipt"}

(* Every variable holds what the code can put there, and a process that is      *)
(* between the read and the last write holds a state and a receipt to write.    *)
TypeOK ==
    /\ stateFile \in File
    /\ receipts \in Seq(Receipt)
    /\ stateRow \in HypothesisState \cup {NoFile}
    /\ receiptRows \subseteq Receipt
    /\ pc \in [Procs -> PC]
    /\ state \in [Procs -> HypothesisState \cup {NoFile}]
    /\ receipt \in [Procs -> Receipt \cup {NoFile}]
    /\ \A p \in Procs : pc[p] # "idle" => state[p] # NoFile /\ receipt[p] # NoFile
    /\ written \in Seq(HypothesisState)
    /\ clock \in 0 .. MaxClock
    /\ commands \in 0 .. MaxCommands
    /\ crashes \in 0 .. MaxCrashes

(* The state the file was in before its i-th complete write.                    *)
Before(i) == IF i = 1 THEN "noticed" ELSE written[i - 1].state

(* The file climbs the ladder one rung at a time, or moves into a kill state,   *)
(* and reaches "claimable" only by a write that carried the whole approval      *)
(* (the order transition() is there to enforce).                                *)
Climbs(a, b) == \E k \in 1 .. Len(LADDER) - 1 : a = LADDER[k] /\ b = LADDER[k + 1]
Legal(from, new) ==
    \/ new.state = from
    \/ new.state \in TERMINAL_STATES
    \/ Climbs(from, new.state) /\ (new.state = "claimable" => new.approval = Approval)
ForwardInOrder ==
    \A i \in 1 .. Len(written) : Legal(Before(i), written[i])

(* However commands interleave and die, a hypothesis that is claimable was, at  *)
(* that or at an earlier write, made so by a command that carried the approval: *)
(* the unapproved claimable -> claimable transition relies on it.               *)
ClaimableWasApproved ==
    \A i \in 1 .. Len(written) : written[i].state = "claimable" =>
        \E j \in 1 .. i : written[j].state = "claimable" /\ written[j].approval = Approval

(* The live index never runs ahead of the files it is an index of: a receipt    *)
(* row has its line in the receipt log, and the state row a line that records   *)
(* that state.  (A crash may leave the index behind, rebuild-index catches up.)  *)
Recorded(st, r) ==
    /\ st.state = r.request.to /\ st.approval = r.request.approval
    /\ st.evidence_tier = r.evidence_tier /\ st.claim_status = r.claim_status
IndexNotAhead ==
    /\ \A r \in receiptRows : \E i \in 1 .. Len(receipts) : receipts[i] = r
    /\ stateRow # NoFile => \E i \in 1 .. Len(receipts) : Recorded(stateRow, receipts[i])

(* With no crash the receipt log is the path the state file took: each receipt  *)
(* leaves the state the one before it reached, and the last one, or the write   *)
(* whose receipt is still to come, reached the state in the file.               *)
ReceiptsChain ==
    crashes = 0 =>
        /\ Len(receipts) \in {Len(written), Len(written) - 1}
        /\ \A i \in 1 .. Len(receipts) :
             receipts[i].from = Before(i) /\ receipts[i].request.to = written[i].state

(* A crash loses at most the receipt of the command it killed: the log is a     *)
(* subsequence of the path, so it never shows a later rung before an earlier one *)
(* nor a state the file left for good.                                          *)
Rank(s) == IF s \in Rungs THEN CHOOSE i \in 1 .. Len(LADDER) : LADDER[i] = s
           ELSE Len(LADDER) + 1
ReceiptsInOrder ==
    \A i, j \in 1 .. Len(receipts) :
        i < j => Rank(receipts[i].request.to) <= Rank(receipts[j].from)

(* Run by one process, crashes or not, the writes of the state file implement   *)
(* the atomic ladder.                                                           *)
ApprovedOnce ==
    \E j \in 1 .. Len(written) : written[j].state = "claimable" /\ written[j].approval = Approval
Ladder == INSTANCE HypothesisLadder
    WITH current <- Before(Len(written) + 1), approved <- ApprovedOnce
ImplementsLadder == Ladder!Spec

(* When nothing is in flight and nothing crashed, the live state row is the     *)
(* state in the file.                                                           *)
IndexedWhenQuiet ==
    crashes = 0 /\ (\A p \in Procs : pc[p] = "idle") => stateRow = stateFile
=============================================================================
