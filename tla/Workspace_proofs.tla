---------------------------- MODULE Workspace_proofs ----------------------------
(* Theorems about Workspace for any number of processes, projects, runs and     *)
(* texts.                                                                       *)
EXTENDS Workspace, SequenceFacts

-----------------------------------------------------------------------------
(* Lists of steps: what comes before and after what.                            *)

(* The list L without its first n - 1 elements.                                 *)
From(L, n) == SubSeq(L, n, Len(L))
(* Each element in A comes after one in B, unless that has been met.            *)
Precedes(L, A, B, met) ==
    \A i \in 1 .. Len(L) : L[i] \in A => met \/ \E j \in 1 .. Len(L) : j < i /\ L[j] \in B
(* Each element in A comes before one in B.                                     *)
Follows(L, A, B) ==
    \A i \in 1 .. Len(L) : L[i] \in A => \E j \in 1 .. Len(L) : i < j /\ L[j] \in B
(* The element e is the last one, and only that.                                *)
Ends(L, e) == L = << >> \/ \A i \in 1 .. Len(L) : L[i] = e <=> i = Len(L)
Has(L, B) == \E j \in 1 .. Len(L) : L[j] \in B

(* What is left of a list.                                                      *)
LEMMA FromIndex ==
    ASSUME NEW S, NEW L \in Seq(S), NEW n \in 1 .. Len(L) + 1
    PROVE  /\ From(L, n) \in Seq(S) /\ Len(From(L, n)) = Len(L) + 1 - n
           /\ \A i \in 1 .. Len(From(L, n)) : /\ n - 1 + i \in 1 .. Len(L)
                                              /\ From(L, n)[i] = L[n - 1 + i]
<1>1. Len(L) \in Nat /\ n \in Nat /\ n >= 1 /\ n <= Len(L) + 1
  OBVIOUS
<1>2. /\ From(L, n) \in Seq(S)
      /\ Len(From(L, n)) = IF n <= Len(L) THEN Len(L) - n + 1 ELSE 0
      /\ \A i \in 1 .. Len(L) - n + 1 : From(L, n)[i] = L[n + i - 1]
  BY <1>1, SubSeqProperties DEF From
<1>3. Len(From(L, n)) = Len(L) + 1 - n
  BY <1>1, <1>2
<1>4. ASSUME NEW i \in 1 .. Len(From(L, n))
      PROVE  n - 1 + i \in 1 .. Len(L) /\ From(L, n)[i] = L[n - 1 + i]
  <2>1. i \in 1 .. Len(L) - n + 1 /\ n - 1 + i = n + i - 1
    BY <1>1, <1>3
  <2> QED
    BY <1>1, <1>2, <2>1
<1> QED
  BY <1>2, <1>3, <1>4

(* What holds of a list holds of what is left of it, if what has been dropped   *)
(* counts as met.                                                               *)
LEMMA FromPrecedes ==
    ASSUME NEW S, NEW L \in Seq(S), NEW n \in 1 .. Len(L) + 1, NEW A, NEW B,
           NEW met, NEW then, Precedes(L, A, B, met),
           met => then, \A j \in 1 .. Len(L) : j < n /\ L[j] \in B => then
    PROVE  Precedes(From(L, n), A, B, then)
<1> DEFINE R == From(L, n)
<1>1. /\ R \in Seq(S) /\ Len(R) = Len(L) + 1 - n
      /\ \A i \in 1 .. Len(R) : n - 1 + i \in 1 .. Len(L) /\ R[i] = L[n - 1 + i]
  BY FromIndex
<1> HIDE DEF R
<1> SUFFICES ASSUME NEW i \in 1 .. Len(R), R[i] \in A, ~ then
             PROVE  \E j \in 1 .. Len(R) : j < i /\ R[j] \in B
  BY DEF Precedes, R
<1>2. n - 1 + i \in 1 .. Len(L) /\ L[n - 1 + i] \in A
  BY <1>1
<1>3. PICK j \in 1 .. Len(L) : j < n - 1 + i /\ L[j] \in B
  BY <1>2 DEF Precedes
<1>4. j >= n
  BY <1>3
<1>5. j - n + 1 \in 1 .. Len(R) /\ j - n + 1 < i /\ n - 1 + (j - n + 1) = j
  BY <1>1, <1>3, <1>4
<1> QED
  BY <1>1, <1>3, <1>5

(* What follows still follows in what is left.                                 *)
LEMMA FromFollows ==
    ASSUME NEW S, NEW L \in Seq(S), NEW n \in 1 .. Len(L) + 1, NEW A, NEW B,
           Follows(L, A, B)
    PROVE  Follows(From(L, n), A, B)
<1> DEFINE R == From(L, n)
<1>1. /\ R \in Seq(S) /\ Len(R) = Len(L) + 1 - n
      /\ \A i \in 1 .. Len(R) : n - 1 + i \in 1 .. Len(L) /\ R[i] = L[n - 1 + i]
  BY FromIndex
<1> HIDE DEF R
<1> SUFFICES ASSUME NEW i \in 1 .. Len(R), R[i] \in A
             PROVE  \E j \in 1 .. Len(R) : i < j /\ R[j] \in B
  BY DEF Follows, R
<1>2. n - 1 + i \in 1 .. Len(L) /\ L[n - 1 + i] \in A
  BY <1>1
<1>3. PICK j \in 1 .. Len(L) : n - 1 + i < j /\ L[j] \in B
  BY <1>2 DEF Follows
<1>5. j - n + 1 \in 1 .. Len(R) /\ i < j - n + 1 /\ n - 1 + (j - n + 1) = j
  BY <1>1, <1>3
<1> QED
  BY <1>1, <1>3, <1>5

(* The last element of a list is that of what is left of it.                   *)
LEMMA FromEnds ==
    ASSUME NEW S, NEW L \in Seq(S), NEW n \in 1 .. Len(L) + 1, NEW e, Ends(L, e)
    PROVE  Ends(From(L, n), e)
<1> DEFINE R == From(L, n)
<1>1. /\ R \in Seq(S) /\ Len(R) = Len(L) + 1 - n
      /\ \A i \in 1 .. Len(R) : n - 1 + i \in 1 .. Len(L) /\ R[i] = L[n - 1 + i]
  BY FromIndex
<1> HIDE DEF R
<1>2. CASE Len(R) = 0
  BY <1>1, <1>2 DEF Ends, R
<1>3. CASE Len(R) # 0
  <2>1. Len(L) # 0
    BY <1>1, <1>3
  <2>2. \A i \in 1 .. Len(L) : L[i] = e <=> i = Len(L)
    BY <2>1 DEF Ends
  <2>3. ASSUME NEW i \in 1 .. Len(R) PROVE R[i] = e <=> i = Len(R)
    <3>1. n - 1 + i \in 1 .. Len(L) /\ R[i] = L[n - 1 + i]
      BY <1>1
    <3>2. R[i] = e <=> n - 1 + i = Len(L)
      BY <2>2, <3>1
    <3> QED
      BY <1>1, <3>2
  <2> QED
    BY <2>3 DEF Ends, R
<1> QED
  BY <1>2, <1>3

(* What is left has nothing new, and lacks what was met before it.              *)
LEMMA FromHas ==
    ASSUME NEW S, NEW L \in Seq(S), NEW n \in 1 .. Len(L) + 1, NEW B
    PROVE  /\ Has(From(L, n), B) => Has(L, B)
           /\ Has(L, B) /\ (\A j \in 1 .. Len(L) : j < n => L[j] \notin B)
                => Has(From(L, n), B)
<1> DEFINE R == From(L, n)
<1>1. /\ R \in Seq(S) /\ Len(R) = Len(L) + 1 - n
      /\ \A i \in 1 .. Len(R) : n - 1 + i \in 1 .. Len(L) /\ R[i] = L[n - 1 + i]
  BY FromIndex
<1> HIDE DEF R
<1>2. Has(R, B) => Has(L, B)
  BY <1>1 DEF Has
<1>3. ASSUME NEW j \in 1 .. Len(L), L[j] \in B, \A k \in 1 .. Len(L) : k < n => L[k] \notin B
      PROVE  Has(R, B)
  <2>1. j >= n
    BY <1>3
  <2>2. j - n + 1 \in 1 .. Len(R) /\ n - 1 + (j - n + 1) = j
    BY <1>1, <1>3, <2>1
  <2> QED
    BY <1>1, <1>3, <2>2 DEF Has
<1> QED
  BY <1>2, <1>3 DEF R, Has

(* The same of one list behind another.                                         *)
LEMMA ConcatPrecedes ==
    ASSUME NEW S, NEW K \in Seq(S), NEW L \in Seq(S), NEW A, NEW B,
           NEW met, NEW then,
           Precedes(K, A, B, met), Precedes(L, A, B, then), then => met \/ Has(K, B)
    PROVE  Precedes(K \o L, A, B, met)
<1> DEFINE R == K \o L
<1>1. /\ R \in Seq(S) /\ Len(R) = Len(K) + Len(L)
      /\ \A i \in 1 .. Len(K) : R[i] = K[i]
      /\ \A i \in 1 .. Len(L) : R[Len(K) + i] = L[i]
  BY ConcatIndex
<1> HIDE DEF R
<1> SUFFICES ASSUME NEW i \in 1 .. Len(R), R[i] \in A, ~ met
             PROVE  \E j \in 1 .. Len(R) : j < i /\ R[j] \in B
  BY DEF Precedes, R
<1>2. CASE i <= Len(K)
  <2>1. PICK j \in 1 .. Len(K) : j < i /\ K[j] \in B
    BY <1>1, <1>2 DEF Precedes
  <2>2. j \in 1 .. Len(R) /\ R[j] \in B
    BY <1>1, <2>1
  <2> QED
    BY <2>1, <2>2
<1>3. CASE i > Len(K)
  <2>1. i - Len(K) \in 1 .. Len(L) /\ Len(K) + (i - Len(K)) = i
    BY <1>1, <1>3
  <2>2. L[i - Len(K)] \in A
    BY <1>1, <2>1
  <2>3. CASE then
    <3>1. PICK j \in 1 .. Len(K) : K[j] \in B
      BY <2>3 DEF Has
    <3>2. j \in 1 .. Len(R) /\ R[j] \in B /\ j < i
      BY <1>1, <1>3, <3>1
    <3> QED
      BY <3>2
  <2>4. CASE ~ then
    <3>1. PICK j \in 1 .. Len(L) : j < i - Len(K) /\ L[j] \in B
      BY <2>1, <2>2, <2>4 DEF Precedes
    <3>2. Len(K) + j \in 1 .. Len(R) /\ R[Len(K) + j] \in B /\ Len(K) + j < i
      BY <1>1, <3>1
    <3> QED
      BY <3>2
  <2> QED
    BY <2>3, <2>4
<1> QED
  BY <1>1, <1>2, <1>3

(* What has to follow does in two lists together, if it does in each.          *)
LEMMA ConcatFollows ==
    ASSUME NEW S, NEW K \in Seq(S), NEW L \in Seq(S), NEW A, NEW B,
           Follows(K, A, B) \/ Has(L, B), Follows(L, A, B)
    PROVE  Follows(K \o L, A, B)
<1> DEFINE R == K \o L
<1>1. /\ R \in Seq(S) /\ Len(R) = Len(K) + Len(L)
      /\ \A i \in 1 .. Len(K) : R[i] = K[i]
      /\ \A i \in 1 .. Len(L) : R[Len(K) + i] = L[i]
  BY ConcatIndex
<1> HIDE DEF R
<1> SUFFICES ASSUME NEW i \in 1 .. Len(R), R[i] \in A
             PROVE  \E j \in 1 .. Len(R) : i < j /\ R[j] \in B
  BY DEF Follows, R
<1>2. CASE i <= Len(K)
  <2>0. i \in 1 .. Len(K) /\ K[i] \in A
    BY <1>1, <1>2
  <2>1. CASE Follows(K, A, B)
    <3>1. PICK j \in 1 .. Len(K) : i < j /\ K[j] \in B
      BY <2>0, <2>1 DEF Follows
    <3>2. j \in 1 .. Len(R) /\ R[j] \in B
      BY <1>1, <3>1
    <3> QED
      BY <3>1, <3>2
  <2>2. CASE Has(L, B)
    <3>1. PICK j \in 1 .. Len(L) : L[j] \in B
      BY <2>2 DEF Has
    <3>2. Len(K) + j \in 1 .. Len(R) /\ R[Len(K) + j] \in B /\ i < Len(K) + j
      BY <1>1, <1>2, <3>1
    <3> QED
      BY <3>2
  <2> QED
    BY <2>1, <2>2
<1>3. CASE i > Len(K)
  <2>1. i - Len(K) \in 1 .. Len(L) /\ Len(K) + (i - Len(K)) = i
    BY <1>1, <1>3
  <2>2. L[i - Len(K)] \in A
    BY <1>1, <2>1
  <2>3. PICK j \in 1 .. Len(L) : i - Len(K) < j /\ L[j] \in B
    BY <2>1, <2>2 DEF Follows
  <2>4. Len(K) + j \in 1 .. Len(R) /\ R[Len(K) + j] \in B /\ i < Len(K) + j
    BY <1>1, <2>3
  <2> QED
    BY <2>4
<1> QED
  BY <1>1, <1>2, <1>3

(* The second of two lists ends both.                                          *)
LEMMA ConcatEnds ==
    ASSUME NEW S, NEW K \in Seq(S), NEW L \in Seq(S), NEW e,
           ~ Has(K, {e}), Ends(L, e), L # << >>
    PROVE  Ends(K \o L, e)
<1> DEFINE R == K \o L
<1>1. /\ R \in Seq(S) /\ Len(R) = Len(K) + Len(L)
      /\ \A i \in 1 .. Len(K) : R[i] = K[i]
      /\ \A i \in 1 .. Len(L) : R[Len(K) + i] = L[i]
  BY ConcatIndex
<1> HIDE DEF R
<1>2. Len(L) # 0 /\ Len(L) \in Nat /\ Len(K) \in Nat
  OBVIOUS
<1>3. ASSUME NEW i \in 1 .. Len(R) PROVE R[i] = e <=> i = Len(R)
  <2>1. CASE i <= Len(K)
    <3>1. K[i] # e
      BY <2>1, <1>2 DEF Has
    <3> QED
      BY <1>1, <1>2, <2>1, <3>1
  <2>2. CASE i > Len(K)
    <3>1. i - Len(K) \in 1 .. Len(L) /\ Len(K) + (i - Len(K)) = i
      BY <1>1, <2>2
    <3>2. L[i - Len(K)] = e <=> i - Len(K) = Len(L)
      BY <1>2, <3>1 DEF Ends
    <3> QED
      BY <1>1, <3>1, <3>2
  <2> QED
    BY <1>1, <2>1, <2>2
<1> QED
  BY <1>3 DEF Ends, R

(* Two lists have together what one of them has.                               *)
LEMMA ConcatHas ==
    ASSUME NEW S, NEW K \in Seq(S), NEW L \in Seq(S), NEW B
    PROVE  Has(K \o L, B) <=> Has(K, B) \/ Has(L, B)
<1> DEFINE R == K \o L
<1>1. /\ R \in Seq(S) /\ Len(R) = Len(K) + Len(L)
      /\ \A i \in 1 .. Len(K) : R[i] = K[i]
      /\ \A i \in 1 .. Len(L) : R[Len(K) + i] = L[i]
  BY ConcatIndex
<1> HIDE DEF R
<1>2. ASSUME NEW j \in 1 .. Len(R), R[j] \in B PROVE Has(K, B) \/ Has(L, B)
  <2>1. CASE j <= Len(K)
    BY <1>1, <1>2, <2>1 DEF Has
  <2>2. CASE j > Len(K)
    <3>1. j - Len(K) \in 1 .. Len(L) /\ Len(K) + (j - Len(K)) = j
      BY <1>1, <2>2
    <3> QED
      BY <1>1, <1>2, <3>1 DEF Has
  <2> QED
    BY <1>1, <2>1, <2>2
<1>3. ASSUME NEW j \in 1 .. Len(K), K[j] \in B PROVE Has(R, B)
  BY <1>1, <1>3 DEF Has
<1>4. ASSUME NEW j \in 1 .. Len(L), L[j] \in B PROVE Has(R, B)
  <2>1. Len(K) + j \in 1 .. Len(R) /\ R[Len(K) + j] \in B
    BY <1>1, <1>4
  <2> QED
    BY <2>1 DEF Has
<1> QED
  BY <1>2, <1>3, <1>4 DEF Has, R

-----------------------------------------------------------------------------
(* The steps a command may still have to do, given the rows it may insert into  *)
(* the tables of the ledgers.                                                   *)

Explainable == Range(Runs) \cup Hypotheses
Proposable == {"runs", "claims"}
(* The row that a section of a ledger becomes.                                  *)
RowOf(kind, section) ==
    IF kind = "runs" THEN LedgerRow(kind, section.run_id, section)
    ELSE LedgerRow(kind, EntryId(kind, section), section.payload)
AllRows == [kind \in Kinds |-> { RowOf(kind, section) : section \in Sections(kind) }]

(* What the commands write, and where.                                          *)
TomlContents == {Toml} \X Names
LedgerContents == { Ledger(k) : k \in Kinds } \X {<< >>}
ProposalContents == UNION { {Proposal(k)} \X Proposals(k) : k \in Proposable }
ExplainedContents == { Explained(x) : x \in Explainable } \X Range(Runs)
Contents == TomlContents \cup LedgerContents \cup ProposalContents \cup ExplainedContents

PlainOps ==
    {"read project", "insert project", "read events", "append event", "insert event",
     "index ledgers", "unlink", "initialize schema", "restore events", "restore ledgers",
     "return"}
FileOps == {"open", "write", "if missing"}
Inserts(rows) == UNION { { << "insert", k, row >> : row \in rows[k] } : k \in Kinds }
ExplainInserts ==
    { << "insert", "alternative_explanations", Row(Manifest[r].hypothesis, r) >> :
        r \in Range(Runs) }
PlainSteps == { << op >> : op \in PlainOps }
With1(op, S) == { << op, x >> : x \in S }
Hows == {"create", "fail"}
Writes == UNION { { << op, at[1], at[2] >> : at \in Contents } : op \in {"write", "if missing"} }
OtherSteps ==
    PlainSteps \cup With1("discover", Hows) \cup With1("parse", Kinds)
    \cup With1("restore run", Range(Runs)) \cup With1("restore hypothesis", Hypotheses)
    \cup With1("open", Paths) \cup Writes \cup ExplainInserts
Steps(rows) == OtherSteps \cup Inserts(rows)

AnyStep == Steps(AllRows)
(* The steps on one file.                                                       *)
On(path) == { s \in AnyStep : s[1] \in FileOps /\ s[2] = path }
Return1 == << "return" >>
ReadsEvents == {<< "read events" >>}
AppendsEvent == {<< "append event" >>}
OwnedPaths == {Toml} \cup { Ledger(k) : k \in Kinds }
(* The steps that change what the user may have changed since.                  *)
Loud == AppendsEvent \cup
        { s \in AnyStep : s[1] \in {"open", "write"} /\ s[2] \in OwnedPaths }
(* The steps that need the name of the project, and those that find it.         *)
NamesProject == { << op >> : op \in {"insert project", "read events", "append event",
                                     "insert event", "initialize schema"} }
FindsProject == {<< "read project" >>} \cup
                With1("discover", Hows)

(* What is written is a pair of a path and a content.                           *)
LEMMA ContentPairs ==
    \A at \in Contents : << at[1], at[2] >> = at
<1> SUFFICES ASSUME NEW at \in Contents PROVE << at[1], at[2] >> = at
  OBVIOUS
<1>1. \A S, T : \A y : y \in S \X T => << y[1], y[2] >> = y
  OBVIOUS
<1>2. \/ at \in TomlContents \/ at \in LedgerContents
      \/ at \in ProposalContents \/ at \in ExplainedContents
  BY DEF Contents
<1>3. CASE at \in ProposalContents
  <2>1. PICK k \in Proposable : at \in {Proposal(k)} \X Proposals(k)
    BY <1>3 DEF ProposalContents
  <2> QED
    BY <1>1, <2>1, Zenon
<1> QED
  BY <1>1, <1>2, <1>3, Zenon DEF TomlContents, LedgerContents, ExplainedContents

(* What each step is, by its operation.                                         *)
LEMMA StepShape ==
    ASSUME NEW rows, NEW s \in Steps(rows)
    PROVE  /\ s[1] \in PlainOps => s = << s[1] >>
           /\ s[1] = "discover" => s[2] \in Hows /\ s = << "discover", s[2] >>
           /\ s[1] = "parse" => s[2] \in Kinds /\ s = << "parse", s[2] >>
           /\ s[1] = "restore run" => s[2] \in Range(Runs)
           /\ s[1] = "restore hypothesis" => s[2] \in Hypotheses
           /\ s[1] = "open" => s[2] \in Paths /\ s = << "open", s[2] >>
           /\ s[1] \in {"write", "if missing"} =>
                << s[2], s[3] >> \in Contents /\ s = << s[1], s[2], s[3] >>
           /\ s[1] = "insert" => s \in Inserts(rows) \cup ExplainInserts
           /\ s[1] \in PlainOps \cup {"discover", "parse", "restore run", "restore hypothesis",
                                      "open", "write", "if missing", "insert"}
<1>0. /\ "discover" \notin PlainOps /\ "parse" \notin PlainOps /\ "restore run" \notin PlainOps
      /\ "restore hypothesis" \notin PlainOps /\ "open" \notin PlainOps
      /\ "write" \notin PlainOps /\ "if missing" \notin PlainOps /\ "insert" \notin PlainOps
  BY DEF PlainOps
<1>1. s \in PlainSteps => s[1] \in PlainOps /\ s = << s[1] >>
  BY DEF PlainSteps
<1>2. \A op, S : s \in With1(op, S) => s[1] = op /\ s[2] \in S /\ s = << op, s[2] >>
  BY DEF With1
<1>7. ASSUME s \in Writes
      PROVE  /\ s[1] \in {"write", "if missing"} /\ << s[2], s[3] >> \in Contents
             /\ s = << s[1], s[2], s[3] >>
  <2>1. PICK op \in {"write", "if missing"} : s \in { << op, at[1], at[2] >> : at \in Contents }
    BY <1>7 DEF Writes
  <2>2. PICK at \in Contents : s = << op, at[1], at[2] >>
    BY <2>1
  <2>3. s[1] = op /\ s[2] = at[1] /\ s[3] = at[2]
    BY <2>2
  <2>4. << at[1], at[2] >> \in Contents
    BY ContentPairs, Zenon
  <2> QED
    BY <2>1, <2>2, <2>3, <2>4
<1>8. s \in Inserts(rows) \cup ExplainInserts => s[1] = "insert"
  BY DEF Inserts, ExplainInserts
<1>9. \/ s \in PlainSteps \/ s \in With1("discover", Hows) \/ s \in With1("parse", Kinds)
      \/ s \in With1("restore run", Range(Runs))
      \/ s \in With1("restore hypothesis", Hypotheses)
      \/ s \in With1("open", Paths) \/ s \in Writes \/ s \in Inserts(rows) \cup ExplainInserts
  BY DEF Steps, OtherSteps
<1>10. \/ s[1] \in PlainOps /\ s = << s[1] >>
       \/ s[1] = "discover" /\ s[2] \in Hows /\ s = << "discover", s[2] >>
       \/ s[1] = "parse" /\ s[2] \in Kinds /\ s = << "parse", s[2] >>
       \/ s[1] = "restore run" /\ s[2] \in Range(Runs)
       \/ s[1] = "restore hypothesis" /\ s[2] \in Hypotheses
       \/ s[1] = "open" /\ s[2] \in Paths /\ s = << "open", s[2] >>
       \/ /\ s[1] \in {"write", "if missing"} /\ << s[2], s[3] >> \in Contents
          /\ s = << s[1], s[2], s[3] >>
       \/ s[1] = "insert" /\ s \in Inserts(rows) \cup ExplainInserts
  BY <1>1, <1>2, <1>7, <1>8, <1>9, Zenon
<1> QED
  BY <1>0, <1>10 DEF Hows

(* What is inserted, and where.                                                 *)
LEMMA InsertShape ==
    ASSUME NEW rows, NEW s \in Inserts(rows) \cup ExplainInserts
    PROVE  \/ s[1] = "insert" /\ s[2] \in Kinds /\ s[3] \in rows[s[2]]
              /\ s = << "insert", s[2], s[3] >>
           \/ s[1] = "insert" /\ s[2] = "alternative_explanations"
              /\ \E r \in Range(Runs) : s[3] = Row(Manifest[r].hypothesis, r)
BY DEF Inserts, ExplainInserts

(* More rows, more steps.                                                       *)
LEMMA StepsGrow ==
    ASSUME NEW old, NEW new, \A k \in Kinds : old[k] \subseteq new[k]
    PROVE  /\ Inserts(old) \subseteq Inserts(new) /\ Steps(old) \subseteq Steps(new)
           /\ Seq(Inserts(old)) \subseteq Seq(Inserts(new))
           /\ Seq(Steps(old)) \subseteq Seq(Steps(new))
<1>1. Inserts(old) \subseteq Inserts(new)
  BY DEF Inserts
<1>2. Steps(old) \subseteq Steps(new)
  BY <1>1 DEF Steps
<1>3. \A S, T : S \subseteq T => Seq(S) \subseteq Seq(T)
  OBVIOUS
<1> QED
  BY <1>1, <1>2, <1>3, Zenon

(* The paths differ.                                                            *)
LEMMA PathsDiffer ==
    /\ \A k \in Kinds : Ledger(k) # Toml /\ Ledger(k) \in Paths
    /\ \A k \in Proposable : Proposal(k) # Toml /\ Proposal(k) \in Paths
    /\ \A x \in Explainable : Explained(x) # Toml /\ Explained(x) \in Paths
    /\ Toml \in Paths
    /\ \A k, l \in Kinds : Ledger(k) = Ledger(l) => k = l
    /\ \A k, l \in Proposable : Proposal(k) = Proposal(l) => k = l
    /\ \A x, y \in Explainable : Explained(x) = Explained(y) => x = y
    /\ \A k \in Kinds : \A l \in Proposable : Ledger(k) # Proposal(l)
    /\ \A k \in Kinds : \A x \in Explainable : Ledger(k) # Explained(x)
    /\ \A l \in Proposable : \A x \in Explainable : Proposal(l) # Explained(x)
<1>1. /\ \A k : Ledger(k) # Toml /\ Proposal(k) # Toml /\ Explained(k) # Toml
      /\ \A k, l : /\ Ledger(k) = Ledger(l) => k = l
                   /\ Proposal(k) = Proposal(l) => k = l
                   /\ Explained(k) = Explained(l) => k = l
                   /\ Ledger(k) # Proposal(l) /\ Ledger(k) # Explained(l)
                   /\ Proposal(k) # Explained(l)
  BY DEF Ledger, Toml, Proposal, Explained
<1>2. /\ \A k \in Kinds : Ledger(k) \in Paths
      /\ \A k \in Proposable : Proposal(k) \in Paths
      /\ \A x \in Explainable : Explained(x) \in Paths
      /\ Toml \in Paths
  BY DEF Paths, Proposable, Explainable
<1> QED
  BY <1>1, <1>2, Zenon

(* What is written fits its path.                                               *)
LEMMA ContentFits ==
    ASSUME NEW path, NEW c, << path, c >> \in Contents
    PROVE  /\ path \in Paths
           /\ path = Toml => c \in Names
           /\ \A k \in Kinds : path = Ledger(k) => c = << >>
           /\ \A k \in Proposable : path = Proposal(k) => c \in Proposals(k)
           /\ \A x \in Explainable : path = Explained(x) => c \in Range(Runs)
<1>1. \A S, T : << path, c >> \in S \X T => path \in S /\ c \in T
  OBVIOUS
<1>2. \/ << path, c >> \in TomlContents \/ << path, c >> \in LedgerContents
      \/ << path, c >> \in ProposalContents \/ << path, c >> \in ExplainedContents
  BY DEF Contents
<1>3. CASE << path, c >> \in TomlContents
  <2>1. path = Toml /\ c \in Names
    BY <1>1, <1>3 DEF TomlContents
  <2> QED
    BY <2>1, PathsDiffer
<1>4. CASE << path, c >> \in LedgerContents
  <2>1. path \in { Ledger(k) : k \in Kinds } /\ c = << >>
    BY <1>1, <1>4 DEF LedgerContents
  <2>2. PICK k \in Kinds : path = Ledger(k)
    BY <2>1
  <2> QED
    BY <2>1, <2>2, PathsDiffer
<1>5. CASE << path, c >> \in ProposalContents
  <2>1. PICK k \in Proposable : << path, c >> \in {Proposal(k)} \X Proposals(k)
    BY <1>5 DEF ProposalContents
  <2>2. path = Proposal(k) /\ c \in Proposals(k)
    BY <1>1, <2>1
  <2>3. \A l \in Proposable : path = Proposal(l) => c \in Proposals(l)
    BY <2>2, PathsDiffer
  <2>4. /\ path \in Paths /\ path # Toml
        /\ \A l \in Kinds : path # Ledger(l)
        /\ \A x \in Explainable : path # Explained(x)
    BY <2>2, PathsDiffer
  <2> QED
    BY <2>3, <2>4
<1>6. CASE << path, c >> \in ExplainedContents
  <2>1. path \in { Explained(x) : x \in Explainable } /\ c \in Range(Runs)
    BY <1>1, <1>6 DEF ExplainedContents
  <2>2. PICK x \in Explainable : path = Explained(x)
    BY <2>1
  <2> QED
    BY <2>1, <2>2, PathsDiffer
<1> QED
  BY <1>2, <1>3, <1>4, <1>5, <1>6

-----------------------------------------------------------------------------
(* The steps that the commands begin with.                                      *)

CalmSteps ==
    { s \in OtherSteps : s # Return1 /\ s \notin ReadsEvents /\ s # << "read project" >>
                         /\ s \notin Loud }
(* The lists that begin by finding the project.                                 *)
Found == { L \in Seq(CalmSteps) : L # << >> /\ L[1] \in With1("discover", Hows) }

(* A step is calm by its operation, or by the file it writes.                   *)
LEMMA CalmByOp ==
    ASSUME NEW s \in OtherSteps,
           s[1] \notin {"append event", "return", "read events", "read project"},
           s[1] \in {"open", "write"} => s[2] \notin OwnedPaths
    PROVE  s \in CalmSteps
<1>1. \A t, op : t = << op >> => t[1] = op
  <2>1. \A op : << op >>[1] = op
    OBVIOUS
  <2> QED
    BY <2>1, Zenon
<1>2. s # << "append event" >> /\ s # << "return" >> /\ s # << "read events" >>
      /\ s # << "read project" >>
  BY <1>1
<1>3. s \notin Loud
  BY <1>2 DEF Loud, AppendsEvent
<1> QED
  BY <1>2, <1>3 DEF CalmSteps, ReadsEvents, Return1

(* The single steps that are calm.                                              *)
LEMMA CalmOnes ==
    /\ \A op \in {"insert project", "insert event", "index ledgers", "unlink",
                  "initialize schema", "restore events", "restore ledgers"} :
         << op >> \in CalmSteps
    /\ \A how \in Hows : << "discover", how >> \in CalmSteps
    /\ \A k \in Kinds : << "parse", k >> \in CalmSteps
    /\ \A r \in Range(Runs) : << "restore run", r >> \in CalmSteps
    /\ \A h \in Hypotheses : << "restore hypothesis", h >> \in CalmSteps
    /\ \A r \in Range(Runs) :
         << "insert", "alternative_explanations", Row(Manifest[r].hypothesis, r) >> \in CalmSteps
<1>1. \A s \in OtherSteps :
        s[1] \notin {"open", "write", "append event", "return", "read events",
                    "read project"} => s \in CalmSteps
  BY CalmByOp
<1>2. \A op \in {"insert project", "insert event", "index ledgers", "unlink",
                 "initialize schema", "restore events", "restore ledgers"} :
        << op >> \in CalmSteps
  <2>1. \A op \in PlainOps : << op >> \in OtherSteps
    BY DEF OtherSteps, PlainSteps
  <2>2. \A op : << op >>[1] = op
    OBVIOUS
  <2> QED
    BY <1>1, <2>1, <2>2 DEF PlainOps
<1>3. \A op, S : \A x \in S : << op, x >> \in With1(op, S) /\ << op, x >>[1] = op
  BY DEF With1
<1>4. \A how \in Hows : << "discover", how >> \in CalmSteps
  <2> SUFFICES ASSUME NEW how \in Hows PROVE << "discover", how >> \in CalmSteps
    OBVIOUS
  <2>1. << "discover", how >> \in OtherSteps
    BY <1>3 DEF OtherSteps
  <2> QED
    BY <1>1, <1>3, <2>1
<1>5. \A k \in Kinds : << "parse", k >> \in CalmSteps
  <2> SUFFICES ASSUME NEW k \in Kinds PROVE << "parse", k >> \in CalmSteps
    OBVIOUS
  <2>1. << "parse", k >> \in OtherSteps
    BY <1>3 DEF OtherSteps
  <2> QED
    BY <1>1, <1>3, <2>1
<1>6. \A r \in Range(Runs) : << "restore run", r >> \in CalmSteps
  <2> SUFFICES ASSUME NEW r \in Range(Runs) PROVE << "restore run", r >> \in CalmSteps
    OBVIOUS
  <2>1. << "restore run", r >> \in OtherSteps
    BY <1>3 DEF OtherSteps
  <2> QED
    BY <1>1, <1>3, <2>1
<1>7. \A h \in Hypotheses : << "restore hypothesis", h >> \in CalmSteps
  <2> SUFFICES ASSUME NEW h \in Hypotheses PROVE << "restore hypothesis", h >> \in CalmSteps
    OBVIOUS
  <2>1. << "restore hypothesis", h >> \in OtherSteps
    BY <1>3 DEF OtherSteps
  <2> QED
    BY <1>1, <1>3, <2>1
<1>8. ASSUME NEW r \in Range(Runs)
      PROVE  << "insert", "alternative_explanations", Row(Manifest[r].hypothesis, r) >>
               \in CalmSteps
  <2> DEFINE s == << "insert", "alternative_explanations", Row(Manifest[r].hypothesis, r) >>
  <2>1. s \in ExplainInserts
    BY Zenon DEF ExplainInserts
  <2>2. s[1] = "insert"
    OBVIOUS
  <2> HIDE DEF s
  <2>3. s \in OtherSteps
    BY <2>1 DEF OtherSteps
  <2> QED
    BY <1>1, <2>2, <2>3 DEF s
<1> QED
  BY <1>2, <1>4, <1>5, <1>6, <1>7, <1>8

(* The steps that write a file no user owns are calm.                           *)
LEMMA CalmWrites ==
    ASSUME NEW path, NEW c, << path, c >> \in Contents, path \notin OwnedPaths
    PROVE  write_text(path, c) \in Seq(CalmSteps)
<1>1. path \in Paths
  BY ContentFits
<1> DEFINE a == << "open", path >>
           b == << "write", path, c >>
<1>2. a \in OtherSteps /\ a[1] = "open" /\ a[2] = path
  <2>1. a \in With1("open", Paths)
    BY <1>1 DEF With1
  <2> QED
    BY <2>1 DEF OtherSteps
<1>3. b \in OtherSteps /\ b[1] = "write" /\ b[2] = path
  <2> DEFINE at == << path, c >>
  <2>1. at \in Contents /\ << "write", at[1], at[2] >> = b
    OBVIOUS
  <2> HIDE DEF at, b
  <2>2. b \in Writes
    BY <2>1, Zenon DEF Writes
  <2>3. b \in OtherSteps
    BY <2>2 DEF OtherSteps
  <2> QED
    BY <2>3 DEF b
<1>4. \A s \in OtherSteps : s[1] \in {"open", "write"} /\ s[2] \notin OwnedPaths => s \in CalmSteps
  BY CalmByOp
<1>5. write_text(path, c) = << a, b >>
  BY DEF write_text
<1> HIDE DEF a, b
<1>6. a \in CalmSteps /\ b \in CalmSteps
  BY <1>2, <1>3, <1>4
<1> QED
  BY <1>5, <1>6

(* The steps that look whether a ledger is missing are calm.                    *)
LEMMA CalmScaffold ==
    /\ ensure_research_scaffold \in Seq(CalmSteps)
    /\ \A k \in Kinds : \E i \in 1 .. 4 :
         /\ ensure_research_scaffold[i][1] = "if missing"
         /\ ensure_research_scaffold[i][2] = Ledger(k)
    /\ Len(ensure_research_scaffold) = 4
<1>1. /\ DOMAIN KindOrder = 1 .. 4 /\ \A i \in 1 .. 4 : KindOrder[i] \in Kinds
      /\ \A k \in Kinds : \E i \in 1 .. 4 : KindOrder[i] = k
  BY DEF KindOrder, Kinds
<1>2. ASSUME NEW k \in Kinds
      PROVE  << "if missing", Ledger(k), << >> >> \in CalmSteps
  <2> DEFINE at == << Ledger(k), << >> >>
             s == << "if missing", Ledger(k), << >> >>
  <2>1. at \in Contents /\ << "if missing", at[1], at[2] >> = s
    BY DEF Contents, LedgerContents
  <2>2. s[1] = "if missing"
    OBVIOUS
  <2> HIDE DEF at, s
  <2>3. s \in Writes
    BY <2>1, Zenon DEF Writes
  <2>4. s \in OtherSteps
    BY <2>3 DEF OtherSteps
  <2>5. s \in CalmSteps
    BY <2>2, <2>4, CalmByOp
  <2> QED
    BY <2>5 DEF s
<1>3. ensure_research_scaffold
        = [i \in 1 .. 4 |-> << "if missing", Ledger(KindOrder[i]), << >> >>]
  BY <1>1 DEF ensure_research_scaffold
<1>4. ensure_research_scaffold \in Seq(CalmSteps) /\ Len(ensure_research_scaffold) = 4
  <2>1. \A i \in 1 .. 4 : ensure_research_scaffold[i] \in CalmSteps
    BY <1>1, <1>2, <1>3
  <2>3. ensure_research_scaffold \in [1 .. 4 -> CalmSteps]
    BY <1>3, <2>1
  <2>4. \A n \in Nat : \A S : \A f \in [1 .. n -> S] : f \in Seq(S) /\ Len(f) = n
    OBVIOUS
  <2> QED
    BY <2>3, <2>4, Zenon
<1>5. ASSUME NEW k \in Kinds
      PROVE  \E i \in 1 .. 4 : /\ ensure_research_scaffold[i][1] = "if missing"
                               /\ ensure_research_scaffold[i][2] = Ledger(k)
  <2>1. PICK i \in 1 .. 4 : KindOrder[i] = k
    BY <1>1
  <2>2. ensure_research_scaffold[i] = << "if missing", Ledger(k), << >> >>
    BY <1>3, <2>1
  <2>3. /\ << "if missing", Ledger(k), << >> >>[1] = "if missing"
        /\ << "if missing", Ledger(k), << >> >>[2] = Ledger(k)
    OBVIOUS
  <2> QED
    BY <2>2, <2>3, Zenon
<1> QED
  BY <1>4, <1>5

(* A list that finds the project, whatever calm steps come behind it.           *)
LEMMA FoundConcat ==
    ASSUME NEW a \in Found, NEW b \in Seq(CalmSteps)
    PROVE  a \o b \in Found
<1>1. a \in Seq(CalmSteps) /\ a # << >> /\ a[1] \in With1("discover", Hows)
  BY DEF Found
<1>2. /\ a \o b \in Seq(CalmSteps) /\ Len(a \o b) = Len(a) + Len(b)
      /\ \A i \in 1 .. Len(a) : (a \o b)[i] = a[i]
  BY <1>1, ConcatIndex
<1>3. 1 \in 1 .. Len(a) /\ Len(a) # 0
  BY <1>1
<1>4. (a \o b)[1] \in With1("discover", Hows) /\ Len(a \o b) # 0
  BY <1>1, <1>2, <1>3
<1>5. a \o b # << >>
  BY <1>4, <1>2, EmptyByLength
<1> QED
  BY <1>2, <1>4, <1>5 DEF Found

(* The step that finds the project.                                             *)
LEMMA FoundDiscover ==
    discover_or_create \in Found /\ discover \in Found
<1>1. \A how \in Hows : << << "discover", how >> >> \in Found
  <2> SUFFICES ASSUME NEW how \in Hows PROVE << << "discover", how >> >> \in Found
    OBVIOUS
  <2>1. << "discover", how >> \in CalmSteps
    BY CalmOnes
  <2>2. << "discover", how >> \in With1("discover", Hows)
    BY DEF With1
  <2>3. \A x \in CalmSteps : x \in With1("discover", Hows) => << x >> \in Found
    BY DEF Found
  <2> QED
    BY <2>1, <2>2, <2>3, Zenon
<1> QED
  BY <1>1 DEF discover_or_create, discover, Hows

(* A list with one step for each element of another list.                       *)
LEMMA OneEach ==
    ASSUME NEW S, NEW L \in Seq(S), NEW op, \A x \in S : << op, x >> \in CalmSteps
    PROVE  [i \in DOMAIN L |-> << op, L[i] >>] \in Seq(CalmSteps)
<1> DEFINE g == [i \in 1 .. Len(L) |-> << op, L[i] >>]
<1>1. DOMAIN L = 1 .. Len(L) /\ Len(L) \in Nat /\ \A i \in 1 .. Len(L) : L[i] \in S
  OBVIOUS
<1>2. g \in [1 .. Len(L) -> CalmSteps]
  BY <1>1
<1>3. \A n \in Nat : \A T : \A h \in [1 .. n -> T] : h \in Seq(T)
  OBVIOUS
<1> QED
  BY <1>1, <1>2, <1>3

(* The hypotheses of the runs are finitely many.                                *)
LEMMA HypothesesFinite ==
    IsFiniteSet(Hypotheses) /\ IsFiniteSet(Range(Runs))
<1>3. IsFiniteSet(Range(Runs))
  BY WorkspaceNames, FiniteElements
<1>4. IsFiniteSet(Hypotheses)
  <2> DEFINE f == [r \in Range(Runs) |-> Manifest[r].hypothesis]
  <2>1. f \in [Range(Runs) -> Hypotheses]
    BY DEF Hypotheses
  <2>2. \A t \in Hypotheses : \E r \in Range(Runs) : f[r] = t
    BY DEF Hypotheses
  <2> HIDE DEF f
  <2> QED
    BY <1>3, <2>1, <2>2, FiniteRange
<1> QED
  BY <1>3, <1>4

(* The parts of the commands are calm.                                          *)
LEMMA CalmParts ==
    /\ parse_research_ledgers \in Seq(CalmSteps)
    /\ RestoreFiles \in Seq(CalmSteps)
    /\ RestoreLedgers \in Seq(CalmSteps)
<1>0. \A a, b \in Seq(CalmSteps) : a \o b \in Seq(CalmSteps)
  BY ConcatProperties
<1>1. parse_research_ledgers \in Seq(CalmSteps)
  <2>1. KindOrder \in Seq(Kinds)
    BY DEF KindOrder, Kinds
  <2>2. \A k \in Kinds : << "parse", k >> \in CalmSteps
    BY CalmOnes
  <2> QED
    BY <2>1, <2>2, OneEach DEF parse_research_ledgers
<1>2. RestoreLedgers \in Seq(CalmSteps)
  <2>1. << "restore ledgers" >> \in CalmSteps
    BY CalmOnes
  <2>2. \A x \in CalmSteps : << x >> \in Seq(CalmSteps)
    OBVIOUS
  <2>3. << << "restore ledgers" >> >> \in Seq(CalmSteps)
    BY <2>1, <2>2, Zenon
  <2> QED
    BY <1>0, <1>1, <2>3 DEF RestoreLedgers
<1>3. RestoreFiles \in Seq(CalmSteps)
  <2> DEFINE a == << << "unlink" >>, << "initialize schema" >>, << "restore events" >> >>
             b == [i \in DOMAIN Runs |-> << "restore run", Runs[i] >>]
             hypotheses == SetToSeq(Hypotheses)
             c == [i \in DOMAIN hypotheses |-> << "restore hypothesis", hypotheses[i] >>]
  <2>1. << "unlink" >> \in CalmSteps /\ << "initialize schema" >> \in CalmSteps
        /\ << "restore events" >> \in CalmSteps
    BY CalmOnes
  <2>2. \A x, y, z \in CalmSteps : << x, y, z >> \in Seq(CalmSteps)
    OBVIOUS
  <2>3. a \in Seq(CalmSteps)
    BY <2>1, <2>2, Zenon
  <2>4. b \in Seq(CalmSteps)
    <3>1. \A r \in Range(Runs) : << "restore run", r >> \in CalmSteps
      BY CalmOnes
    <3>2. Runs \in Seq(Range(Runs))
      BY WorkspaceNames
    <3> QED
      BY <3>1, <3>2, OneEach
  <2>5. c \in Seq(CalmSteps)
    <3>1. \A h \in Hypotheses : << "restore hypothesis", h >> \in CalmSteps
      BY CalmOnes
    <3>2. hypotheses \in Seq(Hypotheses)
      BY HypothesesFinite, SetToSeqTyped
    <3> HIDE DEF hypotheses
    <3> QED
      BY <3>1, <3>2, OneEach
  <2>6. RestoreFiles = (a \o b) \o c
    BY Zenon DEF RestoreFiles
  <2> HIDE DEF a, b, c
  <2> QED
    BY <1>0, <2>3, <2>4, <2>5, <2>6
<1> QED
  BY <1>1, <1>2, <1>3

(* Every command but init finds the project and goes on with calm steps.        *)
LEMMA CommandsFound ==
    ASSUME NEW c \in Commands
    PROVE  \/ \E n \in Names : c.name = "init" /\ c.steps = init(n)
           \/ c.steps \in Found
<1>0. \A a \in Found : \A b \in Seq(CalmSteps) : a \o b \in Found
  BY FoundConcat
<1>1. discover_or_create \in Found /\ discover \in Found
  BY FoundDiscover
<1>2. validate_ledgers \in Found
  <2>1. << << "index ledgers" >> >> \in Seq(CalmSteps)
    <3>1. << "index ledgers" >> \in CalmSteps
      BY CalmOnes
    <3>2. \A x \in CalmSteps : << x >> \in Seq(CalmSteps)
      OBVIOUS
    <3> QED
      BY <3>1, <3>2, Zenon
  <2>2. discover_or_create \o ensure_research_scaffold \in Found
    BY <1>0, <1>1, CalmScaffold
  <2>3. (discover_or_create \o ensure_research_scaffold) \o parse_research_ledgers \in Found
    BY <1>0, <2>2, CalmParts
  <2> QED
    BY <1>0, <2>1, <2>3 DEF validate_ledgers
<1>3. ASSUME NEW r \in Reviewed PROVE propose_run_ledger_row(r) \in Found
  <2> DEFINE x == run_proposal(Manifest[r], Report[r])
  <2>1. x \in Proposals("runs")
    BY DEF Proposals
  <2> HIDE DEF x
  <2>2. "runs" \in Proposable /\ \A k \in Kinds : Proposal("runs") # Ledger(k)
    BY PathsDiffer DEF Proposable
  <2>3. << Proposal("runs"), x >> \in Contents
    <3>1. << Proposal("runs"), x >> \in {Proposal("runs")} \X Proposals("runs")
      BY <2>1
    <3>2. << Proposal("runs"), x >> \in ProposalContents
      BY <2>2, <3>1, Zenon DEF ProposalContents
    <3> QED
      BY <3>2 DEF Contents
  <2>4. Proposal("runs") \notin OwnedPaths
    BY <2>2, PathsDiffer DEF OwnedPaths
  <2>5. write_text(Proposal("runs"), x) \in Seq(CalmSteps)
    BY <2>3, <2>4, CalmWrites
  <2> QED
    BY <1>0, <1>1, <2>5 DEF propose_run_ledger_row, x
<1>4. ASSUME NEW card \in Cards PROVE propose_claim_update(card) \in Found
  <2> DEFINE x == claim_proposal(card)
  <2>1. x \in Proposals("claims")
    BY DEF Proposals
  <2> HIDE DEF x
  <2>2. "claims" \in Proposable /\ \A k \in Kinds : Proposal("claims") # Ledger(k)
    BY PathsDiffer DEF Proposable
  <2>3. << Proposal("claims"), x >> \in Contents
    <3>1. << Proposal("claims"), x >> \in {Proposal("claims")} \X Proposals("claims")
      BY <2>1
    <3>2. << Proposal("claims"), x >> \in ProposalContents
      BY <2>2, <3>1, Zenon DEF ProposalContents
    <3> QED
      BY <3>2 DEF Contents
  <2>4. Proposal("claims") \notin OwnedPaths
    BY <2>2, PathsDiffer DEF OwnedPaths
  <2>5. write_text(Proposal("claims"), x) \in Seq(CalmSteps)
    BY <2>3, <2>4, CalmWrites
  <2> QED
    BY <1>0, <1>1, <2>5 DEF propose_claim_update, x
<1>5. ASSUME NEW r \in Range(Runs) PROVE explain(r) \in Found
  <2> DEFINE h == Manifest[r].hypothesis
             last == << "insert", "alternative_explanations", Row(h, r) >>
  <2>1. r \in Explainable /\ h \in Explainable
    BY DEF Explainable, Hypotheses
  <2>2. last \in CalmSteps
    BY CalmOnes, Zenon
  <2>3. explain(r) = ((discover_or_create \o write_text(Explained(r), r))
                       \o write_text(Explained(h), r)) \o << last >>
    BY Zenon DEF explain
  <2> HIDE DEF h, last
  <2>4. ASSUME NEW x \in Explainable PROVE write_text(Explained(x), r) \in Seq(CalmSteps)
    <3>1. << Explained(x), r >> \in Contents
      BY DEF Contents, ExplainedContents
    <3>2. Explained(x) \notin OwnedPaths
      BY PathsDiffer DEF OwnedPaths
    <3> QED
      BY <3>1, <3>2, CalmWrites
  <2>5. << last >> \in Seq(CalmSteps)
    BY <2>2
  <2>6. discover_or_create \o write_text(Explained(r), r) \in Found
    BY <1>0, <1>1, <2>1, <2>4
  <2>7. (discover_or_create \o write_text(Explained(r), r)) \o write_text(Explained(h), r) \in Found
    BY <1>0, <2>1, <2>4, <2>6
  <2> QED
    BY <1>0, <2>3, <2>5, <2>7
<1>6. rebuild_index \in Found
  <2>1. discover \o RestoreFiles \in Found
    BY <1>0, <1>1, CalmParts
  <2>2. (discover \o RestoreFiles) \o RestoreLedgers \in Found
    BY <1>0, <2>1, CalmParts
  <2> QED
    BY <2>2 DEF rebuild_index
<1> QED
  BY <1>2, <1>3, <1>4, <1>5, <1>6 DEF Commands

-----------------------------------------------------------------------------
(* The order of steps: project.toml is written before it is read, and the       *)
(* ledgers after the events are; the name of the project is found before it is  *)
(* used.  toml and named tell what has been done already.                       *)
ReadsToml == {<< "read project" >>, << "read events" >>}
Ordered(L, toml, named) ==
    /\ Precedes(L, ReadsToml, On(Toml), toml)
    /\ \A k \in Kinds : Follows(L, ReadsEvents, On(Ledger(k)))
    /\ Precedes(L, NamesProject, FindsProject, named)

(* Steps in order, after others that do what these rely on.                    *)
LEMMA OrderedConcat ==
    ASSUME NEW S, NEW K \in Seq(S), NEW L \in Seq(S),
           NEW toml, NEW named,
           NEW toml2, NEW named2,
           Ordered(K, toml, named), Ordered(L, toml2, named2),
           toml2 => toml \/ Has(K, On(Toml)),
           named2 => named \/ Has(K, FindsProject)
    PROVE  Ordered(K \o L, toml, named)
<1>1. Precedes(K \o L, ReadsToml, On(Toml), toml)
  <2>1. Precedes(K, ReadsToml, On(Toml), toml) /\ Precedes(L, ReadsToml, On(Toml), toml2)
    BY DEF Ordered
  <2> QED
    BY <2>1, ConcatPrecedes
<1>2. ASSUME NEW k \in Kinds PROVE Follows(K \o L, ReadsEvents, On(Ledger(k)))
  <2>1. Follows(K, ReadsEvents, On(Ledger(k))) /\ Follows(L, ReadsEvents, On(Ledger(k)))
    BY DEF Ordered
  <2> QED
    BY <2>1, ConcatFollows
<1>3. Precedes(K \o L, NamesProject, FindsProject, named)
  <2>1. /\ Precedes(K, NamesProject, FindsProject, named)
        /\ Precedes(L, NamesProject, FindsProject, named2)
    BY DEF Ordered
  <2> QED
    BY <2>1, ConcatPrecedes
<1> QED
  BY <1>1, <1>2, <1>3 DEF Ordered

(* Steps are in order when those before them are done.                         *)
LEMMA OrderedFrom ==
    ASSUME NEW S, NEW L \in Seq(S), NEW n \in 1 .. Len(L) + 1,
           NEW toml, NEW named,
           NEW toml2, NEW named2,
           Ordered(L, toml, named), toml => toml2, named => named2,
           \A j \in 1 .. Len(L) : j < n /\ L[j] \in On(Toml) => toml2,
           \A j \in 1 .. Len(L) : j < n /\ L[j] \in FindsProject => named2
    PROVE  Ordered(From(L, n), toml2, named2)
<1>1. Precedes(From(L, n), ReadsToml, On(Toml), toml2)
  <2>1. Precedes(L, ReadsToml, On(Toml), toml)
    BY DEF Ordered
  <2> QED
    BY <2>1, FromPrecedes
<1>2. ASSUME NEW k \in Kinds PROVE Follows(From(L, n), ReadsEvents, On(Ledger(k)))
  <2>1. Follows(L, ReadsEvents, On(Ledger(k)))
    BY DEF Ordered
  <2> QED
    BY <2>1, FromFollows
<1>3. Precedes(From(L, n), NamesProject, FindsProject, named2)
  <2>1. Precedes(L, NamesProject, FindsProject, named)
    BY DEF Ordered
  <2> QED
    BY <2>1, FromPrecedes
<1> QED
  BY <1>1, <1>2, <1>3 DEF Ordered

(* Steps that neither read nor name the project come in any order.              *)
LEMMA FreeOrdered ==
    ASSUME NEW S, NEW L \in Seq(S), NEW toml, NEW named,
           toml \/ S \cap ReadsToml = {}, S \cap ReadsEvents = {},
           named \/ S \cap NamesProject = {}
    PROVE  Ordered(L, toml, named)
<1>1. \A i \in 1 .. Len(L) : L[i] \in S
  OBVIOUS
<1>2. Precedes(L, ReadsToml, On(Toml), toml)
  BY <1>1 DEF Precedes
<1>3. \A k \in Kinds : Follows(L, ReadsEvents, On(Ledger(k)))
  BY <1>1 DEF Follows
<1>4. Precedes(L, NamesProject, FindsProject, named)
  BY <1>1 DEF Precedes
<1> QED
  BY <1>2, <1>3, <1>4 DEF Ordered

(* A command that finds its project is in order.                                *)
LEMMA FoundOrdered ==
    ASSUME NEW L \in Found
    PROVE  /\ L \in Seq(OtherSteps) /\ ~ Has(L, {Return1}) /\ ~ Has(L, Loud)
           /\ Ordered(L, FALSE, FALSE)
<1>1. L \in Seq(CalmSteps) /\ L # << >> /\ L[1] \in With1("discover", Hows)
  BY DEF Found
<1>2. CalmSteps \subseteq OtherSteps /\ Return1 \notin CalmSteps /\ CalmSteps \cap Loud = {}
      /\ CalmSteps \cap ReadsEvents = {} /\ CalmSteps \cap ReadsToml = {}
  BY DEF CalmSteps, ReadsEvents, ReadsToml
<1>3. \A i \in 1 .. Len(L) : L[i] \in CalmSteps
  BY <1>1
<1>4. L \in Seq(OtherSteps)
  BY <1>1, <1>2
<1>5. ~ Has(L, {Return1}) /\ ~ Has(L, Loud)
  BY <1>2, <1>3 DEF Has
<1>6. Ordered(L, FALSE, TRUE)
  BY <1>1, <1>2, FreeOrdered
<1>7. 1 \in 1 .. Len(L) /\ L[1] \in FindsProject /\ L[1] \notin NamesProject
  <2>1. 1 \in 1 .. Len(L)
    BY <1>1
  <2>2. L[1][1] = "discover"
    BY <1>1 DEF With1
  <2>3. ASSUME NEW x \in NamesProject PROVE x[1] # "discover"
    <3>1. PICK op \in {"insert project", "read events", "append event", "insert event",
                       "initialize schema"} : x = << op >>
      BY DEF NamesProject
    <3>2. x[1] = op
      BY <3>1
    <3> QED
      BY <3>1, <3>2
  <2> QED
    BY <1>1, <2>1, <2>2, <2>3 DEF FindsProject
<1>8. Precedes(L, NamesProject, FindsProject, FALSE)
  <2> SUFFICES ASSUME NEW i \in 1 .. Len(L), L[i] \in NamesProject
               PROVE  \E j \in 1 .. Len(L) : j < i /\ L[j] \in FindsProject
    BY DEF Precedes
  <2>1. i # 1
    BY <1>7
  <2> QED
    BY <1>7, <2>1
<1> QED
  BY <1>4, <1>5, <1>6, <1>8 DEF Ordered

(* A step to read or write a file is one on it.                                 *)
LEMMA OnFile ==
    /\ \A path, c : << path, c >> \in Contents =>
         /\ << "if missing", path, c >> \in On(path) \cap OtherSteps
         /\ << "write", path, c >> \in On(path) \cap OtherSteps
         /\ << "open", path >> \in On(path) \cap OtherSteps
<1> SUFFICES ASSUME NEW path, NEW c, << path, c >> \in Contents
             PROVE  /\ << "if missing", path, c >> \in On(path) \cap OtherSteps
                    /\ << "write", path, c >> \in On(path) \cap OtherSteps
                    /\ << "open", path >> \in On(path) \cap OtherSteps
  OBVIOUS
<1>1. ASSUME NEW op \in {"write", "if missing"}
      PROVE  << op, path, c >> \in On(path) \cap OtherSteps
  <2> DEFINE at == << path, c >>
             s == << op, path, c >>
  <2>1. at \in Contents /\ << op, at[1], at[2] >> = s
    OBVIOUS
  <2>2. s[1] = op /\ s[2] = path
    OBVIOUS
  <2> HIDE DEF at, s
  <2>3. s \in Writes
    BY <2>1, Zenon DEF Writes
  <2>4. s \in OtherSteps
    BY <2>3 DEF OtherSteps
  <2>5. s \in On(path)
    BY <2>2, <2>4 DEF On, AnyStep, Steps, FileOps
  <2> QED
    BY <2>4, <2>5 DEF s
<1>2. << "open", path >> \in On(path) \cap OtherSteps
  <2> DEFINE s == << "open", path >>
  <2>1. path \in Paths
    BY ContentFits
  <2>2. s \in With1("open", Paths)
    BY <2>1 DEF With1
  <2>3. s[1] = "open" /\ s[2] = path
    OBVIOUS
  <2> HIDE DEF s
  <2>4. s \in OtherSteps
    BY <2>2 DEF OtherSteps
  <2>5. s \in On(path)
    BY <2>3, <2>4 DEF On, AnyStep, Steps, FileOps
  <2> QED
    BY <2>4, <2>5 DEF s
<1> QED
  BY <1>1, <1>2

(* init looks for project.toml, reads it, and then looks for the ledgers.       *)
LEMMA InitOrdered ==
    ASSUME NEW name \in Names
    PROVE  /\ init(name) \in Seq(OtherSteps) /\ ~ Has(init(name), {Return1})
           /\ ~ Has(init(name), Loud) /\ Ordered(init(name), FALSE, FALSE)
           /\ Has(init(name), FindsProject)
<1> DEFINE a == << "if missing", Toml, name >>
           K == << a >>
           rp == << "read project" >>
           ip == << "insert project" >>
           re == << "read events" >>
           M == << rp, ip, re >>
           L == ensure_research_scaffold
<1>1. a \in On(Toml) \cap OtherSteps
  <2>1. << Toml, name >> \in Contents
    BY DEF Contents, TomlContents
  <2> QED
    BY <2>1, OnFile
<1>2. rp \in OtherSteps /\ ip \in OtherSteps /\ re \in OtherSteps
  <2>1. \A op \in PlainOps : << op >> \in OtherSteps
    BY DEF OtherSteps, PlainSteps
  <2> QED
    BY <2>1 DEF PlainOps
<1>3. /\ a[1] = "if missing" /\ a # Return1 /\ a \notin ReadsToml /\ a \notin NamesProject
      /\ a \notin Loud /\ a \notin ReadsEvents
  <2>1. \A t, op : t = << op >> => t[1] = op
    <3>1. \A op : << op >>[1] = op
      OBVIOUS
    <3> QED
      BY <3>1, Zenon
  <2>2. a[1] = "if missing"
    OBVIOUS
  <2> HIDE DEF a
  <2>3. \A op : op # "if missing" => a # << op >>
    BY <2>1, <2>2, Zenon
  <2>4. /\ a # << "return" >> /\ a # << "read project" >> /\ a # << "read events" >>
        /\ a # << "append event" >>
    BY <2>3
  <2>5. a \notin NamesProject
    BY <2>3 DEF NamesProject
  <2>6. a \notin Loud
    BY <2>2, <2>4 DEF Loud, AppendsEvent
  <2> QED
    BY <2>2, <2>4, <2>5, <2>6 DEF Return1, ReadsToml, ReadsEvents
<1> HIDE DEF a
<1>4. /\ K \in Seq(OtherSteps) /\ Ordered(K, FALSE, FALSE)
      /\ Has(K, On(Toml)) /\ ~ Has(K, {Return1}) /\ ~ Has(K, Loud)
  <2>1. K \in Seq({a}) /\ Len(K) = 1 /\ K[1] = a
    OBVIOUS
  <2> HIDE DEF K
  <2>0. {a} \cap ReadsToml = {} /\ {a} \cap ReadsEvents = {} /\ {a} \cap NamesProject = {}
    BY <1>3
  <2>2. Ordered(K, FALSE, FALSE)
    BY <2>0, <2>1, FreeOrdered
  <2>3. /\ 1 \in 1 .. Len(K) /\ K[1] \in On(Toml)
        /\ \A i \in 1 .. Len(K) : K[i] = a
    BY <1>1, <2>1
  <2>4. Has(K, On(Toml))
    BY <2>3 DEF Has
  <2>5. ~ Has(K, {Return1}) /\ ~ Has(K, Loud)
    BY <1>3, <2>3 DEF Has
  <2>6. \A S, T : S \subseteq T => Seq(S) \subseteq Seq(T)
    OBVIOUS
  <2>7. K \in Seq(OtherSteps)
    BY <1>1, <2>1, <2>6
  <2> QED
    BY <2>2, <2>4, <2>5, <2>7
<1>5. /\ rp # Return1 /\ ip # Return1 /\ re # Return1
      /\ rp \notin Loud /\ ip \notin Loud /\ re \notin Loud
      /\ rp \notin ReadsEvents /\ ip \notin ReadsEvents /\ rp \notin NamesProject
      /\ rp \in FindsProject
  <2>1. rp[1] = "read project" /\ ip[1] = "insert project" /\ re[1] = "read events"
    OBVIOUS
  <2>2. /\ rp # Return1 /\ ip # Return1 /\ re # Return1
        /\ rp \notin AppendsEvent /\ ip \notin AppendsEvent /\ re \notin AppendsEvent
        /\ rp \notin ReadsEvents /\ ip \notin ReadsEvents /\ rp \notin NamesProject
        /\ rp \in FindsProject
    BY DEF Return1, AppendsEvent, ReadsEvents, NamesProject, FindsProject
  <2> HIDE DEF rp, ip, re
  <2> QED
    BY <2>1, <2>2 DEF Loud
<1> HIDE DEF rp, ip, re
<1>6. M \in Seq(OtherSteps) /\ Len(M) = 3 /\ M[1] = rp /\ M[2] = ip /\ M[3] = re
  BY <1>2
<1> HIDE DEF M
<1>7. ~ Has(M, {Return1}) /\ ~ Has(M, Loud) /\ Precedes(M, ReadsToml, On(Toml), TRUE)
  <2>1. \A i \in 1 .. Len(M) : i = 1 \/ i = 2 \/ i = 3
    BY <1>6
  <2> QED
    BY <1>5, <1>6, <2>1 DEF Has, Precedes
<1>8. Precedes(M, NamesProject, FindsProject, FALSE)
  <2> SUFFICES ASSUME NEW i \in 1 .. Len(M), M[i] \in NamesProject
               PROVE  \E j \in 1 .. Len(M) : j < i /\ M[j] \in FindsProject
    BY DEF Precedes
  <2>1. i # 1
    BY <1>5, <1>6
  <2>2. 1 \in 1 .. Len(M) /\ 1 < i /\ M[1] \in FindsProject
    BY <1>5, <1>6, <2>1
  <2> QED
    BY <2>2
<1>9. L \in Seq(CalmSteps) /\ \A k \in Kinds : Has(L, On(Ledger(k)))
  <2>1. L \in Seq(CalmSteps) /\ Len(L) = 4
    BY CalmScaffold
  <2>2. ASSUME NEW k \in Kinds PROVE Has(L, On(Ledger(k)))
    <3>1. PICK i \in 1 .. 4 : L[i][1] = "if missing" /\ L[i][2] = Ledger(k)
      BY CalmScaffold
    <3>2. L[i] \in OtherSteps
      <4>1. L[i] \in CalmSteps
        <5>1. \A S : \A Q \in Seq(S) : \A j \in 1 .. Len(Q) : Q[j] \in S
          OBVIOUS
        <5>2. i \in 1 .. Len(L)
          BY <2>1, Zenon
        <5> QED
          BY <2>1, <5>1, <5>2, Zenon
      <4> QED
        BY <4>1 DEF CalmSteps
    <3>3. L[i] \in On(Ledger(k))
      BY <3>1, <3>2 DEF On, AnyStep, Steps, FileOps
    <3> QED
      BY <2>1, <3>3 DEF Has
  <2> QED
    BY <2>1, <2>2
<1> HIDE DEF L
<1>10. /\ L \in Seq(OtherSteps) /\ ~ Has(L, {Return1}) /\ ~ Has(L, Loud)
       /\ Ordered(L, FALSE, TRUE)
  <2>1. CalmSteps \subseteq OtherSteps /\ Return1 \notin CalmSteps
        /\ CalmSteps \cap Loud = {}
        /\ CalmSteps \cap ReadsEvents = {} /\ CalmSteps \cap ReadsToml = {}
    BY DEF CalmSteps, ReadsEvents, ReadsToml
  <2>2. \A i \in 1 .. Len(L) : L[i] \in CalmSteps
    BY <1>9
  <2>3. ~ Has(L, {Return1}) /\ ~ Has(L, Loud)
    BY <2>1, <2>2 DEF Has
  <2>4. Ordered(L, FALSE, TRUE)
    BY <1>9, <2>1, FreeOrdered
  <2>5. \A S, T : S \subseteq T => Seq(S) \subseteq Seq(T)
    OBVIOUS
  <2>6. L \in Seq(OtherSteps)
    BY <1>9, <2>1, <2>5
  <2> QED
    BY <2>3, <2>4, <2>6
<1>11. /\ M \o L \in Seq(OtherSteps) /\ ~ Has(M \o L, {Return1}) /\ ~ Has(M \o L, Loud)
       /\ Ordered(M \o L, TRUE, FALSE) /\ Has(M \o L, FindsProject)
  <2>1. M \o L \in Seq(OtherSteps)
    BY <1>6, <1>10
  <2>2. ~ Has(M \o L, {Return1}) /\ ~ Has(M \o L, Loud)
    BY <1>6, <1>7, <1>10, ConcatHas
  <2>3. Precedes(M \o L, ReadsToml, On(Toml), TRUE)
    BY DEF Precedes
  <2>4. ASSUME NEW k \in Kinds PROVE Follows(M \o L, ReadsEvents, On(Ledger(k)))
    <3>1. Follows(L, ReadsEvents, On(Ledger(k))) /\ Has(L, On(Ledger(k)))
      BY <1>9, <1>10 DEF Ordered
    <3> QED
      BY <1>6, <1>10, <3>1, ConcatFollows
  <2>5. Precedes(M \o L, NamesProject, FindsProject, FALSE)
    <3>1. Precedes(L, NamesProject, FindsProject, TRUE)
      BY <1>10 DEF Ordered
    <3>2. Has(M, FindsProject)
      BY <1>5, <1>6 DEF Has
    <3> QED
      BY <1>6, <1>8, <1>10, <3>1, <3>2, ConcatPrecedes
  <2>6. Has(M \o L, FindsProject)
    <3>1. Has(M, FindsProject)
      BY <1>5, <1>6 DEF Has
    <3> QED
      BY <1>6, <1>10, <3>1, ConcatHas
  <2> QED
    BY <2>1, <2>2, <2>3, <2>4, <2>5, <2>6 DEF Ordered
<1>12. init(name) = (K \o M) \o L /\ (K \o M) \o L = K \o (M \o L)
  <2>1. init(name) = (K \o M) \o L
    BY DEF init, if_missing, a, rp, ip, re, M, L
  <2>2. \A x, y, z \in Seq(OtherSteps) : (x \o y) \o z = x \o (y \o z)
    BY ConcatAssociative
  <2> HIDE DEF K
  <2> QED
    BY <1>4, <1>6, <1>10, <2>1, <2>2
<1> HIDE DEF K
<1> DEFINE R == M \o L
<1>13. R \in Seq(OtherSteps) /\ ~ Has(R, {Return1}) /\ ~ Has(R, Loud)
       /\ Ordered(R, TRUE, FALSE) /\ Has(R, FindsProject) /\ init(name) = K \o R
  BY <1>11, <1>12
<1> HIDE DEF R
<1>14. K \o R \in Seq(OtherSteps)
  BY <1>4, <1>13
<1>15. ~ Has(K \o R, {Return1}) /\ ~ Has(K \o R, Loud) /\ Has(K \o R, FindsProject)
  BY <1>4, <1>13, ConcatHas
<1>16. Ordered(K \o R, FALSE, FALSE)
  BY <1>4, <1>13, OrderedConcat
<1> QED
  BY <1>13, <1>14, <1>15, <1>16

-----------------------------------------------------------------------------
(* The entries of a ledger.                                                     *)

(* What is taken from a sequence is in it.                                      *)
LEMMA AmongTyped ==
    ASSUME NEW S, NEW seq \in Seq(S), NEW chosen
    PROVE  Among(seq, chosen) \in Seq(S)
<1> DEFINE parts == [i \in DOMAIN seq |-> IF seq[i] \in chosen THEN << seq[i] >> ELSE << >>]
<1>1. parts \in Seq(Seq(S))
  <2>1. DOMAIN seq = 1 .. Len(seq) /\ Len(seq) \in Nat /\ \A i \in 1 .. Len(seq) : seq[i] \in S
    OBVIOUS
  <2>2. \A x \in S : << x >> \in Seq(S)
    OBVIOUS
  <2>3. << >> \in Seq(S)
    OBVIOUS
  <2>4. \A i \in 1 .. Len(seq) :
          (IF seq[i] \in chosen THEN << seq[i] >> ELSE << >>) \in Seq(S)
    BY <2>1, <2>2, <2>3, Zenon
  <2>5. parts \in [1 .. Len(seq) -> Seq(S)]
    BY <2>1, <2>4, Zenon
  <2>6. \A n \in Nat : \A T : \A h \in [1 .. n -> T] : h \in Seq(T)
    OBVIOUS
  <2> QED
    BY <2>1, <2>5, <2>6, Zenon
<1> HIDE DEF parts
<1>2. FlattenSeq(parts) \in Seq(S)
  BY <1>1, SeqClosed, FlattenClosed
<1> QED
  BY <1>2 DEF Among, parts

(* A row for each of some sections.                                             *)
LEMMA EntriesRows ==
    ASSUME NEW kind \in Kinds, NEW S, NEW text \in Seq(S)
    PROVE  Entries(kind, text) \in Seq({ RowOf(kind, section) : section \in S })
<1> DEFINE R == { RowOf(kind, section) : section \in S }
<1>0. \A n \in Nat : \A h \in [1 .. n -> R] : h \in Seq(R)
  OBVIOUS
<1>1. \A s \in S : RowOf(kind, s) \in R
  OBVIOUS
<1> HIDE DEF R
<1>2. CASE text \in {NoFile, Blank}
  <2>1. Entries(kind, text) = << >>
    BY <1>2 DEF Entries
  <2> QED
    BY <2>1 DEF R
<1>3. CASE text \notin {NoFile, Blank} /\ kind = "runs"
  <2> DEFINE named == named_rows(text)
             rows == [i \in DOMAIN named |-> LedgerRow(kind, named[i].run_id, named[i])]
  <2>1. Entries(kind, text) = rows
    BY <1>3, Zenon DEF Entries
  <2>2. named \in Seq(S)
    BY AmongTyped, Zenon DEF named_rows
  <2> HIDE DEF named
  <2>3. DOMAIN named = 1 .. Len(named) /\ Len(named) \in Nat
        /\ \A i \in 1 .. Len(named) : named[i] \in S
    BY <2>2
  <2>4. \A i \in 1 .. Len(named) : LedgerRow(kind, named[i].run_id, named[i]) \in R
    <3>1. \A s : RowOf(kind, s) = LedgerRow(kind, s.run_id, s)
      BY <1>3, Zenon DEF RowOf
    <3> QED
      BY <1>1, <2>3, <3>1, Zenon
  <2>5. rows \in [1 .. Len(named) -> R]
    BY <2>3, <2>4, Zenon
  <2> QED
    BY <1>0, <2>1, <2>3, <2>5, Zenon DEF R
<1>4. CASE text \notin {NoFile, Blank} /\ kind # "runs"
  <2> DEFINE entries == markdown_entries(kind, text)
             rows == [i \in DOMAIN entries |->
                        LedgerRow(kind, EntryId(kind, entries[i]), entries[i].payload)]
  <2>1. Entries(kind, text) = rows
    BY <1>4, Zenon DEF Entries
  <2>2. entries \in Seq(S)
    BY AmongTyped, Zenon DEF markdown_entries
  <2> HIDE DEF entries
  <2>3. DOMAIN entries = 1 .. Len(entries) /\ Len(entries) \in Nat
        /\ \A i \in 1 .. Len(entries) : entries[i] \in S
    BY <2>2
  <2>4. \A i \in 1 .. Len(entries) :
          LedgerRow(kind, EntryId(kind, entries[i]), entries[i].payload) \in R
    <3>1. \A s : RowOf(kind, s) = LedgerRow(kind, EntryId(kind, s), s.payload)
      BY <1>4, Zenon DEF RowOf
    <3> QED
      BY <1>1, <2>3, <3>1, Zenon
  <2>5. rows \in [1 .. Len(entries) -> R]
    BY <2>3, <2>4, Zenon
  <2> QED
    BY <1>0, <2>1, <2>3, <2>5, Zenon DEF R
<1> QED
  BY <1>2, <1>3, <1>4

(* The entries of a ledger are rows of its table; an empty one has none.       *)
LEMMA EntriesTyped ==
    ASSUME NEW kind \in Kinds, NEW text \in Seq(Sections(kind)) \cup {NoFile, Blank}
    PROVE  /\ Entries(kind, text) \in Seq(AllRows[kind])
           /\ text \in {NoFile, Blank} => Entries(kind, text) = << >>
           /\ Entries(kind, << >>) = << >>
<1>1. AllRows[kind] = { RowOf(kind, section) : section \in Sections(kind) }
  BY DEF AllRows
<1>2. text \in {NoFile, Blank} => Entries(kind, text) = << >>
  BY DEF Entries
<1>3. text \in Seq(Sections(kind)) => Entries(kind, text) \in Seq(AllRows[kind])
  BY <1>1, EntriesRows
<1>4. << >> \in Seq(AllRows[kind])
  OBVIOUS
<1>5. Entries(kind, << >>) = << >>
  <2>1. << >> \in Seq({})
    OBVIOUS
  <2>2. Entries(kind, << >>) \in Seq({ RowOf(kind, section) : section \in {} })
    BY <2>1, EntriesRows, Zenon
  <2>3. { RowOf(kind, section) : section \in {} } = {}
    OBVIOUS
  <2>4. \A L \in Seq({}) : L = << >>
    <3> SUFFICES ASSUME NEW L \in Seq({}) PROVE L = << >>
      OBVIOUS
    <3>1. Len(L) = 0
      <4>1. \A i \in 1 .. Len(L) : L[i] \in {}
        OBVIOUS
      <4>2. Len(L) \in Nat /\ (Len(L) # 0 => 1 \in 1 .. Len(L))
        OBVIOUS
      <4> QED
        BY <4>1, <4>2
    <3> QED
      BY <3>1, EmptyByLength
  <2> QED
    BY <2>2, <2>3, <2>4, Zenon
<1> QED
  BY <1>2, <1>3, <1>4, <1>5

-----------------------------------------------------------------------------
(* What a job may rely on.                                                      *)

EventBags == UNION { [D -> Nat \ {0}] : D \in SUBSET Names }
Job ==
    [name : {"none", "init", "validate", "propose", "explain", "rebuild"},
     todo : Seq(AnyStep), project : Names \cup {NoFile}, parsed : Seq(Inserts(AllRows)),
     errors : BOOLEAN, seen : SUBSET Hypotheses, created : BOOLEAN, late : BOOLEAN,
     overlapped : BOOLEAN, events : EventBags, explained : SUBSET Hypotheses]

(* What the jobs depend on: which owned files are there, whether events.jsonl   *)
(* has a line, the rows that were valid, and whether an init has returned.      *)
World == [there |-> { path \in OwnedPaths : files[path] # NoFile },
          lines |-> events # << >>, rows |-> valid, done |-> finished]
Later(w, v) ==
    /\ w.there \subseteq v.there /\ (w.lines => v.lines) /\ (w.done => v.done)
    /\ \A k \in Kinds : w.rows[k] \subseteq v.rows[k]

(* Whatever init creates is there, or among the steps to come.                  *)
Creates(L, w) ==
    /\ Toml \in w.there
    /\ w.lines \/ Has(L, AppendsEvent)
    /\ \A k \in Kinds : Ledger(k) \in w.there \/ Has(L, On(Ledger(k)))
JobGood(j, w) ==
    /\ j.todo \in Seq(Steps(w.rows))
    /\ ~ j.errors => j.parsed \in Seq(Inserts(w.rows))
    /\ Ends(j.todo, Return1)
    /\ Ordered(j.todo, Toml \in w.there, j.project \in Names)
    /\ j.created => Creates(j.todo, w)
    /\ j.late => w.done /\ ~ Has(j.todo, Loud)

(* What a job may rely on stays, as more gets done.                             *)
LEMMA JobLater ==
    ASSUME NEW j, NEW w, NEW v, JobGood(j, w), Later(w, v)
    PROVE  JobGood(j, v)
<1>1. /\ Inserts(w.rows) \subseteq Inserts(v.rows)
      /\ Seq(Inserts(w.rows)) \subseteq Seq(Inserts(v.rows))
      /\ Seq(Steps(w.rows)) \subseteq Seq(Steps(v.rows))
  BY StepsGrow DEF Later
<1>2. j.todo \in Seq(Steps(v.rows)) /\ (~ j.errors => j.parsed \in Seq(Inserts(v.rows)))
  BY <1>1, Zenon DEF JobGood
<1>3. Ordered(j.todo, Toml \in v.there, j.project \in Names)
  <2>1. Ordered(j.todo, Toml \in w.there, j.project \in Names)
    BY DEF JobGood
  <2>2. Toml \in w.there => Toml \in v.there
    BY DEF Later
  <2> QED
    BY <2>1, <2>2 DEF Ordered, Precedes
<1>4. j.created => Creates(j.todo, v)
  BY DEF JobGood, Creates, Later
<1>5. Ends(j.todo, Return1) /\ (j.late => v.done /\ ~ Has(j.todo, Loud))
  BY DEF JobGood, Later
<1> QED
  BY <1>2, <1>3, <1>4, <1>5 DEF JobGood

(* A job that goes on: its first n - 1 steps are done, those of K come first.   *)
Goes(j, i, n, K, w, v) ==
    /\ i.todo = K \o From(j.todo, n)
    /\ n \in 1 .. Len(j.todo) + 1
    /\ \A m \in 1 .. Len(j.todo) : m < n => j.todo[m] # Return1
    /\ K \in Seq(Steps(v.rows)) /\ ~ Has(K, {Return1})
    /\ j.todo # << >>
(* ... in order                                                                 *)
GoesInOrder(j, i, n, K, w, v) ==
    /\ j.project \in Names => i.project \in Names
    /\ Ordered(K, Toml \in v.there, i.project \in Names)
    /\ \A m \in 1 .. Len(j.todo) : m < n /\ j.todo[m] \in On(Toml) =>
         Toml \in v.there \/ Has(K, On(Toml))
    /\ \A m \in 1 .. Len(j.todo) : m < n /\ j.todo[m] \in FindsProject =>
         i.project \in Names \/ Has(K, FindsProject)
(* ... and does or still has to do what it creates.                             *)
GoesCreating(j, n, K, w, v) ==
    /\ \A m \in 1 .. Len(j.todo) : m < n /\ j.todo[m] \in AppendsEvent => v.lines
    /\ \A k \in Kinds : \A m \in 1 .. Len(j.todo) : m < n /\ j.todo[m] \in On(Ledger(k)) =>
         Ledger(k) \in v.there \/ Has(K, On(Ledger(k)))

(* A job stays good when it goes on, with some steps first.                    *)
LEMMA GoesGood ==
    ASSUME NEW j, NEW i, NEW n, NEW K, NEW w, NEW v,
           JobGood(j, w), Later(w, v), Goes(j, i, n, K, w, v), GoesInOrder(j, i, n, K, w, v),
           ~ i.errors => i.parsed \in Seq(Inserts(v.rows)),
           i.created => (j.created /\ GoesCreating(j, n, K, w, v)) \/ Creates(i.todo, v),
           i.late => j.late /\ ~ Has(K, Loud)
    PROVE  JobGood(i, v)
<1> DEFINE S == Steps(v.rows)
           L == j.todo
           R == From(j.todo, n)
<1>1. JobGood(j, v)
  BY JobLater
<1>2. L \in Seq(S) /\ K \in Seq(S) /\ n \in 1 .. Len(L) + 1
  BY <1>1 DEF JobGood, Goes
<1>3. R \in Seq(S) /\ Ends(R, Return1)
  <2>1. Ends(L, Return1)
    BY <1>1 DEF JobGood
  <2>2. From(L, n) \in Seq(S)
    BY <1>2, FromIndex
  <2>3. Ends(From(L, n), Return1)
    BY <1>2, <2>1, FromEnds
  <2> QED
    BY <2>2, <2>3
<1>4. R # << >>
  <2>1. L # << >> /\ Ends(L, Return1)
    BY <1>1 DEF JobGood, Goes
  <2>2. Len(L) \in 1 .. Len(L) /\ L[Len(L)] = Return1
    BY <1>2, <2>1 DEF Ends
  <2>3. ~ (Len(L) < n)
    BY <2>2 DEF Goes
  <2>4. Len(R) = Len(L) + 1 - n
    <3>1. Len(From(L, n)) = Len(L) + 1 - n
      BY <1>2, FromIndex
    <3> QED
      BY <3>1
  <2>5. Len(R) # 0
    BY <1>2, <2>3, <2>4
  <2> QED
    BY <2>5
<1>5. i.todo = K \o R /\ ~ Has(K, {Return1})
  BY DEF Goes
<1>6. i.todo \in Seq(S)
  <2>1. K \o R \in Seq(S)
    BY <1>2, <1>3, ConcatIndex
  <2> QED
    BY <1>5, <2>1
<1>7. Ends(i.todo, Return1)
  <2>1. Ends(K \o R, Return1)
    BY <1>2, <1>3, <1>4, <1>5, ConcatEnds
  <2> QED
    BY <1>5, <2>1
<1>8. Ordered(i.todo, Toml \in v.there, i.project \in Names)
  <2> DEFINE toml == Toml \in v.there \/ Has(K, On(Toml))
             named == i.project \in Names \/ Has(K, FindsProject)
  <2>1. Ordered(L, Toml \in v.there, j.project \in Names)
    BY <1>1 DEF JobGood
  <2>2. /\ Toml \in v.there => toml /\ (j.project \in Names => named)
        /\ \A m \in 1 .. Len(L) : m < n /\ L[m] \in On(Toml) => toml
        /\ \A m \in 1 .. Len(L) : m < n /\ L[m] \in FindsProject => named
    BY DEF GoesInOrder
  <2>2a. j.project \in Names => named
    BY DEF GoesInOrder
  <2>4. toml => Toml \in v.there \/ Has(K, On(Toml))
    OBVIOUS
  <2>5. named => i.project \in Names \/ Has(K, FindsProject)
    OBVIOUS
  <2>6. Ordered(K, Toml \in v.there, i.project \in Names)
    BY DEF GoesInOrder
  <2> HIDE DEF toml, named
  <2>7. Ordered(From(L, n), toml, named)
    <3>1. PICK t, m : t = (Toml \in v.there) /\ m = (j.project \in Names)
      OBVIOUS
    <3>2. Ordered(L, t, m)
      BY <2>1, <3>1, Zenon
    <3>3. (t => toml) /\ (m => named)
      BY <2>2, <2>2a, <3>1
    <3> QED
      BY <1>2, <2>2, <3>2, <3>3, OrderedFrom
  <2> HIDE DEF L, R
  <2>8. Ordered(R, toml, named)
    BY <2>7 DEF R, L
  <2>9. Ordered(K \o R, Toml \in v.there, i.project \in Names)
    BY <1>2, <1>3, <2>4, <2>5, <2>6, <2>8, OrderedConcat
  <2> QED
    BY <1>5, <2>9
<1>9. i.created => Creates(i.todo, v)
  <2> SUFFICES ASSUME j.created, GoesCreating(j, n, K, w, v) PROVE Creates(i.todo, v)
    OBVIOUS
  <2>1. Creates(L, v)
    BY <1>1 DEF JobGood
  <2>2. \A B : Has(i.todo, B) <=> Has(K, B) \/ Has(R, B)
    BY <1>2, <1>3, <1>5, ConcatHas
  <2>3. \A B : Has(L, B) /\ (\A m \in 1 .. Len(L) : m < n => L[m] \notin B) => Has(R, B)
    BY <1>2, FromHas
  <2>4. v.lines \/ Has(i.todo, AppendsEvent)
    BY <2>1, <2>2, <2>3 DEF GoesCreating, Creates
  <2>5. ASSUME NEW k \in Kinds, Ledger(k) \notin v.there PROVE Has(i.todo, On(Ledger(k)))
    <3>1. Has(L, On(Ledger(k)))
      BY <2>1, <2>5 DEF Creates
    <3>2. CASE Has(K, On(Ledger(k)))
      BY <2>2, <3>2
    <3>3. CASE ~ Has(K, On(Ledger(k)))
      <4>1. \A m \in 1 .. Len(L) : m < n => L[m] \notin On(Ledger(k))
        BY <2>5, <3>3 DEF GoesCreating
      <4> QED
        BY <2>2, <2>3, <3>1, <4>1
    <3> QED
      BY <3>2, <3>3
  <2> QED
    BY <2>1, <2>4, <2>5 DEF Creates
<1>10. i.late => v.done /\ ~ Has(i.todo, Loud)
  <2> SUFFICES ASSUME i.late PROVE v.done /\ ~ Has(i.todo, Loud)
    OBVIOUS
  <2>1. v.done /\ ~ Has(L, Loud) /\ ~ Has(K, Loud)
    BY <1>1 DEF JobGood
  <2>2. Has(R, Loud) => Has(L, Loud)
    BY <1>2, FromHas
  <2>3. Has(K \o R, Loud) <=> Has(K, Loud) \/ Has(R, Loud)
    BY <1>2, <1>3, ConcatHas
  <2> QED
    BY <1>5, <2>1, <2>2, <2>3
<1> QED
  BY <1>6, <1>7, <1>8, <1>9, <1>10 DEF JobGood

(* The same of one step: h is done, and the steps of K come first.              *)
StepDone(j, i, h, K, v) ==
    /\ j.todo # << >> /\ h = Head(j.todo) /\ h # Return1
    /\ i.todo = K \o Tail(j.todo)
    /\ K \in Seq(Steps(v.rows)) /\ ~ Has(K, {Return1})
    /\ j.project \in Names => i.project \in Names
    /\ Ordered(K, Toml \in v.there, i.project \in Names)
    /\ h \in On(Toml) => Toml \in v.there \/ Has(K, On(Toml))
    /\ h \in FindsProject => i.project \in Names \/ Has(K, FindsProject)
    /\ i.late => j.late /\ ~ Has(K, Loud)
StepCreates(h, K, v) ==
    /\ h \in AppendsEvent => v.lines
    /\ \A k \in Kinds : h \in On(Ledger(k)) => Ledger(k) \in v.there \/ Has(K, On(Ledger(k)))

(* ... when it has done one step.                                              *)
LEMMA ThenGood ==
    ASSUME NEW j, NEW i, NEW h, NEW K, NEW w, NEW v,
           JobGood(j, w), Later(w, v), StepDone(j, i, h, K, v),
           ~ i.errors => i.parsed \in Seq(Inserts(v.rows)),
           i.created => (j.created /\ StepCreates(h, K, v)) \/ Creates(i.todo, v)
    PROVE  JobGood(i, v)
<1> DEFINE L == j.todo
<1>1. L \in Seq(Steps(w.rows)) /\ L # << >> /\ h = Head(L)
  BY DEF JobGood, StepDone
<1>2. /\ 2 \in 1 .. Len(L) + 1 /\ Tail(L) = From(L, 2) /\ h = L[1]
      /\ \A m \in 1 .. Len(L) : m < 2 => m = 1
  <2>1. Len(L) \in Nat /\ Len(L) # 0 /\ Head(L) = L[1]
    BY <1>1
  <2>2. Tail(L) = SubSeq(L, 2, Len(L))
    BY <1>1
  <2> QED
    BY <1>1, <2>1, <2>2 DEF From
<1>3. Goes(j, i, 2, K, w, v)
  BY <1>2 DEF Goes, StepDone
<1>4. GoesInOrder(j, i, 2, K, w, v)
  BY <1>2 DEF GoesInOrder, StepDone
<1>5. StepCreates(h, K, v) => GoesCreating(j, 2, K, w, v)
  BY <1>2 DEF GoesCreating, StepCreates
<1>6. i.late => j.late /\ ~ Has(K, Loud)
  BY DEF StepDone
<1> HIDE DEF L
<1> QED
  BY <1>3, <1>4, <1>5, <1>6, GoesGood

(* Nothing has to come first.                                                   *)
LEMMA NothingFirst ==
    ASSUME NEW S, NEW toml, NEW named
    PROVE  /\ << >> \in Seq(S) /\ Ordered(<< >>, toml, named)
           /\ \A B : ~ Has(<< >>, B)
BY DEF Ordered, Precedes, Follows, Has

(* A step whose file is there afterwards, and whose project is found.           *)
Settled(j, i, h, v) ==
    /\ j.todo # << >> /\ h = Head(j.todo) /\ h # Return1
    /\ i.todo = << >> \o Tail(j.todo)
    /\ j.project \in Names => i.project \in Names
    /\ h \in On(Toml) => Toml \in v.there
    /\ \A k \in Kinds : h \in On(Ledger(k)) => Ledger(k) \in v.there
    /\ h \in FindsProject => i.project \in Names
    /\ h \in AppendsEvent => v.lines
    /\ (i.late => j.late) /\ (i.created => j.created)

(* ... and that is all there is to it.                                         *)
LEMMA DoneGood ==
    ASSUME NEW j, NEW i, NEW h, NEW w, NEW v,
           JobGood(j, w), Later(w, v), Settled(j, i, h, v),
           ~ i.errors => i.parsed \in Seq(Inserts(v.rows))
    PROVE  JobGood(i, v)
<1>1. \A S : << >> \in Seq(S)
  BY NothingFirst
<1>2. \A B : ~ Has(<< >>, B)
  BY NothingFirst
<1>3. Ordered(<< >>, Toml \in v.there, i.project \in Names)
  BY DEF Ordered, Precedes, Follows
<1>4. StepDone(j, i, h, << >>, v)
  BY <1>1, <1>2, <1>3 DEF StepDone, Settled
<1>5. StepCreates(h, << >>, v)
  BY DEF StepCreates, Settled
<1>6. i.created => j.created
  BY DEF Settled
<1> QED
  BY <1>4, <1>5, <1>6, ThenGood

-----------------------------------------------------------------------------
(* The inductive invariant.                                                     *)

(* Each file is missing, empty, or whole and of its kind.                       *)
FilesInv ==
    /\ DOMAIN files = Paths
    /\ files[Toml] \in Names \cup {NoFile, Blank}
    /\ \A k \in Kinds : files[Ledger(k)] \in Seq(Sections(k)) \cup {NoFile, Blank}
    /\ \A k \in Proposable : files[Proposal(k)] \in Proposals(k) \cup {NoFile, Blank}
    /\ \A x \in Explainable : files[Explained(x)] \in Range(Runs) \cup {NoFile, Blank}
(* What is in a ledger without errors is valid; when an init has returned, all  *)
(* it creates is there.                                                         *)
RecordsInv ==
    /\ events \in Seq(Names \cup {Torn})
    /\ DOMAIN valid = Kinds /\ \A k \in Kinds : valid[k] \subseteq AllRows[k]
    /\ \A k \in Kinds : ~ HasErrors(k, files[Ledger(k)]) =>
                          Range(Entries(k, files[Ledger(k)])) \subseteq valid[k]
    /\ finished \in BOOLEAN
    /\ finished => (\A path \in OwnedPaths : files[path] # NoFile) /\ events # << >>
    /\ alone \subseteq Procs /\ fresh \subseteq {"validate", "rebuild"}
(* The tables of a database.                                                    *)
TablesOf(tables) ==
    /\ DOMAIN tables = Tables \cup {"events"}
    /\ tables.projects \subseteq { Row(n, n) : n \in Names }
    /\ tables.events \in EventBags
    /\ RefsOf(tables.alternative_explanations) \subseteq Hypotheses
    /\ \A t \in Tables : \A x, y \in tables[t] : x.ref = y.ref => x = y
IndexInv == TablesOf(index) /\ \A k \in Kinds : index[k] \subseteq valid[k]
RebuiltInv == rebuilt = NoTables \/ TablesOf(rebuilt)
JobsInv == jobs \in [Procs -> Job] /\ \A p \in Procs : JobGood(jobs[p], World)
IInv == FilesInv /\ RecordsInv /\ IndexInv /\ RebuiltInv /\ JobsInv

-----------------------------------------------------------------------------
(* Tables and files.                                                            *)

(* A missing or empty file is no content.                                       *)
LEMMA NoContent ==
    /\ NoFile # Blank /\ NoFile \notin Names /\ Blank \notin Names /\ "mwb-demo" \in Names
    /\ \A k \in Kinds : NoFile \notin Seq(Sections(k)) /\ Blank \notin Seq(Sections(k))
    /\ \A k \in Kinds : << >> # NoFile /\ << >> # Blank /\ << >> \in Seq(Sections(k))
<1>1. \A k \in Kinds : NoFile \notin Seq(Sections(k)) /\ Blank \notin Seq(Sections(k))
  BY WorkspaceTexts
<1>2. \A k \in Kinds : << >> \in Seq(Sections(k))
  <2>1. \A S : << >> \in Seq(S)
    OBVIOUS
  <2> QED
    BY <2>1, Zenon
<1> QED
  BY <1>1, <1>2, WorkspaceNames

(* One more line in a bag of events.                                            *)
LEMMA OneMore ==
    /\ EmptyBag \in EventBags
    /\ \A bag \in EventBags : \A n \in Names : BagAdd(bag, n) \in EventBags
<1>1. EmptyBag \in EventBags
  <2>1. EmptyBag \in [{} -> Nat \ {0}]
    BY DEF EmptyBag, SetToBag
  <2> QED
    BY <2>1 DEF EventBags
<1>2. ASSUME NEW bag \in EventBags, NEW n \in Names PROVE BagAdd(bag, n) \in EventBags
  <2>1. PICK D \in SUBSET Names : bag \in [D -> Nat \ {0}]
    BY DEF EventBags
  <2>2. D \cup {n} \in SUBSET Names
    BY <2>1
  <2>3. BagAdd(bag, n) \in [D \cup {n} -> Nat \ {0}]
    <3>1. CASE n \in D
      <4>1. BagAdd(bag, n) = [e \in D |-> IF e = n THEN bag[e] + 1 ELSE bag[e]]
        BY <2>1, <3>1 DEF BagAdd
      <4>2. D \cup {n} = D /\ \A e \in D : (IF e = n THEN bag[e] + 1 ELSE bag[e]) \in Nat \ {0}
        BY <2>1, <3>1
      <4> QED
        BY <4>1, <4>2
    <3>2. CASE n \notin D
      <4>1. BagAdd(bag, n) = [e \in D \cup {n} |-> IF e = n THEN 1 ELSE bag[e]]
        BY <2>1, <3>2 DEF BagAdd
      <4>2. \A e \in D \cup {n} : (IF e = n THEN 1 ELSE bag[e]) \in Nat \ {0}
        BY <2>1, <3>2
      <4> QED
        BY <4>1, <4>2
    <3> QED
      BY <3>1, <3>2
  <2> QED
    BY <2>2, <2>3 DEF EventBags
<1> QED
  BY <1>1, <1>2

(* The tables.                                                                  *)
LEMMA TableNames ==
    /\ Tables \cup {"events"} = Kinds \cup {"projects", "alternative_explanations", "events"}
    /\ "events" \notin Tables /\ "projects" \in Tables /\ "alternative_explanations" \in Tables
    /\ Kinds \subseteq Tables /\ "runs" \in Kinds
    /\ "events" \notin Kinds /\ "projects" \notin Kinds /\ "alternative_explanations" \notin Kinds
BY DEF Tables, Kinds

(* A new database has its tables, and no rows.                                 *)
LEMMA EmptyGood ==
    /\ TablesOf(EmptyTables) /\ \A t \in Tables : EmptyTables[t] = {}
    /\ EmptyTables.events = EmptyBag
<1>1. /\ DOMAIN EmptyTables = Tables \cup {"events"}
      /\ \A t \in Tables : EmptyTables[t] = {}
      /\ EmptyTables.events = EmptyBag
  BY TableNames DEF EmptyTables
<1>2. EmptyTables.events \in EventBags
  BY <1>1, OneMore
<1> QED
  BY <1>1, <1>2, TableNames DEF TablesOf, RefsOf

(* The row of a project.                                                        *)
LEMMA ProjectInserted ==
    ASSUME NEW tables, TablesOf(tables), NEW n \in Names
    PROVE  /\ TablesOf([tables EXCEPT !.projects = @ \cup {Row(n, n)}])
           /\ \A k \in Kinds : [tables EXCEPT !.projects = @ \cup {Row(n, n)}][k] = tables[k]
<1> DEFINE new == [tables EXCEPT !.projects = @ \cup {Row(n, n)}]
<1>1. /\ DOMAIN tables = Tables \cup {"events"}
      /\ tables.projects \subseteq { Row(m, m) : m \in Names }
      /\ tables.events \in EventBags
      /\ RefsOf(tables.alternative_explanations) \subseteq Hypotheses
      /\ \A t \in Tables : \A x, y \in tables[t] : x.ref = y.ref => x = y
  BY DEF TablesOf
<1>2. /\ DOMAIN new = Tables \cup {"events"}
      /\ new.projects = tables.projects \cup {Row(n, n)}
      /\ new.events = tables.events
      /\ new.alternative_explanations = tables.alternative_explanations
      /\ \A t \in Tables : t # "projects" => new[t] = tables[t]
  BY <1>1, TableNames
<1>2a. \A k \in Kinds : k # "projects" /\ k \in Tables
  BY TableNames
<1> HIDE DEF new
<1>3. new.projects \subseteq { Row(m, m) : m \in Names }
  BY <1>1, <1>2
<1>4. \A x, y \in new.projects : x.ref = y.ref => x = y
  <2>1. \A x \in new.projects : \E m \in Names : x = Row(m, m)
    BY <1>3
  <2>2. \A m : Row(m, m).ref = m
    BY DEF Row
  <2> QED
    BY <2>1, <2>2
<1>5. \A t \in Tables : \A x, y \in new[t] : x.ref = y.ref => x = y
  BY <1>1, <1>2, <1>4
<1>6. \A k \in Kinds : new[k] = tables[k]
  BY <1>2, <1>2a
<1>7. TablesOf(new)
  BY <1>1, <1>2, <1>3, <1>5 DEF TablesOf
<1> QED
  BY <1>6, <1>7 DEF new

(* A row of a ledger, a run or an explanation.                                  *)
LEMMA PayloadInserted ==
    ASSUME NEW tables, TablesOf(tables),
           NEW table \in Kinds \cup {"alternative_explanations"}, NEW ref, NEW payload,
           table = "alternative_explanations" => ref \in Hypotheses
    PROVE  /\ TablesOf(insert_payload(tables, table, ref, payload))
           /\ \A k \in Kinds :
                insert_payload(tables, table, ref, payload)[k]
                  \subseteq tables[k] \cup (IF k = table THEN {Row(ref, payload)} ELSE {})
<1> DEFINE row == [ref |-> ref, payload |-> payload]
           new == insert_payload(tables, table, ref, payload)
<1>1. /\ DOMAIN tables = Tables \cup {"events"}
      /\ tables.projects \subseteq { Row(m, m) : m \in Names }
      /\ tables.events \in EventBags
      /\ RefsOf(tables.alternative_explanations) \subseteq Hypotheses
      /\ \A t \in Tables : \A x, y \in tables[t] : x.ref = y.ref => x = y
  BY DEF TablesOf
<1>2. table \in Tables /\ table # "projects" /\ table # "events"
  BY TableNames
<1>3. /\ DOMAIN new = Tables \cup {"events"}
      /\ new[table] = { x \in tables[table] : x.ref # ref } \cup {row}
      /\ \A t \in Tables \cup {"events"} : t # table => new[t] = tables[t]
  BY <1>1, <1>2 DEF insert_payload, Row
<1>4. row = Row(ref, payload) /\ row.ref = ref
  BY DEF Row
<1> HIDE DEF new, row
<1>5. new.projects = tables.projects /\ new.events = tables.events
  BY <1>2, <1>3, TableNames
<1>6. RefsOf(new.alternative_explanations) \subseteq Hypotheses
  <2>1. CASE table = "alternative_explanations"
    BY <1>1, <1>3, <1>4, <2>1 DEF RefsOf
  <2>2. CASE table # "alternative_explanations"
    BY <1>1, <1>3, <2>2, TableNames
  <2> QED
    BY <2>1, <2>2
<1>7. ASSUME NEW t \in Tables PROVE \A x, y \in new[t] : x.ref = y.ref => x = y
  <2>1. CASE t = table
    BY <1>1, <1>3, <1>4, <2>1
  <2>2. CASE t # table
    BY <1>1, <1>3, <2>2
  <2> QED
    BY <2>1, <2>2
<1>8. TablesOf(new)
  BY <1>1, <1>3, <1>5, <1>6, <1>7 DEF TablesOf
<1>9. ASSUME NEW k \in Kinds
      PROVE  new[k] \subseteq tables[k] \cup (IF k = table THEN {Row(ref, payload)} ELSE {})
  <2>1. k \in Tables
    BY TableNames
  <2> QED
    BY <1>3, <1>4, <2>1
<1> QED
  BY <1>8, <1>9 DEF new

(* A line of events.jsonl, or all of them.                                      *)
LEMMA EventsChanged ==
    ASSUME NEW tables, TablesOf(tables), NEW bag \in EventBags
    PROVE  /\ TablesOf([tables EXCEPT !.events = bag])
           /\ \A k \in Kinds : [tables EXCEPT !.events = bag][k] = tables[k]
<1> DEFINE new == [tables EXCEPT !.events = bag]
<1>1. /\ DOMAIN tables = Tables \cup {"events"}
      /\ tables.projects \subseteq { Row(m, m) : m \in Names }
      /\ RefsOf(tables.alternative_explanations) \subseteq Hypotheses
      /\ \A t \in Tables : \A x, y \in tables[t] : x.ref = y.ref => x = y
  BY DEF TablesOf
<1>2. /\ DOMAIN new = Tables \cup {"events"} /\ new.events = bag
      /\ \A t \in Tables : new[t] = tables[t]
  BY <1>1, TableNames
<1> HIDE DEF new
<1>3. /\ new.projects = tables.projects
      /\ new.alternative_explanations = tables.alternative_explanations
  BY <1>2, TableNames
<1>4. TablesOf(new)
  BY <1>1, <1>2, <1>3 DEF TablesOf
<1>5. \A k \in Kinds : new[k] = tables[k]
  BY <1>2, TableNames
<1> QED
  BY <1>4, <1>5 DEF new

(* One row more of each line of events.jsonl.                                  *)
LEMMA EventsRestored ==
    ASSUME NEW tables, TablesOf(tables), NEW lines \in Seq(Names)
    PROVE  TablesOf(insert_events(tables, lines))
<1> DEFINE count == [line \in Range(lines) |->
                        Cardinality({ i \in DOMAIN lines : lines[i] = line })]
           bag == tables.events (+) count
<1>1. count \in [Range(lines) -> Nat \ {0}]
  <2>1. ASSUME NEW line \in Range(lines)
        PROVE  Cardinality({ i \in DOMAIN lines : lines[i] = line }) \in Nat \ {0}
    <3> DEFINE I == { i \in DOMAIN lines : lines[i] = line }
    <3>1. I \subseteq 1 .. Len(lines) /\ Len(lines) \in Nat
      OBVIOUS
    <3>2. PICK i \in DOMAIN lines : lines[i] = line
      BY DEF Range
    <3>3. i \in I
      BY <3>2
    <3> HIDE DEF I
    <3>4. Cardinality(I) \in Nat /\ Cardinality(I) # 0
      BY <3>1, <3>3, SomeOfMany
    <3> QED
      BY <3>4 DEF I
  <2> QED
    BY <2>1
<1>2. Range(lines) \subseteq Names
  BY DEF Range
<1>3. PICK D \in SUBSET Names : tables.events \in [D -> Nat \ {0}]
  BY DEF TablesOf, EventBags
<1> HIDE DEF count
<1>4. bag \in [D \cup Range(lines) -> Nat \ {0}]
  <2>1. DOMAIN tables.events = D /\ DOMAIN count = Range(lines)
    BY <1>1, <1>3
  <2>2. bag = [e \in D \cup Range(lines) |->
                  (IF e \in D THEN tables.events[e] ELSE 0)
                  + (IF e \in Range(lines) THEN count[e] ELSE 0)]
    BY <2>1 DEF (+)
  <2>3. \A e \in D \cup Range(lines) :
          (IF e \in D THEN tables.events[e] ELSE 0)
          + (IF e \in Range(lines) THEN count[e] ELSE 0) \in Nat \ {0}
    BY <1>1, <1>3
  <2> HIDE DEF bag
  <2> QED
    BY <2>2, <2>3
<1>5. bag \in EventBags
  <2>1. D \cup Range(lines) \in SUBSET Names
    BY <1>2
  <2> QED
    BY <1>4, <2>1 DEF EventBags
<1>6. insert_events(tables, lines) = [tables EXCEPT !.events = bag]
  BY Zenon DEF insert_events, count
<1> HIDE DEF bag
<1> QED
  BY <1>5, <1>6, EventsChanged

(* The rows of the ledgers.                                                     *)
LEMMA RowsInserted ==
    ASSUME NEW tables, TablesOf(tables), NEW steps \in Seq(Inserts(AllRows))
    PROVE  TablesOf(insert_rows(tables, steps))
<1> DEFINE Of(table) == { i \in DOMAIN steps : steps[i][2] = table }
           ref(i) == steps[i][3].ref
           Kept(table) == { row \in tables[table] : \A i \in Of(table) : ref(i) # row.ref }
           Lasts(table) == { i \in Of(table) : \A k \in Of(table) : ref(k) = ref(i) => k <= i }
           new == insert_rows(tables, steps)
<1>1. /\ DOMAIN tables = Tables \cup {"events"}
      /\ tables.projects \subseteq { Row(m, m) : m \in Names }
      /\ tables.events \in EventBags
      /\ RefsOf(tables.alternative_explanations) \subseteq Hypotheses
      /\ \A t \in Tables : \A x, y \in tables[t] : x.ref = y.ref => x = y
  BY DEF TablesOf
<1>2. new = [table \in DOMAIN tables |->
                IF Of(table) = {} THEN tables[table]
                ELSE Kept(table) \cup { steps[i][3] : i \in Lasts(table) }]
  BY Zenon DEF insert_rows
<1>3. \A i \in DOMAIN steps : steps[i][2] \in Kinds
  <2>1. \A i \in DOMAIN steps : steps[i] \in Inserts(AllRows)
    OBVIOUS
  <2>2. \A s \in Inserts(AllRows) : s[2] \in Kinds
    BY DEF Inserts
  <2> QED
    BY <2>1, <2>2
<1>4. \A t : t \notin Kinds => Of(t) = {}
  BY <1>3
<1>5. \A t : \A i \in Of(t) : i \in Nat
  OBVIOUS
<1> HIDE DEF new, Of
<1>6. /\ DOMAIN new = Tables \cup {"events"} /\ new.projects = tables.projects
      /\ new.events = tables.events
      /\ new.alternative_explanations = tables.alternative_explanations
  BY <1>1, <1>2, <1>4, TableNames
<1>7. ASSUME NEW t \in Tables PROVE \A x, y \in new[t] : x.ref = y.ref => x = y
  <2>1. CASE Of(t) = {}
    <3>1. new[t] = tables[t]
      BY <1>1, <1>2, <2>1
    <3> QED
      BY <1>1, <3>1
  <2>2. CASE Of(t) # {}
    <3>1. new[t] = Kept(t) \cup { steps[i][3] : i \in Lasts(t) }
      BY <1>1, <1>2, <2>2
    <3>2. \A x \in Kept(t) : x \in tables[t] /\ \A i \in Of(t) : ref(i) # x.ref
      OBVIOUS
    <3>3. \A i \in Lasts(t) : i \in Of(t) /\ i \in Nat
      BY <1>5
    <3>4. \A i, k \in Lasts(t) : ref(i) = ref(k) => i = k
      BY <1>5
    <3>5. \A x, y \in Kept(t) : x.ref = y.ref => x = y
      BY <1>1, <3>2
    <3>6. \A y \in { steps[i][3] : i \in Lasts(t) } :
            \E i \in Lasts(t) : y = steps[i][3] /\ y.ref = ref(i)
      OBVIOUS
    <3> HIDE DEF Kept, Lasts, ref
    <3> SUFFICES ASSUME NEW x \in new[t], NEW y \in new[t], x.ref = y.ref PROVE x = y
      OBVIOUS
    <3>7. CASE x \in Kept(t) /\ y \in Kept(t)
      BY <3>5, <3>7
    <3>8. x \in Kept(t) => y \in Kept(t)
      BY <3>1, <3>2, <3>3, <3>6
    <3>9. y \in Kept(t) => x \in Kept(t)
      BY <3>1, <3>2, <3>3, <3>6
    <3>10. CASE x \notin Kept(t) /\ y \notin Kept(t)
      <4>1. PICK i \in Lasts(t) : x = steps[i][3] /\ x.ref = ref(i)
        BY <3>1, <3>6, <3>10
      <4>2. PICK k \in Lasts(t) : y = steps[k][3] /\ y.ref = ref(k)
        BY <3>1, <3>6, <3>10
      <4> QED
        BY <3>4, <4>1, <4>2
    <3> QED
      BY <3>7, <3>8, <3>9, <3>10
  <2> QED
    BY <2>1, <2>2
<1>8. TablesOf(new)
  BY <1>1, <1>6, <1>7 DEF TablesOf
<1> QED
  BY <1>8 DEF new

-----------------------------------------------------------------------------
(* The jobs.                                                                    *)

(* The sorts of steps are told apart by their operations.                       *)
LEMMA StepSorts ==
    ASSUME NEW s
    PROVE  /\ \A path : s \in On(path) => s[1] \in FileOps /\ s[2] = path
           /\ s \in FindsProject => s[1] \in {"read project", "discover"}
           /\ s \in AppendsEvent => s[1] = "append event"
           /\ s = Return1 => s[1] = "return"
           /\ s \in Loud => \/ s[1] = "append event"
                            \/ s[1] \in {"open", "write"} /\ s[2] \in OwnedPaths
           /\ s \in ReadsToml => s[1] \in {"read project", "read events"}
           /\ s \in NamesProject => s[1] \in {"insert project", "read events", "append event",
                                              "insert event", "initialize schema"}
<1>1. \A op : \A t : t = << op >> => t[1] = op
  <2>1. \A op : << op >>[1] = op
    OBVIOUS
  <2> QED
    BY <2>1, Zenon
<1>2. \A path : s \in On(path) => s[1] \in FileOps /\ s[2] = path
  BY DEF On
<1>3. s \in FindsProject => s[1] \in {"read project", "discover"}
  <2>1. \A S : s \in With1("discover", S) => s[1] = "discover"
    BY DEF With1
  <2> QED
    BY <1>1, <2>1 DEF FindsProject
<1>4. s \in AppendsEvent => s[1] = "append event"
  BY <1>1 DEF AppendsEvent
<1>5. s = Return1 => s[1] = "return"
  BY <1>1 DEF Return1
<1>6. s \in Loud => \/ s[1] = "append event"
                    \/ s[1] \in {"open", "write"} /\ s[2] \in OwnedPaths
  BY <1>4 DEF Loud
<1>7. s \in ReadsToml => s[1] \in {"read project", "read events"}
  BY <1>1 DEF ReadsToml
<1>8. s \in NamesProject => s[1] \in {"insert project", "read events", "append event",
                                      "insert event", "initialize schema"}
  <2> SUFFICES ASSUME s \in NamesProject
               PROVE  s[1] \in {"insert project", "read events", "append event",
                                "insert event", "initialize schema"}
    OBVIOUS
  <2>1. PICK op \in {"insert project", "read events", "append event",
                     "insert event", "initialize schema"} : s = << op >>
    BY DEF NamesProject
  <2>2. s[1] = op
    BY <1>1, <2>1
  <2> QED
    BY <2>1, <2>2
<1> QED
  BY <1>2, <1>3, <1>4, <1>5, <1>6, <1>7, <1>8

(* The world of the jobs, and that more gets done in it.                        *)
LEMMA WorldParts ==
    /\ World.there = { path \in OwnedPaths : files[path] # NoFile }
    /\ World.lines = (events # << >>) /\ World.rows = valid /\ World.done = finished
    /\ Toml \in World.there <=> files[Toml] # NoFile
    /\ \A k \in Kinds : Ledger(k) \in World.there <=> files[Ledger(k)] # NoFile
<1>1. /\ World.there = { path \in OwnedPaths : files[path] # NoFile }
      /\ World.lines = (events # << >>) /\ World.rows = valid /\ World.done = finished
  BY DEF World
<1>2. Toml \in OwnedPaths /\ \A k \in Kinds : Ledger(k) \in OwnedPaths
  BY DEF OwnedPaths
<1> QED
  BY <1>1, <1>2

(* Nothing that jobs depend on has changed,                                    *)
LEMMA SameWorld ==
    ASSUME UNCHANGED << files, events, valid, finished >>
    PROVE  World' = World /\ Later(World, World')
<1>1. World' = World
  BY DEF World
<1>2. Later(World, World)
  BY DEF Later
<1> QED
  BY <1>1, <1>2

(* or more of it is there.                                                     *)
LEMMA MoreWorld ==
    ASSUME \A path \in OwnedPaths : files[path] # NoFile => files'[path] # NoFile,
           events # << >> => events' # << >>, finished => finished',
           \A k \in Kinds : valid[k] \subseteq valid'[k]
    PROVE  Later(World, World')
<1>1. /\ World'.there = { path \in OwnedPaths : files'[path] # NoFile }
      /\ World'.lines = (events' # << >>) /\ World'.rows = valid' /\ World'.done = finished'
  BY WorldParts DEF World
<1>2. /\ World.there = { path \in OwnedPaths : files[path] # NoFile }
      /\ World.lines = (events # << >>) /\ World.rows = valid /\ World.done = finished
  BY WorldParts
<1>3. World.there \subseteq World'.there
  BY <1>1, <1>2
<1>4. (World.lines => World'.lines) /\ (World.done => World'.done)
  BY <1>1, <1>2
<1>5. \A k \in Kinds : World.rows[k] \subseteq World'.rows[k]
  BY <1>1, <1>2
<1> QED
  BY <1>3, <1>4, <1>5 DEF Later

(* One job goes on, the others stay as they are.                                *)
LEMMA JobsStep ==
    ASSUME JobsInv, NEW p \in Procs, NEW i \in Job, jobs' = [jobs EXCEPT ![p] = i],
           Later(World, World'), JobGood(i, World')
    PROVE  JobsInv'
<1>1. jobs \in [Procs -> Job] /\ \A q \in Procs : JobGood(jobs[q], World)
  BY DEF JobsInv
<1>2. jobs' \in [Procs -> Job]
  BY <1>1
<1>3. ASSUME NEW q \in Procs PROVE JobGood(jobs'[q], World')
  <2>1. CASE q = p
    BY <1>1, <2>1
  <2>2. CASE q # p
    <3>1. jobs'[q] = jobs[q] /\ JobGood(jobs[q], World)
      BY <1>1, <2>2
    <3>2. PICK j, w, v : j = jobs[q] /\ w = World /\ v = World'
      OBVIOUS
    <3>3. JobGood(j, v)
      BY <3>1, <3>2, JobLater
    <3> QED
      BY <3>1, <3>2, <3>3
  <2> QED
    BY <2>1, <2>2
<1> QED
  BY <1>2, <1>3 DEF JobsInv

(* No job at all is good.                                                       *)
LEMMA NoJobGood ==
    /\ NoJob \in Job /\ NoJob.todo = << >>
    /\ \A w : JobGood(NoJob, w)
<1>1. NoJob \in Job
  <2>1. EmptyBag \in EventBags
    BY OneMore
  <2>2. << >> \in Seq(AnyStep) /\ << >> \in Seq(Inserts(AllRows))
    BY NothingFirst
  <2> QED
    BY <2>1, <2>2 DEF NoJob, Job
<1>2. /\ NoJob.todo = << >> /\ NoJob.parsed = << >> /\ NoJob.created = FALSE
      /\ NoJob.late = FALSE
  BY DEF NoJob
<1>3. ASSUME NEW w PROVE JobGood(NoJob, w)
  <2>1. << >> \in Seq(Steps(w.rows)) /\ << >> \in Seq(Inserts(w.rows))
    BY NothingFirst
  <2>2. PICK t, m : t = (Toml \in w.there) /\ m = (NoJob.project \in Names)
    OBVIOUS
  <2>3. Ordered(<< >>, t, m)
    BY NothingFirst
  <2>4. Ordered(NoJob.todo, Toml \in w.there, NoJob.project \in Names)
    BY <1>2, <2>2, <2>3, Zenon
  <2>5. Ends(<< >>, Return1)
    BY DEF Ends
  <2> QED
    BY <1>2, <2>1, <2>4, <2>5 DEF JobGood
<1> QED
  BY <1>1, <1>2, <1>3

(* Whoever ends has nothing more to do.                                         *)
LEMMA JobEnds ==
    ASSUME JobsInv, NEW p \in Procs, Raise(p), Later(World, World')
    PROVE  JobsInv'
<1>1. PICK i : i = NoJob
  OBVIOUS
<1>2. i \in Job /\ JobGood(i, World')
  BY <1>1, NoJobGood
<1>3. jobs' = [jobs EXCEPT ![p] = i]
  BY <1>1 DEF Raise, Becomes
<1> QED
  BY <1>2, <1>3, JobsStep

(* A process that is about to do a step.                                        *)
AtStep(j, h, rows) ==
    /\ j \in Job /\ j.todo # << >> /\ h = Head(j.todo) /\ Tail(j.todo) \in Seq(AnyStep)
    /\ h \in Steps(rows) /\ h \in AnyStep
    /\ Len(j.todo) \in Nat /\ 1 \in 1 .. Len(j.todo) /\ j.todo[1] = h
(* Its job is good, and its next step one of the steps.                        *)
LEMMA Acting ==
    ASSUME JobsInv, NEW p \in Procs, NEW op, At(p, op)
    PROVE  /\ AtStep(jobs[p], Head(jobs[p].todo), valid) /\ JobGood(jobs[p], World)
           /\ Head(jobs[p].todo)[1] = op /\ Head(jobs[p].todo)[2] = Arg(p)
           /\ Head(jobs[p].todo)[3] = Content(p)
<1>1. jobs[p] \in Job /\ JobGood(jobs[p], World) /\ jobs[p].todo # << >>
  BY DEF JobsInv, At, Working
<1>2. PICK j : j = jobs[p]
  OBVIOUS
<1>3. j.todo \in Seq(AnyStep)
  BY <1>1, <1>2 DEF Job
<1>4. j.todo \in Seq(Steps(valid))
  <2>1. World.rows = valid
    BY WorldParts
  <2> QED
    BY <1>1, <1>2, <2>1, Zenon DEF JobGood
<1>5. \A S : \A L \in Seq(S) : L # << >> =>
        Head(L) \in S /\ Tail(L) \in Seq(S) /\ Len(L) \in Nat /\ 1 \in 1 .. Len(L) /\ L[1] = Head(L)
  OBVIOUS
<1>6. AtStep(j, Head(j.todo), valid)
  BY <1>1, <1>2, <1>3, <1>4, <1>5, Zenon DEF AtStep
<1>7. Head(jobs[p].todo)[1] = op /\ Head(jobs[p].todo)[2] = Arg(p)
      /\ Head(jobs[p].todo)[3] = Content(p)
  BY DEF At, Op, Arg, Content
<1> QED
  BY <1>1, <1>2, <1>6, <1>7

(* A process does a step, and goes on as the job i: when that was a step on a   *)
(* file, the file is there, and when it was to find the project, it is found.   *)
Advances(p, op, i) ==
    /\ At(p, op) /\ op # "return" /\ i \in Job /\ jobs' = [jobs EXCEPT ![p] = i]
    /\ i.todo = << >> \o Tail(jobs[p].todo)
    /\ jobs[p].project \in Names => i.project \in Names
    /\ op \in FileOps => \A path \in OwnedPaths : Arg(p) = path => files'[path] # NoFile
    /\ op \in {"read project", "discover"} => i.project \in Names
    /\ op = "append event" => events' # << >>
    /\ (i.late => jobs[p].late) /\ (i.created => jobs[p].created)
    /\ ~ i.errors => i.parsed \in Seq(Inserts(valid'))

(* It does the step, and the jobs stay good.                                   *)
LEMMA JobAdvances ==
    ASSUME JobsInv, NEW p \in Procs, NEW op, NEW i, Advances(p, op, i), Later(World, World')
    PROVE  JobsInv'
<1>1. /\ AtStep(jobs[p], Head(jobs[p].todo), valid) /\ JobGood(jobs[p], World)
      /\ Head(jobs[p].todo)[1] = op /\ Head(jobs[p].todo)[2] = Arg(p)
  <2>1. At(p, op)
    BY DEF Advances
  <2> QED
    BY <2>1, Acting
<1>2. PICK j, h, w, v : j = jobs[p] /\ h = Head(jobs[p].todo) /\ w = World /\ v = World'
  OBVIOUS
<1>3. h[1] = op /\ op # "return" /\ h[2] = Arg(p)
  BY <1>1, <1>2 DEF Advances
<1>4. h # Return1
  BY <1>3, StepSorts
<1>5. /\ v.there = { path \in OwnedPaths : files'[path] # NoFile }
      /\ v.lines = (events' # << >>) /\ v.rows = valid'
  BY <1>2, WorldParts DEF World
<1>6. ASSUME NEW path \in OwnedPaths, h \in On(path) PROVE path \in v.there
  <2>1. h[1] \in FileOps /\ h[2] = path
    BY <1>6, StepSorts
  <2>2. files'[path] # NoFile
    BY <1>3, <2>1 DEF Advances
  <2> QED
    BY <1>5, <2>2
<1>7. /\ h \in On(Toml) => Toml \in v.there
      /\ \A k \in Kinds : h \in On(Ledger(k)) => Ledger(k) \in v.there
  BY <1>6 DEF OwnedPaths
<1>8. h \in FindsProject => i.project \in Names
  <2>1. h \in FindsProject => h[1] \in {"read project", "discover"}
    BY StepSorts
  <2> QED
    BY <1>3, <2>1 DEF Advances
<1>9. h \in AppendsEvent => v.lines
  <2>1. h \in AppendsEvent => h[1] = "append event"
    BY StepSorts
  <2> QED
    BY <1>3, <1>5, <2>1 DEF Advances
<1>10. /\ j.todo # << >> /\ h = Head(j.todo)
       /\ i.todo = << >> \o Tail(j.todo)
       /\ j.project \in Names => i.project \in Names
       /\ (i.late => j.late) /\ (i.created => j.created)
  BY <1>1, <1>2 DEF Advances, AtStep
<1>11. Settled(j, i, h, v)
  BY <1>4, <1>7, <1>8, <1>9, <1>10 DEF Settled
<1>12. ~ i.errors => i.parsed \in Seq(Inserts(v.rows))
  BY <1>5 DEF Advances
<1>13. JobGood(j, w) /\ Later(w, v)
  BY <1>1, <1>2
<1>14. JobGood(i, v)
  BY <1>11, <1>12, <1>13, DoneGood
<1>15. JobGood(i, World')
  BY <1>2, <1>14
<1>16. i \in Job /\ jobs' = [jobs EXCEPT ![p] = i]
  BY DEF Advances
<1> QED
  BY <1>15, <1>16, JobsStep

(* A job with other steps is a job.                                             *)
LEMMA ThenJob ==
    ASSUME NEW j \in Job, j.todo # << >>, NEW K \in Seq(AnyStep)
    PROVE  /\ Then(j, K) \in Job /\ Then(j, K).todo = K \o Tail(j.todo)
           /\ Then(j, K).project = j.project /\ Then(j, K).parsed = j.parsed
           /\ Then(j, K).errors = j.errors /\ Then(j, K).seen = j.seen
           /\ Then(j, K).created = j.created /\ Then(j, K).late = j.late
           /\ Then(j, K).name = j.name /\ Then(j, K).overlapped = j.overlapped
<1>1. j.todo \in Seq(AnyStep)
  BY DEF Job
<1>2. Tail(j.todo) \in Seq(AnyStep)
  BY <1>1
<1>3. K \o Tail(j.todo) \in Seq(AnyStep)
  BY <1>2
<1>4. PICK L \in Seq(AnyStep) : L = K \o Tail(j.todo)
  BY <1>3
<1>5. Then(j, K) = [j EXCEPT !.todo = L]
  BY <1>4 DEF Then
<1> QED
  BY <1>4, <1>5 DEF Job

(* A step that only leads to the next one.                                      *)
LEMMA JobDone ==
    ASSUME JobsInv, NEW p \in Procs, NEW op, At(p, op), op # "return", Done(p),
           op \in FileOps => \A path \in OwnedPaths : Arg(p) = path => files'[path] # NoFile,
           op \notin {"read project", "discover"},
           op = "append event" => events' # << >>, Later(World, World')
    PROVE  JobsInv'
<1>1. AtStep(jobs[p], Head(jobs[p].todo), valid) /\ JobGood(jobs[p], World)
  BY Acting
<1>2. PICK i : i = Then(jobs[p], << >>)
  OBVIOUS
<1>3. << >> \in Seq(AnyStep) /\ jobs[p] \in Job /\ jobs[p].todo # << >>
  BY <1>1, NothingFirst DEF AtStep
<1>4. /\ i \in Job /\ i.todo = << >> \o Tail(jobs[p].todo)
      /\ i.project = jobs[p].project /\ i.parsed = jobs[p].parsed /\ i.errors = jobs[p].errors
      /\ i.late = jobs[p].late /\ i.created = jobs[p].created
  BY <1>2, <1>3, ThenJob
<1>5. ~ i.errors => i.parsed \in Seq(Inserts(valid'))
  <2>1. World.rows = valid /\ World'.rows = valid'
    BY WorldParts DEF World
  <2>2. ~ i.errors => i.parsed \in Seq(Inserts(valid))
    BY <1>1, <1>4, <2>1 DEF JobGood
  <2>3. \A k \in Kinds : valid[k] \subseteq valid'[k]
    BY <2>1 DEF Later
  <2>4. Seq(Inserts(valid)) \subseteq Seq(Inserts(valid'))
    BY <2>3, StepsGrow
  <2> QED
    BY <2>2, <2>4
<1>6. jobs' = [jobs EXCEPT ![p] = i]
  BY <1>2 DEF Done, Becomes
<1>7. Advances(p, op, i)
  BY <1>4, <1>5, <1>6 DEF Advances
<1> QED
  BY <1>7, JobAdvances

(* Nothing comes before the first element.                                      *)
LEMMA NoneBefore ==
    \A m \in Nat : \A k \in 1 .. m : ~ (k < 1)
OBVIOUS

(* What the order of the steps means for the one that is next.                  *)
LEMMA AtNamed ==
    ASSUME JobsInv, NEW p \in Procs, NEW op, At(p, op),
           op \in {"insert project", "read events", "append event", "insert event",
                   "initialize schema"}
    PROVE  jobs[p].project \in Names
<1>1. AtStep(jobs[p], Head(jobs[p].todo), valid) /\ JobGood(jobs[p], World)
      /\ Head(jobs[p].todo)[1] = op
  BY Acting
<1>2. PICK j, h : j = jobs[p] /\ h = Head(jobs[p].todo)
  OBVIOUS
<1>3. op \in PlainOps
  BY DEF PlainOps
<1>4. h = << op >>
  <2>1. h \in Steps(valid) /\ h[1] \in PlainOps
    BY <1>1, <1>2, <1>3 DEF AtStep
  <2> QED
    BY <1>1, <1>2, <2>1, StepShape
<1>5. h \in NamesProject
  BY <1>4 DEF NamesProject
<1>6. PICK L, n : L = j.todo /\ n = (j.project \in Names)
  OBVIOUS
<1>7. Precedes(L, NamesProject, FindsProject, n) /\ 1 \in 1 .. Len(L) /\ L[1] = h
      /\ Len(L) \in Nat
  BY <1>1, <1>2, <1>6 DEF JobGood, Ordered, AtStep
<1>8. n
  <2>1. n \/ \E k \in 1 .. Len(L) : k < 1 /\ L[k] \in FindsProject
    BY <1>5, <1>7, Zenon DEF Precedes
  <2> QED
    BY <1>7, <2>1, NoneBefore, Zenon
<1> QED
  BY <1>2, <1>6, <1>8

(* Who reads the project, or the events, has found or made a project.toml.     *)
LEMMA AtToml ==
    ASSUME JobsInv, NEW p \in Procs, NEW op, At(p, op), op \in {"read project", "read events"}
    PROVE  files[Toml] # NoFile
<1>1. AtStep(jobs[p], Head(jobs[p].todo), valid) /\ JobGood(jobs[p], World)
      /\ Head(jobs[p].todo)[1] = op
  BY Acting
<1>2. PICK j, h : j = jobs[p] /\ h = Head(jobs[p].todo)
  OBVIOUS
<1>3. op \in PlainOps
  BY DEF PlainOps
<1>4. h = << op >>
  <2>1. h \in Steps(valid) /\ h[1] \in PlainOps
    BY <1>1, <1>2, <1>3 DEF AtStep
  <2> QED
    BY <1>1, <1>2, <2>1, StepShape
<1>5. h \in ReadsToml
  BY <1>4 DEF ReadsToml
<1>6. PICK L, n : L = j.todo /\ n = (Toml \in World.there)
  OBVIOUS
<1>7. Precedes(L, ReadsToml, On(Toml), n) /\ 1 \in 1 .. Len(L) /\ L[1] = h
      /\ Len(L) \in Nat
  BY <1>1, <1>2, <1>6 DEF JobGood, Ordered, AtStep
<1>8. n
  <2>1. n \/ \E k \in 1 .. Len(L) : k < 1 /\ L[k] \in On(Toml)
    BY <1>5, <1>7, Zenon DEF Precedes
  <2> QED
    BY <1>7, <2>1, NoneBefore, Zenon
<1> QED
  BY <1>6, <1>8, WorldParts

(* A file is emptied, or written as a command writes it.                        *)
LEMMA FileWritten ==
    ASSUME FilesInv, RecordsInv, NEW path \in Paths, NEW c,
           c = Blank \/ << path, c >> \in Contents, files' = [files EXCEPT ![path] = c],
           UNCHANGED << events, valid, finished, alone >>, fresh' \subseteq fresh
    PROVE  /\ FilesInv' /\ RecordsInv' /\ Later(World, World')
           /\ path \in OwnedPaths => files'[path] # NoFile
<1>1. /\ path = Toml => c \in Names \cup {Blank}
      /\ \A k \in Kinds : path = Ledger(k) => c = << >> \/ c = Blank
      /\ \A k \in Proposable : path = Proposal(k) => c \in Proposals(k) \cup {Blank}
      /\ \A x \in Explainable : path = Explained(x) => c \in Range(Runs) \cup {Blank}
  BY ContentFits
<1>2. /\ DOMAIN files = Paths /\ DOMAIN files' = Paths /\ files'[path] = c
      /\ \A at \in Paths : at # path => files'[at] = files[at]
  BY DEF FilesInv
<1>3. FilesInv'
  <2>1. files'[Toml] \in Names \cup {NoFile, Blank}
    BY <1>1, <1>2, PathsDiffer DEF FilesInv
  <2>2. ASSUME NEW k \in Kinds PROVE files'[Ledger(k)] \in Seq(Sections(k)) \cup {NoFile, Blank}
    <3>1. Ledger(k) \in Paths /\ << >> \in Seq(Sections(k))
      BY PathsDiffer, NoContent
    <3>2. files[Ledger(k)] \in Seq(Sections(k)) \cup {NoFile, Blank}
      BY DEF FilesInv
    <3>3. path = Ledger(k) => c = << >> \/ c = Blank
      BY <1>1
    <3> QED
      BY <1>2, <3>1, <3>2, <3>3
  <2>3. ASSUME NEW k \in Proposable
        PROVE  files'[Proposal(k)] \in Proposals(k) \cup {NoFile, Blank}
    <3>1. Proposal(k) \in Paths
      BY PathsDiffer
    <3>2. files[Proposal(k)] \in Proposals(k) \cup {NoFile, Blank}
      BY DEF FilesInv
    <3> QED
      BY <1>1, <1>2, <3>1, <3>2
  <2>4. ASSUME NEW x \in Explainable
        PROVE  files'[Explained(x)] \in Range(Runs) \cup {NoFile, Blank}
    <3>1. Explained(x) \in Paths
      BY PathsDiffer
    <3>2. files[Explained(x)] \in Range(Runs) \cup {NoFile, Blank}
      BY DEF FilesInv
    <3> QED
      BY <1>1, <1>2, <3>1, <3>2
  <2> QED
    BY <1>2, <2>1, <2>2, <2>3, <2>4 DEF FilesInv
<1>4. path \in OwnedPaths => c # NoFile
  <2>1. path = Toml => c # NoFile
    BY <1>1, NoContent
  <2>2. \A k \in Kinds : path = Ledger(k) => c # NoFile
    BY <1>1, NoContent
  <2> QED
    BY <2>1, <2>2 DEF OwnedPaths
<1>5. \A at \in OwnedPaths : at \in Paths
  BY PathsDiffer DEF OwnedPaths
<1>6. \A at \in OwnedPaths : files[at] # NoFile => files'[at] # NoFile
  BY <1>2, <1>4, <1>5
<1>7. Later(World, World')
  BY <1>6, MoreWorld
<1>8. RecordsInv'
  <2>1. ASSUME NEW k \in Kinds, ~ HasErrors(k, files'[Ledger(k)])
        PROVE  Range(Entries(k, files'[Ledger(k)])) \subseteq valid[k]
    <3>1. CASE path = Ledger(k)
      <4>1. PICK text : text = files'[Ledger(k)]
        OBVIOUS
      <4>2. text = << >> \/ text = Blank
        BY <1>1, <1>2, <3>1, <4>1
      <4>3. text \in Seq(Sections(k)) \cup {NoFile, Blank}
        BY <4>2, NoContent
      <4>4. Entries(k, text) = << >>
        BY <4>2, <4>3, EntriesTyped
      <4>5. Range(<< >>) = {}
        BY DEF Range
      <4> QED
        BY <4>1, <4>4, <4>5
    <3>2. CASE path # Ledger(k)
      <4>1. files'[Ledger(k)] = files[Ledger(k)]
        BY <1>2, <3>2, PathsDiffer
      <4> QED
        BY <2>1, <4>1 DEF RecordsInv
    <3> QED
      BY <3>1, <3>2
  <2>2. finished => (\A at \in OwnedPaths : files'[at] # NoFile) /\ events # << >>
    BY <1>6 DEF RecordsInv
  <2>3. /\ events \in Seq(Names \cup {Torn})
        /\ DOMAIN valid = Kinds /\ \A k \in Kinds : valid[k] \subseteq AllRows[k]
        /\ finished \in BOOLEAN /\ alone \subseteq Procs /\ fresh \subseteq {"validate", "rebuild"}
    BY DEF RecordsInv
  <2>4. UNCHANGED << events, valid, finished, alone >> /\ fresh' \subseteq {"validate", "rebuild"}
    BY <2>3
  <2>5. \A k \in Kinds : ~ HasErrors(k, files[Ledger(k)])' =>
                          (Range(Entries(k, files[Ledger(k)])) \subseteq valid[k])'
    BY <2>1, <2>4
  <2> QED
    BY <2>2, <2>3, <2>4, <2>5 DEF RecordsInv
<1> QED
  BY <1>2, <1>3, <1>4, <1>7, <1>8

-----------------------------------------------------------------------------
(* Each action keeps the invariant.                                             *)

(* What an action leaves alone keeps its part.                                  *)
LEMMA Kept ==
    /\ FilesInv /\ UNCHANGED files => FilesInv'
    /\ RecordsInv /\ UNCHANGED << files, events, valid, finished, alone, fresh >> => RecordsInv'
    /\ IndexInv /\ UNCHANGED << index, valid >> => IndexInv'
    /\ RebuiltInv /\ UNCHANGED rebuilt => RebuiltInv'
<1>1. FilesInv /\ UNCHANGED files => FilesInv'
  BY DEF FilesInv
<1>2. RecordsInv /\ UNCHANGED << files, events, valid, finished, alone, fresh >> => RecordsInv'
  BY DEF RecordsInv
<1>3. IndexInv /\ UNCHANGED << index, valid >> => IndexInv'
  BY DEF IndexInv, TablesOf
<1>4. RebuiltInv /\ UNCHANGED rebuilt => RebuiltInv'
  BY DEF RebuiltInv, TablesOf
<1> QED
  BY <1>1, <1>2, <1>3, <1>4

(* An action that changes no file, no event and no history.                     *)
LEMMA OnlyJobs ==
    ASSUME IInv, UNCHANGED << files, events, index, rebuilt, History >>, JobsInv'
    PROVE  IInv'
<1>1. UNCHANGED << files, events, index, rebuilt, valid, finished, alone, fresh >>
  BY DEF History
<1>2. FilesInv' /\ RecordsInv' /\ IndexInv' /\ RebuiltInv'
  BY <1>1, Kept DEF IInv
<1> QED
  BY <1>2 DEF IInv

(* An owned file that is opened is there from then on, though empty.           *)
LEMMA StepOpen ==
    ASSUME IInv, NEW p \in Procs, Open(p)
    PROVE  IInv'
<1>1. At(p, "open") /\ Done(p) /\ files' = [files EXCEPT ![Arg(p)] = Blank]
      /\ UNCHANGED << events, index, rebuilt, valid, finished, alone >> /\ fresh' \subseteq fresh
  BY DEF Open, Puts
<1>2. FilesInv /\ RecordsInv /\ IndexInv /\ RebuiltInv /\ JobsInv
  BY DEF IInv
<1>3. PICK h : h = Head(jobs[p].todo)
  OBVIOUS
<1>4. h \in Steps(valid) /\ h[1] = "open" /\ h[2] = Arg(p)
  BY <1>1, <1>2, <1>3, Acting DEF AtStep
<1>5. Arg(p) \in Paths
  BY <1>4, StepShape
<1>6. PICK path \in Paths : path = Arg(p)
  BY <1>5
<1>7. /\ FilesInv' /\ RecordsInv' /\ Later(World, World')
      /\ path \in OwnedPaths => files'[path] # NoFile
  <2>1. PICK c : c = Blank
    OBVIOUS
  <2>2. files' = [files EXCEPT ![path] = c]
    BY <1>1, <1>6, <2>1
  <2> QED
    BY <1>1, <1>2, <2>1, <2>2, FileWritten
<1>8. IndexInv' /\ RebuiltInv'
  BY <1>1, <1>2, Kept
<1>9. JobsInv'
  <2>1. \A at \in OwnedPaths : Arg(p) = at => files'[at] # NoFile
    BY <1>6, <1>7
  <2> QED
    BY <1>1, <1>2, <1>7, <2>1, JobDone
<1> QED
  BY <1>7, <1>8, <1>9 DEF IInv

(* What is written is of the kind the path is for.                             *)
LEMMA StepWrite ==
    ASSUME IInv, NEW p \in Procs, Write(p)
    PROVE  IInv'
<1>1. At(p, "write") /\ Done(p) /\ files' = [files EXCEPT ![Arg(p)] = Content(p)]
      /\ UNCHANGED << events, index, rebuilt, valid, finished, alone >> /\ fresh' \subseteq fresh
  BY DEF Write, Puts
<1>2. FilesInv /\ RecordsInv /\ IndexInv /\ RebuiltInv /\ JobsInv
  BY DEF IInv
<1>3. PICK h : h = Head(jobs[p].todo)
  OBVIOUS
<1>4. h \in Steps(valid) /\ h[1] = "write" /\ h[2] = Arg(p) /\ h[3] = Content(p)
  BY <1>1, <1>2, <1>3, Acting DEF AtStep
<1>5. << Arg(p), Content(p) >> \in Contents
  BY <1>4, StepShape
<1>6. PICK path, c : path = Arg(p) /\ c = Content(p)
  OBVIOUS
<1>7. /\ FilesInv' /\ RecordsInv' /\ Later(World, World')
      /\ path \in OwnedPaths => files'[path] # NoFile
  <2>1. << path, c >> \in Contents
    BY <1>5, <1>6
  <2>2. files' = [files EXCEPT ![path] = c]
    BY <1>1, <1>6
  <2>3. path \in Paths
    BY <2>1, ContentFits
  <2> QED
    BY <1>1, <1>2, <2>1, <2>2, <2>3, FileWritten
<1>8. IndexInv' /\ RebuiltInv'
  BY <1>1, <1>2, Kept
<1>9. JobsInv'
  <2>1. \A at \in OwnedPaths : Arg(p) = at => files'[at] # NoFile
    BY <1>6, <1>7
  <2> QED
    BY <1>1, <1>2, <1>7, <2>1, JobDone
<1> QED
  BY <1>7, <1>8, <1>9 DEF IInv

(* The changes of the live index.                                               *)
LEMMA StepInsertProject ==
    ASSUME IInv, NEW p \in Procs, InsertProject(p)
    PROVE  IInv'
<1>1. At(p, "insert project") /\ Done(p)
      /\ index' = [index EXCEPT !.projects = @ \cup {Row(jobs[p].project, jobs[p].project)}]
      /\ UNCHANGED << files, events, rebuilt, valid, finished, alone, fresh >>
  BY DEF InsertProject, History
<1>2. FilesInv /\ RecordsInv /\ IndexInv /\ RebuiltInv /\ JobsInv
  BY DEF IInv
<1>3. JobsInv'
  BY <1>1, <1>2, SameWorld, JobDone DEF FileOps
<1>4. FilesInv' /\ RecordsInv' /\ RebuiltInv'
  BY <1>1, <1>2, Kept
<1>5. PICK n \in Names : n = jobs[p].project
  BY <1>1, <1>2, AtNamed
<1>6. IndexInv'
  <2>1. TablesOf(index) /\ \A k \in Kinds : index[k] \subseteq valid[k]
    BY <1>2 DEF IndexInv
  <2>2. PICK old, new : old = index /\ new = [old EXCEPT !.projects = @ \cup {Row(n, n)}]
    OBVIOUS
  <2>3. TablesOf(new) /\ \A k \in Kinds : new[k] = old[k]
    BY <2>1, <2>2, ProjectInserted
  <2>4. index' = new
    BY <1>1, <1>5, <2>2
  <2> QED
    BY <1>1, <2>1, <2>2, <2>3, <2>4 DEF IndexInv, TablesOf
<1> QED
  BY <1>3, <1>4, <1>6 DEF IInv

(* The event is that of the project the process has read.                      *)
LEMMA StepInsertEvent ==
    ASSUME IInv, NEW p \in Procs, InsertEvent(p)
    PROVE  IInv'
<1>1. At(p, "insert event") /\ Done(p) /\ index' = insert_event(index, jobs[p].project)
      /\ UNCHANGED << files, events, rebuilt, valid, finished, alone, fresh >>
  BY DEF InsertEvent, History
<1>2. FilesInv /\ RecordsInv /\ IndexInv /\ RebuiltInv /\ JobsInv
  BY DEF IInv
<1>3. JobsInv'
  BY <1>1, <1>2, SameWorld, JobDone DEF FileOps
<1>4. FilesInv' /\ RecordsInv' /\ RebuiltInv'
  BY <1>1, <1>2, Kept
<1>5. PICK n \in Names : n = jobs[p].project
  BY <1>1, <1>2, AtNamed
<1>6. IndexInv'
  <2>1. TablesOf(index) /\ \A k \in Kinds : index[k] \subseteq valid[k]
    BY <1>2 DEF IndexInv
  <2>2. PICK old, bag, new : /\ old = index /\ bag = BagAdd(index.events, n)
                             /\ new = [old EXCEPT !.events = bag]
    OBVIOUS
  <2>3. bag \in EventBags
    BY <2>1, <2>2, OneMore DEF TablesOf
  <2>4. TablesOf(new) /\ \A k \in Kinds : new[k] = old[k]
    BY <2>1, <2>2, <2>3, EventsChanged
  <2>5. index' = new
    BY <1>1, <1>5, <2>2, Zenon DEF insert_event
  <2> QED
    BY <1>1, <2>1, <2>2, <2>4, <2>5 DEF IndexInv, TablesOf
<1> QED
  BY <1>3, <1>4, <1>6 DEF IInv

(* A row that is indexed is valid, or explains a hypothesis.                   *)
LEMMA StepInsert ==
    ASSUME IInv, NEW p \in Procs, Insert(p)
    PROVE  IInv'
<1>1. At(p, "insert") /\ Done(p)
      /\ index' = insert_payload(index, Arg(p), Content(p).ref, Content(p).payload)
      /\ UNCHANGED << files, events, rebuilt, valid, finished, alone, fresh >>
  BY DEF Insert, History
<1>2. FilesInv /\ RecordsInv /\ IndexInv /\ RebuiltInv /\ JobsInv
  BY DEF IInv
<1>3. JobsInv'
  BY <1>1, <1>2, SameWorld, JobDone DEF FileOps
<1>4. FilesInv' /\ RecordsInv' /\ RebuiltInv'
  BY <1>1, <1>2, Kept
<1>5. PICK h : h = Head(jobs[p].todo)
  OBVIOUS
<1>6. h \in Steps(valid) /\ h[1] = "insert" /\ h[2] = Arg(p) /\ h[3] = Content(p)
  BY <1>1, <1>2, <1>5, Acting DEF AtStep
<1>7. h \in Inserts(valid) \cup ExplainInserts
  BY <1>6, StepShape
<1>8. \/ Arg(p) \in Kinds /\ Content(p) \in valid[Arg(p)]
      \/ /\ Arg(p) = "alternative_explanations"
         /\ \E r \in Range(Runs) : Content(p) = Row(Manifest[r].hypothesis, r)
  BY <1>6, <1>7, InsertShape
<1>9. PICK table, row : table = Arg(p) /\ row = Content(p)
  OBVIOUS
<1>10. /\ table \in Kinds \cup {"alternative_explanations"}
       /\ table = "alternative_explanations" => row.ref \in Hypotheses
       /\ table \in Kinds => row = Row(row.ref, row.payload) /\ row \in valid[table]
  <2>1. CASE table \in Kinds /\ row \in valid[table]
    <3>1. row \in AllRows[table]
      BY <1>2, <2>1 DEF RecordsInv
    <3>2. PICK section \in Sections(table) : row = RowOf(table, section)
      BY <2>1, <3>1 DEF AllRows
    <3>3. row = Row(row.ref, row.payload)
      BY <3>2 DEF RowOf, LedgerRow, Row
    <3> QED
      BY <2>1, <3>3, TableNames
  <2>2. CASE /\ table = "alternative_explanations"
             /\ \E r \in Range(Runs) : row = Row(Manifest[r].hypothesis, r)
    <3>1. row.ref \in Hypotheses
      BY <2>2 DEF Row, Hypotheses
    <3> QED
      BY <2>2, <3>1, TableNames
  <2> QED
    BY <1>8, <1>9, <2>1, <2>2
<1>11. IndexInv'
  <2>1. TablesOf(index) /\ \A k \in Kinds : index[k] \subseteq valid[k]
    BY <1>2 DEF IndexInv
  <2>2. PICK old, new, ref, payload : /\ old = index /\ ref = row.ref /\ payload = row.payload
                                      /\ new = insert_payload(old, table, ref, payload)
    OBVIOUS
  <2>3. /\ TablesOf(new)
        /\ \A k \in Kinds :
             new[k] \subseteq old[k] \cup (IF k = table THEN {Row(ref, payload)} ELSE {})
    BY <1>10, <2>1, <2>2, PayloadInserted
  <2>4. index' = new
    BY <1>1, <1>9, <2>2
  <2>5. \A k \in Kinds : new[k] \subseteq valid[k]
    BY <1>10, <2>1, <2>2, <2>3
  <2> QED
    BY <1>1, <2>3, <2>4, <2>5 DEF IndexInv, TablesOf
<1> QED
  BY <1>3, <1>4, <1>11 DEF IInv

(* A line is appended, whatever it is.                                          *)
LEMMA LineAppended ==
    ASSUME RecordsInv, NEW line \in Names \cup {Torn}, AppendLine(line),
           UNCHANGED << files, valid, finished, alone, fresh >>
    PROVE  RecordsInv' /\ events' # << >> /\ Later(World, World')
<1>1. events \in Seq(Names \cup {Torn})
  BY DEF RecordsInv
<1>2. events' \in Seq(Names \cup {Torn}) /\ events' # << >>
  BY <1>1 DEF AppendLine
<1>3. RecordsInv'
  BY <1>2 DEF RecordsInv
<1>4. Later(World, World')
  BY <1>2, MoreWorld
<1> QED
  BY <1>2, <1>3, <1>4

(* The line is the name of a project.                                          *)
LEMMA StepAppendEvent ==
    ASSUME IInv, NEW p \in Procs, AppendEvent(p)
    PROVE  IInv'
<1>1. At(p, "append event") /\ Done(p) /\ AppendLine(jobs[p].project)
      /\ UNCHANGED << files, index, rebuilt, valid, finished, alone, fresh >>
  BY DEF AppendEvent, History
<1>2. FilesInv /\ RecordsInv /\ IndexInv /\ RebuiltInv /\ JobsInv
  BY DEF IInv
<1>3. PICK n \in Names : n = jobs[p].project
  BY <1>1, <1>2, AtNamed
<1>4. RecordsInv' /\ events' # << >> /\ Later(World, World')
  <2>1. AppendLine(n)
    BY <1>1, <1>3
  <2> QED
    BY <1>1, <1>2, <2>1, LineAppended
<1>5. JobsInv'
  BY <1>1, <1>2, <1>4, JobDone DEF FileOps
<1>6. FilesInv' /\ IndexInv' /\ RebuiltInv'
  BY <1>1, <1>2, Kept
<1> QED
  BY <1>4, <1>5, <1>6 DEF IInv

(* What the entries of a ledger become.                                         *)
LEMMA EntryInserts ==
    ASSUME NEW kind \in Kinds, NEW rows, NEW list \in Seq(rows[kind])
    PROVE  [i \in DOMAIN list |-> << "insert", kind, list[i] >>] \in Seq(Inserts(rows))
<1> DEFINE steps == [i \in DOMAIN list |-> << "insert", kind, list[i] >>]
<1>1. DOMAIN list = 1 .. Len(list) /\ Len(list) \in Nat
      /\ \A i \in 1 .. Len(list) : list[i] \in rows[kind]
  OBVIOUS
<1>2. \A row \in rows[kind] : << "insert", kind, row >> \in Inserts(rows)
  BY DEF Inserts
<1>3. steps \in [1 .. Len(list) -> Inserts(rows)]
  BY <1>1, <1>2
<1>4. \A n \in Nat : \A T : \A h \in [1 .. n -> T] : h \in Seq(T)
  OBVIOUS
<1> HIDE DEF steps
<1>5. steps \in Seq(Inserts(rows))
  BY <1>1, <1>3, <1>4, Zenon
<1> QED
  BY <1>5 DEF steps

(* What is parsed is valid if the ledgers have no errors.                      *)
LEMMA StepParse ==
    ASSUME IInv, NEW p \in Procs, Parse(p)
    PROVE  IInv'
<1>1. At(p, "parse") /\ UNCHANGED << files, events, index, rebuilt, History >>
  BY DEF Parse
<1>2. FilesInv /\ RecordsInv /\ IndexInv /\ RebuiltInv /\ JobsInv
  BY DEF IInv
<1>3. UNCHANGED << files, events, index, rebuilt, valid, finished, alone, fresh >>
  BY <1>1 DEF History
<1>4. AtStep(jobs[p], Head(jobs[p].todo), valid) /\ JobGood(jobs[p], World)
      /\ Head(jobs[p].todo)[1] = "parse" /\ Head(jobs[p].todo)[2] = Arg(p)
  BY <1>1, <1>2, Acting
<1>5. Arg(p) \in Kinds
  BY <1>4, StepShape DEF AtStep
<1>6. PICK j, kind, text : j = jobs[p] /\ kind = Arg(p) /\ text = files[Ledger(kind)]
  OBVIOUS
<1>7. kind \in Kinds /\ text \in Seq(Sections(kind)) \cup {NoFile, Blank}
  BY <1>2, <1>5, <1>6 DEF FilesInv
<1> DEFINE rows == Entries(kind, text)
           new == [i \in DOMAIN rows |-> << "insert", kind, rows[i] >>]
<1>8. rows \in Seq(AllRows[kind]) /\ (~ HasErrors(kind, text) => rows \in Seq(valid[kind]))
  <2>1. rows \in Seq(AllRows[kind])
    BY <1>7, EntriesTyped
  <2>2. ~ HasErrors(kind, text) => Range(rows) \subseteq valid[kind]
    BY <1>2, <1>6, <1>7 DEF RecordsInv
  <2> HIDE DEF rows
  <2>3. Range(rows) \subseteq valid[kind] => rows \in Seq(valid[kind])
    <3>1. DOMAIN rows = 1 .. Len(rows) /\ Len(rows) \in Nat
          /\ rows \in [1 .. Len(rows) -> AllRows[kind]]
      BY <2>1
    <3>2. Range(rows) \subseteq valid[kind] => rows \in [1 .. Len(rows) -> valid[kind]]
      BY <3>1 DEF Range
    <3>3. \A n \in Nat : \A T : \A h \in [1 .. n -> T] : h \in Seq(T)
      OBVIOUS
    <3> QED
      BY <3>1, <3>2, <3>3, Zenon
  <2> QED
    BY <2>1, <2>2, <2>3
<1>9. new \in Seq(Inserts(AllRows)) /\ (~ HasErrors(kind, text) => new \in Seq(Inserts(valid)))
  BY <1>7, <1>8, EntryInserts
<1>10. PICK e \in BOOLEAN : e = (j.errors \/ HasErrors(kind, text))
  OBVIOUS
<1>10a. ~ e => ~ j.errors /\ ~ HasErrors(kind, text)
  BY <1>10
<1>11. jobs' = [jobs EXCEPT ![p] = Then([j EXCEPT !.parsed = @ \o new, !.errors = e], << >>)]
  BY <1>6, <1>10, Zenon DEF Parse, Becomes
<1> HIDE DEF new, rows
<1>12. j \in Job /\ j.parsed \in Seq(Inserts(AllRows)) /\ j.todo # << >>
       /\ (~ j.errors => j.parsed \in Seq(Inserts(valid)))
  <2>1. World.rows = valid
    BY WorldParts
  <2> QED
    BY <1>4, <1>6, <2>1 DEF AtStep, Job, JobGood
<1>13. PICK P \in Seq(Inserts(AllRows)) :
         /\ P = j.parsed \o new
         /\ ~ e => P \in Seq(Inserts(valid))
  <2>1. \A S : \A a, b \in Seq(S) : a \o b \in Seq(S)
    BY ConcatProperties
  <2>2. j.parsed \o new \in Seq(Inserts(AllRows))
    BY <1>9, <1>12, <2>1, Zenon
  <2>3. ~ e => j.parsed \o new \in Seq(Inserts(valid))
    BY <1>9, <1>10a, <1>12, <2>1, Zenon
  <2> QED
    BY <2>2, <2>3, Zenon
<1>14. PICK k : k = [j EXCEPT !.parsed = P, !.errors = e]
  OBVIOUS
<1>15. k \in Job /\ k.parsed = P /\ k.errors = e /\ k.todo = j.todo
       /\ k.project = j.project /\ k.late = j.late /\ k.created = j.created
  BY <1>12, <1>14 DEF Job
<1>16. PICK i : i = Then(k, << >>)
  OBVIOUS
<1>17. << >> \in Seq(AnyStep)
  BY NothingFirst
<1>18. /\ i \in Job /\ i.todo = << >> \o Tail(j.todo) /\ i.project = j.project /\ i.parsed = P
       /\ i.errors = e /\ i.late = j.late /\ i.created = j.created
  <2>1. k.todo # << >>
    BY <1>12, <1>15
  <2>2. /\ i \in Job /\ i.todo = << >> \o Tail(k.todo) /\ i.project = k.project
        /\ i.parsed = k.parsed /\ i.errors = k.errors /\ i.late = k.late
        /\ i.created = k.created
    BY <1>15, <1>16, <1>17, <2>1, ThenJob
  <2> QED
    BY <1>15, <2>2
<1>19. jobs' = [jobs EXCEPT ![p] = i]
  BY <1>11, <1>13, <1>14, <1>16
<1>20. Advances(p, "parse", i)
  BY <1>1, <1>3, <1>6, <1>13, <1>18, <1>19 DEF Advances, FileOps
<1>21. JobsInv'
  BY <1>2, <1>3, <1>20, SameWorld, JobAdvances
<1> QED
  BY <1>1, <1>21, OnlyJobs

(* An empty project.toml ends the command, any other names the project.        *)
LEMMA StepReadProject ==
    ASSUME IInv, NEW p \in Procs, ReadProject(p)
    PROVE  IInv'
<1>1. At(p, "read project") /\ UNCHANGED << files, events, index, rebuilt, History >>
  BY DEF ReadProject
<1>2. FilesInv /\ RecordsInv /\ IndexInv /\ RebuiltInv /\ JobsInv
  BY DEF IInv
<1>3. UNCHANGED << files, events, index, rebuilt, valid, finished, alone, fresh >>
  BY <1>1 DEF History
<1>4. CASE files[Toml] = Blank
  <2>1. Raise(p)
    BY <1>4 DEF ReadProject
  <2>2. JobsInv'
    BY <1>2, <1>3, <2>1, SameWorld, JobEnds
  <2> QED
    BY <1>1, <2>2, OnlyJobs
<1>5. CASE files[Toml] # Blank
  <2>1. PICK n \in Names : n = files[Toml]
    BY <1>1, <1>2, <1>5, AtToml DEF FilesInv
  <2>2. AtStep(jobs[p], Head(jobs[p].todo), valid) /\ JobGood(jobs[p], World)
    BY <1>1, <1>2, Acting
  <2>3. PICK j, k, i : /\ j = jobs[p] /\ k = [j EXCEPT !.project = n]
                       /\ i = Then(k, << >>)
    OBVIOUS
  <2>4. j \in Job /\ j.todo # << >> /\ (~ j.errors => j.parsed \in Seq(Inserts(valid)))
    <3>1. World.rows = valid
      BY WorldParts
    <3> QED
      BY <2>2, <2>3, <3>1 DEF AtStep, JobGood
  <2>5. k \in Job /\ k.parsed = j.parsed /\ k.errors = j.errors /\ k.todo = j.todo
        /\ k.project = n /\ k.late = j.late /\ k.created = j.created
    BY <2>3, <2>4 DEF Job
  <2>6. << >> \in Seq(AnyStep)
    BY NothingFirst
  <2>7. /\ i \in Job /\ i.todo = << >> \o Tail(j.todo) /\ i.project = n /\ i.parsed = j.parsed
        /\ i.errors = j.errors /\ i.late = j.late /\ i.created = j.created
    <3>1. k.todo # << >>
      BY <2>4, <2>5
    <3>2. i = Then(k, << >>)
      BY <2>3
    <3>3. /\ i \in Job /\ i.todo = << >> \o Tail(k.todo) /\ i.project = k.project
          /\ i.parsed = k.parsed /\ i.errors = k.errors /\ i.late = k.late
          /\ i.created = k.created
      BY <2>5, <2>6, <3>1, <3>2, ThenJob
    <3> QED
      BY <2>5, <3>3
  <2>8. jobs' = [jobs EXCEPT ![p] = i]
    BY <1>5, <2>1, <2>3 DEF ReadProject, Becomes
  <2>9. Advances(p, "read project", i)
    BY <1>1, <1>3, <2>3, <2>4, <2>7, <2>8 DEF Advances, FileOps
  <2>10. JobsInv'
    BY <1>2, <1>3, <2>9, SameWorld, JobAdvances
  <2> QED
    BY <1>1, <2>10, OnlyJobs
<1> QED
  BY <1>4, <1>5

(* A process does a step that has others before the next, as the job i.         *)
Continues(p, op, i, K) ==
    /\ At(p, op) /\ op # "return" /\ i \in Job /\ jobs' = [jobs EXCEPT ![p] = i]
    /\ StepDone(jobs[p], i, Head(jobs[p].todo), K, World)
    /\ ~ i.errors => i.parsed \in Seq(Inserts(valid))
    /\ i.created => \/ jobs[p].created /\ StepCreates(Head(jobs[p].todo), K, World)
                    \/ Creates(i.todo, World)
    /\ UNCHANGED << files, events, valid, finished >>

(* It does the step, puts others first, and the jobs stay good.                *)
LEMMA JobContinues ==
    ASSUME JobsInv, NEW p \in Procs, NEW op, NEW i, NEW K, Continues(p, op, i, K)
    PROVE  JobsInv'
<1>1. JobGood(jobs[p], World)
  BY DEF JobsInv
<1>2. PICK j, h, w : j = jobs[p] /\ h = Head(jobs[p].todo) /\ w = World
  OBVIOUS
<1>3. /\ JobGood(j, w) /\ StepDone(j, i, h, K, w)
      /\ i.created => (j.created /\ StepCreates(h, K, w)) \/ Creates(i.todo, w)
  BY <1>1, <1>2 DEF Continues
<1>4. w.rows = valid /\ World' = w /\ Later(w, w) /\ Later(World, World')
  BY <1>2, WorldParts, SameWorld DEF Continues
<1>5. ~ i.errors => i.parsed \in Seq(Inserts(w.rows))
  BY <1>4 DEF Continues
<1>6. JobGood(i, w)
  BY <1>3, <1>4, <1>5, ThenGood
<1>7. JobGood(i, World')
  BY <1>4, <1>6
<1>8. i \in Job /\ jobs' = [jobs EXCEPT ![p] = i]
  BY DEF Continues
<1> QED
  BY <1>4, <1>7, <1>8, JobsStep

(* What is in order stays so when more has been met.                            *)
LEMMA OrderedMore ==
    ASSUME NEW L, NEW named, Ordered(L, FALSE, named), NEW toml, NEW named2, named => named2
    PROVE  Ordered(L, toml, named2)
<1>1. /\ Precedes(L, ReadsToml, On(Toml), FALSE)
      /\ \A k \in Kinds : Follows(L, ReadsEvents, On(Ledger(k)))
      /\ Precedes(L, NamesProject, FindsProject, named)
  BY Zenon DEF Ordered
<1>2. Precedes(L, ReadsToml, On(Toml), toml)
  BY <1>1, Zenon DEF Precedes
<1>3. Precedes(L, NamesProject, FindsProject, named2)
  BY <1>1, Zenon DEF Precedes
<1> QED
  BY <1>1, <1>2, <1>3, Zenon DEF Ordered

(* A project is found, or made first, by the steps of init, or the command     *)
(* ends.                                                                       *)
LEMMA StepDiscover ==
    ASSUME IInv, NEW p \in Procs, Discover(p)
    PROVE  IInv'
<1>1. At(p, "discover") /\ UNCHANGED << files, events, index, rebuilt, History >>
  BY DEF Discover
<1>2. FilesInv /\ RecordsInv /\ IndexInv /\ RebuiltInv /\ JobsInv
  BY DEF IInv
<1>3. UNCHANGED << files, events, index, rebuilt, valid, finished, alone, fresh >>
  BY <1>1 DEF History
<1>4. AtStep(jobs[p], Head(jobs[p].todo), valid) /\ JobGood(jobs[p], World)
      /\ Head(jobs[p].todo)[1] = "discover"
  BY <1>1, <1>2, Acting
<1>5. PICK j, h : j = jobs[p] /\ h = Head(jobs[p].todo)
  OBVIOUS
<1>6. j \in Job /\ j.todo # << >> /\ (~ j.errors => j.parsed \in Seq(Inserts(valid)))
  <2>1. World.rows = valid
    BY WorldParts
  <2> QED
    BY <1>4, <1>5, <2>1 DEF AtStep, JobGood
<1>7. ASSUME files[Toml] \in Names,
             Becomes(p, Then([jobs[p] EXCEPT !.project = files[Toml]], << >>))
      PROVE  JobsInv'
  <2>1. PICK n \in Names : n = files[Toml]
    BY <1>7
  <2>3. PICK k, i : k = [j EXCEPT !.project = n] /\ i = Then(k, << >>)
    OBVIOUS
  <2>5. k \in Job /\ k.parsed = j.parsed /\ k.errors = j.errors /\ k.todo = j.todo
        /\ k.project = n /\ k.late = j.late /\ k.created = j.created
    BY <1>6, <2>3 DEF Job
  <2>6. << >> \in Seq(AnyStep)
    BY NothingFirst
  <2>7. /\ i \in Job /\ i.todo = << >> \o Tail(j.todo) /\ i.project = n /\ i.parsed = j.parsed
        /\ i.errors = j.errors /\ i.late = j.late /\ i.created = j.created
    <3>1. k.todo # << >>
      BY <1>6, <2>5
    <3>2. i = Then(k, << >>)
      BY <2>3
    <3>3. /\ i \in Job /\ i.todo = << >> \o Tail(k.todo) /\ i.project = k.project
          /\ i.parsed = k.parsed /\ i.errors = k.errors /\ i.late = k.late
          /\ i.created = k.created
      BY <2>5, <2>6, <3>1, <3>2, ThenJob
    <3> QED
      BY <2>5, <3>3
  <2>8. jobs' = [jobs EXCEPT ![p] = i]
    BY <1>5, <1>7, <2>1, <2>3 DEF Becomes
  <2>9. Advances(p, "discover", i)
    BY <1>1, <1>3, <1>5, <1>6, <2>7, <2>8 DEF Advances, FileOps
  <2> QED
    BY <1>2, <1>3, <2>9, SameWorld, JobAdvances
<1>8. ASSUME files[Toml] = NoFile, Becomes(p, Then(jobs[p], init("mwb-demo")))
      PROVE  JobsInv'
  <2>1. PICK K, i : K = init("mwb-demo") /\ i = Then(j, K)
    OBVIOUS
  <2>2. /\ K \in Seq(OtherSteps) /\ ~ Has(K, {Return1}) /\ ~ Has(K, Loud)
        /\ Ordered(K, FALSE, FALSE) /\ Has(K, FindsProject)
    BY <2>1, NoContent, InitOrdered
  <2>3. K \in Seq(AnyStep) /\ K \in Seq(Steps(valid))
    <3>1. OtherSteps \subseteq AnyStep /\ OtherSteps \subseteq Steps(valid)
      BY DEF AnyStep, Steps
    <3>2. \A S, T : S \subseteq T => Seq(S) \subseteq Seq(T)
      OBVIOUS
    <3> QED
      BY <2>2, <3>1, <3>2, Zenon
  <2>4. /\ i \in Job /\ i.todo = K \o Tail(j.todo) /\ i.project = j.project
        /\ i.parsed = j.parsed /\ i.errors = j.errors /\ i.late = j.late
        /\ i.created = j.created
    BY <1>6, <2>1, <2>3, ThenJob
  <2>5. Toml \notin World.there /\ ~ finished
    <3>1. Toml \in OwnedPaths
      BY DEF OwnedPaths
    <3> QED
      BY <1>2, <1>8, <3>1, WorldParts DEF RecordsInv
  <2>6. ~ j.created /\ ~ j.late
    <3>1. World.done = finished
      BY WorldParts
    <3> QED
      BY <1>4, <1>5, <2>5, <3>1 DEF JobGood, Creates
  <2>7. Ordered(K, Toml \in World.there, i.project \in Names)
    <3>1. PICK t, m : t = (Toml \in World.there) /\ m = (i.project \in Names)
      OBVIOUS
    <3>2. Ordered(K, t, m)
      BY <2>2, OrderedMore
    <3> QED
      BY <3>1, <3>2, Zenon
  <2>8. h # Return1 /\ h \notin On(Toml)
    BY <1>4, <1>5, StepSorts DEF FileOps
  <2>9. World.rows = valid
    BY WorldParts
  <2>10. StepDone(j, i, h, K, World)
    BY <1>5, <1>6, <2>2, <2>3, <2>4, <2>6, <2>7, <2>8, <2>9 DEF StepDone
  <2>11. jobs' = [jobs EXCEPT ![p] = i]
    BY <1>5, <1>8, <2>1 DEF Becomes
  <2>12. Continues(p, "discover", i, K)
    BY <1>1, <1>3, <1>5, <1>6, <2>4, <2>6, <2>10, <2>11 DEF Continues
  <2> QED
    BY <1>2, <2>12, JobContinues
<1>9. ASSUME Raise(p) PROVE JobsInv'
  BY <1>2, <1>3, <1>9, SameWorld, JobEnds
<1>10. JobsInv'
  BY <1>7, <1>8, <1>9 DEF Discover
<1> QED
  BY <1>1, <1>10, OnlyJobs

(* The rows of the ledgers come first, unless one of them has errors.          *)
LEMMA StepIndexLedgers ==
    ASSUME IInv, NEW p \in Procs, IndexLedgers(p)
    PROVE  IInv'
<1>1. At(p, "index ledgers") /\ UNCHANGED << files, events, index, rebuilt, History >>
  BY DEF IndexLedgers
<1>2. FilesInv /\ RecordsInv /\ IndexInv /\ RebuiltInv /\ JobsInv
  BY DEF IInv
<1>3. UNCHANGED << files, events, index, rebuilt, valid, finished, alone, fresh >>
  BY <1>1 DEF History
<1>4. AtStep(jobs[p], Head(jobs[p].todo), valid) /\ JobGood(jobs[p], World)
      /\ Head(jobs[p].todo)[1] = "index ledgers"
  BY <1>1, <1>2, Acting
<1>5. PICK j, h, K : /\ j = jobs[p] /\ h = Head(jobs[p].todo)
                     /\ K = IF j.errors THEN << >> ELSE j.parsed
  OBVIOUS
<1>6. j \in Job /\ j.todo # << >> /\ (~ j.errors => j.parsed \in Seq(Inserts(valid)))
      /\ j.parsed \in Seq(Inserts(AllRows))
  <2>1. World.rows = valid
    BY WorldParts
  <2> QED
    BY <1>4, <1>5, <2>1 DEF AtStep, JobGood, Job
<1>7. PICK k, i : k = [j EXCEPT !.parsed = << >>] /\ i = Then(k, K)
  OBVIOUS
<1>8. << >> \in Seq(Inserts(AllRows)) /\ << >> \in Seq(Inserts(valid))
  BY NothingFirst
<1>9. K \in Seq(Inserts(AllRows)) /\ K \in Seq(Inserts(valid))
  BY <1>5, <1>6, <1>8
<1>10. K \in Seq(AnyStep) /\ K \in Seq(Steps(valid))
  <2>1. Inserts(AllRows) \subseteq AnyStep /\ Inserts(valid) \subseteq Steps(valid)
    BY DEF AnyStep, Steps
  <2>2. \A S, T : S \subseteq T => Seq(S) \subseteq Seq(T)
    OBVIOUS
  <2> QED
    BY <1>9, <2>1, <2>2, Zenon
<1>11. k \in Job /\ k.todo = j.todo /\ k.parsed = << >> /\ k.errors = j.errors
       /\ k.project = j.project /\ k.late = j.late /\ k.created = j.created
  BY <1>6, <1>7, <1>8 DEF Job
<1>12. /\ i \in Job /\ i.todo = K \o Tail(j.todo) /\ i.project = j.project
       /\ i.parsed = << >> /\ i.late = j.late /\ i.created = j.created
  <2>1. k.todo # << >> /\ i = Then(k, K)
    BY <1>6, <1>7, <1>11
  <2>2. /\ i \in Job /\ i.todo = K \o Tail(k.todo) /\ i.project = k.project
        /\ i.parsed = k.parsed /\ i.late = k.late /\ i.created = k.created
    BY <1>10, <1>11, <2>1, ThenJob
  <2> QED
    BY <1>11, <2>2
<1>13. \A s \in Inserts(valid) :
         /\ s # Return1 /\ s \notin Loud /\ s \notin ReadsToml /\ s \notin NamesProject
         /\ s \notin ReadsEvents
  <2>1. ASSUME NEW s \in Inserts(valid)
        PROVE  /\ s # Return1 /\ s \notin Loud /\ s \notin ReadsToml /\ s \notin NamesProject
               /\ s \notin ReadsEvents
    <3>1. s[1] = "insert"
      BY DEF Inserts
    <3>2. ReadsEvents \subseteq ReadsToml
      BY DEF ReadsEvents, ReadsToml
    <3> QED
      BY <3>1, <3>2, StepSorts
  <2> QED
    BY <2>1
<1>14. ~ Has(K, {Return1}) /\ ~ Has(K, Loud)
  BY <1>9, <1>13 DEF Has
<1>15. Ordered(K, Toml \in World.there, i.project \in Names)
  <2>1. PICK t, m : t = (Toml \in World.there) /\ m = (i.project \in Names)
    OBVIOUS
  <2>2. /\ Inserts(valid) \cap ReadsToml = {} /\ Inserts(valid) \cap ReadsEvents = {}
        /\ Inserts(valid) \cap NamesProject = {}
    BY <1>13
  <2>3. Ordered(K, t, m)
    BY <1>9, <2>2, FreeOrdered
  <2> QED
    BY <2>1, <2>3, Zenon
<1>16. h # Return1 /\ (\A path : h \notin On(path)) /\ h \notin FindsProject
       /\ h \notin AppendsEvent
  BY <1>4, <1>5, StepSorts DEF FileOps
<1>17. World.rows = valid
  BY WorldParts
<1>18. StepDone(j, i, h, K, World)
  BY <1>5, <1>6, <1>10, <1>12, <1>14, <1>15, <1>16, <1>17 DEF StepDone
<1>19. StepCreates(h, K, World)
  BY <1>16 DEF StepCreates
<1>20. jobs' = [jobs EXCEPT ![p] = i]
  BY <1>5, <1>7, Zenon DEF IndexLedgers, Becomes
<1>21. Continues(p, "index ledgers", i, K)
  BY <1>1, <1>3, <1>5, <1>8, <1>12, <1>18, <1>19, <1>20 DEF Continues
<1>22. JobsInv'
  BY <1>2, <1>21, JobContinues
<1> QED
  BY <1>1, <1>22, OnlyJobs

(* What comes behind the first step.                                            *)
LEMMA TailHas ==
    ASSUME NEW S, NEW L \in Seq(S), L # << >>, NEW B, Has(L, B), Head(L) \notin B
    PROVE  Has(Tail(L), B)
<1>1. 2 \in 1 .. Len(L) + 1 /\ Tail(L) = From(L, 2) /\ Head(L) = L[1]
      /\ \A m \in 1 .. Len(L) : m < 2 => m = 1
  <2>1. Len(L) \in Nat /\ Len(L) # 0 /\ Head(L) = L[1]
    OBVIOUS
  <2>2. Tail(L) = SubSeq(L, 2, Len(L))
    OBVIOUS
  <2> QED
    BY <2>1, <2>2 DEF From
<1>2. \A m \in 1 .. Len(L) : m < 2 => L[m] \notin B
  BY <1>1
<1> QED
  BY <1>1, <1>2, FromHas

(* From here on a command that initialises will have made all there is to      *)
(* make.                                                                       *)
LEMMA StepReadEvents ==
    ASSUME IInv, NEW p \in Procs, ReadEvents(p)
    PROVE  IInv'
<1>1. At(p, "read events") /\ UNCHANGED << files, events, index, rebuilt, History >>
  BY DEF ReadEvents
<1>2. FilesInv /\ RecordsInv /\ IndexInv /\ RebuiltInv /\ JobsInv
  BY DEF IInv
<1>3. UNCHANGED << files, events, index, rebuilt, valid, finished, alone, fresh >>
  BY <1>1 DEF History
<1>4. CASE Torn \in Range(events)
  <2>1. Raise(p)
    BY <1>4 DEF ReadEvents
  <2>2. JobsInv'
    BY <1>2, <1>3, <2>1, SameWorld, JobEnds
  <2> QED
    BY <1>1, <2>2, OnlyJobs
<1>5. CASE Torn \notin Range(events)
  <2>1. AtStep(jobs[p], Head(jobs[p].todo), valid) /\ JobGood(jobs[p], World)
        /\ Head(jobs[p].todo)[1] = "read events"
    BY <1>1, <1>2, Acting
  <2> DEFINE append == << "append event" >>
             insert == << "insert event" >>
  <2>2. PICK j, h, K : /\ j = jobs[p] /\ h = Head(jobs[p].todo)
                       /\ K = IF events # << >> THEN << >> ELSE << append, insert >>
    OBVIOUS
  <2>3. j \in Job /\ j.todo # << >> /\ (~ j.errors => j.parsed \in Seq(Inserts(valid)))
        /\ j.todo \in Seq(AnyStep)
    <3>1. World.rows = valid
      BY WorldParts
    <3> QED
      BY <2>1, <2>2, <3>1 DEF AtStep, JobGood, Job
  <2>4. PICK k, i : k = [j EXCEPT !.created = TRUE] /\ i = Then(k, K)
    OBVIOUS
  <2>5. append \in OtherSteps /\ insert \in OtherSteps
    <3>1. \A op \in PlainOps : << op >> \in OtherSteps
      BY DEF OtherSteps, PlainSteps
    <3> QED
      BY <3>1 DEF PlainOps
  <2>6. /\ append[1] = "append event" /\ insert[1] = "insert event" /\ append \in AppendsEvent
    BY DEF AppendsEvent
  <2>6a. jobs' = [jobs EXCEPT ![p] = i]
    BY <1>5, <2>2, <2>4, Zenon DEF ReadEvents, Becomes
  <2> HIDE DEF append, insert
  <2>7. /\ append # Return1 /\ insert # Return1
        /\ append \notin ReadsToml /\ insert \notin ReadsToml
        /\ append \notin ReadsEvents /\ insert \notin ReadsEvents
    <3>1. ReadsEvents \subseteq ReadsToml
      BY DEF ReadsEvents, ReadsToml
    <3> QED
      BY <2>6, <3>1, StepSorts
  <2>8. K \in Seq({append, insert}) /\ K \in Seq(OtherSteps)
        /\ (events = << >> => Has(K, AppendsEvent))
    <3>1. CASE events # << >>
      BY <2>2, <3>1, NothingFirst
    <3>2. CASE events = << >>
      <4>1. K = << append, insert >>
        BY <2>2, <3>2
      <4>2. K \in Seq({append, insert}) /\ K \in Seq(OtherSteps)
        BY <2>5, <4>1
      <4>3. 1 \in 1 .. Len(K) /\ K[1] = append
        BY <4>1
      <4>4. Has(K, AppendsEvent)
        BY <2>6, <4>3 DEF Has
      <4> QED
        BY <4>2, <4>4
    <3> QED
      BY <3>1, <3>2
  <2>9. K \in Seq(AnyStep) /\ K \in Seq(Steps(valid))
    <3>1. OtherSteps \subseteq AnyStep /\ OtherSteps \subseteq Steps(valid)
      BY DEF AnyStep, Steps
    <3>2. \A S, T : S \subseteq T => Seq(S) \subseteq Seq(T)
      OBVIOUS
    <3> QED
      BY <2>8, <3>1, <3>2, Zenon
  <2>10. k \in Job /\ k.todo = j.todo /\ k.parsed = j.parsed /\ k.errors = j.errors
         /\ k.project = j.project /\ k.late = j.late /\ k.created = TRUE
    BY <2>3, <2>4 DEF Job
  <2>11. /\ i \in Job /\ i.todo = K \o Tail(j.todo) /\ i.project = j.project
         /\ i.parsed = j.parsed /\ i.errors = j.errors /\ i.late = j.late /\ i.created = TRUE
    <3>1. k.todo # << >> /\ i = Then(k, K)
      BY <2>3, <2>4, <2>10
    <3>2. /\ i \in Job /\ i.todo = K \o Tail(k.todo) /\ i.project = k.project
          /\ i.parsed = k.parsed /\ i.errors = k.errors /\ i.late = k.late
          /\ i.created = k.created
      BY <2>9, <2>10, <3>1, ThenJob
    <3> QED
      BY <2>10, <3>2
  <2>12. i.project \in Names
    BY <1>1, <1>2, <2>2, <2>11, AtNamed
  <2>13. ~ Has(K, {Return1})
    BY <2>7, <2>8 DEF Has
  <2>14. Ordered(K, Toml \in World.there, i.project \in Names)
    <3>1. PICK t, m : t = (Toml \in World.there) /\ m = (i.project \in Names)
      OBVIOUS
    <3>2. m /\ {append, insert} \cap ReadsToml = {} /\ {append, insert} \cap ReadsEvents = {}
      BY <2>7, <2>12, <3>1
    <3>3. Ordered(K, t, m)
      BY <2>8, <3>2, FreeOrdered
    <3> QED
      BY <3>1, <3>3, Zenon
  <2>15. h # Return1 /\ (\A path : h \notin On(path)) /\ h \notin FindsProject
         /\ h \notin AppendsEvent
    BY <2>1, <2>2, StepSorts DEF FileOps
  <2>16. i.late => j.late /\ ~ Has(K, Loud)
    <3> SUFFICES ASSUME j.late PROVE ~ Has(K, Loud)
      BY <2>11
    <3>1. World.done = finished /\ World.done
      BY <2>1, <2>2, WorldParts DEF JobGood
    <3>2. K = << >>
      BY <1>2, <2>2, <3>1 DEF RecordsInv
    <3> QED
      BY <3>2, NothingFirst
  <2>17. World.rows = valid
    BY WorldParts
  <2>18. StepDone(j, i, h, K, World)
    BY <2>2, <2>3, <2>9, <2>11, <2>13, <2>14, <2>15, <2>16, <2>17 DEF StepDone
  <2>19. Creates(i.todo, World)
    <3>1. Toml \in World.there
      BY <1>1, <1>2, AtToml, WorldParts
    <3>2. PICK R : R = Tail(j.todo)
      OBVIOUS
    <3>3. R \in Seq(AnyStep)
      BY <2>3, <3>2
    <3>4. \A B : Has(i.todo, B) <=> Has(K, B) \/ Has(R, B)
      <4>1. \A B : Has(K \o R, B) <=> Has(K, B) \/ Has(R, B)
        BY <2>9, <3>3, ConcatHas
      <4>2. i.todo = K \o R
        BY <2>11, <3>2
      <4> QED
        BY <4>1, <4>2, Zenon
    <3>5. World.lines \/ Has(i.todo, AppendsEvent)
      BY <2>8, <3>4, WorldParts
    <3>6. ASSUME NEW kind \in Kinds PROVE Has(i.todo, On(Ledger(kind)))
      <4>1. h \in ReadsEvents /\ h = j.todo[1] /\ 1 \in 1 .. Len(j.todo)
        <5>1. h \in Steps(valid) /\ h[1] \in PlainOps
          BY <2>1, <2>2 DEF AtStep, PlainOps
        <5>2. h = << h[1] >>
          BY <5>1, StepShape
        <5> QED
          BY <2>1, <2>2, <5>2 DEF ReadsEvents, AtStep
      <4>2. Follows(j.todo, ReadsEvents, On(Ledger(kind)))
        BY <2>1, <2>2 DEF JobGood, Ordered
      <4>3. Has(j.todo, On(Ledger(kind)))
        BY <4>1, <4>2 DEF Follows, Has
      <4>4. Head(j.todo) \notin On(Ledger(kind))
        BY <2>2, <2>15
      <4>5. Has(R, On(Ledger(kind)))
        BY <2>3, <3>2, <4>3, <4>4, TailHas
      <4> QED
        BY <3>4, <4>5
    <3> QED
      BY <3>1, <3>5, <3>6 DEF Creates
  <2>20. Continues(p, "read events", i, K)
    BY <1>1, <1>3, <2>2, <2>3, <2>6a, <2>11, <2>18, <2>19 DEF Continues
  <2>21. JobsInv'
    BY <1>2, <2>20, JobContinues
  <2> QED
    BY <1>1, <2>21, OnlyJobs
<1> QED
  BY <1>4, <1>5

(* The first step that is not a check for a file that is there.                 *)
LEMMA SkipsPresent ==
    ASSUME NEW S, NEW L \in Seq(S), L # << >>, L[Len(L)] = Return1
    PROVE  \E n \in 1 .. Len(L) :
             /\ AfterPresent(L) = From(L, n)
             /\ \A m \in 1 .. Len(L) : m < n => L[m][1] = "if missing" /\ files[L[m][2]] # NoFile
             /\ ~ (L[n][1] = "if missing" /\ files[L[n][2]] # NoFile)
<1> DEFINE present(step) == step[1] = "if missing" /\ files[step[2]] # NoFile
           first(i) == ~ present(L[i]) /\ \A m \in 1 .. (i - 1) : present(L[m])
           next == CHOOSE i \in DOMAIN L : first(i)
           T == { i \in 1 .. Len(L) : ~ present(L[i]) }
<1>1. AfterPresent(L) = SubSeq(L, next, Len(L))
  BY Zenon DEF AfterPresent
<1>2. DOMAIN L = 1 .. Len(L) /\ Len(L) \in Nat /\ Len(L) \in 1 .. Len(L)
  OBVIOUS
<1>3. Return1[1] # "if missing"
  BY DEF Return1
<1>4. Len(L) \in T
  BY <1>2, <1>3
<1>5. PICK i \in T : \A k \in T : i <= k
  <2>1. T \in SUBSET Nat /\ T # {}
    <3>1. T \subseteq 1 .. Len(L)
      OBVIOUS
    <3> HIDE DEF T
    <3> QED
      BY <1>2, <1>4, <3>1
  <2> HIDE DEF T
  <2> QED
    BY <2>1, NatMin
<1>6. i \in DOMAIN L /\ first(i)
  <2>1. i \in 1 .. Len(L) /\ ~ present(L[i])
    OBVIOUS
  <2>2. ASSUME NEW m \in 1 .. (i - 1) PROVE present(L[m])
    <3>0. i \in 1 .. Len(L)
      BY <2>1
    <3>1. m \in 1 .. Len(L) /\ ~ (i <= m)
      <4> HIDE DEF T, present
      <4> QED
        BY <1>2, <3>0
    <3>2. m \notin T
      BY <1>5, <3>1
    <3> QED
      BY <3>1, <3>2
  <2> QED
    BY <1>2, <2>1, <2>2
<1> HIDE DEF first
<1>7. next \in 1 .. Len(L) /\ first(next)
  BY <1>2, <1>6, Zenon
<1> HIDE DEF next
<1>8. \A m \in 1 .. Len(L) : m < next => present(L[m])
  <2>1. \A m \in 1 .. (next - 1) : present(L[m])
    BY <1>7 DEF first
  <2> HIDE DEF present
  <2>2. \A m \in 1 .. Len(L) : m < next => m \in 1 .. (next - 1)
    BY <1>2, <1>7
  <2> QED
    BY <2>1, <2>2
<1>9. AfterPresent(L) = From(L, next)
  BY <1>1 DEF From
<1>10. ~ present(L[next])
  BY <1>7 DEF first
<1> QED
  BY <1>7, <1>8, <1>9, <1>10

(* A missing file is written first; the files that are there are passed over.  *)
LEMMA StepIfMissing ==
    ASSUME IInv, NEW p \in Procs, IfMissing(p)
    PROVE  IInv'
<1>1. At(p, "if missing") /\ UNCHANGED << files, events, index, rebuilt, History >>
  BY DEF IfMissing
<1>2. FilesInv /\ RecordsInv /\ IndexInv /\ RebuiltInv /\ JobsInv
  BY DEF IInv
<1>3. UNCHANGED << files, events, index, rebuilt, valid, finished, alone, fresh >>
  BY <1>1 DEF History
<1>4. AtStep(jobs[p], Head(jobs[p].todo), valid) /\ JobGood(jobs[p], World)
      /\ Head(jobs[p].todo)[1] = "if missing" /\ Head(jobs[p].todo)[2] = Arg(p)
      /\ Head(jobs[p].todo)[3] = Content(p)
  BY <1>1, <1>2, Acting
<1>5. PICK j, h, path, c : /\ j = jobs[p] /\ h = Head(jobs[p].todo)
                           /\ path = Arg(p) /\ c = Content(p)
  OBVIOUS
<1>6. j \in Job /\ j.todo # << >> /\ (~ j.errors => j.parsed \in Seq(Inserts(valid)))
      /\ j.todo \in Seq(AnyStep) /\ j.todo \in Seq(Steps(valid)) /\ Ends(j.todo, Return1)
  <2>1. World.rows = valid
    BY WorldParts
  <2> QED
    BY <1>4, <1>5, <2>1 DEF AtStep, JobGood, Job
<1>7. << path, c >> \in Contents
  BY <1>4, <1>5, StepShape DEF AtStep
<1>8. World.rows = valid /\ World' = World /\ Later(World, World) /\ Later(World, World')
  BY <1>3, SameWorld, WorldParts
<1>9. ASSUME files[path] = NoFile PROVE JobsInv'
  <2>1. PICK K, i : K = write_text(path, c) /\ i = Then(j, K)
    OBVIOUS
  <2> DEFINE open == << "open", path >>
             write == << "write", path, c >>
  <2>2. /\ open \in On(path) \cap OtherSteps /\ write \in On(path) \cap OtherSteps
    BY <1>7, OnFile
  <2>3. open[1] = "open" /\ write[1] = "write" /\ open[2] = path /\ write[2] = path
        /\ K = << open, write >>
    BY <2>1 DEF write_text
  <2> HIDE DEF open, write
  <2>4. K \in Seq({open, write}) /\ K \in Seq(OtherSteps) /\ 1 \in 1 .. Len(K) /\ K[1] = open
    BY <2>2, <2>3
  <2>5. Has(K, On(path))
    BY <2>2, <2>4 DEF Has
  <2>6. /\ open # Return1 /\ write # Return1
        /\ open \notin ReadsToml /\ write \notin ReadsToml
        /\ open \notin ReadsEvents /\ write \notin ReadsEvents
        /\ open \notin NamesProject /\ write \notin NamesProject
        /\ path \notin OwnedPaths => open \notin Loud /\ write \notin Loud
    <3>1. ReadsEvents \subseteq ReadsToml
      BY DEF ReadsEvents, ReadsToml
    <3> QED
      BY <2>3, <3>1, StepSorts
  <2>7. ~ Has(K, {Return1}) /\ (path \notin OwnedPaths => ~ Has(K, Loud))
    BY <2>4, <2>6 DEF Has
  <2>8. K \in Seq(AnyStep) /\ K \in Seq(Steps(valid))
    <3>1. OtherSteps \subseteq AnyStep /\ OtherSteps \subseteq Steps(valid)
      BY DEF AnyStep, Steps
    <3>2. \A S, T : S \subseteq T => Seq(S) \subseteq Seq(T)
      OBVIOUS
    <3> QED
      BY <2>4, <3>1, <3>2, Zenon
  <2>9. /\ i \in Job /\ i.todo = K \o Tail(j.todo) /\ i.project = j.project
        /\ i.parsed = j.parsed /\ i.errors = j.errors /\ i.late = j.late
        /\ i.created = j.created
    BY <1>6, <2>1, <2>8, ThenJob
  <2>10. Ordered(K, Toml \in World.there, i.project \in Names)
    <3>1. PICK t, m : t = (Toml \in World.there) /\ m = (i.project \in Names)
      OBVIOUS
    <3>2. {open, write} \cap ReadsToml = {} /\ {open, write} \cap ReadsEvents = {}
          /\ {open, write} \cap NamesProject = {}
      BY <2>6
    <3>3. Ordered(K, t, m)
      BY <2>4, <3>2, FreeOrdered
    <3> QED
      BY <3>1, <3>3, Zenon
  <2>11. h # Return1 /\ (\A at : h \in On(at) => at = path) /\ h \notin FindsProject
         /\ h \notin AppendsEvent
    BY <1>4, <1>5, StepSorts
  <2>12. i.late => j.late /\ ~ Has(K, Loud)
    <3> SUFFICES ASSUME j.late PROVE path \notin OwnedPaths
      BY <2>7, <2>9
    <3>1. finished
      BY <1>4, <1>5, WorldParts DEF JobGood
    <3> QED
      BY <1>2, <1>9, <3>1 DEF RecordsInv
  <2>13. StepDone(j, i, h, K, World)
    <3>1. h \in On(Toml) => Has(K, On(Toml))
      BY <2>5, <2>11
    <3> QED
      BY <1>5, <1>6, <1>8, <2>7, <2>8, <2>9, <2>10, <2>11, <2>12, <3>1 DEF StepDone
  <2>14. StepCreates(h, K, World)
    BY <2>5, <2>11 DEF StepCreates
  <2>15. jobs' = [jobs EXCEPT ![p] = i]
    BY <1>5, <1>9, <2>1, Zenon DEF IfMissing, Becomes
  <2>16. Continues(p, "if missing", i, K)
    BY <1>1, <1>3, <1>5, <1>6, <2>9, <2>13, <2>14, <2>15 DEF Continues
  <2> QED
    BY <1>2, <2>16, JobContinues
<1>10. ASSUME files[path] # NoFile PROVE JobsInv'
  <2>1. PICK L : L = j.todo
    OBVIOUS
  <2>2. L \in Seq(AnyStep) /\ L # << >> /\ L[Len(L)] = Return1 /\ Len(L) \in Nat
    <3>1. Len(L) \in 1 .. Len(L) /\ Len(L) \in Nat
      BY <1>6, <2>1
    <3> QED
      BY <1>6, <2>1, <3>1 DEF Ends
  <2>3. PICK n \in 1 .. Len(L) :
          /\ AfterPresent(L) = From(L, n)
          /\ \A m \in 1 .. Len(L) : m < n => L[m][1] = "if missing" /\ files[L[m][2]] # NoFile
    BY <2>2, SkipsPresent
  <2>4. PICK R, i : R = From(L, n) /\ i = [j EXCEPT !.todo = R]
    OBVIOUS
  <2>5. n \in 1 .. Len(L) + 1 /\ R \in Seq(AnyStep)
    <3>1. n \in 1 .. Len(L) + 1
      BY <2>2
    <3> QED
      BY <2>2, <2>4, <3>1, FromIndex
  <2>6. /\ i \in Job /\ i.todo = R /\ i.project = j.project
        /\ i.parsed = j.parsed /\ i.errors = j.errors /\ i.late = j.late
        /\ i.created = j.created
    BY <1>6, <2>4, <2>5 DEF Job
  <2>7. << >> \o R = R
    BY <2>5, ConcatEmptySeq
  <2>8. ASSUME NEW m \in 1 .. Len(L), m < n
        PROVE  /\ L[m] # Return1 /\ L[m] \notin FindsProject /\ L[m] \notin AppendsEvent
               /\ \A at : L[m] \in On(at) => files[at] # NoFile
    <3>1. PICK s : s = L[m]
      OBVIOUS
    <3>2. s[1] = "if missing" /\ files[s[2]] # NoFile
      BY <2>3, <2>8, <3>1, Zenon
    <3>3. s # Return1 /\ s \notin FindsProject /\ s \notin AppendsEvent
      BY <3>2, StepSorts
    <3>4. \A at : s \in On(at) => s[2] = at
      BY StepSorts, Zenon
    <3> QED
      BY <3>1, <3>2, <3>3, <3>4, Zenon
  <2>9. PICK w : w = World
    OBVIOUS
  <2>10. /\ \A m \in 1 .. Len(L) : m < n /\ L[m] \in On(Toml) => Toml \in w.there
         /\ \A k \in Kinds : \A m \in 1 .. Len(L) :
              m < n /\ L[m] \in On(Ledger(k)) => Ledger(k) \in w.there
    BY <2>8, <2>9, WorldParts
  <2>11. Goes(j, i, n, << >>, w, w)
    <3>1. << >> \in Seq(Steps(w.rows)) /\ ~ Has(<< >>, {Return1})
      BY NothingFirst
    <3> QED
      BY <1>6, <2>1, <2>4, <2>5, <2>6, <2>7, <2>8, <3>1 DEF Goes
  <2>12. GoesInOrder(j, i, n, << >>, w, w)
    <3>1. Ordered(<< >>, Toml \in w.there, i.project \in Names)
      BY DEF Ordered, Precedes, Follows
    <3> QED
      BY <2>1, <2>6, <2>8, <2>10, <3>1 DEF GoesInOrder
  <2>13. GoesCreating(j, n, << >>, w, w)
    BY <2>1, <2>8, <2>10 DEF GoesCreating
  <2>14. ~ Has(<< >>, Loud) /\ (~ i.errors => i.parsed \in Seq(Inserts(w.rows)))
    BY <1>6, <1>8, <2>6, <2>9, NothingFirst
  <2>15. JobGood(j, w) /\ Later(w, w)
    BY <1>4, <1>5, <1>8, <2>9
  <2>15a. i.created => (j.created /\ GoesCreating(j, n, << >>, w, w)) \/ Creates(i.todo, w)
    BY <2>6, <2>13
  <2>15b. i.late => j.late /\ ~ Has(<< >>, Loud)
    BY <2>6, <2>14
  <2>16. JobGood(i, w)
    BY <2>11, <2>12, <2>14, <2>15, <2>15a, <2>15b, GoesGood
  <2>17. JobGood(i, World')
    BY <1>8, <2>9, <2>16
  <2>18. jobs' = [jobs EXCEPT ![p] = i]
    <3>1. jobs' = [jobs EXCEPT ![p] = [j EXCEPT !.todo = AfterPresent(@)]]
      BY <1>5, <1>10, Zenon DEF IfMissing, Becomes
    <3>2. [j EXCEPT !.todo = AfterPresent(@)] = i
      BY <1>6, <2>1, <2>3, <2>4 DEF Job
    <3> QED
      BY <3>1, <3>2, Zenon
  <2> QED
    BY <1>2, <1>8, <2>6, <2>17, <2>18, JobsStep
<1>11. JobsInv'
  BY <1>9, <1>10
<1> QED
  BY <1>1, <1>11, OnlyJobs

(* A step of rebuild_sqlite_index, whatever becomes of it.                      *)
LEMMA RebuildStep ==
    ASSUME IInv, NEW p \in Procs, NEW op, At(p, op),
           op \in {"unlink", "initialize schema", "restore events", "restore run",
                   "restore hypothesis", "restore ledgers"},
           UNCHANGED << files, events, index, History >>,
           \/ Raise(p) \/ Done(p)
           \/ \E seen \in SUBSET Hypotheses :
                Becomes(p, Then([jobs[p] EXCEPT !.seen = seen], << >>)),
           NEW t, rebuilt' = t, t = NoTables \/ TablesOf(t)
    PROVE  IInv'
<1>1. FilesInv /\ RecordsInv /\ IndexInv /\ RebuiltInv /\ JobsInv
  BY DEF IInv
<1>2. UNCHANGED << files, events, index, valid, finished, alone, fresh >>
  BY DEF History
<1>3. FilesInv' /\ RecordsInv' /\ IndexInv'
  BY <1>1, <1>2, Kept
<1>4. RebuiltInv'
  BY DEF RebuiltInv, TablesOf
<1>5. ASSUME Raise(p) PROVE JobsInv'
  BY <1>1, <1>2, <1>5, SameWorld, JobEnds
<1>6. ASSUME Done(p) PROVE JobsInv'
  BY <1>1, <1>2, <1>6, SameWorld, JobDone DEF FileOps
<1>7. ASSUME NEW seen \in SUBSET Hypotheses,
             Becomes(p, Then([jobs[p] EXCEPT !.seen = seen], << >>))
      PROVE  JobsInv'
  <2>1. AtStep(jobs[p], Head(jobs[p].todo), valid) /\ JobGood(jobs[p], World)
    BY <1>1, Acting
  <2>2. PICK j, k, i : j = jobs[p] /\ k = [j EXCEPT !.seen = seen] /\ i = Then(k, << >>)
    OBVIOUS
  <2>3. j \in Job /\ j.todo # << >> /\ (~ j.errors => j.parsed \in Seq(Inserts(valid)))
    <3>1. World.rows = valid
      BY WorldParts
    <3> QED
      BY <2>1, <2>2, <3>1 DEF AtStep, JobGood
  <2>4. k \in Job /\ k.parsed = j.parsed /\ k.errors = j.errors /\ k.todo = j.todo
        /\ k.project = j.project /\ k.late = j.late /\ k.created = j.created
    BY <2>2, <2>3 DEF Job
  <2>5. << >> \in Seq(AnyStep)
    BY NothingFirst
  <2>6. /\ i \in Job /\ i.todo = << >> \o Tail(j.todo) /\ i.project = j.project
        /\ i.parsed = j.parsed /\ i.errors = j.errors /\ i.late = j.late
        /\ i.created = j.created
    <3>1. k.todo # << >> /\ i = Then(k, << >>)
      BY <2>2, <2>3, <2>4
    <3>2. /\ i \in Job /\ i.todo = << >> \o Tail(k.todo) /\ i.project = k.project
          /\ i.parsed = k.parsed /\ i.errors = k.errors /\ i.late = k.late
          /\ i.created = k.created
      BY <2>4, <2>5, <3>1, ThenJob
    <3> QED
      BY <2>4, <3>2
  <2>7. jobs' = [jobs EXCEPT ![p] = i]
    BY <1>7, <2>2 DEF Becomes
  <2>8. Advances(p, op, i)
    BY <1>2, <2>2, <2>3, <2>6, <2>7 DEF Advances, FileOps
  <2> QED
    BY <1>1, <1>2, <2>8, SameWorld, JobAdvances
<1>8. JobsInv'
  BY <1>5, <1>6, <1>7
<1> QED
  BY <1>3, <1>4, <1>8 DEF IInv

(* The rebuilt database is removed,                                            *)
LEMMA StepUnlink ==
    ASSUME IInv, NEW p \in Procs, Unlink(p)
    PROVE  IInv'
<1>1. At(p, "unlink") /\ Done(p) /\ rebuilt' = NoTables
      /\ UNCHANGED << files, events, index, History >>
  BY DEF Unlink
<1>2. PICK t : t = NoTables
  OBVIOUS
<1> QED
  BY <1>1, <1>2, RebuildStep

(* gets its tables,                                                            *)
LEMMA StepInitializeSchema ==
    ASSUME IInv, NEW p \in Procs, InitializeSchema(p)
    PROVE  IInv'
<1>1. At(p, "initialize schema") /\ Done(p)
      /\ UNCHANGED << files, events, index, History >>
  BY DEF InitializeSchema
<1>2. JobsInv /\ RebuiltInv
  BY DEF IInv
<1>3. PICK n \in Names : n = jobs[p].project
  BY <1>1, <1>2, AtNamed
<1>4. PICK old : old = IF rebuilt = NoTables THEN EmptyTables ELSE rebuilt
  OBVIOUS
<1>5. TablesOf(old)
  BY <1>2, <1>4, EmptyGood DEF RebuiltInv
<1>6. PICK t : t = [old EXCEPT !.projects = @ \cup {Row(n, n)}]
  OBVIOUS
<1>7. TablesOf(t)
  BY <1>5, <1>6, ProjectInserted
<1>8. rebuilt' = t
  BY <1>3, <1>4, <1>6, Zenon DEF InitializeSchema
<1> QED
  BY <1>1, <1>7, <1>8, RebuildStep

(* the events, unless a line is cut short,                                     *)
LEMMA StepRestoreEvents ==
    ASSUME IInv, NEW p \in Procs, RestoreEvents(p)
    PROVE  IInv'
<1>1. At(p, "restore events") /\ UNCHANGED << files, events, index, History >>
  BY DEF RestoreEvents, Restoring
<1>2. RecordsInv /\ RebuiltInv
  BY DEF IInv
<1>3. PICK old : old = rebuilt
  OBVIOUS
<1>4. old = NoTables \/ TablesOf(old)
  BY <1>2, <1>3 DEF RebuiltInv
<1>5. ASSUME rebuilt' = rebuilt, Raise(p) \/ Done(p) PROVE IInv'
  BY <1>1, <1>3, <1>4, <1>5, RebuildStep
<1>6. ASSUME rebuilt # NoTables, Torn \notin Range(events), Done(p),
             rebuilt' = insert_events(rebuilt, events)
      PROVE  IInv'
  <2>1. PICK lines, t : lines = events /\ t = insert_events(old, lines)
    OBVIOUS
  <2>2. lines \in Seq(Names)
    <3>1. lines \in Seq(Names \cup {Torn})
      BY <1>2, <2>1 DEF RecordsInv
    <3>2. DOMAIN lines = 1 .. Len(lines) /\ Len(lines) \in Nat
          /\ \A m \in 1 .. Len(lines) : lines[m] \in Names \cup {Torn}
      BY <3>1
    <3>3. \A m \in 1 .. Len(lines) : lines[m] # Torn
      BY <1>6, <2>1, <3>2 DEF Range
    <3>4. lines \in [1 .. Len(lines) -> Names]
      BY <3>1, <3>2, <3>3
    <3>5. \A n \in Nat : \A T : \A h \in [1 .. n -> T] : h \in Seq(T)
      OBVIOUS
    <3> QED
      BY <3>2, <3>4, <3>5, Zenon
  <2>3. TablesOf(t)
    BY <1>3, <1>4, <1>6, <2>1, <2>2, EventsRestored
  <2>4. rebuilt' = t
    BY <1>3, <1>6, <2>1
  <2> QED
    BY <1>1, <1>6, <2>3, <2>4, RebuildStep
<1>7. \/ rebuilt' = rebuilt /\ (Raise(p) \/ Done(p))
      \/ /\ rebuilt # NoTables /\ Torn \notin Range(events) /\ Done(p)
         /\ rebuilt' = insert_events(rebuilt, events)
  BY DEF RestoreEvents, Lost, Nothing, Restore, Done
<1> QED
  BY <1>5, <1>6, <1>7

(* and the rows of the ledgers.                                                *)
LEMMA StepRestoreLedgerRows ==
    ASSUME IInv, NEW p \in Procs, RestoreLedgerRows(p)
    PROVE  IInv'
<1>1. At(p, "restore ledgers") /\ UNCHANGED << files, events, index, History >>
  BY DEF RestoreLedgerRows, Restoring
<1>2. RebuiltInv /\ JobsInv
  BY DEF IInv
<1>3. PICK old : old = rebuilt
  OBVIOUS
<1>4. old = NoTables \/ TablesOf(old)
  BY <1>2, <1>3 DEF RebuiltInv
<1>5. ASSUME rebuilt' = rebuilt, Raise(p) \/ Done(p) PROVE IInv'
  BY <1>1, <1>3, <1>4, <1>5, RebuildStep
<1>6. ASSUME rebuilt # NoTables, Done(p), rebuilt' = insert_rows(rebuilt, jobs[p].parsed)
      PROVE  IInv'
  <2>1. PICK steps, t : steps = jobs[p].parsed /\ t = insert_rows(old, steps)
    OBVIOUS
  <2>2. steps \in Seq(Inserts(AllRows))
    BY <1>2, <2>1 DEF JobsInv, Job
  <2>3. TablesOf(t)
    BY <1>3, <1>4, <1>6, <2>1, <2>2, RowsInserted
  <2>4. rebuilt' = t
    BY <1>3, <1>6, <2>1
  <2> QED
    BY <1>1, <1>6, <2>3, <2>4, RebuildStep
<1>7. \/ rebuilt' = rebuilt /\ (Raise(p) \/ Done(p))
      \/ /\ rebuilt # NoTables /\ Done(p)
         /\ rebuilt' = insert_rows(rebuilt, jobs[p].parsed)
  BY DEF RestoreLedgerRows, Lost, Nothing, Restore, Done
<1> QED
  BY <1>5, <1>6, <1>7

(* An explanation, if there is one, goes into the tables.                       *)
LEMMA ExplanationRestored ==
    ASSUME IInv, NEW p \in Procs, NEW op, At(p, op),
           op \in {"restore run", "restore hypothesis"},
           UNCHANGED << files, events, index, History >>,
           NEW of \in Explainable, NEW tables,
           tables = NoTables \/ TablesOf(tables), rebuilt = NoTables => tables = NoTables,
           RestoreExplanation(p, of, tables)
    PROVE  IInv'
<1>1. FilesInv /\ JobsInv /\ RebuiltInv
  BY DEF IInv
<1>2. PICK run, hypothesis : run = files[Explained(of)] /\ hypothesis = Manifest[run].hypothesis
  OBVIOUS
<1>3. PICK new : new = insert_payload(tables, "alternative_explanations", hypothesis, run)
  OBVIOUS
<1>4. run \in Range(Runs) => hypothesis \in Hypotheses
  BY <1>2 DEF Hypotheses
<1>5. run \in Range(Runs) \cup {NoFile, Blank}
  BY <1>1, <1>2 DEF FilesInv
<1>6. ASSUME rebuilt' = tables, Raise(p) \/ Done(p) PROVE IInv'
  BY <1>6, RebuildStep
<1>7. ASSUME run # Blank, run # NoFile, rebuilt # NoTables, rebuilt' = new,
             Becomes(p, Then([jobs[p] EXCEPT !.seen = @ \cup {hypothesis}], << >>))
      PROVE  IInv'
  <2>1. hypothesis \in Hypotheses
    BY <1>4, <1>5, <1>7
  <2>2. tables = NoTables => rebuilt' = new
    BY <1>7
  <2>3. jobs[p].seen \in SUBSET Hypotheses
    BY <1>1 DEF JobsInv, Job
  <2>4. PICK seen \in SUBSET Hypotheses : seen = jobs[p].seen \cup {hypothesis}
    BY <2>1, <2>3
  <2>5. Becomes(p, Then([jobs[p] EXCEPT !.seen = seen], << >>))
    BY <1>7, <2>4, Zenon
  <2>6. CASE TablesOf(tables)
    <3>1. TablesOf(new)
      BY <1>3, <2>1, <2>6, PayloadInserted
    <3> QED
      BY <1>7, <2>5, <3>1, RebuildStep
  <2>7. CASE tables = NoTables
    <3>1. DOMAIN new = {} /\ DOMAIN NoTables = {}
      BY <1>3, <2>7 DEF insert_payload, NoTables
    <3>2. new = NoTables
      BY <1>3, <2>7, <3>1 DEF insert_payload, NoTables
    <3> QED
      BY <1>7, <2>5, <3>2, RebuildStep
  <2> QED
    BY <2>6, <2>7
<1>8. \/ rebuilt' = tables /\ (Raise(p) \/ Done(p))
      \/ rebuilt' = rebuilt /\ rebuilt = NoTables /\ Raise(p)
      \/ /\ run # Blank /\ run # NoFile /\ rebuilt # NoTables /\ rebuilt' = new
         /\ Becomes(p, Then([jobs[p] EXCEPT !.seen = @ \cup {hypothesis}], << >>))
  BY <1>2, <1>3 DEF RestoreExplanation, Restore, Lost
<1>9. rebuilt' = rebuilt /\ rebuilt = NoTables => rebuilt' = tables
  OBVIOUS
<1> QED
  BY <1>6, <1>7, <1>8, <1>9

(* A run is restored with what explains it,                                    *)
LEMMA StepRestoreRun ==
    ASSUME IInv, NEW p \in Procs, RestoreRun(p)
    PROVE  IInv'
<1>1. At(p, "restore run") /\ UNCHANGED << files, events, index, History >>
  BY DEF RestoreRun, Restoring
<1>2. RebuiltInv /\ JobsInv
  BY DEF IInv
<1>3. PICK old : old = rebuilt
  OBVIOUS
<1>4. old = NoTables \/ TablesOf(old)
  BY <1>2, <1>3 DEF RebuiltInv
<1>5. CASE rebuilt = NoTables
  <2>1. Raise(p) /\ rebuilt' = old
    BY <1>3, <1>5 DEF RestoreRun, Lost
  <2> QED
    BY <1>1, <1>4, <2>1, RebuildStep
<1>6. CASE rebuilt # NoTables
  <2>1. Arg(p) \in Range(Runs)
    <3>1. /\ Head(jobs[p].todo) \in Steps(valid) /\ Head(jobs[p].todo)[1] = "restore run"
          /\ Head(jobs[p].todo)[2] = Arg(p)
      BY <1>1, <1>2, Acting DEF AtStep
    <3> QED
      BY <3>1, StepShape
  <2>2. PICK of : of = Arg(p)
    OBVIOUS
  <2>3. PICK t, manifest : manifest = Manifest[of] /\ t = insert_payload(old, "runs", of, manifest)
    OBVIOUS
  <2>4. TablesOf(t)
    BY <1>3, <1>4, <1>6, <2>3, PayloadInserted, TableNames
  <2>5. RestoreExplanation(p, of, t)
    BY <1>3, <1>6, <2>2, <2>3, Zenon DEF RestoreRun
  <2>6. of \in Explainable
    BY <2>1, <2>2 DEF Explainable
  <2> QED
    BY <1>1, <1>6, <2>4, <2>5, <2>6, ExplanationRestored
<1> QED
  BY <1>5, <1>6

(* or a hypothesis is.                                                         *)
LEMMA StepRestoreHypothesis ==
    ASSUME IInv, NEW p \in Procs, RestoreHypothesis(p)
    PROVE  IInv'
<1>1. At(p, "restore hypothesis") /\ UNCHANGED << files, events, index, History >>
  BY DEF RestoreHypothesis, Restoring
<1>2. RebuiltInv /\ JobsInv
  BY DEF IInv
<1>3. PICK old, of : old = rebuilt /\ of = Arg(p)
  OBVIOUS
<1>4. old = NoTables \/ TablesOf(old)
  BY <1>2, <1>3 DEF RebuiltInv
<1>5. of \in Explainable
  <2>1. /\ Head(jobs[p].todo) \in Steps(valid) /\ Head(jobs[p].todo)[1] = "restore hypothesis"
        /\ Head(jobs[p].todo)[2] = Arg(p)
    BY <1>1, <1>2, Acting DEF AtStep
  <2> QED
    BY <1>3, <2>1, StepShape DEF Explainable
<1>6. RestoreExplanation(p, of, old)
  BY <1>3, Zenon DEF RestoreHypothesis
<1> QED
  BY <1>1, <1>3, <1>4, <1>5, <1>6, ExplanationRestored

(* The user saves a ledger.                                                     *)
LEMMA StepSaved ==
    ASSUME IInv, NEW kind \in Kinds, NEW text \in Seq(Sections(kind)), Saved(kind, text)
    PROVE  IInv'
<1>1. /\ files' = [files EXCEPT ![Ledger(kind)] = text]
      /\ valid' = [valid EXCEPT ![kind] =
                      IF HasErrors(kind, text) THEN @ ELSE @ \cup Range(Entries(kind, text))]
      /\ alone' = {} /\ fresh' = {}
      /\ UNCHANGED << events, index, rebuilt, jobs, finished >>
  BY DEF Saved
<1>2. FilesInv /\ RecordsInv /\ IndexInv /\ RebuiltInv /\ JobsInv
  BY DEF IInv
<1>3. /\ Ledger(kind) \in Paths /\ Ledger(kind) # Toml
      /\ \A k \in Kinds : k # kind => Ledger(k) # Ledger(kind)
      /\ \A k \in Proposable : Proposal(k) # Ledger(kind)
      /\ \A x \in Explainable : Explained(x) # Ledger(kind)
      /\ \A at \in OwnedPaths : at \in Paths
  BY PathsDiffer DEF OwnedPaths
<1>4. /\ DOMAIN files = Paths /\ DOMAIN files' = Paths /\ files'[Ledger(kind)] = text
      /\ \A at \in Paths : at # Ledger(kind) => files'[at] = files[at]
  BY <1>1, <1>2, <1>3 DEF FilesInv
<1>5. PICK added : added = IF HasErrors(kind, text) THEN {} ELSE Range(Entries(kind, text))
  OBVIOUS
<1>6. added \subseteq AllRows[kind]
  <2>1. Entries(kind, text) \in Seq(AllRows[kind])
    BY EntriesTyped
  <2>2. PICK rows : rows = Entries(kind, text)
    OBVIOUS
  <2>3. Range(rows) \subseteq AllRows[kind]
    BY <2>1, <2>2 DEF Range
  <2> QED
    BY <1>5, <2>2, <2>3
<1>7. /\ DOMAIN valid = Kinds /\ DOMAIN valid' = Kinds
      /\ valid'[kind] = valid[kind] \cup added
      /\ \A k \in Kinds : k # kind => valid'[k] = valid[k]
  <2>1. valid' = [valid EXCEPT ![kind] = @ \cup added]
    BY <1>1, <1>5
  <2> QED
    BY <1>2, <2>1 DEF RecordsInv
<1>8. /\ \A k \in Kinds : valid[k] \subseteq AllRows[k]
      /\ \A k \in Kinds : ~ HasErrors(k, files[Ledger(k)]) =>
                            Range(Entries(k, files[Ledger(k)])) \subseteq valid[k]
      /\ finished => (\A path \in OwnedPaths : files[path] # NoFile) /\ events # << >>
      /\ events \in Seq(Names \cup {Torn}) /\ finished \in BOOLEAN
  BY <1>2 DEF RecordsInv
<1>9. text # NoFile
  BY NoContent
<1>10. FilesInv'
  <2>1. files'[Toml] = files[Toml] /\ files[Toml] \in Names \cup {NoFile, Blank}
    BY <1>2, <1>3, <1>4, PathsDiffer DEF FilesInv
  <2>2. \A k \in Kinds : files'[Ledger(k)] \in Seq(Sections(k)) \cup {NoFile, Blank}
    <3> SUFFICES ASSUME NEW k \in Kinds
                 PROVE  files'[Ledger(k)] \in Seq(Sections(k)) \cup {NoFile, Blank}
      OBVIOUS
    <3>1. CASE k = kind
      BY <1>4, <3>1
    <3>2. CASE k # kind
      <4>1. files'[Ledger(k)] = files[Ledger(k)]
        BY <1>3, <1>4, <3>2, PathsDiffer
      <4> QED
        BY <1>2, <4>1 DEF FilesInv
    <3> QED
      BY <3>1, <3>2
  <2>3. \A k \in Proposable : files'[Proposal(k)] = files[Proposal(k)]
    BY <1>3, <1>4, PathsDiffer
  <2>4. \A x \in Explainable : files'[Explained(x)] = files[Explained(x)]
    BY <1>3, <1>4, PathsDiffer
  <2>5. /\ \A k \in Proposable : files[Proposal(k)] \in Proposals(k) \cup {NoFile, Blank}
        /\ \A x \in Explainable : files[Explained(x)] \in Range(Runs) \cup {NoFile, Blank}
    BY <1>2 DEF FilesInv
  <2> QED
    BY <1>4, <2>1, <2>2, <2>3, <2>4, <2>5 DEF FilesInv
<1>11. \A path \in OwnedPaths : files[path] # NoFile => files'[path] # NoFile
  BY <1>3, <1>4, <1>9
<1>12. RecordsInv'
  <2>1. ASSUME NEW k \in Kinds
        PROVE  (~ HasErrors(k, files[Ledger(k)]) =>
                  Range(Entries(k, files[Ledger(k)])) \subseteq valid[k])'
    <3>1. CASE k = kind
      <4>1. files'[Ledger(k)] = text /\ added \subseteq valid'[k]
        BY <1>4, <1>7, <3>1
      <4>2. ~ HasErrors(k, text) => Range(Entries(k, text)) = added
        BY <1>5, <3>1
      <4> QED
        BY <4>1, <4>2
    <3>2. CASE k # kind
      <4>1. files'[Ledger(k)] = files[Ledger(k)] /\ valid'[k] = valid[k]
        BY <1>3, <1>4, <1>7, <3>2, PathsDiffer
      <4> QED
        BY <1>8, <4>1
    <3> QED
      BY <3>1, <3>2
  <2>2. \A k \in Kinds : valid'[k] \subseteq AllRows[k]
    BY <1>6, <1>7, <1>8
  <2>3. finished' => (\A path \in OwnedPaths : files'[path] # NoFile) /\ events' # << >>
    BY <1>1, <1>8, <1>11
  <2>4. events' \in Seq(Names \cup {Torn}) /\ finished' \in BOOLEAN
        /\ alone' \subseteq Procs /\ fresh' \subseteq {"validate", "rebuild"}
    BY <1>1, <1>8
  <2>5. DOMAIN valid' = Kinds
    BY <1>7
  <2> QED
    BY <2>1, <2>2, <2>3, <2>4, <2>5 DEF RecordsInv
<1>13. \A k \in Kinds : valid[k] \subseteq valid'[k]
  BY <1>7
<1>14. Later(World, World')
  BY <1>1, <1>11, <1>13, MoreWorld
<1>15. IndexInv'
  <2>1. TablesOf(index) /\ \A k \in Kinds : index[k] \subseteq valid[k]
    BY <1>2 DEF IndexInv
  <2>2. TablesOf(index)'
    BY <1>1, <2>1 DEF TablesOf
  <2>3. \A k \in Kinds : index'[k] \subseteq valid'[k]
    BY <1>1, <1>13, <2>1
  <2> QED
    BY <2>2, <2>3 DEF IndexInv
<1>16. RebuiltInv'
  BY <1>1, <1>2, Kept
<1>17. JobsInv'
  <2>1. jobs' = jobs /\ jobs \in [Procs -> Job]
    BY <1>1, <1>2 DEF JobsInv
  <2>2. ASSUME NEW q \in Procs PROVE JobGood(jobs[q], World')
    <3>1. PICK j, w, v : j = jobs[q] /\ w = World /\ v = World'
      OBVIOUS
    <3>2. JobGood(j, w) /\ Later(w, v)
      BY <1>2, <1>14, <3>1 DEF JobsInv
    <3>3. JobGood(j, v)
      BY <3>2, JobLater
    <3> QED
      BY <3>1, <3>3
  <2> QED
    BY <2>1, <2>2 DEF JobsInv
<1> QED
  BY <1>10, <1>12, <1>15, <1>16, <1>17 DEF IInv

(* The user saves a text,                                                      *)
LEMMA StepEdit ==
    ASSUME IInv, NEW kind \in Kinds, Edit(kind)
    PROVE  IInv'
<1>1. PICK text \in Texts[kind] : Saved(kind, text)
  BY DEF Edit
<1>2. text \in Seq(Sections(kind))
  BY WorkspaceTexts
<1> QED
  BY <1>1, <1>2, StepSaved

(* or a proposal at the end of a ledger.                                       *)
LEMMA StepApprove ==
    ASSUME IInv, NEW kind \in Kinds, Approve(kind)
    PROVE  IInv'
<1>1. /\ kind \in Proposable
      /\ files[Proposal(kind)] \notin {NoFile, Blank} /\ files[Ledger(kind)] \notin {NoFile, Blank}
      /\ Saved(kind, Append(files[Ledger(kind)], files[Proposal(kind)]))
  BY DEF Approve, Proposable
<1>2. files[Proposal(kind)] \in Proposals(kind) /\ files[Ledger(kind)] \in Seq(Sections(kind))
  BY <1>1 DEF IInv, FilesInv
<1>3. Proposals(kind) \subseteq Sections(kind)
  <2>1. \A A, B : B \subseteq A \cup B
    OBVIOUS
  <2> DEFINE A == (UNION { Range(text) : text \in Texts[kind] })
             B == Proposals(kind)
  <2>2. Sections(kind) = A \cup B
    BY DEF Sections
  <2> HIDE DEF A, B
  <2>3. B \subseteq Sections(kind)
    BY <2>1, <2>2
  <2> QED
    BY <2>3 DEF B
<1>4. Append(files[Ledger(kind)], files[Proposal(kind)]) \in Seq(Sections(kind))
  BY <1>2, <1>3
<1>5. PICK text : text = Append(files[Ledger(kind)], files[Proposal(kind)])
  OBVIOUS
<1> QED
  BY <1>1, <1>4, <1>5, StepSaved

(* Whoever is killed has no steps left; it may leave a line cut short.         *)
LEMMA StepCrash ==
    ASSUME IInv, NEW p \in Procs, Crash(p)
    PROVE  IInv'
<1>1. Raise(p) /\ UNCHANGED << files, index, rebuilt, valid, finished, alone, fresh >>
      /\ (events' = events \/ AppendLine(Torn))
  BY DEF Crash
<1>2. FilesInv /\ RecordsInv /\ IndexInv /\ RebuiltInv /\ JobsInv
  BY DEF IInv
<1>3. FilesInv' /\ IndexInv' /\ RebuiltInv'
  BY <1>1, <1>2, Kept
<1>4. RecordsInv' /\ Later(World, World')
  <2>1. CASE events' = events
    BY <1>1, <1>2, <2>1, Kept, SameWorld
  <2>2. CASE AppendLine(Torn)
    <3>1. PICK line : line = Torn
      OBVIOUS
    <3>2. line \in Names \cup {Torn} /\ AppendLine(line)
      BY <2>2, <3>1
    <3> QED
      BY <1>1, <1>2, <3>2, LineAppended
  <2> QED
    BY <1>1, <2>1, <2>2
<1>5. JobsInv'
  BY <1>1, <1>2, <1>4, JobEnds
<1> QED
  BY <1>3, <1>4, <1>5 DEF IInv

(* Who returns has done all it had to do.                                       *)
LEMMA StepReturn ==
    ASSUME IInv, NEW p \in Procs, Return(p)
    PROVE  IInv'
<1>1. At(p, "return") /\ Becomes(p, NoJob) /\ finished' = (finished \/ jobs[p].created)
      /\ UNCHANGED << files, events, index, rebuilt, valid, alone >>
      /\ (fresh' = fresh \/ (fresh' = fresh \cup {jobs[p].name}
                              /\ jobs[p].name \in {"validate", "rebuild"}))
  BY DEF Return
<1>2. FilesInv /\ RecordsInv /\ IndexInv /\ RebuiltInv /\ JobsInv
  BY DEF IInv
<1>3. FilesInv' /\ IndexInv' /\ RebuiltInv'
  BY <1>1, <1>2, Kept
<1>4. AtStep(jobs[p], Head(jobs[p].todo), valid) /\ JobGood(jobs[p], World)
      /\ Head(jobs[p].todo)[1] = "return"
  BY <1>1, <1>2, Acting
<1>5. PICK j, h, L : j = jobs[p] /\ h = Head(jobs[p].todo) /\ L = j.todo
  OBVIOUS
<1>6. L \in Seq(AnyStep) /\ L # << >> /\ L[1] = Return1 /\ 1 \in 1 .. Len(L) /\ Len(L) \in Nat
  <2>1. h \in Steps(valid) /\ h[1] \in PlainOps
    BY <1>4, <1>5 DEF AtStep, PlainOps
  <2>2. h = << h[1] >>
    BY <2>1, StepShape
  <2> QED
    BY <1>4, <1>5, <2>2 DEF Return1, AtStep, Job
<1>7. Len(L) = 1
  <2>1. Ends(L, Return1)
    BY <1>4, <1>5 DEF JobGood
  <2> QED
    BY <1>6, <2>1 DEF Ends
<1>8. /\ ~ Has(L, AppendsEvent) /\ \A path : ~ Has(L, On(path))
  <2>1. \A m \in 1 .. Len(L) : L[m] = h /\ h[1] = "return"
    BY <1>4, <1>5, <1>6, <1>7 DEF AtStep
  <2> QED
    BY <2>1, StepSorts DEF Has, FileOps
<1>9. j.created => (\A path \in OwnedPaths : files[path] # NoFile) /\ events # << >>
  <2> SUFFICES ASSUME j.created
               PROVE  (\A path \in OwnedPaths : files[path] # NoFile) /\ events # << >>
    OBVIOUS
  <2>1. Creates(L, World)
    BY <1>4, <1>5 DEF JobGood
  <2>2. Toml \in World.there /\ World.lines /\ \A k \in Kinds : Ledger(k) \in World.there
    BY <1>8, <2>1 DEF Creates
  <2> QED
    BY <2>2, WorldParts DEF OwnedPaths
<1>10. j.created \in BOOLEAN /\ finished \in BOOLEAN
  BY <1>2, <1>4, <1>5 DEF AtStep, Job, RecordsInv
<1>11. RecordsInv'
  <2>1. /\ finished' \in BOOLEAN
        /\ finished' => (\A path \in OwnedPaths : files[path] # NoFile) /\ events # << >>
    BY <1>1, <1>2, <1>5, <1>9, <1>10 DEF RecordsInv
  <2>2. alone' \subseteq Procs /\ fresh' \subseteq {"validate", "rebuild"}
    BY <1>1, <1>2 DEF RecordsInv
  <2> QED
    BY <1>1, <1>2, <2>1, <2>2 DEF RecordsInv
<1>12. Later(World, World')
  BY <1>1, <1>2, MoreWorld
<1>13. JobsInv'
  <2>1. Raise(p)
    BY <1>1 DEF Raise
  <2> QED
    BY <1>2, <1>12, <2>1, JobEnds
<1> QED
  BY <1>3, <1>11, <1>13 DEF IInv

-----------------------------------------------------------------------------
(* A command begins.                                                            *)

(* The commands have names.                                                    *)
LEMMA CommandNames ==
    ASSUME NEW c \in Commands
    PROVE  c.name \in {"init", "validate", "propose", "explain", "rebuild"}
<1> DEFINE A == { [name |-> "init", steps |-> init(n)] : n \in Names }
           B == { [name |-> "propose", steps |-> propose_run_ledger_row(r)] : r \in Reviewed }
           C == { [name |-> "propose", steps |-> propose_claim_update(d)] : d \in Cards }
           D == { [name |-> "explain", steps |-> explain(r)] : r \in Range(Runs) }
           V == [name |-> "validate", steps |-> validate_ledgers]
           R == [name |-> "rebuild", steps |-> rebuild_index]
<1>1. \/ c \in A \/ c = V \/ c \in B \/ c \in C \/ c \in D \/ c = R
  <2> HIDE DEF A, B, C, D, V, R
  <2>1. Commands = A \cup {V} \cup B \cup C \cup D \cup {R}
    BY Zenon DEF Commands, A, B, C, D, V, R
  <2> QED
    BY <2>1
<1>2. c \in A => c.name = "init"
  OBVIOUS
<1>3. c \in B => c.name = "propose"
  OBVIOUS
<1>4. c \in C => c.name = "propose"
  OBVIOUS
<1>5. c \in D => c.name = "explain"
  OBVIOUS
<1>6. V.name = "validate" /\ R.name = "rebuild"
  OBVIOUS
<1> HIDE DEF A, B, C, D, V, R
<1> QED
  BY <1>1, <1>2, <1>3, <1>4, <1>5, <1>6

(* What a command has to do is in order, and returns once.                      *)
LEMMA CommandInOrder ==
    ASSUME NEW c \in Commands
    PROVE  /\ c.steps \in Seq(OtherSteps) /\ ~ Has(c.steps, {Return1}) /\ ~ Has(c.steps, Loud)
           /\ Ordered(c.steps, FALSE, FALSE)
<1>1. (\E n \in Names : c.steps = init(n)) \/ c.steps \in Found
  BY CommandsFound
<1>2. ASSUME NEW n \in Names, c.steps = init(n)
      PROVE  /\ c.steps \in Seq(OtherSteps) /\ ~ Has(c.steps, {Return1})
             /\ ~ Has(c.steps, Loud) /\ Ordered(c.steps, FALSE, FALSE)
  BY <1>2, InitOrdered
<1>3. CASE c.steps \in Found
  BY <1>3, FoundOrdered
<1> QED
  BY <1>1, <1>2, <1>3

(* The return comes last.                                                      *)
LEMMA TodoBegun ==
    ASSUME NEW c \in Commands, NEW rows, NEW toml, NEW named
    PROVE  LET L == Append(c.steps, << "return" >>)
           IN  /\ L \in Seq(Steps(rows)) /\ Ends(L, Return1) /\ Ordered(L, toml, named)
               /\ ~ Has(L, Loud)
<1> DEFINE E == << Return1 >>
           L == c.steps \o E
<1>1. /\ c.steps \in Seq(OtherSteps) /\ ~ Has(c.steps, {Return1}) /\ ~ Has(c.steps, Loud)
      /\ Ordered(c.steps, FALSE, FALSE)
  BY CommandInOrder
<1>2. OtherSteps \subseteq Steps(rows)
  BY DEF Steps
<1>3. Return1 \in OtherSteps
  BY DEF OtherSteps, PlainSteps, PlainOps, Return1
<1>4. E \in Seq(Steps(rows)) /\ E # << >> /\ Len(E) = 1 /\ E[1] = Return1
  BY <1>2, <1>3
<1>5. c.steps \in Seq(Steps(rows))
  BY <1>1, <1>2
<1>6. Append(c.steps, << "return" >>) = L
  BY <1>5 DEF Return1
<1> HIDE DEF E
<1>7. Ends(E, Return1)
  BY <1>4 DEF Ends
<1>8. Return1 \notin Loud /\ Return1 \notin ReadsToml /\ Return1 \notin ReadsEvents
      /\ Return1 \notin NamesProject
  <2>1. Return1[1] = "return"
    BY DEF Return1
  <2>2. << "read events" >>[1] = "read events"
    OBVIOUS
  <2> QED
    BY <2>1, <2>2, StepSorts DEF ReadsEvents
<1>9. ~ Has(E, Loud) /\ Ordered(E, FALSE, FALSE)
  BY <1>4, <1>8 DEF Has, Ordered, Precedes, Follows
<1>10. L \in Seq(Steps(rows))
  BY <1>4, <1>5
<1>11. Ends(L, Return1)
  BY <1>1, <1>4, <1>5, <1>7, ConcatEnds
<1>12. ~ Has(L, Loud)
  BY <1>1, <1>4, <1>5, <1>9, ConcatHas
<1>13. Ordered(L, FALSE, FALSE)
  BY <1>1, <1>4, <1>5, <1>9, OrderedConcat
<1> HIDE DEF L
<1>14. Ordered(L, toml, named)
  BY <1>13, OrderedMore
<1> QED
  BY <1>6, <1>10, <1>11, <1>12, <1>14

(* A job depends on these parts of its record.                                  *)
LEMMA SameGood ==
    ASSUME NEW j, NEW i, NEW w, JobGood(j, w), i.todo = j.todo, i.errors = j.errors,
           i.parsed = j.parsed, i.project = j.project, i.created = j.created, i.late = j.late
    PROVE  JobGood(i, w)
BY DEF JobGood

(* A command begins with a good job, a rebuild also with what is indexed       *)
(* then.                                                                       *)
LEMMA Begun ==
    ASSUME RecordsInv, IndexInv, NEW c \in Commands, NEW beside
    PROVE  /\ Began(c) \in Job /\ JobGood(Began(c), World)
           /\ BeganRebuild(c, beside) \in Job /\ JobGood(BeganRebuild(c, beside), World)
<1> DEFINE i == Began(c)
           k == BeganRebuild(c, beside)
           L == Append(c.steps, << "return" >>)
<1>1. /\ L \in Seq(AnyStep) /\ L \in Seq(Steps(World.rows)) /\ Ends(L, Return1)
      /\ Ordered(L, Toml \in World.there, NoFile \in Names) /\ ~ Has(L, Loud)
  <2>1. PICK toml, named : toml = (Toml \in World.there) /\ named = (NoFile \in Names)
    OBVIOUS
  <2>2. L \in Seq(AnyStep)
    BY TodoBegun DEF AnyStep
  <2>3. /\ L \in Seq(Steps(World.rows)) /\ Ends(L, Return1)
        /\ Ordered(L, toml, named) /\ ~ Has(L, Loud)
    BY TodoBegun
  <2> QED
    BY <2>1, <2>2, <2>3, Zenon
<1> HIDE DEF L
<1>2. /\ i = [name |-> c.name, todo |-> L, project |-> NoFile, parsed |-> << >>,
              errors |-> FALSE, seen |-> {}, created |-> FALSE, late |-> finished,
              overlapped |-> FALSE, events |-> EmptyBag, explained |-> {}]
  <2>1. i = [NoJob EXCEPT !.name = c.name, !.late = finished, !.todo = L]
    BY Zenon DEF Began, L
  <2> QED
    BY <2>1 DEF NoJob
<1>3. k = [i EXCEPT !.overlapped = (beside # {}), !.events = index.events,
                    !.explained = RefsOf(index.alternative_explanations)]
  BY DEF BeganRebuild
<1>4. c.name \in {"none", "init", "validate", "propose", "explain", "rebuild"}
  BY CommandNames
<1>5. finished \in BOOLEAN /\ World.done = finished
  BY WorldParts DEF RecordsInv
<1>6. index.events \in EventBags /\ RefsOf(index.alternative_explanations) \in SUBSET Hypotheses
  BY DEF IndexInv, TablesOf
<1>7. EmptyBag \in EventBags
  BY OneMore
<1> HIDE DEF i, k
<1>8. i \in Job
  BY <1>1, <1>2, <1>4, <1>5, <1>7 DEF Job
<1>9. k \in Job
  BY <1>3, <1>6, <1>8 DEF Job
<1>10. /\ i.todo = L /\ i.errors = FALSE /\ i.parsed = << >> /\ i.project = NoFile
       /\ i.created = FALSE /\ i.late = finished
  BY <1>2
<1>11. << >> \in Seq(Inserts(World.rows))
  OBVIOUS
<1>12. JobGood(i, World)
  BY <1>1, <1>5, <1>10, <1>11 DEF JobGood
<1>13. /\ k.todo = i.todo /\ k.errors = i.errors /\ k.parsed = i.parsed
       /\ k.project = i.project /\ k.created = i.created /\ k.late = i.late
  BY <1>2, <1>3
<1>14. JobGood(k, World)
  BY <1>12, <1>13, SameGood
<1> QED
  BY <1>8, <1>9, <1>12, <1>14 DEF i, k

(* Other commands only note that they are overlapped.                          *)
LEMMA StepBegin ==
    ASSUME IInv, NEW p \in Procs, Begin(p)
    PROVE  IInv'
<1>1. FilesInv /\ RecordsInv /\ IndexInv /\ RebuiltInv /\ JobsInv
  BY DEF IInv
<1>2. /\ (alone' = {p} \/ alone' = {})
      /\ UNCHANGED << files, events, index, rebuilt, valid, finished >>
      /\ \E c \in Commands, beside \in SUBSET Procs :
           /\ jobs' = [q \in Procs |->
                  CASE q # p -> [jobs[q] EXCEPT !.overlapped = @ \/ q \in beside]
                    [] q = p /\ c.name = "rebuild" -> BeganRebuild(c, beside)
                    [] q = p /\ c.name # "rebuild" -> Began(c)]
           /\ fresh' = fresh \ {c.name}
  BY DEF Begin
<1>3. PICK c \in Commands, beside \in SUBSET Procs :
        /\ jobs' = [q \in Procs |->
               CASE q # p -> [jobs[q] EXCEPT !.overlapped = @ \/ q \in beside]
                 [] q = p /\ c.name = "rebuild" -> BeganRebuild(c, beside)
                 [] q = p /\ c.name # "rebuild" -> Began(c)]
        /\ fresh' = fresh \ {c.name}
  BY <1>2
<1>4. FilesInv' /\ IndexInv' /\ RebuiltInv'
  BY <1>1, <1>2, Kept
<1>5. RecordsInv'
  <2>1. /\ events \in Seq(Names \cup {Torn})
        /\ DOMAIN valid = Kinds /\ (\A k \in Kinds : valid[k] \subseteq AllRows[k])
        /\ (\A k \in Kinds : ~ HasErrors(k, files[Ledger(k)]) =>
                            Range(Entries(k, files[Ledger(k)])) \subseteq valid[k])
        /\ finished \in BOOLEAN
        /\ (finished => (\A path \in OwnedPaths : files[path] # NoFile) /\ events # << >>)
        /\ fresh \subseteq {"validate", "rebuild"}
    BY <1>1 DEF RecordsInv
  <2>2. alone' \subseteq Procs /\ fresh' \subseteq {"validate", "rebuild"}
    BY <1>2, <1>3, <2>1
  <2> QED
    BY <1>2, <2>1, <2>2 DEF RecordsInv
<1>6. World' = World
  BY <1>2, SameWorld
<1>7. JobsInv'
  <2>1. jobs \in [Procs -> Job] /\ \A q \in Procs : JobGood(jobs[q], World)
    BY <1>1 DEF JobsInv
  <2>2. DOMAIN jobs' = Procs
    BY <1>3
  <2>3. PICK b, r : b = Began(c) /\ r = BeganRebuild(c, beside)
    OBVIOUS
  <2>4. b \in Job /\ JobGood(b, World) /\ r \in Job /\ JobGood(r, World)
    BY <1>1, <2>3, Begun
  <2>5. jobs' = [q \in Procs |->
               CASE q # p -> [jobs[q] EXCEPT !.overlapped = @ \/ q \in beside]
                 [] q = p /\ c.name = "rebuild" -> r
                 [] q = p /\ c.name # "rebuild" -> b]
    BY <1>3, <2>3, Zenon
  <2>6. jobs'[p] = r \/ jobs'[p] = b
    BY <2>5
  <2>7. ASSUME NEW q \in Procs, q # p PROVE jobs'[q] \in Job /\ JobGood(jobs'[q], World)
    <3>1. jobs'[q] = [jobs[q] EXCEPT !.overlapped = @ \/ q \in beside]
      BY <2>5, <2>7
    <3>2. PICK j : j = jobs[q]
      OBVIOUS
    <3>3. PICK i : i = [j EXCEPT !.overlapped = @ \/ q \in beside]
      OBVIOUS
    <3>4. j \in Job /\ JobGood(j, World)
      BY <2>1, <3>2
    <3>5. i \in Job
      BY <3>3, <3>4 DEF Job
    <3>6. /\ i.todo = j.todo /\ i.errors = j.errors /\ i.parsed = j.parsed
          /\ i.project = j.project /\ i.created = j.created /\ i.late = j.late
      BY <3>3, <3>4 DEF Job
    <3>7. JobGood(i, World)
      BY <3>4, <3>6, SameGood
    <3> QED
      BY <3>1, <3>2, <3>3, <3>5, <3>7
  <2>8. \A q \in Procs : jobs'[q] \in Job /\ JobGood(jobs'[q], World)
    BY <2>4, <2>6, <2>7
  <2>9. jobs' \in [Procs -> Job]
    <3>1. jobs' = [q \in Procs |-> IF q # p THEN [jobs[q] EXCEPT !.overlapped = @ \/ q \in beside]
                                   ELSE IF c.name = "rebuild" THEN r ELSE b]
      BY <2>5
    <3>2. \A S, T : \A f : f = [q \in S |-> f[q]] /\ (\A q \in S : f[q] \in T) => f \in [S -> T]
      OBVIOUS
    <3>3. jobs' = [q \in Procs |-> jobs'[q]]
      BY <3>1
    <3> QED
      BY <2>8, <3>2, <3>3, Zenon
  <2> QED
    BY <1>6, <2>8, <2>9 DEF JobsInv
<1> QED
  BY <1>4, <1>5, <1>7 DEF IInv

-----------------------------------------------------------------------------
(* The start, and every step.                                                   *)

(* A workspace with nothing in it, or one that an init has made.                *)
LEMMA InitFiles ==
    ASSUME Init
    PROVE  /\ FilesInv /\ events \in Seq(Names \cup {Torn})
           /\ \A k \in Kinds : Entries(k, files[Ledger(k)]) = << >>
           /\ finished \in BOOLEAN
           /\ finished => (\A path \in OwnedPaths : files[path] # NoFile) /\ events # << >>
           /\ \A x \in Explainable : files[Explained(x)] = NoFile
<1> DEFINE Good ==
             /\ FilesInv /\ events \in Seq(Names \cup {Torn})
             /\ \A k \in Kinds : Entries(k, files[Ledger(k)]) = << >>
             /\ finished \in BOOLEAN
             /\ finished => (\A path \in OwnedPaths : files[path] # NoFile) /\ events # << >>
             /\ \A x \in Explainable : files[Explained(x)] = NoFile
<1>1. ASSUME files = [path \in Paths |-> NoFile], events = << >>, finished = FALSE PROVE Good
  <2>1. DOMAIN files = Paths /\ \A path \in Paths : files[path] = NoFile
    BY <1>1
  <2>2. FilesInv
    BY <2>1, PathsDiffer DEF FilesInv
  <2>3. \A k \in Kinds : Entries(k, files[Ledger(k)]) = << >>
    BY <2>1, PathsDiffer, EntriesTyped
  <2>4. events \in Seq(Names \cup {Torn})
    BY <1>1
  <2>5. \A x \in Explainable : files[Explained(x)] = NoFile
    BY <2>1, PathsDiffer
  <2> QED
    BY <1>1, <2>2, <2>3, <2>4, <2>5
<1>2. ASSUME NEW name \in Initialised,
             files = [path \in Paths |->
                         CASE path = Toml -> name
                           [] \E k \in Kinds : path = Ledger(k) -> << >>
                           [] OTHER -> NoFile],
             events = << name >>, finished = TRUE
      PROVE  Good
  <2>1. name \in Names
    BY WorkspaceBounds
  <2>2. PICK none, empty, toml, ledgers :
          /\ none = NoFile /\ empty = << >> /\ toml = Toml
          /\ ledgers = { Ledger(k) : k \in Kinds }
    OBVIOUS
  <2>3. \A path : (\E k \in Kinds : path = Ledger(k)) <=> path \in ledgers
    BY <2>2
  <2>4. toml \notin ledgers
    BY <2>2, PathsDiffer
  <2>5. files = [path \in Paths |-> IF path = toml THEN name
                                   ELSE IF path \in ledgers THEN empty ELSE none]
    <3>1. ASSUME NEW path
          PROVE  (CASE path = Toml -> name
                    [] \E k \in Kinds : path = Ledger(k) -> << >>
                    [] OTHER -> NoFile)
                 = (IF path = toml THEN name ELSE IF path \in ledgers THEN empty ELSE none)
      BY <2>2, <2>3, <2>4
    <3> QED
      BY <1>2, <3>1, Zenon
  <2>6. DOMAIN files = Paths
    BY <2>5
  <2>7. \A path \in Paths : /\ path = toml => files[path] = name
                            /\ path \in ledgers => files[path] = empty
                            /\ path # toml /\ path \notin ledgers => files[path] = none
    BY <2>4, <2>5
  <2>8. files[Toml] = name /\ \A k \in Kinds : files[Ledger(k)] = << >>
    BY <2>2, <2>7, PathsDiffer
  <2>9. /\ \A k \in Proposable : files[Proposal(k)] = NoFile
        /\ \A x \in Explainable : files[Explained(x)] = NoFile
    <3>1. /\ \A k \in Proposable : Proposal(k) \in Paths /\ Proposal(k) # toml
                                   /\ Proposal(k) \notin ledgers
          /\ \A x \in Explainable : Explained(x) \in Paths /\ Explained(x) # toml
                                    /\ Explained(x) \notin ledgers
      BY <2>2, PathsDiffer
    <3> QED
      BY <2>2, <2>7, <3>1
  <2>10. FilesInv
    BY <2>1, <2>6, <2>8, <2>9, NoContent DEF FilesInv
  <2>11. \A k \in Kinds : Entries(k, files[Ledger(k)]) = << >>
    BY <2>8, NoContent, EntriesTyped
  <2>12. \A path \in OwnedPaths : files[path] # NoFile
    BY <2>1, <2>8, NoContent DEF OwnedPaths
  <2>13. events \in Seq(Names \cup {Torn}) /\ events # << >>
    BY <1>2, <2>1
  <2> QED
    BY <1>2, <2>9, <2>10, <2>11, <2>12, <2>13
<1>3. \/ files = [path \in Paths |-> NoFile] /\ events = << >> /\ finished = FALSE
      \/ \E name \in Initialised :
           /\ files = [path \in Paths |->
                         CASE path = Toml -> name
                           [] \E k \in Kinds : path = Ledger(k) -> << >>
                           [] OTHER -> NoFile]
           /\ events = << name >> /\ finished = TRUE
  BY Zenon DEF Init
<1>4. Good
  <2> HIDE DEF Good
  <2> QED
    BY <1>1, <1>2, <1>3, Zenon
<1> QED
  BY <1>4

(* The live index is new, or has the project and its event.                    *)
LEMMA InitIndex ==
    ASSUME Init
    PROVE  TablesOf(index) /\ \A k \in Kinds : index[k] = {}
<1>1. CASE index = EmptyTables
  BY <1>1, EmptyGood, TableNames
<1>2. ASSUME NEW name \in Initialised,
             index = [EmptyTables EXCEPT !.projects = {Row(name, name)},
                                         !.events = BagAdd(EmptyBag, name)]
      PROVE  TablesOf(index) /\ \A k \in Kinds : index[k] = {}
  <2>1. name \in Names
    BY WorkspaceBounds
  <2>2. PICK bag, t : bag = BagAdd(EmptyBag, name) /\ t = EmptyTables
    OBVIOUS
  <2>3. bag \in EventBags /\ TablesOf(t) /\ (\A k \in Kinds : t[k] = {}) /\ t.projects = {}
    BY <2>1, <2>2, OneMore, EmptyGood, TableNames
  <2>4. PICK u : u = [t EXCEPT !.projects = @ \cup {Row(name, name)}]
    OBVIOUS
  <2>5. TablesOf(u) /\ \A k \in Kinds : u[k] = t[k]
    BY <2>1, <2>3, <2>4, ProjectInserted
  <2>6. PICK v : v = [u EXCEPT !.events = bag]
    OBVIOUS
  <2>7. TablesOf(v) /\ \A k \in Kinds : v[k] = u[k]
    BY <2>3, <2>5, <2>6, EventsChanged
  <2>8. index = [t EXCEPT !.projects = {Row(name, name)}, !.events = bag]
    BY <1>2, <2>2, Zenon
  <2>9. DOMAIN t = Tables \cup {"events"}
    BY <2>3 DEF TablesOf
  <2>10. index = v
    BY <2>3, <2>4, <2>6, <2>8, <2>9, TableNames
  <2> QED
    BY <2>3, <2>5, <2>7, <2>10
<1> QED
  BY <1>1, <1>2 DEF Init

(* The invariant holds at the start,                                           *)
LEMMA InitInv == Init => IInv
<1> SUFFICES ASSUME Init PROVE IInv
  OBVIOUS
<1>1. /\ FilesInv /\ events \in Seq(Names \cup {Torn})
      /\ \A k \in Kinds : Entries(k, files[Ledger(k)]) = << >>
      /\ finished \in BOOLEAN
      /\ finished => (\A path \in OwnedPaths : files[path] # NoFile) /\ events # << >>
  BY InitFiles
<1>2. TablesOf(index) /\ \A k \in Kinds : index[k] = {}
  BY InitIndex
<1>3. /\ rebuilt = NoTables /\ jobs = [p \in Procs |-> NoJob]
      /\ valid = [k \in Kinds |-> {}] /\ alone = {} /\ fresh = {}
  BY DEF Init
<1>4. RecordsInv
  <2>1. \A k \in Kinds : Range(Entries(k, files[Ledger(k)])) = {}
    BY <1>1 DEF Range
  <2>2. DOMAIN valid = Kinds /\ \A k \in Kinds : valid[k] = {}
    BY <1>3
  <2> QED
    BY <1>1, <1>3, <2>1, <2>2 DEF RecordsInv
<1>5. IndexInv
  BY <1>2 DEF IndexInv
<1>6. RebuiltInv
  BY <1>3 DEF RebuiltInv
<1>7. JobsInv
  BY <1>3, NoJobGood DEF JobsInv
<1> QED
  BY <1>1, <1>4, <1>5, <1>6, <1>7 DEF IInv

(* and after every step.                                                       *)
LEMMA NextInv == IInv /\ [Next]_vars => IInv'
<1> SUFFICES ASSUME IInv, [Next]_vars PROVE IInv'
  OBVIOUS
<1>1. ASSUME NEW p \in Procs, Begin(p) PROVE IInv'
  BY <1>1, StepBegin
<1>2. ASSUME NEW p \in Procs, Step(p) PROVE IInv'
  <2>1. CASE IfMissing(p)
    BY <2>1, StepIfMissing
  <2>2. CASE Open(p)
    BY <2>2, StepOpen
  <2>3. CASE Write(p)
    BY <2>3, StepWrite
  <2>4. CASE Discover(p)
    BY <2>4, StepDiscover
  <2>5. CASE ReadProject(p)
    BY <2>5, StepReadProject
  <2>6. CASE InsertProject(p)
    BY <2>6, StepInsertProject
  <2>7. CASE ReadEvents(p)
    BY <2>7, StepReadEvents
  <2>8. CASE AppendEvent(p)
    BY <2>8, StepAppendEvent
  <2>9. CASE InsertEvent(p)
    BY <2>9, StepInsertEvent
  <2>10. CASE Parse(p)
    BY <2>10, StepParse
  <2>11. CASE IndexLedgers(p)
    BY <2>11, StepIndexLedgers
  <2>12. CASE Insert(p)
    BY <2>12, StepInsert
  <2>13. CASE Unlink(p)
    BY <2>13, StepUnlink
  <2>14. CASE InitializeSchema(p)
    BY <2>14, StepInitializeSchema
  <2>15. CASE RestoreEvents(p)
    BY <2>15, StepRestoreEvents
  <2>16. CASE RestoreRun(p)
    BY <2>16, StepRestoreRun
  <2>17. CASE RestoreHypothesis(p)
    BY <2>17, StepRestoreHypothesis
  <2>18. CASE RestoreLedgerRows(p)
    BY <2>18, StepRestoreLedgerRows
  <2> QED
    BY <1>2, <2>1, <2>2, <2>3, <2>4, <2>5, <2>6, <2>7, <2>8, <2>9, <2>10, <2>11, <2>12,
       <2>13, <2>14, <2>15, <2>16, <2>17, <2>18 DEF Step
<1>3. ASSUME NEW p \in Procs, Return(p) PROVE IInv'
  BY <1>3, StepReturn
<1>4. ASSUME NEW p \in Procs, Crash(p) PROVE IInv'
  BY <1>4, StepCrash
<1>5. ASSUME NEW kind \in Kinds, Edit(kind) PROVE IInv'
  BY <1>5, StepEdit
<1>6. ASSUME NEW kind \in Kinds, Approve(kind) PROVE IInv'
  BY <1>6, StepApprove
<1>7. CASE UNCHANGED vars
  <2>1. UNCHANGED << files, events, index, rebuilt, History, jobs >>
    BY <1>7 DEF vars, History
  <2>2. World' = World
    BY <2>1, SameWorld DEF History
  <2>3. JobsInv'
    BY <2>1, <2>2 DEF IInv, JobsInv
  <2> QED
    BY <2>1, <2>3, OnlyJobs
<1> QED
  BY <1>1, <1>2, <1>3, <1>4, <1>5, <1>6, <1>7 DEF Next

-----------------------------------------------------------------------------
(* The invariant holds, of any number of processes that work in a workspace,    *)
(* are killed and begin again, while the user edits its ledgers.                *)
THEOREM Invariant == Spec => []IInv
<1>1. Init => IInv
  BY InitInv
<1>2. IInv /\ [Next]_vars => IInv'
  BY NextInv
<1> QED
  BY <1>1, <1>2, PTL DEF Spec

(* Whatever is cut short, the files and tables hold only what the commands      *)
(* write: the two databases keep one row of each ref.                           *)
THEOREM Types == Spec => []TypeOK
<1>1. IInv => TypeOK
  <2> SUFFICES ASSUME IInv PROVE TypeOK
    OBVIOUS
  <2>1. files[Toml] \in Names \cup {NoFile, Blank}
    BY DEF IInv, FilesInv
  <2>2. events \in Seq(Names \cup {Torn}) /\ alone \subseteq Procs
        /\ fresh \subseteq {"validate", "rebuild"}
    BY DEF IInv, RecordsInv
  <2>3. Range(events) \subseteq Names \cup {Torn}
    BY <2>2 DEF Range
  <2>4. ASSUME NEW tables, TablesOf(tables)
        PROVE  /\ DOMAIN tables = Tables \cup {"events"}
               /\ tables.projects \subseteq { Row(n, n) : n \in Names }
               /\ BagToSet(tables.events) \subseteq Names
               /\ RefsOf(tables.alternative_explanations) \subseteq Hypotheses
               /\ \A t \in Tables : \A x, y \in tables[t] : x.ref = y.ref => x = y
    <3>1. tables.events \in EventBags
      BY <2>4 DEF TablesOf
    <3>2. BagToSet(tables.events) \subseteq Names
      BY <3>1 DEF EventBags, BagToSet
    <3> QED
      BY <2>4, <3>2 DEF TablesOf
  <2>5. TablesOf(index) /\ (rebuilt = NoTables \/ TablesOf(rebuilt))
    BY DEF IInv, IndexInv, RebuiltInv
  <2>6. \A tables \in {index} \cup ({rebuilt} \ {NoTables}) : TablesOf(tables)
    BY <2>5
  <2>7. \A p \in Procs : jobs[p].project \in Names \cup {NoFile}
    <3>1. jobs \in [Procs -> Job]
      BY DEF IInv, JobsInv
    <3> QED
      BY <3>1 DEF Job
  <2> HIDE DEF Hypotheses
  <2> QED
    BY <2>1, <2>2, <2>3, <2>4, <2>6, <2>7 DEF TypeOK
<1> QED
  BY <1>1, Invariant, PTL

(* An indexed entry was once in a ledger without errors, whatever overlaps.     *)
THEOREM ValidIndexed == Spec => []OnlyValidIndexed
<1>1. IInv => OnlyValidIndexed
  BY DEF IInv, IndexInv, OnlyValidIndexed
<1> QED
  BY <1>1, Invariant, PTL

-----------------------------------------------------------------------------
(* Commands that begin late.                                                    *)

(* A command that began after an init had returned has none of its steps.       *)
LEMMA LateNotLoud ==
    ASSUME JobsInv, NEW p \in Procs, NEW op, At(p, op), jobs[p].late
    PROVE  op # "append event" /\ (op \in {"open", "write"} => Arg(p) \notin OwnedPaths)
<1>1. /\ AtStep(jobs[p], Head(jobs[p].todo), valid) /\ JobGood(jobs[p], World)
      /\ Head(jobs[p].todo)[1] = op /\ Head(jobs[p].todo)[2] = Arg(p)
  BY Acting
<1>2. PICK j, h : j = jobs[p] /\ h = Head(jobs[p].todo)
  OBVIOUS
<1>3. j.todo \in Seq(AnyStep) /\ j.todo # << >> /\ h = Head(j.todo) /\ ~ Has(j.todo, Loud)
  BY <1>1, <1>2 DEF AtStep, Job, JobGood
<1>4. h \in AnyStep /\ h \notin Loud
  BY <1>3 DEF Has
<1>5. h[1] = op /\ h[2] = Arg(p)
  BY <1>1, <1>2
<1>6. op # "append event"
  <2>1. op = "append event" => op \in PlainOps
    BY DEF PlainOps
  <2>2. op = "append event" => h = << op >>
    BY <1>4, <1>5, <2>1, StepShape DEF AnyStep
  <2> QED
    BY <1>4, <2>2 DEF Loud, AppendsEvent
<1>7. op \in {"open", "write"} => Arg(p) \notin OwnedPaths
  BY <1>4, <1>5 DEF Loud
<1> QED
  BY <1>6, <1>7

(* A file that is not of the workspace's own changes none of these.            *)
LEMMA OwnedKept ==
    ASSUME FilesInv, UNCHANGED events, NEW path, NEW c, path \notin OwnedPaths,
           files' = [files EXCEPT ![path] = c]
    PROVE  Owned' = Owned
<1>1. /\ Toml \in OwnedPaths /\ OwnedPaths \subseteq Paths
      /\ \A k \in Kinds : Ledger(k) \in OwnedPaths
  BY DEF OwnedPaths, Paths
<1>2. \A at \in OwnedPaths : files'[at] = files[at]
  BY <1>1 DEF FilesInv
<1>3. files'[Toml] = files[Toml] /\ \A k \in Kinds : files'[Ledger(k)] = files[Ledger(k)]
  BY <1>1, <1>2
<1>4. [k \in Kinds |-> files'[Ledger(k)]] = [k \in Kinds |-> files[Ledger(k)]]
  BY <1>3
<1> QED
  BY <1>3, <1>4 DEF Owned

(* No file and no event does either.                                           *)
LEMMA OwnedSame ==
    ASSUME UNCHANGED << files, events >>
    PROVE  Owned' = Owned
BY DEF Owned

(* What a command that began late does leaves the project, the ledgers and the  *)
(* events as they are: it has no step that writes them, whatever it finds.      *)
LEMMA LateKeepStep ==
    ASSUME IInv, [Next]_vars, NEW p \in Procs, jobs[p].late, jobs'[p] # jobs[p]
    PROVE  Owned' = Owned
<1>1. FilesInv /\ JobsInv /\ jobs \in [Procs -> Job]
  BY DEF IInv, JobsInv
<1>2. ASSUME NEW q \in Procs, Begin(q) PROVE Owned' = Owned
  BY <1>2, OwnedSame DEF Begin
<1>3. ASSUME NEW q \in Procs, NEW i, Becomes(q, i) PROVE q = p
  BY <1>1, <1>3 DEF Becomes
<1>4. ASSUME NEW q \in Procs, Step(q) PROVE Owned' = Owned
  <2>1. CASE Open(q)
    <3>1. At(q, "open") /\ Done(q) /\ files' = [files EXCEPT ![Arg(q)] = Blank]
          /\ UNCHANGED events
      BY <2>1 DEF Open, Puts
    <3>2. q = p
      BY <1>3, <3>1 DEF Done
    <3>3. Arg(q) \notin OwnedPaths
      BY <1>1, <3>1, <3>2, LateNotLoud
    <3> QED
      BY <1>1, <3>1, <3>3, OwnedKept
  <2>2. CASE Write(q)
    <3>1. At(q, "write") /\ Done(q) /\ files' = [files EXCEPT ![Arg(q)] = Content(q)]
          /\ UNCHANGED events
      BY <2>2 DEF Write, Puts
    <3>2. q = p
      BY <1>3, <3>1 DEF Done
    <3>3. Arg(q) \notin OwnedPaths
      BY <1>1, <3>1, <3>2, LateNotLoud
    <3> QED
      BY <1>1, <3>1, <3>3, OwnedKept
  <2>3. CASE AppendEvent(q)
    <3>1. At(q, "append event") /\ Done(q)
      BY <2>3 DEF AppendEvent
    <3>2. q = p
      BY <1>3, <3>1 DEF Done
    <3> QED
      BY <1>1, <3>1, <3>2, LateNotLoud
  <2>4. ASSUME \/ IfMissing(q) \/ Discover(q) \/ ReadProject(q) \/ InsertProject(q)
               \/ ReadEvents(q) \/ InsertEvent(q) \/ Parse(q) \/ IndexLedgers(q) \/ Insert(q)
        PROVE  Owned' = Owned
    BY <2>4, OwnedSame DEF IfMissing, Discover, ReadProject, InsertProject, ReadEvents,
                           InsertEvent, Parse, IndexLedgers, Insert
  <2>5. ASSUME \/ Unlink(q) \/ InitializeSchema(q) \/ RestoreEvents(q)
               \/ RestoreRun(q) \/ RestoreHypothesis(q) \/ RestoreLedgerRows(q)
        PROVE  Owned' = Owned
    BY <2>5, OwnedSame DEF Unlink, InitializeSchema, RestoreEvents, RestoreRun,
                           RestoreHypothesis, RestoreLedgerRows, Restoring
  <2> QED
    BY <1>4, <2>1, <2>2, <2>3, <2>4, <2>5 DEF Step
<1>5. ASSUME NEW q \in Procs, Return(q) PROVE Owned' = Owned
  BY <1>5, OwnedSame DEF Return
<1>6. ASSUME NEW q \in Procs, Crash(q) PROVE Owned' = Owned
  <2>1. /\ Raise(q) /\ UNCHANGED files /\ Working(q)
        /\ (events' = events \/ Op(q) = "append event")
    BY <1>6 DEF Crash
  <2>2. q = p
    BY <1>3, <2>1 DEF Raise
  <2>3. Op(q) # "append event"
    <3>1. At(q, Op(q))
      BY <2>1 DEF At
    <3> QED
      BY <1>1, <2>2, <3>1, LateNotLoud
  <2> QED
    BY <2>1, <2>3, OwnedSame
<1>7. ASSUME NEW kind \in Kinds, Edit(kind) \/ Approve(kind) PROVE Owned' = Owned
  BY <1>7 DEF Edit, Approve, Saved
<1>8. CASE UNCHANGED vars
  BY <1>8, OwnedSame DEF vars
<1> QED
  BY <1>2, <1>4, <1>5, <1>6, <1>7, <1>8 DEF Next

(* What the user puts into the ledgers, once an init has returned, no command   *)
(* that begins then overwrites, nor the project or the event of its creation.   *)
THEOREM LateKeep == Spec => LateCommandsKeep
<1>1. IInv /\ [Next]_vars
        => [\A p \in Procs : jobs[p].late /\ jobs'[p] # jobs[p] => Owned' = Owned]_vars
  BY LateKeepStep
<1>2. Spec => []IInv /\ [][Next]_vars
  BY Invariant, PTL DEF Spec
<1> QED
  BY <1>1, <1>2, PTL DEF LateCommandsKeep

-----------------------------------------------------------------------------
(* A proposal at the end of a ledger.                                           *)

(* What is taken from a longer sequence.                                        *)
LEMMA AmongAppend ==
    ASSUME NEW S, NEW seq \in Seq(S), NEW x \in S, NEW C, NEW D,
           \A i \in DOMAIN seq : seq[i] \in C <=> seq[i] \in D
    PROVE  /\ x \in D => Among(Append(seq, x), D) = Append(Among(seq, C), x)
           /\ x \notin D => Among(Append(seq, x), D) = Among(seq, C)
<1> DEFINE old == [i \in DOMAIN seq |-> IF seq[i] \in C THEN << seq[i] >> ELSE << >>]
           more == Append(seq, x)
           new == [i \in DOMAIN more |-> IF more[i] \in D THEN << more[i] >> ELSE << >>]
           last == IF x \in D THEN << x >> ELSE << >>
           n == Len(seq)
<1>1. /\ DOMAIN seq = 1 .. n /\ n \in Nat /\ \A i \in 1 .. n : seq[i] \in S
      /\ DOMAIN more = 1 .. n + 1 /\ more[n + 1] = x /\ \A i \in 1 .. n : more[i] = seq[i]
  OBVIOUS
<1>2. Among(seq, C) = FlattenSeq(old) /\ Among(more, D) = FlattenSeq(new)
  BY DEF Among
<1>3. \A y \in S : << y >> \in Seq(S)
  OBVIOUS
<1>4. << >> \in Seq(S)
  OBVIOUS
<1>5. last \in Seq(S)
  BY <1>3, <1>4, Zenon
<1>6. old \in Seq(Seq(S)) /\ Len(old) = n
  <2>1. \A i \in 1 .. n : (IF seq[i] \in C THEN << seq[i] >> ELSE << >>) \in Seq(S)
    BY <1>1, <1>3, <1>4, Zenon
  <2>2. old \in [1 .. n -> Seq(S)]
    BY <1>1, <2>1, Zenon
  <2>3. \A k \in Nat : \A T : \A h \in [1 .. k -> T] : h \in Seq(T) /\ Len(h) = k
    OBVIOUS
  <2> QED
    BY <1>1, <2>2, <2>3, Zenon
<1>7. /\ DOMAIN new = 1 .. n + 1
      /\ \A i \in 1 .. n : new[i] = old[i]
      /\ new[n + 1] = last
      /\ new = [i \in 1 .. n + 1 |-> new[i]]
  <2>1. DOMAIN new = 1 .. n + 1 /\ new = [i \in 1 .. n + 1 |-> new[i]]
    BY <1>1
  <2>2. \A i \in 1 .. n : i \in 1 .. n + 1
    BY <1>1
  <2>3. \A i \in 1 .. n + 1 : new[i] = IF more[i] \in D THEN << more[i] >> ELSE << >>
    BY <1>1, Zenon
  <2>4. \A i \in 1 .. n : old[i] = IF seq[i] \in C THEN << seq[i] >> ELSE << >>
    BY <1>1, Zenon
  <2>5. \A i \in 1 .. n : more[i] = seq[i] /\ (seq[i] \in C <=> seq[i] \in D)
    BY <1>1
  <2>6. ASSUME NEW i \in 1 .. n PROVE new[i] = old[i]
    BY <2>2, <2>3, <2>4, <2>5, Zenon
  <2>7. n + 1 \in 1 .. n + 1
    BY <1>1
  <2>8. new[n + 1] = last
    BY <1>1, <2>3, <2>7, Zenon
  <2> QED
    BY <2>1, <2>6, <2>8
<1> HIDE DEF old, new, last
<1>8. new = Append(old, last)
  <2>1. /\ Append(old, last) \in Seq(Seq(S)) /\ Len(Append(old, last)) = n + 1
        /\ Append(old, last)[n + 1] = last
        /\ \A i \in 1 .. n : Append(old, last)[i] = old[i]
    BY <1>1, <1>5, <1>6
  <2>2. Append(old, last) = [i \in 1 .. n + 1 |-> Append(old, last)[i]]
    <3>1. \A m \in Nat : \A T : \A s \in Seq(T) : Len(s) = m => s = [i \in 1 .. m |-> s[i]]
      OBVIOUS
    <3>2. n + 1 \in Nat
      BY <1>1
    <3> QED
      BY <2>1, <3>1, <3>2, Zenon
  <2>3. ASSUME NEW i \in 1 .. n + 1 PROVE new[i] = Append(old, last)[i]
    <3>1. i \in 1 .. n \/ i = n + 1
      BY <1>1
    <3> QED
      BY <1>7, <2>1, <3>1, Zenon
  <2> QED
    BY <1>7, <2>2, <2>3, Zenon
<1>9. FlattenSeq(new) = FlattenSeq(old) \o last
  BY <1>5, <1>6, <1>8, FlattenAppend
<1>10. Among(seq, C) \in Seq(S)
  BY AmongTyped
<1>11. x \in D => last = << x >>
  BY DEF last
<1>12. x \notin D => last = << >>
  BY DEF last
<1>13. \A F \in Seq(S) : F \o << x >> = Append(F, x) /\ F \o << >> = F
  OBVIOUS
<1> QED
  BY <1>2, <1>9, <1>10, <1>11, <1>12, <1>13 DEF more

(* A name that is new makes no repetition.                                      *)
LEMMA StillDistinct ==
    ASSUME NEW n \in Nat, NEW ids, NEW more, DOMAIN ids = 1 .. n, DOMAIN more = 1 .. n + 1,
           \A i \in 1 .. n : more[i] = ids[i] /\ ids[i] # more[n + 1], ~ Repeated(ids)
    PROVE  ~ Repeated(more)
<1> SUFFICES ASSUME NEW i \in 1 .. n + 1, NEW j \in 1 .. n + 1, i < j, more[i] = more[j]
             PROVE  FALSE
  BY DEF Repeated
<1>1. i \in 1 .. n
  OBVIOUS
<1>2. CASE j = n + 1
  BY <1>1, <1>2
<1>3. CASE j # n + 1
  <2>1. j \in 1 .. n
    BY <1>3
  <2> QED
    BY <1>1, <2>1 DEF Repeated
<1> QED
  BY <1>2, <1>3

(* The refs of the entries of a ledger.                                         *)
Refs(kind, text) == { Entries(kind, text)[i].ref : i \in DOMAIN Entries(kind, text) }

(* What the parser of the run ledger makes of rows, if none is no name.         *)
NamedRows(rows, none) == { row \in Range(rows) : row.run_id # none }
RunIds(rows) == [i \in DOMAIN rows |-> rows[i].run_id]
Unnamed(none) ==
    /\ \A rows : named_rows(rows) = Among(rows, NamedRows(rows, none))
    /\ \A rows : run_errors(rows) <=> \/ \E i \in DOMAIN rows : rows[i].run_id = none
                                      \/ Repeated(RunIds(named_rows(rows)))

(* No run of the reviewed ones has no name.                                     *)
LEMMA NoName ==
    \E none : Unnamed(none) /\ \A run \in Reviewed : Manifest[run].run_ref # none
<1>1. ASSUME NEW rows PROVE named_rows(rows) = Among(rows, NamedRows(rows, ""))
  BY Zenon DEF named_rows, NamedRows
<1>2. \A rows : run_errors(rows) <=> \/ \E i \in DOMAIN rows : rows[i].run_id = ""
                                    \/ Repeated(RunIds(named_rows(rows)))
  BY Zenon DEF run_errors, RunIds
<1>3. Unnamed("")
  BY <1>1, <1>2, Zenon DEF Unnamed
<1> QED
  BY <1>3, RunsNamed, Zenon

(* A named row of a run that is not in the run ledger adds no error.            *)
LEMMA RunApproved ==
    ASSUME NEW S, NEW rows \in Seq(S), NEW x \in S, NEW none, Unnamed(none), x.run_id # none,
           rows \notin {NoFile, Blank}, Append(rows, x) \notin {NoFile, Blank},
           ~ HasErrors("runs", rows), x.run_id \notin Refs("runs", rows)
    PROVE  ~ HasErrors("runs", Append(rows, x))
<1> DEFINE more == Append(rows, x)
           Named(text) == NamedRows(text, none)
           C == Named(rows)
           D == Named(more)
           named == Among(rows, C)
           after == Among(more, D)
           ids == RunIds(named)
           ids2 == RunIds(after)
           entries == [i \in DOMAIN named |-> LedgerRow("runs", named[i].run_id, named[i])]
<1>1. /\ DOMAIN rows = 1 .. Len(rows) /\ Len(rows) \in Nat
      /\ DOMAIN more = 1 .. Len(rows) + 1 /\ more[Len(rows) + 1] = x
      /\ \A i \in 1 .. Len(rows) : i \in DOMAIN more /\ more[i] = rows[i]
  OBVIOUS
<1>2. named_rows(rows) = named /\ named_rows(more) = after
  BY Zenon DEF Unnamed
<1>3. ~ run_errors(rows)
  BY Zenon DEF HasErrors
<1>4. (\A i \in DOMAIN rows : rows[i].run_id # none) /\ ~ Repeated(ids)
  BY <1>2, <1>3, Zenon DEF Unnamed
<1>5. Entries("runs", rows) = entries
  BY <1>2, Zenon DEF Entries
<1>6. \A text : \A i \in DOMAIN text : text[i] \in Range(text)
  BY DEF Range
<1>7. ASSUME NEW i \in DOMAIN rows PROVE rows[i] \in C <=> rows[i] \in D
  <2>1. rows[i] \in C
    BY <1>4, <1>6, Zenon DEF NamedRows
  <2>2. more[i] \in Range(more) /\ more[i] = rows[i]
    BY <1>1, <1>6, Zenon
  <2>3. rows[i] \in D
    BY <1>4, <2>2, Zenon DEF NamedRows
  <2> QED
    BY <2>1, <2>3, Zenon
<1>8. x \in D
  <2>1. Len(rows) + 1 \in DOMAIN more
    BY <1>1
  <2>2. x \in Range(more)
    BY <1>1, <1>6, <2>1, Zenon
  <2> QED
    BY <2>2, Zenon DEF NamedRows
<1>9. named \in Seq(S)
  BY AmongTyped, Zenon
<1>10. PICK CC, DD : CC = C /\ DD = D
  BY Zenon
<1>11. after = Append(named, x)
  <2>1. \A i \in DOMAIN rows : rows[i] \in CC <=> rows[i] \in DD
    BY <1>7, <1>10, Zenon
  <2>2. x \in DD
    BY <1>8, <1>10, Zenon
  <2>3. Among(Append(rows, x), DD) = Append(Among(rows, CC), x)
    BY <2>1, <2>2, AmongAppend
  <2> QED
    BY <1>10, <2>3, Zenon
<1>12. \A i \in DOMAIN named : ids[i] # x.run_id
  <2>1. ASSUME NEW i \in DOMAIN named, named[i].run_id = x.run_id PROVE FALSE
    <3>1. entries[i] = LedgerRow("runs", named[i].run_id, named[i]) /\ i \in DOMAIN entries
      BY <2>1, Zenon
    <3>2. \A kind, ref, payload : LedgerRow(kind, ref, payload).ref = ref
      BY DEF LedgerRow
    <3> DEFINE row == LedgerRow("runs", named[i].run_id, named[i])
    <3>2a. row.ref = named[i].run_id
      BY <3>2, Zenon
    <3> HIDE DEF row, entries, named
    <3>3. row.ref = x.run_id
      BY <2>1, <3>2a, Zenon
    <3>5. entries[i].ref = x.run_id
      BY <3>1, <3>3 DEF row
    <3>4. x.run_id \in Refs("runs", rows)
      BY <1>5, <3>1, <3>5, Zenon DEF Refs
    <3> QED
      BY <3>4
  <2> QED
    BY <2>1, Zenon DEF RunIds
<1>13. ~ Repeated(ids2)
  <2> HIDE DEF named, after
  <2>1. /\ DOMAIN named = 1 .. Len(named) /\ Len(named) \in Nat
        /\ DOMAIN after = 1 .. Len(named) + 1 /\ after[Len(named) + 1] = x
        /\ \A i \in 1 .. Len(named) : after[i] = named[i]
    BY <1>9, <1>11
  <2>2. DOMAIN ids = 1 .. Len(named) /\ DOMAIN ids2 = 1 .. Len(named) + 1
    BY <2>1 DEF RunIds
  <2>3. \A i \in 1 .. Len(named) : ids2[i] = ids[i]
    BY <2>1 DEF RunIds
  <2>4. ids2[Len(named) + 1] = x.run_id
    BY <2>1 DEF RunIds
  <2>5. \A i \in 1 .. Len(named) : ids2[i] = ids[i] /\ ids[i] # ids2[Len(named) + 1]
    BY <1>12, <2>1, <2>3, <2>4, Zenon
  <2>6. ~ Repeated(ids)
    BY <1>4
  <2> HIDE DEF ids, ids2
  <2> QED
    BY <2>1, <2>2, <2>5, <2>6, StillDistinct
<1>14. \A i \in DOMAIN more : more[i].run_id # none
  <2>1. ASSUME NEW i \in DOMAIN more PROVE more[i] = x \/ (i \in DOMAIN rows /\ more[i] = rows[i])
    BY <1>1
  <2> QED
    BY <1>4, <2>1, Zenon
<1>15. ~ run_errors(more)
  BY <1>2, <1>13, <1>14, Zenon DEF Unnamed
<1>16. "runs" # "claims"
  OBVIOUS
<1> QED
  BY <1>15, Zenon DEF HasErrors

(* A field that is there is read.                                               *)
LEMMA GetField ==
    \A payload, field : field \in DOMAIN payload => Get(payload, field) = payload[field]
BY Zenon DEF Get

(* What is proposed for a card is an entry if its heading is one, named and     *)
(* formed as the parser wants it.                                               *)
LEMMA ProposalFormed ==
    ASSUME NEW card
    PROVE  LET x == claim_proposal(card)
           IN  /\ x.block = "yaml"
               /\ ~ Misnamed("claims", x)
               /\ ~ Malformed("claims", x.payload)
<1> DEFINE lists == {"allowed", "forbidden", "required_caveats", "debt_flags", "linked_runs",
                     "linked_decisions"}
           fields == lists \cup {"claim_id", "status"}
           id == claim_id_of(card)
           status == _claim_status_from_card(card)
           payload == [field \in fields |-> IF field \in lists THEN "list"
                                            ELSE IF field = "claim_id" THEN id ELSE status]
           x == [heading |-> id, block |-> "yaml", payload |-> payload]
<1>1. claim_proposal(card) = x
  BY Zenon DEF claim_proposal
<1>2. x.heading = id /\ x.block = "yaml" /\ x.payload = payload
  OBVIOUS
<1>3. status \in CLAIM_STATUSES
  BY DEF _claim_status_from_card, CLAIM_STATUSES
<1> HIDE DEF id, status
<1>4. /\ DOMAIN payload = fields
      /\ \A field \in lists : payload[field] = "list"
      /\ payload["claim_id"] = id /\ payload["status"] = status
  OBVIOUS
<1> HIDE DEF payload, x
<1>5. id_field["claims"] = "claim_id"
  BY DEF id_field
<1>6. ~ Misnamed("claims", x)
  <2>1. "claim_id" \in DOMAIN payload
    BY <1>4
  <2>2. Get(payload, "claim_id") = id
    BY <1>4, <2>1, GetField
  <2> QED
    BY <1>2, <1>5, <2>1, <2>2, Zenon DEF Misnamed
<1>7. ~ Malformed("claims", payload)
  <2>1. Required["claims"] = {"status", "allowed", "forbidden"}
    BY DEF Required
  <2>2. /\ RequiredLists["claims"] = {"allowed", "forbidden"}
        /\ OptionalLists["claims"] = {"required_caveats", "debt_flags", "linked_experiments",
                                      "linked_runs", "linked_decisions", "tags"}
    BY DEF RequiredLists, OptionalLists
  <2>3. Required["claims"] \subseteq DOMAIN payload
    BY <1>4, <2>1
  <2>4. ~ UnknownStatus("claims", payload)
    <3>1. "status" \in DOMAIN payload
      BY <1>4
    <3>2. Get(payload, "status") = status
      BY <1>4, <3>1, GetField
    <3>3. "claims" # "decisions"
      OBVIOUS
    <3> QED
      BY <1>3, <3>2, <3>3, Zenon DEF UnknownStatus
  <2>5. \A field \in RequiredLists["claims"] \cup (OptionalLists["claims"] \cap DOMAIN payload) :
          field \in lists /\ field \in DOMAIN payload
    BY <1>4, <2>2
  <2>6. \A field \in RequiredLists["claims"] \cup (OptionalLists["claims"] \cap DOMAIN payload) :
          Get(payload, field) = "list"
    BY <1>4, <2>5, GetField
  <2> QED
    BY <2>3, <2>4, <2>6, Zenon DEF Malformed
<1> QED
  BY <1>1, <1>2, <1>6, <1>7, Zenon

(* What the parser of the other ledgers makes of sections.                      *)
EntryIds(kind, entries) == [i \in DOMAIN entries |-> EntryId(kind, entries[i])]

(* An entry that is none of the ledger adds no error, and is one more if its    *)
(* heading is that of a claim.                                                  *)
LEMMA ClaimApproved ==
    ASSUME NEW S, NEW text \in Seq(S), NEW x \in S, x.block = "yaml",
           ~ Misnamed("claims", x), ~ Malformed("claims", x.payload),
           text \notin {NoFile, Blank}, Append(text, x) \notin {NoFile, Blank},
           ~ HasErrors("claims", text), x.heading \notin Refs("claims", text)
    PROVE  /\ ~ HasErrors("claims", Append(text, x))
           /\ x.heading \in Headings["claims"] =>
                Len(Entries("claims", Append(text, x))) = Len(Entries("claims", text)) + 1
           /\ x.heading \notin Headings["claims"] =>
                Entries("claims", Append(text, x)) = Entries("claims", text)
<1> DEFINE more == Append(text, x)
           Of(sections) == { section \in Range(sections) : IsEntry("claims", section) }
           C == Of(text)
           D == Of(more)
           old == Among(text, C)
           new == Among(more, D)
           ids == EntryIds("claims", old)
           ids2 == EntryIds("claims", new)
           Rows(entries) ==
             [i \in DOMAIN entries |->
                LedgerRow("claims", EntryId("claims", entries[i]), entries[i].payload)]
<1>0. "claims" # "runs" /\ "claims" # "research"
  OBVIOUS
<1>1. /\ DOMAIN text = 1 .. Len(text) /\ Len(text) \in Nat
      /\ DOMAIN more = 1 .. Len(text) + 1 /\ more[Len(text) + 1] = x
      /\ \A i \in 1 .. Len(text) : i \in DOMAIN more /\ more[i] = text[i]
  OBVIOUS
<1>2. markdown_entries("claims", text) = old /\ markdown_entries("claims", more) = new
  BY Zenon DEF markdown_entries
<1>3. Entries("claims", text) = Rows(old) /\ Entries("claims", more) = Rows(new)
  BY <1>0, <1>2, Zenon DEF Entries
<1>4. ~ markdown_errors("claims", text)
  BY <1>0, Zenon DEF HasErrors
<1>5. /\ \A i \in DOMAIN text : Matched("claims", text[i]) => text[i].block = "yaml"
      /\ \A i \in DOMAIN old : ~ Misnamed("claims", old[i]) /\ ~ Malformed("claims", old[i].payload)
      /\ ~ Repeated(ids)
  BY <1>2, <1>4, Zenon DEF markdown_errors, EntryIds
<1>6. \A i \in DOMAIN more : Matched("claims", more[i]) => more[i].block = "yaml"
  <2>1. ASSUME NEW i \in DOMAIN more PROVE more[i] = x \/ (i \in DOMAIN text /\ more[i] = text[i])
    BY <1>1
  <2> QED
    BY <1>5, <2>1, Zenon
<1>7. \A sections : \A i \in DOMAIN sections : sections[i] \in Range(sections)
  BY DEF Range
<1>8. ASSUME NEW i \in DOMAIN text PROVE text[i] \in C <=> text[i] \in D
  <2>1. text[i] \in Range(text) /\ more[i] \in Range(more) /\ more[i] = text[i]
    BY <1>1, <1>7, Zenon
  <2> QED
    BY <2>1, Zenon
<1>9. x \in D <=> IsEntry("claims", x)
  <2>1. Len(text) + 1 \in DOMAIN more
    BY <1>1
  <2>2. x \in Range(more)
    BY <1>1, <1>7, <2>1, Zenon
  <2> QED
    BY <2>2, Zenon
<1>10. IsEntry("claims", x) <=> x.heading \in Headings["claims"]
  BY Zenon DEF IsEntry, Matched
<1>11. old \in Seq(S)
  BY AmongTyped, Zenon
<1>12. PICK CC, DD : CC = C /\ DD = D
  BY Zenon
<1>13. \A i \in DOMAIN text : text[i] \in CC <=> text[i] \in DD
  BY <1>8, <1>12, Zenon
<1>14. CASE x.heading \notin Headings["claims"]
  <2>1. x \notin DD
    BY <1>9, <1>10, <1>12, <1>14, Zenon
  <2>2. Among(Append(text, x), DD) = Among(text, CC)
    BY <1>13, <2>1, AmongAppend
  <2>3. new = old
    BY <1>12, <2>2, Zenon
  <2>4. ~ markdown_errors("claims", more)
    BY <1>2, <1>5, <1>6, <2>3, Zenon DEF markdown_errors, EntryIds
  <2>5. Entries("claims", more) = Entries("claims", text)
    BY <1>3, <2>3, Zenon
  <2>6. ~ HasErrors("claims", more)
    BY <1>0, <2>4, Zenon DEF HasErrors
  <2> QED
    BY <1>14, <2>5, <2>6, Zenon
<1>15. CASE x.heading \in Headings["claims"]
  <2>1. x \in DD
    BY <1>9, <1>10, <1>12, <1>15, Zenon
  <2>2. Among(Append(text, x), DD) = Append(Among(text, CC), x)
    BY <1>13, <2>1, AmongAppend
  <2>3. new = Append(old, x)
    BY <1>12, <2>2, Zenon
  <2>4. \A i \in DOMAIN old : ids[i] # x.heading
    <3>1. ASSUME NEW i \in DOMAIN old, ids[i] = x.heading PROVE FALSE
      <4> DEFINE row == LedgerRow("claims", EntryId("claims", old[i]), old[i].payload)
      <4>1. EntryId("claims", old[i]) = x.heading
        BY <3>1, Zenon DEF EntryIds
      <4>2. Rows(old)[i] = row /\ i \in DOMAIN Rows(old)
        BY <3>1, Zenon
      <4> HIDE DEF old, Rows
      <4>4. row.ref = x.heading
        BY <4>1 DEF LedgerRow
      <4> HIDE DEF row
      <4>5. Rows(old)[i].ref = x.heading
        BY <4>2, <4>4
      <4> QED
        BY <1>3, <4>2, <4>5, Zenon DEF Refs
    <3> QED
      BY <3>1, Zenon
  <2>5. EntryId("claims", x) = x.heading
    BY <1>0, Zenon DEF EntryId
  <2>6. DOMAIN Rows(old) = DOMAIN old /\ DOMAIN Rows(new) = DOMAIN new
    BY Zenon
  <2> HIDE DEF old, new
  <2>7. /\ DOMAIN old = 1 .. Len(old) /\ Len(old) \in Nat
        /\ DOMAIN new = 1 .. Len(old) + 1 /\ new[Len(old) + 1] = x
        /\ \A i \in 1 .. Len(old) : new[i] = old[i]
    BY <1>11, <2>3
  <2>8. ~ Repeated(ids2)
    <3>1. DOMAIN ids = 1 .. Len(old) /\ DOMAIN ids2 = 1 .. Len(old) + 1
      BY <2>7 DEF EntryIds
    <3>2. \A i \in 1 .. Len(old) : ids2[i] = ids[i]
      BY <2>7 DEF EntryIds
    <3>3. ids2[Len(old) + 1] = x.heading
      BY <2>5, <2>7 DEF EntryIds
    <3>4. \A i \in 1 .. Len(old) : ids2[i] = ids[i] /\ ids[i] # ids2[Len(old) + 1]
      BY <2>4, <2>7, <3>2, <3>3, Zenon
    <3>5. ~ Repeated(ids)
      BY <1>5
    <3> HIDE DEF ids, ids2
    <3> QED
      BY <2>7, <3>1, <3>4, <3>5, StillDistinct
  <2>9. \A i \in DOMAIN new : ~ Misnamed("claims", new[i]) /\ ~ Malformed("claims", new[i].payload)
    <3>1. ASSUME NEW i \in DOMAIN new PROVE new[i] = x \/ (i \in DOMAIN old /\ new[i] = old[i])
      BY <2>7
    <3> QED
      BY <1>5, <3>1, Zenon
  <2>10. ~ markdown_errors("claims", more)
    BY <1>2, <1>6, <2>8, <2>9, Zenon DEF markdown_errors, EntryIds
  <2>11. ~ HasErrors("claims", more)
    BY <1>0, <2>10, Zenon DEF HasErrors
  <2>12. Len(Entries("claims", more)) = Len(Entries("claims", text)) + 1
    <3>1. /\ DOMAIN Entries("claims", text) = 1 .. Len(old)
          /\ DOMAIN Entries("claims", more) = 1 .. Len(old) + 1
      BY <1>3, <2>6, <2>7, Zenon
    <3>2. \A k \in Nat : \A f : DOMAIN f = 1 .. k => Len(f) = k
      OBVIOUS
    <3>3. Len(old) + 1 \in Nat
      BY <2>7
    <3>4. Len(Entries("claims", text)) = Len(old) /\ Len(Entries("claims", more)) = Len(old) + 1
      BY <2>7, <3>1, <3>2, <3>3, Zenon
    <3> QED
      BY <3>4
  <2> QED
    BY <1>15, <2>11, <2>12, Zenon
<1> QED
  BY <1>14, <1>15

(* The row of a run is one more row.                                            *)
LEMMA RunCounted ==
    ASSUME NEW S, NEW rows \in Seq(S), NEW x \in S, NEW none, Unnamed(none), x.run_id # none,
           rows \notin {NoFile, Blank}, Append(rows, x) \notin {NoFile, Blank}
    PROVE  Len(Entries("runs", Append(rows, x))) = Len(Entries("runs", rows)) + 1
<1> DEFINE more == Append(rows, x)
           C == NamedRows(rows, none)
           D == NamedRows(more, none)
           Rows(named) == [i \in DOMAIN named |-> LedgerRow("runs", named[i].run_id, named[i])]
<1>1. /\ DOMAIN rows = 1 .. Len(rows) /\ Len(rows) \in Nat
      /\ DOMAIN more = 1 .. Len(rows) + 1 /\ more[Len(rows) + 1] = x
      /\ \A i \in 1 .. Len(rows) : i \in DOMAIN more /\ more[i] = rows[i]
  OBVIOUS
<1>2. Entries("runs", rows) = Rows(Among(rows, C)) /\ Entries("runs", more) = Rows(Among(more, D))
  <2>1. named_rows(rows) = Among(rows, C) /\ named_rows(more) = Among(more, D)
    BY Zenon DEF Unnamed
  <2> QED
    BY <2>1, Zenon DEF Entries
<1>3. \A text : \A i \in DOMAIN text : text[i] \in Range(text)
  BY DEF Range
<1>4. ASSUME NEW i \in DOMAIN rows PROVE rows[i] \in C <=> rows[i] \in D
  <2>1. rows[i] \in Range(rows) /\ more[i] \in Range(more) /\ more[i] = rows[i]
    BY <1>1, <1>3, Zenon
  <2> QED
    BY <2>1, Zenon DEF NamedRows
<1>5. x \in D
  <2>1. Len(rows) + 1 \in DOMAIN more
    BY <1>1
  <2>2. x \in Range(more)
    BY <1>1, <1>3, <2>1, Zenon
  <2> QED
    BY <2>2, Zenon DEF NamedRows
<1> HIDE DEF C, D
<1>6. Among(Append(rows, x), D) = Append(Among(rows, C), x)
  BY <1>4, <1>5, AmongAppend
<1> DEFINE named == Among(rows, C)
           after == Among(more, D)
<1>7. named \in Seq(S) /\ after = Append(named, x)
  BY <1>6, AmongTyped, Zenon
<1>8. DOMAIN Rows(named) = DOMAIN named /\ DOMAIN Rows(after) = DOMAIN after
  BY Zenon
<1> HIDE DEF named, after, Rows
<1>9. DOMAIN named = 1 .. Len(named) /\ Len(named) \in Nat /\ DOMAIN after = 1 .. Len(named) + 1
  BY <1>7
<1>10. \A k \in Nat : \A f : DOMAIN f = 1 .. k => Len(f) = k
  OBVIOUS
<1>11. Len(named) + 1 \in Nat
  BY <1>9
<1>12. Len(Rows(named)) = Len(named) /\ Len(Rows(after)) = Len(named) + 1
  BY <1>8, <1>9, <1>10, <1>11, Zenon
<1>13. Len(Entries("runs", rows)) = Len(named) /\ Len(Entries("runs", more)) = Len(named) + 1
  BY <1>2, <1>12, Zenon DEF named, after
<1> QED
  BY <1>13 DEF more

(* What is approved is valid.                                                   *)
LEMMA ApproveValid ==
    ASSUME IInv, NEW kind \in {"claims", "runs"}, Approve(kind)
    PROVE  ApprovalValid(kind)
<1> DEFINE old == files[Ledger(kind)]
           x == files[Proposal(kind)]
           new == files'[Ledger(kind)]
<1>1. /\ kind \in Kinds /\ kind \in Proposable
      /\ x \notin {NoFile, Blank} /\ old \notin {NoFile, Blank}
      /\ Saved(kind, Append(old, x))
  BY DEF Approve, Proposable, Kinds
<1>2. x \in Proposals(kind) /\ old \in Seq(Sections(kind)) /\ DOMAIN files = Paths
  BY <1>1 DEF IInv, FilesInv
<1>3. x \in Sections(kind)
  <2> DEFINE A == (UNION { Range(text) : text \in Texts[kind] })
  <2>1. Sections(kind) = A \cup Proposals(kind)
    BY DEF Sections
  <2> HIDE DEF A
  <2> QED
    BY <1>2, <2>1
<1>4. new = Append(old, x)
  <2>1. Ledger(kind) \in Paths
    BY <1>1 DEF Paths
  <2>2. files' = [files EXCEPT ![Ledger(kind)] = Append(old, x)]
    BY <1>1, Zenon DEF Saved
  <2> HIDE DEF old, x
  <2> QED
    BY <1>2, <2>1, <2>2
<1>5. Append(old, x) \notin {NoFile, Blank}
  <2>1. Append(old, x) \in Seq(Sections(kind))
    BY <1>2, <1>3
  <2> QED
    BY <1>1, <2>1, NoContent, WorkspaceTexts
<1> HIDE DEF old, x, new
<1>6. CASE kind = "runs"
  <2>1. PICK r \in Reviewed : x = run_proposal(Manifest[r], Report[r])
    BY <1>2, <1>6 DEF Proposals
  <2>2. PICK none : Unnamed(none) /\ \A run \in Reviewed : Manifest[run].run_ref # none
    BY NoName, Zenon
  <2>3. x.run_id # none
    <3>1. x.run_id = Manifest[r].run_ref
      BY <2>1 DEF run_proposal
    <3> QED
      BY <2>2, <3>1
  <2>4. ASSUME ~ HasErrors(kind, old), x.run_id \notin Refs(kind, old)
        PROVE  ~ HasErrors(kind, new)
    BY <1>1, <1>2, <1>3, <1>4, <1>5, <1>6, <2>2, <2>3, <2>4, RunApproved
  <2>5. Len(Entries(kind, new)) = Len(Entries(kind, old)) + 1
    BY <1>1, <1>2, <1>3, <1>4, <1>5, <1>6, <2>2, <2>3, RunCounted
  <2> QED
    BY <1>6, <2>4, <2>5, Zenon DEF ApprovalValid, Proposed, Refs, old, x, new
<1>7. CASE kind = "claims"
  <2>1. PICK card \in Cards : x = claim_proposal(card)
    BY <1>2, <1>7, Zenon DEF Proposals
  <2>2. x.block = "yaml" /\ ~ Misnamed(kind, x) /\ ~ Malformed(kind, x.payload)
    BY <1>7, <2>1, ProposalFormed, Zenon
  <2>3. ASSUME ~ HasErrors(kind, old), x.heading \notin Refs(kind, old)
        PROVE  /\ ~ HasErrors(kind, new)
               /\ IF x.heading \in Headings["claims"]
                  THEN Len(Entries(kind, new)) = Len(Entries(kind, old)) + 1
                  ELSE Entries(kind, new) = Entries(kind, old)
    BY <1>1, <1>2, <1>3, <1>4, <1>5, <1>7, <2>2, <2>3, ClaimApproved
  <2>4. kind # "runs"
    BY <1>7
  <2> QED
    BY <2>3, <2>4, Zenon DEF ApprovalValid, Proposed, Refs, old, x, new
<1> QED
  BY <1>6, <1>7

(* ProposalsValidate: an entry that `mwb ledger propose-run` or propose-claim   *)
(* has written, copied to the end of a ledger without errors that has none of   *)
(* its id, leaves the ledger without errors.  A row of a run, and a claim whose *)
(* id is a heading of claims, is one entry more; another claim is none, and     *)
(* disturbs none.                                                               *)
THEOREM Proposing == Spec => ProposalsValidate
<1>1. IInv => \A kind \in {"claims", "runs"} : Approve(kind) => ApprovalValid(kind)
  BY ApproveValid
<1>2. IInv /\ [Next]_vars
        => [\A kind \in {"claims", "runs"} : Approve(kind) => ApprovalValid(kind)]_vars
  BY <1>1
<1>3. Spec => []IInv /\ [][Next]_vars
  BY Invariant, PTL DEF Spec
<1> QED
  BY <1>2, <1>3, PTL DEF ProposalsValidate

-----------------------------------------------------------------------------
(* A validation and a rebuild that nothing goes on beside.                      *)

(* After an element in A comes none in B.                                       *)
Never(L, A, B) == \A i, j \in 1 .. Len(L) : i < j /\ L[i] \in A => L[j] \notin B

(* So in what is left of a list                                                 *)
LEMMA FromNever ==
    ASSUME NEW S, NEW L \in Seq(S), NEW n \in 1 .. Len(L) + 1, NEW A, NEW B, Never(L, A, B)
    PROVE  Never(From(L, n), A, B)
<1> DEFINE R == From(L, n)
<1>1. /\ R \in Seq(S) /\ Len(R) = Len(L) + 1 - n
      /\ \A i \in 1 .. Len(R) : n - 1 + i \in 1 .. Len(L) /\ R[i] = L[n - 1 + i]
  BY FromIndex
<1> HIDE DEF R
<1> SUFFICES ASSUME NEW i \in 1 .. Len(R), NEW j \in 1 .. Len(R), i < j, R[i] \in A
             PROVE  R[j] \notin B
  BY DEF Never, R
<1>2. /\ n - 1 + i \in 1 .. Len(L) /\ n - 1 + j \in 1 .. Len(L)
      /\ n - 1 + i < n - 1 + j /\ L[n - 1 + i] \in A /\ R[j] = L[n - 1 + j]
  BY <1>1
<1> QED
  BY <1>2 DEF Never

(* and in two lists of which only the second has any in A, or the first in B.   *)
LEMMA ConcatNever ==
    ASSUME NEW S, NEW K \in Seq(S), NEW L \in Seq(S), NEW A, NEW B, Never(L, A, B),
           ~ Has(K, A) \/ (~ Has(K, B) /\ ~ Has(L, B))
    PROVE  Never(K \o L, A, B)
<1> DEFINE R == K \o L
<1>1. /\ R \in Seq(S) /\ Len(R) = Len(K) + Len(L)
      /\ \A i \in 1 .. Len(K) : R[i] = K[i]
      /\ \A i \in 1 .. Len(L) : R[Len(K) + i] = L[i]
  BY ConcatIndex
<1>2. Has(R, B) <=> Has(K, B) \/ Has(L, B)
  BY ConcatHas
<1> HIDE DEF R
<1> SUFFICES ASSUME NEW i \in 1 .. Len(R), NEW j \in 1 .. Len(R), i < j, R[i] \in A
             PROVE  R[j] \notin B
  BY DEF Never, R
<1>3. CASE ~ Has(K, B) /\ ~ Has(L, B)
  BY <1>2, <1>3 DEF Has
<1>4. CASE ~ Has(K, A)
  <2>1. i > Len(K)
    <3> SUFFICES ASSUME i <= Len(K) PROVE FALSE
      BY <1>1
    <3>1. i \in 1 .. Len(K) /\ K[i] \in A
      BY <1>1
    <3> QED
      BY <1>4, <3>1 DEF Has
  <2>2. /\ i - Len(K) \in 1 .. Len(L) /\ Len(K) + (i - Len(K)) = i
        /\ j - Len(K) \in 1 .. Len(L) /\ Len(K) + (j - Len(K)) = j
        /\ i - Len(K) < j - Len(K)
    BY <1>1, <2>1
  <2>3. L[i - Len(K)] \in A /\ R[j] = L[j - Len(K)]
    BY <1>1, <2>2
  <2> QED
    BY <2>2, <2>3 DEF Never
<1> QED
  BY <1>3, <1>4

(* The steps that may write a ledger; those that read the ledgers, index what   *)
(* was read, and make the rebuilt tables.                                       *)
Makes == { s \in AnyStep : s[1] \in FileOps \/ s = << "discover", "create" >> }
Parses(k) == {<< "parse", k >>}
Parsing == { s \in AnyStep : s[1] = "parse" }
IndexStep == {<< "index ledgers" >>}
KindInserts == { s \in AnyStep : s[1] = "insert" /\ s[2] \in Kinds }
Indexing == IndexStep \cup KindInserts
RestoreOps == {"unlink", "initialize schema", "restore events", "restore run",
               "restore hypothesis"}
Rebuilds == { s \in AnyStep : s[1] \in RestoreOps }
RestoreStep == {<< "restore ledgers" >>}
Early == Parsing \cup Rebuilds

(* They are told apart by their operations.                                     *)
LEMMA LedgerSorts ==
    ASSUME NEW s
    PROVE  /\ s \in Makes => s[1] \in FileOps \cup {"discover"}
           /\ s \in Parsing => s[1] = "parse"
           /\ \A k : s \in Parses(k) => s[1] = "parse" /\ s[2] = k
           /\ s \in IndexStep => s[1] = "index ledgers"
           /\ s \in KindInserts => s[1] = "insert" /\ s[2] \in Kinds
           /\ s \in Indexing => s[1] \in {"index ledgers", "insert"}
           /\ s \in Rebuilds => s[1] \in RestoreOps
           /\ s \in RestoreStep => s[1] = "restore ledgers"
           /\ s \in Early => s[1] \in RestoreOps \cup {"parse"}
<1>1. \A op : \A t : t = << op >> => t[1] = op
  <2>1. \A op : << op >>[1] = op
    OBVIOUS
  <2> QED
    BY <2>1, Zenon
<1>2. s = << "discover", "create" >> => s[1] = "discover"
  OBVIOUS
<1>3. \A k : s = << "parse", k >> => s[1] = "parse" /\ s[2] = k
  OBVIOUS
<1>4. s \in Makes => s[1] \in FileOps \cup {"discover"}
  BY <1>2 DEF Makes
<1>5. s \in IndexStep => s[1] = "index ledgers"
  BY <1>1 DEF IndexStep
<1>6. s \in RestoreStep => s[1] = "restore ledgers"
  BY <1>1 DEF RestoreStep
<1>7. s \in Parsing => s[1] = "parse"
  BY DEF Parsing
<1>8. s \in KindInserts => s[1] = "insert" /\ s[2] \in Kinds
  BY DEF KindInserts
<1>9. s \in Rebuilds => s[1] \in RestoreOps
  BY DEF Rebuilds
<1>10. \A k : s \in Parses(k) => s[1] = "parse" /\ s[2] = k
  BY <1>3 DEF Parses
<1> QED
  BY <1>4, <1>5, <1>6, <1>7, <1>8, <1>9, <1>10 DEF Indexing, Early

(* Only a validation indexes ledgers, only a rebuild makes its tables; a        *)
(* validation makes the ledgers before it reads them, and indexes them last; a  *)
(* rebuild makes none, and restores their rows last.                            *)
ShapeV(L) ==
    /\ Never(L, Parsing \cup Indexing, Makes)
    /\ \A k \in Kinds : Follows(L, Makes, Parses(k))
    /\ Follows(L, Parsing, IndexStep)
ShapeR(L) == ~ Has(L, Makes) /\ Follows(L, Early, RestoreStep)
Shape(j) ==
    /\ j.todo = << >> <=> j.name = "none"
    /\ j.name # "validate" => ~ Has(j.todo, Indexing)
    /\ j.name # "rebuild" => ~ Has(j.todo, Rebuilds \cup RestoreStep)
    /\ j.name = "validate" => ShapeV(j.todo)
    /\ j.name = "rebuild" => ShapeR(j.todo)

(* A job goes on: its first n - 1 steps are done, those of K come first.        *)
Moves(j, i, n, K) ==
    /\ j.todo \in Seq(AnyStep) /\ K \in Seq(AnyStep) /\ n \in 1 .. Len(j.todo)
    /\ i.todo = K \o From(j.todo, n) /\ i.name = j.name
    /\ ~ Has(K, Parsing) /\ ~ Has(K, Rebuilds \cup RestoreStep)
    /\ Has(K, Indexing) =>
         j.name = "validate" /\ ~ Has(K, Makes) /\ ~ Has(From(j.todo, n), Makes)
    /\ Has(K, Makes) =>
         /\ \E m \in 1 .. Len(j.todo) : m < n /\ j.todo[m] \in Makes
         /\ \A m \in 1 .. Len(j.todo) : m < n => j.todo[m] \notin Parsing

(* What lacks an element is in any order as far as it goes.                     *)
LEMMA LacksOrder ==
    ASSUME NEW L, NEW A, NEW B, ~ Has(L, A)
    PROVE  Never(L, A, B) /\ Follows(L, A, B)
BY DEF Has, Never, Follows

(* The steps that are left.                                                     *)
LEMMA MovesHas ==
    ASSUME NEW j, NEW i, NEW n, NEW K, Moves(j, i, n, K), NEW B
    PROVE  /\ Has(i.todo, B) => Has(K, B) \/ Has(j.todo, B)
           /\ Has(K, B) => Has(i.todo, B)
           /\ Has(j.todo, B) /\ (\A m \in 1 .. Len(j.todo) : m < n => j.todo[m] \notin B)
                => Has(i.todo, B)
<1> DEFINE R == From(j.todo, n)
<1>1. j.todo \in Seq(AnyStep) /\ K \in Seq(AnyStep) /\ n \in 1 .. Len(j.todo) + 1
      /\ i.todo = K \o R
  BY DEF Moves
<1>2. R \in Seq(AnyStep)
  BY <1>1, FromIndex
<1>3. /\ Has(R, B) => Has(j.todo, B)
      /\ Has(j.todo, B) /\ (\A m \in 1 .. Len(j.todo) : m < n => j.todo[m] \notin B) => Has(R, B)
  BY <1>1, FromHas
<1> HIDE DEF R
<1>4. Has(K \o R, B) <=> Has(K, B) \/ Has(R, B)
  BY <1>1, <1>2, ConcatHas
<1> QED
  BY <1>1, <1>3, <1>4

(* A job keeps its shape when it goes on.                                       *)
LEMMA ShapeMoves ==
    ASSUME NEW j, NEW i, NEW n, NEW K, Moves(j, i, n, K), Shape(j)
    PROVE  Shape(i)
<1> DEFINE R == From(j.todo, n)
           L == j.todo
<1>1. L \in Seq(AnyStep) /\ K \in Seq(AnyStep) /\ n \in 1 .. Len(L) /\ n \in 1 .. Len(L) + 1
      /\ i.todo = K \o R /\ i.name = j.name
  BY DEF Moves
<1>2. R \in Seq(AnyStep) /\ Len(R) = Len(L) + 1 - n
  BY <1>1, FromIndex
<1>3. i.todo # << >> /\ j.todo # << >>
  <2> HIDE DEF R
  <2>1. Len(K \o R) = Len(K) + Len(R)
    BY <1>1, <1>2, ConcatIndex
  <2>2. Len(R) # 0 /\ Len(K) \in Nat /\ Len(R) \in Nat /\ L # << >>
    BY <1>1, <1>2
  <2>3. Len(K \o R) # 0 /\ Len(<< >>) = 0
    BY <2>1, <2>2
  <2> QED
    BY <1>1, <2>2, <2>3
<1>4. \A B : Has(i.todo, B) => Has(K, B) \/ Has(j.todo, B)
  BY MovesHas
<1>5. ~ Has(K, Parsing) /\ ~ Has(K, Rebuilds \cup RestoreStep)
  BY DEF Moves
<1>6. ~ Has(K, Rebuilds) /\ ~ Has(K, RestoreStep) /\ ~ Has(K, Early)
  BY <1>5 DEF Has, Early
<1>7. j.name # "validate" => ~ Has(i.todo, Indexing)
  BY <1>4 DEF Moves, Shape
<1>8. j.name # "rebuild" => ~ Has(i.todo, Rebuilds \cup RestoreStep)
  BY <1>4, <1>5 DEF Shape
<1>9. CASE j.name = "validate"
  <2>1. ShapeV(L)
    BY <1>9 DEF Shape
  <2>2. Never(i.todo, Parsing \cup Indexing, Makes)
    <3>1. Never(R, Parsing \cup Indexing, Makes)
      BY <1>1, <2>1, FromNever DEF ShapeV
    <3>2. Has(K, Parsing \cup Indexing) => Has(K, Indexing)
      BY <1>5 DEF Has
    <3>3. ~ Has(K, Parsing \cup Indexing) \/ (~ Has(K, Makes) /\ ~ Has(R, Makes))
      BY <3>2 DEF Moves
    <3> HIDE DEF R
    <3> QED
      BY <1>1, <1>2, <3>1, <3>3, ConcatNever
  <2>3. ASSUME NEW k \in Kinds PROVE Follows(i.todo, Makes, Parses(k))
    <3>1. Follows(L, Makes, Parses(k))
      BY <2>1 DEF ShapeV
    <3>2. Follows(R, Makes, Parses(k))
      BY <1>1, <3>1, FromFollows
    <3>3. Follows(K, Makes, Parses(k)) \/ Has(R, Parses(k))
      <4>1. CASE ~ Has(K, Makes)
        BY <4>1, LacksOrder
      <4>2. CASE Has(K, Makes)
        <5>1. PICK m \in 1 .. Len(L) : m < n /\ L[m] \in Makes
          BY <4>2 DEF Moves
        <5>2. Has(L, Parses(k))
          BY <3>1, <5>1 DEF Follows, Has
        <5>3. << "parse", k >> \in Parsing
          <6>1. << "parse", k >> \in With1("parse", Kinds)
            BY DEF With1
          <6>2. << "parse", k >>[1] = "parse"
            OBVIOUS
          <6> QED
            BY <6>1, <6>2 DEF Parsing, AnyStep, Steps, OtherSteps
        <5>4. \A q \in 1 .. Len(L) : q < n => L[q] \notin Parses(k)
          BY <4>2, <5>3 DEF Moves, Parses
        <5>5. Has(R, Parses(k))
          BY <1>1, <5>2, <5>4, FromHas
        <5> QED
          BY <5>5
      <4> QED
        BY <4>1, <4>2
    <3> HIDE DEF R
    <3> QED
      BY <1>1, <1>2, <3>2, <3>3, ConcatFollows
  <2>4. Follows(i.todo, Parsing, IndexStep)
    <3>1. Follows(R, Parsing, IndexStep)
      BY <1>1, <2>1, FromFollows DEF ShapeV
    <3>2. Follows(K, Parsing, IndexStep)
      BY <1>5, LacksOrder
    <3> HIDE DEF R
    <3> QED
      BY <1>1, <1>2, <3>1, <3>2, ConcatFollows
  <2>5. ShapeV(i.todo)
    BY <2>2, <2>3, <2>4 DEF ShapeV
  <2> QED
    BY <1>1, <1>3, <1>8, <1>9, <2>5 DEF Shape
<1>10. CASE j.name = "rebuild"
  <2>1. ShapeR(L)
    BY <1>10 DEF Shape
  <2>2. ~ Has(K, Makes)
    <3> SUFFICES ASSUME Has(K, Makes) PROVE FALSE
      OBVIOUS
    <3>1. PICK m \in 1 .. Len(L) : L[m] \in Makes
      BY DEF Moves
    <3> QED
      BY <2>1, <3>1 DEF ShapeR, Has
  <2>3. ~ Has(i.todo, Makes)
    BY <1>4, <2>1, <2>2 DEF ShapeR
  <2>4. Follows(i.todo, Early, RestoreStep)
    <3>1. Follows(R, Early, RestoreStep)
      BY <1>1, <2>1, FromFollows DEF ShapeR
    <3>2. Follows(K, Early, RestoreStep)
      BY <1>6, LacksOrder
    <3> HIDE DEF R
    <3> QED
      BY <1>1, <1>2, <3>1, <3>2, ConcatFollows
  <2>5. ShapeR(i.todo)
    BY <2>3, <2>4 DEF ShapeR
  <2> QED
    BY <1>1, <1>3, <1>7, <1>10, <2>5 DEF Shape
<1>11. CASE j.name # "validate" /\ j.name # "rebuild"
  BY <1>1, <1>3, <1>7, <1>8, <1>11 DEF Shape
<1> QED
  BY <1>9, <1>10, <1>11

(* The rows that were read, and those still to be indexed.                      *)
Read(j, k, r) == Has(j.parsed, {<< "insert", k, r >>})
Pending(j, k, r) == Has(j.todo, {<< "insert", k, r >>}) \/ Read(j, k, r)

(* A validation that nothing went on beside, and that has met no error: what it *)
(* has read is in the ledgers, whose rows are rows; the ledgers it does not     *)
(* have to read have no errors (bad are those that have), and their rows are in *)
(* the live index ix, or will be.                                               *)
SoloV(j, rows, bad, ix) ==
    /\ Has(j.todo, Makes) => j.parsed = << >> /\ ~ Has(j.todo, KindInserts)
    /\ \A k \in Kinds : \A r : Pending(j, k, r) => r \in rows[k]
    /\ \A k \in Kinds : \/ Has(j.todo, Parses(k))
                        \/ k \notin bad /\ \A r \in rows[k] : Pending(j, k, r) \/ r \in ix[k]
    /\ j.parsed # << >> => Has(j.todo, IndexStep)
(* The same of a rebuild and its tables rb, in which the rows are in the end.   *)
SoloR(j, rows, bad, rb) ==
    /\ \A k \in Kinds : \A r : Read(j, k, r) => r \in rows[k]
    /\ \A k \in Kinds : \/ Has(j.todo, Parses(k))
                        \/ k \notin bad /\ \A r \in rows[k] : Read(j, k, r)
    /\ Has(j.todo, RestoreStep) \/ \A k \in Kinds : rows[k] \subseteq rb[k]

(* The steps that only go on to the next: they neither read the ledgers nor     *)
(* index their rows.                                                            *)
Passing(j, i, n, K) ==
    /\ Moves(j, i, n, K) /\ ~ Has(K, Indexing)
    /\ i.parsed = j.parsed /\ i.errors = j.errors
    /\ \A m \in 1 .. Len(j.todo) : m < n => j.todo[m] \notin Parsing \cup Indexing \cup RestoreStep
Passes(j, n, A) == \E m \in 1 .. Len(j.todo) : m < n /\ j.todo[m] \in A

(* To read a ledger is one of the steps.                                        *)
LEMMA ParseStep ==
    ASSUME NEW k \in Kinds
    PROVE  << "parse", k >> \in Parsing /\ Parses(k) \subseteq Parsing
<1>1. << "parse", k >> \in With1("parse", Kinds)
  BY DEF With1
<1>2. << "parse", k >>[1] = "parse"
  OBVIOUS
<1>3. << "parse", k >> \in Parsing
  BY <1>1, <1>2 DEF Parsing, AnyStep, Steps, OtherSteps
<1> QED
  BY <1>3 DEF Parses

(* So is to insert a row, if it is in a list of steps.                          *)
LEMMA InsertHas ==
    ASSUME NEW L \in Seq(AnyStep), NEW k \in Kinds, NEW r, Has(L, {<< "insert", k, r >>})
    PROVE  << "insert", k, r >> \in KindInserts /\ Has(L, KindInserts)
<1> DEFINE s == << "insert", k, r >>
<1>1. PICK m \in 1 .. Len(L) : L[m] = s
  BY DEF Has
<1>2. s[1] = "insert" /\ s[2] = k
  OBVIOUS
<1> HIDE DEF s
<1>3. s \in AnyStep
  BY <1>1
<1>4. s \in KindInserts
  BY <1>2, <1>3 DEF KindInserts
<1> QED
  BY <1>1, <1>4 DEF Has, s

(* A validation goes on.                                                        *)
LEMMA SoloVPasses ==
    ASSUME NEW j, NEW i, NEW n, NEW K, Passing(j, i, n, K), Shape(j), j.name = "validate",
           NEW rows, NEW bad, NEW ix, SoloV(j, rows, bad, ix),
           NEW rows2, NEW bad2, NEW ix2, \A k \in Kinds : ix2[k] = ix[k],
           (rows2 = rows /\ bad2 = bad) \/ Passes(j, n, Makes)
    PROVE  SoloV(i, rows2, bad2, ix2)
<1> DEFINE L == j.todo
<1>1. /\ Moves(j, i, n, K) /\ ~ Has(K, Indexing) /\ i.parsed = j.parsed
      /\ \A m \in 1 .. Len(L) : m < n => L[m] \notin Parsing \cup Indexing \cup RestoreStep
      /\ L \in Seq(AnyStep) /\ K \in Seq(AnyStep)
      /\ Has(K, Makes) => Passes(j, n, Makes)
  BY DEF Passing, Moves, Passes
<1>2. \A B : /\ Has(i.todo, B) => Has(K, B) \/ Has(L, B)
             /\ Has(L, B) /\ (\A m \in 1 .. Len(L) : m < n => L[m] \notin B) => Has(i.todo, B)
  BY <1>1, MovesHas
<1>3. \A k \in Kinds : Has(L, Parses(k)) => Has(i.todo, Parses(k))
  BY <1>1, <1>2, ParseStep
<1>4. Has(L, IndexStep) => Has(i.todo, IndexStep)
  BY <1>1, <1>2 DEF Indexing
<1>5. ~ Has(K, KindInserts)
  BY <1>1 DEF Has, Indexing
<1>6. Has(i.todo, KindInserts) => Has(L, KindInserts)
  BY <1>2, <1>5
<1>7. Has(i.todo, Makes) => Has(L, Makes)
  BY <1>1, <1>2 DEF Passes, Has
<1>8. \A k \in Kinds : \A r : Pending(i, k, r) <=> Pending(j, k, r)
  <2> SUFFICES ASSUME NEW k \in Kinds, NEW r PROVE Pending(i, k, r) <=> Pending(j, k, r)
    OBVIOUS
  <2> DEFINE s == << "insert", k, r >>
  <2>1. Has(K, {s}) => Has(K, KindInserts)
    BY <1>1, InsertHas
  <2>2. Has(L, {s}) => s \in Indexing
    <3>1. Has(L, {s}) => s \in KindInserts
      BY <1>1, InsertHas
    <3> QED
      BY <3>1 DEF Indexing
  <2> HIDE DEF s
  <2>3. Has(i.todo, {s}) <=> Has(L, {s})
    BY <1>1, <1>2, <1>5, <2>1, <2>2
  <2> QED
    BY <1>1, <2>3 DEF Pending, Read, s
<1>9. CASE rows2 = rows /\ bad2 = bad
  BY <1>1, <1>3, <1>4, <1>6, <1>7, <1>8, <1>9 DEF SoloV
<1>10. CASE Passes(j, n, Makes)
  <2>1. Has(L, Makes)
    BY <1>10 DEF Passes, Has
  <2>2. j.parsed = << >> /\ ~ Has(L, KindInserts)
    BY <2>1 DEF SoloV
  <2>3. \A k \in Kinds : Has(L, Parses(k))
    BY <2>1 DEF Shape, ShapeV, Follows, Has
  <2>4. \A k \in Kinds : \A r : ~ Pending(j, k, r)
    <3> SUFFICES ASSUME NEW k \in Kinds, NEW r PROVE ~ Pending(j, k, r)
      OBVIOUS
    <3>1. ~ Has(L, {<< "insert", k, r >>})
      BY <1>1, <2>2, InsertHas
    <3>2. ~ Read(j, k, r)
      BY <2>2, NothingFirst DEF Read
    <3> QED
      BY <3>1, <3>2 DEF Pending
  <2> QED
    BY <1>1, <1>3, <1>6, <1>8, <2>2, <2>3, <2>4 DEF SoloV
<1> QED
  BY <1>9, <1>10

(* A rebuild goes on.                                                           *)
LEMMA SoloRPasses ==
    ASSUME NEW j, NEW i, NEW n, NEW K, Passing(j, i, n, K), Shape(j), j.name = "rebuild",
           NEW rows, NEW bad, NEW rb, SoloR(j, rows, bad, rb),
           NEW rb2, rb2 = rb \/ Passes(j, n, Rebuilds)
    PROVE  SoloR(i, rows, bad, rb2)
<1> DEFINE L == j.todo
<1>1. /\ Moves(j, i, n, K) /\ i.parsed = j.parsed
      /\ \A m \in 1 .. Len(L) : m < n => L[m] \notin Parsing \cup Indexing \cup RestoreStep
  BY DEF Passing
<1>2. \A B : Has(L, B) /\ (\A m \in 1 .. Len(L) : m < n => L[m] \notin B) => Has(i.todo, B)
  BY <1>1, MovesHas
<1>3. \A k \in Kinds : Has(L, Parses(k)) => Has(i.todo, Parses(k))
  BY <1>1, <1>2, ParseStep
<1>4. Has(L, RestoreStep) => Has(i.todo, RestoreStep)
  BY <1>1, <1>2
<1>5. Passes(j, n, Rebuilds) => Has(L, RestoreStep)
  BY DEF Shape, ShapeR, Early, Follows, Has, Passes
<1>6. \A k \in Kinds : \A r : Read(i, k, r) <=> Read(j, k, r)
  BY <1>1 DEF Read
<1> QED
  BY <1>3, <1>4, <1>5, <1>6 DEF SoloR

-----------------------------------------------------------------------------
(* The inductive invariant of LedgersRestored.                                  *)

(* The rows of the ledgers, and the ledgers with errors.                        *)
Rows == [k \in Kinds |-> Range(Entries(k, files[Ledger(k)]))]
Bad == { k \in Kinds : HasErrors(k, files[Ledger(k)]) }
Solo(j, rows, bad, ix, rb) ==
    /\ j.name = "validate" /\ ~ j.errors => SoloV(j, rows, bad, ix)
    /\ j.name = "rebuild" /\ ~ j.errors => SoloR(j, rows, bad, rb)
    /\ j.name = "rebuild" /\ j.errors => bad # {}
FreshV(rows, bad, ix) == bad = {} /\ \A k \in Kinds : rows[k] \subseteq ix[k]
FreshR(rows, bad, rb) == bad = {} => \A k \in Kinds : rows[k] \subseteq rb[k]
NoneIs(js, name) == \A p \in Procs : js[p].name # name
Shapes == \A p \in Procs : Shape(jobs[p])
Lonely == \A p \in alone : \A q \in Procs : q # p => jobs[q].name = "none"
Solos == \A p \in alone : Solo(jobs[p], Rows, Bad, index, rebuilt)
Freshes ==
    /\ "validate" \in fresh => NoneIs(jobs, "validate") /\ FreshV(Rows, Bad, index)
    /\ "rebuild" \in fresh => NoneIs(jobs, "rebuild") /\ FreshR(Rows, Bad, rebuilt)
LInv == Shapes /\ Lonely /\ Solos /\ Freshes

(* The rows of the ledgers depend on the files only.                            *)
LEMMA SameRows ==
    ASSUME UNCHANGED files PROVE Rows' = Rows /\ Bad' = Bad
BY DEF Rows, Bad

(* A process whose job has something to do goes on as i, or ends.               *)
Moved(p, i) ==
    /\ jobs[p].todo # << >> /\ jobs' = [jobs EXCEPT ![p] = i]
    /\ Shape(i) /\ i.name \in {jobs[p].name, "none"}
    /\ alone' = alone /\ fresh' \subseteq fresh
    /\ fresh' # {} => Rows' = Rows /\ Bad' = Bad
    /\ jobs[p].name # "validate" => \A k \in Kinds : index'[k] = index[k]
    /\ jobs[p].name # "rebuild" => rebuilt' = rebuilt

(* The invariant is kept by whoever moves on, if who moves alone still is as    *)
(* he should be.                                                                *)
LEMMA MovedKeeps ==
    ASSUME LInv, JobsInv, RecordsInv, NEW p \in Procs, NEW i, Moved(p, i),
           p \in alone => Solo(i, Rows', Bad', index', rebuilt')
    PROVE  LInv'
<1>1. /\ jobs' = [jobs EXCEPT ![p] = i] /\ alone' = alone /\ alone \subseteq Procs
      /\ jobs \in [Procs -> Job]
      /\ i.name \in {jobs[p].name, "none"}
  BY DEF Moved, JobsInv, RecordsInv
<1>2. jobs'[p] = i /\ \A q \in Procs : q # p => jobs'[q] = jobs[q]
  BY <1>1
<1>3. Shapes'
  BY <1>2 DEF LInv, Shapes, Moved
<1>4. jobs[p].name # "none"
  BY DEF LInv, Shapes, Shape, Moved
<1>5. \A q \in alone : q = p
  BY <1>1, <1>4 DEF LInv, Lonely
<1>6. Lonely'
  BY <1>1, <1>2, <1>5 DEF LInv, Lonely
<1>7. Solos'
  <2> SUFFICES ASSUME NEW q \in alone' PROVE Solo(jobs[q], Rows, Bad, index, rebuilt)'
    BY DEF Solos
  <2>1. q = p /\ p \in alone /\ jobs'[q] = i
    BY <1>1, <1>2, <1>5
  <2>2. PICK rows, bad, ix, rb : /\ rows = Rows' /\ bad = Bad' /\ ix = index' /\ rb = rebuilt'
                                 /\ Solo(i, rows, bad, ix, rb)
    BY <2>1
  <2> QED
    BY <2>1, <2>2 DEF Solo, SoloV, SoloR
<1>8. \A name \in {"validate", "rebuild"} :
        NoneIs(jobs, name) => NoneIs(jobs', name) /\ jobs[p].name # name
  BY <1>1, <1>2 DEF NoneIs
<1>9. Freshes'
  <2>1. ASSUME "validate" \in fresh'
        PROVE  NoneIs(jobs', "validate") /\ FreshV(Rows', Bad', index')
    <3>1. NoneIs(jobs, "validate") /\ FreshV(Rows, Bad, index)
      BY <2>1 DEF Moved, LInv, Freshes
    <3>2. Rows' = Rows /\ Bad' = Bad /\ \A k \in Kinds : index'[k] = index[k]
      BY <1>8, <2>1, <3>1 DEF Moved
    <3>3. NoneIs(jobs', "validate")
      BY <1>8, <3>1
    <3> HIDE DEF Rows, Bad
    <3>4. PICK rows, bad, ix, jx : rows = Rows /\ bad = Bad /\ ix = index' /\ jx = index
      OBVIOUS
    <3>5. FreshV(rows, bad, ix)
      BY <3>1, <3>2, <3>4 DEF FreshV
    <3> QED
      BY <3>2, <3>3, <3>4, <3>5
  <2>2. ASSUME "rebuild" \in fresh'
        PROVE  NoneIs(jobs', "rebuild") /\ FreshR(Rows', Bad', rebuilt')
    <3>1. NoneIs(jobs, "rebuild") /\ FreshR(Rows, Bad, rebuilt)
      BY <2>2 DEF Moved, LInv, Freshes
    <3>2. Rows' = Rows /\ Bad' = Bad /\ rebuilt' = rebuilt
      BY <1>8, <2>2, <3>1 DEF Moved
    <3>3. NoneIs(jobs', "rebuild")
      BY <1>8, <3>1
    <3> QED
      BY <3>1, <3>2, <3>3
  <2> QED
    BY <2>1, <2>2 DEF Freshes, NoneIs, FreshV, FreshR
<1> QED
  BY <1>3, <1>6, <1>7, <1>9 DEF LInv

(* What ends has nothing to rely on.                                            *)
LEMMA EndsKeeps ==
    ASSUME LInv, JobsInv, RecordsInv, NEW p \in Procs, Working(p), Raise(p),
           alone' = alone, fresh' \subseteq fresh, UNCHANGED files,
           jobs[p].name # "validate" => \A k \in Kinds : index'[k] = index[k],
           jobs[p].name # "rebuild" => rebuilt' = rebuilt
    PROVE  LInv'
<1>1. PICK i : i = NoJob
  OBVIOUS
<1>2. i.todo = << >> /\ i.name = "none"
  BY <1>1 DEF NoJob
<1>3. \A B : ~ Has(i.todo, B)
  BY <1>2, NothingFirst
<1>4. Shape(i)
  BY <1>2, <1>3 DEF Shape
<1>5. Moved(p, i)
  BY <1>1, <1>2, <1>4, SameRows DEF Moved, Working, Raise, Becomes
<1>6. \A rows, bad, ix, rb : Solo(i, rows, bad, ix, rb)
  BY <1>2 DEF Solo
<1>7. Solo(i, Rows', Bad', index', rebuilt')
  <2>1. PICK rows, bad, ix, rb : rows = Rows' /\ bad = Bad' /\ ix = index' /\ rb = rebuilt'
    OBVIOUS
  <2> QED
    BY <1>6, <2>1
<1> QED
  BY <1>5, <1>7, MovedKeeps

(* A process passes on to its next steps.                                       *)
Passed(p, i, n, K) ==
    /\ Passing(jobs[p], i, n, K) /\ jobs' = [jobs EXCEPT ![p] = i]
    /\ alone' = alone /\ fresh' \subseteq fresh
    /\ \/ Rows' = Rows /\ Bad' = Bad
       \/ fresh' = {} /\ Passes(jobs[p], n, Makes)
    /\ \A k \in Kinds : index'[k] = index[k]
    /\ rebuilt' = rebuilt \/ Passes(jobs[p], n, Rebuilds)

(* It is kept by the steps that only go on to the next.                         *)
LEMMA PassedKeeps ==
    ASSUME LInv, JobsInv, RecordsInv, NEW p \in Procs, NEW i, NEW n, NEW K, Passed(p, i, n, K)
    PROVE  LInv'
<1>1. PICK j, rows, bad, ix, rb, rows2, bad2, ix2, rb2 :
        /\ j = jobs[p] /\ rows = Rows /\ bad = Bad /\ ix = index /\ rb = rebuilt
        /\ rows2 = Rows' /\ bad2 = Bad' /\ ix2 = index' /\ rb2 = rebuilt'
  OBVIOUS
<1>2. /\ Passing(j, i, n, K)
      /\ (rows2 = rows /\ bad2 = bad) \/ Passes(j, n, Makes)
      /\ (\A k \in Kinds : ix2[k] = ix[k])
      /\ rb2 = rb \/ Passes(j, n, Rebuilds)
  BY <1>1 DEF Passed
<1>3. Shape(j) /\ Moves(j, i, n, K) /\ i.name = j.name /\ i.errors = j.errors
  <2>1. Shape(j)
    BY <1>1 DEF LInv, Shapes
  <2> QED
    BY <1>2, <2>1 DEF Passing, Moves
<1>4. Shape(i)
  BY <1>3, ShapeMoves
<1>5. Passes(j, n, Rebuilds) => Has(j.todo, Rebuilds)
  BY DEF Passes, Has
<1>6. Passes(j, n, Rebuilds) => j.name = "rebuild"
  BY <1>3, <1>5 DEF Shape, Has
<1>7. j.todo # << >>
  <2>1. j.todo \in Seq(AnyStep) /\ n \in 1 .. Len(j.todo)
    BY <1>3 DEF Moves
  <2>2. \A L : L = << >> => Len(L) = 0
    OBVIOUS
  <2> QED
    BY <2>1, <2>2
<1>8. Moved(p, i)
  BY <1>1, <1>2, <1>3, <1>4, <1>6, <1>7 DEF Moved, Passed
<1>9. ASSUME Solo(j, rows, bad, ix, rb) PROVE Solo(i, rows2, bad2, ix2, rb2)
  <2>1. ASSUME j.name = "validate", ~ j.errors PROVE SoloV(i, rows2, bad2, ix2)
    <3>1. SoloV(j, rows, bad, ix)
      BY <1>9, <2>1 DEF Solo
    <3> QED
      BY <1>2, <1>3, <2>1, <3>1, SoloVPasses
  <2>2. j.name = "rebuild" => rows2 = rows /\ bad2 = bad
    <3>1. Passes(j, n, Makes) => Has(j.todo, Makes)
      BY DEF Passes, Has
    <3> QED
      BY <1>2, <1>3, <3>1 DEF Shape, ShapeR
  <2>3. ASSUME j.name = "rebuild", ~ j.errors PROVE SoloR(i, rows2, bad2, rb2)
    <3>1. SoloR(j, rows, bad, rb)
      BY <1>9, <2>3 DEF Solo
    <3>2. SoloR(i, rows, bad, rb2)
      BY <1>2, <1>3, <2>3, <3>1, SoloRPasses
    <3> QED
      BY <2>2, <2>3, <3>2
  <2> QED
    BY <1>3, <1>9, <2>1, <2>2, <2>3 DEF Solo
<1>10. p \in alone => Solo(i, Rows', Bad', index', rebuilt')
  BY <1>1, <1>9 DEF LInv, Solos
<1> QED
  BY <1>8, <1>10, MovedKeeps

(* One step is done, and leads to those of K.                                   *)
Does(p, op, i, K) ==
    /\ At(p, op) /\ jobs' = [jobs EXCEPT ![p] = i] /\ i.todo = K \o Tail(jobs[p].todo)
    /\ i.name = jobs[p].name /\ i.parsed = jobs[p].parsed /\ i.errors = jobs[p].errors
    /\ op \notin {"return", "parse", "index ledgers", "restore ledgers"}
    /\ op = "insert" => Arg(p) \notin Kinds
    /\ K \in Seq(AnyStep)
    /\ ~ Has(K, Parsing) /\ ~ Has(K, Rebuilds \cup RestoreStep) /\ ~ Has(K, Indexing)
    /\ Has(K, Makes) => Head(jobs[p].todo) \in Makes

(* What has been done is the first step, as the last one returns.               *)
LEMMA FirstDone ==
    ASSUME JobsInv, NEW p \in Procs, NEW op, At(p, op), op # "return"
    PROVE  LET j == jobs[p]
           IN  /\ j.todo \in Seq(AnyStep) /\ 2 \in 1 .. Len(j.todo)
               /\ Tail(j.todo) = From(j.todo, 2)
               /\ \A m \in 1 .. Len(j.todo) : m < 2 <=> m = 1
               /\ 1 \in 1 .. Len(j.todo) /\ j.todo[1] = Head(j.todo)
<1>1. PICK j, h : j = jobs[p] /\ h = Head(j.todo)
  OBVIOUS
<1>2. AtStep(j, h, valid) /\ JobGood(j, World) /\ h[1] = op
  BY <1>1, Acting
<1>3. j.todo \in Seq(AnyStep) /\ Len(j.todo) \in Nat /\ 1 \in 1 .. Len(j.todo)
      /\ j.todo[1] = h /\ j.todo # << >>
  BY <1>2 DEF AtStep, Job
<1>4. h # Return1
  BY <1>2, StepSorts
<1>5. Len(j.todo) # 1
  <2>1. Ends(j.todo, Return1)
    BY <1>2 DEF JobGood
  <2> QED
    BY <1>3, <1>4, <2>1 DEF Ends
<1>6. 2 \in 1 .. Len(j.todo)
  <2>1. \A n \in Nat : 1 \in 1 .. n /\ n # 1 => 2 \in 1 .. n
    OBVIOUS
  <2> QED
    BY <1>3, <1>5, <2>1, Zenon
<1>7. Tail(j.todo) = From(j.todo, 2)
  <2>1. Tail(j.todo) = SubSeq(j.todo, 2, Len(j.todo))
    BY <1>3
  <2> QED
    BY <2>1 DEF From
<1> QED
  BY <1>1, <1>3, <1>6, <1>7

(* It is kept by a step that leads to some others, makes a ledger only if it    *)
(* may, and touches neither the rows of the live index nor, unless it makes     *)
(* them, the rebuilt tables.                                                    *)
LEMMA DoesKeeps ==
    ASSUME LInv, JobsInv, RecordsInv, NEW p \in Procs, NEW op, NEW i, NEW K, Does(p, op, i, K),
           alone' = alone, fresh' \subseteq fresh,
           (Rows' = Rows /\ Bad' = Bad) \/ (fresh' = {} /\ Head(jobs[p].todo) \in Makes),
           \A k \in Kinds : index'[k] = index[k],
           rebuilt' = rebuilt \/ op \in RestoreOps
    PROVE  LInv'
<1>1. PICK j, h : j = jobs[p] /\ h = Head(j.todo)
  OBVIOUS
<1>2. At(p, op) /\ op # "return"
  BY DEF Does
<1>3. /\ h[1] = op /\ h \in AnyStep /\ h[2] = Arg(p)
  BY <1>1, <1>2, Acting DEF AtStep
<1>4. /\ j.todo \in Seq(AnyStep) /\ 2 \in 1 .. Len(j.todo) /\ Tail(j.todo) = From(j.todo, 2)
      /\ \A m \in 1 .. Len(j.todo) : m < 2 <=> m = 1
      /\ 1 \in 1 .. Len(j.todo) /\ j.todo[1] = h
  BY <1>1, <1>2, FirstDone
<1>5. h \notin Parsing /\ h \notin IndexStep /\ h \notin RestoreStep
  BY <1>3, LedgerSorts DEF Does
<1>6. h \notin KindInserts
  BY <1>3, LedgerSorts DEF Does
<1>7. Moves(j, i, 2, K)
  BY <1>1, <1>4, <1>5 DEF Moves, Does
<1>8. Passing(j, i, 2, K)
  BY <1>1, <1>4, <1>5, <1>6, <1>7 DEF Passing, Does, Indexing
<1>9. \A B : h \in B => Passes(j, 2, B)
  BY <1>4 DEF Passes
<1>10. op \in RestoreOps => h \in Rebuilds
  BY <1>3 DEF Rebuilds
<1>11. Passed(p, i, 2, K)
  BY <1>1, <1>8, <1>9, <1>10 DEF Passed, Does
<1> QED
  BY <1>11, PassedKeeps

(* The steps that may come first: none of them reads or indexes a ledger.       *)
Mild(K) == /\ K \in Seq(AnyStep) /\ ~ Has(K, Parsing) /\ ~ Has(K, Rebuilds \cup RestoreStep)
           /\ ~ Has(K, Indexing)

(* No steps are mild.                                                           *)
LEMMA MildNone == Mild(<< >>) /\ ~ Has(<< >>, Makes)
BY NothingFirst DEF Mild

(* They are mild by their operations.                                           *)
MildNames == FileOps \cup {"read project", "insert project", "read events", "append event",
                          "insert event", "discover", "return"}
MildStep(s) == s[1] \in MildNames \/ (s[1] = "insert" /\ s[2] \notin Kinds)

(* A list of such steps is mild.                                                *)
LEMMA MildOps ==
    ASSUME NEW K \in Seq(AnyStep), \A m \in 1 .. Len(K) : MildStep(K[m])
    PROVE  Mild(K)
<1>1. ASSUME NEW m \in 1 .. Len(K)
      PROVE  K[m] \notin Parsing \cup Rebuilds \cup RestoreStep \cup Indexing
  <2>1. PICK s : s = K[m]
    OBVIOUS
  <2>2. \/ s[1] \in FileOps \cup {"read project", "insert project", "read events",
                                   "append event", "insert event", "discover", "return"}
        \/ s[1] = "insert" /\ s[2] \notin Kinds
    BY <2>1 DEF MildStep, MildNames
  <2>3. s \notin Parsing /\ s \notin Rebuilds /\ s \notin RestoreStep /\ s \notin IndexStep
    BY <2>2, LedgerSorts DEF FileOps, RestoreOps
  <2>4. s \notin KindInserts
    BY <2>2, LedgerSorts DEF FileOps
  <2> QED
    BY <2>1, <2>3, <2>4 DEF Indexing
<1> QED
  BY <1>1 DEF Mild, Has

(* A process goes on with a job that still has done and read the same.          *)
SameReading(k, j) ==
    /\ k \in Job /\ k.todo = j.todo /\ k.name = j.name /\ k.parsed = j.parsed
    /\ k.errors = j.errors
Silent(op) == op \notin {"return", "parse", "index ledgers", "restore ledgers"}

(* A step that is replaced by mild ones leads to them.                          *)
LEMMA ThenDoes ==
    ASSUME JobsInv, NEW p \in Procs, NEW op, At(p, op), Silent(op),
           op = "insert" => Arg(p) \notin Kinds,
           NEW k, SameReading(k, jobs[p]), NEW K, Mild(K),
           Has(K, Makes) => Head(jobs[p].todo) \in Makes, Becomes(p, Then(k, K))
    PROVE  \E i : Does(p, op, i, K)
<1>1. PICK i, j : i = Then(k, K) /\ j = jobs[p]
  OBVIOUS
<1>2. k \in Job /\ k.todo # << >> /\ K \in Seq(AnyStep)
  BY DEF SameReading, Mild, At, Working
<1>3. i.todo = K \o Tail(k.todo) /\ i.name = k.name /\ i.parsed = k.parsed
      /\ i.errors = k.errors
  BY <1>1, <1>2, ThenJob
<1>4. i.todo = K \o Tail(j.todo) /\ i.name = j.name /\ i.parsed = j.parsed
      /\ i.errors = j.errors
  BY <1>1, <1>3 DEF SameReading
<1>5. jobs' = [jobs EXCEPT ![p] = i]
  BY <1>1 DEF Becomes
<1>6. Does(p, op, i, K)
  BY <1>1, <1>4, <1>5 DEF Does, Silent, Mild
<1> QED
  BY <1>6

(* Most steps change nothing of it.                                             *)
LEMMA DoneDoes ==
    ASSUME JobsInv, NEW p \in Procs, NEW op, At(p, op), Silent(op),
           op = "insert" => Arg(p) \notin Kinds, Done(p)
    PROVE  \E i : Does(p, op, i, << >>)
<1>1. PICK k : k = jobs[p]
  OBVIOUS
<1>2. SameReading(k, jobs[p])
  BY <1>1 DEF SameReading, JobsInv
<1>3. Becomes(p, Then(k, << >>))
  BY <1>1 DEF Done
<1> QED
  BY <1>2, <1>3, MildNone, ThenDoes

(* A step on a file may make a ledger, as may one that makes the project.       *)
LEMMA HeadMakes ==
    ASSUME JobsInv, NEW p \in Procs, NEW op, At(p, op)
    PROVE  /\ op \in FileOps => Head(jobs[p].todo) \in Makes
           /\ op = "discover" /\ Arg(p) = "create" => Head(jobs[p].todo) \in Makes
<1>1. PICK h : h = Head(jobs[p].todo)
  OBVIOUS
<1>2. h \in AnyStep /\ h[1] = op /\ h[2] = Arg(p)
  BY <1>1, Acting DEF AtStep
<1>3. op = "discover" /\ Arg(p) = "create" => h = << "discover", "create" >>
  <2>1. op = "discover" => h = << "discover", h[2] >>
    BY <1>2, StepShape DEF AnyStep
  <2> QED
    BY <1>2, <2>1
<1> QED
  BY <1>1, <1>2, <1>3 DEF Makes

(* No file but a ledger has to do with the ledgers.                             *)
LEMMA OtherFile ==
    ASSUME FilesInv, NEW path, NEW content, files' = [files EXCEPT ![path] = content],
           \A kind \in Kinds : path # Ledger(kind)
    PROVE  Rows' = Rows /\ Bad' = Bad
<1>1. \A k \in Kinds : files'[Ledger(k)] = files[Ledger(k)]
  <2>1. DOMAIN files = Paths /\ \A k \in Kinds : Ledger(k) \in Paths
    BY DEF FilesInv, Paths
  <2> QED
    BY <2>1
<1> QED
  BY <1>1 DEF Rows, Bad

(* A file is emptied or written.                                                *)
LEMMA PutsKeeps ==
    ASSUME LInv, IInv, NEW p \in Procs, NEW op \in {"open", "write"}, At(p, op), Done(p),
           NEW content, Puts(Arg(p), content)
    PROVE  LInv'
<1>1. FilesInv /\ JobsInv /\ RecordsInv
  BY DEF IInv
<1>2. PICK i : Does(p, op, i, << >>)
  BY <1>1, DoneDoes DEF Silent
<1>3. /\ files' = [files EXCEPT ![Arg(p)] = content]
      /\ UNCHANGED << index, rebuilt, alone >> /\ fresh' \subseteq fresh
      /\ (\E kind \in Kinds : Arg(p) = Ledger(kind)) => fresh' = {}
  BY DEF Puts
<1>4. (Rows' = Rows /\ Bad' = Bad) \/ (fresh' = {} /\ Head(jobs[p].todo) \in Makes)
  <2>1. CASE \E kind \in Kinds : Arg(p) = Ledger(kind)
    BY <1>1, <1>3, <2>1, HeadMakes DEF FileOps
  <2>2. CASE \A kind \in Kinds : Arg(p) # Ledger(kind)
    BY <1>1, <1>3, <2>2, OtherFile
  <2> QED
    BY <2>1, <2>2
<1>5. (\A k \in Kinds : index'[k] = index[k]) /\ rebuilt' = rebuilt
      /\ alone' = alone /\ fresh' \subseteq fresh
  BY <1>3
<1> QED
  BY <1>1, <1>2, <1>4, <1>5, DoesKeeps

(* No file changes, no row of a ledger is indexed, and the tables change only   *)
(* where a rebuild makes them.                                                  *)
Calmly(op) ==
    /\ UNCHANGED << files, alone, fresh >> /\ \A k \in Kinds : index'[k] = index[k]
    /\ rebuilt' = rebuilt \/ op \in RestoreOps

(* The invariant is kept by a step that changes no row of a ledger in file or   *)
(* index.                                                                       *)
LEMMA CalmDoes ==
    ASSUME LInv, IInv, NEW p \in Procs, NEW op, NEW i, NEW K, Does(p, op, i, K), Calmly(op)
    PROVE  LInv'
<1>1. Rows' = Rows /\ Bad' = Bad
  BY SameRows DEF Calmly
<1>2. JobsInv /\ RecordsInv
  BY DEF IInv
<1> QED
  BY <1>1, <1>2, DoesKeeps DEF Calmly

(* So it is when such a step leads to nothing else.                             *)
LEMMA CalmDone ==
    ASSUME LInv, IInv, NEW p \in Procs, NEW op, At(p, op), Silent(op),
           op = "insert" => Arg(p) \notin Kinds, Done(p), Calmly(op)
    PROVE  LInv'
<1>1. PICK i : Does(p, op, i, << >>)
  BY DoneDoes DEF IInv
<1> QED
  BY <1>1, CalmDoes

(* The steps with some operations, and lists of them.                           *)
WithOps(O) == { s \in AnyStep : s[1] \in O }

(* Lists of steps with some operations.                                         *)
LEMMA OpsLists ==
    /\ \A O, P : O \subseteq P => Seq(WithOps(O)) \subseteq Seq(WithOps(P))
    /\ \A O : Seq(WithOps(O)) \subseteq Seq(AnyStep)
    /\ \A O : \A L \in Seq(WithOps(O)) : \A m \in 1 .. Len(L) : L[m] \in AnyStep /\ L[m][1] \in O
    /\ \A O : \A K, L \in Seq(WithOps(O)) : K \o L \in Seq(WithOps(O))
    /\ \A O : \A s \in WithOps(O) : << s >> \in Seq(WithOps(O))
    /\ \A op \in PlainOps : << op >> \in AnyStep /\ << << op >> >> \in Seq(WithOps({op}))
<1>1. \A S, T : S \subseteq T => Seq(S) \subseteq Seq(T)
  OBVIOUS
<1>2. \A O, P : O \subseteq P => WithOps(O) \subseteq WithOps(P)
  BY DEF WithOps
<1>3. \A O : WithOps(O) \subseteq AnyStep
  BY DEF WithOps
<1>4. \A S : \A K, L \in Seq(S) : K \o L \in Seq(S)
  BY ConcatProperties
<1>5. \A S : \A L \in Seq(S) : \A m \in 1 .. Len(L) : L[m] \in S
  OBVIOUS
<1>6. \A O : \A s \in WithOps(O) : s \in AnyStep /\ s[1] \in O
  BY DEF WithOps
<1>7. \A S : \A s \in S : << s >> \in Seq(S)
  OBVIOUS
<1>8. \A op \in PlainOps : << op >> \in AnyStep /\ << op >> \in WithOps({op})
  <2>1. \A op : << op >>[1] = op
    OBVIOUS
  <2>2. \A op \in PlainOps : << op >> \in AnyStep
    BY DEF AnyStep, Steps, OtherSteps, PlainSteps
  <2> QED
    BY <2>1, <2>2 DEF WithOps
<1>a. \A O, P : O \subseteq P => Seq(WithOps(O)) \subseteq Seq(WithOps(P))
  BY <1>1, <1>2, Zenon
<1>b. \A O : Seq(WithOps(O)) \subseteq Seq(AnyStep)
  BY <1>1, <1>3, Zenon
<1>c. \A O : \A L \in Seq(WithOps(O)) : \A m \in 1 .. Len(L) : L[m] \in AnyStep /\ L[m][1] \in O
  BY <1>5, <1>6, Zenon
<1>d. \A op \in PlainOps : << << op >> >> \in Seq(WithOps({op}))
  BY <1>7, <1>8, Zenon
<1> QED
  BY <1>a, <1>b, <1>c, <1>d, <1>4, <1>7, <1>8, Zenon

(* They lack what has other operations.                                         *)
LEMMA OpsLack ==
    ASSUME NEW O, NEW L \in Seq(WithOps(O)), NEW B, \A s \in B : s[1] \notin O
    PROVE  ~ Has(L, B)
<1>1. \A m \in 1 .. Len(L) : L[m][1] \in O
  BY OpsLists
<1> QED
  BY <1>1 DEF Has

(* The parts of the commands, by their operations.                              *)
LEMMA FileParts ==
    ASSUME NEW path, NEW content, << path, content >> \in Contents
    PROVE  /\ if_missing(path, content) \in Seq(WithOps({"if missing"}))
           /\ write_text(path, content) \in Seq(WithOps({"open", "write"}))
<1> DEFINE a == << "if missing", path, content >>
           b == << "open", path >>
           c == << "write", path, content >>
<1>1. a \in AnyStep /\ b \in AnyStep /\ c \in AnyStep
  BY OnFile DEF AnyStep, Steps
<1>2. a[1] = "if missing" /\ b[1] = "open" /\ c[1] = "write"
  OBVIOUS
<1>3. if_missing(path, content) = << a >> /\ write_text(path, content) = << b, c >>
  BY DEF if_missing, write_text
<1> HIDE DEF a, b, c
<1>4. a \in WithOps({"if missing"}) /\ b \in WithOps({"open", "write"})
      /\ c \in WithOps({"open", "write"})
  BY <1>1, <1>2 DEF WithOps
<1>5. \A S : \A x, y \in S : << x >> \in Seq(S) /\ << x, y >> \in Seq(S)
  OBVIOUS
<1> QED
  BY <1>3, <1>4, <1>5, Zenon

(* The parts the commands are made of, by their operations.                     *)
LEMMA ListParts ==
    /\ ensure_research_scaffold \in Seq(WithOps({"if missing"}))
    /\ parse_research_ledgers \in Seq(WithOps({"parse"}))
    /\ \A k \in Kinds : Has(parse_research_ledgers, Parses(k))
    /\ RestoreFiles \in Seq(WithOps(RestoreOps))
    /\ discover_or_create \in Seq(WithOps({"discover"}))
    /\ discover \in Seq(WithOps({"discover"})) /\ ~ Has(discover, Makes)
<1>0. CalmSteps \subseteq AnyStep
  BY DEF CalmSteps, AnyStep, Steps
<1>1. /\ DOMAIN KindOrder = 1 .. 4 /\ \A i \in 1 .. 4 : KindOrder[i] \in Kinds
      /\ \A k \in Kinds : \E i \in 1 .. 4 : KindOrder[i] = k
  BY DEF KindOrder, Kinds
<1>2. \A n \in Nat : \A S : \A f \in [1 .. n -> S] : f \in Seq(S) /\ Len(f) = n
  OBVIOUS
<1>3. \A x, y : << x, y >>[1] = x /\ << x, y >>[2] = y
  OBVIOUS
<1>4. ensure_research_scaffold \in Seq(WithOps({"if missing"}))
  <2>1. ensure_research_scaffold
          = [i \in 1 .. 4 |-> << "if missing", Ledger(KindOrder[i]), << >> >>]
    BY <1>1 DEF ensure_research_scaffold
  <2>2. ensure_research_scaffold \in Seq(CalmSteps) /\ Len(ensure_research_scaffold) = 4
    BY CalmScaffold
  <2>3. \A i \in 1 .. 4 : ensure_research_scaffold[i] \in AnyStep
    BY <1>0, <2>2
  <2>4. \A x : << "if missing", x, << >> >>[1] = "if missing"
    OBVIOUS
  <2>5. \A i \in 1 .. 4 : ensure_research_scaffold[i][1] = "if missing"
    BY <2>1, <2>4
  <2>6. ensure_research_scaffold \in [1 .. 4 -> WithOps({"if missing"})]
    BY <2>1, <2>3, <2>5 DEF WithOps
  <2> QED
    BY <1>2, <2>6, Zenon
<1>5. /\ parse_research_ledgers \in Seq(WithOps({"parse"}))
      /\ \A k \in Kinds : Has(parse_research_ledgers, Parses(k))
  <2>1. parse_research_ledgers = [i \in 1 .. 4 |-> << "parse", KindOrder[i] >>]
    BY <1>1 DEF parse_research_ledgers
  <2>2. \A k \in Kinds : << "parse", k >> \in WithOps({"parse"})
    <3>1. \A k \in Kinds : << "parse", k >> \in AnyStep
      BY CalmOnes, <1>0
    <3> QED
      BY <1>3, <3>1 DEF WithOps
  <2>3. parse_research_ledgers \in [1 .. 4 -> WithOps({"parse"})]
    BY <1>1, <2>1, <2>2
  <2>4. parse_research_ledgers \in Seq(WithOps({"parse"})) /\ Len(parse_research_ledgers) = 4
    BY <1>2, <2>3, Zenon
  <2>5. ASSUME NEW k \in Kinds PROVE Has(parse_research_ledgers, Parses(k))
    <3>1. PICK i \in 1 .. 4 : KindOrder[i] = k
      BY <1>1
    <3>2. parse_research_ledgers[i] = << "parse", k >>
      BY <2>1, <3>1
    <3> QED
      BY <2>4, <3>2 DEF Has, Parses
  <2> QED
    BY <2>4, <2>5
<1>6. discover_or_create \in Seq(WithOps({"discover"}))
      /\ discover \in Seq(WithOps({"discover"})) /\ ~ Has(discover, Makes)
  <2> DEFINE a == << "discover", "create" >>
             b == << "discover", "fail" >>
  <2>1. a \in AnyStep /\ b \in AnyStep
    BY CalmOnes, <1>0 DEF Hows
  <2>2. a[1] = "discover" /\ b[1] = "discover" /\ a # b
    OBVIOUS
  <2>3. discover_or_create = << a >> /\ discover = << b >>
    BY DEF discover_or_create, discover
  <2>4. b \notin Makes
    <3>1. b[1] \notin FileOps
      BY DEF FileOps
    <3> QED
      BY <2>2, <3>1 DEF Makes
  <2> HIDE DEF a, b
  <2>5. a \in WithOps({"discover"}) /\ b \in WithOps({"discover"})
    BY <2>1, <2>2 DEF WithOps
  <2>6. \A m \in 1 .. Len(<< b >>) : << b >>[m] = b
    OBVIOUS
  <2>7. ~ Has(<< b >>, Makes)
    BY <2>4, <2>6 DEF Has
  <2> QED
    BY <2>3, <2>5, <2>7, OpsLists
<1>7. RestoreFiles \in Seq(WithOps(RestoreOps))
  <2> DEFINE a == << << "unlink" >>, << "initialize schema" >>, << "restore events" >> >>
             b == [i \in DOMAIN Runs |-> << "restore run", Runs[i] >>]
             hypotheses == SetToSeq(Hypotheses)
             c == [i \in DOMAIN hypotheses |-> << "restore hypothesis", hypotheses[i] >>]
             W == WithOps(RestoreOps)
  <2>1. << "unlink" >> \in W /\ << "initialize schema" >> \in W /\ << "restore events" >> \in W
    <3>1. << "unlink" >> \in AnyStep /\ << "initialize schema" >> \in AnyStep
          /\ << "restore events" >> \in AnyStep
      BY OpsLists DEF PlainOps
    <3>2. \A op : << op >>[1] = op
      OBVIOUS
    <3> QED
      BY <3>1, <3>2 DEF WithOps, RestoreOps
  <2>2. \A x, y, z \in W : << x, y, z >> \in Seq(W)
    OBVIOUS
  <2>3. a \in Seq(W)
    BY <2>1, <2>2, Zenon
  <2>4. Runs \in Seq(Range(Runs)) /\ \A r \in Range(Runs) : << "restore run", r >> \in W
    BY <1>0, <1>3, CalmOnes, WorkspaceNames DEF WithOps, RestoreOps
  <2>5. hypotheses \in Seq(Hypotheses) /\ \A h \in Hypotheses : << "restore hypothesis", h >> \in W
    BY <1>0, <1>3, CalmOnes, HypothesesFinite, SetToSeqTyped DEF WithOps, RestoreOps
  <2> HIDE DEF a, hypotheses, W
  <2>6. ASSUME NEW S, NEW L \in Seq(S), NEW op, \A x \in S : << op, x >> \in W
        PROVE  [i \in DOMAIN L |-> << op, L[i] >>] \in Seq(W)
    <3>1. DOMAIN L = 1 .. Len(L) /\ Len(L) \in Nat /\ \A i \in 1 .. Len(L) : L[i] \in S
      BY <2>6
    <3>2. [i \in 1 .. Len(L) |-> << op, L[i] >>] \in [1 .. Len(L) -> W]
      BY <2>6, <3>1
    <3> QED
      BY <1>2, <3>1, <3>2
  <2>7. b \in Seq(W) /\ c \in Seq(W)
    BY <2>4, <2>5, <2>6
  <2>8. RestoreFiles = (a \o b) \o c
    BY Zenon DEF RestoreFiles, a, hypotheses
  <2>9. \A K, L \in Seq(W) : K \o L \in Seq(W)
    BY ConcatProperties
  <2> HIDE DEF b, c
  <2>10. RestoreFiles \in Seq(W)
    BY <2>3, <2>7, <2>8, <2>9
  <2> QED
    BY <2>10 DEF W
<1> QED
  BY <1>4, <1>5, <1>6, <1>7

(* A command that neither validates nor rebuilds.                               *)
LEMMA MildLists ==
    \A L \in Seq(WithOps(MildNames)) : Mild(L)
<1> SUFFICES ASSUME NEW L \in Seq(WithOps(MildNames)) PROVE Mild(L)
  OBVIOUS
<1>1. L \in Seq(AnyStep) /\ \A m \in 1 .. Len(L) : L[m][1] \in MildNames
  BY OpsLists
<1> QED
  BY <1>1, MildOps DEF MildStep

(* An init only makes files, reads toml and events, and inserts its project.    *)
LEMMA InitOps ==
    ASSUME NEW name \in Names
    PROVE  init(name) \in
             Seq(WithOps({"if missing", "read project", "insert project", "read events"}))
<1> DEFINE O == {"if missing", "read project", "insert project", "read events"}
           a == if_missing(Toml, name)
           rp == << "read project" >>
           ip == << "insert project" >>
           re == << "read events" >>
           M == << rp, ip, re >>
           L == ensure_research_scaffold
<1>1. a \in Seq(WithOps(O))
  <2>1. << Toml, name >> \in Contents
    BY DEF Contents, TomlContents
  <2> QED
    BY <2>1, FileParts, OpsLists
<1>2. L \in Seq(WithOps(O))
  BY ListParts, OpsLists
<1>3. M \in Seq(WithOps(O))
  <2>1. rp \in AnyStep /\ ip \in AnyStep /\ re \in AnyStep
    BY OpsLists DEF PlainOps
  <2>2. rp[1] = "read project" /\ ip[1] = "insert project" /\ re[1] = "read events"
    OBVIOUS
  <2> HIDE DEF rp, ip, re
  <2>3. rp \in WithOps(O) /\ ip \in WithOps(O) /\ re \in WithOps(O)
    BY <2>1, <2>2 DEF WithOps
  <2>4. \A S : \A x, y, z \in S : << x, y, z >> \in Seq(S)
    OBVIOUS
  <2> QED
    BY <2>3, <2>4, Zenon
<1>4. init(name) = (a \o M) \o L
  BY DEF init
<1> HIDE DEF a, M, L, O
<1>5. (a \o M) \o L \in Seq(WithOps(O))
  BY <1>1, <1>2, <1>3, OpsLists
<1> QED
  BY <1>4, <1>5 DEF O

(* So it is mild.                                                               *)
LEMMA InitMild == \A name \in Names : Mild(init(name))
BY InitOps, MildLists, OpsLists DEF MildNames, FileOps

(* What is in the tables of the ledgers stays, when other rows are inserted.    *)
LEMMA OtherTables ==
    ASSUME NEW tables, DOMAIN tables = Tables \cup {"events"}
    PROVE  /\ \A new : \A k \in Kinds : [tables EXCEPT !.projects = new][k] = tables[k]
           /\ \A new : \A k \in Kinds : [tables EXCEPT !.events = new][k] = tables[k]
           /\ \A ref, payload : \A k \in Kinds :
                insert_payload(tables, "alternative_explanations", ref, payload)[k] = tables[k]
<1>1. \A k \in Kinds : k \in DOMAIN tables /\ k # "projects" /\ k # "events"
                       /\ k # "alternative_explanations"
  BY DEF Tables, Kinds
<1>2. \A new : \A k \in Kinds : [tables EXCEPT !.projects = new][k] = tables[k]
  BY <1>1
<1>3. \A new : \A k \in Kinds : [tables EXCEPT !.events = new][k] = tables[k]
  BY <1>1
<1>4. \A ref, payload : \A k \in Kinds :
        insert_payload(tables, "alternative_explanations", ref, payload)[k] = tables[k]
  <2>1. \A new : \A k \in Kinds : [tables EXCEPT !["alternative_explanations"] = new][k] = tables[k]
    BY <1>1
  <2> QED
    BY <2>1 DEF insert_payload
<1> QED
  BY <1>2, <1>3, <1>4

(* Opening and writing a file keeps the invariant: whoever opens a ledger       *)
(* makes one.                                                                   *)
LEMMA SoloOpen == LInv /\ IInv => \A p \in Procs : Open(p) => LInv'
BY PutsKeeps DEF Open

(* So does writing it.                                                          *)
LEMMA SoloWrite == LInv /\ IInv => \A p \in Procs : Write(p) => LInv'
BY PutsKeeps DEF Write

(* So do the inserts of the project and the event, into other tables.           *)
LEMMA SoloInserts ==
    ASSUME LInv, IInv, NEW p \in Procs, InsertProject(p) \/ InsertEvent(p)
    PROVE  LInv'
<1>1. DOMAIN index = Tables \cup {"events"}
  BY DEF IInv, IndexInv, TablesOf
<1>2. CASE InsertProject(p)
  <2>1. At(p, "insert project") /\ Done(p) /\ UNCHANGED << files, rebuilt, alone, fresh >>
    BY <1>2 DEF InsertProject, History
  <2>2. PICK old, new : old = index /\ index' = [old EXCEPT !.projects = new]
    BY <1>2 DEF InsertProject
  <2>3. \A k \in Kinds : index'[k] = index[k]
    BY <1>1, <2>2, OtherTables
  <2> QED
    BY <2>1, <2>3, CalmDone DEF Calmly, Silent
<1>3. CASE InsertEvent(p)
  <2>1. At(p, "insert event") /\ Done(p) /\ UNCHANGED << files, rebuilt, alone, fresh >>
    BY <1>3 DEF InsertEvent, History
  <2>2. PICK old, new : old = index /\ index' = [old EXCEPT !.events = new]
    BY <1>3 DEF InsertEvent, insert_event
  <2>3. \A k \in Kinds : index'[k] = index[k]
    BY <1>1, <2>2, OtherTables
  <2> QED
    BY <2>1, <2>3, CalmDone DEF Calmly, Silent
<1> QED
  BY <1>2, <1>3

(* So does the line of an event.                                                *)
LEMMA SoloAppendEvent ==
    ASSUME LInv, IInv, NEW p \in Procs, AppendEvent(p)
    PROVE  LInv'
<1>1. At(p, "append event") /\ Done(p) /\ UNCHANGED << files, index, rebuilt, alone, fresh >>
  BY DEF AppendEvent, History
<1> QED
  BY <1>1, CalmDone DEF Calmly, Silent

(* So does a rebuild that unlinks its database or makes the tables.             *)
LEMMA SoloTables ==
    ASSUME LInv, IInv, NEW p \in Procs, Unlink(p) \/ InitializeSchema(p)
    PROVE  LInv'
<1>1. /\ Done(p) /\ UNCHANGED << files, index, alone, fresh >>
      /\ At(p, "unlink") \/ At(p, "initialize schema")
  BY DEF Unlink, InitializeSchema, History
<1>2. \A op \in {"unlink", "initialize schema"} : Calmly(op) /\ Silent(op) /\ op # "insert"
  BY <1>1 DEF Calmly, RestoreOps, Silent
<1> QED
  BY <1>1, <1>2, CalmDone

(* So does to read the project,                                                 *)
LEMMA SoloReadProject ==
    ASSUME LInv, IInv, NEW p \in Procs, ReadProject(p)
    PROVE  LInv'
<1>1. At(p, "read project") /\ Working(p)
      /\ UNCHANGED << files, index, rebuilt, alone, fresh >>
  BY DEF ReadProject, History, At
<1>2. JobsInv /\ RecordsInv /\ FilesInv
  BY DEF IInv
<1>3. CASE files[Toml] = Blank
  <2>1. Raise(p)
    BY <1>3 DEF ReadProject
  <2> QED
    BY <1>1, <1>2, <2>1, EndsKeeps
<1>4. CASE files[Toml] # Blank
  <2>1. PICK k : k = [jobs[p] EXCEPT !.project = files[Toml]]
    OBVIOUS
  <2>2. Becomes(p, Then(k, << >>))
    BY <1>4, <2>1, Zenon DEF ReadProject
  <2>3. files[Toml] \in Names \cup {NoFile}
    BY <1>2, <1>4 DEF FilesInv
  <2>4. SameReading(k, jobs[p])
    <3>1. jobs[p] \in Job
      BY <1>2 DEF JobsInv
    <3> QED
      BY <2>1, <2>3, <3>1 DEF SameReading, Job
  <2>5. PICK i : Does(p, "read project", i, << >>)
    BY <1>1, <1>2, <2>2, <2>4, MildNone, ThenDoes DEF Silent
  <2> QED
    BY <1>1, <2>5, CalmDoes DEF Calmly
<1> QED
  BY <1>3, <1>4

(* to read the events,                                                          *)
LEMMA SoloReadEvents ==
    ASSUME LInv, IInv, NEW p \in Procs, ReadEvents(p)
    PROVE  LInv'
<1>1. At(p, "read events") /\ Working(p)
      /\ UNCHANGED << files, index, rebuilt, alone, fresh >>
  BY DEF ReadEvents, History, At
<1>2. JobsInv /\ RecordsInv /\ FilesInv
  BY DEF IInv
<1>3. CASE Torn \in Range(events)
  <2>1. Raise(p)
    BY <1>3 DEF ReadEvents
  <2> QED
    BY <1>1, <1>2, <2>1, EndsKeeps
<1>4. CASE Torn \notin Range(events)
  <2>1. PICK k, K : /\ k = [jobs[p] EXCEPT !.created = TRUE]
                    /\ K = IF events # << >> THEN << >>
                           ELSE << << "append event" >>, << "insert event" >> >>
    OBVIOUS
  <2>2. Becomes(p, Then(k, K))
    BY <1>4, <2>1, Zenon DEF ReadEvents
  <2>3. SameReading(k, jobs[p])
    <3>1. jobs[p] \in Job
      BY <1>2 DEF JobsInv
    <3> QED
      BY <2>1, <3>1 DEF SameReading, Job
  <2>4. Mild(K) /\ ~ Has(K, Makes)
    <3> DEFINE a == << "append event" >>
               b == << "insert event" >>
               M == << a, b >>
    <3>1. a[1] = "append event" /\ b[1] = "insert event"
      OBVIOUS
    <3>2. a \in AnyStep /\ b \in AnyStep
      <4>1. \A op \in PlainOps : << op >> \in AnyStep
        BY DEF AnyStep, Steps, OtherSteps, PlainSteps
      <4> QED
        BY <4>1 DEF PlainOps
    <3> HIDE DEF a, b
    <3>3. M \in Seq(AnyStep) /\ Len(M) = 2 /\ \A m \in 1 .. 2 : M[m] = a \/ M[m] = b
      BY <3>2
    <3> HIDE DEF M
    <3>4. Mild(M)
      <4>1. \A m \in 1 .. Len(M) : MildStep(M[m])
        BY <3>1, <3>3 DEF MildStep, MildNames
      <4> QED
        BY <3>3, <4>1, MildOps
    <3>5. a \notin Makes /\ b \notin Makes
      BY <3>1, LedgerSorts DEF FileOps
    <3>6. ~ Has(M, Makes)
      BY <3>3, <3>5 DEF Has
    <3> QED
      BY <2>1, <3>4, <3>6, MildNone DEF M, a, b
  <2>5. PICK i : Does(p, "read events", i, K)
    BY <1>1, <1>2, <2>2, <2>3, <2>4, ThenDoes DEF Silent
  <2> QED
    BY <1>1, <2>5, CalmDoes DEF Calmly
<1> QED
  BY <1>3, <1>4

(* and to look for the project, whether or not it is initialised then.          *)
LEMMA SoloDiscover ==
    ASSUME LInv, IInv, NEW p \in Procs, Discover(p)
    PROVE  LInv'
<1>1. At(p, "discover") /\ Working(p)
      /\ UNCHANGED << files, index, rebuilt, alone, fresh >>
  BY DEF Discover, History, At
<1>2. JobsInv /\ RecordsInv /\ FilesInv
  BY DEF IInv
<1>3. ASSUME Raise(p) PROVE LInv'
  BY <1>1, <1>2, <1>3, EndsKeeps
<1>4. ASSUME files[Toml] \in Names,
             Becomes(p, Then([jobs[p] EXCEPT !.project = files[Toml]], << >>))
      PROVE  LInv'
  <2>1. PICK k : k = [jobs[p] EXCEPT !.project = files[Toml]]
    OBVIOUS
  <2>2. Becomes(p, Then(k, << >>))
    BY <1>4, <2>1, Zenon
  <2>3. SameReading(k, jobs[p])
    <3>1. jobs[p] \in Job
      BY <1>2 DEF JobsInv
    <3> QED
      BY <1>4, <2>1, <3>1 DEF SameReading, Job
  <2>4. PICK i : Does(p, "discover", i, << >>)
    BY <1>1, <1>2, <2>2, <2>3, MildNone, ThenDoes DEF Silent
  <2> QED
    BY <1>1, <2>4, CalmDoes DEF Calmly
<1>5. ASSUME Arg(p) = "create", Becomes(p, Then(jobs[p], init("mwb-demo")))
      PROVE  LInv'
  <2>1. PICK k, K : k = jobs[p] /\ K = init("mwb-demo")
    OBVIOUS
  <2>2. SameReading(k, jobs[p])
    BY <1>2, <2>1 DEF SameReading, JobsInv
  <2>3. Mild(K)
    BY <2>1, WorkspaceNames, InitMild
  <2>4. PICK i : Does(p, "discover", i, K)
    BY <1>1, <1>2, <1>5, <2>1, <2>2, <2>3, HeadMakes, ThenDoes DEF Silent
  <2> QED
    BY <1>1, <2>4, CalmDoes DEF Calmly
<1> QED
  BY <1>3, <1>4, <1>5 DEF Discover

(* The files that are there are passed over, a missing one is made first.       *)
LEMMA SoloIfMissing ==
    ASSUME LInv, IInv, NEW p \in Procs, IfMissing(p)
    PROVE  LInv'
<1>1. At(p, "if missing") /\ UNCHANGED << files, index, rebuilt, alone, fresh >>
  BY DEF IfMissing, History
<1>2. FilesInv /\ JobsInv /\ RecordsInv
  BY DEF IInv
<1>3. AtStep(jobs[p], Head(jobs[p].todo), valid) /\ JobGood(jobs[p], World)
      /\ Head(jobs[p].todo)[1] = "if missing" /\ Head(jobs[p].todo)[2] = Arg(p)
      /\ Head(jobs[p].todo)[3] = Content(p)
  BY <1>1, <1>2, Acting
<1>4. PICK j, h, path, c : /\ j = jobs[p] /\ h = Head(jobs[p].todo)
                           /\ path = Arg(p) /\ c = Content(p)
  OBVIOUS
<1>5. j \in Job /\ j.todo # << >> /\ j.todo \in Seq(AnyStep) /\ Ends(j.todo, Return1)
  BY <1>3, <1>4 DEF AtStep, JobGood, Job
<1>6. << path, c >> \in Contents
  BY <1>3, <1>4, StepShape DEF AtStep
<1>7. CASE files[path] = NoFile
  <2>1. PICK K : K = write_text(path, c)
    OBVIOUS
  <2>2. Mild(K)
    <3>1. K \in Seq(WithOps({"open", "write"})) /\ {"open", "write"} \subseteq MildNames
      BY <1>6, <2>1, FileParts DEF MildNames, FileOps
    <3> QED
      BY <3>1, MildLists, OpsLists
  <2>3. Becomes(p, Then(j, K))
    BY <1>4, <1>7, <2>1, Zenon DEF IfMissing
  <2>4. SameReading(j, jobs[p])
    BY <1>4, <1>5 DEF SameReading
  <2>5. PICK i : Does(p, "if missing", i, K)
    BY <1>1, <1>2, <2>2, <2>3, <2>4, HeadMakes, ThenDoes DEF Silent, FileOps
  <2> QED
    BY <1>1, <2>5, CalmDoes DEF Calmly
<1>8. CASE files[path] # NoFile
  <2>1. PICK L : L = j.todo
    OBVIOUS
  <2>2. L \in Seq(AnyStep) /\ L # << >> /\ L[Len(L)] = Return1 /\ Len(L) \in Nat
    <3>1. Len(L) \in 1 .. Len(L) /\ Len(L) \in Nat
      BY <1>5, <2>1
    <3> QED
      BY <1>5, <2>1, <3>1 DEF Ends
  <2>3. PICK n \in 1 .. Len(L) :
          /\ AfterPresent(L) = From(L, n)
          /\ \A m \in 1 .. Len(L) : m < n => L[m][1] = "if missing" /\ files[L[m][2]] # NoFile
    BY <2>2, SkipsPresent
  <2>4. PICK R, i : R = From(L, n) /\ i = [j EXCEPT !.todo = R]
    OBVIOUS
  <2>5. R \in Seq(AnyStep) /\ << >> \o R = R
    <3>1. n \in 1 .. Len(L) + 1
      BY <2>2
    <3>2. R \in Seq(AnyStep)
      BY <2>2, <2>4, <3>1, FromIndex
    <3> QED
      BY <3>2, ConcatEmptySeq
  <2>6. i.todo = R /\ i.name = j.name /\ i.parsed = j.parsed /\ i.errors = j.errors
    BY <1>5, <2>4, <2>5 DEF Job
  <2>7. ASSUME NEW m \in 1 .. Len(L), m < n
        PROVE  L[m] \notin Parsing \cup Indexing \cup RestoreStep
    <3>1. L[m][1] = "if missing"
      BY <2>3, <2>7
    <3> QED
      BY <3>1, LedgerSorts
  <2>8. Mild(<< >>) /\ ~ Has(<< >>, Makes) /\ ~ Has(<< >>, Indexing)
    BY MildNone DEF Mild
  <2>9. Moves(j, i, n, << >>)
    BY <2>1, <2>2, <2>4, <2>5, <2>6, <2>8 DEF Moves, Mild
  <2>10. Passing(j, i, n, << >>)
    BY <2>1, <2>6, <2>7, <2>8, <2>9 DEF Passing
  <2>11. jobs' = [jobs EXCEPT ![p] = i]
    <3>1. jobs' = [jobs EXCEPT ![p] = [j EXCEPT !.todo = AfterPresent(@)]]
      BY <1>4, <1>8, Zenon DEF IfMissing, Becomes
    <3>2. [j EXCEPT !.todo = AfterPresent(@)] = i
      BY <1>5, <2>1, <2>3, <2>4 DEF Job
    <3> QED
      BY <3>1, <3>2, Zenon
  <2>12. Passed(p, i, n, << >>)
    BY <1>1, <1>4, <2>10, <2>11, SameRows DEF Passed
  <2> QED
    BY <1>2, <2>12, PassedKeeps
<1> QED
  BY <1>7, <1>8

(* A rebuild makes its tables, or ends.                                         *)
LEMMA SoloMakesTables ==
    ASSUME LInv, IInv, NEW p \in Procs, NEW op \in RestoreOps, At(p, op),
           UNCHANGED << files, events, index, History >>,
           \/ Raise(p) \/ Done(p)
           \/ \E seen \in SUBSET Hypotheses :
                Becomes(p, Then([jobs[p] EXCEPT !.seen = seen], << >>))
    PROVE  LInv'
<1>1. UNCHANGED << files, index, alone, fresh >> /\ Working(p)
  BY DEF History, At
<1>2. JobsInv /\ RecordsInv
  BY DEF IInv
<1>3. Calmly(op) /\ Silent(op) /\ op # "insert"
  BY <1>1 DEF Calmly, Silent, RestoreOps
<1>4. CASE Raise(p)
  <2>1. Head(jobs[p].todo) \in AnyStep /\ Head(jobs[p].todo)[1] = op
        /\ 1 \in 1 .. Len(jobs[p].todo) /\ jobs[p].todo[1] = Head(jobs[p].todo)
    BY <1>2, Acting DEF AtStep
  <2>2. Has(jobs[p].todo, Rebuilds \cup RestoreStep)
    <3>1. Head(jobs[p].todo) \in Rebuilds
      BY <2>1 DEF Rebuilds
    <3> QED
      BY <2>1, <3>1 DEF Has
  <2>3. jobs[p].name = "rebuild"
    BY <2>2 DEF LInv, Shapes, Shape
  <2> QED
    BY <1>1, <1>2, <1>4, <2>3, EndsKeeps
<1>5. CASE Done(p)
  BY <1>3, <1>5, CalmDone
<1>6. ASSUME NEW seen \in SUBSET Hypotheses,
             Becomes(p, Then([jobs[p] EXCEPT !.seen = seen], << >>))
      PROVE  LInv'
  <2>1. PICK k : k = [jobs[p] EXCEPT !.seen = seen]
    OBVIOUS
  <2>2. SameReading(k, jobs[p])
    <3>1. jobs[p] \in Job
      BY <1>2 DEF JobsInv
    <3> QED
      BY <2>1, <3>1 DEF SameReading, Job
  <2>3. PICK i : Does(p, op, i, << >>)
    BY <1>2, <1>3, <1>6, <2>1, <2>2, MildNone, ThenDoes
  <2> QED
    BY <1>3, <2>3, CalmDoes
<1> QED
  BY <1>4, <1>5, <1>6

(* So does to restore the events,                                               *)
LEMMA SoloRestoreEvents ==
    ASSUME LInv, IInv, NEW p \in Procs, RestoreEvents(p)
    PROVE  LInv'
<1>1. At(p, "restore events") /\ UNCHANGED << files, events, index, History >>
  BY DEF RestoreEvents, Restoring
<1>2. Raise(p) \/ Done(p)
  BY DEF RestoreEvents, Lost, Nothing, Restore, Done
<1>3. "restore events" \in RestoreOps
  BY DEF RestoreOps
<1> QED
  BY <1>1, <1>2, <1>3, SoloMakesTables

(* the explanation in a file,                                                   *)
LEMMA SoloRestoreExplanation ==
    ASSUME LInv, IInv, NEW p \in Procs, NEW op \in {"restore run", "restore hypothesis"},
           At(p, op), UNCHANGED << files, events, index, History >>,
           NEW of \in Explainable, NEW tables, RestoreExplanation(p, of, tables)
    PROVE  LInv'
<1>1. PICK run, hypothesis : run = files[Explained(of)] /\ hypothesis = Manifest[run].hypothesis
  OBVIOUS
<1>2. run \in Range(Runs) \cup {NoFile, Blank}
  BY <1>1 DEF IInv, FilesInv
<1>3. run \in Range(Runs) => hypothesis \in Hypotheses
  BY <1>1 DEF Hypotheses
<1>4. \/ Raise(p) \/ Done(p)
      \/ /\ run # Blank /\ run # NoFile
         /\ Becomes(p, Then([jobs[p] EXCEPT !.seen = @ \cup {hypothesis}], << >>))
  BY <1>1 DEF RestoreExplanation, Restore, Lost
<1>5. ASSUME run # Blank, run # NoFile,
             Becomes(p, Then([jobs[p] EXCEPT !.seen = @ \cup {hypothesis}], << >>))
      PROVE  \E seen \in SUBSET Hypotheses :
               Becomes(p, Then([jobs[p] EXCEPT !.seen = seen], << >>))
  <2>1. jobs[p].seen \in SUBSET Hypotheses
    BY DEF IInv, JobsInv, Job
  <2>2. PICK seen \in SUBSET Hypotheses : seen = jobs[p].seen \cup {hypothesis}
    BY <1>2, <1>3, <1>5, <2>1
  <2>3. Becomes(p, Then([jobs[p] EXCEPT !.seen = seen], << >>))
    BY <1>5, <2>2, Zenon
  <2> QED
    BY <2>3
<1>6. op \in RestoreOps
  BY DEF RestoreOps
<1> QED
  BY <1>4, <1>5, <1>6, SoloMakesTables

(* that of a run,                                                               *)
LEMMA SoloRestoreRun ==
    ASSUME LInv, IInv, NEW p \in Procs, RestoreRun(p)
    PROVE  LInv'
<1>1. At(p, "restore run") /\ UNCHANGED << files, events, index, History >>
  BY DEF RestoreRun, Restoring
<1>2. PICK of, tables : /\ of = Arg(p)
                        /\ tables = insert_payload(rebuilt, "runs", of, Manifest[of])
  OBVIOUS
<1>3. of \in Explainable
  <2>1. /\ Head(jobs[p].todo) \in Steps(valid) /\ Head(jobs[p].todo)[1] = "restore run"
        /\ Head(jobs[p].todo)[2] = Arg(p)
    BY <1>1, Acting DEF AtStep, IInv
  <2> QED
    BY <1>2, <2>1, StepShape DEF Explainable
<1>4. CASE rebuilt = NoTables
  <2>1. Raise(p)
    BY <1>4 DEF RestoreRun, Lost
  <2> QED
    BY <1>1, <2>1, SoloMakesTables DEF RestoreOps
<1>5. CASE rebuilt # NoTables
  <2>1. RestoreExplanation(p, of, tables)
    BY <1>2, <1>5, Zenon DEF RestoreRun
  <2> QED
    BY <1>1, <1>3, <2>1, SoloRestoreExplanation
<1> QED
  BY <1>4, <1>5

(* and that of a hypothesis.                                                    *)
LEMMA SoloRestoreHypothesis ==
    ASSUME LInv, IInv, NEW p \in Procs, RestoreHypothesis(p)
    PROVE  LInv'
<1>1. At(p, "restore hypothesis") /\ UNCHANGED << files, events, index, History >>
  BY DEF RestoreHypothesis, Restoring
<1>2. PICK of, tables : of = Arg(p) /\ tables = rebuilt
  OBVIOUS
<1>3. of \in Explainable
  <2>1. /\ Head(jobs[p].todo) \in Steps(valid) /\ Head(jobs[p].todo)[1] = "restore hypothesis"
        /\ Head(jobs[p].todo)[2] = Arg(p)
    BY <1>1, Acting DEF AtStep, IInv
  <2> QED
    BY <1>2, <2>1, StepShape DEF Explainable
<1>4. RestoreExplanation(p, of, tables)
  BY <1>2, Zenon DEF RestoreHypothesis
<1> QED
  BY <1>1, <1>3, <1>4, SoloRestoreExplanation

(* No two entries of a ledger without errors have the same name.                *)
LEMMA Distinct ==
    ASSUME NEW kind \in Kinds, NEW text \in Seq(Sections(kind)) \cup {NoFile, Blank},
           ~ HasErrors(kind, text)
    PROVE  \A x, y \in Range(Entries(kind, text)) : x.ref = y.ref => x = y
<1>1. CASE text \in {NoFile, Blank}
  <2>1. Entries(kind, text) = << >>
    BY <1>1 DEF Entries
  <2>2. \A x : x \notin Range(<< >>)
    BY DEF Range
  <2> QED
    BY <2>1, <2>2
<1>2. CASE text \notin {NoFile, Blank} /\ kind = "runs"
  <2> DEFINE named == named_rows(text)
             ids == [i \in DOMAIN named |-> named[i].run_id]
             rows == [i \in DOMAIN named |-> LedgerRow(kind, named[i].run_id, named[i])]
  <2>1. Entries(kind, text) = rows
    BY <1>2, Zenon DEF Entries
  <2>2. ~ Repeated(ids)
    <3>1. ~ run_errors(text)
      BY <1>2, Zenon DEF HasErrors
    <3> QED
      BY <3>1, Zenon DEF run_errors
  <2>3. text \in Seq(Sections(kind))
    BY <1>2
  <2>4. named \in Seq(Sections(kind))
    BY <2>3, AmongTyped, Zenon DEF named_rows
  <2> HIDE DEF named
  <2>5. DOMAIN named = 1 .. Len(named) /\ Len(named) \in Nat
    BY <2>4
  <2>6. \A i, j \in DOMAIN named : named[i].run_id = named[j].run_id => i = j
    <3>1. \A i, j \in DOMAIN ids : i < j => ids[i] # ids[j]
      BY <2>2, Zenon DEF Repeated
    <3>2. \A i, j \in DOMAIN named : i < j => named[i].run_id # named[j].run_id
      BY <3>1
    <3> QED
      BY <2>5, <3>2
  <2>7. \A i \in DOMAIN named : rows[i].ref = named[i].run_id
    BY DEF LedgerRow
  <2>8. \A x \in Range(rows) : \E i \in DOMAIN named : x = rows[i]
    BY DEF Range
  <2> HIDE DEF rows
  <2> QED
    BY <2>1, <2>6, <2>7, <2>8
<1>3. CASE text \notin {NoFile, Blank} /\ kind # "runs"
  <2> DEFINE entries == markdown_entries(kind, text)
             ids == [i \in DOMAIN entries |-> EntryId(kind, entries[i])]
             rows == [i \in DOMAIN entries |->
                        LedgerRow(kind, EntryId(kind, entries[i]), entries[i].payload)]
  <2>1. Entries(kind, text) = rows
    BY <1>3, Zenon DEF Entries
  <2>2. ~ Repeated(ids)
    <3>1. ~ markdown_errors(kind, text)
      BY <1>3, Zenon DEF HasErrors
    <3> QED
      BY <3>1, Zenon DEF markdown_errors
  <2>3. text \in Seq(Sections(kind))
    BY <1>3
  <2>4. entries \in Seq(Sections(kind))
    BY <2>3, AmongTyped, Zenon DEF markdown_entries
  <2> HIDE DEF entries
  <2>5. DOMAIN entries = 1 .. Len(entries) /\ Len(entries) \in Nat
    BY <2>4
  <2>6. \A i, j \in DOMAIN entries :
          EntryId(kind, entries[i]) = EntryId(kind, entries[j]) => i = j
    <3>1. \A i, j \in DOMAIN ids : i < j => ids[i] # ids[j]
      BY <2>2, Zenon DEF Repeated
    <3>2. \A i, j \in DOMAIN entries :
            i < j => EntryId(kind, entries[i]) # EntryId(kind, entries[j])
      BY <3>1
    <3> QED
      BY <2>5, <3>2
  <2>7. \A i \in DOMAIN entries : rows[i].ref = EntryId(kind, entries[i])
    BY DEF LedgerRow
  <2>8. \A x \in Range(rows) : \E i \in DOMAIN entries : x = rows[i]
    BY DEF Range
  <2> HIDE DEF rows
  <2> QED
    BY <2>1, <2>6, <2>7, <2>8
<1> QED
  BY <1>1, <1>2, <1>3

(* So in the ledgers of the workspace.                                          *)
Named(rows, bad) == \A k \in Kinds \ bad : \A x, y \in rows[k] : x.ref = y.ref => x = y

(* In a ledger without errors each ref has one row.                             *)
LEMMA LedgersNamed == FilesInv => Named(Rows, Bad)
<1> SUFFICES ASSUME FilesInv, NEW k \in Kinds \ Bad
             PROVE  \A x, y \in Rows[k] : x.ref = y.ref => x = y
  BY DEF Named
<1>1. PICK text : text = files[Ledger(k)]
  OBVIOUS
<1>2. text \in Seq(Sections(k)) \cup {NoFile, Blank} /\ ~ HasErrors(k, text)
  BY <1>1 DEF FilesInv, Bad
<1>3. Rows[k] = Range(Entries(k, text))
  BY <1>1 DEF Rows
<1> QED
  BY <1>2, <1>3, Distinct

(* A row goes into a table.                                                     *)
Inserted(ix, new, t, row) ==
    /\ new[t] = { x \in ix[t] : x.ref # row.ref } \cup {row}
    /\ \A k \in Kinds : k # t => new[k] = ix[k]
(* A validation indexes a row.                                                  *)
LEMMA SoloVInserts ==
    ASSUME NEW j, NEW i, Moves(j, i, 2, << >>), i.parsed = j.parsed,
           NEW t \in Kinds, NEW row, j.todo[1] = << "insert", t, row >>, j.todo[1] \in KindInserts,
           \A m \in 1 .. Len(j.todo) : m < 2 <=> m = 1, 1 \in 1 .. Len(j.todo),
           NEW rows, NEW bad, Named(rows, bad), NEW ix, SoloV(j, rows, bad, ix),
           NEW new, Inserted(ix, new, t, row)
    PROVE  SoloV(i, rows, bad, new)
<1> DEFINE h == << "insert", t, row >>
<1>1. h[1] = "insert" /\ j.todo[1] = h
  OBVIOUS
<1>2. \A k, r : << "insert", k, r >> = h <=> k = t /\ r = row
  OBVIOUS
<1> HIDE DEF h
<1>3. \A B : ~ Has(<< >>, B)
  BY NothingFirst
<1>4. \A B : /\ Has(i.todo, B) => Has(j.todo, B)
             /\ Has(j.todo, B) /\ h \notin B => Has(i.todo, B)
  <2> SUFFICES ASSUME NEW B PROVE  /\ Has(i.todo, B) => Has(j.todo, B)
                                   /\ Has(j.todo, B) /\ h \notin B => Has(i.todo, B)
    OBVIOUS
  <2>1. /\ Has(i.todo, B) => Has(<< >>, B) \/ Has(j.todo, B)
        /\ Has(j.todo, B) /\ (\A m \in 1 .. Len(j.todo) : m < 2 => j.todo[m] \notin B)
             => Has(i.todo, B)
    BY MovesHas
  <2>2. h \notin B => \A m \in 1 .. Len(j.todo) : m < 2 => j.todo[m] \notin B
    BY <1>1
  <2> QED
    BY <1>3, <2>1, <2>2
<1>5. h \notin IndexStep /\ \A k \in Kinds : h \notin Parses(k)
  BY <1>1, LedgerSorts
<1>6. Has(j.todo, KindInserts) /\ Has(j.todo, {h})
  BY <1>1 DEF Has
<1>7. ~ Has(j.todo, Makes) /\ ~ Has(i.todo, Makes)
  BY <1>4, <1>6 DEF SoloV
<1>8. \A k \in Kinds : \A r : Pending(i, k, r) => Pending(j, k, r)
  BY <1>4 DEF Pending, Read
<1>9. row \in rows[t]
  BY <1>6 DEF SoloV, Pending, h
<1>10. ASSUME NEW k \in Kinds, ~ Has(i.todo, Parses(k))
       PROVE  k \notin bad /\ \A r \in rows[k] : Pending(i, k, r) \/ r \in new[k]
  <2>1. ~ Has(j.todo, Parses(k))
    BY <1>4, <1>5, <1>10
  <2>2. k \notin bad /\ \A r \in rows[k] : Pending(j, k, r) \/ r \in ix[k]
    BY <2>1 DEF SoloV
  <2>3. ASSUME NEW r \in rows[k] PROVE Pending(i, k, r) \/ r \in new[k]
    <3>1. CASE r \in ix[k]
      <4>1. CASE k # t
        BY <3>1, <4>1 DEF Inserted
      <4>2. CASE k = t /\ r.ref # row.ref
        BY <3>1, <4>2 DEF Inserted
      <4>3. CASE k = t /\ r.ref = row.ref
        <5>1. r = row
          BY <1>9, <2>2, <4>3 DEF Named
        <5> QED
          BY <4>3, <5>1 DEF Inserted
      <4> QED
        BY <4>1, <4>2, <4>3
    <3>2. CASE Read(j, k, r)
      BY <3>2 DEF Read, Pending
    <3>3. CASE Has(j.todo, {<< "insert", k, r >>})
      <4>1. CASE << "insert", k, r >> = h
        <5>1. k = t /\ r = row
          BY <1>2, <4>1
        <5> QED
          BY <5>1 DEF Inserted
      <4>2. CASE << "insert", k, r >> # h
        <5>1. h \notin {<< "insert", k, r >>}
          BY <4>2
        <5> QED
          BY <1>4, <3>3, <5>1 DEF Pending
      <4> QED
        BY <4>1, <4>2
    <3> QED
      BY <2>2, <3>1, <3>2, <3>3 DEF Pending
  <2> QED
    BY <2>2, <2>3
<1>11. i.parsed # << >> => Has(i.todo, IndexStep)
  BY <1>4, <1>5 DEF SoloV
<1>12. \A k \in Kinds : \A r : Pending(i, k, r) => r \in rows[k]
  BY <1>8 DEF SoloV
<1> QED
  BY <1>7, <1>10, <1>11, <1>12 DEF SoloV

(* A row is indexed: an explanation, or an entry of a ledger.                   *)
LEMMA SoloInsert ==
    ASSUME LInv, IInv, NEW p \in Procs, Insert(p)
    PROVE  LInv'
<1>1. At(p, "insert") /\ Done(p) /\ UNCHANGED << files, rebuilt, alone, fresh >>
      /\ index' = insert_payload(index, Arg(p), Content(p).ref, Content(p).payload)
      /\ jobs[p].todo # << >>
  BY DEF Insert, History, At, Working
<1>2. /\ JobsInv /\ RecordsInv /\ FilesInv /\ TablesOf(index)
  BY DEF IInv, IndexInv
<1>3. PICK j, h, t, row : j = jobs[p] /\ h = Head(j.todo) /\ t = Arg(p) /\ row = Content(p)
  OBVIOUS
<1>4. /\ h \in Steps(valid) /\ h \in AnyStep /\ h[1] = "insert" /\ h[2] = t /\ h[3] = row
      /\ j \in Job
  BY <1>1, <1>2, <1>3, Acting DEF AtStep
<1>5. \/ t \in Kinds /\ row \in valid[t] /\ h = << "insert", t, row >>
      \/ t = "alternative_explanations"
  <2>1. h \in Inserts(valid) \cup ExplainInserts
    BY <1>4, StepShape
  <2> QED
    BY <1>4, <2>1, InsertShape
<1>6. DOMAIN index = Tables \cup {"events"}
  BY <1>2 DEF TablesOf
<1>7. CASE t = "alternative_explanations"
  <2>1. \A k \in Kinds : index'[k] = index[k]
    <3>1. PICK ix, ref, payload : ix = index /\ ref = Content(p).ref /\ payload = Content(p).payload
      OBVIOUS
    <3>2. index' = insert_payload(ix, "alternative_explanations", ref, payload)
      BY <1>1, <1>3, <1>7, <3>1
    <3> QED
      BY <1>6, <3>1, <3>2, OtherTables
  <2>2. Arg(p) \notin Kinds
    BY <1>3, <1>7, TableNames
  <2> QED
    BY <1>1, <2>1, <2>2, CalmDone DEF Calmly, Silent
<1>8. CASE t \in Kinds /\ row \in valid[t] /\ h = << "insert", t, row >>
  <2>1. h \in KindInserts
    BY <1>4, <1>8 DEF KindInserts
  <2>2. PICK i : i = Then(j, << >>)
    OBVIOUS
  <2>3. << >> \in Seq(AnyStep) /\ \A B : ~ Has(<< >>, B)
    BY NothingFirst
  <2>4. /\ i.todo = << >> \o Tail(j.todo) /\ i.name = j.name /\ i.parsed = j.parsed
        /\ i.errors = j.errors
    BY <1>1, <1>3, <1>4, <2>2, <2>3, ThenJob
  <2>5. /\ j.todo \in Seq(AnyStep) /\ 2 \in 1 .. Len(j.todo) /\ Tail(j.todo) = From(j.todo, 2)
        /\ \A m \in 1 .. Len(j.todo) : m < 2 <=> m = 1
        /\ 1 \in 1 .. Len(j.todo) /\ j.todo[1] = h
    BY <1>1, <1>2, <1>3, FirstDone
  <2>6. Moves(j, i, 2, << >>)
    BY <2>3, <2>4, <2>5 DEF Moves
  <2>7. Shape(j)
    BY <1>3 DEF LInv, Shapes
  <2>8. Shape(i)
    BY <2>6, <2>7, ShapeMoves
  <2>9. j.name = "validate"
    <3>1. Has(j.todo, Indexing)
      BY <2>1, <2>5 DEF Has, Indexing
    <3> QED
      BY <2>7, <3>1 DEF Shape
  <2>10. jobs' = [jobs EXCEPT ![p] = i]
    BY <1>1, <1>3, <2>2 DEF Done, Becomes
  <2>11. Rows' = Rows /\ Bad' = Bad
    BY <1>1, SameRows
  <2>12. Moved(p, i)
    BY <1>1, <1>3, <2>4, <2>8, <2>9, <2>10, <2>11 DEF Moved
  <2>13. PICK ix, new : ix = index /\ new = index'
    OBVIOUS
  <2>14. Inserted(ix, new, t, row)
    <3>1. row = Row(row.ref, row.payload)
      <4>1. row \in AllRows[t]
        BY <1>2, <1>8 DEF RecordsInv
      <4>2. PICK section \in Sections(t) : row = RowOf(t, section)
        BY <1>8, <4>1 DEF AllRows
      <4> QED
        BY <4>2 DEF RowOf, LedgerRow, Row
    <3>2. new = [ix EXCEPT ![t] = { x \in @ : x.ref # row.ref }
                                     \cup {[ref |-> row.ref, payload |-> row.payload]}]
      BY <1>1, <1>3, <2>13 DEF insert_payload, Row
    <3>3. \A k \in Kinds : k \in DOMAIN ix
      BY <1>6, <2>13, TableNames
    <3>4. [ref |-> row.ref, payload |-> row.payload] = row
      BY <3>1 DEF Row
    <3> QED
      BY <1>8, <3>2, <3>3, <3>4 DEF Inserted
  <2>15. ASSUME p \in alone PROVE Solo(i, Rows', Bad', index', rebuilt')
    <3>1. PICK rows, bad, rb : rows = Rows /\ bad = Bad /\ rb = rebuilt
      OBVIOUS
    <3>2. Solo(j, rows, bad, ix, rb)
      BY <1>3, <2>13, <2>15, <3>1 DEF LInv, Solos
    <3>3. Named(rows, bad)
      BY <1>2, <3>1, LedgersNamed
    <3>4. ~ j.errors => SoloV(i, rows, bad, new)
      <4>1. ~ j.errors => SoloV(j, rows, bad, ix)
        BY <2>9, <3>2 DEF Solo
      <4>2. j.todo[1] = << "insert", t, row >> /\ j.todo[1] \in KindInserts
        BY <1>8, <2>1, <2>5
      <4> QED
        BY <1>8, <2>4, <2>5, <2>6, <2>14, <3>3, <4>1, <4>2, SoloVInserts
    <3>5. Solo(i, rows, bad, new, rb)
      BY <2>4, <2>9, <3>4 DEF Solo
    <3> QED
      BY <1>1, <2>11, <2>13, <3>1, <3>5
  <2> QED
    BY <1>2, <2>12, <2>15, MovedKeeps
<1> QED
  BY <1>5, <1>7, <1>8

(* The first step is done, and leads to those of K.                             *)
MovesOne(j, i, K) ==
    /\ Moves(j, i, 2, K) /\ 1 \in 1 .. Len(j.todo)
    /\ \A m \in 1 .. Len(j.todo) : m < 2 <=> m = 1

(* The steps that are left then.                                                *)
LEMMA OneHas ==
    ASSUME NEW j, NEW i, NEW K, MovesOne(j, i, K), NEW B
    PROVE  /\ Has(i.todo, B) => Has(K, B) \/ Has(j.todo, B)
           /\ Has(K, B) => Has(i.todo, B)
           /\ Has(j.todo, B) /\ j.todo[1] \notin B => Has(i.todo, B)
<1>1. /\ Has(i.todo, B) => Has(K, B) \/ Has(j.todo, B)
      /\ Has(K, B) => Has(i.todo, B)
      /\ Has(j.todo, B) /\ (\A m \in 1 .. Len(j.todo) : m < 2 => j.todo[m] \notin B)
           => Has(i.todo, B)
  BY MovesHas DEF MovesOne
<1> QED
  BY <1>1 DEF MovesOne

(* Nothing is made behind the first reading or indexing.                        *)
LEMMA NoneMade ==
    ASSUME NEW j, j.todo \in Seq(AnyStep), 1 \in 1 .. Len(j.todo), 2 \in 1 .. Len(j.todo),
           Shape(j), j.name \in {"validate", "rebuild"},
           j.todo[1] \in Parsing \cup Indexing \cup Rebuilds \cup RestoreStep
    PROVE  ~ Has(j.todo, Makes) /\ ~ Has(From(j.todo, 2), Makes)
<1>1. 2 \in 1 .. Len(j.todo) + 1
  OBVIOUS
<1>2. Has(From(j.todo, 2), Makes) => Has(j.todo, Makes)
  BY <1>1, FromHas
<1>3. CASE j.name = "rebuild"
  BY <1>2, <1>3 DEF Shape, ShapeR
<1>4. CASE j.name = "validate"
  <2>1. ~ Has(j.todo, Rebuilds \cup RestoreStep) /\ Never(j.todo, Parsing \cup Indexing, Makes)
    BY <1>4 DEF Shape, ShapeV
  <2>2. j.todo[1] \in Parsing \cup Indexing
    BY <1>1, <2>1 DEF Has
  <2>3. j.todo[1] \notin Makes
    BY <2>2, LedgerSorts DEF FileOps
  <2>4. \A m \in 1 .. Len(j.todo) : m # 1 => j.todo[m] \notin Makes
    BY <1>1, <2>1, <2>2 DEF Never
  <2> QED
    BY <1>2, <2>3, <2>4 DEF Has
<1> QED
  BY <1>3, <1>4

(* A ledger is read.                                                            *)
ReadMore(j, i, kind, S) ==
    \A k \in Kinds : \A r : Read(i, k, r) <=> Read(j, k, r) \/ (k = kind /\ r \in S)

(* What a validation or rebuild that nothing goes on beside has read, it has    *)
(* from the ledger as it is; an error in the ledger is its error.               *)
LEMMA SoloParses ==
    ASSUME NEW j, NEW i, MovesOne(j, i, << >>), Shape(j), i.name = j.name,
           NEW kind \in Kinds, j.todo[1] = << "parse", kind >>,
           NEW rows, NEW bad, NEW ix, NEW rb, Solo(j, rows, bad, ix, rb),
           ReadMore(j, i, kind, rows[kind]), i.errors <=> j.errors \/ kind \in bad
    PROVE  Solo(i, rows, bad, ix, rb)
<1> DEFINE h == << "parse", kind >>
<1>1. h[1] = "parse" /\ h[2] = kind /\ j.todo[1] = h
  OBVIOUS
<1>2. h \in Parsing
  BY ParseStep
<1> HIDE DEF h
<1>3. \A B : /\ Has(i.todo, B) => Has(j.todo, B)
             /\ Has(j.todo, B) /\ h \notin B => Has(i.todo, B)
  BY <1>1, OneHas, NothingFirst
<1>4. \A k \in Kinds : k # kind => h \notin Parses(k)
  BY <1>1, LedgerSorts
<1>5. h \notin IndexStep /\ h \notin RestoreStep /\ h \in Early
  BY <1>1, <1>2, LedgerSorts DEF Early
<1>6. \A k, r : h # << "insert", k, r >>
  <2>1. \A k, r : << "insert", k, r >>[1] = "insert"
    OBVIOUS
  <2> QED
    BY <1>1, <2>1
<1>7. \A k \in Kinds : \A r :
        /\ Pending(i, k, r) <=> Pending(j, k, r) \/ (k = kind /\ r \in rows[kind])
        /\ Read(i, k, r) <=> Read(j, k, r) \/ (k = kind /\ r \in rows[kind])
  <2> SUFFICES ASSUME NEW k \in Kinds, NEW r
               PROVE  Pending(i, k, r) <=> Pending(j, k, r) \/ (k = kind /\ r \in rows[kind])
    BY DEF ReadMore
  <2>1. Has(i.todo, {<< "insert", k, r >>}) <=> Has(j.todo, {<< "insert", k, r >>})
    <3>1. PICK B : B = {<< "insert", k, r >>}
      OBVIOUS
    <3>2. h \notin B
      BY <1>6, <3>1
    <3> QED
      BY <1>3, <3>1, <3>2
  <2> QED
    BY <2>1 DEF Pending, ReadMore
<1>8. \A k \in Kinds : k # kind => (Has(j.todo, Parses(k)) => Has(i.todo, Parses(k)))
  BY <1>3, <1>4
<1>9. j.todo \in Seq(AnyStep) /\ 1 \in 1 .. Len(j.todo) /\ 2 \in 1 .. Len(j.todo)
  BY DEF MovesOne, Moves
<1>10. ASSUME j.name = "validate", ~ i.errors PROVE SoloV(i, rows, bad, ix)
  <2>1. SoloV(j, rows, bad, ix) /\ kind \notin bad
    BY <1>10 DEF Solo
  <2>2. ~ Has(i.todo, Makes)
    BY <1>1, <1>2, <1>3, <1>9, <1>10, NoneMade
  <2>3. Has(j.todo, IndexStep)
    BY <1>1, <1>2, <1>9, <1>10 DEF Shape, ShapeV, Follows, Has
  <2>4. Has(i.todo, IndexStep)
    BY <1>3, <1>5, <2>3
  <2>5. \A k \in Kinds : \A r : Pending(i, k, r) => r \in rows[k]
    BY <1>7, <2>1 DEF SoloV
  <2>6. ASSUME NEW k \in Kinds, ~ Has(i.todo, Parses(k))
        PROVE  k \notin bad /\ \A r \in rows[k] : Pending(i, k, r) \/ r \in ix[k]
    <3>1. CASE k = kind
      BY <1>7, <2>1, <3>1
    <3>2. CASE k # kind
      BY <1>7, <1>8, <2>1, <2>6, <3>2 DEF SoloV
    <3> QED
      BY <3>1, <3>2
  <2> QED
    BY <2>2, <2>4, <2>5, <2>6 DEF SoloV
<1>11. ASSUME j.name = "rebuild", ~ i.errors PROVE SoloR(i, rows, bad, rb)
  <2>1. SoloR(j, rows, bad, rb) /\ kind \notin bad
    BY <1>11 DEF Solo
  <2>2. Has(j.todo, RestoreStep)
    BY <1>1, <1>5, <1>9, <1>11 DEF Shape, ShapeR, Follows, Has
  <2>3. Has(i.todo, RestoreStep)
    BY <1>3, <1>5, <2>2
  <2>4. \A k \in Kinds : \A r : Read(i, k, r) => r \in rows[k]
    BY <1>7, <2>1 DEF SoloR
  <2>5. ASSUME NEW k \in Kinds, ~ Has(i.todo, Parses(k))
        PROVE  k \notin bad /\ \A r \in rows[k] : Read(i, k, r)
    <3>1. CASE k = kind
      BY <1>7, <2>1, <3>1
    <3>2. CASE k # kind
      BY <1>7, <1>8, <2>1, <2>5, <3>2 DEF SoloR
    <3> QED
      BY <3>1, <3>2
  <2> QED
    BY <2>3, <2>4, <2>5 DEF SoloR
<1>12. j.name = "rebuild" /\ i.errors => bad # {}
  BY DEF Solo
<1> QED
  BY <1>10, <1>11, <1>12 DEF Solo

(* A process does a step that leads to those of K, whatever it does.            *)
LEMMA OneDone ==
    ASSUME JobsInv, LInv, NEW p \in Procs, NEW op, At(p, op), op # "return", NEW i, NEW K,
           i.todo = K \o Tail(jobs[p].todo), i.name = jobs[p].name, K \in Seq(AnyStep),
           ~ Has(K, Parsing), ~ Has(K, Rebuilds \cup RestoreStep), ~ Has(K, Makes),
           Has(K, Indexing) => jobs[p].name = "validate" /\ ~ Has(From(jobs[p].todo, 2), Makes)
    PROVE  LET j == jobs[p]
           IN  MovesOne(j, i, K) /\ Shape(j) /\ Shape(i) /\ j.todo # << >>
               /\ j.todo[1] = Head(j.todo)
<1>1. PICK j : j = jobs[p]
  OBVIOUS
<1>2. /\ j.todo \in Seq(AnyStep) /\ 2 \in 1 .. Len(j.todo) /\ Tail(j.todo) = From(j.todo, 2)
      /\ \A m \in 1 .. Len(j.todo) : m < 2 <=> m = 1
      /\ 1 \in 1 .. Len(j.todo) /\ j.todo[1] = Head(j.todo)
  BY <1>1, FirstDone
<1>3. Moves(j, i, 2, K)
  BY <1>1, <1>2 DEF Moves
<1>4. Shape(j)
  BY <1>1 DEF LInv, Shapes
<1>5. Shape(i)
  BY <1>3, <1>4, ShapeMoves
<1>6. j.todo # << >>
  BY <1>1 DEF At, Working
<1> QED
  BY <1>1, <1>2, <1>3, <1>4, <1>5, <1>6 DEF MovesOne

(* The steps that insert some rows.                                             *)
LEMMA InsertsHas ==
    ASSUME NEW kind \in Kinds, NEW list \in Seq(AllRows[kind]),
           NEW k \in Kinds, NEW r
    PROVE  LET new == [m \in DOMAIN list |-> << "insert", kind, list[m] >>]
           IN  Has(new, {<< "insert", k, r >>}) <=> k = kind /\ r \in Range(list)
<1>1. DOMAIN list = 1 .. Len(list) /\ Len(list) \in Nat
  OBVIOUS
<1>2. PICK new : new = [m \in DOMAIN list |-> << "insert", kind, list[m] >>]
  OBVIOUS
<1>3. new \in Seq(Inserts(AllRows))
  BY <1>2, EntryInserts
<1>4. DOMAIN new = 1 .. Len(new) /\ DOMAIN new = 1 .. Len(list)
  BY <1>1, <1>2, <1>3
<1>5. \A a, b : << "insert", a, b >> = << "insert", k, r >> <=> a = k /\ b = r
  OBVIOUS
<1>6. \A m \in DOMAIN list : new[m] = << "insert", kind, list[m] >>
  BY <1>2
<1>7. Has(new, {<< "insert", k, r >>}) <=>
        \E m \in DOMAIN list : new[m] = << "insert", k, r >>
  BY <1>1, <1>4 DEF Has
<1>8. (\E m \in DOMAIN list : new[m] = << "insert", k, r >>) <=> k = kind /\ r \in Range(list)
  BY <1>5, <1>6 DEF Range
<1> QED
  BY <1>2, <1>7, <1>8

(* To read a ledger keeps the invariant.                                        *)
LEMMA SoloParse ==
    ASSUME LInv, IInv, NEW p \in Procs, Parse(p)
    PROVE  LInv'
<1>1. At(p, "parse") /\ UNCHANGED << files, index, rebuilt, alone, fresh >>
  BY DEF Parse, History
<1>2. FilesInv /\ RecordsInv /\ JobsInv
  BY DEF IInv
<1>3. AtStep(jobs[p], Head(jobs[p].todo), valid)
      /\ Head(jobs[p].todo)[1] = "parse" /\ Head(jobs[p].todo)[2] = Arg(p)
  BY <1>1, <1>2, Acting
<1>4. PICK j, h, kind, text : /\ j = jobs[p] /\ h = Head(j.todo) /\ kind = Arg(p)
                              /\ text = files[Ledger(kind)]
  OBVIOUS
<1>5. kind \in Kinds /\ h = << "parse", kind >> /\ j \in Job /\ j.todo # << >>
  BY <1>3, <1>4, StepShape DEF AtStep
<1>6. text \in Seq(Sections(kind)) \cup {NoFile, Blank}
  BY <1>2, <1>4, <1>5 DEF FilesInv
<1> DEFINE list == Entries(kind, text)
           new == [m \in DOMAIN list |-> << "insert", kind, list[m] >>]
<1>7. list \in Seq(AllRows[kind])
  BY <1>5, <1>6, EntriesTyped
<1>8. new \in Seq(Inserts(AllRows))
  BY <1>5, <1>7, EntryInserts
<1>9. \A k \in Kinds : \A r : Has(new, {<< "insert", k, r >>}) <=> k = kind /\ r \in Range(list)
  BY <1>5, <1>7, InsertsHas
<1>10. PICK e \in BOOLEAN : e = (j.errors \/ HasErrors(kind, text))
  OBVIOUS
<1>11. jobs' = [jobs EXCEPT ![p] = Then([j EXCEPT !.parsed = @ \o new, !.errors = e], << >>)]
  BY <1>4, <1>10, Zenon DEF Parse, Becomes
<1>12. Rows[kind] = Range(list) /\ (kind \in Bad <=> HasErrors(kind, text))
  BY <1>4, <1>5 DEF Rows, Bad
<1> HIDE DEF new, list
<1>13. PICK P \in Seq(Inserts(AllRows)) : P = j.parsed \o new
  <2>1. \A S : \A a, b \in Seq(S) : a \o b \in Seq(S)
    BY ConcatProperties
  <2>2. j.parsed \in Seq(Inserts(AllRows))
    BY <1>5 DEF Job
  <2>3. j.parsed \o new \in Seq(Inserts(AllRows))
    BY <1>8, <2>1, <2>2, Zenon
  <2> QED
    BY <2>3
<1>14. PICK k : k = [j EXCEPT !.parsed = P, !.errors = e]
  OBVIOUS
<1>15. k \in Job /\ k.parsed = P /\ k.errors = e /\ k.todo = j.todo /\ k.name = j.name
  BY <1>5, <1>14 DEF Job
<1>16. PICK i : i = Then(k, << >>)
  OBVIOUS
<1>17. << >> \in Seq(AnyStep) /\ \A B : ~ Has(<< >>, B)
  BY NothingFirst
<1>18. i.todo = << >> \o Tail(j.todo) /\ i.parsed = P /\ i.errors = e /\ i.name = j.name
  <2>1. k.todo # << >>
    BY <1>5, <1>15
  <2>2. /\ i.todo = << >> \o Tail(k.todo) /\ i.parsed = k.parsed
        /\ i.errors = k.errors /\ i.name = k.name
    BY <1>15, <1>16, <1>17, <2>1, ThenJob
  <2> QED
    BY <1>15, <2>2
<1>19. jobs' = [jobs EXCEPT ![p] = i]
  BY <1>11, <1>13, <1>14, <1>16
<1>20. MovesOne(j, i, << >>) /\ Shape(j) /\ Shape(i) /\ j.todo[1] = h
  BY <1>1, <1>2, <1>4, <1>17, <1>18, OneDone
<1>21. Rows' = Rows /\ Bad' = Bad
  BY <1>1, SameRows
<1>22. Moved(p, i)
  BY <1>1, <1>4, <1>5, <1>18, <1>19, <1>20, <1>21 DEF Moved
<1>23. ReadMore(j, i, kind, Rows[kind])
  <2>1. ASSUME NEW q \in Kinds, NEW r
        PROVE  Read(i, q, r) <=> Read(j, q, r) \/ (q = kind /\ r \in Range(list))
    <3>1. PICK B : B = {<< "insert", q, r >>}
      OBVIOUS
    <3>2. j.parsed \in Seq(Inserts(AllRows))
      BY <1>5 DEF Job
    <3>3. Has(P, B) <=> Has(j.parsed, B) \/ Has(new, B)
      BY <1>8, <1>13, <3>2, ConcatHas
    <3> QED
      BY <1>9, <1>18, <3>1, <3>3 DEF Read
  <2>2. PICK S : S = Range(list) /\ S = Rows[kind]
    BY <1>12
  <2> QED
    BY <2>1, <2>2 DEF ReadMore
<1>24. ASSUME p \in alone PROVE Solo(i, Rows', Bad', index', rebuilt')
  <2>1. PICK rows, bad, ix, rb : rows = Rows /\ bad = Bad /\ ix = index /\ rb = rebuilt
    OBVIOUS
  <2>2. Solo(j, rows, bad, ix, rb)
    BY <1>4, <1>24, <2>1 DEF LInv, Solos
  <2>3. i.errors <=> j.errors \/ kind \in bad
    BY <1>10, <1>12, <1>18, <2>1
  <2>4. j.todo[1] = << "parse", kind >> /\ ReadMore(j, i, kind, rows[kind])
    BY <1>5, <1>20, <1>23, <2>1
  <2>5. Solo(i, rows, bad, ix, rb)
    BY <1>5, <1>18, <1>20, <2>2, <2>3, <2>4, SoloParses
  <2> QED
    BY <1>1, <1>21, <2>1, <2>5
<1> QED
  BY <1>2, <1>22, <1>24, MovedKeeps

(* What was read is to be indexed.                                              *)
LEMMA SoloVIndexes ==
    ASSUME NEW j, NEW i, NEW K, MovesOne(j, i, K), j.todo[1] = << "index ledgers" >>,
           ~ Has(K, Makes), ~ Has(j.todo, Makes), i.parsed = << >>, K = j.parsed,
           NEW rows, NEW bad, NEW ix, SoloV(j, rows, bad, ix)
    PROVE  SoloV(i, rows, bad, ix)
<1>1. j.todo[1][1] = "index ledgers"
  <2>1. \A op : << op >>[1] = op
    OBVIOUS
  <2> QED
    BY <2>1
<1>2. \A B : /\ Has(i.todo, B) => Has(K, B) \/ Has(j.todo, B)
             /\ Has(K, B) => Has(i.todo, B)
             /\ Has(j.todo, B) /\ j.todo[1] \notin B => Has(i.todo, B)
  BY OneHas
<1>3. ~ Has(i.todo, Makes)
  BY <1>2
<1>4. \A k \in Kinds : \A r : Pending(i, k, r) <=> Pending(j, k, r)
  <2> SUFFICES ASSUME NEW k \in Kinds, NEW r PROVE Pending(i, k, r) <=> Pending(j, k, r)
    OBVIOUS
  <2>1. PICK B : B = {<< "insert", k, r >>}
    OBVIOUS
  <2>2. j.todo[1] \notin B
    <3>1. << "insert", k, r >>[1] = "insert"
      OBVIOUS
    <3> QED
      BY <1>1, <2>1, <3>1
  <2>3. ~ Has(i.parsed, B)
    BY NothingFirst
  <2> QED
    BY <1>2, <2>1, <2>2, <2>3 DEF Pending, Read
<1>5. \A k \in Kinds : Has(j.todo, Parses(k)) => Has(i.todo, Parses(k))
  BY <1>1, <1>2, LedgerSorts
<1> QED
  BY <1>3, <1>4, <1>5 DEF SoloV

(* So does to go on from the ledgers read to their inserts.                     *)
LEMMA SoloIndexLedgers ==
    ASSUME LInv, IInv, NEW p \in Procs, IndexLedgers(p)
    PROVE  LInv'
<1>1. At(p, "index ledgers") /\ UNCHANGED << files, index, rebuilt, alone, fresh >>
      /\ jobs[p].todo # << >>
  BY DEF IndexLedgers, History, At, Working
<1>2. RecordsInv /\ JobsInv
  BY DEF IInv
<1>3. PICK j, h : j = jobs[p] /\ h = Head(j.todo)
  OBVIOUS
<1>4. j \in Job /\ h = << "index ledgers" >> /\ h[1] = "index ledgers"
  <2>1. j \in Job /\ h \in AnyStep /\ h[1] = "index ledgers" /\ h[1] \in PlainOps
    BY <1>1, <1>2, <1>3, Acting DEF AtStep, PlainOps
  <2>2. h = << h[1] >>
    BY <2>1, StepShape DEF AnyStep
  <2> QED
    BY <2>1, <2>2
<1>5. /\ j.todo \in Seq(AnyStep) /\ 2 \in 1 .. Len(j.todo)
      /\ 1 \in 1 .. Len(j.todo) /\ j.todo[1] = h
  BY <1>1, <1>2, <1>3, FirstDone
<1>6. Shape(j)
  BY <1>3 DEF LInv, Shapes
<1>7. h \in IndexStep /\ h \in Indexing
  BY <1>4 DEF IndexStep, Indexing
<1>8. j.name = "validate"
  BY <1>5, <1>6, <1>7 DEF Shape, Has
<1>9. ~ Has(j.todo, Makes) /\ ~ Has(From(j.todo, 2), Makes)
  BY <1>5, <1>6, <1>7, <1>8, NoneMade
<1>10. PICK K, k, i : /\ K = IF j.errors THEN << >> ELSE j.parsed
                      /\ k = [j EXCEPT !.parsed = << >>] /\ i = Then(k, K)
  OBVIOUS
<1>11. K \in Seq(Inserts(AllRows)) /\ << >> \in Seq(Inserts(AllRows))
  <2>1. << >> \in Seq(Inserts(AllRows)) /\ j.parsed \in Seq(Inserts(AllRows))
    BY <1>4, NothingFirst DEF Job
  <2> QED
    BY <1>10, <2>1
<1>12. /\ K \in Seq(AnyStep) /\ ~ Has(K, Parsing) /\ ~ Has(K, Rebuilds \cup RestoreStep)
       /\ ~ Has(K, Makes)
  <2>1. Inserts(AllRows) \subseteq AnyStep
    BY DEF AnyStep, Steps
  <2>2. \A S, T : S \subseteq T => Seq(S) \subseteq Seq(T)
    OBVIOUS
  <2>3. K \in Seq(AnyStep)
    BY <1>11, <2>1, <2>2, Zenon
  <2>4. ASSUME NEW s \in Inserts(AllRows)
        PROVE  s \notin Parsing /\ s \notin Rebuilds \cup RestoreStep /\ s \notin Makes
    <3>1. s[1] = "insert"
      BY DEF Inserts
    <3> QED
      BY <3>1, LedgerSorts DEF FileOps, RestoreOps
  <2>5. \A m \in 1 .. Len(K) : K[m] \in Inserts(AllRows)
    BY <1>11
  <2> QED
    BY <2>3, <2>4, <2>5 DEF Has
<1>13. k \in Job /\ k.todo = j.todo /\ k.parsed = << >> /\ k.errors = j.errors /\ k.name = j.name
  BY <1>4, <1>10, <1>11 DEF Job
<1>14. i.todo = K \o Tail(j.todo) /\ i.parsed = << >> /\ i.errors = j.errors /\ i.name = j.name
  <2>1. k.todo # << >> /\ i = Then(k, K)
    BY <1>1, <1>3, <1>10, <1>13
  <2>2. i.todo = K \o Tail(k.todo) /\ i.parsed = k.parsed /\ i.errors = k.errors
        /\ i.name = k.name
    BY <1>12, <1>13, <2>1, ThenJob
  <2> QED
    BY <1>13, <2>2
<1>15. MovesOne(j, i, K) /\ Shape(i)
  BY <1>1, <1>2, <1>3, <1>8, <1>9, <1>12, <1>14, OneDone
<1>16. jobs' = [jobs EXCEPT ![p] = i]
  BY <1>3, <1>10, Zenon DEF IndexLedgers, Becomes
<1>17. Rows' = Rows /\ Bad' = Bad
  BY <1>1, SameRows
<1>18. Moved(p, i)
  BY <1>1, <1>3, <1>14, <1>15, <1>16, <1>17 DEF Moved
<1>19. ASSUME p \in alone PROVE Solo(i, Rows', Bad', index', rebuilt')
  <2>1. PICK rows, bad, ix, rb : rows = Rows /\ bad = Bad /\ ix = index /\ rb = rebuilt
    OBVIOUS
  <2>2. Solo(j, rows, bad, ix, rb)
    BY <1>3, <1>19, <2>1 DEF LInv, Solos
  <2>3. ~ j.errors => SoloV(i, rows, bad, ix)
    <3> SUFFICES ASSUME ~ j.errors PROVE SoloV(i, rows, bad, ix)
      OBVIOUS
    <3>1. SoloV(j, rows, bad, ix) /\ K = j.parsed
      BY <1>8, <1>10, <2>2 DEF Solo
    <3>2. j.todo[1] = << "index ledgers" >>
      BY <1>4, <1>5
    <3> QED
      BY <1>9, <1>12, <1>14, <1>15, <3>1, <3>2, SoloVIndexes
  <2>4. Solo(i, rows, bad, ix, rb)
    BY <1>8, <1>14, <2>3 DEF Solo
  <2> QED
    BY <1>1, <1>17, <2>1, <2>4
<1> QED
  BY <1>2, <1>18, <1>19, MovedKeeps

(* Of the steps that insert a row of one name the last comes to its end; all    *)
(* of them insert the same, here.                                               *)
LEMMA RowStays ==
    ASSUME NEW tables, DOMAIN tables = Tables \cup {"events"}, NEW S, NEW steps \in Seq(S),
           NEW k \in Kinds, NEW r, NEW m \in DOMAIN steps, steps[m][2] = k, steps[m][3] = r,
           \A n \in DOMAIN steps : steps[n][2] = k /\ steps[n][3].ref = r.ref => steps[n][3] = r
    PROVE  r \in insert_rows(tables, steps)[k]
<1> DEFINE Of(table) == { n \in DOMAIN steps : steps[n][2] = table }
           ref(n) == steps[n][3].ref
           Holds(table) == { row \in tables[table] : \A n \in Of(table) : ref(n) # row.ref }
           Lasts(table) == { n \in Of(table) : \A q \in Of(table) : ref(q) = ref(n) => q <= n }
           new == insert_rows(tables, steps)
           N == Len(steps)
           T == { N - n : n \in { q \in Of(k) : ref(q) = r.ref } }
<1>1. new = [table \in DOMAIN tables |->
                IF Of(table) = {} THEN tables[table]
                ELSE Holds(table) \cup { steps[n][3] : n \in Lasts(table) }]
  BY Zenon DEF insert_rows
<1>2. DOMAIN steps = 1 .. N /\ N \in Nat
  OBVIOUS
<1>3. m \in Of(k) /\ ref(m) = r.ref
  OBVIOUS
<1>4. k \in DOMAIN tables
  BY TableNames
<1> HIDE DEF new
<1>5. new[k] = Holds(k) \cup { steps[n][3] : n \in Lasts(k) }
  BY <1>1, <1>3, <1>4
<1>6. T \in SUBSET Nat /\ T # {}
  BY <1>2, <1>3
<1>7. PICK d \in T : \A e \in T : d <= e
  <2> HIDE DEF T
  <2> QED
    BY <1>6, NatMin
<1>8. PICK n \in Of(k) : ref(n) = r.ref /\ d = N - n
  OBVIOUS
<1>9. \A q \in Of(k) : ref(q) = ref(n) => q <= n
  <2> SUFFICES ASSUME NEW q \in Of(k), ref(q) = ref(n) PROVE q <= n
    OBVIOUS
  <2>1. N - q \in T
    BY <1>8
  <2>2. N - n <= N - q
    BY <1>7, <1>8, <2>1
  <2>3. q \in 1 .. N /\ n \in 1 .. N
    BY <1>2
  <2> HIDE DEF N, Of, ref
  <2> QED
    BY <1>2, <2>2, <2>3
<1>10. n \in Lasts(k) /\ steps[n][3] = r
  BY <1>8, <1>9
<1> HIDE DEF Kept, Lasts
<1>11. r \in new[k]
  BY <1>5, <1>10
<1> QED
  BY <1>11 DEF new

(* What is read is inserted.                                                    *)
LEMMA ReadSteps ==
    ASSUME NEW P \in Seq(Inserts(AllRows))
    PROVE  /\ DOMAIN P = 1 .. Len(P)
           /\ \A n \in DOMAIN P : P[n] = << "insert", P[n][2], P[n][3] >>
<1>1. DOMAIN P = 1 .. Len(P) /\ \A n \in DOMAIN P : P[n] \in Inserts(AllRows)
  OBVIOUS
<1>2. \A s \in Inserts(AllRows) : s = << "insert", s[2], s[3] >>
  BY DEF Inserts
<1> QED
  BY <1>1, <1>2

(* A rebuild restores the rows it has read.                                     *)
LEMMA SoloRRestores ==
    ASSUME NEW j, NEW i, MovesOne(j, i, << >>), j.todo[1] = << "restore ledgers" >>, Shape(i),
           i.name = "rebuild", i.parsed = j.parsed, j.parsed \in Seq(Inserts(AllRows)),
           NEW rows, NEW bad, Named(rows, bad), NEW rb, SoloR(j, rows, bad, rb), NEW new,
           \/ j.parsed = << >> /\ new = rb
           \/ DOMAIN rb = Tables \cup {"events"} /\ new = insert_rows(rb, j.parsed)
    PROVE  SoloR(i, rows, bad, new)
<1>1. j.todo[1][1] = "restore ledgers"
  <2>1. \A op : << op >>[1] = op
    OBVIOUS
  <2> QED
    BY <2>1
<1>2. \A B : Has(j.todo, B) /\ j.todo[1] \notin B => Has(i.todo, B)
  BY OneHas
<1>3. \A k \in Kinds : Has(j.todo, Parses(k)) => Has(i.todo, Parses(k))
  BY <1>1, <1>2, LedgerSorts
<1>4. \A k \in Kinds : \A r : Read(i, k, r) <=> Read(j, k, r)
  BY DEF Read
<1>5. /\ \A k \in Kinds : \A r : Read(i, k, r) => r \in rows[k]
      /\ \A k \in Kinds : \/ Has(i.todo, Parses(k))
                          \/ k \notin bad /\ \A r \in rows[k] : Read(i, k, r)
  BY <1>3, <1>4 DEF SoloR
<1>6. ASSUME ~ Has(i.todo, RestoreStep), NEW k \in Kinds, NEW r \in rows[k] PROVE r \in new[k]
  <2>1. ~ Has(i.todo, Parses(k))
    <3>1. Follows(i.todo, Early, RestoreStep)
      BY DEF Shape, ShapeR
    <3>2. Parses(k) \subseteq Early
      BY ParseStep DEF Early
    <3> QED
      BY <1>6, <3>1, <3>2 DEF Follows, Has
  <2>2. k \notin bad /\ Read(j, k, r)
    BY <1>4, <1>5, <2>1
  <2>3. PICK m \in 1 .. Len(j.parsed) : j.parsed[m] = << "insert", k, r >>
    BY <2>2 DEF Read, Has
  <2>4. /\ DOMAIN j.parsed = 1 .. Len(j.parsed)
        /\ \A n \in DOMAIN j.parsed :
             j.parsed[n] = << "insert", j.parsed[n][2], j.parsed[n][3] >>
    BY ReadSteps
  <2>5. j.parsed # << >>
    BY <2>2, NothingFirst DEF Read
  <2>6. j.parsed[m][2] = k /\ j.parsed[m][3] = r
    <3>1. << "insert", k, r >>[2] = k /\ << "insert", k, r >>[3] = r
      OBVIOUS
    <3> QED
      BY <2>3, <3>1
  <2>7. ASSUME NEW n \in DOMAIN j.parsed, j.parsed[n][2] = k, j.parsed[n][3].ref = r.ref
        PROVE  j.parsed[n][3] = r
    <3>1. PICK s : s = j.parsed[n]
      OBVIOUS
    <3>2. s = << "insert", s[2], s[3] >>
      BY <2>4, <3>1
    <3>3. s = << "insert", k, s[3] >>
      BY <2>7, <3>1, <3>2
    <3>4. Read(j, k, s[3])
      BY <2>4, <3>1, <3>3 DEF Read, Has
    <3>5. s[3] \in rows[k]
      BY <3>4 DEF SoloR
    <3> QED
      BY <2>2, <2>7, <3>1, <3>5 DEF Named
  <2>8. m \in DOMAIN j.parsed
    BY <2>4
  <2>9. DOMAIN rb = Tables \cup {"events"} /\ new = insert_rows(rb, j.parsed)
    BY <2>5
  <2> QED
    BY <2>6, <2>7, <2>8, <2>9, RowStays
<1> QED
  BY <1>5, <1>6 DEF SoloR

(* So does to restore the rows read, unless one of the ledgers had errors.      *)
LEMMA SoloRestoreLedgerRows ==
    ASSUME LInv, IInv, NEW p \in Procs, RestoreLedgerRows(p)
    PROVE  LInv'
<1>1. At(p, "restore ledgers") /\ UNCHANGED << files, index, alone, fresh >>
      /\ Working(p) /\ jobs[p].todo # << >>
  BY DEF RestoreLedgerRows, Restoring, History, At, Working
<1>2. RecordsInv /\ JobsInv /\ FilesInv /\ RebuiltInv
  BY DEF IInv
<1>3. PICK j, h : j = jobs[p] /\ h = Head(j.todo)
  OBVIOUS
<1>4. j \in Job /\ h = << "restore ledgers" >> /\ h[1] = "restore ledgers"
  <2>1. j \in Job /\ h \in AnyStep /\ h[1] = "restore ledgers" /\ h[1] \in PlainOps
    BY <1>1, <1>2, <1>3, Acting DEF AtStep, PlainOps
  <2>2. h = << h[1] >>
    BY <2>1, StepShape DEF AnyStep
  <2> QED
    BY <2>1, <2>2
<1>5. /\ 1 \in 1 .. Len(j.todo) /\ j.todo[1] = h
  BY <1>1, <1>2, <1>3, FirstDone
<1>6. Shape(j)
  BY <1>3 DEF LInv, Shapes
<1>7. h \in RestoreStep
  BY <1>4 DEF RestoreStep
<1>8. j.name = "rebuild"
  BY <1>5, <1>6, <1>7 DEF Shape, Has
<1>9. CASE Raise(p) /\ rebuilt' = rebuilt
  BY <1>1, <1>2, <1>3, <1>8, <1>9, EndsKeeps
<1>10. ASSUME Done(p),
              \/ (j.errors \/ j.parsed = << >>) /\ rebuilt' = rebuilt
              \/ rebuilt # NoTables /\ rebuilt' = insert_rows(rebuilt, j.parsed)
       PROVE  LInv'
  <2>1. PICK i : i = Then(j, << >>)
    OBVIOUS
  <2>2. << >> \in Seq(AnyStep) /\ \A B : ~ Has(<< >>, B)
    BY NothingFirst
  <2>3. /\ i.todo = << >> \o Tail(j.todo) /\ i.name = j.name /\ i.parsed = j.parsed
        /\ i.errors = j.errors
    BY <1>1, <1>3, <1>4, <2>1, <2>2, ThenJob
  <2>4. MovesOne(j, i, << >>) /\ Shape(i)
    BY <1>1, <1>2, <1>3, <2>2, <2>3, OneDone
  <2>5. jobs' = [jobs EXCEPT ![p] = i]
    BY <1>3, <1>10, <2>1 DEF Done, Becomes
  <2>6. Rows' = Rows /\ Bad' = Bad
    BY <1>1, SameRows
  <2>7. Moved(p, i)
    BY <1>1, <1>3, <1>8, <2>3, <2>4, <2>5, <2>6 DEF Moved
  <2>8. ASSUME p \in alone PROVE Solo(i, Rows', Bad', index', rebuilt')
    <3>1. PICK rows, bad, ix, rb, new :
            rows = Rows /\ bad = Bad /\ ix = index /\ rb = rebuilt /\ new = rebuilt'
      OBVIOUS
    <3>2. Solo(j, rows, bad, ix, rb)
      BY <1>3, <2>8, <3>1 DEF LInv, Solos
    <3>3. Named(rows, bad)
      BY <1>2, <3>1, LedgersNamed
    <3>4. ASSUME ~ j.errors PROVE SoloR(i, rows, bad, new)
      <4>1. SoloR(j, rows, bad, rb)
        BY <1>8, <3>2, <3>4 DEF Solo
      <4>2. \/ j.parsed = << >> /\ new = rb
            \/ DOMAIN rb = Tables \cup {"events"} /\ new = insert_rows(rb, j.parsed)
        <5>1. rb = NoTables \/ DOMAIN rb = Tables \cup {"events"}
          BY <1>2, <3>1 DEF RebuiltInv, TablesOf
        <5>2. \/ j.parsed = << >> /\ new = rb
              \/ rb # NoTables /\ new = insert_rows(rb, j.parsed)
          BY <1>10, <3>1, <3>4
        <5> QED
          BY <5>1, <5>2
      <4>3. j.parsed \in Seq(Inserts(AllRows)) /\ j.todo[1] = << "restore ledgers" >>
        BY <1>4, <1>5 DEF Job
      <4> QED
        BY <1>8, <2>3, <2>4, <3>3, <4>1, <4>2, <4>3, SoloRRestores
    <3>5. Solo(i, rows, bad, ix, new)
      BY <1>8, <2>3, <3>2, <3>4 DEF Solo
    <3> QED
      BY <1>1, <2>6, <3>1, <3>5
  <2> QED
    BY <1>2, <2>7, <2>8, MovedKeeps
<1>11. \/ Raise(p) /\ rebuilt' = rebuilt
       \/ /\ Done(p)
          /\ \/ (j.errors \/ j.parsed = << >>) /\ rebuilt' = rebuilt
             \/ rebuilt # NoTables /\ rebuilt' = insert_rows(rebuilt, j.parsed)
  BY <1>3 DEF RestoreLedgerRows, Lost, Nothing, Restore, Done
<1> QED
  BY <1>9, <1>10, <1>11

(* A process that is killed has nothing left to do, and is not relied on.       *)
LEMMA SoloCrash == LInv /\ IInv => \A p \in Procs : Crash(p) => LInv'
BY EndsKeeps DEF Crash, IInv

(* Whoever changes a ledger, nothing is relied on since.                        *)
LEMMA SoloSaved ==
    ASSUME LInv, NEW kind, NEW text, Saved(kind, text)
    PROVE  LInv'
<1>1. jobs' = jobs /\ alone' = {} /\ fresh' = {}
  BY DEF Saved
<1> QED
  BY <1>1 DEF LInv, Shapes, Lonely, Solos, Freshes

(* So when a ledger is edited or a proposal approved.                           *)
LEMMA SoloUser == LInv => \A kind \in Kinds : Edit(kind) \/ Approve(kind) => LInv'
BY SoloSaved DEF Edit, Approve

(* What a command has done when it returns.                                     *)
LEMMA Returned ==
    ASSUME NEW j, \A B : Has(j.todo, B) => Return1 \in B,
           NEW rows, NEW bad \in SUBSET Kinds, NEW ix, NEW rb, Solo(j, rows, bad, ix, rb)
    PROVE  /\ j.name = "validate" /\ ~ j.errors => FreshV(rows, bad, ix)
           /\ j.name = "rebuild" => FreshR(rows, bad, rb)
<1>1. Return1[1] = "return" /\ \A k, r : << "insert", k, r >>[1] = "insert"
  BY DEF Return1
<1>2. /\ \A k \in Kinds : ~ Has(j.todo, Parses(k))
      /\ ~ Has(j.todo, IndexStep) /\ ~ Has(j.todo, RestoreStep)
  BY <1>1, LedgerSorts
<1>3. ASSUME NEW k, NEW r PROVE ~ Has(j.todo, {<< "insert", k, r >>})
  BY <1>1
<1>4. ASSUME j.name = "validate", ~ j.errors PROVE FreshV(rows, bad, ix)
  <2>1. SoloV(j, rows, bad, ix)
    BY <1>4 DEF Solo
  <2>2. j.parsed = << >>
    BY <1>2, <2>1 DEF SoloV
  <2>3. \A k \in Kinds : \A r : ~ Pending(j, k, r)
    BY <1>3, <2>2, NothingFirst DEF Pending, Read
  <2>4. \A k \in Kinds : k \notin bad /\ \A r \in rows[k] : r \in ix[k]
    BY <1>2, <2>1, <2>3 DEF SoloV
  <2> QED
    BY <2>4 DEF FreshV
<1>5. ASSUME j.name = "rebuild" PROVE FreshR(rows, bad, rb)
  <2>1. CASE j.errors
    BY <1>5, <2>1 DEF Solo, FreshR
  <2>2. CASE ~ j.errors
    <3>1. SoloR(j, rows, bad, rb)
      BY <1>5, <2>2 DEF Solo
    <3> QED
      BY <1>2, <3>1 DEF SoloR, FreshR
  <2> QED
    BY <2>1, <2>2
<1> QED
  BY <1>4, <1>5

(* A validation that returns without errors, or a rebuild that returns, when    *)
(* nothing went on beside it, has done what is said of it.                      *)
LEMMA SoloReturn ==
    ASSUME LInv, IInv, NEW p \in Procs, Return(p)
    PROVE  LInv'
<1>1. /\ At(p, "return") /\ Becomes(p, NoJob) /\ UNCHANGED << files, index, rebuilt, alone >>
      /\ fresh' = IF p \in alone /\ jobs[p].name \in {"validate", "rebuild"}
                     /\ (jobs[p].name = "validate" => ~ jobs[p].errors)
                  THEN fresh \cup {jobs[p].name} ELSE fresh
  BY DEF Return
<1>2. RecordsInv /\ JobsInv
  BY DEF IInv
<1>3. PICK j, h, i : j = jobs[p] /\ h = Head(j.todo) /\ i = NoJob
  OBVIOUS
<1>4. /\ jobs \in [Procs -> Job] /\ alone \subseteq Procs /\ fresh \subseteq {"validate", "rebuild"}
      /\ AtStep(j, h, valid) /\ JobGood(j, World) /\ h[1] = "return"
  BY <1>1, <1>2, <1>3, Acting DEF JobsInv, RecordsInv
<1>5. jobs'[p] = i /\ \A q \in Procs : q # p => jobs'[q] = jobs[q]
  BY <1>1, <1>3, <1>4 DEF Becomes
<1>6. i.todo = << >> /\ i.name = "none"
  BY <1>3 DEF NoJob
<1>7. Shape(i)
  BY <1>6, NothingFirst DEF Shape
<1>8. Shapes'
  BY <1>5, <1>7 DEF LInv, Shapes
<1>9. j.name # "none" /\ j.todo # << >>
  BY <1>3, <1>4 DEF LInv, Shapes, Shape, AtStep
<1>10. \A q \in alone : q = p
  BY <1>3, <1>9 DEF LInv, Lonely
<1>11. Lonely'
  BY <1>1, <1>4, <1>5, <1>10 DEF LInv, Lonely
<1>12. Solos'
  BY <1>1, <1>5, <1>6, <1>10 DEF Solos, Solo
<1>13. \A B : Has(j.todo, B) => Return1 \in B
  <2>1. h = Return1
    <3>1. h \in Steps(valid) /\ h[1] \in PlainOps
      BY <1>4 DEF AtStep, PlainOps
    <3>2. h = << h[1] >>
      BY <3>1, StepShape
    <3> QED
      BY <1>4, <3>2 DEF Return1
  <2>2. Ends(j.todo, Return1) /\ j.todo \in Seq(AnyStep) /\ 1 \in 1 .. Len(j.todo)
        /\ j.todo[1] = h /\ Len(j.todo) \in Nat
    BY <1>4 DEF JobGood, AtStep, Job
  <2>3. Len(j.todo) = 1
    BY <1>9, <2>1, <2>2 DEF Ends
  <2>4. \A m \in 1 .. Len(j.todo) : m = 1
    BY <2>3
  <2> QED
    BY <2>1, <2>2, <2>4 DEF Has
<1>14. PICK rows, bad, ix, rb : rows = Rows /\ bad = Bad /\ ix = index /\ rb = rebuilt
  OBVIOUS
<1>15. Rows' = rows /\ Bad' = bad /\ index' = ix /\ rebuilt' = rb /\ bad \in SUBSET Kinds
  BY <1>1, <1>14, SameRows DEF Bad
<1>16. ASSUME p \in alone
       PROVE  /\ j.name = "validate" /\ ~ j.errors => FreshV(rows, bad, ix)
              /\ j.name = "rebuild" => FreshR(rows, bad, rb)
  <2>1. Solo(j, rows, bad, ix, rb)
    BY <1>3, <1>14, <1>16 DEF LInv, Solos
  <2> QED
    BY <1>13, <1>15, <2>1, Returned
<1>17. \A name \in {"validate", "rebuild"} :
         NoneIs(jobs, name) \/ p \in alone => NoneIs(jobs', name)
  <2>1. \A name \in {"validate", "rebuild"} : NoneIs(jobs, name) => NoneIs(jobs', name)
    BY <1>5, <1>6 DEF NoneIs
  <2>2. p \in alone => \A q \in Procs : q # p => jobs[q].name = "none"
    BY DEF LInv, Lonely
  <2>3. p \in alone => \A q \in Procs : jobs'[q].name = "none"
    BY <1>5, <1>6, <2>2
  <2>4. p \in alone => \A name \in {"validate", "rebuild"} : NoneIs(jobs', name)
    BY <2>3 DEF NoneIs
  <2> QED
    BY <2>1, <2>4
<1>18. ASSUME "validate" \in fresh' PROVE NoneIs(jobs', "validate") /\ FreshV(rows, bad, ix)
  <2>1. CASE "validate" \in fresh
    <3>1. NoneIs(jobs, "validate") /\ FreshV(rows, bad, ix)
      <4>1. NoneIs(jobs, "validate") /\ FreshV(Rows, Bad, index)
        BY <2>1 DEF LInv, Freshes
      <4> QED
        BY <1>14, <4>1
    <3> QED
      BY <1>17, <3>1
  <2>2. CASE "validate" \notin fresh
    <3>1. p \in alone /\ j.name = "validate" /\ ~ j.errors
      BY <1>1, <1>3, <1>18, <2>2
    <3> QED
      BY <1>16, <1>17, <3>1
  <2> QED
    BY <2>1, <2>2
<1>19. ASSUME "rebuild" \in fresh' PROVE NoneIs(jobs', "rebuild") /\ FreshR(rows, bad, rb)
  <2>1. CASE "rebuild" \in fresh
    <3>1. NoneIs(jobs, "rebuild") /\ FreshR(rows, bad, rb)
      <4>1. NoneIs(jobs, "rebuild") /\ FreshR(Rows, Bad, rebuilt)
        BY <2>1 DEF LInv, Freshes
      <4> QED
        BY <1>14, <4>1
    <3> QED
      BY <1>17, <3>1
  <2>2. CASE "rebuild" \notin fresh
    <3>1. p \in alone /\ j.name = "rebuild"
      BY <1>1, <1>3, <1>19, <2>2
    <3> QED
      BY <1>16, <1>17, <3>1
  <2> QED
    BY <2>1, <2>2
<1>20. Freshes'
  BY <1>15, <1>18, <1>19 DEF Freshes, NoneIs, FreshV, FreshR
<1> QED
  BY <1>8, <1>11, <1>12, <1>20 DEF LInv

(* Lists of steps may be taken together in any order.                           *)
LEMMA Associated ==
    ASSUME NEW t \in Seq(AnyStep), NEW u \in Seq(AnyStep), NEW v \in Seq(AnyStep)
    PROVE  (t \o u) \o v = t \o (u \o v)
BY ConcatAssociative

(* The parts of a list may be taken together from either end.                   *)
LEMMA TwoLast ==
    ASSUME NEW F \in Seq(AnyStep), NEW P \in Seq(AnyStep), NEW s \in AnyStep, NEW e \in AnyStep
    PROVE  /\ Append((F \o P) \o << s >>, e) = F \o (P \o (<< s >> \o << e >>))
           /\ Append(F \o (P \o << s >>), e) = F \o (P \o (<< s >> \o << e >>))
<1>1. PICK a, b : a = << s >> /\ b = << e >>
  OBVIOUS
<1>2. a \in Seq(AnyStep) /\ b \in Seq(AnyStep)
  BY <1>1
<1>3. \A X \in Seq(AnyStep) : Append(X, e) = X \o b
  BY <1>1, AppendIsConcat
<1>4. PICK x, y, c : x = F \o P /\ y = P \o a /\ c = a \o b
  OBVIOUS
<1>5. x \in Seq(AnyStep) /\ y \in Seq(AnyStep) /\ c \in Seq(AnyStep)
  BY <1>2, <1>4, ConcatProperties
<1>6. x \o a \in Seq(AnyStep) /\ F \o y \in Seq(AnyStep)
  BY <1>2, <1>5, ConcatProperties
<1>7. \A t, u, v \in Seq(AnyStep) : (t \o u) \o v = t \o (u \o v)
  BY Associated, Zenon
<1>8. (x \o a) \o b = x \o (a \o b)
  <2>1. x \in Seq(AnyStep) /\ a \in Seq(AnyStep) /\ b \in Seq(AnyStep)
    BY <1>2, <1>5
  <2> QED
    BY <1>7, <2>1, Zenon
<1>8a. (P \o a) \o b = P \o (a \o b)
  BY <1>2, <1>7, Zenon
<1>9. (F \o P) \o c = F \o (P \o c) /\ (F \o y) \o b = F \o (y \o b)
  <2>1. F \in Seq(AnyStep) /\ P \in Seq(AnyStep) /\ c \in Seq(AnyStep)
    BY <1>5, Zenon
  <2>2. (F \o P) \o c = F \o (P \o c)
    BY <1>7, <2>1, Zenon
  <2>3. y \in Seq(AnyStep) /\ b \in Seq(AnyStep)
    BY <1>2, <1>5, Zenon
  <2>4. (F \o y) \o b = F \o (y \o b)
    BY <1>7, <2>1, <2>3, Zenon
  <2> QED
    BY <2>2, <2>4, Zenon
<1>10. (x \o a) \o b = F \o (P \o c) /\ (F \o y) \o b = F \o (P \o c)
  BY <1>4, <1>8, <1>8a, <1>9, Zenon
<1> QED
  BY <1>1, <1>3, <1>4, <1>6, <1>10, Zenon

(* A command that reads the ledgers between what it does before and its last    *)
(* steps.                                                                       *)
LEMMA Reads ==
    ASSUME NEW F \in Seq(AnyStep), NEW s \in AnyStep,
           s[1] \notin FileOps \cup {"discover", "parse"},
           NEW P, P = parse_research_ledgers, NEW L, L = F \o (P \o (<< s >> \o << Return1 >>))
    PROVE  /\ L \in Seq(AnyStep) /\ L # << >>
           /\ \A k \in Kinds : Has(L, Parses(k))
           /\ \A B : Has(L, B) => Has(F, B) \/ Has(P, B) \/ s \in B \/ Return1 \in B
           /\ Has(L, {s})
           /\ ~ Has(F, Parsing \cup Indexing) => Never(L, Parsing \cup Indexing, Makes)
           /\ \A k \in Kinds : Follows(L, Makes, Parses(k))
           /\ \A A : s \notin A /\ Return1 \notin A => Follows(L, A, {s})
<1> DEFINE Z == << s >> \o << Return1 >>
           Q == P \o Z
<1>0. L = F \o Q
  OBVIOUS
<1>1. Return1 \in AnyStep /\ Return1[1] = "return"
  BY OpsLists DEF PlainOps, Return1
<1>2. Z \in Seq(AnyStep) /\ \A B : Has(Z, B) <=> s \in B \/ Return1 \in B
  <2>1. \A x \in AnyStep : << x >> \in Seq(AnyStep) /\ Len(<< x >>) = 1 /\ << x >>[1] = x
    OBVIOUS
  <2>2. \A x \in AnyStep : \A B : Has(<< x >>, B) <=> x \in B
    BY <2>1 DEF Has
  <2> QED
    BY <1>1, <2>1, <2>2, ConcatHas, ConcatProperties
<1>3. P \in Seq(WithOps({"parse"})) /\ \A k \in Kinds : Has(P, Parses(k))
  BY ListParts, Zenon
<1>4. P \in Seq(AnyStep)
  BY <1>3, OpsLists
<1> HIDE DEF Z
<1>5. \A B : Has(Z, B) <=> s \in B \/ Return1 \in B
  BY <1>2
<1>6. Q \in Seq(AnyStep) /\ \A B : Has(Q, B) <=> Has(P, B) \/ Has(Z, B)
  BY <1>2, <1>4, ConcatHas, ConcatProperties
<1> HIDE DEF Q
<1>7. L \in Seq(AnyStep) /\ \A B : Has(L, B) <=> Has(F, B) \/ Has(Q, B)
  <2>1. F \o Q \in Seq(AnyStep) /\ \A B : Has(F \o Q, B) <=> Has(F, B) \/ Has(Q, B)
    BY <1>6, ConcatHas, ConcatProperties
  <2> QED
    BY <1>0, <2>1, Zenon
<1>8. /\ \A k \in Kinds : Has(Q, Parses(k)) /\ Has(L, Parses(k))
      /\ \A B : Has(L, B) => Has(F, B) \/ Has(P, B) \/ s \in B \/ Return1 \in B
      /\ Has(L, {s}) /\ Has(Q, {s})
  BY <1>3, <1>5, <1>6, <1>7
<1>9. ~ Has(Q, Makes)
  <2>1. \A x \in Makes : x[1] \in FileOps \cup {"discover"}
    BY LedgerSorts
  <2>2. \A x \in Makes : x[1] \notin {"parse"}
    BY <2>1 DEF FileOps
  <2>3. ~ Has(P, Makes)
    BY <1>3, <2>2, OpsLack
  <2> QED
    BY <1>1, <1>5, <1>6, <2>1, <2>3 DEF FileOps
<1>10. ~ Has(F, Parsing \cup Indexing) => Never(L, Parsing \cup Indexing, Makes)
  <2>1. Never(Q, Parsing \cup Indexing, Makes)
    BY <1>9 DEF Never, Has
  <2> QED
    BY <1>0, <1>6, <2>1, ConcatNever
<1>11. ASSUME NEW k \in Kinds PROVE Follows(L, Makes, Parses(k))
  <2>1. Follows(Q, Makes, Parses(k))
    BY <1>9, LacksOrder
  <2> QED
    BY <1>0, <1>6, <1>8, <2>1, ConcatFollows
<1>12. ASSUME NEW A, s \notin A, Return1 \notin A PROVE Follows(L, A, {s})
  <2>1. Has(Z, {s}) /\ ~ Has(Z, A)
    BY <1>5, <1>12
  <2>2. Follows(Z, A, {s})
    BY <2>1, LacksOrder
  <2>3. Follows(Q, A, {s})
    BY <1>2, <1>4, <2>1, <2>2, ConcatFollows DEF Q
  <2>4. Has(Q, {s})
    BY <1>8
  <2>5. Follows(F \o Q, A, {s})
    BY <1>6, <2>3, <2>4, ConcatFollows
  <2> QED
    BY <1>0, <2>5, Zenon
<1>13. L # << >>
  BY <1>8, NothingFirst
<1> QED
  BY <1>7, <1>8, <1>10, <1>11, <1>12, <1>13

(* A command that only does mild steps.                                         *)
LEMMA MildCommands ==
    ASSUME NEW c \in Commands, c.name \notin {"validate", "rebuild"}
    PROVE  Mild(Append(c.steps, << "return" >>))
<1> DEFINE M == { s \in AnyStep : MildStep(s) }
<1>1. \A O : O \subseteq MildNames => Seq(WithOps(O)) \subseteq Seq(M)
  <2>1. \A S, T : S \subseteq T => Seq(S) \subseteq Seq(T)
    OBVIOUS
  <2>2. \A O : O \subseteq MildNames => WithOps(O) \subseteq M
    BY DEF WithOps, MildStep
  <2> QED
    BY <2>1, <2>2, Zenon
<1>2. \A K, L \in Seq(M) : K \o L \in Seq(M)
  BY ConcatProperties
<1>3. \A s \in M : << s >> \in Seq(M) /\ \A K \in Seq(M) : Append(K, s) \in Seq(M)
  OBVIOUS
<1>4. \A L \in Seq(M) : Mild(L)
  <2> SUFFICES ASSUME NEW L \in Seq(M) PROVE Mild(L)
    OBVIOUS
  <2>1. \A m \in 1 .. Len(L) : L[m] \in AnyStep /\ MildStep(L[m])
    OBVIOUS
  <2>2. \A S, T : S \subseteq T => Seq(S) \subseteq Seq(T)
    OBVIOUS
  <2>3. L \in Seq(AnyStep)
    <3>1. M \subseteq AnyStep
      OBVIOUS
    <3> HIDE DEF M
    <3> QED
      BY <2>2, <3>1, Zenon
  <2> QED
    BY <2>1, <2>3, MildOps
<1>5. << "return" >> \in M
  <2>1. << "return" >> \in AnyStep
    BY OpsLists DEF PlainOps
  <2>2. << "return" >>[1] = "return"
    OBVIOUS
  <2> QED
    BY <2>1, <2>2 DEF MildStep, MildNames
<1> HIDE DEF M
<1>6. discover_or_create \in Seq(M)
  BY <1>1, ListParts DEF MildNames
<1>7. ASSUME NEW path, NEW content, << path, content >> \in Contents
      PROVE  write_text(path, content) \in Seq(M)
  BY <1>1, <1>7, FileParts DEF MildNames, FileOps
<1>8. \A n \in Names : init(n) \in Seq(M)
  BY <1>1, InitOps DEF MildNames, FileOps
<1>9. ASSUME NEW r \in Reviewed PROVE propose_run_ledger_row(r) \in Seq(M)
  <2>1. PICK x : x = run_proposal(Manifest[r], Report[r])
    OBVIOUS
  <2>2. x \in Proposals("runs")
    BY <2>1 DEF Proposals
  <2>3. << Proposal("runs"), x >> \in Contents
    <3>1. << Proposal("runs"), x >> \in {Proposal("runs")} \X Proposals("runs")
      BY <2>2
    <3>2. << Proposal("runs"), x >> \in ProposalContents
      BY <3>1 DEF ProposalContents, Proposable
    <3> QED
      BY <3>2 DEF Contents
  <2> QED
    BY <1>2, <1>6, <1>7, <2>1, <2>3 DEF propose_run_ledger_row
<1>10. ASSUME NEW card \in Cards PROVE propose_claim_update(card) \in Seq(M)
  <2>1. PICK x : x = claim_proposal(card)
    OBVIOUS
  <2>2. x \in Proposals("claims")
    BY <2>1 DEF Proposals
  <2>3. << Proposal("claims"), x >> \in Contents
    <3>1. << Proposal("claims"), x >> \in {Proposal("claims")} \X Proposals("claims")
      BY <2>2
    <3>2. << Proposal("claims"), x >> \in ProposalContents
      BY <3>1 DEF ProposalContents, Proposable
    <3> QED
      BY <3>2 DEF Contents
  <2> QED
    BY <1>2, <1>6, <1>7, <2>1, <2>3 DEF propose_claim_update
<1>11. ASSUME NEW r \in Range(Runs) PROVE explain(r) \in Seq(M)
  <2>1. PICK x, last, a, b : /\ x = Manifest[r].hypothesis
                             /\ last = << "insert", "alternative_explanations", Row(x, r) >>
                             /\ a = write_text(Explained(r), r) /\ b = write_text(Explained(x), r)
    OBVIOUS
  <2>2. r \in Explainable /\ x \in Explainable
    BY <2>1 DEF Explainable, Hypotheses
  <2>3. \A y \in Explainable : << Explained(y), r >> \in Contents
    BY DEF Contents, ExplainedContents
  <2>4. a \in Seq(M) /\ b \in Seq(M)
    BY <1>7, <2>1, <2>2, <2>3
  <2>5. last \in M
    <3>1. last \in ExplainInserts
      BY <2>1 DEF ExplainInserts
    <3>2. last \in AnyStep
      BY <3>1 DEF AnyStep, Steps, OtherSteps
    <3>3. last[1] = "insert" /\ last[2] = "alternative_explanations"
      BY <2>1
    <3> QED
      BY <3>2, <3>3, TableNames DEF M, MildStep
  <2>6. explain(r) = ((discover_or_create \o a) \o b) \o << last >>
    BY <2>1, Zenon DEF explain
  <2>7. << last >> \in Seq(M) /\ discover_or_create \o a \in Seq(M)
    BY <1>2, <1>3, <1>6, <2>4, <2>5
  <2>8. (discover_or_create \o a) \o b \in Seq(M)
    BY <1>2, <2>4, <2>7
  <2> QED
    BY <1>2, <2>6, <2>7, <2>8
<1>12. c.steps \in Seq(M)
  <2>1. PICK V, R : V = [name |-> "validate", steps |-> validate_ledgers]
                    /\ R = [name |-> "rebuild", steps |-> rebuild_index]
    OBVIOUS
  <2>2. V.name = "validate" /\ R.name = "rebuild"
    BY <2>1
  <2>3. \/ \E n \in Names : c = [name |-> "init", steps |-> init(n)]
        \/ c = V
        \/ \E r \in Reviewed : c = [name |-> "propose", steps |-> propose_run_ledger_row(r)]
        \/ \E d \in Cards : c = [name |-> "propose", steps |-> propose_claim_update(d)]
        \/ \E r \in Range(Runs) : c = [name |-> "explain", steps |-> explain(r)]
        \/ c = R
    BY <2>1, Zenon DEF Commands
  <2>4. c # V /\ c # R
    BY <2>2
  <2> QED
    BY <1>8, <1>9, <1>10, <1>11, <2>3, <2>4
<1>13. Append(c.steps, << "return" >>) \in Seq(M)
  BY <1>3, <1>5, <1>12
<1> QED
  BY <1>4, <1>13

(* A validation has its shape, and has all the ledgers to read.                 *)
LEMMA ValidateShape ==
    LET L == Append(validate_ledgers, << "return" >>)
    IN  /\ L # << >> /\ ShapeV(L) /\ ~ Has(L, Rebuilds \cup RestoreStep)
        /\ ~ Has(L, KindInserts) /\ \A k \in Kinds : Has(L, Parses(k))
<1>1. PICK F, P, s, L : /\ F = discover_or_create \o ensure_research_scaffold
                        /\ P = parse_research_ledgers /\ s = << "index ledgers" >>
                        /\ L = Append(validate_ledgers, << "return" >>)
  OBVIOUS
<1>2. F \in Seq(WithOps({"discover", "if missing"}))
  BY <1>1, ListParts, OpsLists
<1>3. P \in Seq(WithOps({"parse"})) /\ P \in Seq(AnyStep) /\ F \in Seq(AnyStep)
  BY <1>1, <1>2, ListParts, OpsLists
<1>4. s \in AnyStep /\ Return1 \in AnyStep /\ s[1] = "index ledgers" /\ Return1[1] = "return"
  <2>1. << "index ledgers" >> \in AnyStep /\ << "return" >> \in AnyStep
    BY OpsLists DEF PlainOps
  <2>2. \A op : << op >>[1] = op
    OBVIOUS
  <2> QED
    BY <1>1, <2>1, <2>2, Zenon DEF Return1
<1>5. L = F \o (P \o (<< s >> \o << Return1 >>))
  <2>1. L = Append((F \o P) \o << s >>, Return1)
    BY <1>1 DEF validate_ledgers, Return1
  <2>2. Append((F \o P) \o << s >>, Return1) = F \o (P \o (<< s >> \o << Return1 >>))
    BY <1>3, <1>4, TwoLast, Zenon
  <2> QED
    BY <2>1, <2>2, Zenon
<1>6. s[1] \notin FileOps \cup {"discover", "parse"}
  BY <1>4 DEF FileOps
<1>7. /\ L # << >> /\ \A k \in Kinds : Has(L, Parses(k))
      /\ \A B : Has(L, B) => Has(F, B) \/ Has(P, B) \/ s \in B \/ Return1 \in B
      /\ ~ Has(F, Parsing \cup Indexing) => Never(L, Parsing \cup Indexing, Makes)
      /\ \A k \in Kinds : Follows(L, Makes, Parses(k))
      /\ \A A : s \notin A /\ Return1 \notin A => Follows(L, A, {s})
  BY <1>1, <1>3, <1>4, <1>5, <1>6, Reads, Zenon
<1>8. ~ Has(F, Parsing \cup Indexing)
  <2>1. \A x \in Parsing \cup Indexing : x[1] \notin {"discover", "if missing"}
    <3> SUFFICES ASSUME NEW x \in Parsing \cup Indexing
                 PROVE  x[1] \notin {"discover", "if missing"}
      OBVIOUS
    <3> QED
      BY LedgerSorts
  <2> QED
    BY <1>2, <2>1, OpsLack
<1>9. ASSUME NEW B, \A x \in B : x[1] \notin {"discover", "if missing", "parse", "index ledgers",
                                              "return"}
      PROVE  ~ Has(L, B)
  <2>1. ~ Has(F, B) /\ ~ Has(P, B)
    BY <1>2, <1>3, <1>9, OpsLack
  <2> QED
    BY <1>4, <1>7, <1>9, <2>1
<1>10. ~ Has(L, Rebuilds \cup RestoreStep)
  <2>1. \A x \in Rebuilds \cup RestoreStep :
          x[1] \notin {"discover", "if missing", "parse", "index ledgers", "return"}
    <3> SUFFICES ASSUME NEW x \in Rebuilds \cup RestoreStep
                 PROVE  x[1] \notin {"discover", "if missing", "parse", "index ledgers", "return"}
      OBVIOUS
    <3> QED
      BY LedgerSorts DEF RestoreOps
  <2> QED
    BY <1>9, <2>1
<1>11. ~ Has(L, KindInserts)
  <2>1. \A x \in KindInserts :
          x[1] \notin {"discover", "if missing", "parse", "index ledgers", "return"}
    <3> SUFFICES ASSUME NEW x \in KindInserts
                 PROVE  x[1] \notin {"discover", "if missing", "parse", "index ledgers", "return"}
      OBVIOUS
    <3> QED
      BY LedgerSorts
  <2> QED
    BY <1>9, <2>1
<1>12. Follows(L, Parsing, IndexStep)
  <2>1. s \notin Parsing /\ Return1 \notin Parsing
    BY <1>4, LedgerSorts
  <2> QED
    BY <1>1, <1>7, <2>1 DEF IndexStep
<1>13. ShapeV(L)
  BY <1>7, <1>8, <1>12 DEF ShapeV
<1> QED
  BY <1>1, <1>7, <1>10, <1>11, <1>13

(* So has a rebuild, which also has them to restore.                            *)
LEMMA RebuildShape ==
    LET L == Append(rebuild_index, << "return" >>)
    IN  /\ L # << >> /\ ShapeR(L) /\ ~ Has(L, Indexing)
        /\ Has(L, RestoreStep) /\ \A k \in Kinds : Has(L, Parses(k))
<1>1. PICK F, P, s, L : /\ F = discover \o RestoreFiles
                        /\ P = parse_research_ledgers /\ s = << "restore ledgers" >>
                        /\ L = Append(rebuild_index, << "return" >>)
  OBVIOUS
<1>2. F \in Seq(WithOps({"discover"} \cup RestoreOps)) /\ ~ Has(F, Makes)
  <2>1. discover \in Seq(WithOps({"discover"} \cup RestoreOps))
        /\ RestoreFiles \in Seq(WithOps({"discover"} \cup RestoreOps))
    BY ListParts, OpsLists
  <2>2. \A x \in Makes : x[1] \notin RestoreOps
    <3> SUFFICES ASSUME NEW x \in Makes PROVE x[1] \notin RestoreOps
      OBVIOUS
    <3> QED
      BY LedgerSorts DEF FileOps, RestoreOps
  <2>3. ~ Has(RestoreFiles, Makes)
    BY <2>2, ListParts, OpsLack
  <2>4. ~ Has(F, Makes)
    <3>1. ~ Has(discover, Makes)
      BY ListParts
    <3>2. PICK S, K, Q : S = WithOps({"discover"} \cup RestoreOps)
                         /\ K = discover /\ Q = RestoreFiles
      OBVIOUS
    <3>3. K \in Seq(S) /\ Q \in Seq(S)
      BY <2>1, <3>2, Zenon
    <3>4. Has(K \o Q, Makes) <=> Has(K, Makes) \/ Has(Q, Makes)
      BY <3>3, ConcatHas
    <3>5. F = K \o Q
      BY <1>1, <3>2, Zenon
    <3> QED
      BY <2>3, <3>1, <3>2, <3>4, <3>5, Zenon
  <2> QED
    BY <1>1, <2>1, <2>4, OpsLists
<1>3. P \in Seq(WithOps({"parse"})) /\ P \in Seq(AnyStep) /\ F \in Seq(AnyStep)
  BY <1>1, <1>2, ListParts, OpsLists
<1>4. s \in AnyStep /\ Return1 \in AnyStep /\ s[1] = "restore ledgers" /\ Return1[1] = "return"
  <2>1. << "restore ledgers" >> \in AnyStep /\ << "return" >> \in AnyStep
    BY OpsLists DEF PlainOps
  <2>2. \A op : << op >>[1] = op
    OBVIOUS
  <2> QED
    BY <1>1, <2>1, <2>2, Zenon DEF Return1
<1>5. L = F \o (P \o (<< s >> \o << Return1 >>))
  <2>1. L = Append(F \o (P \o << s >>), Return1)
    BY <1>1 DEF rebuild_index, RestoreLedgers, Return1
  <2>2. Append(F \o (P \o << s >>), Return1) = F \o (P \o (<< s >> \o << Return1 >>))
    BY <1>3, <1>4, TwoLast, Zenon
  <2> QED
    BY <2>1, <2>2, Zenon
<1>6. s[1] \notin FileOps \cup {"discover", "parse"}
  BY <1>4 DEF FileOps
<1>7. /\ L # << >> /\ \A k \in Kinds : Has(L, Parses(k))
      /\ \A B : Has(L, B) => Has(F, B) \/ Has(P, B) \/ s \in B \/ Return1 \in B
      /\ Has(L, {s})
      /\ \A A : s \notin A /\ Return1 \notin A => Follows(L, A, {s})
  BY <1>1, <1>3, <1>4, <1>5, <1>6, Reads, Zenon
<1>8. ~ Has(L, Makes)
  <2>1. \A x \in Makes : x[1] \notin {"parse", "restore ledgers", "return"}
    <3> SUFFICES ASSUME NEW x \in Makes PROVE x[1] \notin {"parse", "restore ledgers", "return"}
      OBVIOUS
    <3> QED
      BY LedgerSorts DEF FileOps
  <2>2. ~ Has(P, Makes)
    BY <1>3, <2>1, OpsLack
  <2> QED
    BY <1>2, <1>4, <1>7, <2>1, <2>2
<1>9. ~ Has(L, Indexing)
  <2>1. \A x \in Indexing :
          /\ x[1] \notin {"discover"} \cup RestoreOps
          /\ x[1] \notin {"parse", "restore ledgers", "return"}
    <3> SUFFICES ASSUME NEW x \in Indexing
                 PROVE  x[1] \notin {"discover"} \cup RestoreOps
                        /\ x[1] \notin {"parse", "restore ledgers", "return"}
      OBVIOUS
    <3> QED
      BY LedgerSorts DEF RestoreOps
  <2>2. ~ Has(P, Indexing) /\ ~ Has(F, Indexing)
    BY <1>2, <1>3, <2>1, OpsLack
  <2> QED
    BY <1>4, <1>7, <2>1, <2>2
<1>10. Follows(L, Early, RestoreStep)
  <2>1. s \notin Early /\ Return1 \notin Early
    BY <1>4, LedgerSorts DEF RestoreOps
  <2> QED
    BY <1>1, <1>7, <2>1 DEF RestoreStep
<1>11. ShapeR(L) /\ Has(L, RestoreStep)
  BY <1>1, <1>7, <1>8, <1>10 DEF ShapeR, RestoreStep
<1> QED
  BY <1>1, <1>7, <1>9, <1>11

(* The validation and the rebuild by their names.                              *)
LEMMA NamedSteps ==
    ASSUME NEW c \in Commands
    PROVE  /\ c.name = "validate" => c.steps = validate_ledgers
           /\ c.name = "rebuild" => c.steps = rebuild_index
<1>1. PICK V, R : V = [name |-> "validate", steps |-> validate_ledgers]
                  /\ R = [name |-> "rebuild", steps |-> rebuild_index]
  OBVIOUS
<1>2. V.steps = validate_ledgers /\ R.steps = rebuild_index
      /\ V.name = "validate" /\ R.name = "rebuild"
  BY <1>1
<1>3. \/ \E n \in Names : c = [name |-> "init", steps |-> init(n)]
      \/ c = V
      \/ \E r \in Reviewed : c = [name |-> "propose", steps |-> propose_run_ledger_row(r)]
      \/ \E d \in Cards : c = [name |-> "propose", steps |-> propose_claim_update(d)]
      \/ \E r \in Range(Runs) : c = [name |-> "explain", steps |-> explain(r)]
      \/ c = R
  BY <1>1, Zenon DEF Commands
<1>4. c.name \in {"init", "propose", "explain"} \/ c = V \/ c = R
  BY <1>3
<1> QED
  BY <1>2, <1>4

(* What a command has to do when it begins.                                     *)
Starts(i, c) ==
    /\ i.name = c.name /\ i.todo = Append(c.steps, << "return" >>)
    /\ i.parsed = << >> /\ i.errors = FALSE

(* A command has its shape when it begins, and all it has to read.              *)
LEMMA StartsShape ==
    ASSUME NEW c \in Commands, NEW i, Starts(i, c)
    PROVE  /\ Shape(i) /\ i.name # "none" /\ i.todo \in Seq(AnyStep)
           /\ i.name = "validate" => /\ ~ Has(i.todo, KindInserts)
                                     /\ \A k \in Kinds : Has(i.todo, Parses(k))
           /\ i.name = "rebuild" => /\ Has(i.todo, RestoreStep)
                                    /\ \A k \in Kinds : Has(i.todo, Parses(k))
<1>1. i.name # "none" /\ i.name = c.name /\ i.todo = Append(c.steps, << "return" >>)
  BY CommandNames DEF Starts
<1>2. i.todo \in Seq(AnyStep)
  BY <1>1, TodoBegun DEF AnyStep
<1>3. c.name = "validate" => c.steps = validate_ledgers
  BY NamedSteps
<1>4. c.name = "rebuild" => c.steps = rebuild_index
  BY NamedSteps
<1>5. CASE i.name = "validate"
  <2>1. i.todo = Append(validate_ledgers, << "return" >>)
    BY <1>1, <1>3, <1>5
  <2>2. /\ i.todo # << >> /\ ShapeV(i.todo) /\ ~ Has(i.todo, Rebuilds \cup RestoreStep)
        /\ ~ Has(i.todo, KindInserts) /\ \A k \in Kinds : Has(i.todo, Parses(k))
    BY <2>1, ValidateShape, Zenon
  <2> QED
    BY <1>1, <1>2, <1>5, <2>2 DEF Shape
<1>6. CASE i.name = "rebuild"
  <2>1. i.todo = Append(rebuild_index, << "return" >>)
    BY <1>1, <1>4, <1>6
  <2>2. /\ i.todo # << >> /\ ShapeR(i.todo) /\ ~ Has(i.todo, Indexing)
        /\ Has(i.todo, RestoreStep) /\ \A k \in Kinds : Has(i.todo, Parses(k))
    BY <2>1, RebuildShape, Zenon
  <2> QED
    BY <1>1, <1>2, <1>6, <2>2 DEF Shape
<1>7. CASE i.name \notin {"validate", "rebuild"}
  <2>1. Mild(i.todo)
    BY <1>1, <1>7, MildCommands
  <2>2. c.steps \in Seq(OtherSteps)
    BY CommandInOrder
  <2>3. i.todo # << >>
    <3>1. PICK L, e : L = c.steps /\ e = << "return" >>
      OBVIOUS
    <3>2. \A m \in Nat : m + 1 # 0
      OBVIOUS
    <3>3. Len(Append(L, e)) = Len(L) + 1 /\ Len(L) \in Nat /\ Len(<< >>) = 0
      BY <2>2, <3>1
    <3> QED
      BY <1>1, <3>1, <3>2, <3>3
  <2> QED
    BY <1>1, <1>2, <1>7, <2>1, <2>3 DEF Shape, Mild
<1> QED
  BY <1>5, <1>6, <1>7

(* A command begins with all its steps, and has read nothing.                   *)
LEMMA BeganStarts ==
    ASSUME NEW c, NEW beside
    PROVE  Starts(Began(c), c) /\ Starts(BeganRebuild(c, beside), c)
<1>1. PICK i, k, L : /\ i = Began(c) /\ k = BeganRebuild(c, beside)
                     /\ L = Append(c.steps, << "return" >>)
  OBVIOUS
<1>2. i = [name |-> c.name, todo |-> L, project |-> NoFile, parsed |-> << >>,
           errors |-> FALSE, seen |-> {}, created |-> FALSE, late |-> finished,
           overlapped |-> FALSE, events |-> EmptyBag, explained |-> {}]
  <2>1. i = [NoJob EXCEPT !.name = c.name, !.late = finished, !.todo = L]
    BY <1>1, Zenon DEF Began
  <2> QED
    BY <2>1 DEF NoJob
<1>3. PICK e, x, o : k = [i EXCEPT !.overlapped = o, !.events = e, !.explained = x]
  BY <1>1 DEF BeganRebuild
<1>4. i.name = c.name /\ i.todo = L /\ i.parsed = << >> /\ i.errors = FALSE
  BY <1>2
<1>5. k.name = i.name /\ k.todo = i.todo /\ k.parsed = i.parsed /\ k.errors = i.errors
  BY <1>2, <1>3
<1> QED
  BY <1>1, <1>4, <1>5, Zenon DEF Starts

(* Nothing is read yet.                                                         *)
LEMMA StartsSolo ==
    ASSUME NEW c \in Commands, NEW i, Starts(i, c), NEW rows, NEW bad, NEW ix, NEW rb
    PROVE  Solo(i, rows, bad, ix, rb)
<1>1. i.parsed = << >> /\ i.errors = FALSE
  BY DEF Starts
<1>2. /\ i.todo \in Seq(AnyStep)
      /\ i.name = "validate" => /\ ~ Has(i.todo, KindInserts)
                                /\ \A k \in Kinds : Has(i.todo, Parses(k))
      /\ i.name = "rebuild" => /\ Has(i.todo, RestoreStep)
                               /\ \A k \in Kinds : Has(i.todo, Parses(k))
  BY StartsShape
<1>3. \A k, r : ~ Read(i, k, r)
  BY <1>1, NothingFirst DEF Read
<1>4. ASSUME i.name = "validate", NEW k \in Kinds, NEW r PROVE ~ Pending(i, k, r)
  <2>1. PICK L : L = i.todo /\ L \in Seq(AnyStep) /\ ~ Has(L, KindInserts)
    BY <1>2, <1>4
  <2>2. ~ Has(L, {<< "insert", k, r >>})
    BY <2>1, InsertHas
  <2> QED
    BY <1>3, <2>1, <2>2 DEF Pending
<1>5. i.name = "validate" => SoloV(i, rows, bad, ix)
  BY <1>1, <1>2, <1>4 DEF SoloV
<1>6. i.name = "rebuild" => SoloR(i, rows, bad, rb)
  BY <1>2, <1>3 DEF SoloR
<1> QED
  BY <1>1, <1>5, <1>6 DEF Solo

(* A command that begins alone begins as a validation or a rebuild should; one  *)
(* that does not is not relied on, and from now on neither are the others.      *)
LEMMA SoloBegin ==
    ASSUME LInv, IInv, NEW p \in Procs, Begin(p)
    PROVE  LInv'
<1>1. /\ jobs[p].todo = << >> /\ alone' = IF Quiet THEN {p} ELSE {}
      /\ UNCHANGED << files, index, rebuilt >>
      /\ \E c \in Commands, beside \in SUBSET Procs :
           /\ jobs' = [q \in Procs |->
                  CASE q # p -> [jobs[q] EXCEPT !.overlapped = @ \/ q \in beside]
                    [] q = p /\ c.name = "rebuild" -> BeganRebuild(c, beside)
                    [] q = p /\ c.name # "rebuild" -> Began(c)]
           /\ fresh' = fresh \ {c.name}
  BY DEF Begin, Working
<1>2. PICK c \in Commands, beside \in SUBSET Procs :
        /\ jobs' = [q \in Procs |->
               CASE q # p -> [jobs[q] EXCEPT !.overlapped = @ \/ q \in beside]
                 [] q = p /\ c.name = "rebuild" -> BeganRebuild(c, beside)
                 [] q = p /\ c.name # "rebuild" -> Began(c)]
        /\ fresh' = fresh \ {c.name}
  BY <1>1
<1>2a. PICK b, r :
        /\ jobs' = [q \in Procs |->
               CASE q # p -> [jobs[q] EXCEPT !.overlapped = @ \/ q \in beside]
                 [] q = p /\ c.name = "rebuild" -> r
                 [] q = p /\ c.name # "rebuild" -> b]
        /\ b = Began(c) /\ r = BeganRebuild(c, beside)
  <2>1. PICK b, r : b = Began(c) /\ r = BeganRebuild(c, beside)
    OBVIOUS
  <2> QED
    BY <1>2, <2>1, Zenon
<1>3. PICK i : i = jobs'[p]
  OBVIOUS
<1>4. Starts(i, c)
  <2>1. Starts(b, c) /\ Starts(r, c)
    BY <1>2a, BeganStarts
  <2>2. i = b \/ i = r
    BY <1>2a, <1>3
  <2> QED
    BY <2>1, <2>2
<1>5. i.name = c.name
  BY <1>4 DEF Starts
<1>6. ASSUME NEW q \in Procs, q # p
      PROVE  jobs'[q].todo = jobs[q].todo /\ jobs'[q].name = jobs[q].name
  <2>1. jobs'[q] = [jobs[q] EXCEPT !.overlapped = @ \/ q \in beside]
    BY <1>2a, <1>6
  <2>2. jobs[q] \in Job
    BY DEF IInv, JobsInv
  <2>3. PICK j, o : j = jobs[q] /\ jobs'[q] = [j EXCEPT !.overlapped = o]
    BY <2>1
  <2>4. \A l \in Job : \A o2 : [l EXCEPT !.overlapped = o2].todo = l.todo
                               /\ [l EXCEPT !.overlapped = o2].name = l.name
    BY DEF Job
  <2> QED
    BY <2>2, <2>3, <2>4
<1>7. Shapes'
  <2>1. Shape(i)
    BY <1>4, StartsShape
  <2>2. ASSUME NEW q \in Procs, q # p PROVE Shape(jobs'[q])
    <3>1. Shape(jobs[q])
      BY DEF LInv, Shapes
    <3> QED
      BY <1>6, <2>2, <3>1 DEF Shape
  <2> QED
    BY <1>3, <2>1, <2>2 DEF Shapes
<1>8. \A q \in Procs : jobs[q].todo = << >> <=> jobs[q].name = "none"
  BY DEF LInv, Shapes, Shape
<1>9. \A q \in alone' : q = p /\ Quiet
  BY <1>1
<1>10. Lonely'
  <2> SUFFICES ASSUME NEW o \in alone', NEW q \in Procs, q # o PROVE jobs'[q].name = "none"
    BY DEF Lonely
  <2>1. o = p /\ jobs[q].todo = << >>
    BY <1>9 DEF Quiet, Working
  <2> QED
    BY <1>6, <1>8, <2>1
<1>11. Solos'
  <2> SUFFICES ASSUME NEW q \in alone' PROVE Solo(jobs[q], Rows, Bad, index, rebuilt)'
    BY DEF Solos
  <2>1. PICK rows, bad, ix, rb : rows = Rows' /\ bad = Bad' /\ ix = index' /\ rb = rebuilt'
    OBVIOUS
  <2>2. Solo(i, rows, bad, ix, rb)
    BY <1>4, StartsSolo
  <2>3. jobs'[q] = i
    BY <1>3, <1>9
  <2> QED
    BY <2>1, <2>2, <2>3 DEF Solo, SoloV, SoloR
<1>12. ASSUME NEW name \in {"validate", "rebuild"}, name \in fresh', NoneIs(jobs, name)
       PROVE  NoneIs(jobs', name)
  <2>1. name # c.name
    BY <1>2, <1>12
  <2> SUFFICES ASSUME NEW q \in Procs PROVE jobs'[q].name # name
    BY DEF NoneIs
  <2>2. CASE q = p
    BY <1>3, <1>5, <2>1, <2>2
  <2>3. CASE q # p
    BY <1>6, <1>12, <2>3 DEF NoneIs
  <2> QED
    BY <2>2, <2>3
<1>13. Rows' = Rows /\ Bad' = Bad /\ index' = index /\ rebuilt' = rebuilt
  BY <1>1, SameRows
<1>14. fresh' \subseteq fresh
  BY <1>2
<1>15. Freshes'
  <2>1. ASSUME "validate" \in fresh'
        PROVE  NoneIs(jobs', "validate") /\ FreshV(Rows', Bad', index')
    <3>1. NoneIs(jobs, "validate") /\ FreshV(Rows, Bad, index)
      BY <1>14, <2>1 DEF LInv, Freshes
    <3> HIDE DEF Rows, Bad
    <3> QED
      BY <1>12, <1>13, <2>1, <3>1
  <2>2. ASSUME "rebuild" \in fresh'
        PROVE  NoneIs(jobs', "rebuild") /\ FreshR(Rows', Bad', rebuilt')
    <3>1. NoneIs(jobs, "rebuild") /\ FreshR(Rows, Bad, rebuilt)
      BY <1>14, <2>2 DEF LInv, Freshes
    <3> QED
      BY <1>12, <1>13, <2>2, <3>1
  <2> QED
    BY <2>1, <2>2 DEF Freshes, NoneIs, FreshV, FreshR
<1> QED
  BY <1>7, <1>10, <1>11, <1>15 DEF LInv

(* The start.                                                                   *)
LEMMA SoloInit == Init => LInv
<1> SUFFICES ASSUME Init PROVE LInv
  OBVIOUS
<1>1. alone = {} /\ fresh = {} /\ jobs = [p \in Procs |-> NoJob]
  BY DEF Init
<1>2. PICK i : i = NoJob
  OBVIOUS
<1>2a. i.todo = << >> /\ i.name = "none"
  BY <1>2 DEF NoJob
<1>3. Shape(i)
  BY <1>2a, NothingFirst DEF Shape
<1>4. \A p \in Procs : jobs[p] = i
  BY <1>1, <1>2
<1>5. Shapes
  BY <1>3, <1>4 DEF Shapes
<1> QED
  BY <1>1, <1>5 DEF LInv, Lonely, Solos, Freshes

(* Every step of a process.                                                     *)
LEMMA SoloStep ==
    ASSUME LInv, IInv, NEW p \in Procs, Step(p)
    PROVE  LInv'
<1>1. CASE Open(p) \/ Write(p)
  BY <1>1, SoloOpen, SoloWrite
<1>2. CASE InsertProject(p) \/ InsertEvent(p)
  BY <1>2, SoloInserts
<1>3. CASE Unlink(p) \/ InitializeSchema(p)
  BY <1>3, SoloTables
<1>4. CASE IfMissing(p) \/ Discover(p) \/ ReadProject(p) \/ ReadEvents(p) \/ AppendEvent(p)
  BY <1>4, SoloIfMissing, SoloDiscover, SoloReadProject, SoloReadEvents, SoloAppendEvent
<1>5. CASE Parse(p) \/ IndexLedgers(p) \/ Insert(p)
  BY <1>5, SoloParse, SoloIndexLedgers, SoloInsert
<1>6. CASE RestoreEvents(p) \/ RestoreRun(p) \/ RestoreHypothesis(p) \/ RestoreLedgerRows(p)
  BY <1>6, SoloRestoreEvents, SoloRestoreRun, SoloRestoreHypothesis, SoloRestoreLedgerRows
<1> QED
  BY <1>1, <1>2, <1>3, <1>4, <1>5, <1>6 DEF Step

(* Every step.                                                                  *)
LEMMA SoloNext == LInv /\ IInv /\ [Next]_vars => LInv'
<1> SUFFICES ASSUME LInv, IInv, [Next]_vars PROVE LInv'
  OBVIOUS
<1>1. CASE UNCHANGED vars
  BY <1>1 DEF vars, LInv, Shapes, Lonely, Solos, Freshes, Rows, Bad, NoneIs, Shape, Solo,
              SoloV, SoloR, FreshV, FreshR
<1>2. ASSUME NEW p \in Procs, Begin(p) \/ Step(p) \/ Return(p) \/ Crash(p) PROVE LInv'
  BY <1>2, SoloBegin, SoloStep, SoloReturn, SoloCrash
<1>3. ASSUME NEW kind \in Kinds, Edit(kind) \/ Approve(kind) PROVE LInv'
  BY <1>3, SoloUser
<1> QED
  BY <1>1, <1>2, <1>3 DEF Next

(* When nothing went on beside the last validation, which succeeded, and the    *)
(* last rebuild, and no ledger changed since, both indices hold every entry of  *)
(* the ledgers.                                                                 *)
THEOREM Restored == Spec => []LedgersRestored
<1>1. IInv /\ LInv => LedgersRestored
  <2> SUFFICES ASSUME LInv, fresh = {"validate", "rebuild"}, NEW kind \in Kinds
               PROVE  Rows[kind] \subseteq index[kind] \cap rebuilt[kind]
    BY DEF LedgersRestored, Rows
  <2>1. FreshV(Rows, Bad, index) /\ FreshR(Rows, Bad, rebuilt)
    BY DEF LInv, Freshes
  <2> HIDE DEF Rows, Bad
  <2> QED
    BY <2>1 DEF FreshV, FreshR
<1>2. Spec => []IInv /\ [][Next]_vars
  BY Invariant, PTL DEF Spec
<1>3. Spec => []LInv
  <2>1. IInv /\ LInv /\ [Next]_vars => LInv'
    BY SoloNext
  <2> QED
    BY <1>2, <2>1, SoloInit, PTL DEF Spec
<1> QED
  BY <1>1, <1>2, <1>3, PTL
===============================================================================
