---------------------------- MODULE SequenceFacts ----------------------------
(* Facts about sequences, numbers and finite sets that the proofs about a       *)
(* component need: what FlattenSeq and SetToSeq of the community modules        *)
(* return, and, for every set and every sequence, how long and how many.        *)
EXTENDS Integers, SequencesExt, FiniteSetTheorems, SequenceTheorems, WellFoundedInduction, TLAPS

(* A set of numbers that is not empty has a least element.                      *)
LEMMA NatMin ==
    ASSUME NEW T \in SUBSET Nat, T # {}
    PROVE  \E m \in T : \A k \in T : m <= k
<1> DEFINE R == OpToRel(<, Nat)
<1>1. IsWellFoundedOn(R, Nat)
  BY NatLessThanWellFounded
<1>2. \A x, y \in Nat : <<x, y>> \in R <=> x < y
  BY DEF OpToRel
<1> HIDE DEF R
<1>3. PICK x \in T : \A y \in T : ~ (<<y, x>> \in R)
  BY <1>1, WFMin
<1>4. \A y \in T : ~ (y < x)
  BY <1>2, <1>3, Zenon
<1> QED
  BY <1>4

(* Induction over the numbers, stated of a set: it holds all of them if it      *)
(* holds zero and the successor of each it holds.                               *)
LEMMA NatInduct ==
    ASSUME NEW T, 0 \in T, \A n \in Nat : n \in T => n + 1 \in T
    PROVE  \A n \in Nat : n \in T
<1> SUFFICES ASSUME Nat \ T # {} PROVE FALSE
  OBVIOUS
<1>1. PICK m \in Nat \ T : \A k \in Nat \ T : m <= k
  BY NatMin
<1>2. m # 0 /\ m - 1 \in Nat /\ m - 1 \in T
  BY <1>1
<1> QED
  BY <1>1, <1>2

(* FlattenSeq is a recursive function of the prefixes: what it is built from, it *)
(* stays in, if that is closed under concatenation.                             *)
Flattens(seqs, g, k) ==
    g = [i \in 1 .. k |-> IF i = 1 THEN seqs[i] ELSE g[i - 1] \o seqs[i]]
ClosedUnderConcat(G) == \A a, b \in G : a \o b \in G

(* The function of the prefixes, one prefix longer.                             *)
LEMMA FlattenExtend ==
    ASSUME NEW G, ClosedUnderConcat(G), NEW seqs \in Seq(G),
           NEW k \in Nat, k + 1 <= Len(seqs),
           NEW g \in [1 .. k -> G], Flattens(seqs, g, k)
    PROVE  \E h \in [1 .. k + 1 -> G] : Flattens(seqs, h, k + 1)
<1> DEFINE last == IF k = 0 THEN seqs[k + 1] ELSE g[k] \o seqs[k + 1]
           h == [i \in 1 .. k + 1 |-> IF i = k + 1 THEN last ELSE g[i]]
           next == [i \in 1 .. k + 1 |-> IF i = 1 THEN seqs[i] ELSE h[i - 1] \o seqs[i]]
<1>1. last \in G
  BY DEF ClosedUnderConcat
<1>2. h \in [1 .. k + 1 -> G]
  BY <1>1
<1>3. ASSUME NEW i \in 1 .. k + 1 PROVE h[i] = next[i]
  <2>1. next[i] = IF i = 1 THEN seqs[i] ELSE h[i - 1] \o seqs[i]
    OBVIOUS
  <2>2. CASE i = k + 1
    <3>1. i # 1 => h[i - 1] = g[k]
      BY <2>2
    <3>2. h[i] = last
      BY <2>2
    <3> QED
      BY <2>1, <2>2, <3>1, <3>2
  <2>3. CASE i # k + 1
    <3>1. i \in 1 .. k /\ (i # 1 => i - 1 \in 1 .. k) /\ i - 1 # k + 1
      BY <2>3
    <3>2. g[i] = IF i = 1 THEN seqs[i] ELSE g[i - 1] \o seqs[i]
      BY <3>1 DEF Flattens
    <3>3. h[i] = g[i] /\ (i # 1 => h[i - 1] = g[i - 1])
      BY <3>1, <2>3
    <3> QED
      BY <2>1, <3>2, <3>3
  <2> QED
    BY <2>2, <2>3
<1>4. h = next
  <2> HIDE DEF last
  <2>1. h \in [1 .. k + 1 -> G] /\ DOMAIN next = 1 .. k + 1
    BY <1>2
  <2> QED
    BY <1>3
<1>5. Flattens(seqs, h, k + 1)
  BY <1>4 DEF Flattens
<1> QED
  BY <1>2, <1>5

(* Every sequence of sequences has its function of the prefixes.                *)
LEMMA FlattenExists ==
    ASSUME NEW G, ClosedUnderConcat(G), NEW seqs \in Seq(G)
    PROVE  \E g \in [1 .. Len(seqs) -> G] : Flattens(seqs, g, Len(seqs))
<1> DEFINE Good(k) == k <= Len(seqs) => \E g \in [1 .. k -> G] : Flattens(seqs, g, k)
           T == { k \in Nat : Good(k) }
<1>1. Good(0)
  <2> DEFINE none == [i \in 1 .. 0 |-> << >>]
  <2>1. none \in [1 .. 0 -> G]
    OBVIOUS
  <2>2. Flattens(seqs, none, 0)
    BY DEF Flattens
  <2> QED
    BY <2>1, <2>2
<1>2. ASSUME NEW k \in Nat, Good(k) PROVE Good(k + 1)
  <2> SUFFICES ASSUME k + 1 <= Len(seqs)
               PROVE  \E h \in [1 .. k + 1 -> G] : Flattens(seqs, h, k + 1)
    OBVIOUS
  <2>1. PICK g \in [1 .. k -> G] : Flattens(seqs, g, k)
    BY <1>2
  <2> QED
    BY <2>1, FlattenExtend
<1> HIDE DEF Good
<1>3. \A k \in Nat : k \in T
  <2>1. 0 \in T /\ \A k \in Nat : k \in T => k + 1 \in T
    BY <1>1, <1>2
  <2> HIDE DEF T
  <2> QED
    BY <2>1, NatInduct
<1>4. Len(seqs) \in Nat /\ Good(Len(seqs))
  BY <1>3
<1> QED
  BY <1>4 DEF Good

(* What concatenation does not leave, FlattenSeq of its members does not leave. *)
LEMMA FlattenClosed ==
    ASSUME NEW G, ClosedUnderConcat(G), << >> \in G, NEW seqs \in Seq(G)
    PROVE  FlattenSeq(seqs) \in G
<1>1. CASE Len(seqs) = 0
  <2>1. seqs = << >>
    BY <1>1
  <2> QED
    BY <1>1, <2>1 DEF FlattenSeq
<1>2. CASE Len(seqs) # 0
  <2> DEFINE f == CHOOSE g : Flattens(seqs, g, Len(seqs))
             T == { k \in Nat : k + 1 <= Len(seqs) => f[k + 1] \in G }
  <2>1. FlattenSeq(seqs) = f[Len(seqs)]
    BY <1>2 DEF FlattenSeq, Flattens
  <2>2. Flattens(seqs, f, Len(seqs))
    BY FlattenExists
  <2> HIDE DEF f
  <2>3. \A i \in 1 .. Len(seqs) : f[i] = IF i = 1 THEN seqs[i] ELSE f[i - 1] \o seqs[i]
    BY <2>2 DEF Flattens
  <2>4. 0 \in T
    BY <1>2, <2>3
  <2>5. ASSUME NEW k \in Nat, k \in T PROVE k + 1 \in T
    <3> SUFFICES ASSUME (k + 1) + 1 <= Len(seqs) PROVE f[(k + 1) + 1] \in G
      OBVIOUS
    <3>0. (k + 1) + 1 \in 1 .. Len(seqs) /\ (k + 1) + 1 # 1 /\ ((k + 1) + 1) - 1 = k + 1
      OBVIOUS
    <3>1. f[(k + 1) + 1] = f[k + 1] \o seqs[(k + 1) + 1]
      BY <2>3, <3>0
    <3>2. f[k + 1] \in G /\ seqs[(k + 1) + 1] \in G
      BY <2>5
    <3> QED
      BY <3>1, <3>2 DEF ClosedUnderConcat
  <2>6. \A k \in Nat : k \in T
    <3>1. \A k \in Nat : k \in T => k + 1 \in T
      BY <2>5
    <3> HIDE DEF T
    <3> QED
      BY <2>4, <3>1, NatInduct
  <2>7. PICK k \in Nat : Len(seqs) = k + 1
    <3>1. Len(seqs) - 1 \in Nat /\ Len(seqs) = (Len(seqs) - 1) + 1
      BY <1>2
    <3> QED
      BY <3>1
  <2>8. k \in T
    BY <2>6
  <2> QED
    BY <2>1, <2>7, <2>8
<1> QED
  BY <1>1, <1>2

(* The sequence of a finite set has no other elements.                          *)
LEMMA SetToSeqTyped ==
    ASSUME NEW S, IsFiniteSet(S)
    PROVE  SetToSeq(S) \in Seq(S)
<1> DEFINE n == Cardinality(S)
           f == CHOOSE g \in [1 .. n -> S] : IsInjective(g)
<1>1. n \in Nat /\ ExistsBijection(1 .. n, S)
  BY FS_CardinalityType
<1>2. PICK g \in [1 .. n -> S] : IsInjective(g)
  BY <1>1 DEF ExistsBijection, Bijection, Injection, IsInjective
<1>3. f \in [1 .. n -> S] /\ IsInjective(f)
  BY <1>2
<1>4. SetToSeq(S) = f
  BY DEF SetToSeq
<1>5. f \in Seq(S) /\ Len(f) = n
  BY <1>1, <1>3
<1> QED
  BY <1>4, <1>5

(* The sequence of a finite set has each of its elements.                       *)
LEMMA SetToSeqHas ==
    ASSUME NEW S, IsFiniteSet(S)
    PROVE  \A x \in S : \E i \in 1 .. Len(SetToSeq(S)) : SetToSeq(S)[i] = x
<1> DEFINE n == Cardinality(S)
           f == CHOOSE g \in [1 .. n -> S] : IsInjective(g)
<1>1. n \in Nat /\ ExistsBijection(1 .. n, S)
  BY FS_CardinalityType
<1>2. PICK g \in [1 .. n -> S] : IsInjective(g)
  BY <1>1 DEF ExistsBijection, Bijection, Injection, IsInjective
<1>3. f \in [1 .. n -> S] /\ IsInjective(f)
  BY <1>2
<1>4. SetToSeq(S) = f
  BY DEF SetToSeq
<1>5. Len(f) = n /\ DOMAIN f = 1 .. n
  BY <1>1, <1>3
<1> DEFINE T == { f[i] : i \in 1 .. n }
<1>6. T = S
  <2>1. T \in SUBSET S
    BY <1>3
  <2>2. IsFiniteSet(1 .. n) /\ Cardinality(1 .. n) = n
    BY <1>1, FS_Interval
  <2> HIDE DEF f, n
  <2>3. f \in Bijection(1 .. n, T)
    BY <1>3 DEF Bijection, Injection, Surjection, IsInjective, T
  <2>4. Cardinality(T) = n
    BY <2>2, <2>3, FS_Bijection DEF ExistsBijection
  <2> HIDE DEF T
  <2>5. Cardinality(T) = Cardinality(S)
    BY <2>4 DEF n
  <2> QED
    BY <2>1, <2>5, FS_Subset
<1> HIDE DEF f, n
<1> QED
  BY <1>4, <1>5, <1>6

(* Two pairs, one after the other.                                              *)
LEMMA ConcatPairs ==
    ASSUME NEW S, NEW a \in Seq(S), NEW b \in Seq(S), Len(a) = 2, Len(b) = 2
    PROVE  /\ a \o b \in Seq(S) /\ Len(a \o b) = 4
           /\ (a \o b)[1] = a[1] /\ (a \o b)[2] = a[2]
           /\ (a \o b)[3] = b[1] /\ (a \o b)[4] = b[2]
<1> DEFINE c == a \o b
<1>1. /\ c \in Seq(S) /\ Len(c) = Len(a) + Len(b)
      /\ \A i \in 1 .. Len(a) + Len(b) : c[i] = IF i <= Len(a) THEN a[i] ELSE b[i - Len(a)]
  BY ConcatProperties
<1> HIDE DEF c
<1>2. /\ c[1] = a[1] /\ c[2] = a[2]
  BY <1>1
<1>3. c[3] = b[3 - 2] /\ c[4] = b[4 - 2]
  BY <1>1
<1>4. /\ c \in Seq(S) /\ Len(c) = 4
      /\ c[1] = a[1] /\ c[2] = a[2]
      /\ c[3] = b[1] /\ c[4] = b[2]
  BY <1>1, <1>2, <1>3
<1> QED
  BY <1>4 DEF c

(* The sequences over a set are closed under concatenation.                     *)
LEMMA SeqClosed ==
    ASSUME NEW S
    PROVE  ClosedUnderConcat(Seq(S)) /\ << >> \in Seq(S)
<1>1. \A a, b \in Seq(S) : a \o b \in Seq(S)
  BY ConcatProperties
<1> QED
  BY <1>1 DEF ClosedUnderConcat

(* The length and the elements of a concatenation.                              *)
LEMMA ConcatIndex ==
    ASSUME NEW S, NEW a \in Seq(S), NEW b \in Seq(S)
    PROVE  /\ a \o b \in Seq(S) /\ Len(a \o b) = Len(a) + Len(b)
           /\ \A i \in 1 .. Len(a) : (a \o b)[i] = a[i]
           /\ \A i \in 1 .. Len(b) : (a \o b)[Len(a) + i] = b[i]
<1> DEFINE c == a \o b
<1>1. /\ c \in Seq(S) /\ Len(c) = Len(a) + Len(b)
      /\ \A i \in 1 .. Len(a) + Len(b) : c[i] = IF i <= Len(a) THEN a[i] ELSE b[i - Len(a)]
  BY ConcatProperties
<1> HIDE DEF c
<1>2. \A i \in 1 .. Len(a) : c[i] = a[i]
  BY <1>1
<1>3. ASSUME NEW i \in 1 .. Len(b) PROVE c[Len(a) + i] = b[i]
  <2>1. Len(a) + i \in 1 .. Len(a) + Len(b) /\ ~ (Len(a) + i <= Len(a)) /\ (Len(a) + i) - Len(a) = i
    OBVIOUS
  <2> QED
    BY <1>1, <2>1
<1>4. /\ c \in Seq(S) /\ Len(c) = Len(a) + Len(b)
      /\ \A i \in 1 .. Len(a) : c[i] = a[i]
      /\ \A i \in 1 .. Len(b) : c[Len(a) + i] = b[i]
  BY <1>1, <1>2, <1>3
<1> QED
  BY <1>4 DEF c

(* The image of a finite set is finite.                                         *)
LEMMA FiniteRange ==
    ASSUME NEW S, IsFiniteSet(S), NEW T, NEW f \in [S -> T],
           \A t \in T : \E s \in S : f[s] = t
    PROVE  IsFiniteSet(T)
<1>1. f \in Surjection(S, T)
  BY DEF Surjection
<1> QED
  BY <1>1, FS_Surjection

(* As many pairs of one value and a number as there are numbers.                *)
LEMMA NumberedPairs ==
    ASSUME NEW s, NEW n \in Nat
    PROVE  Cardinality({s} \X (1 .. n)) = n
<1>1. IsFiniteSet(1 .. n) /\ Cardinality(1 .. n) = n
  BY FS_Interval
<1>2. IsFiniteSet({s}) /\ Cardinality({s}) = 1
  BY FS_Singleton, Zenon
<1>3. Cardinality({s} \X (1 .. n)) = Cardinality({s}) * Cardinality(1 .. n)
  BY <1>1, <1>2, FS_Product, Zenon
<1> QED
  BY <1>1, <1>2, <1>3

(* A subset of a finite set has no more elements.                               *)
LEMMA SubsetSize ==
    ASSUME NEW All, IsFiniteSet(All), NEW S \in SUBSET All, NEW T \in SUBSET S
    PROVE  /\ Cardinality(T) \in Nat /\ Cardinality(S) \in Nat
           /\ Cardinality(T) <= Cardinality(S)
<1>1. IsFiniteSet(S)
  BY FS_Subset
<1>2. IsFiniteSet(T) /\ Cardinality(T) <= Cardinality(S)
  BY <1>1, FS_Subset
<1> QED
  BY <1>1, <1>2, FS_CardinalityType

(* A subset of a finite set is finite.                                          *)
LEMMA FiniteSubset ==
    ASSUME NEW All, IsFiniteSet(All), NEW S \in SUBSET All
    PROVE  IsFiniteSet(S)
BY FS_Subset

(* Finitely many values, each with finitely many numbers.                       *)
LEMMA FinitePairs ==
    ASSUME NEW S, IsFiniteSet(S), NEW n \in Nat
    PROVE  IsFiniteSet(S \X (1 .. n))
<1>1. IsFiniteSet(1 .. n)
  BY FS_Interval
<1> QED
  BY <1>1, FS_Product, Zenon

(* A set of some of the numbers up to n is counted, and counts if it has one.   *)
LEMMA SomeOfMany ==
    ASSUME NEW n \in Nat, NEW I, I \subseteq 1 .. n, NEW i \in I
    PROVE  Cardinality(I) \in Nat /\ Cardinality(I) # 0
<1>1. IsFiniteSet(1 .. n)
  BY FS_Interval
<1>2. IsFiniteSet(I)
  BY <1>1, FS_Subset
<1>3. Cardinality(I) \in Nat /\ (Cardinality(I) = 0 <=> I = {})
  BY <1>2, FS_CardinalityType, FS_EmptySet
<1> QED
  BY <1>3

(* A sequence without elements is the empty one.                                *)
LEMMA EmptyByLength ==
    ASSUME NEW S, NEW L \in Seq(S)
    PROVE  L = << >> <=> Len(L) = 0
BY EmptySeq

(* How many elements the smallest sets have.                                    *)
LEMMA SingletonSize ==
    /\ Cardinality({}) = 0
    /\ \A x : Cardinality({x}) = 1
BY FS_EmptySet, FS_Singleton, Zenon

(* What an append adds to the range of a sequence.                              *)
LEMMA AppendedRange ==
    ASSUME NEW S
    PROVE  \A L : \A x : L \in Seq(S) /\ x \in S => Range(Append(L, x)) = Range(L) \cup {x}
<1> SUFFICES ASSUME NEW L \in Seq(S), NEW x \in S
             PROVE  Range(Append(L, x)) = Range(L) \cup {x}
  OBVIOUS
<1>1. /\ DOMAIN L = 1 .. Len(L) /\ Len(L) \in Nat
      /\ DOMAIN Append(L, x) = 1 .. Len(L) + 1
      /\ \A i \in 1 .. Len(L) : Append(L, x)[i] = L[i]
      /\ Append(L, x)[Len(L) + 1] = x
  OBVIOUS
<1>2. ASSUME NEW y \in Range(Append(L, x)) PROVE y \in Range(L) \cup {x}
  <2>1. PICK i \in 1 .. Len(L) + 1 : Append(L, x)[i] = y
    BY <1>1 DEF Range
  <2>2. i = Len(L) + 1 \/ i \in 1 .. Len(L)
    BY <1>1
  <2> QED
    BY <1>1, <2>1, <2>2 DEF Range
<1>3. ASSUME NEW y \in Range(L) \cup {x} PROVE y \in Range(Append(L, x))
  <2>1. CASE y = x
    <3>1. Len(L) + 1 \in 1 .. Len(L) + 1
      BY <1>1
    <3> QED
      BY <1>1, <2>1, <3>1 DEF Range
  <2>2. CASE y \in Range(L)
    <3>1. PICK i \in 1 .. Len(L) : L[i] = y
      BY <1>1, <2>2 DEF Range
    <3>2. i \in 1 .. Len(L) + 1
      BY <1>1
    <3> QED
      BY <1>1, <3>1, <3>2 DEF Range
  <2> QED
    BY <2>1, <2>2
<1> QED
  BY <1>2, <1>3

(* A sequence of two elements of a set is a sequence over the set.              *)
LEMMA PairTyped ==
    ASSUME NEW S, NEW T
    PROVE  \A L \in Seq(T) : Len(L) = 2 /\ L[1] \in S /\ L[2] \in S => L \in Seq(S)
<1> SUFFICES ASSUME NEW L \in Seq(T), Len(L) = 2, L[1] \in S, L[2] \in S PROVE L \in Seq(S)
  OBVIOUS
<1>1. \A i \in 1 .. 2 : i = 1 \/ i = 2
  OBVIOUS
<1>2. \A i \in 1 .. Len(L) : L[i] \in S
  BY <1>1
<1>3. L = [i \in 1 .. Len(L) |-> L[i]] /\ Len(L) \in Nat
  OBVIOUS
<1>4. L \in [1 .. Len(L) -> S]
  BY <1>2, <1>3
<1>5. \A n \in Nat : \A M \in [1 .. n -> S] : M \in Seq(S)
  OBVIOUS
<1> QED
  BY <1>3, <1>4, <1>5, Zenon

(* A finite set with one more element, and one with one element.                *)
LEMMA FiniteAdd ==
    /\ IsFiniteSet({})
    /\ \A S, x : IsFiniteSet(S) => IsFiniteSet(S \cup {x})
    /\ \A S : IsFiniteSet(S) /\ Cardinality(S) = 1 => \E x : S = {x}
<1>1. IsFiniteSet({})
  BY FS_EmptySet
<1>2. ASSUME NEW S, NEW x, IsFiniteSet(S) PROVE IsFiniteSet(S \cup {x})
  BY <1>2, FS_AddElement
<1>3. ASSUME NEW S, IsFiniteSet(S), Cardinality(S) = 1 PROVE \E x : S = {x}
  BY <1>3, FS_Singleton
<1> QED
  BY <1>1, <1>2, <1>3, Zenon

(* A sequence has finitely many elements.                                       *)
LEMMA FiniteElements ==
    ASSUME NEW L, L \in Seq(Range(L))
    PROVE  IsFiniteSet(Range(L))
<1>1. DOMAIN L = 1 .. Len(L) /\ Len(L) \in Nat
  OBVIOUS
<1>2. IsFiniteSet(1 .. Len(L))
  BY <1>1, FS_Interval
<1> DEFINE f == [i \in 1 .. Len(L) |-> L[i]]
<1>3. f \in [1 .. Len(L) -> Range(L)] /\ \A t \in Range(L) : \E i \in 1 .. Len(L) : f[i] = t
  BY <1>1 DEF Range
<1> HIDE DEF f
<1> QED
  BY <1>2, <1>3, FiniteRange

(* One more sequence comes last.                                                *)
LEMMA FlattenAppend ==
    ASSUME NEW S, NEW seqs \in Seq(Seq(S)), NEW s \in Seq(S)
    PROVE  FlattenSeq(Append(seqs, s)) = FlattenSeq(seqs) \o s
<1> DEFINE more == Append(seqs, s)
           n == Len(seqs)
<1>1. ClosedUnderConcat(Seq(S)) /\ << >> \in Seq(S)
  BY SeqClosed
<1>2. /\ more \in Seq(Seq(S)) /\ Len(more) = n + 1 /\ n \in Nat /\ more[n + 1] = s
      /\ \A i \in 1 .. n : more[i] = seqs[i]
  OBVIOUS
<1> DEFINE g == CHOOSE h : Flattens(more, h, Len(more))
<1>3. FlattenSeq(more) = g[n + 1]
  <2>1. Len(more) # 0
    BY <1>2
  <2> QED
    BY <1>2, <2>1 DEF FlattenSeq, Flattens
<1>4. Flattens(more, g, n + 1)
  <2>1. \E h : Flattens(more, h, Len(more))
    BY <1>1, <1>2, FlattenExists
  <2> QED
    BY <1>2, <2>1
<1> HIDE DEF g, more
<1>5. \A i \in 1 .. n + 1 : g[i] = IF i = 1 THEN more[i] ELSE g[i - 1] \o more[i]
  BY <1>4 DEF Flattens
<1>6. CASE n = 0
  <2>1. seqs = << >>
    BY <1>6
  <2>2. FlattenSeq(seqs) = << >>
    BY <1>6, <2>1 DEF FlattenSeq
  <2>3. g[n + 1] = s
    BY <1>2, <1>5, <1>6
  <2>4. << >> \o s = s
    OBVIOUS
  <2> QED
    BY <1>3, <2>2, <2>3, <2>4 DEF more
<1>7. CASE n # 0
  <2> DEFINE f == CHOOSE h : Flattens(seqs, h, Len(seqs))
             T == { k \in Nat : k + 1 <= n => f[k + 1] = g[k + 1] }
  <2>1. FlattenSeq(seqs) = f[n]
    BY <1>7 DEF FlattenSeq, Flattens
  <2>2. Flattens(seqs, f, n)
    <3>1. \E h : Flattens(seqs, h, Len(seqs))
      BY <1>1, FlattenExists
    <3> QED
      BY <3>1
  <2> HIDE DEF f
  <2>3. \A i \in 1 .. n : f[i] = IF i = 1 THEN seqs[i] ELSE f[i - 1] \o seqs[i]
    BY <2>2 DEF Flattens
  <2>4. 0 \in T
    BY <1>2, <1>5, <1>7, <2>3
  <2>5. ASSUME NEW k \in Nat, k \in T PROVE k + 1 \in T
    <3> SUFFICES ASSUME (k + 1) + 1 <= n PROVE f[(k + 1) + 1] = g[(k + 1) + 1]
      OBVIOUS
    <3>1. PICK i : i = (k + 1) + 1
      OBVIOUS
    <3>2. i \in 1 .. n /\ i \in 1 .. n + 1 /\ i # 1 /\ i - 1 = k + 1
      BY <1>2, <3>1
    <3>3. f[i] = f[k + 1] \o seqs[i] /\ g[i] = g[k + 1] \o more[i]
      BY <1>5, <2>3, <3>2
    <3>4. f[k + 1] = g[k + 1] /\ more[i] = seqs[i]
      BY <1>2, <2>5, <3>1, <3>2
    <3> QED
      BY <3>1, <3>3, <3>4
  <2>6. \A k \in Nat : k \in T
    <3>1. \A k \in Nat : k \in T => k + 1 \in T
      BY <2>5
    <3> HIDE DEF T
    <3> QED
      BY <2>4, <3>1, NatInduct
  <2>7. n - 1 \in Nat /\ (n - 1) + 1 = n
    BY <1>2, <1>7
  <2>8. f[n] = g[n]
    <3>1. PICK k : k = n - 1
      OBVIOUS
    <3>2. k \in Nat /\ k + 1 = n
      BY <2>7, <3>1
    <3>3. k \in T
      BY <2>6, <3>2
    <3> QED
      BY <1>2, <3>2, <3>3
  <2>9. n + 1 \in 1 .. n + 1 /\ n + 1 # 1 /\ (n + 1) - 1 = n
    BY <1>2, <1>7
  <2>10. g[n + 1] = g[n] \o s
    BY <1>2, <1>5, <2>9
  <2> QED
    BY <1>3, <2>1, <2>8, <2>10 DEF more
<1> QED
  BY <1>6, <1>7

(* A finite set of numbers that is not empty has a greatest element.            *)
LEMMA NatMax ==
    ASSUME NEW T \in SUBSET Nat, T # {}, IsFiniteSet(T)
    PROVE  \E m \in T : \A k \in T : k <= m
<1>0. PICK n \in Nat : ExistsSurjection(1 .. n, T)
  BY FS_NatSurjection
<1>1. PICK f \in [1 .. n -> T] : \A t \in T : \E i \in 1 .. n : f[i] = t
  BY <1>0 DEF ExistsSurjection, Surjection
<1> DEFINE U == { k \in Nat : k <= n => \E b \in Nat : \A i \in 1 .. k : f[i] <= b }
<1>2. 0 \in U
  OBVIOUS
<1>3. ASSUME NEW k \in Nat, k \in U PROVE k + 1 \in U
  <2> SUFFICES ASSUME k + 1 <= n PROVE \E b \in Nat : \A i \in 1 .. k + 1 : f[i] <= b
    OBVIOUS
  <2>1. PICK b \in Nat : \A i \in 1 .. k : f[i] <= b
    BY <1>3
  <2>2. k + 1 \in 1 .. n /\ f[k + 1] \in Nat
    <3> HIDE DEF U
    <3>1. k + 1 \in 1 .. n
      OBVIOUS
    <3>2. f[k + 1] \in T
      BY <3>1
    <3> QED
      BY <3>1, <3>2
  <2>3. ASSUME NEW i \in 1 .. k + 1 PROVE f[i] <= b + f[k + 1]
    <3>1. CASE i = k + 1
      BY <2>2, <3>1
    <3>2. CASE i \in 1 .. k
      <4> HIDE DEF U
      <4>0. i \in 1 .. n
        BY <3>2
      <4>1. f[i] <= b /\ f[i] \in T /\ f[i] \in Nat
        BY <2>1, <3>2, <4>0
      <4> QED
        BY <2>2, <4>1
    <3> QED
      BY <3>1, <3>2
  <2> QED
    BY <2>2, <2>3
<1>4. n \in U
  <2> HIDE DEF U
  <2> QED
    BY <1>2, <1>3, NatInduct
<1>5. PICK b \in Nat : \A t \in T : t <= b
  <2>1. PICK b \in Nat : \A i \in 1 .. n : f[i] <= b
    BY <1>4
  <2> QED
    BY <1>1, <2>1
<1> DEFINE D == { d \in Nat : \E t \in T : t + d = b }
<1>6. PICK d \in D : \A e \in D : d <= e
  <2>1. PICK t \in T : TRUE
    OBVIOUS
  <2>2. b - t \in D
    BY <1>5, <2>1
  <2>3. D \in SUBSET Nat /\ D # {}
    BY <2>2
  <2> HIDE DEF D
  <2> QED
    BY <2>3, NatMin
<1>7. PICK m \in T : m + d = b
  BY <1>6
<1>8. ASSUME NEW k \in T PROVE k <= m
  <2>1. b - k \in D
    BY <1>5
  <2>2. d <= b - k /\ d \in Nat
    BY <1>6, <2>1
  <2> QED
    BY <1>7, <2>2
<1> QED
  BY <1>7, <1>8

(* Max of a set of some of the numbers up to n.                                 *)
LEMMA MaxOfMany ==
    ASSUME NEW n \in Nat, NEW I, I \subseteq 1 .. n, NEW m \in I, \A i \in I : i <= m
    PROVE  Max(I) = m
<1>1. m >= m /\ \A i \in I : m >= i
  OBVIOUS
<1>2. PICK x : x = Max(I)
  OBVIOUS
<1>3. x \in I /\ \A y \in I : x >= y
  BY <1>1, <1>2 DEF Max
<1> QED
  BY <1>2, <1>3

(* A set of some of the numbers up to n has its Max.                            *)
LEMMA MaxOfSome ==
    ASSUME NEW n \in Nat, NEW I, I \subseteq 1 .. n, I # {}
    PROVE  Max(I) \in I /\ \A i \in I : i <= Max(I)
<1>1. IsFiniteSet(1 .. n)
  BY FS_Interval
<1>2. IsFiniteSet(I)
  BY <1>1, FS_Subset
<1>2a. I \in SUBSET Nat
  OBVIOUS
<1>3. PICK m \in I : \A i \in I : i <= m
  BY <1>2, <1>2a, NatMax
<1>4. Max(I) = m
  BY <1>3, MaxOfMany
<1> QED
  BY <1>3, <1>4

(* Pairs of one of finitely many numbers and one not above the bound it has:    *)
(* one comes last.                                                              *)
LEMMA LastPair ==
    ASSUME NEW S \in SUBSET Nat, IsFiniteSet(S), NEW bound \in [S -> Nat],
           NEW Q, Q # {}, \A q \in Q : q[1] \in S /\ q[2] \in 1 .. bound[q[1]]
    PROVE  \E a \in Q : \A b \in Q : b[1] < a[1] \/ (b[1] = a[1] /\ b[2] <= a[2])
<1> DEFINE T == { s \in S : \E q \in Q : q[1] = s }
<1>1. PICK m \in T : \A k \in T : k <= m
  <2>1. T # {} /\ T \in SUBSET Nat /\ T \subseteq S
    OBVIOUS
  <2> HIDE DEF T
  <2>2. IsFiniteSet(T)
    BY <2>1, FS_Subset
  <2> QED
    BY <2>1, <2>2, NatMax
<1> DEFINE U == { k \in 1 .. bound[m] : \E q \in Q : q[1] = m /\ q[2] = k }
<1>2. PICK n \in U : \A k \in U : k <= n
  <2>1. U # {} /\ U \subseteq 1 .. bound[m] /\ bound[m] \in Nat
    BY <1>1
  <2> HIDE DEF U
  <2> QED
    BY <2>1, MaxOfSome
<1>3. PICK a \in Q : a[1] = m /\ a[2] = n
  BY <1>2
<1>4. ASSUME NEW b \in Q PROVE b[1] < a[1] \/ (b[1] = a[1] /\ b[2] <= a[2])
  <2>1. b[1] \in T /\ b[1] <= m /\ b[1] \in Nat /\ m \in Nat
    BY <1>1
  <2>2. CASE b[1] = m
    <3>1. b[2] \in U
      BY <2>2
    <3> QED
      BY <1>2, <1>3, <2>2, <3>1
  <2>3. CASE b[1] # m
    BY <1>3, <2>1, <2>3
  <2> QED
    BY <2>2, <2>3
<1> QED
  BY <1>4

(* Each of the sequences is a block of FlattenSeq of them.                      *)
BlockAt(L, off, piece) ==
    /\ off + Len(piece) <= Len(L)
    /\ \A j \in 1 .. Len(piece) : L[off + j] = piece[j]

(* A block of a sequence stays where it is when more follows it.                *)
LEMMA BlockKept ==
    ASSUME NEW S, NEW a \in Seq(S), NEW b \in Seq(S), NEW piece \in Seq(S),
           NEW off \in Nat, BlockAt(a, off, piece)
    PROVE  BlockAt(a \o b, off, piece)
<1>1. /\ Len(a \o b) = Len(a) + Len(b) /\ \A k \in 1 .. Len(a) : (a \o b)[k] = a[k]
  BY ConcatIndex
<1>2. off + Len(piece) <= Len(a) + Len(b)
  BY DEF BlockAt
<1>3. ASSUME NEW j \in 1 .. Len(piece) PROVE (a \o b)[off + j] = piece[j]
  <2>1. off + j \in 1 .. Len(a)
    BY DEF BlockAt
  <2> QED
    BY <1>1, <2>1 DEF BlockAt
<1>4. off + Len(piece) <= Len(a \o b)
  BY <1>1, <1>2
<1> QED
  BY <1>3, <1>4, Zenon DEF BlockAt

(* What is put after a sequence is a block of both.                             *)
LEMMA BlockAdded ==
    ASSUME NEW S, NEW a \in Seq(S), NEW b \in Seq(S)
    PROVE  BlockAt(a \o b, Len(a), b)
<1>1. /\ Len(a \o b) = Len(a) + Len(b) /\ \A k \in 1 .. Len(b) : (a \o b)[Len(a) + k] = b[k]
  BY ConcatIndex
<1>2. Len(a) + Len(b) <= Len(a \o b)
  BY <1>1
<1> QED
  BY <1>1, <1>2, Zenon DEF BlockAt

(* Each piece is a block of the whole.                                          *)
LEMMA FlattenBlock ==
    ASSUME NEW S, NEW seqs \in Seq(Seq(S)), NEW i \in 1 .. Len(seqs)
    PROVE  /\ FlattenSeq(seqs) \in Seq(S)
           /\ \E off \in Nat : BlockAt(FlattenSeq(seqs), off, seqs[i])
<1> DEFINE n == Len(seqs)
           f == CHOOSE h : Flattens(seqs, h, n)
           Block(x) == \E off \in Nat : BlockAt(x, off, seqs[i])
           T == { k \in Nat : i + k <= n => f[i + k] \in Seq(S) /\ Block(f[i + k]) }
<1>1. ClosedUnderConcat(Seq(S)) /\ << >> \in Seq(S)
  BY SeqClosed
<1>2. n \in Nat /\ n # 0 /\ seqs[i] \in Seq(S) /\ \A k \in 1 .. n : seqs[k] \in Seq(S)
  OBVIOUS
<1>3. FlattenSeq(seqs) = f[n]
  BY <1>2 DEF FlattenSeq, Flattens
<1>4. PICK g \in [1 .. n -> Seq(S)] : Flattens(seqs, g, n)
  BY <1>1, FlattenExists
<1>5. Flattens(seqs, f, n)
  BY <1>4
<1> HIDE DEF f
<1>6. \A k \in 1 .. n : f[k] = IF k = 1 THEN seqs[k] ELSE f[k - 1] \o seqs[k]
  BY <1>5 DEF Flattens
<1> DEFINE U == { k \in Nat : k + 1 <= n => f[k + 1] \in Seq(S) }
<1>7. \A k \in 1 .. n : f[k] \in Seq(S)
  <2>1. 0 \in U
    BY <1>2, <1>6
  <2>2. ASSUME NEW k \in Nat, k \in U PROVE k + 1 \in U
    <3> SUFFICES ASSUME (k + 1) + 1 <= n PROVE f[(k + 1) + 1] \in Seq(S)
      OBVIOUS
    <3>1. (k + 1) + 1 \in 1 .. n /\ (k + 1) + 1 # 1 /\ ((k + 1) + 1) - 1 = k + 1
      OBVIOUS
    <3>2. f[(k + 1) + 1] = f[k + 1] \o seqs[(k + 1) + 1]
      BY <1>6, <3>1
    <3>3. f[k + 1] \in Seq(S) /\ seqs[(k + 1) + 1] \in Seq(S)
      BY <1>2, <2>2, <3>1
    <3> QED
      BY <1>1, <3>2, <3>3 DEF ClosedUnderConcat
  <2>3. \A k \in Nat : k \in U
    <3> HIDE DEF U
    <3> QED
      BY <2>1, <2>2, NatInduct
  <2>4. ASSUME NEW k \in 1 .. n PROVE f[k] \in Seq(S)
    <3>1. k - 1 \in Nat /\ (k - 1) + 1 = k
      OBVIOUS
    <3>2. k - 1 \in U
      BY <2>3, <3>1
    <3> QED
      BY <3>1, <3>2
  <2> QED
    BY <2>4
<1> HIDE DEF U
<1>9. 0 \in T
  <2>1. i + 0 = i /\ f[i] \in Seq(S)
    BY <1>7
  <2>2. CASE i = 1
    <3>1. f[i] = seqs[i]
      BY <1>6, <2>2
    <3>2. BlockAt(seqs[i], 0, seqs[i])
      <4> HIDE DEF Block, T
      <4>1. PICK c \in Seq(S) : c = seqs[i]
        BY <1>2
      <4>2. BlockAt(c, 0, c)
        BY DEF BlockAt
      <4> QED
        BY <4>1, <4>2
    <3> QED
      BY <2>1, <3>1, <3>2
  <2>3. CASE i # 1
    <3>1. i - 1 \in 1 .. n /\ f[i - 1] \in Seq(S) /\ seqs[i] \in Seq(S)
      BY <1>2, <1>7, <2>3
    <3>2. f[i] = f[i - 1] \o seqs[i]
      BY <1>6, <2>3
    <3>3. BlockAt(f[i], Len(f[i - 1]), seqs[i]) /\ Len(f[i - 1]) \in Nat
      BY <3>1, <3>2, BlockAdded
    <3> QED
      BY <2>1, <3>3
  <2> QED
    BY <2>2, <2>3
<1>10. ASSUME NEW k \in Nat, k \in T PROVE k + 1 \in T
  <2> SUFFICES ASSUME i + (k + 1) <= n
               PROVE  f[i + (k + 1)] \in Seq(S) /\ Block(f[i + (k + 1)])
    <3> HIDE DEF Block, U
    <3> QED
      OBVIOUS
  <2>1. /\ i + (k + 1) \in 1 .. n /\ i + (k + 1) # 1 /\ (i + (k + 1)) - 1 = i + k
        /\ i + k <= n /\ i + k \in 1 .. n
    OBVIOUS
  <2>2. f[i + (k + 1)] = f[i + k] \o seqs[i + (k + 1)] /\ seqs[i + (k + 1)] \in Seq(S)
    BY <1>2, <1>6, <2>1
  <2>3. PICK off \in Nat : BlockAt(f[i + k], off, seqs[i])
    BY <1>10, <2>1
  <2>4. f[i + k] \in Seq(S) /\ seqs[i] \in Seq(S)
    BY <1>2, <1>7, <2>1
  <2>5. BlockAt(f[i + (k + 1)], off, seqs[i])
    BY <2>2, <2>3, <2>4, BlockKept
  <2>6. f[i + (k + 1)] \in Seq(S)
    BY <1>7, <2>1
  <2> QED
    BY <2>5, <2>6 DEF Block
<1>11. n - i \in T
  <2>1. n - i \in Nat
    BY <1>2
  <2> HIDE DEF T
  <2> QED
    BY <1>9, <1>10, <2>1, NatInduct
<1>12. i + (n - i) = n
  BY <1>2
<1>13. Block(f[n])
  <2> HIDE DEF Block
  <2>1. i + (n - i) <= n
    BY <1>2, <1>12
  <2>2. Block(f[i + (n - i)])
    BY <1>11, <2>1
  <2> QED
    BY <1>12, <2>2
<1>14. f[n] \in Seq(S)
  BY <1>2, <1>7
<1> QED
  BY <1>3, <1>13, <1>14 DEF Block

(* So FlattenSeq has every element of each of them.                             *)
LEMMA FlattenHas ==
    ASSUME NEW S, NEW seqs \in Seq(Seq(S))
    PROVE  \A i \in 1 .. Len(seqs) : \A j \in 1 .. Len(seqs[i]) :
             \E k \in 1 .. Len(FlattenSeq(seqs)) : FlattenSeq(seqs)[k] = seqs[i][j]
<1> SUFFICES ASSUME NEW i \in 1 .. Len(seqs), NEW j \in 1 .. Len(seqs[i])
             PROVE  \E k \in 1 .. Len(FlattenSeq(seqs)) : FlattenSeq(seqs)[k] = seqs[i][j]
  OBVIOUS
<1>1. PICK off \in Nat : BlockAt(FlattenSeq(seqs), off, seqs[i])
  BY FlattenBlock
<1>2. FlattenSeq(seqs) \in Seq(S) /\ seqs[i] \in Seq(S)
  BY FlattenBlock
<1>3. off + j \in 1 .. Len(FlattenSeq(seqs))
  BY <1>1, <1>2 DEF BlockAt
<1> QED
  BY <1>1, <1>3 DEF BlockAt
(* How often a value is in a sequence,                                          *)
PlacesOf(L, x) == { i \in DOMAIN L : L[i] = x }
CountOf(L, x) == Cardinality(PlacesOf(L, x))

(* and in one with one more element.                                            *)
LEMMA OccurrenceCount ==
    ASSUME NEW S, NEW L \in Seq(S), NEW x
    PROVE  /\ CountOf(L, x) \in Nat
           /\ \A y \in S : CountOf(Append(L, y), x) = CountOf(L, x) + (IF y = x THEN 1 ELSE 0)
<1> DEFINE At(M) == { i \in DOMAIN M : M[i] = x }
           n == Len(L)
<1>1. n \in Nat /\ DOMAIN L = 1 .. n
  OBVIOUS
<1>2. IsFiniteSet(At(L)) /\ Cardinality(At(L)) \in Nat
  <2>1. IsFiniteSet(1 .. n)
    BY <1>1, FS_Interval
  <2>2. At(L) \in SUBSET (1 .. n)
    BY <1>1
  <2> HIDE DEF At
  <2> QED
    BY <2>1, <2>2, FS_Subset, FS_CardinalityType
<1>3. ASSUME NEW y \in S
      PROVE  Cardinality(At(Append(L, y))) = Cardinality(At(L)) + (IF y = x THEN 1 ELSE 0)
  <2>1. PICK M : M = Append(L, y)
    OBVIOUS
  <2>2. /\ DOMAIN M = 1 .. n + 1 /\ M[n + 1] = y
        /\ \A i \in 1 .. n : M[i] = L[i]
    BY <2>1
  <2>3. /\ \A i \in 1 .. n + 1 : i \in 1 .. n \/ i = n + 1
        /\ n + 1 \in 1 .. n + 1 /\ \A i \in 1 .. n : i \in 1 .. n + 1 /\ i # n + 1
    BY <1>1
  <2>4. n + 1 \notin At(L)
    BY <1>1
  <2> HIDE DEF n
  <2>5. At(M) = IF y = x THEN At(L) \cup {n + 1} ELSE At(L)
    BY <1>1, <2>2, <2>3
  <2> HIDE DEF At
  <2>6. Cardinality(At(L) \cup {n + 1}) = Cardinality(At(L)) + 1
    BY <1>2, <2>4, FS_AddElement
  <2> QED
    BY <1>2, <2>1, <2>5, <2>6
<1>4. \A M : CountOf(M, x) = Cardinality(At(M))
  BY DEF CountOf, PlacesOf
<1> HIDE DEF At
<1> QED
  BY <1>2, <1>3, <1>4

(* A finite set with one more element, and with one less.                       *)
LEMMA CountedElement ==
    ASSUME NEW S, IsFiniteSet(S), NEW x
    PROVE  /\ Cardinality(S) \in Nat
           /\ IsFiniteSet(S \cup {x}) /\ IsFiniteSet(S \ {x})
           /\ x \notin S => Cardinality(S \cup {x}) = Cardinality(S) + 1
           /\ x \in S => Cardinality(S \ {x}) = Cardinality(S) - 1
<1>1. Cardinality(S) \in Nat
  BY FS_CardinalityType
<1>2. IsFiniteSet(S \cup {x}) /\ (x \notin S => Cardinality(S \cup {x}) = Cardinality(S) + 1)
  BY <1>1, FS_AddElement
<1>3. IsFiniteSet(S \ {x}) /\ (x \in S => Cardinality(S \ {x}) = Cardinality(S) - 1)
  BY <1>1, FS_RemoveElement
<1> QED
  BY <1>1, <1>2, <1>3
===============================================================================
