------------------------ MODULE MicroBatchingProofs ------------------------
(***************************************************************************)
(* The safety of MicroBatching for every set of ranks, all batches, token  *)
(* limits and micro-batch sizes: no rank raises on another's account, the  *)
(* partitioner leaves no group empty and keeps the workloads within one    *)
(* sample of each other, and the rows a call returns are one per sample    *)
(* and aligned in all keys.                                                *)
(*                                                                         *)
(* The argument follows the partitioner.  A state of it is a descending    *)
(* list of disjoint groups whose spread is at most one sample's workload   *)
(* and whose first groups, as many as it has samples, are the ones that    *)
(* are not empty (StateInv).  A single sample makes such a state, and two  *)
(* such states merge to one.  From the last state the micro-batches are a  *)
(* partition of the batch (Parts), and the rows appended for them are an   *)
(* enumeration of it (RunInv, DoneInv).                                    *)
(***************************************************************************)
EXTENDS MicroBatching, FiniteSetTheorems, SequenceTheorems, TLAPS

-----------------------------------------------------------------------------
(* The inductive invariant.                                                 *)

Groups(S) == [sum : Nat, items : Seq(S)]

Distinct(q) == \A i, j \in 1..Len(q) : q[i] = q[j] => i = j

\* The samples of a partitioner's state.
Content(s) == UNION {ToSet(s[i].items) : i \in DOMAIN s}

\* The groups of a state: a sum that is zero for an empty group alone, no sample
\* twice, heaviest group first.
GroupsInv(s, k, S) ==
    /\ s \in [1..k -> Groups(S)]
    /\ \A i \in 1..k : s[i].sum = 0 <=> s[i].items = <<>>
    /\ \A i \in 1..k : Distinct(s[i].items)
    /\ \A i, j \in 1..k : i # j => ToSet(s[i].items) \cap ToSet(s[j].items) = {}

Descending(s, k) == \A i, j \in 1..k : i < j => s[i].sum >= s[j].sum

\* As many groups as there are samples are not empty.
Filled(s, k) ==
    \A i \in 1..k : s[i].items # <<>> <=> i <= Cardinality(Content(s))

StateInv(s, k, S) == GroupsInv(s, k, S) /\ Descending(s, k) /\ Filled(s, k)

\* No two groups differ by more than w.
Within(s, k, w) == \A i, j \in 1..k : s[i].sum - s[j].sum <= w

\* The heap of a rank: its states share no sample, and cover the batch.
HeapInv(r) ==
    /\ pc[r] \in {"tokens", "split", "agree"} => heap[r] = {}
    /\ \A s \in heap[r] :
        /\ StateInv(s, count[r], Samples(r))
        /\ \E i \in Samples(r) : Within(s, count[r], Workload(batch[r][i].len))
    /\ \A s, t \in heap[r] : s # t => Content(s) \cap Content(t) = {}
    /\ pc[r] = "partition" =>
        \A i \in Samples(r) : \E s \in heap[r] : i \in Content(s)

\* q is a partition of the samples in S, each part a list.
Parts(q, S) ==
    /\ q \in Seq(Seq(S))
    /\ \A c \in DOMAIN q : q[c] # <<>> /\ Distinct(q[c])
    /\ \A c, d \in DOMAIN q : c # d => ToSet(q[c]) \cap ToSet(q[d]) = {}
    /\ \A i \in S : \E c \in DOMAIN q : i \in ToSet(q[c])

\* Either every row has its tags, or a sample without them is to blame.
TagsInv(r) ==
    /\ \/ output[r].tags = output[r].log_probs
       \/ /\ Len(output[r].tags) < Len(output[r].log_probs)
          /\ \E i \in Samples(r) : ~batch[r][i].tagged
    /\ output[r].tags # <<>> => \E i \in Samples(r) : batch[r][i].tagged

Size(r) == Len(batch[r]) \div Chunks(r)

\* A rank that runs its micro-batches: the rows are those of the first ran.
RunInv(r) ==
    pc[r] = "run" =>
        /\ Parts(micro[r], Samples(r))
        /\ ran[r] <= Len(micro[r])
        /\ Distinct(output[r].log_probs)
        /\ \A i \in Samples(r) : i \in ToSet(output[r].log_probs)
                                 <=> \E c \in 1..ran[r] : i \in ToSet(micro[r][c])
        /\ TagsInv(r)
        /\ mode.dynamic \/
             /\ Divisible(r)
             /\ micro[r] = [c \in 1..Chunks(r) |->
                              [i \in 1..Size(r) |-> (c - 1) * Size(r) + i]]
             /\ output[r].log_probs = [i \in 1..(ran[r] * Size(r)) |-> i]

\* A rank that has run them: one row for each sample.
DoneInv(r) ==
    /\ pc[r] = "optimizer" => mode.training
    /\ pc[r] = "loss" /\ mode.training => output[r] = NoOutput
    /\ pc[r] = "loss" /\ ~mode.training =>
        /\ Distinct(output[r].log_probs)
        /\ ToSet(output[r].log_probs) = Samples(r)
        /\ TagsInv(r)
        /\ mode.dynamic \/ output[r].log_probs = [i \in Samples(r) |-> i]

\* What has not begun has left no trace; the count is one the rank can fill.
StageInv(r) ==
    /\ pc[r] \in {"tokens", "split", "agree", "partition"} =>
         micro[r] = <<>> /\ ran[r] = 0 /\ output[r] = NoOutput
    /\ pc[r] \in {"agree", "partition"} =>
         mode.dynamic /\ count[r] \in 1..Len(batch[r])

SameLength == \A q, r \in Ranks : Len(batch[q]) = Len(batch[r])

LimitInv == mode.limit \in IF mode.dynamic THEN Limits ELSE Sizes

RankInv(r) == StageInv(r) /\ HeapInv(r) /\ RunInv(r) /\ DoneInv(r)

IInv == /\ TypeOK
        /\ SameLength /\ LimitInv
        /\ \A r \in Ranks : RankInv(r)
        /\ RaisesForCause
        /\ RowsAligned

-----------------------------------------------------------------------------
(* Finite sets of numbers.                                                  *)

\* What holds of a set when it holds of all its smaller subsets holds of every
\* subset of a finite set.
LEMMA SubsetInduction ==
    ASSUME NEW S, IsFiniteSet(S), NEW P,
           \A T \in SUBSET S : (\A U \in (SUBSET T) \ {T} : U \in P) => T \in P
    PROVE  \A T \in SUBSET S : T \in P
  <1> SUFFICES ASSUME NEW X \in SUBSET S, X \notin P PROVE FALSE
    OBVIOUS
  <1> DEFINE R == StrictSubsetOrdering(S)
             Bad == {T \in SUBSET S : T \notin P}
  <1>1. IsWellFoundedOn(R, SUBSET S)
    <2>1. FiniteSubsetsOf(S) = SUBSET S
      BY FS_FiniteSubsetsOfFinite
    <2>2. IsWellFoundedOn(R, FiniteSubsetsOf(S))
      BY FS_StrictSubsetOrderingWellFounded
    <2>3. QED
      BY <2>1, <2>2
  <1>2. Bad \subseteq SUBSET S /\ Bad # {}
    OBVIOUS
  <1>3. PICK T \in Bad : \A U \in Bad : ~(<<U, T>> \in R)
    <2> HIDE DEF R, Bad
    <2>1. QED
      BY <1>1, <1>2, WFMin
  <1>4. \A U \in (SUBSET T) \ {T} : U \in P
    <2> SUFFICES ASSUME NEW U \in (SUBSET T) \ {T}, U \notin P PROVE FALSE
      OBVIOUS
    <2>1. U \in Bad /\ <<U, T>> \in R
      BY DEF StrictSubsetOrdering
    <2>2. QED
      BY <1>3, <2>1
  <1>5. QED
    BY <1>4

\* A finite set of integers has a greatest element.
LEMMA GreatestOf ==
    ASSUME NEW S \in SUBSET Int, IsFiniteSet(S), S # {}
    PROVE  \E m \in S : \A x \in S : x <= m
  <1> DEFINE P == {T \in SUBSET S : T # {} => \E m \in T : \A x \in T : x <= m}
  <1>1. ASSUME NEW T \in SUBSET S, \A U \in (SUBSET T) \ {T} : U \in P PROVE T \in P
    <2> SUFFICES ASSUME NEW y \in T PROVE \E m \in T : \A x \in T : x <= m
      OBVIOUS
    <2>1. CASE T \ {y} = {}
      BY <2>1
    <2>2. CASE T \ {y} # {}
      <3>1. T \ {y} \in P
        BY <1>1
      <3>2. PICK m \in T \ {y} : \A x \in T \ {y} : x <= m
        BY <2>2, <3>1
      <3>3. m \in Int /\ y \in Int /\ (m <= y \/ y <= m) /\ \A x \in T : x \in Int
        OBVIOUS
      <3>4. CASE m <= y
        <4>1. \A x \in T : x <= y
          BY <3>2, <3>3, <3>4
        <4>2. QED
          BY <4>1
      <3>5. CASE y <= m
        <4>1. \A x \in T : x <= m
          BY <3>2, <3>5
        <4>2. QED
          BY <4>1
      <3>6. QED
        BY <3>3, <3>4, <3>5
    <2>3. QED
      BY <2>1, <2>2
  <1>2. S \in P
    <2> HIDE DEF P
    <2>1. QED
      BY <1>1, SubsetInduction
  <1>3. QED
    BY <1>2

\* q lists the numbers of S in their order.
Increasing(q, S) ==
    /\ q \in [1..Cardinality(S) -> S]
    /\ \A i, j \in DOMAIN q : i < j => q[i] < q[j]

\* Every finite set of integers has such a list: its greatest element comes
\* after those of a smaller set.
LEMMA IncreasingExists ==
    ASSUME NEW S \in SUBSET Int, IsFiniteSet(S)
    PROVE  \E q : Increasing(q, S)
  <1> DEFINE P == {T \in SUBSET S : \E q : Increasing(q, T)}
  <1>1. ASSUME NEW T \in SUBSET S, \A U \in (SUBSET T) \ {T} : U \in P PROVE T \in P
    <2>1. IsFiniteSet(T) /\ T \in SUBSET Int
      BY FS_Subset
    <2>2. CASE T = {}
      <3>1. Cardinality(T) = 0
        BY <2>2, FS_EmptySet
      <3>2. Increasing(<<>>, T)
        BY <2>2, <3>1 DEF Increasing
      <3>3. QED
        BY <3>2
    <2>3. CASE T # {}
      <3>1. PICK m \in T : \A x \in T : x <= m
        BY <2>1, <2>3, GreatestOf
      <3> DEFINE U == T \ {m}
      <3>2. U \in P
        BY <1>1
      <3>3. PICK q : Increasing(q, U)
        BY <3>2
      <3> DEFINE k == Cardinality(U)
                 p == [i \in 1..(k + 1) |-> IF i = k + 1 THEN m ELSE q[i]]
      <3>4. k \in Nat /\ Cardinality(T) = k + 1
        <4>1. IsFiniteSet(U) /\ m \notin U /\ U \cup {m} = T
          BY <2>1, FS_RemoveElement
        <4> HIDE DEF U
        <4>2. QED
          BY <4>1, FS_CardinalityType, FS_AddElement
      <3>5. q \in [1..k -> U] /\ \A i, j \in 1..k : i < j => q[i] < q[j]
        BY <3>3 DEF Increasing
      <3>6. \A x \in U : x < m /\ x \in T
        <4>1. \A x \in T : x \in Int
          BY <2>1
        <4>2. QED
          BY <3>1, <4>1
      <3> HIDE DEF U, k
      <3>7. \A i \in 1..(k + 1) : i = k + 1 \/ i \in 1..k
        BY <3>4
      <3>8. p \in [1..(k + 1) -> T]
        BY <3>5, <3>6, <3>7
      <3>9. ASSUME NEW i \in 1..(k + 1), NEW j \in 1..(k + 1), i < j
            PROVE  p[i] < p[j]
        <4>1. i \in 1..k
          BY <3>4, <3>9
        <4>2. p[i] = q[i] /\ q[i] \in U
          BY <3>4, <3>5, <4>1
        <4>3. CASE j = k + 1
          BY <3>6, <4>2, <4>3
        <4>4. CASE j \in 1..k
          <5>1. p[j] = q[j]
            BY <3>4, <4>4
          <5>2. QED
            BY <3>5, <3>9, <4>1, <4>2, <4>4, <5>1
        <4>5. QED
          BY <3>7, <4>3, <4>4
      <3> HIDE DEF p
      <3>10. Increasing(p, T)
        BY <3>4, <3>8, <3>9 DEF Increasing
      <3>11. QED
        BY <3>10
    <2>4. QED
      BY <2>2, <2>3
  <1>2. S \in P
    <2> HIDE DEF P
    <2>1. QED
      BY <1>1, SubsetInduction
  <1>3. QED
    BY <1>2

-----------------------------------------------------------------------------
(* Facts about numbers, permutations and lists.                             *)

\* A one-to-one rearrangement of 1..k reaches every position.
LEMMA PermutationIs ==
    ASSUME NEW k \in Nat, NEW p \in Injection(1..k, 1..k)
    PROVE  /\ p \in [1..k -> 1..k]
           /\ \A i, j \in 1..k : p[i] = p[j] => i = j
           /\ \A j \in 1..k : \E i \in 1..k : p[i] = j
  <1>1. p \in [1..k -> 1..k] /\ \A i, j \in 1..k : p[i] = p[j] => i = j
    BY DEF Injection, IsInjective
  <1>2. IsFiniteSet(1..k)
    BY FS_Interval
  <1>3. p \in Surjection(1..k, 1..k)
    BY <1>2, FS_Injection
  <1>4. QED
    BY <1>1, <1>3 DEF Surjection

\* A set of numbers from 1 on without a gap is counted by its last.
LEMMA DownClosed ==
    ASSUME NEW k \in Nat, NEW D \in SUBSET (1..k),
           \A i \in D, j \in 1..k : j < i => j \in D
    PROVE  D = 1..Cardinality(D)
  <1>1. IsFiniteSet(D)
    <2>1. IsFiniteSet(1..k)
      BY FS_Interval
    <2>2. QED
      BY <2>1, FS_Subset
  <1>2. CASE D = {}
    BY <1>2, FS_EmptySet
  <1>3. CASE D # {}
    <2>1. D \in SUBSET Int
      OBVIOUS
    <2>3. PICK m \in D : \A x \in D : x <= m
      BY <1>1, <1>3, <2>1, GreatestOf
    <2>a. m \in 1..k
      BY <2>3
    <2>b. \A x \in 1..m : x \in D
      <3> SUFFICES ASSUME NEW x \in 1..m PROVE x \in D
        OBVIOUS
      <3>1. x \in 1..k /\ (x < m \/ x = m)
        BY <2>a
      <3>2. QED
        BY <2>3, <3>1
    <2>c. \A x \in D : x \in 1..m
      BY <2>3
    <2>4. D = 1..m
      BY <2>b, <2>c
    <2>d. m \in Nat \ {0}
      BY <2>a
    <2>5. Cardinality(1..m) = m
      BY <2>d, FS_Interval
    <2>6. QED
      BY <2>4, <2>5
  <1>4. QED
    BY <1>2, <1>3

\* A bijection counts a part of its range as it counts what it comes from.
LEMMA PermutedCount ==
    ASSUME NEW k \in Nat, NEW p \in Injection(1..k, 1..k), NEW D \in SUBSET (1..k)
    PROVE  Cardinality({i \in 1..k : p[i] \in D}) = Cardinality(D)
  <1> DEFINE E == {i \in 1..k : p[i] \in D}
             f == [i \in E |-> p[i]]
  <1>1. f \in Bijection(E, D)
    <2>1. f \in [E -> D]
      OBVIOUS
    <2>2. \A i, j \in E : f[i] = f[j] => i = j
      BY PermutationIs
    <2>3. \A j \in D : \E i \in E : f[i] = j
      <3> SUFFICES ASSUME NEW j \in D PROVE \E i \in E : f[i] = j
        OBVIOUS
      <3>1. PICK i \in 1..k : p[i] = j
        BY PermutationIs
      <3>2. i \in E /\ f[i] = j
        BY <3>1
      <3>3. QED
        BY <3>2
    <2>4. QED
      BY <2>1, <2>2, <2>3 DEF Bijection, Injection, Surjection, IsInjective
  <1>2. IsFiniteSet(E)
    <2>1. IsFiniteSet(1..k) /\ E \in SUBSET (1..k)
      BY FS_Interval
    <2>2. QED
      BY <2>1, FS_Subset
  <1> HIDE DEF E, f
  <1>3. Cardinality(D) = Cardinality(E)
    BY <1>1, <1>2, FS_Bijection DEF ExistsBijection
  <1>4. QED
    BY <1>3 DEF E

\* A sequence as a function, and the empty one.
LEMMA SequenceIs ==
    ASSUME NEW S, NEW q \in Seq(S)
    PROVE  /\ DOMAIN q = 1..Len(q) /\ Len(q) \in Nat
           /\ \A i \in 1..Len(q) : q[i] \in S
           /\ <<>> \in Seq(S)
  OBVIOUS

\* The elements of a sequence, of an empty one, and of two appended ones.
LEMMA ElementsOf ==
    ASSUME NEW S, NEW q \in Seq(S)
    PROVE  /\ ToSet(q) \subseteq S
           /\ \A x : x \in ToSet(q) <=> \E i \in 1..Len(q) : q[i] = x
           /\ q = <<>> <=> ToSet(q) = {}
           /\ q = <<>> <=> Len(q) = 0
  <1>1. DOMAIN q = 1..Len(q) /\ Len(q) \in Nat /\ \A i \in 1..Len(q) : q[i] \in S
    OBVIOUS
  <1>2. \A x : x \in ToSet(q) <=> \E i \in 1..Len(q) : q[i] = x
    BY <1>1 DEF ToSet
  <1>3. q = <<>> <=> Len(q) = 0
    OBVIOUS
  <1>4. q = <<>> <=> ToSet(q) = {}
    <2>1. q # <<>> => 1 \in 1..Len(q)
      BY <1>1, <1>3
    <2>2. q = <<>> => ToSet(q) = {}
      BY <1>1, <1>2, <1>3
    <2>3. QED
      BY <1>2, <2>1, <2>2
  <1>5. QED
    BY <1>1, <1>2, <1>3, <1>4

\* Two lists that share nothing make one without repetitions.
LEMMA AppendedLists ==
    ASSUME NEW S, NEW q \in Seq(S), NEW u \in Seq(S)
    PROVE  /\ q \o u \in Seq(S)
           /\ Len(q \o u) = Len(q) + Len(u)
           /\ ToSet(q \o u) = ToSet(q) \cup ToSet(u)
           /\ Distinct(q) /\ Distinct(u) /\ ToSet(q) \cap ToSet(u) = {} => Distinct(q \o u)
  <1>1. /\ q \o u \in Seq(S) /\ Len(q \o u) = Len(q) + Len(u)
        /\ Len(q) \in Nat /\ Len(u) \in Nat
        /\ \A i \in 1..Len(q) : (q \o u)[i] = q[i]
        /\ \A i \in 1..Len(u) : (q \o u)[Len(q) + i] = u[i]
    OBVIOUS
  <1>2. \A i \in 1..Len(q \o u) :
          \/ i \in 1..Len(q) /\ (q \o u)[i] = q[i]
          \/ i - Len(q) \in 1..Len(u) /\ (q \o u)[i] = u[i - Len(q)]
    <2> SUFFICES ASSUME NEW i \in 1..Len(q \o u), ~(i \in 1..Len(q))
                 PROVE  i - Len(q) \in 1..Len(u) /\ (q \o u)[i] = u[i - Len(q)]
      BY <1>1
    <2>1. i - Len(q) \in 1..Len(u) /\ Len(q) + (i - Len(q)) = i
      BY <1>1
    <2>2. QED
      BY <1>1, <2>1
  <1>a. /\ \A x : x \in ToSet(q) <=> \E i \in 1..Len(q) : q[i] = x
        /\ \A x : x \in ToSet(u) <=> \E i \in 1..Len(u) : u[i] = x
        /\ \A x : x \in ToSet(q \o u) <=> \E i \in 1..Len(q \o u) : (q \o u)[i] = x
    BY <1>1, ElementsOf
  <1>3. ToSet(q \o u) = ToSet(q) \cup ToSet(u)
    <2>1. \A x : x \in ToSet(q \o u) => x \in ToSet(q) \cup ToSet(u)
      BY <1>a, <1>2
    <2>2. \A i \in 1..Len(q) : i \in 1..Len(q \o u)
      BY <1>1
    <2>3. \A i \in 1..Len(u) : Len(q) + i \in 1..Len(q \o u)
      BY <1>1
    <2>4. \A x \in ToSet(q) : x \in ToSet(q \o u)
      BY <1>a, <1>1, <2>2
    <2>5. \A x \in ToSet(u) : x \in ToSet(q \o u)
      BY <1>a, <1>1, <2>3
    <2>6. QED
      BY <2>1, <2>4, <2>5
  <1>4. ASSUME Distinct(q), Distinct(u), ToSet(q) \cap ToSet(u) = {},
               NEW i \in 1..Len(q \o u), NEW j \in 1..Len(q \o u), (q \o u)[i] = (q \o u)[j]
        PROVE  i = j
    <2>1. \A a \in 1..Len(q), b \in 1..Len(u) : q[a] # u[b]
      BY <1>a, <1>4
    <2>2. CASE i \in 1..Len(q) /\ (q \o u)[i] = q[i]
      <3>1. j \in 1..Len(q) /\ (q \o u)[j] = q[j]
        BY <1>2, <1>4, <2>1, <2>2
      <3>2. QED
        BY <1>4, <2>2, <3>1 DEF Distinct
    <2>3. CASE i - Len(q) \in 1..Len(u) /\ (q \o u)[i] = u[i - Len(q)]
      <3>1. j - Len(q) \in 1..Len(u) /\ (q \o u)[j] = u[j - Len(q)]
        BY <1>2, <1>4, <2>1, <2>3
      <3>2. i - Len(q) = j - Len(q)
        BY <1>4, <2>3, <3>1 DEF Distinct
      <3>3. QED
        BY <1>1, <3>2
    <2>4. QED
      BY <1>2, <2>2, <2>3
  <1>5. DOMAIN (q \o u) = 1..Len(q \o u)
    BY <1>1
  <1>6. Distinct(q) /\ Distinct(u) /\ ToSet(q) \cap ToSet(u) = {} => Distinct(q \o u)
    BY <1>4, <1>5 DEF Distinct
  <1>7. QED
    BY <1>1, <1>3, <1>6

-----------------------------------------------------------------------------
(* The partitioner: its states and their merging.                           *)

\* A sample is in a state that has it in one of its groups.
LEMMA ContentIs ==
    ASSUME NEW k \in Nat, NEW s, DOMAIN s = 1..k
    PROVE  \A x : x \in Content(s) <=> \E i \in 1..k : x \in ToSet(s[i].items)
  BY DEF Content

\* The groups of a state have their types.
LEMMA GroupType ==
    ASSUME NEW k \in Nat, NEW S, NEW s \in [1..k -> Groups(S)]
    PROVE  /\ DOMAIN s = 1..k /\ Len(s) = k
           /\ \A i \in 1..k : /\ s[i] \in Groups(S)
                              /\ s[i].sum \in Nat /\ s[i].items \in Seq(S)
                              /\ ToSet(s[i].items) \subseteq S
  <1>1. DOMAIN s = 1..k /\ \A i \in 1..k : s[i] \in Groups(S)
    OBVIOUS
  <1>2. \A i \in 1..k : s[i].sum \in Nat /\ s[i].items \in Seq(S)
    BY <1>1 DEF Groups
  <1>3. Len(s) = k
    <2>1. s \in Seq(Groups(S))
      BY IsASeq
    <2>2. DOMAIN s = 1..Len(s) /\ Len(s) \in Nat
      BY <2>1, LenProperties
    <2>3. QED
      BY <1>1, <2>2
  <1>4. \A i \in 1..k : ToSet(s[i].items) \subseteq S
    BY <1>2, ElementsOf
  <1>5. QED
    BY <1>1, <1>2, <1>3, <1>4

\* Ordering its groups keeps a state's groups and its samples.
LEMMA Rearranged ==
    ASSUME NEW k \in Nat, NEW S, NEW g, GroupsInv(g, k, S),
           NEW p \in Injection(1..k, 1..k), NEW u, u = [i \in 1..k |-> g[p[i]]]
    PROVE  GroupsInv(u, k, S) /\ Content(u) = Content(g)
  <1>1. /\ p \in [1..k -> 1..k] /\ \A i, j \in 1..k : p[i] = p[j] => i = j
        /\ \A j \in 1..k : \E i \in 1..k : p[i] = j
    BY PermutationIs
  <1>2. u \in [1..k -> Groups(S)] /\ \A i \in 1..k : u[i] = g[p[i]] /\ p[i] \in 1..k
    BY <1>1 DEF GroupsInv
  <1>3. GroupsInv(u, k, S)
    <2>1. \A i \in 1..k : (u[i].sum = 0 <=> u[i].items = <<>>) /\ Distinct(u[i].items)
      BY <1>2 DEF GroupsInv
    <2>2. ASSUME NEW i \in 1..k, NEW j \in 1..k, i # j
          PROVE  ToSet(u[i].items) \cap ToSet(u[j].items) = {}
      <3>1. p[i] # p[j]
        BY <1>1, <2>2
      <3>2. QED
        BY <1>2, <3>1 DEF GroupsInv
    <2>3. QED
      BY <1>2, <2>1, <2>2 DEF GroupsInv
  <1>4. DOMAIN u = 1..k /\ DOMAIN g = 1..k
    BY DEF GroupsInv
  <1>5. \A x : x \in Content(u) <=> x \in Content(g)
    <2>1. /\ \A x : x \in Content(u) <=> \E i \in 1..k : x \in ToSet(u[i].items)
          /\ \A x : x \in Content(g) <=> \E i \in 1..k : x \in ToSet(g[i].items)
      BY <1>4, ContentIs
    <2>2. ASSUME NEW x, x \in Content(u) PROVE x \in Content(g)
      BY <1>2, <2>1, <2>2
    <2>3. ASSUME NEW x, x \in Content(g) PROVE x \in Content(u)
      <3>1. PICK j \in 1..k : x \in ToSet(g[j].items)
        BY <2>1, <2>3
      <3>2. PICK i \in 1..k : p[i] = j
        BY <1>1
      <3>3. QED
        BY <1>2, <2>1, <3>1, <3>2
    <2>4. QED
      BY <2>2, <2>3
  <1>6. QED
    BY <1>3, <1>5

\* Heaviest first is a rearrangement in which the sums descend.
LEMMA HeaviestFirstIs ==
    ASSUME NEW k \in Nat, NEW S, NEW g, GroupsInv(g, k, S), NEW u \in HeaviestFirst(g)
    PROVE  /\ \E p \in Injection(1..k, 1..k) : u = [i \in 1..k |-> g[p[i]]]
           /\ Descending(u, k)
  <1>1. DOMAIN g = 1..k
    BY DEF GroupsInv
  <1>2. PICK p \in Injection(1..k, 1..k) : u = [i \in 1..k |-> g[p[i]]]
    BY <1>1 DEF HeaviestFirst, Orders
  <1>3. u \in [1..k -> Groups(S)]
    <2>1. GroupsInv(u, k, S)
      BY <1>2, Rearranged
    <2>2. QED
      BY <2>1 DEF GroupsInv
  <1>4. \A i \in 1..k : u[i].sum \in Nat
    BY <1>3, GroupType
  <1>5. \A i, j \in 1..k : i < j => ~Lighter(u[i], u[j])
    BY <1>1 DEF HeaviestFirst, Orders
  <1>6. \A i, j \in 1..k : i < j => ~(u[i].sum < u[j].sum)
    BY <1>5 DEF Lighter
  <1>7. QED
    BY <1>2, <1>4, <1>6 DEF Descending

\* Two states that share no sample, joined heavy with light.
LEMMA JoinedGroups ==
    ASSUME NEW k \in Nat, NEW S, NEW s, NEW t, GroupsInv(s, k, S), GroupsInv(t, k, S),
           Content(s) \cap Content(t) = {},
           NEW g, g = [i \in 1..k |-> Joined(s[i], t[k + 1 - i])]
    PROVE  /\ GroupsInv(g, k, S)
           /\ Content(g) = Content(s) \cup Content(t)
           /\ \A i \in 1..k :
                /\ g[i].sum = s[i].sum + t[k + 1 - i].sum
                /\ g[i].items = <<>> <=> s[i].items = <<>> /\ t[k + 1 - i].items = <<>>
  <1>1. \A i \in 1..k : k + 1 - i \in 1..k
    OBVIOUS
  <1>2. /\ \A i \in 1..k : s[i].sum \in Nat /\ s[i].items \in Seq(S)
        /\ \A i \in 1..k : t[i].sum \in Nat /\ t[i].items \in Seq(S)
        /\ DOMAIN s = 1..k /\ DOMAIN t = 1..k
    BY GroupType DEF GroupsInv
  <1>3. \A i \in 1..k : /\ g[i].sum = s[i].sum + t[k + 1 - i].sum
                        /\ g[i].items = s[i].items \o t[k + 1 - i].items
    BY DEF Joined
  <1>4. \A i \in 1..k : /\ g[i].items \in Seq(S)
                        /\ Len(g[i].items) = Len(s[i].items) + Len(t[k + 1 - i].items)
                        /\ ToSet(g[i].items) = ToSet(s[i].items) \cup ToSet(t[k + 1 - i].items)
    <2> SUFFICES ASSUME NEW i \in 1..k
                 PROVE  /\ g[i].items \in Seq(S)
                        /\ Len(g[i].items) = Len(s[i].items) + Len(t[k + 1 - i].items)
                        /\ ToSet(g[i].items) = ToSet(s[i].items) \cup ToSet(t[k + 1 - i].items)
      OBVIOUS
    <2>1. s[i].items \in Seq(S) /\ t[k + 1 - i].items \in Seq(S)
      BY <1>1, <1>2
    <2>2. g[i].items = s[i].items \o t[k + 1 - i].items
      BY <1>3
    <2> DEFINE a == s[i].items
               b == t[k + 1 - i].items
    <2> HIDE DEF a, b
    <2>3. a \in Seq(S) /\ b \in Seq(S) /\ g[i].items = a \o b
      BY <2>1, <2>2 DEF a, b
    <2>4. /\ a \o b \in Seq(S) /\ Len(a \o b) = Len(a) + Len(b)
          /\ ToSet(a \o b) = ToSet(a) \cup ToSet(b)
      BY <2>3, AppendedLists
    <2>5. QED
      BY <2>3, <2>4 DEF a, b
  <1>5. \A i \in 1..k : g[i].items = <<>> <=> s[i].items = <<>> /\ t[k + 1 - i].items = <<>>
    <2> SUFFICES ASSUME NEW i \in 1..k
                 PROVE  g[i].items = <<>> <=> s[i].items = <<>> /\ t[k + 1 - i].items = <<>>
      OBVIOUS
    <2>1. /\ s[i].items \in Seq(S) /\ t[k + 1 - i].items \in Seq(S) /\ g[i].items \in Seq(S)
          /\ ToSet(g[i].items) = ToSet(s[i].items) \cup ToSet(t[k + 1 - i].items)
      BY <1>1, <1>2, <1>4
    <2>2. /\ s[i].items = <<>> <=> ToSet(s[i].items) = {}
          /\ t[k + 1 - i].items = <<>> <=> ToSet(t[k + 1 - i].items) = {}
          /\ g[i].items = <<>> <=> ToSet(g[i].items) = {}
      BY <2>1, ElementsOf
    <2>3. QED
      BY <2>1, <2>2
  <1>6. /\ \A x : x \in Content(s) <=> \E i \in 1..k : x \in ToSet(s[i].items)
        /\ \A x : x \in Content(t) <=> \E i \in 1..k : x \in ToSet(t[i].items)
        /\ \A x : x \in Content(g) <=> \E i \in 1..k : x \in ToSet(g[i].items)
    BY <1>2, ContentIs
  <1>7. \A i, j \in 1..k : ToSet(s[i].items) \cap ToSet(t[j].items) = {}
    BY <1>6
  <1>8. GroupsInv(g, k, S)
    <2>1. g \in [1..k -> Groups(S)]
      <3>1. \A i \in 1..k : g[i] \in Groups(S)
        <4> SUFFICES ASSUME NEW i \in 1..k PROVE g[i] \in Groups(S)
          OBVIOUS
        <4>1. g[i] = [sum |-> s[i].sum + t[k + 1 - i].sum,
                      items |-> s[i].items \o t[k + 1 - i].items]
          BY DEF Joined
        <4>2. s[i].sum + t[k + 1 - i].sum \in Nat
          BY <1>1, <1>2
        <4>3. s[i].items \o t[k + 1 - i].items \in Seq(S)
          BY <1>3, <1>4
        <4>4. \A v, q : v \in Nat /\ q \in Seq(S) => [sum |-> v, items |-> q] \in Groups(S)
          BY DEF Groups
        <4>5. QED
          BY <4>1, <4>2, <4>3, <4>4
      <3>2. QED
        BY <3>1
    <2>2. \A i \in 1..k : g[i].sum = 0 <=> g[i].items = <<>>
      <3> SUFFICES ASSUME NEW i \in 1..k PROVE g[i].sum = 0 <=> g[i].items = <<>>
        OBVIOUS
      <3>1. /\ s[i].sum \in Nat /\ t[k + 1 - i].sum \in Nat
            /\ s[i].sum = 0 <=> s[i].items = <<>>
            /\ t[k + 1 - i].sum = 0 <=> t[k + 1 - i].items = <<>>
        BY <1>1, <1>2 DEF GroupsInv
      <3>2. g[i].sum = s[i].sum + t[k + 1 - i].sum
        BY <1>3
      <3>3. g[i].sum = 0 <=> s[i].sum = 0 /\ t[k + 1 - i].sum = 0
        BY <3>1, <3>2
      <3>4. QED
        BY <1>5, <3>1, <3>3
    <2>3. \A i \in 1..k : Distinct(g[i].items)
      <3> SUFFICES ASSUME NEW i \in 1..k PROVE Distinct(g[i].items)
        OBVIOUS
      <3>1. /\ s[i].items \in Seq(S) /\ t[k + 1 - i].items \in Seq(S)
            /\ Distinct(s[i].items) /\ Distinct(t[k + 1 - i].items)
            /\ ToSet(s[i].items) \cap ToSet(t[k + 1 - i].items) = {}
        BY <1>1, <1>2, <1>7 DEF GroupsInv
      <3>2. g[i].items = s[i].items \o t[k + 1 - i].items
        BY <1>3
      <3> DEFINE a == s[i].items
                 b == t[k + 1 - i].items
      <3> HIDE DEF a, b
      <3>3. /\ a \in Seq(S) /\ b \in Seq(S) /\ g[i].items = a \o b
            /\ Distinct(a) /\ Distinct(b) /\ ToSet(a) \cap ToSet(b) = {}
        BY <3>1, <3>2 DEF a, b
      <3>4. Distinct(a \o b)
        BY <3>3, AppendedLists
      <3>5. QED
        BY <3>3, <3>4
    <2>4. ASSUME NEW i \in 1..k, NEW j \in 1..k, i # j
          PROVE  ToSet(g[i].items) \cap ToSet(g[j].items) = {}
      <3>1. k + 1 - i \in 1..k /\ k + 1 - j \in 1..k /\ k + 1 - i # k + 1 - j
        BY <2>4
      <3>2. /\ ToSet(s[i].items) \cap ToSet(s[j].items) = {}
            /\ ToSet(t[k + 1 - i].items) \cap ToSet(t[k + 1 - j].items) = {}
        BY <2>4, <3>1 DEF GroupsInv
      <3>3. /\ ToSet(s[i].items) \cap ToSet(t[k + 1 - j].items) = {}
            /\ ToSet(s[j].items) \cap ToSet(t[k + 1 - i].items) = {}
        BY <1>7, <3>1
      <3>4. /\ ToSet(g[i].items) = ToSet(s[i].items) \cup ToSet(t[k + 1 - i].items)
            /\ ToSet(g[j].items) = ToSet(s[j].items) \cup ToSet(t[k + 1 - j].items)
        BY <1>4
      <3>5. QED
        BY <3>2, <3>3, <3>4
    <2>5. QED
      BY <2>1, <2>2, <2>3, <2>4 DEF GroupsInv
  <1>9. Content(g) = Content(s) \cup Content(t)
    <2>1. ASSUME NEW x, x \in Content(g) PROVE x \in Content(s) \cup Content(t)
      <3>1. PICK i \in 1..k : x \in ToSet(g[i].items)
        BY <1>6, <2>1
      <3>2. x \in ToSet(s[i].items) \/ x \in ToSet(t[k + 1 - i].items)
        BY <1>4, <3>1
      <3>3. QED
        BY <1>1, <1>6, <3>2
    <2>2. ASSUME NEW x, x \in Content(s) PROVE x \in Content(g)
      BY <1>4, <1>6, <2>2
    <2>3. ASSUME NEW x, x \in Content(t) PROVE x \in Content(g)
      <3>1. PICK i \in 1..k : x \in ToSet(t[i].items)
        BY <1>6, <2>3
      <3>2. k + 1 - i \in 1..k /\ k + 1 - (k + 1 - i) = i
        OBVIOUS
      <3>3. x \in ToSet(g[k + 1 - i].items)
        BY <1>4, <3>1, <3>2
      <3>4. QED
        BY <1>6, <3>2, <3>3
    <2>4. QED
      BY <2>1, <2>2, <2>3
  <1>10. QED
    BY <1>3, <1>5, <1>8, <1>9

\* A state's samples are finite in number.
LEMMA ContentFinite ==
    ASSUME NEW k \in Nat, NEW n \in Nat, NEW s, GroupsInv(s, k, 1..n)
    PROVE  /\ Content(s) \subseteq 1..n
           /\ IsFiniteSet(Content(s)) /\ Cardinality(Content(s)) \in Nat
  <1>1. /\ \A x : x \in Content(s) <=> \E i \in 1..k : x \in ToSet(s[i].items)
        /\ \A i \in 1..k : ToSet(s[i].items) \subseteq 1..n
    <2>1. s \in [1..k -> Groups(1..n)]
      BY DEF GroupsInv
    <2>2. DOMAIN s = 1..k /\ \A i \in 1..k : ToSet(s[i].items) \subseteq 1..n
      BY <2>1, GroupType
    <2>3. QED
      BY <2>2, ContentIs
  <1>2. Content(s) \subseteq 1..n
    BY <1>1
  <1>3. IsFiniteSet(1..n)
    BY FS_Interval
  <1>4. IsFiniteSet(Content(s))
    BY <1>2, <1>3, FS_Subset
  <1>5. QED
    BY <1>2, <1>4, FS_CardinalityType

\* The merged state is a rearrangement of the joined groups.
LEMMA MergedIs ==
    ASSUME NEW k \in Nat, NEW S, NEW s, NEW t, GroupsInv(s, k, S), GroupsInv(t, k, S),
           Content(s) \cap Content(t) = {}, NEW m \in Merged(s, t)
    PROVE  /\ GroupsInv(m, k, S) /\ Descending(m, k)
           /\ Content(m) = Content(s) \cup Content(t)
           /\ \E p \in Injection(1..k, 1..k) : \A i \in 1..k :
                /\ p[i] \in 1..k
                /\ m[i].sum = s[p[i]].sum + t[k + 1 - p[i]].sum
                /\ m[i].items = <<>> <=> s[p[i]].items = <<>> /\ t[k + 1 - p[i]].items = <<>>
  <1> DEFINE g == [i \in 1..k |-> Joined(s[i], t[k + 1 - i])]
  <1>1. DOMAIN s = 1..k /\ Len(s) = k
    BY GroupType DEF GroupsInv
  <1>2. m \in HeaviestFirst(g)
    BY <1>1 DEF Merged
  <1>3. /\ GroupsInv(g, k, S) /\ Content(g) = Content(s) \cup Content(t)
        /\ \A i \in 1..k :
             /\ g[i].sum = s[i].sum + t[k + 1 - i].sum
             /\ g[i].items = <<>> <=> s[i].items = <<>> /\ t[k + 1 - i].items = <<>>
    BY JoinedGroups
  <1> HIDE DEF g
  <1>4. PICK p \in Injection(1..k, 1..k) : m = [i \in 1..k |-> g[p[i]]]
    BY <1>2, <1>3, HeaviestFirstIs
  <1>5. Descending(m, k)
    BY <1>2, <1>3, HeaviestFirstIs
  <1>6. GroupsInv(m, k, S) /\ Content(m) = Content(g)
    BY <1>3, <1>4, Rearranged
  <1>7. \A i \in 1..k : p[i] \in 1..k /\ m[i] = g[p[i]]
    BY <1>4, PermutationIs
  <1>8. \A i \in 1..k :
          /\ p[i] \in 1..k
          /\ m[i].sum = s[p[i]].sum + t[k + 1 - p[i]].sum
          /\ m[i].items = <<>> <=> s[p[i]].items = <<>> /\ t[k + 1 - p[i]].items = <<>>
    BY <1>3, <1>7
  <1>9. QED
    BY <1>3, <1>5, <1>6, <1>8

\* No group of the merged state is filled before those that are heavier, and as
\* many are filled as the two states have samples.
LEMMA MergedFilled ==
    ASSUME NEW k \in Nat, NEW n \in Nat, NEW s, NEW t,
           StateInv(s, k, 1..n), StateInv(t, k, 1..n),
           Content(s) \cap Content(t) = {}, NEW m \in Merged(s, t)
    PROVE  StateInv(m, k, 1..n) /\ Content(m) = Content(s) \cup Content(t)
  <1> DEFINE a == Cardinality(Content(s))
             b == Cardinality(Content(t))
             D == {i \in 1..k : m[i].items # <<>>}
             E == {i \in 1..k : i <= a \/ k + 1 - i <= b}
  <1>1. GroupsInv(s, k, 1..n) /\ GroupsInv(t, k, 1..n) /\ Filled(s, k) /\ Filled(t, k)
    BY DEF StateInv
  <1>2. a \in Nat /\ b \in Nat
    BY <1>1, ContentFinite
  <1>3. /\ GroupsInv(m, k, 1..n) /\ Descending(m, k)
        /\ Content(m) = Content(s) \cup Content(t)
    BY <1>1, MergedIs
  <1>4. PICK p \in Injection(1..k, 1..k) : \A i \in 1..k :
          /\ p[i] \in 1..k
          /\ m[i].sum = s[p[i]].sum + t[k + 1 - p[i]].sum
          /\ m[i].items = <<>> <=> s[p[i]].items = <<>> /\ t[k + 1 - p[i]].items = <<>>
    BY <1>1, MergedIs
  <1>5. \A i \in 1..k : m[i].items # <<>> <=> p[i] \in E
    <2>1. \A i \in 1..k : k + 1 - i \in 1..k
      OBVIOUS
    <2>2. /\ \A i \in 1..k : s[i].items # <<>> <=> i <= a
          /\ \A i \in 1..k : t[i].items # <<>> <=> i <= b
      BY <1>1 DEF Filled
    <2>3. QED
      BY <1>4, <2>1, <2>2
  <1>6. D = {i \in 1..k : p[i] \in E}
    <2> HIDE DEF E
    <2>1. QED
      BY <1>5
  <1>7. Cardinality(D) = Cardinality(E)
    <2>1. E \in SUBSET (1..k)
      OBVIOUS
    <2> HIDE DEF E, D
    <2>2. QED
      BY <1>6, <2>1, PermutedCount
  <1>8. D = 1..Cardinality(D)
    <2>1. ASSUME NEW i \in D, NEW j \in 1..k, j < i PROVE j \in D
      <3>1. /\ m[i].sum \in Nat /\ m[j].sum \in Nat
            /\ m[i].sum = 0 <=> m[i].items = <<>>
            /\ m[j].sum = 0 <=> m[j].items = <<>>
        BY <1>3, <2>1, GroupType DEF GroupsInv
      <3>2. m[j].sum >= m[i].sum
        BY <1>3, <2>1 DEF Descending
      <3>3. QED
        BY <2>1, <3>1, <3>2
    <2>2. D \in SUBSET (1..k)
      OBVIOUS
    <2> HIDE DEF D
    <2>3. QED
      BY <2>1, <2>2, DownClosed
  <1>9. Cardinality(Content(m)) = a + b
    <2>1. IsFiniteSet(Content(s)) /\ IsFiniteSet(Content(t))
      BY <1>1, ContentFinite
    <2>2. Cardinality(Content(s) \cup Content(t)) = a + b - Cardinality(Content(s) \cap Content(t))
      BY <2>1, FS_Union
    <2>3. Cardinality(Content(s) \cap Content(t)) = 0
      BY FS_EmptySet
    <2>4. QED
      BY <1>2, <1>3, <2>2, <2>3
  <1>10. \A i \in 1..k : i \in D <=> i <= a + b
    <2>1. CASE a + b >= k
      <3>1. E = 1..k
        BY <1>2, <2>1
      <3>2. Cardinality(1..k) = k
        BY FS_Interval
      <3>3. Cardinality(D) = k
        BY <1>7, <3>1, <3>2
      <3> HIDE DEF D, E, a, b
      <3>4. QED
        BY <1>2, <1>8, <2>1, <3>3
    <2>2. CASE a + b < k
      <3> HIDE DEF a, b
      <3> DEFINE A == 1..a
                 B == (k + 1 - b)..k
      <3>1. E = A \cup B /\ A \cap B = {}
        BY <1>2, <2>2
      <3>2. IsFiniteSet(A) /\ Cardinality(A) = a
        BY <1>2, FS_Interval
      <3>3. IsFiniteSet(B) /\ Cardinality(B) = b
        BY <1>2, FS_Interval
      <3>4. Cardinality(A \cap B) = 0
        BY <3>1, FS_EmptySet
      <3>5. Cardinality(A \cup B) = a + b
        <4> HIDE DEF A, B
        <4>1. Cardinality(A \cup B) = Cardinality(A) + Cardinality(B) - Cardinality(A \cap B)
          BY <3>2, <3>3, FS_Union
        <4>2. QED
          BY <1>2, <3>2, <3>3, <3>4, <4>1
      <3>6. Cardinality(D) = a + b
        BY <1>7, <3>1, <3>5
      <3> HIDE DEF D
      <3>7. QED
        BY <1>2, <1>8, <3>6
    <2>3. QED
      BY <1>2, <2>1, <2>2
  <1>11. Filled(m, k)
    BY <1>9, <1>10 DEF Filled
  <1>12. QED
    BY <1>3, <1>11 DEF StateInv

\* Joining heavy with light does not widen the spread.
LEMMA MergedWithin ==
    ASSUME NEW k \in Nat, NEW n \in Nat, NEW s, NEW t,
           StateInv(s, k, 1..n), StateInv(t, k, 1..n),
           Content(s) \cap Content(t) = {}, NEW m \in Merged(s, t),
           NEW w \in Nat, Within(s, k, w), Within(t, k, w)
    PROVE  Within(m, k, w)
  <1>1. GroupsInv(s, k, 1..n) /\ GroupsInv(t, k, 1..n)
    BY DEF StateInv
  <1>2. PICK p \in Injection(1..k, 1..k) : \A i \in 1..k :
          /\ p[i] \in 1..k
          /\ m[i].sum = s[p[i]].sum + t[k + 1 - p[i]].sum
          /\ m[i].items = <<>> <=> s[p[i]].items = <<>> /\ t[k + 1 - p[i]].items = <<>>
    BY <1>1, MergedIs
  <1>3. /\ \A i \in 1..k : s[i].sum \in Nat
        /\ \A i \in 1..k : t[i].sum \in Nat
    BY <1>1, GroupType DEF GroupsInv
  <1>4. \A x, y \in 1..k :
          (s[x].sum + t[k + 1 - x].sum) - (s[y].sum + t[k + 1 - y].sum) <= w
    <2> SUFFICES ASSUME NEW x \in 1..k, NEW y \in 1..k
                 PROVE  (s[x].sum + t[k + 1 - x].sum) - (s[y].sum + t[k + 1 - y].sum) <= w
      OBVIOUS
    <2>2. k + 1 - x \in 1..k /\ k + 1 - y \in 1..k
      OBVIOUS
    <2>3. /\ s[x].sum \in Nat /\ s[y].sum \in Nat
          /\ t[k + 1 - x].sum \in Nat /\ t[k + 1 - y].sum \in Nat
          /\ s[x].sum - s[y].sum <= w
          /\ t[k + 1 - x].sum - t[k + 1 - y].sum <= w
      BY <1>3, <2>2 DEF Within
    <2>4. CASE x < y
      <3>1. k + 1 - y < k + 1 - x
        BY <2>4
      <3>2. t[k + 1 - y].sum >= t[k + 1 - x].sum
        BY <2>2, <3>1 DEF StateInv, Descending
      <3>3. \A a, b, c, d \in Nat : a - b <= w /\ d >= c => (a + c) - (b + d) <= w
        OBVIOUS
      <3>4. QED
        BY <2>3, <3>2, <3>3
    <2>5. CASE y < x
      <3>1. s[y].sum >= s[x].sum
        BY <2>5 DEF StateInv, Descending
      <3>2. \A a, b, c, d \in Nat : c - d <= w /\ b >= a => (a + c) - (b + d) <= w
        OBVIOUS
      <3>3. QED
        BY <2>3, <3>1, <3>2
    <2>6. CASE x = y
      BY <2>3, <2>6
    <2>7. QED
      BY <2>4, <2>5, <2>6
  <1>5. QED
    BY <1>2, <1>4 DEF Within

\* A spread within w is within more.
LEMMA WithinMore ==
    ASSUME NEW k \in Nat, NEW n \in Nat, NEW u, StateInv(u, k, 1..n),
           NEW v \in Nat, NEW w \in Nat, v <= w, Within(u, k, v)
    PROVE  Within(u, k, w)
  <1>1. u \in [1..k -> Groups(1..n)]
    BY DEF StateInv, GroupsInv
  <1>2. \A i \in 1..k : u[i].sum \in Nat
    BY <1>1, GroupType
  <1>3. QED
    BY <1>2 DEF Within

\* A sample of its own is a state.
LEMMA SingleState ==
    ASSUME NEW k \in Nat \ {0}, NEW n \in Nat, NEW i \in 1..n, NEW w \in Nat \ {0}
    PROVE  /\ StateInv(Single(i, w, k), k, 1..n)
           /\ Content(Single(i, w, k)) = {i}
           /\ Within(Single(i, w, k), k, w)
  <1> DEFINE s == Single(i, w, k)
  <1>1. /\ DOMAIN s = 1..k
        /\ s[1] = [sum |-> w, items |-> <<i>>]
        /\ \A j \in 2..k : s[j] = [sum |-> 0, items |-> <<>>]
    BY DEF Single, EmptyGroup
  <1>2. /\ <<i>> \in Seq(1..n) /\ <<i>> # <<>> /\ Len(<<i>>) = 1 /\ <<i>>[1] = i
        /\ <<>> \in Seq(1..n) /\ Len(<<>>) = 0
    OBVIOUS
  <1>3. ToSet(<<i>>) = {i} /\ ToSet(<<>>) = {}
    <2>1. /\ \A x : x \in ToSet(<<i>>) <=> \E j \in 1..Len(<<i>>) : <<i>>[j] = x
          /\ ToSet(<<>>) = {}
      BY <1>2, ElementsOf
    <2>2. \A x : x \in ToSet(<<i>>) <=> x = i
      BY <1>2, <2>1
    <2>3. QED
      BY <2>1, <2>2
  <1>4. \A j \in 1..k : j = 1 \/ j \in 2..k
    OBVIOUS
  <1>5. s[1].sum = w /\ s[1].items = <<i>> /\ \A j \in 2..k : s[j].sum = 0 /\ s[j].items = <<>>
    BY <1>1
  <1>6. s \in [1..k -> Groups(1..n)]
    <2>1. [sum |-> w, items |-> <<i>>] \in Groups(1..n) /\ [sum |-> 0, items |-> <<>>] \in Groups(1..n)
      BY <1>2 DEF Groups
    <2>2. QED
      BY <2>1 DEF Single, EmptyGroup
  <1> HIDE DEF s
  <1>7. Distinct(<<i>>) /\ Distinct(<<>>)
    BY <1>2 DEF Distinct
  <1>8. GroupsInv(s, k, 1..n)
    <2>1. \A j \in 1..k : (s[j].sum = 0 <=> s[j].items = <<>>) /\ Distinct(s[j].items)
      BY <1>2, <1>4, <1>5, <1>7
    <2>2. \A j, l \in 1..k : j # l => ToSet(s[j].items) \cap ToSet(s[l].items) = {}
      BY <1>3, <1>4, <1>5
    <2>3. QED
      BY <1>6, <2>1, <2>2 DEF GroupsInv
  <1>9. Content(s) = {i}
    <2>1. \A x : x \in Content(s) <=> \E j \in 1..k : x \in ToSet(s[j].items)
      BY <1>1, ContentIs
    <2>2. \A x : x \in Content(s) <=> x = i
      BY <1>3, <1>4, <1>5, <2>1
    <2>3. QED
      BY <2>2
  <1>10. Filled(s, k)
    <2>1. Cardinality(Content(s)) = 1
      BY <1>9, FS_Singleton
    <2>2. QED
      BY <1>2, <1>4, <1>5, <2>1 DEF Filled
  <1>11. Descending(s, k) /\ Within(s, k, w)
    BY <1>4, <1>5 DEF Descending, Within
  <1>12. QED
    BY <1>8, <1>9, <1>10, <1>11 DEF StateInv, s

-----------------------------------------------------------------------------
(* The counts.                                                              *)

\* A set of numbers up to n has a least element, if any: the greatest number
\* below or equal to all of them.
LEMMA LeastOf ==
    ASSUME NEW n \in Nat, NEW D \in SUBSET (0..n), D # {}
    PROVE  \E m \in D : \A x \in D : m <= x
  <1> DEFINE B == {b \in 0..n : \A x \in D : b <= x}
  <1>1. IsFiniteSet(0..n)
    BY FS_Interval
  <1>2. IsFiniteSet(B) /\ B \in SUBSET Int
    <2>1. B \subseteq 0..n
      OBVIOUS
    <2> HIDE DEF B
    <2>2. IsFiniteSet(B)
      BY <1>1, <2>1, FS_Subset
    <2>3. QED
      BY <2>1, <2>2
  <1>3. 0 \in B
    OBVIOUS
  <1>4. PICK m \in B : \A b \in B : b <= m
    <2> HIDE DEF B
    <2>1. QED
      BY <1>2, <1>3, GreatestOf
  <1>5. m \in D
    <2> SUFFICES ASSUME m \notin D PROVE FALSE
      OBVIOUS
    <2>1. \A x \in D : m + 1 <= x
      OBVIOUS
    <2>2. PICK d \in D : d \in 0..n
      OBVIOUS
    <2>3. m + 1 \in 0..n
      BY <2>1, <2>2
    <2>4. m + 1 \in B
      BY <2>1, <2>3
    <2>5. QED
      BY <1>4, <2>4
  <1>6. QED
    BY <1>5

\* f sums the lengths of the samples of b up to the n-th.
SumsUpTo(f, b, n) ==
    f = [m \in 0..n |-> IF m = 0 THEN 0 ELSE f[m - 1] + b[m].len]

\* There is such a function.
LEMMA SumsExist ==
    ASSUME NEW b, NEW n \in Nat
    PROVE  \E f : SumsUpTo(f, b, n)
  <1> DEFINE Bad == {m \in 0..n : ~ \E f : SumsUpTo(f, b, m)}
  <1> SUFFICES ASSUME Bad # {} PROVE FALSE
    OBVIOUS
  <1>1. PICK m \in Bad : \A x \in Bad : m <= x
    <2>1. Bad \in SUBSET (0..n)
      OBVIOUS
    <2> HIDE DEF Bad
    <2>2. QED
      BY <2>1, LeastOf
  <1>2. CASE m = 0
    <2> DEFINE f == [l \in 0..0 |-> 0]
    <2>1. \A l \in 0..0 : l = 0
      OBVIOUS
    <2>2. SumsUpTo(f, b, 0)
      BY <2>1 DEF SumsUpTo
    <2> HIDE DEF f
    <2>3. QED
      BY <1>2, <2>2
  <1>3. CASE m # 0
    <2>1. m \in 1..n /\ m - 1 \in 0..n /\ ~(m <= m - 1)
      BY <1>3
    <2>2. m - 1 \notin Bad
      BY <1>1, <2>1
    <2>3. PICK g : SumsUpTo(g, b, m - 1)
      BY <2>1, <2>2
    <2> DEFINE f == [l \in 0..m |-> IF l = m THEN g[m - 1] + b[m].len ELSE g[l]]
    <2>4. \A l \in 0..(m - 1) : g[l] = IF l = 0 THEN 0 ELSE g[l - 1] + b[l].len
      BY <2>3 DEF SumsUpTo
    <2>5. \A l \in 0..m : l = m \/ l \in 0..(m - 1)
      BY <2>1
    <2>6. \A l \in 0..(m - 1) : l # m /\ l \in 0..m
      BY <2>1
    <2>7. \A l \in 0..m : l # 0 => l - 1 \in 0..(m - 1)
      BY <2>1
    <2>8. \A l \in 0..(m - 1) : f[l] = g[l]
      BY <2>6
    <2>9. f[m] = g[m - 1] + b[m].len
      BY <2>1
    <2> HIDE DEF f
    <2>10. \A l \in 0..m : f[l] = IF l = 0 THEN 0 ELSE f[l - 1] + b[l].len
      BY <2>1, <2>4, <2>5, <2>7, <2>8, <2>9
    <2>11. f = [l \in 0..m |-> IF l = 0 THEN 0 ELSE f[l - 1] + b[l].len]
      <3>1. f = [l \in 0..m |-> f[l]]
        BY DEF f
      <3>2. QED
        BY <2>10, <3>1
    <2>12. SumsUpTo(f, b, m)
      BY <2>11 DEF SumsUpTo
    <2>13. QED
      BY <2>12
  <1>4. QED
    BY <1>2, <1>3

\* The tokens of a batch: one at least.
LEMMA TotalIs ==
    ASSUME NEW b \in Batches
    PROVE  TotalLen(b) \in Nat \ {0}
  <1> DEFINE n == Len(b)
             f == CHOOSE g : SumsUpTo(g, b, n)
             Bad == {m \in 0..n : ~(f[m] \in Nat /\ (m # 0 => f[m] # 0))}
  <1>1. /\ n \in Nat \ {0}
        /\ \A i \in 1..n : b[i].len \in Nat \ {0}
    <2>1. b \in Seq([len : Nat \ {0}, tagged : BOOLEAN]) /\ Len(b) > 0
      BY BatchesAssumption
    <2>2. \A i \in 1..Len(b) : b[i] \in [len : Nat \ {0}, tagged : BOOLEAN]
      <3> DEFINE T == [len : Nat \ {0}, tagged : BOOLEAN]
      <3> HIDE DEF T
      <3>1. b \in Seq(T)
        BY <2>1 DEF T
      <3>2. \A i \in 1..Len(b) : b[i] \in T
        BY <3>1
      <3>3. QED
        BY <3>2 DEF T
    <2>3. Len(b) \in Nat
      BY <2>1
    <2>4. QED
      BY <2>1, <2>2, <2>3
  <1>2. TotalLen(b) = f[n]
    BY DEF TotalLen, SumsUpTo
  <1>3. SumsUpTo(f, b, n)
    BY <1>1, SumsExist
  <1>4. \A m \in 0..n : f[m] = IF m = 0 THEN 0 ELSE f[m - 1] + b[m].len
    <2> HIDE DEF f
    <2>1. QED
      BY <1>3 DEF SumsUpTo
  <1> HIDE DEF n, f
  <1>5. Bad = {}
    <2> SUFFICES ASSUME Bad # {} PROVE FALSE
      OBVIOUS
    <2>1. PICK m \in Bad : \A x \in Bad : m <= x
      <3>1. Bad \in SUBSET (0..n)
        OBVIOUS
      <3> HIDE DEF Bad
      <3>2. QED
        BY <1>1, <3>1, LeastOf
    <2>2. m # 0
      BY <1>4, <1>1
    <2>3. m \in 1..n /\ m - 1 \in 0..n /\ ~(m <= m - 1)
      BY <1>1, <2>2
    <2>4. f[m - 1] \in Nat
      BY <2>1, <2>3
    <2>5. f[m] = f[m - 1] + b[m].len /\ b[m].len \in Nat \ {0}
      BY <1>1, <1>4, <2>3
    <2>6. QED
      BY <2>1, <2>4, <2>5
  <1>6. n \in 0..n /\ n # 0
    BY <1>1
  <1>7. QED
    BY <1>2, <1>5, <1>6

\* Rounded up, a division by a positive number leaves one at least.
LEMMA CeilDivIs ==
    ASSUME NEW a \in Nat \ {0}, NEW b \in Nat \ {0}
    PROVE  CeilDiv(a, b) \in Nat \ {0}
  <1> DEFINE x == a + b - 1
  <1>1. x \in Nat /\ x >= b
    OBVIOUS
  <1>2. x \div b \in Int /\ x = b * (x \div b) + (x % b) /\ x % b \in 0..(b - 1)
    BY <1>1
  <1> DEFINE q == x \div b
  <1>3. q >= 1
    <2> HIDE DEF q, x
    <2>1. SUFFICES ASSUME q <= 0 PROVE FALSE
      BY <1>2 DEF q
    <2>2. q \in Int /\ b * q <= 0
      BY <1>2, <2>1 DEF q
    <2>3. x <= x % b
      BY <1>1, <1>2, <2>2 DEF q
    <2>4. QED
      BY <1>1, <1>2, <2>3
  <1>4. QED
    BY <1>2, <1>3 DEF CeilDiv

\* The count a rank comes to is one its batch can fill.
LEMMA OwnCountIs ==
    ASSUME NEW r, batch[r] \in Batches, mode.limit \in Nat \ {0}
    PROVE  OwnCount(r) \in 1..Len(batch[r])
  <1>1. TotalLen(batch[r]) \in Nat \ {0}
    BY TotalIs
  <1>2. CeilDiv(TotalLen(batch[r]), mode.limit) \in Nat \ {0}
    BY <1>1, CeilDivIs
  <1>3. Len(batch[r]) \in Nat \ {0}
    BY BatchesAssumption
  <1>4. QED
    BY <1>2, <1>3 DEF OwnCount

\* The agreed count is the greatest of the ranks' counts.
LEMMA AgreedCountIs ==
    ASSUME \A r \in Ranks : count[r] \in Int
    PROVE  \E r \in Ranks : AgreedCount = count[r]
  <1> DEFINE f == [r \in Ranks |-> count[r]]
             D == {f[r] : r \in Ranks}
  <1>1. IsFiniteSet(D)
    <2>1. f \in Surjection(Ranks, D)
      BY DEF Surjection
    <2> HIDE DEF f, D
    <2>2. QED
      BY <2>1, RanksAssumption, FS_Surjection
  <1>2. D \in SUBSET Int /\ D # {}
    BY RanksAssumption
  <1>3. \E n \in D : \A x \in D : x <= n
    <2> HIDE DEF D
    <2>1. QED
      BY <1>1, <1>2, GreatestOf
  <1>4. \E n \in {count[r] : r \in Ranks} : \A r \in Ranks : count[r] <= n
    BY <1>3
  <1>5. AgreedCount \in {count[r] : r \in Ranks}
    BY <1>4 DEF AgreedCount
  <1>6. QED
    BY <1>5

\* The workload of a sample is not zero.
LEMMA WorkloadIs ==
    ASSUME NEW l \in Nat \ {0}
    PROVE  Workload(l) \in Nat \ {0}
  <1>1. l * l \in Nat
    OBVIOUS
  <1>2. 24576 * l \in Nat \ {0}
    OBVIOUS
  <1>3. QED
    BY <1>1, <1>2 DEF Workload

-----------------------------------------------------------------------------
(* From the last state to micro-batches.                                    *)

\* Sorting a group's samples keeps them, each once.
LEMMA SortedIs ==
    ASSUME NEW n \in Nat, NEW g, g.items \in Seq(1..n)
    PROVE  /\ Sorted(g) \in Seq(1..n)
           /\ Distinct(Sorted(g))
           /\ ToSet(Sorted(g)) = ToSet(g.items)
           /\ g.items # <<>> => Sorted(g) # <<>>
  <1> DEFINE S == ToSet(g.items)
             k == Cardinality(S)
             q == Sorted(g)
  <1>1. S \in SUBSET Int /\ S \subseteq 1..n /\ (g.items = <<>> <=> S = {})
    BY ElementsOf
  <1>2. IsFiniteSet(S)
    <2>1. IsFiniteSet(1..n)
      BY FS_Interval
    <2>2. QED
      BY <1>1, <2>1, FS_Subset
  <1>3. q = CHOOSE o \in [1..k -> S] : \A i, j \in DOMAIN o : i < j => o[i] < o[j]
    BY DEF Sorted
  <1> HIDE DEF S, q
  <1>4. k \in Nat /\ (S # {} => k # 0)
    BY <1>2, FS_CardinalityType, FS_EmptySet
  <1>5. q \in [1..k -> S] /\ \A i, j \in 1..k : i < j => q[i] < q[j]
    <2>1. \E o \in [1..k -> S] : \A i, j \in DOMAIN o : i < j => o[i] < o[j]
      BY <1>1, <1>2, IncreasingExists DEF Increasing
    <2> HIDE DEF k
    <2>2. q \in [1..k -> S] /\ \A i, j \in DOMAIN q : i < j => q[i] < q[j]
      BY <1>3, <2>1
    <2>3. QED
      BY <2>2
  <1>6. \A i, j \in 1..k : q[i] = q[j] => i = j
    <2>1. \A i \in 1..k : q[i] \in Int
      BY <1>1, <1>5
    <2> HIDE DEF k
    <2>2. QED
      BY <1>5, <2>1
  <1>7. \A x \in S : \E i \in 1..k : q[i] = x
    <2>1. q \in Injection(1..k, S)
      BY <1>5, <1>6 DEF Injection, IsInjective
    <2>2. IsFiniteSet(1..k) /\ Cardinality(1..k) = Cardinality(S)
      BY <1>4, FS_Interval
    <2>3. q \in Surjection(1..k, S)
      BY <1>2, <2>1, <2>2, FS_Injection
    <2>4. QED
      BY <2>3 DEF Surjection
  <1> HIDE DEF k
  <1>8. q \in Seq(1..n) /\ Len(q) = k
    <2>1. k \in Nat /\ DOMAIN q = 1..k
      BY <1>4, <1>5
    <2>2. q \in [1..k -> 1..n]
      BY <1>1, <1>5
    <2>3. q \in Seq(1..n)
      BY <2>1, <2>2
    <2>4. QED
      BY <2>1, <2>3, LenProperties
  <1>9. Distinct(q)
    BY <1>6, <1>8 DEF Distinct
  <1>10. ToSet(q) = S
    <2>1. \A x : x \in ToSet(q) <=> \E i \in 1..Len(q) : q[i] = x
      BY <1>8, ElementsOf
    <2>2. QED
      BY <1>5, <1>7, <1>8, <2>1
  <1>11. g.items # <<>> => q # <<>>
    BY <1>1, <1>4, <1>8
  <1>12. QED
    BY <1>8, <1>9, <1>10, <1>11 DEF S, q

\* Light micro-batches first and last is a rearrangement.
LEMMA LightOutsideIs ==
    ASSUME NEW k \in Nat, NEW S, NEW w \in [1..k -> Groups(S)]
    PROVE  \E p \in Injection(1..k, 1..k) : LightOutside(w) = [i \in 1..k |-> w[p[i]]]
  <1> DEFINE half == (k + 1) \div 2
             p == [i \in 1..k |-> IF i <= half THEN 2 * (half - i) + 1 ELSE 2 * (i - half)]
  <1>1. Len(w) = k
    BY GroupType
  <1>2. half \in Nat /\ 2 * half <= k + 1 /\ k <= 2 * half
    OBVIOUS
  <1>3. LightOutside(w) = [i \in 1..k |-> w[p[i]]]
    <2>1. \A i \in 1..k : w[p[i]] = IF i <= half THEN w[2 * (half - i) + 1]
                                                  ELSE w[2 * (i - half)]
      OBVIOUS
    <2> HIDE DEF p
    <2>2. QED
      BY <1>1, <2>1 DEF LightOutside
  <1> HIDE DEF half
  <1>4. p \in [1..k -> 1..k]
    BY <1>2
  <1>5. \A i, j \in 1..k : p[i] = p[j] => i = j
    BY <1>2
  <1>6. p \in Injection(1..k, 1..k)
    <2> HIDE DEF p
    <2>1. QED
      BY <1>4, <1>5 DEF Injection, IsInjective
  <1>7. QED
    BY <1>3, <1>6

\* The micro-batches of a state without an empty group are a partition of its
\* samples.
LEMMA ScheduledParts ==
    ASSUME NEW k \in Nat, NEW n \in Nat, NEW s, GroupsInv(s, k, 1..n),
           \A i \in 1..k : s[i].items # <<>>,
           \A i \in 1..n : i \in Content(s),
           NEW w \in ByWorkload(s)
    PROVE  Parts([i \in DOMAIN w |-> Sorted(LightOutside(w)[i])], 1..n)
  <1>1. DOMAIN s = 1..k
    BY DEF GroupsInv
  <1>2. PICK p \in Injection(1..k, 1..k) : w = [i \in 1..k |-> s[p[i]]]
    BY <1>1 DEF ByWorkload, Orders
  <1>3. GroupsInv(w, k, 1..n) /\ Content(w) = Content(s)
    BY <1>2, Rearranged
  <1>4. \A i \in 1..k : w[i].items # <<>>
    <2>1. \A i \in 1..k : p[i] \in 1..k
      BY PermutationIs
    <2>2. QED
      BY <1>2, <2>1
  <1>5. w \in [1..k -> Groups(1..n)]
    BY <1>3 DEF GroupsInv
  <1>6. PICK o \in Injection(1..k, 1..k) : LightOutside(w) = [i \in 1..k |-> w[o[i]]]
    BY <1>5, LightOutsideIs
  <1> DEFINE v == LightOutside(w)
             q == [i \in DOMAIN w |-> Sorted(v[i])]
  <1>7. v = [i \in 1..k |-> w[o[i]]]
    BY <1>6
  <1> HIDE DEF v
  <1>8. GroupsInv(v, k, 1..n) /\ Content(v) = Content(s)
    BY <1>3, <1>7, Rearranged
  <1>9. \A i \in 1..k : v[i].items # <<>>
    <2>1. \A i \in 1..k : o[i] \in 1..k
      BY PermutationIs
    <2>2. QED
      BY <1>4, <1>7, <2>1
  <1>10. DOMAIN v = 1..k /\ \A i \in 1..k : v[i].items \in Seq(1..n)
    BY <1>8, GroupType DEF GroupsInv
  <1>11. DOMAIN q = 1..k /\ \A i \in 1..k : q[i] = Sorted(v[i])
    BY <1>5
  <1> HIDE DEF q
  <1>12. \A i \in 1..k : /\ q[i] \in Seq(1..n) /\ Distinct(q[i]) /\ q[i] # <<>>
                         /\ ToSet(q[i]) = ToSet(v[i].items)
    BY <1>9, <1>10, <1>11, SortedIs
  <1>13. q \in Seq(Seq(1..n))
    <2>1. q = [i \in 1..k |-> q[i]]
      BY <1>5 DEF q
    <2>2. q \in [1..k -> Seq(1..n)]
      BY <1>12, <2>1
    <2>3. QED
      BY <2>2
  <1>14. \A i, j \in 1..k : i # j => ToSet(q[i]) \cap ToSet(q[j]) = {}
    BY <1>8, <1>12 DEF GroupsInv
  <1>15. \A i \in 1..n : \E c \in 1..k : i \in ToSet(q[c])
    <2>1. \A x : x \in Content(v) <=> \E i \in 1..k : x \in ToSet(v[i].items)
      BY <1>10, ContentIs
    <2>2. QED
      BY <1>8, <1>12, <2>1
  <1>16. Parts(q, 1..n)
    BY <1>11, <1>12, <1>13, <1>14, <1>15 DEF Parts
  <1>17. QED
    BY <1>16 DEF q, v

\* A chunk's samples follow those of the chunks before it.
LEMMA ChunkBounds ==
    ASSUME NEW size \in Nat, NEW c \in Nat \ {0}, NEW d \in Nat, c <= d
    PROVE  /\ c * size \in Nat /\ (c - 1) * size \in Nat /\ d * size \in Nat
           /\ c * size = (c - 1) * size + size
           /\ c * size <= d * size
  <1>1. /\ c * size \in Nat /\ (c - 1) * size \in Nat /\ d * size \in Nat
        /\ c * size = (c - 1) * size + size
    OBVIOUS
  <1>2. d * size = c * size + (d - c) * size /\ (d - c) * size \in Nat
    OBVIOUS
  <1>3. QED
    BY <1>1, <1>2

\* Equal and contiguous chunks of a batch are a partition of it.
LEMMA ChunkParts ==
    ASSUME NEW n \in Nat \ {0}, NEW k \in Nat \ {0}, NEW size \in Nat, n = k * size
    PROVE  Parts([c \in 1..k |-> [i \in 1..size |-> (c - 1) * size + i]], 1..n)
  <1> DEFINE q == [c \in 1..k |-> [i \in 1..size |-> (c - 1) * size + i]]
  <1>1. size # 0
    OBVIOUS
  <1>2. \A c \in 1..k : /\ c * size = (c - 1) * size + size
                        /\ (c - 1) * size \in Nat /\ c * size <= n
    BY ChunkBounds
  <1>3. \A c \in 1..k : \A i \in 1..size : q[c][i] = (c - 1) * size + i
    OBVIOUS
  <1>4. \A c \in 1..k : \A i \in 1..size : (c - 1) * size + i \in 1..n
    BY <1>2
  <1>5. \A c \in 1..k : q[c] \in Seq(1..n) /\ Len(q[c]) = size
    <2> SUFFICES ASSUME NEW c \in 1..k PROVE q[c] \in Seq(1..n) /\ Len(q[c]) = size
      OBVIOUS
    <2>1. q[c] = [i \in 1..size |-> (c - 1) * size + i]
      OBVIOUS
    <2>2. q[c] \in [1..size -> 1..n]
      BY <1>4, <2>1
    <2> HIDE DEF q
    <2>3. QED
      BY <2>2
  <1>6. q \in Seq(Seq(1..n)) /\ DOMAIN q = 1..k
    <2>1. q \in [1..k -> Seq(1..n)]
      BY <1>5
    <2> HIDE DEF q
    <2>2. QED
      BY <2>1
  <1> HIDE DEF q
  <1>7. \A c \in 1..k : q[c] # <<>> /\ Distinct(q[c])
    <2> SUFFICES ASSUME NEW c \in 1..k PROVE q[c] # <<>> /\ Distinct(q[c])
      OBVIOUS
    <2>1. q[c] # <<>>
      BY <1>1, <1>5
    <2>2. ASSUME NEW i \in 1..size, NEW j \in 1..size, q[c][i] = q[c][j] PROVE i = j
      <3>1. (c - 1) * size + i = (c - 1) * size + j /\ (c - 1) * size \in Nat
        BY <1>2, <1>3, <2>2
      <3> DEFINE z == (c - 1) * size
      <3> HIDE DEF z
      <3>2. z + i = z + j /\ z \in Nat
        BY <3>1 DEF z
      <3>3. QED
        BY <3>2
    <2>3. QED
      BY <1>5, <2>1, <2>2 DEF Distinct
  <1>8. \A c \in 1..k : \A x : x \in ToSet(q[c]) <=> \E i \in 1..size : x = (c - 1) * size + i
    <2> SUFFICES ASSUME NEW c \in 1..k
                 PROVE  \A x : x \in ToSet(q[c]) <=> \E i \in 1..size : x = (c - 1) * size + i
      OBVIOUS
    <2>1. \A x : x \in ToSet(q[c]) <=> \E i \in 1..Len(q[c]) : q[c][i] = x
      BY <1>5, ElementsOf
    <2>2. \A i \in 1..size : q[c][i] = (c - 1) * size + i
      BY <1>3
    <2>3. Len(q[c]) = size
      BY <1>5
    <2> DEFINE y == q[c]
               z == (c - 1) * size
    <2> HIDE DEF y, z
    <2>4. /\ \A x : x \in ToSet(y) <=> \E i \in 1..size : y[i] = x
          /\ \A i \in 1..size : y[i] = z + i
      BY <2>1, <2>2, <2>3 DEF y, z
    <2>5. \A x : x \in ToSet(y) <=> \E i \in 1..size : x = z + i
      BY <2>4
    <2>6. QED
      BY <2>5 DEF y, z
  <1>9. ASSUME NEW c \in 1..k, NEW d \in 1..k, c < d
        PROVE  ToSet(q[c]) \cap ToSet(q[d]) = {}
    <2>1. d - 1 \in Nat /\ c <= d - 1
      BY <1>9
    <2>2. c * size = (c - 1) * size + size /\ c * size <= (d - 1) * size
      BY <2>1, ChunkBounds
    <2>3. (c - 1) * size \in Nat /\ (d - 1) * size \in Nat
      BY <2>1
    <2> DEFINE y == (c - 1) * size
               z == (d - 1) * size
    <2>4. /\ \A x : x \in ToSet(q[c]) <=> \E i \in 1..size : x = y + i
          /\ \A x : x \in ToSet(q[d]) <=> \E i \in 1..size : x = z + i
      BY <1>8
    <2>5. y \in Nat /\ z \in Nat /\ y + size <= z
      BY <2>2, <2>3
    <2> HIDE DEF y, z
    <2>6. \A i, j \in 1..size : y + i # z + j
      BY <2>5
    <2>7. QED
      BY <2>4, <2>6
  <1>10. \A c, d \in 1..k : c # d => ToSet(q[c]) \cap ToSet(q[d]) = {}
    <2>1. \A c, d \in 1..k : c < d \/ d < c \/ c = d
      OBVIOUS
    <2>2. QED
      BY <1>9, <2>1
  <1>11. \A x \in 1..n : \E c \in 1..k : x \in ToSet(q[c])
    <2> SUFFICES ASSUME NEW x \in 1..n PROVE \E c \in 1..k : x \in ToSet(q[c])
      OBVIOUS
    <2> DEFINE d == (x - 1) \div size
               j == (x - 1) % size
    <2>1. d \in Int /\ x - 1 = size * d + j /\ j \in 0..(size - 1)
      BY <1>1
    <2> HIDE DEF d, j
    <2>2. d >= 0
      <3> SUFFICES ASSUME d <= -1 PROVE FALSE
        BY <2>1
      <3>1. size * d <= size * (-1)
        BY <2>1, <1>1
      <3>2. QED
        BY <2>1, <3>1
    <2>3. d < k
      <3> SUFFICES ASSUME k <= d PROVE FALSE
        BY <2>1
      <3>1. k * size <= d * size /\ d * size = size * d
        BY <2>1, <2>2, ChunkBounds
      <3>2. QED
        BY <2>1, <3>1
    <2>4. d + 1 \in 1..k /\ j + 1 \in 1..size
      BY <2>1, <2>2, <2>3
    <2>5. x = ((d + 1) - 1) * size + (j + 1)
      BY <2>1
    <2>6. QED
      BY <1>8, <2>4, <2>5
  <1>12. Parts(q, 1..n)
    BY <1>6, <1>7, <1>10, <1>11 DEF Parts
  <1>13. QED
    BY <1>12 DEF q

-----------------------------------------------------------------------------
(* The invariant, rank by rank.                                             *)

\* What TypeOK says of one rank.
RankTypes(r) ==
    /\ micro[r] \in Seq(Seq(Samples(r)))
    /\ output[r] \in [log_probs : Seq(Samples(r)), tags : Seq(Samples(r))]
    /\ \A s \in heap[r] : s \in [1..count[r] -> Groups(Samples(r))]

Typed ==
    /\ pc \in [Ranks -> PCs]
    /\ mode \in [dynamic : BOOLEAN, training : BOOLEAN, limit : Limits \cup Sizes]
    /\ batch \in [Ranks -> Batches]
    /\ count \in [Ranks -> Nat]
    /\ ran \in [Ranks -> Nat]
    /\ DOMAIN heap = Ranks /\ DOMAIN micro = Ranks /\ DOMAIN output = Ranks

\* Why a rank raises, and how its rows are aligned.
Cause(r) ==
    \/ mode.dynamic /\ TooLong(r)
    \/ ~mode.dynamic /\ ~Divisible(r)
    \/ /\ ~mode.training
       /\ \E i, j \in Samples(r) : batch[r][i].tagged /\ ~batch[r][j].tagged

Aligned(r) ==
    /\ Len(output[r].log_probs) = Len(batch[r])
    /\ ToSet(output[r].log_probs) = Samples(r)
    /\ mode.dynamic \/ \A i \in Samples(r) : output[r].log_probs[i] = i
    /\ output[r].tags \in {<<>>, output[r].log_probs}

\* The invariant in these terms.
LEMMA IInvParts ==
    IInv <=> /\ Typed /\ SameLength /\ LimitInv
             /\ \A r \in Ranks : RankTypes(r) /\ RankInv(r)
             /\ \A r \in Ranks : pc[r] = "raised" => Cause(r)
             /\ \A r \in Ranks : pc[r] = "returned" /\ ~mode.training => Aligned(r)
  <1>1. TypeOK <=> Typed /\ \A r \in Ranks : RankTypes(r)
    BY DEF TypeOK, Typed, RankTypes, Groups
  <1>2. RaisesForCause <=> \A r \in Ranks : pc[r] = "raised" => Cause(r)
    BY DEF RaisesForCause, Cause
  <1>3. RowsAligned <=> \A r \in Ranks : pc[r] = "returned" /\ ~mode.training => Aligned(r)
    BY DEF RowsAligned, Aligned
  <1>4. QED
    BY <1>1, <1>2, <1>3 DEF IInv

\* A batch is not empty, and no sample of it.
LEMMA BatchIs ==
    ASSUME Typed, NEW r \in Ranks
    PROVE  /\ batch[r] \in Batches
           /\ Len(batch[r]) \in Nat \ {0}
           /\ Samples(r) = 1..Len(batch[r])
           /\ \A i \in Samples(r) :
                /\ batch[r][i].len \in Nat \ {0}
                /\ batch[r][i].tagged \in BOOLEAN
                /\ Workload(batch[r][i].len) \in Nat \ {0}
  <1> DEFINE T == [len : Nat \ {0}, tagged : BOOLEAN]
  <1>1. batch[r] \in Batches
    BY DEF Typed
  <1>2. batch[r] \in Seq(T) /\ Len(batch[r]) > 0
    BY <1>1, BatchesAssumption
  <1>a. \A x \in T : x.len \in Nat \ {0} /\ x.tagged \in BOOLEAN
    OBVIOUS
  <1> HIDE DEF T
  <1>3. \A i \in 1..Len(batch[r]) : batch[r][i] \in T
    BY <1>2
  <1>4. \A i \in 1..Len(batch[r]) : batch[r][i].len \in Nat \ {0} /\ batch[r][i].tagged \in BOOLEAN
    BY <1>a, <1>3
  <1>5. Len(batch[r]) \in Nat \ {0}
    BY <1>2
  <1>6. QED
    BY <1>1, <1>4, <1>5, WorkloadIs DEF Samples

\* The limit is a positive number.
LEMMA LimitIs ==
    ASSUME LimitInv
    PROVE  mode.limit \in Nat \ {0}
  BY LimitsAssumption, SizesAssumption DEF LimitInv

\* What a step leaves to a rank.
Same(r) ==
    /\ pc'[r] = pc[r] /\ count'[r] = count[r] /\ heap'[r] = heap[r]
    /\ micro'[r] = micro[r] /\ ran'[r] = ran[r] /\ output'[r] = output[r]

Given == batch' = batch /\ mode' = mode

\* Nothing of a rank's invariant is about another rank.
LEMMA SameRank ==
    ASSUME NEW r \in Ranks, RankTypes(r), RankInv(r), Given, Same(r)
    PROVE  RankTypes(r)' /\ RankInv(r)'
  <1>1. Samples(r)' = Samples(r)
    BY DEF Given, Samples
  <1>2. RankTypes(r)'
    BY <1>1 DEF Given, Same, RankTypes
  <1>3. StageInv(r)' /\ HeapInv(r)'
    BY <1>1 DEF Given, Same, RankInv, StageInv, HeapInv
  <1>4. DoneInv(r)'
    BY <1>1 DEF Given, Same, RankInv, DoneInv, TagsInv
  <1>5. RunInv(r)'
    BY <1>1 DEF Given, Same, RankInv, RunInv, TagsInv, Divisible, Size, Chunks
  <1>6. QED
    BY <1>2, <1>3, <1>4, <1>5 DEF RankInv

\* A step keeps the invariant when it does for every rank, and the ranks that
\* raise or return then may.
LEMMA AllMoved ==
    ASSUME IInv, Given, Typed',
           \A r \in Ranks : RankTypes(r)' /\ RankInv(r)',
           \A r \in Ranks : pc'[r] = "raised" => pc[r] = "raised" \/ Cause(r),
           \A r \in Ranks : pc'[r] = "returned" /\ ~mode.training =>
               Aligned(r)' \/ (pc[r] = "returned" /\ output'[r] = output[r])
    PROVE  IInv'
  <1>1. SameLength' /\ LimitInv'
    BY DEF IInv, Given, SameLength, LimitInv
  <1>2. \A r \in Ranks : Cause(r)' <=> Cause(r)
    BY DEF Given, Cause, TooLong, Divisible, Chunks, Samples
  <1>3. \A r \in Ranks : pc'[r] = "raised" => Cause(r)'
    BY <1>2, IInvParts
  <1>4. ASSUME NEW r \in Ranks, pc'[r] = "returned", ~mode'.training PROVE Aligned(r)'
    <2>1. CASE pc[r] = "returned" /\ output'[r] = output[r]
      <3>1. Aligned(r)
        BY <1>4, <2>1, IInvParts DEF Given
      <3>2. QED
        BY <2>1, <3>1 DEF Given, Aligned, Samples
    <2>2. QED
      BY <1>4, <2>1 DEF Given
  <1> DEFINE P == /\ Typed /\ SameLength /\ LimitInv
                  /\ \A r \in Ranks : RankTypes(r) /\ RankInv(r)
                  /\ \A r \in Ranks : pc[r] = "raised" => Cause(r)
                  /\ \A r \in Ranks : pc[r] = "returned" /\ ~mode.training => Aligned(r)
  <1>5. P'
    BY <1>1, <1>3, <1>4
  <1>6. (IInv <=> P)'
    BY IInvParts, PTL
  <1>7. QED
    BY <1>5, <1>6

\* A step of one rank.
LEMMA OneMoved ==
    ASSUME IInv, Given, Typed', NEW r \in Ranks,
           \A q \in Ranks \ {r} : Same(q),
           RankTypes(r)', RankInv(r)',
           pc'[r] = "raised" => Cause(r),
           pc'[r] # "returned"
    PROVE  IInv'
  <1>1. \A q \in Ranks : RankTypes(q)' /\ RankInv(q)'
    BY SameRank, IInvParts
  <1>2. \A q \in Ranks : pc'[q] = "raised" => pc[q] = "raised" \/ Cause(q)
    BY DEF Same
  <1>3. \A q \in Ranks : pc'[q] = "returned" => pc[q] = "returned" /\ output'[q] = output[q]
    BY DEF Same
  <1>4. QED
    BY <1>1, <1>2, <1>3, AllMoved

\* The heap's part of the invariant outlives the partitioner.
LEMMA HeapKept ==
    ASSUME NEW r \in Ranks, HeapInv(r), Given,
           heap'[r] = heap[r], count'[r] = count[r],
           pc'[r] \notin {"tokens", "split", "agree", "partition"}
    PROVE  HeapInv(r)'
  BY DEF HeapInv, Given, Samples

-----------------------------------------------------------------------------
(* The steps before the partitioner.                                        *)

\* In the first state no rank has begun.
LEMMA InitInv ==
    ASSUME Init
    PROVE  IInv
  <1>1. \A b \in Batches : Len(b) = Len(b)
    OBVIOUS
  <1>2. PICK n \in {Len(b) : b \in Batches} : batch \in [Ranks -> {b \in Batches : Len(b) = n}]
    BY DEF Init
  <1>3. Typed
    BY <1>2 DEF Init, Typed, PCs
  <1>4. SameLength /\ LimitInv
    BY <1>2 DEF Init, SameLength, LimitInv
  <1>5. \A r \in Ranks : /\ pc[r] = "tokens" /\ heap[r] = {} /\ micro[r] = <<>>
                         /\ ran[r] = 0 /\ output[r] = NoOutput
    BY DEF Init
  <1>6. ASSUME NEW r \in Ranks PROVE RankTypes(r) /\ RankInv(r)
    <2>1. RankTypes(r)
      <3>1. \A S : <<>> \in Seq(S)
        OBVIOUS
      <3>2. NoOutput \in [log_probs : Seq(Samples(r)), tags : Seq(Samples(r))]
        BY <3>1 DEF NoOutput
      <3>3. QED
        BY <1>5, <3>1, <3>2 DEF RankTypes
    <2>2. StageInv(r) /\ HeapInv(r) /\ RunInv(r) /\ DoneInv(r)
      BY <1>5 DEF StageInv, HeapInv, RunInv, DoneInv
    <2>3. QED
      BY <2>1, <2>2 DEF RankInv
  <1>7. QED
    BY <1>3, <1>4, <1>5, <1>6, IInvParts

\* A rank that has come to an end, or to a stage with no claim of its own, keeps
\* its types and its heap.
LEMMA RankStops ==
    ASSUME NEW r \in Ranks, RankTypes(r), RankInv(r), Given,
           heap'[r] = heap[r], count'[r] = count[r], micro'[r] = micro[r],
           output'[r] = output[r],
           pc'[r] \in {"returned", "raised", "killed"}
    PROVE  RankTypes(r)' /\ RankInv(r)'
  <1>1. HeapInv(r)'
    BY HeapKept DEF RankInv
  <1>2. StageInv(r)' /\ RunInv(r)' /\ DoneInv(r)'
    BY DEF StageInv, RunInv, DoneInv
  <1>3. Samples(r)' = Samples(r)
    BY DEF Given, Samples
  <1>4. RankTypes(r)'
    BY <1>3 DEF RankTypes
  <1>5. QED
    BY <1>1, <1>2, <1>4 DEF RankInv

\* torchrun ends a process.
LEMMA KillStep ==
    ASSUME IInv, NEW r \in Ranks, Kill(r)
    PROVE  IInv'
  <1>1. Typed /\ RankTypes(r) /\ RankInv(r)
    BY IInvParts
  <1>2. /\ pc' = [pc EXCEPT ![r] = "killed"]
        /\ Given /\ UNCHANGED <<count, heap, micro, ran, output>>
    BY DEF Kill, MoveOn, Given
  <1>3. Typed' /\ pc'[r] = "killed"
    BY <1>1, <1>2 DEF Typed, Given, PCs
  <1>4. \A q \in Ranks \ {r} : Same(q)
    BY <1>1, <1>2 DEF Same, Typed
  <1>5. RankTypes(r)' /\ RankInv(r)'
    BY <1>1, <1>2, <1>3, RankStops
  <1>6. QED
    BY <1>2, <1>3, <1>4, <1>5, OneMoved

\* A rank comes to its own count, or finds a sample longer than the limit.
LEMMA CountStep ==
    ASSUME IInv, NEW r \in Ranks, Count(r)
    PROVE  IInv'
  <1>1. Typed /\ LimitInv /\ RankTypes(r) /\ RankInv(r)
    BY IInvParts
  <1>2. pc[r] = "split" /\ mode.dynamic /\ Given /\ UNCHANGED <<heap, micro, ran, output>>
    BY DEF Count, Given
  <1>3. CASE TooLong(r)
    <2>1. pc' = [pc EXCEPT ![r] = "raised"] /\ UNCHANGED count
      BY <1>3 DEF Count, MoveOn
    <2>2. Typed' /\ pc'[r] = "raised"
      BY <1>1, <1>2, <2>1 DEF Typed, Given, PCs
    <2>3. \A q \in Ranks \ {r} : Same(q)
      BY <1>1, <1>2, <2>1 DEF Same, Typed
    <2>4. RankTypes(r)' /\ RankInv(r)'
      BY <1>1, <1>2, <2>1, <2>2, RankStops
    <2>5. Cause(r)
      BY <1>2, <1>3 DEF Cause
    <2>6. QED
      BY <1>2, <2>2, <2>3, <2>4, <2>5, OneMoved
  <1>4. CASE ~TooLong(r)
    <2>1. pc' = [pc EXCEPT ![r] = "agree"] /\ count' = [count EXCEPT ![r] = OwnCount(r)]
      BY <1>4 DEF Count, MoveOn
    <2>2. OwnCount(r) \in 1..Len(batch[r])
      BY <1>1, BatchIs, LimitIs, OwnCountIs
    <2>3. /\ Typed' /\ pc'[r] = "agree" /\ count'[r] = OwnCount(r)
      <3>1. OwnCount(r) \in Nat
        BY <2>2
      <3>2. QED
        BY <1>1, <1>2, <2>1, <3>1 DEF Typed, Given, PCs
    <2>4. \A q \in Ranks \ {r} : Same(q)
      BY <1>1, <1>2, <2>1 DEF Same, Typed
    <2>5. heap[r] = {} /\ micro[r] = <<>> /\ ran[r] = 0 /\ output[r] = NoOutput
      BY <1>1, <1>2 DEF RankInv, HeapInv, StageInv
    <2>6. Samples(r)' = Samples(r) /\ Len(batch[r])' = Len(batch[r])
      BY <1>2 DEF Given, Samples
    <2>7. RankTypes(r)'
      BY <1>1, <1>2, <2>5, <2>6 DEF RankTypes
    <2>8. StageInv(r)'
      BY <1>2, <2>2, <2>3, <2>5 DEF StageInv, Given
    <2>9. HeapInv(r)' /\ RunInv(r)' /\ DoneInv(r)'
      BY <1>2, <2>3, <2>5 DEF HeapInv, RunInv, DoneInv
    <2>10. QED
      BY <1>2, <2>3, <2>4, <2>7, <2>8, <2>9, OneMoved DEF RankInv
  <1>5. QED
    BY <1>3, <1>4

\* All ranks know the number of tokens.
LEMMA ReduceTokensStep ==
    ASSUME IInv, ReduceTokens
    PROVE  IInv'
  <1>1. Typed /\ \A r \in Ranks : RankTypes(r) /\ RankInv(r)
    BY IInvParts
  <1>2. /\ \A r \in Ranks : pc[r] = "tokens"
        /\ pc' = [r \in Ranks |-> "split"]
        /\ Given /\ UNCHANGED <<count, heap, micro, ran, output>>
    BY DEF ReduceTokens, Together, Given
  <1>3. Typed' /\ \A r \in Ranks : pc'[r] = "split"
    BY <1>1, <1>2 DEF Typed, Given, PCs
  <1>4. ASSUME NEW r \in Ranks PROVE RankTypes(r)' /\ RankInv(r)'
    <2>1. heap[r] = {} /\ micro[r] = <<>> /\ ran[r] = 0 /\ output[r] = NoOutput
      BY <1>1, <1>2 DEF RankInv, HeapInv, StageInv
    <2>2. Samples(r)' = Samples(r)
      BY <1>2 DEF Given, Samples
    <2>3. RankTypes(r)'
      BY <1>1, <1>2, <2>2 DEF RankTypes
    <2>4. StageInv(r)' /\ HeapInv(r)' /\ RunInv(r)' /\ DoneInv(r)'
      BY <1>2, <1>3, <2>1 DEF StageInv, HeapInv, RunInv, DoneInv
    <2>5. QED
      BY <2>3, <2>4 DEF RankInv
  <1>5. QED
    BY <1>2, <1>3, <1>4, AllMoved

\* A rank without dynamic batches cuts its batch into chunks.
LEMMA ChunkStep ==
    ASSUME IInv, NEW r \in Ranks, Chunk(r)
    PROVE  IInv'
  <1>1. Typed /\ LimitInv /\ RankTypes(r) /\ RankInv(r)
    BY IInvParts
  <1>2. pc[r] = "split" /\ ~mode.dynamic /\ Given /\ UNCHANGED <<count, heap, ran, output>>
    BY DEF Chunk, Given
  <1>3. CASE ~Divisible(r)
    <2>1. pc' = [pc EXCEPT ![r] = "raised"] /\ UNCHANGED micro
      BY <1>3 DEF Chunk, MoveOn
    <2>2. Typed' /\ pc'[r] = "raised"
      BY <1>1, <1>2, <2>1 DEF Typed, Given, PCs
    <2>3. \A q \in Ranks \ {r} : Same(q)
      BY <1>1, <1>2, <2>1 DEF Same, Typed
    <2>4. RankTypes(r)' /\ RankInv(r)'
      BY <1>1, <1>2, <2>1, <2>2, RankStops
    <2>5. Cause(r)
      BY <1>2, <1>3 DEF Cause
    <2>6. QED
      BY <1>2, <2>2, <2>3, <2>4, <2>5, OneMoved
  <1>4. CASE Divisible(r)
    <2> DEFINE n == Len(batch[r])
               k == Chunks(r)
               size == Size(r)
               q == [c \in 1..k |-> [i \in 1..size |-> (c - 1) * size + i]]
    <2>1. pc' = [pc EXCEPT ![r] = "run"] /\ micro' = [micro EXCEPT ![r] = q]
      BY <1>4 DEF Chunk, MoveOn, Size
    <2>2. n \in Nat \ {0} /\ Samples(r) = 1..n
      BY <1>1, BatchIs
    <2>3. k \in Nat \ {0}
      <3>1. n \div mode.limit \in Int
        BY <1>1, <2>2, LimitIs
      <3>2. QED
        BY <3>1 DEF Chunks
    <2>4. n % k = 0 /\ size = n \div k
      BY <1>4 DEF Divisible, Size
    <2> HIDE DEF n, k, size
    <2>5. size \in Nat /\ n = k * size
      <3>1. n \div k \in Nat /\ n = k * (n \div k) + (n % k)
        BY <2>2, <2>3
      <3>2. QED
        BY <2>2, <2>3, <2>4, <3>1
    <2>6. Parts(q, 1..n)
      BY <2>2, <2>3, <2>5, ChunkParts
    <2> HIDE DEF q
    <2>7. Typed' /\ pc'[r] = "run" /\ micro'[r] = q
      BY <1>1, <1>2, <2>1 DEF Typed, Given, PCs
    <2>8. \A x \in Ranks \ {r} : Same(x)
      BY <1>1, <1>2, <2>1 DEF Same, Typed
    <2>9. heap[r] = {} /\ ran[r] = 0 /\ output[r] = NoOutput
      BY <1>1, <1>2 DEF RankInv, HeapInv, StageInv
    <2>10. Samples(r)' = Samples(r) /\ Chunks(r)' = k /\ Size(r)' = size /\ Divisible(r)'
      BY <1>2, <1>4 DEF Given, Samples, Chunks, Size, Divisible, k, size
    <2>11. RankTypes(r)'
      <3>1. q \in Seq(Seq(Samples(r)))
        BY <2>2, <2>6 DEF Parts
      <3>2. QED
        BY <1>1, <1>2, <2>7, <2>9, <2>10, <3>1 DEF RankTypes
    <2>12. HeapInv(r)' /\ StageInv(r)' /\ DoneInv(r)'
      BY <1>2, <2>7, <2>9 DEF HeapInv, StageInv, DoneInv
    <2>13. RunInv(r)'
      <3>1. q \in Seq(Seq(1..n)) /\ Len(q) \in Nat
        BY <2>6 DEF Parts
      <3>2. output'[r].log_probs = <<>> /\ output'[r].tags = <<>> /\ ran'[r] = 0
        BY <1>2, <2>9 DEF NoOutput
      <3>3. TagsInv(r)'
        BY <3>2 DEF TagsInv
      <3>4. Distinct(<<>>) /\ ToSet(<<>>) = {}
        <4>1. <<>> \in Seq(Nat) /\ Len(<<>>) = 0
          OBVIOUS
        <4>2. QED
          BY <4>1, ElementsOf DEF Distinct
      <3>5. [i \in 1..(0 * size) |-> i] = <<>>
        <4>1. 1..(0 * size) = {}
          BY <2>5
        <4>2. QED
          BY <4>1
      <3>6. micro'[r] = [c \in 1..Chunks(r)' |->
                           [i \in 1..Size(r)' |-> (c - 1) * Size(r)' + i]]
        BY <2>7, <2>10 DEF q
      <3>7. 1..0 = {}
        OBVIOUS
      <3>8. Parts(micro'[r], Samples(r)') /\ ran'[r] <= Len(micro'[r])
        BY <2>2, <2>6, <2>7, <2>10, <3>1, <3>2
      <3>9. \A i \in Samples(r)' : i \in ToSet(output'[r].log_probs)
                                   <=> \E c \in 1..ran'[r] : i \in ToSet(micro'[r][c])
        BY <3>2, <3>4, <3>7
      <3>10. output'[r].log_probs = [i \in 1..(ran'[r] * Size(r)') |-> i]
        BY <2>10, <3>2, <3>5
      <3>11. QED
        BY <2>10, <3>2, <3>3, <3>4, <3>6, <3>8, <3>9, <3>10 DEF RunInv
    <2>14. QED
      BY <1>2, <2>7, <2>8, <2>11, <2>12, <2>13, OneMoved DEF RankInv
  <1>5. QED
    BY <1>3, <1>4

-----------------------------------------------------------------------------
(* The partitioner's steps.                                                 *)

\* The ranks agree on the greatest of their counts, which every batch can fill:
\* the batches are of one length.
LEMMA AgreeStep ==
    ASSUME IInv, Agree
    PROVE  IInv'
  <1> DEFINE k == AgreedCount
  <1>1. Typed /\ SameLength /\ \A r \in Ranks : RankTypes(r) /\ RankInv(r)
    BY IInvParts
  <1>2. /\ \A r \in Ranks : pc[r] = "agree"
        /\ count' = [r \in Ranks |-> k]
        /\ pc' = [r \in Ranks |-> IF k <= Len(batch[r]) THEN "partition" ELSE "raised"]
        /\ heap' = [r \in Ranks |-> Singles(r, k)]
        /\ Given /\ UNCHANGED <<micro, ran, output>>
    BY DEF Agree, Together, Given
  <1>3. \A r \in Ranks : mode.dynamic /\ count[r] \in 1..Len(batch[r])
    BY <1>1, <1>2 DEF RankInv, StageInv
  <1>4. \A r \in Ranks : k \in 1..Len(batch[r])
    <2>1. PICK q \in Ranks : k = count[q]
      BY <1>3, AgreedCountIs
    <2>2. QED
      BY <1>1, <1>3, <2>1 DEF SameLength
  <1>5. k \in Nat \ {0}
    BY <1>4, RanksAssumption
  <1> HIDE DEF k
  <1>6. \A r \in Ranks : pc'[r] = "partition"
    BY <1>2, <1>4
  <1>7. Typed'
    <2>1. pc' \in [Ranks -> PCs]
      BY <1>2 DEF PCs
    <2>2. count' \in [Ranks -> Nat]
      BY <1>2, <1>5
    <2>3. QED
      BY <1>1, <1>2, <2>1, <2>2 DEF Typed, Given
  <1>8. ASSUME NEW r \in Ranks PROVE RankTypes(r)' /\ RankInv(r)'
    <2> DEFINE n == Len(batch[r])
               w == [i \in 1..n |-> Workload(batch[r][i].len)]
               single(i) == Single(i, w[i], k)
    <2>1. /\ n \in Nat \ {0} /\ Samples(r) = 1..n
          /\ \A i \in 1..n : w[i] \in Nat \ {0} /\ w[i] = Workload(batch[r][i].len)
      BY <1>1, BatchIs
    <2>2. Samples(r)' = 1..n /\ count'[r] = k /\ batch'[r] = batch[r]
      BY <1>2, <2>1 DEF Given, Samples
    <2>3. heap'[r] = {single(i) : i \in 1..n}
      BY <1>2, <2>1 DEF Singles
    <2> HIDE DEF n, w
    <2>4. \A i \in 1..n : /\ StateInv(single(i), k, 1..n)
                          /\ Content(single(i)) = {i}
                          /\ Within(single(i), k, w[i])
      BY <1>5, <2>1, SingleState
    <2> HIDE DEF single
    <2>5. HeapInv(r)'
      <3>1. \A s \in heap'[r] : StateInv(s, k, 1..n) /\ \E i \in 1..n : Within(s, k, w[i])
        BY <2>3, <2>4
      <3>2. \A s, t \in heap'[r] : s # t => Content(s) \cap Content(t) = {}
        BY <2>3, <2>4
      <3>3. \A i \in 1..n : \E s \in heap'[r] : i \in Content(s)
        BY <2>3, <2>4
      <3>4. \A s \in heap'[r] : \E i \in 1..n : Within(s, k, Workload(batch[r][i].len))
        BY <2>1, <3>1
      <3>5. QED
        BY <1>6, <2>2, <3>1, <3>2, <3>3, <3>4 DEF HeapInv
    <2>6. micro[r] = <<>> /\ ran[r] = 0 /\ output[r] = NoOutput
      BY <1>1, <1>2 DEF RankInv, StageInv
    <2>7. StageInv(r)'
      BY <1>2, <1>3, <1>4, <1>6, <2>2, <2>6 DEF StageInv, Given
    <2>8. RunInv(r)' /\ DoneInv(r)'
      BY <1>6 DEF RunInv, DoneInv
    <2>9. RankTypes(r)'
      <3>1. \A s \in heap'[r] : s \in [1..k -> Groups(1..n)]
        BY <2>5, <2>2 DEF HeapInv, StateInv, GroupsInv
      <3>2. Samples(r) = 1..n
        BY <2>1
      <3>3. QED
        BY <1>1, <1>2, <2>2, <3>1, <3>2 DEF RankTypes
    <2>10. QED
      BY <2>5, <2>7, <2>8, <2>9 DEF RankInv
  <1>9. QED
    BY <1>2, <1>6, <1>7, <1>8, AllMoved

\* Two states of the heap make a third.
LEMMA MergeStep ==
    ASSUME IInv, NEW r \in Ranks, Merge(r)
    PROVE  IInv'
  <1> DEFINE n == Len(batch[r])
             k == count[r]
             h == heap[r]
  <1>1. Typed /\ RankTypes(r) /\ RankInv(r)
    BY IInvParts
  <1>2. /\ pc[r] = "partition"
        /\ Given /\ UNCHANGED <<pc, count, micro, ran, output>>
    BY DEF Merge, Given
  <1>3. PICK s \in NextOf(h) : \E t \in NextOf(h \ {s}) : \E m \in Merged(s, t) :
            heap' = [heap EXCEPT ![r] = (h \ {s, t}) \cup {m}]
    BY DEF Merge
  <1>4. PICK t \in NextOf(h \ {s}) : \E m \in Merged(s, t) :
            heap' = [heap EXCEPT ![r] = (h \ {s, t}) \cup {m}]
    BY <1>3
  <1>5. PICK m \in Merged(s, t) : heap' = [heap EXCEPT ![r] = (h \ {s, t}) \cup {m}]
    BY <1>4
  <1>6. s \in h /\ t \in h /\ s # t
    BY DEF NextOf
  <1>7. heap'[r] = (h \ {s, t}) \cup {m}
    BY <1>1, <1>5 DEF Typed
  <1>8. Typed'
    BY <1>1, <1>2, <1>5 DEF Typed, Given
  <1>9. \A q \in Ranks \ {r} : Same(q)
    BY <1>1, <1>2, <1>5 DEF Same, Typed
  <1>10. /\ n \in Nat \ {0} /\ Samples(r) = 1..n /\ k \in Nat
         /\ \A i \in 1..n : Workload(batch[r][i].len) \in Nat
    BY <1>1, BatchIs DEF Typed
  <1>11. /\ Samples(r)' = Samples(r) /\ count'[r] = k /\ batch'[r] = batch[r]
         /\ pc'[r] = "partition"
    BY <1>2 DEF Given, Samples
  <1> HIDE DEF n, k, h
  <1>12. /\ \A u \in h : /\ StateInv(u, k, 1..n)
                         /\ \E i \in 1..n : Within(u, k, Workload(batch[r][i].len))
         /\ \A u, v \in h : u # v => Content(u) \cap Content(v) = {}
         /\ \A i \in 1..n : \E u \in h : i \in Content(u)
    BY <1>1, <1>2, <1>10 DEF RankInv, HeapInv, h, k
  <1>13. /\ StateInv(s, k, 1..n) /\ StateInv(t, k, 1..n)
         /\ Content(s) \cap Content(t) = {}
    BY <1>6, <1>12
  <1>14. StateInv(m, k, 1..n) /\ Content(m) = Content(s) \cup Content(t)
    BY <1>10, <1>13, MergedFilled
  <1>15. \E i \in 1..n : Within(m, k, Workload(batch[r][i].len))
    <2>1. PICK i \in 1..n : Within(s, k, Workload(batch[r][i].len))
      BY <1>6, <1>12
    <2>2. PICK j \in 1..n : Within(t, k, Workload(batch[r][j].len))
      BY <1>6, <1>12
    <2> DEFINE v == Workload(batch[r][i].len)
               w == Workload(batch[r][j].len)
    <2>3. v \in Nat /\ w \in Nat /\ Within(s, k, v) /\ Within(t, k, w)
      BY <1>10, <2>1, <2>2
    <2> HIDE DEF v, w
    <2>4. CASE v <= w
      <3>1. Within(s, k, w)
        BY <1>10, <1>13, <2>3, <2>4, WithinMore
      <3>2. Within(m, k, w)
        BY <1>10, <1>13, <2>3, <3>1, MergedWithin
      <3>3. QED
        BY <3>2 DEF w
    <2>5. CASE w <= v
      <3>1. Within(t, k, v)
        BY <1>10, <1>13, <2>3, <2>5, WithinMore
      <3>2. Within(m, k, v)
        BY <1>10, <1>13, <2>3, <3>1, MergedWithin
      <3>3. QED
        BY <3>2 DEF v
    <2>6. QED
      BY <2>3, <2>4, <2>5
  <1>16. HeapInv(r)'
    <2>1. \A u \in heap'[r] : u = m \/ (u \in h /\ u # s /\ u # t)
      BY <1>7
    <2>2. \A u \in heap'[r] : /\ StateInv(u, k, 1..n)
                              /\ \E i \in 1..n : Within(u, k, Workload(batch[r][i].len))
      BY <1>12, <1>14, <1>15, <2>1
    <2>3. \A u, v \in heap'[r] : u # v => Content(u) \cap Content(v) = {}
      <3>1. \A u \in h : u # s /\ u # t => Content(u) \cap Content(m) = {}
        BY <1>6, <1>12, <1>14
      <3>2. QED
        BY <1>12, <2>1, <3>1
    <2>4. \A i \in 1..n : \E u \in heap'[r] : i \in Content(u)
      <3> SUFFICES ASSUME NEW i \in 1..n PROVE \E u \in heap'[r] : i \in Content(u)
        OBVIOUS
      <3>1. PICK u \in h : i \in Content(u)
        BY <1>12
      <3>2. CASE u = s \/ u = t
        BY <1>7, <1>14, <3>1, <3>2
      <3>3. CASE u # s /\ u # t
        BY <1>7, <3>1, <3>3
      <3>4. QED
        BY <3>2, <3>3
    <2>5. QED
      BY <1>10, <1>11, <2>2, <2>3, <2>4 DEF HeapInv
  <1>17. StageInv(r)' /\ RunInv(r)' /\ DoneInv(r)'
    <2>1. StageInv(r)'
      BY <1>1, <1>2, <1>11 DEF RankInv, StageInv, Given, k
    <2>2. QED
      BY <1>11, <2>1 DEF RunInv, DoneInv
  <1>18. RankTypes(r)'
    <2>1. \A u \in heap'[r] : u \in [1..k -> Groups(1..n)]
      BY <1>10, <1>11, <1>16 DEF HeapInv, StateInv, GroupsInv
    <2>2. QED
      BY <1>1, <1>2, <1>10, <1>11, <2>1 DEF RankTypes
  <1>19. QED
    BY <1>2, <1>8, <1>9, <1>11, <1>16, <1>17, <1>18, OneMoved DEF RankInv

\* The last state has no empty group, and its groups are the micro-batches.
LEMMA ScheduleStep ==
    ASSUME IInv, NEW r \in Ranks, Schedule(r)
    PROVE  IInv'
  <1> DEFINE n == Len(batch[r])
             k == count[r]
  <1>1. Typed /\ RankTypes(r) /\ RankInv(r)
    BY IInvParts
  <1>2. /\ pc[r] = "partition"
        /\ Given /\ UNCHANGED <<count, heap, ran, output>>
    BY DEF Schedule, Given
  <1>3. PICK s \in heap[r] :
            /\ heap[r] = {s}
            /\ IF \E i \in DOMAIN s : s[i].items = <<>>
               THEN MoveOn(r, "raised") /\ UNCHANGED micro
               ELSE /\ MoveOn(r, "run")
                    /\ \E w \in ByWorkload(s) :
                           micro' = [micro EXCEPT ![r] =
                               [i \in DOMAIN w |-> Sorted(LightOutside(w)[i])]]
    BY DEF Schedule
  <1>4. n \in Nat \ {0} /\ Samples(r) = 1..n /\ k \in Nat
    BY <1>1, BatchIs DEF Typed
  <1>5. k \in 1..n /\ mode.dynamic
    BY <1>1, <1>2 DEF RankInv, StageInv
  <1>6. StateInv(s, k, 1..n) /\ \A i \in 1..n : i \in Content(s)
    BY <1>1, <1>2, <1>3, <1>4 DEF RankInv, HeapInv
  <1>7. GroupsInv(s, k, 1..n) /\ DOMAIN s = 1..k
    BY <1>6 DEF StateInv, GroupsInv
  <1> HIDE DEF n, k
  <1>8. \A i \in 1..k : s[i].items # <<>>
    <2>1. Content(s) = 1..n
      BY <1>4, <1>6, <1>7, ContentFinite
    <2>2. Cardinality(Content(s)) = n
      BY <1>4, <2>1, FS_Interval
    <2>3. \A i \in 1..k : i <= n
      BY <1>4, <1>5
    <2>4. QED
      BY <1>6, <2>2, <2>3 DEF StateInv, Filled
  <1>9. pc' = [pc EXCEPT ![r] = "run"]
    BY <1>3, <1>7, <1>8 DEF MoveOn
  <1>10. PICK w \in ByWorkload(s) :
            micro' = [micro EXCEPT ![r] = [i \in DOMAIN w |-> Sorted(LightOutside(w)[i])]]
    BY <1>3, <1>7, <1>8
  <1> DEFINE q == [i \in DOMAIN w |-> Sorted(LightOutside(w)[i])]
  <1>11. Parts(q, 1..n)
    BY <1>4, <1>6, <1>7, <1>8, ScheduledParts
  <1>12. micro' = [micro EXCEPT ![r] = q]
    BY <1>10
  <1> HIDE DEF q
  <1>13. Typed' /\ pc'[r] = "run" /\ micro'[r] = q
    BY <1>1, <1>2, <1>9, <1>12 DEF Typed, Given, PCs
  <1>14. \A x \in Ranks \ {r} : Same(x)
    BY <1>1, <1>2, <1>9, <1>12 DEF Same, Typed
  <1>15. ran[r] = 0 /\ output[r] = NoOutput
    BY <1>1, <1>2 DEF RankInv, StageInv
  <1>16. Samples(r)' = Samples(r)
    BY <1>2 DEF Given, Samples
  <1>17. RankTypes(r)'
    <2>1. q \in Seq(Seq(Samples(r)))
      BY <1>4, <1>11 DEF Parts
    <2>2. QED
      BY <1>1, <1>2, <1>13, <1>16, <2>1 DEF RankTypes
  <1>18. HeapInv(r)'
    BY <1>1, <1>2, <1>13, HeapKept DEF RankInv
  <1>19. StageInv(r)' /\ DoneInv(r)'
    BY <1>13 DEF StageInv, DoneInv
  <1>20. RunInv(r)'
    <2>1. q \in Seq(Seq(1..n)) /\ Len(q) \in Nat
      BY <1>11 DEF Parts
    <2>2. output'[r].log_probs = <<>> /\ output'[r].tags = <<>> /\ ran'[r] = 0
      BY <1>2, <1>15 DEF NoOutput
    <2>3. TagsInv(r)'
      BY <2>2 DEF TagsInv
    <2>4. Distinct(<<>>) /\ ToSet(<<>>) = {}
      <3>1. <<>> \in Seq(Nat) /\ Len(<<>>) = 0
        OBVIOUS
      <3>2. QED
        BY <3>1, ElementsOf DEF Distinct
    <2>5. Parts(micro'[r], Samples(r)') /\ ran'[r] <= Len(micro'[r])
      BY <1>4, <1>11, <1>13, <1>16, <2>1, <2>2
    <2>6. 1..0 = {}
      OBVIOUS
    <2>7. \A i \in Samples(r)' : i \in ToSet(output'[r].log_probs)
                                 <=> \E c \in 1..ran'[r] : i \in ToSet(micro'[r][c])
      BY <2>2, <2>4, <2>6
    <2>8. mode'.dynamic
      BY <1>2, <1>5 DEF Given
    <2>9. QED
      BY <2>2, <2>3, <2>4, <2>5, <2>7, <2>8 DEF RunInv
  <1>21. QED
    BY <1>2, <1>13, <1>14, <1>17, <1>18, <1>19, <1>20, OneMoved DEF RankInv

-----------------------------------------------------------------------------
(* The rows.                                                                *)

\* Counting on from a.
LEMMA CountedOn ==
    ASSUME NEW a \in Nat, NEW b \in Nat
    PROVE  [i \in 1..a |-> i] \o [i \in 1..b |-> a + i] = [i \in 1..(a + b) |-> i]
  <1> DEFINE q == [i \in 1..a |-> i]
             u == [i \in 1..b |-> a + i]
             v == [i \in 1..(a + b) |-> i]
  <1>1. q \in Seq(Nat) /\ Len(q) = a /\ \A i \in 1..a : q[i] = i
    OBVIOUS
  <1>2. u \in Seq(Nat) /\ Len(u) = b /\ \A i \in 1..b : u[i] = a + i
    OBVIOUS
  <1>3. v \in Seq(Nat) /\ Len(v) = a + b /\ \A i \in 1..(a + b) : v[i] = i
    OBVIOUS
  <1> HIDE DEF q, u, v
  <1>4. /\ q \o u \in Seq(Nat) /\ Len(q \o u) = a + b
        /\ \A i \in 1..a : (q \o u)[i] = q[i]
        /\ \A i \in 1..b : (q \o u)[a + i] = u[i]
    BY <1>1, <1>2
  <1>5. \A i \in 1..(a + b) : (q \o u)[i] = i
    <2> SUFFICES ASSUME NEW i \in 1..(a + b) PROVE (q \o u)[i] = i
      OBVIOUS
    <2>1. CASE i <= a
      BY <1>1, <1>4, <2>1
    <2>2. CASE i > a
      <3>1. i - a \in 1..b /\ a + (i - a) = i
        BY <2>2
      <3>2. QED
        BY <1>2, <1>4, <3>1
    <2>3. i <= a \/ i > a
      OBVIOUS
    <2>4. QED
      BY <2>1, <2>2, <2>3
  <1>6. q \o u = v
    BY <1>3, <1>4, <1>5, SeqEqual
  <1>7. QED
    BY <1>6 DEF q, u, v

\* A list of 1..n without repetitions is n long.
LEMMA ListedOnce ==
    ASSUME NEW n \in Nat, NEW q \in Seq(1..n), Distinct(q), ToSet(q) = 1..n
    PROVE  Len(q) = n
  <1>1. q \in [1..Len(q) -> 1..n] /\ Len(q) \in Nat
    OBVIOUS
  <1>2. \A x \in 1..n : \E i \in 1..Len(q) : q[i] = x
    BY ElementsOf
  <1>3. q \in Bijection(1..Len(q), 1..n)
    BY <1>1, <1>2 DEF Distinct, Bijection, Injection, Surjection, IsInjective
  <1>4. IsFiniteSet(1..Len(q)) /\ Cardinality(1..Len(q)) = Len(q) /\ Cardinality(1..n) = n
    <2>1. \A k \in Nat : IsFiniteSet(1..k) /\ Cardinality(1..k) = k
      BY FS_Interval
    <2>2. QED
      BY <1>1, <2>1
  <1>5. QED
    BY <1>3, <1>4, FS_Bijection DEF ExistsBijection

\* The next micro-batch runs on all ranks: its rows follow those of the earlier
\* ones, with their tags or without.
LEMMA RunStep ==
    ASSUME IInv, RunMicroBatch
    PROVE  IInv'
  <1>1. Typed /\ \A r \in Ranks : RankTypes(r) /\ RankInv(r)
    BY IInvParts
  <1>2. /\ \A r \in Ranks : pc[r] = "run" /\ ran[r] < Len(micro[r])
        /\ ran' = [r \in Ranks |-> ran[r] + 1]
        /\ output' = [r \in Ranks |-> Appended(output[r], Rows(r, micro[r][ran[r] + 1]))]
        /\ Given /\ UNCHANGED <<pc, count, heap, micro>>
    BY DEF RunMicroBatch, Together, Given
  <1>3. Typed'
    <2>1. \A r \in Ranks : ran[r] + 1 \in Nat
      BY <1>1 DEF Typed
    <2>2. ran' \in [Ranks -> Nat] /\ DOMAIN output' = Ranks
      BY <1>2, <2>1
    <2>3. QED
      BY <1>1, <1>2, <2>2 DEF Typed, Given
  <1>4. ASSUME NEW r \in Ranks PROVE RankTypes(r)' /\ RankInv(r)'
    <2> DEFINE n == Len(batch[r])
               q == micro[r]
               c == ran[r] + 1
               m == q[c]
               o == output[r].log_probs
               tags == output[r].tags
               more == IF AllTagged(r, m) THEN m ELSE <<>>
    <2>1. /\ n \in Nat \ {0} /\ Samples(r) = 1..n
          /\ \A i \in 1..n : batch[r][i].tagged \in BOOLEAN
      BY <1>1, BatchIs
    <2>2. /\ output'[r].log_probs = o \o m /\ output'[r].tags = tags \o more
          /\ output'[r] = [log_probs |-> o \o m, tags |-> tags \o more]
      BY <1>2 DEF Appended, Rows
    <2>3. o \in Seq(1..n) /\ tags \in Seq(1..n)
      BY <1>1, <2>1 DEF RankTypes
    <2>4. RunInv(r)
      BY <1>1 DEF RankInv
    <2>5. /\ Parts(q, 1..n) /\ Distinct(o) /\ TagsInv(r)
          /\ \A i \in 1..n : i \in ToSet(o) <=> \E d \in 1..ran[r] : i \in ToSet(q[d])
      BY <1>2, <2>1, <2>4 DEF RunInv
    <2>6. ran[r] \in Nat /\ c \in 1..Len(q) /\ DOMAIN q = 1..Len(q) /\ Len(q) \in Nat
      <3>1. q \in Seq(Seq(1..n))
        BY <2>5 DEF Parts
      <3>2. ran[r] \in Nat
        BY <1>1 DEF Typed
      <3>3. DOMAIN q = 1..Len(q) /\ Len(q) \in Nat
        BY <3>1
      <3>4. QED
        BY <1>2, <3>2, <3>3
    <2>7. m \in Seq(1..n) /\ m # <<>> /\ Distinct(m)
      <3>1. q \in Seq(Seq(1..n)) /\ \A d \in 1..Len(q) : q[d] # <<>> /\ Distinct(q[d])
        BY <2>5, <2>6 DEF Parts
      <3>2. \A d \in 1..Len(q) : q[d] \in Seq(1..n)
        BY <3>1
      <3>3. QED
        BY <2>6, <3>1, <3>2
    <2>8. \A d \in 1..ran[r] : d \in 1..Len(q) /\ d # c
      BY <2>6
    <2> HIDE DEF n, q, o, tags
    <2>9. ToSet(o) \cap ToSet(m) = {}
      <3>1. ToSet(o) \subseteq 1..n
        BY <2>3, ElementsOf
      <3>2. \A d \in 1..ran[r] : ToSet(q[d]) \cap ToSet(m) = {}
        BY <2>5, <2>6, <2>8 DEF Parts
      <3>3. QED
        BY <2>5, <3>1, <3>2
    <2> HIDE DEF c, m
    <2>10. /\ o \o m \in Seq(1..n) /\ Len(o \o m) = Len(o) + Len(m)
           /\ ToSet(o \o m) = ToSet(o) \cup ToSet(m) /\ Distinct(o \o m)
      BY <2>3, <2>5, <2>7, <2>9, AppendedLists
    <2>11. more \in Seq(1..n)
      <3>1. m \in Seq(1..n) /\ <<>> \in Seq(1..n)
        BY <2>7, SequenceIs
      <3>2. QED
        BY <3>1
    <2>12. tags \o more \in Seq(1..n) /\ Len(tags \o more) = Len(tags) + Len(more)
      <3> HIDE DEF more
      <3>1. QED
        BY <2>3, <2>11
    <2>13. Len(o) \in Nat /\ Len(m) \in Nat \ {0} /\ Len(tags) \in Nat
      BY <2>3, <2>7
    <2>14. /\ Samples(r)' = 1..n /\ batch'[r] = batch[r] /\ micro'[r] = q /\ pc'[r] = "run"
           /\ ran'[r] = c /\ heap'[r] = heap[r] /\ count'[r] = count[r]
      BY <1>2, <2>1 DEF Given, Samples, q, c
    <2>15. RankTypes(r)'
      <3>1. output'[r] \in [log_probs : Seq(1..n), tags : Seq(1..n)]
        BY <2>2, <2>10, <2>12
      <3>2. /\ micro[r] \in Seq(Seq(1..n))
            /\ \A s \in heap[r] : s \in [1..count[r] -> Groups(1..n)]
        BY <1>1, <2>1 DEF RankTypes
      <3>3. QED
        BY <1>2, <2>14, <3>1, <3>2 DEF RankTypes
    <2>16. HeapInv(r)'
      BY <1>1, <1>2, <2>14, HeapKept DEF RankInv
    <2>17. StageInv(r)' /\ DoneInv(r)'
      BY <2>14 DEF StageInv, DoneInv
    <2>18. DOMAIN m = 1..Len(m) /\ \A i \in 1..Len(m) : m[i] \in 1..n
      BY <2>7, SequenceIs
    <2>19. TagsInv(r)'
      <3>1. /\ \/ tags = o
               \/ Len(tags) < Len(o) /\ \E i \in 1..n : ~batch[r][i].tagged
            /\ tags # <<>> => \E i \in 1..n : batch[r][i].tagged
        BY <2>1, <2>5 DEF TagsInv, o, tags
      <3>2. CASE AllTagged(r, m)
        <4>1. more = m
          BY <3>2
        <4>2. \E i \in 1..n : batch[r][i].tagged
          <5>1. 1 \in DOMAIN m /\ m[1] \in 1..n
            BY <2>13, <2>18
          <5>2. QED
            BY <3>2, <5>1 DEF AllTagged
        <4>3. tags = o => tags \o more = o \o m
          BY <4>1
        <4>4. Len(tags) < Len(o) => Len(tags \o more) < Len(o \o m)
          BY <2>10, <2>12, <2>13, <4>1
        <4> HIDE DEF more
        <4>5. QED
          BY <2>2, <2>14, <3>1, <4>2, <4>3, <4>4 DEF TagsInv
      <3>3. CASE ~AllTagged(r, m)
        <4>1. \E i \in 1..n : ~batch[r][i].tagged
          BY <2>18, <3>3 DEF AllTagged
        <4>2. tags \o more = tags
          <5>1. more = <<>>
            BY <3>3
          <5>2. tags \o <<>> = tags
            BY <2>3
          <5>3. QED
            BY <5>1, <5>2
        <4>3. Len(tags) <= Len(o)
          BY <2>13, <3>1
        <4>4. Len(tags) < Len(o \o m)
          BY <2>10, <2>13, <4>3
        <4> HIDE DEF more
        <4>5. QED
          BY <2>2, <2>14, <3>1, <4>1, <4>2, <4>4 DEF TagsInv
      <3>4. QED
        BY <3>2, <3>3
    <2>20. \A i \in 1..n : i \in ToSet(o \o m) <=> \E d \in 1..c : i \in ToSet(q[d])
      <3>1. \A d \in 1..c : d \in 1..ran[r] \/ d = c
        BY <2>6 DEF c
      <3>2. \A d \in 1..ran[r] : d \in 1..c
        BY <2>6 DEF c
      <3>3. c \in 1..c
        BY <2>6
      <3>4. QED
        BY <2>5, <2>10, <3>1, <3>2, <3>3 DEF m
    <2>21. mode.dynamic \/
             /\ Divisible(r)
             /\ q = [d \in 1..Chunks(r) |-> [i \in 1..Size(r) |-> (d - 1) * Size(r) + i]]
             /\ o \o m = [i \in 1..(c * Size(r)) |-> i]
      <3> SUFFICES ASSUME ~mode.dynamic
                   PROVE  /\ Divisible(r)
                          /\ q = [d \in 1..Chunks(r) |->
                                    [i \in 1..Size(r) |-> (d - 1) * Size(r) + i]]
                          /\ o \o m = [i \in 1..(c * Size(r)) |-> i]
        OBVIOUS
      <3> DEFINE size == Size(r)
                 a == ran[r] * size
      <3>1. /\ Divisible(r)
            /\ q = [d \in 1..Chunks(r) |-> [i \in 1..size |-> (d - 1) * size + i]]
            /\ o = [i \in 1..a |-> i]
        BY <1>2, <2>4 DEF RunInv, q, o
      <3>2. size \in Nat
        <4>1. Chunks(r) \in Nat \ {0}
          <5>1. ~mode.dynamic /\ LimitInv
            BY IInvParts
          <5>2. Len(batch[r]) \div mode.limit \in Int
            BY <2>1, <5>1, LimitIs DEF n
          <5>3. QED
            BY <5>2 DEF Chunks
        <4>2. QED
          BY <2>1, <4>1 DEF Size, n
      <3> HIDE DEF size
      <3>3. a \in Nat /\ a + size = c * size /\ (c - 1) * size = a
        BY <2>6, <3>2 DEF c
      <3>4. m = [i \in 1..size |-> a + i]
        <4>1. c \in 1..Chunks(r)
          <5>1. DOMAIN q = 1..Chunks(r)
            BY <3>1
          <5>2. QED
            BY <2>6, <5>1
        <4>2. m = [i \in 1..size |-> (c - 1) * size + i]
          BY <3>1, <4>1 DEF m
        <4>3. QED
          BY <3>3, <4>2
      <3> HIDE DEF a
      <3>5. o \o m = [i \in 1..(a + size) |-> i]
        BY <3>1, <3>2, <3>3, <3>4, CountedOn
      <3>6. QED
        BY <3>1, <3>3, <3>5 DEF size
    <2>22. RunInv(r)'
      <3>1. /\ Divisible(r)' <=> Divisible(r)
            /\ Size(r)' = Size(r) /\ Chunks(r)' = Chunks(r) /\ mode' = mode
        BY <1>2 DEF Given, Divisible, Size, Chunks
      <3>2. ran'[r] <= Len(micro'[r])
        BY <2>6, <2>14
      <3> DEFINE z == o \o m
      <3>3. output'[r].log_probs = z
        BY <2>2
      <3>4. /\ Distinct(z)
            /\ \A i \in 1..n : i \in ToSet(z) <=> \E d \in 1..c : i \in ToSet(q[d])
        BY <2>10, <2>20
      <3>5. mode.dynamic \/
             /\ Divisible(r)
             /\ q = [d \in 1..Chunks(r) |-> [i \in 1..Size(r) |-> (d - 1) * Size(r) + i]]
             /\ z = [i \in 1..(c * Size(r)) |-> i]
        BY <2>21
      <3> HIDE DEF z
      <3>6. QED
        BY <2>5, <2>14, <2>19, <3>1, <3>2, <3>3, <3>4, <3>5 DEF RunInv
    <2>23. QED
      BY <2>15, <2>16, <2>17, <2>22 DEF RankInv
  <1>5. \A r \in Ranks : pc'[r] = "run"
    BY <1>2
  <1>6. QED
    BY <1>2, <1>3, <1>4, <1>5, AllMoved

\* The chunks of a rank's batch make it up, and every sample is in one of them.
LEMMA CollectStep ==
    ASSUME IInv, NEW r \in Ranks, Collect(r)
    PROVE  IInv'
  <1> DEFINE n == Len(batch[r])
             q == micro[r]
             o == output[r].log_probs
  <1>1. Typed /\ LimitInv /\ RankTypes(r) /\ RankInv(r)
    BY IInvParts
  <1>2. /\ pc[r] = "run" /\ ran[r] = Len(q)
        /\ pc' = [pc EXCEPT ![r] = IF mode.training THEN "optimizer" ELSE "loss"]
        /\ Given /\ UNCHANGED <<count, heap, micro, ran, output>>
    BY DEF Collect, MoveOn, Given
  <1>3. Typed' /\ pc'[r] = IF mode.training THEN "optimizer" ELSE "loss"
    BY <1>1, <1>2 DEF Typed, Given, PCs
  <1>4. \A x \in Ranks \ {r} : Same(x)
    BY <1>1, <1>2 DEF Same, Typed
  <1>5. n \in Nat \ {0} /\ Samples(r) = 1..n /\ mode.limit \in Nat \ {0}
    BY <1>1, BatchIs, LimitIs
  <1>6. /\ Parts(q, 1..n) /\ Distinct(o) /\ TagsInv(r)
        /\ \A i \in 1..n : i \in ToSet(o) <=> \E d \in 1..ran[r] : i \in ToSet(q[d])
        /\ mode.dynamic \/
             /\ Divisible(r)
             /\ q = [d \in 1..Chunks(r) |-> [i \in 1..Size(r) |-> (d - 1) * Size(r) + i]]
             /\ o = [i \in 1..(ran[r] * Size(r)) |-> i]
    BY <1>1, <1>2, <1>5 DEF RankInv, RunInv
  <1>7. ToSet(o) = 1..n
    <2>1. o \in Seq(1..n)
      BY <1>1, <1>5 DEF RankTypes
    <2>2. ToSet(o) \subseteq 1..n
      BY <2>1, ElementsOf
    <2>3. DOMAIN q = 1..Len(q)
      BY <1>6, SequenceIs DEF Parts
    <2>4. \A i \in 1..n : \E d \in 1..ran[r] : i \in ToSet(q[d])
      BY <1>2, <1>6, <2>3 DEF Parts
    <2>5. QED
      BY <1>6, <2>2, <2>4
  <1>8. mode.dynamic \/ o = [i \in 1..n |-> i]
    <2> SUFFICES ASSUME ~mode.dynamic PROVE o = [i \in 1..n |-> i]
      OBVIOUS
    <2> DEFINE k == Chunks(r)
               size == Size(r)
    <2>1. k \in Nat \ {0}
      <3>1. Len(batch[r]) \div mode.limit \in Int
        BY <1>5
      <3>2. QED
        BY <3>1 DEF Chunks
    <2>2. n % k = 0 /\ size = n \div k
      BY <1>6 DEF Divisible, Size
    <2>3. DOMAIN q = 1..k
      BY <1>6
    <2>4. DOMAIN q = 1..Len(q) /\ Len(q) \in Nat
      BY <1>6, SequenceIs DEF Parts
    <2>5. o = [i \in 1..(ran[r] * size) |-> i]
      BY <1>6
    <2> HIDE DEF n, k, size, q, o
    <2>6. Len(q) = k
      <3>1. \A l \in Nat : Cardinality(1..l) = l
        BY FS_Interval
      <3>2. 1..Len(q) = 1..k
        BY <2>3, <2>4
      <3>3. Cardinality(1..Len(q)) = Len(q) /\ Cardinality(1..k) = k
        BY <2>1, <2>4, <3>1
      <3>4. QED
        BY <3>2, <3>3
    <2>7. n = k * size
      <3>1. n \div k \in Nat /\ n = k * (n \div k) + (n % k)
        BY <1>5, <2>1
      <3>2. QED
        BY <1>5, <2>1, <2>2, <3>1
    <2>8. QED
      BY <1>2, <2>5, <2>6, <2>7
  <1>9. Samples(r)' = 1..n /\ mode' = mode /\ output'[r] = output[r] /\ heap'[r] = heap[r]
    BY <1>2, <1>5 DEF Given, Samples
  <1>10. RankTypes(r)'
    BY <1>1, <1>2, <1>5, <1>9 DEF RankTypes
  <1>11. HeapInv(r)'
    BY <1>1, <1>2, <1>3, HeapKept DEF RankInv
  <1>12. StageInv(r)' /\ RunInv(r)'
    BY <1>3 DEF StageInv, RunInv
  <1>13. DoneInv(r)'
    <2>1. TagsInv(r)'
      BY <1>2, <1>5, <1>6, <1>9 DEF TagsInv, Given
    <2>2. QED
      BY <1>3, <1>6, <1>7, <1>8, <1>9, <2>1 DEF DoneInv
  <1>14. QED
    BY <1>2, <1>3, <1>4, <1>10, <1>11, <1>12, <1>13, OneMoved DEF RankInv

\* Training drops the rows.
LEMMA OptimizerInvStep ==
    ASSUME IInv, OptimizerStep
    PROVE  IInv'
  <1>1. Typed /\ \A r \in Ranks : RankTypes(r) /\ RankInv(r)
    BY IInvParts
  <1>2. /\ \A r \in Ranks : pc[r] = "optimizer"
        /\ output' = [r \in Ranks |-> NoOutput]
        /\ pc' = [r \in Ranks |-> "loss"]
        /\ Given /\ UNCHANGED <<count, heap, micro, ran>>
    BY DEF OptimizerStep, Together, Given
  <1>3. Typed' /\ \A r \in Ranks : pc'[r] = "loss" /\ output'[r] = NoOutput
    BY <1>1, <1>2 DEF Typed, Given, PCs
  <1>4. ASSUME NEW r \in Ranks PROVE RankTypes(r)' /\ RankInv(r)'
    <2>1. mode'.training
      BY <1>1, <1>2 DEF RankInv, DoneInv, Given
    <2>2. Samples(r)' = Samples(r)
      BY <1>2 DEF Given, Samples
    <2>3. \A S : <<>> \in Seq(S)
      OBVIOUS
    <2>4. RankTypes(r)'
      BY <1>1, <1>2, <1>3, <2>2, <2>3 DEF RankTypes, NoOutput
    <2>5. HeapInv(r)'
      BY <1>1, <1>2, <1>3, HeapKept DEF RankInv
    <2>6. StageInv(r)' /\ RunInv(r)' /\ DoneInv(r)'
      BY <1>3, <2>1 DEF StageInv, RunInv, DoneInv
    <2>7. QED
      BY <2>4, <2>5, <2>6 DEF RankInv
  <1>5. QED
    BY <1>2, <1>3, <1>4, AllMoved

\* The call returns rows that belong together, or the batch was tagged in part.
LEMMA ReduceLossStep ==
    ASSUME IInv, ReduceLoss
    PROVE  IInv'
  <1>1. Typed /\ \A r \in Ranks : RankTypes(r) /\ RankInv(r)
    BY IInvParts
  <1>2. /\ \A r \in Ranks : pc[r] = "loss"
        /\ pc' = [r \in Ranks |-> IF SameRows(output[r]) THEN "returned" ELSE "raised"]
        /\ Given /\ UNCHANGED <<count, heap, micro, ran, output>>
    BY DEF ReduceLoss, Together, Given
  <1>3. Typed'
    BY <1>1, <1>2 DEF Typed, Given, PCs
  <1>4. ASSUME NEW r \in Ranks
        PROVE  /\ RankTypes(r)' /\ RankInv(r)'
               /\ pc'[r] = "raised" => Cause(r)
               /\ pc'[r] = "returned" /\ ~mode.training => Aligned(r)'
    <2> DEFINE n == Len(batch[r])
               o == output[r].log_probs
               tags == output[r].tags
    <2>1. pc'[r] = IF SameRows(output[r]) THEN "returned" ELSE "raised"
      BY <1>2
    <2>2. RankTypes(r)' /\ RankInv(r)'
      BY <1>1, <1>2, <2>1, RankStops
    <2>3. n \in Nat /\ Samples(r) = 1..n /\ o \in Seq(1..n) /\ tags \in Seq(1..n)
      BY <1>1, BatchIs DEF RankTypes
    <2>4. CASE mode.training
      <3>1. output[r] = NoOutput
        BY <1>1, <1>2, <2>4 DEF RankInv, DoneInv
      <3>2. SameRows(output[r])
        BY <3>1 DEF SameRows, NoOutput
      <3>3. QED
        BY <2>1, <2>2, <2>4, <3>2
    <2>5. CASE ~mode.training
      <3>1. /\ Distinct(o) /\ ToSet(o) = Samples(r) /\ TagsInv(r)
            /\ mode.dynamic \/ o = [i \in Samples(r) |-> i]
        BY <1>1, <1>2, <2>5 DEF RankInv, DoneInv
      <3>2. Len(o) \in Nat /\ Len(tags) \in Nat
        BY <2>3, SequenceIs
      <3>3. ASSUME pc'[r] = "raised" PROVE Cause(r)
        <4>1. tags # <<>> /\ Len(tags) # Len(o)
          BY <2>1, <3>3 DEF SameRows
        <4>2. /\ \E i \in Samples(r) : ~batch[r][i].tagged
              /\ \E i \in Samples(r) : batch[r][i].tagged
          BY <3>1, <4>1 DEF TagsInv
        <4>3. QED
          BY <2>5, <4>2 DEF Cause
      <3>4. ASSUME pc'[r] = "returned" PROVE Aligned(r)'
        <4>1. Len(o) = n
          BY <2>3, <3>1, ListedOnce
        <4>2. tags = <<>> \/ tags = o
          <5>1. tags = <<>> \/ Len(tags) = Len(o)
            BY <2>1, <3>4 DEF SameRows
          <5>2. tags = o \/ Len(tags) < Len(o)
            BY <3>1 DEF TagsInv
          <5>3. QED
            BY <3>2, <5>1, <5>2
        <4>3. Aligned(r)
          BY <3>1, <4>1, <4>2 DEF Aligned
        <4>4. QED
          BY <1>2, <4>3 DEF Aligned, Given, Samples
      <3>5. QED
        BY <2>2, <3>3, <3>4
    <2>6. QED
      BY <2>4, <2>5
  <1>5. QED
    BY <1>2, <1>3, <1>4, AllMoved

\* Nothing happens to the invariant when nothing happens.
LEMMA StutterStep ==
    ASSUME IInv, UNCHANGED vars
    PROVE  IInv'
  <1>1. Typed /\ \A r \in Ranks : RankTypes(r) /\ RankInv(r)
    BY IInvParts
  <1>2. Given /\ \A r \in Ranks : Same(r)
    BY DEF vars, Given, Same
  <1>3. Typed'
    BY <1>1 DEF vars, Typed
  <1>4. \A r \in Ranks : RankTypes(r)' /\ RankInv(r)'
    BY <1>1, <1>2, SameRank
  <1>5. QED
    BY <1>2, <1>3, <1>4, AllMoved DEF Same

-----------------------------------------------------------------------------
(* The theorems.                                                            *)

\* The inductive invariant: every reachable state of the call, on any number of ranks,
\* has the partitioner's states, the micro-batches and the collected rows as
\* described above.
THEOREM InvariantHolds == Spec => []IInv
  <1>1. Init => IInv
    BY InitInv
  <1>2. IInv /\ [Next]_vars => IInv'
    <2> SUFFICES ASSUME IInv, [Next]_vars PROVE IInv'
      OBVIOUS
    <2>1. ASSUME NEW r \in Ranks, Step(r) PROVE IInv'
      <3>1. CASE Count(r)
        BY <3>1, CountStep
      <3>2. CASE Chunk(r)
        BY <3>2, ChunkStep
      <3>3. CASE Merge(r)
        BY <3>3, MergeStep
      <3>4. CASE Schedule(r)
        BY <3>4, ScheduleStep
      <3>5. CASE Collect(r)
        BY <3>5, CollectStep
      <3>6. CASE Kill(r)
        BY <3>6, KillStep
      <3>7. QED
        BY <2>1, <3>1, <3>2, <3>3, <3>4, <3>5, <3>6 DEF Step
    <2>2. CASE ReduceTokens
      BY <2>2, ReduceTokensStep
    <2>3. CASE Agree
      BY <2>3, AgreeStep
    <2>4. CASE RunMicroBatch
      BY <2>4, RunStep
    <2>5. CASE OptimizerStep
      BY <2>5, OptimizerInvStep
    <2>6. CASE ReduceLoss
      BY <2>6, ReduceLossStep
    <2>7. CASE UNCHANGED vars
      BY <2>7, StutterStep
    <2>8. QED
      BY <2>1, <2>2, <2>3, <2>4, <2>5, <2>6, <2>7 DEF Next, Meet, Ended
  <1>3. QED
    BY <1>1, <1>2, PTL DEF Spec

\* Every variable stays in its type.
THEOREM TypeCorrect == Spec => []TypeOK
  BY InvariantHolds, PTL DEF IInv

\* No rank raises because of another rank's count, or because the partitioner
\* left a group empty (the assertions at seqlen_balancing.py:246 and 398).
THEOREM RaiseHasCause == Spec => []RaisesForCause
  BY InvariantHolds, PTL DEF IInv

\* What a validation step returns is one row for each sample, in the batch's
\* order without dynamic batches, and with the keys aligned.
THEOREM RowsStayAligned == Spec => []RowsAligned
  BY InvariantHolds, PTL DEF IInv

\* The largest differencing method balances the groups to within one sample.
THEOREM GroupsAreBalanced == Spec => []BalanceBound
  <1>1. IInv => BalanceBound
    <2> SUFFICES ASSUME IInv, NEW r \in Ranks, NEW s \in heap[r],
                        NEW j \in DOMAIN s, NEW l \in DOMAIN s
                 PROVE  \E i \in Samples(r) :
                            s[j].sum - s[l].sum <= Workload(batch[r][i].len)
      BY DEF BalanceBound
    <2>1. HeapInv(r)
      BY IInvParts DEF RankInv
    <2>2. DOMAIN s = 1..count[r]
      BY <2>1 DEF HeapInv, StateInv, GroupsInv
    <2>3. PICK i \in Samples(r) : Within(s, count[r], Workload(batch[r][i].len))
      BY <2>1 DEF HeapInv
    <2>4. QED
      BY <2>2, <2>3 DEF Within
  <1>2. QED
    BY <1>1, InvariantHolds, PTL
=============================================================================
