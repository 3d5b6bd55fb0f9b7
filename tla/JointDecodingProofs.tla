------------------------ MODULE JointDecodingProofs ------------------------
(***************************************************************************)
(* Proofs about JointDecoding, for every token limit and every limit on    *)
(* the parts.                                                              *)
(***************************************************************************)
EXTENDS JointDecoding, FiniteSetsExt, FiniteSetTheorems, SequenceTheorems, TLAPS

-----------------------------------------------------------------------------
(* Ranks and order in finite sets of integers.                              *)

\* The elements of a finite set of integers have ranks: within 1 and the size
\* of the set, and growing with the elements.
LEMMA RankType ==
  ASSUME NEW S \in SUBSET Int, IsFiniteSet(S)
  PROVE  /\ Cardinality(S) \in Nat
         /\ \A i \in Int : Rank(S, i) \in 0..Cardinality(S)
         /\ \A i \in S : Rank(S, i) \in 1..Cardinality(S)
         /\ \A i \in S, j \in Int : j < i => Rank(S, j) < Rank(S, i)
         /\ \A i, j \in Int : i <= j => Rank(S, i) <= Rank(S, j)
<1> DEFINE U(i) == {j \in S : j <= i}
<1>1. \A i \in Int : /\ IsFiniteSet(U(i)) /\ Cardinality(U(i)) \in Nat
                     /\ Cardinality(U(i)) <= Cardinality(S)
  BY FS_Subset, FS_CardinalityType
<1>2. Cardinality(S) \in Nat
  BY FS_CardinalityType
<1>3. \A i \in S : Cardinality(U(i)) # 0
  <2> SUFFICES ASSUME NEW i \in S PROVE Cardinality(U(i)) # 0
    OBVIOUS
  <2>1. i \in U(i)
    OBVIOUS
  <2>2. IsFiniteSet(U(i))
    BY <1>1
  <2> HIDE DEF U
  <2> QED
    BY <2>1, <2>2, FS_EmptySet
<1>4. \A i, j \in Int : i <= j => Cardinality(U(i)) <= Cardinality(U(j))
  <2> SUFFICES ASSUME NEW i \in Int, NEW j \in Int, i <= j
               PROVE  Cardinality(U(i)) <= Cardinality(U(j))
    OBVIOUS
  <2>0. \A x \in S : x <= i => x <= j
    OBVIOUS
  <2>1. U(i) \in SUBSET U(j)
    BY <2>0
  <2>2. IsFiniteSet(U(j))
    BY <1>1
  <2> HIDE DEF U
  <2> QED
    BY <2>1, <2>2, FS_Subset
<1>5. \A i \in S, j \in Int : j < i => Cardinality(U(j)) < Cardinality(U(i))
  <2> SUFFICES ASSUME NEW i \in S, NEW j \in Int, j < i
               PROVE  Cardinality(U(j)) < Cardinality(U(i))
    OBVIOUS
  <2>0. (\A x \in S : x <= j => x <= i) /\ i <= i /\ ~(i <= j)
    OBVIOUS
  <2>1. U(j) \in SUBSET U(i) /\ i \in U(i) /\ i \notin U(j)
    BY <2>0
  <2>2. IsFiniteSet(U(i)) /\ Cardinality(U(i)) \in Nat /\ Cardinality(U(j)) \in Nat
    BY <1>1
  <2> HIDE DEF U
  <2>3. Cardinality(U(j)) <= Cardinality(U(i))
        /\ (Cardinality(U(i)) = Cardinality(U(j)) => U(i) = U(j))
    BY <2>1, <2>2, FS_Subset
  <2> QED
    BY <2>1, <2>2, <2>3
<1>6. \A i : Rank(S, i) = Cardinality(U(i))
  BY DEF Rank
<1> HIDE DEF U
<1>7. \A i \in S : i \in Int
  OBVIOUS
<1> QED
  BY <1>1, <1>2, <1>3, <1>4, <1>5, <1>6, <1>7

\* Every number up to the size of the set is the rank of one element.
LEMMA RankOnto ==
  ASSUME NEW S \in SUBSET Int, IsFiniteSet(S)
  PROVE  \A k \in 1..Cardinality(S) : \E i \in S : Rank(S, i) = k
<1> DEFINE r == [i \in S |-> Rank(S, i)]
<1> DEFINE C == 1..Cardinality(S)
<1>1. r \in [S -> C]
  BY RankType
<1>2. \A i, j \in S : r[i] = r[j] => i = j
  <2> SUFFICES ASSUME NEW i \in S, NEW j \in S, i # j PROVE Rank(S, i) # Rank(S, j)
    OBVIOUS
  <2>1. i < j \/ j < i
    OBVIOUS
  <2>2. Rank(S, i) \in Int /\ Rank(S, j) \in Int
    BY RankType
  <2> QED
    BY <2>1, <2>2, RankType
<1>3. r \in Injection(S, C)
  BY <1>1, <1>2 DEF Injection, IsInjective
<1>4. IsFiniteSet(C) /\ Cardinality(C) = Cardinality(S)
  BY FS_Interval, FS_CardinalityType
<1>5. r \in Surjection(S, C)
  <2> HIDE DEF r, C
  <2> QED
    BY <1>3, <1>4, FS_Injection
<1> QED
  BY <1>5 DEF Surjection

\* The elements in their order: each position holds the element of that rank.
LEMMA InOrderIs ==
  ASSUME NEW S \in SUBSET Int, IsFiniteSet(S)
  PROVE  /\ InOrder(S) \in Seq(S)
         /\ Len(InOrder(S)) = Cardinality(S)
         /\ \A k \in 1..Cardinality(S) :
               InOrder(S)[k] \in S /\ Rank(S, InOrder(S)[k]) = k
<1>1. \A k \in 1..Cardinality(S) :
          InOrder(S)[k] \in S /\ Rank(S, InOrder(S)[k]) = k
  BY RankOnto DEF InOrder
<1>2. Cardinality(S) \in Nat
  BY FS_CardinalityType
<1>3. InOrder(S) = [k \in 1..Cardinality(S) |-> InOrder(S)[k]]
  BY DEF InOrder
<1>4. InOrder(S) \in [1..Cardinality(S) -> S]
  BY <1>1, <1>3
<1>5. InOrder(S) \in Seq(S)
  BY <1>2, <1>4, SeqDef
<1>6. DOMAIN InOrder(S) = 1..Cardinality(S)
  BY <1>4
<1> QED
  BY <1>1, <1>2, <1>5, <1>6, LenProperties

\* A finite set of integers with an element has a least and a greatest one.
LEMMA MinMaxIs ==
  ASSUME NEW S \in SUBSET Int, IsFiniteSet(S), S # {}
  PROVE  /\ Min(S) \in S /\ \A x \in S : Min(S) <= x
         /\ Max(S) \in S /\ \A x \in S : x <= Max(S)
<1>1. Cardinality(S) \in Nat \ {0}
  BY FS_CardinalityType, FS_EmptySet
<1>2. PICK a \in S : Rank(S, a) = 1
  BY <1>1, RankOnto
<1>3. PICK z \in S : Rank(S, z) = Cardinality(S)
  BY <1>1, RankOnto
<1>4. \A x \in S : a <= x
  <2> SUFFICES ASSUME NEW x \in S, x < a PROVE FALSE
    OBVIOUS
  <2> QED
    BY <1>2, RankType
<1>5. \A x \in S : x <= z
  <2> SUFFICES ASSUME NEW x \in S, z < x PROVE FALSE
    OBVIOUS
  <2> QED
    BY <1>1, <1>3, RankType
<1>6. Min(S) \in S /\ \A x \in S : Min(S) <= x
  BY <1>4 DEF Min
<1>7. Max(S) \in S /\ \A x \in S : Max(S) >= x
  <2>1. \A x \in S : z >= x
    BY <1>5
  <2> QED
    BY <2>1 DEF Max
<1> QED
  BY <1>6, <1>7

\* A growing function from one set of integers onto another keeps the ranks,
\* and with them the number of elements.
LEMMA RankImage ==
  ASSUME NEW S \in SUBSET Int, IsFiniteSet(S), NEW T \in SUBSET Int,
         NEW L \in [S -> T], \A k \in T : \E x \in S : L[x] = k,
         \A x, y \in S : x < y => L[x] < L[y]
  PROVE  /\ IsFiniteSet(T) /\ Cardinality(T) = Cardinality(S)
         /\ \A x \in S : Rank(T, L[x]) = Rank(S, x)
<1>1. \A x, y \in S : x < y \/ y < x \/ x = y
  OBVIOUS
<1>2. \A x \in S : L[x] \in Int
  OBVIOUS
<1>3. \A x, y \in S : L[x] = L[y] => x = y
  BY <1>1, <1>2
<1>4. \A x, y \in S : y <= x <=> L[y] <= L[x]
  BY <1>1, <1>2
<1>5. L \in Bijection(S, T)
  BY <1>3 DEF Bijection, Injection, Surjection, IsInjective
<1>6. IsFiniteSet(T) /\ Cardinality(T) = Cardinality(S)
  BY <1>5, FS_Bijection DEF ExistsBijection
<1>7. ASSUME NEW x \in S PROVE Rank(T, L[x]) = Rank(S, x)
  <2> DEFINE A == {y \in S : y <= x}
             B == {k \in T : k <= L[x]}
             g == [y \in A |-> L[y]]
  <2>1. g \in [A -> B]
    BY <1>4
  <2>2. \A y, z \in A : g[y] = g[z] => y = z
    BY <1>3
  <2>3. \A k \in B : \E y \in A : g[y] = k
    BY <1>4
  <2> HIDE DEF g
  <2>4. g \in Bijection(A, B)
    BY <2>1, <2>2, <2>3 DEF Bijection, Injection, Surjection, IsInjective
  <2>5. IsFiniteSet(A)
    BY FS_Subset
  <2> HIDE DEF A, B
  <2>6. Cardinality(B) = Cardinality(A)
    BY <2>4, <2>5, FS_Bijection DEF ExistsBijection
  <2> QED
    BY <2>6 DEF Rank, A, B
<1> QED
  BY <1>6, <1>7

-----------------------------------------------------------------------------
(* Sequences of tokens.                                                     *)

\* The stop tokens and the reason "none" are what they are.
LEMMA TokenFacts ==
  /\ StopIds \subseteq Tokens
  /\ NoReason \notin StopIds
  /\ "seg" \in Tokens \ StopIds
  /\ "bg" \in StopIds
BY DEF StopIds, Tokens, NoReason

\* Positions of a token are finite in number and numbers of the sequence.
LEMMA PositionsType ==
  ASSUME NEW s \in Seq(Tokens), NEW t
  PROVE  /\ Positions(s, t) \subseteq 1..Len(s)
         /\ Positions(s, t) \in SUBSET Int
         /\ IsFiniteSet(Positions(s, t))
         /\ Cardinality(Positions(s, t)) \in Nat
<1>1. Positions(s, t) \subseteq 1..Len(s)
  BY DEF Positions
<1>2. IsFiniteSet(1..Len(s))
  BY LenProperties, FS_Interval
<1>3. IsFiniteSet(Positions(s, t)) /\ Cardinality(Positions(s, t)) \in Nat
  BY <1>1, <1>2, FS_Subset, FS_CardinalityType
<1> QED
  BY <1>1, <1>3

\* One more token adds one position of its kind.
LEMMA PositionsAppend ==
  ASSUME NEW s \in Seq(Tokens), NEW e \in Tokens, NEW t
  PROVE  /\ Positions(Append(s, e), t) =
               IF e = t THEN Positions(s, t) \cup {Len(s) + 1} ELSE Positions(s, t)
         /\ Cardinality(Positions(Append(s, e), t)) =
               Cardinality(Positions(s, t)) + (IF e = t THEN 1 ELSE 0)
<1> DEFINE a == Append(s, e)
           P == Positions(s, t)
<1>1. /\ Len(s) \in Nat /\ Len(a) = Len(s) + 1
      /\ \A i \in 1..Len(s) : a[i] = s[i]
      /\ a[Len(s) + 1] = e
  BY AppendProperties, LenProperties
<1> HIDE DEF a
<1>2. Positions(a, t) = IF e = t THEN P \cup {Len(s) + 1} ELSE P
  <2>1. \A i : i \in 1..(Len(s) + 1) <=> i \in 1..Len(s) \/ i = Len(s) + 1
    BY <1>1
  <2>2. \A i : i \in Positions(a, t) <=>
              (i \in 1..Len(s) /\ s[i] = t) \/ (i = Len(s) + 1 /\ e = t)
    BY <1>1, <2>1 DEF Positions
  <2> QED
    BY <2>2 DEF Positions
<1>3. P \subseteq 1..Len(s) /\ IsFiniteSet(P) /\ Cardinality(P) \in Nat
  BY PositionsType
<1>4. Len(s) + 1 \notin P
  BY <1>1, <1>3
<1> HIDE DEF P
<1>5. Cardinality(P \cup {Len(s) + 1}) = Cardinality(P) + 1
  BY <1>3, <1>4, FS_AddElement
<1>6. Cardinality(P) + 0 = Cardinality(P)
  BY <1>3
<1> QED
  BY <1>2, <1>5, <1>6 DEF a, P

\* Ranks of the old positions stay.
LEMMA RankAppend ==
  ASSUME NEW s \in Seq(Tokens), NEW e \in Tokens, NEW i \in 1..Len(s)
  PROVE  Rank(Positions(Append(s, e), "seg"), i) = Rank(Positions(s, "seg"), i)
<1>1. Len(s) \in Nat
  BY LenProperties
<1>2. \A j : j \in Positions(Append(s, e), "seg") /\ j <= i
              <=> j \in Positions(s, "seg") /\ j <= i
  <2>1. ~(Len(s) + 1 <= i)
    BY <1>1
  <2> QED
    BY <2>1, PositionsAppend
<1>3. {j \in Positions(Append(s, e), "seg") : j <= i}
        = {j \in Positions(s, "seg") : j <= i}
  BY <1>2
<1> QED
  BY <1>3 DEF Rank

\* The last position has the rank that counts all.
LEMMA RankLast ==
  ASSUME NEW s \in Seq(Tokens)
  PROVE  Rank(Positions(s, "seg"), Len(s)) = Cardinality(Positions(s, "seg"))
<1>1. \A j \in Positions(s, "seg") : j <= Len(s)
  BY LenProperties DEF Positions
<1>2. {j \in Positions(s, "seg") : j <= Len(s)} = Positions(s, "seg")
  BY <1>1
<1> QED
  BY <1>2 DEF Rank

-----------------------------------------------------------------------------
(* Stopping at the SEG limit, and cutting there afterwards.                 *)

\* An answer that goes on, or may: no stop token, not yet too long.
Open(s) == Len(s) < MaxNew /\ \A i \in 1..Len(s) : s[i] \notin StopIds

\* An answer that is over: at most the last token is a stop token.
Ended(s) ==
    /\ s # <<>> /\ Len(s) <= MaxNew
    /\ \A i \in 1..(Len(s) - 1) : s[i] \notin StopIds

\* The limit m is one, and reached.
Full(m, s) == m > 0 /\ Cardinality(Positions(s, "seg")) >= m

\* The positions from the SEG on that reaches the limit m.
Reached(m, s) ==
    {i \in Positions(s, "seg") : Rank(Positions(s, "seg"), i) >= m}

\* What a cut at the limit m leaves.
Cut(m, s) ==
    IF m <= 0 \/ Reached(m, s) = {} THEN s ELSE SubSeq(s, 1, Min(Reached(m, s)))

\* This is the cut of truncate_on_max_seg, at the limit of the command line.
LEMMA CutIs ==
  ASSUME NEW s
  PROVE  TruncateOnMaxSeg(s) = Cut(args.max_generated_parts, s)
BY DEF TruncateOnMaxSeg, Cut, Reached

\* One token after an open answer is an ended one, or an open one if generate
\* goes on.
LEMMA OneMore ==
  ASSUME NEW s \in Seq(Tokens), NEW e \in Tokens, Open(s)
  PROVE  /\ Append(s, e) \in Seq(Tokens)
         /\ Last(Append(s, e)) = e
         /\ Ended(Append(s, e))
         /\ ~AtEnd(Append(s, e)) => Open(Append(s, e))
<1> DEFINE a == Append(s, e)
<1>1. /\ a \in Seq(Tokens) /\ a # <<>>
      /\ Len(s) \in Nat /\ Len(a) = Len(s) + 1
      /\ \A i \in 1..Len(s) : a[i] = s[i]
      /\ a[Len(s) + 1] = e
  BY AppendProperties, LenProperties
<1> HIDE DEF a
<1>2. MaxNew \in Nat
  BY MaxNewAssumption
<1>3. Last(a) = e
  BY <1>1 DEF Last
<1>4. \A i \in 1..Len(s) : a[i] \notin StopIds
  BY <1>1 DEF Open
<1>5. Ended(a)
  <2>1. Len(a) <= MaxNew /\ 1..(Len(a) - 1) = 1..Len(s)
    BY <1>1, <1>2 DEF Open
  <2> QED
    BY <2>1, <1>1, <1>4 DEF Ended
<1>6. ASSUME ~AtEnd(a) PROVE Open(a)
  <2>1. Last(a) \notin StopIds /\ Len(a) # MaxNew
    BY <1>6 DEF AtEnd
  <2>2. Len(a) < MaxNew
    BY <2>1, <1>1, <1>2 DEF Open
  <2>3. \A i \in 1..Len(a) : i \in 1..Len(s) \/ i = Len(s) + 1
    BY <1>1
  <2> QED
    BY <2>1, <2>2, <2>3, <1>1, <1>3, <1>4 DEF Open
<1> QED
  BY <1>1, <1>3, <1>5, <1>6 DEF a

\* An answer in which only the last token reached the limit, or none, is left
\* whole by the cut.
LEMMA CutAtEnd ==
  ASSUME NEW s \in Seq(Tokens), NEW e \in Tokens, NEW m \in Int, ~Full(m, s)
  PROVE  Cut(m, Append(s, e)) = Append(s, e)
<1> DEFINE a == Append(s, e)
           P == Positions(a, "seg")
           reached == Reached(m, a)
<1>1. /\ a \in Seq(Tokens) /\ Len(s) \in Nat /\ Len(a) = Len(s) + 1
  BY AppendProperties, LenProperties
<1>2. P \subseteq 1..Len(a) /\ P \in SUBSET Int /\ IsFiniteSet(P)
  BY <1>1, PositionsType
<1>3. CASE m <= 0 \/ reached = {}
  BY <1>3 DEF Cut
<1>4. CASE m > 0 /\ reached # {}
  <2>1. \A i \in 1..Len(s) : Rank(P, i) < m
    <3> SUFFICES ASSUME NEW i \in 1..Len(s) PROVE Rank(P, i) < m
      OBVIOUS
    <3> DEFINE Q == Positions(s, "seg")
    <3>1. Rank(P, i) = Rank(Q, i)
      BY RankAppend
    <3>2. Q \in SUBSET Int /\ IsFiniteSet(Q) /\ Cardinality(Q) \in Nat
      BY PositionsType
    <3>3. Cardinality(Q) < m
      BY <1>4, <3>2 DEF Full
    <3>4. i \in Int
      OBVIOUS
    <3>5. Rank(Q, i) \in 0..Cardinality(Q)
      <4> HIDE DEF Q
      <4> QED
        BY <3>2, <3>4, RankType
    <3> HIDE DEF P, Q
    <3> QED
      BY <3>1, <3>2, <3>3, <3>5
  <2>2. \A i \in reached : i = Len(a)
    <3> SUFFICES ASSUME NEW i \in reached, i # Len(a) PROVE FALSE
      OBVIOUS
    <3>1. i \in 1..Len(s)
      BY <1>1, <1>2 DEF Reached
    <3>2. Rank(P, i) \in Int
      <4> HIDE DEF P
      <4> QED
        BY <1>2, <3>1, RankType
    <3> QED
      BY <2>1, <3>1, <3>2 DEF Reached
  <2>3. reached = {Len(a)}
    BY <1>4, <2>2
  <2>4. Min(reached) = Len(a)
    <3>1. reached \in SUBSET Int /\ IsFiniteSet(reached)
      BY <1>2, FS_Subset DEF Reached
    <3> HIDE DEF reached
    <3> QED
      BY <2>3, <3>1, MinMaxIs
  <2>5. Cut(m, a) = SubSeq(a, 1, Len(a))
    <3>1. ~(m <= 0)
      BY <1>4
    <3> QED
      BY <3>1, <1>4, <2>4 DEF Cut
  <2> QED
    BY <2>5, <1>1, SubSeqFull
<1> QED
  BY <1>3, <1>4

\* Behind the limit more tokens change nothing of what the cut leaves.
LEMMA CutKeeps ==
  ASSUME NEW s \in Seq(Tokens), NEW e \in Tokens, NEW m \in Int, Full(m, s)
  PROVE  Cut(m, Append(s, e)) = Cut(m, s) /\ Full(m, Append(s, e))
<1> DEFINE a == Append(s, e)
           P == Positions(a, "seg")
           Q == Positions(s, "seg")
           now == Reached(m, s)
           then == Reached(m, a)
<1>1. /\ a \in Seq(Tokens) /\ Len(s) \in Nat /\ Len(a) = Len(s) + 1
      /\ \A i \in 1..Len(s) : a[i] = s[i]
  BY AppendProperties, LenProperties
<1>2. /\ P \subseteq 1..Len(a) /\ P \in SUBSET Int /\ IsFiniteSet(P)
      /\ Q \subseteq 1..Len(s) /\ Q \in SUBSET Int /\ IsFiniteSet(Q)
      /\ Cardinality(Q) \in Nat
  BY <1>1, PositionsType
<1>3. now # {}
  <2>1. Cardinality(Q) \in 1..Cardinality(Q) /\ Cardinality(Q) >= m
    BY <1>2 DEF Full
  <2>2. PICK i \in Q : Rank(Q, i) = Cardinality(Q)
    <3> HIDE DEF Q
    <3> QED
      BY <2>1, <1>2, RankOnto
  <2> QED
    BY <2>1, <2>2 DEF Reached
<1>4. \A i \in 1..Len(s) : i \in then <=> i \in now
  <2>1. \A i \in 1..Len(s) : Rank(P, i) = Rank(Q, i)
    BY RankAppend
  <2>2. \A i \in 1..Len(s) : i \in P <=> i \in Q
    BY PositionsAppend, <1>1
  <2> QED
    BY <2>1, <2>2 DEF Reached
<1>5. now \subseteq then /\ \A i \in then : i \in now \/ i = Len(s) + 1
  <2>1. now \subseteq 1..Len(s) /\ then \subseteq 1..Len(a)
    BY <1>2 DEF Reached
  <2> HIDE DEF now, then
  <2> QED
    BY <2>1, <1>1, <1>4
<1>6. /\ now \in SUBSET Int /\ IsFiniteSet(now) /\ now \subseteq 1..Len(s)
      /\ then \in SUBSET Int /\ IsFiniteSet(then)
  BY <1>2, FS_Subset DEF Reached
<1> HIDE DEF now, then
<1>7. Min(now) \in now /\ \A x \in now : Min(now) <= x
  BY <1>3, <1>6, MinMaxIs
<1>8. Min(then) \in then /\ \A x \in then : Min(then) <= x
  BY <1>3, <1>5, <1>6, MinMaxIs
<1>9. Min(then) = Min(now)
  <2>1. Min(now) \in 1..Len(s) /\ Min(now) \in then
    BY <1>5, <1>6, <1>7
  <2>2. Min(then) <= Min(now)
    BY <2>1, <1>8
  <2>3. Min(then) \in now
    BY <2>1, <2>2, <1>1, <1>5, <1>8
  <2>4. Min(now) <= Min(then)
    BY <2>3, <1>7
  <2>5. Min(then) \in Int /\ Min(now) \in Int
    BY <2>1, <1>6, <1>8
  <2> QED
    BY <2>2, <2>4, <2>5
<1>10. SubSeq(a, 1, Min(now)) = SubSeq(s, 1, Min(now))
  <2>1. Min(now) \in 1..Len(s)
    BY <1>6, <1>7
  <2>2. a = s \o <<e>> /\ <<e>> \in Seq(Tokens)
    BY AppendIsConcat
  <2>3. 1 \in 1..Len(s)
    BY <2>1, <1>1
  <2>4. SubSeq(s \o <<e>>, 1, Min(now)) = SubSeq(s, 1, Min(now))
    BY <2>1, <2>2, <2>3, SubSeqOfConcat1
  <2> QED
    BY <2>2, <2>4
<1>11. ~(m <= 0)
  BY DEF Full
<1>12. Cut(m, a) = SubSeq(a, 1, Min(then))
  <2>1. then # {}
    BY <1>3, <1>5
  <2> QED
    BY <2>1, <1>11 DEF Cut, then
<1>13. Cut(m, s) = SubSeq(s, 1, Min(now))
  BY <1>3, <1>11 DEF Cut, now
<1>14. Full(m, a)
  <2>1. Cardinality(P) = Cardinality(Q) + (IF e = "seg" THEN 1 ELSE 0)
    BY PositionsAppend
  <2>2. Cardinality(P) >= Cardinality(Q) /\ Cardinality(P) \in Nat
    BY <2>1, <1>2
  <2> HIDE DEF P, Q
  <2> QED
    BY <2>2, <1>2 DEF Full, P, Q
<1> QED
  BY <1>9, <1>10, <1>12, <1>13, <1>14

-----------------------------------------------------------------------------
(* The stop token, and the background token.                                *)

\* Whatever vLLM hands back of an ended answer, with the stop token put back it
\* is that answer.
LEMMA PreserveRestores ==
  ASSUME NEW s \in Seq(Tokens), Ended(s), NEW c \in Candidates(s)
  PROVE  PreserveStopToken(c.ids, c.reason) = s
<1>1. Len(s) \in Nat \ {0} /\ Last(s) \in Tokens
  BY EmptySeq, ElementOfSeq DEF Ended, Last
<1>2. CASE c.reason \notin StopIds /\ c.ids = s
  BY <1>2 DEF PreserveStopToken
<1>3. CASE c.reason = Last(s) /\ c.ids = s
  BY <1>3, EmptySeq DEF PreserveStopToken, Ended
<1>4. CASE c.reason = Last(s) /\ Last(s) \in StopIds /\ c.ids = Front(s)
  <2> DEFINE f == Front(s)
  <2>1. /\ f \in Seq(Tokens) /\ Len(f) = Len(s) - 1
        /\ \A i \in 1..Len(f) : f[i] = s[i]
    <3>1. \A i \in 1..(Len(s) - 1) : s[i] \in Tokens
      BY <1>1, ElementOfSeq
    <3>2. Len(s) - 1 \in Int /\ 1 \in Int
      BY <1>1
    <3>3. /\ f \in Seq(Tokens)
          /\ Len(f) = IF 1 <= Len(s) - 1 THEN (Len(s) - 1) - 1 + 1 ELSE 0
          /\ \A i \in 1..((Len(s) - 1) - 1 + 1) : f[i] = s[1 + i - 1]
      BY <3>1, <3>2, SubSeqProperties DEF Front
    <3> HIDE DEF f
    <3>4. Len(f) = Len(s) - 1
      <4>1. Len(f) = IF 1 <= Len(s) - 1 THEN (Len(s) - 1) - 1 + 1 ELSE 0
        BY <3>3
      <4>2. Len(s) \in Nat \ {0}
        BY <1>1
      <4> QED
        BY <4>1, <4>2
    <3>5. \A i \in 1..Len(f) : i \in 1..((Len(s) - 1) - 1 + 1) /\ 1 + i - 1 = i
      BY <3>4, <1>1
    <3> QED
      BY <3>3, <3>4, <3>5
  <2> HIDE DEF f
  <2>2. f = <<>> \/ Last(f) # Last(s)
    <3> SUFFICES ASSUME f # <<>> PROVE Last(f) # Last(s)
      OBVIOUS
    <3>1. Len(f) \in 1..(Len(s) - 1) /\ Len(f) \in 1..Len(f)
      BY <2>1, <1>1, EmptySeq
    <3>2. Last(f) = s[Len(f)] /\ s[Len(f)] \notin StopIds
      BY <2>1, <3>1 DEF Ended, Last
    <3> QED
      BY <3>2, <1>4
  <2>3. PreserveStopToken(f, Last(s)) = Append(f, Last(s))
    BY <1>4, <2>2 DEF PreserveStopToken
  <2>4. Append(f, Last(s)) = s
    <3> DEFINE a == Append(f, Last(s))
    <3>1. /\ a \in Seq(Tokens) /\ Len(a) = Len(s)
          /\ \A i \in 1..Len(f) : a[i] = f[i]
          /\ a[Len(f) + 1] = Last(s)
      BY <1>1, <2>1, AppendProperties
    <3> HIDE DEF a
    <3>2. \A i \in 1..Len(a) : a[i] = s[i]
      BY <1>1, <2>1, <3>1 DEF Last
    <3>3. a = s
      BY <3>1, <3>2, SeqEqual
    <3> QED
      BY <3>3 DEF a
  <2> QED
    BY <1>4, <2>3, <2>4 DEF f
<1>5. \/ c.reason \notin StopIds /\ c.ids = s
      \/ c.reason = Last(s) /\ c.ids = s
      \/ c.reason = Last(s) /\ Last(s) \in StopIds /\ c.ids = Front(s)
  BY TokenFacts DEF Candidates
<1> QED
  BY <1>2, <1>3, <1>4, <1>5

\* Where a missing background token goes.
BgPlace(s) == Min(Positions(s, "eos") \cup {Len(s) + 1})

\* In an ended answer that is the last position, or the one behind it: all
\* before it stays, and only an end token moves.
LEMMA InsertBg ==
  ASSUME NEW s \in Seq(Tokens), Ended(s), Positions(s, "bg") = {}
  PROVE  LET p == BgPlace(s)
             f == InsertAt(s, p, "bg")
         IN /\ p \in 1..(Len(s) + 1)
            /\ f \in Seq(Tokens) /\ Len(f) = Len(s) + 1
            /\ \A i \in 1..(p - 1) : f[i] = s[i] /\ s[i] \notin StopIds
            /\ f[p] = "bg"
            /\ \A i \in p..Len(s) : s[i] = "eos" /\ f[i + 1] = "eos"
<1> DEFINE p == BgPlace(s)
           f == InsertAt(s, p, "bg")
           E == Positions(s, "eos")
           T == E \cup {Len(s) + 1}
           l == SubSeq(s, 1, p - 1)
           r == SubSeq(s, p, Len(s))
<1>1. Len(s) \in Nat \ {0} /\ \A i \in 1..Len(s) : s[i] \in Tokens
  BY EmptySeq, ElementOfSeq DEF Ended
<1>2. E \subseteq 1..Len(s) /\ IsFiniteSet(E)
  BY PositionsType
<1>3. T \in SUBSET Int /\ IsFiniteSet(T) /\ T # {}
  <2>1. E \subseteq Int /\ Len(s) + 1 \in Int
    BY <1>1, <1>2
  <2> HIDE DEF E
  <2>2. IsFiniteSet(E \cup {Len(s) + 1})
    BY <1>2, FS_AddElement
  <2> QED
    BY <2>1, <2>2
<1>4. p \in T /\ \A x \in T : p <= x
  <2> HIDE DEF T
  <2>1. Min(T) \in T /\ \A x \in T : Min(T) <= x
    BY <1>3, MinMaxIs
  <2> QED
    BY <2>1 DEF BgPlace, T
<1>5. p \in 1..(Len(s) + 1) /\ (p \in E \/ p = Len(s) + 1)
  BY <1>1, <1>2, <1>4
<1> HIDE DEF p
<1>6. \A i \in 1..(p - 1) : i \in 1..Len(s) /\ s[i] \notin StopIds
  <2> SUFFICES ASSUME NEW i \in 1..(p - 1)
               PROVE  i \in 1..Len(s) /\ s[i] \notin StopIds
    OBVIOUS
  <2>1. i \in 1..Len(s) /\ i < p
    BY <1>1, <1>5
  <2>2. i \notin E
    BY <1>1, <1>4, <1>5, <2>1
  <2>3. s[i] # "eos" /\ s[i] # "bg"
    BY <2>1, <2>2 DEF Positions
  <2> QED
    BY <2>1, <2>3 DEF StopIds
<1>7. \A i \in p..Len(s) : s[i] = "eos"
  <2> SUFFICES ASSUME NEW i \in p..Len(s) PROVE s[i] = "eos"
    OBVIOUS
  <2>1. p \in E
    BY <1>1, <1>5
  <2>2. p \in 1..Len(s) /\ s[p] = "eos"
    BY <2>1 DEF Positions
  <2>3. ~(p \in 1..(Len(s) - 1))
    BY <2>2 DEF Ended, StopIds
  <2>4. i = p
    BY <1>1, <2>2, <2>3
  <2> QED
    BY <2>2, <2>4
<1>8. /\ l \in Seq(Tokens) /\ Len(l) = p - 1
      /\ \A i \in 1..(p - 1) : l[i] = s[i]
  <2>1. p - 1 \in Int /\ 1 \in Int /\ \A i \in 1..(p - 1) : s[i] \in Tokens
    BY <1>1, <1>5, <1>6
  <2>2. /\ l \in Seq(Tokens)
        /\ Len(l) = IF 1 <= p - 1 THEN (p - 1) - 1 + 1 ELSE 0
        /\ \A i \in 1..((p - 1) - 1 + 1) : l[i] = s[1 + i - 1]
    BY <2>1, SubSeqProperties
  <2>3. Len(l) = p - 1
    BY <2>2, <1>5
  <2>4. \A i \in 1..(p - 1) : i \in 1..((p - 1) - 1 + 1) /\ 1 + i - 1 = i
    BY <1>5
  <2> QED
    BY <2>2, <2>3, <2>4
<1>9. /\ r \in Seq(Tokens) /\ Len(r) = Len(s) - p + 1
      /\ \A i \in 1..(Len(s) - p + 1) : r[i] = s[p + i - 1]
  <2>1. p \in Int /\ Len(s) \in Int /\ \A i \in p..Len(s) : s[i] \in Tokens
    BY <1>1, <1>5
  <2>2. /\ r \in Seq(Tokens)
        /\ Len(r) = IF p <= Len(s) THEN Len(s) - p + 1 ELSE 0
        /\ \A i \in 1..(Len(s) - p + 1) : r[i] = s[p + i - 1]
    BY <2>1, SubSeqProperties
  <2>3. Len(r) = Len(s) - p + 1
    BY <2>2, <1>1, <1>5
  <2> QED
    BY <2>2, <2>3
<1> HIDE DEF l, r
<1> DEFINE b == <<"bg">>
           h == l \o b
<1>10. b \in Seq(Tokens) /\ Len(b) = 1 /\ b[1] = "bg"
  BY DEF Tokens
<1> HIDE DEF b
<1>11. /\ h \in Seq(Tokens) /\ Len(h) = p
       /\ \A i \in 1..(p - 1) : h[i] = s[i]
       /\ h[p] = "bg"
  <2>1. /\ h \in Seq(Tokens) /\ Len(h) = Len(l) + Len(b)
        /\ \A i \in 1..(Len(l) + Len(b)) : h[i] = IF i <= Len(l) THEN l[i] ELSE b[i - Len(l)]
    BY <1>8, <1>10, ConcatProperties
  <2>2. Len(h) = p /\ Len(l) + Len(b) = p
    BY <2>1, <1>8, <1>10, <1>5
  <2>3. \A i \in 1..(p - 1) : h[i] = s[i]
    BY <2>1, <2>2, <1>8, <1>5
  <2>4. h[p] = "bg"
    <3>1. p \in 1..p /\ ~(p <= Len(l)) /\ p - Len(l) = 1
      BY <1>5, <1>8
    <3> QED
      BY <3>1, <2>1, <2>2, <1>10
  <2> QED
    BY <2>1, <2>2, <2>3, <2>4
<1>12. f = h \o r
  BY DEF InsertAt, l, r, b
<1> HIDE DEF h, f
<1>13. /\ f \in Seq(Tokens) /\ Len(f) = Len(s) + 1
       /\ \A i \in 1..(Len(s) + 1) : f[i] = IF i <= p THEN h[i] ELSE r[i - p]
  <2>1. /\ h \o r \in Seq(Tokens) /\ Len(h \o r) = Len(h) + Len(r)
        /\ \A i \in 1..(Len(h) + Len(r)) :
              (h \o r)[i] = IF i <= Len(h) THEN h[i] ELSE r[i - Len(h)]
    BY <1>9, <1>11, ConcatProperties
  <2>2. Len(h) = p /\ Len(h) + Len(r) = Len(s) + 1
    BY <1>1, <1>5, <1>9, <1>11
  <2> QED
    BY <2>1, <2>2, <1>12
<1>14. \A i \in 1..(p - 1) : f[i] = s[i]
  BY <1>1, <1>5, <1>11, <1>13
<1>15. f[p] = "bg"
  BY <1>1, <1>5, <1>11, <1>13
<1>16. \A i \in p..Len(s) : f[i + 1] = "eos"
  <2> SUFFICES ASSUME NEW i \in p..Len(s) PROVE f[i + 1] = "eos"
    OBVIOUS
  <2>1. i + 1 \in 1..(Len(s) + 1) /\ ~(i + 1 <= p) /\ (i + 1) - p \in 1..(Len(s) - p + 1)
        /\ p + ((i + 1) - p) - 1 = i
    BY <1>1, <1>5
  <2>2. f[i + 1] = r[(i + 1) - p]
    BY <2>1, <1>13
  <2>3. r[(i + 1) - p] = s[i]
    BY <2>1, <1>9
  <2> QED
    BY <2>2, <2>3, <1>7
<1> QED
  BY <1>5, <1>6, <1>7, <1>13, <1>14, <1>15, <1>16 DEF p, f

\* The answer the mask decoder is given, with auto_add_bg or without.
WithBg(auto, s) ==
    IF ~auto \/ Positions(s, "seg") = {} \/ Positions(s, "bg") # {} THEN s
    ELSE InsertAt(s, BgPlace(s), "bg")

\* This is ensure_bg_token_for_joint_mask.
LEMMA EnsureBgIs ==
  ASSUME NEW s
  PROVE  EnsureBg(s) = WithBg(args.auto_add_bg, s)
BY DEF EnsureBg, WithBg, BgPlace

\* The background token changes neither the place nor the line of any other
\* token that is not a stop token, and there is one, behind all of them.
LEMMA WithBgShape ==
  ASSUME NEW s \in Seq(Tokens), Ended(s), NEW auto \in BOOLEAN
  PROVE  LET f == WithBg(auto, s) IN
         /\ f \in Seq(Tokens) /\ Len(f) <= Len(s) + 1
         /\ \A t \in Tokens \ StopIds : Positions(f, t) = Positions(s, t)
         /\ \A t \in Tokens \ StopIds : \A i \in Positions(s, t) :
               Line(f, i) = Line(s, i)
         /\ Positions(f, "bg") = {} \/ \E z \in 1..Len(f) :
               /\ Positions(f, "bg") = {z}
               /\ \A t \in Tokens \ StopIds : \A i \in Positions(s, t) : i < z
         /\ auto /\ Positions(s, "seg") # {} => Positions(f, "bg") # {}
<1> DEFINE f == WithBg(auto, s)
<1>1. Len(s) \in Nat \ {0}
  BY EmptySeq DEF Ended
<1>2. CASE ~auto \/ Positions(s, "seg") = {} \/ Positions(s, "bg") # {}
  <2>1. f = s
    BY <1>2 DEF WithBg
  <2>2. \A i \in Positions(s, "bg") : i = Len(s)
    <3> SUFFICES ASSUME NEW i \in Positions(s, "bg"), i # Len(s) PROVE FALSE
      OBVIOUS
    <3>1. i \in 1..(Len(s) - 1) /\ s[i] = "bg"
      BY <1>1 DEF Positions
    <3> QED
      BY <3>1 DEF Ended, StopIds
  <2>3. ASSUME Positions(s, "bg") # {}
        PROVE  \E z \in 1..Len(s) :
                  /\ Positions(s, "bg") = {z}
                  /\ \A t \in Tokens \ StopIds : \A i \in Positions(s, t) : i < z
    <3>1. Positions(s, "bg") = {Len(s)}
      BY <2>2, <2>3
    <3>2. s[Len(s)] = "bg" /\ Len(s) \in 1..Len(s)
      BY <3>1, <1>1 DEF Positions
    <3>3. \A t \in Tokens \ StopIds : \A i \in Positions(s, t) : i < Len(s)
      <4> SUFFICES ASSUME NEW t \in Tokens \ StopIds, NEW i \in Positions(s, t)
                   PROVE  i < Len(s)
        OBVIOUS
      <4>1. i \in 1..Len(s) /\ s[i] = t
        BY DEF Positions
      <4>2. i # Len(s)
        BY <4>1, <3>2, TokenFacts
      <4> QED
        BY <4>1, <4>2, <1>1
    <3> QED
      BY <3>1, <3>2, <3>3
  <2>4. Len(s) <= Len(s) + 1
    BY <1>1
  <2> HIDE DEF f
  <2> QED
    BY <1>2, <2>1, <2>3, <2>4 DEF f
<1>3. CASE auto /\ Positions(s, "seg") # {} /\ Positions(s, "bg") = {}
  <2> DEFINE p == BgPlace(s)
  <2>1. f = InsertAt(s, p, "bg")
    BY <1>3 DEF WithBg
  <2>2. /\ p \in 1..(Len(s) + 1)
        /\ f \in Seq(Tokens) /\ Len(f) = Len(s) + 1
        /\ \A i \in 1..(p - 1) : f[i] = s[i] /\ s[i] \notin StopIds
        /\ f[p] = "bg"
        /\ \A i \in p..Len(s) : s[i] = "eos" /\ f[i + 1] = "eos"
    <3> DEFINE g == InsertAt(s, p, "bg")
    <3>1. /\ p \in 1..(Len(s) + 1)
          /\ g \in Seq(Tokens) /\ Len(g) = Len(s) + 1
          /\ \A i \in 1..(p - 1) : g[i] = s[i] /\ s[i] \notin StopIds
          /\ g[p] = "bg"
          /\ \A i \in p..Len(s) : s[i] = "eos" /\ g[i + 1] = "eos"
      BY <1>3, InsertBg
    <3>2. f = g
      BY <2>1
    <3> HIDE DEF f, g, p
    <3> QED
      BY <3>1, <3>2
  <2> HIDE DEF f, p
  <2>3. \A t \in Tokens \ StopIds : \A i \in Positions(s, t) : i \in 1..(p - 1)
    <3> SUFFICES ASSUME NEW t \in Tokens \ StopIds, NEW i \in Positions(s, t)
                 PROVE  i \in 1..(p - 1)
      OBVIOUS
    <3>1. i \in 1..Len(s) /\ s[i] = t
      BY DEF Positions
    <3>2. ~(i \in p..Len(s))
      BY <3>1, <2>2 DEF StopIds
    <3> QED
      BY <3>1, <3>2, <2>2, <1>1
  <2>4. \A i \in 1..(Len(s) + 1) : i \in 1..(p - 1) \/ i = p \/ f[i] = "eos"
    <3> SUFFICES ASSUME NEW i \in 1..(Len(s) + 1), ~(i \in 1..(p - 1)), i # p
                 PROVE  f[i] = "eos"
      OBVIOUS
    <3>1. i - 1 \in p..Len(s) /\ (i - 1) + 1 = i
      BY <2>2, <1>1
    <3> QED
      BY <3>1, <2>2
  <2>5. \A t \in Tokens \ StopIds : Positions(f, t) = Positions(s, t)
    <3> SUFFICES ASSUME NEW t \in Tokens \ StopIds
                 PROVE  Positions(f, t) = Positions(s, t)
      OBVIOUS
    <3>1. t # "eos" /\ t # "bg"
      BY DEF StopIds
    <3>2. \A i \in Positions(f, t) : i \in 1..(p - 1)
      BY <3>1, <2>2, <2>4 DEF Positions
    <3>3. \A i \in Positions(s, t) : i \in 1..(p - 1)
      BY <2>3
    <3>4. \A i \in 1..(p - 1) : /\ i \in 1..Len(s) /\ i \in 1..Len(f)
                                /\ f[i] = s[i]
      BY <2>2, <1>1
    <3> QED
      BY <3>2, <3>3, <3>4 DEF Positions
  <2>6. \A i \in 1..(p - 1) : Line(f, i) = Line(s, i)
    <3> SUFFICES ASSUME NEW i \in 1..(p - 1) PROVE Line(f, i) = Line(s, i)
      OBVIOUS
    <3>1. \A j \in 1..i : f[j] = s[j]
      BY <2>2
    <3>2. {j \in 1..i : f[j] = "nl"} = {j \in 1..i : s[j] = "nl"}
      BY <3>1
    <3> QED
      BY <3>2 DEF Line
  <2>7. Positions(f, "bg") = {p}
    <3>1. p \in Positions(f, "bg")
      BY <2>2 DEF Positions
    <3>2. \A i \in Positions(f, "bg") : i = p
      BY <2>2, <2>4 DEF Positions, StopIds
    <3> QED
      BY <3>1, <3>2
  <2>8. \A i \in 1..(p - 1) : i < p
    BY <2>2
  <2>9. p \in 1..Len(f) /\ Len(f) <= Len(s) + 1
    BY <2>2, <1>1
  <2>10. \E z \in 1..Len(f) :
            /\ Positions(f, "bg") = {z}
            /\ \A t \in Tokens \ StopIds : \A i \in Positions(s, t) : i < z
    BY <2>3, <2>7, <2>8, <2>9
  <2>11. \A t \in Tokens \ StopIds : \A i \in Positions(s, t) : Line(f, i) = Line(s, i)
    BY <2>3, <2>6
  <2>12. f \in Seq(Tokens)
    BY <2>2
  <2> QED
    BY <2>5, <2>7, <2>9, <2>10, <2>11, <2>12 DEF f
<1> QED
  BY <1>2, <1>3

-----------------------------------------------------------------------------
(* The inductive invariant.                                                 *)

\* A backend generates until its answer has ended.
Shapes ==
    \A b \in Backends :
        IF pc[b] = "generate" THEN Open(gen[b]) ELSE Ended(gen[b])

\* As long as transformers generates, vLLM has the same ids; once it has
\* stopped, it has what a cut leaves of vLLM's.
Together ==
    LET m == args.max_generated_parts IN
    IF pc["hf"] = "generate"
    THEN /\ pc["vllm"] = "generate"
         /\ gen["vllm"] = gen["hf"]
         /\ ~Full(m, gen["hf"])
    ELSE /\ pc["hf"] # "candidate"
         /\ m > 0 => Cardinality(Positions(gen["hf"], "seg")) <= m
         /\ pc["vllm"] = "generate" => Full(m, gen["vllm"])
         /\ gen["hf"] = IF pc["vllm"] \in {"generate", "candidate"}
                        THEN Cut(m, gen["vllm"]) ELSE gen["vllm"]

\* What is decoded follows from what was generated.
Decoded ==
    \A b \in Backends :
        /\ pc[b] \in {"decode", "done", "failed"} =>
              fixed[b] = WithBg(args.auto_add_bg, gen[b])
        /\ pc[b] # "done" => query[b] = <<>>
        /\ pc[b] = "failed" => /\ Positions(fixed[b], "seg") # {}
                               /\ Positions(fixed[b], "bg") = {}
        /\ pc[b] = "done" =>
              IF Positions(fixed[b], "seg") = {} THEN query[b] = <<>>
              ELSE Positions(fixed[b], "bg") # {} /\ query[b] = Queries(fixed[b])

IInv == TypeOK /\ Shapes /\ Together /\ Decoded

\* The arguments are a limit and a flag.
LEMMA ArgsType ==
  ASSUME TypeOK
  PROVE  args.max_generated_parts \in Int /\ args.auto_add_bg \in BOOLEAN
BY LimitsAssumption DEF TypeOK

\* The answers are empty at first.
LEMMA InitIInv == Init => IInv
<1> SUFFICES ASSUME Init PROVE IInv
  OBVIOUS
<1> USE DEF Init
<1>1. /\ <<>> \in Seq(Tokens) /\ Len(<<>>) = 0
      /\ \A t : Positions(<<>>, t) = {}
  BY EmptySeq DEF Positions
<1>2. TypeOK
  <2>1. <<>> \in Seq(1..(MaxNew + 1))
    BY EmptySeq
  <2> QED
    BY <1>1, <2>1 DEF TypeOK, PCs
<1>3. Shapes
  BY <1>1, MaxNewAssumption DEF Shapes, Open
<1>4. Together
  <2>1. Cardinality(Positions(<<>>, "seg")) = 0
    BY <1>1, FS_EmptySet
  <2>2. \A m \in Int : ~Full(m, <<>>)
    BY <2>1 DEF Full
  <2> QED
    BY <1>2, <2>2, ArgsType DEF Together, Backends
<1>5. Decoded
  BY DEF Decoded
<1> QED
  BY <1>2, <1>3, <1>4, <1>5 DEF IInv

\* A new token keeps the answers together: at the limit transformers stops, and
\* what vLLM adds behind it the cut will take away.
LEMMA EmitIInv ==
  ASSUME IInv, NEW t \in Tokens, Emit(t)
  PROVE  IInv'
<1> USE DEF IInv
<1> DEFINE m == args.max_generated_parts
           v == gen["vllm"]
           h == gen["hf"]
           w == Append(v, t)
           g == Append(h, t)
<1>1. m \in Int
  BY ArgsType
<1>2. /\ pc["hf"] \in PCs /\ pc["vllm"] \in PCs
      /\ h \in Seq(Tokens) /\ v \in Seq(Tokens)
      /\ pc \in [Backends -> PCs] /\ gen \in [Backends -> Seq(Tokens)]
  BY DEF TypeOK, Backends
<1>3. /\ args' = args /\ fixed' = fixed /\ query' = query
      /\ gen' = [b \in Backends |-> IF pc[b] = "generate" THEN Append(gen[b], t) ELSE gen[b]]
      /\ pc' = [b \in Backends |-> IF pc[b] = "generate" THEN AfterToken(b, Append(gen[b], t))
                                   ELSE pc[b]]
  BY DEF Emit
<1>4. /\ gen'["hf"] = (IF pc["hf"] = "generate" THEN g ELSE h)
      /\ gen'["vllm"] = (IF pc["vllm"] = "generate" THEN w ELSE v)
      /\ pc'["hf"] = (IF pc["hf"] = "generate" THEN AfterToken("hf", g) ELSE pc["hf"])
      /\ pc'["vllm"] = (IF pc["vllm"] = "generate" THEN AfterToken("vllm", w) ELSE pc["vllm"])
  BY <1>3 DEF Backends
<1>5. \A s : /\ AfterToken("hf", s) = IF AtEnd(s) \/ StopOnBgOrMaxSeg(s)
                                      THEN "guard" ELSE "generate"
             /\ AfterToken("vllm", s) = IF AtEnd(s) THEN "candidate" ELSE "generate"
  BY DEF AfterToken
<1>6. \A s : StopOnBgOrMaxSeg(s) <=> Last(s) = "bg" \/ Full(m, s)
  BY DEF StopOnBgOrMaxSeg, Full
<1>7. \A b \in Backends : pc[b] = "generate" =>
         /\ Append(gen[b], t) \in Seq(Tokens)
         /\ Last(Append(gen[b], t)) = t
         /\ Ended(Append(gen[b], t))
         /\ ~AtEnd(Append(gen[b], t)) => Open(Append(gen[b], t))
  <2> SUFFICES ASSUME NEW b \in Backends, pc[b] = "generate"
               PROVE  /\ Append(gen[b], t) \in Seq(Tokens)
                      /\ Last(Append(gen[b], t)) = t
                      /\ Ended(Append(gen[b], t))
                      /\ ~AtEnd(Append(gen[b], t)) => Open(Append(gen[b], t))
    OBVIOUS
  <2>1. gen[b] \in Seq(Tokens) /\ Open(gen[b])
    BY <1>2 DEF Shapes
  <2> QED
    BY <2>1, OneMore
<1>8. \A b \in Backends : pc[b] = "generate" =>
         /\ AfterToken(b, Append(gen[b], t)) \in {"generate", "guard", "candidate"}
         /\ AfterToken(b, Append(gen[b], t)) = "generate" => ~AtEnd(Append(gen[b], t))
  BY <1>5 DEF Backends
<1>9. TypeOK'
  <2>1. pc' \in [Backends -> PCs]
    BY <1>2, <1>3, <1>8 DEF PCs
  <2>2. gen' \in [Backends -> Seq(Tokens)]
    BY <1>2, <1>3, <1>7
  <2> QED
    BY <1>3, <2>1, <2>2 DEF TypeOK
<1>10. Shapes'
  <2> SUFFICES ASSUME NEW b \in Backends
               PROVE  IF pc'[b] = "generate" THEN Open(gen'[b]) ELSE Ended(gen'[b])
    BY DEF Shapes
  <2>1. CASE pc[b] = "generate"
    <3>1. gen'[b] = Append(gen[b], t) /\ pc'[b] = AfterToken(b, Append(gen[b], t))
      BY <2>1, <1>3
    <3> QED
      BY <2>1, <3>1, <1>7, <1>8
  <2>2. CASE pc[b] # "generate"
    <3>1. gen'[b] = gen[b] /\ pc'[b] = pc[b]
      BY <2>2, <1>3
    <3> QED
      BY <2>2, <3>1 DEF Shapes
  <2> QED
    BY <2>1, <2>2
<1>11. Together'
  <2> SUFFICES
         IF pc'["hf"] = "generate"
         THEN /\ pc'["vllm"] = "generate"
              /\ gen'["vllm"] = gen'["hf"]
              /\ ~Full(m, gen'["hf"])
         ELSE /\ pc'["hf"] # "candidate"
              /\ m > 0 => Cardinality(Positions(gen'["hf"], "seg")) <= m
              /\ pc'["vllm"] = "generate" => Full(m, gen'["vllm"])
              /\ gen'["hf"] = IF pc'["vllm"] \in {"generate", "candidate"}
                             THEN Cut(m, gen'["vllm"]) ELSE gen'["vllm"]
    BY <1>3 DEF Together
  <2>1. CASE pc["hf"] = "generate"
    <3>1. pc["vllm"] = "generate" /\ v = h /\ ~Full(m, h)
      BY <2>1 DEF Together
    <3>2. /\ gen'["hf"] = g /\ gen'["vllm"] = g
          /\ pc'["hf"] = AfterToken("hf", g)
          /\ pc'["vllm"] = AfterToken("vllm", g)
      BY <2>1, <3>1, <1>4
    <3>3. Last(g) = t
      BY <2>1, <1>7 DEF Backends
    <3>4. Cut(m, g) = g
      BY <3>1, <1>1, <1>2, CutAtEnd
    <3>5. m > 0 => Cardinality(Positions(g, "seg")) <= m
      <4> SUFFICES ASSUME m > 0 PROVE Cardinality(Positions(g, "seg")) <= m
        OBVIOUS
      <4>1. Cardinality(Positions(h, "seg")) \in Nat
        BY <1>2, PositionsType
      <4>2. ~(Cardinality(Positions(h, "seg")) >= m)
        BY <3>1 DEF Full
      <4>3. Cardinality(Positions(g, "seg"))
              = Cardinality(Positions(h, "seg")) + (IF t = "seg" THEN 1 ELSE 0)
        BY <1>2, PositionsAppend
      <4> QED
        BY <1>1, <4>1, <4>2, <4>3
    <3>6. ~AtEnd(g) => Last(g) # "bg"
      BY DEF AtEnd, StopIds
    <3> HIDE DEF g, m
    <3>7. CASE AtEnd(g)
      <4>1. pc'["hf"] = "guard" /\ pc'["vllm"] = "candidate"
        BY <3>2, <3>7, <1>5
      <4> QED
        BY <4>1, <3>2, <3>4, <3>5
    <3>8. CASE ~AtEnd(g) /\ ~Full(m, g)
      <4>1. pc'["hf"] = "generate" /\ pc'["vllm"] = "generate"
        BY <3>2, <3>6, <3>8, <1>5, <1>6
      <4> QED
        BY <4>1, <3>2, <3>8
    <3>9. CASE ~AtEnd(g) /\ Full(m, g)
      <4>1. pc'["hf"] = "guard" /\ pc'["vllm"] = "generate"
        BY <3>2, <3>9, <1>5, <1>6
      <4> QED
        BY <4>1, <3>2, <3>4, <3>5, <3>9
    <3> QED
      BY <3>7, <3>8, <3>9
  <2>2. CASE pc["hf"] # "generate"
    <3>1. pc["vllm"] = "generate"
      BY <2>2 DEF Emit, Backends
    <3>2. /\ pc["hf"] # "candidate" /\ Full(m, v)
          /\ m > 0 => Cardinality(Positions(h, "seg")) <= m
          /\ h = Cut(m, v)
      BY <2>2, <3>1 DEF Together
    <3>3. Cut(m, w) = Cut(m, v) /\ Full(m, w)
      BY <3>2, <1>1, <1>2, CutKeeps
    <3>4. /\ gen'["hf"] = h /\ gen'["vllm"] = w
          /\ pc'["hf"] = pc["hf"]
          /\ pc'["vllm"] \in {"generate", "candidate"}
      BY <2>2, <3>1, <1>4, <1>5
    <3> HIDE DEF h, v, w, m
    <3> QED
      BY <2>2, <3>2, <3>3, <3>4
  <2> QED
    BY <2>1, <2>2
<1>12. Decoded'
  <2> SUFFICES ASSUME NEW b \in Backends
               PROVE
        /\ pc'[b] \in {"decode", "done", "failed"} =>
              fixed[b] = WithBg(args.auto_add_bg, gen'[b])
        /\ pc'[b] # "done" => query[b] = <<>>
        /\ pc'[b] = "failed" => /\ Positions(fixed[b], "seg") # {}
                               /\ Positions(fixed[b], "bg") = {}
        /\ pc'[b] = "done" =>
              IF Positions(fixed[b], "seg") = {} THEN query[b] = <<>>
              ELSE Positions(fixed[b], "bg") # {} /\ query[b] = Queries(fixed[b])
    BY <1>3 DEF Decoded
  <2>1. CASE pc[b] = "generate"
    <3>1. pc'[b] \in {"generate", "guard", "candidate"}
      BY <2>1, <1>3, <1>8
    <3>2. query[b] = <<>>
      BY <2>1 DEF Decoded
    <3> QED
      BY <3>1, <3>2
  <2>2. CASE pc[b] # "generate"
    <3>1. gen'[b] = gen[b] /\ pc'[b] = pc[b]
      BY <2>2, <1>3
    <3> QED
      BY <3>1 DEF Decoded
  <2> QED
    BY <2>1, <2>2
<1> QED
  BY <1>9, <1>10, <1>11, <1>12

\* What vLLM hands back, restored and cut, is what transformers has.
LEMMA ReturnIInv ==
  ASSUME IInv, Return
  PROVE  IInv'
<1> USE DEF IInv
<1> DEFINE m == args.max_generated_parts
           v == gen["vllm"]
           h == gen["hf"]
<1>1. /\ h \in Seq(Tokens) /\ v \in Seq(Tokens)
      /\ pc \in [Backends -> PCs] /\ gen \in [Backends -> Seq(Tokens)]
      /\ pc["vllm"] = "candidate"
  BY DEF TypeOK, Backends, Return
<1>2. Ended(v) /\ pc["hf"] # "generate"
  BY <1>1 DEF Shapes, Together, Backends
<1>3. Ended(h)
  BY <1>2 DEF Shapes, Backends
<1>4. PICK c \in Candidates(v) :
         gen' = [gen EXCEPT !["vllm"] = TruncateOnMaxSeg(PreserveStopToken(c.ids, c.reason))]
  BY DEF Return
<1>5. h = Cut(m, v)
  BY <1>1, <1>2 DEF Together
<1>6. TruncateOnMaxSeg(PreserveStopToken(c.ids, c.reason)) = h
  <2>1. PreserveStopToken(c.ids, c.reason) = v
    BY <1>1, <1>2, PreserveRestores
  <2>2. TruncateOnMaxSeg(v) = Cut(m, v)
    BY CutIs
  <2> QED
    BY <2>1, <2>2, <1>5
<1>7. /\ gen' = [gen EXCEPT !["vllm"] = h]
      /\ pc' = [pc EXCEPT !["vllm"] = "guard"]
      /\ args' = args /\ fixed' = fixed /\ query' = query
  BY <1>4, <1>6 DEF Return
<1>8. /\ gen'["vllm"] = h /\ gen'["hf"] = h
      /\ pc'["vllm"] = "guard" /\ pc'["hf"] = pc["hf"]
  BY <1>1, <1>7 DEF Backends
<1>9. TypeOK'
  BY <1>1, <1>7 DEF TypeOK, PCs
<1>10. Shapes'
  BY <1>2, <1>3, <1>8 DEF Shapes, Backends
<1>11. Together'
  BY <1>2, <1>7, <1>8 DEF Together
<1>12. Decoded'
  <2>1. query["vllm"] = <<>>
    BY <1>1 DEF Decoded, Backends
  <2> QED
    BY <2>1, <1>7, <1>8 DEF Decoded, Backends
<1> QED
  BY <1>9, <1>10, <1>11, <1>12

\* The background token is added to the answer that was generated.
LEMMA GuardIInv ==
  ASSUME IInv, NEW b \in Backends, Guard(b)
  PROVE  IInv'
<1> USE DEF IInv
<1>1. /\ pc \in [Backends -> PCs] /\ fixed \in [Backends -> Seq(Tokens)]
      /\ gen[b] \in Seq(Tokens) /\ pc[b] = "guard"
      /\ pc' = [pc EXCEPT ![b] = "decode"]
      /\ fixed' = [fixed EXCEPT ![b] = EnsureBg(gen[b])]
      /\ args' = args /\ gen' = gen /\ query' = query
  BY DEF TypeOK, Guard
<1>2. EnsureBg(gen[b]) = WithBg(args.auto_add_bg, gen[b])
  BY EnsureBgIs
<1>3. WithBg(args.auto_add_bg, gen[b]) \in Seq(Tokens)
  <2>1. Ended(gen[b])
    BY <1>1 DEF Shapes
  <2>2. args.auto_add_bg \in BOOLEAN
    BY ArgsType
  <2> QED
    BY <1>1, <2>1, <2>2, WithBgShape
<1>4. TypeOK'
  BY <1>1, <1>2, <1>3 DEF TypeOK, PCs
<1>5. Shapes'
  BY <1>1 DEF Shapes
<1>6. Together'
  BY <1>1 DEF Together, Backends
<1>7. Decoded'
  BY <1>1, <1>2 DEF Decoded
<1> QED
  BY <1>4, <1>5, <1>6, <1>7

\* The queries are the SEG positions in their order, and then the last BG one.
LEMMA QueriesAre ==
  ASSUME NEW s \in Seq(Tokens), Positions(s, "bg") # {}
  PROVE  LET q == Queries(s)
             P == Positions(s, "seg")
         IN /\ q \in Seq(1..Len(s)) /\ Len(q) = Cardinality(P) + 1
            /\ \A i \in 1..Cardinality(P) : q[i] \in P /\ Rank(P, q[i]) = i
            /\ Last(q) = Max(Positions(s, "bg"))
            /\ Last(q) \in Positions(s, "bg")
<1> DEFINE P == Positions(s, "seg")
           B == Positions(s, "bg")
           I == InOrder(P)
           q == Append(I, Max(B))
<1>1. /\ P \subseteq 1..Len(s) /\ P \in SUBSET Int /\ IsFiniteSet(P)
      /\ B \subseteq 1..Len(s) /\ B \in SUBSET Int /\ IsFiniteSet(B)
      /\ B # {} /\ Cardinality(P) \in Nat
  BY PositionsType
<1> HIDE DEF P, B
<1>2. Max(B) \in B
  BY <1>1, MinMaxIs
<1>3. /\ I \in Seq(P) /\ Len(I) = Cardinality(P)
      /\ \A k \in 1..Cardinality(P) : I[k] \in P /\ Rank(P, I[k]) = k
  BY <1>1, InOrderIs
<1>4. I \in Seq(1..Len(s)) /\ Max(B) \in 1..Len(s)
  BY <1>1, <1>2, <1>3, SeqMonotonic
<1> HIDE DEF I
<1>5. /\ q \in Seq(1..Len(s)) /\ Len(q) = Len(I) + 1
      /\ \A i \in 1..Len(I) : q[i] = I[i]
      /\ q[Len(I) + 1] = Max(B)
  BY <1>4, AppendProperties
<1>6. q = Queries(s)
  BY DEF Queries, P, B, I
<1> HIDE DEF q
<1>7. Last(q) = Max(B)
  BY <1>5 DEF Last
<1>8. \A i \in 1..Cardinality(P) : q[i] \in P /\ Rank(P, q[i]) = i
  BY <1>3, <1>5
<1> QED
  BY <1>2, <1>3, <1>5, <1>6, <1>7, <1>8 DEF P, B

\* Decoding ends as its answer says.
LEMMA DecodeIInv ==
  ASSUME IInv, NEW b \in Backends, Decode(b)
  PROVE  IInv'
<1> USE DEF IInv
<1>1. /\ pc \in [Backends -> PCs] /\ pc[b] = "decode"
      /\ fixed[b] \in Seq(Tokens)
      /\ query \in [Backends -> Seq(1..(MaxNew + 1))]
      /\ args' = args /\ gen' = gen /\ fixed' = fixed
      /\ \E x \in {"done", "failed"} : pc' = [pc EXCEPT ![b] = x]
  BY DEF TypeOK, Decode
<1>2. TypeOK'
  <2>1. query' \in [Backends -> Seq(1..(MaxNew + 1))]
    <3>1. Positions(fixed[b], "bg") # {} => Queries(fixed[b]) \in Seq(1..(MaxNew + 1))
      <4> SUFFICES ASSUME Positions(fixed[b], "bg") # {}
                   PROVE  Queries(fixed[b]) \in Seq(1..(MaxNew + 1))
        OBVIOUS
      <4>1. Ended(gen[b]) /\ gen[b] \in Seq(Tokens)
        BY <1>1 DEF Shapes, TypeOK
      <4>2. Len(WithBg(args.auto_add_bg, gen[b])) <= Len(gen[b]) + 1
        BY <4>1, ArgsType, WithBgShape
      <4>3. fixed[b] = WithBg(args.auto_add_bg, gen[b])
        BY <1>1 DEF Decoded
      <4>4. Len(fixed[b]) \in Nat /\ Len(gen[b]) \in Nat /\ Len(gen[b]) <= MaxNew
        BY <4>1, <1>1, LenProperties DEF Ended
      <4>5. 1..Len(fixed[b]) \subseteq 1..(MaxNew + 1)
        BY <4>2, <4>3, <4>4, MaxNewAssumption
      <4>6. Queries(fixed[b]) \in Seq(1..Len(fixed[b]))
        BY <1>1, QueriesAre
      <4> QED
        BY <4>5, <4>6, SeqMonotonic
    <3> QED
      BY <1>1, <3>1 DEF Decode
  <2>2. pc' \in [Backends -> PCs]
    BY <1>1 DEF PCs
  <2>3. /\ args \in [max_generated_parts : Limits, auto_add_bg : BOOLEAN]
        /\ gen \in [Backends -> Seq(Tokens)] /\ fixed \in [Backends -> Seq(Tokens)]
    BY DEF TypeOK
  <2> QED
    BY <1>1, <2>1, <2>2, <2>3 DEF TypeOK
<1>3. Shapes'
  BY <1>1 DEF Shapes
<1>4. Together'
  BY <1>1 DEF Together, Backends
<1>5. Decoded'
  <2>1. fixed[b] = WithBg(args.auto_add_bg, gen[b]) /\ query[b] = <<>>
    BY <1>1 DEF Decoded
  <2> SUFFICES ASSUME NEW d \in Backends
               PROVE
        /\ pc'[d] \in {"decode", "done", "failed"} =>
              fixed[d] = WithBg(args.auto_add_bg, gen[d])
        /\ pc'[d] # "done" => query'[d] = <<>>
        /\ pc'[d] = "failed" => /\ Positions(fixed[d], "seg") # {}
                               /\ Positions(fixed[d], "bg") = {}
        /\ pc'[d] = "done" =>
              IF Positions(fixed[d], "seg") = {} THEN query'[d] = <<>>
              ELSE Positions(fixed[d], "bg") # {} /\ query'[d] = Queries(fixed[d])
    BY <1>1 DEF Decoded
  <2>2. CASE d # b
    <3>1. pc'[d] = pc[d] /\ query'[d] = query[d]
      BY <2>2, <1>1 DEF Decode
    <3> QED
      BY <3>1 DEF Decoded
  <2>3. CASE d = b
    BY <2>1, <2>3, <1>1 DEF Decode
  <2> QED
    BY <2>2, <2>3
<1> QED
  BY <1>2, <1>3, <1>4, <1>5

\* Every step keeps the invariant.
LEMMA NextIInv == IInv /\ [Next]_vars => IInv'
<1> SUFFICES ASSUME IInv, [Next]_vars PROVE IInv'
  OBVIOUS
<1>1. ASSUME NEW t \in Tokens, Emit(t) PROVE IInv'
  BY <1>1, EmitIInv
<1>2. ASSUME Return PROVE IInv'
  BY <1>2, ReturnIInv
<1>3. ASSUME NEW b \in Backends, Guard(b) PROVE IInv'
  BY <1>3, GuardIInv
<1>4. ASSUME NEW b \in Backends, Decode(b) PROVE IInv'
  BY <1>4, DecodeIInv
<1>5. CASE UNCHANGED vars
  BY <1>5 DEF vars, IInv, TypeOK, Shapes, Together, Decoded
<1> QED
  BY <1>1, <1>2, <1>3, <1>4, <1>5 DEF Next, Over

\* The invariant holds throughout.
THEOREM IInvHolds == Spec => []IInv
BY InitIInv, NextIInv, PTL DEF Spec

-----------------------------------------------------------------------------
(* The properties.                                                          *)

\* The variables have their types.
THEOREM TypeCorrect == Spec => []TypeOK
<1>1. IInv => TypeOK
  BY DEF IInv
<1> QED
  BY <1>1, IInvHolds, PTL

\* No answer has more parts than max_generated_parts allows, whichever backend
\* generated it.
THEOREM PartsAreBounded == Spec => []PartBound
<1>1. IInv => PartBound
  <2> SUFFICES ASSUME IInv, args.max_generated_parts > 0, NEW b \in Backends,
                      pc[b] \in {"guard", "decode", "done", "failed"}
               PROVE  Cardinality(Positions(gen[b], "seg")) <= args.max_generated_parts
    BY DEF PartBound
  <2>1. pc["hf"] # "generate"
    BY DEF IInv, Together, Backends
  <2>2. gen[b] = gen["hf"]
    BY <2>1 DEF IInv, Together, Backends
  <2> QED
    BY <2>1, <2>2 DEF IInv, Together
<1> QED
  BY <1>1, IInvHolds, PTL

\* Both backends give the mask decoder the same answer and the same queries, and
\* fail alike: what one stops at and the other is cut at is the same.
THEOREM AnswersAgree == Spec => []SameAnswer
<1>1. IInv => SameAnswer
  <2> SUFFICES ASSUME IInv, Answered
               PROVE  /\ fixed["hf"] = fixed["vllm"]
                      /\ query["hf"] = query["vllm"]
                      /\ pc["hf"] = pc["vllm"]
    BY DEF SameAnswer
  <2>1. pc["hf"] \in {"done", "failed"} /\ pc["vllm"] \in {"done", "failed"}
    BY DEF Answered, Backends
  <2>2. gen["hf"] = gen["vllm"]
    BY <2>1 DEF IInv, Together
  <2>3. /\ fixed["hf"] = WithBg(args.auto_add_bg, gen["hf"])
        /\ fixed["vllm"] = WithBg(args.auto_add_bg, gen["vllm"])
    BY <2>1 DEF IInv, Decoded, Backends
  <2>4. fixed["hf"] = fixed["vllm"]
    BY <2>2, <2>3
  <2> HIDE DEF IInv
  <2>5. \A b \in Backends :
           /\ pc[b] # "done" => query[b] = <<>>
           /\ pc[b] = "failed" => /\ Positions(fixed[b], "seg") # {}
                                  /\ Positions(fixed[b], "bg") = {}
           /\ pc[b] = "done" =>
                 IF Positions(fixed[b], "seg") = {} THEN query[b] = <<>>
                 ELSE Positions(fixed[b], "bg") # {} /\ query[b] = Queries(fixed[b])
    BY DEF IInv, Decoded
  <2> QED
    BY <2>1, <2>4, <2>5 DEF Backends
<1> QED
  BY <1>1, IInvHolds, PTL

\* With auto_add_bg decoding never fails for want of a background query, and
\* that query is one and behind all SEG queries.
THEOREM BackgroundIsLast == Spec => []BackgroundLast
<1>1. IInv => BackgroundLast
  <2> SUFFICES ASSUME IInv, args.auto_add_bg, NEW b \in Backends
               PROVE  /\ pc[b] # "failed"
                      /\ pc[b] = "done" /\ Positions(fixed[b], "seg") # {} =>
                            /\ Positions(fixed[b], "bg") = {Last(query[b])}
                            /\ \A i \in 1..(Len(query[b]) - 1) :
                                  query[b][i] < Last(query[b])
    BY DEF BackgroundLast
  <2> DEFINE f == fixed[b]
             q == query[b]
  <2>1. gen[b] \in Seq(Tokens) /\ f \in Seq(Tokens)
    BY DEF IInv, TypeOK
  <2>2. ASSUME pc[b] \in {"done", "failed"}, Positions(f, "seg") # {}
        PROVE  \E z \in 1..Len(f) : /\ Positions(f, "bg") = {z}
                                    /\ \A i \in Positions(f, "seg") : i < z
    <3>1. f = WithBg(args.auto_add_bg, gen[b])
      BY <2>2 DEF IInv, Decoded
    <3>2. Ended(gen[b]) /\ args.auto_add_bg \in BOOLEAN
      BY <2>2, ArgsType DEF IInv, Shapes
    <3> HIDE DEF f
    <3>3. /\ \A t \in Tokens \ StopIds : Positions(f, t) = Positions(gen[b], t)
          /\ Positions(f, "bg") = {} \/ \E z \in 1..Len(f) :
               /\ Positions(f, "bg") = {z}
               /\ \A t \in Tokens \ StopIds : \A i \in Positions(gen[b], t) : i < z
          /\ Positions(gen[b], "seg") # {} => Positions(f, "bg") # {}
      BY <2>1, <3>1, <3>2, WithBgShape
    <3>4. "seg" \in Tokens \ StopIds
      BY TokenFacts
    <3>5. Positions(f, "seg") = Positions(gen[b], "seg")
      BY <3>3, <3>4
    <3>6. Positions(f, "bg") # {}
      BY <2>2, <3>3, <3>5
    <3> QED
      BY <3>3, <3>4, <3>5, <3>6
  <2>3. pc[b] # "failed"
    <3> SUFFICES ASSUME pc[b] = "failed" PROVE FALSE
      OBVIOUS
    <3>1. Positions(f, "seg") # {} /\ Positions(f, "bg") = {}
      BY DEF IInv, Decoded
    <3> QED
      BY <3>1, <2>2
  <2>4. ASSUME pc[b] = "done", Positions(f, "seg") # {}
        PROVE  /\ Positions(f, "bg") = {Last(q)}
               /\ \A i \in 1..(Len(q) - 1) : q[i] < Last(q)
    <3>1. Positions(f, "bg") # {} /\ q = Queries(f)
      BY <2>4 DEF IInv, Decoded
    <3> HIDE DEF f, q
    <3>2. PICK z \in 1..Len(f) : /\ Positions(f, "bg") = {z}
                                 /\ \A i \in Positions(f, "seg") : i < z
      BY <2>2, <2>4
    <3>3. /\ Len(q) = Cardinality(Positions(f, "seg")) + 1
          /\ \A i \in 1..Cardinality(Positions(f, "seg")) : q[i] \in Positions(f, "seg")
          /\ Last(q) \in Positions(f, "bg")
      BY <2>1, <3>1, QueriesAre
    <3>4. Cardinality(Positions(f, "seg")) \in Nat
      BY <2>1, PositionsType
    <3>5. Last(q) = z
      BY <3>2, <3>3
    <3>6. 1..(Len(q) - 1) = 1..Cardinality(Positions(f, "seg"))
      BY <3>3, <3>4
    <3> QED
      BY <3>2, <3>3, <3>5, <3>6
  <2> QED
    BY <2>3, <2>4
<1> QED
  BY <1>1, IInvHolds, PTL

-----------------------------------------------------------------------------
(* Names and masks.                                                         *)

\* The line of a position is its rank among the line breaks.
LEMMA LineIsRank ==
  ASSUME NEW s \in Seq(Tokens), NEW i \in 1..Len(s)
  PROVE  Line(s, i) = Rank(Positions(s, "nl"), i)
<1>1. Len(s) \in Nat
  BY LenProperties
<1>2. \A j : (j \in 1..i /\ s[j] = "nl") <=> (j \in Positions(s, "nl") /\ j <= i)
  BY <1>1 DEF Positions
<1>3. {j \in 1..i : s[j] = "nl"} = {j \in Positions(s, "nl") : j <= i}
  BY <1>2
<1> QED
  BY <1>3 DEF Line, Rank

\* Two positions without a line break between them are on the same line.
LEMMA SameLine ==
  ASSUME NEW s \in Seq(Tokens), NEW i \in 1..Len(s), NEW j \in i..Len(s),
         \A k \in (i + 1)..j : s[k] # "nl"
  PROVE  Line(s, i) = Line(s, j)
<1>1. Len(s) \in Nat /\ j \in 1..Len(s)
  BY LenProperties
<1>2. \A k : (k \in 1..i /\ s[k] = "nl") <=> (k \in 1..j /\ s[k] = "nl")
  <2> SUFFICES ASSUME NEW k \in 1..j, k \notin 1..i PROVE s[k] # "nl"
    BY <1>1
  <2>1. k \in (i + 1)..j
    BY <1>1
  <2> QED
    BY <2>1
<1>3. {k \in 1..i : s[k] = "nl"} = {k \in 1..j : s[k] = "nl"}
  BY <1>2
<1> QED
  BY <1>3 DEF Line

\* What the form of the training targets says of neighbouring tokens.
LEMMA FollowsAt ==
  ASSUME NEW s \in Seq(Tokens), Follows(s), NEW i \in 1..Len(s)
  PROVE  /\ i = 1 => s[i] = "text"
         /\ i # 1 => /\ s[i - 1] = "text" => s[i] \in {"text", "seg"}
                     /\ s[i - 1] = "seg" => s[i] \in {"nl", "eos"}
                     /\ s[i - 1] # "eos"
                     /\ s[i] = "seg" => s[i - 1] = "text"
BY DEF Follows

\* In an answer of that form that does not end within a line, the lines of the
\* SEG tokens are the lines of the parts, in the same order.
LEMMA LinesOfSegs ==
  ASSUME NEW s \in Seq(Tokens), Follows(s), s # <<>>, Last(s) # "text"
  PROVE  LET P == Positions(s, "seg")
             X == Positions(s, "text")
         IN /\ \A j \in P : \E i \in X : Line(s, i) = Line(s, j)
            /\ \A i \in X : \E j \in P : Line(s, i) = Line(s, j)
            /\ \A i, j \in P : i < j => Line(s, i) < Line(s, j)
<1> DEFINE P == Positions(s, "seg")
           X == Positions(s, "text")
<1>1. Len(s) \in Nat \ {0}
  BY EmptySeq
<1>2. ASSUME NEW j \in P PROVE \E i \in X : Line(s, i) = Line(s, j)
  <2>1. j \in 1..Len(s) /\ s[j] = "seg"
    BY DEF Positions
  <2>2. j # 1 /\ s[j - 1] = "text"
    BY <2>1, FollowsAt
  <2>3. j - 1 \in 1..Len(s) /\ j \in (j - 1)..Len(s) /\ \A k \in ((j - 1) + 1)..j : k = j
    BY <2>1, <2>2, <1>1
  <2>4. Line(s, j - 1) = Line(s, j)
    BY <2>1, <2>3, SameLine
  <2>5. j - 1 \in X
    BY <2>2, <2>3 DEF Positions
  <2> QED
    BY <2>4, <2>5
<1>3. ASSUME NEW i \in X PROVE \E j \in P : Line(s, i) = Line(s, j)
  <2> DEFINE T == {j \in i..Len(s) : s[j] # "text"}
  <2>1. i \in 1..Len(s) /\ s[i] = "text"
    BY DEF Positions
  <2>2. T \in SUBSET Int /\ IsFiniteSet(T) /\ T # {}
    <3>1. IsFiniteSet(i..Len(s))
      BY <1>1, <2>1, FS_Interval
    <3>2. T \in SUBSET (i..Len(s))
      OBVIOUS
    <3>3. IsFiniteSet(T)
      BY <3>1, <3>2, FS_Subset
    <3>4. Len(s) \in T
      BY <1>1, <2>1 DEF Last
    <3> QED
      BY <3>3, <3>4
  <2>3. PICK j \in T : \A x \in T : j <= x
    <3> HIDE DEF T
    <3> QED
      BY <2>2, MinMaxIs
  <2>4. j \in (i + 1)..Len(s) /\ s[j] # "text"
    BY <2>1, <2>3, <1>1
  <2>5. \A k \in i..(j - 1) : s[k] = "text"
    <3> SUFFICES ASSUME NEW k \in i..(j - 1), s[k] # "text" PROVE FALSE
      OBVIOUS
    <3>1. k \in T /\ ~(j <= k)
      BY <2>1, <2>4, <1>1
    <3> QED
      BY <3>1, <2>3
  <2>6. s[j] = "seg"
    <3>1. j \in 1..Len(s) /\ j # 1 /\ j - 1 \in i..(j - 1)
      BY <2>1, <2>4, <1>1
    <3>2. s[j - 1] = "text"
      BY <3>1, <2>5
    <3> QED
      BY <3>1, <3>2, <2>4, FollowsAt
  <2>7. j \in P
    BY <2>1, <2>4, <2>6, <1>1 DEF Positions
  <2>8. \A k \in (i + 1)..j : s[k] # "nl"
    <3> SUFFICES ASSUME NEW k \in (i + 1)..j PROVE s[k] # "nl"
      OBVIOUS
    <3>1. k = j \/ k \in i..(j - 1)
      BY <2>1, <2>4, <1>1
    <3> QED
      BY <3>1, <2>5, <2>6
  <2>9. Line(s, i) = Line(s, j)
    <3>1. j \in i..Len(s)
      BY <2>1, <2>4, <1>1
    <3> QED
      BY <2>1, <2>8, <3>1, SameLine
  <2> QED
    BY <2>7, <2>9
<1>4. ASSUME NEW i \in P, NEW j \in P, i < j PROVE Line(s, i) < Line(s, j)
  <2> DEFINE N == Positions(s, "nl")
  <2>1. i \in 1..Len(s) /\ s[i] = "seg" /\ j \in 1..Len(s) /\ s[j] = "seg"
    BY DEF Positions
  <2>2. i + 1 \in 1..Len(s) /\ i + 1 # 1 /\ (i + 1) - 1 = i
    BY <2>1, <1>1, <1>4
  <2>3. s[i + 1] \in {"nl", "eos"}
    BY <2>1, <2>2, FollowsAt
  <2>4. s[i + 1] # "eos"
    <3> SUFFICES ASSUME s[i + 1] = "eos" PROVE FALSE
      OBVIOUS
    <3>1. i + 1 # j
      BY <2>1
    <3>2. i + 2 \in 1..Len(s) /\ i + 2 # 1 /\ (i + 2) - 1 = i + 1
      BY <3>1, <2>1, <1>1, <1>4
    <3> QED
      BY <3>2, FollowsAt
  <2>5. i + 1 \in N /\ i < i + 1 /\ i + 1 <= j
    BY <2>1, <2>2, <2>3, <2>4, <1>4 DEF Positions
  <2>6. N \in SUBSET Int /\ IsFiniteSet(N) /\ i \in Int /\ j \in Int /\ i + 1 \in Int
    BY <2>1, PositionsType
  <2> HIDE DEF N
  <2>7. Rank(N, i) < Rank(N, i + 1) /\ Rank(N, i + 1) <= Rank(N, j)
    BY <2>5, <2>6, RankType
  <2>8. Rank(N, i) \in Int /\ Rank(N, i + 1) \in Int /\ Rank(N, j) \in Int
    BY <2>6, RankType
  <2>9. Line(s, i) = Rank(N, i) /\ Line(s, j) = Rank(N, j)
    BY <2>1, LineIsRank DEF N
  <2> QED
    BY <2>7, <2>8, <2>9
<1> QED
  BY <1>2, <1>3, <1>4

\* So the i-th name stands on the line of the i-th SEG, and the background token
\* changes nothing of that.
LEMMA AlignedWithBg ==
  ASSUME NEW s \in Seq(Tokens), Ended(s), Follows(s), Last(s) # "text",
         NEW auto \in BOOLEAN, Positions(WithBg(auto, s), "bg") # {}
  PROVE  Aligned(WithBg(auto, s), Queries(WithBg(auto, s)))
<1> DEFINE f == WithBg(auto, s)
           q == Queries(f)
           P == Positions(s, "seg")
           X == Positions(s, "text")
           L == [j \in P |-> Line(s, j)]
           T == PartLines(s)
<1>1. /\ f \in Seq(Tokens)
      /\ \A t \in Tokens \ StopIds : Positions(f, t) = Positions(s, t)
      /\ \A t \in Tokens \ StopIds : \A i \in Positions(s, t) : Line(f, i) = Line(s, i)
  BY WithBgShape
<1>2. "seg" \in Tokens \ StopIds /\ "text" \in Tokens \ StopIds
  BY DEF Tokens, StopIds
<1>3. /\ Positions(f, "seg") = P /\ Positions(f, "text") = X
      /\ \A i \in P \cup X : Line(f, i) = Line(s, i)
  BY <1>1, <1>2
<1>4. /\ P \in SUBSET Int /\ IsFiniteSet(P) /\ Cardinality(P) \in Nat
      /\ P \subseteq 1..Len(s) /\ X \subseteq 1..Len(s)
  BY PositionsType
<1>5. \A i \in 1..Len(s) : Line(s, i) \in Int
  <2> SUFFICES ASSUME NEW i \in 1..Len(s) PROVE Line(s, i) \in Int
    OBVIOUS
  <2> DEFINE N == Positions(s, "nl")
  <2>1. N \in SUBSET Int /\ IsFiniteSet(N) /\ i \in Int
    BY PositionsType
  <2> HIDE DEF N
  <2>2. Rank(N, i) \in Int
    BY <2>1, RankType
  <2> QED
    BY <2>2, LineIsRank DEF N
<1>6. T = {Line(s, i) : i \in X}
  BY DEF PartLines
<1>7. PartLines(f) = T
  BY <1>3, <1>6 DEF PartLines
<1>8. /\ \A j \in P : \E i \in X : Line(s, i) = Line(s, j)
      /\ \A i \in X : \E j \in P : Line(s, i) = Line(s, j)
      /\ \A i, j \in P : i < j => Line(s, i) < Line(s, j)
  BY LinesOfSegs DEF Ended
<1> HIDE DEF f, P, X, T
<1>9. T \in SUBSET Int
  BY <1>4, <1>5, <1>6
<1>10. /\ L \in [P -> T]
       /\ \A k \in T : \E j \in P : L[j] = k
       /\ \A i, j \in P : i < j => L[i] < L[j]
  BY <1>6, <1>8
<1> HIDE DEF L
<1>11. /\ Cardinality(T) = Cardinality(P)
       /\ \A j \in P : Rank(T, L[j]) = Rank(P, j)
  BY <1>4, <1>9, <1>10, RankImage
<1>12. /\ Len(q) = Cardinality(P) + 1
       /\ \A i \in 1..Cardinality(P) : q[i] \in P /\ Rank(P, q[i]) = i
  <2>1. Positions(f, "bg") # {}
    BY DEF f
  <2> HIDE DEF q
  <2>2. LET z == Positions(f, "seg")
        IN /\ Len(q) = Cardinality(z) + 1
           /\ \A i \in 1..Cardinality(z) : q[i] \in z /\ Rank(z, q[i]) = i
    BY <1>1, <2>1, QueriesAre DEF q
  <2> QED
    BY <2>2, <1>3
<1> HIDE DEF q
<1>13. ASSUME NEW i \in 1..(Len(q) - 1)
       PROVE  Line(f, q[i]) \in PartLines(f) /\ PartIndex(f, Line(f, q[i])) = i
  <2>1. i \in 1..Cardinality(P)
    BY <1>4, <1>12
  <2>2. q[i] \in P /\ Rank(P, q[i]) = i
    BY <2>1, <1>12
  <2>3. Line(f, q[i]) = L[q[i]]
    BY <2>2, <1>3 DEF L
  <2>4. L[q[i]] \in T
    BY <2>2, <1>10
  <2>5. Rank(T, L[q[i]]) = i
    BY <2>2, <1>11
  <2> QED
    BY <2>3, <2>4, <2>5, <1>7 DEF PartIndex
<1>14. Cardinality(PartLines(f)) = Cardinality(Positions(f, "seg"))
  BY <1>3, <1>7, <1>11
<1>15. Aligned(f, q)
  BY <1>13, <1>14 DEF Aligned
<1> QED
  BY <1>15 DEF f, q

\* Every answer in the form of the training targets that does not end within a
\* line has as many names as SEG queries, and the i-th name on the line of the
\* i-th query, whichever backend generated it.
THEOREM WholeLinesAreAligned == Spec => []WholeLinesAligned
<1>1. IInv => WholeLinesAligned
  <2> SUFFICES ASSUME IInv, NEW b \in Backends, pc[b] = "done", query[b] # <<>>,
                      Follows(gen[b]), Last(gen[b]) # "text"
               PROVE  Aligned(fixed[b], query[b])
    BY DEF WholeLinesAligned
  <2>1. gen[b] \in Seq(Tokens) /\ Ended(gen[b]) /\ args.auto_add_bg \in BOOLEAN
    BY ArgsType DEF IInv, TypeOK, Shapes
  <2>2. fixed[b] = WithBg(args.auto_add_bg, gen[b])
    BY DEF IInv, Decoded
  <2>3. Positions(fixed[b], "bg") # {} /\ query[b] = Queries(fixed[b])
    BY DEF IInv, Decoded
  <2> QED
    BY <2>1, <2>2, <2>3, AlignedWithBg
<1> QED
  BY <1>1, IInvHolds, PTL
=============================================================================
