-------------------------- MODULE FaceLabelsProofs --------------------------
(***************************************************************************)
(* The safety of FaceLabels for all meshes, costs, thresholds and budgets: *)
(* no face stays without a label, no step of filling, dropping or merging  *)
(* takes a shell every label it had, every expansion is the best its band  *)
(* allows, and a cut that has converged is at a minimum of the whole       *)
(* mesh's energy.                                                          *)
(*                                                                         *)
(* Sums over finite sets are split and compared by induction on subsets.   *)
(* Filling, dropping and merging keep the labels to those in use           *)
(* (TypeInv).  For the cut, the energy is split into what one component of *)
(* the band decides and the rest, and a network's cost is that part up to  *)
(* a constant (CutCostIs); the components are then replaced one by one     *)
(* (ExpansionBest).  A sweep that has changed nothing has tried every      *)
(* label at one labeling (Settled).                                        *)
(***************************************************************************)
EXTENDS FaceLabels, FiniteSetTheorems, SequenceTheorems, TLAPS

-----------------------------------------------------------------------------
(* Finite sets: induction, minima, sums.                                    *)

\* What holds of a set when it holds of all its smaller subsets holds of every
\* subset of a finite set.
LEMMA SubsetInduction ==
    ASSUME NEW S, IsFiniteSet(S), NEW P,
           \A T \in SUBSET S : (\A U \in (SUBSET T) \ {T} : U \in P) => T \in P
    PROVE  \A T \in SUBSET S : T \in P
  <1> SUFFICES ASSUME NEW X \in SUBSET S, X \notin P PROVE FALSE
    OBVIOUS
  <1> DEFINE R == StrictSubsetOrdering(S)
             Bad == {T \in SUBSET S : T \notin P}
  <1>1. IsWellFoundedOn(R, SUBSET S)
    <2>1. FiniteSubsetsOf(S) = SUBSET S
      BY FS_FiniteSubsetsOfFinite
    <2>2. IsWellFoundedOn(R, FiniteSubsetsOf(S))
      BY FS_StrictSubsetOrderingWellFounded
    <2>3. QED
      BY <2>1, <2>2
  <1>2. Bad \subseteq SUBSET S /\ Bad # {}
    OBVIOUS
  <1>3. PICK T \in Bad : \A U \in Bad : ~(<<U, T>> \in R)
    <2> HIDE DEF R, Bad
    <2>1. QED
      BY <1>1, <1>2, WFMin
  <1>4. \A U \in (SUBSET T) \ {T} : U \in P
    <2> SUFFICES ASSUME NEW U \in (SUBSET T) \ {T}, U \notin P PROVE FALSE
      OBVIOUS
    <2>1. U \in Bad /\ <<U, T>> \in R
      BY DEF StrictSubsetOrdering
    <2>2. QED
      BY <1>3, <2>1
  <1>5. QED
    BY <1>4

\* What holds of the empty set and goes over to a set with one element more
\* holds of a finite set.
LEMMA GrowingSets ==
    ASSUME NEW S, IsFiniteSet(S), NEW P, {} \in P,
           \A T \in SUBSET S : \A x \in S \ T : T \in P => T \cup {x} \in P
    PROVE  S \in P
  <1>1. ASSUME NEW T \in SUBSET S, \A U \in (SUBSET T) \ {T} : U \in P PROVE T \in P
    <2>1. CASE T = {}
      BY <2>1
    <2>2. CASE T # {}
      <3>1. PICK x \in T : TRUE
        BY <2>2
      <3>2. T \ {x} \in P /\ x \in S \ (T \ {x}) /\ T \ {x} \in SUBSET S
        BY <1>1
      <3>3. (T \ {x}) \cup {x} = T
        OBVIOUS
      <3>4. QED
        BY <3>2, <3>3
    <2>3. QED
      BY <2>1, <2>2
  <1>2. QED
    BY <1>1, SubsetInduction

\* A total and transitive relation has a first element in a finite set.
LEMMA FirstOf ==
    ASSUME NEW S, IsFiniteSet(S), S # {}, NEW R,
           \A x, y \in S : <<x, y>> \in R \/ <<y, x>> \in R,
           \A x, y, z \in S : <<x, y>> \in R /\ <<y, z>> \in R => <<x, z>> \in R
    PROVE  \E x \in S : \A y \in S : <<x, y>> \in R
  <1> DEFINE P == {T \in SUBSET S : T = {} \/ \E x \in T : \A y \in T : <<x, y>> \in R}
  <1>1. {} \in P
    OBVIOUS
  <1>2. ASSUME NEW T \in SUBSET S, NEW x \in S \ T, T \in P PROVE T \cup {x} \in P
    <2>1. CASE T = {}
      BY <2>1
    <2>2. CASE T # {}
      <3>1. PICK m \in T : \A y \in T : <<m, y>> \in R
        BY <1>2, <2>2
      <3>2. <<x, x>> \in R
        OBVIOUS
      <3>3. CASE <<m, x>> \in R
        BY <3>1, <3>3
      <3>4. CASE <<x, m>> \in R
        <4>1. \A y \in T : <<x, y>> \in R
          BY <3>1, <3>4
        <4>2. QED
          BY <3>2, <4>1
      <3>5. QED
        BY <3>3, <3>4
    <2>3. QED
      BY <2>1, <2>2
  <1>3. S \in P
    <2> HIDE DEF P
    <2>1. QED
      BY <1>1, <1>2, GrowingSets
  <1>4. QED
    BY <1>3

\* A finite set of integers has a least and a greatest element.
LEMMA MinMaxOf ==
    ASSUME NEW S \in SUBSET Int, IsFiniteSet(S), S # {}
    PROVE  /\ Min(S) \in S /\ \A x \in S : Min(S) <= x
           /\ Max(S) \in S /\ \A x \in S : x <= Max(S)
  <1>1. \E x \in S : \A y \in S : x <= y
    <2> DEFINE R == {p \in S \X S : p[1] <= p[2]}
    <2>1. \A x, y \in S : <<x, y>> \in R <=> x <= y
      OBVIOUS
    <2> HIDE DEF R
    <2>2. \A x, y \in S : <<x, y>> \in R \/ <<y, x>> \in R
      <3>1. \A x, y \in S : x <= y \/ y <= x
        OBVIOUS
      <3>2. QED
        BY <2>1, <3>1
    <2>3. \A x, y, z \in S : <<x, y>> \in R /\ <<y, z>> \in R => <<x, z>> \in R
      BY <2>1
    <2>4. \E x \in S : \A y \in S : <<x, y>> \in R
      BY <2>2, <2>3, FirstOf
    <2>5. QED
      BY <2>1, <2>4
  <1>2. \E x \in S : \A y \in S : x >= y
    <2> DEFINE R == {p \in S \X S : p[1] >= p[2]}
    <2>1. \A x, y \in S : <<x, y>> \in R <=> x >= y
      OBVIOUS
    <2> HIDE DEF R
    <2>2. \A x, y \in S : <<x, y>> \in R \/ <<y, x>> \in R
      <3>1. \A x, y \in S : x >= y \/ y >= x
        OBVIOUS
      <3>2. QED
        BY <2>1, <3>1
    <2>3. \A x, y, z \in S : <<x, y>> \in R /\ <<y, z>> \in R => <<x, z>> \in R
      BY <2>1
    <2>4. \E x \in S : \A y \in S : <<x, y>> \in R
      BY <2>2, <2>3, FirstOf
    <2>5. QED
      BY <2>1, <2>4
  <1>3. Min(S) \in S /\ \A x \in S : Min(S) <= x
    BY <1>1 DEF Min
  <1>4. Max(S) \in S /\ \A x \in S : Max(S) >= x
    BY <1>2 DEF Max
  <1>5. QED
    BY <1>3, <1>4

\* g sums f over every subset of S, one element at a time.
Sums(f, S, g) ==
    g = [s \in SUBSET S |->
            IF s = {} THEN 0
            ELSE f[CHOOSE x \in s : TRUE] + g[s \ {CHOOSE x \in s : TRUE}]]

\* Two such functions agree where both are defined.
LEMMA SumsAgree ==
    ASSUME NEW f, NEW S, NEW g, Sums(f, S, g), NEW T, NEW h, Sums(f, T, h),
           NEW X, IsFiniteSet(X), X \subseteq S, X \subseteq T
    PROVE  g[X] = h[X]
  <1> DEFINE P == {U \in SUBSET X : g[U] = h[U]}
  <1>1. {} \in P
    BY DEF Sums
  <1>2. ASSUME NEW U \in SUBSET X, \A V \in (SUBSET U) \ {U} : V \in P PROVE U \in P
    <2>1. CASE U = {}
      BY <1>1, <2>1
    <2>2. CASE U # {}
      <3> DEFINE x == CHOOSE x \in U : TRUE
      <3>1. x \in U
        BY <2>2
      <3> HIDE DEF x
      <3>2. g[U \ {x}] = h[U \ {x}]
        BY <1>2, <3>1
      <3>3. U \in SUBSET S /\ U \in SUBSET T
        OBVIOUS
      <3>4. g[U] = f[x] + g[U \ {x}]
        BY <2>2, <3>3 DEF Sums, x
      <3>5. h[U] = f[x] + h[U \ {x}]
        BY <2>2, <3>3 DEF Sums, x
      <3>6. QED
        BY <3>2, <3>4, <3>5
    <2>3. QED
      BY <2>1, <2>2
  <1>3. X \in P
    <2> HIDE DEF P
    <2>1. QED
      BY <1>2, SubsetInduction
  <1>4. QED
    BY <1>3

\* There is such a function for every finite set.
LEMMA SumsExist ==
    ASSUME NEW f, NEW S, IsFiniteSet(S)
    PROVE  \E g : Sums(f, S, g)
  <1> DEFINE P == {U \in SUBSET S : \E g : Sums(f, U, g)}
  <1>1. ASSUME NEW U \in SUBSET S, \A V \in (SUBSET U) \ {U} : V \in P PROVE U \in P
    <2> DEFINE F(V) == CHOOSE g : Sums(f, V, g)
               x(V) == CHOOSE x \in V : TRUE
               val(V) == IF V = U THEN IF U = {} THEN 0
                                      ELSE f[x(U)] + F(U \ {x(U)})[U \ {x(U)}]
                         ELSE F(V)[V]
               h == [V \in SUBSET U |-> val(V)]
    <2>1. \A V \in (SUBSET U) \ {U} : Sums(f, V, F(V))
      BY <1>1
    <2>2. \A V : V # {} => x(V) \in V
      OBVIOUS
    <2>3. \A V \in SUBSET U : IsFiniteSet(V)
      BY FS_Subset
    <2>4. \A V \in SUBSET U : h[V] = val(V)
      OBVIOUS
    <2> HIDE DEF h, F, x
    <2>5. ASSUME NEW V \in SUBSET U
          PROVE  val(V) = IF V = {} THEN 0 ELSE f[x(V)] + h[V \ {x(V)}]
      <3>1. CASE V = {}
        <4>1. CASE V = U
          BY <3>1, <4>1
        <4>2. CASE V # U
          <5>1. Sums(f, V, F(V))
            BY <2>1, <4>2
          <5>2. F(V)[V] = 0
            BY <3>1, <5>1 DEF Sums
          <5>3. QED
            BY <3>1, <4>2, <5>2
        <4>3. QED
          BY <4>1, <4>2
      <3>2. CASE V # {}
        <4> DEFINE W == V \ {x(V)}
        <4>1. x(V) \in V /\ W \in SUBSET U /\ W # U /\ W \in SUBSET V
          BY <2>2, <3>2
        <4>2. h[W] = F(W)[W] /\ Sums(f, W, F(W)) /\ IsFiniteSet(W)
          BY <2>1, <2>3, <2>4, <4>1
        <4>3. CASE V = U
          BY <3>2, <4>2, <4>3
        <4>4. CASE V # U
          <5>1. Sums(f, V, F(V))
            BY <2>1, <4>4
          <5>2. F(V)[V] = f[x(V)] + F(V)[W]
            BY <3>2, <5>1 DEF Sums, x
          <5>3. F(V)[W] = F(W)[W]
            <6> HIDE DEF W
            <6>1. QED
              BY <4>1, <4>2, <5>1, SumsAgree
          <5>4. QED
            BY <3>2, <4>2, <4>4, <5>2, <5>3
        <4>5. QED
          BY <4>3, <4>4
      <3>3. QED
        BY <3>1, <3>2
    <2>6. h = [V \in SUBSET U |-> IF V = {} THEN 0 ELSE f[x(V)] + h[V \ {x(V)}]]
      <3>1. h = [V \in SUBSET U |-> val(V)]
        BY DEF h
      <3> HIDE DEF val
      <3>2. QED
        BY <2>5, <3>1
    <2>7. Sums(f, U, h)
      BY <2>6 DEF Sums, x
    <2>8. QED
      BY <2>7
  <1>2. S \in P
    <2> HIDE DEF P
    <2>1. QED
      BY <1>1, SubsetInduction
  <1>3. QED
    BY <1>2

\* What SumFunctionOnSet comes to: nothing, or one element and the sum of the
\* others.
LEMMA SumIs ==
    ASSUME NEW f, NEW S, IsFiniteSet(S)
    PROVE  /\ S = {} => SumFunctionOnSet(f, S) = 0
           /\ S # {} => \E x \in S : SumFunctionOnSet(f, S) =
                                        f[x] + SumFunctionOnSet(f, S \ {x})
  <1> DEFINE G(T) == CHOOSE g : Sums(f, T, g)
  <1>1. \A T : SumFunctionOnSet(f, T) = G(T)[T]
    BY DEF SumFunctionOnSet, FoldFunctionOnSet, MapThenFoldSet, Sums
  <1>2. \A T \in SUBSET S : IsFiniteSet(T) /\ Sums(f, T, G(T))
    BY FS_Subset, SumsExist
  <1> HIDE DEF G
  <1>3. S = {} => G(S)[S] = 0
    BY <1>2 DEF Sums
  <1>4. ASSUME S # {}
        PROVE  \E x \in S : G(S)[S] = f[x] + G(S \ {x})[S \ {x}]
    <2> DEFINE x == CHOOSE x \in S : TRUE
               W == S \ {x}
    <2>1. x \in S
      BY <1>4
    <2>2. G(S)[S] = f[x] + G(S)[W]
      BY <1>2, <1>4 DEF Sums
    <2>3. G(S)[W] = G(W)[W]
      <3>1. W \subseteq S /\ W \subseteq W /\ IsFiniteSet(W) /\ Sums(f, W, G(W))
            /\ Sums(f, S, G(S))
        BY <1>2
      <3> HIDE DEF W
      <3>2. QED
        BY <3>1, SumsAgree
    <2>4. QED
      BY <2>1, <2>2, <2>3
  <1>5. QED
    BY <1>1, <1>3, <1>4

\* Sums of integers are integers, and of natural numbers natural.
LEMMA SumType ==
    ASSUME NEW S, IsFiniteSet(S), NEW f, \A x \in S : f[x] \in Int
    PROVE  /\ SumFunctionOnSet(f, S) \in Int
           /\ (\A x \in S : f[x] \in Nat) => SumFunctionOnSet(f, S) \in Nat
  <1> DEFINE Z(T) == SumFunctionOnSet(f, T)
             P == {T \in SUBSET S : /\ Z(T) \in Int
                                    /\ (\A x \in T : f[x] \in Nat) => Z(T) \in Nat}
  <1>1. ASSUME NEW T \in SUBSET S, \A V \in (SUBSET T) \ {T} : V \in P PROVE T \in P
    <2>1. IsFiniteSet(T)
      BY FS_Subset
    <2>2. /\ T = {} => Z(T) = 0
          /\ T # {} => \E x \in T : Z(T) = f[x] + Z(T \ {x})
      BY <2>1, SumIs
    <2> HIDE DEF Z
    <2>3. CASE T = {}
      BY <2>2, <2>3
    <2>4. CASE T # {}
      <3>1. PICK x \in T : Z(T) = f[x] + Z(T \ {x})
        BY <2>2, <2>4
      <3>2. T \ {x} \in P
        BY <1>1, <3>1
      <3>3. f[x] \in Int
        OBVIOUS
      <3>4. QED
        BY <3>1, <3>2, <3>3
    <2>5. QED
      BY <2>3, <2>4
  <1>2. S \in P
    <2> HIDE DEF P
    <2>1. QED
      BY <1>1, SubsetInduction
  <1>3. QED
    BY <1>2

\* Any element may be taken first.
LEMMA SumRemove ==
    ASSUME NEW S, IsFiniteSet(S), NEW f, \A x \in S : f[x] \in Int, NEW a \in S
    PROVE  SumFunctionOnSet(f, S) = f[a] + SumFunctionOnSet(f, S \ {a})
  <1> DEFINE Z(T) == SumFunctionOnSet(f, T)
             P == {T \in SUBSET S : \A x \in T : Z(T) = f[x] + Z(T \ {x})}
  <1>1. ASSUME NEW T \in SUBSET S, \A V \in (SUBSET T) \ {T} : V \in P PROVE T \in P
    <2> SUFFICES ASSUME NEW x \in T PROVE Z(T) = f[x] + Z(T \ {x})
      OBVIOUS
    <2>1. \A V \in SUBSET T : IsFiniteSet(V) /\ Z(V) \in Int
      BY FS_Subset, SumType
    <2>2. PICK y \in T : Z(T) = f[y] + Z(T \ {y})
      BY <2>1, SumIs
    <2> HIDE DEF Z
    <2>3. CASE x = y
      BY <2>2, <2>3
    <2>4. CASE x # y
      <3>1. T \ {y} \in P /\ T \ {x} \in P /\ x \in T \ {y} /\ y \in T \ {x}
        BY <1>1, <2>4
      <3>2. Z(T \ {y}) = f[x] + Z((T \ {y}) \ {x})
        BY <3>1
      <3>3. Z(T \ {x}) = f[y] + Z((T \ {x}) \ {y})
        BY <3>1
      <3>4. (T \ {x}) \ {y} = (T \ {y}) \ {x}
        OBVIOUS
      <3>5. Z((T \ {y}) \ {x}) \in Int /\ f[x] \in Int /\ f[y] \in Int
        BY <2>1
      <3>6. \A p, q, r \in Int : p + (q + r) = q + (p + r)
        OBVIOUS
      <3>7. Z(T) = f[y] + (f[x] + Z((T \ {y}) \ {x}))
        BY <2>2, <3>2
      <3>8. Z(T) = f[x] + (f[y] + Z((T \ {y}) \ {x}))
        BY <3>5, <3>6, <3>7
      <3>9. QED
        BY <3>3, <3>4, <3>8
    <2>5. QED
      BY <2>3, <2>4
  <1>2. S \in P
    <2> HIDE DEF P
    <2>1. QED
      BY <1>1, SubsetInduction
  <1>3. QED
    BY <1>2

\* An element that is added adds its value.
LEMMA SumAdd ==
    ASSUME NEW S, IsFiniteSet(S), NEW a, a \notin S, NEW f,
           \A x \in S \cup {a} : f[x] \in Int
    PROVE  /\ IsFiniteSet(S \cup {a})
           /\ SumFunctionOnSet(f, S \cup {a}) = f[a] + SumFunctionOnSet(f, S)
  <1>1. IsFiniteSet(S \cup {a}) /\ (S \cup {a}) \ {a} = S /\ a \in S \cup {a}
    BY FS_AddElement
  <1>2. QED
    BY <1>1, SumRemove

\* Functions that agree on a set have the same sum over it.
LEMMA SumEqual ==
    ASSUME NEW S, IsFiniteSet(S), NEW f, NEW g, \A x \in S : f[x] \in Int /\ f[x] = g[x]
    PROVE  SumFunctionOnSet(f, S) = SumFunctionOnSet(g, S)
  <1> DEFINE Z(T) == SumFunctionOnSet(f, T)
             Y(T) == SumFunctionOnSet(g, T)
             P == {T \in SUBSET S : Z(T) = Y(T)}
  <1>1. {} \in P
    BY FS_EmptySet, SumIs
  <1>2. ASSUME NEW T \in SUBSET S, NEW x \in S \ T, T \in P PROVE T \cup {x} \in P
    <2>1. IsFiniteSet(T)
      BY FS_Subset
    <2>2. \A y \in T \cup {x} : f[y] \in Int /\ g[y] \in Int
      OBVIOUS
    <2>3. Z(T \cup {x}) = f[x] + Z(T) /\ Y(T \cup {x}) = g[x] + Y(T)
      BY <2>1, <2>2, SumAdd
    <2> HIDE DEF Z, Y
    <2>4. QED
      BY <1>2, <2>3
  <1>3. S \in P
    <2> HIDE DEF P
    <2>1. QED
      BY <1>1, <1>2, GrowingSets
  <1>4. QED
    BY <1>3

\* The sum over two sets without a common element.
LEMMA SumUnion ==
    ASSUME NEW S, IsFiniteSet(S), NEW T, IsFiniteSet(T), S \cap T = {},
           NEW f, \A x \in S \cup T : f[x] \in Int
    PROVE  /\ IsFiniteSet(S \cup T)
           /\ SumFunctionOnSet(f, S \cup T) = SumFunctionOnSet(f, S) + SumFunctionOnSet(f, T)
  <1> DEFINE Z(U) == SumFunctionOnSet(f, U)
             P == {U \in SUBSET T : Z(S \cup U) = Z(S) + Z(U)}
  <1>1. \A U \in SUBSET T : IsFiniteSet(U) /\ IsFiniteSet(S \cup U)
    BY FS_Subset, FS_Union
  <1>2. \A U \in SUBSET T : Z(U) \in Int /\ Z(S) \in Int /\ Z(S \cup U) \in Int
    BY <1>1, SumType
  <1>3. {} \in P
    <2>1. S \cup {} = S /\ Z({}) = 0
      BY FS_EmptySet, SumIs
    <2> HIDE DEF Z
    <2>2. QED
      BY <1>2, <2>1
  <1>4. ASSUME NEW U \in SUBSET T, NEW x \in T \ U, U \in P PROVE U \cup {x} \in P
    <2>1. Z(U \cup {x}) = f[x] + Z(U)
      BY <1>1, SumAdd
    <2>2. x \notin S \cup U
      OBVIOUS
    <2>3. \A y \in (S \cup U) \cup {x} : f[y] \in Int
      OBVIOUS
    <2>4. Z((S \cup U) \cup {x}) = f[x] + Z(S \cup U)
      BY <1>1, <2>2, <2>3, SumAdd
    <2>5. (S \cup U) \cup {x} = S \cup (U \cup {x}) /\ f[x] \in Int
      OBVIOUS
    <2>6. Z(S \cup U) = Z(S) + Z(U)
      BY <1>4
    <2>7. Z(U) \in Int /\ Z(S) \in Int
      BY <1>2
    <2> HIDE DEF Z, P
    <2>8. \A p, q, r \in Int : p + (q + r) = q + (p + r)
      OBVIOUS
    <2>9. Z(S \cup (U \cup {x})) = f[x] + Z(S \cup U)
      BY <2>4, <2>5
    <2>10. Z(S \cup (U \cup {x})) = f[x] + (Z(S) + Z(U))
      BY <2>6, <2>9
    <2>11. Z(S \cup (U \cup {x})) = Z(S) + (f[x] + Z(U))
      BY <2>5, <2>7, <2>8, <2>10
    <2>12. Z(S \cup (U \cup {x})) = Z(S) + Z(U \cup {x})
      BY <2>1, <2>11
    <2>13. QED
      BY <2>12 DEF P
  <1>5. T \in P
    <2> HIDE DEF P
    <2>1. QED
      BY <1>3, <1>4, GrowingSets
  <1>6. QED
    BY <1>1, <1>5

\* A set and its part.
LEMMA SumSplit ==
    ASSUME NEW S, IsFiniteSet(S), NEW T \in SUBSET S, NEW f, \A x \in S : f[x] \in Int
    PROVE  SumFunctionOnSet(f, S) = SumFunctionOnSet(f, T) + SumFunctionOnSet(f, S \ T)
  <1>1. IsFiniteSet(T) /\ IsFiniteSet(S \ T) /\ T \cup (S \ T) = S /\ T \cap (S \ T) = {}
    BY FS_Subset
  <1>2. QED
    BY <1>1, SumUnion

\* A sum of zeros.
LEMMA SumZero ==
    ASSUME NEW S, IsFiniteSet(S), NEW f, \A x \in S : f[x] = 0
    PROVE  SumFunctionOnSet(f, S) = 0
  <1> DEFINE Z(T) == SumFunctionOnSet(f, T)
             P == {T \in SUBSET S : Z(T) = 0}
  <1>1. {} \in P
    BY FS_EmptySet, SumIs
  <1>2. ASSUME NEW T \in SUBSET S, NEW x \in S \ T, T \in P PROVE T \cup {x} \in P
    <2>1. IsFiniteSet(T) /\ \A y \in T \cup {x} : f[y] \in Int
      BY FS_Subset
    <2>2. Z(T \cup {x}) = f[x] + Z(T)
      BY <2>1, SumAdd
    <2> HIDE DEF Z
    <2>3. QED
      BY <1>2, <2>2
  <1>3. S \in P
    <2> HIDE DEF P
    <2>1. QED
      BY <1>1, <1>2, GrowingSets
  <1>4. QED
    BY <1>3

\* Values outside a part count nothing.
LEMMA SumWhere ==
    ASSUME NEW S, IsFiniteSet(S), NEW T \in SUBSET S, NEW f, NEW g,
           \A x \in T : f[x] \in Int /\ g[x] = f[x], \A x \in S \ T : g[x] = 0
    PROVE  SumFunctionOnSet(g, S) = SumFunctionOnSet(f, T)
  <1>1. \A x \in S : g[x] \in Int
    <2>1. \A x \in S : x \in T \/ x \in S \ T
      OBVIOUS
    <2>2. QED
      BY <2>1
  <1>2. IsFiniteSet(T) /\ IsFiniteSet(S \ T)
    BY FS_Subset
  <1>3. SumFunctionOnSet(g, S) = SumFunctionOnSet(g, T) + SumFunctionOnSet(g, S \ T)
    BY <1>1, SumSplit
  <1>4. SumFunctionOnSet(g, S \ T) = 0
    BY <1>2, SumZero
  <1>5. SumFunctionOnSet(f, T) = SumFunctionOnSet(g, T)
    BY <1>2, SumEqual
  <1>6. SumFunctionOnSet(g, T) \in Int
    BY <1>1, <1>2, SumType
  <1>7. QED
    BY <1>3, <1>4, <1>5, <1>6

\* The sum of two functions.
LEMMA SumPlus ==
    ASSUME NEW S, IsFiniteSet(S), NEW f, NEW g, NEW h,
           \A x \in S : f[x] \in Int /\ g[x] \in Int /\ h[x] = f[x] + g[x]
    PROVE  SumFunctionOnSet(h, S) = SumFunctionOnSet(f, S) + SumFunctionOnSet(g, S)
  <1> DEFINE F(T) == SumFunctionOnSet(f, T)
             G(T) == SumFunctionOnSet(g, T)
             H(T) == SumFunctionOnSet(h, T)
             P == {T \in SUBSET S : H(T) = F(T) + G(T)}
  <1>1. {} \in P
    <2>1. F({}) = 0 /\ G({}) = 0 /\ H({}) = 0
      BY FS_EmptySet, SumIs
    <2> HIDE DEF F, G, H
    <2>2. QED
      BY <2>1
  <1>2. ASSUME NEW T \in SUBSET S, NEW x \in S \ T, T \in P PROVE T \cup {x} \in P
    <2>1. IsFiniteSet(T) /\ \A y \in S : h[y] \in Int
      BY FS_Subset
    <2>2. F(T \cup {x}) = f[x] + F(T)
      BY <2>1, SumAdd
    <2>3. G(T \cup {x}) = g[x] + G(T)
      BY <2>1, SumAdd
    <2>4. H(T \cup {x}) = h[x] + H(T)
      BY <2>1, SumAdd
    <2>5. F(T) \in Int /\ G(T) \in Int
      BY <2>1, SumType
    <2> HIDE DEF F, G, H
    <2>6. QED
      BY <1>2, <2>2, <2>3, <2>4, <2>5
  <1>3. S \in P
    <2> HIDE DEF P
    <2>1. QED
      BY <1>1, <1>2, GrowingSets
  <1>4. QED
    BY <1>3

\* A sum of sums over sets without common elements is the sum over their union.
LEMMA SumOfSums ==
    ASSUME NEW S, IsFiniteSet(S), NEW E, IsFiniteSet(E), NEW A \in [S -> SUBSET E],
           \A x, y \in S : x # y => A[x] \cap A[y] = {},
           NEW f, \A i \in E : f[i] \in Int,
           NEW g, \A x \in S : g[x] = SumFunctionOnSet(f, A[x])
    PROVE  SumFunctionOnSet(g, S) = SumFunctionOnSet(f, UNION {A[x] : x \in S})
  <1> DEFINE U(T) == UNION {A[x] : x \in T}
             G(T) == SumFunctionOnSet(g, T)
             F(T) == SumFunctionOnSet(f, T)
             P == {T \in SUBSET S : G(T) = F(U(T))}
  <1>1. \A T \in SUBSET E : IsFiniteSet(T) /\ F(T) \in Int
    BY FS_Subset, SumType
  <1>2. \A T \in SUBSET S : IsFiniteSet(T) /\ U(T) \in SUBSET E
    BY FS_Subset
  <1>3. \A x \in S : A[x] \in SUBSET E
    OBVIOUS
  <1>4. \A x \in S : g[x] = F(A[x]) /\ g[x] \in Int
    BY <1>1, <1>3
  <1>5. {} \in P
    <2>1. G({}) = 0 /\ F({}) = 0
      BY FS_EmptySet, SumIs
    <2>2. U({}) = {}
      OBVIOUS
    <2> HIDE DEF F, G, U
    <2>3. QED
      BY <2>1, <2>2
  <1>6. ASSUME NEW T \in SUBSET S, NEW x \in S \ T, T \in P PROVE T \cup {x} \in P
    <2>1. G(T \cup {x}) = g[x] + G(T)
      BY <1>2, <1>4, SumAdd
    <2>2. U(T \cup {x}) = A[x] \cup U(T)
      OBVIOUS
    <2>3. A[x] \cap U(T) = {}
      <3>1. \A y \in T : A[x] \cap A[y] = {}
        OBVIOUS
      <3>2. QED
        BY <3>1
    <2>4. IsFiniteSet(A[x]) /\ IsFiniteSet(U(T)) /\ \A i \in A[x] \cup U(T) : f[i] \in Int
      BY <1>1, <1>2, <1>3
    <2>5. F(A[x] \cup U(T)) = F(A[x]) + F(U(T))
      <3> HIDE DEF U
      <3>1. QED
        BY <2>3, <2>4, SumUnion
    <2> HIDE DEF F, G, U
    <2>6. QED
      BY <1>4, <1>6, <2>1, <2>2, <2>5
  <1>7. S \in P
    <2> HIDE DEF P
    <2>1. QED
      BY <1>5, <1>6, GrowingSets
  <1>8. QED
    BY <1>7

-----------------------------------------------------------------------------
(* Components.                                                              *)

\* What is closed stays so when something closed is cut off or taken out.
LEMMA ClosedParts ==
    ASSUME NEW S, NEW adj, NEW C \in Closed(S, adj), NEW D \in Closed(S, adj)
    PROVE  C \cap D \in Closed(S, adj) /\ C \ D \in Closed(S, adj)
  <1> DEFINE inside == {p \in adj : p \subseteq S}
  <1>1. \A X : X \in Closed(S, adj) <=>
                  X \subseteq S /\ \A p \in inside : p \cap X = {} \/ p \subseteq X
    BY DEF Closed
  <1> HIDE DEF inside
  <1>2. \A p \in inside : p \cap (C \cap D) = {} \/ p \subseteq C \cap D
    BY <1>1
  <1>3. ASSUME NEW p \in inside PROVE p \cap (C \ D) = {} \/ p \subseteq C \ D
    <2>1. CASE p \cap D = {}
      BY <1>1, <2>1
    <2>2. CASE p \subseteq D
      BY <2>2
    <2>3. QED
      BY <1>1, <2>1, <2>2
  <1>4. QED
    BY <1>1, <1>2, <1>3

\* The components divide the faces, keep pairs together, and are inside every
\* closed set they meet.
LEMMA ComponentsAre ==
    ASSUME NEW S, NEW adj
    PROVE  /\ \A C \in Components(S, adj) : C \subseteq S /\ C # {}
           /\ \A f \in S : \E C \in Components(S, adj) : f \in C
           /\ \A C, D \in Components(S, adj) : C = D \/ C \cap D = {}
           /\ \A C \in Components(S, adj), p \in adj :
                  p \subseteq S /\ p \cap C # {} => p \subseteq C
           /\ \A C \in Components(S, adj), D \in Closed(S, adj) :
                  C \cap D # {} => C \subseteq D
  <1> DEFINE K == Closed(S, adj)
  <1>1. \A C : C \in Components(S, adj) <=>
            C \in K /\ C # {} /\ \A D \in K : D # {} /\ D \subseteq C => D = C
    BY DEF Components
  <1>2. \A C \in K : C \subseteq S /\ \A p \in adj :
                         p \subseteq S /\ p \cap C # {} => p \subseteq C
    BY DEF Closed
  <1>3. \A C, D \in K : C \cap D \in K /\ C \ D \in K
    BY ClosedParts
  <1>4. ASSUME NEW f \in S PROVE \E C \in Components(S, adj) : f \in C
    <2> DEFINE Q == {D \in K : f \in D}
               C == {g \in S : \A D \in Q : g \in D}
    <2>1. f \in C
      OBVIOUS
    <2>2. C \in K
      <3>1. ASSUME NEW p \in adj, p \subseteq S, NEW g \in p, g \in C,
                   NEW h \in p, NEW D \in Q
            PROVE  h \in D
        <4>1. g \in D /\ D \in K
          BY <3>1
        <4>2. QED
          BY <1>2, <3>1, <4>1
      <3>2. \A p \in {q \in adj : q \subseteq S} : p \cap C = {} \/ p \subseteq C
        BY <3>1
      <3>3. C \subseteq S
        OBVIOUS
      <3> HIDE DEF C
      <3>4. QED
        BY <3>2, <3>3 DEF Closed
    <2>3. ASSUME NEW D \in K, D # {}, D \subseteq C PROVE D = C
      <3>1. CASE f \in D
        <4>1. C \subseteq D
          BY <3>1
        <4>2. QED
          BY <2>3, <4>1
      <3>2. CASE f \notin D
        <4>1. C \ D \in K /\ f \in C \ D
          BY <1>3, <2>1, <2>2, <3>2
        <4>2. C \subseteq C \ D
          BY <4>1
        <4>3. QED
          BY <2>3, <4>2
      <3>3. QED
        BY <3>1, <3>2
    <2> HIDE DEF C
    <2>4. QED
      BY <1>1, <2>1, <2>2, <2>3
  <1>5. ASSUME NEW C \in Components(S, adj), NEW D \in K, C \cap D # {}
        PROVE  C \subseteq D
    <2>1. C \cap D \in K /\ C \cap D \subseteq C
      BY <1>1, <1>3
    <2>2. C \cap D = C
      BY <1>1, <1>5, <2>1
    <2>3. QED
      BY <2>2
  <1>6. ASSUME NEW C \in Components(S, adj), NEW D \in Components(S, adj), C \cap D # {}
        PROVE  C = D
    <2>1. C \subseteq D /\ D \subseteq C
      BY <1>1, <1>5, <1>6
    <2>2. QED
      BY <2>1
  <1> HIDE DEF K
  <1>7. QED
    BY <1>1, <1>2, <1>4, <1>5, <1>6 DEF K

\* What a mesh gives: its faces are numbers, its edges have two of them each.
LEMMA MeshIs ==
    ASSUME NEW mm, IsMesh(mm)
    PROVE  /\ IsFiniteSet(mm.faces) /\ mm.faces \subseteq Nat
           /\ IsFiniteSet(EdgeIds(mm))
           /\ \A i \in EdgeIds(mm) :
                /\ mm.edges[i][1] \in mm.faces /\ mm.edges[i][2] \in mm.faces
                /\ mm.edges[i][1] # mm.edges[i][2]
                /\ Pair(mm.edges[i]) = {mm.edges[i][1], mm.edges[i][2]}
                /\ mm.smooth[i] \in Nat
           /\ \A p : p \in RealAdjacency(mm) <=>
                        \E i \in EdgeIds(mm) : p = Pair(mm.edges[i])
           /\ \A p \in RealAdjacency(mm) : p \subseteq mm.faces
           /\ \A f \in mm.faces : mm.area[f] \in Nat /\ mm.at[f] \in Int
  <1>1. EdgeIds(mm) = 1..Len(mm.edges) /\ Len(mm.edges) \in Nat
    BY DEF IsMesh, EdgeIds
  <1>2. IsFiniteSet(EdgeIds(mm))
    BY <1>1, FS_Interval
  <1>3. \A i \in EdgeIds(mm) :
          /\ mm.edges[i][1] \in mm.faces /\ mm.edges[i][2] \in mm.faces
          /\ mm.edges[i][1] # mm.edges[i][2]
    <2>1. \A i \in EdgeIds(mm) : mm.edges[i] \in mm.faces \X mm.faces
      BY <1>1 DEF IsMesh
    <2>2. QED
      BY <2>1 DEF IsMesh
  <1>4. \A i \in EdgeIds(mm) : mm.smooth[i] \in Nat
    BY DEF IsMesh
  <1>5. \A f \in mm.faces : mm.area[f] \in Nat /\ mm.at[f] \in Int
    BY DEF IsMesh
  <1>6. \A p : p \in RealAdjacency(mm) <=>
                        \E i \in EdgeIds(mm) : p = Pair(mm.edges[i])
    BY DEF RealAdjacency
  <1>7. \A i \in EdgeIds(mm) : Pair(mm.edges[i]) = {mm.edges[i][1], mm.edges[i][2]}
    BY DEF Pair
  <1>8. \A p \in RealAdjacency(mm) : p \subseteq mm.faces
    BY <1>3, <1>6, <1>7
  <1>9. QED
    BY <1>2, <1>3, <1>4, <1>5, <1>6, <1>7, <1>8 DEF IsMesh

\* The area of faces is a number.
LEMMA AreaType ==
    ASSUME NEW mm, IsMesh(mm), NEW S \in SUBSET mm.faces
    PROVE  IsFiniteSet(S) /\ Area(mm, S) \in Nat
  <1>1. IsFiniteSet(S)
    BY MeshIs, FS_Subset
  <1>2. \A f \in S : mm.area[f] \in Nat
    BY MeshIs
  <1>3. QED
    BY <1>1, <1>2, SumType DEF Area

\* Of finitely many sets of faces without common elements one is the largest.
LEMMA LargestIs ==
    ASSUME NEW mm, IsMesh(mm), NEW sets \in SUBSET SUBSET mm.faces, sets # {},
           \A S \in sets : S # {},
           \A S, T \in sets : S = T \/ S \cap T = {}
    PROVE  LargestOf(mm, sets) \in sets
  <1> DEFINE a(S) == Area(mm, S)
             m(S) == Min(S)
             R == {p \in sets \X sets :
                      a(p[1]) > a(p[2]) \/ (a(p[1]) = a(p[2]) /\ m(p[1]) <= m(p[2]))}
  <1>1. \A S \in sets : a(S) \in Nat /\ m(S) \in S /\ m(S) \in Int
    <2> SUFFICES ASSUME NEW S \in sets PROVE a(S) \in Nat /\ m(S) \in S /\ m(S) \in Int
      OBVIOUS
    <2>1. S \in SUBSET mm.faces
      OBVIOUS
    <2>2. S \in SUBSET Int
      BY <2>1, MeshIs
    <2>3. IsFiniteSet(S) /\ a(S) \in Nat
      BY <2>1, AreaType
    <2>4. QED
      BY <2>2, <2>3, MinMaxOf
  <1>2. IsFiniteSet(sets)
    <2>1. IsFiniteSet(SUBSET mm.faces)
      BY MeshIs, FS_SUBSET
    <2>2. QED
      BY <2>1, FS_Subset
  <1>3. \A S, T \in sets : <<S, T>> \in R <=>
            a(S) > a(T) \/ (a(S) = a(T) /\ m(S) <= m(T))
    OBVIOUS
  <1> HIDE DEF a, m, R
  <1>4. \A S, T \in sets : <<S, T>> \in R \/ <<T, S>> \in R
    <2> SUFFICES ASSUME NEW S \in sets, NEW T \in sets
                 PROVE  <<S, T>> \in R \/ <<T, S>> \in R
      OBVIOUS
    <2>1. a(S) \in Int /\ a(T) \in Int /\ m(S) \in Int /\ m(T) \in Int
      BY <1>1
    <2>2. QED
      BY <1>3, <2>1
  <1>5. \A S, T, U \in sets : <<S, T>> \in R /\ <<T, U>> \in R => <<S, U>> \in R
    <2> SUFFICES ASSUME NEW S \in sets, NEW T \in sets, NEW U \in sets,
                        <<S, T>> \in R, <<T, U>> \in R
                 PROVE  <<S, U>> \in R
      OBVIOUS
    <2>1. /\ a(S) \in Int /\ a(T) \in Int /\ m(S) \in Int /\ m(T) \in Int
          /\ a(U) \in Int /\ m(U) \in Int
      BY <1>1
    <2>2. QED
      BY <1>3, <2>1
  <1>6. PICK S \in sets : \A T \in sets : <<S, T>> \in R
    BY <1>2, <1>4, <1>5, FirstOf
  <1>7. ASSUME NEW T \in sets \ {S}
        PROVE  a(S) > a(T) \/ (a(S) = a(T) /\ m(S) < m(T))
    <2>1. <<S, T>> \in R
      BY <1>6
    <2>2. m(S) # m(T)
      BY <1>1
    <2>3. a(S) \in Int /\ a(T) \in Int /\ m(S) \in Int /\ m(T) \in Int
      BY <1>1
    <2>4. QED
      BY <1>3, <2>1, <2>2, <2>3
  <1>8. QED
    BY <1>7 DEF LargestOf, a, m

-----------------------------------------------------------------------------
(* Rounds.                                                                  *)

\* Induction along the rounds.
LEMMA RangeInduction ==
    ASSUME NEW N \in Nat, NEW P, 0 \in P, \A n \in 1..N : n - 1 \in P => n \in P
    PROVE  \A n \in 0..N : n \in P
  <1> SUFFICES ASSUME NEW k \in 0..N, k \notin P PROVE FALSE
    OBVIOUS
  <1> DEFINE Bad == {n \in 0..N : n \notin P}
             m == Min(Bad)
  <1>1. IsFiniteSet(Bad) /\ Bad # {} /\ Bad \in SUBSET Int
    <2>1. IsFiniteSet(0..N)
      BY FS_Interval
    <2>2. QED
      BY <2>1, FS_Subset
  <1>2. m \in Bad /\ \A x \in Bad : m <= x
    <2> HIDE DEF Bad
    <2>1. QED
      BY <1>1, MinMaxOf
  <1> HIDE DEF m
  <1>3. m \in 0..N /\ m \notin P /\ m # 0
    BY <1>2
  <1>4. m \in 1..N /\ m - 1 \in 0..N /\ ~ (m <= m - 1)
    BY <1>3
  <1>5. m - 1 \in P
    BY <1>2, <1>4
  <1>6. QED
    BY <1>3, <1>4, <1>5

\* f starts from a value and takes a step of its own in every round.
Rounds(f, N, L, base, step) ==
    /\ f \in [0..N -> L]
    /\ \A n \in 0..N : f[n] = IF n = 0 THEN base ELSE step[<<n, f[n - 1]>>]

\* There is a function that starts from a value and takes a step of its own in
\* every round.
LEMMA RoundsExist ==
    ASSUME NEW N \in Nat, NEW L, NEW base \in L, NEW step \in [(1..N) \X L -> L]
    PROVE  \E f : Rounds(f, N, L, base, step)
  <1> DEFINE Runs(k) == {f \in [0..k -> L] :
                            f[0] = base /\ \A n \in 1..k : f[n] = step[<<n, f[n - 1]>>]}
             P == {k \in 0..N : Runs(k) # {}}
  <1>1. 0 \in P
    <2>1. [n \in 0..0 |-> base] \in Runs(0)
      OBVIOUS
    <2> HIDE DEF Runs
    <2>2. QED
      BY <2>1
  <1>2. ASSUME NEW k \in 1..N, k - 1 \in P PROVE k \in P
    <2>1. PICK f : f \in Runs(k - 1)
      BY <1>2
    <2> DEFINE h == [n \in 0..k |-> IF n = k THEN step[<<k, f[k - 1]>>] ELSE f[n]]
    <2>2. f \in [0..(k - 1) -> L] /\ f[k - 1] \in L
      BY <2>1
    <2>3. step[<<k, f[k - 1]>>] \in L
      BY <2>2
    <2>4. h \in [0..k -> L]
      <3>1. \A n \in 0..k : n # k => n \in 0..(k - 1)
        OBVIOUS
      <3>2. QED
        BY <2>2, <2>3, <3>1
    <2>5. h[0] = base
      BY <2>1
    <2>6. ASSUME NEW n \in 1..k PROVE h[n] = step[<<n, h[n - 1]>>]
      <3>1. n - 1 \in 0..k /\ n - 1 # k /\ h[n - 1] = f[n - 1]
        OBVIOUS
      <3>2. CASE n = k
        BY <3>1, <3>2
      <3>3. CASE n # k
        <4>1. n \in 1..(k - 1) /\ h[n] = f[n]
          BY <3>3
        <4>2. f[n] = step[<<n, f[n - 1]>>]
          BY <2>1, <4>1
        <4> HIDE DEF h
        <4>3. QED
          BY <3>1, <4>1, <4>2
      <3>4. QED
        BY <3>2, <3>3
    <2> HIDE DEF h
    <2>7. h \in Runs(k)
      BY <2>4, <2>5, <2>6
    <2>8. QED
      BY <2>7
  <1>3. N \in P
    <2> HIDE DEF P
    <2>1. \A k \in 0..N : k \in P
      BY <1>1, <1>2, RangeInduction
    <2>2. QED
      BY <2>1
  <1>4. PICK f \in Runs(N) : TRUE
    BY <1>3
  <1>5. f \in [0..N -> L] /\ f[0] = base
    BY <1>4
  <1>6. \A n \in 0..N : n # 0 => n \in 1..N
    OBVIOUS
  <1>7. QED
    BY <1>4, <1>5, <1>6 DEF Rounds

-----------------------------------------------------------------------------
(* Labelings.                                                               *)

\* The ways to give the faces labels out of a set, or none.
Labelings(mm, used) == [mm.faces -> used \cup {Unlabelled}]

\* Faces that have a label keep it.
Keeps(mm, l, m) == \A f \in mm.faces : l[f] # Unlabelled => m[f] = l[f]

\* A set of labels: numbers, finitely many.
AreLabels(used) == used \subseteq Nat /\ IsFiniteSet(used)

\* A round of votes gives faces labels their neighbours have, and takes none
\* away.
LEMMA VoteRoundIs ==
    ASSUME NEW mm, IsMesh(mm), NEW adj, \A p \in adj : p \subseteq mm.faces,
           NEW used, AreLabels(used), NEW l \in Labelings(mm, used)
    PROVE  VoteRound(adj, l) \in Labelings(mm, used) /\ Keeps(mm, l, VoteRound(adj, l))
  <1> DEFINE V(f, c) == Cardinality(Voters(adj, l, f, c))
             For(f) == {l[g] : g \in UNION {p \in adj : f \in p}} \ {Unlabelled}
             W(f) == CHOOSE c \in For(f) : \A d \in For(f) \ {c} :
                        \/ V(f, c) > V(f, d)
                        \/ V(f, c) = V(f, d) /\ c < d
  <1>1. ASSUME NEW f \in mm.faces, For(f) # {} PROVE W(f) \in used
    <2>1. For(f) \subseteq used
      <3>1. \A g \in UNION {p \in adj : f \in p} : g \in mm.faces
        OBVIOUS
      <3>2. \A g \in mm.faces : l[g] \in used \cup {Unlabelled}
        BY DEF Labelings
      <3>3. QED
        BY <3>1, <3>2
    <2>2. IsFiniteSet(For(f)) /\ For(f) \subseteq Int
      <3> HIDE DEF For
      <3>1. IsFiniteSet(For(f))
        BY <2>1, FS_Subset DEF AreLabels
      <3>2. For(f) \subseteq Int
        <4>1. used \subseteq Int
          BY DEF AreLabels
        <4>2. QED
          BY <2>1, <4>1
      <3>3. QED
        BY <3>1, <3>2
    <2>3. \A c \in For(f) : V(f, c) \in Int
      <3>1. \A c : Voters(adj, l, f, c) \subseteq mm.faces
        BY DEF Voters
      <3>2. \A c : IsFiniteSet(Voters(adj, l, f, c))
        BY <3>1, MeshIs, FS_Subset
      <3>3. QED
        BY <3>2, FS_CardinalityType
    <2> DEFINE S == For(f)
               v(c) == V(f, c)
               R == {p \in S \X S : v(p[1]) > v(p[2]) \/ (v(p[1]) = v(p[2]) /\ p[1] <= p[2])}
    <2>4. \A c, d \in S : <<c, d>> \in R <=> v(c) > v(d) \/ (v(c) = v(d) /\ c <= d)
      <3> HIDE DEF S, v
      <3>1. QED
        OBVIOUS
    <2>5. \A c \in S : v(c) \in Int /\ c \in Int
      BY <2>2, <2>3
    <2>6. IsFiniteSet(S) /\ S # {}
      BY <1>1, <2>2
    <2>7. PICK c \in S : \A d \in S : <<c, d>> \in R
      <3> HIDE DEF S, v, R
      <3>1. \A x, y \in S : <<x, y>> \in R \/ <<y, x>> \in R
        <4> SUFFICES ASSUME NEW x \in S, NEW y \in S PROVE <<x, y>> \in R \/ <<y, x>> \in R
          OBVIOUS
        <4>1. v(x) \in Int /\ v(y) \in Int /\ x \in Int /\ y \in Int
          BY <2>5
        <4>2. QED
          BY <2>4, <4>1
      <3>2. \A x, y, z \in S : <<x, y>> \in R /\ <<y, z>> \in R => <<x, z>> \in R
        <4> SUFFICES ASSUME NEW x \in S, NEW y \in S, NEW z \in S,
                            <<x, y>> \in R, <<y, z>> \in R
                     PROVE  <<x, z>> \in R
          OBVIOUS
        <4>1. /\ v(x) \in Int /\ v(y) \in Int /\ x \in Int /\ y \in Int
              /\ v(z) \in Int /\ z \in Int
          BY <2>5
        <4>2. QED
          BY <2>4, <4>1
      <3>3. QED
        BY <2>6, <3>1, <3>2, FirstOf
    <2>8. \A d \in S \ {c} : v(c) > v(d) \/ (v(c) = v(d) /\ c < d)
      <3> HIDE DEF S, v, R
      <3> SUFFICES ASSUME NEW d \in S \ {c} PROVE v(c) > v(d) \/ (v(c) = v(d) /\ c < d)
        OBVIOUS
      <3>1. v(c) \in Int /\ v(d) \in Int /\ c \in Int /\ d \in Int /\ <<c, d>> \in R
        BY <2>5, <2>7
      <3>2. QED
        BY <2>4, <3>1
    <2>9. W(f) \in For(f)
      <3> HIDE DEF R, V, For
      <3>1. QED
        BY <2>8
    <2>10. QED
      BY <2>1, <2>9
  <1>2. VoteRound(adj, l) = [f \in mm.faces |->
                               IF l[f] = Unlabelled /\ For(f) # {} THEN W(f) ELSE l[f]]
    BY DEF VoteRound, Labelings
  <1> HIDE DEF W, For
  <1>3. \A f \in mm.faces : l[f] \in used \cup {Unlabelled}
    BY DEF Labelings
  <1>4. QED
    BY <1>1, <1>2, <1>3 DEF Labelings, Keeps

\* What a round keeps, all rounds keep.
LEMMA RoundsKeep ==
    ASSUME NEW mm, NEW used, NEW l \in Labelings(mm, used), NEW N \in Nat,
           NEW r, r[0] = l,
           \A n \in 1..N : r[n - 1] \in Labelings(mm, used) =>
                               /\ r[n] \in Labelings(mm, used)
                               /\ Keeps(mm, r[n - 1], r[n])
    PROVE  r[N] \in Labelings(mm, used) /\ Keeps(mm, l, r[N])
  <1> DEFINE P == {n \in 0..N : r[n] \in Labelings(mm, used) /\ Keeps(mm, l, r[n])}
  <1>1. 0 \in P
    BY DEF Keeps
  <1>2. ASSUME NEW n \in 1..N, n - 1 \in P PROVE n \in P
    <2>1. r[n - 1] \in Labelings(mm, used) /\ Keeps(mm, l, r[n - 1])
      BY <1>2
    <2>2. r[n] \in Labelings(mm, used) /\ Keeps(mm, r[n - 1], r[n])
      BY <2>1
    <2>3. Keeps(mm, l, r[n])
      BY <2>1, <2>2 DEF Keeps
    <2>4. n \in 0..N
      OBVIOUS
    <2>5. QED
      BY <2>2, <2>3, <2>4
  <1>3. \A n \in 0..N : n \in P
    <2> HIDE DEF P
    <2>1. QED
      BY <1>1, <1>2, RangeInduction
  <1>4. N \in 0..N
    OBVIOUS
  <1>5. QED
    BY <1>3, <1>4

\* And so do all rounds of votes together.
LEMMA FillByVotingIs ==
    ASSUME NEW mm, IsMesh(mm), NEW adj, \A p \in adj : p \subseteq mm.faces,
           NEW used, AreLabels(used), NEW l \in Labelings(mm, used), NEW N \in Nat
    PROVE  /\ FillByVoting(adj, l, N) \in Labelings(mm, used)
           /\ Keeps(mm, l, FillByVoting(adj, l, N))
  <1> DEFINE L == Labelings(mm, used)
             step == [p \in (1..N) \X L |-> VoteRound(adj, p[2])]
             F(r) == [n \in 0..N |->
                        IF n = 0 THEN l
                        ELSE LET before == r[n - 1]
                                 after == VoteRound(adj, before)
                             IN  IF after = before THEN before ELSE after]
             round == CHOOSE r : r = F(r)
  <1>1. \A m \in L : VoteRound(adj, m) \in L /\ Keeps(mm, m, VoteRound(adj, m))
    BY VoteRoundIs
  <1>2. step \in [(1..N) \X L -> L] /\ l \in L
    BY <1>1
  <1>3. \A n \in 1..N, m \in L : step[<<n, m>>] = VoteRound(adj, m)
    OBVIOUS
  <1> HIDE DEF step, L
  <1>4. PICK f : Rounds(f, N, L, l, step)
    BY <1>2, RoundsExist
  <1>5. f = F(f)
    <2>1. \A n \in 0..N : n # 0 => n \in 1..N /\ f[n - 1] \in L
      BY <1>4 DEF Rounds
    <2>2. \A n \in 0..N : f[n] = IF n = 0 THEN l ELSE VoteRound(adj, f[n - 1])
      BY <1>3, <1>4, <2>1 DEF Rounds
    <2>3. F(f) = [n \in 0..N |-> IF n = 0 THEN l ELSE VoteRound(adj, f[n - 1])]
      OBVIOUS
    <2>4. f = [n \in 0..N |-> f[n]]
      BY <1>4 DEF Rounds
    <2> HIDE DEF F
    <2>5. QED
      BY <2>2, <2>3, <2>4
  <1>6. round = F(round)
    <2> HIDE DEF F
    <2>1. QED
      BY <1>5
  <1>7. FillByVoting(adj, l, N) = round[N]
    BY DEF FillByVoting
  <1> HIDE DEF round
  <1>8. round[0] = l /\ \A n \in 1..N : round[n] = VoteRound(adj, round[n - 1])
    BY <1>6
  <1> HIDE DEF F
  <1>9. \A n \in 1..N : round[n - 1] \in Labelings(mm, used) =>
                             /\ round[n] \in Labelings(mm, used)
                             /\ Keeps(mm, round[n - 1], round[n])
    BY <1>1, <1>8 DEF L
  <1>10. QED
    BY <1>7, <1>8, <1>9, RoundsKeep

\* Passing labels along the edges once.
LEMMA EdgeRoundIs ==
    ASSUME NEW mm, IsMesh(mm), NEW used, NEW l \in Labelings(mm, used)
    PROVE  EdgeRound(mm, l) \in Labelings(mm, used) /\ Keeps(mm, l, EdgeRound(mm, l))
  <1> DEFINE L == Labelings(mm, used)
             N == Len(mm.edges)
             Pass(m, a, b) ==
                IF m[a] = Unlabelled /\ m[b] # Unlabelled
                THEN [m EXCEPT ![a] = m[b]]
                ELSE IF m[b] = Unlabelled /\ m[a] # Unlabelled
                     THEN [m EXCEPT ![b] = m[a]]
                     ELSE m
             step == [p \in (1..N) \X L |->
                        Pass(p[2], mm.edges[p[1]][1], mm.edges[p[1]][2])]
             F(r) == [n \in 0..N |->
                        IF n = 0 THEN l
                        ELSE Pass(r[n - 1], mm.edges[n][1], mm.edges[n][2])]
             pass == CHOOSE r : r = F(r)
  <1>1. N \in Nat /\ \A n \in 1..N : mm.edges[n][1] \in mm.faces /\ mm.edges[n][2] \in mm.faces
    <2>1. N \in Nat /\ EdgeIds(mm) = 1..N
      BY DEF IsMesh, EdgeIds
    <2>2. QED
      BY <2>1, MeshIs
  <1>2. ASSUME NEW m \in L, NEW a \in mm.faces, NEW b \in mm.faces
        PROVE  Pass(m, a, b) \in L /\ Keeps(mm, m, Pass(m, a, b))
    <2>1. m \in [mm.faces -> used \cup {Unlabelled}]
      BY DEF Labelings
    <2>2. m[a] \in used \cup {Unlabelled} /\ m[b] \in used \cup {Unlabelled}
      BY <2>1
    <2>3. CASE m[a] = Unlabelled /\ m[b] # Unlabelled
      <3>1. Pass(m, a, b) = [m EXCEPT ![a] = m[b]]
        BY <2>3
      <3>2. [m EXCEPT ![a] = m[b]] \in [mm.faces -> used \cup {Unlabelled}]
        BY <2>1, <2>2
      <3>3. \A f \in mm.faces : m[f] # Unlabelled => [m EXCEPT ![a] = m[b]][f] = m[f]
        BY <2>1, <2>3
      <3>4. QED
        BY <3>1, <3>2, <3>3 DEF Labelings, Keeps
    <2>4. CASE ~ (m[a] = Unlabelled /\ m[b] # Unlabelled)
               /\ m[b] = Unlabelled /\ m[a] # Unlabelled
      <3>1. Pass(m, a, b) = [m EXCEPT ![b] = m[a]]
        BY <2>4
      <3>2. [m EXCEPT ![b] = m[a]] \in [mm.faces -> used \cup {Unlabelled}]
        BY <2>1, <2>2
      <3>3. \A f \in mm.faces : m[f] # Unlabelled => [m EXCEPT ![b] = m[a]][f] = m[f]
        BY <2>1, <2>4
      <3>4. QED
        BY <3>1, <3>2, <3>3 DEF Labelings, Keeps
    <2>5. CASE Pass(m, a, b) = m
      BY <2>5 DEF Keeps
    <2>6. QED
      BY <2>3, <2>4, <2>5
  <1>3. \A m \in L : \A n \in 1..N :
            /\ Pass(m, mm.edges[n][1], mm.edges[n][2]) \in L
            /\ Keeps(mm, m, Pass(m, mm.edges[n][1], mm.edges[n][2]))
    BY <1>1, <1>2
  <1>4. EdgeRound(mm, l) = pass[N]
    BY DEF EdgeRound
  <1> HIDE DEF Pass
  <1>5. step \in [(1..N) \X L -> L] /\ l \in L
    BY <1>3
  <1>6. \A n \in 1..N, m \in L :
            step[<<n, m>>] = Pass(m, mm.edges[n][1], mm.edges[n][2])
    OBVIOUS
  <1> HIDE DEF step, L, N
  <1>7. PICK f : Rounds(f, N, L, l, step)
    BY <1>1, <1>5, RoundsExist
  <1>8. f = F(f)
    <2>1. \A n \in 0..N : n # 0 => n \in 1..N /\ f[n - 1] \in L
      BY <1>1, <1>7 DEF Rounds
    <2>2. \A n \in 0..N : f[n] = IF n = 0 THEN l
                                 ELSE Pass(f[n - 1], mm.edges[n][1], mm.edges[n][2])
      BY <1>6, <1>7, <2>1 DEF Rounds
    <2>3. F(f) = [n \in 0..N |-> IF n = 0 THEN l
                                 ELSE Pass(f[n - 1], mm.edges[n][1], mm.edges[n][2])]
      OBVIOUS
    <2>4. f = [n \in 0..N |-> f[n]]
      BY <1>7 DEF Rounds
    <2> HIDE DEF F
    <2>5. QED
      BY <2>2, <2>3, <2>4
  <1>9. pass = F(pass)
    <2> HIDE DEF F
    <2>1. QED
      BY <1>8
  <1> HIDE DEF pass
  <1>10. pass[0] = l /\ \A n \in 1..N :
            pass[n] = Pass(pass[n - 1], mm.edges[n][1], mm.edges[n][2])
    BY <1>1, <1>9
  <1> HIDE DEF F
  <1>11. \A n \in 1..N : pass[n - 1] \in Labelings(mm, used) =>
                             /\ pass[n] \in Labelings(mm, used)
                             /\ Keeps(mm, pass[n - 1], pass[n])
    BY <1>3, <1>10 DEF L
  <1>12. QED
    BY <1>1, <1>4, <1>10, <1>11, RoundsKeep

\* And as often as _fill_unsampled_faces does.
LEMMA FillAlongEdgesIs ==
    ASSUME NEW mm, IsMesh(mm), NEW used, NEW l \in Labelings(mm, used), NEW N \in Nat
    PROVE  /\ FillAlongEdges(mm, l, N) \in Labelings(mm, used)
           /\ Keeps(mm, l, FillAlongEdges(mm, l, N))
  <1> DEFINE L == Labelings(mm, used)
             step == [p \in (1..N) \X L |-> EdgeRound(mm, p[2])]
             F(r) == [n \in 0..N |-> IF n = 0 THEN l ELSE EdgeRound(mm, r[n - 1])]
             round == CHOOSE r : r = F(r)
  <1>1. \A m \in L : EdgeRound(mm, m) \in L /\ Keeps(mm, m, EdgeRound(mm, m))
    BY EdgeRoundIs
  <1>2. step \in [(1..N) \X L -> L] /\ l \in L
    BY <1>1
  <1>3. \A n \in 1..N, m \in L : step[<<n, m>>] = EdgeRound(mm, m)
    OBVIOUS
  <1> HIDE DEF step, L
  <1>4. PICK f : Rounds(f, N, L, l, step)
    BY <1>2, RoundsExist
  <1>5. f = F(f)
    <2>1. \A n \in 0..N : n # 0 => n \in 1..N /\ f[n - 1] \in L
      BY <1>4 DEF Rounds
    <2>2. \A n \in 0..N : f[n] = IF n = 0 THEN l ELSE EdgeRound(mm, f[n - 1])
      BY <1>3, <1>4, <2>1 DEF Rounds
    <2>3. F(f) = [n \in 0..N |-> IF n = 0 THEN l ELSE EdgeRound(mm, f[n - 1])]
      OBVIOUS
    <2>4. f = [n \in 0..N |-> f[n]]
      BY <1>4 DEF Rounds
    <2> HIDE DEF F
    <2>5. QED
      BY <2>2, <2>3, <2>4
  <1>6. round = F(round)
    <2> HIDE DEF F
    <2>1. QED
      BY <1>5
  <1>7. FillAlongEdges(mm, l, N) = round[N]
    BY DEF FillAlongEdges
  <1> HIDE DEF round
  <1>8. round[0] = l /\ \A n \in 1..N : round[n] = EdgeRound(mm, round[n - 1])
    BY <1>6
  <1> HIDE DEF F
  <1>9. \A n \in 1..N : round[n - 1] \in Labelings(mm, used) =>
                             /\ round[n] \in Labelings(mm, used)
                             /\ Keeps(mm, round[n - 1], round[n])
    BY <1>1, <1>8 DEF L
  <1>10. QED
    BY <1>7, <1>8, <1>9, RoundsKeep

\* Some face has a label; every face has one.
SomeLabelled(mm, l) == \E f \in mm.faces : l[f] # Unlabelled
AllLabelled(mm, l) == \A f \in mm.faces : l[f] # Unlabelled

\* The k-d tree gives every face a label when there is one to give.
LEMMA NearestFillsIs ==
    ASSUME NEW mm, IsMesh(mm), NEW used, NEW l \in Labelings(mm, used),
           NEW m \in NearestFills(mm, l)
    PROVE  /\ m \in Labelings(mm, used) /\ Keeps(mm, l, m)
           /\ SomeLabelled(mm, l) => AllLabelled(mm, m)
  <1> DEFINE labelled == {f \in mm.faces : l[f] # Unlabelled}
  <1>1. CASE labelled = {}
    <2>1. m = l
      BY <1>1 DEF NearestFills
    <2>2. QED
      BY <1>1, <2>1 DEF Keeps, SomeLabelled
  <1>2. CASE labelled # {}
    <2>1. PICK c \in [mm.faces \ labelled -> labelled] :
            m = [f \in mm.faces |-> IF f \in labelled THEN l[f] ELSE l[c[f]]]
      BY <1>2 DEF NearestFills
    <2>2. \A f \in mm.faces : l[f] \in used \cup {Unlabelled}
      BY DEF Labelings
    <2>3. \A f \in mm.faces \ labelled : c[f] \in labelled
      BY <2>1
    <2>4. \A f \in mm.faces : m[f] \in used \cup {Unlabelled} /\ m[f] # Unlabelled
      <3> SUFFICES ASSUME NEW f \in mm.faces
                   PROVE  m[f] \in used \cup {Unlabelled} /\ m[f] # Unlabelled
        OBVIOUS
      <3>1. CASE f \in labelled
        BY <2>1, <2>2, <3>1
      <3>2. CASE f \notin labelled
        <4>1. c[f] \in labelled /\ m[f] = l[c[f]]
          BY <2>1, <2>3, <3>2
        <4>2. QED
          BY <2>2, <4>1
      <3>3. QED
        BY <3>1, <3>2
    <2>5. Keeps(mm, l, m)
      BY <2>1 DEF Keeps
    <2>6. m \in Labelings(mm, used)
      BY <2>1, <2>4 DEF Labelings
    <2>7. QED
      BY <2>4, <2>5, <2>6 DEF AllLabelled
  <1>3. QED
    BY <1>1, <1>2

\* Comparing ratios by multiplying out is transitive.
LEMMA RatioTransitive ==
    ASSUME NEW a \in Int, NEW b \in Int, NEW c \in Int,
           NEW u \in Int, NEW v \in Int, NEW w \in Int, u > 0, v > 0, w > 0,
           a * v <= b * u, b * w <= c * v
    PROVE  a * w <= c * u
  <1>1. \A x, y, z \in Int : x <= y /\ z > 0 => x * z <= y * z
    OBVIOUS
  <1>2. \A x, y, z \in Int : (x * y) * z = (x * z) * y
    OBVIOUS
  <1>3. \A x, y, z \in Int : x * z <= y * z /\ z > 0 => x <= y
    <2> SUFFICES ASSUME NEW x \in Int, NEW y \in Int, NEW z \in Int,
                        x * z <= y * z, z > 0, y < x
                 PROVE  FALSE
      OBVIOUS
    <2>1. x - y >= 1 /\ (x - y) * z >= z /\ (x - y) * z = x * z - y * z
      OBVIOUS
    <2>2. x * z \in Int /\ y * z \in Int
      OBVIOUS
    <2>3. QED
      BY <2>1, <2>2
  <1> DEFINE av == a * v   bu == b * u   bw == b * w   cv == c * v   aw == a * w   cu == c * u
  <1>4. av \in Int /\ bu \in Int /\ bw \in Int /\ cv \in Int /\ aw \in Int /\ cu \in Int
    OBVIOUS
  <1>5. aw * v = av * w /\ bu * w = bw * u /\ cv * u = cu * v
    BY <1>2
  <1>6. av <= bu /\ bw <= cv
    OBVIOUS
  <1> HIDE DEF av, bu, bw, cv, aw, cu
  <1>7. av * w <= bu * w /\ bw * u <= cv * u
    BY <1>1, <1>4, <1>6
  <1>8. av * w \in Int /\ bu * w \in Int /\ cv * u \in Int
    BY <1>4
  <1>9. aw * v <= cu * v
    BY <1>5, <1>7, <1>8
  <1>10. aw <= cu
    BY <1>3, <1>4, <1>9
  <1>11. QED
    BY <1>10 DEF aw, cu

\* The shells divide the faces.
LEMMA ShellsAre ==
    ASSUME NEW mm, IsMesh(mm)
    PROVE  /\ Shells(mm) \in SUBSET SUBSET mm.faces /\ IsFiniteSet(Shells(mm))
           /\ \A S \in Shells(mm) : S # {} /\ IsFiniteSet(S)
           /\ \A f \in mm.faces : \E S \in Shells(mm) : f \in S
           /\ \A S, T \in Shells(mm) : S = T \/ S \cap T = {}
           /\ \A S \in Shells(mm), p \in RealAdjacency(mm) : p \cap S # {} => p \subseteq S
  <1> DEFINE adj == RealAdjacency(mm)
  <1>1. /\ \A C \in Components(mm.faces, adj) : C \subseteq mm.faces /\ C # {}
        /\ \A f \in mm.faces : \E C \in Components(mm.faces, adj) : f \in C
        /\ \A C, D \in Components(mm.faces, adj) : C = D \/ C \cap D = {}
        /\ \A C \in Components(mm.faces, adj), p \in adj :
               p \subseteq mm.faces /\ p \cap C # {} => p \subseteq C
    BY ComponentsAre
  <1>2. IsFiniteSet(SUBSET mm.faces) /\ IsFiniteSet(mm.faces)
    BY MeshIs, FS_SUBSET
  <1>3. \A p \in adj : p \subseteq mm.faces
    BY MeshIs
  <1>4. Shells(mm) = Components(mm.faces, adj)
    BY DEF Shells
  <1> HIDE DEF adj
  <1>5. Shells(mm) \in SUBSET SUBSET mm.faces
    BY <1>1, <1>4
  <1>6. IsFiniteSet(Shells(mm)) /\ \A S \in Shells(mm) : IsFiniteSet(S)
    BY <1>2, <1>5, FS_Subset
  <1>7. QED
    BY <1>1, <1>3, <1>4, <1>5, <1>6 DEF adj

\* The weight of a shell is positive, its moment a number.
LEMMA WeightIs ==
    ASSUME NEW mm, IsMesh(mm), NEW S \in SUBSET mm.faces, S # {}
    PROVE  Weight(mm, S) \in Int /\ Weight(mm, S) > 0 /\ Moment(mm, S) \in Int
  <1>1. IsFiniteSet(S) /\ Area(mm, S) \in Nat
    BY AreaType
  <1>2. Cardinality(S) \in Nat /\ Cardinality(S) # 0
    BY <1>1, FS_CardinalityType, FS_EmptySet
  <1>3. Weight(mm, S) \in Int /\ Weight(mm, S) > 0
    BY <1>1, <1>2 DEF Weight
  <1>4. \A f \in S : mm.area[f] \in Int /\ mm.at[f] \in Int
    BY MeshIs
  <1>5. SumFunctionOnSet([f \in S |-> mm.area[f] * mm.at[f]], S) \in Int
    <2> DEFINE g == [f \in S |-> mm.area[f] * mm.at[f]]
    <2>1. \A f \in S : g[f] \in Int
      BY <1>4
    <2> HIDE DEF g
    <2>2. SumFunctionOnSet(g, S) \in Int
      BY <1>1, <2>1, SumType
    <2>3. QED
      BY <2>2 DEF g
  <1>6. SumFunctionOnSet(mm.at, S) \in Int
    BY <1>1, <1>4, SumType
  <1>7. QED
    BY <1>3, <1>5, <1>6 DEF Moment

\* The nearest shell is one of the shells, and the face that stands for a
\* shell one of its faces.
LEMMA NearestIs ==
    ASSUME NEW mm, IsMesh(mm), Cardinality(Shells(mm)) > 1, NEW S \in Shells(mm)
    PROVE  NearestShell(mm, S) \in Shells(mm)
  <1> DEFINE others == Shells(mm) \ {S}
             g(T) == Distance(Moment(mm, S) * Weight(mm, T), Moment(mm, T) * Weight(mm, S))
             w(T) == Weight(mm, T)
             R == {p \in others \X others : g(p[1]) * w(p[2]) <= g(p[2]) * w(p[1])}
  <1>1. IsFiniteSet(others) /\ others # {}
    <2>1. IsFiniteSet(Shells(mm)) /\ IsFiniteSet(others)
      BY ShellsAre, FS_Subset
    <2>2. CASE others = {}
      <3>1. Shells(mm) = {S}
        BY <2>2
      <3>2. Cardinality(Shells(mm)) = 1
        BY <3>1, FS_Singleton
      <3>3. QED
        BY <3>2
    <2>3. QED
      BY <2>1, <2>2
  <1>2. ASSUME NEW T \in others PROVE g(T) \in Int /\ w(T) \in Int /\ w(T) > 0
    <2>1. T \in SUBSET mm.faces /\ T # {} /\ S \in SUBSET mm.faces /\ S # {}
      BY ShellsAre
    <2>2. /\ Weight(mm, T) \in Int /\ Weight(mm, T) > 0 /\ Moment(mm, T) \in Int
          /\ Weight(mm, S) \in Int /\ Moment(mm, S) \in Int
      BY <2>1, WeightIs
    <2>3. \A x, y \in Int : Distance(x, y) \in Int
      BY DEF Distance
    <2>4. Moment(mm, S) * Weight(mm, T) \in Int /\ Moment(mm, T) * Weight(mm, S) \in Int
      BY <2>2
    <2>5. QED
      BY <2>2, <2>3, <2>4
  <1>3. NearestShell(mm, S) =
            CHOOSE T \in others : \A U \in others : g(T) * w(U) <= g(U) * w(T)
    BY DEF NearestShell
  <1> HIDE DEF g, w
  <1>4. \A T, U \in others : <<T, U>> \in R <=> g(T) * w(U) <= g(U) * w(T)
    <2> HIDE DEF others
    <2>1. QED
      OBVIOUS
  <1>5. \A T, U \in others : <<T, U>> \in R \/ <<U, T>> \in R
    <2> SUFFICES ASSUME NEW T \in others, NEW U \in others
                 PROVE  <<T, U>> \in R \/ <<U, T>> \in R
      OBVIOUS
    <2>1. \A x, y \in Int : x <= y \/ y <= x
      OBVIOUS
    <2>2. g(T) * w(U) \in Int /\ g(U) * w(T) \in Int
      BY <1>2
    <2> HIDE DEF R
    <2>3. QED
      BY <1>4, <2>1, <2>2
  <1>6. \A T, U, V \in others : <<T, U>> \in R /\ <<U, V>> \in R => <<T, V>> \in R
    <2> SUFFICES ASSUME NEW T \in others, NEW U \in others, NEW V \in others,
                        <<T, U>> \in R, <<U, V>> \in R
                 PROVE  <<T, V>> \in R
      OBVIOUS
    <2>1. g(T) * w(U) <= g(U) * w(T) /\ g(U) * w(V) <= g(V) * w(U)
      BY <1>4
    <2>2. g(T) \in Int /\ g(U) \in Int /\ g(V) \in Int /\ w(T) \in Int /\ w(U) \in Int
          /\ w(V) \in Int /\ w(T) > 0 /\ w(U) > 0 /\ w(V) > 0
      BY <1>2
    <2>3. g(T) * w(V) <= g(V) * w(T)
      BY <2>1, <2>2, RatioTransitive
    <2> HIDE DEF R
    <2>4. QED
      BY <1>4, <2>3
  <1> HIDE DEF R, others
  <1>7. PICK T \in others : \A U \in others : <<T, U>> \in R
    BY <1>1, <1>5, <1>6, FirstOf
  <1>8. \A U \in others : g(T) * w(U) <= g(U) * w(T)
    BY <1>4, <1>7
  <1>9. NearestShell(mm, S) \in others
    BY <1>3, <1>8
  <1>10. QED
    BY <1>9 DEF others

\* The virtual edges join faces of the mesh.
LEMMA AugmentedIs ==
    ASSUME NEW mm, IsMesh(mm), NEW p \in AugmentedAdjacency(mm)
    PROVE  p \subseteq mm.faces
  <1>1. \A q \in RealAdjacency(mm) : q \subseteq mm.faces
    BY MeshIs
  <1>2. ASSUME NEW S \in Shells(mm) PROVE Representative(mm, S) \subseteq mm.faces
    <2> DEFINE sets == {{f} : f \in S}
    <2>1. S \subseteq mm.faces /\ S # {}
      BY ShellsAre
    <2>2. sets \in SUBSET SUBSET mm.faces /\ sets # {}
      BY <2>1
    <2>3. /\ \A A \in sets : A # {}
          /\ \A A, B \in sets : A = B \/ A \cap B = {}
      OBVIOUS
    <2>4. Representative(mm, S) = LargestOf(mm, sets)
      BY DEF Representative
    <2> HIDE DEF sets
    <2>5. LargestOf(mm, sets) \in sets
      BY <2>2, <2>3, LargestIs
    <2>6. QED
      BY <2>2, <2>4, <2>5
  <1>3. CASE p \in RealAdjacency(mm)
    BY <1>1, <1>3
  <1>4. CASE p \notin RealAdjacency(mm)
    <2>1. ~ (Cardinality(Shells(mm)) <= 1)
      BY <1>4 DEF AugmentedAdjacency
    <2>2. PICK S \in Shells(mm) :
            p = Representative(mm, S) \cup Representative(mm, NearestShell(mm, S))
      BY <1>4, <2>1 DEF AugmentedAdjacency
    <2>3. Cardinality(Shells(mm)) \in Nat
      BY ShellsAre, FS_CardinalityType
    <2>4. Cardinality(Shells(mm)) > 1
      BY <2>1, <2>3
    <2>5. NearestShell(mm, S) \in Shells(mm)
      BY <2>4, NearestIs
    <2>6. QED
      BY <1>2, <2>2, <2>5
  <1>5. QED
    BY <1>3, <1>4

\* The band is made of faces and has both ends of every edge between two
\* labels.
LEMMA BandIs ==
    ASSUME NEW mm, IsMesh(mm), NEW l, NEW N \in Nat
    PROVE  /\ BoundaryBand(mm, l, N) \subseteq mm.faces
           /\ \A p \in RealAdjacency(mm) :
                 (\E f, g \in p : l[f] # l[g]) => p \subseteq BoundaryBand(mm, l, N)
  <1> DEFINE adj == RealAdjacency(mm)
             seed == UNION {p \in adj : \E f, g \in p : l[f] # l[g]}
             L == SUBSET mm.faces
             Wider(W) == W \cup UNION {p \in adj : p \cap W # {}}
             step == [p \in (1..N) \X L |-> Wider(p[2])]
             F(r) == [n \in 0..N |-> IF n = 0 THEN seed
                                     ELSE r[n - 1] \cup UNION {p \in adj : p \cap r[n - 1] # {}}]
             wide == CHOOSE r : r = F(r)
  <1>1. \A p \in adj : p \subseteq mm.faces
    BY MeshIs
  <1>2. seed \in L /\ \A W \in L : Wider(W) \in L /\ W \subseteq Wider(W)
    BY <1>1
  <1>3. BoundaryBand(mm, l, N) = wide[N]
    BY DEF BoundaryBand
  <1>4. \A p \in adj : (\E f, g \in p : l[f] # l[g]) => p \subseteq seed
    OBVIOUS
  <1>5. step \in [(1..N) \X L -> L]
    BY <1>2
  <1>6. \A n \in 1..N, W \in L : step[<<n, W>>] = Wider(W)
    OBVIOUS
  <1>7. \A r : F(r) = [n \in 0..N |-> IF n = 0 THEN seed ELSE Wider(r[n - 1])]
    OBVIOUS
  <1> HIDE DEF step, seed, L, Wider
  <1>8. PICK f : Rounds(f, N, L, seed, step)
    BY <1>2, <1>5, RoundsExist
  <1>9. f = F(f)
    <2>1. \A n \in 0..N : n # 0 => n \in 1..N /\ f[n - 1] \in L
      BY <1>8 DEF Rounds
    <2>2. \A n \in 0..N : f[n] = IF n = 0 THEN seed ELSE Wider(f[n - 1])
      BY <1>6, <1>8, <2>1 DEF Rounds
    <2>3. f = [n \in 0..N |-> f[n]]
      BY <1>8 DEF Rounds
    <2> HIDE DEF F
    <2>4. QED
      BY <1>7, <2>2, <2>3
  <1> HIDE DEF F
  <1>10. wide = F(wide)
    BY <1>9
  <1> HIDE DEF wide
  <1>11. wide[0] = seed /\ \A n \in 1..N : wide[n] = Wider(wide[n - 1])
    BY <1>7, <1>10
  <1>12. \A n \in 0..N : wide[n] \in L /\ seed \subseteq wide[n]
    <2> DEFINE P == {n \in 0..N : wide[n] \in L /\ seed \subseteq wide[n]}
    <2>1. 0 \in P
      BY <1>2, <1>11
    <2>2. ASSUME NEW n \in 1..N, n - 1 \in P PROVE n \in P
      <3>1. n \in 0..N /\ wide[n] = Wider(wide[n - 1])
        BY <1>11
      <3>2. wide[n - 1] \in L /\ seed \subseteq wide[n - 1]
        BY <2>2
      <3>3. Wider(wide[n - 1]) \in L /\ wide[n - 1] \subseteq Wider(wide[n - 1])
        BY <1>2, <3>2
      <3>4. QED
        BY <3>1, <3>2, <3>3
    <2> HIDE DEF P
    <2>3. \A n \in 0..N : n \in P
      BY <2>1, <2>2, RangeInduction
    <2>4. QED
      BY <2>3 DEF P
  <1>13. N \in 0..N
    OBVIOUS
  <1>14. QED
    BY <1>3, <1>4, <1>12, <1>13 DEF L

-----------------------------------------------------------------------------
(* Regions, and what is dropped and merged.                                 *)

\* The regions divide the faces; each has one label and lies in one shell.
LEMMA RegionsAre ==
    ASSUME NEW mm, IsMesh(mm), NEW l
    PROVE  /\ Regions(mm, l) \in SUBSET SUBSET mm.faces /\ IsFiniteSet(Regions(mm, l))
           /\ \A r \in Regions(mm, l) : r # {}
           /\ \A f \in mm.faces : \E r \in Regions(mm, l) : f \in r
           /\ \A r, s \in Regions(mm, l) : r = s \/ r \cap s = {}
           /\ \A r \in Regions(mm, l) : \A f, g \in r : l[f] = l[g]
           /\ \A r \in Regions(mm, l), S \in Shells(mm) : r \cap S # {} => r \subseteq S
  <1> DEFINE same == {p \in RealAdjacency(mm) : \A f, g \in p : l[f] = l[g]}
             X == mm.faces
  <1>1. /\ \A C \in Components(X, same) : C \subseteq X /\ C # {}
        /\ \A f \in X : \E C \in Components(X, same) : f \in C
        /\ \A C, D \in Components(X, same) : C = D \/ C \cap D = {}
        /\ \A C \in Components(X, same), D \in Closed(X, same) :
              C \cap D # {} => C \subseteq D
    <2> HIDE DEF same, X
    <2>1. QED
      BY ComponentsAre
  <1>2. Regions(mm, l) = Components(X, same)
    BY DEF Regions
  <1>3. \A p \in same : p \in RealAdjacency(mm) /\ \A f, g \in p : l[f] = l[g]
    OBVIOUS
  <1> HIDE DEF same
  <1>4. ASSUME NEW r \in Components(X, same), NEW f \in r, NEW g \in r PROVE l[f] = l[g]
    <2> DEFINE D == {h \in X : l[h] = l[f]}
    <2>1. \A p \in same : p \subseteq X => p \cap D = {} \/ p \subseteq D
      BY <1>3
    <2>2. D \in Closed(X, same)
      BY <2>1 DEF Closed
    <2>3. f \in D
      BY <1>1
    <2>4. r \cap D # {}
      BY <2>3
    <2> HIDE DEF D
    <2>5. r \subseteq D
      BY <1>1, <2>2, <2>4
    <2>6. QED
      BY <2>5 DEF D
  <1>5. ASSUME NEW r \in Components(X, same), NEW S \in Shells(mm), r \cap S # {}
        PROVE  r \subseteq S
    <2>1. S \subseteq X /\ \A p \in same : p \cap S # {} => p \subseteq S
      BY <1>3, ShellsAre
    <2>2. S \in Closed(X, same)
      BY <2>1 DEF Closed
    <2>3. QED
      BY <1>1, <1>5, <2>2
  <1>6. Components(X, same) \in SUBSET SUBSET X
    BY <1>1
  <1>7. IsFiniteSet(SUBSET X)
    BY MeshIs, FS_SUBSET
  <1>8. IsFiniteSet(Components(X, same))
    BY <1>6, <1>7, FS_Subset
  <1>9. QED
    BY <1>1, <1>2, <1>4, <1>5, <1>6, <1>8

\* Dropping small regions leaves each shell a region: the largest when all of
\* them are small.
LEMMA DroppedLeave ==
    ASSUME IsMesh(mesh), NEW S \in Shells(mesh)
    PROVE  \E f \in S : f \notin UNION DroppedRegions
  <1> DEFINE R == Regions(mesh, labels)
             In(shell) == {r \in R : r \subseteq shell}
             rescued == {LargestOf(mesh, In(shell)) :
                            shell \in {s \in Shells(mesh) : In(s) \subseteq SmallRegions}}
  <1>1. DroppedRegions = SmallRegions \ rescued
    BY DEF DroppedRegions
  <1>2. /\ R \in SUBSET SUBSET mesh.faces
        /\ \A r \in R : r # {}
        /\ \A f \in mesh.faces : \E r \in R : f \in r
        /\ \A r, s \in R : r = s \/ r \cap s = {}
        /\ \A r \in R : r \cap S # {} => r \subseteq S
    BY RegionsAre
  <1>3. SmallRegions \subseteq R
    BY DEF SmallRegions
  <1> HIDE DEF R
  <1>4. In(S) # {} /\ In(S) \subseteq R
    <2>1. PICK f \in S : f \in mesh.faces
      BY ShellsAre
    <2>2. PICK r \in R : f \in r
      BY <1>2, <2>1
    <2>3. r \subseteq S
      BY <1>2, <2>1, <2>2
    <2>4. QED
      BY <2>2, <2>3
  <1>5. \E r \in In(S) : r \notin DroppedRegions
    <2>1. CASE In(S) \subseteq SmallRegions
      <3>1. LargestOf(mesh, In(S)) \in rescued
        BY <2>1
      <3>2. /\ In(S) \in SUBSET SUBSET mesh.faces
            /\ \A r \in In(S) : r # {}
            /\ \A r, s \in In(S) : r = s \/ r \cap s = {}
        BY <1>2
      <3> HIDE DEF In
      <3>3. LargestOf(mesh, In(S)) \in In(S)
        BY <1>4, <3>2, LargestIs
      <3> HIDE DEF rescued
      <3>4. QED
        BY <1>1, <3>1, <3>3
    <2>2. CASE ~ (In(S) \subseteq SmallRegions)
      BY <1>1, <2>2
    <2>3. QED
      BY <2>1, <2>2
  <1>6. PICK r \in In(S) : r \notin DroppedRegions
    BY <1>5
  <1>7. r \in R /\ r \subseteq S /\ r # {}
    BY <1>2, <1>6
  <1>8. PICK f \in r : TRUE
    BY <1>7
  <1>9. DroppedRegions \subseteq R
    BY <1>1, <1>3
  <1>10. f \notin UNION DroppedRegions
    <2> SUFFICES ASSUME NEW s \in DroppedRegions, f \in s PROVE FALSE
      OBVIOUS
    <2>1. s \in R /\ s # r /\ s \cap r # {}
      BY <1>6, <1>8, <1>9
    <2>2. QED
      BY <1>2, <1>7, <2>1
  <1>11. QED
    BY <1>7, <1>8, <1>10

\* What one merge does: every face keeps its label or takes that of a face;
\* and a small region merges into one of its shell that stays as it is.
LEMMA MergeIs ==
    ASSUME IsMesh(mesh), MergeAreaTailRegions
    PROVE  /\ labels' = [f \in mesh.faces |-> labels'[f]]
           /\ \A f \in mesh.faces : \E g \in mesh.faces : labels'[f] = labels[g]
           /\ \A S \in Shells(mesh) : \E f \in S : labels'[f] = labels[f]
  <1> DEFINE R == Regions(mesh, labels)
  <1>1. /\ R \in SUBSET SUBSET mesh.faces
        /\ \A r \in R : r # {}
        /\ \A f \in mesh.faces : \E r \in R : f \in r
        /\ \A r, s \in R : r = s \/ r \cap s = {}
        /\ \A r \in R, S \in Shells(mesh) : r \cap S # {} => r \subseteq S
    BY RegionsAre
  <1>2. PICK order \in AreaOrders :
            LET tail == TailRegions(order)
                small == {r \in tail :
                            /\ Area(mesh, r) * 100 < MaxPartArea * Area(mesh, mesh.faces)
                            /\ Targets(r, tail) # {}}
            IN  \E target \in {t \in [small -> R] : \A r \in small : t[r] \in Targets(r, tail)} :
                    labels' = [f \in mesh.faces |->
                        IF f \in UNION small
                        THEN labels[Min(target[CHOOSE r \in small : f \in r])]
                        ELSE labels[f]]
    BY DEF MergeAreaTailRegions
  <1> DEFINE tail == TailRegions(order)
             small == {r \in tail :
                            /\ Area(mesh, r) * 100 < MaxPartArea * Area(mesh, mesh.faces)
                            /\ Targets(r, tail) # {}}
  <1>3. PICK target \in {t \in [small -> R] : \A r \in small : t[r] \in Targets(r, tail)} :
            labels' = [f \in mesh.faces |->
                        IF f \in UNION small
                        THEN labels[Min(target[CHOOSE r \in small : f \in r])]
                        ELSE labels[f]]
    BY <1>2
  <1>4. tail \subseteq R
    <2>1. order \in SetToSeqs(R)
      BY DEF AreaOrders
    <2>2. order \in [1..Cardinality(R) -> R]
      BY <2>1 DEF SetToSeqs
    <2>3. QED
      BY <2>2 DEF TailRegions
  <1>5. small \subseteq tail /\ \A r \in small : Targets(r, tail) # {}
    OBVIOUS
  <1>6. target \in [small -> R]
    BY <1>3
  <1> HIDE DEF tail, small, R
  <1>7. ASSUME NEW f \in mesh.faces PROVE \E g \in mesh.faces : labels'[f] = labels[g]
    <2>1. CASE f \in UNION small
      <3> DEFINE r == CHOOSE r \in small : f \in r
      <3>1. r \in small
        BY <2>1
      <3>2. labels'[f] = labels[Min(target[r])]
        BY <1>3, <2>1
      <3> HIDE DEF r
      <3>3. target[r] \in R
        BY <1>6, <3>1
      <3>4. target[r] \in SUBSET mesh.faces /\ target[r] # {}
        BY <1>1, <3>3
      <3>5. target[r] \in SUBSET Int /\ IsFiniteSet(target[r])
        BY <3>4, MeshIs, AreaType
      <3>6. Min(target[r]) \in mesh.faces
        BY <3>4, <3>5, MinMaxOf
      <3>7. QED
        BY <3>2, <3>6
    <2>2. CASE f \notin UNION small
      BY <1>3, <2>2
    <2>3. QED
      BY <2>1, <2>2
  <1>8. ASSUME NEW S \in Shells(mesh) PROVE \E f \in S : labels'[f] = labels[f]
    <2>1. \A f \in S : f \in mesh.faces
      BY ShellsAre
    <2>2. PICK f \in S : TRUE
      BY ShellsAre
    <2>3. CASE f \notin UNION small
      BY <1>3, <2>1, <2>3
    <2>4. CASE f \in UNION small
      <3>1. PICK r \in small : f \in r
        BY <2>4
      <3>2. r \in R /\ r \subseteq S
        BY <1>1, <1>4, <1>5, <3>1
      <3>3. PICK t \in Targets(r, tail) : TRUE
        BY <1>5
      <3>4. /\ t \in R /\ t \notin tail
            /\ \E p \in RealAdjacency(mesh) : p \cap t # {} /\ p \cap r # {}
        BY DEF Targets, R
      <3>5. PICK p \in RealAdjacency(mesh) : p \cap t # {} /\ p \cap r # {}
        BY <3>4
      <3>6. p \subseteq S
        BY <3>2, <3>5, ShellsAre
      <3>7. t \subseteq S
        BY <1>1, <3>4, <3>5, <3>6
      <3>8. PICK g \in t : TRUE
        BY <1>1, <3>4
      <3>9. g \notin UNION small
        <4> SUFFICES ASSUME NEW s \in small, g \in s PROVE FALSE
          OBVIOUS
        <4>1. s \in R /\ s \cap t # {} /\ s # t
          BY <1>4, <1>5, <3>4, <3>8
        <4>2. QED
          BY <1>1, <3>4, <4>1
      <3>10. g \in S /\ g \in mesh.faces
        BY <2>1, <3>7
      <3>11. labels'[g] = labels[g]
        BY <1>3, <3>9, <3>10
      <3>12. QED
        BY <3>10, <3>11
    <2>5. QED
      BY <2>3, <2>4
  <1>9. labels' = [f \in mesh.faces |-> labels'[f]]
    BY <1>3
  <1>10. QED
    BY <1>7, <1>8, <1>9

-----------------------------------------------------------------------------
(* The inductive invariant.                                                 *)

\* The labels the sampled faces start with.
Start == Used(InitialLabels(cost))

\* The input is one of the cases.
Input == IsMesh(mesh) /\ cost \in [mesh.faces -> [Classes -> Nat]]

TypeInv ==
    /\ Input
    /\ labels \in Labelings(mesh, Start)
    /\ pc \in {"fill", "refill"} /\ Start # {} => SomeLabelled(mesh, labels)
    /\ pc \notin {"fill", "refill"} /\ Start # {} => AllLabelled(mesh, labels)
    /\ rings \in Candidates
    /\ sweep \in 0..MaxSweeps
    /\ todo \subseteq Start
    /\ band \in {{}, FreshBand}
    /\ pc \notin {"sweep", "expand", "done"} => sweep = 0 /\ band = {}
    /\ pc = "done" /\ sweep > 0 /\ sweep < MaxSweeps => ~ changed

\* A row has a cheapest class, the lowest of several.
LEMMA FirstBestIs ==
    ASSUME NEW row \in [Classes -> Nat]
    PROVE  FirstBest(row) \in Classes
  <1> DEFINE R == {p \in Classes \X Classes :
                      row[p[1]] < row[p[2]] \/ (row[p[1]] = row[p[2]] /\ p[1] <= p[2])}
  <1>1. \A c \in Classes : row[c] \in Int /\ c \in Int
    BY ClassesAssumption
  <1>2. \A c, d \in Classes : <<c, d>> \in R <=>
            row[c] < row[d] \/ (row[c] = row[d] /\ c <= d)
    OBVIOUS
  <1> HIDE DEF R
  <1>3. \A c, d \in Classes : <<c, d>> \in R \/ <<d, c>> \in R
    <2> SUFFICES ASSUME NEW c \in Classes, NEW d \in Classes
                 PROVE  <<c, d>> \in R \/ <<d, c>> \in R
      OBVIOUS
    <2>1. row[c] \in Int /\ row[d] \in Int /\ c \in Int /\ d \in Int
      BY <1>1
    <2>2. QED
      BY <1>2, <2>1
  <1>4. \A c, d, e \in Classes : <<c, d>> \in R /\ <<d, e>> \in R => <<c, e>> \in R
    <2> SUFFICES ASSUME NEW c \in Classes, NEW d \in Classes, NEW e \in Classes,
                        <<c, d>> \in R, <<d, e>> \in R
                 PROVE  <<c, e>> \in R
      OBVIOUS
    <2>1. /\ row[c] \in Int /\ row[d] \in Int /\ row[e] \in Int
          /\ c \in Int /\ d \in Int /\ e \in Int
      BY <1>1
    <2>2. QED
      BY <1>2, <2>1
  <1>5. PICK c \in Classes : \A d \in Classes : <<c, d>> \in R
    BY <1>3, <1>4, ClassesAssumption, FirstOf
  <1>6. ASSUME NEW d \in Classes \ {c}
        PROVE  row[c] < row[d] \/ (row[c] = row[d] /\ c < d)
    <2>1. /\ <<c, d>> \in R
          /\ row[c] \in Int /\ row[d] \in Int /\ c \in Int /\ d \in Int /\ c # d
      BY <1>1, <1>5
    <2>2. QED
      BY <1>2, <2>1
  <1>7. QED
    BY <1>6 DEF FirstBest

\* The labels the faces start with are classes.
LEMMA StartIs ==
    ASSUME Input
    PROVE  /\ Start \subseteq Classes /\ AreLabels(Start) /\ Unlabelled \notin Start
           /\ InitialLabels(cost) \in Labelings(mesh, Start)
           /\ Start # {} => SomeLabelled(mesh, InitialLabels(cost))
  <1> DEFINE l == InitialLabels(cost)
  <1>1. DOMAIN cost = mesh.faces /\ \A f \in mesh.faces : cost[f] \in [Classes -> Nat]
    BY DEF Input
  <1>2. l = [f \in mesh.faces |-> IF cost[f] = Uniform THEN Unlabelled ELSE FirstBest(cost[f])]
    BY <1>1 DEF InitialLabels
  <1>3. \A f \in mesh.faces : l[f] \in Classes \cup {Unlabelled}
    BY <1>1, <1>2, FirstBestIs
  <1>4. Start = {l[f] : f \in mesh.faces} \ {Unlabelled}
    BY <1>2 DEF Start, Used
  <1>5. l = [f \in mesh.faces |-> l[f]]
    BY <1>2
  <1> HIDE DEF l
  <1>6. Start \subseteq Classes
    BY <1>3, <1>4
  <1>7. AreLabels(Start)
    BY <1>6, ClassesAssumption, FS_Subset DEF AreLabels
  <1>8. l \in Labelings(mesh, Start)
    <2>1. \A f \in mesh.faces : l[f] \in Start \cup {Unlabelled}
      BY <1>4
    <2>2. QED
      BY <1>5, <2>1 DEF Labelings
  <1>9. Start # {} => SomeLabelled(mesh, l)
    BY <1>4 DEF SomeLabelled
  <1>10. QED
    BY <1>4, <1>6, <1>7, <1>8, <1>9 DEF l

\* What a labeling uses.
LEMMA UsedIs ==
    ASSUME NEW used, NEW l \in Labelings(mesh, used)
    PROVE  DOMAIN l = mesh.faces /\ Used(l) \subseteq used
  <1>1. DOMAIN l = mesh.faces /\ \A f \in mesh.faces : l[f] \in used \cup {Unlabelled}
    BY DEF Labelings
  <1>2. QED
    BY <1>1 DEF Used

\* Filling keeps what has a label, and leaves no face without one when some
\* face has one.
LEMMA FillFacesIs ==
    ASSUME IsMesh(mesh), NEW used, AreLabels(used), NEW l \in Labelings(mesh, used),
           NEW m \in FillFaces(l)
    PROVE  /\ m \in Labelings(mesh, used) /\ Keeps(mesh, l, m)
           /\ SomeLabelled(mesh, l) => AllLabelled(mesh, m)
  <1> DEFINE v == FillByVoting(AugmentedAdjacency(mesh), l, VoteIterations)
  <1>1. \A p \in AugmentedAdjacency(mesh) : p \subseteq mesh.faces
    BY AugmentedIs
  <1>2. VoteIterations \in Nat
    BY RoundsAssumption
  <1>3. v \in Labelings(mesh, used) /\ Keeps(mesh, l, v)
    BY <1>1, <1>2, FillByVotingIs
  <1>4. m \in NearestFills(mesh, v)
    BY DEF FillFaces
  <1> HIDE DEF v
  <1>5. /\ m \in Labelings(mesh, used) /\ Keeps(mesh, v, m)
        /\ SomeLabelled(mesh, v) => AllLabelled(mesh, m)
    BY <1>3, <1>4, NearestFillsIs
  <1>6. Keeps(mesh, l, m) /\ (SomeLabelled(mesh, l) => SomeLabelled(mesh, v))
    BY <1>3, <1>5 DEF Keeps, SomeLabelled
  <1>7. QED
    BY <1>5, <1>6

\* The stage that fills, in each of its three forms.
LEMMA FillIs ==
    ASSUME TypeInv, Fill
    PROVE  /\ labels' \in Labelings(mesh, Start) /\ Keeps(mesh, labels, labels')
           /\ Start # {} => AllLabelled(mesh, labels')
  <1>1. IsMesh(mesh) /\ labels \in Labelings(mesh, Start) /\ AreLabels(Start)
    BY StartIs DEF TypeInv, Input
  <1>2. Start # {} => SomeLabelled(mesh, labels)
    BY DEF TypeInv, Fill
  <1>3. CASE labels' \in FillFaces(labels)
    BY <1>1, <1>2, <1>3, FillFacesIs
  <1>4. CASE labels' \in NearestFills(mesh, labels)
    BY <1>1, <1>2, <1>4, NearestFillsIs
  <1>5. CASE labels' \in NearestFills(mesh, FillAlongEdges(mesh, labels, FillIterations))
    <2> DEFINE v == FillAlongEdges(mesh, labels, FillIterations)
    <2>1. FillIterations \in Nat
      BY RoundsAssumption
    <2>2. v \in Labelings(mesh, Start) /\ Keeps(mesh, labels, v)
      BY <1>1, <2>1, FillAlongEdgesIs
    <2> HIDE DEF v
    <2>3. labels' \in NearestFills(mesh, v)
      BY <1>5 DEF v
    <2>4. /\ labels' \in Labelings(mesh, Start) /\ Keeps(mesh, v, labels')
          /\ SomeLabelled(mesh, v) => AllLabelled(mesh, labels')
      BY <1>1, <2>2, <2>3, NearestFillsIs
    <2>5. Keeps(mesh, labels, labels')
          /\ (SomeLabelled(mesh, labels) => SomeLabelled(mesh, v))
      BY <2>2, <2>4 DEF Keeps, SomeLabelled
    <2>6. QED
      BY <1>2, <2>4, <2>5
  <1>6. QED
    BY <1>3, <1>4, <1>5 DEF Fill

-----------------------------------------------------------------------------
(* Every step keeps it.                                                     *)

\* The numbers of rings that may be chosen are natural numbers.
LEMMA CandidatesAre ==
    Candidates \subseteq Nat /\ IsFiniteSet(Candidates) /\ BandRings \in Candidates
  <1>1. BandRings \in Nat /\ BandFallbacks \subseteq Nat
    BY RoundsAssumption
  <1>2. Candidates \subseteq 0..BandRings
    <2>1. BandRings \in 0..BandRings
      BY <1>1
    <2>2. \A n \in BandFallbacks : 1 <= n /\ n < BandRings => n \in 0..BandRings
      BY <1>1
    <2>3. QED
      BY <2>1, <2>2 DEF Candidates
  <1>3. IsFiniteSet(0..BandRings)
    BY <1>1, FS_Interval
  <1>4. QED
    BY <1>1, <1>2, <1>3, FS_Subset DEF Candidates

\* The band is made of faces.
LEMMA FreshBandIs ==
    ASSUME TypeInv
    PROVE  /\ FreshBand \subseteq mesh.faces /\ Struct = FreshBand
           /\ \A p \in RealAdjacency(mesh) :
                 (\E f, g \in p : labels[f] # labels[g]) => p \subseteq FreshBand
  <1>1. IsMesh(mesh) /\ rings \in Nat /\ band \in {{}, FreshBand}
    BY CandidatesAre DEF TypeInv, Input
  <1>2. QED
    BY <1>1, BandIs DEF FreshBand, Struct

\* Initially there is a label when there is one to start with.
LEMMA TypeInvInit == Init => TypeInv
  <1> SUFFICES ASSUME Init PROVE TypeInv
    OBVIOUS
  <1>1. Input
    BY CasesAssumption DEF Init, Input
  <1>2. labels = InitialLabels(cost) /\ pc = "fill" /\ rings = BandRings /\ sweep = 0
        /\ todo = {} /\ band = {}
    BY DEF Init
  <1>3. sweep \in 0..MaxSweeps
    BY <1>2, RoundsAssumption
  <1>4. QED
    BY <1>1, <1>2, <1>3, StartIs, CandidatesAre DEF TypeInv

\* The stages before the cut touch the labels alone.
LEMMA TypeInvLabels ==
    ASSUME TypeInv, UNCHANGED <<input, cut>>, labels' \in Labelings(mesh, Start),
           pc \in {"fill", "drop", "refill", "merge"},
           pc' \in {"drop", "refill", "merge", "preflight"},
           pc' = "refill" /\ Start # {} => SomeLabelled(mesh, labels'),
           pc' # "refill" /\ Start # {} => AllLabelled(mesh, labels')
    PROVE  TypeInv'
  <1>1. /\ mesh' = mesh /\ cost' = cost /\ rings' = rings /\ sweep' = sweep
        /\ todo' = todo /\ band' = band /\ changed' = changed
    BY DEF input, cut
  <1>2. Start' = Start /\ Input'
    BY <1>1 DEF Start, Input, Used, TypeInv
  <1>3. Candidates' = Candidates
    BY DEF Candidates
  <1>4. sweep = 0 /\ band = {} /\ rings \in Candidates /\ sweep \in 0..MaxSweeps
        /\ todo \subseteq Start
    BY DEF TypeInv
  <1>5. Labelings(mesh, Start)' = Labelings(mesh, Start)
    BY <1>1, <1>2 DEF Labelings
  <1>6. QED
    BY <1>1, <1>2, <1>3, <1>4, <1>5 DEF TypeInv, SomeLabelled, AllLabelled

\* Dropping leaves every shell a face with its label.
LEMMA DropIs ==
    ASSUME TypeInv, DropSmallRegions
    PROVE  /\ labels' \in Labelings(mesh, Start)
           /\ \A S \in Shells(mesh) : \E f \in S : labels'[f] = labels[f]
           /\ UNION DroppedRegions = {} => labels' = labels
  <1> DEFINE D == UNION DroppedRegions
  <1>1. IsMesh(mesh) /\ labels \in [mesh.faces -> Start \cup {Unlabelled}]
    BY DEF TypeInv, Input, Labelings
  <1>2. labels' = [f \in mesh.faces |-> IF f \in D THEN Unlabelled ELSE labels[f]]
    BY <1>1 DEF DropSmallRegions, Switch
  <1>3. \A S \in Shells(mesh) : \E f \in S : f \notin D /\ f \in mesh.faces
    BY <1>1, DroppedLeave, ShellsAre
  <1> HIDE DEF D
  <1>4. labels' \in [mesh.faces -> Start \cup {Unlabelled}]
    BY <1>1, <1>2
  <1>5. D = {} => labels' = labels
    BY <1>1, <1>2
  <1>6. QED
    BY <1>2, <1>3, <1>4, <1>5 DEF Labelings, D

\* Every stage before the cut keeps the invariant.
LEMMA TypeInvStages ==
    ASSUME TypeInv, Fill \/ DropSmallRegions \/ Refill \/ MergeAreaTailRegions
    PROVE  TypeInv'
  <1>1. /\ IsMesh(mesh) /\ labels \in Labelings(mesh, Start) /\ AreLabels(Start)
        /\ Unlabelled \notin Start
    BY StartIs DEF TypeInv, Input
  <1>2. CASE Fill
    <2>1. UNCHANGED <<input, cut>> /\ pc = "fill" /\ pc' \in {"drop", "merge", "preflight"}
      BY <1>2 DEF Fill
    <2>2. labels' \in Labelings(mesh, Start) /\ (Start # {} => AllLabelled(mesh, labels'))
      BY <1>2, FillIs
    <2>3. QED
      BY <2>1, <2>2, TypeInvLabels
  <1>3. CASE Refill
    <2>1. UNCHANGED <<input, cut>> /\ pc = "refill" /\ pc' = "merge"
          /\ labels' \in FillFaces(labels)
      BY <1>3 DEF Refill
    <2>2. Start # {} => SomeLabelled(mesh, labels)
      BY <2>1 DEF TypeInv
    <2>3. labels' \in Labelings(mesh, Start) /\ (Start # {} => AllLabelled(mesh, labels'))
      BY <1>1, <2>1, <2>2, FillFacesIs
    <2>4. QED
      BY <2>1, <2>3, TypeInvLabels
  <1>4. CASE DropSmallRegions
    <2>1. UNCHANGED <<input, cut>> /\ pc = "drop"
          /\ pc' = IF UNION DroppedRegions = {} THEN "merge" ELSE "refill"
      BY <1>4 DEF DropSmallRegions
    <2>2. Start # {} => AllLabelled(mesh, labels)
      BY <2>1 DEF TypeInv
    <2>3. /\ labels' \in Labelings(mesh, Start)
          /\ \A S \in Shells(mesh) : \E f \in S : labels'[f] = labels[f]
          /\ UNION DroppedRegions = {} => labels' = labels
      BY <1>4, DropIs
    <2>4. Start # {} => SomeLabelled(mesh, labels')
      <3> SUFFICES ASSUME Start # {} PROVE SomeLabelled(mesh, labels')
        OBVIOUS
      <3>1. PICK f \in mesh.faces : TRUE
        <4>1. PICK c \in Start : TRUE
          OBVIOUS
        <4>2. InitialLabels(cost) \in Labelings(mesh, Start)
              /\ SomeLabelled(mesh, InitialLabels(cost))
          BY StartIs DEF TypeInv
        <4>3. QED
          BY <4>2 DEF SomeLabelled
      <3>2. PICK S \in Shells(mesh) : f \in S
        BY <1>1, ShellsAre
      <3>3. PICK g \in S : labels'[g] = labels[g]
        BY <2>3
      <3>4. g \in mesh.faces
        BY <1>1, ShellsAre
      <3>5. QED
        BY <2>2, <3>3, <3>4 DEF AllLabelled, SomeLabelled
    <2>5. pc' \in {"merge", "refill"}
          /\ (pc' # "refill" /\ Start # {} => AllLabelled(mesh, labels'))
      BY <2>1, <2>2, <2>3
    <2>6. QED
      BY <2>1, <2>3, <2>4, <2>5, TypeInvLabels
  <1>5. CASE MergeAreaTailRegions
    <2>1. UNCHANGED <<input, cut>> /\ pc = "merge" /\ pc' = "preflight"
      BY <1>5 DEF MergeAreaTailRegions
    <2>2. Start # {} => AllLabelled(mesh, labels)
      BY <2>1 DEF TypeInv
    <2>3. /\ labels' = [f \in mesh.faces |-> labels'[f]]
          /\ \A f \in mesh.faces : \E g \in mesh.faces : labels'[f] = labels[g]
      BY <1>1, <1>5, MergeIs
    <2>4. \A f \in mesh.faces : labels[f] \in Start \cup {Unlabelled}
      BY <1>1 DEF Labelings
    <2>5. \A f \in mesh.faces : labels'[f] \in Start \cup {Unlabelled}
      BY <2>3, <2>4
    <2>6. labels' \in Labelings(mesh, Start)
      BY <2>3, <2>5 DEF Labelings
    <2>7. Start # {} => AllLabelled(mesh, labels')
      BY <2>2, <2>3 DEF AllLabelled
    <2>8. QED
      BY <2>1, <2>6, <2>7, TypeInvLabels
  <1>6. QED
    BY <1>2, <1>3, <1>4, <1>5

\* An expansion switches faces to a label and leaves the others theirs.
LEMMA ExpansionIs ==
    ASSUME NEW new \in Expansions(mesh, cost, labels, Struct, Alpha)
    PROVE  \E S : new = Switch(labels, S, Alpha)
  BY DEF Expansions

\* And so do the steps of the cut.
LEMMA TypeInvCut ==
    ASSUME TypeInv, Preflight \/ SkipGraphCut \/ StartSweep \/ Expand \/ EndSweep \/ Stop
    PROVE  TypeInv'
  <1> USE DEF input, cut
  <1>1. /\ Input /\ labels \in Labelings(mesh, Start) /\ rings \in Candidates
        /\ sweep \in 0..MaxSweeps /\ todo \subseteq Start /\ band \in {{}, FreshBand}
    BY DEF TypeInv
  <1>2. mesh' = mesh /\ cost' = cost
    BY DEF Preflight, SkipGraphCut, StartSweep, Expand, EndSweep, Stop
  <1>3. Start' = Start /\ Input' /\ Candidates' = Candidates
    BY <1>1, <1>2 DEF Start, Input, Used, Candidates
  <1>4. Start # {} => AllLabelled(mesh, labels)
    BY DEF TypeInv, Preflight, SkipGraphCut, StartSweep, Expand, EndSweep, Stop
  <1>5. Labelings(mesh, Start)' = Labelings(mesh, Start)
    BY <1>2, <1>3 DEF Labelings
  <1>6. CASE Preflight
    <2>1. sweep = 0 /\ band = {} /\ pc' = "sweep"
          /\ UNCHANGED <<labels, sweep, todo, band, changed>>
      BY <1>6 DEF TypeInv, Preflight
    <2>2. rings' \in Candidates
      <3>1. CASE HighPolyMesh
        <4> DEFINE fits == {n \in Candidates : FitsBudget(n)}
        <4>1. rings' = Max(fits) /\ fits # {}
          BY <1>6, <3>1 DEF Preflight
        <4>2. fits \subseteq Candidates
          OBVIOUS
        <4> HIDE DEF fits
        <4>3. IsFiniteSet(fits) /\ fits \in SUBSET Int
          <5>1. IsFiniteSet(fits)
            BY <4>2, CandidatesAre, FS_Subset
          <5>2. Nat \in SUBSET Int
            OBVIOUS
          <5>3. fits \in SUBSET Int
            BY <4>2, <5>2, CandidatesAre
          <5>4. QED
            BY <5>1, <5>3
        <4>4. QED
          BY <4>1, <4>2, <4>3, MinMaxOf
      <3>2. CASE ~ HighPolyMesh
        BY <1>1, <1>6, <3>2 DEF Preflight
      <3>3. QED
        BY <3>1, <3>2
    <2>3. QED
      BY <1>1, <1>2, <1>3, <1>4, <1>5, <2>1, <2>2 DEF TypeInv, AllLabelled
  <1>7. CASE SkipGraphCut
    <2>1. sweep = 0 /\ pc' = "done" /\ UNCHANGED <<labels, rings, sweep, todo, band, changed>>
      BY <1>7 DEF TypeInv, SkipGraphCut
    <2>2. FreshBand' = FreshBand
      BY <1>2, <2>1 DEF FreshBand
    <2>3. QED
      BY <1>1, <1>2, <1>3, <1>4, <1>5, <2>1, <2>2 DEF TypeInv, AllLabelled
  <1>8. CASE StartSweep
    <2>1. /\ pc' = "expand" /\ UNCHANGED <<labels, rings>>
          /\ sweep < MaxSweeps /\ sweep' = sweep + 1 /\ todo' = Used(labels) /\ band' = {}
      BY <1>8 DEF StartSweep
    <2>2. todo' \subseteq Start
      BY <1>1, <2>1, UsedIs
    <2>3. sweep' \in 0..MaxSweeps
      BY <1>1, <2>1, RoundsAssumption
    <2>4. QED
      BY <1>1, <1>2, <1>3, <1>4, <1>5, <2>1, <2>2, <2>3 DEF TypeInv, AllLabelled
  <1>9. CASE Expand
    <2>1. PICK new \in Expansions(mesh, cost, labels, Struct, Alpha) :
            labels' = new /\ band' = KeptStruct(new) /\ changed' = ChangedTotal(new)
      BY <1>9 DEF Expand
    <2>2. /\ pc = "expand" /\ pc' = pc /\ rings' = rings /\ sweep' = sweep
          /\ todo # {} /\ todo' = todo \ {Alpha}
      BY <1>9 DEF Expand
    <2>3. Alpha \in Start /\ Start # {} /\ todo' \subseteq Start
      <3>1. todo \in SUBSET Int /\ IsFiniteSet(todo)
        <4>1. AreLabels(Start)
          BY <1>1, StartIs
        <4>2. IsFiniteSet(todo)
          BY <1>1, <4>1, FS_Subset DEF AreLabels
        <4>3. Nat \in SUBSET Int
          OBVIOUS
        <4>4. todo \in SUBSET Int
          BY <1>1, <4>1, <4>3 DEF AreLabels
        <4>5. QED
          BY <4>2, <4>4
      <3>2. Alpha \in todo
        BY <2>2, <3>1, MinMaxOf DEF Alpha
      <3>3. QED
        BY <1>1, <2>2, <3>2
    <2>4. labels \in [mesh.faces -> Start \cup {Unlabelled}]
          /\ \A f \in mesh.faces : labels[f] # Unlabelled
      BY <1>1, <1>4, <2>3 DEF Labelings, AllLabelled
    <2>5. PICK S : labels' = Switch(labels, S, Alpha)
      BY <2>1, ExpansionIs
    <2>6. labels' = [f \in mesh.faces |-> IF f \in S THEN Alpha ELSE labels[f]]
      BY <2>4, <2>5 DEF Switch
    <2>7. Unlabelled \notin Start
      BY <1>1, StartIs
    <2>8. labels' \in [mesh.faces -> Start \cup {Unlabelled}]
          /\ \A f \in mesh.faces : labels'[f] # Unlabelled
      BY <2>3, <2>4, <2>6, <2>7
    <2>9. band' \in {{}, FreshBand'}
      <3>1. CASE labels' = labels
        <4>1. FreshBand' = FreshBand
          BY <1>2, <2>2, <3>1 DEF FreshBand
        <4>2. band' = FreshBand
          BY <2>1, <3>1, FreshBandIs DEF KeptStruct
        <4>3. QED
          BY <4>1, <4>2
      <3>2. CASE labels' # labels
        BY <2>1, <3>2 DEF KeptStruct
      <3>3. QED
        BY <3>1, <3>2
    <2>10. labels' \in Labelings(mesh, Start) /\ AllLabelled(mesh, labels')
      BY <2>8 DEF Labelings, AllLabelled
    <2>11. QED
      BY <1>1, <1>2, <1>3, <1>5, <2>2, <2>3, <2>9, <2>10 DEF TypeInv, AllLabelled
  <1>10. CASE EndSweep
    <2>1. pc' = "sweep" /\ UNCHANGED <<labels, rings, sweep, todo, band, changed>>
      BY <1>10 DEF EndSweep
    <2>2. FreshBand' = FreshBand
      BY <1>2, <2>1 DEF FreshBand
    <2>3. QED
      BY <1>1, <1>2, <1>3, <1>4, <1>5, <2>1, <2>2 DEF TypeInv, AllLabelled
  <1>11. CASE Stop
    <2>1. /\ pc' = "done" /\ UNCHANGED <<labels, rings, sweep, todo, band, changed>>
          /\ sweep = MaxSweeps \/ ~ changed
      BY <1>11 DEF Stop, Converged
    <2>2. FreshBand' = FreshBand
      BY <1>2, <2>1 DEF FreshBand
    <2>3. sweep' < MaxSweeps => ~ changed'
      BY <1>1, <2>1, RoundsAssumption
    <2>4. QED
      BY <1>1, <1>2, <1>3, <1>4, <1>5, <2>1, <2>2, <2>3 DEF TypeInv, AllLabelled
  <1>12. QED
    BY <1>6, <1>7, <1>8, <1>9, <1>10, <1>11

\* The invariant is inductive.
LEMMA TypeInvStep == TypeInv /\ [Next]_vars => TypeInv'
  <1> SUFFICES ASSUME TypeInv, [Next]_vars PROVE TypeInv'
    OBVIOUS
  <1>1. CASE UNCHANGED vars
    <2>1. /\ mesh' = mesh /\ cost' = cost /\ labels' = labels /\ pc' = pc /\ rings' = rings
          /\ sweep' = sweep /\ todo' = todo /\ band' = band /\ changed' = changed
      BY <1>1 DEF vars
    <2>2. /\ Start' = Start /\ Candidates' = Candidates /\ FreshBand' = FreshBand
          /\ Input' = Input
      BY <2>1 DEF Start, Used, Candidates, FreshBand, Input
    <2>3. Labelings(mesh, Start)' = Labelings(mesh, Start)
      BY <2>1, <2>2 DEF Labelings
    <2>4. QED
      BY <2>1, <2>2, <2>3 DEF TypeInv, SomeLabelled, AllLabelled
  <1>2. CASE Next
    BY <1>1, <1>2, TypeInvStages, TypeInvCut DEF Next, Done
  <1>3. QED
    BY <1>1, <1>2

\* Only labels of sampled faces are used, and behind every stage that fills no
\* face is without a label unless no face was sampled: for every mesh, every
\* costs and all budgets.
THEOREM TypeCorrect == Spec => []TypeOK
  <1>1. TypeInv => TypeOK
    <2> SUFFICES ASSUME TypeInv PROVE TypeOK
      OBVIOUS
    <2>1. labels \in Labelings(mesh, Start) /\ Start \subseteq Classes
      BY StartIs DEF TypeInv
    <2>2. DOMAIN labels = mesh.faces /\ Used(labels) \subseteq Start
      BY <2>1, UsedIs
    <2>3. band \subseteq mesh.faces
      BY FreshBandIs DEF TypeInv
    <2>4. QED
      BY <2>1, <2>2, <2>3 DEF TypeOK, TypeInv, AllLabelled, Start
  <1>2. QED
    BY <1>1, TypeInvInit, TypeInvStep, PTL DEF Spec

\* No step of filling, dropping, refilling or merging takes a shell all the
\* labels it has at that step.
THEOREM ShellsKeepALabel == Spec => ShellKeepsALabel
  <1> DEFINE Kept == \A shell \in Shells(mesh) :
                        pc \in {"fill", "drop", "refill", "merge"} => KeepsALabel(shell)
  <1>1. TypeInv /\ [Next]_vars => [Kept]_vars
    <2> SUFFICES ASSUME TypeInv, Next, NEW shell \in Shells(mesh),
                        pc \in {"fill", "drop", "refill", "merge"},
                        NEW f \in shell, labels[f] # Unlabelled
                 PROVE  \E g \in shell : labels[g] # Unlabelled /\ labels'[g] = labels[g]
      <3>1. Kept <=> \A shell \in Shells(mesh) : pc \in {"fill", "drop", "refill", "merge"} =>
                \A f \in shell : labels[f] # Unlabelled =>
                    \E g \in shell : labels[g] # Unlabelled /\ labels'[g] = labels[g]
        BY DEF KeepsALabel
      <3> HIDE DEF Kept
      <3>2. QED
        BY <3>1
    <2>1. /\ IsMesh(mesh) /\ labels \in Labelings(mesh, Start) /\ AreLabels(Start)
          /\ \A g \in shell : g \in mesh.faces
      BY StartIs, ShellsAre DEF TypeInv, Input
    <2>2. pc \in {"drop", "merge"} => \A g \in mesh.faces : labels[g] # Unlabelled
      <3>1. labels[f] \in Start
        BY <2>1 DEF Labelings
      <3>2. QED
        BY <3>1 DEF TypeInv, AllLabelled
    <2>3. CASE Fill
      <3>1. Keeps(mesh, labels, labels')
        BY <2>3, FillIs
      <3>2. QED
        BY <2>1, <3>1 DEF Keeps
    <2>4. CASE Refill
      <3>1. labels' \in FillFaces(labels)
        BY <2>4 DEF Refill
      <3>2. Keeps(mesh, labels, labels')
        BY <2>1, <3>1, FillFacesIs
      <3>3. QED
        BY <2>1, <3>2 DEF Keeps
    <2>5. CASE DropSmallRegions
      <3>1. \E g \in shell : labels'[g] = labels[g]
        BY <2>5, DropIs
      <3>2. pc = "drop"
        BY <2>5 DEF DropSmallRegions
      <3>3. QED
        BY <2>1, <2>2, <3>1, <3>2
    <2>6. CASE MergeAreaTailRegions
      <3>1. \E g \in shell : labels'[g] = labels[g]
        BY <2>1, <2>6, MergeIs
      <3>2. pc = "merge"
        BY <2>6 DEF MergeAreaTailRegions
      <3>3. QED
        BY <2>1, <2>2, <3>1, <3>2
    <2>7. QED
      BY <2>3, <2>4, <2>5, <2>6
         DEF Next, Preflight, SkipGraphCut, StartSweep, Expand, EndSweep, Stop, Done
  <1>2. QED
    BY <1>1, TypeInvInit, TypeInvStep, PTL DEF Spec, ShellKeepsALabel

-----------------------------------------------------------------------------
(* The energy of the whole mesh and the cost of one component's cut.        *)

\* Every face has a class, and the band has both ends of every edge between
\* two labels.
CutReady(B) ==
    /\ Input /\ labels \in [mesh.faces -> Classes]
    /\ B \subseteq mesh.faces
    /\ \A p \in RealAdjacency(mesh) :
            (\E f, g \in p : labels[f] # labels[g]) => p \subseteq B

\* What a labelling costs on each face and on each edge.
OnFace(x) == [f \in mesh.faces |-> cost[f][x[f]]]

OnEdge(x) == [i \in EdgeIds(mesh) |->
                IF x[mesh.edges[i][1]] # x[mesh.edges[i][2]] THEN mesh.smooth[i] ELSE 0]

\* The edges that have an end in the component.
Touching(c) == {i \in EdgeIds(mesh) : Pair(mesh.edges[i]) \cap c # {}}

\* Faces that switch get the label.
LEMMA SwitchIs ==
    ASSUME NEW l \in [mesh.faces -> Classes], NEW X, NEW a \in Classes
    PROVE  /\ Switch(l, X, a) \in [mesh.faces -> Classes]
           /\ \A f \in mesh.faces : Switch(l, X, a)[f] = IF f \in X THEN a ELSE l[f]
  BY DEF Switch

\* The values are natural numbers.
LEMMA ValuesAre ==
    ASSUME Input, NEW x \in [mesh.faces -> Classes]
    PROVE  /\ \A f \in mesh.faces : OnFace(x)[f] \in Nat /\ OnFace(x)[f] = cost[f][x[f]]
           /\ \A i \in EdgeIds(mesh) :
                /\ OnEdge(x)[i] \in Nat
                /\ OnEdge(x)[i] = IF x[mesh.edges[i][1]] # x[mesh.edges[i][2]]
                                  THEN mesh.smooth[i] ELSE 0
  <1>1. \A f \in mesh.faces : cost[f] \in [Classes -> Nat] /\ x[f] \in Classes
    BY DEF Input
  <1>2. \A i \in EdgeIds(mesh) : mesh.smooth[i] \in Nat
    BY MeshIs DEF Input
  <1>3. \A f \in mesh.faces : cost[f][x[f]] \in Nat
    BY <1>1
  <1>4. QED
    BY <1>2, <1>3 DEF OnFace, OnEdge

\* The energy is the sum of both over the mesh.
LEMMA EnergyIs ==
    ASSUME Input, NEW x \in [mesh.faces -> Classes]
    PROVE  /\ Energy(x) = SumFunctionOnSet(OnFace(x), mesh.faces)
                          + SumFunctionOnSet(OnEdge(x), EdgeIds(mesh))
           /\ Energy(x) \in Int
  <1> DEFINE T == {i \in EdgeIds(mesh) : x[mesh.edges[i][1]] # x[mesh.edges[i][2]]}
  <1>1. IsFiniteSet(mesh.faces) /\ IsFiniteSet(EdgeIds(mesh))
        /\ \A i \in EdgeIds(mesh) : mesh.smooth[i] \in Nat
    BY MeshIs DEF Input
  <1>2. SumFunction([f \in mesh.faces |-> cost[f][x[f]]]) = SumFunctionOnSet(OnFace(x), mesh.faces)
    BY DEF SumFunction, OnFace
  <1>3. /\ \A i \in T : mesh.smooth[i] \in Int /\ OnEdge(x)[i] = mesh.smooth[i]
        /\ \A i \in EdgeIds(mesh) \ T : OnEdge(x)[i] = 0
        /\ T \in SUBSET EdgeIds(mesh)
    BY <1>1, ValuesAre
  <1>4. Energy(x) = SumFunctionOnSet(OnFace(x), mesh.faces) + SumFunctionOnSet(mesh.smooth, T)
    BY <1>2 DEF Energy, Smoothness
  <1> HIDE DEF T
  <1>5. SumFunctionOnSet(OnEdge(x), EdgeIds(mesh)) = SumFunctionOnSet(mesh.smooth, T)
    BY <1>1, <1>3, SumWhere
  <1>6. \A f \in mesh.faces : OnFace(x)[f] \in Int
    BY ValuesAre
  <1>7. \A i \in EdgeIds(mesh) : OnEdge(x)[i] \in Int
    BY ValuesAre
  <1>8. SumFunctionOnSet(OnFace(x), mesh.faces) \in Int
    BY <1>1, <1>6, SumType
  <1>9. SumFunctionOnSet(OnEdge(x), EdgeIds(mesh)) \in Int
    BY <1>1, <1>7, SumType
  <1>10. QED
    BY <1>4, <1>5, <1>8, <1>9

\* The number of members a set has among the ends of an edge.
LEMMA PairCount ==
    ASSUME NEW e1, NEW e2, e1 # e2, NEW A \in SUBSET {e1, e2}
    PROVE  /\ IsFiniteSet(A)
           /\ Cardinality(A) = (IF e1 \in A THEN 1 ELSE 0) + (IF e2 \in A THEN 1 ELSE 0)
  <1>1. CASE e1 \in A /\ e2 \in A
    <2>1. A = {e1} \cup {e2}
      BY <1>1
    <2>2. IsFiniteSet({e1}) /\ Cardinality({e1}) = 1 /\ e2 \notin {e1}
      BY FS_Singleton
    <2>3. IsFiniteSet({e1} \cup {e2}) /\ Cardinality({e1} \cup {e2}) = 1 + 1
      BY <2>2, FS_AddElement
    <2>4. QED
      BY <1>1, <2>1, <2>3
  <1>2. CASE e1 \in A /\ e2 \notin A
    <2>1. A = {e1}
      BY <1>2
    <2>2. QED
      BY <1>2, <2>1, FS_Singleton
  <1>3. CASE e1 \notin A /\ e2 \in A
    <2>1. A = {e2}
      BY <1>3
    <2>2. IsFiniteSet(A) /\ Cardinality(A) = 1
      BY <2>1, FS_Singleton
    <2>3. QED
      BY <1>3, <2>2
  <1>4. CASE e1 \notin A /\ e2 \notin A
    <2>1. A = {}
      BY <1>4
    <2>2. QED
      BY <1>4, <2>1, FS_EmptySet
  <1>5. QED
    BY <1>1, <1>2, <1>3, <1>4

\* The smaller of two numbers.
LEMMA MinOfTwo ==
    ASSUME NEW p \in Nat, NEW q \in Nat
    PROVE  Min({p, q}) = IF p <= q THEN p ELSE q
  <1>1. {p, q} \in SUBSET Int /\ IsFiniteSet({p, q}) /\ {p, q} # {}
    <2>1. IsFiniteSet({p}) /\ IsFiniteSet({p} \cup {q}) /\ {p, q} = {p} \cup {q}
      BY FS_Singleton, FS_AddElement
    <2>2. QED
      BY <2>1
  <1>2. Min({p, q}) \in {p, q} /\ \A x \in {p, q} : Min({p, q}) <= x
    BY <1>1, MinMaxOf
  <1>3. QED
    BY <1>2

\* With faces that have the label on its side, an edge inside the component
\* adds to the cut what it costs under the labelling the cut stands for: the
\* auxiliary node between two labels counts one smoothness, not two.
LEMMA EdgeCutIs ==
    ASSUME Input, labels \in [mesh.faces -> Classes], NEW a \in Classes,
           NEW i \in EdgeIds(mesh), NEW S, NEW X,
           \A f \in Pair(mesh.edges[i]) : labels[f] = a => f \in S,
           \A f \in Pair(mesh.edges[i]) : f \in S <=> f \in X
    PROVE  EdgeCut(mesh, labels, a, S, i) = OnEdge(Switch(labels, X, a))[i]
  <1> DEFINE e1 == mesh.edges[i][1]
             e2 == mesh.edges[i][2]
             ends == Pair(mesh.edges[i])
             others == {f \in ends : labels[f] # a}
             uniform == \A f, g \in ends : labels[f] = labels[g]
             k == Cardinality(others \cap S)
             m == Cardinality(others \ S)
             x == Switch(labels, X, a)
  <1>1. /\ e1 \in mesh.faces /\ e2 \in mesh.faces /\ e1 # e2 /\ ends = {e1, e2}
        /\ mesh.smooth[i] \in Nat
    BY MeshIs DEF Input
  <1>2. /\ OnEdge(x)[i] = IF x[e1] # x[e2] THEN mesh.smooth[i] ELSE 0
        /\ x[e1] = (IF e1 \in S THEN a ELSE labels[e1])
        /\ x[e2] = (IF e2 \in S THEN a ELSE labels[e2])
    <2>1. x \in [mesh.faces -> Classes]
          /\ \A f \in mesh.faces : x[f] = IF f \in X THEN a ELSE labels[f]
      BY SwitchIs
    <2> HIDE DEF x
    <2>2. QED
      BY <1>1, <2>1, ValuesAre
  <1>3. uniform <=> labels[e1] = labels[e2]
    BY <1>1
  <1>4. /\ e1 \in others <=> labels[e1] # a
        /\ e2 \in others <=> labels[e2] # a
        /\ others \cap S \in SUBSET {e1, e2} /\ others \ S \in SUBSET {e1, e2}
    BY <1>1
  <1>5. /\ k = (IF labels[e1] # a /\ e1 \in S THEN 1 ELSE 0)
               + (IF labels[e2] # a /\ e2 \in S THEN 1 ELSE 0)
        /\ m = (IF e1 \notin S THEN 1 ELSE 0) + (IF e2 \notin S THEN 1 ELSE 0)
    <2> DEFINE A == others \cap S   C == others \ S
    <2>1. /\ e1 \in A <=> labels[e1] # a /\ e1 \in S
          /\ e2 \in A <=> labels[e2] # a /\ e2 \in S
          /\ e1 \in C <=> e1 \notin S
          /\ e2 \in C <=> e2 \notin S
      BY <1>1, <1>4
    <2>2. k = Cardinality(A) /\ m = Cardinality(C)
          /\ A \in SUBSET {e1, e2} /\ C \in SUBSET {e1, e2} /\ e1 # e2
      BY <1>1, <1>4
    <2> HIDE DEF A, C, others, e1, e2, k, m
    <2>3. Cardinality(A) = (IF e1 \in A THEN 1 ELSE 0) + (IF e2 \in A THEN 1 ELSE 0)
      BY <2>2, PairCount
    <2>4. Cardinality(C) = (IF e1 \in C THEN 1 ELSE 0) + (IF e2 \in C THEN 1 ELSE 0)
      BY <2>2, PairCount
    <2>5. QED
      BY <2>1, <2>2, <2>3, <2>4
  <1>6. /\ labels[e1] = a => e1 \in S
        /\ labels[e2] = a => e2 \in S
    BY <1>1
  <1>7. EdgeCut(mesh, labels, a, S, i) =
            (IF uniform
             THEN IF others \cap S # {} /\ others \ S # {} THEN 1 ELSE 0
             ELSE Min({1 + k, m})) * mesh.smooth[i]
    BY DEF EdgeCut
  <1>8. CASE labels[e1] = labels[e2]
    <2>1. (others \cap S # {} /\ others \ S # {}) <=> x[e1] # x[e2]
      <3>1. others \cap S # {} <=> (labels[e1] # a /\ e1 \in S) \/ (labels[e2] # a /\ e2 \in S)
        BY <1>1
      <3>2. others \ S # {} <=> e1 \notin S \/ e2 \notin S
        BY <1>1, <1>6
      <3> HIDE DEF x, e1, e2, others
      <3>3. QED
        BY <1>2, <1>6, <1>8, <3>1, <3>2
    <2>2. EdgeCut(mesh, labels, a, S, i) = (IF x[e1] # x[e2] THEN 1 ELSE 0) * mesh.smooth[i]
      BY <1>3, <1>7, <1>8, <2>1
    <2>3. \A n \in Nat : 1 * n = n /\ 0 * n = 0
      OBVIOUS
    <2> HIDE DEF x, e1, e2
    <2>4. OnEdge(x)[i] = (IF x[e1] # x[e2] THEN 1 ELSE 0) * mesh.smooth[i]
      BY <1>1, <1>2, <2>3
    <2>5. QED
      BY <2>2, <2>4 DEF x
  <1>9. CASE labels[e1] # labels[e2]
    <2> HIDE DEF x, e1, e2, k, m, others
    <2>1. k \in Nat /\ m \in Nat /\ 1 + k \in Nat
      BY <1>5
    <2>2. Min({1 + k, m}) = IF 1 + k <= m THEN 1 + k ELSE m
      BY <2>1, MinOfTwo
    <2>3. Min({1 + k, m}) = IF x[e1] # x[e2] THEN 1 ELSE 0
      <3>1. x[e1] # x[e2] <=> e1 \notin S \/ e2 \notin S
        BY <1>2, <1>6, <1>9
      <3>2. CASE e1 \in S /\ e2 \in S
        BY <1>5, <2>1, <2>2, <3>1, <3>2
      <3>3. CASE e1 \notin S /\ e2 \notin S
        BY <1>5, <2>1, <2>2, <3>1, <3>3
      <3>4. CASE e1 \in S /\ e2 \notin S
        <4>1. m = 1 /\ x[e1] # x[e2]
          BY <1>5, <3>1, <3>4
        <4>2. QED
          BY <2>1, <2>2, <4>1
      <3>5. CASE e1 \notin S /\ e2 \in S
        <4>1. m = 1 /\ x[e1] # x[e2]
          BY <1>5, <3>1, <3>5
        <4>2. QED
          BY <2>1, <2>2, <4>1
      <3>6. QED
        BY <3>2, <3>3, <3>4, <3>5
    <2>4. EdgeCut(mesh, labels, a, S, i) = (IF x[e1] # x[e2] THEN 1 ELSE 0) * mesh.smooth[i]
      BY <1>3, <1>7, <1>9, <2>3
    <2>5. \A n \in Nat : 1 * n = n /\ 0 * n = 0
      OBVIOUS
    <2>6. OnEdge(x)[i] = (IF x[e1] # x[e2] THEN 1 ELSE 0) * mesh.smooth[i]
      BY <1>1, <1>2, <2>5
    <2>7. QED
      BY <2>4, <2>6 DEF x
  <1>10. QED
    BY <1>8, <1>9

\* An edge out of the band has one end outside, and equal labels at both.
LEMMA CrossingIs ==
    ASSUME NEW B, CutReady(B), NEW f \in B, NEW i \in Crossing(mesh, B, f),
           NEW X \in SUBSET B, NEW a \in Classes
    PROVE  /\ i \in EdgeIds(mesh)
           /\ Outside(mesh, B, i) \in mesh.faces \ B
           /\ Pair(mesh.edges[i]) = {f, Outside(mesh, B, i)}
           /\ labels[Outside(mesh, B, i)] = labels[f]
           /\ OnEdge(Switch(labels, X, a))[i] =
                IF Switch(labels, X, a)[f] # labels[f] THEN mesh.smooth[i] ELSE 0
  <1> DEFINE e1 == mesh.edges[i][1]
             e2 == mesh.edges[i][2]
             g == Outside(mesh, B, i)
             x == Switch(labels, X, a)
  <1>1. i \in EdgeIds(mesh) /\ f \in Pair(mesh.edges[i]) /\ ~ Pair(mesh.edges[i]) \subseteq B
    BY DEF Crossing
  <1>2. /\ e1 \in mesh.faces /\ e2 \in mesh.faces /\ e1 # e2
        /\ Pair(mesh.edges[i]) = {e1, e2} /\ Pair(mesh.edges[i]) \in RealAdjacency(mesh)
    BY <1>1, MeshIs DEF CutReady, Input
  <1>3. g \in Pair(mesh.edges[i]) /\ g \notin B
    BY <1>1 DEF Outside
  <1> HIDE DEF g
  <1>4. g # f /\ {e1, e2} = {f, g} /\ g \in mesh.faces
    BY <1>1, <1>2, <1>3
  <1>5. labels[g] = labels[f]
    BY <1>1, <1>2, <1>3 DEF CutReady
  <1>6. x \in [mesh.faces -> Classes]
        /\ \A h \in mesh.faces : x[h] = IF h \in X THEN a ELSE labels[h]
    BY SwitchIs DEF CutReady
  <1> HIDE DEF x
  <1>7. OnEdge(x)[i] = IF x[e1] # x[e2] THEN mesh.smooth[i] ELSE 0
    BY <1>1, <1>6, ValuesAre DEF CutReady
  <1>8. x[g] = labels[f]
    BY <1>3, <1>4, <1>5, <1>6
  <1>9. x[e1] # x[e2] <=> x[f] # labels[f]
    <2>1. (e1 = f /\ e2 = g) \/ (e1 = g /\ e2 = f)
      BY <1>2, <1>4
    <2>2. QED
      BY <1>8, <2>1
  <1>10. QED
    BY <1>1, <1>2, <1>3, <1>4, <1>5, <1>7, <1>9 DEF g, x

\* A face's capacity is what the face and its edges out of the band cost.
LEMMA CapacityIs ==
    ASSUME NEW B, CutReady(B), NEW f \in B, NEW X \in SUBSET B, NEW a \in Classes,
           labels[f] = a => f \in X
    PROVE  (IF f \in X THEN SourceCapacity(mesh, cost, labels, B, a, f)
                       ELSE SinkCapacity(mesh, cost, labels, B, a, f))
           = OnFace(Switch(labels, X, a))[f]
             + SumFunctionOnSet(OnEdge(Switch(labels, X, a)), Crossing(mesh, B, f))
  <1> DEFINE x == Switch(labels, X, a)
             E == Crossing(mesh, B, f)
             T == {i \in E : labels[Outside(mesh, B, i)] # a}
             U == {i \in E : labels[Outside(mesh, B, i)] = a}
  <1>1. f \in mesh.faces /\ Input
    BY DEF CutReady
  <1>2. IsFiniteSet(E) /\ \A i \in E : mesh.smooth[i] \in Nat
    <2>1. E \subseteq EdgeIds(mesh) /\ IsFiniteSet(EdgeIds(mesh))
          /\ \A i \in EdgeIds(mesh) : mesh.smooth[i] \in Nat
      BY <1>1, MeshIs DEF Crossing, Input
    <2>2. QED
      BY <2>1, FS_Subset
  <1>3. x[f] = IF f \in X THEN a ELSE labels[f]
    BY <1>1, SwitchIs DEF CutReady
  <1>4. OnFace(x)[f] = cost[f][x[f]]
    BY <1>1, SwitchIs, ValuesAre DEF CutReady
  <1>5. \A i \in E : /\ labels[Outside(mesh, B, i)] = labels[f]
                     /\ OnEdge(x)[i] = IF x[f] # labels[f] THEN mesh.smooth[i] ELSE 0
    BY CrossingIs
  <1>6. SourceCapacity(mesh, cost, labels, B, a, f) = cost[f][a] + SumFunctionOnSet(mesh.smooth, T)
    BY DEF SourceCapacity, Smoothness
  <1>7. SinkCapacity(mesh, cost, labels, B, a, f)
            = cost[f][labels[f]] + SumFunctionOnSet(mesh.smooth, U)
    BY DEF SinkCapacity, Smoothness
  <1> HIDE DEF x, E
  <1>8. CASE f \in X
    <2>1. /\ T \in SUBSET E
          /\ \A i \in T : mesh.smooth[i] \in Int /\ OnEdge(x)[i] = mesh.smooth[i]
          /\ \A i \in E \ T : OnEdge(x)[i] = 0
      BY <1>2, <1>3, <1>5, <1>8
    <2> HIDE DEF T
    <2>2. SumFunctionOnSet(OnEdge(x), E) = SumFunctionOnSet(mesh.smooth, T)
      BY <1>2, <2>1, SumWhere
    <2>3. QED
      BY <1>3, <1>4, <1>6, <1>8, <2>2 DEF x, E
  <1>9. CASE f \notin X
    <2>1. /\ U \in SUBSET E
          /\ \A i \in U : mesh.smooth[i] \in Int /\ OnEdge(x)[i] = mesh.smooth[i]
          /\ \A i \in E \ U : OnEdge(x)[i] = 0
      BY <1>2, <1>3, <1>5, <1>9
    <2> HIDE DEF U
    <2>2. SumFunctionOnSet(OnEdge(x), E) = SumFunctionOnSet(mesh.smooth, U)
      BY <1>2, <2>1, SumWhere
    <2>3. QED
      BY <1>3, <1>4, <1>7, <1>9, <2>2 DEF x, E
  <1>10. QED
    BY <1>8, <1>9

\* The edges at a component are those inside it and those out of the band.
LEMMA TouchingIs ==
    ASSUME NEW B, CutReady(B), NEW c \in Components(B, RealAdjacency(mesh))
    PROVE  /\ c \subseteq B /\ c \subseteq mesh.faces /\ IsFiniteSet(c)
           /\ Touching(c) = {i \in EdgeIds(mesh) : Pair(mesh.edges[i]) \subseteq c}
                            \cup UNION {Crossing(mesh, B, f) : f \in c}
           /\ \A f \in c : /\ Crossing(mesh, B, f) \in SUBSET EdgeIds(mesh)
                           /\ \A i \in Crossing(mesh, B, f) : ~ Pair(mesh.edges[i]) \subseteq c
           /\ \A f, g \in c : f # g => Crossing(mesh, B, f) \cap Crossing(mesh, B, g) = {}
  <1>1. c \subseteq B /\ \A p \in RealAdjacency(mesh) : p \subseteq B /\ p \cap c # {} => p \subseteq c
    BY ComponentsAre
  <1>2. c \subseteq mesh.faces /\ IsFiniteSet(c)
    <2>1. c \subseteq mesh.faces /\ IsFiniteSet(mesh.faces)
      BY <1>1, MeshIs DEF CutReady, Input
    <2>2. QED
      BY <2>1, FS_Subset
  <1>3. \A i \in EdgeIds(mesh) :
            /\ Pair(mesh.edges[i]) \in RealAdjacency(mesh)
            /\ Pair(mesh.edges[i]) = {mesh.edges[i][1], mesh.edges[i][2]}
    BY MeshIs DEF CutReady, Input
  <1>4. \A f, i : i \in Crossing(mesh, B, f) <=>
            i \in EdgeIds(mesh) /\ f \in Pair(mesh.edges[i]) /\ ~ Pair(mesh.edges[i]) \subseteq B
    BY DEF Crossing
  <1>5. ASSUME NEW i \in Touching(c), ~ Pair(mesh.edges[i]) \subseteq c
        PROVE  \E f \in c : i \in Crossing(mesh, B, f)
    <2>1. i \in EdgeIds(mesh) /\ Pair(mesh.edges[i]) \cap c # {}
      BY DEF Touching
    <2>2. ~ Pair(mesh.edges[i]) \subseteq B
      BY <1>1, <1>3, <1>5, <2>1
    <2>3. PICK f \in c : f \in Pair(mesh.edges[i])
      BY <2>1
    <2>4. QED
      BY <1>4, <2>1, <2>2, <2>3
  <1>6. ASSUME NEW f \in c, NEW i \in Crossing(mesh, B, f)
        PROVE  i \in Touching(c) /\ ~ Pair(mesh.edges[i]) \subseteq c
    BY <1>1, <1>4, <1>6 DEF Touching
  <1>7. ASSUME NEW i \in EdgeIds(mesh), Pair(mesh.edges[i]) \subseteq c PROVE i \in Touching(c)
    BY <1>3, <1>7 DEF Touching
  <1>8. ASSUME NEW f \in c, NEW g \in c, f # g, NEW i \in Crossing(mesh, B, f),
               i \in Crossing(mesh, B, g)
        PROVE  FALSE
    <2>1. /\ f \in Pair(mesh.edges[i]) /\ g \in Pair(mesh.edges[i])
          /\ i \in EdgeIds(mesh) /\ ~ Pair(mesh.edges[i]) \subseteq B
      BY <1>4, <1>8
    <2>2. Pair(mesh.edges[i]) = {f, g}
      BY <1>3, <1>8, <2>1
    <2>3. QED
      BY <1>1, <2>1, <2>2
  <1>9. Touching(c) = {i \in EdgeIds(mesh) : Pair(mesh.edges[i]) \subseteq c}
                            \cup UNION {Crossing(mesh, B, f) : f \in c}
    <2>1. Touching(c) \subseteq EdgeIds(mesh)
      BY DEF Touching
    <2>2. QED
      BY <1>5, <1>6, <1>7, <2>1
  <1>10. QED
    BY <1>1, <1>2, <1>4, <1>6, <1>8, <1>9

\* The cost of a component's cut is what its faces and the edges at them cost
\* in the whole mesh.
LEMMA CutCostIs ==
    ASSUME NEW B, CutReady(B), NEW c \in Components(B, RealAdjacency(mesh)),
           NEW X \in SUBSET B, NEW a \in Classes, \A f \in c : labels[f] = a => f \in X
    PROVE  CutCost(mesh, cost, labels, B, c, a, X \cap c)
           = SumFunctionOnSet(OnFace(Switch(labels, X, a)), c)
             + SumFunctionOnSet(OnEdge(Switch(labels, X, a)), Touching(c))
  <1> DEFINE E == EdgeIds(mesh)
             S == X \cap c
             x == Switch(labels, X, a)
             o == OnFace(x)
             w == OnEdge(x)
             inner == {i \in E : Pair(mesh.edges[i]) \subseteq c}
             A == [f \in c |-> Crossing(mesh, B, f)]
             out == UNION {A[f] : f \in c}
             cross == [f \in c |-> SumFunctionOnSet(w, A[f])]
             h == [f \in c |-> o[f] + cross[f]]
             atSink == [f \in S |-> SourceCapacity(mesh, cost, labels, B, a, f)]
             atSource == [f \in c \ S |-> SinkCapacity(mesh, cost, labels, B, a, f)]
             between == [i \in inner |-> EdgeCut(mesh, labels, a, S, i)]
  <1>1. CutCost(mesh, cost, labels, B, c, a, S) =
            SumFunctionOnSet(atSink, S) + SumFunctionOnSet(atSource, c \ S)
            + SumFunctionOnSet(between, inner)
    BY DEF CutCost, SumFunction
  <1>2. Input /\ labels \in [mesh.faces -> Classes] /\ IsFiniteSet(E)
    BY MeshIs DEF CutReady, Input
  <1>3. x \in [mesh.faces -> Classes]
    BY <1>2, SwitchIs
  <1>4. c \subseteq B /\ c \subseteq mesh.faces /\ IsFiniteSet(c)
    BY TouchingIs
  <1>5. /\ \A f \in mesh.faces : o[f] \in Int
        /\ \A i \in E : w[i] \in Int
    <2>1. /\ \A f \in mesh.faces : o[f] \in Nat
          /\ \A i \in E : w[i] \in Nat
      BY <1>2, <1>3, ValuesAre
    <2> HIDE DEF o, w, E
    <2>2. QED
      BY <2>1
  <1>6. \A f \in c : A[f] = Crossing(mesh, B, f) /\ A[f] \in SUBSET E
                     /\ \A i \in A[f] : i \notin inner
    BY TouchingIs
  <1>7. A \in [c -> SUBSET E] /\ \A f, g \in c : f # g => A[f] \cap A[g] = {}
    BY TouchingIs
  <1>8. Touching(c) = inner \cup out
    <2>1. Touching(c) = inner \cup UNION {Crossing(mesh, B, f) : f \in c}
      BY TouchingIs
    <2>2. UNION {Crossing(mesh, B, f) : f \in c} = out
      BY <1>6
    <2>3. QED
      BY <2>1, <2>2
  <1>9. \A f \in S : f \in c /\ f \in X
    OBVIOUS
  <1>10. ASSUME NEW f \in c
         PROVE  h[f] = IF f \in S THEN SourceCapacity(mesh, cost, labels, B, a, f)
                                  ELSE SinkCapacity(mesh, cost, labels, B, a, f)
    <2>1. f \in B /\ (labels[f] = a => f \in X) /\ (f \in S <=> f \in X)
      BY <1>4
    <2>2. (IF f \in X THEN SourceCapacity(mesh, cost, labels, B, a, f)
                      ELSE SinkCapacity(mesh, cost, labels, B, a, f))
          = OnFace(Switch(labels, X, a))[f]
            + SumFunctionOnSet(OnEdge(Switch(labels, X, a)), Crossing(mesh, B, f))
      BY <2>1, CapacityIs
    <2>3. h[f] = o[f] + SumFunctionOnSet(w, Crossing(mesh, B, f))
      BY <1>6
    <2>4. QED
      BY <2>1, <2>2, <2>3
  <1>11. \A i \in inner : between[i] = w[i]
    <2> SUFFICES ASSUME NEW i \in inner PROVE between[i] = w[i]
      OBVIOUS
    <2>1. /\ i \in EdgeIds(mesh)
          /\ \A f \in Pair(mesh.edges[i]) : labels[f] = a => f \in S
          /\ \A f \in Pair(mesh.edges[i]) : f \in S <=> f \in X
      OBVIOUS
    <2> HIDE DEF S
    <2>2. EdgeCut(mesh, labels, a, S, i) = OnEdge(Switch(labels, X, a))[i]
      BY <1>2, <2>1, EdgeCutIs
    <2>3. QED
      BY <2>2
  <1> HIDE DEF o, w, E, A
  <1>12. \A f \in c : /\ IsFiniteSet(A[f])
                      /\ cross[f] = SumFunctionOnSet(w, A[f]) /\ cross[f] \in Int
    <2>1. \A f \in c : IsFiniteSet(A[f]) /\ \A i \in A[f] : w[i] \in Int
      BY <1>2, <1>5, <1>6, FS_Subset
    <2>2. \A f \in c : cross[f] = SumFunctionOnSet(w, A[f])
      OBVIOUS
    <2> HIDE DEF cross
    <2>3. QED
      BY <2>1, <2>2, SumType
  <1>13. \A f \in c : o[f] \in Int /\ h[f] = o[f] + cross[f] /\ h[f] \in Int
    <2>1. \A f \in c : o[f] \in Int /\ h[f] = o[f] + cross[f]
      BY <1>4, <1>5
    <2> HIDE DEF h, cross
    <2>2. QED
      BY <1>12, <2>1
  <1>14. SumFunctionOnSet(atSink, S) = SumFunctionOnSet(h, S)
    <2>1. IsFiniteSet(S) /\ \A f \in S : h[f] \in Int /\ h[f] = atSink[f]
      <3>1. \A f \in S : atSink[f] = SourceCapacity(mesh, cost, labels, B, a, f)
        OBVIOUS
      <3>2. S \subseteq c
        OBVIOUS
      <3>3. IsFiniteSet(S)
        BY <1>4, <3>2, FS_Subset
      <3> HIDE DEF atSink, h, S
      <3>4. QED
        BY <1>10, <1>13, <3>1, <3>2, <3>3
    <2> HIDE DEF atSink, h, S
    <2>2. QED
      BY <2>1, SumEqual
  <1>15. SumFunctionOnSet(atSource, c \ S) = SumFunctionOnSet(h, c \ S)
    <2>1. IsFiniteSet(c \ S) /\ \A f \in c \ S : h[f] \in Int /\ h[f] = atSource[f]
      <3>1. \A f \in c \ S : atSource[f] = SinkCapacity(mesh, cost, labels, B, a, f)
        OBVIOUS
      <3>2. IsFiniteSet(c \ S)
        BY <1>4, FS_Subset
      <3> HIDE DEF atSource, h, S
      <3>3. QED
        BY <1>10, <1>13, <3>1, <3>2
    <2> HIDE DEF atSource, h, S
    <2>2. QED
      BY <2>1, SumEqual
  <1>16. SumFunctionOnSet(h, c) = SumFunctionOnSet(h, S) + SumFunctionOnSet(h, c \ S)
    <2>1. S \in SUBSET c
      OBVIOUS
    <2> HIDE DEF h, S
    <2>2. QED
      BY <1>4, <1>13, <2>1, SumSplit
  <1>17. SumFunctionOnSet(h, c) = SumFunctionOnSet(o, c) + SumFunctionOnSet(cross, c)
    <2> HIDE DEF h, cross
    <2>1. QED
      BY <1>4, <1>12, <1>13, SumPlus
  <1>18. SumFunctionOnSet(cross, c) = SumFunctionOnSet(w, out)
    <2>1. /\ \A i \in E : w[i] \in Int
          /\ \A f \in c : cross[f] = SumFunctionOnSet(w, A[f])
          /\ \A f, g \in c : f # g => A[f] \cap A[g] = {}
      BY <1>5, <1>7, <1>12
    <2> HIDE DEF cross
    <2>2. SumFunctionOnSet(cross, c) = SumFunctionOnSet(w, UNION {A[f] : f \in c})
      <3>1. IsFiniteSet(c) /\ IsFiniteSet(E) /\ A \in [c -> SUBSET E]
        BY <1>2, <1>4, <1>7
      <3>2. QED
        BY <2>1, <3>1, SumOfSums
    <2>3. QED
      BY <2>2
  <1>19. SumFunctionOnSet(between, inner) = SumFunctionOnSet(w, inner)
    <2>1. inner \subseteq E
      OBVIOUS
    <2>2. IsFiniteSet(inner)
      BY <1>2, <2>1, FS_Subset
    <2> HIDE DEF between, inner
    <2>3. QED
      BY <1>5, <1>11, <2>1, <2>2, SumEqual
  <1>20. /\ SumFunctionOnSet(w, Touching(c)) =
                SumFunctionOnSet(w, inner) + SumFunctionOnSet(w, out)
         /\ SumFunctionOnSet(w, inner) \in Int /\ SumFunctionOnSet(w, out) \in Int
    <2>1. inner \subseteq E /\ out \subseteq E /\ inner \cap out = {}
      BY <1>6
    <2> HIDE DEF inner, out
    <2>2. IsFiniteSet(inner) /\ IsFiniteSet(out)
      BY <1>2, <2>1, FS_Subset
    <2>3. /\ \A i \in inner : w[i] \in Int
          /\ \A i \in out : w[i] \in Int
          /\ \A i \in inner \cup out : w[i] \in Int
      BY <1>5, <2>1
    <2>4. SumFunctionOnSet(w, inner) \in Int /\ SumFunctionOnSet(w, out) \in Int
      BY <2>2, <2>3, SumType
    <2>5. SumFunctionOnSet(w, inner \cup out) =
                SumFunctionOnSet(w, inner) + SumFunctionOnSet(w, out)
      BY <2>1, <2>2, <2>3, SumUnion
    <2>6. QED
      BY <1>8, <2>4, <2>5 DEF inner, out
  <1>21. SumFunctionOnSet(o, c) \in Int
    BY <1>4, <1>13, SumType
  <1> HIDE DEF h, cross, inner, out, atSink, atSource, between, S
  <1>22. CutCost(mesh, cost, labels, B, c, a, S) =
            SumFunctionOnSet(h, c) + SumFunctionOnSet(w, inner)
    BY <1>1, <1>14, <1>15, <1>16, <1>19
  <1>23. SumFunctionOnSet(h, c) = SumFunctionOnSet(o, c) + SumFunctionOnSet(w, out)
    BY <1>17, <1>18
  <1>24. \A p, q, r \in Int : (p + q) + r = p + (r + q)
    OBVIOUS
  <1>25. CutCost(mesh, cost, labels, B, c, a, S) =
            SumFunctionOnSet(o, c) + SumFunctionOnSet(w, Touching(c))
    BY <1>20, <1>21, <1>22, <1>23, <1>24
  <1>26. QED
    BY <1>25 DEF S, o, w

\* The energy is that at a component and that elsewhere.
LEMMA EnergySplit ==
    ASSUME Input, NEW x \in [mesh.faces -> Classes], NEW c \in SUBSET mesh.faces
    PROVE  /\ Energy(x) = (SumFunctionOnSet(OnFace(x), c)
                           + SumFunctionOnSet(OnEdge(x), Touching(c)))
                        + (SumFunctionOnSet(OnFace(x), mesh.faces \ c)
                           + SumFunctionOnSet(OnEdge(x), EdgeIds(mesh) \ Touching(c)))
           /\ SumFunctionOnSet(OnFace(x), c)
                + SumFunctionOnSet(OnEdge(x), Touching(c)) \in Int
           /\ SumFunctionOnSet(OnFace(x), mesh.faces \ c)
                + SumFunctionOnSet(OnEdge(x), EdgeIds(mesh) \ Touching(c)) \in Int
  <1> DEFINE F == mesh.faces
             E == EdgeIds(mesh)
             T == Touching(c)
             o == OnFace(x)
             w == OnEdge(x)
             oc == SumFunctionOnSet(o, c)
             or == SumFunctionOnSet(o, F \ c)
             wc == SumFunctionOnSet(w, T)
             wr == SumFunctionOnSet(w, E \ T)
  <1>1. IsFiniteSet(F) /\ IsFiniteSet(E) /\ T \in SUBSET E /\ c \in SUBSET F
    BY MeshIs DEF Input, Touching
  <1>2. /\ \A f \in F : o[f] \in Int
        /\ \A i \in E : w[i] \in Int
    <2>1. /\ \A f \in F : o[f] \in Nat
          /\ \A i \in E : w[i] \in Nat
      BY ValuesAre
    <2> HIDE DEF o, w, E, F
    <2>2. QED
      BY <2>1
  <1>3. Energy(x) = SumFunctionOnSet(o, F) + SumFunctionOnSet(w, E)
    BY EnergyIs
  <1> HIDE DEF F, E, T, o, w
  <1>4. SumFunctionOnSet(o, F) = oc + or
    BY <1>1, <1>2, SumSplit
  <1>5. SumFunctionOnSet(w, E) = wc + wr
    BY <1>1, <1>2, SumSplit
  <1>6. IsFiniteSet(c) /\ IsFiniteSet(F \ c) /\ IsFiniteSet(T) /\ IsFiniteSet(E \ T)
    BY <1>1, FS_Subset
  <1>7. oc \in Int
    <2>1. \A f \in c : o[f] \in Int
      BY <1>1, <1>2
    <2>2. QED
      BY <1>6, <2>1, SumType
  <1>8. or \in Int
    BY <1>2, <1>6, SumType
  <1>9. wc \in Int
    <2>1. \A i \in T : w[i] \in Int
      BY <1>1, <1>2
    <2>2. QED
      BY <1>6, <2>1, SumType
  <1>10. wr \in Int
    BY <1>2, <1>6, SumType
  <1>11. \A p, q, r, s \in Int : (p + q) + (r + s) = (p + r) + (q + s)
    OBVIOUS
  <1> HIDE DEF oc, or, wc, wr
  <1>12. Energy(x) = (oc + wc) + (or + wr)
    BY <1>3, <1>4, <1>5, <1>7, <1>8, <1>9, <1>10, <1>11
  <1>13. oc + wc \in Int /\ or + wr \in Int
    BY <1>7, <1>8, <1>9, <1>10
  <1>14. QED
    BY <1>12, <1>13 DEF oc, or, wc, wr, F, E, T, o, w

\* Two choices that differ inside one component differ in energy as their
\* cuts of it do.
LEMMA ReplaceOne ==
    ASSUME NEW B, CutReady(B), NEW c \in Components(B, RealAdjacency(mesh)),
           NEW a \in Classes, NEW X \in SUBSET B, NEW Y \in SUBSET B, X \ c = Y \ c,
           \A f \in c : labels[f] = a => f \in X /\ f \in Y,
           CutCost(mesh, cost, labels, B, c, a, X \cap c)
                <= CutCost(mesh, cost, labels, B, c, a, Y \cap c)
    PROVE  Energy(Switch(labels, X, a)) <= Energy(Switch(labels, Y, a))
  <1> DEFINE x == Switch(labels, X, a)
             y == Switch(labels, Y, a)
             F == mesh.faces \ c
             E == EdgeIds(mesh) \ Touching(c)
             rest(z) == SumFunctionOnSet(OnFace(z), F) + SumFunctionOnSet(OnEdge(z), E)
             here(z) == SumFunctionOnSet(OnFace(z), c)
                        + SumFunctionOnSet(OnEdge(z), Touching(c))
  <1>1. Input /\ labels \in [mesh.faces -> Classes]
    BY DEF CutReady
  <1>2. /\ x \in [mesh.faces -> Classes]
        /\ y \in [mesh.faces -> Classes]
        /\ \A f \in mesh.faces : /\ x[f] = IF f \in X THEN a ELSE labels[f]
                                 /\ y[f] = IF f \in Y THEN a ELSE labels[f]
    BY <1>1, SwitchIs
  <1>3. c \in SUBSET mesh.faces
    BY TouchingIs
  <1> HIDE DEF x, y
  <1>4. /\ Energy(x) = here(x) + rest(x) /\ here(x) \in Int /\ rest(x) \in Int
        /\ Energy(y) = here(y) + rest(y) /\ here(y) \in Int /\ rest(y) \in Int
    BY <1>1, <1>2, <1>3, EnergySplit
  <1>5. CutCost(mesh, cost, labels, B, c, a, X \cap c) = here(x)
    BY CutCostIs DEF x
  <1>6. CutCost(mesh, cost, labels, B, c, a, Y \cap c) = here(y)
    BY CutCostIs DEF y
  <1>7. \A f \in mesh.faces \ c : x[f] = y[f]
    <2> SUFFICES ASSUME NEW f \in mesh.faces \ c PROVE x[f] = y[f]
      OBVIOUS
    <2>1. f \in X <=> f \in Y
      <3>1. f \in X <=> f \in X \ c
        OBVIOUS
      <3>2. f \in Y <=> f \in Y \ c
        OBVIOUS
      <3>3. QED
        BY <3>1, <3>2
    <2>2. QED
      BY <1>2, <2>1
  <1>8. /\ IsFiniteSet(F) /\ IsFiniteSet(E)
        /\ \A f \in F : OnFace(x)[f] \in Int /\ OnFace(x)[f] = OnFace(y)[f]
        /\ \A i \in E : OnEdge(x)[i] \in Int /\ OnEdge(x)[i] = OnEdge(y)[i]
    <2>1. IsFiniteSet(F) /\ IsFiniteSet(E)
      BY <1>1, MeshIs, FS_Subset DEF Input
    <2>2. ASSUME NEW f \in F PROVE OnFace(x)[f] \in Int /\ OnFace(x)[f] = OnFace(y)[f]
      <3>1. OnFace(x)[f] \in Nat /\ OnFace(x)[f] = cost[f][x[f]]
        BY <1>1, <1>2, ValuesAre
      <3>2. OnFace(y)[f] = cost[f][y[f]]
        BY <1>1, <1>2, ValuesAre
      <3>3. QED
        BY <1>7, <3>1, <3>2
    <2>3. ASSUME NEW i \in E PROVE OnEdge(x)[i] \in Int /\ OnEdge(x)[i] = OnEdge(y)[i]
      <3>1. /\ OnEdge(x)[i] \in Nat
            /\ OnEdge(x)[i] = IF x[mesh.edges[i][1]] # x[mesh.edges[i][2]]
                              THEN mesh.smooth[i] ELSE 0
        BY <1>1, <1>2, ValuesAre
      <3>2. OnEdge(y)[i] = IF y[mesh.edges[i][1]] # y[mesh.edges[i][2]]
                           THEN mesh.smooth[i] ELSE 0
        BY <1>1, <1>2, ValuesAre
      <3>3. mesh.edges[i][1] \in mesh.faces \ c /\ mesh.edges[i][2] \in mesh.faces \ c
        <4>1. i \in EdgeIds(mesh) /\ Pair(mesh.edges[i]) \cap c = {}
          BY DEF Touching
        <4>2. /\ mesh.edges[i][1] \in mesh.faces /\ mesh.edges[i][2] \in mesh.faces
              /\ Pair(mesh.edges[i]) = {mesh.edges[i][1], mesh.edges[i][2]}
          BY <1>1, <4>1, MeshIs DEF Input
        <4>3. QED
          BY <4>1, <4>2
      <3>4. x[mesh.edges[i][1]] = y[mesh.edges[i][1]] /\ x[mesh.edges[i][2]] = y[mesh.edges[i][2]]
        BY <1>7, <3>3
      <3>5. QED
        BY <3>1, <3>2, <3>4
    <2>4. QED
      BY <2>1, <2>2, <2>3
  <1>9. rest(x) = rest(y)
    <2> HIDE DEF F, E
    <2>1. SumFunctionOnSet(OnFace(x), F) = SumFunctionOnSet(OnFace(y), F)
      BY <1>8, SumEqual
    <2>2. SumFunctionOnSet(OnEdge(x), E) = SumFunctionOnSet(OnEdge(y), E)
      BY <1>8, SumEqual
    <2>3. QED
      BY <2>1, <2>2
  <1> HIDE DEF here, rest
  <1>10. here(x) <= here(y)
    BY <1>5, <1>6
  <1>11. QED
    BY <1>4, <1>9, <1>10 DEF x, y

\* One pass over the components is at least as good as any choice of faces in
\* the band: the components are replaced one after the other.
LEMMA ExpansionBest ==
    ASSUME NEW B, CutReady(B), NEW a \in Classes,
           NEW new \in Expansions(mesh, cost, labels, B, a), NEW T \in SUBSET B
    PROVE  Energy(new) <= Energy(Switch(labels, T, a))
  <1> DEFINE K == Components(B, RealAdjacency(mesh))
             tasks == {c \in K : \E f \in c : labels[f] # a}
             cuts == UNION {{<<c, S>> : S \in MinimumCuts(mesh, cost, labels, B, c, a)} :
                               c \in tasks}
             U == UNION tasks
             has == {f \in U : labels[f] = a}
             V == (T \cap U) \cup has
             E(X) == Energy(Switch(labels, X, a))
  <1>1. PICK S \in SUBSET U : /\ \A c \in tasks : <<c, S \cap c>> \in cuts
                              /\ new = Switch(labels, S, a)
    BY DEF Expansions
  <1>2. \A c \in tasks : S \cap c \in MinimumCuts(mesh, cost, labels, B, c, a)
    <2> SUFFICES ASSUME NEW c \in tasks
                 PROVE  S \cap c \in MinimumCuts(mesh, cost, labels, B, c, a)
      OBVIOUS
    <2>1. <<c, S \cap c>> \in cuts
      BY <1>1
    <2>2. PICK d \in tasks : \E R \in MinimumCuts(mesh, cost, labels, B, d, a) :
                                <<c, S \cap c>> = <<d, R>>
      BY <2>1
    <2>3. QED
      BY <2>2
  <1>3. /\ \A c \in K : c \subseteq B
        /\ \A f \in B : \E c \in K : f \in c
        /\ \A c, d \in K : c = d \/ c \cap d = {}
    BY ComponentsAre
  <1>4. \A c \in tasks : \A R \in MinimumCuts(mesh, cost, labels, B, c, a) :
            /\ \A f \in c : labels[f] = a => f \in R
            /\ \A Q \in SUBSET c : (\A f \in c : labels[f] = a => f \in Q) =>
                    CutCost(mesh, cost, labels, B, c, a, R)
                        <= CutCost(mesh, cost, labels, B, c, a, Q)
    <2> SUFFICES ASSUME NEW c \in tasks, NEW R \in MinimumCuts(mesh, cost, labels, B, c, a)
                 PROVE  /\ \A f \in c : labels[f] = a => f \in R
                        /\ \A Q \in SUBSET c : (\A f \in c : labels[f] = a => f \in Q) =>
                                CutCost(mesh, cost, labels, B, c, a, R)
                                    <= CutCost(mesh, cost, labels, B, c, a, Q)
      OBVIOUS
    <2> DEFINE own == {f \in c : labels[f] = a}
               sides == {own \cup Z : Z \in SUBSET (c \ own)}
               value == [Z \in sides |-> CutCost(mesh, cost, labels, B, c, a, Z)]
    <2>1. R \in sides /\ \A Q \in sides : value[R] <= value[Q]
      BY DEF MinimumCuts
    <2>2. \A Q \in sides : value[Q] = CutCost(mesh, cost, labels, B, c, a, Q)
      OBVIOUS
    <2>3. ASSUME NEW Q \in SUBSET c, \A f \in c : labels[f] = a => f \in Q
          PROVE  Q \in sides
      <3>1. Q = own \cup (Q \ own) /\ Q \ own \in SUBSET (c \ own)
        BY <2>3
      <3>2. QED
        BY <3>1
    <2>4. own \subseteq R
      BY <2>1
    <2> HIDE DEF sides, value
    <2>5. QED
      BY <2>1, <2>2, <2>3, <2>4
  <1>5. labels \in [mesh.faces -> Classes] /\ B \subseteq mesh.faces /\ Input
    BY DEF CutReady
  <1>6. tasks \subseteq K /\ IsFiniteSet(tasks)
    <2>1. K \subseteq SUBSET mesh.faces /\ IsFiniteSet(SUBSET mesh.faces)
      BY <1>3, <1>5, MeshIs, FS_SUBSET DEF Input
    <2>2. tasks \subseteq K
      OBVIOUS
    <2> HIDE DEF K, tasks
    <2>3. QED
      BY <2>1, <2>2, FS_Subset
  <1>7. ASSUME NEW f \in B, f \notin U PROVE labels[f] = a
    <2>1. PICK c \in K : f \in c
      BY <1>3
    <2>2. c \notin tasks
      BY <1>7, <2>1
    <2>3. QED
      BY <2>1, <2>2
  <1>8. has \subseteq U /\ U \subseteq B /\ \A f \in U : f \in has <=> labels[f] = a
    BY <1>3
  <1> HIDE DEF has, U, tasks, cuts, K
  <1>9. Switch(labels, T, a) = Switch(labels, V, a)
    <2>1. \A f \in mesh.faces : (IF f \in T THEN a ELSE labels[f])
                                    = (IF f \in V THEN a ELSE labels[f])
      <3> SUFFICES ASSUME NEW f \in mesh.faces
                   PROVE  (IF f \in T THEN a ELSE labels[f])
                            = (IF f \in V THEN a ELSE labels[f])
        OBVIOUS
      <3>1. CASE f \in U
        BY <1>8, <3>1
      <3>2. CASE f \notin U
        BY <1>7, <1>8, <3>2
      <3>3. QED
        BY <3>1, <3>2
    <2> HIDE DEF V
    <2>2. QED
      BY <1>5, <2>1 DEF Switch
  <1>10. V \subseteq U /\ \A f \in U : labels[f] = a => f \in V
    BY <1>8
  <1> HIDE DEF V
  <1> DEFINE Mix(D) == (S \cap UNION D) \cup (V \ UNION D)
             P == {D \in SUBSET tasks : E(Mix(D)) <= E(V)}
  <1>11. \A X : E(X) \in Int
    <2> SUFFICES ASSUME NEW X PROVE E(X) \in Int
      OBVIOUS
    <2>1. Switch(labels, X, a) \in [mesh.faces -> Classes]
      BY <1>5, SwitchIs
    <2>2. QED
      BY <1>5, <2>1, EnergyIs
  <1> HIDE DEF E
  <1>12. {} \in P
    <2>1. Mix({}) = V
      OBVIOUS
    <2> HIDE DEF Mix
    <2>2. QED
      BY <1>11, <2>1
  <1>13. ASSUME NEW D \in SUBSET tasks, NEW c \in tasks \ D, D \in P
         PROVE  D \cup {c} \in P
    <2> DEFINE X == Mix(D \cup {c})
               Y == Mix(D)
    <2>1. c \in K /\ c \subseteq U /\ c \cap UNION D = {}
      <3>1. c \in K /\ c \subseteq U
        BY <1>6 DEF U
      <3>2. \A d \in D : c \cap d = {}
        BY <1>3, <1>6
      <3>3. QED
        BY <3>1, <3>2
    <2>2. UNION (D \cup {c}) = c \cup UNION D
      OBVIOUS
    <2>3. X = (S \cap (c \cup UNION D)) \cup (V \ (c \cup UNION D))
      BY <2>2
    <2>4. X \ c = Y \ c /\ X \cap c = S \cap c /\ Y \cap c = V \cap c
      BY <2>1, <2>3
    <2>5. X \in SUBSET B /\ Y \in SUBSET B
      BY <1>1, <1>8, <1>10
    <2> HIDE DEF X, Y
    <2>6. S \cap c \in MinimumCuts(mesh, cost, labels, B, c, a)
      BY <1>2
    <2>7. \A f \in c : labels[f] = a => f \in S \cap c /\ f \in V \cap c
      BY <1>4, <1>10, <2>1, <2>6
    <2>8. CutCost(mesh, cost, labels, B, c, a, X \cap c)
            <= CutCost(mesh, cost, labels, B, c, a, Y \cap c)
      <3>1. V \cap c \in SUBSET c
        OBVIOUS
      <3>2. CutCost(mesh, cost, labels, B, c, a, S \cap c)
                <= CutCost(mesh, cost, labels, B, c, a, V \cap c)
        BY <1>4, <2>6, <2>7, <3>1
      <3>3. QED
        BY <2>4, <3>2
    <2>9. \A f \in c : labels[f] = a => f \in X /\ f \in Y
      BY <2>4, <2>7
    <2>10. c \in Components(B, RealAdjacency(mesh))
      BY <2>1 DEF K
    <2>11. E(X) <= E(Y)
      BY <2>4, <2>5, <2>8, <2>9, <2>10, ReplaceOne DEF E
    <2>12. E(Y) <= E(V)
      BY <1>13 DEF Y
    <2>13. E(X) <= E(V)
      BY <1>11, <2>11, <2>12
    <2>14. QED
      BY <2>13 DEF X
  <1>14. tasks \in P
    <2> HIDE DEF P
    <2>1. QED
      BY <1>6, <1>12, <1>13, GrowingSets
  <1>15. Mix(tasks) = S
    <2>1. UNION tasks = U
      BY DEF U
    <2>2. QED
      BY <1>1, <1>10, <2>1
  <1>16. E(S) <= E(V)
    BY <1>14, <1>15
  <1>17. QED
    BY <1>1, <1>9, <1>16 DEF E

-----------------------------------------------------------------------------
(* The cut finds minima.                                                    *)

\* No choice of faces in the band for label c is better than the labels.
Best(c) == \A S \in SUBSET FreshBand : Energy(labels) <= Energy(Switch(labels, S, c))

\* Behind a sweep without a change no label could still gain; and during it
\* none of those that had their turn.
Settled ==
    sweep > 0 /\ ~ changed =>
        /\ pc \in {"sweep", "done"} => \A c \in Used(labels) : Best(c)
        /\ pc = "expand" => \A c \in Used(labels) \ todo : Best(c)

\* While labels are expanded, the cut can rely on what it needs.
LEMMA ReadyIs ==
    ASSUME TypeInv, pc = "expand", todo # {}
    PROVE  /\ CutReady(FreshBand) /\ Struct = FreshBand
           /\ Alpha \in todo /\ Alpha \in Classes
  <1>1. /\ Input /\ labels \in Labelings(mesh, Start) /\ todo \subseteq Start
        /\ Start \subseteq Classes /\ AreLabels(Start)
    BY StartIs DEF TypeInv
  <1>2. Start # {}
    BY <1>1
  <1>3. AllLabelled(mesh, labels)
    BY <1>2 DEF TypeInv
  <1>4. labels \in [mesh.faces -> Classes]
    <2>1. labels \in [mesh.faces -> Start \cup {Unlabelled}]
          /\ \A f \in mesh.faces : labels[f] # Unlabelled
      BY <1>1, <1>3 DEF Labelings, AllLabelled
    <2>2. QED
      BY <1>1, <2>1
  <1>5. Alpha \in todo
    <2>1. IsFiniteSet(todo)
      BY <1>1, FS_Subset DEF AreLabels
    <2>2. Nat \in SUBSET Int
      OBVIOUS
    <2>3. todo \in SUBSET Int
      BY <1>1, <2>2 DEF AreLabels
    <2>4. QED
      BY <2>1, <2>3, MinMaxOf DEF Alpha
  <1>6. QED
    BY <1>1, <1>4, <1>5, FreshBandIs DEF CutReady

\* An expansion is the best there is in the band.
LEMMA ExpandIsBest ==
    ASSUME TypeInv, Expand
    PROVE  BestInBand(labels')
  <1>1. /\ CutReady(FreshBand) /\ Struct = FreshBand /\ Alpha \in Classes
        /\ labels' \in Expansions(mesh, cost, labels, Struct, Alpha)
    BY ReadyIs DEF Expand
  <1>2. \A S \in SUBSET FreshBand : Energy(labels') <= Energy(Switch(labels, S, Alpha))
    BY <1>1, ExpansionBest
  <1>3. QED
    BY <1>2 DEF BestInBand

\* For every mesh, all costs and every band: solving the components of the
\* band on their own, with fixed neighbours and auxiliary nodes, gives the
\* best labelling for the whole mesh that one label's expansion can reach.
THEOREM ExpansionsAreOptimal == Spec => ExpansionOptimal
  <1>1. TypeInv /\ [Next]_vars => [pc = "expand" /\ todo' # todo => BestInBand(labels')]_vars
    <2> SUFFICES ASSUME TypeInv, Next, pc = "expand", todo' # todo
                 PROVE  BestInBand(labels')
      OBVIOUS
    <2>1. Expand
      BY DEF Next, Fill, DropSmallRegions, Refill, MergeAreaTailRegions, Preflight,
             SkipGraphCut, StartSweep, EndSweep, Stop, Done, cut, vars
    <2>2. QED
      BY <2>1, ExpandIsBest
  <1>2. QED
    BY <1>1, TypeInvInit, TypeInvStep, PTL DEF Spec, ExpansionOptimal

\* Without a band every label that is used is at its best.
LEMMA NoBandIsBest ==
    ASSUME TypeInv, pc = "expand", FreshBand = {}, NEW c \in Used(labels)
    PROVE  Best(c)
  <1>1. Input /\ labels \in Labelings(mesh, Start) /\ Start \subseteq Classes
    BY StartIs DEF TypeInv
  <1>2. AllLabelled(mesh, labels)
    <2>1. Start # {}
      BY <1>1, UsedIs
    <2>2. QED
      BY <2>1 DEF TypeInv
  <1>3. labels \in [mesh.faces -> Classes]
    <2>1. labels \in [mesh.faces -> Start \cup {Unlabelled}]
          /\ \A f \in mesh.faces : labels[f] # Unlabelled
      BY <1>1, <1>2 DEF Labelings, AllLabelled
    <2>2. QED
      BY <1>1, <2>1
  <1>4. Switch(labels, {}, c) = labels
    BY <1>3 DEF Switch
  <1>5. Energy(labels) \in Int
    BY <1>1, <1>3, EnergyIs
  <1>6. \A S \in SUBSET FreshBand : S = {}
    OBVIOUS
  <1>7. Energy(labels) <= Energy(labels)
    BY <1>5
  <1>8. QED
    BY <1>4, <1>6, <1>7 DEF Best

\* Whether a label is at its best depends on what stays.
LEMMA BestStays ==
    ASSUME mesh' = mesh, cost' = cost, labels' = labels, rings' = rings, NEW c, Best(c)
    PROVE  Best(c)'
  <1>1. FreshBand' = FreshBand
    BY DEF FreshBand
  <1>2. Energy(labels)' = Energy(labels)
    BY DEF Energy
  <1>3. \A S : Energy(Switch(labels, S, c))' = Energy(Switch(labels, S, c))
    BY DEF Energy, Switch
  <1>4. QED
    BY <1>1, <1>2, <1>3 DEF Best

\* The invariant with convergence is inductive.
LEMMA SettledStep == TypeInv /\ Settled /\ [Next]_vars => Settled'
  <1> SUFFICES ASSUME TypeInv, Settled, [Next]_vars PROVE Settled'
    OBVIOUS
  <1> USE DEF input, cut
  <1>1. ASSUME UNCHANGED <<mesh, cost, labels, rings, sweep, changed>>,
               pc' \in {"sweep", "done"} => \A c \in Used(labels) : sweep > 0 /\ ~ changed => Best(c),
               pc' = "expand" => \A c \in Used(labels) \ todo' :
                                        sweep > 0 /\ ~ changed => Best(c)
        PROVE  Settled'
    <2>1. Used(labels') = Used(labels) /\ sweep' = sweep /\ changed' = changed
      BY <1>1
    <2>2. \A c : Best(c) => Best(c)'
      BY <1>1, BestStays
    <2>3. QED
      BY <1>1, <2>1, <2>2 DEF Settled
  <1>2. CASE UNCHANGED vars
    BY <1>1, <1>2 DEF vars, Settled
  <1>3. CASE Fill \/ DropSmallRegions \/ Refill \/ MergeAreaTailRegions \/ Preflight
             \/ SkipGraphCut
    <2>1. pc \notin {"sweep", "expand", "done"} /\ sweep' = sweep
      BY <1>3 DEF Fill, DropSmallRegions, Refill, MergeAreaTailRegions, Preflight, SkipGraphCut
    <2>2. sweep' = 0
      BY <2>1 DEF TypeInv
    <2>3. QED
      BY <2>2 DEF Settled
  <1>4. CASE StartSweep
    <2>1. pc' = "expand" /\ labels' = labels /\ todo' = Used(labels)
      BY <1>4 DEF StartSweep
    <2>2. Used(labels)' = Used(labels)
      BY <2>1 DEF Used
    <2>3. QED
      BY <2>1, <2>2 DEF Settled
  <1>5. CASE Expand
    <2>1. /\ pc = "expand" /\ pc' = pc /\ todo' = todo \ {Alpha}
          /\ UNCHANGED <<mesh, cost, rings, sweep>>
          /\ changed' = (changed \/ labels' # labels)
      BY <1>5 DEF Expand, ChangedTotal
    <2>2. CASE labels' # labels
      <3>1. changed' = TRUE
        BY <2>1, <2>2
      <3>2. QED
        BY <3>1 DEF Settled
    <2>3. CASE labels' = labels /\ changed
      <3>1. changed'
        BY <2>1, <2>3
      <3>2. QED
        BY <3>1 DEF Settled
    <2>4. CASE labels' = labels /\ ~ changed
      <3>1. BestInBand(labels)
        BY <1>5, <2>4, ExpandIsBest
      <3>2. Best(Alpha)
        BY <3>1 DEF BestInBand, Best
      <3>3. ~ changed'
        BY <2>1, <2>4
      <3>4. \A c \in Used(labels) \ todo' : sweep > 0 => Best(c)
        BY <2>1, <2>4, <3>2 DEF Settled
      <3>5. \A c : Best(c) => Best(c)'
        BY <2>1, <2>4, BestStays
      <3>6. Used(labels') = Used(labels) /\ sweep' = sweep /\ pc' = "expand"
        BY <2>1, <2>4
      <3>7. QED
        BY <3>4, <3>5, <3>6 DEF Settled
    <2>5. QED
      BY <2>2, <2>3, <2>4
  <1>6. CASE EndSweep
    <2>1. pc = "expand" /\ (todo = {} \/ Struct = {})
      BY <1>6 DEF EndSweep
    <2>2. UNCHANGED <<mesh, cost, labels, rings, sweep, changed>>
      BY <1>6 DEF EndSweep
    <2>3. ASSUME NEW c \in Used(labels), sweep > 0, ~ changed PROVE Best(c)
      <3>1. CASE todo = {}
        BY <2>1, <2>3, <3>1 DEF Settled
      <3>2. CASE Struct = {}
        <4>1. FreshBand = {}
          BY <3>2, FreshBandIs
        <4>2. QED
          BY <2>1, <4>1, NoBandIsBest
      <3>3. QED
        BY <2>1, <3>1, <3>2
    <2>4. pc' = "sweep"
      BY <1>6 DEF EndSweep
    <2>5. QED
      BY <1>1, <2>2, <2>3, <2>4
  <1>7. CASE Stop
    <2>1. /\ pc = "sweep" /\ pc' = "done"
          /\ UNCHANGED <<mesh, cost, labels, rings, sweep, changed>>
      BY <1>7 DEF Stop
    <2>2. QED
      BY <1>1, <2>1 DEF Settled
  <1>8. QED
    BY <1>2, <1>3, <1>4, <1>5, <1>6, <1>7 DEF Next, Done

\* When the sweeps stop before the limit, no label could still gain a face of
\* the band with profit, for every mesh and all costs.
THEOREM ConvergedIsAMinimum == Spec => []ConvergedIsMinimum
  <1>1. Init => Settled
    BY DEF Init, Settled
  <1>2. TypeInv /\ Settled => ConvergedIsMinimum
    <2> SUFFICES ASSUME TypeInv, Settled, pc = "done", sweep > 0, sweep < MaxSweeps,
                        NEW c \in Used(labels)
                 PROVE  Best(c)
      BY DEF ConvergedIsMinimum, Best
    <2>1. ~ changed
      BY DEF TypeInv
    <2>2. QED
      BY <2>1 DEF Settled
  <1>3. QED
    BY <1>1, <1>2, TypeInvInit, TypeInvStep, SettledStep, PTL DEF Spec
=============================================================================
