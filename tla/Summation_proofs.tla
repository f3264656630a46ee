----------------------------- MODULE Summation_proofs -----------------------------
(***************************************************************************)
(* The laws of SumOver: a sum over a finite set does not depend on the     *)
(* order its elements are taken in, so adding, removing or changing one    *)
(* element adds, removes or changes one number.                            *)
(*                                                                         *)
(* The induction theorems of the library take the property as an operator. *)
(* Here it is a set, and induction is the existence of a least element.    *)
(***************************************************************************)
EXTENDS Summation, FiniteSetTheorems, WellFoundedInduction, TLAPS

\* Induction over the natural numbers, the property given as the set of those that have it.
LEMMA NatSetInduction ==
    ASSUME NEW P, 0 \in P, \A n \in Nat : n \in P => n + 1 \in P
    PROVE  Nat \subseteq P
  <1> DEFINE Less == OpToRel(<, Nat)
             Rest == Nat \ P
  <1> SUFFICES ASSUME Rest # {} PROVE FALSE
    OBVIOUS
  <1>1. PICK n \in Rest : \A m \in Rest : <<m, n>> \notin Less
    <2>1. IsWellFoundedOn(Less, Nat)
      BY NatLessThanWellFounded
    <2>2. Rest \subseteq Nat
      OBVIOUS
    <2> HIDE DEF Rest, Less
    <2>3. QED
      BY <2>1, <2>2, WFMin
  <1>2. n - 1 \in Nat /\ n - 1 \in P
    <2>1. n # 0 /\ n \in Nat
      OBVIOUS
    <2>2. n - 1 \in Nat /\ n - 1 < n
      BY <2>1
    <2>3. <<n - 1, n>> \in Less
      BY <2>1, <2>2 DEF OpToRel
    <2>4. QED
      BY <1>1, <2>2, <2>3
  <1>3. QED
    BY <1>2

\* Induction over the subsets of a finite set, by their size.
LEMMA SizeInduction ==
    ASSUME NEW S, IsFiniteSet(S), NEW P, {} \in P,
           \A T \in SUBSET S : (\A x \in T : T \ {x} \in P) /\ T # {} => T \in P
    PROVE  SUBSET S \subseteq P
  <1> DEFINE N == {n \in Nat : \A T \in SUBSET S : Cardinality(T) = n => T \in P}
  <1>1. \A T \in SUBSET S : IsFiniteSet(T) /\ Cardinality(T) \in Nat /\ (Cardinality(T) = 0 <=> T = {})
    BY FS_Subset, FS_CardinalityType, FS_EmptySet
  <1>2. 0 \in N
    BY <1>1
  <1>3. ASSUME NEW n \in Nat, n \in N PROVE n + 1 \in N
    <2> SUFFICES ASSUME NEW T \in SUBSET S, Cardinality(T) = n + 1 PROVE T \in P
      OBVIOUS
    <2>1. ASSUME NEW x \in T PROVE T \ {x} \in P
      <3>1. Cardinality(T \ {x}) = n
        BY <1>1, FS_RemoveElement
      <3>2. QED
        BY <1>3, <3>1
    <2>2. T # {}
      BY <1>1
    <2>3. QED
      BY <2>1, <2>2
  <1>4. Nat \subseteq N
    <2> HIDE DEF N
    <2>1. QED
      BY <1>2, <1>3, NatSetInduction
  <1>5. QED
    BY <1>1, <1>4

\* Induction that adds one element after another.
LEMMA GrowInduction ==
    ASSUME NEW S, IsFiniteSet(S), NEW P, {} \in P,
           \A T \in SUBSET S : \A x \in S \ T : T \in P => T \cup {x} \in P
    PROVE  S \in P
  <1>1. ASSUME NEW T \in SUBSET S, \A x \in T : T \ {x} \in P, T # {} PROVE T \in P
    <2>1. PICK x \in T : TRUE
      BY <1>1
    <2>2. (T \ {x}) \cup {x} = T
      OBVIOUS
    <2>3. QED
      BY <1>1, <2>2
  <1>2. QED
    BY <1>1, SizeInduction

-----------------------------------------------------------------------------
(* The recursive function behind SumOver.                                  *)

Pick(s) == CHOOSE x \in s : TRUE
Adds(g, f, D) == g = [s \in D |-> IF s = {} THEN 0 ELSE f[Pick(s)] + g[s \ {Pick(s)}]]

LEMMA Picked == ASSUME NEW s, s # {} PROVE Pick(s) \in s
  BY DEF Pick

LEMMA Unfolded == ASSUME NEW f PROVE SumOver(f) = (CHOOSE g : Adds(g, f, SUBSET DOMAIN f))[DOMAIN f]
  BY DEF SumOver, MapThenSumSet, MapThenFoldSet, Adds, Pick

\* Level by level, a function that adds up the subsets of S exists.
LEMMA AddsExists ==
    ASSUME NEW S, IsFiniteSet(S), NEW f \in [S -> Int]
    PROVE  \E g \in [SUBSET S -> Int] : Adds(g, f, SUBSET S)
  <1> DEFINE Level(n) == {s \in SUBSET S : Cardinality(s) <= n}
             N == {n \in Nat : \E g \in [Level(n) -> Int] : Adds(g, f, Level(n))}
  <1>1. \A T \in SUBSET S : /\ IsFiniteSet(T) /\ Cardinality(T) \in Nat
                            /\ Cardinality(T) = 0 <=> T = {}
                            /\ \A x \in T : Cardinality(T \ {x}) = Cardinality(T) - 1
    BY FS_Subset, FS_CardinalityType, FS_EmptySet, FS_RemoveElement
  <1>2. 0 \in N
    <2>1. Level(0) = {{}}
      BY <1>1
    <2> DEFINE g == [s \in {{}} |-> 0]
    <2>2. g \in [{{}} -> Int] /\ Adds(g, f, {{}})
      BY DEF Adds
    <2>3. QED
      BY <2>1, <2>2
  <1>3. ASSUME NEW n \in Nat, n \in N PROVE n + 1 \in N
    <2>1. PICK g \in [Level(n) -> Int] : Adds(g, f, Level(n))
      BY <1>3
    <2> DEFINE h == [s \in Level(n + 1) |-> IF s = {} THEN 0 ELSE f[Pick(s)] + g[s \ {Pick(s)}]]
    <2>2. ASSUME NEW s \in Level(n + 1), s # {}
          PROVE  s \ {Pick(s)} \in Level(n) /\ Pick(s) \in S
      BY <1>1, <2>2, Picked
    <2>3. Level(n) \subseteq Level(n + 1)
      BY <1>1
    <2>4. ASSUME NEW s \in Level(n) PROVE h[s] = g[s]
      BY <2>1, <2>3 DEF Adds
    <2>5. h \in [Level(n + 1) -> Int]
      <3> HIDE DEF Level
      <3>1. QED
        BY <2>1, <2>2
    <2>6. Adds(h, f, Level(n + 1))
      <3> HIDE DEF Level
      <3>1. ASSUME NEW s \in Level(n + 1), s # {} PROVE g[s \ {Pick(s)}] = h[s \ {Pick(s)}]
        BY <2>2, <2>4, <3>1
      <3>2. h = [s \in Level(n + 1) |-> IF s = {} THEN 0 ELSE f[Pick(s)] + h[s \ {Pick(s)}]]
        <4>1. \A s \in Level(n + 1) : h[s] = IF s = {} THEN 0 ELSE f[Pick(s)] + h[s \ {Pick(s)}]
          BY <3>1
        <4> HIDE DEF h
        <4>2. h \in [Level(n + 1) -> Int]
          BY <2>5
        <4>3. QED
          BY <4>1, <4>2
      <3>3. QED
        BY <3>2 DEF Adds
    <2>7. \E k \in [Level(n + 1) -> Int] : Adds(k, f, Level(n + 1))
      <3> HIDE DEF h, Level
      <3>1. QED
        BY <2>5, <2>6
    <2>8. QED
      <3> HIDE DEF h, Level
      <3>1. n + 1 \in Nat
        OBVIOUS
      <3>2. QED
        BY <2>7, <3>1
  <1>4. Cardinality(S) \in N
    <2> HIDE DEF N
    <2>1. QED
      BY <1>1, <1>2, <1>3, NatSetInduction
  <1>5. Level(Cardinality(S)) = SUBSET S
    BY <1>1, FS_Subset
  <1>6. QED
    BY <1>4, <1>5

LEMMA AddsAlike ==
    ASSUME NEW S, IsFiniteSet(S), NEW f, NEW k, \A x \in S : f[x] = k[x],
           NEW g, NEW h, Adds(g, f, SUBSET S), Adds(h, k, SUBSET S)
    PROVE  \A T \in SUBSET S : g[T] = h[T]
  <1> DEFINE P == {T \in SUBSET S : g[T] = h[T]}
  <1>1. {} \in P
    BY DEF Adds
  <1>2. ASSUME NEW T \in SUBSET S, \A x \in T : T \ {x} \in P, T # {} PROVE T \in P
    <2>1. Pick(T) \in T /\ T \ {Pick(T)} \in P
      BY <1>2, Picked
    <2>2. g[T] = f[Pick(T)] + g[T \ {Pick(T)}] /\ h[T] = k[Pick(T)] + h[T \ {Pick(T)}]
      BY <1>2 DEF Adds
    <2>3. QED
      BY <2>1, <2>2
  <1>3. SUBSET S \subseteq P
    <2> HIDE DEF P
    <2>1. QED
      BY <1>1, <1>2, SizeInduction
  <1>4. QED
    BY <1>3

\* The element taken out first does not matter.
AnyOrder(g, f, S) == \A T \in SUBSET S : \A x \in T : g[T] = f[x] + g[T \ {x}]

LEMMA AddsAnyOrder ==
    ASSUME NEW S, IsFiniteSet(S), NEW f \in [S -> Int],
           NEW g \in [SUBSET S -> Int], Adds(g, f, SUBSET S)
    PROVE  AnyOrder(g, f, S)
  <1> DEFINE P == {T \in SUBSET S : \A x \in T : g[T] = f[x] + g[T \ {x}]}
  <1>1. {} \in P
    OBVIOUS
  <1>2. ASSUME NEW T \in SUBSET S, \A x \in T : T \ {x} \in P, T # {} PROVE T \in P
    <2> DEFINE y == Pick(T)
    <2>1. y \in T /\ g[T] = f[y] + g[T \ {y}]
      BY <1>2, Picked DEF Adds
    <2> HIDE DEF y
    <2>2. ASSUME NEW x \in T, x # y PROVE g[T] = f[x] + g[T \ {x}]
      <3>1. g[T \ {y}] = f[x] + g[(T \ {y}) \ {x}]
        BY <1>2, <2>1, <2>2
      <3>2. g[T \ {x}] = f[y] + g[(T \ {x}) \ {y}]
        BY <1>2, <2>1, <2>2
      <3>3. (T \ {y}) \ {x} = (T \ {x}) \ {y}
        OBVIOUS
      <3>4. f[x] \in Int /\ f[y] \in Int /\ g[(T \ {x}) \ {y}] \in Int
        BY <2>1
      <3> DEFINE c == g[(T \ {x}) \ {y}]
      <3>5. g[T] = f[y] + (f[x] + c)
        BY <2>1, <3>1, <3>3, Zenon
      <3>6. g[T \ {x}] = f[y] + c
        BY <3>2
      <3>7. f[y] + (f[x] + c) = f[x] + (f[y] + c)
        <4> HIDE DEF c
        <4>1. c \in Int
          BY <3>4 DEF c
        <4>2. QED
          BY <3>4, <4>1
      <3>8. QED
        BY <3>5, <3>6, <3>7, Zenon
    <2>3. QED
      BY <2>1, <2>2
  <1>3. SUBSET S \subseteq P
    <2> HIDE DEF P
    <2>1. QED
      BY <1>1, <1>2, SizeInduction
  <1>4. QED
    BY <1>3 DEF AnyOrder

-----------------------------------------------------------------------------
(* The laws.                                                               *)

\* The sum over a part, which the facts below are stated with.
Part(f, T) == SumOver([x \in T |-> f[x]])

\* What SumOver is, for every part of a finite set at once.
LEMMA SumOfParts ==
    ASSUME NEW S, IsFiniteSet(S), NEW f \in [S -> Int]
    PROVE  \E g \in [SUBSET S -> Int] :
               /\ Adds(g, f, SUBSET S)
               /\ \A T \in SUBSET S : Part(f, T) = g[T]
  <1>1. PICK g \in [SUBSET S -> Int] : Adds(g, f, SUBSET S)
    BY AddsExists
  <1>2. ASSUME NEW T \in SUBSET S PROVE Part(f, T) = g[T]
    <2> DEFINE k == [x \in T |-> f[x]]
               h == CHOOSE a : Adds(a, k, SUBSET T)
               r == [s \in SUBSET T |-> g[s]]
    <2>1. IsFiniteSet(T) /\ k \in [T -> Int] /\ DOMAIN k = T /\ \A x \in T : k[x] = f[x]
      BY FS_Subset
    <2>2. \E a : Adds(a, k, SUBSET T)
      <3> HIDE DEF k
      <3>1. QED
        BY <2>1, AddsExists
    <2>3. Adds(h, k, SUBSET T)
      <3> HIDE DEF k
      <3>1. QED
        BY <2>2
    <2>4. Adds(r, f, SUBSET T)
      <3>1. ASSUME NEW s \in SUBSET T
            PROVE  r[s] = IF s = {} THEN 0 ELSE f[Pick(s)] + r[s \ {Pick(s)}]
        BY <1>1, Picked DEF Adds
      <3>2. QED
        BY <3>1 DEF Adds
    <2>5. h[T] = r[T]
      <3> HIDE DEF h, k, r
      <3>1. QED
        BY <2>1, <2>3, <2>4, AddsAlike
    <2>6. SumOver(k) = h[T]
      <3>1. SumOver(k) = (CHOOSE a : Adds(a, k, SUBSET DOMAIN k))[DOMAIN k]
        BY Unfolded
      <3>2. QED
        BY <2>1, <3>1
    <2>7. QED
      BY <2>5, <2>6 DEF Part
  <1>3. QED
    BY <1>1, <1>2

LEMMA SumEmpty == ASSUME NEW f, DOMAIN f = {} PROVE SumOver(f) = 0
  <1> DEFINE k == [x \in {} |-> 0]
             g == CHOOSE a : Adds(a, f, SUBSET {})
  <1>1. k \in [{} -> Int] /\ IsFiniteSet({})
    BY FS_EmptySet
  <1>2. \E a : Adds(a, f, SUBSET {})
    <2>1. Adds([s \in SUBSET {} |-> 0], f, SUBSET {})
      BY DEF Adds
    <2>2. QED
      BY <2>1
  <1>3. Adds(g, f, SUBSET {})
    BY <1>2
  <1>4. g[{}] = 0
    <2> HIDE DEF g
    <2>1. QED
      BY <1>3 DEF Adds
  <1>5. QED
    BY <1>4, Unfolded

LEMMA PartsAdd ==
    ASSUME NEW S, IsFiniteSet(S), NEW f \in [S -> Int]
    PROVE  /\ \A T \in SUBSET S : Part(f, T) \in Int
           /\ \A T \in SUBSET S : \A x \in T : Part(f, T) = f[x] + Part(f, T \ {x})
           /\ Part(f, {}) = 0
  <1>1. PICK g \in [SUBSET S -> Int] : /\ Adds(g, f, SUBSET S)
                                       /\ \A T \in SUBSET S : Part(f, T) = g[T]
    BY SumOfParts
  <1>2. \A T \in SUBSET S : Part(f, T) = g[T]
    BY <1>1
  <1>3. \A T \in SUBSET S : \A x \in T : g[T] = f[x] + g[T \ {x}]
    <2>1. Adds(g, f, SUBSET S)
      BY <1>1
    <2>2. AnyOrder(g, f, S)
      BY <2>1, AddsAnyOrder
    <2>3. QED
      BY <2>2 DEF AnyOrder
  <1>4. g[{}] = 0
    BY <1>1 DEF Adds
  <1>5. QED
    BY <1>2, <1>3, <1>4

\* One element taken out of a part.
Takes(f, T, x) == Part(f, T) = f[x] + Part(f, T \ {x})

LEMMA PartTakes ==
    ASSUME NEW S, IsFiniteSet(S), NEW f \in [S -> Int], NEW T \in SUBSET S, NEW x \in T
    PROVE  Takes(f, T, x)
  BY PartsAdd DEF Takes

LEMMA PartWhole ==
    ASSUME NEW S, NEW f, f = [x \in S |-> f[x]]
    PROVE  Part(f, S) = SumOver(f)
  BY DEF Part

LEMMA SumType ==
    ASSUME NEW S, IsFiniteSet(S), NEW f \in [S -> Int]
    PROVE  SumOver(f) \in Int
  <1>1. f = [x \in S |-> f[x]]
    OBVIOUS
  <1>2. Part(f, S) = SumOver(f)
    BY <1>1, PartWhole
  <1>3. QED
    BY <1>2, PartsAdd

\* The same summands, the same sum.
LEMMA PartsAlike ==
    ASSUME NEW T, NEW f, NEW g, \A x \in T : f[x] = g[x]
    PROVE  Part(f, T) = Part(g, T)
  <1>1. [x \in T |-> f[x]] = [x \in T |-> g[x]]
    OBVIOUS
  <1>2. QED
    BY <1>1 DEF Part

\* One element put in.
LEMMA SumInsert ==
    ASSUME NEW S, IsFiniteSet(S), NEW x, x \notin S, NEW f \in [S -> Int], NEW g \in [S \cup {x} -> Int],
           \A y \in S : g[y] = f[y]
    PROVE  SumOver(g) = SumOver(f) + g[x]
  <1> DEFINE T == S \cup {x}
  <1>1. IsFiniteSet(T) /\ T \ {x} = S /\ x \in T
    BY FS_AddElement
  <1>2. f = [y \in S |-> f[y]] /\ g = [y \in T |-> g[y]] /\ g \in [T -> Int]
    OBVIOUS
  <1> HIDE DEF T
  <1>3. Part(f, S) = SumOver(f) /\ Part(g, T) = SumOver(g)
    BY <1>2, PartWhole
  <1>4. Part(g, T) = g[x] + Part(g, S)
    BY <1>1, <1>2, PartsAdd
  <1>5. Part(g, S) = Part(f, S)
    BY PartsAlike
  <1>6. Part(f, S) \in Int /\ g[x] \in Int
    BY <1>1, <1>2, PartsAdd
  <1>7. QED
    BY <1>3, <1>4, <1>5, <1>6

\* One element changed.
LEMMA SumUpdate ==
    ASSUME NEW S, IsFiniteSet(S), NEW f \in [S -> Int], NEW g \in [S -> Int], NEW x \in S,
           \A y \in S \ {x} : g[y] = f[y]
    PROVE  SumOver(g) = SumOver(f) - f[x] + g[x]
  <1>1. f = [y \in S |-> f[y]] /\ g = [y \in S |-> g[y]] /\ f[x] \in Int /\ g[x] \in Int
    OBVIOUS
  <1>2. Part(f, S) = SumOver(f) /\ Part(g, S) = SumOver(g)
    BY <1>1, PartWhole
  <1>3. Part(f, S) = f[x] + Part(f, S \ {x}) /\ Part(g, S) = g[x] + Part(g, S \ {x})
    BY PartsAdd
  <1>4. Part(g, S \ {x}) = Part(f, S \ {x})
    BY PartsAlike
  <1>5. Part(f, S \ {x}) \in Int
    BY PartsAdd
  <1>6. QED
    BY <1>1, <1>2, <1>3, <1>4, <1>5

\* The sum of sums.
LEMMA SumPlus ==
    ASSUME NEW S, IsFiniteSet(S), NEW f \in [S -> Int], NEW g \in [S -> Int], NEW h \in [S -> Int],
           \A x \in S : h[x] = f[x] + g[x]
    PROVE  SumOver(h) = SumOver(f) + SumOver(g)
  <1> DEFINE P == {T \in SUBSET S : Part(h, T) = Part(f, T) + Part(g, T)}
  <1>1. ASSUME NEW k \in [S -> Int]
        PROVE  /\ Part(k, {}) = 0 /\ Part(k, S) = SumOver(k)
               /\ \A T \in SUBSET S : Part(k, T) \in Int
               /\ \A T \in SUBSET S : \A x \in T : Part(k, T) = k[x] + Part(k, T \ {x})
    <2>1. k = [x \in S |-> k[x]]
      OBVIOUS
    <2>2. QED
      BY <2>1, PartsAdd, PartWhole
  <1>2. {} \in P
    BY <1>1
  <1>3. ASSUME NEW T \in SUBSET S, \A x \in T : T \ {x} \in P, T # {} PROVE T \in P
    <2>1. PICK x \in T : TRUE
      BY <1>3
    <2>2. Part(h, T \ {x}) = Part(f, T \ {x}) + Part(g, T \ {x})
      BY <1>3
    <2>3. T \ {x} \in SUBSET S /\ x \in S /\ h[x] = f[x] + g[x]
      OBVIOUS
    <2>4. /\ Part(h, T) = h[x] + Part(h, T \ {x})
          /\ Part(f, T) = f[x] + Part(f, T \ {x})
          /\ Part(g, T) = g[x] + Part(g, T \ {x})
      BY <1>1
    <2>5. Part(f, T \ {x}) \in Int /\ Part(g, T \ {x}) \in Int /\ f[x] \in Int /\ g[x] \in Int
      BY <1>1, <2>3
    <2>6. QED
      BY <2>2, <2>3, <2>4, <2>5
  <1>4. SUBSET S \subseteq P
    <2> HIDE DEF P
    <2>1. QED
      BY <1>2, <1>3, SizeInduction
  <1>5. QED
    BY <1>1, <1>4

\* h is made of f and g, a and b times each; and so is its sum.
Mixes(S, h, f, g, a, b) == \A x \in S : h[x] = a * f[x] + b * g[x]
Combines(h, f, g, a, b) == SumOver(h) = a * SumOver(f) + b * SumOver(g)

\* Sums of multiples are multiples of sums.
LEMMA SumLinear ==
    ASSUME NEW S, IsFiniteSet(S), NEW f \in [S -> Int], NEW g \in [S -> Int], NEW h \in [S -> Int],
           NEW a \in Int, NEW b \in Int, Mixes(S, h, f, g, a, b)
    PROVE  Combines(h, f, g, a, b)
  <1> DEFINE P == {T \in SUBSET S : Part(h, T) = a * Part(f, T) + b * Part(g, T)}
  <1>1. ASSUME NEW k \in [S -> Int]
        PROVE  /\ Part(k, {}) = 0 /\ Part(k, S) = SumOver(k)
               /\ \A T \in SUBSET S : Part(k, T) \in Int
               /\ \A T \in SUBSET S : \A x \in T : Part(k, T) = k[x] + Part(k, T \ {x})
    <2>1. k = [x \in S |-> k[x]]
      OBVIOUS
    <2>2. QED
      BY <2>1, PartsAdd, PartWhole
  <1>2. {} \in P
    BY <1>1
  <1>3. ASSUME NEW T \in SUBSET S, \A x \in T : T \ {x} \in P, T # {} PROVE T \in P
    <2>1. PICK x \in T : TRUE
      BY <1>3
    <2>2. Part(h, T \ {x}) = a * Part(f, T \ {x}) + b * Part(g, T \ {x})
      BY <1>3
    <2>3. T \ {x} \in SUBSET S /\ x \in S /\ h[x] = a * f[x] + b * g[x]
      BY DEF Mixes
    <2>4. /\ Part(h, T) = h[x] + Part(h, T \ {x})
          /\ Part(f, T) = f[x] + Part(f, T \ {x})
          /\ Part(g, T) = g[x] + Part(g, T \ {x})
      BY <1>1
    <2>5. Part(f, T \ {x}) \in Int /\ Part(g, T \ {x}) \in Int /\ f[x] \in Int /\ g[x] \in Int
      BY <1>1, <2>3
    <2>6. QED
      BY <2>2, <2>3, <2>4, <2>5
  <1>4. SUBSET S \subseteq P
    <2> HIDE DEF P
    <2>1. QED
      BY <1>2, <1>3, SizeInduction
  <1>5. QED
    BY <1>1, <1>4 DEF Combines

\* A sum of amounts is one, and none of them is more than it.
LEMMA SumNatural ==
    ASSUME NEW S, IsFiniteSet(S), NEW f \in [S -> Nat]
    PROVE  SumOver(f) \in Nat /\ \A x \in S : f[x] <= SumOver(f)
  <1> DEFINE P == {T \in SUBSET S : Part(f, T) \in Nat}
  <1>1. f \in [S -> Int] /\ f = [x \in S |-> f[x]] /\ \A x \in S : f[x] \in Nat
    OBVIOUS
  <1>2. /\ Part(f, {}) = 0 /\ Part(f, S) = SumOver(f)
        /\ \A T \in SUBSET S : \A x \in T : Part(f, T) = f[x] + Part(f, T \ {x})
    BY <1>1, PartsAdd, PartWhole
  <1>3. {} \in P
    BY <1>2
  <1>4. ASSUME NEW T \in SUBSET S, \A x \in T : T \ {x} \in P, T # {} PROVE T \in P
    <2>1. PICK x \in T : TRUE
      BY <1>4
    <2>2. Part(f, T \ {x}) \in Nat /\ f[x] \in Nat
      BY <1>1, <1>4
    <2>3. Part(f, T) = f[x] + Part(f, T \ {x})
      BY <1>2
    <2>4. QED
      BY <2>2, <2>3
  <1>5. SUBSET S \subseteq P
    <2> HIDE DEF P
    <2>1. QED
      BY <1>3, <1>4, SizeInduction
  <1>6. ASSUME NEW x \in S PROVE f[x] <= SumOver(f)
    <2>1. SumOver(f) = f[x] + Part(f, S \ {x})
      BY <1>2
    <2>2. Part(f, S \ {x}) \in Nat /\ f[x] \in Nat
      BY <1>1, <1>5
    <2>3. QED
      BY <2>1, <2>2
  <1>7. QED
    BY <1>2, <1>5, <1>6

\* More amounts, no smaller sum.
LEMMA PartsGrow ==
    ASSUME NEW S, IsFiniteSet(S), NEW f \in [S -> Nat]
    PROVE  \A U \in SUBSET S : Part(f, U) \in Nat /\ \A T \in SUBSET U : Part(f, T) <= Part(f, U)
  <1> DEFINE P == {U \in SUBSET S : Part(f, U) \in Nat /\ \A T \in SUBSET U : Part(f, T) <= Part(f, U)}
  <1>1. f \in [S -> Int] /\ \A x \in S : f[x] \in Nat
    OBVIOUS
  <1>2. Part(f, {}) = 0 /\ \A U \in SUBSET S : \A x \in U : Part(f, U) = f[x] + Part(f, U \ {x})
    BY <1>1, PartsAdd
  <1>3. {} \in P
    BY <1>2
  <1>4. ASSUME NEW U \in SUBSET S, \A x \in U : U \ {x} \in P, U # {} PROVE U \in P
    <2>1. ASSUME NEW x \in U
          PROVE  /\ f[x] \in Nat /\ Part(f, U \ {x}) \in Nat /\ Part(f, U) = f[x] + Part(f, U \ {x})
                 /\ \A T \in SUBSET (U \ {x}) : Part(f, T) \in Nat /\ Part(f, T) <= Part(f, U \ {x})
      <3>1. U \ {x} \in P /\ f[x] \in Nat
        BY <1>1, <1>4
      <3>2. \A T \in SUBSET (U \ {x}) : Part(f, T) <= Part(f, U \ {x})
        BY <3>1
      <3>3. \A T \in SUBSET (U \ {x}) : Part(f, T) \in Int
        BY <1>1, PartsAdd
      <3>4. \A T \in SUBSET (U \ {x}) : Part(f, T) \in Nat
        <4> SUFFICES ASSUME NEW T \in SUBSET (U \ {x}) PROVE Part(f, T) \in Nat
          OBVIOUS
        <4>1. [y \in T |-> f[y]] \in [T -> Nat] /\ IsFiniteSet(T)
          BY FS_Subset
        <4> QED
          BY <4>1, SumNatural DEF Part
      <3> QED
        BY <1>2, <3>1, <3>2, <3>4
    <2>2. Part(f, U) \in Nat
      <3>1. PICK x \in U : TRUE
        BY <1>4
      <3>2. f[x] \in Nat /\ Part(f, U \ {x}) \in Nat /\ Part(f, U) = f[x] + Part(f, U \ {x})
        BY <2>1
      <3> QED
        BY <3>2
    <2>3. ASSUME NEW T \in SUBSET U PROVE Part(f, T) <= Part(f, U)
      <3>1. CASE T = U
        BY <2>2, <3>1
      <3>2. ASSUME T # U PROVE Part(f, T) <= Part(f, U)
        <4>1. PICK x \in U : x \notin T
          BY <3>2
        <4>2. T \in SUBSET (U \ {x})
          BY <4>1
        <4>3. Part(f, T) \in Nat /\ Part(f, T) <= Part(f, U \ {x})
          BY <2>1, <4>2
        <4>4. f[x] \in Nat /\ Part(f, U \ {x}) \in Nat /\ Part(f, U) = f[x] + Part(f, U \ {x})
          BY <2>1
        <4> QED
          BY <4>3, <4>4
      <3> QED
        BY <3>1, <3>2
    <2> QED
      BY <2>2, <2>3
  <1>5. SUBSET S \subseteq P
    <2> HIDE DEF P
    <2>1. QED
      BY <1>3, <1>4, SizeInduction
  <1> QED
    BY <1>5

\* Nothing but zeros adds up to zero ...
LEMMA SumZero ==
    ASSUME NEW S, IsFiniteSet(S), NEW f \in [S -> Int], \A x \in S : f[x] = 0
    PROVE  SumOver(f) = 0
  <1> DEFINE s == SumOver(f)
  <1>1. s = s + s
    <2>1. \A x \in S : f[x] = f[x] + f[x]
      OBVIOUS
    <2> QED
      BY <2>1, SumPlus
  <1>2. s \in Int
    BY SumType
  <1> HIDE DEF s
  <1>3. s = 0
    BY <1>1, <1>2
  <1> QED
    BY <1>3 DEF s

\* ... and zeros do not count among others.
LEMMA SumSupport ==
    ASSUME NEW S, IsFiniteSet(S), NEW f \in [S -> Int], NEW T \in SUBSET S, \A x \in S \ T : f[x] = 0
    PROVE  SumOver(f) = Part(f, T)
  <1> DEFINE P == {U \in SUBSET S : Part(f, U) = Part(f, U \cap T)}
  <1>1. /\ \A U \in SUBSET S : Part(f, U) \in Int
        /\ \A U \in SUBSET S : \A x \in U : Part(f, U) = f[x] + Part(f, U \ {x})
    BY PartsAdd
  <1>2. {} \in P
    OBVIOUS
  <1>3. ASSUME NEW U \in SUBSET S, \A x \in U : U \ {x} \in P, U # {} PROVE U \in P
    <2>1. PICK x \in U : TRUE
      BY <1>3
    <2>2. Part(f, U) = f[x] + Part(f, U \ {x}) /\ Part(f, U \ {x}) = Part(f, (U \ {x}) \cap T)
      BY <1>1, <1>3
    <2>3. CASE x \in T
      <3>1. (U \ {x}) \cap T = (U \cap T) \ {x} /\ x \in U \cap T
        BY <2>3
      <3>2. Part(f, U \cap T) = f[x] + Part(f, (U \cap T) \ {x})
        BY <1>1, <3>1
      <3> QED
        BY <2>2, <3>1, <3>2
    <2>4. CASE x \notin T
      <3>1. (U \ {x}) \cap T = U \cap T /\ f[x] = 0
        BY <2>4
      <3>2. Part(f, U \cap T) \in Int
        BY <1>1
      <3> QED
        BY <2>2, <3>1, <3>2
    <2> QED
      BY <2>3, <2>4
  <1>4. SUBSET S \subseteq P
    <2> HIDE DEF P
    <2> QED
      BY <1>2, <1>3, SizeInduction
  <1>5. Part(f, S) = Part(f, S \cap T)
    BY <1>4
  <1>6. S \cap T = T /\ f = [x \in S |-> f[x]]
    OBVIOUS
  <1> QED
    BY <1>5, <1>6, PartWhole

\* Two sets apart are added up one after the other.
LEMMA PartsApart ==
    ASSUME NEW S, IsFiniteSet(S), NEW f \in [S -> Int], NEW A \in SUBSET S, NEW B \in SUBSET S, A \cap B = {}
    PROVE  Part(f, A \cup B) = Part(f, A) + Part(f, B)
  <1> DEFINE P == {U \in SUBSET B : Part(f, A \cup U) = Part(f, A) + Part(f, U)}
  <1>1. /\ \A U \in SUBSET S : Part(f, U) \in Int
        /\ \A U \in SUBSET S : \A x \in U : Part(f, U) = f[x] + Part(f, U \ {x})
        /\ Part(f, {}) = 0
    BY PartsAdd
  <1>2. {} \in P
    <2>1. A \cup {} = A
      OBVIOUS
    <2> QED
      BY <1>1, <2>1
  <1>3. ASSUME NEW U \in SUBSET B, \A x \in U : U \ {x} \in P, U # {} PROVE U \in P
    <2>1. PICK x \in U : TRUE
      BY <1>3
    <2>2. (A \cup U) \ {x} = A \cup (U \ {x}) /\ x \in A \cup U /\ A \cup U \in SUBSET S
      BY <2>1
    <2>3. Part(f, A \cup U) = f[x] + Part(f, A \cup (U \ {x})) /\ Part(f, U) = f[x] + Part(f, U \ {x})
      BY <1>1, <2>2
    <2>4. Part(f, A \cup (U \ {x})) = Part(f, A) + Part(f, U \ {x})
      BY <1>3
    <2>5. Part(f, A) \in Int /\ Part(f, U \ {x}) \in Int /\ f[x] \in Int
      BY <1>1
    <2> QED
      BY <2>3, <2>4, <2>5
  <1>4. IsFiniteSet(B)
    BY FS_Subset
  <1>5. SUBSET B \subseteq P
    <2> HIDE DEF P
    <2> QED
      BY <1>2, <1>3, <1>4, SizeInduction
  <1> QED
    BY <1>5

\* The images of a finite set are finitely many.
LEMMA ImageFinite ==
    ASSUME NEW S, IsFiniteSet(S), NEW p
    PROVE  IsFiniteSet({p[x] : x \in S})
  <1> DEFINE P == {U \in SUBSET S : IsFiniteSet({p[x] : x \in U})}
  <1>1. {} \in P
    <2>1. {p[x] : x \in {}} = {}
      OBVIOUS
    <2> QED
      BY <2>1, FS_EmptySet
  <1>2. ASSUME NEW U \in SUBSET S, NEW z \in S \ U, U \in P PROVE U \cup {z} \in P
    <2>1. {p[x] : x \in U \cup {z}} = {p[x] : x \in U} \cup {p[z]}
      OBVIOUS
    <2>2. IsFiniteSet({p[x] : x \in U} \cup {p[z]})
      BY <1>2, FS_AddElement
    <2> QED
      BY <2>1, <2>2
  <1> HIDE DEF P
  <1>3. S \in P
    BY <1>1, <1>2, GrowInduction
  <1> QED
    BY <1>3 DEF P

\* It does not matter what the elements are called.
LEMMA SumRenamed ==
    ASSUME NEW S, IsFiniteSet(S), NEW f \in [S -> Int], NEW p, NEW T, T = {p[x] : x \in S},
           \A x \in S : \A y \in S : p[x] = p[y] => x = y,
           NEW g \in [T -> Int], \A x \in S : g[p[x]] = f[x]
    PROVE  SumOver(g) = SumOver(f)
  <1> DEFINE Named(U) == {p[x] : x \in U}
             P == {U \in SUBSET S : Part(g, Named(U)) = Part(f, U)}
  <1>0. IsFiniteSet(T)
    BY ImageFinite
  <1>1. /\ \A U \in SUBSET S : Part(f, U) \in Int
        /\ \A U \in SUBSET S : \A x \in U : Part(f, U) = f[x] + Part(f, U \ {x})
        /\ Part(f, {}) = 0
    BY PartsAdd
  <1>2. /\ \A U \in SUBSET T : Part(g, U) \in Int
        /\ \A U \in SUBSET T : \A x \in U : Part(g, U) = g[x] + Part(g, U \ {x})
        /\ Part(g, {}) = 0
    BY <1>0, PartsAdd
  <1>3. {} \in P
    <2>1. Named({}) = {}
      OBVIOUS
    <2> QED
      BY <1>1, <1>2, <2>1
  <1>4. ASSUME NEW U \in SUBSET S, \A x \in U : U \ {x} \in P, U # {} PROVE U \in P
    <2>1. PICK x \in U : TRUE
      BY <1>4
    <2>2. Named(U) \in SUBSET T /\ p[x] \in Named(U) /\ Named(U) \ {p[x]} = Named(U \ {x})
      OBVIOUS
    <2>3. Part(g, Named(U)) = g[p[x]] + Part(g, Named(U \ {x}))
      BY <1>2, <2>2
    <2>4. Part(f, U) = f[x] + Part(f, U \ {x}) /\ Part(g, Named(U \ {x})) = Part(f, U \ {x})
      BY <1>1, <1>4
    <2>5. g[p[x]] = f[x]
      OBVIOUS
    <2> QED
      BY <2>3, <2>4, <2>5
  <1>5. SUBSET S \subseteq P
    <2> HIDE DEF P
    <2> QED
      BY <1>3, <1>4, SizeInduction
  <1>6. Part(g, T) = Part(f, S)
    BY <1>5
  <1>7. g = [y \in T |-> g[y]] /\ f = [x \in S |-> f[x]]
    OBVIOUS
  <1> QED
    BY <1>6, <1>7, PartWhole
=================================================================================
