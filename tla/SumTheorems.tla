----------------------------- MODULE SumTheorems -----------------------------
(***************************************************************************)
(* Facts about numbers and about the sum of a function over a finite set,  *)
(* SumFunctionOnSet of the community modules: that its recursive           *)
(* definition is satisfied, and what follows for the matrices and fields   *)
(* of the operators.                                                       *)
(***************************************************************************)
EXTENDS Integers, FiniteSets, FiniteSetsExt, Functions, FiniteSetTheorems,
        WellFoundedInduction, TLAPS

\* A set of natural numbers has a least element.
LEMMA LeastNatural ==
  ASSUME NEW T \in SUBSET Nat, T # {}
  PROVE  \E m \in T : \A n \in T : m <= n
<1> DEFINE lt == OpToRel(<, Nat)
<1>1. lt = {x \in Nat \X Nat : x[1] < x[2]}
  BY DEF OpToRel
<1>2. IsWellFoundedOn(lt, Nat)
  BY NatLessThanWellFounded, Zenon
<1> HIDE DEF lt
<1>3. PICK x \in T : \A y \in T : ~ (<<y, x>> \in lt)
  BY <1>2, WFMin
<1>4. ASSUME NEW y \in T PROVE x <= y
  <2>1. <<y, x>> \in Nat \X Nat /\ <<y, x>>[1] = y /\ <<y, x>>[2] = x
    OBVIOUS
  <2>2. ~ (y < x)
    BY <1>1, <1>3, <2>1
  <2> QED
    BY <2>2
<1> QED
  BY <1>3, <1>4

\* A finite set of integers has a greatest element: the one with the most
\* elements up to it.
LEMMA GreatestElement ==
  ASSUME NEW S \in SUBSET Int, IsFiniteSet(S), S # {}
  PROVE  Max(S) \in S /\ \A y \in S : y <= Max(S)
<1> DEFINE upTo(s) == {t \in S : t <= s}
           rest(s) == Cardinality(S) - Cardinality(upTo(s))
           T == {rest(s) : s \in S}
<1>1. ASSUME NEW s \in S
      PROVE  /\ IsFiniteSet(upTo(s)) /\ Cardinality(upTo(s)) \in Nat
             /\ rest(s) \in Nat
  <2>1. upTo(s) \in SUBSET S
    OBVIOUS
  <2>2. IsFiniteSet(upTo(s)) /\ Cardinality(upTo(s)) <= Cardinality(S)
    BY <2>1, FS_Subset
  <2>3. Cardinality(upTo(s)) \in Nat /\ Cardinality(S) \in Nat
    BY <2>2, FS_CardinalityType
  <2> QED
    BY <2>2, <2>3
<1>2. PICK m \in T : \A n \in T : m <= n
  <2>1. T \in SUBSET Nat /\ T # {}
    BY <1>1
  <2> HIDE DEF T
  <2> QED
    BY <2>1, LeastNatural
<1>3. PICK s \in S : rest(s) = m
  BY <1>2
<1>4. ASSUME NEW t \in S, ~ (t <= s) PROVE FALSE
  <2>1. \A u \in Int : u <= s => u <= t
    BY <1>4
  <2>2. t \in upTo(t) /\ t \notin upTo(s)
    BY <1>4
  <2>3. /\ Cardinality(upTo(s)) <= Cardinality(upTo(t))
        /\ Cardinality(upTo(s)) # Cardinality(upTo(t))
    <3>1. upTo(s) \in SUBSET upTo(t)
      BY <2>1
    <3> QED
      BY <1>1, <2>2, <3>1, FS_Subset
  <2>4. rest(t) < rest(s)
    <3>1. Cardinality(S) \in Nat
      BY FS_CardinalityType
    <3>2. /\ Cardinality(upTo(s)) \in Nat /\ Cardinality(upTo(t)) \in Nat
      BY <1>1
    <3> HIDE DEF upTo
    <3> QED
      BY <2>3, <3>1, <3>2
  <2>5. rest(t) \in T /\ rest(t) \in Nat /\ rest(s) \in Nat
    BY <1>1
  <2> HIDE DEF rest, T
  <2> QED
    BY <1>2, <1>3, <2>4, <2>5
<1>5. \E x \in S : \A y \in S : x >= y
  BY <1>4
<1> QED
  BY <1>5 DEF Max

\* Scaling by a natural number keeps the order.
LEMMA ScaleMonotone ==
  ASSUME NEW a \in Int, NEW b \in Int, NEW k \in Nat, a <= b
  PROVE  a * k <= b * k
<1>1. (b - a) * k \in Nat
  <2>1. b - a \in Nat
    OBVIOUS
  <2> QED
    BY <2>1
<1>2. (b - a) * k = b * k - a * k
  OBVIOUS
<1>3. a * k \in Int /\ b * k \in Int
  OBVIOUS
<1> QED
  BY <1>1, <1>2, <1>3

\* The element a sum over s begins with.
pick(s) == CHOOSE x \in s : TRUE

\* g is what the definition of the sum of f over S chooses.
isIteration(g, f, S) ==
  g = [s \in SUBSET S |->
         IF s = {} THEN 0 ELSE f[pick(s)] + g[s \ {pick(s)}]]

LEMMA PickElement ==
  ASSUME NEW S, S # {}
  PROVE  pick(S) \in S
BY DEF pick

\* Induction over the subsets of a finite set: if a set of subsets contains a
\* subset whenever it contains all the smaller ones, it contains all.
LEMMA SubsetInduction ==
  ASSUME NEW S, IsFiniteSet(S), NEW C \in SUBSET SUBSET S,
         \A T \in SUBSET S : (\A U \in SUBSET T : U # T => U \in C) => T \in C
  PROVE  C = SUBSET S
<1>1. IsWellFoundedOn(StrictSubsetOrdering(S), SUBSET S)
  BY FS_StrictSubsetOrderingWellFounded, FS_FiniteSubsetsOfFinite
<1>2. ASSUME (SUBSET S) \ C # {}
      PROVE  FALSE
  <2>1. PICK T \in (SUBSET S) \ C :
          \A U \in (SUBSET S) \ C : <<U, T>> \notin StrictSubsetOrdering(S)
    <3> DEFINE D == (SUBSET S) \ C
               R == StrictSubsetOrdering(S)
    <3>1. D \subseteq SUBSET S /\ D # {} /\ IsWellFoundedOn(R, SUBSET S)
      BY <1>1, <1>2
    <3>2. \E T \in D : \A U \in D : ~ (<<U, T>> \in R)
      <4> HIDE DEF D, R
      <4>1. QED
        BY <3>1, WFMin
    <3>3. QED
      BY <3>2
  <2>2. ASSUME NEW U \in SUBSET T, U # T
        PROVE  U \in C
    BY <2>1, <2>2 DEF StrictSubsetOrdering
  <2>3. QED
    BY <2>1, <2>2
<1>3. QED
  BY <1>2

LEMMA SumIsIteration ==
  ASSUME NEW f, NEW S
  PROVE  SumFunctionOnSet(f, S) = (CHOOSE g : isIteration(g, f, S))[S]
BY DEF SumFunctionOnSet, FoldFunctionOnSet, MapThenFoldSet, isIteration, pick

\* Two iterations agree where both are defined.
LEMMA IterationUnique ==
  ASSUME NEW f, NEW S, NEW T, NEW g, NEW h,
         isIteration(g, f, S), isIteration(h, f, T),
         NEW V, IsFiniteSet(V), V \subseteq S, V \subseteq T
  PROVE  g[V] = h[V]
<1> DEFINE C == {U \in SUBSET V : g[U] = h[U]}
<1>1. ASSUME NEW W \in SUBSET V, \A U \in SUBSET W : U # W => U \in C
      PROVE  W \in C
  <2>1. /\ g[W] = IF W = {} THEN 0 ELSE f[pick(W)] + g[W \ {pick(W)}]
        /\ h[W] = IF W = {} THEN 0 ELSE f[pick(W)] + h[W \ {pick(W)}]
    <3>1. W \in SUBSET S /\ W \in SUBSET T
      OBVIOUS
    <3>2. QED
      BY <3>1 DEF isIteration
  <2>2. CASE W = {}
    BY <2>1, <2>2
  <2>3. CASE W # {}
    <3>1. pick(W) \in W
      BY <2>3, PickElement
    <3>2. W \ {pick(W)} \in C
      BY <1>1, <3>1
    <3>3. QED
      BY <2>1, <2>3, <3>2
  <2>4. QED
    BY <2>2, <2>3
<1>2. C = SUBSET V
  <2> HIDE DEF C
  <2>1. C \in SUBSET SUBSET V
    BY DEF C
  <2>2. QED
    BY <1>1, <2>1, SubsetInduction
<1>3. QED
  BY <1>2

\* There is an iteration for every finite set.
LEMMA IterationExists ==
  ASSUME NEW f, NEW S, IsFiniteSet(S)
  PROVE  \E g : isIteration(g, f, S)
<1> DEFINE C == {T \in SUBSET S : \E g : isIteration(g, f, T)}
<1>1. ASSUME NEW T \in SUBSET S, \A U \in SUBSET T : U # T => U \in C
      PROVE  T \in C
  <2> DEFINE g == [s \in SUBSET T |->
                     IF s = {} THEN 0
                     ELSE f[pick(s)] + SumFunctionOnSet(f, s \ {pick(s)})]
  <2>1. ASSUME NEW s \in SUBSET T, s # {}
        PROVE  g[s \ {pick(s)}] = SumFunctionOnSet(f, s \ {pick(s)})
    <3> DEFINE U == s \ {pick(s)}
               h == CHOOSE i : isIteration(i, f, U)
    <3>1. U \in SUBSET T /\ U # T
      BY <2>1, PickElement
    <3>2. isIteration(h, f, U)
      BY <1>1, <3>1
    <3>3. SumFunctionOnSet(f, U) = h[U]
      BY SumIsIteration
    <3>4. h[U] = IF U = {} THEN 0 ELSE f[pick(U)] + h[U \ {pick(U)}]
      <4> HIDE DEF h, U
      <4>1. U \in SUBSET U
        OBVIOUS
      <4>2. QED
        BY <3>2, <4>1 DEF isIteration
    <3>5. CASE U = {}
      BY <3>1, <3>3, <3>4, <3>5
    <3>6. CASE U # {}
      <4> DEFINE V == U \ {pick(U)}
                 i == CHOOSE j : isIteration(j, f, V)
      <4>1. V \in SUBSET T /\ V # T
        BY <3>1
      <4>2. isIteration(i, f, V)
        BY <1>1, <4>1
      <4>3. SumFunctionOnSet(f, V) = i[V]
        BY SumIsIteration
      <4>4. IsFiniteSet(V)
        BY <4>1, FS_Subset
      <4>5. h[V] = i[V]
        <5> HIDE DEF h, i
        <5>1. V \subseteq U
          OBVIOUS
        <5> HIDE DEF V, U
        <5>2. QED
          BY <3>2, <4>2, <4>4, <5>1, IterationUnique
      <4>6. QED
        BY <3>1, <3>3, <3>4, <3>6, <4>3, <4>5
    <3>7. QED
      BY <3>5, <3>6
  <2>2. isIteration(g, f, T)
    <3>1. g = [s \in SUBSET T |->
                 IF s = {} THEN 0 ELSE f[pick(s)] + g[s \ {pick(s)}]]
      BY <2>1
    <3>2. QED
      BY <3>1 DEF isIteration
  <2>3. QED
    BY <2>2
<1>2. C = SUBSET S
  <2> HIDE DEF C
  <2>1. C \in SUBSET SUBSET S
    BY DEF C
  <2>2. QED
    BY <1>1, <2>1, SubsetInduction
<1>3. QED
  BY <1>2

\* The sum satisfies its recursive definition.
LEMMA SumRecursion ==
  ASSUME NEW f, NEW S, IsFiniteSet(S)
  PROVE  SumFunctionOnSet(f, S) =
           IF S = {} THEN 0
           ELSE f[pick(S)] + SumFunctionOnSet(f, S \ {pick(S)})
<1> DEFINE g == CHOOSE i : isIteration(i, f, S)
           U == S \ {pick(S)}
           h == CHOOSE i : isIteration(i, f, U)
<1>1. isIteration(g, f, S)
  BY IterationExists
<1>2. SumFunctionOnSet(f, S) = g[S]
  BY SumIsIteration
<1>3. IsFiniteSet(U)
  BY FS_RemoveElement
<1>4. isIteration(h, f, U)
  BY <1>3, IterationExists
<1>5. SumFunctionOnSet(f, U) = h[U]
  BY SumIsIteration
<1>6. g[S] = IF S = {} THEN 0 ELSE f[pick(S)] + g[U]
  <2> HIDE DEF g
  <2>1. S \in SUBSET S
    OBVIOUS
  <2>2. QED
    BY <1>1, <2>1 DEF isIteration
<1>7. g[U] = h[U]
  <2> HIDE DEF g, h
  <2>1. U \subseteq S
    OBVIOUS
  <2> HIDE DEF U
  <2>2. QED
    BY <1>1, <1>3, <1>4, <2>1, IterationUnique
<1>8. QED
  BY <1>2, <1>5, <1>6, <1>7

-----------------------------------------------------------------------------
(***************************************************************************)
(* Sums of integers.                                                       *)
(***************************************************************************)
LEMMA SumEmpty ==
  ASSUME NEW f
  PROVE  SumFunctionOnSet(f, {}) = 0
BY SumRecursion, FS_EmptySet

\* Any element may be the one the sum begins with.
LEMMA SumTakes ==
  ASSUME NEW S, IsFiniteSet(S), NEW f, \A x \in S : f[x] \in Int
  PROVE  /\ SumFunctionOnSet(f, S) \in Int
         /\ \A x \in S : SumFunctionOnSet(f, S) = f[x] + SumFunctionOnSet(f, S \ {x})
<1> DEFINE sum(T) == SumFunctionOnSet(f, T)
           C == {T \in SUBSET S : /\ sum(T) \in Int
                                  /\ \A x \in T : sum(T) = f[x] + sum(T \ {x})}
<1>1. ASSUME NEW T \in SUBSET S, \A U \in SUBSET T : U # T => U \in C
      PROVE  T \in C
  <2>1. sum(T) = IF T = {} THEN 0 ELSE f[pick(T)] + sum(T \ {pick(T)})
    BY SumRecursion, FS_Subset
  <2>2. CASE T = {}
    BY <2>1, <2>2
  <2>3. CASE T # {}
    <3> DEFINE p == pick(T)
    <3>1. p \in T
      BY <2>3, PickElement
    <3> HIDE DEF sum
    <3>2. sum(T) = f[p] + sum(T \ {p})
      BY <2>1, <2>3
    <3> HIDE DEF p
    <3>3. sum(T \ {p}) \in Int /\ f[p] \in Int
      BY <1>1, <3>1
    <3>4. ASSUME NEW x \in T, x # p
          PROVE  sum(T) = f[x] + sum(T \ {x})
      <4>1. x \in T \ {p} /\ p \in T \ {x} /\ (T \ {p}) \ {x} = (T \ {x}) \ {p}
        BY <3>1, <3>4
      <4>2. T \ {p} \in C
        BY <1>1, <3>1
      <4>3. T \ {x} \in C
        BY <1>1, <3>4
      <4>4. (T \ {p}) \ {x} \in C
        BY <1>1, <3>1
      <4>5. sum(T \ {p}) = f[x] + sum((T \ {p}) \ {x})
        BY <4>1, <4>2
      <4>6. sum(T \ {x}) = f[p] + sum((T \ {p}) \ {x})
        BY <4>1, <4>3
      <4>7. sum((T \ {p}) \ {x}) \in Int
        BY <4>4
      <4>8. f[x] \in Int /\ f[p] \in Int
        BY <3>3
      <4> HIDE DEF C
      <4> DEFINE r == sum((T \ {p}) \ {x})
      <4> HIDE DEF r
      <4>9. f[p] + (f[x] + r) = f[x] + (f[p] + r)
        BY <4>7, <4>8 DEF r
      <4>10. QED
        BY <3>2, <4>5, <4>6, <4>9 DEF r
    <3> DEFINE total == sum(T)
               rest == sum(T \ {p})
    <3>5. total \in Int
      <4> HIDE DEF total, rest
      <4>1. total = f[p] + rest /\ rest \in Int /\ f[p] \in Int
        BY <3>2, <3>3 DEF total, rest
      <4>2. QED
        BY <4>1
    <3>6. \A x \in T : sum(T) = f[x] + sum(T \ {x})
      BY <3>2, <3>4
    <3>7. QED
      BY <3>5, <3>6
  <2>4. QED
    BY <2>2, <2>3
<1>2. C = SUBSET S
  <2> HIDE DEF C
  <2>1. C \in SUBSET SUBSET S
    BY DEF C
  <2>2. QED
    BY <1>1, <2>1, SubsetInduction
<1>3. QED
  BY <1>2

\* Functions that agree on a set have one sum over it.
LEMMA SumSame ==
  ASSUME NEW S, IsFiniteSet(S), NEW f, NEW g, \A x \in S : f[x] = g[x]
  PROVE  SumFunctionOnSet(f, S) = SumFunctionOnSet(g, S)
<1> DEFINE C == {T \in SUBSET S : SumFunctionOnSet(f, T) = SumFunctionOnSet(g, T)}
<1>1. ASSUME NEW T \in SUBSET S, \A U \in SUBSET T : U # T => U \in C
      PROVE  T \in C
  <2>1. /\ SumFunctionOnSet(f, T) =
             IF T = {} THEN 0 ELSE f[pick(T)] + SumFunctionOnSet(f, T \ {pick(T)})
        /\ SumFunctionOnSet(g, T) =
             IF T = {} THEN 0 ELSE g[pick(T)] + SumFunctionOnSet(g, T \ {pick(T)})
    BY SumRecursion, FS_Subset
  <2>2. CASE T = {}
    BY <2>1, <2>2
  <2>3. CASE T # {}
    <3>1. pick(T) \in T
      BY <2>3, PickElement
    <3>2. T \ {pick(T)} \in C
      BY <1>1, <3>1
    <3>3. QED
      BY <2>1, <2>3, <3>1, <3>2
  <2>4. QED
    BY <2>2, <2>3
<1>2. C = SUBSET S
  <2> HIDE DEF C
  <2>1. C \in SUBSET SUBSET S
    BY DEF C
  <2>2. QED
    BY <1>1, <2>1, SubsetInduction
<1>3. QED
  BY <1>2

\* A sum over disjoint sets, one element or many.
LEMMA SumDisjoint ==
  ASSUME NEW S, IsFiniteSet(S), NEW T, IsFiniteSet(T), S \cap T = {},
         NEW f, \A x \in S \cup T : f[x] \in Int
  PROVE  SumFunctionOnSet(f, S \cup T)
           = SumFunctionOnSet(f, S) + SumFunctionOnSet(f, T)
<1> DEFINE sum(U) == SumFunctionOnSet(f, U)
           C == {U \in SUBSET S : sum(U \cup T) = sum(U) + sum(T)}
<1>1. ASSUME NEW U \in SUBSET S, \A V \in SUBSET U : V # U => V \in C
      PROVE  U \in C
  <2>1. CASE U = {}
    <3>1. sum({}) = 0 /\ sum(T) \in Int /\ U \cup T = T
      BY <2>1, SumEmpty, SumTakes
    <3>2. QED
      BY <2>1, <3>1
  <2>2. CASE U # {}
    <3>1. PICK x \in U : TRUE
      BY <2>2
    <3>2. IsFiniteSet(U) /\ IsFiniteSet(U \cup T)
      BY FS_Subset, FS_Union
    <3>3. \A y \in U \cup T : f[y] \in Int
      OBVIOUS
    <3>4. /\ sum(U) = f[x] + sum(U \ {x})
          /\ sum(U \cup T) = f[x] + sum((U \cup T) \ {x})
      BY <3>1, <3>2, <3>3, SumTakes
    <3>5. (U \cup T) \ {x} = (U \ {x}) \cup T
      BY <3>1
    <3>6. /\ sum(U \ {x}) \in Int /\ sum(T) \in Int /\ f[x] \in Int
      <4>1. IsFiniteSet(U \ {x}) /\ \A y \in U \ {x} : f[y] \in Int
        BY <3>2, <3>3, FS_RemoveElement
      <4>2. QED
        BY <3>3, <4>1, SumTakes
    <3>7. U \ {x} \in C
      BY <1>1, <3>1
    <3>8. sum((U \ {x}) \cup T) = sum(U \ {x}) + sum(T)
      BY <3>7
    <3> DEFINE a == sum(U \ {x})
               b == sum(T)
    <3>9. sum(U \cup T) = f[x] + (a + b) /\ sum(U) = f[x] + a
      BY <3>4, <3>5, <3>8
    <3>10. a \in Int /\ b \in Int
      BY <3>6
    <3>11. f[x] + (a + b) = (f[x] + a) + b
      <4> HIDE DEF a, b
      <4>1. QED
        BY <3>6, <3>10
    <3>12. QED
      BY <3>9, <3>11
  <2>3. QED
    BY <2>1, <2>2
<1>2. C = SUBSET S
  <2> HIDE DEF C
  <2>1. C \in SUBSET SUBSET S
    BY DEF C
  <2>2. QED
    BY <1>1, <2>1, SubsetInduction
<1>3. QED
  BY <1>2

\* Elements that add zero do not count.
LEMMA SumZero ==
  ASSUME NEW S, IsFiniteSet(S), NEW f, \A x \in S : f[x] = 0
  PROVE  SumFunctionOnSet(f, S) = 0
<1> DEFINE C == {T \in SUBSET S : SumFunctionOnSet(f, T) = 0}
<1>1. ASSUME NEW T \in SUBSET S, \A U \in SUBSET T : U # T => U \in C
      PROVE  T \in C
  <2>1. SumFunctionOnSet(f, T) =
             IF T = {} THEN 0 ELSE f[pick(T)] + SumFunctionOnSet(f, T \ {pick(T)})
    BY SumRecursion, FS_Subset
  <2>2. CASE T # {}
    <3>1. pick(T) \in T
      BY <2>2, PickElement
    <3>2. T \ {pick(T)} \in C
      BY <1>1, <3>1
    <3>3. QED
      BY <2>1, <2>2, <3>1, <3>2
  <2>3. QED
    BY <2>1, <2>2
<1>2. C = SUBSET S
  <2> HIDE DEF C
  <2>1. C \in SUBSET SUBSET S
    BY DEF C
  <2>2. QED
    BY <1>1, <2>1, SubsetInduction
<1>3. QED
  BY <1>2

LEMMA SumSupport ==
  ASSUME NEW S, IsFiniteSet(S), NEW T \in SUBSET S,
         NEW f, \A x \in T : f[x] \in Int, \A x \in S \ T : f[x] = 0
  PROVE  SumFunctionOnSet(f, S) = SumFunctionOnSet(f, T)
<1>1. IsFiniteSet(T) /\ IsFiniteSet(S \ T)
  BY FS_Subset, FS_Difference
<1>2. SumFunctionOnSet(f, T \cup (S \ T))
        = SumFunctionOnSet(f, T) + SumFunctionOnSet(f, S \ T)
  <2>1. T \cap (S \ T) = {} /\ \A x \in T \cup (S \ T) : f[x] \in Int
    OBVIOUS
  <2>2. QED
    BY <1>1, <2>1, SumDisjoint
<1>3. SumFunctionOnSet(f, S \ T) = 0
  BY <1>1, SumZero
<1>4. T \cup (S \ T) = S /\ SumFunctionOnSet(f, T) \in Int
  BY <1>1, SumTakes
<1>5. QED
  BY <1>2, <1>3, <1>4

\* Equal terms.
LEMMA SumOfConstant ==
  ASSUME NEW S, IsFiniteSet(S), NEW n \in Int, NEW f, \A x \in S : f[x] = n
  PROVE  SumFunctionOnSet(f, S) = Cardinality(S) * n
<1> DEFINE C == {T \in SUBSET S : SumFunctionOnSet(f, T) = Cardinality(T) * n}
<1>1. ASSUME NEW T \in SUBSET S, \A U \in SUBSET T : U # T => U \in C
      PROVE  T \in C
  <2>1. SumFunctionOnSet(f, T) =
             IF T = {} THEN 0 ELSE f[pick(T)] + SumFunctionOnSet(f, T \ {pick(T)})
    BY SumRecursion, FS_Subset
  <2>2. CASE T = {}
    <3>1. Cardinality(T) * n = 0
      BY <2>2, FS_EmptySet
    <3>2. QED
      BY <2>1, <2>2, <3>1
  <2>3. CASE T # {}
    <3>1. pick(T) \in T
      BY <2>3, PickElement
    <3>2. T \ {pick(T)} \in C
      BY <1>1, <3>1
    <3>3. IsFiniteSet(T)
      BY FS_Subset
    <3>4. /\ Cardinality(T \ {pick(T)}) = Cardinality(T) - 1
          /\ Cardinality(T) \in Nat
      BY <3>1, <3>3, FS_RemoveElement, FS_CardinalityType
    <3>5. n + (Cardinality(T) - 1) * n = Cardinality(T) * n
      BY <3>4
    <3>6. QED
      BY <2>1, <2>3, <3>1, <3>2, <3>4, <3>5
  <2>4. QED
    BY <2>2, <2>3
<1>2. C = SUBSET S
  <2> HIDE DEF C
  <2>1. C \in SUBSET SUBSET S
    BY DEF C
  <2>2. QED
    BY <1>1, <2>1, SubsetInduction
<1>3. QED
  BY <1>2

\* A factor of all the terms.
LEMMA SumScaled ==
  ASSUME NEW S, IsFiniteSet(S), NEW n \in Int,
         NEW f, NEW g, \A x \in S : f[x] \in Int /\ g[x] = n * f[x]
  PROVE  SumFunctionOnSet(g, S) = n * SumFunctionOnSet(f, S)
<1> DEFINE C == {T \in SUBSET S :
                   SumFunctionOnSet(g, T) = n * SumFunctionOnSet(f, T)}
<1>1. ASSUME NEW T \in SUBSET S, \A U \in SUBSET T : U # T => U \in C
      PROVE  T \in C
  <2>1. /\ SumFunctionOnSet(f, T) =
             IF T = {} THEN 0 ELSE f[pick(T)] + SumFunctionOnSet(f, T \ {pick(T)})
        /\ SumFunctionOnSet(g, T) =
             IF T = {} THEN 0 ELSE g[pick(T)] + SumFunctionOnSet(g, T \ {pick(T)})
    BY SumRecursion, FS_Subset
  <2>2. CASE T = {}
    BY <2>1, <2>2
  <2>3. CASE T # {}
    <3>1. pick(T) \in T
      BY <2>3, PickElement
    <3> DEFINE a == f[pick(T)]
               b == SumFunctionOnSet(f, T \ {pick(T)})
    <3>2. T \ {pick(T)} \in C
      BY <1>1, <3>1
    <3>3. a \in Int /\ g[pick(T)] = n * a
      BY <3>1
    <3>4. b \in Int
      <4>1. IsFiniteSet(T \ {pick(T)}) /\ \A x \in T \ {pick(T)} : f[x] \in Int
        BY FS_Subset
      <4>2. QED
        BY <4>1, SumTakes
    <3>5. SumFunctionOnSet(g, T) = n * a + n * b /\ SumFunctionOnSet(f, T) = a + b
      BY <2>1, <2>3, <3>2, <3>3
    <3> HIDE DEF a, b
    <3>6. n * a + n * b = n * (a + b)
      BY <3>3, <3>4
    <3>7. QED
      BY <3>5, <3>6
  <2>4. QED
    BY <2>2, <2>3
<1>2. C = SUBSET S
  <2> HIDE DEF C
  <2>1. C \in SUBSET SUBSET S
    BY DEF C
  <2>2. QED
    BY <1>1, <2>1, SubsetInduction
<1>3. QED
  BY <1>2

\* The terms of the sum of f over U are grouped: g gives, over I, the sum of each
\* of the disjoint groups T[i].
isGrouped(f, U, g, I, T) ==
  /\ IsFiniteSet(I)
  /\ \A i \in I : IsFiniteSet(T[i])
  /\ \A i, j \in I : i # j => T[i] \cap T[j] = {}
  /\ \A i \in I : \A x \in T[i] : f[x] \in Int
  /\ \A i \in I : g[i] = SumFunctionOnSet(f, T[i])
  /\ \A x : x \in U <=> \E i \in I : x \in T[i]

\* The sums of the groups add up to the sum.
LEMMA SumGrouped ==
  ASSUME NEW f, NEW U, NEW g, NEW I, NEW T, isGrouped(f, U, g, I, T)
  PROVE  /\ IsFiniteSet(U)
         /\ SumFunctionOnSet(f, U) = SumFunctionOnSet(g, I)
<1>0. /\ IsFiniteSet(I)
      /\ \A i \in I : IsFiniteSet(T[i])
      /\ \A i, j \in I : i # j => T[i] \cap T[j] = {}
      /\ \A i \in I : \A x \in T[i] : f[x] \in Int
      /\ \A i \in I : g[i] = SumFunctionOnSet(f, T[i])
  BY DEF isGrouped
<1> DEFINE all(J) == UNION {T[i] : i \in J}
           C == {J \in SUBSET I :
                   /\ IsFiniteSet(all(J))
                   /\ SumFunctionOnSet(f, all(J)) = SumFunctionOnSet(g, J)}
<1>1. ASSUME NEW J \in SUBSET I, \A K \in SUBSET J : K # J => K \in C
      PROVE  J \in C
  <2>1. SumFunctionOnSet(g, J) =
             IF J = {} THEN 0 ELSE g[pick(J)] + SumFunctionOnSet(g, J \ {pick(J)})
    BY <1>0, SumRecursion, FS_Subset
  <2>2. CASE J = {}
    <3>1. all(J) = {}
      BY <2>2
    <3>2. QED
      BY <2>1, <2>2, <3>1, SumEmpty, FS_EmptySet
  <2>3. CASE J # {}
    <3> DEFINE i == pick(J)
               K == J \ {i}
    <3>1. i \in J
      BY <2>3, PickElement
    <3> HIDE DEF i
    <3>2. K \in C
      BY <1>1, <3>1
    <3>3. all(J) = T[i] \cup all(K)
      BY <3>1
    <3>4. T[i] \cap all(K) = {}
      BY <1>0, <3>1
    <3>5. IsFiniteSet(T[i]) /\ IsFiniteSet(all(K))
      BY <1>0, <3>1, <3>2
    <3>6. \A x \in T[i] \cup all(K) : f[x] \in Int
      BY <1>0, <3>1
    <3> HIDE DEF all
    <3>7. /\ IsFiniteSet(all(J))
          /\ SumFunctionOnSet(f, all(J))
               = SumFunctionOnSet(f, T[i]) + SumFunctionOnSet(f, all(K))
      <4> DEFINE first == T[i]
                 rest == all(K)
      <4>1. /\ IsFiniteSet(first) /\ IsFiniteSet(rest) /\ first \cap rest = {}
            /\ \A x \in first \cup rest : f[x] \in Int
            /\ all(J) = first \cup rest
        BY <3>3, <3>4, <3>5, <3>6
      <4> HIDE DEF first, rest
      <4>2. /\ IsFiniteSet(first \cup rest)
            /\ SumFunctionOnSet(f, first \cup rest)
                 = SumFunctionOnSet(f, first) + SumFunctionOnSet(f, rest)
        BY <4>1, SumDisjoint, FS_Union
      <4>3. QED
        BY <4>1, <4>2 DEF first, rest
    <3>8. SumFunctionOnSet(g, J) = g[i] + SumFunctionOnSet(g, K)
      BY <2>1, <2>3 DEF i
    <3>9. QED
      BY <1>0, <3>1, <3>2, <3>7, <3>8
  <2>4. QED
    BY <2>2, <2>3
<1>2. C = SUBSET I
  <2> HIDE DEF C
  <2>1. C \in SUBSET SUBSET I
    BY DEF C
  <2>2. QED
    BY <1>0, <1>1, <2>1, SubsetInduction
<1>3. I \in C
  BY <1>2
<1>4. U = all(I)
  BY DEF isGrouped
<1>5. QED
  BY <1>3, <1>4

\* The terms may be given other names.
LEMMA SumRenamed ==
  ASSUME NEW S, IsFiniteSet(S), NEW T, NEW b \in Bijection(S, T),
         NEW f, NEW g, \A x \in S : f[x] = g[b[x]] /\ f[x] \in Int
  PROVE  SumFunctionOnSet(f, S) = SumFunctionOnSet(g, T)
<1> DEFINE image(U) == {b[x] : x \in U}
           C == {U \in SUBSET S :
                   SumFunctionOnSet(f, U) = SumFunctionOnSet(g, image(U))}
<1>0. /\ \A x \in S : b[x] \in T
      /\ \A x, y \in S : b[x] = b[y] => x = y
      /\ T = image(S)
  BY DEF Bijection, Injection, Surjection, IsInjective
<1>1. ASSUME NEW U \in SUBSET S, \A V \in SUBSET U : V # U => V \in C
      PROVE  U \in C
  <2>1. SumFunctionOnSet(f, U) =
             IF U = {} THEN 0 ELSE f[pick(U)] + SumFunctionOnSet(f, U \ {pick(U)})
    BY SumRecursion, FS_Subset
  <2>2. CASE U = {}
    <3>1. image(U) = {}
      BY <2>2
    <3>2. QED
      BY <2>1, <2>2, <3>1, SumEmpty
  <2>3. CASE U # {}
    <3> DEFINE p == pick(U)
    <3>1. p \in U
      BY <2>3, PickElement
    <3>2. SumFunctionOnSet(f, U) = f[p] + SumFunctionOnSet(f, U \ {p})
      BY <2>1, <2>3
    <3> HIDE DEF p
    <3>3. U \ {p} \in C
      BY <1>1, <3>1
    <3>4. image(U \ {p}) = image(U) \ {b[p]} /\ b[p] \in image(U)
      BY <1>0, <3>1
    <3>5. IsFiniteSet(image(U))
      <4>1. [x \in U |-> b[x]] \in Surjection(U, image(U))
        BY DEF Surjection
      <4>2. IsFiniteSet(U)
        BY FS_Subset
      <4> HIDE DEF image
      <4>3. QED
        BY <4>1, <4>2, FS_Surjection
    <3>6. \A y \in image(U) : g[y] \in Int
      OBVIOUS
    <3>7. SumFunctionOnSet(g, image(U))
            = g[b[p]] + SumFunctionOnSet(g, image(U) \ {b[p]})
      <4> HIDE DEF image
      <4>1. QED
        BY <3>4, <3>5, <3>6, SumTakes
    <3>8. QED
      BY <3>1, <3>2, <3>3, <3>4, <3>7
  <2>4. QED
    BY <2>2, <2>3
<1>2. C = SUBSET S
  <2> HIDE DEF C
  <2>1. C \in SUBSET SUBSET S
    BY DEF C
  <2>2. QED
    BY <1>1, <2>1, SubsetInduction
<1>3. QED
  BY <1>0, <1>2

\* Where all terms are multiples of n, so is the sum.
LEMMA SumOfMultiples ==
  ASSUME NEW S, IsFiniteSet(S), NEW n \in Nat \ {0},
         NEW f, \A x \in S : f[x] \in Int /\ f[x] % n = 0
  PROVE  SumFunctionOnSet(f, S) = (SumFunctionOnSet(f, S) \div n) * n
<1> DEFINE g == [x \in S |-> f[x] \div n]
<1>1. \A x \in S : g[x] \in Int /\ f[x] = n * g[x]
  BY SMT
<1>2. SumFunctionOnSet(f, S) = n * SumFunctionOnSet(g, S)
  <2> HIDE DEF g
  <2>1. QED
    BY <1>1, SumScaled
<1>3. SumFunctionOnSet(g, S) \in Int
  <2> HIDE DEF g
  <2>1. QED
    BY <1>1, SumTakes
<1>4. \A k \in Int : (n * k) \div n = k
  BY SMT
<1>5. QED
  BY <1>2, <1>3, <1>4
=============================================================================
