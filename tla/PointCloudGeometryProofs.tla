---------------------- MODULE PointCloudGeometryProofs ----------------------
(***************************************************************************)
(* Proofs about the geometry of the point clouds: what the boxes of the    *)
(* ranks hold, how the radius of a search grows, and that a search among   *)
(* the centres that have come to a rank answers as one among all centres   *)
(* does, if these hold what the latter would find.                         *)
(***************************************************************************)
EXTENDS PointCloudGeometry, SumTheorems

-----------------------------------------------------------------------------
(***************************************************************************)
(* Powers.                                                                 *)
(***************************************************************************)
\* f gives the powers of b up to the n-th.
isPowers(f, b, n) ==
  f = [i \in 0 .. n |-> IF i = 0 THEN 1 ELSE b * f[i - 1]]

LEMMA PowersUnique ==
  ASSUME NEW b \in Nat, NEW n \in Nat, NEW m \in Nat, n <= m,
         NEW f, isPowers(f, b, n), NEW g, isPowers(g, b, m)
  PROVE  \A i \in 0 .. n : f[i] = g[i]
<1> DEFINE T == {i \in 0 .. n : f[i] # g[i]}
<1>1. SUFFICES ASSUME T # {} PROVE FALSE
  OBVIOUS
<1>2. PICK i \in T : \A j \in T : i <= j
  <2>1. T \in SUBSET Nat
    OBVIOUS
  <2> HIDE DEF T
  <2> QED
    BY <1>1, <2>1, LeastNatural
<1>3. i \in 0 .. n /\ i \in 0 .. m
  BY <1>2
<1>4. /\ f[i] = (IF i = 0 THEN 1 ELSE b * f[i - 1])
      /\ g[i] = (IF i = 0 THEN 1 ELSE b * g[i - 1])
  BY <1>3 DEF isPowers
<1>5. i # 0 => i - 1 \in 0 .. n /\ i - 1 \notin T
  BY <1>2, <1>3
<1>6. f[i] = g[i]
  BY <1>4, <1>5
<1> QED
  BY <1>2, <1>6

LEMMA PowersExist ==
  ASSUME NEW b \in Nat, NEW n \in Nat
  PROVE  \E f : isPowers(f, b, n)
<1> DEFINE T == {i \in Nat : ~ \E f : isPowers(f, b, i)}
<1>1. SUFFICES ASSUME T # {} PROVE FALSE
  OBVIOUS
<1>2. PICK i \in T : \A j \in T : i <= j
  <2>1. T \in SUBSET Nat
    OBVIOUS
  <2> HIDE DEF T
  <2> QED
    BY <1>1, <2>1, LeastNatural
<1>3. CASE i = 0
  <2> DEFINE g == [j \in 0 .. 0 |-> 1]
  <2>1. isPowers(g, b, 0)
    BY DEF isPowers
  <2> QED
    BY <1>2, <1>3, <2>1
<1>4. CASE i # 0
  <2>1. i \in Nat /\ i - 1 \in Nat /\ i - 1 \notin T
    BY <1>2, <1>4
  <2>2. PICK f : isPowers(f, b, i - 1)
    BY <2>1
  <2> DEFINE g == [j \in 0 .. i |-> IF j = i THEN b * f[i - 1] ELSE f[j]]
             h == [j \in 0 .. i |-> IF j = 0 THEN 1 ELSE b * g[j - 1]]
  <2>3. ASSUME NEW j \in 0 .. i
        PROVE  g[j] = h[j]
    <3>1. CASE j = i
      <4>1. i - 1 \in 0 .. i /\ i - 1 # i
        BY <2>1
      <4> QED
        BY <1>4, <2>1, <3>1, <4>1
    <3>2. CASE j # i
      <4>1. j \in 0 .. i - 1
        BY <2>1, <3>2
      <4>2. f[j] = (IF j = 0 THEN 1 ELSE b * f[j - 1])
        BY <2>2, <4>1 DEF isPowers
      <4>3. j # 0 => j - 1 \in 0 .. i /\ j - 1 # i
        BY <2>1, <4>1
      <4> QED
        BY <3>2, <4>2, <4>3
    <3> QED
      BY <3>1, <3>2
  <2>4. g = h
    <3> HIDE DEF g
    <3>1. g = [j \in 0 .. i |-> g[j]]
      BY DEF g
    <3> QED
      BY <2>3, <3>1
  <2>5. isPowers(g, b, i)
    BY <2>4 DEF isPowers
  <2> QED
    BY <1>2, <2>5
<1> QED
  BY <1>3, <1>4

\* The recursive definition of the powers of b is satisfied.
LEMMA PowersRecursion ==
  ASSUME NEW b \in Nat, NEW f,
         f = CHOOSE g : g = [i \in Nat |-> IF i = 0 THEN 1 ELSE b * g[i - 1]]
  PROVE  f = [i \in Nat |-> IF i = 0 THEN 1 ELSE b * f[i - 1]]
<1> DEFINE upTo(n) == CHOOSE g : isPowers(g, b, n)
           h == [n \in Nat |-> upTo(n)[n]]
           k == [i \in Nat |-> IF i = 0 THEN 1 ELSE b * h[i - 1]]
<1>1. \A n \in Nat : isPowers(upTo(n), b, n)
  BY PowersExist
<1>2. ASSUME NEW n \in Nat
      PROVE  h[n] = k[n]
  <2> DEFINE g == upTo(n)
  <2>1. isPowers(g, b, n)
    BY <1>1
  <2> HIDE DEF g
  <2>2. g[n] = (IF n = 0 THEN 1 ELSE b * g[n - 1])
    BY <2>1 DEF isPowers
  <2>3. n # 0 => g[n - 1] = upTo(n - 1)[n - 1]
    <3> SUFFICES ASSUME n # 0 PROVE g[n - 1] = upTo(n - 1)[n - 1]
      OBVIOUS
    <3> DEFINE e == upTo(n - 1)
    <3>1. n - 1 \in Nat /\ n - 1 <= n
      OBVIOUS
    <3>2. isPowers(e, b, n - 1)
      BY <1>1, <3>1
    <3> HIDE DEF e
    <3>3. n - 1 \in 0 .. n - 1
      BY <3>1
    <3>4. \A i \in 0 .. n - 1 : e[i] = g[i]
      BY <2>1, <3>1, <3>2, PowersUnique
    <3> QED
      BY <3>3, <3>4 DEF e
  <2>4. h[n] = g[n] /\ (n # 0 => h[n - 1] = upTo(n - 1)[n - 1])
    BY DEF g
  <2> QED
    BY <2>2, <2>3, <2>4
<1>3. h = k
  <2> HIDE DEF upTo
  <2>1. h = [n \in Nat |-> h[n]] /\ k = [n \in Nat |-> k[n]]
    OBVIOUS
  <2> HIDE DEF h, k
  <2> QED
    BY <1>2, <2>1
<1>4. h = [i \in Nat |-> IF i = 0 THEN 1 ELSE b * h[i - 1]]
  BY <1>3
<1> HIDE DEF h
<1> QED
  BY <1>4

\* A radius that grows does not get smaller.
LEMMA PowersGrow ==
  ASSUME NEW n \in Nat
  PROVE  /\ powersOf2[n] \in Nat /\ powersOf3[n] \in Nat
         /\ 1 <= powersOf2[n] /\ powersOf2[n] <= powersOf3[n]
         /\ powersOf2[0] = 1 /\ powersOf3[0] = 1
<1>1. /\ powersOf2 = [i \in Nat |-> IF i = 0 THEN 1 ELSE 2 * powersOf2[i - 1]]
      /\ powersOf3 = [i \in Nat |-> IF i = 0 THEN 1 ELSE 3 * powersOf3[i - 1]]
  <2>1. powersOf2 = CHOOSE g : g = [i \in Nat |-> IF i = 0 THEN 1 ELSE 2 * g[i - 1]]
    BY Zenon DEF powersOf2
  <2>2. powersOf3 = CHOOSE g : g = [i \in Nat |-> IF i = 0 THEN 1 ELSE 3 * g[i - 1]]
    BY Zenon DEF powersOf3
  <2>3. 2 \in Nat /\ 3 \in Nat
    OBVIOUS
  <2>4. powersOf2 = [i \in Nat |-> IF i = 0 THEN 1 ELSE 2 * powersOf2[i - 1]]
    BY <2>1, <2>3, PowersRecursion
  <2>5. powersOf3 = [i \in Nat |-> IF i = 0 THEN 1 ELSE 3 * powersOf3[i - 1]]
    BY <2>2, <2>3, PowersRecursion
  <2> QED
    BY <2>4, <2>5
<1> DEFINE ok(i) == /\ powersOf2[i] \in Nat /\ powersOf3[i] \in Nat
                    /\ 1 <= powersOf2[i] /\ powersOf2[i] <= powersOf3[i]
           T == {i \in Nat : ~ ok(i)}
<1>2. powersOf2[0] = 1 /\ powersOf3[0] = 1
  BY <1>1
<1>3. T = {}
  <2> SUFFICES ASSUME T # {} PROVE FALSE
    OBVIOUS
  <2>1. PICK i \in T : \A j \in T : i <= j
    <3>1. T \in SUBSET Nat
      OBVIOUS
    <3> HIDE DEF T
    <3> QED
      BY <3>1, LeastNatural
  <2>2. i # 0
    BY <1>2, <2>1
  <2>3. i \in Nat /\ i - 1 \in Nat /\ ok(i - 1)
    BY <2>1, <2>2
  <2>4. powersOf2[i] = 2 * powersOf2[i - 1] /\ powersOf3[i] = 3 * powersOf3[i - 1]
    BY <1>1, <2>2, <2>3
  <2>5. ok(i)
    BY <2>3, <2>4
  <2> QED
    BY <2>1, <2>5
<1> QED
  BY <1>2, <1>3

-----------------------------------------------------------------------------
(***************************************************************************)
(* The boxes.                                                              *)
(***************************************************************************)
LEMMA DistanceType ==
  ASSUME NEW p \in Int, NEW q \in Int
  PROVE  distance(p, q) \in Nat
  BY DEF distance

\* A box grown by a hundred and one percent of a radius holds what is in the
\* radius of a point of the box.
LEMMA ExpandedBoxHolds ==
  ASSUME NEW b \in Box, NEW x \in Int, b.lo <= x, x <= b.hi,
         NEW p \in Int, NEW w \in Int, 10 * distance(x, p) <= w
  PROVE  pointInDomain(p, expand(b, w))
<1>1. b.lo \in Int /\ b.hi \in Int
  BY DEF Box
<1>2. 10 * x - w <= 10 * p /\ 10 * p <= 10 * x + w /\ 0 <= w
  BY DEF distance
<1>3. /\ expand(b, w).lo = 1000 * b.lo - 101 * w
      /\ expand(b, w).hi = 1000 * b.hi + 101 * w
  BY <1>1 DEF expand
<1> QED
  BY <1>1, <1>2, <1>3 DEF pointInDomain

\* It holds what is between two points of the box, and around them.
LEMMA ExpandedHullHolds ==
  ASSUME NEW b \in Box, NEW x \in Int, b.lo <= x, NEW y \in Int, y <= b.hi,
         NEW p \in Int, NEW w \in Nat,
         10 * x - w <= 10 * p, 10 * p <= 10 * y + w
  PROVE  pointInDomain(p, expand(b, w))
<1>1. b.lo \in Int /\ b.hi \in Int
  BY DEF Box
<1>2. /\ expand(b, w).lo = 1000 * b.lo - 101 * w
      /\ expand(b, w).hi = 1000 * b.hi + 101 * w
  BY <1>1 DEF expand
<1> QED
  BY <1>1, <1>2 DEF pointInDomain

\* The test on boxes never keeps a centre from a rank in whose box it is.
LEMMA IntersectionMissesNothing ==
  ASSUME NEW a \in Box, NEW b \in Box, NEW x \in Int,
         a.lo <= x, x <= a.hi, pointInDomain(x, b)
  PROVE  checkForIntersection(a, b)
  BY DEF checkForIntersection, pointInDomain, Box

LEMMA ExpandType ==
  ASSUME NEW b \in Box, NEW w \in Int
  PROVE  expand(b, w) \in Box
  BY DEF expand, Box

\* How far a box may be grown: all that is in reach of the parents, and there
\* is no choice.
LEMMA ProximityTypes ==
  ASSUME NEW how \in Searches, NEW S \in SUBSET Int, NEW w \in proximities(how, S)
  PROVE  /\ w \in Nat
         /\ how \in {"radius", "ring"} => w = 10 * Radius
         /\ \A v \in proximities(how, S) : v = w
<1>1. Radius \in Nat
  BY CloudAssumption
<1>2. ASSUME how = "knn", NEW v \in extents(S), NEW u \in extents(S)
      PROVE  v \in Nat /\ v = u
  <2>1. PICK x \in S \X S : v = x[2] - x[1] /\ \A p \in S : x[1] <= p /\ p <= x[2]
    BY DEF extents
  <2>2. PICK y \in S \X S : u = y[2] - y[1] /\ \A p \in S : y[1] <= p /\ p <= y[2]
    BY DEF extents
  <2>3. x[1] \in S /\ x[2] \in S /\ y[1] \in S /\ y[2] \in S
    OBVIOUS
  <2>4. /\ x[1] <= y[1] /\ y[1] <= x[1] /\ x[2] <= y[2] /\ y[2] <= x[2]
        /\ x[1] \in Int /\ x[2] \in Int /\ y[1] \in Int /\ y[2] \in Int
        /\ x[1] <= x[2]
    BY <2>1, <2>2, <2>3
  <2>5. x[1] = y[1] /\ x[2] = y[2]
    BY <2>4
  <2> QED
    BY <2>1, <2>2, <2>4, <2>5
<1> QED
  BY <1>1, <1>2 DEF Searches, proximities

-----------------------------------------------------------------------------
(***************************************************************************)
(* The answers of a search and the array of children.                      *)
(***************************************************************************)
\* A search answers with centres of the cloud it looks at.
LEMMA PairingsAreCenters ==
  ASSUME NEW D, NEW C \in [D -> Int], NEW p \in Int, NEW how \in Searches,
         NEW S \in pairings(how, C, p)
  PROVE  S \in SUBSET D
<1>1. DOMAIN C = D
  OBVIOUS
<1>2. \A w, i : within(C, p, w, i) \in SUBSET D
  BY <1>1 DEF within
<1>3. \A w : \A Z \in radiusSearch(C, p, w) : Z \in SUBSET D
  BY <1>2 DEF radiusSearch
<1>4. \A k : \A Z \in nnSearch(C, p, k) : Z \in SUBSET D
  BY <1>1 DEF nnSearch
<1>5. CASE how = "radius"
  BY <1>3, <1>5 DEF pairings
<1>6. CASE how = "knn"
  BY <1>4, <1>6 DEF pairings
<1>7. CASE how = "node"
  BY <1>4, <1>7 DEF pairings
<1>8. CASE how = "ring"
  BY <1>3, <1>8 DEF pairings
<1> QED
  BY <1>5, <1>6, <1>7, <1>8 DEF Searches

\* A search by number finds no more than were asked for.
LEMMA KnnAnswer ==
  ASSUME NEW D, IsFiniteSet(D), NEW C \in [D -> Int], NEW p \in Int,
         NEW S \in pairings("knn", C, p)
  PROVE  NumNeighbors - Cardinality(S) \in Nat
<1>1. Cardinality(D) \in Nat /\ NumNeighbors \in Nat /\ DOMAIN C = D
  BY FS_CardinalityType, CloudAssumption
<1>2. Cardinality(S) = IF Cardinality(D) < NumNeighbors
                       THEN Cardinality(D) ELSE NumNeighbors
  BY <1>1 DEF pairings, nnSearch
<1> QED
  BY <1>1, <1>2

\* The array of children of a target holds centres that arrived, and holds one
\* if the search answers with any.
LEMMA StencilType ==
  ASSUME NEW D, IsFiniteSet(D), NEW C \in [D -> Int], NEW p \in Int,
         NEW how \in Searches, {} \notin pairings(how, C, p),
         NEW stencil \in stencils(how, C, p)
  PROVE  stencil \in Seq(D) /\ Len(stencil) \in Nat \ {0}
<1>1. PICK S \in pairings(how, C, p) : stencil \in childCenterIds(how, C, p, S)
  BY DEF stencils
<1>2. S \in SUBSET D /\ S # {}
  BY <1>1, PairingsAreCenters
<1>3. IsFiniteSet(S) /\ Cardinality(S) \in Nat /\ Cardinality(S) # 0
  BY <1>2, FS_Subset, FS_CardinalityType, FS_EmptySet
<1>4. PICK q \in sortedCenters(C, p, S), first \in D :
        stencil = filledUp(q, unfilled(how, S), first)
  BY <1>1 DEF childCenterIds
<1> DEFINE n == unfilled(how, S)
<1>5. n \in Nat
  BY <1>1, KnnAnswer DEF unfilled
<1>6. q \in Seq(D) /\ Len(q) = Cardinality(S)
  <2>1. q \in [1 .. Cardinality(S) -> S]
    BY DEF sortedCenters
  <2> QED
    BY <1>2, <1>3, <2>1
<1> HIDE DEF n
<1>7. [i \in 1 .. n |-> first] \in Seq(D) /\ Len([i \in 1 .. n |-> first]) = n
  BY <1>5
<1>8. stencil = q \o [i \in 1 .. n |-> first]
  BY <1>4 DEF filledUp, n
<1> QED
  BY <1>3, <1>5, <1>6, <1>7, <1>8

\* A local problem uses the first of the children, and at least one.
LEMMA UsedChildren ==
  ASSUME NEW D, NEW stencil \in Seq(D), Len(stencil) \in Nat \ {0}
  PROVE  LET n == num_sources(Len(stencil))
         IN  /\ n \in Nat \ {0} /\ n <= Len(stencil)
             /\ stencil[n] \in D /\ stencil[1] \in firstOf(stencil, n)
             /\ firstOf(stencil, n) \in SUBSET D
<1> DEFINE n == num_sources(Len(stencil))
<1>1. n \in Nat \ {0} /\ n <= Len(stencil)
  BY CloudAssumption DEF num_sources
<1> HIDE DEF n
<1>2. \A i \in 1 .. n : stencil[i] \in D
  BY <1>1
<1> QED
  BY <1>1, <1>2 DEF firstOf, n

-----------------------------------------------------------------------------
(***************************************************************************)
(* A search among some of the centres, and one among all.                  *)
(***************************************************************************)
\* No radius that is tried is smaller than the first one.
LEMMA InnerCentres ==
  ASSUME NEW D, NEW C \in [D -> Int], NEW p \in Int, NEW w \in Int, NEW i \in Nat,
         NEW s \in D, 10 * distance(p, C[s]) < w
  PROVE  s \in within(C, p, w, i)
<1> DEFINE d == distance(p, C[s])
           a == 10 * d
           two == powersOf2[i]
           three == powersOf3[i]
<1>0. d \in Nat /\ a < w
  BY DistanceType
<1> HIDE DEF d
<1>1. a \in Nat /\ w \in Nat /\ a + 1 <= w
  BY <1>0
<1>2. two \in Nat /\ three \in Nat /\ 1 <= two /\ two <= three
  BY PowersGrow
<1>3. d * 10 * two = a * two
  BY <1>0
<1> HIDE DEF a, two, three
<1>4. (a + 1) * two <= w * two
  BY <1>1, <1>2, ScaleMonotone
<1>5. two * w <= three * w
  BY <1>1, <1>2, ScaleMonotone
<1>6. (a + 1) * two = a * two + two /\ two * w = w * two /\ three * w = w * three
  BY <1>1, <1>2
<1>7. a * two \in Int /\ w * two \in Int /\ w * three \in Int
  BY <1>1, <1>2
<1>8. a * two < w * three
  BY <1>2, <1>4, <1>5, <1>6, <1>7
<1> QED
  BY <1>3, <1>8 DEF within, d, two, three

\* Only one radius is the last.
LEMMA LastTriedUnique ==
  ASSUME NEW C, NEW p, NEW w, NEW i \in 0 .. Guard - 1, NEW j \in 0 .. Guard - 1,
         lastTried(C, p, w, i), lastTried(C, p, w, j)
  PROVE  i = j
<1>1. Guard \in Nat \ {0}
  BY CloudAssumption
<1>2. ~ i < j
  <2> SUFFICES ASSUME i < j PROVE FALSE
    OBVIOUS
  <2>1. i \in 0 .. j - 1 /\ i # Guard - 1
    BY <1>1
  <2> QED
    BY <2>1 DEF lastTried
<1>3. ~ j < i
  <2> SUFFICES ASSUME j < i PROVE FALSE
    OBVIOUS
  <2>1. j \in 0 .. i - 1 /\ j # Guard - 1
    BY <1>1
  <2> QED
    BY <2>1 DEF lastTried
<1> QED
  BY <1>1, <1>2, <1>3

\* If all that a search by radius would find is there, it is found.
LEMMA RadiusOnRank ==
  ASSUME NEW D, IsFiniteSet(D), NEW C \in [D -> Int], NEW A \in SUBSET D,
         NEW p \in Int, NEW w \in Int,
         NEW S \in radiusSearch(C, p, w), S \subseteq A,
         NEW Z \in radiusSearch(restricted(C, A), p, w)
  PROVE  Z = S
<1> DEFINE B == restricted(C, A)
<1>1. DOMAIN C = D /\ DOMAIN B = A /\ \A s \in A : B[s] = C[s]
  BY DEF restricted
<1> HIDE DEF B
<1>2. \A j \in Nat : /\ within(B, p, w, j) \subseteq within(C, p, w, j)
                     /\ within(C, p, w, j) \cap A \subseteq within(B, p, w, j)
                     /\ within(C, p, w, j) \in SUBSET D
  BY <1>1 DEF within
<1>3. \A j \in Nat : /\ IsFiniteSet(within(C, p, w, j))
                     /\ Cardinality(within(C, p, w, j)) \in Nat
                     /\ Cardinality(within(B, p, w, j)) \in Nat
                     /\ Cardinality(within(B, p, w, j))
                          <= Cardinality(within(C, p, w, j))
  BY <1>2, FS_Subset, FS_CardinalityType
<1>4. \A j \in Nat : enoughWithin(B, p, w, j) => enoughWithin(C, p, w, j)
  BY <1>3, CloudAssumption DEF enoughWithin
<1>5. PICK i \in 0 .. Guard - 1 : lastTried(C, p, w, i) /\ S = within(C, p, w, i)
  BY DEF radiusSearch
<1>6. PICK j \in 0 .. Guard - 1 : lastTried(B, p, w, j) /\ Z = within(B, p, w, j)
  BY DEF radiusSearch, B
<1>7. i \in Nat /\ j \in Nat
  BY CloudAssumption
<1>8. within(B, p, w, i) = S
  BY <1>2, <1>5, <1>7
<1>9. enoughWithin(C, p, w, i) => enoughWithin(B, p, w, i)
  BY <1>5, <1>8 DEF enoughWithin
<1>10. lastTried(B, p, w, i)
  <2>1. \A k \in 0 .. i - 1 : k \in Nat
    OBVIOUS
  <2> QED
    BY <1>4, <1>5, <1>9, <2>1 DEF lastTried
<1>11. i = j
  BY <1>6, <1>10, LastTriedUnique
<1> QED
  BY <1>6, <1>8, <1>11

\* No centre of A is nearer to p than those of S.
areNearest(C, p, A, S) ==
  \A s \in S, e \in A \ S : distance(p, C[s]) <= distance(p, C[e])

\* How the distances of two sets of nearest centres compare.
LEMMA NearestCompared ==
  ASSUME NEW D, NEW C \in [D -> Int], NEW p \in Int, NEW A \in SUBSET D,
         NEW S \in SUBSET A, IsFiniteSet(S), NEW Z \in SUBSET A,
         Cardinality(S) = Cardinality(Z),
         areNearest(C, p, A, S), NEW s \in S
  PROVE  \E z \in Z : distance(p, C[s]) <= distance(p, C[z])
<1>1. CASE s \in Z
  <2>1. distance(p, C[s]) <= distance(p, C[s])
    BY DistanceType
  <2> QED
    BY <1>1, <2>1
<1>2. CASE s \notin Z
  <2>1. \E z \in Z : z \notin S
    <3> SUFFICES ASSUME Z \subseteq S PROVE FALSE
      OBVIOUS
    <3> QED
      BY <1>2, FS_Subset
  <2> QED
    BY <1>2, <2>1 DEF areNearest
<1> QED
  BY <1>1, <1>2

\* If all that a search by number would find is there, the same number is found
\* as near.
LEMMA NearestOnRank ==
  ASSUME NEW D, IsFiniteSet(D), NEW C \in [D -> Int], NEW A \in SUBSET D,
         NEW p \in Int, NEW k \in Nat,
         NEW S \in nnSearch(C, p, k), S \subseteq A,
         NEW Z \in nnSearch(restricted(C, A), p, k)
  PROVE  /\ Z \in nnSearch(C, p, k) /\ Z \subseteq A
         /\ \A s \in S : \E z \in Z : distance(p, C[s]) <= distance(p, C[z])
         /\ \A z \in Z : \E s \in S : distance(p, C[z]) <= distance(p, C[s])
<1> DEFINE B == restricted(C, A)
           size(T) == IF Cardinality(T) < k THEN Cardinality(T) ELSE k
<1>1. DOMAIN C = D /\ DOMAIN B = A /\ \A s \in A : B[s] = C[s]
  BY DEF restricted
<1> HIDE DEF B
<1>2. /\ S \in SUBSET D /\ Cardinality(S) = size(D)
      /\ \A s \in S, e \in D \ S : distance(p, C[s]) <= distance(p, C[e])
  BY <1>1 DEF nnSearch
<1>3. /\ Z \in SUBSET A /\ Cardinality(Z) = size(A)
      /\ \A z \in Z, e \in A \ Z : distance(p, C[z]) <= distance(p, C[e])
  <2>1. Z \in nnSearch(B, p, k)
    BY DEF B
  <2> QED
    BY <1>1, <2>1 DEF nnSearch
<1>4. /\ IsFiniteSet(A) /\ IsFiniteSet(S) /\ IsFiniteSet(Z)
      /\ Cardinality(S) <= Cardinality(A) /\ Cardinality(A) <= Cardinality(D)
      /\ Cardinality(A) \in Nat /\ Cardinality(D) \in Nat
  BY <1>2, <1>3, FS_Subset, FS_CardinalityType
<1>5. Cardinality(Z) = Cardinality(S)
  BY <1>2, <1>3, <1>4
<1>6. ASSUME NEW s \in S
      PROVE  \E z \in Z : distance(p, C[s]) <= distance(p, C[z])
  <2>1. S \in SUBSET A /\ areNearest(C, p, A, S)
    BY <1>2 DEF areNearest
  <2> QED
    BY <1>3, <1>4, <1>5, <2>1, NearestCompared
<1>7. ASSUME NEW z \in Z
      PROVE  \E s \in S : distance(p, C[z]) <= distance(p, C[s])
  <2>1. S \in SUBSET A /\ areNearest(C, p, A, Z)
    BY <1>3 DEF areNearest
  <2> QED
    BY <1>3, <1>4, <1>5, <2>1, NearestCompared
<1>8. ASSUME NEW z \in Z, NEW e \in D \ Z
      PROVE  distance(p, C[z]) <= distance(p, C[e])
  <2>1. CASE e \in A
    BY <1>3, <2>1
  <2>2. CASE e \notin A
    <3>1. PICK s \in S : distance(p, C[z]) <= distance(p, C[s])
      BY <1>7
    <3>2. distance(p, C[s]) <= distance(p, C[e])
      BY <1>2, <2>2
    <3>3. s \in D /\ z \in D /\ C[s] \in Int /\ C[z] \in Int /\ C[e] \in Int
      BY <1>2, <1>3
    <3>4. /\ distance(p, C[z]) \in Nat /\ distance(p, C[s]) \in Nat
          /\ distance(p, C[e]) \in Nat
      BY <3>3, DistanceType
    <3> QED
      BY <3>1, <3>2, <3>4
  <2> QED
    BY <2>1, <2>2
<1>9. Z \in nnSearch(C, p, k)
  BY <1>1, <1>2, <1>3, <1>5, <1>8 DEF nnSearch
<1> QED
  BY <1>3, <1>6, <1>7, <1>9

\* If all that a ring would hold is there, the ring is the same.
LEMMA RingOnRank ==
  ASSUME NEW D, IsFiniteSet(D), NEW C \in [D -> Int], NEW A \in SUBSET D,
         NEW p \in Int, \A s \in D : C[s] = p => s \in A,
         NEW S \in pairings("ring", C, p), S \subseteq A,
         NEW Z \in pairings("ring", restricted(C, A), p)
  PROVE  Z = S /\ S \in pairings("ring", C, p)
<1> DEFINE B == restricted(C, A)
           far(E, N) == {s \in N : \A e \in N : distance(p, E[e]) <= distance(p, E[s])}
<1>1. DOMAIN C = D /\ DOMAIN B = A /\ \A s \in A : B[s] = C[s]
  BY DEF restricted
<1>2. PICK N, s :
        /\ N \in nnSearch(C, p, RingPoints) /\ s \in far(C, N)
        /\ S \in radiusSearch(C, p, 51 * distance(p, C[s]))
  BY DEF pairings, ringEnds
<1>3. PICK M, z :
        /\ M \in nnSearch(B, p, RingPoints) /\ z \in far(B, M)
        /\ Z \in radiusSearch(B, p, 51 * distance(p, B[z]))
  BY DEF pairings, ringEnds
<1> HIDE DEF B
<1>4. N \in SUBSET D /\ M \in SUBSET A
  BY <1>1, <1>2, <1>3 DEF nnSearch
<1>5. s \in N /\ s \in D /\ \A e \in N : distance(p, C[e]) <= distance(p, C[s])
  BY <1>2, <1>4
<1>6. /\ z \in M /\ z \in A /\ B[z] = C[z]
      /\ \A e \in M : distance(p, C[e]) <= distance(p, C[z])
  BY <1>1, <1>3, <1>4
<1> DEFINE d == distance(p, C[s])
<1>7. d \in Nat
  BY <1>5, DistanceType
<1>8. ASSUME NEW e \in N
      PROVE  e \in A
  <2> DEFINE c == distance(p, C[e])
  <2>1. e \in D /\ C[e] \in Int /\ c \in Nat /\ c <= d
    BY <1>4, <1>5, DistanceType
  <2>2. CASE d = 0
    <3>1. C[e] = p
      BY <2>1, <2>2 DEF distance
    <3> QED
      BY <2>1, <3>1
  <2>3. CASE d # 0
    <3> HIDE DEF c, d
    <3>1. 10 * c < 51 * d /\ 51 * d \in Int
      BY <1>7, <2>1, <2>3
    <3>2. PICK i \in 0 .. Guard - 1 : S = within(C, p, 51 * d, i)
      BY <1>2 DEF radiusSearch, d
    <3>3. i \in Nat
      BY CloudAssumption
    <3>4. e \in within(C, p, 51 * d, i)
      BY <2>1, <3>1, <3>3, InnerCentres DEF c
    <3> QED
      BY <3>2, <3>4
  <2> QED
    BY <2>2, <2>3
<1>9. RingPoints \in Nat
  BY CloudAssumption
<1>10. /\ \A e \in N : \E f \in M : distance(p, C[e]) <= distance(p, C[f])
       /\ \A f \in M : \E e \in N : distance(p, C[f]) <= distance(p, C[e])
  <2>1. N \subseteq A /\ M \in nnSearch(restricted(C, A), p, RingPoints)
    BY <1>3, <1>8 DEF B
  <2> QED
    BY <1>2, <1>9, <2>1, NearestOnRank
<1>11. d = distance(p, B[z])
  <2>1. PICK f \in M : d <= distance(p, C[f])
    BY <1>5, <1>10
  <2>2. PICK e \in N : distance(p, C[z]) <= distance(p, C[e])
    BY <1>6, <1>10
  <2>3. distance(p, C[f]) <= distance(p, C[z]) /\ distance(p, C[e]) <= d
    BY <1>5, <1>6
  <2>4. /\ C[f] \in Int /\ C[e] \in Int /\ C[z] \in Int
    BY <1>4, <1>6
  <2>5. /\ distance(p, C[f]) \in Nat /\ distance(p, C[e]) \in Nat
        /\ distance(p, C[z]) \in Nat
    BY <2>4, DistanceType
  <2> HIDE DEF d
  <2> QED
    BY <1>6, <1>7, <2>1, <2>2, <2>3, <2>5
<1> HIDE DEF d
<1>12. /\ S \in radiusSearch(C, p, 51 * d)
       /\ Z \in radiusSearch(restricted(C, A), p, 51 * d)
       /\ 51 * d \in Int
  <2>1. S \in radiusSearch(C, p, 51 * d)
    BY <1>2 DEF d
  <2>2. Z \in radiusSearch(restricted(C, A), p, 51 * d)
    BY <1>3, <1>11 DEF B
  <2> QED
    BY <1>7, <2>1, <2>2
<1> QED
  BY <1>12, RadiusOnRank

\* If all that a search would find is there, what it finds is what it would.
LEMMA PairingOnRank ==
  ASSUME NEW D, IsFiniteSet(D), NEW C \in [D -> Int], NEW A \in SUBSET D,
         NEW p \in Int, NEW how \in Searches,
         how = "ring" => \A s \in D : C[s] = p => s \in A,
         NEW S \in pairings(how, C, p), S \subseteq A,
         NEW Z \in pairings(how, restricted(C, A), p)
  PROVE  Z \in pairings(how, C, p)
<1>1. CASE how = "radius"
  <2>1. /\ S \in radiusSearch(C, p, 10 * Radius)
        /\ Z \in radiusSearch(restricted(C, A), p, 10 * Radius)
    BY <1>1 DEF pairings
  <2>2. 10 * Radius \in Int
    BY CloudAssumption
  <2>3. Z = S
    BY <2>1, <2>2, RadiusOnRank
  <2> QED
    BY <2>3
<1>2. CASE how = "knn"
  <2>1. /\ S \in nnSearch(C, p, NumNeighbors)
        /\ Z \in nnSearch(restricted(C, A), p, NumNeighbors)
    BY <1>2 DEF pairings
  <2>2. Z \in nnSearch(C, p, NumNeighbors)
    BY <2>1, NearestOnRank, CloudAssumption
  <2> QED
    BY <1>2, <2>2 DEF pairings
<1>3. CASE how = "node"
  <2>1. S \in nnSearch(C, p, 1) /\ Z \in nnSearch(restricted(C, A), p, 1)
    BY <1>3 DEF pairings
  <2>2. Z \in nnSearch(C, p, 1)
    BY <2>1, NearestOnRank
  <2> QED
    BY <1>3, <2>2 DEF pairings
<1>4. CASE how = "ring"
  BY <1>4, RingOnRank
<1> QED
  BY <1>1, <1>2, <1>3, <1>4 DEF Searches

\* The children of a parent are what a search has found, each once unless fewer
\* centres have arrived than a search by number asks for.
LEMMA ChildrenAreFound ==
  ASSUME NEW D, IsFiniteSet(D), NEW C \in [D -> Int], NEW p \in Int,
         NEW how \in Searches, NEW stencil \in stencils(how, C, p)
  PROVE  \E S \in pairings(how, C, p) :
           /\ S \in SUBSET D
           /\ Range(stencil) = S
           /\ (how = "knn" => NumNeighbors <= Cardinality(D))
                => stencil \in Bijection(1 .. Cardinality(S), S)
<1>1. PICK S \in pairings(how, C, p) : stencil \in childCenterIds(how, C, p, S)
  BY DEF stencils
<1>2. DOMAIN C = D /\ S \in SUBSET D
  BY PairingsAreCenters
<1> DEFINE n == Cardinality(S)
           m == unfilled(how, S)
<1>3. IsFiniteSet(S) /\ n \in Nat /\ Cardinality(D) \in Nat
  BY <1>2, FS_Subset, FS_CardinalityType
<1>4. PICK q \in sortedCenters(C, p, S), first \in D :
        stencil = filledUp(q, m, first)
  BY <1>1, <1>2 DEF childCenterIds
<1>5. m \in Nat
  BY <1>1, KnnAnswer DEF unfilled
<1> HIDE DEF n, m
<1>6. q \in Bijection(1 .. n, S)
  <2>1. q \in [1 .. n -> S]
    BY DEF sortedCenters, n
  <2>2. ASSUME NEW i \in 1 .. n, NEW j \in 1 .. n, q[i] = q[j]
        PROVE  i = j
    <3>1. DOMAIN q = 1 .. n
      BY <2>1
    <3>2. \A k, l \in 1 .. n : k < l => q[k] # q[l]
      BY <3>1 DEF sortedCenters
    <3> QED
      BY <1>3, <2>2, <3>2
  <2>3. q \in Injection(1 .. n, S)
    BY <2>1, <2>2 DEF Injection, IsInjective
  <2>4. Cardinality(1 .. n) = n
    BY <1>3, FS_Interval
  <2>5. q \in Surjection(1 .. n, S)
    BY <1>3, <2>3, <2>4, FS_Injection DEF n
  <2> QED
    BY <2>3, <2>5 DEF Bijection
<1>7. /\ q \in Seq(D) /\ Len(q) = n /\ DOMAIN q = 1 .. n
      /\ \A i \in 1 .. n : q[i] \in S
      /\ \A s \in S : \E i \in 1 .. n : q[i] = s
  <2>1. q \in [1 .. n -> S] /\ \A s \in S : \E i \in 1 .. n : q[i] = s
    BY <1>6 DEF Bijection, Injection, Surjection
  <2> QED
    BY <1>2, <1>3, <2>1
<1> DEFINE fill == [i \in 1 .. m |-> first]
<1>8. /\ fill \in Seq(D) /\ Len(fill) = m
      /\ stencil = q \o fill
  BY <1>4, <1>5 DEF filledUp
<1> HIDE DEF fill
<1>9. /\ stencil \in Seq(D) /\ Len(stencil) = n + m
      /\ \A i \in 1 .. n : stencil[i] = q[i]
  <2>1. Len(q) \in Nat /\ Len(fill) \in Nat
    BY <1>3, <1>5, <1>7, <1>8
  <2>2. /\ q \o fill \in Seq(D) /\ Len(q \o fill) = Len(q) + Len(fill)
        /\ \A i \in 1 .. Len(q) : (q \o fill)[i] = q[i]
    <3> HIDE DEF n, m, fill
    <3>1. q \in Seq(D) /\ fill \in Seq(D)
      BY <1>7, <1>8
    <3> QED
      BY ONLY <2>1, <3>1
  <2> QED
    BY <1>7, <1>8, <2>2
<1>10. CASE m = 0
  <2>1. stencil = q
    <3>1. stencil = [i \in 1 .. n |-> stencil[i]] /\ q = [i \in 1 .. n |-> q[i]]
      BY <1>3, <1>7, <1>9, <1>10
    <3> QED
      BY <1>9, <3>1
  <2>2. Range(stencil) = S
    BY <1>7, <2>1 DEF Range
  <2>3. stencil \in Bijection(1 .. Cardinality(S), S)
    BY <1>6, <2>1 DEF n
  <2> QED
    BY <1>2, <2>2, <2>3
<1>11. CASE m # 0
  <2>1. how = "knn" /\ m = NumNeighbors - n
    BY <1>11 DEF unfilled, m, n
  <2>2. n < NumNeighbors
    BY <1>3, <1>5, <1>11, <2>1, CloudAssumption
  <2>3. n = Cardinality(D)
    BY <1>1, <1>2, <1>3, <2>1, <2>2, CloudAssumption DEF pairings, nnSearch, n
  <2>4. S = D
    BY <1>2, <2>3, FS_Subset DEF n
  <2>5. 1 .. n \subseteq DOMAIN stencil /\ \A i \in DOMAIN stencil : stencil[i] \in D
    BY <1>3, <1>5, <1>9
  <2>6. Range(stencil) = S
    <3>1. ASSUME NEW s \in S
          PROVE  \E i \in DOMAIN stencil : stencil[i] = s
      <4>1. PICK i \in 1 .. n : q[i] = s
        BY <1>7
      <4> QED
        BY <1>9, <2>5, <4>1
    <3> QED
      BY <2>4, <2>5, <3>1 DEF Range
  <2> QED
    BY <1>2, <1>3, <2>1, <2>2, <2>3, <2>6, CloudAssumption
<1> QED
  BY <1>10, <1>11
=============================================================================
