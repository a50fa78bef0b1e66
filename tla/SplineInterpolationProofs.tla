---------------------- MODULE SplineInterpolationProofs ----------------------
(***************************************************************************)
(* Proofs about the spline interpolation operator, for any ranks, clouds,  *)
(* decomposition and basis with compact support: applied by ranks that are *)
(* apart, C and B are the matrices of all the source centres.              *)
(***************************************************************************)
EXTENDS SplineInterpolation, PointCloudGeometryProofs

-----------------------------------------------------------------------------
(***************************************************************************)
(* The order of the unknowns.                                              *)
(***************************************************************************)
\* A finite set of integers is enumerated by its order.
LEMMA OrderedPlaces ==
  ASSUME NEW S \in SUBSET Int, IsFiniteSet(S)
  PROVE  ordered(S) \in Bijection(1 .. Cardinality(S), S)
<1> DEFINE n == Cardinality(S)
           below(x) == {y \in S : y < x}
           rank(x) == Cardinality(below(x))
           N == 1 .. n
           f == [x \in S |-> rank(x) + 1]
<1>1. n \in Nat
  BY FS_CardinalityType
<1>2. ASSUME NEW x \in S
      PROVE  IsFiniteSet(below(x)) /\ rank(x) \in Nat /\ rank(x) + 1 \in N
  <2>1. below(x) \in SUBSET S /\ x \notin below(x)
    OBVIOUS
  <2> HIDE DEF below
  <2>2. /\ IsFiniteSet(below(x)) /\ Cardinality(below(x)) <= n
        /\ Cardinality(below(x)) # n
    BY <2>1, FS_Subset
  <2>3. Cardinality(below(x)) \in Nat
    BY <2>2, FS_CardinalityType
  <2> QED
    BY <1>1, <2>2, <2>3
<1>3. ASSUME NEW x \in S, NEW z \in S, x < z
      PROVE  rank(x) # rank(z)
  <2>0. \A y \in S : y \in Int
    OBVIOUS
  <2>1. ASSUME NEW y \in S, y < x PROVE y < z
    <3>1. x \in Int /\ y \in Int /\ z \in Int
      BY <2>0
    <3> QED
      BY <1>3, <2>1, <3>1
  <2>3. below(x) \in SUBSET below(z)
    BY <2>1
  <2>4. x \in below(z) /\ x \notin below(x)
    <3>1. x \in Int
      BY <2>0
    <3>2. ~ (x < x)
      BY <3>1
    <3> QED
      BY <1>3, <3>2
  <2>2. IsFiniteSet(below(z))
    BY <1>2
  <2> HIDE DEF below
  <2> QED
    BY <2>2, <2>3, <2>4, FS_Subset
<1>4. \A x, z \in S : rank(x) = rank(z) => x = z
  BY <1>3
<1>0. \A x \in S : rank(x) \in Nat /\ rank(x) + 1 \in N
  BY <1>2
<1> HIDE DEF rank, below
<1>5. f \in Injection(S, N)
  <2>1. f \in [S -> N]
    BY <1>0
  <2>2. \A x, z \in S : f[x] = f[z] => x = z
    BY <1>0, <1>4
  <2> QED
    BY <2>1, <2>2 DEF Injection, IsInjective
<1>6. IsFiniteSet(N) /\ Cardinality(N) = n
  <2> HIDE DEF n
  <2> QED
    BY <1>1, FS_Interval
<1>7. f \in Surjection(S, N)
  <2> HIDE DEF f, N
  <2> QED
    BY <1>5, <1>6, FS_Injection
<1>8. \A i \in N : \E x \in S : rank(x) = i - 1
  <2>1. \A i \in N : \E x \in S : f[x] = i
    <3> HIDE DEF f, N
    <3> QED
      BY <1>7 DEF Surjection
  <2> QED
    BY <1>0, <1>1, <2>1
<1> DEFINE q == ordered(S)
<1>9. q = [i \in N |-> CHOOSE x \in S : rank(x) = i - 1]
  BY DEF ordered, rank, below
<1>10. \A i \in N : q[i] \in S /\ rank(q[i]) = i - 1
  BY <1>8, <1>9
<1> HIDE DEF q
<1>11. q \in [N -> S]
  BY <1>9, <1>10
<1>12. \A i, j \in N : q[i] = q[j] => i = j
  BY <1>1, <1>10
<1>13. \A x \in S : \E i \in N : q[i] = x
  <2> SUFFICES ASSUME NEW x \in S
               PROVE  q[rank(x) + 1] = x
    BY <1>0
  <2>1. rank(q[rank(x) + 1]) = rank(x) /\ q[rank(x) + 1] \in S
    BY <1>0, <1>10
  <2> QED
    BY <1>4, <2>1
<1>14. q \in Bijection(N, S)
  BY <1>11, <1>12, <1>13 DEF Bijection, Injection, Surjection, IsInjective
<1> QED
  BY <1>14 DEF q

\* A program is of finitely many centres at integer coordinates.
AppOK ==
  /\ app \in Applications
  /\ search \in {"radius", "knn"}
  /\ source \in [Sources -> Int] /\ app.SourceOwner \in [Sources -> Ranks]
  /\ target \in [Targets -> Int] /\ app.TargetOwner \in [Targets -> Ranks]
  /\ app.operators \in Seq(Operators)

\* The unknowns of a rank: the polynomial's on rank 0, then those of its sources,
\* in the order of their ids.
isUnknowns(q, c) ==
  /\ c \in Nat
  /\ DOMAIN prolongated(q) = 1 .. offset(q) + c
  /\ \A i \in 1 .. offset(q) : prolongated(q)[i] \notin Sources
  /\ \A i \in 1 .. c : prolongated(q)[offset(q) + i] = ordered(localSources(q))[i]
  /\ ordered(localSources(q)) \in Bijection(1 .. c, localSources(q))

LEMMA UnknownsOfRank ==
  ASSUME NEW q \in Ranks
  PROVE  isUnknowns(q, Cardinality(localSources(q)))
<1> DEFINE L == ordered(localSources(q))
           c == Cardinality(localSources(q))
           m == Max({-1} \cup Sources)
<1>1. localSources(q) \in SUBSET Int /\ IsFiniteSet(localSources(q))
  <2>1. localSources(q) \in SUBSET Sources
    BY DEF localSources
  <2>2. \A s \in Sources : s \in Int
    BY CentersAssumption
  <2> QED
    BY <2>1, <2>2, CentersAssumption, FS_Subset
<1>2. L \in Bijection(1 .. c, localSources(q)) /\ c \in Nat
  BY <1>1, OrderedPlaces, FS_CardinalityType
<1>3. m \in Int /\ \A s \in Sources : s <= m
  <2>1. {-1} \cup Sources \in SUBSET Int /\ {-1} \cup Sources # {}
    BY CentersAssumption
  <2>2. IsFiniteSet({-1} \cup Sources)
    BY CentersAssumption, FS_Singleton, FS_Union
  <2> HIDE DEF m
  <2>3. m \in {-1} \cup Sources /\ \A y \in {-1} \cup Sources : y <= m
    BY <2>1, <2>2, GreatestElement DEF m
  <2> QED
    BY <2>1, <2>3
<1>4. \A i \in 1 .. 2 : polynomialIds[i] \in Int /\ polynomialIds[i] \notin Sources
  <2> HIDE DEF m
  <2>1. polynomialIds = [p \in 1 .. 2 |-> m + p]
    BY DEF polynomialIds, polynomials, m
  <2> QED
    BY <1>3, <2>1, CentersAssumption
<1>5. offset(q) \in {0, 2}
  BY DEF offset, polynomials
<1> DEFINE A == SubSeq(polynomialIds, 1, offset(q))
<1>6. /\ A \in Seq(Int) /\ Len(A) = offset(q)
      /\ \A i \in 1 .. offset(q) : A[i] = polynomialIds[i]
  <2>1. \A i \in 1 .. offset(q) : polynomialIds[i] \in Int
    BY <1>4, <1>5
  <2> QED
    BY <1>5, <2>1
<1>7. L \in Seq(Int) /\ Len(L) = c
  <2>1. L \in [1 .. c -> Int]
    BY <1>1, <1>2 DEF Bijection, Injection
  <2> QED
    BY <1>2, <2>1
<1>8. prolongated(q) = A \o L
  BY DEF prolongated
<1> HIDE DEF A, L, c
<1>9. /\ Len(A \o L) = offset(q) + c /\ A \o L \in Seq(Int)
      /\ \A i \in 1 .. offset(q) : (A \o L)[i] = A[i]
      /\ \A i \in 1 .. c : (A \o L)[offset(q) + i] = L[i]
  <2>1. Len(A) = offset(q) /\ Len(L) = c /\ offset(q) \in Nat /\ c \in Nat
    BY <1>2, <1>5, <1>6, <1>7
  <2>2. A \in Seq(Int) /\ L \in Seq(Int)
    BY <1>6, <1>7
  <2>3. /\ Len(A \o L) = Len(A) + Len(L) /\ A \o L \in Seq(Int)
        /\ \A i \in 1 .. Len(A) : (A \o L)[i] = A[i]
        /\ \A i \in 1 .. Len(L) : (A \o L)[Len(A) + i] = L[i]
    BY ONLY <2>2
  <2> QED
    BY <2>1, <2>3
<1>10. /\ DOMAIN prolongated(q) = 1 .. offset(q) + c
       /\ \A i \in 1 .. offset(q) : prolongated(q)[i] \notin Sources
       /\ \A i \in 1 .. c : prolongated(q)[offset(q) + i] = L[i]
  <2>1. \A i \in 1 .. offset(q) : i \in 1 .. 2
    BY <1>5
  <2>2. \A i \in 1 .. offset(q) : prolongated(q)[i] \notin Sources
    BY <1>4, <1>6, <1>8, <1>9, <2>1
  <2>3. DOMAIN prolongated(q) = 1 .. offset(q) + c
    <3>1. DOMAIN (A \o L) = 1 .. Len(A \o L)
      BY <1>9
    <3> QED
      BY <1>8, <1>9, <3>1
  <2> QED
    BY <1>8, <1>9, <2>2, <2>3
<1> QED
  BY <1>2, <1>10 DEF isUnknowns, L, c

\* Where the unknown of a source is: in one place of the vector of its rank.
LEMMA PositionOf ==
  ASSUME AppOK, NEW s \in Sources, NEW q \in Ranks, q = app.SourceOwner[s]
  PROVE  /\ position(s) \in offset(q) + 1 .. offset(q) + Cardinality(localSources(q))
         /\ position(s) \in DOMAIN prolongated(q)
         /\ prolongated(q)[position(s)] = s
         /\ \A j \in DOMAIN prolongated(q) :
              prolongated(q)[j] = s => j = position(s)
<1> DEFINE c == Cardinality(localSources(q))
           L == ordered(localSources(q))
           o == offset(q)
           i == CHOOSE k \in DOMAIN L : L[k] = s
<1>1. isUnknowns(q, c)
  BY UnknownsOfRank
<1>2. s \in localSources(q)
  BY DEF localSources
<1>3. L \in Bijection(1 .. c, localSources(q)) /\ DOMAIN L = 1 .. c
  BY <1>1 DEF isUnknowns, Bijection, Injection
<1>4. \E k \in DOMAIN L : L[k] = s
  BY <1>2, <1>3 DEF Bijection, Surjection
<1>5. i \in 1 .. c /\ L[i] = s
  BY <1>3, <1>4
<1>6. position(s) = o + i
  BY DEF position
<1>7. o \in Nat /\ c \in Nat
  BY <1>1 DEF isUnknowns, offset, polynomials
<1>8. \A k \in 1 .. c : L[k] = s => k = i
  BY <1>3, <1>5 DEF Bijection, Injection, IsInjective
<1>9. /\ DOMAIN prolongated(q) = 1 .. o + c
      /\ \A k \in 1 .. o : prolongated(q)[k] \notin Sources
      /\ \A k \in 1 .. c : prolongated(q)[o + k] = L[k]
  BY <1>1 DEF isUnknowns
<1> HIDE DEF i, L, c, o
<1>10. ASSUME NEW j \in 1 .. o + c, prolongated(q)[j] = s
       PROVE  j = o + i
  <2>1. j \notin 1 .. o
    BY <1>9, <1>10
  <2>2. j - o \in 1 .. c /\ o + (j - o) = j
    BY <1>7, <2>1
  <2>3. L[j - o] = s
    BY <1>9, <1>10, <2>2
  <2> QED
    BY <1>5, <1>7, <1>8, <2>2, <2>3
<1> QED
  BY <1>5, <1>6, <1>7, <1>9, <1>10 DEF c, o

\* An unknown of a rank is the polynomial's or that of one of its sources.
LEMMA IdAt ==
  ASSUME AppOK, NEW q \in Ranks, NEW i \in DOMAIN prolongated(q)
  PROVE  /\ i \in Nat \ {0}
         /\ (i <= offset(q)) <=> (prolongated(q)[i] \notin Sources)
         /\ prolongated(q)[i] \in Sources
              => /\ prolongated(q)[i] \in localSources(q)
                 /\ i = position(prolongated(q)[i])
<1> DEFINE c == Cardinality(localSources(q))
           L == ordered(localSources(q))
           o == offset(q)
<1>1. isUnknowns(q, c)
  BY UnknownsOfRank
<1>2. L \in [1 .. c -> localSources(q)] /\ localSources(q) \subseteq Sources
  BY <1>1 DEF isUnknowns, Bijection, Injection, localSources
<1>3. o \in Nat /\ c \in Nat
  BY <1>1 DEF isUnknowns, offset, polynomials
<1>4. /\ DOMAIN prolongated(q) = 1 .. o + c
      /\ \A k \in 1 .. o : prolongated(q)[k] \notin Sources
      /\ \A k \in 1 .. c : prolongated(q)[o + k] = L[k]
  BY <1>1 DEF isUnknowns
<1> HIDE DEF L, c
<1>5. CASE i \in 1 .. o
  BY <1>3, <1>4, <1>5
<1>6. CASE i \notin 1 .. o
  <2> HIDE DEF o
  <2>1. i - o \in 1 .. c /\ o + (i - o) = i /\ ~ (i <= o) /\ i \in Nat \ {0}
    BY <1>3, <1>4, <1>6
  <2>2. prolongated(q)[i] \in localSources(q)
    BY <1>2, <1>4, <2>1
  <2> DEFINE s == prolongated(q)[i]
  <2>3. s \in Sources /\ q = app.SourceOwner[s]
    BY <2>2 DEF localSources
  <2> HIDE DEF s
  <2>4. \A j \in DOMAIN prolongated(q) : prolongated(q)[j] = s => j = position(s)
    BY <2>3, PositionOf
  <2> QED
    BY <2>1, <2>2, <2>3, <2>4 DEF o, s
<1> QED
  BY <1>5, <1>6

\* A sum over the unknowns of a rank in which the polynomial's do not count is a
\* sum over its sources.
LEMMA SumOfUnknowns ==
  ASSUME AppOK, NEW q \in Ranks, NEW f, NEW g,
         \A i \in 1 .. offset(q) : f[i] = 0,
         \A s \in localSources(q) : g[s] \in Int /\ g[s] = f[position(s)]
  PROVE  SumFunctionOnSet(f, DOMAIN prolongated(q))
           = SumFunctionOnSet(g, localSources(q))
<1> DEFINE c == Cardinality(localSources(q))
           o == offset(q)
           D == DOMAIN prolongated(q)
           T == o + 1 .. o + c
           R == localSources(q)
           b == [s \in R |-> position(s)]
<1>1. isUnknowns(q, c)
  BY UnknownsOfRank
<1>2. o \in Nat /\ c \in Nat /\ D = 1 .. o + c
  BY <1>1 DEF isUnknowns, offset, polynomials
<1>3. \A s \in R : s \in Sources /\ app.SourceOwner[s] = q
  BY DEF localSources
<1>4. IsFiniteSet(R)
  <2>1. R \in SUBSET Sources
    BY <1>3
  <2> QED
    BY <2>1, CentersAssumption, FS_Subset
<1>5. \A s \in R : /\ position(s) \in T
                   /\ prolongated(q)[position(s)] = s
  BY <1>3, PositionOf
<1> HIDE DEF c, o, R
<1>6. \A i \in T : i \in D /\ ~ (i <= o)
  BY <1>2
<1>7. \A i \in T : prolongated(q)[i] \in R /\ i = position(prolongated(q)[i])
  BY <1>6, IdAt DEF o, R
<1>8. b \in Bijection(R, T)
  <2>1. b \in [R -> T]
    BY <1>5
  <2>2. \A s, e \in R : b[s] = b[e] => s = e
    BY <1>5
  <2>3. \A i \in T : \E s \in R : b[s] = i
    BY <1>7
  <2> HIDE DEF b, T
  <2> QED
    BY <2>1, <2>2, <2>3 DEF Bijection, Injection, Surjection, IsInjective
<1>9. \A s \in R : g[s] = f[b[s]] /\ g[s] \in Int
  BY DEF R
<1>10. SumFunctionOnSet(g, R) = SumFunctionOnSet(f, T)
  <2> HIDE DEF b, T
  <2> QED
    BY <1>4, <1>8, <1>9, SumRenamed
<1>11. T \in SUBSET D /\ IsFiniteSet(D)
  <2>1. IsFiniteSet(D)
    BY <1>2, FS_Interval
  <2> QED
    BY <1>6, <2>1
<1>12. \A i \in T : f[i] \in Int
  BY <1>7 DEF R
<1>13. \A i \in D \ T : f[i] = 0
  <2>1. \A i \in D \ T : i \in 1 .. o
    BY <1>2
  <2> QED
    BY <2>1 DEF o
<1> HIDE DEF T, D
<1>14. SumFunctionOnSet(f, D) = SumFunctionOnSet(f, T)
  BY <1>11, <1>12, <1>13, SumSupport
<1> QED
  BY <1>10, <1>14 DEF D, R

\* The children of a parent: some of the sources, each once, with all those that
\* are nearer than the radius.
isStencil(x, stencil) ==
  \E S \in SUBSET Sources :
    /\ stencil \in Bijection(1 .. Cardinality(S), S)
    /\ \A s \in Sources \ S : Radius <= distance(x, source[s])

\* The basis is an integer between the places of a program, and zero at and
\* beyond the radius.
LEMMA BasisOf ==
  ASSUME AppOK, NEW x \in placesOf(app), NEW s \in Sources
  PROVE  /\ phi(x, s) \in Int
         /\ Radius <= distance(x, source[s]) => phi(x, s) = 0
<1> DEFINE d == distance(x, source[s])
<1>1. x \in Int /\ source[s] \in Int
  BY DEF placesOf, AppOK, source, target
<1>2. d \in Nat
  BY <1>1, DistanceType
<1>3. /\ Basis(100 * Radius, d) \in Int
      /\ 100 * d >= 100 * Radius => Basis(100 * Radius, d) = 0
  BY BasisAssumption DEF AppOK, source
<1>4. phi(x, s) = Basis(100 * Radius, d)
  BY DEF phi
<1> HIDE DEF d
<1>5. Radius <= d => 100 * d >= 100 * Radius
  BY <1>2, CloudAssumption
<1> QED
  BY <1>3, <1>4, <1>5 DEF d

\* A row over the children of a parent is a row over all the sources.
LEMMA StencilSum ==
  ASSUME AppOK, NEW x \in placesOf(app), NEW stencil, isStencil(x, stencil),
         NEW f, NEW g,
         \A s \in Sources : g[s] \in Int,
         \A s \in Sources : phi(x, s) = 0 => g[s] = 0,
         \A i \in DOMAIN stencil : f[i] = g[stencil[i]]
  PROVE  SumFunctionOnSet(f, DOMAIN stencil) = SumFunctionOnSet(g, Sources)
<1>1. PICK S \in SUBSET Sources :
        /\ stencil \in Bijection(1 .. Cardinality(S), S)
        /\ \A s \in Sources \ S : Radius <= distance(x, source[s])
  BY DEF isStencil
<1> DEFINE N == 1 .. Cardinality(S)
<1>2. IsFiniteSet(Sources) /\ IsFiniteSet(S)
  BY CentersAssumption, FS_Subset
<1>3. IsFiniteSet(N)
  BY <1>2, FS_CardinalityType, FS_Interval
<1> HIDE DEF N
<1>4. stencil \in Bijection(N, S) /\ DOMAIN stencil = N /\ \A i \in N : stencil[i] \in S
  BY <1>1 DEF N, Bijection, Injection
<1>5. \A i \in N : f[i] = g[stencil[i]] /\ f[i] \in Int
  BY <1>4
<1>6. SumFunctionOnSet(f, N) = SumFunctionOnSet(g, S)
  BY <1>3, <1>4, <1>5, SumRenamed
<1>7. \A s \in Sources \ S : g[s] = 0
  BY <1>1, BasisOf
<1>8. \A s \in S : g[s] \in Int
  OBVIOUS
<1>9. SumFunctionOnSet(g, Sources) = SumFunctionOnSet(g, S)
  BY <1>2, <1>7, <1>8, SumSupport
<1> QED
  BY <1>4, <1>6, <1>9

-----------------------------------------------------------------------------
(***************************************************************************)
(* setup(): how far the ranks are in the two rounds, and what they have.   *)
(***************************************************************************)
SetupStages == {"new", "gather", "send", "centers", "aborted", "fill"}

ApplyStages == {"ready", "polynomial", "basis", "transpose", "reduce"}

StagesOK ==
  /\ AppOK
  /\ stage \in [Ranks -> SetupStages \cup ApplyStages]
  /\ round \in [Ranks -> Rounds]
  /\ \A r \in Ranks : round[r] = "sources" => stage[r] \in SetupStages

\* Rank q has left the stages of round k.
left(k, q, steps) == IF round[q] = k THEN stage[q] \notin steps ELSE k = "sources"

haveLeft(steps) == [k \in Rounds |-> {q \in Ranks : left(k, q, steps)}]

gathered == haveLeft({"new"})
sent     == haveLeft({"new", "gather"})
received == haveLeft({"new", "gather", "send"})
inserted == haveLeft({"new", "gather", "send", "centers", "aborted"})

\* A rank that has left an exchange is behind nobody that has not entered it.
RanksInOrder ==
  \A k \in Rounds : \A p, q \in Ranks :
    /\ p \in sent[k] => q \in gathered[k]
    /\ p \in received[k] => q \in sent[k]

\* The box of a rank holds all that is in the radius of its parents.
BoxesHold ==
  /\ boxes \in [Rounds -> [Ranks -> Box]]
  /\ search = "radius" =>
       \A k \in Rounds : \A r \in Ranks : r \in gathered[k] =>
         \A c \in localParents(k, r), p \in Int :
           distance(parent(k)[c], p) <= Radius => pointInDomain(p, boxes[k][r])

SendsOK ==
  /\ center_sends \in [Rounds -> [Ranks -> SUBSET (Sources \X Ranks)]]
  /\ \A k \in Rounds : \A s \in Sources, q \in Ranks :
       app.SourceOwner[s] \in sent[k] /\ pointInDomain(source[s], boxes[k][q])
         => <<s, q>> \in center_sends[k][app.SourceOwner[s]]

SourcesOK ==
  /\ dist_sources \in [Rounds -> [Ranks -> SUBSET Sources]]
  /\ \A k \in Rounds : \A r, q \in Ranks : \A s \in Sources :
       r \in received[k] /\ <<s, r>> \in center_sends[k][q]
         => s \in dist_sources[k][r]

\* Every parent of a rank that has inserted its rows has its children.
PairsOK ==
  /\ d_pairings = [k \in Rounds |-> d_pairings[k]]
  /\ \A k \in Rounds : \A r \in Ranks : r \in inserted[k] =>
       \A c \in localParents(k, r) :
         /\ c \in DOMAIN d_pairings[k]
         /\ search = "radius" => isStencil(parent(k)[c], d_pairings[k][c])

SetupInv ==
  /\ StagesOK
  /\ RanksInOrder
  /\ BoxesHold
  /\ SendsOK
  /\ SourcesOK
  /\ PairsOK

\* The program does not change, nor what is made of it.
LEMMA ProgramKept ==
  ASSUME app' = app
  PROVE  /\ search' = search /\ source' = source /\ target' = target
         /\ AppOK <=> AppOK'
         /\ \A k : parent(k)' = parent(k)
         /\ \A k, r : localParents(k, r)' = localParents(k, r)
         /\ \A r : localSources(r)' = localSources(r)
         /\ \A x, q : isStencil(x, q)' <=> isStencil(x, q)
  BY DEF search, source, target, AppOK, parent, localParents, localSources,
     isStencil

LEMMA ParentsOf ==
  ASSUME AppOK, NEW k \in Rounds, NEW r \in Ranks
  PROVE  /\ coordinates(parent(k), localParents(k, r)) \in SUBSET Int
         /\ \A c \in localParents(k, r) :
              /\ parent(k)[c] \in coordinates(parent(k), localParents(k, r))
              /\ parent(k)[c] \in Int
              /\ parent(k)[c] \in placesOf(app)
         /\ \A q \in Ranks \ {r} : localParents(k, r) \cap localParents(k, q) = {}
<1>1. CASE k = "sources"
  <2>1. parent(k) = source /\ localParents(k, r) = localSources(r)
    BY <1>1 DEF parent, localParents
  <2>2. \A c \in localSources(r) : c \in Sources /\ source[c] \in Int
    BY DEF localSources, AppOK
  <2>3. \A q \in Ranks \ {r} : localParents(k, q) = localSources(q)
    BY <1>1 DEF localParents
  <2> QED
    BY <2>1, <2>2, <2>3 DEF coordinates, localSources, placesOf, source
<1>2. CASE k = "targets"
  <2>1. /\ parent(k) = target
        /\ \A q : localParents(k, q) = {t \in Targets : app.TargetOwner[t] = q}
    BY <1>2 DEF parent, localParents
  <2>2. \A c \in localParents(k, r) : c \in Targets /\ target[c] \in Int
    BY <2>1 DEF AppOK
  <2> QED
    BY <2>1, <2>2 DEF coordinates, placesOf, target
<1> QED
  BY <1>1, <1>2 DEF Rounds

LEMMA SetupInit ==
  ASSUME SplineInit
  PROVE  SetupInv
<1>1. app \in Application
  BY ApplicationsAssumption DEF SplineInit
<1>2. AppOK
  BY <1>1 DEF SplineInit, AppOK, Application, search, source, target
<1>3. StagesOK
  BY <1>2 DEF SplineInit, StagesOK, SetupStages, Rounds
<1>4. \A k \in Rounds : \A q \in Ranks :
        /\ q \notin gathered[k] /\ q \notin sent[k]
        /\ q \notin received[k] /\ q \notin inserted[k]
  BY DEF SplineInit, gathered, sent, received, inserted, haveLeft, left, Rounds
<1>5. RanksInOrder
  BY <1>4 DEF RanksInOrder
<1>6. BoxesHold
  <2>1. nowhere \in Box
    BY DEF nowhere, Box
  <2> QED
    BY <1>4, <2>1 DEF SplineInit, BoxesHold, perRound
<1>7. SendsOK
  BY <1>2, <1>4 DEF SplineInit, SendsOK, perRound, AppOK
<1>8. SourcesOK
  BY <1>4 DEF SplineInit, SourcesOK, perRound
<1>9. PairsOK
  BY <1>4 DEF SplineInit, PairsOK
<1> QED
  BY <1>3, <1>5, <1>6, <1>7, <1>8, <1>9 DEF SetupInv

\* Only the rank that steps moves.
LEMMA Moves ==
  ASSUME StagesOK, NEW r \in Ranks, SplineStep(r)
  PROVE  /\ app' = app /\ AppOK
         /\ \A q \in Ranks \ {r} : stage'[q] = stage[q] /\ round'[q] = round[q]
         /\ StagesOK'
<1>1. app' = app /\ AppOK /\ AppOK'
  <2>1. app' = app
    BY DEF SplineStep, GatherDomain, SendCenters, ReceiveCenters, Abort,
       InsertRows, FillComplete, BeginOperator, Polynomial, AddBasis, Contribute,
       Reduce
  <2> QED
    BY <2>1, ProgramKept DEF StagesOK
<1>2. CASE FillComplete(r)
  BY <1>1, <1>2 DEF FillComplete, goTo, StagesOK, SetupStages, ApplyStages, Rounds
<1>3. CASE ~ FillComplete(r)
  <2>1. round' = round
    BY <1>3 DEF SplineStep, GatherDomain, SendCenters, ReceiveCenters, Abort,
       InsertRows, BeginOperator, Polynomial, AddBasis, Contribute, Reduce
  <2>2. PICK e \in SetupStages \cup ApplyStages :
          /\ stage' = [stage EXCEPT ![r] = e]
          /\ e \in ApplyStages => stage[r] \in ApplyStages
    BY <1>3 DEF SplineStep, GatherDomain, SendCenters, ReceiveCenters, Abort,
       InsertRows, BeginOperator, Polynomial, AddBasis, Contribute, Reduce, goTo,
       SetupStages, ApplyStages
  <2>3. SetupStages \cap ApplyStages = {}
    BY DEF SetupStages, ApplyStages
  <2> QED
    BY <1>1, <2>1, <2>2, <2>3 DEF StagesOK
<1> QED
  BY <1>2, <1>3

LEMMA EarlyStep ==
  ASSUME NEW r \in Ranks, SplineStep(r)
  PROVE  /\ stage[r] = "new" => GatherDomain(r)
         /\ stage[r] = "gather" => SendCenters(r)
         /\ stage[r] = "send" => ReceiveCenters(r)
         /\ stage[r] = "centers" => Abort(r) \/ InsertRows(r)
         /\ stage[r] = "fill" => FillComplete(r)
         /\ stage[r] # "aborted"
  BY DEF SplineStep, GatherDomain, SendCenters, ReceiveCenters, Abort, InsertRows,
     FillComplete, BeginOperator, Polynomial, AddBasis, Contribute, Reduce

\* Once the centres of a round have arrived only the rows are made.
LEMMA LaterStep ==
  ASSUME StagesOK, NEW r \in Ranks, SplineStep(r),
         stage[r] \notin {"new", "gather", "send"}
  PROVE  /\ UNCHANGED <<boxes, center_sends, dist_sources>>
         /\ \A k \in Rounds, q \in Ranks :
              /\ q \in gathered'[k] <=> q \in gathered[k]
              /\ q \in sent'[k] <=> q \in sent[k]
              /\ q \in received'[k] <=> q \in received[k]
<1>1. UNCHANGED <<boxes, center_sends, dist_sources>>
  BY DEF SplineStep, GatherDomain, SendCenters, ReceiveCenters, Abort, InsertRows,
     FillComplete, BeginOperator, Polynomial, AddBasis, Contribute, Reduce,
     setupVars
<1>2. ASSUME NEW k \in Rounds, NEW q \in Ranks,
             NEW early \in SUBSET {"new", "gather", "send"}, "new" \in early
      PROVE  left(k, q, early)' = left(k, q, early)
  <2>1. stage \in [Ranks -> SetupStages \cup ApplyStages] /\ round \in [Ranks -> Rounds]
    BY DEF StagesOK
  <2>2. CASE q # r
    BY <2>2, Moves DEF left
  <2>3. CASE q = r /\ FillComplete(r)
    <3>1. /\ stage[r] = "fill" /\ round'[r] = "targets"
          /\ stage'[r] = IF round[r] = "sources" THEN "new" ELSE "ready"
      BY <2>1, <2>3 DEF FillComplete, goTo
    <3> QED
      BY <1>2, <2>1, <2>3, <3>1 DEF left, Rounds
  <2>4. CASE q = r /\ ~ FillComplete(r)
    <3>1. round' = round /\ stage'[r] \notin {"new", "gather", "send"}
      BY <2>1, <2>4 DEF SplineStep, GatherDomain, SendCenters, ReceiveCenters,
         Abort, InsertRows, BeginOperator, Polynomial, AddBasis, Contribute,
         Reduce, goTo
    <3>2. stage[r] \notin early /\ stage'[r] \notin early
      BY <3>1
    <3> QED
      BY <2>4, <3>1, <3>2 DEF left
  <2> QED
    BY <2>2, <2>3, <2>4
<1> QED
  BY <1>1, <1>2 DEF gathered, sent, received, haveLeft

\* The step of a rank in an early stage concerns this rank in this round.
LEMMA EarlyMoves ==
  ASSUME StagesOK, NEW r \in Ranks, SplineStep(r),
         stage[r] \in {"new", "gather", "send"}
  PROVE  /\ round' = round
         /\ stage'[r] = IF stage[r] = "new" THEN "gather"
                        ELSE IF stage[r] = "gather" THEN "send" ELSE "centers"
         /\ \A k \in Rounds, q \in Ranks : k # round[r] \/ q # r =>
              /\ q \in gathered'[k] <=> q \in gathered[k]
              /\ q \in sent'[k] <=> q \in sent[k]
              /\ q \in received'[k] <=> q \in received[k]
<1>1. /\ round' = round
      /\ stage'[r] = IF stage[r] = "new" THEN "gather"
                     ELSE IF stage[r] = "gather" THEN "send" ELSE "centers"
  BY EarlyStep DEF GatherDomain, SendCenters, ReceiveCenters, goTo, StagesOK
<1>2. ASSUME NEW k \in Rounds, NEW q \in Ranks, k # round[r] \/ q # r, NEW early
      PROVE  left(k, q, early)' <=> left(k, q, early)
  BY <1>1, <1>2, Moves DEF left
<1> QED
  BY <1>1, <1>2 DEF gathered, sent, received, haveLeft

\* What is gathered for a rank.
LEMMA GatheredBox ==
  ASSUME AppOK, BoxesHold, NEW r \in Ranks, GatherDomain(r),
         NEW k \in Rounds, k = round[r]
  PROVE  /\ boxes' \in [Rounds -> [Ranks -> Box]]
         /\ \A h \in Rounds, q \in Ranks : h # k \/ q # r =>
              boxes'[h][q] = boxes[h][q]
         /\ search = "radius" =>
              \A c \in localParents(k, r), p \in Int :
                distance(parent(k)[c], p) <= Radius
                  => pointInDomain(p, boxes'[k][r])
<1> DEFINE points == local(r)
<1>1. /\ points \in SUBSET Int
      /\ \A c \in localParents(k, r) : parent(k)[c] \in points
  BY ParentsOf DEF local
<1>2. boxes \in [Rounds -> [Ranks -> Box]]
  BY DEF BoxesHold
<1>3. CASE search = "knn" /\ UNCHANGED boxes
  BY <1>2, <1>3
<1>4. CASE \E lo, hi \in points \cup {0}, w \in proximities(search, points) :
             /\ localCloudDomain(points, [lo |-> lo, hi |-> hi])
             /\ boxes' = [boxes EXCEPT
                  ![round[r]][r] = expand([lo |-> lo, hi |-> hi], w)]
  <2>1. PICK lo \in points \cup {0}, hi \in points \cup {0},
             w \in proximities(search, points) :
             /\ localCloudDomain(points, [lo |-> lo, hi |-> hi])
             /\ boxes' = [boxes EXCEPT
                  ![k][r] = expand([lo |-> lo, hi |-> hi], w)]
    BY <1>4
  <2> DEFINE b == [lo |-> lo, hi |-> hi]
             e == expand(b, w)
  <2>2. b \in Box /\ b.lo = lo /\ b.hi = hi
    BY <1>1 DEF Box
  <2>3. search \in Searches
    BY DEF AppOK, Searches
  <2>4. w \in Int /\ (search = "radius" => w = 10 * Radius)
    <3> HIDE DEF points
    <3> QED
      BY <1>1, <2>3, ProximityTypes
  <2>5. e \in Box
    BY <2>2, <2>4, ExpandType
  <2>6. \A x \in points : b.lo <= x /\ x <= b.hi
    BY <2>1 DEF localCloudDomain
  <2>7. ASSUME search = "radius", NEW c \in localParents(k, r), NEW p \in Int,
               distance(parent(k)[c], p) <= Radius
        PROVE  pointInDomain(p, e)
    <3> DEFINE x == parent(k)[c]
               d == distance(x, p)
    <3>1. x \in points /\ x \in Int
      BY <1>1
    <3>2. d \in Nat /\ d <= Radius
      BY <2>7, <3>1, DistanceType
    <3> HIDE DEF b, x, d
    <3>3. 10 * d <= w
      BY <2>4, <2>7, <3>2, CloudAssumption
    <3> QED
      BY <2>2, <2>4, <2>6, <3>1, <3>3, ExpandedBoxHolds DEF d
  <2> HIDE DEF b, e
  <2>8. boxes' = [boxes EXCEPT ![k][r] = e]
    BY <2>1 DEF b, e
  <2> QED
    BY <1>2, <2>5, <2>7, <2>8
<1> QED
  BY <1>3, <1>4 DEF GatherDomain

DistributionOK == RanksInOrder /\ BoxesHold /\ SendsOK /\ SourcesOK

LEMMA GatherStep ==
  ASSUME StagesOK, DistributionOK, NEW r \in Ranks, SplineStep(r),
         stage[r] = "new"
  PROVE  DistributionOK'
<1> USE DEF DistributionOK
<1> DEFINE k == round[r]
<1>1. GatherDomain(r) /\ k \in Rounds /\ AppOK
  BY EarlyStep DEF StagesOK
<1>2. /\ app' = app
      /\ search' = search /\ source' = source
      /\ \A h : parent(h)' = parent(h)
      /\ \A h, q : localParents(h, q)' = localParents(h, q)
  BY Moves, ProgramKept
<1>3. /\ round' = round /\ stage'[r] = "gather"
      /\ \A h \in Rounds, q \in Ranks : h # k \/ q # r =>
           /\ q \in gathered'[h] <=> q \in gathered[h]
           /\ q \in sent'[h] <=> q \in sent[h]
           /\ q \in received'[h] <=> q \in received[h]
  BY EarlyMoves
<1>4. /\ r \notin gathered[k] /\ r \notin sent[k] /\ r \notin received[k]
      /\ r \in gathered'[k] /\ r \notin sent'[k] /\ r \notin received'[k]
  BY <1>1, <1>3 DEF gathered, sent, received, haveLeft, left
<1>5. UNCHANGED <<center_sends, dist_sources>>
  BY <1>1 DEF GatherDomain
<1>6. /\ boxes' \in [Rounds -> [Ranks -> Box]]
      /\ \A h \in Rounds, q \in Ranks : h # k \/ q # r =>
           boxes'[h][q] = boxes[h][q]
      /\ search = "radius" =>
           \A c \in localParents(k, r), p \in Int :
             distance(parent(k)[c], p) <= Radius
               => pointInDomain(p, boxes'[k][r])
  BY <1>1, GatheredBox
<1> HIDE DEF k
<1>7. \A q \in Ranks : q \notin sent[k] /\ q \notin sent'[k] /\ q \notin received'[k]
  <2>1. ASSUME NEW q \in Ranks
        PROVE  q \notin sent[k] /\ q \notin received[k]
    <3>1. q \notin sent[k]
      BY <1>1, <1>4 DEF RanksInOrder
    <3> QED
      BY <1>1, <3>1 DEF RanksInOrder
  <2>2. ASSUME NEW q \in Ranks
        PROVE  q \notin sent'[k] /\ q \notin received'[k]
    <3>1. CASE q = r
      BY <1>4, <3>1
    <3>2. CASE q # r
      BY <1>1, <1>3, <2>1, <3>2
    <3> QED
      BY <3>1, <3>2
  <2> QED
    BY <2>1, <2>2
<1>8. RanksInOrder'
  <2> SUFFICES ASSUME NEW h \in Rounds, NEW p \in Ranks, NEW q \in Ranks
               PROVE  /\ p \in sent'[h] => q \in gathered'[h]
                      /\ p \in received'[h] => q \in sent'[h]
    BY DEF RanksInOrder
  <2>1. CASE h = k
    BY <1>7, <2>1
  <2>2. CASE h # k
    BY <1>3, <2>2 DEF RanksInOrder
  <2> QED
    BY <2>1, <2>2
<1>9. BoxesHold'
  <2> SUFFICES ASSUME search = "radius", NEW h \in Rounds, NEW q \in Ranks,
                      q \in gathered'[h], NEW c \in localParents(h, q),
                      NEW p \in Int, distance(parent(h)[c], p) <= Radius
               PROVE  pointInDomain(p, boxes'[h][q])
    BY <1>2, <1>6 DEF BoxesHold
  <2>1. CASE h = k /\ q = r
    BY <1>6, <2>1
  <2>2. CASE h # k \/ q # r
    BY <1>3, <1>6, <2>2 DEF BoxesHold
  <2> QED
    BY <2>1, <2>2
<1>10. SendsOK'
  <2> SUFFICES ASSUME NEW h \in Rounds, NEW s \in Sources, NEW q \in Ranks,
                      app.SourceOwner[s] \in sent'[h],
                      pointInDomain(source[s], boxes'[h][q])
               PROVE  <<s, q>> \in center_sends[h][app.SourceOwner[s]]
    BY <1>2, <1>5 DEF SendsOK
  <2>1. app.SourceOwner[s] \in Ranks
    BY <1>1 DEF AppOK
  <2>2. h # k
    BY <1>7, <2>1
  <2>3. app.SourceOwner[s] \in sent[h] /\ pointInDomain(source[s], boxes[h][q])
    BY <1>3, <1>6, <2>1, <2>2
  <2> QED
    BY <2>3 DEF SendsOK
<1>11. SourcesOK'
  <2> SUFFICES ASSUME NEW h \in Rounds, NEW p \in Ranks, NEW q \in Ranks,
                      NEW s \in Sources, p \in received'[h],
                      <<s, p>> \in center_sends[h][q]
               PROVE  s \in dist_sources[h][p]
    BY <1>5 DEF SourcesOK
  <2>1. h # k
    BY <1>7
  <2>2. p \in received[h]
    BY <1>3, <2>1
  <2> QED
    BY <2>2 DEF SourcesOK
<1> QED
  BY <1>8, <1>9, <1>10, <1>11

\* What a rank exports.
LEMMA SentCenters ==
  ASSUME AppOK, BoxesHold, SendsOK, NEW r \in Ranks, SendCenters(r),
         NEW k \in Rounds, k = round[r]
  PROVE  /\ center_sends' \in [Rounds -> [Ranks -> SUBSET (Sources \X Ranks)]]
         /\ \A h \in Rounds, q \in Ranks : h # k \/ q # r =>
              center_sends'[h][q] = center_sends[h][q]
         /\ \A s \in localSources(r), q \in Ranks :
              pointInDomain(source[s], boxes[k][q])
                => <<s, q>> \in center_sends'[k][r]
<1> DEFINE points == coordinates(source, localSources(r))
           C == restricted(source, localSources(r))
<1>1. points \in SUBSET Int /\ \A s \in localSources(r) : source[s] \in points
  BY DEF coordinates, localSources, AppOK
<1>2. PICK lo \in points \cup {0}, hi \in points \cup {0} :
        /\ localCloudDomain(points, [lo |-> lo, hi |-> hi])
        /\ center_sends' = [center_sends EXCEPT ![k][r] =
             exports(C, [lo |-> lo, hi |-> hi], boxes[k])]
  BY DEF SendCenters
<1> DEFINE b == [lo |-> lo, hi |-> hi]
           E == exports(C, b, boxes[k])
<1>3. b \in Box /\ b.lo = lo /\ b.hi = hi
  BY <1>1 DEF Box
<1>4. \A x \in points : b.lo <= x /\ x <= b.hi
  BY <1>2 DEF localCloudDomain
<1>5. /\ DOMAIN C = localSources(r)
      /\ \A s \in localSources(r) : C[s] = source[s]
      /\ localSources(r) \in SUBSET Sources
      /\ DOMAIN boxes[k] = Ranks /\ \A q \in Ranks : boxes[k][q] \in Box
  BY DEF restricted, BoxesHold, localSources
<1>6. center_sends' = [center_sends EXCEPT ![k][r] = E]
  BY <1>2
<1> HIDE DEF b, C, points
<1>7. E \in SUBSET (Sources \X Ranks)
  BY <1>5 DEF exports
<1>8. ASSUME NEW s \in localSources(r), NEW q \in Ranks,
             pointInDomain(source[s], boxes[k][q])
      PROVE  <<s, q>> \in E
  <2>1. source[s] \in Int /\ boxes[k][q] \in Box
    BY <1>1, <1>5
  <2>2. checkForIntersection(b, boxes[k][q])
    BY <1>1, <1>3, <1>4, <1>8, <2>1, IntersectionMissesNothing
  <2> QED
    BY <1>5, <1>8, <2>2 DEF exports
<1>9. center_sends \in [Rounds -> [Ranks -> SUBSET (Sources \X Ranks)]]
  BY DEF SendsOK
<1> HIDE DEF E
<1> QED
  BY <1>6, <1>7, <1>8, <1>9

LEMMA SendStep ==
  ASSUME StagesOK, DistributionOK, NEW r \in Ranks, SplineStep(r),
         stage[r] = "gather"
  PROVE  DistributionOK'
<1> USE DEF DistributionOK
<1> DEFINE k == round[r]
<1>1. SendCenters(r) /\ k \in Rounds /\ AppOK
  BY EarlyStep DEF StagesOK
<1>2. /\ app' = app
      /\ search' = search /\ source' = source
      /\ \A h : parent(h)' = parent(h)
      /\ \A h, q : localParents(h, q)' = localParents(h, q)
  BY Moves, ProgramKept
<1>3. /\ round' = round /\ stage'[r] = "send"
      /\ \A h \in Rounds, q \in Ranks : h # k \/ q # r =>
           /\ q \in gathered'[h] <=> q \in gathered[h]
           /\ q \in sent'[h] <=> q \in sent[h]
           /\ q \in received'[h] <=> q \in received[h]
  BY EarlyMoves
<1>4. /\ r \in gathered[k] /\ r \notin sent[k] /\ r \notin received[k]
      /\ r \in gathered'[k] /\ r \in sent'[k] /\ r \notin received'[k]
  BY <1>1, <1>3 DEF gathered, sent, received, haveLeft, left
<1>5. UNCHANGED <<boxes, dist_sources>>
  BY <1>1 DEF SendCenters
<1>6. /\ center_sends' \in [Rounds -> [Ranks -> SUBSET (Sources \X Ranks)]]
      /\ \A h \in Rounds, q \in Ranks : h # k \/ q # r =>
           center_sends'[h][q] = center_sends[h][q]
      /\ \A s \in localSources(r), q \in Ranks :
           pointInDomain(source[s], boxes[k][q])
             => <<s, q>> \in center_sends'[k][r]
  BY <1>1, SentCenters
<1>7. \A q \in Ranks : q \in gathered[k]
  BY <1>1 DEF SendCenters, begun, passed, gathered, haveLeft, left, Rounds
<1> HIDE DEF k
<1>8. \A q \in Ranks : q \notin received[k] /\ q \notin received'[k]
  BY <1>1, <1>3, <1>4 DEF RanksInOrder
<1>9. RanksInOrder'
  <2> SUFFICES ASSUME NEW h \in Rounds, NEW p \in Ranks, NEW q \in Ranks
               PROVE  /\ p \in sent'[h] => q \in gathered'[h]
                      /\ p \in received'[h] => q \in sent'[h]
    BY DEF RanksInOrder
  <2>1. CASE h = k
    BY <1>1, <1>3, <1>4, <1>7, <1>8, <2>1
  <2>2. CASE h # k
    BY <1>3, <2>2 DEF RanksInOrder
  <2> QED
    BY <2>1, <2>2
<1>10. BoxesHold'
  <2> SUFFICES ASSUME search = "radius", NEW h \in Rounds, NEW q \in Ranks,
                      q \in gathered'[h], NEW c \in localParents(h, q),
                      NEW p \in Int, distance(parent(h)[c], p) <= Radius
               PROVE  pointInDomain(p, boxes[h][q])
    BY <1>2, <1>5 DEF BoxesHold
  <2>1. q \in gathered[h]
    BY <1>3, <1>4
  <2> QED
    BY <2>1 DEF BoxesHold
<1>11. SendsOK'
  <2> SUFFICES ASSUME NEW h \in Rounds, NEW s \in Sources, NEW q \in Ranks,
                      app.SourceOwner[s] \in sent'[h],
                      pointInDomain(source[s], boxes[h][q])
               PROVE  <<s, q>> \in center_sends'[h][app.SourceOwner[s]]
    BY <1>2, <1>5, <1>6 DEF SendsOK
  <2>1. app.SourceOwner[s] \in Ranks
    BY <1>1 DEF AppOK
  <2>2. CASE h = k /\ app.SourceOwner[s] = r
    BY <1>6, <2>2 DEF localSources
  <2>3. CASE h # k \/ app.SourceOwner[s] # r
    BY <1>3, <1>6, <2>1, <2>3 DEF SendsOK
  <2> QED
    BY <2>2, <2>3
<1>12. SourcesOK'
  <2> SUFFICES ASSUME NEW h \in Rounds, NEW p \in Ranks, NEW q \in Ranks,
                      NEW s \in Sources, p \in received'[h],
                      <<s, p>> \in center_sends'[h][q]
               PROVE  s \in dist_sources[h][p]
    BY <1>5 DEF SourcesOK
  <2>1. h # k
    BY <1>8
  <2>2. p \in received[h] /\ <<s, p>> \in center_sends[h][q]
    BY <1>3, <1>6, <2>1
  <2> QED
    BY <2>2 DEF SourcesOK
<1> QED
  BY <1>9, <1>10, <1>11, <1>12

LEMMA ReceiveStep ==
  ASSUME StagesOK, DistributionOK, NEW r \in Ranks, SplineStep(r),
         stage[r] = "send"
  PROVE  DistributionOK'
<1> USE DEF DistributionOK
<1> DEFINE k == round[r]
<1>1. ReceiveCenters(r) /\ k \in Rounds /\ AppOK
  BY EarlyStep DEF StagesOK
<1>2. /\ app' = app
      /\ search' = search /\ source' = source
      /\ \A h : parent(h)' = parent(h)
      /\ \A h, q : localParents(h, q)' = localParents(h, q)
  BY Moves, ProgramKept
<1>3. /\ round' = round /\ stage'[r] = "centers"
      /\ \A h \in Rounds, q \in Ranks : h # k \/ q # r =>
           /\ q \in gathered'[h] <=> q \in gathered[h]
           /\ q \in sent'[h] <=> q \in sent[h]
           /\ q \in received'[h] <=> q \in received[h]
  BY EarlyMoves
<1>4. /\ r \in gathered[k] /\ r \in sent[k] /\ r \notin received[k]
      /\ r \in gathered'[k] /\ r \in sent'[k] /\ r \in received'[k]
  BY <1>1, <1>3 DEF gathered, sent, received, haveLeft, left
<1>5. UNCHANGED <<boxes, center_sends>>
  BY <1>1 DEF ReceiveCenters
<1>6. dist_sources' = [dist_sources EXCEPT ![k][r] =
        {s \in Sources : \E q \in Ranks : <<s, r>> \in center_sends[k][q]}]
  BY <1>1 DEF ReceiveCenters
<1>7. \A q \in Ranks : q \in sent[k] /\ q \in gathered[k]
  BY <1>1 DEF ReceiveCenters, begun, passed, gathered, sent, haveLeft, left,
     Rounds
<1> HIDE DEF k
<1>8. \A h \in Rounds, q \in Ranks : /\ q \in gathered'[h] <=> q \in gathered[h]
                                     /\ q \in sent'[h] <=> q \in sent[h]
  BY <1>3, <1>4
<1>9. RanksInOrder'
  <2> SUFFICES ASSUME NEW h \in Rounds, NEW p \in Ranks, NEW q \in Ranks
               PROVE  /\ p \in sent'[h] => q \in gathered'[h]
                      /\ p \in received'[h] => q \in sent'[h]
    BY DEF RanksInOrder
  <2>1. CASE h = k
    BY <1>7, <1>8, <2>1
  <2>2. CASE h # k
    BY <1>3, <2>2 DEF RanksInOrder
  <2> QED
    BY <2>1, <2>2
<1>10. BoxesHold'
  <2> SUFFICES ASSUME search = "radius", NEW h \in Rounds, NEW q \in Ranks,
                      q \in gathered'[h], NEW c \in localParents(h, q),
                      NEW p \in Int, distance(parent(h)[c], p) <= Radius
               PROVE  pointInDomain(p, boxes[h][q])
    BY <1>2, <1>5 DEF BoxesHold
  <2>1. q \in gathered[h]
    BY <1>8
  <2> QED
    BY <2>1 DEF BoxesHold
<1>11. SendsOK'
  <2> SUFFICES ASSUME NEW h \in Rounds, NEW s \in Sources, NEW q \in Ranks,
                      app.SourceOwner[s] \in sent'[h],
                      pointInDomain(source[s], boxes[h][q])
               PROVE  <<s, q>> \in center_sends[h][app.SourceOwner[s]]
    BY <1>2, <1>5 DEF SendsOK
  <2>1. app.SourceOwner[s] \in sent[h]
    BY <1>1, <1>8 DEF AppOK
  <2> QED
    BY <2>1 DEF SendsOK
<1>12. SourcesOK'
  <2>1. dist_sources \in [Rounds -> [Ranks -> SUBSET Sources]]
    BY DEF SourcesOK
  <2>2. /\ dist_sources' \in [Rounds -> [Ranks -> SUBSET Sources]]
        /\ \A h \in Rounds, p \in Ranks : h # k \/ p # r =>
             dist_sources'[h][p] = dist_sources[h][p]
        /\ dist_sources'[k][r]
             = {s \in Sources : \E q \in Ranks : <<s, r>> \in center_sends[k][q]}
    BY <1>1, <1>6, <2>1
  <2> SUFFICES ASSUME NEW h \in Rounds, NEW p \in Ranks, NEW q \in Ranks,
                      NEW s \in Sources, p \in received'[h],
                      <<s, p>> \in center_sends[h][q]
               PROVE  s \in dist_sources'[h][p]
    BY <1>5, <2>2 DEF SourcesOK
  <2>3. CASE h = k /\ p = r
    BY <2>2, <2>3
  <2>4. CASE h # k \/ p # r
    BY <1>3, <2>2, <2>4 DEF SourcesOK
  <2> QED
    BY <2>3, <2>4
<1> QED
  BY <1>9, <1>10, <1>11, <1>12

\* Far or near, in whichever round the others are: the boxes gathered hold the
\* radius, what lies in them is sent, what is sent arrives.
LEMMA DistributionStep ==
  ASSUME StagesOK, DistributionOK, NEW r \in Ranks, SplineStep(r)
  PROVE  DistributionOK'
<1>1. CASE stage[r] = "new"
  BY <1>1, GatherStep
<1>2. CASE stage[r] = "gather"
  BY <1>2, SendStep
<1>3. CASE stage[r] = "send"
  BY <1>3, ReceiveStep
<1>4. CASE stage[r] \notin {"new", "gather", "send"}
  <2> USE DEF DistributionOK
  <2>1. /\ app' = app /\ AppOK
        /\ search' = search /\ source' = source
        /\ \A h : parent(h)' = parent(h)
        /\ \A h, q : localParents(h, q)' = localParents(h, q)
    BY Moves, ProgramKept
  <2>2. /\ UNCHANGED <<boxes, center_sends, dist_sources>>
        /\ \A k \in Rounds, q \in Ranks :
             /\ q \in gathered'[k] <=> q \in gathered[k]
             /\ q \in sent'[k] <=> q \in sent[k]
             /\ q \in received'[k] <=> q \in received[k]
    BY <1>4, LaterStep
  <2>3. RanksInOrder'
    BY <2>2 DEF RanksInOrder
  <2>4. BoxesHold'
    BY <2>1, <2>2 DEF BoxesHold
  <2>5. SendsOK'
    BY <2>1, <2>2 DEF SendsOK, AppOK
  <2>6. SourcesOK'
    BY <2>2 DEF SourcesOK
  <2> QED
    BY <2>3, <2>4, <2>5, <2>6
<1> QED
  BY <1>1, <1>2, <1>3, <1>4

-----------------------------------------------------------------------------
(***************************************************************************)
(* setup(): the children of the parents.                                   *)
(***************************************************************************)
LEMMA NearSourcesArrive ==
  ASSUME StagesOK, DistributionOK, search = "radius", NEW k \in Rounds,
         NEW r \in Ranks, r \in received[k], NEW c \in localParents(k, r),
         NEW s \in Sources, distance(parent(k)[c], source[s]) <= Radius
  PROVE  s \in dist_sources[k][r]
<1> USE DEF DistributionOK
<1>1. AppOK /\ app.SourceOwner[s] \in Ranks /\ source[s] \in Int
  BY DEF StagesOK, AppOK
<1>2. app.SourceOwner[s] \in sent[k] /\ r \in sent[k]
  BY <1>1 DEF RanksInOrder, received, sent, haveLeft, left
<1>3. r \in gathered[k]
  BY <1>2 DEF RanksInOrder
<1>4. pointInDomain(source[s], boxes[k][r])
  BY <1>1, <1>3 DEF BoxesHold
<1>5. <<s, r>> \in center_sends[k][app.SourceOwner[s]]
  BY <1>1, <1>2, <1>4 DEF SendsOK
<1> QED
  BY <1>1, <1>5 DEF SourcesOK

\* What a search by radius finds where all that is near has arrived.
LEMMA NearChildren ==
  ASSUME AppOK, NEW D \in SUBSET Sources, NEW x \in Int,
         \A s \in Sources : distance(x, source[s]) <= Radius => s \in D,
         NEW stencil \in stencils("radius", restricted(source, D), x)
  PROVE  isStencil(x, stencil)
<1> DEFINE C == restricted(source, D)
<1>1. C \in [D -> Int] /\ \A s \in D : C[s] = source[s]
  BY DEF restricted, AppOK
<1>2. IsFiniteSet(D) /\ "radius" \in Searches
  BY CentersAssumption, FS_Subset DEF Searches
<1>3. stencil \in stencils("radius", C, x)
  OBVIOUS
<1> HIDE DEF C
<1>4. PICK S \in pairings("radius", C, x) :
        S \in SUBSET D /\ stencil \in Bijection(1 .. Cardinality(S), S)
  BY <1>1, <1>2, <1>3, ChildrenAreFound
<1>5. PICK i \in 0 .. Guard - 1 : S = within(C, x, 10 * Radius, i)
  BY <1>4 DEF pairings, radiusSearch
<1>6. Radius \in Nat /\ 10 * Radius \in Int /\ i \in Nat
  BY CloudAssumption
<1>7. ASSUME NEW s \in Sources \ S
      PROVE  Radius <= distance(x, source[s])
  <2> DEFINE d == distance(x, source[s])
  <2>1. d \in Nat
    BY DistanceType DEF AppOK
  <2> SUFFICES ASSUME ~ (Radius <= d) PROVE FALSE
    OBVIOUS
  <2>2. s \in D
    <3>1. d <= Radius
      <4> HIDE DEF d
      <4> QED
        BY <1>6, <2>1
    <3> QED
      BY <3>1
  <2>3. 10 * distance(x, C[s]) < 10 * Radius
    <3>1. distance(x, C[s]) = d
      BY <1>1, <2>2
    <3> HIDE DEF d
    <3>2. 10 * d < 10 * Radius
      BY <1>6, <2>1
    <3> QED
      BY <3>1, <3>2
  <2>4. s \in within(C, x, 10 * Radius, i)
    BY <1>1, <1>6, <2>2, <2>3, InnerCentres
  <2> QED
    BY <1>5, <1>7, <2>4
<1> QED
  BY <1>4, <1>7 DEF isStencil

\* The rows a rank inserts.
LEMMA InsertedRows ==
  ASSUME StagesOK, DistributionOK, PairsOK, NEW r \in Ranks, InsertRows(r),
         NEW k \in Rounds, k = round[r]
  PROVE  /\ d_pairings' = [h \in Rounds |-> d_pairings'[h]]
         /\ \A h \in Rounds : \A c : h # k \/ c \notin localParents(k, r) =>
              /\ c \in DOMAIN d_pairings[h] => c \in DOMAIN d_pairings'[h]
              /\ c \in DOMAIN d_pairings[h] => d_pairings'[h][c] = d_pairings[h][c]
         /\ \A c \in localParents(k, r) :
              /\ c \in DOMAIN d_pairings'[k]
              /\ search = "radius" => isStencil(parent(k)[c], d_pairings'[k][c])
<1>1. PICK children \in [localParents(round[r], r) ->
                           UNION {stencils(search, arrived(r), p) : p \in local(r)}] :
        /\ \A c \in DOMAIN children :
             children[c] \in stencils(search, arrived(r), parent(round[r])[c])
        /\ d_pairings' = [d_pairings EXCEPT ![round[r]] =
             [c \in DOMAIN @ \cup DOMAIN children |->
                IF c \in DOMAIN children THEN children[c] ELSE @[c]]]
  BY Zenon DEF InsertRows
<1> DEFINE v == [c \in DOMAIN d_pairings[k] \cup DOMAIN children |->
                   IF c \in DOMAIN children THEN children[c] ELSE d_pairings[k][c]]
<1>2. d_pairings = [h \in Rounds |-> d_pairings[h]]
  BY DEF PairsOK
<1>3. DOMAIN children = localParents(k, r)
  OBVIOUS
<1>4. /\ d_pairings' = [h \in Rounds |-> d_pairings'[h]]
      /\ d_pairings'[k] = v
      /\ \A h \in Rounds \ {k} : d_pairings'[h] = d_pairings[h]
  <2>1. d_pairings' = [d_pairings EXCEPT ![k] = v]
    BY <1>1
  <2> HIDE DEF v
  <2> QED
    BY <1>2, <2>1
<1>5. ASSUME search = "radius", NEW c \in localParents(k, r)
      PROVE  isStencil(parent(k)[c], children[c])
  <2>1. /\ AppOK /\ r \in received[k]
        /\ dist_sources[k][r] \in SUBSET Sources /\ parent(k)[c] \in Int
    <3>1. AppOK /\ stage[r] = "centers"
      BY DEF StagesOK, InsertRows
    <3>2. r \in received[k]
      BY <3>1 DEF received, haveLeft, left
    <3> QED
      BY <3>1, <3>2, ParentsOf DEF DistributionOK, SourcesOK
  <2>2. \A s \in Sources : distance(parent(k)[c], source[s]) <= Radius
                             => s \in dist_sources[k][r]
    BY <1>5, <2>1, NearSourcesArrive
  <2>3. children[c] \in stencils("radius", restricted(source, dist_sources[k][r]),
                                 parent(k)[c])
    BY <1>1, <1>3, <1>5 DEF arrived
  <2> QED
    BY <2>1, <2>2, <2>3, NearChildren
<1> QED
  BY <1>3, <1>4, <1>5

\* Only by inserting its rows a rank comes past that.
LEMMA InsertedMoves ==
  ASSUME StagesOK, NEW r \in Ranks, SplineStep(r),
         NEW k \in Rounds, NEW q \in Ranks, q \in inserted'[k]
  PROVE  q \in inserted[k] \/ (q = r /\ k = round[r] /\ InsertRows(r))
<1> DEFINE early == {"new", "gather", "send", "centers", "aborted"}
<1>1. stage \in [Ranks -> SetupStages \cup ApplyStages] /\ round \in [Ranks -> Rounds]
  BY DEF StagesOK
<1>2. left(k, q, early)'
  BY DEF inserted, haveLeft
<1>3. left(k, q, early) \/ (q = r /\ k = round[r] /\ InsertRows(r))
  <2>1. CASE q # r
    BY <1>2, <2>1, Moves DEF left
  <2>2. CASE q = r /\ FillComplete(r)
    <3>1. /\ stage[r] = "fill" /\ round'[r] = "targets"
          /\ stage'[r] = IF round[r] = "sources" THEN "new" ELSE "ready"
      BY <1>1, <2>2 DEF FillComplete, goTo
    <3> QED
      BY <1>1, <1>2, <2>2, <3>1 DEF left, Rounds
  <2>3. CASE q = r /\ ~ FillComplete(r) /\ ~ InsertRows(r)
    <3>1. /\ round' = round
          /\ stage'[r] \notin early => stage[r] \notin early
      BY <1>1, <2>3 DEF SplineStep, GatherDomain, SendCenters, ReceiveCenters,
         Abort, BeginOperator, Polynomial, AddBasis, Contribute, Reduce, goTo
    <3> QED
      BY <1>2, <2>3, <3>1 DEF left
  <2>4. CASE q = r /\ InsertRows(r)
    <3>1. round' = round /\ stage[r] = "centers"
      BY <2>4 DEF InsertRows
    <3> QED
      BY <1>1, <1>2, <2>4, <3>1 DEF left
  <2> QED
    BY <2>1, <2>2, <2>3, <2>4
<1> QED
  BY <1>3 DEF inserted, haveLeft

LEMMA PairsStep ==
  ASSUME SetupInv, NEW r \in Ranks, SplineStep(r)
  PROVE  PairsOK'
<1> USE DEF SetupInv
<1>1. /\ app' = app /\ AppOK
      /\ search' = search /\ \A h : parent(h)' = parent(h)
      /\ \A h, q : localParents(h, q)' = localParents(h, q)
      /\ \A x, q : isStencil(x, q)' <=> isStencil(x, q)
  BY Moves, ProgramKept
<1>2. CASE InsertRows(r)
  <2> DEFINE k == round[r]
  <2>1. k \in Rounds
    BY DEF StagesOK
  <2>2. /\ d_pairings' = [h \in Rounds |-> d_pairings'[h]]
        /\ \A h \in Rounds : \A c : h # k \/ c \notin localParents(k, r) =>
             /\ c \in DOMAIN d_pairings[h] => c \in DOMAIN d_pairings'[h]
             /\ c \in DOMAIN d_pairings[h] => d_pairings'[h][c] = d_pairings[h][c]
        /\ \A c \in localParents(k, r) :
             /\ c \in DOMAIN d_pairings'[k]
             /\ search = "radius" => isStencil(parent(k)[c], d_pairings'[k][c])
    <3>1. DistributionOK
      BY DEF DistributionOK
    <3> QED
      BY <1>2, <2>1, <3>1, InsertedRows
  <2> HIDE DEF k
  <2>3. ASSUME NEW h \in Rounds, NEW q \in Ranks, q \in inserted'[h],
               NEW c \in localParents(h, q)
        PROVE  /\ c \in DOMAIN d_pairings'[h]
               /\ search = "radius" => isStencil(parent(h)[c], d_pairings'[h][c])
    <3>1. CASE h = k /\ q = r
      BY <2>2, <3>1
    <3>2. CASE h # k \/ q # r
      <4>1. q \in inserted[h]
        BY <2>3, <3>2, InsertedMoves DEF k
      <4>2. h # k \/ c \notin localParents(k, r)
        BY <1>1, <2>1, <3>2, ParentsOf
      <4>3. /\ c \in DOMAIN d_pairings[h]
            /\ search = "radius" => isStencil(parent(h)[c], d_pairings[h][c])
        BY <4>1 DEF PairsOK
      <4> QED
        BY <2>2, <4>2, <4>3
    <3> QED
      BY <3>1, <3>2
  <2> QED
    BY <1>1, <2>2, <2>3 DEF PairsOK
<1>3. CASE ~ InsertRows(r)
  <2>1. d_pairings' = d_pairings
    BY <1>3 DEF SplineStep, GatherDomain, SendCenters, ReceiveCenters, Abort,
       FillComplete, BeginOperator, Polynomial, AddBasis, Contribute, Reduce,
       setupVars
  <2>2. \A k \in Rounds, q \in Ranks : q \in inserted'[k] => q \in inserted[k]
    BY <1>3, InsertedMoves
  <2> QED
    BY <1>1, <2>1, <2>2 DEF PairsOK
<1> QED
  BY <1>2, <1>3

LEMMA SetupStep ==
  ASSUME SetupInv, NEW r \in Ranks, SplineStep(r)
  PROVE  SetupInv'
<1>1. StagesOK'
  BY Moves DEF SetupInv
<1>2. DistributionOK'
  BY DistributionStep DEF SetupInv, DistributionOK
<1>3. PairsOK'
  BY PairsStep
<1> QED
  BY <1>1, <1>2, <1>3 DEF SetupInv, DistributionOK

LEMMA SetupStutter ==
  ASSUME SetupInv, UNCHANGED splineVars
  PROVE  SetupInv'
<1> USE DEF SetupInv
<1>1. /\ app' = app /\ stage' = stage /\ round' = round /\ boxes' = boxes
      /\ center_sends' = center_sends /\ dist_sources' = dist_sources
      /\ d_pairings' = d_pairings
  BY DEF splineVars, setupVars
<1>2. /\ AppOK' /\ search' = search /\ source' = source
      /\ \A h : parent(h)' = parent(h)
      /\ \A h, q : localParents(h, q)' = localParents(h, q)
      /\ \A x, q : isStencil(x, q)' <=> isStencil(x, q)
  BY <1>1, ProgramKept DEF StagesOK
<1>3. /\ gathered' = gathered /\ sent' = sent
      /\ received' = received /\ inserted' = inserted
  BY <1>1 DEF gathered, sent, received, inserted, haveLeft, left
<1>4. StagesOK' /\ RanksInOrder'
  BY <1>1, <1>2, <1>3 DEF StagesOK, RanksInOrder
<1>5. BoxesHold'
  BY <1>1, <1>2, <1>3 DEF BoxesHold
<1>6. SendsOK'
  BY <1>1, <1>2, <1>3 DEF SendsOK
<1>7. SourcesOK'
  BY <1>1, <1>3 DEF SourcesOK
<1>8. PairsOK'
  BY <1>1, <1>2, <1>3 DEF PairsOK
<1> QED
  BY <1>4, <1>5, <1>6, <1>7, <1>8

\* In both rounds, however far apart the ranks are: what is near is sent and
\* arrives, and every parent gets the sources within the radius for its children.
THEOREM SplineSetupInvariant == SplineSpec => []SetupInv
<1>1. SplineInit => SetupInv
  BY SetupInit
<1>2. SetupInv /\ [SplineNext]_splineVars => SetupInv'
  BY SetupStep, SetupStutter DEF SplineNext
<1> QED
  BY <1>1, <1>2, PTL DEF SplineSpec

-----------------------------------------------------------------------------
(***************************************************************************)
(* apply(): the vectors, the contributions and the results.                *)
(***************************************************************************)
VectorOK(q) ==
  /\ X[q] \in Seq([DOMAIN prolongated(q) -> Unknowns])
  /\ X[q] # <<>> => stage[q] \in ApplyStages
  /\ stage[q] \in ApplyStages \ {"ready"} => X[q] # <<>>
  /\ stage[q] \in {"transpose", "reduce"} => operator(q) = "C"
  /\ stage[q] = "reduce" => q = 0

\* How many of the first n operators are C.
timesC(n) == Cardinality({j \in 1 .. n : app.operators[j] = "C"})

\* The last operator to which q has contributed, if it had to.
finished(q) ==
  IF stage[q] \in {"polynomial", "basis", "transpose"}
  THEN applied(q) - 1 ELSE applied(q)

\* A rank's part of the moment p of the vector of the n-th operator.
part(n, q, p) ==
  SumFunction([i \in DOMAIN prolongated(q) |-> P(q)[i][p] * X[q][n][i]])

\* What a rank has contributed are its parts, for each C it has come past.
PartsOK(q) ==
  /\ products[q] \in Seq([1 .. polynomials -> Int])
  /\ Len(products[q]) = timesC(finished(q))
  /\ \A n \in 1 .. finished(q) : app.operators[n] = "C" =>
       \A p \in 1 .. polynomials : products[q][timesC(n)][p] = part(n, q, p)

\* The sources that count for a parent at x.
heard(x) == {s \in Sources : phi(x, s) # 0}

\* The unknown of s in the vector of the n-th operator.
value(n, s) == X[app.SourceOwner[s]][n][position(s)]

\* A result y at x is that of the polynomial, or of the whole row, with the
\* vector of the n-th operator, as far as it counts, and all of this is there.
isAffine(n, x, y) ==
  n <= applied(0) /\ y = X[0][n][1] + X[0][n][2] * x

isRow(n, x, y) ==
  /\ n <= applied(0)
  /\ \A s \in heard(x) : n <= applied(app.SourceOwner[s])
  /\ y = X[0][n][1] + X[0][n][2] * x
           + SumFunctionOnSet([s \in Sources |-> phi(x, s) * value(n, s)], heard(x))

\* The rows of an operator on a rank, those that stand for a place, and where.
rows(o, q) ==
  IF o = "C" THEN DOMAIN prolongated(q) ELSE DOMAIN ordered(localParents("targets", q))

placed(o, q) ==
  IF o = "C" THEN {i \in DOMAIN prolongated(q) : prolongated(q)[i] \in Sources}
  ELSE DOMAIN ordered(localParents("targets", q))

placeOf(o, q, i) ==
  IF o = "C" THEN source[prolongated(q)[i]]
  ELSE target[ordered(localParents("targets", q))[i]]

ResultOK(q) ==
  X[q] # <<>> =>
    /\ stage[q] # "polynomial" =>
         Y[q] = [i \in rows(operator(q), q) |-> Y[q][i]]
    /\ stage[q] = "basis" =>
         \A i \in placed(operator(q), q) :
           isAffine(applied(q), placeOf(operator(q), q, i), Y[q][i])
    /\ stage[q] \in {"transpose", "reduce", "ready"} =>
         \A i \in placed(operator(q), q) :
           isRow(applied(q), placeOf(operator(q), q, i), Y[q][i])

\* A moment of the vector of the n-th operator, which all ranks have.
isMoment(n, p, y) ==
  /\ \A q \in Ranks : n <= applied(q)
  /\ y = SumFunctionOnSet([q \in Ranks |-> part(n, q, p)], Ranks)

MomentsOK ==
  X[0] # <<>> /\ operator(0) = "C" =>
    \A p \in 1 .. polynomials :
      /\ stage[0] \in {"basis", "transpose", "reduce"} => Y[0][p] = 0
      /\ stage[0] = "ready" => isMoment(applied(0), p, Y[0][p])

TablesOK ==
  /\ X = [q \in Ranks |-> X[q]]
  /\ Y = [q \in Ranks |-> Y[q]]
  /\ products = [q \in Ranks |-> products[q]]

RankOK(q) ==
  /\ VectorOK(q)
  /\ PartsOK(q)
  /\ search = "radius" => ResultOK(q) /\ (q = 0 => MomentsOK)

SolveInv == TablesOK /\ \A q \in Ranks : RankOK(q)

\* The count grows by one at each C.
LEMMA TimesStep ==
  ASSUME NEW n \in Nat
  PROVE  /\ timesC(n) \in Nat
         /\ timesC(n + 1) = timesC(n) + IF app.operators[n + 1] = "C" THEN 1 ELSE 0
<1> DEFINE T(m) == {j \in 1 .. m : app.operators[j] = "C"}
<1>1. \A m \in Nat : IsFiniteSet(T(m))
  <2> SUFFICES ASSUME NEW m \in Nat PROVE IsFiniteSet(T(m))
    OBVIOUS
  <2>1. T(m) \in SUBSET (1 .. m)
    OBVIOUS
  <2>2. IsFiniteSet(1 .. m)
    BY FS_Interval
  <2> QED
    BY <2>1, <2>2, FS_Subset
<1>2. Cardinality(T(n)) \in Nat
  BY <1>1, FS_CardinalityType
<1>3. CASE app.operators[n + 1] = "C"
  <2>1. T(n + 1) = T(n) \cup {n + 1} /\ n + 1 \notin T(n)
    BY <1>3
  <2>2. IsFiniteSet(T(n))
    BY <1>1
  <2> HIDE DEF T
  <2>3. Cardinality(T(n) \cup {n + 1}) = Cardinality(T(n)) + 1
    BY <2>1, <2>2, FS_AddElement
  <2> QED
    BY <1>2, <1>3, <2>1, <2>3 DEF timesC, T
<1>4. CASE app.operators[n + 1] # "C"
  <2>1. T(n + 1) = T(n)
    BY <1>4
  <2> HIDE DEF T
  <2> QED
    BY <1>2, <1>4, <2>1 DEF timesC, T
<1> QED
  BY <1>3, <1>4

LEMMA TimesType ==
  ASSUME NEW n \in Nat
  PROVE  timesC(n) \in Nat
  BY TimesStep

LEMMA TimesNone == timesC(0) = 0
<1>1. {j \in 1 .. 0 : app.operators[j] = "C"} = {}
  OBVIOUS
<1> QED
  BY <1>1, FS_EmptySet DEF timesC

LEMMA TimesGrow ==
  ASSUME NEW n \in Nat, NEW m \in 0 .. n
  PROVE  timesC(m) <= timesC(n)
<1> DEFINE T(k) == {j \in 1 .. k : app.operators[j] = "C"}
<1>1. T(m) \in SUBSET T(n)
  OBVIOUS
<1>2. IsFiniteSet(T(n))
  <2>1. T(n) \in SUBSET (1 .. n)
    OBVIOUS
  <2>2. IsFiniteSet(1 .. n)
    BY FS_Interval
  <2> QED
    BY <2>1, <2>2, FS_Subset
<1> HIDE DEF T
<1>3. Cardinality(T(m)) <= Cardinality(T(n))
  BY <1>1, <1>2, FS_Subset
<1> QED
  BY <1>3 DEF timesC, T

\* The count of an operator C is not that of any before it.
LEMMA TimesAt ==
  ASSUME NEW n \in Nat \ {0}, app.operators[n] = "C"
  PROVE  /\ timesC(n) \in Nat \ {0}
         /\ \A m \in 0 .. n - 1 : timesC(m) \in Nat /\ timesC(m) < timesC(n)
<1>1. n - 1 \in Nat /\ (n - 1) + 1 = n
  OBVIOUS
<1>2. timesC(n - 1) \in Nat /\ timesC((n - 1) + 1) = timesC(n - 1) + 1
  BY <1>1, TimesStep
<1>3. timesC(n) = timesC(n - 1) + 1
  BY <1>1, <1>2
<1>4. \A m \in 0 .. n - 1 : timesC(m) \in Nat /\ timesC(m) <= timesC(n - 1)
  <2> SUFFICES ASSUME NEW m \in 0 .. n - 1
               PROVE  timesC(m) \in Nat /\ timesC(m) <= timesC(n - 1)
    OBVIOUS
  <2> QED
    BY <1>1, TimesGrow, TimesType
<1> QED
  BY <1>2, <1>3, <1>4

\* Where the values of a vector are.
LEMMA ValueType ==
  ASSUME AppOK, NEW s \in Sources, VectorOK(app.SourceOwner[s]),
         NEW n \in Nat \ {0}, n <= applied(app.SourceOwner[s])
  PROVE  value(n, s) \in Int
<1> DEFINE q == app.SourceOwner[s]
<1>1. q \in Ranks
  BY DEF AppOK
<1>2. X[q] \in Seq([DOMAIN prolongated(q) -> Unknowns])
  BY DEF VectorOK
<1>3. position(s) \in DOMAIN prolongated(q)
  BY <1>1, PositionOf
<1> HIDE DEF q
<1>4. X[q][n] \in [DOMAIN prolongated(q) -> Unknowns]
  BY <1>2 DEF applied, q
<1> QED
  BY <1>3, <1>4, UnknownsAssumption DEF value, q

\* The row over the children of a parent at x is that over the sources that count.
LEMMA HeardSum ==
  ASSUME AppOK, search = "radius", NEW x \in placesOf(app),
         NEW stencil, isStencil(x, stencil),
         NEW r \in Ranks, applied(r) \in Nat \ {0},
         \A q \in Ranks : VectorOK(q),
         NEW v,
         \A i \in DOMAIN stencil :
           /\ applied(app.SourceOwner[stencil[i]]) >= applied(r)
           /\ v[stencil[i]] = unknown(r, stencil[i])
  PROVE  /\ \A s \in heard(x) : applied(r) <= applied(app.SourceOwner[s])
         /\ basisRow(x, stencil, v)
              = SumFunctionOnSet([s \in Sources |-> phi(x, s) * value(applied(r), s)],
                                 heard(x))
<1> DEFINE n == applied(r)
           w == [s \in Sources |-> phi(x, s) * value(n, s)]
           R == Range(stencil)
           g == [s \in Sources |-> IF s \in R THEN w[s] ELSE 0]
           f == [i \in DOMAIN stencil |-> phi(x, stencil[i]) * v[stencil[i]]]
<1>1. PICK S \in SUBSET Sources :
        /\ stencil \in Bijection(1 .. Cardinality(S), S)
        /\ \A s \in Sources \ S : Radius <= distance(x, source[s])
  BY DEF isStencil
<1>2. /\ R = S /\ \A i \in DOMAIN stencil : stencil[i] \in R
      /\ \A s \in R : \E i \in DOMAIN stencil : stencil[i] = s
  BY <1>1 DEF Bijection, Injection, Surjection, Range
<1>3. heard(x) \in SUBSET R
  BY <1>1, <1>2, BasisOf DEF heard
<1>4. \A q \in Ranks : applied(q) \in Nat
  BY DEF VectorOK, applied
<1>5. \A s \in R : /\ s \in Sources /\ app.SourceOwner[s] \in Ranks
                   /\ n <= applied(app.SourceOwner[s])
                   /\ v[s] = unknown(r, s)
  BY <1>1, <1>2, <1>4 DEF AppOK
<1>6. \A s \in R : value(n, s) \in Int /\ unknown(r, s) = value(n, s)
  <2> SUFFICES ASSUME NEW s \in R
               PROVE  value(n, s) \in Int /\ unknown(r, s) = value(n, s)
    OBVIOUS
  <2> DEFINE q == app.SourceOwner[s]
  <2>1. s \in Sources /\ q \in Ranks
    BY <1>5
  <2>2. /\ position(s) \in DOMAIN prolongated(q)
        /\ prolongated(q)[position(s)] = s
        /\ \A j \in DOMAIN prolongated(q) : prolongated(q)[j] = s => j = position(s)
    BY <2>1, PositionOf
  <2>3. unknown(r, s) = value(n, s)
    BY <2>2 DEF unknown, value
  <2>4. value(n, s) \in Int
    BY <1>5, <2>1, ValueType
  <2> QED
    BY <2>3, <2>4
<1>7. \A s \in Sources : phi(x, s) \in Int
  BY BasisOf
<1>8. \A s \in R : w[s] \in Int /\ (phi(x, s) = 0 => w[s] = 0)
  BY <1>5, <1>6, <1>7
<1> HIDE DEF w
<1>9. /\ \A s \in Sources : g[s] \in Int
      /\ \A s \in Sources : phi(x, s) = 0 => g[s] = 0
  BY <1>8
<1>10. \A i \in DOMAIN stencil : f[i] = g[stencil[i]]
  <2> SUFFICES ASSUME NEW i \in DOMAIN stencil PROVE f[i] = g[stencil[i]]
    OBVIOUS
  <2>1. stencil[i] \in R
    BY <1>2
  <2> HIDE DEF R
  <2>2. g[stencil[i]] = w[stencil[i]] /\ v[stencil[i]] = value(n, stencil[i])
    BY <1>5, <1>6, <2>1
  <2> QED
    BY <1>5, <2>1, <2>2 DEF w
<1> HIDE DEF R
<1>11. SumFunctionOnSet(f, DOMAIN stencil) = SumFunctionOnSet(g, Sources)
  <2> HIDE DEF f, g
  <2> QED
    BY <1>9, <1>10, StencilSum
<1>12. SumFunctionOnSet(g, Sources) = SumFunctionOnSet(g, heard(x))
  <2>1. heard(x) \in SUBSET Sources /\ \A s \in Sources \ heard(x) : phi(x, s) = 0
    BY DEF heard
  <2> HIDE DEF g
  <2> QED
    BY <1>9, <2>1, SumSupport, CentersAssumption
<1>13. SumFunctionOnSet(g, heard(x)) = SumFunctionOnSet(w, heard(x))
  <2>1. heard(x) \in SUBSET Sources /\ IsFiniteSet(heard(x))
    BY CentersAssumption, FS_Subset DEF heard
  <2>2. \A s \in heard(x) : g[s] = w[s]
    BY <1>3, <2>1
  <2> HIDE DEF g
  <2> QED
    BY <2>1, <2>2, SumSame
<1>14. basisRow(x, stencil, v) = SumFunctionOnSet(f, DOMAIN stencil)
  BY DEF basisRow, SumFunction, parentSupportRadius, phi
<1>15. \A s \in heard(x) : n <= applied(app.SourceOwner[s])
  BY <1>3, <1>5
<1> HIDE DEF f, g
<1> QED
  BY <1>11, <1>12, <1>13, <1>14, <1>15 DEF w

-----------------------------------------------------------------------------
(***************************************************************************)
(* apply(): what a step of one rank leaves alone.                          *)
(***************************************************************************)
\* Vectors are only added.
VectorsGrow ==
  \A q \in Ranks : /\ applied(q) \in Nat /\ applied(q)' \in Nat
                   /\ applied(q) <= applied(q)'
                   /\ \A n \in 1 .. applied(q) : X'[q][n] = X[q][n]

LEMMA RowsKept ==
  ASSUME app' = app
  PROVE  /\ \A x, s : phi(x, s)' = phi(x, s)
         /\ \A x : heard(x)' = heard(x)
         /\ \A s : position(s)' = position(s)
         /\ \A q : prolongated(q)' = prolongated(q) /\ P(q)' = P(q)
         /\ \A n : timesC(n)' = timesC(n)
         /\ \A o, q : rows(o, q)' = rows(o, q) /\ placed(o, q)' = placed(o, q)
         /\ \A o, q, i : placeOf(o, q, i)' = placeOf(o, q, i)
<1>1. source' = source /\ target' = target
  BY DEF source, target
<1>2. /\ \A x, s : phi(x, s)' = phi(x, s)
      /\ \A x : heard(x)' = heard(x)
  BY <1>1 DEF phi, heard
<1>3. /\ \A q : localSources(q)' = localSources(q)
      /\ \A k, q : localParents(k, q)' = localParents(k, q)
  BY ProgramKept
<1>4. \A s : position(s)' = position(s)
  BY <1>3 DEF position, localSources
<1>5. \A q : prolongated(q)' = prolongated(q)
  BY <1>3 DEF prolongated, localSources
<1>6. \A q : P(q)' = P(q)
  BY <1>1, <1>5 DEF P, prolongated, localSources
<1>7. \A n : timesC(n)' = timesC(n)
  BY DEF timesC
<1>8. /\ \A o, q : rows(o, q)' = rows(o, q) /\ placed(o, q)' = placed(o, q)
      /\ \A o, q, i : placeOf(o, q, i)' = placeOf(o, q, i)
  BY <1>1, <1>3, <1>5 DEF rows, placed, placeOf, prolongated, localSources, localParents
<1> QED
  BY <1>2, <1>4, <1>5, <1>6, <1>7, <1>8

\* What has been computed from the vectors that are there stays right.
LEMMA RowStays ==
  ASSUME AppOK, app' = app, VectorsGrow, NEW n \in Nat \ {0}, 0 \in Ranks
  PROVE  /\ \A x, y : isAffine(n, x, y) => isAffine(n, x, y)'
         /\ \A x, y : isRow(n, x, y) => isRow(n, x, y)'
         /\ \A q \in Ranks : \A p : n <= applied(q) => part(n, q, p)' = part(n, q, p)
         /\ \A p, y : isMoment(n, p, y) => isMoment(n, p, y)'
<1>1. \A q \in Ranks : n <= applied(q) => /\ n <= applied(q)'
                                          /\ X'[q][n] = X[q][n]
  BY DEF VectorsGrow
<1>2. ASSUME NEW x, NEW y, isAffine(n, x, y)
      PROVE  isAffine(n, x, y)'
  BY <1>1, <1>2 DEF isAffine
<1>3. ASSUME NEW x, NEW y, isRow(n, x, y)
      PROVE  isRow(n, x, y)'
  <2> DEFINE f == [s \in Sources |-> phi(x, s) * value(n, s)]
             g == [s \in Sources |-> phi(x, s)' * value(n, s)']
  <2>1. heard(x) \in SUBSET Sources /\ IsFiniteSet(heard(x))
    BY CentersAssumption, FS_Subset DEF heard
  <2>2. \A s \in heard(x) : app.SourceOwner[s] \in Ranks
    BY <2>1 DEF AppOK
  <2>3. \A s \in heard(x) : n <= applied(app.SourceOwner[s])
    BY <1>3 DEF isRow
  <2>4. \A s \in heard(x) : value(n, s)' = value(n, s)
    <3>1. \A s : position(s)' = position(s)
      BY RowsKept
    <3> QED
      BY <1>1, <2>2, <2>3, <3>1 DEF value
  <2>5. \A s \in heard(x) : f[s] = g[s]
    <3>1. \A s : phi(x, s)' = phi(x, s)
      BY RowsKept
    <3> QED
      BY <2>1, <2>4, <3>1
  <2>6. heard(x)' = heard(x)
    BY RowsKept
  <2>7. SumFunctionOnSet(f, heard(x)) = SumFunctionOnSet(g, heard(x))
    <3> HIDE DEF f, g
    <3> QED
      BY <2>1, <2>5, SumSame
  <2>8. n <= applied(0)' /\ X'[0][n] = X[0][n]
    BY <1>1, <1>3 DEF isRow
  <2>9. \A s \in heard(x) : n <= applied(app.SourceOwner[s])'
    BY <1>1, <2>2, <2>3
  <2>10. y = X[0][n][1] + X[0][n][2] * x + SumFunctionOnSet(f, heard(x))
    BY <1>3 DEF isRow
  <2> QED
    BY <2>6, <2>7, <2>8, <2>9, <2>10 DEF isRow
<1>4. ASSUME NEW q \in Ranks, NEW p, n <= applied(q)
      PROVE  part(n, q, p)' = part(n, q, p)
  <2>1. X'[q][n] = X[q][n] /\ prolongated(q)' = prolongated(q) /\ P(q)' = P(q)
    BY <1>1, <1>4, RowsKept
  <2> QED
    BY <2>1 DEF part
<1>5. ASSUME NEW p, NEW y, isMoment(n, p, y)
      PROVE  isMoment(n, p, y)'
  <2>1. \A q \in Ranks : n <= applied(q) /\ n <= applied(q)'
    BY <1>1, <1>5 DEF isMoment
  <2>2. \A q \in Ranks : part(n, q, p)' = part(n, q, p)
    BY <1>4, <2>1
  <2> QED
    BY <1>5, <2>1, <2>2 DEF isMoment
<1> QED
  BY <1>2, <1>3, <1>4, <1>5

\* Nothing of rank q changes.
isKept(q) ==
  X'[q] = X[q] /\ Y'[q] = Y[q] /\ products'[q] = products[q] /\ stage'[q] = stage[q]

LEMMA KeptOK ==
  ASSUME AppOK, app' = app, VectorsGrow, NEW q \in Ranks, isKept(q)
  PROVE  /\ VectorOK(q) => VectorOK(q)'
         /\ VectorOK(q) /\ PartsOK(q) => PartsOK(q)'
         /\ VectorOK(q) /\ ResultOK(q) => ResultOK(q)'
<1>1. /\ applied(q)' = applied(q) /\ operator(q)' = operator(q)
      /\ finished(q)' = finished(q)
  BY DEF isKept, applied, operator, finished
<1>2. ASSUME VectorOK(q)
      PROVE  VectorOK(q)'
  <2>1. prolongated(q)' = prolongated(q)
    BY RowsKept
  <2> QED
    BY <1>1, <1>2, <2>1 DEF VectorOK, isKept
<1>3. ASSUME VectorOK(q), PartsOK(q)
      PROVE  PartsOK(q)'
  <2>1. timesC(finished(q))' = timesC(finished(q))
    BY <1>1, RowsKept
  <2>2. finished(q) \in Int /\ finished(q) <= applied(q)
    BY DEF finished, VectorsGrow
  <2>3. \A n \in 1 .. finished(q) : app.operators[n] = "C" =>
          \A p \in 1 .. polynomials : products'[q][timesC(n)'][p] = part(n, q, p)'
    <3> SUFFICES ASSUME NEW n \in 1 .. finished(q), app.operators[n] = "C",
                        NEW p \in 1 .. polynomials
                 PROVE  products'[q][timesC(n)'][p] = part(n, q, p)'
      OBVIOUS
    <3>1. n \in Nat \ {0} /\ n <= applied(q)
      BY <2>2 DEF VectorsGrow
    <3>2. part(n, q, p)' = part(n, q, p)
      BY <3>1, RowStays, RankAssumption
    <3>3. timesC(n)' = timesC(n)
      BY RowsKept
    <3>4. products[q][timesC(n)][p] = part(n, q, p)
      BY <1>3 DEF PartsOK
    <3> QED
      BY <3>2, <3>3, <3>4 DEF isKept
  <2> QED
    BY <1>1, <1>3, <2>1, <2>3 DEF PartsOK, isKept
<1>4. ASSUME VectorOK(q), ResultOK(q)
      PROVE  ResultOK(q)'
  <2> SUFFICES ASSUME X[q] # <<>>
               PROVE  ResultOK(q)'
    BY DEF ResultOK, isKept
  <2>1. applied(q) \in Nat \ {0}
    BY <1>4 DEF VectorOK, applied
  <2>2. PICK n \in Nat \ {0} : n = applied(q)
    BY <2>1
  <2>3. PICK o : o = operator(q)
    OBVIOUS
  <2>4. \A i : placeOf(o, q, i)' = placeOf(o, q, i)
    BY RowsKept
  <2>5. rows(o, q)' = rows(o, q) /\ placed(o, q)' = placed(o, q)
    BY RowsKept
  <2>6. \A x, y : /\ isAffine(n, x, y) => isAffine(n, x, y)'
                  /\ isRow(n, x, y) => isRow(n, x, y)'
    BY RowStays, RankAssumption
  <2>7. applied(q)' = n /\ operator(q)' = o
    BY <1>1, <2>2, <2>3
  <2>8. stage[q] # "polynomial" => Y[q] = [i \in rows(o, q) |-> Y[q][i]]
    BY <1>4, <2>3 DEF ResultOK
  <2>9. stage[q] = "basis" =>
          \A i \in placed(o, q) : isAffine(n, placeOf(o, q, i), Y[q][i])
    BY <1>4, <2>2, <2>3 DEF ResultOK
  <2>10. stage[q] \in {"transpose", "reduce", "ready"} =>
          \A i \in placed(o, q) : isRow(n, placeOf(o, q, i), Y[q][i])
    BY <1>4, <2>2, <2>3 DEF ResultOK
  <2>11. stage'[q] # "polynomial" => Y'[q] = [i \in rows(o, q)' |-> Y'[q][i]]
    BY <2>5, <2>8 DEF isKept
  <2>12. stage'[q] = "basis" =>
          \A i \in placed(o, q)' : isAffine(n, placeOf(o, q, i), Y[q][i])'
    BY <2>4, <2>5, <2>6, <2>9 DEF isKept
  <2>13. stage'[q] \in {"transpose", "reduce", "ready"} =>
          \A i \in placed(o, q)' : isRow(n, placeOf(o, q, i), Y[q][i])'
    BY <2>4, <2>5, <2>6, <2>10 DEF isKept
  <2> QED
    BY <2>7, <2>11, <2>12, <2>13 DEF ResultOK
<1> QED
  BY <1>2, <1>3, <1>4

LEMMA RankKept ==
  ASSUME AppOK, app' = app, VectorsGrow, NEW q \in Ranks, isKept(q), RankOK(q)
  PROVE  RankOK(q)'
<1>1. VectorOK(q)' /\ PartsOK(q)' /\ (search = "radius" => ResultOK(q)')
  BY KeptOK DEF RankOK
<1>2. search' = search
  BY DEF search
<1>3. ASSUME q = 0, search = "radius"
      PROVE  MomentsOK'
  <2>1. MomentsOK /\ isKept(0) /\ VectorOK(0)
    BY <1>3 DEF RankOK
  <2> SUFFICES ASSUME X[0] # <<>>, operator(0) = "C"
               PROVE  MomentsOK'
    BY <2>1 DEF MomentsOK, isKept, operator, applied
  <2>2. applied(0) \in Nat \ {0}
    BY <2>1 DEF VectorOK, applied
  <2>3. PICK n \in Nat \ {0} : n = applied(0)
    BY <2>2
  <2>4. \A p, y : isMoment(n, p, y) => isMoment(n, p, y)'
    BY RowStays, RankAssumption
  <2>5. applied(0)' = n
    BY <2>1, <2>3 DEF isKept, applied
  <2>6. \A p \in 1 .. polynomials :
          /\ stage[0] \in {"basis", "transpose", "reduce"} => Y[0][p] = 0
          /\ stage[0] = "ready" => isMoment(n, p, Y[0][p])
    BY <2>1, <2>3 DEF MomentsOK
  <2>7. \A p \in 1 .. polynomials :
          /\ stage'[0] \in {"basis", "transpose", "reduce"} => Y'[0][p] = 0
          /\ stage'[0] = "ready" => isMoment(n, p, Y[0][p])'
    BY <2>1, <2>4, <2>6 DEF isKept
  <2> QED
    BY <2>5, <2>7 DEF MomentsOK
<1> QED
  BY <1>1, <1>2, <1>3 DEF RankOK

LEMMA VectorAdded ==
  ASSUME SolveInv, NEW r \in Ranks, BeginOperator(r)
  PROVE  /\ X' = [q \in Ranks |-> X'[q]]
         /\ X'[r] \in Seq([DOMAIN prolongated(r) -> Unknowns])
         /\ X'[r] # <<>> /\ applied(r)' = applied(r) + 1
         /\ \A n \in 1 .. applied(r) : X'[r][n] = X[r][n]
         /\ \A q \in Ranks \ {r} : X'[q] = X[q]
<1> DEFINE V == [DOMAIN prolongated(r) -> Unknowns]
<1>1. PICK x \in V : X' = [X EXCEPT ![r] = Append(@, x)]
  BY DEF BeginOperator
<1>2. X = [q \in Ranks |-> X[q]] /\ X[r] \in Seq(V)
  BY DEF SolveInv, TablesOK, RankOK, VectorOK
<1> HIDE DEF V
<1>3. X'[r] = Append(X[r], x)
  BY <1>1, <1>2
<1>4. \A q \in Ranks \ {r} : X'[q] = X[q]
  BY <1>1, <1>2
<1>5. X' = [q \in Ranks |-> X'[q]]
  BY <1>1, <1>2
<1>6. /\ X'[r] \in Seq(V) /\ Len(X'[r]) = Len(X[r]) + 1
      /\ \A n \in 1 .. Len(X[r]) : X'[r][n] = X[r][n]
      /\ Len(X[r]) \in Nat
  BY <1>2, <1>3
<1>7. X'[r] # <<>>
  BY <1>6
<1> QED
  BY <1>4, <1>5, <1>6, <1>7 DEF applied, V

LEMMA OthersKept ==
  ASSUME StagesOK, SolveInv, NEW r \in Ranks, SplineStep(r)
  PROVE  /\ VectorsGrow
         /\ TablesOK'
         /\ \A q \in Ranks \ {r} : isKept(q)
<1>1. /\ X = [q \in Ranks |-> X[q]]
      /\ Y = [q \in Ranks |-> Y[q]]
      /\ products = [q \in Ranks |-> products[q]]
  BY DEF SolveInv, TablesOK
<1>2. \A q \in Ranks : applied(q) \in Nat
  BY DEF SolveInv, RankOK, VectorOK, applied
<1>3. \A q \in Ranks \ {r} : stage'[q] = stage[q]
  BY Moves
<1>4. CASE BeginOperator(r)
  <2>1. Y' = Y /\ products' = products
    BY <1>4 DEF BeginOperator
  <2>2. /\ X' = [q \in Ranks |-> X'[q]]
        /\ applied(r)' = applied(r) + 1
        /\ \A n \in 1 .. applied(r) : X'[r][n] = X[r][n]
        /\ \A q \in Ranks \ {r} : X'[q] = X[q]
    BY <1>4, VectorAdded
  <2>3. VectorsGrow
    <3> SUFFICES ASSUME NEW q \in Ranks
                 PROVE  /\ applied(q) \in Nat /\ applied(q)' \in Nat
                        /\ applied(q) <= applied(q)'
                        /\ \A n \in 1 .. applied(q) : X'[q][n] = X[q][n]
      BY DEF VectorsGrow
    <3>1. CASE q = r
      BY <1>2, <2>2, <3>1
    <3>2. CASE q # r
      <4>1. X'[q] = X[q]
        BY <2>2, <3>2
      <4>2. applied(q)' = applied(q)
        BY <4>1 DEF applied
      <4> QED
        BY <1>2, <4>1, <4>2
    <3> QED
      BY <3>1, <3>2
  <2> QED
    BY <1>1, <1>3, <2>1, <2>2, <2>3 DEF TablesOK, isKept
<1>5. CASE ~ BeginOperator(r)
  <2>1. X' = X
    BY <1>5 DEF SplineStep, GatherDomain, SendCenters, ReceiveCenters, Abort,
       InsertRows, FillComplete, Polynomial, AddBasis, Contribute, Reduce,
       solveVars
  <2>2. VectorsGrow
    BY <1>2, <2>1 DEF VectorsGrow, applied
  <2>3. \/ Y' = Y
        \/ \E v : Y' = [Y EXCEPT ![r] = v]
    BY <1>5, Zenon DEF SplineStep, GatherDomain, SendCenters, ReceiveCenters, Abort,
       InsertRows, FillComplete, Polynomial, AddBasis, Contribute, Reduce,
       solveVars
  <2>4. \/ products' = products
        \/ \E v : products' = [products EXCEPT ![r] = v]
    BY <1>5 DEF SplineStep, GatherDomain, SendCenters, ReceiveCenters, Abort,
       InsertRows, FillComplete, Polynomial, AddBasis, Contribute, Reduce,
       solveVars
  <2>5. /\ Y' = [q \in Ranks |-> Y'[q]]
        /\ \A q \in Ranks \ {r} : Y'[q] = Y[q]
    BY <1>1, <2>3
  <2>6. /\ products' = [q \in Ranks |-> products'[q]]
        /\ \A q \in Ranks \ {r} : products'[q] = products[q]
    BY <1>1, <2>4
  <2> QED
    BY <1>1, <1>3, <2>1, <2>2, <2>5, <2>6 DEF TablesOK, isKept
<1> QED
  BY <1>4, <1>5

-----------------------------------------------------------------------------
(***************************************************************************)
(* apply(): the steps.                                                     *)
(***************************************************************************)
\* P has a row for every unknown.
LEMMA RowOfP ==
  ASSUME AppOK, NEW q \in Ranks, NEW i \in DOMAIN prolongated(q)
  PROVE  /\ prolongated(q)[i] \in Sources
              => /\ source[prolongated(q)[i]] \in Int
                 /\ P(q)[i][1] = 1 /\ P(q)[i][2] = source[prolongated(q)[i]]
         /\ prolongated(q)[i] \notin Sources => P(q)[i][1] = 0 /\ P(q)[i][2] = 0
         /\ P(q)[i][1] \in Int /\ P(q)[i][2] \in Int
<1>1. prolongated(q)[i] \in Sources => source[prolongated(q)[i]] \in Int
  BY DEF AppOK
<1>2. P(q)[i] = IF prolongated(q)[i] \in Sources
                THEN <<1, source[prolongated(q)[i]]>> ELSE <<0, 0>>
  BY DEF P, polynomialAt
<1> QED
  BY <1>1, <1>2

LEMMA PartType ==
  ASSUME AppOK, NEW q \in Ranks, VectorOK(q), NEW n \in 1 .. applied(q),
         NEW p \in 1 .. polynomials
  PROVE  part(n, q, p) \in Int
<1> DEFINE D == DOMAIN prolongated(q)
           f == [i \in D |-> P(q)[i][p] * X[q][n][i]]
<1>1. IsFiniteSet(D)
  <2>1. isUnknowns(q, Cardinality(localSources(q)))
    BY UnknownsOfRank
  <2>2. offset(q) \in Nat
    BY DEF offset, polynomials
  <2> QED
    BY <2>1, <2>2, FS_Interval DEF isUnknowns
<1>2. X[q][n] \in [D -> Unknowns]
  BY DEF VectorOK, applied
<1>3. ASSUME NEW i \in D
      PROVE  f[i] \in Int
  <2>1. X[q][n][i] \in Int
    BY <1>2, UnknownsAssumption
  <2>2. P(q)[i][p] \in Int
    BY RowOfP DEF polynomials
  <2> QED
    BY <2>1, <2>2
<1> HIDE DEF f
<1>4. SumFunctionOnSet(f, D) \in Int
  <2> HIDE DEF D
  <2> QED
    BY <1>1, <1>3, SumTakes
<1>5. part(n, q, p) = SumFunctionOnSet(f, D)
  BY DEF part, SumFunction, f
<1> QED
  BY <1>4, <1>5

\* A rank that is in setup() has applied nothing.
LEMMA SolveSetup ==
  ASSUME StagesOK, StagesOK', SolveInv, NEW r \in Ranks, SplineStep(r),
         stage[r] \in SetupStages
  PROVE  RankOK(r)'
<1>1. UNCHANGED solveVars /\ stage'[r] \in SetupStages \cup {"ready"}
  BY DEF SplineStep, GatherDomain, SendCenters, ReceiveCenters, Abort,
     InsertRows, FillComplete, BeginOperator, Polynomial, AddBasis, Contribute,
     Reduce, goTo, StagesOK, SetupStages, solveVars
<1>2. RankOK(r) /\ X'[r] = X[r] /\ products'[r] = products[r]
  BY <1>1 DEF SolveInv, solveVars
<1>3. X[r] = <<>>
  BY <1>2 DEF RankOK, VectorOK, SetupStages, ApplyStages
<1>4. /\ applied(r) = 0 /\ applied(r)' = 0
      /\ finished(r) = 0 /\ finished(r)' = 0
  BY <1>1, <1>2, <1>3 DEF applied, finished, SetupStages
<1>5. /\ prolongated(r)' = prolongated(r)
      /\ timesC(0)' = timesC(0)
  BY Moves, RowsKept
<1>6. VectorOK(r)'
  BY <1>1, <1>2, <1>3, <1>5 DEF RankOK, VectorOK, SetupStages, ApplyStages
<1>7. PartsOK(r)'
  <2>1. products'[r] \in Seq([1 .. polynomials -> Int])
    BY <1>2 DEF RankOK, PartsOK
  <2>2. Len(products'[r]) = timesC(finished(r))'
    BY <1>2, <1>4, <1>5 DEF RankOK, PartsOK
  <2>3. 1 .. finished(r)' = {}
    BY <1>4
  <2> QED
    BY <2>1, <2>2, <2>3 DEF PartsOK
<1>8. ResultOK(r)' /\ (r = 0 => MomentsOK')
  BY <1>2, <1>3 DEF ResultOK, MomentsOK
<1> QED
  BY <1>6, <1>7, <1>8 DEF RankOK

LEMMA SolveBegin ==
  ASSUME StagesOK, SolveInv, NEW r \in Ranks, SplineStep(r), BeginOperator(r)
  PROVE  RankOK(r)'
<1>1. /\ app' = app /\ AppOK /\ VectorsGrow /\ RankOK(r)
  BY OthersKept, Moves DEF SolveInv
<1>2. /\ X'[r] \in Seq([DOMAIN prolongated(r) -> Unknowns])
      /\ X'[r] # <<>> /\ applied(r)' = applied(r) + 1
  BY VectorAdded
<1>3. stage[r] = "ready" /\ stage'[r] = "polynomial" /\ products' = products
  BY DEF BeginOperator, goTo, StagesOK
<1>4. prolongated(r)' = prolongated(r)
  BY <1>1, RowsKept
<1>5. VectorOK(r)'
  BY <1>2, <1>3, <1>4 DEF VectorOK, ApplyStages
<1>6. PICK m \in Nat : m = applied(r)
  BY <1>1 DEF VectorsGrow
<1>7. finished(r) = m /\ finished(r)' = m
  BY <1>2, <1>3, <1>6 DEF finished
<1>8. PartsOK(r)'
  <2>1. timesC(m)' = timesC(m)
    BY <1>1, RowsKept
  <2>2. \A n \in 1 .. m : app.operators[n] = "C" =>
          \A p \in 1 .. polynomials : products'[r][timesC(n)'][p] = part(n, r, p)'
    <3> SUFFICES ASSUME NEW n \in 1 .. m, app.operators[n] = "C",
                        NEW p \in 1 .. polynomials
                 PROVE  products'[r][timesC(n)'][p] = part(n, r, p)'
      OBVIOUS
    <3>1. n \in Nat \ {0} /\ n <= applied(r)
      BY <1>6
    <3>2. part(n, r, p)' = part(n, r, p)
      BY <1>1, <3>1, RowStays, RankAssumption
    <3>3. timesC(n)' = timesC(n)
      BY <1>1, RowsKept
    <3>4. products[r][timesC(n)][p] = part(n, r, p)
      BY <1>1, <1>7 DEF RankOK, PartsOK
    <3> QED
      BY <1>3, <3>2, <3>3, <3>4
  <2> QED
    BY <1>1, <1>3, <1>7, <2>1, <2>2 DEF RankOK, PartsOK
<1>9. ResultOK(r)' /\ (r = 0 => MomentsOK')
  BY <1>3 DEF ResultOK, MomentsOK
<1> QED
  BY <1>5, <1>8, <1>9 DEF RankOK

\* A step of an operator that leaves the vectors, and what is finished.
isWithin(r) ==
  /\ X' = X /\ products' = products
  /\ finished(r)' = finished(r)

LEMMA PartsKept ==
  ASSUME AppOK, app' = app, VectorsGrow, NEW r \in Ranks, isWithin(r),
         PartsOK(r), VectorOK(r)
  PROVE  PartsOK(r)'
<1>1. PICK m : m = finished(r)
  OBVIOUS
<1>2. m \in Int /\ m <= applied(r)
  BY <1>1 DEF finished, VectorsGrow
<1>3. timesC(m)' = timesC(m)
  BY RowsKept
<1>4. \A n \in 1 .. m : app.operators[n] = "C" =>
        \A p \in 1 .. polynomials : products'[r][timesC(n)'][p] = part(n, r, p)'
  <2> SUFFICES ASSUME NEW n \in 1 .. m, app.operators[n] = "C",
                      NEW p \in 1 .. polynomials
               PROVE  products'[r][timesC(n)'][p] = part(n, r, p)'
    OBVIOUS
  <2>1. n \in Nat \ {0} /\ n <= applied(r)
    BY <1>2 DEF VectorsGrow
  <2>2. part(n, r, p)' = part(n, r, p)
    BY <2>1, RowStays, RankAssumption
  <2>3. timesC(n)' = timesC(n)
    BY RowsKept
  <2>4. products[r][timesC(n)][p] = part(n, r, p)
    BY <1>1 DEF PartsOK
  <2> QED
    BY <2>2, <2>3, <2>4 DEF isWithin
<1> QED
  BY <1>1, <1>3, <1>4 DEF PartsOK, isWithin

\* The value of the polynomial.
LEMMA DotAffine ==
  ASSUME NEW x \in Int, NEW row, row[1] = 1, row[2] = x,
         NEW v, v[1] \in Int, v[2] \in Int
  PROVE  dot(row, v) = v[1] + v[2] * x
  BY DEF dot

LEMMA DotZero ==
  ASSUME NEW row, row[1] = 0, row[2] = 0, NEW v, v[1] \in Int, v[2] \in Int
  PROVE  dot(row, v) = 0
  BY DEF dot

\* The unknowns of the polynomial.
LEMMA PolynomialUnknowns ==
  ASSUME AppOK, 0 \in Ranks, VectorOK(0)
  PROVE  /\ \A p \in 1 .. polynomials :
              p \in DOMAIN prolongated(0) /\ prolongated(0)[p] \notin Sources
         /\ \A n \in 1 .. applied(0) : X[0][n][1] \in Int /\ X[0][n][2] \in Int
<1>1. isUnknowns(0, Cardinality(localSources(0)))
  BY UnknownsOfRank
<1>2. offset(0) = 2 /\ polynomials = 2
  BY DEF offset, polynomials
<1>3. \A p \in 1 .. 2 : p \in DOMAIN prolongated(0) /\ prolongated(0)[p] \notin Sources
  BY <1>1, <1>2 DEF isUnknowns
<1>4. ASSUME NEW n \in 1 .. applied(0)
      PROVE  X[0][n][1] \in Int /\ X[0][n][2] \in Int
  <2>1. X[0][n] \in [DOMAIN prolongated(0) -> Unknowns]
    BY <1>4 DEF VectorOK, applied
  <2>2. 1 \in DOMAIN prolongated(0) /\ 2 \in DOMAIN prolongated(0)
    BY <1>3
  <2> QED
    BY <2>1, <2>2, UnknownsAssumption
<1> QED
  BY <1>2, <1>3, <1>4

LEMMA SolvePolynomial ==
  ASSUME StagesOK, SolveInv, NEW r \in Ranks, SplineStep(r), Polynomial(r)
  PROVE  RankOK(r)'
<1>1. /\ app' = app /\ AppOK /\ VectorsGrow /\ RankOK(r)
      /\ 0 \in Ranks /\ VectorOK(0)
  BY OthersKept, Moves, RankAssumption DEF SolveInv, RankOK
<1>2. /\ stage[r] = "polynomial" /\ stage'[r] = "basis"
      /\ X' = X /\ products' = products
      /\ applied(0) >= applied(r)
  BY DEF Polynomial, goTo, StagesOK
<1>3. VectorOK(r) /\ applied(r) \in Nat \ {0}
  BY <1>1, <1>2 DEF RankOK, VectorOK, applied, ApplyStages
<1>4. PICK n \in Nat \ {0} : n = applied(r)
  BY <1>3
<1>5. PICK o : o = operator(r)
  OBVIOUS
<1>6. applied(r)' = n /\ operator(r)' = o
  BY <1>1, <1>2, <1>4, <1>5 DEF applied, operator
<1>7. isWithin(r)
  BY <1>2 DEF isWithin, finished, applied
<1>8. PartsOK(r)'
  BY <1>1, <1>3, <1>7, PartsKept DEF RankOK
<1>9. VectorOK(r)'
  <2>1. prolongated(r)' = prolongated(r)
    BY <1>1, RowsKept
  <2> QED
    BY <1>2, <1>3, <2>1 DEF VectorOK, ApplyStages
<1> DEFINE R == IF o = "C" THEN P(r) ELSE Q(r)
           b == broadcast(r)
<1>10. Y' = [Y EXCEPT ![r] = [i \in DOMAIN R |-> dot(R[i], b)]]
  BY <1>5 DEF Polynomial
<1>11. n \in 1 .. applied(0) /\ b[1] = X[0][n][1] /\ b[2] = X[0][n][2]
       /\ b[1] \in Int /\ b[2] \in Int
  <2>1. n \in 1 .. applied(0)
    BY <1>1, <1>2, <1>4 DEF VectorsGrow
  <2>2. X[0][n][1] \in Int /\ X[0][n][2] \in Int
    BY <1>1, <2>1, PolynomialUnknowns
  <2>3. b = [p \in 1 .. 2 |-> X[0][n][p]]
    BY <1>4 DEF broadcast, polynomials
  <2> HIDE DEF b
  <2> QED
    BY <2>1, <2>2, <2>3
<1>12. DOMAIN R = rows(o, r)
  BY DEF rows, P, Q
<1> HIDE DEF b
<1>13. ASSUME NEW i \in placed(o, r)
       PROVE  /\ i \in DOMAIN R /\ placeOf(o, r, i) \in Int
              /\ R[i][1] = 1 /\ R[i][2] = placeOf(o, r, i)
  <2>1. CASE o = "C"
    <3>1. i \in DOMAIN prolongated(r) /\ prolongated(r)[i] \in Sources
      BY <2>1 DEF placed
    <3>2. /\ P(r)[i][1] = 1 /\ P(r)[i][2] = source[prolongated(r)[i]]
          /\ source[prolongated(r)[i]] \in Int
      BY <1>1, <3>1, RowOfP
    <3> QED
      BY <1>12, <2>1, <3>1, <3>2 DEF placeOf, rows
  <2>2. CASE o # "C"
    <3> DEFINE L == localParents("targets", r)
               t == ordered(L)[i]
    <3>1. i \in DOMAIN ordered(L)
      BY <2>2 DEF placed
    <3>2. L \in SUBSET Int /\ IsFiniteSet(L) /\ L \in SUBSET Targets
      <4>1. L \in SUBSET Targets
        BY DEF localParents
      <4>2. \A e \in Targets : e \in Int
        BY CentersAssumption
      <4> QED
        BY <4>1, <4>2, CentersAssumption, FS_Subset
    <3> HIDE DEF L
    <3>3. t \in L
      BY <3>1, <3>2, OrderedPlaces DEF Bijection, Injection
    <3>4. target[t] \in Int
      BY <1>1, <3>2, <3>3 DEF AppOK
    <3>5. Q(r)[i] = <<1, target[t]>> /\ i \in DOMAIN Q(r)
      BY <3>1 DEF Q, polynomialAt, L
    <3>6. R = Q(r) /\ placeOf(o, r, i) = target[t]
      BY <2>2 DEF placeOf, L
    <3> QED
      BY <3>4, <3>5, <3>6
  <2> QED
    BY <2>1, <2>2
<1>14. r = 0 /\ o = "C" => \A p \in 1 .. polynomials :
                             p \in DOMAIN R /\ R[p][1] = 0 /\ R[p][2] = 0
  <2> SUFFICES ASSUME r = 0, o = "C", NEW p \in 1 .. polynomials
               PROVE  p \in DOMAIN R /\ R[p][1] = 0 /\ R[p][2] = 0
    OBVIOUS
  <2>1. p \in DOMAIN prolongated(0) /\ prolongated(0)[p] \notin Sources
    BY <1>1, PolynomialUnknowns
  <2>2. P(0)[p][1] = 0 /\ P(0)[p][2] = 0
    BY <1>1, <2>1, RowOfP
  <2> QED
    BY <1>12, <2>1, <2>2 DEF rows
<1> HIDE DEF R
<1>15. Y'[r] = [i \in DOMAIN R |-> dot(R[i], b)]
  BY <1>10 DEF SolveInv, TablesOK
<1>16. ResultOK(r)'
  <2>1. /\ rows(o, r)' = rows(o, r) /\ placed(o, r)' = placed(o, r)
        /\ \A i : placeOf(o, r, i)' = placeOf(o, r, i)
    BY <1>1, RowsKept
  <2>2. Y'[r] = [i \in rows(o, r) |-> Y'[r][i]]
    BY <1>12, <1>15
  <2>3. ASSUME NEW i \in placed(o, r)
        PROVE  isAffine(n, placeOf(o, r, i), Y[r][i])'
    <3> DEFINE x == placeOf(o, r, i)
    <3>1. Y'[r][i] = dot(R[i], b)
      BY <1>13, <1>15
    <3>2. dot(R[i], b) = b[1] + b[2] * x
      <4>1. x \in Int /\ R[i][1] = 1 /\ R[i][2] = x
        BY <1>13
      <4> HIDE DEF x
      <4> QED
        BY <1>11, <4>1, DotAffine
    <3>3. n <= applied(0)'
      BY <1>2, <1>11 DEF applied
    <3>4. Y'[r][i] = X'[0][n][1] + X'[0][n][2] * x
      BY <1>2, <1>11, <3>1, <3>2
    <3> QED
      BY <2>1, <3>3, <3>4 DEF isAffine
  <2> QED
    BY <1>2, <1>6, <2>1, <2>2, <2>3 DEF ResultOK
<1>17. ASSUME r = 0
       PROVE  MomentsOK'
  <2> SUFFICES ASSUME o = "C", NEW p \in 1 .. polynomials
               PROVE  Y'[0][p] = 0
    BY <1>2, <1>6, <1>17 DEF MomentsOK
  <2>1. p \in DOMAIN R /\ R[p][1] = 0 /\ R[p][2] = 0
    BY <1>14, <1>17
  <2>2. Y'[0][p] = dot(R[p], b)
    BY <1>15, <1>17, <2>1
  <2> QED
    BY <1>11, <2>1, <2>2, DotZero
<1> QED
  BY <1>8, <1>9, <1>16, <1>17 DEF RankOK

\* The rows of an operator stand for the parents of one round.
LEMMA PlacedRows ==
  ASSUME AppOK, NEW r \in Ranks, NEW o, NEW k \in Rounds,
         k = "sources" <=> o = "C",
         NEW ids, ids = IF k = "sources" THEN prolongated(r)
                        ELSE ordered(localParents(k, r))
  PROVE  /\ DOMAIN ids = rows(o, r)
         /\ placed(o, r) = {i \in DOMAIN ids : ids[i] \in localParents(k, r)}
         /\ \A i \in placed(o, r) : placeOf(o, r, i) = parent(k)[ids[i]]
<1>1. CASE k = "sources"
  <2>1. ids = prolongated(r) /\ localParents(k, r) = localSources(r) /\ o = "C"
    BY <1>1 DEF localParents
  <2>2. \A i \in DOMAIN ids : ids[i] \in Sources <=> ids[i] \in localSources(r)
    BY <2>1, IdAt DEF localSources
  <2> QED
    BY <1>1, <2>1, <2>2 DEF rows, placed, placeOf, parent
<1>2. CASE k = "targets"
  <2> DEFINE L == localParents(k, r)
  <2>1. L \in SUBSET Int /\ IsFiniteSet(L)
    <3>1. L \in SUBSET Targets
      BY <1>2 DEF localParents
    <3>2. \A e \in Targets : e \in Int
      BY CentersAssumption
    <3> QED
      BY <3>1, <3>2, CentersAssumption, FS_Subset
  <2>2. ids = ordered(L) /\ o # "C"
    BY <1>2
  <2>3. \A i \in DOMAIN ids : ids[i] \in L
    <3> HIDE DEF L
    <3> QED
      BY <2>1, <2>2, OrderedPlaces DEF Bijection, Injection
  <2> QED
    BY <1>2, <2>2, <2>3 DEF rows, placed, placeOf, parent
<1> QED
  BY <1>1, <1>2 DEF Rounds

\* To be after setup() a rank has inserted the rows of both rounds.
LEMMA RowsInserted ==
  ASSUME StagesOK, NEW r \in Ranks, stage[r] \in ApplyStages
  PROVE  \A k \in Rounds : r \in inserted[k]
<1>1. round[r] = "targets"
  BY DEF StagesOK, Rounds, SetupStages, ApplyStages
<1> QED
  BY <1>1 DEF inserted, haveLeft, left, Rounds, ApplyStages

\* The result of the whole row.
LEMMA AddedRow ==
  ASSUME SetupInv, search = "radius", \A q \in Ranks : VectorOK(q),
         NEW r \in Ranks, stage[r] \in ApplyStages, NEW n \in Nat \ {0},
         n = applied(r), NEW k \in Rounds, NEW c \in localParents(k, r),
         NEW needed,
         \A i \in DOMAIN d_pairings[k][c] : d_pairings[k][c][i] \in needed,
         \A s \in needed : applied(app.SourceOwner[s]) >= n,
         NEW y, isAffine(n, parent(k)[c], y)
  PROVE  isRow(n, parent(k)[c],
               y + basisRow(parent(k)[c], d_pairings[k][c],
                            [s \in needed |-> unknown(r, s)]))
<1> DEFINE x == parent(k)[c]
           stencil == d_pairings[k][c]
           v == [s \in needed |-> unknown(r, s)]
<1>1. AppOK /\ x \in placesOf(app)
  BY ParentsOf DEF SetupInv, StagesOK
<1>2. isStencil(x, stencil)
  BY RowsInserted DEF SetupInv, PairsOK
<1>3. \A i \in DOMAIN stencil :
        /\ applied(app.SourceOwner[stencil[i]]) >= applied(r)
        /\ v[stencil[i]] = unknown(r, stencil[i])
  OBVIOUS
<1> HIDE DEF x, stencil, v
<1>4. /\ \A s \in heard(x) : n <= applied(app.SourceOwner[s])
      /\ basisRow(x, stencil, v)
           = SumFunctionOnSet([s \in Sources |-> phi(x, s) * value(n, s)], heard(x))
  <2>1. applied(r) \in Nat \ {0}
    OBVIOUS
  <2>2. /\ \A s \in heard(x) : applied(r) <= applied(app.SourceOwner[s])
        /\ basisRow(x, stencil, v)
             = SumFunctionOnSet([s \in Sources |-> phi(x, s) * value(applied(r), s)],
                                heard(x))
    BY <1>1, <1>2, <1>3, <2>1, HeardSum
  <2> QED
    BY <2>2
<1>5. n <= applied(0) /\ y = X[0][n][1] + X[0][n][2] * x
  BY DEF isAffine, x
<1> QED
  BY <1>4, <1>5 DEF isRow, x, stencil, v

LEMMA SolveBasis ==
  ASSUME SetupInv, SolveInv, NEW r \in Ranks, SplineStep(r), AddBasis(r)
  PROVE  RankOK(r)'
<1>1. /\ app' = app /\ AppOK /\ VectorsGrow /\ RankOK(r) /\ StagesOK
      /\ 0 \in Ranks /\ VectorOK(0)
  BY OthersKept, Moves, RankAssumption DEF SetupInv, SolveInv, RankOK
<1>2. PICK o : o = operator(r)
  OBVIOUS
<1> DEFINE k == IF o = "C" THEN "sources" ELSE "targets"
           ids == IF k = "sources" THEN prolongated(r) ELSE ordered(localParents(k, r))
           mine == {c \in DOMAIN d_pairings[k] : c \in localParents(k, r)}
           needed == UNION {{d_pairings[k][c][i] : i \in DOMAIN d_pairings[k][c]} :
                              c \in mine}
           v == [s \in needed |-> unknown(r, s)]
           row(c) == basisRow(parent(k)[c], d_pairings[k][c], v)
<1>3. /\ stage[r] = "basis"
      /\ stage' = [stage EXCEPT ![r] = IF k = "sources" THEN "transpose" ELSE "ready"]
      /\ X' = X /\ products' = products
      /\ \A s \in needed : applied(app.SourceOwner[s]) >= applied(r)
      /\ Y' = [Y EXCEPT ![r] = [i \in DOMAIN ids |->
           Y[r][i] + IF ids[i] \in mine THEN row(ids[i]) ELSE 0]]
  BY <1>2 DEF AddBasis, goTo
<1>4. k \in Rounds /\ (k = "sources" <=> o = "C")
  BY DEF Rounds
<1>5. mine = localParents(k, r)
  BY <1>3, <1>4, RowsInserted DEF SetupInv, PairsOK, ApplyStages
<1>6. VectorOK(r) /\ applied(r) \in Nat \ {0}
  BY <1>1, <1>3 DEF RankOK, VectorOK, applied, ApplyStages
<1>7. PICK n \in Nat \ {0} : n = applied(r)
  BY <1>6
<1>8. applied(r)' = n /\ operator(r)' = o
  BY <1>1, <1>2, <1>3, <1>7 DEF applied, operator
<1>9. stage'[r] = IF o = "C" THEN "transpose" ELSE "ready"
  BY <1>1, <1>3, <1>4 DEF StagesOK
<1>10. VectorOK(r)'
  <2>1. prolongated(r)' = prolongated(r)
    BY <1>1, RowsKept
  <2> QED
    BY <1>3, <1>6, <1>8, <1>9, <2>1 DEF VectorOK, ApplyStages
<1>11. ids = (IF k = "sources" THEN prolongated(r) ELSE ordered(localParents(k, r)))
  OBVIOUS
<1>12. \A c \in mine : \A i \in DOMAIN d_pairings[k][c] : d_pairings[k][c][i] \in needed
  OBVIOUS
<1> HIDE DEF k, ids, mine, needed
<1>13. /\ DOMAIN ids = rows(o, r)
       /\ placed(o, r) = {i \in DOMAIN ids : ids[i] \in mine}
       /\ \A i \in placed(o, r) : placeOf(o, r, i) = parent(k)[ids[i]]
  <2>1. /\ DOMAIN ids = rows(o, r)
        /\ placed(o, r) = {i \in DOMAIN ids : ids[i] \in localParents(k, r)}
        /\ \A i \in placed(o, r) : placeOf(o, r, i) = parent(k)[ids[i]]
    BY <1>1, <1>4, <1>11, PlacedRows
  <2> QED
    BY <1>5, <2>1
<1>14. ASSUME search = "radius", NEW i \in placed(o, r)
       PROVE  isRow(n, placeOf(o, r, i), Y[r][i] + row(ids[i]))
  <2> DEFINE c == ids[i]
             y == Y[r][i]
  <2>1. c \in mine /\ c \in localParents(k, r) /\ placeOf(o, r, i) = parent(k)[c]
    BY <1>5, <1>13
  <2>2. isAffine(n, placeOf(o, r, i), y)
    BY <1>1, <1>2, <1>3, <1>6, <1>7, <1>14 DEF RankOK, ResultOK, VectorOK, ApplyStages
  <2>3. isAffine(n, parent(k)[c], y)
    BY <2>1, <2>2
  <2>4. \A j \in DOMAIN d_pairings[k][c] : d_pairings[k][c][j] \in needed
    BY <1>12, <2>1
  <2>5. \A s \in needed : applied(app.SourceOwner[s]) >= n
    BY <1>3, <1>7
  <2>6. (\A q \in Ranks : VectorOK(q)) /\ stage[r] \in ApplyStages
    BY <1>3 DEF SolveInv, RankOK, ApplyStages
  <2> HIDE DEF c, y
  <2>7. isRow(n, parent(k)[c], y + row(c))
    BY <1>4, <1>7, <1>14, <2>1, <2>3, <2>4, <2>5, <2>6, AddedRow
  <2> QED
    BY <2>1, <2>7 DEF c, y
<1> HIDE DEF row
<1>15. Y'[r] = [i \in DOMAIN ids |->
                  Y[r][i] + IF ids[i] \in mine THEN row(ids[i]) ELSE 0]
  BY <1>3 DEF SolveInv, TablesOK
<1>16. ASSUME search = "radius"
       PROVE  ResultOK(r)'
  <2>1. /\ rows(o, r)' = rows(o, r) /\ placed(o, r)' = placed(o, r)
        /\ \A i : placeOf(o, r, i)' = placeOf(o, r, i)
    BY <1>1, RowsKept
  <2>2. Y'[r] = [i \in rows(o, r) |-> Y'[r][i]]
    BY <1>13, <1>15
  <2>3. ASSUME NEW i \in placed(o, r)
        PROVE  isRow(n, placeOf(o, r, i), Y[r][i])'
    <3>1. Y'[r][i] = Y[r][i] + row(ids[i])
      BY <1>13, <1>15
    <3>2. PICK x : x = placeOf(o, r, i)
      OBVIOUS
    <3>3. PICK y : y = Y'[r][i]
      OBVIOUS
    <3>4. isRow(n, x, y)
      BY <1>14, <1>16, <3>1, <3>2, <3>3
    <3>5. isRow(n, x, y)'
      BY <1>1, <3>4, RowStays
    <3>6. placeOf(o, r, i)' = x
      BY <2>1, <3>2
    <3> QED
      BY <3>3, <3>5, <3>6
  <2> QED
    BY <1>8, <1>9, <2>1, <2>2, <2>3 DEF ResultOK
<1>17. ASSUME r = 0, search = "radius"
       PROVE  MomentsOK'
  <2> SUFFICES ASSUME o = "C", NEW p \in 1 .. polynomials
               PROVE  Y'[0][p] = 0
    BY <1>8, <1>9, <1>17 DEF MomentsOK
  <2>1. p \in DOMAIN prolongated(0) /\ prolongated(0)[p] \notin Sources
    BY <1>1, PolynomialUnknowns
  <2>2. ids = prolongated(0)
    BY <1>4, <1>11, <1>17
  <2>3. p \notin placed(o, r)
    BY <1>17, <2>1 DEF placed
  <2>4. ids[p] \notin mine /\ p \in DOMAIN ids
    BY <1>13, <2>1, <2>2, <2>3
  <2>5. Y'[0][p] = Y[0][p] + 0
    BY <1>15, <1>17, <2>4
  <2>6. Y[0][p] = 0
    BY <1>1, <1>2, <1>3, <1>6, <1>7, <1>17 DEF RankOK, MomentsOK, VectorOK, ApplyStages
  <2> QED
    BY <2>5, <2>6
<1>18. PartsOK(r)'
  <2>1. CASE o = "C"
    <3>1. finished(r)' = finished(r)
      BY <1>3, <1>7, <1>8, <1>9, <2>1 DEF finished
    <3> QED
      BY <1>1, <1>3, <1>6, <3>1, PartsKept DEF isWithin, RankOK
  <2>2. CASE o # "C"
    <3>1. finished(r) = n - 1 /\ finished(r)' = n
      BY <1>3, <1>7, <1>8, <1>9, <2>2 DEF finished
    <3>2. n - 1 \in Nat /\ (n - 1) + 1 = n
      OBVIOUS
    <3>3. app.operators[n] # "C"
      BY <1>2, <1>7, <2>2 DEF operator
    <3>4. timesC(n) = timesC(n - 1)
      BY <3>2, <3>3, TimesStep
    <3>5. Len(products'[r]) = timesC(n)'
      <4>1. timesC(n)' = timesC(n)
        BY <1>1, RowsKept
      <4> QED
        BY <1>1, <1>3, <3>1, <3>4, <4>1 DEF RankOK, PartsOK
    <3>6. \A j \in 1 .. n : app.operators[j] = "C" =>
            \A p \in 1 .. polynomials : products'[r][timesC(j)'][p] = part(j, r, p)'
      <4> SUFFICES ASSUME NEW j \in 1 .. n, app.operators[j] = "C",
                          NEW p \in 1 .. polynomials
                   PROVE  products'[r][timesC(j)'][p] = part(j, r, p)'
        OBVIOUS
      <4>1. j \in 1 .. n - 1 /\ j \in Nat \ {0} /\ j <= applied(r)
        BY <1>7, <3>3
      <4>2. part(j, r, p)' = part(j, r, p)
        BY <1>1, <4>1, RowStays
      <4>3. timesC(j)' = timesC(j)
        BY <1>1, RowsKept
      <4>4. products[r][timesC(j)][p] = part(j, r, p)
        BY <1>1, <3>1, <4>1 DEF RankOK, PartsOK
      <4> QED
        BY <1>3, <4>2, <4>3, <4>4
    <3> QED
      BY <1>1, <1>3, <3>1, <3>5, <3>6 DEF PartsOK, RankOK
  <2> QED
    BY <2>1, <2>2
<1>19. search' = search
  BY <1>1 DEF search
<1> QED
  BY <1>10, <1>16, <1>17, <1>18, <1>19 DEF RankOK

LEMMA SolveContribute ==
  ASSUME StagesOK, SolveInv, NEW r \in Ranks, SplineStep(r), Contribute(r)
  PROVE  RankOK(r)'
<1>1. /\ app' = app /\ AppOK /\ VectorsGrow /\ RankOK(r) /\ 0 \in Ranks
  BY OthersKept, Moves, RankAssumption DEF SolveInv
<1>2. /\ stage[r] = "transpose"
      /\ stage'[r] = IF r = 0 THEN "reduce" ELSE "ready"
      /\ X' = X /\ Y' = Y
      /\ products' = [products EXCEPT ![r] = Append(@, localProducts(r))]
  BY DEF Contribute, goTo, StagesOK
<1>3. VectorOK(r) /\ applied(r) \in Nat \ {0} /\ operator(r) = "C"
  BY <1>1, <1>2 DEF RankOK, VectorOK, applied, ApplyStages
<1>4. PICK n \in Nat \ {0} : n = applied(r)
  BY <1>3
<1>5. applied(r)' = n /\ operator(r)' = "C" /\ app.operators[n] = "C"
  BY <1>1, <1>2, <1>3, <1>4 DEF applied, operator
<1>6. VectorOK(r)'
  <2>1. prolongated(r)' = prolongated(r)
    BY <1>1, RowsKept
  <2> QED
    BY <1>2, <1>3, <1>5, <2>1 DEF VectorOK, ApplyStages
<1>7. finished(r) = n - 1 /\ finished(r)' = n
  BY <1>2, <1>4, <1>5 DEF finished
<1>8. /\ n - 1 \in Nat /\ (n - 1) + 1 = n
      /\ timesC(n - 1) \in Nat /\ timesC(n) = timesC(n - 1) + 1
  <2>1. n - 1 \in Nat /\ (n - 1) + 1 = n
    OBVIOUS
  <2>2. timesC(n - 1) \in Nat /\ timesC((n - 1) + 1) = timesC(n - 1) + 1
    BY <1>5, <2>1, TimesStep
  <2> QED
    BY <2>1, <2>2
<1> DEFINE Z == [1 .. polynomials -> Int]
           e == localProducts(r)
<1>9. e \in Z /\ \A p \in 1 .. polynomials : e[p] = part(n, r, p)
  <2>1. e = [p \in 1 .. polynomials |-> part(n, r, p)]
    BY <1>4 DEF localProducts, part
  <2>2. \A p \in 1 .. polynomials : part(n, r, p) \in Int
    BY <1>1, <1>3, <1>4, PartType
  <2> HIDE DEF e
  <2> QED
    BY <2>1, <2>2
<1>10. products[r] \in Seq(Z) /\ Len(products[r]) = timesC(n - 1)
  BY <1>1, <1>7 DEF RankOK, PartsOK
<1> HIDE DEF Z, e
<1>11. products'[r] = Append(products[r], e)
  BY <1>2 DEF SolveInv, TablesOK, e
<1>12. /\ products'[r] \in Seq(Z)
       /\ Len(products'[r]) = timesC(n)
       /\ products'[r][timesC(n)] = e
       /\ \A j \in 1 .. timesC(n - 1) : products'[r][j] = products[r][j]
  <2>1. /\ Append(products[r], e) \in Seq(Z)
        /\ Len(Append(products[r], e)) = Len(products[r]) + 1
        /\ Append(products[r], e)[Len(products[r]) + 1] = e
        /\ \A j \in 1 .. Len(products[r]) : Append(products[r], e)[j] = products[r][j]
    BY <1>9, <1>10
  <2> QED
    BY <1>8, <1>10, <1>11, <2>1
<1>13. PartsOK(r)'
  <2>1. timesC(n)' = timesC(n)
    BY <1>1, RowsKept
  <2>2. \A j \in 1 .. n : app.operators[j] = "C" =>
          \A p \in 1 .. polynomials : products'[r][timesC(j)'][p] = part(j, r, p)'
    <3> SUFFICES ASSUME NEW j \in 1 .. n, app.operators[j] = "C",
                        NEW p \in 1 .. polynomials
                 PROVE  products'[r][timesC(j)'][p] = part(j, r, p)'
      OBVIOUS
    <3>1. j \in Nat \ {0} /\ j <= applied(r)
      BY <1>4
    <3>2. part(j, r, p)' = part(j, r, p)
      BY <1>1, <3>1, RowStays
    <3>3. timesC(j)' = timesC(j)
      BY <1>1, RowsKept
    <3>4. CASE j = n
      BY <1>9, <1>12, <3>2, <3>3, <3>4
    <3>5. CASE j # n
      <4>1. j \in 1 .. n - 1 /\ j \in 0 .. n - 1
        BY <3>5
      <4>2. products[r][timesC(j)][p] = part(j, r, p)
        BY <1>1, <1>7, <4>1 DEF RankOK, PartsOK
      <4>3. timesC(j) <= timesC(n - 1) /\ timesC(j) \in Nat \ {0}
        BY <1>8, <3>1, <4>1, TimesGrow, TimesAt
      <4>4. timesC(j) \in 1 .. timesC(n - 1)
        BY <1>8, <4>3
      <4> QED
        BY <1>12, <3>2, <3>3, <4>2, <4>4
    <3> QED
      BY <3>4, <3>5
  <2> QED
    BY <1>1, <1>7, <1>12, <2>1, <2>2 DEF PartsOK, Z
<1>14. ASSUME search = "radius"
       PROVE  ResultOK(r)'
  <2>1. /\ rows("C", r)' = rows("C", r) /\ placed("C", r)' = placed("C", r)
        /\ \A i : placeOf("C", r, i)' = placeOf("C", r, i)
    BY <1>1, RowsKept
  <2>2. /\ Y[r] = [i \in rows("C", r) |-> Y[r][i]]
        /\ \A i \in placed("C", r) : isRow(n, placeOf("C", r, i), Y[r][i])
    BY <1>1, <1>2, <1>3, <1>4, <1>14 DEF RankOK, ResultOK, VectorOK, ApplyStages
  <2>3. ASSUME NEW i \in placed("C", r)
        PROVE  isRow(n, placeOf("C", r, i), Y[r][i])'
    <3>1. PICK x : x = placeOf("C", r, i)
      OBVIOUS
    <3>2. PICK y : y = Y[r][i]
      OBVIOUS
    <3>3. isRow(n, x, y)'
      BY <1>1, <2>2, <3>1, <3>2, RowStays
    <3>4. placeOf("C", r, i)' = x /\ Y'[r][i] = y
      BY <1>2, <2>1, <3>1, <3>2
    <3> QED
      BY <3>3, <3>4
  <2> QED
    BY <1>2, <1>5, <2>1, <2>2, <2>3 DEF ResultOK
<1>15. ASSUME r = 0, search = "radius"
       PROVE  MomentsOK'
  <2>1. \A p \in 1 .. polynomials : Y[0][p] = 0
    BY <1>1, <1>2, <1>3, <1>15 DEF RankOK, MomentsOK, VectorOK, ApplyStages
  <2> QED
    BY <1>2, <1>15, <2>1 DEF MomentsOK
<1>16. search' = search
  BY <1>1 DEF search
<1> QED
  BY <1>6, <1>13, <1>14, <1>15, <1>16 DEF RankOK

\* That all have contributed as often as the root says that all have come as far,
\* and that the last parts are those of one operator.
LEMMA ContributedParts ==
  ASSUME AppOK, 0 \in Ranks, \A q \in Ranks : VectorOK(q) /\ PartsOK(q),
         stage[0] = "reduce", contributed, NEW n \in Nat \ {0}, n = applied(0)
  PROVE  \A q \in Ranks :
           /\ n <= applied(q)
           /\ \A p \in 1 .. polynomials :
                products[q][Len(products[0])][p] = part(n, q, p)
<1>1. app.operators[n] = "C"
  BY DEF VectorOK, operator
<1>2. finished(0) = n
  BY DEF finished
<1>3. Len(products[0]) = timesC(n)
  BY <1>2 DEF PartsOK
<1>4. ASSUME NEW q \in Ranks
      PROVE  n <= finished(q) /\ finished(q) <= applied(q)
             /\ finished(q) \in Nat /\ applied(q) \in Nat
  <2>1. applied(q) \in Nat /\ finished(q) \in Nat /\ finished(q) <= applied(q)
    <3>1. applied(q) \in Nat /\ (X[q] # <<>> => applied(q) # 0)
      BY DEF VectorOK, applied
    <3>2. stage[q] \in {"polynomial", "basis", "transpose"} => X[q] # <<>>
      BY DEF VectorOK, ApplyStages
    <3> QED
      BY <3>1, <3>2 DEF finished
  <2>2. timesC(finished(q)) >= timesC(n)
    BY <1>3 DEF contributed, PartsOK
  <2>3. ~ (finished(q) < n)
    <3> SUFFICES ASSUME finished(q) < n PROVE FALSE
      OBVIOUS
    <3>1. finished(q) \in 0 .. n - 1
      BY <2>1
    <3>2. /\ timesC(n) \in Nat \ {0}
          /\ timesC(finished(q)) \in Nat /\ timesC(finished(q)) < timesC(n)
      BY <1>1, <3>1, TimesAt
    <3> QED
      BY <2>2, <3>2
  <2> QED
    BY <2>1, <2>3
<1>5. ASSUME NEW q \in Ranks, NEW p \in 1 .. polynomials
      PROVE  products[q][Len(products[0])][p] = part(n, q, p)
  <2>1. n \in 1 .. finished(q)
    BY <1>4
  <2> QED
    BY <1>1, <1>3, <2>1 DEF PartsOK
<1>6. \A q \in Ranks : n <= applied(q)
  BY <1>4
<1> QED
  BY <1>5, <1>6

LEMMA SolveReduce ==
  ASSUME StagesOK, SolveInv, SplineStep(0), Reduce
  PROVE  RankOK(0)'
<1>1. /\ app' = app /\ AppOK /\ VectorsGrow /\ RankOK(0) /\ 0 \in Ranks
      /\ \A q \in Ranks : VectorOK(q) /\ PartsOK(q)
  BY OthersKept, Moves, RankAssumption DEF SolveInv, RankOK
<1>2. /\ stage[0] = "reduce" /\ stage'[0] = "ready"
      /\ X' = X /\ products' = products /\ contributed
      /\ Y' = [Y EXCEPT ![0] = [i \in DOMAIN @ |->
           IF i <= polynomials THEN @[i] + productSums(i) ELSE @[i]]]
  <2>1. stage[0] = "reduce" /\ stage'[0] = "ready"
    BY <1>1 DEF Reduce, goTo, StagesOK
  <2>2. X' = X /\ products' = products /\ contributed
    BY DEF Reduce
  <2>3. Y' = [Y EXCEPT ![0] = [i \in DOMAIN @ |->
          IF i <= polynomials THEN @[i] + productSums(i) ELSE @[i]]]
    BY Zenon DEF Reduce
  <2> QED
    BY <2>1, <2>2, <2>3
<1>3. VectorOK(0) /\ applied(0) \in Nat \ {0} /\ operator(0) = "C" /\ X[0] # <<>>
  <2>1. VectorOK(0)
    BY <1>1
  <2>2. X[0] # <<>> /\ operator(0) = "C"
    BY <1>2, <2>1 DEF VectorOK, ApplyStages
  <2>3. applied(0) \in Nat \ {0}
    BY <2>1, <2>2 DEF VectorOK, applied
  <2> QED
    BY <2>1, <2>2, <2>3
<1>4. PICK n \in Nat \ {0} : n = applied(0)
  BY <1>3
<1>5. applied(0)' = n /\ operator(0)' = "C"
  BY <1>1, <1>2, <1>3, <1>4 DEF applied, operator
<1>6. VectorOK(0)'
  <2>1. prolongated(0)' = prolongated(0)
    BY <1>1, RowsKept
  <2> QED
    BY <1>2, <1>3, <1>5, <2>1 DEF VectorOK, ApplyStages
<1>7. PartsOK(0)'
  <2>1. finished(0)' = finished(0)
    BY <1>2, <1>4, <1>5 DEF finished
  <2> QED
    BY <1>1, <1>2, <2>1, PartsKept DEF isWithin
<1>8. DOMAIN Y'[0] = DOMAIN Y[0]
      /\ \A i \in DOMAIN Y[0] :
           Y'[0][i] = IF i <= polynomials THEN Y[0][i] + productSums(i) ELSE Y[0][i]
  BY <1>1, <1>2 DEF SolveInv, TablesOK
<1>9. /\ Y'[0] = [i \in DOMAIN Y[0] |-> Y'[0][i]]
  BY <1>1, <1>2 DEF SolveInv, TablesOK
<1>10. ASSUME search = "radius"
       PROVE  ResultOK(0)' /\ DOMAIN Y[0] = DOMAIN prolongated(0)
  <2>1. /\ rows("C", 0)' = rows("C", 0) /\ placed("C", 0)' = placed("C", 0)
        /\ \A i : placeOf("C", 0, i)' = placeOf("C", 0, i)
    BY <1>1, RowsKept
  <2>2. /\ DOMAIN Y[0] = rows("C", 0)
        /\ \A i \in placed("C", 0) : isRow(n, placeOf("C", 0, i), Y[0][i])
    BY <1>1, <1>2, <1>3, <1>4, <1>10 DEF RankOK, ResultOK
  <2>3. ASSUME NEW i \in placed("C", 0)
        PROVE  isRow(n, placeOf("C", 0, i), Y[0][i])'
    <3>1. PICK x : x = placeOf("C", 0, i)
      OBVIOUS
    <3>2. PICK y : y = Y[0][i]
      OBVIOUS
    <3>3. isRow(n, x, y)'
      BY <1>1, <2>2, <3>1, <3>2, RowStays
    <3>4. i \in DOMAIN prolongated(0) /\ prolongated(0)[i] \in Sources
      BY DEF placed
    <3>5. ~ (i <= polynomials)
      BY <1>1, <3>4, IdAt DEF offset
    <3>6. Y'[0][i] = y
      BY <1>8, <2>2, <3>2, <3>4, <3>5 DEF rows
    <3>7. placeOf("C", 0, i)' = x
      BY <2>1, <3>1
    <3> QED
      BY <3>3, <3>6, <3>7
  <2>4. Y'[0] = [i \in rows("C", 0) |-> Y'[0][i]]
    BY <1>9, <2>2
  <2> QED
    BY <1>2, <1>5, <2>1, <2>2, <2>3, <2>4 DEF ResultOK, rows
<1>11. /\ \A q \in Ranks : n <= applied(q)
       /\ \A p \in 1 .. polynomials :
            productSums(p) = SumFunctionOnSet([q \in Ranks |-> part(n, q, p)], Ranks)
  <2>1. \A q \in Ranks :
          /\ n <= applied(q)
          /\ \A p \in 1 .. polynomials :
               products[q][Len(products[0])][p] = part(n, q, p)
    BY <1>1, <1>2, <1>4, ContributedParts
  <2>2. ASSUME NEW p \in 1 .. polynomials
        PROVE  productSums(p) = SumFunctionOnSet([q \in Ranks |-> part(n, q, p)], Ranks)
    <3>1. [q \in Ranks |-> products[q][Len(products[0])][p]]
            = [q \in Ranks |-> part(n, q, p)]
      BY <2>1
    <3>2. DOMAIN [q \in Ranks |-> products[q][Len(products[0])][p]] = Ranks
      OBVIOUS
    <3> QED
      BY <3>1, <3>2 DEF productSums, SumFunction
  <2> QED
    BY <2>1, <2>2
<1>12. ASSUME search = "radius"
       PROVE  MomentsOK'
  <2> SUFFICES ASSUME NEW p \in 1 .. polynomials
               PROVE  isMoment(n, p, Y[0][p])'
    BY <1>2, <1>5 DEF MomentsOK
  <2> DEFINE f == [q \in Ranks |-> part(n, q, p)]
  <2>1. p \in DOMAIN Y[0] /\ p <= polynomials
    <3>1. p \in DOMAIN prolongated(0)
      BY <1>1, PolynomialUnknowns
    <3>2. p <= polynomials
      BY DEF polynomials
    <3> QED
      BY <1>10, <1>12, <3>1, <3>2
  <2>2. Y'[0][p] = Y[0][p] + productSums(p)
    BY <1>8, <2>1
  <2>3. Y[0][p] = 0
    BY <1>1, <1>2, <1>3, <1>12 DEF RankOK, MomentsOK
  <2>4. productSums(p) = SumFunctionOnSet(f, Ranks)
    BY <1>11
  <2>5. SumFunctionOnSet(f, Ranks) \in Int
    <3>1. \A q \in Ranks : f[q] \in Int
      <4> SUFFICES ASSUME NEW q \in Ranks PROVE part(n, q, p) \in Int
        OBVIOUS
      <4>1. n \in 1 .. applied(q)
        BY <1>1, <1>11 DEF VectorsGrow
      <4> QED
        BY <1>1, <4>1, PartType
    <3> HIDE DEF f
    <3> QED
      BY <3>1, SumTakes, RankAssumption
  <2>6. isMoment(n, p, Y'[0][p])
    <3> HIDE DEF f
    <3>1. Y'[0][p] = SumFunctionOnSet(f, Ranks)
      BY <2>2, <2>3, <2>4, <2>5
    <3> QED
      BY <1>11, <3>1 DEF isMoment, f
  <2>7. PICK y : y = Y'[0][p]
    OBVIOUS
  <2>8. isMoment(n, p, y)'
    BY <1>1, <2>6, <2>7, RowStays
  <2> QED
    BY <2>7, <2>8
<1>13. search' = search
  BY <1>1 DEF search
<1> QED
  BY <1>6, <1>7, <1>10, <1>12, <1>13 DEF RankOK

LEMMA SolveInit ==
  ASSUME SplineInit, StagesOK
  PROVE  SolveInv
<1>1. /\ X = [q \in Ranks |-> <<>>] /\ Y = [q \in Ranks |-> <<>>]
      /\ products = [q \in Ranks |-> <<>>] /\ stage = [q \in Ranks |-> "new"]
  BY DEF SplineInit
<1>2. TablesOK
  BY <1>1 DEF TablesOK
<1>3. ASSUME NEW q \in Ranks
      PROVE  RankOK(q)
  <2>1. X[q] = <<>> /\ products[q] = <<>> /\ stage[q] = "new"
    BY <1>1
  <2>2. VectorOK(q)
    BY <2>1 DEF VectorOK, ApplyStages
  <2>3. finished(q) = 0
    BY <2>1 DEF finished, applied
  <2>4. PartsOK(q)
    BY <2>1, <2>3, TimesNone DEF PartsOK
  <2>5. ResultOK(q) /\ (q = 0 => MomentsOK)
    BY <2>1 DEF ResultOK, MomentsOK
  <2> QED
    BY <2>2, <2>4, <2>5 DEF RankOK
<1> QED
  BY <1>2, <1>3 DEF SolveInv

LEMMA SolveStep ==
  ASSUME SetupInv, SolveInv, NEW r \in Ranks, SplineStep(r)
  PROVE  SolveInv'
<1>1. StagesOK /\ StagesOK' /\ AppOK /\ app' = app
  BY Moves DEF SetupInv
<1>2. TablesOK' /\ VectorsGrow /\ \A q \in Ranks \ {r} : isKept(q)
  BY <1>1, OthersKept
<1>3. \A q \in Ranks \ {r} : RankOK(q)'
  BY <1>1, <1>2, RankKept DEF SolveInv
<1>4. RankOK(r)'
  <2>1. CASE stage[r] \in SetupStages
    BY <1>1, <2>1, SolveSetup
  <2>2. CASE BeginOperator(r)
    BY <1>1, <2>2, SolveBegin
  <2>3. CASE Polynomial(r)
    BY <1>1, <2>3, SolvePolynomial
  <2>4. CASE AddBasis(r)
    BY <2>4, SolveBasis
  <2>5. CASE Contribute(r)
    BY <1>1, <2>5, SolveContribute
  <2>6. CASE r = 0 /\ Reduce
    BY <1>1, <2>6, SolveReduce
  <2>7. \/ stage[r] \in SetupStages \/ BeginOperator(r) \/ Polynomial(r)
        \/ AddBasis(r) \/ Contribute(r) \/ (r = 0 /\ Reduce)
    BY DEF SplineStep, GatherDomain, SendCenters, ReceiveCenters, Abort,
       InsertRows, FillComplete, SetupStages
  <2> QED
    BY <2>1, <2>2, <2>3, <2>4, <2>5, <2>6, <2>7
<1> QED
  BY <1>2, <1>3, <1>4 DEF SolveInv

LEMMA SolveStutter ==
  ASSUME SetupInv, SolveInv, UNCHANGED splineVars
  PROVE  SolveInv'
<1>1. /\ app' = app /\ stage' = stage /\ X' = X /\ Y' = Y /\ products' = products
      /\ AppOK
  BY DEF splineVars, solveVars, SetupInv, StagesOK
<1>2. TablesOK'
  BY <1>1 DEF SolveInv, TablesOK
<1>3. VectorsGrow
  BY <1>1 DEF SolveInv, RankOK, VectorOK, VectorsGrow, applied
<1>4. \A q \in Ranks : isKept(q)
  BY <1>1 DEF isKept
<1> QED
  BY <1>1, <1>2, <1>3, <1>4, RankKept DEF SolveInv

SplineInv == SetupInv /\ SolveInv

\* What each rank has of C or B applied is made of one vector, the same for all
\* ranks, however far others are ahead of it or behind.
THEOREM SplineInvariant == SplineSpec => []SplineInv
<1>1. SplineInit => SplineInv
  BY SetupInit, SolveInit DEF SplineInv, SetupInv
<1>2. SplineInv /\ [SplineNext]_splineVars => SplineInv'
  BY SetupStep, SetupStutter, SolveStep, SolveStutter DEF SplineNext, SplineInv
<1> QED
  BY <1>1, <1>2, PTL DEF SplineSpec

-----------------------------------------------------------------------------
(***************************************************************************)
(* The matrices.                                                           *)
(***************************************************************************)
\* With all parts of the vector there, the row is one over all the sources.
LEMMA WholeRow ==
  ASSUME SplineInv, NEW r \in Ranks, NEW x \in placesOf(app),
         applied(r) \in Nat \ {0}, \A q \in Ranks : applied(q) >= applied(r),
         NEW y, isRow(applied(r), x, y)
  PROVE  y = interpolant(r, x)
<1> DEFINE n == applied(r)
           w == [s \in Sources |-> phi(x, s) * value(n, s)]
<1>1. AppOK /\ \A q \in Ranks : VectorOK(q)
  BY DEF SplineInv, SetupInv, StagesOK, SolveInv, RankOK
<1>2. ASSUME NEW s \in Sources
      PROVE  /\ w[s] \in Int
             /\ s \notin heard(x) => w[s] = 0
  <2>1. app.SourceOwner[s] \in Ranks
    BY <1>1 DEF AppOK
  <2>2. applied(app.SourceOwner[s]) \in Nat
    BY <1>1, <2>1 DEF VectorOK, applied
  <2>3. value(n, s) \in Int
    BY <1>1, <2>1, <2>2, ValueType
  <2>4. phi(x, s) \in Int /\ (s \notin heard(x) => phi(x, s) = 0)
    BY <1>1, BasisOf DEF heard
  <2> HIDE DEF n
  <2> QED
    BY <2>3, <2>4
<1>3. heard(x) \in SUBSET Sources
  BY DEF heard
<1> HIDE DEF w
<1>4. SumFunctionOnSet(w, Sources) = SumFunctionOnSet(w, heard(x))
  BY <1>2, <1>3, SumSupport, CentersAssumption
<1>5. y = X[0][n][1] + X[0][n][2] * x + SumFunctionOnSet(w, heard(x))
  BY DEF isRow, w
<1>6. w = [s \in Sources |-> phi(x, s) * xAt(r, s)]
  BY DEF w, value, xAt
<1>7. SumFunction(w) = SumFunctionOnSet(w, Sources)
  BY DEF SumFunction, w
<1> QED
  BY <1>4, <1>5, <1>6, <1>7 DEF interpolant

\* The parts of a moment are the groups of its sum.
LEMMA MomentSum ==
  ASSUME SplineInv, NEW n \in Nat \ {0}, \A q \in Ranks : n <= applied(q),
         NEW p \in 1 .. polynomials,
         NEW g, \A s \in Sources : g[s] = IF p = 1 THEN value(n, s)
                                          ELSE value(n, s) * source[s]
  PROVE  SumFunctionOnSet([q \in Ranks |-> part(n, q, p)], Ranks)
           = SumFunctionOnSet(g, Sources)
<1>1. AppOK /\ \A q \in Ranks : VectorOK(q)
  BY DEF SplineInv, SetupInv, StagesOK, SolveInv, RankOK
<1>2. ASSUME NEW s \in Sources
      PROVE  value(n, s) \in Int /\ source[s] \in Int /\ g[s] \in Int
  <2>1. app.SourceOwner[s] \in Ranks /\ source[s] \in Int
    BY <1>1 DEF AppOK
  <2>2. value(n, s) \in Int
    BY <1>1, <2>1, ValueType
  <2> QED
    BY <2>1, <2>2
<1>3. ASSUME NEW q \in Ranks
      PROVE  part(n, q, p) = SumFunctionOnSet(g, localSources(q))
  <2> DEFINE D == DOMAIN prolongated(q)
             f == [i \in D |-> P(q)[i][p] * X[q][n][i]]
  <2>1. X[q][n] \in [D -> Unknowns]
    <3>1. X[q] \in Seq([D -> Unknowns])
      BY <1>1 DEF VectorOK
    <3>2. n \in Nat \ {0} /\ n <= Len(X[q])
      BY DEF applied
    <3> HIDE DEF D
    <3> QED
      BY <3>1, <3>2
  <2>2. \A i \in D : X[q][n][i] \in Int
    BY <2>1, UnknownsAssumption
  <2>3. ASSUME NEW i \in 1 .. offset(q)
        PROVE  f[i] = 0
    <3>1. isUnknowns(q, Cardinality(localSources(q)))
      BY UnknownsOfRank
    <3>2. i \in D /\ prolongated(q)[i] \notin Sources
      BY <3>1 DEF isUnknowns, offset, polynomials
    <3>3. P(q)[i][p] = 0
      BY <1>1, <3>2, RowOfP DEF polynomials
    <3> QED
      BY <2>2, <3>2, <3>3
  <2>4. ASSUME NEW s \in localSources(q)
        PROVE  g[s] \in Int /\ g[s] = f[position(s)]
    <3>1. s \in Sources /\ app.SourceOwner[s] = q
      BY DEF localSources
    <3>2. position(s) \in D /\ prolongated(q)[position(s)] = s
      BY <1>1, <3>1, PositionOf
    <3>3. P(q)[position(s)][1] = 1 /\ P(q)[position(s)][2] = source[s]
      BY <1>1, <3>1, <3>2, RowOfP
    <3>4. f[position(s)] = P(q)[position(s)][p] * value(n, s)
      BY <3>1, <3>2 DEF value
    <3>5. value(n, s) \in Int /\ source[s] \in Int /\ g[s] \in Int
      BY <1>2, <3>1
    <3>6. g[s] = IF p = 1 THEN value(n, s) ELSE value(n, s) * source[s]
      BY <3>1
    <3> HIDE DEF f
    <3>7. CASE p = 1
      BY <3>3, <3>4, <3>5, <3>6, <3>7
    <3>8. CASE p # 1
      <4>1. p = 2
        BY <3>8 DEF polynomials
      <4>2. f[position(s)] = source[s] * value(n, s)
        BY <3>3, <3>4, <4>1
      <4> QED
        BY <3>5, <3>6, <3>8, <4>2
    <3> QED
      BY <3>7, <3>8
  <2>5. part(n, q, p) = SumFunctionOnSet(f, D)
    BY DEF part, SumFunction
  <2> HIDE DEF f, D
  <2>6. SumFunctionOnSet(f, DOMAIN prolongated(q)) = SumFunctionOnSet(g, localSources(q))
    BY <1>1, <2>3, <2>4, SumOfUnknowns
  <2> QED
    BY <2>5, <2>6 DEF D
<1> DEFINE T == [q \in Ranks |-> localSources(q)]
           h == [q \in Ranks |-> part(n, q, p)]
<1>4. isGrouped(g, Sources, h, Ranks, T)
  <2>1. \A q \in Ranks : IsFiniteSet(T[q]) /\ \A s \in T[q] : s \in Sources
    BY CentersAssumption, FS_Subset DEF localSources
  <2>2. \A q, e \in Ranks : q # e => T[q] \cap T[e] = {}
    BY DEF localSources
  <2>3. \A q \in Ranks : \A s \in T[q] : g[s] \in Int
    BY <1>2, <2>1
  <2>4. \A s : s \in Sources <=> \E q \in Ranks : s \in T[q]
    <3>1. \A s \in Sources : app.SourceOwner[s] \in Ranks /\ s \in T[app.SourceOwner[s]]
      BY <1>1 DEF localSources, AppOK
    <3> QED
      BY <2>1, <3>1
  <2>5. \A q \in Ranks : h[q] = SumFunctionOnSet(g, T[q])
    BY <1>3
  <2> HIDE DEF T, h
  <2> QED
    BY <2>1, <2>2, <2>3, <2>4, <2>5, RankAssumption DEF isGrouped
<1> HIDE DEF T, h
<1>5. SumFunctionOnSet(g, Sources) = SumFunctionOnSet(h, Ranks)
  BY <1>4, SumGrouped
<1> QED
  BY <1>5 DEF h

\* C is one symmetric matrix of all the source centres, with the polynomial: the
\* interpolant at each source, and the moments, for every decomposition and every
\* order in which the ranks run.
THEOREM CoefficientsGlobal == SplineSpec => []CoefficientsAreGlobal
<1>1. SplineInv => CoefficientsAreGlobal
  <2> SUFFICES ASSUME SplineInv, search = "radius", NEW r \in Ranks,
                      hasApplied(r, "C")
               PROVE  /\ \A s \in localSources(r) :
                           Y[r][position(s)] = interpolant(r, source[s])
                      /\ r = 0 =>
                           /\ Y[0][1] = SumFunction([s \in Sources |-> xAt(0, s)])
                           /\ Y[0][2] = SumFunction([s \in Sources |-> xAt(0, s) * source[s]])
    BY DEF CoefficientsAreGlobal
  <2>1. AppOK /\ RankOK(r) /\ VectorOK(r)
    BY DEF SplineInv, SetupInv, StagesOK, SolveInv, RankOK
  <2>2. /\ stage[r] = "ready" /\ X[r] # <<>> /\ operator(r) = "C"
        /\ \A q \in Ranks : applied(q) >= applied(r)
    BY DEF hasApplied
  <2>3. applied(r) \in Nat \ {0}
    BY <2>1, <2>2 DEF VectorOK, applied
  <2>4. ASSUME NEW s \in localSources(r)
        PROVE  Y[r][position(s)] = interpolant(r, source[s])
    <3>1. s \in Sources /\ app.SourceOwner[s] = r
      BY DEF localSources
    <3>2. position(s) \in DOMAIN prolongated(r) /\ prolongated(r)[position(s)] = s
      BY <2>1, <3>1, PositionOf
    <3>3. position(s) \in placed("C", r) /\ placeOf("C", r, position(s)) = source[s]
      BY <3>1, <3>2 DEF placed, placeOf
    <3>4. isRow(applied(r), source[s], Y[r][position(s)])
      BY <2>1, <2>2, <3>3 DEF RankOK, ResultOK
    <3>5. source[s] \in placesOf(app)
      BY <3>1 DEF placesOf, source
    <3> QED
      BY <2>2, <2>3, <3>4, <3>5, WholeRow
  <2>5. ASSUME r = 0
        PROVE  /\ Y[0][1] = SumFunction([s \in Sources |-> xAt(0, s)])
               /\ Y[0][2] = SumFunction([s \in Sources |-> xAt(0, s) * source[s]])
    <3> DEFINE n == applied(0)
               g == [s \in Sources |-> xAt(0, s)]
               h == [s \in Sources |-> xAt(0, s) * source[s]]
    <3>1. /\ n \in Nat \ {0}
          /\ \A p \in 1 .. polynomials : isMoment(n, p, Y[0][p])
      BY <2>1, <2>2, <2>3, <2>5 DEF RankOK, MomentsOK
    <3>2. \A q \in Ranks : applied(q) \in Nat /\ n <= applied(q)
      <4>1. \A q \in Ranks : n <= applied(q)
        BY <2>2, <2>5
      <4> HIDE DEF n
      <4> QED
        BY <4>1 DEF SplineInv, SolveInv, RankOK, VectorOK, applied
    <3>3. \A s \in Sources : g[s] = value(n, s) /\ h[s] = value(n, s) * source[s]
      BY DEF value, xAt
    <3>4. 1 \in 1 .. polynomials /\ 2 \in 1 .. polynomials
      BY DEF polynomials
    <3>5. SumFunction(g) = SumFunctionOnSet(g, Sources)
          /\ SumFunction(h) = SumFunctionOnSet(h, Sources)
      BY DEF SumFunction
    <3> HIDE DEF n, g, h
    <3>6. SumFunctionOnSet([q \in Ranks |-> part(n, q, 1)], Ranks)
            = SumFunctionOnSet(g, Sources)
      BY <3>1, <3>2, <3>3, <3>4, MomentSum
    <3>7. SumFunctionOnSet([q \in Ranks |-> part(n, q, 2)], Ranks)
            = SumFunctionOnSet(h, Sources)
      BY <3>1, <3>2, <3>3, <3>4, MomentSum
    <3>8. Y[0][1] = SumFunction(g) /\ Y[0][2] = SumFunction(h)
      BY <3>1, <3>4, <3>5, <3>6, <3>7 DEF isMoment
    <3> QED
      BY <3>8 DEF g, h
  <2> QED
    BY <2>4, <2>5
<1> QED
  BY <1>1, SplineInvariant, PTL

\* B is the interpolant at every target.
THEOREM EvaluationGlobal == SplineSpec => []EvaluationIsGlobal
<1>1. SplineInv => EvaluationIsGlobal
  <2> DEFINE L(r) == localParents("targets", r)
  <2> SUFFICES ASSUME SplineInv, search = "radius", NEW r \in Ranks,
                      hasApplied(r, "B"), NEW i \in DOMAIN ordered(L(r))
               PROVE  Y[r][i] = interpolant(r, target[ordered(L(r))[i]])
    BY DEF EvaluationIsGlobal
  <2> DEFINE x == target[ordered(L(r))[i]]
  <2>1. AppOK /\ RankOK(r) /\ VectorOK(r)
    BY DEF SplineInv, SetupInv, StagesOK, SolveInv, RankOK
  <2>2. /\ stage[r] = "ready" /\ X[r] # <<>> /\ operator(r) = "B"
        /\ \A q \in Ranks : applied(q) >= applied(r)
    BY DEF hasApplied
  <2>3. applied(r) \in Nat \ {0}
    BY <2>1, <2>2 DEF VectorOK, applied
  <2>4. i \in placed("B", r) /\ placeOf("B", r, i) = x
    BY DEF placed, placeOf
  <2>5. isRow(applied(r), x, Y[r][i])
    BY <2>1, <2>2, <2>4 DEF RankOK, ResultOK
  <2>6. x \in placesOf(app)
    <3>1. L(r) \in SUBSET Targets
      BY DEF localParents
    <3>2. \A e \in Targets : e \in Int
      BY CentersAssumption
    <3>3. L(r) \in SUBSET Int /\ IsFiniteSet(L(r))
      BY <3>1, <3>2, CentersAssumption, FS_Subset
    <3> HIDE DEF L
    <3>4. ordered(L(r))[i] \in L(r)
      BY <3>3, OrderedPlaces DEF Bijection, Injection
    <3> QED
      BY <3>1, <3>4 DEF placesOf, target
  <2> QED
    BY <2>2, <2>3, <2>5, <2>6, WholeRow
<1> QED
  BY <1>1, SplineInvariant, PTL
=============================================================================
