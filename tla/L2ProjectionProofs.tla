------------------------- MODULE L2ProjectionProofs -------------------------
(***************************************************************************)
(* Proofs about the L2 projection, for any ranks, meshes, partition and    *)
(* quadrature: the ids of the integration points are unique over the ranks; *)
(* each pair of a domain entity and a point in it is known where the       *)
(* coupling matrix is assembled; both assembled matrices are the sums of   *)
(* their quadrature over all cells, inserted once each; and a constant on  *)
(* the domain is projected to the same constant.                           *)
(***************************************************************************)
EXTENDS L2Projection, ParallelSearchProofs, SumTheorems, SequenceTheorems

-----------------------------------------------------------------------------
(***************************************************************************)
(* Finite sets.                                                            *)
(***************************************************************************)
\* The values of a function on a finite domain are finitely many.
LEMMA FiniteValues ==
  ASSUME NEW S, IsFiniteSet(S), NEW f, f = [x \in S |-> f[x]]
  PROVE  IsFiniteSet({f[x] : x \in S})
<1> DEFINE T == {f[x] : x \in S}
<1>1. f \in Surjection(S, T)
  BY DEF Surjection
<1> QED
  BY <1>1, FS_Surjection

-----------------------------------------------------------------------------
(***************************************************************************)
(* The points of a rank, in the order of the loops.                        *)
(***************************************************************************)
LEMMA LoopsFinite ==
  ASSUME NEW r \in Ranks
  PROVE  /\ loops(r) \in SUBSET (Int \X Int)
         /\ IsFiniteSet(loops(r)) /\ Cardinality(loops(r)) \in Nat
         /\ \A x \in loops(r) : EntitySet[r][x[1]] \in Cells
<1> DEFINE C(k) == EntitySet[r][k]
           L(k) == {<<k, p>> : p \in DOMAIN CellRule[C(k)]}
           I    == range_iterator(r)
<1>1. EntitySet[r] \in Seq(Cells)
  BY CellAssumption
<1>2. \A k \in I : k \in Int /\ C(k) \in Cells
  BY <1>1 DEF range_iterator
<1>3. IsFiniteSet(I)
  <2>1. I \in SUBSET (1 .. Len(EntitySet[r]))
    BY <1>1 DEF range_iterator
  <2>2. IsFiniteSet(1 .. Len(EntitySet[r]))
    BY <1>1, FS_Interval
  <2> QED
    BY <2>1, <2>2, FS_Subset
<1>4. ASSUME NEW k \in I PROVE IsFiniteSet(L(k)) /\ L(k) \in SUBSET (Int \X Int)
  <2>1. PICK n \in Nat : DOMAIN CellRule[C(k)] = 1 .. n
    BY <1>2, CellAssumption
  <2> DEFINE f == [p \in 1 .. n |-> <<k, p>>]
  <2>2. IsFiniteSet(1 .. n)
    BY FS_Interval
  <2>3. IsFiniteSet({f[p] : p \in 1 .. n})
    BY <2>2, FiniteValues
  <2>4. L(k) = {f[p] : p \in 1 .. n}
    BY <2>1
  <2>5. IsFiniteSet(L(k))
    <3> HIDE DEF f, L
    <3> QED
      BY <2>3, <2>4
  <2>6. L(k) \in SUBSET (Int \X Int)
    BY <1>2, <2>1
  <2> QED
    BY <2>5, <2>6
<1> DEFINE g == [k \in I |-> L(k)]
           U == {g[k] : k \in I}
<1>5. IsFiniteSet(U)
  <2>1. g = [k \in I |-> g[k]]
    OBVIOUS
  <2> HIDE DEF g, I
  <2> QED
    BY <1>3, <2>1, FiniteValues
<1>6. loops(r) = UNION U
  BY DEF loops
<1>7. \A T \in U : IsFiniteSet(T)
  BY <1>4
<1>8. IsFiniteSet(loops(r))
  <2> HIDE DEF U
  <2> QED
    BY <1>5, <1>6, <1>7, FS_UNION
<1>9. loops(r) \in SUBSET (Int \X Int)
  BY <1>4 DEF loops
<1>10. \A x \in loops(r) : EntitySet[r][x[1]] \in Cells
  BY <1>2 DEF loops
<1> QED
  BY <1>8, <1>9, <1>10, FS_CardinalityType

\* Every place of the sequence is that of one turn of the loops, and no two turns
\* have the same.
LEMMA PlacesTaken ==
  ASSUME NEW r \in Ranks
  PROVE  /\ \A x \in loops(r) : turn(r, x) \in 1 .. Cardinality(loops(r))
         /\ \A x, z \in loops(r) : turn(r, x) = turn(r, z) => x = z
         /\ \A i \in 1 .. Cardinality(loops(r)) :
              \E y \in loops(r) : turn(r, y) = i
<1> DEFINE P == loops(r)
           upTo(x) == {y \in P : y = x \/ before(y, x)}
           N == 1 .. Cardinality(P)
           f == [x \in P |-> turn(r, x)]
<1>1. P \in SUBSET (Int \X Int) /\ IsFiniteSet(P) /\ Cardinality(P) \in Nat
  BY LoopsFinite
<1>2. ASSUME NEW x \in P
      PROVE  /\ IsFiniteSet(upTo(x)) /\ turn(r, x) = Cardinality(upTo(x))
             /\ turn(r, x) \in N
  <2>1. upTo(x) \in SUBSET P /\ x \in upTo(x)
    OBVIOUS
  <2>2. IsFiniteSet(upTo(x)) /\ Cardinality(upTo(x)) <= Cardinality(P)
    BY <1>1, <2>1, FS_Subset
  <2>3. Cardinality(upTo(x)) \in Nat /\ Cardinality(upTo(x)) # 0
    BY <2>1, <2>2, FS_CardinalityType, FS_EmptySet
  <2>4. turn(r, x) = Cardinality(upTo(x))
    BY DEF turn
  <2> HIDE DEF upTo
  <2> QED
    BY <1>1, <2>2, <2>3, <2>4
<1>3. ASSUME NEW x \in P, NEW z \in P, before(x, z)
      PROVE  turn(r, x) # turn(r, z)
  <2>1. \A y \in P : before(y, x) => before(y, z)
    BY <1>1, <1>3 DEF before
  <2>2. upTo(x) \in SUBSET upTo(z)
    BY <1>3, <2>1
  <2>3. ~ before(z, x) /\ z # x
    BY <1>1, <1>3 DEF before
  <2>4. z \in upTo(z) /\ z \notin upTo(x)
    BY <2>3
  <2>5. Cardinality(upTo(x)) # Cardinality(upTo(z))
    BY <1>2, <2>2, <2>4, FS_Subset
  <2> QED
    BY <1>2, <2>5
<1>4. ASSUME NEW x \in P, NEW z \in P, x # z
      PROVE  before(x, z) \/ before(z, x)
  <2>1. PICK a \in Int, b \in Int : x = <<a, b>>
    BY <1>1
  <2>2. PICK c \in Int, d \in Int : z = <<c, d>>
    BY <1>1
  <2> QED
    BY <1>4, <2>1, <2>2 DEF before
<1>5. f \in Injection(P, N)
  <2>1. f \in [P -> N]
    BY <1>2
  <2>2. \A x, z \in P : f[x] = f[z] => x = z
    BY <1>3, <1>4
  <2> QED
    BY <2>1, <2>2 DEF Injection, IsInjective
<1>6. IsFiniteSet(N) /\ Cardinality(N) = Cardinality(P)
  <2> DEFINE c == Cardinality(P)
  <2>1. c \in Nat
    BY <1>1
  <2> HIDE DEF c
  <2>2. IsFiniteSet(1 .. c) /\ Cardinality(1 .. c) = c
    BY <2>1, FS_Interval
  <2> QED
    BY <2>2 DEF c
<1>7. f \in Surjection(P, N)
  <2> HIDE DEF f, N, P
  <2> QED
    BY <1>5, <1>6, FS_Injection
<1>8. \A i \in N : \E y \in P : f[y] = i
  <2> HIDE DEF f, N, P
  <2> QED
    BY <1>7 DEF Surjection
<1>9. \A i \in N : \E y \in P : turn(r, y) = i
  BY <1>8
<1> QED
  BY <1>2, <1>3, <1>4, <1>9

LEMMA PointsType ==
  ASSUME NEW r \in Ranks
  PROVE  \E n \in Nat : /\ DOMAIN points[r] = 1 .. n
                        /\ \A i \in 1 .. n : points[r][i][1] \in Cells
<1> DEFINE n == Cardinality(loops(r))
           y(i) == CHOOSE x \in loops(r) : turn(r, x) = i
<1>1. n \in Nat /\ \A x \in loops(r) : EntitySet[r][x[1]] \in Cells
  BY LoopsFinite
<1>2. points[r] = [i \in 1 .. n |-> <<EntitySet[r][y(i)[1]], y(i)[2]>>]
  BY DEF points
<1>3. \A i \in 1 .. n : y(i) \in loops(r)
  BY PlacesTaken
<1> HIDE DEF n, y
<1> QED
  BY <1>1, <1>2, <1>3

-----------------------------------------------------------------------------
(***************************************************************************)
(* The invariant.                                                          *)
(***************************************************************************)
places == {shape.centroid : shape \in RangeShapes}

ProjectionTypes ==
  /\ stage \in [Ranks -> {"new", "mass", "numbers", "search", "reduce",
                          "points", "coupling", "ready"}]
  /\ DOMAIN d_points = Ranks
  /\ DOMAIN d_start_gid = Ranks
  /\ DOMAIN ip_stride = Ranks
  /\ DOMAIN point_sends = Ranks

\* A rank that is through with the mass matrix has the points of its cells.
PointsSet ==
  \A r \in Ranks : stage[r] # "new" =>
    /\ DOMAIN d_points[r] = DOMAIN points[r]
    /\ \A i \in DOMAIN points[r] :
         d_points[r][i] \in [of : {points[r][i]}, at : places, gid : Int]

\* A rank has numbers for its points when every rank has its points, and they
\* follow those of the ranks below.
Numbered ==
  \A r \in Ranks : isNumbered(r) =>
    /\ \A q \in Ranks : stage[q] \notin {"new", "mass"}
    /\ d_start_gid[r] = start(r)
    /\ \A i \in DOMAIN d_points[r] : d_points[r][i].gid = start(r) + i - 1

\* A rank that is past the search has returned from it.
SearchEnded ==
  \A r \in Ranks :
    stage[r] \in {"reduce", "points", "coupling", "ready"} => returned(r)

\* What is searched are the points.
pointIds(r) == {d_points[r][i].gid : i \in DOMAIN d_points[r]}

RangeIsPoints ==
  \A r \in Ranks : searches[r] > 0 =>
    /\ isNumbered(r) /\ DOMAIN range[r] = pointIds(r)
    /\ \A id \in pointIds(r) : range[r][id].centroid = getPoint(r, id).at

\* No rank sends its points before all have searched, and none inserts entries
\* before all have sent their points.
StagesInOrder ==
  \A r, s \in Ranks :
    /\ stage[r] \in {"points", "coupling", "ready"} =>
         stage[s] \in {"reduce", "points", "coupling", "ready"}
    /\ stage[r] \in {"coupling", "ready"} =>
         stage[s] \in {"points", "coupling", "ready"}

\* What a rank sends are pairs of its graph, to where the domain entity is, and
\* all of them; its stride is greater than the number of supports of any point.
PointsSent ==
  \A r \in Ranks : stage[r] \in {"points", "coupling", "ready"} =>
    /\ \A q \in Ranks : \A i \in DOMAIN d_points[q] :
         Len(supportsOf(d_points[q][i].of)) < ip_stride[r]
    /\ ip_stride[r] \in Int
    /\ \A m \in point_sends[r] :
         /\ m.ip \in DOMAIN range[r]
         /\ m = pointMessage(r, m.ip, m.domain, DomainOwner[m.domain])
    /\ \A e \in RangeEntities, d \in DomainEntities :
         RangeOwner[e] = r /\ <<e, d>> \in d_range_to_domain_map[r] =>
           pointMessage(r, e, d, DomainOwner[d]) \in point_sends[r]

\* The inductive invariant, on top of that of the search.
ProjectionInv == /\ ProjectionTypes /\ PointsSet /\ Numbered /\ SearchEnded
                 /\ RangeIsPoints /\ StagesInOrder /\ PointsSent

-----------------------------------------------------------------------------
(***************************************************************************)
(* What the steps read and write.                                          *)
(***************************************************************************)
LEMMA ProjectionSearchStep ==
  ASSUME SearchInv, NEW r \in Ranks, ProjectionStep(r)
  PROVE  SearchInv'
<1>1. [Next]_vars
  BY DEF ProjectionStep, AssembleMassMatrix, FillMassMatrix, Finalize,
         SearchPoints, EnterReduction, SendPoints, InsertCouplings,
         FillCouplingMatrix, Next
<1> QED
  BY <1>1, SearchInvStep

\* A rank goes through the stages of setup() one by one.
LEMMA StageStep ==
  ASSUME ProjectionTypes, NEW r \in Ranks, ProjectionStep(r)
  PROVE  /\ \A s \in Ranks \ {r} : stage'[s] = stage[s]
         /\ \/ AssembleMassMatrix(r) /\ stage[r] = "new" /\ stage'[r] = "mass"
            \/ FillMassMatrix(r) /\ stage[r] = "mass" /\ stage'[r] = "numbers"
            \/ Finalize(r) /\ stage[r] = "numbers" /\ stage'[r] = "search"
            \/ SearchPoints(r) /\ stage[r] = "search" /\ stage'[r] = "search"
            \/ EnterReduction(r) /\ stage[r] = "search" /\ stage'[r] = "reduce"
            \/ SendPoints(r) /\ stage[r] = "reduce" /\ stage'[r] = "points"
            \/ InsertCouplings(r) /\ stage[r] = "points" /\ stage'[r] = "coupling"
            \/ FillCouplingMatrix(r) /\ stage[r] = "coupling" /\ stage'[r] = "ready"
         /\ stage' \in [Ranks -> {"new", "mass", "numbers", "search", "reduce",
                                  "points", "coupling", "ready"}]
<1> USE DEF ProjectionTypes, goTo, projectionVars
<1>1. CASE AssembleMassMatrix(r)
  BY <1>1 DEF AssembleMassMatrix
<1>2. CASE FillMassMatrix(r)
  BY <1>2 DEF FillMassMatrix
<1>3. CASE Finalize(r)
  BY <1>3 DEF Finalize
<1>4. CASE SearchPoints(r)
  BY <1>4 DEF SearchPoints
<1>5. CASE EnterReduction(r)
  BY <1>5 DEF EnterReduction
<1>6. CASE SendPoints(r)
  BY <1>6 DEF SendPoints
<1>7. CASE InsertCouplings(r)
  BY <1>7 DEF InsertCouplings
<1>8. CASE FillCouplingMatrix(r)
  BY <1>8 DEF FillCouplingMatrix
<1> QED
  BY <1>1, <1>2, <1>3, <1>4, <1>5, <1>6, <1>7, <1>8 DEF ProjectionStep

\* Two steps write the points, one the exports.
LEMMA PointsKept ==
  ASSUME ProjectionTypes, NEW r \in Ranks, ProjectionStep(r)
  PROVE  /\ ~ AssembleMassMatrix(r) /\ ~ Finalize(r) =>
              d_points' = d_points /\ d_start_gid' = d_start_gid
         /\ ~ SendPoints(r) => ip_stride' = ip_stride /\ point_sends' = point_sends
         /\ ~ SearchPoints(r) => UNCHANGED vars
         /\ AssembleMassMatrix(r) \/ Finalize(r) =>
              /\ \A s \in Ranks \ {r} : /\ d_points'[s] = d_points[s]
                                        /\ d_start_gid'[s] = d_start_gid[s]
              /\ DOMAIN d_points' = Ranks /\ DOMAIN d_start_gid' = Ranks
         /\ \A s \in Ranks \ {r} : /\ ip_stride'[s] = ip_stride[s]
                                   /\ point_sends'[s] = point_sends[s]
         /\ DOMAIN ip_stride' = Ranks /\ DOMAIN point_sends' = Ranks
<1> USE DEF ProjectionTypes, projectionVars, couplingVars
<1>1. CASE AssembleMassMatrix(r)
  BY <1>1 DEF AssembleMassMatrix
<1>2. CASE FillMassMatrix(r)
  BY <1>2 DEF FillMassMatrix
<1>3. CASE Finalize(r)
  BY <1>3 DEF Finalize
<1>4. CASE SearchPoints(r)
  BY <1>4 DEF SearchPoints
<1>5. CASE EnterReduction(r)
  BY <1>5 DEF EnterReduction
<1>6. CASE SendPoints(r)
  BY <1>6 DEF SendPoints
<1>7. CASE InsertCouplings(r)
  BY <1>7 DEF InsertCouplings
<1>8. CASE FillCouplingMatrix(r)
  BY <1>8 DEF FillCouplingMatrix
<1> QED
  BY <1>1, <1>2, <1>3, <1>4, <1>5, <1>6, <1>7, <1>8 DEF ProjectionStep

LEMMA TypesStep ==
  ASSUME ProjectionTypes, NEW r \in Ranks, ProjectionStep(r)
  PROVE  ProjectionTypes'
<1>1. DOMAIN d_points' = Ranks /\ DOMAIN d_start_gid' = Ranks
  BY PointsKept DEF ProjectionTypes
<1> QED
  BY <1>1, PointsKept, StageStep DEF ProjectionTypes

-----------------------------------------------------------------------------
(***************************************************************************)
(* The numbers of the points.                                              *)
(***************************************************************************)
LEMMA PlacesOfRank ==
  ASSUME NEW q, NEW n \in Nat
  PROVE  /\ IsFiniteSet({<<q, i>> : i \in 1 .. n})
         /\ Cardinality({<<q, i>> : i \in 1 .. n}) = n
<1> DEFINE S == {<<q, i>> : i \in 1 .. n}
           f == [i \in 1 .. n |-> <<q, i>>]
<1>1. f \in Bijection(1 .. n, S)
  <2>1. f \in Surjection(1 .. n, S)
    BY DEF Surjection
  <2>2. f \in Injection(1 .. n, S)
    BY DEF Injection, IsInjective
  <2> QED
    BY <2>1, <2>2 DEF Bijection
<1>2. IsFiniteSet(1 .. n) /\ Cardinality(1 .. n) = n
  BY FS_Interval
<1>3. IsFiniteSet(S) /\ Cardinality(S) = n
  <2> HIDE DEF f, S
  <2> QED
    BY <1>1, <1>2, FS_Bijection DEF ExistsBijection
<1> QED
  BY <1>3

\* The points of the ranks below are finitely many.
LEMMA StartType ==
  ASSUME ProjectionTypes, PointsSet, NEW r \in Ranks,
         \A q \in Ranks : stage[q] # "new"
  PROVE  IsFiniteSet(pointsBelow(r)) /\ start(r) \in Nat
<1> DEFINE B == {n \in Ranks : n < r}
           g == [q \in B |-> {<<q, i>> : i \in DOMAIN d_points[q]}]
           U == {g[q] : q \in B}
<1>1. IsFiniteSet(B)
  <2>1. B \in SUBSET Ranks
    OBVIOUS
  <2> QED
    BY <2>1, RankAssumption, FS_Subset
<1>2. IsFiniteSet(U)
  <2>1. g = [q \in B |-> g[q]]
    OBVIOUS
  <2> HIDE DEF g, B
  <2> QED
    BY <1>1, <2>1, FiniteValues
<1>3. \A T \in U : IsFiniteSet(T)
  <2> SUFFICES ASSUME NEW q \in B PROVE IsFiniteSet(g[q])
    OBVIOUS
  <2>1. PICK n \in Nat : DOMAIN d_points[q] = 1 .. n
    BY PointsType DEF PointsSet
  <2>2. g[q] = {<<q, i>> : i \in 1 .. n}
    BY <2>1
  <2> QED
    BY <2>1, <2>2, PlacesOfRank
<1>4. pointsBelow(r) = UNION U
  BY DEF pointsBelow
<1>5. IsFiniteSet(pointsBelow(r))
  <2> HIDE DEF U
  <2> QED
    BY <1>2, <1>3, <1>4, FS_UNION
<1> QED
  BY <1>5, FS_CardinalityType DEF start

LEMMA PointsSetStep ==
  ASSUME ProjectionInv, NEW r \in Ranks, ProjectionStep(r)
  PROVE  PointsSet'
<1> USE DEF ProjectionInv
<1> SUFFICES ASSUME NEW s \in Ranks, stage'[s] # "new"
             PROVE  PointsSet!(s)!2'
  BY DEF PointsSet
<1>1. CASE s = r /\ AssembleMassMatrix(r)
  <2>1. PICK at \in [DOMAIN points[r] -> places] :
          d_points' = [d_points EXCEPT ![r] =
            [i \in DOMAIN points[r] |->
               [of |-> points[r][i], at |-> at[i], gid |-> 0]]]
    BY <1>1 DEF AssembleMassMatrix, places
  <2>2. d_points'[r] = [i \in DOMAIN points[r] |->
                          [of |-> points[r][i], at |-> at[i], gid |-> 0]]
    BY <2>1 DEF ProjectionTypes
  <2> QED
    BY <1>1, <2>2
<1>2. CASE s = r /\ Finalize(r)
  <2>1. PointsSet!(r)!2
    BY <1>2 DEF PointsSet, Finalize
  <2>2. d_points'[r] = [i \in DOMAIN d_points[r] |->
                          [d_points[r][i] EXCEPT !.gid = start(r) + i - 1]]
    BY <1>2 DEF Finalize, ProjectionTypes
  <2>3. PICK n \in Nat : DOMAIN points[r] = 1 .. n
    BY PointsType
  <2>4. \A i \in DOMAIN points[r] : start(r) + i - 1 \in Int
    <3>1. \A q \in Ranks : stage[q] # "new"
      BY <1>2 DEF Finalize, passed
    <3>2. start(r) \in Nat
      BY <3>1, StartType
    <3> QED
      BY <2>3, <3>2
  <2> QED
    BY <1>2, <2>1, <2>2, <2>4
<1>3. CASE s # r \/ ~ (AssembleMassMatrix(r) \/ Finalize(r))
  <2>1. d_points'[s] = d_points[s] /\ stage[s] # "new"
    BY <1>3, PointsKept, StageStep
  <2> QED
    BY <2>1 DEF PointsSet
<1> QED
  BY <1>1, <1>2, <1>3

\* The points of the ranks below a rank have its points and those of the ranks
\* below these.
LEMMA StartsApart ==
  ASSUME ProjectionTypes, PointsSet, NEW q \in Ranks, NEW r \in Ranks, q < r,
         \A p \in Ranks : stage[p] # "new",
         NEW n \in Nat, DOMAIN d_points[q] = 1 .. n
  PROVE  start(q) + n <= start(r)
<1> DEFINE B == {<<q, i>> : i \in 1 .. n}
           A == pointsBelow(q)
           C == pointsBelow(r)
<1>1. /\ IsFiniteSet(A) /\ start(q) = Cardinality(A) /\ start(q) \in Nat
      /\ IsFiniteSet(C) /\ start(r) = Cardinality(C) /\ start(r) \in Nat
  BY StartType DEF start
<1>2. IsFiniteSet(B) /\ Cardinality(B) = n
  BY PlacesOfRank
<1>3. A \cap B = {}
  BY RankAssumption DEF pointsBelow
<1>4. A \cup B \in SUBSET C
  <2>1. A \in SUBSET C
    <3>1. \A p \in Ranks : p < q => p < r
      BY RankAssumption
    <3> QED
      BY <3>1 DEF pointsBelow
  <2>2. B \in SUBSET C
    BY DEF pointsBelow
  <2> QED
    BY <2>1, <2>2
<1> HIDE DEF A, B, C
<1>5. Cardinality(A \cup B) <= Cardinality(C)
  BY <1>1, <1>4, FS_Subset
<1>6. Cardinality(A \cup B) = Cardinality(A) + n
  <2>1. Cardinality(A \cup B) = Cardinality(A) + n - Cardinality(A \cap B)
    BY <1>1, <1>2, FS_Union
  <2>2. Cardinality(A \cap B) = 0
    BY <1>3, FS_EmptySet
  <2>3. Cardinality(A) \in Nat
    BY <1>1
  <2> QED
    BY <2>1, <2>2, <2>3
<1> QED
  BY <1>1, <1>5, <1>6

\* Once all ranks have their points the number of points below one is settled.
LEMMA StartKept ==
  ASSUME ProjectionInv, NEW r \in Ranks, ProjectionStep(r),
         \A q \in Ranks : stage[q] \notin {"new", "mass"}
  PROVE  \A s \in Ranks : /\ DOMAIN d_points'[s] = DOMAIN d_points[s]
                          /\ start(s)' = start(s)
<1> USE DEF ProjectionInv
<1>1. ASSUME NEW s \in Ranks PROVE DOMAIN d_points'[s] = DOMAIN d_points[s]
  <2>1. CASE s = r /\ Finalize(r)
    BY <2>1 DEF Finalize, ProjectionTypes
  <2>2. CASE s # r \/ ~ Finalize(r)
    <3>1. d_points'[s] = d_points[s]
      BY <2>2, PointsKept DEF AssembleMassMatrix
    <3> QED
      BY <3>1
  <2> QED
    BY <2>1, <2>2
<1>2. ASSUME NEW s \in Ranks PROVE pointsBelow(s)' = pointsBelow(s)
  BY <1>1 DEF pointsBelow
<1> QED
  BY <1>1, <1>2 DEF start

LEMMA NumberedStep ==
  ASSUME ProjectionInv, NEW r \in Ranks, ProjectionStep(r)
  PROVE  Numbered'
<1> USE DEF ProjectionInv
<1> SUFFICES ASSUME NEW s \in Ranks, isNumbered(s)'
             PROVE  Numbered!(s)!2'
  BY DEF Numbered
<1>1. CASE s = r /\ Finalize(r)
  <2>1. \A q \in Ranks : stage[q] \notin {"new", "mass"}
    BY <1>1 DEF Finalize, passed
  <2>2. start(r)' = start(r) /\ DOMAIN d_points'[r] = DOMAIN d_points[r]
    BY <2>1, StartKept
  <2>3. /\ d_start_gid'[r] = start(r)
        /\ d_points'[r] = [i \in DOMAIN d_points[r] |->
                             [d_points[r][i] EXCEPT !.gid = start(r) + i - 1]]
    BY <1>1 DEF Finalize, ProjectionTypes
  <2>4. \A i \in DOMAIN d_points[r] :
          d_points[r][i] \in [of : {points[r][i]}, at : places, gid : Int]
    BY <2>1 DEF PointsSet
  <2>5. \A i \in DOMAIN d_points[r] : d_points'[r][i].gid = start(r) + i - 1
    BY <2>3, <2>4
  <2>6. \A q \in Ranks : stage'[q] \notin {"new", "mass"}
    BY <2>1, StageStep
  <2> QED
    BY <1>1, <2>2, <2>3, <2>5, <2>6
<1>2. CASE s # r \/ ~ Finalize(r)
  <2>1. isNumbered(s)
    BY <1>2, StageStep DEF isNumbered
  <2>2. \A q \in Ranks : stage[q] \notin {"new", "mass"}
    BY <2>1 DEF Numbered
  <2>3. start(s)' = start(s)
    BY <2>2, StartKept
  <2>4. d_points'[s] = d_points[s] /\ d_start_gid'[s] = d_start_gid[s]
    BY <1>2, <2>2, PointsKept DEF AssembleMassMatrix
  <2>5. \A q \in Ranks : stage'[q] \notin {"new", "mass"}
    BY <2>2, StageStep
  <2> QED
    BY <2>1, <2>3, <2>4, <2>5 DEF Numbered
<1> QED
  BY <1>1, <1>2

\* In what the invariant says the points are found by their ids.
LEMMA InvFindsPoints == ProjectionTypes /\ PointsSet /\ Numbered => PointsFound
<1> SUFFICES ASSUME ProjectionTypes, PointsSet, Numbered,
                    NEW r \in Ranks, NEW q \in Ranks,
                    isNumbered(r), isNumbered(q),
                    NEW i \in DOMAIN d_points[r], NEW j \in DOMAIN d_points[q]
             PROVE  /\ d_points[r][i].gid = d_points[q][j].gid => r = q /\ i = j
                    /\ getPoint(r, d_points[r][i].gid) = d_points[r][i]
  BY DEF PointsFound
<1>1. \A p \in Ranks : stage[p] # "new"
  BY DEF Numbered
<1>2. PICK n \in Nat : DOMAIN d_points[r] = 1 .. n
  BY <1>1, PointsType DEF PointsSet
<1>3. PICK k \in Nat : DOMAIN d_points[q] = 1 .. k
  BY <1>1, PointsType DEF PointsSet
<1>4. start(r) \in Nat /\ start(q) \in Nat
  BY <1>1, StartType
<1>5. /\ d_points[r][i].gid = start(r) + i - 1 /\ d_start_gid[r] = start(r)
      /\ d_points[q][j].gid = start(q) + j - 1
  BY DEF Numbered
<1>6. /\ q < r => start(q) + k <= start(r)
      /\ r < q => start(r) + n <= start(q)
  BY <1>1, <1>2, <1>3, StartsApart
<1>7. r = q \/ q < r \/ r < q
  BY RankAssumption
<1>8. d_points[r][i].gid = d_points[q][j].gid => r = q /\ i = j
  BY <1>2, <1>3, <1>4, <1>5, <1>6, <1>7
<1>9. d_points[r][i].gid - d_start_gid[r] + 1 = i
  BY <1>2, <1>4, <1>5
<1> QED
  BY <1>8, <1>9 DEF getPoint

-----------------------------------------------------------------------------
(***************************************************************************)
(* The search for the points.                                              *)
(***************************************************************************)

\* A rank's part of the search is written by its own steps of the search.
LEMMA SearchKept ==
  ASSUME SearchInv, ProjectionTypes, NEW r \in Ranks, ProjectionStep(r),
         NEW s \in Ranks, s # r \/ ~ SearchPoints(r)
  PROVE  /\ pc'[s] = pc[s] /\ searches'[s] = searches[s]
         /\ range'[s] = range[s] /\ domain'[s] = domain[s]
         /\ d_domain_to_range_map'[s] = d_domain_to_range_map[s]
         /\ d_parametric_coords'[s] = d_parametric_coords[s]
         /\ d_range_to_domain_map'[s] = d_range_to_domain_map[s]
         /\ d_domain_owner_ranks'[s] = d_domain_owner_ranks[s]
<1>1. CASE SearchPoints(r)
  <2>1. s # r /\ Step(r)
    BY <1>1 DEF SearchPoints
  <2> QED
    BY <2>1, OthersKeep, StepOfRank DEF SearchInv
<1>2. CASE ~ SearchPoints(r)
  BY <1>2, PointsKept DEF vars, callVars, inputVars, domainVars, rangeVars
<1> QED
  BY <1>1, <1>2

\* Neither do the points of a rank that has numbered them change.
LEMMA PointsFrozen ==
  ASSUME ProjectionInv, NEW r \in Ranks, ProjectionStep(r),
         NEW s \in Ranks, isNumbered(s)
  PROVE  /\ d_points'[s] = d_points[s] /\ d_start_gid'[s] = d_start_gid[s]
         /\ isNumbered(s)'
BY PointsKept, StageStep DEF ProjectionInv, isNumbered, AssembleMassMatrix, Finalize

LEMMA SearchEndedStep ==
  ASSUME SearchInv, ProjectionInv, NEW r \in Ranks, ProjectionStep(r)
  PROVE  SearchEnded'
<1> USE DEF ProjectionInv
<1> SUFFICES ASSUME NEW s \in Ranks,
                    stage'[s] \in {"reduce", "points", "coupling", "ready"}
             PROVE  returned(s)'
  BY DEF SearchEnded
<1>1. s # r \/ ~ SearchPoints(r)
  BY StageStep DEF SearchPoints, projectionVars
<1>2. returned(s)
  BY StageStep DEF SearchEnded, EnterReduction
<1> QED
  BY <1>1, <1>2, SearchKept DEF returned

LEMMA RangeIsPointsStep ==
  ASSUME SearchInv, ProjectionInv, NEW r \in Ranks, ProjectionStep(r)
  PROVE  RangeIsPoints'
<1> USE DEF ProjectionInv
<1> SUFFICES ASSUME NEW s \in Ranks, searches'[s] > 0
             PROVE  /\ isNumbered(s)' /\ DOMAIN range'[s] = pointIds(s)'
                    /\ \A id \in pointIds(s)' :
                         range'[s][id].centroid = (getPoint(s, id).at)'
  BY DEF RangeIsPoints
<1>1. CASE s = r /\ SearchPoints(r)
  <2>1. /\ stage[r] = "search" /\ stage' = stage /\ d_points' = d_points
        /\ d_start_gid' = d_start_gid /\ Step(r)
        /\ (pc[r] = "idle" => range'[r] = entityIterator(r))
    BY <1>1 DEF SearchPoints, projectionVars
  <2>2. /\ isNumbered(r) /\ isNumbered(r)' /\ pointIds(r)' = pointIds(r)
        /\ \A id : getPoint(r, id)' = getPoint(r, id)
    BY <2>1 DEF isNumbered, pointIds, getPoint
  <2>3. CASE pc[r] = "idle"
    BY <1>1, <2>1, <2>2, <2>3 DEF entityIterator, pointIds
  <2>4. CASE pc[r] # "idle"
    <3>1. range'[r] = range[r]
      BY <2>1, <2>4, InputsKept DEF SearchInv
    <3>2. searches'[r] = searches[r]
      BY <2>1, <2>4, StepOfRank DEF SearchInv
    <3> QED
      BY <1>1, <2>2, <3>1, <3>2 DEF RangeIsPoints
  <2> QED
    BY <2>3, <2>4
<1>2. CASE s # r \/ ~ SearchPoints(r)
  <2>1. searches[s] > 0 /\ range'[s] = range[s]
    BY <1>2, SearchKept
  <2>2. /\ isNumbered(s) /\ DOMAIN range[s] = pointIds(s)
        /\ \A id \in pointIds(s) : range[s][id].centroid = getPoint(s, id).at
    BY <2>1 DEF RangeIsPoints
  <2>3. /\ d_points'[s] = d_points[s] /\ isNumbered(s)'
        /\ d_start_gid'[s] = d_start_gid[s]
    BY <2>2, PointsFrozen
  <2>4. pointIds(s)' = pointIds(s) /\ \A id : getPoint(s, id)' = getPoint(s, id)
    BY <2>3 DEF pointIds, getPoint
  <2> QED
    BY <2>1, <2>2, <2>3, <2>4
<1> QED
  BY <1>1, <1>2

LEMMA StagesInOrderStep ==
  ASSUME ProjectionInv, NEW r \in Ranks, ProjectionStep(r)
  PROVE  StagesInOrder'
<1> USE DEF ProjectionInv
<1>1. /\ stage[r] = "reduce" /\ stage'[r] = "points" =>
           \A s \in Ranks : stage[s] \in {"reduce", "points", "coupling", "ready"}
      /\ stage[r] = "points" /\ stage'[r] = "coupling" =>
           \A s \in Ranks : stage[s] \in {"points", "coupling", "ready"}
  BY StageStep DEF SendPoints, InsertCouplings, passed, ProjectionTypes
<1> QED
  BY <1>1, StageStep DEF StagesInOrder

-----------------------------------------------------------------------------
(***************************************************************************)
(* What is sent of the points.                                             *)
(***************************************************************************)

\* The supports of a point are a sequence.
LEMMA LengthType ==
  ASSUME PointsSet, NEW q \in Ranks, stage[q] # "new", NEW i \in DOMAIN d_points[q]
  PROVE  /\ Len(supportsOf(d_points[q][i].of)) \in Nat
         /\ DOMAIN supportsOf(d_points[q][i].of)
              = 1 .. Len(supportsOf(d_points[q][i].of))
<1>1. PICK n \in Nat : /\ DOMAIN points[q] = 1 .. n
                       /\ \A j \in 1 .. n : points[q][j][1] \in Cells
  BY PointsType
<1>2. d_points[q][i].of = points[q][i] /\ i \in 1 .. n
  BY <1>1 DEF PointsSet
<1>3. CellSupports[points[q][i][1]] \in Seq(Supports)
  BY <1>1, <1>2, CellAssumption
<1> QED
  BY <1>2, <1>3 DEF supportsOf

\* The stride the reduction makes is greater than any number of supports.
LEMMA StrideSuffices ==
  ASSUME ProjectionTypes, PointsSet, NEW r \in Ranks,
         \A q \in Ranks : stage[q] # "new"
  PROVE  /\ globalMaxSupportSize(r) \in Int
         /\ \A q \in Ranks : \A i \in DOMAIN d_points[q] :
              Len(supportsOf(d_points[q][i].of)) <= globalMaxSupportSize(r)
<1> DEFINE len(q, i) == Len(supportsOf(d_points[q][i].of))
           S(q) == {len(q, i) : i \in DOMAIN d_points[q]}
           T(q) == S(q) \cup {0}
           G == {localMaxSupportSize(q) : q \in Ranks}
<1>1. ASSUME NEW q \in Ranks
      PROVE  /\ localMaxSupportSize(q) \in Int
             /\ \A i \in DOMAIN d_points[q] :
                  len(q, i) \in Nat /\ len(q, i) <= localMaxSupportSize(q)
  <2>1. PICK n \in Nat : DOMAIN points[q] = 1 .. n
    BY PointsType
  <2>2. DOMAIN d_points[q] = 1 .. n
    BY <2>1 DEF PointsSet
  <2>3. ASSUME NEW i \in 1 .. n PROVE len(q, i) \in Nat
    BY <2>2, LengthType
  <2>4. IsFiniteSet(S(q))
    <3> DEFINE f == [i \in 1 .. n |-> len(q, i)]
    <3>1. IsFiniteSet(1 .. n)
      BY FS_Interval
    <3>2. IsFiniteSet({f[i] : i \in 1 .. n})
      BY <3>1, FiniteValues
    <3>3. S(q) = {f[i] : i \in 1 .. n}
      BY <2>2
    <3> HIDE DEF f, S
    <3> QED
      BY <3>2, <3>3
  <2>5. IsFiniteSet(T(q)) /\ T(q) # {}
    BY <2>4, FS_AddElement
  <2>6. T(q) \in SUBSET Int
    BY <2>2, <2>3
  <2>7. localMaxSupportSize(q) = Max(T(q))
    BY DEF localMaxSupportSize
  <2>8. \A i \in DOMAIN d_points[q] : len(q, i) \in T(q)
    OBVIOUS
  <2>9. Max(T(q)) \in T(q) /\ \A y \in T(q) : y <= Max(T(q))
    <3> HIDE DEF T
    <3> QED
      BY <2>5, <2>6, GreatestElement
  <2> HIDE DEF T, len
  <2> QED
    BY <2>2, <2>3, <2>6, <2>7, <2>8, <2>9
<1>2. IsFiniteSet(G) /\ G # {} /\ G \in SUBSET Int
  <2> DEFINE f == [q \in Ranks |-> localMaxSupportSize(q)]
  <2>1. IsFiniteSet({f[q] : q \in Ranks})
    BY RankAssumption, FiniteValues
  <2> QED
    BY <1>1, <2>1
<1>3. Max(G) \in G /\ \A y \in G : y <= Max(G)
  <2> HIDE DEF G
  <2> QED
    BY <1>2, GreatestElement
<1>4. globalMaxSupportSize(r) = Max(G)
  BY DEF globalMaxSupportSize
<1>5. ASSUME NEW q \in Ranks, NEW i \in DOMAIN d_points[q]
      PROVE  len(q, i) <= Max(G)
  <2>1. /\ len(q, i) <= localMaxSupportSize(q) /\ localMaxSupportSize(q) \in G
        /\ localMaxSupportSize(q) \in Int /\ len(q, i) \in Nat
    BY <1>1
  <2>2. Max(G) \in Int /\ localMaxSupportSize(q) <= Max(G)
    <3> HIDE DEF G
    <3> QED
      BY <1>2, <1>3, <2>1
  <2> HIDE DEF G, len
  <2> QED
    BY <2>1, <2>2
<1> QED
  BY <1>2, <1>3, <1>4, <1>5

\* A message depends on the points and on the graph of its rank.
LEMMA MessageKept ==
  ASSUME NEW s \in Ranks, NEW e, NEW d, NEW n,
         d_points'[s] = d_points[s], d_start_gid'[s] = d_start_gid[s],
         d_range_to_domain_map'[s] = d_range_to_domain_map[s]
  PROVE  pointMessage(s, e, d, n)' = pointMessage(s, e, d, n)
<1>1. getPoint(s, e)' = getPoint(s, e)
  BY DEF getPoint
<1>2. domainEntitiesFromRange(s, e)' = domainEntitiesFromRange(s, e)
  BY DEF domainEntitiesFromRange
<1> QED
  BY <1>1, <1>2 DEF pointMessage, sharedWeight, rule, supportsOf

LEMMA PointsSentStep ==
  ASSUME SearchInv, ProjectionInv, NEW r \in Ranks, ProjectionStep(r)
  PROVE  PointsSent'
<1> USE DEF ProjectionInv
<1> SUFFICES ASSUME NEW s \in Ranks,
                    stage'[s] \in {"points", "coupling", "ready"}
             PROVE  PointsSent!(s)!2'
  BY DEF PointsSent
<1>1. /\ \A q \in Ranks : stage[q] \in {"reduce", "points", "coupling", "ready"}
      /\ s # r \/ ~ SearchPoints(r)
  <2>1. CASE stage[s] \in {"points", "coupling", "ready"}
    BY <2>1 DEF StagesInOrder, SearchPoints
  <2>2. CASE stage[s] \notin {"points", "coupling", "ready"}
    <3>1. s = r /\ SendPoints(r)
      BY <2>2, StageStep
    <3> QED
      BY <3>1 DEF SendPoints, SearchPoints, passed, ProjectionTypes
  <2> QED
    BY <2>1, <2>2
<1>2. \A q \in Ranks : /\ isNumbered(q) /\ stage[q] # "new" /\ returned(q)
                       /\ d_points'[q] = d_points[q]
                       /\ d_start_gid'[q] = d_start_gid[q]
  BY <1>1, PointsFrozen DEF isNumbered, SearchEnded
<1>3. /\ range'[s] = range[s]
      /\ d_range_to_domain_map'[s] = d_range_to_domain_map[s]
  BY <1>1, SearchKept
<1>4. \A e, d, n : pointMessage(s, e, d, n)' = pointMessage(s, e, d, n)
  BY <1>2, <1>3, MessageKept
<1>5. CASE s # r \/ ~ SendPoints(r)
  <2>1. /\ ip_stride'[s] = ip_stride[s] /\ point_sends'[s] = point_sends[s]
        /\ stage[s] \in {"points", "coupling", "ready"}
    BY <1>5, PointsKept, StageStep
  <2>2. PointsSent!(s)!2
    BY <2>1 DEF PointsSent
  <2> QED
    BY <1>2, <1>3, <1>4, <2>1, <2>2 DEF supportsOf
<1>6. CASE s = r /\ SendPoints(r)
  <2> DEFINE H == {y \in (DOMAIN entityIterator(r)) \X d_domain_owner_ranks[r] :
                     y[2][1] \in domainEntitiesFromRange(r, y[1])}
  <2>1. /\ ip_stride'[r] = globalMaxSupportSize(r) + 1
        /\ point_sends'[r] = {pointMessage(r, x[1], x[2][1], x[2][2]) : x \in H}
    BY <1>6 DEF SendPoints, ProjectionTypes
  <2>2. DOMAIN entityIterator(r) = pointIds(r)
    BY DEF entityIterator, pointIds
  <2>3. DOMAIN range[r] = pointIds(r)
    BY <1>2 DEF RangeIsPoints, returned
  <2>4. ASSUME NEW q \in Ranks, NEW i \in DOMAIN d_points'[q]
        PROVE  Len(supportsOf(d_points'[q][i].of)) < ip_stride'[r]
    <3>1. /\ globalMaxSupportSize(r) \in Int
          /\ Len(supportsOf(d_points[q][i].of)) <= globalMaxSupportSize(r)
      BY <1>2, StrideSuffices
    <3>2. Len(supportsOf(d_points[q][i].of)) \in Nat
      BY <1>2, LengthType
    <3> QED
      BY <1>2, <2>1, <3>1, <3>2
  <2>5. ip_stride'[r] \in Int
    BY <1>2, <2>1, StrideSuffices
  <2>6. ASSUME NEW m \in point_sends'[r]
        PROVE  /\ m.ip \in DOMAIN range[r]
               /\ m = pointMessage(r, m.ip, m.domain, DomainOwner[m.domain])
    <3>1. PICK x \in H : m = pointMessage(r, x[1], x[2][1], x[2][2])
      BY <2>1
    <3>2. x[2][2] = DomainOwner[x[2][1]]
      BY DEF SearchInv, OwnersCorrect
    <3>3. m.ip = x[1] /\ m.domain = x[2][1]
      BY <3>1 DEF pointMessage
    <3> QED
      BY <2>2, <2>3, <3>1, <3>2, <3>3
  <2>7. ASSUME NEW e \in RangeEntities, NEW d \in DomainEntities,
               RangeOwner[e] = r, <<e, d>> \in d_range_to_domain_map[r]
        PROVE  pointMessage(r, e, d, DomainOwner[d]) \in point_sends'[r]
    <3>1. /\ e \in DOMAIN range[r]
          /\ <<d, DomainOwner[d]>> \in d_domain_owner_ranks[r]
      BY <1>2, <2>7, RangePair, SplitAssumption
    <3>2. d \in domainEntitiesFromRange(r, e)
      BY <2>7 DEF domainEntitiesFromRange
    <3> DEFINE h == <<e, <<d, DomainOwner[d]>>>>
    <3>3. h \in H
      BY <2>2, <2>3, <3>1, <3>2
    <3>4. h[1] = e /\ h[2][1] = d /\ h[2][2] = DomainOwner[d]
      OBVIOUS
    <3> QED
      BY <2>1, <3>3, <3>4
  <2> QED
    BY <1>3, <1>4, <1>6, <2>4, <2>5, <2>6, <2>7
<1> QED
  BY <1>5, <1>6

-----------------------------------------------------------------------------
(***************************************************************************)
(* The theorems.                                                           *)
(***************************************************************************)

\* The invariant of the search and that of the points hold throughout.
THEOREM ProjectionInvariant == ProjectionSpec => [](SearchInv /\ ProjectionInv)
<1>1. ProjectionInit => SearchInv /\ ProjectionInv
  <2> SUFFICES ASSUME ProjectionInit PROVE SearchInv /\ ProjectionInv
    OBVIOUS
  <2>1. SearchInv
    BY SearchInvInit DEF ProjectionInit
  <2>2. \A r \in Ranks : stage[r] = "new" /\ searches[r] = 0
    BY DEF ProjectionInit, Init
  <2>3. ProjectionTypes
    BY DEF ProjectionInit, ProjectionTypes
  <2> QED
    BY <2>1, <2>2, <2>3 DEF ProjectionInv, PointsSet, Numbered, isNumbered,
       SearchEnded, RangeIsPoints, StagesInOrder, PointsSent
<1>2. SearchInv /\ ProjectionInv /\ [ProjectionNext]_projectionAll
        => (SearchInv /\ ProjectionInv)'
  <2> SUFFICES ASSUME SearchInv, ProjectionInv, [ProjectionNext]_projectionAll
               PROVE  (SearchInv /\ ProjectionInv)'
    OBVIOUS
  <2>1. ASSUME NEW r \in Ranks, ProjectionStep(r)
        PROVE  (SearchInv /\ ProjectionInv)'
    <3>1. SearchInv' /\ ProjectionTypes'
      BY <2>1, ProjectionSearchStep, TypesStep DEF ProjectionInv
    <3>2. PointsSet' /\ Numbered'
      BY <2>1, PointsSetStep, NumberedStep
    <3>3. SearchEnded' /\ RangeIsPoints'
      BY <2>1, SearchEndedStep, RangeIsPointsStep
    <3>4. StagesInOrder' /\ PointsSent'
      BY <2>1, StagesInOrderStep, PointsSentStep
    <3> QED
      BY <3>1, <3>2, <3>3, <3>4 DEF ProjectionInv
  <2>2. CASE UNCHANGED projectionAll
    <3>1. UNCHANGED vars /\ UNCHANGED projectionVars
      BY <2>2 DEF projectionAll
    <3>2. SearchInv'
      BY <3>1, SearchInvStep
    <3>3. /\ UNCHANGED <<searches, pc, range, d_range_to_domain_map>>
          /\ UNCHANGED <<stage, d_points, d_start_gid, ip_stride, point_sends>>
      BY <3>1 DEF vars, callVars, inputVars, rangeVars, projectionVars,
                  couplingVars
    <3>4. /\ ProjectionTypes' /\ PointsSet' /\ SearchEnded' /\ RangeIsPoints'
          /\ StagesInOrder'
      BY <3>3 DEF ProjectionInv, ProjectionTypes, PointsSet, SearchEnded,
         RangeIsPoints, StagesInOrder, returned, isNumbered, pointIds, getPoint
    <3>5. Numbered'
      <4>1. \A r \in Ranks : start(r)' = start(r)
        BY <3>3 DEF start, pointsBelow
      <4> QED
        BY <3>3, <4>1 DEF ProjectionInv, Numbered, isNumbered
    <3>6. PointsSent'
      <4>1. \A r \in Ranks : \A e, d, n :
              pointMessage(r, e, d, n)' = pointMessage(r, e, d, n)
        BY <3>3, MessageKept
      <4> QED
        BY <3>3, <4>1 DEF ProjectionInv, PointsSent, supportsOf
    <3> QED
      BY <3>2, <3>4, <3>5, <3>6 DEF ProjectionInv
  <2> QED
    BY <2>1, <2>2 DEF ProjectionNext
<1> QED
  BY <1>1, <1>2, PTL DEF ProjectionSpec

\* No two points of all ranks have the same id, and each is found by its id.
THEOREM PointsAreFound == ProjectionSpec => []PointsFound
<1>1. ProjectionInv => PointsFound
  BY InvFindsPoints DEF ProjectionInv
<1> QED
  BY <1>1, ProjectionInvariant, PTL

\* Where entries are inserted each pair is known from one message, whose
\* supports are all read.
LEMMA PairIsKnown ==
  ASSUME SearchInv, ProjectionInv, NEW r \in Ranks,
         stage[r] \in {"coupling", "ready"},
         NEW d \in DomainEntities, NEW e \in RangeEntities,
         <<d, e>> \in d_domain_to_range_map[r]
  PROVE  LET m == pointMessage(RangeOwner[e], e, d, r)
         IN /\ m \in imports(point_sends, r) /\ known(r, e, d) = {m}
            /\ read(r, m) = DOMAIN m.supports
<1> USE DEF ProjectionInv
<1> DEFINE p == RangeOwner[e]
           m == pointMessage(p, e, d, r)
<1>1. /\ p \in Ranks
      /\ \A q \in Ranks : stage[q] \in {"points", "coupling", "ready"}
      /\ returned(p) /\ returned(r)
  BY OwnerAssumption DEF StagesInOrder, SearchEnded
<1>2. DomainOwner[d] = r /\ <<e, d>> \in d_range_to_domain_map[p]
  BY <1>1, DomainPair, SplitAssumption
<1>3. m.ip = e /\ m.domain = d /\ m.to = r
  BY DEF pointMessage
<1>4. m \in imports(point_sends, r)
  <2>1. m \in point_sends[p]
    BY <1>1, <1>2 DEF PointsSent
  <2> QED
    BY <1>1, <1>3, <2>1 DEF imports
<1>5. ASSUME NEW k \in imports(point_sends, r), k.ip = e, k.domain = d
      PROVE  k = m
  <2>1. PICK q \in Ranks : k \in point_sends[q]
    BY DEF imports
  <2>2. /\ e \in DOMAIN range[q]
        /\ k = pointMessage(q, e, d, DomainOwner[d])
    BY <1>1, <1>5, <2>1 DEF PointsSent
  <2>3. q = p
    BY <2>2 DEF SearchInv, InputInv, LocalInputs, localEntities
  <2> QED
    BY <1>2, <2>2, <2>3
<1>6. known(r, e, d) = {m}
  <2>1. \A k \in imports(point_sends, r) :
          ip_domain_lid_map(r)[k] = <<k.ip, k.domain>>
    BY DEF ip_domain_lid_map
  <2>2. \A k \in imports(point_sends, r) :
          ip_domain_lid_map(r)[k] = <<e, d>> <=> k = m
    BY <1>3, <1>5, <2>1
  <2> QED
    BY <1>4, <2>2 DEF known
<1>7. read(r, m) = DOMAIN m.supports
  <2>1. PICK i \in DOMAIN d_points[p] : e = d_points[p][i].gid
    <3>1. e \in DOMAIN range[p]
      BY <1>1, <1>2, RangePair, SplitAssumption
    <3> QED
      BY <1>1, <3>1 DEF RangeIsPoints, returned, pointIds
  <2>2. getPoint(p, e) = d_points[p][i]
    BY <1>1, <2>1, InvFindsPoints DEF PointsFound, isNumbered
  <2>3. m.supports = supportsOf(d_points[p][i].of)
    BY <2>2 DEF pointMessage
  <2>4. Len(m.supports) < ip_stride[r] /\ ip_stride[r] \in Int
    BY <1>1, <2>3 DEF PointsSent
  <2>5. DOMAIN m.supports = 1 .. Len(m.supports) /\ Len(m.supports) \in Nat
    BY <1>1, <2>3, LengthType
  <2> HIDE DEF m
  <2> QED
    BY <2>4, <2>5 DEF read
<1> QED
  BY <1>4, <1>6, <1>7

\* Each pair of a domain entity and a point in it is known from one message.
THEOREM PairsAreKnown == ProjectionSpec => []PairsKnown
<1>1. SearchInv /\ ProjectionInv => PairsKnown
  <2> SUFFICES ASSUME SearchInv, ProjectionInv, NEW r \in Ranks,
                      stage[r] \in {"coupling", "ready"},
                      NEW x \in d_domain_to_range_map[r]
               PROVE  \E m \in imports(point_sends, r) :
                        /\ known(r, x[2], x[1]) = {m}
                        /\ read(r, m) = DOMAIN m.supports
    BY DEF PairsKnown
  <2>1. PICK d \in DomainEntities, e \in RangeEntities : x = <<d, e>>
    BY DEF SearchInv, TypeOK
  <2>2. x[1] = d /\ x[2] = e
    BY <2>1
  <2> QED
    BY <2>1, <2>2, PairIsKnown
<1> QED
  BY <1>1, ProjectionInvariant, PTL

-----------------------------------------------------------------------------
(***************************************************************************)
(* Matrices as sums of terms.                                              *)
(***************************************************************************)
values(T) == [t \in T |-> t.value]
entry(T, x) == {u \in T : u.row = x[1] /\ u.col = x[2]}

\* T is a set of terms with supports as rows and the columns cols.
isTerms(T, cols) ==
  /\ IsFiniteSet(T)
  /\ \A t \in T : t.value \in Int /\ t.row \in Supports /\ t.col \in cols

\* The sets T[i] of terms have no term in common.
apart(I, T) == \A i, j \in I : i # j => T[i] \cap T[j] = {}

\* An entry of the matrix is a sum of values of the terms.
LEMMA EntryIsSum ==
  ASSUME NEW cols, NEW T, isTerms(T, cols), NEW x \in Supports \X cols,
         NEW A, T \subseteq A
  PROVE  /\ summed(T, cols)[x] = SumFunctionOnSet(values(A), entry(T, x))
         /\ summed(T, cols)[x] \in Int
         /\ IsFiniteSet(entry(T, x))
<1> DEFINE E == entry(T, x)
           f == [t \in E |-> t.value]
<1>1. E \in SUBSET T /\ IsFiniteSet(E)
  BY FS_Subset DEF entry, isTerms
<1>2. summed(T, cols)[x] = SumFunctionOnSet(f, E)
  BY DEF summed, SumFunction, entry
<1>3. \A t \in E : f[t] = values(A)[t] /\ f[t] \in Int
  BY <1>1 DEF values, isTerms
<1> HIDE DEF f, E
<1>4. SumFunctionOnSet(f, E) = SumFunctionOnSet(values(A), E)
  BY <1>1, <1>3, SumSame
<1>5. SumFunctionOnSet(f, E) \in Int
  BY <1>1, <1>3, SumTakes
<1> QED
  BY <1>1, <1>2, <1>4, <1>5 DEF E

\* All the terms of finitely many sets of terms.
LEMMA TermsUnite ==
  ASSUME NEW I, IsFiniteSet(I), NEW T, NEW cols, \A i \in I : isTerms(T[i], cols)
  PROVE  isTerms(UNION {T[i] : i \in I}, cols)
<1> DEFINE A == UNION {T[i] : i \in I}
           S == {T[i] : i \in I}
           h == [i \in I |-> T[i]]
<1>1. IsFiniteSet(S)
  <2>1. h = [i \in I |-> h[i]]
    OBVIOUS
  <2>2. IsFiniteSet({h[i] : i \in I})
    <3> HIDE DEF h
    <3> QED
      BY <2>1, FiniteValues
  <2> QED
    BY <2>2
<1>2. \A t \in S : IsFiniteSet(t)
  BY DEF isTerms
<1>3. IsFiniteSet(A)
  <2> HIDE DEF S
  <2>1. A = UNION S
    BY DEF S
  <2> HIDE DEF A
  <2> QED
    BY <1>1, <1>2, <2>1, FS_UNION
<1> QED
  BY <1>3 DEF isTerms

\* The terms of A are parted: T gives, over I, sets that have no term in common.
isParted(A, I, T, cols) ==
  /\ IsFiniteSet(I)
  /\ \A i \in I : isTerms(T[i], cols)
  /\ apart(I, T)
  /\ \A t : t \in A <=> \E i \in I : t \in T[i]

\* The matrices of the parts add up to the matrix of all the terms.
LEMMA MatricesAddUp ==
  ASSUME NEW A, NEW I, NEW T, NEW cols, isParted(A, I, T, cols),
         NEW x \in Supports \X cols,
         NEW g, \A i \in I : g[i] = summed(T[i], cols)[x]
  PROVE  isTerms(A, cols) /\ SumFunctionOnSet(g, I) = summed(A, cols)[x]
<1> DEFINE E == [i \in I |-> entry(T[i], x)]
           f == values(A)
<1>1. /\ IsFiniteSet(I) /\ \A i \in I : isTerms(T[i], cols)
      /\ A = UNION {T[i] : i \in I}
  BY DEF isParted
<1>2. ASSUME NEW i \in I
      PROVE  /\ IsFiniteSet(E[i]) /\ g[i] = SumFunctionOnSet(f, E[i])
             /\ \A t \in E[i] : f[t] \in Int
  <2>1. isTerms(T[i], cols) /\ T[i] \subseteq A
    BY <1>1
  <2>2. \A t \in entry(T[i], x) : values(A)[t] \in Int
    BY <2>1 DEF entry, values, isTerms
  <2>3. /\ summed(T[i], cols)[x] = SumFunctionOnSet(values(A), entry(T[i], x))
        /\ IsFiniteSet(entry(T[i], x))
    BY <2>1, EntryIsSum
  <2> QED
    BY <2>2, <2>3
<1>3. \A i, j \in I : i # j => E[i] \cap E[j] = {}
  BY DEF entry, apart, isParted
<1>4. SumFunctionOnSet(f, entry(A, x)) = SumFunctionOnSet(g, I)
  <2>1. \A t : t \in entry(A, x) <=> \E i \in I : t \in E[i]
    BY <1>1 DEF entry
  <2> HIDE DEF E, f
  <2>2. isGrouped(f, entry(A, x), g, I, E)
    BY <1>1, <1>2, <1>3, <2>1 DEF isGrouped
  <2> QED
    BY <2>2, SumGrouped
<1>5. isTerms(A, cols)
  BY <1>1, TermsUnite
<1>6. summed(A, cols)[x] = SumFunctionOnSet(f, entry(A, x))
  BY <1>5, EntryIsSum
<1> QED
  BY <1>4, <1>5, <1>6

\* A row adds up to the values of its terms.
LEMMA RowIsSum ==
  ASSUME NEW cols, IsFiniteSet(cols), NEW T, isTerms(T, cols), NEW s \in Supports,
         NEW f, \A c \in cols : f[c] = summed(T, cols)[<<s, c>>]
  PROVE  SumFunctionOnSet(f, cols) =
           SumFunctionOnSet(values(T), {u \in T : u.row = s})
<1> DEFINE E == [c \in cols |-> entry(T, <<s, c>>)]
<1>1. ASSUME NEW c \in cols
      PROVE  /\ IsFiniteSet(E[c]) /\ f[c] = SumFunctionOnSet(values(T), E[c])
             /\ \A t \in E[c] : values(T)[t] \in Int
  <2>1. <<s, c>> \in Supports \X cols
    OBVIOUS
  <2>2. \A t \in entry(T, <<s, c>>) : values(T)[t] \in Int
    BY DEF entry, values, isTerms
  <2> QED
    BY <2>1, <2>2, EntryIsSum
<1>2. \A b, c \in cols : b # c => E[b] \cap E[c] = {}
  BY DEF entry
<1>3. \A u : u \in {t \in T : t.row = s} <=> \E c \in cols : u \in E[c]
  BY DEF entry, isTerms
<1>4. SumFunctionOnSet(values(T), {u \in T : u.row = s}) = SumFunctionOnSet(f, cols)
  <2> HIDE DEF E
  <2>1. isGrouped(values(T), {u \in T : u.row = s}, f, cols, E)
    BY <1>1, <1>2, <1>3 DEF isGrouped
  <2> QED
    BY <2>1, SumGrouped
<1> QED
  BY <1>4

-----------------------------------------------------------------------------
(***************************************************************************)
(* The points of a rank are those of its own selected cells.               *)
(***************************************************************************)
cellsOf(r) == {c \in SelectedCells : CellOwner[c] = r}

\* A selected cell of a rank is at one place of its entity set.
LEMMA CellsPlace ==
  ASSUME NEW r \in Ranks, NEW c \in cellsOf(r)
  PROVE  /\ c \in Cells
         /\ \E k \in range_iterator(r) : EntitySet[r][k] = c
         /\ \A k, l \in range_iterator(r) :
              EntitySet[r][k] = c /\ EntitySet[r][l] = c => k = l
<1> DEFINE S == {i \in DOMAIN EntitySet[r] : EntitySet[r][i] = c}
<1>1. c \in Cells /\ CellOwner[c] = r
  BY CellAssumption DEF cellsOf
<1>2. Cardinality(S) = 1
  BY <1>1, CellAssumption
<1>3. IsFiniteSet(S)
  <2>1. EntitySet[r] \in Seq(Cells)
    BY CellAssumption
  <2>2. S \in SUBSET (1 .. Len(EntitySet[r]))
    BY <2>1
  <2>3. IsFiniteSet(1 .. Len(EntitySet[r]))
    BY <2>1, FS_Interval
  <2> QED
    BY <2>2, <2>3, FS_Subset
<1>4. PICK k : S = {k}
  <2> HIDE DEF S
  <2> QED
    BY <1>2, <1>3, FS_Singleton
<1>5. k \in range_iterator(r) /\ EntitySet[r][k] = c
  <2>1. k \in S
    BY <1>4
  <2> QED
    BY <1>1, <2>1 DEF range_iterator, range_predicate, cellsOf
<1>6. \A l \in range_iterator(r) : EntitySet[r][l] = c => l \in S
  BY DEF range_iterator
<1> QED
  BY <1>1, <1>4, <1>5, <1>6

LEMMA LoopsAre ==
  ASSUME NEW r \in Ranks, NEW x
  PROVE  x \in loops(r) <=>
           \E k \in range_iterator(r) : \E p \in DOMAIN CellRule[EntitySet[r][k]] :
             x = <<k, p>>
BY DEF loops

\* The point at the place of a turn.
LEMMA PointOfTurn ==
  ASSUME NEW r \in Ranks, NEW x \in loops(r)
  PROVE  /\ turn(r, x) \in DOMAIN points[r]
         /\ points[r][turn(r, x)] = <<EntitySet[r][x[1]], x[2]>>
<1> DEFINE n == Cardinality(loops(r))
           y(i) == CHOOSE z \in loops(r) : turn(r, z) = i
           t == turn(r, x)
<1>1. points[r] = [i \in 1 .. n |-> <<EntitySet[r][y(i)[1]], y(i)[2]>>]
  BY DEF points
<1>2. t \in 1 .. n
  BY PlacesTaken
<1>3. y(t) = x
  <2>1. y(t) \in loops(r) /\ turn(r, y(t)) = t
    OBVIOUS
  <2> HIDE DEF y
  <2> QED
    BY <2>1, PlacesTaken
<1> HIDE DEF y, n, t
<1>4. t \in DOMAIN points[r] /\ points[r][t] = <<EntitySet[r][x[1]], x[2]>>
  BY <1>1, <1>2, <1>3
<1> QED
  BY <1>4 DEF t

\* A rank has each point of its selected cells once.
LEMMA PointsOfCells ==
  ASSUME NEW r \in Ranks
  PROVE  /\ \A i \in DOMAIN points[r] :
              \E c \in cellsOf(r) : \E p \in DOMAIN CellRule[c] :
                points[r][i] = <<c, p>>
         /\ \A c \in cellsOf(r) : \A p \in DOMAIN CellRule[c] :
              \E i \in DOMAIN points[r] : points[r][i] = <<c, p>>
         /\ \A i, j \in DOMAIN points[r] : points[r][i] = points[r][j] => i = j
<1>1. ASSUME NEW k \in range_iterator(r) PROVE EntitySet[r][k] \in cellsOf(r)
  BY DEF range_iterator, range_predicate, cellsOf
<1>2. ASSUME NEW i \in DOMAIN points[r]
      PROVE  \E k \in range_iterator(r) : \E p \in DOMAIN CellRule[EntitySet[r][k]] :
               /\ <<k, p>> \in loops(r) /\ turn(r, <<k, p>>) = i
               /\ points[r][i] = <<EntitySet[r][k], p>>
  <2>1. i \in 1 .. Cardinality(loops(r))
    BY DEF points
  <2>2. PICK x \in loops(r) : turn(r, x) = i
    BY <2>1, PlacesTaken
  <2>3. PICK k \in range_iterator(r) :
          \E p \in DOMAIN CellRule[EntitySet[r][k]] : x = <<k, p>>
    BY LoopsAre
  <2>4. points[r][i] = <<EntitySet[r][x[1]], x[2]>>
    BY <2>2, PointOfTurn
  <2> QED
    BY <2>2, <2>3, <2>4
<1>3. ASSUME NEW c \in cellsOf(r), NEW p \in DOMAIN CellRule[c]
      PROVE  \E i \in DOMAIN points[r] : points[r][i] = <<c, p>>
  <2>1. PICK k \in range_iterator(r) : EntitySet[r][k] = c
    BY CellsPlace
  <2>2. <<k, p>> \in loops(r)
    BY <2>1, LoopsAre
  <2>3. /\ turn(r, <<k, p>>) \in DOMAIN points[r]
        /\ points[r][turn(r, <<k, p>>)] = <<EntitySet[r][k], p>>
    BY <2>2, PointOfTurn
  <2> QED
    BY <2>1, <2>3
<1>4. ASSUME NEW i \in DOMAIN points[r], NEW j \in DOMAIN points[r],
             points[r][i] = points[r][j]
      PROVE  i = j
  <2>1. PICK k, p :
          /\ k \in range_iterator(r)
          /\ turn(r, <<k, p>>) = i /\ points[r][i] = <<EntitySet[r][k], p>>
    BY <1>2
  <2>2. PICK l, q :
          /\ l \in range_iterator(r)
          /\ turn(r, <<l, q>>) = j /\ points[r][j] = <<EntitySet[r][l], q>>
    BY <1>2
  <2>3. EntitySet[r][k] = EntitySet[r][l] /\ p = q
    <3> DEFINE a == EntitySet[r][k]
               b == EntitySet[r][l]
    <3>1. <<a, p>> = <<b, q>>
      BY <1>4, <2>1, <2>2
    <3> HIDE DEF a, b
    <3>2. a = b /\ p = q
      BY <3>1
    <3> QED
      BY <3>2 DEF a, b
  <2>4. k = l
    BY <1>1, <2>1, <2>2, <2>3, CellsPlace
  <2> QED
    BY <2>1, <2>2, <2>3, <2>4
<1>5. ASSUME NEW i \in DOMAIN points[r]
      PROVE  \E c \in cellsOf(r) : \E p \in DOMAIN CellRule[c] :
               points[r][i] = <<c, p>>
  BY <1>1, <1>2
<1> QED
  BY <1>3, <1>4, <1>5

-----------------------------------------------------------------------------
(***************************************************************************)
(* The terms of the mass matrix.                                           *)
(***************************************************************************)
massTerm(c, p, i, j) ==
  [row |-> CellSupports[c][i], col |-> CellSupports[c][j],
   of |-> <<<<c, p>>, <<i, j>>>>,
   value |-> CellRule[c][p].weight * CellRule[c][p].shape[i]
               * CellRule[c][p].shape[j]]

LEMMA CellTermsAre ==
  ASSUME NEW c, NEW t
  PROVE  t \in cellTerms(c) <=>
           \E p \in DOMAIN CellRule[c] :
             \E i, j \in DOMAIN CellSupports[c] : t = massTerm(c, p, i, j)
<1> DEFINE D == DOMAIN CellSupports[c]
           R == DOMAIN CellRule[c]
<1>1. t \in cellTerms(c) <=> \E x \in R \X D \X D : t = massTerm(c, x[1], x[2], x[3])
  BY DEF cellTerms, massTerm
<1>2. ASSUME NEW p \in R, NEW i \in D, NEW j \in D
      PROVE  \E x \in R \X D \X D : massTerm(c, p, i, j) = massTerm(c, x[1], x[2], x[3])
  <2>1. <<p, i, j>> \in R \X D \X D
    OBVIOUS
  <2> QED
    BY <2>1
<1>3. \A x \in R \X D \X D : x[1] \in R /\ x[2] \in D /\ x[3] \in D
  OBVIOUS
<1> HIDE DEF R, D
<1>4. t \in cellTerms(c) <=> \E p \in R : \E i, j \in D : t = massTerm(c, p, i, j)
  BY <1>1, <1>2, <1>3
<1> QED
  BY <1>4 DEF R, D

LEMMA MassTermsAre ==
  ASSUME NEW r \in Ranks
  PROVE  massTerms(r) = UNION {cellTerms(c) : c \in cellsOf(r)}
<1>1. ASSUME NEW t \in massTerms(r)
      PROVE  \E c \in cellsOf(r) : t \in cellTerms(c)
  <2>1. PICK k \in DOMAIN points[r] :
          \E n \in (DOMAIN supportsOf(points[r][k]))
                     \X (DOMAIN supportsOf(points[r][k])) :
          t = [row |-> supportsOf(points[r][k])[n[1]],
               col |-> supportsOf(points[r][k])[n[2]], of |-> <<points[r][k], n>>,
               value |-> rule(points[r][k]).weight * rule(points[r][k]).shape[n[1]]
                           * rule(points[r][k]).shape[n[2]]]
    BY DEF massTerms
  <2>2. PICK c \in cellsOf(r) :
          \E p \in DOMAIN CellRule[c] : points[r][k] = <<c, p>>
    BY PointsOfCells
  <2>3. PICK p \in DOMAIN CellRule[c] : points[r][k] = <<c, p>>
    BY <2>2
  <2>4. PICK n \in (DOMAIN CellSupports[c]) \X (DOMAIN CellSupports[c]) :
          t = massTerm(c, p, n[1], n[2])
    <3>1. supportsOf(points[r][k]) = CellSupports[c] /\ rule(points[r][k]) = CellRule[c][p]
      BY <2>3 DEF supportsOf, rule
    <3>2. PICK n \in (DOMAIN CellSupports[c]) \X (DOMAIN CellSupports[c]) :
            t = [row |-> CellSupports[c][n[1]], col |-> CellSupports[c][n[2]],
                 of |-> <<<<c, p>>, n>>,
                 value |-> CellRule[c][p].weight * CellRule[c][p].shape[n[1]]
                             * CellRule[c][p].shape[n[2]]]
      BY <2>1, <2>3, <3>1
    <3>3. n = <<n[1], n[2]>>
      OBVIOUS
    <3> QED
      BY <3>2, <3>3 DEF massTerm
  <2>5. n[1] \in DOMAIN CellSupports[c] /\ n[2] \in DOMAIN CellSupports[c]
    OBVIOUS
  <2> QED
    BY <2>4, <2>5, CellTermsAre
<1>2. ASSUME NEW c \in cellsOf(r), NEW t \in cellTerms(c) PROVE t \in massTerms(r)
  <2>1. PICK p \in DOMAIN CellRule[c], i \in DOMAIN CellSupports[c],
             j \in DOMAIN CellSupports[c] : t = massTerm(c, p, i, j)
    BY CellTermsAre
  <2>2. PICK k \in DOMAIN points[r] : points[r][k] = <<c, p>>
    BY PointsOfCells
  <2> DEFINE x == <<c, p>>
             n == <<i, j>>
  <2>3. x \in {points[r][l] : l \in DOMAIN points[r]}
    BY <2>2
  <2>4. n \in (DOMAIN supportsOf(x)) \X (DOMAIN supportsOf(x))
    BY DEF supportsOf
  <2>5. t = [row |-> supportsOf(x)[n[1]], col |-> supportsOf(x)[n[2]],
             of |-> <<x, n>>,
             value |-> rule(x).weight * rule(x).shape[n[1]] * rule(x).shape[n[2]]]
    BY <2>1 DEF massTerm, supportsOf, rule
  <2> DEFINE T(y) == {[row |-> supportsOf(y)[m[1]], col |-> supportsOf(y)[m[2]],
                       of |-> <<y, m>>,
                       value |-> rule(y).weight * rule(y).shape[m[1]]
                                   * rule(y).shape[m[2]]] :
                        m \in (DOMAIN supportsOf(y)) \X (DOMAIN supportsOf(y))}
  <2>6. t \in T(x)
    <3> HIDE DEF x, n
    <3> QED
      BY <2>4, <2>5
  <2>7. massTerms(r) = UNION {T(y) : y \in {points[r][l] : l \in DOMAIN points[r]}}
    BY DEF massTerms
  <2> HIDE DEF x, T
  <2> QED
    BY <2>3, <2>6, <2>7
<1> QED
  BY <1>1, <1>2

LEMMA CellTypes ==
  ASSUME NEW c \in Cells
  PROVE  /\ IsFiniteSet(DOMAIN CellRule[c]) /\ IsFiniteSet(DOMAIN CellSupports[c])
         /\ \A i \in DOMAIN CellSupports[c] : CellSupports[c][i] \in Supports
         /\ \A p \in DOMAIN CellRule[c] :
              /\ CellRule[c][p].weight \in Int
              /\ DOMAIN CellRule[c][p].shape = DOMAIN CellSupports[c]
              /\ \A i \in DOMAIN CellSupports[c] : CellRule[c][p].shape[i] \in Int
<1>1. CellRule[c] \in Seq([weight : Int, shape : Seq(Int)])
  BY CellAssumption
<1>2. CellSupports[c] \in Seq(Supports)
  BY CellAssumption
<1>3. IsFiniteSet(DOMAIN CellRule[c]) /\ IsFiniteSet(DOMAIN CellSupports[c])
  <2>1. Len(CellRule[c]) \in Nat /\ DOMAIN CellRule[c] = 1 .. Len(CellRule[c])
    BY <1>1
  <2>2. /\ Len(CellSupports[c]) \in Nat
        /\ DOMAIN CellSupports[c] = 1 .. Len(CellSupports[c])
    BY <1>2
  <2>3. \A n \in Nat : IsFiniteSet(1 .. n)
    BY FS_Interval
  <2> QED
    BY <2>1, <2>2, <2>3
<1>4. ASSUME NEW p \in DOMAIN CellRule[c]
      PROVE  /\ CellRule[c][p].weight \in Int
             /\ DOMAIN CellRule[c][p].shape = DOMAIN CellSupports[c]
             /\ \A i \in DOMAIN CellSupports[c] : CellRule[c][p].shape[i] \in Int
  <2>1. CellRule[c][p] \in [weight : Int, shape : Seq(Int)]
    <3>1. p \in 1 .. Len(CellRule[c])
      BY <1>1
    <3> QED
      BY <1>1, <3>1, ElementOfSeq
  <2>2. CellRule[c][p].shape \in Seq(Int)
    BY <2>1
  <2>3. DOMAIN CellRule[c][p].shape = DOMAIN CellSupports[c]
    BY ShapeFunctionAssumption
  <2> QED
    BY <2>1, <2>2, <2>3
<1> QED
  BY <1>2, <1>3, <1>4

LEMMA CellTermsType ==
  ASSUME NEW c \in Cells
  PROVE  isTerms(cellTerms(c), Supports)
<1> DEFINE D == DOMAIN CellSupports[c]
           P == (DOMAIN CellRule[c]) \X (D \X D)
           f == [x \in P |-> massTerm(c, x[1], x[2][1], x[2][2])]
<1>1. IsFiniteSet(P)
  <2>1. IsFiniteSet(D \X D)
    BY CellTypes, FS_Product
  <2> QED
    BY <2>1, CellTypes, FS_Product
<1>2. IsFiniteSet({f[x] : x \in P})
  <2>1. f = [x \in P |-> f[x]]
    OBVIOUS
  <2> HIDE DEF f, P
  <2> QED
    BY <1>1, <2>1, FiniteValues
<1>3. ASSUME NEW t \in cellTerms(c)
      PROVE  /\ t \in {f[x] : x \in P}
             /\ t.value \in Int /\ t.row \in Supports /\ t.col \in Supports
  <2>1. PICK p \in DOMAIN CellRule[c], i \in D, j \in D : t = massTerm(c, p, i, j)
    BY CellTermsAre
  <2>2. <<p, <<i, j>>>> \in P /\ f[<<p, <<i, j>>>>] = t
    BY <2>1
  <2>3. t.value \in Int /\ t.row \in Supports /\ t.col \in Supports
    BY <2>1, CellTypes DEF massTerm
  <2> HIDE DEF f, P
  <2> QED
    BY <2>2, <2>3
<1>4. IsFiniteSet(cellTerms(c))
  <2> HIDE DEF f
  <2>1. cellTerms(c) \in SUBSET {f[x] : x \in P}
    BY <1>3
  <2> QED
    BY <1>2, <2>1, FS_Subset
<1> QED
  BY <1>3, <1>4 DEF isTerms

LEMMA MassTermsType ==
  ASSUME NEW r \in Ranks
  PROVE  isTerms(massTerms(r), Supports)
<1> DEFINE I == cellsOf(r)
           T == [c \in I |-> cellTerms(c)]
<1>1. I \in SUBSET Cells
  BY CellAssumption DEF cellsOf
<1>2. IsFiniteSet(I)
  BY <1>1, CellAssumption, FS_Subset
<1>3. \A c \in I : isTerms(T[c], Supports)
  BY <1>1, CellTermsType
<1>4. UNION {T[c] : c \in I} = massTerms(r)
  BY MassTermsAre
<1> HIDE DEF I, T
<1> QED
  BY <1>2, <1>3, <1>4, TermsUnite

\* Each rank inserts the terms of its own cells.
LEMMA MassTermsApart == apart(Ranks, [r \in Ranks |-> massTerms(r)])
<1> SUFFICES ASSUME NEW p \in Ranks, NEW q \in Ranks, p # q,
                    NEW t \in massTerms(p), t \in massTerms(q)
             PROVE  FALSE
  BY DEF apart
<1>1. PICK c \in cellsOf(p) : t \in cellTerms(c)
  BY MassTermsAre
<1>2. PICK d \in cellsOf(q) : t \in cellTerms(d)
  BY MassTermsAre
<1>3. PICK i, j, k : t = massTerm(c, i, j, k)
  BY <1>1, CellTermsAre
<1>4. PICK l, m, n : t = massTerm(d, l, m, n)
  BY <1>2, CellTermsAre
<1>5. c = d
  BY <1>3, <1>4 DEF massTerm
<1> QED
  BY <1>5 DEF cellsOf

LEMMA AllMassTerms ==
  UNION {massTerms(r) : r \in Ranks} = UNION {cellTerms(c) : c \in SelectedCells}
<1>1. \A c \in SelectedCells : CellOwner[c] \in Ranks /\ c \in cellsOf(CellOwner[c])
  BY CellAssumption DEF cellsOf
<1>2. \A t : t \in UNION {massTerms(r) : r \in Ranks}
             <=> \E r \in Ranks : \E c \in cellsOf(r) : t \in cellTerms(c)
  BY MassTermsAre
<1>3. \A r \in Ranks : cellsOf(r) \in SUBSET SelectedCells
  BY DEF cellsOf
<1> QED
  BY <1>1, <1>2, <1>3

\* What all ranks insert adds up to the quadrature.
LEMMA MassAddsUp ==
  ASSUME NEW x \in Supports \X Supports
  PROVE  SumFunction([q \in Ranks |-> summed(massTerms(q), Supports)[x]])
           = summed(UNION {cellTerms(c) : c \in SelectedCells}, Supports)[x]
<1> DEFINE T == [r \in Ranks |-> massTerms(r)]
           A == UNION {cellTerms(c) : c \in SelectedCells}
           g == [q \in Ranks |-> summed(massTerms(q), Supports)[x]]
<1>1. \A r \in Ranks : isTerms(T[r], Supports)
  BY MassTermsType
<1>2. apart(Ranks, T)
  BY MassTermsApart
<1>3. \A t : t \in A <=> \E r \in Ranks : t \in T[r]
  BY AllMassTerms
<1>4. \A r \in Ranks : g[r] = summed(T[r], Supports)[x]
  OBVIOUS
<1>5. SumFunction(g) = SumFunctionOnSet(g, Ranks)
  BY DEF SumFunction
<1> HIDE DEF T, A, g
<1>6. isParted(A, Ranks, T, Supports)
  BY <1>1, <1>2, <1>3, RankAssumption DEF isParted
<1>7. SumFunctionOnSet(g, Ranks) = summed(A, Supports)[x]
  BY <1>4, <1>6, MatricesAddUp
<1> QED
  BY <1>5, <1>7 DEF A, g

-----------------------------------------------------------------------------
(***************************************************************************)
(* The mass matrix.                                                        *)
(***************************************************************************)
rowsOf(r) == {s \in Supports : SupportOwner[s] = r}

\* A rank inserts the terms of its points in the first step, and has the sums of
\* what all ranks inserted in the rows of its supports from the second step on.
MassFilled ==
  /\ DOMAIN mass_inserts = Ranks /\ DOMAIN mass_matrix = Ranks
  /\ \A r \in Ranks :
       /\ stage[r] # "new" => mass_inserts[r] = summed(massTerms(r), Supports)
       /\ stage[r] \notin {"new", "mass"} =>
            mass_matrix[r] = [x \in rowsOf(r) \X Supports |->
              SumFunction([q \in Ranks |-> summed(massTerms(q), Supports)[x]])]

LEMMA MassFilledStep ==
  ASSUME ProjectionTypes, MassFilled, NEW r \in Ranks, ProjectionStep(r)
  PROVE  MassFilled'
<1>1. /\ ~ AssembleMassMatrix(r) => mass_inserts' = mass_inserts
      /\ ~ FillMassMatrix(r) => mass_matrix' = mass_matrix
  BY DEF ProjectionStep, AssembleMassMatrix, FillMassMatrix, Finalize,
     SearchPoints, EnterReduction, SendPoints, InsertCouplings,
     FillCouplingMatrix, projectionVars, massVars
<1>2. CASE AssembleMassMatrix(r)
  <2>1. /\ mass_inserts' = [mass_inserts EXCEPT ![r] = summed(massTerms(r), Supports)]
        /\ mass_matrix' = mass_matrix
    BY <1>2 DEF AssembleMassMatrix
  <2>2. /\ stage'[r] = "mass" /\ \A s \in Ranks \ {r} : stage'[s] = stage[s]
    BY <1>2, StageStep DEF AssembleMassMatrix
  <2> QED
    BY <2>1, <2>2 DEF MassFilled
<1>3. CASE FillMassMatrix(r)
  <2>1. /\ mass_matrix' = [mass_matrix EXCEPT ![r] = rowsMovedTo(r, mass_inserts, Supports)]
        /\ mass_inserts' = mass_inserts
        /\ \A q \in Ranks : stage[q] # "new"
    BY <1>3 DEF FillMassMatrix, passed
  <2>2. /\ stage[r] = "mass" /\ \A s \in Ranks \ {r} : stage'[s] = stage[s]
    BY <1>3, StageStep DEF FillMassMatrix
  <2>3. \A q \in Ranks : mass_inserts[q] = summed(massTerms(q), Supports)
    BY <2>1 DEF MassFilled
  <2>4. \A x : [q \in Ranks |-> mass_inserts[q][x]]
               = [q \in Ranks |-> summed(massTerms(q), Supports)[x]]
    BY <2>3
  <2>5. rowsMovedTo(r, mass_inserts, Supports)
          = [x \in rowsOf(r) \X Supports |->
               SumFunction([q \in Ranks |-> summed(massTerms(q), Supports)[x]])]
    BY <2>4 DEF rowsMovedTo, rowsOf
  <2>6. ASSUME NEW s \in Ranks, s # r PROVE mass_matrix'[s] = mass_matrix[s]
    BY <2>1, <2>6 DEF MassFilled
  <2>7. /\ mass_matrix'[r] = rowsMovedTo(r, mass_inserts, Supports)
        /\ DOMAIN mass_matrix' = Ranks
    BY <2>1 DEF MassFilled
  <2> QED
    BY <2>1, <2>2, <2>3, <2>5, <2>6, <2>7 DEF MassFilled
<1>4. CASE ~ AssembleMassMatrix(r) /\ ~ FillMassMatrix(r)
  <2>1. mass_inserts' = mass_inserts /\ mass_matrix' = mass_matrix
    BY <1>1, <1>4
  <2>2. \A s \in Ranks : /\ stage'[s] # "new" => stage[s] # "new"
                         /\ stage'[s] \notin {"new", "mass"} =>
                              stage[s] \notin {"new", "mass"}
    BY <1>4, StageStep
  <2> QED
    BY <2>1, <2>2 DEF MassFilled
<1> QED
  BY <1>2, <1>3, <1>4

LEMMA InvMassIsQuadrature == MassFilled => MassIsQuadrature
<1> SUFFICES ASSUME MassFilled, NEW r \in Ranks, stage[r] \notin {"new", "mass"},
                    NEW x \in DOMAIN mass_matrix[r]
             PROVE  mass_matrix[r][x] =
                      summed(UNION {cellTerms(c) : c \in SelectedCells}, Supports)[x]
  BY DEF MassIsQuadrature
<1>1. /\ x \in rowsOf(r) \X Supports
      /\ mass_matrix[r][x] =
           SumFunction([q \in Ranks |-> summed(massTerms(q), Supports)[x]])
  BY DEF MassFilled
<1>2. x \in Supports \X Supports
  BY <1>1 DEF rowsOf
<1> QED
  BY <1>1, <1>2, MassAddsUp

-----------------------------------------------------------------------------
(***************************************************************************)
(* The terms of the coupling matrix.                                       *)
(***************************************************************************)
\* Where the point id of rank p is in the domain entity d.
coordinate(p, id, d) ==
  referenceCoordinate(domain[DomainOwner[d]][d], getPoint(p, id).at)

couplingTerm(p, id, d, i, j) ==
  [row |-> supportsOf(getPoint(p, id).of)[i], col |-> DomainSupports[d][j],
   of |-> <<id, d, <<i, j>>>>,
   value |-> sharedWeight(p, id) * rule(getPoint(p, id).of).shape[i]
               * DomainShape[d][coordinate(p, id, d)][j]]

pairTerms(p, id, d) ==
  {couplingTerm(p, id, d, n[1], n[2]) :
     n \in (DOMAIN supportsOf(getPoint(p, id).of)) \X (DOMAIN DomainSupports[d])}

LEMMA PairTermsAre ==
  ASSUME NEW p, NEW id, NEW d, NEW t
  PROVE  t \in pairTerms(p, id, d) <=>
           \E i \in DOMAIN supportsOf(getPoint(p, id).of) :
             \E j \in DOMAIN DomainSupports[d] : t = couplingTerm(p, id, d, i, j)
<1> DEFINE D == DOMAIN supportsOf(getPoint(p, id).of)
           E == DOMAIN DomainSupports[d]
<1>1. t \in pairTerms(p, id, d) <=> \E n \in D \X E : t = couplingTerm(p, id, d, n[1], n[2])
  BY DEF pairTerms
<1>2. ASSUME NEW i \in D, NEW j \in E
      PROVE  \E n \in D \X E :
               couplingTerm(p, id, d, i, j) = couplingTerm(p, id, d, n[1], n[2])
  <2>1. <<i, j>> \in D \X E
    OBVIOUS
  <2> QED
    BY <2>1
<1>3. \A n \in D \X E : n[1] \in D /\ n[2] \in E
  OBVIOUS
<1> HIDE DEF D, E
<1>4. t \in pairTerms(p, id, d) <=>
        \E i \in D : \E j \in E : t = couplingTerm(p, id, d, i, j)
  BY <1>1, <1>2, <1>3
<1> QED
  BY <1>4 DEF D, E

LEMMA QuadratureTermsAre ==
  ASSUME NEW p, NEW id
  PROVE  quadratureTerms(p, id) =
           UNION {pairTerms(p, id, d) : d \in domainEntitiesFromRange(p, id)}
<1> DEFINE Q(d) == {[row |-> supportsOf(getPoint(p, id).of)[n[1]],
           col |-> DomainSupports[d][n[2]], of |-> <<id, d, n>>,
           value |-> sharedWeight(p, id) * rule(getPoint(p, id).of).shape[n[1]] *
             DomainShape[d][referenceCoordinate(domain[DomainOwner[d]][d],
                                                getPoint(p, id).at)][n[2]]] :
            n \in (DOMAIN supportsOf(getPoint(p, id).of))
                    \X (DOMAIN DomainSupports[d])}
<1>1. quadratureTerms(p, id) = UNION {Q(d) : d \in domainEntitiesFromRange(p, id)}
  BY DEF quadratureTerms
<1>2. ASSUME NEW d PROVE Q(d) = pairTerms(p, id, d)
  <2>1. \A n \in (DOMAIN supportsOf(getPoint(p, id).of)) \X (DOMAIN DomainSupports[d]) :
          <<n[1], n[2]>> = n
    OBVIOUS
  <2> QED
    BY <2>1 DEF pairTerms, couplingTerm, coordinate
<1> HIDE DEF Q
<1> QED
  BY <1>1, <1>2

\* What is inserted of one pair.
LEMMA TermsOfPair ==
  ASSUME SearchInv, ProjectionInv, CoordsTrue, NEW q \in Ranks,
         stage[q] \in {"coupling", "ready"},
         NEW d \in DomainEntities, NEW e \in RangeEntities,
         <<d, e>> \in d_domain_to_range_map[q]
  PROVE  UNION {termsOf(q, d, m, at) :
                  m \in known(q, e, d),
                  at \in rangeParametricCoordinatesInDomain(q, e, d)}
           = pairTerms(RangeOwner[e], e, d)
<1> DEFINE p == RangeOwner[e]
           m == pointMessage(p, e, d, q)
           at == coordinate(p, e, d)
<1>1. p \in Ranks /\ returned(p) /\ returned(q)
  BY OwnerAssumption DEF ProjectionInv, StagesInOrder, SearchEnded
<1>2. DomainOwner[d] = q /\ <<e, d>> \in d_range_to_domain_map[p]
  BY <1>1, DomainPair, SplitAssumption
<1>3. known(q, e, d) = {m} /\ read(q, m) = DOMAIN m.supports
  BY PairIsKnown
<1>4. rangeParametricCoordinatesInDomain(q, e, d) = {at}
  <2> DEFINE v == referenceCoordinate(domain[q][d], range[p][e].centroid)
  <2>1. rangeParametricCoordinatesInDomain(q, e, d) = {v}
    <3>1. MaxSearches = 1
      BY SplitAssumption
    <3>2. /\ <<e, d, v>> \in d_parametric_coords[q]
          /\ \A z \in d_parametric_coords[q] : z[1] = e /\ z[2] = d => z[3] = v
      BY <1>1, <3>1, CoordsOfPair
    <3> HIDE DEF v
    <3>3. <<e, d, v>>[1] = e /\ <<e, d, v>>[2] = d /\ <<e, d, v>>[3] = v
      OBVIOUS
    <3> QED
      BY <3>2, <3>3 DEF rangeParametricCoordinatesInDomain
  <2>2. e \in DOMAIN range[p]
    BY <1>1, <1>2, RangePair, SplitAssumption
  <2>3. range[p][e].centroid = getPoint(p, e).at
    BY <1>1, <2>2 DEF ProjectionInv, RangeIsPoints, returned
  <2> QED
    BY <1>2, <2>1, <2>3 DEF coordinate
<1>5. termsOf(q, d, m, at) = pairTerms(p, e, d)
  <2>1. m.ip = e /\ m.weight = sharedWeight(p, e)
        /\ m.shape = rule(getPoint(p, e).of).shape
        /\ m.supports = supportsOf(getPoint(p, e).of)
    BY DEF pointMessage
  <2> HIDE DEF m
  <2> DEFINE N == (DOMAIN m.supports) \X (DOMAIN DomainSupports[d])
             g(n) == [row |-> m.supports[n[1]], col |-> DomainSupports[d][n[2]],
                      of |-> <<m.ip, d, n>>,
                      value |-> m.weight * m.shape[n[1]] * DomainShape[d][at][n[2]]]
  <2>2. termsOf(q, d, m, at) = {g(n) : n \in N}
    BY <1>3 DEF termsOf
  <2>3. ASSUME NEW n \in N PROVE g(n) = couplingTerm(p, e, d, n[1], n[2])
    <3>1. <<n[1], n[2]>> = n
      OBVIOUS
    <3> QED
      BY <2>1, <3>1 DEF couplingTerm
  <2>4. pairTerms(p, e, d) = {couplingTerm(p, e, d, n[1], n[2]) : n \in N}
    BY <2>1 DEF pairTerms
  <2> HIDE DEF N, g
  <2> QED
    BY <2>2, <2>3, <2>4
<1> HIDE DEF m, at, p
<1>6. UNION {termsOf(q, d, k, x) : k \in {m}, x \in {at}} = termsOf(q, d, m, at)
  OBVIOUS
<1> QED
  BY <1>3, <1>4, <1>5, <1>6 DEF p

\* The terms a rank inserts are those of the pairs of its own domain entities.
LEMMA CouplingTermsAre ==
  ASSUME SearchInv, ProjectionInv, CoordsTrue, NEW q \in Ranks,
         stage[q] \in {"coupling", "ready"}, NEW t
  PROVE  t \in couplingTerms(q) <=>
           \E p \in Ranks : \E id \in DOMAIN range[p] :
             \E d \in domainEntitiesFromRange(p, id) :
               DomainOwner[d] = q /\ t \in pairTerms(p, id, d)
<1> DEFINE M(x) == UNION {termsOf(q, x[1], m, at) :
                  m \in known(q, x[2], x[1]),
                  at \in rangeParametricCoordinatesInDomain(q, x[2], x[1])}
<1>1. couplingTerms(q) = UNION {M(x) : x \in d_domain_to_range_map[q]}
  BY DEF couplingTerms
<1>2. ASSUME NEW d \in DomainEntities, NEW e \in RangeEntities,
             <<d, e>> \in d_domain_to_range_map[q]
      PROVE  M(<<d, e>>) = pairTerms(RangeOwner[e], e, d)
  BY <1>2, TermsOfPair
<1>3. \A p \in Ranks : returned(p)
  BY DEF ProjectionInv, StagesInOrder, SearchEnded
<1>4. ASSUME t \in couplingTerms(q)
      PROVE  \E p \in Ranks : \E id \in DOMAIN range[p] :
             \E d \in domainEntitiesFromRange(p, id) :
               DomainOwner[d] = q /\ t \in pairTerms(p, id, d)
  <2>1. PICK x \in d_domain_to_range_map[q] : t \in M(x)
    BY <1>1, <1>4
  <2>2. PICK d \in DomainEntities, e \in RangeEntities : x = <<d, e>>
    BY DEF SearchInv, TypeOK
  <2>3. RangeOwner[e] \in Ranks
    BY OwnerAssumption
  <2>4. DomainOwner[d] = q /\ <<e, d>> \in d_range_to_domain_map[RangeOwner[e]]
    BY <1>3, <2>2, <2>3, DomainPair, SplitAssumption
  <2>5. e \in DOMAIN range[RangeOwner[e]]
    BY <1>3, <2>3, <2>4, RangePair, SplitAssumption
  <2>6. d \in domainEntitiesFromRange(RangeOwner[e], e)
    BY <2>4 DEF domainEntitiesFromRange
  <2>7. t \in pairTerms(RangeOwner[e], e, d)
    BY <1>2, <2>1, <2>2
  <2> QED
    BY <2>3, <2>4, <2>5, <2>6, <2>7
<1>5. ASSUME NEW p \in Ranks, NEW e \in DOMAIN range[p],
             NEW d \in domainEntitiesFromRange(p, e),
             DomainOwner[d] = q, t \in pairTerms(p, e, d)
      PROVE  t \in couplingTerms(q)
  <2>1. e \in RangeEntities /\ RangeOwner[e] = p
    BY OwnerAssumption DEF SearchInv, InputInv, LocalInputs, localEntities
  <2>2. d \in DomainEntities /\ <<e, d>> \in d_range_to_domain_map[p]
    BY DEF domainEntitiesFromRange
  <2>3. <<d, e>> \in d_domain_to_range_map[q]
    BY <1>3, <1>5, <2>1, <2>2, DomainPair, SplitAssumption
  <2>4. M(<<d, e>>) = pairTerms(p, e, d)
    BY <1>2, <2>1, <2>2, <2>3
  <2> HIDE DEF M
  <2> QED
    BY <1>1, <1>5, <2>3, <2>4
<1> HIDE DEF M
<1> QED
  BY <1>4, <1>5

-----------------------------------------------------------------------------
(***************************************************************************)
(* The types of the terms.                                                 *)
(***************************************************************************)
\* A point that is searched is one of a cell of its rank.
LEMMA PointOfId ==
  ASSUME ProjectionInv, NEW p \in Ranks, returned(p), NEW id \in DOMAIN range[p]
  PROVE  /\ range[p][id].centroid = getPoint(p, id).at
         /\ \E c \in cellsOf(p) : \E k \in DOMAIN CellRule[c] :
              getPoint(p, id).of = <<c, k>>
<1> USE DEF ProjectionInv
<1>1. id \in pointIds(p) /\ isNumbered(p) /\ range[p][id].centroid = getPoint(p, id).at
  BY DEF RangeIsPoints, returned
<1>2. PICK i \in DOMAIN d_points[p] : id = d_points[p][i].gid
  BY <1>1 DEF pointIds
<1>3. getPoint(p, id) = d_points[p][i]
  BY <1>1, <1>2, InvFindsPoints DEF PointsFound
<1>4. i \in DOMAIN points[p] /\ d_points[p][i].of = points[p][i]
  BY <1>1 DEF PointsSet, isNumbered
<1> QED
  BY <1>1, <1>3, <1>4, PointsOfCells

LEMMA PairTypes ==
  ASSUME SearchInv, ProjectionInv, NEW p \in Ranks, returned(p),
         NEW id \in DOMAIN range[p], NEW d \in domainEntitiesFromRange(p, id)
  PROVE  /\ d \in DomainEntities /\ DomainOwner[d] \in Ranks
         /\ id \in RangeEntities /\ RangeOwner[id] = p
         /\ coordinate(p, id, d) \in insideCoordinates
         /\ sharedWeight(p, id) \in Int
         /\ DOMAIN DomainSupports[d] = 1 .. Len(DomainSupports[d])
         /\ Len(DomainSupports[d]) \in Nat
         /\ \A j \in DOMAIN DomainSupports[d] :
              /\ DomainSupports[d][j] \in Columns
              /\ DomainShape[d][coordinate(p, id, d)][j] \in Int
<1> DEFINE q == DomainOwner[d]
           at == coordinate(p, id, d)
           F == domainEntitiesFromRange(p, id)
<1>1. /\ d \in DomainEntities /\ q \in Ranks /\ <<id, d>> \in d_range_to_domain_map[p]
      /\ id \in RangeEntities /\ RangeOwner[id] = p
  BY OwnerAssumption
  DEF domainEntitiesFromRange, SearchInv, InputInv, LocalInputs, localEntities
<1>2. /\ d \in DOMAIN domain[q] /\ mapsInto(domain[q][d], range[p][id].centroid)
  BY <1>1, PairIsIn, SplitAssumption DEF isIn
<1>3. domain[q][d] \in DomainShapes /\ range[p][id] \in RangeShapes
  BY <1>1, <1>2 DEF SearchInv, TypeOK, partialFunctions
<1>4. at \in insideCoordinates
  <2> DEFINE x == <<domain[q][d], range[p][id]>>
  <2>1. x \in {y \in DomainShapes \X RangeShapes : mapsInto(y[1], y[2].centroid)}
    BY <1>2, <1>3
  <2>2. at = referenceCoordinate(x[1], x[2].centroid)
    BY PointOfId DEF coordinate
  <2> HIDE DEF x, at
  <2> QED
    BY <2>1, <2>2 DEF insideCoordinates
<1>5. sharedWeight(p, id) \in Int
  <2>1. F \in SUBSET DomainEntities /\ d \in F
    BY DEF domainEntitiesFromRange
  <2>2. IsFiniteSet(F) /\ Cardinality(F) \in Nat /\ Cardinality(F) # 0
    BY <2>1, EntityAssumption, FS_Subset, FS_CardinalityType, FS_EmptySet
  <2>3. PICK c, k : /\ c \in cellsOf(p) /\ k \in DOMAIN CellRule[c]
                   /\ getPoint(p, id).of = <<c, k>>
    BY PointOfId
  <2>4. rule(getPoint(p, id).of).weight \in Int
    BY <2>3, CellTypes, CellsPlace DEF rule
  <2> HIDE DEF F
  <2> QED
    BY <2>2, <2>4 DEF sharedWeight, F
<1>6. DomainSupports[d] \in Seq(Columns)
  BY <1>1, ShapeFunctionAssumption
<1>7. DomainShape[d][at] \in [DOMAIN DomainSupports[d] -> Int]
  BY <1>1, <1>4, ShapeFunctionAssumption
<1> HIDE DEF at
<1>8. \A j \in DOMAIN DomainSupports[d] : DomainShape[d][at][j] \in Int
  BY <1>7
<1>9. /\ DOMAIN DomainSupports[d] = 1 .. Len(DomainSupports[d])
      /\ Len(DomainSupports[d]) \in Nat
      /\ \A j \in 1 .. Len(DomainSupports[d]) : DomainSupports[d][j] \in Columns
  BY <1>6
<1> QED
  BY <1>1, <1>4, <1>5, <1>8, <1>9 DEF at

LEMMA PairTermsType ==
  ASSUME SearchInv, ProjectionInv, NEW p \in Ranks, returned(p),
         NEW id \in DOMAIN range[p], NEW d \in domainEntitiesFromRange(p, id)
  PROVE  isTerms(pairTerms(p, id, d), Columns)
<1> DEFINE D == DOMAIN supportsOf(getPoint(p, id).of)
           E == DOMAIN DomainSupports[d]
           f == [n \in D \X E |-> couplingTerm(p, id, d, n[1], n[2])]
<1>1. PICK c, k : /\ c \in cellsOf(p) /\ k \in DOMAIN CellRule[c]
                   /\ getPoint(p, id).of = <<c, k>>
  BY PointOfId
<1>2. /\ c \in Cells /\ supportsOf(getPoint(p, id).of) = CellSupports[c]
      /\ rule(getPoint(p, id).of) = CellRule[c][k]
  BY <1>1, CellsPlace DEF supportsOf, rule
<1>3. IsFiniteSet(D \X E)
  <2>1. IsFiniteSet(D)
    BY <1>2, CellTypes
  <2>2. IsFiniteSet(E)
    BY PairTypes, FS_Interval
  <2> QED
    BY <2>1, <2>2, FS_Product
<1>4. IsFiniteSet({f[n] : n \in D \X E})
  <2>1. f = [n \in D \X E |-> f[n]]
    OBVIOUS
  <2> HIDE DEF f, D, E
  <2> QED
    BY <1>3, <2>1, FiniteValues
<1>5. pairTerms(p, id, d) = {f[n] : n \in D \X E}
  BY DEF pairTerms
<1>6. ASSUME NEW t \in pairTerms(p, id, d)
      PROVE  t.value \in Int /\ t.row \in Supports /\ t.col \in Columns
  <2>1. PICK i \in D, j \in E : t = couplingTerm(p, id, d, i, j)
    BY PairTermsAre
  <2>2. /\ CellSupports[c][i] \in Supports /\ CellRule[c][k].shape[i] \in Int
    BY <1>1, <1>2, CellTypes
  <2>3. /\ DomainSupports[d][j] \in Columns /\ sharedWeight(p, id) \in Int
        /\ DomainShape[d][coordinate(p, id, d)][j] \in Int
    BY PairTypes
  <2> QED
    BY <1>2, <2>1, <2>2, <2>3 DEF couplingTerm
<1>7. IsFiniteSet(pairTerms(p, id, d))
  <2> DEFINE S == {f[n] : n \in D \X E}
  <2>1. IsFiniteSet(S) /\ pairTerms(p, id, d) = S
    BY <1>4, <1>5
  <2> HIDE DEF S
  <2> QED
    BY <2>1
<1> QED
  BY <1>6, <1>7 DEF isTerms

-----------------------------------------------------------------------------
(***************************************************************************)
(* The coupling matrix.                                                    *)
(***************************************************************************)
\* A rank inserts the terms of its pairs, and has the sums of what all ranks have
\* inserted in the rows of its supports when it is ready.
CouplingFilled ==
  /\ DOMAIN coupling_inserts = Ranks /\ DOMAIN coupling_matrix = Ranks
  /\ \A r \in Ranks :
       /\ stage[r] \in {"coupling", "ready"} =>
            coupling_inserts[r] = summed(couplingTerms(r), Columns)
       /\ stage[r] = "ready" =>
            /\ \A q \in Ranks : stage[q] \in {"coupling", "ready"}
            /\ coupling_matrix[r] = rowsMovedTo(r, coupling_inserts, Columns)

LEMMA CoordsTrueStep ==
  ASSUME SearchInv, ProjectionInv, CoordsTrue, NEW r \in Ranks, ProjectionStep(r)
  PROVE  CoordsTrue'
<1>1. CASE SearchPoints(r)
  <2>1. MaxSearches = 1 /\ Step(r)
    BY <1>1, SplitAssumption DEF SearchPoints
  <2> QED
    BY <2>1, CoordsOfSearch
<1>2. CASE ~ SearchPoints(r)
  <2>1. UNCHANGED vars
    BY <1>2, PointsKept DEF ProjectionInv
  <2> QED
    BY <2>1 DEF vars, inputVars, domainVars, CoordsTrue
<1> QED
  BY <1>1, <1>2

\* Once all ranks have sent their points, what they insert is settled.
LEMMA CouplingTermsKept ==
  ASSUME SearchInv, ProjectionInv, NEW r \in Ranks, ProjectionStep(r),
         \A s \in Ranks : stage[s] \in {"points", "coupling", "ready"}
  PROVE  \A q : couplingTerms(q)' = couplingTerms(q)
<1>1. ~ SearchPoints(r) /\ ~ SendPoints(r)
  BY DEF SearchPoints, SendPoints
<1>2. /\ ip_stride' = ip_stride /\ point_sends' = point_sends
      /\ d_domain_to_range_map' = d_domain_to_range_map
      /\ d_parametric_coords' = d_parametric_coords
  BY <1>1, PointsKept DEF ProjectionInv, vars, domainVars
<1>3. \A q, id, d : known(q, id, d)' = known(q, id, d)
  BY <1>2 DEF known, imports, ip_domain_lid_map
<1>4. \A q, d, m, at : termsOf(q, d, m, at)' = termsOf(q, d, m, at)
  BY <1>2 DEF termsOf, read
<1>5. \A q, id, d : rangeParametricCoordinatesInDomain(q, id, d)'
                     = rangeParametricCoordinatesInDomain(q, id, d)
  BY <1>2 DEF rangeParametricCoordinatesInDomain
<1> SUFFICES ASSUME NEW q PROVE couplingTerms(q)' = couplingTerms(q)
  OBVIOUS
<1> DEFINE M(x) == UNION {termsOf(q, x[1], m, at) :
                  m \in known(q, x[2], x[1]),
                  at \in rangeParametricCoordinatesInDomain(q, x[2], x[1])}
<1>6. \A x : M(x)' = M(x)
  BY <1>3, <1>4, <1>5
<1>7. couplingTerms(q) = UNION {M(x) : x \in d_domain_to_range_map[q]}
  BY DEF couplingTerms
<1>8. couplingTerms(q)' = UNION {M(x)' : x \in d_domain_to_range_map'[q]}
  BY DEF couplingTerms
<1> HIDE DEF M
<1> QED
  BY <1>2, <1>6, <1>7, <1>8

LEMMA CouplingFilledStep ==
  ASSUME SearchInv, ProjectionInv, CouplingFilled, NEW r \in Ranks, ProjectionStep(r)
  PROVE  CouplingFilled'
<1> USE DEF ProjectionInv
<1>1. /\ ~ InsertCouplings(r) => coupling_inserts' = coupling_inserts
      /\ ~ FillCouplingMatrix(r) => coupling_matrix' = coupling_matrix
  BY DEF ProjectionStep, AssembleMassMatrix, FillMassMatrix, Finalize,
     SearchPoints, EnterReduction, SendPoints, InsertCouplings,
     FillCouplingMatrix, projectionVars, couplingVars
<1>2. ASSUME NEW s \in Ranks, stage[s] \in {"coupling", "ready"}
      PROVE  \A q : couplingTerms(q)' = couplingTerms(q)
  BY <1>2, CouplingTermsKept DEF StagesInOrder
<1>3. CASE InsertCouplings(r)
  <2>1. /\ coupling_inserts' = [coupling_inserts EXCEPT
             ![r] = summed(couplingTerms(r), Columns)]
        /\ coupling_matrix' = coupling_matrix /\ stage[r] = "points"
        /\ \A s \in Ranks : stage[s] \in {"points", "coupling", "ready"}
    BY <1>3 DEF InsertCouplings, passed, ProjectionTypes
  <2>2. stage'[r] = "coupling" /\ \A s \in Ranks \ {r} : stage'[s] = stage[s]
    BY <1>3, StageStep DEF InsertCouplings
  <2>3. \A q : couplingTerms(q)' = couplingTerms(q)
    BY <2>1, CouplingTermsKept
  <2>4. \A s \in Ranks : stage[s] # "ready"
    BY <2>1 DEF CouplingFilled
  <2>5. /\ DOMAIN coupling_inserts' = Ranks
        /\ coupling_inserts'[r] = summed(couplingTerms(r), Columns)
        /\ \A s \in Ranks \ {r} : coupling_inserts'[s] = coupling_inserts[s]
    BY <2>1 DEF CouplingFilled
  <2>6. \A s \in Ranks : summed(couplingTerms(s), Columns)'
                           = summed(couplingTerms(s), Columns)
    BY <2>3 DEF summed
  <2> QED
    BY <2>1, <2>2, <2>4, <2>5, <2>6 DEF CouplingFilled
<1>4. CASE FillCouplingMatrix(r)
  <2>1. /\ coupling_matrix' = [coupling_matrix EXCEPT
             ![r] = rowsMovedTo(r, coupling_inserts, Columns)]
        /\ coupling_inserts' = coupling_inserts /\ stage[r] = "coupling"
        /\ \A s \in Ranks : stage[s] \in {"coupling", "ready"}
    BY <1>4 DEF FillCouplingMatrix, passed, ProjectionTypes
  <2>2. stage'[r] = "ready" /\ \A s \in Ranks \ {r} : stage'[s] = stage[s]
    BY <1>4, StageStep DEF FillCouplingMatrix
  <2>3. \A q : couplingTerms(q)' = couplingTerms(q)
    BY <1>2, <2>1
  <2>4. \A s \in Ranks : summed(couplingTerms(s), Columns)'
                           = summed(couplingTerms(s), Columns)
    BY <2>3 DEF summed
  <2>5. \A s \in Ranks : rowsMovedTo(s, coupling_inserts, Columns)'
                           = rowsMovedTo(s, coupling_inserts, Columns)
    BY <2>1 DEF rowsMovedTo
  <2>6. /\ DOMAIN coupling_matrix' = Ranks
        /\ coupling_matrix'[r] = rowsMovedTo(r, coupling_inserts, Columns)
        /\ \A s \in Ranks \ {r} : coupling_matrix'[s] = coupling_matrix[s]
    BY <2>1 DEF CouplingFilled
  <2> QED
    BY <2>1, <2>2, <2>4, <2>5, <2>6 DEF CouplingFilled
<1>5. CASE ~ InsertCouplings(r) /\ ~ FillCouplingMatrix(r)
  <2>1. coupling_inserts' = coupling_inserts /\ coupling_matrix' = coupling_matrix
    BY <1>1, <1>5
  <2>2. \A s \in Ranks : /\ stage[s] \in {"coupling", "ready"} => stage'[s] = stage[s]
                         /\ stage'[s] \in {"coupling", "ready"} => stage[s] = stage'[s]
    BY <1>5, StageStep
  <2>3. \A s \in Ranks : rowsMovedTo(s, coupling_inserts, Columns)'
                           = rowsMovedTo(s, coupling_inserts, Columns)
    BY <2>1 DEF rowsMovedTo
  <2>4. ASSUME NEW s \in Ranks, stage[s] \in {"coupling", "ready"}
        PROVE  summed(couplingTerms(s), Columns)' = summed(couplingTerms(s), Columns)
    BY <1>2, <2>4 DEF summed
  <2> QED
    BY <2>1, <2>2, <2>3, <2>4 DEF CouplingFilled
<1> QED
  BY <1>3, <1>4, <1>5

LEMMA CouplingTermsType ==
  ASSUME SearchInv, ProjectionInv, CoordsTrue, NEW q \in Ranks,
         stage[q] \in {"coupling", "ready"}
  PROVE  isTerms(couplingTerms(q), Columns)
<1> DEFINE I == Ranks \X (RangeEntities \X DomainEntities)
           isPair(p, id, d) == /\ id \in DOMAIN range[p] /\ DomainOwner[d] = q
                               /\ d \in domainEntitiesFromRange(p, id)
           T == [i \in I |-> IF isPair(i[1], i[2][1], i[2][2])
                             THEN pairTerms(i[1], i[2][1], i[2][2]) ELSE {}]
<1>1. IsFiniteSet(I)
  <2>1. IsFiniteSet(RangeEntities \X DomainEntities)
    BY EntityAssumption, FS_Product
  <2> QED
    BY <2>1, RankAssumption, FS_Product
<1>2. \A p \in Ranks : returned(p)
  BY DEF ProjectionInv, StagesInOrder, SearchEnded
<1>3. ASSUME NEW i \in I PROVE isTerms(T[i], Columns)
  <2>1. CASE isPair(i[1], i[2][1], i[2][2])
    <3>1. i[1] \in Ranks
      OBVIOUS
    <3>2. isTerms(pairTerms(i[1], i[2][1], i[2][2]), Columns)
      BY <1>2, <2>1, <3>1, PairTermsType
    <3> QED
      BY <2>1, <3>2
  <2>2. CASE ~ isPair(i[1], i[2][1], i[2][2])
    <3>1. T[i] = {}
      BY <2>2
    <3> QED
      BY <3>1, FS_EmptySet DEF isTerms
  <2> QED
    BY <2>1, <2>2
<1>4. ASSUME NEW t PROVE t \in couplingTerms(q) <=> \E i \in I : t \in T[i]
  <2>1. ASSUME t \in couplingTerms(q) PROVE \E i \in I : t \in T[i]
    <3>1. PICK p \in Ranks :
            \E id \in DOMAIN range[p] : \E d \in domainEntitiesFromRange(p, id) :
               DomainOwner[d] = q /\ t \in pairTerms(p, id, d)
      BY <2>1, CouplingTermsAre
    <3>2. PICK id \in DOMAIN range[p] :
            \E d \in domainEntitiesFromRange(p, id) :
               DomainOwner[d] = q /\ t \in pairTerms(p, id, d)
      BY <3>1
    <3>3. PICK d \in domainEntitiesFromRange(p, id) :
               DomainOwner[d] = q /\ t \in pairTerms(p, id, d)
      BY <3>2
    <3>4. id \in RangeEntities /\ d \in DomainEntities
      BY <1>2, PairTypes
    <3> DEFINE i == <<p, <<id, d>>>>
    <3>5. i \in I /\ i[1] = p /\ i[2][1] = id /\ i[2][2] = d
      BY <3>4
    <3>6. T[i] = pairTerms(p, id, d)
      <4> HIDE DEF i, I
      <4> QED
        BY <3>3, <3>5
    <3> QED
      BY <3>3, <3>5, <3>6
  <2>2. ASSUME NEW i \in I, t \in T[i] PROVE t \in couplingTerms(q)
    <3>1. isPair(i[1], i[2][1], i[2][2]) /\ t \in pairTerms(i[1], i[2][1], i[2][2])
      BY <2>2
    <3>2. i[1] \in Ranks
      OBVIOUS
    <3> QED
      BY <3>1, <3>2, CouplingTermsAre
  <2> QED
    BY <2>1, <2>2
<1>5. UNION {T[i] : i \in I} = couplingTerms(q)
  <2> HIDE DEF T, I
  <2> QED
    BY <1>4
<1> HIDE DEF I, T
<1> QED
  BY <1>1, <1>3, <1>5, TermsUnite

\* The terms of all points.
pointTerms == UNION {UNION {quadratureTerms(p, id) : id \in DOMAIN range[p]} : p \in Ranks}

LEMMA PointTermsAre ==
  ASSUME NEW t
  PROVE  t \in pointTerms <=>
           \E p \in Ranks : \E id \in DOMAIN range[p] :
             \E d \in domainEntitiesFromRange(p, id) : t \in pairTerms(p, id, d)
BY QuadratureTermsAre DEF pointTerms

\* The ranks insert the terms of all points, each on one rank.
LEMMA PointTermsParted ==
  ASSUME SearchInv, ProjectionInv, CoordsTrue,
         \A q \in Ranks : stage[q] \in {"coupling", "ready"}
  PROVE  isParted(pointTerms, Ranks, [q \in Ranks |-> couplingTerms(q)], Columns)
<1> DEFINE T == [q \in Ranks |-> couplingTerms(q)]
<1>1. \A q \in Ranks : returned(q)
  BY DEF ProjectionInv, SearchEnded
<1>2. \A q \in Ranks : isTerms(T[q], Columns)
  BY <1>1, CouplingTermsType
<1>3. apart(Ranks, T)
  <2> SUFFICES ASSUME NEW p \in Ranks, NEW q \in Ranks, p # q,
                      NEW t \in couplingTerms(p), t \in couplingTerms(q)
               PROVE  FALSE
    BY DEF apart
  <2>1. PICK s, id, d : DomainOwner[d] = p /\ t \in pairTerms(s, id, d)
    BY <1>1, CouplingTermsAre
  <2>2. PICK u, e, f : DomainOwner[f] = q /\ t \in pairTerms(u, e, f)
    BY <1>1, CouplingTermsAre
  <2>3. t.of[2] = d
    BY <2>1, PairTermsAre DEF couplingTerm
  <2>4. t.of[2] = f
    BY <2>2, PairTermsAre DEF couplingTerm
  <2> QED
    BY <2>1, <2>2, <2>3, <2>4
<1>4. ASSUME NEW t PROVE t \in pointTerms <=> \E q \in Ranks : t \in T[q]
  <2>1. t \in pointTerms <=>
           \E p \in Ranks : \E id \in DOMAIN range[p] :
             \E d \in domainEntitiesFromRange(p, id) : t \in pairTerms(p, id, d)
    BY PointTermsAre
  <2>2. \A p \in Ranks : \A id \in DOMAIN range[p] :
          \A d \in domainEntitiesFromRange(p, id) : DomainOwner[d] \in Ranks
    BY <1>1, PairTypes
  <2>3. \A q \in Ranks : t \in T[q] <=>
          \E p \in Ranks : \E id \in DOMAIN range[p] :
            \E d \in domainEntitiesFromRange(p, id) :
              DomainOwner[d] = q /\ t \in pairTerms(p, id, d)
    BY <1>1, CouplingTermsAre
  <2> HIDE DEF T
  <2> QED
    BY <2>1, <2>2, <2>3
<1> HIDE DEF T
<1>5. isParted(pointTerms, Ranks, T, Columns)
  BY <1>2, <1>3, <1>4, RankAssumption DEF isParted
<1> QED
  BY <1>5 DEF T

\* What all ranks insert adds up to the quadrature over the points found.
LEMMA InvCouplingIsQuadrature ==
  SearchInv /\ ProjectionInv /\ CoordsTrue /\ CouplingFilled => CouplingIsQuadrature
<1> DEFINE T == [q \in Ranks |-> couplingTerms(q)]
<1> SUFFICES ASSUME SearchInv, ProjectionInv, CoordsTrue, CouplingFilled,
                    NEW r \in Ranks, stage[r] = "ready",
                    NEW x \in DOMAIN coupling_matrix[r]
             PROVE  coupling_matrix[r][x] = summed(pointTerms, Columns)[x]
  BY DEF CouplingIsQuadrature, pointTerms
<1> DEFINE g == [q \in Ranks |-> coupling_inserts[q][x]]
<1>1. /\ \A q \in Ranks : stage[q] \in {"coupling", "ready"}
      /\ coupling_matrix[r] = rowsMovedTo(r, coupling_inserts, Columns)
  BY DEF CouplingFilled
<1>2. /\ x \in Supports \X Columns
      /\ coupling_matrix[r][x] = SumFunction(g)
  BY <1>1 DEF rowsMovedTo
<1>3. \A q \in Ranks : g[q] = summed(T[q], Columns)[x]
  BY <1>1 DEF CouplingFilled
<1>4. SumFunction(g) = SumFunctionOnSet(g, Ranks)
  BY DEF SumFunction
<1>5. isParted(pointTerms, Ranks, T, Columns)
  BY <1>1, PointTermsParted
<1> HIDE DEF T, g
<1>6. SumFunctionOnSet(g, Ranks) = summed(pointTerms, Columns)[x]
  BY <1>2, <1>3, <1>5, MatricesAddUp
<1> QED
  BY <1>2, <1>4, <1>6

-----------------------------------------------------------------------------
(***************************************************************************)
(* The invariant with the matrices.                                        *)
(***************************************************************************)
MatrixInv == /\ SearchInv /\ ProjectionInv /\ CoordsTrue
             /\ MassFilled /\ CouplingFilled

\* The invariant of the search, that of the points and that of the matrices hold
\* throughout.
THEOREM MatrixInvariant == ProjectionSpec => []MatrixInv
<1>1. ProjectionInit => CoordsTrue /\ MassFilled /\ CouplingFilled
  <2> SUFFICES ASSUME ProjectionInit PROVE CoordsTrue /\ MassFilled /\ CouplingFilled
    OBVIOUS
  <2>1. \A r \in Ranks : stage[r] = "new" /\ d_parametric_coords[r] = {}
    BY DEF ProjectionInit, Init
  <2>2. /\ DOMAIN mass_inserts = Ranks /\ DOMAIN mass_matrix = Ranks
        /\ DOMAIN coupling_inserts = Ranks /\ DOMAIN coupling_matrix = Ranks
    BY DEF ProjectionInit
  <2> QED
    BY <2>1, <2>2 DEF CoordsTrue, MassFilled, CouplingFilled
<1>2. MatrixInv /\ SearchInv' /\ ProjectionInv' /\ [ProjectionNext]_projectionAll
        => MatrixInv'
  <2> SUFFICES ASSUME MatrixInv, SearchInv', ProjectionInv',
                      [ProjectionNext]_projectionAll
               PROVE  MatrixInv'
    OBVIOUS
  <2>1. ASSUME NEW r \in Ranks, ProjectionStep(r) PROVE MatrixInv'
    BY <2>1, CoordsTrueStep, MassFilledStep, CouplingFilledStep
    DEF MatrixInv, ProjectionInv
  <2>2. CASE UNCHANGED projectionAll
    <3>1. UNCHANGED vars /\ UNCHANGED projectionVars
      BY <2>2 DEF projectionAll
    <3>2. /\ UNCHANGED <<searches, domain, range, d_domain_to_range_map,
                         d_parametric_coords>>
          /\ UNCHANGED <<stage, mass_inserts, mass_matrix, ip_stride, point_sends,
                         coupling_inserts, coupling_matrix>>
      BY <3>1 DEF vars, inputVars, domainVars, projectionVars, massVars,
                  couplingVars
    <3>3. CoordsTrue'
      BY <3>2 DEF MatrixInv, CoordsTrue
    <3>4. MassFilled'
      BY <3>2 DEF MatrixInv, MassFilled
    <3>5. \A q : couplingTerms(q)' = couplingTerms(q)
      BY <3>2 DEF couplingTerms, known, imports, ip_domain_lid_map, termsOf, read,
                  rangeParametricCoordinatesInDomain
    <3>6. \A q : summed(couplingTerms(q), Columns)' = summed(couplingTerms(q), Columns)
      BY <3>5 DEF summed
    <3>7. \A q : rowsMovedTo(q, coupling_inserts, Columns)'
                   = rowsMovedTo(q, coupling_inserts, Columns)
      BY <3>2 DEF rowsMovedTo
    <3>8. CouplingFilled'
      BY <3>2, <3>6, <3>7 DEF MatrixInv, CouplingFilled
    <3> QED
      BY <3>3, <3>4, <3>8 DEF MatrixInv
  <2> QED
    BY <2>1, <2>2 DEF ProjectionNext
<1>3. ProjectionInit /\ SearchInv /\ ProjectionInv => MatrixInv
  BY <1>1 DEF MatrixInv
<1> QED
  BY <1>2, <1>3, ProjectionInvariant, PTL DEF ProjectionSpec

\* The mass matrix is the quadrature over the selected cells.
THEOREM MassOfCells == ProjectionSpec => []MassIsQuadrature
<1>1. MatrixInv => MassIsQuadrature
  BY InvMassIsQuadrature DEF MatrixInv
<1> QED
  BY <1>1, MatrixInvariant, PTL

\* The coupling matrix is the quadrature over the points that were found.
THEOREM CouplingOfPoints == ProjectionSpec => []CouplingIsQuadrature
<1>1. MatrixInv => CouplingIsQuadrature
  BY InvCouplingIsQuadrature DEF MatrixInv
<1> QED
  BY <1>1, MatrixInvariant, PTL

-----------------------------------------------------------------------------
(***************************************************************************)
(* Constant fields.                                                        *)
(***************************************************************************)

\* The points of a rank by their ids and by their cells.
LEMMA IdOfPoint ==
  ASSUME ProjectionInv, NEW p \in Ranks, returned(p)
  PROVE  /\ \A c \in cellsOf(p) : \A k \in DOMAIN CellRule[c] :
              \E id \in DOMAIN range[p] : getPoint(p, id).of = <<c, k>>
         /\ \A id, e \in DOMAIN range[p] :
              getPoint(p, id).of = getPoint(p, e).of => id = e
<1> USE DEF ProjectionInv
<1>1. isNumbered(p) /\ DOMAIN range[p] = pointIds(p)
  BY DEF RangeIsPoints, returned
<1>2. \A i \in DOMAIN d_points[p] : getPoint(p, d_points[p][i].gid) = d_points[p][i]
  BY <1>1, InvFindsPoints DEF PointsFound
<1>3. /\ DOMAIN d_points[p] = DOMAIN points[p]
      /\ \A i \in DOMAIN points[p] : d_points[p][i].of = points[p][i]
  BY <1>1 DEF PointsSet, isNumbered
<1>4. ASSUME NEW c \in cellsOf(p), NEW k \in DOMAIN CellRule[c]
      PROVE  \E id \in DOMAIN range[p] : getPoint(p, id).of = <<c, k>>
  <2>1. PICK i \in DOMAIN points[p] : points[p][i] = <<c, k>>
    BY PointsOfCells
  <2> QED
    BY <1>1, <1>2, <1>3, <2>1 DEF pointIds
<1>5. ASSUME NEW id \in DOMAIN range[p], NEW e \in DOMAIN range[p],
             getPoint(p, id).of = getPoint(p, e).of
      PROVE  id = e
  <2>1. PICK i \in DOMAIN d_points[p] : id = d_points[p][i].gid
    BY <1>1 DEF pointIds
  <2>2. PICK j \in DOMAIN d_points[p] : e = d_points[p][j].gid
    BY <1>1 DEF pointIds
  <2>3. points[p][i] = points[p][j]
    BY <1>2, <1>3, <1>5, <2>1, <2>2
  <2>4. i = j
    BY <1>3, <2>3, PointsOfCells
  <2> QED
    BY <2>1, <2>2, <2>4
<1> QED
  BY <1>4, <1>5

\* The terms of a point in one row.
cellRow(c, k, i) == {massTerm(c, k, i, j) : j \in DOMAIN CellSupports[c]}

pairRow(p, id, d, i) ==
  {couplingTerm(p, id, d, i, j) : j \in DOMAIN DomainSupports[d]}

pointRow(p, id, i) ==
  UNION {pairRow(p, id, d, i) : d \in domainEntitiesFromRange(p, id)}

\* The terms of a point of a cell in one row add up to the products with the sum
\* of the shape functions.
LEMMA CellRow ==
  ASSUME NEW c \in Cells, NEW k \in DOMAIN CellRule[c],
         NEW i \in DOMAIN CellSupports[c], NEW T, cellRow(c, k, i) \subseteq T
  PROVE  /\ IsFiniteSet(cellRow(c, k, i))
         /\ \A t \in cellRow(c, k, i) : values(T)[t] \in Int
         /\ SumFunctionOnSet(values(T), cellRow(c, k, i))
              = CellUnity * (CellRule[c][k].weight * CellRule[c][k].shape[i])
<1> DEFINE G == cellRow(c, k, i)
           D == DOMAIN CellSupports[c]
           w == CellRule[c][k].weight * CellRule[c][k].shape[i]
           s == CellRule[c][k].shape
           b == [j \in D |-> massTerm(c, k, i, j)]
           f == [j \in D |-> w * s[j]]
<1>1. /\ IsFiniteSet(D) /\ w \in Int /\ D = DOMAIN s /\ \A j \in D : s[j] \in Int
      /\ SumFunctionOnSet(s, D) = CellUnity /\ CellUnity \in Int
  <2>1. SumFunction(s) = CellUnity /\ CellUnity \in Int
    BY UnityAssumption
  <2>2. D = DOMAIN s
    BY CellTypes
  <2> QED
    BY <2>1, <2>2, CellTypes DEF SumFunction
<1>2. b \in Bijection(D, G)
  <2>1. \A j \in D : massTerm(c, k, i, j).of = <<<<c, k>>, <<i, j>>>>
    BY DEF massTerm
  <2>2. \A j, l \in D : b[j] = b[l] => j = l
    BY <2>1
  <2>3. b \in Surjection(D, G)
    BY DEF Surjection, cellRow
  <2> QED
    BY <2>2, <2>3 DEF Bijection, Injection, Surjection, IsInjective
<1>3. \A j \in D : values(T)[b[j]] = f[j] /\ f[j] \in Int
  <2>1. \A j \in D : b[j] \in T /\ b[j].value = f[j]
    BY DEF massTerm, cellRow
  <2> HIDE DEF w, s
  <2> QED
    BY <1>1, <2>1 DEF values
<1>4. IsFiniteSet(G)
  <2>1. b \in Surjection(D, G) /\ IsFiniteSet(D)
    BY <1>1, <1>2 DEF Bijection
  <2> HIDE DEF b, D
  <2> QED
    BY <2>1, FS_Surjection
<1>5. SumFunctionOnSet(f, D) = SumFunctionOnSet(values(T), G)
  <2> HIDE DEF b, f, D
  <2> QED
    BY <1>1, <1>2, <1>3, SumRenamed
<1>6. SumFunctionOnSet(f, D) = w * SumFunctionOnSet(s, D)
  <2>1. \A j \in D : s[j] \in Int /\ f[j] = w * s[j]
    BY <1>1
  <2> HIDE DEF f, D, w, s
  <2> QED
    BY <1>1, <2>1, SumScaled
<1>7. \A t \in G : values(T)[t] \in Int
  <2>1. \A t \in G : \E j \in D : t = b[j]
    BY DEF cellRow
  <2> HIDE DEF b, f, D
  <2> QED
    BY <1>3, <2>1
<1> HIDE DEF w, s, f, D
<1>8. SumFunctionOnSet(values(T), G) = CellUnity * w
  BY <1>1, <1>5, <1>6
<1> QED
  BY <1>4, <1>7, <1>8 DEF w

LEMMA PairRow ==
  ASSUME SearchInv, ProjectionInv, NEW p \in Ranks, returned(p),
         NEW id \in DOMAIN range[p], NEW d \in domainEntitiesFromRange(p, id),
         NEW i \in DOMAIN supportsOf(getPoint(p, id).of), NEW T,
         pairRow(p, id, d, i) \subseteq T
  PROVE  LET w == sharedWeight(p, id) * rule(getPoint(p, id).of).shape[i]
             G == pairRow(p, id, d, i)
         IN /\ IsFiniteSet(G) /\ \A t \in G : values(T)[t] \in Int
            /\ w \in Int /\ DomainUnity \in Int
            /\ SumFunctionOnSet(values(T), G) = w * DomainUnity
<1> DEFINE G == pairRow(p, id, d, i)
           D == DOMAIN DomainSupports[d]
           w == sharedWeight(p, id) * rule(getPoint(p, id).of).shape[i]
           s == DomainShape[d][coordinate(p, id, d)]
           b == [j \in D |-> couplingTerm(p, id, d, i, j)]
           f == [j \in D |-> w * s[j]]
<1>1. w \in Int
  <2>1. PICK c, k : /\ c \in cellsOf(p) /\ k \in DOMAIN CellRule[c]
                    /\ getPoint(p, id).of = <<c, k>>
    BY PointOfId
  <2>2. /\ c \in Cells /\ supportsOf(getPoint(p, id).of) = CellSupports[c]
        /\ rule(getPoint(p, id).of) = CellRule[c][k]
    BY <2>1, CellsPlace DEF supportsOf, rule
  <2>3. CellRule[c][k].shape[i] \in Int
    BY <2>1, <2>2, CellTypes
  <2> QED
    BY <2>2, <2>3, PairTypes
<1>2. /\ IsFiniteSet(D) /\ D = DOMAIN s /\ \A j \in D : s[j] \in Int
      /\ SumFunctionOnSet(s, D) = DomainUnity /\ DomainUnity \in Int
  <2>1. /\ d \in DomainEntities /\ coordinate(p, id, d) \in insideCoordinates
        /\ D = 1 .. Len(DomainSupports[d]) /\ Len(DomainSupports[d]) \in Nat
        /\ \A j \in D : s[j] \in Int
    BY PairTypes
  <2>2. IsFiniteSet(D)
    <3> HIDE DEF D, s
    <3> QED
      BY <2>1, FS_Interval
  <2>3. s \in [D -> Int] /\ SumFunction(s) = DomainUnity /\ DomainUnity \in Int
    BY <2>1, ShapeFunctionAssumption, UnityAssumption
  <2> QED
    BY <2>1, <2>2, <2>3 DEF SumFunction
<1>3. b \in Bijection(D, G)
  <2>1. \A j \in D : couplingTerm(p, id, d, i, j).of = <<id, d, <<i, j>>>>
    BY DEF couplingTerm
  <2>2. \A j, l \in D : b[j] = b[l] => j = l
    BY <2>1
  <2>3. b \in Surjection(D, G)
    BY DEF Surjection, pairRow
  <2> QED
    BY <2>2, <2>3 DEF Bijection, Injection, Surjection, IsInjective
<1>4. \A j \in D : values(T)[b[j]] = f[j] /\ f[j] \in Int
  <2>1. \A j \in D : b[j] \in T /\ b[j].value = f[j]
    BY DEF couplingTerm, pairRow
  <2> HIDE DEF w, s
  <2> QED
    BY <1>1, <1>2, <2>1 DEF values
<1>5. IsFiniteSet(G)
  <2>1. b \in Surjection(D, G) /\ IsFiniteSet(D)
    BY <1>2, <1>3 DEF Bijection
  <2> HIDE DEF b, D
  <2> QED
    BY <2>1, FS_Surjection
<1>6. SumFunctionOnSet(f, D) = SumFunctionOnSet(values(T), G)
  <2> HIDE DEF b, f, D
  <2> QED
    BY <1>2, <1>3, <1>4, SumRenamed
<1>7. SumFunctionOnSet(f, D) = w * SumFunctionOnSet(s, D)
  <2>1. \A j \in D : s[j] \in Int /\ f[j] = w * s[j]
    BY <1>2
  <2> HIDE DEF f, D, w, s
  <2> QED
    BY <1>1, <1>2, <2>1, SumScaled
<1>8. \A t \in G : values(T)[t] \in Int
  <2>1. \A t \in G : \E j \in D : t = b[j]
    BY DEF pairRow
  <2> HIDE DEF b, f, D
  <2> QED
    BY <1>4, <2>1
<1> HIDE DEF w, s, f, D
<1>9. SumFunctionOnSet(values(T), G) = w * DomainUnity
  BY <1>1, <1>2, <1>6, <1>7
<1> QED
  BY <1>1, <1>2, <1>5, <1>8, <1>9 DEF w

\* The terms of a point in all the domain entities it was found in, in one row:
\* the shares of its weight add up to the weight.
LEMMA PointRow ==
  ASSUME SearchInv, ProjectionInv, NEW p \in Ranks, returned(p),
         NEW id \in DOMAIN range[p], domainEntitiesFromRange(p, id) # {},
         NEW i \in DOMAIN supportsOf(getPoint(p, id).of), NEW T,
         pointRow(p, id, i) \subseteq T
  PROVE  LET w == rule(getPoint(p, id).of).weight * rule(getPoint(p, id).of).shape[i]
             G == pointRow(p, id, i)
         IN /\ IsFiniteSet(G) /\ \A t \in G : values(T)[t] \in Int
            /\ SumFunctionOnSet(values(T), G) = DomainUnity * w
<1> DEFINE G == pointRow(p, id, i)
           F == domainEntitiesFromRange(p, id)
           x == getPoint(p, id).of
           n == Cardinality(F)
           v == sharedWeight(p, id) * rule(x).shape[i]
           E == [d \in F |-> pairRow(p, id, d, i)]
           g == [d \in F |-> v * DomainUnity]
<1>1. /\ F \in SUBSET DomainEntities /\ IsFiniteSet(F)
      /\ n \in Nat \ {0} /\ n <= Cardinality(DomainEntities)
      /\ Cardinality(DomainEntities) \in Nat
  <2>1. F \in SUBSET DomainEntities /\ F # {}
    BY DEF domainEntitiesFromRange
  <2> HIDE DEF F
  <2>2. IsFiniteSet(F) /\ Cardinality(F) <= Cardinality(DomainEntities)
    BY <2>1, EntityAssumption, FS_Subset
  <2>3. Cardinality(F) \in Nat /\ Cardinality(F) # 0
    BY <2>1, <2>2, FS_CardinalityType, FS_EmptySet
  <2>4. Cardinality(DomainEntities) \in Nat
    BY EntityAssumption, FS_CardinalityType
  <2> QED
    BY <2>1, <2>2, <2>3, <2>4
<1>2. ASSUME NEW d \in F
      PROVE  /\ IsFiniteSet(E[d]) /\ \A t \in E[d] : values(T)[t] \in Int
             /\ v \in Int /\ DomainUnity \in Int
             /\ g[d] = SumFunctionOnSet(values(T), E[d])
  <2>1. pairRow(p, id, d, i) \subseteq T
    BY DEF pointRow
  <2> HIDE DEF v
  <2>2. /\ IsFiniteSet(pairRow(p, id, d, i))
        /\ \A t \in pairRow(p, id, d, i) : values(T)[t] \in Int
        /\ v \in Int /\ DomainUnity \in Int
        /\ SumFunctionOnSet(values(T), pairRow(p, id, d, i)) = v * DomainUnity
    BY <2>1, PairRow DEF v
  <2> QED
    BY <2>2
<1>3. \A d, e \in F : d # e => E[d] \cap E[e] = {}
  <2> SUFFICES ASSUME NEW d \in F, NEW e \in F, d # e, NEW t \in E[d], t \in E[e]
               PROVE  FALSE
    OBVIOUS
  <2>1. t.of[2] = d /\ t.of[2] = e
    BY DEF couplingTerm, pairRow
  <2> QED
    BY <2>1
<1>4. \A t : t \in G <=> \E d \in F : t \in E[d]
  BY DEF pointRow
<1>5. IsFiniteSet(G) /\ SumFunctionOnSet(values(T), G) = SumFunctionOnSet(g, F)
  <2> HIDE DEF E, F, g, v
  <2>1. isGrouped(values(T), G, g, F, E)
    BY <1>1, <1>2, <1>3, <1>4 DEF isGrouped
  <2> QED
    BY <2>1, SumGrouped
<1>6. v \in Int /\ DomainUnity \in Int
  BY <1>2
<1>7. SumFunctionOnSet(g, F) = n * (v * DomainUnity)
  <2>1. \A d \in F : g[d] = v * DomainUnity
    OBVIOUS
  <2>2. v * DomainUnity \in Int
    BY <1>6
  <2> HIDE DEF F, g, v
  <2> QED
    BY <1>1, <2>1, <2>2, SumOfConstant
<1>8. /\ rule(x).weight \in Int /\ rule(x).shape[i] \in Int
      /\ sharedWeight(p, id) = rule(x).weight \div n
      /\ rule(x).weight % n = 0
  <2>1. PICK c, k : /\ c \in cellsOf(p) /\ k \in DOMAIN CellRule[c]
                    /\ getPoint(p, id).of = <<c, k>>
    BY PointOfId
  <2>2. /\ c \in Cells /\ supportsOf(x) = CellSupports[c] /\ rule(x) = CellRule[c][k]
    BY <2>1, CellsPlace DEF supportsOf, rule
  <2>3. CellRule[c][k].shape[i] \in Int /\ CellRule[c][k].weight \in Int
    BY <2>1, <2>2, CellTypes
  <2>4. n \in 1 .. Cardinality(DomainEntities)
    BY <1>1
  <2>5. CellRule[c][k].weight % n = 0
    BY <2>1, <2>2, <2>4, SplitAssumption
  <2>6. sharedWeight(p, id) = rule(x).weight \div n
    BY DEF sharedWeight
  <2> HIDE DEF x, n
  <2> QED
    BY <2>2, <2>3, <2>5, <2>6
<1>9. n * (v * DomainUnity) = DomainUnity * (rule(x).weight * rule(x).shape[i])
  <2> DEFINE a == rule(x).weight
             s == rule(x).shape[i]
             u == a \div n
  <2>1. a \in Int /\ s \in Int /\ a % n = 0 /\ v = u * s
    BY <1>8
  <2> HIDE DEF a, s, x, n, v
  <2>2. u \in Int /\ a = n * u
    BY <1>1, <2>1
  <2> HIDE DEF u
  <2>3. n * ((u * s) * DomainUnity) = DomainUnity * ((n * u) * s)
    BY <1>1, <1>6, <2>1, <2>2
  <2> QED
    BY <2>1, <2>2, <2>3 DEF a, s
<1>10. \A t \in G : values(T)[t] \in Int
  <2> HIDE DEF E, F, g, v
  <2> QED
    BY <1>2, <1>4
<1> HIDE DEF v, n, F, g, E
<1> QED
  BY <1>5, <1>7, <1>9, <1>10

-----------------------------------------------------------------------------
(***************************************************************************)
(* A row of either matrix is a sum over the points of the cells in which   *)
(* its support is.                                                         *)
(***************************************************************************)
allCellTerms == UNION {cellTerms(c) : c \in SelectedCells}

\* The points, and the places of the support s in their cells.
rowIndex(s) == {<<u.of[1], u.of[2][1]>> : u \in {t \in allCellTerms : t.row = s}}

\* The weight and the value of the support's shape function there.
weighted(x) == CellRule[x[1][1]][x[1][2]].weight * CellRule[x[1][1]][x[1][2]].shape[x[2]]

LEMMA AllCellTermsType == isTerms(allCellTerms, Supports)
<1> DEFINE T == [c \in SelectedCells |-> cellTerms(c)]
<1>1. SelectedCells \in SUBSET Cells /\ IsFiniteSet(SelectedCells)
  BY CellAssumption, FS_Subset
<1>2. \A c \in SelectedCells : isTerms(T[c], Supports)
  BY <1>1, CellTermsType
<1>3. UNION {T[c] : c \in SelectedCells} = allCellTerms
  BY DEF allCellTerms
<1> HIDE DEF T
<1> QED
  BY <1>1, <1>2, <1>3, TermsUnite

LEMMA RowIndexIs ==
  ASSUME NEW s, NEW x
  PROVE  x \in rowIndex(s) <=>
           \E c \in SelectedCells : \E k \in DOMAIN CellRule[c] :
             \E i \in DOMAIN CellSupports[c] :
               CellSupports[c][i] = s /\ x = <<<<c, k>>, i>>
<1>1. ASSUME x \in rowIndex(s)
      PROVE  \E c \in SelectedCells : \E k \in DOMAIN CellRule[c] :
               \E i \in DOMAIN CellSupports[c] :
                 CellSupports[c][i] = s /\ x = <<<<c, k>>, i>>
  <2>1. PICK u \in allCellTerms : u.row = s /\ x = <<u.of[1], u.of[2][1]>>
    BY <1>1 DEF rowIndex
  <2>2. PICK c \in SelectedCells : u \in cellTerms(c)
    BY DEF allCellTerms
  <2>3. PICK k \in DOMAIN CellRule[c] :
          \E i, j \in DOMAIN CellSupports[c] : u = massTerm(c, k, i, j)
    BY <2>2, CellTermsAre
  <2>4. PICK i \in DOMAIN CellSupports[c], j \in DOMAIN CellSupports[c] :
          u = massTerm(c, k, i, j)
    BY <2>3
  <2>5. u.of = <<<<c, k>>, <<i, j>>>> /\ u.row = CellSupports[c][i]
    BY <2>4 DEF massTerm
  <2> QED
    BY <2>1, <2>5
<1>2. ASSUME NEW c \in SelectedCells, NEW k \in DOMAIN CellRule[c],
             NEW i \in DOMAIN CellSupports[c], CellSupports[c][i] = s,
             x = <<<<c, k>>, i>>
      PROVE  x \in rowIndex(s)
  <2> DEFINE u == massTerm(c, k, i, i)
  <2>1. u \in allCellTerms
    BY CellTermsAre DEF allCellTerms
  <2>2. u.row = s /\ u.of = <<<<c, k>>, <<i, i>>>>
    BY <1>2 DEF massTerm
  <2>3. x = <<u.of[1], u.of[2][1]>>
    BY <1>2, <2>2
  <2> HIDE DEF u
  <2> QED
    BY <2>1, <2>2, <2>3 DEF rowIndex
<1> QED
  BY <1>1, <1>2

LEMMA RowIndexFinite ==
  ASSUME NEW s
  PROVE  /\ IsFiniteSet(rowIndex(s))
         /\ \A x \in rowIndex(s) : weighted(x) \in Int
<1> DEFINE S == {t \in allCellTerms : t.row = s}
           f == [u \in S |-> <<u.of[1], u.of[2][1]>>]
<1>1. IsFiniteSet(S)
  <2>1. S \in SUBSET allCellTerms
    OBVIOUS
  <2> QED
    BY <2>1, AllCellTermsType, FS_Subset DEF isTerms
<1>2. IsFiniteSet({f[u] : u \in S})
  <2>1. f = [u \in S |-> f[u]]
    OBVIOUS
  <2> HIDE DEF f, S
  <2> QED
    BY <1>1, <2>1, FiniteValues
<1>3. rowIndex(s) = {f[u] : u \in S}
  BY DEF rowIndex
<1>4. ASSUME NEW x \in rowIndex(s) PROVE weighted(x) \in Int
  <2>1. PICK c, k, i : /\ c \in SelectedCells /\ k \in DOMAIN CellRule[c]
                       /\ i \in DOMAIN CellSupports[c] /\ x = <<<<c, k>>, i>>
    BY RowIndexIs
  <2>2. c \in Cells /\ weighted(x) = CellRule[c][k].weight * CellRule[c][k].shape[i]
    BY <2>1, CellAssumption DEF weighted
  <2> QED
    BY <2>1, <2>2, CellTypes
<1>5. IsFiniteSet(rowIndex(s))
  <2> DEFINE R == {f[u] : u \in S}
  <2>1. IsFiniteSet(R) /\ rowIndex(s) = R
    BY <1>2, <1>3
  <2> HIDE DEF R
  <2> QED
    BY <2>1
<1> QED
  BY <1>4, <1>5

LEMMA MassRow ==
  ASSUME NEW s
  PROVE  SumFunctionOnSet(values(allCellTerms), {t \in allCellTerms : t.row = s})
           = CellUnity * SumFunctionOnSet([x \in rowIndex(s) |-> weighted(x)], rowIndex(s))
<1> DEFINE K == rowIndex(s)
           T == allCellTerms
           U == {t \in allCellTerms : t.row = s}
           e == [x \in K |-> weighted(x)]
           E == [x \in K |-> cellRow(x[1][1], x[1][2], x[2])]
           g == [x \in K |-> CellUnity * weighted(x)]
<1>1. ASSUME NEW x \in K
      PROVE  /\ E[x] \subseteq U /\ IsFiniteSet(E[x])
             /\ \A t \in E[x] : values(T)[t] \in Int /\ x = <<t.of[1], t.of[2][1]>>
             /\ g[x] = SumFunctionOnSet(values(T), E[x])
  <2>1. PICK c, k, i : /\ c \in SelectedCells /\ k \in DOMAIN CellRule[c]
                       /\ i \in DOMAIN CellSupports[c] /\ CellSupports[c][i] = s
                       /\ x = <<<<c, k>>, i>>
    BY RowIndexIs
  <2>2. /\ c \in Cells /\ weighted(x) = CellRule[c][k].weight * CellRule[c][k].shape[i]
        /\ E[x] = cellRow(c, k, i)
    BY <2>1, CellAssumption DEF weighted
  <2>3. ASSUME NEW t \in cellRow(c, k, i)
        PROVE  /\ t \in T /\ t.row = s /\ t.of[1] = <<c, k>> /\ t.of[2][1] = i
    <3>1. PICK j \in DOMAIN CellSupports[c] : t = massTerm(c, k, i, j)
      BY DEF cellRow
    <3>2. t \in cellTerms(c)
      BY <2>1, <3>1, CellTermsAre
    <3>3. t \in T
      BY <2>1, <3>2 DEF allCellTerms
    <3> QED
      BY <2>1, <3>1, <3>3 DEF massTerm
  <2>4. cellRow(c, k, i) \subseteq T
    BY <2>3
  <2>5. /\ IsFiniteSet(cellRow(c, k, i))
        /\ \A t \in cellRow(c, k, i) : values(T)[t] \in Int
        /\ SumFunctionOnSet(values(T), cellRow(c, k, i)) = CellUnity * weighted(x)
    BY <2>1, <2>2, <2>4, CellRow
  <2>6. \A t \in cellRow(c, k, i) : x = <<t.of[1], t.of[2][1]>>
    BY <2>1, <2>3
  <2> HIDE DEF E, T
  <2> QED
    BY <2>2, <2>3, <2>5, <2>6 DEF T
<1>2. \A x, y \in K : x # y => E[x] \cap E[y] = {}
  <2> HIDE DEF E, K
  <2> QED
    BY <1>1
<1>3. ASSUME NEW t PROVE t \in U <=> \E x \in K : t \in E[x]
  <2>1. ASSUME t \in U PROVE \E x \in K : t \in E[x]
    <3>1. PICK c \in SelectedCells : t \in cellTerms(c)
      BY <2>1 DEF allCellTerms
    <3>2. PICK k \in DOMAIN CellRule[c] :
            \E i, j \in DOMAIN CellSupports[c] : t = massTerm(c, k, i, j)
      BY <3>1, CellTermsAre
    <3>3. PICK i \in DOMAIN CellSupports[c] :
            \E j \in DOMAIN CellSupports[c] : t = massTerm(c, k, i, j)
      BY <3>2
    <3>4. t \in cellRow(c, k, i) /\ t.row = CellSupports[c][i]
      <4>1. t \in cellRow(c, k, i)
        BY <3>3 DEF cellRow
      <4>2. t.row = CellSupports[c][i]
        BY <3>3 DEF massTerm
      <4> QED
        BY <4>1, <4>2
    <3> DEFINE x == <<<<c, k>>, i>>
    <3>5. x \in K
      BY <2>1, <3>4, RowIndexIs
    <3>6. x[1][1] = c /\ x[1][2] = k /\ x[2] = i
      OBVIOUS
    <3> HIDE DEF x, K
    <3> QED
      BY <3>4, <3>5, <3>6
  <2> HIDE DEF E, K
  <2> QED
    BY <1>1, <2>1
<1>4. IsFiniteSet(K) /\ \A x \in K : weighted(x) \in Int
  BY RowIndexFinite
<1>5. SumFunctionOnSet(values(T), U) = SumFunctionOnSet(g, K)
  <2> HIDE DEF T, U, E, g, K
  <2>1. isGrouped(values(T), U, g, K, E)
    BY <1>1, <1>2, <1>3, <1>4 DEF isGrouped
  <2> QED
    BY <2>1, SumGrouped
<1>6. SumFunctionOnSet(g, K) = CellUnity * SumFunctionOnSet(e, K)
  <2>1. CellUnity \in Int /\ \A x \in K : e[x] \in Int /\ g[x] = CellUnity * e[x]
    BY <1>4, UnityAssumption
  <2> HIDE DEF g, e, K
  <2> QED
    BY <1>4, <2>1, SumScaled
<1> QED
  BY <1>5, <1>6

\* The owner of a point of a cell, and its id there.
ownerOf(y) == CellOwner[y[1]]
idOf(y) == CHOOSE id \in DOMAIN range[ownerOf(y)] : getPoint(ownerOf(y), id).of = y

LEMMA IdOfIs ==
  ASSUME ProjectionInv, \A p \in Ranks : returned(p),
         NEW c \in SelectedCells, NEW k \in DOMAIN CellRule[c]
  PROVE  LET y == <<c, k>>
         IN /\ ownerOf(y) \in Ranks /\ c \in cellsOf(ownerOf(y))
            /\ idOf(y) \in DOMAIN range[ownerOf(y)]
            /\ getPoint(ownerOf(y), idOf(y)).of = y
            /\ \A p \in Ranks : \A id \in DOMAIN range[p] :
                 getPoint(p, id).of = y => p = ownerOf(y) /\ id = idOf(y)
<1> DEFINE y == <<c, k>>
           q == ownerOf(y)
<1>1. q = CellOwner[c] /\ q \in Ranks /\ c \in cellsOf(q)
  BY CellAssumption DEF ownerOf, cellsOf
<1>2. \E id \in DOMAIN range[q] : getPoint(q, id).of = y
  <2> HIDE DEF q
  <2>1. returned(q)
    BY <1>1
  <2>2. \A d \in cellsOf(q) : \A l \in DOMAIN CellRule[d] :
          \E id \in DOMAIN range[q] : getPoint(q, id).of = <<d, l>>
    BY <1>1, <2>1, IdOfPoint
  <2> QED
    BY <1>1, <2>2
<1>3. idOf(y) \in DOMAIN range[q] /\ getPoint(q, idOf(y)).of = y
  BY <1>2 DEF idOf
<1>4. ASSUME NEW p \in Ranks, NEW id \in DOMAIN range[p], getPoint(p, id).of = y
      PROVE  p = q /\ id = idOf(y)
  <2>1. PICK d \in cellsOf(p) : \E l \in DOMAIN CellRule[d] :
          getPoint(p, id).of = <<d, l>>
    BY PointOfId
  <2>2. PICK l \in DOMAIN CellRule[d] : getPoint(p, id).of = <<d, l>>
    BY <2>1
  <2>3. c = d
    BY <1>4, <2>2
  <2>4. p = q
    BY <1>1, <2>3 DEF cellsOf
  <2> HIDE DEF y, q
  <2>5. id = idOf(y)
    BY <1>3, <1>4, <2>4, IdOfPoint
  <2> QED
    BY <2>4, <2>5
<1> HIDE DEF q
<1> QED
  BY <1>1, <1>3, <1>4 DEF q

LEMMA PointTermsType ==
  ASSUME SearchInv, ProjectionInv, CoordsTrue,
         \A q \in Ranks : stage[q] \in {"coupling", "ready"}
  PROVE  isTerms(pointTerms, Columns)
<1> DEFINE T == [q \in Ranks |-> couplingTerms(q)]
<1>1. isParted(pointTerms, Ranks, T, Columns)
  BY PointTermsParted
<1> HIDE DEF T
<1>2. /\ IsFiniteSet(Ranks) /\ \A q \in Ranks : isTerms(T[q], Columns)
      /\ pointTerms = UNION {T[q] : q \in Ranks}
  BY <1>1 DEF isParted
<1> QED
  BY <1>2, TermsUnite

LEMMA CouplingRow ==
  ASSUME SearchInv, ProjectionInv, CoordsTrue,
         \A q \in Ranks : stage[q] \in {"coupling", "ready"},
         \A p \in Ranks : \A id \in DOMAIN range[p] :
           domainEntitiesFromRange(p, id) # {},
         NEW s
  PROVE  SumFunctionOnSet(values(pointTerms), {t \in pointTerms : t.row = s})
           = DomainUnity * SumFunctionOnSet([x \in rowIndex(s) |-> weighted(x)], rowIndex(s))
<1> DEFINE K == rowIndex(s)
           T == pointTerms
           U == {t \in pointTerms : t.row = s}
           e == [x \in K |-> weighted(x)]
           E == [x \in K |-> pointRow(ownerOf(x[1]), idOf(x[1]), x[2])]
           g == [x \in K |-> DomainUnity * weighted(x)]
<1>1. \A p \in Ranks : returned(p)
  BY DEF ProjectionInv, SearchEnded
<1>2. ASSUME NEW x \in K
      PROVE  /\ E[x] \subseteq U /\ IsFiniteSet(E[x])
             /\ \A t \in E[x] :
                  /\ values(T)[t] \in Int
                  /\ x = <<getPoint(RangeOwner[t.of[1]], t.of[1]).of, t.of[3][1]>>
             /\ g[x] = SumFunctionOnSet(values(T), E[x])
  <2>1. PICK c, k, i : /\ c \in SelectedCells /\ k \in DOMAIN CellRule[c]
                       /\ i \in DOMAIN CellSupports[c] /\ CellSupports[c][i] = s
                       /\ x = <<<<c, k>>, i>>
    BY RowIndexIs
  <2> DEFINE y == <<c, k>>
             p == ownerOf(y)
             id == idOf(y)
  <2>2. p \in Ranks /\ id \in DOMAIN range[p] /\ getPoint(p, id).of = y
    BY <1>1, <2>1, IdOfIs
  <2>3. /\ E[x] = pointRow(p, id, i) /\ y[1] = c /\ y[2] = k
        /\ weighted(x) = CellRule[c][k].weight * CellRule[c][k].shape[i]
    BY <2>1 DEF weighted
  <2> HIDE DEF y, p, id, E, g, K
  <2>4. supportsOf(getPoint(p, id).of) = CellSupports[c] /\ rule(getPoint(p, id).of) = CellRule[c][k]
    BY <2>2, <2>3 DEF supportsOf, rule
  <2>5. id \in RangeEntities /\ RangeOwner[id] = p
    BY <2>2, OwnerAssumption DEF SearchInv, InputInv, LocalInputs, localEntities
  <2>6. ASSUME NEW t \in pointRow(p, id, i)
        PROVE  t \in T /\ t.row = s /\ t.of[1] = id /\ t.of[3][1] = i
    <3>1. PICK d \in domainEntitiesFromRange(p, id) : t \in pairRow(p, id, d, i)
      BY DEF pointRow
    <3>2. PICK j \in DOMAIN DomainSupports[d] : t = couplingTerm(p, id, d, i, j)
      BY <3>1 DEF pairRow
    <3>3. t \in pairTerms(p, id, d)
      BY <2>1, <2>4, <3>2, PairTermsAre
    <3>4. t \in T
      BY <2>2, <3>3, PointTermsAre
    <3> QED
      BY <2>1, <2>4, <3>2, <3>4 DEF couplingTerm
  <2>7. pointRow(p, id, i) \subseteq T
    BY <2>6
  <2>8. /\ IsFiniteSet(pointRow(p, id, i))
        /\ \A t \in pointRow(p, id, i) : values(T)[t] \in Int
        /\ SumFunctionOnSet(values(T), pointRow(p, id, i)) = DomainUnity * weighted(x)
    <3>1. domainEntitiesFromRange(p, id) # {} /\ i \in DOMAIN supportsOf(getPoint(p, id).of)
      BY <2>1, <2>2, <2>4
    <3>2. weighted(x) = rule(getPoint(p, id).of).weight * rule(getPoint(p, id).of).shape[i]
      BY <2>3, <2>4
    <3> QED
      BY <1>1, <2>2, <2>7, <3>1, <3>2, PointRow
  <2>9. \A t \in pointRow(p, id, i) :
          x = <<getPoint(RangeOwner[t.of[1]], t.of[1]).of, t.of[3][1]>>
    BY <2>1, <2>2, <2>5, <2>6 DEF y
  <2>10. g[x] = DomainUnity * weighted(x)
    BY DEF g
  <2> QED
    BY <2>3, <2>6, <2>8, <2>9, <2>10
<1>3. \A x, y \in K : x # y => E[x] \cap E[y] = {}
  <2> HIDE DEF E, K
  <2> QED
    BY <1>2
<1>4. ASSUME NEW t PROVE t \in U <=> \E x \in K : t \in E[x]
  <2>1. ASSUME t \in U PROVE \E x \in K : t \in E[x]
    <3>1. PICK p, id, d : /\ p \in Ranks /\ id \in DOMAIN range[p]
                          /\ d \in domainEntitiesFromRange(p, id)
                          /\ t \in pairTerms(p, id, d)
      BY <2>1, PointTermsAre
    <3>2. PICK i, j : /\ i \in DOMAIN supportsOf(getPoint(p, id).of)
                      /\ j \in DOMAIN DomainSupports[d]
                      /\ t = couplingTerm(p, id, d, i, j)
      BY <3>1, PairTermsAre
    <3>3. PICK c, k : /\ c \in cellsOf(p) /\ k \in DOMAIN CellRule[c]
                      /\ getPoint(p, id).of = <<c, k>>
      BY <1>1, <3>1, PointOfId
    <3> DEFINE y == <<c, k>>
               x == <<y, i>>
    <3>4. c \in SelectedCells /\ supportsOf(getPoint(p, id).of) = CellSupports[c]
      BY <3>3 DEF cellsOf, supportsOf
    <3>5. p = ownerOf(y) /\ id = idOf(y)
      BY <1>1, <3>1, <3>3, <3>4, IdOfIs
    <3>6. t.row = CellSupports[c][i]
      BY <3>2, <3>4 DEF couplingTerm
    <3>7. x \in K
      BY <2>1, <3>2, <3>3, <3>4, <3>6, RowIndexIs
    <3>8. t \in pointRow(p, id, i)
      BY <3>1, <3>2 DEF pointRow, pairRow
    <3>9. x[1] = y /\ x[2] = i
      OBVIOUS
    <3> HIDE DEF x, y, K
    <3> QED
      BY <3>5, <3>7, <3>8, <3>9
  <2> HIDE DEF E, K
  <2> QED
    BY <1>2, <2>1
<1>5. IsFiniteSet(K) /\ \A x \in K : weighted(x) \in Int
  BY RowIndexFinite
<1>6. SumFunctionOnSet(values(T), U) = SumFunctionOnSet(g, K)
  <2> HIDE DEF T, U, E, g, K
  <2>1. isGrouped(values(T), U, g, K, E)
    BY <1>2, <1>3, <1>4, <1>5 DEF isGrouped
  <2> QED
    BY <2>1, SumGrouped
<1>7. SumFunctionOnSet(g, K) = DomainUnity * SumFunctionOnSet(e, K)
  <2>1. DomainUnity \in Int /\ \A x \in K : e[x] \in Int /\ g[x] = DomainUnity * e[x]
    BY <1>5, UnityAssumption
  <2> HIDE DEF g, e, K
  <2> QED
    BY <1>5, <2>1, SumScaled
<1> QED
  BY <1>6, <1>7

LEMMA ColumnsFinite == IsFiniteSet(Columns)
<1> DEFINE S == [d \in DomainEntities |->
                   {DomainSupports[d][j] : j \in DOMAIN DomainSupports[d]}]
           U == {S[d] : d \in DomainEntities}
<1>1. IsFiniteSet(U)
  <2>1. S = [d \in DomainEntities |-> S[d]]
    OBVIOUS
  <2> HIDE DEF S
  <2> QED
    BY <2>1, EntityAssumption, FiniteValues
<1>2. ASSUME NEW d \in DomainEntities PROVE IsFiniteSet(S[d])
  <2> DEFINE f == DomainSupports[d]
  <2>1. f \in Seq(Columns)
    BY ShapeFunctionAssumption
  <2> HIDE DEF f
  <2>2. DOMAIN f = 1 .. Len(f) /\ Len(f) \in Nat /\ f = [j \in DOMAIN f |-> f[j]]
    BY <2>1
  <2>3. IsFiniteSet(DOMAIN f)
    <3> DEFINE n == Len(f)
    <3>1. n \in Nat /\ DOMAIN f = 1 .. n
      BY <2>2
    <3> HIDE DEF n
    <3>2. IsFiniteSet(1 .. n)
      BY <3>1, FS_Interval
    <3> QED
      BY <3>1, <3>2
  <2>4. IsFiniteSet({f[j] : j \in DOMAIN f})
    BY <2>2, <2>3, FiniteValues
  <2>5. S[d] = {f[j] : j \in DOMAIN f}
    BY DEF f
  <2> QED
    BY <2>4, <2>5
<1>3. Columns = UNION U
  BY DEF Columns
<1> HIDE DEF S
<1>4. \A x \in U : IsFiniteSet(x)
  BY <1>2
<1> HIDE DEF U
<1> QED
  BY <1>1, <1>3, <1>4, FS_UNION

\* Either row is the same sum over the points, times the sum of the shape
\* functions of the cells or that of the domain entities.
LEMMA InvConstantsProjected == MatrixInv => ConstantsProjected
<1> SUFFICES ASSUME MatrixInv, NEW r \in Ranks, stage[r] = "ready",
                    \A p \in Ranks : \A id \in DOMAIN range[p] :
                      domainEntitiesFromRange(p, id) # {},
                    NEW s \in Supports, SupportOwner[s] = r
             PROVE  CellUnity * SumFunction([c \in Columns |-> coupling_matrix[r][<<s, c>>]])
           = DomainUnity * SumFunction([t \in Supports |-> mass_matrix[r][<<s, t>>]])
  BY DEF ConstantsProjected
<1> USE DEF MatrixInv
<1> DEFINE f == [c \in Columns |-> coupling_matrix[r][<<s, c>>]]
           h == [t \in Supports |-> mass_matrix[r][<<s, t>>]]
           K == rowIndex(s)
           e == [x \in K |-> weighted(x)]
           n == SumFunctionOnSet(e, K)
<1>1. /\ \A q \in Ranks : stage[q] \in {"coupling", "ready"}
      /\ DOMAIN coupling_matrix[r] = rowsOf(r) \X Columns
      /\ DOMAIN mass_matrix[r] = rowsOf(r) \X Supports
  BY DEF CouplingFilled, MassFilled, rowsMovedTo, rowsOf
<1>2. SumFunction(f) = DomainUnity * n
  <2>1. isTerms(pointTerms, Columns)
    BY <1>1, PointTermsType
  <2>2. \A c \in Columns : f[c] = summed(pointTerms, Columns)[<<s, c>>]
    <3>1. \A c \in Columns : <<s, c>> \in DOMAIN coupling_matrix[r]
      BY <1>1 DEF rowsOf
    <3> QED
      BY <3>1, InvCouplingIsQuadrature DEF CouplingIsQuadrature, pointTerms
  <2>3. SumFunction(f) = SumFunctionOnSet(f, Columns)
    BY DEF SumFunction
  <2> HIDE DEF f
  <2>4. SumFunctionOnSet(f, Columns) =
          SumFunctionOnSet(values(pointTerms), {u \in pointTerms : u.row = s})
    BY <2>1, <2>2, ColumnsFinite, RowIsSum
  <2>5. SumFunctionOnSet(values(pointTerms), {u \in pointTerms : u.row = s})
          = DomainUnity * n
    BY <1>1, CouplingRow
  <2> QED
    BY <2>3, <2>4, <2>5
<1>3. SumFunction(h) = CellUnity * n
  <2>1. IsFiniteSet(Supports)
    BY CellAssumption
  <2>2. \A t \in Supports : h[t] = summed(allCellTerms, Supports)[<<s, t>>]
    <3>1. \A t \in Supports : <<s, t>> \in DOMAIN mass_matrix[r]
      BY <1>1 DEF rowsOf
    <3> QED
      BY <3>1, InvMassIsQuadrature DEF MassIsQuadrature, allCellTerms
  <2>3. SumFunction(h) = SumFunctionOnSet(h, Supports)
    BY DEF SumFunction
  <2> HIDE DEF h
  <2>4. SumFunctionOnSet(h, Supports) =
          SumFunctionOnSet(values(allCellTerms), {u \in allCellTerms : u.row = s})
    BY <2>1, <2>2, AllCellTermsType, RowIsSum
  <2>5. SumFunctionOnSet(values(allCellTerms), {u \in allCellTerms : u.row = s})
          = CellUnity * n
    BY MassRow
  <2> QED
    BY <2>3, <2>4, <2>5
<1>4. n \in Int /\ CellUnity \in Int /\ DomainUnity \in Int
  <2>1. IsFiniteSet(K) /\ \A x \in K : e[x] \in Int
    BY RowIndexFinite
  <2> HIDE DEF K, e
  <2> QED
    BY <2>1, UnityAssumption, SumTakes
<1> HIDE DEF n, f, h
<1>5. CellUnity * SumFunction(f) = DomainUnity * SumFunction(h)
  BY <1>2, <1>3, <1>4
<1> QED
  BY <1>5 DEF f, h

\* Constant fields are projected: the rows of the matrices add up alike.
THEOREM ConstantsAreProjected == ProjectionSpec => []ConstantsProjected
BY InvConstantsProjected, MatrixInvariant, PTL
=============================================================================
