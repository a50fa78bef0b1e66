---------------------------- MODULE L2Projection ----------------------------
(***************************************************************************)
(* DTK_L2ProjectionOperator on top of ParallelSearch.  setup() assembles   *)
(* the mass matrix of the range mesh and the set of its integration points *)
(* (DTK_IntegrationPointSet), numbers the points over all ranks, searches  *)
(* the domain with them, sends what is known of each point that was found  *)
(* to the ranks that found it, and assembles the coupling matrix there.    *)
(*                                                                         *)
(* Rows of either matrix belong to supports of the range, which may be on  *)
(* other ranks than the cells they are assembled from.  The projection is  *)
(* the inverse of the mass matrix times the coupling matrix; the solver    *)
(* that applies it is not modelled.  Measures, weights and shape functions *)
(* are integers.                                                           *)
(***************************************************************************)
EXTENDS ParallelSearch, Sequences, FiniteSetsExt

CONSTANTS
  EntitySet,       \* the cells of the range mesh a rank has, ghosts included,
                   \* in the order of its iterator
  CellOwner,       \* the rank that owns a cell
  SelectedCells,   \* the cells the range's select function picks
  CellSupports,    \* the supports of a cell
  CellRule,        \* the integration points of a cell: the weight times the
                   \* measure of the cell, the shape functions' values there
  SupportOwner,    \* the rank a support, a row, is local to
  DomainSupports,  \* the supports of a domain entity
  DomainShape,     \* its shape functions' values at a reference coordinate
  CellUnity,       \* what the shape functions of a cell add up to
  DomainUnity      \* what those of a domain entity add up to

Cells    == DOMAIN CellSupports
Supports == DOMAIN SupportOwner
Columns  == UNION {{DomainSupports[d][j] : j \in DOMAIN DomainSupports[d]} :
                     d \in DomainEntities}

\* Faulty variant: ghosts are not told from the rank's own cells.
selected(r, c) == c \in SelectedCells

\* The predicate of the range iterator: selected and local.
range_predicate(r, c) == c \in SelectedCells /\ CellOwner[c] = r

\* Where the iterator stops: from the first valid element to the end, increments
\* skip what the predicate refuses.
range_iterator(r) ==
  {k \in DOMAIN EntitySet[r] : range_predicate(r, EntitySet[r][k])}

\* The two loops over cells and their points: where the cell is, and the number
\* of the point in its rule.
loops(r) ==
  UNION {{<<k, p>> : p \in DOMAIN CellRule[EntitySet[r][k]]} :
           k \in range_iterator(r)}

before(x, y) == x[1] < y[1] \/ (x[1] = y[1] /\ x[2] < y[2])

turn(r, x) == Cardinality({y \in loops(r) : y = x \/ before(y, x)})

\* The points of a rank: cell and number in its rule, in the order of the loops.
points[r \in Ranks] ==
  [i \in 1 .. Cardinality(loops(r)) |->
     LET x == CHOOSE y \in loops(r) : turn(r, y) = i
     IN <<EntitySet[r][x[1]], x[2]>>]

\* createContigMap: the ids of a rank's points follow those of the ranks below.
contigMap(r) ==
  LET ofRanks(S) == SumFunction([c \in {d \in SelectedCells : CellOwner[d] \in S} |->
                                   Len(CellRule[c])])
      below == ofRanks({q \in Ranks : q < r})
  IN below .. below + ofRanks({r}) - 1

ASSUME RankAssumption == Ranks \subseteq Nat /\ IsFiniteSet(Ranks)
ASSUME CellAssumption ==
  /\ EntitySet \in [Ranks -> Seq(Cells)] /\ CellOwner \in [Cells -> Ranks]
  /\ \A c \in Cells, r \in Ranks :
       Cardinality({i \in DOMAIN EntitySet[r] : EntitySet[r][i] = c}) \in
         (IF CellOwner[c] = r THEN {1} ELSE {0, 1})
  /\ SelectedCells \subseteq Cells
  /\ CellSupports \in [Cells -> Seq(Supports)]
  /\ SupportOwner \in [Supports -> Ranks]
  /\ \A c \in Cells : CellRule[c] \in Seq([weight : Int, shape : Seq(Int)])
  /\ IsFiniteSet(Cells) /\ IsFiniteSet(Supports)
ASSUME PointAssumption ==    \* the search's range entities are the points
  \A r \in Ranks : localEntities(RangeOwner, r) = contigMap(r)

\* The reference coordinates at which shape functions of the domain are wanted.
insideCoordinates ==
  {referenceCoordinate(x[1], x[2].centroid) :
     x \in {y \in DomainShapes \X RangeShapes : mapsInto(y[1], y[2].centroid)}}

ASSUME ShapeFunctionAssumption ==  \* one value for each support
  /\ \A c \in Cells : \A p \in DOMAIN CellRule[c] :
       DOMAIN CellRule[c][p].shape = DOMAIN CellSupports[c]
  /\ \A d \in DomainEntities :
       /\ DomainSupports[d] \in Seq(Columns)
       /\ \A at \in insideCoordinates :
            DomainShape[d][at] \in [DOMAIN DomainSupports[d] -> Int]
ASSUME UnityAssumption ==    \* what the values add up to
  /\ CellUnity \in Int /\ DomainUnity \in Int
  /\ \A c \in Cells : \A p \in DOMAIN CellRule[c] :
       SumFunction(CellRule[c][p].shape) = CellUnity
  /\ \A d \in DomainEntities : \A at \in insideCoordinates :
       SumFunction(DomainShape[d][at]) = DomainUnity
ASSUME SplitAssumption ==    \* so that a weight can be divided by any count
  /\ \A c \in Cells : \A p \in DOMAIN CellRule[c] :
       \A n \in 1 .. Cardinality(DomainEntities) :
         CellRule[c][p].weight % n = 0
  /\ MaxSearches = 1

VARIABLES
  stage,              \* where each rank is in setup()
  d_points,           \* the integration points of each rank
  d_start_gid,        \* the id of the first of them
  mass_inserts,       \* the mass matrix entries a rank has inserted
  mass_matrix,        \* the rows of its own supports
  ip_stride,          \* one more than the most supports of a point
  point_sends,        \* exports of points to the ranks that found them
  coupling_inserts,   \* the coupling matrix entries a rank has inserted
  coupling_matrix     \* the rows of its own supports

massVars == <<mass_inserts, mass_matrix>>
couplingVars == <<ip_stride, point_sends, coupling_inserts, coupling_matrix>>
projectionVars == <<stage, d_points, d_start_gid, massVars, couplingVars>>
projectionAll == <<vars, projectionVars>>

goTo(r, step) == stage' = [stage EXCEPT ![r] = step]

passed(r, steps) == \A q \in Ranks : stage[q] \notin steps

\* The matrix whose entries are the sums of the terms T: row, column, value,
\* and whatever tells one term from another.
summed(T, cols) ==
  [x \in Supports \X cols |->
     SumFunction([t \in {u \in T : u.row = x[1] /\ u.col = x[2]} |-> t.value])]

\* fillComplete: the rows of the supports of r, from wherever they were inserted.
rowsMovedTo(r, inserts, cols) ==
  [x \in {s \in Supports : SupportOwner[s] = r} \X cols |->
     SumFunction([q \in Ranks |-> inserts[q][x]])]

ProjectionInit ==
  /\ Init
  /\ stage = [r \in Ranks |-> "new"]
  /\ d_points = [r \in Ranks |-> <<>>]
  /\ d_start_gid = [r \in Ranks |-> 0]
  /\ mass_inserts = [r \in Ranks |-> summed({}, Supports)]
  /\ mass_matrix = [r \in Ranks |-> noEntities]
  /\ ip_stride = [r \in Ranks |-> 0]
  /\ point_sends = [r \in Ranks |-> {}]
  /\ coupling_inserts = [r \in Ranks |-> summed({}, Columns)]
  /\ coupling_matrix = [r \in Ranks |-> noEntities]

-----------------------------------------------------------------------------
(***************************************************************************)
(* assembleMassMatrix(): add the points of the local cells to the set, and *)
(* the products of the shape functions at each of them to the matrix.      *)
(***************************************************************************)
rule(x) == CellRule[x[1]][x[2]]

supportsOf(x) == CellSupports[x[1]]

massTerms(r) ==
  UNION {{[row |-> supportsOf(x)[n[1]], col |-> supportsOf(x)[n[2]], of |-> <<x, n>>,
           value |-> rule(x).weight * rule(x).shape[n[1]] * rule(x).shape[n[2]]] :
            n \in (DOMAIN supportsOf(x)) \X (DOMAIN supportsOf(x))} :
           x \in {points[r][i] : i \in DOMAIN points[r]}}

AssembleMassMatrix(r) ==
  /\ stage[r] = "new"
  /\ \E at \in [DOMAIN points[r] -> {shape.centroid : shape \in RangeShapes}] :
       d_points' = [d_points EXCEPT ![r] =
         [i \in DOMAIN points[r] |-> [of |-> points[r][i], at |-> at[i], gid |-> 0]]]
  /\ mass_inserts' = [mass_inserts EXCEPT ![r] = summed(massTerms(r), Supports)]
  /\ goTo(r, "mass")
  /\ UNCHANGED <<vars, d_start_gid, mass_matrix, couplingVars>>

\* Leave fillComplete, and enter the numbering of the points.
FillMassMatrix(r) ==
  /\ stage[r] = "mass"
  /\ passed(r, {"new"})
  /\ mass_matrix' = [mass_matrix EXCEPT
       ![r] = rowsMovedTo(r, mass_inserts, Supports)]
  /\ goTo(r, "numbers")
  /\ UNCHANGED <<vars, d_points, d_start_gid, mass_inserts, couplingVars>>

\* Faulty variant: each rank counts from 0.
startEverywhere(r) == 0

\* The points of the ranks below, by rank and place.
pointsBelow(r) ==
  UNION {{<<q, i>> : i \in DOMAIN d_points[q]} : q \in {n \in Ranks : n < r}}

\* The first id of the rank's points.
start(r) == Cardinality(pointsBelow(r))

\* finalize(): the ids of the points.
Finalize(r) ==
  /\ stage[r] = "numbers"
  /\ passed(r, {"new", "mass"})
  /\ d_start_gid' = [d_start_gid EXCEPT ![r] = start(r)]
  /\ d_points' = [d_points EXCEPT ![r] =
       [i \in DOMAIN @ |-> [@[i] EXCEPT !.gid = start(r) + i - 1]]]
  /\ goTo(r, "search")
  /\ UNCHANGED <<vars, massVars, couplingVars>>

-----------------------------------------------------------------------------
(***************************************************************************)
(* assembleCouplingMatrix(): search the domain with the points.            *)
(***************************************************************************)
getPoint(r, id) == d_points[r][id - d_start_gid[r] + 1]

\* The set as the range of the search: a point is found by its id.
entityIterator(r) ==
  [id \in {d_points[r][i].gid : i \in DOMAIN d_points[r]} |->
     [box |-> [lo |-> getPoint(r, id).at, hi |-> getPoint(r, id).at],
      centroid |-> getPoint(r, id).at]]

SearchPoints(r) ==
  /\ stage[r] = "search"
  /\ ~ returned(r)
  /\ Step(r)
  /\ pc[r] = "idle" => range'[r] = entityIterator(r)
  /\ UNCHANGED projectionVars

\* Enter the reduction of the greatest number of supports.
EnterReduction(r) ==
  /\ stage[r] = "search"
  /\ returned(r)
  /\ goTo(r, "reduce")
  /\ UNCHANGED <<vars, d_points, d_start_gid, massVars, couplingVars>>

(***************************************************************************)
(* assembleCouplingMatrix(): send a point to the rank of every domain      *)
(* entity it was found in.  Its weight is shared among these; shape values *)
(* and supports are padded to the greatest number any point has.           *)
(***************************************************************************)
\* Faulty variant: the greatest number of the rank's own points.
localMaxSupportSize(r) ==
  Max({0} \cup {Len(supportsOf(d_points[r][i].of)) : i \in DOMAIN d_points[r]})

globalMaxSupportSize(r) == Max({localMaxSupportSize(q) : q \in Ranks})

domainEntitiesFromRange(r, id) ==
  {d \in DomainEntities : <<id, d>> \in d_range_to_domain_map[r]}

\* Faulty variant: every domain entity gets the whole weight.
wholeWeight(r, id) == rule(getPoint(r, id).of).weight

sharedWeight(r, id) ==
  rule(getPoint(r, id).of).weight
    \div Cardinality(domainEntitiesFromRange(r, id))

pointMessage(r, id, d, n) ==
  [ip |-> id, domain |-> d, weight |-> sharedWeight(r, id),
   shape |-> rule(getPoint(r, id).of).shape,
   supports |-> supportsOf(getPoint(r, id).of), to |-> n]

SendPoints(r) ==
  /\ stage[r] = "reduce"
  /\ passed(r, {"new", "mass", "numbers", "search"})
  /\ ip_stride' = [ip_stride EXCEPT ![r] = globalMaxSupportSize(r) + 1]
  /\ point_sends' = [point_sends EXCEPT ![r] =
       {pointMessage(r, x[1], x[2][1], x[2][2]) :
          x \in {y \in (DOMAIN entityIterator(r)) \X d_domain_owner_ranks[r] :
                    y[2][1] \in domainEntitiesFromRange(r, y[1])}}]
  /\ goTo(r, "points")
  /\ UNCHANGED <<vars, d_points, d_start_gid, massVars, coupling_inserts,
                 coupling_matrix>>

(***************************************************************************)
(* assembleCouplingMatrix(): look every pair of a local domain entity and  *)
(* a point in it up among what was imported, and add its products.         *)
(***************************************************************************)
ip_domain_lid_map(r) == [m \in imports(point_sends, r) |-> <<m.ip, m.domain>>]

known(r, id, d) ==
  {m \in imports(point_sends, r) : ip_domain_lid_map(r)[m] = <<id, d>>}

\* What of the padded arrays the rank finds where it expects this message.
read(r, m) == {i \in DOMAIN m.supports : i < ip_stride[r]}

rangeParametricCoordinatesInDomain(r, id, d) ==
  {x[3] : x \in {y \in d_parametric_coords[r] : y[1] = id /\ y[2] = d}}

\* The terms of the point of message m in the domain entity d, at a reference
\* coordinate; faulty variant: the values of the rows before are added.
termsAccumulated(r, d, m, at) ==
  {[row |-> m.supports[n[1]], col |-> DomainSupports[d][n[2]], of |-> <<m.ip, d, n>>,
    value |-> SumFunction([i \in 1 .. n[1] |-> m.weight * m.shape[i]])
                * DomainShape[d][at][n[2]]] :
     n \in read(r, m) \X (DOMAIN DomainSupports[d])}

termsOf(r, d, m, at) ==
  {[row |-> m.supports[n[1]], col |-> DomainSupports[d][n[2]], of |-> <<m.ip, d, n>>,
    value |-> m.weight * m.shape[n[1]] * DomainShape[d][at][n[2]]] :
     n \in read(r, m) \X (DOMAIN DomainSupports[d])}

couplingTerms(r) ==
  UNION {UNION {termsOf(r, x[1], m, at) :
                  m \in known(r, x[2], x[1]),
                  at \in rangeParametricCoordinatesInDomain(r, x[2], x[1])} :
           x \in d_domain_to_range_map[r]}

InsertCouplings(r) ==
  /\ stage[r] = "points"
  /\ passed(r, {"new", "mass", "numbers", "search", "reduce"})
  /\ coupling_inserts' = [coupling_inserts EXCEPT
       ![r] = summed(couplingTerms(r), Columns)]
  /\ goTo(r, "coupling")
  /\ UNCHANGED <<vars, d_points, d_start_gid, massVars, ip_stride, point_sends,
                 coupling_matrix>>

FillCouplingMatrix(r) ==
  /\ stage[r] = "coupling"
  /\ passed(r, {"new", "mass", "numbers", "search", "reduce", "points"})
  /\ coupling_matrix' = [coupling_matrix EXCEPT
       ![r] = rowsMovedTo(r, coupling_inserts, Columns)]
  /\ goTo(r, "ready")
  /\ UNCHANGED <<vars, d_points, d_start_gid, massVars, ip_stride, point_sends,
                 coupling_inserts>>

-----------------------------------------------------------------------------
ProjectionStep(r) ==
  \/ AssembleMassMatrix(r)
  \/ FillMassMatrix(r)
  \/ Finalize(r)
  \/ SearchPoints(r)
  \/ EnterReduction(r)
  \/ SendPoints(r)
  \/ InsertCouplings(r)
  \/ FillCouplingMatrix(r)

ProjectionNext == \E r \in Ranks : ProjectionStep(r)

\* setup() is a collective call of one program on every rank.
ProjectionSpec ==
  /\ ProjectionInit
  /\ [][ProjectionNext]_projectionAll
  /\ \A r \in Ranks : WF_projectionAll(ProjectionStep(r))

-----------------------------------------------------------------------------
(***************************************************************************)
(* Properties.                                                             *)
(***************************************************************************)
isNumbered(r) == stage[r] \notin {"new", "mass", "numbers"}

\* Whatever number of points the other ranks have, a point is the only one with
\* its id, and getPoint() takes a rank to the point of the id it asks for.
PointsFound ==
  \A r, q \in Ranks : isNumbered(r) /\ isNumbered(q) =>
    \A i \in DOMAIN d_points[r], j \in DOMAIN d_points[q] :
      /\ d_points[r][i].gid = d_points[q][j].gid => r = q /\ i = j
      /\ getPoint(r, d_points[r][i].gid) = d_points[r][i]

\* The products of a cell's shape functions at its points.
cellTerms(c) ==
  {[row |-> CellSupports[c][x[2]], col |-> CellSupports[c][x[3]],
    of |-> <<<<c, x[1]>>, <<x[2], x[3]>>>>,
    value |-> CellRule[c][x[1]].weight * CellRule[c][x[1]].shape[x[2]]
                * CellRule[c][x[1]].shape[x[3]]] :
     x \in (DOMAIN CellRule[c]) \X (DOMAIN CellSupports[c])
             \X (DOMAIN CellSupports[c])}

\* The mass matrix is the quadrature over the selected cells: whatever ghosts the
\* ranks hold, each cell counts once, in the rows of the ranks that own them.
MassIsQuadrature ==
  \A r \in Ranks : stage[r] \notin {"new", "mass"} =>
    \A x \in DOMAIN mass_matrix[r] :
      mass_matrix[r][x] =
        summed(UNION {cellTerms(c) : c \in SelectedCells}, Supports)[x]

\* The find() of InsertCouplings is dereferenced without a test: each pair of a
\* local domain entity and a point in it is among what the owners of the points
\* have sent, and once only, and what is read of it is not cut short by the
\* width of the arrays.
PairsKnown ==
  \A r \in Ranks : stage[r] \in {"coupling", "ready"} =>
    \A x \in d_domain_to_range_map[r] :
      \E m \in imports(point_sends, r) :
        known(r, x[2], x[1]) = {m} /\ read(r, m) = DOMAIN m.supports

\* The point id of rank p, and the product of shape functions i and j at it in
\* the domain entity d, by the search of its owner.
quadratureTerms(p, id) ==
  UNION {{[row |-> supportsOf(getPoint(p, id).of)[n[1]],
           col |-> DomainSupports[d][n[2]], of |-> <<id, d, n>>,
           value |-> sharedWeight(p, id) * rule(getPoint(p, id).of).shape[n[1]] *
             DomainShape[d][referenceCoordinate(domain[DomainOwner[d]][d],
                                                getPoint(p, id).at)][n[2]]] :
            n \in (DOMAIN supportsOf(getPoint(p, id).of))
                    \X (DOMAIN DomainSupports[d])} :
           d \in domainEntitiesFromRange(p, id)}

\* The coupling matrix is the quadrature over all points of the range mesh that
\* were found: assembled on the ranks of the domain from what the ranks of the
\* range have sent, and moved to the ranks of the rows, nothing is lost, doubled
\* or attributed to another row, whatever the decompositions.
CouplingIsQuadrature ==
  \A r \in Ranks : stage[r] = "ready" =>
    \A x \in DOMAIN coupling_matrix[r] :
      coupling_matrix[r][x] =
        summed(UNION {UNION {quadratureTerms(p, id) : id \in DOMAIN range[p]} :
                        p \in Ranks}, Columns)[x]

\* If every point was found, the projection keeps constant fields: each row of
\* the coupling matrix adds up to the same as its row of the mass matrix, over
\* the sums of the shape functions.
ConstantsProjected ==
  \A r \in Ranks :
    /\ stage[r] = "ready"
    /\ \A p \in Ranks : \A id \in DOMAIN range[p] :
         domainEntitiesFromRange(p, id) # {}
    => \A s \in Supports : SupportOwner[s] = r =>
         CellUnity * SumFunction([c \in Columns |-> coupling_matrix[r][<<s, c>>]])
           = DomainUnity * SumFunction([t \in Supports |-> mass_matrix[r][<<s, t>>]])

\* Every rank returns from setup().
SetupReturns == <>(\A r \in Ranks : stage[r] = "ready")
=============================================================================
