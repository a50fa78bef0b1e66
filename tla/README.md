# DataTransferKit: models, checks and proofs

DataTransferKit (DTK) moves fields between two meshes or point clouds that are
spread over the processes of one MPI communicator and partitioned independently
of each other. It is an SPMD library: there are no threads; the actors are the
MPI ranks, they run the same calls, and they meet in collectives and in the
exchanges of `Tpetra::Distributor`. What is hard about it is therefore where
data is on the wrong rank: graphs that are kept in two decompositions at once,
messages paired with the wrong record, ranks that have nothing to do but have to
take part, state that survives from one call to the next, and boxes, radii and
tolerances that must never hide a neighbour on another rank.

`DTK_REQUIRE`, `DTK_CHECK` and `DTK_ENSURE` are compiled in only with
`HAVE_DTK_DBC` (`Utils/src/DTK_DBC.hpp`) and are off by default: they are
statements about the program here, never guards of an action.


All paths below are under `src/packages/`.

## 1. Inventory

| Component | State it keeps | Operations | Interacts with | What is hard | What makes it correct |
|---|---|---|---|---|---|
| `CoarseGlobalSearch` (`Operators/src/Search/DTK_CoarseGlobalSearch.*`) | every rank's domain box; an array of missed ids, mutable and never cleared | constructor (box, `gatherAll`), `search`, `getMissedRangeEntityIds` | called by `ParallelSearch`; all ranks exchange | prefilter and selection by boxes with relative tolerances; ranks without entities; the array outlives a search | no rank that holds a containing entity is left out; misses are those of this search |
| `CoarseLocalSearch`, `FineLocalSearch` (same directory; `EntityLocalMap` in `Interface/src/Client`) | a k-d tree of centroids | `search` | called by `ParallelSearch` per imported centroid | k smaller or larger than the local domain; two tolerances | entities that contain the point are among those returned |
| `ParallelSearch` (same directory) | five maps in two decompositions, missed ids | constructor, `search`, six query functions | owns the three above; used by both shared domain operators | four exchanges per search, ranks up to one exchange apart, repeated searches, ranks with nothing to do | both sides hold the same true and complete graph of the present search; every range entity is mapped or reported; everyone returns |
| `ConsistentInterpolationOperator` (`Operators/src/SharedDomain`) | coupling matrix, rows to keep | constructor, `setup`, `apply` | `ParallelSearch`, Tpetra's matrix, the applications' fields | rows are inserted where the domain is and scaled with counts from where the range is; missed data kept | supports known, weights sum to one, means of fields of one and the same call, kept data survives |
| `L2ProjectionOperator` with `IntegrationPointSet` | mass and coupling matrix; points numbered contiguously after `finalize()` | `setup`, `apply`; `addPoint`, `finalize`, lookup | `ParallelSearch` on points in place of entities | numbering by exclusive scan; messages padded to one stride; ghost cells; rows on other ranks than cells; a point in several domain entities | ids unique and invertible; every pair known from one message, read in full; both matrices are the quadrature over the whole mesh; constants kept |
| `MapOperator`, `FieldMultiVector` (`Interface/src/OperatorVector`) | setup flag; a copy of the application's field | `setup`, `apply`; pull, push | base of all operators; `Field` is the application's | order of calls; stale copies of fields | apply only after setup, pulls before and pushes after |
| Point cloud exchange: `CenterDistributor`, `CloudDomain` (`Operators/src/PointCloud`) | a distributor, import and export indices | constructor, `distribute` | the point cloud operators | boxes of ranks without centres; negative coordinates | every source within the radius of a target is on its rank |
| Point cloud pairing: `SplineInterpolationPairing`, `StaticSearchTree` (`Utils/src`) | children and support radius of each parent | constructor, queries | tree per rank | fewer sources than neighbours asked for; empty radius; radius enlarged at most ten times | the children are those a search over the centres of all ranks would find |
| Moving least squares and node to node operators | matrices, pairings, number of cropped targets | `setup`, `apply` with detection and cropping of discontinuities | the exchange and the pairing | empty ranks; the values for the cropping travel in an exchange of their own, after the product; rows shorter than stencils | uniform fields stay uniform; cropping stays within the row, of this call |
| Spline operator: `SplineInterpolationOperator`, coefficient, evaluation, polynomial and prolongation operators | sparse and dense parts, unknowns of the polynomial on rank 0 | `setup`, the operators `C` and `B` inside and after the solver | the exchange (twice) and the pairing (twice) | sums of distributed operators with one communication each; root broadcasts and reductions; positions and ids of the unknowns | `C` and `B` are those of one cloud on one rank |
| `EntityIterator`, predicates, entity sets (`Interface/src/Client`, `Utils/src`) | position, predicate | begin, end, increment, filter | every component iterates with them | filtered begin and end; copies | visits exactly the entities that satisfy the predicate |
| Operator factories | none | create by name | C API, applications | - | - |
| C and Fortran API (`Adapters/C_API`) | a handle that owns a map | create, apply, delete | point cloud operators | life cycle of the handle | a handle is used between create and delete |
| ClassicDTK adapter: `VolumeSourceMap`, `SharedDomainMap`, `CommIndexer` (`Adapters/ClassicDTK/src`) | two communicators and their indexers; target ordinals; source geometry and coordinates per ordinal; importer; missed points | constructor, `setup`, `apply`, `getMissedTargetPoints` | `ParallelSearch`, Tpetra's maps and importer, the clients' field evaluators | ranks that are in one of the two communicators or in none, and null pointers there; numbering of points without ids; a point in several geometries, on one rank and on several; two ways to know what was missed | ordinals unique; one evaluation per point, of this call; missed points are those filled with zero; all ranks know the dimensions |
| Intrepid adapter | - | Newton iteration, projections | `EntityLocalMap` | convergence | bounded loop |
| BasicGeometry, STK, Moab, libMesh adapters | wrapped meshes | entity queries | `EntitySet` | - | - |
| `DTK_DBC`, utilities | - | assertions | all | side effects of checks that are compiled out | - |

The flow of a shared domain transfer: the application wraps its mesh into an
`EntitySet` and its data into a `Field`; `MapOperator::setup` runs
`ParallelSearch::search`, which redistributes range centroids to the ranks whose
domain box they are in, finds the parents there, and sends what it found back;
the operator builds its matrix from both sides of this graph;
`MapOperator::apply` pulls the fields, multiplies, and pushes. The L2 projection
runs the same search with the integration points of the range mesh in place of
its entities. A point cloud operator needs no mesh: `CenterDistributor` sends
source centres to the ranks whose targets they may concern, a tree on each rank
pairs the targets with them, and the operator builds its matrix from the pairs.

`PROJECT.json` lists these components with what is modelled of each, and the
hazards at their lines.

## 2. Modules and how they correspond to the code

```
SearchGeometry            pure operators: boxes, tolerances, nearest neighbours
   ^        ^
   |        +------------ SearchPromise            abstract: a search in one step
   |                         ^ (INSTANCE ... WITH)
ParallelSearch  -------------+                     DTK_ParallelSearch + coarse search
   ^   ^   ^  ^---- MCParallelSearch               instances for TLC
   |   |   ConsistentInterpolation                 setup() and apply() on top of it
   |   |      ^---- MCConsistentInterpolation
   |   L2Projection                                setup() on top of it, with
   |          ^---- MCL2Projection                 DTK_IntegrationPointSet
   VolumeSourceMap                                 setup() and apply() of ClassicDTK's
              ^---- MCVolumeSourceMap              maps, with CommIndexer

PointCloudGeometry        pure operators: boxes, tree queries, pairing
   ^   ^
   |   PointCloudTransfer                          moving least squares, node to node
   |        ^---- MCPointCloudTransfer
   SplineInterpolation                             radial basis functions
            ^---- MCSplineInterpolation

ParallelSearchProofs      (on ParallelSearch)         SumTheorems  (sums over sets)
   ^---- L2ProjectionProofs  --------------------------->  |
   ^---- ConsistentInterpolationProofs  ---------------->  |
   ^---- VolumeSourceMapProofs                             |
PointCloudGeometryProofs  (on PointCloudGeometry)  ----->  |
   ^---- PointCloudProofs           (on PointCloudTransfer)
   ^---- SplineInterpolationProofs  (on SplineInterpolation)
```

**SearchGeometry** states what the geometric queries decide, on one coordinate
axis (an axis-aligned box is a product, every test is a conjunction over the
axes) and in exact arithmetic: coordinates are integers, tolerances are fractions
`TolNum/TolDen`, so that `pointInBox`, `boxesIntersect` and
`isSafeToMapToReferenceFrame` are inequalities between integers. The safeguard
has a tolerance of its own, `SafeTolNum`, as in the code, where the "Point
Inclusion Tolerance" reaches the coarse search and the local map's inclusion
test but not the `1.0e-6` of `EntityLocalMap`. Whether a point maps into an
entity is the application's decision: an entity has a `body`, the points its
local map accepts, which need not fill its box. `nnSearch` is a relation, since
neighbours at the same distance come in any order.

**ParallelSearch** has one variable per member of the C++ object and one per
plan of messages, each a function of the rank. The actions:

| Action | Code | Waits for |
|---|---|---|
| `Construct` | box of the local domain, enter `gatherAll` | nobody |
| `GatherBoxes` | leave `gatherAll` | all ranks entered it |
| `Search` | clear the maps, prefilter, select ranks, note coarse misses, enter the plan of the centroids | nobody |
| `LocalSearch` | import centroids, search, fill the domain side, enter the back-communication | all ranks entered |
| `StoreDomainData` | import, fill the range side, return or enter the missed exchange | all ranks entered |
| `ExchangeMissed` | import missed ids, enter the found exchange | all ranks entered |
| `ExchangeFound` | import found ids, report missed minus found, return | all ranks entered |

What a rank does between two communications touches its own state only and is
one action. `collectives` counts the collective calls a rank has entered; the
n-th of one rank matches the n-th of the others, which is all MPI promises, so
that a rank may be in the next exchange, or in the next search, while another
still reads what it sent in the last one. Multimaps keyed by ids are sets of
pairs, because ids are globally unique; the arrays sent with one plan are one set
of records, and the variants that the mutants use pair them wrongly. Two things
are kept on purpose because they are what the code does: `coarse_missed` is never
cleared, and `d_domain_owner_ranks` is not cleared by `search()`.

**SearchPromise** is what callers may rely on (`DTK_ParallelSearch.hpp:59-73`): a search is a
collective call, `Return` is possible as soon as every rank has called, and the
answer of a rank is a set of pairs of the inputs of this very call - all of them
true, and none missing where the neighbour query returns the whole local domain.
There are no boxes, no exchanges and no second decomposition in it.
`ParallelSearch` implements it under the mapping at its end: a rank has its
answer (`answers`, `mapped`) when it is back in `idle`.

**ConsistentInterpolation** composes the search with the operator. `SetupSearch`
is any step of the search, `SendSupports` the scale factors and the export of
support ids, `InsertRows` the matrix rows of the domain ranks, `FillComplete`
their move to the owners and the marking of kept rows, `BeginApply` the pull and
the posting of the domain field, `FinishApply` the product and the push. There is
no barrier in `apply()`: a rank needs only the ranks its rows read from, may run
calls ahead, and the messages of one sender arrive in order (`X` is the sequence
of the fields a rank has posted). Each rank calls `setup()` once. A domain entity
has one degree of freedom and a constant shape function
(`EntityCenteredShapeFunction`), the range entities one support each, on
their own rank; field values are divisible by every possible count, so that means
are integers; `alpha = 1`, `beta = 0`.

**L2Projection** composes the search with `setup()` of the L2 projection.

| Action | Code | Waits for |
|---|---|---|
| `AssembleMassMatrix` | loop over the local selected cells: add their points, insert the products | nobody |
| `FillMassMatrix` | leave `fillComplete` | all have inserted |
| `Finalize` | number the points (`createContigMap` is a scan over the ranks) | all are there |
| `SearchPoints` | any step of the search, with the points as range | as the search |
| `EnterReduction` | return from the search, enter the greatest number of supports | nobody |
| `SendPoints` | leave the reduction, pad, export each point to the ranks of the domain entities it is in | all have entered |
| `InsertCouplings` | import, look up each pair, insert the products | all have sent |
| `FillCouplingMatrix` | leave `fillComplete` | all have inserted |

The model does not assume what the program computes: a rank's cells come from its
entity set, ghosts included, through the predicate and the loops, and the
message is taken apart with the stride the sender had. The specification is
given only that the ids the search is run with are those of a contiguous
numbering (`PointAssumption`), which is a statement about the constants; that the
points the ranks build do get these ids is what is checked. Weights are divisible
by any number of domain entities, so that shares are integers.

**VolumeSourceMap** composes the search with `setup()` and `apply()` of a map of the
ClassicDTK adapter. Source and target have communicators of their own, given as
sequences of ranks; a rank outside of one has null pointers for that side. The
target points have no ids: `<<r, n>>` is point `n` of rank `r` in the constants
and in the search, and its ordinal in everything `setup()` builds, so that the
model does not depend on ordinals being what `OrdinalsUnique` says they are.

| Action | Code | Waits for |
|---|---|---|
| `BeginSetup` | existence of both sides; enter the gather of the source indexer | nobody |
| `IndexSource`, `IndexTarget` | leave the gather of one indexer, enter the next collective | all ranks entered it |
| `NumberPoints` | leave the reduction of the sizes, compute the ordinals | all ranks entered it |
| `IterateSource` | the iterator of a mesh that is not there (`SharedDomainMap` only) | nobody |
| `SearchPoints` | any step of the search | as the search |
| `BuildMapping` | pairs, sort and unique, geometries and coordinates by ordinal | nobody |
| `BuildImporter` | Tpetra maps and importer; missed points | all ranks have mapped |
| `Evaluate` | one more call: evaluate the source field, enter the broadcast | nobody |
| `ReceiveSourceDim`, `ReceiveTargetDim` | the two broadcasts; fill the target with zeros | the root of each |
| `ImportValues` | `doImport` and the copy to the target | the ranks its importer names |

A value is the record of what was evaluated: the geometry, the coordinates and
the number of the call. Which pair of a point `std::unique` keeps is a choice,
since `std::sort` is not stable; so is the rank the importer takes an ordinal from
that several ranks have. `SharedDomainMap` is the same program with a mesh as
source (`source_is_mesh`).

**PointCloudGeometry** has the geometry of the point clouds on one axis
(`DIM = 1`), with integer coordinates; boxes are in thousandths and radii in
tenths, so that the factors of the code (0.1, 1.01, 1.5, 5.1) are exact. Two
edges are kept because they are the code's: the greatest coordinate of a box
starts at the smallest positive double, here 0 (`localCloudDomain`), and the
boundary of a radius is outside (`within`). Queries are sets of possible
answers, since neighbours at one distance come in any order.

**PointCloudTransfer** is the moving least squares operator with its three kinds
of search, and the node to node operator, which has the same steps with the
nearest source as the only child.

| Action | Code | Waits for |
|---|---|---|
| `GatherDomain` | box of the local targets, grown by their proximity; enter the gather | nobody |
| `SendCenters` | neighbour ranks, exports; enter `createFromSends` | all have gathered |
| `ReceiveCenters` | import the centres | all have sent |
| `PairCenter` | one parent: search, local problem, row; the support ids have arrived | the senders of its sources |
| `Abort` | reads of empty arrays: no source in the radius, no centre, no target | same |
| `EnterFillComplete`, `FillComplete` | all rows inserted; `fillComplete` | all have inserted |
| `BeginApply` | pull, post the field | nobody |
| `FinishProduct` | import, multiply | the ranks its rows read from |
| `ResolveDiscontinuities` | import the values of all its sources, crop, count | the ranks of its sources |

Undefined behaviour is a choice: a parent without children makes `front()` read
an empty array, and a rank without targets dereferences the greatest element of
an empty range; `Abort` may happen where the first reads and may or may not be
noticed for the second. The least squares problem is abstracted to what holds of
any polynomial reconstruction: it reproduces constants, and otherwise gives any
of `Reconstructions`.

**SplineInterpolation** has two such distributions and pairings (`round`), the
sparse matrices, the dense polynomial part, and the two operators as the solver
applies them: `BeginOperator` takes a vector of the solver's choice,
`Polynomial` receives the root's broadcast and multiplies, `AddBasis` adds the
sparse product, `Contribute` and `Reduce` are the transposed polynomial with its
reduction at the root. A rank other than the root waits for the root only, or
for those its rows read from, and may be operators ahead. `Basis` is any function
of the support radius and a distance that vanishes outside of the radius.

Definitions named *Faulty variant* in comments are never used by the models: each
is the form a plausible bug would give the definition below it, and the mutants in
`PROJECT.json` put it in its place to show that a property would notice.

## 3. Runs

| Run | Question | Bounds |
|---|---|---|
| `search_tracked` | Is the graph of one tracked search true and complete, and every range entity found or missed? | 2 ranks with 2 + 1 domain and 2 + 1 range entities, each present or not, 3 domain shapes, 4 range shapes, kNN 2 |
| `search_repeated` | Do owners, both sides of the graph and the missed ids stay right over interleaved searches, does every rank return, and do the callers see the search of `SearchPromise`? | 3 ranks with 1 domain entity or none, 2 searches, misses tracked or not, kNN 1 |
| `search_empty_domain` | Does the assertion that missed and found add up hold when a rank has no domain entity? It does not. | 2 ranks, 1 search |
| `search_stale_missed` | Are the missed ids those of the last search, as the headers say? They are not. | 2 ranks, 2 searches |
| `interpolation_setup` | Are the supports known where the rows are inserted, are the rows those the scaling counts, does every rank return? | 2 ranks, 2 + 1 domain entities, supports numbered differently from entities, 1 application |
| `interpolation_apply` | Does a range rank receive the mean of the fields of the same call, and does missed data survive? | same ranks, 2 applications, 2 field values, data kept or not |
| `l2_setup` | Are both matrices the quadrature over the whole mesh, is every pair known where it is looked up, are constants kept, does every rank return? | 2 ranks, 2 selected cells and 1 that is not, 3 points, each at 3 places, 3 domain entities in 2 positions, kNN 2 |
| `cloud_transfer` | Does every source within reach arrive, are stencils those of one cloud on one rank and without repetitions, where does `setup()` have to succeed, for each kind of search, do uniform fields stay uniform, what does cropping give, does every call return? | 2 ranks, 4 sources in 6 clouds, 2 targets at 3 places, 4 x 2 decompositions, all 4 searches; `apply()` at most twice, for 2 more clouds, up to 3 field values |
| `cloud_nearest` | Are the nearest neighbours found in parallel, as a comment says? They are not. | 2 ranks, 1 cloud in 1 decomposition |
| `cloud_cropping` | Are cropped values bounded by the stencil, as the header says? Not where it is negative. | 1 cloud, 1 call, 2 negative field values |
| `spline_operators` | Are the distributed `C` and `B` those of one cloud on one rank, and does every rank return? | 2 ranks, 3 sources, 2 targets, all decompositions for setup; `C` once or twice, then `B` |
| `map_setup_apply` | Are ordinals unique, does a point get one evaluation, of this call and in a geometry it lies in, are the missed points those filled with zero, does every rank know the dimensions of its call, does every call return? | 2 ranks, source and target on 2 communicators each, that leave out rank 0 or are not in its order, 2 + 1 geometries that overlap, up to 2 points per rank, 2 calls with fields of different dimension, both kinds of map |

Why the bounds are enough for the cases that matter. Two ranks give every
relation between a rank of the range and a rank of the domain (the same or
another), three add a rank that is a bystander of an exchange of the other two.
Two searches or applications show what survives a call. The shapes contain a
full entity, one whose box holds points that do not map into it, a point entity,
entities that overlap within a rank and across ranks, points inside, in the
tolerance only, and outside of everything. With kNN at least the local number of
entities completeness is expected, and with fewer it is not claimed
(`search_repeated` has one entity per rank, so that kNN = 1 is complete there).
The tolerance is 1/2 in place of 1e-6 to make "in the tolerance" a place on the
integer axis; nothing depends on it being small, except that with
`SafeTolNum > TolNum` a centroid the safeguard would accept need not be sent,
which `SearchComplete` states by its conjunct on the box.

The point clouds have centres on both sides of the origin, so that the edge of
`localCloudDomain` at zero matters, coinciding centres, equal distances, ranks
without sources or without targets, and targets out of reach of everything. The
tables of the code are scaled down with the clouds: a search is content with 2
centres in place of 3 (`MIN_PTS`), rings start from 2 in place of 3
(`SMALL_KNN`), a row uses at most 3 in place of 9 (`PREFERRED_ROWS`) and a radius
is tried 3 times in place of 10; each of the four limits is met in the instance
from both sides, and all are constants of the module. The cells of `l2_setup` have different
numbers of supports and of points, so that the stride of one rank is not that of
the other by chance. Spline searches by number take part in `setup()` and in
`OperatorsReturn` only: with them the radius depends on the decomposition, so
that there is no one matrix to compare with.

The points of `map_setup_apply` are away from the origin, because a point there may
be lost to the search if a rank has no source geometry (see the first finding);
`MissedPointsAreZero` is proved without a bound on coordinates where each rank has
one. A rank is the only source, the only target, both or neither. With two ranks
an importer never chooses between two other ranks; that it may is covered by
`PointsAreEvaluatedOnce`, which is proved for any number of ranks.

Deadlock is not checked (`CHECK_DEADLOCK FALSE`) because every rank stops for
good after `MaxSearches` searches, after its last application or operator, or
when `setup()` has failed; that nobody stops earlier is what `SearchesReturn`,
`TransfersReturn`, `SetupReturns`, `CallsReturn`, `OperatorsReturn` and `MapReturns`
say.

**Fairness.** The six liveness properties assume weak fairness of each rank's next
step. The code justifies it: construction, `search`, `setup` and `apply` are
collective calls that a program makes on every rank, a rank never waits except
in a collective or for a message, local computation ends, and MPI delivers. No
fairness is assumed between the choices of a step, and none of safety's results
uses it.

## 4. Proofs

Everything here holds for every number of ranks, entities, shapes and searches,
any partition and any tolerances, from the assumptions named in the modules:
coordinates are integers, the tolerance has a positive denominator, k is
positive, entity sets are finite, each entity is owned by one rank, boxes are
ordered and a range entity's centroid is in its box; for the operators also that supports are numbered
one to one, that an operator searches once, that entity sets are sequences of
cells, for the clouds, that there are finitely many centres at integer
coordinates, and, for ClassicDTK's maps, that ranks are the numbers from 0 and
communicators sequences of different ranks. Results with further hypotheses name them in their statement.

* `ParallelSearchProofs`: `TypeCorrect`, and `RanksInLockStep`: the number of
  collectives a rank has entered follows from its `pc`, its searches and the
  tracking parameter (`CallCount`), and no two ranks are more than one apart
  (`LockStep`). Everything else about who may be where follows from these two.
  Of the geometry, the prefilter on boxes drops no rank the selection of a
  point would choose (`PrefilterComplete`), and a covering box with its own
  relative tolerance accepts what the covered box accepts (`PointInCover`); then
  `SearchInvariant`. `SearchSound`, `GraphAgreement` and
  `SearchComplete` are not inductive: they relate the maps of ranks that are in
  different exchanges, and say nothing of what is in flight. The strengthening
  names each hand-over: what search() exports is the present range
  (`RangeSends`) over boxes that cover the domain (`BoxesCover`), the maps are
  empty until filled (`Cleared`), what a rank sends back is true, and complete,
  of the search its addressee is in, as long as that is the one the sender last
  did its local part of (`DomainSends`), and the two sides are what was sent and
  what was received (`DomainSide`, `RangeSide`). `localSearches` - the search a
  rank last did its local part of - is what makes these comparable across
  ranks that are one exchange apart. From it: `OwnersAreCorrect`,
  `SearchIsSound`, `SidesAgree`, `SearchIsComplete`.

  Of the answers, `MissedAreNotMapped`: a hit is always reported as found
  to the owner of the range entity, so a mapped entity is never left in the
  difference. `AllAreAccountedFor` is the assertion at the end of `search()`,
  under the two conditions the findings show it needs: every rank has a domain
  entity, and the object searches once. Each range entity is a coarse miss or
  was sent to a rank (`CoarseAccounts`), such a rank has domain entities and
  answers found or missed for it (`Reported`), and the two sets of ids a rank
  ends with partition its range entities, so that their cardinalities add up.
  `SearchKeepsPromise` is that the specification implies
  `SearchPromise`: the initial states map to initial states, the constructor and
  the entry of search() are the abstract steps of these names, the step in which
  a rank returns is `Return`, and all the others stutter. The answer is right
  because a rank that is back is at most one collective behind anyone, so every
  other rank has done the local part of exactly this search.
* `ConsistentInterpolationProofs`: `SetupInvariant` on top of the invariant of the
  search, then `SupportsAreKnown` and `RowsAreNormalised`. The domain ranks
  insert rows from one side of the graph and the scale factors come from the
  other; that they agree is `GraphAgreement`, carried through the exchange of
  supports and the move of the rows. `MissedDataIsKept`: if moreover every rank
  has a domain entity and supports have the ids of entities, an entity found
  nowhere holds the application's data after any number of calls. It is missed
  because it is accounted for, its row is marked because it is missed, and empty
  because it is mapped by nobody; and no call between puts anything else there.
  `MeansAreTransferred`: the row of a found entity reads from the owners of the
  entities it was found in, each of which has posted the field of that very call
  (`X` is never rewritten); the product is a sum over the columns of the row
  divided by their number, and a sum of values that the count divides is divided
  term by term (`SumOfMultiples`). Where data is kept, supports have to be
  numbered like entities: `apply()` overwrites the rows of the missed ids
  (`DTK_ConsistentInterpolationOperator.cpp:284`), which else may be those of
  entities that were found. `OperatorTypesHold` is the type invariant.
* `SumTheorems`: what the matrices and fields are made of, sums over finite sets.
  The community modules define them by a fold, that is by the choice of a
  recursive function over the subsets of a set. The induction theorems of the
  library cannot be instantiated here, so the module has its own, first-order
  and over the subsets of a finite set, from their well-founded order
  (`SubsetInduction`); with it the recursion has a solution and only one
  (`IterationExists`, `IterationUnique`). The recursion takes out the
  element the fold begins with (`SumRecursion`); `SumTakes` takes out any, and what the operators
  need follows: sums over disjoint unions (`SumGrouped`), over renamed sets
  (`SumRenamed`), of multiples, and with the terms that are zero left out.
* `L2ProjectionProofs`: `PointsAreFound`: for any numbers of points, the first id
  of a rank is the number of points below it, the points of a rank and those
  below it are disjoint parts of those below the next one, and once all ranks
  have their points nothing moves these numbers (`Numbered`). `PairsAreKnown`:
  the owner of a point sends it wherever its side of the graph says
  (`PointsSent`), the graph is the same on the other side, only one rank has a
  point of that id, and the stride is the maximum over all ranks, hence above
  the number of supports of any point.

  For the matrices, the terms of an entry
  carry what they come from, so that those of two cells, or of two pairs of a
  point and a domain entity, are apart, and a sum over all of them is the sum
  over ranks of what each has inserted (`isParted`, `MatricesAddUp`).
  `MassOfCells`: the loops of a rank visit each selected cell it owns once, at
  one place of its entity set (`CellsPlace`), and a point's turn gives it back
  (`PointOfTurn`); what a rank has inserted stays what its cells give
  (`MassFilled`) until it has left `fillComplete`, where the rows of all ranks
  are added. `CouplingOfPoints`: the domain ranks insert the terms of the pairs
  they know from messages, and the quadrature is over the points of the range
  ranks; that these are the same terms is the agreement of both sides of the
  graph, that a message is that of its point (`PairsAreKnown`), and that its
  coordinates are where the point is in the entity (`CoordsTrue`).
  `ConstantsAreProjected`: in a row of either matrix the terms of one point add
  up to its weight times its shape function times what the other shape functions
  add up to (`CellRow`, `PointRow`); as many shares as domain entities hold a
  point make up its weight, because a weight can be divided by their number, so
  that the two rows are the same sum with different factors. It rests on
  `UnityAssumption`, that shape functions add up to one number everywhere, which
  is a property of the shape functions the application provides; and the last two
  on `ShapeFunctionAssumption`, that there is one value for each support:
  `evaluateValue` fills the array that the loops index together with the
  array of the support ids (`DTK_L2ProjectionOperator.cpp:291`).
* `VolumeSourceMapProofs`: `PointsHaveUniqueOrdinals`: a rank's ordinals lie in its
  own part of the numbers, because no rank has more points than the greatest
  size, and no size changes once a rank has passed the reduction
  (`PhasesInOrder`, `Numbered`). `RanksKnowDimensions`: every rank has the same
  indexers, and process 0 of a communicator is in it. `PointsAreEvaluatedOnce`:
  when a rank has its importer the mappings of all ranks are settled (`Mapping`,
  `Imports`), the ordinal of a point leads back to it, both sides of the graph
  agree on where it was found, the coordinates are those of the one search
  (`CoordsTrue`), and the ranks it imports from have posted this call
  (`Posted`). `MissedPointsAreZero`, if every rank has a source geometry: a point
  is missed because it is accounted for and found by nobody, and zero because no
  rank has its ordinal. `MapTypesHold` is the type invariant.
* `PointCloudGeometryProofs`: what a search finds. A radius that has been enlarged
  is a multiple of the first by a power of 3 over one of 2, `powersOf3` and
  `powersOf2`; both functions satisfy their recursion (`PowersRecursion`), so that
  no radius tried is smaller than the first (`PowersGrow`), and only one is the
  last (`LastTriedUnique`). `PairingOnRank`: let a rank have all the centres S of
  one answer the search among all centres may give. A radius search tries the
  same radii on the rank and finds S (`RadiusOnRank`). Nearest centres are found
  up to ties: what the rank finds is as near as S, in numbers and in distances
  (`NearestOnRank`). A ring is 5.1 times the farthest of the nearest
  centres and so holds these; they are therefore on the rank, and although ties
  may give others there, these are as far, so that the ring is the same
  (`RingOnRank`). A ring of size zero stops at
  the centres at the target's own place, which have to be on the rank.
  `ChildrenAreFound`: the array of children holds what was found, each once
  unless fewer centres have arrived than a search by number asks for.
* `PointCloudProofs`: `NoSourceIsLost`: a rank's box, grown by 101 % of the
  proximity, holds whatever is in reach of the rank, that is between its targets
  or no farther from the outermost ones than their proximity, for any kind of
  search (`DomainsCover`); intersecting boxes first drops nothing; what
  lies in a box is sent, to all the ranks that want it (`SendsOK`), and has arrived
  when the rank goes on (`SourcesOK`), since no rank passes an exchange before the
  others have entered it. `StencilsAreGlobal`: the children of a target are an
  answer of the search on its rank, and stay so (`ChildrenOK`); then
  `PairingOnRank`. `ChildrenCountOnce`: what is in reach has arrived, and if that
  is as many as a search by number asks for, the search fills the array.
  `CoveredCloudsAreSetUp` goes by the kind of search (`CoveredTarget`): a centre
  inside the radius is found at the first radius; a search by number finds any
  that is in reach; and a ring does not shrink to a point, since the centres at
  the place of the target are fewer than the ring asks for and not all that have
  arrived, so that it holds the centres it was sized by.
  `TransferTypesCorrect` is the type invariant. For
  `UniformFieldsStay` and `CroppingStaysInRow` the invariant says that the row
  of a target has the children its pairing says are used, and that the ranks a
  product or a cropping reads from have posted the field of that very call, and
  never take it back.

* `SplineInterpolationProofs`: `SplineSetupInvariant` is about the two
  distributions of `setup()`. A rank is in one stage of one round, so that the
  ranks past a point of a round are a set of their own (`haveLeft`), and with
  these the invariant has the parts that of the point clouds has:
  `RanksInOrder`, `BoxesHold`, `SendsOK`, `SourcesOK`, `PairsOK`. `SplineInvariant`
  adds what `apply()` keeps on each rank. Ranks may be operators apart, which is
  why it speaks of the n-th vector and never of the present one: a rank has
  contributed its parts of the moments of each `C` it has come past, in order
  (`PartsOK`); its result is affine after the broadcast of the root and afterwards
  the sum over all sources that count for it (`ResultOK`), whose owners have by
  then posted that very vector; vectors are only appended to, so that a result
  stays right when others go on (`RowStays`); a moment of the root has the parts of
  all ranks (`MomentsOK`). Then the sparse row over the children, a sum over
  columns by position, is that over all sources, because a basis vanishes outside
  of its radius (`StencilSum`, `HeardSum`, `WholeRow`), and the parts of the ranks
  add up to the moment of all sources by `SumGrouped`, each source being the
  unknown of one rank only (`SumOfUnknowns`, `MomentSum`): `CoefficientsGlobal` and
  `EvaluationGlobal`. They rest on `BasisAssumption`, that the bases have compact
  support (Wendland, Wu, Buhmann: all that the operator can be created with), and
  on unknowns being integers (`UnknownsAssumption`), since sums are exact here.

Every safety property of the passing runs, and the refinement, is proved. Only
model-checked: the violations, and liveness (`SearchesReturn`, `TransfersReturn`,
`SetupReturns`, `CallsReturn`, `OperatorsReturn`, `MapReturns`), since the prover
does not handle fairness and ENABLED.

## 5. Findings

* A rank without domain entities reports the degenerate box at the origin
  (`DTK_CoarseGlobalSearch.cpp:227`), is sent the centroids that lie there, and
  then skips its local search (`DTK_ParallelSearch.cpp:131`). Such a range entity
  is neither found nor missed, against the assertion of
  `DTK_ParallelSearch.cpp:276` (run `search_empty_domain`). It follows from the
  models of the callers that "Keep Missed Range Data" does not keep the data of
  that entity (`apply()` writes zero), and that `getMissedTargetPoints()` of a
  ClassicDTK map, documented to return the points "that were not mapped"
  (`DTK_VolumeSourceMap_def.hpp:431`), leaves out such a point when its source is
  on some of the ranks only. The bounds of the runs of these two avoid the case.
* Coarse misses accumulate in an array that no search clears
  (`DTK_CoarseGlobalSearch.cpp:163`), so a second search of one object reports
  the misses of the first, against both headers (run `search_stale_missed`).
  The operators of DTK build a new search in every setup and are not affected.
* Without a run of its own: a null mesh is documented as a valid source of
  `SharedDomainMap::setup()` (`DTK_SharedDomainMap_def.hpp:96-99`), but the
  iterator it takes of the entity set reads the first block of the mesh before it
  looks whether there is one (`DTK_ClassicMeshEntitySet_impl.hpp:72`). This is the
  action `IterateSource`, which ends in `"undefined"`; `MapReturns` is stated for
  the maps whose source can be iterated on every rank.
* For a search by number of neighbours the box of a rank's targets grows by a
  tenth of its own extent, which says nothing of how far the neighbours are.
  Targets at the end of a rank's cloud then use farther centres of their own rank
  in the place of the nearest ones just outside of the box, which stay on another
  rank, although a comment says the growth is there "to ensure we find all of
  our neighbors in parallel" (`DTK_MovingLeastSquareReconstructionOperator_impl.hpp:206`;
  run `cloud_nearest`).
* The greatest value of a stencil is searched from `numeric_limits<double>::min()`,
  the smallest positive double (`DTK_MovingLeastSquareReconstructionOperator_impl.hpp:526`),
  so that among negative values a target is cropped to zero, or not cropped at
  all, against "to ensure the values are bounded locally in the stencil"
  (`DTK_MovingLeastSquareReconstructionOperator.hpp:171`; run `cloud_cropping`).
  The same start in the box of a cloud (`DTK_CenterDistributor_impl.hpp:188`) only
  makes the box larger.

## 6. Plan

Done:

1. The distributed search, `SearchPromise` and the refinement, with their proofs.
2. Consistent interpolation for one column, and that missed data is kept.
3. The point cloud exchange, pairing, moving least squares with its cropping, and
   node to node; the proofs about the exchange, the stencils, where `setup()`
   succeeds, uniform fields and cropping.
4. The integration points and the setup of the L2 projection, with the local
   predicate and the filtered iteration; the proofs about ids and messages, the
   matrices and constants.
5. Spline interpolation: setup and the two operators, and their proofs.
6. `AllAccountedFor` under the conditions it needs.
7. ClassicDTK's maps with the communicator indexer, and their proofs.

Left, in this order:

1. `MapOperator` as a life cycle: `apply` before `setup`, repeated setup over a
   changed mesh, several columns, transposed products.
2. The handle of the C API; the loop of `NewtonSolver`; a second `setup()` of a
   ClassicDTK map.
3. That with `SafeTolNum <= TolNum` everything the fine search accepts is found.

## 7. Not modelled, and why

* Floating point: tests are modelled exactly, so rounding at the face of a box or
  at a radius is outside. Geometry has one axis; an axis-aligned box is a
  product, but a ball is not, so that for point clouds one axis shows a ball
  within its box and not what is in the corners, which is sent for nothing.
* Numerics: CG and GMRES (they apply the modelled operators to vectors of their
  choice), the algebra of the least squares problem, the formulas of radial
  bases, the projections of the Intrepid adapter. The control in these is a
  loop with a tolerance.
* Vendored code: nanoflann, by its answers only.
* Mesh back-ends (STK, Moab, libMesh, BasicGeometry), factories, the bindings of
  C and Fortran: wrappers and tables without state of their own; ClassicDTK's
  containers likewise. These, with examples, tests and data, are most of the
  lines of the repository, so that the lines the map names are a small share of
  them although the protocols are nearly all there.
* In what is modelled: absent function spaces (null pointers), several columns,
  several degrees of freedom per domain entity in the interpolation, the
  transposed apply of the matrices, repeated `setup()` of one operator. For a
  centre, index, support id and slot are one name, as the code assumes of the
  order of the entity iterator
  (`DTK_MovingLeastSquareReconstructionOperator_impl.hpp:414`).
* Tpetra and MPI are external: a plan's creation is a collective, delivery is
  reliable, and messages of one sender do not overtake each other. Parameter
  lists are equal on all ranks, as the collectives require. Crashes of ranks are
  not modelled: an MPI program does not survive them, and nothing is persisted.
