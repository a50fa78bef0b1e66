------------------------- MODULE PointCloudGeometry -------------------------
(***************************************************************************)
(* The geometry of the point cloud operators: the boxes by which source    *)
(* centres are distributed (DTK_CloudDomain, DTK_CenterDistributor), the   *)
(* queries of the search tree (DTK_StaticSearchTree), the pairing of a     *)
(* target with its sources (DTK_SplineInterpolationPairing) and the choice *)
(* of the sources a local problem uses (DTK_LocalMLSProblem).              *)
(*                                                                         *)
(* One coordinate axis is modelled (DIM = 1) and coordinates are integers. *)
(* Boxes are in thousandths and radii in tenths of the unit, in which the  *)
(* factors of the code (0.1, 1.01, 5.1, 1.5) are exact.  A cloud is a      *)
(* function from centre ids to coordinates.                                *)
(***************************************************************************)
EXTENDS Integers, FiniteSets, Sequences

CONSTANTS
  Radius,         \* "RBF Radius"
  NumNeighbors,   \* "Num Neighbors"
  MinPoints,      \* centres a radius search is content with (MIN_PTS: 3)
  RingPoints,     \* centres of the first search for a ring (SMALL_KNN: 3)
  Guard,          \* how often a radius search is tried (10)
  RowChoice       \* most centres a local problem uses (PREFERRED_ROWS: 9)

ASSUME CloudAssumption ==
  /\ Radius \in Nat
  /\ NumNeighbors \in Nat \ {0} /\ MinPoints \in Nat \ {0}
  /\ RingPoints \in Nat \ {0} /\ Guard \in Nat \ {0}
  /\ RowChoice \in Nat \ {0}

\* How an operator looks for the sources of a target: splines by radius or by
\* number, moving least squares also by a ring of a multiple of the local
\* spacing ("Use QRCP Impl"); the node-to-node operator by the nearest alone.
Searches == {"radius", "knn", "ring", "node"}

\* Faulty variant: the sign of the difference is kept.
signedDistance(p, q) == p - q

distance(p, q) == IF p < q THEN q - p ELSE p - q

-----------------------------------------------------------------------------
(***************************************************************************)
(* Boxes.                                                                  *)
(***************************************************************************)
Box == [lo : Int, hi : Int]

\* b bounds the coordinates S.  The greatest coordinate starts at the smallest
\* positive double, here 0, not at the least one; without centres the box is
\* the origin.
localCloudDomain(S, b) ==
  /\ b.lo \in (IF S = {} THEN {0} ELSE S)
  /\ b.hi \in S \cup {0}
  /\ b.hi >= 0
  /\ \A x \in S : b.lo <= x /\ x <= b.hi

\* The extent of the coordinates S, if there are any.
extents(S) ==
  {x[2] - x[1] : x \in {y \in S \X S : \A p \in S : y[1] <= p /\ p <= y[2]}}

\* The box grown by a hundred and one percent of the radius.
expand(b, radius) ==
  [lo |-> 1000 * b.lo - 101 * radius, hi |-> 1000 * b.hi + 101 * radius]

pointInDomain(p, b) == b.lo <= 1000 * p /\ 1000 * p <= b.hi

\* Faulty variant: a box inside the other does not intersect it.
checkForCrossing(a, b) ==
  \/ b.lo <= 1000 * a.lo /\ 1000 * a.lo <= b.hi
  \/ b.lo <= 1000 * a.hi /\ 1000 * a.hi <= b.hi

\* a is a box as built, b one that was expanded.
checkForIntersection(a, b) == ~ (1000 * a.lo > b.hi \/ 1000 * a.hi < b.lo)

\* The box of a rank whose bounding box is empty, grown by its span.
nowhere == [lo |-> 1, hi |-> -1]

\* How far the box of the parents' coordinates S is grown, in tenths: by the
\* radius; for a search by number by a tenth of their extent; for matching
\* nodes by a thousandth, here nothing.
proximities(search, S) ==
  CASE search = "knn"  -> extents(S)
    [] search = "node" -> {0}
    [] OTHER           -> {10 * Radius}

\* Faulty variant: a centre is sent to one rank only.
exportsToOne(C, b, boxes) ==
  {<<s, CHOOSE q \in DOMAIN boxes : pointInDomain(C[s], boxes[q])>> :
     s \in {e \in DOMAIN C : \E q \in DOMAIN boxes : pointInDomain(C[e], boxes[q])}}

\* The centres of the cloud C, with the box b, that are sent to a rank: those in
\* the rank's box, and only boxes that meet b are looked at.
exports(C, b, boxes) ==
  {x \in (DOMAIN C) \X (DOMAIN boxes) :
     checkForIntersection(b, boxes[x[2]]) /\ pointInDomain(C[x[1]], boxes[x[2]])}

\* The coordinates of the centres in S.
coordinates(C, S) == {C[s] : s \in S}

\* The cloud C, less the centres that are not in S.
restricted(C, S) == [s \in S |-> C[s]]

-----------------------------------------------------------------------------
(***************************************************************************)
(* Queries to the tree over the centres C around the point p.              *)
(***************************************************************************)
\* The sets of k nearest centres; those at equal distance come in any order.
nnSearch(C, p, k) ==
  LET n == IF Cardinality(DOMAIN C) < k THEN Cardinality(DOMAIN C) ELSE k
  IN {S \in SUBSET DOMAIN C :
        /\ Cardinality(S) = n
        /\ \A s \in S, e \in DOMAIN C \ S :
             distance(p, C[s]) <= distance(p, C[e])}

\* Growing by half i times multiplies by a power of 3 and divides by one of 2.
powersOf2[i \in Nat] == IF i = 0 THEN 1 ELSE 2 * powersOf2[i - 1]
powersOf3[i \in Nat] == IF i = 0 THEN 1 ELSE 3 * powersOf3[i - 1]

\* The centres inside the i-th radius tried; the boundary is outside.
within(C, p, radius, i) ==
  {s \in DOMAIN C :
     distance(p, C[s]) * 10 * powersOf2[i] < radius * powersOf3[i]}

enoughWithin(C, p, radius, i) ==
  Cardinality(within(C, p, radius, i)) >= MinPoints

\* The i-th radius is the last one tried: the radius grows by half until it
\* has MinPoints centres or has been tried Guard times.
lastTried(C, p, radius, i) ==
  /\ enoughWithin(C, p, radius, i) \/ i = Guard - 1
  /\ \A j \in 0 .. i - 1 : ~ enoughWithin(C, p, radius, j)

\* The only answer of a radius search, as a set of answers.
radiusSearch(C, p, radius) ==
  {within(C, p, radius, i) :
     i \in {j \in 0 .. Guard - 1 : lastTried(C, p, radius, j)}}

-----------------------------------------------------------------------------
(***************************************************************************)
(* The pairing of a target at p with centres of the cloud C.               *)
(***************************************************************************)
\* The centres that are farthest among RingPoints nearest ones.
ringEnds(C, p) ==
  UNION {{s \in N : \A e \in N : distance(p, C[e]) <= distance(p, C[s])} :
           N \in nnSearch(C, p, RingPoints)}

\* The sets of centres that may be found for the target.
pairings(search, C, p) ==
  CASE search = "radius" -> radiusSearch(C, p, 10 * Radius)
    [] search = "knn"    -> nnSearch(C, p, NumNeighbors)
    [] search = "node"   -> nnSearch(C, p, 1)
    [] search = "ring"   -> UNION {radiusSearch(C, p, 51 * distance(p, C[s])) :
                                     s \in ringEnds(C, p)}

\* The elements of S, the nearest first.
sortedCenters(C, p, S) ==
  {q \in [1 .. Cardinality(S) -> S] :
     \A i, j \in DOMAIN q : i < j =>
       q[i] # q[j] /\ distance(p, C[q[i]]) <= distance(p, C[q[j]])}

\* The places of the array of children that a search by number leaves empty.
unfilled(search, S) ==
  IF search = "knn" THEN NumNeighbors - Cardinality(S) ELSE 0

filledUp(q, places, first) == q \o [i \in 1 .. places |-> first]

\* The array of children: a search by number that finds too few fills it up
\* with the first centre of the cloud.
childCenterIds(search, C, p, S) ==
  {filledUp(q, unfilled(search, S), first) :
     q \in sortedCenters(C, p, S), first \in DOMAIN C}

\* The arrays of children a parent at p may get.
stencils(search, C, p) ==
  UNION {childCenterIds(search, C, p, S) : S \in pairings(search, C, p)}

\* The nearest child of a parent is read whether it has children or not, and
\* the bounding box of an empty cloud is that of its first centre: setup()
\* fails for the parents at the coordinates P.
lacksSource(search, C, P) ==
  P # {} /\ (DOMAIN C = {} \/ \E p \in P : {} \in pairings(search, C, p))

\* Without parents the greatest number of children is read from an empty array,
\* or the bounding box from an empty cloud; this may go unnoticed.
readsNothing(search, C, P) == P = {} /\ (search # "node" \/ DOMAIN C = {})

\* How many children a local problem uses.
num_sources(n) == IF n > RowChoice THEN RowChoice ELSE n

\* The centres among the first n of a stencil.
firstOf(stencil, n) == {stencil[i] : i \in 1 .. n}
=============================================================================
