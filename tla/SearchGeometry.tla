--------------------------- MODULE SearchGeometry ---------------------------
(***************************************************************************)
(* The geometric predicates of the search: bounding boxes with a relative  *)
(* tolerance (DTK_CoarseGlobalSearch, EntityLocalMap), the choice of the   *)
(* k nearest domain entities (DTK_CoarseLocalSearch) and the fine          *)
(* inclusion test (DTK_FineLocalSearch).                                   *)
(*                                                                         *)
(* One coordinate axis is modelled: in the code the axes are independent   *)
(* conjuncts of every predicate.  Coordinates are integers and the         *)
(* tolerances are the fractions TolNum / TolDen and SafeTolNum / TolDen,   *)
(* so that every comparison is multiplied by TolDen and stays exact.       *)
(***************************************************************************)
EXTENDS Integers, FiniteSets

CONSTANTS
  Coords,       \* the coordinates entities and points lie on
  TolNum,       \* "Point Inclusion Tolerance", numerator ...
  TolDen,       \* ... and denominator (the default is 1 / 10^6)
  SafeTolNum,   \* numerator of the safeguard's own tolerance (always 1 / 10^6)
  KNN           \* "Coarse Local Search kNN" (the default is 100)

ASSUME CoordsAssumption    == Coords \subseteq Int /\ 0 \in Coords
ASSUME ToleranceAssumption ==
  TolNum \in Nat /\ SafeTolNum \in Nat /\ TolDen \in Nat \ {0}
ASSUME KNNAssumption       == KNN \in Nat \ {0}

Box == {b \in [lo : Coords, hi : Coords] : b.lo <= b.hi}

\* A domain entity: its bounding box, its centroid, and the points its local
\* map finds inside it (mapToReferenceFrame succeeds and checkPointInclusion
\* accepts the reference point).  The body need not fill the box.
EntityShape == [box : Box, centroid : Coords, body : SUBSET Coords]

\* A range entity: it is searched by its centroid.
RangeShape == {s \in [box : Box, centroid : Coords] :
                  s.box.lo <= s.centroid /\ s.centroid <= s.box.hi}

-----------------------------------------------------------------------------
\* The width of the box times the tolerance, scaled by TolDen.
pad(b) == (b.hi - b.lo) * TolNum

lower(b) == b.lo * TolDen - pad(b)
upper(b) == b.hi * TolDen + pad(b)

pointInBox(p, b) == lower(b) <= p * TolDen /\ p * TolDen <= upper(b)

\* Faulty variant: the prefilter forgets the tolerance.
boxesIntersectExactly(a, b) == ~ (a.lo > b.hi \/ a.hi < b.lo)

boxesIntersect(a, b) == ~ (lower(a) > upper(b) \/ upper(a) < lower(b))

\* b is the bounding box of the boxes S.  A process that has no entity
\* reports the degenerate box at the origin.
assembleBoundingBox(S, b) ==
  IF S = {}
  THEN b.lo = 0 /\ b.hi = 0
  ELSE /\ \A c \in S : b.lo <= c.lo /\ c.hi <= b.hi
       /\ \E c \in S : b.lo = c.lo
       /\ \E c \in S : b.hi = c.hi

-----------------------------------------------------------------------------
\* The squared distance to the centroid.
distance(p, shape) == (p - shape.centroid) * (p - shape.centroid)

\* S is an answer of the search tree to a query for the KNN entities of D
\* (a function from entity ids to shapes) nearest to the point p; entities
\* at equal distance may be taken in any order.
nnSearch(p, D, S) ==
  /\ S \subseteq DOMAIN D
  /\ Cardinality(S) = IF Cardinality(DOMAIN D) < KNN
                      THEN Cardinality(DOMAIN D) ELSE KNN
  /\ \A d \in S, e \in DOMAIN D \ S : distance(p, D[d]) <= distance(p, D[e])

\* The safeguard has a tolerance of its own, which the parameter does not set.
isSafeToMapToReferenceFrame(shape, p) ==
  LET width == (shape.box.hi - shape.box.lo) * SafeTolNum
  IN /\ shape.box.lo * TolDen - width <= p * TolDen
     /\ p * TolDen <= shape.box.hi * TolDen + width

\* The point maps into the entity: it passes the safeguard and is in the body.
mapsInto(shape, p) == isSafeToMapToReferenceFrame(shape, p) /\ p \in shape.body

\* The parametric coordinate of the point p in the entity.
referenceCoordinate(shape, p) == p - shape.box.lo
=============================================================================
