---------------------- MODULE MCConsistentInterpolation ----------------------
(***************************************************************************)
(* Instances of ConsistentInterpolation for TLC: two ranks, a domain of    *)
(* three entities that overlap within a rank and across the ranks, and     *)
(* supports that are numbered like the range entities or differently.      *)
(***************************************************************************)
EXTENDS ConsistentInterpolation

MCDomainOwner == [d0 |-> 0, d1 |-> 0, d2 |-> 1]
MCRangeOwner  == [e0 |-> 0, e1 |-> 1]

\* Entities that overlap on the points 2 and 3, and two whose bodies do not
\* fill their boxes.
wide   == [box |-> [lo |-> 1, hi |-> 3], centroid |-> 2, body |-> 0 .. 4]
hollow == [box |-> [lo |-> 2, hi |-> 4], centroid |-> 3, body |-> {3}]

MCDomainShapes == {wide, hollow}

pointAt(x) == [box |-> [lo |-> x, hi |-> x], centroid |-> x]

MCRangeShapes == {pointAt(x) : x \in {1, 3, 5}}

MCSameIds  == [e0 |-> "e0", e1 |-> "e1"]
MCOtherIds == [e0 |-> "e1", e1 |-> "e0"]
=============================================================================
