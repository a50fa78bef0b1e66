-------------------------- MODULE MCParallelSearch --------------------------
(***************************************************************************)
(* Instances of ParallelSearch for TLC: two or three ranks, the entities   *)
(* they own, and the shapes that make the cases of the search happen.      *)
(* The tolerance is 1/2, so that a box of width 2 accepts the points one   *)
(* step outside of it and no other ones; the safeguard of the fine search  *)
(* accepts two steps.                                                      *)
(***************************************************************************)
EXTENDS ParallelSearch

MCDomainOwner == [d0 |-> 0, d1 |-> 0, d2 |-> 1]
MCDomainOwner2 == [d0 |-> 0, d2 |-> 1]
MCDomainOwner3 == [d0 |-> 0, d1 |-> 1, d2 |-> 2]
MCRangeOwner  == [e0 |-> 0, e1 |-> 0, e2 |-> 1]
MCRangeOwner2 == [e0 |-> 0, e1 |-> 1]

\* An entity that fills its box and the tolerance around it, one
\* whose box holds points that do not map into it, and a point entity.
full   == [box |-> [lo |-> 1, hi |-> 3], centroid |-> 2, body |-> 0 .. 5]
hollow == [box |-> [lo |-> 2, hi |-> 4], centroid |-> 3, body |-> {4}]
single == [box |-> [lo |-> 4, hi |-> 4], centroid |-> 4, body |-> {4}]

MCDomainShapes  == {full, hollow, single}
MCDomainShapes2 == {full, hollow}

pointAt(x) == [box |-> [lo |-> x, hi |-> x], centroid |-> x]

MCRangeShapes  == {pointAt(x) : x \in {0, 1, 5}} \cup
                  {[box |-> [lo |-> 3, hi |-> 5], centroid |-> 4]}
MCRangeShapes2 == {pointAt(x) : x \in {0, 1, 5}}
MCRangeShapes3 == {pointAt(x) : x \in {1, 5}}
=============================================================================
