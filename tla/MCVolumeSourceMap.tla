-------------------------- MODULE MCVolumeSourceMap --------------------------
(***************************************************************************)
(* An instance of VolumeSourceMap for TLC: two ranks with geometries that  *)
(* overlap within a rank and across the ranks, and communicators that      *)
(* leave rank 0 out or number the ranks in another order.                  *)
(***************************************************************************)
EXTENDS VolumeSourceMap

MCDomainOwner == [d0 |-> 0, d1 |-> 0, d2 |-> 1]

\* Target points, by rank and number on the rank.
MCPoints == Ranks \X (0 .. 1)
MCPointOwner == [e \in MCPoints |-> e[1]]

\* Two geometries that share the point 3, and points in both and in neither.
left  == [box |-> [lo |-> 1, hi |-> 3], centroid |-> 2, body |-> 1 .. 3]
right == [box |-> [lo |-> 2, hi |-> 4], centroid |-> 3, body |-> {3, 4}]

pointAt(x) == [box |-> [lo |-> x, hi |-> x], centroid |-> x]

MCDomainShapes == {left, right}
MCRangeShapes  == {pointAt(x) : x \in {3, 5}}

MCSourceComms == {<<1, 0>>, <<1>>}
MCTargetComms == {<<0, 1>>, <<1>>}

\* Two calls of apply(), for fields of different dimensions.
MCDims == <<2, 1>>
=============================================================================
