------------------------ MODULE MCSplineInterpolation ------------------------
(***************************************************************************)
(* Instances of SplineInterpolation for TLC: two ranks, three source       *)
(* centres on both sides of the origin and two targets, in several clouds  *)
(* and decompositions.                                                     *)
(***************************************************************************)
EXTENDS SplineInterpolation, TLC

\* The Wendland basis of order 0, times the square of the radius.
MCBasis(R, d) == IF 100 * d >= R THEN 0 ELSE (R - 100 * d) * (R - 100 * d)

owners(S) == [S -> Ranks]

sourceClouds ==
  {(0 :> -2) @@ (1 :> -1) @@ (2 :> 1), (0 :> 2) @@ (1 :> 0) @@ (2 :> 1),
   (0 :> -1) @@ (1 :> 4) @@ (2 :> -1)}

targetClouds == {(0 :> -1) @@ (1 :> 1), (0 :> 3) @@ (1 :> 0)}

\* Programs that only set up.
setups ==
  [search : {"radius", "knn"}, source : sourceClouds, SourceOwner : owners(Sources),
   target : targetClouds, TargetOwner : owners(Targets), operators : {<<>>}]

\* Programs whose solver applies C once or twice before it settles; targets lie
\* at and between source centres.
applies ==
  [search : {"radius"},
   source : {(0 :> -2) @@ (1 :> -1) @@ (2 :> 1), (0 :> 3) @@ (1 :> 0) @@ (2 :> -1)},
   SourceOwner : {(0 :> 1) @@ (1 :> 0) @@ (2 :> 0)},
   target : targetClouds, TargetOwner : {(0 :> 1) @@ (1 :> 0)},
   operators : {<<"C", "B">>}]
  \cup
  [search : {"radius"}, source : {(0 :> 2) @@ (1 :> 0) @@ (2 :> 1)},
   SourceOwner : {(0 :> 0) @@ (1 :> 1) @@ (2 :> 1)},
   target : {(0 :> 3) @@ (1 :> 0)}, TargetOwner : {(0 :> 1) @@ (1 :> 0)},
   operators : {<<"C", "C">>}]

MCApplications == setups \cup applies

MCUnknowns == {-1, 2}
=============================================================================
