------------------------ MODULE MCPointCloudTransfer ------------------------
(***************************************************************************)
(* Instances of PointCloudTransfer for TLC: two ranks, four source centres *)
(* and two targets, in several clouds and decompositions.  The tables of   *)
(* the code are scaled down with the clouds: a search is content with two  *)
(* centres, and a local problem uses three.                                *)
(***************************************************************************)
EXTENDS PointCloudTransfer

\* Decompositions: halves, an end or a centre between the others on a rank of its
\* own, and one rank with all.
sourceOwners ==
  {[a |-> 0, b |-> 0, c |-> 1, d |-> 1], [a |-> 1, b |-> 0, c |-> 0, d |-> 0],
   [a |-> 1, b |-> 0, c |-> 1, d |-> 1], [a |-> 1, b |-> 1, c |-> 1, d |-> 1]}

targetOwners == {[t |-> 0, u |-> 1], [t |-> 1, u |-> 1]}

\* Source centres on both sides of the origin, in increasing order, and a cloud
\* with two at the places of targets.
sourceClouds ==
  {f \in [{"a", "b", "c", "d"} -> {-3, -1, 1, 3}] :
     f["a"] <= f["b"] /\ f["b"] < f["c"] /\ f["c"] < f["d"]}
  \cup {[a |-> -3, b |-> 0, c |-> 1, d |-> 3]}

targetClouds == {f \in [{"t", "u"} -> {-3, 0, 2}] : f["t"] < f["u"]}

\* Programs that only set up.
setups ==
  [search : Searches, source : sourceClouds, SourceOwner : sourceOwners,
   target : targetClouds, TargetOwner : targetOwners, calls : {<<>>},
   values : {{}}]

halves == [a |-> 0, b |-> 0, c |-> 1, d |-> 1]
apart  == [t |-> 0, u |-> 1]

\* Programs that apply what they have set up, moving least squares with rings
\* also with the mode that crops.
applies ==
  [search : {"radius"}, source : {[a |-> -1, b |-> 0, c |-> 1, d |-> 3]},
   SourceOwner : {halves}, target : {[t |-> -3, u |-> 2]},
   TargetOwner : {apart}, calls : {<<"NO_TRANS", "TRANS">>},
   values : {{-1, 3}}]
  \cup
  [search : {"ring"}, source : {[a |-> -1, b |-> 0, c |-> 1, d |-> 3]},
   SourceOwner : {halves}, target : {[t |-> -1, u |-> 2]},
   TargetOwner : {apart}, calls : {<<"TRANS", "TRANS">>},
   values : {{-1, 3}}]
  \cup
  [search : {"ring"}, source : {[a |-> -1, b |-> 0, c |-> 1, d |-> 2]},
   SourceOwner : {halves}, target : {[t |-> 0, u |-> 2]},
   TargetOwner : {apart}, calls : {<<"TRANS">>},
   values : {{-1, 1, 3}}]

MCApplications == setups \cup applies

MCFieldValues     == {-1, 1, 3}
MCNegativeValues  == {-2, -1}
MCReconstructions == {-4, 0, 5}

\* The nearest neighbours of two targets are on another rank, just outside of
\* the grown box of the targets, and farther ones are between the targets.
MCNeighborsApart ==
  [search : {"knn"}, source : {[a |-> -4, b |-> -1, c |-> 1, d |-> 3]},
   SourceOwner : {[a |-> 1, b |-> 0, c |-> 0, d |-> 1]},
   target : {[t |-> -3, u |-> 2]}, TargetOwner : {[t |-> 0, u |-> 0]},
   calls : {<<>>}, values : {{}}]

\* Rings around targets among the centres, and one cropping call.
MCCropping ==
  [search : {"ring"}, source : {[a |-> 0, b |-> 1, c |-> 2, d |-> 3]},
   SourceOwner : {halves}, target : {[t |-> 0, u |-> 2]},
   TargetOwner : {apart}, calls : {<<"TRANS">>},
   values : {{-2, -1}}]
=============================================================================
