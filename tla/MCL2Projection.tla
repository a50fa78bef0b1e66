--------------------------- MODULE MCL2Projection ---------------------------
(***************************************************************************)
(* An instance of L2Projection for TLC: a cell with two supports and two   *)
(* points on one rank, a cell with one support and one point on the other. *)
(* Each rank has the other's cell as a ghost, and a third cell is not      *)
(* selected.  The second support of the first cell is the other rank's.    *)
(* Three domain entities of one width overlap within a rank and across the *)
(* ranks.                                                                  *)
(***************************************************************************)
EXTENDS L2Projection, TLC

MCEntitySet    == (0 :> <<"B", "A">>) @@ (1 :> <<"A", "C", "B">>)
MCCellOwner    == [A |-> 0, B |-> 1, C |-> 1]
MCCellSupports == [A |-> <<"s", "t">>, B |-> <<"t">>, C |-> <<"s">>]
MCSupportOwner == [s |-> 0, t |-> 1]

MCCellRule ==
  [A |-> <<[weight |-> 6, shape |-> <<2, 0>>], [weight |-> 12, shape |-> <<-1, 3>>]>>,
   B |-> <<[weight |-> 6, shape |-> <<2>>]>>, C |-> <<[weight |-> 6, shape |-> <<2>>]>>]

MCRangeOwner  == (0 :> 0) @@ (1 :> 0) @@ (2 :> 1)
MCDomainOwner == [d0 |-> 0, d1 |-> 1, d2 |-> 1]

\* Entities on 0 .. 2 and on 1 .. 3.
element(x) == [box |-> [lo |-> x, hi |-> x + 2], centroid |-> x + 1,
               body |-> x .. x + 2]

MCDomainShapes == {element(0), element(1)}

MCRangeShapes ==
  {[box |-> [lo |-> x, hi |-> x], centroid |-> x] : x \in {1, 2, 3}}

\* Linear shape functions.
MCDomainSupports == [d0 |-> <<"a", "b">>, d1 |-> <<"b", "c">>, d2 |-> <<"c", "d">>]
MCDomainShape == [d \in {"d0", "d1", "d2"} |-> [x \in 0 .. 2 |-> <<2 - x, x>>]]
=============================================================================
