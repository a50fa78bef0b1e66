------------------------- MODULE SplineInterpolation -------------------------
(***************************************************************************)
(* DTK_SplineInterpolationOperator: interpolation with radial basis        *)
(* functions and a linear polynomial, A = (Q + N) (P + M + P^T)^-1 S.      *)
(* setup() distributes the source centres twice - to the ranks they are    *)
(* near to as neighbours of source centres, then of target centres - and   *)
(* assembles the sparse matrices M and N from the pairings.  The dense P   *)
(* and Q (DTK_PolynomialMatrix) are kept by their local rows; the unknowns *)
(* of the polynomial are the first ones of rank 0, in front of its source  *)
(* centres (DTK_SplineProlongationOperator).                               *)
(*                                                                         *)
(* apply() gives S times the field to a linear solver, which applies       *)
(* C = P + M + P^T to vectors of its choice; B = Q + N is then applied to  *)
(* the vector it settles for.  Both are sums of distributed operators,     *)
(* applied one after the other, each with its own communication.           *)
(***************************************************************************)
EXTENDS PointCloudGeometry, FiniteSetsExt

CONSTANTS
  Ranks,          \* processes of the communicator, from 0
  Sources,        \* source centres, by support id
  Targets,        \* target centres, by support id
  Applications,   \* the clouds and programs, see Application
  Basis(_, _),    \* the radial basis: of the radius in hundredths and a distance
  Unknowns        \* the values the solver's vectors have

Operators == {"C", "B"}

\* The search, the centres and their ranks, and the operators applied.
Application ==
  [search : {"radius", "knn"},
   source : [Sources -> Int], SourceOwner : [Sources -> Ranks],
   target : [Targets -> Int], TargetOwner : [Targets -> Ranks],
   operators : Seq(Operators)]

ASSUME RankAssumption    == Ranks \subseteq Nat /\ 0 \in Ranks /\ IsFiniteSet(Ranks)
ASSUME CentersAssumption ==
  /\ Sources \subseteq Nat /\ IsFiniteSet(Sources)
  /\ Targets \subseteq Nat /\ IsFiniteSet(Targets)
ASSUME ApplicationsAssumption ==
  /\ Applications \subseteq Application
  /\ \A a \in Applications : a.operators # <<>> => a.operators[1] = "C"
ASSUME UnknownsAssumption == Unknowns \subseteq Int

\* Everything the programs measure from: their sources and targets.
placesOf(a) == {a.source[s] : s \in Sources} \cup {a.target[t] : t \in Targets}

ASSUME BasisAssumption ==    \* the bases have compact support
  \A a \in Applications : \A x \in placesOf(a), s \in Sources :
    LET d == distance(x, a.source[s])
    IN /\ Basis(100 * Radius, d) \in Int
       /\ 100 * d >= 100 * Radius => Basis(100 * Radius, d) = 0

VARIABLES
  app,           \* the program that runs
  stage,         \* where each rank is
  round,         \* whether it distributes and pairs for sources or for targets
  boxes,         \* the boxes gathered, per round
  center_sends,  \* exported centres and where they go, per round
  dist_sources,  \* the centres that arrived, per round
  d_pairings,    \* the children of each source and target centre
  X,             \* the solver's vectors on each rank, one per operator applied
  products,      \* what each rank has contributed to the reductions
  Y              \* the result of the operator last applied, on each rank

setupVars == <<boxes, center_sends, dist_sources, d_pairings>>
solveVars == <<X, products, Y>>
splineVars == <<app, stage, round, setupVars, solveVars>>

search == app.search
source == app.source
target == app.target

Rounds == {"sources", "targets"}

\* The centres that get children in a round.
parent(k) == IF k = "sources" THEN source ELSE target

localSources(r) == {s \in Sources : app.SourceOwner[s] = r}

localParents(k, r) ==
  IF k = "sources" THEN localSources(r)
  ELSE {t \in Targets : app.TargetOwner[t] = r}

goTo(r, step) == stage' = [stage EXCEPT ![r] = step]

\* Faulty variant: the two distributions are not told apart.
passedInAny(k, steps) == \A q \in Ranks : stage[q] \notin steps

\* Every rank is past the given stages of round k.
passed(k, steps) ==
  \A q \in Ranks : round[q] = k => stage[q] \notin steps

\* Every rank has come to the second round, if k is that.
begun(k) == k = "targets" => \A q \in Ranks : round[q] = k

perRound(v) == [k \in Rounds |-> [r \in Ranks |-> v]]

SplineInit ==
  /\ app \in Applications
  /\ stage = [r \in Ranks |-> "new"]
  /\ round = [r \in Ranks |-> "sources"]
  /\ boxes = perRound(nowhere)
  /\ center_sends = perRound({})
  /\ dist_sources = perRound({})
  /\ d_pairings = [k \in Rounds |-> [c \in {} |-> <<>>]]
  /\ X = [r \in Ranks |-> <<>>]
  /\ products = [r \in Ranks |-> <<>>]
  /\ Y = [r \in Ranks |-> <<>>]

-----------------------------------------------------------------------------
(***************************************************************************)
(* setup(): the distribution of the source centres.                        *)
(***************************************************************************)
local(r) == coordinates(parent(round[r]), localParents(round[r], r))

GatherDomain(r) ==
  /\ stage[r] = "new"
  /\ \/ /\ search = "knn" /\ local(r) = {}
        /\ UNCHANGED boxes
     \/ \E lo, hi \in local(r) \cup {0}, w \in proximities(search, local(r)) :
          /\ localCloudDomain(local(r), [lo |-> lo, hi |-> hi])
          /\ boxes' = [boxes EXCEPT
               ![round[r]][r] = expand([lo |-> lo, hi |-> hi], w)]
  /\ goTo(r, "gather")
  /\ UNCHANGED <<app, round, center_sends, dist_sources, d_pairings, solveVars>>

SendCenters(r) ==
  /\ stage[r] = "gather"
  /\ begun(round[r]) /\ passed(round[r], {"new"})
  /\ \E lo, hi \in coordinates(source, localSources(r)) \cup {0} :
       /\ localCloudDomain(coordinates(source, localSources(r)),
                           [lo |-> lo, hi |-> hi])
       /\ center_sends' = [center_sends EXCEPT ![round[r]][r] =
            exports(restricted(source, localSources(r)),
                    [lo |-> lo, hi |-> hi], boxes[round[r]])]
  /\ goTo(r, "send")
  /\ UNCHANGED <<app, round, boxes, dist_sources, d_pairings, solveVars>>

ReceiveCenters(r) ==
  /\ stage[r] = "send"
  /\ begun(round[r]) /\ passed(round[r], {"new", "gather"})
  /\ dist_sources' = [dist_sources EXCEPT ![round[r]][r] =
       {s \in Sources : \E q \in Ranks : <<s, r>> \in center_sends[round[r]][q]}]
  /\ goTo(r, "centers")
  /\ UNCHANGED <<app, round, boxes, center_sends, d_pairings, solveVars>>

-----------------------------------------------------------------------------
(***************************************************************************)
(* setup(): the pairings, and the rows of M or of N from them.             *)
(***************************************************************************)
\* Faulty variant: the array of the first distribution is used again.
arrivedFirst(r) == restricted(source, dist_sources["sources"][r])

arrived(r) == restricted(source, dist_sources[round[r]][r])

idsArrived(r) ==
  /\ begun(round[r])
  /\ \A s \in dist_sources[round[r]][r] :
       round[app.SourceOwner[s]] = round[r] =>
         stage[app.SourceOwner[s]] \notin {"new", "gather", "send"}

Abort(r) ==
  /\ stage[r] = "centers"
  /\ idsArrived(r)
  /\ lacksSource(search, arrived(r), local(r)) \/ readsNothing(search, arrived(r), local(r))
  /\ goTo(r, "aborted")
  /\ UNCHANGED <<app, round, setupVars, solveVars>>

InsertRows(r) ==
  /\ stage[r] = "centers"
  /\ idsArrived(r)
  /\ ~ lacksSource(search, arrived(r), local(r))
  /\ \E children \in [localParents(round[r], r) ->
                        UNION {stencils(search, arrived(r), p) : p \in local(r)}] :
       /\ \A c \in DOMAIN children :
            children[c] \in stencils(search, arrived(r), parent(round[r])[c])
       /\ d_pairings' = [d_pairings EXCEPT ![round[r]] =
            [c \in DOMAIN @ \cup DOMAIN children |->
               IF c \in DOMAIN children THEN children[c] ELSE @[c]]]
  /\ goTo(r, "fill")
  /\ UNCHANGED <<app, round, boxes, center_sends, dist_sources, solveVars>>

\* Leave fillComplete of M for the second distribution, or that of N.
FillComplete(r) ==
  /\ stage[r] = "fill"
  /\ begun(round[r])
  /\ passed(round[r], {"new", "gather", "send", "centers", "aborted"})
  /\ round' = [round EXCEPT ![r] = "targets"]
  /\ goTo(r, IF round[r] = "sources" THEN "new" ELSE "ready")
  /\ UNCHANGED <<app, setupVars, solveVars>>

-----------------------------------------------------------------------------
(***************************************************************************)
(* The unknowns and the matrices.                                          *)
(***************************************************************************)
\* The elements of the finite set S of integers in their order.
ordered(S) ==
  [i \in 1 .. Cardinality(S) |->
     CHOOSE x \in S : Cardinality({y \in S : y < x}) = i - 1]

polynomials == 2    \* DIM + 1: the constant and the coordinate

\* The polynomial's unknowns get ids after all the source centres.
polynomialIds ==
  [p \in 1 .. polynomials |-> Max({-1} \cup Sources) + p]

\* S puts the field of rank 0 behind them.
offset(r) == IF r = 0 THEN polynomials ELSE 0

\* The ids of a rank's unknowns, in order; its rows of P or Q.
prolongated(r) ==
  SubSeq(polynomialIds, 1, offset(r)) \o ordered(localSources(r))

polynomialAt(x) == <<1, x>>

P(r) ==
  [i \in DOMAIN prolongated(r) |->
     IF prolongated(r)[i] \in Sources
     THEN polynomialAt(source[prolongated(r)[i]]) ELSE <<0, 0>>]

Q(r) ==
  [i \in DOMAIN ordered(localParents("targets", r)) |->
     polynomialAt(target[ordered(localParents("targets", r))[i]])]

\* The radius of a stencil in hundredths: the given one, or a percent more than
\* the distance of the last neighbour.
parentSupportRadius(x, stencil) ==
  IF search = "knn" THEN 101 * distance(x, source[stencil[Len(stencil)]])
  ELSE 100 * Radius

\* A row of M or N for a parent at x, times the vector v of values by source.
basisRow(x, stencil, v) ==
  SumFunction([i \in DOMAIN stencil |->
                 Basis(parentSupportRadius(x, stencil),
                       distance(x, source[stencil[i]])) * v[stencil[i]]])

-----------------------------------------------------------------------------
(***************************************************************************)
(* Applying C or B.                                                        *)
(***************************************************************************)
applied(r) == Len(X[r])

\* The operator rank r applies at present.
operator(r) == app.operators[applied(r)]

\* Begin with P or Q; rank 0 broadcasts the polynomial's unknowns.  B is applied
\* to the vector C was last applied to.
BeginOperator(r) ==
  /\ stage[r] = "ready"
  /\ applied(r) < Len(app.operators)
  /\ \E x \in [DOMAIN prolongated(r) -> Unknowns] :
       /\ app.operators[applied(r) + 1] = "B" => x = X[r][applied(r)]
       /\ X' = [X EXCEPT ![r] = Append(@, x)]
  /\ goTo(r, "polynomial")
  /\ UNCHANGED <<app, round, setupVars, products, Y>>

\* Faulty variant: the polynomial of the operator applied first is kept.
broadcastFirst(r) == [p \in 1 .. polynomials |-> X[0][1][p]]

broadcast(r) == [p \in 1 .. polynomials |-> X[0][applied(r)][p]]

dot(row, v) == row[1] * v[1] + row[2] * v[2]

Polynomial(r) ==
  /\ stage[r] = "polynomial"
  /\ applied(0) >= applied(r)
  /\ LET rows == IF operator(r) = "C" THEN P(r) ELSE Q(r)
     IN Y' = [Y EXCEPT ![r] = [i \in DOMAIN rows |-> dot(rows[i], broadcast(r))]]
  /\ goTo(r, "basis")
  /\ UNCHANGED <<app, round, setupVars, X, products>>

\* The value of the unknown of source s in the present operator of rank r.
unknown(r, s) ==
  LET q == app.SourceOwner[s]
      i == CHOOSE j \in DOMAIN prolongated(q) : prolongated(q)[j] = s
  IN X[q][applied(r)][i]

\* Add M or N, with the unknowns of other ranks imported.
AddBasis(r) ==
  LET k == IF operator(r) = "C" THEN "sources" ELSE "targets"
      ids == IF k = "sources" THEN prolongated(r) ELSE ordered(localParents(k, r))
      mine == {c \in DOMAIN d_pairings[k] : c \in localParents(k, r)}
      needed == UNION {{d_pairings[k][c][i] : i \in DOMAIN d_pairings[k][c]} : c \in mine}
  IN /\ stage[r] = "basis"
     /\ \A s \in needed : applied(app.SourceOwner[s]) >= applied(r)
     /\ Y' = [Y EXCEPT ![r] = [i \in DOMAIN ids |->
          Y[r][i] + IF ids[i] \in mine
                    THEN basisRow(parent(k)[ids[i]], d_pairings[k][ids[i]],
                                  [s \in needed |-> unknown(r, s)])
                    ELSE 0]]
     /\ goTo(r, IF k = "sources" THEN "transpose" ELSE "ready")
     /\ UNCHANGED <<app, round, setupVars, X, products>>

\* The rank's part of P^T times the vector.
localProducts(r) ==
  [p \in 1 .. polynomials |->
     SumFunction([i \in DOMAIN prolongated(r) |->
                    P(r)[i][p] * X[r][applied(r)][i]])]

\* Contribute to the reduction; only the root waits for its result.
Contribute(r) ==
  /\ stage[r] = "transpose"
  /\ products' = [products EXCEPT ![r] = Append(@, localProducts(r))]
  /\ goTo(r, IF r = 0 THEN "reduce" ELSE "ready")
  /\ UNCHANGED <<app, round, setupVars, X, Y>>

contributed == \A q \in Ranks : Len(products[q]) >= Len(products[0])

\* Faulty variant: the root's own part is left out.
productSumsOfOthers(p) ==
  SumFunction([q \in Ranks \ {0} |-> products[q][Len(products[0])][p]])

productSums(p) ==
  SumFunction([q \in Ranks |-> products[q][Len(products[0])][p]])

Reduce ==
  /\ stage[0] = "reduce"
  /\ contributed
  /\ Y' = [Y EXCEPT ![0] = [i \in DOMAIN @ |->
       IF i <= polynomials THEN @[i] + productSums(i) ELSE @[i]]]
  /\ goTo(0, "ready")
  /\ UNCHANGED <<app, round, setupVars, X, products>>

-----------------------------------------------------------------------------
SplineStep(r) ==
  \/ GatherDomain(r)
  \/ SendCenters(r)
  \/ ReceiveCenters(r)
  \/ Abort(r)
  \/ InsertRows(r)
  \/ FillComplete(r)
  \/ BeginOperator(r)
  \/ Polynomial(r)
  \/ AddBasis(r)
  \/ Contribute(r)
  \/ r = 0 /\ Reduce

SplineNext == \E r \in Ranks : SplineStep(r)

\* setup() and the solver's loop are the same on every rank.
SplineSpec ==
  /\ SplineInit
  /\ [][SplineNext]_splineVars
  /\ \A r \in Ranks : WF_splineVars(SplineStep(r))

-----------------------------------------------------------------------------
(***************************************************************************)
(* Properties.                                                             *)
(***************************************************************************)
\* Rank r has applied the operator o, to a vector of which all parts are there.
hasApplied(r, o) ==
  /\ stage[r] = "ready" /\ X[r] # <<>> /\ operator(r) = o
  /\ \A q \in Ranks : applied(q) >= applied(r)

\* The unknown of s in the operator rank r has applied last: that of the
\* prolongated field, offset on rank 0.
position(s) ==
  offset(app.SourceOwner[s]) +
  CHOOSE i \in DOMAIN ordered(localSources(app.SourceOwner[s])) :
    ordered(localSources(app.SourceOwner[s]))[i] = s

xAt(r, s) == X[app.SourceOwner[s]][applied(r)][position(s)]

\* The basis between the source s and a parent at x, whatever the parent's rank
\* has been sent.
phi(x, s) == Basis(100 * Radius, distance(x, source[s]))

\* What the interpolant with the unknowns of the present operator is at x.
interpolant(r, x) ==
  X[0][applied(r)][1] + X[0][applied(r)][2] * x
    + SumFunction([s \in Sources |-> phi(x, s) * xAt(r, s)])

\* C, distributed over the ranks and applied by ranks that run ahead of one
\* another, is one symmetric matrix of all the source centres, with the
\* polynomial in its first rows and columns: the result is the interpolant at
\* each source, and the moments of the unknowns for the polynomial.
CoefficientsAreGlobal ==
  search = "radius" =>
    \A r \in Ranks : hasApplied(r, "C") =>
      /\ \A s \in localSources(r) :
           Y[r][position(s)] = interpolant(r, source[s])
      /\ r = 0 =>
           /\ Y[0][1] = SumFunction([s \in Sources |-> xAt(0, s)])
           /\ Y[0][2] = SumFunction([s \in Sources |-> xAt(0, s) * source[s]])

\* B is the interpolant at each target: applied to the vector the solver has
\* settled for, it gives a target at the place of a source centre, on whatever
\* rank, what C has given the source, which is the field's value there.
EvaluationIsGlobal ==
  search = "radius" =>
    \A r \in Ranks : hasApplied(r, "B") =>
      \A i \in DOMAIN ordered(localParents("targets", r)) :
        Y[r][i] = interpolant(r, target[ordered(localParents("targets", r))[i]])

\* setup() and all operators return, unless setup() fails on a rank.
OperatorsReturn ==
  \/ <>(\E r \in Ranks : stage[r] = "aborted")
  \/ <>(\A r \in Ranks :
          stage[r] = "ready" /\ round[r] = "targets"
            /\ applied(r) = Len(app.operators))
=============================================================================
