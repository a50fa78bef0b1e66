------------------------- MODULE PointCloudTransfer -------------------------
(***************************************************************************)
(* The point cloud operators that interpolate with a sparse matrix: moving *)
(* least squares (DTK_MovingLeastSquareReconstructionOperator) and         *)
(* node-to-node (DTK_NodeToNodeOperator).                                  *)
(*                                                                         *)
(* setup() sends every source centre to the ranks whose targets it may     *)
(* concern (DTK_CenterDistributor), pairs each target with the centres     *)
(* that arrived on its rank, and assembles one matrix row per target.      *)
(* apply() multiplies; called with mode TRANS on a moving least squares    *)
(* operator with rings it then sends the source values along the paths of  *)
(* the centres and crops the targets at which the result is not smooth.    *)
(*                                                                         *)
(* A centre stands for its index, its support id and its slot on the ranks *)
(* it is sent to: index and support id are taken to be in one order, as    *)
(* the code assumes.  Every rank makes the same calls.                     *)
(***************************************************************************)
EXTENDS PointCloudGeometry

CONSTANTS
  Ranks,            \* processes of the communicator
  Sources,          \* source centres
  Targets,          \* target centres
  Applications,     \* the programs run, see Application
  FieldValues,      \* the values a domain field may have
  Reconstructions,  \* what a polynomial may give that does not fit the values
  Sigma             \* the smoothness threshold

Modes == {"NO_TRANS", "TRANS"}

\* A program: the operator it sets up, the coordinates and the ranks of its
\* centres, the modes in which it then calls apply(), and the values it writes
\* to the domain field before each call.
Application ==
  [search : Searches,
   source : [Sources -> Int], SourceOwner : [Sources -> Ranks],
   target : [Targets -> Int], TargetOwner : [Targets -> Ranks],
   calls  : Seq(Modes), values : SUBSET FieldValues]

ASSUME CentersAssumption      == IsFiniteSet(Sources) /\ IsFiniteSet(Targets)
ASSUME ApplicationsAssumption == Applications \subseteq Application
ASSUME ValuesAssumption ==
  /\ FieldValues \subseteq Int /\ Reconstructions \subseteq Int
  /\ Sigma \in Nat \ {0}

VARIABLES
  app,              \* the program that runs
  stage,            \* where each rank is
  target_domains,   \* the boxes the ranks have contributed to the gather
  center_sends,     \* exported centres and where they go
  dist_sources,     \* the centres that arrived on each rank
  d_pairings,       \* the children of each target
  d_pair_sizes,     \* their number, later that of the children used
  d_radii,          \* the radius of the support
  d_coupling_matrix,\* the columns of each target's row
  X,                \* the domain fields each rank has pulled, per call
  Y,                \* the range vector
  disc_counts       \* "_DISC_COUNTS_" of each rank

pairs  == <<d_pairings, d_pair_sizes, d_radii, d_coupling_matrix>>
fields == <<X, Y, disc_counts>>
cloudVars ==
  <<app, stage, target_domains, center_sends, dist_sources, pairs, fields>>

search == app.search
calls  == app.calls
source == app.source
target == app.target
SourceOwner == app.SourceOwner
TargetOwner == app.TargetOwner

localSources(r) == {s \in Sources : SourceOwner[s] = r}
localTargets(r) == {t \in Targets : TargetOwner[t] = r}

cloud(S) == restricted(source, S)

CloudInit ==
  /\ app \in Applications
  /\ stage = [r \in Ranks |-> "new"]
  /\ target_domains = [r \in Ranks |-> nowhere]
  /\ center_sends = [r \in Ranks |-> {}]
  /\ dist_sources = [r \in Ranks |-> {}]
  /\ d_pairings = [t \in Targets |-> <<>>]
  /\ d_pair_sizes = [t \in Targets |-> 0]
  /\ d_radii = [t \in Targets |-> 0]
  /\ d_coupling_matrix = [t \in Targets |-> {}]
  /\ X = [r \in Ranks |-> <<>>]
  /\ Y = [t \in Targets |-> 0]
  /\ disc_counts = [r \in Ranks |-> 0]

goTo(r, step) == stage' = [stage EXCEPT ![r] = step]

passed(r, steps) == \A q \in Ranks : stage[q] \notin steps

-----------------------------------------------------------------------------
(***************************************************************************)
(* setup(): gather the boxes of the targets, grown by their proximity.     *)
(***************************************************************************)
GatherDomain(r) ==
  /\ stage[r] = "new"
  /\ LET points == coordinates(target, localTargets(r))
     IN \/ /\ search = "knn" /\ points = {}
           /\ target_domains' = [target_domains EXCEPT ![r] = nowhere]
        \/ \E lo, hi \in points \cup {0}, w \in proximities(search, points) :
             /\ localCloudDomain(points, [lo |-> lo, hi |-> hi])
             /\ target_domains' = [target_domains EXCEPT
                  ![r] = expand([lo |-> lo, hi |-> hi], w)]
  /\ goTo(r, "gather")
  /\ UNCHANGED <<app, center_sends, dist_sources, pairs, fields>>

(***************************************************************************)
(* setup(): send each source centre to every rank in whose box it lies,    *)
(* looking only at the boxes that meet the box of the local sources.       *)
(***************************************************************************)
SendCenters(r) ==
  /\ stage[r] = "gather"
  /\ passed(r, {"new"})
  /\ LET points == coordinates(source, localSources(r))
     IN \E lo, hi \in points \cup {0} :
          /\ localCloudDomain(points, [lo |-> lo, hi |-> hi])
          /\ center_sends' = [center_sends EXCEPT
               ![r] = exports(cloud(localSources(r)), [lo |-> lo, hi |-> hi],
                          target_domains)]
  /\ goTo(r, "send")
  /\ UNCHANGED <<app, target_domains, dist_sources, pairs, fields>>

\* createFromSends() lets nobody go before every rank knows what it receives.
ReceiveCenters(r) ==
  /\ stage[r] = "send"
  /\ passed(r, {"new", "gather"})
  /\ dist_sources' = [dist_sources EXCEPT
       ![r] = {s \in Sources : \E q \in Ranks : <<s, r>> \in center_sends[q]}]
  /\ goTo(r, "centers")
  /\ UNCHANGED <<app, target_domains, center_sends, pairs, fields>>

-----------------------------------------------------------------------------
(***************************************************************************)
(* setup(): when the support ids have arrived like the centres, pair the   *)
(* local targets and insert a row for each.                                *)
(***************************************************************************)
idsArrived(r) ==
  \A s \in dist_sources[r] :
    stage[SourceOwner[s]] \notin {"new", "gather", "send"}

\* The sources that arrived and the targets they are for.
arrived(r) == cloud(dist_sources[r])

parents(r) == coordinates(target, localTargets(r))

Abort(r) ==
  /\ stage[r] = "centers"
  /\ idsArrived(r)
  /\ \/ lacksSource(search, arrived(r), parents(r))
     \/ readsNothing(search, arrived(r), parents(r))
  /\ goTo(r, "aborted")
  /\ UNCHANGED <<app, target_domains, center_sends, dist_sources, pairs,
                 fields>>

\* Faulty variant: setSize() is forgotten.
sizeFound(stencil) == Len(stencil)

sizeUsed(stencil) == num_sources(Len(stencil))

lastUsed(stencil) == stencil[num_sources(Len(stencil))]

\* The local problem tells the pairing how many of the children it uses and
\* how far the last of them is; these are the columns of the row.
PairCenter(r, t) ==
  /\ stage[r] = "centers"
  /\ idsArrived(r)
  /\ ~ lacksSource(search, arrived(r), parents(r))
  /\ d_pairings[t] = <<>>
  /\ \E stencil \in stencils(search, arrived(r), target[t]) :
       /\ d_pairings' = [d_pairings EXCEPT ![t] = stencil]
       /\ d_pair_sizes' = [d_pair_sizes EXCEPT ![t] = sizeUsed(stencil)]
       /\ d_radii' = [d_radii EXCEPT
            ![t] = distance(target[t], source[lastUsed(stencil)])]
       /\ d_coupling_matrix' = [d_coupling_matrix EXCEPT
            ![t] = firstOf(stencil, num_sources(Len(stencil)))]
  /\ UNCHANGED <<app, stage, target_domains, center_sends, dist_sources, fields>>

\* The local targets all have their rows.
EnterFillComplete(r) ==
  /\ stage[r] = "centers"
  /\ idsArrived(r)
  /\ ~ lacksSource(search, arrived(r), parents(r))
  /\ \A t \in localTargets(r) : d_pairings[t] # <<>>
  /\ goTo(r, "rows")
  /\ UNCHANGED <<app, target_domains, center_sends, dist_sources, pairs, fields>>

FillComplete(r) ==
  /\ stage[r] = "rows"
  /\ passed(r, {"new", "gather", "send", "centers", "aborted"})
  /\ goTo(r, "ready")
  /\ UNCHANGED <<app, target_domains, center_sends, dist_sources, pairs,
                 fields>>

-----------------------------------------------------------------------------
(***************************************************************************)
(* apply(): pull the domain field, and post what other ranks' rows need.   *)
(* A rank that waits for nothing may be several calls ahead of others.     *)
(***************************************************************************)
call(r) == Len(X[r])

\* The targets' entries f, with those in the domain of g replaced.
updated(f, g) ==
  [t \in Targets |-> IF t \in DOMAIN g THEN g[t] ELSE f[t]]

BeginApply(r) ==
  /\ stage[r] = "ready"
  /\ call(r) < Len(calls)
  /\ \E x \in [localSources(r) -> app.values] :
       X' = [X EXCEPT ![r] = Append(@, x)]
  /\ goTo(r, "apply")
  /\ UNCHANGED <<app, target_domains, center_sends, dist_sources, pairs, Y,
                 disc_counts>>

\* Faulty variant: what was imported first is used again.
valueFirst(r, s) == X[SourceOwner[s]][1][s]

\* The value of the source s in the present call of rank r.
value(r, s) == X[SourceOwner[s]][call(r)][s]

\* What a row may give: polynomials reproduce constants.
reconstructed(values) ==
  IF \E v \in values : values = {v} THEN values ELSE Reconstructions

resolves(r) == search = "ring" /\ calls[call(r)] = "TRANS"

FinishProduct(r) ==
  /\ stage[r] = "apply"
  /\ \A t \in localTargets(r) : \A s \in d_coupling_matrix[t] :
       call(SourceOwner[s]) >= call(r)
  /\ \E y \in [localTargets(r) -> FieldValues \cup Reconstructions] :
       /\ \A t \in localTargets(r) :
            y[t] \in reconstructed({value(r, s) : s \in d_coupling_matrix[t]})
       /\ Y' = updated(Y, y)
  /\ goTo(r, IF resolves(r) THEN "post" ELSE "ready")
  /\ UNCHANGED <<app, target_domains, center_sends, dist_sources, pairs, X,
                 disc_counts>>

-----------------------------------------------------------------------------
(***************************************************************************)
(* apply(), mode TRANS: send the source values to all ranks that have the  *)
(* centre, and crop the targets where the result is not smooth.            *)
(***************************************************************************)
abs(v) == IF v < 0 THEN - v ELSE v

greatest(S, v) == v \in S /\ \A x \in S : x <= v

least(S, v) == v \in S /\ \A x \in S : v <= x

stencilValues(r, t) ==
  {value(r, s) : s \in firstOf(d_pairings[t], d_pair_sizes[t])}

\* With the values divided by the greatest of the sources, the result differs
\* from the nearest source by more than Sigma times its distance.
is_rough(r, t) ==
  LET near == d_pairings[t][1]
      h    == distance(target[t], source[near])
      diff == abs(value(r, near) - Y[t])
  IN \E m \in {abs(v) : v \in stencilValues(r, t)} :
       /\ \A v \in stencilValues(r, t) : abs(v) <= m
       /\ LET src_max == IF m = 0 THEN abs(Y[t]) ELSE m
          IN IF h = 0 /\ d_radii[t] # 0
             THEN diff # 0 /\ 100 * diff >= src_max
             ELSE diff > Sigma * src_max * h

\* The cropped value.  The search for the greatest starts at the smallest
\* positive double.
crop_extremes(S, v, w) ==
  \E lo, hi \in S \cup {0} :
    /\ least(S, lo)
    /\ greatest(S \cup {0}, hi)
    /\ w = IF lo <= v /\ v <= hi THEN v ELSE IF v >= hi THEN hi ELSE lo

\* Faulty variant: the ranks have to be in the same call.
valuesInStep(r) ==
  \A s \in dist_sources[r] :
    call(SourceOwner[s]) = call(r) /\ stage[SourceOwner[s]] = "post"

valuesArrived(r) ==
  \A s \in dist_sources[r] :
    LET q == SourceOwner[s]
    IN call(q) > call(r) \/ (call(q) = call(r) /\ stage[q] # "apply")

ResolveDiscontinuities(r) ==
  /\ stage[r] = "post"
  /\ valuesArrived(r)
  /\ \E y \in [localTargets(r) -> {Y[t] : t \in Targets} \cup FieldValues \cup {0}] :
       /\ \A t \in localTargets(r) :
            IF is_rough(r, t)
            THEN crop_extremes(stencilValues(r, t), Y[t], y[t])
            ELSE y[t] = Y[t]
       /\ Y' = updated(Y, y)
       /\ disc_counts' = [disc_counts EXCEPT
            ![r] = Cardinality({t \in localTargets(r) : y[t] # Y[t]})]
  /\ goTo(r, "ready")
  /\ UNCHANGED <<app, target_domains, center_sends, dist_sources, pairs, X>>

-----------------------------------------------------------------------------
CloudStep(r) ==
  \/ GatherDomain(r)
  \/ SendCenters(r)
  \/ ReceiveCenters(r)
  \/ Abort(r)
  \/ \E t \in localTargets(r) : PairCenter(r, t)
  \/ EnterFillComplete(r)
  \/ FillComplete(r)
  \/ BeginApply(r)
  \/ FinishProduct(r)
  \/ ResolveDiscontinuities(r)

CloudNext == \E r \in Ranks : CloudStep(r)

\* setup() and apply() are collective calls of one program on every rank.
CloudSpec ==
  /\ CloudInit
  /\ [][CloudNext]_cloudVars
  /\ \A r \in Ranks : WF_cloudVars(CloudStep(r))

-----------------------------------------------------------------------------
(***************************************************************************)
(* Properties.                                                             *)
(***************************************************************************)
Stages == {"new", "gather", "send", "centers", "aborted", "rows", "ready",
           "apply", "post"}

\* Every variable of the operator has its type.
TransferTypeOK ==
  /\ app \in Applications
  /\ stage \in [Ranks -> Stages]
  /\ target_domains \in [Ranks -> Box]
  /\ center_sends \in [Ranks -> SUBSET (Sources \X Ranks)]
  /\ dist_sources \in [Ranks -> SUBSET Sources]
  /\ d_pairings \in [Targets -> Seq(Sources)]
  /\ d_pair_sizes \in [Targets -> Nat]
  /\ d_radii \in [Targets -> Nat]
  /\ d_coupling_matrix \in [Targets -> SUBSET Sources]
  /\ X \in [Ranks -> Seq(UNION {[S -> FieldValues] : S \in SUBSET Sources})]
  /\ Y \in [Targets -> Int]
  /\ disc_counts \in [Ranks -> Nat]

distributed(r) == stage[r] \notin {"new", "gather", "send"}

\* However the centres are spread over the ranks, and although a rank looks at
\* boxes only, a source centre within the radius of a target reaches the rank
\* of the target.
NoSourceLost ==
  search \in {"radius", "ring"} =>
    \A t \in Targets : distributed(TargetOwner[t]) =>
      \A s \in Sources : distance(target[t], source[s]) <= Radius
                           => s \in dist_sources[TargetOwner[t]]

paired(t) == stage[TargetOwner[t]] \in {"rows", "ready", "apply", "post"}

\* The source s is in reach of rank r: between its targets, or no farther from
\* the outermost ones than their proximity.
inReach(s, r) ==
  \E p, q \in parents(r), w \in proximities(search, parents(r)) :
    10 * p - w <= 10 * source[s] /\ 10 * source[s] <= 10 * q + w

children(t) == {d_pairings[t][i] : i \in DOMAIN d_pairings[t]}

\* The children of a target do not depend on the decomposition: if a search of
\* all source centres of all ranks would find centres in reach of the target's
\* rank, the search on that rank finds such an answer too.  Ties, enlarged radii
\* and rings sized on the rank are included.
StencilIsGlobal ==
  \A t \in Targets : paired(t) =>
    \A S \in pairings(search, source, target[t]) :
      (\A s \in S : inReach(s, TargetOwner[t]))
        => children(t) \in pairings(search, source, target[t])

\* As many centres as a search by number asks for, of whatever ranks, are in
\* reach of the target's rank.
enoughInReach(t) ==
  search = "knn" =>
    Cardinality({s \in Sources : inReach(s, TargetOwner[t])}) >= NumNeighbors

\* No source centre counts twice for a target, although a search that finds too
\* few leaves places of the array of children at zero, the first centre.
ChildrenOnce ==
  \A t \in Targets : paired(t) /\ enoughInReach(t) =>
    \A i, j \in DOMAIN d_pairings[t] :
      d_pairings[t][i] = d_pairings[t][j] => i = j

\* Some search for t is sure to find a source centre, of any rank: one inside the
\* radius; for a ring not only centres at the very place of the target, which
\* make it empty; any one in reach for the searches by number.
covered(t) ==
  LET near == {s \in Sources : inReach(s, TargetOwner[t])}
      here == {s \in Sources : source[s] = target[t]}
  IN CASE search = "radius" ->
            \E s \in Sources : distance(target[t], source[s]) < Radius
       [] search = "ring" ->
            Cardinality(here) < RingPoints /\ ~ (near \subseteq here)
       [] OTHER -> near # {}

\* setup() fails on no rank if every rank has a target and every target is
\* covered by source centres of any ranks.
CoveredCloudsSetUp ==
  /\ \A r \in Ranks : localTargets(r) # {}
  /\ \A t \in Targets : covered(t)
  => \A r \in Ranks : stage[r] # "aborted"

called(r) == stage[r] = "ready" /\ X[r] # <<>>

\* A domain field that is uniform over the sources of a target, in the very
\* call of apply() the target's rank has finished, is uniform after the
\* transfer and is not taken for a discontinuity.
UniformFieldStays ==
  \A t \in Targets : called(TargetOwner[t]) =>
    \A v \in FieldValues :
      (\A s \in d_coupling_matrix[t] :
         X[SourceOwner[s]][Len(X[TargetOwner[t]])][s] = v)
        => Y[t] = v

\* The values at the sources of t's row, in the present call of t's rank.
rowValues(t) ==
  {X[SourceOwner[s]][Len(X[TargetOwner[t]])][s] : s \in d_coupling_matrix[t]}

cropped(t) ==
  /\ stage[TargetOwner[t]] = "post" /\ stage'[TargetOwner[t]] = "ready"
  /\ Y'[t] # Y[t]

\* A target that is cropped ends between the least of the values at the sources
\* its row uses - not at all its children, nor in another call - and the
\* greatest of these and zero.
CroppedIntoRow ==
  [][\A t \in Targets : cropped(t) =>
       /\ \E v \in rowValues(t) : v <= Y'[t]
       /\ \E v \in rowValues(t) \cup {0} : Y'[t] <= v]_cloudVars

\* DTK_MovingLeastSquareReconstructionOperator.hpp:171 says of the cropping
\* that it is "used to ensure the values are bounded locally in the stencil".
CroppedIntoStencil ==
  [][\A t \in Targets : cropped(t) =>
       \E v, w \in rowValues(t) : v <= Y'[t] /\ Y'[t] <= w]_cloudVars

\* DTK_MovingLeastSquareReconstructionOperator_impl.hpp:206 says of the
\* proximity by which the boxes grow, for either kind of search, that it is
\* there "to ensure we find all of our neighbors in parallel".
NeighborsFoundInParallel ==
  \A t \in Targets : paired(t) =>
    children(t) \in pairings(search, source, target[t])

\* Every rank returns from setup() and all its calls of apply(), unless setup()
\* fails on one.
CallsReturn ==
  \/ <>(\E r \in Ranks : stage[r] = "aborted")
  \/ <>(\A r \in Ranks : stage[r] = "ready" /\ call(r) = Len(calls))
=============================================================================
