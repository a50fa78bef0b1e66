-------------------------- MODULE PointCloudProofs --------------------------
(***************************************************************************)
(* Proofs about the distribution of source centres and the transfer with a *)
(* matrix over point clouds.                                               *)
(***************************************************************************)
EXTENDS PointCloudTransfer, PointCloudGeometryProofs

\* The program keeps to its type and never changes.
AppOK ==
  /\ app \in Applications
  /\ search \in Searches
  /\ source \in [Sources -> Int] /\ SourceOwner \in [Sources -> Ranks]
  /\ target \in [Targets -> Int] /\ TargetOwner \in [Targets -> Ranks]
  /\ app.values \in SUBSET FieldValues

StagesOK == stage \in [Ranks -> Stages]

\* A rank that has left a collective is behind nobody that has not entered it.
StagesInOrder ==
  \A p, q \in Ranks :
    /\ stage[p] \notin {"new", "gather"} => stage[q] # "new"
    /\ distributed(p) => stage[q] \notin {"new", "gather"}

(***************************************************************************)
(* What is handed on during setup().                                       *)
(***************************************************************************)
DomainsOK == target_domains \in [Ranks -> Box]

\* The point p is between the targets of rank r, or no farther from the
\* outermost ones than their proximity.
reaches(r, p) ==
  \E x, y \in parents(r), w \in proximities(search, parents(r)) :
    10 * x - w <= 10 * p /\ 10 * p <= 10 * y + w

\* The box a rank gathers holds all that is in reach of the rank.
DomainsCover ==
  \A r \in Ranks : stage[r] # "new" =>
    \A p \in Int : reaches(r, p) => pointInDomain(p, target_domains[r])

\* A rank sends its centres to every rank in whose box they are.
SendsOK ==
  /\ center_sends \in [Ranks -> SUBSET (Sources \X Ranks)]
  /\ \A s \in Sources, q \in Ranks :
       /\ stage[SourceOwner[s]] \notin {"new", "gather"}
       /\ pointInDomain(source[s], target_domains[q])
       => <<s, q>> \in center_sends[SourceOwner[s]]

\* What was sent to a rank has arrived.
SourcesOK ==
  /\ dist_sources \in [Ranks -> SUBSET Sources]
  /\ \A r \in Ranks : distributed(r) =>
       \A q \in Ranks, s \in Sources :
         <<s, r>> \in center_sends[q] => s \in dist_sources[r]

DistributionInv ==
  /\ AppOK
  /\ StagesOK
  /\ StagesInOrder
  /\ DomainsOK
  /\ DomainsCover
  /\ SendsOK
  /\ SourcesOK

-----------------------------------------------------------------------------
(***************************************************************************)
(* The distribution of centres.                                            *)
(***************************************************************************)
LEMMA AppKept ==
  ASSUME NEW r \in Ranks, CloudStep(r)
  PROVE  app' = app
  BY DEF CloudStep, GatherDomain, SendCenters, ReceiveCenters, Abort,
     PairCenter, EnterFillComplete, FillComplete, BeginApply, FinishProduct,
     ResolveDiscontinuities

\* A step after the centres have arrived leaves the distribution alone.
LEMMA LaterStep ==
  ASSUME StagesOK, NEW r \in Ranks, CloudStep(r),
         stage[r] \notin {"new", "gather", "send"}
  PROVE  /\ UNCHANGED <<app, target_domains, center_sends, dist_sources>>
         /\ stage' = [stage EXCEPT ![r] = stage'[r]]
         /\ stage'[r] \in Stages \ {"new", "gather", "send"}
  BY DEF CloudStep, GatherDomain, SendCenters, ReceiveCenters, Abort,
     PairCenter, EnterFillComplete, FillComplete, BeginApply, FinishProduct,
     ResolveDiscontinuities, goTo, StagesOK, Stages

\* The step of an early stage is that of the stage.
LEMMA EarlyStep ==
  ASSUME NEW r \in Ranks, CloudStep(r)
  PROVE  /\ stage[r] = "new" => GatherDomain(r)
         /\ stage[r] = "gather" => SendCenters(r)
         /\ stage[r] = "send" => ReceiveCenters(r)
  BY DEF CloudStep, GatherDomain, SendCenters, ReceiveCenters, Abort,
     PairCenter, EnterFillComplete, FillComplete, BeginApply, FinishProduct,
     ResolveDiscontinuities

LEMMA StagesStep ==
  ASSUME StagesOK, StagesInOrder, NEW r \in Ranks, CloudStep(r)
  PROVE  /\ StagesOK'
         /\ StagesInOrder'
         /\ \A q \in Ranks \ {r} : stage'[q] = stage[q]
<1>1. CASE stage[r] = "new"
  <2>1. stage' = [stage EXCEPT ![r] = "gather"]
    BY <1>1, EarlyStep DEF GatherDomain, goTo
  <2> QED
    BY <1>1, <2>1 DEF StagesOK, StagesInOrder, Stages, distributed
<1>2. CASE stage[r] = "gather"
  <2>1. /\ stage' = [stage EXCEPT ![r] = "send"]
        /\ \A q \in Ranks : stage[q] # "new"
    BY <1>2, EarlyStep DEF SendCenters, goTo, passed
  <2> QED
    BY <1>2, <2>1 DEF StagesOK, StagesInOrder, Stages, distributed
<1>3. CASE stage[r] = "send"
  <2>1. /\ stage' = [stage EXCEPT ![r] = "centers"]
        /\ \A q \in Ranks : stage[q] \notin {"new", "gather"}
    BY <1>3, EarlyStep DEF ReceiveCenters, goTo, passed
  <2> QED
    BY <1>3, <2>1 DEF StagesOK, StagesInOrder, Stages, distributed
<1>4. CASE stage[r] \notin {"new", "gather", "send"}
  BY <1>4, LaterStep DEF StagesOK, StagesInOrder, Stages, distributed
<1> QED
  BY <1>1, <1>2, <1>3, <1>4

\* The coordinates of the sources and targets of a rank.
LEMMA LocalCenters ==
  ASSUME AppOK, NEW r \in Ranks
  PROVE  /\ coordinates(target, localTargets(r)) \in SUBSET Int
         /\ coordinates(source, localSources(r)) \in SUBSET Int
         /\ \A t \in localTargets(r) :
              target[t] \in coordinates(target, localTargets(r))
         /\ \A s \in localSources(r) :
              source[s] \in coordinates(source, localSources(r))
  BY DEF AppOK, coordinates, localTargets, localSources

\* What a rank contributes to the gather.
LEMMA GatheredBox ==
  ASSUME AppOK, StagesOK, DomainsOK, NEW r \in Ranks, GatherDomain(r)
  PROVE  /\ target_domains' \in [Ranks -> Box]
         /\ \A q \in Ranks \ {r} : target_domains'[q] = target_domains[q]
         /\ \A p \in Int : reaches(r, p) => pointInDomain(p, target_domains'[r])
<1> DEFINE points == coordinates(target, localTargets(r))
<1>1. points \in SUBSET Int /\ \A t \in localTargets(r) : target[t] \in points
  BY LocalCenters
<1>0. search \in Searches /\ points = parents(r)
  BY DEF AppOK, parents
<1>2. CASE search = "knn" /\ points = {}
           /\ target_domains' = [target_domains EXCEPT ![r] = nowhere]
  <2>1. nowhere \in Box
    BY DEF nowhere, Box
  <2>2. \A p \in Int : ~ reaches(r, p)
    BY <1>0, <1>2 DEF reaches
  <2> QED
    BY <1>2, <2>1, <2>2 DEF DomainsOK
<1>3. CASE \E lo, hi \in points \cup {0}, w \in proximities(search, points) :
             /\ localCloudDomain(points, [lo |-> lo, hi |-> hi])
             /\ target_domains' = [target_domains EXCEPT
                  ![r] = expand([lo |-> lo, hi |-> hi], w)]
  <2>1. PICK lo \in points \cup {0}, hi \in points \cup {0},
             w \in proximities(search, points) :
             /\ localCloudDomain(points, [lo |-> lo, hi |-> hi])
             /\ target_domains' = [target_domains EXCEPT
                  ![r] = expand([lo |-> lo, hi |-> hi], w)]
    BY <1>3
  <2> DEFINE b == [lo |-> lo, hi |-> hi]
  <2>2. b \in Box /\ b.lo = lo /\ b.hi = hi
    BY <1>1 DEF Box
  <2>3. w \in Nat /\ \A v \in proximities(search, points) : v = w
    BY <1>0, <1>1, ProximityTypes
  <2>4. expand(b, w) \in Box
    BY <2>2, <2>3, ExpandType
  <2>5. /\ target_domains' = [target_domains EXCEPT ![r] = expand(b, w)]
        /\ target_domains'[r] = expand(b, w)
    BY <2>1 DEF DomainsOK
  <2>6. \A x \in points : b.lo <= x /\ x <= b.hi
    BY <2>1 DEF localCloudDomain
  <2>7. ASSUME NEW p \in Int, reaches(r, p)
        PROVE  pointInDomain(p, expand(b, w))
    <3>1. PICK x \in points, y \in points :
            10 * x - w <= 10 * p /\ 10 * p <= 10 * y + w
      BY <1>0, <2>3, <2>7 DEF reaches
    <3>2. x \in Int /\ y \in Int /\ b.lo <= x /\ y <= b.hi
      BY <1>1, <2>6
    <3> HIDE DEF b
    <3> QED
      BY <2>2, <2>3, <3>1, <3>2, ExpandedHullHolds
  <2> HIDE DEF b
  <2> QED
    BY <2>4, <2>5, <2>7 DEF DomainsOK
<1> QED
  BY <1>2, <1>3 DEF GatherDomain

\* What a rank exports.
LEMMA SentCenters ==
  ASSUME AppOK, StagesOK, DomainsOK, SendsOK, NEW r \in Ranks, SendCenters(r)
  PROVE  /\ center_sends' \in [Ranks -> SUBSET (Sources \X Ranks)]
         /\ \A q \in Ranks \ {r} : center_sends'[q] = center_sends[q]
         /\ \A s \in localSources(r), q \in Ranks :
              pointInDomain(source[s], target_domains[q])
                => <<s, q>> \in center_sends'[r]
<1> DEFINE points == coordinates(source, localSources(r))
<1>1. points \in SUBSET Int /\ \A s \in localSources(r) : source[s] \in points
  BY LocalCenters
<1>2. PICK lo \in points \cup {0}, hi \in points \cup {0} :
        /\ localCloudDomain(points, [lo |-> lo, hi |-> hi])
        /\ center_sends' = [center_sends EXCEPT
             ![r] = exports(cloud(localSources(r)), [lo |-> lo, hi |-> hi],
                            target_domains)]
  BY DEF SendCenters
<1> DEFINE b == [lo |-> lo, hi |-> hi]
           E == exports(cloud(localSources(r)), b, target_domains)
<1>3. b \in Box /\ b.lo = lo /\ b.hi = hi
  BY <1>1 DEF Box
<1>4. \A x \in points : b.lo <= x /\ x <= b.hi
  BY <1>2 DEF localCloudDomain
<1>5. /\ DOMAIN cloud(localSources(r)) = localSources(r)
      /\ \A s \in localSources(r) : cloud(localSources(r))[s] = source[s]
      /\ localSources(r) \in SUBSET Sources
      /\ DOMAIN target_domains = Ranks
  BY DEF cloud, restricted, DomainsOK, localSources
<1>6. center_sends'[r] = E /\ center_sends' = [center_sends EXCEPT ![r] = E]
  BY <1>2 DEF SendsOK
<1> HIDE DEF b
<1>7. E \in SUBSET (Sources \X Ranks)
  BY <1>5 DEF exports
<1>8. ASSUME NEW s \in localSources(r), NEW q \in Ranks,
             pointInDomain(source[s], target_domains[q])
      PROVE  <<s, q>> \in E
  <2>1. source[s] \in Int /\ target_domains[q] \in Box
    BY <1>1 DEF DomainsOK
  <2>2. checkForIntersection(b, target_domains[q])
    BY <1>1, <1>3, <1>4, <1>8, <2>1, IntersectionMissesNothing
  <2> QED
    BY <1>5, <1>8, <2>2 DEF exports
<1> HIDE DEF E
<1> QED
  BY <1>6, <1>7, <1>8 DEF SendsOK

LEMMA DistributionInit ==
  ASSUME CloudInit
  PROVE  DistributionInv
<1>1. app \in Application
  BY ApplicationsAssumption DEF CloudInit
<1>2. AppOK
  BY <1>1 DEF CloudInit, AppOK, Application, search, source, target,
     SourceOwner, TargetOwner
<1>3. nowhere \in Box
  BY DEF nowhere, Box
<1>4. StagesOK /\ StagesInOrder
  BY DEF CloudInit, StagesOK, Stages, StagesInOrder, distributed
<1>5. DomainsOK
  BY <1>3 DEF CloudInit, DomainsOK
<1>6. DomainsCover /\ SendsOK /\ SourcesOK
  BY <1>2 DEF AppOK, CloudInit, DomainsCover, SendsOK, SourcesOK, distributed
<1> QED
  BY <1>2, <1>4, <1>5, <1>6 DEF DistributionInv

\* Neither the centres nor their ranks change.
LEMMA ProgramKept ==
  ASSUME app' = app
  PROVE  /\ search' = search /\ source' = source /\ target' = target
         /\ SourceOwner' = SourceOwner /\ TargetOwner' = TargetOwner
         /\ AppOK => AppOK'
         /\ \A r \in Ranks, p \in Int : reaches(r, p)' <=> reaches(r, p)
  BY DEF search, source, target, SourceOwner, TargetOwner, AppOK, reaches,
     parents, localTargets

LEMMA DistributionStep ==
  ASSUME DistributionInv, NEW r \in Ranks, CloudStep(r)
  PROVE  DistributionInv'
<1> USE DEF DistributionInv
<1>1. /\ StagesOK' /\ StagesInOrder'
      /\ \A q \in Ranks \ {r} : stage'[q] = stage[q]
  BY StagesStep
<1>2. app' = app
  BY AppKept
<1>3. /\ AppOK'
      /\ search' = search /\ source' = source /\ target' = target
      /\ SourceOwner' = SourceOwner /\ TargetOwner' = TargetOwner
      /\ \A q \in Ranks, p \in Int : reaches(q, p)' <=> reaches(q, p)
  BY <1>2, ProgramKept
<1>4. CASE stage[r] = "new"
  <2>1. GatherDomain(r)
    BY <1>4, EarlyStep
  <2>2. UNCHANGED <<center_sends, dist_sources>> /\ stage'[r] = "gather"
    BY <2>1 DEF GatherDomain, goTo, StagesOK
  <2>3. /\ DomainsOK'
        /\ \A q \in Ranks \ {r} : target_domains'[q] = target_domains[q]
        /\ \A p \in Int : reaches(r, p) => pointInDomain(p, target_domains'[r])
    BY <2>1, GatheredBox DEF DomainsOK
  <2>4. DomainsCover'
    <3> SUFFICES ASSUME NEW q \in Ranks, stage'[q] # "new", NEW p \in Int,
                        reaches(q, p)
                 PROVE  pointInDomain(p, target_domains'[q])
      BY <1>3 DEF DomainsCover
    <3>1. CASE q = r
      BY <2>3, <3>1
    <3>2. CASE q # r
      BY <1>1, <2>3, <3>2 DEF DomainsCover
    <3> QED
      BY <3>1, <3>2
  <2>5. \A q \in Ranks : stage[q] \in {"new", "gather"}
                         /\ stage'[q] \in {"new", "gather"}
    BY <1>1, <1>4, <2>2 DEF StagesInOrder
  <2>6. SendsOK' /\ SourcesOK'
    BY <1>3, <2>2, <2>5 DEF SendsOK, SourcesOK, distributed, AppOK
  <2> QED
    BY <1>1, <1>3, <2>3, <2>4, <2>6
<1>5. CASE stage[r] = "gather"
  <2>1. SendCenters(r)
    BY <1>5, EarlyStep
  <2>2. /\ UNCHANGED <<target_domains, dist_sources>>
        /\ stage'[r] = "send"
    BY <2>1 DEF SendCenters, goTo, StagesOK
  <2>3. DomainsOK' /\ DomainsCover'
    BY <1>1, <1>3, <1>5, <2>2 DEF DomainsOK, DomainsCover, AppOK
  <2>4. /\ center_sends' \in [Ranks -> SUBSET (Sources \X Ranks)]
        /\ \A q \in Ranks \ {r} : center_sends'[q] = center_sends[q]
        /\ \A s \in localSources(r), q \in Ranks :
             pointInDomain(source[s], target_domains[q])
               => <<s, q>> \in center_sends'[r]
    BY <2>1, SentCenters
  <2>5. SendsOK'
    <3> SUFFICES ASSUME NEW s \in Sources, NEW q \in Ranks,
                        stage'[SourceOwner[s]] \notin {"new", "gather"},
                        pointInDomain(source[s], target_domains[q])
                 PROVE  <<s, q>> \in center_sends'[SourceOwner[s]]
      BY <1>3, <2>2, <2>4 DEF SendsOK
    <3>1. CASE SourceOwner[s] = r
      BY <2>4, <3>1 DEF localSources
    <3>2. CASE SourceOwner[s] # r
      BY <1>1, <2>4, <3>2 DEF SendsOK, AppOK
    <3> QED
      BY <3>1, <3>2
  <2>6. \A q \in Ranks : ~ distributed(q) /\ ~ distributed(q)'
    BY <1>1, <1>5, <2>2 DEF StagesInOrder, distributed
  <2>7. SourcesOK'
    BY <2>2, <2>6 DEF SourcesOK
  <2> QED
    BY <1>1, <1>3, <2>3, <2>5, <2>7
<1>6. CASE stage[r] = "send"
  <2>1. ReceiveCenters(r)
    BY <1>6, EarlyStep
  <2>2. /\ UNCHANGED <<target_domains, center_sends>>
        /\ stage'[r] = "centers"
    BY <2>1 DEF ReceiveCenters, goTo, StagesOK
  <2>3. DomainsOK' /\ DomainsCover' /\ SendsOK'
    BY <1>1, <1>3, <1>6, <2>2 DEF DomainsOK, DomainsCover, SendsOK, AppOK
  <2>4. dist_sources' = [dist_sources EXCEPT
          ![r] = {s \in Sources : \E q \in Ranks : <<s, r>> \in center_sends[q]}]
    BY <2>1 DEF ReceiveCenters
  <2>5. SourcesOK'
    BY <1>1, <2>2, <2>4 DEF SourcesOK, distributed
  <2> QED
    BY <1>1, <1>3, <2>3, <2>5
<1>7. CASE stage[r] \notin {"new", "gather", "send"}
  <2>1. /\ UNCHANGED <<app, target_domains, center_sends, dist_sources>>
        /\ stage'[r] \notin {"new", "gather", "send"}
    BY <1>7, LaterStep
  <2>2. \A q \in Ranks :
          /\ (stage'[q] # "new") = (stage[q] # "new")
          /\ (stage'[q] \notin {"new", "gather"})
               = (stage[q] \notin {"new", "gather"})
          /\ distributed(q)' = distributed(q)
    BY <1>1, <1>7, <2>1 DEF distributed
  <2>3. DomainsOK' /\ SendsOK' /\ SourcesOK' /\ DomainsCover'
    BY <1>3, <2>1, <2>2 DEF DomainsOK, SendsOK, SourcesOK, DomainsCover, AppOK
  <2> QED
    BY <1>1, <1>3, <2>3
<1> QED
  BY <1>4, <1>5, <1>6, <1>7

LEMMA DistributionStutter ==
  ASSUME DistributionInv, UNCHANGED cloudVars
  PROVE  DistributionInv'
<1>1. /\ app' = app /\ stage' = stage /\ target_domains' = target_domains
      /\ center_sends' = center_sends /\ dist_sources' = dist_sources
  BY DEF cloudVars
<1>2. /\ search' = search /\ source' = source /\ target' = target
      /\ SourceOwner' = SourceOwner /\ TargetOwner' = TargetOwner
      /\ \A r \in Ranks, p \in Int : reaches(r, p)' <=> reaches(r, p)
      /\ AppOK'
  BY <1>1, ProgramKept DEF DistributionInv
<1> QED
  BY <1>1, <1>2 DEF DistributionInv, StagesOK, StagesInOrder, DomainsOK,
     DomainsCover, SendsOK, SourcesOK, distributed

\* The distribution is at every moment what it should be: the boxes hold the
\* radius, what lies in them is sent, what is sent arrives.
THEOREM DistributionInvariant == CloudSpec => []DistributionInv
<1>1. CloudInit => DistributionInv
  BY DistributionInit
<1>2. DistributionInv /\ [CloudNext]_cloudVars => DistributionInv'
  BY DistributionStep, DistributionStutter DEF CloudNext
<1> QED
  BY <1>1, <1>2, PTL DEF CloudSpec

LEMMA NearSourcesArrive ==
  ASSUME DistributionInv, NEW r \in Ranks, distributed(r),
         NEW s \in Sources, reaches(r, source[s])
  PROVE  s \in dist_sources[r]
<1> USE DEF DistributionInv
<1>1. SourceOwner[s] \in Ranks /\ source[s] \in Int
  BY DEF AppOK
<1>2. pointInDomain(source[s], target_domains[r])
  BY <1>1 DEF DomainsCover, distributed
<1>3. stage[SourceOwner[s]] \notin {"new", "gather"}
  BY <1>1 DEF StagesInOrder
<1>4. <<s, r>> \in center_sends[SourceOwner[s]]
  BY <1>1, <1>2, <1>3 DEF SendsOK
<1> QED
  BY <1>1, <1>4 DEF SourcesOK

\* What is in the proximity of a target is in reach of its rank.
LEMMA AroundTarget ==
  ASSUME AppOK, NEW t \in Targets, NEW p \in Int,
         NEW w \in proximities(search, parents(TargetOwner[t])), w \in Int,
         10 * distance(target[t], p) <= w
  PROVE  reaches(TargetOwner[t], p)
<1>1. target[t] \in parents(TargetOwner[t]) /\ target[t] \in Int
  BY DEF AppOK, parents, coordinates, localTargets
<1>2. 10 * target[t] - w <= 10 * p /\ 10 * p <= 10 * target[t] + w
  BY <1>1 DEF distance
<1> QED
  BY <1>1, <1>2 DEF reaches

\* No rank lacks a source centre within the radius of its targets, for every
\* partition of the centres and although only boxes are compared.
THEOREM NoSourceIsLost == CloudSpec => []NoSourceLost
<1>1. DistributionInv => NoSourceLost
  <2> SUFFICES ASSUME DistributionInv, search \in {"radius", "ring"},
                      NEW t \in Targets, distributed(TargetOwner[t]),
                      NEW s \in Sources,
                      distance(target[t], source[s]) <= Radius
               PROVE  s \in dist_sources[TargetOwner[t]]
    BY DEF NoSourceLost
  <2>1. /\ 10 * Radius \in proximities(search, parents(TargetOwner[t]))
        /\ 10 * Radius \in Int
    BY CloudAssumption DEF proximities
  <2>2. target[t] \in Int /\ source[s] \in Int /\ TargetOwner[t] \in Ranks
    BY DEF DistributionInv, AppOK
  <2>3. 10 * distance(target[t], source[s]) <= 10 * Radius
    <3> DEFINE d == distance(target[t], source[s])
    <3>1. d \in Nat /\ d <= Radius
      BY <2>2, DistanceType
    <3> HIDE DEF d
    <3>2. 10 * d <= 10 * Radius
      BY <3>1, CloudAssumption
    <3> QED
      BY <3>2 DEF d
  <2>4. reaches(TargetOwner[t], source[s])
    BY <2>1, <2>2, <2>3, AroundTarget DEF DistributionInv
  <2> QED
    BY <2>2, <2>4, NearSourcesArrive
<1> QED
  BY <1>1, DistributionInvariant, PTL

-----------------------------------------------------------------------------
(***************************************************************************)
(* The children of a target and its row.                                   *)
(***************************************************************************)
\* The rows are made of the children.
RowOK(t) ==
  /\ d_pairings[t] \in Seq(Sources)
  /\ d_pair_sizes[t] \in Nat
  /\ d_radii[t] \in Nat
  /\ d_coupling_matrix[t] = firstOf(d_pairings[t], d_pair_sizes[t])
  /\ d_coupling_matrix[t] \in SUBSET Sources
  /\ d_pairings[t] # <<>> => d_pairings[t][1] \in d_coupling_matrix[t]

RowTypes ==
  /\ d_pairings \in [Targets -> Seq(Sources)]
  /\ d_pair_sizes \in [Targets -> Nat]
  /\ d_radii \in [Targets -> Nat]
  /\ d_coupling_matrix \in [Targets -> SUBSET Sources]

RowsOK ==
  /\ RowTypes
  /\ \A t \in Targets : RowOK(t)
  /\ \A t \in Targets : paired(t) => d_pairings[t] # <<>>

LEMMA RowInit ==
  ASSUME CloudInit
  PROVE  RowsOK
<1>1. \A t \in Targets : d_coupling_matrix[t] = firstOf(d_pairings[t], d_pair_sizes[t])
  BY DEF CloudInit, firstOf
<1>2. \A t \in Targets : ~ paired(t)
  <2>1. AppOK
    BY DistributionInit DEF DistributionInv
  <2> QED
    BY <2>1 DEF CloudInit, paired, AppOK
<1>3. /\ \A t \in Targets : d_pairings[t] = <<>> /\ d_pair_sizes[t] = 0
                            /\ d_radii[t] = 0 /\ d_coupling_matrix[t] = {}
  BY DEF CloudInit
<1>4. ASSUME NEW t \in Targets
      PROVE  RowOK(t)
  <2>1. <<>> \in Seq(Sources) /\ 0 \in Nat /\ {} \in SUBSET Sources
    OBVIOUS
  <2> QED
    BY <1>1, <1>3, <2>1 DEF RowOK
<1>5. RowTypes
  <2>1. <<>> \in Seq(Sources) /\ 0 \in Nat /\ {} \in SUBSET Sources
    OBVIOUS
  <2> QED
    BY <2>1 DEF CloudInit, RowTypes
<1> QED
  BY <1>2, <1>4, <1>5 DEF RowsOK

\* The row of a target, when it is paired.
LEMMA PairedRow ==
  ASSUME DistributionInv, NEW r \in Ranks, NEW t \in localTargets(r),
         RowsOK, PairCenter(r, t)
  PROVE  /\ RowOK(t)' /\ d_pairings'[t] # <<>>
         /\ \A e \in Targets \ {t} :
              /\ d_pairings'[e] = d_pairings[e]
              /\ d_pair_sizes'[e] = d_pair_sizes[e]
              /\ d_radii'[e] = d_radii[e]
              /\ d_coupling_matrix'[e] = d_coupling_matrix[e]
         /\ RowTypes'
<1> USE DEF DistributionInv
<1> DEFINE D == dist_sources[r]
           C == arrived(r)
<1>1. D \in SUBSET Sources /\ IsFiniteSet(D)
  BY CentersAssumption, FS_Subset DEF SourcesOK
<1>2. C \in [D -> Int]
  BY <1>1 DEF arrived, cloud, restricted, AppOK
<1>3. t \in Targets /\ target[t] \in Int /\ target[t] \in parents(r)
  BY DEF localTargets, parents, coordinates, AppOK
<1>4. {} \notin pairings(search, C, target[t])
  BY <1>3 DEF PairCenter, lacksSource
<1>5. PICK stencil \in stencils(search, C, target[t]) :
       /\ d_pairings' = [d_pairings EXCEPT ![t] = stencil]
       /\ d_pair_sizes' = [d_pair_sizes EXCEPT ![t] = sizeUsed(stencil)]
       /\ d_radii' = [d_radii EXCEPT
            ![t] = distance(target[t], source[lastUsed(stencil)])]
       /\ d_coupling_matrix' = [d_coupling_matrix EXCEPT
            ![t] = firstOf(stencil, num_sources(Len(stencil)))]
  BY DEF PairCenter
<1> HIDE DEF C, D
<1>6. search \in Searches
  BY DEF AppOK
<1>7. stencil \in Seq(D) /\ Len(stencil) \in Nat \ {0}
  BY <1>1, <1>2, <1>3, <1>4, <1>6, StencilType
<1>8. stencil \in Seq(Sources) /\ stencil # <<>>
  BY <1>1, <1>7
<1> DEFINE n == num_sources(Len(stencil))
<1>9. /\ n \in Nat \ {0} /\ stencil[n] \in Sources
      /\ stencil[1] \in firstOf(stencil, n)
      /\ firstOf(stencil, n) \in SUBSET Sources
  BY <1>7, <1>8, UsedChildren
<1>10. distance(target[t], source[stencil[n]]) \in Nat
  BY <1>3, <1>9, DistanceType DEF AppOK
<1>11. /\ d_pairings'[t] = stencil
       /\ d_pair_sizes'[t] = n
       /\ d_radii'[t] = distance(target[t], source[stencil[n]])
       /\ d_coupling_matrix'[t] = firstOf(stencil, n)
  BY <1>3, <1>5 DEF RowsOK, RowTypes, sizeUsed, lastUsed
<1>12. RowTypes'
  BY <1>3, <1>5, <1>8, <1>9, <1>10 DEF RowsOK, RowTypes, sizeUsed, lastUsed
<1> HIDE DEF n
<1>13. RowOK(t)' /\ d_pairings'[t] # <<>>
  BY <1>8, <1>9, <1>10, <1>11 DEF RowOK
<1> QED
  BY <1>5, <1>12, <1>13 DEF RowsOK, RowTypes

\* Every step but that of a pairing leaves the rows alone.
LEMMA PairsKept ==
  ASSUME NEW r \in Ranks, CloudStep(r), ~ \E t \in localTargets(r) : PairCenter(r, t)
  PROVE  UNCHANGED pairs
  BY DEF CloudStep, GatherDomain, SendCenters, ReceiveCenters, Abort,
     EnterFillComplete, FillComplete, BeginApply, FinishProduct,
     ResolveDiscontinuities

\* A rank goes to the rows when all its targets are paired, and not before.
LEMMA PairedSince ==
  ASSUME DistributionInv, NEW r \in Ranks, CloudStep(r),
         NEW t \in Targets, paired(t)'
  PROVE  /\ TargetOwner'[t] = TargetOwner[t]
         /\ paired(t) \/ (TargetOwner[t] = r /\ d_pairings[t] # <<>>)
<1>1. TargetOwner' = TargetOwner
  BY AppKept, ProgramKept
<1>2. /\ stage \in [Ranks -> Stages] /\ stage' \in [Ranks -> Stages]
      /\ \A q \in Ranks \ {r} : stage'[q] = stage[q]
  BY StagesStep DEF DistributionInv, StagesOK
<1>3. CASE TargetOwner[t] # r
  BY <1>1, <1>2, <1>3 DEF paired, DistributionInv, AppOK
<1>4. CASE TargetOwner[t] = r
  <2>1. stage[r] \in {"centers", "rows", "ready", "apply", "post"}
    BY <1>1, <1>2, <1>4 DEF paired, CloudStep, GatherDomain, SendCenters,
       ReceiveCenters, Abort, PairCenter, EnterFillComplete, FillComplete,
       BeginApply, FinishProduct, ResolveDiscontinuities, goTo
  <2>2. CASE stage[r] = "centers"
    <3>1. EnterFillComplete(r)
      BY <1>1, <1>2, <1>4, <2>2 DEF paired, CloudStep, GatherDomain,
         SendCenters, ReceiveCenters, Abort, PairCenter, FillComplete,
         BeginApply, FinishProduct, ResolveDiscontinuities, goTo
    <3> QED
      BY <1>1, <1>4, <3>1 DEF EnterFillComplete, localTargets
  <2> QED
    BY <1>1, <1>4, <2>1, <2>2 DEF paired
<1> QED
  BY <1>1, <1>3, <1>4

LEMMA RowsStep ==
  ASSUME DistributionInv, RowsOK, NEW r \in Ranks, CloudStep(r)
  PROVE  RowsOK'
<1>1. CASE \E t \in localTargets(r) : PairCenter(r, t)
  <2>1. PICK t \in localTargets(r) : PairCenter(r, t)
    BY <1>1
  <2>2. t \in Targets
    BY DEF localTargets
  <2>3. ASSUME NEW e \in Targets
        PROVE  RowOK(e)' /\ (paired(e)' => d_pairings'[e] # <<>>)
    <3>1. CASE e = t
      BY <2>1, <3>1, PairedRow
    <3>2. CASE e # t
      <4>1. /\ d_pairings'[e] = d_pairings[e]
            /\ d_pair_sizes'[e] = d_pair_sizes[e]
            /\ d_radii'[e] = d_radii[e]
            /\ d_coupling_matrix'[e] = d_coupling_matrix[e]
        BY <2>1, <3>2, PairedRow
      <4>2. RowOK(e) /\ (paired(e) => d_pairings[e] # <<>>)
        BY DEF RowsOK
      <4> QED
        BY <4>1, <4>2, PairedSince DEF RowOK
    <3> QED
      BY <3>1, <3>2
  <2> QED
    BY <2>1, <2>3, PairedRow DEF RowsOK
<1>2. CASE ~ \E t \in localTargets(r) : PairCenter(r, t)
  <2>1. /\ d_pairings' = d_pairings /\ d_pair_sizes' = d_pair_sizes
        /\ d_radii' = d_radii /\ d_coupling_matrix' = d_coupling_matrix
    BY <1>2, PairsKept DEF pairs
  <2>2. \A t \in Targets : RowOK(t)'
    BY <2>1 DEF RowsOK, RowOK
  <2>3. \A t \in Targets : paired(t)' => d_pairings'[t] # <<>>
    BY <2>1, PairedSince DEF RowsOK
  <2>4. RowTypes'
    BY <2>1 DEF RowsOK, RowTypes
  <2> QED
    BY <2>2, <2>3, <2>4 DEF RowsOK
<1> QED
  BY <1>1, <1>2

-----------------------------------------------------------------------------
(***************************************************************************)
(* What the children are: an answer of the search on the rank.             *)
(***************************************************************************)
\* A search by number on rank r finds as many as it asks for.
enoughArrived(r) ==
  search = "knn" => NumNeighbors <= Cardinality(DOMAIN arrived(r))

\* The children are an answer of the search, each once if there are enough.
ChildrenOK ==
  \A t \in Targets : d_pairings[t] # <<>> =>
    /\ distributed(TargetOwner[t])
    /\ children(t) \in pairings(search, arrived(TargetOwner[t]), target[t])
    /\ enoughArrived(TargetOwner[t]) => IsInjective(d_pairings[t])

LEMMA ChildrenInit ==
  ASSUME CloudInit
  PROVE  ChildrenOK
  BY DEF CloudInit, ChildrenOK

\* The centres that have arrived on a rank stay what they are.
LEMMA ArrivedStay ==
  ASSUME DistributionInv, NEW r \in Ranks, CloudStep(r),
         NEW q \in Ranks, distributed(q)
  PROVE  distributed(q)' /\ arrived(q)' = arrived(q)
<1> USE DEF DistributionInv
<1>1. /\ \A p \in Ranks \ {r} : stage'[p] = stage[p]
      /\ source' = source
  BY StagesStep, AppKept, ProgramKept
<1>2. CASE stage[r] \notin {"new", "gather", "send"}
  <2>1. dist_sources' = dist_sources /\ stage'[r] \notin {"new", "gather", "send"}
    BY <1>2, LaterStep
  <2> QED
    BY <1>1, <2>1 DEF distributed, arrived, cloud
<1>3. CASE stage[r] \in {"new", "gather", "send"}
  <2>1. q # r
    BY <1>3 DEF distributed
  <2>2. dist_sources'[q] = dist_sources[q]
    BY <1>3, <2>1, EarlyStep DEF GatherDomain, SendCenters, ReceiveCenters,
       SourcesOK
  <2> QED
    BY <1>1, <2>1, <2>2 DEF distributed, arrived, cloud
<1> QED
  BY <1>2, <1>3

LEMMA ChildrenStep ==
  ASSUME DistributionInv, RowsOK, ChildrenOK, NEW r \in Ranks, CloudStep(r)
  PROVE  ChildrenOK'
<1> USE DEF DistributionInv
<1>1. /\ search' = search /\ target' = target /\ TargetOwner' = TargetOwner
      /\ AppOK
  BY AppKept, ProgramKept
<1>2. ASSUME NEW e \in Targets, d_pairings'[e] = d_pairings[e],
             d_pairings[e] # <<>>
      PROVE  /\ distributed(TargetOwner[e])'
             /\ children(e)' \in pairings(search, arrived(TargetOwner[e])', target[e])
             /\ enoughArrived(TargetOwner[e])' => IsInjective(d_pairings'[e])
  <2>1. TargetOwner[e] \in Ranks /\ distributed(TargetOwner[e])
    BY <1>1, <1>2 DEF AppOK, ChildrenOK
  <2>2. /\ distributed(TargetOwner[e])'
        /\ arrived(TargetOwner[e])' = arrived(TargetOwner[e])
    BY <1>1, <2>1, ArrivedStay
  <2>3. children(e)' = children(e)
    BY <1>2 DEF children
  <2>4. enoughArrived(TargetOwner[e])' <=> enoughArrived(TargetOwner[e])
    BY <1>1, <2>2 DEF enoughArrived
  <2> QED
    BY <1>2, <2>2, <2>3, <2>4 DEF ChildrenOK
<1>3. CASE \E t \in localTargets(r) : PairCenter(r, t)
  <2>1. PICK t \in localTargets(r) : PairCenter(r, t)
    BY <1>3
  <2>2. t \in Targets /\ TargetOwner[t] = r /\ target[t] \in Int
    BY <1>1 DEF localTargets, AppOK
  <2>3. /\ distributed(r) /\ distributed(r)'
        /\ arrived(r)' = arrived(r)
    BY <2>1 DEF PairCenter, distributed, arrived, cloud, source
  <2>4. PICK stencil \in stencils(search, arrived(r), target[t]) :
          d_pairings' = [d_pairings EXCEPT ![t] = stencil]
    BY <2>1 DEF PairCenter
  <2>5. /\ children(t)' \in pairings(search, arrived(r), target[t])
        /\ enoughArrived(r) => IsInjective(d_pairings'[t])
    <3> DEFINE D == dist_sources[r]
               C == arrived(r)
    <3>1. D \in SUBSET Sources /\ IsFiniteSet(D)
      BY CentersAssumption, FS_Subset DEF SourcesOK
    <3>2. C \in [D -> Int]
      BY <3>1 DEF arrived, cloud, restricted, AppOK
    <3>3. d_pairings'[t] = stencil
      BY <2>2, <2>4 DEF RowsOK, RowTypes
    <3>4. children(t)' = Range(stencil)
      BY <3>3 DEF children, Range
    <3>5. search \in Searches
      BY DEF AppOK
    <3>6. stencil \in stencils(search, C, target[t])
      BY <2>4
    <3> HIDE DEF C, D
    <3>7. PICK S \in pairings(search, C, target[t]) :
            /\ Range(stencil) = S
            /\ (search = "knn" => NumNeighbors <= Cardinality(D))
                 => stencil \in Bijection(1 .. Cardinality(S), S)
      BY <2>2, <3>1, <3>2, <3>5, <3>6, ChildrenAreFound
    <3>8. DOMAIN C = D
      BY <3>2
    <3>9. ASSUME enoughArrived(r) PROVE IsInjective(stencil)
      BY <3>7, <3>8, <3>9 DEF enoughArrived, C, Bijection, Injection
    <3> QED
      BY <3>3, <3>4, <3>7, <3>9 DEF C
  <2>6. \A e \in Targets \ {t} : d_pairings'[e] = d_pairings[e]
    BY <2>1, PairedRow
  <2>7. enoughArrived(r)' <=> enoughArrived(r)
    BY <1>1, <2>3 DEF enoughArrived
  <2> QED
    BY <1>1, <1>2, <2>2, <2>3, <2>5, <2>6, <2>7 DEF ChildrenOK
<1>4. CASE ~ \E t \in localTargets(r) : PairCenter(r, t)
  <2>1. d_pairings' = d_pairings
    BY <1>4, PairsKept DEF pairs
  <2> QED
    BY <1>1, <1>2, <2>1 DEF ChildrenOK
<1> QED
  BY <1>3, <1>4

-----------------------------------------------------------------------------
(***************************************************************************)
(* The fields.                                                             *)
(***************************************************************************)
DomainFields == UNION {[S -> FieldValues] : S \in SUBSET Sources}

FieldsOK ==
  /\ X \in [Ranks -> Seq(DomainFields)]
  /\ Y \in [Targets -> Int]
  /\ disc_counts \in [Ranks -> Nat]

LEMMA FieldsStep ==
  ASSUME DistributionInv, FieldsOK, NEW r \in Ranks, CloudStep(r)
  PROVE  FieldsOK'
<1> USE DEF FieldsOK
<1>1. CASE BeginApply(r)
  <2>1. PICK x \in [localSources(r) -> app.values] :
          X' = [X EXCEPT ![r] = Append(@, x)]
    BY <1>1 DEF BeginApply
  <2>2. x \in [localSources(r) -> FieldValues] /\ localSources(r) \in SUBSET Sources
    BY <2>1 DEF DistributionInv, AppOK, localSources
  <2>3. x \in DomainFields
    BY <2>2 DEF DomainFields
  <2>4. X' \in [Ranks -> Seq(DomainFields)]
    BY <2>1, <2>3
  <2> QED
    BY <1>1, <2>4 DEF BeginApply
<1>2. CASE FinishProduct(r)
  <2>1. PICK y \in [localTargets(r) -> FieldValues \cup Reconstructions] :
          Y' = updated(Y, y)
    BY <1>2 DEF FinishProduct
  <2>2. \A t \in localTargets(r) : y[t] \in Int
    BY ValuesAssumption
  <2>3. Y' \in [Targets -> Int]
    BY <2>1, <2>2 DEF updated
  <2> QED
    BY <1>2, <2>3 DEF FinishProduct
<1>3. CASE ResolveDiscontinuities(r)
  <2>1. PICK y \in [localTargets(r) ->
                      {Y[t] : t \in Targets} \cup FieldValues \cup {0}] :
          /\ Y' = updated(Y, y)
          /\ disc_counts' = [disc_counts EXCEPT
               ![r] = Cardinality({t \in localTargets(r) : y[t] # Y[t]})]
    BY <1>3 DEF ResolveDiscontinuities
  <2>2. \A t \in localTargets(r) : y[t] \in Int
    <3>1. \A z \in {Y[t] : t \in Targets} : z \in Int
      OBVIOUS
    <3>2. \A z \in FieldValues \cup {0} : z \in Int
      BY ValuesAssumption
    <3> QED
      BY <3>1, <3>2
  <2>3. Y' \in [Targets -> Int]
    BY <2>1, <2>2 DEF updated
  <2>4. IsFiniteSet({t \in localTargets(r) : y[t] # Y[t]})
    BY CentersAssumption, FS_Subset DEF localTargets
  <2>5. Cardinality({t \in localTargets(r) : y[t] # Y[t]}) \in Nat
    BY <2>4, FS_CardinalityType
  <2> QED
    BY <1>3, <2>1, <2>3, <2>5 DEF ResolveDiscontinuities
<1>4. CASE ~ (BeginApply(r) \/ FinishProduct(r) \/ ResolveDiscontinuities(r))
  BY <1>4 DEF CloudStep, GatherDomain, SendCenters, ReceiveCenters, Abort,
     PairCenter, EnterFillComplete, FillComplete, fields
<1> QED
  BY <1>1, <1>2, <1>3, <1>4

\* A rank that is done with a call of apply(), or with its product.
multiplied(r) == stage[r] \in {"post", "ready"} /\ X[r] # <<>>

\* The product of a target read sources that had posted, and gives a uniform
\* value where they are uniform.
ProductsOK ==
  \A t \in Targets : multiplied(TargetOwner[t]) =>
    /\ \A s \in d_coupling_matrix[t] :
         call(SourceOwner[s]) >= call(TargetOwner[t])
    /\ \A v \in FieldValues :
         (\A s \in d_coupling_matrix[t] :
            X[SourceOwner[s]][call(TargetOwner[t])][s] = v)
           => Y[t] = v

\* Nothing is posted before apply().
NothingPosted ==
  \A r \in Ranks : stage[r] \notin {"ready", "apply", "post"} => X[r] = <<>>

TransferInv ==
  /\ DistributionInv
  /\ RowsOK
  /\ ChildrenOK
  /\ FieldsOK
  /\ NothingPosted
  /\ ProductsOK

LEMMA PostedStep ==
  ASSUME DistributionInv, FieldsOK, NothingPosted, NEW r \in Ranks, CloudStep(r)
  PROVE  NothingPosted'
<1>1. \A q \in Ranks \ {r} : stage'[q] = stage[q]
  BY StagesStep DEF DistributionInv
<1>2. CASE BeginApply(r)
  BY <1>1, <1>2 DEF BeginApply, NothingPosted, FieldsOK, goTo, DistributionInv,
     StagesOK
<1>3. CASE ~ BeginApply(r)
  <2>1. X' = X
    BY <1>3 DEF CloudStep, GatherDomain, SendCenters, ReceiveCenters, Abort,
       PairCenter, EnterFillComplete, FillComplete, FinishProduct,
       ResolveDiscontinuities, fields
  <2>2. stage'[r] \in {"ready", "apply", "post"}
          \/ stage[r] \notin {"ready", "apply", "post"}
    BY <1>3 DEF CloudStep, GatherDomain, SendCenters, ReceiveCenters, Abort,
       PairCenter, EnterFillComplete, FillComplete, FinishProduct,
       ResolveDiscontinuities, goTo, DistributionInv, StagesOK
  <2> QED
    BY <1>1, <2>1, <2>2 DEF NothingPosted
<1> QED
  BY <1>2, <1>3

LEMMA NatProduct ==
  ASSUME NEW a \in Nat, NEW b \in Nat, NEW c \in Nat
  PROVE  ~ (0 > a * b * c)
<1>1. a * b \in Nat
  OBVIOUS
<1> DEFINE d == a * b
<1>2. d \in Nat
  BY <1>1
<1> HIDE DEF d
<1>3. d * c \in Nat
  BY <1>2
<1> QED
  BY <1>3 DEF d

\* A target whose sources have one value and that has this value is not taken
\* for a discontinuity.
LEMMA UniformIsSmooth ==
  ASSUME TransferInv, NEW r \in Ranks, NEW t \in localTargets(r),
         d_pairings[t] # <<>>, NEW v \in FieldValues, Y[t] = v,
         \A s \in d_coupling_matrix[t] : value(r, s) = v
  PROVE  ~ is_rough(r, t)
<1> SUFFICES ASSUME is_rough(r, t)
             PROVE  FALSE
  OBVIOUS
<1>1. t \in Targets /\ RowOK(t) /\ AppOK
  BY DEF localTargets, TransferInv, RowsOK, DistributionInv
<1> DEFINE near == d_pairings[t][1]
           h    == distance(target[t], source[near])
           diff == abs(value(r, near) - Y[t])
<1>2. near \in d_coupling_matrix[t] /\ near \in Sources
  BY <1>1 DEF RowOK
<1>3. stencilValues(r, t) \in SUBSET {v}
  BY <1>1 DEF stencilValues, RowOK
<1>4. v \in Int /\ value(r, near) = v
  BY <1>2, ValuesAssumption
<1>5. diff = 0
  BY <1>4 DEF abs
<1>6. h \in Nat
  BY <1>1, <1>2, DistanceType DEF AppOK
<1>7. PICK m \in {abs(z) : z \in stencilValues(r, t)} :
        LET src_max == IF m = 0 THEN abs(Y[t]) ELSE m
        IN IF h = 0 /\ d_radii[t] # 0
           THEN diff # 0 /\ 100 * diff >= src_max
           ELSE diff > Sigma * src_max * h
  BY DEF is_rough
<1>8. m \in Nat /\ abs(Y[t]) \in Nat
  BY <1>3, <1>4 DEF abs
<1>9. Sigma \in Nat
  BY ValuesAssumption
<1> HIDE DEF h, diff
<1>10. PICK c \in Nat : 0 > Sigma * c * h
  BY <1>5, <1>7, <1>8
<1> QED
  BY <1>6, <1>9, <1>10, NatProduct

\* Another rank's field may have been posted since; a target's is not.
LEMMA ProductsBegin ==
  ASSUME TransferInv, NEW r \in Ranks, BeginApply(r)
  PROVE  ProductsOK'
<1> USE DEF TransferInv
<1>1. PICK x \in [localSources(r) -> app.values] :
        X' = [X EXCEPT ![r] = Append(@, x)]
  BY DEF BeginApply
<1>2. /\ app' = app /\ Y' = Y /\ d_coupling_matrix' = d_coupling_matrix
      /\ stage' = [stage EXCEPT ![r] = "apply"]
  BY DEF BeginApply, pairs, goTo
<1>3. SourceOwner' = SourceOwner /\ TargetOwner' = TargetOwner /\ AppOK
  BY <1>2, ProgramKept DEF DistributionInv
<1> SUFFICES ASSUME NEW t \in Targets, multiplied(TargetOwner[t])'
             PROVE  /\ \A s \in d_coupling_matrix[t] :
                         call(SourceOwner[s])' >= call(TargetOwner[t])'
                    /\ \A v \in FieldValues :
                         (\A s \in d_coupling_matrix[t] :
                            X'[SourceOwner[s]][call(TargetOwner[t])'][s] = v)
                           => Y[t] = v
  BY <1>2, <1>3 DEF ProductsOK
<1> DEFINE o == TargetOwner[t]
           k == call(o)
<1>4. o \in Ranks /\ o # r
  BY <1>2, <1>3 DEF multiplied, AppOK, DistributionInv, StagesOK
<1>5. multiplied(o) /\ X'[o] = X[o]
  BY <1>1, <1>2, <1>3, <1>4 DEF multiplied, FieldsOK
<1>6. call(o)' = k /\ k \in Nat \ {0}
  BY <1>3, <1>4, <1>5 DEF call, multiplied, FieldsOK
<1>7. ASSUME NEW s \in d_coupling_matrix[t]
      PROVE  /\ call(SourceOwner[s])' >= k
             /\ X'[SourceOwner[s]][k] = X[SourceOwner[s]][k]
  <2>1. s \in Sources /\ SourceOwner[s] \in Ranks
    BY <1>3 DEF RowsOK, RowOK, AppOK
  <2>2. call(SourceOwner[s]) >= k /\ call(SourceOwner[s]) \in Nat
    BY <1>5, <2>1 DEF ProductsOK, call, FieldsOK
  <2>3. CASE SourceOwner[s] # r
    BY <1>1, <1>3, <2>1, <2>2, <2>3 DEF call, FieldsOK
  <2>4. CASE SourceOwner[s] = r
    <3>1. X'[r] = Append(X[r], x) /\ X[r] \in Seq(DomainFields)
      BY <1>1 DEF FieldsOK
    <3>2. k \in 1 .. Len(X[r]) /\ Len(X[r]) \in Nat
      BY <1>6, <2>2, <2>4 DEF call
    <3>3. X'[r][k] = X[r][k] /\ Len(X'[r]) = Len(X[r]) + 1
      BY <3>1, <3>2
    <3> QED
      BY <1>3, <2>4, <3>2, <3>3 DEF call
  <2> QED
    BY <2>3, <2>4
<1> HIDE DEF k, o
<1> QED
  BY <1>5, <1>6, <1>7 DEF ProductsOK, o, k

\* The row of a target whose rank multiplies is not empty.
LEMMA RowNotEmpty ==
  ASSUME RowsOK, NEW t \in Targets, paired(t)
  PROVE  d_pairings[t] # <<>> /\ d_coupling_matrix[t] # {}
  BY DEF RowsOK, RowOK

LEMMA ProductsFinish ==
  ASSUME TransferInv, NEW r \in Ranks, FinishProduct(r)
  PROVE  ProductsOK'
<1> USE DEF TransferInv
<1>1. PICK y \in [localTargets(r) -> FieldValues \cup Reconstructions] :
       /\ \A t \in localTargets(r) :
            y[t] \in reconstructed({value(r, s) : s \in d_coupling_matrix[t]})
       /\ Y' = updated(Y, y)
  BY DEF FinishProduct
<1>2. /\ app' = app /\ X' = X /\ d_coupling_matrix' = d_coupling_matrix
      /\ \A q \in Ranks \ {r} : stage'[q] = stage[q]
      /\ stage[r] = "apply"
  BY DEF FinishProduct, pairs, goTo, DistributionInv, StagesOK
<1>3. /\ SourceOwner' = SourceOwner /\ TargetOwner' = TargetOwner /\ AppOK
      /\ \A q : call(q)' = call(q)
  BY <1>2, ProgramKept DEF DistributionInv, call
<1>4. ASSUME NEW t \in Targets, multiplied(TargetOwner[t])'
      PROVE  /\ \A s \in d_coupling_matrix[t] :
                  call(SourceOwner[s]) >= call(TargetOwner[t])
             /\ \A v \in FieldValues :
                  (\A s \in d_coupling_matrix[t] :
                     X[SourceOwner[s]][call(TargetOwner[t])][s] = v)
                    => Y'[t] = v
  <2>1. CASE TargetOwner[t] # r
    <3>1. TargetOwner[t] \in Ranks
      BY <1>3 DEF AppOK
    <3>2. multiplied(TargetOwner[t])
      BY <1>2, <1>3, <1>4, <2>1, <3>1 DEF multiplied
    <3>3. Y'[t] = Y[t]
      BY <1>1, <2>1 DEF updated, localTargets
    <3> QED
      BY <3>2, <3>3 DEF ProductsOK
  <2>2. CASE TargetOwner[t] = r
    <3>1. t \in localTargets(r) /\ paired(t)
      BY <1>2, <2>2 DEF localTargets, paired
    <3>2. Y'[t] = y[t]
      BY <1>1, <3>1 DEF updated
    <3>3. \A s \in d_coupling_matrix[t] : call(SourceOwner[s]) >= call(r)
      BY <3>1 DEF FinishProduct
    <3>4. ASSUME NEW v \in FieldValues,
                 \A s \in d_coupling_matrix[t] : X[SourceOwner[s]][call(r)][s] = v
          PROVE  y[t] = v
      <4> DEFINE V == {value(r, s) : s \in d_coupling_matrix[t]}
      <4>1. V = {v}
        BY <3>1, <3>4, RowNotEmpty DEF value
      <4>2. y[t] \in reconstructed(V)
        BY <1>1, <3>1
      <4> HIDE DEF V
      <4> QED
        BY <4>1, <4>2 DEF reconstructed
    <3> QED
      BY <2>2, <3>2, <3>3, <3>4
  <2> QED
    BY <2>1, <2>2
<1> QED
  BY <1>2, <1>3, <1>4 DEF ProductsOK

LEMMA ProductsResolve ==
  ASSUME TransferInv, NEW r \in Ranks, ResolveDiscontinuities(r)
  PROVE  ProductsOK'
<1> USE DEF TransferInv
<1>1. PICK y \in [localTargets(r) ->
                    {Y[t] : t \in Targets} \cup FieldValues \cup {0}] :
       /\ \A t \in localTargets(r) : ~ is_rough(r, t) => y[t] = Y[t]
       /\ Y' = updated(Y, y)
  BY DEF ResolveDiscontinuities
<1>2. /\ app' = app /\ X' = X /\ d_coupling_matrix' = d_coupling_matrix
      /\ \A q \in Ranks \ {r} : stage'[q] = stage[q]
      /\ stage[r] = "post"
  BY DEF ResolveDiscontinuities, pairs, goTo, DistributionInv, StagesOK
<1>3. /\ SourceOwner' = SourceOwner /\ TargetOwner' = TargetOwner /\ AppOK
      /\ \A q : call(q)' = call(q)
  BY <1>2, ProgramKept DEF DistributionInv, call
<1>4. ASSUME NEW t \in Targets, multiplied(TargetOwner[t])'
      PROVE  /\ \A s \in d_coupling_matrix[t] :
                  call(SourceOwner[s]) >= call(TargetOwner[t])
             /\ \A v \in FieldValues :
                  (\A s \in d_coupling_matrix[t] :
                     X[SourceOwner[s]][call(TargetOwner[t])][s] = v)
                    => Y'[t] = v
  <2>1. TargetOwner[t] \in Ranks
    BY <1>3 DEF AppOK
  <2>2. multiplied(TargetOwner[t])
    BY <1>2, <1>3, <1>4, <2>1 DEF multiplied
  <2>3. CASE TargetOwner[t] # r
    <3>1. Y'[t] = Y[t]
      BY <1>1, <2>3 DEF updated, localTargets
    <3> QED
      BY <2>2, <3>1 DEF ProductsOK
  <2>4. CASE TargetOwner[t] = r
    <3>1. t \in localTargets(r) /\ paired(t)
      BY <1>2, <2>4 DEF localTargets, paired
    <3>2. Y'[t] = y[t]
      BY <1>1, <3>1 DEF updated
    <3>3. ASSUME NEW v \in FieldValues,
                 \A s \in d_coupling_matrix[t] : X[SourceOwner[s]][call(r)][s] = v
          PROVE  y[t] = v
      <4>1. Y[t] = v
        BY <2>2, <2>4, <3>3 DEF ProductsOK
      <4>2. ~ is_rough(r, t)
        BY <3>1, <3>3, <4>1, RowNotEmpty, UniformIsSmooth DEF value
      <4> QED
        BY <1>1, <3>1, <4>1, <4>2
    <3> QED
      BY <2>2, <2>4, <3>2, <3>3 DEF ProductsOK
  <2> QED
    BY <2>3, <2>4
<1> QED
  BY <1>2, <1>3, <1>4 DEF ProductsOK

\* The steps of setup() concern ranks that have not multiplied.
LEMMA ProductsSetup ==
  ASSUME TransferInv, NEW r \in Ranks, CloudStep(r),
         ~ BeginApply(r), ~ FinishProduct(r), ~ ResolveDiscontinuities(r)
  PROVE  ProductsOK'
<1> USE DEF TransferInv
<1>1. /\ X' = X /\ Y' = Y /\ app' = app
      /\ \A q \in Ranks \ {r} : stage'[q] = stage[q]
      /\ stage[r] \notin {"ready", "apply", "post"}
  BY DEF CloudStep, GatherDomain, SendCenters, ReceiveCenters, Abort, PairCenter,
     EnterFillComplete, FillComplete, fields, goTo, DistributionInv, StagesOK
<1>2. /\ SourceOwner' = SourceOwner /\ TargetOwner' = TargetOwner /\ AppOK
      /\ \A q : call(q)' = call(q)
  BY <1>1, ProgramKept DEF DistributionInv, call
<1>3. ASSUME NEW t \in Targets, multiplied(TargetOwner[t])'
      PROVE  multiplied(TargetOwner[t]) /\ d_coupling_matrix'[t] = d_coupling_matrix[t]
  <2>1. TargetOwner[t] \in Ranks /\ TargetOwner[t] # r
    BY <1>1, <1>2, <1>3 DEF multiplied, NothingPosted, AppOK
  <2>2. multiplied(TargetOwner[t])
    BY <1>1, <1>2, <1>3, <2>1 DEF multiplied
  <2>3. CASE \E e \in localTargets(r) : PairCenter(r, e)
    <3>1. PICK e \in localTargets(r) : PairCenter(r, e)
      BY <2>3
    <3>2. t # e
      BY <2>1 DEF localTargets
    <3> QED
      BY <2>2, <3>1, <3>2, PairedRow
  <2>4. CASE ~ \E e \in localTargets(r) : PairCenter(r, e)
    BY <2>2, <2>4, PairsKept DEF pairs
  <2> QED
    BY <2>3, <2>4
<1> QED
  BY <1>1, <1>2, <1>3 DEF ProductsOK

LEMMA TransferInit ==
  ASSUME CloudInit
  PROVE  TransferInv
<1>1. DistributionInv /\ RowsOK /\ ChildrenOK
  BY DistributionInit, RowInit, ChildrenInit
<1>2. <<>> \in Seq(DomainFields)
  OBVIOUS
<1>3. FieldsOK /\ NothingPosted
  BY <1>2 DEF CloudInit, FieldsOK, NothingPosted
<1>4. ProductsOK
  BY <1>1 DEF CloudInit, ProductsOK, multiplied, DistributionInv, AppOK
<1> QED
  BY <1>1, <1>3, <1>4 DEF TransferInv

LEMMA TransferStep ==
  ASSUME TransferInv, NEW r \in Ranks, CloudStep(r)
  PROVE  TransferInv'
<1>1. DistributionInv' /\ RowsOK' /\ FieldsOK' /\ NothingPosted'
  BY DistributionStep, RowsStep, FieldsStep, PostedStep DEF TransferInv
<1>3. ChildrenOK'
  BY ChildrenStep DEF TransferInv
<1>2. ProductsOK'
  BY ProductsBegin, ProductsFinish, ProductsResolve, ProductsSetup
<1> QED
  BY <1>1, <1>2, <1>3 DEF TransferInv

LEMMA TransferStutter ==
  ASSUME TransferInv, UNCHANGED cloudVars
  PROVE  TransferInv'
<1> USE DEF TransferInv
<1>1. /\ app' = app /\ stage' = stage /\ X' = X /\ Y' = Y
      /\ disc_counts' = disc_counts /\ d_pairings' = d_pairings
      /\ d_pair_sizes' = d_pair_sizes /\ d_radii' = d_radii
      /\ d_coupling_matrix' = d_coupling_matrix
  BY DEF cloudVars, pairs, fields
<1>2. SourceOwner' = SourceOwner /\ TargetOwner' = TargetOwner
  BY <1>1, ProgramKept
<1>3. DistributionInv'
  BY DistributionStutter
<1>4. RowsOK'
  BY <1>1, <1>2 DEF RowsOK, RowTypes, RowOK, paired
<1>5. FieldsOK' /\ NothingPosted'
  BY <1>1 DEF FieldsOK, NothingPosted
<1>7. ChildrenOK'
  <2>1. /\ dist_sources' = dist_sources
        /\ search' = search /\ source' = source /\ target' = target
    BY <1>1, ProgramKept DEF cloudVars
  <2> QED
    BY <1>1, <1>2, <2>1 DEF ChildrenOK, distributed, children, enoughArrived,
       arrived, cloud
<1>6. ProductsOK'
  BY <1>1, <1>2 DEF ProductsOK, multiplied, call
<1> QED
  BY <1>3, <1>4, <1>5, <1>6, <1>7

\* Rows are made of the children, and products of fields of the same call.
THEOREM TransferInvariant == CloudSpec => []TransferInv
<1>1. CloudInit => TransferInv
  BY TransferInit
<1>2. TransferInv /\ [CloudNext]_cloudVars => TransferInv'
  BY TransferStep, TransferStutter DEF CloudNext
<1> QED
  BY <1>1, <1>2, PTL DEF CloudSpec

\* Every variable of the point cloud operators keeps its type.
THEOREM TransferTypesCorrect == CloudSpec => []TransferTypeOK
<1>1. TransferInv => TransferTypeOK
  BY DEF TransferInv, DistributionInv, AppOK, StagesOK, DomainsOK, SendsOK,
     SourcesOK, RowsOK, RowTypes, FieldsOK, DomainFields, TransferTypeOK
<1> QED
  BY <1>1, TransferInvariant, PTL

\* The children of a target do not depend on the decomposition: if a search
\* among all source centres finds centres in reach of the target's rank, the rank
\* finds such an answer, for every search, tie and growth of the radius.
THEOREM StencilsAreGlobal == CloudSpec => []StencilIsGlobal
<1>1. ASSUME TransferInv, NEW t \in Targets, paired(t),
             NEW S \in pairings(search, source, target[t]),
             \A s \in S : inReach(s, TargetOwner[t])
      PROVE  children(t) \in pairings(search, source, target[t])
  <2>0. DistributionInv /\ AppOK /\ SourcesOK /\ RowsOK /\ ChildrenOK
    BY <1>1 DEF TransferInv, DistributionInv
  <2> DEFINE A == dist_sources[TargetOwner[t]]
  <2>1. /\ search \in Searches /\ source \in [Sources -> Int]
        /\ target[t] \in Int /\ TargetOwner[t] \in Ranks
    BY <2>0 DEF AppOK
  <2>2. A \in SUBSET Sources /\ IsFiniteSet(Sources)
    BY <2>0, <2>1, CentersAssumption DEF SourcesOK
  <2>3. distributed(TargetOwner[t])
    BY <1>1 DEF paired, distributed
  <2>4. S \in SUBSET Sources
    BY <1>1, <2>1, PairingsAreCenters
  <2>5. S \subseteq A
    BY <1>1, <2>0, <2>1, <2>3, <2>4, NearSourcesArrive DEF inReach, reaches
  <2>6. search = "ring" => \A s \in Sources : source[s] = target[t] => s \in A
    <3> SUFFICES ASSUME search = "ring", NEW s \in Sources,
                        source[s] = target[t]
                 PROVE  reaches(TargetOwner[t], source[s])
      BY <2>0, <2>1, <2>3, NearSourcesArrive
    <3>1. /\ 10 * Radius \in proximities(search, parents(TargetOwner[t]))
          /\ 10 * Radius \in Int
      BY CloudAssumption DEF proximities
    <3>2. 10 * distance(target[t], source[s]) <= 10 * Radius
      BY <2>1, CloudAssumption DEF distance
    <3> QED
      BY <2>0, <2>1, <3>1, <3>2, AroundTarget
  <2>7. children(t) \in pairings(search, restricted(source, A), target[t])
    BY <1>1, <2>0 DEF RowsOK, ChildrenOK, arrived, cloud
  <2> HIDE DEF A
  <2> QED
    BY <1>1, <2>1, <2>2, <2>5, <2>6, <2>7, PairingOnRank
<1>2. TransferInv => StencilIsGlobal
  BY <1>1 DEF StencilIsGlobal
<1> QED
  BY <1>2, TransferInvariant, PTL

\* No source centre counts twice for a target if enough of them are in reach of
\* the target's rank: the array of children is then filled by the search.
THEOREM ChildrenCountOnce == CloudSpec => []ChildrenOnce
<1>1. ASSUME TransferInv, NEW t \in Targets, paired(t), enoughInReach(t)
      PROVE  IsInjective(d_pairings[t])
  <2> USE DEF TransferInv, DistributionInv
  <2> DEFINE r == TargetOwner[t]
             D == dist_sources[r]
             near == {s \in Sources : inReach(s, r)}
  <2>1. r \in Ranks /\ distributed(r)
    BY <1>1 DEF AppOK, paired, distributed
  <2>2. near \in SUBSET D
    BY <1>1, <2>1, NearSourcesArrive DEF inReach, reaches
  <2>3. D \in SUBSET Sources /\ IsFiniteSet(D)
    BY <1>1, <2>1, CentersAssumption, FS_Subset DEF SourcesOK
  <2>4. /\ Cardinality(near) <= Cardinality(D)
        /\ Cardinality(near) \in Nat /\ Cardinality(D) \in Nat
    BY <2>2, <2>3, FS_Subset, FS_CardinalityType
  <2>5. DOMAIN arrived(r) = D
    BY DEF arrived, cloud, restricted
  <2>6. enoughArrived(r)
    BY <1>1, <2>4, <2>5, CloudAssumption DEF enoughInReach, enoughArrived
  <2> QED
    BY <1>1, <2>6 DEF ChildrenOK, RowsOK
<1>2. TransferInv => ChildrenOnce
  BY <1>1 DEF ChildrenOnce, IsInjective
<1> QED
  BY <1>2, TransferInvariant, PTL

\* What setup() needs on every rank.
allCovered ==
  /\ \A r \in Ranks : localTargets(r) # {}
  /\ \A t \in Targets : covered(t)

\* A search finds something where a target is covered.
LEMMA CoveredTarget ==
  ASSUME DistributionInv, NEW t \in Targets, distributed(TargetOwner[t]), covered(t)
  PROVE  /\ dist_sources[TargetOwner[t]] # {}
         /\ {} \notin pairings(search, arrived(TargetOwner[t]), target[t])
<1> USE DEF DistributionInv
<1> DEFINE r == TargetOwner[t]
           D == dist_sources[r]
           C == arrived(r)
           p == target[t]
           near == {s \in Sources : inReach(s, r)}
           here == {s \in Sources : source[s] = p}
<1>0. r \in Ranks /\ p \in Int /\ source \in [Sources -> Int] /\ distributed(r)
  BY DEF AppOK
<1>1. D \in SUBSET Sources /\ IsFiniteSet(Sources) /\ IsFiniteSet(D)
  BY <1>0, CentersAssumption, FS_Subset DEF SourcesOK
<1>2. C \in [D -> Int] /\ DOMAIN C = D /\ \A s \in D : C[s] = source[s]
  BY <1>0, <1>1 DEF arrived, cloud, restricted
<1>3. near \in SUBSET D
  BY <1>0, NearSourcesArrive DEF inReach, reaches
<1>4. CASE search = "radius"
  <2>1. PICK s \in Sources : distance(p, source[s]) < Radius
    BY <1>4 DEF covered
  <2> DEFINE d == distance(p, source[s])
  <2>2. d \in Nat /\ d < Radius
    BY <1>0, <2>1, DistanceType
  <2> HIDE DEF d
  <2>3. 10 * d < 10 * Radius /\ 10 * Radius \in Int /\ 10 * d <= 10 * Radius
    BY <2>2, CloudAssumption
  <2>4. s \in D
    <3>1. 10 * Radius \in proximities(search, parents(r))
      BY <1>4 DEF proximities
    <3>2. reaches(r, source[s])
      BY <1>0, <2>3, <3>1, AroundTarget DEF d
    <3> QED
      BY <1>0, <3>2, NearSourcesArrive
  <2>5. 10 * distance(p, C[s]) < 10 * Radius
    BY <1>2, <2>3, <2>4 DEF d
  <2> HIDE DEF C, D, p
  <2>6. \A i \in Nat : s \in within(C, p, 10 * Radius, i)
    BY <1>0, <1>2, <2>3, <2>4, <2>5, InnerCentres
  <2>7. {} \notin radiusSearch(C, p, 10 * Radius)
    BY <2>6, CloudAssumption DEF radiusSearch
  <2>8. {} \notin pairings(search, C, p)
    BY <1>4, <2>7 DEF pairings
  <2> QED
    BY <2>4, <2>8 DEF C, D, p
<1>5. CASE search = "ring"
  <2>1. Cardinality(here) < RingPoints /\ ~ (near \subseteq here)
    BY <1>5 DEF covered
  <2> HIDE DEF C, D, p, near
  <2>2. SUFFICES ASSUME NEW f \in ringEnds(C, p)
                 PROVE  {} \notin radiusSearch(C, p, 51 * distance(p, C[f]))
    <3>1. {} \notin pairings(search, C, p)
      BY <1>5, <2>2 DEF pairings
    <3>2. D # {}
      BY <1>3, <2>1
    <3> QED
      BY <3>1, <3>2 DEF C, D, p
  <2>3. PICK N \in nnSearch(C, p, RingPoints) :
          f \in N /\ \A e \in N : distance(p, C[e]) <= distance(p, C[f])
    BY <2>2 DEF ringEnds
  <2>4. f \in D /\ N \in SUBSET D
    BY <1>2, <2>3 DEF nnSearch
  <2> DEFINE d == distance(p, C[f])
  <2>5. d \in Nat
    BY <1>0, <1>2, <2>4, DistanceType
  <2>6. d # 0
    <3> SUFFICES ASSUME d = 0 PROVE FALSE
      OBVIOUS
    <3>1. ASSUME NEW e \in N PROVE e \in here
      <4>1. distance(p, C[e]) <= 0 /\ C[e] \in Int /\ C[e] = source[e] /\ e \in Sources
        BY <1>1, <1>2, <2>3, <2>4
      <4> QED
        BY <1>0, <4>1 DEF distance
    <3>2. /\ IsFiniteSet(here) /\ Cardinality(here) \in Nat
          /\ Cardinality(N) <= Cardinality(here) /\ Cardinality(N) \in Nat
      BY <1>1, <3>1, FS_Subset, FS_CardinalityType
    <3>3. Cardinality(D) \in Nat /\ RingPoints \in Nat
      BY <1>1, FS_CardinalityType, CloudAssumption
    <3>4. Cardinality(N) = IF Cardinality(D) < RingPoints
                           THEN Cardinality(D) ELSE RingPoints
      BY <1>2, <2>3 DEF nnSearch
    <3>5. Cardinality(N) = Cardinality(D)
      BY <2>1, <3>2, <3>3, <3>4
    <3>6. N = D
      BY <1>1, <2>4, <3>5, FS_Subset
    <3> QED
      BY <1>3, <2>1, <3>1, <3>6
  <2> HIDE DEF here
  <2>7. 10 * distance(p, C[f]) < 51 * d /\ 51 * d \in Int
    <3>1. 10 * d < 51 * d
      <4> HIDE DEF d
      <4> QED
        BY <2>5, <2>6
    <3> QED
      BY <2>5, <3>1
  <2>8. \A i \in Nat : f \in within(C, p, 51 * d, i)
    <3> HIDE DEF d
    <3> QED
      BY <1>0, <1>2, <2>4, <2>7, InnerCentres
  <2> QED
    BY <2>8, CloudAssumption DEF radiusSearch
<1>6. CASE search \in {"knn", "node"}
  <2>1. PICK s \in near : TRUE
    BY <1>6 DEF covered
  <2>2. Cardinality(D) \in Nat /\ Cardinality(D) # 0
    BY <1>1, <1>3, <2>1, FS_CardinalityType, FS_EmptySet
  <2> HIDE DEF C, D, p, near
  <2>3. ASSUME NEW k \in Nat \ {0}
        PROVE  {} \notin nnSearch(C, p, k)
    <3>1. Cardinality({}) = 0
      BY FS_EmptySet
    <3> QED
      BY <1>2, <2>2, <3>1 DEF nnSearch
  <2>4. D # {} /\ {} \notin pairings(search, C, p)
    BY <1>3, <1>6, <2>1, <2>3, CloudAssumption DEF pairings
  <2> QED
    BY <2>4 DEF C, D, p
<1> QED
  BY <1>4, <1>5, <1>6 DEF AppOK, Searches

LEMMA CoveredSearches ==
  ASSUME DistributionInv, allCovered, NEW r \in Ranks, distributed(r)
  PROVE  /\ ~ lacksSource(search, arrived(r), parents(r))
         /\ ~ readsNothing(search, arrived(r), parents(r))
<1> USE DEF DistributionInv
<1>1. parents(r) # {}
  BY DEF allCovered, parents, coordinates
<1>2. DOMAIN arrived(r) = dist_sources[r]
  BY DEF arrived, cloud, restricted
<1>3. ASSUME NEW t \in localTargets(r)
      PROVE  /\ dist_sources[r] # {}
             /\ {} \notin pairings(search, arrived(r), target[t])
  BY CoveredTarget DEF localTargets, allCovered
<1>4. \A p \in parents(r) : {} \notin pairings(search, arrived(r), p)
  BY <1>3 DEF parents, coordinates
<1>5. dist_sources[r] # {}
  BY <1>3 DEF allCovered
<1> QED
  BY <1>1, <1>2, <1>4, <1>5 DEF lacksSource, readsNothing

\* setup() fails on no rank if every rank has a target and the search for every
\* target is sure to find a source centre, of any rank.
THEOREM CoveredCloudsAreSetUp == CloudSpec => []CoveredCloudsSetUp
<1>1. CoveredCloudsSetUp <=> (allCovered => \A r \in Ranks : stage[r] # "aborted")
  BY DEF CoveredCloudsSetUp, allCovered
<1>2. CloudInit => CoveredCloudsSetUp
  BY <1>1 DEF CloudInit
<1>3. ASSUME app' = app
      PROVE  allCovered' <=> allCovered
  BY <1>3 DEF allCovered, covered, inReach, parents, localTargets, search,
     source, target, TargetOwner
<1>4. CoveredCloudsSetUp' <=> (allCovered' => \A r \in Ranks : stage'[r] # "aborted")
  BY DEF CoveredCloudsSetUp, allCovered
<1>5. ASSUME TransferInv, CoveredCloudsSetUp, NEW r \in Ranks, CloudStep(r)
      PROVE  CoveredCloudsSetUp'
  <2>1. SUFFICES ASSUME allCovered
                 PROVE  \A q \in Ranks : stage'[q] # "aborted"
    BY <1>3, <1>4, <1>5, AppKept
  <2>2. /\ StagesOK'
        /\ \A q \in Ranks \ {r} : stage'[q] = stage[q] /\ stage[q] # "aborted"
        /\ stage[r] # "aborted"
    BY <1>1, <1>5, <2>1, StagesStep DEF TransferInv, DistributionInv
  <2>3. ~ Abort(r)
    <3>1. SUFFICES ASSUME Abort(r) PROVE FALSE
      OBVIOUS
    <3>2. distributed(r)
      BY <3>1 DEF Abort, distributed
    <3> QED
      BY <1>5, <2>1, <3>1, <3>2, CoveredSearches DEF Abort, TransferInv
  <2>4. stage'[r] # "aborted"
    BY <1>5, <2>2, <2>3 DEF CloudStep, GatherDomain, SendCenters, ReceiveCenters,
       PairCenter, EnterFillComplete, FillComplete, BeginApply, FinishProduct,
       ResolveDiscontinuities, goTo, TransferInv, DistributionInv, StagesOK
  <2> QED
    BY <2>2, <2>4
<1>6. ASSUME CoveredCloudsSetUp, UNCHANGED cloudVars
      PROVE  CoveredCloudsSetUp'
  BY <1>1, <1>3, <1>4, <1>6 DEF cloudVars
<1>7. TransferInv /\ CoveredCloudsSetUp /\ [CloudNext]_cloudVars
        => CoveredCloudsSetUp'
  BY <1>5, <1>6 DEF CloudNext
<1> QED
  BY <1>2, <1>7, TransferInvariant, PTL DEF CloudSpec

\* A field that is uniform over the sources of a target arrives as it is, for
\* every order in which the ranks post and finish their calls.
THEOREM UniformFieldsStay == CloudSpec => []UniformFieldStays
<1>1. TransferInv => UniformFieldStays
  BY DEF TransferInv, ProductsOK, multiplied, called, call, UniformFieldStays
<1> QED
  BY <1>1, TransferInvariant, PTL

\* Cropping ends between the least value at the sources of the row and the
\* greatest of these and zero.
THEOREM CroppingStaysInRow == CloudSpec => CroppedIntoRow
<1>1. ASSUME TransferInv, NEW r \in Ranks, CloudStep(r), NEW t \in Targets,
             cropped(t)
      PROVE  /\ \E v \in rowValues(t) : v <= Y'[t]
             /\ \E v \in rowValues(t) \cup {0} : Y'[t] <= v
  <2> USE DEF TransferInv
  <2>1. TargetOwner[t] = r /\ t \in localTargets(r)
    BY <1>1, StagesStep DEF cropped, DistributionInv, AppOK, localTargets
  <2>2. ResolveDiscontinuities(r)
    BY <1>1, <2>1 DEF cropped, CloudStep, GatherDomain, SendCenters,
       ReceiveCenters, Abort, PairCenter, EnterFillComplete, FillComplete,
       BeginApply, FinishProduct
  <2>3. PICK y \in [localTargets(r) ->
                      {Y[e] : e \in Targets} \cup FieldValues \cup {0}] :
         /\ \A e \in localTargets(r) :
              IF is_rough(r, e)
              THEN crop_extremes(stencilValues(r, e), Y[e], y[e])
              ELSE y[e] = Y[e]
         /\ Y' = updated(Y, y)
    BY <2>2 DEF ResolveDiscontinuities
  <2>4. Y'[t] = y[t]
    BY <2>1, <2>3 DEF updated
  <2> DEFINE S == stencilValues(r, t)
  <2>5. S = rowValues(t)
    <3>1. d_coupling_matrix[t] = firstOf(d_pairings[t], d_pair_sizes[t])
      BY <1>1 DEF RowsOK, RowOK
    <3>2. S = {value(r, s) : s \in d_coupling_matrix[t]}
      BY <3>1 DEF stencilValues
    <3> QED
      BY <2>1, <3>2 DEF rowValues, value, call
  <2>6. crop_extremes(S, Y[t], y[t]) /\ y[t] # Y[t]
    BY <1>1, <2>1, <2>3, <2>4 DEF cropped
  <2> HIDE DEF S
  <2>7. PICK lo \in S \cup {0}, hi \in S \cup {0} :
          /\ least(S, lo)
          /\ greatest(S \cup {0}, hi)
          /\ y[t] \in {lo, hi}
    BY <2>6 DEF crop_extremes
  <2>8. /\ lo \in S /\ lo <= lo /\ lo <= hi /\ hi <= hi
    BY <2>7 DEF least, greatest
  <2> QED
    BY <2>4, <2>5, <2>7, <2>8
<1>2. TransferInv /\ [CloudNext]_cloudVars
        => [\A t \in Targets : cropped(t) =>
              /\ \E v \in rowValues(t) : v <= Y'[t]
              /\ \E v \in rowValues(t) \cup {0} : Y'[t] <= v]_cloudVars
  BY <1>1 DEF CloudNext
<1> QED
  BY <1>2, TransferInvariant, PTL DEF CloudSpec, CroppedIntoRow
=============================================================================
