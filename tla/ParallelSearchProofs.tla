------------------------- MODULE ParallelSearchProofs -------------------------
(***************************************************************************)
(* Proofs about ParallelSearch, for any number of ranks, entities and      *)
(* searches and any geometry: type correctness and the lock step of the    *)
(* ranks, the geometry of the search, the graph that is built (the owners  *)
(* it hands out, the soundness of its pairs, the agreement of its two      *)
(* sides, their completeness), the tracking of missed range entities, and  *)
(* that the search implements SearchPromise.                               *)
(***************************************************************************)
EXTENDS ParallelSearch, SumTheorems

-----------------------------------------------------------------------------
(***************************************************************************)
(* Where the ranks are: the invariants of the calls.                       *)
(***************************************************************************)

\* How many collectives one search makes.
perSearch == IF d_track_missed_range_entities THEN 4 ELSE 2

\* The number of collectives a rank has entered follows from where it is.
CallCount ==
  \A r \in Ranks :
    /\ pc[r] = "new"    => collectives[r] = 0 /\ searches[r] = 0
    /\ pc[r] = "gather" => collectives[r] = 1 /\ searches[r] = 0
    /\ pc[r] = "idle"   => collectives[r] = 1 + perSearch * searches[r]
    /\ pc[r] \in {"coarse", "back", "missed", "found"} => searches[r] >= 1
    /\ pc[r] = "coarse" =>
         collectives[r] = 2 + perSearch * (searches[r] - 1)
    /\ pc[r] = "back" =>
         collectives[r] = 3 + perSearch * (searches[r] - 1)
    /\ pc[r] = "missed" =>
         /\ d_track_missed_range_entities
         /\ collectives[r] = 4 + perSearch * (searches[r] - 1)
    /\ pc[r] = "found" =>
         /\ d_track_missed_range_entities
         /\ collectives[r] = 5 + perSearch * (searches[r] - 1)

\* No rank is more than one collective ahead of another, and a rank that is in
\* no collective is ahead of nobody.
LockStep ==
  \A r, s \in Ranks :
    /\ collectives[s] <= collectives[r] + 1
    /\ pc[s] = "idle" => collectives[s] <= collectives[r]

\* The search rank q last did its local part of.
localSearches(q) == IF searched(q) THEN searches[q] ELSE searches[q] - 1

-----------------------------------------------------------------------------
(***************************************************************************)
(* Type correctness.                                                       *)
(***************************************************************************)
LEMMA InitType == Init => TypeOK
<1> SUFFICES ASSUME Init PROVE TypeOK
  OBVIOUS
<1>1. /\ noEntities \in partialFunctions(DomainEntities, DomainShapes)
      /\ noEntities \in partialFunctions(RangeEntities, RangeShapes)
  BY DEF noEntities, partialFunctions
<1>2. [lo |-> 0, hi |-> 0] \in Box
  BY CoordsAssumption DEF Box, CoordsAssumption
<1>3. d_track_missed_range_entities \in BOOLEAN /\ 0 \in 0 .. MaxSearches
  BY ParameterAssumption DEF Init, ParameterAssumption
<1> QED
  BY <1>1, <1>2, <1>3 DEF Init, TypeOK

\* The exports of a rank are messages of their types.
LEMMA CoarseSendsType ==
  ASSUME TypeOK, NEW r \in Ranks, NEW b,
         NEW R \in partialFunctions(localEntities(RangeOwner, r), RangeShapes)
  PROVE  coarseSends(r, R, b) \subseteq rangeMessage
<1>1. PICK D \in SUBSET localEntities(RangeOwner, r) : R \in [D -> RangeShapes]
  BY DEF partialFunctions
<1>2. D \subseteq RangeEntities
  BY OwnerAssumption DEF localEntities
<1>3. \A e \in D : R[e].centroid \in Coords
  BY <1>1, ShapeAssumption DEF RangeShape
<1> QED
  BY <1>1, <1>2, <1>3 DEF coarseSends, rangeMessage, neighborRanks

LEMMA ImportsType ==
  ASSUME NEW T, NEW sends \in [Ranks -> SUBSET T], NEW r \in Ranks
  PROVE  imports(sends, r) \subseteq T
BY DEF imports

LEMMA ConstructType ==
  ASSUME TypeOK, NEW r \in Ranks, Construct(r)
  PROVE  TypeOK'
<1>1. PICK D \in partialFunctions(localEntities(DomainOwner, r), DomainShapes),
           b \in Box :
         /\ domain' = [domain EXCEPT ![r] = D]
         /\ d_domain_boxes' = [d_domain_boxes EXCEPT ![r] = b]
  BY DEF Construct
<1>2. D \in partialFunctions(DomainEntities, DomainShapes)
  BY <1>1, OwnerAssumption DEF partialFunctions, localEntities
<1>3. /\ pc' \in [Ranks -> {"new", "gather", "idle",
                            "coarse", "back", "missed", "found"}]
      /\ collectives' \in [Ranks -> Nat]
  BY DEF Construct, enter, TypeOK
<1>4. domain' \in [Ranks -> partialFunctions(DomainEntities, DomainShapes)]
  BY <1>1, <1>2 DEF TypeOK
<1>5. d_domain_boxes' \in [Ranks -> Box]
  BY <1>1 DEF TypeOK
<1> QED
  BY <1>3, <1>4, <1>5 DEF Construct, TypeOK, domainVars, rangeVars, sendVars

LEMMA SearchType ==
  ASSUME TypeOK, NEW r \in Ranks, Search(r)
  PROVE  TypeOK'
<1>1. PICK R \in partialFunctions(localEntities(RangeOwner, r), RangeShapes),
           b \in Box :
         /\ range' = [range EXCEPT ![r] = R]
         /\ range_sends' = [range_sends EXCEPT ![r] = coarseSends(r, R, b)]
         /\ coarse_missed' =
              IF d_track_missed_range_entities
              THEN [coarse_missed EXCEPT
                      ![r] = @ \cup coarseMisses(R, coarseSends(r, R, b))]
              ELSE coarse_missed
  BY DEF Search
<1>2. /\ R \in partialFunctions(RangeEntities, RangeShapes)
      /\ DOMAIN R \subseteq RangeEntities
  BY <1>1, OwnerAssumption DEF partialFunctions, localEntities
<1>3. /\ pc' \in [Ranks -> {"new", "gather", "idle",
                            "coarse", "back", "missed", "found"}]
      /\ collectives' \in [Ranks -> Nat]
  BY DEF Search, enter, TypeOK
<1>4. searches' \in [Ranks -> 0 .. MaxSearches]
  BY ParameterAssumption DEF Search, TypeOK
<1>5. range' \in [Ranks -> partialFunctions(RangeEntities, RangeShapes)]
  BY <1>1, <1>2 DEF TypeOK
<1>6. range_sends' \in [Ranks -> SUBSET rangeMessage]
  BY <1>1, CoarseSendsType DEF TypeOK
<1>7. coarse_missed' \in [Ranks -> SUBSET RangeEntities]
  BY <1>1, <1>2 DEF TypeOK, coarseMisses
<1>8. /\ d_range_owner_ranks' \in [Ranks -> SUBSET (RangeEntities \X Ranks)]
      /\ d_domain_to_range_map' \in
           [Ranks -> SUBSET (DomainEntities \X RangeEntities)]
      /\ d_parametric_coords' \in
           [Ranks -> SUBSET (RangeEntities \X DomainEntities \X Int)]
      /\ d_range_to_domain_map' \in
           [Ranks -> SUBSET (RangeEntities \X DomainEntities)]
  BY DEF Search, TypeOK, clear
<1> QED
  BY <1>3, <1>4, <1>5, <1>6, <1>7, <1>8 DEF Search, TypeOK

\* What the local search of a rank pairs: an imported centroid and one of the
\* local domain entities.
LEMMA HitsType ==
  ASSUME TypeOK, NEW r \in Ranks, NEW near
  PROVE  /\ localPoints(r) \subseteq rangeMessage
         /\ hits(r, near) \subseteq localPoints(r) \X (DOMAIN domain[r])
         /\ foundPoints(hits(r, near)) \subseteq localPoints(r)
         /\ DOMAIN domain[r] \subseteq DomainEntities
         /\ \A d \in DOMAIN domain[r] : domain[r][d] \in DomainShapes
<1>1. localPoints(r) \subseteq rangeMessage
  BY ImportsType DEF localPoints, TypeOK
<1>2. PICK D \in SUBSET DomainEntities : domain[r] \in [D -> DomainShapes]
  BY DEF TypeOK, partialFunctions
<1>3. hits(r, near) \subseteq localPoints(r) \X (DOMAIN domain[r])
  BY DEF hits
<1>4. foundPoints(hits(r, near)) \subseteq localPoints(r)
  BY <1>3 DEF foundPoints
<1> QED
  BY <1>1, <1>2, <1>3, <1>4

LEMMA RecordHitsType ==
  ASSUME TypeOK, NEW r \in Ranks, NEW near, recordHits(r, hits(r, near))
  PROVE  /\ d_range_owner_ranks' \in [Ranks -> SUBSET (RangeEntities \X Ranks)]
         /\ d_domain_to_range_map' \in
              [Ranks -> SUBSET (DomainEntities \X RangeEntities)]
         /\ d_parametric_coords' \in
              [Ranks -> SUBSET (RangeEntities \X DomainEntities \X Int)]
         /\ domain_sends' \in [Ranks -> SUBSET domainMessage]
<1> DEFINE H == hits(r, near)
<1>1. H \subseteq rangeMessage \X DomainEntities
  BY HitsType
<1>2. foundPoints(H) \subseteq rangeMessage
  BY HitsType
<1>3. \A h \in H : referenceCoordinate(domain[r][h[2]], h[1].at) \in Int
  <2> SUFFICES ASSUME NEW h \in H
               PROVE  referenceCoordinate(domain[r][h[2]], h[1].at) \in Int
    OBVIOUS
  <2>1. h[1].at \in Coords /\ domain[r][h[2]] \in DomainShapes
    BY HitsType, <1>1 DEF rangeMessage
  <2>2. domain[r][h[2]].box.lo \in Coords
    BY <2>1, ShapeAssumption DEF EntityShape, Box
  <2>3. h[1].at \in Int /\ domain[r][h[2]].box.lo \in Int
    BY <2>1, <2>2, CoordsAssumption
  <2> QED
    BY <2>3 DEF referenceCoordinate
<1>4. recordHits(r, H)
  OBVIOUS
<1> HIDE DEF H
<1>5. d_range_owner_ranks' \in [Ranks -> SUBSET (RangeEntities \X Ranks)]
  BY <1>2, <1>4 DEF recordHits, TypeOK, rangeMessage
<1>6. d_domain_to_range_map' \in
        [Ranks -> SUBSET (DomainEntities \X RangeEntities)]
  BY <1>1, <1>4 DEF recordHits, TypeOK, rangeMessage
<1>7. d_parametric_coords' \in
        [Ranks -> SUBSET (RangeEntities \X DomainEntities \X Int)]
  BY <1>1, <1>3, <1>4 DEF recordHits, TypeOK, rangeMessage
<1>8. domain_sends' \in [Ranks -> SUBSET domainMessage]
  BY <1>1, <1>4
  DEF recordHits, TypeOK, rangeMessage, domainMessage, backMessage
<1> QED
  BY <1>5, <1>6, <1>7, <1>8

LEMMA LocalSearchType ==
  ASSUME TypeOK, NEW r \in Ranks, LocalSearch(r)
  PROVE  TypeOK'
<1>1. PICK near \in [localPoints(r) -> SUBSET DOMAIN domain[r]] :
        /\ recordHits(r, hits(r, near))
        /\ IF d_track_missed_range_entities
           THEN recordFoundAndMissed(r, hits(r, near))
           ELSE UNCHANGED <<found_sends, missed_sends>>
  BY DEF LocalSearch
<1>2. /\ pc' \in [Ranks -> {"new", "gather", "idle",
                            "coarse", "back", "missed", "found"}]
      /\ collectives' \in [Ranks -> Nat]
  BY DEF LocalSearch, enter, TypeOK
<1>3. /\ found_sends'  \in [Ranks -> SUBSET idMessage]
      /\ missed_sends' \in [Ranks -> SUBSET idMessage]
  <2>1. CASE recordFoundAndMissed(r, hits(r, near))
    BY <2>1, HitsType
    DEF recordFoundAndMissed, TypeOK, rangeMessage, idMessage
  <2>2. CASE UNCHANGED <<found_sends, missed_sends>>
    BY <2>2 DEF TypeOK
  <2> QED
    BY <1>1, <2>1, <2>2
<1> QED
  BY <1>1, <1>2, <1>3, RecordHitsType
  DEF LocalSearch, TypeOK, inputVars, coarseVars, rangeVars

LEMMA StoreDomainDataType ==
  ASSUME TypeOK, NEW r \in Ranks, StoreDomainData(r)
  PROVE  TypeOK'
<1>1. imports(domain_sends, r) \subseteq domainMessage
  BY ImportsType DEF TypeOK
<1>2. /\ pc' \in [Ranks -> {"new", "gather", "idle",
                            "coarse", "back", "missed", "found"}]
      /\ collectives' \in [Ranks -> Nat]
  BY DEF StoreDomainData, enter, TypeOK
<1>3. d_domain_owner_ranks' \in [Ranks -> SUBSET (DomainEntities \X Ranks)]
  BY <1>1 DEF StoreDomainData, TypeOK, domainMessage
<1>4. d_range_to_domain_map' \in
        [Ranks -> SUBSET (RangeEntities \X DomainEntities)]
  BY <1>1 DEF StoreDomainData, TypeOK, domainMessage
<1> QED
  BY <1>2, <1>3, <1>4
  DEF StoreDomainData, TypeOK, inputVars, coarseVars, domainVars, sendVars

LEMMA ExchangeFoundType ==
  ASSUME TypeOK, NEW r \in Ranks, ExchangeFound(r)
  PROVE  TypeOK'
<1>1. importMissed(r) \subseteq RangeEntities
  <2>1. imports(missed_sends, r) \subseteq idMessage
    BY ImportsType DEF TypeOK
  <2> QED
    BY <2>1 DEF importMissed, idMessage
<1>2. d_missed_range_entity_ids' \in [Ranks -> SUBSET RangeEntities]
  BY <1>1 DEF ExchangeFound, TypeOK
<1>3. pc' \in [Ranks -> {"new", "gather", "idle",
                         "coarse", "back", "missed", "found"}]
  BY DEF ExchangeFound, TypeOK
<1> QED
  BY <1>2, <1>3
  DEF ExchangeFound, TypeOK, inputVars, coarseVars, domainVars, rangeVars,
      sendVars

LEMMA TypeStep ==
  ASSUME TypeOK, [Next]_vars
  PROVE  TypeOK'
<1>1. ASSUME NEW r \in Ranks, Construct(r) PROVE TypeOK'
  BY <1>1, ConstructType
<1>2. ASSUME NEW r \in Ranks, GatherBoxes(r) PROVE TypeOK'
  BY <1>2 DEF GatherBoxes, TypeOK, inputVars, coarseVars, domainVars,
              rangeVars, sendVars
<1>3. ASSUME NEW r \in Ranks, Search(r) PROVE TypeOK'
  BY <1>3, SearchType
<1>4. ASSUME NEW r \in Ranks, LocalSearch(r) PROVE TypeOK'
  BY <1>4, LocalSearchType
<1>5. ASSUME NEW r \in Ranks, StoreDomainData(r) PROVE TypeOK'
  BY <1>5, StoreDomainDataType
<1>6. ASSUME NEW r \in Ranks, ExchangeMissed(r) PROVE TypeOK'
  BY <1>6 DEF ExchangeMissed, enter, TypeOK, inputVars, coarseVars,
              domainVars, rangeVars, sendVars
<1>7. ASSUME NEW r \in Ranks, ExchangeFound(r) PROVE TypeOK'
  BY <1>7, ExchangeFoundType
<1>8. CASE UNCHANGED vars
  BY <1>8 DEF vars, callVars, inputVars, coarseVars, domainVars, rangeVars,
              sendVars, TypeOK
<1> QED
  BY <1>1, <1>2, <1>3, <1>4, <1>5, <1>6, <1>7, <1>8 DEF Next, Step

\* Every variable keeps its type.
THEOREM TypeCorrect == Spec => []TypeOK
<1>1. TypeOK /\ [Next]_vars => TypeOK'
  BY TypeStep
<1> QED
  BY <1>1, InitType, PTL DEF Spec

-----------------------------------------------------------------------------
(***************************************************************************)
(* The ranks are in lock step: how many collectives a rank has entered     *)
(* follows from where it is, and no two ranks are further apart than one.  *)
(***************************************************************************)
LEMMA InitCalls == Init => CallCount /\ LockStep
BY DEF Init, CallCount, LockStep

\* Where rank r is after a step of its own.
LEMMA StepOfRank ==
  ASSUME TypeOK, NEW r \in Ranks, Step(r)
  PROVE  /\ \A s \in Ranks \ {r} : /\ pc'[s] = pc[s]
                                   /\ collectives'[s] = collectives[s]
                                   /\ searches'[s] = searches[s]
         /\ searches'[r] = IF pc[r] = "idle" THEN searches[r] + 1
                                             ELSE searches[r]
         /\ \/ pc[r] = "new"    /\ pc'[r] = "gather"
            \/ pc[r] = "gather" /\ pc'[r] = "idle"
            \/ pc[r] = "idle"   /\ pc'[r] = "coarse"
            \/ pc[r] = "coarse" /\ pc'[r] = "back"
            \/ /\ pc[r] = "back"
               /\ pc'[r] = IF d_track_missed_range_entities THEN "missed"
                                                            ELSE "idle"
            \/ pc[r] = "missed" /\ pc'[r] = "found"
            \/ pc[r] = "found"  /\ pc'[r] = "idle"
         /\ collectives'[r] = IF pc'[r] = "idle" THEN collectives[r]
                                                 ELSE collectives[r] + 1
         /\ pc[r] \notin {"new", "idle"} => \A s \in Ranks : entered(s, r)
         /\ d_track_missed_range_entities' = d_track_missed_range_entities
<1> USE DEF TypeOK, enter, createFromSends
<1>1. CASE Construct(r)
  BY <1>1 DEF Construct
<1>2. CASE GatherBoxes(r)
  BY <1>2 DEF GatherBoxes
<1>3. CASE Search(r)
  BY <1>3, ParameterAssumption DEF Search
<1>4. CASE LocalSearch(r)
  BY <1>4 DEF LocalSearch
<1>5. CASE StoreDomainData(r)
  BY <1>5 DEF StoreDomainData, tracksMissed
<1>6. CASE ExchangeMissed(r)
  BY <1>6 DEF ExchangeMissed
<1>7. CASE ExchangeFound(r)
  BY <1>7 DEF ExchangeFound
<1> QED
  BY <1>1, <1>2, <1>3, <1>4, <1>5, <1>6, <1>7 DEF Step

LEMMA CallCountStep ==
  ASSUME TypeOK, CallCount, NEW r \in Ranks, Step(r)
  PROVE  CallCount'
<1> SUFFICES ASSUME NEW s \in Ranks PROVE CallCount!(s)'
  BY DEF CallCount
<1>1. CASE s # r
  BY <1>1, StepOfRank DEF CallCount, perSearch
<1>2. CASE s = r
  <2> DEFINE k == perSearch
             c == collectives[r]
             n == searches[r]
  <2>1. c \in Int /\ n \in Int /\ n >= 0
    BY ParameterAssumption DEF TypeOK
  <2>2. k = perSearch' /\ (k = 4 \/ (k = 2 /\ ~ d_track_missed_range_entities))
    BY StepOfRank DEF perSearch
  <2>3. k * (n + 1) = k * n + k /\ k * (n - 1) = k * n - k /\ k * n \in Int
    BY <2>1, <2>2
  <2>4. CallCount!(r)
    BY DEF CallCount
  <2>5. c' = IF pc'[r] = "idle" THEN c ELSE c + 1
    BY StepOfRank
  <2>6. CASE pc[r] = "idle"
    <3>1. n' = n + 1 /\ pc'[r] = "coarse"
      BY <2>6, StepOfRank
    <3>2. n' - 1 = n /\ n' >= 1
      BY <2>1, <3>1
    <3> QED
      BY <1>2, <2>1, <2>2, <2>4, <2>5, <2>6, <3>1, <3>2
  <2>7. CASE pc[r] # "idle"
    <3>1. n' = n
      BY <2>7, StepOfRank
    <3>2. d_track_missed_range_entities' = d_track_missed_range_entities
      BY StepOfRank
    <3>3. CASE pc'[r] = "idle"
      <4>1. pc[r] \in {"gather", "back", "found"} /\ n >= 0
            /\ (pc[r] = "back" => ~ d_track_missed_range_entities)
        BY <2>1, <2>7, <3>3, StepOfRank
      <4>2. c = 1 + k * n
        BY <2>1, <2>2, <2>3, <2>4, <4>1 DEF perSearch
      <4> QED
        BY <1>2, <2>2, <2>5, <3>1, <3>3, <4>2
    <3>4. CASE pc'[r] # "idle"
      <4>1. /\ c' = c + 1
            /\ \/ pc[r] = "new"    /\ pc'[r] = "gather"
               \/ pc[r] = "coarse" /\ pc'[r] = "back"
               \/ /\ pc[r] = "back" /\ pc'[r] = "missed"
                  /\ d_track_missed_range_entities
               \/ pc[r] = "missed" /\ pc'[r] = "found"
        BY <2>5, <2>7, <3>4, StepOfRank
      <4>2. k * (n' - 1) = k * (n - 1) /\ k * (n - 1) \in Int
        BY <2>1, <2>2, <3>1
      <4> QED
        BY <1>2, <2>1, <2>2, <2>4, <3>1, <3>2, <3>4, <4>1, <4>2
    <3> QED
      BY <3>3, <3>4
  <2> QED
    BY <2>6, <2>7
<1> QED
  BY <1>1, <1>2

LEMMA LockStepStep ==
  ASSUME TypeOK, CallCount, LockStep, NEW r \in Ranks, Step(r)
  PROVE  LockStep'
<1>1. collectives \in [Ranks -> Nat]
  BY DEF TypeOK
<1>2. \A s \in Ranks : collectives[r] <= collectives[s]
  BY <1>1, StepOfRank DEF entered, LockStep, CallCount
<1> QED
  BY <1>1, <1>2, StepOfRank DEF LockStep

\* The counts are in step with the calls, and no rank gets more than one
\* collective ahead of another: the exchanges of the code pair up.
THEOREM RanksInLockStep == Spec => [](CallCount /\ LockStep)
<1>1. TypeOK /\ CallCount /\ LockStep /\ [Next]_vars => (CallCount /\ LockStep)'
  <2> SUFFICES ASSUME TypeOK, CallCount, LockStep, [Next]_vars
               PROVE  (CallCount /\ LockStep)'
    OBVIOUS
  <2>1. ASSUME NEW r \in Ranks, Step(r) PROVE (CallCount /\ LockStep)'
    BY <2>1, CallCountStep, LockStepStep
  <2>2. CASE UNCHANGED vars
    BY <2>2 DEF vars, callVars, CallCount, LockStep, perSearch
  <2> QED
    BY <2>1, <2>2 DEF Next
<1> QED
  BY <1>1, InitCalls, TypeCorrect, PTL DEF Spec

-----------------------------------------------------------------------------
(***************************************************************************)
(* What lock step says of the searches two ranks are in.                   *)
(***************************************************************************)
LEMMA CountsOfRank ==
  ASSUME TypeOK, CallCount, NEW r \in Ranks
  PROVE  /\ CallCount!(r)
         /\ pc[r] \in {"new", "gather", "idle",
                       "coarse", "back", "missed", "found"}
         /\ collectives[r] \in Int
         /\ searches[r] \in Int /\ searches[r] >= 0
BY ParameterAssumption DEF CallCount, TypeOK

\* A rank imports the coarse search when the others are in the same search, and
\* have done no more of it than their local part.
LEMMA InCoarse ==
  ASSUME TypeOK, CallCount, LockStep, NEW r \in Ranks, NEW s \in Ranks,
         pc[r] = "coarse", entered(s, r)
  PROVE  searches[s] = searches[r] /\ pc[s] \in {"coarse", "back"}
<1>1. /\ collectives[r] <= collectives[s] /\ collectives[s] <= collectives[r] + 1
      /\ pc[s] = "idle" => collectives[s] = collectives[r]
  BY CountsOfRank DEF LockStep, entered
<1>2. CASE d_track_missed_range_entities
  BY <1>1, <1>2, CountsOfRank DEF perSearch
<1>3. CASE ~ d_track_missed_range_entities
  BY <1>1, <1>3, CountsOfRank DEF perSearch
<1> QED
  BY <1>2, <1>3

\* A rank imports the back-communication when the others have done their local
\* part of the same search, and no later one.
LEMMA InBack ==
  ASSUME TypeOK, CallCount, LockStep, NEW r \in Ranks, NEW s \in Ranks,
         pc[r] = "back", entered(s, r)
  PROVE  localSearches(s) = searches[r]
<1>1. collectives[r] <= collectives[s] /\ collectives[s] <= collectives[r] + 1
  BY CountsOfRank DEF LockStep, entered
<1>2. CASE d_track_missed_range_entities
  BY <1>1, <1>2, CountsOfRank
  DEF perSearch, localSearches, searched, stored, returned
<1>3. CASE ~ d_track_missed_range_entities
  BY <1>1, <1>3, CountsOfRank
  DEF perSearch, localSearches, searched, stored, returned
<1> QED
  BY <1>2, <1>3

\* When a rank calls search() no other one is through the local part of it.
LEMMA InIdle ==
  ASSUME TypeOK, CallCount, LockStep, NEW r \in Ranks, NEW s \in Ranks,
         pc[r] = "idle"
  PROVE  localSearches(s) <= searches[r]
<1>1. /\ collectives[r] <= collectives[s] /\ collectives[s] <= collectives[r] + 1
  BY CountsOfRank DEF LockStep
<1>2. CASE d_track_missed_range_entities
  BY <1>1, <1>2, CountsOfRank
  DEF perSearch, localSearches, searched, stored, returned
<1>3. CASE ~ d_track_missed_range_entities
  BY <1>1, <1>3, CountsOfRank
  DEF perSearch, localSearches, searched, stored, returned
<1> QED
  BY <1>2, <1>3

\* As soon as one rank searches every rank has been constructed.
LEMMA NoneNew ==
  ASSUME TypeOK, CallCount, LockStep, NEW r \in Ranks, NEW s \in Ranks,
         pc[s] = "new"
  PROVE  searches[r] = 0
<1>1. collectives[r] <= 1
  BY CountsOfRank DEF LockStep
<1>2. CASE d_track_missed_range_entities
  BY <1>1, <1>2, CountsOfRank DEF perSearch
<1>3. CASE ~ d_track_missed_range_entities
  BY <1>1, <1>3, CountsOfRank DEF perSearch
<1> QED
  BY <1>2, <1>3

-----------------------------------------------------------------------------
(***************************************************************************)
(* Geometry: the prefilter and the boxes of the ranks never hide an entity *)
(* from a point.  At the end a fact about numbers.                         *)
(***************************************************************************)
LEMMA BoxType ==
  ASSUME NEW b \in Box
  PROVE  /\ b.lo \in Int /\ b.hi \in Int /\ b.lo <= b.hi
         /\ pad(b) \in Nat
         /\ lower(b) \in Int /\ upper(b) \in Int
<1>1. b.lo \in Int /\ b.hi \in Int /\ b.lo <= b.hi
  BY CoordsAssumption DEF Box
<1>2. b.hi - b.lo \in Nat
  BY <1>1
<1>3. pad(b) \in Nat
  BY <1>2, ToleranceAssumption DEF pad
<1>4. b.lo * TolDen \in Int /\ b.hi * TolDen \in Int
  BY <1>1, ToleranceAssumption
<1> QED
  BY <1>1, <1>3, <1>4 DEF lower, upper

\* A box within another one reaches no further with its tolerance.
LEMMA PaddedBoxMonotone ==
  ASSUME NEW a \in Box, NEW b \in Box, b.lo <= a.lo, a.hi <= b.hi
  PROVE  lower(b) <= lower(a) /\ upper(a) <= upper(b)
<1>1. /\ a.lo * TolDen \in Int /\ a.hi * TolDen \in Int
      /\ b.lo * TolDen \in Int /\ b.hi * TolDen \in Int
  BY BoxType, ToleranceAssumption
<1>2. b.lo * TolDen <= a.lo * TolDen /\ a.hi * TolDen <= b.hi * TolDen
  BY BoxType, ToleranceAssumption, ScaleMonotone
<1>3. pad(a) <= pad(b)
  <2>1. /\ a.hi - a.lo \in Int /\ b.hi - b.lo \in Int
        /\ a.hi - a.lo <= b.hi - b.lo
    BY BoxType
  <2> QED
    BY <2>1, ToleranceAssumption, ScaleMonotone DEF pad
<1>4. pad(a) \in Int /\ pad(b) \in Int
  BY BoxType
<1> QED
  BY <1>1, <1>2, <1>3, <1>4 DEF lower, upper

\* A point is in every box around a box it is in: the box a rank reports
\* catches the points of all its entities.
THEOREM PointInCover ==
  ASSUME NEW p \in Int, NEW a \in Box, NEW b \in Box,
         b.lo <= a.lo, a.hi <= b.hi, pointInBox(p, a)
  PROVE  pointInBox(p, b)
<1>1. lower(b) <= lower(a) /\ upper(a) <= upper(b)
  BY PaddedBoxMonotone
<1>2. p * TolDen \in Int
  BY ToleranceAssumption
<1> QED
  BY <1>1, <1>2, BoxType DEF pointInBox

\* The prefilter drops no rank the selection would choose: a box that holds
\* the point intersects every box the point is in.
THEOREM PrefilterComplete ==
  ASSUME NEW p \in Int, NEW a \in Box, NEW b \in Box,
         a.lo <= p, p <= a.hi, pointInBox(p, b)
  PROVE  boxesIntersect(a, b)
<1>1. p * TolDen \in Int /\ a.lo * TolDen \in Int /\ a.hi * TolDen \in Int
  BY BoxType, ToleranceAssumption
<1>2. a.lo * TolDen <= p * TolDen /\ p * TolDen <= a.hi * TolDen
  BY BoxType, ToleranceAssumption, ScaleMonotone
<1>3. lower(a) <= p * TolDen /\ p * TolDen <= upper(a)
  BY <1>1, <1>2, BoxType DEF lower, upper
<1> QED
  BY <1>1, <1>3, BoxType DEF pointInBox, boxesIntersect

\* With an inclusion tolerance no smaller than the safeguard's, a point that
\* maps into an entity is within the tolerance of its box.
LEMMA SafeIsInTolerance ==
  ASSUME NEW p \in Int, NEW shape \in EntityShape, SafeTolNum <= TolNum,
         isSafeToMapToReferenceFrame(shape, p)
  PROVE  pointInBox(p, shape.box)
<1> DEFINE b == shape.box
           w == b.hi - b.lo
<1>1. b \in Box /\ w \in Nat
  BY BoxType DEF EntityShape
<1>2. SafeTolNum * w <= TolNum * w
  BY <1>1, ToleranceAssumption, ScaleMonotone
<1>3. w * SafeTolNum = SafeTolNum * w /\ w * TolNum = TolNum * w
  BY <1>1, ToleranceAssumption
<1>4. /\ b.lo * TolDen \in Int /\ b.hi * TolDen \in Int /\ p * TolDen \in Int
      /\ w * SafeTolNum \in Int /\ w * TolNum \in Int
  BY <1>1, BoxType, ToleranceAssumption
<1> QED
  BY <1>2, <1>3, <1>4
  DEF isSafeToMapToReferenceFrame, pointInBox, lower, upper, pad

\* A nearest neighbor query on no more than KNN entities returns all of them.
LEMMA NearestAreAll ==
  ASSUME NEW p, NEW D, NEW S, nnSearch(p, D, S),
         IsFiniteSet(DOMAIN D), Cardinality(DOMAIN D) <= KNN
  PROVE  S = DOMAIN D
<1>1. Cardinality(DOMAIN D) \in Nat
  BY FS_CardinalityType
<1>2. Cardinality(S) = Cardinality(DOMAIN D) /\ S \subseteq DOMAIN D
  BY <1>1, KNNAssumption DEF nnSearch
<1> QED
  BY <1>2, FS_Subset

-----------------------------------------------------------------------------
(***************************************************************************)
(* The invariant of the graph.                                             *)
(***************************************************************************)

\* The local iterators of a rank enumerate entities it owns.
LocalInputs ==
  \A r \in Ranks :
    /\ DOMAIN domain[r] \subseteq localEntities(DomainOwner, r)
    /\ DOMAIN range[r]  \subseteq localEntities(RangeOwner, r)
    /\ pc[r] = "new" => DOMAIN domain[r] = {}

\* The gathered box of a rank covers the boxes of its domain entities.
BoxesCover ==
  \A r \in Ranks : \A d \in DOMAIN domain[r] :
    /\ d_domain_boxes[r].lo <= domain[r][d].box.lo
    /\ domain[r][d].box.hi <= d_domain_boxes[r].hi

\* The maps are empty between the reset and the exchange that fills them.
Cleared ==
  \A r \in Ranks :
    /\ pc[r] = "coarse" =>
         /\ d_range_owner_ranks[r] = {}
         /\ d_domain_to_range_map[r] = {}
         /\ d_parametric_coords[r] = {}
    /\ pc[r] \in {"coarse", "back"} => d_range_to_domain_map[r] = {}

\* What a rank exports in the coarse search is its present range entities, each
\* to every rank whose box its centroid is in.
RangeSends ==
  \A r \in Ranks : searches[r] > 0 =>
    /\ \A m \in range_sends[r] :
         /\ m.owner = r
         /\ m.id \in DOMAIN range[r]
         /\ m.at = range[r][m.id].centroid
    /\ \A e \in DOMAIN range[r], n \in Ranks :
         pointInBox(range[r][e].centroid, d_domain_boxes[n]) =>
           [id |-> e, owner |-> r, at |-> range[r][e].centroid, to |-> n]
             \in range_sends[r]

message(q, d, e) ==
  [range |-> e, domain |-> d, rank |-> q, to |-> RangeOwner[e]]

\* What a rank sends back tells the truth about the search the addressee is in,
\* and all of it if the nearest neighbors are all of the domain.
DomainSends ==
  \A q \in Ranks :
    /\ \A m \in domain_sends[q] :
         m.domain \in DOMAIN domain[q] /\ m = message(q, m.domain, m.range)
    /\ \A p \in Ranks : searches[p] > 0 /\ localSearches(q) = searches[p] =>
         /\ \A m \in domain_sends[q] :
              m.to = p => isIn(m.range, p, m.domain, q)
         /\ Cardinality(DOMAIN domain[q]) <= KNN =>
              \A d \in DomainEntities, e \in RangeEntities :
                isInTolerance(e, p, d, q) =>
                  message(q, d, e) \in domain_sends[q]

\* The domain side of the graph is what the rank has sent back.
DomainSide ==
  \A q \in Ranks : searched(q) =>
    /\ \A d \in DomainEntities, e \in RangeEntities :
         <<d, e>> \in d_domain_to_range_map[q]
           <=> message(q, d, e) \in domain_sends[q]
    /\ \A m \in domain_sends[q] :
         /\ <<m.range, m.to>> \in d_range_owner_ranks[q]
         /\ searches[m.to] = searches[q] =>
              <<m.range, m.domain,
                referenceCoordinate(domain[q][m.domain],
                                    range[m.to][m.range].centroid)>>
                \in d_parametric_coords[q]

\* The range side of the graph is what the ranks have sent to it.
RangeSide ==
  \A p, q \in Ranks : stored(p) /\ localSearches(q) = searches[p] =>
    \A d \in DomainEntities, e \in RangeEntities :
      DomainOwner[d] = q /\ RangeOwner[e] = p =>
        /\ <<e, d>> \in d_range_to_domain_map[p]
             <=> message(q, d, e) \in domain_sends[q]
        /\ <<e, d>> \in d_range_to_domain_map[p]
             => <<d, q>> \in d_domain_owner_ranks[p]

\* The inductive invariant.
InputInv == LocalInputs /\ BoxesCover /\ RangeSends
GraphInv == Cleared /\ DomainSends /\ DomainSide /\ RangeSide

-----------------------------------------------------------------------------
(***************************************************************************)
(* What the steps read and write.                                          *)
(***************************************************************************)

\* A step of a rank leaves the state of the others alone.
LEMMA OthersKeep ==
  ASSUME TypeOK, NEW r \in Ranks, Step(r), NEW s \in Ranks, s # r
  PROVE  /\ domain'[s] = domain[s]
         /\ range'[s] = range[s]
         /\ d_domain_boxes'[s] = d_domain_boxes[s]
         /\ range_sends'[s] = range_sends[s]
         /\ d_range_owner_ranks'[s] = d_range_owner_ranks[s]
         /\ d_domain_to_range_map'[s] = d_domain_to_range_map[s]
         /\ d_parametric_coords'[s] = d_parametric_coords[s]
         /\ d_domain_owner_ranks'[s] = d_domain_owner_ranks[s]
         /\ d_range_to_domain_map'[s] = d_range_to_domain_map[s]
         /\ domain_sends'[s] = domain_sends[s]
<1> USE DEF TypeOK, inputVars, coarseVars, domainVars, rangeVars, sendVars
<1>1. CASE Construct(r)
  BY <1>1 DEF Construct
<1>2. CASE GatherBoxes(r)
  BY <1>2 DEF GatherBoxes
<1>3. CASE Search(r)
  BY <1>3 DEF Search, clear
<1>4. CASE LocalSearch(r)
  BY <1>4 DEF LocalSearch, recordHits
<1>5. CASE StoreDomainData(r)
  BY <1>5 DEF StoreDomainData
<1>6. CASE ExchangeMissed(r)
  BY <1>6 DEF ExchangeMissed
<1>7. CASE ExchangeFound(r)
  BY <1>7 DEF ExchangeFound
<1> QED
  BY <1>1, <1>2, <1>3, <1>4, <1>5, <1>6, <1>7 DEF Step

\* Only the constructor and search() read the iterators of the rank.
LEMMA InputsKept ==
  ASSUME TypeOK, NEW r \in Ranks, Step(r)
  PROVE  /\ pc[r] # "new" =>
              domain'[r] = domain[r] /\ d_domain_boxes'[r] = d_domain_boxes[r]
         /\ pc[r] # "idle" =>
              range'[r] = range[r] /\ range_sends'[r] = range_sends[r]
<1> USE DEF inputVars, coarseVars, sendVars
<1>1. CASE Construct(r)
  BY <1>1 DEF Construct
<1>2. CASE GatherBoxes(r)
  BY <1>2 DEF GatherBoxes
<1>3. CASE Search(r)
  BY <1>3 DEF Search
<1>4. CASE LocalSearch(r)
  BY <1>4 DEF LocalSearch
<1>5. CASE StoreDomainData(r)
  BY <1>5 DEF StoreDomainData
<1>6. CASE ExchangeMissed(r)
  BY <1>6 DEF ExchangeMissed
<1>7. CASE ExchangeFound(r)
  BY <1>7 DEF ExchangeFound
<1> QED
  BY <1>1, <1>2, <1>3, <1>4, <1>5, <1>6, <1>7 DEF Step

\* The graph is written by the reset, the local search and the storing of the
\* back-communication.
LEMMA GraphKept ==
  ASSUME TypeOK, NEW r \in Ranks, Step(r)
  PROVE  /\ pc[r] \notin {"idle", "coarse"} =>
              /\ d_range_owner_ranks'[r] = d_range_owner_ranks[r]
              /\ d_domain_to_range_map'[r] = d_domain_to_range_map[r]
              /\ d_parametric_coords'[r] = d_parametric_coords[r]
         /\ pc[r] # "coarse" => domain_sends'[r] = domain_sends[r]
         /\ pc[r] # "back" => d_domain_owner_ranks'[r] = d_domain_owner_ranks[r]
         /\ pc[r] \notin {"idle", "back"} =>
              d_range_to_domain_map'[r] = d_range_to_domain_map[r]
<1> USE DEF domainVars, rangeVars, sendVars, createFromSends
<1>1. CASE Construct(r)
  BY <1>1 DEF Construct
<1>2. CASE GatherBoxes(r)
  BY <1>2 DEF GatherBoxes
<1>3. CASE Search(r)
  BY <1>3 DEF Search
<1>4. CASE LocalSearch(r)
  BY <1>4 DEF LocalSearch
<1>5. CASE StoreDomainData(r)
  BY <1>5 DEF StoreDomainData
<1>6. CASE ExchangeMissed(r)
  BY <1>6 DEF ExchangeMissed
<1>7. CASE ExchangeFound(r)
  BY <1>7 DEF ExchangeFound
<1> QED
  BY <1>1, <1>2, <1>3, <1>4, <1>5, <1>6, <1>7 DEF Step

\* The shapes of the entities a rank has.
LEMMA Shapes ==
  ASSUME TypeOK, NEW r \in Ranks
  PROVE  /\ DOMAIN domain[r] \subseteq DomainEntities
         /\ IsFiniteSet(DOMAIN domain[r])
         /\ \A d \in DOMAIN domain[r] : domain[r][d].box \in Box
         /\ DOMAIN range[r] \subseteq RangeEntities
         /\ \A e \in DOMAIN range[r] : range[r][e].centroid \in Int
         /\ d_domain_boxes[r] \in Box
<1>1. PICK D \in SUBSET DomainEntities : domain[r] \in [D -> DomainShapes]
  BY DEF TypeOK, partialFunctions
<1>2. PICK R \in SUBSET RangeEntities : range[r] \in [R -> RangeShapes]
  BY DEF TypeOK, partialFunctions
<1>3. IsFiniteSet(D)
  BY EntityAssumption, FS_Subset
<1>4. \A s \in DomainShapes : s.box \in Box
  BY ShapeAssumption DEF EntityShape
<1>5. \A s \in RangeShapes : s.centroid \in Int
  BY ShapeAssumption, CoordsAssumption DEF RangeShape
<1> QED
  BY <1>1, <1>2, <1>3, <1>4, <1>5 DEF TypeOK

-----------------------------------------------------------------------------
(***************************************************************************)
(* The input of a search and what is exported of it.                       *)
(***************************************************************************)
LEMMA InitInput == Init => InputInv
BY DEF Init, InputInv, LocalInputs, BoxesCover, RangeSends, noEntities

LEMMA LocalInputsStep ==
  ASSUME TypeOK, LocalInputs, NEW r \in Ranks, Step(r)
  PROVE  LocalInputs'
<1> SUFFICES ASSUME NEW s \in Ranks PROVE LocalInputs!(s)'
  BY DEF LocalInputs
<1>1. CASE s # r
  BY <1>1, OthersKeep, StepOfRank DEF LocalInputs
<1>2. CASE s = r
  <2>1. DOMAIN domain'[r] \subseteq localEntities(DomainOwner, r)
    <3>1. CASE Construct(r)
      BY <3>1 DEF Construct, partialFunctions, TypeOK
    <3>2. CASE ~ Construct(r)
      <4>1. pc[r] # "new"
        BY <3>2 DEF Step, GatherBoxes, Search, LocalSearch, StoreDomainData,
           ExchangeMissed, ExchangeFound, createFromSends
      <4> QED
        BY <4>1, InputsKept DEF LocalInputs
    <3> QED
      BY <3>1, <3>2
  <2>2. DOMAIN range'[r] \subseteq localEntities(RangeOwner, r)
    <3>1. CASE Search(r)
      BY <3>1 DEF Search, partialFunctions, TypeOK
    <3>2. CASE ~ Search(r)
      <4>1. pc[r] # "idle"
        BY <3>2 DEF Step, Construct, GatherBoxes, LocalSearch,
           StoreDomainData, ExchangeMissed, ExchangeFound, createFromSends
      <4> QED
        BY <4>1, InputsKept DEF LocalInputs
    <3> QED
      BY <3>1, <3>2
  <2>3. pc'[r] # "new"
    BY StepOfRank
  <2> QED
    BY <1>2, <2>1, <2>2, <2>3
<1> QED
  BY <1>1, <1>2

LEMMA BoxesCoverStep ==
  ASSUME TypeOK, BoxesCover, NEW r \in Ranks, Step(r)
  PROVE  BoxesCover'
<1> SUFFICES ASSUME NEW s \in Ranks PROVE BoxesCover!(s)'
  BY DEF BoxesCover
<1>1. CASE s # r
  BY <1>1, OthersKeep DEF BoxesCover
<1>2. CASE Construct(r) /\ s = r
  <2>1. PICK D \in partialFunctions(localEntities(DomainOwner, r), DomainShapes),
             b \in Box :
           /\ assembleBoundingBox(boxesOf(D), b)
           /\ domain' = [domain EXCEPT ![r] = D]
           /\ d_domain_boxes' = [d_domain_boxes EXCEPT ![r] = b]
    BY <1>2 DEF Construct
  <2>2. domain'[r] = D /\ d_domain_boxes'[r] = b
    BY <2>1 DEF TypeOK
  <2>3. \A d \in DOMAIN D : D[d].box \in boxesOf(D)
    BY DEF boxesOf
  <2>4. \A d \in DOMAIN D : b.lo <= D[d].box.lo /\ D[d].box.hi <= b.hi
    BY <2>1, <2>3 DEF assembleBoundingBox
  <2> QED
    BY <1>2, <2>2, <2>4
<1>3. CASE ~ Construct(r) /\ s = r
  <2>1. pc[r] # "new"
    BY <1>3 DEF Step, GatherBoxes, Search, LocalSearch, StoreDomainData,
       ExchangeMissed, ExchangeFound, createFromSends
  <2> QED
    BY <1>3, <2>1, InputsKept DEF BoxesCover
<1> QED
  BY <1>1, <1>2, <1>3

\* What search() exports: every centroid, to every rank whose box it is in.
LEMMA CoarseSendsOfRange ==
  ASSUME TypeOK, NEW r \in Ranks, NEW b \in Box,
         NEW R \in partialFunctions(localEntities(RangeOwner, r), RangeShapes),
         assembleBoundingBox(boxesOf(R), b)
  PROVE  /\ \A m \in coarseSends(r, R, b) :
              m.owner = r /\ m.id \in DOMAIN R /\ m.at = R[m.id].centroid
         /\ \A e \in DOMAIN R, n \in Ranks :
              pointInBox(R[e].centroid, d_domain_boxes[n]) =>
                [id |-> e, owner |-> r, at |-> R[e].centroid, to |-> n]
                  \in coarseSends(r, R, b)
<1>1. \A m \in coarseSends(r, R, b) :
        m.owner = r /\ m.id \in DOMAIN R /\ m.at = R[m.id].centroid
  BY DEF coarseSends
<1>2. ASSUME NEW e \in DOMAIN R, NEW n \in Ranks,
             pointInBox(R[e].centroid, d_domain_boxes[n])
      PROVE  [id |-> e, owner |-> r, at |-> R[e].centroid, to |-> n]
               \in coarseSends(r, R, b)
  <2>1. R[e] \in RangeShape
    BY ShapeAssumption DEF partialFunctions
  <2>2. /\ R[e].box.lo \in Int /\ R[e].box.hi \in Int /\ R[e].centroid \in Int
        /\ R[e].box.lo <= R[e].centroid /\ R[e].centroid <= R[e].box.hi
    BY <2>1, CoordsAssumption DEF RangeShape, Box
  <2>3. R[e].box \in boxesOf(R)
    BY DEF boxesOf
  <2>4. b.lo <= R[e].box.lo /\ R[e].box.hi <= b.hi
    BY <2>3 DEF assembleBoundingBox
  <2>5. b.lo <= R[e].centroid /\ R[e].centroid <= b.hi
    BY <2>2, <2>4, BoxType
  <2>6. d_domain_boxes[n] \in Box
    BY Shapes
  <2>7. boxesIntersect(b, d_domain_boxes[n])
    BY <1>2, <2>2, <2>5, <2>6, PrefilterComplete
  <2>8. <<e, n>> \in (DOMAIN R) \X neighborRanks(b)
    BY <2>7 DEF neighborRanks
  <2> QED
    BY <1>2, <2>8 DEF coarseSends
<1> QED
  BY <1>1, <1>2

LEMMA RangeSendsStep ==
  ASSUME TypeOK, CallCount, LockStep, RangeSends, NEW r \in Ranks, Step(r)
  PROVE  RangeSends'
<1> SUFFICES ASSUME NEW s \in Ranks, searches'[s] > 0
             PROVE  RangeSends!(s)!2'
  BY DEF RangeSends
<1>1. CASE Search(r) /\ s = r
  <2>1. PICK R \in partialFunctions(localEntities(RangeOwner, r), RangeShapes),
             b \in Box :
           /\ assembleBoundingBox(boxesOf(R), b)
           /\ range' = [range EXCEPT ![r] = R]
           /\ range_sends' = [range_sends EXCEPT ![r] = coarseSends(r, R, b)]
    BY <1>1 DEF Search
  <2>2. /\ range'[r] = R /\ range_sends'[r] = coarseSends(r, R, b)
        /\ d_domain_boxes' = d_domain_boxes
    BY <1>1, <2>1 DEF Search, TypeOK
  <2>3. assembleBoundingBox(boxesOf(R), b)
    BY <2>1
  <2> HIDE <2>1
  <2> QED
    BY <1>1, <2>2, <2>3, CoarseSendsOfRange
<1>2. CASE ~ (Search(r) /\ s = r)
  <2>1. /\ range'[s] = range[s] /\ range_sends'[s] = range_sends[s]
        /\ searches'[s] = searches[s]
    <3>1. CASE s # r
      BY <3>1, OthersKeep, StepOfRank
    <3>2. CASE s = r
      <4>1. pc[r] # "idle"
        BY <1>2, <3>2 DEF Step, Construct, GatherBoxes, LocalSearch,
           StoreDomainData, ExchangeMissed, ExchangeFound, createFromSends
      <4> QED
        BY <3>2, <4>1, InputsKept, StepOfRank
    <3> QED
      BY <3>1, <3>2
  <2>2. pc[r] # "new"
    BY <2>1, NoneNew
  <2>3. \A n \in Ranks : d_domain_boxes'[n] = d_domain_boxes[n]
    BY <2>2, InputsKept, OthersKeep
  <2> QED
    BY <2>1, <2>3 DEF RangeSends
<1> QED
  BY <1>1, <1>2

LEMMA InputStep ==
  ASSUME TypeOK, CallCount, LockStep, InputInv, NEW r \in Ranks, Step(r)
  PROVE  InputInv'
BY LocalInputsStep, BoxesCoverStep, RangeSendsStep DEF InputInv

-----------------------------------------------------------------------------
(***************************************************************************)
(* The local search: what it pairs is true, and all of it if the neighbor  *)
(* query returns the whole domain.                                         *)
(***************************************************************************)

\* An imported centroid is that of a range entity in the search of the rank.
LEMMA PointsTrue ==
  ASSUME TypeOK, CallCount, LockStep, InputInv, NEW r \in Ranks,
         createFromSends(r, "coarse"), NEW m \in localPoints(r)
  PROVE  /\ m.owner \in Ranks /\ m.id \in RangeEntities
         /\ searches[m.owner] = searches[r]
         /\ RangeOwner[m.id] = m.owner
         /\ m.id \in DOMAIN range[m.owner]
         /\ m.at = range[m.owner][m.id].centroid
<1>1. PICK s \in Ranks : m \in range_sends[s]
  BY DEF localPoints, imports
<1>2. searches[s] = searches[r] /\ searches[r] > 0
  BY InCoarse, CountsOfRank DEF createFromSends
<1>3. /\ m.owner = s
      /\ m.id \in DOMAIN range[s]
      /\ m.at = range[s][m.id].centroid
  BY <1>1, <1>2 DEF InputInv, RangeSends
<1>4. m.id \in localEntities(RangeOwner, s)
  BY <1>3 DEF InputInv, LocalInputs
<1> QED
  BY <1>2, <1>3, <1>4, OwnerAssumption DEF localEntities

LEMMA HitsTrue ==
  ASSUME TypeOK, CallCount, LockStep, InputInv, NEW r \in Ranks,
         createFromSends(r, "coarse"), NEW near, NEW h \in hits(r, near)
  PROVE  /\ h[1] \in localPoints(r) /\ h[2] \in DOMAIN domain[r]
         /\ backMessage(r, h[1], h[2]) = message(r, h[2], h[1].id)
         /\ isIn(h[1].id, h[1].owner, h[2], r)
<1>1. h[1] \in localPoints(r) /\ h[2] \in DOMAIN domain[r]
  BY HitsType
<1>2. mapsInto(domain[r][h[2]], h[1].at)
  BY DEF hits, parentsOf
<1>3. backMessage(r, h[1], h[2]) = message(r, h[2], h[1].id)
  BY <1>1, PointsTrue DEF backMessage, message
<1> QED
  BY <1>1, <1>2, <1>3, PointsTrue DEF isIn

LEMMA HitsComplete ==
  ASSUME TypeOK, CallCount, LockStep, InputInv, NEW r \in Ranks,
         createFromSends(r, "coarse"),
         NEW near \in [localPoints(r) -> SUBSET DOMAIN domain[r]],
         \A m \in localPoints(r) : nnSearch(m.at, domain[r], near[m]),
         Cardinality(DOMAIN domain[r]) <= KNN,
         NEW p \in Ranks, NEW e, NEW d, isInTolerance(e, p, d, r)
  PROVE  \E h \in hits(r, near) : h[1].id = e /\ h[2] = d
<1> DEFINE c == range[p][e].centroid
           m == [id |-> e, owner |-> p, at |-> c, to |-> r]
<1>1. /\ d \in DOMAIN domain[r] /\ e \in DOMAIN range[p]
      /\ mapsInto(domain[r][d], c)
      /\ pointInBox(c, domain[r][d].box)
  BY DEF isIn, isInTolerance
<1>2. searches[p] > 0
  BY InCoarse, CountsOfRank DEF createFromSends
<1>3. pointInBox(c, d_domain_boxes[r])
  <2>1. /\ c \in Int /\ domain[r][d].box \in Box /\ d_domain_boxes[r] \in Box
    BY <1>1, Shapes
  <2>2. /\ d_domain_boxes[r].lo <= domain[r][d].box.lo
        /\ domain[r][d].box.hi <= d_domain_boxes[r].hi
    BY <1>1 DEF InputInv, BoxesCover
  <2> QED
    BY <1>1, <2>1, <2>2, PointInCover
<1>4. m \in range_sends[p]
  BY <1>1, <1>2, <1>3 DEF InputInv, RangeSends
<1>5. m \in localPoints(r)
  BY <1>1, <1>4 DEF localPoints, imports
<1>6. near[m] = DOMAIN domain[r]
  BY <1>5, Shapes, NearestAreAll
<1>7. d \in parentsOf(domain[r], m, near[m])
  BY <1>1, <1>6 DEF parentsOf
<1>8. <<m, d>> \in hits(r, near)
  BY <1>1, <1>5, <1>7 DEF hits
<1> QED
  BY <1>8

-----------------------------------------------------------------------------
(***************************************************************************)
(* Steps that keep two ranks in the search they were in.                   *)
(***************************************************************************)
LEMMA LocalSearchesStep ==
  ASSUME TypeOK, CallCount, NEW r \in Ranks, Step(r), NEW q \in Ranks,
         ~ (q = r /\ pc[r] = "coarse")
  PROVE  localSearches(q)' = localSearches(q) \/ localSearches(q)' <= 0
<1> USE CountsOfRank, StepOfRank
    DEF localSearches, searched, stored, returned
<1>1. CASE q # r
  BY <1>1
<1>2. CASE q = r /\ pc[r] = "idle"
  BY <1>2
<1>3. CASE q = r /\ pc[r] # "idle"
  BY <1>3
<1> QED
  BY <1>1, <1>2, <1>3

\* Unless q does the local part of its search, what it has sent is about the
\* same input of p before and after the step.
LEMMA SameSearch ==
  ASSUME TypeOK, CallCount, LockStep, NEW r \in Ranks, Step(r),
         NEW q \in Ranks, NEW p \in Ranks, ~ (q = r /\ pc[r] = "coarse"),
         searches'[p] > 0, localSearches(q)' = searches'[p]
  PROVE  /\ searches[p] > 0 /\ localSearches(q) = searches[p]
         /\ searches'[p] = searches[p]
         /\ range'[p] = range[p] /\ domain'[q] = domain[q]
         /\ domain_sends'[q] = domain_sends[q]
<1>1. localSearches(q)' = localSearches(q)
  BY LocalSearchesStep, CountsOfRank, StepOfRank
<1>2. ~ (p = r /\ pc[r] = "idle")
  <2> SUFFICES ASSUME p = r, pc[r] = "idle" PROVE FALSE
    OBVIOUS
  <2>1. localSearches(q) = searches[r] + 1
    BY <1>1, StepOfRank
  <2>2. localSearches(q) <= searches[r]
    BY InIdle
  <2> QED
    BY <2>1, <2>2, CountsOfRank
<1>3. searches'[p] = searches[p]
  BY <1>2, StepOfRank
<1>4. range'[p] = range[p]
  BY <1>2, OthersKeep, InputsKept
<1>5. domain_sends'[q] = domain_sends[q]
  BY OthersKeep, GraphKept
<1>6. pc[r] # "new"
  BY <1>3, NoneNew
<1>7. domain'[q] = domain[q]
  BY <1>6, OthersKeep, InputsKept
<1> QED
  BY <1>1, <1>3, <1>4, <1>5, <1>7

-----------------------------------------------------------------------------
(***************************************************************************)
(* The graph.                                                              *)
(***************************************************************************)
LEMMA InitGraph == Init => GraphInv
BY DEF Init, GraphInv, Cleared, DomainSends, DomainSide, RangeSide,
       localSearches, searched, stored, returned, entered

LEMMA ClearedStep ==
  ASSUME TypeOK, Cleared, NEW r \in Ranks, Step(r)
  PROVE  Cleared'
<1> SUFFICES ASSUME NEW s \in Ranks PROVE Cleared!(s)'
  BY DEF Cleared
<1>1. CASE s # r
  BY <1>1, OthersKeep, StepOfRank DEF Cleared
<1>2. CASE s = r /\ Search(r)
  BY <1>2 DEF Search, clear, enter, TypeOK
<1>3. CASE s = r /\ pc[r] = "coarse"
  BY <1>3, GraphKept, StepOfRank DEF Cleared
<1>4. CASE s = r /\ ~ Search(r) /\ pc[r] # "coarse"
  <2>1. pc[r] # "idle"
    BY <1>4 DEF Step, Construct, GatherBoxes, LocalSearch,
       StoreDomainData, ExchangeMissed, ExchangeFound, createFromSends
  <2> QED
    BY <1>4, <2>1, StepOfRank
<1> QED
  BY <1>1, <1>2, <1>3, <1>4

\* A rank in the plan of the coarse search has only its local part to do.
LEMMA CoarseStep ==
  ASSUME NEW r \in Ranks, Step(r), pc[r] = "coarse"
  PROVE  LocalSearch(r) /\ createFromSends(r, "coarse")
BY DEF Step, Construct, GatherBoxes, Search, LocalSearch, StoreDomainData,
       ExchangeMissed, ExchangeFound, createFromSends

LEMMA BackStep ==
  ASSUME NEW r \in Ranks, Step(r), pc[r] = "back"
  PROVE  StoreDomainData(r) /\ createFromSends(r, "back")
BY DEF Step, Construct, GatherBoxes, Search, LocalSearch, StoreDomainData,
       ExchangeMissed, ExchangeFound, createFromSends

\* What the local search of a rank leaves behind.
LEMMA LocalSearchResult ==
  ASSUME TypeOK, Cleared, NEW r \in Ranks, LocalSearch(r)
  PROVE  \E near \in [localPoints(r) -> SUBSET DOMAIN domain[r]] :
           /\ \A m \in localPoints(r) : nnSearch(m.at, domain[r], near[m])
           /\ domain_sends'[r] =
                {backMessage(r, h[1], h[2]) : h \in hits(r, near)}
           /\ d_domain_to_range_map'[r] =
                {<<h[2], h[1].id>> : h \in hits(r, near)}
           /\ d_range_owner_ranks'[r] =
                {<<m.id, m.owner>> : m \in foundPoints(hits(r, near))}
           /\ d_parametric_coords'[r] =
                {<<h[1].id, h[2],
                   referenceCoordinate(domain[r][h[2]], h[1].at)>> :
                     h \in hits(r, near)}
           /\ domain' = domain /\ range' = range
<1>1. PICK near \in [localPoints(r) -> SUBSET DOMAIN domain[r]] :
        /\ \A m \in localPoints(r) : nnSearch(m.at, domain[r], near[m])
        /\ recordHits(r, hits(r, near))
  BY DEF LocalSearch
<1> DEFINE H == hits(r, near)
<1>2. recordHits(r, H)
  BY <1>1
<1> HIDE DEF H
<1>3. /\ d_range_owner_ranks[r] = {}
      /\ d_domain_to_range_map[r] = {}
      /\ d_parametric_coords[r] = {}
  BY DEF Cleared, LocalSearch, createFromSends
<1>4. /\ domain_sends'[r] = {backMessage(r, h[1], h[2]) : h \in H}
      /\ d_domain_to_range_map'[r] = {<<h[2], h[1].id>> : h \in H}
      /\ d_range_owner_ranks'[r] = {<<m.id, m.owner>> : m \in foundPoints(H)}
  BY <1>2, <1>3 DEF recordHits, TypeOK
<1>5. d_parametric_coords'[r] =
        {<<h[1].id, h[2], referenceCoordinate(domain[r][h[2]], h[1].at)>> :
           h \in H}
  BY <1>2, <1>3 DEF recordHits, TypeOK
<1>6. domain' = domain /\ range' = range
  BY DEF LocalSearch, inputVars
<1> QED
  BY <1>1, <1>4, <1>5, <1>6 DEF H

LEMMA DomainSendsStep ==
  ASSUME TypeOK, CallCount, LockStep, InputInv, Cleared, DomainSends,
         NEW r \in Ranks, Step(r)
  PROVE  DomainSends'
<1> SUFFICES ASSUME NEW q \in Ranks PROVE DomainSends!(q)'
  BY DEF DomainSends
<1>1. CASE q = r /\ pc[r] = "coarse"
  <2>1. LocalSearch(r) /\ createFromSends(r, "coarse")
    BY <1>1, CoarseStep
  <2>2. PICK near \in [localPoints(r) -> SUBSET DOMAIN domain[r]] :
          /\ \A m \in localPoints(r) : nnSearch(m.at, domain[r], near[m])
          /\ domain_sends'[r] =
               {backMessage(r, h[1], h[2]) : h \in hits(r, near)}
          /\ domain' = domain /\ range' = range
    BY <2>1, LocalSearchResult
  <2>3. ASSUME NEW m \in domain_sends'[r]
        PROVE  /\ m.domain \in DOMAIN domain[r]
               /\ m = message(r, m.domain, m.range)
               /\ isIn(m.range, m.to, m.domain, r)
    <3>1. PICK h \in hits(r, near) : m = backMessage(r, h[1], h[2])
      BY <2>2
    <3>2. /\ m.range = h[1].id /\ m.domain = h[2] /\ m.to = h[1].owner
      BY <3>1 DEF backMessage
    <3> QED
      BY <2>1, <3>1, <3>2, HitsTrue
  <2>4. ASSUME NEW p \in Ranks, Cardinality(DOMAIN domain[r]) <= KNN,
               NEW d \in DomainEntities, NEW e \in RangeEntities,
               isInTolerance(e, p, d, r)
        PROVE  message(r, d, e) \in domain_sends'[r]
    <3>1. PICK h \in hits(r, near) : h[1].id = e /\ h[2] = d
      BY <2>1, <2>2, <2>4, HitsComplete
    <3>2. backMessage(r, h[1], h[2]) = message(r, d, e)
      BY <2>1, <3>1, HitsTrue
    <3> QED
      BY <2>2, <3>2
  <2>5. \A p \in Ranks : \A d, e :
          /\ isIn(e, p, d, r)' <=> isIn(e, p, d, r)
          /\ isInTolerance(e, p, d, r)' <=> isInTolerance(e, p, d, r)
    BY <2>2 DEF isIn, isInTolerance
  <2> QED
    BY <1>1, <2>2, <2>3, <2>4, <2>5
<1>2. CASE ~ (q = r /\ pc[r] = "coarse")
  <2>1. domain_sends'[q] = domain_sends[q]
    BY <1>2, OthersKeep, GraphKept
  <2>2. ASSUME NEW m \in domain_sends[q]
        PROVE  m.domain \in DOMAIN domain'[q] /\ m = message(q, m.domain, m.range)
    <3>1. m.domain \in DOMAIN domain[q] /\ m = message(q, m.domain, m.range)
      BY DEF DomainSends
    <3>2. pc[q] # "new"
      BY <3>1 DEF InputInv, LocalInputs
    <3>3. domain'[q] = domain[q]
      BY <3>2, OthersKeep, InputsKept
    <3> QED
      BY <3>1, <3>3
  <2>3. ASSUME NEW p \in Ranks,
               searches'[p] > 0, localSearches(q)' = searches'[p]
        PROVE  DomainSends!(q)!2!(p)!2'
    <3>1. /\ searches[p] > 0 /\ localSearches(q) = searches[p]
          /\ range'[p] = range[p] /\ domain'[q] = domain[q]
      BY <1>2, <2>3, SameSearch
    <3>2. \A d, e :
            /\ isIn(e, p, d, q)' <=> isIn(e, p, d, q)
            /\ isInTolerance(e, p, d, q)' <=> isInTolerance(e, p, d, q)
      BY <3>1 DEF isIn, isInTolerance
    <3> QED
      BY <2>1, <3>1, <3>2 DEF DomainSends
  <2> QED
    BY <2>1, <2>2, <2>3
<1> QED
  BY <1>1, <1>2

LEMMA DomainSideStep ==
  ASSUME TypeOK, CallCount, LockStep, InputInv, Cleared, DomainSends,
         DomainSide, NEW r \in Ranks, Step(r)
  PROVE  DomainSide'
<1> SUFFICES ASSUME NEW q \in Ranks, searched(q)' PROVE DomainSide!(q)!2'
  BY DEF DomainSide
<1>1. CASE q = r /\ pc[r] = "coarse"
  <2>1. LocalSearch(r) /\ createFromSends(r, "coarse")
    BY <1>1, CoarseStep
  <2>2. PICK near \in [localPoints(r) -> SUBSET DOMAIN domain[r]] :
          /\ domain_sends'[r] =
               {backMessage(r, h[1], h[2]) : h \in hits(r, near)}
          /\ d_domain_to_range_map'[r] =
               {<<h[2], h[1].id>> : h \in hits(r, near)}
          /\ d_range_owner_ranks'[r] =
               {<<m.id, m.owner>> : m \in foundPoints(hits(r, near))}
          /\ d_parametric_coords'[r] =
               {<<h[1].id, h[2],
                  referenceCoordinate(domain[r][h[2]], h[1].at)>> :
                    h \in hits(r, near)}
          /\ domain' = domain /\ range' = range
    BY <2>1, LocalSearchResult
  <2>3. \A h \in hits(r, near) :
          backMessage(r, h[1], h[2]) = message(r, h[2], h[1].id)
    BY <2>1, HitsTrue
  <2>4. ASSUME NEW d \in DomainEntities, NEW e \in RangeEntities
        PROVE  <<d, e>> \in d_domain_to_range_map'[r]
                 <=> message(r, d, e) \in domain_sends'[r]
    <3>1. ASSUME NEW h \in hits(r, near)
          PROVE  message(r, d, e) = message(r, h[2], h[1].id)
                   <=> d = h[2] /\ e = h[1].id
      BY DEF message
    <3> QED
      BY <2>2, <2>3, <3>1
  <2>5. ASSUME NEW m \in domain_sends'[r]
        PROVE  /\ <<m.range, m.to>> \in d_range_owner_ranks'[r]
               /\ <<m.range, m.domain,
                    referenceCoordinate(domain'[r][m.domain],
                                        range'[m.to][m.range].centroid)>>
                    \in d_parametric_coords'[r]
    <3>1. PICK h \in hits(r, near) : m = backMessage(r, h[1], h[2])
      BY <2>2
    <3>2. /\ m.range = h[1].id /\ m.domain = h[2] /\ m.to = h[1].owner
      BY <3>1 DEF backMessage
    <3>3. h[1] \in foundPoints(hits(r, near)) /\ h[1] \in localPoints(r)
      BY HitsType DEF foundPoints
    <3>4. h[1].at = range[h[1].owner][h[1].id].centroid
      BY <2>1, <3>3, PointsTrue
    <3>5. <<m.range, m.to>> \in d_range_owner_ranks'[r]
      BY <2>2, <3>2, <3>3
    <3>6. <<h[1].id, h[2], referenceCoordinate(domain[r][h[2]], h[1].at)>>
            \in d_parametric_coords'[r]
      BY <2>2
    <3> QED
      BY <2>2, <3>2, <3>4, <3>5, <3>6
  <2> QED
    BY <1>1, <2>4, <2>5
<1>2. CASE ~ (q = r /\ pc[r] = "coarse")
  <2>1. searched(q) /\ ~ (q = r /\ pc[r] = "idle")
    BY <1>2, StepOfRank, CountsOfRank DEF searched, stored, returned
  <2>2. /\ domain_sends'[q] = domain_sends[q]
        /\ d_domain_to_range_map'[q] = d_domain_to_range_map[q]
        /\ d_range_owner_ranks'[q] = d_range_owner_ranks[q]
        /\ d_parametric_coords'[q] = d_parametric_coords[q]
    BY <1>2, <2>1, OthersKeep, GraphKept
  <2>3. ASSUME NEW m \in domain_sends[q], searches'[m.to] = searches'[q]
        PROVE  <<m.range, m.domain,
                 referenceCoordinate(domain'[q][m.domain],
                                     range'[m.to][m.range].centroid)>>
                 \in d_parametric_coords[q]
    <3>1. m.to \in Ranks
      BY DEF TypeOK, domainMessage
    <3>2. searches'[q] = searches[q] /\ searches[q] > 0
      BY <2>1, StepOfRank, CountsOfRank DEF searched, stored, returned
    <3>3. localSearches(q)' = searches'[m.to] /\ searches'[m.to] > 0
      BY <2>3, <3>2 DEF localSearches
    <3>4. /\ localSearches(q) = searches[m.to]
          /\ range'[m.to] = range[m.to] /\ domain'[q] = domain[q]
      BY <1>2, <3>1, <3>3, SameSearch
    <3>5. searches[m.to] = searches[q]
      BY <2>1, <3>4 DEF localSearches
    <3> QED
      BY <2>1, <3>4, <3>5 DEF DomainSide
  <2> QED
    BY <2>1, <2>2, <2>3 DEF DomainSide
<1> QED
  BY <1>1, <1>2

LEMMA RangeSideStep ==
  ASSUME TypeOK, CallCount, LockStep, InputInv, Cleared, DomainSends,
         RangeSide, NEW r \in Ranks, Step(r)
  PROVE  RangeSide'
<1> SUFFICES ASSUME NEW p \in Ranks, NEW q \in Ranks,
                    stored(p)', localSearches(q)' = searches'[p],
                    NEW d \in DomainEntities, NEW e \in RangeEntities,
                    DomainOwner[d] = q, RangeOwner[e] = p
             PROVE  RangeSide!(p, q)!2!(d, e)!2'
  BY DEF RangeSide
<1>1. CASE p = r /\ pc[r] = "back"
  <2>1. StoreDomainData(r)
    BY <1>1, BackStep
  <2> DEFINE imp == imports(domain_sends, r)
  <2>2. /\ d_range_to_domain_map'[r] = {<<m.range, m.domain>> : m \in imp}
        /\ \A m \in imp : <<m.domain, m.rank>> \in d_domain_owner_ranks'[r]
    BY <1>1, <2>1 DEF StoreDomainData, Cleared, TypeOK
  <2>3. domain_sends' = domain_sends
    BY <2>1 DEF StoreDomainData, sendVars
  <2>4. ASSUME NEW m \in imp, m.range = e, m.domain = d
        PROVE  m = message(q, d, e) /\ m \in domain_sends[q]
    <3>1. PICK s \in Ranks : m \in domain_sends[s]
      BY DEF imports
    <3>2. d \in DOMAIN domain[s] /\ m = message(s, d, e)
      BY <2>4, <3>1 DEF DomainSends
    <3>3. s = q
      BY <3>2 DEF InputInv, LocalInputs, localEntities
    <3> QED
      BY <3>1, <3>2, <3>3
  <2>5. ASSUME message(q, d, e) \in domain_sends[q]
        PROVE  message(q, d, e) \in imp
    BY <1>1, <2>5 DEF imports, message
  <2>6. /\ message(q, d, e).range = e /\ message(q, d, e).domain = d
        /\ message(q, d, e).rank = q
    BY DEF message
  <2> QED
    BY <1>1, <2>2, <2>3, <2>4, <2>5, <2>6
<1>2. CASE q = r /\ pc[r] = "coarse"
  <2>1. createFromSends(r, "coarse")
    BY <1>2, CoarseStep
  <2>2. pc[p] \in {"coarse", "back"} /\ (p = r => pc'[p] = "back")
    BY <1>2, <2>1, InCoarse, StepOfRank DEF createFromSends
  <2>3. pc'[p] \in {"coarse", "back"}
    BY <1>2, <2>2, StepOfRank
  <2> QED
    BY <2>3 DEF stored, returned
<1>3. CASE ~ (p = r /\ pc[r] = "back") /\ ~ (q = r /\ pc[r] = "coarse")
  <2>1. stored(p) /\ ~ (p = r /\ pc[r] \in {"idle", "back"})
    BY <1>3, StepOfRank, CountsOfRank DEF stored, returned
  <2>2. searches[p] > 0 /\ searches'[p] > 0
    BY <2>1, StepOfRank, CountsOfRank DEF stored, returned
  <2>3. localSearches(q) = searches[p] /\ domain_sends'[q] = domain_sends[q]
    BY <1>3, <2>2, SameSearch
  <2>4. /\ d_range_to_domain_map'[p] = d_range_to_domain_map[p]
        /\ d_domain_owner_ranks'[p] = d_domain_owner_ranks[p]
    BY <2>1, OthersKeep, GraphKept
  <2> QED
    BY <2>1, <2>3, <2>4 DEF RangeSide
<1> QED
  BY <1>1, <1>2, <1>3

LEMMA GraphStep ==
  ASSUME TypeOK, CallCount, LockStep, InputInv, GraphInv,
         NEW r \in Ranks, Step(r)
  PROVE  GraphInv'
BY ClearedStep, DomainSendsStep, DomainSideStep, RangeSideStep DEF GraphInv

LEMMA OwnersStep ==
  ASSUME TypeOK, CallCount, LockStep, InputInv, GraphInv, OwnersCorrect,
         NEW r \in Ranks, Step(r)
  PROVE  OwnersCorrect'
<1> SUFFICES ASSUME NEW s \in Ranks PROVE OwnersCorrect!(s)'
  BY DEF OwnersCorrect
<1>1. CASE s # r
  BY <1>1, OthersKeep DEF OwnersCorrect
<1>2. \A x \in d_range_owner_ranks'[r] : x[2] = RangeOwner[x[1]]
  <2>1. CASE pc[r] = "coarse"
    <3>1. LocalSearch(r) /\ createFromSends(r, "coarse")
      BY <2>1, CoarseStep
    <3>2. PICK near \in [localPoints(r) -> SUBSET DOMAIN domain[r]] :
            d_range_owner_ranks'[r] =
              {<<m.id, m.owner>> : m \in foundPoints(hits(r, near))}
      BY <3>1, LocalSearchResult DEF GraphInv
    <3> QED
      BY <3>1, <3>2, HitsType, PointsTrue
  <2>2. CASE pc[r] = "idle"
    <3>1. Search(r)
      BY <2>2 DEF Step, Construct, GatherBoxes, LocalSearch, StoreDomainData,
         ExchangeMissed, ExchangeFound, createFromSends
    <3> QED
      BY <3>1 DEF Search, clear, TypeOK
  <2>3. CASE pc[r] \notin {"coarse", "idle"}
    BY <2>3, GraphKept DEF OwnersCorrect
  <2> QED
    BY <2>1, <2>2, <2>3
<1>3. \A x \in d_domain_owner_ranks'[r] : x[2] = DomainOwner[x[1]]
  <2>1. CASE pc[r] = "back"
    <3> DEFINE imp == imports(domain_sends, r)
    <3>1. d_domain_owner_ranks'[r] =
            d_domain_owner_ranks[r] \cup {<<m.domain, m.rank>> : m \in imp}
      BY <2>1, BackStep DEF StoreDomainData, TypeOK
    <3>2. ASSUME NEW m \in imp PROVE m.rank = DomainOwner[m.domain]
      <4>1. PICK q \in Ranks : m \in domain_sends[q]
        BY DEF imports
      <4>2. m.domain \in DOMAIN domain[q] /\ m = message(q, m.domain, m.range)
        BY <4>1 DEF GraphInv, DomainSends
      <4>3. m.rank = q
        BY <4>2 DEF message
      <4> QED
        BY <4>2, <4>3 DEF InputInv, LocalInputs, localEntities
    <3> QED
      BY <3>1, <3>2 DEF OwnersCorrect
  <2>2. CASE pc[r] # "back"
    BY <2>2, GraphKept DEF OwnersCorrect
  <2> QED
    BY <2>1, <2>2
<1> QED
  BY <1>1, <1>2, <1>3

-----------------------------------------------------------------------------
(***************************************************************************)
(* The theorems.                                                           *)
(***************************************************************************)
SearchInv == /\ TypeOK /\ CallCount /\ LockStep
             /\ InputInv /\ GraphInv /\ OwnersCorrect

LEMMA SearchInvInit == Init => SearchInv
BY InitType, InitCalls, InitInput, InitGraph DEF SearchInv, OwnersCorrect, Init

LEMMA SearchInvStep ==
  ASSUME SearchInv, [Next]_vars
  PROVE  SearchInv'
<1> USE DEF SearchInv
<1>1. TypeOK'
  BY TypeStep
<1>2. ASSUME NEW r \in Ranks, Step(r) PROVE SearchInv'
  BY <1>1, <1>2, CallCountStep, LockStepStep, InputStep, GraphStep, OwnersStep
<1>3. CASE UNCHANGED vars
  <2> USE <1>3 DEF vars, callVars, inputVars, coarseVars, domainVars,
                   rangeVars, sendVars
  <2>1. (CallCount /\ LockStep)'
    BY DEF CallCount, LockStep, perSearch
  <2>2. InputInv'
    BY DEF InputInv, LocalInputs, BoxesCover, RangeSends
  <2>3. Cleared' /\ OwnersCorrect'
    BY DEF GraphInv, Cleared, OwnersCorrect
  <2>4. DomainSends'
    BY DEF GraphInv, DomainSends, isIn, isInTolerance, localSearches,
           searched, stored, returned
  <2>5. DomainSide' /\ RangeSide'
    BY DEF GraphInv, DomainSide, RangeSide, localSearches, searched, stored,
           returned
  <2> QED
    BY <1>1, <2>1, <2>2, <2>3, <2>4, <2>5 DEF GraphInv
<1> QED
  BY <1>2, <1>3 DEF Next

\* The conjunction of the parts above is an invariant of the search.
THEOREM SearchInvariant == Spec => []SearchInv
BY SearchInvInit, SearchInvStep, PTL DEF Spec

\* The owner ranks both sides of the graph hand out are the ranks the entities
\* are local to, after any number of searches.
THEOREM OwnersAreCorrect == Spec => []OwnersCorrect
<1>1. SearchInv => OwnersCorrect
  BY DEF SearchInv
<1> QED
  BY <1>1, SearchInvariant, PTL

LEMMA InvIsSound == SearchInv => SearchSound
<1> SUFFICES ASSUME SearchInv, NEW q \in Ranks, NEW p \in Ranks,
                    searched(q), searches[p] = searches[q],
                    NEW d \in DomainEntities, NEW e \in RangeEntities,
                    <<d, e>> \in d_domain_to_range_map[q], RangeOwner[e] = p
             PROVE  SearchSound!(q, p)!2!(d, e)!2
  BY DEF SearchSound
<1> USE DEF SearchInv, GraphInv
<1> DEFINE m == message(q, d, e)
<1>1. m \in domain_sends[q]
  BY DEF DomainSide
<1>2. m.range = e /\ m.domain = d /\ m.to = p
  BY DEF message
<1>3. localSearches(q) = searches[p] /\ searches[p] > 0
  BY CountsOfRank DEF localSearches, searched, stored, returned
<1>4. isIn(e, p, d, q)
  BY <1>1, <1>2, <1>3 DEF DomainSends
<1> QED
  BY <1>1, <1>2, <1>4 DEF DomainSide

\* The graph holds no pair that is not true of the input of the search.
THEOREM SearchIsSound == Spec => []SearchSound
BY InvIsSound, SearchInvariant, PTL

LEMMA InvAgrees == SearchInv => GraphAgreement
<1> SUFFICES ASSUME SearchInv, NEW p \in Ranks, NEW q \in Ranks,
                    stored(p), searched(q), searches[p] = searches[q]
             PROVE  GraphAgreement!(p, q)!2
  BY DEF GraphAgreement
<1>1. localSearches(q) = searches[p]
  BY DEF localSearches
<1> QED
  BY <1>1 DEF SearchInv, GraphInv, DomainSide, RangeSide

\* Both sides of the graph hold the same pairs.
THEOREM SidesAgree == Spec => []GraphAgreement
BY InvAgrees, SearchInvariant, PTL

\* A rank that has stored its side of the graph waits for nobody's local part.
LEMMA InStored ==
  ASSUME TypeOK, CallCount, LockStep, NEW p \in Ranks, NEW q \in Ranks,
         stored(p), searches[p] = searches[q]
  PROVE  localSearches(q) = searches[p]
<1>1. /\ collectives[p] <= collectives[q] + 1
      /\ pc[p] = "idle" => collectives[p] <= collectives[q]
  BY DEF LockStep
<1>2. CASE d_track_missed_range_entities
  BY <1>1, <1>2, CountsOfRank
  DEF perSearch, localSearches, searched, stored, returned
<1>3. CASE ~ d_track_missed_range_entities
  BY <1>1, <1>3, CountsOfRank
  DEF perSearch, localSearches, searched, stored, returned
<1> QED
  BY <1>2, <1>3

LEMMA InvIsComplete == SearchInv => SearchComplete
<1> SUFFICES ASSUME SearchInv, NEW p \in Ranks, NEW q \in Ranks,
                    stored(p), searches[p] = searches[q],
                    Cardinality(DOMAIN domain[q]) <= KNN,
                    NEW d \in DomainEntities, NEW e \in RangeEntities,
                    isInTolerance(e, p, d, q)
             PROVE  <<e, d>> \in d_range_to_domain_map[p]
  BY DEF SearchComplete
<1> USE DEF SearchInv, GraphInv
<1>1. localSearches(q) = searches[p] /\ searches[p] > 0
  BY InStored, CountsOfRank DEF stored, returned
<1>2. message(q, d, e) \in domain_sends[q]
  BY <1>1 DEF DomainSends
<1>3. DomainOwner[d] = q /\ RangeOwner[e] = p
  BY DEF isIn, isInTolerance, InputInv, LocalInputs, localEntities
<1> QED
  BY <1>1, <1>2, <1>3 DEF RangeSide

\* Nothing is lost: when the neighbor query returns the whole local domain,
\* every domain entity a centroid lies in is found, on whatever rank it is.
THEOREM SearchIsComplete == Spec => []SearchComplete
BY InvIsComplete, SearchInvariant, PTL

-----------------------------------------------------------------------------
(***************************************************************************)
(* The graph two ranks hold when they have returned from the only search   *)
(* they make.                                                              *)
(***************************************************************************)

LEMMA OneSearch ==
  ASSUME MaxSearches = 1, SearchInv, NEW r \in Ranks, returned(r)
  PROVE  searches[r] = 1 /\ stored(r) /\ searched(r)
<1>1. searches[r] \in 0 .. 1 /\ searches[r] > 0
  BY DEF SearchInv, TypeOK, returned
<1> QED
  BY <1>1 DEF stored, searched

\* When one rank has returned every other one has done its local search.
LEMMA OthersSearched ==
  ASSUME MaxSearches = 1, SearchInv,
         NEW p \in Ranks, NEW q \in Ranks, returned(p)
  PROVE  localSearches(q) = searches[p]
<1> USE DEF SearchInv
<1>1. collectives[p] <= collectives[q] /\ pc[p] = "idle" /\ searches[p] = 1
  BY OneSearch DEF LockStep, returned
<1>2. searches[q] \in 0 .. 1
  BY DEF TypeOK
<1>3. collectives[q] >= 1 + perSearch /\ perSearch \in {2, 4}
  BY <1>1, CountsOfRank DEF perSearch
<1>4. searched(q) /\ searches[q] = 1
  <2>1. /\ pc[q] \notin {"new", "gather"}
        /\ pc[q] = "idle" => searches[q] = 1
        /\ pc[q] = "coarse" => searches[q] # 1
    BY <1>2, <1>3, CountsOfRank
  <2>2. pc[q] \in {"coarse", "back", "missed", "found"} => searches[q] = 1
    BY <1>2, CountsOfRank
  <2> QED
    BY <2>1, <2>2, CountsOfRank DEF searched, stored, returned
<1> QED
  BY <1>1, <1>4 DEF localSearches

\* A pair on the range side is of a present range entity, and says where the
\* domain entity is.
LEMMA RangePair ==
  ASSUME MaxSearches = 1, SearchInv, NEW p \in Ranks, returned(p),
         NEW e \in RangeEntities, NEW d \in DomainEntities,
         RangeOwner[e] = p, <<e, d>> \in d_range_to_domain_map[p]
  PROVE  /\ e \in DOMAIN range[p] /\ d \in DOMAIN domain[DomainOwner[d]]
         /\ <<d, DomainOwner[d]>> \in d_domain_owner_ranks[p]
<1> USE DEF SearchInv, GraphInv
<1> DEFINE q == DomainOwner[d]
<1>1. q \in Ranks
  BY OwnerAssumption
<1>2. stored(p) /\ localSearches(q) = searches[p] /\ searches[p] > 0
  BY <1>1, OneSearch, OthersSearched
<1>3. /\ message(q, d, e) \in domain_sends[q]
      /\ <<d, q>> \in d_domain_owner_ranks[p]
  BY <1>1, <1>2 DEF RangeSide
<1>4. isIn(e, p, d, q)
  BY <1>1, <1>2, <1>3 DEF DomainSends, message
<1> QED
  BY <1>3, <1>4 DEF isIn

\* The sides of the graph agree on the pairs of a domain entity wherever it is.
LEMMA DomainPair ==
  ASSUME MaxSearches = 1, SearchInv,
         NEW p \in Ranks, NEW q \in Ranks, returned(p), returned(q),
         NEW e \in RangeEntities, NEW d \in DomainEntities, RangeOwner[e] = p
  PROVE  <<d, e>> \in d_domain_to_range_map[q]
           <=> DomainOwner[d] = q /\ <<e, d>> \in d_range_to_domain_map[p]
<1> USE DEF SearchInv, GraphInv
<1>1. /\ stored(p) /\ searched(q) /\ searches[p] = searches[q]
  BY OneSearch
<1>2. ASSUME <<d, e>> \in d_domain_to_range_map[q] PROVE DomainOwner[d] = q
  <2>1. message(q, d, e) \in domain_sends[q]
    BY <1>1, <1>2 DEF DomainSide
  <2>2. d \in DOMAIN domain[q]
    BY <2>1 DEF DomainSends, message
  <2> QED
    BY <2>2 DEF InputInv, LocalInputs, localEntities
<1> QED
  BY <1>1, <1>2, InvAgrees DEF GraphAgreement

\* The coordinates the search has stored are those of its present input.
CoordsTrue ==
  \A q \in Ranks : \A y \in d_parametric_coords[q] :
    /\ searches[q] > 0 /\ RangeOwner[y[1]] \in Ranks
    /\ searches[RangeOwner[y[1]]] > 0
    /\ y[3] = referenceCoordinate(domain[q][y[2]],
                                  range[RangeOwner[y[1]]][y[1]].centroid)

\* The search itself keeps its coordinates true: a rank searches once.
LEMMA CoordsOfSearch ==
  ASSUME MaxSearches = 1, SearchInv, CoordsTrue, NEW r \in Ranks, Step(r)
  PROVE  CoordsTrue'
<1> USE DEF SearchInv
<1>1. \A s \in Ranks : searches[s] \in 0 .. 1 /\ searches'[s] \in 0 .. 1
  <2>1. TypeOK'
    BY TypeStep DEF Next
  <2> QED
    BY <2>1 DEF TypeOK
<1>2. ASSUME NEW p \in Ranks, searches[p] > 0
      PROVE  range'[p] = range[p] /\ searches'[p] > 0
  <2>1. ~ (p = r /\ pc[r] = "idle")
    BY <1>1, <1>2, StepOfRank
  <2> QED
    BY <1>2, <2>1, OthersKeep, InputsKept, StepOfRank
<1> SUFFICES ASSUME NEW q \in Ranks, NEW y \in d_parametric_coords'[q]
             PROVE  CoordsTrue!(q)!(y)'
  BY DEF CoordsTrue
<1>3. CASE q = r /\ pc[r] = "coarse"
  <2>1. LocalSearch(r) /\ createFromSends(r, "coarse")
    BY <1>3, CoarseStep
  <2>2. PICK near \in [localPoints(r) -> SUBSET DOMAIN domain[r]] :
          /\ d_parametric_coords'[r] =
               {<<h[1].id, h[2], referenceCoordinate(domain[r][h[2]], h[1].at)>> :
                  h \in hits(r, near)}
          /\ domain' = domain /\ range' = range
    BY <2>1, LocalSearchResult DEF GraphInv
  <2>3. PICK h \in hits(r, near) :
          y = <<h[1].id, h[2], referenceCoordinate(domain[r][h[2]], h[1].at)>>
    BY <1>3, <2>2
  <2>4. h[1] \in localPoints(r)
    BY HitsTrue, <2>1
  <2>5. /\ RangeOwner[h[1].id] = h[1].owner /\ h[1].owner \in Ranks
        /\ searches[h[1].owner] = searches[r]
        /\ h[1].at = range[h[1].owner][h[1].id].centroid
    BY <2>1, <2>4, PointsTrue
  <2>6. searches[r] > 0 /\ searches' = searches
    BY <1>3, <2>1, CountsOfRank DEF LocalSearch
  <2> QED
    BY <1>3, <2>2, <2>3, <2>5, <2>6
<1>4. CASE q = r /\ pc[r] = "idle"
  <2>1. Search(r)
    BY <1>4 DEF Step, Construct, GatherBoxes, LocalSearch, StoreDomainData,
       ExchangeMissed, ExchangeFound, createFromSends
  <2> QED
    BY <1>4, <2>1 DEF Search, clear, TypeOK
<1>5. CASE ~ (q = r /\ pc[r] \in {"coarse", "idle"})
  <2>1. d_parametric_coords'[q] = d_parametric_coords[q]
    BY <1>5, OthersKeep, GraphKept
  <2>2. CoordsTrue!(q)!(y)
    BY <2>1 DEF CoordsTrue
  <2>3. domain'[q] = domain[q]
    BY <2>2, OthersKeep, InputsKept, CountsOfRank
  <2> QED
    BY <1>2, <2>2, <2>3
<1> QED
  BY <1>3, <1>4, <1>5

\* Where two ranks have returned, a pair of the domain side has one coordinate,
\* that of the point in the entity.
LEMMA CoordsOfPair ==
  ASSUME MaxSearches = 1, SearchInv, CoordsTrue,
         NEW p \in Ranks, NEW q \in Ranks, returned(p), returned(q),
         NEW e \in RangeEntities, NEW d \in DomainEntities, RangeOwner[e] = p,
         <<d, e>> \in d_domain_to_range_map[q]
  PROVE  LET at == referenceCoordinate(domain[q][d], range[p][e].centroid)
         IN /\ <<e, d, at>> \in d_parametric_coords[q]
            /\ \A z \in d_parametric_coords[q] : z[1] = e /\ z[2] = d => z[3] = at
<1> DEFINE at == referenceCoordinate(domain[q][d], range[p][e].centroid)
<1>1. searched(q) /\ searches[p] = searches[q]
  BY OneSearch
<1>2. message(q, d, e) \in domain_sends[q]
  BY <1>1 DEF SearchInv, GraphInv, DomainSide
<1>3. <<e, d, at>> \in d_parametric_coords[q]
  BY <1>1, <1>2 DEF SearchInv, GraphInv, DomainSide, message
<1>4. \A z \in d_parametric_coords[q] : z[1] = e /\ z[2] = d => z[3] = at
  BY DEF CoordsTrue
<1> QED
  BY <1>3, <1>4

\* The two entities of a pair of the range side lie in one another.
LEMMA PairIsIn ==
  ASSUME MaxSearches = 1, SearchInv, NEW p \in Ranks, returned(p),
         NEW e \in RangeEntities, NEW d \in DomainEntities,
         RangeOwner[e] = p, <<e, d>> \in d_range_to_domain_map[p]
  PROVE  isIn(e, p, d, DomainOwner[d])
<1> USE DEF SearchInv, GraphInv
<1> DEFINE q == DomainOwner[d]
<1>1. q \in Ranks
  BY OwnerAssumption
<1>2. stored(p) /\ localSearches(q) = searches[p] /\ searches[p] > 0
  BY <1>1, OneSearch, OthersSearched
<1>3. message(q, d, e) \in domain_sends[q]
  BY <1>1, <1>2 DEF RangeSide
<1> QED
  BY <1>1, <1>2, <1>3 DEF DomainSends, message

-----------------------------------------------------------------------------
(***************************************************************************)
(* What a search answers: the tracking of missed range entities, and that  *)
(* ParallelSearch implements SearchPromise.  The search answers in the     *)
(* step in which it returns: storing the back-communication when missed    *)
(* entities are not tracked, the last exchange when they are.              *)
(***************************************************************************)
\* A rank that tells the owner of a range entity of a parent also tells it that
\* the entity was found.
FoundSends ==
  d_track_missed_range_entities =>
    \A q \in Ranks : \A m \in domain_sends[q] :
      [id |-> m.range, to |-> m.to] \in found_sends[q]

\* The range side maps entities the rank owns.
PairsOwned ==
  \A p \in Ranks : \A x \in d_range_to_domain_map[p] : RangeOwner[x[1]] = p

\* Nothing is reported as missed unless misses are tracked.
MissedTracked ==
  ~ d_track_missed_range_entities =>
    \A r \in Ranks : d_missed_range_entity_ids[r] = {}

MissedInv == FoundSends /\ PairsOwned /\ MissedTracked /\ MissedNotMapped

-----------------------------------------------------------------------------
LEMMA FoundSendsStep ==
  ASSUME SearchInv, FoundSends, NEW r \in Ranks, Step(r)
  PROVE  FoundSends'
<1> USE DEF SearchInv
<1>1. d_track_missed_range_entities' = d_track_missed_range_entities
  BY StepOfRank
<1> SUFFICES ASSUME d_track_missed_range_entities, NEW q \in Ranks,
                    NEW m \in domain_sends'[q]
             PROVE  [id |-> m.range, to |-> m.to] \in found_sends'[q]
  BY <1>1 DEF FoundSends
<1>2. CASE q = r /\ pc[r] = "coarse"
  <2>1. PICK near \in [localPoints(r) -> SUBSET DOMAIN domain[r]] :
          /\ recordHits(r, hits(r, near))
          /\ recordFoundAndMissed(r, hits(r, near))
    BY <1>2, CoarseStep DEF LocalSearch
  <2> DEFINE H == hits(r, near)
  <2>2. /\ domain_sends'[r] = {backMessage(r, h[1], h[2]) : h \in H}
        /\ found_sends'[r] = {[id |-> k.id, to |-> k.owner] : k \in foundPoints(H)}
    BY <2>1 DEF recordHits, recordFoundAndMissed, TypeOK
  <2>3. PICK h \in H : m = backMessage(r, h[1], h[2])
    BY <1>2, <2>2
  <2>4. h[1] \in foundPoints(H) /\ m.range = h[1].id /\ m.to = h[1].owner
    BY <2>3 DEF foundPoints, backMessage
  <2> QED
    BY <1>2, <2>2, <2>4
<1>3. CASE ~ (q = r /\ pc[r] = "coarse")
  <2>1. domain_sends'[q] = domain_sends[q]
    BY <1>3, OthersKeep, GraphKept
  <2>2. found_sends'[q] = found_sends[q]
    BY <1>3 DEF Step, Construct, GatherBoxes, Search, LocalSearch,
       StoreDomainData, ExchangeMissed, ExchangeFound, createFromSends,
       sendVars, recordFoundAndMissed, TypeOK
  <2> QED
    BY <2>1, <2>2 DEF FoundSends
<1> QED
  BY <1>2, <1>3

LEMMA PairsOwnedStep ==
  ASSUME SearchInv, PairsOwned, NEW r \in Ranks, Step(r)
  PROVE  PairsOwned'
<1> USE DEF SearchInv
<1> SUFFICES ASSUME NEW p \in Ranks, NEW x \in d_range_to_domain_map'[p]
             PROVE  RangeOwner[x[1]] = p
  BY DEF PairsOwned
<1>1. CASE p = r /\ pc[r] = "back"
  <2>1. d_range_to_domain_map'[r] =
          {<<m.range, m.domain>> : m \in imports(domain_sends, r)}
    BY <1>1, BackStep DEF StoreDomainData, GraphInv, Cleared, TypeOK
  <2>2. PICK m \in imports(domain_sends, r) : x = <<m.range, m.domain>>
    BY <1>1, <2>1
  <2>3. PICK q \in Ranks : m \in domain_sends[q] /\ m.to = r
    BY DEF imports
  <2>4. m = message(q, m.domain, m.range)
    BY <2>3 DEF GraphInv, DomainSends
  <2>5. m.to = RangeOwner[m.range]
    BY <2>4 DEF message
  <2> QED
    BY <1>1, <2>2, <2>3, <2>5
<1>2. CASE p = r /\ pc[r] = "idle"
  <2>1. d_range_to_domain_map'[r] = {}
    BY <1>2 DEF Step, Construct, GatherBoxes, Search, LocalSearch,
       StoreDomainData, ExchangeMissed, ExchangeFound, createFromSends,
       clear, TypeOK
  <2> QED
    BY <1>2, <2>1
<1>3. CASE ~ (p = r /\ pc[r] \in {"idle", "back"})
  BY <1>3, OthersKeep, GraphKept DEF PairsOwned
<1> QED
  BY <1>1, <1>2, <1>3

\* Only the last exchange of a search writes what it reports.
LEMMA MissedKept ==
  ASSUME TypeOK, NEW r \in Ranks, Step(r), NEW s \in Ranks,
         ~ (s = r /\ pc[r] = "found")
  PROVE  d_missed_range_entity_ids'[s] = d_missed_range_entity_ids[s]
BY DEF Step, Construct, GatherBoxes, Search, LocalSearch, StoreDomainData,
       ExchangeMissed, ExchangeFound, createFromSends, TypeOK

LEMMA MissedTrackedStep ==
  ASSUME SearchInv, MissedTracked, NEW r \in Ranks, Step(r)
  PROVE  MissedTracked'
<1> USE DEF SearchInv
<1> SUFFICES ASSUME ~ d_track_missed_range_entities, NEW s \in Ranks
             PROVE  d_missed_range_entity_ids'[s] = {}
  BY StepOfRank DEF MissedTracked
<1>1. pc[r] # "found"
  BY CountsOfRank
<1> QED
  BY <1>1, MissedKept DEF MissedTracked

LEMMA MissedNotMappedStep ==
  ASSUME SearchInv, MissedInv, NEW r \in Ranks, Step(r)
  PROVE  MissedNotMapped'
<1> USE DEF SearchInv, MissedInv
<1> SUFFICES ASSUME NEW s \in Ranks, returned(s)',
                    NEW e \in d_missed_range_entity_ids'[s],
                    NEW d \in DomainEntities,
                    <<e, d>> \in d_range_to_domain_map'[s]
             PROVE  FALSE
  BY DEF MissedNotMapped
<1>1. CASE s # r
  <2>1. /\ returned(s)
        /\ d_missed_range_entity_ids'[s] = d_missed_range_entity_ids[s]
        /\ d_range_to_domain_map'[s] = d_range_to_domain_map[s]
    BY <1>1, StepOfRank, MissedKept, OthersKeep DEF returned
  <2> QED
    BY <2>1 DEF MissedNotMapped
<1>2. CASE s = r /\ pc[r] = "found"
  <2>1. ExchangeFound(r)
    BY <1>2 DEF Step, Construct, GatherBoxes, Search, LocalSearch,
       StoreDomainData, ExchangeMissed, ExchangeFound, createFromSends
  <2>2. /\ e \notin importFound(r)
        /\ <<e, d>> \in d_range_to_domain_map[r]
    BY <1>2, <2>1 DEF ExchangeFound, rangeVars, TypeOK
  <2>3. e \in RangeEntities /\ RangeOwner[e] = r
    BY <2>2 DEF PairsOwned, TypeOK
  <2> DEFINE q == DomainOwner[d]
  <2>4. q \in Ranks
    BY OwnerAssumption
  <2>5. localSearches(q) = searches[r] /\ stored(r)
    <3>1. d_track_missed_range_entities /\ entered(q, r)
      BY <2>1, <2>4, CountsOfRank DEF ExchangeFound, createFromSends
    <3>2. /\ collectives[r] <= collectives[q]
          /\ collectives[q] <= collectives[r] + 1
      BY <2>4, <3>1 DEF LockStep, entered
    <3> HIDE DEF q
    <3> QED
      BY <1>2, <2>4, <3>1, <3>2, CountsOfRank
      DEF perSearch, localSearches, searched, stored, returned
  <2>6. message(q, d, e) \in domain_sends[q]
    BY <2>2, <2>3, <2>4, <2>5 DEF GraphInv, RangeSide
  <2>7. d_track_missed_range_entities
    BY <1>2, CountsOfRank
  <2>8. [id |-> e, to |-> r] \in found_sends[q]
    BY <2>3, <2>4, <2>6, <2>7 DEF FoundSends, message
  <2>9. e \in importFound(r)
    BY <2>4, <2>8 DEF importFound, imports
  <2> QED
    BY <2>2, <2>9
<1>3. CASE s = r /\ pc[r] # "found"
  <2>1. ~ d_track_missed_range_entities
    BY <1>3, StepOfRank, CountsOfRank DEF returned
  <2>2. d_missed_range_entity_ids'[s] = {}
    BY <1>3, <2>1, MissedKept DEF MissedTracked
  <2> QED
    BY <2>2
<1> QED
  BY <1>1, <1>2, <1>3

LEMMA MissedInvInit == Init => MissedInv
BY DEF Init, MissedInv, FoundSends, PairsOwned, MissedTracked, MissedNotMapped

LEMMA MissedInvStep ==
  ASSUME SearchInv, MissedInv, [Next]_vars
  PROVE  MissedInv'
<1>1. ASSUME NEW r \in Ranks, Step(r) PROVE MissedInv'
  BY <1>1, FoundSendsStep, PairsOwnedStep, MissedTrackedStep,
     MissedNotMappedStep DEF MissedInv
<1>2. CASE UNCHANGED vars
  BY <1>2 DEF vars, callVars, rangeVars, sendVars, MissedInv, FoundSends,
     PairsOwned, MissedTracked, MissedNotMapped, returned
<1> QED
  BY <1>1, <1>2 DEF Next

\* No range entity a rank has mapped is reported as missed by it.
THEOREM MissedAreNotMapped == Spec => []MissedNotMapped
<1>1. MissedInv => MissedNotMapped
  BY DEF MissedInv
<1> QED
  BY <1>1, MissedInvInit, MissedInvStep, SearchInvariant, PTL DEF Spec

-----------------------------------------------------------------------------
(***************************************************************************)
(* Where every rank has a domain entity and one search is made, all range  *)
(* entities are accounted for.                                             *)
(***************************************************************************)
OneFullSearch == ~ EmptyDomains /\ MaxSearches = 1

DomainsSeen == \A r \in Ranks : pc[r] # "new" => DOMAIN domain[r] # {}

\* A range entity is a coarse miss or sent to some rank.
CoarseAccounts ==
  \A r \in Ranks :
    /\ searches[r] = 0 => coarse_missed[r] = {}
    /\ searches[r] > 0 =>
         /\ coarse_missed[r] \subseteq DOMAIN range[r]
         /\ \A e \in DOMAIN range[r] :
              e \in coarse_missed[r] \/ \E m \in range_sends[r] : m.id = e

\* A rank answers each centroid it was sent with found or missed, passes its
\* coarse misses on, and says nothing else.
Answers(q) ==
  /\ \A p \in Ranks : searches[p] = 1
  /\ \A m \in imports(range_sends, q) :
       [id |-> m.id, to |-> m.owner] \in found_sends[q] \cup missed_sends[q]
  /\ \A e \in coarse_missed[q] : [id |-> e, to |-> q] \in missed_sends[q]
  /\ \A x \in found_sends[q] \cup missed_sends[q] : x.id \in DOMAIN range[x.to]

\* What a rank reports at the end is what it has imported by then.
Reported(r) ==
  /\ \A s \in Ranks : searched(s)
  /\ d_missed_range_entity_ids[r] = importMissed(r) \ importFound(r)

AccountInv ==
  /\ DomainsSeen
  /\ d_track_missed_range_entities =>
       /\ CoarseAccounts
       /\ \A q \in Ranks : searched(q) => Answers(q)
       /\ \A r \in Ranks : returned(r) => Reported(r)

LEMMA DomainsSeenStep ==
  ASSUME OneFullSearch, SearchInv, DomainsSeen, NEW r \in Ranks, Step(r)
  PROVE  DomainsSeen'
<1> USE DEF SearchInv
<1>1. CASE pc[r] = "new"
  <2>1. PICK D \in partialFunctions(localEntities(DomainOwner, r), DomainShapes) :
          DOMAIN D # {} /\ domain' = [domain EXCEPT ![r] = D]
    BY <1>1 DEF OneFullSearch, Step, Construct, GatherBoxes, Search, LocalSearch,
       StoreDomainData, ExchangeMissed, ExchangeFound, createFromSends
  <2>2. domain'[r] = D
    BY <2>1 DEF TypeOK
  <2> QED
    BY <2>1, <2>2, StepOfRank, OthersKeep DEF DomainsSeen
<1>2. CASE pc[r] # "new"
  <2>1. \A s \in Ranks : domain'[s] = domain[s]
    BY <1>2, OthersKeep, InputsKept
  <2> QED
    BY <1>2, <2>1, StepOfRank DEF DomainsSeen
<1> QED
  BY <1>1, <1>2

\* A rank has searched its domain when it has done so, and for good.
LEMMA SearchedStep ==
  ASSUME OneFullSearch, SearchInv, NEW r \in Ranks, Step(r), NEW s \in Ranks
  PROVE  /\ searched(s)' = (searched(s) \/ (s = r /\ pc[r] = "coarse"))
         /\ returned(s) => returned(s)'
         /\ returned(s)' => returned(s) \/ (s = r /\ pc[r] \in {"back", "found"})
<1> USE DEF SearchInv, searched, stored, returned
<1>1. searches[r] \in 0 .. 1
  BY DEF TypeOK, OneFullSearch
<1>2. CASE s # r
  BY <1>2, StepOfRank
<1>3. CASE s = r /\ pc[r] = "idle"
  <2>1. searches[r] = 0
    BY <1>1, <1>3 DEF OneFullSearch, Step, Construct, GatherBoxes, Search,
       LocalSearch, StoreDomainData, ExchangeMissed, ExchangeFound,
       createFromSends
  <2> QED
    BY <1>3, <2>1, StepOfRank
<1>4. CASE s = r /\ pc[r] # "idle"
  BY <1>1, <1>4, StepOfRank, CountsOfRank
<1> QED
  BY <1>2, <1>3, <1>4

\* The misses and answers are written by the steps that make them.
LEMMA AccountKept ==
  ASSUME TypeOK, NEW r \in Ranks, Step(r), NEW s \in Ranks
  PROVE  /\ ~ (s = r /\ pc[r] = "idle") => coarse_missed'[s] = coarse_missed[s]
         /\ ~ (s = r /\ pc[r] = "coarse") =>
              /\ found_sends'[s] = found_sends[s]
              /\ missed_sends'[s] = missed_sends[s]
<1> USE DEF TypeOK, coarseVars, sendVars
<1>1. CASE Construct(r)
  BY <1>1 DEF Construct
<1>2. CASE GatherBoxes(r)
  BY <1>2 DEF GatherBoxes
<1>3. CASE Search(r)
  BY <1>3 DEF Search
<1>4. CASE LocalSearch(r)
  BY <1>4 DEF LocalSearch, recordFoundAndMissed, createFromSends
<1>5. CASE StoreDomainData(r)
  BY <1>5 DEF StoreDomainData
<1>6. CASE ExchangeMissed(r)
  BY <1>6 DEF ExchangeMissed
<1>7. CASE ExchangeFound(r)
  BY <1>7 DEF ExchangeFound
<1> QED
  BY <1>1, <1>2, <1>3, <1>4, <1>5, <1>6, <1>7 DEF Step

LEMMA SearchesOfRank ==
  ASSUME TypeOK, NEW r \in Ranks, Step(r)
  PROVE  /\ \A s \in Ranks \ {r} : searches'[s] = searches[s]
         /\ searches'[r] = IF pc[r] = "idle" THEN searches[r] + 1
                                             ELSE searches[r]
  BY StepOfRank

LEMMA CoarseAccountsStep ==
  ASSUME OneFullSearch, SearchInv, CoarseAccounts,
         d_track_missed_range_entities, NEW r \in Ranks, Step(r)
  PROVE  CoarseAccounts'
<1> USE DEF SearchInv
<1> SUFFICES ASSUME NEW s \in Ranks
             PROVE  /\ searches'[s] = 0 => coarse_missed'[s] = {}
                    /\ searches'[s] > 0 =>
                         /\ coarse_missed'[s] \subseteq DOMAIN range'[s]
                         /\ \A e \in DOMAIN range'[s] :
                              \/ e \in coarse_missed'[s]
                              \/ \E m \in range_sends'[s] : m.id = e
  BY DEF CoarseAccounts
<1>1. CASE s = r /\ pc[r] = "idle"
  <2>1. Search(r)
    BY <1>1 DEF Step, Construct, GatherBoxes, Search, LocalSearch,
       StoreDomainData, ExchangeMissed, ExchangeFound, createFromSends
  <2>2. searches[r] = 0 /\ coarse_missed[r] = {}
    BY <2>1 DEF Search, OneFullSearch, TypeOK, CoarseAccounts
  <2>3. PICK R \in partialFunctions(localEntities(RangeOwner, r), RangeShapes),
             b \in Box :
          /\ range' = [range EXCEPT ![r] = R]
          /\ range_sends' = [range_sends EXCEPT ![r] = coarseSends(r, R, b)]
          /\ coarse_missed' = [coarse_missed EXCEPT
               ![r] = @ \cup coarseMisses(R, coarseSends(r, R, b))]
    BY <2>1 DEF Search
  <2>4. /\ range'[r] = R /\ range_sends'[r] = coarseSends(r, R, b)
        /\ coarse_missed'[r] = coarseMisses(R, coarseSends(r, R, b))
    BY <2>2, <2>3 DEF TypeOK
  <2>5. searches'[r] = 1
    BY <1>1, <2>2, SearchesOfRank
  <2> QED
    BY <1>1, <2>4, <2>5 DEF coarseMisses
<1>2. CASE ~ (s = r /\ pc[r] = "idle")
  <2>1. /\ range'[s] = range[s] /\ range_sends'[s] = range_sends[s]
        /\ coarse_missed'[s] = coarse_missed[s] /\ searches'[s] = searches[s]
    BY <1>2, OthersKeep, InputsKept, GraphKept, AccountKept, SearchesOfRank
  <2> QED
    BY <2>1 DEF CoarseAccounts
<1> QED
  BY <1>1, <1>2

\* When one rank has searched its domain, nobody searches anew.
LEMMA InputsSettled ==
  ASSUME OneFullSearch, SearchInv, NEW r \in Ranks, Step(r),
         \A p \in Ranks : searches[p] = 1
  PROVE  \A p \in Ranks :
           /\ searches'[p] = 1 /\ range'[p] = range[p]
           /\ range_sends'[p] = range_sends[p]
           /\ coarse_missed'[p] = coarse_missed[p]
<1> USE DEF SearchInv
<1>1. pc[r] # "idle"
  BY DEF OneFullSearch, Step, Construct, GatherBoxes, Search, LocalSearch,
     StoreDomainData, ExchangeMissed, ExchangeFound, createFromSends
<1> QED
  BY <1>1, OthersKeep, InputsKept, GraphKept, AccountKept, StepOfRank

LEMMA AnswersOfLocalSearch ==
  ASSUME OneFullSearch, SearchInv, DomainsSeen, CoarseAccounts,
         d_track_missed_range_entities,
         NEW r \in Ranks, Step(r), pc[r] = "coarse"
  PROVE  Answers(r)'
<1> USE DEF SearchInv
<1>1. LocalSearch(r) /\ createFromSends(r, "coarse")
  BY CoarseStep
<1>2. \A p \in Ranks : searches[p] = 1
  <2>1. searches[r] = 1
    BY CountsOfRank DEF TypeOK, OneFullSearch
  <2> QED
    BY <1>1, <2>1, InCoarse DEF createFromSends
<1>3. \A p \in Ranks :
        /\ searches'[p] = 1 /\ range'[p] = range[p]
        /\ range_sends'[p] = range_sends[p]
        /\ coarse_missed'[p] = coarse_missed[p]
  BY <1>2, InputsSettled
<1>4. PICK near \in [localPoints(r) -> SUBSET DOMAIN domain[r]] :
        recordFoundAndMissed(r, hits(r, near))
  BY <1>1 DEF LocalSearch
<1> DEFINE H == hits(r, near)
           I == imports(range_sends, r)
<1>5. localPoints(r) = I /\ foundPoints(H) \subseteq I
  <2>1. DOMAIN domain[r] # {}
    BY DEF DomainsSeen
  <2> QED
    BY <2>1 DEF localPoints, foundPoints, hits
<1>6. /\ found_sends'[r] = {[id |-> m.id, to |-> m.owner] : m \in foundPoints(H)}
      /\ missed_sends'[r] = {[id |-> e, to |-> r] : e \in coarse_missed[r]} \cup
              {[id |-> m.id, to |-> m.owner] : m \in I \ foundPoints(H)}
  BY <1>4, <1>5 DEF recordFoundAndMissed, TypeOK
<1>7. imports(range_sends, r)' = I
  BY <1>3 DEF imports
<1>8. \A m \in I : m.owner \in Ranks /\ m.id \in DOMAIN range[m.owner]
  BY <1>2 DEF imports, InputInv, RangeSends
<1>9. coarse_missed[r] \subseteq DOMAIN range[r]
  BY <1>2 DEF CoarseAccounts
<1> HIDE DEF H, I
<1>10. ASSUME NEW m \in I
       PROVE  [id |-> m.id, to |-> m.owner] \in found_sends'[r] \cup missed_sends'[r]
  BY <1>6
<1>11. \A e \in coarse_missed[r] : [id |-> e, to |-> r] \in missed_sends'[r]
  BY <1>6
<1>12. ASSUME NEW x \in found_sends'[r] \cup missed_sends'[r]
       PROVE  x.to \in Ranks /\ x.id \in DOMAIN range[x.to]
  <2>1. CASE \E e \in coarse_missed[r] : x = [id |-> e, to |-> r]
    BY <1>9, <2>1
  <2>2. CASE \E m \in I : x = [id |-> m.id, to |-> m.owner]
    BY <1>8, <2>2
  <2> QED
    BY <1>5, <1>6, <2>1, <2>2
<1> QED
  BY <1>3, <1>7, <1>10, <1>11, <1>12 DEF Answers

\* What was answered stays answered.
LEMMA AnswersKept ==
  ASSUME OneFullSearch, SearchInv, NEW r \in Ranks, Step(r),
         NEW q \in Ranks, searched(q), Answers(q)
  PROVE  /\ Answers(q)'
         /\ found_sends'[q] = found_sends[q]
         /\ missed_sends'[q] = missed_sends[q]
<1> USE DEF SearchInv
<1>1. \A p \in Ranks :
        /\ searches'[p] = 1 /\ range'[p] = range[p]
        /\ range_sends'[p] = range_sends[p]
        /\ coarse_missed'[p] = coarse_missed[p]
  BY InputsSettled DEF Answers
<1>2. /\ found_sends'[q] = found_sends[q]
      /\ missed_sends'[q] = missed_sends[q]
  <2>1. pc[q] # "coarse"
    BY DEF searched, stored, returned
  <2> QED
    BY <2>1, AccountKept
<1>3. imports(range_sends, q)' = imports(range_sends, q)
  BY <1>1 DEF imports
<1>4. \A x \in found_sends[q] \cup missed_sends[q] : x.to \in Ranks
  BY DEF TypeOK, idMessage
<1> QED
  BY <1>1, <1>2, <1>3, <1>4 DEF Answers

\* At the last exchange of the only search every rank has searched its domain.
LEMMA AllSearched ==
  ASSUME OneFullSearch, SearchInv, NEW r \in Ranks, Step(r), pc[r] = "found",
         NEW s \in Ranks
  PROVE  searched(s)
<1> USE DEF SearchInv
<1>1. /\ d_track_missed_range_entities = TRUE
      /\ collectives[r] = 5 + perSearch * (searches[r] - 1)
  BY CountsOfRank DEF TypeOK
<1>2. /\ collectives[r] <= collectives[s]
      /\ collectives[s] <= collectives[r] + 1
  BY StepOfRank DEF LockStep, entered
<1>3. searches[r] = 1 /\ searches[s] \in 0 .. 1
  BY CountsOfRank DEF TypeOK, OneFullSearch
<1>4. collectives[s] >= 5
  BY <1>1, <1>2, <1>3, CountsOfRank DEF perSearch
<1> QED
  BY <1>1, <1>3, <1>4, CountsOfRank DEF perSearch, searched, stored, returned

LEMMA ReportedStep ==
  ASSUME OneFullSearch, SearchInv, AccountInv, d_track_missed_range_entities,
         NEW r \in Ranks, Step(r), NEW s \in Ranks, returned(s)'
  PROVE  Reported(s)'
<1> USE DEF SearchInv
<1>1. pc[r] # "back" \/ s # r
  <2>1. pc[r] = "back" => pc'[r] = "missed"
    <3>1. DOMAIN pc = Ranks
      BY DEF TypeOK
    <3>2. ASSUME pc[r] = "back"
          PROVE  pc'[r] = "missed"
      <4>1. StoreDomainData(r)
        BY <3>2, BackStep
      <4>2. pc' = [pc EXCEPT ![r] = "missed"]
        BY <4>1 DEF StoreDomainData, tracksMissed, enter
      <4> QED
        BY <3>1, <4>2
    <3> QED
      BY <3>2
  <2> QED
    BY <2>1 DEF returned
<1>2. CASE returned(s)
  <2>1. Reported(s)
    BY <1>2 DEF AccountInv
  <2>2. \A q \in Ranks : /\ searched(q)'
                         /\ found_sends'[q] = found_sends[q]
                         /\ missed_sends'[q] = missed_sends[q]
    BY <2>1, SearchedStep, AnswersKept DEF Reported, AccountInv
  <2>3. importMissed(s)' = importMissed(s) /\ importFound(s)' = importFound(s)
    BY <2>2 DEF importMissed, importFound, imports
  <2>4. ~ (s = r /\ pc[r] = "found")
    BY <1>2 DEF returned
  <2>5. d_missed_range_entity_ids'[s] = d_missed_range_entity_ids[s]
    BY <2>4, MissedKept
  <2> QED
    BY <2>1, <2>2, <2>3, <2>5 DEF Reported
<1>3. CASE ~ returned(s)
  <2>1. s = r /\ pc[r] = "found"
    BY <1>1, <1>3, SearchedStep
  <2>2. ExchangeFound(r)
    BY <2>1 DEF Step, Construct, GatherBoxes, Search, LocalSearch,
       StoreDomainData, ExchangeMissed, ExchangeFound, createFromSends
  <2>3. \A q \in Ranks : searched(q)'
    BY <2>1, AllSearched, SearchedStep
  <2>4. missed_sends' = missed_sends /\ found_sends' = found_sends
    BY <2>2 DEF ExchangeFound, sendVars
  <2>5. d_missed_range_entity_ids'[r] = importMissed(r) \ importFound(r)
    BY <2>2 DEF ExchangeFound, TypeOK
  <2> QED
    BY <2>1, <2>3, <2>4, <2>5 DEF Reported, importMissed, importFound, imports
<1> QED
  BY <1>2, <1>3

LEMMA AccountStep ==
  ASSUME OneFullSearch, SearchInv, AccountInv, NEW r \in Ranks, Step(r)
  PROVE  AccountInv'
<1>1. DomainsSeen'
  BY DomainsSeenStep DEF AccountInv
<1>2. ASSUME d_track_missed_range_entities
      PROVE  CoarseAccounts'
  BY <1>2, CoarseAccountsStep DEF AccountInv
<1>3. ASSUME d_track_missed_range_entities, NEW q \in Ranks, searched(q)'
      PROVE  Answers(q)'
  <2>1. CASE searched(q)
    BY <1>3, <2>1, AnswersKept DEF AccountInv
  <2>2. CASE ~ searched(q)
    <3>1. q = r /\ pc[r] = "coarse"
      BY <1>3, <2>2, SearchedStep
    <3> QED
      BY <1>3, <3>1, AnswersOfLocalSearch DEF AccountInv
  <2> QED
    BY <2>1, <2>2
<1>4. ASSUME d_track_missed_range_entities, NEW q \in Ranks, returned(q)'
      PROVE  Reported(q)'
  BY <1>4, ReportedStep
<1>5. d_track_missed_range_entities' = d_track_missed_range_entities
  BY StepOfRank DEF SearchInv
<1> QED
  BY <1>1, <1>2, <1>3, <1>4, <1>5, Zenon DEF AccountInv

\* The ids a rank has imported in the end are those of its range entities.
LEMMA AccountsComplete ==
  ASSUME SearchInv, AccountInv, d_track_missed_range_entities,
         NEW r \in Ranks, returned(r)
  PROVE  importMissed(r) \cup importFound(r) = DOMAIN range[r]
<1> USE DEF SearchInv
<1>1. \A q \in Ranks : searched(q) /\ Answers(q)
  BY DEF AccountInv, Reported
<1>2. ASSUME NEW e \in importMissed(r) \cup importFound(r)
      PROVE  e \in DOMAIN range[r]
  <2>1. PICK q \in Ranks : \E x \in found_sends[q] \cup missed_sends[q] :
                             x.to = r /\ x.id = e
    BY DEF importMissed, importFound, imports
  <2> QED
    BY <1>1, <2>1 DEF Answers
<1>3. ASSUME NEW e \in DOMAIN range[r]
      PROVE  e \in importMissed(r) \cup importFound(r)
  <2>1. searches[r] = 1 /\ CoarseAccounts
    BY <1>1 DEF Answers, AccountInv
  <2>2. CASE e \in coarse_missed[r]
    <3>1. [id |-> e, to |-> r] \in missed_sends[r]
      BY <1>1, <2>2 DEF Answers
    <3> QED
      BY <3>1 DEF importMissed, imports
  <2>3. CASE \E m \in range_sends[r] : m.id = e
    <3>1. PICK m \in range_sends[r] : m.id = e
      BY <2>3
    <3>2. m.owner = r /\ m.to \in Ranks
      BY <2>1 DEF InputInv, RangeSends, TypeOK, rangeMessage
    <3>3. m \in imports(range_sends, m.to)
      BY <3>2 DEF imports
    <3>4. [id |-> e, to |-> r] \in found_sends[m.to] \cup missed_sends[m.to]
      BY <1>1, <3>1, <3>2, <3>3 DEF Answers
    <3> QED
      BY <3>2, <3>4 DEF importMissed, importFound, imports
  <2> QED
    BY <2>1, <2>2, <2>3 DEF CoarseAccounts
<1> QED
  BY <1>2, <1>3

LEMMA AccountInit == Init => AccountInv
  BY DEF Init, AccountInv, DomainsSeen, CoarseAccounts, searched, stored,
     returned

LEMMA AccountStutter ==
  ASSUME AccountInv, UNCHANGED vars
  PROVE  AccountInv'
  BY DEF vars, callVars, inputVars, coarseVars, rangeVars, sendVars, AccountInv,
     DomainsSeen, CoarseAccounts, Answers, Reported, searched, stored, returned,
     imports, importMissed, importFound

LEMMA AccountsAddUp ==
  ASSUME SearchInv, AccountInv
  PROVE  AllAccountedFor
<1> SUFFICES ASSUME NEW r \in Ranks, returned(r), d_track_missed_range_entities
             PROVE  Cardinality(d_missed_range_entity_ids[r])
                      + Cardinality(importFound(r)) = Cardinality(DOMAIN range[r])
  BY DEF AllAccountedFor
<1> DEFINE M == importMissed(r)
           F == importFound(r)
<1>1. M \cup F = DOMAIN range[r]
  BY AccountsComplete
<1>2. d_missed_range_entity_ids[r] = M \ F
  BY DEF AccountInv, Reported
<1>3. IsFiniteSet(DOMAIN range[r])
  <2>1. DOMAIN range[r] \in SUBSET RangeEntities
    BY DEF SearchInv, TypeOK, partialFunctions
  <2> QED
    BY <2>1, EntityAssumption, FS_Subset
<1> HIDE DEF M, F
<1>4. IsFiniteSet(M \ F) /\ IsFiniteSet(F)
  BY <1>1, <1>3, FS_Subset
<1>5. (M \ F) \cup F = DOMAIN range[r] /\ (M \ F) \cap F = {}
  BY <1>1
<1>6. Cardinality((M \ F) \cup F) = Cardinality(M \ F) + Cardinality(F)
  <2>1. Cardinality((M \ F) \cup F) =
          Cardinality(M \ F) + Cardinality(F) - Cardinality((M \ F) \cap F)
    BY <1>4, FS_Union
  <2>2. Cardinality((M \ F) \cap F) = 0
    BY <1>5, FS_EmptySet
  <2>3. Cardinality(M \ F) \in Nat /\ Cardinality(F) \in Nat
    BY <1>4, FS_CardinalityType
  <2> QED
    BY <2>1, <2>2, <2>3
<1> QED
  BY <1>2, <1>5, <1>6 DEF M, F

\* A rank tells the owner of a range entity that it was found only if it also
\* sends it the domain entity.
FoundBacked ==
  d_track_missed_range_entities =>
    \A q \in Ranks : \A x \in found_sends[q] :
      \E m \in domain_sends[q] : m.range = x.id /\ m.to = x.to

LEMMA FoundBackedStep ==
  ASSUME SearchInv, FoundBacked, NEW r \in Ranks, Step(r)
  PROVE  FoundBacked'
<1> USE DEF SearchInv
<1>1. d_track_missed_range_entities' = d_track_missed_range_entities
  BY StepOfRank
<1> SUFFICES ASSUME d_track_missed_range_entities, NEW q \in Ranks,
                    NEW x \in found_sends'[q]
             PROVE  \E m \in domain_sends'[q] : m.range = x.id /\ m.to = x.to
  BY <1>1 DEF FoundBacked
<1>2. CASE q = r /\ pc[r] = "coarse"
  <2>1. PICK near \in [localPoints(r) -> SUBSET DOMAIN domain[r]] :
          /\ recordHits(r, hits(r, near))
          /\ recordFoundAndMissed(r, hits(r, near))
    BY <1>2, CoarseStep DEF LocalSearch
  <2> DEFINE H == hits(r, near)
  <2>2. /\ domain_sends'[r] = {backMessage(r, h[1], h[2]) : h \in H}
        /\ found_sends'[r] = {[id |-> k.id, to |-> k.owner] : k \in foundPoints(H)}
    BY <2>1 DEF recordHits, recordFoundAndMissed, TypeOK
  <2>3. PICK h \in H : x = [id |-> h[1].id, to |-> h[1].owner]
    BY <1>2, <2>2 DEF foundPoints
  <2>4. /\ backMessage(r, h[1], h[2]).range = x.id
        /\ backMessage(r, h[1], h[2]).to = x.to
    BY <2>3 DEF backMessage
  <2> QED
    BY <1>2, <2>2, <2>4
<1>3. CASE ~ (q = r /\ pc[r] = "coarse")
  <2>1. domain_sends'[q] = domain_sends[q]
    BY <1>3, OthersKeep, GraphKept
  <2>2. found_sends'[q] = found_sends[q]
    BY <1>3 DEF Step, Construct, GatherBoxes, Search, LocalSearch,
       StoreDomainData, ExchangeMissed, ExchangeFound, createFromSends,
       sendVars, recordFoundAndMissed, TypeOK
  <2> QED
    BY <2>1, <2>2 DEF FoundBacked
<1> QED
  BY <1>2, <1>3

\* What a search that has returned has found for nobody it reports as missed.
LEMMA NotFoundIsMissed ==
  ASSUME MaxSearches = 1, SearchInv, AccountInv, FoundBacked,
         d_track_missed_range_entities,
         NEW e \in RangeEntities, returned(RangeOwner[e]),
         e \in DOMAIN range[RangeOwner[e]],
         \A d \in DomainEntities :
           <<e, d>> \notin d_range_to_domain_map[RangeOwner[e]]
  PROVE  e \in d_missed_range_entity_ids[RangeOwner[e]]
<1> DEFINE r == RangeOwner[e]
<1> USE DEF SearchInv, GraphInv
<1>1. r \in Ranks
  BY OwnerAssumption
<1>2. d_missed_range_entity_ids[r] = importMissed(r) \ importFound(r)
  BY <1>1 DEF AccountInv, Reported
<1>3. e \in importMissed(r) \cup importFound(r)
  BY <1>1, AccountsComplete
<1>4. ASSUME e \in importFound(r) PROVE FALSE
  <2>1. PICK q \in Ranks : \E x \in found_sends[q] : x.to = r /\ x.id = e
    BY <1>4 DEF importFound, imports
  <2>2. PICK m \in domain_sends[q] : m.range = e /\ m.to = r
    BY <2>1 DEF FoundBacked
  <2> DEFINE d == m.domain
  <2>3. d \in DOMAIN domain[q] /\ m = message(q, d, e)
    BY <2>2 DEF DomainSends
  <2>4. d \in DomainEntities /\ DomainOwner[d] = q
    BY <2>3, OwnerAssumption DEF InputInv, LocalInputs, localEntities
  <2>5. stored(r) /\ localSearches(q) = searches[r]
    BY <1>1, OneSearch, OthersSearched
  <2>6. <<e, d>> \in d_range_to_domain_map[r]
    <3>1. message(q, d, e) \in domain_sends[q] /\ message(q, d, e).to = r
      BY <2>2, <2>3
    <3> QED
      BY <1>1, <2>4, <2>5, <3>1 DEF RangeSide
  <2> QED
    BY <2>4, <2>6
<1> QED
  BY <1>2, <1>3, <1>4

\* When every rank has a domain entity and the search is the only one, each
\* range entity is either found or missed: the assertion at the end of search()
\* holds there.
THEOREM AllAreAccountedFor ==
  ASSUME OneFullSearch
  PROVE  Spec => []AllAccountedFor
<1>1. SearchInv /\ AccountInv /\ [Next]_vars => AccountInv'
  BY AccountStep, AccountStutter DEF Next
<1>2. SearchInv /\ AccountInv => AllAccountedFor
  BY AccountsAddUp
<1> QED
  BY <1>1, <1>2, AccountInit, SearchInvariant, PTL DEF Spec

-----------------------------------------------------------------------------
\* What a rank knows of is its own range entities, and nothing before its
\* first search.
OwnAnswers ==
  \A r \in Ranks :
    /\ \A x \in d_range_to_domain_map[r] : RangeOwner[x[1]] = r
    /\ pc[r] \in {"new", "gather"} => d_range_to_domain_map[r] = {}

\* A rank that has returned has an answer the promise allows, and every rank
\* has made the call.
Answered ==
  \A r \in Ranks : returned(r) =>
    /\ \A s \in Ranks : searches[s] >= searches[r]
    /\ d_range_to_domain_map[r] \subseteq
         {x \in RangeEntities \X DomainEntities :
            Promise!contains(r, x[1], x[2])}
    /\ Promise!isAnswer(r, d_range_to_domain_map[r])

-----------------------------------------------------------------------------
LEMMA OwnAnswersStep ==
  ASSUME SearchInv, OwnAnswers, NEW r \in Ranks, Step(r)
  PROVE  OwnAnswers'
<1> USE DEF SearchInv
<1> SUFFICES ASSUME NEW s \in Ranks PROVE OwnAnswers!(s)'
  BY DEF OwnAnswers
<1>1. CASE s # r
  BY <1>1, OthersKeep, StepOfRank DEF OwnAnswers
<1>2. CASE s = r /\ Search(r)
  <2>1. d_range_to_domain_map'[r] = {}
    BY <1>2 DEF Search, clear, TypeOK
  <2> QED
    BY <1>2, <2>1
<1>3. CASE s = r /\ StoreDomainData(r)
  <2> DEFINE imp == imports(domain_sends, r)
  <2>1. d_range_to_domain_map'[r]
          = d_range_to_domain_map[r] \cup {<<m.range, m.domain>> : m \in imp}
    BY <1>3 DEF StoreDomainData, TypeOK
  <2>2. ASSUME NEW m \in imp PROVE RangeOwner[m.range] = r
    <3>1. PICK q \in Ranks : m \in domain_sends[q] /\ m.to = r
      BY DEF imports
    <3>2. m = message(q, m.domain, m.range)
      BY <3>1 DEF GraphInv, DomainSends
    <3>3. message(q, m.domain, m.range).to = RangeOwner[m.range]
      BY DEF message
    <3> QED
      BY <3>1, <3>2, <3>3
  <2>3. pc'[r] \notin {"new", "gather"}
    BY <1>3, StepOfRank DEF StoreDomainData, createFromSends
  <2> QED
    BY <1>3, <2>1, <2>2, <2>3 DEF OwnAnswers
<1>4. CASE s = r /\ ~ Search(r) /\ ~ StoreDomainData(r)
  <2>1. pc[r] \notin {"idle", "back"}
    BY <1>4 DEF Step, Construct, GatherBoxes, LocalSearch, ExchangeMissed,
       ExchangeFound, createFromSends
  <2>2. d_range_to_domain_map'[r] = d_range_to_domain_map[r]
    BY <2>1, GraphKept
  <2>3. pc'[r] \in {"new", "gather"} => pc[r] \in {"new", "gather"}
    BY StepOfRank
  <2> QED
    BY <1>4, <2>2, <2>3 DEF OwnAnswers
<1> QED
  BY <1>1, <1>2, <1>3, <1>4

LEMMA OwnAnswersHold == Spec => [](SearchInv /\ OwnAnswers)
<1>1. Init => OwnAnswers
  BY DEF Init, OwnAnswers
<1>2. SearchInv /\ OwnAnswers /\ [Next]_vars => OwnAnswers'
  <2>1. ASSUME SearchInv, OwnAnswers, NEW r \in Ranks, Step(r)
        PROVE  OwnAnswers'
    BY <2>1, OwnAnswersStep
  <2>2. OwnAnswers /\ UNCHANGED vars => OwnAnswers'
    BY DEF OwnAnswers, vars, callVars, rangeVars
  <2> QED
    BY <2>1, <2>2 DEF Next
<1> QED
  BY <1>1, <1>2, SearchInvariant, PTL DEF Spec

-----------------------------------------------------------------------------
\* When a rank has returned from a search, every rank has done its local part
\* of it, and none has done that of the next.
LEMMA InReturned ==
  ASSUME TypeOK, CallCount, LockStep, NEW p \in Ranks, NEW q \in Ranks,
         returned(p)
  PROVE  localSearches(q) = searches[p] /\ searches[q] >= searches[p]
<1>1. /\ collectives[p] <= collectives[q]
      /\ collectives[q] <= collectives[p] + 1
  BY DEF LockStep, returned
<1>2. CASE d_track_missed_range_entities
  BY <1>1, <1>2, CountsOfRank
  DEF perSearch, localSearches, searched, stored, returned
<1>3. CASE ~ d_track_missed_range_entities
  BY <1>1, <1>3, CountsOfRank
  DEF perSearch, localSearches, searched, stored, returned
<1> QED
  BY <1>2, <1>3

\* The geometry of the promise is that of the search.
LEMMA SameGeometry ==
  /\ \A shape, p : Promise!mapsInto(shape, p) <=> mapsInto(shape, p)
  /\ \A p, b : Promise!pointInBox(p, b) <=> pointInBox(p, b)
  /\ \A S : Promise!Cardinality(S) = Cardinality(S)
<1>1. \A shape, p : Promise!mapsInto(shape, p) <=> mapsInto(shape, p)
  BY DEF Promise!mapsInto, Promise!isSafeToMapToReferenceFrame,
         mapsInto, isSafeToMapToReferenceFrame
<1>2. \A p, b : Promise!pointInBox(p, b) <=> pointInBox(p, b)
  BY DEF Promise!pointInBox, Promise!lower, Promise!upper, Promise!pad,
         pointInBox, lower, upper, pad
<1>3. \A S : Promise!Cardinality(S) = Cardinality(S)
  BY DEF Promise!Cardinality, Cardinality
<1> QED
  BY <1>1, <1>2, <1>3

LEMMA AnswersAreTrue == SearchInv /\ OwnAnswers => Answered
<1> SUFFICES ASSUME SearchInv, OwnAnswers, NEW r \in Ranks, returned(r)
             PROVE  Answered!(r)!2
  BY DEF Answered
<1> USE DEF SearchInv, GraphInv
<1>1. \A q \in Ranks : localSearches(q) = searches[r]
                       /\ searches[q] >= searches[r]
  BY InReturned
<1>2. searches[r] > 0 /\ stored(r)
  BY DEF returned, stored
<1>3. ASSUME NEW x \in d_range_to_domain_map[r]
      PROVE  /\ x \in RangeEntities \X DomainEntities
             /\ Promise!contains(r, x[1], x[2])
  <2>1. x \in RangeEntities \X DomainEntities
    BY DEF TypeOK
  <2> DEFINE e == x[1]
             d == x[2]
             q == DomainOwner[d]
  <2>2. /\ e \in RangeEntities /\ d \in DomainEntities /\ q \in Ranks
        /\ RangeOwner[e] = r /\ x = <<e, d>>
    BY <2>1, OwnerAssumption DEF OwnAnswers
  <2>3. message(q, d, e) \in domain_sends[q]
    BY <1>1, <1>2, <2>2 DEF RangeSide
  <2>4. isIn(e, r, d, q)
    BY <1>1, <1>2, <2>2, <2>3 DEF DomainSends, message
  <2> QED
    BY <2>1, <2>4, SameGeometry DEF isIn, Promise!contains
<1>4. ASSUME NEW e \in RangeEntities, NEW d \in DomainEntities,
             Promise!surelyFound(r, e, d)
      PROVE  <<e, d>> \in d_range_to_domain_map[r]
  <2> DEFINE q == DomainOwner[d]
  <2>1. q \in Ranks
    BY OwnerAssumption
  <2>2. isInTolerance(e, r, d, q) /\ Cardinality(DOMAIN domain[q]) <= KNN
    BY <1>4, SameGeometry DEF Promise!surelyFound, Promise!contains, isInTolerance, isIn
  <2>3. message(q, d, e) \in domain_sends[q]
    BY <1>1, <1>2, <2>1, <2>2 DEF DomainSends
  <2>4. RangeOwner[e] = r
    BY <2>2 DEF isInTolerance, isIn, InputInv, LocalInputs, localEntities
  <2> QED
    BY <1>1, <1>2, <2>1, <2>3, <2>4 DEF RangeSide
<1> QED
  BY <1>1, <1>3, <1>4 DEF Promise!isAnswer

-----------------------------------------------------------------------------
LEMMA PromiseInit == Init => Promise!Init
BY DEF Init, Promise!Init, answers, mapped, noEntities

\* What the callers see of the other ranks in a step of rank r.
LEMMA OthersAnswer ==
  ASSUME TypeOK, NEW r \in Ranks, Step(r), NEW s \in Ranks, s # r
  PROVE  answers'[s] = answers[s] /\ mapped'[s] = mapped[s]
BY OthersKeep, StepOfRank DEF answers, mapped

LEMMA ConstructIsConstruct ==
  ASSUME SearchInv, NEW r \in Ranks, Construct(r)
  PROVE  Promise!Construct(r)
<1> USE DEF SearchInv
<1>1. Step(r) /\ pc[r] = "new"
  BY DEF Step, Construct
<1>2. \A s \in Ranks : searches[s] = 0
  BY <1>1, NoneNew DEF TypeOK
<1>3. PICK D \in partialFunctions(localEntities(DomainOwner, r), DomainShapes) :
        domain' = [domain EXCEPT ![r] = D]
  BY DEF Construct
<1>4. D \in Promise!entitiesOf(DomainOwner, r, DomainShapes)
  BY DEF partialFunctions, localEntities, Promise!entitiesOf
<1>5. pc'[r] = "gather" /\ range' = range /\ searches' = searches
  BY DEF Construct, enter, TypeOK
<1>6. answers' = answers /\ mapped' = mapped
  BY <1>1, <1>5, OthersAnswer DEF answers, mapped
<1> QED
  BY <1>2, <1>3, <1>4, <1>5, <1>6 DEF Promise!Construct

LEMMA SearchIsCall ==
  ASSUME SearchInv, NEW r \in Ranks, Search(r)
  PROVE  Promise!Call(r)
<1> USE DEF SearchInv
<1>1. Step(r) /\ pc[r] = "idle"
  BY DEF Step, Search
<1>2. PICK R \in partialFunctions(localEntities(RangeOwner, r), RangeShapes) :
        range' = [range EXCEPT ![r] = R]
  BY DEF Search
<1>3. R \in Promise!entitiesOf(RangeOwner, r, RangeShapes)
  BY DEF partialFunctions, localEntities, Promise!entitiesOf
<1>4. /\ searches[r] < MaxSearches /\ pc'[r] = "coarse" /\ domain' = domain
      /\ searches' = [searches EXCEPT ![r] = @ + 1]
  BY DEF Search, enter, TypeOK
<1>5. answers[r] = searches[r] /\ answers'[r] = searches[r]
  BY <1>1, <1>4 DEF answers, TypeOK
<1>6. answers' = answers
  BY <1>1, <1>5, OthersAnswer DEF answers
<1>7. mapped' = [mapped EXCEPT ![r] = {}]
  BY <1>1, <1>4, OthersAnswer DEF mapped
<1> QED
  BY <1>2, <1>3, <1>4, <1>5, <1>6, <1>7 DEF Promise!Call

\* The step in which a rank returns.
LEMMA EndIsReturn ==
  ASSUME SearchInv, Answered', NEW r \in Ranks, Step(r),
         pc[r] \in {"coarse", "back", "missed", "found"}, pc'[r] = "idle"
  PROVE  Promise!Return(r)
<1> USE DEF SearchInv
<1> DEFINE M == d_range_to_domain_map'[r]
<1>1. searches' = searches
  BY StepOfRank DEF Step, Construct, GatherBoxes, Search, LocalSearch,
     StoreDomainData, ExchangeMissed, ExchangeFound, TypeOK
<1>2. searches[r] > 0 /\ searches[r] \in Nat
  BY CountsOfRank
<1>3. domain' = domain /\ range' = range
  BY DEF Step, Construct, GatherBoxes, Search, LocalSearch,
     StoreDomainData, ExchangeMissed, ExchangeFound, inputVars
<1>4. returned(r)'
  BY <1>1, <1>2 DEF returned
<1>5. answers[r] = searches[r] - 1 /\ answers'[r] = searches[r]
  BY <1>1, <1>2 DEF answers
<1>6. answers' = [answers EXCEPT ![r] = @ + 1]
  <2>1. answers[r] + 1 = answers'[r]
    BY <1>2, <1>5
  <2>2. \A s \in Ranks : s # r => answers'[s] = answers[s]
    BY OthersAnswer
  <2>3. answers' = [s \in Ranks |-> answers'[s]]
    BY DEF answers
  <2>4. answers = [s \in Ranks |-> answers[s]]
    BY DEF answers
  <2> QED
    BY <2>1, <2>2, <2>3, <2>4
<1>7. mapped' = [mapped EXCEPT ![r] = M]
  BY OthersAnswer DEF mapped
<1>8. /\ \A s \in Ranks : searches[s] >= searches[r]
      /\ M \subseteq {x \in RangeEntities \X DomainEntities :
                        Promise!contains(r, x[1], x[2])}
      /\ Promise!isAnswer(r, M)
  BY <1>1, <1>3, <1>4 DEF Answered, Promise!contains, Promise!surelyFound,
     Promise!isAnswer
<1>9. answers[r] < searches[r]
  BY <1>2, <1>5
<1> HIDE DEF M, SearchInv
<1>10. \E N \in SUBSET {x \in RangeEntities \X DomainEntities :
                         Promise!contains(r, x[1], x[2])} :
        Promise!isAnswer(r, N) /\ mapped' = [mapped EXCEPT ![r] = N]
  BY <1>7, <1>8
<1> QED
  BY <1>1, <1>3, <1>6, <1>8, <1>9, <1>10 DEF Promise!Return

\* The other steps are invisible to the callers.
LEMMA OtherStepIsStutter ==
  ASSUME SearchInv, OwnAnswers, NEW r \in Ranks, Step(r),
         pc[r] \notin {"new", "idle"}, pc[r] # "gather" => pc'[r] # "idle"
  PROVE  UNCHANGED Promise!vars
<1> USE DEF SearchInv
<1>1. domain' = domain /\ range' = range /\ searches' = searches
  BY DEF Step, Construct, GatherBoxes, Search, LocalSearch,
     StoreDomainData, ExchangeMissed, ExchangeFound, inputVars
<1>2. CASE pc[r] = "gather"
  <2>1. searches[r] = 0 /\ pc'[r] = "idle"
    BY <1>2, CountsOfRank, StepOfRank
  <2>2. d_range_to_domain_map'[r] = {}
    BY <1>2, GraphKept DEF OwnAnswers
  <2>3. answers' = answers /\ mapped' = mapped
    BY <1>1, <1>2, <2>1, <2>2, OthersAnswer DEF answers, mapped
  <2> QED
    BY <1>1, <2>3 DEF Promise!vars
<1>3. CASE pc[r] # "gather"
  <2>1. /\ pc[r] \notin {"new", "gather", "idle"}
        /\ pc'[r] \notin {"new", "gather", "idle"}
    BY <1>3, StepOfRank
  <2>2. answers' = answers /\ mapped' = mapped
    BY <1>1, <2>1, OthersAnswer DEF answers, mapped
  <2> QED
    BY <1>1, <2>2 DEF Promise!vars
<1> QED
  BY <1>2, <1>3

LEMMA PromiseStep ==
  ASSUME SearchInv, OwnAnswers, Answered', [Next]_vars
  PROVE  [Promise!Next]_(Promise!vars)
<1>1. ASSUME NEW r \in Ranks, Step(r)
      PROVE  [Promise!Next]_(Promise!vars)
  <2>1. CASE pc[r] = "new"
    <3>1. Construct(r)
      BY <1>1, <2>1 DEF Step, GatherBoxes, Search, LocalSearch,
         StoreDomainData, ExchangeMissed, ExchangeFound, createFromSends
    <3> QED
      BY <3>1, ConstructIsConstruct DEF Promise!Next
  <2>2. CASE pc[r] = "idle"
    <3>1. Search(r)
      BY <1>1, <2>2 DEF Step, Construct, GatherBoxes, LocalSearch,
         StoreDomainData, ExchangeMissed, ExchangeFound, createFromSends
    <3> QED
      BY <3>1, SearchIsCall DEF Promise!Next
  <2>3. CASE /\ pc[r] \in {"coarse", "back", "missed", "found"}
             /\ pc'[r] = "idle"
    BY <1>1, <2>3, EndIsReturn DEF Promise!Next
  <2>4. CASE /\ pc[r] \notin {"new", "idle"}
             /\ pc[r] # "gather" => pc'[r] # "idle"
    BY <1>1, <2>4, OtherStepIsStutter
  <2>5. pc[r] \in {"new", "gather", "idle",
                   "coarse", "back", "missed", "found"}
    BY DEF SearchInv, TypeOK
  <2> QED
    BY <2>1, <2>2, <2>3, <2>4, <2>5
<1>2. CASE UNCHANGED vars
  BY <1>2 DEF vars, callVars, inputVars, rangeVars, answers, mapped,
     Promise!vars
<1> QED
  BY <1>1, <1>2 DEF Next

\* The search keeps the promise its callers rely on, with any number of ranks,
\* entities and searches.
THEOREM SearchKeepsPromise == Spec => ImplementsPromise
<1>1. SearchInv /\ OwnAnswers => Answered
  BY AnswersAreTrue
<1>2. SearchInv /\ OwnAnswers /\ Answered' /\ [Next]_vars
        => [Promise!Next]_(Promise!vars)
  BY PromiseStep
<1> QED
  BY <1>1, <1>2, PromiseInit, OwnAnswersHold, PTL
  DEF Spec, ImplementsPromise, Promise!Spec
=============================================================================
