--------------------------- MODULE ParallelSearch ---------------------------
(***************************************************************************)
(* DTK_ParallelSearch with the DTK_CoarseGlobalSearch it owns: the search  *)
(* that maps range entities to the domain entities that contain their      *)
(* centroids, when both meshes are spread over the processes (ranks) of an *)
(* MPI communicator and are partitioned independently.                     *)
(*                                                                         *)
(* Every rank runs the same sequence of calls.  What happens on a rank     *)
(* between two communications touches no state but its own and is one      *)
(* action; the communications are where the ranks wait for each other:     *)
(*   - gatherAll of the domain boxes (the constructor),                    *)
(*   - Tpetra::Distributor: createFromSends is a collective every rank     *)
(*     enters with the destinations of what it sends, doPostsAndWaits then *)
(*     moves the data to the ranks named there.  The arrays sent with one  *)
(*     plan have one record type here, and what a rank imports is the set  *)
(*     of records addressed to it.                                         *)
(* A rank can therefore run ahead of the others up to its next collective. *)
(*                                                                         *)
(* Entity ids are globally unique (DTK_Entity), so that the multimaps of   *)
(* the code are sets of pairs here.                                        *)
(***************************************************************************)
EXTENDS SearchGeometry

CONSTANTS
  Ranks,            \* the processes of the communicator
  DomainEntities,   \* ids of the domain entities
  RangeEntities,    \* ids of the range entities
  DomainOwner,      \* the rank a domain entity is local to
  RangeOwner,       \* the rank a range entity is local to
  DomainShapes,     \* the shapes domain entities may have
  RangeShapes,      \* the shapes range entities may have
  EmptyDomains,     \* may a rank have no domain entity?
  TrackMissed,      \* the values "Track Missed Range Entities" may have
  MaxSearches       \* bound: calls of search() on one object

ASSUME EntityAssumption ==
  IsFiniteSet(DomainEntities) /\ IsFiniteSet(RangeEntities)
ASSUME OwnerAssumption ==
  /\ DomainOwner \in [DomainEntities -> Ranks]
  /\ RangeOwner  \in [RangeEntities -> Ranks]
ASSUME ShapeAssumption ==
  /\ DomainShapes \subseteq EntityShape
  /\ RangeShapes  \subseteq RangeShape
ASSUME ParameterAssumption ==
  /\ EmptyDomains \in BOOLEAN
  /\ TrackMissed \subseteq BOOLEAN
  /\ MaxSearches \in Nat

VARIABLES
  d_track_missed_range_entities,  \* the parameter, the same on every rank
  pc,                 \* what each rank executes or waits in
  collectives,        \* how many collective calls each rank has entered
  searches,           \* how many searches each rank has begun
  domain,             \* each rank's local domain entities and their shapes
  range,              \* each rank's range entities of its last search
  d_domain_boxes,     \* the box each rank contributed to the gatherAll
  coarse_missed,      \* CoarseGlobalSearch::d_missed_range_entity_ids
  d_range_owner_ranks,       \* domain side: range id, rank it came from
  d_domain_to_range_map,     \* domain side: domain id, range id
  d_parametric_coords,       \* domain side: range id, domain id, coordinate
  d_domain_owner_ranks,      \* range side: domain id, rank it is on
  d_range_to_domain_map,     \* range side: range id, domain id
  d_missed_range_entity_ids, \* range side: what getMissedRangeEntityIds returns
  range_sends,        \* exports of the coarse search (id, rank, centroid)
  domain_sends,       \* exports of the back-communication
  missed_sends,       \* missed range ids, to the rank that owns them
  found_sends         \* found range ids, to the rank that owns them

inputVars  == <<domain, range>>
coarseVars == <<d_domain_boxes, coarse_missed>>
domainVars == <<d_range_owner_ranks, d_domain_to_range_map, d_parametric_coords>>
rangeVars  == <<d_domain_owner_ranks, d_range_to_domain_map>>
sendVars   == <<range_sends, domain_sends, missed_sends, found_sends>>
callVars == <<pc, collectives>>
vars == <<d_track_missed_range_entities, callVars, searches, inputVars,
          coarseVars, domainVars, rangeVars, d_missed_range_entity_ids,
          sendVars>>

-----------------------------------------------------------------------------
(***************************************************************************)
(* Communication.                                                          *)
(***************************************************************************)

\* Rank r waits in the plan of exchange x, and so does or did every other rank:
\* the n-th collective call of a rank matches the n-th of each other rank.
entered(s, r) == collectives[s] >= collectives[r]

createFromSends(r, x) == pc[r] = x /\ \A s \in Ranks : entered(s, r)

\* Rank r goes on to step, and enters a collective as it does.
enter(r, step) ==
  /\ pc' = [pc EXCEPT ![r] = step]
  /\ collectives' = [collectives EXCEPT ![r] = @ + 1]

\* What doPostsAndWaits delivers to rank r of the exports of all the ranks.
imports(sends, r) == {m \in UNION {sends[s] : s \in Ranks} : m.to = r}

rangeMessage  == [id : RangeEntities, owner : Ranks, at : Coords, to : Ranks]
domainMessage == [range : RangeEntities, domain : DomainEntities,
                  rank : Ranks, to : Ranks]
idMessage     == [id : RangeEntities, to : Ranks]

-----------------------------------------------------------------------------
partialFunctions(S, T) == UNION {[D -> T] : D \in SUBSET S}

noEntities == [e \in {} |-> e]

localEntities(owner, r) == {e \in DOMAIN owner : owner[e] = r}

boxesOf(entities) == {entities[e].box : e \in DOMAIN entities}

Init ==
  /\ d_track_missed_range_entities \in TrackMissed
  /\ pc = [r \in Ranks |-> "new"]
  /\ collectives = [r \in Ranks |-> 0]
  /\ searches = [r \in Ranks |-> 0]
  /\ domain = [r \in Ranks |-> noEntities]
  /\ range  = [r \in Ranks |-> noEntities]
  /\ d_domain_boxes = [r \in Ranks |-> [lo |-> 0, hi |-> 0]]
  /\ coarse_missed = [r \in Ranks |-> {}]
  /\ d_range_owner_ranks = [r \in Ranks |-> {}]
  /\ d_domain_to_range_map = [r \in Ranks |-> {}]
  /\ d_parametric_coords = [r \in Ranks |-> {}]
  /\ d_domain_owner_ranks = [r \in Ranks |-> {}]
  /\ d_range_to_domain_map = [r \in Ranks |-> {}]
  /\ d_missed_range_entity_ids = [r \in Ranks |-> {}]
  /\ range_sends  = [r \in Ranks |-> {}]
  /\ domain_sends = [r \in Ranks |-> {}]
  /\ missed_sends = [r \in Ranks |-> {}]
  /\ found_sends  = [r \in Ranks |-> {}]

-----------------------------------------------------------------------------
(***************************************************************************)
(* Constructor: assemble the box of the local domain entities and enter    *)
(* the gatherAll; leave it once every rank has contributed its box.        *)
(***************************************************************************)
Construct(r) ==
  /\ pc[r] = "new"
  /\ \E D \in partialFunctions(localEntities(DomainOwner, r), DomainShapes),
        b \in Box :
       /\ EmptyDomains \/ DOMAIN D # {}
       /\ assembleBoundingBox(boxesOf(D), b)
       /\ domain' = [domain EXCEPT ![r] = D]
       /\ d_domain_boxes' = [d_domain_boxes EXCEPT ![r] = b]
  /\ enter(r, "gather")
  /\ UNCHANGED <<d_track_missed_range_entities, searches, range,
                 coarse_missed, domainVars, rangeVars,
                 d_missed_range_entity_ids, sendVars>>

GatherBoxes(r) ==
  /\ pc[r] = "gather"
  /\ \A s \in Ranks : entered(s, r)
  /\ pc' = [pc EXCEPT ![r] = "idle"]
  /\ UNCHANGED <<collectives, d_track_missed_range_entities, searches,
                 inputVars, coarseVars, domainVars, rangeVars,
                 d_missed_range_entity_ids, sendVars>>

-----------------------------------------------------------------------------
(***************************************************************************)
(* search(): reset the maps, select the ranks each range centroid has to   *)
(* be sent to, and enter the plan of the coarse search.  The prefilter     *)
(* looks at the box of all the local range entities, the selection at the  *)
(* centroid of each.  Coarse misses are pushed onto an array of the        *)
(* CoarseGlobalSearch object.                                              *)
(***************************************************************************)
neighborRanks(b) == {n \in Ranks : boxesIntersect(b, d_domain_boxes[n])}

\* Faulty variant: the centroid goes to one of the ranks whose box it is in.
coarseSendsToOne(r, R, b) ==
  LET owners(e) == {n \in neighborRanks(b) :
                      pointInBox(R[e].centroid, d_domain_boxes[n])}
  IN {[id |-> e, owner |-> r, at |-> R[e].centroid,
       to |-> CHOOSE n \in owners(e) : TRUE] :
        e \in {f \in DOMAIN R : owners(f) # {}}}

coarseSends(r, R, b) ==
  {[id |-> s[1], owner |-> r, at |-> R[s[1]].centroid, to |-> s[2]] :
     s \in {t \in (DOMAIN R) \X neighborRanks(b) :
               pointInBox(R[t[1]].centroid, d_domain_boxes[t[2]])}}

\* Faulty variant: found_entity is reset once for the loop over the entities.
coarseMissesOnce(R, sends) == IF sends = {} THEN DOMAIN R ELSE {}

coarseMisses(R, sends) == {e \in DOMAIN R : \A m \in sends : m.id # e}

\* Faulty variant: the maps of the last search are kept.
clearNothing(map, r) == map

clear(map, r) == [map EXCEPT ![r] = {}]

Search(r) ==
  /\ pc[r] = "idle"
  /\ searches[r] < MaxSearches
  /\ \E R \in partialFunctions(localEntities(RangeOwner, r), RangeShapes),
        b \in Box :
       /\ assembleBoundingBox(boxesOf(R), b)
       /\ range' = [range EXCEPT ![r] = R]
       /\ range_sends' = [range_sends EXCEPT ![r] = coarseSends(r, R, b)]
       /\ coarse_missed' =
            IF d_track_missed_range_entities
            THEN [coarse_missed EXCEPT
                    ![r] = @ \cup coarseMisses(R, coarseSends(r, R, b))]
            ELSE coarse_missed
  /\ d_range_owner_ranks' = clear(d_range_owner_ranks, r)
  /\ d_domain_to_range_map' = clear(d_domain_to_range_map, r)
  /\ d_range_to_domain_map' = clear(d_range_to_domain_map, r)
  /\ d_parametric_coords' = clear(d_parametric_coords, r)
  /\ searches' = [searches EXCEPT ![r] = @ + 1]
  /\ enter(r, "coarse")
  /\ UNCHANGED <<d_track_missed_range_entities, domain, d_domain_boxes,
                 d_domain_owner_ranks, d_missed_range_entity_ids,
                 domain_sends, missed_sends, found_sends>>

-----------------------------------------------------------------------------
(***************************************************************************)
(* Import the centroids and search the local domain for each of them; the  *)
(* loop is skipped as a whole when the rank has no domain entity.  Then    *)
(* enter the plan of the back-communication.                               *)
(***************************************************************************)

\* Faulty variant: the fine search stops at the safeguard.
parentsOfSafe(D, m, near) ==
  {d \in near : isSafeToMapToReferenceFrame(D[d], m.at)}

\* The parents of an imported centroid: the nearest domain entities it maps
\* into.
parentsOf(D, m, near) == {d \in near : mapsInto(D[d], m.at)}

\* Faulty variants of backMessage: the ids pushed in the wrong order; the rank
\* of the range entity in place of that of the domain; the export rank mixed up.
backMessageSwapped(r, m, d) ==
  [range |-> d, domain |-> m.id, rank |-> r, to |-> m.owner]
backMessageOwnerRank(r, m, d) ==
  [range |-> m.id, domain |-> d, rank |-> m.owner, to |-> m.owner]
backMessageToSelf(r, m, d) ==
  [range |-> m.id, domain |-> d, rank |-> r, to |-> r]

\* What tells the owner of the imported range entity of a parent d.
backMessage(r, m, d) ==
  [range |-> m.id, domain |-> d, rank |-> r, to |-> m.owner]

\* The imported centroids the local search is run for, and the pairs of such a
\* point and a parent of it, near[m] being the neighbors of the point m.
localPoints(r) ==
  IF DOMAIN domain[r] = {}    \* d_empty_domain
  THEN {} ELSE imports(range_sends, r)

hits(r, near) ==
  {h \in localPoints(r) \X (DOMAIN domain[r]) :
     h[2] \in parentsOf(domain[r], h[1], near[h[1]])}

foundPoints(H) == {h[1] : h \in H}

recordHits(r, H) ==
  /\ d_range_owner_ranks' = [d_range_owner_ranks EXCEPT
       ![r] = @ \cup {<<m.id, m.owner>> : m \in foundPoints(H)}]
  /\ d_domain_to_range_map' = [d_domain_to_range_map EXCEPT
       ![r] = @ \cup {<<h[2], h[1].id>> : h \in H}]
  /\ d_parametric_coords' = [d_parametric_coords EXCEPT
       ![r] = @ \cup
         {<<h[1].id, h[2], referenceCoordinate(domain[r][h[2]], h[1].at)>> :
            h \in H}]
  /\ domain_sends' = [domain_sends EXCEPT
       ![r] = {backMessage(r, h[1], h[2]) : h \in H}]

\* The ids found and missed here go to the owners of the range entities; the
\* coarse misses are this rank's own.
recordFoundAndMissed(r, H) ==
  /\ found_sends' = [found_sends EXCEPT
       ![r] = {[id |-> m.id, to |-> m.owner] : m \in foundPoints(H)}]
  /\ missed_sends' = [missed_sends EXCEPT
       ![r] = {[id |-> e, to |-> r] : e \in coarse_missed[r]} \cup
              {[id |-> m.id, to |-> m.owner] :
                  m \in localPoints(r) \ foundPoints(H)}]

LocalSearch(r) ==
  /\ createFromSends(r, "coarse")
  /\ \E near \in [localPoints(r) -> SUBSET DOMAIN domain[r]] :
       /\ \A m \in localPoints(r) : nnSearch(m.at, domain[r], near[m])
       /\ recordHits(r, hits(r, near))
       /\ IF d_track_missed_range_entities
          THEN recordFoundAndMissed(r, hits(r, near))
          ELSE UNCHANGED <<found_sends, missed_sends>>
  /\ enter(r, "back")
  /\ UNCHANGED <<d_track_missed_range_entities, searches, inputVars,
                 coarseVars, rangeVars, d_missed_range_entity_ids,
                 range_sends>>

\* Faulty variant: a rank that missed nothing skips the exchanges.
tracksMissedHere(r) == d_track_missed_range_entities /\ missed_sends[r] # {}

tracksMissed(r) == d_track_missed_range_entities

\* Complete the mapping in the decomposition of the range.  The owner ranks
\* of domain entities are added to those of earlier searches.
StoreDomainData(r) ==
  /\ createFromSends(r, "back")
  /\ LET imp == imports(domain_sends, r)
     IN /\ d_domain_owner_ranks' = [d_domain_owner_ranks EXCEPT
             ![r] = @ \cup {<<m.domain, m.rank>> : m \in imp}]
        /\ d_range_to_domain_map' = [d_range_to_domain_map EXCEPT
             ![r] = @ \cup {<<m.range, m.domain>> : m \in imp}]
  /\ IF tracksMissed(r)
     THEN enter(r, "missed")
     ELSE pc' = [pc EXCEPT ![r] = "idle"] /\ UNCHANGED collectives
  /\ UNCHANGED <<d_track_missed_range_entities, searches, inputVars,
                 coarseVars, domainVars, d_missed_range_entity_ids,
                 sendVars>>

-----------------------------------------------------------------------------
(***************************************************************************)
(* Tracking of missed entities: exchange the missed ids, then the found    *)
(* ids, and report those that were missed and found nowhere.               *)
(***************************************************************************)
ExchangeMissed(r) ==
  /\ createFromSends(r, "missed")
  /\ enter(r, "found")
  /\ UNCHANGED <<d_track_missed_range_entities, searches, inputVars,
                 coarseVars, domainVars, rangeVars,
                 d_missed_range_entity_ids, sendVars>>

importMissed(r) == {m.id : m \in imports(missed_sends, r)}
\* Faulty variant: what was found elsewhere is not looked at.
importFoundHere(r) == {m.id : m \in found_sends[r]}
importFound(r)  == {m.id : m \in imports(found_sends, r)}

ExchangeFound(r) ==
  /\ createFromSends(r, "found")
  /\ d_missed_range_entity_ids' = [d_missed_range_entity_ids EXCEPT
       ![r] = importMissed(r) \ importFound(r)]
  /\ pc' = [pc EXCEPT ![r] = "idle"]
  /\ UNCHANGED <<collectives, d_track_missed_range_entities, searches,
                 inputVars, coarseVars, domainVars, rangeVars, sendVars>>

-----------------------------------------------------------------------------
Step(r) ==
  \/ Construct(r)
  \/ GatherBoxes(r)
  \/ Search(r)
  \/ LocalSearch(r)
  \/ StoreDomainData(r)
  \/ ExchangeMissed(r)
  \/ ExchangeFound(r)

Next == \E r \in Ranks : Step(r)

\* Construction and search are collective: a program that uses them runs the
\* same calls on every rank, and a rank that is not waiting for another one
\* goes on.
Fairness == \A r \in Ranks : WF_vars(Step(r))

Spec == Init /\ [][Next]_vars /\ Fairness
-----------------------------------------------------------------------------
(***************************************************************************)
(* Properties.                                                             *)
(***************************************************************************)

\* Every variable has its type.
TypeOK ==
  /\ d_track_missed_range_entities \in BOOLEAN
  /\ pc \in [Ranks -> {"new", "gather", "idle",
                      "coarse", "back", "missed", "found"}]
  /\ collectives \in [Ranks -> Nat]
  /\ searches \in [Ranks -> 0 .. MaxSearches]
  /\ domain \in [Ranks -> partialFunctions(DomainEntities, DomainShapes)]
  /\ range \in [Ranks -> partialFunctions(RangeEntities, RangeShapes)]
  /\ d_domain_boxes \in [Ranks -> Box]
  /\ coarse_missed \in [Ranks -> SUBSET RangeEntities]
  /\ d_range_owner_ranks \in [Ranks -> SUBSET (RangeEntities \X Ranks)]
  /\ d_domain_to_range_map \in
       [Ranks -> SUBSET (DomainEntities \X RangeEntities)]
  /\ d_parametric_coords \in
       [Ranks -> SUBSET (RangeEntities \X DomainEntities \X Int)]
  /\ d_domain_owner_ranks \in [Ranks -> SUBSET (DomainEntities \X Ranks)]
  /\ d_range_to_domain_map \in
       [Ranks -> SUBSET (RangeEntities \X DomainEntities)]
  /\ d_missed_range_entity_ids \in [Ranks -> SUBSET RangeEntities]
  /\ range_sends \in [Ranks -> SUBSET rangeMessage]
  /\ domain_sends \in [Ranks -> SUBSET domainMessage]
  /\ missed_sends \in [Ranks -> SUBSET idMessage]
  /\ found_sends \in [Ranks -> SUBSET idMessage]

\* How far rank r is in its last search: it has searched its local domain; it
\* has stored the back-communicated graph; it has returned from search().
returned(r) == searches[r] > 0 /\ pc[r] = "idle"
stored(r)   == returned(r) \/ pc[r] \in {"missed", "found"}
searched(r) == stored(r) \/ pc[r] = "back"

\* The centroid of range entity e of rank p lies in domain entity d of rank q.
isIn(e, p, d, q) ==
  /\ e \in DOMAIN range[p]
  /\ d \in DOMAIN domain[q]
  /\ mapsInto(domain[q][d], range[p][e].centroid)

\* ... and within the inclusion tolerance of the box of d.
isInTolerance(e, p, d, q) ==
  isIn(e, p, d, q) /\ pointInBox(range[p][e].centroid, domain[q][d].box)

\* The owner ranks the two sides of the graph hand out (rangeEntityOwnerRank,
\* domainEntityOwnerRank) are the ranks the entities are local to, also after
\* several searches: a key never has two ranks, so that it does not matter
\* that emplace() keeps the first one it was given.
OwnersCorrect ==
  \A r \in Ranks :
    /\ \A x \in d_range_owner_ranks[r]  : x[2] = RangeOwner[x[1]]
    /\ \A x \in d_domain_owner_ranks[r] : x[2] = DomainOwner[x[1]]

\* Every pair of the domain side of the graph belongs to the search the owner
\* of the range entity is in, and the point does lie in the entity: nothing of
\* an earlier search survives and no message is paired with another's point.
SearchSound ==
  \A q, p \in Ranks :
    searched(q) /\ searches[p] = searches[q] =>
      \A d \in DomainEntities, e \in RangeEntities :
        <<d, e>> \in d_domain_to_range_map[q] /\ RangeOwner[e] = p =>
          /\ isIn(e, p, d, q)
          /\ <<e, p>> \in d_range_owner_ranks[q]
          /\ <<e, d, referenceCoordinate(domain[q][d], range[p][e].centroid)>>
               \in d_parametric_coords[q]

\* The two simultaneous states of the search, one in each decomposition, are
\* the same graph: a pair is in the map of the domain entity's rank exactly if
\* it is in the map of the range entity's rank, and the range side then knows
\* where to find the domain entity.
GraphAgreement ==
  \A p, q \in Ranks :
    stored(p) /\ searched(q) /\ searches[p] = searches[q] =>
      \A d \in DomainEntities, e \in RangeEntities :
        DomainOwner[d] = q /\ RangeOwner[e] = p =>
          /\ <<d, e>> \in d_domain_to_range_map[q]
               <=> <<e, d>> \in d_range_to_domain_map[p]
          /\ <<e, d>> \in d_range_to_domain_map[p]
               => <<d, q>> \in d_domain_owner_ranks[p]

\* Neither the prefilter on boxes, nor the selection of ranks by box, nor the
\* redistribution loses a pair: when the nearest neighbor query returns the
\* whole local domain, every domain entity a centroid lies in is found, on any
\* rank.  (The tolerance matters when it is set below the one the safeguard of
\* the fine search always uses.)
SearchComplete ==
  \A p, q \in Ranks :
    /\ stored(p)
    /\ searches[p] = searches[q]
    /\ Cardinality(DOMAIN domain[q]) <= KNN
    => \A d \in DomainEntities, e \in RangeEntities :
         isInTolerance(e, p, d, q) => <<e, d>> \in d_range_to_domain_map[p]

\* No range entity that was mapped is reported as missed, though some of the
\* ranks it was sent to did not find it: the found ids outweigh the missed.
MissedNotMapped ==
  \A r \in Ranks : returned(r) =>
    \A e \in d_missed_range_entity_ids[r] :
      \A d \in DomainEntities : <<e, d>> \notin d_range_to_domain_map[r]

\* The assertion at the end of search(): the missed and the found entities of
\* a rank add up to its range entities.
AllAccountedFor ==
  \A r \in Ranks : returned(r) /\ d_track_missed_range_entities =>
    Cardinality(d_missed_range_entity_ids[r]) + Cardinality(importFound(r))
      = Cardinality(DOMAIN range[r])

\* Only range entities of the last search are reported as missed by it.
MissedOfLastSearch ==
  \A r \in Ranks : returned(r) =>
    d_missed_range_entity_ids[r] \subseteq DOMAIN range[r]

\* Every rank returns from every search: no rank waits forever in a collective.
SearchesReturn ==
  <>(\A r \in Ranks : pc[r] = "idle" /\ searches[r] = MaxSearches)

-----------------------------------------------------------------------------
(***************************************************************************)
(* The abstract specification.  A rank has its answer when it returns.     *)
(***************************************************************************)
answers == [r \in Ranks |-> IF pc[r] \in {"new", "gather", "idle"}
                           THEN searches[r] ELSE searches[r] - 1]

mapped == [r \in Ranks |-> IF pc[r] = "idle" THEN d_range_to_domain_map[r]
                                            ELSE {}]

Promise == INSTANCE SearchPromise WITH calls <- searches

\* The search keeps the promise its callers rely on: every step of a rank is a
\* step of the one-step search or invisible to the callers.
ImplementsPromise == Promise!Spec
=============================================================================
