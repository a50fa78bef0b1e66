--------------------------- MODULE VolumeSourceMap ---------------------------
(***************************************************************************)
(* DTK_VolumeSourceMap of the ClassicDTK adapter on top of ParallelSearch: *)
(* setup() finds the source geometries that contain the target points,     *)
(* apply() evaluates the source field at the points found, on the ranks of *)
(* the geometries, and imports the results to the ranks of the points.     *)
(* DTK_SharedDomainMap is the same program with a mesh as its source; it   *)
(* differs in the entity set it builds (IterateSource).                    *)
(*                                                                         *)
(* The source and the target live on communicators of their own, within    *)
(* that of the map.  A communicator is the sequence of its ranks here:     *)
(* c[k + 1] is the rank that is process k of it.  A rank outside of it has *)
(* null pointers for the managers and evaluators of that side.             *)
(*                                                                         *)
(* The target points have no ids: setup() numbers them.  Point n of rank r *)
(* is the range entity <<r, n>> of the search, which the code knows by its *)
(* ordinal; that the two are the same is the property OrdinalsUnique.      *)
(***************************************************************************)
EXTENDS ParallelSearch, Sequences

CONSTANTS
  SourceComms,   \* the communicators the source may be on
  TargetComms,   \* the communicators the target may be on
  SourceIsMesh,  \* FALSE: a VolumeSourceMap, TRUE: a SharedDomainMap
  MaxPoints,     \* bound: target points on a rank
  FieldDims      \* bound: the dimensions of the fields of the calls of apply()

Communicators ==
  {c \in UNION {[1 .. n -> Ranks] : n \in 1 .. Cardinality(Ranks)} :
     \A i, j \in DOMAIN c : c[i] = c[j] => i = j}

ASSUME RankAssumption ==
  IsFiniteSet(Ranks) /\ Ranks = 0 .. Cardinality(Ranks) - 1
ASSUME PointAssumption ==
  /\ MaxPoints \in Nat
  /\ RangeEntities = Ranks \X (0 .. MaxPoints - 1)
  /\ \A e \in RangeEntities : RangeOwner[e] = e[1]
ASSUME CommAssumption ==
  SourceComms \subseteq Communicators /\ TargetComms \subseteq Communicators
ASSUME MapAssumption ==
  SourceIsMesh \subseteq BOOLEAN /\ FieldDims \in Seq(Nat \ {0}) /\ MaxSearches = 1

VARIABLES
  source_is_mesh,     \* which of the two maps it is
  source_comm,        \* the communicator of the source manager
  target_comm,        \* the communicator of the target manager
  phase,              \* where each rank is in setup() and apply()
  d_source_indexer,   \* source process -> rank of the map's communicator
  d_target_indexer,   \* target process -> rank of the map's communicator
  local_size,         \* how many target points each rank has
  target_ordinals,    \* point -> its ordinal
  d_source_geometry,  \* ordinal -> the geometry it is evaluated in
  d_target_coords,    \* ordinal -> where in that geometry
  d_source_to_target_importer,  \* ordinal -> the rank its value comes from
  d_missed_points,    \* what getMissedTargetPoints() returns
  calls,              \* how many calls of apply() each rank has begun
  source_vector,      \* the evaluations of each rank, per call of apply()
  source_dim,         \* the dimensions apply() works with, own or received
  target_dim,
  target_field        \* the target application's field, by point

indexVars == <<d_source_indexer, d_target_indexer, local_size, target_ordinals>>
mappingVars == <<d_source_geometry, d_target_coords,
                 d_source_to_target_importer, d_missed_points>>
transferVars == <<calls, source_vector, source_dim, target_dim, target_field>>
inputMapVars == <<source_is_mesh, source_comm, target_comm>>
mapVars == <<inputMapVars, phase, indexVars, mappingVars, transferVars>>

members(comm) == {comm[i] : i \in DOMAIN comm}

goOn(r, step) == phase' = [phase EXCEPT ![r] = step]

\* Every rank has entered the collective that follows the given phases.
allPast(phases) == \A s \in Ranks : phase[s] \notin phases

noPoints == [n \in {} |-> 0]

MapInit ==
  /\ Init
  /\ source_is_mesh \in SourceIsMesh
  /\ source_comm \in SourceComms
  /\ target_comm \in TargetComms
  /\ phase = [r \in Ranks |-> "new"]
  /\ d_source_indexer = [r \in Ranks |-> noPoints]
  /\ d_target_indexer = [r \in Ranks |-> noPoints]
  /\ local_size = [r \in Ranks |-> 0]
  /\ target_ordinals = [r \in Ranks |-> noPoints]
  /\ d_source_geometry = [r \in Ranks |-> noPoints]
  /\ d_target_coords = [r \in Ranks |-> noPoints]
  /\ d_source_to_target_importer = [r \in Ranks |-> noPoints]
  /\ d_missed_points = [r \in Ranks |-> {}]
  /\ calls = [r \in Ranks |-> 0]
  /\ source_vector = [r \in Ranks |-> <<>>]
  /\ source_dim = [r \in Ranks |-> 0]
  /\ target_dim = [r \in Ranks |-> 0]
  /\ target_field = [r \in Ranks |-> noPoints]

-----------------------------------------------------------------------------
(***************************************************************************)
(* setup(), numbering: gather who is which process of the source, then of  *)
(* the target, then the greatest number of points on a rank.               *)
(***************************************************************************)
BeginSetup(r) ==
  /\ phase[r] = "new"
  /\ \E n \in IF r \in members(target_comm) THEN 0 .. MaxPoints ELSE {0} :
       local_size' = [local_size EXCEPT ![r] = n]
  /\ goOn(r, "sources")
  /\ UNCHANGED <<vars, inputMapVars, d_source_indexer,
                 d_target_indexer, target_ordinals, mappingVars, transferVars>>

\* What a rank gives to the gatherAll of a CommIndexer.
localRank(comm, r) ==
  IF r \in members(comm) THEN (CHOOSE i \in DOMAIN comm : comm[i] = r) - 1
  ELSE -1

\* Faulty variant: the ranks of the map are mapped to processes.
g2lmap(comm) ==
  [r \in {s \in Ranks : localRank(comm, s) >= 0} |-> localRank(comm, r)]

l2gmap(comm) ==
  [k \in {localRank(comm, r) : r \in members(comm)} |->
     CHOOSE r \in Ranks : localRank(comm, r) = k]

IndexSource(r) ==
  /\ phase[r] = "sources"
  /\ allPast({"new"})
  /\ d_source_indexer' = [d_source_indexer EXCEPT ![r] = l2gmap(source_comm)]
  /\ goOn(r, "targets")
  /\ UNCHANGED <<vars, inputMapVars, d_target_indexer, local_size,
                 target_ordinals, mappingVars, transferVars>>

IndexTarget(r) ==
  /\ phase[r] = "targets"
  /\ allPast({"new", "sources"})
  /\ d_target_indexer' = [d_target_indexer EXCEPT ![r] = l2gmap(target_comm)]
  /\ goOn(r, "sizes")
  /\ UNCHANGED <<vars, inputMapVars, d_source_indexer, local_size,
                 target_ordinals, mappingVars, transferVars>>

\* Faulty variant: a rank counts with its own size, not with the greatest.
ordinalsOfOwnSize(r) ==
  [n \in 0 .. local_size[r] - 1 |-> r * local_size[r] + n]

globalMax ==
  local_size[CHOOSE s \in Ranks :
               \A t \in Ranks : local_size[t] <= local_size[s]]

\* Faulty variant: the points of a rank are counted from one.
ordinalsFromOne(r) == [n \in 1 .. local_size[r] |-> r * globalMax + n]

computePointOrdinals(r) ==
  [n \in 0 .. local_size[r] - 1 |-> r * globalMax + n]

NumberPoints(r) ==
  /\ phase[r] = "sizes"
  /\ allPast({"new", "sources", "targets"})
  /\ target_ordinals' = [target_ordinals EXCEPT ![r] = computePointOrdinals(r)]
  /\ goOn(r, "search")
  /\ UNCHANGED <<vars, inputMapVars, d_source_indexer,
                 d_target_indexer, local_size, mappingVars, transferVars>>

-----------------------------------------------------------------------------
(***************************************************************************)
(* setup(), search: one search of a new ParallelSearch object, with the    *)
(* local source geometries as its domain and the local points as its range *)
(* A VolumeSourceMap copies the geometries into a set that is empty where  *)
(* there is no source.  The iterator a SharedDomainMap takes from the mesh *)
(* looks into the first block of it, and where there is no mesh there is   *)
(* no block: undefined behaviour, a read through a null pointer.           *)
(***************************************************************************)
sourceIsIterable(r) == source_is_mesh => r \in members(source_comm)

IterateSource(r) ==
  /\ phase[r] = "search"
  /\ pc[r] = "new"
  /\ ~ sourceIsIterable(r)
  /\ goOn(r, "undefined")
  /\ UNCHANGED <<vars, inputMapVars, indexVars, mappingVars,
                 transferVars>>

pointsOf(r) == {<<r, n>> : n \in DOMAIN target_ordinals[r]}

SearchPoints(r) ==
  /\ phase[r] = "search"
  /\ sourceIsIterable(r)
  /\ Step(r)
  /\ DOMAIN domain'[r] # {} => r \in members(source_comm)
  /\ searches'[r] > 0 => DOMAIN range'[r] = pointsOf(r)
  /\ UNCHANGED mapVars

-----------------------------------------------------------------------------
(***************************************************************************)
(* setup(), mapping: of the local geometries a point was found in, one is  *)
(* kept, whichever the sort puts first.                                    *)
(***************************************************************************)
ordinal(e) == target_ordinals[e[1]][e[2]]

foundHere(r) == {x[2] : x \in d_domain_to_range_map[r]}

\* Faulty variant: the coordinates of the point in another of its geometries.
coordinateInAny(r, e, d, x) ==
  \E f \in DomainEntities : <<e, f, x>> \in d_parametric_coords[r]

coordinateIn(r, e, d, x) == <<e, d, x>> \in d_parametric_coords[r]

BuildMapping(r) ==
  /\ phase[r] = "search"
  /\ returned(r)
  /\ \E geometry \in [foundHere(r) -> DomainEntities],
        coords \in [foundHere(r) -> {x[3] : x \in d_parametric_coords[r]}] :
       /\ \A e \in foundHere(r) :
            /\ <<geometry[e], e>> \in d_domain_to_range_map[r]
            /\ coordinateIn(r, e, geometry[e], coords[e])
       /\ d_source_geometry' = [d_source_geometry EXCEPT ![r] =
            [o \in {ordinal(e) : e \in foundHere(r)} |->
               geometry[CHOOSE e \in foundHere(r) : ordinal(e) = o]]]
       /\ d_target_coords' = [d_target_coords EXCEPT ![r] =
            [o \in {ordinal(e) : e \in foundHere(r)} |->
               coords[CHOOSE e \in foundHere(r) : ordinal(e) = o]]]
  /\ goOn(r, "maps")
  /\ UNCHANGED <<vars, inputMapVars, indexVars,
                 d_source_to_target_importer, d_missed_points, transferVars>>

\* The two Tpetra maps and the importer are built in collectives.  An ordinal
\* may be in the source map on several ranks.  The importer takes it from the
\* rank itself if it is there, otherwise from any of the others; an ordinal of
\* no rank is left out.
sourceRanks(o) == {s \in Ranks : o \in DOMAIN d_source_geometry[s]}

ordinalsOf(r) == {target_ordinals[r][n] : n \in DOMAIN target_ordinals[r]}

isImporter(r, importer) ==
  /\ DOMAIN importer = {o \in ordinalsOf(r) : sourceRanks(o) # {}}
  /\ \A o \in DOMAIN importer :
       IF r \in sourceRanks(o) THEN importer[o] = r
                               ELSE importer[o] \in sourceRanks(o)

\* Faulty variant: the points this rank has no geometry for are the missed.
unmappedHere(r) ==
  {n \in DOMAIN target_ordinals[r] :
     target_ordinals[r][n] \notin DOMAIN d_source_geometry[r]}

\* The local indices of the missed ordinals.
missedPoints(r) ==
  {n \in DOMAIN target_ordinals[r] : <<r, n>> \in d_missed_range_entity_ids[r]}

BuildImporter(r) ==
  /\ phase[r] = "maps"
  /\ allPast({"new", "sources", "targets", "sizes", "search", "undefined"})
  /\ \E importer \in
          [{o \in ordinalsOf(r) : sourceRanks(o) # {}} -> Ranks] :
       /\ isImporter(r, importer)
       /\ d_source_to_target_importer' =
            [d_source_to_target_importer EXCEPT ![r] = importer]
  /\ d_missed_points' = [d_missed_points EXCEPT ![r] =
       IF d_track_missed_range_entities THEN missedPoints(r) ELSE {}]
  /\ goOn(r, "ready")
  /\ UNCHANGED <<vars, inputMapVars, indexVars,
                 d_source_geometry, d_target_coords, transferVars>>

-----------------------------------------------------------------------------
(***************************************************************************)
(* apply(): evaluate the source field, tell every rank the dimension of    *)
(* the source field and that of the target field, each from process 0 of   *)
(* its communicator, and import the evaluations.  A broadcast holds up     *)
(* only the ranks that receive it, the import only those that need values  *)
(* of a slower rank.                                                       *)
(***************************************************************************)
\* The evaluation of the field of call number n in the geometry d at x, and
\* the zero of the points that were not mapped.
evaluate(d, x, n) == <<d, x, n>>
zero == <<>>

Evaluate(r) ==
  /\ phase[r] = "ready"
  /\ calls[r] < Len(FieldDims)
  /\ calls' = [calls EXCEPT ![r] = @ + 1]
  /\ source_vector' = [source_vector EXCEPT ![r] = Append(@,
       [o \in DOMAIN d_source_geometry[r] |->
          evaluate(d_source_geometry[r][o], d_target_coords[r][o],
                   calls[r] + 1)])]
  /\ source_dim' = [source_dim EXCEPT ![r] =
       IF r \in members(source_comm) THEN FieldDims[calls[r] + 1] ELSE 0]
  /\ goOn(r, "source_dim")
  /\ UNCHANGED <<vars, inputMapVars, indexVars, mappingVars,
                 target_dim, target_field>>

\* Rank s has come to the n-th broadcast of the source dimension; of the target
\* dimension; has posted the values of its n-th import.
sentSourceDim(s, n) == calls[s] >= n
sentTargetDim(s, n) ==
  calls[s] > n \/ (calls[s] = n /\ phase[s] # "source_dim")
sentValues(s, n) ==
  calls[s] > n \/ (calls[s] = n /\ phase[s] \in {"import", "ready"})

\* Faulty variant: the root is process 0 of the map's own communicator.
rankZero(indexer) == 0

root(indexer) == IF 0 \in DOMAIN indexer THEN indexer[0] ELSE -1

\* What process 0 of comm, if it is rank s, has to send in call number n.
dimSent(comm, s, n) == IF s \in members(comm) THEN FieldDims[n] ELSE 0

ReceiveSourceDim(r) ==
  /\ phase[r] = "source_dim"
  /\ \E s \in Ranks :
       /\ s = root(d_source_indexer[r])
       /\ sentSourceDim(s, calls[r])
       /\ source_dim' = [source_dim EXCEPT ![r] =
            dimSent(source_comm, s, calls[r])]
  /\ target_dim' = [target_dim EXCEPT ![r] = dimSent(target_comm, r, calls[r])]
  /\ goOn(r, "target_dim")
  /\ UNCHANGED <<vars, inputMapVars, indexVars, mappingVars,
                 calls, source_vector, target_field>>

\* After the broadcast the target is filled with zeros.
ReceiveTargetDim(r) ==
  /\ phase[r] = "target_dim"
  /\ \E s \in Ranks :
       /\ s = root(d_target_indexer[r])
       /\ sentTargetDim(s, calls[r])
       /\ target_dim' = [target_dim EXCEPT ![r] =
            dimSent(target_comm, s, calls[r])]
  /\ target_field' = [target_field EXCEPT ![r] =
       [n \in DOMAIN target_ordinals[r] |-> zero]]
  /\ goOn(r, "import")
  /\ UNCHANGED <<vars, inputMapVars, indexVars, mappingVars,
                 calls, source_vector, source_dim>>

\* Faulty variant: every import brings the values of the first call.
importedFirst(r, o) == source_vector[d_source_to_target_importer[r][o]][1][o]

importedValue(r, o) ==
  source_vector[d_source_to_target_importer[r][o]][calls[r]][o]

ImportValues(r) ==
  /\ phase[r] = "import"
  /\ \A o \in DOMAIN d_source_to_target_importer[r] :
       sentValues(d_source_to_target_importer[r][o], calls[r])
  /\ target_field' = [target_field EXCEPT ![r] =
       [n \in DOMAIN target_ordinals[r] |->
          IF target_ordinals[r][n] \in DOMAIN d_source_to_target_importer[r]
          THEN importedValue(r, target_ordinals[r][n]) ELSE zero]]
  /\ goOn(r, "ready")
  /\ UNCHANGED <<vars, inputMapVars, indexVars, mappingVars,
                 calls, source_vector, source_dim, target_dim>>

-----------------------------------------------------------------------------
SetupStep(r) ==
  \/ BeginSetup(r)
  \/ IndexSource(r)
  \/ IndexTarget(r)
  \/ NumberPoints(r)
  \/ IterateSource(r)
  \/ SearchPoints(r)
  \/ BuildMapping(r)
  \/ BuildImporter(r)

ApplyStep(r) ==
  \/ Evaluate(r)
  \/ ReceiveSourceDim(r)
  \/ ReceiveTargetDim(r)
  \/ ImportValues(r)

mapAll == <<vars, mapVars>>

MapNext == \E r \in Ranks : SetupStep(r) \/ ApplyStep(r)

\* setup() and apply() are collective calls of one program on every rank.
MapSpec ==
  /\ MapInit
  /\ [][MapNext]_mapAll
  /\ \A r \in Ranks : WF_mapAll(SetupStep(r) \/ ApplyStep(r))

-----------------------------------------------------------------------------
(***************************************************************************)
(* Properties.                                                             *)
(***************************************************************************)
\* Every variable of the search and of the map has its type.
MapTypeOK ==
  /\ TypeOK
  /\ source_is_mesh \in BOOLEAN
  /\ source_comm \in SourceComms /\ target_comm \in TargetComms
  /\ phase \in [Ranks -> {"new", "sources", "targets", "sizes", "search",
                          "undefined", "maps", "ready", "source_dim",
                          "target_dim", "import"}]
  /\ \A r \in Ranks :
       /\ DOMAIN d_source_indexer[r] \subseteq Nat
       /\ \A k \in DOMAIN d_source_indexer[r] : d_source_indexer[r][k] \in Ranks
       /\ DOMAIN d_target_indexer[r] \subseteq Nat
       /\ \A k \in DOMAIN d_target_indexer[r] : d_target_indexer[r][k] \in Ranks
  /\ local_size \in [Ranks -> 0 .. MaxPoints]
  /\ \A r \in Ranks :
       /\ DOMAIN target_ordinals[r] \in {{}, 0 .. local_size[r] - 1}
       /\ \A n \in DOMAIN target_ordinals[r] : target_ordinals[r][n] \in Nat
       /\ \A o \in DOMAIN d_source_geometry[r] :
            d_source_geometry[r][o] \in DomainEntities
       /\ DOMAIN d_target_coords[r] = DOMAIN d_source_geometry[r]
       /\ DOMAIN d_source_to_target_importer[r] \subseteq ordinalsOf(r)
       /\ d_missed_points[r] \subseteq DOMAIN target_ordinals[r]
       /\ Len(source_vector[r]) = calls[r]
       /\ DOMAIN target_field[r] \subseteq DOMAIN target_ordinals[r]
  /\ calls \in [Ranks -> 0 .. Len(FieldDims)]
  /\ source_dim \in [Ranks -> Nat] /\ target_dim \in [Ranks -> Nat]

\* The ordinals computePointOrdinals() calls globally unique are: no two target
\* points have the same, whatever their numbers on the ranks are.  The search,
\* the two Tpetra maps and the importer know the points by nothing else.
OrdinalsUnique ==
  \A r, s \in Ranks :
    \A m \in DOMAIN target_ordinals[r], n \in DOMAIN target_ordinals[s] :
      target_ordinals[r][m] = target_ordinals[s][n] => r = s /\ m = n

\* The DTK_REQUIRE of apply(): when values are moved every rank knows the
\* dimension of this call's fields, also those outside of both communicators,
\* however the processes of these are ordered and though ranks may be in
\* different calls.
DimensionsAgree ==
  \A r \in Ranks : phase[r] = "import" =>
    source_dim[r] = FieldDims[calls[r]] /\ target_dim[r] = FieldDims[calls[r]]

\* Rank r has finished a call of apply().
isApplied(r) == phase[r] = "ready" /\ calls[r] > 0

\* The evaluation of point n of rank r in the geometry d of rank q.
evaluationIn(r, n, d, q) ==
  evaluate(d, referenceCoordinate(domain[q][d], range[r][<<r, n>>].centroid),
           calls[r])

\* After an apply() a target point holds the value of this call's source field
\* in one of the geometries that contain it, at the point's own place there;
\* it holds zero only if no geometry does.  A point in several geometries, on
\* one rank or on several, does not get the sum of them, nor the value of
\* another point or call.
EvaluatedOnce ==
  \A r \in Ranks : isApplied(r) =>
    \A n \in DOMAIN target_ordinals[r] :
      LET found == {d \in DomainEntities :
                      <<<<r, n>>, d>> \in d_range_to_domain_map[r]}
      IN IF found = {}
         THEN target_field[r][n] = zero
         ELSE \E d \in found :
                /\ isIn(<<r, n>>, r, d, DomainOwner[d])
                /\ target_field[r][n] = evaluationIn(r, n, d, DomainOwner[d])

\* getMissedTargetPoints() returns exactly the points apply() fills with zero:
\* the misses come from the search's exchange of missed and found ids, the
\* zeros from the ordinals that are in the source map of no rank.  (A point in
\* the box around the origin that a rank without source geometries has in the
\* search is neither found nor missed: no point is at the origin here.)
MissedAreZero ==
  \A r \in Ranks : isApplied(r) /\ d_track_missed_range_entities =>
    \A n \in DOMAIN target_ordinals[r] :
      n \in d_missed_points[r] <=> target_field[r][n] = zero

\* Every rank returns from setup() and from all its calls of apply(), whatever
\* communicators the source and the target are on; a mesh has to be on all ranks,
\* and there no rank may get stuck or fail.
MapReturns ==
  (\A r \in Ranks : sourceIsIterable(r))
    => <>(\A r \in Ranks : phase[r] = "ready" /\ calls[r] = Len(FieldDims))
=============================================================================
