------------------------ MODULE VolumeSourceMapProofs ------------------------
(***************************************************************************)
(* Proofs about the maps of the ClassicDTK adapter: the ordinals of the    *)
(* target points are unique, all ranks know the dimension of the fields, a *)
(* point gets the value of one evaluation in a geometry it lies in, and    *)
(* the missed points are those that get zero.  Every variable keeps its    *)
(* type.                                                                   *)
(***************************************************************************)
EXTENDS VolumeSourceMap, ParallelSearchProofs, SequenceTheorems

-----------------------------------------------------------------------------
(***************************************************************************)
(* The ordinals and the indexers.                                          *)
(***************************************************************************)
Counted ==
  local_size \in [Ranks -> 0 .. MaxPoints]

\* There is a rank with the greatest number of points, and globalMax is it.
LEMMA GreatestSize ==
  ASSUME Counted, NEW q \in Ranks
  PROVE  globalMax \in Nat /\ \A s \in Ranks : local_size[s] <= globalMax
<1> DEFINE rest(s) == MaxPoints - local_size[s]
           T == {rest(s) : s \in Ranks}
<1>1. ASSUME NEW s \in Ranks PROVE local_size[s] \in Nat /\ rest(s) \in Nat
  BY PointAssumption DEF Counted
<1>2. PICK m \in T : \A n \in T : m <= n
  <2>1. T \in SUBSET Nat /\ T # {}
    BY <1>1
  <2> HIDE DEF T
  <2> QED
    BY <2>1, LeastNatural
<1>3. PICK s \in Ranks : rest(s) = m
  BY <1>2
<1>4. \A t \in Ranks : local_size[t] <= local_size[s]
  <2> SUFFICES ASSUME NEW t \in Ranks PROVE local_size[t] <= local_size[s]
    OBVIOUS
  <2>1. rest(s) <= rest(t)
    BY <1>2, <1>3
  <2> QED
    BY <1>1, <2>1, PointAssumption
<1>5. PICK c \in Ranks : /\ globalMax = local_size[c]
                         /\ \A t \in Ranks : local_size[t] <= local_size[c]
  BY <1>4 DEF globalMax
<1> QED
  BY <1>1, <1>5

\* A point's ordinal lies in the part of the ordinals that is its rank's.
LEMMA OrdinalsApart ==
  ASSUME NEW r \in Nat, NEW s \in Nat, NEW k \in Nat,
         NEW m \in 0 .. k - 1, NEW n \in 0 .. k - 1,
         r * k + m = s * k + n
  PROVE  r = s /\ m = n
<1>1. ASSUME NEW a \in Nat, NEW b \in Nat, a < b,
             NEW i \in 0 .. k - 1, NEW j \in 0 .. k - 1
      PROVE  a * k + i < b * k + j
  <2>1. (a + 1) * k <= b * k
    BY <1>1, ScaleMonotone
  <2>2. (a + 1) * k = a * k + k
    OBVIOUS
  <2>3. a * k \in Int /\ b * k \in Int
    OBVIOUS
  <2> QED
    BY <2>1, <2>2, <2>3
<1>2. r * k \in Int /\ s * k \in Int
  OBVIOUS
<1>3. ~ (r < s) /\ ~ (s < r)
  BY <1>1, <1>2
<1> QED
  BY <1>2, <1>3

LEMMA RanksAreNumbers == Ranks \subseteq Nat
<1>1. Cardinality(Ranks) \in Nat
  BY RankAssumption, FS_CardinalityType
<1> QED
  BY <1>1, RankAssumption

\* The process of a communicator a rank is, and the rank a process is.
LEMMA IndexOfRank ==
  ASSUME NEW c \in Communicators, NEW i \in DOMAIN c
  PROVE  /\ c[i] \in members(c) /\ c[i] \in Ranks
         /\ localRank(c, c[i]) = i - 1
<1>1. /\ c[i] \in Ranks
      /\ \A j \in DOMAIN c : c[j] = c[i] => j = i
  BY DEF Communicators
<1>2. c[i] \in members(c)
  BY DEF members
<1> QED
  BY <1>1, <1>2 DEF localRank

\* Process 0 of a communicator is its first rank on every rank of the map.
LEMMA RootIsFirst ==
  ASSUME NEW c \in Communicators
  PROVE  /\ root(l2gmap(c)) = c[1]
         /\ c[1] \in members(c)
<1>1. PICK n \in 1 .. Cardinality(Ranks) : c \in [1 .. n -> Ranks]
  BY DEF Communicators
<1>2. n \in Nat /\ 1 \in DOMAIN c
  <2>1. Cardinality(Ranks) \in Nat
    BY RankAssumption, FS_CardinalityType
  <2> QED
    BY <1>1, <2>1
<1>3. c[1] \in members(c) /\ c[1] \in Ranks /\ localRank(c, c[1]) = 0
  BY <1>2, IndexOfRank
<1>4. ASSUME NEW r \in Ranks, localRank(c, r) = 0 PROVE r = c[1]
  <2>1. CASE r \in members(c)
    <3>1. PICK i \in DOMAIN c : r = c[i]
      BY <2>1 DEF members
    <3>2. i - 1 = 0 /\ i \in Int
      BY <1>1, <1>4, <3>1, IndexOfRank
    <3> QED
      BY <3>1, <3>2
  <2>2. CASE r \notin members(c)
    BY <1>4, <2>2 DEF localRank
  <2> QED
    BY <2>1, <2>2
<1>5. 0 \in DOMAIN l2gmap(c) /\ l2gmap(c)[0] = c[1]
  BY <1>3, <1>4 DEF l2gmap
<1> QED
  BY <1>3, <1>5 DEF root

-----------------------------------------------------------------------------
(***************************************************************************)
(* The invariant.                                                          *)
(***************************************************************************)
unnumbered == {"new", "sources", "targets", "sizes"}
applying   == {"ready", "source_dim", "target_dim", "import"}
phases     == unnumbered \cup {"search", "undefined", "maps"} \cup applying

MapTypes ==
  /\ source_comm \in Communicators /\ target_comm \in Communicators
  /\ phase \in [Ranks -> phases]
  /\ Counted
  /\ calls \in [Ranks -> Nat]
  /\ DOMAIN d_source_indexer = Ranks /\ DOMAIN d_target_indexer = Ranks
  /\ DOMAIN target_ordinals = Ranks
  /\ DOMAIN d_source_geometry = Ranks /\ DOMAIN d_target_coords = Ranks
  /\ DOMAIN d_source_to_target_importer = Ranks
  /\ DOMAIN d_missed_points = Ranks
  /\ DOMAIN source_vector = Ranks /\ DOMAIN target_field = Ranks
  /\ DOMAIN source_dim = Ranks /\ DOMAIN target_dim = Ranks

\* A rank is past a collective only if every rank has entered it.
PhasesInOrder ==
  \A r, s \in Ranks :
    /\ phase[r] \notin {"new", "sources"} => phase[s] # "new"
    /\ phase[r] \notin {"new", "sources", "targets"} =>
         phase[s] \notin {"new", "sources"}
    /\ phase[r] \notin unnumbered => phase[s] \notin {"new", "sources", "targets"}
    /\ phase[r] \in applying => phase[s] \in {"maps"} \cup applying

\* The indexers are those of the communicators, on every rank.
Indexed ==
  \A r \in Ranks :
    /\ phase[r] \notin {"new", "sources"} =>
         d_source_indexer[r] = l2gmap(source_comm)
    /\ phase[r] \notin {"new", "sources", "targets"} =>
         d_target_indexer[r] = l2gmap(target_comm)

\* The ordinals follow from the sizes of all ranks.
Numbered ==
  \A r \in Ranks :
    target_ordinals[r] = IF phase[r] \in unnumbered THEN noPoints
                                                    ELSE computePointOrdinals(r)

\* The search is for the points, and a rank goes on when it has returned.
PointsSearched ==
  \A r \in Ranks :
    /\ searches[r] > 0 =>
         phase[r] \notin unnumbered /\ DOMAIN range[r] = pointsOf(r)
    /\ phase[r] \in {"maps"} \cup applying => returned(r)

\* Each point found on a rank has a geometry there, and coordinates in it.
Mapping ==
  \A r \in Ranks : phase[r] \in {"maps"} \cup applying =>
    /\ DOMAIN d_source_geometry[r] = {ordinal(e) : e \in foundHere(r)}
    /\ \A e \in foundHere(r) :
         /\ <<d_source_geometry[r][ordinal(e)], e>> \in d_domain_to_range_map[r]
         /\ <<e, d_source_geometry[r][ordinal(e)], d_target_coords[r][ordinal(e)]>>
              \in d_parametric_coords[r]

Imports ==
  \A r \in Ranks : phase[r] \in applying =>
    isImporter(r, d_source_to_target_importer[r])

\* A rank has posted the evaluations of each of its calls.
evaluations(s, n) ==
  [o \in DOMAIN d_source_geometry[s] |->
     evaluate(d_source_geometry[s][o], d_target_coords[s][o], n)]

Posted ==
  \A s \in Ranks :
    /\ source_vector[s] = [n \in 1 .. calls[s] |-> evaluations(s, n)]
    /\ phase[s] \notin applying => calls[s] = 0
    /\ phase[s] \in applying \ {"ready"} => calls[s] > 0

Dimensions ==
  \A r \in Ranks :
    /\ phase[r] \in {"target_dim", "import"} =>
         source_dim[r] = FieldDims[calls[r]]
    /\ phase[r] = "import" => target_dim[r] = FieldDims[calls[r]]

\* What a rank holds after a call was posted by the ranks its importer names.
Imported ==
  \A r \in Ranks : isApplied(r) =>
    \A n \in DOMAIN target_ordinals[r] :
      LET o == target_ordinals[r][n] IN
      IF o \in DOMAIN d_source_to_target_importer[r]
      THEN target_field[r][n] =
             evaluations(d_source_to_target_importer[r][o], calls[r])[o]
      ELSE target_field[r][n] = zero

SetupInv == /\ MapTypes /\ PhasesInOrder /\ Indexed /\ Numbered
            /\ PointsSearched /\ CoordsTrue /\ Mapping
ApplyInv == Imports /\ Posted /\ Dimensions /\ Imported

-----------------------------------------------------------------------------
(***************************************************************************)
(* What the steps read and write.                                          *)
(***************************************************************************)
MapStep(r) == SetupStep(r) \/ ApplyStep(r)

LEMMA MapSearchStep ==
  ASSUME SearchInv, NEW r \in Ranks, MapStep(r)
  PROVE  SearchInv'
<1>1. [Next]_vars
  BY DEF MapStep, SetupStep, ApplyStep, BeginSetup, IndexSource, IndexTarget,
         NumberPoints, IterateSource, SearchPoints, BuildMapping, BuildImporter,
         Evaluate, ReceiveSourceDim, ReceiveTargetDim, ImportValues, Next
<1> QED
  BY <1>1, SearchInvStep

\* A rank goes through the phases one by one.
LEMMA PhaseStep ==
  ASSUME MapTypes, NEW r \in Ranks, MapStep(r)
  PROVE  /\ \A s \in Ranks \ {r} : phase'[s] = phase[s]
         /\ \/ BeginSetup(r) /\ phase[r] = "new" /\ phase'[r] = "sources"
            \/ IndexSource(r) /\ phase[r] = "sources" /\ phase'[r] = "targets"
            \/ IndexTarget(r) /\ phase[r] = "targets" /\ phase'[r] = "sizes"
            \/ NumberPoints(r) /\ phase[r] = "sizes" /\ phase'[r] = "search"
            \/ IterateSource(r) /\ phase[r] = "search" /\ phase'[r] = "undefined"
            \/ SearchPoints(r) /\ phase[r] = "search" /\ phase'[r] = "search"
            \/ BuildMapping(r) /\ phase[r] = "search" /\ phase'[r] = "maps"
            \/ BuildImporter(r) /\ phase[r] = "maps" /\ phase'[r] = "ready"
            \/ Evaluate(r) /\ phase[r] = "ready" /\ phase'[r] = "source_dim"
            \/ /\ ReceiveSourceDim(r) /\ phase[r] = "source_dim"
               /\ phase'[r] = "target_dim"
            \/ /\ ReceiveTargetDim(r) /\ phase[r] = "target_dim"
               /\ phase'[r] = "import"
            \/ ImportValues(r) /\ phase[r] = "import" /\ phase'[r] = "ready"
         /\ phase' \in [Ranks -> phases]
<1> USE DEF MapTypes, goOn, mapVars, phases, unnumbered, applying
<1>1. CASE BeginSetup(r)
  BY <1>1 DEF BeginSetup
<1>2. CASE IndexSource(r)
  BY <1>2 DEF IndexSource
<1>3. CASE IndexTarget(r)
  BY <1>3 DEF IndexTarget
<1>4. CASE NumberPoints(r)
  BY <1>4 DEF NumberPoints
<1>5. CASE IterateSource(r)
  BY <1>5 DEF IterateSource
<1>6. CASE SearchPoints(r)
  BY <1>6 DEF SearchPoints
<1>7. CASE BuildMapping(r)
  BY <1>7 DEF BuildMapping
<1>8. CASE BuildImporter(r)
  BY <1>8 DEF BuildImporter
<1>9. CASE Evaluate(r)
  BY <1>9 DEF Evaluate
<1>10. CASE ReceiveSourceDim(r)
  BY <1>10 DEF ReceiveSourceDim
<1>11. CASE ReceiveTargetDim(r)
  BY <1>11 DEF ReceiveTargetDim
<1>12. CASE ImportValues(r)
  BY <1>12 DEF ImportValues
<1> QED
  BY <1>1, <1>2, <1>3, <1>4, <1>5, <1>6, <1>7, <1>8, <1>9, <1>10, <1>11,
     <1>12 DEF MapStep, SetupStep, ApplyStep

\* Each variable is written by the steps named for it, at the rank's own place.
LEMMA VariablesKept ==
  ASSUME MapTypes, NEW r \in Ranks, MapStep(r)
  PROVE  /\ source_comm' = source_comm /\ target_comm' = target_comm
         /\ ~ SearchPoints(r) => UNCHANGED vars
         /\ ~ BeginSetup(r) => local_size' = local_size
         /\ ~ IndexSource(r) => d_source_indexer' = d_source_indexer
         /\ ~ IndexTarget(r) => d_target_indexer' = d_target_indexer
         /\ ~ NumberPoints(r) => target_ordinals' = target_ordinals
         /\ ~ BuildMapping(r) => /\ d_source_geometry' = d_source_geometry
                                 /\ d_target_coords' = d_target_coords
         /\ ~ BuildImporter(r) => /\ d_source_to_target_importer'
                                       = d_source_to_target_importer
                                  /\ d_missed_points' = d_missed_points
         /\ ~ Evaluate(r) => calls' = calls /\ source_vector' = source_vector
         /\ ~ (Evaluate(r) \/ ReceiveSourceDim(r)) => source_dim' = source_dim
         /\ ~ (ReceiveSourceDim(r) \/ ReceiveTargetDim(r)) =>
              target_dim' = target_dim
         /\ ~ (ReceiveTargetDim(r) \/ ImportValues(r)) =>
              target_field' = target_field
<1> USE DEF mapVars, inputMapVars, indexVars, mappingVars, transferVars
<1>1. CASE BeginSetup(r)
  BY <1>1 DEF BeginSetup
<1>2. CASE IndexSource(r)
  BY <1>2 DEF IndexSource
<1>3. CASE IndexTarget(r)
  BY <1>3 DEF IndexTarget
<1>4. CASE NumberPoints(r)
  BY <1>4 DEF NumberPoints
<1>5. CASE IterateSource(r)
  BY <1>5 DEF IterateSource
<1>6. CASE SearchPoints(r)
  BY <1>6 DEF SearchPoints
<1>7. CASE BuildMapping(r)
  BY <1>7 DEF BuildMapping
<1>8. CASE BuildImporter(r)
  BY <1>8 DEF BuildImporter
<1>9. CASE Evaluate(r)
  BY <1>9 DEF Evaluate
<1>10. CASE ReceiveSourceDim(r)
  BY <1>10 DEF ReceiveSourceDim
<1>11. CASE ReceiveTargetDim(r)
  BY <1>11 DEF ReceiveTargetDim
<1>12. CASE ImportValues(r)
  BY <1>12 DEF ImportValues
<1> QED
  BY <1>1, <1>2, <1>3, <1>4, <1>5, <1>6, <1>7, <1>8, <1>9, <1>10, <1>11,
     <1>12 DEF MapStep, SetupStep, ApplyStep

LEMMA OthersMapKept ==
  ASSUME MapTypes, NEW r \in Ranks, MapStep(r), NEW s \in Ranks, s # r
  PROVE  /\ d_source_indexer'[s] = d_source_indexer[s]
         /\ d_target_indexer'[s] = d_target_indexer[s]
         /\ target_ordinals'[s] = target_ordinals[s]
         /\ d_source_geometry'[s] = d_source_geometry[s]
         /\ d_target_coords'[s] = d_target_coords[s]
         /\ d_source_to_target_importer'[s] = d_source_to_target_importer[s]
         /\ calls'[s] = calls[s] /\ source_vector'[s] = source_vector[s]
         /\ source_dim'[s] = source_dim[s] /\ target_dim'[s] = target_dim[s]
         /\ target_field'[s] = target_field[s]
<1> USE DEF MapTypes, mapVars, inputMapVars, indexVars, mappingVars, transferVars
<1>1. CASE BeginSetup(r)
  BY <1>1 DEF BeginSetup
<1>2. CASE IndexSource(r)
  BY <1>2 DEF IndexSource
<1>3. CASE IndexTarget(r)
  BY <1>3 DEF IndexTarget
<1>4. CASE NumberPoints(r)
  BY <1>4 DEF NumberPoints
<1>5. CASE IterateSource(r)
  BY <1>5 DEF IterateSource
<1>6. CASE SearchPoints(r)
  BY <1>6 DEF SearchPoints
<1>7. CASE BuildMapping(r)
  BY <1>7 DEF BuildMapping
<1>8. CASE BuildImporter(r)
  BY <1>8 DEF BuildImporter
<1>9. CASE Evaluate(r)
  BY <1>9 DEF Evaluate
<1>10. CASE ReceiveSourceDim(r)
  BY <1>10 DEF ReceiveSourceDim
<1>11. CASE ReceiveTargetDim(r)
  BY <1>11 DEF ReceiveTargetDim
<1>12. CASE ImportValues(r)
  BY <1>12 DEF ImportValues
<1> QED
  BY <1>1, <1>2, <1>3, <1>4, <1>5, <1>6, <1>7, <1>8, <1>9, <1>10, <1>11,
     <1>12 DEF MapStep, SetupStep, ApplyStep

LEMMA MapTypesStep ==
  ASSUME MapTypes, NEW r \in Ranks, MapStep(r)
  PROVE  MapTypes'
<1> USE DEF MapTypes
<1>1. phase' \in [Ranks -> phases]
  BY PhaseStep
<1>2. Counted'
  <2>1. CASE BeginSetup(r)
    <3>1. PICK n \in 0 .. MaxPoints : local_size' = [local_size EXCEPT ![r] = n]
      <4>1. 0 \in 0 .. MaxPoints
        BY PointAssumption
      <4> QED
        BY <2>1, <4>1 DEF BeginSetup
    <3> QED
      BY <3>1 DEF Counted
  <2>2. CASE ~ BeginSetup(r)
    BY <2>2, VariablesKept DEF Counted
  <2> QED
    BY <2>1, <2>2
<1>3. calls' \in [Ranks -> Nat]
  <2>1. CASE Evaluate(r)
    BY <2>1 DEF Evaluate
  <2>2. CASE ~ Evaluate(r)
    BY <2>2, VariablesKept
  <2> QED
    BY <2>1, <2>2
<1>4. /\ DOMAIN d_source_indexer' = Ranks /\ DOMAIN d_target_indexer' = Ranks
      /\ DOMAIN target_ordinals' = Ranks
  <2>1. DOMAIN d_source_indexer' = Ranks
    BY VariablesKept DEF IndexSource
  <2>2. DOMAIN d_target_indexer' = Ranks
    BY VariablesKept DEF IndexTarget
  <2>3. DOMAIN target_ordinals' = Ranks
    BY VariablesKept DEF NumberPoints
  <2> QED
    BY <2>1, <2>2, <2>3
<1>5. /\ DOMAIN d_source_geometry' = Ranks /\ DOMAIN d_target_coords' = Ranks
      /\ DOMAIN d_source_to_target_importer' = Ranks
      /\ DOMAIN d_missed_points' = Ranks
  <2>1. DOMAIN d_source_geometry' = Ranks /\ DOMAIN d_target_coords' = Ranks
    BY VariablesKept DEF BuildMapping
  <2>2. /\ DOMAIN d_source_to_target_importer' = Ranks
        /\ DOMAIN d_missed_points' = Ranks
    BY VariablesKept DEF BuildImporter
  <2> QED
    BY <2>1, <2>2
<1>6. DOMAIN source_vector' = Ranks /\ DOMAIN target_field' = Ranks
  <2>1. DOMAIN source_vector' = Ranks
    BY VariablesKept DEF Evaluate
  <2>2. DOMAIN target_field' = Ranks
    BY VariablesKept DEF ReceiveTargetDim, ImportValues
  <2> QED
    BY <2>1, <2>2
<1>7. DOMAIN source_dim' = Ranks /\ DOMAIN target_dim' = Ranks
  <2>1. DOMAIN source_dim' = Ranks
    BY VariablesKept DEF Evaluate, ReceiveSourceDim
  <2>2. DOMAIN target_dim' = Ranks
    BY VariablesKept DEF ReceiveSourceDim, ReceiveTargetDim
  <2> QED
    BY <2>1, <2>2
<1> QED
  BY <1>1, <1>2, <1>3, <1>4, <1>5, <1>6, <1>7, VariablesKept

LEMMA PhasesInOrderStep ==
  ASSUME MapTypes, PhasesInOrder, NEW r \in Ranks, MapStep(r)
  PROVE  PhasesInOrder'
<1> USE DEF unnumbered, applying, phases
<1>1. /\ phase[r] = "sources" /\ phase'[r] = "targets" =>
           \A s \in Ranks : phase[s] # "new"
      /\ phase[r] = "targets" /\ phase'[r] = "sizes" =>
           \A s \in Ranks : phase[s] \notin {"new", "sources"}
      /\ phase[r] = "sizes" /\ phase'[r] = "search" =>
           \A s \in Ranks : phase[s] \notin {"new", "sources", "targets"}
      /\ phase[r] = "maps" /\ phase'[r] = "ready" =>
           \A s \in Ranks : phase[s] \in {"maps"} \cup applying
  BY PhaseStep DEF IndexSource, IndexTarget, NumberPoints, BuildImporter, allPast,
                   MapTypes
<1> SUFFICES ASSUME NEW p \in Ranks, NEW s \in Ranks
             PROVE  PhasesInOrder!(p, s)'
  BY DEF PhasesInOrder
<1>2. PhasesInOrder!(p, s)
  BY DEF PhasesInOrder
<1>3. phase[p] \in phases /\ phase[s] \in phases
  BY DEF MapTypes
<1> QED
  BY <1>1, <1>2, <1>3, PhaseStep

LEMMA IndexedStep ==
  ASSUME MapTypes, Indexed, NEW r \in Ranks, MapStep(r)
  PROVE  Indexed'
<1> SUFFICES ASSUME NEW s \in Ranks PROVE Indexed!(s)'
  BY DEF Indexed
<1> USE DEF Indexed
<1>1. source_comm' = source_comm /\ target_comm' = target_comm
  BY VariablesKept
<1>2. l2gmap(source_comm)' = l2gmap(source_comm)
      /\ l2gmap(target_comm)' = l2gmap(target_comm)
  BY <1>1
<1>3. CASE s # r
  BY <1>2, <1>3, PhaseStep, OthersMapKept
<1>4. CASE s = r /\ IndexSource(r)
  BY <1>2, <1>4 DEF IndexSource, MapTypes, goOn
<1>5. CASE s = r /\ IndexTarget(r)
  <2>1. /\ d_target_indexer'[r] = l2gmap(target_comm)
        /\ d_source_indexer' = d_source_indexer
        /\ phase[r] = "targets"
    BY <1>5, VariablesKept, PhaseStep DEF IndexTarget, MapTypes
  <2> QED
    BY <1>2, <1>5, <2>1
<1>6. CASE s = r /\ ~ IndexSource(r) /\ ~ IndexTarget(r)
  <2>1. /\ d_target_indexer' = d_target_indexer
        /\ d_source_indexer' = d_source_indexer
    BY <1>6, VariablesKept
  <2> QED
    BY <1>2, <1>6, <2>1, PhaseStep
<1> QED
  BY <1>3, <1>4, <1>5, <1>6

-----------------------------------------------------------------------------
(***************************************************************************)
(* The numbers of the points and the search for them.                      *)
(***************************************************************************)
LEMMA NumberedStep ==
  ASSUME MapTypes, PhasesInOrder, Numbered, NEW r \in Ranks, MapStep(r)
  PROVE  Numbered'
<1> SUFFICES ASSUME NEW s \in Ranks PROVE Numbered!(s)'
  BY DEF Numbered
<1> USE DEF unnumbered
<1>1. ASSUME local_size' = local_size
      PROVE  computePointOrdinals(s)' = computePointOrdinals(s)
  BY <1>1 DEF computePointOrdinals, globalMax
<1>2. CASE s = r /\ NumberPoints(r)
  <2>1. /\ target_ordinals'[r] = computePointOrdinals(r)
        /\ local_size' = local_size /\ phase'[r] = "search"
    BY <1>2, PhaseStep, VariablesKept DEF NumberPoints, MapTypes
  <2> QED
    BY <1>1, <1>2, <2>1
<1>3. CASE s # r \/ ~ NumberPoints(r)
  <2>1. /\ target_ordinals'[s] = target_ordinals[s]
        /\ phase'[s] \in unnumbered <=> phase[s] \in unnumbered
    BY <1>3, PhaseStep, VariablesKept, OthersMapKept
  <2>2. CASE phase[s] \in unnumbered
    BY <2>1, <2>2 DEF Numbered
  <2>3. CASE phase[s] \notin unnumbered
    <3>1. phase[r] # "new"
      BY <2>3 DEF PhasesInOrder
    <3>2. local_size' = local_size
      BY <3>1, VariablesKept DEF BeginSetup
    <3> QED
      BY <1>1, <2>1, <2>3, <3>2 DEF Numbered
  <2> QED
    BY <2>2, <2>3
<1> QED
  BY <1>2, <1>3

\* Ordinals tell the points apart, and are defined for points of ranks that
\* have numbered them.
LEMMA OrdinalsDiffer ==
  ASSUME MapTypes, Numbered, NEW r \in Ranks, NEW s \in Ranks,
         NEW m \in DOMAIN target_ordinals[r], NEW n \in DOMAIN target_ordinals[s],
         target_ordinals[r][m] = target_ordinals[s][n]
  PROVE  r = s /\ m = n
<1>1. /\ target_ordinals[r] = computePointOrdinals(r)
      /\ target_ordinals[s] = computePointOrdinals(s)
  BY DEF Numbered, noPoints
<1>2. /\ globalMax \in Nat
      /\ local_size[r] <= globalMax /\ local_size[s] <= globalMax
      /\ local_size[r] \in Nat /\ local_size[s] \in Nat
  BY GreatestSize, PointAssumption DEF MapTypes, Counted
<1>3. m \in 0 .. globalMax - 1 /\ n \in 0 .. globalMax - 1
  BY <1>1, <1>2 DEF computePointOrdinals
<1>4. r * globalMax + m = s * globalMax + n
  BY <1>1 DEF computePointOrdinals
<1> QED
  BY <1>2, <1>3, <1>4, RanksAreNumbers, OrdinalsApart

\* A rank's part of the search is written by its own steps of the search.
LEMMA SearchKept ==
  ASSUME SearchInv, MapTypes, NEW r \in Ranks, MapStep(r),
         NEW s \in Ranks, s # r \/ ~ SearchPoints(r)
  PROVE  /\ pc'[s] = pc[s] /\ searches'[s] = searches[s]
         /\ domain'[s] = domain[s] /\ range'[s] = range[s]
         /\ d_domain_to_range_map'[s] = d_domain_to_range_map[s]
         /\ d_range_to_domain_map'[s] = d_range_to_domain_map[s]
         /\ d_parametric_coords'[s] = d_parametric_coords[s]
<1>1. CASE SearchPoints(r)
  <2>1. s # r /\ Step(r)
    BY <1>1 DEF SearchPoints
  <2> QED
    BY <2>1, OthersKeep, StepOfRank DEF SearchInv
<1>2. CASE ~ SearchPoints(r)
  BY <1>2, VariablesKept DEF vars, callVars, inputVars, domainVars, rangeVars
<1> QED
  BY <1>1, <1>2

LEMMA PointsSearchedStep ==
  ASSUME SearchInv, SetupInv, NEW r \in Ranks, MapStep(r)
  PROVE  PointsSearched'
<1> USE DEF SetupInv
<1> SUFFICES ASSUME NEW s \in Ranks PROVE PointsSearched!(s)'
  BY DEF PointsSearched
<1> USE DEF unnumbered, applying
<1>1. CASE s = r /\ SearchPoints(r)
  <2>1. /\ phase[r] = "search" /\ phase'[r] = "search"
        /\ target_ordinals' = target_ordinals
        /\ (searches'[r] > 0 => DOMAIN range'[r] = pointsOf(r))
    BY <1>1 DEF SearchPoints, mapVars, indexVars
  <2>2. pointsOf(r)' = pointsOf(r)
    BY <2>1 DEF pointsOf
  <2> QED
    BY <1>1, <2>1, <2>2
<1>2. CASE s # r \/ ~ SearchPoints(r)
  <2>1. /\ searches'[s] = searches[s] /\ range'[s] = range[s]
        /\ returned(s)' = returned(s)
    BY <1>2, SearchKept DEF returned
  <2>2. ASSUME phase[s] \notin unnumbered PROVE pointsOf(s)' = pointsOf(s)
    <3>1. s # r \/ ~ NumberPoints(r)
      BY <2>2 DEF NumberPoints
    <3>2. target_ordinals'[s] = target_ordinals[s]
      BY <3>1, VariablesKept, OthersMapKept
    <3> QED
      BY <3>2 DEF pointsOf
  <2>3. BuildMapping(r) => returned(r)
    BY DEF BuildMapping
  <2>4. PointsSearched!(s)
    BY DEF PointsSearched
  <2> QED
    BY <2>1, <2>2, <2>3, <2>4, PhaseStep
<1> QED
  BY <1>1, <1>2

LEMMA CoordsTrueStep ==
  ASSUME SearchInv, SetupInv, NEW r \in Ranks, MapStep(r)
  PROVE  CoordsTrue'
<1>1. CASE SearchPoints(r)
  <2>1. Step(r)
    BY <1>1 DEF SearchPoints
  <2> QED
    BY <2>1, CoordsOfSearch, MapAssumption DEF SetupInv
<1>2. CASE ~ SearchPoints(r)
  <2>1. UNCHANGED <<domain, range, d_parametric_coords, searches>>
    BY <1>2, VariablesKept DEF SetupInv, vars, inputVars, domainVars
  <2> QED
    BY <2>1 DEF SetupInv, CoordsTrue
<1> QED
  BY <1>1, <1>2

-----------------------------------------------------------------------------
(***************************************************************************)
(* The mapping.                                                            *)
(***************************************************************************)

\* When one rank has returned from the search every rank is in it, or through.
LEMMA AllSearch ==
  ASSUME SearchInv, SetupInv, NEW s \in Ranks, returned(s), NEW q \in Ranks
  PROVE  searches[q] = searches[s] /\ phase[q] \notin unnumbered
<1>1. localSearches(q) = searches[s] /\ searches[s] = 1
  BY OthersSearched, OneSearch, MapAssumption
<1>2. searches[q] \in 0 .. 1
  BY MapAssumption DEF SearchInv, TypeOK
<1>3. searches[q] = 1
  BY <1>1, <1>2 DEF localSearches
<1> QED
  BY <1>1, <1>3 DEF SetupInv, PointsSearched

\* What is found on a rank are points, with ordinals.
LEMMA FoundArePoints ==
  ASSUME SearchInv, SetupInv, NEW r \in Ranks, returned(r),
         NEW e \in foundHere(r)
  PROVE  /\ e \in RangeEntities /\ e[1] \in Ranks /\ e = <<e[1], e[2]>>
         /\ RangeOwner[e] = e[1]
         /\ e[2] \in DOMAIN target_ordinals[e[1]]
<1>1. PICK x \in d_domain_to_range_map[r] : e = x[2]
  BY DEF foundHere
<1>2. x \in DomainEntities \X RangeEntities
  BY <1>1 DEF SearchInv, TypeOK
<1>3. /\ e \in RangeEntities /\ e[1] \in Ranks /\ e = <<e[1], e[2]>>
      /\ RangeOwner[e] = e[1] /\ <<x[1], e>> \in d_domain_to_range_map[r]
      /\ x[1] \in DomainEntities
  BY <1>1, <1>2, PointAssumption
<1>4. searches[e[1]] = searches[r] /\ searched(r) /\ searches[e[1]] > 0
  BY <1>3, AllSearch, OneSearch, MapAssumption
<1>5. isIn(e, e[1], x[1], r)
  BY <1>3, <1>4, InvIsSound DEF SearchSound
<1>6. DOMAIN range[e[1]] = pointsOf(e[1])
  BY <1>3, <1>4 DEF SetupInv, PointsSearched
<1>7. e \in pointsOf(e[1])
  BY <1>5, <1>6 DEF isIn
<1> QED
  BY <1>3, <1>7 DEF pointsOf

\* The ordinal of a point is its own.
LEMMA OrdinalOfPoint ==
  ASSUME SearchInv, SetupInv, NEW r \in Ranks, returned(r), NEW e \in foundHere(r),
         NEW q \in Ranks, NEW n \in DOMAIN target_ordinals[q],
         ordinal(e) = target_ordinals[q][n]
  PROVE  e = <<q, n>>
<1>1. /\ e[1] \in Ranks /\ e = <<e[1], e[2]>>
      /\ e[2] \in DOMAIN target_ordinals[e[1]]
  BY FoundArePoints
<1>2. e[1] = q /\ e[2] = n
  BY <1>1, OrdinalsDiffer DEF ordinal, SetupInv
<1> QED
  BY <1>1, <1>2

\* Once a rank is through with the search its mapping and all ordinals are
\* settled.
LEMMA Settled ==
  ASSUME SearchInv, SetupInv, NEW r \in Ranks, MapStep(r),
         NEW s \in Ranks, phase[s] \in {"maps"} \cup applying
  PROVE  /\ target_ordinals' = target_ordinals
         /\ foundHere(s)' = foundHere(s) /\ returned(s)
         /\ d_domain_to_range_map'[s] = d_domain_to_range_map[s]
         /\ d_parametric_coords'[s] = d_parametric_coords[s]
         /\ d_source_geometry'[s] = d_source_geometry[s]
         /\ d_target_coords'[s] = d_target_coords[s]
         /\ phase'[s] \in {"maps"} \cup applying
<1> USE DEF applying, SetupInv
<1>1. returned(s)
  BY DEF PointsSearched
<1>2. ~ NumberPoints(r)
  BY <1>1, AllSearch DEF NumberPoints, unnumbered
<1>3. s # r \/ ~ (SearchPoints(r) \/ BuildMapping(r))
  BY DEF SearchPoints, BuildMapping
<1>4. /\ d_domain_to_range_map'[s] = d_domain_to_range_map[s]
      /\ d_parametric_coords'[s] = d_parametric_coords[s]
  BY <1>3, SearchKept
<1>5. /\ d_source_geometry'[s] = d_source_geometry[s]
      /\ d_target_coords'[s] = d_target_coords[s]
  BY <1>3, VariablesKept, OthersMapKept
<1>6. phase'[s] \in {"maps"} \cup applying
  BY PhaseStep
<1> QED
  BY <1>1, <1>2, <1>4, <1>5, <1>6, VariablesKept DEF foundHere

LEMMA MappingStep ==
  ASSUME SearchInv, SetupInv, NEW r \in Ranks, MapStep(r)
  PROVE  Mapping'
<1> USE DEF SetupInv
<1> SUFFICES ASSUME NEW s \in Ranks, phase'[s] \in {"maps"} \cup applying
             PROVE  Mapping!(s)!2'
  BY DEF Mapping
<1>1. CASE phase[s] \in {"maps"} \cup applying
  <2>1. Mapping!(s)!2
    BY <1>1 DEF Mapping
  <2>2. \A e : ordinal(e)' = ordinal(e)
    BY <1>1, Settled DEF ordinal
  <2> QED
    BY <1>1, <2>1, <2>2, Settled
<1>2. CASE phase[s] \notin {"maps"} \cup applying
  <2>1. s = r /\ BuildMapping(r)
    BY <1>2, PhaseStep DEF applying
  <2> DEFINE F == foundHere(r)
             O == {ordinal(e) : e \in F}
             of(o) == CHOOSE e \in F : ordinal(e) = o
  <2>2. PICK geometry \in [F -> DomainEntities],
             coords \in [F -> {x[3] : x \in d_parametric_coords[r]}] :
          /\ \A e \in F : /\ <<geometry[e], e>> \in d_domain_to_range_map[r]
                          /\ coordinateIn(r, e, geometry[e], coords[e])
          /\ d_source_geometry' = [d_source_geometry EXCEPT ![r] =
                                     [o \in O |-> geometry[of(o)]]]
          /\ d_target_coords' = [d_target_coords EXCEPT ![r] =
                                   [o \in O |-> coords[of(o)]]]
    BY <2>1 DEF BuildMapping
  <2>3. returned(r)
    BY <2>1 DEF BuildMapping
  <2>4. ASSUME NEW e \in F PROVE of(ordinal(e)) = e
    <3>1. of(ordinal(e)) \in F /\ ordinal(of(ordinal(e))) = ordinal(e)
      OBVIOUS
    <3>2. /\ e[1] \in Ranks /\ e = <<e[1], e[2]>>
          /\ e[2] \in DOMAIN target_ordinals[e[1]]
      BY <2>3, FoundArePoints
    <3>3. ordinal(e) = target_ordinals[e[1]][e[2]]
      BY DEF ordinal
    <3> HIDE DEF of
    <3> QED
      BY <2>3, <3>1, <3>2, <3>3, OrdinalOfPoint
  <2>5. /\ d_source_geometry'[r] = [o \in O |-> geometry[of(o)]]
        /\ d_target_coords'[r] = [o \in O |-> coords[of(o)]]
    BY <2>2 DEF MapTypes
  <2>6. ASSUME NEW e \in F
        PROVE  /\ d_source_geometry'[r][ordinal(e)] = geometry[e]
               /\ d_target_coords'[r][ordinal(e)] = coords[e]
    <3>1. ordinal(e) \in O /\ of(ordinal(e)) = e
      BY <2>4
    <3> HIDE DEF O, of
    <3> QED
      BY <2>5, <3>1
  <2>7. /\ target_ordinals' = target_ordinals
        /\ d_domain_to_range_map' = d_domain_to_range_map
        /\ d_parametric_coords' = d_parametric_coords
    <3>1. UNCHANGED vars
      BY <2>1 DEF BuildMapping
    <3> QED
      BY <2>1, <3>1 DEF vars, domainVars, BuildMapping, indexVars
  <2>8. foundHere(r)' = F /\ \A e : ordinal(e)' = ordinal(e)
    BY <2>7 DEF foundHere, ordinal
  <2>9. DOMAIN d_source_geometry'[r] = O
    BY <2>5
  <2>10. \A e \in F :
           /\ <<d_source_geometry'[r][ordinal(e)], e>> \in d_domain_to_range_map[r]
           /\ <<e, d_source_geometry'[r][ordinal(e)],
                 d_target_coords'[r][ordinal(e)]>> \in d_parametric_coords[r]
    BY <2>2, <2>6 DEF coordinateIn
  <2> HIDE DEF F, of
  <2> QED
    BY <2>1, <2>7, <2>8, <2>9, <2>10
<1> QED
  BY <1>1, <1>2

LEMMA SetupInvStep ==
  ASSUME SearchInv, SetupInv, NEW r \in Ranks, MapStep(r)
  PROVE  SetupInv'
BY MapTypesStep, PhasesInOrderStep, IndexedStep, NumberedStep,
   PointsSearchedStep, CoordsTrueStep, MappingStep DEF SetupInv

-----------------------------------------------------------------------------
(***************************************************************************)
(* apply().                                                                *)
(***************************************************************************)

\* Once one rank has its importer the mappings of all ranks are settled.
LEMMA AllSettled ==
  ASSUME SearchInv, SetupInv, NEW r \in Ranks, MapStep(r),
         NEW p \in Ranks, phase[p] \in applying
  PROVE  /\ target_ordinals' = target_ordinals
         /\ \A s \in Ranks :
              /\ d_source_geometry'[s] = d_source_geometry[s]
              /\ d_target_coords'[s] = d_target_coords[s]
              /\ \A n : evaluations(s, n)' = evaluations(s, n)
         /\ \A o : sourceRanks(o)' = sourceRanks(o)
         /\ \A s \in Ranks : ordinalsOf(s)' = ordinalsOf(s)
<1>1. \A s \in Ranks : phase[s] \in {"maps"} \cup applying
  BY DEF SetupInv, PhasesInOrder
<1>2. /\ target_ordinals' = target_ordinals
      /\ \A s \in Ranks : /\ d_source_geometry'[s] = d_source_geometry[s]
                          /\ d_target_coords'[s] = d_target_coords[s]
  BY <1>1, Settled
<1>3. \A s \in Ranks : \A n : evaluations(s, n)' = evaluations(s, n)
  BY <1>2 DEF evaluations, evaluate
<1>4. \A o : sourceRanks(o)' = sourceRanks(o)
  BY <1>2 DEF sourceRanks
<1>5. \A s \in Ranks : ordinalsOf(s)' = ordinalsOf(s)
  BY <1>2 DEF ordinalsOf
<1> QED
  BY <1>2, <1>3, <1>4, <1>5

LEMMA ImportsStep ==
  ASSUME SearchInv, SetupInv, Imports, NEW r \in Ranks, MapStep(r)
  PROVE  Imports'
<1> SUFFICES ASSUME NEW s \in Ranks, phase'[s] \in applying
             PROVE  isImporter(s, d_source_to_target_importer[s])'
  BY DEF Imports
<1>1. CASE s = r /\ BuildImporter(r)
  <2>1. PICK importer : /\ isImporter(r, importer)
                        /\ d_source_to_target_importer' =
                             [d_source_to_target_importer EXCEPT ![r] = importer]
    BY <1>1 DEF BuildImporter
  <2>2. d_source_to_target_importer'[r] = importer
    BY <2>1 DEF SetupInv, MapTypes
  <2>3. /\ target_ordinals' = target_ordinals
        /\ d_source_geometry' = d_source_geometry
    BY <1>1 DEF BuildImporter, indexVars
  <2>4. /\ ordinalsOf(r)' = ordinalsOf(r)
        /\ \A o : sourceRanks(o)' = sourceRanks(o)
    BY <2>3 DEF ordinalsOf, sourceRanks
  <2> QED
    BY <1>1, <2>1, <2>2, <2>4 DEF isImporter
<1>2. CASE s # r \/ ~ BuildImporter(r)
  <2>1. phase[s] \in applying
    BY <1>2, PhaseStep DEF SetupInv, applying
  <2>2. d_source_to_target_importer'[s] = d_source_to_target_importer[s]
    BY <1>2, VariablesKept, OthersMapKept DEF SetupInv
  <2>3. isImporter(s, d_source_to_target_importer[s])
    BY <2>1 DEF Imports
  <2> QED
    BY <2>1, <2>2, <2>3, AllSettled DEF isImporter
<1> QED
  BY <1>1, <1>2

\* Appending the next value of a function to its first ones.
LEMMA AppendNext ==
  ASSUME NEW f, f = [n \in Nat |-> f[n]], NEW c \in Nat
  PROVE  Append([n \in 1 .. c |-> f[n]], f[c + 1]) = [n \in 1 .. c + 1 |-> f[n]]
<1> DEFINE S == {f[n] : n \in Nat}
           old == [n \in 1 .. c |-> f[n]]
           new == [n \in 1 .. c + 1 |-> f[n]]
<1>1. old \in Seq(S) /\ Len(old) = c
  <2>1. old \in [1 .. c -> S]
    OBVIOUS
  <2>2. old \in Seq(S)
    BY <2>1, SeqDef
  <2>3. DOMAIN old = 1 .. c /\ DOMAIN old = 1 .. Len(old) /\ Len(old) \in Nat
    BY <2>1, <2>2, LenProperties
  <2> QED
    BY <2>2, <2>3
<1>2. Append(old, f[c + 1])
        = [i \in 1 .. c + 1 |-> IF i <= c THEN old[i] ELSE f[c + 1]]
  BY <1>1
<1>3. \A i \in 1 .. c + 1 : (IF i <= c THEN old[i] ELSE f[c + 1]) = new[i]
  OBVIOUS
<1> QED
  BY <1>2, <1>3

LEMMA PostedStep ==
  ASSUME SearchInv, SetupInv, Posted, NEW r \in Ranks, MapStep(r)
  PROVE  Posted'
<1> USE DEF SetupInv
<1> SUFFICES ASSUME NEW s \in Ranks PROVE Posted!(s)'
  BY DEF Posted
<1>1. Posted!(s) /\ calls[s] \in Nat
  BY DEF Posted, MapTypes
<1>2. CASE s = r /\ Evaluate(r)
  <2> DEFINE f == [n \in Nat |-> evaluations(r, n)]
             c == calls[r]
  <2>1. /\ phase[r] = "ready" /\ phase'[r] = "source_dim"
        /\ calls'[r] = c + 1
        /\ source_vector'[r] = Append(source_vector[r], evaluations(r, c + 1))
        /\ d_source_geometry' = d_source_geometry
        /\ d_target_coords' = d_target_coords
    <3>1. phase[r] = "ready" /\ phase'[r] = "source_dim"
      BY <1>2, PhaseStep DEF Evaluate
    <3>2. calls'[r] = c + 1
      BY <1>2 DEF Evaluate, MapTypes
    <3>3. source_vector'[r] = Append(source_vector[r], evaluations(r, c + 1))
      BY <1>2 DEF Evaluate, MapTypes, evaluations
    <3>4. /\ d_source_geometry' = d_source_geometry
          /\ d_target_coords' = d_target_coords
      BY <1>2 DEF Evaluate, mappingVars
    <3> QED
      BY <3>1, <3>2, <3>3, <3>4
  <2>2. c \in Nat
    BY <1>1, <1>2
  <2>3. source_vector[r] = [n \in 1 .. c |-> f[n]]
    <3>1. source_vector[r] = [n \in 1 .. c |-> evaluations(r, n)]
      BY <1>1, <1>2
    <3>2. \A n \in 1 .. c : f[n] = evaluations(r, n)
      BY <2>2
    <3> HIDE DEF f, c
    <3> QED
      BY <3>1, <3>2
  <2>4. evaluations(r, c + 1) = f[c + 1]
    BY <2>2
  <2>5. Append([n \in 1 .. c |-> f[n]], f[c + 1]) = [n \in 1 .. c + 1 |-> f[n]]
    <3>1. f = [n \in Nat |-> f[n]]
      OBVIOUS
    <3> HIDE DEF f
    <3> QED
      BY <2>2, <3>1, AppendNext
  <2>6. source_vector'[r] = [n \in 1 .. c + 1 |-> f[n]]
    BY <2>1, <2>3, <2>4, <2>5
  <2>7. \A n : evaluations(r, n)' = evaluations(r, n)
    BY <2>1 DEF evaluations, evaluate
  <2>8. source_vector'[r] = [n \in 1 .. calls'[r] |-> evaluations(r, n)']
    <3>1. \A n \in 1 .. c + 1 : f[n] = evaluations(r, n)'
      BY <2>2, <2>7
    <3> QED
      BY <2>1, <2>6, <3>1
  <2> QED
    BY <1>2, <2>1, <2>2, <2>8 DEF applying
<1>3. CASE s # r \/ ~ Evaluate(r)
  <2>1. calls'[s] = calls[s] /\ source_vector'[s] = source_vector[s]
    BY <1>3, VariablesKept, OthersMapKept
  <2>2. /\ phase[s] \in applying => phase'[s] \in applying
        /\ phase'[s] \in applying \ {"ready"} => phase[s] \in applying \ {"ready"}
    BY <1>3, PhaseStep DEF applying
  <2>3. CASE phase[s] \in applying
    BY <1>1, <2>1, <2>2, <2>3, AllSettled
  <2>4. CASE phase[s] \notin applying
    <3>1. calls[s] = 0 /\ 1 .. calls[s] = {}
      BY <1>1, <2>4
    <3> QED
      BY <1>1, <2>1, <2>2, <2>4, <3>1
  <2> QED
    BY <2>3, <2>4
<1> QED
  BY <1>2, <1>3

LEMMA DimensionsStep ==
  ASSUME SearchInv, SetupInv, Posted, Dimensions, NEW r \in Ranks, MapStep(r)
  PROVE  Dimensions'
<1> USE DEF SetupInv
<1> SUFFICES ASSUME NEW s \in Ranks PROVE Dimensions!(s)'
  BY DEF Dimensions
<1>1. CASE s = r /\ ReceiveSourceDim(r)
  <2>1. /\ source_dim'[r] = dimSent(source_comm, root(d_source_indexer[r]), calls[r])
        /\ calls' = calls /\ phase[r] = "source_dim" /\ phase'[r] = "target_dim"
    BY <1>1, PhaseStep, VariablesKept DEF ReceiveSourceDim, MapTypes, Evaluate
  <2>2. d_source_indexer[r] = l2gmap(source_comm)
    BY <2>1 DEF Indexed
  <2> QED
    BY <1>1, <2>1, <2>2, RootIsFirst DEF dimSent, MapTypes
<1>2. CASE s = r /\ ReceiveTargetDim(r)
  <2>1. /\ target_dim'[r] = dimSent(target_comm, root(d_target_indexer[r]), calls[r])
        /\ calls' = calls /\ source_dim' = source_dim
        /\ phase[r] = "target_dim" /\ phase'[r] = "import"
    BY <1>2, PhaseStep, VariablesKept
    DEF ReceiveTargetDim, MapTypes, Evaluate, ReceiveSourceDim
  <2>2. d_target_indexer[r] = l2gmap(target_comm)
    BY <2>1 DEF Indexed
  <2> QED
    BY <1>2, <2>1, <2>2, RootIsFirst DEF dimSent, MapTypes, Dimensions
<1>3. CASE s # r \/ ~ (ReceiveSourceDim(r) \/ ReceiveTargetDim(r))
  <2>1. phase'[s] \in {"target_dim", "import"} => phase[s] = phase'[s]
    BY <1>3, PhaseStep
  <2>2. phase'[s] \in {"target_dim", "import"} => s # r \/ ~ Evaluate(r)
    BY <2>1 DEF Evaluate
  <2>3. phase'[s] \in {"target_dim", "import"} =>
          /\ calls'[s] = calls[s]
          /\ source_dim'[s] = source_dim[s] /\ target_dim'[s] = target_dim[s]
    BY <1>3, <2>2, VariablesKept, OthersMapKept
  <2> QED
    BY <2>1, <2>3 DEF Dimensions
<1> QED
  BY <1>1, <1>2, <1>3

LEMMA ImportedStep ==
  ASSUME SearchInv, SetupInv, ApplyInv, NEW r \in Ranks, MapStep(r)
  PROVE  Imported'
<1> USE DEF SetupInv, ApplyInv
<1> SUFFICES ASSUME NEW s \in Ranks, isApplied(s)',
                    NEW n \in DOMAIN target_ordinals'[s]
             PROVE  Imported!(s)!2!(n)'
  BY DEF Imported
<1>1. phase'[s] = "ready" /\ calls'[s] > 0
  BY DEF isApplied
<1>2. ~ (s = r /\ (BuildImporter(r) \/ Evaluate(r)))
  <2>1. CASE s = r /\ BuildImporter(r)
    <3>1. phase[r] = "maps" /\ calls' = calls
      BY <2>1 DEF BuildImporter, transferVars
    <3>2. phase[r] \notin applying
      BY <3>1 DEF applying
    <3>3. calls[r] = 0
      BY <3>2 DEF Posted
    <3> QED
      BY <1>1, <2>1, <3>1, <3>3
  <2>2. CASE s = r /\ Evaluate(r)
    BY <1>1, <2>2, PhaseStep DEF Evaluate
  <2> QED
    BY <2>1, <2>2
<1>3. phase[s] \in applying
  BY <1>1, <1>2, PhaseStep DEF applying
<1>4. /\ target_ordinals' = target_ordinals
      /\ \A q \in Ranks : \A k : evaluations(q, k)' = evaluations(q, k)
  BY <1>3, AllSettled
<1>5. /\ calls'[s] = calls[s]
      /\ d_source_to_target_importer'[s] = d_source_to_target_importer[s]
  BY <1>2, VariablesKept, OthersMapKept
<1> DEFINE o == target_ordinals[s][n]
           importer == d_source_to_target_importer[s]
<1>6. isImporter(s, importer)
  BY <1>3 DEF Imports
<1>7. o \in DOMAIN importer => importer[o] \in Ranks
  BY <1>6 DEF isImporter, sourceRanks
<1>8. CASE s = r /\ ImportValues(r)
  <2>1. target_field'[r][n] = IF o \in DOMAIN importer THEN importedValue(r, o)
                                                       ELSE zero
    BY <1>4, <1>8 DEF ImportValues, MapTypes
  <2>2. ASSUME o \in DOMAIN importer
        PROVE  importedValue(r, o) = evaluations(importer[o], calls[r])[o]
    <3> DEFINE q == importer[o]
    <3>1. q \in Ranks /\ sentValues(q, calls[r])
      BY <1>7, <1>8, <2>2 DEF ImportValues
    <3>2. calls[q] \in Nat /\ calls[r] \in Nat /\ calls[r] > 0
      BY <1>1, <1>5, <1>8, <3>1 DEF MapTypes
    <3>3. calls[r] \in 1 .. calls[q]
      BY <3>1, <3>2 DEF sentValues
    <3>4. source_vector[q][calls[r]] = evaluations(q, calls[r])
      BY <3>1, <3>3 DEF Posted
    <3> QED
      BY <1>8, <3>4 DEF importedValue
  <2> QED
    BY <1>4, <1>5, <1>7, <1>8, <2>1, <2>2
<1>9. CASE ~ (s = r /\ ImportValues(r))
  <2>1. phase[s] = "ready" /\ ~ (s = r /\ ReceiveTargetDim(r))
    BY <1>1, <1>2, <1>9, PhaseStep
  <2>2. target_field'[s] = target_field[s]
    BY <1>9, <2>1, VariablesKept, OthersMapKept
  <2>3. isApplied(s)
    BY <1>1, <1>5, <2>1 DEF isApplied
  <2>4. Imported!(s)!2!(n)
    BY <1>4, <2>3 DEF Imported
  <2> QED
    BY <1>4, <1>5, <1>7, <2>2, <2>4
<1> QED
  BY <1>8, <1>9

-----------------------------------------------------------------------------
(***************************************************************************)
(* The theorems.                                                           *)
(***************************************************************************)
LEMMA MapInvInit == MapInit => SearchInv /\ SetupInv /\ ApplyInv
<1> SUFFICES ASSUME MapInit PROVE SearchInv /\ SetupInv /\ ApplyInv
  OBVIOUS
<1>1. SearchInv
  BY SearchInvInit DEF MapInit
<1>2. \A r \in Ranks :
        /\ phase[r] = "new" /\ searches[r] = 0 /\ calls[r] = 0
        /\ target_ordinals[r] = noPoints /\ d_parametric_coords[r] = {}
        /\ source_vector[r] = <<>>
  BY DEF MapInit, Init
<1>3. MapTypes
  <2>1. 0 \in 0 .. MaxPoints /\ phase \in [Ranks -> phases]
    BY PointAssumption DEF MapInit, phases, unnumbered
  <2> QED
    BY <2>1, CommAssumption DEF MapInit, MapTypes, Counted
<1>4. PhasesInOrder /\ Indexed /\ Numbered
  BY <1>2 DEF PhasesInOrder, Indexed, Numbered, unnumbered, applying
<1>5. PointsSearched /\ CoordsTrue /\ Mapping
  BY <1>2 DEF PointsSearched, CoordsTrue, Mapping, unnumbered, applying
<1>6. Imports /\ Dimensions /\ Imported
  BY <1>2 DEF Imports, Dimensions, Imported, isApplied, applying
<1>7. Posted
  <2> SUFFICES ASSUME NEW s \in Ranks PROVE Posted!(s)
    BY DEF Posted
  <2>1. <<>> = [n \in 1 .. 0 |-> evaluations(s, n)]
    OBVIOUS
  <2> QED
    BY <1>2, <2>1 DEF applying
<1> QED
  BY <1>1, <1>3, <1>4, <1>5, <1>6, <1>7 DEF SetupInv, ApplyInv

LEMMA MapInvStep ==
  ASSUME SearchInv, SetupInv, ApplyInv, [MapNext]_mapAll
  PROVE  (SearchInv /\ SetupInv /\ ApplyInv)'
<1>1. ASSUME NEW r \in Ranks, MapStep(r)
      PROVE  (SearchInv /\ SetupInv /\ ApplyInv)'
  <2>1. SearchInv' /\ SetupInv'
    BY <1>1, MapSearchStep, SetupInvStep
  <2>2. Imports' /\ Posted'
    BY <1>1, ImportsStep, PostedStep DEF ApplyInv
  <2>3. Dimensions' /\ Imported'
    BY <1>1, DimensionsStep, ImportedStep DEF ApplyInv
  <2> QED
    BY <2>1, <2>2, <2>3 DEF ApplyInv
<1>2. CASE UNCHANGED mapAll
  <2>1. UNCHANGED <<vars, mapVars>>
    BY <1>2 DEF mapAll
  <2>2. SearchInv'
    <3>1. [Next]_vars
      BY <2>1
    <3> QED
      BY <3>1, SearchInvStep
  <2> USE <2>1 DEF mapVars, inputMapVars, indexVars, mappingVars, transferVars
  <2>3. MapTypes' /\ PhasesInOrder'
    BY DEF SetupInv, MapTypes, Counted, PhasesInOrder
  <2>4. Indexed' /\ Numbered'
    <3>1. /\ l2gmap(source_comm)' = l2gmap(source_comm)
          /\ l2gmap(target_comm)' = l2gmap(target_comm)
      OBVIOUS
    <3>2. \A r \in Ranks : computePointOrdinals(r)' = computePointOrdinals(r)
      BY DEF computePointOrdinals, globalMax
    <3>3. Indexed'
      BY <3>1 DEF SetupInv, Indexed
    <3>4. Numbered'
      BY <3>2 DEF SetupInv, Numbered
    <3> QED
      BY <3>3, <3>4
  <2>5. UNCHANGED <<searches, pc, domain, range, d_domain_to_range_map,
                    d_parametric_coords>>
    BY DEF vars, callVars, inputVars, domainVars
  <2>6. PointsSearched' /\ CoordsTrue'
    BY <2>5 DEF SetupInv, PointsSearched, CoordsTrue, pointsOf, returned
  <2>7. Mapping'
    BY <2>5 DEF SetupInv, Mapping, foundHere, ordinal
  <2>8. Imports' /\ Posted'
    BY DEF ApplyInv, Imports, isImporter, sourceRanks, ordinalsOf, Posted,
           evaluations, evaluate
  <2>9. Dimensions'
    BY DEF ApplyInv, Dimensions
  <2>10. Imported'
    <3>1. \A s, k : evaluations(s, k)' = evaluations(s, k)
      BY DEF evaluations, evaluate
    <3> QED
      BY <3>1 DEF ApplyInv, Imported, isApplied
  <2> QED
    BY <2>2, <2>3, <2>4, <2>6, <2>7, <2>8, <2>9, <2>10 DEF SetupInv, ApplyInv
<1> QED
  BY <1>1, <1>2 DEF MapNext, MapStep

\* The invariants of the search, of setup() and of apply() hold throughout.
THEOREM MapInvariant == MapSpec => [](SearchInv /\ SetupInv /\ ApplyInv)
BY MapInvInit, MapInvStep, PTL DEF MapSpec

\* No two target points of all ranks have the same ordinal.
THEOREM PointsHaveUniqueOrdinals == MapSpec => []OrdinalsUnique
<1>1. SetupInv => OrdinalsUnique
  BY OrdinalsDiffer DEF SetupInv, OrdinalsUnique
<1> QED
  BY <1>1, MapInvariant, PTL

\* Where values are moved every rank knows the dimensions of this call's fields.
THEOREM RanksKnowDimensions == MapSpec => []DimensionsAgree
<1>1. ApplyInv => DimensionsAgree
  BY DEF ApplyInv, Dimensions, DimensionsAgree
<1> QED
  BY <1>1, MapInvariant, PTL

-----------------------------------------------------------------------------
(***************************************************************************)
(* The types.                                                              *)
(***************************************************************************)
GivenTypes ==
  /\ source_is_mesh \in BOOLEAN
  /\ source_comm \in SourceComms /\ target_comm \in TargetComms

IndexTypes ==
  \A r \in Ranks : /\ d_source_indexer[r] \in {noPoints, l2gmap(source_comm)}
                   /\ d_target_indexer[r] \in {noPoints, l2gmap(target_comm)}

MappingTypes ==
  \A r \in Ranks :
    /\ \A o \in DOMAIN d_source_geometry[r] :
         d_source_geometry[r][o] \in DomainEntities
    /\ DOMAIN d_target_coords[r] = DOMAIN d_source_geometry[r]

PointTypes ==
  \A r \in Ranks :
    /\ DOMAIN d_source_to_target_importer[r] \subseteq ordinalsOf(r)
    /\ d_missed_points[r] \subseteq DOMAIN target_ordinals[r]
    /\ DOMAIN target_field[r] \subseteq DOMAIN target_ordinals[r]

CallTypes ==
  /\ \A r \in Ranks : calls[r] <= Len(FieldDims)
  /\ source_dim \in [Ranks -> Nat] /\ target_dim \in [Ranks -> Nat]

MapKinds == GivenTypes /\ IndexTypes /\ MappingTypes /\ PointTypes /\ CallTypes

\* An indexer takes processes to ranks.
LEMMA IndexerType ==
  ASSUME NEW c \in Communicators
  PROVE  /\ DOMAIN l2gmap(c) \subseteq Nat
         /\ \A k \in DOMAIN l2gmap(c) : l2gmap(c)[k] \in Ranks
<1>1. PICK n \in 1 .. Cardinality(Ranks) : c \in [1 .. n -> Ranks]
  BY DEF Communicators
<1>2. Cardinality(Ranks) \in Nat
  BY RankAssumption, FS_CardinalityType
<1>3. ASSUME NEW k \in DOMAIN l2gmap(c) PROVE k \in Nat /\ l2gmap(c)[k] \in Ranks
  <2>1. PICK r \in members(c) : k = localRank(c, r)
    BY <1>3 DEF l2gmap
  <2>2. PICK i \in DOMAIN c : r = c[i]
    BY <2>1 DEF members
  <2>3. r \in Ranks /\ k = i - 1
    BY <2>1, <2>2, IndexOfRank
  <2>4. l2gmap(c)[k] \in Ranks
    BY <1>3, <2>1, <2>3 DEF l2gmap
  <2> QED
    BY <1>1, <1>2, <2>3, <2>4
<1> QED
  BY <1>3

LEMMA IndexTypesStep ==
  ASSUME MapTypes, GivenTypes, IndexTypes, NEW r \in Ranks, MapStep(r)
  PROVE  GivenTypes' /\ IndexTypes'
<1> USE DEF MapTypes
<1>1. source_comm' = source_comm /\ target_comm' = target_comm
  BY VariablesKept
<1>2. source_is_mesh' = source_is_mesh
  BY DEF MapStep, SetupStep, ApplyStep, BeginSetup, IndexSource, IndexTarget,
         NumberPoints, IterateSource, SearchPoints, BuildMapping, BuildImporter,
         Evaluate, ReceiveSourceDim, ReceiveTargetDim, ImportValues, mapVars,
         inputMapVars
<1>3. /\ l2gmap(source_comm)' = l2gmap(source_comm)
      /\ l2gmap(target_comm)' = l2gmap(target_comm)
  BY <1>1
<1>4. ASSUME NEW s \in Ranks
      PROVE  d_source_indexer'[s] \in {noPoints, l2gmap(source_comm)}
  BY VariablesKept DEF IndexSource, IndexTypes
<1>5. ASSUME NEW s \in Ranks
      PROVE  d_target_indexer'[s] \in {noPoints, l2gmap(target_comm)}
  BY VariablesKept DEF IndexTarget, IndexTypes
<1>6. IndexTypes'
  BY <1>3, <1>4, <1>5 DEF IndexTypes, noPoints
<1> QED
  BY <1>1, <1>2, <1>6 DEF GivenTypes

LEMMA MappingTypesStep ==
  ASSUME SearchInv, SetupInv, MappingTypes, NEW r \in Ranks, MapStep(r)
  PROVE  MappingTypes'
<1> USE DEF SetupInv, MapTypes
<1> SUFFICES ASSUME NEW s \in Ranks PROVE MappingTypes!(s)'
  BY DEF MappingTypes
<1>1. MappingTypes!(s)
  BY DEF MappingTypes
<1>2. CASE s = r /\ BuildMapping(r)
  <2> DEFINE F == foundHere(r)
             O == {ordinal(e) : e \in F}
             of(o) == CHOOSE e \in F : ordinal(e) = o
  <2>1. PICK geometry \in [F -> DomainEntities],
             coords \in [F -> {x[3] : x \in d_parametric_coords[r]}] :
          /\ d_source_geometry' = [d_source_geometry EXCEPT ![r] =
                                     [o \in O |-> geometry[of(o)]]]
          /\ d_target_coords' = [d_target_coords EXCEPT ![r] =
                                   [o \in O |-> coords[of(o)]]]
    BY <1>2 DEF BuildMapping
  <2>2. /\ d_source_geometry'[r] = [o \in O |-> geometry[of(o)]]
        /\ d_target_coords'[r] = [o \in O |-> coords[of(o)]]
    BY <2>1
  <2>3. \A o \in O : of(o) \in F
    OBVIOUS
  <2>4. \A o \in O : geometry[of(o)] \in DomainEntities
    <3> HIDE DEF of, O
    <3> QED
      BY <2>1, <2>3
  <2> HIDE DEF O, of, F
  <2> QED
    BY <1>2, <2>2, <2>4
<1>3. CASE s # r \/ ~ BuildMapping(r)
  <2>1. /\ d_source_geometry'[s] = d_source_geometry[s]
        /\ d_target_coords'[s] = d_target_coords[s]
    BY <1>3, VariablesKept, OthersMapKept
  <2> QED
    BY <1>1, <2>1
<1> QED
  BY <1>2, <1>3

LEMMA PointTypesStep ==
  ASSUME SetupInv, PointTypes, NEW r \in Ranks, MapStep(r)
  PROVE  PointTypes'
<1> USE DEF SetupInv, MapTypes
<1> SUFFICES ASSUME NEW s \in Ranks PROVE PointTypes!(s)'
  BY DEF PointTypes
<1>1. PointTypes!(s)
  BY DEF PointTypes
<1>2. CASE NumberPoints(r)
  <2>1. /\ d_source_to_target_importer' = d_source_to_target_importer
        /\ d_missed_points' = d_missed_points /\ target_field' = target_field
    BY <1>2 DEF NumberPoints, mappingVars, transferVars
  <2>2. target_ordinals[s] = target_ordinals'[s] \/ DOMAIN target_ordinals[s] = {}
    <3>1. CASE s = r
      <4>1. target_ordinals[s] = noPoints
        BY <1>2, <3>1 DEF NumberPoints, Numbered, unnumbered
      <4> QED
        BY <4>1 DEF noPoints
    <3>2. CASE s # r
      BY <3>2, OthersMapKept
    <3> QED
      BY <3>1, <3>2
  <2>3. /\ ordinalsOf(s) \subseteq ordinalsOf(s)'
        /\ DOMAIN target_ordinals[s] \subseteq DOMAIN target_ordinals'[s]
    BY <2>2 DEF ordinalsOf
  <2> QED
    BY <1>1, <2>1, <2>3
<1>3. CASE ~ NumberPoints(r)
  <2>1. target_ordinals' = target_ordinals /\ ordinalsOf(s)' = ordinalsOf(s)
    BY <1>3, VariablesKept DEF ordinalsOf
  <2>2. DOMAIN d_source_to_target_importer'[s] \subseteq ordinalsOf(s)
    <3>1. CASE BuildImporter(r)
      <4>1. PICK importer : /\ isImporter(r, importer)
                            /\ d_source_to_target_importer' =
                                 [d_source_to_target_importer EXCEPT ![r] = importer]
        BY <3>1 DEF BuildImporter
      <4>2. DOMAIN importer \subseteq ordinalsOf(r)
        BY <4>1 DEF isImporter
      <4> QED
        BY <1>1, <4>1, <4>2
    <3>2. CASE ~ BuildImporter(r)
      BY <1>1, <3>2, VariablesKept
    <3> QED
      BY <3>1, <3>2
  <2>3. d_missed_points'[s] \subseteq DOMAIN target_ordinals[s]
    <3>1. CASE BuildImporter(r)
      <4>1. d_missed_points' = [d_missed_points EXCEPT ![r] =
              IF d_track_missed_range_entities THEN missedPoints(r) ELSE {}]
        BY <3>1 DEF BuildImporter
      <4>2. missedPoints(r) \subseteq DOMAIN target_ordinals[r]
        BY DEF missedPoints
      <4> QED
        BY <1>1, <4>1, <4>2
    <3>2. CASE ~ BuildImporter(r)
      BY <1>1, <3>2, VariablesKept
    <3> QED
      BY <3>1, <3>2
  <2>4. DOMAIN target_field'[s] \subseteq DOMAIN target_ordinals[s]
    BY <1>1, VariablesKept DEF ReceiveTargetDim, ImportValues
  <2> QED
    BY <2>1, <2>2, <2>3, <2>4
<1> QED
  BY <1>2, <1>3

LEMMA CallTypesStep ==
  ASSUME MapTypes, Posted, CallTypes, NEW r \in Ranks, MapStep(r)
  PROVE  CallTypes'
<1> USE DEF MapTypes, CallTypes
<1>1. /\ Len(FieldDims) \in Nat
      /\ \A n \in 1 .. Len(FieldDims) : FieldDims[n] \in Nat
  BY MapAssumption
<1>2. calls[r] \in Nat /\ calls[r] <= Len(FieldDims)
  OBVIOUS
<1>3. CASE Evaluate(r)
  <2>1. /\ calls' = [calls EXCEPT ![r] = @ + 1] /\ calls[r] < Len(FieldDims)
        /\ source_dim' = [source_dim EXCEPT ![r] =
             IF r \in members(source_comm) THEN FieldDims[calls[r] + 1] ELSE 0]
        /\ target_dim' = target_dim
    BY <1>3 DEF Evaluate
  <2>2. FieldDims[calls[r] + 1] \in Nat
    BY <1>1, <1>2, <2>1
  <2>3. source_dim' \in [Ranks -> Nat]
    BY <2>1, <2>2
  <2>4. \A s \in Ranks : calls'[s] <= Len(FieldDims)
    BY <1>1, <1>2, <2>1
  <2> QED
    BY <2>1, <2>3, <2>4
<1>4. CASE ~ Evaluate(r)
  <2>1. calls' = calls
    BY <1>4, VariablesKept
  <2>2. ASSUME phase[r] \in {"source_dim", "target_dim"}
        PROVE  \A c, q : dimSent(c, q, calls[r]) \in Nat
    <3>1. calls[r] > 0
      BY <2>2 DEF Posted, applying
    <3>2. calls[r] \in 1 .. Len(FieldDims)
      BY <1>1, <1>2, <3>1
    <3> QED
      BY <1>1, <3>2 DEF dimSent
  <2>3. source_dim' \in [Ranks -> Nat]
    <3>1. CASE ReceiveSourceDim(r)
      <4>1. PICK s \in Ranks : source_dim' = [source_dim EXCEPT ![r] =
                                 dimSent(source_comm, s, calls[r])]
        BY <3>1 DEF ReceiveSourceDim
      <4>2. dimSent(source_comm, s, calls[r]) \in Nat
        BY <2>2, <3>1 DEF ReceiveSourceDim
      <4> QED
        BY <4>1, <4>2
    <3>2. CASE ~ ReceiveSourceDim(r)
      BY <1>4, <3>2, VariablesKept
    <3> QED
      BY <3>1, <3>2
  <2>4. target_dim' \in [Ranks -> Nat]
    <3>1. CASE ReceiveSourceDim(r)
      <4>1. target_dim' = [target_dim EXCEPT ![r] =
                             dimSent(target_comm, r, calls[r])]
        BY <3>1 DEF ReceiveSourceDim
      <4>2. dimSent(target_comm, r, calls[r]) \in Nat
        BY <2>2, <3>1 DEF ReceiveSourceDim
      <4> QED
        BY <4>1, <4>2
    <3>2. CASE ReceiveTargetDim(r)
      <4>1. PICK s \in Ranks : target_dim' = [target_dim EXCEPT ![r] =
                                 dimSent(target_comm, s, calls[r])]
        BY <3>2 DEF ReceiveTargetDim
      <4>2. dimSent(target_comm, s, calls[r]) \in Nat
        BY <2>2, <3>2 DEF ReceiveTargetDim
      <4> QED
        BY <4>1, <4>2
    <3>3. CASE ~ ReceiveSourceDim(r) /\ ~ ReceiveTargetDim(r)
      BY <3>3, VariablesKept
    <3> QED
      BY <3>1, <3>2, <3>3
  <2> QED
    BY <2>1, <2>3, <2>4
<1> QED
  BY <1>3, <1>4

LEMMA MapKindsInit == MapInit => MapKinds
<1> SUFFICES ASSUME MapInit PROVE MapKinds
  OBVIOUS
<1>1. GivenTypes
  BY MapAssumption DEF MapInit, GivenTypes
<1>2. IndexTypes /\ MappingTypes /\ PointTypes
  BY DEF MapInit, IndexTypes, MappingTypes, PointTypes, noPoints
<1>3. Len(FieldDims) \in Nat
  BY MapAssumption
<1>4. CallTypes
  BY <1>3 DEF MapInit, CallTypes
<1> QED
  BY <1>1, <1>2, <1>4 DEF MapKinds

LEMMA MapKindsStep ==
  ASSUME SearchInv, SetupInv, ApplyInv, MapKinds, [MapNext]_mapAll
  PROVE  MapKinds'
<1> USE DEF MapKinds
<1>1. ASSUME NEW r \in Ranks, MapStep(r) PROVE MapKinds'
  <2>1. MapTypes /\ Posted
    BY DEF SetupInv, ApplyInv
  <2>2. GivenTypes' /\ IndexTypes' /\ CallTypes'
    BY <1>1, <2>1, IndexTypesStep, CallTypesStep
  <2>3. MappingTypes' /\ PointTypes'
    BY <1>1, MappingTypesStep, PointTypesStep
  <2> QED
    BY <2>2, <2>3
<1>2. CASE UNCHANGED mapAll
  <2> USE <1>2 DEF mapAll, mapVars, inputMapVars, indexVars, mappingVars,
                   transferVars
  <2>1. /\ l2gmap(source_comm)' = l2gmap(source_comm)
        /\ l2gmap(target_comm)' = l2gmap(target_comm)
    OBVIOUS
  <2>2. IndexTypes'
    BY <2>1 DEF IndexTypes, noPoints
  <2>3. GivenTypes' /\ MappingTypes' /\ CallTypes'
    BY DEF GivenTypes, MappingTypes, CallTypes
  <2>4. PointTypes'
    BY DEF PointTypes, ordinalsOf
  <2> QED
    BY <2>2, <2>3, <2>4
<1> QED
  BY <1>1, <1>2 DEF MapNext, MapStep

\* What the invariants say of the ordinals and of the evaluations is in the type.
LEMMA KindsAreTypes ==
  ASSUME SearchInv, SetupInv, ApplyInv, MapKinds
  PROVE  MapTypeOK
<1> USE DEF SetupInv, MapTypes
<1>1. TypeOK /\ phase \in [Ranks -> phases] /\ Counted
  BY DEF SearchInv
<1>2. /\ source_is_mesh \in BOOLEAN
      /\ source_comm \in SourceComms /\ target_comm \in TargetComms
  BY DEF MapKinds, GivenTypes
<1>3. ASSUME NEW r \in Ranks
      PROVE  /\ DOMAIN d_source_indexer[r] \subseteq Nat
             /\ \A k \in DOMAIN d_source_indexer[r] : d_source_indexer[r][k] \in Ranks
             /\ DOMAIN d_target_indexer[r] \subseteq Nat
             /\ \A k \in DOMAIN d_target_indexer[r] : d_target_indexer[r][k] \in Ranks
  <2>1. \A f \in {noPoints, l2gmap(source_comm), l2gmap(target_comm)} :
          DOMAIN f \subseteq Nat /\ \A k \in DOMAIN f : f[k] \in Ranks
    BY IndexerType DEF noPoints
  <2> QED
    BY <2>1 DEF MapKinds, IndexTypes
<1>4. ASSUME NEW r \in Ranks
      PROVE  /\ DOMAIN target_ordinals[r] \in {{}, 0 .. local_size[r] - 1}
             /\ \A n \in DOMAIN target_ordinals[r] : target_ordinals[r][n] \in Nat
  <2>1. globalMax \in Nat
    BY GreatestSize
  <2>2. r \in Nat
    BY RanksAreNumbers
  <2>3. local_size[r] \in Nat
    BY PointAssumption DEF Counted
  <2>4. ASSUME NEW n \in 0 .. local_size[r] - 1 PROVE r * globalMax + n \in Nat
    BY <2>1, <2>2, <2>3
  <2>5. CASE phase[r] \in unnumbered
    BY <2>5 DEF Numbered, noPoints
  <2>6. CASE phase[r] \notin unnumbered
    <3>1. target_ordinals[r] = [n \in 0 .. local_size[r] - 1 |-> r * globalMax + n]
      BY <2>6 DEF Numbered, computePointOrdinals
    <3> HIDE DEF globalMax
    <3> QED
      BY <2>4, <3>1
  <2> QED
    BY <2>5, <2>6
<1>5. ASSUME NEW r \in Ranks PROVE Len(source_vector[r]) = calls[r]
  <2> DEFINE S == {evaluations(r, n) : n \in 1 .. calls[r]}
  <2>1. source_vector[r] = [n \in 1 .. calls[r] |-> evaluations(r, n)]
    BY DEF ApplyInv, Posted
  <2>2. calls[r] \in Nat
    OBVIOUS
  <2>3. source_vector[r] \in [1 .. calls[r] -> S]
    BY <2>1
  <2> HIDE DEF S
  <2>4. source_vector[r] \in Seq(S)
    BY <2>2, <2>3, SeqDef
  <2>5. /\ DOMAIN source_vector[r] = 1 .. Len(source_vector[r])
        /\ Len(source_vector[r]) \in Nat
    BY <2>4, LenProperties
  <2>6. DOMAIN source_vector[r] = 1 .. calls[r]
    BY <2>3
  <2> QED
    BY <2>2, <2>5, <2>6
<1>6. calls \in [Ranks -> 0 .. Len(FieldDims)]
  <2>1. Len(FieldDims) \in Nat
    BY MapAssumption
  <2> QED
    BY <2>1 DEF MapKinds, CallTypes
<1>7. source_dim \in [Ranks -> Nat] /\ target_dim \in [Ranks -> Nat]
  BY DEF MapKinds, CallTypes
<1>8. ASSUME NEW r \in Ranks
      PROVE  /\ \A o \in DOMAIN d_source_geometry[r] :
                  d_source_geometry[r][o] \in DomainEntities
             /\ DOMAIN d_target_coords[r] = DOMAIN d_source_geometry[r]
             /\ DOMAIN d_source_to_target_importer[r] \subseteq ordinalsOf(r)
             /\ d_missed_points[r] \subseteq DOMAIN target_ordinals[r]
             /\ DOMAIN target_field[r] \subseteq DOMAIN target_ordinals[r]
  BY DEF MapKinds, MappingTypes, PointTypes
<1> HIDE DEF SetupInv, MapTypes
<1>9. phase \in [Ranks -> {"new", "sources", "targets", "sizes", "search",
                           "undefined", "maps", "ready", "source_dim",
                           "target_dim", "import"}]
  BY <1>1 DEF phases, unnumbered, applying
<1> QED
  BY <1>1, <1>2, <1>3, <1>4, <1>5, <1>6, <1>7, <1>8, <1>9 DEF MapTypeOK, Counted

\* Every variable of the map has its type in every reachable state: in
\* particular an importer knows only ordinals of its rank's points, the missed
\* points are points of the rank, each call has posted its evaluations, and
\* what a rank without a source or a target receives as dimension is a number.
THEOREM MapTypesHold == MapSpec => []MapTypeOK
<1>1. MapSpec => []MapKinds
  BY MapKindsInit, MapKindsStep, MapInvariant, PTL DEF MapSpec
<1> QED
  BY <1>1, KindsAreTypes, MapInvariant, PTL

\* Where the importer of a rank takes the value of its point n from is a rank
\* that has found the point, and a rank that has found it exists if one is in
\* the range side of the graph.
LEMMA ImportedFrom ==
  ASSUME SearchInv, SetupInv, Imports, NEW r \in Ranks, phase[r] \in applying,
         NEW n \in DOMAIN target_ordinals[r]
  PROVE  LET o == target_ordinals[r][n]
             importer == d_source_to_target_importer[r]
             found == {d \in DomainEntities :
                         <<<<r, n>>, d>> \in d_range_to_domain_map[r]}
         IN /\ o \in DOMAIN importer <=> found # {}
            /\ o \in DOMAIN importer =>
                 /\ importer[o] \in Ranks /\ <<r, n>> \in foundHere(importer[o])
<1> DEFINE o == target_ordinals[r][n]
           e == <<r, n>>
           importer == d_source_to_target_importer[r]
<1> USE DEF SetupInv
<1>1. \A s \in Ranks : phase[s] \in {"maps"} \cup applying
  BY DEF PhasesInOrder
<1>2. \A s \in Ranks : returned(s) /\ searches[s] > 0
  BY <1>1 DEF PointsSearched, returned
<1>3. e \in RangeEntities /\ RangeOwner[e] = r /\ ordinal(e) = o
  <2>1. e \in pointsOf(r) /\ DOMAIN range[r] = pointsOf(r)
    BY <1>2 DEF pointsOf, PointsSearched
  <2>2. DOMAIN range[r] \subseteq RangeEntities
    BY DEF SearchInv, TypeOK, partialFunctions
  <2> QED
    BY <2>1, <2>2, PointAssumption DEF ordinal
<1>4. ASSUME NEW s \in Ranks PROVE s \in sourceRanks(o) <=> e \in foundHere(s)
  <2>1. DOMAIN d_source_geometry[s] = {ordinal(x) : x \in foundHere(s)}
    BY <1>1 DEF Mapping
  <2>2. \A x \in foundHere(s) : ordinal(x) = o => x = e
    BY <1>2, OrdinalOfPoint
  <2> QED
    BY <1>3, <2>1, <2>2 DEF sourceRanks
<1>5. ASSUME NEW s \in Ranks, NEW d \in DomainEntities
      PROVE  <<d, e>> \in d_domain_to_range_map[s]
               <=> DomainOwner[d] = s /\ <<e, d>> \in d_range_to_domain_map[r]
  BY <1>2, <1>3, DomainPair, MapAssumption
<1>6. \A s \in Ranks : e \in foundHere(s)
        <=> \E d \in DomainEntities : <<d, e>> \in d_domain_to_range_map[s]
  <2> SUFFICES ASSUME NEW s \in Ranks
               PROVE  e \in foundHere(s)
                        <=> \E d \in DomainEntities :
                              <<d, e>> \in d_domain_to_range_map[s]
    OBVIOUS
  <2> HIDE DEF e
  <2>1. ASSUME NEW x \in d_domain_to_range_map[s]
        PROVE  x[1] \in DomainEntities /\ x = <<x[1], x[2]>>
    BY DEF SearchInv, TypeOK
  <2>2. ASSUME e \in foundHere(s)
        PROVE  \E d \in DomainEntities : <<d, e>> \in d_domain_to_range_map[s]
    <3>1. PICK x \in d_domain_to_range_map[s] : e = x[2]
      BY <2>2 DEF foundHere
    <3> QED
      BY <2>1, <3>1
  <2>3. ASSUME NEW d \in DomainEntities, <<d, e>> \in d_domain_to_range_map[s]
        PROVE  e \in foundHere(s)
    <3>1. <<d, e>>[2] = e
      OBVIOUS
    <3> QED
      BY <2>3, <3>1 DEF foundHere
  <2> QED
    BY <2>2, <2>3
<1>7. sourceRanks(o) # {}
        <=> \E d \in DomainEntities : <<e, d>> \in d_range_to_domain_map[r]
  <2>1. \A d \in DomainEntities : DomainOwner[d] \in Ranks
    BY OwnerAssumption
  <2>2. sourceRanks(o) # {} <=> \E s \in Ranks : s \in sourceRanks(o)
    BY DEF sourceRanks
  <2> HIDE DEF e, o
  <2>3. ASSUME NEW s \in sourceRanks(o)
        PROVE  \E d \in DomainEntities : <<e, d>> \in d_range_to_domain_map[r]
    <3>1. s \in Ranks
      BY DEF sourceRanks
    <3>2. PICK d \in DomainEntities : <<d, e>> \in d_domain_to_range_map[s]
      BY <1>4, <1>6, <3>1
    <3> QED
      BY <1>5, <3>1, <3>2
  <2>4. ASSUME NEW d \in DomainEntities, <<e, d>> \in d_range_to_domain_map[r]
        PROVE  DomainOwner[d] \in sourceRanks(o)
    <3>1. <<d, e>> \in d_domain_to_range_map[DomainOwner[d]]
      BY <1>5, <2>1, <2>4
    <3> QED
      BY <1>4, <1>6, <2>1, <3>1
  <2> QED
    BY <2>2, <2>3, <2>4
<1>8. isImporter(r, importer) /\ o \in ordinalsOf(r)
  BY DEF Imports, ordinalsOf
<1>9. o \in DOMAIN importer =>
        importer[o] \in Ranks /\ e \in foundHere(importer[o])
  <2>1. o \in DOMAIN importer => importer[o] \in sourceRanks(o)
    BY <1>8 DEF isImporter
  <2> QED
    BY <1>4, <2>1 DEF sourceRanks
<1> QED
  BY <1>7, <1>8, <1>9 DEF isImporter

\* After an apply() a point holds the value of this call in one geometry it
\* lies in, at its own place there, and zero only if it lies in none found.
THEOREM PointsAreEvaluatedOnce == MapSpec => []EvaluatedOnce
<1>1. SearchInv /\ SetupInv /\ ApplyInv => EvaluatedOnce
  <2> SUFFICES ASSUME SearchInv, SetupInv, ApplyInv,
                      NEW r \in Ranks, isApplied(r),
                      NEW n \in DOMAIN target_ordinals[r]
               PROVE  EvaluatedOnce!(r)!2!(n)
    BY DEF EvaluatedOnce
  <2> USE DEF SetupInv, ApplyInv
  <2> DEFINE e == <<r, n>>
             o == target_ordinals[r][n]
             importer == d_source_to_target_importer[r]
             found == {d \in DomainEntities :
                         <<e, d>> \in d_range_to_domain_map[r]}
             s == importer[o]
             d == d_source_geometry[s][o]
  <2>1. phase[r] \in applying
    BY DEF isApplied, applying
  <2>2. /\ o \in DOMAIN importer <=> found # {}
        /\ o \in DOMAIN importer => s \in Ranks /\ e \in foundHere(s)
    BY <2>1, ImportedFrom
  <2>3. /\ o \in DOMAIN importer =>
             target_field[r][n] = evaluations(s, calls[r])[o]
        /\ o \notin DOMAIN importer => target_field[r][n] = zero
    BY DEF Imported
  <2>4. ASSUME o \in DOMAIN importer
        PROVE  \E f \in found : /\ isIn(e, r, f, DomainOwner[f])
                                /\ target_field[r][n]
                                     = evaluationIn(r, n, f, DomainOwner[f])
    <3>1. /\ s \in Ranks /\ e \in foundHere(s)
          /\ phase[s] \in {"maps"} \cup applying
      BY <2>1, <2>2, <2>4 DEF PhasesInOrder
    <3>2. ordinal(e) = o
      BY DEF ordinal
    <3>3. /\ o \in DOMAIN d_source_geometry[s]
          /\ <<d, e>> \in d_domain_to_range_map[s]
          /\ <<e, d, d_target_coords[s][o]>> \in d_parametric_coords[s]
      BY <3>1, <3>2 DEF Mapping
    <3>4. d \in DomainEntities /\ e \in RangeEntities /\ RangeOwner[e] = r
      <4>1. d_domain_to_range_map[s] \subseteq DomainEntities \X RangeEntities
        BY <3>1 DEF SearchInv, TypeOK
      <4>2. d \in DomainEntities /\ e \in RangeEntities
        <5> HIDE DEF d, e, s
        <5> QED
          BY <3>3, <4>1
      <4>3. RangeOwner[e] = r
        BY <4>2, PointAssumption
      <4> QED
        BY <4>2, <4>3
    <3>5. returned(r) /\ returned(s)
      BY <2>1, <3>1 DEF PointsSearched
    <3>6. DomainOwner[d] = s /\ d \in found
      <4>1. /\ e \in RangeEntities /\ d \in DomainEntities
            /\ <<d, e>> \in d_domain_to_range_map[s]
        BY <3>3, <3>4
      <4> HIDE DEF d, s, e
      <4>2. DomainOwner[d] = s /\ <<e, d>> \in d_range_to_domain_map[r]
        BY <3>1, <3>4, <3>5, <4>1, DomainPair, MapAssumption
      <4> QED
        BY <4>1, <4>2
    <3>7. isIn(e, r, d, s)
      <4>1. searched(s) /\ searches[r] = searches[s]
        BY <3>1, <3>5, AllSearch, OneSearch, MapAssumption
      <4> QED
        BY <3>1, <3>3, <3>4, <4>1, InvIsSound DEF SearchSound
    <3>8. d_target_coords[s][o]
            = referenceCoordinate(domain[s][d], range[r][e].centroid)
      BY <3>1, <3>3, <3>4 DEF CoordsTrue
    <3>9. evaluations(s, calls[r])[o] = evaluationIn(r, n, d, s)
      BY <3>3, <3>8 DEF evaluations, evaluationIn
    <3> HIDE DEF d, s, found
    <3> QED
      BY <2>3, <2>4, <3>6, <3>7, <3>9
  <2> QED
    BY <2>2, <2>3, <2>4
<1> QED
  BY <1>1, MapInvariant, PTL

-----------------------------------------------------------------------------
(***************************************************************************)
(* The missed points.                                                      *)
(***************************************************************************)

\* A rank through with setup() has kept the points its search has missed.
MissesKept ==
  d_track_missed_range_entities =>
    \A r \in Ranks : phase[r] \in applying => d_missed_points[r] = missedPoints(r)

MissesInv == MissedInv /\ AccountInv /\ FoundBacked /\ MissesKept

LEMMA SearchStepOfMap ==
  ASSUME NEW r \in Ranks, MapStep(r)
  PROVE  UNCHANGED vars \/ Step(r)
BY DEF MapStep, SetupStep, ApplyStep, BeginSetup, IndexSource, IndexTarget,
       NumberPoints, IterateSource, SearchPoints, BuildMapping, BuildImporter,
       Evaluate, ReceiveSourceDim, ReceiveTargetDim, ImportValues

LEMMA MissesKeptStep ==
  ASSUME SearchInv, SetupInv, MissesKept, NEW r \in Ranks, MapStep(r)
  PROVE  MissesKept'
<1> USE DEF SetupInv
<1>1. d_track_missed_range_entities' = d_track_missed_range_entities
  BY SearchStepOfMap, StepOfRank DEF SearchInv, vars, callVars
<1> SUFFICES ASSUME d_track_missed_range_entities,
                    NEW s \in Ranks, phase'[s] \in applying
             PROVE  d_missed_points'[s] = missedPoints(s)'
  BY <1>1 DEF MissesKept
<1>2. CASE s = r /\ BuildImporter(r)
  <2>1. d_missed_points'[r] = missedPoints(r)
    BY <1>2 DEF BuildImporter, MapTypes
  <2>2. UNCHANGED <<target_ordinals, d_missed_range_entity_ids>>
    BY <1>2 DEF BuildImporter, indexVars, vars, rangeVars
  <2> QED
    BY <1>2, <2>1, <2>2 DEF missedPoints
<1>3. CASE ~ (s = r /\ BuildImporter(r))
  <2>1. phase[s] \in applying
    BY <1>3, PhaseStep DEF applying
  <2>2. target_ordinals' = target_ordinals
    BY <2>1, AllSettled
  <2>3. s # r \/ ~ SearchPoints(r)
    BY <2>1 DEF SearchPoints, applying
  <2>4. d_missed_range_entity_ids'[s] = d_missed_range_entity_ids[s]
    <3>1. CASE SearchPoints(r)
      <4>1. s # r /\ Step(r) /\ TypeOK
        BY <2>3, <3>1 DEF SearchPoints, SearchInv
      <4> QED
        BY <4>1, MissedKept
    <3>2. CASE ~ SearchPoints(r)
      BY <3>2, VariablesKept DEF vars, rangeVars
    <3> QED
      BY <3>1, <3>2
  <2>5. d_missed_points'[s] = d_missed_points[s]
    BY <1>3, VariablesKept DEF BuildImporter, MapTypes
  <2> QED
    BY <2>1, <2>2, <2>4, <2>5 DEF MissesKept, missedPoints
<1> QED
  BY <1>2, <1>3

LEMMA MissesInvStep ==
  ASSUME OneFullSearch, SearchInv, SetupInv, MissesInv, [MapNext]_mapAll
  PROVE  MissesInv'
<1>1. ASSUME NEW r \in Ranks, MapStep(r) PROVE MissesInv'
  <2>1. MissesKept'
    BY <1>1, MissesKeptStep DEF MissesInv
  <2>2. CASE Step(r)
    <3>1. MissedInv'
      BY <2>2, MissedInvStep DEF MissesInv, Next
    <3>2. AccountInv' /\ FoundBacked'
      BY <2>2, AccountStep, FoundBackedStep DEF MissesInv
    <3> QED
      BY <2>1, <3>1, <3>2 DEF MissesInv
  <2>3. CASE UNCHANGED vars
    <3>1. MissedInv' /\ AccountInv'
      BY <2>3, MissedInvStep, AccountStutter DEF MissesInv
    <3>2. FoundBacked'
      BY <2>3 DEF MissesInv, FoundBacked, vars, sendVars
    <3> QED
      BY <2>1, <3>1, <3>2 DEF MissesInv
  <2> QED
    BY <1>1, <2>2, <2>3, SearchStepOfMap
<1>2. CASE UNCHANGED mapAll
  <2>1. UNCHANGED <<vars, mapVars>>
    BY <1>2 DEF mapAll
  <2>2. MissedInv' /\ AccountInv'
    BY <2>1, MissedInvStep, AccountStutter DEF MissesInv
  <2>3. FoundBacked'
    BY <2>1 DEF MissesInv, FoundBacked, vars, sendVars
  <2>4. MissesKept'
    BY <2>1 DEF MissesInv, MissesKept, missedPoints, vars, rangeVars, mapVars,
       indexVars, mappingVars
  <2> QED
    BY <2>2, <2>3, <2>4 DEF MissesInv
<1> QED
  BY <1>1, <1>2 DEF MapNext, MapStep

\* If the source is on every rank, the missed points are exactly those that
\* apply() fills with zero.
THEOREM MissedPointsAreZero ==
  ASSUME OneFullSearch
  PROVE  MapSpec => []MissedAreZero
<1>1. MapInit => MissesInv
  <2> SUFFICES ASSUME MapInit PROVE MissesInv
    OBVIOUS
  <2>1. MissedInv /\ AccountInv
    BY MissedInvInit, AccountInit DEF MapInit
  <2>2. FoundBacked
    BY DEF MapInit, Init, FoundBacked
  <2>3. MissesKept
    BY DEF MapInit, MissesKept, applying
  <2> QED
    BY <2>1, <2>2, <2>3 DEF MissesInv
<1>2. SearchInv /\ SetupInv /\ MissesInv /\ [MapNext]_mapAll => MissesInv'
  BY MissesInvStep
<1>3. SearchInv /\ SetupInv /\ ApplyInv /\ MissesInv => MissedAreZero
  <2> SUFFICES ASSUME SearchInv, SetupInv, ApplyInv, MissesInv,
                      NEW r \in Ranks, isApplied(r),
                      d_track_missed_range_entities,
                      NEW n \in DOMAIN target_ordinals[r]
               PROVE  n \in d_missed_points[r] <=> target_field[r][n] = zero
    BY DEF MissedAreZero
  <2> DEFINE e == <<r, n>>
             o == target_ordinals[r][n]
             found == {d \in DomainEntities :
                         <<e, d>> \in d_range_to_domain_map[r]}
  <2>1. phase[r] \in applying /\ returned(r)
    BY DEF isApplied, applying, SetupInv, PointsSearched
  <2>2. o \in DOMAIN d_source_to_target_importer[r] <=> found # {}
    BY <2>1, ImportedFrom DEF ApplyInv
  <2>3. target_field[r][n] = zero <=> found = {}
    <3>1. CASE o \in DOMAIN d_source_to_target_importer[r]
      <4> DEFINE s == d_source_to_target_importer[r][o]
      <4>1. s \in Ranks /\ o \in DOMAIN d_source_geometry[s]
        BY <2>1, <3>1 DEF ApplyInv, Imports, isImporter, sourceRanks
      <4>2. target_field[r][n] =
              <<d_source_geometry[s][o], d_target_coords[s][o], calls[r]>>
        BY <3>1, <4>1 DEF ApplyInv, Imported, evaluations, evaluate
      <4>3. target_field[r][n] # zero
        BY <4>2 DEF zero
      <4> QED
        BY <2>2, <3>1, <4>3
    <3>2. CASE o \notin DOMAIN d_source_to_target_importer[r]
      BY <2>2, <3>2 DEF ApplyInv, Imported
    <3> QED
      BY <3>1, <3>2
  <2>4. n \in d_missed_points[r] <=> e \in d_missed_range_entity_ids[r]
    BY <2>1 DEF MissesInv, MissesKept, missedPoints
  <2>5. e \in d_missed_range_entity_ids[r] => found = {}
    BY <2>1 DEF MissesInv, MissedInv, MissedNotMapped
  <2>6. e \in RangeEntities /\ RangeOwner[e] = r /\ e \in DOMAIN range[r]
    <3>1. e \in pointsOf(r) /\ DOMAIN range[r] = pointsOf(r)
      BY <2>1 DEF pointsOf, SetupInv, PointsSearched, returned
    <3>2. DOMAIN range[r] \subseteq RangeEntities
      BY DEF SearchInv, TypeOK, partialFunctions
    <3> QED
      BY <3>1, <3>2, PointAssumption
  <2>7. found = {} => e \in d_missed_range_entity_ids[r]
    <3>1. found = {} =>
            \A d \in DomainEntities : <<e, d>> \notin d_range_to_domain_map[r]
      OBVIOUS
    <3> HIDE DEF e, found
    <3> QED
      BY <2>1, <2>6, <3>1, NotFoundIsMissed, MapAssumption DEF MissesInv
  <2> QED
    BY <2>3, <2>4, <2>5, <2>7
<1> QED
  BY <1>1, <1>2, <1>3, MapInvariant, PTL DEF MapSpec
==============================================================================
