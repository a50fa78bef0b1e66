----------------------- MODULE ConsistentInterpolation -----------------------
(***************************************************************************)
(* DTK_ConsistentInterpolationOperator on top of ParallelSearch: setup()   *)
(* searches once, tells the ranks of the domain which row (support) of the *)
(* coupling matrix each range entity has, and assembles the matrix row by  *)
(* row from the ranks of the domain; apply() multiplies with it, between   *)
(* MapOperator's pull of the fields from the applications and its push.    *)
(*                                                                         *)
(* Each rank calls setup() once and then apply(), alpha = 1, beta = 0.     *)
(* The search of setup() is the one search of a new ParallelSearch object. *)
(* A domain entity carries one degree of freedom and its shape function is *)
(* the constant 1 (DTK_EntityCenteredShapeFunction); a range entity has    *)
(* one support, on its own rank.  The rows of the matrix are exchanged in  *)
(* two collectives of setup(), the domain field in one message per apply() *)
(* from each rank to the ranks whose rows need it.                         *)
(***************************************************************************)
EXTENDS ParallelSearch, Sequences, Functions

CONSTANTS
  SupportOf,      \* the support id of each range entity
  KeepMissed,     \* the values "Keep Missed Range Data" may have
  FieldValues,    \* the values the application may write to the domain field
  RangeValue,     \* what the range field holds before the first apply()
  MaxApplies      \* bound: calls of apply()

Supports == {SupportOf[e] : e \in RangeEntities}

ASSUME SupportAssumption ==
  /\ DOMAIN SupportOf = RangeEntities
  /\ \A e, f \in RangeEntities : SupportOf[e] = SupportOf[f] => e = f
ASSUME KeepAssumption ==
  /\ KeepMissed \subseteq BOOLEAN
  /\ TRUE \in KeepMissed => TRUE \in TrackMissed
ASSUME FieldAssumption ==    \* so that every mean is an integer
  /\ FieldValues \subseteq Int /\ RangeValue \in Int
  /\ \A v \in FieldValues, n \in 1 .. Cardinality(DomainEntities) : v % n = 0
ASSUME CallAssumption == MaxSearches = 1 /\ MaxApplies \in Nat

VARIABLES
  d_keep_missed_sol,     \* the parameter, the same on every rank
  stage,                 \* where each rank is in setup() and apply()
  scale_vector,          \* support -> how many domain entities it was found in
  support_sends,         \* exports of (support, range id) to the domain ranks
  range_support_id_map,  \* domain side: range id, its support
  inserted_rows,         \* matrix entries a rank has inserted: row, domain id
  d_coupling_matrix,     \* the rows of a rank's own supports
  d_keep_range_vec,      \* the rows whose range data is to be kept
  applies,               \* how many calls of apply() each rank has begun
  X,                     \* the domain fields each rank has pulled, per apply()
  range_field            \* the range application's field, by support

matrixVars == <<inserted_rows, d_coupling_matrix, d_keep_range_vec>>
setupVars  == <<scale_vector, support_sends, range_support_id_map, matrixVars>>
applyVars  == <<applies, X, range_field>>
operatorVars == <<d_keep_missed_sol, stage, setupVars, applyVars>>

supportMessage == [support : Supports, id : RangeEntities, to : Ranks]

supportOwner(s) == RangeOwner[CHOOSE e \in RangeEntities : SupportOf[e] = s]

localSupports(r) == {s \in Supports : supportOwner(s) = r}

-----------------------------------------------------------------------------
\* Faulty variant: the search keeps the parameter it was given.
tracksAsGiven(keep, track) == TRUE

\* The constructor turns the tracking of misses on if missed data is kept.
tracksIfKept(keep, track) == keep => track

OperatorInit ==
  /\ Init
  /\ d_keep_missed_sol \in KeepMissed
  /\ tracksIfKept(d_keep_missed_sol, d_track_missed_range_entities)
  /\ stage = [r \in Ranks |-> "search"]
  /\ scale_vector = [r \in Ranks |-> noEntities]
  /\ support_sends = [r \in Ranks |-> {}]
  /\ range_support_id_map = [r \in Ranks |-> {}]
  /\ inserted_rows = [r \in Ranks |-> {}]
  /\ d_coupling_matrix = [r \in Ranks |-> {}]
  /\ d_keep_range_vec = [r \in Ranks |-> {}]
  /\ applies = [r \in Ranks |-> 0]
  /\ X = [r \in Ranks |-> <<>>]
  /\ range_field = [s \in Supports |-> RangeValue]

goTo(r, step) == stage' = [stage EXCEPT ![r] = step]

\* setup(): build the parallel search and search the domain with the range.
SetupSearch(r) ==
  /\ stage[r] = "search"
  /\ Step(r)
  /\ UNCHANGED operatorVars

-----------------------------------------------------------------------------
(***************************************************************************)
(* setup(): for each local range entity, note in how many domain entities  *)
(* it was found and send its support to the rank of each of them.          *)
(***************************************************************************)
domainEntitiesFromRange(r, e) ==
  {d \in DomainEntities : <<e, d>> \in d_range_to_domain_map[r]}

\* Faulty variant: the ranks are counted in place of the entities.
domainRanksFromRange(r, e) ==
  Cardinality({DomainOwner[d] : d \in domainEntitiesFromRange(r, e)})

scale(r, e) == Cardinality(domainEntitiesFromRange(r, e))

\* Faulty variant: support and id pushed in the wrong order, the ids being of
\* one type.
supportMessageSwapped(r, e, n) ==
  [support |-> e, id |-> SupportOf[e], to |-> n]

supportMessageTo(r, e, n) == [support |-> SupportOf[e], id |-> e, to |-> n]

SendSupports(r) ==
  /\ stage[r] = "search"
  /\ returned(r)
  /\ scale_vector' = [scale_vector EXCEPT ![r] =
       [s \in {SupportOf[e] : e \in DOMAIN range[r]} |->
          scale(r, CHOOSE e \in DOMAIN range[r] : SupportOf[e] = s)]]
  /\ support_sends' = [support_sends EXCEPT ![r] =
       {supportMessageTo(r, h[1], h[2][2]) :
          h \in {k \in (DOMAIN range[r]) \X d_domain_owner_ranks[r] :
                    k[2][1] \in domainEntitiesFromRange(r, k[1])}}]
  /\ goTo(r, "supports")
  /\ UNCHANGED <<vars, d_keep_missed_sol, range_support_id_map, matrixVars,
                 applyVars>>

(***************************************************************************)
(* setup(): import the supports, and insert a row entry for every range    *)
(* entity found in a local domain entity.  The row may be another rank's;  *)
(* fillComplete, which every rank enters, moves it there.                  *)
(***************************************************************************)
importSupports(r) ==
  {<<m.id, m.support>> : m \in imports(support_sends, r)}

\* Faulty variant: row and column exchanged.
columnsOf(r, supports) ==
  {<<x[2][1], x[1][2]>> :
     x \in {y \in supports \X d_domain_to_range_map[r] : y[1][1] = y[2][2]}}

rowsOf(r, supports) ==
  {<<x[1][2], x[2][1]>> :
     x \in {y \in supports \X d_domain_to_range_map[r] : y[1][1] = y[2][2]}}

InsertRows(r) ==
  /\ stage[r] = "supports"
  /\ \A s \in Ranks : stage[s] # "search"
  /\ range_support_id_map' =
       [range_support_id_map EXCEPT ![r] = importSupports(r)]
  /\ inserted_rows' = [inserted_rows EXCEPT ![r] = rowsOf(r, importSupports(r))]
  /\ goTo(r, "matrix")
  /\ UNCHANGED <<vars, d_keep_missed_sol, scale_vector, support_sends,
                 d_coupling_matrix, d_keep_range_vec, applyVars>>

\* Leave fillComplete with the rows of the local supports and, if missed data
\* is kept, mark the rows of the missed entities: the code takes the ids of
\* these entities for ids of supports.
rowsMovedTo(r) ==
  {x \in UNION {inserted_rows[s] : s \in Ranks} : x[1] \in localSupports(r)}

FillComplete(r) ==
  /\ stage[r] = "matrix"
  /\ \A s \in Ranks : stage[s] \notin {"search", "supports"}
  /\ d_coupling_matrix' = [d_coupling_matrix EXCEPT ![r] = rowsMovedTo(r)]
  /\ d_keep_range_vec' = [d_keep_range_vec EXCEPT ![r] =
       IF d_keep_missed_sol THEN d_missed_range_entity_ids[r] ELSE {}]
  /\ goTo(r, "ready")
  /\ UNCHANGED <<vars, d_keep_missed_sol, scale_vector, support_sends,
                 range_support_id_map, inserted_rows, applyVars>>

-----------------------------------------------------------------------------
(***************************************************************************)
(* apply(): pull the fields, post the values other ranks' rows need, wait  *)
(* for those the own rows need, and push the product.  A rank that needs   *)
(* nothing from a slower rank may be several calls ahead of it; messages   *)
(* of one sender do not overtake each other.                               *)
(***************************************************************************)
\* Faulty variant: a rank without rows takes no part in the product.
postedIfRows(r, x) ==
  IF d_coupling_matrix[r] = {} THEN X[r] ELSE Append(X[r], x)

posted(r, x) == Append(X[r], x)

BeginApply(r) ==
  /\ stage[r] = "ready"
  /\ applies[r] < MaxApplies
  /\ \E x \in [DOMAIN domain[r] -> FieldValues] :
       X' = [X EXCEPT ![r] = posted(r, x)]
  /\ applies' = [applies EXCEPT ![r] = @ + 1]
  /\ goTo(r, "apply")
  /\ UNCHANGED <<vars, d_keep_missed_sol, setupVars, range_field>>

columns(r, s) == {x[2] : x \in {y \in d_coupling_matrix[r] : y[1] = s}}

\* Faulty variant: the import of the first apply() is used again.
importedOnce(r, d) == X[DomainOwner[d]][1][d]

imported(r, d) == X[DomainOwner[d]][applies[r]][d]

\* Row s of the matrix, scaled with the number of entities, times the field.
product(r, s) ==
  IF columns(r, s) = {} THEN 0
  ELSE SumFunction([d \in columns(r, s) |-> imported(r, d)])
         \div scale_vector[r][s]

\* The work vector: the range data of the rows to be kept.
work(r, s) == IF s \in d_keep_range_vec[r] THEN range_field[s] ELSE 0

FinishApply(r) ==
  /\ stage[r] = "apply"
  /\ \A x \in d_coupling_matrix[r] : Len(X[DomainOwner[x[2]]]) >= applies[r]
  /\ range_field' = [s \in Supports |->
       IF s \in localSupports(r)
       THEN product(r, s) + work(r, s)
       ELSE range_field[s]]
  /\ goTo(r, "ready")
  /\ UNCHANGED <<vars, d_keep_missed_sol, setupVars, applies, X>>

-----------------------------------------------------------------------------
OperatorStep(r) ==
  \/ SetupSearch(r)
  \/ SendSupports(r)
  \/ InsertRows(r)
  \/ FillComplete(r)
  \/ BeginApply(r)
  \/ FinishApply(r)

operatorAll == <<vars, operatorVars>>

OperatorNext == \E r \in Ranks : OperatorStep(r)

\* setup() and apply() are collective calls of one program on every rank.
OperatorSpec ==
  /\ OperatorInit
  /\ [][OperatorNext]_operatorAll
  /\ \A r \in Ranks : WF_operatorAll(OperatorStep(r))

-----------------------------------------------------------------------------
(***************************************************************************)
(* Properties.                                                             *)
(***************************************************************************)
SetupTypeOK ==
  /\ d_keep_missed_sol \in BOOLEAN
  /\ stage \in [Ranks -> {"search", "supports", "matrix", "ready", "apply"}]
  /\ scale_vector \in
       [Ranks -> partialFunctions(Supports, 0 .. Cardinality(DomainEntities))]
  /\ support_sends \in [Ranks -> SUBSET supportMessage]
  /\ range_support_id_map \in [Ranks -> SUBSET (RangeEntities \X Supports)]
  /\ inserted_rows \in [Ranks -> SUBSET (Supports \X DomainEntities)]
  /\ d_coupling_matrix \in [Ranks -> SUBSET (Supports \X DomainEntities)]
  /\ d_keep_range_vec \in [Ranks -> SUBSET RangeEntities]

ApplyTypeOK ==
  /\ applies \in [Ranks -> 0 .. MaxApplies]
  /\ X \in [Ranks -> Seq(partialFunctions(DomainEntities, FieldValues))]
  /\ range_field \in [Supports -> Int]

\* Every variable of the search and of the operator has its type.
OperatorTypeOK == TypeOK /\ SetupTypeOK /\ ApplyTypeOK

isSetUp(r) == stage[r] \in {"ready", "apply"}

\* The find() of InsertRows is dereferenced without a test: on the rank of a
\* domain entity the support of every range entity found in it must be known,
\* and be the right one, whichever of its ranks the range entity was sent to.
SupportsKnown ==
  \A q \in Ranks : stage[q] \notin {"search", "supports"} =>
    \A x \in d_domain_to_range_map[q] :
      \A s \in Supports :
        <<x[2], s>> \in range_support_id_map[q] <=> s = SupportOf[x[2]]

\* The scaling is by the entries the row has in the end: rows are assembled
\* from the domain side of the graph on many ranks, the count is taken from
\* the range side on one, and a row of the matrix sums to one or is empty.
RowsNormalised ==
  \A r \in Ranks : isSetUp(r) =>
    \A e \in DOMAIN range[r] :
      scale_vector[r][SupportOf[e]] = Cardinality(columns(r, SupportOf[e]))

\* Rank r has finished an apply().
applied(r) == stage[r] = "ready" /\ applies[r] > 0

\* After its n-th apply() a rank's range field holds the mean of the domain
\* field at the domain entities its range entities were found in, as the ranks
\* of these had it in their n-th apply(), however far they have gone on since.
MeanTransferred ==
  \A r \in Ranks : applied(r) =>
    \A e \in DOMAIN range[r] :
      LET found == domainEntitiesFromRange(r, e)
      IN found # {} =>
           range_field[SupportOf[e]] * Cardinality(found)
             = SumFunction([d \in found |-> X[DomainOwner[d]][applies[r]][d]])

\* If missed data is kept, a range entity no domain entity was found for holds
\* what the application had, after any number of applications.
MissedKeepTheirData ==
  \A r \in Ranks : applied(r) /\ d_keep_missed_sol =>
    \A e \in DOMAIN range[r] :
      domainEntitiesFromRange(r, e) = {}
        => range_field[SupportOf[e]] = RangeValue

\* Every rank returns from setup() and from all its calls of apply().
TransfersReturn ==
  <>(\A r \in Ranks : stage[r] = "ready" /\ applies[r] = MaxApplies)
=============================================================================
