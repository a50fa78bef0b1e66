-------------------- MODULE ConsistentInterpolationProofs --------------------
(***************************************************************************)
(* Proofs about the setup of the consistent interpolation operator: the    *)
(* supports are known where the matrix rows are inserted, and the rows the *)
(* matrix ends up with are those the scaling counts, for any number of     *)
(* ranks and entities, any partition and any geometry; and about apply():  *)
(* found entities receive the mean of the fields of that very call, and the *)
(* data of range entities found nowhere is kept where it is to be.         *)
(***************************************************************************)
EXTENDS ConsistentInterpolation, ParallelSearchProofs, SumTheorems

\* A rank that has left the search has returned from its one search.
SearchEnded == \A r \in Ranks : stage[r] # "search" => returned(r)

\* No rank inserts rows before all have sent their supports, and none has its
\* matrix before all have inserted their rows.
StagesInOrder ==
  \A r, s \in Ranks :
    /\ stage[r] \notin {"search", "supports"} => stage[s] # "search"
    /\ isSetUp(r) => stage[s] \notin {"search", "supports"}

\* What a rank sends is right, and reaches all the ranks of the domain entities
\* its range entities were found in; its scaling counts these.
SupportsSent ==
  \A r \in Ranks : stage[r] # "search" =>
    /\ \A e \in DOMAIN range[r] : scale_vector[r][SupportOf[e]] = scale(r, e)
    /\ \A m \in support_sends[r] : m.support = SupportOf[m.id]
    /\ \A e \in RangeEntities, d \in DomainEntities :
         RangeOwner[e] = r /\ <<e, d>> \in d_range_to_domain_map[r] =>
           supportMessageTo(r, e, DomainOwner[d]) \in support_sends[r]

\* A rank has inserted one entry for each pair of its side of the graph.
RowsInserted ==
  \A q \in Ranks : stage[q] \notin {"search", "supports"} =>
    /\ \A x \in range_support_id_map[q] : x[2] = SupportOf[x[1]]
    /\ \A e \in RangeEntities, d \in DomainEntities :
         /\ <<d, e>> \in d_domain_to_range_map[q]
              => <<e, SupportOf[e]>> \in range_support_id_map[q]
         /\ <<SupportOf[e], d>> \in inserted_rows[q]
              <=> <<d, e>> \in d_domain_to_range_map[q]

\* The matrix of a rank has one entry for each pair of its side of the graph.
RowsMoved ==
  \A r \in Ranks : isSetUp(r) =>
    \A e \in RangeEntities, d \in DomainEntities : RangeOwner[e] = r =>
      (<<SupportOf[e], d>> \in d_coupling_matrix[r]
         <=> <<e, d>> \in d_range_to_domain_map[r])

\* The inductive invariant, on top of that of the search.
SetupInv == /\ SetupTypeOK /\ SearchEnded /\ StagesInOrder
            /\ SupportsSent /\ RowsInserted /\ RowsMoved

-----------------------------------------------------------------------------
(***************************************************************************)
(* What the steps read and write.                                          *)
(***************************************************************************)

\* The search state of a rank that has left the search does not change.
LEMMA SearchFrozen ==
  ASSUME SearchInv, SetupInv, NEW r \in Ranks, OperatorStep(r),
         NEW s \in Ranks, stage[s] # "search"
  PROVE  /\ pc'[s] = pc[s] /\ searches'[s] = searches[s]
         /\ range'[s] = range[s] /\ domain'[s] = domain[s]
         /\ d_domain_to_range_map'[s] = d_domain_to_range_map[s]
         /\ d_range_to_domain_map'[s] = d_range_to_domain_map[s]
<1>1. CASE SetupSearch(r)
  <2>1. s # r /\ Step(r)
    BY <1>1 DEF SetupSearch
  <2> QED
    BY <2>1, OthersKeep, StepOfRank DEF SearchInv
<1>2. CASE ~ SetupSearch(r)
  BY <1>2 DEF OperatorStep, SendSupports, InsertRows, FillComplete, BeginApply,
              FinishApply, vars, callVars, inputVars, domainVars, rangeVars
<1> QED
  BY <1>1, <1>2

LEMMA OperatorSearchStep ==
  ASSUME SearchInv, NEW r \in Ranks, OperatorStep(r)
  PROVE  SearchInv'
<1>1. [Next]_vars
  BY DEF OperatorStep, SetupSearch, SendSupports, InsertRows, FillComplete,
         BeginApply, FinishApply, Next
<1> QED
  BY <1>1, SearchInvStep

\* The steps that build the matrix are the only ones that write its parts.
LEMMA SetupKept ==
  ASSUME SetupTypeOK, NEW r \in Ranks, OperatorStep(r), NEW s \in Ranks
  PROVE  /\ ~ (s = r /\ stage[r] = "search") =>
              /\ scale_vector'[s] = scale_vector[s]
              /\ support_sends'[s] = support_sends[s]
         /\ ~ (s = r /\ stage[r] = "supports") =>
              /\ range_support_id_map'[s] = range_support_id_map[s]
              /\ inserted_rows'[s] = inserted_rows[s]
         /\ ~ (s = r /\ stage[r] = "matrix") =>
              d_coupling_matrix'[s] = d_coupling_matrix[s]
         /\ s # r => stage'[s] = stage[s]
         /\ \/ stage[r] = "search"   /\ stage'[r] \in {"search", "supports"}
            \/ stage[r] = "supports" /\ stage'[r] = "matrix"
            \/ stage[r] = "matrix"   /\ stage'[r] = "ready"
            \/ stage[r] = "ready"    /\ stage'[r] = "apply"
            \/ stage[r] = "apply"    /\ stage'[r] = "ready"
BY DEF OperatorStep, SetupSearch, SendSupports, InsertRows, FillComplete,
       BeginApply, FinishApply, operatorVars, setupVars, matrixVars, goTo,
       SetupTypeOK

-----------------------------------------------------------------------------
(***************************************************************************)
(* Types.                                                                  *)
(***************************************************************************)
LEMMA SetupTypeInit == OperatorInit => SetupTypeOK
<1> SUFFICES ASSUME OperatorInit PROVE SetupTypeOK
  OBVIOUS
<1>1. noEntities \in partialFunctions(Supports, 0 .. Cardinality(DomainEntities))
  BY DEF noEntities, partialFunctions
<1>2. d_keep_missed_sol \in BOOLEAN
  BY KeepAssumption DEF OperatorInit
<1> QED
  BY <1>1, <1>2 DEF OperatorInit, SetupTypeOK

\* A range entity is found in at most all the domain entities.
LEMMA ScaleType ==
  ASSUME NEW r, NEW e
  PROVE  scale(r, e) \in 0 .. Cardinality(DomainEntities)
<1> DEFINE D == domainEntitiesFromRange(r, e)
<1>1. D \subseteq DomainEntities
  BY DEF domainEntitiesFromRange
<1>2. /\ IsFiniteSet(D)
      /\ Cardinality(D) <= Cardinality(DomainEntities)
  BY <1>1, FS_Subset, EntityAssumption
<1>3. Cardinality(D) \in Nat /\ Cardinality(DomainEntities) \in Nat
  BY <1>2, FS_CardinalityType, EntityAssumption
<1> HIDE DEF D
<1> QED
  BY <1>2, <1>3 DEF D, scale

\* The rows a rank inserts are of the pairs of its side of the graph.
LEMMA RowsOfPairs ==
  ASSUME NEW r \in Ranks, NEW S \in SUBSET (RangeEntities \X Supports),
         d_domain_to_range_map[r] \in SUBSET (DomainEntities \X RangeEntities)
  PROVE  /\ rowsOf(r, S) \in SUBSET (Supports \X DomainEntities)
         /\ \A t \in Supports, d \in DomainEntities :
              <<t, d>> \in rowsOf(r, S) <=>
                \E e \in RangeEntities : /\ <<e, t>> \in S
                                         /\ <<d, e>> \in d_domain_to_range_map[r]
<1>1. ASSUME NEW x \in rowsOf(r, S)
      PROVE  \E t \in Supports, d \in DomainEntities, e \in RangeEntities :
               x = <<t, d>> /\ <<e, t>> \in S /\ <<d, e>> \in d_domain_to_range_map[r]
  <2>1. PICK a \in S, b \in d_domain_to_range_map[r] :
          a[1] = b[2] /\ x = <<a[2], b[1]>>
    BY <1>1 DEF rowsOf
  <2>2. a = <<a[1], a[2]>> /\ b = <<b[1], b[2]>>
    OBVIOUS
  <2> QED
    BY <2>1, <2>2
<1>2. ASSUME NEW t \in Supports, NEW d \in DomainEntities, NEW e \in RangeEntities,
             <<e, t>> \in S, <<d, e>> \in d_domain_to_range_map[r]
      PROVE  <<t, d>> \in rowsOf(r, S)
  <2>1. <<(<<e, t>>), (<<d, e>>)>> \in S \X d_domain_to_range_map[r]
    BY <1>2
  <2> QED
    BY <2>1 DEF rowsOf
<1>3. ASSUME NEW x \in rowsOf(r, S) PROVE x \in Supports \X DomainEntities
  <2>1. PICK t \in Supports, d \in DomainEntities : x = <<t, d>>
    BY <1>1, <1>3
  <2> QED
    BY <2>1
<1>4. ASSUME NEW t \in Supports, NEW d \in DomainEntities,
             <<t, d>> \in rowsOf(r, S)
      PROVE  \E e \in RangeEntities : /\ <<e, t>> \in S
                                      /\ <<d, e>> \in d_domain_to_range_map[r]
  <2>1. PICK t2 \in Supports, d2 \in DomainEntities, e \in RangeEntities :
          /\ <<t, d>> = <<t2, d2>>
          /\ <<e, t2>> \in S /\ <<d2, e>> \in d_domain_to_range_map[r]
    BY <1>1, <1>4
  <2>2. t = t2 /\ d = d2
    BY <2>1
  <2> QED
    BY <2>1, <2>2
<1> QED
  BY <1>2, <1>3, <1>4

LEMMA ImportType ==
  ASSUME SetupTypeOK, NEW r \in Ranks
  PROVE  importSupports(r) \in SUBSET (RangeEntities \X Supports)
BY DEF importSupports, imports, SetupTypeOK, supportMessage

LEMMA SetupTypeStep ==
  ASSUME SearchInv, SetupTypeOK, NEW r \in Ranks, OperatorStep(r)
  PROVE  SetupTypeOK'
<1> USE DEF SetupTypeOK, operatorVars, setupVars, matrixVars, goTo
<1>1. CASE SetupSearch(r)
  BY <1>1 DEF SetupSearch
<1>2. CASE SendSupports(r)
  <2>1. scale_vector'[r] \in
          partialFunctions(Supports, 0 .. Cardinality(DomainEntities))
    <3> DEFINE T == {SupportOf[e] : e \in DOMAIN range[r]}
               f == [t \in T |-> scale(r, CHOOSE e \in DOMAIN range[r] :
                                             SupportOf[e] = t)]
    <3>1. f \in [T -> 0 .. Cardinality(DomainEntities)]
      BY ScaleType
    <3>2. DOMAIN range[r] \subseteq RangeEntities
      BY DEF SearchInv, TypeOK, partialFunctions
    <3>3. T \in SUBSET Supports
      BY <3>2 DEF Supports
    <3>4. scale_vector'[r] = f
      BY <1>2 DEF SendSupports
    <3> HIDE DEF f, T
    <3> QED
      BY <3>1, <3>3, <3>4 DEF partialFunctions
  <2>2. support_sends'[r] \in SUBSET supportMessage
    <3> SUFFICES ASSUME NEW m \in support_sends'[r] PROVE m \in supportMessage
      OBVIOUS
    <3>1. PICK e \in DOMAIN range[r], k \in d_domain_owner_ranks[r] :
            m = supportMessageTo(r, e, k[2])
      BY <1>2 DEF SendSupports
    <3>2. e \in RangeEntities /\ k[2] \in Ranks
      BY DEF SearchInv, TypeOK, partialFunctions
    <3> QED
      BY <3>1, <3>2 DEF supportMessageTo, supportMessage, Supports
  <2>3. /\ \A s \in Ranks \ {r} : /\ scale_vector'[s] = scale_vector[s]
                                  /\ support_sends'[s] = support_sends[s]
        /\ DOMAIN scale_vector' = Ranks /\ DOMAIN support_sends' = Ranks
        /\ scale_vector' = [s \in Ranks |-> scale_vector'[s]]
        /\ support_sends' = [s \in Ranks |-> support_sends'[s]]
    BY <1>2 DEF SendSupports
  <2>4. scale_vector' \in
          [Ranks -> partialFunctions(Supports, 0 .. Cardinality(DomainEntities))]
    BY <2>1, <2>3
  <2>5. support_sends' \in [Ranks -> SUBSET supportMessage]
    BY <2>2, <2>3
  <2> QED
    BY <1>2, <2>4, <2>5 DEF SendSupports
<1>3. CASE InsertRows(r)
  <2>1. /\ importSupports(r) \in SUBSET (RangeEntities \X Supports)
        /\ rowsOf(r, importSupports(r)) \in SUBSET (Supports \X DomainEntities)
    BY ImportType, RowsOfPairs DEF SearchInv, TypeOK
  <2> QED
    BY <1>3, <2>1 DEF InsertRows
<1>4. CASE FillComplete(r)
  <2>1. rowsMovedTo(r) \in SUBSET (Supports \X DomainEntities)
    BY DEF rowsMovedTo
  <2>2. d_missed_range_entity_ids[r] \in SUBSET RangeEntities
    BY DEF SearchInv, TypeOK
  <2> QED
    BY <1>4, <2>1, <2>2 DEF FillComplete
<1>5. CASE BeginApply(r)
  BY <1>5 DEF BeginApply
<1>6. CASE FinishApply(r)
  BY <1>6 DEF FinishApply
<1> QED
  BY <1>1, <1>2, <1>3, <1>4, <1>5, <1>6 DEF OperatorStep

-----------------------------------------------------------------------------
(***************************************************************************)
(* The parts of the invariant.                                             *)
(***************************************************************************)
LEMMA SearchEndedStep ==
  ASSUME SearchInv, SetupInv, NEW r \in Ranks, OperatorStep(r)
  PROVE  SearchEnded'
<1> USE DEF SetupInv
<1> SUFFICES ASSUME NEW s \in Ranks, stage'[s] # "search" PROVE returned(s)'
  BY DEF SearchEnded
<1>1. CASE stage[s] # "search"
  BY <1>1, SearchFrozen DEF SearchEnded, returned
<1>2. CASE stage[s] = "search"
  <2>1. s = r /\ SendSupports(r)
    BY <1>2 DEF OperatorStep, SetupSearch, SendSupports, InsertRows,
       FillComplete, BeginApply, FinishApply, operatorVars, goTo, SetupTypeOK
  <2> QED
    BY <2>1 DEF SendSupports, returned, vars, callVars
<1> QED
  BY <1>1, <1>2

LEMMA StagesInOrderStep ==
  ASSUME SearchInv, SetupInv, NEW r \in Ranks, OperatorStep(r)
  PROVE  StagesInOrder'
<1> USE DEF SetupInv, isSetUp
<1>1. /\ stage[r] = "supports" => \A s \in Ranks : stage[s] # "search"
      /\ stage[r] = "matrix" =>
           \A s \in Ranks : stage[s] \notin {"search", "supports"}
  BY DEF OperatorStep, SetupSearch, SendSupports, InsertRows, FillComplete,
         BeginApply, FinishApply
<1> QED
  BY <1>1, SetupKept DEF StagesInOrder

LEMMA SupportsSentStep ==
  ASSUME SearchInv, SetupInv, NEW r \in Ranks, OperatorStep(r)
  PROVE  SupportsSent'
<1> USE DEF SetupInv
<1> SUFFICES ASSUME NEW s \in Ranks, stage'[s] # "search"
             PROVE  SupportsSent!(s)!2'
  BY DEF SupportsSent
<1>1. CASE stage[s] # "search"
  <2>1. /\ range'[s] = range[s]
        /\ d_range_to_domain_map'[s] = d_range_to_domain_map[s]
        /\ scale_vector'[s] = scale_vector[s]
        /\ support_sends'[s] = support_sends[s]
    BY <1>1, SearchFrozen, SetupKept
  <2> QED
    BY <1>1, <2>1 DEF SupportsSent, scale, domainEntitiesFromRange
<1>2. CASE stage[s] = "search"
  <2>1. s = r /\ SendSupports(r)
    BY <1>2 DEF OperatorStep, SetupSearch, SendSupports, InsertRows,
       FillComplete, BeginApply, FinishApply, operatorVars, goTo, SetupTypeOK
  <2>2. /\ range'[r] = range[r] /\ returned(r)
        /\ d_range_to_domain_map' = d_range_to_domain_map
    BY <2>1 DEF SendSupports, vars, inputVars, rangeVars
  <2>3. DOMAIN range[r] \subseteq RangeEntities
    BY DEF SearchInv, TypeOK, partialFunctions
  <2>4. ASSUME NEW e \in DOMAIN range[r]
        PROVE  scale_vector'[r][SupportOf[e]] = scale(r, e)
    <3>1. (CHOOSE f \in DOMAIN range[r] : SupportOf[f] = SupportOf[e]) = e
      BY <2>3, SupportAssumption
    <3>2. scale_vector'[r] =
            [t \in {SupportOf[f] : f \in DOMAIN range[r]} |->
               scale(r, CHOOSE f \in DOMAIN range[r] : SupportOf[f] = t)]
      BY <2>1 DEF SendSupports, SetupTypeOK
    <3> QED
      BY <3>1, <3>2
  <2> DEFINE H == {k \in (DOMAIN range[r]) \X d_domain_owner_ranks[r] :
                     k[2][1] \in domainEntitiesFromRange(r, k[1])}
  <2>5. support_sends'[r] = {supportMessageTo(r, h[1], h[2][2]) : h \in H}
    BY <2>1 DEF SendSupports, SetupTypeOK
  <2>6. \A m \in support_sends'[r] : m.support = SupportOf[m.id]
    BY <2>5 DEF supportMessageTo
  <2>7. ASSUME NEW e \in RangeEntities, NEW d \in DomainEntities,
               RangeOwner[e] = r, <<e, d>> \in d_range_to_domain_map[r]
        PROVE  supportMessageTo(r, e, DomainOwner[d]) \in support_sends'[r]
    <3>1. /\ e \in DOMAIN range[r]
          /\ <<d, DomainOwner[d]>> \in d_domain_owner_ranks[r]
      BY <2>2, <2>7, RangePair, CallAssumption
    <3>2. d \in domainEntitiesFromRange(r, e)
      BY <2>7 DEF domainEntitiesFromRange
    <3> DEFINE h == <<e, <<d, DomainOwner[d]>>>>
    <3>3. h \in H
      BY <3>1, <3>2
    <3>4. h[1] = e /\ h[2][2] = DomainOwner[d]
      OBVIOUS
    <3> QED
      BY <2>5, <3>3, <3>4
  <2>8. \A e \in DOMAIN range[r] : scale(r, e)' = scale(r, e)
    BY <2>2 DEF scale, domainEntitiesFromRange
  <2> QED
    BY <2>1, <2>2, <2>4, <2>6, <2>7, <2>8 DEF supportMessageTo
<1> QED
  BY <1>1, <1>2

\* What rank q imports are the supports of the range entities found in it.
LEMMA Imported ==
  ASSUME SearchInv, SetupInv, NEW q \in Ranks,
         \A s \in Ranks : stage[s] # "search"
  PROVE  /\ \A x \in importSupports(q) : x[2] = SupportOf[x[1]]
         /\ \A e \in RangeEntities, d \in DomainEntities :
              <<d, e>> \in d_domain_to_range_map[q]
                => <<e, SupportOf[e]>> \in importSupports(q)
<1> USE DEF SetupInv
<1>1. \A x \in importSupports(q) : x[2] = SupportOf[x[1]]
  BY DEF importSupports, imports, SupportsSent
<1>2. ASSUME NEW e \in RangeEntities, NEW d \in DomainEntities,
             <<d, e>> \in d_domain_to_range_map[q]
      PROVE  <<e, SupportOf[e]>> \in importSupports(q)
  <2> DEFINE p == RangeOwner[e]
  <2>1. p \in Ranks /\ returned(p) /\ returned(q)
    BY OwnerAssumption DEF SearchEnded
  <2>2. DomainOwner[d] = q /\ <<e, d>> \in d_range_to_domain_map[p]
    BY <1>2, <2>1, DomainPair, CallAssumption
  <2>3. supportMessageTo(p, e, q) \in support_sends[p]
    BY <2>1, <2>2 DEF SupportsSent
  <2>4. supportMessageTo(p, e, q) \in imports(support_sends, q)
    BY <2>1, <2>3 DEF imports, supportMessageTo
  <2> QED
    BY <2>4 DEF importSupports, supportMessageTo
<1> QED
  BY <1>1, <1>2

LEMMA RowsInsertedStep ==
  ASSUME SearchInv, SetupInv, NEW r \in Ranks, OperatorStep(r)
  PROVE  RowsInserted'
<1> USE DEF SetupInv
<1> SUFFICES ASSUME NEW q \in Ranks, stage'[q] \notin {"search", "supports"}
             PROVE  RowsInserted!(q)!2'
  BY DEF RowsInserted
<1>1. CASE stage[q] \notin {"search", "supports"}
  <2>1. /\ d_domain_to_range_map'[q] = d_domain_to_range_map[q]
        /\ range_support_id_map'[q] = range_support_id_map[q]
        /\ inserted_rows'[q] = inserted_rows[q]
    BY <1>1, SearchFrozen, SetupKept
  <2> QED
    BY <1>1, <2>1 DEF RowsInserted
<1>2. CASE stage[q] \in {"search", "supports"}
  <2>1. q = r /\ InsertRows(r)
    BY <1>2 DEF OperatorStep, SetupSearch, SendSupports, InsertRows,
       FillComplete, BeginApply, FinishApply, operatorVars, goTo, SetupTypeOK
  <2> DEFINE S == importSupports(r)
  <2>2. /\ range_support_id_map'[r] = S
        /\ inserted_rows'[r] = rowsOf(r, S)
        /\ d_domain_to_range_map' = d_domain_to_range_map
    BY <2>1 DEF InsertRows, SetupTypeOK, vars, domainVars
  <2>3. \A s \in Ranks : stage[s] # "search"
    BY <2>1 DEF InsertRows
  <2>4. /\ \A x \in S : x[2] = SupportOf[x[1]]
        /\ \A e \in RangeEntities, d \in DomainEntities :
             <<d, e>> \in d_domain_to_range_map[r] => <<e, SupportOf[e]>> \in S
    BY <2>3, Imported
  <2>5. S \in SUBSET (RangeEntities \X Supports)
    BY ImportType
  <2> HIDE DEF S
  <2>6. \A t \in Supports, d \in DomainEntities :
          <<t, d>> \in rowsOf(r, S) <=>
            \E e \in RangeEntities : /\ <<e, t>> \in S
                                     /\ <<d, e>> \in d_domain_to_range_map[r]
    BY <2>5, RowsOfPairs DEF SearchInv, TypeOK
  <2>7. ASSUME NEW e \in RangeEntities, NEW d \in DomainEntities
        PROVE  <<SupportOf[e], d>> \in rowsOf(r, S)
                 <=> <<d, e>> \in d_domain_to_range_map[r]
    <3>1. SupportOf[e] \in Supports
      BY DEF Supports
    <3>2. \A f \in RangeEntities : <<f, SupportOf[e]>> \in S => f = e
      BY <2>4, SupportAssumption
    <3> QED
      BY <2>4, <2>6, <3>1, <3>2
  <2> QED
    BY <2>1, <2>2, <2>4, <2>7
<1> QED
  BY <1>1, <1>2

LEMMA RowsMovedStep ==
  ASSUME SearchInv, SetupInv, NEW r \in Ranks, OperatorStep(r)
  PROVE  RowsMoved'
<1> USE DEF SetupInv, isSetUp
<1> SUFFICES ASSUME NEW q \in Ranks, isSetUp(q)',
                    NEW e \in RangeEntities, NEW d \in DomainEntities,
                    RangeOwner[e] = q
             PROVE  (<<SupportOf[e], d>> \in d_coupling_matrix[q]
                       <=> <<e, d>> \in d_range_to_domain_map[q])'
  BY DEF RowsMoved
<1>1. CASE isSetUp(q)
  <2>1. /\ d_range_to_domain_map'[q] = d_range_to_domain_map[q]
        /\ d_coupling_matrix'[q] = d_coupling_matrix[q]
    BY <1>1, SearchFrozen, SetupKept
  <2> QED
    BY <1>1, <2>1 DEF RowsMoved
<1>2. CASE ~ isSetUp(q)
  <2>1. q = r /\ FillComplete(r)
    BY <1>2 DEF OperatorStep, SetupSearch, SendSupports, InsertRows,
       FillComplete, BeginApply, FinishApply, operatorVars, goTo, SetupTypeOK
  <2>2. /\ d_coupling_matrix'[r] = rowsMovedTo(r)
        /\ d_range_to_domain_map' = d_range_to_domain_map
        /\ \A s \in Ranks : stage[s] \notin {"search", "supports"}
    BY <2>1 DEF FillComplete, SetupTypeOK, vars, rangeVars
  <2>3. SupportOf[e] \in localSupports(r)
    <3>1. SupportOf[e] \in Supports
      BY DEF Supports
    <3>2. (CHOOSE f \in RangeEntities : SupportOf[f] = SupportOf[e]) = e
      BY SupportAssumption
    <3> QED
      BY <2>1, <3>1, <3>2 DEF localSupports, supportOwner
  <2>4. <<SupportOf[e], d>> \in rowsMovedTo(r)
          <=> \E s \in Ranks : <<SupportOf[e], d>> \in inserted_rows[s]
    BY <2>3 DEF rowsMovedTo
  <2>5. \A s \in Ranks : <<SupportOf[e], d>> \in inserted_rows[s]
                           <=> <<d, e>> \in d_domain_to_range_map[s]
    BY <2>2 DEF RowsInserted
  <2>6. \A s \in Ranks :
          <<d, e>> \in d_domain_to_range_map[s]
            <=> DomainOwner[d] = s /\ <<e, d>> \in d_range_to_domain_map[r]
    <3>1. \A s \in Ranks : returned(s)
      BY <2>2 DEF SearchEnded
    <3> QED
      BY <2>1, <3>1, DomainPair, CallAssumption
  <2>7. DomainOwner[d] \in Ranks
    BY OwnerAssumption
  <2> QED
    BY <2>1, <2>2, <2>4, <2>5, <2>6, <2>7
<1> QED
  BY <1>1, <1>2

-----------------------------------------------------------------------------
(***************************************************************************)
(* The theorems.                                                           *)
(***************************************************************************)

\* The invariant of the search and that of the setup hold throughout.
THEOREM SetupInvariant == OperatorSpec => [](SearchInv /\ SetupInv)
<1>1. OperatorInit => SearchInv /\ SetupInv
  <2> SUFFICES ASSUME OperatorInit PROVE SearchInv /\ SetupInv
    OBVIOUS
  <2>1. SearchInv
    BY SearchInvInit DEF OperatorInit
  <2>2. \A r \in Ranks : stage[r] = "search"
    BY DEF OperatorInit
  <2> QED
    BY <2>1, <2>2, SetupTypeInit DEF SetupInv, SearchEnded, StagesInOrder,
       SupportsSent, RowsInserted, RowsMoved, isSetUp
<1>2. SearchInv /\ SetupInv /\ [OperatorNext]_operatorAll
        => (SearchInv /\ SetupInv)'
  <2> SUFFICES ASSUME SearchInv, SetupInv, [OperatorNext]_operatorAll
               PROVE  (SearchInv /\ SetupInv)'
    OBVIOUS
  <2>1. ASSUME NEW r \in Ranks, OperatorStep(r) PROVE (SearchInv /\ SetupInv)'
    <3>1. SearchInv' /\ SetupTypeOK'
      BY <2>1, OperatorSearchStep, SetupTypeStep DEF SetupInv
    <3>2. SearchEnded' /\ StagesInOrder' /\ SupportsSent'
      BY <2>1, SearchEndedStep, StagesInOrderStep, SupportsSentStep
    <3>3. RowsInserted' /\ RowsMoved'
      BY <2>1, RowsInsertedStep, RowsMovedStep
    <3> QED
      BY <3>1, <3>2, <3>3 DEF SetupInv
  <2>2. CASE UNCHANGED operatorAll
    <3>1. UNCHANGED vars /\ UNCHANGED operatorVars
      BY <2>2 DEF operatorAll
    <3>2. SearchInv'
      BY <3>1, SearchInvStep
    <3>3. /\ UNCHANGED <<searches, pc, range>>
          /\ UNCHANGED <<d_range_to_domain_map, d_domain_to_range_map>>
      BY <3>1 DEF vars, callVars, inputVars, domainVars, rangeVars
    <3>4. SetupTypeOK' /\ SearchEnded' /\ StagesInOrder'
      BY <3>1, <3>3 DEF SetupInv, SetupTypeOK, SearchEnded, StagesInOrder,
         operatorVars, setupVars, matrixVars, returned, isSetUp
    <3>5. SupportsSent' /\ RowsInserted' /\ RowsMoved'
      BY <3>1, <3>3 DEF SetupInv, SupportsSent, RowsInserted, RowsMoved,
         operatorVars, setupVars, matrixVars, isSetUp, scale,
         domainEntitiesFromRange, supportMessageTo
    <3> QED
      BY <3>2, <3>4, <3>5 DEF SetupInv
  <2> QED
    BY <2>1, <2>2 DEF OperatorNext
<1> QED
  BY <1>1, <1>2, PTL DEF OperatorSpec

\* On the rank of a domain entity the one right support is known of every range
\* entity found in it, so that no row is inserted without one.
THEOREM SupportsAreKnown == OperatorSpec => []SupportsKnown
<1>1. SearchInv /\ SetupInv => SupportsKnown
  <2> SUFFICES ASSUME SearchInv, SetupInv, NEW q \in Ranks,
                      stage[q] \notin {"search", "supports"},
                      NEW x \in d_domain_to_range_map[q], NEW s \in Supports
               PROVE  <<x[2], s>> \in range_support_id_map[q]
                        <=> s = SupportOf[x[2]]
    BY DEF SupportsKnown
  <2>1. x = <<x[1], x[2]>> /\ x[1] \in DomainEntities /\ x[2] \in RangeEntities
    BY DEF SearchInv, TypeOK
  <2>2. <<x[2], SupportOf[x[2]]>> \in range_support_id_map[q]
    BY <2>1 DEF SetupInv, RowsInserted
  <2>3. <<x[2], s>> \in range_support_id_map[q] => s = SupportOf[x[2]]
    BY DEF SetupInv, RowsInserted
  <2> QED
    BY <2>2, <2>3
<1> QED
  BY <1>1, SetupInvariant, PTL

\* The columns of a row are the domain entities the range entity was found in.
LEMMA ColumnsFound ==
  ASSUME SearchInv, SetupInv, NEW r \in Ranks, isSetUp(r),
         NEW e \in DOMAIN range[r]
  PROVE  /\ e \in RangeEntities /\ RangeOwner[e] = r
         /\ columns(r, SupportOf[e]) = domainEntitiesFromRange(r, e)
         /\ scale_vector[r][SupportOf[e]] = Cardinality(domainEntitiesFromRange(r, e))
<1>1. e \in RangeEntities /\ RangeOwner[e] = r
  BY OwnerAssumption DEF SearchInv, InputInv, LocalInputs, localEntities
<1>2. \A d \in DomainEntities :
        <<SupportOf[e], d>> \in d_coupling_matrix[r]
          <=> <<e, d>> \in d_range_to_domain_map[r]
  BY <1>1 DEF SetupInv, RowsMoved
<1>3. \A x \in d_coupling_matrix[r] : x = <<x[1], x[2]>> /\ x[2] \in DomainEntities
  BY DEF SetupInv, SetupTypeOK
<1>4. ASSUME NEW d \in columns(r, SupportOf[e])
      PROVE  d \in domainEntitiesFromRange(r, e)
  <2>1. PICK x \in d_coupling_matrix[r] : x[1] = SupportOf[e] /\ x[2] = d
    BY <1>4 DEF columns
  <2>2. d \in DomainEntities /\ x = <<SupportOf[e], d>>
    BY <1>3, <2>1
  <2> QED
    BY <1>2, <2>1, <2>2 DEF domainEntitiesFromRange
<1>5. ASSUME NEW d \in domainEntitiesFromRange(r, e)
      PROVE  d \in columns(r, SupportOf[e])
  <2>1. <<SupportOf[e], d>> \in d_coupling_matrix[r]
    BY <1>2, <1>5 DEF domainEntitiesFromRange
  <2> QED
    BY <2>1 DEF columns
<1>6. stage[r] # "search"
  BY DEF isSetUp
<1> QED
  BY <1>1, <1>4, <1>5, <1>6 DEF SetupInv, SupportsSent, scale

\* A row of the matrix has as many entries as its scaling counts.
THEOREM RowsAreNormalised == OperatorSpec => []RowsNormalised
<1>1. SearchInv /\ SetupInv => RowsNormalised
  BY ColumnsFound DEF RowsNormalised
<1> QED
  BY <1>1, SetupInvariant, PTL

-----------------------------------------------------------------------------
(***************************************************************************)
(* Missed data is kept: no rank is without domain entities, and supports   *)
(* are numbered like the range entities.                                   *)
(***************************************************************************)
SameIds == \A e \in RangeEntities : SupportOf[e] = e

\* The rows a rank keeps are those of the entities its search missed.
RowsKept ==
  d_keep_missed_sol =>
    /\ d_track_missed_range_entities
    /\ \A r \in Ranks : isSetUp(r) =>
         d_keep_range_vec[r] = d_missed_range_entity_ids[r]

\* Whoever has not been found holds what the application had.
DataKept ==
  d_keep_missed_sol =>
    \A e \in RangeEntities :
      LET r == RangeOwner[e]
      IN ~ isSetUp(r) \/ (e \in DOMAIN range[r] /\ domainEntitiesFromRange(r, e) = {})
           => range_field[SupportOf[e]] = RangeValue

KeptInv == AccountInv /\ FoundBacked /\ RowsKept /\ DataKept

LEMMA RowsKeptStep ==
  ASSUME SearchInv, SetupInv, RowsKept, NEW r \in Ranks, OperatorStep(r)
  PROVE  RowsKept'
<1> USE DEF SetupInv
<1>1. /\ d_keep_missed_sol' = d_keep_missed_sol
      /\ d_track_missed_range_entities' = d_track_missed_range_entities
  BY StepOfRank DEF OperatorStep, SetupSearch, SendSupports, InsertRows,
     FillComplete, BeginApply, FinishApply, operatorVars, vars, SearchInv
<1> SUFFICES ASSUME d_keep_missed_sol, NEW s \in Ranks, isSetUp(s)'
             PROVE  d_keep_range_vec'[s] = d_missed_range_entity_ids'[s]
  BY <1>1 DEF RowsKept
<1>2. CASE isSetUp(s)
  <2>1. d_keep_range_vec'[s] = d_keep_range_vec[s]
    BY <1>2 DEF isSetUp, OperatorStep, SetupSearch, SendSupports, InsertRows,
       FillComplete, BeginApply, FinishApply, operatorVars, setupVars,
       matrixVars, SetupTypeOK
  <2>2. d_missed_range_entity_ids'[s] = d_missed_range_entity_ids[s]
    <3>1. CASE SetupSearch(r)
      <4>1. s # r /\ Step(r)
        BY <1>2, <3>1 DEF SetupSearch, isSetUp
      <4> QED
        BY <4>1, MissedKept DEF SearchInv
    <3>2. CASE ~ SetupSearch(r)
      BY <3>2 DEF OperatorStep, SendSupports, InsertRows, FillComplete,
         BeginApply, FinishApply, vars
    <3> QED
      BY <3>1, <3>2
  <2> QED
    BY <1>2, <2>1, <2>2 DEF RowsKept
<1>3. CASE ~ isSetUp(s)
  <2>1. s = r /\ FillComplete(r)
    BY <1>3 DEF isSetUp, OperatorStep, SetupSearch, SendSupports, InsertRows,
       FillComplete, BeginApply, FinishApply, operatorVars, goTo, SetupTypeOK
  <2> QED
    BY <2>1 DEF FillComplete, vars, SetupTypeOK
<1> QED
  BY <1>2, <1>3

\* The row of a range entity found nowhere is empty.
LEMMA EmptyRow ==
  ASSUME SearchInv, SetupInv, NEW e \in RangeEntities, isSetUp(RangeOwner[e]),
         domainEntitiesFromRange(RangeOwner[e], e) = {}
  PROVE  product(RangeOwner[e], SupportOf[e]) = 0
<1> DEFINE r == RangeOwner[e]
<1>1. r \in Ranks
  BY OwnerAssumption
<1>2. \A x \in d_coupling_matrix[r] : x[2] \in DomainEntities /\ x = <<x[1], x[2]>>
  BY <1>1 DEF SetupInv, SetupTypeOK
<1>3. \A d \in DomainEntities : <<SupportOf[e], d>> \notin d_coupling_matrix[r]
  BY <1>1 DEF SetupInv, RowsMoved, domainEntitiesFromRange
<1>4. columns(r, SupportOf[e]) = {}
  BY <1>2, <1>3 DEF columns
<1> QED
  BY <1>4, Zenon DEF product

LEMMA DataKeptStep ==
  ASSUME SameIds, SearchInv, SetupInv, KeptInv, NEW r \in Ranks, OperatorStep(r)
  PROVE  DataKept'
<1> USE DEF SetupInv, KeptInv
<1>1. d_keep_missed_sol' = d_keep_missed_sol
  BY DEF OperatorStep, SetupSearch, SendSupports, InsertRows, FillComplete,
     BeginApply, FinishApply, operatorVars
<1> SUFFICES ASSUME d_keep_missed_sol, NEW e \in RangeEntities,
                    \/ ~ isSetUp(RangeOwner[e])'
                    \/ /\ e \in DOMAIN range'[RangeOwner[e]]
                       /\ domainEntitiesFromRange(RangeOwner[e], e)' = {}
             PROVE  range_field'[SupportOf[e]] = RangeValue
  BY <1>1 DEF DataKept
<1> DEFINE p == RangeOwner[e]
           s == SupportOf[e]
<1>2. p \in Ranks /\ s \in Supports /\ s = e
  BY OwnerAssumption DEF Supports, SameIds
<1>3. supportOwner(s) = p
  BY SupportAssumption DEF supportOwner
<1>4. ~ isSetUp(p) \/ (/\ e \in DOMAIN range[p]
                       /\ domainEntitiesFromRange(p, e) = {})
  <2>1. CASE stage[p] = "search"
    BY <2>1 DEF isSetUp
  <2>2. CASE stage[p] # "search"
    <3>1. /\ range'[p] = range[p]
          /\ d_range_to_domain_map'[p] = d_range_to_domain_map[p]
      BY <1>2, <2>2, SearchFrozen
    <3>2. isSetUp(p) => isSetUp(p)'
      BY <1>2, SetupKept DEF isSetUp
    <3> QED
      BY <3>1, <3>2 DEF domainEntitiesFromRange
  <2> QED
    BY <2>1, <2>2
<1>5. range_field[s] = RangeValue
  BY <1>4 DEF DataKept
<1>6. CASE FinishApply(r) /\ r = p
  <2>1. isSetUp(p) /\ returned(p)
    BY <1>2, <1>6 DEF FinishApply, isSetUp, SearchEnded
  <2>2. e \in DOMAIN range[p] /\ domainEntitiesFromRange(p, e) = {}
    BY <1>4, <2>1
  <2>3. s \in d_keep_range_vec[p]
    BY <1>2, <2>1, <2>2, NotFoundIsMissed, CallAssumption
    DEF RowsKept, domainEntitiesFromRange
  <2>4. product(p, s) = 0 /\ work(p, s) = RangeValue
    BY <1>5, <2>1, <2>2, <2>3, EmptyRow DEF work
  <2>5. s \in localSupports(p)
    BY <1>2, <1>3 DEF localSupports
  <2>6. range_field'[s] = product(p, s) + work(p, s)
    BY <1>2, <1>6, <2>5 DEF FinishApply
  <2> QED
    BY <2>4, <2>6, FieldAssumption
<1>7. CASE FinishApply(r) /\ r # p
  <2>1. s \notin localSupports(r)
    BY <1>3, <1>7 DEF localSupports
  <2> QED
    BY <1>2, <1>5, <1>7, <2>1 DEF FinishApply
<1>8. CASE ~ FinishApply(r)
  <2>1. range_field' = range_field
    BY <1>8 DEF OperatorStep, SetupSearch, SendSupports, InsertRows,
       FillComplete, BeginApply, operatorVars, applyVars
  <2> QED
    BY <1>5, <2>1
<1> QED
  BY <1>6, <1>7, <1>8

LEMMA KeptInit == OperatorInit => KeptInv
<1> SUFFICES ASSUME OperatorInit PROVE KeptInv
  OBVIOUS
<1>1. AccountInv
  BY AccountInit DEF OperatorInit
<1>2. FoundBacked
  BY DEF OperatorInit, Init, FoundBacked
<1>3. \A e \in RangeEntities : RangeOwner[e] \in Ranks /\ SupportOf[e] \in Supports
  BY OwnerAssumption DEF Supports
<1>4. DataKept
  BY <1>3 DEF OperatorInit, DataKept
<1>5. \A r \in Ranks : ~ isSetUp(r)
  BY DEF OperatorInit, isSetUp
<1>6. RowsKept
  BY <1>5 DEF OperatorInit, RowsKept, tracksIfKept
<1> QED
  BY <1>1, <1>2, <1>4, <1>6 DEF KeptInv

LEMMA KeptStep ==
  ASSUME OneFullSearch, SameIds, SearchInv, SetupInv, KeptInv,
         NEW r \in Ranks, OperatorStep(r)
  PROVE  KeptInv'
<1>1. AccountInv' /\ FoundBacked'
  <2>1. CASE SetupSearch(r)
    BY <2>1, AccountStep, FoundBackedStep DEF SetupSearch, KeptInv
  <2>2. CASE ~ SetupSearch(r)
    <3>1. UNCHANGED vars
      BY <2>2 DEF OperatorStep, SendSupports, InsertRows, FillComplete,
         BeginApply, FinishApply
    <3> QED
      BY <3>1, AccountStutter DEF KeptInv, FoundBacked, vars, sendVars
  <2> QED
    BY <2>1, <2>2
<1> QED
  BY <1>1, RowsKeptStep, DataKeptStep DEF KeptInv

LEMMA KeptStutter ==
  ASSUME KeptInv, UNCHANGED operatorAll
  PROVE  KeptInv'
<1>1. UNCHANGED vars /\ UNCHANGED operatorVars
  BY DEF operatorAll
<1>2. AccountInv'
  BY <1>1, AccountStutter DEF KeptInv
<1>3. FoundBacked'
  BY <1>1 DEF KeptInv, FoundBacked, vars, sendVars
<1>4. RowsKept' /\ DataKept'
  BY <1>1 DEF KeptInv, RowsKept, DataKept, vars, inputVars, rangeVars,
     operatorVars, setupVars, matrixVars, applyVars, isSetUp,
     domainEntitiesFromRange
<1> QED
  BY <1>2, <1>3, <1>4 DEF KeptInv

\* When every rank has a domain entity and supports are numbered like entities,
\* a range entity found nowhere holds the application's data after any number of
\* applications, if missed data is to be kept.
THEOREM MissedDataIsKept ==
  ASSUME OneFullSearch, SameIds
  PROVE  OperatorSpec => []MissedKeepTheirData
<1>1. SearchInv /\ SetupInv /\ KeptInv /\ [OperatorNext]_operatorAll => KeptInv'
  BY KeptStep, KeptStutter DEF OperatorNext
<1>2. SearchInv /\ SetupInv /\ KeptInv => MissedKeepTheirData
  <2> SUFFICES ASSUME SearchInv, SetupInv, KeptInv, d_keep_missed_sol,
                      NEW r \in Ranks, NEW e \in DOMAIN range[r],
                      domainEntitiesFromRange(r, e) = {}
               PROVE  range_field[SupportOf[e]] = RangeValue
    BY DEF MissedKeepTheirData
  <2>1. e \in RangeEntities /\ RangeOwner[e] = r
    BY OwnerAssumption DEF SearchInv, InputInv, LocalInputs, localEntities
  <2> QED
    BY <2>1 DEF KeptInv, DataKept
<1> QED
  BY <1>1, <1>2, KeptInit, SetupInvariant, PTL DEF OperatorSpec
-----------------------------------------------------------------------------
(***************************************************************************)
(* What apply() transfers.                                                 *)
(***************************************************************************)

\* A rank has pulled one field per call of apply(), on its domain entities.
FieldsPulled ==
  \A q \in Ranks :
    /\ applies[q] > 0 => isSetUp(q)
    /\ stage[q] = "apply" => applies[q] > 0
    /\ Len(X[q]) = applies[q]
    /\ \A i \in 1 .. applies[q] : X[q][i] \in [DOMAIN domain[q] -> FieldValues]

TransferInv == ApplyTypeOK /\ FieldsPulled

\* The domain entities of a pair are on the rank whose field is read.
LEMMA FoundAreLocal ==
  ASSUME SearchInv, SetupInv, NEW r \in Ranks, isSetUp(r),
         NEW e \in DOMAIN range[r], NEW d \in domainEntitiesFromRange(r, e)
  PROVE  /\ d \in DomainEntities /\ DomainOwner[d] \in Ranks
         /\ d \in DOMAIN domain[DomainOwner[d]]
         /\ <<SupportOf[e], d>> \in d_coupling_matrix[r]
<1>1. e \in RangeEntities /\ RangeOwner[e] = r
  BY ColumnsFound
<1>2. d \in DomainEntities /\ <<e, d>> \in d_range_to_domain_map[r]
  BY DEF domainEntitiesFromRange
<1>3. returned(r)
  BY DEF isSetUp, SetupInv, SearchEnded
<1>4. d \in DOMAIN domain[DomainOwner[d]]
  BY <1>1, <1>2, <1>3, RangePair, CallAssumption
<1>5. DomainOwner[d] \in Ranks
  BY <1>2, OwnerAssumption
<1> QED
  BY <1>1, <1>2, <1>4, <1>5 DEF SetupInv, RowsMoved

\* What a rank imports for a row is there, and of the field of this call.
LEMMA ImportsPulled ==
  ASSUME SearchInv, SetupInv, TransferInv, NEW r \in Ranks, FinishApply(r),
         NEW e \in DOMAIN range[r], NEW d \in domainEntitiesFromRange(r, e)
  PROVE  /\ applies[r] <= applies[DomainOwner[d]]
         /\ imported(r, d) = X[DomainOwner[d]][applies[r]][d]
         /\ imported(r, d) \in FieldValues
<1>1. isSetUp(r) /\ stage[r] = "apply"
  BY DEF FinishApply, isSetUp
<1>2. /\ d \in DomainEntities /\ DomainOwner[d] \in Ranks
      /\ d \in DOMAIN domain[DomainOwner[d]]
      /\ <<SupportOf[e], d>> \in d_coupling_matrix[r]
  BY <1>1, FoundAreLocal
<1>3. Len(X[DomainOwner[d]]) >= applies[r]
  BY <1>2 DEF FinishApply
<1>4. applies[r] \in Nat /\ applies[r] > 0
  BY <1>1 DEF TransferInv, ApplyTypeOK, FieldsPulled
<1>5. applies[r] <= applies[DomainOwner[d]]
  BY <1>2, <1>3 DEF TransferInv, FieldsPulled
<1>6. applies[r] \in 1 .. applies[DomainOwner[d]]
  BY <1>2, <1>4, <1>5 DEF TransferInv, ApplyTypeOK
<1>7. X[DomainOwner[d]][applies[r]] \in [DOMAIN domain[DomainOwner[d]] -> FieldValues]
  BY <1>2, <1>6 DEF TransferInv, FieldsPulled
<1> QED
  BY <1>2, <1>5, <1>7 DEF imported

\* A row times the field: its number of entries times the result is the sum of
\* what was imported.
LEMMA ProductIsMean ==
  ASSUME SearchInv, SetupInv, TransferInv, NEW r \in Ranks, FinishApply(r),
         NEW e \in DOMAIN range[r]
  PROVE  LET found == domainEntitiesFromRange(r, e)
         IN /\ product(r, SupportOf[e]) \in Int
            /\ found # {} =>
                 product(r, SupportOf[e]) * Cardinality(found)
                   = SumFunction([d \in found |-> X[DomainOwner[d]][applies[r]][d]])
<1> DEFINE D == domainEntitiesFromRange(r, e)
           F == [d \in D |-> imported(r, d)]
           n == Cardinality(D)
           total == SumFunctionOnSet(F, D)
<1>1. isSetUp(r)
  BY DEF FinishApply, isSetUp
<1>2. columns(r, SupportOf[e]) = D /\ scale_vector[r][SupportOf[e]] = n
  BY <1>1, ColumnsFound
<1>3. D \subseteq DomainEntities
  BY DEF domainEntitiesFromRange
<1>4. IsFiniteSet(D) /\ n <= Cardinality(DomainEntities)
  BY <1>3, FS_Subset, EntityAssumption
<1>5. CASE D = {}
  <2>1. product(r, SupportOf[e]) = 0
    BY <1>2, <1>5, Zenon DEF product
  <2> QED
    BY <1>5, <2>1
<1>6. CASE D # {}
  <2>1. n \in 1 .. Cardinality(DomainEntities)
    <3>1. n \in Nat /\ Cardinality(DomainEntities) \in Nat /\ n # 0
      BY <1>4, <1>6, FS_CardinalityType, FS_EmptySet, EntityAssumption
    <3> HIDE DEF n
    <3> QED
      BY <1>4, <3>1
  <2>2. \A d \in D : F[d] \in FieldValues /\ F[d] = X[DomainOwner[d]][applies[r]][d]
    BY ImportsPulled
  <2>3. \A d \in D : F[d] \in Int /\ F[d] % n = 0
    <3> HIDE DEF F, D, n
    <3> QED
      BY <2>1, <2>2, FieldAssumption
  <2>4. product(r, SupportOf[e]) = total \div n
    <3>1. SumFunction(F) = total
      BY DEF SumFunction
    <3>2. product(r, SupportOf[e]) = SumFunction(F) \div n
      BY <1>2, <1>6, Zenon DEF product
    <3> QED
      BY <3>1, <3>2
  <2>5. SumFunction([d \in D |-> X[DomainOwner[d]][applies[r]][d]]) = total
    <3>1. F = [d \in D |-> X[DomainOwner[d]][applies[r]][d]]
      BY <2>2
    <3> QED
      BY <3>1 DEF SumFunction
  <2> HIDE DEF F, D
  <2>6. total = (total \div n) * n /\ total \in Int
    <3> HIDE DEF n
    <3>1. n \in Nat \ {0}
      BY <2>1
    <3> QED
      BY <1>4, <2>3, <3>1, SumOfMultiples, SumTakes
  <2>7. total \div n \in Int
    <3> HIDE DEF n, total
    <3> QED
      BY <2>1, <2>6
  <2> QED
    BY <2>4, <2>5, <2>6, <2>7 DEF D
<1> QED
  BY <1>5, <1>6

\* A support of a rank is that of a range entity it may have or not.
LEMMA ProductType ==
  ASSUME SearchInv, SetupInv, TransferInv, NEW r \in Ranks, FinishApply(r),
         NEW s \in localSupports(r)
  PROVE  product(r, s) \in Int
<1>1. PICK e \in RangeEntities : SupportOf[e] = s
  BY DEF localSupports, Supports
<1>2. RangeOwner[e] = r
  <2>1. (CHOOSE f \in RangeEntities : SupportOf[f] = s) = e
    BY <1>1, SupportAssumption
  <2> QED
    BY <2>1 DEF localSupports, supportOwner
<1>3. isSetUp(r) /\ returned(r)
  BY DEF FinishApply, isSetUp, SetupInv, SearchEnded
<1>4. CASE e \in DOMAIN range[r]
  BY <1>1, <1>4, ProductIsMean
<1>5. CASE e \notin DOMAIN range[r]
  <2>1. \A d \in DomainEntities : <<e, d>> \notin d_range_to_domain_map[r]
    BY <1>2, <1>3, <1>5, RangePair, CallAssumption
  <2>2. domainEntitiesFromRange(r, e) = {}
    BY <2>1 DEF domainEntitiesFromRange
  <2> QED
    BY <1>1, <1>2, <1>3, <2>2, EmptyRow
<1> QED
  BY <1>4, <1>5

LEMMA TransferInit == OperatorInit => TransferInv
<1> SUFFICES ASSUME OperatorInit PROVE TransferInv
  OBVIOUS
<1>1. ApplyTypeOK
  BY CallAssumption, FieldAssumption DEF OperatorInit, ApplyTypeOK
<1>2. FieldsPulled
  BY DEF OperatorInit, FieldsPulled
<1> QED
  BY <1>1, <1>2 DEF TransferInv

LEMMA TransferStep ==
  ASSUME SearchInv, SetupInv, TransferInv, NEW r \in Ranks, OperatorStep(r)
  PROVE  TransferInv'
<1> USE DEF SetupInv, TransferInv
<1>1. \A q \in Ranks : isSetUp(q) => isSetUp(q)' /\ domain'[q] = domain[q]
  BY SearchFrozen, SetupKept DEF isSetUp
<1>2. CASE BeginApply(r)
  <2>1. PICK x \in [DOMAIN domain[r] -> FieldValues] :
          X' = [X EXCEPT ![r] = Append(X[r], x)]
    BY <1>2 DEF BeginApply, posted
  <2>2. x \in partialFunctions(DomainEntities, FieldValues)
    <3>1. DOMAIN domain[r] \in SUBSET DomainEntities
      BY DEF SearchInv, TypeOK, partialFunctions
    <3> QED
      BY <3>1 DEF partialFunctions
  <2>3. /\ stage[r] = "ready" /\ stage'[r] = "apply"
        /\ \A q \in Ranks \ {r} : stage'[q] = stage[q]
        /\ applies[r] < MaxApplies
        /\ applies' = [applies EXCEPT ![r] = @ + 1]
        /\ range_field' = range_field /\ domain' = domain
    BY <1>2 DEF BeginApply, goTo, SetupTypeOK, vars, inputVars
  <2>4. applies' \in [Ranks -> 0 .. MaxApplies]
    BY <2>3, CallAssumption DEF ApplyTypeOK
  <2>5. X' \in [Ranks -> Seq(partialFunctions(DomainEntities, FieldValues))]
    <3> DEFINE Field == partialFunctions(DomainEntities, FieldValues)
    <3>1. X \in [Ranks -> Seq(Field)] /\ x \in Field
      BY <2>2 DEF ApplyTypeOK
    <3> HIDE DEF Field
    <3>2. Append(X[r], x) \in Seq(Field)
      BY <3>1
    <3> QED
      BY <2>1, <3>1, <3>2 DEF Field
  <2>6. ASSUME NEW q \in Ranks
        PROVE  FieldsPulled!(q)'
    <3> DEFINE Field == partialFunctions(DomainEntities, FieldValues)
    <3>1. X[q] \in Seq(Field) /\ applies[q] \in Nat
      BY DEF ApplyTypeOK
    <3> HIDE DEF Field
    <3>2. CASE q # r
      BY <2>1, <2>3, <3>2 DEF FieldsPulled, isSetUp, ApplyTypeOK
    <3>3. CASE q = r
      <4>1. X'[r] = Append(X[r], x) /\ applies'[r] = applies[r] + 1
        BY <2>1, <2>3 DEF ApplyTypeOK
      <4>2. Len(X[r]) = applies[r]
        BY DEF FieldsPulled
      <4>3. Len(X'[r]) = applies'[r]
        BY <3>1, <3>3, <4>1, <4>2
      <4>4. \A i \in 1 .. applies'[r] : X'[r][i] \in [DOMAIN domain[r] -> FieldValues]
        <5> SUFFICES ASSUME NEW i \in 1 .. applies'[r]
                     PROVE  X'[r][i] \in [DOMAIN domain[r] -> FieldValues]
          OBVIOUS
        <5>1. CASE i = applies[r] + 1
          <6>1. Append(X[r], x)[Len(X[r]) + 1] = x
            BY <3>1, <3>3
          <6> QED
            BY <4>1, <4>2, <5>1, <6>1
        <5>2. CASE i # applies[r] + 1
          <6>1. i \in 1 .. Len(X[r]) /\ i \in 1 .. applies[r]
            BY <3>1, <3>3, <4>1, <4>2, <5>2
          <6>2. Append(X[r], x)[i] = X[r][i]
            BY <3>1, <3>3, <6>1
          <6> QED
            BY <4>1, <6>1, <6>2 DEF FieldsPulled
        <5> QED
          BY <5>1, <5>2
      <4> QED
        BY <2>3, <3>1, <3>3, <4>1, <4>3, <4>4 DEF isSetUp
    <3> QED
      BY <3>2, <3>3
  <2> QED
    BY <2>3, <2>4, <2>5, <2>6 DEF ApplyTypeOK, FieldsPulled
<1>3. CASE FinishApply(r)
  <2>1. /\ applies' = applies /\ X' = X /\ domain' = domain
        /\ stage[r] = "apply" /\ stage' = [stage EXCEPT ![r] = "ready"]
        /\ range_field' = [s \in Supports |->
             IF s \in localSupports(r) THEN product(r, s) + work(r, s)
             ELSE range_field[s]]
    BY <1>3 DEF FinishApply, goTo, vars, inputVars
  <2>2. \A s \in localSupports(r) : product(r, s) \in Int
    BY <1>3, ProductType
  <2>3. \A s \in Supports : work(r, s) \in Int
    BY DEF work, ApplyTypeOK
  <2>4. range_field' \in [Supports -> Int]
    <3>1. \A s \in localSupports(r) : s \in Supports
      BY DEF localSupports
    <3>2. ASSUME NEW s \in Supports PROVE range_field'[s] \in Int
      BY <2>1, <2>2, <2>3 DEF ApplyTypeOK
    <3> QED
      BY <2>1, <3>2
  <2>5. FieldsPulled'
    BY <2>1 DEF FieldsPulled, isSetUp, SetupTypeOK
  <2> QED
    BY <2>1, <2>4, <2>5 DEF ApplyTypeOK
<1>4. CASE ~ BeginApply(r) /\ ~ FinishApply(r)
  <2>1. UNCHANGED applyVars /\ stage[r] \in {"search", "supports", "matrix"}
    BY <1>4 DEF OperatorStep, SetupSearch, SendSupports, InsertRows,
       FillComplete, operatorVars
  <2>2. \A q \in Ranks \ {r} : stage'[q] = stage[q]
    BY SetupKept
  <2>3. stage'[r] # "apply" /\ ~ isSetUp(r)
    BY <2>1, SetupKept DEF isSetUp
  <2>4. /\ applies' = applies /\ X' = X /\ range_field' = range_field
    BY <2>1 DEF applyVars
  <2>5. ASSUME NEW q \in Ranks
        PROVE  FieldsPulled!(q)'
    <3>1. applies[q] \in Nat
      BY DEF ApplyTypeOK
    <3>2. stage'[q] = "apply" => applies[q] > 0
      BY <2>2, <2>3 DEF FieldsPulled
    <3>3. CASE applies[q] > 0
      BY <1>1, <2>4, <3>2, <3>3 DEF FieldsPulled
    <3>4. CASE applies[q] = 0
      BY <2>4, <3>2, <3>4 DEF FieldsPulled
    <3> QED
      BY <3>1, <3>3, <3>4
  <2> QED
    BY <2>4, <2>5 DEF ApplyTypeOK, FieldsPulled
<1> QED
  BY <1>2, <1>3, <1>4

LEMMA TransferStutter ==
  ASSUME TransferInv, UNCHANGED operatorAll
  PROVE  TransferInv'
BY DEF TransferInv, ApplyTypeOK, FieldsPulled, isSetUp, operatorAll, operatorVars,
       applyVars, vars, inputVars

\* The field of the range holds integers, and the fields that have been pulled
\* are those of the rank's domain entities: every variable has its type.
THEOREM OperatorTypesHold == OperatorSpec => []OperatorTypeOK
<1>1. SearchInv /\ SetupInv /\ TransferInv /\ [OperatorNext]_operatorAll
        => TransferInv'
  BY TransferStep, TransferStutter DEF OperatorNext
<1>2. SearchInv /\ SetupInv /\ TransferInv => OperatorTypeOK
  BY DEF SearchInv, SetupInv, TransferInv, OperatorTypeOK
<1> QED
  BY <1>1, <1>2, TransferInit, SetupInvariant, PTL DEF OperatorSpec

\* Whatever a rank has transferred is still in its range field, and in the
\* domain fields it was transferred from.
MeansHeld ==
  \A r \in Ranks : applied(r) =>
    \A e \in DOMAIN range[r] :
      LET found == domainEntitiesFromRange(r, e)
      IN found # {} =>
           /\ \A d \in found : applies[r] <= applies[DomainOwner[d]]
           /\ range_field[SupportOf[e]] * Cardinality(found)
                = SumFunction([d \in found |-> X[DomainOwner[d]][applies[r]][d]])

NothingKept ==
  /\ d_keep_missed_sol \in KeepMissed
  /\ ~ d_keep_missed_sol => \A r \in Ranks : d_keep_range_vec[r] = {}

MeanInv == TransferInv /\ MissedInv /\ RowsKept /\ NothingKept /\ MeansHeld

\* The work vector adds nothing to the row of an entity that was found, if the
\* supports are numbered like the entities or no data is kept.
LEMMA FoundNotKept ==
  ASSUME TRUE \in KeepMissed => SameIds,
         SearchInv, SetupInv, MissedInv, RowsKept, NothingKept,
         NEW r \in Ranks, isSetUp(r), NEW e \in DOMAIN range[r],
         domainEntitiesFromRange(r, e) # {}
  PROVE  work(r, SupportOf[e]) = 0
<1>1. SupportOf[e] \notin d_keep_range_vec[r]
  <2>1. CASE ~ d_keep_missed_sol
    BY <2>1 DEF NothingKept
  <2>2. CASE d_keep_missed_sol
    <3>1. SupportOf[e] = e
      <4>1. TRUE \in KeepMissed
        BY <2>2, KeepAssumption DEF NothingKept
      <4> QED
        BY <4>1, ColumnsFound DEF SameIds
    <3>2. d_keep_range_vec[r] = d_missed_range_entity_ids[r]
      BY <2>2 DEF RowsKept
    <3>3. PICK d \in DomainEntities : <<e, d>> \in d_range_to_domain_map[r]
      BY DEF domainEntitiesFromRange
    <3>4. returned(r)
      BY DEF isSetUp, SetupInv, SearchEnded
    <3> QED
      BY <3>1, <3>2, <3>3, <3>4 DEF MissedInv, MissedNotMapped
  <2> QED
    BY <2>1, <2>2 DEF SetupInv, SetupTypeOK
<1> QED
  BY <1>1 DEF work

LEMMA NothingKeptStep ==
  ASSUME SetupInv, NothingKept, NEW r \in Ranks, OperatorStep(r)
  PROVE  NothingKept'
<1>1. d_keep_missed_sol' = d_keep_missed_sol
  BY DEF OperatorStep, SetupSearch, SendSupports, InsertRows, FillComplete,
     BeginApply, FinishApply, operatorVars
<1>2. CASE FillComplete(r)
  BY <1>1, <1>2 DEF FillComplete, NothingKept, SetupInv, SetupTypeOK
<1>3. CASE ~ FillComplete(r)
  <2>1. d_keep_range_vec' = d_keep_range_vec
    BY <1>3 DEF OperatorStep, SetupSearch, SendSupports, InsertRows,
       BeginApply, FinishApply, operatorVars, setupVars, matrixVars
  <2> QED
    BY <1>1, <2>1 DEF NothingKept
<1> QED
  BY <1>2, <1>3

LEMMA MeansHeldStep ==
  ASSUME TRUE \in KeepMissed => SameIds,
         SearchInv, SetupInv, MeanInv, NEW r \in Ranks, OperatorStep(r)
  PROVE  MeansHeld'
<1> SUFFICES ASSUME NEW p \in Ranks, applied(p)', NEW e \in DOMAIN range'[p],
                    domainEntitiesFromRange(p, e)' # {}
             PROVE  /\ \A d \in domainEntitiesFromRange(p, e)' :
                         applies'[p] <= applies'[DomainOwner[d]]
                    /\ range_field'[SupportOf[e]]
                           * Cardinality(domainEntitiesFromRange(p, e)')
                         = SumFunction([d \in domainEntitiesFromRange(p, e)' |->
                             X'[DomainOwner[d]][applies'[p]][d]])
  BY Zenon DEF MeansHeld
<1> USE DEF MeanInv
<1>1. TransferInv'
  BY TransferStep
<1>2. isSetUp(p)
  <2>1. stage'[p] = "ready" /\ applies'[p] > 0
    BY DEF applied
  <2>2. CASE BeginApply(r)
    BY <2>1, <2>2, SetupKept DEF BeginApply, goTo, SetupInv, SetupTypeOK, isSetUp
  <2>3. CASE ~ BeginApply(r)
    <3>1. applies' = applies
      BY <2>3 DEF OperatorStep, SetupSearch, SendSupports, InsertRows,
         FillComplete, FinishApply, operatorVars, applyVars
    <3> QED
      BY <2>1, <3>1 DEF TransferInv, FieldsPulled
  <2> QED
    BY <2>2, <2>3
<1> DEFINE D == domainEntitiesFromRange(p, e)
           s == SupportOf[e]
<1>3. /\ range'[p] = range[p] /\ e \in DOMAIN range[p]
      /\ domainEntitiesFromRange(p, e)' = D
  <2>1. stage[p] # "search"
    BY <1>2 DEF isSetUp
  <2> QED
    BY <2>1, SearchFrozen DEF domainEntitiesFromRange
<1>4. e \in RangeEntities /\ RangeOwner[e] = p /\ s \in Supports
  BY <1>2, <1>3, ColumnsFound DEF Supports
<1>5. \A d \in D : DomainOwner[d] \in Ranks
  BY <1>2, <1>3, FoundAreLocal
<1>6. supportOwner(s) = p
  BY <1>4, SupportAssumption DEF supportOwner
<1>7. CASE FinishApply(r) /\ r = p
  <2>1. \A d \in D : applies[p] <= applies[DomainOwner[d]]
    BY <1>3, <1>7, ImportsPulled
  <2>2. /\ product(p, s) \in Int
        /\ product(p, s) * Cardinality(D)
             = SumFunction([d \in D |-> X[DomainOwner[d]][applies[p]][d]])
    BY <1>3, <1>7, ProductIsMean
  <2>3. work(p, s) = 0
    BY <1>2, <1>3, FoundNotKept
  <2>4. s \in localSupports(p)
    BY <1>4, <1>6 DEF localSupports
  <2>5. /\ range_field'[s] = product(p, s) + work(p, s)
        /\ applies' = applies /\ X' = X
    BY <1>4, <1>7, <2>4 DEF FinishApply
  <2>6. range_field'[s] = product(p, s)
    BY <2>2, <2>3, <2>5
  <2> HIDE DEF D, s
  <2> QED
    BY <1>3, <2>1, <2>2, <2>5, <2>6 DEF s
<1>8. CASE ~ (FinishApply(r) /\ r = p)
  <2>1. applied(p) /\ applies'[p] = applies[p]
    <3>1. stage'[p] = "ready" /\ applies'[p] > 0
      BY DEF applied
    <3>2. r # p \/ stage[p] # "apply"
      BY <1>8 DEF OperatorStep, SetupSearch, SendSupports, InsertRows,
         FillComplete, BeginApply, FinishApply
    <3>3. stage[p] = "ready"
      BY <1>2, <3>1, <3>2, SetupKept DEF isSetUp, SetupInv
    <3>4. applies'[p] = applies[p]
      <4>1. CASE BeginApply(r)
        <5>1. r # p
          BY <3>1, <4>1 DEF BeginApply, goTo, SetupInv, SetupTypeOK
        <5> QED
          BY <4>1, <5>1 DEF BeginApply, TransferInv, ApplyTypeOK
      <4>2. CASE ~ BeginApply(r)
        BY <4>2 DEF OperatorStep, SetupSearch, SendSupports, InsertRows,
           FillComplete, FinishApply, operatorVars, applyVars
      <4> QED
        BY <4>1, <4>2
    <3> QED
      BY <3>1, <3>3, <3>4 DEF applied
  <2>2. /\ \A d \in D : applies[p] <= applies[DomainOwner[d]]
        /\ range_field[s] * Cardinality(D)
             = SumFunction([d \in D |-> X[DomainOwner[d]][applies[p]][d]])
    BY <1>3, <2>1 DEF MeansHeld
  <2>3. range_field'[s] = range_field[s]
    <3>1. CASE FinishApply(r)
      <4>1. s \notin localSupports(r)
        BY <1>6, <1>8, <3>1 DEF localSupports
      <4> QED
        BY <1>4, <3>1, <4>1 DEF FinishApply
    <3>2. CASE ~ FinishApply(r)
      BY <3>2 DEF OperatorStep, SetupSearch, SendSupports, InsertRows,
         FillComplete, BeginApply, operatorVars, applyVars
    <3> QED
      BY <3>1, <3>2
  <2>4. ASSUME NEW d \in D
        PROVE  /\ applies[p] <= applies'[DomainOwner[d]]
               /\ X'[DomainOwner[d]][applies[p]] = X[DomainOwner[d]][applies[p]]
    <3> DEFINE q == DomainOwner[d]
               n == applies[p]
               Field == partialFunctions(DomainEntities, FieldValues)
    <3>1. /\ q \in Ranks /\ n <= applies[q] /\ n \in Nat /\ n > 0
          /\ applies[q] \in Nat /\ Len(X[q]) = applies[q]
          /\ X \in [Ranks -> Seq(Field)]
      BY <1>5, <2>1, <2>2 DEF applied, TransferInv, ApplyTypeOK, FieldsPulled
    <3> HIDE DEF Field
    <3>2. CASE BeginApply(r) /\ q = r
      <4>1. PICK x : X' = [X EXCEPT ![r] = Append(X[r], x)]
        BY <3>2 DEF BeginApply, posted
      <4>2. applies'[q] = applies[q] + 1
        BY <3>1, <3>2 DEF BeginApply, TransferInv, ApplyTypeOK
      <4>3. X'[q] = Append(X[q], x) /\ X[q] \in Seq(Field)
        BY <3>1, <3>2, <4>1
      <4>4. n \in 1 .. Len(X[q])
        BY <3>1
      <4>5. Append(X[q], x)[n] = X[q][n]
        <5> HIDE DEF n, q
        <5> QED
          BY <4>3, <4>4
      <4> QED
        BY <3>1, <4>2, <4>3, <4>5
    <3>3. CASE BeginApply(r) /\ q # r
      BY <3>1, <3>3 DEF BeginApply, TransferInv, ApplyTypeOK
    <3>4. CASE ~ BeginApply(r)
      <4>1. UNCHANGED <<applies, X>>
        BY <3>4 DEF OperatorStep, SetupSearch, SendSupports, InsertRows,
           FillComplete, FinishApply, operatorVars, applyVars
      <4> QED
        BY <3>1, <4>1
    <3> QED
      BY <3>2, <3>3, <3>4
  <2>5. [d \in D |-> X'[DomainOwner[d]][applies'[p]][d]]
          = [d \in D |-> X[DomainOwner[d]][applies[p]][d]]
    BY <2>1, <2>4
  <2> HIDE DEF D, s
  <2> QED
    BY <1>3, <2>1, <2>2, <2>3, <2>4, <2>5 DEF s
<1> QED
  BY <1>7, <1>8

LEMMA MeanInit == OperatorInit => MeanInv
<1> SUFFICES ASSUME OperatorInit PROVE MeanInv
  OBVIOUS
<1>1. MissedInv
  BY MissedInvInit DEF OperatorInit
<1>2. RowsKept
  BY KeptInit DEF KeptInv
<1>3. NothingKept /\ MeansHeld
  BY DEF OperatorInit, NothingKept, MeansHeld, applied
<1> QED
  BY <1>1, <1>2, <1>3, TransferInit DEF MeanInv

LEMMA MeanStep ==
  ASSUME TRUE \in KeepMissed => SameIds,
         SearchInv, SetupInv, MeanInv, NEW r \in Ranks, OperatorStep(r)
  PROVE  MeanInv'
<1>1. MissedInv'
  <2>1. [Next]_vars
    BY DEF OperatorStep, SetupSearch, SendSupports, InsertRows, FillComplete,
       BeginApply, FinishApply, Next
  <2> QED
    BY <2>1, MissedInvStep DEF MeanInv
<1> QED
  BY <1>1, TransferStep, RowsKeptStep, NothingKeptStep, MeansHeldStep DEF MeanInv

LEMMA MeanStutter ==
  ASSUME SearchInv, MeanInv, UNCHANGED operatorAll
  PROVE  MeanInv'
<1>1. UNCHANGED vars /\ UNCHANGED operatorVars
  BY DEF operatorAll
<1>2. MissedInv'
  BY <1>1, MissedInvStep DEF MeanInv
<1>3. TransferInv'
  BY TransferStutter DEF MeanInv
<1>4. RowsKept' /\ NothingKept'
  BY <1>1 DEF MeanInv, RowsKept, NothingKept, vars,
     operatorVars, setupVars, matrixVars, isSetUp
<1>5. /\ \A r \in Ranks : applied(r)' = applied(r)
      /\ range' = range /\ applies' = applies /\ X' = X /\ range_field' = range_field
      /\ d_range_to_domain_map' = d_range_to_domain_map
  BY <1>1 DEF vars, inputVars, rangeVars, operatorVars, applyVars, applied
<1>6. \A r, e : domainEntitiesFromRange(r, e)' = domainEntitiesFromRange(r, e)
  BY <1>5 DEF domainEntitiesFromRange
<1>7. MeansHeld'
  BY <1>5, <1>6, Zenon DEF MeanInv, MeansHeld
<1> QED
  BY <1>2, <1>3, <1>4, <1>7 DEF MeanInv

\* After its n-th apply() each rank holds the mean of the n-th domain fields at
\* the domain entities a range entity was found in, however far the other ranks
\* have gone on, if supports are numbered like entities or no data is kept.
THEOREM MeansAreTransferred ==
  ASSUME TRUE \in KeepMissed => SameIds
  PROVE  OperatorSpec => []MeanTransferred
<1>1. SearchInv /\ SetupInv /\ MeanInv /\ [OperatorNext]_operatorAll => MeanInv'
  BY MeanStep, MeanStutter DEF OperatorNext
<1>2. MeanInv => MeanTransferred
  BY DEF MeanInv, MeansHeld, MeanTransferred
<1> QED
  BY <1>1, <1>2, MeanInit, SetupInvariant, PTL DEF OperatorSpec
=============================================================================
