---------------------------- MODULE SearchPromise ----------------------------
(***************************************************************************)
(* What DTK_ParallelSearch promises its callers, without the boxes, the    *)
(* exchanges and the second decomposition: a search is a collective call;  *)
(* once every rank has made it, each rank is told in which of the domain   *)
(* entities, of whatever rank, its range centroids lie.  All of these are  *)
(* found where the neighbor query returns the whole local domain and the   *)
(* centroid is within the inclusion tolerance; others may be.              *)
(***************************************************************************)
EXTENDS SearchGeometry

CONSTANTS
  Ranks, DomainEntities, RangeEntities, DomainOwner, RangeOwner,
  DomainShapes, RangeShapes, MaxSearches

VARIABLES
  domain,    \* each rank's domain entities and their shapes
  range,     \* each rank's range entities of its last search
  calls,     \* how often each rank has called search()
  answers,   \* how often it has returned from it
  mapped     \* what it then knows: pairs of a range and a domain entity

vars == <<domain, range, calls, answers, mapped>>

entitiesOf(owner, r, shapes) ==
  UNION {[D -> shapes] : D \in SUBSET {e \in DOMAIN owner : owner[e] = r}}

Init ==
  /\ domain = [r \in Ranks |-> [e \in {} |-> e]]
  /\ range = [r \in Ranks |-> [e \in {} |-> e]]
  /\ calls = [r \in Ranks |-> 0]
  /\ answers = [r \in Ranks |-> 0]
  /\ mapped = [r \in Ranks |-> {}]

Construct(r) ==
  /\ \A s \in Ranks : calls[s] = 0
  /\ \E D \in entitiesOf(DomainOwner, r, DomainShapes) :
       domain' = [domain EXCEPT ![r] = D]
  /\ UNCHANGED <<range, calls, answers, mapped>>

Call(r) ==
  /\ answers[r] = calls[r]
  /\ calls[r] < MaxSearches
  /\ \E R \in entitiesOf(RangeOwner, r, RangeShapes) :
       range' = [range EXCEPT ![r] = R]
  /\ calls' = [calls EXCEPT ![r] = @ + 1]
  /\ mapped' = [mapped EXCEPT ![r] = {}]
  /\ UNCHANGED <<domain, answers>>

contains(r, e, d) ==
  /\ e \in DOMAIN range[r]
  /\ d \in DOMAIN domain[DomainOwner[d]]
  /\ mapsInto(domain[DomainOwner[d]][d], range[r][e].centroid)

surelyFound(r, e, d) ==
  /\ contains(r, e, d)
  /\ pointInBox(range[r][e].centroid, domain[DomainOwner[d]][d].box)
  /\ Cardinality(DOMAIN domain[DomainOwner[d]]) <= KNN

isAnswer(r, M) ==
  \A e \in RangeEntities, d \in DomainEntities :
    /\ <<e, d>> \in M => contains(r, e, d)
    /\ surelyFound(r, e, d) => <<e, d>> \in M

Return(r) ==
  /\ answers[r] < calls[r]
  /\ \A s \in Ranks : calls[s] >= calls[r]
  /\ \E M \in SUBSET {x \in RangeEntities \X DomainEntities :
                        contains(r, x[1], x[2])} :
       isAnswer(r, M) /\ mapped' = [mapped EXCEPT ![r] = M]
  /\ answers' = [answers EXCEPT ![r] = @ + 1]
  /\ UNCHANGED <<domain, range, calls>>

Next == \E r \in Ranks : Construct(r) \/ Call(r) \/ Return(r)

Spec == Init /\ [][Next]_vars
=============================================================================
