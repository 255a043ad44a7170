------------------------ MODULE AnnotationHeuristics ------------------------
(***************************************************************************)
(* The advice to annotate a function that works on a mutex its contract    *)
(* does not mention: analyzer/annotation_heuristics.                       *)
(*                                                                         *)
(* A function of the program has the further fields synthetic and          *)
(* evidence: the objects it locks or unlocks itself, each with pos and     *)
(* whether it is locked and unlocked (collectLockUsageEvidence is modelled *)
(* in CallEffects).  varTypes gives the type of every variable object.     *)
(***************************************************************************)
EXTENDS ContractRegistry

\* "" for a target with an empty last part.
lastTargetSegment(target) == IF target = <<>> THEN "" ELSE Last(target)

(***************************************************************************)
(* The lock is a field of the struct, or an embedded field has its name    *)
(* and type.                                                               *)
(***************************************************************************)
typeEmbedsLock(p, t, lockObj) ==
  LET fields == getUnderlyingStruct(p, t) IN
    \E k \in DOMAIN fields :
      \/ Field(t.name, fields[k].name) = lockObj
      \/ /\ fields[k].anonymous
         /\ fields[k].name = lockObj[3]
         /\ fields[k].type = p.varTypes[lockObj]

objectTypeEmbedsLock(p, container, lockObj) ==
  container \in DOMAIN p.varTypes /\ typeEmbedsLock(p, p.varTypes[container], lockObj)

requirementTargetCoversLock(p, fn, target, lockObj) ==
  \E resolved \in {resolveObjectInScope(p, fn, target)} \ {None} :
    resolved = lockObj \/ objectTypeEmbedsLock(p, resolved, lockObj)

\* Slip: only a target that resolves to the lock counts.
CoveredByObject(p, fn, contract, kind, lockObj) ==
  /\ contract # None
  /\ \E k \in DOMAIN contract.expectations[kind] :
       resolveObjectInScope(p, fn, contract.expectations[kind][k]) = lockObj

(***************************************************************************)
(* A target also counts if it ends with the name of the lock, whatever it  *)
(* resolves to.                                                            *)
(***************************************************************************)
lockCoveredByContract(p, fn, contract, kind, lockObj) ==
  /\ contract # None
  /\ \E k \in DOMAIN contract.expectations[kind] :
       LET target == contract.expectations[kind][k] IN
         \/ requirementTargetCoversLock(p, fn, target, lockObj)
         \/ lastTargetSegment(target) = lockObj[3]

(***************************************************************************)
(* The advice the function may get: one lock that it locks and unlocks     *)
(* without @acquires if there is one, or else one that it only unlocks     *)
(* without @requires; the order of a map picks among several.              *)
(***************************************************************************)
firstLikelyMissingAnnotation(p, fn, contract) ==
  LET evidence == p.fns[fn].evidence
      Missing(kind, used) ==
        {[kind |-> kind, lock |-> obj] :
           obj \in {o \in used : ~lockCoveredByContract(p, fn, contract, kind, o)}}
      acquires == Missing("acquires", {o \in DOMAIN evidence : evidence[o].locks /\ evidence[o].unlocks})
      requires == Missing("requires", {o \in DOMAIN evidence : ~evidence[o].locks /\ evidence[o].unlocks})
  IN  IF acquires # {} THEN acquires ELSE requires

(***************************************************************************)
(* The target to write: the contract's first that covers the lock, an      *)
(* embedded mutex by way of the receiver, or else the bare name.           *)
(***************************************************************************)
preferredLockDisplayName(p, fn, contract, kind, lockObj) ==
  LET covering == IF contract = None
                  THEN {}
                  ELSE {k \in DOMAIN contract.expectations[kind] :
                          requirementTargetCoversLock(p, fn, contract.expectations[kind][k], lockObj)}
      params   == p.fns[fn].params
      embedded == /\ lockObj[1] = "field"
                  /\ \E k \in DOMAIN p.types[lockObj[2]].fields :
                       LET f == p.types[lockObj[2]].fields[k] IN f.name = lockObj[3] /\ f.anonymous
  IN  CASE covering # {} -> contract.expectations[kind][Min(covering)]
        [] covering = {} /\ embedded /\ params # <<>> /\ params[1].name # "" ->
             <<params[1].name, lockObj[3]>>
        [] OTHER -> <<lockObj[3]>>

=============================================================================
