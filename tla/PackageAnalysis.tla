-------------------------- MODULE PackageAnalysis --------------------------
(***************************************************************************)
(* What the analysis of one function records because of annotations:       *)
(* functionDepthFirstSearch (analyzer/cfg_traversal) up to its loop, and   *)
(* the checks of a call and of a guarded access, of which the data-flow    *)
(* part is the subject of FunctionAnalysis.                                *)
(*                                                                         *)
(* A function of the program has the further fields hasBody, anons (the    *)
(* functions declared inside), orders (the findings of the lock-order      *)
(* detectors, always and strict) and sites, its instructions as far as an  *)
(* annotation matters, in the order they are analysed: records with a      *)
(* field op, pos and held (the mutexes the function has locked by then):   *)
(*   call   : callee and args                                              *)
(*   access : object, owner and isField                                    *)
(* A diagnostic's message is a record of what, kind, about and target.     *)
(***************************************************************************)
EXTENDS AnnotationHeuristics

Finding(pos, what, kind, about, target) ==
  [advisory |-> FALSE,
   diag |-> [pos |-> pos,
             message |-> [what |-> what, kind |-> kind, about |-> about, target |-> target]]]

Advisory(pos, what, kind, about, target) ==
  [Finding(pos, what, kind, about, target) EXCEPT !.advisory = TRUE]

\* An advisory without a position is not recorded, a finding is.
Placed(advisory) == IF advisory.diag.pos = 0 THEN <<>> ELSE <<advisory>>

reportUnresolvableAnnotation(kind, target, pos) ==
  Placed(Advisory(pos, "not checkable", kind, <<>>, target))

reportCallsiteLocalRootAnnotation(kind, target, about, pos) ==
  Placed(Advisory(pos, "local root", kind, about, target))

\* What each element of a sequence gives, in order.
InOrder(Op(_), s) == FlattenSeq([k \in DOMAIN s |-> Op(s[k])])

Targets(contract, kind) == IF contract = None THEN <<>> ELSE contract.expectations[kind]

-----------------------------------------------------------------------------
createInitialLockset(p, fn, contract) ==
  {resolveObjectInScope(p, fn, t) : t \in Range(Targets(contract, "requires"))} \ {None}

UnresolvedRequires(p, fn, contract) ==
  InOrder(LAMBDA t : IF resolveObjectInScope(p, fn, t) = None
                     THEN reportUnresolvableAnnotation("requires", t, contract.pos)
                     ELSE <<>>,
          Targets(contract, "requires"))

-----------------------------------------------------------------------------
(***************************************************************************)
(* A target of the callee's contract that means nothing at this call.      *)
(***************************************************************************)
Unmapped(p, kind, site, target) ==
  IF annotationRootIsCallsiteLocal(p, site.callee, target)
  THEN reportCallsiteLocalRootAnnotation(kind, target, <<p.fns[site.callee].name>>, site.pos)
  ELSE reportUnresolvableAnnotation(kind, target, site.pos)

\* Slip: any held mutex will do.
CheckSomeLockHeld(p, site, held, target) ==
  LET lock == resolveObjectAtInvocation(p, site.callee, site.args, target) IN
    CASE lock = None -> Unmapped(p, "requires", site, target)
      [] lock # None /\ held # {} -> <<>>
      [] OTHER -> <<Finding(site.pos, "call needs lock", "requires",
                            <<p.fns[site.callee].name>>, target)>>

checkRequiresExpectation(p, site, held, target) ==
  LET lock == resolveObjectAtInvocation(p, site.callee, site.args, target) IN
    CASE lock = None -> Unmapped(p, "requires", site, target)
      [] lock # None /\ lock \in held -> <<>>
      [] OTHER -> <<Finding(site.pos, "call needs lock", "requires",
                            <<p.fns[site.callee].name>>, target)>>

checkAcquiresExpectation(p, site, held, target) ==
  LET lock == resolveObjectAtInvocation(p, site.callee, site.args, target) IN
    CASE lock = None -> Unmapped(p, "acquires", site, target)
      [] lock # None /\ lock \in held ->
           <<Finding(site.pos, "call takes held lock", "acquires", <<p.fns[site.callee].name>>, target)>>
      [] OTHER -> <<>>

(***************************************************************************)
(* A call with a contract the lookup of the callee may give.               *)
(***************************************************************************)
handleStaticCalleeFunction(p, site, held, contract) ==
  InOrder(LAMBDA t : checkRequiresExpectation(p, site, held, t), Targets(contract, "requires"))
    \o InOrder(LAMBDA t : checkAcquiresExpectation(p, site, held, t), Targets(contract, "acquires"))

checkGuardedByAccess(p, fn, site, held, registry) ==
  LET invariant == dataInvariantForAddress(p, registry, site)
      lock == resolveGuardLockObject(p, fn, site, invariant.mutex)
  IN  CASE invariant = None -> <<>>
        [] invariant # None /\ lock = None ->
             reportUnresolvableAnnotation("guarded_by", invariant.mutex, invariant.pos)
        [] invariant # None /\ lock # None /\ lock \notin held ->
             <<Finding(site.pos, "access needs lock", "guarded_by",
                       <<site.object[3]>>, invariant.mutex)>>
        [] OTHER -> <<>>

-----------------------------------------------------------------------------
(***************************************************************************)
(* The advice a function may get with this contract; None is no advice.    *)
(***************************************************************************)
detectLikelyMissingLockAnnotations(p, fn, contract) ==
  LET likely == firstLikelyMissingAnnotation(p, fn, contract)
  IN  IF p.fns[fn].synthetic \/ likely = {} THEN {None} ELSE likely

AdvisedTarget(p, fn, contract, advice) ==
  preferredLockDisplayName(p, fn, contract, advice.kind, advice.lock)

\* Without a position the advice is placed at the function.
reportLikelyMissingAnnotation(p, fn, contract, advice) ==
  LET first == p.fns[fn].evidence[advice.lock].pos
  IN  Placed(Advisory(IF first = 0 THEN p.fns[fn].pos ELSE first, "likely missing", advice.kind,
                      <<p.fns[fn].name>>, AdvisedTarget(p, fn, contract, advice)))

-----------------------------------------------------------------------------
(***************************************************************************)
(* The ways the analysis of fn may go: the contract it is given, the       *)
(* advice, and what it records with the contract each call finds.          *)
(***************************************************************************)
functionAnalyses(p, fn, registry, strictMode) ==
  LET f == p.fns[fn]
      calls == {k \in DOMAIN f.sites : f.sites[k].op = "call"}
      found == {g \in [calls -> UNION {contractForFunction(p, f.sites[k].callee, registry) : k \in calls}] :
                  \A k \in calls : g[k] \in contractForFunction(p, f.sites[k].callee, registry)}
      Recorded(contract, advice, at) ==
        LET Held(site) == site.held \cup createInitialLockset(p, fn, contract)
            Checks(k) == LET site == f.sites[k] IN
              IF k \in calls
              THEN handleStaticCalleeFunction(p, site, Held(site), at[k])
              ELSE checkGuardedByAccess(p, fn, site, Held(site), registry)
        IN  UnresolvedRequires(p, fn, contract)
              \o (IF advice = None THEN <<>>
                  ELSE reportLikelyMissingAnnotation(p, fn, contract, advice))
              \o f.orders.always
              \o (IF strictMode THEN f.orders.strict ELSE <<>>)
              \o FlattenSeq([k \in DOMAIN f.sites |-> Checks(k)])
  IN  UNION {UNION {{[contract |-> c, advice |-> a, recorded |-> Recorded(c, a, at)] : at \in found} :
                    a \in detectLikelyMissingLockAnnotations(p, fn, c)} :
             c \in contractForFunction(p, fn, registry)}

=============================================================================
