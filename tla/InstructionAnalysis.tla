------------------------ MODULE InstructionAnalysis ------------------------
(***************************************************************************)
(* What one SSA instruction does to the analysis state and which           *)
(* diagnostics it raises: analyzer/instruction_analysis.go, with           *)
(* guard_checks.go and the per-call half of recursion_heuristics.go.       *)
(*                                                                         *)
(* An instruction is a record with a field op:                             *)
(*   lock, unlock   lock : the lock object, Nil when it cannot be resolved *)
(*   defer          locks, unlocks : what collectDeferredCallLockEffects   *)
(*                  finds in the deferred call                             *)
(*   rundefers      runs the deferred calls                                *)
(*   access         guard : the lock the data's @guarded_by names, or Nil  *)
(*   call           callee : the static callee                             *)
(*   dyncall        targets : what resolveDynamicCallTargets finds         *)
(*   return                                                                *)
(* A callee carries its contract as seen from the call site (requires,     *)
(* acquires), the locks its body transitively locks (acquired) and itself  *)
(* unlocks (released), whether the call is an edge of a recursive cycle    *)
(* (recursive) and the locks with evidence of being locked (evidence).     *)
(***************************************************************************)
EXTENDS AnalysisState, Naturals, Sequences

CONSTANTS
  Nil,        \* an annotation target or lock receiver that does not resolve
  NameOf      \* the variable or field name of every lock object

ASSUME NilAssumption == Nil \notin Locks
ASSUME NameAssumption == DOMAIN NameOf = Locks

(***************************************************************************)
(* The analyzer compares some locks by object and some by object or name.  *)
(***************************************************************************)
isHeldLockEquivalent(heldLocks, candidate) ==
  \E l \in heldLocks : NameOf[l] = NameOf[candidate]

Names(ls) == {NameOf[l] : l \in ls}

-----------------------------------------------------------------------------
\* Slip: an acquired lock is recorded as held but not as possibly held.
AcquireMustOnly(s, l) == [s EXCEPT !.HeldLocks = @ \cup ({l} \ {Nil})]

(***************************************************************************)
(* Effects on the analysis state.                                          *)
(***************************************************************************)
Acquire(s, l) ==
  [s EXCEPT !.HeldLocks = @ \cup ({l} \ {Nil}), !.MayHeldLocks = @ \cup ({l} \ {Nil})]

Release(s, ls) == [s EXCEPT !.HeldLocks = @ \ ls, !.MayHeldLocks = @ \ ls]

\* Slip: a call never changes the caller's locks.
CallReleasesNothing(s, c) == s

\* Slip: a call releases whatever its callee unlocks, required or not.
CallReleasesAll(s, c) == Release(s, {l \in s.HeldLocks : isHeldLockEquivalent(c.released, l)})

(***************************************************************************)
(* A call releases the required locks that the callee's own body unlocks.  *)
(***************************************************************************)
applyReleasedRequiresEffects(s, c) ==
  Release(s, {l \in c.requires \cap s.HeldLocks : isHeldLockEquivalent(c.released, l)})

registerDeferInstruction(s, locks, unlocks) ==
  [s EXCEPT !.DeferredLocks = @ \cup locks, !.DeferredUnlocks = @ \cup unlocks]

(***************************************************************************)
(* RunDefers applies the deferred locks, then the deferred unlocks,        *)
(* whatever the order of the defer statements.                             *)
(***************************************************************************)
applyDeferredEffects(s) ==
  [HeldLocks       |-> (s.HeldLocks \cup s.DeferredLocks) \ s.DeferredUnlocks,
   MayHeldLocks    |-> (s.MayHeldLocks \cup s.DeferredLocks) \ s.DeferredUnlocks,
   DeferredLocks   |-> {},
   DeferredUnlocks |-> {}]

Effect(i, s) ==
  CASE i.op = "lock"      -> Acquire(s, i.lock)
    [] i.op = "unlock"    -> Release(s, {i.lock})
    [] i.op = "defer"     -> registerDeferInstruction(s, i.locks, i.unlocks)
    [] i.op = "rundefers" -> applyDeferredEffects(s)
    [] i.op = "call"      -> applyReleasedRequiresEffects(s, i.callee)
    [] OTHER              -> s

-----------------------------------------------------------------------------
(***************************************************************************)
(* Diagnostics.  "at" is the instruction (its source position), "about"    *)
(* the callee's name or "" and "locks" the lock names in the message.      *)
(* The reporter drops a diagnostic equal to an earlier one, so the         *)
(* diagnostics of a run are a set.  The two advisories for an annotation   *)
(* that does not resolve differ in wording only and are one kind here.     *)
(***************************************************************************)
FindingKinds ==
  {"MissingLock", "GuardViolation", "AlreadyAcquired", "Reacquired",
   "ReturnMissing", "UndeclaredReturn"}

AdvisoryKinds == {"NotCheckable", "DynamicCallback", "RecursiveReacquire"}

Diagnostic(kind, at, about, locks) ==
  [kind |-> kind, at |-> at, about |-> about, locks |-> locks]

When(condition, d) == IF condition THEN {d} ELSE {}

\* Slip: only a lock held on every path counts as acquired again.
LockReportsMustOnly(at, l, s) ==
  When(l \in s.HeldLocks, Diagnostic("Reacquired", at, "", Names({l} \cap Locks)))

LockReports(at, l, s) ==
  When(l \in s.MayHeldLocks, Diagnostic("Reacquired", at, "", Names({l} \cap Locks)))

\* Slip: a lock held on some path is enough for guarded data.
GuardedByMayHeld(at, guard, s) ==
  CASE guard = Nil             -> {Diagnostic("NotCheckable", at, "guarded_by", {})}
    [] guard \in s.MayHeldLocks -> {}
    [] OTHER                   -> {Diagnostic("GuardViolation", at, "", {NameOf[guard]})}

checkGuardedByAccess(at, guard, s) ==
  CASE guard = Nil             -> {Diagnostic("NotCheckable", at, "guarded_by", {})}
    [] guard \in s.HeldLocks   -> {}
    [] OTHER                   -> {Diagnostic("GuardViolation", at, "", {NameOf[guard]})}

\* Slip: a lock held on some path is enough for @requires.
RequiresMayHeld(at, c, s) ==
  {Diagnostic("MissingLock", at, c.name, {NameOf[l]}) :
      l \in (c.requires \cap Locks) \ s.MayHeldLocks}

(***************************************************************************)
(* The contract of a statically resolved callee at a call site, checked    *)
(* against the must-held locks by object.                                  *)
(***************************************************************************)
checkRequiresExpectation(at, c, s) ==
  {Diagnostic("MissingLock", at, c.name, {NameOf[l]}) :
      l \in (c.requires \cap Locks) \ s.HeldLocks}

checkAcquiresExpectation(at, c, s) ==
  {Diagnostic("AlreadyAcquired", at, c.name, {NameOf[l]}) :
      l \in c.acquires \cap s.HeldLocks}

NotCheckable(at, c, targets) ==
  When(targets # {}, Diagnostic("NotCheckable", at, c.name, {}))

hasExplicitAcquires(c) == c.acquires # {}

(***************************************************************************)
(* The names that a held lock with evidence of Lock calls may be given: by *)
(* object first, then by name.  Which one depends on Go's map order.       *)
(***************************************************************************)
matchHeldLockFromEvidence(s, evidence) ==
  LET held == s.HeldLocks \cap evidence
  IN  Names(IF held # {} THEN held
            ELSE {l \in evidence : isHeldLockEquivalent(s.HeldLocks, l)})

\* The name it prints is left out.
reportRecursiveCallMayReacquireLock(at, c) == Diagnostic("RecursiveReacquire", at, c.name, {})

checkRecursiveCallLockReacquireHeuristic(at, c, s) ==
  When(/\ c.recursive
       /\ ~hasExplicitAcquires(c)
       /\ matchHeldLockFromEvidence(s, c.evidence) # {},
       reportRecursiveCallMayReacquireLock(at, c))

(***************************************************************************)
(* Locks the callee's body takes although an equivalent one is held.       *)
(***************************************************************************)
Reacquiring(at, c, s) ==
  {Diagnostic("AlreadyAcquired", at, c.name, {NameOf[l]}) :
      l \in {x \in c.acquired : ~hasExplicitAcquires(c)
                                /\ isHeldLockEquivalent(s.HeldLocks, x)}}

StaticCallReports(at, c, s) ==
  checkRecursiveCallLockReacquireHeuristic(at, c, s)
    \cup checkRequiresExpectation(at, c, s)
    \cup checkAcquiresExpectation(at, c, s)
    \cup NotCheckable(at, c, (c.requires \cup c.acquires) \cap {Nil})
    \cup Reacquiring(at, c, applyReleasedRequiresEffects(s, c))

(***************************************************************************)
(* A dynamic call has no static callee, so resolveObjectAtCallSite gives   *)
(* nothing and no contract of a target can be checked.                     *)
(***************************************************************************)
reportDynamicCallbackWhileHoldingLocks(at, s) ==
  When(s.HeldLocks # {}, Diagnostic("DynamicCallback", at, "", Names(s.HeldLocks)))

\* Slip: the advisory for unchecked targets is left out.
DynamicCallWithoutFallback(at, targets, s) ==
  UNION {checkRecursiveCallLockReacquireHeuristic(at, c, s)
           \cup NotCheckable(at, c, c.requires \cup c.acquires)
           \cup Reacquiring(at, c, s) : c \in targets}

DynamicCallReports(at, targets, s) ==
  LET reacquired == UNION {Reacquiring(at, c, s) : c \in targets}
  IN  (UNION {checkRecursiveCallLockReacquireHeuristic(at, c, s)
                \cup NotCheckable(at, c, c.requires \cup c.acquires) : c \in targets})
        \cup reacquired
        \cup (IF reacquired = {}
              THEN reportDynamicCallbackWhileHoldingLocks(at, s)
              ELSE {})

(***************************************************************************)
(* At a return: each declared @returns lock must be held, by object or     *)
(* name; without a declaration no lock may be held.                        *)
(***************************************************************************)
reportReturnMissingLock(at, l) == Diagnostic("ReturnMissing", at, "", {NameOf[l]})

reportUndeclaredReturnedLock(at, held) == Diagnostic("UndeclaredReturn", at, "", Names(held))

checkReturnsExpectation(at, l, s) ==
  CASE l = Nil                                -> {Diagnostic("NotCheckable", at, "returns", {})}
    [] l # Nil /\ isHeldLockEquivalent(s.HeldLocks, l) -> {}
    [] OTHER                                  -> {reportReturnMissingLock(at, l)}

checkReturnPath(at, returns, s) ==
  IF returns # {}
  THEN UNION {checkReturnsExpectation(at, l, s) : l \in returns}
  ELSE When(s.HeldLocks # {}, reportUndeclaredReturnedLock(at, s.HeldLocks))

Reports(p, at, i, s) ==
  CASE i.op = "lock"    -> LockReports(at, i.lock, s)
    [] i.op = "access"  -> checkGuardedByAccess(at, i.guard, s)
    [] i.op = "call"    -> StaticCallReports(at, i.callee, s)
    [] i.op = "dyncall" -> DynamicCallReports(at, i.targets, s)
    [] i.op = "return"  -> checkReturnPath(at, p.returns, s)
    [] OTHER            -> {}

-----------------------------------------------------------------------------
(***************************************************************************)
(* analyzeInstructions runs a block's instructions in order.               *)
(* StateAt(p, b, s)[n] is the state after the first n of them.             *)
(***************************************************************************)
StateAt(p, b, s) ==
  LET after[n \in 0..Len(p.body[b])] ==
        IF n = 0 THEN s ELSE Effect(p.body[b][n], after[n - 1])
  IN  after

BlockTransfer(p, b, s) == StateAt(p, b, s)[Len(p.body[b])]

BlockEmit(p, b, s) ==
  UNION {Reports(p, <<b, n>>, p.body[b][n], StateAt(p, b, s)[n - 1]) :
           n \in 1..Len(p.body[b])}

(***************************************************************************)
(* createInitialLockset reports the @requires targets that do not resolve. *)
(***************************************************************************)
RequiresReports(p) ==
  When(Nil \in p.requires, Diagnostic("NotCheckable", <<p.entry, 0>>, "requires", {}))

============================================================================
