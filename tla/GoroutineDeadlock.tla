-------------------------- MODULE GoroutineDeadlock --------------------------
(***************************************************************************)
(* The search for lock-order inversions between the goroutines a package   *)
(* launches (analyzer/goroutine_deadlock.go, driven by Run of              *)
(* analysis_runner.go), followed by a run of those goroutines.             *)
(*                                                                         *)
(* A package gives every function the locks of its @acquires annotations   *)
(* in order, the functions it calls and the functions it launches with a   *)
(* go statement, in program order; strict is the mode.  Locks are          *)
(* package-level: a lockRef denotes the same lock at every call site.      *)
(***************************************************************************)
EXTENDS LockOrder, SequencesExt

CONSTANTS
  Functions,   \* the functions of the package
  Packages,    \* the packages that may be analysed, each with a mode
  SnapshotOrder \* the order in which a recorded run met the functions

\* The locks that the annotations of a package name.
RefsOf(p) == UNION {Range(p.acquires[f]) : f \in Functions}

ASSUME PackageAssumption ==
  /\ IsFiniteSet(Functions)
  /\ \A p \in Packages :
       /\ p.calls \in [Functions -> Seq(Functions)]
       /\ p.launches \in [Functions -> Seq(Functions)]
       /\ p.acquires \in [Functions -> Seq(RefsOf(p))]
       /\ p.strict \in BOOLEAN

VARIABLES
  pkg,         \* the package under analysis; never changes
  phase,       \* "functions", "collect", "compare" or "done"
  todo,        \* functions the current phase has not visited
  sites,       \* go statements collected package-wide, in the order met
  next,        \* the site to compare with the later ones
  reports,     \* diagnostics recorded so far
  progress,    \* lock operations each goroutine of the run has performed
  held         \* locks each goroutine of the run holds

analysisVars == <<phase, todo, sites, next, reports>>

runVars == <<progress, held>>

vars == <<pkg, analysisVars, runVars>>

-----------------------------------------------------------------------------
(***************************************************************************)
(* What f gives before its calls, its callees give in program order, and f *)
(* gives after them.  A function that is active already is cut, and counts *)
(* again once it has returned.                                             *)
(***************************************************************************)
Transitively(p, before, after, f) ==
  LET walk[active \in SUBSET Functions] ==
        [g \in Functions |->
           IF g \in active
           THEN <<>>
           ELSE before[g]
                  \o FlattenSeq([k \in 1..Len(p.calls[g]) |-> walk[active \cup {g}][p.calls[g][k]]])
                  \o after[g]]
  IN  walk[{}][f]

(***************************************************************************)
(* The acquisition order of f: the locks of its own @acquires, then those  *)
(* of its callees.                                                         *)
(***************************************************************************)
collectTransitiveAcquireOrder(p, f) ==
  Transitively(p, p.acquires, [g \in Functions |-> <<>>], f)

(***************************************************************************)
(* The go statements of a function that acquire some lock, and its calls   *)
(* that acquire at least two.  "at" is the statement's source position.    *)
(***************************************************************************)
Site(p, f, callees, k) ==
  [at |-> <<f, k>>, callee |-> callees[k],
   order |-> collectTransitiveAcquireOrder(p, callees[k])]

Sites(p, f, callees, least) ==
  LET enough(s) == Len(s.order) >= least
  IN  FlattenSeq([k \in 1..Len(callees) |->
                    IF enough(Site(p, f, callees, k)) THEN <<Site(p, f, callees, k)>> ELSE <<>>])

GoSites(p, f) == Sites(p, f, p.launches[f], 1)

CallSites(p, f) == Sites(p, f, p.calls[f], 2)

(***************************************************************************)
(* Diagnostics for an ordered pair of sites.  A diagnostic sits at the     *)
(* first site and mentions the line of the other and the locks.            *)
(***************************************************************************)
lockDisplayName(l) == IF l.obj # Nil THEN l.obj ELSE l.name

Diagnostic(kind, s, t, ls) ==
  [kind |-> kind, at |-> s.at, other |-> t.at,
   locks |-> [k \in 1..Len(ls) |-> lockDisplayName(ls[k])]]

InversionReports(kind, s, t) ==
  IF Inversions(s.order, t.order) = {}
  THEN {}
  ELSE {Diagnostic(kind, s, t, findOrderInversion(s.order, t.order))}

RecursiveReports(s, t) ==
  IF Repeats(s.order) # {} /\ containsLock(t.order, firstRepeatedLock(s.order))
  THEN {Diagnostic("RecursiveLock", s, t, <<firstRepeatedLock(s.order)>>)}
  ELSE {}

\* Slip: the orders with a repeated lock are searched in one direction only.
GoroutineReportsOneWay(list, i) ==
  UNION {RecursiveReports(list[i], list[j])
           \cup InversionReports("GoroutineInversion", list[i], list[j]) :
             j \in (i + 1)..Len(list)}

(***************************************************************************)
(* Site i of a list against all later ones.  Inversions are looked for in  *)
(* this direction only, repeated locks in both.                            *)
(***************************************************************************)
GoroutineReports(list, i) ==
  UNION {RecursiveReports(list[i], list[j])
           \cup RecursiveReports(list[j], list[i])
           \cup InversionReports("GoroutineInversion", list[i], list[j]) :
             j \in (i + 1)..Len(list)}

SingleThreadedReports(list, i) ==
  UNION {InversionReports("SingleThreadedInversion", list[i], list[j]) :
           j \in (i + 1)..Len(list)}

detectGoroutineLockOrderInversions(p, f) ==
  UNION {GoroutineReports(GoSites(p, f), i) : i \in 1..Len(GoSites(p, f))}

detectSingleThreadedLockOrderInversions(p, f) ==
  UNION {SingleThreadedReports(CallSites(p, f), i) : i \in 1..Len(CallSites(p, f))}

-----------------------------------------------------------------------------
(***************************************************************************)
(* The goroutines at run time.  A function takes its own locks, makes its  *)
(* calls and gives its locks back when it returns.  The calls that the     *)
(* analysis cuts are the ones a terminating recursion does not make.       *)
(***************************************************************************)
LockOps(op, locks) == [k \in 1..Len(locks) |-> [op |-> op, lock |-> locks[k].obj]]

Operations(p, f) ==
  Transitively(p, [g \in Functions |-> LockOps("lock", p.acquires[g])],
               [g \in Functions |-> LockOps("unlock", p.acquires[g])], f)

Goroutines(p) == UNION {{<<f, k>> : k \in 1..Len(p.launches[f])} : f \in Functions}

OperationsOf(g) == Operations(pkg, pkg.launches[g[1]][g[2]])

Ended(g) == progress[g] = Len(OperationsOf(g))

NextOp(g) == OperationsOf(g)[progress[g] + 1]

WaitsFor(g, h) == ~Ended(g) /\ NextOp(g).op = "lock" /\ NextOp(g).lock \in held[h]

Blocked(g) == \E h \in Goroutines(pkg) : WaitsFor(g, h)

-----------------------------------------------------------------------------
Init ==
  /\ pkg \in Packages
  /\ phase = "functions"
  /\ todo = Functions
  /\ sites = <<>>
  /\ next = 1
  /\ reports = {}
  /\ progress = [g \in Goroutines(pkg) |-> 0]
  /\ held = [g \in Goroutines(pkg) |-> {}]

(***************************************************************************)
(* Run visits the package's functions in the order of a Go map, that is in *)
(* any order, and looks for inversions within each.                        *)
(***************************************************************************)
AnalyzeFunction(f) ==
  /\ phase = "functions"
  /\ f \in todo
  /\ todo' = todo \ {f}
  /\ reports' = reports \cup detectGoroutineLockOrderInversions(pkg, f)
                  \cup (IF pkg.strict THEN detectSingleThreadedLockOrderInversions(pkg, f) ELSE {})
  /\ UNCHANGED <<pkg, phase, sites, next, runVars>>

FunctionsAnalyzed ==
  /\ phase = "functions"
  /\ todo = {}
  /\ IF pkg.strict
     THEN phase' = "collect" /\ todo' = Functions
     ELSE phase' = "done" /\ UNCHANGED todo
  /\ UNCHANGED <<pkg, sites, next, reports, runVars>>

\* Slip: the sites of a function replace those collected before.
CollectSitesAfresh(f) ==
  /\ phase = "collect"
  /\ f \in todo
  /\ todo' = todo \ {f}
  /\ sites' = GoSites(pkg, f)
  /\ UNCHANGED <<pkg, phase, next, reports, runVars>>

(***************************************************************************)
(* detectPackageWideGoroutineLockOrderInversions: the go statements of all *)
(* functions, again in the order of a Go map, then all pairs of them.      *)
(***************************************************************************)
CollectSites(f) ==
  /\ phase = "collect"
  /\ f \in todo
  /\ todo' = todo \ {f}
  /\ sites' = sites \o GoSites(pkg, f)
  /\ UNCHANGED <<pkg, phase, next, reports, runVars>>

SitesCollected ==
  /\ phase = "collect"
  /\ todo = {}
  /\ phase' = "compare"
  /\ UNCHANGED <<pkg, todo, sites, next, reports, runVars>>

\* Slip: the loop over the sites runs one too far.
CompareSiteTooFar ==
  /\ phase = "compare"
  /\ next <= Len(sites) + 1
  /\ reports' = reports \cup GoroutineReports(sites, next)
  /\ next' = next + 1
  /\ UNCHANGED <<pkg, phase, todo, sites, runVars>>

CompareSite ==
  /\ phase = "compare"
  /\ next <= Len(sites)
  /\ reports' = reports \cup GoroutineReports(sites, next)
  /\ next' = next + 1
  /\ UNCHANGED <<pkg, phase, todo, sites, runVars>>

PairsCompared ==
  /\ phase = "compare"
  /\ next > Len(sites)
  /\ phase' = "done"
  /\ UNCHANGED <<pkg, todo, sites, next, reports, runVars>>

Analyze ==
  \/ \E f \in Functions : AnalyzeFunction(f)
  \/ FunctionsAnalyzed
  \/ \E f \in Functions : CollectSites(f)
  \/ SitesCollected
  \/ CompareSite
  \/ PairsCompared

(***************************************************************************)
(* The goroutines interleave one lock operation at a time.                 *)
(***************************************************************************)
Perform(g) ==
  /\ phase = "done"
  /\ ~Ended(g)
  /\ ~Blocked(g)
  /\ progress' = [progress EXCEPT ![g] = @ + 1]
  /\ held' = [held EXCEPT ![g] = IF NextOp(g).op = "lock"
                                  THEN @ \cup {NextOp(g).lock}
                                  ELSE @ \ {NextOp(g).lock}]
  /\ UNCHANGED <<pkg, analysisVars>>

Stopped ==
  /\ phase = "done"
  /\ \A g \in Goroutines(pkg) : Ended(g) \/ Blocked(g)
  /\ UNCHANGED vars

Next ==
  \/ Analyze
  \/ \E g \in Goroutines(pkg) : Perform(g)
  \/ Stopped

Spec == Init /\ [][Next]_vars

-----------------------------------------------------------------------------
(***************************************************************************)
(* Types of the variables.                                                 *)
(***************************************************************************)
TypeOK ==
  /\ phase \in {"functions", "collect", "compare", "done"}
  /\ todo \subseteq Functions
  /\ next \in 1..(Len(sites) + 1)
  /\ \A d \in reports : {d.at, d.other} \subseteq
       Goroutines(pkg) \cup UNION {{<<f, k>> : k \in 1..Len(pkg.calls[f])} : f \in Functions}
  /\ progress \in [Goroutines(pkg) -> Nat]
  /\ DOMAIN held = Goroutines(pkg)

(***************************************************************************)
(* The packages for which the findings are claimed: annotations resolve,   *)
(* two locks have different names, and no goroutine takes a lock again     *)
(* that it has given back, for only the first occurrence of a lock in an   *)
(* order is compared.                                                      *)
(***************************************************************************)
Resolved(p) == \A r \in RefsOf(p) : r.obj # Nil

NamesDistinct(p) == \A r, s \in RefsOf(p) : r.name # "" /\ r.name = s.name => r.obj = s.obj

NeverRetaken(p) ==
  \A g \in Goroutines(p) :
    LET ops == Operations(p, p.launches[g[1]][g[2]])
    IN  \A i, j \in 1..Len(ops) :
          i < j /\ ops[i].op = "unlock" /\ ops[j].op = "lock" => ops[i].lock # ops[j].lock

Reported(kind, g, h) == \E d \in reports : d.kind = kind /\ {d.at, d.other} = {g, h}

(***************************************************************************)
(* The sites the mode compares: all of the package in strict mode, those   *)
(* of one function otherwise.                                              *)
(***************************************************************************)
Compared(g, h) == g # h /\ (pkg.strict \/ g[1] = h[1])

(***************************************************************************)
(* Two goroutines that wait for a lock of each other have been reported    *)
(* ("lock-order inversions across goroutine launches that occur in         *)
(* different functions throughout the package", analysis_runner.go).       *)
(***************************************************************************)
MutualWaitReported ==
  phase = "done" =>
    \A g, h \in Goroutines(pkg) :
      Compared(g, h) /\ WaitsFor(g, h) /\ WaitsFor(h, g)
        => Reported("GoroutineInversion", g, h)

OrderOf(g) == collectTransitiveAcquireOrder(pkg, pkg.launches[g[1]][g[2]])

(***************************************************************************)
(* A goroutine that blocks on a lock it holds itself has been reported     *)
(* against any other goroutine that takes the same locks.                  *)
(***************************************************************************)
SelfWaitReported ==
  phase = "done" =>
    \A g, h \in Goroutines(pkg) :
      /\ Compared(g, h)
      /\ WaitsFor(g, g)
      /\ \A k \in 1..Len(OrderOf(g)) : containsLock(OrderOf(h), OrderOf(g)[k])
      => Reported("RecursiveLock", g, h)

(***************************************************************************)
(* The reference for inversions: one goroutine takes some lock before      *)
(* another, the other goroutine takes them the other way round.            *)
(***************************************************************************)
TakenBefore(order) ==
  {<<order[ij[1]].obj, order[ij[2]].obj>> :
     ij \in {pq \in (1..Len(order)) \X (1..Len(order)) : pq[1] < pq[2]}}

Inverted(g, h) ==
  \E xy \in TakenBefore(OrderOf(g)) : xy[1] # xy[2] /\ <<xy[2], xy[1]>> \in TakenBefore(OrderOf(h))

TakesOnce(g) == Repeats(OrderOf(g)) = {}

(***************************************************************************)
(* An inversion is reported for exactly the pairs of goroutines that have  *)
(* one, whatever order the sites were collected in, provided neither takes *)
(* a lock twice; locks are different when their objects are ("different    *)
(* objects should not be same even if names match",                        *)
(* goroutine_deadlock_test.go).                                            *)
(***************************************************************************)
InversionsExact ==
  phase = "done" =>
    \A g, h \in Goroutines(pkg) :
      Compared(g, h) /\ TakesOnce(g) /\ TakesOnce(h)
        => (Reported("GoroutineInversion", g, h) <=> Inverted(g, h))

(***************************************************************************)
(* The findings of a package are the ones of its snapshot, whatever order  *)
(* the functions were visited in ("a stable conformance suite",            *)
(* tests/e2e/examples_e2e_test.go).                                        *)
(***************************************************************************)
SnapshotSites ==
  LET upto[k \in 0..Len(SnapshotOrder)] ==
        IF k = 0 THEN <<>> ELSE upto[k - 1] \o GoSites(pkg, SnapshotOrder[k])
  IN  upto[Len(SnapshotOrder)]

FindingsStable ==
  phase = "done" /\ pkg.strict =>
    {d \in reports : d.kind # "SingleThreadedInversion"} =
      (UNION {GoroutineReports(SnapshotSites, i) : i \in 1..Len(SnapshotSites)})
        \cup UNION {detectGoroutineLockOrderInversions(pkg, f) : f \in Functions}

==============================================================================
