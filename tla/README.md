# Gotsan in TLA+

Gotsan is a static analyzer for Go.  It reads annotations (`@requires`,
`@acquires`, `@returns`, `@guarded_by`) from comments, computes which mutexes
are held at every instruction of every function, and reports missing locks,
self-deadlocks and lock-order inversions.  This directory models the analyzer,
checks the models with TLC and proves the central ones with TLAPS.

## The system

| part | state | operations | what makes it correct |
|---|---|---|---|
| data-flow state (`analyzer/state.go`) | must-held, may-held and deferred lock sets | copy, compare, merge at a join | merging never strengthens a claim |
| traversal (`worklist.go`, `cfg_traversal.go`) | FIFO queue with an `inQueue` map, entry state per block | pop a block, update its successors | ends, at a fixpoint, which is the meet over all paths |
| instruction analysis (`instruction_analysis.go`, `guard_checks.go`) | the state at hand | effect and diagnostics of lock, unlock, defer, calls, accesses, returns | the lock sets are sound for every run; what goes wrong in a run was reported |
| call effects (`instruction_analysis.go`, `recursion_heuristics.go`) | sets of functions seen or active | which locks a callee locks or unlocks, transitively | every reachable lock is found, cycles are cut |
| recursion graph (`recursion_heuristics.go`) | index, low link, stack, component of each function | Tarjan's search | a call counts as recursive iff it lies on a cycle |
| lock order (`goroutine_deadlock.go`, `analysis_runner.go`) | launch sites and their acquisition orders | collect, compare pairs, report | goroutines that can wait for each other are reported; findings do not depend on map order |
| contract registry (`parse/`, `ir/`, `contracts_lookup.go`) | contracts by name and by position, data invariants | register declarations, look up a function | a function is checked against its own contract |
| annotation heuristics (`annotation_heuristics.go`) | counts of lock and unlock calls | advise a likely missing annotation | advice only for uncovered locks |
| reporter (`utils/report`, `diagnostics.go`) | findings, warnings, keys seen | record, deduplicate, sort | a diagnostic is printed once |
| dynamic dispatch and object resolution | none | targets of a call, object of a name | targets are the functions that can be called, wherever the patterns of the source reach |
| driver (`main.go`, `pipeline/`) | registry and reporter shared by all packages | load, register all files, analyze each package | all contracts are registered before any lookup |

The driver fills one registry from all files, then calls `Run` for each
package.  `Run` builds the recursion graph, visits the functions in the order
of a Go map and, in strict mode, compares the launch sites of the whole
package.  For each function the traversal looks its contract up, runs the
heuristics and the lock-order checks, and then iterates over the blocks; the
instruction analysis asks the registry, the recursion graph and the call
effects about each call and sends diagnostics to the reporter.  The analyzer
is sequential: its hard behaviour is not concurrency of its own but the order
of Go maps, an iteration that changes its mind while it reports, and graph
searches with mutable marks.  The concurrency is in the programs it judges, and
the models run those too.

## Modules

`AnalysisState` is the state and its merge.  A Go `LockSet` never holds a
false entry, so it is a set.  `Weaker` is the order the merge induces.

`CFGTraversal` is the loop of `functionDepthFirstSearch`.  `PopBlock` is one
turn up to the successors; `FirstVisit`, `MergeChanges` and `MergeKeeps` are
the three outcomes of `updateSuccessorState` for the next successor.  What a
block does (`Transfer`) and reports (`Emit`) are parameters: the proofs hold
for every block.  `CFGTraversalProofs` has the theorems.

`InstructionAnalysis` gives the parameters their meaning: `Effect` and
`Reports` are the two halves of `analyzeInstructions`, with one operator per
function of the source.  An annotation or receiver that does not resolve is
`Nil`; two locks with one name are told apart by object but not by
`isHeldLockEquivalent`, as in the source.  An advisory about an annotation is
placed at the instruction (the source places some at the declaration), and
the name in the recursion advisory is left out.

`FunctionAnalysis` puts the two together and states what the iteration must
compute: the meet over all paths, enumerated up to `PathBound` edges.

`GoExecution` is the analyzed function at run time: mutexes, calls, a stack of
deferred calls.  It is not code of the repository.  Mutexes are exclusive
(`RWMutex` and `TryLock` are not modelled).  `FunctionExecution` runs it after
the analysis and relates each step to what was computed and reported.

`LockOrder` and `GoroutineDeadlock` are the comparison of acquisition orders
and its driver, with one action per function visited, site collected and site
compared, followed by a run of the launched goroutines, interleaved one lock
operation at a time.  An acquisition order comes from annotations; the run
performs what the annotations say.

`CallGraph` and `CallComponents` are an abstract specification: strongly
connected components are found one at a time, callees first.  `RecursionGraph`
is Tarjan's search with the recursion of `strongConnect` as explicit frames,
and implements it (`Components`).

`DynamicDispatch` is the resolution of calls: a program is a set of SSA values
with their kinds, and the operators follow the pattern matching of the source
through loads, stores, parameters, captured variables, fields, interfaces and
results, up to where the source stops.  `ValueFlow` is not code of the
repository: it says what each value can be at run time, as a least fixpoint
over all stores, arguments, bindings and results, whatever the order of
execution.  `TracedCalls` states, as conditions on a program, how far the
patterns of the source reach (`Traceable`).  `CallEffects` is the three searches that collect the locks of a
callee, one activation of the recursive function per frame: `Enter` and `Skip`
are the test of the mark, `Leave` is the return that merges into the caller.
What a function's own instructions give (`bodies`) is computed at the start,
because it never changes.

`ObjectResolution` says which object an annotation's target means, inside the
annotated function and at a call of it, which the source decides on different
ways.  `ContractRegistry` is the registration of a declaration and every
fallback of the lookups; a lookup that depends on the order of a Go map returns
the set of contracts it may give.  `AnnotationHeuristics` is the advice to
annotate a function.  `PackageAnalysis` puts them together: what the analysis
of one function records because of annotations, in order.  Its functions carry
the lock sets at their call sites and accesses, which are the subject of
`FunctionAnalysis`, and the findings of the lock-order detectors, which are the
subject of `GoroutineDeadlock`.

`DiagnosticLog` is the abstract specification of the reporter: a set that
grows until it is published.  `Reporter` is the package `utils/report`: lists,
maps of keys, sorting.  `Driver` is a run of `gotsan` or of its `go vet` pass:
`Init` is the annotation discovery phase, `RunPackage`, `AnalyzeFunction` and
`FinishPackage` are the loops of `main` and `Run`, `Record` is one call of the
reporter, `Report` prints.  It implements the log (`ImplementsLog`).

`CFGTraversalProofs`, `FunctionAnalysisProofs`, `FunctionExecutionProofs`,
`GoroutineDeadlockProofs`, `RecursionGraphProofs`, `CallEffectsProofs` and
`DriverProofs` hold the theorems; `BoundedInduction` holds lemmas they share.
`MCFunctions`, `MCFunctionAnalysis`, `MCFunctionExecution`,
`MCConditionalDefer`, `MCGoroutineDeadlock`, `MCRecursionGraph`,
`MCCallEffects` and `MCDriver` hold the instances.  Operators whose comment starts with "Slip" are plausible
mistakes in the operator that follows; each is listed in `PROJECT.json` with
the property that catches it.

## Runs

| run | instance | shows |
|---|---|---|
| `traversal` | seven shapes of control flow with up to five blocks (straight, diamond, if, loop, two returns, an arm of two blocks, loop with break), each block locks, unlocks, accesses guarded data or does nothing, a defer may follow in the entry block; contracts with and without `@requires`, `@returns`, resolvable and not | termination under weak fairness of the loop; the queue is consistent; the result is a fixpoint and the meet over all paths; no finding stems from an entry state that was revised later |
| `execution` | the same functions, then run along every path | the must sets are sound at every instruction; a run that misses a lock, or locks one it holds, was reported there |
| `calls` | functions of three blocks over two locks that call functions which require, release, lock, or declare that they lock, statically or through an interface | the must and may sets are sound, and locks that are needed reported, across calls; a run that blocks in a callee was reported at the call |
| `conditional_defer` (violated) | a deferred unlock in one arm of a branch | `HeldLocks` is not a must fact after `RunDefers`: exactly the hypothesis `UnlocksAgree` of the soundness theorem is missed |
| `inversions` | two goroutines, a helper, three locks, launched from one function or two, both modes, every visiting order | inversions are reported exactly; every mutual wait and self-wait of a run was reported |
| `same_name` (violated) | two locks whose annotation text is equal | a false inversion: exactly the hypothesis `NamesDistinct` is missed |
| `unstable_findings` (violated) | `examples/package_wide_abba` | the finding differs with the order of a Go map |
| `repeated_inversion` (violated) | orders x, y, x and x, y | a real deadlock of two goroutines is missed in one launch order: exactly the hypothesis `NeverRetaken` is missed |
| `recursion_graph` | call graphs of four functions | Tarjan's search implements `CallComponents`; recursive calls are marked exactly |
| `call_effects` | packages of five functions in which one calls two others in every way the analyzer resolves, with cycles, and the search from every function and defer statement, in each of the three modes | the targets of a dynamic call are exactly the functions it can reach at run time; every search ends, enters no function twice at once and finds the locks of all functions reached |
| `driver` | two packages, a and b: two types with methods that share a name with a plain function and with each other, seven targets for one annotation, two import paths, a package loaded twice, both front ends and all flags | a function is analysed with its own contract; what a callee assumes its callers are checked for; guarded accesses are reported exactly; a function with three locks to annotate gets one advice at a time, in any order, and is settled after three rounds; the report shows each diagnostic once, in order, whatever the order of the maps; every run ends |
| `foreign_contract` (violated) | the same, a in a directory below the module | a method is analysed with the contract of another type |

The hypotheses of the theorems about functions and packages are operators of
the models, and TLC evaluates them on every instance: the modules of the
instances assume that the passing runs meet all of them (`FunctionsComparable`,
`FunctionsAnalyzable`, `PackagesComparable`) and that each violated run misses
one.  The packages of `call_effects` are assumed to be traceable
(`PackagesTraceable`).

**Bounds.**  Five blocks suffice for a join, a loop, a loop with a second exit
and a path that reaches a join later than another one, which is what makes a
block be processed again.  One lock suffices inside a function because the
sets of different locks do not interact there; calls relate a required and an
unrelated lock, so they get two.  `PathBound` (edges of reference paths) is
past the point where the set of path states stops growing for these graphs:
a loop body of one-lock operations repeats its states after two rounds.
`DeferBound` is the number of pending defers of a run.  In four functions two
components can be nested and linked, which is the case in which a low link
must not be taken from a component that is already numbered.  The same shape
(a cycle entered from outside, a callee met again while it is active) is what
the marks of `call_effects` are about.  The recursive functions of
`DynamicDispatch` go as many rounds as there are values, and a round that does
not end the search looks at a value it had not looked at (`FirstOfKindFinds`,
`ReachedLeast`); `Denotes` goes on until nothing is added.  In `driver` one function is the only one
whose annotation varies: its target is resolved by each step of the resolution
in turn (parameter, implicit receiver, named type, observed field, member of
the package, none).

**Fairness.**  `FairSpec` and the `Spec` of `RecursionGraph`, `CallEffects` and
`Driver` assume weak fairness of the analyzer's own step: it is one sequential
program with nothing to wait for.
The runs of goroutines and of functions have no fairness, and only safety is
claimed of them.

## Proofs

`CFGTraversalProofs` proves, for every set of locks and blocks, every control
flow graph and every transfer function into `AnalysisStates` (the two named
assumptions of `CFGTraversal`):

- `TypeCorrect`: `Spec => []TypeOK`
- `QueueConsistent`: `Spec => []WorklistConsistent`
- `EndsAtFixpoint`: `Spec => []FixpointReached`
- `OnlyWeakens`: `Spec => EntryStatesOnlyWeaken`

`FixpointReached` speaks of the end of the loop only and is not inductive.
The invariant says why it comes true: a block with an entry state that is
neither queued nor being propagated has already been absorbed by all its
successors (`OthersPropagated`), and for the block being propagated
(`curr`) this holds of the successors already handled (`CurrPropagating`).
The delicate step is a block that is its own successor, or that is queued
again while its successors are being updated: its entry state changes, but
then it is in the queue.  Monotonicity of the transfer function is never
used; the one transfer that is not monotone, `RunDefers`, stands right before
the return in SSA form and reaches no entry state.  Entry states only
weaken because `MergeForSuccessor` yields a state weaker than both arguments
(`MergeWeakens`).

- `ReportsComplete`: `Spec => []FinalStatesReported`
- `EveryStepDescends`: `Spec => [][Descends]_vars`

`EveryStepDescends` is the half of termination a prover can see: a step
weakens the entry states, or keeps them and shortens the queue, or keeps both
and shortens the list of successors, and `WeakerAntisymmetric` says that a
weakened state never comes back.  That such a descent ends for finitely many
blocks and locks, and that the loop then terminates under its fairness, is
liveness and stays with TLC.

`ReportsComplete` needs that what a block reported in the entry state it has
is among the findings as soon as the block is not queued (`AllReported`).

`FunctionAnalysisProofs` proves, for any locks, blocks and set of functions,
that merging at joins, revising entry states and reporting on the way change
nothing:

- `MeetsExact`: `MeetOverPaths`, the entry states are the meet over all paths
- `FindingsWitnessed`: `FindingsHaveWitness`, every finding is raised by a path

One half is coverage.  Where all paths have the same deferred effects pending,
a block is monotone (`Under`), so the fixpoint lies below the state of every
path (`PathsCovered`).  The other half is that it is no lower.  Every entry
state is the meet of the states of some set of paths (`MeetSets`), because each
instruction adds and removes the same locks in all of them (`EffectChanges`)
and so commutes with the meet (`EffectOfMeet`); a merge is the meet of the union.
This holds at every moment, so a diagnostic, whenever it was recorded, was
recorded in a meet of path states (`RaisedInMeets`), and what is raised there is
raised in one of the states (`ReportHasWitness`).  The hypotheses are
`Comparable` (`WellFormed`, `UnlocksAgree`, `LocksAgree` and `PathsComplete`: the
reference has seen every path state; longer paths bring none) and, for the
exactness of `MayHeldLocks` only, `CallsKeepLocks`: a call removes a lock it
releases from `MayHeldLocks` only where it is in `HeldLocks`, so after a join the
analyzer keeps one that each path alone would drop.

`FunctionExecutionProofs` proves soundness, for any locks, any program and any
run of it, from what was just proved of the traversal:

- `MustFactsSound`: `HeldLocks` is held in every run that gets there
- `MayFactsSound`: whatever a run holds is in `MayHeldLocks`
- `MissingLocksReported`, `SelfDeadlocksReported`: a run that needs a lock it
  does not hold, or locks one it holds, was reported at that instruction

- `CallDeadlocksReported`: `CallDeadlockReported`, a run that blocks in a callee
  on a lock held on every path to the call was reported at the call
- `DynamicCallDeadlocksNoticed`: `DynamicCallDeadlockNoticed`, the same for a
  dynamic call, by a finding or an advisory

The invariant (`Positioned`, `RunFits`) says that a run stands at an
instruction whose state, computed from the entry state of its block, fits the
run: must-held locks are held, held ones may be held, and the pending defers
are the ones the state counts.  One step of the run keeps this because one
instruction does (`Effect` against `GoExecution`), and the edge to the next
block keeps it because the entry states are a fixpoint and a merge only
weakens.  A blocked run stands before a lock the may set has
(`BlockedOnMayHeld`), hence the report.  In a dynamic call it blocks inside a
target that still holds what the caller held (`BlockedInTarget`), so the target
takes a lock of the caller.  What every path holds is in `HeldLocks` at the
instruction (`HeldOnEveryPathIsHeldHere`), by the theorem about meets above.

The hypotheses, each an operator of `FunctionAnalysis` or `FunctionExecution`:
`Analyzable` (annotations and receivers resolve, callees do what their
annotations say), `NamesDistinct` (locks are told apart by name as by object,
for reports that compare names), `UnlocksAgree` (paths that join have the same
deferred unlocks pending) and `LocksAgree` (the same for deferred locks).  The
last two are needed because deferred calls are merged by intersection and
applied when the function returns: a deferred unlock that one path lacks stays
out of the state, so `HeldLocks` keeps a lock that is gone; that is the run
`conditional_defer`.  Likewise a deferred lock that is dropped makes
`MayHeldLocks` too small.  The theorems about calls need that a callee with
`@acquires` declares every lock it takes, since its body is then not looked at
(`AcquiresDeclared`), or that a target of a dynamic call unlocks nothing it has
not locked (`TargetsKeepLocks`).

`GoroutineDeadlockProofs` proves, for any package, launches, calls (recursive
ones included), both modes and every order of the Go maps:

- `TypeCorrect`: `Spec => []TypeOK`
- `InversionsReportedExactly`: `Spec => []InversionsExact`
- `MutualWaitsReported`: `Spec => []MutualWaitReported`
- `SelfWaitsReported`: `Spec => []SelfWaitReported`

The search: the sites collected are those of the functions visited, each once
(`SitesInv`), and what has been compared has been reported (`ComparedInv`);
hence every pair of different goroutines the mode compares has been compared in
one of the two directions (`AllPairsCompared`), and it does not matter in which,
for orders that cross are an `Inversion` either way (`CrossedInversions`,
`TakenOnceOpposed`).  The run: a lock has one holder
(`Exclusive`), what is held was taken (`HeldTaken`) and what was taken is held
or was given back (`TakenHeld`).  The two meet in `Follows`: the operations of a
goroutine take the locks of its acquisition order, one for one and in that
order, although both are computed by a recursion that is cut at active
functions.  So a goroutine that waits has the lock it holds before the one it
waits for in its order (`WaitingTakes`).  The hypotheses: `Resolved` (a lock
has an object), `NamesDistinct` (run `same_name` shows the need) and, for
mutual waits, `NeverRetaken` (no lock is taken again after it was given back:
only first occurrences are compared, run `repeated_inversion`).

`BoundedInduction` replaces the induction theorems of the library, which take an
operator as parameter and cannot be used here: induction along `0..N` and over
a finite set of functions, stated for sets of numbers and of sets, the
existence of a function defined by recursion on the active functions
(`ExpandingRecursion`), closure by rounds (`GrowthIsLeast`) and what a
concatenation of sequences contains (`FlattenSeqRange`).

`RecursionGraphProofs` proves, for any functions and any call graph with
finite lists of callees (`CallGraphAssumption`):

- `TypeCorrect`: `Spec => []TypeOK`
- `StackAgrees`: `Spec => []StackConsistent`
- `LinksReachable`: `Spec => []LowlinkReachable`
- `RecursionExact`: `Spec => []RecursiveEdgesExact`
- `ComponentsOneByOne`: the initial states and the steps of the search are
  initial states and steps (or stutters) of `CallComponents`

`BaseInv` has the bookkeeping: indices are distinct and grow along the stack,
the active functions are on it in that order, and each is at its call of the
next.  `SearchInv` is the reason why the search is right.  A function on the
stack can reach the one its link names (`LinkInv`); an active function leads to
all that were discovered after it (`ActiveLeads`), and whatever is on the stack
leads to an active function discovered before it (`LeadsToActive`), so what is
popped together is one cycle (`CycleInv`).  That it is a whole component needs
the other direction: no function of a branch has a lower link than the active
function the branch starts from (`BranchInv`), and a callee already looked at
is on the stack no deeper than the link (`CalleesInv`); therefore no popped
function calls one that stays behind, and components are numbered callees first
(`OrderInv`).  The delicate step is `ReturnInside`: a function that is left
without a component must lead to one still active, which it does through the
function its link names.  Reachability is stated over closed sets of functions,
so the proofs need no induction over paths.

`CallEffectsProofs` proves, of the searches, for any programs and any resolution
of their calls:

- `TypeCorrect`: `Spec => []TypeOK`
- `NeverReentered`: `Spec => []NoReentry`
- `EffectsOfReachable`: `Spec => []ReachableExactly`
- `EffectsExactWhenResolved`, `EvidenceExactWhenResolved`,
  `DeferredCoveredWhenResolved`: `EffectsExact`, `EvidenceExact` and
  `DeferredEffectsCovered` hold wherever `CallsResolved` does

Every frame but that of a defer statement carries a mark and no two frames are
of one function (`FramesInv`), in spite of the mark that the evidence search
takes back.  `ReachableExactly` says that every search ends with the locks of
exactly the least set of functions closed under calls.  The danger is the
callee that is skipped although its own search is not over.  In the two
searches that keep their marks, whatever is not marked yet is still on the list
of the frame it is called from (`NothingLost`), every mark is in every closed
set (`NothingExtra`), and the frames together hold the locks of the marked
functions (`Collected`).  In the evidence search, whatever is reachable is
collected, or can be reached from the list of some frame without a call of the
functions that are active up to that frame, which are the ones skipped below it
(`NothingDropped`).  The least closed set is characterized by quantifying over
all closed sets, so no induction is needed.  The only assumption,
`ProgramsAssumption`, is that `None` is no function and no result.

What a run can call is a recursion over rounds (`CalledFrom`); that it comes to
the least closed set is `CalledFromLeast`, for finitely many functions
(`GrowthIsLeast`: a round that adds nothing is the last).  `CallsResolved` is the
hypothesis that the functions of the package a call is taken to reach are those
it can reach.  The second half of the module proves it, and with it the last
invariants, for every traceable package:

- `TargetsExactWhenTraceable`: `Spec => [](Traceable(prog) => TargetsExact)`
- `CallsResolvedWhenTraceable`: `Spec => [](Traceable(prog) => CallsResolved)`
- `ExactWhenTraceable`: the same for `EffectsExact`, `EvidenceExact` and
  `DeferredEffectsCovered`, with no other hypothesis left

Both sides are recursions over the values of a program, and neither is unfolded.
What a value denotes is a least solution: `Denotes` grows from the literals until
nothing is added (`GrownIsLeast`, by induction on the pairs still missing), hence
any set that has the literals and is closed under flow contains it
(`DenotesLeast`), and an object comes from the value itself or from one of its
sources (`DenotesOrigin`).  What the source's depth-first search goes through is
a least set as well, and the search finds a value of the wanted kind exactly when
one of the leaves has it (`FirstOfKindFinds`; `WalkInv`: what is behind a value
looked at is looked at or still to be).  A value denotes what its leaves denote
(`DenotesLeaves`), so each pattern of the source is a statement about the leaves:
one function (`OneFunctionFound`), a parameter and the arguments bound to it
(`FunctionParameterFound`), a captured variable and its bindings
(`CapturedFound`), a field and what is stored into it (`FieldFound`), an
interface and the types it is made from (`BoxedFound`, `InterfaceCallResolved`).
`TracedCallResolved` puts them together.

`Traceable` is the reach of the patterns, spelled out: SSA form (`WellFormed`),
every function collected (`AllCollected`), and for each call one of the cases
above.  It excludes what the source gives up or gets wrong: merged branches (phi)
and array elements, a variable several functions are stored into (the source
takes the first), parameters of a function that is also entered by a `defer`
statement or a computed call, a parameter passed on to a parameter, a field of
another struct with the same index and type, an interface made from a type whose
pointer has another method of the name, a deferred call of anything but one
function.  TLC evaluates it on the packages of `call_effects`, where it holds of
all (`PackagesTraceable`).

The attempt corrected the model twice.  Two arms of a `CASE` in the search
overlapped, which leaves its value open, and `Denotes` was cut after as many
rounds as there are values, too early where the callees of a call, and with them
the places its arguments flow to, appear one after the other.

`DriverProofs` proves, for any programs, inputs, order of diagnostics and order
of the Go maps:

- `ListsConsistent`: a list of the reporter has no repetition and its keys are
  the ones marked as seen, before and after sorting (`ReporterConsistent`)
- `RunImplementsLog`: `Spec => ImplementsLog`
- `RunTypeOK`: `Spec => []TypeOK`
- `RunShownExact`: `Spec => []ShownExact`, the report is what was raised
- `RunOwnContract`: `Spec => []OwnContract`, a function is analysed with its own
  contract
- `RunAssumedLocksChecked`: `Spec => []AssumedLocksChecked`, what a function is
  analysed as holding is held at its calls, or the call is reported
- `RunAdviceSettles`: `Spec => []AdviceSettles`, advice that is followed comes
  to an end with every lock annotated, whatever the order of the map
- `RunGuardedAccessChecked`: `Spec => []GuardedAccessChecked`, the accesses of a
  guarded field are reported if and only if its mutex is not held

The refinement needs that what is queued for the reporter is empty when the
report is made (`QueueInv`) and that no step records after it (`StageInv`).
Sorting is any permutation in order, so the proof does not depend on the order
being total.  The other theorems need what a run has done so far (`RunInv`):
registry and outcomes are those of the program (`AnnotationInv`), what is still
to be done is part of it (`WorkInv`), each function analysed has gone one of
the ways its analysis may go, and all it records is raised (`AnalysedInv`), and
what is raised is in the lists or still queued (`RecordInv`).  The last one is
`ShownExact`: at the end nothing is queued, and a diagnostic is its key.

From there the proofs are about the operators.  The registry holds, under each
key and position, the contract of a declaration with that key
(`RegistryEntries`, by induction over the declarations); since the declaration
of a function is alone with its key, whatever a lookup finds first is its
contract (`GivenContract`).  `SameLock` is why a caller is checked for what the
callee assumes: the two sides resolve a target on different ways, but a target
that means an object to the callee means, at the call, the same object with the
argument in place of the parameter, or nothing at all, and then the call gets
an advisory.  `AdviceFollowed` says that a target written down covers the lock
it was advised for, and one more annotation covers no less (`CoveredByMore`), so
each round of advice leaves fewer locks without an annotation (`RoundSettles`).

The guard of a field is found because its type is the only one of its name
(`OwnerKnown`): the declarations before and after it write other keys
(`VisitGuards`), and a field of the type that comes later has another name
(`FieldsRegistered`); a type of a package that is loaded twice writes the same
again.  `LastParsed` says that the target that is kept is the last one of the
last annotation, and `GuardResolved` what it means.  A finding, for its part,
comes from the check at an access of an analysed function and from nowhere else
(`GuardInv`); all else an analysis records is quiet about guards (`Quiet`).

The assumptions are the shape of a Go program: `PackagesAssumption`,
`DeclarationsAssumption` (one declaration per function, distinct names of the
fields of a type), `FunctionsAssumption` and `SitesAssumption` (arguments of the
types of the parameters), and that `None` is no contract, no guard
(`NoneAssumption`) and no advice.  They are stated of the inputs of a run, and TLC evaluates
them on the instance of `driver`.

Only model-checked: liveness (`Termination` and the liveness part of
`Components`), which is beyond the prover.  Every invariant and action property
of the passing runs is a theorem.

## Known limits of the analyzer met on the way

The five violated runs are the `findings` in `PROJECT.json`.  Besides them:

- a callee that unlocks and relocks a required lock makes `MayHeldLocks` miss it
- a lock leaked on one of two joining paths is not reported
- a callee that takes a lock held on some paths to the call only is not reported;
  `CallDeadlockReported` is about locks held on every path
- of two declarations with one unqualified key the registry keeps the later one;
  `OwnContract` and `GuardedAccessChecked` leave them out
- an advisory about a call without a position is only logged;
  `AssumedLocksChecked` leaves such calls out
- the advice for one lock also settles another lock of the same name and use, which then
  never gets its own
- launch sites are compared in pairs, so a cycle of three goroutines is not found
- two defers on one mutex are applied locks first, whatever their order
- a target that starts with a field of the receiver (`stats.mu` for `c.stats.mu`)
  is assumed in the callee, but a caller does not resolve it and only notes so;
  `AssumedLocksChecked` leaves it out
- a target that is a parameter with the name of a package-level variable is
  assumed of the parameter, but where the argument is no known object a caller
  is checked for the variable; `AssumedLocksChecked` leaves it out as well
- a field without an annotation that has the name of a guarded package variable
  is held to the variable's mutex (`guard_checks.go:78-80`);
  `GuardedAccessChecked` leaves the findings of such fields out
- `inferConcreteReturnTypes` recurses without end in a function that returns
  the result of a call of itself; the model cuts the recursion
- a mutex field is one object for all values of its struct

## Plan

Done: all parts listed above are modelled and checked, and every invariant of
the passing runs is a theorem.  Left: further hazards without a property (each
has a note in `PROJECT.json`), and the hypotheses of the theorems, which could be
widened only where the source is.

## Not modelled

- loading and type checking (`go/packages`, `go/ssa`): external; the models take
  a program as these deliver it
- usage text, load errors, debug output, the listing of the registry and
  `logger`: wording, with no effect on the analysis
- the text of diagnostics beyond what tells two of them apart
- `RWMutex` as a shared lock and `TryLock`, in the execution
- the sample programs and the evaluation: inputs of the analyzer
