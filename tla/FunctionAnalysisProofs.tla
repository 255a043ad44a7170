----------------------- MODULE FunctionAnalysisProofs -----------------------
(***************************************************************************)
(* The entry states the worklist ends with are exactly the meet over all   *)
(* paths, and every finding has a path that would raise it alone.          *)
(*                                                                         *)
(* That the entry states are weak enough follows from the fixpoint along   *)
(* every path, as transfer is monotone where all paths have the same       *)
(* deferred effects pending.  That they are not too weak is an invariant:  *)
(* every entry state is the meet of the states of some paths, and so is    *)
(* every state in which a diagnostic was recorded.                         *)
(***************************************************************************)
EXTENDS FunctionAnalysis, CFGTraversalProofs, BoundedInduction

-----------------------------------------------------------------------------
(***************************************************************************)
(* An instruction maps analysis states to analysis states, and             *)
(* analyzeInstructions runs one after the other.                           *)
(***************************************************************************)
LEMMA EffectType ==
  ASSUME NEW i, WellTyped(i), NEW s \in AnalysisStates
  PROVE  Effect(i, s) \in AnalysisStates
<1>1. CASE i.op = "lock"
  <2>1. {i.lock} \ {Nil} \subseteq Locks
    BY <1>1 DEF WellTyped
  <2>2. Effect(i, s) = Acquire(s, i.lock)
    BY <1>1 DEF Effect
  <2>3. /\ s.HeldLocks \cup ({i.lock} \ {Nil}) \in SUBSET Locks
        /\ s.MayHeldLocks \cup ({i.lock} \ {Nil}) \in SUBSET Locks
    BY <2>1 DEF AnalysisStates
  <2> QED
    BY <2>2, <2>3 DEF Acquire, AnalysisStates
<1>2. CASE i.op = "unlock"
  <2>1. Effect(i, s) = Release(s, {i.lock})
    BY <1>2 DEF Effect
  <2> QED
    BY <2>1 DEF Release, AnalysisStates
<1>3. CASE i.op = "defer"
  <2>1. Effect(i, s) = registerDeferInstruction(s, i.locks, i.unlocks)
    BY <1>3 DEF Effect
  <2> QED
    BY <1>3, <2>1 DEF WellTyped, registerDeferInstruction, AnalysisStates
<1>4. CASE i.op = "rundefers"
  <2>1. Effect(i, s) = applyDeferredEffects(s)
    BY <1>4 DEF Effect
  <2> QED
    BY <2>1 DEF applyDeferredEffects, AnalysisStates
<1>5. CASE i.op = "call"
  <2>1. Effect(i, s) = applyReleasedRequiresEffects(s, i.callee)
    BY <1>5 DEF Effect
  <2> DEFINE gone == {l \in i.callee.requires \cap s.HeldLocks :
                         isHeldLockEquivalent(i.callee.released, l)}
  <2>2. Effect(i, s) = Release(s, gone)
    BY <2>1 DEF applyReleasedRequiresEffects
  <2> HIDE DEF gone
  <2> QED
    BY <2>2 DEF Release, AnalysisStates
<1>6. CASE i.op \notin {"lock", "unlock", "defer", "rundefers", "call"}
  BY <1>6 DEF Effect
<1> QED
  BY <1>1, <1>2, <1>3, <1>4, <1>5, <1>6

LEMMA StateAtSteps ==
  ASSUME NEW p, WellFormed(p), NEW b \in Blocks, NEW s \in AnalysisStates
  PROVE  /\ StateAt(p, b, s) \in [0..Len(p.body[b]) -> AnalysisStates]
         /\ StateAt(p, b, s)[0] = s
         /\ \A n \in 1..Len(p.body[b]) :
              StateAt(p, b, s)[n] = Effect(p.body[b][n], StateAt(p, b, s)[n - 1])
<1> DEFINE N == Len(p.body[b])
           body == p.body[b]
           step == [n \in 1..N |-> [r \in AnalysisStates |-> Effect(body[n], r)]]
           P(f) == f = [n \in 0..N |-> IF n = 0 THEN s ELSE Effect(body[n], f[n - 1])]
           after == CHOOSE f : P(f)
<1>1. N \in Nat /\ \A n \in 1..N : WellTyped(body[n])
  BY DEF WellFormed
<1>2. StateAt(p, b, s) = after
  BY DEF StateAt
<1> HIDE DEF N, body
<1>3. step \in [1..N -> [AnalysisStates -> AnalysisStates]]
  <2>1. \A n \in 1..N, r \in AnalysisStates : Effect(body[n], r) \in AnalysisStates
    BY <1>1, EffectType
  <2> QED
    BY <2>1
<1>4. PICK g : Iterates(g, N, AnalysisStates, s, step)
  <2> HIDE DEF step
  <2> QED
    BY <1>1, <1>3, IterationExists
<1>5. \A n \in 1..N : n - 1 \in 0..N /\ g[n] = Effect(body[n], g[n - 1])
  <2> TAKE n \in 1..N
  <2>1. n - 1 \in 0..N
    BY <1>1
  <2>2. g[n - 1] \in AnalysisStates /\ g[n] = step[n][g[n - 1]]
    BY <1>4, <2>1 DEF Iterates
  <2> QED
    BY <2>1, <2>2
<1>6. P(g)
  <2>1. \A n \in 0..N : n # 0 => n \in 1..N
    BY <1>1
  <2>2. \A n \in 0..N : g[n] = IF n = 0 THEN s ELSE Effect(body[n], g[n - 1])
    BY <1>4, <1>5, <2>1 DEF Iterates
  <2>3. g = [n \in 0..N |-> g[n]]
    BY <1>4 DEF Iterates
  <2> QED
    BY <2>2, <2>3
<1>7. P(after)
  <2> HIDE DEF P
  <2> QED
    BY <1>6
<1> HIDE DEF after
<1>8. /\ after = [n \in 0..N |-> after[n]]
      /\ after[0] = s
      /\ \A n \in 1..N : n \in 0..N /\ n # 0 /\ after[n] = Effect(body[n], after[n - 1])
  BY <1>1, <1>7
<1> HIDE DEF P
<1> DEFINE T == {n \in 0..N : after[n] = g[n]}
<1>9. 0 \in T
  BY <1>1, <1>4, <1>8 DEF Iterates
<1>10. \A n \in 1..N : n - 1 \in T => n \in T
  <2> TAKE n \in 1..N
  <2> HAVE n - 1 \in T
  <2>1. n \in 0..N /\ after[n - 1] = g[n - 1]
    BY <1>8
  <2> QED
    BY <1>5, <1>8, <2>1
<1>11. 0..N \subseteq T
  <2> HIDE DEF T
  <2> QED
    BY <1>1, <1>9, <1>10, IntervalInduction
<1>12. \A n \in 0..N : after[n] \in AnalysisStates
  BY <1>4, <1>11 DEF Iterates
<1> QED
  BY <1>2, <1>8, <1>12 DEF N, body

-----------------------------------------------------------------------------
(***************************************************************************)
(* What the finished analysis offers to a run.                             *)
(***************************************************************************)
StartCovered ==
  /\ prog.entry \in Seen
  /\ Weaker(blockEntryStates[prog.entry], newAnalysisState(createInitialLockset(prog)))

UnlocksWithin ==
  \A pend : PendingUnlocks(prog, pend) =>
    \A b \in Seen : blockEntryStates[b].DeferredUnlocks = pend[b]

LocksWithin ==
  \A pend : PendingLocks(prog, pend) =>
    \A b \in Seen : blockEntryStates[b].DeferredLocks = pend[b]

LEMMA StartCoveredAlways == Spec => []StartCovered
<1>1. Init => StartCovered
  <2> SUFFICES ASSUME Init
               PROVE  StartCovered
    OBVIOUS
  <2>1. Seen = {prog.entry} /\ blockEntryStates[prog.entry] = newAnalysisState(createInitialLockset(prog))
    BY DEF Init, Seen
  <2> QED
    BY <2>1, InitialStateType, WeakerReflexive DEF StartCovered
<1>2. Inv /\ StartCovered /\ [Next]_vars => StartCovered'
  <2> SUFFICES ASSUME Inv, StartCovered, [Next]_vars
               PROVE  StartCovered'
    OBVIOUS
  <2>1. CASE PopBlock \/ Terminating \/ UNCHANGED vars
    <3>1. prog' = prog /\ blockEntryStates' = blockEntryStates
      BY <2>1 DEF PopBlock, Terminating, vars
    <3> QED
      BY <3>1 DEF StartCovered, Seen
  <2>2. CASE FirstVisit \/ MergeChanges \/ MergeKeeps
    <3> DEFINE e == prog.entry
               init == newAnalysisState(createInitialLockset(prog))
    <3>1. prog' = prog
      BY <2>2 DEF FirstVisit, MergeChanges, MergeKeeps, NextSuccessor
    <3>2. SuccessorUpdated
      BY <2>2, FirstVisitUpdates, MergeChangesUpdates, MergeKeepsUpdates DEF Inv
    <3>3. /\ e \in Seen /\ e \in Seen'
          /\ blockEntryStates[e] \in AnalysisStates
          /\ blockEntryStates'[e] \in AnalysisStates
          /\ Weaker(blockEntryStates'[e], blockEntryStates[e])
      BY <3>2 DEF StartCovered, SuccessorUpdated, Inv, TypeInv, TypeOK
    <3>4. init \in AnalysisStates /\ Weaker(blockEntryStates[e], init)
      BY InitialStateType DEF StartCovered
    <3>5. Weaker(blockEntryStates'[e], init)
      <4> HIDE DEF e, init
      <4> QED
        BY <3>3, <3>4, WeakerTransitive
    <3> QED
      BY <3>1, <3>3, <3>5 DEF StartCovered
  <2> QED
    BY <2>1, <2>2 DEF Next, Step
<1> QED
  BY <1>1, <1>2, AlwaysInv, PTL DEF Spec

(***************************************************************************)
(* The states with exactly the pending unlocks (locks) that every path     *)
(* agrees on are closed under the analysis.                                *)
(***************************************************************************)
UnlockSets(pend) == [b \in Blocks |-> {s \in AnalysisStates : s.DeferredUnlocks = pend[b]}]

LockSets(pend) == [b \in Blocks |-> {s \in AnalysisStates : s.DeferredLocks = pend[b]}]

LEMMA UnlockSetsClosed ==
  ASSUME NEW p \in Programs, NEW pend, PendingUnlocks(p, pend)
  PROVE  ClosedSets(p, UnlockSets(pend))
<1> DEFINE Good == UnlockSets(pend)
<1>1. \A b \in Blocks : \A s : s \in Good[b] <=> s \in AnalysisStates /\ s.DeferredUnlocks = pend[b]
  BY DEF UnlockSets
<1>2. Good \in [Blocks -> SUBSET AnalysisStates]
  BY DEF UnlockSets
<1> HIDE DEF Good
<1>3. p.entry \in Blocks /\ p.succs \in [Blocks -> Seq(Blocks)]
  BY ProgramAssumption
<1>4. newAnalysisState(createInitialLockset(p)) \in Good[p.entry]
  <2>1. newAnalysisState(createInitialLockset(p)).DeferredUnlocks = {}
    BY DEF newAnalysisState
  <2> QED
    BY <1>1, <1>3, <2>1, InitialStateType DEF PendingUnlocks
<1>5. ASSUME NEW b \in Blocks, NEW s \in Good[b], NEW i \in 1..Len(p.succs[b])
      PROVE  Transfer(p, b, s) \in Good[p.succs[b][i]]
  <2>1. s \in AnalysisStates /\ s.DeferredUnlocks = pend[b]
    BY <1>1, <1>5
  <2>2. BlockTransfer(p, b, s).DeferredUnlocks = pend[p.succs[b][i]]
    BY <2>1, <1>5 DEF PendingUnlocks
  <2>3. p.succs[b][i] \in Blocks
    BY <1>3, <1>5
  <2> QED
    BY <1>1, <2>1, <2>2, <2>3, TransferAssumption, BlockAssumption
<1>6. ASSUME NEW b \in Blocks, NEW s \in Good[b], NEW t \in Good[b]
      PROVE  MergeForSuccessor(s, t) \in Good[b]
  <2>1. s \in AnalysisStates /\ t \in AnalysisStates
        /\ s.DeferredUnlocks = pend[b] /\ t.DeferredUnlocks = pend[b]
    BY <1>1, <1>6
  <2>2. MergeForSuccessor(s, t).DeferredUnlocks = pend[b]
    BY <2>1 DEF MergeForSuccessor
  <2> QED
    BY <1>1, <2>1, <2>2, MergeWeakens
<1> QED
  BY <1>2, <1>4, <1>5, <1>6 DEF ClosedSets, Good

LEMMA LockSetsClosed ==
  ASSUME NEW p \in Programs, NEW pend, PendingLocks(p, pend)
  PROVE  ClosedSets(p, LockSets(pend))
<1> DEFINE Good == LockSets(pend)
<1>1. \A b \in Blocks : \A s : s \in Good[b] <=> s \in AnalysisStates /\ s.DeferredLocks = pend[b]
  BY DEF LockSets
<1>2. Good \in [Blocks -> SUBSET AnalysisStates]
  BY DEF LockSets
<1> HIDE DEF Good
<1>3. p.entry \in Blocks /\ p.succs \in [Blocks -> Seq(Blocks)]
  BY ProgramAssumption
<1>4. newAnalysisState(createInitialLockset(p)) \in Good[p.entry]
  <2>1. newAnalysisState(createInitialLockset(p)).DeferredLocks = {}
    BY DEF newAnalysisState
  <2> QED
    BY <1>1, <1>3, <2>1, InitialStateType DEF PendingLocks
<1>5. ASSUME NEW b \in Blocks, NEW s \in Good[b], NEW i \in 1..Len(p.succs[b])
      PROVE  Transfer(p, b, s) \in Good[p.succs[b][i]]
  <2>1. s \in AnalysisStates /\ s.DeferredLocks = pend[b]
    BY <1>1, <1>5
  <2>2. BlockTransfer(p, b, s).DeferredLocks = pend[p.succs[b][i]]
    BY <2>1, <1>5 DEF PendingLocks
  <2>3. p.succs[b][i] \in Blocks
    BY <1>3, <1>5
  <2> QED
    BY <1>1, <2>1, <2>2, <2>3, TransferAssumption, BlockAssumption
<1>6. ASSUME NEW b \in Blocks, NEW s \in Good[b], NEW t \in Good[b]
      PROVE  MergeForSuccessor(s, t) \in Good[b]
  <2>1. s \in AnalysisStates /\ t \in AnalysisStates
        /\ s.DeferredLocks = pend[b] /\ t.DeferredLocks = pend[b]
    BY <1>1, <1>6
  <2>2. MergeForSuccessor(s, t).DeferredLocks = pend[b]
    BY <2>1 DEF MergeForSuccessor
  <2> QED
    BY <1>1, <2>1, <2>2, MergeWeakens
<1> QED
  BY <1>2, <1>4, <1>5, <1>6 DEF ClosedSets, Good

WithinInv ==
  /\ \A pend : PendingUnlocks(prog, pend) => WithinSets(UnlockSets(pend))
  /\ \A pend : PendingLocks(prog, pend) => WithinSets(LockSets(pend))

LEMMA AlwaysWithin == Spec => []WithinInv
<1>1. Init => WithinInv
  <2> SUFFICES ASSUME Init
               PROVE  WithinInv
    OBVIOUS
  <2>1. prog \in Programs
    BY DEF Init
  <2> QED
    BY <2>1, WithinInit, UnlockSetsClosed, LockSetsClosed DEF WithinInv
<1>2. Inv /\ WithinInv /\ [Next]_vars => WithinInv'
  <2> SUFFICES ASSUME Inv, WithinInv, [Next]_vars
               PROVE  WithinInv'
    OBVIOUS
  <2>1. prog \in Programs
    BY DEF Inv, TypeInv
  <2>2. ASSUME Step
        PROVE  WithinInv'
    <3>1. prog' = prog
      BY <2>2 DEF Step, PopBlock, FirstVisit, MergeChanges, MergeKeeps, NextSuccessor
    <3>2. ASSUME NEW pend, PendingUnlocks(prog, pend)
          PROVE  WithinSets(UnlockSets(pend))'
      BY <2>1, <2>2, <3>2, WithinStep, UnlockSetsClosed DEF WithinInv
    <3>3. ASSUME NEW pend, PendingLocks(prog, pend)
          PROVE  WithinSets(LockSets(pend))'
      BY <2>1, <2>2, <3>3, WithinStep, LockSetsClosed DEF WithinInv
    <3> QED
      BY <3>1, <3>2, <3>3 DEF WithinInv
  <2>3. ASSUME UNCHANGED vars
        PROVE  WithinInv'
    BY <2>3 DEF WithinInv, WithinSets, Seen, vars
  <2> QED
    BY <2>2, <2>3 DEF Next, Terminating
<1> QED
  BY <1>1, <1>2, AlwaysInv, PTL DEF Spec

(***************************************************************************)
(* All of it: an invariant of the analysis alone.                          *)
(***************************************************************************)
Analysed ==
  /\ TypeInv
  /\ StartCovered
  /\ UnlocksWithin
  /\ LocksWithin
  /\ FixpointReached
  /\ FinalStatesReported

LEMMA AlwaysAnalysed == Spec => []Analysed
<1>1. Inv => TypeInv
  BY DEF Inv
<1>2. Inv /\ WithinInv => UnlocksWithin /\ LocksWithin
  <2> SUFFICES ASSUME Inv, WithinInv
               PROVE  UnlocksWithin /\ LocksWithin
    OBVIOUS
  <2>1. Seen \subseteq Blocks
    BY DEF Inv, TypeInv, TypeOK
  <2> QED
    BY <2>1 DEF WithinInv, WithinSets, UnlockSets, LockSets, UnlocksWithin, LocksWithin
<1> QED
  BY <1>1, <1>2, AlwaysInv, AlwaysWithin, StartCoveredAlways, EndsAtFixpoint,
     ReportsComplete, PTL DEF Analysed

-----------------------------------------------------------------------------
(***************************************************************************)
(* The states of all paths, built up edge by edge.                         *)
(***************************************************************************)
PathSets == [Blocks -> SUBSET AnalysisStates]

LEMMA OneEdgeMoreType ==
  ASSUME NEW p \in Programs, NEW paths \in PathSets
  PROVE  OneEdgeMore(p, paths) \in PathSets
<1> DEFINE leaving == [a \in Blocks |-> {Transfer(p, a, s) : s \in paths[a]}]
           before(b) == {a \in Blocks : \E k \in 1..Len(p.succs[a]) : p.succs[a][k] = b}
<1>1. \A a \in Blocks : leaving[a] \subseteq AnalysisStates
  BY TransferAssumption DEF PathSets
<1>2. OneEdgeMore(p, paths) = [b \in Blocks |-> paths[b] \cup UNION {leaving[a] : a \in before(b)}]
  BY DEF OneEdgeMore
<1> HIDE DEF leaving
<1>3. \A b \in Blocks : paths[b] \cup UNION {leaving[a] : a \in before(b)} \in SUBSET AnalysisStates
  BY <1>1 DEF PathSets
<1> QED
  BY <1>2, <1>3 DEF PathSets

LEMMA PathStatesSteps ==
  ASSUME NEW p \in Programs
  PROVE  /\ PathStatesUpTo(p) \in [0..PathBound -> PathSets]
         /\ PathStatesUpTo(p)[0] = NoEdges(p)
         /\ \A n \in 1..PathBound :
              PathStatesUpTo(p)[n] = OneEdgeMore(p, PathStatesUpTo(p)[n - 1])
<1> DEFINE N == PathBound
           start == NoEdges(p)
           more(f) == OneEdgeMore(p, f)
           step == [n \in 1..N |-> [f \in PathSets |-> more(f)]]
           P(f) == f = [n \in 0..N |-> IF n = 0 THEN start ELSE more(f[n - 1])]
           paths == CHOOSE f : P(f)
<1>1. N \in Nat
  BY PathBoundAssumption
<1>2. PathStatesUpTo(p) = paths
  BY DEF PathStatesUpTo
<1>3. start \in PathSets
  BY InitialStateType DEF NoEdges, PathSets
<1>4. \A f \in PathSets : more(f) \in PathSets
  BY OneEdgeMoreType
<1> HIDE DEF N, start, more
<1>5. step \in [1..N -> [PathSets -> PathSets]]
  BY <1>4
<1>6. PICK g : Iterates(g, N, PathSets, start, step)
  <2> HIDE DEF step
  <2> QED
    BY <1>1, <1>3, <1>5, IterationExists
<1>7. \A n \in 1..N : n - 1 \in 0..N /\ g[n] = more(g[n - 1])
  <2> TAKE n \in 1..N
  <2>1. n - 1 \in 0..N
    BY <1>1
  <2>2. g[n - 1] \in PathSets /\ g[n] = step[n][g[n - 1]]
    BY <1>6, <2>1 DEF Iterates
  <2> QED
    BY <2>1, <2>2
<1>8. P(g)
  <2>1. \A n \in 0..N : n # 0 => n \in 1..N
    BY <1>1
  <2>2. \A n \in 0..N : g[n] = IF n = 0 THEN start ELSE more(g[n - 1])
    BY <1>6, <1>7, <2>1 DEF Iterates
  <2>3. g = [n \in 0..N |-> g[n]]
    BY <1>6 DEF Iterates
  <2> QED
    BY <2>2, <2>3
<1>9. P(paths)
  <2> HIDE DEF P
  <2> QED
    BY <1>8
<1> HIDE DEF paths
<1>10. /\ paths = [n \in 0..N |-> paths[n]]
       /\ paths[0] = start
       /\ \A n \in 1..N : n \in 0..N /\ n # 0 /\ paths[n] = more(paths[n - 1])
  BY <1>1, <1>9
<1> HIDE DEF P
<1> DEFINE T == {n \in 0..N : paths[n] = g[n]}
<1>11. 0 \in T
  BY <1>1, <1>6, <1>10 DEF Iterates
<1>12. \A n \in 1..N : n - 1 \in T => n \in T
  <2> TAKE n \in 1..N
  <2> HAVE n - 1 \in T
  <2>1. n \in 0..N /\ paths[n - 1] = g[n - 1]
    BY <1>10
  <2> QED
    BY <1>7, <1>10, <2>1
<1>13. 0..N \subseteq T
  <2> HIDE DEF T
  <2> QED
    BY <1>1, <1>11, <1>12, IntervalInduction
<1>14. \A n \in 0..N : paths[n] \in PathSets
  BY <1>6, <1>13 DEF Iterates
<1> QED
  BY <1>2, <1>10, <1>14 DEF N, start, more

(***************************************************************************)
(* What is a state without edges and passes on over every edge is a state  *)
(* of every path, and the path states have it.                             *)
(***************************************************************************)
Traced(p, Good) ==
  /\ newAnalysisState(createInitialLockset(p)) \in Good[p.entry]
  /\ \A b \in Blocks : \A s \in AnalysisStates \cap Good[b], k \in 1..Len(p.succs[b]) :
       Transfer(p, b, s) \in Good[p.succs[b][k]]

LEMMA PathStatesTraced ==
  ASSUME NEW p \in Programs, NEW Good, Traced(p, Good)
  PROVE  \A b \in Blocks : PathStates(p)[b] \subseteq AnalysisStates \cap Good[b]
<1> DEFINE N == PathBound
           paths == PathStatesUpTo(p)
           T == {n \in 0..N : \A b \in Blocks : paths[n][b] \subseteq Good[b]}
<1>1. N \in Nat
  BY PathBoundAssumption
<1>2. /\ paths \in [0..N -> PathSets]
      /\ paths[0] = NoEdges(p)
      /\ \A n \in 1..N : paths[n] = OneEdgeMore(p, paths[n - 1])
  BY PathStatesSteps
<1> HIDE DEF paths, N
<1>3. 0 \in T
  <2>1. \A b \in Blocks : NoEdges(p)[b] \subseteq Good[b]
    BY DEF NoEdges, Traced
  <2> QED
    BY <1>1, <1>2, <2>1
<1>4. ASSUME NEW n \in 1..N, n - 1 \in T
      PROVE  n \in T
  <2> DEFINE before == paths[n - 1]
  <2>1. n \in 0..N /\ n - 1 \in 0..N
    BY <1>1
  <2>2. before \in PathSets /\ \A b \in Blocks : before[b] \subseteq Good[b]
    BY <1>2, <1>4, <2>1
  <2>3. paths[n] = OneEdgeMore(p, before)
    BY <1>2
  <2> HIDE DEF before
  <2>4. ASSUME NEW b \in Blocks, NEW s \in OneEdgeMore(p, before)[b]
        PROVE  s \in Good[b]
    <3>1. \/ s \in before[b]
          \/ \E a \in Blocks : \E k \in 1..Len(p.succs[a]) :
               p.succs[a][k] = b /\ \E t \in before[a] : s = Transfer(p, a, t)
      BY <2>4 DEF OneEdgeMore
    <3> QED
      BY <2>2, <3>1 DEF Traced, PathSets
  <2> QED
    BY <2>1, <2>3, <2>4
<1>5. 0..N \subseteq T
  <2> HIDE DEF T
  <2> QED
    BY <1>1, <1>3, <1>4, IntervalInduction
<1>6. N \in 0..N /\ PathStates(p) = paths[N]
  BY <1>1 DEF PathStates, paths, N
<1> QED
  BY <1>2, <1>5, <1>6 DEF PathSets

LEMMA EntryIsPathState ==
  ASSUME NEW p \in Programs
  PROVE  newAnalysisState(createInitialLockset(p)) \in PathStates(p)[p.entry]
<1> DEFINE N == PathBound
           paths == PathStatesUpTo(p)
           init == newAnalysisState(createInitialLockset(p))
           T == {n \in 0..N : init \in paths[n][p.entry]}
<1>1. N \in Nat
  BY PathBoundAssumption
<1>2. /\ paths \in [0..N -> PathSets]
      /\ paths[0] = NoEdges(p)
      /\ \A n \in 1..N : paths[n] = OneEdgeMore(p, paths[n - 1])
  BY PathStatesSteps
<1>3. p.entry \in Blocks
  BY ProgramAssumption
<1> HIDE DEF paths, N, init
<1>4. 0 \in T
  BY <1>1, <1>2, <1>3 DEF NoEdges, init
<1>5. ASSUME NEW n \in 1..N, n - 1 \in T
      PROVE  n \in T
  <2>1. n \in 0..N
    BY <1>1
  <2>2. paths[n] = OneEdgeMore(p, paths[n - 1])
    BY <1>2
  <2>3. paths[n - 1][p.entry] \subseteq OneEdgeMore(p, paths[n - 1])[p.entry]
    BY <1>3 DEF OneEdgeMore
  <2> QED
    BY <1>5, <2>1, <2>2, <2>3
<1>6. 0..N \subseteq T
  <2> HIDE DEF T
  <2> QED
    BY <1>1, <1>4, <1>5, IntervalInduction
<1>7. N \in 0..N /\ PathStates(p) = paths[N]
  BY <1>1 DEF PathStates, paths, N
<1> QED
  BY <1>6, <1>7 DEF init

-----------------------------------------------------------------------------
(***************************************************************************)
(* Every instruction adds and removes the same locks in all states with    *)
(* the same deferred effects pending; a call removes from MayHeldLocks     *)
(* only what is in HeldLocks.                                              *)
(***************************************************************************)
KeepsLocks(i) ==
  i.op = "call" =>
    \A l \in i.callee.requires \cap Locks : ~isHeldLockEquivalent(i.callee.released, l)

Removed(i, s, gone) == gone \cap (IF i.op = "call" THEN s.HeldLocks ELSE Locks)

Changes(i, s, add, gone, locks, unlocks) ==
  /\ Effect(i, s).HeldLocks = (s.HeldLocks \cup add) \ gone
  /\ Effect(i, s).MayHeldLocks = (s.MayHeldLocks \cup add) \ Removed(i, s, gone)
  /\ Effect(i, s).DeferredLocks = locks
  /\ Effect(i, s).DeferredUnlocks = unlocks

Pends(s, locks, unlocks) ==
  s \in AnalysisStates /\ s.DeferredLocks = locks /\ s.DeferredUnlocks = unlocks

ChangesAll(i, dl, du, add, gone, locks, unlocks) ==
  /\ add \subseteq Locks
  /\ i.op = "call" /\ KeepsLocks(i) => gone \cap Locks = {}
  /\ \A s : Pends(s, dl, du) => Changes(i, s, add, gone, locks, unlocks)

LEMMA EffectChanges ==
  ASSUME NEW i, WellTyped(i), NEW dl, dl \subseteq Locks, NEW du
  PROVE  \E add, gone, locks, unlocks : ChangesAll(i, dl, du, add, gone, locks, unlocks)
<1>1. CASE i.op = "lock"
  <2> DEFINE x == {i.lock} \ {Nil}
  <2>1. x \subseteq Locks
    BY <1>1 DEF WellTyped
  <2>2. \A s : Effect(i, s) = [s EXCEPT !.HeldLocks = @ \cup x, !.MayHeldLocks = @ \cup x]
    BY <1>1 DEF Effect, Acquire
  <2> HIDE DEF x
  <2>3. ASSUME NEW s, Pends(s, dl, du)
        PROVE  Changes(i, s, x, {}, dl, du)
    BY <1>1, <2>2, <2>3 DEF Pends, AnalysisStates, Changes, Removed
  <2>4. ChangesAll(i, dl, du, x, {}, dl, du)
    BY <1>1, <2>1, <2>3 DEF ChangesAll
  <2> QED
    BY <2>4
<1>2. CASE i.op = "unlock"
  <2> DEFINE x == {i.lock}
  <2>1. \A s : Effect(i, s) = [s EXCEPT !.HeldLocks = @ \ x, !.MayHeldLocks = @ \ x]
    BY <1>2 DEF Effect, Release
  <2> HIDE DEF x
  <2>2. ASSUME NEW s, Pends(s, dl, du)
        PROVE  Changes(i, s, {}, x, dl, du)
    <3>1. /\ Effect(i, s).HeldLocks = s.HeldLocks \ x
          /\ Effect(i, s).MayHeldLocks = s.MayHeldLocks \ x
          /\ Effect(i, s).DeferredLocks = dl
          /\ Effect(i, s).DeferredUnlocks = du
      BY <2>1, <2>2 DEF Pends, AnalysisStates
    <3>2. s.HeldLocks \ x = (s.HeldLocks \cup {}) \ x
      OBVIOUS
    <3>3. s.MayHeldLocks \ x = (s.MayHeldLocks \cup {}) \ (x \cap Locks)
      BY <2>2 DEF Pends, AnalysisStates
    <3> QED
      BY <1>2, <3>1, <3>2, <3>3 DEF Changes, Removed
  <2>3. ChangesAll(i, dl, du, {}, x, dl, du)
    BY <1>2, <2>2 DEF ChangesAll
  <2> QED
    BY <2>3
<1>3. CASE i.op = "defer"
  <2>1. \A s : Effect(i, s) =
          [s EXCEPT !.DeferredLocks = @ \cup i.locks, !.DeferredUnlocks = @ \cup i.unlocks]
    BY <1>3 DEF Effect, registerDeferInstruction
  <2>2. ASSUME NEW s, Pends(s, dl, du)
        PROVE  Changes(i, s, {}, {}, dl \cup i.locks, du \cup i.unlocks)
    <3>1. /\ Effect(i, s).HeldLocks = s.HeldLocks
          /\ Effect(i, s).MayHeldLocks = s.MayHeldLocks
          /\ Effect(i, s).DeferredLocks = dl \cup i.locks
          /\ Effect(i, s).DeferredUnlocks = du \cup i.unlocks
      BY <2>1, <2>2 DEF Pends, AnalysisStates
    <3>2. s.HeldLocks = (s.HeldLocks \cup {}) \ {}
      OBVIOUS
    <3>3. s.MayHeldLocks = (s.MayHeldLocks \cup {}) \ Removed(i, s, {})
      BY DEF Removed
    <3> QED
      BY <3>1, <3>2, <3>3 DEF Changes
  <2>3. ChangesAll(i, dl, du, {}, {}, dl \cup i.locks, du \cup i.unlocks)
    BY <1>3, <2>2 DEF ChangesAll
  <2> QED
    BY <2>3
<1>4. CASE i.op = "rundefers"
  <2>1. \A s : Effect(i, s) = applyDeferredEffects(s)
    BY <1>4 DEF Effect
  <2>2. ASSUME NEW s, Pends(s, dl, du)
        PROVE  Changes(i, s, dl, du, {}, {})
    <3>1. /\ Effect(i, s).HeldLocks = (s.HeldLocks \cup dl) \ du
          /\ Effect(i, s).MayHeldLocks = (s.MayHeldLocks \cup dl) \ du
          /\ Effect(i, s).DeferredLocks = {}
          /\ Effect(i, s).DeferredUnlocks = {}
      BY <2>1, <2>2 DEF Pends, applyDeferredEffects
    <3>2. (s.MayHeldLocks \cup dl) \ du = (s.MayHeldLocks \cup dl) \ (du \cap Locks)
      BY <2>2 DEF Pends, AnalysisStates
    <3> QED
      BY <1>4, <3>1, <3>2 DEF Changes, Removed
  <2>3. ChangesAll(i, dl, du, dl, du, {}, {})
    BY <1>4, <2>2 DEF ChangesAll
  <2> QED
    BY <2>3
<1>5. CASE i.op = "call"
  <2> DEFINE x == {l \in i.callee.requires : isHeldLockEquivalent(i.callee.released, l)}
  <2>1. KeepsLocks(i) => x \cap Locks = {}
    BY <1>5 DEF KeepsLocks
  <2>2. ASSUME NEW s, Pends(s, dl, du)
        PROVE  Changes(i, s, {}, x, dl, du)
    <3> DEFINE y == {l \in i.callee.requires \cap s.HeldLocks :
                       isHeldLockEquivalent(i.callee.released, l)}
    <3>1. Effect(i, s) = Release(s, y)
      BY <1>5 DEF Effect, applyReleasedRequiresEffects
    <3>2. y = x \cap s.HeldLocks
      OBVIOUS
    <3> HIDE DEF x, y
    <3>3. /\ Effect(i, s).HeldLocks = s.HeldLocks \ y
          /\ Effect(i, s).MayHeldLocks = s.MayHeldLocks \ y
          /\ Effect(i, s).DeferredLocks = dl
          /\ Effect(i, s).DeferredUnlocks = du
      BY <2>2, <3>1 DEF Pends, AnalysisStates, Release
    <3>4. Effect(i, s).HeldLocks = (s.HeldLocks \cup {}) \ x
      BY <3>2, <3>3
    <3>5. Effect(i, s).MayHeldLocks = (s.MayHeldLocks \cup {}) \ (x \cap s.HeldLocks)
      BY <3>2, <3>3
    <3> QED
      BY <1>5, <3>3, <3>4, <3>5 DEF Changes, Removed
  <2> HIDE DEF x
  <2>3. ChangesAll(i, dl, du, {}, x, dl, du)
    BY <2>1, <2>2 DEF ChangesAll
  <2> QED
    BY <2>3
<1>6. CASE i.op \notin {"lock", "unlock", "defer", "rundefers", "call"}
  <2>1. ASSUME NEW s, Pends(s, dl, du)
        PROVE  Changes(i, s, {}, {}, dl, du)
    <3>1. Effect(i, s) = s
      BY <1>6 DEF Effect
    <3>2. s.HeldLocks = (s.HeldLocks \cup {}) \ {}
      OBVIOUS
    <3>3. s.MayHeldLocks = (s.MayHeldLocks \cup {}) \ Removed(i, s, {})
      BY DEF Removed
    <3> QED
      BY <2>1, <3>1, <3>2, <3>3 DEF Pends, Changes
  <2>2. ChangesAll(i, dl, du, {}, {}, dl, du)
    BY <1>6, <2>1 DEF ChangesAll
  <2> QED
    BY <2>2
<1> QED
  BY <1>1, <1>2, <1>3, <1>4, <1>5, <1>6

(***************************************************************************)
(* g is the meet of the states T, all with the same deferred effects; its  *)
(* MayHeldLocks is the union of theirs if exact.                           *)
(***************************************************************************)
MeetOf(exact, g, T) ==
  /\ T \in SUBSET AnalysisStates /\ T # {}
  /\ g \in AnalysisStates
  /\ \A s \in T : s.DeferredLocks = g.DeferredLocks /\ s.DeferredUnlocks = g.DeferredUnlocks
  /\ g.HeldLocks = {l \in Locks : \A s \in T : l \in s.HeldLocks}
  /\ exact => g.MayHeldLocks = UNION {s.MayHeldLocks : s \in T}

EffectOn(i, T) == {Effect(i, s) : s \in T}

(***************************************************************************)
(* Every instruction has the same effect on the meet as on the states.     *)
(***************************************************************************)
LEMMA EffectOfMeet ==
  ASSUME NEW exact \in BOOLEAN, NEW g, NEW T, MeetOf(exact, g, T), NEW i, WellTyped(i),
         exact => KeepsLocks(i)
  PROVE  MeetOf(exact, Effect(i, g), EffectOn(i, T))
<1> DEFINE U == EffectOn(i, T)
           e == Effect(i, g)
           dl == g.DeferredLocks
           du == g.DeferredUnlocks
<1>1. /\ U \in SUBSET AnalysisStates /\ U # {} /\ e \in AnalysisStates
  BY EffectType DEF EffectOn, MeetOf
<1>2. /\ T # {}
      /\ g.HeldLocks = {l \in Locks : \A s \in T : l \in s.HeldLocks}
      /\ exact => g.MayHeldLocks = UNION {s.MayHeldLocks : s \in T}
      /\ \A s \in T \cup {g} : Pends(s, dl, du)
  BY DEF MeetOf, Pends
<1>3. dl \subseteq Locks
  BY DEF MeetOf, AnalysisStates
<1> HIDE DEF dl, du
<1>4. PICK add, gone, locks, unlocks : ChangesAll(i, dl, du, add, gone, locks, unlocks)
  BY <1>3, EffectChanges
<1>5. \A s \in T \cup {g} :
        /\ Effect(i, s).HeldLocks = (s.HeldLocks \cup add) \ gone
        /\ Effect(i, s).DeferredLocks = locks
        /\ Effect(i, s).DeferredUnlocks = unlocks
  BY <1>2, <1>4 DEF ChangesAll, Changes
<1>6. exact => \A s \in T \cup {g} :
        Effect(i, s).MayHeldLocks = (s.MayHeldLocks \cup add) \ (gone \cap Locks)
  <2> SUFFICES ASSUME exact, NEW s \in T \cup {g}
               PROVE  Effect(i, s).MayHeldLocks = (s.MayHeldLocks \cup add) \ (gone \cap Locks)
    OBVIOUS
  <2>1. Effect(i, s).MayHeldLocks = (s.MayHeldLocks \cup add) \ Removed(i, s, gone)
    BY <1>2, <1>4 DEF ChangesAll, Changes
  <2>2. s.HeldLocks \subseteq Locks
    BY <1>2 DEF Pends, AnalysisStates
  <2>3. Removed(i, s, gone) = gone \cap Locks
    BY <1>4, <2>2 DEF ChangesAll, Removed
  <2> QED
    BY <2>1, <2>3
<1>7. \A u : u \in U <=> \E s \in T : u = Effect(i, s)
  BY DEF EffectOn
<1>8. \A u \in U : u.DeferredLocks = e.DeferredLocks /\ u.DeferredUnlocks = e.DeferredUnlocks
  BY <1>5, <1>7
<1>9. e.HeldLocks = {l \in Locks : \A u \in U : l \in u.HeldLocks}
  <2>1. \A l \in Locks : l \in e.HeldLocks <=> \A s \in T : l \in Effect(i, s).HeldLocks
    BY <1>2, <1>5
  <2>2. e.HeldLocks \subseteq Locks
    BY <1>1 DEF AnalysisStates
  <2> HIDE DEF U, e
  <2> QED
    BY <1>7, <2>1, <2>2
<1>10. exact => e.MayHeldLocks = UNION {u.MayHeldLocks : u \in U}
  <2> SUFFICES ASSUME exact
               PROVE  e.MayHeldLocks = UNION {u.MayHeldLocks : u \in U}
    OBVIOUS
  <2>1. \A l : l \in e.MayHeldLocks <=> \E s \in T : l \in Effect(i, s).MayHeldLocks
    BY <1>2, <1>6
  <2> HIDE DEF U, e
  <2> QED
    BY <1>7, <2>1
<1> QED
  BY <1>1, <1>8, <1>9, <1>10 DEF MeetOf

(***************************************************************************)
(* So it is at every point of a block.                                     *)
(***************************************************************************)
AtPoint(p, b, n, T) == {StateAt(p, b, s)[n] : s \in T}

LEMMA MeetInBlock ==
  ASSUME NEW exact \in BOOLEAN, NEW p, WellFormed(p), exact => CallsKeepLocks(p),
         NEW b \in Blocks, NEW g, NEW T, MeetOf(exact, g, T)
  PROVE  \A n \in 0..Len(p.body[b]) : MeetOf(exact, StateAt(p, b, g)[n], AtPoint(p, b, n, T))
<1> DEFINE N == Len(p.body[b])
           at(s) == StateAt(p, b, s)
           H == {n \in 0..N : MeetOf(exact, at(g)[n], AtPoint(p, b, n, T))}
<1>1. N \in Nat
  BY DEF WellFormed
<1>2. \A s \in T \cup {g} :
        /\ at(s)[0] = s
        /\ \A n \in 1..N : at(s)[n] = Effect(p.body[b][n], at(s)[n - 1])
  BY StateAtSteps DEF MeetOf
<1>3. \A n : AtPoint(p, b, n, T) = {at(s)[n] : s \in T}
  BY DEF AtPoint
<1>4. \A n \in 1..N :
        /\ WellTyped(p.body[b][n])
        /\ exact => KeepsLocks(p.body[b][n])
  BY DEF WellFormed, CallsKeepLocks, KeepsLocks
<1> HIDE DEF at, N
<1>5. 0 \in H
  <2>1. AtPoint(p, b, 0, T) = T
    <3>1. AtPoint(p, b, 0, T) = {at(s)[0] : s \in T}
      BY <1>3
    <3>2. \A s \in T : at(s)[0] = s
      BY <1>2
    <3> QED
      BY <3>1, <3>2
  <2> QED
    BY <1>1, <1>2, <2>1
<1>6. ASSUME NEW n \in 1..N, n - 1 \in H
      PROVE  n \in H
  <2> DEFINE i == p.body[b][n]
             U == AtPoint(p, b, n - 1, T)
  <2>1. MeetOf(exact, at(g)[n - 1], U)
    BY <1>6
  <2>2. AtPoint(p, b, n, T) = EffectOn(i, U)
    BY <1>2, <1>3 DEF EffectOn
  <2>3. at(g)[n] = Effect(i, at(g)[n - 1])
    BY <1>2
  <2>4. WellTyped(i) /\ (exact => KeepsLocks(i))
    BY <1>4
  <2>5. n \in 0..N
    BY <1>1
  <2> HIDE DEF i, U
  <2>6. MeetOf(exact, Effect(i, at(g)[n - 1]), EffectOn(i, U))
    BY <2>1, <2>4, EffectOfMeet
  <2> QED
    BY <2>2, <2>3, <2>5, <2>6
<1>7. 0..N \subseteq H
  <2> HIDE DEF H
  <2> QED
    BY <1>1, <1>5, <1>6, IntervalInduction
<1> QED
  BY <1>7 DEF at, N

LEMMA MeetOfMerge ==
  ASSUME NEW exact \in BOOLEAN, NEW g, NEW T, MeetOf(exact, g, T), NEW h, NEW U, MeetOf(exact, h, U),
         g.DeferredLocks = h.DeferredLocks, g.DeferredUnlocks = h.DeferredUnlocks
  PROVE  MeetOf(exact, MergeForSuccessor(g, h), T \cup U)
<1> DEFINE e == MergeForSuccessor(g, h)
<1>1. /\ e \in AnalysisStates
      /\ e.HeldLocks = g.HeldLocks \cap h.HeldLocks
      /\ e.MayHeldLocks = g.MayHeldLocks \cup h.MayHeldLocks
      /\ e.DeferredLocks = g.DeferredLocks
      /\ e.DeferredUnlocks = g.DeferredUnlocks
  BY DEF MergeForSuccessor, MeetOf, AnalysisStates
<1> HIDE DEF e
<1>2. T \cup U \in SUBSET AnalysisStates /\ T \cup U # {}
  BY DEF MeetOf
<1>3. \A s \in T \cup U : s.DeferredLocks = e.DeferredLocks /\ s.DeferredUnlocks = e.DeferredUnlocks
  BY <1>1 DEF MeetOf
<1>4. e.HeldLocks = {l \in Locks : \A s \in T \cup U : l \in s.HeldLocks}
  BY <1>1 DEF MeetOf
<1>5. exact => e.MayHeldLocks = UNION {s.MayHeldLocks : s \in T \cup U}
  BY <1>1 DEF MeetOf
<1> QED
  BY <1>1, <1>2, <1>3, <1>4, <1>5 DEF MeetOf, e

-----------------------------------------------------------------------------
(***************************************************************************)
(* The meets of path states are closed under the analysis, too.            *)
(***************************************************************************)
MeetSets(exact, p, locks, unlocks) ==
  [b \in Blocks |->
     {g \in AnalysisStates :
        /\ g.DeferredLocks = locks[b]
        /\ g.DeferredUnlocks = unlocks[b]
        /\ \E T \in SUBSET PathStates(p)[b] : MeetOf(exact, g, T)}]

LEMMA MeetAtEntry ==
  ASSUME NEW exact \in BOOLEAN, NEW p
  PROVE  LET init == newAnalysisState(createInitialLockset(p))
         IN  MeetOf(exact, init, {init})
<1> DEFINE init == newAnalysisState(createInitialLockset(p))
<1>1. init \in AnalysisStates
  BY InitialStateType
<1> HIDE DEF init
<1>2. init.HeldLocks = {l \in Locks : \A s \in {init} : l \in s.HeldLocks}
  BY <1>1 DEF AnalysisStates
<1>3. init.MayHeldLocks = UNION {s.MayHeldLocks : s \in {init}}
  OBVIOUS
<1>4. MeetOf(exact, init, {init})
  BY <1>1, <1>2, <1>3 DEF MeetOf
<1> QED
  BY <1>4 DEF init

LEMMA MeetPassesOn ==
  ASSUME NEW exact \in BOOLEAN, NEW p \in Programs, WellFormed(p), exact => CallsKeepLocks(p),
         PathsComplete(p), NEW b \in Blocks, NEW k \in 1..Len(p.succs[b]),
         NEW g, NEW T \in SUBSET PathStates(p)[b], MeetOf(exact, g, T)
  PROVE  \E U \in SUBSET PathStates(p)[p.succs[b][k]] : MeetOf(exact, Transfer(p, b, g), U)
<1> DEFINE n == Len(p.body[b])
           U == AtPoint(p, b, n, T)
<1>1. n \in 0..n
  BY DEF WellFormed
<1>2. MeetOf(exact, StateAt(p, b, g)[n], U)
  BY <1>1, MeetInBlock
<1>3. \A s \in T \cup {g} : Transfer(p, b, s) = StateAt(p, b, s)[n]
  BY BlockAssumption DEF MeetOf, BlockTransfer
<1>4. \A s \in T : Transfer(p, b, s) \in PathStates(p)[p.succs[b][k]]
  BY DEF PathsComplete
<1>5. U \in SUBSET PathStates(p)[p.succs[b][k]]
  BY <1>3, <1>4 DEF AtPoint
<1> QED
  BY <1>2, <1>3, <1>5

LEMMA MeetSetsClosed ==
  ASSUME NEW exact \in BOOLEAN, NEW p \in Programs, WellFormed(p), exact => CallsKeepLocks(p),
         PathsComplete(p), NEW locks, PendingLocks(p, locks), NEW unlocks, PendingUnlocks(p, unlocks)
  PROVE  ClosedSets(p, MeetSets(exact, p, locks, unlocks))
<1> DEFINE Good == MeetSets(exact, p, locks, unlocks)
           Pend(b, s) == s.DeferredLocks = locks[b] /\ s.DeferredUnlocks = unlocks[b]
           init == newAnalysisState(createInitialLockset(p))
<1>1. \A b \in Blocks : \A g :
        g \in Good[b] <=> /\ g \in AnalysisStates /\ Pend(b, g)
                          /\ \E T \in SUBSET PathStates(p)[b] : MeetOf(exact, g, T)
  BY DEF MeetSets
<1>2. Good \in [Blocks -> SUBSET AnalysisStates]
  BY DEF MeetSets
<1> HIDE DEF Good
<1>3. p.entry \in Blocks /\ p.succs \in [Blocks -> Seq(Blocks)]
  BY ProgramAssumption
<1>4. init \in Good[p.entry]
  <2>1. Pend(p.entry, init)
    BY DEF newAnalysisState, PendingLocks, PendingUnlocks
  <2>2. init \in AnalysisStates
    BY InitialStateType
  <2>3. MeetOf(exact, init, {init})
    BY MeetAtEntry
  <2>4. {init} \in SUBSET PathStates(p)[p.entry]
    BY EntryIsPathState
  <2> HIDE DEF init
  <2> QED
    BY <1>1, <1>3, <2>1, <2>2, <2>3, <2>4
<1>5. ASSUME NEW b \in Blocks, NEW g \in Good[b], NEW k \in 1..Len(p.succs[b])
      PROVE  Transfer(p, b, g) \in Good[p.succs[b][k]]
  <2> DEFINE c == p.succs[b][k]
             e == Transfer(p, b, g)
  <2>1. PICK T \in SUBSET PathStates(p)[b] : MeetOf(exact, g, T)
    BY <1>1, <1>5
  <2>2. g \in AnalysisStates /\ Pend(b, g)
    BY <1>1, <1>5
  <2>3. c \in Blocks
    BY <1>3, <1>5
  <2>4. e \in AnalysisStates
    BY <2>2, TransferAssumption
  <2>5. e = BlockTransfer(p, b, g)
    BY <2>2, BlockAssumption
  <2>6. Pend(c, e)
    BY <1>5, <2>2, <2>5 DEF PendingLocks, PendingUnlocks
  <2>7. \E U \in SUBSET PathStates(p)[c] : MeetOf(exact, e, U)
    BY <1>5, <2>1, MeetPassesOn
  <2> HIDE DEF c, e
  <2>8. e \in Good[c]
    BY <1>1, <2>3, <2>4, <2>6, <2>7
  <2> QED
    BY <2>8 DEF c, e
<1>6. ASSUME NEW b \in Blocks, NEW g \in Good[b], NEW h \in Good[b]
      PROVE  MergeForSuccessor(g, h) \in Good[b]
  <2> DEFINE e == MergeForSuccessor(g, h)
  <2>1. g \in AnalysisStates /\ h \in AnalysisStates /\ Pend(b, g) /\ Pend(b, h)
    BY <1>1, <1>6
  <2>2. PICK T \in SUBSET PathStates(p)[b] : MeetOf(exact, g, T)
    BY <1>1, <1>6
  <2>3. PICK U \in SUBSET PathStates(p)[b] : MeetOf(exact, h, U)
    BY <1>1, <1>6
  <2>4. MeetOf(exact, e, T \cup U)
    BY <2>1, <2>2, <2>3, MeetOfMerge
  <2>5. e \in AnalysisStates /\ Pend(b, e)
    BY <2>1, MergeWeakens DEF MergeForSuccessor
  <2>6. T \cup U \in SUBSET PathStates(p)[b]
    OBVIOUS
  <2> HIDE DEF e
  <2>7. e \in Good[b]
    BY <1>1, <2>4, <2>5, <2>6
  <2> QED
    BY <2>7 DEF e
<1> QED
  BY <1>2, <1>4, <1>5, <1>6 DEF ClosedSets, Good, init

(***************************************************************************)
(* Every entry state is a meet of path states, and every diagnostic was    *)
(* recorded in one.                                                        *)
(***************************************************************************)
MeetHypotheses(exact, locks, unlocks) ==
  /\ exact => CallsKeepLocks(prog)
  /\ PendingLocks(prog, locks)
  /\ PendingUnlocks(prog, unlocks)

MeetsWithin ==
  \A exact \in BOOLEAN : \A locks, unlocks :
    MeetHypotheses(exact, locks, unlocks) => WithinSets(MeetSets(exact, prog, locks, unlocks))

RaisedIn(d, Good) == \E b \in Blocks : \E g \in Good[b] : d \in Emit(prog, b, g)

RaisedInMeets ==
  \A exact \in BOOLEAN : \A locks, unlocks :
    MeetHypotheses(exact, locks, unlocks) =>
      \A d \in reports :
        d \in Prologue(prog) \/ RaisedIn(d, MeetSets(exact, prog, locks, unlocks))

LEMMA AlwaysMeetsWithin ==
  ASSUME \A p \in Programs : WellFormed(p) /\ PathsComplete(p)
  PROVE  Spec => []MeetsWithin
<1>1. Init => MeetsWithin
  <2> SUFFICES ASSUME Init,
                      NEW exact \in BOOLEAN, NEW locks, NEW unlocks,
                      MeetHypotheses(exact, locks, unlocks)
               PROVE  WithinSets(MeetSets(exact, prog, locks, unlocks))
    BY DEF MeetsWithin
  <2>1. prog \in Programs
    BY DEF Init
  <2> QED
    BY <2>1, WithinInit, MeetSetsClosed DEF MeetHypotheses
<1>2. Inv /\ MeetsWithin /\ [Next]_vars => MeetsWithin'
  <2> SUFFICES ASSUME Inv, MeetsWithin, [Next]_vars
               PROVE  MeetsWithin'
    OBVIOUS
  <2>1. prog \in Programs
    BY DEF Inv, TypeInv
  <2>2. ASSUME Step
        PROVE  MeetsWithin'
    <3>1. prog' = prog
      BY <2>2 DEF Step, PopBlock, FirstVisit, MergeChanges, MergeKeeps, NextSuccessor
    <3>2. ASSUME NEW exact \in BOOLEAN, NEW locks, NEW unlocks, MeetHypotheses(exact, locks, unlocks)
          PROVE  WithinSets(MeetSets(exact, prog, locks, unlocks))'
      <4>1. ClosedSets(prog, MeetSets(exact, prog, locks, unlocks))
        BY <2>1, <3>2, MeetSetsClosed DEF MeetHypotheses
      <4>2. WithinSets(MeetSets(exact, prog, locks, unlocks))
        BY <3>2 DEF MeetsWithin
      <4> QED
        BY <2>2, <4>1, <4>2, WithinStep
    <3> QED
      BY <3>1, <3>2 DEF MeetsWithin, MeetHypotheses
  <2>3. ASSUME UNCHANGED vars
        PROVE  MeetsWithin'
    BY <2>3 DEF MeetsWithin, MeetHypotheses, WithinSets, Seen, vars
  <2> QED
    BY <2>2, <2>3 DEF Next, Terminating
<1> QED
  BY <1>1, <1>2, AlwaysInv, PTL DEF Spec

LEMMA AlwaysRaisedInMeets ==
  ASSUME \A p \in Programs : WellFormed(p) /\ PathsComplete(p)
  PROVE  Spec => []RaisedInMeets
<1>1. Init => RaisedInMeets
  BY DEF Init, RaisedInMeets
<1>2. Inv /\ MeetsWithin /\ RaisedInMeets /\ [Next]_vars => RaisedInMeets'
  <2> SUFFICES ASSUME Inv, MeetsWithin, RaisedInMeets, [Next]_vars
               PROVE  RaisedInMeets'
    OBVIOUS
  <2>1. CASE PopBlock
    <3> DEFINE b == Head(worklist.queue)
    <3>1. b \in Blocks /\ worklist.inQueue[b]
      BY <2>1, PopDequeues DEF Inv, TypeInv, TypeOK, Worklists, WorklistConsistent, PopBlock
    <3>2. b \in Seen
      BY <3>1 DEF Inv, TypeInv, WorklistConsistent
    <3>3. /\ prog' = prog
          /\ reports' = reports \cup Emit(prog, b, blockEntryStates[b])
      BY <2>1 DEF PopBlock
    <3> HIDE DEF b
    <3>4. ASSUME NEW exact \in BOOLEAN, NEW locks, NEW unlocks,
                 MeetHypotheses(exact, locks, unlocks), NEW d \in reports'
          PROVE  d \in Prologue(prog) \/ RaisedIn(d, MeetSets(exact, prog, locks, unlocks))
      <4> DEFINE Good == MeetSets(exact, prog, locks, unlocks)
      <4>1. CASE d \in reports
        BY <3>4, <4>1 DEF RaisedInMeets
      <4>2. CASE d \in Emit(prog, b, blockEntryStates[b])
        <5>1. WithinSets(Good)
          BY <3>4 DEF MeetsWithin
        <5> HIDE DEF Good
        <5>2. blockEntryStates[b] \in Good[b]
          BY <3>2, <5>1 DEF WithinSets
        <5>3. RaisedIn(d, Good)
          BY <3>1, <4>2, <5>2 DEF RaisedIn
        <5> QED
          BY <5>3 DEF Good
      <4> QED
        BY <3>3, <4>1, <4>2
    <3> QED
      BY <3>3, <3>4 DEF RaisedInMeets, MeetHypotheses, RaisedIn
  <2>2. CASE FirstVisit \/ MergeChanges \/ MergeKeeps \/ UNCHANGED vars
    <3>1. prog' = prog /\ reports' = reports
      BY <2>2 DEF FirstVisit, MergeChanges, MergeKeeps, NextSuccessor, vars
    <3> QED
      BY <3>1 DEF RaisedInMeets, MeetHypotheses, RaisedIn
  <2> QED
    BY <2>1, <2>2 DEF Next, Step, Terminating
<1>3. Spec => []MeetsWithin
  BY AlwaysMeetsWithin
<1> QED
  BY <1>1, <1>2, <1>3, AlwaysInv, PTL DEF Spec

-----------------------------------------------------------------------------
(***************************************************************************)
(* Where the same effects are pending, a state that claims no more than    *)
(* another one still claims no more after an instruction.                  *)
(***************************************************************************)
Under(x, s) ==
  /\ Weaker(x, s)
  /\ x.DeferredLocks = s.DeferredLocks
  /\ x.DeferredUnlocks = s.DeferredUnlocks

LEMMA EffectKeepsUnder ==
  ASSUME NEW x \in AnalysisStates, NEW s \in AnalysisStates, Under(x, s), NEW i, WellTyped(i)
  PROVE  Under(Effect(i, x), Effect(i, s))
<1> DEFINE dl == s.DeferredLocks
           du == s.DeferredUnlocks
<1>1. x.HeldLocks \subseteq s.HeldLocks /\ s.MayHeldLocks \subseteq x.MayHeldLocks
  BY DEF Under, Weaker
<1>2. Pends(x, dl, du) /\ Pends(s, dl, du) /\ dl \subseteq Locks
  BY DEF Under, Pends, AnalysisStates
<1> HIDE DEF dl, du
<1>3. PICK add, gone, locks, unlocks : ChangesAll(i, dl, du, add, gone, locks, unlocks)
  BY <1>2, EffectChanges
<1>4. Changes(i, x, add, gone, locks, unlocks) /\ Changes(i, s, add, gone, locks, unlocks)
  BY <1>2, <1>3 DEF ChangesAll
<1>5. Removed(i, x, gone) \subseteq Removed(i, s, gone)
  BY <1>1 DEF Removed
<1>6. /\ (x.HeldLocks \cup add) \ gone \subseteq (s.HeldLocks \cup add) \ gone
      /\ (s.MayHeldLocks \cup add) \ Removed(i, s, gone)
           \subseteq (x.MayHeldLocks \cup add) \ Removed(i, x, gone)
  BY <1>1, <1>5
<1> QED
  BY <1>4, <1>6 DEF Changes, Under, Weaker

LEMMA TransferKeepsUnder ==
  ASSUME NEW p \in Programs, WellFormed(p), NEW b \in Blocks,
         NEW x \in AnalysisStates, NEW s \in AnalysisStates, Under(x, s)
  PROVE  Under(Transfer(p, b, x), Transfer(p, b, s))
<1> DEFINE N == Len(p.body[b])
           at(r) == StateAt(p, b, r)
           H == {n \in 0..N : Under(at(x)[n], at(s)[n])}
<1>1. N \in Nat
  BY DEF WellFormed
<1>2. ASSUME NEW r \in AnalysisStates
      PROVE  /\ at(r) \in [0..N -> AnalysisStates]
             /\ at(r)[0] = r
             /\ \A n \in 1..N : at(r)[n] = Effect(p.body[b][n], at(r)[n - 1])
  BY StateAtSteps
<1>3. Transfer(p, b, x) = at(x)[N] /\ Transfer(p, b, s) = at(s)[N]
  BY BlockAssumption DEF BlockTransfer
<1>4. \A n \in 1..N : WellTyped(p.body[b][n])
  BY DEF WellFormed
<1> HIDE DEF at, N
<1>5. 0 \in H
  BY <1>1, <1>2
<1>6. ASSUME NEW n \in 1..N, n - 1 \in H
      PROVE  n \in H
  <2>1. n \in 0..N /\ n - 1 \in 0..N
    BY <1>1
  <2>2. at(x)[n - 1] \in AnalysisStates /\ at(s)[n - 1] \in AnalysisStates
    BY <1>2, <2>1
  <2>3. Under(at(x)[n - 1], at(s)[n - 1])
    BY <1>6
  <2>4. Under(Effect(p.body[b][n], at(x)[n - 1]), Effect(p.body[b][n], at(s)[n - 1]))
    BY <1>4, <2>2, <2>3, EffectKeepsUnder
  <2> QED
    BY <1>2, <2>1, <2>4
<1>7. 0..N \subseteq H
  <2> HIDE DEF H
  <2> QED
    BY <1>1, <1>5, <1>6, IntervalInduction
<1>8. N \in 0..N
  BY <1>1
<1> QED
  BY <1>3, <1>7, <1>8

(***************************************************************************)
(* When the loop ends every state of a path is above the entry state of    *)
(* its block.                                                              *)
(***************************************************************************)
PathsCovered ==
  \A b \in Blocks : \A s \in PathStates(prog)[b] :
    b \in Seen /\ Under(blockEntryStates[b], s)

LEMMA AnalysedCoversPaths ==
  ASSUME Analysed, Done, Comparable(prog)
  PROVE  PathsCovered
<1>1. PICK locks : PendingLocks(prog, locks)
  BY DEF Comparable, LocksAgree
<1>2. PICK unlocks : PendingUnlocks(prog, unlocks)
  BY DEF Comparable, UnlocksAgree
<1>3. /\ prog \in Programs
      /\ WellFormed(prog)
      /\ prog.entry \in Seen
      /\ Seen \subseteq Blocks
      /\ \A b \in Seen : blockEntryStates[b] \in AnalysisStates
      /\ prog.entry \in Blocks /\ prog.succs \in [Blocks -> Seq(Blocks)]
  BY ProgramAssumption DEF Analysed, TypeInv, TypeOK, StartCovered, Comparable
<1>4. \A b \in Seen : /\ blockEntryStates[b].DeferredLocks = locks[b]
                      /\ blockEntryStates[b].DeferredUnlocks = unlocks[b]
  BY <1>1, <1>2 DEF Analysed, LocksWithin, UnlocksWithin
<1> DEFINE Good == [b \in Blocks |-> {s \in AnalysisStates : b \in Seen /\ Under(blockEntryStates[b], s)}]
           init == newAnalysisState(createInitialLockset(prog))
<1>5. \A b \in Blocks : \A s :
        s \in Good[b] <=> s \in AnalysisStates /\ b \in Seen /\ Under(blockEntryStates[b], s)
  OBVIOUS
<1> HIDE DEF Good
<1>6. init \in Good[prog.entry]
  <2>1. init \in AnalysisStates
    BY InitialStateType
  <2>2. init.DeferredLocks = locks[prog.entry] /\ init.DeferredUnlocks = unlocks[prog.entry]
    BY <1>1, <1>2 DEF newAnalysisState, PendingLocks, PendingUnlocks
  <2>3. Weaker(blockEntryStates[prog.entry], init)
    BY DEF Analysed, StartCovered
  <2> HIDE DEF init
  <2>4. Under(blockEntryStates[prog.entry], init)
    BY <1>3, <1>4, <2>2, <2>3 DEF Under
  <2> QED
    BY <1>3, <1>5, <2>1, <2>4
<1>7. ASSUME NEW b \in Blocks, NEW s \in AnalysisStates \cap Good[b], NEW k \in 1..Len(prog.succs[b])
      PROVE  Transfer(prog, b, s) \in Good[prog.succs[b][k]]
  <2> DEFINE c == prog.succs[b][k]
             e == blockEntryStates[b]
             f == blockEntryStates[c]
             u == Transfer(prog, b, s)
             v == Transfer(prog, b, e)
  <2>1. /\ b \in Seen /\ e \in AnalysisStates
        /\ s \in AnalysisStates /\ Under(e, s)
        /\ c \in Blocks
    BY <1>3, <1>5, <1>7
  <2>2. Absorbed(b, c)
    BY <2>1, <1>7 DEF Analysed, FixpointReached, Propagated, IsSuccessor
  <2>3. c \in Seen /\ Weaker(f, v)
    BY <2>2 DEF Absorbed
  <2>4. Under(v, u)
    BY <1>3, <2>1, TransferKeepsUnder
  <2>5. u \in AnalysisStates /\ v \in AnalysisStates /\ f \in AnalysisStates
    BY <1>3, <2>1, <2>3, TransferAssumption
  <2>6. s.DeferredLocks = locks[b] /\ s.DeferredUnlocks = unlocks[b]
    BY <1>4, <2>1 DEF Under
  <2>7. u = BlockTransfer(prog, b, s)
    BY <1>3, <2>1, BlockAssumption
  <2>8. u.DeferredLocks = locks[c] /\ u.DeferredUnlocks = unlocks[c]
    BY <1>1, <1>2, <1>7, <2>1, <2>6, <2>7 DEF PendingLocks, PendingUnlocks
  <2>9. f.DeferredLocks = locks[c] /\ f.DeferredUnlocks = unlocks[c]
    BY <1>4, <2>3
  <2> HIDE DEF c, e, f, u, v
  <2>10. Weaker(f, u)
    BY <2>3, <2>4, <2>5, WeakerTransitive DEF Under
  <2>11. Under(f, u)
    BY <2>8, <2>9, <2>10 DEF Under
  <2>12. u \in Good[c]
    BY <1>5, <2>1, <2>3, <2>5, <2>11 DEF f
  <2> QED
    BY <2>12 DEF c, u
<1>8. Traced(prog, Good)
  BY <1>6, <1>7 DEF Traced, init
<1>9. \A b \in Blocks : PathStates(prog)[b] \subseteq AnalysisStates \cap Good[b]
  BY <1>3, <1>8, PathStatesTraced
<1> QED
  BY <1>5, <1>9 DEF PathsCovered

(***************************************************************************)
(* An entry state is the meet of the states of some paths.                 *)
(***************************************************************************)
LEMMA EntryIsMeet ==
  ASSUME MeetsWithin, Comparable(prog), NEW exact \in BOOLEAN, exact => CallsKeepLocks(prog),
         NEW b \in Blocks, b \in Seen
  PROVE  \E T \in SUBSET PathStates(prog)[b] : MeetOf(exact, blockEntryStates[b], T)
<1>1. PICK locks : PendingLocks(prog, locks)
  BY DEF Comparable, LocksAgree
<1>2. PICK unlocks : PendingUnlocks(prog, unlocks)
  BY DEF Comparable, UnlocksAgree
<1>3. WithinSets(MeetSets(exact, prog, locks, unlocks))
  BY <1>1, <1>2 DEF MeetsWithin, MeetHypotheses
<1> QED
  BY <1>3 DEF WithinSets, MeetSets

-----------------------------------------------------------------------------
(***************************************************************************)
(* Merging at joins and stopping at a fixpoint lose nothing                *)
(* (updateSuccessorState, functionDepthFirstSearch): HeldLocks of a block  *)
(* is exactly what all paths to it hold, MayHeldLocks what any of them     *)
(* holds, and only blocks that a path reaches have an entry state.         *)
(***************************************************************************)
THEOREM MeetsExact ==
  ASSUME \A p \in Programs : Comparable(p) /\ CallsKeepLocks(p)
  PROVE  Spec => []MeetOverPaths
<1>1. Analysed /\ MeetsWithin => MeetOverPaths
  <2> SUFFICES ASSUME Analysed, MeetsWithin, Done, NEW b \in Blocks
               PROVE  /\ b \in Seen <=> PathStates(prog)[b] # {}
                      /\ b \in Seen =>
                           /\ blockEntryStates[b].HeldLocks =
                                {l \in Locks : \A s \in PathStates(prog)[b] : l \in s.HeldLocks}
                           /\ blockEntryStates[b].MayHeldLocks =
                                UNION {s.MayHeldLocks : s \in PathStates(prog)[b]}
    BY DEF MeetOverPaths
  <2> DEFINE g == blockEntryStates[b]
             paths == PathStates(prog)[b]
  <2>1. Comparable(prog) /\ CallsKeepLocks(prog)
    BY DEF Analysed, TypeInv
  <2>2. \A s \in paths : b \in Seen /\ Under(g, s)
    BY <2>1, AnalysedCoversPaths DEF PathsCovered
  <2>3. ASSUME b \in Seen
        PROVE  \E T \in SUBSET paths : MeetOf(TRUE, g, T)
    BY <2>1, <2>3, EntryIsMeet
  <2> HIDE DEF g, paths
  <2>4. b \in Seen <=> paths # {}
    BY <2>2, <2>3 DEF MeetOf
  <2>5. ASSUME b \in Seen
        PROVE  /\ g.HeldLocks = {l \in Locks : \A s \in paths : l \in s.HeldLocks}
               /\ g.MayHeldLocks = UNION {s.MayHeldLocks : s \in paths}
    <3>1. PICK T \in SUBSET paths : MeetOf(TRUE, g, T)
      BY <2>3, <2>5
    <3>2. /\ g.HeldLocks = {l \in Locks : \A s \in T : l \in s.HeldLocks}
          /\ g.MayHeldLocks = UNION {s.MayHeldLocks : s \in T}
      BY <3>1 DEF MeetOf
    <3>3. \A s \in paths : g.HeldLocks \subseteq s.HeldLocks /\ s.MayHeldLocks \subseteq g.MayHeldLocks
      BY <2>2 DEF Under, Weaker
    <3>4. g.HeldLocks = {l \in Locks : \A s \in paths : l \in s.HeldLocks}
      BY <3>2, <3>3
    <3>5. g.MayHeldLocks = UNION {s.MayHeldLocks : s \in paths}
      BY <3>2, <3>3
    <3> QED
      BY <3>4, <3>5
  <2> QED
    BY <2>4, <2>5 DEF g, paths
<1>2. Spec => []MeetsWithin
  BY AlwaysMeetsWithin DEF Comparable
<1> QED
  BY <1>1, <1>2, AlwaysAnalysed, PTL

-----------------------------------------------------------------------------
(***************************************************************************)
(* A finding raised in a meet is raised in one of its states.              *)
(***************************************************************************)
Witnesses(e, d) == e.kind = d.kind /\ e.at = d.at /\ d.locks \subseteq e.locks

LEMMA MeetFacts ==
  ASSUME NEW g, NEW T, MeetOf(FALSE, g, T)
  PROVE  /\ T # {}
         /\ g.HeldLocks \subseteq Locks
         /\ \A s \in T : g.HeldLocks \subseteq s.HeldLocks
         /\ \A l : l \notin g.HeldLocks => \E s \in T : l \notin s.HeldLocks
<1>1. /\ T # {}
      /\ g.HeldLocks = {l \in Locks : \A s \in T : l \in s.HeldLocks}
      /\ \A s \in T : s.HeldLocks \subseteq Locks
  BY DEF MeetOf, AnalysisStates
<1> QED
  BY <1>1

LEMMA ReacquiringWitness ==
  ASSUME NEW g, NEW T, MeetOf(FALSE, g, T), NEW at, NEW c, NEW d \in Reacquiring(at, c, g)
  PROVE  \A s \in T : d \in Reacquiring(at, c, s)
<1> TAKE s \in T
<1>1. g.HeldLocks \subseteq s.HeldLocks
  BY MeetFacts
<1>2. PICK x \in c.acquired : /\ ~hasExplicitAcquires(c)
                              /\ isHeldLockEquivalent(g.HeldLocks, x)
                              /\ d = Diagnostic("AlreadyAcquired", at, c.name, {NameOf[x]})
  BY DEF Reacquiring
<1>3. isHeldLockEquivalent(s.HeldLocks, x)
  BY <1>1, <1>2 DEF isHeldLockEquivalent
<1> QED
  BY <1>2, <1>3 DEF Reacquiring

LEMMA AdvisoriesAreNoFindings ==
  ASSUME NEW at, NEW c, NEW s, NEW targets, NEW d,
         \/ d \in checkRecursiveCallLockReacquireHeuristic(at, c, s)
         \/ d \in NotCheckable(at, c, targets)
         \/ d \in reportDynamicCallbackWhileHoldingLocks(at, s)
  PROVE  d.kind \notin FindingKinds
<1>1. ASSUME NEW kind, NEW about, NEW locks, d = Diagnostic(kind, at, about, locks)
      PROVE  d.kind = kind
  BY <1>1 DEF Diagnostic
<1>2. d.kind \in {"NotCheckable", "DynamicCallback", "RecursiveReacquire"}
  <2>1. CASE d \in checkRecursiveCallLockReacquireHeuristic(at, c, s)
    BY <1>1, <2>1 DEF checkRecursiveCallLockReacquireHeuristic,
                      reportRecursiveCallMayReacquireLock, When
  <2>2. CASE d \in NotCheckable(at, c, targets)
    BY <1>1, <2>2 DEF NotCheckable, When
  <2>3. CASE d \in reportDynamicCallbackWhileHoldingLocks(at, s)
    BY <1>1, <2>3 DEF reportDynamicCallbackWhileHoldingLocks, When
  <2> QED
    BY <2>1, <2>2, <2>3
<1> QED
  BY <1>2 DEF FindingKinds

LEMMA StaticCallWitness ==
  ASSUME NEW g, NEW T, MeetOf(FALSE, g, T), NEW at, NEW i, WellTyped(i), i.op = "call",
         NEW d \in StaticCallReports(at, i.callee, g), d.kind \in FindingKinds
  PROVE  \E s \in T : d \in StaticCallReports(at, i.callee, s)
<1> DEFINE c == i.callee
<1>1. /\ T # {}
      /\ \A s \in T : g.HeldLocks \subseteq s.HeldLocks
      /\ \A l : l \notin g.HeldLocks => \E s \in T : l \notin s.HeldLocks
  BY MeetFacts
<1>2. \/ d \in checkRequiresExpectation(at, c, g)
      \/ d \in checkAcquiresExpectation(at, c, g)
      \/ d \in Reacquiring(at, c, applyReleasedRequiresEffects(g, c))
  BY AdvisoriesAreNoFindings DEF StaticCallReports
<1> HIDE DEF c
<1>3. CASE d \in checkRequiresExpectation(at, c, g)
  <2>1. PICK l \in (c.requires \cap Locks) \ g.HeldLocks :
          d = Diagnostic("MissingLock", at, c.name, {NameOf[l]})
    BY <1>3 DEF checkRequiresExpectation
  <2>2. PICK s \in T : l \notin s.HeldLocks
    BY <1>1, <2>1
  <2>3. d \in checkRequiresExpectation(at, c, s)
    BY <2>1, <2>2 DEF checkRequiresExpectation
  <2> QED
    BY <2>2, <2>3 DEF StaticCallReports, c
<1>4. CASE d \in checkAcquiresExpectation(at, c, g)
  <2>1. PICK l \in c.acquires \cap g.HeldLocks :
          d = Diagnostic("AlreadyAcquired", at, c.name, {NameOf[l]})
    BY <1>4 DEF checkAcquiresExpectation
  <2>2. PICK s \in T : l \in s.HeldLocks
    BY <1>1, <2>1
  <2>3. d \in checkAcquiresExpectation(at, c, s)
    BY <2>1, <2>2 DEF checkAcquiresExpectation
  <2> QED
    BY <2>2, <2>3 DEF StaticCallReports, c
<1>5. CASE d \in Reacquiring(at, c, applyReleasedRequiresEffects(g, c))
  <2>1. \A s : Effect(i, s) = applyReleasedRequiresEffects(s, c)
    BY DEF Effect, c
  <2>2. MeetOf(FALSE, Effect(i, g), EffectOn(i, T))
    BY EffectOfMeet
  <2>3. \A s \in EffectOn(i, T) : d \in Reacquiring(at, c, s)
    BY <1>5, <2>1, <2>2, ReacquiringWitness
  <2>4. PICK s \in T : TRUE
    BY <1>1
  <2>5. d \in Reacquiring(at, c, applyReleasedRequiresEffects(s, c))
    BY <2>1, <2>3, <2>4 DEF EffectOn
  <2> QED
    BY <2>4, <2>5 DEF StaticCallReports, c
<1> QED
  BY <1>2, <1>3, <1>4, <1>5

LEMMA DynamicCallWitness ==
  ASSUME NEW g, NEW T, MeetOf(FALSE, g, T), NEW at, NEW targets,
         NEW d \in DynamicCallReports(at, targets, g), d.kind \in FindingKinds
  PROVE  \E s \in T : d \in DynamicCallReports(at, targets, s)
<1>1. /\ T # {}
      /\ \A s \in T : g.HeldLocks \subseteq s.HeldLocks
      /\ \A l : l \notin g.HeldLocks => \E s \in T : l \notin s.HeldLocks
  BY MeetFacts
<1> DEFINE Advise(s) == UNION {checkRecursiveCallLockReacquireHeuristic(at, c, s)
                                \cup NotCheckable(at, c, c.requires \cup c.acquires) : c \in targets}
           Reacquire(s) == UNION {Reacquiring(at, c, s) : c \in targets}
           Dynamic(s) == reportDynamicCallbackWhileHoldingLocks(at, s)
<1>2. \A s : DynamicCallReports(at, targets, s) =
              Advise(s) \cup Reacquire(s) \cup (IF Reacquire(s) = {} THEN Dynamic(s) ELSE {})
  BY DEF DynamicCallReports
<1>3. d \notin Advise(g) /\ d \notin Dynamic(g)
  <2>1. ASSUME d \in Advise(g)
        PROVE  FALSE
    <3>1. PICK c \in targets : d \in checkRecursiveCallLockReacquireHeuristic(at, c, g)
                                     \cup NotCheckable(at, c, c.requires \cup c.acquires)
      BY <2>1
    <3> QED
      BY <3>1, AdvisoriesAreNoFindings
  <2> QED
    BY <2>1, AdvisoriesAreNoFindings
<1>4. PICK s \in T : TRUE
  BY <1>1
<1> HIDE DEF Advise, Dynamic
<1>5. d \in Reacquire(g)
  <2> HIDE DEF Reacquire
  <2> QED
    BY <1>2, <1>3
<1>6. PICK c \in targets : d \in Reacquiring(at, c, g)
  BY <1>5
<1>7. d \in Reacquiring(at, c, s)
  BY <1>4, <1>6, ReacquiringWitness
<1>8. d \in Reacquire(s)
  BY <1>6, <1>7
<1> HIDE DEF Reacquire
<1> QED
  BY <1>2, <1>4, <1>8

LEMMA ReturnWitness ==
  ASSUME NamesDistinct, NEW g, NEW T, MeetOf(FALSE, g, T),
         NEW at, NEW returns, returns \subseteq Locks \cup {Nil},
         NEW d \in checkReturnPath(at, returns, g), d.kind \in FindingKinds
  PROVE  \E s \in T : \E e \in checkReturnPath(at, returns, s) : Witnesses(e, d)
<1>1. /\ T # {}
      /\ \A s \in T : g.HeldLocks \subseteq s.HeldLocks
      /\ \A l : l \notin g.HeldLocks => \E s \in T : l \notin s.HeldLocks
  BY MeetFacts
<1>2. CASE returns # {}
  <2>1. PICK l \in returns : d \in checkReturnsExpectation(at, l, g)
    BY <1>2 DEF checkReturnPath
  <2>2. l # Nil
    BY <2>1 DEF checkReturnsExpectation, Diagnostic, FindingKinds
  <2>3. /\ l \in Locks
        /\ ~isHeldLockEquivalent(g.HeldLocks, l)
        /\ d = reportReturnMissingLock(at, l)
    BY <2>1, <2>2 DEF checkReturnsExpectation
  <2>4. l \notin g.HeldLocks
    BY <2>3 DEF isHeldLockEquivalent
  <2>5. PICK s \in T : l \notin s.HeldLocks
    BY <1>1, <2>4
  <2>6. ~isHeldLockEquivalent(s.HeldLocks, l)
    BY <2>3, <2>5 DEF isHeldLockEquivalent, NamesDistinct, MeetOf, AnalysisStates
  <2>7. d \in checkReturnsExpectation(at, l, s)
    BY <2>2, <2>3, <2>6 DEF checkReturnsExpectation
  <2>8. d \in checkReturnPath(at, returns, s)
    BY <1>2, <2>1, <2>7 DEF checkReturnPath
  <2> QED
    BY <2>8 DEF Witnesses
<1>3. CASE returns = {}
  <2>1. g.HeldLocks # {} /\ d = reportUndeclaredReturnedLock(at, g.HeldLocks)
    BY <1>3 DEF checkReturnPath, When
  <2>2. PICK s \in T : g.HeldLocks \subseteq s.HeldLocks
    BY <1>1
  <2>3. reportUndeclaredReturnedLock(at, s.HeldLocks) \in checkReturnPath(at, returns, s)
    BY <1>3, <2>1, <2>2 DEF checkReturnPath, When
  <2>4. Witnesses(reportUndeclaredReturnedLock(at, s.HeldLocks), d)
    BY <2>1, <2>2 DEF Witnesses, reportUndeclaredReturnedLock, Diagnostic, Names
  <2> QED
    BY <2>3, <2>4
<1> QED
  BY <1>2, <1>3

LEMMA ReportHasWitness ==
  ASSUME NamesDistinct, NEW p, p.returns \subseteq Locks \cup {Nil},
         NEW g, NEW T, MeetOf(TRUE, g, T), NEW at, NEW i, WellTyped(i),
         NEW d \in Reports(p, at, i, g), d.kind \in FindingKinds
  PROVE  \E s \in T : \E e \in Reports(p, at, i, s) : Witnesses(e, d)
<1>1. MeetOf(FALSE, g, T)
  BY DEF MeetOf
<1>2. \A s \in T : d \in Reports(p, at, i, s) => \E e \in Reports(p, at, i, s) : Witnesses(e, d)
  BY DEF Witnesses
<1>3. /\ T # {}
      /\ \A s \in T : g.HeldLocks \subseteq s.HeldLocks
      /\ \A l : l \notin g.HeldLocks => \E s \in T : l \notin s.HeldLocks
  BY <1>1, MeetFacts
<1>4. CASE i.op = "lock"
  <2>1. \A s : Reports(p, at, i, s) = LockReports(at, i.lock, s)
    BY <1>4 DEF Reports
  <2>2. i.lock \in g.MayHeldLocks
    BY <2>1 DEF LockReports, When
  <2>3. PICK s \in T : i.lock \in s.MayHeldLocks
    BY <2>2 DEF MeetOf
  <2>4. d \in Reports(p, at, i, s)
    BY <2>1, <2>2, <2>3 DEF LockReports, When
  <2> QED
    BY <1>2, <2>4
<1>5. CASE i.op = "access"
  <2>1. \A s : Reports(p, at, i, s) = checkGuardedByAccess(at, i.guard, s)
    BY <1>5 DEF Reports
  <2>2. d \in checkGuardedByAccess(at, i.guard, g)
    BY <2>1
  <2>3. i.guard # Nil
    <3>1. ASSUME i.guard = Nil
          PROVE  FALSE
      <4>1. d = Diagnostic("NotCheckable", at, "guarded_by", {})
        BY <2>2, <3>1 DEF checkGuardedByAccess
      <4> QED
        BY <4>1 DEF Diagnostic, FindingKinds
    <3> QED
      BY <3>1
  <2>4. i.guard \notin g.HeldLocks
    BY <2>3, <2>2 DEF checkGuardedByAccess
  <2>5. PICK s \in T : i.guard \notin s.HeldLocks
    BY <1>3, <2>4
  <2>6. d \in Reports(p, at, i, s)
    BY <2>1, <2>3, <2>5, <2>4 DEF checkGuardedByAccess
  <2> QED
    BY <1>2, <2>6
<1>6. CASE i.op = "call"
  <2>1. \A s : Reports(p, at, i, s) = StaticCallReports(at, i.callee, s)
    BY <1>6 DEF Reports
  <2>2. d \in StaticCallReports(at, i.callee, g)
    BY <2>1
  <2>3. \E s \in T : d \in StaticCallReports(at, i.callee, s)
    BY <1>1, <1>6, <2>2, StaticCallWitness
  <2> QED
    BY <1>2, <2>1, <2>3
<1>7. CASE i.op = "dyncall"
  <2>1. \A s : Reports(p, at, i, s) = DynamicCallReports(at, i.targets, s)
    BY <1>7 DEF Reports
  <2>2. d \in DynamicCallReports(at, i.targets, g)
    BY <2>1
  <2>3. \E s \in T : d \in DynamicCallReports(at, i.targets, s)
    BY <1>1, <2>2, DynamicCallWitness
  <2> QED
    BY <1>2, <2>1, <2>3
<1>8. CASE i.op = "return"
  <2>1. \A s : Reports(p, at, i, s) = checkReturnPath(at, p.returns, s)
    BY <1>8 DEF Reports
  <2> DEFINE returns == p.returns
  <2>2. d \in checkReturnPath(at, returns, g)
    BY <2>1
  <2>3. returns \subseteq Locks \cup {Nil}
    OBVIOUS
  <2> HIDE DEF returns
  <2>4. \E s \in T : \E e \in checkReturnPath(at, returns, s) : Witnesses(e, d)
    BY <1>1, <2>2, <2>3, ReturnWitness
  <2> QED
    BY <2>1, <2>4 DEF returns
<1>9. CASE i.op \notin {"lock", "access", "call", "dyncall", "return"}
  BY <1>9 DEF Reports
<1> QED
  BY <1>4, <1>5, <1>6, <1>7, <1>8, <1>9

LEMMA ReportsAreAt ==
  ASSUME NEW p, NEW at, NEW i, NEW s, NEW d \in Reports(p, at, i, s)
  PROVE  d.at = at
<1>1. ASSUME NEW kind, NEW about, NEW locks, d = Diagnostic(kind, at, about, locks)
      PROVE  d.at = at
  BY <1>1 DEF Diagnostic
<1>2. ASSUME NEW c, NEW r, d \in Reacquiring(at, c, r)
      PROVE  d.at = at
  BY <1>1, <1>2 DEF Reacquiring
<1>3. ASSUME NEW c, NEW r, d \in checkRecursiveCallLockReacquireHeuristic(at, c, r)
      PROVE  d.at = at
  BY <1>1, <1>3 DEF checkRecursiveCallLockReacquireHeuristic, reportRecursiveCallMayReacquireLock, When
<1>4. ASSUME NEW c, NEW targets, d \in NotCheckable(at, c, targets)
      PROVE  d.at = at
  BY <1>1, <1>4 DEF NotCheckable, When
<1>5. CASE i.op = "lock"
  <2>1. d \in LockReports(at, i.lock, s)
    BY <1>5 DEF Reports
  <2> QED
    BY <1>1, <2>1 DEF LockReports, When
<1>6. CASE i.op = "access"
  <2>1. d \in checkGuardedByAccess(at, i.guard, s)
    BY <1>6 DEF Reports
  <2>2. \/ d = Diagnostic("NotCheckable", at, "guarded_by", {})
        \/ d = Diagnostic("GuardViolation", at, "", {NameOf[i.guard]})
    BY <2>1 DEF checkGuardedByAccess
  <2> QED
    BY <1>1, <2>2
<1>7. CASE i.op = "call"
  <2> DEFINE c == i.callee
  <2>1. d \in StaticCallReports(at, c, s)
    BY <1>7 DEF Reports
  <2> HIDE DEF c
  <2>2. ASSUME d \in checkRequiresExpectation(at, c, s) \/ d \in checkAcquiresExpectation(at, c, s)
        PROVE  d.at = at
    BY <1>1, <2>2 DEF checkRequiresExpectation, checkAcquiresExpectation
  <2> QED
    BY <1>2, <1>3, <1>4, <2>1, <2>2 DEF StaticCallReports
<1>8. CASE i.op = "dyncall"
  <2> DEFINE Advise == UNION {checkRecursiveCallLockReacquireHeuristic(at, c, s)
                                \cup NotCheckable(at, c, c.requires \cup c.acquires) : c \in i.targets}
             Reacquire == UNION {Reacquiring(at, c, s) : c \in i.targets}
             Dynamic == reportDynamicCallbackWhileHoldingLocks(at, s)
  <2>1. d \in Advise \cup Reacquire \cup (IF Reacquire = {} THEN Dynamic ELSE {})
    BY <1>8 DEF Reports, DynamicCallReports
  <2>2. ASSUME d \in Advise
        PROVE  d.at = at
    <3>1. PICK c \in i.targets : d \in checkRecursiveCallLockReacquireHeuristic(at, c, s)
                                       \cup NotCheckable(at, c, c.requires \cup c.acquires)
      BY <2>2
    <3> QED
      BY <1>3, <1>4, <3>1
  <2>3. ASSUME d \in Reacquire
        PROVE  d.at = at
    BY <1>2, <2>3
  <2>4. ASSUME d \in Dynamic
        PROVE  d.at = at
    BY <1>1, <2>4 DEF reportDynamicCallbackWhileHoldingLocks, When
  <2> HIDE DEF Advise, Reacquire, Dynamic
  <2> QED
    BY <2>1, <2>2, <2>3, <2>4
<1>9. CASE i.op = "return"
  <2>1. d \in checkReturnPath(at, p.returns, s)
    BY <1>9 DEF Reports
  <2>2. ASSUME NEW l, d \in checkReturnsExpectation(at, l, s)
        PROVE  d.at = at
    <3>1. \/ d = Diagnostic("NotCheckable", at, "returns", {})
          \/ d = reportReturnMissingLock(at, l)
      BY <2>2 DEF checkReturnsExpectation
    <3> QED
      BY <1>1, <3>1 DEF reportReturnMissingLock
  <2>3. ASSUME NEW ls, d = reportUndeclaredReturnedLock(at, ls)
        PROVE  d.at = at
    BY <1>1, <2>3 DEF reportUndeclaredReturnedLock
  <2> QED
    BY <2>1, <2>2, <2>3 DEF checkReturnPath, When
<1>10. CASE i.op \notin {"lock", "access", "call", "dyncall", "return"}
  BY <1>10 DEF Reports
<1> QED
  BY <1>5, <1>6, <1>7, <1>8, <1>9, <1>10

LEMMA BlockFindingHasWitness ==
  ASSUME NamesDistinct, NEW p, WellFormed(p), CallsKeepLocks(p), p.returns \subseteq Locks \cup {Nil},
         NEW b \in Blocks, NEW g, NEW T, MeetOf(TRUE, g, T),
         NEW d \in BlockEmit(p, b, g), d.kind \in FindingKinds
  PROVE  d.at[1] = b /\ \E s \in T : \E e \in BlockEmit(p, b, s) : Witnesses(e, d)
<1>1. PICK n \in 1..Len(p.body[b]) :
        d \in Reports(p, <<b, n>>, p.body[b][n], StateAt(p, b, g)[n - 1])
  BY DEF BlockEmit
<1> DEFINE i == p.body[b][n]
           here == <<b, n>>
           h == StateAt(p, b, g)[n - 1]
           U == AtPoint(p, b, n - 1, T)
<1>2. d.at = here
  BY <1>1, ReportsAreAt
<1>3. n - 1 \in 0..Len(p.body[b]) /\ WellTyped(i)
  BY DEF WellFormed
<1>4. MeetOf(TRUE, h, U)
  BY <1>3, MeetInBlock
<1>5. \A r \in U : \E s \in T : r = StateAt(p, b, s)[n - 1]
  BY DEF AtPoint
<1>6. d \in Reports(p, here, i, h)
  BY <1>1
<1> HIDE DEF h, U
<1>7. PICK r \in U : \E e \in Reports(p, here, i, r) : Witnesses(e, d)
  <2> HIDE DEF i, here
  <2> QED
    BY <1>3, <1>4, <1>6, ReportHasWitness
<1>8. PICK s \in T : r = StateAt(p, b, s)[n - 1]
  BY <1>5
<1>9. Reports(p, here, i, r) \subseteq BlockEmit(p, b, s)
  BY <1>8 DEF BlockEmit
<1>10. d.at[1] = b
  BY <1>2
<1> QED
  BY <1>7, <1>9, <1>10

(***************************************************************************)
(* Findings are recorded while entry states still change and are never     *)
(* withdrawn, but each one is raised on some path alone, at the same       *)
(* instruction and with no fewer locks (analyzeInstructions).              *)
(***************************************************************************)
THEOREM FindingsWitnessed ==
  ASSUME \A p \in Programs : /\ Comparable(p) /\ CallsKeepLocks(p)
                             /\ p.returns \subseteq Locks \cup {Nil},
         NamesDistinct
  PROVE  Spec => []FindingsHaveWitness
<1>1. TypeInv /\ RaisedInMeets => FindingsHaveWitness
  <2> SUFFICES ASSUME TypeInv, RaisedInMeets, NEW d \in reports, d.kind \in FindingKinds
               PROVE  \E s \in PathStates(prog)[d.at[1]] :
                        \E e \in Emit(prog, d.at[1], s) : Witnesses(e, d)
    BY DEF FindingsHaveWitness, Witnesses
  <2>1. /\ prog \in Programs /\ Comparable(prog) /\ CallsKeepLocks(prog)
        /\ WellFormed(prog) /\ prog.returns \subseteq Locks \cup {Nil}
    BY DEF TypeInv, Comparable
  <2>2. PICK locks : PendingLocks(prog, locks)
    BY <2>1 DEF Comparable, LocksAgree
  <2>3. PICK unlocks : PendingUnlocks(prog, unlocks)
    BY <2>1 DEF Comparable, UnlocksAgree
  <2>4. d \notin Prologue(prog)
    BY <2>1, BlockAssumption DEF RequiresReports, When, Diagnostic, FindingKinds
  <2>5. RaisedIn(d, MeetSets(TRUE, prog, locks, unlocks))
    BY <2>1, <2>2, <2>3, <2>4 DEF RaisedInMeets, MeetHypotheses
  <2>6. PICK b \in Blocks : \E g \in MeetSets(TRUE, prog, locks, unlocks)[b] : d \in Emit(prog, b, g)
    BY <2>5 DEF RaisedIn
  <2>7. PICK g \in AnalysisStates :
          d \in Emit(prog, b, g) /\ \E T \in SUBSET PathStates(prog)[b] : MeetOf(TRUE, g, T)
    BY <2>6 DEF MeetSets
  <2>8. PICK T \in SUBSET PathStates(prog)[b] : MeetOf(TRUE, g, T)
    BY <2>7
  <2>9. d \in BlockEmit(prog, b, g)
    BY <2>1, <2>7, BlockAssumption
  <2>10. d.at[1] = b /\ \E s \in T : \E e \in BlockEmit(prog, b, s) : Witnesses(e, d)
    BY <2>1, <2>8, <2>9, BlockFindingHasWitness
  <2>11. PICK s \in T : \E e \in BlockEmit(prog, b, s) : Witnesses(e, d)
    BY <2>10
  <2>12. s \in PathStates(prog)[b] /\ Emit(prog, b, s) = BlockEmit(prog, b, s)
    BY <2>1, <2>8, BlockAssumption DEF MeetOf
  <2> QED
    BY <2>10, <2>11, <2>12
<1>2. Spec => []RaisedInMeets
  BY AlwaysRaisedInMeets DEF Comparable
<1>3. Inv => TypeInv
  BY DEF Inv
<1> QED
  BY <1>1, <1>2, <1>3, AlwaysInv, PTL

=============================================================================
