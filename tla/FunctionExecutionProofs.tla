---------------------- MODULE FunctionExecutionProofs ----------------------
(***************************************************************************)
(* The facts of the analysis are sound for every run of the function, and  *)
(* what a run misses or blocks on was reported, for every function that    *)
(* fits the hypotheses of FunctionExecution.                               *)
(*                                                                         *)
(* The solution that CFGTraversalProofs shows the worklist to end with is  *)
(* followed along the run: one lemma per instruction shows that what the   *)
(* instruction does to the run fits what its Effect does to the facts, and *)
(* an edge only weakens the facts.  HeldLocks needs the pending unlocks    *)
(* to be known exactly, MayHeldLocks the pending locks; the two halves     *)
(* share one invariant, each under its own hypothesis.                     *)
(***************************************************************************)
EXTENDS FunctionExecution, FunctionAnalysisProofs

-----------------------------------------------------------------------------
(***************************************************************************)
(* What sequences of lock operations and deferred calls do to a goroutine  *)
(* (GoExecution), by induction over their length.                          *)
(***************************************************************************)
RunStates == [held : SUBSET Mutexes, status : {"running", "blocked", "panicked"}]

(***************************************************************************)
(* One lock operation.                                                     *)
(***************************************************************************)
OpAfter(o, r) ==
  CASE r.status # "running" -> r
    [] r.status = "running" /\ o.op = "lock" ->
         IF o.lock \in r.held
         THEN [r EXCEPT !.status = "blocked"]
         ELSE [r EXCEPT !.held = @ \cup {o.lock}]
    [] OTHER ->
         IF o.lock \in r.held
         THEN [r EXCEPT !.held = @ \ {o.lock}]
         ELSE [r EXCEPT !.status = "panicked"]

LEMMA OpAfterType ==
  ASSUME NEW o \in LockOps, NEW r \in RunStates
  PROVE  OpAfter(o, r) \in RunStates
BY DEF OpAfter, LockOps, RunStates

(***************************************************************************)
(* The recursive function of RunOps, as a formula over the function.       *)
(***************************************************************************)
OpsRun(g, ops, ls) ==
  /\ g \in [0..Len(ops) -> RunStates]
  /\ g[0] = [held |-> ls, status |-> "running"]
  /\ \A n \in 1..Len(ops) : g[n] = OpAfter(ops[n], g[n - 1])

LEMMA OpsRunExists ==
  ASSUME NEW ops \in Seq(LockOps), NEW ls \in SUBSET Mutexes
  PROVE  \E g : OpsRun(g, ops, ls)
<1> DEFINE start == [held |-> ls, status |-> "running"]
           step == [n \in 1..Len(ops) |-> [r \in RunStates |-> OpAfter(ops[n], r)]]
<1>1. start \in RunStates /\ Len(ops) \in Nat
  BY DEF RunStates
<1>2. step \in [1..Len(ops) -> [RunStates -> RunStates]]
  <2>1. \A n \in 1..Len(ops), r \in RunStates : OpAfter(ops[n], r) \in RunStates
    BY OpAfterType
  <2> QED
    BY <2>1
<1> HIDE DEF start
<1>3. PICK g : Iterates(g, Len(ops), RunStates, start, step)
  <2> HIDE DEF step
  <2> QED
    BY <1>1, <1>2, IterationExists
<1>4. ASSUME NEW n \in 1..Len(ops)
      PROVE  g[n] = OpAfter(ops[n], g[n - 1])
  <2>1. n - 1 \in 0..Len(ops)
    OBVIOUS
  <2>2. g[n - 1] \in RunStates /\ g[n] = step[n][g[n - 1]]
    BY <1>3, <2>1 DEF Iterates
  <2> QED
    BY <2>2
<1> QED
  BY <1>3, <1>4 DEF Iterates, OpsRun, start

LEMMA RunOpsIsRun ==
  ASSUME NEW ops \in Seq(LockOps), NEW ls \in SUBSET Mutexes
  PROVE  \E g : OpsRun(g, ops, ls) /\ RunOps(ops, ls) = g[Len(ops)]
<1> DEFINE start == [held |-> ls, status |-> "running"]
           P(f) == f = [n \in 0..Len(ops) |-> IF n = 0 THEN start ELSE OpAfter(ops[n], f[n - 1])]
           after == CHOOSE f : P(f)
<1>1. PICK g : OpsRun(g, ops, ls)
  BY OpsRunExists
<1>2. P(g)
  BY <1>1 DEF OpsRun
<1>3. P(after)
  <2> HIDE DEF P
  <2> QED
    BY <1>2
<1>4. RunOps(ops, ls) = after[Len(ops)]
  BY DEF RunOps, OpAfter
<1>5. Len(ops) \in Nat
  OBVIOUS
<1> HIDE DEF after
<1>6. DOMAIN after = 0..Len(ops) /\ DOMAIN g = 0..Len(ops)
  BY <1>1, <1>3 DEF OpsRun
<1>7. \A n \in 0..Len(ops) : after[n] = IF n = 0 THEN start ELSE OpAfter(ops[n], after[n - 1])
  BY <1>3
<1> HIDE DEF P, start
<1> DEFINE T == {n \in 0..Len(ops) : after[n] = g[n]}
<1>8. 0 \in T
  BY <1>1, <1>5, <1>7 DEF OpsRun, start
<1>9. \A n \in 1..Len(ops) : n - 1 \in T => n \in T
  <2> SUFFICES ASSUME NEW n \in 1..Len(ops), n - 1 \in T
               PROVE  after[n] = g[n]
    OBVIOUS
  <2>1. n \in 0..Len(ops) /\ n # 0
    OBVIOUS
  <2> QED
    BY <1>1, <1>7, <2>1 DEF OpsRun
<1>10. 0..Len(ops) \subseteq T
  <2> HIDE DEF T
  <2> QED
    BY <1>5, <1>8, <1>9, IntervalInduction
<1>11. after[Len(ops)] = g[Len(ops)]
  BY <1>5, <1>10
<1> QED
  BY <1>1, <1>4, <1>11

LEMMA OpsRunUnique ==
  ASSUME NEW ops \in Seq(LockOps), NEW ls, NEW g, OpsRun(g, ops, ls), NEW k, OpsRun(k, ops, ls)
  PROVE  g = k
<1> DEFINE T == {n \in 0..Len(ops) : g[n] = k[n]}
<1>1. Len(ops) \in Nat
  OBVIOUS
<1>2. 0 \in T
  BY <1>1 DEF OpsRun
<1>3. \A n \in 1..Len(ops) : n - 1 \in T => n \in T
  BY DEF OpsRun
<1>4. 0..Len(ops) \subseteq T
  <2> HIDE DEF T
  <2> QED
    BY <1>1, <1>2, <1>3, IntervalInduction
<1>5. g \in [0..Len(ops) -> RunStates] /\ k \in [0..Len(ops) -> RunStates]
  BY DEF OpsRun
<1>6. \A n \in 0..Len(ops) : g[n] = k[n]
  BY <1>4
<1> QED
  BY <1>5, <1>6

(***************************************************************************)
(* No operation, one operation, and one sequence after another.            *)
(***************************************************************************)
LEMMA NoOperation ==
  ASSUME NEW ls \in SUBSET Mutexes
  PROVE  RunOps(<<>>, ls) = [held |-> ls, status |-> "running"]
<1>1. <<>> \in Seq(LockOps) /\ Len(<<>>) = 0
  OBVIOUS
<1>2. PICK g : OpsRun(g, <<>>, ls) /\ RunOps(<<>>, ls) = g[0]
  BY <1>1, RunOpsIsRun
<1> QED
  BY <1>2 DEF OpsRun

LEMMA OneOperation ==
  ASSUME NEW o \in LockOps, NEW ls \in SUBSET Mutexes
  PROVE  RunOps(<<o>>, ls) = OpAfter(o, [held |-> ls, status |-> "running"])
<1>1. <<o>> \in Seq(LockOps) /\ Len(<<o>>) = 1 /\ <<o>>[1] = o
  OBVIOUS
<1>2. PICK g : OpsRun(g, <<o>>, ls) /\ RunOps(<<o>>, ls) = g[1]
  BY <1>1, RunOpsIsRun
<1> QED
  BY <1>1, <1>2 DEF OpsRun

LEMMA RunOpsType ==
  ASSUME NEW ops \in Seq(LockOps), NEW ls \in SUBSET Mutexes
  PROVE  RunOps(ops, ls) \in RunStates
<1>1. PICK g : OpsRun(g, ops, ls) /\ RunOps(ops, ls) = g[Len(ops)]
  BY RunOpsIsRun
<1>2. Len(ops) \in 0..Len(ops)
  OBVIOUS
<1> QED
  BY <1>1, <1>2 DEF OpsRun

LEMMA OneAfterAnother ==
  ASSUME NEW a \in Seq(LockOps), NEW b \in Seq(LockOps), NEW ls \in SUBSET Mutexes,
         RunOps(a \o b, ls).status = "running"
  PROVE  /\ RunOps(a, ls).status = "running"
         /\ RunOps(a \o b, ls) = RunOps(b, RunOps(a, ls).held)
<1> DEFINE ab == a \o b
<1>1. /\ ab \in Seq(LockOps)
      /\ Len(ab) = Len(a) + Len(b)
      /\ Len(a) \in Nat /\ Len(b) \in Nat
      /\ \A n \in 1..Len(a) : ab[n] = a[n]
      /\ \A n \in 1..Len(b) : ab[Len(a) + n] = b[n]
  OBVIOUS
<1> HIDE DEF ab
<1>2. PICK g : OpsRun(g, ab, ls) /\ RunOps(ab, ls) = g[Len(ab)]
  BY <1>1, RunOpsIsRun
<1>3. PICK ga : OpsRun(ga, a, ls) /\ RunOps(a, ls) = ga[Len(a)]
  BY RunOpsIsRun
<1> DEFINE first == [n \in 0..Len(a) |-> g[n]]
<1>4. first = ga
  <2>1. OpsRun(first, a, ls)
    <3>1. \A n \in 0..Len(a) : n \in 0..Len(ab)
      BY <1>1
    <3>2. first \in [0..Len(a) -> RunStates]
      BY <1>2, <3>1 DEF OpsRun
    <3>3. first[0] = [held |-> ls, status |-> "running"]
      BY <1>1, <1>2 DEF OpsRun
    <3>4. ASSUME NEW n \in 1..Len(a)
          PROVE  first[n] = OpAfter(a[n], first[n - 1])
      <4>1. n \in 1..Len(ab) /\ n \in 0..Len(a) /\ n - 1 \in 0..Len(a)
        BY <1>1
      <4> QED
        BY <1>1, <1>2, <4>1 DEF OpsRun
    <3> HIDE DEF first
    <3> QED
      BY <3>2, <3>3, <3>4 DEF OpsRun
  <2> HIDE DEF first
  <2> QED
    BY <1>3, <2>1, OpsRunUnique
<1>5. ga[Len(a)] = g[Len(a)] /\ Len(a) \in 0..Len(ab)
  BY <1>1, <1>4
<1>6. g[Len(a)].status = "running"
  <2> SUFFICES ASSUME g[Len(a)].status # "running"
               PROVE  FALSE
    OBVIOUS
  <2> DEFINE T == {n \in 0..Len(b) : g[Len(a) + n].status # "running"}
  <2>1. 0 \in T
    BY <1>1
  <2>2. ASSUME NEW n \in 1..Len(b), n - 1 \in T
        PROVE  n \in T
    <3>1. /\ Len(a) + n \in 1..Len(ab)
          /\ (Len(a) + n) - 1 = Len(a) + (n - 1)
          /\ n \in 0..Len(b)
      BY <1>1
    <3>2. g[Len(a) + n] = OpAfter(ab[Len(a) + n], g[Len(a) + (n - 1)])
      BY <1>2, <3>1 DEF OpsRun
    <3>3. g[Len(a) + n] = g[Len(a) + (n - 1)]
      BY <2>2, <3>2 DEF OpAfter
    <3> QED
      BY <2>2, <3>1, <3>3
  <2>3. 0..Len(b) \subseteq T
    <3> HIDE DEF T
    <3> QED
      BY <1>1, <2>1, <2>2, IntervalInduction
  <2>4. Len(b) \in T
    <3>1. Len(b) \in 0..Len(b)
      BY <1>1
    <3> HIDE DEF T
    <3> QED
      BY <2>3, <3>1
  <2> QED
    BY <1>1, <1>2, <2>4 DEF ab
<1> DEFINE rest == [n \in 0..Len(b) |-> g[Len(a) + n]]
           mid == g[Len(a)].held
<1>7. mid \in SUBSET Mutexes /\ g[Len(a)] = [held |-> mid, status |-> "running"]
  BY <1>2, <1>5, <1>6 DEF OpsRun, RunStates
<1>8. OpsRun(rest, b, mid)
  <2>1. \A n \in 0..Len(b) : Len(a) + n \in 0..Len(ab)
    BY <1>1
  <2>2. rest \in [0..Len(b) -> RunStates]
    BY <1>2, <2>1 DEF OpsRun
  <2>3. rest[0] = [held |-> mid, status |-> "running"]
    BY <1>1, <1>7
  <2>4. ASSUME NEW n \in 1..Len(b)
        PROVE  rest[n] = OpAfter(b[n], rest[n - 1])
    <3>1. /\ Len(a) + n \in 1..Len(ab) /\ n \in 0..Len(b) /\ n - 1 \in 0..Len(b)
          /\ (Len(a) + n) - 1 = Len(a) + (n - 1)
      BY <1>1
    <3> QED
      BY <1>1, <1>2, <3>1 DEF OpsRun
  <2> HIDE DEF rest, mid
  <2> QED
    BY <2>2, <2>3, <2>4 DEF OpsRun
<1>9. RunOps(b, mid) = rest[Len(b)]
  <2>1. PICK k : OpsRun(k, b, mid) /\ RunOps(b, mid) = k[Len(b)]
    <3> HIDE DEF mid
    <3> QED
      BY <1>7, RunOpsIsRun
  <2>2. k = rest
    <3> HIDE DEF rest, mid
    <3> QED
      BY <1>8, <2>1, OpsRunUnique
  <2> QED
    BY <2>1, <2>2
<1>10. rest[Len(b)] = g[Len(ab)]
  BY <1>1
<1> QED
  BY <1>2, <1>3, <1>5, <1>6, <1>9, <1>10 DEF ab

(***************************************************************************)
(* A deferred call that was registered last runs first.                    *)
(***************************************************************************)
UnwindRun(g, stack) ==
  /\ g \in [0..Len(stack) -> Seq(LockOps)]
  /\ g[0] = <<>>
  /\ \A n \in 1..Len(stack) : g[n] = stack[n] \o g[n - 1]

LEMMA UnwindRunExists ==
  ASSUME NEW stack \in Seq(Seq(LockOps))
  PROVE  \E g : UnwindRun(g, stack)
<1> DEFINE S == Seq(LockOps)
           step == [n \in 1..Len(stack) |-> [r \in S |-> stack[n] \o r]]
<1>1. <<>> \in S /\ Len(stack) \in Nat
  OBVIOUS
<1>2. step \in [1..Len(stack) -> [S -> S]]
  <2>1. \A n \in 1..Len(stack) : stack[n] \in Seq(LockOps)
    OBVIOUS
  <2>2. \A n \in 1..Len(stack), r \in S : stack[n] \o r \in S
    BY <2>1
  <2> HIDE DEF S
  <2> QED
    BY <2>2
<1>3. PICK g : Iterates(g, Len(stack), S, <<>>, step)
  <2> HIDE DEF step, S
  <2> QED
    BY <1>1, <1>2, IterationExists
<1>4. ASSUME NEW n \in 1..Len(stack)
      PROVE  g[n] = stack[n] \o g[n - 1]
  <2>1. n - 1 \in 0..Len(stack)
    OBVIOUS
  <2>2. g[n - 1] \in S /\ g[n] = step[n][g[n - 1]]
    BY <1>3, <2>1 DEF Iterates
  <2> HIDE DEF S
  <2> QED
    BY <2>2
<1> QED
  BY <1>3, <1>4 DEF Iterates, UnwindRun

LEMMA UnwindOpsIsRun ==
  ASSUME NEW stack \in Seq(Seq(LockOps)), NEW g, UnwindRun(g, stack)
  PROVE  UnwindOps(stack) = g[Len(stack)]
<1> DEFINE P(f) == f = [n \in 0..Len(stack) |-> IF n = 0 THEN <<>> ELSE stack[n] \o f[n - 1]]
           ops == CHOOSE f : P(f)
<1>1. P(g)
  <2>1. Len(stack) \in Nat
    OBVIOUS
  <2>2. \A n \in 0..Len(stack) : n # 0 => n \in 1..Len(stack)
    BY <2>1
  <2>3. \A n \in 0..Len(stack) : g[n] = IF n = 0 THEN <<>> ELSE stack[n] \o g[n - 1]
    BY <2>2 DEF UnwindRun
  <2>4. g = [n \in 0..Len(stack) |-> g[n]]
    BY DEF UnwindRun
  <2> QED
    BY <2>3, <2>4
<1>2. P(ops)
  <2> HIDE DEF P
  <2> QED
    BY <1>1
<1>3. UnwindOps(stack) = ops[Len(stack)]
  BY DEF UnwindOps
<1>4. Len(stack) \in Nat
  OBVIOUS
<1> HIDE DEF ops
<1>5. \A n \in 0..Len(stack) : ops[n] = IF n = 0 THEN <<>> ELSE stack[n] \o ops[n - 1]
  BY <1>2
<1> HIDE DEF P
<1> DEFINE T == {n \in 0..Len(stack) : ops[n] = g[n]}
<1>6. 0 \in T
  BY <1>4, <1>5 DEF UnwindRun
<1>7. \A n \in 1..Len(stack) : n - 1 \in T => n \in T
  <2> TAKE n \in 1..Len(stack)
  <2> HAVE n - 1 \in T
  <2>1. n \in 0..Len(stack) /\ n # 0
    BY <1>4
  <2>2. ops[n - 1] = g[n - 1]
    OBVIOUS
  <2>3. ops[n] = stack[n] \o ops[n - 1] /\ g[n] = stack[n] \o g[n - 1]
    BY <1>5, <2>1 DEF UnwindRun
  <2> QED
    BY <2>1, <2>2, <2>3
<1>8. 0..Len(stack) \subseteq T
  <2> HIDE DEF T
  <2> QED
    BY <1>4, <1>6, <1>7, IntervalInduction
<1> QED
  BY <1>3, <1>4, <1>8

LEMMA NothingDeferred == UnwindOps(<<>>) = <<>>
<1>1. <<>> \in Seq(Seq(LockOps)) /\ Len(<<>>) = 0
  OBVIOUS
<1>2. PICK g : UnwindRun(g, <<>>)
  BY <1>1, UnwindRunExists
<1> QED
  BY <1>1, <1>2, UnwindOpsIsRun DEF UnwindRun

LEMMA DeferredLast ==
  ASSUME NEW stack \in Seq(Seq(LockOps)), NEW ops \in Seq(LockOps)
  PROVE  /\ UnwindOps(stack) \in Seq(LockOps)
         /\ UnwindOps(Append(stack, ops)) = ops \o UnwindOps(stack)
<1> DEFINE more == Append(stack, ops)
<1>1. /\ more \in Seq(Seq(LockOps))
      /\ Len(more) = Len(stack) + 1
      /\ Len(stack) \in Nat
      /\ \A n \in 1..Len(stack) : more[n] = stack[n]
      /\ more[Len(stack) + 1] = ops
  OBVIOUS
<1> HIDE DEF more
<1>2. PICK g : UnwindRun(g, more)
  BY <1>1, UnwindRunExists
<1>3. UnwindOps(more) = g[Len(more)]
  BY <1>1, <1>2, UnwindOpsIsRun
<1> DEFINE first == [n \in 0..Len(stack) |-> g[n]]
<1>4. UnwindRun(first, stack)
  <2>1. \A n \in 0..Len(stack) : n \in 0..Len(more)
    BY <1>1
  <2>2. first \in [0..Len(stack) -> Seq(LockOps)]
    BY <1>2, <2>1 DEF UnwindRun
  <2>3. first[0] = <<>>
    BY <1>1, <1>2 DEF UnwindRun
  <2>4. ASSUME NEW n \in 1..Len(stack)
        PROVE  first[n] = stack[n] \o first[n - 1]
    <3>1. n \in 1..Len(more) /\ n \in 0..Len(stack) /\ n - 1 \in 0..Len(stack)
      BY <1>1
    <3>2. g[n] = more[n] \o g[n - 1]
      BY <1>2, <3>1 DEF UnwindRun
    <3> QED
      BY <1>1, <3>1, <3>2
  <2> HIDE DEF first
  <2> QED
    BY <2>2, <2>3, <2>4 DEF UnwindRun
<1>5. UnwindOps(stack) = g[Len(stack)]
  <2>1. UnwindOps(stack) = first[Len(stack)]
    <3> HIDE DEF first
    <3> QED
      BY <1>4, UnwindOpsIsRun
  <2> QED
    BY <1>1, <2>1
<1>6. g[Len(more)] = ops \o g[Len(stack)]
  <2>1. Len(more) \in 1..Len(more) /\ Len(more) - 1 = Len(stack)
    BY <1>1
  <2> QED
    BY <1>1, <1>2, <2>1 DEF UnwindRun
<1>7. g[Len(stack)] \in Seq(LockOps)
  BY <1>1, <1>2 DEF UnwindRun
<1> QED
  BY <1>3, <1>5, <1>6, <1>7 DEF more

-----------------------------------------------------------------------------
(***************************************************************************)
(* The functions that may be run are among those that may be analysed, and *)
(* a run follows an analysis.                                              *)
(***************************************************************************)
LEMMA AnalyzableIsWellFormed ==
  ASSUME NEW p, Analyzable(p)
  PROVE  WellFormed(p)
<1>1. ASSUME NEW i, Sincere(i)
      PROVE  WellTyped(i)
  BY <1>1, MutexAssumption DEF Sincere, WellTyped, LockOps
<1> QED
  BY <1>1 DEF Analyzable, WellFormed

LEMMA AnalysisRuns == FSpec => Spec
<1>1. FInit => Init
  BY DEF FInit
<1>2. [FNext]_allVars => [Next]_vars
  BY DEF FNext, Analyze, Run, Finished, Next, allVars, vars
<1> QED
  BY <1>1, <1>2, PTL DEF FSpec, Spec

-----------------------------------------------------------------------------
(***************************************************************************)
(* A fact e of the analysis fits a run of p that holds the mutexes h and   *)
(* has deferred the calls d.                                               *)
(***************************************************************************)
PendingDefers(p, d, locks, unlocks) ==
  /\ locks \in SUBSET Locks
  /\ unlocks \in SUBSET Locks
  /\ d \in Seq(Seq(LockOps))
  /\ Net(UnwindOps(d), locks, unlocks)
  /\ \A b \in Blocks : \A n \in 1..Len(p.body[b]) :
       p.body[b][n].op = "defer" => p.body[b][n].unlocks \cap locks \subseteq unlocks

MustFits(e, h, unlocks) ==
  /\ unlocks \subseteq e.DeferredUnlocks
  /\ e.HeldLocks \subseteq h

MayFits(e, h, locks) ==
  /\ locks \subseteq e.DeferredLocks
  /\ h \subseteq e.MayHeldLocks

Fits(p, e, h, locks, unlocks) ==
  /\ e.DeferredLocks \subseteq locks
  /\ e.DeferredUnlocks \subseteq unlocks
  /\ UnlocksAgree(p) => MustFits(e, h, unlocks)
  /\ LocksAgree(p) /\ NamesDistinct => MayFits(e, h, locks)

Sound(p, e, h, d) ==
  \E locks, unlocks : PendingDefers(p, d, locks, unlocks) /\ Fits(p, e, h, locks, unlocks)

(***************************************************************************)
(* One instruction after the other: what it does to the run fits what it   *)
(* does to the fact.                                                       *)
(***************************************************************************)
LEMMA LockFits ==
  ASSUME NEW p, NEW e \in AnalysisStates, NEW h \in SUBSET Locks, NEW d, Sound(p, e, h, d),
         NEW i, Sincere(i), i.op \in {"lock", "unlock"},
         RunOps(<<i>>, h).status = "running"
  PROVE  Sound(p, Effect(i, e), RunOps(<<i>>, h).held, d)
<1>1. i \in LockOps /\ i.lock \in Locks
  BY MutexAssumption DEF Sincere, LockOps
<1>2. RunOps(<<i>>, h) = OpAfter(i, [held |-> h, status |-> "running"])
  BY <1>1, MutexAssumption, OneOperation
<1>3. PICK locks, unlocks :
        PendingDefers(p, d, locks, unlocks) /\ Fits(p, e, h, locks, unlocks)
  BY DEF Sound
<1>4. CASE i.op = "lock"
  <2>1. RunOps(<<i>>, h).held = h \cup {i.lock}
    BY <1>2, <1>4 DEF OpAfter
  <2>2. Effect(i, e) = [e EXCEPT !.HeldLocks = @ \cup {i.lock}, !.MayHeldLocks = @ \cup {i.lock}]
    BY <1>1, <1>4, NilAssumption DEF Effect, Acquire
  <2>3. Fits(p, Effect(i, e), h \cup {i.lock}, locks, unlocks)
    BY <1>3, <2>2 DEF Fits, MustFits, MayFits, AnalysisStates
  <2> QED
    BY <1>3, <2>1, <2>3 DEF Sound
<1>5. CASE i.op = "unlock"
  <2>1. RunOps(<<i>>, h).held = h \ {i.lock}
    BY <1>2, <1>5 DEF OpAfter
  <2>2. Effect(i, e) = [e EXCEPT !.HeldLocks = @ \ {i.lock}, !.MayHeldLocks = @ \ {i.lock}]
    BY <1>5 DEF Effect, Release
  <2>3. Fits(p, Effect(i, e), h \ {i.lock}, locks, unlocks)
    BY <1>3, <2>2 DEF Fits, MustFits, MayFits, AnalysisStates
  <2> QED
    BY <1>3, <2>1, <2>3 DEF Sound
<1> QED
  BY <1>4, <1>5

LEMMA CallFits ==
  ASSUME NEW p, NEW e \in AnalysisStates, NEW h \in SUBSET Locks, NEW d, Sound(p, e, h, d),
         NEW i, Sincere(i), i.op = "call",
         RunOps(i.callee.ops, h).status = "running"
  PROVE  Sound(p, Effect(i, e), RunOps(i.callee.ops, h).held, d)
<1> DEFINE c == i.callee
           gone == c.requires \cap c.released
           seen == {l \in c.requires \cap e.HeldLocks : isHeldLockEquivalent(c.released, l)}
<1>1. RunOps(c.ops, h).held = h \ gone
  BY MutexAssumption DEF Sincere, Net
<1>2. Effect(i, e) = [e EXCEPT !.HeldLocks = @ \ seen, !.MayHeldLocks = @ \ seen]
  BY DEF Effect, applyReleasedRequiresEffects, Release
<1>3. PICK locks, unlocks :
        PendingDefers(p, d, locks, unlocks) /\ Fits(p, e, h, locks, unlocks)
  BY DEF Sound
<1>4. gone \cap e.HeldLocks \subseteq seen
  BY DEF isHeldLockEquivalent
<1>5. NamesDistinct => seen \subseteq gone
  BY DEF isHeldLockEquivalent, NamesDistinct, Sincere, AnalysisStates
<1> HIDE DEF gone, seen
<1>6. Fits(p, Effect(i, e), h \ gone, locks, unlocks)
  BY <1>2, <1>3, <1>4, <1>5 DEF Fits, MustFits, MayFits, AnalysisStates
<1> QED
  BY <1>1, <1>3, <1>6 DEF Sound

(***************************************************************************)
(* Doing nothing has no effect.                                            *)
(***************************************************************************)
LEMMA NothingNet == Net(<<>>, {}, {})
<1>1. <<>> \in Seq(LockOps)
  OBVIOUS
<1> QED
  BY <1>1, NoOperation DEF Net

(***************************************************************************)
(* A deferred call runs before those deferred earlier.                     *)
(***************************************************************************)
LEMMA NetInOrder ==
  ASSUME NEW a, NEW la, NEW ua, Net(a, la, ua), la \subseteq Locks,
         NEW b, NEW lb, NEW ub, Net(b, lb, ub), ua \cap lb \subseteq ub
  PROVE  Net(a \o b, la \cup lb, ua \cup ub)
<1>1. a \in Seq(LockOps) /\ b \in Seq(LockOps) /\ a \o b \in Seq(LockOps)
  BY DEF Net
<1> SUFFICES ASSUME NEW ls \in SUBSET Mutexes, RunOps(a \o b, ls).status = "running"
             PROVE  RunOps(a \o b, ls).held = (ls \cup (la \cup lb)) \ (ua \cup ub)
  BY <1>1 DEF Net
<1>2. /\ RunOps(a, ls).status = "running"
      /\ RunOps(a \o b, ls) = RunOps(b, RunOps(a, ls).held)
  BY <1>1, OneAfterAnother
<1>3. RunOps(a, ls).held = (ls \cup la) \ ua
  BY <1>2 DEF Net
<1> DEFINE mid == (ls \cup la) \ ua
<1>4. mid \in SUBSET Mutexes
  BY MutexAssumption
<1>5. RunOps(b, mid).held = (mid \cup lb) \ ub
  <2> HIDE DEF mid
  <2> QED
    BY <1>2, <1>3, <1>4 DEF Net, mid
<1>6. (mid \cup lb) \ ub = (ls \cup (la \cup lb)) \ (ua \cup ub)
  OBVIOUS
<1> QED
  BY <1>2, <1>3, <1>5, <1>6

LEMMA DeferFits ==
  ASSUME NEW p, Analyzable(p), NEW e \in AnalysisStates, NEW h \in SUBSET Locks,
         NEW d, Sound(p, e, h, d),
         NEW b \in Blocks, NEW n \in 1..Len(p.body[b]), p.body[b][n].op = "defer"
  PROVE  Sound(p, Effect(p.body[b][n], e), h, Append(d, p.body[b][n].ops))
<1> DEFINE i == p.body[b][n]
<1>1. /\ Net(i.ops, i.locks, i.unlocks)
      /\ i.ops \in Seq(LockOps)
      /\ i.locks \subseteq Locks /\ i.unlocks \subseteq Locks
  BY DEF Analyzable, Sincere, Net
<1>2. PICK locks, unlocks :
        PendingDefers(p, d, locks, unlocks) /\ Fits(p, e, h, locks, unlocks)
  BY DEF Sound
<1>3. /\ d \in Seq(Seq(LockOps))
      /\ Net(UnwindOps(d), locks, unlocks)
      /\ locks \subseteq Locks /\ unlocks \subseteq Locks
      /\ i.unlocks \cap locks \subseteq unlocks
  BY <1>2 DEF PendingDefers
<1>4. \A c \in Blocks : \A m \in 1..Len(p.body[c]) :
        p.body[c][m].op = "defer" => p.body[c][m].unlocks \cap i.locks \subseteq i.unlocks
  BY DEF Analyzable, DefersCompatible
<1>5. Effect(i, e) = [e EXCEPT !.DeferredLocks = @ \cup i.locks, !.DeferredUnlocks = @ \cup i.unlocks]
  BY DEF Effect, registerDeferInstruction
<1> HIDE DEF i
<1>6. /\ Append(d, i.ops) \in Seq(Seq(LockOps))
      /\ UnwindOps(Append(d, i.ops)) = i.ops \o UnwindOps(d)
  <2> DEFINE Bodies == Seq(LockOps)
  <2>1. Append(d, i.ops) \in Seq(Bodies)
    <3>1. d \in Seq(Bodies) /\ i.ops \in Bodies
      BY <1>1, <1>3
    <3> HIDE DEF Bodies
    <3> QED
      BY <3>1
  <2>2. UnwindOps(Append(d, i.ops)) = i.ops \o UnwindOps(d)
    BY <1>1, <1>3, DeferredLast
  <2> QED
    BY <2>1, <2>2
<1>7. Net(UnwindOps(Append(d, i.ops)), i.locks \cup locks, i.unlocks \cup unlocks)
  <2> DEFINE ops == i.ops
             il == i.locks
             iu == i.unlocks
             rest == UnwindOps(d)
  <2>1. Net(ops, il, iu) /\ il \subseteq Locks /\ Net(rest, locks, unlocks) /\ iu \cap locks \subseteq unlocks
    BY <1>1, <1>3
  <2>2. Net(ops \o rest, il \cup locks, iu \cup unlocks)
    <3> HIDE DEF ops, il, iu, rest
    <3> QED
      BY <2>1, NetInOrder
  <2> QED
    BY <1>6, <2>2
<1>8. PendingDefers(p, Append(d, i.ops), i.locks \cup locks, i.unlocks \cup unlocks)
  <2>1. \A c \in Blocks : \A m \in 1..Len(p.body[c]) :
          p.body[c][m].op = "defer" =>
            p.body[c][m].unlocks \cap (i.locks \cup locks) \subseteq i.unlocks \cup unlocks
    BY <1>2, <1>4 DEF PendingDefers
  <2> QED
    BY <1>1, <1>3, <1>6, <1>7, <2>1 DEF PendingDefers
<1>9. Fits(p, Effect(i, e), h, i.locks \cup locks, i.unlocks \cup unlocks)
  BY <1>2, <1>5 DEF Fits, MustFits, MayFits, AnalysisStates
<1> QED
  BY <1>8, <1>9 DEF Sound, i

(***************************************************************************)
(* With no deferred call pending only the held locks matter; running the   *)
(* pending ones is what applyDeferredEffects says.                         *)
(***************************************************************************)
LEMMA EmptyStackFits ==
  ASSUME NEW p, NEW e \in AnalysisStates, NEW h \in SUBSET Locks,
         e.DeferredLocks = {}, e.DeferredUnlocks = {},
         UnlocksAgree(p) => e.HeldLocks \subseteq h,
         LocksAgree(p) /\ NamesDistinct => h \subseteq e.MayHeldLocks
  PROVE  Sound(p, e, h, <<>>)
<1>1. PendingDefers(p, <<>>, {}, {})
  <2>1. <<>> \in Seq(Seq(LockOps))
    OBVIOUS
  <2>2. Net(UnwindOps(<<>>), {}, {})
    BY NothingDeferred, NothingNet
  <2> QED
    BY <2>1, <2>2 DEF PendingDefers
<1>2. Fits(p, e, h, {}, {})
  BY DEF Fits, MustFits, MayFits
<1> QED
  BY <1>1, <1>2 DEF Sound

LEMMA RunDefersFits ==
  ASSUME NEW p, NEW e \in AnalysisStates, NEW h \in SUBSET Locks, NEW d, Sound(p, e, h, d),
         NEW i, i.op = "rundefers", RunOps(UnwindOps(d), h).status = "running"
  PROVE  /\ Sound(p, Effect(i, e), RunOps(UnwindOps(d), h).held, <<>>)
         /\ RunOps(UnwindOps(d), h).held \in SUBSET Locks
<1>1. PICK locks, unlocks :
        PendingDefers(p, d, locks, unlocks) /\ Fits(p, e, h, locks, unlocks)
  BY DEF Sound
<1>2. RunOps(UnwindOps(d), h).held = (h \cup locks) \ unlocks
  BY <1>1, MutexAssumption DEF PendingDefers, Net
<1> DEFINE after == Effect(i, e)
           kept == (h \cup locks) \ unlocks
<1>3. after = [HeldLocks       |-> (e.HeldLocks \cup e.DeferredLocks) \ e.DeferredUnlocks,
               MayHeldLocks    |-> (e.MayHeldLocks \cup e.DeferredLocks) \ e.DeferredUnlocks,
               DeferredLocks   |-> {},
               DeferredUnlocks |-> {}]
  BY DEF Effect, applyDeferredEffects
<1>4. kept \in SUBSET Locks
  BY <1>1 DEF PendingDefers
<1>5. /\ after \in AnalysisStates
      /\ after.DeferredLocks = {} /\ after.DeferredUnlocks = {}
  BY <1>3 DEF AnalysisStates
<1>6. UnlocksAgree(p) => after.HeldLocks \subseteq kept
  BY <1>1, <1>3 DEF Fits, MustFits
<1>7. LocksAgree(p) /\ NamesDistinct => kept \subseteq after.MayHeldLocks
  BY <1>1, <1>3 DEF Fits, MayFits
<1> HIDE DEF after, kept
<1>8. Sound(p, after, kept, <<>>)
  BY <1>4, <1>5, <1>6, <1>7, EmptyStackFits
<1> QED
  BY <1>2, <1>4, <1>8 DEF after, kept

-----------------------------------------------------------------------------
(***************************************************************************)
(* The invariant of a run.  Until the analysis is over the run is at its   *)
(* start; from then on the facts at its position fit it.                   *)
(***************************************************************************)
Positioned ==
  /\ at \in Seen
  /\ pc \in 1..(Len(prog.body[at]) + 1)
  /\ held \in SUBSET Locks
  /\ status = "blocked" => pc \in 1..Len(prog.body[at])

RunFits == status = "running" => Sound(prog, Here, held, deferred)

BlockedOnMayHeld ==
  status = "blocked" /\ ThisInstr.op = "lock" /\ LocksAgree(prog) /\ NamesDistinct
    => ThisInstr.lock \in Here.MayHeldLocks

RunInv == Positioned /\ RunFits /\ BlockedOnMayHeld

ExecutionInv ==
  /\ ~Done => ExecInit(prog)
  /\ Done => RunInv

(***************************************************************************)
(* The fact at the run's position has the type of an analysis state, and   *)
(* at the start it fits the run.                                           *)
(***************************************************************************)
LEMMA HereType ==
  ASSUME Analysed, Analyzable(prog), Positioned
  PROVE  /\ at \in Blocks
         /\ blockEntryStates[at] \in AnalysisStates
         /\ Len(prog.body[at]) \in Nat
         /\ pc - 1 \in 0..Len(prog.body[at])
         /\ Here \in AnalysisStates
<1>1. /\ at \in Blocks
      /\ blockEntryStates[at] \in AnalysisStates
      /\ Len(prog.body[at]) \in Nat
  BY DEF Analysed, TypeInv, TypeOK, Positioned, Analyzable
<1>2. pc - 1 \in 0..Len(prog.body[at])
  BY <1>1 DEF Positioned
<1>3. StateAt(prog, at, blockEntryStates[at]) \in [0..Len(prog.body[at]) -> AnalysisStates]
  BY <1>1, StateAtSteps, AnalyzableIsWellFormed
<1> QED
  BY <1>1, <1>2, <1>3 DEF Here

LEMMA StartFits ==
  ASSUME Analysed, Analyzable(prog), ExecInit(prog)
  PROVE  RunInv
<1>1. /\ at = prog.entry
      /\ pc = 1
      /\ held = prog.requires \cap Locks
      /\ deferred = <<>>
      /\ status = "running"
  BY MutexAssumption DEF ExecInit
<1>2. /\ at \in Seen /\ at \in Blocks
      /\ blockEntryStates[at] \in AnalysisStates
      /\ Len(prog.body[at]) \in Nat
      /\ Weaker(blockEntryStates[at], newAnalysisState(createInitialLockset(prog)))
  BY <1>1 DEF Analysed, StartCovered, TypeInv, TypeOK, Analyzable
<1>3. Here = blockEntryStates[at]
  BY <1>1, <1>2, StateAtSteps, AnalyzableIsWellFormed DEF Here
<1>4. /\ Here \in AnalysisStates
      /\ Here.HeldLocks \subseteq held
      /\ held \subseteq Here.MayHeldLocks
      /\ Here.DeferredLocks = {}
      /\ Here.DeferredUnlocks = {}
  BY <1>1, <1>2, <1>3 DEF Weaker, newAnalysisState, createInitialLockset
<1>5. held \in SUBSET Locks
  BY <1>1
<1>6. Sound(prog, Here, held, deferred)
  BY <1>1, <1>4, <1>5, EmptyStackFits
<1> QED
  BY <1>1, <1>2, <1>5, <1>6 DEF RunInv, Positioned, RunFits, BlockedOnMayHeld

(***************************************************************************)
(* A step over one instruction.                                            *)
(***************************************************************************)
LEMMA InstructionSteps ==
  ASSUME Analysed, Analyzable(prog), Positioned, Running(prog), UNCHANGED vars,
         NEW ops, Perform(ops), held' \in SUBSET Locks,
         status' = "running" => Sound(prog, Effect(ThisInstr, Here), held', deferred'),
         status' = "blocked" => BlockedOnMayHeld'
  PROVE  RunInv'
<1>1. /\ at' = at
      /\ prog' = prog
      /\ blockEntryStates' = blockEntryStates
      /\ Seen' = Seen
      /\ pc' = IF status' = "running" THEN pc + 1 ELSE pc
      /\ pc \in 1..Len(prog.body[at])
  BY DEF Perform, vars, Seen, Running
<1>2. /\ at \in Blocks
      /\ blockEntryStates[at] \in AnalysisStates
      /\ Len(prog.body[at]) \in Nat
  BY HereType
<1>3. Positioned'
  BY <1>1, <1>2 DEF Positioned
<1>4. RunFits'
  <2> SUFFICES ASSUME status' = "running"
               PROVE  Sound(prog, Here', held', deferred')
    BY <1>1 DEF RunFits
  <2> DEFINE g == StateAt(prog, at, blockEntryStates[at])
  <2>1. g[pc] = Effect(ThisInstr, g[pc - 1])
    BY <1>1, <1>2, StateAtSteps, AnalyzableIsWellFormed DEF ThisInstr
  <2>2. pc' - 1 = pc
    BY <1>1, <1>2
  <2>3. Here' = g[pc]
    BY <1>1, <2>2 DEF Here
  <2>4. Here = g[pc - 1]
    BY DEF Here
  <2> HIDE DEF g
  <2> QED
    BY <2>1, <2>3, <2>4
<1>5. BlockedOnMayHeld'
  <2>1. CASE status' = "blocked"
    BY <2>1
  <2>2. CASE status' # "blocked"
    BY <2>2 DEF BlockedOnMayHeld
  <2> QED
    BY <2>1, <2>2
<1> QED
  BY <1>3, <1>4, <1>5 DEF RunInv

(***************************************************************************)
(* Only a lock statement blocks where BlockedOnMayHeld looks.              *)
(***************************************************************************)
LEMMA OtherBlocks ==
  ASSUME UNCHANGED vars, Running(prog), NEW ops, Perform(ops), ThisInstr.op # "lock"
  PROVE  status' = "blocked" => BlockedOnMayHeld'
<1> SUFFICES ASSUME status' = "blocked"
             PROVE  BlockedOnMayHeld'
  OBVIOUS
<1>1. ThisInstr' = ThisInstr
  BY DEF Perform, vars, ThisInstr
<1> QED
  BY <1>1 DEF BlockedOnMayHeld

LEMMA ThisInstrSincere ==
  ASSUME Analysed, Analyzable(prog), Positioned, Running(prog)
  PROVE  Sincere(ThisInstr) /\ at \in Blocks /\ pc \in 1..Len(prog.body[at])
BY HereType DEF Analyzable, ThisInstr, Running

(***************************************************************************)
(* The actions of the run keep the invariant.                              *)
(***************************************************************************)
LEMMA LockOrUnlockKeeps ==
  ASSUME Analysed, Analyzable(prog), RunInv, UNCHANGED vars, LockOrUnlock(prog)
  PROVE  RunInv'
<1> DEFINE i == ThisInstr
<1>1. /\ Positioned /\ Running(prog) /\ status = "running"
      /\ i.op \in {"lock", "unlock"}
      /\ Perform(<<i>>)
      /\ deferred' = deferred
      /\ held \in SUBSET Locks
  BY DEF RunInv, Positioned, LockOrUnlock, Running, ThisInstr
<1>2. Sincere(i) /\ Here \in AnalysisStates /\ Sound(prog, Here, held, deferred)
  BY <1>1, ThisInstrSincere, HereType DEF RunInv, RunFits
<1>3. i \in LockOps /\ i.lock \in Locks
  BY <1>1, <1>2, MutexAssumption DEF Sincere, LockOps
<1>4. /\ RunOps(<<i>>, held) = OpAfter(i, [held |-> held, status |-> "running"])
      /\ held' = RunOps(<<i>>, held).held
      /\ status' = RunOps(<<i>>, held).status
      /\ held' \in SUBSET Locks
  <2>1. RunOps(<<i>>, held) = OpAfter(i, [held |-> held, status |-> "running"])
    BY <1>1, <1>3, MutexAssumption, OneOperation
  <2>2. OpAfter(i, [held |-> held, status |-> "running"]) \in RunStates
    BY <1>1, <1>3, MutexAssumption, OpAfterType DEF RunStates
  <2> QED
    BY <1>1, <2>1, <2>2, MutexAssumption DEF Perform, RunStates
<1>5. status' = "running" => Sound(prog, Effect(i, Here), held', deferred')
  <2> HIDE DEF i
  <2> QED
    BY <1>1, <1>2, <1>4, LockFits
<1>6. ASSUME status' = "blocked"
      PROVE  BlockedOnMayHeld'
  <2>1. i.op = "lock" /\ i.lock \in held
    BY <1>1, <1>3, <1>4, <1>6 DEF OpAfter
  <2>2. LocksAgree(prog) /\ NamesDistinct => held \subseteq Here.MayHeldLocks
    BY <1>2 DEF Sound, Fits, MayFits
  <2>3. prog' = prog /\ at' = at /\ pc' = pc /\ blockEntryStates' = blockEntryStates
    BY <1>1, <1>6 DEF Perform, vars
  <2>4. Here' = Here /\ ThisInstr' = ThisInstr
    BY <2>3 DEF Here, ThisInstr
  <2> QED
    BY <2>1, <2>2, <2>3, <2>4 DEF BlockedOnMayHeld
<1> QED
  BY <1>1, <1>4, <1>5, <1>6, InstructionSteps

LEMMA CallKeeps ==
  ASSUME Analysed, Analyzable(prog), RunInv, UNCHANGED vars, Call(prog)
  PROVE  RunInv'
<1> DEFINE i == ThisInstr
           ops == i.callee.ops
<1>1. /\ Positioned /\ Running(prog) /\ status = "running"
      /\ i.op = "call"
      /\ Perform(ops)
      /\ deferred' = deferred
      /\ held \in SUBSET Locks
  BY DEF RunInv, Positioned, Call, Running, ThisInstr
<1>2. Sincere(i) /\ Here \in AnalysisStates /\ Sound(prog, Here, held, deferred)
  BY <1>1, ThisInstrSincere, HereType DEF RunInv, RunFits
<1>3. ops \in Seq(LockOps)
  BY <1>1, <1>2 DEF Sincere, Net
<1>4. /\ held' = RunOps(ops, held).held
      /\ status' = RunOps(ops, held).status
      /\ held' \in SUBSET Locks
  BY <1>1, <1>3, MutexAssumption, RunOpsType DEF Perform, RunStates
<1>5. status' = "running" => Sound(prog, Effect(i, Here), held', deferred')
  <2> HIDE DEF i
  <2> QED
    BY <1>1, <1>2, <1>4, CallFits
<1>6. status' = "blocked" => BlockedOnMayHeld'
  BY <1>1, OtherBlocks
<1> QED
  BY <1>1, <1>4, <1>5, <1>6, InstructionSteps

LEMMA NeutralKeeps ==
  ASSUME Analysed, Analyzable(prog), RunInv, UNCHANGED vars, Running(prog),
         ThisInstr.op \in {"dyncall", "access", "nop"},
         NEW ops, Net(ops, {}, {}), Perform(ops), UNCHANGED deferred
  PROVE  RunInv'
<1>1. Positioned /\ status = "running" /\ held \in SUBSET Locks
  BY DEF RunInv, Positioned, Running
<1>2. Here \in AnalysisStates /\ Sound(prog, Here, held, deferred)
  BY <1>1, HereType DEF RunInv, RunFits
<1>3. /\ held' = RunOps(ops, held).held
      /\ status' = RunOps(ops, held).status
      /\ held' \in SUBSET Locks
  BY <1>1, MutexAssumption, RunOpsType DEF Perform, RunStates, Net
<1>4. status' = "running" => Sound(prog, Effect(ThisInstr, Here), held', deferred')
  <2>1. Effect(ThisInstr, Here) = Here
    BY DEF Effect
  <2>2. status' = "running" => held' = held
    BY <1>1, <1>3, MutexAssumption DEF Net
  <2> QED
    BY <1>2, <2>1, <2>2
<1>5. status' = "blocked" => BlockedOnMayHeld'
  BY OtherBlocks
<1> QED
  BY <1>1, <1>3, <1>4, <1>5, InstructionSteps

LEMMA DynamicCallKeeps ==
  ASSUME Analysed, Analyzable(prog), RunInv, UNCHANGED vars, DynamicCall(prog)
  PROVE  RunInv'
<1>1. Running(prog) /\ ThisInstr.op = "dyncall" /\ deferred' = deferred /\ Positioned
  BY DEF DynamicCall, ThisInstr, RunInv
<1>2. PICK ops \in {c.ops : c \in ThisInstr.targets} \cup {<<>>} : Perform(ops)
  BY DEF DynamicCall, ThisInstr
<1>3. Net(ops, {}, {})
  <2>1. Sincere(ThisInstr)
    BY <1>1, ThisInstrSincere
  <2> QED
    BY <1>1, <1>2, <2>1, NothingNet DEF Sincere
<1> QED
  BY <1>1, <1>2, <1>3, NeutralKeeps

LEMMA OtherInstructionKeeps ==
  ASSUME Analysed, Analyzable(prog), RunInv, UNCHANGED vars, OtherInstruction(prog)
  PROVE  RunInv'
<1>1. /\ Running(prog) /\ ThisInstr.op \in {"access", "nop"}
      /\ Perform(<<>>) /\ deferred' = deferred
  BY DEF OtherInstruction, ThisInstr
<1> QED
  BY <1>1, NothingNet, NeutralKeeps

LEMMA DeferKeeps ==
  ASSUME Analysed, Analyzable(prog), RunInv, UNCHANGED vars, Defer(prog)
  PROVE  RunInv'
<1>1. /\ Positioned /\ Running(prog) /\ status = "running"
      /\ ThisInstr.op = "defer"
      /\ Perform(<<>>)
      /\ deferred' = Append(deferred, ThisInstr.ops)
      /\ held \in SUBSET Locks
  BY DEF RunInv, Positioned, Defer, Running, ThisInstr
<1>2. /\ at \in Blocks
      /\ pc \in 1..Len(prog.body[at])
      /\ Here \in AnalysisStates
      /\ Sound(prog, Here, held, deferred)
  BY <1>1, ThisInstrSincere, HereType DEF RunInv, RunFits
<1>3. held' = held /\ status' = "running"
  BY <1>1, MutexAssumption, NoOperation DEF Perform
<1>4. Sound(prog, Effect(ThisInstr, Here), held', deferred')
  BY <1>1, <1>2, <1>3, DeferFits DEF ThisInstr
<1> QED
  BY <1>1, <1>3, <1>4, InstructionSteps

LEMMA RunDefersKeeps ==
  ASSUME Analysed, Analyzable(prog), RunInv, UNCHANGED vars, RunDefers(prog)
  PROVE  RunInv'
<1> DEFINE ops == UnwindOps(deferred)
<1>1. /\ Positioned /\ Running(prog) /\ status = "running"
      /\ ThisInstr.op = "rundefers"
      /\ Perform(ops)
      /\ deferred' = <<>>
      /\ held \in SUBSET Locks
  BY DEF RunInv, Positioned, RunDefers, Running, ThisInstr
<1>2. Here \in AnalysisStates /\ Sound(prog, Here, held, deferred)
  BY <1>1, HereType DEF RunInv, RunFits
<1>3. ops \in Seq(LockOps)
  BY <1>2 DEF Sound, PendingDefers, Net
<1>4. /\ held' = RunOps(ops, held).held
      /\ status' = RunOps(ops, held).status
      /\ held' \in SUBSET Locks
  BY <1>1, <1>3, MutexAssumption, RunOpsType DEF Perform, RunStates
<1>5. status' = "running" => Sound(prog, Effect(ThisInstr, Here), held', deferred')
  BY <1>1, <1>2, <1>4, RunDefersFits
<1>6. status' = "blocked" => BlockedOnMayHeld'
  BY <1>1, OtherBlocks
<1> QED
  BY <1>1, <1>4, <1>5, <1>6, InstructionSteps

LEMMA ReturnKeeps ==
  ASSUME RunInv, UNCHANGED vars, Return(prog)
  PROVE  RunInv'
<1>1. /\ status' = "returned" /\ at' = at /\ pc' = pc /\ held' = held
      /\ prog' = prog /\ Seen' = Seen
  BY DEF Return, vars, Seen
<1> QED
  BY <1>1 DEF RunInv, Positioned, RunFits, BlockedOnMayHeld

(***************************************************************************)
(* Taking an edge: the entry state of the successor accounts for the state *)
(* at the end of the block, and the same defers are pending.               *)
(***************************************************************************)
LEMMA BranchKeeps ==
  ASSUME Done, Analysed, Analyzable(prog), RunInv, UNCHANGED vars, Branch(prog)
  PROVE  RunInv'
<1>1. /\ status = "running" /\ status' = "running"
      /\ pc = Len(prog.body[at]) + 1
      /\ pc' = 1 /\ held' = held /\ deferred' = deferred
      /\ prog' = prog /\ blockEntryStates' = blockEntryStates /\ Seen' = Seen
      /\ Positioned /\ held \in SUBSET Locks
  BY DEF Branch, vars, Seen, RunInv, Positioned
<1>2. PICK n \in 1..Len(prog.succs[at]) : at' = prog.succs[at][n]
  BY DEF Branch
<1> DEFINE a == at
           b == prog.succs[at][n]
           N == Len(prog.body[a])
           end == BlockTransfer(prog, a, blockEntryStates[a])
           next == blockEntryStates[b]
<1>3. /\ a \in Blocks /\ a \in Seen /\ prog \in Programs
      /\ blockEntryStates[a] \in AnalysisStates
      /\ N \in Nat
      /\ b \in Blocks
      /\ Len(prog.body[b]) \in Nat
  <2>1. prog.succs \in [Blocks -> Seq(Blocks)] /\ prog \in Programs /\ a \in Seen
    BY <1>1 DEF Analysed, TypeInv, TypeOK, Positioned
  <2> QED
    BY <1>1, <1>2, <2>1, HereType DEF Analyzable
<1>4. Here = end /\ Here \in AnalysisStates
  BY <1>1, <1>3, HereType DEF Here, BlockTransfer
<1>5. /\ b \in Seen
      /\ next \in AnalysisStates
      /\ Weaker(next, end)
  <2>1. IsSuccessor(b, a)
    BY <1>2 DEF IsSuccessor
  <2>2. Absorbed(a, b)
    BY <1>3, <2>1 DEF Analysed, FixpointReached, Propagated
  <2>3. b \in Seen /\ Weaker(next, Transfer(prog, a, blockEntryStates[a]))
    BY <2>2 DEF Absorbed
  <2>4. Transfer(prog, a, blockEntryStates[a]) = end
    BY <1>3, BlockAssumption
  <2> QED
    BY <2>3, <2>4 DEF Analysed, TypeInv, TypeOK
<1>6. UnlocksAgree(prog) => next.DeferredUnlocks = end.DeferredUnlocks
  <2> SUFFICES ASSUME NEW pend, PendingUnlocks(prog, pend)
               PROVE  next.DeferredUnlocks = end.DeferredUnlocks
    BY DEF UnlocksAgree
  <2>1. blockEntryStates[a].DeferredUnlocks = pend[a] /\ next.DeferredUnlocks = pend[b]
    BY <1>3, <1>5 DEF Analysed, UnlocksWithin
  <2> QED
    BY <1>2, <1>3, <2>1 DEF PendingUnlocks
<1>7. LocksAgree(prog) => next.DeferredLocks = end.DeferredLocks
  <2> SUFFICES ASSUME NEW pend, PendingLocks(prog, pend)
               PROVE  next.DeferredLocks = end.DeferredLocks
    BY DEF LocksAgree
  <2>1. blockEntryStates[a].DeferredLocks = pend[a] /\ next.DeferredLocks = pend[b]
    BY <1>3, <1>5 DEF Analysed, LocksWithin
  <2> QED
    BY <1>2, <1>3, <2>1 DEF PendingLocks
<1>8. Here' = next
  <2>1. StateAt(prog, b, next)[0] = next
    BY <1>3, <1>5, StateAtSteps, AnalyzableIsWellFormed
  <2> QED
    BY <1>1, <1>2, <2>1 DEF Here
<1>9. Sound(prog, next, held, deferred)
  <2>1. Sound(prog, end, held, deferred)
    BY <1>1, <1>4 DEF RunInv, RunFits
  <2> HIDE DEF next, end
  <2>2. PICK locks, unlocks : /\ PendingDefers(prog, deferred, locks, unlocks)
                              /\ Fits(prog, end, held, locks, unlocks)
    BY <2>1 DEF Sound
  <2>3. Fits(prog, next, held, locks, unlocks)
    BY <1>5, <1>6, <1>7, <2>2 DEF Fits, MustFits, MayFits, Weaker
  <2> QED
    BY <2>2, <2>3 DEF Sound
<1>10. Positioned'
  <2>1. at' = b /\ b \in Seen' /\ Len(prog'.body[b]) \in Nat /\ pc' = 1 /\ held' \in SUBSET Locks
    BY <1>1, <1>2, <1>3, <1>5
  <2>2. status' # "blocked"
    BY <1>1
  <2> HIDE DEF a, b
  <2>3. pc' \in 1..(Len(prog'.body[b]) + 1)
    BY <2>1
  <2> QED
    BY <2>1, <2>2, <2>3 DEF Positioned
<1>11. Sound(prog, Here', held', deferred')
  <2> HIDE DEF next
  <2> QED
    BY <1>1, <1>8, <1>9
<1>12. RunFits'
  <2> SUFFICES ASSUME status' = "running"
               PROVE  Sound(prog, Here', held', deferred')
    BY <1>1 DEF RunFits
  <2> QED
    BY <1>11
<1>13. BlockedOnMayHeld'
  BY <1>1 DEF BlockedOnMayHeld
<1> QED
  BY <1>10, <1>12, <1>13 DEF RunInv

LEMMA RunKeeps ==
  ASSUME Done, Analysed, Analyzable(prog), RunInv, UNCHANGED vars, Execute(prog)
  PROVE  RunInv'
BY LockOrUnlockKeeps, CallKeeps, DynamicCallKeeps, DeferKeeps, RunDefersKeeps,
   OtherInstructionKeeps, ReturnKeeps, BranchKeeps DEF Execute

LEMMA StepIsNotDone == Step => ~Done
BY DEF Step, PopBlock, FirstVisit, MergeChanges, MergeKeeps, NextSuccessor, Done, Empty

(***************************************************************************)
(* Every step of the analysis and of the run.                              *)
(***************************************************************************)
LEMMA ExecutionStep ==
  ASSUME Analysed, Analyzable(prog), Analysed', ExecutionInv, [FNext]_allVars
  PROVE  ExecutionInv'
<1>1. CASE Analyze
  <2>1. ~Done /\ prog' = prog
    BY <1>1, StepIsNotDone
    DEF Analyze, Step, PopBlock, FirstVisit, MergeChanges, MergeKeeps, NextSuccessor
  <2>2. ExecInit(prog)'
    BY <1>1, <2>1 DEF ExecutionInv, ExecInit, Analyze, execVars
  <2>3. Analyzable(prog)'
    BY <2>1
  <2>4. RunInv'
    BY <2>2, <2>3, StartFits, PTL
  <2> QED
    BY <2>2, <2>4 DEF ExecutionInv
<1>2. CASE Run
  <2>1. Done /\ RunInv /\ UNCHANGED vars /\ Execute(prog)
    BY <1>2 DEF Run, ExecutionInv
  <2>2. Done'
    BY <2>1 DEF Done, Empty, vars
  <2> QED
    BY <2>1, <2>2, RunKeeps DEF ExecutionInv
<1>3. CASE Finished \/ UNCHANGED allVars
  <2>1. UNCHANGED <<prog, worklist, blockEntryStates, pending, at, pc, held, deferred, status>>
    BY <1>3 DEF Finished, allVars, vars, execVars
  <2>2. /\ Done' = Done /\ Seen' = Seen /\ Here' = Here /\ ThisInstr' = ThisInstr
    BY <2>1 DEF Done, Empty, Seen, Here, ThisInstr
  <2> QED
    BY <2>1, <2>2
    DEF ExecutionInv, ExecInit, RunInv, Positioned, RunFits, BlockedOnMayHeld
<1> QED
  BY <1>1, <1>2, <1>3 DEF FNext

LEMMA AlwaysExecutionInv ==
  ASSUME \A p \in Programs : Analyzable(p)
  PROVE  FSpec => [](Analysed /\ Analyzable(prog) /\ ExecutionInv)
<1>1. FInit => ExecutionInv
  BY DEF FInit, Init, ExecutionInv, Done, Empty, newBlockWorklist
<1>2. Analysed => Analyzable(prog)
  BY DEF Analysed, TypeInv
<1>3. Analysed /\ Analysed' /\ ExecutionInv /\ [FNext]_allVars => ExecutionInv'
  BY <1>2, ExecutionStep
<1> QED
  BY <1>1, <1>2, <1>3, AnalysisRuns, AlwaysAnalysed, PTL DEF FSpec

LEMMA AtInstructionFits ==
  ASSUME Analysed, Analyzable(prog), ExecutionInv, AtInstruction
  PROVE  /\ Here \in AnalysisStates
         /\ UnlocksAgree(prog) => Here.HeldLocks \subseteq held
         /\ LocksAgree(prog) /\ NamesDistinct => held \subseteq Here.MayHeldLocks
<1>1. RunInv /\ status = "running"
  BY DEF AtInstruction, ExecutionInv, Running
<1>2. Here \in AnalysisStates /\ Sound(prog, Here, held, deferred)
  BY <1>1, HereType DEF RunInv, RunFits
<1> QED
  BY <1>2 DEF Sound, Fits, MustFits, MayFits

(***************************************************************************)
(* What the instruction at the run's position raises in its state has been *)
(* recorded.                                                               *)
(***************************************************************************)
LEMMA ReportedHere ==
  ASSUME Done, Analysed, Analyzable(prog), RunInv, pc \in 1..Len(prog.body[at])
  PROVE  Reports(prog, <<at, pc>>, ThisInstr, Here) \subseteq reports
<1>1. at \in Blocks /\ at \in Seen /\ blockEntryStates[at] \in AnalysisStates
  BY HereType DEF RunInv, Positioned
<1>2. Emit(prog, at, blockEntryStates[at]) \subseteq reports
  BY <1>1 DEF Analysed, FinalStatesReported
<1>3. Emit(prog, at, blockEntryStates[at]) = BlockEmit(prog, at, blockEntryStates[at])
  BY <1>1, BlockAssumption DEF Analysed, TypeInv
<1>4. Reports(prog, <<at, pc>>, ThisInstr, Here) \subseteq BlockEmit(prog, at, blockEntryStates[at])
  BY DEF BlockEmit, ThisInstr, Here
<1> QED
  BY <1>2, <1>3, <1>4

-----------------------------------------------------------------------------
(***************************************************************************)
(* HeldLocks is a must fact (state.go: "HeldLocks remains must-hold"):     *)
(* wherever a run is, it holds every lock the analysis says is held there, *)
(* if the same unlocks are deferred on every path.  Lock names play no     *)
(* part, so it holds for locks that share a name, too.                     *)
(***************************************************************************)
THEOREM MustFactsSound ==
  ASSUME \A p \in Programs : Analyzable(p) /\ UnlocksAgree(p)
  PROVE  FSpec => []HeldLocksMustHold
<1>1. Analysed /\ Analyzable(prog) /\ ExecutionInv => HeldLocksMustHold
  <2> SUFFICES ASSUME Analysed, Analyzable(prog), ExecutionInv, AtInstruction
               PROVE  Here.HeldLocks \subseteq held
    BY DEF HeldLocksMustHold
  <2>1. UnlocksAgree(prog)
    BY DEF Analysed, TypeInv
  <2> QED
    BY <2>1, AtInstructionFits
<1>2. FSpec => [](Analysed /\ Analyzable(prog) /\ ExecutionInv)
  BY AlwaysExecutionInv
<1> QED
  BY <1>1, <1>2, PTL

(***************************************************************************)
(* MayHeldLocks covers whatever a run holds, even where an unlock is       *)
(* deferred on some paths only; a deferred lock has to be on all of them.  *)
(***************************************************************************)
THEOREM MayFactsSound ==
  ASSUME \A p \in Programs : Analyzable(p) /\ LocksAgree(p), NamesDistinct
  PROVE  FSpec => []MayHeldLocksCover
<1>1. Analysed /\ Analyzable(prog) /\ ExecutionInv => MayHeldLocksCover
  <2> SUFFICES ASSUME Analysed, Analyzable(prog), ExecutionInv, AtInstruction
               PROVE  held \subseteq Here.MayHeldLocks
    BY DEF MayHeldLocksCover
  <2>1. LocksAgree(prog)
    BY DEF Analysed, TypeInv
  <2> QED
    BY <2>1, AtInstructionFits
<1>2. FSpec => [](Analysed /\ Analyzable(prog) /\ ExecutionInv)
  BY AlwaysExecutionInv
<1> QED
  BY <1>1, <1>2, PTL

(***************************************************************************)
(* A run that touches guarded data, calls or returns without a lock that   *)
(* @guarded_by, @requires or @returns asks for was reported at that        *)
(* instruction (guard_checks.go, instruction_analysis.go).                 *)
(***************************************************************************)
THEOREM MissingLocksReported ==
  ASSUME \A p \in Programs : Analyzable(p) /\ UnlocksAgree(p), NamesDistinct
  PROVE  FSpec => []LockNeededReported
<1>1. Analysed /\ Analyzable(prog) /\ ExecutionInv => LockNeededReported
  <2> SUFFICES ASSUME Analysed, Analyzable(prog), ExecutionInv, AtInstruction
               PROVE  /\ ThisInstr.op = "access" /\ ThisInstr.guard \in Locks \ held
                           => Reported("GuardViolation", {NameOf[ThisInstr.guard]})
                      /\ ThisInstr.op = "call"
                           => \A l \in (ThisInstr.callee.requires \cap Locks) \ held :
                                Reported("MissingLock", {NameOf[l]})
                      /\ ThisInstr.op = "return"
                           => \A l \in (prog.returns \cap Locks) \ held :
                                Reported("ReturnMissing", {NameOf[l]})
    BY DEF LockNeededReported
  <2> DEFINE here == <<at, pc>>
  <2>1. Here \in AnalysisStates /\ Here.HeldLocks \subseteq held
    BY AtInstructionFits DEF Analysed, TypeInv
  <2>2. Reports(prog, here, ThisInstr, Here) \subseteq reports
    BY ReportedHere DEF AtInstruction, Running, ExecutionInv
  <2>3. ASSUME NEW kind, NEW about, NEW l,
               Diagnostic(kind, here, about, {NameOf[l]}) \in reports
        PROVE  Reported(kind, {NameOf[l]})
    BY <2>3 DEF Reported, Diagnostic
  <2>4. ASSUME ThisInstr.op = "access", ThisInstr.guard \in Locks \ held
        PROVE  Reported("GuardViolation", {NameOf[ThisInstr.guard]})
    <3>1. Reports(prog, here, ThisInstr, Here) = checkGuardedByAccess(here, ThisInstr.guard, Here)
      BY <2>4 DEF Reports
    <3>2. ThisInstr.guard # Nil /\ ThisInstr.guard \notin Here.HeldLocks
      BY <2>1, <2>4, NilAssumption
    <3>3. Diagnostic("GuardViolation", here, "", {NameOf[ThisInstr.guard]}) \in reports
      BY <2>2, <3>1, <3>2 DEF checkGuardedByAccess
    <3> QED
      BY <2>3, <3>3
  <2>5. ASSUME ThisInstr.op = "call", NEW l \in (ThisInstr.callee.requires \cap Locks) \ held
        PROVE  Reported("MissingLock", {NameOf[l]})
    <3> DEFINE c == ThisInstr.callee
    <3>1. Reports(prog, here, ThisInstr, Here) = StaticCallReports(here, c, Here)
      BY <2>5 DEF Reports
    <3>2. checkRequiresExpectation(here, c, Here) \subseteq StaticCallReports(here, c, Here)
      BY DEF StaticCallReports
    <3>3. Diagnostic("MissingLock", here, c.name, {NameOf[l]})
            \in checkRequiresExpectation(here, c, Here)
      BY <2>1, <2>5 DEF checkRequiresExpectation
    <3> QED
      BY <2>2, <2>3, <3>1, <3>2, <3>3
  <2>6. ASSUME ThisInstr.op = "return", NEW l \in (prog.returns \cap Locks) \ held
        PROVE  Reported("ReturnMissing", {NameOf[l]})
    <3>1. Reports(prog, here, ThisInstr, Here) = checkReturnPath(here, prog.returns, Here)
      BY <2>6 DEF Reports
    <3>2. l # Nil /\ ~isHeldLockEquivalent(Here.HeldLocks, l)
      BY <2>1, <2>6, NilAssumption DEF isHeldLockEquivalent, NamesDistinct, AnalysisStates
    <3>3. checkReturnsExpectation(here, l, Here) = {reportReturnMissingLock(here, l)}
      BY <3>2 DEF checkReturnsExpectation
    <3>4. checkReturnsExpectation(here, l, Here) \subseteq checkReturnPath(here, prog.returns, Here)
      BY <2>6 DEF checkReturnPath
    <3>5. reportReturnMissingLock(here, l) \in reports
      BY <2>2, <3>1, <3>3, <3>4
    <3> QED
      BY <2>3, <3>5 DEF reportReturnMissingLock
  <2> QED
    BY <2>4, <2>5, <2>6
<1>2. FSpec => [](Analysed /\ Analyzable(prog) /\ ExecutionInv)
  BY AlwaysExecutionInv
<1> QED
  BY <1>1, <1>2, PTL

(***************************************************************************)
(* A run that blocks in a lock statement on a mutex it holds was reported  *)
(* there (handleLockAcquire).                                              *)
(***************************************************************************)
THEOREM SelfDeadlocksReported ==
  ASSUME \A p \in Programs : Analyzable(p) /\ LocksAgree(p), NamesDistinct
  PROVE  FSpec => []SelfDeadlockReported
<1>1. Analysed /\ Analyzable(prog) /\ ExecutionInv => SelfDeadlockReported
  <2> SUFFICES ASSUME Analysed, Analyzable(prog), ExecutionInv,
                      Done, status = "blocked", ThisInstr.op = "lock"
               PROVE  Reported("Reacquired", {NameOf[ThisInstr.lock]})
    BY DEF SelfDeadlockReported
  <2> DEFINE here == <<at, pc>>
             l == ThisInstr.lock
  <2>1. /\ RunInv
        /\ pc \in 1..Len(prog.body[at])
        /\ at \in Blocks
        /\ l \in Here.MayHeldLocks
    BY HereType DEF ExecutionInv, RunInv, Positioned, BlockedOnMayHeld, Analysed, TypeInv
  <2>2. l \in Locks
    <3>1. Sincere(ThisInstr)
      BY <2>1 DEF Analyzable, ThisInstr
    <3> QED
      BY <3>1, MutexAssumption DEF Sincere, LockOps
  <2>3. Reports(prog, here, ThisInstr, Here) = LockReports(here, l, Here)
    BY DEF Reports
  <2>4. Diagnostic("Reacquired", here, "", Names({l} \cap Locks)) \in LockReports(here, l, Here)
    BY <2>1 DEF LockReports, When
  <2>5. Names({l} \cap Locks) = {NameOf[l]}
    BY <2>2 DEF Names
  <2>6. Diagnostic("Reacquired", here, "", {NameOf[l]}) \in reports
    BY <2>1, <2>3, <2>4, <2>5, ReportedHere
  <2> QED
    BY <2>6 DEF Reported, Diagnostic
<1>2. FSpec => [](Analysed /\ Analyzable(prog) /\ ExecutionInv)
  BY AlwaysExecutionInv
<1> QED
  BY <1>1, <1>2, PTL

-----------------------------------------------------------------------------
(***************************************************************************)
(* What every path to a point holds is held in the state of the analysis   *)
(* there: the meet at the entry stays a meet through the block.            *)
(***************************************************************************)
LEMMA HeldOnEveryPathIsHeldHere ==
  ASSUME Analysed, MeetsWithin, Comparable(prog), Analyzable(prog), Positioned
  PROVE  HeldOnEveryPath \subseteq Here.HeldLocks
<1>1. /\ at \in Blocks /\ at \in Seen
      /\ pc - 1 \in 0..Len(prog.body[at])
  BY HereType DEF Positioned
<1>2. PICK T \in SUBSET PathStates(prog)[at] : MeetOf(FALSE, blockEntryStates[at], T)
  BY <1>1, EntryIsMeet
<1>3. MeetOf(FALSE, Here, AtPoint(prog, at, pc - 1, T))
  BY <1>1, <1>2, AnalyzableIsWellFormed, MeetInBlock DEF Here
<1>4. Here.HeldLocks = {l \in Locks : \A s \in AtPoint(prog, at, pc - 1, T) : l \in s.HeldLocks}
  BY <1>3 DEF MeetOf
<1> QED
  BY <1>2, <1>4 DEF HeldOnEveryPath, AtPoint

(***************************************************************************)
(* A run that blocks in a callee on a lock that every path to the call     *)
(* holds was reported at the call: by object where the callee declares     *)
(* @acquires, else because its body takes the lock                         *)
(* (checkAcquiresExpectation, handleCallInstruction).                      *)
(***************************************************************************)
THEOREM CallDeadlocksReported ==
  ASSUME \A p \in Programs : Analyzable(p) /\ Comparable(p) /\ AcquiresDeclared(p)
  PROVE  FSpec => []CallDeadlockReported
<1>1. Analysed /\ MeetsWithin /\ Analyzable(prog) /\ ExecutionInv => CallDeadlockReported
  <2> SUFFICES ASSUME Analysed, MeetsWithin, Analyzable(prog), ExecutionInv, Blocked("call"),
                      NEW l \in (ThisInstr.callee.acquired \cap HeldOnEveryPath)
                                  \ ThisInstr.callee.requires
               PROVE  Reported("AlreadyAcquired", {NameOf[l]})
    BY DEF CallDeadlockReported
  <2> DEFINE here == <<at, pc>>
             c == ThisInstr.callee
             d == Diagnostic("AlreadyAcquired", here, c.name, {NameOf[l]})
  <2>1. /\ Done /\ RunInv /\ Positioned
        /\ pc \in 1..Len(prog.body[at])
        /\ at \in Blocks
        /\ ThisInstr.op = "call"
    BY HereType DEF Blocked, ExecutionInv, RunInv, Positioned
  <2>2. l \in Here.HeldLocks /\ l \in c.acquired /\ l \notin c.requires
    BY <2>1, HeldOnEveryPathIsHeldHere DEF Analysed, TypeInv
  <2>3. Reports(prog, here, ThisInstr, Here) = StaticCallReports(here, c, Here)
    BY <2>1 DEF Reports
  <2>4. ASSUME hasExplicitAcquires(c)
       PROVE  d \in StaticCallReports(here, c, Here)
    <3>1. c.acquired \subseteq c.acquires
      <4>1. AcquiresDeclared(prog)
        BY DEF Analysed, TypeInv
      <4> QED
        BY <2>1, <2>4, <4>1 DEF AcquiresDeclared, ThisInstr
    <3>2. d \in checkAcquiresExpectation(here, c, Here)
      BY <2>2, <3>1 DEF checkAcquiresExpectation
    <3>3. checkAcquiresExpectation(here, c, Here) \subseteq StaticCallReports(here, c, Here)
      BY DEF StaticCallReports
    <3> QED
      BY <3>2, <3>3
  <2>5. ASSUME ~hasExplicitAcquires(c)
       PROVE  d \in StaticCallReports(here, c, Here)
    <3> DEFINE after == applyReleasedRequiresEffects(Here, c)
    <3>1. l \in after.HeldLocks
      <4>1. Here \in AnalysisStates
        BY <2>1, HereType
      <4>2. after.HeldLocks =
              Here.HeldLocks \ {x \in c.requires \cap Here.HeldLocks :
                                  isHeldLockEquivalent(c.released, x)}
        BY <4>1 DEF applyReleasedRequiresEffects, Release, AnalysisStates
      <4> QED
        BY <2>2, <4>2
    <3> HIDE DEF after
    <3>2. d \in Reacquiring(here, c, after)
      BY <2>2, <2>5, <3>1 DEF Reacquiring, isHeldLockEquivalent
    <3>3. Reacquiring(here, c, after) \subseteq StaticCallReports(here, c, Here)
      BY DEF StaticCallReports, after
    <3> QED
      BY <3>2, <3>3
  <2>6. d \in StaticCallReports(here, c, Here)
    BY <2>4, <2>5
  <2>7. d \in reports
    BY <2>1, <2>3, <2>6, ReportedHere
  <2> QED
    BY <2>7 DEF Reported, Diagnostic
<1>2. FSpec => [](Analysed /\ Analyzable(prog) /\ ExecutionInv)
  BY AlwaysExecutionInv
<1>3. Spec => []MeetsWithin
  BY AlwaysMeetsWithin DEF Comparable
<1> QED
  BY <1>1, <1>2, <1>3, AnalysisRuns, PTL

-----------------------------------------------------------------------------
(***************************************************************************)
(* A run blocks only on a lock it holds.                                   *)
(***************************************************************************)
LEMMA BlockedHoldsALock ==
  ASSUME NEW ops \in Seq(LockOps), NEW ls \in SUBSET Mutexes,
         RunOps(ops, ls).status = "blocked"
  PROVE  RunOps(ops, ls).held # {}
<1>1. PICK g : OpsRun(g, ops, ls) /\ RunOps(ops, ls) = g[Len(ops)]
  BY RunOpsIsRun
<1> DEFINE H == {n \in 0..Len(ops) : g[n].status = "blocked" => g[n].held # {}}
<1>2. Len(ops) \in Nat
  OBVIOUS
<1>3. 0 \in H
  BY <1>1, <1>2 DEF OpsRun
<1>4. ASSUME NEW n \in 1..Len(ops), n - 1 \in H
      PROVE  n \in H
  <2>1. n \in 0..Len(ops) /\ n - 1 \in 0..Len(ops)
    BY <1>2
  <2>2. /\ g[n - 1] \in RunStates
        /\ g[n] = OpAfter(ops[n], g[n - 1])
        /\ g[n - 1].status = "blocked" => g[n - 1].held # {}
    BY <1>1, <1>4, <2>1 DEF OpsRun
  <2>3. g[n].status = "blocked" => g[n].held # {}
    BY <2>2 DEF OpAfter, RunStates
  <2> QED
    BY <2>1, <2>3
<1>5. 0..Len(ops) \subseteq H
  <2> HIDE DEF H
  <2> QED
    BY <1>2, <1>3, <1>4, IntervalInduction
<1> QED
  BY <1>1, <1>2, <1>5

(***************************************************************************)
(* A run that blocks in a target of a dynamic call holds a lock, and what  *)
(* the analysis says is held at the call it holds still.                   *)
(***************************************************************************)
BlockedInTarget ==
  status = "blocked" /\ ThisInstr.op = "dyncall" =>
    /\ held # {}
    /\ UnlocksAgree(prog) /\ TargetsKeepLocks(prog) => Here.HeldLocks \subseteq held

LEMMA DynamicCallBlocks ==
  ASSUME Analysed, Analyzable(prog), RunInv, UNCHANGED vars, DynamicCall(prog)
  PROVE  BlockedInTarget'
<1>1. /\ Positioned /\ Running(prog) /\ status = "running"
      /\ ThisInstr.op = "dyncall"
      /\ held \in SUBSET Mutexes
  BY MutexAssumption DEF RunInv, Positioned, DynamicCall, Running, ThisInstr
<1>2. PICK ops \in {c.ops : c \in ThisInstr.targets} \cup {<<>>} : Perform(ops)
  BY DEF DynamicCall, ThisInstr
<1>3. /\ Sincere(ThisInstr) /\ at \in Blocks /\ pc \in 1..Len(prog.body[at])
      /\ Here \in AnalysisStates
      /\ UnlocksAgree(prog) => Here.HeldLocks \subseteq held
  <2>1. Here \in AnalysisStates /\ Sound(prog, Here, held, deferred)
    BY <1>1, HereType DEF RunInv, RunFits
  <2>2. UnlocksAgree(prog) => Here.HeldLocks \subseteq held
    BY <2>1 DEF Sound, Fits, MustFits
  <2> QED
    BY <1>1, <2>1, <2>2, ThisInstrSincere
<1> SUFFICES ASSUME status' = "blocked"
             PROVE  /\ held' # {}
                    /\ UnlocksAgree(prog) /\ TargetsKeepLocks(prog) => Here'.HeldLocks \subseteq held'
  BY DEF BlockedInTarget, vars
<1>4. /\ held' = RunOps(ops, held).held
      /\ RunOps(ops, held).status = "blocked"
      /\ at' = at /\ pc' = pc
  BY <1>2 DEF Perform
<1>5. Here' = Here
  BY <1>4 DEF Here, vars
<1>6. ops # <<>>
  BY <1>1, <1>4, NoOperation
<1>7. PICK c \in ThisInstr.targets : ops = c.ops
  BY <1>2, <1>6
<1>8. ops \in Seq(LockOps)
  BY <1>1, <1>3, <1>7 DEF Sincere, Net
<1>9. held' # {}
  BY <1>1, <1>4, <1>8, BlockedHoldsALock
<1>10. ASSUME UnlocksAgree(prog), TargetsKeepLocks(prog)
       PROVE  Here'.HeldLocks \subseteq held'
  <2>1. held \subseteq RunOps(c.ops, held).held
    BY <1>1, <1>3, <1>4, <1>7, <1>10 DEF TargetsKeepLocks, ThisInstr
  <2> QED
    BY <1>3, <1>4, <1>5, <1>7, <1>10, <2>1
<1> QED
  BY <1>9, <1>10

(***************************************************************************)
(* No other instruction blocks at a dynamic call.                          *)
(***************************************************************************)
LEMMA OthersDoNotBlockThere ==
  ASSUME UNCHANGED vars, Running(prog), ThisInstr.op # "dyncall", NEW ops, Perform(ops)
  PROVE  BlockedInTarget'
<1> SUFFICES ASSUME status' = "blocked"
             PROVE  ThisInstr' = ThisInstr
  BY DEF BlockedInTarget
<1> QED
  BY DEF Perform, vars, ThisInstr

LEMMA TargetStep ==
  ASSUME Analysed, Analyzable(prog), RunInv, UNCHANGED vars, Execute(prog)
  PROVE  BlockedInTarget'
<1>1. CASE DynamicCall(prog)
  BY <1>1, DynamicCallBlocks
<1>2. CASE LockOrUnlock(prog) \/ Call(prog) \/ Defer(prog) \/ RunDefers(prog)
             \/ OtherInstruction(prog)
  <2>1. Running(prog) /\ ThisInstr.op # "dyncall" /\ \E ops : Perform(ops)
    BY <1>2 DEF LockOrUnlock, Call, Defer, RunDefers, OtherInstruction, ThisInstr
  <2> QED
    BY <2>1, OthersDoNotBlockThere
<1>3. CASE Return(prog) \/ Branch(prog)
  <2>1. status' # "blocked"
    BY <1>3 DEF Return, Branch
  <2> QED
    BY <2>1 DEF BlockedInTarget
<1> QED
  BY <1>1, <1>2, <1>3 DEF Execute

LEMMA AlwaysBlockedInTarget ==
  ASSUME \A p \in Programs : Analyzable(p)
  PROVE  FSpec => []BlockedInTarget
<1>1. FInit => BlockedInTarget
  BY DEF FInit, ExecInit, BlockedInTarget
<1>2. ASSUME Analysed, Analyzable(prog), ExecutionInv, BlockedInTarget, [FNext]_allVars
      PROVE  BlockedInTarget'
  <2>1. CASE Analyze
    <3>1. status' = "running"
      BY <1>2, <2>1, StepIsNotDone DEF Analyze, ExecutionInv, ExecInit, execVars
    <3> QED
      BY <3>1 DEF BlockedInTarget
  <2>2. CASE Run
    BY <1>2, <2>2, TargetStep DEF Run, ExecutionInv
  <2>3. CASE Finished \/ UNCHANGED allVars
    <3>1. UNCHANGED <<prog, blockEntryStates, at, pc, held, status>>
      BY <2>3 DEF Finished, allVars, vars, execVars
    <3>2. Here' = Here /\ ThisInstr' = ThisInstr
      BY <3>1 DEF Here, ThisInstr
    <3> QED
      BY <1>2, <3>1, <3>2 DEF BlockedInTarget
  <2> QED
    BY <1>2, <2>1, <2>2, <2>3 DEF FNext
<1>3. FSpec => [](Analysed /\ Analyzable(prog) /\ ExecutionInv)
  BY AlwaysExecutionInv
<1> QED
  BY <1>1, <1>2, <1>3, PTL DEF FSpec

(***************************************************************************)
(* A run that blocks in a target of a dynamic call while every path to the *)
(* call holds all it holds was noticed at the call: an advisory names the  *)
(* locks held, or findings name those the targets take again.              *)
(***************************************************************************)
THEOREM DynamicCallDeadlocksNoticed ==
  ASSUME \A p \in Programs : Analyzable(p) /\ Comparable(p) /\ TargetsKeepLocks(p)
  PROVE  FSpec => []DynamicCallDeadlockNoticed
<1>1. Analysed /\ MeetsWithin /\ Analyzable(prog) /\ ExecutionInv /\ BlockedInTarget
        => DynamicCallDeadlockNoticed
  <2> SUFFICES ASSUME Analysed, MeetsWithin, Analyzable(prog), ExecutionInv, BlockedInTarget,
                      Blocked("dyncall"), held \subseteq HeldOnEveryPath
               PROVE  \E l \in held :
                        \/ Reported("AlreadyAcquired", {NameOf[l]})
                        \/ Reported("DynamicCallback", {NameOf[l]})
    BY DEF DynamicCallDeadlockNoticed
  <2> DEFINE here == <<at, pc>>
             targets == ThisInstr.targets
             reacquired == UNION {Reacquiring(here, c, Here) : c \in targets}
  <2>1. /\ Done /\ RunInv /\ Positioned
        /\ pc \in 1..Len(prog.body[at])
        /\ status = "blocked" /\ ThisInstr.op = "dyncall"
        /\ Comparable(prog) /\ TargetsKeepLocks(prog)
    BY DEF Blocked, ExecutionInv, RunInv, Positioned, Analysed, TypeInv
  <2>2. Here.HeldLocks = held /\ held # {}
    BY <2>1, HeldOnEveryPathIsHeldHere DEF BlockedInTarget, Comparable
  <2>3. DynamicCallReports(here, targets, Here) \subseteq reports
    BY <2>1, ReportedHere DEF Reports
  <2>4. CASE reacquired = {}
    <3>1. reportDynamicCallbackWhileHoldingLocks(here, Here)
            \subseteq DynamicCallReports(here, targets, Here)
      BY <2>4 DEF DynamicCallReports
    <3>2. Diagnostic("DynamicCallback", here, "", Names(held)) \in reports
      BY <2>2, <2>3, <3>1 DEF reportDynamicCallbackWhileHoldingLocks, When
    <3>3. PICK l \in held : TRUE
      BY <2>2
    <3>4. NameOf[l] \in Names(held)
      BY DEF Names
    <3> QED
      BY <3>2, <3>3, <3>4 DEF Reported, Diagnostic
  <2>5. CASE reacquired # {}
    <3>1. PICK c \in targets : \E d : d \in Reacquiring(here, c, Here)
      BY <2>5
    <3>2. PICK d : d \in Reacquiring(here, c, Here)
      BY <3>1
    <3>3. PICK x : /\ isHeldLockEquivalent(Here.HeldLocks, x)
                   /\ d = Diagnostic("AlreadyAcquired", here, c.name, {NameOf[x]})
      BY <3>2 DEF Reacquiring
    <3>4. PICK l \in held : NameOf[l] = NameOf[x]
      BY <2>2, <3>3 DEF isHeldLockEquivalent
    <3>5. reacquired \subseteq DynamicCallReports(here, targets, Here)
      BY DEF DynamicCallReports
    <3>6. d \in reports
      BY <2>3, <3>1, <3>2, <3>5
    <3> QED
      BY <3>3, <3>4, <3>6 DEF Reported, Diagnostic
  <2> QED
    BY <2>4, <2>5
<1>2. FSpec => [](Analysed /\ Analyzable(prog) /\ ExecutionInv)
  BY AlwaysExecutionInv
<1>3. Spec => []MeetsWithin
  BY AlwaysMeetsWithin DEF Comparable
<1>4. FSpec => []BlockedInTarget
  BY AlwaysBlockedInTarget
<1> QED
  BY <1>1, <1>2, <1>3, <1>4, AnalysisRuns, PTL

=============================================================================
