-------------------------- MODULE CFGTraversalProofs --------------------------
(***************************************************************************)
(* Proofs about the worklist iteration, for any number of blocks and locks *)
(* and any transfer functions.                                             *)
(***************************************************************************)
EXTENDS CFGTraversal, TLAPS

Worklists == [queue : Seq(Blocks), inQueue : [Blocks -> BOOLEAN]]

(***************************************************************************)
(* Weaker is a preorder.                                                   *)
(***************************************************************************)
LEMMA WeakerReflexive == \A s \in AnalysisStates : Weaker(s, s)
BY DEF AnalysisStates, Weaker

LEMMA WeakerTransitive ==
  ASSUME NEW r \in AnalysisStates, NEW s \in AnalysisStates, NEW t \in AnalysisStates,
         Weaker(r, s), Weaker(s, t)
  PROVE  Weaker(r, t)
BY DEF AnalysisStates, Weaker

(***************************************************************************)
(* The merge at a join is a lower bound of both states.                    *)
(***************************************************************************)
LEMMA MergeWeakens ==
  ASSUME NEW s \in AnalysisStates, NEW t \in AnalysisStates
  PROVE  /\ MergeForSuccessor(s, t) \in AnalysisStates
         /\ Weaker(MergeForSuccessor(s, t), s)
         /\ Weaker(MergeForSuccessor(s, t), t)
BY DEF AnalysisStates, Weaker, MergeForSuccessor

LEMMA InitialStateType == \A p : newAnalysisState(createInitialLockset(p)) \in AnalysisStates
BY DEF newAnalysisState, createInitialLockset, AnalysisStates

-----------------------------------------------------------------------------
(***************************************************************************)
(* Pushing a block keeps the worklist consistent and queues exactly it.    *)
(***************************************************************************)
LEMMA PushQueues ==
  ASSUME NEW w \in Worklists, NEW b \in Blocks, Consistent(w)
  PROVE  /\ Push(w, b) \in Worklists
         /\ Consistent(Push(w, b))
         /\ \A x \in Blocks : Push(w, b).inQueue[x] <=> w.inQueue[x] \/ x = b
<1>1. CASE w.inQueue[b]
  BY <1>1 DEF Push
<1>2. CASE ~w.inQueue[b]
  <2> DEFINE v == Push(w, b)
  <2>1. /\ v.queue = Append(w.queue, b)
        /\ v.inQueue = [w.inQueue EXCEPT ![b] = TRUE]
    BY <1>2 DEF Push
  <2>2. v \in Worklists
    BY <1>2 DEF Push, Worklists
  <2>3. \A x \in Blocks : v.inQueue[x] <=> w.inQueue[x] \/ x = b
    BY <2>1 DEF Worklists
  <2>4. /\ Len(v.queue) = Len(w.queue) + 1
        /\ v.queue[Len(w.queue) + 1] = b
        /\ \A i \in 1..Len(w.queue) : v.queue[i] = w.queue[i]
        /\ Len(w.queue) \in Nat
    BY <2>1 DEF Worklists
  <2>5. \A i \in 1..Len(w.queue) : w.queue[i] # b
    BY <1>2 DEF Consistent
  <2>6. \A x \in Blocks : v.inQueue[x] <=> \E i \in 1..Len(v.queue) : v.queue[i] = x
    <3> HIDE DEF v
    <3>1. ASSUME NEW x \in Blocks, NEW i \in 1..Len(w.queue), w.queue[i] = x
          PROVE  \E j \in 1..Len(v.queue) : v.queue[j] = x
      <4>1. i \in 1..Len(v.queue)
        BY <2>4
      <4> QED
        BY <2>4, <3>1, <4>1
    <3>2. Len(w.queue) + 1 \in 1..Len(v.queue)
      BY <2>4
    <3>3. ASSUME NEW i \in 1..Len(v.queue), v.queue[i] # b
          PROVE  i \in 1..Len(w.queue)
      BY <2>4, <3>3
    <3>4. \A x \in Blocks : w.inQueue[x] <=> \E i \in 1..Len(w.queue) : w.queue[i] = x
      BY DEF Consistent
    <3>5. ASSUME NEW x \in Blocks, v.inQueue[x]
          PROVE  \E i \in 1..Len(v.queue) : v.queue[i] = x
      BY <2>3, <2>4, <3>1, <3>2, <3>4, <3>5
    <3>6. ASSUME NEW x \in Blocks, NEW i \in 1..Len(v.queue), v.queue[i] = x
          PROVE  v.inQueue[x]
      BY <2>3, <2>4, <3>3, <3>4, <3>6
    <3> QED
      BY <3>5, <3>6
  <2>7. ASSUME NEW i \in 1..Len(v.queue), NEW j \in 1..Len(v.queue),
               v.queue[i] = v.queue[j]
        PROVE  i = j
    <3> HIDE DEF v
    <3>1. i \in 1..Len(w.queue) \/ i = Len(w.queue) + 1
      BY <2>4
    <3>2. j \in 1..Len(w.queue) \/ j = Len(w.queue) + 1
      BY <2>4
    <3>3. CASE i \in 1..Len(w.queue) /\ j \in 1..Len(w.queue)
      BY <2>4, <2>7, <3>3 DEF Consistent
    <3> QED
      BY <2>4, <2>5, <2>7, <3>1, <3>2, <3>3
  <2> QED
    BY <2>2, <2>3, <2>6, <2>7 DEF Consistent
<1> QED
  BY <1>1, <1>2

(***************************************************************************)
(* Popping removes the first block, which was queued, and nothing else.    *)
(***************************************************************************)
LEMMA PopDequeues ==
  ASSUME NEW w \in Worklists, Consistent(w), ~Empty(w)
  PROVE  /\ Head(w.queue) \in Blocks
         /\ w.inQueue[Head(w.queue)]
         /\ Pop(w) \in Worklists
         /\ Consistent(Pop(w))
         /\ \A x \in Blocks : Pop(w).inQueue[x] <=> w.inQueue[x] /\ x # Head(w.queue)
<1> DEFINE v == Pop(w)
           h == Head(w.queue)
<1>1. /\ w.queue \in Seq(Blocks)
      /\ w.queue # <<>>
      /\ w.inQueue \in [Blocks -> BOOLEAN]
  BY DEF Worklists, Empty
<1>2. /\ h \in Blocks
      /\ h = w.queue[1]
      /\ Len(w.queue) \in Nat \ {0}
  BY <1>1
<1>3. /\ v.queue = Tail(w.queue)
      /\ v.inQueue = [w.inQueue EXCEPT ![h] = FALSE]
  BY DEF Pop
<1>4. v \in Worklists
  BY <1>1 DEF Pop, Worklists
<1>5. w.inQueue[h]
  BY <1>2 DEF Consistent
<1>6. \A x \in Blocks : v.inQueue[x] <=> w.inQueue[x] /\ x # h
  BY <1>1, <1>2, <1>3
<1>7. /\ Len(v.queue) = Len(w.queue) - 1
      /\ \A i \in 1..Len(v.queue) : v.queue[i] = w.queue[i + 1]
  BY <1>1, <1>2, <1>3
<1>8. \A i, j \in 1..Len(v.queue) : v.queue[i] = v.queue[j] => i = j
  <2> SUFFICES ASSUME NEW i \in 1..Len(v.queue), NEW j \in 1..Len(v.queue),
                      v.queue[i] = v.queue[j]
               PROVE  i = j
    OBVIOUS
  <2>1. w.queue[i + 1] = w.queue[j + 1] /\ i + 1 \in 1..Len(w.queue) /\ j + 1 \in 1..Len(w.queue)
    BY <1>2, <1>7
  <2> QED
    BY <2>1, <1>2, <1>7 DEF Consistent
<1>9. ASSUME NEW x \in Blocks
      PROVE  v.inQueue[x] <=> \E i \in 1..Len(v.queue) : v.queue[i] = x
  <2>1. ASSUME v.inQueue[x]
        PROVE  \E i \in 1..Len(v.queue) : v.queue[i] = x
    <3>1. PICK k \in 1..Len(w.queue) : w.queue[k] = x
      BY <1>6, <2>1 DEF Consistent
    <3>2. k # 1
      BY <1>2, <1>6, <2>1, <3>1
    <3>3. k - 1 \in 1..Len(v.queue) /\ v.queue[k - 1] = x
      BY <1>2, <1>7, <3>1, <3>2
    <3> QED
      BY <3>3
  <2>2. ASSUME NEW i \in 1..Len(v.queue), v.queue[i] = x
        PROVE  v.inQueue[x]
    <3>1. w.queue[i + 1] = x /\ i + 1 \in 1..Len(w.queue) /\ i + 1 # 1
      BY <1>2, <1>7, <2>2
    <3>2. x # h
      BY <1>2, <3>1 DEF Consistent
    <3>3. w.inQueue[x]
      BY <3>1 DEF Consistent
    <3> QED
      BY <1>6, <3>2, <3>3
  <2> QED
    BY <2>1, <2>2
<1> QED
  BY <1>2, <1>4, <1>5, <1>6, <1>8, <1>9 DEF Consistent

-----------------------------------------------------------------------------
(***************************************************************************)
(* The inductive invariant.  While the successors of curr are updated,     *)
(* currentState is still what curr's entry state gives, and each successor *)
(* is pending or has absorbed it, unless curr itself was queued again.     *)
(* Every other block that is not queued has propagated its state.          *)
(***************************************************************************)
TypeInv ==
  /\ prog \in Programs
  /\ TypeOK
  /\ WorklistConsistent

Pending(s) == \E i \in 1..Len(pending) : pending[i] = s

CurrPropagating ==
  ~worklist.inQueue[curr] =>
    /\ currentState = Transfer(prog, curr, blockEntryStates[curr])
    /\ \A s \in Blocks : IsSuccessor(s, curr) => Pending(s) \/ Absorbed(curr, s)

OthersPropagated ==
  \A b \in Seen : ~worklist.inQueue[b] /\ b # curr => Propagated(b)

Inv == TypeInv /\ CurrPropagating /\ OthersPropagated

LEMMA InitInv == Init => Inv
<1> SUFFICES ASSUME Init
             PROVE  Inv
  OBVIOUS
<1> USE DEF Init
<1>1. prog.entry \in Blocks /\ prog.succs \in [Blocks -> Seq(Blocks)]
  BY ProgramAssumption
<1>2. Seen = {prog.entry}
  BY DEF Seen
<1>4. /\ worklist = [queue |-> <<prog.entry>>, inQueue |-> [b \in Blocks |-> b = prog.entry]]
      /\ worklist.queue = <<prog.entry>>
      /\ worklist.inQueue = [b \in Blocks |-> b = prog.entry]
  BY DEF newBlockWorklist
<1>3. /\ worklist \in Worklists
      /\ \A b \in Blocks : worklist.inQueue[b] <=> b = prog.entry
  <2>1. [b \in Blocks |-> b = prog.entry] \in [Blocks -> BOOLEAN]
    OBVIOUS
  <2>2. <<prog.entry>> \in Seq(Blocks)
    BY <1>1
  <2>3. worklist \in Worklists
    BY <1>4, <2>1, <2>2 DEF Worklists
  <2> QED
    BY <1>4, <2>3, Zenon
<1>5. Consistent(worklist)
  BY <1>3, <1>4 DEF Consistent
<1>6. newAnalysisState(createInitialLockset(prog)) \in AnalysisStates
  BY InitialStateType
<1>7. TypeOK
  <2> DEFINE init == newAnalysisState(createInitialLockset(prog))
  <2>1. blockEntryStates \in [Seen -> AnalysisStates]
    <3> HIDE DEF init
    <3>1. init \in AnalysisStates /\ blockEntryStates = [b \in {prog.entry} |-> init]
      BY <1>6 DEF init
    <3> QED
      BY <3>1, <1>2
  <2> QED
    BY <1>1, <1>2, <1>3, <1>6, <2>1 DEF TypeOK, Worklists
<1>8. WorklistConsistent
  BY <1>2, <1>3, <1>5 DEF WorklistConsistent
<1>9. CurrPropagating /\ OthersPropagated
  BY <1>1, <1>2, <1>3 DEF CurrPropagating, OthersPropagated
<1> QED
  BY <1>7, <1>8, <1>9 DEF Inv, TypeInv

(***************************************************************************)
(* PopBlock: the block popped before had no pending successor left, so it  *)
(* has propagated; the new one starts with all its successors pending.     *)
(***************************************************************************)
LEMMA PopBlockInv == Inv /\ PopBlock => Inv'
<1> SUFFICES ASSUME Inv, PopBlock
             PROVE  Inv'
  OBVIOUS
<1> DEFINE b == Head(worklist.queue)
<1> USE DEF Inv, TypeInv
<1>1. worklist \in Worklists /\ Consistent(worklist) /\ ~Empty(worklist)
  BY DEF TypeOK, Worklists, WorklistConsistent, PopBlock
<1>2. /\ b \in Blocks
      /\ worklist.inQueue[b]
      /\ worklist' \in Worklists
      /\ Consistent(worklist')
      /\ \A x \in Blocks : worklist'.inQueue[x] <=> worklist.inQueue[x] /\ x # b
  <2>1. worklist' = Pop(worklist)
    BY DEF PopBlock
  <2> QED
    BY <1>1, <2>1, PopDequeues
<1>3. b \in Seen
  BY <1>2 DEF WorklistConsistent
<1>4. /\ curr' = b
      /\ currentState' = Transfer(prog, b, blockEntryStates[b])
      /\ pending' = prog.succs[b]
      /\ prog' = prog
      /\ blockEntryStates' = blockEntryStates
  BY DEF PopBlock
<1>5. Seen' = Seen
  BY <1>4 DEF Seen
<1>6. currentState' \in AnalysisStates
  BY <1>2, <1>3, <1>4, TransferAssumption DEF TypeOK
<1>7. TypeOK'
  BY <1>2, <1>3, <1>4, <1>5, <1>6 DEF TypeOK, Worklists
<1>8. WorklistConsistent'
  BY <1>2, <1>5 DEF WorklistConsistent
<1>9. ASSUME NEW x, Propagated(x)
      PROVE  Propagated(x)'
  BY <1>4, <1>5, <1>9 DEF Propagated, IsSuccessor, Absorbed
<1>10. CurrPropagating'
  BY <1>2, <1>4 DEF CurrPropagating, IsSuccessor, Pending
<1>11. OthersPropagated'
  <2> SUFFICES ASSUME NEW x \in Seen, ~worklist'.inQueue[x], x # b
               PROVE  Propagated(x)'
    BY <1>4, <1>5 DEF OthersPropagated
  <2>1. x \in Blocks /\ ~worklist.inQueue[x]
    BY <1>2 DEF TypeOK
  <2>2. CASE x = curr
    <3>1. pending = <<>>
      BY DEF PopBlock
    <3>2. \A s \in Blocks : ~Pending(s)
      BY <3>1 DEF Pending
    <3>3. Propagated(x)
      BY <2>1, <2>2, <3>2 DEF CurrPropagating, Propagated
    <3> QED
      BY <3>3, <1>9
  <2>3. CASE x # curr
    <3>1. Propagated(x)
      BY <2>1, <2>3 DEF OthersPropagated
    <3> QED
      BY <3>1, <1>9
  <2> QED
    BY <2>2, <2>3
<1> QED
  BY <1>4, <1>7, <1>8, <1>10, <1>11

(***************************************************************************)
(* What updateSuccessorState guarantees in each of its three cases: the    *)
(* successor's state accounts for currentState, entry states only weaken,  *)
(* and a block whose entry state changed is queued.                        *)
(***************************************************************************)
SuccessorUpdated ==
  /\ Seen' = Seen \cup {Successor}
  /\ blockEntryStates' \in [Seen' -> AnalysisStates]
  /\ \A x \in Seen : Weaker(blockEntryStates'[x], blockEntryStates[x])
  /\ Weaker(blockEntryStates'[Successor], currentState)
  /\ worklist' \in Worklists
  /\ Consistent(worklist')
  /\ \A x \in Blocks : worklist.inQueue[x] => worklist'.inQueue[x]
  /\ \A x \in Blocks : worklist'.inQueue[x] => x \in Seen'
  /\ \A x \in Seen' : ~worklist'.inQueue[x] =>
       x \in Seen /\ blockEntryStates'[x] = blockEntryStates[x]

LEMMA SuccessorIsBlock == TypeInv /\ pending # <<>> => Successor \in Blocks
BY DEF TypeInv, TypeOK, Successor

LEMMA UpdateQueues ==
  ASSUME TypeInv, NEW s \in Blocks, worklist' = Push(worklist, s),
         NEW e \in AnalysisStates, blockEntryStates' = Record(s, e)
  PROVE  /\ Seen' = Seen \cup {s}
         /\ blockEntryStates' \in [Seen' -> AnalysisStates]
         /\ blockEntryStates'[s] = e
         /\ \A x \in Seen \ {s} : blockEntryStates'[x] = blockEntryStates[x]
         /\ worklist' \in Worklists
         /\ Consistent(worklist')
         /\ \A x \in Blocks : worklist'.inQueue[x] <=> worklist.inQueue[x] \/ x = s
<1>1. worklist \in Worklists /\ Consistent(worklist)
  BY DEF TypeInv, TypeOK, Worklists, WorklistConsistent
<1>2. blockEntryStates' = [x \in Seen \cup {s} |-> IF x = s THEN e ELSE blockEntryStates[x]]
  BY DEF Record
<1>3. Seen' = Seen \cup {s}
  BY <1>2 DEF Seen
<1>4. \A x \in Seen : blockEntryStates[x] \in AnalysisStates
  BY DEF TypeInv, TypeOK
<1>5. blockEntryStates' \in [Seen' -> AnalysisStates]
  BY <1>2, <1>3, <1>4
<1> QED
  BY <1>1, <1>2, <1>3, <1>5, PushQueues

LEMMA FirstVisitUpdates == TypeInv /\ FirstVisit => SuccessorUpdated
<1> SUFFICES ASSUME TypeInv, FirstVisit
             PROVE  SuccessorUpdated
  OBVIOUS
<1>1. /\ Successor \in Blocks
      /\ Successor \notin Seen
      /\ worklist' = Push(worklist, Successor)
      /\ blockEntryStates' = Record(Successor, currentState)
  BY SuccessorIsBlock DEF FirstVisit, NextSuccessor
<1>2. currentState \in AnalysisStates /\ Seen \subseteq Blocks
      /\ \A x \in Seen : blockEntryStates[x] \in AnalysisStates
  BY DEF TypeInv, TypeOK
<1>3. /\ Seen' = Seen \cup {Successor}
      /\ blockEntryStates' \in [Seen' -> AnalysisStates]
      /\ blockEntryStates'[Successor] = currentState
      /\ \A x \in Seen : blockEntryStates'[x] = blockEntryStates[x]
      /\ worklist' \in Worklists
      /\ Consistent(worklist')
      /\ \A x \in Blocks : worklist'.inQueue[x] <=> worklist.inQueue[x] \/ x = Successor
  BY <1>1, <1>2, UpdateQueues
<1>4. \A x \in Blocks : worklist.inQueue[x] => x \in Seen
  BY DEF TypeInv, WorklistConsistent
<1>5. /\ \A x \in Seen : Weaker(blockEntryStates'[x], blockEntryStates[x])
      /\ Weaker(blockEntryStates'[Successor], currentState)
  BY <1>2, <1>3, WeakerReflexive
<1> QED
  BY <1>1, <1>2, <1>3, <1>4, <1>5 DEF SuccessorUpdated

LEMMA MergeChangesUpdates == TypeInv /\ MergeChanges => SuccessorUpdated
<1> SUFFICES ASSUME TypeInv, MergeChanges
             PROVE  SuccessorUpdated
  OBVIOUS
<1>1. /\ Successor \in Blocks
      /\ Successor \in Seen
      /\ worklist' = Push(worklist, Successor)
      /\ blockEntryStates' = Record(Successor, Merged)
  BY SuccessorIsBlock DEF MergeChanges, NextSuccessor
<1>2. currentState \in AnalysisStates /\ Seen \subseteq Blocks
      /\ \A x \in Seen : blockEntryStates[x] \in AnalysisStates
  BY DEF TypeInv, TypeOK
<1>3. /\ Merged \in AnalysisStates
      /\ Weaker(Merged, blockEntryStates[Successor])
      /\ Weaker(Merged, currentState)
  BY <1>1, <1>2, MergeWeakens DEF Merged
<1>4. /\ Seen' = Seen \cup {Successor}
      /\ blockEntryStates' \in [Seen' -> AnalysisStates]
      /\ blockEntryStates'[Successor] = Merged
      /\ \A x \in Seen \ {Successor} : blockEntryStates'[x] = blockEntryStates[x]
      /\ worklist' \in Worklists
      /\ Consistent(worklist')
      /\ \A x \in Blocks : worklist'.inQueue[x] <=> worklist.inQueue[x] \/ x = Successor
  BY <1>1, <1>3, UpdateQueues
<1>5. \A x \in Blocks : worklist.inQueue[x] => x \in Seen
  BY DEF TypeInv, WorklistConsistent
<1>6. /\ \A x \in Seen : Weaker(blockEntryStates'[x], blockEntryStates[x])
      /\ Weaker(blockEntryStates'[Successor], currentState)
  BY <1>2, <1>3, <1>4, WeakerReflexive
<1> QED
  BY <1>1, <1>2, <1>4, <1>5, <1>6 DEF SuccessorUpdated

LEMMA MergeKeepsUpdates == TypeInv /\ MergeKeeps => SuccessorUpdated
<1> SUFFICES ASSUME TypeInv, MergeKeeps
             PROVE  SuccessorUpdated
  OBVIOUS
<1>1. /\ Successor \in Seen
      /\ Merged = blockEntryStates[Successor]
      /\ worklist' = worklist
      /\ blockEntryStates' = blockEntryStates
  BY DEF MergeKeeps
<1>2. currentState \in AnalysisStates /\ Seen \subseteq Blocks
      /\ \A x \in Seen : blockEntryStates[x] \in AnalysisStates
  BY DEF TypeInv, TypeOK
<1>3. Seen' = Seen
  BY <1>1 DEF Seen
<1>4. Weaker(blockEntryStates'[Successor], currentState)
  BY <1>1, <1>2, MergeWeakens DEF Merged
<1>5. \A x \in Seen : Weaker(blockEntryStates'[x], blockEntryStates[x])
  BY <1>1, <1>2, WeakerReflexive
<1>6. /\ worklist \in Worklists
      /\ Consistent(worklist)
      /\ \A x \in Blocks : worklist.inQueue[x] => x \in Seen
      /\ blockEntryStates \in [Seen -> AnalysisStates]
  BY DEF TypeInv, TypeOK, Worklists, WorklistConsistent
<1> QED
  BY <1>1, <1>2, <1>3, <1>4, <1>5, <1>6 DEF SuccessorUpdated

(***************************************************************************)
(* Each of the three keeps the invariant: what a block had propagated to a *)
(* successor is still absorbed when the successor's state gets weaker.     *)
(***************************************************************************)
LEMMA SuccessorInv == Inv /\ NextSuccessor /\ SuccessorUpdated => Inv'
<1> SUFFICES ASSUME Inv, NextSuccessor, SuccessorUpdated
             PROVE  Inv'
  OBVIOUS
<1> USE DEF Inv, TypeInv
<1>1. /\ pending' = Tail(pending)
      /\ pending # <<>>
      /\ prog' = prog
      /\ curr' = curr
      /\ currentState' = currentState
  BY DEF NextSuccessor
<1>2. /\ Successor \in Blocks
      /\ Seen \subseteq Blocks
      /\ curr \in Seen
      /\ pending \in Seq(Blocks)
      /\ \A x \in Seen : blockEntryStates[x] \in AnalysisStates
      /\ currentState \in AnalysisStates
  BY <1>1, SuccessorIsBlock DEF TypeOK
<1>3. TypeOK'
  <2>1. /\ Seen' \subseteq Blocks
        /\ curr' \in Seen'
        /\ pending' \in Seq(Blocks)
    BY <1>1, <1>2 DEF SuccessorUpdated
  <2> QED
    BY <2>1, <1>1 DEF TypeOK, SuccessorUpdated, Worklists
<1>4. WorklistConsistent'
  BY DEF WorklistConsistent, SuccessorUpdated
<1>5. ASSUME NEW b \in Seen, NEW s \in Blocks, ~worklist'.inQueue[b], Absorbed(b, s)
      PROVE  Absorbed(b, s)'
  <2> DEFINE t == Transfer(prog, b, blockEntryStates[b])
  <2>1. /\ blockEntryStates'[b] = blockEntryStates[b]
        /\ s \in Seen
        /\ s \in Seen'
        /\ Weaker(blockEntryStates[s], t)
        /\ Weaker(blockEntryStates'[s], blockEntryStates[s])
        /\ blockEntryStates'[s] \in AnalysisStates
    BY <1>5 DEF SuccessorUpdated, Absorbed
  <2>2. t \in AnalysisStates
    BY <1>2, TransferAssumption
  <2>3. Weaker(blockEntryStates'[s], t)
    <3> HIDE DEF t
    <3> QED
      BY <1>2, <2>1, <2>2, WeakerTransitive
  <2> QED
    BY <1>1, <2>1, <2>3 DEF Absorbed
<1>6. ASSUME NEW s \in Blocks, Pending(s)
      PROVE  s = Successor \/ Pending(s)'
  <2>1. PICK k \in 1..Len(pending) : pending[k] = s
    BY <1>6 DEF Pending
  <2>2. CASE k = 1
    BY <1>1, <1>2, <2>1, <2>2 DEF Successor
  <2>3. CASE k # 1
    <3>1. k - 1 \in 1..Len(pending') /\ pending'[k - 1] = s
      BY <1>1, <1>2, <2>1, <2>3
    <3> QED
      BY <3>1 DEF Pending
  <2> QED
    BY <2>2, <2>3
<1>7. CurrPropagating'
  <2> SUFFICES ASSUME ~worklist'.inQueue[curr]
               PROVE  /\ currentState = Transfer(prog, curr, blockEntryStates'[curr])
                      /\ \A s \in Blocks : IsSuccessor(s, curr) =>
                           Pending(s)' \/ Absorbed(curr, s)'
    BY <1>1 DEF CurrPropagating, IsSuccessor, Absorbed
  <2>1. /\ ~worklist.inQueue[curr]
        /\ blockEntryStates'[curr] = blockEntryStates[curr]
    BY <1>2 DEF SuccessorUpdated
  <2>2. currentState = Transfer(prog, curr, blockEntryStates[curr])
    BY <2>1 DEF CurrPropagating
  <2>3. ASSUME NEW s \in Blocks, IsSuccessor(s, curr)
        PROVE  Pending(s)' \/ Absorbed(curr, s)'
    <3>1. Pending(s) \/ Absorbed(curr, s)
      BY <2>1, <2>3 DEF CurrPropagating
    <3>2. CASE Absorbed(curr, s)
      BY <1>2, <1>5, <1>1, <3>2 DEF Absorbed
    <3>3. CASE s = Successor
      BY <1>1, <2>1, <2>2, <3>3 DEF SuccessorUpdated, Absorbed
    <3> QED
      BY <1>6, <3>1, <3>2, <3>3
  <2> QED
    BY <2>1, <2>2, <2>3
<1>8. OthersPropagated'
  <2> SUFFICES ASSUME NEW b \in Seen', ~worklist'.inQueue[b], b # curr
               PROVE  Propagated(b)'
    BY <1>1 DEF OthersPropagated
  <2>1. b \in Seen /\ ~worklist.inQueue[b]
    BY <1>2 DEF SuccessorUpdated
  <2>2. Propagated(b)
    BY <2>1 DEF OthersPropagated
  <2>3. ASSUME NEW s \in Blocks, IsSuccessor(s, b)'
        PROVE  Absorbed(b, s)'
    <3>1. Absorbed(b, s)
      BY <1>1, <2>2, <2>3 DEF Propagated, IsSuccessor
    <3> QED
      BY <1>5, <2>1, <3>1
  <2> QED
    BY <2>3 DEF Propagated
<1> QED
  BY <1>1, <1>3, <1>4, <1>7, <1>8

LEMMA StutterInv == Inv /\ UNCHANGED vars => Inv'
BY DEF Inv, TypeInv, TypeOK, WorklistConsistent, CurrPropagating, OthersPropagated,
       Seen, Pending, Propagated, Absorbed, IsSuccessor, vars

LEMMA StepInv == Inv /\ Next => Inv'
<1> SUFFICES ASSUME Inv, Next
             PROVE  Inv'
  OBVIOUS
<1>1. CASE PopBlock
  BY <1>1, PopBlockInv
<1>2. CASE FirstVisit
  BY <1>2, FirstVisitUpdates, SuccessorInv DEF FirstVisit, Inv
<1>3. CASE MergeChanges
  BY <1>3, MergeChangesUpdates, SuccessorInv DEF MergeChanges, Inv
<1>4. CASE MergeKeeps
  BY <1>4, MergeKeepsUpdates, SuccessorInv DEF MergeKeeps, Inv
<1>5. CASE Terminating
  BY <1>5, StutterInv DEF Terminating
<1> QED
  BY <1>1, <1>2, <1>3, <1>4, <1>5 DEF Next, Step

-----------------------------------------------------------------------------
LEMMA AlwaysInv == Spec => []Inv
<1>1. Init => Inv
  BY InitInv
<1>2. Inv /\ [Next]_vars => Inv'
  BY StepInv, StutterInv
<1> QED
  BY <1>1, <1>2, PTL DEF Spec

(***************************************************************************)
(* Every variable of the traversal keeps its type: in particular an entry  *)
(* state exists whenever a block is popped (cfg_traversal.go:77).          *)
(***************************************************************************)
THEOREM TypeCorrect == Spec => []TypeOK
<1>1. Inv => TypeOK
  BY DEF Inv, TypeInv
<1> QED
  BY <1>1, AlwaysInv, PTL

(***************************************************************************)
(* The queue and its inQueue map never disagree, no block is queued twice  *)
(* and only blocks with an entry state are queued (worklist.go).           *)
(***************************************************************************)
THEOREM QueueConsistent == Spec => []WorklistConsistent
<1>1. Inv => WorklistConsistent
  BY DEF Inv, TypeInv
<1> QED
  BY <1>1, AlwaysInv, PTL

(***************************************************************************)
(* When the loop of functionDepthFirstSearch ends, no block can weaken a   *)
(* successor any further, whatever the transfer functions are, even those  *)
(* that are not monotone, and in whatever order successors are listed.     *)
(***************************************************************************)
THEOREM EndsAtFixpoint == Spec => []FixpointReached
<1>1. Inv => FixpointReached
  <2> SUFFICES ASSUME Inv, Done, NEW b \in Seen
               PROVE  Propagated(b)
    BY DEF FixpointReached
  <2>1. b \in Blocks /\ curr \in Blocks
    BY DEF Inv, TypeInv, TypeOK
  <2>2. \A x \in Blocks : ~worklist.inQueue[x]
    BY DEF Inv, TypeInv, WorklistConsistent, Consistent, Done, Empty
  <2>3. \A s : ~Pending(s)
    BY DEF Done, Pending
  <2>4. CASE b = curr
    BY <2>1, <2>2, <2>3, <2>4 DEF Inv, CurrPropagating, Propagated
  <2>5. CASE b # curr
    BY <2>1, <2>2, <2>5 DEF Inv, OthersPropagated
  <2> QED
    BY <2>4, <2>5
<1> QED
  BY <1>1, AlwaysInv, PTL

(***************************************************************************)
(* updateSuccessorState never strengthens a fact that was already lost and *)
(* never drops the entry state of a block.                                 *)
(***************************************************************************)
THEOREM OnlyWeakens == Spec => EntryStatesOnlyWeaken
<1> DEFINE A == /\ DOMAIN blockEntryStates \subseteq DOMAIN blockEntryStates'
                /\ \A b \in DOMAIN blockEntryStates :
                     Weaker(blockEntryStates'[b], blockEntryStates[b])
<1>1. Inv /\ [Next]_vars => [A]_blockEntryStates
  <2> SUFFICES ASSUME Inv, [Next]_vars
               PROVE  A \/ blockEntryStates' = blockEntryStates
    OBVIOUS
  <2>1. TypeInv
    BY DEF Inv
  <2>2. SuccessorUpdated => A
    BY DEF SuccessorUpdated, Seen
  <2>3. CASE PopBlock \/ Terminating \/ UNCHANGED vars
    BY <2>3 DEF PopBlock, Terminating, vars
  <2>4. CASE FirstVisit \/ MergeChanges \/ MergeKeeps
    BY <2>1, <2>2, <2>4, FirstVisitUpdates, MergeChangesUpdates, MergeKeepsUpdates
  <2> QED
    BY <2>3, <2>4 DEF Next, Step
<1> QED
  BY <1>1, AlwaysInv, PTL DEF Spec, EntryStatesOnlyWeaken

-----------------------------------------------------------------------------
(***************************************************************************)
(* What is reported for a block stays in step with its entry state: a      *)
(* block that is not queued has been run on the state it has now.          *)
(***************************************************************************)
AllReported ==
  \A b \in Seen : ~worklist.inQueue[b] => Emit(prog, b, blockEntryStates[b]) \subseteq reports

LEMMA AllReportedStep == Inv /\ AllReported /\ Step => AllReported'
<1> SUFFICES ASSUME Inv, AllReported, Step
             PROVE  AllReported'
  OBVIOUS
<1>1. TypeInv
  BY DEF Inv
<1>2. CASE PopBlock
  <2> DEFINE b == Head(worklist.queue)
  <2>1. /\ worklist \in Worklists
        /\ Consistent(worklist)
        /\ ~Empty(worklist)
        /\ worklist' = Pop(worklist)
    BY <1>1, <1>2 DEF TypeInv, TypeOK, Worklists, WorklistConsistent, PopBlock
  <2>2. \A x \in Blocks : worklist'.inQueue[x] <=> worklist.inQueue[x] /\ x # b
    BY <2>1, PopDequeues
  <2>3. /\ blockEntryStates' = blockEntryStates
        /\ prog' = prog
        /\ reports' = reports \cup Emit(prog, b, blockEntryStates[b])
    BY <1>2 DEF PopBlock
  <2>4. Seen' = Seen /\ Seen \subseteq Blocks
    BY <1>1, <2>3 DEF Seen, TypeInv, TypeOK
  <2> SUFFICES ASSUME NEW x \in Seen, ~worklist'.inQueue[x]
               PROVE  Emit(prog, x, blockEntryStates[x]) \subseteq reports'
    BY <2>3, <2>4 DEF AllReported
  <2>5. CASE x = b
    BY <2>3, <2>5
  <2>6. CASE x # b
    BY <2>2, <2>3, <2>4, <2>6 DEF AllReported
  <2> QED
    BY <2>5, <2>6
<1>3. CASE FirstVisit \/ MergeChanges \/ MergeKeeps
  <2>1. SuccessorUpdated
    BY <1>1, <1>3, FirstVisitUpdates, MergeChangesUpdates, MergeKeepsUpdates
  <2>2. prog' = prog /\ reports' = reports
    BY <1>3 DEF FirstVisit, MergeChanges, MergeKeeps, NextSuccessor
  <2> SUFFICES ASSUME NEW x \in Seen', ~worklist'.inQueue[x]
               PROVE  Emit(prog, x, blockEntryStates'[x]) \subseteq reports
    BY <2>2 DEF AllReported
  <2>3. x \in Seen /\ x \in Blocks /\ blockEntryStates'[x] = blockEntryStates[x]
    BY <1>1, <2>1 DEF SuccessorUpdated, TypeInv, TypeOK
  <2>4. ~worklist.inQueue[x]
    BY <2>1, <2>3 DEF SuccessorUpdated
  <2> QED
    BY <2>3, <2>4 DEF AllReported
<1> QED
  BY <1>2, <1>3 DEF Step

LEMMA AlwaysAllReported == Spec => []AllReported
<1>1. Init => AllReported
  <2> SUFFICES ASSUME Init, NEW b \in Seen
               PROVE  worklist.inQueue[b]
    BY DEF AllReported
  <2>1. b = prog.entry /\ prog.entry \in Blocks
    BY ProgramAssumption DEF Init, Seen
  <2> QED
    BY <2>1 DEF Init, newBlockWorklist
<1>2. Inv /\ AllReported /\ [Next]_vars => AllReported'
  <2>1. AllReported /\ UNCHANGED vars => AllReported'
    BY DEF AllReported, Seen, vars
  <2> QED
    BY <2>1, AllReportedStep DEF Next, Terminating
<1> QED
  BY <1>1, <1>2, AlwaysInv, PTL DEF Spec

(***************************************************************************)
(* When the loop of functionDepthFirstSearch ends, every diagnostic that a *)
(* block raises in its final entry state has been recorded: a block whose  *)
(* state changed after it was analysed is always analysed again.           *)
(***************************************************************************)
FinalStatesReported ==
  Done => \A b \in Seen : Emit(prog, b, blockEntryStates[b]) \subseteq reports

LEMMA DoneQueuesNothing == TypeInv /\ Done => \A b \in Blocks : ~worklist.inQueue[b]
BY DEF TypeInv, TypeOK, WorklistConsistent, Consistent, Done, Empty

THEOREM ReportsComplete == Spec => []FinalStatesReported
<1>1. Inv /\ AllReported => FinalStatesReported
  BY DoneQueuesNothing DEF Inv, TypeInv, TypeOK, AllReported, FinalStatesReported
<1> QED
  BY <1>1, AlwaysInv, AlwaysAllReported, PTL

-----------------------------------------------------------------------------
(***************************************************************************)
(* A set of states for every block that contains the initial state and is  *)
(* closed under transfer along the edges and under the merge.              *)
(***************************************************************************)
ClosedSets(p, Good) ==
  /\ Good \in [Blocks -> SUBSET AnalysisStates]
  /\ newAnalysisState(createInitialLockset(p)) \in Good[p.entry]
  /\ \A b \in Blocks : \A s \in Good[b], i \in 1..Len(p.succs[b]) :
       Transfer(p, b, s) \in Good[p.succs[b][i]]
  /\ \A b \in Blocks : \A s, t \in Good[b] : MergeForSuccessor(s, t) \in Good[b]

WithinSets(Good) ==
  /\ \A b \in Seen : blockEntryStates[b] \in Good[b]
  /\ \A i \in 1..Len(pending) : currentState \in Good[pending[i]]

LEMMA WithinInit ==
  ASSUME Init, NEW Good, ClosedSets(prog, Good)
  PROVE  WithinSets(Good)
<1>1. Seen = {prog.entry} /\ pending = <<>>
  BY DEF Init, Seen
<1>2. blockEntryStates[prog.entry] = newAnalysisState(createInitialLockset(prog))
  BY DEF Init
<1> QED
  BY <1>1, <1>2 DEF WithinSets, ClosedSets

LEMMA WithinUpdate ==
  ASSUME Inv, NEW Good, ClosedSets(prog, Good), WithinSets(Good),
         FirstVisit \/ MergeChanges \/ MergeKeeps
  PROVE  WithinSets(Good)'
<1>1. /\ TypeInv
      /\ Successor \in Blocks
      /\ currentState \in Good[Successor]
      /\ pending' = Tail(pending)
      /\ currentState' = currentState
      /\ pending \in Seq(Blocks) /\ pending # <<>>
  <2>1. TypeInv /\ pending # <<>> /\ pending \in Seq(Blocks)
    BY DEF Inv, TypeInv, TypeOK, FirstVisit, MergeChanges, MergeKeeps, NextSuccessor
  <2>2. 1 \in 1..Len(pending) /\ Successor = pending[1]
    BY <2>1 DEF Successor
  <2>3. pending' = Tail(pending) /\ currentState' = currentState
    BY DEF FirstVisit, MergeChanges, MergeKeeps, NextSuccessor
  <2> QED
    BY <2>1, <2>2, <2>3, SuccessorIsBlock DEF WithinSets
<1>2. \A i \in 1..Len(pending') : currentState' \in Good[pending'[i]]
  <2> SUFFICES ASSUME NEW i \in 1..Len(Tail(pending))
               PROVE  currentState \in Good[Tail(pending)[i]]
    BY <1>1
  <2>1. i + 1 \in 1..Len(pending) /\ Tail(pending)[i] = pending[i + 1]
    BY <1>1
  <2> QED
    BY <2>1 DEF WithinSets
<1>3. \A b \in Seen' : blockEntryStates'[b] \in Good[b]
  <2>1. CASE FirstVisit
    <3>1. blockEntryStates' = [x \in Seen \cup {Successor} |->
                                 IF x = Successor THEN currentState ELSE blockEntryStates[x]]
      BY <2>1 DEF FirstVisit, Record
    <3> QED
      BY <1>1, <3>1 DEF Seen, WithinSets
  <2>2. CASE MergeChanges
    <3>1. blockEntryStates' = [x \in Seen \cup {Successor} |->
                                 IF x = Successor THEN Merged ELSE blockEntryStates[x]]
      BY <2>2 DEF MergeChanges, Record
    <3>2. Successor \in Seen
      BY <2>2 DEF MergeChanges
    <3>3. Merged \in Good[Successor]
      BY <1>1, <3>2 DEF ClosedSets, WithinSets, Merged
    <3> QED
      BY <1>1, <3>1, <3>3 DEF Seen, WithinSets
  <2>3. CASE MergeKeeps
    BY <2>3 DEF MergeKeeps, Seen, WithinSets
  <2> QED
    BY <2>1, <2>2, <2>3
<1> QED
  BY <1>2, <1>3 DEF WithinSets

LEMMA WithinStep ==
  ASSUME Inv, NEW Good, ClosedSets(prog, Good), WithinSets(Good), Step
  PROVE  WithinSets(Good)' /\ prog' = prog
<1>1. prog' = prog
  BY DEF Step, PopBlock, FirstVisit, MergeChanges, MergeKeeps, NextSuccessor
<1>2. CASE PopBlock
  <2> DEFINE b == Head(worklist.queue)
  <2>1. b \in Blocks /\ worklist.inQueue[b]
    BY <1>2, PopDequeues DEF Inv, TypeInv, TypeOK, Worklists, WorklistConsistent, PopBlock
  <2>2. b \in Seen
    BY <2>1 DEF Inv, TypeInv, WorklistConsistent
  <2>3. /\ blockEntryStates' = blockEntryStates
        /\ currentState' = Transfer(prog, b, blockEntryStates[b])
        /\ pending' = prog.succs[b]
    BY <1>2 DEF PopBlock
  <2>4. blockEntryStates[b] \in Good[b]
    BY <2>2 DEF WithinSets
  <2> HIDE DEF b
  <2>5. \A i \in 1..Len(prog.succs[b]) :
          Transfer(prog, b, blockEntryStates[b]) \in Good[prog.succs[b][i]]
    BY <2>1, <2>4 DEF ClosedSets
  <2> QED
    BY <1>1, <2>3, <2>5 DEF WithinSets, Seen
<1>3. CASE FirstVisit \/ MergeChanges \/ MergeKeeps
  BY <1>1, <1>3, WithinUpdate
<1> QED
  BY <1>2, <1>3 DEF Step

-----------------------------------------------------------------------------
(***************************************************************************)
(* Why the loop ends.  Weaker is a partial order, and a state has only so  *)
(* many locks to lose or to gain.                                          *)
(***************************************************************************)
LEMMA WeakerAntisymmetric ==
  ASSUME NEW s \in AnalysisStates, NEW t \in AnalysisStates, Weaker(s, t), Weaker(t, s)
  PROVE  s = t
BY DEF AnalysisStates, Weaker

EntryStatesWeakened ==
  /\ blockEntryStates' # blockEntryStates
  /\ Seen \subseteq Seen'
  /\ \A b \in Seen : Weaker(blockEntryStates'[b], blockEntryStates[b])

(***************************************************************************)
(* A step weakens the entry states, or leaves them and shortens the queue, *)
(* or leaves both and shortens the list of successors to update.           *)
(***************************************************************************)
Descends ==
  \/ EntryStatesWeakened
  \/ UNCHANGED blockEntryStates /\ Len(worklist'.queue) < Len(worklist.queue)
  \/ UNCHANGED <<blockEntryStates, worklist>> /\ Len(pending') < Len(pending)

(***************************************************************************)
(* Every step of functionDepthFirstSearch goes down in this order, of      *)
(* which nothing is endless for finitely many blocks and locks: a block is *)
(* queued again only when its entry state has changed                      *)
(* (cfg_traversal.go, updateSuccessorState), and none ever recovers.       *)
(***************************************************************************)
THEOREM EveryStepDescends == Spec => [][Descends]_vars
<1>1. Inv /\ [Next]_vars => [Descends]_vars
  <2> SUFFICES ASSUME Inv, Next
               PROVE  Descends \/ UNCHANGED vars
    OBVIOUS
  <2>1. /\ TypeInv
        /\ worklist.queue \in Seq(Blocks) /\ pending \in Seq(Blocks)
        /\ blockEntryStates \in [Seen -> AnalysisStates]
    BY DEF Inv, TypeInv, TypeOK
  <2>2. CASE PopBlock
    <3>1. worklist'.queue = Tail(worklist.queue) /\ worklist.queue # <<>> /\ UNCHANGED blockEntryStates
      BY <2>2 DEF PopBlock, Pop, Empty
    <3>2. Len(worklist'.queue) < Len(worklist.queue)
      BY <2>1, <3>1
    <3> QED
      BY <3>1, <3>2 DEF Descends
  <2>3. CASE FirstVisit
    <3>1. SuccessorUpdated
      BY <2>1, <2>3, FirstVisitUpdates
    <3>2. Successor \in Seen' /\ Successor \notin Seen
      BY <2>3, <3>1 DEF SuccessorUpdated, FirstVisit, Record, Seen
    <3>3. blockEntryStates' # blockEntryStates
      BY <3>2 DEF Seen
    <3> QED
      BY <3>1, <3>3 DEF Descends, EntryStatesWeakened, SuccessorUpdated
  <2>4. CASE MergeChanges
    <3>1. SuccessorUpdated
      BY <2>1, <2>4, MergeChangesUpdates
    <3>2. blockEntryStates' = [x \in Seen \cup {Successor} |->
                                 IF x = Successor THEN Merged ELSE blockEntryStates[x]]
      BY <2>4 DEF MergeChanges, Record
    <3>3. blockEntryStates' # blockEntryStates
      BY <2>4, <3>2 DEF MergeChanges
    <3> QED
      BY <3>1, <3>3 DEF Descends, EntryStatesWeakened, SuccessorUpdated
  <2>5. CASE MergeKeeps
    <3>1. pending' = Tail(pending) /\ pending # <<>> /\ UNCHANGED <<blockEntryStates, worklist>>
      BY <2>5 DEF MergeKeeps, NextSuccessor
    <3>2. Len(pending') < Len(pending)
      BY <2>1, <3>1
    <3> QED
      BY <3>1, <3>2 DEF Descends
  <2>6. CASE Terminating
    BY <2>6 DEF Terminating
  <2> QED
    BY <2>2, <2>3, <2>4, <2>5, <2>6 DEF Next, Step
<1> QED
  BY <1>1, AlwaysInv, PTL DEF Spec

=============================================================================
