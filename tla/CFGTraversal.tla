---------------------------- MODULE CFGTraversal ----------------------------
(***************************************************************************)
(* The worklist iteration that analyses one function:                      *)
(* functionDepthFirstSearch and updateSuccessorState of                    *)
(* analyzer/cfg_traversal.go over the queue of analyzer/worklist.go.       *)
(*                                                                         *)
(* What one basic block does to the state and what it reports is a         *)
(* parameter here (analyzeInstructions; module InstructionAnalysis defines *)
(* it), so what is proved of the iteration holds whatever the              *)
(* instructions do.                                                        *)
(***************************************************************************)
EXTENDS AnalysisState, Naturals, Sequences

CONSTANTS
  Blocks,            \* basic blocks
  Programs,          \* the functions that may be analysed
  Transfer(_, _, _), \* state after block b of program p entered in state s
  Emit(_, _, _),     \* diagnostics of block b of program p entered in state s
  Prologue(_)        \* diagnostics reported before the iteration starts

(***************************************************************************)
(* A program has at least an entry block, the successors of every block in *)
(* the order of ssa.BasicBlock.Succs, and the locks its @requires names    *)
(* (unresolved ones are not in Locks).                                     *)
(***************************************************************************)
ASSUME ProgramAssumption ==
  \A p \in Programs :
    /\ p.entry \in Blocks
    /\ p.succs \in [Blocks -> Seq(Blocks)]

ASSUME TransferAssumption ==
  \A p \in Programs, b \in Blocks, s \in AnalysisStates :
    Transfer(p, b, s) \in AnalysisStates

VARIABLES
  prog,              \* the function under analysis; never changes
  worklist,          \* the blocks still to process
  blockEntryStates,  \* entry state of every block seen so far
  curr,              \* the block popped last
  currentState,      \* the state at the end of curr
  pending,           \* successors of curr not yet updated
  reports            \* diagnostics recorded so far (deduplicated)

vars == <<prog, worklist, blockEntryStates, curr, currentState, pending, reports>>

(***************************************************************************)
(* The worklist: a FIFO queue that holds a block at most once.             *)
(***************************************************************************)
newBlockWorklist(entry) ==
  [queue |-> <<entry>>, inQueue |-> [b \in Blocks |-> b = entry]]

Push(w, b) ==
  IF w.inQueue[b]
  THEN w
  ELSE [queue |-> Append(w.queue, b), inQueue |-> [w.inQueue EXCEPT ![b] = TRUE]]

\* Slip: a popped block stays marked as queued.
PopKeepsMark(w) == [w EXCEPT !.queue = Tail(w.queue)]

Pop(w) ==
  [queue |-> Tail(w.queue), inQueue |-> [w.inQueue EXCEPT ![Head(w.queue)] = FALSE]]

Empty(w) == w.queue = <<>>

\* Slip: targets that do not resolve enter the lock set.
InitialLocksetUnresolved(p) == p.requires

(***************************************************************************)
(* The locks assumed held at entry: the resolved @requires targets.        *)
(***************************************************************************)
createInitialLockset(p) == p.requires \cap Locks

Seen == DOMAIN blockEntryStates

Record(b, s) ==
  [x \in Seen \cup {b} |-> IF x = b THEN s ELSE blockEntryStates[x]]

Init ==
  /\ prog \in Programs
  /\ worklist = newBlockWorklist(prog.entry)
  /\ blockEntryStates =
       [b \in {prog.entry} |-> newAnalysisState(createInitialLockset(prog))]
  /\ curr = prog.entry
  /\ currentState = newAnalysisState(createInitialLockset(prog))
  /\ pending = <<>>
  /\ reports = Prologue(prog)

(***************************************************************************)
(* One turn of the loop up to the successors: pop a block and run its      *)
(* instructions on a copy of its entry state.                              *)
(***************************************************************************)
PopBlock ==
  /\ pending = <<>>
  /\ ~Empty(worklist)
  /\ LET b == Head(worklist.queue) IN
       /\ curr' = b
       /\ currentState' = Transfer(prog, b, blockEntryStates[b])
       /\ reports' = reports \cup Emit(prog, b, blockEntryStates[b])
       /\ pending' = prog.succs[b]
  /\ worklist' = Pop(worklist)
  /\ UNCHANGED <<prog, blockEntryStates>>

(***************************************************************************)
(* updateSuccessorState for the next successor of curr: a successor seen   *)
(* for the first time takes the state as it is; one seen before takes the  *)
(* merge, and is queued again only if the merge changed it.                *)
(***************************************************************************)
Successor == Head(pending)

NextSuccessor ==
  /\ pending # <<>>
  /\ pending' = Tail(pending)
  /\ UNCHANGED <<prog, curr, currentState, reports>>

FirstVisit ==
  /\ NextSuccessor
  /\ Successor \notin Seen
  /\ blockEntryStates' = Record(Successor, currentState)
  /\ worklist' = Push(worklist, Successor)

Merged == MergeForSuccessor(blockEntryStates[Successor], currentState)

\* Slip: a block whose entry state changed is not queued again.
MergeChangesWithoutPush ==
  /\ NextSuccessor
  /\ Successor \in Seen
  /\ Merged # blockEntryStates[Successor]
  /\ blockEntryStates' = Record(Successor, Merged)
  /\ UNCHANGED worklist

MergeChanges ==
  /\ NextSuccessor
  /\ Successor \in Seen
  /\ Merged # blockEntryStates[Successor]
  /\ blockEntryStates' = Record(Successor, Merged)
  /\ worklist' = Push(worklist, Successor)

\* Slip: a block is queued again although its entry state is the same.
MergeKeepsButPushes ==
  /\ NextSuccessor
  /\ Successor \in Seen
  /\ Merged = blockEntryStates[Successor]
  /\ worklist' = Push(worklist, Successor)
  /\ UNCHANGED blockEntryStates

MergeKeeps ==
  /\ NextSuccessor
  /\ Successor \in Seen
  /\ Merged = blockEntryStates[Successor]
  /\ UNCHANGED <<blockEntryStates, worklist>>

Done == Empty(worklist) /\ pending = <<>>

Terminating == Done /\ UNCHANGED vars

Step ==
  \/ PopBlock
  \/ FirstVisit
  \/ MergeChanges
  \/ MergeKeeps

Next == Step \/ Terminating

Spec == Init /\ [][Next]_vars

(***************************************************************************)
(* The iteration is one sequential loop, so it keeps taking its next step. *)
(***************************************************************************)
FairSpec == Spec /\ WF_vars(Step)

-----------------------------------------------------------------------------

(***************************************************************************)
(* Types of the variables.                                                 *)
(***************************************************************************)
TypeOK ==
  /\ prog.entry \in Blocks
  /\ prog.succs \in [Blocks -> Seq(Blocks)]
  /\ worklist \in [queue : Seq(Blocks), inQueue : [Blocks -> BOOLEAN]]
  /\ Seen \subseteq Blocks
  /\ blockEntryStates \in [Seen -> AnalysisStates]
  /\ curr \in Seen
  /\ currentState \in AnalysisStates
  /\ pending \in Seq(Blocks)

(***************************************************************************)
(* The inQueue map agrees with the queue, the queue holds no block twice   *)
(* and only blocks that have an entry state.  A block marked as queued but *)
(* missing from the queue would never be analysed again (worklist.go Push).*)
(***************************************************************************)
Consistent(w) ==
  /\ \A b \in Blocks : w.inQueue[b] <=> \E i \in 1..Len(w.queue) : w.queue[i] = b
  /\ \A i, j \in 1..Len(w.queue) : w.queue[i] = w.queue[j] => i = j

WorklistConsistent ==
  /\ Consistent(worklist)
  /\ \A b \in Blocks : worklist.inQueue[b] => b \in Seen

(***************************************************************************)
(* The state that block b propagates to block s is already accounted for.  *)
(***************************************************************************)
Absorbed(b, s) ==
  s \in Seen /\ Weaker(blockEntryStates[s], Transfer(prog, b, blockEntryStates[b]))

IsSuccessor(s, b) == \E i \in 1..Len(prog.succs[b]) : prog.succs[b][i] = s

Propagated(b) == \A s \in Blocks : IsSuccessor(s, b) => Absorbed(b, s)

(***************************************************************************)
(* When the loop ends the entry states are a solution of the data-flow     *)
(* equations: no block could still weaken a successor, whatever transfer   *)
(* functions the blocks have and in whatever order blocks were processed.  *)
(***************************************************************************)
FixpointReached ==
  Done => \A b \in Seen : Propagated(b)

(***************************************************************************)
(* An entry state is only ever weakened and never forgotten: a lock that   *)
(* left HeldLocks of a block does not come back, one that entered          *)
(* MayHeldLocks does not leave.  This is what makes the loop stop even     *)
(* though RunDefers is not a monotone transfer function.                   *)
(***************************************************************************)
EntryStatesOnlyWeaken ==
  [][/\ DOMAIN blockEntryStates \subseteq DOMAIN blockEntryStates'
     /\ \A b \in DOMAIN blockEntryStates :
          Weaker(blockEntryStates'[b], blockEntryStates[b])]_blockEntryStates

(***************************************************************************)
(* The analysis of a function terminates.                                  *)
(***************************************************************************)
Termination == <>Done

==============================================================================
