-------------------------- MODULE FunctionAnalysis --------------------------
(***************************************************************************)
(* The analysis of one function: CFGTraversal over the instructions of     *)
(* InstructionAnalysis (Transfer is BlockTransfer, Emit is BlockEmit and   *)
(* Prologue is RequiresReports), compared with what every path through the *)
(* function would give on its own.                                         *)
(***************************************************************************)
EXTENDS CFGTraversal, InstructionAnalysis

CONSTANT PathBound   \* edges of the paths the reference enumerates

(***************************************************************************)
(* What the traversal does at a block is what its instructions do.         *)
(***************************************************************************)
ASSUME BlockAssumption ==
  \A p \in Programs :
    /\ Prologue(p) = RequiresReports(p)
    /\ \A b \in Blocks, s \in AnalysisStates :
         /\ Transfer(p, b, s) = BlockTransfer(p, b, s)
         /\ Emit(p, b, s) = BlockEmit(p, b, s)

ASSUME PathBoundAssumption == PathBound \in Nat

-----------------------------------------------------------------------------
(***************************************************************************)
(* The reference the worklist is compared with: the states at the entry of *)
(* every block over all paths of the graph, without any merging.           *)
(* PathStatesUpTo(p)[n][b]: states of paths with at most n edges.          *)
(***************************************************************************)
NoEdges(p) ==
  [b \in Blocks |->
     IF b = p.entry THEN {newAnalysisState(createInitialLockset(p))} ELSE {}]

OneEdgeMore(p, paths) ==
  LET leaving == [a \in Blocks |-> {Transfer(p, a, s) : s \in paths[a]}]
      before(b) == {a \in Blocks : \E k \in 1..Len(p.succs[a]) : p.succs[a][k] = b}
  IN  [b \in Blocks |-> paths[b] \cup UNION {leaving[a] : a \in before(b)}]

PathStatesUpTo(p) ==
  LET paths[n \in 0..PathBound] ==
        IF n = 0 THEN NoEdges(p) ELSE OneEdgeMore(p, paths[n - 1])
  IN  paths

PathStates(p) == PathStatesUpTo(p)[PathBound]

-----------------------------------------------------------------------------
(***************************************************************************)
(* The functions for which the comparison comes out even.  The reference   *)
(* has seen every state: longer paths bring no further one.                *)
(***************************************************************************)
PathsComplete(p) ==
  LET paths == PathStates(p) IN
    \A b \in Blocks : \A s \in paths[b], k \in 1..Len(p.succs[b]) :
      Transfer(p, b, s) \in paths[p.succs[b][k]]

WellTyped(i) ==
  /\ i.op \in {"lock", "unlock"} => i.lock \in Locks \cup {Nil}
  /\ i.op = "defer" => i.locks \subseteq Locks /\ i.unlocks \subseteq Locks

WellFormed(p) ==
  \A b \in Blocks :
    Len(p.body[b]) \in Nat /\ \A k \in 1..Len(p.body[b]) : WellTyped(p.body[b][k])

(***************************************************************************)
(* The same unlocks (locks) are deferred on every path to a block: pend    *)
(* has them for every block, and every edge agrees.                        *)
(***************************************************************************)
PendingUnlocks(p, pend) ==
  /\ pend[p.entry] = {}
  /\ \A b \in Blocks, s \in AnalysisStates : \A k \in 1..Len(p.succs[b]) :
       s.DeferredUnlocks = pend[b]
         => BlockTransfer(p, b, s).DeferredUnlocks = pend[p.succs[b][k]]

PendingLocks(p, pend) ==
  /\ pend[p.entry] = {}
  /\ \A b \in Blocks, s \in AnalysisStates : \A k \in 1..Len(p.succs[b]) :
       s.DeferredLocks = pend[b]
         => BlockTransfer(p, b, s).DeferredLocks = pend[p.succs[b][k]]

UnlocksAgree(p) == \E pend \in [Blocks -> SUBSET Locks] : PendingUnlocks(p, pend)

LocksAgree(p) == \E pend \in [Blocks -> SUBSET Locks] : PendingLocks(p, pend)

(***************************************************************************)
(* No two locks share a name.                                              *)
(***************************************************************************)
NamesDistinct == \A l, k \in Locks : NameOf[l] = NameOf[k] => l = k

Comparable(p) ==
  WellFormed(p) /\ PathsComplete(p) /\ UnlocksAgree(p) /\ LocksAgree(p)

(***************************************************************************)
(* No call releases a lock of the caller.  Where one does, the lock leaves *)
(* MayHeldLocks only if it is held on every path to the call.              *)
(***************************************************************************)
CallsKeepLocks(p) ==
  \A b \in Blocks : \A k \in 1..Len(p.body[b]) :
    p.body[b][k].op = "call" =>
      \A l \in p.body[b][k].callee.requires \cap Locks :
        ~isHeldLockEquivalent(p.body[b][k].callee.released, l)

-----------------------------------------------------------------------------
(***************************************************************************)
(* Merging at joins and stopping at a fixpoint lose nothing: at the end a  *)
(* block has an entry state iff some path reaches it, HeldLocks is exactly *)
(* what all those paths hold and MayHeldLocks what any of them holds.      *)
(***************************************************************************)
MeetOverPaths ==
  Done =>
    LET paths == PathStates(prog) IN
      \A b \in Blocks :
        /\ b \in Seen <=> paths[b] # {}
        /\ b \in Seen =>
             /\ blockEntryStates[b].HeldLocks =
                  {l \in Locks : \A s \in paths[b] : l \in s.HeldLocks}
             /\ blockEntryStates[b].MayHeldLocks =
                  UNION {s.MayHeldLocks : s \in paths[b]}

(***************************************************************************)
(* Diagnostics are recorded while entry states are still changing and are  *)
(* never withdrawn.  Even so every finding has a witness: a path that      *)
(* would raise it when analysed alone.                                     *)
(***************************************************************************)
FindingsHaveWitness ==
  Done =>
    LET paths == PathStates(prog) IN
      \A d \in reports : d.kind \in FindingKinds =>
        \E s \in paths[d.at[1]] :
          \E e \in Emit(prog, d.at[1], s) :
            e.kind = d.kind /\ e.at = d.at /\ d.locks \subseteq e.locks

=============================================================================
