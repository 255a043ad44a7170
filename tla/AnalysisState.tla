---------------------------- MODULE AnalysisState ----------------------------
(***************************************************************************)
(* The abstract state the analyzer computes at every program point of a    *)
(* function: analyzer/state.go.  A Go LockSet is a map whose entries are   *)
(* all true (a released lock is deleted), so it is a set of lock objects   *)
(* and its Copy, Equals, Intersect and Union are the operations of sets.   *)
(***************************************************************************)

CONSTANT
  Locks       \* the types.Object values that denote a mutex

AnalysisStates ==
  [HeldLocks       : SUBSET Locks,   \* held on every path (must)
   MayHeldLocks    : SUBSET Locks,   \* held on some path (may)
   DeferredLocks   : SUBSET Locks,   \* locked by a pending defer
   DeferredUnlocks : SUBSET Locks]   \* unlocked by a pending defer

newAnalysisState(initial) ==
  [HeldLocks       |-> initial,
   MayHeldLocks    |-> initial,
   DeferredLocks   |-> {},
   DeferredUnlocks |-> {}]

\* Slip: the must facts of two paths are united.
MergeUnitesHeld(s, other) ==
  [HeldLocks       |-> s.HeldLocks \cup other.HeldLocks,
   MayHeldLocks    |-> s.MayHeldLocks \cup other.MayHeldLocks,
   DeferredLocks   |-> s.DeferredLocks \cap other.DeferredLocks,
   DeferredUnlocks |-> s.DeferredUnlocks \cap other.DeferredUnlocks]

\* Slip: a lock held on one path only is no longer a may fact.
MergeIntersectsMay(s, other) ==
  [HeldLocks       |-> s.HeldLocks \cap other.HeldLocks,
   MayHeldLocks    |-> s.MayHeldLocks \cap other.MayHeldLocks,
   DeferredLocks   |-> s.DeferredLocks \cap other.DeferredLocks,
   DeferredUnlocks |-> s.DeferredUnlocks \cap other.DeferredUnlocks]

\* Slip: the merged state is built without the pending unlocks.
MergeForgetsUnlocks(s, other) ==
  [HeldLocks       |-> s.HeldLocks \cap other.HeldLocks,
   MayHeldLocks    |-> s.MayHeldLocks \cup other.MayHeldLocks,
   DeferredLocks   |-> s.DeferredLocks \cap other.DeferredLocks,
   DeferredUnlocks |-> {}]

(***************************************************************************)
(* The combination of two incoming states at a join of the control flow    *)
(* graph: must facts are intersected, may facts are united.                *)
(***************************************************************************)
MergeForSuccessor(s, other) ==
  [HeldLocks       |-> s.HeldLocks \cap other.HeldLocks,
   MayHeldLocks    |-> s.MayHeldLocks \cup other.MayHeldLocks,
   DeferredLocks   |-> s.DeferredLocks \cap other.DeferredLocks,
   DeferredUnlocks |-> s.DeferredUnlocks \cap other.DeferredUnlocks]

(***************************************************************************)
(* The order the merge induces.  Weaker(s, t): s claims no more than t,    *)
(* so that merging t into s changes nothing.                               *)
(***************************************************************************)
Weaker(s, t) ==
  /\ s.HeldLocks \subseteq t.HeldLocks
  /\ t.MayHeldLocks \subseteq s.MayHeldLocks
  /\ s.DeferredLocks \subseteq t.DeferredLocks
  /\ s.DeferredUnlocks \subseteq t.DeferredUnlocks

==============================================================================
