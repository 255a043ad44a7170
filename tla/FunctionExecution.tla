------------------------- MODULE FunctionExecution -------------------------
(***************************************************************************)
(* The analysis of one function (FunctionAnalysis) followed by a run of    *)
(* that function (GoExecution): whatever the run does must agree with what *)
(* the analysis concluded.                                                 *)
(***************************************************************************)
EXTENDS FunctionAnalysis, GoExecution

\* Every mutex of the program is a lock object of the analyzer.
ASSUME MutexAssumption == Mutexes = Locks

allVars == <<vars, execVars>>

FInit == Init /\ ExecInit(prog)

Analyze == Step /\ UNCHANGED execVars

Run == Done /\ Execute(prog) /\ UNCHANGED vars

Finished == Done /\ status # "running" /\ UNCHANGED allVars

FNext == Analyze \/ Run \/ Finished

FSpec == FInit /\ [][FNext]_allVars

-----------------------------------------------------------------------------
(***************************************************************************)
(* The functions for which the facts are claimed to be sound.  First, what *)
(* the analyzer collects from the code of others is what that code does.   *)
(*                                                                         *)
(* Net(ops, locks, unlocks): whatever is held before, if ops comes to its  *)
(* end then locks were taken and unlocks were released, and nothing else.  *)
(***************************************************************************)
Net(ops, locks, unlocks) ==
  /\ ops \in Seq(LockOps)
  /\ \A ls \in SUBSET Mutexes :
       RunOps(ops, ls).status = "running" => RunOps(ops, ls).held = (ls \cup locks) \ unlocks

(***************************************************************************)
(* Lock statements are resolved; a callee returns with the locks it was    *)
(* called with, but for those its @requires names and its body unlocks; a  *)
(* deferred call has the effects collected for it.                         *)
(***************************************************************************)
Sincere(i) ==
  /\ i.op \in {"lock", "unlock"} => i \in LockOps
  /\ i.op = "call" => /\ i.callee.released \subseteq Locks
                      /\ Net(i.callee.ops, {}, i.callee.requires \cap i.callee.released)
  /\ i.op = "dyncall" => \A c \in i.targets : Net(c.ops, {}, {})
  /\ i.op = "defer" => /\ i.locks \subseteq Locks
                       /\ i.unlocks \subseteq Locks
                       /\ Net(i.ops, i.locks, i.unlocks)

(***************************************************************************)
(* A lock that one deferred call unlocks and another one takes is unlocked *)
(* by the latter too: otherwise the order of the defers matters, which     *)
(* applyDeferredEffects does not know.                                     *)
(***************************************************************************)
DefersCompatible(p) ==
  \A a, b \in Blocks : \A j \in 1..Len(p.body[a]), k \in 1..Len(p.body[b]) :
    p.body[a][j].op = "defer" /\ p.body[b][k].op = "defer" =>
      p.body[a][j].unlocks \cap p.body[b][k].locks \subseteq p.body[b][k].unlocks

Analyzable(p) ==
  /\ \A b \in Blocks :
       Len(p.body[b]) \in Nat /\ \A k \in 1..Len(p.body[b]) : Sincere(p.body[b][k])
  /\ DefersCompatible(p)

(***************************************************************************)
(* A callee that declares @acquires declares every lock its body takes:    *)
(* the body is then not looked at.                                         *)
(***************************************************************************)
AcquiresDeclared(p) ==
  \A b \in Blocks : \A k \in 1..Len(p.body[b]) :
    p.body[b][k].op = "call" /\ hasExplicitAcquires(p.body[b][k].callee) =>
      p.body[b][k].callee.acquired \subseteq p.body[b][k].callee.acquires

(***************************************************************************)
(* A target of a dynamic call that blocks still holds what its caller      *)
(* held: it unlocks no lock that it has not taken.                         *)
(***************************************************************************)
TargetsKeepLocks(p) ==
  \A b \in Blocks : \A k \in 1..Len(p.body[b]) :
    p.body[b][k].op = "dyncall" =>
      \A c \in p.body[b][k].targets, ls \in SUBSET Mutexes :
        RunOps(c.ops, ls).status = "blocked" => ls \subseteq RunOps(c.ops, ls).held

-----------------------------------------------------------------------------
(***************************************************************************)
(* The fact the analysis established just before the next instruction.     *)
(***************************************************************************)
Here == StateAt(prog, at, blockEntryStates[at])[pc - 1]

AtInstruction == Done /\ Running(prog)

ThisInstr == prog.body[at][pc]

Reported(kind, locks) ==
  \E d \in reports : d.kind = kind /\ d.at = <<at, pc>> /\ locks \subseteq d.locks

(***************************************************************************)
(* HeldLocks is a must fact: wherever a run is, it holds every lock the    *)
(* analysis says is held there ("HeldLocks remains must-hold", state.go).  *)
(***************************************************************************)
HeldLocksMustHold == AtInstruction => Here.HeldLocks \subseteq held

(***************************************************************************)
(* MayHeldLocks covers every lock some run can hold at that point.         *)
(***************************************************************************)
MayHeldLocksCover == AtInstruction => held \subseteq Here.MayHeldLocks

(***************************************************************************)
(* A run that touches guarded data, calls a function or returns without a  *)
(* lock it needs has been reported at that very instruction.               *)
(***************************************************************************)
LockNeededReported ==
  AtInstruction =>
    /\ ThisInstr.op = "access" /\ ThisInstr.guard \in Locks \ held
         => Reported("GuardViolation", {NameOf[ThisInstr.guard]})
    /\ ThisInstr.op = "call"
         => \A l \in (ThisInstr.callee.requires \cap Locks) \ held :
              Reported("MissingLock", {NameOf[l]})
    /\ ThisInstr.op = "return"
         => \A l \in (prog.returns \cap Locks) \ held :
              Reported("ReturnMissing", {NameOf[l]})

(***************************************************************************)
(* A run that blocks on a mutex it already holds, in a lock statement of   *)
(* the function itself, has been reported there.                           *)
(***************************************************************************)
SelfDeadlockReported ==
  Done /\ status = "blocked" /\ ThisInstr.op = "lock"
    => Reported("Reacquired", {NameOf[ThisInstr.lock]})

(***************************************************************************)
(* The locks held on every path to the next instruction.                   *)
(***************************************************************************)
HeldOnEveryPath ==
  {l \in Locks : \A s \in PathStates(prog)[at] : l \in StateAt(prog, at, s)[pc - 1].HeldLocks}

Blocked(op) == Done /\ status = "blocked" /\ ThisInstr.op = op

(***************************************************************************)
(* A run that blocks in a callee on a lock that every path to the call     *)
(* holds has been reported at the call as a finding.                       *)
(***************************************************************************)
CallDeadlockReported ==
  Blocked("call") =>
    \A l \in (ThisInstr.callee.acquired \cap HeldOnEveryPath) \ ThisInstr.callee.requires :
      Reported("AlreadyAcquired", {NameOf[l]})

(***************************************************************************)
(* The same for a dynamic call, where an advisory that names the lock is   *)
(* enough.                                                                 *)
(***************************************************************************)
DynamicCallDeadlockNoticed ==
  Blocked("dyncall") /\ held \subseteq HeldOnEveryPath =>
    \E l \in held :
      \/ Reported("AlreadyAcquired", {NameOf[l]})
      \/ Reported("DynamicCallback", {NameOf[l]})

============================================================================
