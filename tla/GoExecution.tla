----------------------------- MODULE GoExecution -----------------------------
(***************************************************************************)
(* What the analyzed function does when it runs: one goroutine following   *)
(* the control flow graph, holding real mutexes and a stack of deferred    *)
(* calls.  This is the Go runtime and package sync, not code of the        *)
(* analyzer; the analyzer's facts and diagnostics are judged against it.   *)
(*                                                                         *)
(* Every branch can be taken either way.  The body of a callee is a        *)
(* straight sequence of lock and unlock instructions, so is the body of a  *)
(* deferred call.                                                          *)
(***************************************************************************)
EXTENDS Naturals, Sequences

CONSTANTS
  Mutexes,      \* the mutexes of the program
  DeferBound    \* deferred calls one run may have pending

VARIABLES
  at, pc,       \* block and index of the next instruction
  held,         \* mutexes the goroutine holds
  deferred,     \* bodies of the pending deferred calls, innermost last
  status        \* running, blocked (on its own lock), panicked or returned

execVars == <<at, pc, held, deferred, status>>

(***************************************************************************)
(* Holding set and status after a sequence of lock operations: locking a   *)
(* held mutex blocks forever, unlocking a free one is a fatal error.       *)
(***************************************************************************)
RunOps(ops, ls) ==
  LET after[n \in 0..Len(ops)] ==
        IF n = 0
        THEN [held |-> ls, status |-> "running"]
        ELSE LET r == after[n - 1]
                 o == ops[n]
             IN  CASE r.status # "running" -> r
                   [] r.status = "running" /\ o.op = "lock" ->
                        IF o.lock \in r.held
                        THEN [r EXCEPT !.status = "blocked"]
                        ELSE [r EXCEPT !.held = @ \cup {o.lock}]
                   [] OTHER ->
                        IF o.lock \in r.held
                        THEN [r EXCEPT !.held = @ \ {o.lock}]
                        ELSE [r EXCEPT !.status = "panicked"]
  IN  after[Len(ops)]

LockOps == [op : {"lock", "unlock"}, lock : Mutexes]

(***************************************************************************)
(* Deferred calls run last in, first out.                                  *)
(***************************************************************************)
UnwindOps(stack) ==
  LET ops[n \in 0..Len(stack)] == IF n = 0 THEN <<>> ELSE stack[n] \o ops[n - 1]
  IN  ops[Len(stack)]

(***************************************************************************)
(* The caller keeps the contract: it holds what @requires names.           *)
(***************************************************************************)
ExecInit(p) ==
  /\ at = p.entry
  /\ pc = 1
  /\ held = p.requires \cap Mutexes
  /\ deferred = <<>>
  /\ status = "running"

Running(p) == status = "running" /\ pc \in 1..Len(p.body[at])

Perform(ops) ==
  LET r == RunOps(ops, held) IN
    /\ held' = r.held
    /\ status' = r.status
    /\ pc' = IF r.status = "running" THEN pc + 1 ELSE pc
    /\ UNCHANGED at

LockOrUnlock(p) ==
  /\ Running(p)
  /\ p.body[at][pc].op \in {"lock", "unlock"}
  /\ Perform(<<p.body[at][pc]>>)
  /\ UNCHANGED deferred

Call(p) ==
  /\ Running(p)
  /\ p.body[at][pc].op = "call"
  /\ Perform(p.body[at][pc].callee.ops)
  /\ UNCHANGED deferred

(***************************************************************************)
(* A call through an interface or function value reaches one of its        *)
(* targets, or code outside the package that touches none of the locks.    *)
(***************************************************************************)
DynamicCall(p) ==
  /\ Running(p)
  /\ p.body[at][pc].op = "dyncall"
  /\ \E ops \in {c.ops : c \in p.body[at][pc].targets} \cup {<<>>} : Perform(ops)
  /\ UNCHANGED deferred

Defer(p) ==
  /\ Running(p)
  /\ p.body[at][pc].op = "defer"
  /\ Len(deferred) < DeferBound
  /\ deferred' = Append(deferred, p.body[at][pc].ops)
  /\ Perform(<<>>)

RunDefers(p) ==
  /\ Running(p)
  /\ p.body[at][pc].op = "rundefers"
  /\ Perform(UnwindOps(deferred))
  /\ deferred' = <<>>

OtherInstruction(p) ==
  /\ Running(p)
  /\ p.body[at][pc].op \in {"access", "nop"}
  /\ Perform(<<>>)
  /\ UNCHANGED deferred

Return(p) ==
  /\ Running(p)
  /\ p.body[at][pc].op = "return"
  /\ status' = "returned"
  /\ UNCHANGED <<at, pc, held, deferred>>

Branch(p) ==
  /\ status = "running"
  /\ pc = Len(p.body[at]) + 1
  /\ \E n \in 1..Len(p.succs[at]) : at' = p.succs[at][n]
  /\ pc' = 1
  /\ UNCHANGED <<held, deferred, status>>

Execute(p) ==
  \/ LockOrUnlock(p)
  \/ Call(p)
  \/ DynamicCall(p)
  \/ Defer(p)
  \/ RunDefers(p)
  \/ OtherInstruction(p)
  \/ Return(p)
  \/ Branch(p)

==============================================================================
