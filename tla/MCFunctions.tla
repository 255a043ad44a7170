---------------------------- MODULE MCFunctions ----------------------------
(***************************************************************************)
(* The functions the model checker analyses: shapes of control flow with   *)
(* up to five blocks and in every block an instruction of a small set,     *)
(* over one lock, or two where functions are called.                       *)
(***************************************************************************)
EXTENDS Naturals, Sequences, TLC

CONSTANTS m, n, NoObject

OneLock == {m}

TwoLocks == {m, n}

OneName == m :> "mu"

TwoNames == m :> "mu" @@ n :> "aux"

FiveBlocks == 1..5

ThreeBlocks == 1..3

(***************************************************************************)
(* Control flow: successors in the order of ssa.BasicBlock.Succs; a block  *)
(* without successors ends with a return.                                  *)
(***************************************************************************)
Straight   == << <<2>>, <<3>>, <<>>, <<>>, <<>> >>
Diamond    == << <<2, 3>>, <<4>>, <<4>>, <<>>, <<>> >>
IfThen     == << <<2, 3>>, <<3>>, <<>>, <<>>, <<>> >>
Loop       == << <<2>>, <<3, 4>>, <<2>>, <<>>, <<>> >>
TwoReturns == << <<2, 3>>, <<>>, <<4>>, <<>>, <<>> >>
LongArm    == << <<2, 4>>, <<3>>, <<4>>, <<>>, <<>> >>
LoopBreak  == << <<2>>, <<3, 5>>, <<4, 5>>, <<2>>, <<>> >>

Shapes == {Straight, Diamond, IfThen, Loop, TwoReturns, LongArm, LoopBreak}

Used(succs) == {1} \cup UNION {{succs[b][k] : k \in DOMAIN succs[b]} : b \in DOMAIN succs}

(***************************************************************************)
(* Instructions.                                                           *)
(***************************************************************************)
Lock == [op |-> "lock", lock |-> m]
Unlock == [op |-> "unlock", lock |-> m]
Access == [op |-> "access", guard |-> m]
AccessUnresolved == [op |-> "access", guard |-> NoObject]
Nop == [op |-> "nop"]
DeferUnlock == [op |-> "defer", ops |-> <<Unlock>>, locks |-> {}, unlocks |-> {m}]
DeferLock == [op |-> "defer", ops |-> <<Lock>>, locks |-> {m}, unlocks |-> {}]

Plain == {<<Lock>>, <<Unlock>>, <<Access>>, <<Nop>>}

LockWithDefer == {<<Lock, DeferUnlock>>, <<Unlock, DeferLock>>}

Function(shape, body, requires, returns) ==
  [entry |-> 1, succs |-> shape, requires |-> requires, returns |-> returns,
   body |-> [b \in DOMAIN shape |->
               CASE b \notin Used(shape)  -> <<>>
                 [] b \in Used(shape) /\ shape[b] = <<>> ->
                      body[b] \o <<[op |-> "rundefers"], [op |-> "return"]>>
                 [] OTHER                 -> body[b]]]

Functions(shapes, entries, others, contracts) ==
  UNION {{Function(shape, body, c[1], c[2]) :
             body \in {f \in [Used(shape) -> entries \cup others] :
                         /\ f[1] \in entries
                         /\ \A b \in Used(shape) \ {1} : f[b] \in others},
             c \in contracts} : shape \in shapes}

(***************************************************************************)
(* Annotations that name no lock the analyzer can resolve.                 *)
(***************************************************************************)
Unresolved ==
  Functions({IfThen}, {<<Lock>>, <<Nop>>}, Plain \cup {<<AccessUnresolved>>},
            {<<{m, NoObject}, {}>>, <<{}, {m, NoObject}>>})

(***************************************************************************)
(* Defers registered once, before any branch: the usual Go form.           *)
(***************************************************************************)
UnconditionalDefers ==
  Functions(Shapes \ {LoopBreak}, Plain \cup LockWithDefer, Plain,
            {<<{}, {}>>, <<{m}, {}>>, <<{}, {m}>>})
    \cup Functions({LoopBreak}, Plain \ {<<Access>>}, Plain \ {<<Access>>}, {<<{}, {}>>})
    \cup Unresolved

(***************************************************************************)
(* A defer registered in one arm of a branch.                              *)
(***************************************************************************)
ConditionalDefers == Functions({IfThen}, {<<Lock>>}, {<<DeferUnlock>>, <<Nop>>}, {<<{}, {m}>>})

(***************************************************************************)
(* Calls.  What the analyzer collects from the callee's body is derived    *)
(* from the operations that body performs.                                 *)
(***************************************************************************)
Callee(name, requires, acquires, ops) ==
  [name |-> name, requires |-> requires, acquires |-> acquires, ops |-> ops,
   acquired |-> {o.lock : o \in {ops[k] : k \in {j \in DOMAIN ops : ops[j].op = "lock"}}},
   released |-> {o.lock : o \in {ops[k] : k \in {j \in DOMAIN ops : ops[j].op = "unlock"}}},
   evidence |-> {o.lock : o \in {ops[k] : k \in {j \in DOMAIN ops : ops[j].op = "lock"}}},
   recursive |-> TRUE]

Needs == Callee("needs", {m}, {}, <<>>)
Releases == Callee("releases", {m}, {}, <<Unlock>>)
Locked == Callee("locked", {}, {}, <<Lock, Unlock>>)
DeclaredLocked == Callee("declared", {}, {m}, <<Lock, Unlock>>)

CallTo(c) == [op |-> "call", callee |-> c]
CallOneOf(cs) == [op |-> "dyncall", targets |-> cs]

CallShapes == {<< <<2>>, <<3>>, <<>> >>, << <<2, 3>>, <<3>>, <<>> >>}

LockAux == [op |-> "lock", lock |-> n]

Calls ==
  Functions(CallShapes,
            {<<Lock>>, <<LockAux>>, <<LockAux, Lock>>, <<Nop>>},
            {<<Unlock>>, <<Lock>>, <<CallTo(Needs)>>, <<CallTo(Releases)>>, <<CallTo(Locked)>>,
             <<CallTo(DeclaredLocked)>>, <<CallOneOf({Locked})>>, <<CallOneOf({DeclaredLocked})>>,
             <<CallOneOf({Locked, DeclaredLocked})>>, <<CallOneOf({})>>},
            {<<{}, {}>>})

===========================================================================
