----------------------------- MODULE CallEffects -----------------------------
(***************************************************************************)
(* Which locks a call may take and release: the three searches through the *)
(* bodies of the callees.                                                  *)
(*   effects   collectFunctionLockEffects (instruction_analysis.go): every *)
(*             function is entered once (seen)                             *)
(*   deferred  collectDeferredCallLockEffects: the same search for the     *)
(*             call of a defer statement                                   *)
(*   evidence  collectTransitiveLockUsageEvidence                          *)
(*             (recursion_heuristics.go): a function is not entered again  *)
(*             while it is active, but once per path to it                 *)
(* The recursion is a stack of frames: a function, the callees it has not  *)
(* looked at yet and the locks collected so far.  Callees come in the      *)
(* order of the instructions and, for the targets of a dynamic call, in    *)
(* that of a Go map; here in any order.                                    *)
(***************************************************************************)
EXTENDS ValueFlow

CONSTANT Programs

VARIABLES
  prog,      \* the package; never changes
  task,      \* mode, and the function or defer statement searched from
  bodies,    \* what entering a function collects from its instructions; never changes
  frames,    \* activations of the search, innermost last
  marked,    \* seen (effects, deferred) or active (evidence)
  result     \* the locks and unlocks found, None until the search ends

vars == <<prog, task, bodies, frames, marked, result>>

-----------------------------------------------------------------------------
Calls(p, f) == {i \in Instrs(p, f) : i.op = "call"}

Objects(p, calls) == Known({getLockObject(p, i) : i \in calls})

MutexesOf(p) == Objects(p, {i \in AllInstrs(p) : i.op \in {"call", "defer"}})

EffectsOf(p) == [locks : SUBSET MutexesOf(p), unlocks : SUBSET MutexesOf(p)]

ASSUME ProgramsAssumption ==
  \A p \in Programs : None \notin DOMAIN p.fns /\ None \notin EffectsOf(p)

(***************************************************************************)
(* The locks of a function's own call statements.  A lock released by a    *)
(* defer statement is not seen.                                            *)
(***************************************************************************)
collectDirectFunctionLockEffects(p, f) ==
  [locks   |-> Objects(p, {i \in Calls(p, f) : isLockCall(p, i)}),
   unlocks |-> Objects(p, {i \in Calls(p, f) : isUnlockCall(p, i)})]

(***************************************************************************)
(* The evidence of a function's own body counts deferred unlocks too.      *)
(***************************************************************************)
collectLockUsageEvidence(p, f) ==
  [locks   |-> Objects(p, {i \in Calls(p, f) : isLockCall(p, i)}),
   unlocks |-> Objects(p, {i \in Instrs(p, f) : i.op \in {"call", "defer"} /\ isUnlockCall(p, i)})]

\* Slip: the targets of a call of a computed value are not asked for.
CalleesWithoutTargets(p, f, c) ==
  IF isLockCall(p, c) \/ isUnlockCall(p, c)
  THEN {}
  ELSE Known({StaticCallee(p, c), resolveFunctionFromValue(p, c.value)})

(***************************************************************************)
(* The functions the effects of a call statement come from.                *)
(***************************************************************************)
EffectCallees(p, f, c) ==
  LET callee == StaticCallee(p, c)
      nested == resolveFunctionFromValue(p, c.value)
  IN  IF isLockCall(p, c) \/ isUnlockCall(p, c)
      THEN {}
      ELSE IF callee # None
           THEN {callee}
           ELSE IF nested # None THEN {nested} ELSE resolveDynamicCallTargets(p, f, c)

EvidenceCallees(p, f, c) ==
  IF StaticCallee(p, c) # None
  THEN {StaticCallee(p, c)}
  ELSE resolveDynamicCallTargets(p, f, c)

\* Slip: only a static callee of a deferred call is looked at.
DeferredStaticOnly(p, c) == Known({StaticCallee(p, c)})

(***************************************************************************)
(* The functions a deferred call's effects come from: those it calls and   *)
(* those the deferred closure captures.                                    *)
(***************************************************************************)
DeferredCallees(p, c) ==
  LET w == p.values[c.value]
      bindings == IF w.kind = "closure" THEN Elements(w.bindings) ELSE {}
  IN  Known({StaticCallee(p, c), resolveFunctionFromValue(p, c.value)}
              \cup {resolveFunctionFromValue(p, b) : b \in bindings})

-----------------------------------------------------------------------------
Evidence == task.mode = "evidence"

\* Slip: functions without a body are entered too.
ActivationOfAny(p, mode, f) ==
  LET own == IF mode = "evidence"
             THEN collectLockUsageEvidence(p, f)
             ELSE collectDirectFunctionLockEffects(p, f)
      Callees(c) == IF mode = "evidence" THEN EvidenceCallees(p, f, c) ELSE EffectCallees(p, f, c)
  IN  [fn |-> f,
       todo |-> UNION {Callees(c) : c \in Calls(p, f)},
       locks |-> own.locks,
       unlocks |-> own.unlocks]

(***************************************************************************)
(* Entering a function: its own locks, and the callees to look at.  A      *)
(* function without a body here (package sync) has none.                   *)
(***************************************************************************)
Activation(p, mode, f) ==
  LET own == IF mode = "evidence"
             THEN collectLockUsageEvidence(p, f)
             ELSE collectDirectFunctionLockEffects(p, f)
      Callees(c) == IF mode = "evidence" THEN EvidenceCallees(p, f, c) ELSE EffectCallees(p, f, c)
  IN  [fn |-> f,
       todo |-> (UNION {Callees(c) : c \in Calls(p, f)}) \cap DOMAIN p.fns,
       locks |-> own.locks,
       unlocks |-> own.unlocks]

(***************************************************************************)
(* The outermost frame for a defer statement: a mutex operation is its own *)
(* effect, anything else has that of its callees.                          *)
(***************************************************************************)
DeferFrame(p, c) ==
  [fn      |-> None,
   todo    |-> IF isLockCall(p, c) \/ isUnlockCall(p, c)
               THEN {}
               ELSE DeferredCallees(p, c) \cap DOMAIN p.fns,
   locks   |-> Objects(p, {i \in {c} : isLockCall(p, i)}),
   unlocks |-> Objects(p, {i \in {c} : isUnlockCall(p, i)})]

Tasks(p) ==
  [mode : {"effects", "evidence"}, fn : DOMAIN p.fns]
    \cup {[mode |-> "deferred", call |-> i] : i \in {j \in AllInstrs(p) : j.op = "defer"}}

Init ==
  /\ prog \in Programs
  /\ task \in Tasks(prog)
  /\ bodies = [f \in DOMAIN prog.fns |-> Activation(prog, task.mode, f)]
  /\ result = None
  /\ \/ /\ task.mode = "deferred"
        /\ frames = <<DeferFrame(prog, task.call)>>
        /\ marked = {}
     \/ /\ task.mode # "deferred"
        /\ frames = <<bodies[task.fn]>>
        /\ marked = {task.fn}

Top == frames[Len(frames)]

Searching == frames # <<>>

\* Slip: a function is entered without a mark.
EnterUnmarked(g) ==
  /\ Searching
  /\ g \in Top.todo \ marked
  /\ frames' = Append([frames EXCEPT ![Len(frames)].todo = @ \ {g}], bodies[g])
  /\ UNCHANGED <<prog, task, bodies, marked, result>>

Enter(g) ==
  /\ Searching
  /\ g \in Top.todo \ marked
  /\ frames' = Append([frames EXCEPT ![Len(frames)].todo = @ \ {g}], bodies[g])
  /\ marked' = marked \cup {g}
  /\ UNCHANGED <<prog, task, bodies, result>>

\* Slip: the callee stays on the list.
SkipForever(g) ==
  /\ Searching
  /\ g \in Top.todo \cap marked
  /\ UNCHANGED vars

(***************************************************************************)
(* A callee with a mark adds nothing.                                      *)
(***************************************************************************)
Skip(g) ==
  /\ Searching
  /\ g \in Top.todo \cap marked
  /\ frames' = [frames EXCEPT ![Len(frames)].todo = @ \ {g}]
  /\ UNCHANGED <<prog, task, bodies, marked, result>>

\* Slip: the callee's evidence replaces the caller's.
MergedOver(fs, f) == [fs EXCEPT ![Len(fs)].locks = f.locks, ![Len(fs)].unlocks = f.unlocks]

(***************************************************************************)
(* mergeLockSet and mergeLockUsageEvidence.                                *)
(***************************************************************************)
Merged(fs, f) ==
  [fs EXCEPT ![Len(fs)].locks = @ \cup f.locks, ![Len(fs)].unlocks = @ \cup f.unlocks]

(***************************************************************************)
(* A function returns what it collected to its caller, which merges it.    *)
(* The evidence search takes the mark back (defer delete(active, fn)).     *)
(***************************************************************************)
Leave ==
  /\ Searching
  /\ Top.todo = {}
  /\ marked' = IF Evidence THEN marked \ {Top.fn} ELSE marked
  /\ \/ /\ Len(frames) > 1
        /\ frames' = Merged(SubSeq(frames, 1, Len(frames) - 1), Top)
        /\ UNCHANGED result
     \/ /\ Len(frames) = 1
        /\ frames' = <<>>
        /\ result' = [locks |-> Top.locks, unlocks |-> Top.unlocks]
  /\ UNCHANGED <<prog, task, bodies>>

Step ==
  \/ Searching /\ \E g \in Top.todo : Enter(g) \/ Skip(g)
  \/ Leave

Done == ~Searching

Terminating == Done /\ UNCHANGED vars

Next == Step \/ Terminating

(***************************************************************************)
(* A sequential program: it takes its next step as long as it has one.     *)
(***************************************************************************)
Spec == Init /\ [][Next]_vars /\ WF_vars(Step)

-----------------------------------------------------------------------------
LockObjects == MutexesOf(prog)

Effects == EffectsOf(prog)

(***************************************************************************)
(* Types of the variables.                                                 *)
(***************************************************************************)
TypeOK ==
  /\ \A k \in DOMAIN frames :
       /\ frames[k].fn \in DOMAIN prog.fns \cup {None}
       /\ frames[k].todo \subseteq DOMAIN prog.fns
       /\ [locks |-> frames[k].locks, unlocks |-> frames[k].unlocks] \in Effects
  /\ marked \subseteq DOMAIN prog.fns
  /\ result \in Effects \cup {None}
  /\ result = None <=> Searching

(***************************************************************************)
(* No function is entered while it is active: recursion in the analyzed    *)
(* package, direct or through function values, never becomes unbounded     *)
(* recursion of the analyzer.                                              *)
(***************************************************************************)
NoReentry ==
  \A j, k \in DOMAIN frames : frames[j].fn = frames[k].fn => j = k

(***************************************************************************)
(* The targets of a dynamic call are the functions it can reach at run     *)
(* time: through variables, parameters, captured variables, fields and     *)
(* interfaces.                                                             *)
(***************************************************************************)
TargetsExact ==
  Done /\ task.mode = "effects" =>
    \A c \in Calls(prog, task.fn) :
      StaticCallee(prog, c) = None =>
        resolveDynamicCallTargets(prog, task.fn, c) = CalleesGiven(prog, Denotes(prog), c)

(***************************************************************************)
(* Of the functions of the package, either search takes a call to reach    *)
(* those a run can reach, and no function a deferred call can reach is     *)
(* left out.                                                               *)
(***************************************************************************)
CallsResolved ==
  Done =>
    LET den == Denotes(prog)
        Reaches(c) == CalleesGiven(prog, den, c) \cap DOMAIN prog.fns
    IN  /\ \A f \in DOMAIN prog.fns : \A c \in Calls(prog, f) :
             /\ EffectCallees(prog, f, c) \cap DOMAIN prog.fns = Reaches(c)
             /\ EvidenceCallees(prog, f, c) \cap DOMAIN prog.fns = Reaches(c)
        /\ \A c \in AllInstrs(prog) :
             c.op = "defer" => Reaches(c) \subseteq DeferFrame(prog, c).todo

LocksOf(fns) == UNION {collectDirectFunctionLockEffects(prog, f).locks : f \in fns}

UnlocksOf(fns) == UNION {collectDirectFunctionLockEffects(prog, f).unlocks : f \in fns}

Reached(fns) == CalledFrom(prog, Denotes(prog), fns)

(***************************************************************************)
(* The marks lose nothing: a function's effects are those of all functions *)
(* a run of it can call, whichever path the search takes first.            *)
(***************************************************************************)
EffectsExact ==
  Done /\ task.mode = "effects" =>
    result = [locks |-> LocksOf(Reached({task.fn})), unlocks |-> UnlocksOf(Reached({task.fn}))]

(***************************************************************************)
(* The recursion heuristic finds the same locks as the search for effects, *)
(* although it marks functions differently.                                *)
(***************************************************************************)
EvidenceExact ==
  Done /\ task.mode = "evidence" =>
    /\ result.locks = LocksOf(Reached({task.fn}))
    /\ UnlocksOf(Reached({task.fn})) \subseteq result.unlocks

(***************************************************************************)
(* A deferred call's effects include those of all functions a run of it    *)
(* can call, and nothing but those of the functions it calls or captures.  *)
(***************************************************************************)
DeferredEffectsCovered ==
  Done /\ task.mode = "deferred" =>
    LET c == task.call
        own == Objects(prog, {i \in {c} : isLockCall(prog, i)})
        called == Reached(CalleesGiven(prog, Denotes(prog), c))
        offered == called \cup Reached(DeferredCallees(prog, c))
    IN  /\ own \cup LocksOf(called) \subseteq result.locks
        /\ result.locks \subseteq own \cup LocksOf(offered)
        /\ UnlocksOf(called) \subseteq result.unlocks

(***************************************************************************)
(* Every search ends, also in a package whose functions call each other in *)
(* circles.                                                                *)
(***************************************************************************)
Termination == <>Done

==============================================================================
