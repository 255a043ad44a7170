-------------------------- MODULE CallEffectsProofs --------------------------
(***************************************************************************)
(* Proofs about the searches through the callees and the resolution of     *)
(* calls, for any programs.                                                *)
(*   - The searches.  What a function's own body holds (bodies) is left    *)
(*     unexpanded but for its types: this part holds for any resolution.   *)
(*   - What a run can call (ValueFlow) is a least solution.                *)
(*   - What the resolution (DynamicDispatch) finds along variables,        *)
(*     parameters, captured variables, fields and interfaces, and that it  *)
(*     is this solution for every call that can be traced (TracedCalls).   *)
(***************************************************************************)
EXTENDS CallEffects, TracedCalls, BoundedInduction, SequenceTheorems, TLAPS

Fns == DOMAIN prog.fns

Frames ==
  [fn : Fns \cup {None}, todo : SUBSET Fns, locks : SUBSET LockObjects, unlocks : SUBSET LockObjects]

BodiesInv ==
  /\ None \notin Fns /\ None \notin Effects
  /\ \A f \in Fns : bodies[f] \in Frames /\ bodies[f].fn = f

(***************************************************************************)
(* Every frame but the one of a defer statement carries a mark, and no two *)
(* frames are of one function.                                             *)
(***************************************************************************)
FramesInv ==
  /\ frames \in Seq(Frames)
  /\ marked \subseteq Fns
  /\ \A k \in 1..Len(frames) : frames[k].fn \in marked \/ (k = 1 /\ frames[k].fn = None)
  /\ \A j, k \in 1..Len(frames) : frames[j].fn = frames[k].fn => j = k

ResultInv ==
  /\ result \in Effects \cup {None}
  /\ result = None <=> Searching

TypeInv == BodiesInv /\ FramesInv /\ ResultInv

-----------------------------------------------------------------------------
LEMMA ActivationType ==
  ASSUME NEW mode, NEW f \in Fns
  PROVE  Activation(prog, mode, f) \in Frames /\ Activation(prog, mode, f).fn = f
<1>1. \A S \in SUBSET Instrs(prog, f) :
        (\A i \in S : i.op \in {"call", "defer"}) => Objects(prog, S) \subseteq LockObjects
  <2>1. \A i \in Instrs(prog, f) : i \in AllInstrs(prog)
    BY DEF AllInstrs, Fns
  <2> QED
    BY <2>1 DEF LockObjects, MutexesOf, Objects, Known
<1>2. /\ collectLockUsageEvidence(prog, f).locks \subseteq LockObjects
      /\ collectLockUsageEvidence(prog, f).unlocks \subseteq LockObjects
  BY <1>1 DEF collectLockUsageEvidence, Calls
<1>3. /\ collectDirectFunctionLockEffects(prog, f).locks \subseteq LockObjects
      /\ collectDirectFunctionLockEffects(prog, f).unlocks \subseteq LockObjects
  BY <1>1 DEF collectDirectFunctionLockEffects, Calls
<1> QED
  BY <1>2, <1>3 DEF Activation, Frames, Fns

LEMMA DeferFrameType ==
  ASSUME NEW c \in AllInstrs(prog), c.op = "defer"
  PROVE  DeferFrame(prog, c) \in Frames /\ DeferFrame(prog, c).fn = None
<1>1. \A S \in SUBSET {c} : Objects(prog, S) \subseteq LockObjects
  BY DEF LockObjects, MutexesOf, Objects, Known
<1> QED
  BY <1>1 DEF DeferFrame, Frames, Fns

LEMMA InitType == Init => TypeInv
<1> SUFFICES ASSUME Init
             PROVE  TypeInv
  OBVIOUS
<1>1. BodiesInv
  <2>1. \A f \in Fns : bodies[f] = Activation(prog, task.mode, f)
    BY DEF Init, Fns
  <2>2. None \notin Fns /\ None \notin Effects
    BY ProgramsAssumption DEF Init, Fns, Effects
  <2> QED
    BY <2>1, <2>2, ActivationType DEF BodiesInv
<1>2. PICK e \in Frames : frames = <<e>> /\ (e.fn \in marked \/ e.fn = None) /\ marked \subseteq Fns
  <2>1. CASE task.mode = "deferred"
    <3>1. task.call \in AllInstrs(prog) /\ task.call.op = "defer"
      BY <2>1 DEF Init, Tasks
    <3> QED
      BY <2>1, <3>1, DeferFrameType DEF Init
  <2>2. CASE task.mode # "deferred"
    <3>1. task.fn \in Fns
      BY <2>2 DEF Init, Tasks, Fns
    <3>2. bodies[task.fn] \in Frames /\ bodies[task.fn].fn = task.fn
      BY <1>1, <3>1 DEF BodiesInv
    <3> QED
      BY <2>2, <3>1, <3>2 DEF Init
  <2> QED
    BY <2>1, <2>2
<1>3. frames \in Seq(Frames) /\ Len(frames) = 1 /\ frames[1] = e /\ frames # <<>>
  BY <1>2
<1>4. FramesInv
  BY <1>2, <1>3 DEF FramesInv
<1>5. ResultInv
  BY <1>3 DEF Init, ResultInv, Searching
<1> QED
  BY <1>1, <1>4, <1>5 DEF TypeInv

-----------------------------------------------------------------------------
(***************************************************************************)
(* What each step does to the frames.                                      *)
(***************************************************************************)
(***************************************************************************)
(* Replacing one element of a sequence.                                    *)
(***************************************************************************)
LEMMA ReplaceInSeq ==
  ASSUME NEW S, NEW s \in Seq(S), NEW k \in 1..Len(s), NEW e \in S
  PROVE  LET t == [s EXCEPT ![k] = e]
         IN  /\ t \in Seq(S) /\ Len(t) = Len(s)
             /\ \A j \in 1..Len(s) : t[j] = IF j = k THEN e ELSE s[j]
<1> DEFINE t == [s EXCEPT ![k] = e]
<1>1. t \in [1..Len(s) -> S] /\ Len(s) \in Nat /\ s \in [1..Len(s) -> S]
  BY LenProperties
<1> QED
  BY <1>1

(***************************************************************************)
(* The frame on top.                                                       *)
(***************************************************************************)
LEMMA TopFrame ==
  ASSUME FramesInv, Searching
  PROVE  Len(frames) \in Nat \ {0} /\ Top = frames[Len(frames)] /\ Top \in Frames
BY DEF FramesInv, Searching, Top

LEMMA EnterFrames ==
  ASSUME TypeInv, NEW g, Enter(g)
  PROVE  /\ Len(frames) \in Nat \ {0}
         /\ g \in frames[Len(frames)].todo /\ g \in Fns \ marked
         /\ frames' \in Seq(Frames) /\ Len(frames') = Len(frames) + 1
         /\ \A k \in 1..Len(frames) : 
              frames'[k] = IF k = Len(frames) THEN [frames[k] EXCEPT !.todo = @ \ {g}] ELSE frames[k]
         /\ frames'[Len(frames) + 1] = bodies[g]
<1> DEFINE n == Len(frames)
           fs == [frames EXCEPT ![n].todo = @ \ {g}]
<1>1. n \in Nat \ {0} /\ frames[n] \in Frames /\ Top = frames[n]
  BY TopFrame DEF TypeInv, Enter
<1>2. g \in Fns \ marked /\ g \in frames[n].todo
  BY <1>1 DEF Enter, Frames
<1>3. bodies[g] \in Frames
  BY <1>2 DEF TypeInv, BodiesInv
<1> DEFINE e == [frames[n] EXCEPT !.todo = @ \ {g}]
<1>4. e \in Frames
  BY <1>1 DEF Frames
<1>5. fs = [frames EXCEPT ![n] = e] /\ frames \in Seq(Frames)
  BY DEF TypeInv, FramesInv
<1>6. frames' = Append(fs, bodies[g])
  BY DEF Enter
<1>7. \A k \in 1..n : k = n => e = [frames[k] EXCEPT !.todo = @ \ {g}]
  OBVIOUS
<1> HIDE DEF e, fs
<1>8. fs \in Seq(Frames) /\ Len(fs) = n /\ \A k \in 1..n : fs[k] = IF k = n THEN e ELSE frames[k]
  BY <1>1, <1>4, <1>5, ReplaceInSeq
<1>9. /\ frames' \in Seq(Frames) /\ Len(frames') = n + 1
      /\ \A k \in 1..n : frames'[k] = IF k = n THEN e ELSE frames[k]
      /\ frames'[n + 1] = bodies[g]
  BY <1>3, <1>6, <1>8, AppendProperties
<1> QED
  BY <1>1, <1>2, <1>7, <1>9

LEMMA SkipFrames ==
  ASSUME TypeInv, NEW g, Skip(g)
  PROVE  /\ Len(frames) \in Nat \ {0}
         /\ g \in frames[Len(frames)].todo /\ g \in marked
         /\ frames' \in Seq(Frames) /\ Len(frames') = Len(frames)
         /\ \A k \in 1..Len(frames) : 
              frames'[k] = IF k = Len(frames) THEN [frames[k] EXCEPT !.todo = @ \ {g}] ELSE frames[k]
<1> DEFINE n == Len(frames)
<1>1. n \in Nat \ {0} /\ frames[n] \in Frames /\ Top = frames[n]
  BY TopFrame DEF TypeInv, Skip
<1>2. g \in marked /\ g \in frames[n].todo
  BY <1>1 DEF Skip
<1> DEFINE e == [frames[n] EXCEPT !.todo = @ \ {g}]
<1>3. e \in Frames
  BY <1>1 DEF Frames
<1>4. frames' = [frames EXCEPT ![n] = e] /\ frames \in Seq(Frames)
  BY DEF Skip, TypeInv, FramesInv
<1>5. \A k \in 1..n : k = n => e = [frames[k] EXCEPT !.todo = @ \ {g}]
  OBVIOUS
<1> HIDE DEF e
<1>6. /\ frames' \in Seq(Frames) /\ Len(frames') = n
      /\ \A k \in 1..n : frames'[k] = IF k = n THEN e ELSE frames[k]
  BY <1>1, <1>3, <1>4, ReplaceInSeq
<1> QED
  BY <1>1, <1>2, <1>5, <1>6

LEMMA LeaveFrames ==
  ASSUME TypeInv, Leave
  PROVE  /\ Len(frames) \in Nat \ {0} /\ Top = frames[Len(frames)] /\ Top.todo = {}
         /\ frames' \in Seq(Frames) /\ Len(frames') = Len(frames) - 1
         /\ \A k \in 1..Len(frames) - 1 :
              /\ frames'[k].fn = frames[k].fn
              /\ frames'[k].todo = frames[k].todo
              /\ frames'[k].locks = frames[k].locks
                                      \cup (IF k = Len(frames) - 1 THEN Top.locks ELSE {})
              /\ frames'[k].unlocks = frames[k].unlocks
                                        \cup (IF k = Len(frames) - 1 THEN Top.unlocks ELSE {})
<1> DEFINE n == Len(frames)
<1>1. n \in Nat \ {0} /\ Top \in Frames /\ Top = frames[n] /\ Top.todo = {}
  BY TopFrame DEF TypeInv, Leave
<1>2. CASE n = 1
  <2>1. frames' = <<>>
    BY <1>1, <1>2 DEF Leave
  <2> QED
    BY <1>1, <1>2, <2>1
<1>3. CASE n > 1
  <2> DEFINE m == n - 1
             fs == SubSeq(frames, 1, m)
             e == [fs[m] EXCEPT !.locks = @ \cup Top.locks, !.unlocks = @ \cup Top.unlocks]
  <2>1. frames' = Merged(fs, Top) /\ m \in Nat \ {0}
    BY <1>1, <1>3 DEF Leave
  <2>2. fs \in Seq(Frames) /\ Len(fs) = m /\ \A k \in 1..m : fs[k] = frames[k]
    BY <1>1, <1>3 DEF TypeInv, FramesInv
  <2> HIDE DEF fs
  <2>3. fs[m] \in Frames
    BY <2>1, <2>2, ElementOfSeq
  <2>4. e \in Frames /\ e.fn = fs[m].fn /\ e.todo = fs[m].todo
          /\ e.locks = fs[m].locks \cup Top.locks /\ e.unlocks = fs[m].unlocks \cup Top.unlocks
    BY <1>1, <2>3 DEF Frames
  <2>5. Merged(fs, Top) = [fs EXCEPT ![m] = e]
    BY <2>1, <2>2, <2>3 DEF Merged, Frames
  <2> HIDE DEF e, m
  <2>6. m \in 1..Len(fs)
    BY <2>1, <2>2
  <2>7. /\ frames' \in Seq(Frames) /\ Len(frames') = m
        /\ \A k \in 1..m : frames'[k] = IF k = m THEN e ELSE fs[k]
    BY <2>1, <2>2, <2>4, <2>5, <2>6, ReplaceInSeq
  <2>8. \A k \in 1..m :
          /\ frames'[k].fn = frames[k].fn
          /\ frames'[k].todo = frames[k].todo
          /\ frames'[k].locks = frames[k].locks \cup (IF k = m THEN Top.locks ELSE {})
          /\ frames'[k].unlocks = frames[k].unlocks \cup (IF k = m THEN Top.unlocks ELSE {})
    <3> SUFFICES ASSUME NEW k \in 1..m
                 PROVE  /\ frames'[k].fn = frames[k].fn
                        /\ frames'[k].todo = frames[k].todo
                        /\ frames'[k].locks = frames[k].locks \cup (IF k = m THEN Top.locks ELSE {})
                        /\ frames'[k].unlocks = frames[k].unlocks \cup (IF k = m THEN Top.unlocks ELSE {})
      OBVIOUS
    <3>1. CASE k = m
      BY <2>2, <2>4, <2>7, <3>1
    <3>2. CASE k # m
      BY <2>2, <2>7, <3>2
    <3> QED
      BY <3>1, <3>2
  <2> QED
    BY <1>1, <2>7, <2>8 DEF m
<1>4. n = 1 \/ n > 1
  BY <1>1
<1> QED
  BY <1>2, <1>3, <1>4

-----------------------------------------------------------------------------
LEMMA EnterInv == TypeInv /\ (\E g : Enter(g)) => TypeInv'
<1> SUFFICES ASSUME TypeInv, NEW g, Enter(g)
             PROVE  TypeInv'
  OBVIOUS
<1> DEFINE n == Len(frames)
<1>1. UNCHANGED <<prog, task, bodies, result>> /\ marked' = marked \cup {g} /\ Searching
  BY DEF Enter
<1>2. n \in Nat \ {0} /\ g \in Fns \ marked
  BY EnterFrames
<1>3. frames' \in Seq(Frames) /\ Len(frames') = n + 1
  BY EnterFrames
<1>4. BodiesInv'
  BY <1>1 DEF TypeInv, BodiesInv, Fns, Effects, EffectsOf, Frames, LockObjects
<1>5. \A k \in 1..n : frames'[k].fn = frames[k].fn
  <2> SUFFICES ASSUME NEW k \in 1..n
               PROVE  frames'[k].fn = frames[k].fn
    OBVIOUS
  <2>1. frames[k] \in Frames
    BY <1>2, ElementOfSeq DEF TypeInv, FramesInv
  <2>2. [frames[k] EXCEPT !.todo = @ \ {g}].fn = frames[k].fn
    BY <2>1 DEF Frames
  <2> QED
    BY <2>2, EnterFrames
<1>6. frames'[n + 1].fn = g
  BY <1>2, EnterFrames DEF TypeInv, BodiesInv
<1>7. \A k \in 1..n : frames[k].fn # g
  BY <1>2 DEF TypeInv, FramesInv, BodiesInv
<1>8. FramesInv'
  <2>1. (frames \in Seq(Frames))' /\ (marked \subseteq Fns)'
    BY <1>1, <1>2, <1>3 DEF Frames, Fns, LockObjects, TypeInv, FramesInv
  <2>2. \A k \in 1..n + 1 : frames'[k].fn \in marked' \/ (k = 1 /\ frames'[k].fn = None)
    BY <1>1, <1>2, <1>5, <1>6 DEF TypeInv, FramesInv
  <2>3. \A j, k \in 1..n + 1 : frames'[j].fn = frames'[k].fn => j = k
    BY <1>2, <1>5, <1>6, <1>7 DEF TypeInv, FramesInv
  <2> QED
    BY <1>3, <2>1, <2>2, <2>3 DEF FramesInv
<1>9. ResultInv'
  <2>1. frames' # <<>>
    BY <1>2, <1>3
  <2> QED
    BY <1>1, <2>1 DEF TypeInv, ResultInv, Searching, Effects, EffectsOf, LockObjects
<1> QED
  BY <1>4, <1>8, <1>9 DEF TypeInv

LEMMA SkipInv == TypeInv /\ (\E g : Skip(g)) => TypeInv'
<1> SUFFICES ASSUME TypeInv, NEW g, Skip(g)
             PROVE  TypeInv'
  OBVIOUS
<1> DEFINE n == Len(frames)
<1>1. UNCHANGED <<prog, task, bodies, result, marked>> /\ Searching
  BY DEF Skip
<1>2. n \in Nat \ {0} /\ frames' \in Seq(Frames) /\ Len(frames') = n
  BY SkipFrames
<1>3. BodiesInv'
  BY <1>1 DEF TypeInv, BodiesInv, Fns, Effects, EffectsOf, Frames, LockObjects
<1>4. \A k \in 1..n : frames'[k].fn = frames[k].fn
  <2> SUFFICES ASSUME NEW k \in 1..n
               PROVE  frames'[k].fn = frames[k].fn
    OBVIOUS
  <2>1. frames[k] \in Frames
    BY <1>2, ElementOfSeq DEF TypeInv, FramesInv
  <2>2. [frames[k] EXCEPT !.todo = @ \ {g}].fn = frames[k].fn
    BY <2>1 DEF Frames
  <2> QED
    BY <2>2, SkipFrames
<1>5. FramesInv'
  <2>1. (frames \in Seq(Frames))' /\ (marked \subseteq Fns)'
    BY <1>1, <1>2 DEF Frames, Fns, LockObjects, TypeInv, FramesInv
  <2> QED
    BY <1>1, <1>2, <1>4, <2>1 DEF TypeInv, FramesInv
<1>6. ResultInv'
  <2>1. frames' # <<>>
    BY <1>2
  <2> QED
    BY <1>1, <2>1 DEF TypeInv, ResultInv, Searching, Effects, EffectsOf, LockObjects
<1> QED
  BY <1>3, <1>5, <1>6 DEF TypeInv

LEMMA LeaveInv == TypeInv /\ Leave => TypeInv'
<1> SUFFICES ASSUME TypeInv, Leave
             PROVE  TypeInv'
  OBVIOUS
<1> DEFINE n == Len(frames)
<1>1. UNCHANGED <<prog, task, bodies>> /\ Searching
        /\ marked' = IF Evidence THEN marked \ {Top.fn} ELSE marked
  BY DEF Leave
<1>2. n \in Nat \ {0} /\ frames' \in Seq(Frames) /\ Len(frames') = n - 1
        /\ Top = frames[n] /\ Top \in Frames
  <2>1. Top \in Frames
    BY <1>1, TopFrame DEF TypeInv
  <2> QED
    BY <2>1, LeaveFrames
<1>3. BodiesInv'
  BY <1>1 DEF TypeInv, BodiesInv, Fns, Effects, EffectsOf, Frames, LockObjects
<1>4. \A k \in 1..n - 1 : frames'[k].fn = frames[k].fn
  BY LeaveFrames
<1>5. FramesInv'
  <2>1. (frames \in Seq(Frames))' /\ (marked \subseteq Fns)'
    BY <1>1, <1>2 DEF Frames, Fns, LockObjects, TypeInv, FramesInv
  <2>2. \A k \in 1..n - 1 : k \in 1..n /\ frames[k].fn # Top.fn
    BY <1>2 DEF TypeInv, FramesInv
  <2>3. \A k \in 1..n - 1 : frames'[k].fn \in marked' \/ (k = 1 /\ frames'[k].fn = None)
    BY <1>1, <1>4, <2>2 DEF TypeInv, FramesInv
  <2>4. \A j, k \in 1..n - 1 : frames'[j].fn = frames'[k].fn => j = k
    BY <1>4, <2>2 DEF TypeInv, FramesInv
  <2> QED
    BY <1>2, <2>1, <2>3, <2>4 DEF FramesInv
<1>6. ResultInv'
  <2>1. Effects' = Effects /\ None \notin Effects
    BY <1>1 DEF TypeInv, BodiesInv, Effects, EffectsOf
  <2>2. CASE n > 1
    <3>1. result' = result /\ frames' # <<>>
      BY <1>2, <2>2 DEF Leave
    <3> QED
      BY <1>1, <2>1, <3>1 DEF TypeInv, ResultInv, Searching
  <2>3. CASE n = 1
    <3>1. result' = [locks |-> Top.locks, unlocks |-> Top.unlocks] /\ frames' = <<>>
      BY <1>2, <2>3 DEF Leave
    <3>2. result' \in Effects
      BY <1>2, <3>1 DEF Frames, Effects, EffectsOf, LockObjects
    <3> QED
      BY <2>1, <3>1, <3>2 DEF ResultInv, Searching
  <2>4. n = 1 \/ n > 1
    BY <1>2
  <2> QED
    BY <2>2, <2>3, <2>4
<1> QED
  BY <1>3, <1>5, <1>6 DEF TypeInv

LEMMA TypeStep == TypeInv /\ [Next]_vars => TypeInv'
<1> SUFFICES ASSUME TypeInv, [Next]_vars
             PROVE  TypeInv'
  OBVIOUS
<1>1. CASE UNCHANGED vars
  BY <1>1 DEF vars, TypeInv, BodiesInv, FramesInv, ResultInv, Searching, Fns, Frames, Effects,
              EffectsOf, LockObjects
<1>2. CASE Step
  BY <1>2, EnterInv, SkipInv, LeaveInv DEF Step
<1>3. CASE Terminating
  BY <1>1, <1>3 DEF Terminating
<1> QED
  BY <1>1, <1>2, <1>3 DEF Next

LEMMA AlwaysTypeInv == Spec => []TypeInv
BY InitType, TypeStep, PTL DEF Spec

(***************************************************************************)
(* The frames, marks and result of every search are well-formed, and it    *)
(* has a result exactly when no frame is left.                             *)
(***************************************************************************)
THEOREM TypeCorrect == Spec => []TypeOK
<1>1. TypeInv => TypeOK
  <2> SUFFICES ASSUME TypeInv
               PROVE  TypeOK
    OBVIOUS
  <2>1. \A k \in DOMAIN frames : frames[k] \in Frames
    BY DEF TypeInv, FramesInv
  <2> QED
    BY <2>1 DEF TypeInv, FramesInv, ResultInv, TypeOK, Frames, Fns, Effects, EffectsOf, LockObjects
<1> QED
  BY <1>1, AlwaysTypeInv, PTL

(***************************************************************************)
(* No function is entered while it is active, whatever the functions of    *)
(* the package call: a search is never deeper than there are functions.    *)
(***************************************************************************)
THEOREM NeverReentered == Spec => []NoReentry
<1>1. TypeInv => NoReentry
  BY DEF TypeInv, FramesInv, NoReentry
<1> QED
  BY <1>1, AlwaysTypeInv, PTL

-----------------------------------------------------------------------------
(***************************************************************************)
(* What the two searches that never take a mark back collect.  They start  *)
(* from Roots with the locks of the defer statement itself, if that is     *)
(* what is searched.                                                       *)
(***************************************************************************)
Roots ==
  IF task.mode = "deferred" THEN DeferFrame(prog, task.call).todo ELSE {task.fn}

OwnLocks ==
  IF task.mode = "deferred" THEN DeferFrame(prog, task.call).locks ELSE {}

OwnUnlocks ==
  IF task.mode = "deferred" THEN DeferFrame(prog, task.call).unlocks ELSE {}

Closed(T) == Roots \subseteq T /\ \A f \in T \cap Fns : bodies[f].todo \subseteq T

(***************************************************************************)
(* What is not marked yet is on the list of the frame it is called from.   *)
(***************************************************************************)
Pending(f, g) == \E k \in 1..Len(frames) : frames[k].fn = f /\ g \in frames[k].todo

NothingLost ==
  /\ \A g \in Roots \ marked : Pending(None, g)
  /\ \A f \in marked : \A g \in bodies[f].todo \ marked : Pending(f, g)

NothingExtra ==
  /\ \A f, g : Pending(f, g) => IF f = None THEN g \in Roots ELSE g \in bodies[f].todo
  /\ \A T : Closed(T) => marked \subseteq T

FoundLocks(l) ==
  IF Searching THEN \E k \in 1..Len(frames) : l \in frames[k].locks ELSE l \in result.locks

FoundUnlocks(l) ==
  IF Searching THEN \E k \in 1..Len(frames) : l \in frames[k].unlocks ELSE l \in result.unlocks

Collected ==
  /\ \A l : FoundLocks(l) <=> l \in OwnLocks \/ \E f \in marked : l \in bodies[f].locks
  /\ \A l : FoundUnlocks(l) <=> l \in OwnUnlocks \/ \E f \in marked : l \in bodies[f].unlocks

SearchInv == ~Evidence => NothingLost /\ NothingExtra /\ Collected

LEMMA SameSearch ==
  ASSUME UNCHANGED <<prog, task, bodies>>
  PROVE  /\ Roots' = Roots /\ OwnLocks' = OwnLocks /\ OwnUnlocks' = OwnUnlocks
         /\ \A T : Closed(T)' <=> Closed(T)
         /\ Evidence' <=> Evidence
BY DEF Roots, OwnLocks, OwnUnlocks, Closed, Evidence, Fns

LEMMA InitSearch == Init => SearchInv
<1> SUFFICES ASSUME Init, ~Evidence
             PROVE  NothingLost /\ NothingExtra /\ Collected
  BY DEF SearchInv
<1>1. TypeInv
  BY InitType
<1>2. CASE task.mode = "deferred"
  <2> DEFINE e == DeferFrame(prog, task.call)
  <2>1. frames = <<e>> /\ marked = {} /\ e.fn = None
    BY <1>2 DEF Init, DeferFrame
  <2>2. Roots = e.todo /\ OwnLocks = e.locks /\ OwnUnlocks = e.unlocks
    BY <1>2 DEF Roots, OwnLocks, OwnUnlocks
  <2> HIDE DEF e
  <2>3. Len(frames) = 1 /\ frames[1] = e /\ Searching
    BY <2>1 DEF Searching
  <2>4. \A f, g : Pending(f, g) <=> f = None /\ g \in e.todo
    BY <2>1, <2>3 DEF Pending
  <2>5. NothingLost /\ NothingExtra
    BY <2>1, <2>2, <2>4 DEF NothingLost, NothingExtra
  <2>6. Collected
    BY <2>1, <2>2, <2>3 DEF Collected, FoundLocks, FoundUnlocks
  <2> QED
    BY <2>5, <2>6
<1>3. CASE task.mode # "deferred"
  <2> DEFINE e == bodies[task.fn]
  <2>1. frames = <<e>> /\ marked = {task.fn}
    BY <1>3 DEF Init
  <2>2. Roots = {task.fn} /\ OwnLocks = {} /\ OwnUnlocks = {}
    BY <1>3 DEF Roots, OwnLocks, OwnUnlocks
  <2>3. task.fn \in Fns /\ e.fn = task.fn /\ task.fn # None
    BY <1>1, <2>1 DEF TypeInv, BodiesInv, FramesInv
  <2>4. Len(frames) = 1 /\ frames[1] = e /\ Searching
    BY <2>1 DEF Searching
  <2>5. \A f, g : Pending(f, g) <=> f = task.fn /\ g \in e.todo
    BY <2>3, <2>4 DEF Pending
  <2>6. NothingLost /\ NothingExtra
    BY <2>1, <2>2, <2>3, <2>5 DEF NothingLost, NothingExtra, Closed
  <2>7. Collected
    BY <2>1, <2>2, <2>4 DEF Collected, FoundLocks, FoundUnlocks
  <2> QED
    BY <2>6, <2>7
<1> QED
  BY <1>2, <1>3

LEMMA EnterSearch ==
  ASSUME TypeInv, NothingLost, NothingExtra, Collected, NEW g, Enter(g)
  PROVE  NothingLost' /\ NothingExtra' /\ Collected'
<1> DEFINE n == Len(frames)
<1>1. UNCHANGED <<prog, task, bodies, result>> /\ marked' = marked \cup {g} /\ Searching
  BY DEF Enter
<1>2. n \in Nat \ {0} /\ g \in frames[n].todo /\ g \in Fns \ marked
  BY EnterFrames
<1>3. Len(frames') = n + 1 /\ frames'[n + 1] = bodies[g] /\ bodies[g].fn = g
  BY <1>2, EnterFrames DEF TypeInv, BodiesInv
<1>4. \A k \in 1..n : /\ frames'[k].fn = frames[k].fn
                      /\ frames'[k].todo = frames[k].todo \ (IF k = n THEN {g} ELSE {})
                      /\ frames'[k].locks = frames[k].locks
                      /\ frames'[k].unlocks = frames[k].unlocks
  <2> SUFFICES ASSUME NEW k \in 1..n
               PROVE  /\ frames'[k].fn = frames[k].fn
                      /\ frames'[k].todo = frames[k].todo \ (IF k = n THEN {g} ELSE {})
                      /\ frames'[k].locks = frames[k].locks
                      /\ frames'[k].unlocks = frames[k].unlocks
    OBVIOUS
  <2>1. frames[k] \in Frames
    BY <1>2, ElementOfSeq DEF TypeInv, FramesInv
  <2> DEFINE e == [frames[k] EXCEPT !.todo = @ \ {g}]
  <2>2. e.fn = frames[k].fn /\ e.todo = frames[k].todo \ {g}
          /\ e.locks = frames[k].locks /\ e.unlocks = frames[k].unlocks
    BY <2>1 DEF Frames
  <2>3. frames'[k] = IF k = n THEN e ELSE frames[k]
    BY EnterFrames
  <2> HIDE DEF e
  <2> QED
    BY <2>2, <2>3
<1>5. \A f, x : Pending(f, x)' => Pending(f, x) \/ (f = g /\ x \in bodies[g].todo)
  BY <1>2, <1>3, <1>4 DEF Pending
<1>6. \A f, x : Pending(f, x) /\ x # g => Pending(f, x)'
  <2> SUFFICES ASSUME NEW f, NEW x, NEW k \in 1..n, frames[k].fn = f, x \in frames[k].todo, x # g
               PROVE  \E j \in 1..n + 1 : frames'[j].fn = f /\ x \in frames'[j].todo
    BY <1>3 DEF Pending
  <2> QED
    BY <1>2, <1>4
<1>7. \A x \in bodies[g].todo : Pending(g, x)'
  BY <1>2, <1>3 DEF Pending
<1>8. NothingLost'
  BY <1>1, <1>6, <1>7, SameSearch DEF NothingLost
<1>9. NothingExtra'
  <2>1. Pending(frames[n].fn, g) /\ (frames[n].fn \in marked \/ frames[n].fn = None)
    BY <1>2 DEF Pending, TypeInv, FramesInv
  <2>2. \A T : Closed(T) => g \in T
    BY <2>1 DEF NothingExtra, Closed, TypeInv, FramesInv, BodiesInv
  <2>3. g # None
    BY <1>2 DEF TypeInv, BodiesInv
  <2> QED
    BY <1>1, <1>5, <2>2, <2>3, SameSearch DEF NothingExtra
<1>10. Searching'
  BY <1>2, <1>3 DEF Searching
<1>11. \A l : FoundLocks(l)' <=> FoundLocks(l) \/ l \in bodies[g].locks
  BY <1>1, <1>2, <1>3, <1>4, <1>10 DEF FoundLocks
<1>12. \A l : FoundUnlocks(l)' <=> FoundUnlocks(l) \/ l \in bodies[g].unlocks
  BY <1>1, <1>2, <1>3, <1>4, <1>10 DEF FoundUnlocks
<1>13. Collected'
  BY <1>1, <1>11, <1>12, SameSearch DEF Collected
<1> QED
  BY <1>8, <1>9, <1>13

LEMMA SkipSearch ==
  ASSUME TypeInv, NothingLost, NothingExtra, Collected, NEW g, Skip(g)
  PROVE  NothingLost' /\ NothingExtra' /\ Collected'
<1> DEFINE n == Len(frames)
<1>1. UNCHANGED <<prog, task, bodies, marked, result>> /\ Searching
  BY DEF Skip
<1>2. n \in Nat \ {0} /\ Len(frames') = n /\ g \in marked
  BY SkipFrames
<1>3. \A k \in 1..n : /\ frames'[k].fn = frames[k].fn
                      /\ frames'[k].todo = frames[k].todo \ (IF k = n THEN {g} ELSE {})
                      /\ frames'[k].locks = frames[k].locks
                      /\ frames'[k].unlocks = frames[k].unlocks
  <2> SUFFICES ASSUME NEW k \in 1..n
               PROVE  /\ frames'[k].fn = frames[k].fn
                      /\ frames'[k].todo = frames[k].todo \ (IF k = n THEN {g} ELSE {})
                      /\ frames'[k].locks = frames[k].locks
                      /\ frames'[k].unlocks = frames[k].unlocks
    OBVIOUS
  <2>1. frames[k] \in Frames
    BY <1>2, ElementOfSeq DEF TypeInv, FramesInv
  <2> DEFINE e == [frames[k] EXCEPT !.todo = @ \ {g}]
  <2>2. e.fn = frames[k].fn /\ e.todo = frames[k].todo \ {g}
          /\ e.locks = frames[k].locks /\ e.unlocks = frames[k].unlocks
    BY <2>1 DEF Frames
  <2>3. frames'[k] = IF k = n THEN e ELSE frames[k]
    BY SkipFrames
  <2> HIDE DEF e
  <2> QED
    BY <2>2, <2>3
<1>4. \A f, x : Pending(f, x)' => Pending(f, x)
  BY <1>2, <1>3 DEF Pending
<1>5. \A f, x : Pending(f, x) /\ x # g => Pending(f, x)'
  BY <1>2, <1>3 DEF Pending
<1>6. NothingLost'
  BY <1>1, <1>2, <1>5, SameSearch DEF NothingLost
<1>7. NothingExtra'
  BY <1>1, <1>4, SameSearch DEF NothingExtra
<1>8. Searching'
  BY <1>2 DEF Searching
<1>9. \A l : (FoundLocks(l)' <=> FoundLocks(l)) /\ (FoundUnlocks(l)' <=> FoundUnlocks(l))
  BY <1>1, <1>2, <1>3, <1>8 DEF FoundLocks, FoundUnlocks
<1>10. Collected'
  BY <1>1, <1>9, SameSearch DEF Collected
<1> QED
  BY <1>6, <1>7, <1>10

(***************************************************************************)
(* A function that returns hands over all it found, in any search.         *)
(***************************************************************************)
LEMMA LeaveKeepsFound ==
  ASSUME TypeInv, Leave
  PROVE  \A l : (FoundLocks(l)' <=> FoundLocks(l)) /\ (FoundUnlocks(l)' <=> FoundUnlocks(l))
<1> DEFINE n == Len(frames)
<1>1. UNCHANGED <<prog, task, bodies>> /\ Searching
  BY DEF Leave
<1>2. n \in Nat \ {0} /\ Len(frames') = n - 1 /\ Top = frames[n]
  BY LeaveFrames
<1>3. \A k \in 1..n - 1 :
        /\ frames'[k].locks = frames[k].locks \cup (IF k = n - 1 THEN Top.locks ELSE {})
        /\ frames'[k].unlocks = frames[k].unlocks \cup (IF k = n - 1 THEN Top.unlocks ELSE {})
  BY LeaveFrames
<1>4. CASE n = 1
  <2>1. result' = [locks |-> Top.locks, unlocks |-> Top.unlocks] /\ ~Searching'
    BY <1>2, <1>4 DEF Leave, Searching
  <2>2. result'.locks = frames[1].locks /\ result'.unlocks = frames[1].unlocks
    BY <1>2, <1>4, <2>1
  <2> QED
    BY <1>1, <1>4, <2>1, <2>2 DEF FoundLocks, FoundUnlocks
<1>5. CASE n > 1
  <2>1. Searching'
    BY <1>2, <1>5 DEF Searching
  <2> SUFFICES ASSUME NEW l
               PROVE  (FoundLocks(l)' <=> FoundLocks(l)) /\ (FoundUnlocks(l)' <=> FoundUnlocks(l))
    OBVIOUS
  <2>2. FoundLocks(l)' <=> FoundLocks(l)
    <3>1. \A k \in 1..n - 1 : l \in frames'[k].locks
                             <=> l \in frames[k].locks \/ (k = n - 1 /\ l \in frames[n].locks)
      BY <1>2, <1>3
    <3>2. \A k \in 1..n : k = n \/ k \in 1..n - 1
      BY <1>2
    <3>3. n - 1 \in 1..n - 1 /\ n \in 1..n /\ \A k \in 1..n - 1 : k \in 1..n
      BY <1>2, <1>5
    <3> HIDE DEF n
    <3>4. (\E k \in 1..n - 1 : l \in frames'[k].locks) <=> (\E k \in 1..n : l \in frames[k].locks)
      BY <3>1, <3>2, <3>3
    <3> QED
      BY <1>1, <1>2, <2>1, <3>4 DEF FoundLocks, n
  <2>3. FoundUnlocks(l)' <=> FoundUnlocks(l)
    <3>1. \A k \in 1..n - 1 : l \in frames'[k].unlocks
                             <=> l \in frames[k].unlocks \/ (k = n - 1 /\ l \in frames[n].unlocks)
      BY <1>2, <1>3
    <3>2. \A k \in 1..n : k = n \/ k \in 1..n - 1
      BY <1>2
    <3>3. n - 1 \in 1..n - 1 /\ n \in 1..n /\ \A k \in 1..n - 1 : k \in 1..n
      BY <1>2, <1>5
    <3> HIDE DEF n
    <3>4. (\E k \in 1..n - 1 : l \in frames'[k].unlocks) <=> (\E k \in 1..n : l \in frames[k].unlocks)
      BY <3>1, <3>2, <3>3
    <3> QED
      BY <1>1, <1>2, <2>1, <3>4 DEF FoundUnlocks, n
  <2> QED
    BY <2>2, <2>3
<1>6. n = 1 \/ n > 1
  BY <1>2
<1> QED
  BY <1>4, <1>5, <1>6

LEMMA LeaveSearch ==
  ASSUME TypeInv, ~Evidence, NothingLost, NothingExtra, Collected, Leave
  PROVE  NothingLost' /\ NothingExtra' /\ Collected'
<1> DEFINE n == Len(frames)
<1>1. UNCHANGED <<prog, task, bodies, marked>> /\ Searching
  BY DEF Leave
<1>2. n \in Nat \ {0} /\ Len(frames') = n - 1 /\ Top = frames[n] /\ Top.todo = {}
  BY LeaveFrames
<1>3. \A k \in 1..n - 1 :
        /\ frames'[k].fn = frames[k].fn
        /\ frames'[k].todo = frames[k].todo
        /\ frames'[k].locks = frames[k].locks \cup (IF k = n - 1 THEN Top.locks ELSE {})
        /\ frames'[k].unlocks = frames[k].unlocks \cup (IF k = n - 1 THEN Top.unlocks ELSE {})
  BY LeaveFrames
<1>4. \A f, x : Pending(f, x)' <=> Pending(f, x)
  BY <1>2, <1>3 DEF Pending
<1>5. NothingLost' /\ NothingExtra'
  BY <1>1, <1>4, SameSearch DEF NothingLost, NothingExtra
<1>6. \A l : (FoundLocks(l)' <=> FoundLocks(l)) /\ (FoundUnlocks(l)' <=> FoundUnlocks(l))
  BY LeaveKeepsFound
<1>7. Collected'
  BY <1>1, <1>6, SameSearch DEF Collected
<1> QED
  BY <1>5, <1>7

LEMMA SearchStep == TypeInv /\ SearchInv /\ [Next]_vars => SearchInv'
<1> SUFFICES ASSUME TypeInv, SearchInv, [Next]_vars, ~Evidence'
             PROVE  NothingLost' /\ NothingExtra' /\ Collected'
  BY DEF SearchInv
<1>1. UNCHANGED <<prog, task, bodies>>
  BY DEF Next, Step, Enter, Skip, Leave, Terminating, vars
<1>2. ~Evidence /\ NothingLost /\ NothingExtra /\ Collected
  BY <1>1, SameSearch DEF SearchInv
<1>3. CASE UNCHANGED vars
  <2>1. UNCHANGED <<frames, marked, result>>
    BY <1>3 DEF vars
  <2>2. \A f, x : Pending(f, x)' <=> Pending(f, x)
    BY <2>1 DEF Pending
  <2>3. \A l : (FoundLocks(l)' <=> FoundLocks(l)) /\ (FoundUnlocks(l)' <=> FoundUnlocks(l))
    BY <2>1 DEF FoundLocks, FoundUnlocks, Searching
  <2> QED
    BY <1>1, <1>2, <2>1, <2>2, <2>3, SameSearch DEF NothingLost, NothingExtra, Collected
<1>4. CASE Step
  BY <1>2, <1>4, EnterSearch, SkipSearch, LeaveSearch DEF Step
<1>5. CASE Terminating
  BY <1>3, <1>5 DEF Terminating
<1> QED
  BY <1>3, <1>4, <1>5 DEF Next

-----------------------------------------------------------------------------
(***************************************************************************)
(* The search that takes its marks back.  Beyond(A, g) is what can be      *)
(* reached from g without a call of a function in A.                       *)
(***************************************************************************)
ClosedBeyond(A, g, T) == g \in T /\ \A f \in T \cap Fns : bodies[f].todo \ A \subseteq T

Beyond(A, g) == {x \in Fns : \A T : ClosedBeyond(A, g, T) => x \in T}

(***************************************************************************)
(* What lies beyond g is g itself or lies beyond a callee of g, even       *)
(* without passing g again.                                                *)
(***************************************************************************)
LEMMA BeyondCallees ==
  ASSUME BodiesInv, NEW A, NEW g \in Fns, NEW x \in Beyond(A, g)
  PROVE  \/ x = g
         \/ \E c \in bodies[g].todo \ (A \cup {g}) : x \in Beyond(A \cup {g}, c)
<1> DEFINE B == A \cup {g}
           callees == bodies[g].todo \ B
           S == {g} \cup {y \in Fns : \E c \in callees : y \in Beyond(B, c)}
<1>1. \A f \in Fns : bodies[f].todo \subseteq Fns
  BY DEF BodiesInv, Frames
<1>2. callees \subseteq S
  <2> SUFFICES ASSUME NEW c \in callees
               PROVE  c \in Beyond(B, c)
    BY <1>1
  <2> QED
    BY <1>1 DEF Beyond, ClosedBeyond
<1>3. ASSUME NEW y \in Fns, NEW c \in callees, y \in Beyond(B, c), NEW z \in bodies[y].todo \ A
      PROVE  z \in S
  <2>1. CASE z = g
    BY <2>1
  <2>2. CASE z # g
    <3>1. z \in bodies[y].todo \ B
      BY <1>3, <2>2
    <3>2. z \in Beyond(B, c)
      <4> SUFFICES ASSUME NEW T, ClosedBeyond(B, c, T)
                   PROVE  z \in T
        BY <1>1, <1>3 DEF Beyond
      <4>1. y \in T
        BY <1>3 DEF Beyond
      <4> QED
        BY <3>1, <4>1 DEF ClosedBeyond
    <3> QED
      BY <1>1, <1>3, <3>2
  <2> QED
    BY <2>1, <2>2
<1>4. \A z \in bodies[g].todo \ A : z \in S
  BY <1>2
<1>5. ClosedBeyond(A, g, S)
  <2> SUFFICES ASSUME NEW f \in S \cap Fns, NEW z \in bodies[f].todo \ A
               PROVE  z \in S
    BY DEF ClosedBeyond
  <2>1. CASE f = g
    BY <1>4, <2>1
  <2>2. CASE f # g
    <3>1. PICK c \in callees : f \in Beyond(B, c)
      BY <2>2
    <3> QED
      BY <1>3, <3>1
  <2> QED
    BY <2>1, <2>2
<1>6. x \in S
  <2> HIDE DEF S
  <2> QED
    BY <1>5 DEF Beyond
<1> QED
  BY <1>6

(***************************************************************************)
(* The marks are those of the active functions.  Whatever is reachable is  *)
(* collected already, or it can be reached from the list of a frame        *)
(* without a call of the functions that are active up to that frame: they  *)
(* are skipped there.                                                      *)
(***************************************************************************)
Active(k) == {frames[j].fn : j \in 1..k}

Reachable == {f \in Fns : \A T : Closed(T) => f \in T}

Got(f) ==
  /\ \A l \in bodies[f].locks : FoundLocks(l)
  /\ \A l \in bodies[f].unlocks : FoundUnlocks(l)

Awaited(x) ==
  \E k \in 1..Len(frames) : \E g \in frames[k].todo \ Active(k) : x \in Beyond(Active(k), g)

NothingDropped == \A x \in Reachable : Got(x) \/ Awaited(x)

MarksAreActive == marked = Active(Len(frames))

OnlyReachable ==
  /\ \A k \in 1..Len(frames) :
       frames[k].fn \in Reachable /\ frames[k].todo \subseteq bodies[frames[k].fn].todo
  /\ \A l : FoundLocks(l) => \E f \in Reachable : l \in bodies[f].locks
  /\ \A l : FoundUnlocks(l) => \E f \in Reachable : l \in bodies[f].unlocks

EvidenceInv == Evidence => NothingDropped /\ MarksAreActive /\ OnlyReachable

LEMMA ReachableCallees ==
  ASSUME BodiesInv, NEW f \in Reachable
  PROVE  bodies[f].todo \subseteq Reachable
<1>1. f \in Fns /\ bodies[f].todo \subseteq Fns
  BY DEF Reachable, BodiesInv, Frames
<1>2. ASSUME NEW g \in bodies[f].todo, NEW T, Closed(T)
      PROVE  g \in T
  BY <1>1, <1>2 DEF Reachable, Closed
<1> QED
  BY <1>1, <1>2 DEF Reachable

LEMMA InitEvidence == Init => EvidenceInv
<1> SUFFICES ASSUME Init, Evidence
             PROVE  NothingDropped /\ MarksAreActive /\ OnlyReachable
  BY DEF EvidenceInv
<1> DEFINE root == task.fn
           e == bodies[root]
<1>1. BodiesInv
  BY InitType DEF TypeInv
<1>2. frames = <<e>> /\ marked = {root} /\ Roots = {root}
  BY DEF Init, Evidence, Roots
<1>3. root \in Fns
  BY InitType, <1>2 DEF TypeInv, FramesInv
<1>4. e.fn = root /\ e \in Frames
  BY <1>1, <1>3 DEF BodiesInv
<1> HIDE DEF e
<1>5. Len(frames) = 1 /\ frames[1] = e /\ Searching
  BY <1>2 DEF Searching
<1>6. Active(1) = {root}
  BY <1>4, <1>5 DEF Active
<1>7. root \in Reachable
  BY <1>2, <1>3 DEF Reachable, Closed
<1>8. Got(root)
  BY <1>5 DEF Got, FoundLocks, FoundUnlocks, e
<1>9. ASSUME NEW x \in Reachable, x # root
      PROVE  Awaited(x)
  <2>1. x \in Beyond({}, root)
    BY <1>2 DEF Reachable, Closed, Beyond, ClosedBeyond
  <2>2. PICK c \in bodies[root].todo \ ({} \cup {root}) : x \in Beyond({} \cup {root}, c)
    BY <1>1, <1>3, <1>9, <2>1, BeyondCallees
  <2>3. {} \cup {root} = Active(1)
    BY <1>6
  <2> QED
    BY <1>5, <2>2, <2>3 DEF Awaited, e
<1>10. OnlyReachable
  BY <1>4, <1>5, <1>7 DEF OnlyReachable, FoundLocks, FoundUnlocks, e
<1> QED
  BY <1>2, <1>5, <1>6, <1>8, <1>9, <1>10 DEF NothingDropped, MarksAreActive

(***************************************************************************)
(* What does not change keeps its meaning.                                 *)
(***************************************************************************)
LEMMA SameReachable ==
  ASSUME UNCHANGED <<prog, task, bodies>>
  PROVE  /\ Reachable' = Reachable
         /\ \A A, g : Beyond(A, g)' = Beyond(A, g)
<1>1. \A T : Closed(T)' <=> Closed(T)
  BY SameSearch
<1>2. Fns' = Fns
  BY DEF Fns
<1>3. \A A, g, T : ClosedBeyond(A, g, T)' <=> ClosedBeyond(A, g, T)
  BY <1>2 DEF ClosedBeyond
<1> QED
  BY <1>1, <1>2, <1>3 DEF Reachable, Beyond

LEMMA EnterEvidence ==
  ASSUME TypeInv, NothingDropped, MarksAreActive, OnlyReachable, NEW g, Enter(g)
  PROVE  NothingDropped' /\ MarksAreActive' /\ OnlyReachable'
<1>0. PICK n : n = Len(frames)
  OBVIOUS
<1>1. UNCHANGED <<prog, task, bodies, result>> /\ marked' = marked \cup {g} /\ Searching
  BY DEF Enter
<1>2. n \in Nat \ {0} /\ g \in frames[n].todo /\ g \in Fns \ marked
  BY <1>0, EnterFrames
<1>3. Len(frames') = n + 1 /\ frames'[n + 1] = bodies[g] /\ bodies[g].fn = g
  BY <1>0, <1>2, EnterFrames DEF TypeInv, BodiesInv
<1>4. \A k \in 1..n : /\ frames'[k].fn = frames[k].fn
                      /\ frames'[k].todo = frames[k].todo \ (IF k = n THEN {g} ELSE {})
                      /\ frames'[k].locks = frames[k].locks
                      /\ frames'[k].unlocks = frames[k].unlocks
  <2> SUFFICES ASSUME NEW k \in 1..n
               PROVE  /\ frames'[k].fn = frames[k].fn
                      /\ frames'[k].todo = frames[k].todo \ (IF k = n THEN {g} ELSE {})
                      /\ frames'[k].locks = frames[k].locks
                      /\ frames'[k].unlocks = frames[k].unlocks
    OBVIOUS
  <2>1. frames[k] \in Frames
    BY <1>0, <1>2, ElementOfSeq DEF TypeInv, FramesInv
  <2> DEFINE e == [frames[k] EXCEPT !.todo = @ \ {g}]
  <2>2. e.fn = frames[k].fn /\ e.todo = frames[k].todo \ {g}
          /\ e.locks = frames[k].locks /\ e.unlocks = frames[k].unlocks
    BY <2>1 DEF Frames
  <2>3. frames'[k] = IF k = n THEN e ELSE frames[k]
    BY <1>0, EnterFrames
  <2> HIDE DEF e
  <2> QED
    BY <2>2, <2>3
<1>5. Searching'
  BY <1>2, <1>3 DEF Searching
<1>6. \A l : (FoundLocks(l)' <=> FoundLocks(l) \/ l \in bodies[g].locks)
             /\ (FoundUnlocks(l)' <=> FoundUnlocks(l) \/ l \in bodies[g].unlocks)
  BY <1>0, <1>1, <1>2, <1>3, <1>4, <1>5 DEF FoundLocks, FoundUnlocks
<1>7. /\ \A k \in 1..n : Active(k)' = Active(k)
      /\ Active(n + 1)' = Active(n) \cup {g}
  <2>1. \A k \in 1..n : Active(k)' = Active(k)
    <3> SUFFICES ASSUME NEW k \in 1..n
                 PROVE  Active(k)' = Active(k)
      OBVIOUS
    <3>1. \A j \in 1..k : j \in 1..n
      BY <1>2
    <3> QED
      BY <1>4, <3>1 DEF Active
  <2>2. Active(n + 1)' = Active(n) \cup {g}
    <3>1. 1..n + 1 = 1..n \cup {n + 1}
      BY <1>2
    <3> QED
      BY <1>3, <1>4, <3>1 DEF Active
  <2> QED
    BY <2>1, <2>2
<1>8. MarksAreActive'
  BY <1>0, <1>1, <1>3, <1>7 DEF MarksAreActive
<1>9. g \notin Active(n)
  BY <1>0, <1>2 DEF MarksAreActive
<1>10. ASSUME NEW x, Awaited(x)
       PROVE  x = g \/ Awaited(x)'
  <2>1. PICK k \in 1..n : \E c \in frames[k].todo \ Active(k) : x \in Beyond(Active(k), c)
    BY <1>0, <1>10 DEF Awaited
  <2>2. PICK c \in frames[k].todo \ Active(k) : x \in Beyond(Active(k), c)
    BY <2>1
  <2>3. CASE k = n /\ c = g
    <3>1. x \in Beyond(Active(n), g)
      BY <2>2, <2>3
    <3>2. \/ x = g
          \/ \E d \in bodies[g].todo \ (Active(n) \cup {g}) : x \in Beyond(Active(n) \cup {g}, d)
      BY <1>2, <3>1, BeyondCallees DEF TypeInv
    <3>3. ASSUME NEW d \in bodies[g].todo \ (Active(n) \cup {g}), x \in Beyond(Active(n) \cup {g}, d)
          PROVE  Awaited(x)'
      <4>1. d \in frames'[n + 1].todo \ Active(n + 1)'
        BY <1>3, <1>7, <3>3
      <4>2. x \in Beyond(Active(n + 1), d)'
        BY <1>1, <1>7, <3>3, SameReachable
      <4>3. n + 1 \in 1..Len(frames')
        BY <1>2, <1>3
      <4> QED
        BY <4>1, <4>2, <4>3 DEF Awaited
    <3> QED
      BY <3>2, <3>3
  <2>4. CASE ~(k = n /\ c = g)
    <3>1. c \in frames'[k].todo \ Active(k)'
      BY <1>4, <1>7, <2>2, <2>4
    <3>2. x \in Beyond(Active(k), c)'
      BY <1>1, <1>7, <2>2, SameReachable
    <3>3. k \in 1..Len(frames')
      BY <1>2, <1>3
    <3> QED
      BY <3>1, <3>2, <3>3 DEF Awaited
  <2> QED
    BY <2>3, <2>4
<1>11. \A x : (Got(x) => Got(x)') /\ Got(g)'
  BY <1>1, <1>6 DEF Got
<1>12. NothingDropped'
  BY <1>1, <1>10, <1>11, SameReachable DEF NothingDropped
<1>13. g \in Reachable
  <2>1. frames[n].fn \in Reachable /\ g \in bodies[frames[n].fn].todo
    BY <1>0, <1>2 DEF OnlyReachable
  <2> QED
    BY <2>1, ReachableCallees DEF TypeInv
<1>14. OnlyReachable'
  <2>1. \A k \in 1..n + 1 : frames'[k].fn \in Reachable
                            /\ frames'[k].todo \subseteq bodies[frames'[k].fn].todo
    <3>1. \A k \in 1..n + 1 : k = n + 1 \/ k \in 1..n
      BY <1>2
    <3> QED
      BY <1>0, <1>3, <1>4, <1>13, <3>1 DEF OnlyReachable
  <2>2. /\ \A l : FoundLocks(l)' => \E f \in Reachable : l \in bodies[f].locks
        /\ \A l : FoundUnlocks(l)' => \E f \in Reachable : l \in bodies[f].unlocks
    BY <1>6, <1>13 DEF OnlyReachable
  <2> QED
    BY <1>1, <1>3, <2>1, <2>2, SameReachable DEF OnlyReachable
<1> QED
  BY <1>8, <1>12, <1>14

(***************************************************************************)
(* Nothing beyond an active function is awaited by way of it: it can be    *)
(* skipped.                                                                *)
(***************************************************************************)
LEMMA SkipEvidence ==
  ASSUME TypeInv, NothingDropped, MarksAreActive, OnlyReachable, NEW g, Skip(g)
  PROVE  NothingDropped' /\ MarksAreActive' /\ OnlyReachable'
<1>0. PICK n : n = Len(frames)
  OBVIOUS
<1>1. UNCHANGED <<prog, task, bodies, marked, result>> /\ Searching
  BY DEF Skip
<1>2. n \in Nat \ {0} /\ Len(frames') = n /\ g \in Active(n)
  BY <1>0, SkipFrames DEF MarksAreActive
<1>3. \A k \in 1..n : /\ frames'[k].fn = frames[k].fn
                      /\ frames'[k].todo = frames[k].todo \ (IF k = n THEN {g} ELSE {})
                      /\ frames'[k].locks = frames[k].locks
                      /\ frames'[k].unlocks = frames[k].unlocks
  <2> SUFFICES ASSUME NEW k \in 1..n
               PROVE  /\ frames'[k].fn = frames[k].fn
                      /\ frames'[k].todo = frames[k].todo \ (IF k = n THEN {g} ELSE {})
                      /\ frames'[k].locks = frames[k].locks
                      /\ frames'[k].unlocks = frames[k].unlocks
    OBVIOUS
  <2>1. frames[k] \in Frames
    BY <1>0, <1>2, ElementOfSeq DEF TypeInv, FramesInv
  <2> DEFINE e == [frames[k] EXCEPT !.todo = @ \ {g}]
  <2>2. e.fn = frames[k].fn /\ e.todo = frames[k].todo \ {g}
          /\ e.locks = frames[k].locks /\ e.unlocks = frames[k].unlocks
    BY <2>1 DEF Frames
  <2>3. frames'[k] = IF k = n THEN e ELSE frames[k]
    BY <1>0, SkipFrames
  <2> HIDE DEF e
  <2> QED
    BY <2>2, <2>3
<1>4. Searching'
  BY <1>2 DEF Searching
<1>5. \A l : (FoundLocks(l)' <=> FoundLocks(l)) /\ (FoundUnlocks(l)' <=> FoundUnlocks(l))
  BY <1>0, <1>1, <1>2, <1>3, <1>4 DEF FoundLocks, FoundUnlocks
<1>6. \A k \in 1..n : Active(k)' = Active(k)
  <2> SUFFICES ASSUME NEW k \in 1..n
               PROVE  Active(k)' = Active(k)
    OBVIOUS
  <2>1. \A j \in 1..k : j \in 1..n
    BY <1>2
  <2> QED
    BY <1>3, <2>1 DEF Active
<1>7. MarksAreActive'
  <2>1. n \in 1..n
    BY <1>2
  <2>2. Active(n)' = Active(n)
    BY <1>6, <2>1
  <2> QED
    BY <1>0, <1>1, <1>2, <2>2 DEF MarksAreActive
<1>8. ASSUME NEW x, Awaited(x)
      PROVE  Awaited(x)'
  <2>1. PICK k \in 1..n : \E c \in frames[k].todo \ Active(k) : x \in Beyond(Active(k), c)
    BY <1>0, <1>8 DEF Awaited
  <2>2. PICK c \in frames[k].todo \ Active(k) : x \in Beyond(Active(k), c)
    BY <2>1
  <2>3. c \in frames'[k].todo \ Active(k)'
    BY <1>2, <1>3, <1>6, <2>2
  <2>4. x \in Beyond(Active(k), c)'
    BY <1>1, <1>6, <2>2, SameReachable
  <2> QED
    BY <1>2, <2>3, <2>4 DEF Awaited
<1>9. NothingDropped'
  BY <1>1, <1>5, <1>8, SameReachable DEF NothingDropped, Got
<1>10. OnlyReachable'
  BY <1>0, <1>1, <1>2, <1>3, <1>5, SameReachable DEF OnlyReachable
<1> QED
  BY <1>7, <1>9, <1>10

LEMMA LeaveEvidence ==
  ASSUME TypeInv, Evidence, NothingDropped, MarksAreActive, OnlyReachable, Leave
  PROVE  NothingDropped' /\ MarksAreActive' /\ OnlyReachable'
<1>0. PICK n : n = Len(frames)
  OBVIOUS
<1>1. UNCHANGED <<prog, task, bodies>> /\ Searching /\ marked' = marked \ {Top.fn}
  BY DEF Leave
<1>2. /\ n \in Nat \ {0} /\ n - 1 \in Nat /\ Len(frames') = n - 1
      /\ Top = frames[n] /\ Top.todo = {}
  BY <1>0, LeaveFrames
<1>3. \A k \in 1..n - 1 : /\ frames'[k].fn = frames[k].fn
                          /\ frames'[k].todo = frames[k].todo
  BY <1>0, LeaveFrames
<1>4. \A k \in 0..n - 1 : Active(k)' = Active(k)
  <2> SUFFICES ASSUME NEW k \in 0..n - 1
               PROVE  Active(k)' = Active(k)
    OBVIOUS
  <2>1. \A j \in 1..k : j \in 1..n - 1
    BY <1>2
  <2> QED
    BY <1>3, <2>1 DEF Active
<1>5. MarksAreActive'
  <2>1. 1..n = 1..n - 1 \cup {n} /\ n \notin 1..n - 1 /\ n - 1 \in 0..n - 1
    BY <1>2
  <2>2. \A j \in 1..n - 1 : frames[j].fn # frames[n].fn
    BY <1>0, <2>1 DEF TypeInv, FramesInv
  <2>3. Active(n) \ {frames[n].fn} = Active(n - 1)
    BY <2>1, <2>2 DEF Active
  <2>4. PICK m : m = n - 1
    OBVIOUS
  <2>5. Active(m)' = Active(m)
    BY <1>4, <2>1, <2>4
  <2> QED
    BY <1>0, <1>1, <1>2, <2>3, <2>4, <2>5 DEF MarksAreActive
<1>6. ASSUME NEW x, Awaited(x)
      PROVE  Awaited(x)'
  <2>1. PICK k \in 1..n : \E c \in frames[k].todo \ Active(k) : x \in Beyond(Active(k), c)
    BY <1>0, <1>6 DEF Awaited
  <2>2. PICK c \in frames[k].todo \ Active(k) : x \in Beyond(Active(k), c)
    BY <2>1
  <2>3. k \in 1..n - 1 /\ k \in 0..n - 1
    BY <1>2, <2>2
  <2>4. c \in frames'[k].todo \ Active(k)'
    BY <1>3, <1>4, <2>2, <2>3
  <2>5. x \in Beyond(Active(k), c)'
    BY <1>1, <1>4, <2>2, <2>3, SameReachable
  <2> QED
    BY <1>2, <2>3, <2>4, <2>5 DEF Awaited
<1>7. \A l : (FoundLocks(l)' <=> FoundLocks(l)) /\ (FoundUnlocks(l)' <=> FoundUnlocks(l))
  BY LeaveKeepsFound
<1>8. NothingDropped'
  BY <1>1, <1>6, <1>7, SameReachable DEF NothingDropped, Got
<1>9. OnlyReachable'
  <2>1. \A k \in 1..n - 1 : k \in 1..n
    BY <1>2
  <2> QED
    BY <1>0, <1>1, <1>2, <1>3, <1>7, <2>1, SameReachable DEF OnlyReachable
<1> QED
  BY <1>5, <1>8, <1>9

LEMMA EvidenceStep == TypeInv /\ EvidenceInv /\ [Next]_vars => EvidenceInv'
<1> SUFFICES ASSUME TypeInv, EvidenceInv, [Next]_vars, Evidence'
             PROVE  NothingDropped' /\ MarksAreActive' /\ OnlyReachable'
  BY DEF EvidenceInv
<1>1. UNCHANGED <<prog, task, bodies>>
  BY DEF Next, Step, Enter, Skip, Leave, Terminating, vars
<1>2. Evidence /\ NothingDropped /\ MarksAreActive /\ OnlyReachable
  BY <1>1 DEF EvidenceInv, Evidence
<1>3. CASE UNCHANGED vars
  <2>1. UNCHANGED <<frames, marked, result>>
    BY <1>3 DEF vars
  <2>2. \A k : Active(k)' = Active(k)
    BY <2>1 DEF Active
  <2>3. \A x : Awaited(x)' <=> Awaited(x)
    BY <1>1, <2>1, <2>2, SameReachable DEF Awaited
  <2>4. \A l : (FoundLocks(l)' <=> FoundLocks(l)) /\ (FoundUnlocks(l)' <=> FoundUnlocks(l))
    BY <2>1 DEF FoundLocks, FoundUnlocks, Searching
  <2>5. NothingDropped'
    BY <1>1, <1>2, <2>3, <2>4, SameReachable DEF NothingDropped, Got
  <2>6. OnlyReachable'
    BY <1>1, <1>2, <2>1, <2>4, SameReachable DEF OnlyReachable
  <2>7. MarksAreActive'
    BY <1>2, <2>1 DEF MarksAreActive, Active
  <2> QED
    BY <2>5, <2>6, <2>7
<1>4. CASE Step
  BY <1>2, <1>4, EnterEvidence, SkipEvidence, LeaveEvidence DEF Step
<1>5. CASE Terminating
  BY <1>3, <1>5 DEF Terminating
<1> QED
  BY <1>3, <1>4, <1>5 DEF Next

-----------------------------------------------------------------------------
(***************************************************************************)
(* Every search (collectFunctionLockEffects,                               *)
(* collectDeferredCallLockEffects, collectTransitiveLockUsageEvidence)     *)
(* ends with the locks of exactly the functions reachable from where it    *)
(* starts, the least set that is closed under calls, in whatever order it  *)
(* looks at the callees.  A callee that is skipped because it has a mark,  *)
(* which may still be on the stack, loses nothing; nor does it matter      *)
(* whether a function that is left keeps its mark.                         *)
(***************************************************************************)
ReachableExactly ==
  Done =>
    /\ result.locks = OwnLocks \cup UNION {bodies[f].locks : f \in Reachable}
    /\ result.unlocks = OwnUnlocks \cup UNION {bodies[f].unlocks : f \in Reachable}

(***************************************************************************)
(* ReachableExactly holds in every search, whatever the functions of the   *)
(* package call and however they call each other in circles.               *)
(***************************************************************************)
THEOREM EffectsOfReachable == Spec => []ReachableExactly
<1> SUFFICES Spec => [](TypeInv /\ SearchInv /\ EvidenceInv /\ ReachableExactly)
  BY PTL
<1>1. TypeInv /\ SearchInv /\ EvidenceInv => ReachableExactly
  <2> SUFFICES ASSUME TypeInv, SearchInv, EvidenceInv, Done
               PROVE  /\ result.locks = OwnLocks \cup UNION {bodies[f].locks : f \in Reachable}
                      /\ result.unlocks = OwnUnlocks \cup UNION {bodies[f].unlocks : f \in Reachable}
    BY DEF ReachableExactly
  <2>1. Len(frames) = 0 /\ ~Searching
    BY DEF Done, Searching
  <2>2. CASE Evidence
    <3>1. OwnLocks = {} /\ OwnUnlocks = {}
      BY <2>2 DEF Evidence, OwnLocks, OwnUnlocks
    <3>2. \A x \in Reachable : Got(x)
      BY <2>1, <2>2 DEF EvidenceInv, NothingDropped, Awaited
    <3>3. \A l : l \in result.locks <=> \E f \in Reachable : l \in bodies[f].locks
      BY <2>1, <2>2, <3>2 DEF EvidenceInv, OnlyReachable, Got, FoundLocks
    <3>4. \A l : l \in result.unlocks <=> \E f \in Reachable : l \in bodies[f].unlocks
      BY <2>1, <2>2, <3>2 DEF EvidenceInv, OnlyReachable, Got, FoundUnlocks
    <3> QED
      BY <3>1, <3>3, <3>4
  <2>3. CASE ~Evidence
    <3>1. Closed(marked)
      <4>1. \A f, g : ~Pending(f, g)
        BY <2>1 DEF Pending
      <4> QED
        BY <2>3, <4>1 DEF SearchInv, NothingLost, Closed
    <3>2. marked = Reachable
      BY <2>3, <3>1 DEF SearchInv, NothingExtra, Reachable, TypeInv, FramesInv
    <3> QED
      BY <2>1, <2>3, <3>2 DEF SearchInv, Collected, FoundLocks, FoundUnlocks
  <2> QED
    BY <2>2, <2>3
<1> QED
  BY <1>1, InitSearch, SearchStep, InitEvidence, EvidenceStep, AlwaysTypeInv, PTL DEF Spec

-----------------------------------------------------------------------------
(***************************************************************************)
(* Where every call is resolved, the least set closed under the callees    *)
(* the search looks at is the set of functions a run can call.             *)
(***************************************************************************)
BodiesFixed ==
  /\ task \in Tasks(prog)
  /\ bodies = [f \in Fns |-> Activation(prog, task.mode, f)]

LEMMA AlwaysBodiesFixed == Spec => []BodiesFixed
<1>1. Init => BodiesFixed
  BY DEF Init, BodiesFixed, Fns
<1>2. BodiesFixed /\ [Next]_vars => BodiesFixed'
  BY DEF BodiesFixed, Fns, Next, Step, Enter, Skip, Leave, Terminating, vars
<1> QED
  BY <1>1, <1>2, PTL DEF Spec

CalleesOf(p, den, f) == UNION {CalleesGiven(p, den, i) : i \in Calls(p, f)}

(***************************************************************************)
(* CalledFrom is the least set of functions of the package that has the    *)
(* given ones and is closed under calls.                                   *)
(***************************************************************************)
LEMMA CalledFromLeast ==
  ASSUME NEW p, NEW den, NEW start, IsFiniteSet(DOMAIN p.fns)
  PROVE  LET F == DOMAIN p.fns
             R == CalledFrom(p, den, start)
             ClosedIn(T) == \A f \in T \cap F : CalleesOf(p, den, f) \cap F \subseteq T
         IN  /\ R \subseteq F /\ start \cap F \subseteq R
             /\ ClosedIn(R)
             /\ \A T : start \cap F \subseteq T /\ ClosedIn(T) => R \subseteq T
<1> DEFINE F == DOMAIN p.fns
           N == Cardinality(F)
           next == [f \in F |-> CalleesOf(p, den, f)]
           P(w) == w = [n \in 0..N |->
                          IF n = 0
                          THEN start
                          ELSE LET fewer == w[n - 1] IN
                                 fewer \cup
                                   UNION {UNION {CalleesGiven(p, den, i) :
                                                   i \in {j \in Instrs(p, f) : j.op = "call"}} :
                                            f \in fewer \cap DOMAIN p.fns}]
           within == CHOOSE w : P(w)
<1>1. \A w : \A n \in 0..N :
        UNION {next[f] : f \in w[n - 1] \cap F}
          = UNION {UNION {CalleesGiven(p, den, i) : i \in {j \in Instrs(p, f) : j.op = "call"}} :
                     f \in w[n - 1] \cap F}
  BY DEF CalleesOf, Calls
<1>2. \A w : P(w) <=> Growth(w, F, start, next)
  <2> HIDE DEF next
  <2> QED
    BY <1>1 DEF Growth
<1>3. \E w : Growth(w, F, start, next)
  <2> HIDE DEF next
  <2> QED
    BY GrowthExists
<1>4. P(within)
  <2> HIDE DEF P
  <2> QED
    BY <1>2, <1>3
<1>5. Growth(within, F, start, next)
  <2> HIDE DEF P, within
  <2> QED
    BY <1>2, <1>4
<1>6. CalledFrom(p, den, start) = within[N] \cap F
  BY DEF CalledFrom
<1>7. \A f \in F : next[f] = CalleesOf(p, den, f)
  OBVIOUS
<1> HIDE DEF P, within, next
<1>8. LET R == within[Cardinality(F)] \cap F
      IN  /\ start \cap F \subseteq R
          /\ ClosedWithin(F, next, R)
          /\ \A T : start \cap F \subseteq T /\ ClosedWithin(F, next, T) => R \subseteq T
  BY <1>5, GrowthIsLeast
<1> QED
  BY <1>6, <1>7, <1>8 DEF ClosedWithin

(***************************************************************************)
(* In a resolved package the functions a search reaches are those called   *)
(* from its roots.                                                         *)
(***************************************************************************)
LEMMA ReachableIsCalled ==
  ASSUME BodiesFixed, CallsResolved, Done, IsFiniteSet(Fns)
  PROVE  Reachable = Reached(Roots)
<1> DEFINE den == Denotes(prog)
<1>1. \A f \in Fns : bodies[f].todo = CalleesOf(prog, den, f) \cap Fns
  <2> SUFFICES ASSUME NEW f \in Fns
               PROVE  bodies[f].todo = CalleesOf(prog, den, f) \cap Fns
    OBVIOUS
  <2>1. \A c \in Calls(prog, f) :
          /\ EffectCallees(prog, f, c) \cap Fns = CalleesGiven(prog, den, c) \cap Fns
          /\ EvidenceCallees(prog, f, c) \cap Fns = CalleesGiven(prog, den, c) \cap Fns
    BY DEF CallsResolved, Fns
  <2>2. bodies[f].todo =
          IF task.mode = "evidence"
          THEN (UNION {EvidenceCallees(prog, f, c) : c \in Calls(prog, f)}) \cap Fns
          ELSE (UNION {EffectCallees(prog, f, c) : c \in Calls(prog, f)}) \cap Fns
    BY DEF BodiesFixed, Activation, Fns
  <2> HIDE DEF den
  <2>3. (UNION {EvidenceCallees(prog, f, c) : c \in Calls(prog, f)}) \cap Fns
          = CalleesOf(prog, den, f) \cap Fns
    BY <2>1 DEF CalleesOf
  <2>4. (UNION {EffectCallees(prog, f, c) : c \in Calls(prog, f)}) \cap Fns
          = CalleesOf(prog, den, f) \cap Fns
    BY <2>1 DEF CalleesOf
  <2> QED
    BY <2>2, <2>3, <2>4
<1>2. Roots \subseteq Fns
  BY DEF Roots, BodiesFixed, Tasks, DeferFrame, Fns
<1>3. LET R == Reached(Roots)
          ClosedIn(T) == \A f \in T \cap Fns : CalleesOf(prog, den, f) \cap Fns \subseteq T
      IN  /\ R \subseteq Fns /\ Roots \cap Fns \subseteq R
          /\ ClosedIn(R)
          /\ \A T : Roots \cap Fns \subseteq T /\ ClosedIn(T) => R \subseteq T
  <2> HIDE DEF den
  <2>1. Reached(Roots) = CalledFrom(prog, den, Roots)
    BY DEF Reached, den
  <2> QED
    BY <2>1, CalledFromLeast DEF Fns
<1> HIDE DEF den
<1>4. \A T : Closed(T) <=>
        Roots \subseteq T /\ \A f \in T \cap Fns : CalleesOf(prog, den, f) \cap Fns \subseteq T
  BY <1>1 DEF Closed
<1>5. Closed(Reached(Roots)) /\ \A T : Closed(T) => Reached(Roots) \subseteq T
  BY <1>2, <1>3, <1>4
<1> QED
  BY <1>3, <1>5 DEF Reachable

LEMMA ReachedMonotone ==
  ASSUME NEW S, NEW T, S \cap Fns \subseteq T, IsFiniteSet(Fns)
  PROVE  Reached(S) \subseteq Reached(T)
<1> DEFINE den == Denotes(prog)
<1> HIDE DEF den
<1>1. \A R : S \cap Fns \subseteq R
              /\ (\A f \in R \cap Fns : CalleesOf(prog, den, f) \cap Fns \subseteq R)
            => CalledFrom(prog, den, S) \subseteq R
  BY CalledFromLeast DEF Fns
<1>2. /\ T \cap Fns \subseteq CalledFrom(prog, den, T)
      /\ \A f \in CalledFrom(prog, den, T) \cap Fns :
           CalleesOf(prog, den, f) \cap Fns \subseteq CalledFrom(prog, den, T)
  BY CalledFromLeast DEF Fns
<1> QED
  BY <1>1, <1>2 DEF Reached, den

(***************************************************************************)
(* Where every call is resolved and the package has finitely many          *)
(* functions, what collectFunctionLockEffects returns for a function is    *)
(* what the functions a run of it can call take and release, whatever the  *)
(* order in which the search meets them and however they recurse.          *)
(***************************************************************************)
THEOREM EffectsExactWhenResolved ==
  Spec => [](CallsResolved /\ IsFiniteSet(DOMAIN prog.fns) => EffectsExact)
<1>1. TypeInv /\ BodiesFixed /\ ReachableExactly
        => (CallsResolved /\ IsFiniteSet(DOMAIN prog.fns) => EffectsExact)
  <2> SUFFICES ASSUME TypeInv, BodiesFixed, ReachableExactly, CallsResolved,
                      IsFiniteSet(Fns), Done, task.mode = "effects"
               PROVE  result = [locks   |-> LocksOf(Reached({task.fn})),
                                unlocks |-> UnlocksOf(Reached({task.fn}))]
    BY DEF EffectsExact, Fns
  <2>1. Roots = {task.fn} /\ OwnLocks = {} /\ OwnUnlocks = {}
    BY DEF Roots, OwnLocks, OwnUnlocks
  <2>2. Reachable = Reached({task.fn})
    BY <2>1, ReachableIsCalled
  <2>3. \A f \in Reachable :
          /\ bodies[f].locks = collectDirectFunctionLockEffects(prog, f).locks
          /\ bodies[f].unlocks = collectDirectFunctionLockEffects(prog, f).unlocks
    BY DEF BodiesFixed, Activation, Reachable
  <2>4. result.locks = LocksOf(Reachable) /\ result.unlocks = UnlocksOf(Reachable)
    BY <2>1, <2>3 DEF ReachableExactly, LocksOf, UnlocksOf
  <2>5. result \in Effects
    BY DEF Done, TypeInv, ResultInv
  <2>6. result = [locks |-> result.locks, unlocks |-> result.unlocks]
    BY <2>5 DEF Effects, EffectsOf
  <2> QED
    BY <2>2, <2>4, <2>6
<1> QED
  BY <1>1, AlwaysTypeInv, AlwaysBodiesFixed, EffectsOfReachable, PTL

(***************************************************************************)
(* In the same packages collectTransitiveLockUsageEvidence finds the same  *)
(* locks, and no fewer unlocks.                                            *)
(***************************************************************************)
THEOREM EvidenceExactWhenResolved ==
  Spec => [](CallsResolved /\ IsFiniteSet(DOMAIN prog.fns) => EvidenceExact)
<1>1. BodiesFixed /\ ReachableExactly
        => (CallsResolved /\ IsFiniteSet(DOMAIN prog.fns) => EvidenceExact)
  <2> SUFFICES ASSUME BodiesFixed, ReachableExactly, CallsResolved,
                      IsFiniteSet(Fns), Done, task.mode = "evidence"
               PROVE  /\ result.locks = LocksOf(Reached({task.fn}))
                      /\ UnlocksOf(Reached({task.fn})) \subseteq result.unlocks
    BY DEF EvidenceExact, Fns
  <2>1. Roots = {task.fn} /\ OwnLocks = {} /\ OwnUnlocks = {}
    BY DEF Roots, OwnLocks, OwnUnlocks
  <2>2. Reachable = Reached({task.fn})
    BY <2>1, ReachableIsCalled
  <2>3. \A f \in Reachable :
          /\ bodies[f].locks = collectLockUsageEvidence(prog, f).locks
          /\ bodies[f].unlocks = collectLockUsageEvidence(prog, f).unlocks
    BY DEF BodiesFixed, Activation, Reachable
  <2>4. \A f : /\ collectLockUsageEvidence(prog, f).locks
                    = collectDirectFunctionLockEffects(prog, f).locks
               /\ collectDirectFunctionLockEffects(prog, f).unlocks
                    \subseteq collectLockUsageEvidence(prog, f).unlocks
    BY DEF collectLockUsageEvidence, collectDirectFunctionLockEffects, Calls, Objects, Known
  <2>5. result.locks = LocksOf(Reachable) /\ UnlocksOf(Reachable) \subseteq result.unlocks
    BY <2>1, <2>3, <2>4 DEF ReachableExactly, LocksOf, UnlocksOf
  <2> QED
    BY <2>2, <2>5
<1> QED
  BY <1>1, AlwaysBodiesFixed, EffectsOfReachable, PTL

(***************************************************************************)
(* In the same packages collectDeferredCallLockEffects misses no lock or   *)
(* unlock of a function the deferred call can reach, and reports no lock   *)
(* of any but those and the functions its closure captures.                *)
(***************************************************************************)
THEOREM DeferredCoveredWhenResolved ==
  Spec => [](CallsResolved /\ IsFiniteSet(DOMAIN prog.fns) => DeferredEffectsCovered)
<1>1. BodiesFixed /\ ReachableExactly
        => (CallsResolved /\ IsFiniteSet(DOMAIN prog.fns) => DeferredEffectsCovered)
  <2> SUFFICES ASSUME BodiesFixed, ReachableExactly, CallsResolved,
                      IsFiniteSet(Fns), Done, task.mode = "deferred"
               PROVE  DeferredEffectsCovered
    BY DEF DeferredEffectsCovered, Fns
  <2> DEFINE c == task.call
             given == CalleesGiven(prog, Denotes(prog), c)
             own == Objects(prog, {i \in {c} : isLockCall(prog, i)})
             called == Reached(given)
             offered == called \cup Reached(DeferredCallees(prog, c))
  <2>1. c \in AllInstrs(prog) /\ c.op = "defer"
    BY DEF BodiesFixed, Tasks
  <2>2. Roots = DeferFrame(prog, c).todo /\ OwnLocks = own
    BY DEF Roots, OwnLocks, DeferFrame
  <2>3. given \cap Fns \subseteq Roots
    BY <2>1, <2>2 DEF CallsResolved, Fns
  <2>4. Reachable = Reached(Roots)
    BY ReachableIsCalled
  <2>5. \A f \in Reachable :
          /\ bodies[f].locks = collectDirectFunctionLockEffects(prog, f).locks
          /\ bodies[f].unlocks = collectDirectFunctionLockEffects(prog, f).unlocks
    BY DEF BodiesFixed, Activation, Reachable
  <2> HIDE DEF given, own
  <2>6. /\ result.locks = own \cup LocksOf(Reachable)
        /\ UnlocksOf(Reachable) \subseteq result.unlocks
    BY <2>2, <2>5 DEF ReachableExactly, LocksOf, UnlocksOf
  <2>7. called \subseteq Reachable
    BY <2>3, <2>4, ReachedMonotone
  <2>8. Reachable \subseteq offered
    <3>1. Roots \cap Fns \subseteq DeferredCallees(prog, c)
      BY <2>2 DEF DeferFrame
    <3> QED
      BY <2>4, <3>1, ReachedMonotone
  <2>9. /\ own \cup LocksOf(called) \subseteq result.locks
        /\ result.locks \subseteq own \cup LocksOf(offered)
        /\ UnlocksOf(called) \subseteq result.unlocks
    <3> HIDE DEF called, offered
    <3> QED
      BY <2>6, <2>7, <2>8 DEF LocksOf, UnlocksOf
  <2> QED
    BY <2>9 DEF DeferredEffectsCovered, given, own
<1> QED
  BY <1>1, AlwaysBodiesFixed, EffectsOfReachable, PTL

-----------------------------------------------------------------------------
(***************************************************************************)
(* The least solution.                                                     *)
(***************************************************************************)
Solution(p, den) == Literals(p) \subseteq den /\ Flow(p, den) \subseteq den

LEMMA CalleesGrow ==
  ASSUME NEW p, NEW a, NEW b, a \subseteq b, NEW c
  PROVE  CalleesGiven(p, a, c) \subseteq CalleesGiven(p, b, c)
<1>1. \A v : Of(a, v) \subseteq Of(b, v)
  BY DEF Of
<1> QED
  BY <1>1 DEF CalleesGiven

LEMMA SourcesGrow ==
  ASSUME NEW p, NEW a, NEW b, a \subseteq b, NEW v
  PROVE  Sources(p, a, v) \subseteq Sources(p, b, v)
<1>1. \A c : CalleesGiven(p, a, c) \subseteq CalleesGiven(p, b, c)
  BY CalleesGrow
<1> DEFINE w == p.values[v]
           Bound(den) == UNION {UNION {{i.args[k] : k \in {j \in DOMAIN p.fns[f].params \cap DOMAIN i.args :
                                               p.fns[f].params[j] = v}} :
                           f \in CalleesGiven(p, den, i) \cap DOMAIN p.fns} :
                    i \in CallLike(p)}
           Returned(den) == UNION {Elements(i.results) :
             i \in {j \in UNION {Instrs(p, f) : f \in CalleesGiven(p, den, w) \cap DOMAIN p.fns} :
                      j.op = "return"}}
<1>2. Bound(a) \subseteq Bound(b)
  <2> SUFFICES ASSUME NEW i \in CallLike(p), NEW f \in CalleesGiven(p, a, i) \cap DOMAIN p.fns
               PROVE  f \in CalleesGiven(p, b, i) \cap DOMAIN p.fns
    OBVIOUS
  <2> QED
    BY <1>1
<1>3. Returned(a) \subseteq Returned(b)
  <2>1. CalleesGiven(p, a, w) \cap DOMAIN p.fns \subseteq CalleesGiven(p, b, w) \cap DOMAIN p.fns
    BY <1>1
  <2> HIDE DEF w
  <2> QED
    BY <2>1
<1>4. CASE w.kind = "param"
  <2>1. Sources(p, a, v) = Bound(a) /\ Sources(p, b, v) = Bound(b)
    BY <1>4 DEF Sources
  <2> QED
    BY <1>2, <2>1
<1>5. CASE w.kind = "call"
  <2>1. Sources(p, a, v) = Returned(a) /\ Sources(p, b, v) = Returned(b)
    BY <1>5 DEF Sources
  <2> QED
    BY <1>3, <2>1
<1>6. CASE w.kind \notin {"param", "call"}
  <2>1. Sources(p, a, v) = Sources(p, b, v)
    BY <1>6 DEF Sources
  <2> QED
    BY <2>1
<1> QED
  BY <1>4, <1>5, <1>6

LEMMA FlowGrows ==
  ASSUME NEW p, NEW a, NEW b, a \subseteq b
  PROVE  Flow(p, a) \subseteq Flow(p, b)
<1>1. \A v : Of(a, v) \subseteq Of(b, v)
  BY DEF Of
<1>2. \A v : Sources(p, a, v) \subseteq Sources(p, b, v)
  BY SourcesGrow
<1>3. ASSUME NEW v \in DOMAIN p.values
      PROVE  UNION {Of(a, w) : w \in Sources(p, a, v)} \subseteq UNION {Of(b, w) : w \in Sources(p, b, v)}
  BY <1>1, <1>2
<1>4. ASSUME NEW v \in DOMAIN p.values
      PROVE  {v} \X UNION {Of(a, w) : w \in Sources(p, a, v)} \subseteq {v} \X UNION {Of(b, w) : w \in Sources(p, b, v)}
  BY <1>3
<1> QED
  BY <1>4 DEF Flow

LEMMA FlowMember ==
  ASSUME NEW p, NEW den, NEW v \in DOMAIN p.values, NEW w \in Sources(p, den, v), NEW o \in Of(den, w)
  PROVE  <<v, o>> \in Flow(p, den)
BY DEF Flow

LEMMA FlowOrigin ==
  ASSUME NEW p, NEW den, NEW d \in Flow(p, den), d \notin den
  PROVE  /\ d[1] \in DOMAIN p.values /\ d = <<d[1], d[2]>>
         /\ \E w \in Sources(p, den, d[1]) : d[2] \in Of(den, w)
BY DEF Flow

LEMMA PairsFinite ==
  ASSUME NEW p, IsFiniteSet(DOMAIN p.values)
  PROVE  IsFiniteSet(Pairs(p))
<1> DEFINE V == DOMAIN p.values
           L == {Literal(p, v) : v \in V}
<1>1. \A v : IsFiniteSet(Literal(p, v))
  BY FS_EmptySet, FS_Singleton DEF Literal
<1>2. IsFiniteSet(L)
  <2> DEFINE f == [v \in V |-> Literal(p, v)]
  <2>1. f \in Surjection(V, L)
    BY DEF Surjection
  <2> HIDE DEF f, L
  <2> QED
    BY <2>1, FS_Surjection
<1>3. IsFiniteSet(UNION L)
  <2>1. \A S \in L : IsFiniteSet(S)
    BY <1>1
  <2> HIDE DEF L
  <2> QED
    BY <1>2, <2>1, FS_UNION
<1> DEFINE U == UNION L
<1>4. Pairs(p) = V \X U
  BY DEF Pairs
<1> HIDE DEF U, L, V
<1>5. IsFiniteSet(V) /\ IsFiniteSet(U)
  BY <1>3 DEF V, U
<1> QED
  BY <1>4, <1>5, FS_Product

LEMMA FlowType ==
  ASSUME NEW p
  PROVE  /\ Literals(p) \in SUBSET Pairs(p)
         /\ \A den \in SUBSET Pairs(p) : Flow(p, den) \in SUBSET Pairs(p)
<1>1. Literals(p) \in SUBSET Pairs(p)
  <2> SUFFICES ASSUME NEW v \in DOMAIN p.values, NEW o \in Literal(p, v)
               PROVE  <<v, o>> \in Pairs(p)
    BY DEF Literals
  <2> QED
    BY DEF Pairs
<1>2. ASSUME NEW den \in SUBSET Pairs(p), NEW d \in Flow(p, den)
      PROVE  d \in Pairs(p)
  <2>1. CASE d \in den
    BY <2>1
  <2>2. CASE d \notin den
    <3>1. PICK w \in Sources(p, den, d[1]) : d[2] \in Of(den, w)
      BY <2>2, FlowOrigin
    <3>2. PICK e \in den : d[2] = e[2]
      BY <3>1 DEF Of
    <3>3. e \in Pairs(p)
      OBVIOUS
    <3>4. d[2] \in UNION {Literal(p, v) : v \in DOMAIN p.values}
      BY <3>2, <3>3 DEF Pairs
    <3>5. d[1] \in DOMAIN p.values /\ d = <<d[1], d[2]>>
      BY <2>2, FlowOrigin
    <3> QED
      BY <3>4, <3>5 DEF Pairs
  <2> QED
    BY <2>1, <2>2
<1> QED
  BY <1>1, <1>2

LEMMA FlowKeeps ==
  ASSUME NEW p, NEW den
  PROVE  den \subseteq Flow(p, den)
BY DEF Flow

(***************************************************************************)
(* Denotes is defined: what is not yet a solution grows to a larger set.   *)
(***************************************************************************)
Grows(p, grown) ==
  /\ grown \in [SUBSET Pairs(p) -> SUBSET Pairs(p)]
  /\ \A den \in SUBSET Pairs(p) :
       grown[den] = IF Flow(p, den) = den THEN den ELSE grown[Flow(p, den)]

LEMMA GrowsExists ==
  ASSUME NEW p, IsFiniteSet(DOMAIN p.values)
  PROVE  \E grown : Grows(p, grown)
<1> DEFINE F == Pairs(p)
           V == SUBSET F
           W == [SUBSET F -> V]
           step == [den \in SUBSET F |->
                      [w \in W |-> IF Flow(p, den) = den THEN den ELSE w[Flow(p, den)]]]
<1>1. IsFiniteSet(F)
  BY PairsFinite
<1>2. \A den \in SUBSET F : Flow(p, den) \in SUBSET F
  BY FlowType
<1>3. step \in [SUBSET F -> [W -> V]]
  BY <1>2
<1>4. ASSUME NEW den \in SUBSET F, NEW w \in W, NEW u \in W,
             \A B \in Larger(den, F) : w[B] = u[B]
      PROVE  step[den][w] = step[den][u]
  <2>1. CASE Flow(p, den) = den
    BY <2>1
  <2>2. CASE Flow(p, den) # den
    <3>1. Flow(p, den) \in Larger(den, F)
      BY <1>2, <2>2, FlowKeeps DEF Larger
    <3> QED
      BY <1>4, <2>2, <3>1
  <2> QED
    BY <2>1, <2>2
<1>5. AsksLarger(step, F, V)
  <2> HIDE DEF step, F
  <2> QED
    BY <1>3, <1>4 DEF AsksLarger
<1>6. {} \in V
  OBVIOUS
<1>7. PICK grown : Solves(grown, step, F, V)
  <2> HIDE DEF step, F, V
  <2> QED
    BY <1>1, <1>5, <1>6, LargerRecursion
<1>8. grown \in [SUBSET F -> SUBSET F]
  BY <1>7 DEF Solves
<1>9. \A den \in SUBSET F : grown[den] = step[den][grown]
  <2> HIDE DEF step
  <2> QED
    BY <1>7 DEF Solves
<1>10. \A den \in SUBSET F : step[den][grown] = IF Flow(p, den) = den THEN den ELSE grown[Flow(p, den)]
  BY <1>8
<1> QED
  BY <1>8, <1>9, <1>10 DEF Grows

LEMMA DenotesGrows ==
  ASSUME NEW p, IsFiniteSet(DOMAIN p.values)
  PROVE  \E grown : Grows(p, grown) /\ Denotes(p) = grown[Literals(p)]
<1> DEFINE P(w) == w = [den \in SUBSET Pairs(p) |->
                          IF Flow(p, den) = den THEN den ELSE w[Flow(p, den)]]
           grown == CHOOSE w : P(w)
<1>1. PICK g : Grows(p, g)
  BY GrowsExists
<1>2. P(g)
  BY <1>1 DEF Grows
<1>3. P(grown)
  <2> HIDE DEF P
  <2> QED
    BY <1>2
<1>4. Denotes(p) = grown[Literals(p)]
  BY DEF Denotes
<1> HIDE DEF grown
<1> DEFINE T == {A \in SUBSET Pairs(p) : grown[A] \in SUBSET Pairs(p)}
<1>5. \A A \in SUBSET Pairs(p) : grown[A] = IF Flow(p, A) = A THEN A ELSE grown[Flow(p, A)]
  BY <1>3
<1>6. ASSUME NEW A \in SUBSET Pairs(p), \A B \in Larger(A, Pairs(p)) : B \in T
      PROVE  A \in T
  <2>1. CASE Flow(p, A) = A
    BY <1>5, <2>1
  <2>2. CASE Flow(p, A) # A
    <3>1. Flow(p, A) \in Larger(A, Pairs(p))
      BY <2>2, FlowKeeps, FlowType DEF Larger
    <3> QED
      BY <1>5, <1>6, <2>2, <3>1
  <2> QED
    BY <2>1, <2>2
<1>7. SUBSET Pairs(p) \subseteq T
  <2> DEFINE F == Pairs(p)
  <2> HIDE DEF T, P
  <2>1. \A B \in SUBSET F : (\A C \in Larger(B, F) : C \in T) => B \in T
    BY <1>6
  <2>2. IsFiniteSet(F)
    BY PairsFinite
  <2> HIDE DEF F
  <2>3. SUBSET F \subseteq T
    BY <2>1, <2>2, LargerInduction
  <2> QED
    BY <2>3 DEF F
<1>8. grown = [A \in SUBSET Pairs(p) |-> grown[A]]
  BY <1>3
<1>9. grown \in [SUBSET Pairs(p) -> SUBSET Pairs(p)]
  BY <1>7, <1>8
<1> QED
  BY <1>4, <1>5, <1>9 DEF Grows

(***************************************************************************)
(* It is a solution, and contained in every other.                         *)
(***************************************************************************)
LEMMA GrownIsLeast ==
  ASSUME NEW p, IsFiniteSet(DOMAIN p.values), NEW grown, Grows(p, grown), NEW A \in SUBSET Pairs(p)
  PROVE  /\ A \subseteq grown[A]
         /\ Flow(p, grown[A]) = grown[A]
         /\ \A U : A \subseteq U /\ Flow(p, U) \subseteq U => grown[A] \subseteq U
<1> DEFINE Good(X, Y) == /\ X \subseteq Y
                         /\ Flow(p, Y) = Y
                         /\ \A U : X \subseteq U /\ Flow(p, U) \subseteq U => Y \subseteq U
           T == {B \in SUBSET Pairs(p) : Good(B, grown[B])}
<1>1. ASSUME NEW B \in SUBSET Pairs(p), \A C \in Larger(B, Pairs(p)) : C \in T
      PROVE  B \in T
  <2>1. grown[B] = IF Flow(p, B) = B THEN B ELSE grown[Flow(p, B)]
    BY DEF Grows
  <2>2. CASE Flow(p, B) = B
    <3>1. Good(B, B)
      BY <2>2
    <3> HIDE DEF Good
    <3> QED
      BY <2>1, <2>2, <3>1
  <2>3. CASE Flow(p, B) # B
    <3>1. Flow(p, B) \in Larger(B, Pairs(p))
      BY <2>3, FlowKeeps, FlowType DEF Larger
    <3>2. Good(Flow(p, B), grown[B])
      <4> HIDE DEF Good
      <4> QED
        BY <1>1, <2>1, <2>3, <3>1
    <3>3. ASSUME NEW U, B \subseteq U, Flow(p, U) \subseteq U
          PROVE  grown[B] \subseteq U
      <4>1. Flow(p, B) \subseteq U
        BY <3>3, FlowGrows
      <4> QED
        BY <3>2, <3>3, <4>1
    <3>4. B \subseteq grown[B] /\ Flow(p, grown[B]) = grown[B]
      BY <3>2, FlowKeeps
    <3>5. Good(B, grown[B])
      BY <3>3, <3>4
    <3> HIDE DEF Good
    <3> QED
      BY <3>5
  <2> QED
    BY <2>2, <2>3
<1>2. SUBSET Pairs(p) \subseteq T
  <2>1. IsFiniteSet(Pairs(p))
    BY PairsFinite
  <2> DEFINE F == Pairs(p)
  <2> HIDE DEF T, Good
  <2>2. \A B \in SUBSET F : (\A C \in Larger(B, F) : C \in T) => B \in T
    BY <1>1
  <2>3. IsFiniteSet(F)
    BY <2>1
  <2> HIDE DEF F
  <2>4. SUBSET F \subseteq T
    BY <2>2, <2>3, LargerInduction
  <2> QED
    BY <2>4 DEF F
<1>3. Good(A, grown[A])
  <2> HIDE DEF Good
  <2> QED
    BY <1>2
<1> QED
  BY <1>3

LEMMA DenotesLeast ==
  ASSUME NEW p, IsFiniteSet(DOMAIN p.values)
  PROVE  /\ Solution(p, Denotes(p))
         /\ Denotes(p) \in SUBSET Pairs(p)
         /\ \A U : Solution(p, U) => Denotes(p) \subseteq U
<1>1. PICK grown : Grows(p, grown) /\ Denotes(p) = grown[Literals(p)]
  BY DenotesGrows
<1>2. Literals(p) \in SUBSET Pairs(p)
  BY FlowType
<1>3. /\ Literals(p) \subseteq grown[Literals(p)]
      /\ Flow(p, grown[Literals(p)]) = grown[Literals(p)]
      /\ \A U : Literals(p) \subseteq U /\ Flow(p, U) \subseteq U => grown[Literals(p)] \subseteq U
  BY <1>1, <1>2, GrownIsLeast
<1>4. grown[Literals(p)] \in SUBSET Pairs(p)
  BY <1>1, <1>2 DEF Grows
<1> QED
  BY <1>1, <1>3, <1>4 DEF Solution

(***************************************************************************)
(* What flows into the values of T comes from those in L, if the values of *)
(* T get what they are from T alone and only those in L have more.         *)
(***************************************************************************)
LEMMA DenotesClosed ==
  ASSUME NEW p, IsFiniteSet(DOMAIN p.values), NEW v \in DOMAIN p.values
  PROVE  /\ Literal(p, v) \subseteq Of(Denotes(p), v)
         /\ \A w \in Sources(p, Denotes(p), v) : Of(Denotes(p), w) \subseteq Of(Denotes(p), v)
<1> DEFINE D == Denotes(p)
<1>1. Solution(p, D)
  BY DenotesLeast
<1> HIDE DEF D
<1>2. ASSUME NEW o \in Literal(p, v)
      PROVE  o \in Of(D, v)
  <2>1. <<v, o>> \in D
    BY <1>1 DEF Solution, Literals
  <2> QED
    BY <2>1 DEF Of
<1>3. ASSUME NEW w \in Sources(p, D, v), NEW o \in Of(D, w)
      PROVE  o \in Of(D, v)
  <2>1. <<v, o>> \in D
    BY <1>1, FlowMember DEF Solution
  <2> QED
    BY <2>1 DEF Of
<1> QED
  BY <1>2, <1>3 DEF D

LEMMA DenotesFrom ==
  ASSUME NEW p, IsFiniteSet(DOMAIN p.values), NEW T, NEW L,
         \A x \in T \ L : Literal(p, x) = {} /\ Sources(p, Denotes(p), x) \subseteq T
  PROVE  \A x \in T : Of(Denotes(p), x) \subseteq UNION {Of(Denotes(p), y) : y \in L}
<1> DEFINE D == Denotes(p)
           All == UNION {Of(D, y) : y \in L}
           U == {d \in D : d[1] \in T => d[2] \in All}
<1>1. Solution(p, D) /\ D \in SUBSET Pairs(p)
  BY DenotesLeast
<1>2. \A x \in T \ L : Literal(p, x) = {} /\ Sources(p, D, x) \subseteq T
  OBVIOUS
<1> HIDE DEF D
<1>3. \A x, o : <<x, o>> \in D => o \in Of(D, x)
  BY DEF Of
<1>4. Literals(p) \subseteq U
  <2> SUFFICES ASSUME NEW v \in DOMAIN p.values, NEW o \in Literal(p, v)
               PROVE  <<v, o>> \in U
    BY DEF Literals
  <2>1. <<v, o>> \in D
    BY <1>1 DEF Solution, Literals
  <2>2. ASSUME v \in T
        PROVE  o \in All
    <3>1. v \in L
      BY <1>2, <2>2
    <3> QED
      BY <1>3, <2>1, <3>1
  <2> QED
    BY <2>1, <2>2
<1>5. U \subseteq D
  OBVIOUS
<1>6. ASSUME NEW d \in Flow(p, U), d \notin U
      PROVE  FALSE
  <2>1. d \in Flow(p, D)
    <3> HIDE DEF U
    <3> QED
      BY <1>5, FlowGrows
  <2>2. d \in D
    BY <1>1, <2>1 DEF Solution
  <2>3. PICK w \in Sources(p, U, d[1]) : d[2] \in Of(U, w)
    <3> HIDE DEF U
    <3> QED
      BY <1>6, FlowOrigin
  <2>4. d = <<d[1], d[2]>>
    <3> HIDE DEF U
    <3> QED
      BY <1>6, FlowOrigin
  <2>5. PICK e \in U : e[1] = w /\ e[2] = d[2]
    <3> HIDE DEF U
    <3> QED
      BY <2>3 DEF Of
  <2>6. w \in Sources(p, D, d[1])
    <3> HIDE DEF U
    <3> QED
      BY <1>5, <2>3, SourcesGrow
  <2>7. d[1] \in T /\ d[2] \notin All
    BY <1>6, <2>2
  <2>8. CASE d[1] \in L
    <3>1. d[2] \in Of(D, d[1])
      BY <1>3, <2>2, <2>4
    <3> QED
      BY <2>7, <2>8, <3>1
  <2>9. CASE d[1] \notin L
    <3>1. w \in T
      BY <1>2, <2>6, <2>7, <2>9
    <3> QED
      BY <2>5, <2>7, <3>1
  <2> QED
    BY <2>8, <2>9
<1>7. D \subseteq U
  <2>1. Solution(p, U)
    <3> HIDE DEF U
    <3> QED
      BY <1>4, <1>6 DEF Solution
  <2> HIDE DEF U
  <2> QED
    BY <2>1, DenotesLeast DEF D
<1>8. ASSUME NEW x \in T, NEW o \in Of(D, x)
      PROVE  o \in All
  <2>1. PICK d \in D : d[1] = x /\ d[2] = o
    BY DEF Of
  <2> QED
    BY <1>7, <2>1
<1> QED
  BY <1>8 DEF D

(***************************************************************************)
(* ReachedFrom is the least set of values closed under next.               *)
(***************************************************************************)
LEMMA ReachedLeast ==
  ASSUME NEW p, IsFiniteSet(DOMAIN p.values), NEW v \in DOMAIN p.values, NEW next
  PROVE  LET V == DOMAIN p.values
             R == ReachedFrom(p, v, next)
         IN  /\ R \subseteq V /\ v \in R
             /\ \A w \in R : next[w] \cap V \subseteq R
             /\ \A T : v \in T /\ (\A w \in T \cap V : next[w] \cap V \subseteq T) => R \subseteq T
<1> DEFINE F == DOMAIN p.values
           N == Cardinality(F)
           P(w) == w = [n \in 0..N |->
                          IF n = 0
                          THEN {v}
                          ELSE LET fewer == w[n - 1] IN
                                 fewer \cup UNION {next[x] : x \in fewer \cap DOMAIN p.values}]
           within == CHOOSE w : P(w)
<1>1. \A w : P(w) <=> Growth(w, F, {v}, next)
  BY DEF Growth
<1>2. \E w : Growth(w, F, {v}, next)
  BY GrowthExists
<1>3. P(within)
  <2> HIDE DEF P
  <2> QED
    BY <1>1, <1>2
<1>4. Growth(within, F, {v}, next)
  <2> HIDE DEF P, within
  <2> QED
    BY <1>1, <1>3
<1>5. ReachedFrom(p, v, next) = within[N] \cap F
  BY DEF ReachedFrom
<1> HIDE DEF P, within
<1>6. LET R == within[Cardinality(F)] \cap F
      IN  /\ {v} \cap F \subseteq R
          /\ ClosedWithin(F, next, R)
          /\ \A T : {v} \cap F \subseteq T /\ ClosedWithin(F, next, T) => R \subseteq T
  BY <1>4, GrowthIsLeast
<1> QED
  BY <1>5, <1>6 DEF ClosedWithin

(***************************************************************************)
(* The values behind a value, and the leaves of a value.                   *)
(***************************************************************************)
LEMMA ShortSeqs ==
  ASSUME NEW S
  PROVE  <<>> \in Seq(S) /\ \A x \in S : <<x>> \in Seq(S)
OBVIOUS

LEMMA BehindType ==
  ASSUME NEW p, ValuesClosed(p), NEW v \in DOMAIN p.values, NEW through \in {Variables, Chain}
  PROVE  Behind(p, v, through) \in Seq(DOMAIN p.values)
<1> DEFINE w == p.values[v]
<1>1. CASE w.kind \in through \cap {"convert", "load"}
  <2>1. Behind(p, v, through) = <<w.x>>
    BY <1>1 DEF Behind
  <2>2. w.x \in DOMAIN p.values
    BY <1>1 DEF ValuesClosed
  <2> QED
    BY <2>1, <2>2, ShortSeqs
<1>2. CASE w.kind \in through \cap {"alloc"}
  <2>1. Behind(p, v, through) = w.stores
    BY <1>2 DEF Behind
  <2>2. w.stores \in Seq(DOMAIN p.values)
    BY <1>2 DEF ValuesClosed
  <2> QED
    BY <2>1, <2>2
<1>3. CASE w.kind \notin through \cap {"convert", "load", "alloc"}
  <2>1. Behind(p, v, through) = <<>>
    BY <1>3 DEF Behind
  <2> QED
    BY <2>1, ShortSeqs
<1> QED
  BY <1>1, <1>2, <1>3

LEMMA ElementsOfSeq ==
  ASSUME NEW S, NEW s \in Seq(S)
  PROVE  /\ Elements(s) \subseteq S
         /\ \A n \in 1..Len(s) : s[n] \in Elements(s)
         /\ s # <<>> => Head(s) \in Elements(s) /\ Elements(Tail(s)) \subseteq Elements(s) /\ Tail(s) \in Seq(S)
                        /\ Elements(s) \subseteq {Head(s)} \cup Elements(Tail(s))
<1>1. DOMAIN s = 1..Len(s) /\ \A n \in 1..Len(s) : s[n] \in S
  OBVIOUS
<1>2. Elements(s) \subseteq S /\ \A n \in 1..Len(s) : s[n] \in Elements(s)
  BY <1>1 DEF Elements
<1>3. ASSUME s # <<>>
      PROVE  Head(s) \in Elements(s) /\ Elements(Tail(s)) \subseteq Elements(s) /\ Tail(s) \in Seq(S)
                        /\ Elements(s) \subseteq {Head(s)} \cup Elements(Tail(s))
  <2>1. Len(s) \in Nat /\ Len(s) # 0
    BY <1>3
  <2>2. Head(s) = s[1] /\ 1 \in 1..Len(s)
    BY <1>3, <2>1
  <2>3. Tail(s) \in Seq(S) /\ Len(Tail(s)) = Len(s) - 1
    BY <1>3
  <2>4. \A k \in 1..Len(s) - 1 : Tail(s)[k] = s[k + 1]
    BY <1>3
  <2>5. DOMAIN Tail(s) = 1..Len(s) - 1
    BY <2>3
  <2>6. Elements(Tail(s)) \subseteq Elements(s)
    BY <1>1, <2>1, <2>4, <2>5 DEF Elements
  <2>7. ASSUME NEW k \in 1..Len(s), k # 1
        PROVE  s[k] \in Elements(Tail(s))
    <3>1. k - 1 \in 1..Len(s) - 1 /\ (k - 1) + 1 = k
      BY <2>1, <2>7
    <3>2. Tail(s)[k - 1] = s[k]
      BY <2>4, <3>1
    <3> QED
      BY <2>5, <3>1, <3>2 DEF Elements
  <2> QED
    BY <1>1, <2>2, <2>3, <2>6, <2>7 DEF Elements
<1> QED
  BY <1>2, <1>3

LEMMA ElementsOfConcat ==
  ASSUME NEW S, NEW s \in Seq(S), NEW t \in Seq(S)
  PROVE  s \o t \in Seq(S) /\ Elements(s \o t) = Elements(s) \cup Elements(t)
<1>1. s \o t \in Seq(S) /\ Len(s \o t) = Len(s) + Len(t) /\ Len(s) \in Nat /\ Len(t) \in Nat
  OBVIOUS
<1>2. /\ \A k \in 1..Len(s) : (s \o t)[k] = s[k]
      /\ \A k \in 1..Len(t) : (s \o t)[Len(s) + k] = t[k]
  OBVIOUS
<1>3. DOMAIN s = 1..Len(s) /\ DOMAIN t = 1..Len(t) /\ DOMAIN (s \o t) = 1..Len(s) + Len(t)
  BY <1>1
<1>4. ASSUME NEW k \in 1..Len(s) + Len(t)
      PROVE  (s \o t)[k] \in Elements(s) \cup Elements(t)
  <2>1. CASE k \in 1..Len(s)
    BY <1>2, <1>3, <2>1 DEF Elements
  <2>2. CASE k \notin 1..Len(s)
    <3>1. k - Len(s) \in 1..Len(t) /\ Len(s) + (k - Len(s)) = k
      BY <1>1, <2>2
    <3> QED
      BY <1>2, <1>3, <3>1 DEF Elements
  <2> QED
    BY <2>1, <2>2
<1>5. \A k \in 1..Len(s) : s[k] \in Elements(s \o t)
  <2> SUFFICES ASSUME NEW k \in 1..Len(s)
               PROVE  s[k] \in Elements(s \o t)
    OBVIOUS
  <2>1. k \in 1..Len(s) + Len(t)
    BY <1>1
  <2> QED
    BY <1>2, <1>3, <2>1 DEF Elements
<1>6. \A k \in 1..Len(t) : t[k] \in Elements(s \o t)
  <2> SUFFICES ASSUME NEW k \in 1..Len(t)
               PROVE  t[k] \in Elements(s \o t)
    OBVIOUS
  <2>1. Len(s) + k \in 1..Len(s) + Len(t)
    BY <1>1
  <2> QED
    BY <1>2, <1>3, <2>1 DEF Elements
<1> QED
  BY <1>1, <1>3, <1>4, <1>5, <1>6 DEF Elements

LEMMA UnseenLeft ==
  ASSUME NEW S, NEW todo \in Seq(S), NEW seen
  PROVE  LET left == Unseen(todo, seen)
         IN  /\ left \in Seq(S)
             /\ Elements(left) \subseteq Elements(todo)
             /\ Elements(todo) \subseteq seen \cup Elements(left)
             /\ left # <<>> => Head(left) \notin seen
<1> DEFINE left == {k \in DOMAIN todo : todo[k] \notin seen}
<1>1. DOMAIN todo = 1..Len(todo) /\ Len(todo) \in Nat
  OBVIOUS
<1>2. CASE left = {}
  <2>1. Unseen(todo, seen) = <<>>
    BY <1>2 DEF Unseen
  <2>2. Elements(todo) \subseteq seen
    BY <1>2 DEF Elements
  <2>3. Elements(<<>>) = {}
    BY DEF Elements
  <2> QED
    BY <2>1, <2>2, <2>3
<1>3. CASE left # {}
  <2> DEFINE m == Min(left)
             rest == SubSeq(todo, m, Len(todo))
  <2>1. Unseen(todo, seen) = rest
    BY <1>3 DEF Unseen
  <2>2. m \in left /\ \A k \in left : m <= k
    <3>1. \E x \in left : \A k \in left : x <= k
      <4>1. left \in SUBSET Nat
        BY <1>1
      <4> HIDE DEF left
      <4> QED
        BY <1>3, <4>1, LeastElement
    <3> QED
      BY <3>1 DEF Min
  <2>3. m \in 1..Len(todo) /\ todo[m] \notin seen
    BY <1>1, <2>2
  <2>4. \A k \in 1..Len(todo) : k < m => todo[k] \in seen
    <3> SUFFICES ASSUME NEW k \in 1..Len(todo), k < m, todo[k] \notin seen
                 PROVE  FALSE
      OBVIOUS
    <3>1. k \in left
      BY <1>1
    <3>2. m <= k
      BY <2>2, <3>1
    <3> QED
      BY <2>3, <3>2
  <2> HIDE DEF m, left
  <2>5. rest \in Seq(S) /\ Len(rest) = Len(todo) - m + 1
    BY <1>1, <2>3
  <2>6. \A k \in 1..(Len(todo) - m + 1) : rest[k] = todo[m + k - 1]
    BY <1>1, <2>3
  <2>7. DOMAIN rest = 1..(Len(todo) - m + 1)
    BY <2>5
  <2> HIDE DEF rest
  <2>8. Elements(rest) \subseteq Elements(todo)
    <3> SUFFICES ASSUME NEW k \in 1..(Len(todo) - m + 1)
                 PROVE  rest[k] \in Elements(todo)
      BY <2>7 DEF Elements
    <3>1. m + k - 1 \in 1..Len(todo)
      BY <1>1, <2>3
    <3> QED
      BY <1>1, <2>6, <3>1 DEF Elements
  <2>9. Elements(todo) \subseteq seen \cup Elements(rest)
    <3> SUFFICES ASSUME NEW k \in 1..Len(todo), todo[k] \notin seen
                 PROVE  todo[k] \in Elements(rest)
      BY <1>1 DEF Elements
    <3>1. ~(k < m)
      BY <2>4
    <3>2. k - m + 1 \in 1..(Len(todo) - m + 1) /\ m + (k - m + 1) - 1 = k
      BY <1>1, <2>3, <3>1
    <3>3. rest[k - m + 1] = todo[k]
      BY <2>6, <3>2
    <3> QED
      BY <2>7, <3>2, <3>3 DEF Elements
  <2>10. rest # <<>> => Head(rest) \notin seen
    <3>1. 1 \in 1..(Len(todo) - m + 1) /\ m + 1 - 1 = m
      BY <1>1, <2>3
    <3>2. rest[1] = todo[m]
      BY <2>6, <3>1
    <3> QED
      BY <2>3, <2>5, <3>2
  <2> QED
    BY <2>1, <2>5, <2>8, <2>9, <2>10
<1> QED
  BY <1>2, <1>3

LEMMA ThroughLeast ==
  ASSUME NEW p, ValuesClosed(p), NEW v \in DOMAIN p.values, NEW through \in {Variables, Chain}
  PROVE  LET V == DOMAIN p.values
             R == Through(p, v, through)
         IN  /\ R \subseteq V /\ v \in R
             /\ \A w \in R : Elements(Behind(p, w, through)) \subseteq R
             /\ \A T : v \in T /\ (\A w \in T \cap V : Elements(Behind(p, w, through)) \subseteq T) => R \subseteq T
<1> DEFINE V == DOMAIN p.values
           next == [w \in V |-> Elements(Behind(p, w, through))]
           R == ReachedFrom(p, v, next)
<1>1. \A w \in V : next[w] = Elements(Behind(p, w, through))
  OBVIOUS
<1>2. \A w \in V : Elements(Behind(p, w, through)) \subseteq V
  BY BehindType, ElementsOfSeq
<1>3. Through(p, v, through) = R
  BY DEF Through
<1> HIDE DEF next
<1>4. /\ R \subseteq V /\ v \in R
      /\ \A w \in R : next[w] \cap V \subseteq R
      /\ \A T : v \in T /\ (\A w \in T \cap V : next[w] \cap V \subseteq T) => R \subseteq T
  BY ReachedLeast DEF ValuesClosed
<1> HIDE DEF R
<1>5. \A w \in R : Elements(Behind(p, w, through)) \subseteq R
  BY <1>1, <1>2, <1>4
<1>6. ASSUME NEW T, v \in T, \A w \in T \cap V : Elements(Behind(p, w, through)) \subseteq T
      PROVE  R \subseteq T
  BY <1>1, <1>4, <1>6
<1> QED
  BY <1>3, <1>4, <1>5, <1>6

(***************************************************************************)
(* The search finds a leaf of the wanted kinds if there is one.  Until it  *)
(* stops it looks at one more value per round; it has looked at no value   *)
(* of the wanted kinds, and what is behind the others is seen or still to  *)
(* be looked at.                                                           *)
(***************************************************************************)
Stopped(p, goals, w) == w.todo = <<>> \/ p.values[Head(w.todo)].kind \in goals

Further(p, goals, through, w) ==
  LET seen == w.seen \cup {Head(w.todo)}
  IN  IF Stopped(p, goals, w)
      THEN w
      ELSE [todo |-> Unseen(Behind(p, Head(w.todo), through) \o Tail(w.todo), seen), seen |-> seen]

States(p) == [todo : Seq(DOMAIN p.values), seen : SUBSET DOMAIN p.values]

WalkInv(p, v, goals, through, w) ==
  /\ w.todo # <<>> => Head(w.todo) \notin w.seen
  /\ w.seen \cup Elements(w.todo) \subseteq Through(p, v, through)
  /\ v \in w.seen \cup Elements(w.todo)
  /\ \A x \in w.seen : /\ p.values[x].kind \notin goals
                       /\ Elements(Behind(p, x, through)) \subseteq w.seen \cup Elements(w.todo)

LEMMA FurtherStep ==
  ASSUME NEW p, ValuesClosed(p), NEW v \in DOMAIN p.values, NEW through \in {Variables, Chain},
         NEW goals, NEW w \in States(p), ~Stopped(p, goals, w)
  PROVE  LET u == Further(p, goals, through, w)
         IN  /\ u \in States(p)
             /\ WalkInv(p, v, goals, through, w) =>
                  WalkInv(p, v, goals, through, u) /\ u.seen = w.seen \cup {Head(w.todo)}
<1> DEFINE V == DOMAIN p.values
           h == Head(w.todo)
           seen == w.seen \cup {h}
           more == Behind(p, h, through) \o Tail(w.todo)
           left == Unseen(more, seen)
           u == [todo |-> left, seen |-> seen]
<1>1. w.todo \in Seq(V) /\ w.seen \in SUBSET V /\ w.todo # <<>> /\ p.values[h].kind \notin goals
  BY DEF States, Stopped
<1>2. Further(p, goals, through, w) = u
  BY DEF Further
<1>3. /\ h \in Elements(w.todo) /\ Elements(Tail(w.todo)) \subseteq Elements(w.todo)
      /\ Elements(w.todo) \subseteq V /\ Tail(w.todo) \in Seq(V)
      /\ Elements(w.todo) \subseteq {h} \cup Elements(Tail(w.todo))
  BY <1>1, ElementsOfSeq
<1>4. Behind(p, h, through) \in Seq(V)
  BY <1>3, BehindType
<1>5. more \in Seq(V) /\ Elements(more) = Elements(Behind(p, h, through)) \cup Elements(Tail(w.todo))
  <2> DEFINE s == Behind(p, h, through)
             t == Tail(w.todo)
  <2>1. s \in Seq(V) /\ t \in Seq(V)
    BY <1>3, <1>4
  <2> HIDE DEF s, t, V
  <2>2. s \o t \in Seq(V) /\ Elements(s \o t) = Elements(s) \cup Elements(t)
    BY <2>1, ElementsOfConcat
  <2> QED
    BY <2>2 DEF s, t
<1> HIDE DEF V
<1> HIDE DEF more
<1>6. /\ left \in Seq(V)
      /\ Elements(left) \subseteq Elements(more)
      /\ Elements(more) \subseteq seen \cup Elements(left)
      /\ left # <<>> => Head(left) \notin seen
  BY <1>5, UnseenLeft
<1> HIDE DEF left
<1>7. u \in States(p)
  BY <1>1, <1>3, <1>6 DEF States, V
<1>8. ASSUME WalkInv(p, v, goals, through, w)
      PROVE  WalkInv(p, v, goals, through, u)
  <2>1. h \in Through(p, v, through)
    BY <1>3, <1>8 DEF WalkInv
  <2>2. Elements(Behind(p, h, through)) \subseteq Through(p, v, through)
    BY <2>1, ThroughLeast
  <2>3. u.seen \cup Elements(u.todo) \subseteq Through(p, v, through)
    BY <1>3, <1>5, <1>6, <1>8, <2>1, <2>2 DEF WalkInv
  <2>4. w.seen \cup Elements(w.todo) \subseteq u.seen \cup Elements(u.todo)
    BY <1>3, <1>5, <1>6
  <2>5. Elements(Behind(p, h, through)) \subseteq u.seen \cup Elements(u.todo)
    BY <1>5, <1>6
  <2>6. \A x \in w.seen : Elements(Behind(p, x, through)) \subseteq u.seen \cup Elements(u.todo)
    BY <1>8, <2>4 DEF WalkInv
  <2>7. u.todo # <<>> => Head(u.todo) \notin u.seen
    BY <1>6
  <2>8. v \in u.seen \cup Elements(u.todo)
    BY <1>8, <2>4 DEF WalkInv
  <2>9. \A x \in u.seen : p.values[x].kind \notin goals
    BY <1>1, <1>8 DEF WalkInv
  <2> HIDE DEF u
  <2>10. \A x \in u.seen : x \in w.seen \/ x = h
    BY DEF u
  <2>11. \A x \in u.seen : Elements(Behind(p, x, through)) \subseteq u.seen \cup Elements(u.todo)
    BY <2>5, <2>6, <2>10
  <2> QED
    BY <2>3, <2>7, <2>8, <2>9, <2>11 DEF WalkInv
<1>9. u.seen = w.seen \cup {h}
  OBVIOUS
<1> QED
  BY <1>2, <1>7, <1>8, <1>9

Walk(p, v, goals, through, walk) ==
  /\ walk \in [0..Cardinality(DOMAIN p.values) -> States(p)]
  /\ walk[0] = [todo |-> <<v>>, seen |-> {}]
  /\ \A n \in 1..Cardinality(DOMAIN p.values) : walk[n] = Further(p, goals, through, walk[n - 1])

LEMMA FurtherType ==
  ASSUME NEW p, ValuesClosed(p), NEW v \in DOMAIN p.values, NEW through \in {Variables, Chain},
         NEW goals, NEW w \in States(p)
  PROVE  Further(p, goals, through, w) \in States(p)
<1>1. CASE Stopped(p, goals, w)
  BY <1>1 DEF Further
<1>2. CASE ~Stopped(p, goals, w)
  BY <1>2, FurtherStep
<1> QED
  BY <1>1, <1>2

LEMMA FirstOfKindWalk ==
  ASSUME NEW p, ValuesClosed(p), NEW v \in DOMAIN p.values, NEW through \in {Variables, Chain},
         NEW goals
  PROVE  \E walk : /\ Walk(p, v, goals, through, walk)
                   /\ LET end == walk[Cardinality(DOMAIN p.values)]
                      IN  FirstOfKind(p, v, goals, through)
                            = IF end.todo = <<>> THEN None ELSE Head(end.todo)
<1> DEFINE N == Cardinality(DOMAIN p.values)
           start == [todo |-> <<v>>, seen |-> {}]
           P(g) == g = [n \in 0..N |-> IF n = 0 THEN start ELSE Further(p, goals, through, g[n - 1])]
           walk == CHOOSE g : P(g)
<1>1. N \in Nat
  BY FS_CardinalityType DEF ValuesClosed
<1>2. start \in States(p)
  BY ShortSeqs DEF States
<1> HIDE DEF start
<1>3. \E g : Iterates(g, N, States(p), start, [n \in 1..N |-> [w \in States(p) |-> Further(p, goals, through, w)]])
  <2> DEFINE further == [w \in States(p) |-> Further(p, goals, through, w)]
             step == [n \in 1..N |-> further]
  <2>1. further \in [States(p) -> States(p)]
    BY FurtherType
  <2> HIDE DEF further
  <2>2. step \in [1..N -> [States(p) -> States(p)]]
    BY <2>1
  <2> HIDE DEF step, N
  <2>3. \E g : Iterates(g, N, States(p), start, step)
    BY <1>1, <1>2, <2>2, IterationExists
  <2> QED
    BY <2>3 DEF step, further
<1>4. PICK g : Iterates(g, N, States(p), start, [n \in 1..N |-> [w \in States(p) |-> Further(p, goals, through, w)]])
  BY <1>3
<1>5. /\ g \in [0..N -> States(p)] /\ g[0] = start
      /\ \A n \in 1..N : g[n] = Further(p, goals, through, g[n - 1])
  <2>1. g \in [0..N -> States(p)] /\ g[0] = start
    BY <1>4 DEF Iterates
  <2>2. ASSUME NEW n \in 1..N
        PROVE  g[n] = Further(p, goals, through, g[n - 1])
    <3>1. n - 1 \in 0..N
      BY <1>1
    <3>2. g[n - 1] \in States(p)
      BY <2>1, <3>1
    <3> QED
      BY <1>4, <3>2 DEF Iterates
  <2> QED
    BY <2>1, <2>2
<1> HIDE DEF N
<1>6. P(g)
  BY <1>1, <1>5
<1>7. P(walk)
  <2> HIDE DEF P
  <2> QED
    BY <1>6
<1>8. FirstOfKind(p, v, goals, through)
        = IF walk[N].todo = <<>> THEN None ELSE Head(walk[N].todo)
  BY DEF FirstOfKind, Further, Stopped, start, N
<1> HIDE DEF walk
<1>9. walk[0] = start /\ \A n \in 1..N : walk[n] = Further(p, goals, through, walk[n - 1])
  BY <1>1, <1>7
<1>10. walk \in [0..N -> States(p)]
  <2> DEFINE T == {n \in 0..N : walk[n] \in States(p)}
  <2>1. 0 \in T
    BY <1>1, <1>2, <1>9
  <2>2. \A n \in 1..N : n - 1 \in T => n \in T
    BY <1>1, <1>9, FurtherType
  <2>3. 0..N \subseteq T
    <3> HIDE DEF T
    <3> QED
      BY <1>1, <2>1, <2>2, IntervalInduction
  <2>4. walk = [n \in 0..N |-> walk[n]]
    BY <1>7
  <2> QED
    BY <2>3, <2>4
<1>11. Walk(p, v, goals, through, walk)
  BY <1>9, <1>10 DEF Walk, start, N
<1> QED
  BY <1>8, <1>11 DEF N

LEMMA FirstOfKindFinds ==
  ASSUME NEW p, ValuesClosed(p), NEW v \in DOMAIN p.values, NEW through \in {Variables, Chain},
         NEW goals, goals \cap through = {}
  PROVE  LET found == FirstOfKind(p, v, goals, through)
         IN  \/ /\ found = None
                /\ \A x \in Leaves(p, v, through) : p.values[x].kind \notin goals
             \/ found \in Leaves(p, v, through) /\ p.values[found].kind \in goals
<1> DEFINE V == DOMAIN p.values
           N == Cardinality(V)
<1>1. PICK walk : /\ Walk(p, v, goals, through, walk)
                  /\ FirstOfKind(p, v, goals, through)
                       = IF walk[N].todo = <<>> THEN None ELSE Head(walk[N].todo)
  BY FirstOfKindWalk
<1>2. IsFiniteSet(V) /\ N \in Nat
  BY FS_CardinalityType DEF ValuesClosed
<1> HIDE DEF N
<1> DEFINE Inv(n) == /\ WalkInv(p, v, goals, through, walk[n])
                     /\ Stopped(p, goals, walk[n]) \/ Cardinality(walk[n].seen) = n
           T == {n \in 0..N : Inv(n)}
<1>3. 0 \in T
  <2>1. walk[0] = [todo |-> <<v>>, seen |-> {}]
    BY <1>1 DEF Walk
  <2>2. Elements(<<v>>) = {v}
    BY DEF Elements
  <2>3. WalkInv(p, v, goals, through, walk[0])
    BY <2>1, <2>2, ThroughLeast DEF WalkInv
  <2>4. Cardinality(walk[0].seen) = 0
    BY <2>1, FS_EmptySet
  <2> QED
    BY <1>2, <2>3, <2>4
<1>4. ASSUME NEW n \in 1..N, n - 1 \in T
      PROVE  n \in T
  <2> DEFINE w == walk[n - 1]
  <2>1. n - 1 \in 0..N /\ n \in 0..N
    BY <1>2
  <2>2. w \in States(p) /\ walk[n] = Further(p, goals, through, w)
    BY <1>1, <2>1 DEF Walk, N
  <2>3. WalkInv(p, v, goals, through, w) /\ (Stopped(p, goals, w) \/ Cardinality(w.seen) = n - 1)
    BY <1>4
  <2> HIDE DEF w
  <2>4. CASE Stopped(p, goals, w)
    <3>1. walk[n] = w
      BY <2>2, <2>4 DEF Further
    <3> QED
      BY <2>1, <2>3, <2>4, <3>1
  <2>5. CASE ~Stopped(p, goals, w)
    <3>1. WalkInv(p, v, goals, through, walk[n]) /\ walk[n].seen = w.seen \cup {Head(w.todo)}
      BY <2>2, <2>3, <2>5, FurtherStep
    <3>2. Head(w.todo) \notin w.seen
      BY <2>3, <2>5 DEF WalkInv, Stopped
    <3>3. IsFiniteSet(w.seen)
      BY <1>2, <2>2, FS_Subset DEF States
    <3>4. Cardinality(w.seen \cup {Head(w.todo)}) = Cardinality(w.seen) + 1
      BY <3>2, <3>3, FS_AddElement
    <3>5. Cardinality(walk[n].seen) = n
      BY <1>2, <2>3, <2>5, <3>1, <3>4
    <3> QED
      BY <2>1, <3>1, <3>5
  <2> QED
    BY <2>4, <2>5
<1>5. 0..N \subseteq T
  <2> HIDE DEF T
  <2> QED
    BY <1>2, <1>3, <1>4, IntervalInduction
<1> DEFINE end == walk[N]
<1>6. N \in 0..N /\ Inv(N)
  BY <1>2, <1>5
<1>7. end \in States(p)
  BY <1>1, <1>6 DEF Walk, N
<1>8. WalkInv(p, v, goals, through, end) /\ (Stopped(p, goals, end) \/ Cardinality(end.seen) = N)
  BY <1>6
<1> HIDE DEF end
<1>9. Stopped(p, goals, end)
  <2> SUFFICES ASSUME ~Stopped(p, goals, end)
               PROVE  FALSE
    OBVIOUS
  <2>1. end.seen = V
    BY <1>2, <1>7, <1>8, FS_Subset DEF States, N
  <2>2. end.todo \in Seq(V) /\ end.todo # <<>>
    BY <1>7 DEF States, Stopped
  <2>3. Head(end.todo) \in V
    BY <2>2, ElementsOfSeq
  <2> QED
    BY <1>8, <2>1, <2>2, <2>3 DEF WalkInv
<1>10. CASE end.todo = <<>>
  <2>1. Elements(end.todo) = {}
    BY <1>10 DEF Elements
  <2>2. v \in end.seen /\ \A x \in end.seen : Elements(Behind(p, x, through)) \subseteq end.seen
    BY <1>8, <2>1 DEF WalkInv
  <2>3. Through(p, v, through) \subseteq end.seen
    BY <2>2, ThroughLeast
  <2>4. \A x \in Leaves(p, v, through) : p.values[x].kind \notin goals
    BY <1>8, <2>3 DEF WalkInv, Leaves
  <2>5. FirstOfKind(p, v, goals, through) = None
    BY <1>1, <1>10 DEF end
  <2> QED
    BY <2>4, <2>5
<1>11. CASE end.todo # <<>>
  <2> DEFINE h == Head(end.todo)
  <2>1. p.values[h].kind \in goals
    BY <1>9, <1>11 DEF Stopped
  <2>2. h \in Elements(end.todo)
    BY <1>7, <1>11, ElementsOfSeq DEF States
  <2>3. h \in Leaves(p, v, through)
    BY <1>8, <2>1, <2>2 DEF WalkInv, Leaves
  <2>4. FirstOfKind(p, v, goals, through) = h
    BY <1>1, <1>11 DEF end
  <2> QED
    BY <2>1, <2>3, <2>4
<1> QED
  BY <1>10, <1>11

(***************************************************************************)
(* What a value denotes is what its leaves denote.                         *)
(***************************************************************************)
LEMMA DenotesOrigin ==
  ASSUME NEW p, IsFiniteSet(DOMAIN p.values), NEW v, NEW o \in Of(Denotes(p), v)
  PROVE  \/ o \in Literal(p, v)
         \/ \E w \in Sources(p, Denotes(p), v) : o \in Of(Denotes(p), w)
<1> DEFINE D == Denotes(p)
           Flowed == {d \in D : \E w \in Sources(p, D, d[1]) : d[2] \in Of(D, w)}
           U == Literals(p) \cup Flowed
<1>1. Solution(p, D)
  BY DenotesLeast
<1> HIDE DEF D
<1>2. U \subseteq D
  BY <1>1 DEF Solution
<1>3. ASSUME NEW d \in Flow(p, U), d \notin U
      PROVE  FALSE
  <2>1. d \in D
    <3> HIDE DEF U
    <3> QED
      BY <1>1, <1>2, FlowGrows DEF Solution
  <2>2. PICK w \in Sources(p, U, d[1]) : d[2] \in Of(U, w)
    <3> HIDE DEF U
    <3> QED
      BY <1>3, FlowOrigin
  <2>3. w \in Sources(p, D, d[1]) /\ d[2] \in Of(D, w)
    <3> HIDE DEF U
    <3> QED
      BY <1>2, <2>2, SourcesGrow DEF Of
  <2> QED
    BY <1>3, <2>1, <2>3
<1>4. D \subseteq U
  <2>1. Solution(p, U)
    <3>1. Literals(p) \subseteq U
      OBVIOUS
    <3> HIDE DEF U
    <3> QED
      BY <1>3, <3>1 DEF Solution
  <2> HIDE DEF U
  <2> QED
    BY <2>1, DenotesLeast DEF D
<1>5. PICK d \in D : d[1] = v /\ d[2] = o
  BY DEF Of, D
<1>6. CASE d \in Literals(p)
  BY <1>5, <1>6 DEF Literals
<1>7. CASE d \in Flowed
  BY <1>5, <1>7 DEF D
<1> QED
  BY <1>4, <1>6, <1>7

LEMMA BehindIsSources ==
  ASSUME NEW p, NEW den, NEW v, NEW through \in {Variables, Chain}
  PROVE  /\ p.values[v].kind \in through =>
              Literal(p, v) = {} /\ Sources(p, den, v) = Elements(Behind(p, v, through))
         /\ p.values[v].kind \notin through => Elements(Behind(p, v, through)) = {}
<1> DEFINE w == p.values[v]
<1>1. CASE w.kind \in through \cap {"convert", "load"}
  <2>1. Behind(p, v, through) = <<w.x>>
    BY <1>1 DEF Behind
  <2>2. Elements(<<w.x>>) = {w.x}
    BY DEF Elements
  <2>3. Sources(p, den, v) = {w.x}
    BY <1>1 DEF Sources
  <2>4. Literal(p, v) = {}
    BY <1>1 DEF Literal
  <2> QED
    BY <1>1, <2>1, <2>2, <2>3, <2>4
<1>2. CASE w.kind \in through \cap {"alloc"}
  <2>1. Behind(p, v, through) = w.stores
    BY <1>2 DEF Behind
  <2>2. Sources(p, den, v) = Elements(w.stores)
    BY <1>2 DEF Sources
  <2>3. Literal(p, v) = {}
    BY <1>2 DEF Literal
  <2> QED
    BY <1>2, <2>1, <2>2, <2>3
<1>3. CASE w.kind \notin through
  <2>1. Behind(p, v, through) = <<>>
    BY <1>3 DEF Behind
  <2>2. Elements(<<>>) = {}
    BY DEF Elements
  <2> QED
    BY <1>3, <2>1, <2>2
<1> QED
  BY <1>1, <1>2, <1>3 DEF Variables, Chain

LEMMA DenotesLeaves ==
  ASSUME NEW p, ValuesClosed(p), NEW v \in DOMAIN p.values, NEW through \in {Variables, Chain}
  PROVE  Of(Denotes(p), v) = UNION {Of(Denotes(p), x) : x \in Leaves(p, v, through)}
<1> DEFINE D == Denotes(p)
           V == DOMAIN p.values
           R == Through(p, v, through)
<1>1. /\ R \subseteq V /\ v \in R
      /\ \A w \in R : Elements(Behind(p, w, through)) \subseteq R
      /\ \A T : v \in T /\ (\A w \in T \cap V : Elements(Behind(p, w, through)) \subseteq T) => R \subseteq T
  BY ThroughLeast
<1>2. IsFiniteSet(V)
  BY DEF ValuesClosed
<1> HIDE DEF R, D
<1>3. ASSUME NEW x \in R
      PROVE  Of(D, x) \subseteq Of(D, v)
  <2> DEFINE T == {y \in V : Of(D, y) \subseteq Of(D, v)}
  <2>1. v \in T
    OBVIOUS
  <2>2. ASSUME NEW w \in T, NEW z \in Elements(Behind(p, w, through))
        PROVE  z \in T
    <3>1. p.values[w].kind \in through
      BY BehindIsSources
    <3>2. z \in Sources(p, D, w)
      BY <3>1, BehindIsSources
    <3>3. Of(D, z) \subseteq Of(D, w)
      BY <1>2, <3>2, DenotesClosed DEF D
    <3>4. z \in V
      BY BehindType, ElementsOfSeq
    <3> QED
      BY <3>3, <3>4
  <2>3. R \subseteq T
    <3> HIDE DEF T
    <3> QED
      BY <1>1, <2>1, <2>2
  <2> QED
    BY <2>3
<1>4. Of(D, v) \subseteq UNION {Of(D, x) : x \in Leaves(p, v, through)}
  <2> DEFINE L == Leaves(p, v, through)
  <2>1. \A x \in R \ L : Literal(p, x) = {} /\ Sources(p, D, x) \subseteq R
    <3> SUFFICES ASSUME NEW x \in R \ L
                 PROVE  Literal(p, x) = {} /\ Sources(p, D, x) \subseteq R
      OBVIOUS
    <3>1. p.values[x].kind \in through
      BY DEF Leaves, R
    <3> QED
      BY <1>1, <3>1, BehindIsSources
  <2> HIDE DEF L
  <2>2. \A x \in R : Of(D, x) \subseteq UNION {Of(D, y) : y \in L}
    BY <1>2, <2>1, DenotesFrom DEF D
  <2> QED
    BY <1>1, <2>2 DEF L
<1>5. \A x \in Leaves(p, v, through) : Of(D, x) \subseteq Of(D, v)
  BY <1>3 DEF Leaves, R
<1> QED
  BY <1>4, <1>5 DEF D

(***************************************************************************)
(* The functions a value denotes.                                          *)
(***************************************************************************)
FunctionKinds == {"function", "closure"}

FunctionsOf(p, v) == {o[2] : o \in {x \in Of(Denotes(p), v) : x[1] = "fn"}}

LEMMA FunctionsOfLiteral ==
  ASSUME NEW p, ValuesClosed(p), NEW v \in DOMAIN p.values, p.values[v].kind \in FunctionKinds
  PROVE  Of(Denotes(p), v) = {<<"fn", p.values[v].fn>>} /\ FunctionsOf(p, v) = {p.values[v].fn}
<1>1. IsFiniteSet(DOMAIN p.values)
  BY DEF ValuesClosed
<1>2. Literal(p, v) = {<<"fn", p.values[v].fn>>}
  BY DEF Literal, FunctionKinds
<1>3. Sources(p, Denotes(p), v) = {}
  BY DEF Sources, FunctionKinds
<1>4. Of(Denotes(p), v) \subseteq {<<"fn", p.values[v].fn>>}
  BY <1>1, <1>2, <1>3, DenotesOrigin
<1>5. Of(Denotes(p), v) = {<<"fn", p.values[v].fn>>}
  BY <1>1, <1>2, <1>4, DenotesClosed
<1>6. FunctionsOf(p, v) = {p.values[v].fn}
  <2> DEFINE f == p.values[v].fn
             o == <<"fn", f>>
             S == Of(Denotes(p), v)
  <2>1. o[1] = "fn" /\ o[2] = f
    OBVIOUS
  <2>2. S = {o}
    BY <1>5
  <2> HIDE DEF o, S, f
  <2>3. {x \in S : x[1] = "fn"} = {o}
    BY <2>1, <2>2
  <2>4. {e[2] : e \in {x \in S : x[1] = "fn"}} = {o[2]}
    BY <2>3
  <2> QED
    BY <2>1, <2>4 DEF FunctionsOf, S, f
<1> QED
  BY <1>5, <1>6

LEMMA CalleesOfStatic ==
  ASSUME NEW p, ValuesClosed(p), NEW c, c.value \in DOMAIN p.values, StaticCallee(p, c) # None
  PROVE  CalleesGiven(p, Denotes(p), c) = {StaticCallee(p, c)}
<1>1. c.method = None /\ p.values[c.value].kind \in FunctionKinds /\ StaticCallee(p, c) = p.values[c.value].fn
  BY DEF StaticCallee, FunctionKinds
<1>2. CalleesGiven(p, Denotes(p), c) = FunctionsOf(p, c.value)
  BY <1>1 DEF CalleesGiven, FunctionsOf
<1> QED
  BY <1>1, <1>2, FunctionsOfLiteral

LEMMA FunctionsOfLeaves ==
  ASSUME NEW p, ValuesClosed(p), NEW v \in DOMAIN p.values
  PROVE  FunctionsOf(p, v) = UNION {FunctionsOf(p, x) : x \in Leaves(p, v, Variables)}
<1>1. Of(Denotes(p), v) = UNION {Of(Denotes(p), x) : x \in Leaves(p, v, Variables)}
  BY DenotesLeaves
<1> QED
  BY <1>1 DEF FunctionsOf

(***************************************************************************)
(* What the three searches along variables return.                         *)
(***************************************************************************)
LEMMA LeavesAreValues ==
  ASSUME NEW p, ValuesClosed(p), NEW v \in DOMAIN p.values, NEW through \in {Variables, Chain}
  PROVE  /\ Leaves(p, v, through) \subseteq DOMAIN p.values
         /\ None \notin Leaves(p, v, through)
BY ThroughLeast DEF Leaves, ValuesClosed

LEMMA FunctionFound ==
  ASSUME NEW p, ValuesClosed(p), NEW v \in DOMAIN p.values
  PROVE  LET L == Leaves(p, v, Variables)
             f == resolveFunctionFromValue(p, v)
         IN  \/ f = None /\ \A x \in L : p.values[x].kind \notin FunctionKinds
             \/ f # None /\ \E x \in L : p.values[x].kind \in FunctionKinds /\ f = p.values[x].fn
<1> DEFINE L == Leaves(p, v, Variables)
           found == FirstOfKind(p, v, FunctionKinds, Variables)
<1>1. \/ found = None /\ \A x \in L : p.values[x].kind \notin FunctionKinds
      \/ found \in L /\ p.values[found].kind \in FunctionKinds
  <2>1. FunctionKinds \cap Variables = {}
    BY DEF FunctionKinds, Variables
  <2> QED
    BY <2>1, FirstOfKindFinds
<1>2. resolveFunctionFromValue(p, v) = IF found = None THEN None ELSE p.values[found].fn
  BY DEF resolveFunctionFromValue, FunctionKinds, Variables
<1>3. L \subseteq DOMAIN p.values /\ None \notin L
  BY LeavesAreValues
<1> HIDE DEF L, found
<1>4. CASE found \in L /\ p.values[found].kind \in FunctionKinds
  <2>1. found # None /\ p.values[found].fn # None
    BY <1>3, <1>4 DEF ValuesClosed, FunctionKinds
  <2> QED
    BY <1>2, <1>4, <2>1 DEF L
<1> QED
  BY <1>1, <1>2, <1>4 DEF L

LEMMA ParameterFound ==
  ASSUME NEW p, ValuesClosed(p), NEW v \in DOMAIN p.values
  PROVE  LET L == Leaves(p, v, Variables)
             x == resolveParameterFromValue(p, v)
         IN  \/ x = None /\ \A y \in L : p.values[y].kind # "param"
             \/ x \in L /\ p.values[x].kind = "param"
<1>1. {"param"} \cap Variables = {}
  BY DEF Variables
<1>2. resolveParameterFromValue(p, v) = FirstOfKind(p, v, {"param"}, Variables)
  BY DEF resolveParameterFromValue, Variables
<1> QED
  BY <1>1, <1>2, FirstOfKindFinds

LEMMA FreeVarFound ==
  ASSUME NEW p, ValuesClosed(p), NEW v \in DOMAIN p.values
  PROVE  LET L == Leaves(p, v, Chain)
             x == resolveFreeVarFromValue(p, v)
         IN  \/ x = None /\ \A y \in L : p.values[y].kind # "freevar"
             \/ x \in L /\ p.values[x].kind = "freevar"
<1>1. {"freevar"} \cap Chain = {}
  BY DEF Chain
<1>2. resolveFreeVarFromValue(p, v) = FirstOfKind(p, v, {"freevar"}, Chain)
  BY DEF resolveFreeVarFromValue, Chain
<1> QED
  BY <1>1, <1>2, FirstOfKindFinds

(***************************************************************************)
(* What is reached along conversions and loads alone is reached.           *)
(***************************************************************************)
LEMMA ChainWithin ==
  ASSUME NEW p, ValuesClosed(p), NEW v \in DOMAIN p.values
  PROVE  Through(p, v, Chain) \subseteq Through(p, v, Variables)
<1> DEFINE T == Through(p, v, Variables)
<1>1. v \in T /\ \A w \in T : Elements(Behind(p, w, Variables)) \subseteq T
  BY ThroughLeast
<1>2. \A w : Elements(Behind(p, w, Chain)) \subseteq Elements(Behind(p, w, Variables))
  <2> SUFFICES ASSUME NEW w
               PROVE  Elements(Behind(p, w, Chain)) \subseteq Elements(Behind(p, w, Variables))
    OBVIOUS
  <2>1. CASE p.values[w].kind \in Chain
    <3>1. Behind(p, w, Chain) = Behind(p, w, Variables)
      BY <2>1 DEF Behind, Chain, Variables
    <3> QED
      BY <3>1
  <2>2. CASE p.values[w].kind \notin Chain
    <3>1. Elements(Behind(p, w, Chain)) = {}
      BY <2>2, BehindIsSources
    <3> QED
      BY <3>1
  <2> QED
    BY <2>1, <2>2
<1> HIDE DEF T
<1>3. \A w \in T \cap DOMAIN p.values : Elements(Behind(p, w, Chain)) \subseteq T
  BY <1>1, <1>2
<1> QED
  BY <1>1, <1>3, ThroughLeast DEF T

LEMMA NoFreeVar ==
  ASSUME NEW p, ValuesClosed(p), NEW v \in DOMAIN p.values,
         \A x \in Leaves(p, v, Variables) : p.values[x].kind # "freevar"
  PROVE  resolveFreeVarFromValue(p, v) = None
<1>1. \A x \in Leaves(p, v, Chain) : p.values[x].kind = "freevar" => x \in Leaves(p, v, Variables)
  BY ChainWithin DEF Leaves, Variables
<1> QED
  BY <1>1, FreeVarFound

(***************************************************************************)
(* A variable to which one function is stored denotes that function.       *)
(***************************************************************************)
LEMMA OneFunctionFound ==
  ASSUME NEW p, ValuesClosed(p), NEW v \in DOMAIN p.values, OneFunction(p, v)
  PROVE  /\ FunctionsOf(p, v) = Known({resolveFunctionFromValue(p, v)})
         /\ resolveParameterFromValue(p, v) = None
         /\ resolveFreeVarFromValue(p, v) = None
<1> DEFINE L == Leaves(p, v, Variables)
           f == resolveFunctionFromValue(p, v)
<1>1. \A x, y \in L : p.values[x].kind \in FunctionKinds /\ p.values[x].fn = p.values[y].fn
  BY DEF OneFunction, FunctionKinds
<1>2. L \subseteq DOMAIN p.values
  BY LeavesAreValues
<1>3. FunctionsOf(p, v) = UNION {FunctionsOf(p, x) : x \in L}
  BY FunctionsOfLeaves
<1>4. \/ f = None /\ \A x \in L : p.values[x].kind \notin FunctionKinds
      \/ f # None /\ \E x \in L : p.values[x].kind \in FunctionKinds /\ f = p.values[x].fn
  BY FunctionFound
<1>5. \/ resolveParameterFromValue(p, v) = None
      \/ resolveParameterFromValue(p, v) \in L /\ p.values[resolveParameterFromValue(p, v)].kind = "param"
  BY ParameterFound
<1>6. \A x \in L : p.values[x].kind # "param" /\ p.values[x].kind # "freevar"
  BY <1>1 DEF FunctionKinds
<1>7. resolveFreeVarFromValue(p, v) = None
  BY <1>6, NoFreeVar
<1> HIDE DEF L, f
<1>8. \A x \in L : FunctionsOf(p, x) = {p.values[x].fn}
  BY <1>1, <1>2, FunctionsOfLiteral
<1>9. FunctionsOf(p, v) = Known({f})
  <2>1. CASE f = None
    <3>1. L = {}
      BY <1>1, <1>4, <2>1
    <3>2. FunctionsOf(p, v) = {}
      BY <1>3, <3>1
    <3> QED
      BY <2>1, <3>2 DEF Known
  <2>2. CASE f # None
    <3>1. PICK x \in L : f = p.values[x].fn
      BY <1>4, <2>2
    <3>2. \A y \in L : FunctionsOf(p, y) = {f}
      BY <1>1, <1>8, <3>1
    <3>3. FunctionsOf(p, v) = {f}
      BY <1>3, <3>1, <3>2
    <3> QED
      BY <2>2, <3>3 DEF Known
  <2> QED
    BY <2>1, <2>2
<1> QED
  BY <1>5, <1>6, <1>7, <1>9 DEF f

(***************************************************************************)
(* Parameters.                                                             *)
(***************************************************************************)
LEMMA CollectedInstrs ==
  ASSUME NEW p, AllCollected(p)
  PROVE  UNION {Instrs(p, g) : g \in collectPackageFunctions(p)} = AllInstrs(p)
BY DEF AllCollected, AllInstrs

LEMMA BoundMember ==
  ASSUME NEW p, WellFormed(p), AllCollected(p), NEW f \in DOMAIN p.fns, NEW x, NEW a
  PROVE  a \in BoundArguments(p, f, x) <=>
           \E i \in AllInstrs(p) :
             /\ i.op \in {"call", "go"}
             /\ StaticCallee(p, i) = f
             /\ \E k \in DOMAIN p.fns[f].params : p.fns[f].params[k] = x /\ k <= Len(i.args) /\ a = i.args[k]
<1> DEFINE Arguments(i) == {i.args[k] : k \in {j \in DOMAIN p.fns[f].params :
                                            p.fns[f].params[j] = x /\ j <= Len(i.args)}}
           bindingCalls == {i \in AllInstrs(p) : i.op \in {"call", "go"} /\ StaticCallee(p, i) = f}
<1>1. BoundArguments(p, f, x) = UNION {Arguments(i) : i \in bindingCalls}
  BY CollectedInstrs DEF BoundArguments
<1> QED
  BY <1>1

LEMMA BoundAreValues ==
  ASSUME NEW p, WellFormed(p), AllCollected(p), NEW f \in DOMAIN p.fns, NEW x
  PROVE  BoundArguments(p, f, x) \subseteq DOMAIN p.values /\ BoundArguments(p, f, None) = {}
<1> DEFINE V == DOMAIN p.values
<1>1. p.fns[f].params \in Seq(V) /\ None \notin V
  BY DEF WellFormed, CallsClosed, ValuesClosed
<1>2. DOMAIN p.fns[f].params = 1..Len(p.fns[f].params) /\ \A k \in DOMAIN p.fns[f].params : p.fns[f].params[k] \in V
  BY <1>1
<1>3. BoundArguments(p, f, None) = {}
  BY <1>1, <1>2, BoundMember
<1>4. ASSUME NEW a \in BoundArguments(p, f, x)
      PROVE  a \in V
  <2>1. PICK i \in AllInstrs(p) :
             /\ i.op \in {"call", "go"}
             /\ StaticCallee(p, i) = f
             /\ \E k \in DOMAIN p.fns[f].params : p.fns[f].params[k] = x /\ k <= Len(i.args) /\ a = i.args[k]
    BY BoundMember
  <2>2. i.args \in Seq(V)
    BY <2>1 DEF CallLike, WellFormed, CallsClosed
  <2>3. PICK k \in 1..Len(p.fns[f].params) : k <= Len(i.args) /\ a = i.args[k]
    BY <1>2, <2>1
  <2>4. k \in 1..Len(i.args)
    BY <2>2, <2>3
  <2> QED
    BY <2>2, <2>3, <2>4
<1> QED
  BY <1>3, <1>4

LEMMA ParameterSources ==
  ASSUME NEW p, WellFormed(p), AllCollected(p), NEW f \in DOMAIN p.fns, NEW v, NEW x \in DOMAIN p.values,
         IsParameter(p, f, v, x)
  PROVE  Sources(p, Denotes(p), x) = BoundArguments(p, f, x)
<1> DEFINE D == Denotes(p)
           Argument(i, g, a) == \E k \in DOMAIN p.fns[g].params \cap DOMAIN i.args :
                                  p.fns[g].params[k] = x /\ a = i.args[k]
<1>1. p.values[x].kind = "param" /\ EnteredByName(p, f)
  BY DEF IsParameter
<1>2. \A g \in DOMAIN p.fns : x \in Elements(p.fns[g].params) <=> g = f
  BY DEF IsParameter
<1>3. \A a : a \in Sources(p, D, x) <=>
             \E i \in CallLike(p) : \E g \in CalleesGiven(p, D, i) \cap DOMAIN p.fns : Argument(i, g, a)
  <2> DEFINE Bound == UNION {UNION {{i.args[k] : k \in {j \in DOMAIN p.fns[g].params \cap DOMAIN i.args :
                                               p.fns[g].params[j] = x}} :
                           g \in CalleesGiven(p, D, i) \cap DOMAIN p.fns} :
                    i \in CallLike(p)}
  <2>1. Sources(p, D, x) = Bound
    BY <1>1 DEF Sources
  <2>2. \A a : a \in Bound <=>
             \E i \in CallLike(p) : \E g \in CalleesGiven(p, D, i) \cap DOMAIN p.fns : Argument(i, g, a)
    OBVIOUS
  <2> QED
    BY <2>1, <2>2
<1>4. f # None
  BY DEF WellFormed, NamesApart
<1>5. p.fns[f].params \in Seq(DOMAIN p.values)
  BY DEF WellFormed, CallsClosed
<1>6. \A i \in CallLike(p) : i.value \in DOMAIN p.values /\ i.args \in Seq(DOMAIN p.values)
  BY DEF WellFormed, CallsClosed
<1>7. ASSUME NEW a \in Sources(p, D, x)
      PROVE  a \in BoundArguments(p, f, x)
  <2> PICK i \in CallLike(p) : \E g \in CalleesGiven(p, D, i) \cap DOMAIN p.fns : Argument(i, g, a)
    BY <1>3
  <2>1. PICK g \in CalleesGiven(p, D, i) \cap DOMAIN p.fns : Argument(i, g, a)
    OBVIOUS
  <2>2. PICK k \in DOMAIN p.fns[g].params \cap DOMAIN i.args : p.fns[g].params[k] = x /\ a = i.args[k]
    BY <2>1
  <2>3. x \in Elements(p.fns[g].params)
    BY <2>2 DEF Elements
  <2>4. g = f
    BY <1>2, <2>1, <2>3
  <2>5. i.op \in {"call", "go"} /\ StaticCallee(p, i) = f
    BY <1>1, <2>1, <2>4 DEF EnteredByName
  <2>6. k <= Len(i.args)
    BY <1>6, <2>2
  <2>7. i \in AllInstrs(p)
    BY DEF CallLike
  <2> QED
    BY <2>2, <2>4, <2>5, <2>6, <2>7, BoundMember
<1>8. ASSUME NEW a \in BoundArguments(p, f, x)
      PROVE  a \in Sources(p, D, x)
  <2>1. PICK i \in AllInstrs(p) :
             /\ i.op \in {"call", "go"}
             /\ StaticCallee(p, i) = f
             /\ \E k \in DOMAIN p.fns[f].params : p.fns[f].params[k] = x /\ k <= Len(i.args) /\ a = i.args[k]
    BY BoundMember
  <2>2. PICK k \in DOMAIN p.fns[f].params : p.fns[f].params[k] = x /\ k <= Len(i.args) /\ a = i.args[k]
    BY <2>1
  <2>3. i \in CallLike(p)
    BY <2>1 DEF CallLike
  <2>4. k \in DOMAIN i.args
    BY <1>5, <1>6, <2>2, <2>3
  <2>5. f \in CalleesGiven(p, D, i) \cap DOMAIN p.fns
    BY <1>4, <1>6, <2>1, <2>3, CalleesOfStatic DEF WellFormed
  <2>6. Argument(i, f, a)
    BY <2>2, <2>4
  <2> QED
    BY <1>3, <2>3, <2>5, <2>6
<1> QED
  BY <1>7, <1>8

LEMMA ParameterFlow ==
  ASSUME NEW p, WellFormed(p), AllCollected(p), NEW f \in DOMAIN p.fns, NEW v, NEW x \in DOMAIN p.values,
         IsParameter(p, f, v, x)
  PROVE  Of(Denotes(p), x) = UNION {Of(Denotes(p), a) : a \in BoundArguments(p, f, x)}
<1>1. Sources(p, Denotes(p), x) = BoundArguments(p, f, x)
  BY ParameterSources
<1>2. Literal(p, x) = {}
  BY DEF IsParameter, Literal
<1>3. IsFiniteSet(DOMAIN p.values)
  BY DEF WellFormed, ValuesClosed
<1> QED
  BY <1>1, <1>2, <1>3, DenotesOrigin, DenotesClosed

(***************************************************************************)
(* What a value with a field address behind it as its first step has as    *)
(* leaves: a field address is one.                                         *)
(***************************************************************************)
LEMMA LoadedLeaf ==
  ASSUME NEW p, ValuesClosed(p), NEW v \in DOMAIN p.values, p.values[v].kind = "load",
         p.values[p.values[v].x].kind = "fieldaddr", NEW through \in {Variables, Chain}
  PROVE  Leaves(p, v, through) = {p.values[v].x}
<1> DEFINE addr == p.values[v].x
           V == DOMAIN p.values
           T == {v, addr}
<1>1. addr \in V
  BY DEF ValuesClosed
<1>2. "load" \in through /\ "fieldaddr" \notin through
  BY DEF Variables, Chain
<1>3. Elements(Behind(p, v, through)) = {addr}
  <2>1. Behind(p, v, through) = <<addr>>
    BY <1>2 DEF Behind
  <2>2. Elements(<<addr>>) = {addr}
    BY DEF Elements
  <2> QED
    BY <2>1, <2>2
<1>4. Elements(Behind(p, addr, through)) = {}
  BY <1>2, BehindIsSources
<1> DEFINE R == Through(p, v, through)
<1>5. /\ R \subseteq V /\ v \in R
      /\ \A w \in R : Elements(Behind(p, w, through)) \subseteq R
      /\ \A S : v \in S /\ (\A w \in S \cap V : Elements(Behind(p, w, through)) \subseteq S) => R \subseteq S
  BY ThroughLeast
<1> HIDE DEF R
<1>6. R = T
  <2>1. T \subseteq R
    BY <1>3, <1>5
  <2>2. \A w \in T \cap V : Elements(Behind(p, w, through)) \subseteq T
    BY <1>3, <1>4
  <2> QED
    BY <1>5, <2>1, <2>2
<1>7. Leaves(p, v, through) = {x \in R : p.values[x].kind \notin through}
  BY DEF Leaves, R
<1> HIDE DEF T
<1> QED
  BY <1>2, <1>6, <1>7 DEF T

LEMMA ParameterAlone ==
  ASSUME NEW p, WellFormed(p), NEW f, NEW v \in DOMAIN p.values, NEW x \in DOMAIN p.values,
         IsParameter(p, f, v, x)
  PROVE  /\ resolveFunctionFromValue(p, v) = None
         /\ resolveParameterFromValue(p, v) = x
         /\ resolveFreeVarFromValue(p, v) = None
         /\ Of(Denotes(p), v) = Of(Denotes(p), x)
         /\ p.values[v].kind = "load" => p.values[p.values[v].x].kind # "fieldaddr"
<1>1. Leaves(p, v, Variables) = {x} /\ p.values[x].kind = "param" /\ ValuesClosed(p)
  BY DEF IsParameter, WellFormed
<1>2. resolveFunctionFromValue(p, v) = None
  BY <1>1, FunctionFound DEF FunctionKinds
<1>3. resolveParameterFromValue(p, v) = x
  BY <1>1, ParameterFound
<1>4. resolveFreeVarFromValue(p, v) = None
  BY <1>1, NoFreeVar
<1>5. Of(Denotes(p), v) = Of(Denotes(p), x)
  <2>1. Of(Denotes(p), v) = UNION {Of(Denotes(p), y) : y \in Leaves(p, v, Variables)}
    BY <1>1, DenotesLeaves DEF Variables
  <2> QED
    BY <1>1, <2>1
<1>6. p.values[v].kind = "load" => p.values[p.values[v].x].kind # "fieldaddr"
  BY <1>1, LoadedLeaf
<1> QED
  BY <1>2, <1>3, <1>4, <1>5, <1>6

(***************************************************************************)
(* What is bound to a variable where it is captured or stored: a function  *)
(* or a parameter of the function that binds it.                           *)
(***************************************************************************)
BindingTargets(p, g, b) ==
  Known({resolveFunctionFromValue(p, b)})
    \cup resolveParameterBindingTargets(p, g, resolveParameterFromValue(p, b))

LEMMA FunctionParameterFound ==
  ASSUME NEW p, WellFormed(p), AllCollected(p), NEW f \in DOMAIN p.fns, NEW v \in DOMAIN p.values,
         FunctionParameter(p, f, v)
  PROVE  FunctionsOf(p, v) = resolveParameterBindingTargets(p, f, resolveParameterFromValue(p, v))
<1>1. PICK x \in DOMAIN p.values :
         IsParameter(p, f, v, x) /\ \A a \in BoundArguments(p, f, x) : OneFunction(p, a)
  BY DEF FunctionParameter
<1> DEFINE A == BoundArguments(p, f, x)
<1>2. resolveParameterFromValue(p, v) = x /\ Of(Denotes(p), v) = Of(Denotes(p), x)
  BY <1>1, ParameterAlone
<1>3. Of(Denotes(p), x) = UNION {Of(Denotes(p), a) : a \in A}
  BY <1>1, ParameterFlow
<1>4. FunctionsOf(p, v) = UNION {FunctionsOf(p, a) : a \in A}
  BY <1>2, <1>3 DEF FunctionsOf
<1>5. \A a \in A : FunctionsOf(p, a) = Known({resolveFunctionFromValue(p, a)})
  BY <1>1, BoundAreValues, OneFunctionFound DEF WellFormed
<1>6. resolveParameterBindingTargets(p, f, x) = Known({resolveFunctionFromValue(p, a) : a \in A})
  BY DEF resolveParameterBindingTargets
<1> HIDE DEF A
<1>7. Known({resolveFunctionFromValue(p, a) : a \in A})
        = UNION {Known({resolveFunctionFromValue(p, a)}) : a \in A}
  BY DEF Known
<1> QED
  BY <1>2, <1>4, <1>5, <1>6, <1>7

LEMMA NothingBound ==
  ASSUME NEW p, WellFormed(p), AllCollected(p), NEW f \in DOMAIN p.fns
  PROVE  /\ resolveParameterBindingTargets(p, f, None) = {}
         /\ \A name : resolveParameterBindingMethodTargets(p, f, None, name) = {}
<1>1. BoundArguments(p, f, None) = {}
  BY BoundAreValues
<1> QED
  BY <1>1 DEF resolveParameterBindingTargets, resolveParameterBindingMethodTargets, Known

LEMMA BindingFound ==
  ASSUME NEW p, WellFormed(p), AllCollected(p), NEW g \in DOMAIN p.fns, NEW b \in DOMAIN p.values,
         OneFunction(p, b) \/ FunctionParameter(p, g, b)
  PROVE  /\ FunctionsOf(p, b) = BindingTargets(p, g, b)
         /\ resolveFreeVarFromValue(p, b) = None
         /\ resolveFunctionFromValue(p, b) # None =>
              BindingTargets(p, g, b) = {resolveFunctionFromValue(p, b)}
<1>1. CASE OneFunction(p, b)
  <2>1. /\ FunctionsOf(p, b) = Known({resolveFunctionFromValue(p, b)})
        /\ resolveParameterFromValue(p, b) = None
        /\ resolveFreeVarFromValue(p, b) = None
    BY <1>1, OneFunctionFound DEF WellFormed
  <2>2. BindingTargets(p, g, b) = Known({resolveFunctionFromValue(p, b)})
    BY <2>1, NothingBound DEF BindingTargets
  <2> QED
    BY <2>1, <2>2 DEF Known
<1>2. CASE FunctionParameter(p, g, b)
  <2>1. resolveFunctionFromValue(p, b) = None /\ resolveFreeVarFromValue(p, b) = None
    BY <1>2, ParameterAlone DEF FunctionParameter
  <2> QED
    BY <1>2, <2>1, FunctionParameterFound DEF BindingTargets, Known
<1> QED
  BY <1>1, <1>2

(***************************************************************************)
(* Captured variables.                                                     *)
(***************************************************************************)
LEMMA CapturesMember ==
  ASSUME NEW p, NEW g, NEW f, NEW x, NEW b
  PROVE  b \in Captures(p, g, f, x) <=>
           \E i \in Instrs(p, g) :
             /\ i.op = "makeclosure" /\ p.values[i.closure].fn = f
             /\ \E k \in DOMAIN p.fns[f].freeVars :
                  p.fns[f].freeVars[k] = x /\ b = p.values[i.closure].bindings[k]
BY DEF Captures

LEMMA ClosureBindings ==
  ASSUME NEW p, WellFormed(p), NEW g \in DOMAIN p.fns, NEW i \in Instrs(p, g), i.op = "makeclosure",
         NEW k \in DOMAIN p.fns[p.values[i.closure].fn].freeVars
  PROVE  /\ p.values[i.closure].fn \in DOMAIN p.fns
         /\ k <= Len(p.values[i.closure].bindings)
         /\ p.values[i.closure].bindings[k] \in DOMAIN p.values
         /\ p.fns[p.values[i.closure].fn].freeVars[k] \in DOMAIN p.values
<1> DEFINE V == DOMAIN p.values
           fn == p.values[i.closure].fn
           s == p.values[i.closure].bindings
           t == p.fns[fn].freeVars
<1>1. i \in AllInstrs(p)
  BY DEF AllInstrs
<1>2. fn \in DOMAIN p.fns /\ s \in Seq(V) /\ Len(s) = Len(t)
  BY <1>1 DEF WellFormed, ClosuresClosed
<1>3. t \in Seq(V)
  BY <1>2 DEF WellFormed, CallsClosed
<1>4. k \in DOMAIN t
  OBVIOUS
<1> HIDE DEF s, t, fn, V
<1>5. k \in 1..Len(t) /\ k <= Len(s) /\ s[k] \in V /\ t[k] \in V
  BY <1>2, <1>3, <1>4
<1> QED
  BY <1>2, <1>5 DEF s, t, fn, V

LEMMA CapturesAreValues ==
  ASSUME NEW p, WellFormed(p), NEW g \in DOMAIN p.fns, NEW f, NEW x
  PROVE  Captures(p, g, f, x) \subseteq DOMAIN p.values /\ Captures(p, g, f, None) = {}
<1>1. ASSUME NEW b \in Captures(p, g, f, x)
      PROVE  b \in DOMAIN p.values
  BY <1>1, CapturesMember, ClosureBindings
<1>2. ASSUME NEW b \in Captures(p, g, f, None)
      PROVE  FALSE
  <2>1. None \notin DOMAIN p.values
    BY DEF WellFormed, ValuesClosed
  <2> QED
    BY <1>2, <2>1, CapturesMember, ClosureBindings
<1> QED
  BY <1>1, <1>2

LEMMA CapturedTargets ==
  ASSUME NEW p, WellFormed(p), AllCollected(p), NEW f, NEW x
  PROVE  resolveFreeVarBindingTargets(p, f, x)
           = UNION {UNION {BindingTargets(p, g, b) : b \in Captures(p, g, f, x)} : g \in DOMAIN p.fns}
<1> DEFINE Bound(i) ==
             LET bindings == p.values[i.closure].bindings
             IN  {bindings[k] : k \in {j \in DOMAIN p.fns[f].freeVars :
                                         p.fns[f].freeVars[j] = x /\ j <= Len(bindings)}}
           Bindings(g) ==
             UNION {Bound(i) : i \in {j \in Instrs(p, g) :
                                        j.op = "makeclosure" /\ p.values[j.closure].fn = f}}
<1>1. resolveFreeVarBindingTargets(p, f, x)
        = UNION {UNION {BindingTargets(p, g, b) : b \in Bindings(g)} : g \in DOMAIN p.fns}
  BY DEF resolveFreeVarBindingTargets, BindingTargets, AllCollected
<1>2. \A g \in DOMAIN p.fns : Bindings(g) = Captures(p, g, f, x)
  <2> SUFFICES ASSUME NEW g \in DOMAIN p.fns
               PROVE  Bindings(g) = Captures(p, g, f, x)
    OBVIOUS
  <2>1. \A b : b \in Bindings(g) <=>
           \E i \in Instrs(p, g) :
             /\ i.op = "makeclosure" /\ p.values[i.closure].fn = f
             /\ \E k \in DOMAIN p.fns[f].freeVars :
                  /\ p.fns[f].freeVars[k] = x /\ k <= Len(p.values[i.closure].bindings)
                  /\ b = p.values[i.closure].bindings[k]
    OBVIOUS
  <2> HIDE DEF Bindings
  <2>2. \A b : b \in Bindings(g) => b \in Captures(p, g, f, x)
    BY <2>1, CapturesMember
  <2>3. ASSUME NEW b \in Captures(p, g, f, x)
        PROVE  b \in Bindings(g)
    <3>1. PICK i \in Instrs(p, g) :
             /\ i.op = "makeclosure" /\ p.values[i.closure].fn = f
             /\ \E k \in DOMAIN p.fns[f].freeVars :
                  p.fns[f].freeVars[k] = x /\ b = p.values[i.closure].bindings[k]
      BY CapturesMember
    <3>2. PICK k \in DOMAIN p.fns[f].freeVars :
             p.fns[f].freeVars[k] = x /\ b = p.values[i.closure].bindings[k]
      BY <3>1
    <3>3. k <= Len(p.values[i.closure].bindings)
      BY <3>1, ClosureBindings
    <3> QED
      BY <2>1, <3>1, <3>2, <3>3
  <2> QED
    BY <2>2, <2>3
<1> HIDE DEF Bindings
<1> QED
  BY <1>1, <1>2

LEMMA NothingCaptured ==
  ASSUME NEW p, WellFormed(p), AllCollected(p), NEW f
  PROVE  resolveFreeVarBindingTargets(p, f, None) = {}
BY CapturedTargets, CapturesAreValues

LEMMA CapturedSources ==
  ASSUME NEW p, WellFormed(p), NEW f \in DOMAIN p.fns, NEW v, NEW x \in DOMAIN p.values,
         IsCaptured(p, f, v, x)
  PROVE  Sources(p, Denotes(p), x) = UNION {Captures(p, g, f, x) : g \in DOMAIN p.fns}
<1> DEFINE Bound(i) == LET closure == p.values[i.closure] IN
                    {closure.bindings[k] : k \in {j \in DOMAIN p.fns[closure.fn].freeVars :
                                                    p.fns[closure.fn].freeVars[j] = x}}
           S == UNION {Bound(i) : i \in {j \in AllInstrs(p) : j.op = "makeclosure"}}
<1>1. p.values[x].kind = "freevar" /\ \A g \in DOMAIN p.fns : x \in Elements(p.fns[g].freeVars) <=> g = f
  BY DEF IsCaptured
<1>2. Sources(p, Denotes(p), x) = S
  BY <1>1 DEF Sources
<1>3. \A b : b \in S <=>
         \E i \in AllInstrs(p) : i.op = "makeclosure" /\
           \E k \in DOMAIN p.fns[p.values[i.closure].fn].freeVars :
             p.fns[p.values[i.closure].fn].freeVars[k] = x /\ b = p.values[i.closure].bindings[k]
  OBVIOUS
<1> HIDE DEF S
<1>4. ASSUME NEW b \in S
      PROVE  \E g \in DOMAIN p.fns : b \in Captures(p, g, f, x)
  <2>1. PICK i \in AllInstrs(p) : i.op = "makeclosure" /\
           \E k \in DOMAIN p.fns[p.values[i.closure].fn].freeVars :
             p.fns[p.values[i.closure].fn].freeVars[k] = x /\ b = p.values[i.closure].bindings[k]
    BY <1>3
  <2>2. PICK g \in DOMAIN p.fns : i \in Instrs(p, g)
    BY DEF AllInstrs
  <2>3. p.values[i.closure].fn \in DOMAIN p.fns
    BY <2>1 DEF WellFormed, ClosuresClosed
  <2>4. x \in Elements(p.fns[p.values[i.closure].fn].freeVars)
    BY <2>1 DEF Elements
  <2>5. p.values[i.closure].fn = f
    BY <1>1, <2>3, <2>4
  <2> QED
    BY <2>1, <2>2, <2>5, CapturesMember
<1>5. ASSUME NEW g \in DOMAIN p.fns, NEW b \in Captures(p, g, f, x)
      PROVE  b \in S
  <2>1. Instrs(p, g) \subseteq AllInstrs(p)
    BY DEF AllInstrs
  <2> QED
    BY <1>3, <2>1, CapturesMember
<1> QED
  BY <1>2, <1>4, <1>5

LEMMA CapturedFound ==
  ASSUME NEW p, WellFormed(p), AllCollected(p), NEW f \in DOMAIN p.fns, NEW v \in DOMAIN p.values,
         CapturedFunction(p, f, v)
  PROVE  /\ FunctionsOf(p, v) = resolveFreeVarBindingTargets(p, f, resolveFreeVarFromValue(p, v))
         /\ resolveFunctionFromValue(p, v) = None
         /\ resolveParameterFromValue(p, v) = None
         /\ p.values[v].kind = "load" => p.values[p.values[v].x].kind # "fieldaddr"
<1>1. PICK x \in DOMAIN p.values :
         /\ IsCaptured(p, f, v, x)
         /\ \A g \in DOMAIN p.fns : \A b \in Captures(p, g, f, x) :
              OneFunction(p, b) \/ FunctionParameter(p, g, b)
  BY DEF CapturedFunction
<1>2. /\ Leaves(p, v, Variables) = {x} /\ Leaves(p, v, Chain) = {x}
      /\ p.values[x].kind = "freevar" /\ ValuesClosed(p)
  BY <1>1 DEF IsCaptured, WellFormed
<1>3. resolveFunctionFromValue(p, v) = None
  BY <1>2, FunctionFound DEF FunctionKinds
<1>4. resolveParameterFromValue(p, v) = None
  BY <1>2, ParameterFound
<1>5. resolveFreeVarFromValue(p, v) = x
  BY <1>2, FreeVarFound
<1>6. p.values[v].kind = "load" => p.values[p.values[v].x].kind # "fieldaddr"
  BY <1>2, LoadedLeaf
<1>7. FunctionsOf(p, v) = FunctionsOf(p, x)
  <2>1. FunctionsOf(p, v) = UNION {FunctionsOf(p, y) : y \in Leaves(p, v, Variables)}
    BY <1>2, FunctionsOfLeaves
  <2> QED
    BY <1>2, <2>1
<1>8. Of(Denotes(p), x) = UNION {Of(Denotes(p), b) : b \in Sources(p, Denotes(p), x)}
  <2>1. Literal(p, x) = {}
    BY <1>2 DEF Literal
  <2> QED
    BY <1>2, <2>1, DenotesOrigin, DenotesClosed DEF ValuesClosed
<1>9. Sources(p, Denotes(p), x) = UNION {Captures(p, g, f, x) : g \in DOMAIN p.fns}
  BY <1>1, CapturedSources
<1>10. FunctionsOf(p, x) = UNION {UNION {FunctionsOf(p, b) : b \in Captures(p, g, f, x)} : g \in DOMAIN p.fns}
  BY <1>8, <1>9 DEF FunctionsOf
<1>11. \A g \in DOMAIN p.fns : \A b \in Captures(p, g, f, x) : FunctionsOf(p, b) = BindingTargets(p, g, b)
  BY <1>1, CapturesAreValues, BindingFound
<1>12. resolveFreeVarBindingTargets(p, f, x)
           = UNION {UNION {BindingTargets(p, g, b) : b \in Captures(p, g, f, x)} : g \in DOMAIN p.fns}
  BY CapturedTargets
<1> QED
  BY <1>3, <1>4, <1>5, <1>6, <1>7, <1>10, <1>11, <1>12

(***************************************************************************)
(* Fields.                                                                 *)
(***************************************************************************)
StoredTargets(p, g, b, name) ==
  IF resolveFunctionFromValue(p, b) # None
  THEN {resolveFunctionFromValue(p, b)}
  ELSE resolveParameterBindingTargets(p, g, resolveParameterFromValue(p, b))
         \cup resolveParameterBindingMethodTargets(p, g, resolveParameterFromValue(p, b), name)

LEMMA StoredMember ==
  ASSUME NEW p, NEW g, NEW v, NEW b
  PROVE  b \in Stored(p, g, v) <=>
           \E i \in Instrs(p, g) :
             /\ i.op = "store" /\ p.values[i.addr].kind = "fieldaddr"
             /\ p.values[i.addr].struct = p.values[p.values[v].x].struct
             /\ p.values[i.addr].field = p.values[p.values[v].x].field
             /\ b = i.val
<1> DEFINE addr == p.values[p.values[v].x]
           S == FieldStores(p, g)
<1>1. \A i : i \in S <=> i \in Instrs(p, g) /\ i.op = "store" /\ p.values[i.addr].kind = "fieldaddr"
  BY DEF FieldStores
<1>2. Stored(p, g, v) = {i.val : i \in {j \in S : /\ p.values[j.addr].struct = addr.struct
                                                  /\ p.values[j.addr].field = addr.field}}
  BY DEF Stored
<1> HIDE DEF S
<1> QED
  BY <1>1, <1>2

LEMMA StoredAreValues ==
  ASSUME NEW p, WellFormed(p), NEW g \in DOMAIN p.fns, NEW v
  PROVE  Stored(p, g, v) \subseteq DOMAIN p.values
<1>1. Instrs(p, g) \subseteq AllInstrs(p)
  BY DEF AllInstrs
<1> QED
  BY <1>1, StoredMember DEF WellFormed, CallsClosed

LEMMA FieldAlone ==
  ASSUME NEW p, WellFormed(p), NEW v \in DOMAIN p.values, IsField(p, v)
  PROVE  /\ resolveFunctionFromValue(p, v) = None
         /\ resolveParameterFromValue(p, v) = None
         /\ resolveFreeVarFromValue(p, v) = None
<1>1. ValuesClosed(p) /\ p.values[v].kind = "load" /\ p.values[p.values[v].x].kind = "fieldaddr"
  BY DEF IsField, WellFormed
<1>2. /\ Leaves(p, v, Variables) = {p.values[v].x}
      /\ Leaves(p, v, Chain) = {p.values[v].x}
  BY <1>1, LoadedLeaf
<1> QED
  BY <1>1, <1>2, FunctionFound, ParameterFound, FreeVarFound DEF FunctionKinds

LEMMA FieldFlow ==
  ASSUME NEW p, WellFormed(p), NEW v \in DOMAIN p.values, IsField(p, v)
  PROVE  Of(Denotes(p), v) = UNION {UNION {Of(Denotes(p), b) : b \in Stored(p, g, v)} : g \in DOMAIN p.fns}
<1> DEFINE addr == p.values[v].x
           D == Denotes(p)
<1>1. /\ ValuesClosed(p) /\ IsFiniteSet(DOMAIN p.values) /\ addr \in DOMAIN p.values
      /\ p.values[v].kind = "load" /\ p.values[addr].kind = "fieldaddr"
  BY DEF IsField, WellFormed, ValuesClosed
<1>2. Of(D, v) = Of(D, addr)
  <2>1. Sources(p, D, v) = {addr} /\ Literal(p, v) = {}
    BY <1>1 DEF Sources, Literal
  <2>2. Of(D, addr) \subseteq Of(D, v)
    BY <1>1, <2>1, DenotesClosed
  <2>3. ASSUME NEW o \in Of(D, v)
        PROVE  o \in Of(D, addr)
    <3>1. o \in Literal(p, v) \/ \E w \in Sources(p, D, v) : o \in Of(D, w)
      BY <1>1, <2>3, DenotesOrigin
    <3> QED
      BY <2>1, <3>1
  <2> QED
    BY <2>2, <2>3
<1>3. \A b : b \in Sources(p, D, addr) <=> \E g \in DOMAIN p.fns : b \in Stored(p, g, v)
  <2> DEFINE S == {i.val : i \in {j \in AllInstrs(p) :
                             /\ j.op = "store"
                             /\ p.values[j.addr].kind = "fieldaddr"
                             /\ p.values[j.addr].struct = p.values[addr].struct
                             /\ p.values[j.addr].field = p.values[addr].field}}
  <2>1. Sources(p, D, addr) = S
    BY <1>1 DEF Sources
  <2>2. \A b : b \in S <=> \E i \in AllInstrs(p) :
                             /\ i.op = "store"
                             /\ p.values[i.addr].kind = "fieldaddr"
                             /\ p.values[i.addr].struct = p.values[addr].struct
                             /\ p.values[i.addr].field = p.values[addr].field
                             /\ b = i.val
    OBVIOUS
  <2> HIDE DEF S
  <2>3. \A i : i \in AllInstrs(p) <=> \E g \in DOMAIN p.fns : i \in Instrs(p, g)
    BY DEF AllInstrs
  <2> QED
    BY <2>1, <2>2, <2>3, StoredMember
<1>4. Of(D, addr) = UNION {Of(D, b) : b \in Sources(p, D, addr)}
  <2>1. Literal(p, addr) = {}
    BY <1>1 DEF Literal
  <2> QED
    BY <1>1, <2>1, DenotesOrigin, DenotesClosed
<1> HIDE DEF addr, D
<1> QED
  BY <1>2, <1>3, <1>4 DEF D

LEMMA FieldResolved ==
  ASSUME NEW p, WellFormed(p), AllCollected(p), NEW c, IsField(p, c.value)
  PROVE  FieldTargets(p, c)
           = UNION {UNION {StoredTargets(p, g, b, c.method) : b \in Stored(p, g, c.value)} :
                      g \in DOMAIN p.fns}
<1> DEFINE addr == p.values[p.values[c.value].x]
           SameType(g) == {i.val : i \in {j \in Instrs(p, g) :
                                     /\ j.op = "store"
                                     /\ p.values[j.addr].kind = "fieldaddr"
                                     /\ p.values[j.addr].field = addr.field
                                     /\ p.values[j.addr].type = addr.type}}
<1>1. FieldTargets(p, c) = UNION {UNION {StoredTargets(p, g, b, c.method) : b \in SameType(g)} :
                                    g \in DOMAIN p.fns}
  BY DEF FieldTargets, StoredTargets, AllCollected
<1>2. \A g \in DOMAIN p.fns : SameType(g) = Stored(p, g, c.value)
  <2> SUFFICES ASSUME NEW g \in DOMAIN p.fns
               PROVE  SameType(g) = Stored(p, g, c.value)
    OBVIOUS
  <2>1. \A b : b \in SameType(g) <=> \E i \in Instrs(p, g) :
                                     /\ i.op = "store"
                                     /\ p.values[i.addr].kind = "fieldaddr"
                                     /\ p.values[i.addr].field = addr.field
                                     /\ p.values[i.addr].type = addr.type
                                     /\ b = i.val
    OBVIOUS
  <2>2. \A i \in Instrs(p, g) :
          /\ i.op = "store" /\ p.values[i.addr].kind = "fieldaddr"
          /\ p.values[i.addr].field = addr.field
          => (p.values[i.addr].type = addr.type <=> p.values[i.addr].struct = addr.struct)
    BY DEF IsField, FieldStores
  <2> HIDE DEF SameType
  <2>3. ASSUME NEW b \in SameType(g)
        PROVE  b \in Stored(p, g, c.value)
    BY <2>1, <2>2, StoredMember
  <2>4. ASSUME NEW b \in Stored(p, g, c.value)
        PROVE  b \in SameType(g)
    <3>1. PICK i \in Instrs(p, g) :
             /\ i.op = "store" /\ p.values[i.addr].kind = "fieldaddr"
             /\ p.values[i.addr].struct = addr.struct
             /\ p.values[i.addr].field = addr.field
             /\ b = i.val
      BY StoredMember
    <3>2. p.values[i.addr].type = addr.type
      BY <2>2, <3>1
    <3> QED
      BY <2>1, <3>1, <3>2
  <2> QED
    BY <2>3, <2>4
<1> HIDE DEF SameType
<1> QED
  BY <1>1, <1>2

LEMMA NoMethod ==
  ASSUME NEW p, WellFormed(p), NEW t
  PROVE  resolveMethodTargetsForType(p, t, None) = {}
BY DEF resolveMethodTargetsForType, WellFormed, NamesApart

LEMMA FieldFound ==
  ASSUME NEW p, WellFormed(p), AllCollected(p), NEW c, c.value \in DOMAIN p.values, c.method = None,
         FieldFunction(p, c.value)
  PROVE  FunctionsOf(p, c.value) = FieldTargets(p, c)
<1> DEFINE v == c.value
<1>1. IsField(p, v) /\ \A g \in DOMAIN p.fns : \A b \in Stored(p, g, v) :
                         OneFunction(p, b) \/ FunctionParameter(p, g, b)
  BY DEF FieldFunction
<1>2. FunctionsOf(p, v) = UNION {UNION {FunctionsOf(p, b) : b \in Stored(p, g, v)} : g \in DOMAIN p.fns}
  BY <1>1, FieldFlow DEF FunctionsOf
<1>3. \A g \in DOMAIN p.fns : \A b \in Stored(p, g, v) : FunctionsOf(p, b) = StoredTargets(p, g, b, None)
  <2> SUFFICES ASSUME NEW g \in DOMAIN p.fns, NEW b \in Stored(p, g, v)
               PROVE  FunctionsOf(p, b) = StoredTargets(p, g, b, None)
    OBVIOUS
  <2>1. b \in DOMAIN p.values
    BY StoredAreValues
  <2>2. /\ FunctionsOf(p, b) = BindingTargets(p, g, b)
        /\ resolveFunctionFromValue(p, b) # None =>
              BindingTargets(p, g, b) = {resolveFunctionFromValue(p, b)}
    BY <1>1, <2>1, BindingFound
  <2>3. \A x : resolveParameterBindingMethodTargets(p, g, x, None) = {}
    BY NoMethod DEF resolveParameterBindingMethodTargets
  <2> QED
    BY <2>2, <2>3 DEF StoredTargets, BindingTargets, Known
<1>4. FieldTargets(p, c) = UNION {UNION {StoredTargets(p, g, b, None) : b \in Stored(p, g, v)} :
                                    g \in DOMAIN p.fns}
  BY <1>1, FieldResolved
<1> QED
  BY <1>2, <1>3, <1>4

(***************************************************************************)
(* A call of a function value.                                             *)
(***************************************************************************)
LEMMA FunctionCallResolved ==
  ASSUME NEW p, WellFormed(p), AllCollected(p), NEW f \in DOMAIN p.fns, NEW c,
         c.value \in DOMAIN p.values, c.method = None, TracedFunction(p, f, c.value)
  PROVE  /\ resolveDynamicCallTargets(p, f, c) = FunctionsOf(p, c.value)
         /\ resolveFunctionFromValue(p, c.value) # None =>
              FunctionsOf(p, c.value) = {resolveFunctionFromValue(p, c.value)}
<1> DEFINE v == c.value
           isField == p.values[v].kind = "load" /\ p.values[p.values[v].x].kind = "fieldaddr"
           params == resolveParameterBindingTargets(p, f, resolveParameterFromValue(p, v))
           captured == resolveFreeVarBindingTargets(p, f, resolveFreeVarFromValue(p, v))
           fields == IF isField THEN FieldTargets(p, c) ELSE {}
<1>1. resolveDynamicCallTargets(p, f, c)
        = Known({resolveFunctionFromValue(p, v)}) \cup params \cup captured \cup fields
  <2>1. resolveParameterBindingMethodTargets(p, f, resolveParameterFromValue(p, v), c.method) = {}
    BY NoMethod DEF resolveParameterBindingMethodTargets
  <2>2. UNION {resolveMethodTargetsForType(p, t, c.method) : t \in resolveConcreteTypesFromValue(p, v)} = {}
    BY NoMethod
  <2> QED
    BY <2>1, <2>2 DEF resolveDynamicCallTargets
<1>2. ValuesClosed(p)
  BY DEF WellFormed
<1> HIDE DEF params, captured, fields
<1>3. CASE OneFunction(p, v)
  <2>1. /\ FunctionsOf(p, v) = Known({resolveFunctionFromValue(p, v)})
        /\ resolveParameterFromValue(p, v) = None
        /\ resolveFreeVarFromValue(p, v) = None
    BY <1>2, <1>3, OneFunctionFound
  <2>2. ~isField
    <3> SUFFICES ASSUME isField
                 PROVE  FALSE
      OBVIOUS
    <3>1. Leaves(p, v, Variables) = {p.values[v].x}
      BY <1>2, LoadedLeaf
    <3> QED
      BY <1>3, <3>1 DEF OneFunction
  <2>3. params = {} /\ captured = {} /\ fields = {}
    BY <2>1, <2>2, NothingBound, NothingCaptured DEF params, captured, fields
  <2> QED
    BY <1>1, <2>1, <2>3 DEF Known
<1>4. CASE FunctionParameter(p, f, v)
  <2>1. resolveFunctionFromValue(p, v) = None /\ resolveFreeVarFromValue(p, v) = None /\ ~isField
    BY <1>4, ParameterAlone DEF FunctionParameter
  <2>2. captured = {} /\ fields = {}
    BY <2>1, NothingCaptured DEF captured, fields
  <2>3. FunctionsOf(p, v) = params
    BY <1>4, FunctionParameterFound DEF params
  <2> QED
    BY <1>1, <2>1, <2>2, <2>3 DEF Known
<1>5. CASE CapturedFunction(p, f, v)
  <2>1. /\ FunctionsOf(p, v) = captured
        /\ resolveFunctionFromValue(p, v) = None
        /\ resolveParameterFromValue(p, v) = None
        /\ ~isField
    BY <1>5, CapturedFound DEF captured
  <2>2. params = {} /\ fields = {}
    BY <2>1, NothingBound DEF params, fields
  <2> QED
    BY <1>1, <2>1, <2>2 DEF Known
<1>6. CASE FieldFunction(p, v)
  <2>1. IsField(p, v) /\ isField
    BY <1>6 DEF FieldFunction, IsField
  <2>2. /\ resolveFunctionFromValue(p, v) = None
        /\ resolveParameterFromValue(p, v) = None
        /\ resolveFreeVarFromValue(p, v) = None
    BY <2>1, FieldAlone
  <2>3. FunctionsOf(p, v) = fields
    BY <1>6, <2>1, FieldFound DEF fields
  <2>4. params = {} /\ captured = {}
    BY <2>2, NothingBound, NothingCaptured DEF params, captured
  <2> QED
    BY <1>1, <2>2, <2>3, <2>4 DEF Known
<1> QED
  BY <1>3, <1>4, <1>5, <1>6 DEF TracedFunction

(***************************************************************************)
(* The types an interface value is made from.                              *)
(***************************************************************************)
MethodsOf(p, v, name) ==
  {m.fn : m \in {x \in p.methods : x.name = name /\ <<"type", x.type>> \in Of(Denotes(p), v)}}

TypeTargets(p, v, name) ==
  UNION {resolveMethodTargetsForType(p, t, name) : t \in resolveConcreteTypesFromValue(p, v)}

LEMMA TypesBehindType ==
  ASSUME NEW p, WellFormed(p), NEW v \in DOMAIN p.values
  PROVE  TypesBehind(p, v) \subseteq DOMAIN p.values
<1> DEFINE w == p.values[v]
<1>1. CASE w.kind \in {"convert", "load"}
  BY <1>1 DEF TypesBehind, WellFormed, ValuesClosed
<1>2. CASE w.kind = "call"
  <2>1. TypesBehind(p, v) = Results(p, StaticCallee(p, w))
    BY <1>2 DEF TypesBehind
  <2>2. \A f : Results(p, f) \subseteq DOMAIN p.values
    <3> SUFFICES ASSUME NEW f \in DOMAIN p.fns
                 PROVE  UNION {Elements(i.results) : i \in {j \in Instrs(p, f) : j.op = "return"}}
                          \subseteq DOMAIN p.values
      BY DEF Results
    <3>1. Instrs(p, f) \subseteq AllInstrs(p)
      BY DEF AllInstrs
    <3> QED
      BY <3>1 DEF WellFormed, CallsClosed
  <2> QED
    BY <2>1, <2>2
<1>3. CASE w.kind \notin {"convert", "load", "call"}
  BY <1>3 DEF TypesBehind
<1> QED
  BY <1>1, <1>2, <1>3

LEMMA TypeSourcesLeast ==
  ASSUME NEW p, WellFormed(p), NEW v \in DOMAIN p.values
  PROVE  LET V == DOMAIN p.values
             R == TypeSources(p, v)
         IN  /\ R \subseteq V /\ v \in R
             /\ \A w \in R : TypesBehind(p, w) \subseteq R
             /\ \A T : v \in T /\ (\A w \in T \cap V : TypesBehind(p, w) \subseteq T) => R \subseteq T
             /\ resolveConcreteTypesFromValue(p, v) = UNION {TypesAt(p, w) : w \in R}
<1> DEFINE V == DOMAIN p.values
           next == [w \in V |-> TypesBehind(p, w)]
           R == ReachedFrom(p, v, next)
<1>1. \A w \in V : next[w] = TypesBehind(p, w)
  OBVIOUS
<1>2. \A w \in V : TypesBehind(p, w) \subseteq V
  BY TypesBehindType
<1>3. TypeSources(p, v) = R
  BY DEF TypeSources
<1>4. resolveConcreteTypesFromValue(p, v) = UNION {TypesAt(p, w) : w \in R}
  BY DEF resolveConcreteTypesFromValue
<1> HIDE DEF next
<1>5. /\ R \subseteq V /\ v \in R
      /\ \A w \in R : next[w] \cap V \subseteq R
      /\ \A T : v \in T /\ (\A w \in T \cap V : next[w] \cap V \subseteq T) => R \subseteq T
  BY ReachedLeast DEF WellFormed, ValuesClosed
<1> HIDE DEF R
<1>6. \A w \in R : TypesBehind(p, w) \subseteq R
  BY <1>1, <1>2, <1>5
<1>7. ASSUME NEW T, v \in T, \A w \in T \cap V : TypesBehind(p, w) \subseteq T
      PROVE  R \subseteq T
  BY <1>1, <1>5, <1>7
<1> QED
  BY <1>3, <1>4, <1>5, <1>6, <1>7

\* What Boxed says of each value on the way.
Boxes(p, v) == {x \in TypeSources(p, v) : p.values[x].kind = "makeinterface"}

LEMMA BoxedSources ==
  ASSUME NEW p, WellFormed(p), NEW v \in DOMAIN p.values, NEW name, Boxed(p, v, name),
         NEW x \in TypeSources(p, v)
  PROVE  /\ x \in Boxes(p, v) =>
              /\ TypesBehind(p, x) = {}
              /\ TypesAt(p, x) = {p.values[p.values[x].of].type}
              /\ Of(Denotes(p), x) = {<<"type", p.values[p.values[x].of].type>>}
              /\ resolveMethodTargetsForType(p, p.values[p.values[x].of].type, name)
                   = MethodsNamed(p, p.values[p.values[x].of].type, name)
         /\ x \notin Boxes(p, v) =>
              /\ TypesAt(p, x) = {}
              /\ Literal(p, x) = {}
              /\ Sources(p, Denotes(p), x) = TypesBehind(p, x)
<1> DEFINE w == p.values[x]
           D == Denotes(p)
<1>1. x \in DOMAIN p.values
  BY TypeSourcesLeast
<1>2. \/ w.kind \in Chain
      \/ w.kind = "call" /\ StaticCallee(p, w) # None /\ w.value \in DOMAIN p.values
      \/ /\ w.kind = "makeinterface"
         /\ resolveMethodTargetsForType(p, p.values[w.of].type, name)
              = MethodsNamed(p, p.values[w.of].type, name)
  BY DEF Boxed
<1>3. IsFiniteSet(DOMAIN p.values) /\ ValuesClosed(p)
  BY DEF WellFormed, ValuesClosed
<1>4. CASE w.kind \in Chain
  BY <1>4 DEF Chain, Boxes, TypesAt, Literal, Sources, TypesBehind
<1>5. CASE w.kind = "call" /\ StaticCallee(p, w) # None /\ w.value \in DOMAIN p.values
  <2>1. CalleesGiven(p, D, w) = {StaticCallee(p, w)}
    BY <1>3, <1>5, CalleesOfStatic
  <2> DEFINE F == CalleesGiven(p, D, w) \cap DOMAIN p.fns
             S == UNION {Elements(i.results) : i \in {j \in UNION {Instrs(p, f) : f \in F} : j.op = "return"}}
  <2>2. Sources(p, D, x) = S
    BY <1>5 DEF Sources
  <2>3. TypesBehind(p, x) = Results(p, StaticCallee(p, w))
    BY <1>5 DEF TypesBehind
  <2>4. S = Results(p, StaticCallee(p, w))
    <3>1. CASE StaticCallee(p, w) \in DOMAIN p.fns
      <4>1. F = {StaticCallee(p, w)}
        BY <2>1, <3>1
      <4> HIDE DEF F
      <4>2. UNION {Instrs(p, f) : f \in F} = Instrs(p, StaticCallee(p, w))
        BY <4>1
      <4> QED
        BY <3>1, <4>2 DEF Results
    <3>2. CASE StaticCallee(p, w) \notin DOMAIN p.fns
      <4>1. F = {}
        BY <2>1, <3>2
      <4> HIDE DEF F
      <4> QED
        BY <3>2, <4>1 DEF Results
    <3> QED
      BY <3>1, <3>2
  <2>5. x \notin Boxes(p, v) /\ TypesAt(p, x) = {} /\ Literal(p, x) = {}
    BY <1>5 DEF Boxes, TypesAt, Literal
  <2> QED
    BY <2>2, <2>3, <2>4, <2>5
<1>6. CASE w.kind = "makeinterface"
  <2> DEFINE t == p.values[w.of].type
  <2>1. Literal(p, x) = {<<"type", t>>} /\ Sources(p, D, x) = {}
    BY <1>6 DEF Literal, Sources
  <2>2. Of(D, x) = {<<"type", t>>}
    BY <1>1, <1>3, <2>1, DenotesOrigin, DenotesClosed
  <2>3. TypesBehind(p, x) = {} /\ TypesAt(p, x) = {t}
    BY <1>6 DEF TypesBehind, TypesAt
  <2>4. x \in Boxes(p, v)
    BY <1>6 DEF Boxes
  <2>5. resolveMethodTargetsForType(p, t, name) = MethodsNamed(p, t, name)
    BY <1>2, <1>6 DEF Chain
  <2> QED
    BY <2>2, <2>3, <2>4, <2>5
<1> QED
  BY <1>2, <1>4, <1>5, <1>6

LEMMA BoxedFlow ==
  ASSUME NEW p, WellFormed(p), NEW v \in DOMAIN p.values, NEW name, Boxed(p, v, name)
  PROVE  Of(Denotes(p), v) = {<<"type", p.values[p.values[x].of].type>> : x \in Boxes(p, v)}
<1> DEFINE D == Denotes(p)
           R == TypeSources(p, v)
           L == Boxes(p, v)
           V == DOMAIN p.values
<1>1. /\ R \subseteq V /\ v \in R
      /\ \A w \in R : TypesBehind(p, w) \subseteq R
      /\ \A T : v \in T /\ (\A w \in T \cap V : TypesBehind(p, w) \subseteq T) => R \subseteq T
  BY TypeSourcesLeast
<1>2. IsFiniteSet(V) /\ L \subseteq R
  BY DEF WellFormed, ValuesClosed, Boxes
<1>3. \A x \in R \ L : Literal(p, x) = {} /\ Sources(p, D, x) = TypesBehind(p, x)
  BY BoxedSources
<1>4. \A x \in L : TypesBehind(p, x) = {} /\ Of(D, x) = {<<"type", p.values[p.values[x].of].type>>}
  BY <1>2, BoxedSources
<1> HIDE DEF R, L, D
<1>5. Of(D, v) \subseteq UNION {Of(D, y) : y \in L}
  <2>1. \A x \in R \ L : Literal(p, x) = {} /\ Sources(p, Denotes(p), x) \subseteq R
    BY <1>1, <1>3 DEF D
  <2>2. \A x \in R : Of(Denotes(p), x) \subseteq UNION {Of(Denotes(p), y) : y \in L}
    BY <1>2, <2>1, DenotesFrom
  <2> QED
    BY <1>1, <2>2 DEF D
<1>6. \A x \in R : Of(D, x) \subseteq Of(D, v)
  <2> DEFINE T == {y \in R : Of(D, y) \subseteq Of(D, v)}
  <2>1. ASSUME NEW w \in T, NEW z \in TypesBehind(p, w)
        PROVE  z \in T
    <3>1. w \in R \ L
      BY <1>4
    <3>2. z \in Sources(p, D, w) /\ z \in R /\ w \in V
      BY <1>1, <1>3, <3>1
    <3>3. Of(D, z) \subseteq Of(D, w)
      BY <1>2, <3>2, DenotesClosed DEF D
    <3> QED
      BY <3>2, <3>3
  <2>2. v \in T
    BY <1>1
  <2>3. R \subseteq T
    <3> HIDE DEF T
    <3> QED
      BY <1>1, <2>1, <2>2
  <2> QED
    BY <2>3
<1>7. Of(D, v) = UNION {Of(D, y) : y \in L}
  BY <1>2, <1>5, <1>6
<1> QED
  BY <1>4, <1>7 DEF D, L

LEMMA BoxedFound ==
  ASSUME NEW p, WellFormed(p), NEW v \in DOMAIN p.values, NEW name, Boxed(p, v, name)
  PROVE  TypeTargets(p, v, name) = MethodsOf(p, v, name)
<1> DEFINE R == TypeSources(p, v)
           L == Boxes(p, v)
           Type(x) == p.values[p.values[x].of].type
<1>1. resolveConcreteTypesFromValue(p, v) = UNION {TypesAt(p, w) : w \in R}
  BY TypeSourcesLeast
<1>2. \A x \in R : /\ x \in L => /\ TypesAt(p, x) = {Type(x)}
                                 /\ resolveMethodTargetsForType(p, Type(x), name) = MethodsNamed(p, Type(x), name)
                   /\ x \notin L => TypesAt(p, x) = {}
  BY BoxedSources
<1>3. Of(Denotes(p), v) = {<<"type", Type(x)>> : x \in L}
  BY BoxedFlow
<1>4. L \subseteq R
  BY DEF Boxes
<1> HIDE DEF R, L, Type
<1>5. \A t : t \in resolveConcreteTypesFromValue(p, v) <=> \E x \in L : t = Type(x)
  BY <1>1, <1>2, <1>4
<1>6. \A t : <<"type", t>> \in Of(Denotes(p), v) <=> \E x \in L : t = Type(x)
  BY <1>3
<1>7. \A x \in L : resolveMethodTargetsForType(p, Type(x), name) = MethodsNamed(p, Type(x), name)
  BY <1>2, <1>4
<1>8. \A g : g \in TypeTargets(p, v, name) <=> \E x \in L : g \in MethodsNamed(p, Type(x), name)
  BY <1>5, <1>7 DEF TypeTargets
<1>9. \A g : g \in MethodsOf(p, v, name) <=> \E x \in L : g \in MethodsNamed(p, Type(x), name)
  <2>1. \A g : g \in MethodsOf(p, v, name) <=>
                \E m \in p.methods : m.name = name /\ <<"type", m.type>> \in Of(Denotes(p), v) /\ g = m.fn
    BY DEF MethodsOf
  <2>2. \A g, t : g \in MethodsNamed(p, t, name) <=>
                   \E m \in p.methods : m.name = name /\ m.type = t /\ g = m.fn
    BY DEF MethodsNamed
  <2>3. ASSUME NEW g \in MethodsOf(p, v, name)
        PROVE  \E x \in L : g \in MethodsNamed(p, Type(x), name)
    <3>1. PICK m \in p.methods : m.name = name /\ <<"type", m.type>> \in Of(Denotes(p), v) /\ g = m.fn
      BY <2>1
    <3>2. PICK x \in L : m.type = Type(x)
      BY <1>6, <3>1
    <3> QED
      BY <2>2, <3>1, <3>2
  <2>4. ASSUME NEW x \in L, NEW g \in MethodsNamed(p, Type(x), name)
        PROVE  g \in MethodsOf(p, v, name)
    <3>1. PICK m \in p.methods : m.name = name /\ m.type = Type(x) /\ g = m.fn
      BY <2>2
    <3>2. <<"type", m.type>> \in Of(Denotes(p), v)
      BY <1>6, <3>1
    <3> QED
      BY <2>1, <3>1, <3>2
  <2> QED
    BY <2>3, <2>4
<1> QED
  BY <1>8, <1>9

LEMMA BoxedAlone ==
  ASSUME NEW p, WellFormed(p), NEW v \in DOMAIN p.values, NEW name, Boxed(p, v, name)
  PROVE  /\ resolveFunctionFromValue(p, v) = None
         /\ resolveParameterFromValue(p, v) = None
         /\ resolveFreeVarFromValue(p, v) = None
         /\ p.values[v].kind = "load" => p.values[p.values[v].x].kind # "fieldaddr"
<1> DEFINE R == TypeSources(p, v)
           V == DOMAIN p.values
<1>1. ValuesClosed(p)
  BY DEF WellFormed
<1>2. R \subseteq V /\ v \in R /\ \A w \in R : TypesBehind(p, w) \subseteq R
  BY TypeSourcesLeast
<1>3. \A w \in R : p.values[w].kind \in Chain \cup {"call", "makeinterface"}
  BY DEF Boxed
<1> HIDE DEF R
<1>4. \A w \in R : Elements(Behind(p, w, Variables)) \subseteq R
  <2> SUFFICES ASSUME NEW w \in R
               PROVE  Elements(Behind(p, w, Variables)) \subseteq R
    OBVIOUS
  <2>1. CASE p.values[w].kind \in Chain
    <3>1. Elements(Behind(p, w, Variables)) = Sources(p, {}, w)
      BY <2>1, BehindIsSources DEF Chain, Variables
    <3>2. Sources(p, {}, w) = TypesBehind(p, w)
      BY <2>1 DEF Sources, TypesBehind, Chain
    <3> QED
      BY <1>2, <3>1, <3>2
  <2>2. CASE p.values[w].kind \in {"call", "makeinterface"}
    <3>1. Elements(Behind(p, w, Variables)) = {}
      BY <2>2, BehindIsSources DEF Variables
    <3> QED
      BY <3>1
  <2> QED
    BY <1>3, <2>1, <2>2
<1>5. Through(p, v, Variables) \subseteq R
  BY <1>1, <1>2, <1>4, ThroughLeast
<1>6. \A x \in Leaves(p, v, Variables) : p.values[x].kind \in {"call", "makeinterface"}
  BY <1>3, <1>5 DEF Leaves, Chain, Variables
<1>7. resolveFunctionFromValue(p, v) = None
  BY <1>1, <1>6, FunctionFound DEF FunctionKinds
<1>8. resolveParameterFromValue(p, v) = None
  BY <1>1, <1>6, ParameterFound
<1>9. resolveFreeVarFromValue(p, v) = None
  BY <1>1, <1>6, NoFreeVar
<1>10. p.values[v].kind = "load" => p.values[p.values[v].x].kind # "fieldaddr"
  BY <1>1, <1>6, LoadedLeaf
<1> QED
  BY <1>7, <1>8, <1>9, <1>10

(***************************************************************************)
(* A call through an interface.                                            *)
(***************************************************************************)
LEMMA MethodsGathered ==
  ASSUME NEW p, NEW v, NEW name, NEW A, Of(Denotes(p), v) = UNION {Of(Denotes(p), a) : a \in A}
  PROVE  MethodsOf(p, v, name) = UNION {MethodsOf(p, a, name) : a \in A}
<1>1. \A y, g : g \in MethodsOf(p, y, name) <=>
              \E m \in p.methods : m.name = name /\ <<"type", m.type>> \in Of(Denotes(p), y) /\ g = m.fn
  BY DEF MethodsOf
<1>2. ASSUME NEW g \in MethodsOf(p, v, name)
      PROVE  \E a \in A : g \in MethodsOf(p, a, name)
  <2>1. PICK m \in p.methods : m.name = name /\ <<"type", m.type>> \in Of(Denotes(p), v) /\ g = m.fn
    BY <1>1
  <2>2. PICK a \in A : <<"type", m.type>> \in Of(Denotes(p), a)
    BY <2>1
  <2> QED
    BY <1>1, <2>1, <2>2
<1>3. ASSUME NEW a \in A, NEW g \in MethodsOf(p, a, name)
      PROVE  g \in MethodsOf(p, v, name)
  <2>1. PICK m \in p.methods : m.name = name /\ <<"type", m.type>> \in Of(Denotes(p), a) /\ g = m.fn
    BY <1>1
  <2>2. <<"type", m.type>> \in Of(Denotes(p), v)
    BY <2>1
  <2> QED
    BY <1>1, <2>1, <2>2
<1> QED
  BY <1>2, <1>3

LEMMA InterfaceParameterFound ==
  ASSUME NEW p, WellFormed(p), AllCollected(p), NEW f \in DOMAIN p.fns, NEW v \in DOMAIN p.values,
         NEW name, InterfaceParameter(p, f, v, name)
  PROVE  /\ resolveFunctionFromValue(p, v) = None
         /\ resolveFreeVarFromValue(p, v) = None
         /\ p.values[v].kind = "load" => p.values[p.values[v].x].kind # "fieldaddr"
         /\ resolveParameterBindingTargets(p, f, resolveParameterFromValue(p, v)) = {}
         /\ resolveParameterBindingMethodTargets(p, f, resolveParameterFromValue(p, v), name)
              = MethodsOf(p, v, name)
<1>1. PICK x \in DOMAIN p.values :
         IsParameter(p, f, v, x) /\ \A a \in BoundArguments(p, f, x) : Boxed(p, a, name)
  BY DEF InterfaceParameter
<1> DEFINE A == BoundArguments(p, f, x)
<1>2. /\ resolveFunctionFromValue(p, v) = None
      /\ resolveFreeVarFromValue(p, v) = None
      /\ resolveParameterFromValue(p, v) = x
      /\ Of(Denotes(p), v) = Of(Denotes(p), x)
      /\ p.values[v].kind = "load" => p.values[p.values[v].x].kind # "fieldaddr"
  BY <1>1, ParameterAlone
<1>3. A \subseteq DOMAIN p.values
  BY BoundAreValues
<1>4. resolveParameterBindingTargets(p, f, x) = {}
  <2>1. \A a \in A : resolveFunctionFromValue(p, a) = None
    BY <1>1, <1>3, BoxedAlone
  <2> QED
    BY <2>1 DEF resolveParameterBindingTargets, Known
<1>5. resolveParameterBindingMethodTargets(p, f, x, name) = UNION {TypeTargets(p, a, name) : a \in A}
  BY DEF resolveParameterBindingMethodTargets, TypeTargets
<1>6. Of(Denotes(p), v) = UNION {Of(Denotes(p), a) : a \in A}
  BY <1>1, <1>2, ParameterFlow
<1>7. MethodsOf(p, v, name) = UNION {MethodsOf(p, a, name) : a \in A}
  BY <1>6, MethodsGathered
<1>8. \A a \in A : TypeTargets(p, a, name) = MethodsOf(p, a, name)
  BY <1>1, <1>3, BoxedFound
<1> QED
  BY <1>2, <1>4, <1>5, <1>7, <1>8

LEMMA InterfaceFieldFound ==
  ASSUME NEW p, WellFormed(p), AllCollected(p), NEW c, c.value \in DOMAIN p.values,
         InterfaceField(p, c.value, c.method)
  PROVE  FieldTargets(p, c) = MethodsOf(p, c.value, c.method)
<1> DEFINE v == c.value
           name == c.method
<1>1. IsField(p, v) /\ \A g \in DOMAIN p.fns : \A b \in Stored(p, g, v) : InterfaceParameter(p, g, b, name)
  BY DEF InterfaceField
<1>2. Of(Denotes(p), v) = UNION {UNION {Of(Denotes(p), b) : b \in Stored(p, g, v)} : g \in DOMAIN p.fns}
  BY <1>1, FieldFlow
<1>3. \A g \in DOMAIN p.fns : \A b \in Stored(p, g, v) : StoredTargets(p, g, b, name) = MethodsOf(p, b, name)
  BY <1>1, StoredAreValues, InterfaceParameterFound DEF StoredTargets
<1>4. FieldTargets(p, c) = UNION {UNION {StoredTargets(p, g, b, name) : b \in Stored(p, g, v)} :
                                    g \in DOMAIN p.fns}
  BY <1>1, FieldResolved
<1> DEFINE A == UNION {Stored(p, g, v) : g \in DOMAIN p.fns}
<1>5. MethodsOf(p, v, name) = UNION {MethodsOf(p, b, name) : b \in A}
  <2>1. Of(Denotes(p), v) = UNION {Of(Denotes(p), b) : b \in A}
    BY <1>2
  <2> HIDE DEF A
  <2> QED
    BY <2>1, MethodsGathered
<1> QED
  BY <1>3, <1>4, <1>5

LEMMA InterfaceCallResolved ==
  ASSUME NEW p, WellFormed(p), AllCollected(p), NEW f \in DOMAIN p.fns, NEW c,
         c.value \in DOMAIN p.values, TracedInterface(p, f, c.value, c.method)
  PROVE  /\ resolveDynamicCallTargets(p, f, c) = MethodsOf(p, c.value, c.method)
         /\ resolveFunctionFromValue(p, c.value) = None
<1> DEFINE v == c.value
           name == c.method
           isField == p.values[v].kind = "load" /\ p.values[p.values[v].x].kind = "fieldaddr"
           params == resolveParameterBindingTargets(p, f, resolveParameterFromValue(p, v))
           methods == resolveParameterBindingMethodTargets(p, f, resolveParameterFromValue(p, v), name)
           captured == resolveFreeVarBindingTargets(p, f, resolveFreeVarFromValue(p, v))
           types == TypeTargets(p, v, name)
           fields == IF isField THEN FieldTargets(p, c) ELSE {}
<1>1. resolveDynamicCallTargets(p, f, c)
        = Known({resolveFunctionFromValue(p, v)}) \cup params \cup methods \cup captured \cup types \cup fields
  BY DEF resolveDynamicCallTargets, TypeTargets
<1> HIDE DEF params, methods, captured, types, fields
<1>2. CASE Boxed(p, v, name)
  <2>1. /\ resolveFunctionFromValue(p, v) = None
        /\ resolveParameterFromValue(p, v) = None
        /\ resolveFreeVarFromValue(p, v) = None
        /\ ~isField
    BY <1>2, BoxedAlone
  <2>2. params = {} /\ methods = {} /\ captured = {} /\ fields = {}
    BY <2>1, NothingBound, NothingCaptured DEF params, methods, captured, fields
  <2>3. types = MethodsOf(p, v, name)
    BY <1>2, BoxedFound DEF types
  <2> QED
    BY <1>1, <2>1, <2>2, <2>3 DEF Known
<1>3. ASSUME NoOtherTypes(p, v, name)
      PROVE  types = {}
  BY <1>3 DEF types, TypeTargets, NoOtherTypes
<1>4. CASE NoOtherTypes(p, v, name) /\ InterfaceParameter(p, f, v, name)
  <2>1. /\ resolveFunctionFromValue(p, v) = None
        /\ resolveFreeVarFromValue(p, v) = None
        /\ ~isField
        /\ params = {}
        /\ methods = MethodsOf(p, v, name)
    BY <1>4, InterfaceParameterFound DEF params, methods
  <2>2. captured = {} /\ fields = {}
    BY <2>1, NothingCaptured DEF captured, fields
  <2> QED
    BY <1>1, <1>3, <1>4, <2>1, <2>2 DEF Known
<1>5. CASE NoOtherTypes(p, v, name) /\ InterfaceField(p, v, name)
  <2>1. IsField(p, v) /\ isField
    BY <1>5 DEF InterfaceField, IsField
  <2>2. /\ resolveFunctionFromValue(p, v) = None
        /\ resolveParameterFromValue(p, v) = None
        /\ resolveFreeVarFromValue(p, v) = None
    BY <2>1, FieldAlone
  <2>3. params = {} /\ methods = {} /\ captured = {}
    BY <2>2, NothingBound, NothingCaptured DEF params, methods, captured
  <2>4. fields = MethodsOf(p, v, name)
    BY <1>5, <2>1, InterfaceFieldFound DEF fields
  <2> QED
    BY <1>1, <1>3, <1>5, <2>2, <2>3, <2>4 DEF Known
<1> QED
  BY <1>2, <1>4, <1>5 DEF TracedInterface

(***************************************************************************)
(* A call that can be traced is resolved to what it can reach.             *)
(***************************************************************************)
LEMMA TracedCallResolved ==
  ASSUME NEW p, WellFormed(p), AllCollected(p), NEW f \in DOMAIN p.fns, NEW c,
         c.value \in DOMAIN p.values, Traced(p, f, c)
  PROVE  /\ resolveDynamicCallTargets(p, f, c) = CalleesGiven(p, Denotes(p), c)
         /\ resolveFunctionFromValue(p, c.value) # None =>
              CalleesGiven(p, Denotes(p), c) = {resolveFunctionFromValue(p, c.value)}
<1>1. CASE c.method = None
  <2>1. CalleesGiven(p, Denotes(p), c) = FunctionsOf(p, c.value)
    BY <1>1 DEF CalleesGiven, FunctionsOf
  <2>2. TracedFunction(p, f, c.value)
    BY <1>1 DEF Traced
  <2> QED
    BY <1>1, <2>1, <2>2, FunctionCallResolved
<1>2. CASE c.method # None
  <2>1. CalleesGiven(p, Denotes(p), c) = MethodsOf(p, c.value, c.method)
    BY <1>2 DEF CalleesGiven, MethodsOf
  <2>2. TracedInterface(p, f, c.value, c.method)
    BY <1>2 DEF Traced
  <2> QED
    BY <2>1, <2>2, InterfaceCallResolved
<1> QED
  BY <1>1, <1>2

-----------------------------------------------------------------------------
LEMMA CallIsResolved ==
  ASSUME NEW p, Traceable(p), NEW f \in DOMAIN p.fns, NEW c \in Calls(p, f)
  PROVE  LET Reaches == CalleesGiven(p, Denotes(p), c) \cap DOMAIN p.fns
         IN  /\ EffectCallees(p, f, c) \cap DOMAIN p.fns = Reaches
             /\ EvidenceCallees(p, f, c) \cap DOMAIN p.fns = Reaches
<1> DEFINE s == StaticCallee(p, c)
           G == CalleesGiven(p, Denotes(p), c)
           F == DOMAIN p.fns
<1>1. WellFormed(p) /\ AllCollected(p) /\ ValuesClosed(p)
  BY DEF Traceable, WellFormed
<1>2. c \in Instrs(p, f) /\ c.op = "call"
  BY DEF Calls
<1>3. c.value \in DOMAIN p.values
  <2>1. c \in CallLike(p)
    BY <1>2 DEF CallLike, AllInstrs
  <2> QED
    BY <1>1, <2>1 DEF WellFormed, CallsClosed
<1>4. isLockCall(p, c) \/ isUnlockCall(p, c) <=> s \in MutexOperations
  BY DEF isLockCall, isUnlockCall, MutexOperations
<1>5. MutexOperations \cap F = {} /\ None \notin MutexOperations
  BY <1>1 DEF WellFormed, NamesApart
<1>6. CASE s # None
  <2>1. G = {s}
    BY <1>1, <1>3, <1>6, CalleesOfStatic
  <2>2. EvidenceCallees(p, f, c) = {s}
    BY <1>6 DEF EvidenceCallees
  <2>3. EffectCallees(p, f, c) = IF s \in MutexOperations THEN {} ELSE {s}
    BY <1>4, <1>6 DEF EffectCallees
  <2> HIDE DEF G, s
  <2> QED
    BY <1>5, <2>1, <2>2, <2>3 DEF G
<1>7. CASE s = None
  <2>1. Traced(p, f, c)
    BY <1>2, <1>7 DEF Traceable
  <2>2. /\ resolveDynamicCallTargets(p, f, c) = G
        /\ resolveFunctionFromValue(p, c.value) # None => G = {resolveFunctionFromValue(p, c.value)}
    BY <1>1, <1>3, <2>1, TracedCallResolved
  <2> HIDE DEF G
  <2>3. EvidenceCallees(p, f, c) = G
    BY <1>7, <2>2 DEF EvidenceCallees
  <2>4. EffectCallees(p, f, c) = G
    BY <1>4, <1>5, <1>7, <2>2 DEF EffectCallees
  <2> QED
    BY <2>3, <2>4 DEF G
<1> QED
  BY <1>6, <1>7

LEMMA DeferIsResolved ==
  ASSUME NEW p, Traceable(p), NEW c \in AllInstrs(p), c.op = "defer"
  PROVE  CalleesGiven(p, Denotes(p), c) \cap DOMAIN p.fns \subseteq DeferFrame(p, c).todo
<1> DEFINE G == CalleesGiven(p, Denotes(p), c)
           s == StaticCallee(p, c)
           F == DOMAIN p.fns
<1>1. WellFormed(p) /\ ValuesClosed(p)
  BY DEF Traceable, WellFormed
<1>2. c.method = None /\ OneFunction(p, c.value)
  <2>1. PICK f \in DOMAIN p.fns : c \in Instrs(p, f)
    BY DEF AllInstrs
  <2> QED
    BY <2>1 DEF Traceable
<1>3. c.value \in DOMAIN p.values
  <2>1. c \in CallLike(p)
    BY DEF CallLike
  <2> QED
    BY <1>1, <2>1 DEF WellFormed, CallsClosed
<1>4. CASE isLockCall(p, c) \/ isUnlockCall(p, c)
  <2>1. s \in MutexOperations
    BY <1>4 DEF isLockCall, isUnlockCall, MutexOperations
  <2>2. s # None /\ s \notin F
    BY <1>1, <2>1 DEF WellFormed, NamesApart
  <2>3. G = {s}
    BY <1>1, <1>3, <2>2, CalleesOfStatic
  <2> HIDE DEF G, s
  <2> QED
    BY <2>2, <2>3 DEF G
<1>5. CASE ~(isLockCall(p, c) \/ isUnlockCall(p, c))
  <2>1. G = FunctionsOf(p, c.value)
    BY <1>2 DEF CalleesGiven, FunctionsOf
  <2>2. G = Known({resolveFunctionFromValue(p, c.value)})
    BY <1>1, <1>2, <1>3, <2>1, OneFunctionFound
  <2>3. DeferFrame(p, c).todo = DeferredCallees(p, c) \cap F
    BY <1>5 DEF DeferFrame
  <2>4. Known({resolveFunctionFromValue(p, c.value)}) \subseteq DeferredCallees(p, c)
    BY DEF DeferredCallees, Known
  <2> HIDE DEF G
  <2> QED
    BY <2>2, <2>3, <2>4 DEF G
<1> QED
  BY <1>4, <1>5

(***************************************************************************)
(* In a traceable package, of whatever size, the targets that              *)
(* resolveDynamicCallTargets finds for a call without a static callee are  *)
(* the functions the call can reach when the package runs, no more and no  *)
(* fewer.                                                                  *)
(***************************************************************************)
THEOREM TargetsExactWhenTraceable == Spec => [](Traceable(prog) => TargetsExact)
<1>1. BodiesFixed => (Traceable(prog) => TargetsExact)
  <2> SUFFICES ASSUME BodiesFixed, Traceable(prog), task.mode = "effects",
                      NEW c \in Calls(prog, task.fn), StaticCallee(prog, c) = None
               PROVE  resolveDynamicCallTargets(prog, task.fn, c) = CalleesGiven(prog, Denotes(prog), c)
    BY DEF TargetsExact
  <2>1. task.fn \in DOMAIN prog.fns
    BY DEF BodiesFixed, Tasks
  <2>2. c \in Instrs(prog, task.fn) /\ c.op = "call"
    BY DEF Calls
  <2>3. WellFormed(prog) /\ AllCollected(prog) /\ Traced(prog, task.fn, c)
    BY <2>1, <2>2 DEF Traceable
  <2>4. c.value \in DOMAIN prog.values
    <3>1. c \in CallLike(prog)
      BY <2>1, <2>2 DEF CallLike, AllInstrs
    <3> QED
      BY <2>3, <3>1 DEF WellFormed, CallsClosed
  <2> QED
    BY <2>1, <2>3, <2>4, TracedCallResolved
<1> QED
  BY <1>1, AlwaysBodiesFixed, PTL

(***************************************************************************)
(* In a traceable package both searches enter, for every call statement,   *)
(* exactly the functions of the package it can reach, and the search from  *)
(* a defer statement at least those.                                       *)
(***************************************************************************)
THEOREM CallsResolvedWhenTraceable == Spec => [](Traceable(prog) => CallsResolved)
<1>1. Traceable(prog) => CallsResolved
  BY CallIsResolved, DeferIsResolved DEF CallsResolved
<1> QED
  BY <1>1, PTL

(***************************************************************************)
(* So in a traceable package the lock effects of functions, the evidence   *)
(* of the recursion heuristic and the effects of deferred calls are those  *)
(* of the functions a run can call.                                        *)
(***************************************************************************)
THEOREM ExactWhenTraceable ==
  Spec => [](Traceable(prog) => EffectsExact /\ EvidenceExact /\ DeferredEffectsCovered)
<1>1. Traceable(prog) => IsFiniteSet(DOMAIN prog.fns)
  BY DEF Traceable, WellFormed
<1> QED
  BY <1>1, CallsResolvedWhenTraceable, EffectsExactWhenResolved, EvidenceExactWhenResolved,
     DeferredCoveredWhenResolved, PTL

=============================================================================
