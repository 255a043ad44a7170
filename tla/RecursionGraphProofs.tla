------------------------- MODULE RecursionGraphProofs -------------------------
(***************************************************************************)
(* The correctness of Tarjan's search as buildRecursionGraph runs it, for  *)
(* any number of functions and any call graph.                             *)
(***************************************************************************)
EXTENDS RecursionGraph, FiniteSetTheorems, SequenceTheorems, TLAPS

Frames == [fn : Functions, at : Nat \ {0}]

TypeInv ==
  /\ graph \in [Functions -> Seq(Functions)]
  /\ selfRecursive = {f \in Functions : f \in CalleesOf(graph, f)}
  /\ frames \in Seq(Frames)
  /\ SeenFns \subseteq Functions /\ IsFiniteSet(SeenFns)
  /\ indices \in [SeenFns -> Nat] /\ lowlink \in [SeenFns -> Nat]
  /\ stack \in Seq(Functions)
  /\ componentByFn \in [Decided -> Nat]
  /\ nextComponentID \in Nat

StackInv ==
  /\ StackConsistent
  /\ Decided \subseteq SeenFns
  /\ \A f \in Decided : componentByFn[f] < nextComponentID
  /\ \A f \in SeenFns : indices[f] < Cardinality(SeenFns)
  /\ \A f, g \in SeenFns : indices[f] = indices[g] => f = g

(***************************************************************************)
(* The active functions are on the stack in the order of their discovery,  *)
(* and each is at its call of the next.                                    *)
(***************************************************************************)
FramesInv ==
  /\ \A k \in 1..Len(frames) :
       frames[k].fn \in onStack /\ frames[k].at <= Len(graph[frames[k].fn]) + 1
  /\ \A j, k \in 1..Len(frames) : j < k => indices[frames[j].fn] < indices[frames[k].fn]
  /\ \A k \in 1..Len(frames) - 1 :
       /\ frames[k].at <= Len(graph[frames[k].fn])
       /\ graph[frames[k].fn][frames[k].at] = frames[k + 1].fn

BaseInv == TypeInv /\ StackInv /\ FramesInv

-----------------------------------------------------------------------------
(***************************************************************************)
(* Calls lead on.                                                          *)
(***************************************************************************)
Leads(f, g) == f = g \/ Reaches(graph, f, g)

LEMMA CallReaches ==
  ASSUME NEW adj, NEW f, NEW g \in CalleesOf(adj, f)
  PROVE  Reaches(adj, f, g)
BY DEF Reaches

LEMMA ReachesTransitive ==
  ASSUME NEW adj, NEW f, NEW g, NEW h, Reaches(adj, f, g), Reaches(adj, g, h)
  PROVE  Reaches(adj, f, h)
<1> SUFFICES ASSUME NEW T \in SUBSET (Functions \ {h}), CalleesOf(adj, f) \subseteq T,
                    ClosedUnderCalls(adj, T)
             PROVE  FALSE
  BY DEF Reaches
<1>1. g \in T
  BY DEF Reaches
<1>2. CalleesOf(adj, g) \subseteq T
  BY <1>1 DEF ClosedUnderCalls
<1> QED
  BY <1>2 DEF Reaches

LEMMA LeadsTransitive ==
  ASSUME NEW f, NEW g, NEW h, Leads(f, g), Leads(g, h)
  PROVE  Leads(f, h)
BY ReachesTransitive DEF Leads

(***************************************************************************)
(* A property of f that calls hand on holds of what f leads to.            *)
(***************************************************************************)
LEMMA LeadsInside ==
  ASSUME NEW T \in SUBSET Functions, ClosedUnderCalls(graph, T), NEW f \in T, NEW g, Leads(f, g)
  PROVE  g \in T
BY DEF Leads, Reaches, ClosedUnderCalls

-----------------------------------------------------------------------------
(***************************************************************************)
(* The operators of the model.                                             *)
(***************************************************************************)
LEMMA SetMap ==
  ASSUME NEW m, NEW f, NEW n
  PROVE  /\ DOMAIN Set(m, f, n) = DOMAIN m \cup {f}
         /\ Set(m, f, n) = [g \in DOMAIN m \cup {f} |-> IF g = f THEN n ELSE m[g]]
         /\ \A g \in DOMAIN m \cup {f} : Set(m, f, n)[g] = IF g = f THEN n ELSE m[g]
BY DEF Set

LEMMA AdvancedFrames ==
  ASSUME NEW fs \in Seq(Frames)
  PROVE  /\ Advanced(fs) \in Seq(Frames) /\ Len(Advanced(fs)) = Len(fs)
         /\ \A k \in 1..Len(fs) :
              /\ Advanced(fs)[k].fn = fs[k].fn
              /\ Advanced(fs)[k].at = IF k = Len(fs) THEN fs[k].at + 1 ELSE fs[k].at
<1> DEFINE n == Len(fs)
<1>1. CASE fs = <<>>
  BY <1>1 DEF Advanced
<1>2. CASE fs # <<>>
  <2>1. n \in Nat \ {0} /\ fs[n] \in Frames
    BY <1>2
  <2> DEFINE e == [fs[n] EXCEPT !.at = @ + 1]
             t == [fs EXCEPT ![n] = e]
  <2>2. e \in Frames /\ e.fn = fs[n].fn /\ e.at = fs[n].at + 1
    BY <2>1 DEF Frames
  <2>3. Advanced(fs) = t
    BY <1>2 DEF Advanced
  <2>4. \A k \in 1..n : fs[k] \in Frames
    OBVIOUS
  <2> HIDE DEF e
  <2>5. t \in Seq(Frames) /\ Len(t) = n /\ \A k \in 1..n : t[k] = IF k = n THEN e ELSE fs[k]
    BY <2>1, <2>2, <2>4
  <2> QED
    BY <2>2, <2>3, <2>5
<1> QED
  BY <1>1, <1>2

LEMMA TopFrame ==
  ASSUME TypeInv, frames # <<>>
  PROVE  /\ Len(frames) \in Nat \ {0}
         /\ Top = frames[Len(frames)] /\ Top \in Frames
         /\ Fn = Top.fn /\ Fn \in Functions /\ graph[Fn] \in Seq(Functions)
<1>1. Len(frames) \in Nat \ {0} /\ Top = frames[Len(frames)] /\ Fn = Top.fn
  BY DEF TypeInv, Top, Fn
<1>2. Top \in Frames
  BY <1>1, ElementOfSeq DEF TypeInv
<1> QED
  BY <1>1, <1>2 DEF TypeInv, Frames

-----------------------------------------------------------------------------
(***************************************************************************)
(* What each step does.                                                    *)
(***************************************************************************)
LEMMA DiscoverEffect ==
  ASSUME BaseInv, NEW f \in Functions, Discover(f)
  PROVE  /\ Len(frames) \in Nat /\ frames' \in Seq(Frames) /\ Len(frames') = Len(frames) + 1
         /\ \A k \in 1..Len(frames) : frames'[k] = frames[k]
         /\ frames'[Len(frames) + 1].fn = f /\ frames'[Len(frames) + 1].at = 1
         /\ f \notin SeenFns /\ f \notin onStack
         /\ SeenFns' = SeenFns \cup {f} /\ onStack' = onStack \cup {f}
         /\ \A g \in SeenFns : indices'[g] = indices[g] /\ lowlink'[g] = lowlink[g]
         /\ indices'[f] = Cardinality(SeenFns) /\ lowlink'[f] = Cardinality(SeenFns)
         /\ \A g \in SeenFns : indices[g] < indices'[f]
         /\ UNCHANGED <<graph, componentByFn, nextComponentID, selfRecursive>>
<1> DEFINE e == [fn |-> f, at |-> 1]
<1>1. e \in Frames /\ frames' = Append(frames, e) /\ frames \in Seq(Frames) /\ e.fn = f /\ e.at = 1
  BY DEF Discover, BaseInv, TypeInv, Frames
<1> HIDE DEF e
<1>2. /\ Len(frames) \in Nat /\ frames' \in Seq(Frames) /\ Len(frames') = Len(frames) + 1
      /\ \A k \in 1..Len(frames) : frames'[k] = frames[k]
      /\ frames'[Len(frames) + 1] = e
  BY <1>1, AppendProperties
<1>3. f \notin SeenFns /\ onStack' = onStack \cup {f}
        /\ UNCHANGED <<graph, componentByFn, nextComponentID, selfRecursive>>
  BY DEF Discover
<1>4. f \notin onStack
  BY <1>3 DEF BaseInv, StackInv, StackConsistent
<1>5. /\ SeenFns' = SeenFns \cup {f}
      /\ \A g \in SeenFns : indices'[g] = indices[g] /\ lowlink'[g] = lowlink[g]
      /\ indices'[f] = Cardinality(SeenFns) /\ lowlink'[f] = Cardinality(SeenFns)
  <2>1. DOMAIN lowlink = SeenFns /\ DOMAIN indices = SeenFns
    BY DEF BaseInv, TypeInv, SeenFns
  <2>2. /\ indices' = Set(indices, f, Cardinality(SeenFns))
        /\ lowlink' = Set(lowlink, f, Cardinality(SeenFns))
    BY DEF Discover
  <2>3. SeenFns' = SeenFns \cup {f}
    BY <2>1, <2>2, SetMap DEF SeenFns
  <2>4. indices'[f] = Cardinality(SeenFns) /\ \A g \in SeenFns : indices'[g] = indices[g]
    BY <1>3, <2>1, <2>2 DEF Set
  <2>5. lowlink'[f] = Cardinality(SeenFns) /\ \A g \in SeenFns : lowlink'[g] = lowlink[g]
    BY <1>3, <2>1, <2>2 DEF Set
  <2> QED
    BY <2>3, <2>4, <2>5
<1>6. \A g \in SeenFns : indices[g] < indices'[f]
  BY <1>5 DEF BaseInv, StackInv
<1> QED
  BY <1>1, <1>2, <1>3, <1>4, <1>5, <1>6

LEMMA PassSeenEffect ==
  ASSUME BaseInv, PassSeen
  PROVE  /\ Len(frames) \in Nat \ {0} /\ Fn = frames[Len(frames)].fn /\ Fn \in onStack
         /\ frames[Len(frames)].at \in 1..Len(graph[Fn])
         /\ Callee = graph[Fn][frames[Len(frames)].at] /\ Callee \in SeenFns
         /\ frames' \in Seq(Frames) /\ Len(frames') = Len(frames)
         /\ \A k \in 1..Len(frames) :
              /\ frames'[k].fn = frames[k].fn
              /\ frames'[k].at = IF k = Len(frames) THEN frames[k].at + 1 ELSE frames[k].at
         /\ lowlink' \in [SeenFns -> Nat]
         /\ \A f \in SeenFns :
              lowlink'[f] = IF f = Fn /\ Callee \in onStack
                            THEN Lower(lowlink[Fn], indices[Callee])
                            ELSE lowlink[f]
         /\ UNCHANGED <<graph, componentByFn, indices, stack, onStack, nextComponentID, selfRecursive>>
         /\ SeenFns' = SeenFns
<1> DEFINE n == Len(frames)
<1>1. frames # <<>> /\ Callee \in SeenFns /\ Top.at <= Len(graph[Fn]) /\ frames' = Advanced(frames)
        /\ UNCHANGED <<graph, componentByFn, indices, stack, onStack, nextComponentID, selfRecursive>>
  BY DEF PassSeen, MoreCallees
<1>2. n \in Nat \ {0} /\ Fn = frames[n].fn /\ Top = frames[n] /\ Top \in Frames
        /\ graph[Fn] \in Seq(Functions)
  BY <1>1, TopFrame DEF BaseInv
<1>3. Fn \in onStack /\ Fn \in SeenFns
  BY <1>2 DEF BaseInv, FramesInv, StackInv, StackConsistent
<1>4. Top.at \in 1..Len(graph[Fn]) /\ Callee = graph[Fn][Top.at]
  BY <1>1, <1>2 DEF Frames, Callee
<1>5. /\ frames' \in Seq(Frames) /\ Len(frames') = n
      /\ \A k \in 1..n :
           /\ frames'[k].fn = frames[k].fn
           /\ frames'[k].at = IF k = n THEN frames[k].at + 1 ELSE frames[k].at
  BY <1>1, AdvancedFrames DEF BaseInv, TypeInv
<1>6. /\ lowlink' \in [SeenFns -> Nat]
      /\ \A f \in SeenFns :
           lowlink'[f] = IF f = Fn /\ Callee \in onStack
                         THEN Lower(lowlink[Fn], indices[Callee])
                         ELSE lowlink[f]
  <2>1. lowlink \in [SeenFns -> Nat] /\ indices \in [SeenFns -> Nat]
    BY DEF BaseInv, TypeInv
  <2>2. Lower(lowlink[Fn], indices[Callee]) \in Nat
    BY <1>1, <1>3, <2>1 DEF Lower
  <2>3. CASE Callee \in onStack
    <3>1. lowlink' = Set(lowlink, Fn, Lower(lowlink[Fn], indices[Callee]))
      BY <2>3 DEF PassSeen
    <3> QED
      BY <1>3, <2>1, <2>2, <2>3, <3>1 DEF Set
  <2>4. CASE Callee \notin onStack
    BY <2>1, <2>4 DEF PassSeen
  <2> QED
    BY <2>3, <2>4
<1> QED
  BY <1>1, <1>2, <1>3, <1>4, <1>5, <1>6 DEF SeenFns

(***************************************************************************)
(* A function that is left has looked at all its callees.                  *)
(***************************************************************************)
LEMMA ReturnEffect ==
  ASSUME BaseInv, frames # <<>>, ~MoreCallees, Return
  PROVE  /\ Len(frames) \in Nat \ {0} /\ Fn = frames[Len(frames)].fn /\ Fn \in onStack
         /\ frames[Len(frames)].at = Len(graph[Fn]) + 1
         /\ frames' \in Seq(Frames) /\ Len(frames') = Len(frames) - 1
         /\ \A k \in 1..Len(frames) - 1 :
              /\ frames'[k].fn = frames[k].fn
              /\ frames'[k].at = IF k = Len(frames) - 1 THEN frames[k].at + 1 ELSE frames[k].at
         /\ lowlink' \in [SeenFns -> Nat]
         /\ \A f \in SeenFns :
              lowlink'[f] = IF Len(frames) > 1 /\ f = frames[Len(frames) - 1].fn
                            THEN Lower(lowlink[f], lowlink[Fn])
                            ELSE lowlink[f]
         /\ UNCHANGED <<graph, indices, selfRecursive>>
         /\ SeenFns' = SeenFns
<1> DEFINE n == Len(frames)
           outer == SubSeq(frames, 1, n - 1)
<1>1. n \in Nat \ {0} /\ Fn = frames[n].fn /\ Top = frames[n] /\ Top \in Frames
        /\ graph[Fn] \in Seq(Functions)
  BY TopFrame DEF BaseInv
<1>2. Fn \in onStack /\ Fn \in SeenFns
  BY <1>1 DEF BaseInv, FramesInv, StackInv, StackConsistent
<1>3. Top.at = Len(graph[Fn]) + 1
  <2>1. Top.at <= Len(graph[Fn]) + 1 /\ ~(Top.at <= Len(graph[Fn]))
    BY <1>1 DEF BaseInv, FramesInv, MoreCallees
  <2> QED
    BY <1>1, <2>1 DEF Frames
<1>4. outer \in Seq(Frames) /\ Len(outer) = n - 1 /\ \A k \in 1..n - 1 : outer[k] = frames[k]
  <2>1. frames \in Seq(Frames)
    BY DEF BaseInv, TypeInv
  <2>2. CASE n = 1
    BY <2>1, <2>2
  <2>3. CASE n > 1
    BY <1>1, <2>1, <2>3
  <2>4. n = 1 \/ n > 1
    <3>1. n \in Nat \ {0}
      BY <1>1
    <3> HIDE DEF n
    <3> QED
      BY <3>1
  <2> QED
    BY <2>2, <2>3, <2>4
<1>5. frames' = Advanced(outer) /\ UNCHANGED <<graph, indices, selfRecursive>>
  BY DEF Return
<1>6. lowlink' = IF outer = <<>>
                 THEN lowlink
                 ELSE Set(lowlink, outer[Len(outer)].fn, Lower(lowlink[outer[Len(outer)].fn], lowlink[Fn]))
  BY DEF Return
<1> HIDE DEF outer
<1>7. /\ frames' \in Seq(Frames) /\ Len(frames') = n - 1
      /\ \A k \in 1..n - 1 :
           /\ frames'[k].fn = frames[k].fn
           /\ frames'[k].at = IF k = n - 1 THEN frames[k].at + 1 ELSE frames[k].at
  BY <1>4, <1>5, AdvancedFrames
<1>8. /\ lowlink' \in [SeenFns -> Nat]
      /\ \A f \in SeenFns :
           lowlink'[f] = IF n > 1 /\ f = frames[n - 1].fn
                         THEN Lower(lowlink[f], lowlink[Fn])
                         ELSE lowlink[f]
  <2>1. lowlink \in [SeenFns -> Nat]
    BY DEF BaseInv, TypeInv
  <2>2. CASE n = 1
    BY <1>4, <1>6, <2>1, <2>2
  <2>3. CASE n > 1
    <3> DEFINE h == frames[n - 1].fn
    <3>1. h \in SeenFns
      BY <1>1, <2>3 DEF BaseInv, FramesInv, StackInv, StackConsistent
    <3>2. lowlink' = Set(lowlink, h, Lower(lowlink[h], lowlink[Fn]))
      BY <1>1, <1>4, <1>6, <2>3
    <3>3. Lower(lowlink[h], lowlink[Fn]) \in Nat
      BY <1>2, <2>1, <3>1 DEF Lower
    <3> QED
      BY <2>1, <2>3, <3>1, <3>2, <3>3 DEF Set
  <2>4. n = 1 \/ n > 1
    <3>1. n \in Nat \ {0}
      BY <1>1
    <3> HIDE DEF n
    <3> QED
      BY <3>1
  <2> QED
    BY <2>2, <2>3, <2>4
<1> QED
  BY <1>1, <1>2, <1>3, <1>5, <1>7, <1>8 DEF SeenFns

(***************************************************************************)
(* The functions popped are those on the stack that were discovered after  *)
(* Fn, with Fn.                                                            *)
(***************************************************************************)
LEMMA PopEffect ==
  ASSUME BaseInv, PopComponent
  PROVE  /\ frames # <<>> /\ ~MoreCallees /\ Return /\ lowlink[Fn] = indices[Fn]
         /\ stack' \in Seq(Functions) /\ onStack' = {stack'[k] : k \in 1..Len(stack')}
         /\ \A j, k \in 1..Len(stack') : j < k => indices[stack'[j]] < indices[stack'[k]]
         /\ onStack' = {g \in onStack : indices[g] < indices[Fn]}
         /\ Decided' = Decided \cup {g \in onStack : indices[g] >= indices[Fn]}
         /\ \A f \in Decided' : componentByFn'[f] = IF f \in Decided THEN componentByFn[f] ELSE nextComponentID
         /\ componentByFn' \in [Decided' -> Nat]
         /\ nextComponentID' = nextComponentID + 1
<1>1. frames # <<>> /\ ~MoreCallees /\ Return /\ lowlink[Fn] = indices[Fn]
        /\ nextComponentID' = nextComponentID + 1
  BY DEF PopComponent
<1> DEFINE m == Len(stack)
<1>2. /\ stack \in Seq(Functions) /\ m \in Nat /\ onStack = {stack[j] : j \in 1..m}
      /\ \A j, k \in 1..m : j < k => indices[stack[j]] < indices[stack[k]]
      /\ \A j \in 1..m : indices[stack[j]] \in Nat
      /\ onStack \cap Decided = {} /\ componentByFn \in [Decided -> Nat] /\ nextComponentID \in Nat
      /\ \A g \in onStack : indices[g] \in Nat
  <2>1. /\ onStack = {stack[j] : j \in 1..m} /\ onStack = SeenFns \ Decided
        /\ \A j, k \in 1..m : j < k => indices[stack[j]] < indices[stack[k]]
    BY DEF BaseInv, StackInv, StackConsistent
  <2>2. /\ stack \in Seq(Functions) /\ indices \in [SeenFns -> Nat]
        /\ componentByFn \in [Decided -> Nat] /\ nextComponentID \in Nat
    BY DEF BaseInv, TypeInv
  <2> QED
    BY <2>1, <2>2
<1>3. PICK k \in 1..m :
        LET popped == {stack[j] : j \in k..m} IN
          /\ stack[k] = Fn
          /\ stack' = SubSeq(stack, 1, k - 1)
          /\ onStack' = onStack \ popped
          /\ componentByFn' =
               [f \in Decided \cup popped |-> IF f \in popped THEN nextComponentID ELSE componentByFn[f]]
  BY DEF PopComponent
<1> DEFINE popped == {stack[j] : j \in k..m}
<1>4. popped = {g \in onStack : indices[g] >= indices[Fn]}
  <2>1. \A j \in 1..m : j \in k..m <=> indices[stack[j]] >= indices[stack[k]]
    <3> SUFFICES ASSUME NEW j \in 1..m
                 PROVE  j \in k..m <=> indices[stack[j]] >= indices[stack[k]]
      OBVIOUS
    <3>1. CASE j < k
      BY <1>2, <3>1
    <3>2. CASE j = k
      BY <1>2, <3>2
    <3>3. CASE j > k
      BY <1>2, <3>3
    <3> QED
      BY <1>2, <3>1, <3>2, <3>3
  <2>2. \A j \in k..m : j \in 1..m
    BY <1>2
  <2> QED
    BY <1>2, <1>3, <2>1, <2>2
<1>5. onStack' = {g \in onStack : indices[g] < indices[Fn]}
  <2>1. onStack' = onStack \ popped /\ Fn \in onStack
    BY <1>2, <1>3
  <2> HIDE DEF popped
  <2> QED
    BY <1>2, <1>4, <2>1
<1>6. /\ stack' \in Seq(Functions) /\ Len(stack') = k - 1
      /\ \A j \in 1..k - 1 : stack'[j] = stack[j] /\ j \in 1..m
  BY <1>2, <1>3
<1>7. \A i, j \in 1..Len(stack') : i < j => indices[stack'[i]] < indices[stack'[j]]
  BY <1>2, <1>6
<1>8. onStack' = {stack'[j] : j \in 1..Len(stack')}
  <2>1. \A j \in 1..m : indices[stack[j]] < indices[stack[k]] <=> j \in 1..k - 1
    <3> SUFFICES ASSUME NEW j \in 1..m
                 PROVE  indices[stack[j]] < indices[stack[k]] <=> j \in 1..k - 1
      OBVIOUS
    <3>1. CASE j < k
      BY <1>2, <3>1
    <3>2. CASE j = k
      BY <1>2, <3>2
    <3>3. CASE j > k
      BY <1>2, <3>3
    <3> QED
      BY <1>2, <3>1, <3>2, <3>3
  <2>2. onStack' = {stack[j] : j \in 1..k - 1}
    <3>1. \A j \in 1..k - 1 : j \in 1..m
      BY <1>6
    <3>2. onStack = {stack[j] : j \in 1..m} /\ stack[k] = Fn
      BY <1>2, <1>3
    <3> QED
      BY <1>5, <2>1, <3>1, <3>2
  <2> QED
    BY <1>6, <2>2
<1>9. componentByFn' =
        [f \in Decided \cup popped |-> IF f \in popped THEN nextComponentID ELSE componentByFn[f]]
  BY <1>3
<1>10. Decided' = Decided \cup popped
  BY <1>9 DEF Decided
<1> HIDE DEF popped
<1>11. \A f \in Decided' : componentByFn'[f] = IF f \in Decided THEN componentByFn[f] ELSE nextComponentID
  BY <1>2, <1>4, <1>9, <1>10
<1>12. componentByFn' \in [Decided' -> Nat]
  BY <1>2, <1>9, <1>10
<1> QED
  BY <1>1, <1>4, <1>5, <1>6, <1>7, <1>8, <1>10, <1>11, <1>12

-----------------------------------------------------------------------------
(***************************************************************************)
(* The types and the stack are right in every state.                       *)
(***************************************************************************)
LEMMA InitBase == Init => BaseInv
<1> SUFFICES ASSUME Init
             PROVE  BaseInv
  OBVIOUS
<1>1. SeenFns = {} /\ Decided = {} /\ DOMAIN lowlink = {} /\ Len(frames) = 0 /\ Len(stack) = 0
  BY DEF Init, SeenFns, Decided
<1>2. TypeInv
  BY <1>1, CallGraphAssumption, FS_EmptySet DEF Init, TypeInv, SeenFns, Decided
<1>3. StackInv
  BY <1>1 DEF Init, StackInv, StackConsistent
<1>4. FramesInv
  BY <1>1 DEF FramesInv
<1> QED
  BY <1>2, <1>3, <1>4 DEF BaseInv

LEMMA DiscoverBase ==
  ASSUME BaseInv, NEW f \in Functions, Discover(f), frames = <<>> \/ (MoreCallees /\ f = Callee)
  PROVE  BaseInv'
<1> DEFINE n == Len(frames)
<1>1. /\ n \in Nat /\ Len(frames') = n + 1 /\ \A k \in 1..n : frames'[k] = frames[k]
      /\ frames'[n + 1].fn = f /\ frames'[n + 1].at = 1
      /\ SeenFns' = SeenFns \cup {f} /\ onStack' = onStack \cup {f} /\ f \notin SeenFns
      /\ \A g \in SeenFns : indices'[g] = indices[g]
      /\ \A g \in SeenFns : indices[g] < indices'[f]
      /\ indices'[f] = Cardinality(SeenFns)
      /\ UNCHANGED <<graph, componentByFn, nextComponentID>>
  BY DiscoverEffect
<1>2. /\ IsFiniteSet(SeenFns') /\ Cardinality(SeenFns) \in Nat
      /\ Cardinality(SeenFns') = Cardinality(SeenFns) + 1
  BY <1>1, FS_AddElement, FS_CardinalityType DEF BaseInv, TypeInv
<1>3. TypeInv'
  <2>1. indices' \in [SeenFns' -> Nat] /\ lowlink' \in [SeenFns' -> Nat]
    <3>1. DOMAIN lowlink = SeenFns /\ DOMAIN indices = SeenFns /\ lowlink \in [SeenFns -> Nat]
            /\ indices \in [SeenFns -> Nat]
      BY DEF BaseInv, TypeInv
    <3>2. /\ indices' = Set(indices, f, Cardinality(SeenFns))
          /\ lowlink' = Set(lowlink, f, Cardinality(SeenFns))
      BY DEF Discover
    <3> QED
      BY <1>1, <1>2, <3>1, <3>2 DEF Set
  <2>2. frames' \in Seq(Frames)
    BY DiscoverEffect
  <2>3. stack' \in Seq(Functions)
    BY DEF Discover, BaseInv, TypeInv
  <2>4. Decided' = Decided /\ UNCHANGED selfRecursive
    BY DEF Discover, Decided
  <2> QED
    BY <1>1, <1>2, <2>1, <2>2, <2>3, <2>4 DEF BaseInv, TypeInv
<1>4. StackInv'
  <2>1. Decided' = Decided
    BY <1>1 DEF Decided
  <2>2. /\ stack \in Seq(Functions) /\ Len(stack) \in Nat /\ Len(stack') = Len(stack) + 1
        /\ \A k \in 1..Len(stack) : stack'[k] = stack[k]
        /\ stack'[Len(stack) + 1] = f
    BY DEF Discover, BaseInv, TypeInv
  <2>3. /\ onStack = {stack[k] : k \in 1..Len(stack)} /\ onStack = SeenFns \ Decided
        /\ \A j, k \in 1..Len(stack) : j < k => indices[stack[j]] < indices[stack[k]]
        /\ \A k \in 1..Len(stack) : stack[k] \in SeenFns
        /\ Decided \subseteq SeenFns
    BY DEF BaseInv, StackInv, StackConsistent
  <2>4. \A j, k \in 1..Len(stack') : j < k => indices'[stack'[j]] < indices'[stack'[k]]
    <3> SUFFICES ASSUME NEW j \in 1..Len(stack'), NEW k \in 1..Len(stack'), j < k
                 PROVE  indices'[stack'[j]] < indices'[stack'[k]]
      OBVIOUS
    <3>1. j \in 1..Len(stack)
      BY <2>2
    <3>2. stack'[j] = stack[j] /\ stack[j] \in SeenFns
      BY <2>2, <2>3, <3>1
    <3>3. CASE k \in 1..Len(stack)
      BY <1>1, <2>2, <2>3, <3>1, <3>2, <3>3
    <3>4. CASE k = Len(stack) + 1
      BY <1>1, <2>2, <3>2, <3>4
    <3> QED
      BY <2>2, <3>3, <3>4
  <2>5. onStack' = {stack'[k] : k \in 1..Len(stack')}
    BY <1>1, <2>2, <2>3
  <2>6. onStack' = SeenFns' \ Decided' /\ Decided' \subseteq SeenFns'
    BY <1>1, <2>1, <2>3
  <2>7. /\ \A g \in SeenFns' : indices'[g] < Cardinality(SeenFns')
        /\ \A g, h \in SeenFns' : indices'[g] = indices'[h] => g = h
        /\ \A g \in Decided' : componentByFn'[g] < nextComponentID'
    <3>1. \A g \in SeenFns : indices[g] \in Nat /\ indices[g] < Cardinality(SeenFns)
      BY DEF BaseInv, TypeInv, StackInv
    <3>2. \A g, h \in SeenFns : indices[g] = indices[h] => g = h
      BY DEF BaseInv, StackInv
    <3>3. \A g \in Decided : componentByFn[g] < nextComponentID
      BY DEF BaseInv, StackInv
    <3> QED
      BY <1>1, <1>2, <2>1, <3>1, <3>2, <3>3
  <2> QED
    BY <2>4, <2>5, <2>6, <2>7 DEF StackInv, StackConsistent
<1>5. FramesInv'
  <2>1. /\ \A k \in 1..n : frames[k].fn \in onStack /\ frames[k].at <= Len(graph[frames[k].fn]) + 1
        /\ \A j, k \in 1..n : j < k => indices[frames[j].fn] < indices[frames[k].fn]
        /\ \A k \in 1..n - 1 : /\ frames[k].at <= Len(graph[frames[k].fn])
                               /\ graph[frames[k].fn][frames[k].at] = frames[k + 1].fn
        /\ \A k \in 1..n : frames[k].fn \in SeenFns
    BY DEF BaseInv, FramesInv, StackInv, StackConsistent
  <2>2. n > 0 => /\ frames[n].at <= Len(graph[frames[n].fn])
                 /\ graph[frames[n].fn][frames[n].at] = f
    BY DEF MoreCallees, Callee, Fn, Top
  <2>3. Len(graph[f]) \in Nat
    BY DEF BaseInv, TypeInv
  <2>4. \A k \in 1..n + 1 : frames'[k].fn \in onStack' /\ frames'[k].at <= Len(graph'[frames'[k].fn]) + 1
    <3> SUFFICES ASSUME NEW k \in 1..n + 1
                 PROVE  frames'[k].fn \in onStack' /\ frames'[k].at <= Len(graph'[frames'[k].fn]) + 1
      OBVIOUS
    <3>1. CASE k \in 1..n
      BY <1>1, <2>1, <3>1
    <3>2. CASE k = n + 1
      BY <1>1, <2>3, <3>2
    <3> QED
      BY <1>1, <3>1, <3>2
  <2>5. \A j, k \in 1..n + 1 : j < k => indices'[frames'[j].fn] < indices'[frames'[k].fn]
    <3> SUFFICES ASSUME NEW j \in 1..n + 1, NEW k \in 1..n + 1, j < k
                 PROVE  indices'[frames'[j].fn] < indices'[frames'[k].fn]
      OBVIOUS
    <3>1. j \in 1..n
      BY <1>1
    <3>2. frames'[j].fn = frames[j].fn /\ frames[j].fn \in SeenFns
      BY <1>1, <2>1, <3>1
    <3>3. CASE k \in 1..n
      BY <1>1, <2>1, <3>1, <3>2, <3>3
    <3>4. CASE k = n + 1
      BY <1>1, <3>2, <3>4
    <3> QED
      BY <1>1, <3>3, <3>4
  <2>6. \A k \in 1..n : /\ frames'[k].at <= Len(graph'[frames'[k].fn])
                        /\ graph'[frames'[k].fn][frames'[k].at] = frames'[k + 1].fn
    <3> SUFFICES ASSUME NEW k \in 1..n
                 PROVE  /\ frames'[k].at <= Len(graph'[frames'[k].fn])
                        /\ graph'[frames'[k].fn][frames'[k].at] = frames'[k + 1].fn
      OBVIOUS
    <3>1. frames'[k] = frames[k] /\ graph' = graph
      BY <1>1
    <3>2. CASE k = n
      BY <1>1, <2>2, <3>1, <3>2
    <3>3. CASE k # n
      <4>1. k \in 1..n - 1 /\ k + 1 \in 1..n
        BY <1>1, <3>3
      <4> QED
        BY <1>1, <2>1, <3>1, <4>1
    <3> QED
      BY <3>2, <3>3
  <2> QED
    BY <1>1, <2>4, <2>5, <2>6 DEF FramesInv
<1> QED
  BY <1>3, <1>4, <1>5 DEF BaseInv

LEMMA PassSeenBase ==
  ASSUME BaseInv, PassSeen
  PROVE  BaseInv'
<1> DEFINE n == Len(frames)
<1>1. /\ n \in Nat \ {0} /\ Fn = frames[n].fn /\ frames[n].at \in 1..Len(graph[Fn])
      /\ Len(frames') = n
      /\ \A k \in 1..n : /\ frames'[k].fn = frames[k].fn
                         /\ frames'[k].at = IF k = n THEN frames[k].at + 1 ELSE frames[k].at
      /\ UNCHANGED <<graph, componentByFn, indices, stack, onStack, nextComponentID, selfRecursive>>
      /\ SeenFns' = SeenFns
  BY PassSeenEffect
<1>2. Decided' = Decided
  BY <1>1 DEF Decided
<1>3. TypeInv'
  <2>1. frames' \in Seq(Frames) /\ lowlink' \in [SeenFns -> Nat]
    BY PassSeenEffect
  <2> QED
    BY <1>1, <1>2, <2>1 DEF BaseInv, TypeInv
<1>4. StackInv'
  BY <1>1, <1>2 DEF BaseInv, StackInv, StackConsistent
<1>5. FramesInv'
  <2>1. /\ \A k \in 1..n : frames[k].fn \in onStack /\ frames[k].at <= Len(graph[frames[k].fn]) + 1
        /\ \A j, k \in 1..n : j < k => indices[frames[j].fn] < indices[frames[k].fn]
        /\ \A k \in 1..n - 1 : /\ frames[k].at <= Len(graph[frames[k].fn])
                               /\ graph[frames[k].fn][frames[k].at] = frames[k + 1].fn
    BY DEF BaseInv, FramesInv
  <2>2. \A k \in 1..n : frames'[k].fn \in onStack' /\ frames'[k].at <= Len(graph'[frames'[k].fn]) + 1
    <3> SUFFICES ASSUME NEW k \in 1..n
                 PROVE  frames'[k].fn \in onStack' /\ frames'[k].at <= Len(graph'[frames'[k].fn]) + 1
      OBVIOUS
    <3>1. frames'[k].fn = frames[k].fn /\ frames[k].fn \in onStack' /\ graph' = graph
      BY <1>1, <2>1
    <3>2. CASE k = n
      <4>1. frames'[k].at = frames[n].at + 1 /\ frames[n].at \in Nat /\ frames[n].at <= Len(graph[Fn])
        BY <1>1, <3>2
      <4>2. Len(graph[Fn]) \in Nat
        BY TopFrame DEF BaseInv, PassSeen, MoreCallees
      <4> QED
        BY <1>1, <3>1, <3>2, <4>1, <4>2
    <3>3. CASE k # n
      BY <1>1, <2>1, <3>1, <3>3
    <3> QED
      BY <3>2, <3>3
  <2>3. \A k \in 1..n - 1 : /\ frames'[k].at <= Len(graph'[frames'[k].fn])
                            /\ graph'[frames'[k].fn][frames'[k].at] = frames'[k + 1].fn
    <3> SUFFICES ASSUME NEW k \in 1..n - 1
                 PROVE  /\ frames'[k].at <= Len(graph'[frames'[k].fn])
                        /\ graph'[frames'[k].fn][frames'[k].at] = frames'[k + 1].fn
      OBVIOUS
    <3>1. k \in 1..n /\ k + 1 \in 1..n /\ k # n
      BY <1>1
    <3>2. /\ frames'[k].fn = frames[k].fn /\ frames'[k].at = frames[k].at
          /\ frames'[k + 1].fn = frames[k + 1].fn
      BY <1>1, <3>1
    <3> QED
      BY <1>1, <2>1, <3>2
  <2> QED
    BY <1>1, <2>1, <2>2, <2>3 DEF FramesInv
<1> QED
  BY <1>3, <1>4, <1>5 DEF BaseInv

(***************************************************************************)
(* The frames of a return, if the callers stay on the stack.               *)
(***************************************************************************)
LEMMA ReturnFrames ==
  ASSUME BaseInv, frames # <<>>, ~MoreCallees, Return,
         \A k \in 1..Len(frames) - 1 : frames[k].fn \in onStack'
  PROVE  FramesInv'
<1> DEFINE n == Len(frames)
<1>1. /\ n \in Nat \ {0} /\ Len(frames') = n - 1
      /\ \A k \in 1..n - 1 : /\ frames'[k].fn = frames[k].fn
                             /\ frames'[k].at = IF k = n - 1 THEN frames[k].at + 1 ELSE frames[k].at
      /\ UNCHANGED <<graph, indices>>
  BY ReturnEffect
<1>2. /\ \A j, k \in 1..n : j < k => indices[frames[j].fn] < indices[frames[k].fn]
      /\ \A k \in 1..n - 1 : /\ frames[k].at <= Len(graph[frames[k].fn])
                             /\ graph[frames[k].fn][frames[k].at] = frames[k + 1].fn
  BY DEF BaseInv, FramesInv
<1>3. \A k \in 1..n : frames[k].at \in Nat /\ Len(graph[frames[k].fn]) \in Nat
  <2> SUFFICES ASSUME NEW k \in 1..n
               PROVE  frames[k].at \in Nat /\ Len(graph[frames[k].fn]) \in Nat
    OBVIOUS
  <2>1. frames[k] \in Frames
    BY ElementOfSeq DEF BaseInv, TypeInv
  <2>2. graph \in [Functions -> Seq(Functions)]
    BY DEF BaseInv, TypeInv
  <2> QED
    BY <2>1, <2>2 DEF Frames
<1>4. \A k \in 1..n - 1 : frames'[k].fn \in onStack' /\ frames'[k].at <= Len(graph'[frames'[k].fn]) + 1
  <2> SUFFICES ASSUME NEW k \in 1..n - 1
               PROVE  frames'[k].fn \in onStack' /\ frames'[k].at <= Len(graph'[frames'[k].fn]) + 1
    OBVIOUS
  <2>1. k \in 1..n
    BY <1>1
  <2>2. frames[k].at \in Nat /\ Len(graph[frames[k].fn]) \in Nat /\ frames[k].at <= Len(graph[frames[k].fn])
    BY <1>2, <1>3, <2>1
  <2>3. frames'[k].at = frames[k].at + 1 \/ frames'[k].at = frames[k].at
    BY <1>1
  <2>4. frames'[k].fn = frames[k].fn /\ frames[k].fn \in onStack' /\ graph' = graph
    BY <1>1
  <2> HIDE DEF n
  <2> QED
    BY <2>2, <2>3, <2>4
<1>5. \A k \in 1..n - 2 : /\ frames'[k].at <= Len(graph'[frames'[k].fn])
                          /\ graph'[frames'[k].fn][frames'[k].at] = frames'[k + 1].fn
  <2> SUFFICES ASSUME NEW k \in 1..n - 2
               PROVE  /\ frames'[k].at <= Len(graph'[frames'[k].fn])
                      /\ graph'[frames'[k].fn][frames'[k].at] = frames'[k + 1].fn
    OBVIOUS
  <2>1. k \in 1..n - 1 /\ k + 1 \in 1..n - 1 /\ k # n - 1
    BY <1>1
  <2>2. frames'[k].fn = frames[k].fn /\ frames'[k].at = frames[k].at /\ frames'[k + 1].fn = frames[k + 1].fn
    BY <1>1, <2>1
  <2> QED
    BY <1>1, <1>2, <2>1, <2>2
<1>6. \A j, k \in 1..n - 1 : j < k => indices'[frames'[j].fn] < indices'[frames'[k].fn]
  <2> SUFFICES ASSUME NEW j \in 1..n - 1, NEW k \in 1..n - 1, j < k
               PROVE  indices'[frames'[j].fn] < indices'[frames'[k].fn]
    OBVIOUS
  <2>1. j \in 1..n /\ k \in 1..n
    BY <1>1
  <2> QED
    BY <1>1, <1>2, <2>1
<1>7. Len(frames') - 1 = n - 2
  BY <1>1
<1> HIDE DEF n
<1> QED
  BY <1>1, <1>4, <1>5, <1>6, <1>7 DEF FramesInv

LEMMA ReturnInsideBase ==
  ASSUME BaseInv, ReturnInside
  PROVE  BaseInv'
<1>1. /\ frames # <<>> /\ ~MoreCallees /\ Return
      /\ UNCHANGED <<componentByFn, stack, onStack, nextComponentID>>
  BY DEF ReturnInside
<1>2. /\ frames' \in Seq(Frames) /\ lowlink' \in [SeenFns -> Nat]
      /\ UNCHANGED <<graph, indices, selfRecursive>> /\ SeenFns' = SeenFns
  BY <1>1, ReturnEffect
<1>3. Decided' = Decided
  BY <1>1 DEF Decided
<1>4. TypeInv'
  BY <1>1, <1>2, <1>3 DEF BaseInv, TypeInv
<1>5. StackInv'
  BY <1>1, <1>2, <1>3 DEF BaseInv, StackInv, StackConsistent
<1>6. FramesInv'
  BY <1>1, ReturnFrames DEF BaseInv, FramesInv
<1> QED
  BY <1>4, <1>5, <1>6 DEF BaseInv

LEMMA PopComponentBase ==
  ASSUME BaseInv, PopComponent
  PROVE  BaseInv'
<1> DEFINE n == Len(frames)
<1>1. /\ frames # <<>> /\ ~MoreCallees /\ Return
      /\ stack' \in Seq(Functions) /\ onStack' = {stack'[k] : k \in 1..Len(stack')}
      /\ \A j, k \in 1..Len(stack') : j < k => indices[stack'[j]] < indices[stack'[k]]
      /\ onStack' = {g \in onStack : indices[g] < indices[Fn]}
      /\ Decided' = Decided \cup {g \in onStack : indices[g] >= indices[Fn]}
      /\ \A f \in Decided' : componentByFn'[f] = IF f \in Decided THEN componentByFn[f] ELSE nextComponentID
      /\ componentByFn' \in [Decided' -> Nat]
      /\ nextComponentID' = nextComponentID + 1
  BY PopEffect
<1>2. /\ frames' \in Seq(Frames) /\ lowlink' \in [SeenFns -> Nat]
      /\ UNCHANGED <<graph, indices, selfRecursive>> /\ SeenFns' = SeenFns
      /\ n \in Nat \ {0} /\ Fn = frames[n].fn /\ Fn \in onStack
  BY <1>1, ReturnEffect
<1>3. TypeInv'
  BY <1>1, <1>2 DEF BaseInv, TypeInv
<1>4. StackInv'
  <2>1. onStack = SeenFns \ Decided /\ Decided \subseteq SeenFns /\ \A g \in SeenFns : indices[g] \in Nat
    BY DEF BaseInv, TypeInv, StackInv, StackConsistent
  <2>2. onStack' = SeenFns' \ Decided' /\ Decided' \subseteq SeenFns'
    <3>1. \A g \in onStack : indices[g] < indices[Fn] <=> ~(indices[g] >= indices[Fn])
      BY <1>2, <2>1
    <3> QED
      BY <1>1, <1>2, <2>1, <3>1
  <2>3. nextComponentID \in Nat /\ componentByFn \in [Decided -> Nat]
          /\ \A f \in Decided : componentByFn[f] < nextComponentID
    BY DEF BaseInv, TypeInv, StackInv
  <2>4. \A f \in Decided' : componentByFn'[f] < nextComponentID'
    BY <1>1, <2>3
  <2>5. StackConsistent'
    BY <1>1, <1>2, <2>2 DEF StackConsistent
  <2> QED
    BY <1>2, <2>2, <2>4, <2>5 DEF BaseInv, StackInv
<1>5. FramesInv'
  <2>1. \A k \in 1..n - 1 : frames[k].fn \in onStack'
    <3> SUFFICES ASSUME NEW k \in 1..n - 1
                 PROVE  frames[k].fn \in onStack'
      OBVIOUS
    <3>1. k \in 1..n /\ n \in 1..n /\ k < n
      BY <1>2
    <3>2. frames[k].fn \in onStack /\ indices[frames[k].fn] < indices[frames[n].fn]
      BY <3>1 DEF BaseInv, FramesInv
    <3> QED
      BY <1>1, <1>2, <3>2
  <2> QED
    BY <1>1, <2>1, ReturnFrames
<1> QED
  BY <1>3, <1>4, <1>5 DEF BaseInv

LEMMA StutterBase == BaseInv /\ UNCHANGED vars => BaseInv'
<1> SUFFICES ASSUME BaseInv, UNCHANGED vars
             PROVE  BaseInv'
  OBVIOUS
<1>1. /\ UNCHANGED <<graph, componentByFn, frames, indices, lowlink, stack, onStack,
                     nextComponentID, selfRecursive>>
      /\ SeenFns' = SeenFns /\ Decided' = Decided
  BY DEF vars, SeenFns, Decided
<1>2. TypeInv'
  BY <1>1 DEF BaseInv, TypeInv
<1>3. StackInv'
  BY <1>1 DEF BaseInv, StackInv, StackConsistent
<1>4. FramesInv'
  BY <1>1 DEF BaseInv, FramesInv
<1> QED
  BY <1>2, <1>3, <1>4 DEF BaseInv

(***************************************************************************)
(* The callee strongConnect is called for is a function.                   *)
(***************************************************************************)
LEMMA CalleeType ==
  ASSUME TypeInv, MoreCallees
  PROVE  Callee \in Functions
<1>1. Top \in Frames /\ graph[Fn] \in Seq(Functions)
  BY TopFrame DEF MoreCallees
<1>2. Top.at \in 1..Len(graph[Fn])
  BY <1>1 DEF MoreCallees, Frames
<1> QED
  BY <1>1, <1>2, ElementOfSeq DEF Callee

LEMMA BaseStep == BaseInv /\ [Next]_vars => BaseInv'
<1> SUFFICES ASSUME BaseInv, [Next]_vars
             PROVE  BaseInv'
  OBVIOUS
<1>1. ASSUME NEW f \in Functions, StartRoot(f)
      PROVE  BaseInv'
  BY <1>1, DiscoverBase DEF StartRoot
<1>2. CASE CallUnseen
  BY <1>2, CalleeType, DiscoverBase DEF CallUnseen, BaseInv
<1>3. CASE UNCHANGED vars
  BY <1>3, StutterBase
<1> QED
  BY <1>1, <1>2, <1>3, PassSeenBase, ReturnInsideBase, PopComponentBase DEF Next, Step, Terminating

LEMMA AlwaysBase == Spec => []BaseInv
BY InitBase, BaseStep, PTL DEF Spec

-----------------------------------------------------------------------------
(***************************************************************************)
(* The i-th callee of f has been looked at.                                *)
(***************************************************************************)
Processed(f, i) == \A k \in 1..Len(frames) : frames[k].fn = f => i < frames[k].at

CalleesInv ==
  \A f \in SeenFns : \A i \in 1..Len(graph[f]) :
    Processed(f, i) =>
      /\ graph[f][i] \in SeenFns
      /\ ((f \in onStack /\ graph[f][i] \in onStack) => lowlink[f] <= indices[graph[f][i]])

(***************************************************************************)
(* Components are numbered callees first.                                  *)
(***************************************************************************)
OrderInv ==
  \A f \in Decided : \A i \in 1..Len(graph[f]) :
    graph[f][i] \in Decided /\ componentByFn[graph[f][i]] <= componentByFn[f]

LinkInv ==
  \A f \in onStack :
    /\ lowlink[f] <= indices[f]
    /\ \E g \in onStack : indices[g] = lowlink[f] /\ Leads(f, g)

(***************************************************************************)
(* The functions discovered from the k-th active one, and not from the     *)
(* next, have no lower link than it has.                                   *)
(***************************************************************************)
InBranch(f, k) ==
  /\ indices[frames[k].fn] <= indices[f]
  /\ k < Len(frames) => indices[f] < indices[frames[k + 1].fn]

BranchInv ==
  \A k \in 1..Len(frames) : \A f \in onStack :
    InBranch(f, k) => lowlink[frames[k].fn] <= lowlink[f]

(***************************************************************************)
(* An active function leads to all that were discovered after it, and what *)
(* is on the stack leads to an active function discovered before it.       *)
(***************************************************************************)
ActiveLeads ==
  \A k \in 1..Len(frames) : \A f \in onStack :
    indices[frames[k].fn] <= indices[f] => Leads(frames[k].fn, f)

LeadsToActive ==
  \A f \in onStack :
    \E k \in 1..Len(frames) : indices[frames[k].fn] <= indices[f] /\ Leads(f, frames[k].fn)

CycleInv ==
  \A f, g \in Decided : componentByFn[f] = componentByFn[g] => Leads(f, g)

SearchInv ==
  CalleesInv /\ OrderInv /\ LinkInv /\ BranchInv /\ ActiveLeads /\ LeadsToActive /\ CycleInv

Inv == BaseInv /\ SearchInv

(***************************************************************************)
(* What the basic invariant says of the active functions and the links.    *)
(***************************************************************************)
LEMMA BaseFacts ==
  ASSUME BaseInv
  PROVE  /\ Len(frames) \in Nat
         /\ graph \in [Functions -> Seq(Functions)]
         /\ onStack \subseteq SeenFns /\ SeenFns \subseteq Functions /\ Decided \subseteq SeenFns
         /\ onStack = SeenFns \ Decided
         /\ \A f \in SeenFns : indices[f] \in Nat /\ lowlink[f] \in Nat /\ Len(graph[f]) \in Nat
         /\ \A k \in 1..Len(frames) : frames[k].fn \in onStack /\ frames[k].at \in Nat
         /\ \A j, k \in 1..Len(frames) : j < k => indices[frames[j].fn] < indices[frames[k].fn]
         /\ \A k \in 1..Len(frames) - 1 :
              /\ frames[k].at \in 1..Len(graph[frames[k].fn])
              /\ graph[frames[k].fn][frames[k].at] = frames[k + 1].fn
<1>1. /\ Len(frames) \in Nat /\ graph \in [Functions -> Seq(Functions)]
      /\ indices \in [SeenFns -> Nat] /\ lowlink \in [SeenFns -> Nat] /\ SeenFns \subseteq Functions
  BY DEF BaseInv, TypeInv
<1>2. /\ onStack \subseteq SeenFns /\ Decided \subseteq SeenFns /\ onStack = SeenFns \ Decided
  BY DEF BaseInv, StackInv, StackConsistent
<1>3. \A k \in 1..Len(frames) : frames[k] \in Frames
  BY ElementOfSeq DEF BaseInv, TypeInv
<1>4. \A k \in 1..Len(frames) : frames[k].fn \in onStack /\ frames[k].at \in Nat \ {0}
  BY <1>3 DEF BaseInv, FramesInv, Frames
<1>5. \A j, k \in 1..Len(frames) : j < k => indices[frames[j].fn] < indices[frames[k].fn]
  BY DEF BaseInv, FramesInv
<1>6. \A f \in SeenFns : indices[f] \in Nat /\ lowlink[f] \in Nat /\ Len(graph[f]) \in Nat
  BY <1>1
<1>7. \A k \in 1..Len(frames) - 1 :
        /\ frames[k].at \in 1..Len(graph[frames[k].fn])
        /\ graph[frames[k].fn][frames[k].at] = frames[k + 1].fn
  <2> SUFFICES ASSUME NEW k \in 1..Len(frames) - 1
               PROVE  /\ frames[k].at \in 1..Len(graph[frames[k].fn])
                      /\ graph[frames[k].fn][frames[k].at] = frames[k + 1].fn
    OBVIOUS
  <2>1. k \in 1..Len(frames)
    BY <1>1
  <2>2. frames[k].at \in Nat \ {0} /\ Len(graph[frames[k].fn]) \in Nat
    BY <1>2, <1>4, <1>6, <2>1
  <2>3. /\ frames[k].at <= Len(graph[frames[k].fn])
        /\ graph[frames[k].fn][frames[k].at] = frames[k + 1].fn
    BY DEF BaseInv, FramesInv
  <2> QED
    BY <2>2, <2>3
<1> QED
  BY <1>1, <1>2, <1>4, <1>5, <1>6, <1>7

LEMMA InitSearch == Init => SearchInv
<1> SUFFICES ASSUME Init
             PROVE  SearchInv
  OBVIOUS
<1>1. SeenFns = {} /\ Decided = {} /\ Len(frames) = 0 /\ onStack = {}
  BY DEF Init, SeenFns, Decided
<1> QED
  BY <1>1 DEF SearchInv, CalleesInv, OrderInv, LinkInv, BranchInv, ActiveLeads, LeadsToActive, CycleInv

LEMMA LeadsUnchanged ==
  ASSUME graph' = graph, NEW f, NEW g
  PROVE  Leads(f, g)' <=> Leads(f, g)
BY DEF Leads

LEMMA StutterSearch == SearchInv /\ UNCHANGED vars => SearchInv'
<1> SUFFICES ASSUME SearchInv, UNCHANGED vars
             PROVE  SearchInv'
  OBVIOUS
<1>1. /\ UNCHANGED <<graph, componentByFn, frames, indices, lowlink, stack, onStack>>
      /\ SeenFns' = SeenFns /\ Decided' = Decided
  BY DEF vars, SeenFns, Decided
<1>2. CalleesInv' /\ OrderInv'
  BY <1>1 DEF SearchInv, CalleesInv, OrderInv, Processed
<1>3. LinkInv' /\ BranchInv'
  BY <1>1, LeadsUnchanged DEF SearchInv, LinkInv, BranchInv, InBranch
<1>4. ActiveLeads' /\ LeadsToActive' /\ CycleInv'
  BY <1>1, LeadsUnchanged DEF SearchInv, ActiveLeads, LeadsToActive, CycleInv
<1> QED
  BY <1>2, <1>3, <1>4 DEF SearchInv

-----------------------------------------------------------------------------
(***************************************************************************)
(* A function called for the first time has the highest index, and every   *)
(* active function leads to it.                                            *)
(***************************************************************************)
LEMMA DiscoverSearch ==
  ASSUME BaseInv, SearchInv, NEW f \in Functions, Discover(f),
         frames = <<>> \/ (MoreCallees /\ f = Callee)
  PROVE  SearchInv'
<1> DEFINE n == Len(frames)
<1>1. /\ n \in Nat /\ Len(frames') = n + 1 /\ \A k \in 1..n : frames'[k] = frames[k]
      /\ frames'[n + 1].fn = f /\ frames'[n + 1].at = 1
      /\ f \notin SeenFns
      /\ SeenFns' = SeenFns \cup {f} /\ onStack' = onStack \cup {f}
      /\ \A g \in SeenFns : indices'[g] = indices[g] /\ lowlink'[g] = lowlink[g]
      /\ indices'[f] = lowlink'[f]
      /\ \A g \in SeenFns : indices[g] < indices'[f]
      /\ graph' = graph /\ componentByFn' = componentByFn
  BY DiscoverEffect
<1>2. /\ onStack \subseteq SeenFns /\ Decided \subseteq SeenFns
      /\ \A g \in SeenFns : indices[g] \in Nat /\ lowlink[g] \in Nat /\ Len(graph[g]) \in Nat
      /\ \A k \in 1..n : frames[k].fn \in onStack
      /\ \A j, k \in 1..n : j < k => indices[frames[j].fn] < indices[frames[k].fn]
  BY BaseFacts
<1>3. indices'[f] \in Nat
  BY DiscoverEffect, FS_CardinalityType DEF BaseInv, TypeInv
<1>4. Decided' = Decided
  BY <1>1 DEF Decided
<1>5. \A k \in 1..n : k \in 1..n + 1
  BY <1>1
<1>6. \A k \in 1..n + 1 : k \in 1..n \/ k = n + 1
  BY <1>1
<1>7. \A g, h : Leads(g, h)' <=> Leads(g, h)
  BY <1>1, LeadsUnchanged
<1>8. n > 0 => n \in 1..n /\ Reaches(graph, frames[n].fn, f)
  <2> SUFFICES ASSUME n > 0
               PROVE  n \in 1..n /\ Reaches(graph, frames[n].fn, f)
    OBVIOUS
  <2>1. n \in 1..n /\ frames # <<>> /\ MoreCallees /\ f = Callee
    BY <1>1
  <2>2. Top = frames[n] /\ Fn = frames[n].fn /\ Top \in Frames /\ graph[Fn] \in Seq(Functions)
    BY <2>1, TopFrame DEF BaseInv
  <2>3. Top.at \in 1..Len(graph[Fn])
    BY <2>1, <2>2 DEF MoreCallees, Frames
  <2>4. f \in CalleesOf(graph, Fn)
    BY <2>1, <2>3 DEF CalleesOf, Callee
  <2> QED
    BY <2>1, <2>2, <2>4, CallReaches
<1> HIDE DEF n
<1>9. CalleesInv'
  <2> SUFFICES ASSUME NEW g \in SeenFns', NEW i \in 1..Len(graph[g]), Processed(g, i)'
               PROVE  /\ graph[g][i] \in SeenFns'
                      /\ ((g \in onStack' /\ graph[g][i] \in onStack') => lowlink'[g] <= indices'[graph[g][i]])
    BY <1>1 DEF CalleesInv
  <2>1. g # f
    <3>1. frames'[n + 1].fn = g => i < frames'[n + 1].at
      BY <1>1 DEF Processed
    <3> QED
      BY <1>1, <3>1
  <2>2. g \in SeenFns /\ Processed(g, i)
    BY <1>1, <1>5, <2>1 DEF Processed, n
  <2>3. /\ graph[g][i] \in SeenFns
        /\ ((g \in onStack /\ graph[g][i] \in onStack) => lowlink[g] <= indices[graph[g][i]])
    BY <2>2 DEF SearchInv, CalleesInv
  <2> QED
    BY <1>1, <2>1, <2>2, <2>3
<1>10. OrderInv'
  BY <1>1, <1>4 DEF SearchInv, OrderInv
<1>11. LinkInv'
  <2> SUFFICES ASSUME NEW g \in onStack'
               PROVE  /\ lowlink'[g] <= indices'[g]
                      /\ \E h \in onStack' : indices'[h] = lowlink'[g] /\ Leads(g, h)
    BY <1>7 DEF LinkInv
  <2>1. CASE g = f
    BY <1>1, <1>3, <2>1 DEF Leads
  <2>2. CASE g \in onStack
    BY <1>1, <1>2, <2>2 DEF SearchInv, LinkInv
  <2> QED
    BY <1>1, <2>1, <2>2
<1>12. BranchInv'
  <2> SUFFICES ASSUME NEW k \in 1..n + 1, NEW g \in onStack', InBranch(g, k)'
               PROVE  lowlink'[frames'[k].fn] <= lowlink'[g]
    BY <1>1 DEF BranchInv
  <2>1. CASE k = n + 1
    <3>1. indices'[f] <= indices'[g]
      BY <1>1, <2>1 DEF InBranch
    <3>2. g = f
      BY <1>1, <1>2, <1>3, <3>1
    <3> QED
      BY <1>1, <1>3, <2>1, <3>2
  <2>2. CASE k \in 1..n
    <3>1. k < n + 1 /\ (k < n => k + 1 \in 1..n)
      BY <1>1, <2>2
    <3>2. /\ indices'[frames[k].fn] <= indices'[g]
          /\ indices'[g] < indices'[frames'[k + 1].fn]
      BY <1>1, <2>2, <3>1 DEF InBranch
    <3>3. g # f
      <4>1. CASE k = n
        BY <1>1, <1>3, <3>2, <4>1
      <4>2. CASE k + 1 \in 1..n
        BY <1>1, <1>2, <1>3, <3>2, <4>2
      <4> QED
        BY <1>1, <2>2, <3>1, <4>1, <4>2
    <3>4. g \in onStack /\ g \in SeenFns
      BY <1>1, <1>2, <3>3
    <3>5. InBranch(g, k)
      BY <1>1, <1>2, <2>2, <3>1, <3>2, <3>4 DEF InBranch, n
    <3>6. lowlink[frames[k].fn] <= lowlink[g]
      BY <2>2, <3>4, <3>5 DEF SearchInv, BranchInv, n
    <3> QED
      BY <1>1, <1>2, <2>2, <3>4, <3>6
  <2> QED
    BY <1>6, <2>1, <2>2
<1>13. ActiveLeads'
  <2> SUFFICES ASSUME NEW k \in 1..n + 1, NEW g \in onStack', indices'[frames'[k].fn] <= indices'[g]
               PROVE  Leads(frames'[k].fn, g)
    BY <1>1, <1>7 DEF ActiveLeads
  <2>1. CASE k = n + 1
    <3>1. g = f
      BY <1>1, <1>2, <1>3, <2>1
    <3> QED
      BY <1>1, <2>1, <3>1 DEF Leads
  <2>2. CASE k \in 1..n /\ g \in onStack
    BY <1>1, <1>2, <2>2 DEF SearchInv, ActiveLeads, n
  <2>3. CASE k \in 1..n /\ g = f
    <3>1. n > 0 /\ n \in 1..n /\ (k = n \/ k < n)
      BY <1>1, <2>3
    <3>2. frames[k].fn \in SeenFns /\ frames[n].fn \in onStack /\ frames[n].fn \in SeenFns
      BY <1>2, <2>3, <3>1
    <3>3. indices[frames[k].fn] <= indices[frames[n].fn]
      BY <1>2, <2>3, <3>1, <3>2
    <3>4. Leads(frames[k].fn, frames[n].fn)
      BY <2>3, <3>2, <3>3 DEF SearchInv, ActiveLeads, n
    <3>5. Leads(frames[n].fn, f)
      BY <1>8, <3>1 DEF Leads
    <3> QED
      BY <1>1, <2>3, <3>4, <3>5, LeadsTransitive
  <2> QED
    BY <1>1, <1>6, <2>1, <2>2, <2>3
<1>14. LeadsToActive'
  <2> SUFFICES ASSUME NEW g \in onStack'
               PROVE  \E k \in 1..n + 1 : indices'[frames'[k].fn] <= indices'[g] /\ Leads(g, frames'[k].fn)
    BY <1>1, <1>7 DEF LeadsToActive
  <2>1. CASE g = f
    <3>1. n + 1 \in 1..n + 1
      BY <1>1
    <3> QED
      BY <1>1, <1>3, <2>1, <3>1 DEF Leads
  <2>2. CASE g \in onStack
    <3>1. PICK k \in 1..n : indices[frames[k].fn] <= indices[g] /\ Leads(g, frames[k].fn)
      BY <2>2 DEF SearchInv, LeadsToActive, n
    <3>2. k \in 1..n + 1 /\ frames'[k].fn = frames[k].fn /\ frames[k].fn \in SeenFns
      BY <1>1, <1>2, <1>5
    <3> QED
      BY <1>1, <1>2, <2>2, <3>1, <3>2
  <2> QED
    BY <1>1, <2>1, <2>2
<1>15. CycleInv'
  BY <1>1, <1>4, <1>7 DEF SearchInv, CycleInv
<1> QED
  BY <1>9, <1>10, <1>11, <1>12, <1>13, <1>14, <1>15 DEF SearchInv

(***************************************************************************)
(* A callee that is on the stack lowers the link, which is what processing *)
(* it asks for; the link stays the index of a function that can be reached.*)
(***************************************************************************)
LEMMA PassSeenSearch ==
  ASSUME BaseInv, SearchInv, PassSeen
  PROVE  SearchInv'
<1> DEFINE n == Len(frames)
<1>1. /\ n \in Nat \ {0} /\ Fn = frames[n].fn /\ Fn \in onStack
      /\ frames[n].at \in 1..Len(graph[Fn])
      /\ Callee = graph[Fn][frames[n].at] /\ Callee \in SeenFns
      /\ Len(frames') = n
      /\ \A k \in 1..n :
           /\ frames'[k].fn = frames[k].fn
           /\ frames'[k].at = IF k = n THEN frames[k].at + 1 ELSE frames[k].at
      /\ \A f \in SeenFns :
           lowlink'[f] = IF f = Fn /\ Callee \in onStack
                         THEN Lower(lowlink[Fn], indices[Callee])
                         ELSE lowlink[f]
      /\ UNCHANGED <<graph, componentByFn, indices, onStack>>
      /\ SeenFns' = SeenFns
  BY PassSeenEffect
<1>2. /\ onStack \subseteq SeenFns
      /\ \A g \in SeenFns : indices[g] \in Nat /\ lowlink[g] \in Nat
      /\ \A k \in 1..n : frames[k].fn \in onStack
      /\ \A j, k \in 1..n : j < k => indices[frames[j].fn] < indices[frames[k].fn]
  BY BaseFacts
<1>3. Decided' = Decided
  BY <1>1 DEF Decided
<1>4. \A g, h : Leads(g, h)' <=> Leads(g, h)
  BY <1>1, LeadsUnchanged
<1>5. \A f \in SeenFns : lowlink'[f] <= lowlink[f] /\ (f # Fn => lowlink'[f] = lowlink[f])
  BY <1>1, <1>2 DEF Lower
<1>6. n \in 1..n
  BY <1>1
<1> HIDE DEF n
<1>7. CalleesInv'
  <2> SUFFICES ASSUME NEW f \in SeenFns, NEW i \in 1..Len(graph[f]), Processed(f, i)'
               PROVE  /\ graph[f][i] \in SeenFns
                      /\ ((f \in onStack /\ graph[f][i] \in onStack) => lowlink'[f] <= indices[graph[f][i]])
    BY <1>1 DEF CalleesInv
  <2>1. CASE f = Fn /\ i = frames[n].at
    <3>1. graph[f][i] = Callee
      BY <1>1, <2>1
    <3>2. lowlink[Fn] \in Nat /\ indices[Callee] \in Nat
      BY <1>1, <1>2
    <3>3. Lower(lowlink[Fn], indices[Callee]) <= indices[Callee]
      BY <3>2 DEF Lower
    <3>4. Callee \in onStack => lowlink'[f] = Lower(lowlink[Fn], indices[Callee])
      BY <1>1, <2>1
    <3> QED
      BY <1>1, <3>1, <3>3, <3>4
  <2>2. CASE f # Fn \/ i # frames[n].at
    <3>1. Processed(f, i)
      <4> SUFFICES ASSUME NEW k \in 1..n, frames[k].fn = f
                   PROVE  i < frames[k].at
        BY DEF Processed, n
      <4>1. i < frames'[k].at
        BY <1>1 DEF Processed
      <4>2. CASE k = n
        BY <1>1, <2>2, <4>1, <4>2
      <4>3. CASE k # n
        BY <1>1, <4>1, <4>3
      <4> QED
        BY <4>2, <4>3
    <3>2. /\ graph[f][i] \in SeenFns
          /\ ((f \in onStack /\ graph[f][i] \in onStack) => lowlink[f] <= indices[graph[f][i]])
      BY <3>1 DEF SearchInv, CalleesInv
    <3>3. lowlink[f] \in Nat /\ lowlink'[f] \in Nat /\ indices[graph[f][i]] \in Nat
      BY <1>1, <1>2, <3>2 DEF Lower
    <3> QED
      BY <1>5, <3>2, <3>3
  <2> QED
    BY <2>1, <2>2
<1>8. OrderInv'
  BY <1>1, <1>3 DEF SearchInv, OrderInv
<1>9. LinkInv'
  <2> SUFFICES ASSUME NEW f \in onStack
               PROVE  /\ lowlink'[f] <= indices[f]
                      /\ \E g \in onStack : indices[g] = lowlink'[f] /\ Leads(f, g)
    BY <1>1, <1>4 DEF LinkInv
  <2>1. lowlink[f] <= indices[f] /\ \E g \in onStack : indices[g] = lowlink[f] /\ Leads(f, g)
    BY DEF SearchInv, LinkInv
  <2>2. f \in SeenFns /\ lowlink[f] \in Nat /\ indices[f] \in Nat
    BY <1>2
  <2>3. CASE lowlink'[f] = lowlink[f]
    BY <2>1, <2>3
  <2>4. CASE lowlink'[f] # lowlink[f]
    <3>1. f = Fn /\ Callee \in onStack /\ lowlink'[f] = indices[Callee] /\ indices[Callee] < lowlink[f]
      BY <1>1, <1>2, <2>2, <2>4 DEF Lower
    <3>2. Leads(Fn, Callee)
      BY <1>1, CallReaches DEF Leads, CalleesOf
    <3>3. Leads(f, Callee)
      BY <3>1, <3>2
    <3>4. lowlink'[f] <= indices[f]
      <4>1. indices[Callee] \in Nat
        BY <1>1, <1>2
      <4> QED
        BY <2>1, <2>2, <3>1, <4>1
    <3> QED
      BY <3>1, <3>3, <3>4
  <2> QED
    BY <2>3, <2>4
<1>10. BranchInv'
  <2> SUFFICES ASSUME NEW k \in 1..n, NEW f \in onStack, InBranch(f, k)'
               PROVE  lowlink'[frames[k].fn] <= lowlink'[f]
    BY <1>1 DEF BranchInv
  <2>1. k < n => k + 1 \in 1..n
    BY <1>1
  <2>2. /\ indices[frames[k].fn] <= indices[f]
        /\ k < n => indices[f] < indices[frames[k + 1].fn]
    BY <1>1, <2>1 DEF InBranch
  <2>3. lowlink[frames[k].fn] <= lowlink[f]
    BY <2>2 DEF SearchInv, BranchInv, InBranch, n
  <2>4. f \in SeenFns /\ frames[k].fn \in SeenFns
    BY <1>2
  <2>5. CASE f = Fn
    <3>1. k = n
      <4>1. ~(k < n)
        <5> SUFFICES ASSUME k < n
                     PROVE  FALSE
          OBVIOUS
        <5>1. indices[frames[k + 1].fn] <= indices[frames[n].fn]
          <6>1. k + 1 = n \/ k + 1 < n
            BY <1>1
          <6> QED
            BY <1>2, <1>6, <2>1, <6>1
        <5> QED
          BY <1>1, <1>2, <1>6, <2>1, <2>2, <2>5, <5>1
      <4> QED
        BY <1>1, <4>1
    <3> QED
      BY <1>1, <1>2, <2>4, <2>5, <3>1 DEF Lower
  <2>6. CASE f # Fn
    <3>1. lowlink'[f] = lowlink[f] /\ lowlink'[frames[k].fn] <= lowlink[frames[k].fn]
      BY <1>5, <2>4, <2>6
    <3>2. lowlink'[frames[k].fn] \in Nat
      BY <1>1, <1>2, <2>4 DEF Lower
    <3> QED
      BY <1>2, <2>3, <2>4, <3>1, <3>2
  <2> QED
    BY <2>5, <2>6
<1>11. ActiveLeads'
  BY <1>1, <1>4 DEF SearchInv, ActiveLeads, n
<1>12. LeadsToActive'
  BY <1>1, <1>4 DEF SearchInv, LeadsToActive, n
<1>13. CycleInv'
  BY <1>1, <1>3, <1>4 DEF SearchInv, CycleInv
<1> QED
  BY <1>7, <1>8, <1>9, <1>10, <1>11, <1>12, <1>13 DEF SearchInv

(***************************************************************************)
(* A return joins the branch of the function left to the branch of its     *)
(* caller, which takes over the lower link of the two.                     *)
(***************************************************************************)
LEMMA ReturnSearch ==
  ASSUME BaseInv, SearchInv, frames # <<>>, ~MoreCallees, Return, onStack' \subseteq onStack
  PROVE  CalleesInv' /\ BranchInv' /\ ActiveLeads'
<1> DEFINE n == Len(frames)
<1>1. /\ n \in Nat \ {0} /\ Fn = frames[n].fn /\ Fn \in onStack
      /\ frames[n].at = Len(graph[Fn]) + 1
      /\ Len(frames') = n - 1
      /\ \A k \in 1..n - 1 :
           /\ frames'[k].fn = frames[k].fn
           /\ frames'[k].at = IF k = n - 1 THEN frames[k].at + 1 ELSE frames[k].at
      /\ \A f \in SeenFns :
           lowlink'[f] = IF n > 1 /\ f = frames[n - 1].fn
                         THEN Lower(lowlink[f], lowlink[Fn])
                         ELSE lowlink[f]
      /\ graph' = graph /\ indices' = indices /\ SeenFns' = SeenFns
  BY ReturnEffect
<1>2. /\ onStack \subseteq SeenFns
      /\ \A g \in SeenFns : indices[g] \in Nat /\ lowlink[g] \in Nat /\ Len(graph[g]) \in Nat
      /\ \A k \in 1..n : frames[k].fn \in onStack /\ frames[k].at \in Nat
      /\ \A j, k \in 1..n : j < k => indices[frames[j].fn] < indices[frames[k].fn]
      /\ \A k \in 1..n - 1 : /\ frames[k].at \in 1..Len(graph[frames[k].fn])
                             /\ graph[frames[k].fn][frames[k].at] = frames[k + 1].fn
  BY BaseFacts
<1>3. \A k \in 1..n - 1 : k \in 1..n /\ k + 1 \in 1..n /\ k < n /\ n > 1
  BY <1>1
<1>4. n \in 1..n /\ \A k \in 1..n : k = n \/ k \in 1..n - 1
  BY <1>1
<1>5. Fn \in SeenFns /\ lowlink[Fn] <= indices[Fn]
  BY <1>1, <1>2 DEF SearchInv, LinkInv
<1>6. \A f \in SeenFns : lowlink'[f] \in Nat /\ lowlink'[f] <= lowlink[f]
  BY <1>1, <1>2, <1>5 DEF Lower
<1>7. n > 1 => /\ n - 1 \in 1..n - 1
               /\ lowlink'[frames[n - 1].fn] <= lowlink[Fn]
  <2> SUFFICES ASSUME n > 1
               PROVE  n - 1 \in 1..n - 1 /\ lowlink'[frames[n - 1].fn] <= lowlink[Fn]
    OBVIOUS
  <2>1. n - 1 \in 1..n - 1
    BY <1>1
  <2>2. frames[n - 1].fn \in SeenFns
    BY <1>2, <1>3, <2>1
  <2>3. lowlink'[frames[n - 1].fn] = Lower(lowlink[frames[n - 1].fn], lowlink[Fn])
    BY <1>1, <2>2
  <2> QED
    BY <1>2, <1>5, <2>1, <2>2, <2>3 DEF Lower
<1>8. \A g, h : Leads(g, h)' <=> Leads(g, h)
  BY <1>1, LeadsUnchanged
<1> HIDE DEF n
<1>9. CalleesInv'
  <2> SUFFICES ASSUME NEW f \in SeenFns, NEW i \in 1..Len(graph[f]), Processed(f, i)'
               PROVE  /\ graph[f][i] \in SeenFns
                      /\ ((f \in onStack' /\ graph[f][i] \in onStack') => lowlink'[f] <= indices[graph[f][i]])
    BY <1>1 DEF CalleesInv
  <2>1. CASE n > 1 /\ f = frames[n - 1].fn /\ i = frames[n - 1].at
    <3>1. (n - 1) + 1 = n
      BY <1>1
    <3>2. graph[f][i] = Fn
      BY <1>1, <1>2, <1>7, <2>1, <3>1
    <3>3. lowlink'[f] <= lowlink[Fn] /\ lowlink'[f] \in Nat
      BY <1>6, <1>7, <2>1
    <3>4. lowlink'[f] <= indices[Fn]
      BY <1>2, <1>5, <3>3
    <3> QED
      BY <1>5, <3>2, <3>4
  <2>2. CASE ~(n > 1 /\ f = frames[n - 1].fn /\ i = frames[n - 1].at)
    <3>1. Processed(f, i)
      <4> SUFFICES ASSUME NEW k \in 1..n, frames[k].fn = f
                   PROVE  i < frames[k].at
        BY DEF Processed, n
      <4>1. CASE k = n
        BY <1>1, <1>2, <4>1
      <4>2. CASE k \in 1..n - 1
        <5>1. i < frames'[k].at
          BY <1>1, <4>2 DEF Processed
        <5>2. CASE k = n - 1
          BY <1>1, <1>2, <1>3, <2>2, <4>2, <5>1, <5>2
        <5>3. CASE k # n - 1
          BY <1>1, <4>2, <5>1, <5>3
        <5> QED
          BY <5>2, <5>3
      <4> QED
        BY <1>4, <4>1, <4>2
    <3>2. /\ graph[f][i] \in SeenFns
          /\ ((f \in onStack /\ graph[f][i] \in onStack) => lowlink[f] <= indices[graph[f][i]])
      BY <3>1 DEF SearchInv, CalleesInv
    <3>3. /\ lowlink[f] \in Nat /\ lowlink'[f] \in Nat /\ indices[graph[f][i]] \in Nat
          /\ lowlink'[f] <= lowlink[f]
      BY <1>2, <1>6, <3>2
    <3> QED
      BY <3>2, <3>3
  <2> QED
    BY <2>1, <2>2
<1>10. BranchInv'
  <2> SUFFICES ASSUME NEW k \in 1..n - 1, NEW f \in onStack', InBranch(f, k)'
               PROVE  lowlink'[frames[k].fn] <= lowlink'[f]
    BY <1>1 DEF BranchInv
  <2>1. f \in onStack /\ f \in SeenFns /\ k \in 1..n /\ n > 1 /\ frames[k].fn \in SeenFns
    BY <1>2, <1>3
  <2>2. k = n - 1 \/ (k < n - 1 /\ k + 1 \in 1..n - 1)
    BY <1>1
  <2>3. /\ indices[frames[k].fn] <= indices[f]
        /\ k < n - 1 => indices[f] < indices[frames[k + 1].fn]
    BY <1>1, <2>2 DEF InBranch
  <2>4. CASE k < n - 1 /\ k + 1 \in 1..n - 1
    <3>1. k < n /\ InBranch(f, k)
      BY <1>3, <2>3, <2>4 DEF InBranch, n
    <3>2. lowlink[frames[k].fn] <= lowlink[f]
      BY <2>1, <3>1 DEF SearchInv, BranchInv, n
    <3>3. f # frames[n - 1].fn
      <4>1. k + 1 \in 1..n /\ n - 1 \in 1..n /\ (k + 1 = n - 1 \/ k + 1 < n - 1)
        BY <1>1, <2>4
      <4>2. indices[frames[k + 1].fn] <= indices[frames[n - 1].fn]
        BY <1>2, <4>1
      <4>3. /\ indices[f] \in Nat /\ indices[frames[k + 1].fn] \in Nat
            /\ indices[frames[n - 1].fn] \in Nat
        BY <1>2, <2>1, <4>1
      <4> QED
        BY <2>3, <2>4, <4>2, <4>3
    <3>4. lowlink'[f] = lowlink[f]
      BY <1>1, <2>1, <3>3
    <3>5. lowlink'[frames[k].fn] <= lowlink[frames[k].fn] /\ lowlink'[frames[k].fn] \in Nat
      BY <1>6, <2>1
    <3> QED
      BY <1>2, <2>1, <3>2, <3>4, <3>5
  <2>5. CASE k = n - 1
    <3>1. CASE f = frames[k].fn
      BY <1>6, <2>1, <3>1
    <3>2. CASE f # frames[k].fn
      <4>1. lowlink'[f] = lowlink[f]
        BY <1>1, <2>1, <2>5, <3>2
      <4>2. k + 1 = n
        BY <1>1, <2>5
      <4>3. CASE indices[f] < indices[Fn]
        <5>1. InBranch(f, k)
          BY <1>1, <2>3, <4>2, <4>3 DEF InBranch
        <5>2. lowlink[frames[k].fn] <= lowlink[f]
          BY <2>1, <5>1 DEF SearchInv, BranchInv, n
        <5>3. lowlink'[frames[k].fn] <= lowlink[frames[k].fn] /\ lowlink'[frames[k].fn] \in Nat
          BY <1>6, <2>1
        <5> QED
          BY <1>2, <2>1, <4>1, <5>2, <5>3
      <4>4. CASE indices[Fn] <= indices[f]
        <5>1. InBranch(f, n)
          BY <1>1, <4>4 DEF InBranch, n
        <5>2. lowlink[Fn] <= lowlink[f]
          BY <1>1, <1>4, <2>1, <5>1 DEF SearchInv, BranchInv, n
        <5>3. lowlink'[frames[k].fn] <= lowlink[Fn] /\ lowlink'[frames[k].fn] \in Nat
          BY <1>6, <1>7, <2>1, <2>5
        <5> QED
          BY <1>2, <1>5, <2>1, <4>1, <5>2, <5>3
      <4> QED
        BY <1>2, <1>5, <2>1, <4>3, <4>4
    <3> QED
      BY <3>1, <3>2
  <2> QED
    BY <2>2, <2>4, <2>5
<1>11. ActiveLeads'
  <2> SUFFICES ASSUME NEW k \in 1..n - 1, NEW f \in onStack', indices[frames[k].fn] <= indices[f]
               PROVE  Leads(frames[k].fn, f)
    BY <1>1, <1>8 DEF ActiveLeads
  <2> QED
    BY <1>3 DEF SearchInv, ActiveLeads, n
<1> QED
  BY <1>9, <1>10, <1>11

LEMMA ReturnInsideSearch ==
  ASSUME BaseInv, SearchInv, ReturnInside
  PROVE  SearchInv'
<1> DEFINE n == Len(frames)
<1>1. /\ frames # <<>> /\ ~MoreCallees /\ Return /\ lowlink[Fn] # indices[Fn]
      /\ componentByFn' = componentByFn /\ onStack' = onStack
  BY DEF ReturnInside
<1>2. /\ n \in Nat \ {0} /\ Fn = frames[n].fn /\ Fn \in onStack
      /\ Len(frames') = n - 1
      /\ \A k \in 1..n - 1 : frames'[k].fn = frames[k].fn
      /\ \A f \in SeenFns :
           lowlink'[f] = IF n > 1 /\ f = frames[n - 1].fn
                         THEN Lower(lowlink[f], lowlink[Fn])
                         ELSE lowlink[f]
      /\ graph' = graph /\ indices' = indices /\ SeenFns' = SeenFns
  BY <1>1, ReturnEffect
<1>3. /\ onStack \subseteq SeenFns
      /\ \A g \in SeenFns : indices[g] \in Nat /\ lowlink[g] \in Nat /\ Len(graph[g]) \in Nat
      /\ \A k \in 1..n : frames[k].fn \in onStack
      /\ \A j, k \in 1..n : j < k => indices[frames[j].fn] < indices[frames[k].fn]
  BY BaseFacts
<1>4. Decided' = Decided
  BY <1>1 DEF Decided
<1>5. \A g, h : Leads(g, h)' <=> Leads(g, h)
  BY <1>2, LeadsUnchanged
<1>6. n \in 1..n /\ \A k \in 1..n : k = n \/ k \in 1..n - 1
  BY <1>2
<1> HIDE DEF n
<1>7. CalleesInv' /\ BranchInv' /\ ActiveLeads'
  BY <1>1, ReturnSearch
<1>8. OrderInv' /\ CycleInv'
  BY <1>1, <1>2, <1>4, <1>5 DEF SearchInv, OrderInv, CycleInv
<1>9. /\ lowlink[Fn] <= indices[Fn]
      /\ \E g \in onStack : indices[g] = lowlink[Fn] /\ Leads(Fn, g)
  BY <1>2 DEF SearchInv, LinkInv
<1>10. LinkInv'
  <2> SUFFICES ASSUME NEW f \in onStack
               PROVE  /\ lowlink'[f] <= indices[f]
                      /\ \E g \in onStack : indices[g] = lowlink'[f] /\ Leads(f, g)
    BY <1>1, <1>2, <1>5 DEF LinkInv
  <2>1. lowlink[f] <= indices[f] /\ \E g \in onStack : indices[g] = lowlink[f] /\ Leads(f, g)
    BY DEF SearchInv, LinkInv
  <2>2. /\ f \in SeenFns /\ lowlink[f] \in Nat /\ indices[f] \in Nat
        /\ Fn \in SeenFns /\ lowlink[Fn] \in Nat
    BY <1>2, <1>3
  <2>3. CASE lowlink'[f] = lowlink[f]
    BY <2>1, <2>3
  <2>4. CASE lowlink'[f] # lowlink[f]
    <3>1. n > 1 /\ f = frames[n - 1].fn /\ lowlink'[f] = lowlink[Fn] /\ lowlink[Fn] <= lowlink[f]
      BY <1>2, <2>2, <2>4 DEF Lower
    <3>2. n - 1 \in 1..n /\ n - 1 < n
      BY <1>2, <3>1
    <3>3. indices[f] <= indices[Fn]
      BY <1>2, <1>3, <1>6, <3>1, <3>2
    <3>4. Leads(f, Fn)
      BY <1>2, <3>1, <3>2, <3>3 DEF SearchInv, ActiveLeads, n
    <3>5. PICK g \in onStack : indices[g] = lowlink[Fn] /\ Leads(Fn, g)
      BY <1>9
    <3>6. Leads(f, g)
      BY <3>4, <3>5, LeadsTransitive
    <3> QED
      BY <2>1, <2>2, <3>1, <3>5, <3>6
  <2> QED
    BY <2>3, <2>4
<1>11. LeadsToActive'
  <2> SUFFICES ASSUME NEW f \in onStack
               PROVE  \E k \in 1..n - 1 : indices[frames[k].fn] <= indices[f] /\ Leads(f, frames[k].fn)
    BY <1>1, <1>2, <1>5 DEF LeadsToActive
  <2>1. PICK k \in 1..n : indices[frames[k].fn] <= indices[f] /\ Leads(f, frames[k].fn)
    BY DEF SearchInv, LeadsToActive, n
  <2>2. CASE k \in 1..n - 1
    BY <2>1, <2>2
  <2>3. CASE k = n
    <3>1. PICK g \in onStack : indices[g] = lowlink[Fn] /\ Leads(Fn, g)
      BY <1>9
    <3>2. PICK j \in 1..n : indices[frames[j].fn] <= indices[g] /\ Leads(g, frames[j].fn)
      BY DEF SearchInv, LeadsToActive, n
    <3>3. /\ indices[g] \in Nat /\ indices[Fn] \in Nat /\ indices[f] \in Nat
          /\ indices[frames[j].fn] \in Nat
      BY <1>2, <1>3
    <3>4. indices[g] < indices[Fn]
      BY <1>1, <1>9, <3>1, <3>3
    <3>5. j # n
      BY <1>2, <3>2, <3>3, <3>4
    <3>6. j \in 1..n - 1
      BY <1>6, <3>5
    <3>7. indices[frames[j].fn] <= indices[f]
      BY <1>2, <2>1, <2>3, <3>2, <3>3, <3>4
    <3>8. Leads(f, Fn) /\ Leads(Fn, frames[j].fn)
      BY <1>2, <2>1, <2>3, <3>1, <3>2, LeadsTransitive
    <3>9. Leads(f, frames[j].fn)
      BY <3>8, LeadsTransitive
    <3> QED
      BY <3>6, <3>7, <3>9
  <2> QED
    BY <1>6, <2>2, <2>3
<1> QED
  BY <1>7, <1>8, <1>10, <1>11 DEF SearchInv

(***************************************************************************)
(* What is popped has looked at all its callees, and each of them is       *)
(* decided or popped too; all that is popped leads to Fn and back.         *)
(***************************************************************************)
LEMMA PopSearch ==
  ASSUME BaseInv, SearchInv, PopComponent
  PROVE  SearchInv'
<1> DEFINE n == Len(frames)
<1>1. /\ frames # <<>> /\ ~MoreCallees /\ Return /\ lowlink[Fn] = indices[Fn]
      /\ onStack' = {g \in onStack : indices[g] < indices[Fn]}
      /\ Decided' = Decided \cup {g \in onStack : indices[g] >= indices[Fn]}
      /\ \A f \in Decided' : componentByFn'[f] = IF f \in Decided THEN componentByFn[f] ELSE nextComponentID
  BY PopEffect
<1>2. /\ n \in Nat \ {0} /\ Fn = frames[n].fn /\ Fn \in onStack
      /\ frames[n].at = Len(graph[Fn]) + 1
      /\ Len(frames') = n - 1
      /\ \A k \in 1..n - 1 : frames'[k].fn = frames[k].fn
      /\ \A f \in SeenFns :
           lowlink'[f] = IF n > 1 /\ f = frames[n - 1].fn
                         THEN Lower(lowlink[f], lowlink[Fn])
                         ELSE lowlink[f]
      /\ graph' = graph /\ indices' = indices /\ SeenFns' = SeenFns
  BY <1>1, ReturnEffect
<1>3. /\ onStack = SeenFns \ Decided /\ Decided \subseteq SeenFns
      /\ \A g \in SeenFns : indices[g] \in Nat /\ lowlink[g] \in Nat /\ Len(graph[g]) \in Nat
      /\ \A k \in 1..n : frames[k].fn \in onStack
      /\ \A j, k \in 1..n : j < k => indices[frames[j].fn] < indices[frames[k].fn]
  BY BaseFacts
<1>4. /\ nextComponentID \in Nat
      /\ \A f \in Decided : componentByFn[f] \in Nat /\ componentByFn[f] < nextComponentID
  BY DEF BaseInv, TypeInv, StackInv
<1>5. \A g, h : Leads(g, h)' <=> Leads(g, h)
  BY <1>2, LeadsUnchanged
<1>6. n \in 1..n /\ \A k \in 1..n : k = n \/ (k \in 1..n - 1 /\ k < n)
  BY <1>2
<1> HIDE DEF n
<1>7. onStack' \subseteq onStack
  BY <1>1
<1>8. CalleesInv' /\ BranchInv' /\ ActiveLeads'
  BY <1>1, <1>7, ReturnSearch
<1>9. \A k \in 1..n : indices[frames[k].fn] <= indices[Fn]
  <2> SUFFICES ASSUME NEW k \in 1..n
               PROVE  indices[frames[k].fn] <= indices[Fn]
    OBVIOUS
  <2>1. k = n \/ k < n
    BY <1>6
  <2> QED
    BY <1>2, <1>3, <1>6, <2>1
<1>10. OrderInv'
  <2> SUFFICES ASSUME NEW f \in Decided', NEW i \in 1..Len(graph[f])
               PROVE  graph[f][i] \in Decided' /\ componentByFn'[graph[f][i]] <= componentByFn'[f]
    BY <1>2 DEF OrderInv
  <2>1. CASE f \in Decided
    <3>1. graph[f][i] \in Decided /\ componentByFn[graph[f][i]] <= componentByFn[f]
      BY <2>1 DEF SearchInv, OrderInv
    <3> QED
      BY <1>1, <2>1, <3>1
  <2>2. CASE f \notin Decided
    <3>1. f \in onStack /\ indices[f] >= indices[Fn] /\ f \in SeenFns /\ Fn \in SeenFns
      BY <1>1, <1>2, <1>3, <2>2
    <3>2. Processed(f, i)
      <4> SUFFICES ASSUME NEW k \in 1..n, frames[k].fn = f
                   PROVE  i < frames[k].at
        BY DEF Processed, n
      <4>1. k = n
        BY <1>2, <1>3, <1>6, <3>1
      <4> QED
        BY <1>2, <1>3, <3>1, <4>1
    <3>3. graph[f][i] \in SeenFns /\ (graph[f][i] \in onStack => lowlink[f] <= indices[graph[f][i]])
      BY <3>1, <3>2 DEF SearchInv, CalleesInv
    <3>4. InBranch(f, n)
      BY <1>2, <1>3, <3>1 DEF InBranch, n
    <3>5. lowlink[Fn] <= lowlink[f]
      BY <1>2, <1>6, <3>1, <3>4 DEF SearchInv, BranchInv, n
    <3>6. graph[f][i] \in onStack => indices[graph[f][i]] >= indices[Fn]
      BY <1>1, <1>3, <3>1, <3>3, <3>5
    <3>7. graph[f][i] \in Decided'
      BY <1>1, <1>3, <3>3, <3>6
    <3>8. componentByFn'[f] = nextComponentID /\ componentByFn'[graph[f][i]] <= nextComponentID
      BY <1>1, <1>4, <2>2, <3>7
    <3> QED
      BY <3>7, <3>8
  <2> QED
    BY <2>1, <2>2
<1>11. LinkInv'
  <2> SUFFICES ASSUME NEW f \in onStack'
               PROVE  /\ lowlink'[f] <= indices[f]
                      /\ \E g \in onStack' : indices[g] = lowlink'[f] /\ Leads(f, g)
    BY <1>2, <1>5 DEF LinkInv
  <2>1. f \in onStack /\ f \in SeenFns /\ indices[f] < indices[Fn] /\ Fn \in SeenFns
    BY <1>1, <1>2, <1>3
  <2>2. lowlink[f] <= indices[f] /\ \E g \in onStack : indices[g] = lowlink[f] /\ Leads(f, g)
    BY <2>1 DEF SearchInv, LinkInv
  <2>3. lowlink[f] \in Nat /\ indices[f] \in Nat /\ indices[Fn] \in Nat
    BY <1>3, <2>1
  <2>4. lowlink'[f] = lowlink[f]
    BY <1>1, <1>2, <2>1, <2>2, <2>3 DEF Lower
  <2>5. PICK g \in onStack : indices[g] = lowlink[f] /\ Leads(f, g)
    BY <2>2
  <2>6. g \in onStack'
    BY <1>1, <2>1, <2>2, <2>3, <2>5
  <2> QED
    BY <2>2, <2>4, <2>5, <2>6
<1>12. LeadsToActive'
  <2> SUFFICES ASSUME NEW f \in onStack'
               PROVE  \E k \in 1..n - 1 : indices[frames[k].fn] <= indices[f] /\ Leads(f, frames[k].fn)
    BY <1>2, <1>5 DEF LeadsToActive
  <2>1. f \in onStack /\ f \in SeenFns /\ indices[f] < indices[Fn] /\ Fn \in SeenFns
    BY <1>1, <1>2, <1>3
  <2>2. PICK k \in 1..n : indices[frames[k].fn] <= indices[f] /\ Leads(f, frames[k].fn)
    BY <2>1 DEF SearchInv, LeadsToActive, n
  <2>3. k # n
    BY <1>2, <1>3, <2>1, <2>2
  <2> QED
    BY <1>6, <2>2, <2>3
<1>13. CycleInv'
  <2> SUFFICES ASSUME NEW f \in Decided', NEW g \in Decided', componentByFn'[f] = componentByFn'[g]
               PROVE  Leads(f, g)
    BY <1>5 DEF CycleInv
  <2>1. CASE f \in Decided /\ g \in Decided
    BY <1>1, <2>1 DEF SearchInv, CycleInv
  <2>2. CASE f \notin Decided /\ g \notin Decided
    <3>1. /\ f \in onStack /\ g \in onStack /\ f \in SeenFns /\ g \in SeenFns
          /\ indices[f] >= indices[Fn] /\ indices[g] >= indices[Fn]
      BY <1>1, <1>3, <2>2
    <3>2. indices[Fn] <= indices[g] /\ Fn \in SeenFns
      BY <1>2, <1>3, <3>1
    <3>3. Leads(Fn, g)
      BY <1>2, <1>6, <3>1, <3>2 DEF SearchInv, ActiveLeads, n
    <3>4. PICK j \in 1..n : Leads(f, frames[j].fn)
      BY <3>1 DEF SearchInv, LeadsToActive, n
    <3>5. Leads(frames[j].fn, Fn)
      BY <1>2, <1>9 DEF SearchInv, ActiveLeads, n
    <3>6. Leads(f, Fn)
      BY <3>4, <3>5, LeadsTransitive
    <3> QED
      BY <3>3, <3>6, LeadsTransitive
  <2>3. f \in Decided <=> g \in Decided
    BY <1>1, <1>4
  <2> QED
    BY <2>1, <2>2, <2>3
<1> QED
  BY <1>8, <1>10, <1>11, <1>12, <1>13 DEF SearchInv

-----------------------------------------------------------------------------
(***************************************************************************)
(* Every step keeps the invariant.                                         *)
(***************************************************************************)
LEMMA SearchStep == BaseInv /\ SearchInv /\ [Next]_vars => SearchInv'
<1> SUFFICES ASSUME BaseInv, SearchInv, [Next]_vars
             PROVE  SearchInv'
  OBVIOUS
<1>1. ASSUME NEW f \in Functions, StartRoot(f)
      PROVE  SearchInv'
  BY <1>1, DiscoverSearch DEF StartRoot
<1>2. CASE CallUnseen
  BY <1>2, CalleeType, DiscoverSearch DEF CallUnseen, BaseInv
<1>3. CASE UNCHANGED vars
  BY <1>3, StutterSearch
<1> QED
  BY <1>1, <1>2, <1>3, PassSeenSearch, ReturnInsideSearch, PopSearch DEF Next, Step, Terminating

LEMMA AlwaysInv == Spec => []Inv
<1>1. Init => Inv
  BY InitBase, InitSearch DEF Inv
<1>2. Inv /\ [Next]_vars => Inv'
  BY BaseStep, SearchStep DEF Inv
<1> QED
  BY <1>1, <1>2, PTL DEF Spec

(***************************************************************************)
(* When the search has ended every function has a component.               *)
(***************************************************************************)
LEMMA AllDecided == Inv /\ Done => Decided = Functions
<1> SUFFICES ASSUME Inv, Done
             PROVE  Decided = Functions
  OBVIOUS
<1>1. Len(frames) = 0 /\ SeenFns = Functions
  BY DEF Done
<1>2. onStack = {}
  BY <1>1 DEF Inv, SearchInv, LeadsToActive
<1> QED
  BY <1>1, <1>2, BaseFacts DEF Inv

(***************************************************************************)
(* The variables have their types, for any functions and any call graph.   *)
(***************************************************************************)
THEOREM TypeCorrect == Spec => []TypeOK
<1>1. BaseInv => TypeOK
  <2> SUFFICES ASSUME BaseInv
               PROVE  TypeOK
    OBVIOUS
  <2>1. \A k \in 1..Len(frames) :
          frames[k].fn \in Functions /\ frames[k].at \in 1..(Len(graph[frames[k].fn]) + 1)
    <3> SUFFICES ASSUME NEW k \in 1..Len(frames)
                 PROVE  /\ frames[k].fn \in Functions
                        /\ frames[k].at \in 1..(Len(graph[frames[k].fn]) + 1)
      OBVIOUS
    <3>1. frames[k] \in Frames
      BY ElementOfSeq DEF BaseInv, TypeInv
    <3>2. frames[k].at <= Len(graph[frames[k].fn]) + 1 /\ frames[k].fn \in SeenFns
      BY BaseFacts DEF BaseInv, FramesInv
    <3>3. Len(graph[frames[k].fn]) \in Nat
      BY <3>2, BaseFacts
    <3> QED
      BY <3>1, <3>2, <3>3 DEF Frames
  <2>2. onStack \subseteq Functions /\ Decided \subseteq Functions
    BY BaseFacts
  <2> QED
    BY <2>1, <2>2 DEF BaseInv, TypeInv, TypeOK
<1> QED
  BY <1>1, AlwaysBase, PTL

(***************************************************************************)
(* The stack of the search, its marks and the components agree.            *)
(***************************************************************************)
THEOREM StackAgrees == Spec => []StackConsistent
<1>1. BaseInv => StackConsistent
  BY DEF BaseInv, StackInv
<1> QED
  BY <1>1, AlwaysBase, PTL

(***************************************************************************)
(* A link is always the index of a function on the stack that can be       *)
(* reached.                                                                *)
(***************************************************************************)
THEOREM LinksReachable == Spec => []LowlinkReachable
<1>1. Inv => LowlinkReachable
  <2> SUFFICES ASSUME Inv, NEW f \in onStack
               PROVE  \E g \in onStack : indices[g] = lowlink[f] /\ (g = f \/ Reaches(graph, f, g))
    BY DEF LowlinkReachable
  <2>1. PICK g \in onStack : indices[g] = lowlink[f] /\ Leads(f, g)
    BY DEF Inv, SearchInv, LinkInv
  <2> QED
    BY <2>1 DEF Leads
<1> QED
  BY <1>1, AlwaysInv, PTL

(***************************************************************************)
(* In every call graph the search takes a call for recursive exactly if    *)
(* the callee leads back to the caller.                                    *)
(***************************************************************************)
THEOREM RecursionExact == Spec => []RecursiveEdgesExact
<1>1. Inv => RecursiveEdgesExact
  <2> SUFFICES ASSUME Inv, Done, NEW f \in Functions, NEW g \in CalleesOf(graph, f)
               PROVE  isRecursiveEdge(f, g) <=> Reaches(graph, g, f)
    BY DEF RecursiveEdgesExact
  <2>1. Decided = Functions /\ f \in Decided
    BY AllDecided
  <2>2. g \in Decided /\ componentByFn[g] <= componentByFn[f]
    BY <2>1 DEF Inv, SearchInv, OrderInv, CalleesOf
  <2>3. f = g => f \in selfRecursive
    BY DEF Inv, BaseInv, TypeInv
  <2>4. isRecursiveEdge(f, g) <=> componentByFn[f] = componentByFn[g]
    BY <2>1, <2>2, <2>3 DEF isRecursiveEdge
  <2>5. ASSUME componentByFn[f] = componentByFn[g]
        PROVE  Reaches(graph, g, f)
    <3>1. Leads(g, f)
      BY <2>1, <2>2, <2>5 DEF Inv, SearchInv, CycleInv
    <3>2. CASE g = f
      BY <3>2, CallReaches
    <3> QED
      BY <3>1, <3>2 DEF Leads
  <2>6. ASSUME Reaches(graph, g, f)
        PROVE  componentByFn[f] = componentByFn[g]
    <3> DEFINE T == {x \in Decided : componentByFn[x] <= componentByFn[g]}
    <3>1. \A x \in Decided : componentByFn[x] \in Nat
      BY DEF Inv, BaseInv, TypeInv
    <3>2. T \in SUBSET Functions /\ g \in T
      BY <2>1, <2>2, <3>1
    <3>3. ClosedUnderCalls(graph, T)
      <4> SUFFICES ASSUME NEW x \in T, NEW i \in 1..Len(graph[x])
                   PROVE  graph[x][i] \in T
        BY DEF ClosedUnderCalls, CalleesOf
      <4>1. graph[x][i] \in Decided /\ componentByFn[graph[x][i]] <= componentByFn[x]
        BY DEF Inv, SearchInv, OrderInv
      <4> QED
        BY <2>2, <3>1, <4>1
    <3>4. Leads(g, f)
      BY <2>6 DEF Leads
    <3> HIDE DEF T
    <3>5. f \in T
      BY <3>2, <3>3, <3>4, LeadsInside
    <3> QED
      BY <2>1, <2>2, <3>1, <3>5 DEF T
  <2> QED
    BY <2>4, <2>5, <2>6
<1> QED
  BY <1>1, AlwaysInv, PTL

-----------------------------------------------------------------------------
(***************************************************************************)
(* What is popped is one component, whole.                                 *)
(***************************************************************************)
Popped == {g \in onStack : indices[g] >= indices[Fn]}

LEMMA SameCallGraph ==
  /\ \A adj, f : Numbering!CalleesOf(adj, f) = CalleesOf(adj, f)
  /\ \A adj, f, g : Numbering!Reaches(adj, f, g) <=> Reaches(adj, f, g)
<1>1. \A adj, f : Numbering!CalleesOf(adj, f) = CalleesOf(adj, f)
  BY DEF Numbering!CalleesOf, CalleesOf
<1>2. \A adj, T : Numbering!ClosedUnderCalls(adj, T) <=> ClosedUnderCalls(adj, T)
  BY <1>1 DEF Numbering!ClosedUnderCalls, ClosedUnderCalls
<1> QED
  BY <1>1, <1>2 DEF Numbering!Reaches, Reaches

LEMMA PoppedComponent ==
  ASSUME Inv, Inv', PopComponent
  PROVE  /\ Fn \in Functions /\ Fn \in Popped /\ Fn \notin Decided
         /\ Popped = Numbering!Component(Fn)
         /\ Decided' = Decided \cup Popped
<1>1. /\ frames # <<>> /\ Decided' = Decided \cup Popped
      /\ \A f \in Decided' : componentByFn'[f] = IF f \in Decided THEN componentByFn[f] ELSE nextComponentID
      /\ graph' = graph
  BY PopEffect DEF Inv, Popped, PopComponent, Return
<1>2. Len(frames) \in 1..Len(frames) /\ Fn = frames[Len(frames)].fn
  BY <1>1, TopFrame DEF Inv, BaseInv
<1>3. Fn \in onStack /\ onStack = SeenFns \ Decided /\ SeenFns \subseteq Functions
        /\ \A f \in SeenFns : indices[f] \in Nat
  BY <1>2, BaseFacts DEF Inv
<1>4. Fn \in Popped /\ Fn \notin Decided /\ Fn \in Functions /\ Popped \cap Decided = {}
  BY <1>3 DEF Popped
<1>5. ASSUME NEW g \in Popped
      PROVE  g \in Numbering!Component(Fn)
  <2>1. \A f, h \in Decided' : componentByFn'[f] = componentByFn'[h] => Leads(f, h)
    BY <1>1, LeadsUnchanged DEF Inv, SearchInv, CycleInv
  <2>2. Fn \in Decided' /\ g \in Decided' /\ componentByFn'[Fn] = componentByFn'[g]
    BY <1>1, <1>4, <1>5
  <2>3. Leads(Fn, g) /\ Leads(g, Fn)
    BY <2>1, <2>2
  <2>4. g \in Functions
    BY <1>3 DEF Popped
  <2> QED
    BY <2>3, <2>4, SameCallGraph DEF Leads, Numbering!Component
<1>6. ASSUME NEW g \in Numbering!Component(Fn), g # Fn
      PROVE  g \in Popped
  <2>1. g \in Functions /\ Leads(Fn, g) /\ Leads(g, Fn)
    BY <1>6, SameCallGraph DEF Leads, Numbering!Component
  <2>2. ClosedUnderCalls(graph, Decided) /\ Decided \in SUBSET Functions
    BY BaseFacts DEF Inv, SearchInv, OrderInv, ClosedUnderCalls, CalleesOf
  <2>3. ClosedUnderCalls(graph, Decided') /\ Decided' \in SUBSET Functions
    <3>1. \A f \in Decided' : \A i \in 1..Len(graph[f]) : graph[f][i] \in Decided'
      BY <1>1 DEF Inv, SearchInv, OrderInv
    <3>2. Decided' \subseteq Functions
      BY <1>1, <1>3, <2>2 DEF Popped
    <3> QED
      BY <3>1, <3>2 DEF ClosedUnderCalls, CalleesOf
  <2>4. g \in Decided'
    BY <1>1, <1>4, <2>1, <2>3, LeadsInside
  <2>5. g \notin Decided
    BY <1>4, <2>1, <2>2, LeadsInside
  <2> QED
    BY <1>1, <2>4, <2>5
<1>7. Popped = Numbering!Component(Fn)
  BY <1>4, <1>5, <1>6
<1> QED
  BY <1>1, <1>4, <1>7

(***************************************************************************)
(* The search refines CallComponents: every step leaves the components as  *)
(* they are or finds one more, whole and after the components it calls.    *)
(* (The liveness of Components is not part of the statement.)              *)
(***************************************************************************)
THEOREM ComponentsOneByOne == Spec => Numbering!Init /\ [][Numbering!Next]_(Numbering!vars)
<1>1. Init => Numbering!Init
  <2> SUFFICES ASSUME Init
               PROVE  Numbering!Init
    OBVIOUS
  <2>1. Decided = {}
    BY DEF Init, Decided
  <2> QED
    BY <2>1 DEF Init, Numbering!Init, Partition
<1>2. Inv /\ Inv' /\ [Next]_vars => [Numbering!Next]_(Numbering!vars)
  <2> SUFFICES ASSUME Inv, Inv', [Next]_vars
               PROVE  Numbering!Next \/ UNCHANGED Numbering!vars
    OBVIOUS
  <2>1. CASE PopComponent
    <3>1. /\ Fn \in Functions /\ Fn \in Popped /\ Fn \notin Decided
          /\ Popped = Numbering!Component(Fn) /\ Decided' = Decided \cup Popped
      BY <2>1, PoppedComponent
    <3>2. /\ \A f \in Decided' : componentByFn'[f] = IF f \in Decided THEN componentByFn[f] ELSE nextComponentID
          /\ graph' = graph
      BY <2>1, PopEffect DEF Inv, PopComponent, Return
    <3>3. /\ \A f \in Decided : componentByFn[f] \in Nat /\ componentByFn[f] < nextComponentID
          /\ nextComponentID \in Nat /\ Popped \cap Decided = {}
      BY BaseFacts DEF Inv, BaseInv, TypeInv, StackInv, Popped
    <3> DEFINE Class(f) == {g \in Decided : componentByFn[g] = componentByFn[f]}
               NewClass(f) == {g \in Decided' : componentByFn'[g] = componentByFn'[f]}
    <3>4. \A f \in Decided : NewClass(f) = Class(f)
      BY <3>1, <3>2, <3>3
    <3>5. \A f \in Popped : NewClass(f) = Popped
      BY <3>1, <3>2, <3>3
    <3>6. Partition = {Class(f) : f \in Decided} /\ Partition' = {NewClass(f) : f \in Decided'}
      BY DEF Partition
    <3> HIDE DEF Class, NewClass
    <3>7. Partition' = Partition \cup {Popped}
      BY <3>1, <3>4, <3>5, <3>6
    <3>8. UNION Partition = Decided
      <4>1. \A f \in Decided : f \in Class(f) /\ Class(f) \subseteq Decided
        BY DEF Class
      <4> QED
        BY <3>6, <4>1
    <3>9. \A g \in Popped : CalleesOf(graph, g) \subseteq Popped \cup Decided
      BY <3>1, <3>2 DEF Inv, SearchInv, OrderInv, CalleesOf
    <3> QED
      BY <3>1, <3>2, <3>7, <3>8, <3>9, SameCallGraph DEF Numbering!Next, Numbering!Find, Numbering!Found
  <2>2. CASE UNCHANGED <<graph, componentByFn>>
    BY <2>2 DEF Numbering!vars, Partition, Decided
  <2>3. PopComponent \/ UNCHANGED <<graph, componentByFn>>
    BY DEF Next, Step, StartRoot, CallUnseen, Discover, PassSeen, ReturnInside, Return, Terminating, vars
  <2> QED
    BY <2>1, <2>2, <2>3
<1> QED
  BY <1>1, <1>2, AlwaysInv, PTL DEF Spec

=============================================================================
