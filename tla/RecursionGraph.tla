--------------------------- MODULE RecursionGraph ---------------------------
(***************************************************************************)
(* Tarjan's algorithm as buildRecursionGraph runs it                       *)
(* (analyzer/recursion_heuristics.go).  The recursion of strongConnect is  *)
(* an explicit stack of frames; a frame is a function and the position of  *)
(* the callee it looks at next.  The outer loop ranges over a Go map and   *)
(* takes the functions in any order.                                       *)
(***************************************************************************)
EXTENDS CallGraph

VARIABLES
  graph,           \* the call graph; never changes
  componentByFn,   \* number of the component of every function decided so far
  frames,          \* activations of strongConnect, innermost last
  indices,         \* discovery index of every function seen
  lowlink,         \* lowest index known to be reachable
  stack,           \* functions without a component yet, in discovery order
  onStack,         \* the members of stack
  nextComponentID,
  selfRecursive    \* functions that call themselves

vars == <<graph, componentByFn, frames, indices, lowlink, stack, onStack,
          nextComponentID, selfRecursive>>

SeenFns == DOMAIN indices

Decided == DOMAIN componentByFn

(***************************************************************************)
(* The map m with m[f] set to n.                                           *)
(***************************************************************************)
Set(m, f, n) == [g \in DOMAIN m \cup {f} |-> IF g = f THEN n ELSE m[g]]

Lower(m, n) == IF m < n THEN m ELSE n

Top == frames[Len(frames)]

Fn == Top.fn

Callee == graph[Fn][Top.at]

MoreCallees == frames # <<>> /\ Top.at <= Len(graph[Fn])

\* Slip: a callee is skipped with the one before it.
AdvancedByTwo(fs) == IF fs = <<>> THEN <<>> ELSE [fs EXCEPT ![Len(fs)].at = @ + 2]

(***************************************************************************)
(* The frames with the innermost one moved to its next callee.             *)
(***************************************************************************)
Advanced(fs) == IF fs = <<>> THEN <<>> ELSE [fs EXCEPT ![Len(fs)].at = @ + 1]

Init ==
  /\ graph \in CallGraphs
  /\ componentByFn = [f \in {} |-> 0]
  /\ frames = <<>>
  /\ indices = [f \in {} |-> 0]
  /\ lowlink = [f \in {} |-> 0]
  /\ stack = <<>>
  /\ onStack = {}
  /\ nextComponentID = 0
  /\ selfRecursive = {f \in Functions : f \in CalleesOf(graph, f)}

(***************************************************************************)
(* strongConnect is called for f.                                          *)
(***************************************************************************)
Discover(f) ==
  /\ f \notin SeenFns
  /\ indices' = Set(indices, f, Cardinality(SeenFns))
  /\ lowlink' = Set(lowlink, f, Cardinality(SeenFns))
  /\ stack' = Append(stack, f)
  /\ onStack' = onStack \cup {f}
  /\ frames' = Append(frames, [fn |-> f, at |-> 1])
  /\ UNCHANGED <<graph, componentByFn, nextComponentID, selfRecursive>>

StartRoot(f) == frames = <<>> /\ Discover(f)

CallUnseen == MoreCallees /\ Discover(Callee)

\* Slip: a callee that has its component already lowers the link too.
PassSeenDecided ==
  /\ MoreCallees
  /\ Callee \in SeenFns
  /\ lowlink' = Set(lowlink, Fn, Lower(lowlink[Fn], indices[Callee]))
  /\ frames' = Advanced(frames)
  /\ UNCHANGED <<graph, componentByFn, indices, stack, onStack, nextComponentID, selfRecursive>>

(***************************************************************************)
(* A callee seen before lowers the link only while it is on the stack.     *)
(***************************************************************************)
PassSeen ==
  /\ MoreCallees
  /\ Callee \in SeenFns
  /\ lowlink' = IF Callee \in onStack
                THEN Set(lowlink, Fn, Lower(lowlink[Fn], indices[Callee]))
                ELSE lowlink
  /\ frames' = Advanced(frames)
  /\ UNCHANGED <<graph, componentByFn, indices, stack, onStack, nextComponentID, selfRecursive>>

\* Slip: the caller does not take over the lower link.
ReturnWithoutLink ==
  /\ frames' = Advanced(SubSeq(frames, 1, Len(frames) - 1))
  /\ UNCHANGED <<graph, indices, lowlink, selfRecursive>>

(***************************************************************************)
(* strongConnect returns to its caller, which takes over the lower link.   *)
(***************************************************************************)
Return ==
  LET outer == SubSeq(frames, 1, Len(frames) - 1)
      caller == outer[Len(outer)].fn
  IN  /\ frames' = Advanced(outer)
      /\ lowlink' = IF outer = <<>>
                    THEN lowlink
                    ELSE Set(lowlink, caller, Lower(lowlink[caller], lowlink[Fn]))
      /\ UNCHANGED <<graph, indices, selfRecursive>>

ReturnInside ==
  /\ frames # <<>>
  /\ ~MoreCallees
  /\ lowlink[Fn] # indices[Fn]
  /\ Return
  /\ UNCHANGED <<componentByFn, stack, onStack, nextComponentID>>

\* Slip: the functions popped stay marked as on the stack.
PopComponentKeepsMarks ==
  /\ frames # <<>>
  /\ ~MoreCallees
  /\ lowlink[Fn] = indices[Fn]
  /\ \E k \in 1..Len(stack) :
       LET popped == {stack[n] : n \in k..Len(stack)} IN
         /\ stack[k] = Fn
         /\ stack' = SubSeq(stack, 1, k - 1)
         /\ componentByFn' =
              [f \in Decided \cup popped |->
                 IF f \in popped THEN nextComponentID ELSE componentByFn[f]]
  /\ nextComponentID' = nextComponentID + 1
  /\ Return
  /\ UNCHANGED onStack

(***************************************************************************)
(* The functions above Fn on the stack, with Fn, form its component.       *)
(***************************************************************************)
PopComponent ==
  /\ frames # <<>>
  /\ ~MoreCallees
  /\ lowlink[Fn] = indices[Fn]
  /\ \E k \in 1..Len(stack) :
       LET popped == {stack[n] : n \in k..Len(stack)} IN
         /\ stack[k] = Fn
         /\ stack' = SubSeq(stack, 1, k - 1)
         /\ onStack' = onStack \ popped
         /\ componentByFn' =
              [f \in Decided \cup popped |->
                 IF f \in popped THEN nextComponentID ELSE componentByFn[f]]
  /\ nextComponentID' = nextComponentID + 1
  /\ Return

Done == frames = <<>> /\ SeenFns = Functions

Step ==
  \/ \E f \in Functions : StartRoot(f)
  \/ CallUnseen
  \/ PassSeen
  \/ ReturnInside
  \/ PopComponent

Terminating == Done /\ UNCHANGED vars

Next == Step \/ Terminating

(***************************************************************************)
(* A sequential program: it takes its next step as long as it has one.     *)
(***************************************************************************)
Spec == Init /\ [][Next]_vars /\ WF_vars(Step)

-----------------------------------------------------------------------------
\* Slip: every call of a function that calls itself is taken for recursive.
RecursiveEdgeOfComponent(caller, callee) ==
  /\ {caller, callee} \subseteq Decided
  /\ (componentByFn[caller] = componentByFn[callee] \/ caller \in selfRecursive)

isRecursiveEdge(caller, callee) ==
  /\ {caller, callee} \subseteq Decided
  /\ componentByFn[caller] = componentByFn[callee]
  /\ caller = callee => caller \in selfRecursive

(***************************************************************************)
(* Types of the variables.                                                 *)
(***************************************************************************)
TypeOK ==
  /\ \A k \in 1..Len(frames) :
       frames[k].fn \in Functions /\ frames[k].at \in 1..(Len(graph[frames[k].fn]) + 1)
  /\ SeenFns \subseteq Functions
  /\ indices \in [SeenFns -> Nat]
  /\ lowlink \in [SeenFns -> Nat]
  /\ stack \in Seq(Functions)
  /\ onStack \subseteq Functions
  /\ Decided \subseteq Functions
  /\ componentByFn \in [Decided -> Nat]
  /\ nextComponentID \in Nat

(***************************************************************************)
(* The stack holds exactly the functions seen but not decided, in the      *)
(* order of discovery, and onStack agrees with it.                         *)
(***************************************************************************)
StackConsistent ==
  /\ onStack = {stack[k] : k \in 1..Len(stack)}
  /\ onStack = SeenFns \ Decided
  /\ \A j, k \in 1..Len(stack) : j < k => indices[stack[j]] < indices[stack[k]]

(***************************************************************************)
(* A link never promises too much: the function with that index is on the  *)
(* stack and really reachable.  A link lowered through a function already  *)
(* decided would merge two components.                                     *)
(***************************************************************************)
LowlinkReachable ==
  \A f \in onStack :
    \E g \in onStack : indices[g] = lowlink[f] /\ (g = f \/ Reaches(graph, f, g))

(***************************************************************************)
(* A call is taken for recursive exactly if it lies on a cycle of calls.   *)
(***************************************************************************)
RecursiveEdgesExact ==
  Done =>
    \A f \in Functions : \A g \in CalleesOf(graph, f) :
      isRecursiveEdge(f, g) <=> Reaches(graph, g, f)

(***************************************************************************)
(* The functions of one number, as a component.                            *)
(***************************************************************************)
Partition == {{g \in Decided : componentByFn[g] = componentByFn[f]} : f \in Decided}

Numbering == INSTANCE CallComponents WITH components <- Partition

(***************************************************************************)
(* The search implements the abstract one: it numbers a whole component in *)
(* one step, only after the components it calls, and in the end every      *)
(* function has a number.                                                  *)
(***************************************************************************)
Components == Numbering!Spec

=============================================================================
