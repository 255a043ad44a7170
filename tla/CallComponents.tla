--------------------------- MODULE CallComponents ---------------------------
(***************************************************************************)
(* What buildRecursionGraph (analyzer/recursion_heuristics.go) promises:   *)
(* it finds the strongly connected components of the call graph, one       *)
(* component at a time and callees before callers.  How a component is     *)
(* numbered is left to the implementation.                                 *)
(***************************************************************************)
EXTENDS CallGraph

VARIABLES
  graph,        \* the call graph; never changes
  components    \* the components found so far, each a set of functions

vars == <<graph, components>>

Component(f) == {f} \cup {g \in Functions : Reaches(graph, f, g) /\ Reaches(graph, g, f)}

Found == UNION components

Init ==
  /\ graph \in CallGraphs
  /\ components = {}

(***************************************************************************)
(* The component of f is found when all the components it calls are.       *)
(***************************************************************************)
Find(f) ==
  /\ \A g \in Component(f) : CalleesOf(graph, g) \subseteq Component(f) \cup Found
  /\ components' = components \cup {Component(f)}
  /\ UNCHANGED graph

Next == \E f \in Functions \ Found : Find(f)

Spec == Init /\ [][Next]_vars /\ WF_vars(Next)

=============================================================================
