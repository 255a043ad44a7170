------------------------------ MODULE CallGraph ------------------------------
(***************************************************************************)
(* The call graph of a package as buildRecursionGraph                      *)
(* (analyzer/recursion_heuristics.go) collects it: every function with the *)
(* sequence of the functions its instructions may call.                    *)
(***************************************************************************)
EXTENDS Naturals, Sequences, FiniteSets

CONSTANTS
  Functions,   \* the functions of the package
  CallGraphs   \* call graphs: for every function the sequence of its callees

ASSUME CallGraphAssumption == \A adj \in CallGraphs : adj \in [Functions -> Seq(Functions)]

CalleesOf(adj, f) == {adj[f][k] : k \in 1..Len(adj[f])}

ClosedUnderCalls(adj, T) == \A f \in T : CalleesOf(adj, f) \subseteq T

(***************************************************************************)
(* A run of f may come to g by one call or more: no set of functions that  *)
(* is closed under calls and has the callees of f leaves g out.            *)
(***************************************************************************)
Reaches(adj, f, g) ==
  \A T \in SUBSET (Functions \ {g}) :
    CalleesOf(adj, f) \subseteq T => ~ClosedUnderCalls(adj, T)

=============================================================================
