-------------------------- MODULE MCRecursionGraph --------------------------
(***************************************************************************)
(* Call graphs of four functions: a and b call at most two functions, c    *)
(* and d at most one; a may also call itself.                              *)
(***************************************************************************)
EXTENDS RecursionGraph, SequencesExt

CONSTANTS a, b, c, d

FourFunctions == {a, b, c, d}

CallsTo(fns, most) == {SetToSeq(S) : S \in {T \in SUBSET fns : Cardinality(T) <= most}}

SmallGraphs ==
  {adj \in [FourFunctions -> CallsTo(FourFunctions, 2)] :
     /\ adj[b] \in CallsTo({a, c, d}, 2)
     /\ adj[c] \in CallsTo({a, b, d}, 1)
     /\ adj[d] \in CallsTo({a, b, c}, 1)}

=============================================================================
