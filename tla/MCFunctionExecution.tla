------------------------ MODULE MCFunctionExecution ------------------------
EXTENDS FunctionExecution, MCFunctions

HasCalls(p) ==
  \E b \in Blocks : \E k \in 1..Len(p.body[b]) : p.body[b][k].op \in {"call", "dyncall"}

(***************************************************************************)
(* The functions that are run meet the hypotheses of the soundness         *)
(* theorems (FunctionExecutionProofs), those with calls also the ones of   *)
(* the theorems about calls.                                               *)
(***************************************************************************)
ASSUME FunctionsAnalyzable ==
  /\ \A p \in Programs :
       /\ Analyzable(p) /\ UnlocksAgree(p) /\ LocksAgree(p)
       /\ HasCalls(p) => PathsComplete(p) /\ AcquiresDeclared(p) /\ TargetsKeepLocks(p)
  /\ NamesDistinct

(***************************************************************************)
(* Those of MCConditionalDefer miss one of them: some defer an unlock on   *)
(* one of two paths to a block.                                            *)
(***************************************************************************)
ASSUME OneHypothesisMissed ==
  /\ \A p \in ConditionalDefers : Analyzable(p) /\ LocksAgree(p)
  /\ \E p \in ConditionalDefers : ~UnlocksAgree(p)

=============================================================================
