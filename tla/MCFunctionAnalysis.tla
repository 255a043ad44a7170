------------------------ MODULE MCFunctionAnalysis ------------------------
EXTENDS FunctionAnalysis, MCFunctions

(***************************************************************************)
(* The functions that are analysed meet the hypotheses of the theorems     *)
(* (FunctionAnalysisProofs).                                               *)
(***************************************************************************)
ASSUME FunctionsComparable ==
  /\ \A p \in Programs :
       /\ WellFormed(p) /\ PathsComplete(p)
       /\ UnlocksAgree(p) /\ LocksAgree(p) /\ CallsKeepLocks(p)
       /\ p.returns \subseteq Locks \cup {Nil}
  /\ NamesDistinct
===========================================================================
