------------------------- MODULE MCConditionalDefer -------------------------
(***************************************************************************)
(* The functions ConditionalDefers miss one hypothesis of the soundness    *)
(* theorems (MCFunctionExecution).                                         *)
(***************************************************************************)
EXTENDS FunctionExecution, MCFunctions
=============================================================================
