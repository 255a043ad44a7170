------------------------------ MODULE Reporter ------------------------------
(***************************************************************************)
(* The collection of diagnostics all passes share: utils/report.           *)
(*                                                                         *)
(* A diagnostic is a record of pos and message; file, line and column      *)
(* follow from pos, and pos 0 is token.NoPos.  Before(d, e) is the order   *)
(* of file, line, column and message.                                      *)
(***************************************************************************)
EXTENDS SequencesExt

CONSTANT Before(_, _)

VARIABLES
  IgnoreMissingAnnotations,   \* a flag of the command line
  Findings, Warnings,         \* sequences of diagnostics
  seen, seenWarnings,         \* the keys of those recorded
  output                      \* the reports shown to the user: none or one

reporterVars == <<IgnoreMissingAnnotations, Findings, Warnings, seen, seenWarnings, output>>

NewReporter ==
  /\ Findings = <<>> /\ Warnings = <<>>
  /\ seen = {} /\ seenWarnings = {}

diagnosticKey(d) == <<d.pos, d.message>>

-----------------------------------------------------------------------------
\* Slip: what is recorded is not marked as seen.
WarnUnmarked(d) ==
  /\ Findings' = IF diagnosticKey(d) \in seen THEN Findings ELSE Append(Findings, d)
  /\ UNCHANGED <<IgnoreMissingAnnotations, Warnings, seen, seenWarnings, output>>

Warn(d) ==
  /\ IF diagnosticKey(d) \in seen
     THEN UNCHANGED <<Findings, seen>>
     ELSE /\ Findings' = Append(Findings, d)
          /\ seen' = seen \cup {diagnosticKey(d)}
  /\ UNCHANGED <<IgnoreMissingAnnotations, Warnings, seenWarnings, output>>

WarnHeuristic(d) ==
  /\ IF IgnoreMissingAnnotations \/ diagnosticKey(d) \in seenWarnings
     THEN UNCHANGED <<Warnings, seenWarnings>>
     ELSE /\ Warnings' = Append(Warnings, d)
          /\ seenWarnings' = seenWarnings \cup {diagnosticKey(d)}
  /\ UNCHANGED <<IgnoreMissingAnnotations, Findings, seen, output>>

(***************************************************************************)
(* sort.Slice: some permutation in order (it need not be stable).  That a  *)
(* permutation is a bijection is said for the proofs, to which the         *)
(* operator of module TLC means nothing.                                   *)
(***************************************************************************)
sortDiagnostics(diags) ==
  LET D == DOMAIN diags
      Sorts(q) == \A j, k \in D : j < k => ~Before(diags[q[k]], diags[q[j]])
  IN  {[k \in D |-> diags[perm[k]]] :
         perm \in {q \in Permutations(D) : q \in Bijection(D, D) /\ Sorts(q)}}

(***************************************************************************)
(* The lists are sorted in place and then shown in that order.             *)
(***************************************************************************)
PrintReport ==
  /\ Findings' \in sortDiagnostics(Findings)
  /\ Warnings' \in sortDiagnostics(Warnings)
  /\ output' = {[findings |-> Range(Findings'), warnings |-> Range(Warnings')]}
  /\ UNCHANGED <<IgnoreMissingAnnotations, seen, seenWarnings>>

(***************************************************************************)
(* The end of runGoAnalysis, a pass of go vet: the findings that have a    *)
(* position, and no warnings; go vet puts them in its own order.           *)
(***************************************************************************)
PassReport ==
  /\ output' = {[findings |-> {d \in Range(Findings) : d.pos # 0}, warnings |-> {}]}
  /\ UNCHANGED <<IgnoreMissingAnnotations, Findings, Warnings, seen, seenWarnings>>

=============================================================================
