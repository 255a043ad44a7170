---------------------------- MODULE DiagnosticLog ----------------------------
(***************************************************************************)
(* What the reporter promises to whoever records a diagnostic: nothing is  *)
(* forgotten, nothing is recorded once the report is out, and the report,  *)
(* published once, shows what was recorded by then.  A front end may leave *)
(* out what has no place in the source (pos 0) and the advisory warnings.  *)
(***************************************************************************)

VARIABLES
  findings,   \* the set of findings recorded so far
  warnings,   \* the set of advisory warnings recorded so far
  reports     \* the reports published: none or one

logVars == <<findings, warnings, reports>>

LogInit == findings = {} /\ warnings = {} /\ reports = {}

Grow ==
  /\ reports = {}
  /\ findings \subseteq findings' /\ warnings \subseteq warnings'
  /\ UNCHANGED reports

Publish ==
  /\ reports = {}
  /\ \E f \in {findings, {d \in findings : d.pos # 0}}, w \in {warnings, {}} :
       reports' = {[findings |-> f, warnings |-> w]}
  /\ UNCHANGED <<findings, warnings>>

LogNext == Grow \/ Publish

LogSpec == LogInit /\ [][LogNext]_logVars

==============================================================================
