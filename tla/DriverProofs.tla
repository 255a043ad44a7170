---------------------------- MODULE DriverProofs ----------------------------
(***************************************************************************)
(* Proofs about a run, for any programs of the shape that Driver assumes,  *)
(* any inputs and any order of diagnostics: first about the reporter and   *)
(* the end of a run, then about the registry and the contract a function   *)
(* is given, about what an analysis records and which lock a target means, *)
(* then about the analyses of a whole run, and in the end about the guards *)
(* of fields.                                                              *)
(***************************************************************************)
EXTENDS Driver, BoundedInduction, TLAPS

(***************************************************************************)
(* A list of the reporter is a sequence without repetition, and its keys   *)
(* are the ones marked as seen.                                            *)
(***************************************************************************)
Recorded(list, keys) ==
  /\ list \in Seq(Range(list))
  /\ \A j, k \in DOMAIN list : list[j] = list[k] => j = k
  /\ keys = {diagnosticKey(d) : d \in Range(list)}

(***************************************************************************)
(* Appending adds one element.                                             *)
(***************************************************************************)
LEMMA AppendRange ==
  ASSUME NEW s, s \in Seq(Range(s)), NEW d
  PROVE  /\ Append(s, d) \in Seq(Range(Append(s, d)))
         /\ Range(Append(s, d)) = Range(s) \cup {d}
<1> DEFINE T == Range(s) \cup {d}
           t == Append(s, d)
<1>1. s \in Seq(T) /\ d \in T
  OBVIOUS
<1>2. /\ t \in Seq(T) /\ DOMAIN t = 1..Len(s) + 1 /\ DOMAIN s = 1..Len(s)
      /\ \A k \in 1..Len(s) : t[k] = s[k]
      /\ t[Len(s) + 1] = d
      /\ Len(s) \in Nat /\ Len(t) = Len(s) + 1
  BY <1>1
<1>3. Range(t) = T
  BY <1>2 DEF Range
<1>4. QED
  BY <1>2, <1>3

(***************************************************************************)
(* Recording a diagnostic whose key was not seen keeps a list consistent.  *)
(***************************************************************************)
LEMMA AppendRecorded ==
  ASSUME NEW list, NEW keys, Recorded(list, keys), NEW d, diagnosticKey(d) \notin keys
  PROVE  Recorded(Append(list, d), keys \cup {diagnosticKey(d)})
<1> DEFINE t == Append(list, d)
<1>1. t \in Seq(Range(t)) /\ Range(t) = Range(list) \cup {d}
  BY AppendRange DEF Recorded
<1>2. d \notin Range(list)
  BY DEF Recorded
<1>3. /\ DOMAIN t = 1..Len(list) + 1 /\ DOMAIN list = 1..Len(list) /\ Len(list) \in Nat
      /\ \A k \in 1..Len(list) : t[k] = list[k]
      /\ t[Len(list) + 1] = d
  <2>1. list \in Seq(Range(list) \cup {d})
    BY DEF Recorded
  <2>2. QED
    BY <2>1
<1>4. \A j, k \in DOMAIN t : t[j] = t[k] => j = k
  <2> SUFFICES ASSUME NEW j \in DOMAIN t, NEW k \in DOMAIN t, t[j] = t[k], j # k
               PROVE  FALSE
    OBVIOUS
  <2>1. CASE j \in 1..Len(list) /\ k \in 1..Len(list)
    BY <1>3, <2>1 DEF Recorded
  <2>2. CASE j = Len(list) + 1 \/ k = Len(list) + 1
    BY <1>2, <1>3, <2>2 DEF Range
  <2>3. QED
    BY <1>3, <2>1, <2>2
<1>5. keys \cup {diagnosticKey(d)} = {diagnosticKey(x) : x \in Range(t)}
  BY <1>1 DEF Recorded
<1>6. QED
  BY <1>1, <1>4, <1>5 DEF Recorded

(***************************************************************************)
(* Sorting a list keeps its elements and repeats none.                     *)
(***************************************************************************)
LEMMA SortRecorded ==
  ASSUME NEW list, NEW keys, Recorded(list, keys), NEW sorted \in sortDiagnostics(list)
  PROVE  Recorded(sorted, keys) /\ Range(sorted) = Range(list)
<1> DEFINE D == DOMAIN list
<1>1. PICK perm \in Bijection(D, D) : sorted = [k \in D |-> list[perm[k]]]
  BY DEF sortDiagnostics
<1>2. /\ perm \in [D -> D] /\ \A w \in D : \E v \in D : perm[v] = w
      /\ \A j, k \in D : perm[j] = perm[k] => j = k
  BY DEF Bijection, Injection, Surjection, IsInjective
<1>3. D = 1..Len(list) /\ Len(list) \in Nat /\ list \in [D -> Range(list)]
  BY DEF Recorded, Range
<1>4. Range(sorted) = Range(list)
  BY <1>1, <1>2 DEF Range
<1>5. sorted \in Seq(Range(sorted))
  <2>1. sorted \in [1..Len(list) -> Range(list)]
    BY <1>1, <1>2, <1>3
  <2>2. QED
    BY <1>3, <1>4, <2>1
<1>7. \A j, k \in DOMAIN sorted : sorted[j] = sorted[k] => j = k
  BY <1>1, <1>2 DEF Recorded
<1>8. QED
  BY <1>4, <1>5, <1>7 DEF Recorded

-----------------------------------------------------------------------------
(***************************************************************************)
(* Where a run may be: only a run that is still analysing has work left,   *)
(* and it has shown nothing.                                               *)
(***************************************************************************)
QueueInv ==
  /\ packages \in Seq(Range(input.loaded))
  /\ None \notin Range(input.loaded)

StageInv ==
  /\ stage = "analyse" => output = {}
  /\ stage # "analyse" => outbox = <<>> /\ current = None
  /\ current = None => members = {} /\ nested = <<>>

(***************************************************************************)
(* The lists of the reporter and the maps of the keys seen agree.          *)
(***************************************************************************)
ReporterConsistent == Recorded(Findings, seen) /\ Recorded(Warnings, seenWarnings)

Inv == QueueInv /\ StageInv /\ ReporterConsistent

LEMMA InitInv == Init => Inv
<1> SUFFICES ASSUME Init
             PROVE  Inv
  OBVIOUS
<1>1. QueueInv
  BY InputsAssumption DEF Init, QueueInv
<1>2. StageInv
  BY DEF Init, NewReporter, StageInv
<1>3. ReporterConsistent
  <2>1. Findings = <<>> /\ Warnings = <<>> /\ seen = {} /\ seenWarnings = {}
    BY DEF Init, NewReporter
  <2>2. Range(<<>>) = {}
    BY DEF Range
  <2> QED
    BY <2>1, <2>2 DEF ReporterConsistent, Recorded
<1> QED
  BY <1>1, <1>2, <1>3 DEF Inv

-----------------------------------------------------------------------------
(***************************************************************************)
(* Recording and reporting keep the lists consistent; recording only adds, *)
(* a report shows what the lists hold.                                     *)
(***************************************************************************)
LEMMA WarnRecords ==
  ASSUME ReporterConsistent, NEW d, Warn(d) \/ WarnHeuristic(d)
  PROVE  /\ ReporterConsistent'
         /\ Range(Findings) \subseteq Range(Findings')
         /\ Range(Warnings) \subseteq Range(Warnings')
         /\ output' = output
<1>1. CASE Warn(d)
  <2>1. CASE diagnosticKey(d) \in seen
    BY <1>1, <2>1 DEF Warn, ReporterConsistent
  <2>2. CASE diagnosticKey(d) \notin seen
    <3>1. Recorded(Append(Findings, d), seen \cup {diagnosticKey(d)})
      BY <2>2, AppendRecorded DEF ReporterConsistent
    <3>2. Range(Append(Findings, d)) = Range(Findings) \cup {d}
      BY AppendRange DEF ReporterConsistent, Recorded
    <3> QED
      BY <1>1, <2>2, <3>1, <3>2 DEF Warn, ReporterConsistent
  <2> QED
    BY <2>1, <2>2
<1>2. CASE WarnHeuristic(d)
  <2>1. CASE IgnoreMissingAnnotations \/ diagnosticKey(d) \in seenWarnings
    BY <1>2, <2>1 DEF WarnHeuristic, ReporterConsistent
  <2>2. CASE ~(IgnoreMissingAnnotations \/ diagnosticKey(d) \in seenWarnings)
    <3>1. Recorded(Append(Warnings, d), seenWarnings \cup {diagnosticKey(d)})
      BY <2>2, AppendRecorded DEF ReporterConsistent
    <3>2. Range(Append(Warnings, d)) = Range(Warnings) \cup {d}
      BY AppendRange DEF ReporterConsistent, Recorded
    <3> QED
      BY <1>2, <2>2, <3>1, <3>2 DEF WarnHeuristic, ReporterConsistent
  <2> QED
    BY <2>1, <2>2
<1> QED
  BY <1>1, <1>2

LEMMA PrintReports ==
  ASSUME ReporterConsistent, PrintReport
  PROVE  /\ ReporterConsistent'
         /\ Range(Findings') = Range(Findings) /\ Range(Warnings') = Range(Warnings)
         /\ output' = {[findings |-> Range(Findings), warnings |-> Range(Warnings)]}
<1>1. Recorded(Findings', seen) /\ Range(Findings') = Range(Findings)
  BY SortRecorded DEF PrintReport, ReporterConsistent
<1>2. Recorded(Warnings', seenWarnings) /\ Range(Warnings') = Range(Warnings)
  BY SortRecorded DEF PrintReport, ReporterConsistent
<1> QED
  BY <1>1, <1>2 DEF PrintReport, ReporterConsistent

LEMMA PassReports ==
  ASSUME ReporterConsistent, PassReport
  PROVE  /\ ReporterConsistent'
         /\ Range(Findings') = Range(Findings) /\ Range(Warnings') = Range(Warnings)
BY DEF PassReport, ReporterConsistent

-----------------------------------------------------------------------------
LEMMA StepInv == Inv /\ Step => Inv'
<1> SUFFICES ASSUME Inv, Step
             PROVE  Inv'
  OBVIOUS
<1> USE DEF Inv
<1>1. ASSUME RunPackage
      PROVE  Inv'
  <2>1. Head(packages) # None /\ Tail(packages) \in Seq(Range(input.loaded))
    BY <1>1 DEF RunPackage, QueueInv
  <2>2. QueueInv'
    BY <1>1, <2>1 DEF RunPackage, QueueInv, annotations
  <2>3. StageInv'
    BY <1>1, <2>1 DEF RunPackage, StageInv, reporterVars
  <2>4. ReporterConsistent'
    BY <1>1 DEF RunPackage, ReporterConsistent, reporterVars
  <2> QED
    BY <2>2, <2>3, <2>4
<1>2. ASSUME NEW fn, AnalyzeFunction(fn)
      PROVE  Inv'
  <2>1. stage = "analyse" /\ current # None
    BY <1>2 DEF AnalyzeFunction, StageInv
  <2>2. QueueInv'
    BY <1>2 DEF AnalyzeFunction, QueueInv, annotations
  <2>3. stage' = stage /\ current' = current /\ output' = output
    BY <1>2 DEF AnalyzeFunction, reporterVars
  <2>4. StageInv'
    BY <2>1, <2>3 DEF StageInv
  <2>5. ReporterConsistent'
    BY <1>2 DEF AnalyzeFunction, ReporterConsistent, reporterVars
  <2> QED
    BY <2>2, <2>4, <2>5
<1>3. ASSUME FinishPackage
      PROVE  Inv'
  <2>1. QueueInv'
    BY <1>3 DEF FinishPackage, QueueInv, annotations
  <2>2. stage = "analyse" /\ stage' = stage /\ output' = output
    BY <1>3 DEF FinishPackage, StageInv, reporterVars
  <2>3. members' = {} /\ nested' = <<>>
    BY <1>3 DEF FinishPackage
  <2>4. StageInv'
    BY <2>2, <2>3 DEF StageInv
  <2>5. ReporterConsistent'
    BY <1>3 DEF FinishPackage, ReporterConsistent, reporterVars
  <2> QED
    BY <2>1, <2>4, <2>5
<1>4. ASSUME Record
      PROVE  Inv'
  <2>1. PICK d : Warn(d) \/ WarnHeuristic(d)
    BY <1>4 DEF Record
  <2>2. ReporterConsistent' /\ output' = output
    BY <2>1, WarnRecords
  <2>3. QueueInv'
    BY <1>4 DEF Record, QueueInv, annotations, control
  <2>4. StageInv'
    BY <1>4, <2>2 DEF Record, StageInv, control
  <2> QED
    BY <2>2, <2>3, <2>4
<1>5. ASSUME Report
      PROVE  Inv'
  <2>1. ReporterConsistent'
    BY <1>5, PrintReports, PassReports DEF Report
  <2>2. QueueInv'
    BY <1>5 DEF Report, QueueInv, annotations
  <2>3. StageInv'
    BY <1>5 DEF Report, StageInv
  <2> QED
    BY <2>1, <2>2, <2>3
<1> QED
  BY <1>1, <1>2, <1>3, <1>4, <1>5 DEF Step

LEMMA StutterInv == Inv /\ UNCHANGED vars => Inv'
BY DEF Inv, QueueInv, StageInv, ReporterConsistent,
       vars, annotations, control, history, reporterVars

LEMMA AlwaysInv == Spec => []Inv
<1>1. Init => Inv
  BY InitInv
<1>2. Inv /\ [Next]_vars => Inv'
  BY StepInv, StutterInv DEF Next, Terminating
<1> QED
  BY <1>1, <1>2, PTL DEF Spec

-----------------------------------------------------------------------------
(***************************************************************************)
(* In every run, whatever the programs, the flags and the order of maps,   *)
(* a diagnostic is in its list at most once, before and after the list is  *)
(* sorted, and the maps seen hold exactly the keys of the lists            *)
(* (report.go:37-73, 88-131).                                              *)
(***************************************************************************)
THEOREM ListsConsistent == Spec => []ReporterConsistent
<1>1. Inv => ReporterConsistent
  BY DEF Inv
<1> QED
  BY <1>1, AlwaysInv, PTL

(***************************************************************************)
(* Every run of either front end, over any packages, implements the log of *)
(* module DiagnosticLog: what is recorded is never lost, not even by the   *)
(* sort in place, nothing is recorded after the report, and the report is  *)
(* given once.                                                             *)
(***************************************************************************)
THEOREM RunImplementsLog == Spec => ImplementsLog
<1>1. Init => Log!LogInit
  <2> SUFFICES ASSUME Init
               PROVE  Log!LogInit
    OBVIOUS
  <2>1. Range(<<>>) = {}
    BY DEF Range
  <2>2. (IF stage = "refused" THEN {} ELSE output) = {}
    BY DEF Init
  <2> QED
    BY <2>1, <2>2 DEF Init, NewReporter, Log!LogInit
<1>2. Inv /\ [Next]_vars => [Log!LogNext]_(Log!logVars)
  <2> SUFFICES ASSUME Inv, [Next]_vars
               PROVE  Log!LogNext \/ UNCHANGED Log!logVars
    OBVIOUS
  <2> USE DEF Inv
  <2>1. CASE UNCHANGED <<stage, reporterVars>>
    BY <2>1 DEF reporterVars, Log!logVars
  <2>2. CASE Record
    <3>1. output = {} /\ stage = "analyse" /\ stage' = "analyse"
      BY <2>2 DEF Record, StageInv, control
    <3>2. PICK d : Warn(d) \/ WarnHeuristic(d)
      BY <2>2 DEF Record
    <3>3. Log!Grow
      BY <3>1, <3>2, WarnRecords DEF Log!Grow
    <3> QED
      BY <3>3 DEF Log!LogNext
  <2>3. CASE Report
    <3>1. output = {} /\ stage = "analyse" /\ stage' = "done"
      BY <2>3 DEF Report, StageInv
    <3>2. CASE PrintReport
      BY <3>1, <3>2, PrintReports DEF Log!LogNext, Log!Publish
    <3>3. CASE PassReport
      <4>1. output' = {[findings |-> {d \in Range(Findings) : d.pos # 0}, warnings |-> {}]}
        BY <3>3 DEF PassReport
      <4>2. Range(Findings') = Range(Findings) /\ Range(Warnings') = Range(Warnings)
        BY <3>3, PassReports
      <4> QED
        BY <3>1, <4>1, <4>2 DEF Log!LogNext, Log!Publish
    <3> QED
      BY <2>3, <3>2, <3>3 DEF Report
  <2>4. Record \/ Report \/ UNCHANGED <<stage, reporterVars>>
    BY DEF Next, Step, RunPackage, AnalyzeFunction, FinishPackage, Terminating, vars, control
  <2> QED
    BY <2>1, <2>2, <2>3, <2>4
<1> QED
  BY <1>1, <1>2, AlwaysInv, PTL DEF Spec, ImplementsLog, Log!LogSpec

-----------------------------------------------------------------------------
(***************************************************************************)
(* The registry after each of a sequence of declarations.                  *)
(***************************************************************************)
Visits(g, p, decls) ==
  g = [n \in 0..Len(decls) |->
         IF n = 0 THEN NewContractRegistry ELSE VisitDecl(g[n - 1], p, decls[n])]

LEMMA VisitsExist ==
  ASSUME NEW p, NEW D, NEW decls \in Seq(D)
  PROVE  \E g : Visits(g, p, decls)
<1> DEFINE N == Len(decls)
           Until(g, m) == \A n \in 0..m : g[n] = IF n = 0 THEN NewContractRegistry
                                                 ELSE VisitDecl(g[n - 1], p, decls[n])
           T == {m \in 0..N : \E g : Until(g, m)}
<1>1. N \in Nat
  OBVIOUS
<1>2. 0 \in T
  <2>1. Until([n \in 0..0 |-> NewContractRegistry], 0)
    OBVIOUS
  <2> HIDE DEF Until
  <2> QED
    BY <1>1, <2>1
<1>3. \A m \in 1..N : m - 1 \in T => m \in T
  <2> SUFFICES ASSUME NEW m \in 1..N, m - 1 \in T
               PROVE  m \in 0..N /\ \E g : Until(g, m)
    OBVIOUS
  <2>1. PICK g : Until(g, m - 1)
    OBVIOUS
  <2> DEFINE h == [n \in 0..m |-> IF n = m THEN VisitDecl(g[m - 1], p, decls[m]) ELSE g[n]]
  <2>2. h[m] = VisitDecl(h[m - 1], p, decls[m])
    <3>1. m - 1 \in 0..m /\ m \in 0..m /\ m - 1 # m
      BY <1>1
    <3> QED
      BY <3>1
  <2>3. \A n \in 0..(m - 1) : h[n] = g[n] /\ (n # 0 => h[n - 1] = g[n - 1])
    BY <1>1
  <2>4. Until(h, m)
    <3> SUFFICES ASSUME NEW n \in 0..m
                 PROVE  h[n] = IF n = 0 THEN NewContractRegistry ELSE VisitDecl(h[n - 1], p, decls[n])
      OBVIOUS
    <3> HIDE DEF h
    <3>1. CASE n = m
      BY <2>2, <3>1
    <3>2. CASE n # m
      <4>1. n \in 0..(m - 1)
        BY <1>1, <3>2
      <4>2. g[n] = IF n = 0 THEN NewContractRegistry ELSE VisitDecl(g[n - 1], p, decls[n])
        BY <2>1, <4>1
      <4> QED
        BY <2>3, <4>1, <4>2
    <3> QED
      BY <3>1, <3>2
  <2>5. m \in 0..N
    BY <1>1
  <2> HIDE DEF h, Until
  <2> QED
    BY <2>4, <2>5
<1>4. PICK g : Until(g, N)
  <2>1. N \in 0..N
    BY <1>1
  <2>2. 0..N \subseteq T
    <3> HIDE DEF T
    <3> QED
      BY <1>1, <1>2, <1>3, IntervalInduction
  <2> QED
    BY <2>1, <2>2
<1>5. Visits([n \in 0..N |-> g[n]], p, decls)
  <2>1. \A n \in 0..N : n # 0 => n - 1 \in 0..N
    BY <1>1
  <2> QED
    BY <1>4, <2>1 DEF Visits
<1> QED
  BY <1>5

LEMMA PopulatedStepwise ==
  ASSUME NEW p, NEW D, NEW decls \in Seq(D)
  PROVE  \E g : /\ g[0] = NewContractRegistry
                /\ \A n \in 1..Len(decls) : g[n] = VisitDecl(g[n - 1], p, decls[n])
                /\ PopulateRegistryFromFiles(p, decls) = g[Len(decls)]
<1> DEFINE after == CHOOSE g : Visits(g, p, decls)
<1>1. Visits(after, p, decls)
  BY VisitsExist
<1>2. PopulateRegistryFromFiles(p, decls) = after[Len(decls)]
  BY DEF PopulateRegistryFromFiles, Visits
<1>3. Len(decls) \in Nat
  OBVIOUS
<1> HIDE DEF after
<1>4. after[0] = NewContractRegistry
  BY <1>1, <1>3 DEF Visits
<1>5. \A n \in 1..Len(decls) : after[n] = VisitDecl(after[n - 1], p, decls[n])
  BY <1>1, <1>3 DEF Visits
<1> QED
  BY <1>2, <1>4, <1>5

-----------------------------------------------------------------------------
Func(d) == d.kind = "func"

(***************************************************************************)
(* What a registry holds after the first n declarations: every entry is    *)
(* the contract of one of them, and a declaration whose key is no other's  *)
(* has its own contract there.                                             *)
(***************************************************************************)
HasKey(p, decls, k) ==
  \A j \in DOMAIN decls :
    Func(decls[j]) /\ DeclKey(p, decls[j]) = DeclKey(p, decls[k])
    => handleFuncDecl(decls[j]) = handleFuncDecl(decls[k])

Filed(reg, p, decls, n) ==
  /\ reg = [functions |-> reg.functions, byPos |-> reg.byPos, data |-> reg.data]
  /\ \A key \in DOMAIN reg.functions : \E k \in 1..n :
       /\ Func(decls[k])
       /\ key \in {DeclKey(p, decls[k]), PlainKey(decls[k])}
       /\ reg.functions[key] = handleFuncDecl(decls[k])
  /\ \A pos \in DOMAIN reg.byPos : \E k \in 1..n :
       /\ Func(decls[k])
       /\ pos = decls[k].pos
       /\ reg.byPos[pos] = handleFuncDecl(decls[k])
  /\ \A k \in 1..n : Func(decls[k]) /\ HasKey(p, decls, k) =>
       /\ DeclKey(p, decls[k]) \in DOMAIN reg.functions
       /\ reg.functions[DeclKey(p, decls[k])] = handleFuncDecl(decls[k])

LEMMA VisitFiles ==
  ASSUME NEW p, NEW D, NEW decls \in Seq(D), NEW n \in DOMAIN decls,
         decls[n].kind \in {"func", "var", "type"},
         NEW reg, Filed(reg, p, decls, n - 1)
  PROVE  Filed(VisitDecl(reg, p, decls[n]), p, decls, n)
<1> DEFINE d == decls[n]
           new == VisitDecl(reg, p, d)
<1>1. n \in Nat \ {0} /\ 1..(n - 1) \subseteq 1..n /\ n \in 1..n /\ 1..n = 1..(n - 1) \cup {n}
      /\ 1..n \subseteq DOMAIN decls
  OBVIOUS
<1>2. CASE d.kind # "func"
  <2>1. /\ new = [functions |-> new.functions, byPos |-> new.byPos, data |-> new.data]
        /\ new.functions = reg.functions /\ new.byPos = reg.byPos
    <3>1. reg = [functions |-> reg.functions, byPos |-> reg.byPos, data |-> reg.data]
      BY DEF Filed
    <3>2. PICK x : new = [reg EXCEPT !.data = x]
      <4>1. CASE d.kind = "var"
        BY <4>1 DEF VisitDecl
      <4>2. CASE d.kind = "type"
        BY <4>2 DEF VisitDecl
      <4> QED
        BY <1>2, <4>1, <4>2
    <3> HIDE DEF new
    <3> QED
      BY <3>1, <3>2
  <2>2. ~Func(d)
    BY <1>2 DEF Func
  <2> HIDE DEF new, d
  <2>3. \A k \in 1..n : Func(decls[k]) => k \in 1..(n - 1)
    BY <1>1, <2>2 DEF d
  <2>4. Filed(new, p, decls, n)
    BY <1>1, <2>1, <2>3 DEF Filed
  <2> QED
    BY <2>4 DEF new, d
<1>3. CASE d.kind = "func"
  <2> DEFINE c == handleFuncDecl(d)
             key == DeclKey(p, d)
             plain == PlainKey(d)
             keys == {key} \cup ({plain} \ DOMAIN reg.functions)
             fs == Assign(reg.functions, keys, c)
             ps == Assign(reg.byPos, {d.pos}, c)
  <2>1. /\ new = [functions |-> fs, byPos |-> ps, data |-> reg.data]
        /\ Func(d)
    <3>1. reg = [functions |-> reg.functions, byPos |-> reg.byPos, data |-> reg.data]
      BY DEF Filed
    <3>2. new = VisitFunc(reg, p, d)
      BY <1>3 DEF VisitDecl
    <3>3. new = [reg EXCEPT !.functions = fs, !.byPos = ps]
      BY <3>2 DEF VisitFunc
    <3> HIDE DEF new, fs, ps
    <3> QED
      BY <1>3, <3>1, <3>3 DEF Func
  <2>2. /\ DOMAIN fs = DOMAIN reg.functions \cup keys
        /\ \A x \in keys : fs[x] = c
        /\ \A x \in DOMAIN reg.functions \ keys : fs[x] = reg.functions[x]
    <3> HIDE DEF keys, c
    <3> QED
      BY DEF Assign
  <2>3. /\ DOMAIN ps = DOMAIN reg.byPos \cup {d.pos}
        /\ ps[d.pos] = c
        /\ \A x \in DOMAIN reg.byPos \ {d.pos} : ps[x] = reg.byPos[x]
    <3> HIDE DEF c
    <3> QED
      BY DEF Assign
  <2> HIDE DEF fs, ps, c
  <2>4. \A x \in DOMAIN fs : \E k \in 1..n :
          /\ Func(decls[k])
          /\ x \in {DeclKey(p, decls[k]), PlainKey(decls[k])}
          /\ fs[x] = handleFuncDecl(decls[k])
    <3> SUFFICES ASSUME NEW x \in DOMAIN fs
                 PROVE  \E k \in 1..n : /\ Func(decls[k])
                                        /\ x \in {DeclKey(p, decls[k]), PlainKey(decls[k])}
                                        /\ fs[x] = handleFuncDecl(decls[k])
      OBVIOUS
    <3>1. CASE x \in keys
      BY <1>1, <2>1, <2>2, <3>1 DEF c
    <3>2. CASE x \notin keys
      <4>1. x \in DOMAIN reg.functions /\ fs[x] = reg.functions[x]
        BY <2>2, <3>2
      <4> QED
        BY <1>1, <4>1 DEF Filed
    <3> QED
      BY <3>1, <3>2
  <2>5. \A x \in DOMAIN ps : \E k \in 1..n :
          /\ Func(decls[k])
          /\ x = decls[k].pos
          /\ ps[x] = handleFuncDecl(decls[k])
    <3> SUFFICES ASSUME NEW x \in DOMAIN ps
                 PROVE  \E k \in 1..n : /\ Func(decls[k])
                                        /\ x = decls[k].pos
                                        /\ ps[x] = handleFuncDecl(decls[k])
      OBVIOUS
    <3>1. CASE x = d.pos
      BY <1>1, <2>1, <2>3, <3>1 DEF c
    <3>2. CASE x # d.pos
      <4>1. x \in DOMAIN reg.byPos /\ ps[x] = reg.byPos[x]
        BY <2>3, <3>2
      <4> QED
        BY <1>1, <4>1 DEF Filed
    <3> QED
      BY <3>1, <3>2
  <2>6. \A k \in 1..n : Func(decls[k]) /\ HasKey(p, decls, k) =>
          /\ DeclKey(p, decls[k]) \in DOMAIN fs
          /\ fs[DeclKey(p, decls[k])] = handleFuncDecl(decls[k])
    <3> SUFFICES ASSUME NEW k \in 1..n, Func(decls[k]), HasKey(p, decls, k)
                 PROVE  /\ DeclKey(p, decls[k]) \in DOMAIN fs
                        /\ fs[DeclKey(p, decls[k])] = handleFuncDecl(decls[k])
      OBVIOUS
    <3> DEFINE x == DeclKey(p, decls[k])
    <3>1. CASE x = key
      <4>1. handleFuncDecl(d) = handleFuncDecl(decls[k])
        BY <2>1, <3>1 DEF HasKey
      <4> QED
        BY <2>2, <3>1, <4>1 DEF c
    <3>2. CASE x # key
      <4>1. k \in 1..(n - 1)
        BY <1>1, <3>2
      <4>2. x \in DOMAIN reg.functions /\ reg.functions[x] = handleFuncDecl(decls[k])
        BY <4>1 DEF Filed
      <4>3. x \notin keys
        BY <3>2, <4>2
      <4> QED
        BY <2>2, <4>2, <4>3
    <3> QED
      BY <3>1, <3>2
  <2>7. /\ new.functions = fs /\ new.byPos = ps
        /\ new = [functions |-> new.functions, byPos |-> new.byPos, data |-> new.data]
    <3> HIDE DEF new
    <3> QED
      BY <2>1
  <2> HIDE DEF new, d, key, plain, keys
  <2>8. Filed(new, p, decls, n)
    BY <2>4, <2>5, <2>6, <2>7 DEF Filed
  <2> QED
    BY <2>8 DEF new, d
<1> QED
  BY <1>2, <1>3

LEMMA PopulatedFiled ==
  ASSUME NEW p, NEW D, NEW decls \in Seq(D),
         \A n \in DOMAIN decls : decls[n].kind \in {"func", "var", "type"}
  PROVE  Filed(PopulateRegistryFromFiles(p, decls), p, decls, Len(decls))
<1> DEFINE N == Len(decls)
<1>1. N \in Nat /\ DOMAIN decls = 1..N
  OBVIOUS
<1>2. PICK g : /\ g[0] = NewContractRegistry
               /\ \A n \in 1..N : g[n] = VisitDecl(g[n - 1], p, decls[n])
               /\ PopulateRegistryFromFiles(p, decls) = g[N]
  BY PopulatedStepwise
<1> DEFINE T == {n \in 0..N : Filed(g[n], p, decls, n)}
<1>3. 0 \in T
  <2>1. Filed(NewContractRegistry, p, decls, 0)
    BY DEF Filed, NewContractRegistry
  <2> QED
    BY <1>1, <1>2, <2>1
<1>4. \A n \in 1..N : n - 1 \in T => n \in T
  <2> SUFFICES ASSUME NEW n \in 1..N, n - 1 \in T
               PROVE  n \in 0..N /\ Filed(g[n], p, decls, n)
    OBVIOUS
  <2>1. Filed(g[n - 1], p, decls, n - 1)
    OBVIOUS
  <2>2. n \in DOMAIN decls /\ n \in 0..N /\ decls[n].kind \in {"func", "var", "type"}
    BY <1>1
  <2>3. Filed(VisitDecl(g[n - 1], p, decls[n]), p, decls, n)
    BY <2>1, <2>2, VisitFiles
  <2> QED
    BY <1>2, <2>2, <2>3
<1>5. N \in T
  <2> HIDE DEF T
  <2>1. 0..N \subseteq T
    BY <1>1, <1>3, <1>4, IntervalInduction
  <2> QED
    BY <1>1, <2>1
<1> QED
  BY <1>2, <1>5

-----------------------------------------------------------------------------
(***************************************************************************)
(* What the order of attempts gives.                                       *)
(***************************************************************************)
LEMMA FirstFoundIs ==
  ASSUME NEW attempts, DOMAIN attempts \subseteq Nat, NEW k \in DOMAIN attempts,
         attempts[k] # None, \A j \in DOMAIN attempts : j < k => attempts[j] = None
  PROVE  FirstFound(attempts) = attempts[k]
<1> DEFINE found == {j \in DOMAIN attempts : attempts[j] # None}
           Least(i) == i \in found /\ \A j \in found : i <= j
<1>1. k \in found /\ \A j \in found : k <= j
  OBVIOUS
<1>2. \A i : Least(i) => i = k
  BY <1>1
<1>3. (CHOOSE i \in found : \A j \in found : i <= j) = k
  <2> HIDE DEF found
  <2> QED
    BY <1>1, <1>2
<1>4. found # {}
  BY <1>1
<1> QED
  BY <1>3, <1>4 DEF FirstFound

LEMMA FirstFoundNone ==
  ASSUME NEW attempts, \A k \in DOMAIN attempts : attempts[k] = None
  PROVE  FirstFound(attempts) = None
BY DEF FirstFound

LEMMA FirstFoundAmong ==
  ASSUME NEW n \in Nat, NEW attempts, DOMAIN attempts = 1..n
  PROVE  FirstFound(attempts) = None \/ \E k \in 1..n : FirstFound(attempts) = attempts[k]
<1> DEFINE found == {j \in 1..n : attempts[j] # None}
<1> SUFFICES ASSUME found # {}
             PROVE  \E k \in 1..n : FirstFound(attempts) = attempts[k]
  BY DEF FirstFound
<1>1. PICK m \in found : \A k \in found : m <= k
  <2>1. found \in SUBSET Nat
    OBVIOUS
  <2> HIDE DEF found
  <2> QED
    BY <2>1, LeastElement
<1>2. m \in 1..n /\ attempts[m] # None /\ \A j \in 1..n : j < m => attempts[j] = None
  BY <1>1
<1> QED
  BY <1>2, FirstFoundIs

-----------------------------------------------------------------------------
(***************************************************************************)
(* The annotations of a run: the registry of its program, and how the      *)
(* analysis of each function may go with it.                               *)
(***************************************************************************)
AnnotationInv ==
  /\ input \in Inputs
  /\ registry = PopulateRegistryFromFiles(prog, IF stage = "refused" THEN <<>> ELSE Files(input.loaded))
  /\ outcomes = [fn \in DOMAIN prog.fns |-> functionAnalyses(prog, fn, registry, strictMode)]

LEMMA FilesLoaded ==
  ASSUME input \in Inputs
  PROVE  /\ Files(input.loaded) \in Seq(Declarations)
         /\ Range(Files(input.loaded)) = Declarations
<1> DEFINE pkgs == input.loaded
           seqs == [k \in DOMAIN pkgs |-> prog.files[pkgs[k]]]
<1>1. /\ pkgs \in Seq(Range(pkgs))
      /\ \A pkg \in Range(pkgs) : prog.files[pkg] \in Seq(Range(prog.files[pkg]))
  BY InputsAssumption, PackagesAssumption DEF prog
<1>2. \A pkg \in Range(pkgs) : prog.files[pkg] \in Seq(Declarations)
  <2> SUFFICES ASSUME NEW pkg \in Range(pkgs)
               PROVE  prog.files[pkg] \in Seq(Declarations)
    OBVIOUS
  <2>1. Range(prog.files[pkg]) \subseteq Declarations
    BY DEF Declarations
  <2>2. prog.files[pkg] \in Seq(Range(prog.files[pkg]))
    BY <1>1
  <2> DEFINE s == prog.files[pkg]
  <2> HIDE DEF s
  <2> QED
    BY <2>1, <2>2 DEF s
<1>3. DOMAIN pkgs = 1..Len(pkgs) /\ Len(pkgs) \in Nat /\ \A k \in DOMAIN pkgs : pkgs[k] \in Range(pkgs)
  BY <1>1 DEF Range
<1>4. seqs \in Seq(Seq(Declarations))
  BY <1>2, <1>3
<1>5. UNION {Range(seqs[k]) : k \in DOMAIN seqs} = Declarations
  <2>1. DOMAIN seqs = DOMAIN pkgs /\ \A k \in DOMAIN pkgs : seqs[k] = prog.files[pkgs[k]]
    OBVIOUS
  <2>2. Range(pkgs) = {pkgs[k] : k \in DOMAIN pkgs}
    BY DEF Range
  <2> HIDE DEF seqs, pkgs
  <2>3. {Range(seqs[k]) : k \in DOMAIN seqs} = {Range(prog.files[pkg]) : pkg \in Range(pkgs)}
    BY <2>1, <2>2
  <2> QED
    BY <2>3 DEF Declarations, pkgs
<1> HIDE DEF seqs
<1> QED
  BY <1>4, <1>5, FlattenSeqType, FlattenSeqRange DEF Files, seqs

(***************************************************************************)
(* Every entry of the registry is the contract of a declaration, under its *)
(* key, its plain name or its position; and a declaration whose key is no  *)
(* other's is found under it.                                              *)
(***************************************************************************)
LEMMA RegistryEntries ==
  ASSUME AnnotationInv
  PROVE  /\ \A key \in DOMAIN registry.functions : \E d \in FuncDecls :
              /\ key \in {DeclKey(prog, d), PlainKey(d)}
              /\ registry.functions[key] = handleFuncDecl(d)
         /\ \A pos \in DOMAIN registry.byPos : \E d \in FuncDecls :
              pos = d.pos /\ registry.byPos[pos] = handleFuncDecl(d)
         /\ stage # "refused" => \A d \in FuncDecls :
              (\A e \in FuncDecls : DeclKey(prog, e) = DeclKey(prog, d) => e = d)
              => /\ DeclKey(prog, d) \in DOMAIN registry.functions
                 /\ registry.functions[DeclKey(prog, d)] = handleFuncDecl(d)
<1> DEFINE decls == IF stage = "refused" THEN <<>> ELSE Files(input.loaded)
           N == Len(decls)
<1>1. decls \in Seq(Declarations) /\ Range(decls) \subseteq Declarations
      /\ (stage # "refused" => Range(decls) = Declarations)
  <2>1. Range(<<>>) = {}
    BY DEF Range
  <2> QED
    BY <2>1, FilesLoaded DEF AnnotationInv
<1>2. \A d \in Declarations : d.kind \in {"func", "var", "type"}
  BY DeclarationsAssumption DEF AnnotationInv, prog, Declarations
<1>3. registry = PopulateRegistryFromFiles(prog, decls)
  BY DEF AnnotationInv
<1> HIDE DEF decls
<1>4. DOMAIN decls = 1..N /\ \A n \in 1..N : decls[n] \in Declarations
  BY <1>1
<1>5. Filed(registry, prog, decls, N)
  BY <1>1, <1>2, <1>3, <1>4, PopulatedFiled
<1>6. \A n \in 1..N : Func(decls[n]) => decls[n] \in FuncDecls
  BY <1>4 DEF FuncDecls, Func
<1>7. ASSUME NEW key \in DOMAIN registry.functions
      PROVE  \E d \in FuncDecls : key \in {DeclKey(prog, d), PlainKey(d)}
                                  /\ registry.functions[key] = handleFuncDecl(d)
  BY <1>5, <1>6 DEF Filed
<1>8. ASSUME NEW pos \in DOMAIN registry.byPos
      PROVE  \E d \in FuncDecls : pos = d.pos /\ registry.byPos[pos] = handleFuncDecl(d)
  BY <1>5, <1>6 DEF Filed
<1>9. ASSUME stage # "refused", NEW d \in FuncDecls,
             \A e \in FuncDecls : DeclKey(prog, e) = DeclKey(prog, d) => e = d
      PROVE  /\ DeclKey(prog, d) \in DOMAIN registry.functions
             /\ registry.functions[DeclKey(prog, d)] = handleFuncDecl(d)
  <2>1. PICK k \in 1..N : decls[k] = d
    BY <1>1, <1>4, <1>9 DEF Range, FuncDecls
  <2>2. Func(decls[k])
    BY <1>9, <2>1 DEF FuncDecls, Func
  <2>3. HasKey(prog, decls, k)
    BY <1>4, <1>6, <1>9, <2>1 DEF HasKey
  <2> QED
    BY <1>5, <2>1, <2>2, <2>3 DEF Filed
<1> QED
  BY <1>7, <1>8, <1>9

-----------------------------------------------------------------------------
(***************************************************************************)
(* The contract of a declaration, which is not None.                       *)
(***************************************************************************)
Typed(contract) ==
  contract # None => contract.expectations \in [AnnotationKinds -> Seq(Seq(STRING))]

LEMMA ParsedTargets ==
  ASSUME NEW S, NEW doc, doc \in Seq(Range(doc)), \A a \in Range(doc) : a.params \in Seq(S), NEW kind
  PROVE  ParseAnnotation(doc, kind) \in Seq(S)
<1> DEFINE seqs == [k \in DOMAIN doc |-> IF doc[k].name = kind THEN doc[k].params ELSE <<>>]
<1>1. DOMAIN doc = 1..Len(doc) /\ Len(doc) \in Nat /\ \A k \in DOMAIN doc : doc[k] \in Range(doc)
  BY DEF Range
<1>2. seqs \in Seq(Seq(S))
  <2>1. \A k \in DOMAIN doc : seqs[k] \in Seq(S)
    BY <1>1
  <2> QED
    BY <1>1, <2>1
<1> HIDE DEF seqs
<1> QED
  BY <1>2, FlattenSeqType DEF ParseAnnotation, seqs

LEMMA DeclaredContract ==
  ASSUME input \in Inputs, NEW d \in FuncDecls
  PROVE  handleFuncDecl(d) # None /\ Typed(handleFuncDecl(d))
<1> DEFINE c == handleFuncDecl(d)
<1>1. d.pos \in Nat /\ d.doc \in Seq(Range(d.doc)) /\ \A a \in Range(d.doc) : a.params \in Seq(Seq(STRING))
  <2>1. FuncDecls = {e \in UNION {Range(prog.files[pkg]) : pkg \in Range(input.loaded)} : e.kind = "func"}
    BY DEF FuncDecls, Declarations
  <2> QED
    BY <2>1, DeclarationsAssumption DEF prog, IsDoc
<1>2. \A kind \in AnnotationKinds : ParseAnnotation(d.doc, kind) \in Seq(Seq(STRING))
  BY <1>1, ParsedTargets
<1>3. c \in [pos : Nat, expectations : [AnnotationKinds -> Seq(Seq(STRING))]]
  BY <1>1, <1>2 DEF handleFuncDecl
<1> HIDE DEF c
<1>4. c # None /\ Typed(c)
  BY <1>3, NoneAssumption DEF Typed
<1> QED
  BY <1>4 DEF c

-----------------------------------------------------------------------------
(***************************************************************************)
(* The contracts that a function may be given, as the code tries them.     *)
(***************************************************************************)
Entry(f, key) == IF key \in DOMAIN f THEN f[key] ELSE None

Receiver(p, fn) ==
  CASE p.fns[fn].recv # None -> receiverTypeName(p, fn)
    [] p.fns[fn].recv = None /\ p.fns[fn].params # <<>> ->
         NormalizeTypeName(String(p, p.fns[fn].params[1].type))
    [] OTHER -> None

AsMethod(p, fn, reg) ==
  LET recv == Receiver(p, fn) IN
    IF recv = None
    THEN None
    ELSE FirstFound(<<Entry(reg.functions, MakeFunctionKey(p.fns[fn].name, recv)),
                      Entry(reg.functions, MakeFunctionKey(p.fns[fn].name, [recv EXCEPT !.ptr = ~@]))>>)

Attempts(p, fn, reg, best) ==
  <<Entry(reg.byPos, p.fns[fn].pos), AsMethod(p, fn, reg), best,
    Entry(reg.functions, MakeFunctionKey(p.fns[fn].name, None))>>

LEMMA ContractAttempts ==
  ASSUME NEW p, NEW fn, NEW reg
  PROVE  contractForFunction(p, fn, reg) =
           {FirstFound(Attempts(p, fn, reg, best)) : best \in bestResolvableSameNameContract(p, fn, reg)}
BY DEF contractForFunction, Attempts, AsMethod, Receiver, Entry

LEMMA BestContract ==
  ASSUME NEW p, NEW fn, NEW reg, NEW best \in bestResolvableSameNameContract(p, fn, reg), best # None
  PROVE  /\ expectationResolvableScore(p, fn, best) > 0
         /\ \E key \in DOMAIN reg.functions : key.name = p.fns[fn].name /\ best = reg.functions[key]
<1> DEFINE sameName == {reg.functions[key] :
                          key \in {k \in DOMAIN reg.functions : k.name = p.fns[fn].name}}
           score == [c \in sameName \cup {None} |->
                       IF c = None THEN 0 ELSE expectationResolvableScore(p, fn, c)]
<1>1. best \in sameName /\ score[best] > 0
  BY DEF bestResolvableSameNameContract
<1>2. score[best] = expectationResolvableScore(p, fn, best)
  <2> HIDE DEF sameName
  <2> QED
    BY <1>1
<1> HIDE DEF score
<1> QED
  BY <1>1, <1>2

(***************************************************************************)
(* How a type is written, and what is left of a path of one word.          *)
(***************************************************************************)
LEMMA TypesWritten ==
  ASSUME NEW p, NEW t
  PROVE  /\ String(p, t) = [ptr |-> t.ptr, path |-> p.paths[p.types[t.name].pkg], name |-> p.types[t.name].name]
         /\ Expr(p, t) = [ptr |-> t.ptr, path |-> <<>>, name |-> p.types[t.name].name]
BY DEF String, Expr

LEMMA NormalizedName ==
  ASSUME NEW p, NEW t
  PROVE  /\ NormalizeTypeName(String(p, t)).name = p.types[t.name].name
         /\ [NormalizeTypeName(String(p, t)) EXCEPT !.ptr = ~@].name = p.types[t.name].name
<1> DEFINE w == p.paths[p.types[t.name].pkg]
<1>1. NormalizeTypeName(String(p, t)) =
        [ptr |-> t.ptr, path |-> IF w = <<>> THEN <<>> ELSE Front(w), name |-> p.types[t.name].name]
  BY TypesWritten DEF NormalizeTypeName
<1> QED
  BY <1>1

LEMMA NormalizedWord ==
  ASSUME NEW p, NEW t, NEW path, path = p.paths[p.types[t.name].pkg],
         path \in Seq(Range(path)), Len(path) = 1
  PROVE  NormalizeTypeName(String(p, t)) = Expr(p, t)
<1>1. Front(path) = <<>>
  BY DEF Front
<1>2. String(p, t) = [ptr |-> t.ptr, path |-> path, name |-> p.types[t.name].name]
  BY TypesWritten
<1>3. NormalizeTypeName(String(p, t)) = [ptr |-> t.ptr, path |-> <<>>, name |-> p.types[t.name].name]
  BY <1>1, <1>2 DEF NormalizeTypeName
<1> QED
  BY <1>3, TypesWritten

LEMMA OwnKeyContract ==
  ASSUME AnnotationInv, stage # "refused", NEW fn \in DOMAIN prog.fns, NEW d \in FuncDecls,
         Declares(d, fn), HasOwnKey(fn), NEW c \in contractForFunction(prog, fn, registry)
  PROVE  c = handleFuncDecl(d)
<1> DEFINE f == prog.fns[fn]
           own == handleFuncDecl(d)
           Key(name, recv) == MakeFunctionKey(name, recv)
<1>1. /\ \A e \in FuncDecls : f.pos # e.pos /\ (e.recv # None => Expr(prog, e.recv) # None)
      /\ own # None
      /\ \A e \in FuncDecls : Declares(e, fn) => e = d
  <2>1. input \in Inputs
    BY DEF AnnotationInv
  <2>2. FuncDecls = {e \in UNION {Range(prog.files[pkg]) : pkg \in Range(input.loaded)} : e.kind = "func"}
    BY DEF FuncDecls, Declarations
  <2>3. \A e \in FuncDecls :
          /\ \A e2 \in FuncDecls : e.fn = e2.fn => e = e2
          /\ \A g \in DOMAIN prog.fns : prog.fns[g].pos # e.pos
          /\ e.recv # None => Expr(prog, e.recv) # None
    BY <2>1, <2>2, DeclarationsAssumption DEF prog
  <2> QED
    BY <2>1, <2>3, DeclaredContract DEF Declares
<1>2. PICK best \in bestResolvableSameNameContract(prog, fn, registry) :
        c = FirstFound(Attempts(prog, fn, registry, best))
  BY ContractAttempts
<1> DEFINE attempts == Attempts(prog, fn, registry, best)
<1>3. /\ DOMAIN attempts = {1, 2, 3, 4}
      /\ attempts[1] = Entry(registry.byPos, f.pos)
      /\ attempts[2] = AsMethod(prog, fn, registry)
      /\ attempts[3] = best
      /\ attempts[4] = Entry(registry.functions, Key(f.name, None))
  BY DEF Attempts
<1>4. attempts[1] = None
  BY <1>1, <1>3, RegistryEntries DEF Entry
<1>5. f.name = d.name /\ f.recv = d.recv
  BY DEF Declares
<1>6. \A e \in FuncDecls : e.name = f.name /\ e # d => e \in Namesakes(fn)
  BY <1>1 DEF Namesakes
<1>7. \A key \in DOMAIN registry.functions : \E e \in FuncDecls :
        /\ key \in {DeclKey(prog, e), PlainKey(e)}
        /\ registry.functions[key] = handleFuncDecl(e)
  BY RegistryEntries
<1>8. ASSUME \A e \in FuncDecls : DeclKey(prog, e) = DeclKey(prog, d) => e = d
      PROVE  Entry(registry.functions, DeclKey(prog, d)) = own
  BY <1>8, RegistryEntries DEF Entry
<1>9. CASE f.recv # None
  <2>1. Receiver(prog, fn) = Expr(prog, d.recv)
    <3> DEFINE t == prog.types[f.recv.name]
    <3>1. Len(prog.paths[t.pkg]) = 1 /\ prog.paths[t.pkg] \in Seq(Range(prog.paths[t.pkg]))
      <4>1. f.recv.name \in DOMAIN prog.types
        BY <1>9, FunctionsAssumption DEF AnnotationInv, prog
      <4>2. prog.paths[t.pkg] \in Seq(Range(prog.paths[t.pkg]))
        BY <4>1, FunctionsAssumption DEF AnnotationInv, prog
      <4> QED
        BY <1>9, <4>2 DEF HasOwnKey
    <3>4. NormalizeTypeName(String(prog, f.recv)) = Expr(prog, f.recv)
      BY <3>1, NormalizedWord
    <3> QED
      BY <1>5, <1>9, <3>4 DEF Receiver, receiverTypeName
  <2>2. \A e \in FuncDecls : DeclKey(prog, e) = DeclKey(prog, d) => e = d
    <3> SUFFICES ASSUME NEW e \in FuncDecls, DeclKey(prog, e) = DeclKey(prog, d), e # d
                 PROVE  FALSE
      OBVIOUS
    <3>1. d.recv # None /\ Expr(prog, d.recv) # None
      BY <1>1, <1>5, <1>9
    <3>2. e.name = d.name /\ e.recv # None /\ Expr(prog, e.recv) = Expr(prog, d.recv)
      BY <3>1 DEF DeclKey, MakeFunctionKey
    <3>3. prog.types[e.recv.name].name = prog.types[d.recv.name].name
      BY <3>2 DEF Expr
    <3>4. e \in Namesakes(fn) /\ SameReceiver(f.recv, e)
      BY <1>5, <1>6, <3>2, <3>3 DEF SameReceiver
    <3> QED
      BY <1>9, <3>4 DEF HasOwnKey
  <2>3. Entry(registry.functions, Key(f.name, Receiver(prog, fn))) = own
    <3>1. DeclKey(prog, d) = Key(f.name, Expr(prog, d.recv))
      BY <1>5, <1>9 DEF DeclKey
    <3> QED
      BY <1>8, <2>1, <2>2, <3>1
  <2>4. Receiver(prog, fn) # None
    BY <1>1, <1>5, <1>9, <2>1
  <2>5. AsMethod(prog, fn, registry) = own
    <3> DEFINE tries == <<Entry(registry.functions, Key(f.name, Receiver(prog, fn))),
                          Entry(registry.functions, Key(f.name, [Receiver(prog, fn) EXCEPT !.ptr = ~@]))>>
    <3>1. AsMethod(prog, fn, registry) = FirstFound(tries)
      BY <2>4 DEF AsMethod
    <3>2. DOMAIN tries = {1, 2} /\ tries[1] = own
      BY <2>3
    <3> HIDE DEF tries
    <3> QED
      BY <1>1, <3>1, <3>2, FirstFoundIs
  <2> HIDE DEF attempts
  <2>6. attempts[2] = own
    BY <1>3, <2>5
  <2>7. \A j \in DOMAIN attempts : j < 2 => attempts[j] = None
    BY <1>3, <1>4
  <2>8. FirstFound(attempts) = attempts[2]
    BY <1>1, <1>3, <2>6, <2>7, FirstFoundIs
  <2> QED
    BY <1>2, <2>6, <2>8 DEF attempts
<1>10. CASE f.recv = None
  <2>1. \A e \in Namesakes(fn) : /\ e.recv # None
                                 /\ f.params # <<>> => ~SameReceiver(f.params[1].type, e)
                                 /\ ~Resolves(fn, e)
    BY <1>10 DEF HasOwnKey
  <2>2. \A recv : recv # None /\ recv.name = (prog.types[f.params[1].type.name]).name /\ f.params # <<>>
                  => Entry(registry.functions, Key(f.name, recv)) = None
    <3> SUFFICES ASSUME NEW recv, recv # None, recv.name = (prog.types[f.params[1].type.name]).name,
                        f.params # <<>>, Key(f.name, recv) \in DOMAIN registry.functions
                 PROVE  FALSE
      BY DEF Entry
    <3>1. PICK e \in FuncDecls : Key(f.name, recv) \in {DeclKey(prog, e), PlainKey(e)}
      BY <1>7
    <3>2. Key(f.name, recv) = DeclKey(prog, e) /\ e.name = f.name /\ e.recv # None /\ recv = Expr(prog, e.recv)
      BY <3>1 DEF DeclKey, PlainKey, MakeFunctionKey
    <3>3. e \in Namesakes(fn)
      BY <1>5, <1>6, <1>10, <3>2
    <3>4. SameReceiver(f.params[1].type, e)
      BY <3>2 DEF SameReceiver, Expr
    <3> QED
      BY <2>1, <3>3, <3>4
  <2>3. AsMethod(prog, fn, registry) = None
    <3>1. CASE Receiver(prog, fn) = None
      BY <3>1 DEF AsMethod
    <3>2. CASE Receiver(prog, fn) # None
      <4> DEFINE recv == Receiver(prog, fn)
                 other == [recv EXCEPT !.ptr = ~@]
                 t == f.params[1].type
                 tries == <<Entry(registry.functions, Key(f.name, recv)),
                            Entry(registry.functions, Key(f.name, other))>>
      <4>1. f.params # <<>> /\ recv = NormalizeTypeName(String(prog, t))
        BY <1>10, <3>2 DEF Receiver
      <4>4. recv.name = prog.types[t.name].name /\ other.name = prog.types[t.name].name
        <5> DEFINE full == NormalizeTypeName(String(prog, t))
        <5>1. full.name = prog.types[t.name].name /\ [full EXCEPT !.ptr = ~@].name = prog.types[t.name].name
          <6> HIDE DEF recv, other, tries
          <6>1. \A v : /\ NormalizeTypeName(String(prog, v)).name = prog.types[v.name].name
                       /\ [NormalizeTypeName(String(prog, v)) EXCEPT !.ptr = ~@].name = prog.types[v.name].name
            BY NormalizedName
          <6> QED
            BY <6>1
        <5>2. recv = full /\ other = [full EXCEPT !.ptr = ~@]
          BY <4>1
        <5> HIDE DEF full, recv, other
        <5> QED
          BY <5>1, <5>2
      <4>5. tries[1] = None
        BY <2>2, <3>2, <4>1, <4>4
      <4>6. tries[2] = None
        <5>1. other # None
          <6>1. \A g \in DOMAIN prog.fns : prog.fns[g].params # <<>> =>
                  [NormalizeTypeName(String(prog, prog.fns[g].params[1].type)) EXCEPT !.ptr = ~@] # None
            BY FunctionsAssumption DEF AnnotationInv, prog
          <6> QED
            BY <4>1, <6>1
        <5>2. Entry(registry.functions, Key(f.name, other)) = None
          BY <2>2, <4>1, <4>4, <5>1
        <5> QED
          BY <5>2
      <4>7. DOMAIN tries = 1..2
        OBVIOUS
      <4>8. FirstFound(tries) = None
        <5> HIDE DEF tries
        <5> QED
          BY <4>5, <4>6, <4>7, FirstFoundNone
      <4> QED
        BY <3>2, <4>8 DEF AsMethod
    <3> QED
      BY <3>1, <3>2
  <2>4. best # None => best = own
    <3> SUFFICES ASSUME best # None
                 PROVE  best = own
      OBVIOUS
    <3>1. PICK key \in DOMAIN registry.functions : key.name = f.name /\ best = registry.functions[key]
      BY BestContract
    <3>2. PICK e \in FuncDecls : key \in {DeclKey(prog, e), PlainKey(e)} /\ best = handleFuncDecl(e)
      BY <1>7, <3>1
    <3>3. e.name = f.name
      BY <3>1, <3>2 DEF DeclKey, PlainKey, MakeFunctionKey
    <3>4. Resolves(fn, e)
      BY <3>2, BestContract DEF Resolves
    <3> QED
      BY <1>6, <2>1, <3>2, <3>3, <3>4
  <2>5. attempts[4] = own
    <3>1. \A e \in FuncDecls : DeclKey(prog, e) = DeclKey(prog, d) => e = d
      <4> SUFFICES ASSUME NEW e \in FuncDecls, DeclKey(prog, e) = DeclKey(prog, d), e # d
                   PROVE  FALSE
        OBVIOUS
      <4>1. e.name = f.name /\ e.recv = None
        BY <1>1, <1>5, <1>10 DEF DeclKey, MakeFunctionKey
      <4> QED
        BY <1>6, <2>1, <4>1
    <3>2. DeclKey(prog, d) = Key(f.name, None)
      BY <1>5, <1>10 DEF DeclKey
    <3> QED
      BY <1>3, <1>8, <3>1, <3>2
  <2> HIDE DEF attempts
  <2>6. CASE best = None
    <3>1. \A j \in DOMAIN attempts : j < 4 => attempts[j] = None
      BY <1>3, <1>4, <2>3, <2>6
    <3>2. FirstFound(attempts) = attempts[4]
      BY <1>1, <1>3, <2>5, <3>1, FirstFoundIs
    <3> QED
      BY <1>2, <2>5, <3>2 DEF attempts
  <2>7. CASE best # None
    <3>1. \A j \in DOMAIN attempts : j < 3 => attempts[j] = None
      BY <1>3, <1>4, <2>3
    <3>2. FirstFound(attempts) = attempts[3]
      BY <1>3, <2>7, <3>1, FirstFoundIs
    <3> QED
      BY <1>2, <1>3, <2>4, <2>7, <3>2 DEF attempts
  <2> QED
    BY <2>6, <2>7
<1> QED
  BY <1>9, <1>10

-----------------------------------------------------------------------------
(***************************************************************************)
(* A contract that a function may be given is None or that of a            *)
(* declaration, and its targets are sequences.                             *)
(***************************************************************************)
LEMMA GivenContract ==
  ASSUME AnnotationInv, NEW fn, NEW c \in contractForFunction(prog, fn, registry)
  PROVE  c \in Contracts /\ Typed(c)
<1>1. \A x \in Range(registry.functions) \cup Range(registry.byPos) :
        \E d \in FuncDecls : x = handleFuncDecl(d)
  BY RegistryEntries DEF Range
<1>2. c \in Contracts
  <2>1. \A key : Entry(registry.functions, key) \in Contracts /\ Entry(registry.byPos, key) \in Contracts
    BY DEF Entry, Contracts, Range
  <2>2. AsMethod(prog, fn, registry) \in Contracts
    <3> DEFINE recv == Receiver(prog, fn)
               tries == <<Entry(registry.functions, MakeFunctionKey(prog.fns[fn].name, recv)),
                          Entry(registry.functions, MakeFunctionKey(prog.fns[fn].name, [recv EXCEPT !.ptr = ~@]))>>
    <3>1. tries[1] \in Contracts /\ tries[2] \in Contracts /\ DOMAIN tries = 1..2
      BY <2>1
    <3>2. None \in Contracts
      BY DEF Contracts
    <3>3. FirstFound(tries) \in Contracts
      <4> HIDE DEF tries
      <4>1. FirstFound(tries) = None \/ \E k \in 1..2 : FirstFound(tries) = tries[k]
        BY <3>1, FirstFoundAmong
      <4> QED
        BY <3>1, <3>2, <4>1
    <3> QED
      BY <3>2, <3>3 DEF AsMethod
  <2>3. PICK best \in bestResolvableSameNameContract(prog, fn, registry) :
          c = FirstFound(Attempts(prog, fn, registry, best))
    BY ContractAttempts
  <2>4. best \in Contracts
    <3>1. best # None => \E key \in DOMAIN registry.functions : best = registry.functions[key]
      BY BestContract
    <3> QED
      BY <3>1 DEF Contracts, Range
  <2> DEFINE attempts == Attempts(prog, fn, registry, best)
  <2>5. DOMAIN attempts = 1..4 /\ \A k \in 1..4 : attempts[k] \in Contracts
    <3>1. /\ DOMAIN attempts = 1..4
          /\ attempts[1] \in Contracts /\ attempts[2] \in Contracts
          /\ attempts[3] \in Contracts /\ attempts[4] \in Contracts
      BY <2>1, <2>2, <2>4 DEF Attempts
    <3> HIDE DEF attempts
    <3> QED
      BY <3>1
  <2> HIDE DEF attempts
  <2>6. FirstFound(attempts) = None \/ \E k \in 1..4 : FirstFound(attempts) = attempts[k]
    BY <2>5, FirstFoundAmong
  <2> QED
    BY <2>3, <2>5, <2>6 DEF attempts, Contracts
<1>3. Typed(c)
  BY <1>1, <1>2, DeclaredContract DEF Contracts, Typed, AnnotationInv
<1> QED
  BY <1>2, <1>3

-----------------------------------------------------------------------------
(***************************************************************************)
(* Reports put together are a report of all they have.                     *)
(***************************************************************************)
LEMMA ReportElements ==
  ASSUME NEW s, NEW S, s \in Seq(S), \A r \in S : r.advisory \in BOOLEAN
                                                 /\ r.diag = [pos |-> r.diag.pos, message |-> r.diag.message]
  PROVE  IsReport(s)
<1>1. s \in Seq(Range(s)) /\ Range(s) \subseteq S
  BY SeqOfRange, RangeOfSeq
<1> QED
  BY <1>1 DEF IsReport

LEMMA ReportsJoined ==
  ASSUME NEW s, NEW t, IsReport(s), IsReport(t)
  PROVE  IsReport(s \o t) /\ Range(s \o t) = Range(s) \cup Range(t)
<1> DEFINE S == Range(s) \cup Range(t)
<1>1. s \in Seq(S) /\ t \in Seq(S)
  <2>1. s \in Seq(Range(s)) /\ t \in Seq(Range(t))
    BY DEF IsReport
  <2> QED
    BY <2>1
<1>2. \A r \in S : r.advisory \in BOOLEAN /\ r.diag = [pos |-> r.diag.pos, message |-> r.diag.message]
  BY DEF IsReport
<1> HIDE DEF S
<1>3. s \o t \in Seq(S) /\ Range(s \o t) = Range(s) \cup Range(t)
  BY <1>1, RangeConcatenation
<1> QED
  BY <1>2, <1>3, ReportElements

LEMMA ReportsFlattened ==
  ASSUME NEW seqs, NEW n \in Nat, DOMAIN seqs = 1..n, seqs = [k \in 1..n |-> seqs[k]],
         \A k \in 1..n : IsReport(seqs[k])
  PROVE  /\ IsReport(FlattenSeq(seqs))
         /\ Range(FlattenSeq(seqs)) = UNION {Range(seqs[k]) : k \in 1..n}
<1> DEFINE S == UNION {Range(seqs[k]) : k \in 1..n}
<1>1. \A k \in 1..n : seqs[k] \in Seq(S)
  <2> SUFFICES ASSUME NEW k \in 1..n
               PROVE  seqs[k] \in Seq(S)
    OBVIOUS
  <2>1. seqs[k] \in Seq(Range(seqs[k])) /\ Range(seqs[k]) \subseteq S
    BY DEF IsReport
  <2> DEFINE s == seqs[k]
  <2> HIDE DEF s, S
  <2>2. s \in Seq(S)
    BY <2>1 DEF s
  <2> QED
    BY <2>2 DEF s
<1>2. \A r \in S : r.advisory \in BOOLEAN /\ r.diag = [pos |-> r.diag.pos, message |-> r.diag.message]
  BY DEF IsReport
<1> HIDE DEF S
<1>3. seqs \in Seq(Seq(S))
  BY <1>1
<1>4. FlattenSeq(seqs) \in Seq(S) /\ Range(FlattenSeq(seqs)) = S
  BY <1>3, FlattenSeqType, FlattenSeqRange DEF S
<1> QED
  BY <1>2, <1>4, ReportElements DEF S

LEMMA EmptyReport == IsReport(<<>>) /\ Range(<<>>) = {}
<1>1. Range(<<>>) = {}
  BY DEF Range
<1> QED
  BY <1>1 DEF IsReport

LEMMA OneReport ==
  ASSUME NEW r, r.advisory \in BOOLEAN, r.diag = [pos |-> r.diag.pos, message |-> r.diag.message]
  PROVE  IsReport(<<r>>) /\ Range(<<r>>) = {r}
<1>1. Range(<<r>>) = {r}
  BY DEF Range
<1> QED
  BY <1>1 DEF IsReport

LEMMA FindingReport ==
  ASSUME NEW pos, NEW what, NEW kind, NEW about, NEW target
  PROVE  /\ IsReport(<<Finding(pos, what, kind, about, target)>>)
         /\ IsReport(<<Advisory(pos, what, kind, about, target)>>)
<1> DEFINE f == Finding(pos, what, kind, about, target)
           a == Advisory(pos, what, kind, about, target)
<1>1. f.advisory = FALSE /\ f.diag = [pos |-> f.diag.pos, message |-> f.diag.message]
  BY DEF Finding
<1>2. a.advisory = TRUE /\ a.diag = [pos |-> a.diag.pos, message |-> a.diag.message]
  BY DEF Finding, Advisory
<1>3. f.advisory \in BOOLEAN /\ a.advisory \in BOOLEAN
  BY <1>1, <1>2
<1> HIDE DEF f, a
<1>4. IsReport(<<f>>)
  BY <1>1, <1>3, OneReport
<1>5. IsReport(<<a>>)
  BY <1>2, <1>3, OneReport
<1> QED
  BY <1>4, <1>5 DEF f, a

(***************************************************************************)
(* Reports without a finding of a guarded access.                          *)
(***************************************************************************)
Quiet(s) == IsReport(s) /\ \A r \in Range(s) : ~IsGuardFinding(r)

LEMMA QuietJoined ==
  ASSUME NEW s, NEW t, Quiet(s), Quiet(t)
  PROVE  Quiet(s \o t) /\ Range(s \o t) = Range(s) \cup Range(t)
BY ReportsJoined DEF Quiet

LEMMA QuietFlattened ==
  ASSUME NEW seqs, NEW n \in Nat, DOMAIN seqs = 1..n, seqs = [k \in 1..n |-> seqs[k]],
         \A k \in 1..n : Quiet(seqs[k])
  PROVE  /\ Quiet(FlattenSeq(seqs))
         /\ Range(FlattenSeq(seqs)) = UNION {Range(seqs[k]) : k \in 1..n}
<1>1. \A k \in 1..n : IsReport(seqs[k])
  BY DEF Quiet
<1>2. IsReport(FlattenSeq(seqs)) /\ Range(FlattenSeq(seqs)) = UNION {Range(seqs[k]) : k \in 1..n}
  BY <1>1, ReportsFlattened
<1> QED
  BY <1>2 DEF Quiet

LEMMA QuietEmpty == Quiet(<<>>) /\ Range(<<>>) = {}
BY EmptyReport DEF Quiet

LEMMA QuietFinding ==
  ASSUME NEW pos, NEW what, NEW kind, NEW about, NEW target
  PROVE  /\ kind # "guarded_by" => Quiet(<<Finding(pos, what, kind, about, target)>>)
         /\ Quiet(<<Advisory(pos, what, kind, about, target)>>)
         /\ Quiet(Placed(Advisory(pos, what, kind, about, target)))
<1>1. \A r : Range(<<r>>) = {r}
  BY DEF Range
<1>2. Finding(pos, what, kind, about, target).diag.message.kind = kind
  BY DEF Finding
<1>3. Advisory(pos, what, kind, about, target).advisory = TRUE
  BY DEF Finding, Advisory
<1>4. /\ kind # "guarded_by" => Quiet(<<Finding(pos, what, kind, about, target)>>)
      /\ Quiet(<<Advisory(pos, what, kind, about, target)>>)
  BY <1>1, <1>2, <1>3, FindingReport DEF Quiet, IsGuardFinding
<1> QED
  BY <1>4, QuietEmpty DEF Placed

-----------------------------------------------------------------------------
(***************************************************************************)
(* What an analysis records, in its parts.                                 *)
(***************************************************************************)
HeldAt(p, fn, contract, site) == site.held \cup createInitialLockset(p, fn, contract)

SiteChecks(p, fn, contract, at, reg, k) ==
  LET site == p.fns[fn].sites[k]
      held == HeldAt(p, fn, contract, site)
  IN  IF site.op = "call"
      THEN handleStaticCalleeFunction(p, site, held, at[k])
      ELSE checkGuardedByAccess(p, fn, site, held, reg)

Recording(p, fn, contract, advice, at, reg, strict) ==
  UnresolvedRequires(p, fn, contract)
    \o (IF advice = None THEN <<>> ELSE reportLikelyMissingAnnotation(p, fn, contract, advice))
    \o p.fns[fn].orders.always
    \o (IF strict THEN p.fns[fn].orders.strict ELSE <<>>)
    \o FlattenSeq([k \in DOMAIN p.fns[fn].sites |-> SiteChecks(p, fn, contract, at, reg, k)])

LEMMA AnalysisParts ==
  ASSUME NEW p, NEW fn, NEW reg, NEW strict, NEW a \in functionAnalyses(p, fn, reg, strict)
  PROVE  /\ a.contract \in contractForFunction(p, fn, reg)
         /\ a.advice \in detectLikelyMissingLockAnnotations(p, fn, a.contract)
         /\ \E at : /\ \A k \in DOMAIN p.fns[fn].sites :
                         p.fns[fn].sites[k].op = "call"
                         => at[k] \in contractForFunction(p, p.fns[fn].sites[k].callee, reg)
                    /\ a.recorded = Recording(p, fn, a.contract, a.advice, at, reg, strict)
<1> DEFINE f == p.fns[fn]
           calls == {k \in DOMAIN f.sites : f.sites[k].op = "call"}
           found == {g \in [calls -> UNION {contractForFunction(p, f.sites[k].callee, reg) : k \in calls}] :
                       \A k \in calls : g[k] \in contractForFunction(p, f.sites[k].callee, reg)}
           Checks(c, at, k) == LET site == f.sites[k] IN
              IF k \in calls
              THEN handleStaticCalleeFunction(p, site, HeldAt(p, fn, c, site), at[k])
              ELSE checkGuardedByAccess(p, fn, site, HeldAt(p, fn, c, site), reg)
           Result(c, adv, at) ==
             [contract |-> c, advice |-> adv,
              recorded |-> UnresolvedRequires(p, fn, c)
                \o (IF adv = None THEN <<>> ELSE reportLikelyMissingAnnotation(p, fn, c, adv))
                \o f.orders.always
                \o (IF strict THEN f.orders.strict ELSE <<>>)
                \o FlattenSeq([k \in DOMAIN f.sites |-> Checks(c, at, k)])]
<1>1. functionAnalyses(p, fn, reg, strict) =
        UNION {UNION {{Result(c, adv, at) : at \in found} :
                      adv \in detectLikelyMissingLockAnnotations(p, fn, c)} :
               c \in contractForFunction(p, fn, reg)}
  BY DEF functionAnalyses, HeldAt
<1>2. PICK c \in contractForFunction(p, fn, reg) :
        \E adv \in detectLikelyMissingLockAnnotations(p, fn, c) : \E at \in found : a = Result(c, adv, at)
  <2> HIDE DEF found, Result
  <2> QED
    BY <1>1
<1>3. PICK adv \in detectLikelyMissingLockAnnotations(p, fn, c) : \E at \in found : a = Result(c, adv, at)
  BY <1>2
<1>4. PICK at \in found : a = Result(c, adv, at)
  BY <1>3
<1>5. \A k \in DOMAIN f.sites : f.sites[k].op = "call" => at[k] \in contractForFunction(p, f.sites[k].callee, reg)
  OBVIOUS
<1>6. a.contract = c /\ a.advice = adv
  BY <1>4
<1>7. a.recorded = Recording(p, fn, c, adv, at, reg, strict)
  <2>1. [k \in DOMAIN f.sites |-> Checks(c, at, k)] = [k \in DOMAIN f.sites |-> SiteChecks(p, fn, c, at, reg, k)]
    BY DEF SiteChecks
  <2> QED
    BY <1>4, <2>1 DEF Recording
<1> QED
  BY <1>5, <1>6, <1>7

(***************************************************************************)
(* The targets of a contract, and what is recorded for each.               *)
(***************************************************************************)
LEMMA TargetsOf ==
  ASSUME NEW contract, Typed(contract), NEW kind \in AnnotationKinds
  PROVE  Targets(contract, kind) \in Seq(Seq(STRING))
<1> DEFINE S == Seq(STRING)
<1>1. contract # None => contract.expectations \in [AnnotationKinds -> Seq(S)]
  BY DEF Typed
<1> HIDE DEF S
<1>2. Targets(contract, kind) \in Seq(S)
  BY <1>1 DEF Targets
<1> QED
  BY <1>2 DEF S

LEMMA UnresolvedReport ==
  ASSUME NEW p, NEW fn, NEW contract, Typed(contract)
  PROVE  Quiet(UnresolvedRequires(p, fn, contract))
<1> DEFINE s == Targets(contract, "requires")
           Op(t) == IF resolveObjectInScope(p, fn, t) = None
                    THEN reportUnresolvableAnnotation("requires", t, contract.pos)
                    ELSE <<>>
           seqs == [k \in DOMAIN s |-> Op(s[k])]
<1>1. DOMAIN s = 1..Len(s) /\ Len(s) \in Nat
  BY TargetsOf DEF AnnotationKinds
<1>2. \A t : Quiet(Op(t))
  BY QuietEmpty, QuietFinding DEF reportUnresolvableAnnotation
<1> HIDE DEF s, Op
<1>3. DOMAIN seqs = 1..Len(s) /\ seqs = [k \in 1..Len(s) |-> seqs[k]]
      /\ \A k \in 1..Len(s) : Quiet(seqs[k])
  BY <1>1, <1>2
<1> HIDE DEF seqs
<1>4. Quiet(FlattenSeq(seqs))
  BY <1>1, <1>3, QuietFlattened
<1> QED
  BY <1>4 DEF UnresolvedRequires, InOrder, seqs, s, Op

LEMMA CallReport ==
  ASSUME NEW p, NEW site, NEW held, NEW contract, Typed(contract)
  PROVE  /\ Quiet(handleStaticCalleeFunction(p, site, held, contract))
         /\ \A t \in Range(Targets(contract, "requires")) :
              Range(checkRequiresExpectation(p, site, held, t))
                \subseteq Range(handleStaticCalleeFunction(p, site, held, contract))
<1> DEFINE Req(t) == checkRequiresExpectation(p, site, held, t)
           Acq(t) == checkAcquiresExpectation(p, site, held, t)
           s == Targets(contract, "requires")
           u == Targets(contract, "acquires")
           reqs == [k \in DOMAIN s |-> Req(s[k])]
           acqs == [k \in DOMAIN u |-> Acq(u[k])]
<1>1. /\ DOMAIN s = 1..Len(s) /\ Len(s) \in Nat
      /\ DOMAIN u = 1..Len(u) /\ Len(u) \in Nat
  BY TargetsOf DEF AnnotationKinds
<1>2. \A kind, t : Quiet(Unmapped(p, kind, site, t))
  BY QuietFinding DEF Unmapped, reportUnresolvableAnnotation, reportCallsiteLocalRootAnnotation
<1>3. \A t : Quiet(Req(t))
  BY <1>2, QuietEmpty, QuietFinding DEF checkRequiresExpectation
<1>4. \A t : Quiet(Acq(t))
  BY <1>2, QuietEmpty, QuietFinding DEF checkAcquiresExpectation
<1> HIDE DEF s, u, Req, Acq
<1>5. /\ DOMAIN reqs = 1..Len(s) /\ reqs = [k \in 1..Len(s) |-> reqs[k]]
      /\ \A k \in 1..Len(s) : reqs[k] = Req(s[k]) /\ Quiet(reqs[k])
  BY <1>1, <1>3
<1>6. /\ DOMAIN acqs = 1..Len(u) /\ acqs = [k \in 1..Len(u) |-> acqs[k]]
      /\ \A k \in 1..Len(u) : Quiet(acqs[k])
  BY <1>1, <1>4
<1>7. handleStaticCalleeFunction(p, site, held, contract) = FlattenSeq(reqs) \o FlattenSeq(acqs)
  BY DEF handleStaticCalleeFunction, InOrder, s, u, Req, Acq
<1> HIDE DEF reqs, acqs
<1>8. Quiet(FlattenSeq(reqs)) /\ Range(FlattenSeq(reqs)) = UNION {Range(reqs[k]) : k \in 1..Len(s)}
  BY <1>1, <1>5, QuietFlattened
<1>9. Quiet(FlattenSeq(acqs))
  BY <1>1, <1>6, QuietFlattened
<1>10. /\ Quiet(FlattenSeq(reqs) \o FlattenSeq(acqs))
       /\ Range(FlattenSeq(reqs)) \subseteq Range(FlattenSeq(reqs) \o FlattenSeq(acqs))
  BY <1>8, <1>9, QuietJoined
<1>11. \A t \in Range(s) : Range(Req(t)) \subseteq Range(FlattenSeq(reqs))
  <2> SUFFICES ASSUME NEW t \in Range(s)
               PROVE  Range(Req(t)) \subseteq Range(FlattenSeq(reqs))
    OBVIOUS
  <2>1. PICK k \in 1..Len(s) : s[k] = t
    BY <1>1 DEF Range
  <2>2. reqs[k] = Req(t)
    BY <1>5, <2>1
  <2> QED
    BY <1>8, <2>2
<1> QED
  BY <1>7, <1>10, <1>11 DEF s, Req

LEMMA AccessReport ==
  ASSUME NEW p, NEW fn, NEW site, NEW held, NEW reg
  PROVE  IsReport(checkGuardedByAccess(p, fn, site, held, reg))
BY EmptyReport, FindingReport DEF checkGuardedByAccess, reportUnresolvableAnnotation, Placed

(***************************************************************************)
(* An analysis with typed contracts records a report, what it checks at    *)
(* each of its sites is part of it, and a finding of a guarded access is   *)
(* from such a site.                                                       *)
(***************************************************************************)
LEMMA RecordingReport ==
  ASSUME NEW p, NEW fn, NEW contract, NEW advice, NEW at, NEW reg, NEW strict,
         Typed(contract),
         LET f == p.fns[fn] IN
           /\ f.sites \in Seq(Range(f.sites))
           /\ Quiet(f.orders.always) /\ Quiet(f.orders.strict)
           /\ \A k \in DOMAIN f.sites : f.sites[k].op = "call" => Typed(at[k])
  PROVE  /\ IsReport(Recording(p, fn, contract, advice, at, reg, strict))
         /\ \A k \in DOMAIN p.fns[fn].sites :
              Range(SiteChecks(p, fn, contract, at, reg, k))
                \subseteq Range(Recording(p, fn, contract, advice, at, reg, strict))
         /\ \A r \in Range(Recording(p, fn, contract, advice, at, reg, strict)) : IsGuardFinding(r) =>
              \E k \in DOMAIN p.fns[fn].sites :
                /\ p.fns[fn].sites[k].op # "call"
                /\ r \in Range(SiteChecks(p, fn, contract, at, reg, k))
<1> DEFINE f == p.fns[fn]
           n == Len(f.sites)
           adv == IF advice = None THEN <<>> ELSE reportLikelyMissingAnnotation(p, fn, contract, advice)
           ord == IF strict THEN f.orders.strict ELSE <<>>
           checks == [k \in DOMAIN f.sites |-> SiteChecks(p, fn, contract, at, reg, k)]
           unres == UnresolvedRequires(p, fn, contract)
           a1 == unres \o adv
           a2 == a1 \o f.orders.always
           a3 == a2 \o ord
           a4 == a3 \o FlattenSeq(checks)
<1>1. DOMAIN f.sites = 1..n /\ n \in Nat
  OBVIOUS
<1>2. \A k \in 1..n : /\ IsReport(SiteChecks(p, fn, contract, at, reg, k))
                      /\ f.sites[k].op = "call" => Quiet(SiteChecks(p, fn, contract, at, reg, k))
  BY <1>1, CallReport, AccessReport DEF SiteChecks, Quiet
<1>3. Quiet(adv)
  BY QuietEmpty, QuietFinding DEF reportLikelyMissingAnnotation
<1>4. Quiet(ord)
  BY QuietEmpty
<1>5. DOMAIN checks = 1..n /\ checks = [k \in 1..n |-> checks[k]]
      /\ \A k \in 1..n : checks[k] = SiteChecks(p, fn, contract, at, reg, k) /\ IsReport(checks[k])
  <2> HIDE DEF f, n
  <2> QED
    BY <1>1, <1>2
<1>6. Recording(p, fn, contract, advice, at, reg, strict) = a4
  BY DEF Recording
<1> HIDE DEF checks
<1>7. IsReport(FlattenSeq(checks)) /\ Range(FlattenSeq(checks)) = UNION {Range(checks[k]) : k \in 1..n}
  BY <1>1, <1>5, ReportsFlattened
<1>8. Quiet(unres) /\ Quiet(f.orders.always)
  BY UnresolvedReport
<1> HIDE DEF adv, ord, unres
<1>9. Quiet(a1)
  BY <1>3, <1>8, QuietJoined
<1> HIDE DEF a1
<1>10. Quiet(a2)
  BY <1>8, <1>9, QuietJoined
<1> HIDE DEF a2
<1>11. Quiet(a3)
  BY <1>4, <1>10, QuietJoined
<1> HIDE DEF a3
<1>12. IsReport(a4) /\ Range(a4) = Range(a3) \cup Range(FlattenSeq(checks))
  BY <1>7, <1>11, ReportsJoined DEF Quiet
<1> HIDE DEF a4
<1>13. \A k \in 1..n : Range(checks[k]) \subseteq Range(a4)
  BY <1>7, <1>12
<1>14. ASSUME NEW r \in Range(a4), IsGuardFinding(r)
       PROVE  \E k \in 1..n : f.sites[k].op # "call" /\ r \in Range(SiteChecks(p, fn, contract, at, reg, k))
  <2>1. r \in Range(FlattenSeq(checks))
    BY <1>11, <1>12, <1>14 DEF Quiet
  <2>2. PICK k \in 1..n : r \in Range(checks[k])
    BY <1>7, <2>1
  <2>3. f.sites[k].op # "call"
    BY <1>2, <1>5, <1>14, <2>2 DEF Quiet
  <2> QED
    BY <1>5, <2>2, <2>3
<1> QED
  BY <1>1, <1>5, <1>6, <1>12, <1>13, <1>14

-----------------------------------------------------------------------------
(***************************************************************************)
(* What a path of fields finds, one name after the other.                  *)
(***************************************************************************)
NextField(p, before, name) ==
  LET fields  == getUnderlyingStruct(p, before.type)
      matched == {k \in DOMAIN fields : fields[k].name = name}
  IN  IF before.ok /\ matched # {}
      THEN LET k == CHOOSE k \in matched : TRUE IN
             [type |-> fields[k].type, found |-> Field(before.type.name, name), ok |-> TRUE]
      ELSE [before EXCEPT !.found = None, !.ok = FALSE]

Follows(g, p, t, path) ==
  g = [n \in 0..Len(path) |->
         IF n = 0 THEN [type |-> t, found |-> None, ok |-> TRUE] ELSE NextField(p, g[n - 1], path[n])]

LEMMA FollowsExist ==
  ASSUME NEW p, NEW t, NEW D, NEW path \in Seq(D)
  PROVE  \E g : Follows(g, p, t, path)
<1> DEFINE N == Len(path)
           start == [type |-> t, found |-> None, ok |-> TRUE]
           Until(g, m) == \A n \in 0..m : g[n] = IF n = 0 THEN start ELSE NextField(p, g[n - 1], path[n])
           T == {m \in 0..N : \E g : Until(g, m)}
<1>1. N \in Nat
  OBVIOUS
<1>2. 0 \in T
  <2>1. Until([n \in 0..0 |-> start], 0)
    OBVIOUS
  <2> HIDE DEF Until
  <2> QED
    BY <1>1, <2>1
<1> HIDE DEF start
<1>3. \A m \in 1..N : m - 1 \in T => m \in T
  <2> SUFFICES ASSUME NEW m \in 1..N, m - 1 \in T
               PROVE  m \in 0..N /\ \E g : Until(g, m)
    OBVIOUS
  <2>1. PICK g : Until(g, m - 1)
    OBVIOUS
  <2> DEFINE h == [n \in 0..m |-> IF n = m THEN NextField(p, g[m - 1], path[m]) ELSE g[n]]
  <2>2. h[m] = NextField(p, h[m - 1], path[m])
    <3>1. m - 1 \in 0..m /\ m \in 0..m /\ m - 1 # m
      BY <1>1
    <3> QED
      BY <3>1
  <2>3. \A n \in 0..(m - 1) : h[n] = g[n] /\ (n # 0 => h[n - 1] = g[n - 1])
    BY <1>1
  <2>4. Until(h, m)
    <3> SUFFICES ASSUME NEW n \in 0..m
                 PROVE  h[n] = IF n = 0 THEN start ELSE NextField(p, h[n - 1], path[n])
      OBVIOUS
    <3> HIDE DEF h
    <3>1. CASE n = m
      BY <2>2, <3>1
    <3>2. CASE n # m
      <4>1. n \in 0..(m - 1)
        BY <1>1, <3>2
      <4>2. g[n] = IF n = 0 THEN start ELSE NextField(p, g[n - 1], path[n])
        BY <2>1, <4>1
      <4> QED
        BY <2>3, <4>1, <4>2
    <3> QED
      BY <3>1, <3>2
  <2>5. m \in 0..N
    BY <1>1
  <2> HIDE DEF h, Until
  <2> QED
    BY <2>4, <2>5
<1>4. PICK g : Until(g, N)
  <2>1. N \in 0..N
    BY <1>1
  <2>2. 0..N \subseteq T
    <3> HIDE DEF T
    <3> QED
      BY <1>1, <1>2, <1>3, IntervalInduction
  <2> QED
    BY <2>1, <2>2
<1>5. Follows([n \in 0..N |-> g[n]], p, t, path)
  <2>1. \A n \in 0..N : n # 0 => n - 1 \in 0..N
    BY <1>1
  <2> QED
    BY <1>4, <2>1 DEF Follows, start
<1> QED
  BY <1>5

(***************************************************************************)
(* The object of a path is a field or None, and of an empty path None.     *)
(***************************************************************************)
LEMMA NestedFieldFound ==
  ASSUME NEW p, NEW t, NEW D, NEW path \in Seq(D)
  PROVE  /\ path = <<>> => resolveNestedField(p, t, path) = None
         /\ resolveNestedField(p, t, path) # None => resolveNestedField(p, t, path)[1] = "field"
<1> DEFINE at == CHOOSE g : Follows(g, p, t, path)
           N == Len(path)
           Fine(r) == r = [type |-> r.type, found |-> r.found, ok |-> r.ok] /\ (r.found # None => r.found[1] = "field")
           T == {n \in 0..N : Fine(at[n])}
<1>1. Follows(at, p, t, path)
  BY FollowsExist
<1>2. resolveNestedField(p, t, path) = at[N].found
  BY DEF resolveNestedField, Follows, NextField
<1>3. N \in Nat
  OBVIOUS
<1> HIDE DEF at
<1>4. at[0] = [type |-> t, found |-> None, ok |-> TRUE]
  BY <1>1, <1>3 DEF Follows
<1>9. \A n \in 1..N : at[n] = NextField(p, at[n - 1], path[n])
  BY <1>1, <1>3 DEF Follows
<1>5. 0 \in T
  BY <1>3, <1>4
<1>6. \A n \in 1..N : n - 1 \in T => n \in T
  <2> SUFFICES ASSUME NEW n \in 1..N, n - 1 \in T
               PROVE  n \in 0..N /\ Fine(at[n])
    OBVIOUS
  <2> DEFINE before == at[n - 1]
             fields == getUnderlyingStruct(p, before.type)
             matched == {k \in DOMAIN fields : fields[k].name = path[n]}
             k == CHOOSE j \in matched : TRUE
  <2>1. before = [type |-> before.type, found |-> before.found, ok |-> before.ok]
    OBVIOUS
  <2>2. \/ at[n] = [type |-> fields[k].type, found |-> Field(before.type.name, path[n]), ok |-> TRUE]
        \/ at[n] = [before EXCEPT !.found = None, !.ok = FALSE]
    BY <1>9 DEF NextField
  <2> HIDE DEF before, k, fields
  <2>3. CASE at[n] = [type |-> fields[k].type, found |-> Field(before.type.name, path[n]), ok |-> TRUE]
    <3>1. Field(before.type.name, path[n])[1] = "field"
      BY DEF Field
    <3> QED
      BY <2>3, <3>1
  <2>5. CASE at[n] = [before EXCEPT !.found = None, !.ok = FALSE]
    <3>1. at[n] = [type |-> before.type, found |-> None, ok |-> FALSE]
      BY <2>1, <2>5
    <3> QED
      BY <3>1
  <2>4. n \in 0..N
    BY <1>3
  <2> QED
    BY <2>2, <2>3, <2>4, <2>5
<1>7. N \in T
  <2> HIDE DEF T
  <2>1. 0..N \subseteq T
    BY <1>3, <1>5, <1>6, IntervalInduction
  <2> QED
    BY <1>3, <2>1
<1>8. path = <<>> => N = 0
  OBVIOUS
<1> QED
  BY <1>2, <1>4, <1>7, <1>8

LEMMA NamedTypeFieldFound ==
  ASSUME NEW p, NEW fn, NEW name, NEW D, NEW path \in Seq(D), NEW obj,
         obj = resolveNamedTypeField(p, fn, name, path)
  PROVE  (path = <<>> => obj = None) /\ (obj # None => obj[1] = "field")
BY NestedFieldFound DEF resolveNamedTypeField

LEMMA ObservedFieldFound ==
  ASSUME NEW p, NEW fn, NEW D, NEW path \in Seq(D), NEW obj,
         obj = resolveObservedFieldAccess(p, fn, path), obj # None
  PROVE  obj[1] = "field"
<1> DEFINE types == {p.fns[fn].params[k].type : k \in DOMAIN p.fns[fn].params} \cup p.fns[fn].values
           candidates == {resolveNestedField(p, t, path) : t \in types} \ {None}
<1>1. obj \in candidates
  BY DEF resolveObservedFieldAccess
<1> QED
  BY <1>1, NestedFieldFound

(***************************************************************************)
(* Of three attempts the first that finds an object counts.                *)
(***************************************************************************)
LEMMA FirstOfThree ==
  ASSUME NEW a, NEW b, NEW c
  PROVE  FirstFound(<<a, b, c>>) = IF a # None THEN a ELSE IF b # None THEN b ELSE c
<1> DEFINE tries == <<a, b, c>>
<1>1. DOMAIN tries = {1, 2, 3} /\ tries[1] = a /\ tries[2] = b /\ tries[3] = c
  OBVIOUS
<1> HIDE DEF tries
<1>2. CASE a # None
  BY <1>1, <1>2, FirstFoundIs DEF tries
<1>3. CASE a = None /\ b # None
  <2>1. FirstFound(tries) = tries[2]
    BY <1>1, <1>3, FirstFoundIs
  <2> QED
    BY <1>1, <1>3, <2>1 DEF tries
<1>4. CASE a = None /\ b = None /\ c # None
  <2>1. FirstFound(tries) = tries[3]
    BY <1>1, <1>4, FirstFoundIs
  <2> QED
    BY <1>1, <1>4, <2>1 DEF tries
<1>5. CASE a = None /\ b = None /\ c = None
  <2>1. FirstFound(tries) = None
    BY <1>1, <1>5, FirstFoundNone
  <2> QED
    BY <1>5, <2>1 DEF tries
<1> QED
  BY <1>2, <1>3, <1>4, <1>5

(***************************************************************************)
(* What is left of a path without its first name.                          *)
(***************************************************************************)
LEMMA TailFacts ==
  ASSUME NEW D, NEW s \in Seq(D), s # <<>>
  PROVE  /\ Tail(s) \in Seq(D)
         /\ Len(s) = 1 => Tail(s) = <<>>
         /\ Len(s) > 1 => Tail(s) # <<>> /\ Len(s) # 0 /\ Len(s) # 1
         /\ Len(s) = 1 \/ Len(s) > 1
<1>1. Len(s) \in Nat \ {0} /\ Tail(s) \in Seq(D) /\ Len(Tail(s)) = Len(s) - 1
  BY HeadTailProperties, EmptySeq
<1>2. Len(s) = 1 => Len(Tail(s)) = 0
  BY <1>1
<1>3. Len(s) > 1 => Len(Tail(s)) # 0
  BY <1>1
<1>4. Len(Tail(s)) = 0 => Tail(s) = <<>>
  BY <1>1, EmptySeq
<1>5. Len(<<>>) = 0
  OBVIOUS
<1>6. (Len(s) = 1 \/ Len(s) > 1) /\ (Len(s) > 1 => Len(s) # 0 /\ Len(s) # 1)
  <2>1. \A n \in Nat : n # 0 => (n = 1 \/ n > 1) /\ (n > 1 => n # 0 /\ n # 1)
    OBVIOUS
  <2>2. Len(s) \in Nat /\ Len(s) # 0
    BY <1>1
  <2> QED
    BY <2>1, <2>2
<1> QED
  BY <1>1, <1>2, <1>3, <1>4, <1>5, <1>6

(***************************************************************************)
(* What the program's shape says of a call.                                *)
(***************************************************************************)
CallShape(site) ==
  LET params == prog.fns[site.callee].params
      all == prog.members[prog.fns[site.callee].pkg]
  IN  /\ params \in Seq(Range(params))
      /\ site.args \in Seq(Range(site.args)) /\ Len(params) <= Len(site.args)
      /\ \A k \in DOMAIN params : site.args[k].type = params[k].type
      /\ \A name \in DOMAIN all : all[name][1] # "param"

(***************************************************************************)
(* The two resolutions of a target, as a choice among their attempts.      *)
(***************************************************************************)
LEMMA TargetAtCall ==
  ASSUME NEW p, NEW callee, NEW args, NEW target, target # <<>>
  PROVE  LET byParam == resolveParamField(p, callee, args, target)
             byType == resolveNamedTypeField(p, callee, target[1], Tail(target))
         IN  resolveObjectAtInvocation(p, callee, args, target) =
               IF byParam # None THEN byParam
               ELSE IF byType # None THEN byType
               ELSE IF Len(target) = 1
               THEN findInPackageGlobals(p, callee, target[1])
               ELSE resolveObservedFieldAccess(p, callee, Tail(target))
<1> DEFINE a == resolveParamField(p, callee, args, target)
           b == resolveNamedTypeField(p, callee, target[1], Tail(target))
           c == IF Len(target) = 1
                THEN findInPackageGlobals(p, callee, target[1])
                ELSE resolveObservedFieldAccess(p, callee, Tail(target))
<1>1. resolveObjectAtInvocation(p, callee, args, target) = FirstFound(<<a, b, c>>)
  BY DEF resolveObjectAtInvocation
<1>2. FirstFound(<<a, b, c>>) = IF a # None THEN a ELSE IF b # None THEN b ELSE c
  <2> HIDE DEF a, b, c
  <2> QED
    BY FirstOfThree
<1> QED
  BY <1>1, <1>2

LEMMA TargetInScope ==
  ASSUME NEW p, NEW fn, NEW target, Len(target) # 0, Len(target) # 1
  PROVE  LET multi == resolveMultiAccess(p, fn, target)
             byType == resolveNamedTypeField(p, fn, target[1], Tail(target))
         IN  resolveObjectInScope(p, fn, target) =
               IF multi # None THEN multi
               ELSE IF byType # None THEN byType
               ELSE resolveObservedFieldAccess(p, fn, Tail(target))
<1> DEFINE a == resolveMultiAccess(p, fn, target)
           b == resolveNamedTypeField(p, fn, target[1], Tail(target))
           c == resolveObservedFieldAccess(p, fn, Tail(target))
<1>1. resolveObjectInScope(p, fn, target) = FirstFound(<<a, b, c>>)
  BY DEF resolveObjectInScope
<1>2. FirstFound(<<a, b, c>>) = IF a # None THEN a ELSE IF b # None THEN b ELSE c
  <2> HIDE DEF a, b, c
  <2> QED
    BY FirstOfThree
<1> QED
  BY <1>1, <1>2

LEMMA ParamAtCall ==
  ASSUME NEW p, NEW callee, NEW args, NEW target,
         \A k \in Named(p, callee, target[1]) : k <= Len(args)
  PROVE  resolveParamField(p, callee, args, target) =
           IF Named(p, callee, target[1]) = {}
           THEN None
           ELSE resolveValueField(p, args[CHOOSE k \in Named(p, callee, target[1]) : TRUE], Tail(target))
<1> DEFINE named == Named(p, callee, target[1])
           passed == {k \in named : k <= Len(args)}
<1>1. resolveParamField(p, callee, args, target) =
        IF passed = {} THEN None ELSE resolveValueField(p, args[CHOOSE k \in passed : TRUE], Tail(target))
  BY DEF resolveParamField
<1>2. passed = named
  OBVIOUS
<1> HIDE DEF passed
<1> QED
  BY <1>1, <1>2

(***************************************************************************)
(* If both sides of a call know the object of a target, it is the same:    *)
(* first for a target of one word, then for a longer one.                  *)
(***************************************************************************)
LEMMA SameWord ==
  ASSUME NEW site, NEW target, target # <<>>, Len(target) = 1, Tail(target) = <<>>,
         NEW name, name = target[1],
         NEW named, named = Named(prog, site.callee, name),
         NEW global, global = findInPackageGlobals(prog, site.callee, name),
         named # {} => global = None, global # None => global[1] # "param",
         NEW byParam, byParam = resolveParamField(prog, site.callee, site.args, target),
         byParam = IF named = {}
                   THEN None
                   ELSE resolveValueField(prog, site.args[CHOOSE k \in named : TRUE], Tail(target)),
         NEW byType, byType = resolveNamedTypeField(prog, site.callee, name, Tail(target)),
         byType = None,
         NEW lock, lock = resolveObjectInScope(prog, site.callee, target), lock # None,
         NEW atCall, atCall = resolveObjectAtInvocation(prog, site.callee, site.args, target), atCall # None
  PROVE  AtCaller(site, lock) = atCall
<1>1. atCall = IF byParam # None THEN byParam ELSE global
  BY TargetAtCall
<1>2. lock = resolveIdentifier(prog, site.callee, name)
  BY DEF resolveObjectInScope
<1>3. CASE named # {}
  <2>1. global = None
    BY <1>3
  <2>2. findInParams(prog, site.callee, name) = <<"param", site.callee, name>>
    BY <1>3 DEF findInParams, Param
  <2>3. lock = <<"param", site.callee, name>>
    BY <1>2, <2>1, <2>2 DEF resolveIdentifier
  <2>4. lock[1] = "param" /\ lock[2] = site.callee /\ lock[3] = name
    BY <2>3
  <2>5. AtCaller(site, lock) = site.args[CHOOSE k \in named : TRUE].object
    BY <2>4 DEF AtCaller
  <2>6. byParam = site.args[CHOOSE k \in named : TRUE].object
    BY <1>3 DEF resolveValueField
  <2> QED
    BY <1>1, <2>1, <2>5, <2>6
<1>4. CASE named = {}
  <2>1. byParam = None
    BY <1>4
  <2>2. findInParams(prog, site.callee, name) = None
    BY <1>4 DEF findInParams
  <2>3. lock = global
    BY <1>2, <2>2 DEF resolveIdentifier
  <2>4. lock[1] # "param"
    BY <2>3
  <2>5. AtCaller(site, lock) = lock
    BY <2>4 DEF AtCaller
  <2> QED
    BY <1>1, <2>1, <2>3, <2>5
<1> QED
  BY <1>3, <1>4

LEMMA SamePath ==
  ASSUME NEW site, NEW target, target # <<>>, Len(target) # 0, Len(target) # 1,
         NEW multi, multi = resolveMultiAccess(prog, site.callee, target),
         NEW byParam, byParam = resolveParamField(prog, site.callee, site.args, target),
         multi = byParam, multi # None => multi[1] = "field",
         NEW byType, byType = resolveNamedTypeField(prog, site.callee, target[1], Tail(target)),
         byType # None => byType[1] = "field",
         NEW observed, observed = resolveObservedFieldAccess(prog, site.callee, Tail(target)),
         observed # None => observed[1] = "field",
         NEW lock, lock = resolveObjectInScope(prog, site.callee, target), lock # None,
         NEW atCall, atCall = resolveObjectAtInvocation(prog, site.callee, site.args, target)
  PROVE  AtCaller(site, lock) = atCall
<1>1. lock = IF multi # None THEN multi ELSE IF byType # None THEN byType ELSE observed
  BY TargetInScope
<1>2. atCall = IF byParam # None THEN byParam ELSE IF byType # None THEN byType ELSE observed
  BY TargetAtCall
<1>3. lock = atCall /\ lock[1] = "field"
  BY <1>1, <1>2
<1> QED
  BY <1>3 DEF AtCaller

LEMMA SameLock ==
  ASSUME NEW site, NEW target \in Seq(STRING), CallShape(site),
         ~ImplicitReceiver(site.callee, target), ~HidesMember(site.callee, target),
         resolveObjectInScope(prog, site.callee, target) # None,
         resolveObjectAtInvocation(prog, site.callee, site.args, target) # None
  PROVE  AtCaller(site, resolveObjectInScope(prog, site.callee, target))
           = resolveObjectAtInvocation(prog, site.callee, site.args, target)
<1> DEFINE params == prog.fns[site.callee].params
           name == target[1]
           named == Named(prog, site.callee, name)
           path == Tail(target)
           byParam == resolveParamField(prog, site.callee, site.args, target)
           byType == resolveNamedTypeField(prog, site.callee, name, path)
           observed == resolveObservedFieldAccess(prog, site.callee, path)
           global == findInPackageGlobals(prog, site.callee, name)
           multi == resolveMultiAccess(prog, site.callee, target)
<1>1. params \in Seq(Range(params)) /\ site.args \in Seq(Range(site.args)) /\ Len(params) <= Len(site.args)
  BY DEF CallShape
<1>2. \A k \in DOMAIN params : site.args[k].type = params[k].type
  BY DEF CallShape
<1>3. target # <<>>
  BY DEF resolveObjectAtInvocation
<1>4. /\ path \in Seq(STRING) /\ (Len(target) = 1 => path = <<>>)
      /\ Len(target) > 1 => path # <<>> /\ Len(target) # 0 /\ Len(target) # 1
      /\ Len(target) = 1 \/ Len(target) > 1
  BY <1>3, TailFacts
<1>5. named \subseteq DOMAIN params
  BY DEF Named
<1>6. \A k \in named : k <= Len(site.args)
  <2>1. \A k \in DOMAIN params : k <= Len(site.args)
    <3> HIDE DEF params
    <3>1. DOMAIN params = 1..Len(params) /\ Len(params) \in Nat /\ Len(site.args) \in Nat
      BY <1>1
    <3> QED
      BY <1>1, <3>1
  <2> QED
    BY <1>5, <2>1
<1>7. byParam = IF named = {} THEN None ELSE resolveValueField(prog, site.args[CHOOSE k \in named : TRUE], path)
  BY <1>6, ParamAtCall
<1>8. (path = <<>> => byType = None) /\ (byType # None => byType[1] = "field")
  <2>1. byType = resolveNamedTypeField(prog, site.callee, name, path)
    OBVIOUS
  <2> HIDE DEF byType, path, name
  <2> QED
    BY <1>4, <2>1, NamedTypeFieldFound
<1>9. CASE Len(target) = 1
  <2>1. path = <<>> /\ byType = None
    BY <1>4, <1>8, <1>9
  <2>2. named # {} => global = None
    BY <1>9 DEF HidesMember
  <2>3. global # None => global[1] # "param"
    BY DEF CallShape, findInPackageGlobals
  <2> HIDE DEF params
  <2> QED
    BY <1>3, <1>7, <1>9, <2>1, <2>2, <2>3, SameWord
<1>10. CASE Len(target) > 1
  <2>1. multi = byParam /\ (multi # None => multi[1] = "field")
    <3>1. CASE named # {}
      <4> DEFINE k == CHOOSE j \in named : TRUE
      <4>1. k \in DOMAIN params
        BY <1>5, <3>1
      <4>2. multi = resolveNestedField(prog, params[k].type, path)
        BY <3>1 DEF resolveMultiAccess
      <4>3. byParam = resolveNestedField(prog, site.args[k].type, path)
        BY <1>4, <1>7, <1>10, <3>1 DEF resolveValueField
      <4>4. site.args[k].type = params[k].type
        BY <1>2, <4>1
      <4> HIDE DEF multi, byParam, k, params, path
      <4> QED
        BY <1>4, <4>2, <4>3, <4>4, NestedFieldFound
    <3>2. CASE named = {}
      <4>1. byParam = None
        BY <1>7, <3>2
      <4>2. multi = None
        BY <1>10, <3>2 DEF resolveMultiAccess, ImplicitReceiver
      <4> QED
        BY <4>1, <4>2
    <3> QED
      BY <3>1, <3>2
  <2>2. observed # None => observed[1] = "field"
    <3>1. observed = resolveObservedFieldAccess(prog, site.callee, path)
      OBVIOUS
    <3> HIDE DEF observed, path
    <3> QED
      BY <1>4, <3>1, ObservedFieldFound
  <2>3. Len(target) # 0 /\ Len(target) # 1
    BY <1>4, <1>10
  <2> QED
    BY <1>3, <1>8, <2>1, <2>2, <2>3, SamePath
<1> QED
  BY <1>4, <1>9, <1>10

-----------------------------------------------------------------------------
(***************************************************************************)
(* What the work of a run has done so far.  Every function analysed has    *)
(* gone one of the ways that its analysis may go, and all that way records *)
(* is raised; what is raised is in a list of the reporter or still to be   *)
(* recorded, and nothing else is.                                          *)
(***************************************************************************)
WorkInv ==
  /\ stage \in {"analyse", "done", "refused"}
  /\ current \in Range(input.loaded) \cup {None}
  /\ members \subseteq DOMAIN prog.fns
  /\ nested \in Seq(DOMAIN prog.fns)

AnalysedInv ==
  /\ stage = "refused" => analysed = {}
  /\ \A e \in analysed :
       /\ e.fn \in DOMAIN prog.fns
       /\ \E a \in outcomes[e.fn] :
            /\ e.contract = a.contract /\ e.advice = a.advice
            /\ Range(a.recorded) \subseteq raised

Outstanding(advisory) == {r.diag : r \in {x \in Range(outbox) : x.advisory = advisory}}

RecordInv ==
  /\ IgnoreMissingAnnotations = (input.front = "cli" /\ input.ignore)
  /\ IsReport(outbox) /\ Range(outbox) \subseteq raised
  /\ \A r \in raised : /\ r.advisory \in BOOLEAN
                       /\ r.diag = [pos |-> r.diag.pos, message |-> r.diag.message]
  /\ RaisedDiags(FALSE) = Range(Findings) \cup Outstanding(FALSE)
  /\ IF IgnoreMissingAnnotations
     THEN Range(Warnings) = {}
     ELSE RaisedDiags(TRUE) = Range(Warnings) \cup Outstanding(TRUE)

RunInv == AnnotationInv /\ WorkInv /\ AnalysedInv /\ RecordInv

(***************************************************************************)
(* What the shape of the program says of a function.                       *)
(***************************************************************************)
LEMMA FunctionShape ==
  ASSUME input \in Inputs, NEW fn \in DOMAIN prog.fns
  PROVE  LET f == prog.fns[fn] IN
           /\ f.anons \in Seq(DOMAIN prog.fns)
           /\ f.params \in Seq(Range(f.params)) /\ \A v \in Range(f.params) : v.name \in STRING
           /\ \A name \in DOMAIN prog.members[f.pkg] : prog.members[f.pkg][name][1] # "param"
           /\ IsFiniteSet(DOMAIN f.evidence) /\ \A lock \in DOMAIN f.evidence : lock[3] \in STRING
           /\ None \notin [kind : AnnotationKinds, lock : DOMAIN f.evidence]
           /\ IsOrderReport(f.orders.always) /\ IsOrderReport(f.orders.strict)
           /\ f.sites \in Seq(Range(f.sites))
           /\ \A site \in Range(f.sites) : site.op \in {"call", "access"}
           /\ \A site \in Range(f.sites) : site.op = "access" =>
                /\ site.owner # None => site.owner.name \in DOMAIN prog.types
                /\ site.isField => site.object # None
           /\ \A k \in DOMAIN f.sites : f.sites[k].op = "call" =>
                LET site == f.sites[k]
                    params == prog.fns[site.callee].params
                IN  /\ site.callee \in DOMAIN prog.fns
                    /\ site.args \in Seq(Range(site.args)) /\ Len(params) <= Len(site.args)
                    /\ \A j \in DOMAIN params : site.args[j].type = params[j].type
<1>1. LET f == prog.fns[fn] IN
        /\ f.anons \in Seq(DOMAIN prog.fns)
        /\ f.params \in Seq(Range(f.params)) /\ \A v \in Range(f.params) : v.name \in STRING
        /\ \A name \in DOMAIN prog.members[f.pkg] : prog.members[f.pkg][name][1] # "param"
        /\ IsFiniteSet(DOMAIN f.evidence) /\ \A lock \in DOMAIN f.evidence : lock[3] \in STRING
        /\ None \notin [kind : AnnotationKinds, lock : DOMAIN f.evidence]
        /\ IsOrderReport(f.orders.always) /\ IsOrderReport(f.orders.strict)
  BY FunctionsAssumption DEF prog
<1>2. LET f == prog.fns[fn] IN
        /\ f.sites \in Seq(Range(f.sites))
        /\ \A site \in Range(f.sites) : site.op \in {"call", "access"}
        /\ \A site \in Range(f.sites) : site.op = "access" =>
             /\ site.owner # None => site.owner.name \in DOMAIN prog.types
             /\ site.isField => site.object # None
  BY SitesAssumption DEF prog
<1> DEFINE Calls(f) == {x \in Range(f.sites) : x.op = "call"}
           Fits(site) == LET params == prog.fns[site.callee].params IN
                           /\ site.callee \in DOMAIN prog.fns
                           /\ site.args \in Seq(Range(site.args)) /\ Len(params) <= Len(site.args)
                           /\ \A j \in DOMAIN params : site.args[j].type = params[j].type
<1>3. \A site \in Calls(prog.fns[fn]) : Fits(site)
  BY SitesAssumption DEF prog
<1>4. \A k \in DOMAIN prog.fns[fn].sites :
        prog.fns[fn].sites[k].op = "call" => Fits(prog.fns[fn].sites[k])
  <2> HIDE DEF Fits
  <2> QED
    BY <1>3 DEF Range
<1> QED
  BY <1>1, <1>2, <1>4

(***************************************************************************)
(* What an analysis records is a report.  It has what is checked at each   *)
(* call with a contract that the callee may have been given, and at each   *)
(* access, and no more findings of guarded accesses.                       *)
(***************************************************************************)
LEMMA OutcomeParts ==
  ASSUME AnnotationInv, NEW fn \in DOMAIN prog.fns, NEW a \in outcomes[fn]
  PROVE  /\ a.contract \in contractForFunction(prog, fn, registry)
         /\ a.advice \in detectLikelyMissingLockAnnotations(prog, fn, a.contract)
         /\ IsReport(a.recorded)
         /\ \A k \in DOMAIN prog.fns[fn].sites :
              prog.fns[fn].sites[k].op = "call" =>
                LET site == prog.fns[fn].sites[k] IN
                  \E c \in contractForFunction(prog, site.callee, registry) :
                    Range(handleStaticCalleeFunction(prog, site, HeldAt(prog, fn, a.contract, site), c))
                      \subseteq Range(a.recorded)
         /\ \A site \in Range(prog.fns[fn].sites) :
              site.op = "access" =>
                Range(checkGuardedByAccess(prog, fn, site, HeldAt(prog, fn, a.contract, site), registry))
                  \subseteq Range(a.recorded)
         /\ \A r \in Range(a.recorded) : IsGuardFinding(r) =>
              \E site \in Range(prog.fns[fn].sites) :
                /\ site.op = "access"
                /\ r \in Range(checkGuardedByAccess(prog, fn, site, HeldAt(prog, fn, a.contract, site), registry))
<1>1. a \in functionAnalyses(prog, fn, registry, strictMode) /\ input \in Inputs
  BY DEF AnnotationInv
<1>2. /\ a.contract \in contractForFunction(prog, fn, registry)
      /\ a.advice \in detectLikelyMissingLockAnnotations(prog, fn, a.contract)
  BY <1>1, AnalysisParts
<1>3. PICK at : /\ \A k \in DOMAIN prog.fns[fn].sites :
                     prog.fns[fn].sites[k].op = "call"
                     => at[k] \in contractForFunction(prog, prog.fns[fn].sites[k].callee, registry)
                /\ a.recorded = Recording(prog, fn, a.contract, a.advice, at, registry, strictMode)
  BY <1>1, AnalysisParts
<1>4. Typed(a.contract)
  BY <1>2, GivenContract
<1>5. \A k \in DOMAIN prog.fns[fn].sites : prog.fns[fn].sites[k].op = "call" => Typed(at[k])
  BY <1>3, GivenContract
<1>6. LET f == prog.fns[fn] IN
        /\ f.sites \in Seq(Range(f.sites)) /\ \A k \in DOMAIN f.sites : f.sites[k].op \in {"call", "access"}
        /\ Quiet(f.orders.always) /\ Quiet(f.orders.strict)
  BY <1>1, FunctionShape DEF IsOrderReport, Quiet, IsGuardFinding, Range
<1>7. /\ IsReport(a.recorded)
      /\ \A k \in DOMAIN prog.fns[fn].sites :
           Range(SiteChecks(prog, fn, a.contract, at, registry, k)) \subseteq Range(a.recorded)
      /\ \A r \in Range(a.recorded) : IsGuardFinding(r) =>
           \E k \in DOMAIN prog.fns[fn].sites :
             /\ prog.fns[fn].sites[k].op # "call"
             /\ r \in Range(SiteChecks(prog, fn, a.contract, at, registry, k))
  BY <1>3, <1>4, <1>5, <1>6, RecordingReport
<1>8. \A k \in DOMAIN prog.fns[fn].sites : prog.fns[fn].sites[k].op = "call" =>
        LET site == prog.fns[fn].sites[k] IN
          SiteChecks(prog, fn, a.contract, at, registry, k)
            = handleStaticCalleeFunction(prog, site, HeldAt(prog, fn, a.contract, site), at[k])
  BY DEF SiteChecks
<1> DEFINE sites == prog.fns[fn].sites
           Check(site) == checkGuardedByAccess(prog, fn, site, HeldAt(prog, fn, a.contract, site), registry)
<1>9. \A k \in DOMAIN sites : sites[k].op # "call" =>
        sites[k].op = "access" /\ SiteChecks(prog, fn, a.contract, at, registry, k) = Check(sites[k])
  BY <1>6 DEF SiteChecks
<1>10. \A site \in Range(sites) : \E k \in DOMAIN sites : site = sites[k]
  BY DEF Range
<1>11. \A k \in DOMAIN sites : sites[k] \in Range(sites)
  BY DEF Range
<1> HIDE DEF sites, Check
<1>12. \A site \in Range(sites) : site.op = "access" => Range(Check(site)) \subseteq Range(a.recorded)
  BY <1>7, <1>9, <1>10 DEF sites
<1>13. \A r \in Range(a.recorded) : IsGuardFinding(r) =>
         \E site \in Range(sites) : site.op = "access" /\ r \in Range(Check(site))
  BY <1>7, <1>9, <1>11 DEF sites
<1> QED
  BY <1>2, <1>3, <1>7, <1>8, <1>12, <1>13 DEF sites, Check

-----------------------------------------------------------------------------
LEMMA InitRunInv == Init => RunInv
<1> SUFFICES ASSUME Init
             PROVE  RunInv
  OBVIOUS
<1>1. AnnotationInv
  BY DEF Init, AnnotationInv
<1>2. WorkInv
  BY DEF Init, WorkInv
<1>3. AnalysedInv
  BY DEF Init, AnalysedInv
<1>4. RecordInv
  <2>1. /\ outbox = <<>> /\ raised = {} /\ Findings = <<>> /\ Warnings = <<>>
        /\ IgnoreMissingAnnotations = (input.front = "cli" /\ input.ignore)
    BY DEF Init, NewReporter
  <2>2. IsReport(outbox) /\ Range(outbox) = {} /\ Range(Findings) = {} /\ Range(Warnings) = {}
    BY <2>1, EmptyReport
  <2> QED
    BY <2>1, <2>2 DEF RecordInv, RaisedDiags, Outstanding
<1> QED
  BY <1>1, <1>2, <1>3, <1>4 DEF RunInv

LEMMA AnnotationsStay ==
  ASSUME AnnotationInv, UNCHANGED annotations, stage' = "refused" <=> stage = "refused"
  PROVE  AnnotationInv'
<1>1. input' = input /\ registry' = registry /\ outcomes' = outcomes
  BY DEF annotations
<1>2. /\ prog' = prog /\ strictMode' = strictMode
      /\ (IF stage = "refused" THEN <<>> ELSE Files(input.loaded))'
           = IF stage = "refused" THEN <<>> ELSE Files(input.loaded)
  BY <1>1 DEF prog, strictMode, Files
<1> QED
  BY <1>1, <1>2 DEF AnnotationInv

(***************************************************************************)
(* More that is raised and waits in the outbox, if that was empty.         *)
(***************************************************************************)
LEMMA RecordsRaised ==
  ASSUME RecordInv, outbox = <<>>, input' = input, UNCHANGED reporterVars,
         IsReport(outbox'), raised' = raised \cup Range(outbox')
  PROVE  RecordInv'
<1>1. Range(outbox) = {}
  BY EmptyReport
<1>2. /\ RaisedDiags(FALSE)' = RaisedDiags(FALSE) \cup Outstanding(FALSE)'
      /\ RaisedDiags(TRUE)' = RaisedDiags(TRUE) \cup Outstanding(TRUE)'
  BY DEF RaisedDiags, Outstanding
<1>3. Outstanding(FALSE) = {} /\ Outstanding(TRUE) = {}
  BY <1>1 DEF Outstanding
<1>4. \A r \in raised' : r.advisory \in BOOLEAN /\ r.diag = [pos |-> r.diag.pos, message |-> r.diag.message]
  BY DEF RecordInv, IsReport
<1>5. /\ Findings' = Findings /\ Warnings' = Warnings
      /\ IgnoreMissingAnnotations' = IgnoreMissingAnnotations
  BY DEF reporterVars
<1>6. RaisedDiags(FALSE)' = Range(Findings)' \cup Outstanding(FALSE)'
  BY <1>2, <1>3, <1>5 DEF RecordInv
<1>7. IF IgnoreMissingAnnotations'
      THEN Range(Warnings)' = {}
      ELSE RaisedDiags(TRUE)' = Range(Warnings)' \cup Outstanding(TRUE)'
  BY <1>2, <1>3, <1>5 DEF RecordInv
<1> QED
  BY <1>4, <1>5, <1>6, <1>7 DEF RecordInv

(***************************************************************************)
(* A diagnostic is its key.                                                *)
(***************************************************************************)
LEMMA KeyKnown ==
  ASSUME NEW S, \A x \in S : x = [pos |-> x.pos, message |-> x.message],
         NEW d, d = [pos |-> d.pos, message |-> d.message],
         diagnosticKey(d) \in {diagnosticKey(x) : x \in S}
  PROVE  d \in S
<1>1. PICK x \in S : diagnosticKey(x) = diagnosticKey(d)
  OBVIOUS
<1>2. x.pos = d.pos /\ x.message = d.message
  BY <1>1 DEF diagnosticKey
<1>3. x = d
  BY <1>2
<1> QED
  BY <1>3

(***************************************************************************)
(* A sequence has its first element and those of its tail.                 *)
(***************************************************************************)
LEMMA HeadTailRange ==
  ASSUME NEW s, s \in Seq(Range(s)), s # <<>>
  PROVE  /\ Range(s) = {Head(s)} \cup Range(Tail(s))
         /\ Tail(s) \in Seq(Range(Tail(s)))
<1>1. Tail(s) \in Seq(Range(s)) /\ Head(s) \in Range(s) /\ s = <<Head(s)>> \o Tail(s)
  BY HeadTailProperties
<1>2. Range(<<Head(s)>>) = {Head(s)}
  BY DEF Range
<1>3. <<Head(s)>> \in Seq(Range(s))
  BY <1>1
<1>4. Range(<<Head(s)>> \o Tail(s)) = {Head(s)} \cup Range(Tail(s))
  <2> DEFINE h == <<Head(s)>>
             t == Tail(s)
             S == Range(s)
  <2>1. h \in Seq(S) /\ t \in Seq(S) /\ Range(h) = {Head(s)}
    BY <1>1, <1>2, <1>3
  <2> HIDE DEF h, t, S
  <2>2. Range(h \o t) = Range(h) \cup Range(t)
    BY <2>1, RangeConcatenation
  <2> QED
    BY <2>1, <2>2 DEF h, t
<1>5. Tail(s) \in Seq(Range(Tail(s)))
  BY <1>1, SeqOfRange
<1> QED
  BY <1>1, <1>4, <1>5

(***************************************************************************)
(* Recording the first of the outbox puts it into its list, or it is there *)
(* already.                                                                *)
(***************************************************************************)
LEMMA RecordRecords ==
  ASSUME RecordInv, ReporterConsistent, input' = input, raised' = raised, Record
  PROVE  RecordInv'
<1> DEFINE r == Head(outbox)
           d == r.diag
           Rest(advisory) == {x.diag : x \in {y \in Range(Tail(outbox)) : y.advisory = advisory}}
<1>1. /\ Range(outbox) = {r} \cup Range(Tail(outbox))
      /\ outbox' = Tail(outbox) /\ outbox' \in Seq(Range(outbox'))
  BY HeadTailRange DEF Record, RecordInv, IsReport
<1>2. IsReport(outbox') /\ Range(outbox') \subseteq raised'
  BY <1>1 DEF RecordInv, IsReport
<1>3. r \in raised /\ r.advisory \in BOOLEAN /\ d = [pos |-> d.pos, message |-> d.message]
  BY <1>1 DEF RecordInv, IsReport
<1>4. \A adv \in BOOLEAN :
        /\ Outstanding(adv) = Rest(adv) \cup (IF r.advisory = adv THEN {d} ELSE {})
        /\ Outstanding(adv)' = Rest(adv)
        /\ RaisedDiags(adv)' = RaisedDiags(adv)
  BY <1>1 DEF Outstanding, RaisedDiags
<1>5. \A adv \in BOOLEAN : \A x \in RaisedDiags(adv) : x = [pos |-> x.pos, message |-> x.message]
  BY DEF RecordInv, RaisedDiags
<1>6. IgnoreMissingAnnotations' = IgnoreMissingAnnotations
  BY DEF Record, Warn, WarnHeuristic
<1>7. CASE r.advisory
  <2>1. WarnHeuristic(d)
    BY <1>7 DEF Record
  <2>2. Findings' = Findings
    BY <2>1 DEF WarnHeuristic
  <2>3. RaisedDiags(FALSE)' = Range(Findings)' \cup Outstanding(FALSE)'
    BY <1>4, <1>7, <2>2 DEF RecordInv
  <2>4. CASE IgnoreMissingAnnotations
    <3>1. Warnings' = Warnings
      BY <2>1, <2>4 DEF WarnHeuristic
    <3> QED
      BY <1>2, <1>6, <2>3, <2>4, <3>1 DEF RecordInv
  <2>5. CASE ~IgnoreMissingAnnotations
    <3>1. Range(Warnings)' = Range(Warnings) \cup {d}
      <4>1. CASE diagnosticKey(d) \in seenWarnings
        <5>1. Warnings' = Warnings
          BY <2>1, <4>1 DEF WarnHeuristic
        <5>2. \A x \in Range(Warnings) : x = [pos |-> x.pos, message |-> x.message]
          BY <1>5, <2>5 DEF RecordInv
        <5>3. seenWarnings = {diagnosticKey(x) : x \in Range(Warnings)}
          BY DEF ReporterConsistent, Recorded
        <5>4. d \in Range(Warnings)
          <6> HIDE DEF d
          <6> QED
            BY <1>3, <4>1, <5>2, <5>3, KeyKnown
        <5> QED
          BY <5>1, <5>4
      <4>2. CASE diagnosticKey(d) \notin seenWarnings
        <5>1. Warnings' = Append(Warnings, d)
          BY <2>1, <2>5, <4>2 DEF WarnHeuristic
        <5> QED
          BY <5>1, AppendRange DEF ReporterConsistent, Recorded
      <4> QED
        BY <4>1, <4>2
    <3>2. RaisedDiags(TRUE)' = Range(Warnings)' \cup Outstanding(TRUE)'
      BY <1>4, <1>7, <2>5, <3>1 DEF RecordInv
    <3> QED
      BY <1>2, <1>6, <2>3, <2>5, <3>2 DEF RecordInv
  <2> QED
    BY <2>4, <2>5
<1>8. CASE ~r.advisory
  <2>1. Warn(d)
    BY <1>8 DEF Record
  <2>2. Warnings' = Warnings
    BY <2>1 DEF Warn
  <2>3. IF IgnoreMissingAnnotations'
        THEN Range(Warnings)' = {}
        ELSE RaisedDiags(TRUE)' = Range(Warnings)' \cup Outstanding(TRUE)'
    BY <1>4, <1>6, <1>8, <2>2 DEF RecordInv
  <2>4. Range(Findings)' = Range(Findings) \cup {d}
    <3>1. CASE diagnosticKey(d) \in seen
      <4>1. Findings' = Findings
        BY <2>1, <3>1 DEF Warn
      <4>2. \A x \in Range(Findings) : x = [pos |-> x.pos, message |-> x.message]
        BY <1>5 DEF RecordInv
      <4>3. seen = {diagnosticKey(x) : x \in Range(Findings)}
        BY DEF ReporterConsistent, Recorded
      <4>4. d \in Range(Findings)
        <5> HIDE DEF d
        <5> QED
          BY <1>3, <3>1, <4>2, <4>3, KeyKnown
      <4> QED
        BY <4>1, <4>4
    <3>2. CASE diagnosticKey(d) \notin seen
      <4>1. Findings' = Append(Findings, d)
        BY <2>1, <3>2 DEF Warn
      <4> QED
        BY <4>1, AppendRange DEF ReporterConsistent, Recorded
    <3> QED
      BY <3>1, <3>2
  <2>5. RaisedDiags(FALSE)' = Range(Findings)' \cup Outstanding(FALSE)'
    BY <1>3, <1>4, <1>8, <2>4 DEF RecordInv
  <2> QED
    BY <1>2, <1>6, <2>3, <2>5 DEF RecordInv
<1> QED
  BY <1>3, <1>7, <1>8

(***************************************************************************)
(* What has been analysed stays so while more is raised.                   *)
(***************************************************************************)
LEMMA AnalysedStay ==
  ASSUME AnalysedInv, UNCHANGED annotations, analysed' = analysed, raised \subseteq raised',
         stage' = "refused" => stage = "refused"
  PROVE  AnalysedInv'
<1>1. outcomes' = outcomes /\ prog' = prog
  BY DEF annotations, prog
<1> QED
  BY <1>1 DEF AnalysedInv

LEMMA StepRunInv == Inv /\ RunInv /\ Step => RunInv'
<1> SUFFICES ASSUME Inv, RunInv, Step
             PROVE  RunInv'
  OBVIOUS
<1>0. /\ AnnotationInv /\ WorkInv /\ AnalysedInv /\ RecordInv
      /\ QueueInv /\ StageInv /\ ReporterConsistent
  BY DEF Inv, RunInv
<1>1. ASSUME RunPackage
      PROVE  RunInv'
  <2>1. UNCHANGED annotations /\ UNCHANGED <<stage, nested, outbox, analysed, raised>> /\ UNCHANGED reporterVars
    BY <1>1 DEF RunPackage, history
  <2>2. input' = input /\ prog' = prog
    BY <2>1 DEF annotations, prog
  <2>3. current' \in Range(input.loaded) /\ members' = prog.declared[current']
    <3>1. Head(packages) \in Range(input.loaded)
      BY <1>0, <1>1 DEF RunPackage, QueueInv
    <3> QED
      BY <1>1, <3>1 DEF RunPackage
  <2>4. members' \subseteq DOMAIN prog.fns
    BY <1>0, <2>3, PackagesAssumption DEF AnnotationInv, prog
  <2>5. WorkInv'
    BY <1>0, <2>1, <2>2, <2>3, <2>4 DEF WorkInv
  <2>6. AnnotationInv' /\ AnalysedInv'
    BY <1>0, <2>1, AnnotationsStay, AnalysedStay
  <2>7. RecordInv'
    BY <1>0, <2>1, <2>2 DEF RecordInv, RaisedDiags, Outstanding, reporterVars
  <2> QED
    BY <2>5, <2>6, <2>7 DEF RunInv
<1>2. ASSUME NEW fn \in DOMAIN prog.fns, AnalyzeFunction(fn)
      PROVE  RunInv'
  <2>1. /\ UNCHANGED annotations /\ UNCHANGED <<stage, packages, current>> /\ UNCHANGED reporterVars
        /\ outbox = <<>>
    BY <1>2 DEF AnalyzeFunction
  <2>2. input' = input /\ prog' = prog /\ outcomes' = outcomes
    BY <2>1 DEF annotations, prog
  <2>3. stage # "refused"
    BY <1>0, <1>2 DEF AnalyzeFunction, StageInv
  <2>4. nested' \in Seq(DOMAIN prog.fns)
    <3> DEFINE S == DOMAIN prog.fns
               inner == IF prog.fns[fn].hasBody THEN prog.fns[fn].anons ELSE <<>>
               rest == IF nested = <<>> THEN <<>> ELSE Tail(nested)
    <3>1. prog.fns[fn].anons \in Seq(S)
      BY <1>0, FunctionShape DEF AnnotationInv
    <3>2. inner \in Seq(S)
      <4> HIDE DEF S
      <4> QED
        BY <3>1
    <3>3. rest \in Seq(S)
      <4>1. nested \in Seq(S)
        BY <1>0 DEF WorkInv
      <4> HIDE DEF S
      <4> QED
        BY <4>1
    <3>4. nested' = inner \o rest
      BY <1>2 DEF AnalyzeFunction
    <3> HIDE DEF S, inner, rest
    <3>5. nested' \in Seq(S)
      BY <3>2, <3>3, <3>4
    <3> QED
      BY <3>5 DEF S
  <2>5. WorkInv'
    <3>1. members' \subseteq members
      BY <1>2 DEF AnalyzeFunction
    <3> QED
      BY <1>0, <2>1, <2>2, <2>4, <3>1 DEF WorkInv
  <2>6. AnnotationInv'
    BY <1>0, <2>1, AnnotationsStay
  <2>7. CASE prog.fns[fn].hasBody
    <3>1. PICK a \in outcomes[fn] :
            /\ outbox' = a.recorded
            /\ analysed' = analysed \cup {[fn |-> fn, contract |-> a.contract, advice |-> a.advice]}
            /\ raised' = raised \cup Range(a.recorded)
      BY <1>2, <2>7 DEF AnalyzeFunction
    <3>2. IsReport(outbox')
      BY <1>0, <1>2, <3>1, OutcomeParts
    <3>3. RecordInv'
      BY <1>0, <2>1, <2>2, <3>1, <3>2, RecordsRaised
    <3>4. AnalysedInv'
      <4> DEFINE new == [fn |-> fn, contract |-> a.contract, advice |-> a.advice]
                 Known(e, told) ==
                   /\ e.fn \in DOMAIN prog.fns
                   /\ \E b \in outcomes[e.fn] :
                        /\ e.contract = b.contract /\ e.advice = b.advice
                        /\ Range(b.recorded) \subseteq told
      <4>1. \A e \in analysed : Known(e, raised')
        BY <1>0, <3>1 DEF AnalysedInv
      <4>2. Known(new, raised')
        <5>1. new.fn = fn /\ new.contract = a.contract /\ new.advice = a.advice
          OBVIOUS
        <5>2. Range(a.recorded) \subseteq raised'
          BY <3>1
        <5> HIDE DEF new
        <5> QED
          BY <5>1, <5>2
      <4> HIDE DEF Known, new
      <4>3. \A e \in analysed' : Known(e, raised')
        BY <3>1, <4>1, <4>2 DEF new
      <4> QED
        BY <2>1, <2>2, <2>3, <4>3 DEF AnalysedInv, Known
    <3> QED
      BY <2>5, <2>6, <3>3, <3>4 DEF RunInv
  <2>8. CASE ~prog.fns[fn].hasBody
    <3>1. UNCHANGED <<outbox, analysed, raised>>
      BY <1>2, <2>8 DEF AnalyzeFunction, history
    <3>2. RecordInv'
      BY <1>0, <2>1, <2>2, <3>1 DEF RecordInv, RaisedDiags, Outstanding, reporterVars
    <3>3. AnalysedInv'
      BY <1>0, <2>1, <3>1, AnalysedStay
    <3> QED
      BY <2>5, <2>6, <3>2, <3>3 DEF RunInv
  <2> QED
    BY <2>7, <2>8
<1>3. ASSUME FinishPackage
      PROVE  RunInv'
  <2>1. /\ UNCHANGED annotations /\ UNCHANGED reporterVars /\ outbox = <<>>
        /\ stage' = stage /\ members' = members /\ nested' = nested /\ analysed' = analysed
        /\ current # None /\ current' = None /\ raised' = raised \cup Range(outbox')
    BY <1>3 DEF FinishPackage
  <2>2. input' = input /\ prog' = prog
    BY <2>1 DEF annotations, prog
  <2>3. WorkInv'
    BY <1>0, <2>1, <2>2 DEF WorkInv
  <2>4. AnnotationInv' /\ AnalysedInv'
    BY <1>0, <2>1, AnnotationsStay, AnalysedStay
  <2>5. IsReport(outbox')
    <3>1. current \in Range(input.loaded)
      BY <1>0, <2>1 DEF WorkInv
    <3>2. IsReport(prog.packageWide[current])
      BY <1>0, <3>1, PackagesAssumption DEF AnnotationInv, prog, IsOrderReport
    <3> QED
      BY <1>3, <3>2, EmptyReport DEF FinishPackage
  <2>6. RecordInv'
    BY <1>0, <2>1, <2>2, <2>5, RecordsRaised
  <2> QED
    BY <2>3, <2>4, <2>6 DEF RunInv
<1>4. ASSUME Record
      PROVE  RunInv'
  <2>1. UNCHANGED annotations /\ UNCHANGED <<stage, packages, members, nested, current, analysed, raised>>
    BY <1>4 DEF Record, control, history
  <2>2. input' = input /\ prog' = prog
    BY <2>1 DEF annotations, prog
  <2>3. WorkInv'
    BY <1>0, <2>1, <2>2 DEF WorkInv
  <2>4. AnnotationInv' /\ AnalysedInv'
    BY <1>0, <2>1, AnnotationsStay, AnalysedStay
  <2>5. RecordInv'
    BY <1>0, <1>4, <2>1, <2>2, RecordRecords
  <2> QED
    BY <2>3, <2>4, <2>5 DEF RunInv
<1>5. ASSUME Report
      PROVE  RunInv'
  <2>1. /\ UNCHANGED annotations /\ UNCHANGED <<members, nested, current, outbox, analysed, raised>>
        /\ stage = "analyse" /\ stage' = "done"
    BY <1>5 DEF Report, history
  <2>2. input' = input /\ prog' = prog
    BY <2>1 DEF annotations, prog
  <2>3. WorkInv'
    BY <1>0, <2>1, <2>2 DEF WorkInv
  <2>4. AnnotationInv' /\ AnalysedInv'
    BY <1>0, <2>1, AnnotationsStay, AnalysedStay
  <2>5. /\ Range(Findings)' = Range(Findings) /\ Range(Warnings)' = Range(Warnings)
        /\ IgnoreMissingAnnotations' = IgnoreMissingAnnotations
    BY <1>0, <1>5, PrintReports, PassReports DEF Report, PrintReport, PassReport
  <2>6. RecordInv'
    BY <1>0, <2>1, <2>2, <2>5 DEF RecordInv, RaisedDiags, Outstanding
  <2> QED
    BY <2>3, <2>4, <2>6 DEF RunInv
<1> QED
  BY <1>1, <1>2, <1>3, <1>4, <1>5 DEF Step

LEMMA StutterRunInv == RunInv /\ UNCHANGED vars => RunInv'
<1> SUFFICES ASSUME RunInv, UNCHANGED vars
             PROVE  RunInv'
  OBVIOUS
<1>1. /\ UNCHANGED annotations /\ UNCHANGED reporterVars
      /\ UNCHANGED <<stage, packages, members, nested, current, outbox, analysed, raised>>
  BY DEF vars, control, history
<1>2. input' = input /\ prog' = prog
  BY <1>1 DEF annotations, prog
<1>3. AnnotationInv' /\ AnalysedInv'
  BY <1>1, AnnotationsStay, AnalysedStay DEF RunInv
<1>4. WorkInv'
  BY <1>1, <1>2 DEF RunInv, WorkInv
<1>5. RecordInv'
  BY <1>1, <1>2 DEF RunInv, RecordInv, RaisedDiags, Outstanding, reporterVars
<1> QED
  BY <1>3, <1>4, <1>5 DEF RunInv

LEMMA AlwaysRunInv == Spec => [](Inv /\ RunInv)
<1>1. Init => RunInv
  BY InitRunInv
<1>2. Inv /\ RunInv /\ [Next]_vars => RunInv'
  BY StepRunInv, StutterRunInv DEF Next, Terminating
<1> QED
  BY <1>1, <1>2, AlwaysInv, PTL DEF Spec

-----------------------------------------------------------------------------
(***************************************************************************)
(* A list that is sorted is in order, and none of its elements comes twice.*)
(***************************************************************************)
LEMMA SortListed ==
  ASSUME NEW list, NEW keys, Recorded(list, keys), NEW sorted \in sortDiagnostics(list)
  PROVE  Listed(sorted)
<1> DEFINE D == DOMAIN list
<1>1. PICK perm \in Bijection(D, D) :
        /\ sorted = [k \in D |-> list[perm[k]]]
        /\ \A j, k \in D : j < k => ~Before(list[perm[k]], list[perm[j]])
  BY DEF sortDiagnostics
<1>2. perm \in [D -> D]
  BY <1>1 DEF Bijection, Injection
<1>3. DOMAIN sorted = D /\ \A k \in D : sorted[k] = list[perm[k]]
  BY <1>1
<1>4. \A j, k \in D : j < k => sorted[j] # sorted[k]
  <2>1. \A j, k \in DOMAIN sorted : sorted[j] = sorted[k] => j = k
    BY SortRecorded DEF Recorded
  <2>2. D \subseteq Nat
    <3>1. list \in Seq(Range(list))
      BY DEF Recorded
    <3> QED
      BY <3>1
  <2>3. \A j, k \in D : j < k => j # k
    BY <2>2
  <2> QED
    BY <1>3, <2>1, <2>3
<1> HIDE DEF D
<1> QED
  BY <1>1, <1>3, <1>4 DEF Listed

(***************************************************************************)
(* The report shows what was raised.                                       *)
(***************************************************************************)
LEMMA ReportShows == Inv /\ RunInv /\ Report => ShownExact'
<1> SUFFICES ASSUME Inv, RunInv, Report
             PROVE  ShownExact'
  OBVIOUS
<1>1. ReporterConsistent /\ RecordInv
  BY DEF Inv, RunInv
<1>2. outbox = <<>> /\ input' = input /\ raised' = raised
  BY DEF Report, annotations, history
<1>3. Range(outbox) = {}
  BY <1>2, EmptyReport
<1>4. /\ RaisedDiags(FALSE)' = Range(Findings)
      /\ IF IgnoreMissingAnnotations
         THEN Range(Warnings) = {}
         ELSE RaisedDiags(TRUE)' = Range(Warnings)
  BY <1>1, <1>2, <1>3 DEF RecordInv, RaisedDiags, Outstanding
<1>5. CASE input.front = "cli"
  <2>1. PrintReport
    BY <1>5 DEF Report
  <2>2. output' = {[findings |-> Range(Findings), warnings |-> Range(Warnings)]}
    BY <1>1, <2>1, PrintReports
  <2>3. Shown' = [findings |-> RaisedDiags(FALSE)',
                  warnings |-> IF input.ignore THEN {} ELSE RaisedDiags(TRUE)']
    BY <1>2, <1>5 DEF Shown
  <2>4. IgnoreMissingAnnotations <=> input.ignore
    BY <1>1, <1>5 DEF RecordInv
  <2>5. output' = {Shown'}
    BY <1>4, <2>2, <2>3, <2>4
  <2>6. Listed(Findings)' /\ Listed(Warnings)'
    <3>1. Findings' \in sortDiagnostics(Findings) /\ Warnings' \in sortDiagnostics(Warnings)
      BY <2>1 DEF PrintReport
    <3>2. Recorded(Findings, seen) /\ Recorded(Warnings, seenWarnings)
      BY <1>1 DEF ReporterConsistent
    <3>3. Listed(Findings') /\ Listed(Warnings')
      BY <3>1, <3>2, SortListed
    <3> QED
      BY <3>3 DEF Listed
  <2> QED
    BY <2>5, <2>6 DEF ShownExact
<1>6. CASE input.front # "cli"
  <2>1. PassReport
    BY <1>6 DEF Report
  <2>2. output' = {[findings |-> {d \in Range(Findings) : d.pos # 0}, warnings |-> {}]}
    BY <2>1 DEF PassReport
  <2>3. Shown' = [findings |-> {d \in RaisedDiags(FALSE)' : d.pos # 0}, warnings |-> {}]
    BY <1>2, <1>6 DEF Shown
  <2>4. output' = {Shown'}
    BY <1>4, <2>2, <2>3
  <2> QED
    BY <1>2, <1>6, <2>4 DEF ShownExact
<1> QED
  BY <1>5, <1>6

(***************************************************************************)
(* In every run, whatever the programs and the order of the packages and   *)
(* of their members, the report shows each diagnostic raised in the run    *)
(* once and in the order of the source, by vet the findings that have a    *)
(* position (report.go:88-131, analysis_runner.go).                        *)
(***************************************************************************)
THEOREM RunShownExact == Spec => []ShownExact
<1>1. Init => ShownExact
  BY DEF Init, ShownExact
<1>2. Inv /\ RunInv /\ ShownExact /\ [Next]_vars => ShownExact'
  <2> SUFFICES ASSUME Inv, RunInv, ShownExact, [Next]_vars
               PROVE  ShownExact'
    OBVIOUS
  <2>1. CASE Report
    BY <2>1, ReportShows
  <2>2. CASE UNCHANGED vars
    <3>1. /\ stage' = stage /\ input' = input /\ raised' = raised
          /\ output' = output /\ Findings' = Findings /\ Warnings' = Warnings
      BY <2>2 DEF vars, control, history, annotations, reporterVars
    <3> QED
      BY <3>1 DEF ShownExact, Shown, RaisedDiags, Listed
  <2>3. CASE RunPackage \/ (\E fn \in DOMAIN prog.fns : AnalyzeFunction(fn)) \/ FinishPackage \/ Record
    <3>1. stage' = stage
      BY <2>3 DEF RunPackage, AnalyzeFunction, FinishPackage, Record, control
    <3>2. stage # "done"
      BY <2>3 DEF Inv, StageInv, RunPackage, AnalyzeFunction, FinishPackage, Record
    <3> QED
      BY <3>1, <3>2 DEF ShownExact
  <2> QED
    BY <2>1, <2>2, <2>3 DEF Next, Step, Terminating
<1> QED
  BY <1>1, <1>2, AlwaysRunInv, PTL DEF Spec

(***************************************************************************)
(* In every run the registry's contracts, the queue of packages, the       *)
(* functions still to analyse and the analyses made have their types.      *)
(***************************************************************************)
THEOREM RunTypeOK == Spec => []TypeOK
<1>1. Inv /\ RunInv => TypeOK
  <2> SUFFICES ASSUME Inv, RunInv
               PROVE  TypeOK
    OBVIOUS
  <2>0. /\ AnnotationInv /\ WorkInv /\ AnalysedInv /\ RecordInv
        /\ QueueInv /\ ReporterConsistent
    BY DEF Inv, RunInv
  <2>1. \A c \in Contracts \ {None} : DOMAIN c.expectations = AnnotationKinds
    <3>1. \A x \in Range(registry.functions) \cup Range(registry.byPos) :
            \E d \in FuncDecls : x = handleFuncDecl(d)
      BY <2>0, RegistryEntries DEF Range
    <3>2. \A c \in Contracts \ {None} : Typed(c)
      BY <2>0, <3>1, DeclaredContract DEF Contracts, AnnotationInv
    <3> QED
      BY <3>2 DEF Typed
  <2>2. Range(packages) \cup {current} \subseteq Range(input.loaded) \cup {None}
    <3>1. Range(packages) \subseteq Range(input.loaded)
      BY <2>0, RangeOfSeq DEF QueueInv
    <3> QED
      BY <2>0, <3>1 DEF WorkInv
  <2>3. members \cup Range(nested) \subseteq DOMAIN prog.fns
    <3>1. Range(nested) \subseteq DOMAIN prog.fns
      BY <2>0, RangeOfSeq DEF WorkInv
    <3> QED
      BY <2>0, <3>1 DEF WorkInv
  <2>4. \A e \in analysed : e.fn \in DOMAIN prog.fns /\ e.contract \in Contracts
    BY <2>0, OutcomeParts, GivenContract DEF AnalysedInv
  <2> QED
    BY <2>0, <2>1, <2>2, <2>3, <2>4 DEF TypeOK, WorkInv, RecordInv, ReporterConsistent, Recorded
<1> QED
  BY <1>1, AlwaysRunInv, PTL

(***************************************************************************)
(* In every run, over any packages loaded, a function is analysed with the *)
(* contract of its own declaration, whatever the other packages declare    *)
(* and in any order of the maps (contracts_lookup.go, visitor.go).         *)
(***************************************************************************)
THEOREM RunOwnContract == Spec => []OwnContract
<1>1. RunInv => OwnContract
  <2> SUFFICES ASSUME RunInv, stage = "done", NEW e \in analysed, NEW d \in FuncDecls,
                      Declares(d, e.fn), HasOwnKey(e.fn)
               PROVE  e.contract = handleFuncDecl(d)
    BY DEF OwnContract
  <2>1. AnnotationInv /\ stage # "refused"
    BY DEF RunInv
  <2>2. e.fn \in DOMAIN prog.fns /\ \E a \in outcomes[e.fn] : e.contract = a.contract
    BY DEF RunInv, AnalysedInv
  <2>3. e.contract \in contractForFunction(prog, e.fn, registry)
    BY <2>1, <2>2, OutcomeParts
  <2> QED
    BY <2>1, <2>2, <2>3, OwnKeyContract
<1> QED
  BY <1>1, AlwaysRunInv, PTL

-----------------------------------------------------------------------------
(***************************************************************************)
(* A requirement of the callee that a call does not meet is reported.      *)
(***************************************************************************)
Tells(r, site, target) ==
  r.diag.pos = site.pos /\ r.diag.message.kind = "requires" /\ r.diag.message.target = target

LEMMA RequirementChecked ==
  ASSUME NEW p, NEW site, NEW held, NEW target, NEW lock,
         lock = resolveObjectAtInvocation(p, site.callee, site.args, target),
         site.pos # 0
  PROVE  \/ lock # None /\ lock \in held
         \/ \E r \in Range(checkRequiresExpectation(p, site, held, target)) : Tells(r, site, target)
<1> SUFFICES ASSUME ~(lock # None /\ lock \in held)
             PROVE  \E r \in Range(checkRequiresExpectation(p, site, held, target)) : Tells(r, site, target)
  OBVIOUS
<1>1. \A what, about : LET f == Finding(site.pos, what, "requires", about, target) IN
        f.diag.pos = site.pos /\ f.diag.message.kind = "requires" /\ f.diag.message.target = target
  BY DEF Finding
<1>2. \A what, about : Advisory(site.pos, what, "requires", about, target).diag
                         = Finding(site.pos, what, "requires", about, target).diag
  BY DEF Finding, Advisory
<1>3. \A what, about : /\ Tells(Finding(site.pos, what, "requires", about, target), site, target)
                       /\ Tells(Advisory(site.pos, what, "requires", about, target), site, target)
  BY <1>1, <1>2 DEF Tells
<1>4. \A r : r \in Range(<<r>>)
  BY DEF Range
<1>7. \A what, about : LET a == Advisory(site.pos, what, "requires", about, target) IN Placed(a) = <<a>>
  BY <1>1, <1>2 DEF Placed
<1>5. CASE lock = None
  <2>1. checkRequiresExpectation(p, site, held, target) = Unmapped(p, "requires", site, target)
    BY <1>5 DEF checkRequiresExpectation
  <2>2. PICK r : Unmapped(p, "requires", site, target) = <<r>> /\ Tells(r, site, target)
    <3> HIDE DEF Tells
    <3> QED
      BY <1>3, <1>7 DEF Unmapped, reportUnresolvableAnnotation, reportCallsiteLocalRootAnnotation
  <2> QED
    BY <1>4, <2>1, <2>2
<1>6. CASE lock # None
  <2> DEFINE r == Finding(site.pos, "call needs lock", "requires", <<p.fns[site.callee].name>>, target)
  <2>1. checkRequiresExpectation(p, site, held, target) = <<r>>
    BY <1>6 DEF checkRequiresExpectation
  <2>2. Tells(r, site, target)
    BY <1>3
  <2> HIDE DEF r, Tells
  <2> QED
    BY <1>4, <2>1, <2>2
<1> QED
  BY <1>5, <1>6

(***************************************************************************)
(* A requirement that the callee is analysed as holding, at one call.      *)
(***************************************************************************)
LEMMA CallChecked ==
  ASSUME RunInv, NEW callee \in analysed, NEW caller \in analysed,
         NEW k \in DOMAIN prog.fns[caller.fn].sites,
         NEW site, site = prog.fns[caller.fn].sites[k],
         NEW held, held = HeldAt(prog, caller.fn, caller.contract, site),
         site.op = "call", site.callee = callee.fn, site.pos # 0,
         contractForFunction(prog, callee.fn, registry) = {callee.contract},
         NEW target \in Range(Targets(callee.contract, "requires")),
         NEW lock, lock = resolveObjectInScope(prog, site.callee, target), lock # None,
         ~ImplicitReceiver(site.callee, target), ~HidesMember(site.callee, target)
  PROVE  \/ AtCaller(site, lock) \in held
         \/ \E r \in raised : Tells(r, site, target)
<1>0. AnnotationInv /\ AnalysedInv /\ input \in Inputs
  BY DEF RunInv, AnnotationInv
<1>1. /\ callee.fn \in DOMAIN prog.fns /\ caller.fn \in DOMAIN prog.fns
      /\ \E a \in outcomes[caller.fn] : caller.contract = a.contract /\ Range(a.recorded) \subseteq raised
  BY <1>0 DEF AnalysedInv
<1>2. PICK a \in outcomes[caller.fn] : caller.contract = a.contract /\ Range(a.recorded) \subseteq raised
  BY <1>1
<1>3. Range(handleStaticCalleeFunction(prog, site, held, callee.contract)) \subseteq raised
  <2>1. PICK c \in contractForFunction(prog, site.callee, registry) :
          Range(handleStaticCalleeFunction(prog, site, HeldAt(prog, caller.fn, a.contract, site), c))
            \subseteq Range(a.recorded)
    BY <1>0, <1>1, <1>2, OutcomeParts
  <2>2. c = callee.contract
    OBVIOUS
  <2>3. HeldAt(prog, caller.fn, a.contract, site) = held
    BY <1>2
  <2> QED
    BY <1>2, <2>1, <2>2, <2>3
<1>4. Typed(callee.contract)
  BY <1>0, GivenContract
<1>5. Range(checkRequiresExpectation(prog, site, held, target)) \subseteq raised
  BY <1>3, <1>4, CallReport
<1>6. target \in Seq(STRING)
  <2> DEFINE targets == Targets(callee.contract, "requires")
             S == Seq(STRING)
  <2>1. targets \in Seq(S)
    BY <1>4, TargetsOf DEF AnnotationKinds
  <2>2. target \in Range(targets)
    OBVIOUS
  <2> HIDE DEF S, targets
  <2>3. target \in S
    BY <2>1, <2>2, RangeOfSeq
  <2> QED
    BY <2>3 DEF S
<1>7. CallShape(site)
  BY <1>0, <1>1, FunctionShape DEF CallShape
<1> DEFINE seenAt == resolveObjectAtInvocation(prog, site.callee, site.args, target)
<1>8. seenAt # None => AtCaller(site, lock) = seenAt
  BY <1>6, <1>7, SameLock
<1>9. \/ seenAt # None /\ seenAt \in held
      \/ \E r \in Range(checkRequiresExpectation(prog, site, held, target)) : Tells(r, site, target)
  BY RequirementChecked
<1> HIDE DEF seenAt
<1> QED
  BY <1>5, <1>8, <1>9

(***************************************************************************)
(* In every run, for any two analysed functions of any packages, a mutex   *)
(* that the callee is analysed as holding is held at the call, under the   *)
(* caller's name for it, or the call is reported: what the callee makes of *)
(* a target (resolveObjectInScope) and what the caller makes of it         *)
(* (resolveObjectAtInvocation) is the same object, if both know one.       *)
(***************************************************************************)
THEOREM RunAssumedLocksChecked == Spec => []AssumedLocksChecked
<1>1. RunInv => AssumedLocksChecked
  <2> SUFFICES ASSUME RunInv, stage = "done", NEW callee \in analysed, NEW caller \in analysed,
                      NEW k \in DOMAIN prog.fns[caller.fn].sites
               PROVE  LET site == prog.fns[caller.fn].sites[k]
                          held == site.held \cup createInitialLockset(prog, caller.fn, caller.contract)
                      IN  /\ site.op = "call" /\ site.callee = callee.fn /\ site.pos # 0
                          /\ contractForFunction(prog, callee.fn, registry) = {callee.contract}
                          => \A target \in Range(Targets(callee.contract, "requires")) :
                               \A lock \in {resolveObjectInScope(prog, callee.fn, target)} \ {None} :
                                 ~ImplicitReceiver(callee.fn, target) /\ ~HidesMember(callee.fn, target)
                                 => \/ AtCaller(site, lock) \in held
                                    \/ \E r \in raised : /\ r.diag.pos = site.pos
                                                         /\ r.diag.message.kind = "requires"
                                                         /\ r.diag.message.target = target
    BY DEF AssumedLocksChecked
  <2> DEFINE site == prog.fns[caller.fn].sites[k]
             held == HeldAt(prog, caller.fn, caller.contract, site)
  <2> SUFFICES ASSUME site.op = "call", site.callee = callee.fn, site.pos # 0,
                      contractForFunction(prog, callee.fn, registry) = {callee.contract},
                      NEW target \in Range(Targets(callee.contract, "requires")),
                      NEW lock \in {resolveObjectInScope(prog, callee.fn, target)} \ {None},
                      ~ImplicitReceiver(callee.fn, target), ~HidesMember(callee.fn, target)
               PROVE  \/ AtCaller(site, lock) \in held
                      \/ \E r \in raised : Tells(r, site, target)
    BY DEF Tells, HeldAt
  <2>1. /\ lock = resolveObjectInScope(prog, site.callee, target) /\ lock # None
        /\ ~ImplicitReceiver(site.callee, target) /\ ~HidesMember(site.callee, target)
    OBVIOUS
  <2>2. site = prog.fns[caller.fn].sites[k] /\ held = HeldAt(prog, caller.fn, caller.contract, site)
    OBVIOUS
  <2> HIDE DEF site, held
  <2> QED
    BY <2>1, <2>2, CallChecked
<1> QED
  BY <1>1, AlwaysRunInv, PTL

-----------------------------------------------------------------------------
(***************************************************************************)
(* More targets cover what fewer do.                                       *)
(***************************************************************************)
LEMMA CoveredByMore ==
  ASSUME NEW p, NEW fn, NEW kind, NEW lock, NEW contract, NEW more, more # None,
         \A k \in DOMAIN Targets(contract, kind) :
           /\ k \in DOMAIN more.expectations[kind]
           /\ more.expectations[kind][k] = Targets(contract, kind)[k],
         lockCoveredByContract(p, fn, contract, kind, lock)
  PROVE  lockCoveredByContract(p, fn, more, kind, lock)
<1>1. contract # None /\ Targets(contract, kind) = contract.expectations[kind]
  BY DEF lockCoveredByContract, Targets
<1>2. PICK k \in DOMAIN contract.expectations[kind] :
        LET target == contract.expectations[kind][k] IN
          \/ requirementTargetCoversLock(p, fn, target, lock)
          \/ lastTargetSegment(target) = lock[3]
  BY DEF lockCoveredByContract
<1>3. k \in DOMAIN more.expectations[kind] /\ more.expectations[kind][k] = contract.expectations[kind][k]
  BY <1>1, <1>2
<1> QED
  BY <1>2, <1>3 DEF lockCoveredByContract

(***************************************************************************)
(* The advice: a lock that the contract does not cover.                    *)
(***************************************************************************)
Uses(p, fn, kind) ==
  {o \in DOMAIN p.fns[fn].evidence :
     /\ IF kind = "acquires" THEN p.fns[fn].evidence[o].locks ELSE ~p.fns[fn].evidence[o].locks
     /\ p.fns[fn].evidence[o].unlocks}

MissingOf(p, fn, contract, kind) ==
  {[kind |-> kind, lock |-> obj] :
     obj \in {o \in Uses(p, fn, kind) : ~lockCoveredByContract(p, fn, contract, kind, o)}}

LEMMA LikelyMissing ==
  ASSUME NEW p, NEW fn, NEW contract
  PROVE  firstLikelyMissingAnnotation(p, fn, contract) =
           IF MissingOf(p, fn, contract, "acquires") # {}
           THEN MissingOf(p, fn, contract, "acquires")
           ELSE MissingOf(p, fn, contract, "requires")
<1> DEFINE evidence == p.fns[fn].evidence
<1>1. /\ Uses(p, fn, "acquires") = {o \in DOMAIN evidence : evidence[o].locks /\ evidence[o].unlocks}
      /\ Uses(p, fn, "requires") = {o \in DOMAIN evidence : ~evidence[o].locks /\ evidence[o].unlocks}
  BY DEF Uses
<1> QED
  BY <1>1 DEF firstLikelyMissingAnnotation, MissingOf

(***************************************************************************)
(* The target of an advice ends with the name of the lock.                 *)
(***************************************************************************)
LEMMA AdvisedName ==
  ASSUME input \in Inputs, NEW fn \in DOMAIN prog.fns, NEW contract, NEW advice,
         advice.lock \in DOMAIN prog.fns[fn].evidence,
         ~lockCoveredByContract(prog, fn, contract, advice.kind, advice.lock)
  PROVE  LET target == AdvisedTarget(prog, fn, contract, advice) IN
           target \in Seq(STRING) /\ lastTargetSegment(target) = advice.lock[3]
<1> DEFINE lock == advice.lock
           params == prog.fns[fn].params
           target == AdvisedTarget(prog, fn, contract, advice)
           covering == IF contract = None
                       THEN {}
                       ELSE {k \in DOMAIN contract.expectations[advice.kind] :
                               requirementTargetCoversLock(prog, fn, contract.expectations[advice.kind][k], lock)}
<1>1. covering = {}
  BY DEF lockCoveredByContract
<1>2. target = <<lock[3]>> \/ (params # <<>> /\ target = <<params[1].name, lock[3]>>)
  <2> DEFINE embedded == /\ lock[1] = "field"
                         /\ \E k \in DOMAIN prog.types[lock[2]].fields :
                              LET f == prog.types[lock[2]].fields[k] IN f.name = lock[3] /\ f.anonymous
  <2>1. target = CASE covering # {} -> contract.expectations[advice.kind][Min(covering)]
                   [] covering = {} /\ embedded /\ params # <<>> /\ params[1].name # "" ->
                        <<params[1].name, lock[3]>>
                   [] OTHER -> <<lock[3]>>
    BY DEF AdvisedTarget, preferredLockDisplayName
  <2> HIDE DEF covering, embedded, target
  <2> QED
    BY <1>1, <2>1
<1>3. lock[3] \in STRING
  BY FunctionShape
<1>4. params # <<>> => params[1].name \in STRING
  <2>1. params \in Seq(Range(params)) /\ \A v \in Range(params) : v.name \in STRING
    BY FunctionShape
  <2> HIDE DEF params
  <2>2. params # <<>> => params[1] \in Range(params)
    BY <2>1
  <2> QED
    BY <2>1, <2>2
<1> DEFINE n == lock[3]
           m == params[1].name
<1>5. CASE target = <<n>>
  <2> HIDE DEF n, target
  <2>1. target # <<>> /\ Last(target) = n
    BY <1>5 DEF Last
  <2>2. target \in Seq(STRING)
    BY <1>3, <1>5 DEF n
  <2> QED
    BY <2>1, <2>2 DEF lastTargetSegment, n, target
<1>6. CASE params # <<>> /\ target = <<m, n>>
  <2>3. m \in STRING /\ n \in STRING /\ target = <<m, n>>
    BY <1>3, <1>4, <1>6
  <2> HIDE DEF n, m, target
  <2>1. target # <<>> /\ Last(target) = n
    BY <2>3 DEF Last
  <2>2. target \in Seq(STRING)
    BY <2>3
  <2> QED
    BY <2>1, <2>2 DEF lastTargetSegment, n, target
<1> QED
  BY <1>2, <1>5, <1>6

(***************************************************************************)
(* A target added at the end of others.                                    *)
(***************************************************************************)
LEMMA TargetsAppended ==
  ASSUME NEW S, NEW s \in Seq(S), NEW t \in S
  PROVE  /\ s \o <<t>> \in Seq(S) /\ s \o <<>> = s
         /\ \A k \in DOMAIN s : k \in DOMAIN (s \o <<t>>) /\ (s \o <<t>>)[k] = s[k]
         /\ \E k \in DOMAIN (s \o <<t>>) : (s \o <<t>>)[k] = t
<1> DEFINE u == s \o <<t>>
<1>2. u \in Seq(S) /\ Len(u) = Len(s) + 1 /\ Len(s) \in Nat /\ DOMAIN s = 1..Len(s) /\ DOMAIN u = 1..Len(s) + 1
  OBVIOUS
<1>3. \A k \in 1..Len(s) : u[k] = s[k]
  OBVIOUS
<1>4. u[Len(s) + 1] = t
  OBVIOUS
<1>5. s \o <<>> = s
  OBVIOUS
<1>6. Len(s) + 1 \in DOMAIN u
  BY <1>2
<1> HIDE DEF u
<1>7. /\ \A k \in DOMAIN s : k \in DOMAIN u /\ u[k] = s[k]
      /\ \E k \in DOMAIN u : u[k] = t
  <2>1. \A k \in 1..Len(s) : k \in 1..Len(s) + 1
    BY <1>2
  <2> QED
    BY <1>2, <1>3, <1>4, <1>6, <2>1
<1> QED
  BY <1>2, <1>5, <1>7 DEF u

(***************************************************************************)
(* The advice in a function of the source: a lock that needs an annotation *)
(* and has none, as long as there is one.                                  *)
(***************************************************************************)
LEMMA AdviceGiven ==
  ASSUME input \in Inputs, NEW fn \in DOMAIN prog.fns, NEW contract, ~prog.fns[fn].synthetic
  PROVE  /\ \A a \in Advice(fn, contract) :
              a.lock \in Unannotated(fn, contract) /\ a.kind = NeededKind(fn, a.lock)
         /\ Advice(fn, contract) = {} => Unannotated(fn, contract) = {}
<1> DEFINE Missing(kind) == MissingOf(prog, fn, contract, kind)
<1>1. firstLikelyMissingAnnotation(prog, fn, contract)
        = IF Missing("acquires") # {} THEN Missing("acquires") ELSE Missing("requires")
  BY LikelyMissing
<1>2. ASSUME NEW kind \in {"acquires", "requires"}, NEW a \in Missing(kind)
      PROVE  a # None /\ a.lock \in Unannotated(fn, contract) /\ a.kind = NeededKind(fn, a.lock)
  <2>1. PICK o \in Uses(prog, fn, kind) :
          a = [kind |-> kind, lock |-> o] /\ ~lockCoveredByContract(prog, fn, contract, kind, o)
    BY <1>2 DEF MissingOf
  <2>2. a.kind = kind /\ a.lock = o
    BY <2>1
  <2>3. NeededKind(fn, o) = kind
    BY <2>1 DEF Uses, NeededKind
  <2>4. o \in Unannotated(fn, contract)
    BY <2>1, <2>3 DEF Uses, Unannotated
  <2>5. a # None
    <3>1. o \in DOMAIN prog.fns[fn].evidence /\ kind \in AnnotationKinds
      BY <2>1 DEF Uses, AnnotationKinds
    <3>2. a \in [kind : AnnotationKinds, lock : DOMAIN prog.fns[fn].evidence]
      BY <2>1, <3>1
    <3> QED
      BY <3>2, FunctionShape
  <2> QED
    BY <2>2, <2>3, <2>4, <2>5
<1>3. ASSUME NEW o \in Unannotated(fn, contract)
      PROVE  Missing("acquires") # {} \/ Missing("requires") # {}
  <2>1. o \in Uses(prog, fn, NeededKind(fn, o))
    BY <1>3 DEF Unannotated, NeededKind, Uses
  <2>2. [kind |-> NeededKind(fn, o), lock |-> o] \in Missing(NeededKind(fn, o))
    BY <1>3, <2>1 DEF Unannotated, MissingOf
  <2> QED
    BY <2>2 DEF NeededKind
<1>4. detectLikelyMissingLockAnnotations(prog, fn, contract)
        = IF firstLikelyMissingAnnotation(prog, fn, contract) = {}
          THEN {None} ELSE firstLikelyMissingAnnotation(prog, fn, contract)
  BY DEF detectLikelyMissingLockAnnotations
<1> HIDE DEF Missing
<1>5. Advice(fn, contract) = IF Missing("acquires") # {} THEN Missing("acquires") ELSE Missing("requires")
  <2>1. \A kind \in {"acquires", "requires"} : None \notin Missing(kind)
    BY <1>2
  <2> QED
    BY <1>1, <1>4, <2>1 DEF Advice
<1>6. \A a \in Advice(fn, contract) : \E kind \in {"acquires", "requires"} : a \in Missing(kind)
  BY <1>5
<1>7. Advice(fn, contract) = {} => Unannotated(fn, contract) = {}
  BY <1>3, <1>5
<1> QED
  BY <1>2, <1>6, <1>7

(***************************************************************************)
(* A contract with the target of an advice added covers its lock, and it   *)
(* covers all that it covered before.                                      *)
(***************************************************************************)
LEMMA AdviceFollowed ==
  ASSUME input \in Inputs, NEW fn \in DOMAIN prog.fns, ~prog.fns[fn].synthetic,
         NEW contract, Typed(contract), NEW advice \in Advice(fn, contract)
  PROVE  /\ Typed(Followed(fn, contract, advice))
         /\ Unannotated(fn, Followed(fn, contract, advice)) \subseteq Unannotated(fn, contract) \ {advice.lock}
<1> DEFINE kind == advice.kind
           lock == advice.lock
           target == AdvisedTarget(prog, fn, contract, advice)
           followed == Followed(fn, contract, advice)
<1>1. lock \in Unannotated(fn, contract) /\ kind = NeededKind(fn, lock)
  BY AdviceGiven
<1>3. /\ kind \in {"acquires", "requires"}
      /\ lock \in DOMAIN prog.fns[fn].evidence
      /\ ~lockCoveredByContract(prog, fn, contract, kind, lock)
  BY <1>1 DEF Unannotated, NeededKind
<1>4. target \in Seq(STRING) /\ lastTargetSegment(target) = lock[3]
  BY <1>3, AdvisedName
<1>5. \A other \in AnnotationKinds : Targets(contract, other) \in Seq(Seq(STRING))
  BY TargetsOf
<1>6. followed.expectations =
        [other \in AnnotationKinds |-> Targets(contract, other) \o (IF other = kind THEN <<target>> ELSE <<>>)]
      /\ followed.pos = 0
      /\ followed = [pos |-> 0, expectations |-> followed.expectations]
  BY DEF Followed
<1> HIDE DEF followed, target
<1> DEFINE E == followed.expectations
           S == Seq(STRING)
<1>7. \A other \in AnnotationKinds :
        /\ E[other] \in Seq(S)
        /\ \A j \in DOMAIN Targets(contract, other) :
             j \in DOMAIN E[other] /\ E[other][j] = Targets(contract, other)[j]
        /\ other = kind => \E j \in DOMAIN E[other] : E[other][j] = target
  <2> SUFFICES ASSUME NEW other \in AnnotationKinds
               PROVE  /\ E[other] \in Seq(S)
                      /\ \A j \in DOMAIN Targets(contract, other) :
                           j \in DOMAIN E[other] /\ E[other][j] = Targets(contract, other)[j]
                      /\ other = kind => \E j \in DOMAIN E[other] : E[other][j] = target
    OBVIOUS
  <2> DEFINE s == Targets(contract, other)
  <2>1. s \in Seq(S) /\ target \in S
    BY <1>4, <1>5
  <2>2. E[other] = s \o (IF other = kind THEN <<target>> ELSE <<>>)
    BY <1>6
  <2> HIDE DEF E, S, s
  <2>3. CASE other = kind
    <3> DEFINE u == s \o <<target>>
    <3>1. E[other] = u
      BY <2>2, <2>3
    <3>2. /\ u \in Seq(S)
          /\ \A j \in DOMAIN s : j \in DOMAIN u /\ u[j] = s[j]
          /\ \E j \in DOMAIN u : u[j] = target
      BY <2>1, TargetsAppended
    <3> HIDE DEF u
    <3> QED
      BY <3>1, <3>2 DEF s
  <2>4. CASE other # kind
    <3>1. E[other] = s
      BY <2>1, <2>2, <2>4, TargetsAppended
    <3> QED
      BY <2>1, <2>4, <3>1 DEF s
  <2> QED
    BY <2>3, <2>4
<1>8. followed # None /\ Typed(followed)
  <2> DEFINE T == [AnnotationKinds -> Seq(S)]
  <2>1. E \in T
    <3>1. E = [other \in AnnotationKinds |-> E[other]]
      BY <1>6
    <3> HIDE DEF E, S
    <3> QED
      BY <1>7, <3>1
  <2>2. followed = [pos |-> 0, expectations |-> E]
    BY <1>6
  <2> HIDE DEF E, T
  <2>3. followed \in [pos : Nat, expectations : T]
    BY <2>1, <2>2
  <2>4. followed # None
    BY <2>3, NoneAssumption DEF T, S
  <2>5. followed.expectations \in [AnnotationKinds -> Seq(Seq(STRING))]
    BY <2>1 DEF T, S, E
  <2>6. Typed(followed)
    BY <2>5 DEF Typed
  <2> QED
    BY <2>4, <2>6
<1>9. lockCoveredByContract(prog, fn, followed, kind, lock)
  <2>1. kind \in AnnotationKinds
    BY <1>3 DEF AnnotationKinds
  <2>2. \E j \in DOMAIN followed.expectations[kind] : followed.expectations[kind][j] = target
    BY <1>7, <2>1
  <2> QED
    BY <1>4, <1>8, <2>2 DEF lockCoveredByContract
<1>10. \A other \in AnnotationKinds : \A o :
         lockCoveredByContract(prog, fn, contract, other, o)
         => lockCoveredByContract(prog, fn, followed, other, o)
  <2> SUFFICES ASSUME NEW other \in AnnotationKinds, NEW o, lockCoveredByContract(prog, fn, contract, other, o)
               PROVE  lockCoveredByContract(prog, fn, followed, other, o)
    OBVIOUS
  <2> QED
    BY <1>7, <1>8, CoveredByMore
<1>11. \A o : NeededKind(fn, o) \in AnnotationKinds
  BY DEF NeededKind, AnnotationKinds
<1>12. Unannotated(fn, followed) \subseteq Unannotated(fn, contract)
  BY <1>10, <1>11 DEF Unannotated
<1>13. lock \notin Unannotated(fn, followed)
  BY <1>1, <1>9 DEF Unannotated
<1> QED
  BY <1>8, <1>12, <1>13 DEF followed

(***************************************************************************)
(* The rounds of advice after the analysis e.                              *)
(***************************************************************************)
NextRound(fn, contracts) ==
  UNION {IF Advice(fn, c) = {} THEN {c} ELSE {Followed(fn, c, a) : a \in Advice(fn, c)} : c \in contracts}

Advises(g, e) == g = [n \in 0..Rounds(e) |-> IF n = 0 THEN {e.contract} ELSE NextRound(e.fn, g[n - 1])]

LEMMA AdvisesExist ==
  ASSUME NEW e, Rounds(e) \in Nat
  PROVE  \E g : Advises(g, e)
<1> DEFINE N == Rounds(e)
           start == {e.contract}
           Until(g, m) == \A n \in 0..m : g[n] = IF n = 0 THEN start ELSE NextRound(e.fn, g[n - 1])
           T == {m \in 0..N : \E g : Until(g, m)}
<1>1. N \in Nat
  OBVIOUS
<1> HIDE DEF N
<1>2. 0 \in T
  <2>1. Until([n \in 0..0 |-> start], 0)
    OBVIOUS
  <2> HIDE DEF Until
  <2> QED
    BY <1>1, <2>1
<1> HIDE DEF start
<1>3. \A m \in 1..N : m - 1 \in T => m \in T
  <2> SUFFICES ASSUME NEW m \in 1..N, m - 1 \in T
               PROVE  m \in 0..N /\ \E g : Until(g, m)
    OBVIOUS
  <2>1. PICK g : Until(g, m - 1)
    OBVIOUS
  <2> DEFINE h == [n \in 0..m |-> IF n = m THEN NextRound(e.fn, g[m - 1]) ELSE g[n]]
  <2>2. h[m] = NextRound(e.fn, h[m - 1])
    <3>1. m - 1 \in 0..m /\ m \in 0..m /\ m - 1 # m
      BY <1>1
    <3> QED
      BY <3>1
  <2>3. \A n \in 0..(m - 1) : h[n] = g[n] /\ (n # 0 => h[n - 1] = g[n - 1])
    BY <1>1
  <2>4. Until(h, m)
    <3> SUFFICES ASSUME NEW n \in 0..m
                 PROVE  h[n] = IF n = 0 THEN start ELSE NextRound(e.fn, h[n - 1])
      OBVIOUS
    <3> HIDE DEF h
    <3>1. CASE n = m
      BY <2>2, <3>1
    <3>2. CASE n # m
      <4>1. n \in 0..(m - 1)
        BY <1>1, <3>2
      <4>2. g[n] = IF n = 0 THEN start ELSE NextRound(e.fn, g[n - 1])
        BY <2>1, <4>1
      <4> QED
        BY <2>3, <4>1, <4>2
    <3> QED
      BY <3>1, <3>2
  <2>5. m \in 0..N
    BY <1>1
  <2> HIDE DEF h, Until
  <2> QED
    BY <2>4, <2>5
<1>4. PICK g : Until(g, N)
  <2>1. N \in 0..N
    BY <1>1
  <2>2. 0..N \subseteq T
    <3> HIDE DEF T
    <3> QED
      BY <1>1, <1>2, <1>3, IntervalInduction
  <2> QED
    BY <2>1, <2>2
<1>5. Advises([n \in 0..N |-> g[n]], e)
  <2>1. \A n \in 0..N : n # 0 => n - 1 \in 0..N
    BY <1>1
  <2> QED
    BY <1>4, <2>1 DEF Advises, start, N
<1> QED
  BY <1>5

LEMMA RoundOfOne ==
  ASSUME NEW fn, NEW contracts, NEW d \in NextRound(fn, contracts)
  PROVE  \E c \in contracts : d \in NextRound(fn, {c})
<1> DEFINE Of(c) == IF Advice(fn, c) = {} THEN {c} ELSE {Followed(fn, c, a) : a \in Advice(fn, c)}
<1>1. \A S : NextRound(fn, S) = UNION {Of(c) : c \in S}
  BY DEF NextRound
<1> HIDE DEF Of
<1>2. PICK c \in contracts : d \in Of(c)
  BY <1>1
<1>3. d \in NextRound(fn, {c})
  BY <1>1, <1>2
<1> QED
  BY <1>3

(***************************************************************************)
(* Every round that gives advice leaves fewer locks without an annotation, *)
(* so that after n rounds at most as many are left as rounds.              *)
(***************************************************************************)
Settling(e, c, n) ==
  /\ Typed(c)
  /\ Unannotated(e.fn, c) \subseteq Unannotated(e.fn, e.contract)
  /\ Unannotated(e.fn, c) = {} \/ Cardinality(Unannotated(e.fn, c)) + n <= Rounds(e)

LEMMA RoundSettles ==
  ASSUME input \in Inputs, NEW e, e.fn \in DOMAIN prog.fns, ~prog.fns[e.fn].synthetic,
         NEW n \in Nat, NEW c, Settling(e, c, n), NEW d \in NextRound(e.fn, {c})
  PROVE  Settling(e, d, n + 1)
<1> DEFINE fn == e.fn
           left == Unannotated(fn, c)
<1>1. IsFiniteSet(left) /\ Cardinality(left) \in Nat /\ Rounds(e) \in Nat
  <2>1. left \subseteq DOMAIN prog.fns[fn].evidence
    BY DEF Unannotated
  <2>2. IsFiniteSet(DOMAIN prog.fns[fn].evidence)
    BY FunctionShape
  <2> QED
    BY <2>1, <2>2, FS_Subset, FS_CardinalityType DEF Rounds
<1>2. CASE Advice(fn, c) = {}
  <2>1. d = c
    BY <1>2 DEF NextRound
  <2>2. left = {}
    BY <1>2, AdviceGiven
  <2> QED
    BY <2>1, <2>2 DEF Settling
<1>3. CASE Advice(fn, c) # {}
  <2>1. PICK a \in Advice(fn, c) : d = Followed(fn, c, a)
    BY <1>3 DEF NextRound
  <2>2. Typed(c)
    BY DEF Settling
  <2>3. Typed(d) /\ Unannotated(fn, d) \subseteq left \ {a.lock}
    BY <2>1, <2>2, AdviceFollowed
  <2>4. a.lock \in left
    BY <2>1, AdviceGiven
  <2>5. IsFiniteSet(left \ {a.lock}) /\ Cardinality(left \ {a.lock}) = Cardinality(left) - 1
    BY <1>1, <2>4, FS_RemoveElement
  <2>6. /\ Cardinality(Unannotated(fn, d)) <= Cardinality(left) - 1
        /\ Cardinality(Unannotated(fn, d)) \in Nat
    BY <2>3, <2>5, FS_Subset, FS_CardinalityType
  <2>7. Cardinality(left) + n <= Rounds(e)
    BY <2>4 DEF Settling
  <2>8. Cardinality(Unannotated(fn, d)) + (n + 1) <= Rounds(e)
    BY <1>1, <2>6, <2>7
  <2> QED
    BY <2>3, <2>8 DEF Settling
<1> QED
  BY <1>2, <1>3

LEMMA RoundsSettle ==
  ASSUME input \in Inputs, NEW e, e.fn \in DOMAIN prog.fns, ~prog.fns[e.fn].synthetic, Typed(e.contract)
  PROVE  /\ Rounds(e) \in Nat
         /\ \A n \in 0..Rounds(e) : \A c \in AfterRounds(e)[n] : Settling(e, c, n)
<1> DEFINE after == CHOOSE g : Advises(g, e)
           N == Rounds(e)
           T == {n \in 0..N : \A c \in after[n] : Settling(e, c, n)}
<1>1. IsFiniteSet(DOMAIN prog.fns[e.fn].evidence) /\ N \in Nat
  BY FunctionShape, FS_CardinalityType DEF Rounds
<1>2. Advises(after, e)
  BY <1>1, AdvisesExist
<1>3. AfterRounds(e) = after
  BY DEF AfterRounds, Advises, NextRound
<1> HIDE DEF after
<1>4. after[0] = {e.contract} /\ \A n \in 1..N : after[n] = NextRound(e.fn, after[n - 1])
  <2>1. after = [n \in 0..N |-> IF n = 0 THEN {e.contract} ELSE NextRound(e.fn, after[n - 1])]
    BY <1>2 DEF Advises
  <2> HIDE DEF N
  <2>2. 0 \in 0..N /\ \A n \in 1..N : n \in 0..N /\ n # 0
    BY <1>1
  <2> QED
    BY <2>1, <2>2
<1> HIDE DEF N
<1>5. 0 \in T
  <2>1. Unannotated(e.fn, e.contract) \subseteq DOMAIN prog.fns[e.fn].evidence
    BY DEF Unannotated
  <2>2. /\ Cardinality(Unannotated(e.fn, e.contract)) <= N
        /\ Cardinality(Unannotated(e.fn, e.contract)) \in Nat
    BY <1>1, <2>1, FS_Subset, FS_CardinalityType DEF N, Rounds
  <2>3. Settling(e, e.contract, 0)
    BY <2>2 DEF Settling, N
  <2> QED
    BY <1>1, <1>4, <2>3
<1>6. ASSUME NEW n \in 1..N, n - 1 \in T
      PROVE  n \in T
  <2>1. n - 1 \in Nat /\ (n - 1) + 1 = n /\ n \in 0..N
    BY <1>1
  <2>2. ASSUME NEW d \in after[n]
        PROVE  Settling(e, d, n)
    <3>1. PICK c \in after[n - 1] : d \in NextRound(e.fn, {c})
      <4>1. d \in NextRound(e.fn, after[n - 1])
        BY <1>4, <2>2
      <4> QED
        BY <4>1, RoundOfOne
    <3>2. Settling(e, c, n - 1)
      BY <1>6
    <3>3. Settling(e, d, (n - 1) + 1)
      BY <2>1, <3>1, <3>2, RoundSettles
    <3> QED
      BY <2>1, <3>3
  <2> QED
    BY <2>1, <2>2
<1>7. 0..N \subseteq T
  <2> HIDE DEF T
  <2> QED
    BY <1>1, <1>5, <1>6, IntervalInduction
<1> QED
  BY <1>1, <1>3, <1>7 DEF N

(***************************************************************************)
(* In every run, for any function with any contract and any use of locks,  *)
(* advice that is followed settles (annotation_heuristics.go): whichever   *)
(* lock the order of a map picks in each round, after as many rounds as    *)
(* the function uses locks every lock it unlocks has its annotation, and   *)
(* no round asks for one that was there from the start.                    *)
(***************************************************************************)
THEOREM RunAdviceSettles == Spec => []AdviceSettles
<1>1. RunInv => AdviceSettles
  <2> SUFFICES ASSUME RunInv, NEW e \in analysed, ~prog.fns[e.fn].synthetic
               PROVE  /\ \A c \in AfterRounds(e)[Rounds(e)] : Unannotated(e.fn, c) = {}
                      /\ \A n \in 0..Rounds(e) : \A c \in AfterRounds(e)[n] : \A a \in Advice(e.fn, c) :
                           a.lock \in Unannotated(e.fn, e.contract) /\ a.kind = NeededKind(e.fn, a.lock)
    BY DEF AdviceSettles
  <2>0. AnnotationInv /\ AnalysedInv /\ input \in Inputs
    BY DEF RunInv, AnnotationInv
  <2>1. PICK a \in outcomes[e.fn] : e.contract = a.contract /\ e.advice = a.advice
    BY <2>0 DEF AnalysedInv
  <2>2. e.fn \in DOMAIN prog.fns
    BY <2>0 DEF AnalysedInv
  <2>3. e.contract \in contractForFunction(prog, e.fn, registry)
    BY <2>0, <2>1, <2>2, OutcomeParts
  <2>4. Typed(e.contract)
    BY <2>0, <2>3, GivenContract
  <2>5. Rounds(e) \in Nat /\ \A n \in 0..Rounds(e) : \A c \in AfterRounds(e)[n] : Settling(e, c, n)
    BY <2>0, <2>2, <2>4, RoundsSettle
  <2>6. ASSUME NEW c \in AfterRounds(e)[Rounds(e)]
        PROVE  Unannotated(e.fn, c) = {}
    <3> DEFINE left == Unannotated(e.fn, c)
    <3>1. Settling(e, c, Rounds(e))
      BY <2>5, <2>6
    <3>2. IsFiniteSet(left) /\ Cardinality(left) \in Nat
      <4>1. left \subseteq DOMAIN prog.fns[e.fn].evidence
        BY DEF Unannotated
      <4>2. IsFiniteSet(DOMAIN prog.fns[e.fn].evidence)
        BY <2>0, <2>2, FunctionShape
      <4> QED
        BY <4>1, <4>2, FS_Subset, FS_CardinalityType
    <3>3. left = {} \/ Cardinality(left) = 0
      BY <2>5, <3>1, <3>2 DEF Settling
    <3> QED
      BY <3>2, <3>3, FS_EmptySet
  <2>7. ASSUME NEW n \in 0..Rounds(e), NEW c \in AfterRounds(e)[n], NEW b \in Advice(e.fn, c)
        PROVE  b.lock \in Unannotated(e.fn, e.contract) /\ b.kind = NeededKind(e.fn, b.lock)
    <3>1. b.lock \in Unannotated(e.fn, c) /\ b.kind = NeededKind(e.fn, b.lock)
      BY <2>0, <2>2, AdviceGiven
    <3>2. Settling(e, c, n)
      BY <2>5
    <3> QED
      BY <3>1, <3>2 DEF Settling
  <2> QED
    BY <2>6, <2>7
<1> QED
  BY <1>1, AlwaysRunInv, PTL

-----------------------------------------------------------------------------
(***************************************************************************)
(* The guards after each field of a type's declaration.                    *)
(***************************************************************************)
RegisterField(data, decl, n) ==
  registerDataInvariants(data, decl.fields[n].doc, {decl.fields[n].name}, decl.name, decl.fields[n].pos)

Registers(g, data, decl) ==
  g = [n \in 0..Len(decl.fields) |-> IF n = 0 THEN data ELSE RegisterField(g[n - 1], decl, n)]

LEMMA RegistersExist ==
  ASSUME NEW data, NEW decl, decl.fields \in Seq(Range(decl.fields))
  PROVE  \E g : Registers(g, data, decl)
<1> DEFINE N == Len(decl.fields)
           Until(g, m) == \A n \in 0..m : g[n] = IF n = 0 THEN data ELSE RegisterField(g[n - 1], decl, n)
           T == {m \in 0..N : \E g : Until(g, m)}
<1>1. N \in Nat
  OBVIOUS
<1>2. 0 \in T
  <2>1. Until([n \in 0..0 |-> data], 0)
    OBVIOUS
  <2> HIDE DEF Until
  <2> QED
    BY <1>1, <2>1
<1>3. \A m \in 1..N : m - 1 \in T => m \in T
  <2> SUFFICES ASSUME NEW m \in 1..N, m - 1 \in T
               PROVE  m \in 0..N /\ \E g : Until(g, m)
    OBVIOUS
  <2>1. PICK g : Until(g, m - 1)
    OBVIOUS
  <2> DEFINE h == [n \in 0..m |-> IF n = m THEN RegisterField(g[m - 1], decl, m) ELSE g[n]]
  <2>2. h[m] = RegisterField(h[m - 1], decl, m)
    <3>1. m - 1 \in 0..m /\ m \in 0..m /\ m - 1 # m
      BY <1>1
    <3> QED
      BY <3>1
  <2>3. \A n \in 0..(m - 1) : h[n] = g[n] /\ (n # 0 => h[n - 1] = g[n - 1])
    BY <1>1
  <2>4. Until(h, m)
    <3> SUFFICES ASSUME NEW n \in 0..m
                 PROVE  h[n] = IF n = 0 THEN data ELSE RegisterField(h[n - 1], decl, n)
      OBVIOUS
    <3> HIDE DEF h
    <3>1. CASE n = m
      BY <2>2, <3>1
    <3>2. CASE n # m
      <4>1. n \in 0..(m - 1)
        BY <1>1, <3>2
      <4>2. g[n] = IF n = 0 THEN data ELSE RegisterField(g[n - 1], decl, n)
        BY <2>1, <4>1
      <4> QED
        BY <2>3, <4>1, <4>2
    <3> QED
      BY <3>1, <3>2
  <2>5. m \in 0..N
    BY <1>1
  <2> HIDE DEF h, Until
  <2> QED
    BY <2>4, <2>5
<1>4. PICK g : Until(g, N)
  <2>1. N \in 0..N
    BY <1>1
  <2>2. 0..N \subseteq T
    <3> HIDE DEF T
    <3> QED
      BY <1>1, <1>2, <1>3, IntervalInduction
  <2> QED
    BY <2>1, <2>2
<1>5. Registers([n \in 0..N |-> g[n]], data, decl)
  <2>1. \A n \in 0..N : n # 0 => n - 1 \in 0..N
    BY <1>1
  <2> QED
    BY <1>4, <2>1 DEF Registers
<1> QED
  BY <1>5

(***************************************************************************)
(* A registration changes the guards of the names it is for only.          *)
(***************************************************************************)
SameAt(new, old, key) ==
  /\ key \in DOMAIN new <=> key \in DOMAIN old
  /\ key \in DOMAIN old => new[key] = old[key]

HasGuard(data, key, doc, pos) ==
  /\ key \in DOMAIN data
  /\ data[key] = [mutex |-> Last(ParseAnnotation(doc, "guarded_by")), pos |-> pos]

LEMMA GuardRegistered ==
  ASSUME NEW data, NEW doc, NEW names, NEW prefix, NEW pos
  PROVE  LET new == registerDataInvariants(data, doc, names, prefix, pos) IN
           /\ \A owner, name : owner # prefix \/ name \notin names => SameAt(new, data, <<owner, name>>)
           /\ ParseAnnotation(doc, "guarded_by") # <<>> =>
                \A name \in names : HasGuard(new, <<prefix, name>>, doc, pos)
<1> DEFINE mutexes == ParseAnnotation(doc, "guarded_by")
           keys == {<<prefix, name>> : name \in names}
           value == [mutex |-> Last(mutexes), pos |-> pos]
           new == registerDataInvariants(data, doc, names, prefix, pos)
<1>1. new = IF mutexes = <<>> THEN data ELSE Assign(data, keys, value)
  BY DEF registerDataInvariants
<1>2. \A owner, name : owner # prefix \/ name \notin names => <<owner, name>> \notin keys
  OBVIOUS
<1>3. \A name \in names : <<prefix, name>> \in keys
  OBVIOUS
<1> HIDE DEF mutexes, keys, value, new
<1>4. CASE mutexes = <<>>
  BY <1>1, <1>4 DEF SameAt, mutexes, new
<1>5. CASE mutexes # <<>>
  <2>1. new = [k \in DOMAIN data \cup keys |-> IF k \in keys THEN value ELSE data[k]]
    BY <1>1, <1>5 DEF Assign
  <2>2. \A k : k \notin keys => SameAt(new, data, k)
    BY <2>1 DEF SameAt
  <2>3. \A k \in keys : k \in DOMAIN new /\ new[k] = value
    BY <2>1
  <2> QED
    BY <1>2, <1>3, <2>2, <2>3 DEF HasGuard, mutexes, value, new
<1> QED
  BY <1>4, <1>5

(***************************************************************************)
(* The declaration of a type registers the guards of its fields.           *)
(***************************************************************************)
LEMMA FieldsRegistered ==
  ASSUME NEW data, NEW decl, decl.fields \in Seq(Range(decl.fields))
  PROVE  LET new == handleTypeSpecs(data, decl) IN
           /\ \A owner, name : owner # decl.name => SameAt(new, data, <<owner, name>>)
           /\ (\A j, k \in DOMAIN decl.fields : decl.fields[j].name = decl.fields[k].name => j = k) =>
                \A j \in DOMAIN decl.fields :
                  LET f == decl.fields[j] IN
                    ParseAnnotation(f.doc, "guarded_by") # <<>>
                    => HasGuard(new, <<decl.name, f.name>>, f.doc, f.pos)
<1> DEFINE N == Len(decl.fields)
           g == CHOOSE h : Registers(h, data, decl)
           new == handleTypeSpecs(data, decl)
<1>1. Registers(g, data, decl)
  BY RegistersExist
<1>2. new = g[N]
  BY DEF handleTypeSpecs, Registers, RegisterField
<1>3. N \in Nat /\ DOMAIN decl.fields = 1..N
  OBVIOUS
<1> HIDE DEF g, new
<1>4. g[0] = data /\ \A n \in 1..N : g[n] = RegisterField(g[n - 1], decl, n)
  BY <1>1, <1>3 DEF Registers
<1>5. ASSUME NEW owner, NEW name, owner # decl.name
      PROVE  SameAt(new, data, <<owner, name>>)
  <2> DEFINE key == <<owner, name>>
             T == {n \in 0..N : SameAt(g[n], data, key)}
  <2>1. 0 \in T
    BY <1>3, <1>4 DEF SameAt
  <2>2. \A n \in 1..N : n - 1 \in T => n \in T
    <3> SUFFICES ASSUME NEW n \in 1..N, n - 1 \in T
                 PROVE  n \in T
      OBVIOUS
    <3> DEFINE d == decl.fields[n]
               new_n == registerDataInvariants(g[n - 1], d.doc, {d.name}, decl.name, d.pos)
    <3>1. SameAt(g[n], g[n - 1], key)
      <4>1. g[n] = new_n
        BY <1>4 DEF RegisterField
      <4>2. \A o, m : o # decl.name \/ m \notin {d.name} => SameAt(new_n, g[n - 1], <<o, m>>)
        <5> HIDE DEF d
        <5> QED
          BY GuardRegistered
      <4> HIDE DEF new_n
      <4> QED
        BY <1>5, <4>1, <4>2
    <3> QED
      BY <1>3, <3>1 DEF SameAt
  <2> HIDE DEF T
  <2>3. 0..N \subseteq T
    BY <1>3, <2>1, <2>2, IntervalInduction
  <2> QED
    BY <1>2, <1>3, <2>3 DEF T
<1>6. ASSUME \A j, k \in DOMAIN decl.fields : decl.fields[j].name = decl.fields[k].name => j = k,
             NEW j \in DOMAIN decl.fields, ParseAnnotation(decl.fields[j].doc, "guarded_by") # <<>>
      PROVE  HasGuard(new, <<decl.name, decl.fields[j].name>>, decl.fields[j].doc, decl.fields[j].pos)
  <2> DEFINE f == decl.fields[j]
             key == <<decl.name, f.name>>
             T == {n \in 0..N : n >= j => HasGuard(g[n], key, f.doc, f.pos)}
  <2>1. 0 \in T
    BY <1>3
  <2>2. \A n \in 1..N : n - 1 \in T => n \in T
    <3> SUFFICES ASSUME NEW n \in 1..N, n - 1 \in T, n >= j
                 PROVE  HasGuard(g[n], key, f.doc, f.pos)
      BY <1>3
    <3>1. CASE n = j
      <4>1. g[n] = registerDataInvariants(g[n - 1], f.doc, {f.name}, decl.name, f.pos)
        BY <1>4, <3>1 DEF RegisterField
      <4> QED
        BY <1>6, <4>1, GuardRegistered
    <3>2. CASE n # j
      <4>1. n - 1 >= j /\ HasGuard(g[n - 1], key, f.doc, f.pos)
        BY <1>3, <3>2
      <4>2. decl.fields[n].name # f.name
        BY <1>3, <1>6, <3>2
      <4> DEFINE d == decl.fields[n]
                 new_n == registerDataInvariants(g[n - 1], d.doc, {d.name}, decl.name, d.pos)
      <4>3. SameAt(g[n], g[n - 1], key)
        <5>1. g[n] = new_n
          BY <1>4 DEF RegisterField
        <5>2. \A o, m : o # decl.name \/ m \notin {d.name} => SameAt(new_n, g[n - 1], <<o, m>>)
          <6> HIDE DEF d
          <6> QED
            BY GuardRegistered
        <5>3. f.name \notin {d.name}
          BY <4>2
        <5> HIDE DEF new_n, f, d
        <5> QED
          BY <5>1, <5>2, <5>3
      <4> QED
        BY <4>1, <4>3 DEF SameAt, HasGuard
    <3> QED
      BY <3>1, <3>2
  <2> HIDE DEF T
  <2>3. 0..N \subseteq T
    BY <1>3, <2>1, <2>2, IntervalInduction
  <2> QED
    BY <1>2, <1>3, <2>3 DEF T
<1> QED
  BY <1>5, <1>6 DEF new

(***************************************************************************)
(* What a declaration does to the guards.                                  *)
(***************************************************************************)
Shaped(reg) == reg = [functions |-> reg.functions, byPos |-> reg.byPos, data |-> reg.data]

OfKind(d) == d.kind \in {"func", "var", "type"}

DataAfter(data, d) ==
  CASE d.kind = "func" -> data
    [] d.kind = "var"  -> registerDataInvariants(data, d.doc, d.names, "", d.pos)
    [] d.kind = "type" -> handleTypeSpecs(data, d)

LEMMA VisitData ==
  ASSUME NEW p, NEW d, OfKind(d), NEW reg, Shaped(reg)
  PROVE  Shaped(VisitDecl(reg, p, d)) /\ VisitDecl(reg, p, d).data = DataAfter(reg.data, d)
<1> DEFINE new == VisitDecl(reg, p, d)
<1>1. CASE d.kind = "func"
  <2>1. PICK fs, ps : new = [reg EXCEPT !.functions = fs, !.byPos = ps]
    BY <1>1 DEF VisitDecl, VisitFunc
  <2> HIDE DEF new
  <2>2. new = [functions |-> fs, byPos |-> ps, data |-> reg.data]
    BY <2>1 DEF Shaped
  <2> QED
    BY <1>1, <2>2 DEF new, Shaped, DataAfter
<1>2. CASE d.kind # "func"
  <2> DEFINE x == DataAfter(reg.data, d)
  <2>1. new = [reg EXCEPT !.data = x]
    <3>1. CASE d.kind = "var"
      BY <3>1 DEF VisitDecl, DataAfter
    <3>2. CASE d.kind = "type"
      BY <3>2 DEF VisitDecl, DataAfter
    <3> QED
      BY <1>2, <3>1, <3>2 DEF OfKind
  <2>2. new.data = x /\ Shaped(new)
    <3> HIDE DEF new, x
    <3> QED
      BY <2>1 DEF Shaped
  <2> HIDE DEF new
  <2> QED
    BY <1>2, <2>2 DEF new
<1> QED
  BY <1>1, <1>2

(***************************************************************************)
(* The guard of a field is in the registry if no other type has the name   *)
(* of its type, however often the type is declared and whatever comes      *)
(* before and after.                                                       *)
(***************************************************************************)
Listing(fields) ==
  /\ fields \in Seq(Range(fields))
  /\ \A j, k \in DOMAIN fields : fields[j].name = fields[k].name => j = k

AreDecls(D) ==
  \A e \in D : e.kind \in {"func", "var", "type"} /\ (e.kind = "type" => Listing(e.fields))

OnlyType(d, D) ==
  /\ d.kind = "type" /\ d.name # ""
  /\ \A e \in D : e.kind = "type" /\ e.name = d.name => e = d

LEMMA VisitGuards ==
  ASSUME NEW p, NEW D, AreDecls(D), NEW d, OnlyType(d, D),
         NEW j \in DOMAIN d.fields, ParseAnnotation(d.fields[j].doc, "guarded_by") # <<>>,
         NEW e \in D, NEW reg, Shaped(reg)
  PROVE  LET new == VisitDecl(reg, p, e)
             Guarded(data) == HasGuard(data, <<d.name, d.fields[j].name>>, d.fields[j].doc, d.fields[j].pos)
         IN  Shaped(new) /\ (e = d \/ Guarded(reg.data) => Guarded(new.data))
<1> DEFINE f == d.fields[j]
           key == <<d.name, f.name>>
           new == VisitDecl(reg, p, e)
           Guarded(data) == HasGuard(data, key, f.doc, f.pos)
<1>1. e.kind \in {"func", "var", "type"} /\ (e.kind = "type" => Listing(e.fields))
  BY DEF AreDecls
<1>2. /\ Shaped(new)
      /\ e.kind = "func" => new.data = reg.data
      /\ e.kind = "var" => new.data = registerDataInvariants(reg.data, e.doc, e.names, "", e.pos)
      /\ e.kind = "type" => new.data = handleTypeSpecs(reg.data, e)
  <2>1. OfKind(e)
    BY <1>1 DEF OfKind
  <2>2. Shaped(new) /\ new.data = DataAfter(reg.data, e)
    BY <2>1, VisitData
  <2> HIDE DEF new
  <2> QED
    BY <2>2 DEF DataAfter
<1> HIDE DEF new, f, key
<1>3. e = d \/ SameAt(new.data, reg.data, key)
  <2>1. CASE e.kind = "func"
    BY <1>2, <2>1 DEF SameAt
  <2>2. CASE e.kind = "var"
    <3>1. \A owner, name : owner # "" \/ name \notin e.names =>
            SameAt(registerDataInvariants(reg.data, e.doc, e.names, "", e.pos), reg.data, <<owner, name>>)
      BY GuardRegistered
    <3>2. d.name # ""
      BY DEF OnlyType
    <3> QED
      BY <1>2, <2>2, <3>1, <3>2 DEF key
  <2>3. CASE e.kind = "type" /\ e # d
    <3>1. d.name # e.name
      BY <2>3 DEF OnlyType
    <3>2. e.fields \in Seq(Range(e.fields))
      BY <1>1, <2>3 DEF Listing
    <3>3. \A owner, name : owner # e.name => SameAt(handleTypeSpecs(reg.data, e), reg.data, <<owner, name>>)
      BY <3>2, FieldsRegistered
    <3> QED
      BY <1>2, <2>3, <3>1, <3>3 DEF key
  <2> QED
    BY <1>1, <2>1, <2>2, <2>3
<1>4. e = d => Guarded(new.data)
  <2> SUFFICES ASSUME e = d
               PROVE  Guarded(new.data)
    OBVIOUS
  <2>1. d.kind = "type" /\ Listing(d.fields)
    BY <1>1 DEF OnlyType
  <2>2. HasGuard(handleTypeSpecs(reg.data, d), <<d.name, d.fields[j].name>>, d.fields[j].doc, d.fields[j].pos)
    BY <2>1, FieldsRegistered DEF Listing
  <2> QED
    BY <1>2, <2>1, <2>2 DEF key, f
<1>5. e = d \/ Guarded(reg.data) => Guarded(new.data)
  BY <1>3, <1>4 DEF SameAt, HasGuard
<1> QED
  BY <1>2, <1>5 DEF new, f, key

LEMMA PopulatedGuards ==
  ASSUME NEW p, NEW D, NEW decls \in Seq(D), AreDecls(D), NEW d \in Range(decls), OnlyType(d, D),
         NEW j \in DOMAIN d.fields, ParseAnnotation(d.fields[j].doc, "guarded_by") # <<>>
  PROVE  HasGuard(PopulateRegistryFromFiles(p, decls).data, <<d.name, d.fields[j].name>>,
                  d.fields[j].doc, d.fields[j].pos)
<1> DEFINE N == Len(decls)
           f == d.fields[j]
           key == <<d.name, f.name>>
           Guarded(data) == HasGuard(data, key, f.doc, f.pos)
           Until(n) == \E m \in 1..n : decls[m] = d
<1>1. N \in Nat /\ DOMAIN decls = 1..N /\ \A n \in 1..N : decls[n] \in D
  OBVIOUS
<1>2. PICK g : /\ g[0] = NewContractRegistry
               /\ \A n \in 1..N : g[n] = VisitDecl(g[n - 1], p, decls[n])
               /\ PopulateRegistryFromFiles(p, decls) = g[N]
  BY PopulatedStepwise
<1> DEFINE T == {n \in 0..N : Shaped(g[n]) /\ (Until(n) => Guarded(g[n].data))}
<1>3. 0 \in T
  <2>1. ~Until(0) /\ 0 \in 0..N
    BY <1>1
  <2>2. Shaped(g[0])
    BY <1>2 DEF NewContractRegistry, Shaped
  <2> HIDE DEF Until, Guarded
  <2> QED
    BY <2>1, <2>2
<1>4. ASSUME NEW n \in 1..N, Shaped(g[n - 1]), Until(n - 1) => Guarded(g[n - 1].data)
      PROVE  Shaped(g[n]) /\ (Until(n) => Guarded(g[n].data))
  <2> DEFINE e == decls[n]
             old == g[n - 1]
  <2>1. Until(n) => e = d \/ Until(n - 1)
    BY <1>1
  <2>2. e \in D /\ Shaped(old) /\ g[n] = VisitDecl(old, p, e) /\ (Until(n - 1) => Guarded(old.data))
    BY <1>1, <1>2, <1>4
  <2> HIDE DEF Until, e, old
  <2> DEFINE new == VisitDecl(old, p, e)
  <2>3. Shaped(new) /\ (e = d \/ Guarded(old.data) => Guarded(new.data))
    BY <2>2, VisitGuards
  <2> HIDE DEF new, Guarded
  <2> QED
    BY <2>1, <2>2, <2>3 DEF new
<1>5. \A n \in 1..N : n - 1 \in T => n \in T
  <2> SUFFICES ASSUME NEW n \in 1..N, n - 1 \in T
               PROVE  n \in T
    OBVIOUS
  <2>1. Shaped(g[n - 1]) /\ (Until(n - 1) => Guarded(g[n - 1].data)) /\ n \in 0..N
    <3> HIDE DEF Until, Guarded
    <3> QED
      BY <1>1
  <2> HIDE DEF Until, Guarded
  <2> QED
    BY <1>4, <2>1
<1>6. N \in T
  <2> HIDE DEF T
  <2>1. 0..N \subseteq T
    BY <1>1, <1>3, <1>5, IntervalInduction
  <2> QED
    BY <1>1, <2>1
<1>7. Until(N)
  BY <1>1 DEF Range
<1> HIDE DEF Until
<1> QED
  BY <1>2, <1>6, <1>7

(***************************************************************************)
(* The last target of the last annotation of a doc is the last one of its  *)
(* kind.                                                                   *)
(***************************************************************************)
LEMMA LastParsed ==
  ASSUME NEW doc, IsDoc(doc), doc # <<>>, Last(doc).params # <<>>
  PROVE  LET targets == ParseAnnotation(doc, Last(doc).name) IN
           /\ targets \in Seq(Seq(STRING)) /\ targets # <<>>
           /\ Last(targets) = Last(Last(doc).params)
           /\ Last(targets) \in Seq(STRING)
<1> DEFINE S == Seq(STRING)
           N == Len(doc)
           kind == Last(doc).name
           seqs == [k \in DOMAIN doc |-> IF doc[k].name = kind THEN doc[k].params ELSE <<>>]
           targets == ParseAnnotation(doc, kind)
           params == Last(doc).params
<1>1. DOMAIN doc = 1..N /\ N \in Nat /\ N # 0 /\ \A k \in DOMAIN doc : doc[k] \in Range(doc)
  BY DEF Range, IsDoc
<1>2. \A k \in DOMAIN doc : doc[k].params \in Seq(S)
  BY <1>1 DEF IsDoc
<1> HIDE DEF S
<1>3. seqs \in Seq(Seq(S)) /\ Len(seqs) = N
  <2>1. \A k \in DOMAIN doc : seqs[k] \in Seq(S)
    BY <1>2
  <2> QED
    BY <1>1, <2>1
<1>4. seqs[N] = params /\ params \in Seq(S)
  BY <1>1, <1>2 DEF Last
<1>5. targets = FlattenSeq(seqs)
  BY DEF ParseAnnotation
<1> HIDE DEF seqs, targets, params
<1>6. PICK h : Flattens(h, seqs, S) /\ targets = h[N]
  BY <1>3, <1>5, FlattenSeqIteration
<1>7. targets = h[N - 1] \o params /\ h[N - 1] \in Seq(S)
  <2>1. N \in 1..N /\ N - 1 \in 0..N
    BY <1>1
  <2> QED
    BY <1>3, <1>4, <1>6, <2>1 DEF Flattens
<1>8. params # <<>>
  BY DEF params
<1>9. targets \in Seq(S) /\ targets # <<>> /\ Last(targets) = Last(params) /\ Last(params) \in S
  BY <1>4, <1>7, <1>8 DEF Last
<1> QED
  BY <1>9 DEF S, targets, params

(***************************************************************************)
(* What the shape of the program says of its types.                        *)
(***************************************************************************)
LEMMA DeclarationShape ==
  ASSUME input \in Inputs
  PROVE  /\ AreDecls(Declarations)
         /\ \A d \in Declarations : d.kind = "type" =>
              /\ d.fields \in Seq(Range(d.fields))
              /\ \A f \in Range(d.fields) : f.pos \in Nat /\ IsDoc(f.doc)
         /\ \A t \in DOMAIN prog.types : prog.types[t].name # ""
<1>1. \A d \in Declarations : d.kind \in {"func", "var", "type"}
  BY DeclarationsAssumption DEF Declarations, prog
<1>2. \A d \in {x \in Declarations : x.kind = "type"} :
        /\ d.fields \in Seq(Range(d.fields))
        /\ \A j, k \in DOMAIN d.fields : d.fields[j].name = d.fields[k].name => j = k
        /\ \A f \in Range(d.fields) : f.pos \in Nat /\ IsDoc(f.doc)
  BY DeclarationsAssumption DEF Declarations, prog
<1>3. \A t \in DOMAIN prog.types : prog.types[t].name # ""
  BY FunctionsAssumption DEF prog
<1> QED
  BY <1>1, <1>2, <1>3 DEF AreDecls, Listing

(***************************************************************************)
(* The guard of a field that is accessed is found in the registry.         *)
(***************************************************************************)
LEMMA GuardLookup ==
  ASSUME AnnotationInv, stage # "refused", NEW fn \in DOMAIN prog.fns,
         NEW site \in Range(prog.fns[fn].sites), OwnerKnown(site), NEW mutex \in Guards(site)
  PROVE  LET invariant == dataInvariantForAddress(prog, registry, site) IN
           /\ invariant # None /\ invariant.mutex = mutex
           /\ mutex \in Seq(STRING)
<1> DEFINE decls == Files(input.loaded)
<1>0. input \in Inputs /\ registry = PopulateRegistryFromFiles(prog, decls)
  BY DEF AnnotationInv
<1>1. decls \in Seq(Declarations) /\ Range(decls) = Declarations
  BY <1>0, FilesLoaded
<1> HIDE DEF decls
<1>2. PICK f \in FieldDecls(site) :
        /\ f.doc # <<>> /\ Last(f.doc).name = "guarded_by" /\ Last(f.doc).params # <<>>
        /\ mutex = Last(Last(f.doc).params)
  BY DEF Guards
<1>3. PICK d \in Owners(site) : f \in Range(d.fields) /\ f.name = site.object[3]
  BY <1>2 DEF FieldDecls
<1>4. d \in Declarations /\ d.kind = "type" /\ d.name = prog.types[site.owner.name].name
  BY <1>3 DEF Owners
<1>5. PICK j \in DOMAIN d.fields : d.fields[j] = f
  BY <1>3 DEF Range
<1>6. /\ site.op = "access" /\ site.isField /\ site.owner # None
      /\ site.owner.name \in DOMAIN prog.types /\ site.object # None
  BY <1>0, FunctionShape DEF OwnerKnown
<1>7. f.pos \in Nat /\ IsDoc(f.doc) /\ d.name # ""
  BY <1>0, <1>3, <1>4, <1>6, DeclarationShape
<1>8. OnlyType(d, Declarations)
  BY <1>3, <1>4, <1>7 DEF OnlyType, OwnerKnown, Owners
<1>9. /\ ParseAnnotation(f.doc, "guarded_by") # <<>>
      /\ Last(ParseAnnotation(f.doc, "guarded_by")) = mutex /\ mutex \in Seq(STRING)
  BY <1>2, <1>7, LastParsed
<1>10. HasGuard(registry.data, <<d.name, f.name>>, f.doc, f.pos)
  <2>1. AreDecls(Declarations)
    BY <1>0, DeclarationShape
  <2>2. ParseAnnotation(d.fields[j].doc, "guarded_by") # <<>>
    BY <1>5, <1>9
  <2>3. d \in Range(decls)
    BY <1>1, <1>4
  <2>4. HasGuard(PopulateRegistryFromFiles(prog, decls).data, <<d.name, d.fields[j].name>>,
                 d.fields[j].doc, d.fields[j].pos)
    BY <1>1, <1>8, <2>1, <2>2, <2>3, PopulatedGuards
  <2> QED
    BY <1>0, <1>5, <2>4
<1> DEFINE entry == [mutex |-> mutex, pos |-> f.pos]
           At(key) == IF key \in DOMAIN registry.data THEN registry.data[key] ELSE None
           attempts == <<At(<<d.name, site.object[3]>>), At(<<"", site.object[3]>>)>>
<1>11. At(<<d.name, site.object[3]>>) = entry
  BY <1>3, <1>9, <1>10 DEF HasGuard
<1>12. entry # None
  <2> DEFINE S == Seq(STRING)
  <2>1. mutex \in S
    BY <1>9
  <2> HIDE DEF S
  <2>2. entry \in [mutex : S, pos : Nat]
    BY <1>7, <2>1
  <2> HIDE DEF entry
  <2> QED
    BY <2>2, NoneAssumption DEF S
<1>13. dataInvariantForAddress(prog, registry, site) = FirstFound(attempts)
  BY <1>4, <1>6, <1>7 DEF dataInvariantForAddress, ownerTypeNameForAddress
<1>14. FirstFound(attempts) = entry
  <2>1. DOMAIN attempts = 1..2 /\ attempts[1] = entry
    BY <1>11
  <2> HIDE DEF attempts, entry
  <2>2. FirstFound(attempts) = attempts[1]
    BY <1>12, <2>1, FirstFoundIs
  <2> QED
    BY <2>1, <2>2
<1>15. entry.mutex = mutex
  OBVIOUS
<1> HIDE DEF entry, attempts
<1> QED
  BY <1>9, <1>12, <1>13, <1>14, <1>15

(***************************************************************************)
(* What the name of a guard means, at the access of a field.               *)
(***************************************************************************)
LEMMA GuardResolved ==
  ASSUME NEW fn, NEW site, site.isField, NEW mutex \in Seq(STRING)
  PROVE  resolveGuardLockObject(prog, fn, site, mutex) = Guard(fn, site, mutex)
<1> DEFINE ofStruct == resolveNestedField(prog, site.owner, mutex)
           inScope == resolveObjectInScope(prog, fn, mutex)
<1>1. Guard(fn, site, mutex) = IF ofStruct # None THEN ofStruct ELSE inScope
  BY DEF Guard
<1>2. CASE mutex = <<>>
  <2>1. ofStruct = None
    BY <1>2, NestedFieldFound
  <2>2. inScope = None
    BY <1>2 DEF resolveObjectInScope
  <2> HIDE DEF ofStruct, inScope
  <2>3. resolveGuardLockObject(prog, fn, site, mutex) = None
    BY <1>2 DEF resolveGuardLockObject
  <2> QED
    BY <1>1, <2>1, <2>2, <2>3
<1>3. CASE mutex # <<>>
  <2> DEFINE attempts == <<ofStruct, inScope>>
  <2>1. resolveGuardLockObject(prog, fn, site, mutex) = FirstFound(attempts)
    BY <1>3 DEF resolveGuardLockObject
  <2> HIDE DEF ofStruct, inScope
  <2>2. DOMAIN attempts = 1..2 /\ attempts[1] = ofStruct /\ attempts[2] = inScope
    OBVIOUS
  <2> HIDE DEF attempts
  <2>3. CASE ofStruct # None
    <3>1. FirstFound(attempts) = attempts[1]
      BY <2>2, <2>3, FirstFoundIs
    <3> QED
      BY <1>1, <2>1, <2>2, <2>3, <3>1
  <2>4. CASE ofStruct = None /\ inScope # None
    <3>1. FirstFound(attempts) = attempts[2]
      BY <2>2, <2>4, FirstFoundIs
    <3> QED
      BY <1>1, <2>1, <2>2, <2>4, <3>1
  <2>5. CASE ofStruct = None /\ inScope = None
    <3>1. FirstFound(attempts) = None
      BY <2>2, <2>5, FirstFoundNone
    <3> QED
      BY <1>1, <2>1, <2>5, <3>1
  <2> QED
    BY <2>3, <2>4, <2>5
<1> QED
  BY <1>2, <1>3

(***************************************************************************)
(* The check of an access finds it, if and only if it knows a mutex for it *)
(* that is not held.                                                       *)
(***************************************************************************)
LEMMA AccessChecked ==
  ASSUME NEW p, NEW fn, NEW site, NEW held, NEW reg
  PROVE  LET invariant == dataInvariantForAddress(p, reg, site)
             lock == resolveGuardLockObject(p, fn, site, invariant.mutex)
             checks == checkGuardedByAccess(p, fn, site, held, reg)
         IN  /\ invariant # None /\ lock # None /\ lock \notin held =>
                  \E r \in Range(checks) : IsGuardFinding(r) /\ r.diag.pos = site.pos
             /\ \A r \in Range(checks) : IsGuardFinding(r) =>
                  r.diag.pos = site.pos /\ invariant # None /\ lock # None /\ lock \notin held
<1> DEFINE invariant == dataInvariantForAddress(p, reg, site)
           lock == resolveGuardLockObject(p, fn, site, invariant.mutex)
           checks == checkGuardedByAccess(p, fn, site, held, reg)
           advisory == reportUnresolvableAnnotation("guarded_by", invariant.mutex, invariant.pos)
           finding == Finding(site.pos, "access needs lock", "guarded_by", <<site.object[3]>>, invariant.mutex)
<1>1. checks = CASE invariant = None -> <<>>
                 [] invariant # None /\ lock = None -> advisory
                 [] invariant # None /\ lock # None /\ lock \notin held -> <<finding>>
                 [] OTHER -> <<>>
  BY DEF checkGuardedByAccess
<1>2. IsGuardFinding(finding) /\ finding.diag.pos = site.pos
  BY DEF Finding, IsGuardFinding
<1>3. \A r \in Range(advisory) : ~IsGuardFinding(r)
  BY QuietFinding DEF reportUnresolvableAnnotation, Quiet
<1> HIDE DEF invariant, lock, checks, advisory, finding
<1>4. Range(<<>>) = {} /\ \A r : Range(<<r>>) = {r}
  BY DEF Range
<1>5. CASE invariant # None /\ lock # None /\ lock \notin held
  <2>1. Range(checks) = {finding}
    BY <1>1, <1>4, <1>5
  <2> QED
    BY <1>2, <1>5, <2>1 DEF invariant, lock, checks
<1>6. CASE ~(invariant # None /\ lock # None /\ lock \notin held)
  <2>1. checks = <<>> \/ checks = advisory
    BY <1>1, <1>6
  <2>2. Range(checks) = {} \/ Range(checks) = Range(advisory)
    BY <1>4, <2>1
  <2> QED
    BY <1>3, <1>6, <2>2 DEF invariant, lock, checks
<1> QED
  BY <1>5, <1>6

-----------------------------------------------------------------------------
(***************************************************************************)
(* A finding of a guarded access is what the check gives at an access of   *)
(* an analysed function, with the locks of that analysis.                  *)
(***************************************************************************)
AccessChecks(e, site) ==
  checkGuardedByAccess(prog, e.fn, site, HeldAt(prog, e.fn, e.contract, site), registry)

FoundAt(r, e) == \E site \in Sites(e) : site.op = "access" /\ r \in Range(AccessChecks(e, site))

GuardInv == \A r \in GuardFindings : \E e \in analysed : FoundAt(r, e)

(***************************************************************************)
(* Findings stay found while more is analysed.                             *)
(***************************************************************************)
LEMMA FoundStay ==
  ASSUME GuardInv, UNCHANGED annotations, analysed \subseteq analysed',
         \A r \in raised' : IsGuardFinding(r) => r \in raised \/ \E e \in analysed' : FoundAt(r, e)
  PROVE  GuardInv'
<1>1. prog' = prog /\ registry' = registry
  BY DEF annotations, prog
<1>2. \A r, e : FoundAt(r, e)' <=> FoundAt(r, e)
  BY <1>1 DEF FoundAt, AccessChecks, Sites
<1>3. \A r \in raised' : IsGuardFinding(r) => \E e \in analysed' : FoundAt(r, e)
  BY DEF GuardInv, GuardFindings
<1> QED
  BY <1>2, <1>3 DEF GuardInv, GuardFindings

LEMMA StepGuardInv == RunInv /\ GuardInv /\ [Next]_vars => GuardInv'
<1> SUFFICES ASSUME RunInv, GuardInv, [Next]_vars
             PROVE  GuardInv'
  OBVIOUS
<1>0. AnnotationInv /\ WorkInv
  BY DEF RunInv
<1>1. ASSUME UNCHANGED annotations, UNCHANGED history
      PROVE  GuardInv'
  BY <1>1, FoundStay DEF history
<1>2. ASSUME NEW fn \in DOMAIN prog.fns, AnalyzeFunction(fn)
      PROVE  GuardInv'
  <2>1. UNCHANGED annotations
    BY <1>2 DEF AnalyzeFunction
  <2>2. CASE ~prog.fns[fn].hasBody
    BY <1>1, <1>2, <2>1, <2>2 DEF AnalyzeFunction
  <2>3. CASE prog.fns[fn].hasBody
    <3>1. PICK a \in outcomes[fn] :
            /\ analysed' = analysed \cup {[fn |-> fn, contract |-> a.contract, advice |-> a.advice]}
            /\ raised' = raised \cup Range(a.recorded)
      BY <1>2, <2>3 DEF AnalyzeFunction
    <3> DEFINE e == [fn |-> fn, contract |-> a.contract, advice |-> a.advice]
    <3>2. e \in analysed' /\ e.fn = fn /\ e.contract = a.contract
      BY <3>1
    <3> HIDE DEF e
    <3>3. ASSUME NEW r \in Range(a.recorded), IsGuardFinding(r)
          PROVE  FoundAt(r, e)
      <4>1. PICK site \in Range(prog.fns[fn].sites) :
              /\ site.op = "access"
              /\ r \in Range(checkGuardedByAccess(prog, fn, site, HeldAt(prog, fn, a.contract, site), registry))
        BY <1>0, <3>3, OutcomeParts
      <4> QED
        BY <3>2, <4>1 DEF FoundAt, AccessChecks, Sites
    <3>4. \A r \in raised' : IsGuardFinding(r) => r \in raised \/ \E x \in analysed' : FoundAt(r, x)
      BY <3>1, <3>2, <3>3
    <3> QED
      BY <2>1, <3>1, <3>4, FoundStay
  <2> QED
    BY <2>2, <2>3
<1>3. ASSUME FinishPackage
      PROVE  GuardInv'
  <2>1. UNCHANGED annotations /\ analysed' = analysed /\ raised' = raised \cup Range(outbox')
    BY <1>3 DEF FinishPackage
  <2>2. current \in Range(input.loaded) /\ input \in Inputs
    BY <1>0, <1>3 DEF FinishPackage, WorkInv, AnnotationInv
  <2>3. IsOrderReport(prog.packageWide[current])
    BY <2>2, PackagesAssumption DEF prog
  <2>4. \A r \in Range(outbox') : ~IsGuardFinding(r)
    BY <1>3, <2>3, EmptyReport DEF FinishPackage, IsOrderReport, IsGuardFinding
  <2> QED
    BY <2>1, <2>4, FoundStay
<1>4. CASE UNCHANGED vars
  BY <1>1, <1>4 DEF vars
<1>5. CASE RunPackage \/ Record \/ Report
  <2>1. UNCHANGED annotations /\ UNCHANGED history
    BY <1>5 DEF RunPackage, Record, Report
  <2> QED
    BY <1>1, <2>1
<1> QED
  BY <1>2, <1>3, <1>4, <1>5 DEF Next, Step, Terminating

(***************************************************************************)
(* An access whose owner is known, of a field with a guard, is found if    *)
(* and only if the mutex is not held.                                      *)
(***************************************************************************)
LEMMA UnguardedChecked ==
  ASSUME AnnotationInv, stage # "refused", NEW e, e.fn \in DOMAIN prog.fns,
         NEW site \in Sites(e), OwnerKnown(site)
  PROVE  /\ Unguarded(e, site) =>
              \E r \in Range(AccessChecks(e, site)) : IsGuardFinding(r) /\ r.diag.pos = site.pos
         /\ Guards(site) # {} =>
              \A r \in Range(AccessChecks(e, site)) : IsGuardFinding(r) => Unguarded(e, site)
<1> DEFINE held == HeldAt(prog, e.fn, e.contract, site)
           invariant == dataInvariantForAddress(prog, registry, site)
           lock == resolveGuardLockObject(prog, e.fn, site, invariant.mutex)
<1>1. site \in Range(prog.fns[e.fn].sites) /\ site.isField
  BY DEF Sites, OwnerKnown
<1>2. \A mutex \in Guards(site) : invariant # None /\ invariant.mutex = mutex /\ lock = Guard(e.fn, site, mutex)
  <2> SUFFICES ASSUME NEW mutex \in Guards(site)
               PROVE  invariant # None /\ invariant.mutex = mutex /\ lock = Guard(e.fn, site, mutex)
    OBVIOUS
  <2>1. invariant # None /\ invariant.mutex = mutex /\ mutex \in Seq(STRING)
    BY <1>1, GuardLookup
  <2>2. resolveGuardLockObject(prog, e.fn, site, mutex) = Guard(e.fn, site, mutex)
    BY <1>1, <2>1, GuardResolved
  <2> QED
    BY <2>1, <2>2
<1>3. Unguarded(e, site) <=>
        \E mutex \in Guards(site) : Guard(e.fn, site, mutex) # None /\ Guard(e.fn, site, mutex) \notin held
  BY DEF Unguarded, HeldAt
<1>4. /\ invariant # None /\ lock # None /\ lock \notin held =>
           \E r \in Range(AccessChecks(e, site)) : IsGuardFinding(r) /\ r.diag.pos = site.pos
      /\ \A r \in Range(AccessChecks(e, site)) : IsGuardFinding(r) =>
           invariant # None /\ lock # None /\ lock \notin held
  BY AccessChecked DEF AccessChecks
<1> HIDE DEF held, invariant, lock
<1> QED
  BY <1>2, <1>3, <1>4

(***************************************************************************)
(* In every run, over any packages loaded, the accesses of fields declared *)
(* @guarded_by are reported if and only if the mutex that the annotation   *)
(* names is not held, whatever the declarations before and after it have   *)
(* registered (visitor.go, guard_checks.go).                               *)
(***************************************************************************)
THEOREM RunGuardedAccessChecked == Spec => []GuardedAccessChecked
<1>1. Init => GuardInv
  BY DEF Init, GuardInv, GuardFindings
<1>2. RunInv /\ GuardInv => GuardedAccessChecked
  <2> SUFFICES ASSUME RunInv, GuardInv, stage = "done"
               PROVE  /\ \A e \in analysed : \A site \in Sites(e) :
                           OwnerKnown(site) /\ Unguarded(e, site) => \E r \in GuardFindings : r.diag.pos = site.pos
                      /\ \A r \in GuardFindings : \E e \in analysed : \E site \in Sites(e) :
                           /\ site.op = "access" /\ site.pos = r.diag.pos
                           /\ OwnerKnown(site) /\ Guards(site) # {} => Unguarded(e, site)
    BY DEF GuardedAccessChecked
  <2>0. AnnotationInv /\ AnalysedInv /\ stage # "refused"
    BY DEF RunInv
  <2>1. ASSUME NEW e \in analysed, NEW site \in Sites(e), OwnerKnown(site), Unguarded(e, site)
        PROVE  \E r \in GuardFindings : r.diag.pos = site.pos
    <3>1. e.fn \in DOMAIN prog.fns
      BY <2>0 DEF AnalysedInv
    <3>2. PICK a \in outcomes[e.fn] : e.contract = a.contract /\ Range(a.recorded) \subseteq raised
      BY <2>0 DEF AnalysedInv
    <3>3. Range(AccessChecks(e, site)) \subseteq raised
      <4>1. site \in Range(prog.fns[e.fn].sites) /\ site.op = "access"
        BY <2>1 DEF Sites, OwnerKnown
      <4>2. Range(checkGuardedByAccess(prog, e.fn, site, HeldAt(prog, e.fn, a.contract, site), registry))
              \subseteq Range(a.recorded)
        BY <2>0, <3>1, <3>2, <4>1, OutcomeParts
      <4> QED
        BY <3>2, <4>2 DEF AccessChecks
    <3>4. PICK r \in Range(AccessChecks(e, site)) : IsGuardFinding(r) /\ r.diag.pos = site.pos
      BY <2>0, <2>1, <3>1, UnguardedChecked
    <3> QED
      BY <3>3, <3>4 DEF GuardFindings
  <2>2. ASSUME NEW r \in GuardFindings
        PROVE  \E e \in analysed : \E site \in Sites(e) :
                 /\ site.op = "access" /\ site.pos = r.diag.pos
                 /\ OwnerKnown(site) /\ Guards(site) # {} => Unguarded(e, site)
    <3>1. PICK e \in analysed : FoundAt(r, e)
      BY DEF GuardInv
    <3>2. PICK site \in Sites(e) : site.op = "access" /\ r \in Range(AccessChecks(e, site))
      BY <3>1 DEF FoundAt
    <3>3. IsGuardFinding(r) /\ e.fn \in DOMAIN prog.fns
      BY <2>0, <2>2 DEF GuardFindings, AnalysedInv
    <3>4. r.diag.pos = site.pos
      BY <3>2, <3>3, AccessChecked DEF AccessChecks
    <3>5. OwnerKnown(site) /\ Guards(site) # {} => Unguarded(e, site)
      BY <2>0, <3>2, <3>3, UnguardedChecked
    <3> QED
      BY <3>2, <3>4, <3>5
  <2> QED
    BY <2>1, <2>2
<1>3. RunInv /\ GuardInv /\ [Next]_vars => GuardInv'
  BY StepGuardInv
<1> QED
  BY <1>1, <1>2, <1>3, AlwaysRunInv, PTL DEF Spec

=============================================================================
