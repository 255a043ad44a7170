------------------------------- MODULE Driver -------------------------------
(***************************************************************************)
(* A run of gotsan: main.go and pipeline (the command line, "cli", and the *)
(* pass of go vet, "vet") and Run of analyzer/analysis_runner.  All        *)
(* annotations are registered, then package after package is analysed into *)
(* one reporter, which shows its lists at the end.                         *)
(*                                                                         *)
(* An input has prog (the name of a program, see PackageAnalysis, that has *)
(* declared, the functions and methods of each package, and packageWide,   *)
(* what the detector over the whole package finds), front, loaded (the     *)
(* packages in their order; one comes twice if its tests are loaded too;   *)
(* vet is given one), and the flags lenient, strict and ignore.            *)
(***************************************************************************)
EXTENDS PackageAnalysis, Reporter

CONSTANTS
  Programs,   \* the programs, by some name
  Inputs

ASSUME InputsAssumption ==
  \A i \in Inputs : i.loaded \in Seq(Range(i.loaded)) /\ None \notin Range(i.loaded)

\* A sequence of what is to be recorded, advisory or not.
IsReport(s) ==
  /\ s \in Seq(Range(s))
  /\ \A r \in Range(s) : /\ r.advisory \in BOOLEAN
                        /\ r.diag = [pos |-> r.diag.pos, message |-> r.diag.message]

\* What a detector of lock orders finds is not about guarded accesses.
IsOrderReport(s) == IsReport(s) /\ \A r \in Range(s) : r.diag.message.kind # "guarded_by"

ASSUME NoneAssumption ==
  /\ None \notin [pos : Nat, expectations : [AnnotationKinds -> Seq(Seq(STRING))]]
  /\ None \notin [mutex : Seq(STRING), pos : Nat]

(***************************************************************************)
(* The shape of a program.  A function has one declaration at most, and    *)
(* the keyword of one stands at no function's name; a type has one field   *)
(* of a name (blank ones, which no access can mean, aside).                *)
(***************************************************************************)
ASSUME PackagesAssumption ==
  \A i \in Inputs : \A pkg \in Range(i.loaded) :
    LET p == Programs[i.prog] IN
      /\ p.files[pkg] \in Seq(Range(p.files[pkg]))
      /\ p.declared[pkg] \subseteq DOMAIN p.fns
      /\ IsOrderReport(p.packageWide[pkg])

IsDoc(doc) == doc \in Seq(Range(doc)) /\ \A a \in Range(doc) : a.params \in Seq(Seq(STRING))

ASSUME DeclarationsAssumption ==
  \A i \in Inputs :
    LET p == Programs[i.prog]
        decls == UNION {Range(p.files[pkg]) : pkg \in Range(i.loaded)}
        funcs == {d \in decls : d.kind = "func"}
    IN
      /\ \A d \in decls : d.kind \in {"func", "var", "type"}
      /\ \A d \in funcs :
           /\ d.pos \in Nat
           /\ IsDoc(d.doc)
           /\ d.recv # None => Expr(p, d.recv) # None
           /\ \A e \in funcs : d.fn = e.fn => d = e
           /\ \A fn \in DOMAIN p.fns : p.fns[fn].pos # d.pos
      /\ \A d \in {x \in decls : x.kind = "type"} :
           /\ d.fields \in Seq(Range(d.fields))
           /\ \A j, k \in DOMAIN d.fields : d.fields[j].name = d.fields[k].name => j = k
           /\ \A f \in Range(d.fields) : f.pos \in Nat /\ IsDoc(f.doc)

ASSUME FunctionsAssumption ==
  \A i \in Inputs :
    LET p == Programs[i.prog] IN
      /\ \A t \in DOMAIN p.types :
           /\ p.types[t].name # ""
           /\ p.paths[p.types[t].pkg] \in Seq(Range(p.paths[p.types[t].pkg]))
      /\ \A fn \in DOMAIN p.fns :
           LET f == p.fns[fn] IN
             /\ f.anons \in Seq(DOMAIN p.fns)
             /\ f.recv # None => f.recv.name \in DOMAIN p.types
             /\ f.params \in Seq(Range(f.params)) /\ \A v \in Range(f.params) : v.name \in STRING
             /\ f.params # <<>> =>
                  [NormalizeTypeName(String(p, f.params[1].type)) EXCEPT !.ptr = ~@] # None
             /\ \A name \in DOMAIN p.members[f.pkg] : p.members[f.pkg][name][1] # "param"
             /\ IsFiniteSet(DOMAIN f.evidence) /\ \A lock \in DOMAIN f.evidence : lock[3] \in STRING
             /\ None \notin [kind : AnnotationKinds, lock : DOMAIN f.evidence]
             /\ IsOrderReport(f.orders.always) /\ IsOrderReport(f.orders.strict)

(***************************************************************************)
(* A call passes every parameter that is known an argument of its type,    *)
(* and the address of a field has an object.                               *)
(***************************************************************************)
ASSUME SitesAssumption ==
  \A i \in Inputs :
    LET p == Programs[i.prog] IN
      \A fn \in DOMAIN p.fns :
        LET f == p.fns[fn] IN
          /\ f.sites \in Seq(Range(f.sites))
          /\ \A site \in Range(f.sites) : site.op \in {"call", "access"}
          /\ \A site \in {x \in Range(f.sites) : x.op = "call"} :
               LET params == p.fns[site.callee].params IN
                 /\ site.callee \in DOMAIN p.fns
                 /\ site.args \in Seq(Range(site.args)) /\ Len(params) <= Len(site.args)
                 /\ \A k \in DOMAIN params : site.args[k].type = params[k].type
          /\ \A site \in {x \in Range(f.sites) : x.op = "access"} :
               /\ site.owner # None => site.owner.name \in DOMAIN p.types
               /\ site.isField => site.object # None

VARIABLES
  input,      \* never changes
  registry,   \* the contracts and guards; complete before the analysis
  outcomes,   \* how the analysis of each function may go with this registry
  stage,      \* "analyse", "done" or "refused"
  packages,   \* packages that are not analysed yet
  members,    \* functions of the package under analysis still to analyse
  nested,     \* functions declared inside the one analysed last
  current,    \* the package under analysis, or None
  outbox,     \* what the last step still has to record
  analysed,   \* history: the analyses of functions
  raised      \* history: everything that was to be recorded

annotations == <<input, registry, outcomes>>
control == <<stage, packages, members, nested, current>>
history == <<analysed, raised>>
vars == <<annotations, outbox, control, history, reporterVars>>

prog == Programs[input.prog]

strictMode == IF input.front = "vet" THEN input.strict ELSE ~input.lenient

\* The declarations of some packages, in the order of the source.
Files(pkgs) == FlattenSeq([k \in DOMAIN pkgs |-> prog.files[pkgs[k]]])

\* A pass of go vet with both flags says so, without a position.
Refusal ==
  [findings |-> {[pos |-> 0, message |-> [what |-> "both flags", kind |-> "error", about |-> <<>>, target |-> <<>>]]},
   warnings |-> {}]

(***************************************************************************)
(* A run after its annotation discovery phase.  With both flags it ends    *)
(* before anything is loaded.                                              *)
(***************************************************************************)
Init ==
  /\ input \in Inputs
  /\ stage = IF input.lenient /\ input.strict THEN "refused" ELSE "analyse"
  /\ registry = PopulateRegistryFromFiles(prog, IF stage = "refused" THEN <<>> ELSE Files(input.loaded))
  /\ outcomes = [fn \in DOMAIN prog.fns |-> functionAnalyses(prog, fn, registry, strictMode)]
  /\ packages = input.loaded
  /\ members = {} /\ nested = <<>> /\ current = None /\ outbox = <<>>
  /\ analysed = {} /\ raised = {}
  /\ IgnoreMissingAnnotations = (input.front = "cli" /\ input.ignore)
  /\ NewReporter
  /\ output = IF stage = "refused" /\ input.front = "vet" THEN {Refusal} ELSE {}

-----------------------------------------------------------------------------
\* Slip: the package stays in the queue.
RunPackageAgain ==
  /\ stage = "analyse" /\ current = None /\ outbox = <<>> /\ packages # <<>>
  /\ current' = Head(packages)
  /\ members' = prog.declared[current']
  /\ UNCHANGED <<annotations, packages, stage, nested, outbox, history, reporterVars>>

RunPackage ==
  /\ stage = "analyse" /\ current = None /\ outbox = <<>> /\ packages # <<>>
  /\ current' = Head(packages)
  /\ packages' = Tail(packages)
  /\ members' = prog.declared[current']
  /\ UNCHANGED <<annotations, stage, nested, outbox, history, reporterVars>>

(***************************************************************************)
(* The members of a package come in the order of a map, a function inside  *)
(* another right after it.                                                 *)
(***************************************************************************)
AnalyzeFunction(fn) ==
  /\ outbox = <<>>
  /\ IF nested = <<>> THEN fn \in members ELSE fn = Head(nested)
  /\ members' = members \ {fn}
  /\ nested' = (IF prog.fns[fn].hasBody THEN prog.fns[fn].anons ELSE <<>>)
                 \o (IF nested = <<>> THEN <<>> ELSE Tail(nested))
  /\ IF prog.fns[fn].hasBody
     THEN \E a \in outcomes[fn] :
            /\ outbox' = a.recorded
            /\ analysed' = analysed \cup {[fn |-> fn, contract |-> a.contract, advice |-> a.advice]}
            /\ raised' = raised \cup Range(a.recorded)
     ELSE UNCHANGED <<outbox, history>>
  /\ UNCHANGED <<annotations, stage, packages, current, reporterVars>>

(***************************************************************************)
(* The detector over the whole package ends the package.                   *)
(***************************************************************************)
FinishPackage ==
  /\ current # None /\ members = {} /\ nested = <<>> /\ outbox = <<>>
  /\ outbox' = IF strictMode THEN prog.packageWide[current] ELSE <<>>
  /\ raised' = raised \cup Range(outbox')
  /\ current' = None
  /\ UNCHANGED <<annotations, stage, packages, members, nested, analysed, reporterVars>>

Record ==
  /\ outbox # <<>>
  /\ IF Head(outbox).advisory THEN WarnHeuristic(Head(outbox).diag) ELSE Warn(Head(outbox).diag)
  /\ outbox' = Tail(outbox)
  /\ UNCHANGED <<annotations, control, history>>

\* Slip: the report does not wait for what the last function records.
ReportEarly ==
  /\ stage = "analyse" /\ packages = <<>> /\ current = None
  /\ IF input.front = "cli" THEN PrintReport ELSE PassReport
  /\ stage' = "done"
  /\ UNCHANGED <<annotations, packages, members, nested, current, outbox, history>>

Report ==
  /\ stage = "analyse" /\ packages = <<>> /\ current = None /\ outbox = <<>>
  /\ IF input.front = "cli" THEN PrintReport ELSE PassReport
  /\ stage' = "done"
  /\ UNCHANGED <<annotations, packages, members, nested, current, outbox, history>>

Step ==
  \/ RunPackage
  \/ \E fn \in DOMAIN prog.fns : AnalyzeFunction(fn)
  \/ FinishPackage
  \/ Record
  \/ Report

Terminating == stage \in {"done", "refused"} /\ UNCHANGED vars

Next == Step \/ Terminating

(***************************************************************************)
(* A sequential program: it takes its next step as long as it has one.     *)
(***************************************************************************)
Spec == Init /\ [][Next]_vars /\ WF_vars(Step)

-----------------------------------------------------------------------------
(***************************************************************************)
(* Types of the state of a run.                                            *)
(***************************************************************************)
Contracts == {None} \cup Range(registry.functions) \cup Range(registry.byPos)

TypeOK ==
  /\ stage \in {"analyse", "done", "refused"}
  /\ \A c \in Contracts \ {None} : DOMAIN c.expectations = AnnotationKinds
  /\ Range(packages) \cup {current} \subseteq Range(input.loaded) \cup {None}
  /\ members \cup Range(nested) \subseteq DOMAIN prog.fns
  /\ \A e \in analysed : e.fn \in DOMAIN prog.fns /\ e.contract \in Contracts
  /\ Range(outbox) \subseteq raised
  /\ seen = {diagnosticKey(d) : d \in Range(Findings)}
  /\ seenWarnings = {diagnosticKey(d) : d \in Range(Warnings)}

(***************************************************************************)
(* The declarations of the packages loaded, and the one of a function.     *)
(***************************************************************************)
Declarations == UNION {Range(prog.files[pkg]) : pkg \in Range(input.loaded)}

FuncDecls == {d \in Declarations : d.kind = "func"}

Declares(d, fn) == d.fn = fn /\ d.name = prog.fns[fn].name /\ d.recv = prog.fns[fn].recv

Namesakes(fn) == {d \in FuncDecls : d.name = prog.fns[fn].name /\ ~Declares(d, fn)}

Resolves(fn, d) == expectationResolvableScore(prog, fn, handleFuncDecl(d)) > 0

\* A receiver or first parameter that is, up to the star, d's receiver.
SameReceiver(t, d) ==
  d.recv # None /\ prog.types[d.recv.name].name = prog.types[t.name].name

(***************************************************************************)
(* A function is analysed with the contract of its own declaration         *)
(* (contractForFunction), whatever the other packages declare and in any   *)
(* order of the maps: a method if the package of its receiver's type has a *)
(* path of one word and no type of its receiver's name has a method of its *)
(* name, a plain function if no other function of its name is a method of  *)
(* its first parameter's type or has a target that resolves in it.         *)
(* Declarations that come later must not take its place in the registry.   *)
(* The functions init, which are numbered, do not have their own names.    *)
(***************************************************************************)
HasOwnKey(fn) ==
  LET f == prog.fns[fn] IN
    IF f.recv # None
    THEN Len(prog.paths[prog.types[f.recv.name].pkg]) = 1 /\ \A d \in Namesakes(fn) : ~SameReceiver(f.recv, d)
    ELSE \A d \in Namesakes(fn) :
           /\ d.recv # None
           /\ f.params # <<>> => ~SameReceiver(f.params[1].type, d)
           /\ ~Resolves(fn, d)

OwnContract ==
  stage = "done" => \A e \in analysed : \A d \in FuncDecls :
    Declares(d, e.fn) /\ HasOwnKey(e.fn) => e.contract = handleFuncDecl(d)

(***************************************************************************)
(* Every method is analysed with the contract of its own declaration       *)
(* ("retrieve it by normalizing the type name to the function name. Try    *)
(* method key first", analyzer/contracts_lookup.go:41-42), if no other     *)
(* type of its receiver's name has a method of its name.                   *)
(***************************************************************************)
MethodOwnContract ==
  stage = "done" => \A e \in analysed : \A d \in FuncDecls :
    /\ Declares(d, e.fn) /\ d.recv # None
    /\ \A n \in Namesakes(e.fn) : ~SameReceiver(d.recv, n)
    => e.contract = handleFuncDecl(d)

-----------------------------------------------------------------------------
(***************************************************************************)
(* A mutex that a function is analysed as holding (createInitialLockset)   *)
(* is held at every analysed call of it, in whatever package, or the call  *)
(* is reported: nobody assumes what nobody checks.  The two sides resolve  *)
(* the target on different ways (resolveObjectInScope and                  *)
(* resolveObjectAtInvocation).  Two targets are left out: one that starts  *)
(* with a field of an implicit receiver, for the caller's side does not    *)
(* know it, and a parameter that hides a member of the package, for the    *)
(* caller's side takes the member if the argument is no known object.  So  *)
(* are calls without a position, where no advisory can be placed.          *)
(***************************************************************************)
ImplicitReceiver(fn, target) ==
  LET params == prog.fns[fn].params IN
    /\ Len(target) > 1 /\ params # <<>> /\ Named(prog, fn, target[1]) = {}
    /\ resolveNestedField(prog, params[1].type, target) # None

HidesMember(fn, target) ==
  Len(target) = 1 /\ Named(prog, fn, target[1]) # {} /\ findInPackageGlobals(prog, fn, target[1]) # None

\* The caller's name for an object of the callee.
AtCaller(site, lock) ==
  IF lock[1] = "param" /\ lock[2] = site.callee
  THEN site.args[CHOOSE k \in Named(prog, site.callee, lock[3]) : TRUE].object
  ELSE lock

AssumedLocksChecked ==
  stage = "done" => \A callee \in analysed, caller \in analysed :
    \A k \in DOMAIN prog.fns[caller.fn].sites :
      LET site == prog.fns[caller.fn].sites[k]
          held == site.held \cup createInitialLockset(prog, caller.fn, caller.contract)
      IN  /\ site.op = "call" /\ site.callee = callee.fn /\ site.pos # 0
          /\ contractForFunction(prog, callee.fn, registry) = {callee.contract}
          => \A target \in Range(Targets(callee.contract, "requires")) :
               \A lock \in {resolveObjectInScope(prog, callee.fn, target)} \ {None} :
                 ~ImplicitReceiver(callee.fn, target) /\ ~HidesMember(callee.fn, target)
                 => \/ AtCaller(site, lock) \in held
                    \/ \E r \in raised : /\ r.diag.pos = site.pos
                                         /\ r.diag.message.kind = "requires"
                                         /\ r.diag.message.target = target

(***************************************************************************)
(* What is reported of a field whose last annotation is @guarded_by are    *)
(* exactly the accesses without its mutex (checkGuardedByAccess), if only  *)
(* one type of the name is loaded: every such access is reported, and      *)
(* where a report is there is one.  The mutex is the last parameter of the *)
(* annotation, a field of the same struct first.  A field without a guard  *)
(* may have the guard of a variable of its name, which is left out.        *)
(***************************************************************************)
Owners(access) ==
  {d \in Declarations : d.kind = "type" /\ d.name = prog.types[access.owner.name].name}

\* The declarations of the field that an access may mean.
FieldDecls(access) ==
  {f \in UNION {Range(d.fields) : d \in Owners(access)} : f.name = access.object[3]}

OwnerKnown(access) ==
  /\ access.op = "access" /\ access.isField /\ access.owner # None
  /\ \A d, e \in Owners(access) : d = e

Guards(access) ==
  {Last(Last(f.doc).params) :
     f \in {g \in FieldDecls(access) :
              g.doc # <<>> /\ Last(g.doc).name = "guarded_by" /\ Last(g.doc).params # <<>>}}

Guard(fn, access, mutex) ==
  LET ofStruct == resolveNestedField(prog, access.owner, mutex)
  IN  IF ofStruct # None THEN ofStruct ELSE resolveObjectInScope(prog, fn, mutex)

\* The accesses of guarded fields, in the analysis e, without the mutex.
Unguarded(e, access) ==
  \E mutex \in Guards(access) :
    Guard(e.fn, access, mutex) \notin {None} \cup access.held \cup createInitialLockset(prog, e.fn, e.contract)

IsGuardFinding(r) == ~r.advisory /\ r.diag.message.kind = "guarded_by"

GuardFindings == {r \in raised : IsGuardFinding(r)}

Sites(e) == Range(prog.fns[e.fn].sites)

GuardedAccessChecked ==
  stage = "done" =>
    /\ \A e \in analysed : \A site \in Sites(e) :
         OwnerKnown(site) /\ Unguarded(e, site) => \E r \in GuardFindings : r.diag.pos = site.pos
    /\ \A r \in GuardFindings : \E e \in analysed : \E site \in Sites(e) :
         /\ site.op = "access" /\ site.pos = r.diag.pos
         /\ OwnerKnown(site) /\ Guards(site) # {} => Unguarded(e, site)

-----------------------------------------------------------------------------
(***************************************************************************)
(* Advice that is followed settles (detectLikelyMissingLockAnnotations).   *)
(* Of several locks without an annotation the order of a map picks the one *)
(* that is named.  Whichever it is each time, a function whose contract    *)
(* gets the annotations it is advised, round after round, has one for      *)
(* every lock it unlocks after as many rounds as it uses locks, and is     *)
(* never asked for one that its contract had from the start.               *)
(***************************************************************************)
Advice(fn, contract) == detectLikelyMissingLockAnnotations(prog, fn, contract) \ {None}

Followed(fn, contract, advice) ==
  [pos |-> 0,
   expectations |->
     [kind \in AnnotationKinds |->
        Targets(contract, kind)
          \o (IF kind = advice.kind THEN <<AdvisedTarget(prog, fn, contract, advice)>> ELSE <<>>)]]

Rounds(e) == Cardinality(DOMAIN prog.fns[e.fn].evidence)

\* The contracts of the function analysed in e after each round.
AfterRounds(e) ==
  LET after[n \in 0..Rounds(e)] ==
        IF n = 0
        THEN {e.contract}
        ELSE UNION {IF Advice(e.fn, c) = {} THEN {c} ELSE {Followed(e.fn, c, a) : a \in Advice(e.fn, c)} :
                    c \in after[n - 1]}
  IN  after

\* A lock that is only unlocked is the caller's.
NeededKind(fn, lock) == IF prog.fns[fn].evidence[lock].locks THEN "acquires" ELSE "requires"

\* The locks that need an annotation.
Unannotated(fn, contract) ==
  {lock \in DOMAIN prog.fns[fn].evidence :
     /\ prog.fns[fn].evidence[lock].unlocks
     /\ ~lockCoveredByContract(prog, fn, contract, NeededKind(fn, lock), lock)}

AdviceSettles ==
  stage = "done" => \A e \in analysed : ~prog.fns[e.fn].synthetic =>
    \E after \in {AfterRounds(e)} :
      /\ \A c \in after[Rounds(e)] : Unannotated(e.fn, c) = {}
      /\ \A n \in 0..Rounds(e) : \A c \in after[n] : \A a \in Advice(e.fn, c) :
           a.lock \in Unannotated(e.fn, e.contract) /\ a.kind = NeededKind(e.fn, a.lock)

-----------------------------------------------------------------------------
(***************************************************************************)
(* What is shown does not depend on the order of the analysis: each        *)
(* diagnostic raised in the run once, in the order of the source; by vet   *)
(* the findings that have a position (sortDiagnostics, runGoAnalysis).     *)
(***************************************************************************)
\* Each once, and none after one that it comes before.
Listed(s) == \A j, k \in DOMAIN s : j < k => s[j] # s[k] /\ ~Before(s[k], s[j])

RaisedDiags(advisory) == {r.diag : r \in {x \in raised : x.advisory = advisory}}

Shown ==
  LET findings == RaisedDiags(FALSE) IN
    IF input.front = "cli"
    THEN [findings |-> findings, warnings |-> IF input.ignore THEN {} ELSE RaisedDiags(TRUE)]
    ELSE [findings |-> {d \in findings : d.pos # 0}, warnings |-> {}]

ShownExact ==
  stage = "done" =>
    /\ output = {Shown}
    /\ input.front = "cli" => Listed(Findings) /\ Listed(Warnings)

(***************************************************************************)
(* The reporter implements the log: nothing recorded is lost or comes      *)
(* after the report, and the report shows what was recorded.  That a run   *)
(* was refused is no report.                                               *)
(***************************************************************************)
Log == INSTANCE DiagnosticLog WITH
         findings <- Range(Findings), warnings <- Range(Warnings),
         reports <- IF stage = "refused" THEN {} ELSE output

ImplementsLog == Log!LogSpec

(***************************************************************************)
(* Every run ends with a report or is refused, since the loop of main and  *)
(* the recursion of analyzeFunction always go on.                          *)
(***************************************************************************)
Termination == <>(stage \in {"done", "refused"})

=============================================================================
