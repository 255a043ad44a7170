----------------------------- MODULE TracedCalls -----------------------------
(***************************************************************************)
(* The packages in which the resolution of calls (DynamicDispatch) finds   *)
(* what a run reaches (ValueFlow): the reach of the analyzer, stated as    *)
(* conditions on the program.  They are not code of the repository; they   *)
(* are the hypotheses under which the resolution is proved exact, and hold *)
(* of the packages it is checked on.                                       *)
(***************************************************************************)
EXTENDS ValueFlow

(***************************************************************************)
(* SSA form: what an expression, a call or a closure refers to is there.   *)
(***************************************************************************)
ValuesClosed(p) ==
  /\ IsFiniteSet(DOMAIN p.values)
  /\ None \notin DOMAIN p.values
  /\ \A v \in DOMAIN p.values :
       LET w == p.values[v] IN
         /\ w.kind \in {"function", "closure"}      => w.fn # None
         /\ w.kind \in {"convert", "load", "index"} => w.x \in DOMAIN p.values
         /\ w.kind = "alloc"                        => w.stores \in Seq(DOMAIN p.values)

CallsClosed(p) ==
  /\ \A i \in CallLike(p) : i.value \in DOMAIN p.values /\ i.args \in Seq(DOMAIN p.values)
  /\ \A i \in AllInstrs(p) : i.op = "return" => Elements(i.results) \subseteq DOMAIN p.values
  /\ \A i \in AllInstrs(p) : i.op = "store" => i.val \in DOMAIN p.values
  /\ \A f \in DOMAIN p.fns : /\ p.fns[f].params \in Seq(DOMAIN p.values)
                             /\ p.fns[f].freeVars \in Seq(DOMAIN p.values)

ClosuresClosed(p) ==
  \A i \in AllInstrs(p) :
    i.op = "makeclosure" =>
      LET closure == p.values[i.closure] IN
        /\ closure.fn \in DOMAIN p.fns
        /\ closure.bindings \in Seq(DOMAIN p.values)
        /\ Len(closure.bindings) = Len(p.fns[closure.fn].freeVars)

MutexOperations ==
  {"(*sync.Mutex).Lock", "(*sync.RWMutex).Lock", "(*sync.RWMutex).RLock",
   "(*sync.Mutex).Unlock", "(*sync.RWMutex).Unlock", "(*sync.RWMutex).RUnlock"}

NamesApart(p) ==
  /\ (DOMAIN p.fns \cup {None}) \cap MutexOperations = {}
  /\ None \notin DOMAIN p.fns
  /\ \A m \in p.methods : m.name # None

WellFormed(p) ==
  /\ IsFiniteSet(DOMAIN p.fns)
  /\ ValuesClosed(p) /\ CallsClosed(p) /\ ClosuresClosed(p) /\ NamesApart(p)

(***************************************************************************)
(* Every function with a body is a member of the package, a method of one  *)
(* of its types or declared inside such a function.                        *)
(***************************************************************************)
AllCollected(p) == collectPackageFunctions(p) = DOMAIN p.fns

-----------------------------------------------------------------------------
(***************************************************************************)
(* Function values.  The leaves of a value are those it gets its value     *)
(* from by conversions, loads and, where they are gone through, the stores *)
(* into variables.                                                         *)
(***************************************************************************)
Variables == {"convert", "load", "alloc"}

Chain == {"convert", "load"}

Through(p, v, through) ==
  ReachedFrom(p, v, [w \in DOMAIN p.values |-> Elements(Behind(p, w, through))])

Leaves(p, v, through) == {x \in Through(p, v, through) : p.values[x].kind \notin through}

(***************************************************************************)
(* Nothing but one function is stored into the variable.                   *)
(***************************************************************************)
OneFunction(p, v) ==
  \A x, y \in Leaves(p, v, Variables) :
    p.values[x].kind \in {"function", "closure"} /\ p.values[x].fn = p.values[y].fn

(***************************************************************************)
(* f is entered by call and go statements that name it, and by no others.  *)
(***************************************************************************)
EnteredByName(p, f) ==
  \A i \in CallLike(p) :
    f \in CalleesGiven(p, Denotes(p), i) => i.op \in {"call", "go"} /\ StaticCallee(p, i) = f

(***************************************************************************)
(* In f, the value v is the parameter x.                                   *)
(***************************************************************************)
IsParameter(p, f, v, x) ==
  /\ Leaves(p, v, Variables) = {x}
  /\ p.values[x].kind = "param"
  /\ \A g \in DOMAIN p.fns : x \in Elements(p.fns[g].params) <=> g = f
  /\ EnteredByName(p, f)

FunctionParameter(p, f, v) ==
  \E x \in DOMAIN p.values :
    IsParameter(p, f, v, x) /\ \A a \in BoundArguments(p, f, x) : OneFunction(p, a)

(***************************************************************************)
(* In f, the value v is the captured variable x.                           *)
(***************************************************************************)
IsCaptured(p, f, v, x) ==
  /\ Leaves(p, v, Variables) = {x}
  /\ Leaves(p, v, Chain) = {x}
  /\ p.values[x].kind = "freevar"
  /\ \A g \in DOMAIN p.fns : x \in Elements(p.fns[g].freeVars) <=> g = f

\* What x is bound to where g makes the closure f.
Captures(p, g, f, x) ==
  UNION {{p.values[i.closure].bindings[k] : k \in {j \in DOMAIN p.fns[f].freeVars :
                                                     p.fns[f].freeVars[j] = x}} :
           i \in {j \in Instrs(p, g) : j.op = "makeclosure" /\ p.values[j.closure].fn = f}}

CapturedFunction(p, f, v) ==
  \E x \in DOMAIN p.values :
    /\ IsCaptured(p, f, v, x)
    /\ \A g \in DOMAIN p.fns : \A b \in Captures(p, g, f, x) :
         OneFunction(p, b) \/ FunctionParameter(p, g, b)

(***************************************************************************)
(* The value v is read from a field, and no field of another struct has    *)
(* its index and type.                                                     *)
(***************************************************************************)
FieldStores(p, g) ==
  {i \in Instrs(p, g) : i.op = "store" /\ p.values[i.addr].kind = "fieldaddr"}

IsField(p, v) ==
  /\ p.values[v].kind = "load"
  /\ LET addr == p.values[p.values[v].x] IN
       /\ addr.kind = "fieldaddr"
       /\ \A g \in DOMAIN p.fns : \A i \in FieldStores(p, g) :
            p.values[i.addr].field = addr.field =>
              (p.values[i.addr].type = addr.type <=> p.values[i.addr].struct = addr.struct)

\* What g stores into the field v is read from.
Stored(p, g, v) ==
  LET addr == p.values[p.values[v].x] IN
    {i.val : i \in {j \in FieldStores(p, g) : /\ p.values[j.addr].struct = addr.struct
                                              /\ p.values[j.addr].field = addr.field}}

FieldFunction(p, v) ==
  /\ IsField(p, v)
  /\ \A g \in DOMAIN p.fns : \A b \in Stored(p, g, v) :
       OneFunction(p, b) \/ FunctionParameter(p, g, b)

TracedFunction(p, f, v) ==
  \/ OneFunction(p, v)
  \/ FunctionParameter(p, f, v)
  \/ CapturedFunction(p, f, v)
  \/ FieldFunction(p, v)

-----------------------------------------------------------------------------
(***************************************************************************)
(* Interface values, on which the method name is called.  They are made    *)
(* from values whose own type has the method, and reach the call by        *)
(* conversions, loads and the results of calls that name their callee.     *)
(***************************************************************************)
TypeSources(p, v) ==
  ReachedFrom(p, v, [w \in DOMAIN p.values |-> TypesBehind(p, w)])

MethodsNamed(p, t, name) == {m.fn : m \in {x \in p.methods : x.name = name /\ x.type = t}}

Boxed(p, v, name) ==
  \A x \in TypeSources(p, v) :
    LET w == p.values[x] IN
      \/ w.kind \in Chain
      \/ w.kind = "call" /\ StaticCallee(p, w) # None /\ w.value \in DOMAIN p.values
      \/ /\ w.kind = "makeinterface"
         /\ LET t == p.values[w.of].type IN
              resolveMethodTargetsForType(p, t, name) = MethodsNamed(p, t, name)

InterfaceParameter(p, f, v, name) ==
  \E x \in DOMAIN p.values :
    IsParameter(p, f, v, x) /\ \A a \in BoundArguments(p, f, x) : Boxed(p, a, name)

InterfaceField(p, v, name) ==
  /\ IsField(p, v)
  /\ \A g \in DOMAIN p.fns : \A b \in Stored(p, g, v) : InterfaceParameter(p, g, b, name)

\* The static types the value passes through have no methods of their own.
NoOtherTypes(p, v, name) == \A t \in resolveConcreteTypesFromValue(p, v) :
                              resolveMethodTargetsForType(p, t, name) = {}

TracedInterface(p, f, v, name) ==
  \/ Boxed(p, v, name)
  \/ /\ NoOtherTypes(p, v, name)
     /\ InterfaceParameter(p, f, v, name) \/ InterfaceField(p, v, name)

-----------------------------------------------------------------------------
(***************************************************************************)
(* The analyzer can trace every call of the package.                       *)
(***************************************************************************)
Traced(p, f, c) ==
  IF c.method = None
  THEN TracedFunction(p, f, c.value)
  ELSE TracedInterface(p, f, c.value, c.method)

Traceable(p) ==
  /\ WellFormed(p)
  /\ AllCollected(p)
  /\ \A f \in DOMAIN p.fns : \A c \in Instrs(p, f) :
       /\ c.op = "call" /\ StaticCallee(p, c) = None => Traced(p, f, c)
       /\ c.op = "defer" => c.method = None /\ OneFunction(p, c.value)

==============================================================================
