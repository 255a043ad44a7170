--------------------------- MODULE DynamicDispatch ---------------------------
(***************************************************************************)
(* Which functions a call may reach: analyzer/dynamic_dispatch_resolution, *)
(* with the recognition of mutex operations (analyzer/lock_detection.go)   *)
(* and of the object they work on.                                         *)
(*                                                                         *)
(* A program p has                                                         *)
(*   values  : SSA values by name, records with a field kind:              *)
(*               function, closure (fn, bindings), convert and load (x),   *)
(*               index (x), alloc (stores, in the order of the referrers), *)
(*               fieldaddr (struct, field), call (value, method),          *)
(*               makeinterface (of), param, freevar, global, other;        *)
(*               every value has its static type                           *)
(*   fns     : functions by name, records of params and freeVars (value    *)
(*             names), anons (the functions declared inside), declared     *)
(*             (a member of the package or a method of one of its types)   *)
(*             and body, a sequence of instructions                        *)
(*   methods : the method sets of types, as records of type, name and fn   *)
(* An instruction is a record with a field op: call, go, defer (value,     *)
(* method, args), store (addr, val), makeclosure (closure) or return       *)
(* (results).  A type is a record of name and ptr.                         *)
(***************************************************************************)
EXTENDS Naturals, Sequences, FiniteSets, FiniteSetsExt

CONSTANT None   \* Go's nil

Elements(s) == {s[k] : k \in DOMAIN s}

Instrs(p, f) == Elements(p.fns[f].body)

-----------------------------------------------------------------------------
(***************************************************************************)
(* ssa.CallCommon.StaticCallee: a method call through an interface and a   *)
(* call of a computed value have none.                                     *)
(***************************************************************************)
StaticCallee(p, c) ==
  IF c.method = None /\ p.values[c.value].kind \in {"function", "closure"}
  THEN p.values[c.value].fn
  ELSE None

isLockCall(p, c) ==
  StaticCallee(p, c) \in {"(*sync.Mutex).Lock", "(*sync.RWMutex).Lock", "(*sync.RWMutex).RLock"}

isUnlockCall(p, c) ==
  StaticCallee(p, c) \in
    {"(*sync.Mutex).Unlock", "(*sync.RWMutex).Unlock", "(*sync.RWMutex).RUnlock"}

(***************************************************************************)
(* The object of an address.  A field has one object per struct type: the  *)
(* mutexes of two values of the type are not told apart.                   *)
(***************************************************************************)
resolveValueToObject(p, v) ==
  LET chain[n \in 0..Cardinality(DOMAIN p.values)] ==
        IF n = 0
        THEN v
        ELSE LET behind == chain[n - 1]
                 w == p.values[behind]
             IN  IF w.kind \in {"load", "index"} THEN w.x ELSE behind
      last == chain[Cardinality(DOMAIN p.values)]
      w == p.values[last]
  IN  CASE w.kind = "fieldaddr"            -> <<w.struct, w.field>>
        [] w.kind \in {"param", "global"}  -> <<last>>
        [] OTHER                           -> None

getLockObject(p, c) ==
  IF c.args = <<>> THEN None ELSE resolveValueToObject(p, c.args[1])

-----------------------------------------------------------------------------
(***************************************************************************)
(* The depth-first search all resolve...FromValueSeen functions share: the *)
(* first value of a kind in goals, going through the values Behind one.    *)
(* A value is looked at once (seen).                                       *)
(***************************************************************************)
Behind(p, v, through) ==
  LET w == p.values[v] IN
    CASE w.kind \in through \cap {"convert", "load"} -> <<w.x>>
      [] w.kind \in through \cap {"alloc"}           -> w.stores
      [] OTHER                                       -> <<>>

\* What is left to look at, from the first value not yet looked at.
Unseen(todo, seen) ==
  LET left == {k \in DOMAIN todo : todo[k] \notin seen}
  IN  IF left = {} THEN <<>> ELSE SubSeq(todo, Min(left), Len(todo))

FirstOfKind(p, v, goals, through) ==
  LET walk[n \in 0..Cardinality(DOMAIN p.values)] ==
        IF n = 0
        THEN [todo |-> <<v>>, seen |-> {}]
        ELSE LET w == walk[n - 1]
                 seen == w.seen \cup {Head(w.todo)}
             IN  IF w.todo = <<>> \/ p.values[Head(w.todo)].kind \in goals
                 THEN w
                 ELSE [todo |-> Unseen(Behind(p, Head(w.todo), through) \o Tail(w.todo), seen),
                       seen |-> seen]
      end == walk[Cardinality(DOMAIN p.values)]
  IN  IF end.todo = <<>> THEN None ELSE Head(end.todo)

(***************************************************************************)
(* Of the values stored into a variable only the first that resolves       *)
(* counts; a value that merges two branches (phi) does not resolve.        *)
(***************************************************************************)
resolveFunctionFromValue(p, v) ==
  LET found == FirstOfKind(p, v, {"function", "closure"}, {"convert", "load", "alloc"})
  IN  IF found = None THEN None ELSE p.values[found].fn

resolveParameterFromValue(p, v) == FirstOfKind(p, v, {"param"}, {"convert", "load", "alloc"})

resolveFreeVarFromValue(p, v) == FirstOfKind(p, v, {"freevar"}, {"convert", "load"})

(***************************************************************************)
(* The values reached from v by the steps in next: one step at least per   *)
(* round reaches a value not reached before.                               *)
(***************************************************************************)
ReachedFrom(p, v, next) ==
  LET within[n \in 0..Cardinality(DOMAIN p.values)] ==
        IF n = 0
        THEN {v}
        ELSE LET fewer == within[n - 1] IN
               fewer \cup UNION {next[w] : w \in fewer \cap DOMAIN p.values}
  IN  within[Cardinality(DOMAIN p.values)] \cap DOMAIN p.values

Results(p, f) ==
  IF f \in DOMAIN p.fns
  THEN UNION {Elements(i.results) : i \in {j \in Instrs(p, f) : j.op = "return"}}
  ELSE {}

\* Where the search for the types of a value goes on, and what it finds at one.
TypesBehind(p, v) ==
  LET w == p.values[v] IN
    CASE w.kind \in {"convert", "load"} -> {w.x}
      [] w.kind = "call"               -> Results(p, StaticCallee(p, w))
      [] OTHER                         -> {}

TypesAt(p, v) ==
  LET w == p.values[v] IN
    CASE w.kind = "makeinterface"              -> {p.values[w.of].type}
      [] w.kind \in {"convert", "load", "call"} -> {}
      [] OTHER                                 -> {w.type}

(***************************************************************************)
(* The types an interface value may hold.  The source recurses through     *)
(* calls without a mark, so it does not end for a function that returns    *)
(* its own call; here every value is gone through once.                    *)
(***************************************************************************)
resolveConcreteTypesFromValue(p, v) ==
  UNION {TypesAt(p, w) : w \in ReachedFrom(p, v, [w \in DOMAIN p.values |-> TypesBehind(p, w)])}

(***************************************************************************)
(* The methods of a type and of the pointer to it.                         *)
(***************************************************************************)
resolveMethodTargetsForType(p, t, name) ==
  {m.fn : m \in {x \in p.methods :
                   x.name = name /\ x.type \in {t, [t EXCEPT !.ptr = TRUE]}}}

(***************************************************************************)
(* Members of the package, methods of its types and, transitively, the     *)
(* functions declared inside them; wrappers the compiler adds are not.     *)
(***************************************************************************)
collectPackageFunctions(p) ==
  LET fns[n \in 0..Cardinality(DOMAIN p.fns)] ==
        IF n = 0
        THEN {f \in DOMAIN p.fns : p.fns[f].declared}
        ELSE LET fewer == fns[n - 1] IN fewer \cup UNION {p.fns[f].anons : f \in fewer}
  IN  fns[Cardinality(DOMAIN p.fns)]

-----------------------------------------------------------------------------
Known(targets) == targets \ {None}

\* Slip: go statements are not looked at.
BoundInCallsOnly(p, f, param) ==
  LET Arguments(i) == {i.args[k] : k \in {j \in DOMAIN p.fns[f].params :
                                            p.fns[f].params[j] = param /\ j <= Len(i.args)}}
      bindingCalls == {i \in UNION {Instrs(p, g) : g \in collectPackageFunctions(p)} :
                         i.op = "call" /\ StaticCallee(p, i) = f}
  IN  UNION {Arguments(i) : i \in bindingCalls}

(***************************************************************************)
(* The arguments that f's parameter receives in the package's call and go  *)
(* statements (a defer statement is not looked at).                        *)
(***************************************************************************)
BoundArguments(p, f, param) ==
  LET Arguments(i) == {i.args[k] : k \in {j \in DOMAIN p.fns[f].params :
                                            p.fns[f].params[j] = param /\ j <= Len(i.args)}}
      bindingCalls == {i \in UNION {Instrs(p, g) : g \in collectPackageFunctions(p)} :
                         i.op \in {"call", "go"} /\ StaticCallee(p, i) = f}
  IN  UNION {Arguments(i) : i \in bindingCalls}

resolveParameterBindingTargets(p, f, param) ==
  Known({resolveFunctionFromValue(p, a) : a \in BoundArguments(p, f, param)})

resolveParameterBindingMethodTargets(p, f, param, name) ==
  UNION {resolveMethodTargetsForType(p, t, name) :
           t \in UNION {resolveConcreteTypesFromValue(p, a) : a \in BoundArguments(p, f, param)}}

(***************************************************************************)
(* What a closure's free variable is bound to where the closure is made: a *)
(* function, or a parameter of the maker and so the maker's arguments.     *)
(***************************************************************************)
resolveFreeVarBindingTargets(p, f, freeVar) ==
  LET Bound(i) ==
        LET bindings == p.values[i.closure].bindings
        IN  {bindings[k] : k \in {j \in DOMAIN p.fns[f].freeVars :
                                     p.fns[f].freeVars[j] = freeVar /\ j <= Len(bindings)}}
      Bindings(g) ==
        UNION {Bound(i) : i \in {j \in Instrs(p, g) :
                                   j.op = "makeclosure" /\ p.values[j.closure].fn = f}}
      Targets(g, bound) ==
        Known({resolveFunctionFromValue(p, bound)})
          \cup resolveParameterBindingTargets(p, g, resolveParameterFromValue(p, bound))
  IN  UNION {UNION {Targets(g, bound) : bound \in Bindings(g)} : g \in collectPackageFunctions(p)}

(***************************************************************************)
(* A call of a struct field reaches what is stored into a field with the   *)
(* same index and type, of whatever struct.                                *)
(***************************************************************************)
FieldTargets(p, c) ==
  LET addr == p.values[p.values[c.value].x]
      Stored(g) == {i.val : i \in {j \in Instrs(p, g) :
                                     /\ j.op = "store"
                                     /\ p.values[j.addr].kind = "fieldaddr"
                                     /\ p.values[j.addr].field = addr.field
                                     /\ p.values[j.addr].type = addr.type}}
      Targets(g, val) ==
        LET target == resolveFunctionFromValue(p, val)
            param == resolveParameterFromValue(p, val)
        IN  IF target # None
            THEN {target}
            ELSE resolveParameterBindingTargets(p, g, param)
                   \cup resolveParameterBindingMethodTargets(p, g, param, c.method)
  IN  UNION {UNION {Targets(g, val) : val \in Stored(g)} : g \in collectPackageFunctions(p)}

-----------------------------------------------------------------------------
(***************************************************************************)
(* The targets of a call in function f without a static callee.  A call of *)
(* a function value has no method and so finds none; a value that is no    *)
(* parameter or free variable is bound nowhere.                            *)
(***************************************************************************)
resolveDynamicCallTargets(p, f, c) ==
  LET v == c.value
      param == resolveParameterFromValue(p, v)
      isField == p.values[v].kind = "load" /\ p.values[p.values[v].x].kind = "fieldaddr"
  IN  Known({resolveFunctionFromValue(p, v)})
        \cup resolveParameterBindingTargets(p, f, param)
        \cup resolveParameterBindingMethodTargets(p, f, param, c.method)
        \cup resolveFreeVarBindingTargets(p, f, resolveFreeVarFromValue(p, v))
        \cup (UNION {resolveMethodTargetsForType(p, t, c.method) :
                       t \in resolveConcreteTypesFromValue(p, v)})
        \cup (IF isField THEN FieldTargets(p, c) ELSE {})

==============================================================================
