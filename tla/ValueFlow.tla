------------------------------ MODULE ValueFlow ------------------------------
(***************************************************************************)
(* What the values of a program (DynamicDispatch) can be when it runs: the *)
(* semantics of Go the resolution of dynamic calls is judged against, not  *)
(* code of the repository.  Every store, argument, binding and result may  *)
(* flow to every place that reads it, whatever the order of execution.     *)
(* An object is <<"fn", function>> or <<"type", dynamic type>>; den is a   *)
(* set of pairs of a value and an object it may be.                        *)
(***************************************************************************)
EXTENDS DynamicDispatch

AllInstrs(p) == UNION {Instrs(p, f) : f \in DOMAIN p.fns}

CallLike(p) == {i \in AllInstrs(p) : i.op \in {"call", "go", "defer"}}

Literal(p, v) ==
  LET w == p.values[v] IN
    CASE w.kind \in {"function", "closure"} -> {<<"fn", w.fn>>}
      [] w.kind = "makeinterface"           -> {<<"type", p.values[w.of].type>>}
      [] OTHER                              -> {}

Of(den, v) == {d[2] : d \in {x \in den : x[1] = v}}

(***************************************************************************)
(* The functions a call reaches, given what every value may be.            *)
(***************************************************************************)
CalleesGiven(p, den, c) ==
  IF c.method = None
  THEN {o[2] : o \in {x \in Of(den, c.value) : x[1] = "fn"}}
  ELSE {m.fn : m \in {x \in p.methods : x.name = c.method /\ <<"type", x.type>> \in Of(den, c.value)}}

(***************************************************************************)
(* The values that flow directly into v.                                   *)
(***************************************************************************)
Sources(p, den, v) ==
  LET w == p.values[v] IN
    CASE w.kind \in {"convert", "load", "index"} -> {w.x}
      [] w.kind = "alloc"     -> Elements(w.stores)
      [] w.kind = "fieldaddr" ->
           {i.val : i \in {j \in AllInstrs(p) :
                             /\ j.op = "store"
                             /\ p.values[j.addr].kind = "fieldaddr"
                             /\ p.values[j.addr].struct = w.struct
                             /\ p.values[j.addr].field = w.field}}
      [] w.kind = "param" ->
           UNION {UNION {{i.args[k] : k \in {j \in DOMAIN p.fns[f].params \cap DOMAIN i.args :
                                               p.fns[f].params[j] = v}} :
                           f \in CalleesGiven(p, den, i) \cap DOMAIN p.fns} :
                    i \in CallLike(p)}
      [] w.kind = "freevar" ->
           UNION {LET closure == p.values[i.closure] IN
                    {closure.bindings[k] : k \in {j \in DOMAIN p.fns[closure.fn].freeVars :
                                                    p.fns[closure.fn].freeVars[j] = v}} :
                    i \in {j \in AllInstrs(p) : j.op = "makeclosure"}}
      [] w.kind = "call" ->
           UNION {Elements(i.results) :
             i \in {j \in UNION {Instrs(p, f) : f \in CalleesGiven(p, den, w) \cap DOMAIN p.fns} :
                      j.op = "return"}}
      [] OTHER -> {}

\* What the values are by themselves, and by one more step of flow.
Literals(p) == UNION {{v} \X Literal(p, v) : v \in DOMAIN p.values}

Flow(p, den) ==
  den \cup UNION {{v} \X UNION {Of(den, w) : w \in Sources(p, den, v)} : v \in DOMAIN p.values}

(***************************************************************************)
(* The least solution: the literals, and what flows from them until        *)
(* nothing is added.  The callees of a call grow with den, and so do the   *)
(* places its arguments flow to.                                           *)
(***************************************************************************)
Pairs(p) == (DOMAIN p.values) \X UNION {Literal(p, v) : v \in DOMAIN p.values}

Denotes(p) ==
  LET grown[den \in SUBSET Pairs(p)] ==
        IF Flow(p, den) = den THEN den ELSE grown[Flow(p, den)]
  IN  grown[Literals(p)]

(***************************************************************************)
(* The functions a run entering one of the given functions can call, by    *)
(* call statements (deferred calls and new goroutines aside).              *)
(***************************************************************************)
CalledFrom(p, den, fns) ==
  LET within[n \in 0..Cardinality(DOMAIN p.fns)] ==
        IF n = 0
        THEN fns
        ELSE LET fewer == within[n - 1] IN
               fewer \cup
                 UNION {UNION {CalleesGiven(p, den, i) :
                                 i \in {j \in Instrs(p, f) : j.op = "call"}} :
                          f \in fewer \cap DOMAIN p.fns}
  IN  within[Cardinality(DOMAIN p.fns)] \cap DOMAIN p.fns

==============================================================================
