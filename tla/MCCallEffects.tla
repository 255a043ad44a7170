---------------------------- MODULE MCCallEffects ----------------------------
(***************************************************************************)
(* Packages in which root calls t1 or t2 in every way the analyzer         *)
(* resolves: directly, through a variable, a parameter, a captured         *)
(* variable, a field, an interface or the result of a call.                *)
(***************************************************************************)
EXTENDS CallEffects, TracedCalls, TLC

Type(name, ptr) == [name |-> name, ptr |-> ptr]

FuncType == Type("func", FALSE)

Value(kind) == [kind |-> kind, type |-> FuncType]

FunctionValue(f) == [kind |-> "function", fn |-> f, type |-> FuncType]

Via(kind, v) == [kind |-> kind, x |-> v, type |-> FuncType]

Variable(stores) == [kind |-> "alloc", stores |-> stores, type |-> FuncType]

Field(struct, field) ==
  [kind |-> "fieldaddr", struct |-> struct, field |-> field, type |-> FuncType]

CallOf(op, v, args) == [op |-> op, value |-> v, method |-> None, args |-> args]

Invoke(v) == [op |-> "call", value |-> v, method |-> "Do", args |-> <<>>]

Store(addr, v) == [op |-> "store", addr |-> addr, val |-> v]

Lock(v) == CallOf("call", "Lock", <<v>>)
Unlock(v) == CallOf("call", "Unlock", <<v>>)
DeferUnlock(v) == CallOf("defer", "Unlock", <<v>>)

Call(v) == CallOf("call", v, <<>>)
CallHelp(v) == CallOf("call", "help", <<v>>)
Make(v) == [op |-> "makeclosure", closure |-> v]
Return(v) == [op |-> "return", results |-> <<v>>]

Values ==
  "Lock" :> FunctionValue("(*sync.Mutex).Lock") @@ "Unlock" :> FunctionValue("(*sync.Mutex).Unlock")
    @@ "root" :> FunctionValue("root") @@ "help" :> FunctionValue("help")
    @@ "t1" :> FunctionValue("t1") @@ "t2" :> FunctionValue("t2")
    @@ "m1" :> Field("S", "a") @@ "m2" :> Value("global")
    @@ "lm2" :> Via("load", "m2") @@ "elem" :> Via("index", "m2")
    @@ "var" :> Variable(<<"var2", "conv">>) @@ "lvar" :> Via("load", "var")
    @@ "var2" :> Variable(<<"lvar">>) @@ "conv" :> Via("convert", "t1")
    @@ "f" :> Value("param") @@ "fvar" :> Variable(<<"f">>) @@ "lf" :> Via("load", "fvar")
    @@ "captured" :> Value("freevar") @@ "lcap" :> Via("load", "captured")
    @@ "closure" :> [kind |-> "closure", fn |-> "lit", bindings |-> <<"var">>, type |-> FuncType]
    @@ "nested" :> [kind |-> "closure", fn |-> "lit", bindings |-> <<"fvar">>, type |-> FuncType]
    @@ "setter" :> Field("R", "run") @@ "getter" :> Field("R", "run") @@ "lget" :> Via("load", "getter")
    @@ "w" :> [kind |-> "other", type |-> Type("W", FALSE)]
    @@ "pz" :> [kind |-> "other", type |-> Type("Z", TRUE)]
    @@ "iw" :> [kind |-> "makeinterface", of |-> "w", type |-> Type("Doer", FALSE)]
    @@ "iz" :> [kind |-> "makeinterface", of |-> "pz", type |-> Type("Doer", FALSE)]
    @@ "made" :> [kind |-> "call", value |-> "help", method |-> None, args |-> <<>>,
                  type |-> Type("Doer", FALSE)]

Methods ==
  {[type |-> Type("W", FALSE), name |-> "Do", fn |-> "t1"],
   [type |-> Type("W", TRUE), name |-> "Do", fn |-> "t1"],
   [type |-> Type("Z", TRUE), name |-> "Do", fn |-> "t2"]}

Fn(params, freeVars, anons, declared, body) ==
  [params |-> params, freeVars |-> freeVars, anons |-> anons, declared |-> declared, body |-> body]

Package(root, help, lit, t1, t2) ==
  [values  |-> Values,
   methods |-> Methods,
   fns     |-> "root" :> Fn(<<>>, <<>>, {"lit"}, TRUE, root)
                 @@ "help" :> Fn(<<"f">>, <<>>, {}, TRUE, help)
                 @@ "lit" :> Fn(<<>>, <<"captured">>, {}, FALSE, lit)
                 @@ "t1" :> Fn(<<>>, <<>>, {}, TRUE, t1)
                 @@ "t2" :> Fn(<<>>, <<>>, {}, TRUE, t2)]

(***************************************************************************)
(* Bodies of root, help and the function literal.                          *)
(***************************************************************************)
Ways ==
  {<< <<Call("t1"), Call("t2")>>, <<>>, <<>> >>,
   << <<Call("lvar")>>, <<>>, <<>> >>,
   << <<CallHelp("t1")>>, <<Call("f")>>, <<>> >>,
   << <<CallHelp("lvar"), CallOf("go", "help", <<"t2">>)>>, <<Call("lf")>>, <<>> >>,
   << <<Make("closure"), Call("closure")>>, <<>>, <<Call("lcap")>> >>,
   << <<Make("closure"), CallOf("defer", "closure", <<>>)>>, <<>>, <<Call("lcap")>> >>,
   << <<CallHelp("t2")>>, <<Make("nested"), Call("nested")>>, <<Call("lcap")>> >>,
   << <<Store("setter", "t1"), Call("help")>>, <<Call("lget")>>, <<>> >>,
   << <<CallHelp("t1"), CallHelp("t2")>>, <<Store("setter", "f"), Call("lget")>>, <<>> >>,
   << <<CallHelp("iz")>>, <<Store("setter", "f"), Invoke("lget")>>, <<>> >>,
   << <<CallHelp("iw"), CallHelp("iz")>>, <<Invoke("f")>>, <<>> >>,
   << <<Call("help"), Invoke("made")>>, <<Return("iw")>>, <<>> >>,
   << <<Call("help"), Invoke("made")>>, <<Return("iw"), Return("iz")>>, <<>> >>,
   << <<CallOf("defer", "t1", <<>>), CallOf("defer", "lvar", <<>>)>>, <<>>, <<>> >>}

(***************************************************************************)
(* Bodies of the targets, with and without calls back.                     *)
(***************************************************************************)
FirstTargets == {<<Lock("m1"), Unlock("m1")>>, <<Lock("m1"), Lock("w"), DeferUnlock("m1"), Call("root")>>}

SecondTargets == {<<Lock("elem")>>, <<Unlock("lm2"), Call("t1"), Call("t2")>>}

Packages ==
  {Package(way[1], way[2], way[3], t1, t2) :
     way \in Ways, t1 \in FirstTargets, t2 \in SecondTargets}

(***************************************************************************)
(* The packages are among those in which the resolution of calls is proved *)
(* exact.                                                                  *)
(***************************************************************************)
ASSUME PackagesTraceable == \A p \in Packages : Traceable(p)

==============================================================================
