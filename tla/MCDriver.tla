------------------------------ MODULE MCDriver ------------------------------
(***************************************************************************)
(* Runs over two packages: a has two types with methods that share names   *)
(* with a plain function and with each other, and a field with the name of *)
(* a guarded variable; b calls into a.  The target of get's annotation and *)
(* the import path of a vary.                                              *)
(***************************************************************************)
EXTENDS Driver

Type(name) == [name |-> name, ptr |-> FALSE]
Pointer(name) == [name |-> name, ptr |-> TRUE]

Member(name, type, anonymous) == [name |-> name, type |-> type, anonymous |-> anonymous]

Types ==
  "Mutex" :> [pkg |-> "sync", name |-> "Mutex", fields |-> <<>>]
    @@ "int" :> [pkg |-> "universe", name |-> "int", fields |-> <<>>]
    @@ "a.Cache" :> [pkg |-> "a", name |-> "Cache",
                     fields |-> <<Member("mu", Type("Mutex"), FALSE),
                                  Member("items", Type("int"), FALSE),
                                  Member("stats", Pointer("a.Stats"), FALSE)>>]
    @@ "a.Stats" :> [pkg |-> "a", name |-> "Stats",
                     fields |-> <<Member("mu", Type("Mutex"), FALSE),
                                  Member("Mutex", Type("Mutex"), TRUE),
                                  Member("table", Type("int"), FALSE),
                                  Member("items", Type("int"), FALSE)>>]
    @@ "b.Store" :> [pkg |-> "b", name |-> "Store",
                     fields |-> <<Member("cache", Pointer("a.Cache"), FALSE),
                                  Member("n", Type("int"), FALSE)>>]

CacheMu  == Field("a.Cache", "mu")
Embedded == Field("a.Stats", "Mutex")
TableMu  == Global("a", "tableMu")
Lock     == Global("b", "mu")

VarTypes ==
  CacheMu :> Type("Mutex") @@ Embedded :> Type("Mutex") @@ TableMu :> Type("Mutex")
    @@ Lock :> Type("Mutex") @@ Field("a.Cache", "stats") :> Pointer("a.Stats")
    @@ Param("get", "c") :> Pointer("a.Cache") @@ Param("Get", "c") :> Pointer("a.Cache")
    @@ Param("Stats.get", "s") :> Pointer("a.Stats")

Members ==
  "a" :> ("tableMu" :> TableMu @@ "table" :> Global("a", "table")
            @@ "Cache" :> <<"type", "a", "Cache">> @@ "get" :> <<"func", "a", "get">>)
    @@ "b" :> ("mu" :> Lock @@ "Store" :> <<"type", "b", "Store">>)

-----------------------------------------------------------------------------
Ann(name, params) == [name |-> name, params |-> params]

FuncDecl(fn, name, recv, pos, doc) ==
  [kind |-> "func", fn |-> fn, name |-> name, recv |-> recv, pos |-> pos, doc |-> doc]

FieldDecl(name, pos, doc) == [name |-> name, pos |-> pos, doc |-> doc]

(***************************************************************************)
(* The declarations, with the annotation of the method get of Cache.       *)
(***************************************************************************)
FilesA(getDoc) ==
  <<[kind |-> "type", name |-> "Cache",
     fields |-> <<FieldDecl("mu", 101, <<>>),
                  FieldDecl("items", 102, <<Ann("guarded_by", <<<<"tableMu">>, <<"mu">>>>)>>)>>],
    [kind |-> "type", name |-> "Stats",
     fields |-> <<FieldDecl("table", 110, <<>>),
                  FieldDecl("items", 103, <<Ann("guarded_by", <<<<"Mutex">>>>)>>)>>],
    [kind |-> "var", names |-> {"table"}, pos |-> 104,
     doc |-> <<Ann("guarded_by", <<<<"tableMu">>>>), Ann("guardedby", <<<<"mu">>>>)>>],
    FuncDecl("flush", "flush", None, 105, <<Ann("requires", <<<<"tableMu">>>>)>>),
    FuncDecl("Cache.get", "get", Pointer("a.Cache"), 106, getDoc),
    FuncDecl("Cache.Get", "Get", Pointer("a.Cache"), 107, <<>>),
    FuncDecl("Stats.get", "get", Pointer("a.Stats"), 108, <<Ann("acquires", <<<<"s", "mu">>>>)>>),
    FuncDecl("Stats.flush", "flush", Type("a.Stats"), 109, <<Ann("requires", <<<<"none", "mu">>>>)>>)>>

FilesB ==
  <<[kind |-> "type", name |-> "Store",
     fields |-> <<FieldDecl("n", 111, <<Ann("guarded_by", <<<<"mu">>>>)>>)>>],
    FuncDecl("Store.Put", "Put", Pointer("b.Store"), 112, <<Ann("requires", <<<<"mu">>>>)>>)>>

-----------------------------------------------------------------------------
Arg(type, object) == [type |-> type, object |-> object]

CallSite(pos, callee, args, held) ==
  [op |-> "call", pos |-> pos, callee |-> callee, args |-> args, held |-> held]

Access(pos, object, owner, held) ==
  [op |-> "access", pos |-> pos, object |-> object, owner |-> owner, isField |-> owner # None, held |-> held]

Usage(pos, locks, unlocks) == [pos |-> pos, locks |-> locks, unlocks |-> unlocks]

Fn(pkg, name, recv, pos, params, sites, evidence) ==
  [pkg |-> pkg, name |-> name, recv |-> recv, pos |-> pos, params |-> params, values |-> {},
   hasBody |-> TRUE, synthetic |-> FALSE, anons |-> <<>>, evidence |-> evidence,
   orders |-> [always |-> <<>>, strict |-> <<>>], sites |-> sites]

Named1(name, type) == <<[name |-> name, type |-> type]>>

Fns ==
  "Cache.get" :>
     [Fn("a", "get", Pointer("a.Cache"), 206, Named1("c", Pointer("a.Cache")),
         <<Access(1, Field("a.Cache", "items"), Pointer("a.Cache"), {})>>, <<>>)
      EXCEPT !.values = {Pointer("a.Stats"), Type("int")}]
    @@ "Cache.Get" :>
     Fn("a", "Get", Pointer("a.Cache"), 207, Named1("c", Pointer("a.Cache")),
        <<CallSite(2, "Cache.get", <<Arg(Pointer("a.Cache"), Param("Cache.Get", "c"))>>, {CacheMu, TableMu}),
          CallSite(3, "Cache.get", <<Arg(Pointer("a.Cache"), Param("Cache.Get", "c"))>>, {Embedded})>>,
        CacheMu :> Usage(4, TRUE, TRUE) @@ Embedded :> Usage(17, TRUE, TRUE) @@ TableMu :> Usage(0, FALSE, TRUE))
    @@ "flush" :>
     Fn("a", "flush", None, 205, Named1("n", Type("int")),
        <<Access(5, Global("a", "table"), None, {})>>, <<>>)
    @@ "Stats.get" :>
     Fn("a", "get", Pointer("a.Stats"), 208, Named1("s", Pointer("a.Stats")),
        <<Access(6, Field("a.Stats", "items"), Pointer("a.Stats"), {}),
          Access(16, Field("a.Stats", "table"), Pointer("a.Stats"), {})>>,
        Embedded :> Usage(7, FALSE, TRUE))
    @@ "Stats.flush" :>
     Fn("a", "flush", Type("a.Stats"), 209, Named1("s", Type("a.Stats")),
        <<CallSite(8, "Stats.get", <<Arg(Pointer("a.Stats"), None)>>, {Field("a.Stats", "mu")})>>, <<>>)
    @@ "init" :>
     [Fn("a", "init", None, 0, <<>>, <<Access(0, Global("a", "table"), None, {})>>, <<>>)
      EXCEPT !.synthetic = TRUE]
    @@ "Store.Put" :>
     [Fn("b", "Put", Pointer("b.Store"), 212, Named1("s", Pointer("b.Store")),
         <<CallSite(9, "Cache.get", <<Arg(Pointer("a.Cache"), Field("b.Store", "cache"))>>, {}),
           CallSite(10, "ext.get", <<>>, {})>>, <<>>)
      EXCEPT !.anons = <<"Put$1">>,
             !.orders.always = <<Finding(11, "inversion", "", <<>>, <<>>)>>,
             !.orders.strict = <<Finding(12, "inversion", "", <<>>, <<>>)>>]
    @@ "Put$1" :>
     Fn("b", "Put$1", None, 213, <<>>,
        <<Access(13, Field("b.Store", "n"), Pointer("b.Store"), {}),
          Access(14, Field("b.Store", "n"), Pointer("b.Store"), {Lock})>>, <<>>)
    @@ "ext.get" :> [Fn("sync", "get", None, 300, <<>>, <<>>, <<>>) EXCEPT !.hasBody = FALSE]

\* Two packages with a cache, or one with the statistics and no Get.
Analysed == "cache" :> {"Cache.get", "Cache.Get"} @@ "stats" :> {"flush", "Cache.get", "Stats.get", "Stats.flush", "init"}

Program(kind, getTarget, pathOfA) ==
  [types |-> Types, varTypes |-> VarTypes, members |-> Members @@ ("sync" :> <<>>), fns |-> Fns,
   paths |-> "a" :> pathOfA @@ "b" :> <<"b">> @@ "sync" :> <<"sync">> @@ "universe" :> <<>>,
   files |-> "a" :> SelectSeq(FilesA(<<Ann("requires", <<getTarget>>)>>),
                              LAMBDA d : d.kind = "func" => d.fn \in Analysed[kind])
               @@ "b" :> FilesB,
   declared |-> "a" :> Analysed[kind] @@ "b" :> {"Store.Put"},
   packageWide |-> "a" :> <<>>
                     @@ "b" :> <<Finding(12, "inversion", "", <<>>, <<>>), Finding(15, "inversion", "", <<>>, <<>>)>>]

Input(program, front, loaded, flags) ==
  [prog |-> program, front |-> front, loaded |-> loaded,
   lenient |-> "l" \in flags, strict |-> "s" \in flags, ignore |-> "i" \in flags]

One == <<"a">>
Nested == <<"x", "a">>

GetTargets ==
  <<<<"c", "mu">>, <<"Cache", "mu">>, <<"s", "mu">>, <<"info", "stats">>, <<"stats", "mu">>,
    <<"tableMu">>, <<"none">>>>

AllPrograms ==
  [<<kind, k, path>> \in {"cache", "stats"} \X (DOMAIN GetTargets) \X {"one", "nested"} |->
     Program(kind, GetTargets[k], IF path = "one" THEN One ELSE Nested)]

Runs ==
  {Input(<<"cache", k, path>>, "cli", <<"a", "b">>, {}) :
     k \in DOMAIN GetTargets, path \in {"one", "nested"}}
    \cup {Input(<<"stats", 1, path>>, "cli", loaded, flags) :
            path \in {"one", "nested"}, loaded \in {<<"a">>, <<"a", "a">>}, flags \in {{}, {"i"}}}
    \cup {Input(<<"cache", 1, "one">>, "cli", <<"a", "b">>, flags) : flags \in {{"l"}, {"l", "s"}}}
    \cup {Input(<<"cache", 1, "one">>, "vet", <<pkg>>, flags) :
            pkg \in {"a", "b"}, flags \in {{}, {"s"}, {"l", "s"}}}
    \cup {Input(<<"stats", 1, "one">>, "vet", <<"a">>, {})}

-----------------------------------------------------------------------------
(***************************************************************************)
(* An order of diagnostics: position, then message.                        *)
(***************************************************************************)
Words == <<"", "call needs lock", "call takes held lock", "access needs lock", "not checkable",
           "local root", "likely missing", "inversion", "requires", "acquires", "guarded_by">>

Rank(word) == CHOOSE k \in DOMAIN Words : Words[k] = word

Precedes(d, e) ==
  \/ d.pos < e.pos
  \/ d.pos = e.pos /\ Rank(d.message.what) < Rank(e.message.what)
  \/ d.pos = e.pos /\ d.message.what = e.message.what /\ Rank(d.message.kind) < Rank(e.message.kind)

=============================================================================
