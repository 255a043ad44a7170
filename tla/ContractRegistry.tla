-------------------------- MODULE ContractRegistry --------------------------
(***************************************************************************)
(* The annotations of a program and how a function or a guarded address    *)
(* finds its own again: ir/contracts.go, parse, analyzer/contracts_lookup  *)
(* and the lookups of analyzer/guard_checks.                               *)
(*                                                                         *)
(* Besides what ObjectResolution lists, a program p has                    *)
(*   paths : the import path of each package, cut at every character that  *)
(*           NormalizeTypeName does not take for a part of a name          *)
(*   files : the declarations of each package in the order of the source,  *)
(*           records with a field kind: func (name, recv, pos, doc), var   *)
(*           (names, pos, doc) and type (name, fields, where a field is a  *)
(*           record of name, pos and doc)                                  *)
(*   fns   : with the further fields recv and pos                          *)
(* A doc is the sequence of its annotations, records of name and params,   *)
(* where a parameter is a target.  recv is a type or None.  The pos of a   *)
(* declared function is that of its keyword, the pos of a function of p is *)
(* that of its name.                                                       *)
(***************************************************************************)
EXTENDS ObjectResolution, SequencesExt

AnnotationKinds == {"requires", "acquires", "returns", "guarded_by"}

-----------------------------------------------------------------------------
(***************************************************************************)
(* A type is written [ptr, path, name]; every dotted word of it loses all  *)
(* but its last part, so the package goes and the directories above stay.  *)
(***************************************************************************)
NormalizeTypeName(written) ==
  [written EXCEPT !.path = IF @ = <<>> THEN <<>> ELSE Front(@)]

MakeFunctionKey(name, receiverType) == [name |-> name, recv |-> receiverType]

\* A type as its declaration writes it (ExprString), and as go/types does.
Expr(p, t)   == [ptr |-> t.ptr, path |-> <<>>, name |-> p.types[t.name].name]
String(p, t) == [Expr(p, t) EXCEPT !.path = p.paths[p.types[t.name].pkg]]

-----------------------------------------------------------------------------
(***************************************************************************)
(* The targets of a doc's annotations of a kind, in the order they are     *)
(* written; a comment with an unknown annotation is of no kind.            *)
(***************************************************************************)
ParseAnnotation(doc, kind) ==
  FlattenSeq([k \in DOMAIN doc |-> IF doc[k].name = kind THEN doc[k].params ELSE <<>>])

handleFuncDecl(decl) ==
  [pos |-> decl.pos,
   expectations |-> [kind \in AnnotationKinds |-> ParseAnnotation(decl.doc, kind)]]

\* Go's assignment of a value to some keys of a map.
Assign(map, keys, value) ==
  [k \in DOMAIN map \cup keys |-> IF k \in keys THEN value ELSE map[k]]

\* Slip: the first parameter counts.
RegisterFirstParam(data, doc, names, prefix, pos) ==
  LET mutexes == ParseAnnotation(doc, "guarded_by")
  IN  IF mutexes = <<>>
      THEN data
      ELSE Assign(data, {<<prefix, name>> : name \in names}, [mutex |-> Head(mutexes), pos |-> pos])

(***************************************************************************)
(* A guard is one mutex: the last parameter of the last @guarded_by.       *)
(***************************************************************************)
registerDataInvariants(data, doc, names, prefix, pos) ==
  LET mutexes == ParseAnnotation(doc, "guarded_by")
  IN  IF mutexes = <<>>
      THEN data
      ELSE Assign(data, {<<prefix, name>> : name \in names}, [mutex |-> Last(mutexes), pos |-> pos])

handleTypeSpecs(data, decl) ==
  LET after[n \in 0..Len(decl.fields)] ==
        IF n = 0
        THEN data
        ELSE LET field == decl.fields[n] IN
               registerDataInvariants(after[n - 1], field.doc, {field.name}, decl.name, field.pos)
  IN  after[Len(decl.fields)]

DeclKey(p, decl) ==
  MakeFunctionKey(decl.name, IF decl.recv = None THEN None ELSE Expr(p, decl.recv))

PlainKey(decl) == MakeFunctionKey(decl.name, None)

\* Slip: the plain name is always taken.
VisitOverAlias(registry, p, decl) ==
  LET contract == handleFuncDecl(decl)
  IN  [registry EXCEPT !.functions = Assign(@, {DeclKey(p, decl), PlainKey(decl)}, contract),
                       !.byPos     = Assign(@, {decl.pos}, contract)]

(***************************************************************************)
(* A declared function enters under its key, over an earlier one, and      *)
(* under its plain name if that is free.                                   *)
(***************************************************************************)
VisitFunc(registry, p, decl) ==
  LET contract == handleFuncDecl(decl)
      keys == {DeclKey(p, decl)} \cup ({PlainKey(decl)} \ DOMAIN registry.functions)
  IN  [registry EXCEPT !.functions = Assign(@, keys, contract),
                       !.byPos     = Assign(@, {decl.pos}, contract)]

VisitDecl(registry, p, decl) ==
  CASE decl.kind = "func" -> VisitFunc(registry, p, decl)
    [] decl.kind = "var"  ->
         [registry EXCEPT !.data = registerDataInvariants(@, decl.doc, decl.names, "", decl.pos)]
    [] decl.kind = "type" -> [registry EXCEPT !.data = handleTypeSpecs(@, decl)]

NewContractRegistry == [functions |-> <<>>, byPos |-> <<>>, data |-> <<>>]

(***************************************************************************)
(* The registry that the declarations of some files give, in their order.  *)
(***************************************************************************)
PopulateRegistryFromFiles(p, decls) ==
  LET after[n \in 0..Len(decls)] ==
        IF n = 0 THEN NewContractRegistry ELSE VisitDecl(after[n - 1], p, decls[n])
  IN  after[Len(decls)]

-----------------------------------------------------------------------------
receiverTypeName(p, fn) ==
  IF p.fns[fn].recv = None THEN None ELSE NormalizeTypeName(String(p, p.fns[fn].recv))

expectationResolvableScore(p, fn, contract) ==
  LET Score(kind) ==
        Cardinality({k \in DOMAIN contract.expectations[kind] :
                       resolveObjectInScope(p, fn, contract.expectations[kind][k]) # None})
  IN  Score("requires") + Score("acquires") + Score("returns")

(***************************************************************************)
(* Of the contracts registered for some function of the same name the ones *)
(* with most targets that resolve in fn, of which the order of a map picks *)
(* one; None if no target of any resolves.                                 *)
(***************************************************************************)
bestResolvableSameNameContract(p, fn, registry) ==
  LET sameName == {registry.functions[key] :
                     key \in {k \in DOMAIN registry.functions : k.name = p.fns[fn].name}}
      score == [c \in sameName \cup {None} |->
                  IF c = None THEN 0 ELSE expectationResolvableScore(p, fn, c)]
  IN  {c \in DOMAIN score : /\ c = None \/ score[c] > 0
                            /\ \A d \in sameName : score[d] <= score[c]}

(***************************************************************************)
(* The contract of a function in any order of the registry's maps.  The    *)
(* position of a function is never that of a declaration.  A function      *)
(* without a receiver is tried as a method of its first parameter's type.  *)
(***************************************************************************)
contractForFunction(p, fn, registry) ==
  LET At(f, key) == IF key \in DOMAIN f THEN f[key] ELSE None
      name   == p.fns[fn].name
      params == p.fns[fn].params
      recv   == CASE p.fns[fn].recv # None -> receiverTypeName(p, fn)
                  [] p.fns[fn].recv = None /\ params # <<>> ->
                       NormalizeTypeName(String(p, params[1].type))
                  [] OTHER -> None
      asMethod == IF recv = None
                  THEN None
                  ELSE FirstFound(<<At(registry.functions, MakeFunctionKey(name, recv)),
                                    At(registry.functions,
                                       MakeFunctionKey(name, [recv EXCEPT !.ptr = ~@]))>>)
  IN  {FirstFound(<<At(registry.byPos, p.fns[fn].pos), asMethod, best,
                    At(registry.functions, MakeFunctionKey(name, None))>>) :
         best \in bestResolvableSameNameContract(p, fn, registry)}

-----------------------------------------------------------------------------
(***************************************************************************)
(* An access is a record of the object of its address, owner (the type of  *)
(* the value the field belongs to, or None) and isField (whether the       *)
(* address is the field itself and not an element of it).                  *)
(***************************************************************************)
ownerTypeNameForAddress(p, access) ==
  IF access.owner = None THEN "" ELSE p.types[access.owner.name].name

dataInvariantForAddress(p, registry, access) ==
  LET At(key) == IF key \in DOMAIN registry.data THEN registry.data[key] ELSE None
      owner   == ownerTypeNameForAddress(p, access)
  IN  CASE access.object = None -> None
        [] access.object # None /\ owner # "" ->
             FirstFound(<<At(<<owner, access.object[3]>>), At(<<"", access.object[3]>>)>>)
        [] OTHER -> At(<<"", access.object[3]>>)

resolveGuardLockObject(p, fn, access, mutexName) ==
  CASE mutexName = <<>> -> None
    [] mutexName # <<>> /\ access.isField ->
         FirstFound(<<resolveNestedField(p, access.owner, mutexName),
                      resolveObjectInScope(p, fn, mutexName)>>)
    [] OTHER -> resolveObjectInScope(p, fn, mutexName)

=============================================================================
