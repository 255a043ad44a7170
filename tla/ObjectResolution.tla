-------------------------- MODULE ObjectResolution --------------------------
(***************************************************************************)
(* Which object an annotation means: analyzer/object_resolution.           *)
(*                                                                         *)
(* A program p has                                                         *)
(*   types   : named types by a unique name, records of pkg, name (the     *)
(*             name in its package) and fields, a sequence of records of   *)
(*             name, type and anonymous (<<>> for a type that is no        *)
(*             struct)                                                     *)
(*   members : for each package, its members by name: the object of a      *)
(*             global variable, a function or a type                       *)
(*   fns     : functions, records of pkg, name, params (a sequence of      *)
(*             records of name and type) and values (the types of the SSA  *)
(*             values of the body), with the fields the modules that use   *)
(*             this one add                                                *)
(* A type is a record of name (in p.types) and ptr, an object a triple     *)
(* <<kind, scope, name>>, a target the sequence of its dotted parts, and   *)
(* an argument a record of its type and object.                            *)
(***************************************************************************)
EXTENDS Naturals, Sequences

CONSTANT None   \* Go's nil

Param(f, name)  == <<"param", f, name>>
Field(t, name)  == <<"field", t, name>>
Global(g, name) == <<"global", g, name>>

-----------------------------------------------------------------------------
\* The parameters of fn with a name (at most one; "_" is never a target).
Named(p, fn, name) == {k \in DOMAIN p.fns[fn].params : p.fns[fn].params[k].name = name}

findInParams(p, fn, name) ==
  IF Named(p, fn, name) = {} THEN None ELSE Param(fn, name)

(***************************************************************************)
(* Any member of the package counts, a function or a type as well.         *)
(***************************************************************************)
findInPackageGlobals(p, fn, name) ==
  LET members == p.members[p.fns[fn].pkg]
  IN  IF name \in DOMAIN members THEN members[name] ELSE None

getUnderlyingStruct(p, t) == p.types[t.name].fields

(***************************************************************************)
(* The field at the end of a path, through pointers, or None.              *)
(***************************************************************************)
resolveNestedField(p, t, path) ==
  LET at[n \in 0..Len(path)] ==
        IF n = 0
        THEN [type |-> t, found |-> None, ok |-> TRUE]
        ELSE LET before  == at[n - 1]
                 fields  == getUnderlyingStruct(p, before.type)
                 matched == {k \in DOMAIN fields : fields[k].name = path[n]}
             IN  IF before.ok /\ matched # {}
                 THEN LET k == CHOOSE k \in matched : TRUE IN
                        [type  |-> fields[k].type,
                         found |-> Field(before.type.name, path[n]),
                         ok    |-> TRUE]
                 ELSE [before EXCEPT !.found = None, !.ok = FALSE]
  IN  at[Len(path)].found

-----------------------------------------------------------------------------
resolveIdentifier(p, fn, name) ==
  IF findInParams(p, fn, name) # None
  THEN findInParams(p, fn, name)
  ELSE findInPackageGlobals(p, fn, name)

(***************************************************************************)
(* From the parameter the path starts with, or else, with the whole path,  *)
(* from the first parameter: an implicit receiver.                         *)
(***************************************************************************)
resolveMultiAccess(p, fn, parts) ==
  LET params == p.fns[fn].params
      named  == Named(p, fn, parts[1])
  IN  CASE named # {} ->
             resolveNestedField(p, params[CHOOSE k \in named : TRUE].type, Tail(parts))
        [] named = {} /\ params # <<>> -> resolveNestedField(p, params[1].type, parts)
        [] OTHER -> None

resolveValueField(p, arg, path) ==
  IF path = <<>> THEN arg.object ELSE resolveNestedField(p, arg.type, path)

resolveNamedTypeField(p, fn, typeName, path) ==
  LET named == {t \in DOMAIN p.types : p.types[t].pkg = p.fns[fn].pkg /\ p.types[t].name = typeName}
  IN  IF named = {}
      THEN None
      ELSE resolveNestedField(p, [name |-> CHOOSE t \in named : TRUE, ptr |-> FALSE], path)

(***************************************************************************)
(* The only field that the path reaches from a value of the function; none *)
(* if two values of different types have the path.                         *)
(***************************************************************************)
resolveObservedFieldAccess(p, fn, path) ==
  LET types == {p.fns[fn].params[k].type : k \in DOMAIN p.fns[fn].params} \cup p.fns[fn].values
      candidates == {resolveNestedField(p, t, path) : t \in types} \ {None}
  IN  IF \E obj \in candidates : candidates = {obj}
      THEN CHOOSE obj \in candidates : TRUE
      ELSE None

\* The first of a sequence of attempts that finds an object.
FirstFound(attempts) ==
  LET found == {k \in DOMAIN attempts : attempts[k] # None}
  IN  IF found = {}
      THEN None
      ELSE attempts[CHOOSE k \in found : \A j \in found : k <= j]

(***************************************************************************)
(* What a target means inside fn: the locks fn is analysed with.           *)
(***************************************************************************)
resolveObjectInScope(p, fn, target) ==
  CASE Len(target) = 0 -> None
    [] Len(target) = 1 -> resolveIdentifier(p, fn, target[1])
    [] OTHER -> FirstFound(<<resolveMultiAccess(p, fn, target),
                             resolveNamedTypeField(p, fn, target[1], Tail(target)),
                             resolveObservedFieldAccess(p, fn, Tail(target))>>)

-----------------------------------------------------------------------------
resolveParamField(p, callee, args, parts) ==
  LET named == {k \in Named(p, callee, parts[1]) : k <= Len(args)}
  IN  IF named = {}
      THEN None
      ELSE resolveValueField(p, args[CHOOSE k \in named : TRUE], Tail(parts))

(***************************************************************************)
(* What a target of callee's contract means for a caller that passes args. *)
(* The implicit receiver of resolveMultiAccess is not tried here.          *)
(***************************************************************************)
resolveObjectAtInvocation(p, callee, args, target) ==
  IF target = <<>>
  THEN None
  ELSE FirstFound(<<resolveParamField(p, callee, args, target),
                    resolveNamedTypeField(p, callee, target[1], Tail(target)),
                    IF Len(target) = 1
                    THEN findInPackageGlobals(p, callee, target[1])
                    ELSE resolveObservedFieldAccess(p, callee, Tail(target))>>)

annotationRootIsCallsiteLocal(p, callee, target) ==
  /\ Len(target) > 1
  /\ Named(p, callee, target[1]) = {}
  /\ findInPackageGlobals(p, callee, target[1]) = None

=============================================================================
