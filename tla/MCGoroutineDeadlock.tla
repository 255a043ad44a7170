------------------------- MODULE MCGoroutineDeadlock -------------------------
(***************************************************************************)
(* Small packages: two launching functions f and g, two goroutine bodies   *)
(* a and b and a helper h they may call, over the locks x, y and z.        *)
(***************************************************************************)
EXTENDS GoroutineDeadlock, TLC

CONSTANTS f, g, a, b, h, x, y, z, none

FiveFunctions == {f, g, a, b, h}

SourceOrder == <<g, f, a, b, h>>

Ref(o) == [obj |-> o, name |-> ToString(o)]

(***************************************************************************)
(* Two annotations "mu" that name different locks: two receivers' fields.  *)
(***************************************************************************)
Mu(o) == [obj |-> o, name |-> "mu"]

Two == {<<Ref(x), Ref(y)>>, <<Ref(y), Ref(x)>>, <<Ref(x), Ref(z)>>}

One == {<<Ref(x)>>, <<Ref(y)>>}

Package(ordersA, ordersB, orderH, callsA, callsB, launchesF, launchesG, strict) ==
  {[acquires |-> f :> <<>> @@ g :> <<>> @@ a :> p @@ b :> q @@ h :> r,
    calls |-> f :> <<>> @@ g :> <<>> @@ a :> callsA @@ b :> callsB @@ h :> <<>>,
    launches |-> f :> launchesF @@ g :> launchesG @@ a :> <<>> @@ b :> <<>> @@ h :> <<>>,
    strict |-> strict] : p \in ordersA, q \in ordersB, r \in orderH}

Callings == {<<<<>>, <<>>>>, <<<<h>>, <<>>>>, <<<<>>, <<h>>>>, <<<<h>>, <<h>>>>}

AllPackages ==
  UNION {Package({<<>>} \cup One \cup Two, One \cup Two, {<<Ref(y)>>, <<Ref(z)>>}, c[1], c[2],
                 l[1], l[2], strict) :
           c \in Callings,
           l \in {<<<<a, b>>, <<>>>>, <<<<a>>, <<b>>>>},
           strict \in BOOLEAN}

(***************************************************************************)
(* Goroutine a takes x in a helper, gives it back, then takes y and calls  *)
(* the helper again: its order is x, y, x.  Goroutine b takes x, then y.   *)
(***************************************************************************)
ReturningPackages ==
  {[acquires |-> f :> <<>> @@ a :> <<>> @@ b :> <<Ref(x), Ref(y)>> @@ g :> <<Ref(y)>> @@ h :> <<Ref(x)>>,
    calls |-> f :> <<>> @@ a :> <<h, g>> @@ b :> <<>> @@ g :> <<h>> @@ h :> <<>>,
    launches |-> f :> l @@ a :> <<>> @@ b :> <<>> @@ g :> <<>> @@ h :> <<>>,
    strict |-> strict] : l \in {<<a, b>>, <<b, a>>}, strict \in BOOLEAN}

(***************************************************************************)
(* Two goroutines over three locks, two of which share their name.         *)
(***************************************************************************)
SameNamePackages ==
  Package({<<Mu(x), Ref(y)>>, <<Ref(y), Mu(x)>>}, {<<Mu(z), Ref(y)>>, <<Ref(y), Mu(z)>>},
          {<<>>}, <<>>, <<>>, <<a>>, <<b>>, TRUE)

(***************************************************************************)
(* What is claimed of packages that meet the hypotheses is claimed of the  *)
(* former; each of the others misses one hypothesis.                       *)
(***************************************************************************)
ASSUME PackagesComparable ==
  /\ \A p \in AllPackages : Resolved(p) /\ NamesDistinct(p) /\ NeverRetaken(p)
  /\ \A p \in ReturningPackages : Resolved(p) /\ NamesDistinct(p) /\ ~NeverRetaken(p)
  /\ \A p \in SameNamePackages : Resolved(p) /\ ~NamesDistinct(p) /\ NeverRetaken(p)

(***************************************************************************)
(* examples/package_wide_abba: launchAB and launchBA.                      *)
(***************************************************************************)
AbbaPackages ==
  Package({<<Ref(x), Ref(y)>>}, {<<Ref(y), Ref(x)>>}, {<<>>}, <<>>, <<>>, <<a>>, <<b>>, TRUE)

==============================================================================
