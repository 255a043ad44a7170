----------------------- MODULE GoroutineDeadlockProofs -----------------------
(***************************************************************************)
(* Proofs about the search for lock-order inversions, for any packages: it *)
(* compares all pairs of goroutines, finds exactly the inversions, and     *)
(* every mutual wait and self-wait of a run was reported.                  *)
(***************************************************************************)
EXTENDS GoroutineDeadlock, BoundedInduction

(***************************************************************************)
(* The recursive function of Transitively, as a formula over the function. *)
(***************************************************************************)
CalleesGive(p, walk, g, active) ==
  [k \in 1..Len(p.calls[g]) |-> walk[active \cup {g}][p.calls[g][k]]]

Gives(p, before, after, walk, active) ==
  [g \in Functions |->
     IF g \in active
     THEN <<>>
     ELSE before[g] \o FlattenSeq(CalleesGive(p, walk, g, active)) \o after[g]]

Walks(p, before, after, S) ==
  {walk \in [SUBSET Functions -> [Functions -> Seq(S)]] :
     \A active \in SUBSET Functions : walk[active] = Gives(p, before, after, walk, active)}

LEMMA CalleesGiveType ==
  ASSUME NEW S, NEW p \in Packages, NEW walk \in [SUBSET Functions -> [Functions -> Seq(S)]],
         NEW g \in Functions, NEW active \in SUBSET Functions
  PROVE  CalleesGive(p, walk, g, active) \in Seq(Seq(S))
<1>1. p.calls[g] \in Seq(Functions)
  BY PackageAssumption
<1>2. walk[active \cup {g}] \in [Functions -> Seq(S)]
  OBVIOUS
<1>3. \A k \in 1..Len(p.calls[g]) : p.calls[g][k] \in Functions
  BY <1>1
<1>4. \A k \in 1..Len(p.calls[g]) : walk[active \cup {g}][p.calls[g][k]] \in Seq(S)
  BY <1>2, <1>3
<1>5. Len(p.calls[g]) \in Nat
  BY <1>1
<1> DEFINE T == Seq(S)
           n == Len(p.calls[g])
           give == [k \in 1..n |-> walk[active \cup {g}][p.calls[g][k]]]
<1>6. give \in [1..n -> T]
  BY <1>4
<1>7. give \in Seq(T)
  <2> HIDE DEF T, give, n
  <2> QED
    BY <1>5, <1>6 DEF n
<1> QED
  BY <1>7 DEF CalleesGive

LEMMA GivesType ==
  ASSUME NEW S, NEW p \in Packages,
         NEW before \in [Functions -> Seq(S)], NEW after \in [Functions -> Seq(S)],
         NEW walk \in [SUBSET Functions -> [Functions -> Seq(S)]],
         NEW active \in SUBSET Functions
  PROVE  Gives(p, before, after, walk, active) \in [Functions -> Seq(S)]
<1>1. ASSUME NEW g \in Functions
      PROVE  before[g] \o FlattenSeq(CalleesGive(p, walk, g, active)) \o after[g] \in Seq(S)
  <2>1. FlattenSeq(CalleesGive(p, walk, g, active)) \in Seq(S)
    BY CalleesGiveType, FlattenSeqType
  <2> QED
    BY <2>1
<1>2. <<>> \in Seq(S)
  OBVIOUS
<1> QED
  BY <1>1, <1>2 DEF Gives

LEMMA WalkExists ==
  ASSUME NEW S, NEW p \in Packages,
         NEW before \in [Functions -> Seq(S)], NEW after \in [Functions -> Seq(S)]
  PROVE  Walks(p, before, after, S) # {}
<1> DEFINE V == [Functions -> Seq(S)]
           W == [SUBSET Functions -> V]
           v == [g \in Functions |-> <<>>]
           step == [active \in SUBSET Functions |->
                      [walk \in W |-> Gives(p, before, after, walk, active)]]
<1>1. v \in V
  OBVIOUS
<1>2. step \in [SUBSET Functions -> [W -> V]]
  <2>1. \A active \in SUBSET Functions : \A walk \in W : Gives(p, before, after, walk, active) \in V
    BY GivesType
  <2> QED
    BY <2>1
<1>3. ASSUME NEW active \in SUBSET Functions, NEW w \in W, NEW u \in W,
             \A g \in Functions \ active : w[active \cup {g}] = u[active \cup {g}]
      PROVE  step[active][w] = step[active][u]
  <2>1. \A g \in Functions \ active : CalleesGive(p, w, g, active) = CalleesGive(p, u, g, active)
    BY <1>3 DEF CalleesGive
  <2>2. Gives(p, before, after, w, active) = Gives(p, before, after, u, active)
    BY <2>1 DEF Gives
  <2>3. step[active][w] = Gives(p, before, after, w, active)
    OBVIOUS
  <2>4. step[active][u] = Gives(p, before, after, u, active)
    OBVIOUS
  <2> QED
    BY <2>2, <2>3, <2>4
<1>4. IsFiniteSet(Functions)
  BY PackageAssumption
<1>5. PICK walk \in W : \A active \in SUBSET Functions : walk[active] = step[active][walk]
  <2>1. \A active \in SUBSET Functions, w, u \in W :
          (\A g \in Functions \ active : w[active \cup {g}] = u[active \cup {g}])
          => step[active][w] = step[active][u]
    BY <1>3
  <2>2. Expanding(step, Functions, V)
    BY <1>2, <2>1 DEF Expanding
  <2>3. \E walk : Solves(walk, step, Functions, V)
    <3> HIDE DEF v, step, V
    <3> QED
      BY <1>1, <1>4, <2>2, ExpandingRecursion
  <2> HIDE DEF step
  <2> QED
    BY <2>3 DEF Solves
<1>6. \A active \in SUBSET Functions : walk[active] = Gives(p, before, after, walk, active)
  BY <1>5
<1>7. walk \in Walks(p, before, after, S)
  BY <1>6 DEF Walks
<1> QED
  BY <1>7

(***************************************************************************)
(* What is collected is what some walk, and every walk, gives at the start *)
(* of the search.                                                          *)
(***************************************************************************)
Giving(S) == [Functions -> Seq(S)]

IsWalk(p, before, after, S, walk) ==
  /\ walk \in Walks(p, before, after, S)
  /\ \A f \in Functions : Transitively(p, before, after, f) = walk[{}][f]

LEMMA TransitivelyWalk ==
  ASSUME NEW S, NEW p \in Packages, NEW before \in Giving(S), NEW after \in Giving(S)
  PROVE  \E walk : IsWalk(p, before, after, S, walk)
<1> USE DEF Giving, IsWalk
<1> DEFINE Q(w) == w = [active \in SUBSET Functions |-> Gives(p, before, after, w, active)]
           walk == CHOOSE w : Q(w)
<1>1. PICK w \in Walks(p, before, after, S) : TRUE
  BY WalkExists
<1>2. Q(w)
  BY <1>1 DEF Walks
<1>3. Q(walk)
  <2> HIDE DEF Q
  <2> QED
    BY <1>2
<1>4. \A f \in Functions : Transitively(p, before, after, f) = walk[{}][f]
  BY DEF Transitively, Gives, CalleesGive
<1> HIDE DEF walk
<1> DEFINE T == {active \in SUBSET Functions : walk[active] = w[active]}
<1>5. \A active \in SUBSET Functions : walk[active] = Gives(p, before, after, walk, active)
  BY <1>3
<1>6. \A active \in SUBSET Functions : w[active] = Gives(p, before, after, w, active)
  BY <1>1 DEF Walks
<1>7. ASSUME NEW active \in SUBSET Functions, \A g \in Functions \ active : active \cup {g} \in T
      PROVE  active \in T
  <2>1. \A g \in Functions \ active : CalleesGive(p, walk, g, active) = CalleesGive(p, w, g, active)
    BY <1>7 DEF CalleesGive
  <2>2. Gives(p, before, after, walk, active) = Gives(p, before, after, w, active)
    BY <2>1 DEF Gives
  <2> QED
    BY <1>5, <1>6, <2>2
<1>8. SUBSET Functions \subseteq T
  <2> HIDE DEF T
  <2> QED
    BY <1>7, PackageAssumption, ExpandingInduction
<1>9. walk[{}] = w[{}]
  BY <1>8
<1> QED
  BY <1>1, <1>4, <1>9

LEMMA TransitivelyType ==
  ASSUME NEW S, NEW p \in Packages,
         NEW before \in [Functions -> Seq(S)], NEW after \in [Functions -> Seq(S)],
         NEW f \in Functions
  PROVE  Transitively(p, before, after, f) \in Seq(S)
<1>1. before \in Giving(S) /\ after \in Giving(S)
  BY DEF Giving
<1>2. PICK walk : IsWalk(p, before, after, S, walk)
  BY <1>1, TransitivelyWalk
<1> QED
  BY <1>2 DEF IsWalk, Walks

-----------------------------------------------------------------------------
(***************************************************************************)
(* The lock operations of a run follow an acquisition order: the locks     *)
(* they take are those of the order, one for one.                          *)
(***************************************************************************)
OpsOf(p) == [op : {"lock", "unlock"}, lock : {r.obj : r \in RefsOf(p)}]

Matches(m, ops, order) ==
  /\ m \in [1..Len(order) -> 1..Len(ops)]
  /\ \A i \in 1..Len(order) : ops[m[i]] = [op |-> "lock", lock |-> order[i].obj]
  /\ \A i, j \in 1..Len(order) : i < j => m[i] < m[j]
  /\ \A n \in 1..Len(ops) : ops[n].op = "lock" => \E i \in 1..Len(order) : m[i] = n

Follows(ops, order) == \E m : Matches(m, ops, order)

LEMMA FollowsNothing == Follows(<<>>, <<>>)
<1>1. Matches(<<>>, <<>>, <<>>)
  BY DEF Matches
<1> QED
  BY <1>1 DEF Follows

LEMMA LocksFollow ==
  ASSUME NEW R, NEW locks \in Seq(R)
  PROVE  Follows(LockOps("lock", locks), locks)
<1> DEFINE N == Len(locks)
           m == [i \in 1..N |-> i]
           ops == LockOps("lock", locks)
<1>1. N \in Nat
  OBVIOUS
<1>2. Len(ops) = N /\ \A i \in 1..N : ops[i] = [op |-> "lock", lock |-> locks[i].obj]
  BY <1>1 DEF LockOps
<1>3. m \in [1..N -> 1..N] /\ \A i \in 1..N : m[i] = i
  OBVIOUS
<1> HIDE DEF m, N
<1>4. Matches(m, ops, locks)
  BY <1>1, <1>2, <1>3 DEF Matches, N
<1> QED
  BY <1>4 DEF Follows

LEMMA UnlocksFollow ==
  ASSUME NEW R, NEW locks \in Seq(R)
  PROVE  Follows(LockOps("unlock", locks), <<>>)
<1> DEFINE ops == LockOps("unlock", locks)
<1>1. \A i \in 1..Len(locks) : ops[i].op = "unlock"
  BY DEF LockOps
<1>2. Len(ops) = Len(locks)
  BY DEF LockOps
<1>3. Matches(<<>>, ops, <<>>)
  <2> HIDE DEF ops
  <2> QED
    BY <1>1, <1>2 DEF Matches
<1> QED
  BY <1>3 DEF Follows

LEMMA FollowsConcat ==
  ASSUME NEW O, NEW R, NEW ops \in Seq(O), NEW more \in Seq(O),
         NEW order \in Seq(R), NEW rest \in Seq(R),
         Follows(ops, order), Follows(more, rest)
  PROVE  Follows(ops \o more, order \o rest)
<1>1. PICK a : Matches(a, ops, order)
  BY DEF Follows
<1>2. PICK b : Matches(b, more, rest)
  BY DEF Follows
<1> DEFINE K == Len(order)
           L == Len(rest)
           M == Len(ops)
           N == Len(more)
           m == [i \in 1..(K + L) |-> IF i <= K THEN a[i] ELSE M + b[i - K]]
           q == ops \o more
           t == order \o rest
<1>3. K \in Nat /\ L \in Nat /\ M \in Nat /\ N \in Nat
  OBVIOUS
<1>4. /\ Len(q) = M + N /\ Len(t) = K + L
      /\ \A n \in 1..M : q[n] = ops[n]
      /\ \A n \in 1..N : q[M + n] = more[n]
      /\ \A i \in 1..K : t[i] = order[i]
      /\ \A i \in 1..L : t[K + i] = rest[i]
  OBVIOUS
<1>5. /\ a \in [1..K -> 1..M]
      /\ \A i \in 1..K : ops[a[i]] = [op |-> "lock", lock |-> order[i].obj]
      /\ \A i, j \in 1..K : i < j => a[i] < a[j]
      /\ \A n \in 1..M : ops[n].op = "lock" => \E i \in 1..K : a[i] = n
  BY <1>1 DEF Matches
<1>6. /\ b \in [1..L -> 1..N]
      /\ \A i \in 1..L : more[b[i]] = [op |-> "lock", lock |-> rest[i].obj]
      /\ \A i, j \in 1..L : i < j => b[i] < b[j]
      /\ \A n \in 1..N : more[n].op = "lock" => \E i \in 1..L : b[i] = n
  BY <1>2 DEF Matches
<1> HIDE DEF K, L, M, N, q, t
<1>7. \A i \in 1..K : i \in 1..(K + L) /\ m[i] = a[i] /\ a[i] \in 1..M
  BY <1>3, <1>5
<1>8. \A i \in 1..L : K + i \in 1..(K + L) /\ m[K + i] = M + b[i] /\ b[i] \in 1..N
  <2> SUFFICES ASSUME NEW i \in 1..L
               PROVE  K + i \in 1..(K + L) /\ m[K + i] = M + b[i] /\ b[i] \in 1..N
    OBVIOUS
  <2>1. K + i \in 1..(K + L) /\ ~(K + i <= K) /\ (K + i) - K = i
    BY <1>3
  <2> QED
    BY <1>6, <2>1
<1> HIDE DEF m
<1>9. \A i \in 1..(K + L) : i \in 1..K \/ \E k \in 1..L : i = K + k
  <2> SUFFICES ASSUME NEW i \in 1..(K + L), i \notin 1..K
               PROVE  \E k \in 1..L : i = K + k
    OBVIOUS
  <2>1. i - K \in 1..L /\ i = K + (i - K)
    BY <1>3
  <2> QED
    BY <2>1
<1>10. ASSUME NEW i \in 1..(K + L)
       PROVE  /\ m[i] \in 1..(M + N)
              /\ q[m[i]] = [op |-> "lock", lock |-> t[i].obj]
  <2>1. CASE i \in 1..K
    <3>1. m[i] = a[i] /\ a[i] \in 1..M
      BY <1>7, <2>1
    <3>2. q[a[i]] = ops[a[i]] /\ t[i] = order[i]
      BY <1>4, <2>1, <3>1
    <3>3. ops[a[i]] = [op |-> "lock", lock |-> order[i].obj]
      BY <1>5, <2>1
    <3>4. a[i] \in 1..(M + N)
      BY <1>3, <3>1
    <3> QED
      BY <3>1, <3>2, <3>3, <3>4
  <2>2. ASSUME NEW k \in 1..L, i = K + k
        PROVE  /\ m[i] \in 1..(M + N)
               /\ q[m[i]] = [op |-> "lock", lock |-> t[i].obj]
    <3>1. m[i] = M + b[k] /\ b[k] \in 1..N
      BY <1>8, <2>2
    <3>2. q[m[i]] = more[b[k]] /\ t[i] = rest[k]
      BY <1>4, <2>2, <3>1
    <3>3. more[b[k]] = [op |-> "lock", lock |-> rest[k].obj]
      BY <1>6
    <3>4. M + b[k] \in 1..(M + N)
      BY <1>3, <3>1
    <3> QED
      BY <3>1, <3>2, <3>3, <3>4
  <2>3. CASE i \notin 1..K
    <3>1. PICK k \in 1..L : i = K + k
      BY <1>9, <2>3
    <3> QED
      BY <2>2, <3>1
  <2> QED
    BY <2>1, <2>3
<1>11. ASSUME NEW i \in 1..(K + L), NEW j \in 1..(K + L), i < j
       PROVE  m[i] < m[j]
  <2>1. CASE j \in 1..K
    <3>1. i \in 1..K
      BY <1>3, <1>11, <2>1
    <3> QED
      BY <1>5, <1>7, <1>11, <2>1, <3>1
  <2>2. ASSUME NEW k \in 1..L, j = K + k
        PROVE  m[i] < m[j]
    <3>1. m[j] = M + b[k] /\ b[k] \in 1..N
      BY <1>8, <2>2
    <3>2. CASE i \in 1..K
      <4>1. m[i] \in 1..M
        BY <1>7, <3>2
      <4> QED
        BY <1>3, <3>1, <4>1
    <3>3. ASSUME NEW l \in 1..L, i = K + l
          PROVE  m[i] < m[j]
      <4>1. m[i] = M + b[l] /\ b[l] \in 1..N
        BY <1>8, <3>3
      <4>2. l < k
        BY <1>3, <1>11, <2>2, <3>3
      <4>3. b[l] < b[k]
        BY <1>6, <4>2
      <4> QED
        BY <1>3, <3>1, <4>1, <4>3
    <3> QED
      BY <1>9, <3>2, <3>3
  <2> QED
    BY <1>9, <2>1, <2>2
<1>12. ASSUME NEW n \in 1..(M + N), q[n].op = "lock"
       PROVE  \E i \in 1..(K + L) : m[i] = n
  <2>1. CASE n \in 1..M
    <3>1. ops[n].op = "lock"
      BY <1>4, <1>12, <2>1
    <3>2. PICK i \in 1..K : a[i] = n
      BY <1>5, <2>1, <3>1
    <3> QED
      BY <1>7, <3>2
  <2>2. CASE n \notin 1..M
    <3>1. n - M \in 1..N /\ n = M + (n - M)
      BY <1>3, <2>2
    <3>2. PICK k \in 1..N : n = M + k
      BY <3>1
    <3>3. more[k].op = "lock"
      BY <1>4, <1>12, <3>2
    <3>4. PICK i \in 1..L : b[i] = k
      BY <1>6, <3>3
    <3> QED
      BY <1>8, <3>2, <3>4
  <2> QED
    BY <2>1, <2>2
<1>13. m \in [1..(K + L) -> 1..(M + N)]
  <2>1. DOMAIN m = 1..(K + L) /\ m = [i \in 1..(K + L) |-> m[i]]
    BY DEF m
  <2> QED
    BY <1>10, <2>1
<1>14. Matches(m, q, t)
  BY <1>4, <1>10, <1>11, <1>12, <1>13 DEF Matches
<1> QED
  BY <1>14 DEF Follows, q, t

LEMMA FollowsFlattened ==
  ASSUME NEW O, NEW R, NEW opss \in Seq(Seq(O)), NEW orders \in Seq(Seq(R)),
         Len(opss) = Len(orders),
         \A k \in 1..Len(opss) : Follows(opss[k], orders[k])
  PROVE  Follows(FlattenSeq(opss), FlattenSeq(orders))
<1>1. PICK g : Flattens(g, opss, O) /\ FlattenSeq(opss) = g[Len(opss)]
  BY FlattenSeqIteration
<1>2. PICK h : Flattens(h, orders, R) /\ FlattenSeq(orders) = h[Len(orders)]
  BY FlattenSeqIteration
<1> DEFINE N == Len(opss)
           T == {n \in 0..N : Follows(g[n], h[n])}
<1>3. N \in Nat
  OBVIOUS
<1>4. \A k \in 1..N : opss[k] \in Seq(O) /\ orders[k] \in Seq(R)
  <2> DEFINE A == Seq(O)
             B == Seq(R)
  <2>1. opss \in Seq(A) /\ orders \in Seq(B)
    OBVIOUS
  <2> HIDE DEF A, B
  <2>2. \A k \in 1..N : opss[k] \in A /\ orders[k] \in B
    BY <2>1
  <2> QED
    BY <2>2 DEF A, B
<1>5. /\ g \in [0..N -> Seq(O)] /\ h \in [0..N -> Seq(R)]
      /\ g[0] = <<>> /\ h[0] = <<>>
      /\ \A n \in 1..N : g[n] = g[n - 1] \o opss[n] /\ h[n] = h[n - 1] \o orders[n]
  BY <1>1, <1>2 DEF Flattens
<1>6. 0 \in T
  BY <1>3, <1>5, FollowsNothing
<1>7. \A n \in 1..N : n - 1 \in T => n \in T
  <2> SUFFICES ASSUME NEW n \in 1..N, n - 1 \in T
               PROVE  n \in T
    OBVIOUS
  <2>1. n - 1 \in 0..N /\ n \in 0..N
    BY <1>3
  <2>2. g[n - 1] \in Seq(O) /\ h[n - 1] \in Seq(R)
    BY <1>5, <2>1
  <2>3. Follows(g[n - 1] \o opss[n], h[n - 1] \o orders[n])
    BY <1>4, <2>2, FollowsConcat
  <2> QED
    BY <1>5, <2>1, <2>3
<1>8. 0..N \subseteq T
  <2> HIDE DEF T
  <2> QED
    BY <1>3, <1>6, <1>7, IntervalInduction
<1>9. N \in 0..N
  BY <1>3
<1> QED
  BY <1>1, <1>2, <1>8, <1>9

(***************************************************************************)
(* What a function does follows what the search collects for it.           *)
(***************************************************************************)
Nothing == [f \in Functions |-> <<>>]

Takes(p) == [f \in Functions |-> LockOps("lock", p.acquires[f])]

GivesBack(p) == [f \in Functions |-> LockOps("unlock", p.acquires[f])]

LEMMA LockOpsType ==
  ASSUME NEW p \in Packages
  PROVE  /\ Takes(p) \in [Functions -> Seq(OpsOf(p))]
         /\ GivesBack(p) \in [Functions -> Seq(OpsOf(p))]
         /\ Nothing \in [Functions -> Seq(RefsOf(p))]
         /\ p.acquires \in [Functions -> Seq(RefsOf(p))]
<1>1. ASSUME NEW f \in Functions, NEW op \in {"lock", "unlock"}
      PROVE  LockOps(op, p.acquires[f]) \in Seq(OpsOf(p))
  <2>1. p.acquires[f] \in Seq(RefsOf(p))
    BY PackageAssumption
  <2> DEFINE s == p.acquires[f]
             t == LockOps(op, s)
  <2>2. \A k \in 1..Len(s) : s[k] \in RefsOf(p)
    BY <2>1
  <2>3. \A k \in 1..Len(s) : [op |-> op, lock |-> s[k].obj] \in OpsOf(p)
    BY <2>2 DEF OpsOf
  <2>4. Len(s) \in Nat
    BY <2>1
  <2>5. t \in [1..Len(s) -> OpsOf(p)]
    BY <2>3 DEF LockOps
  <2> QED
    BY <2>4, <2>5
<1> QED
  BY <1>1, PackageAssumption DEF Takes, GivesBack, Nothing

LEMMA OperationsFollow ==
  ASSUME NEW p \in Packages, NEW f \in Functions
  PROVE  /\ Operations(p, f) \in Seq(OpsOf(p))
         /\ collectTransitiveAcquireOrder(p, f) \in Seq(RefsOf(p))
         /\ Follows(Operations(p, f), collectTransitiveAcquireOrder(p, f))
<1> DEFINE O == OpsOf(p)
           R == RefsOf(p)
<1>1. /\ Takes(p) \in [Functions -> Seq(O)]
      /\ GivesBack(p) \in [Functions -> Seq(O)]
      /\ Nothing \in [Functions -> Seq(R)]
      /\ p.acquires \in [Functions -> Seq(R)]
  BY LockOpsType
<1>2. /\ Operations(p, f) = Transitively(p, Takes(p), GivesBack(p), f)
      /\ collectTransitiveAcquireOrder(p, f) = Transitively(p, p.acquires, Nothing, f)
  BY DEF Operations, collectTransitiveAcquireOrder, Takes, GivesBack, Nothing
<1> HIDE DEF O, R
<1>3. PICK v : IsWalk(p, Takes(p), GivesBack(p), O, v)
  <2>1. Takes(p) \in Giving(O) /\ GivesBack(p) \in Giving(O)
    BY <1>1 DEF Giving
  <2> QED
    BY <2>1, TransitivelyWalk
<1>4. PICK w : IsWalk(p, p.acquires, Nothing, R, w)
  <2>1. p.acquires \in Giving(R) /\ Nothing \in Giving(R)
    BY <1>1 DEF Giving
  <2> QED
    BY <2>1, TransitivelyWalk
<1>5. /\ v \in [SUBSET Functions -> [Functions -> Seq(O)]]
      /\ \A active \in SUBSET Functions : v[active] = Gives(p, Takes(p), GivesBack(p), v, active)
  BY <1>3 DEF IsWalk, Walks
<1>6. /\ w \in [SUBSET Functions -> [Functions -> Seq(R)]]
      /\ \A active \in SUBSET Functions : w[active] = Gives(p, p.acquires, Nothing, w, active)
  BY <1>4 DEF IsWalk, Walks
<1> DEFINE T == {active \in SUBSET Functions :
                   \A g \in Functions : Follows(v[active][g], w[active][g])}
<1>7. ASSUME NEW active \in SUBSET Functions, \A g \in Functions \ active : active \cup {g} \in T
      PROVE  active \in T
  <2> SUFFICES ASSUME NEW g \in Functions
               PROVE  Follows(v[active][g], w[active][g])
    OBVIOUS
  <2>1. CASE g \in active
    <3>1. v[active][g] = <<>> /\ w[active][g] = <<>>
      BY <1>5, <1>6, <2>1 DEF Gives
    <3> QED
      BY <3>1, FollowsNothing
  <2>2. CASE g \notin active
    <3> DEFINE a == CalleesGive(p, v, g, active)
               b == CalleesGive(p, w, g, active)
    <3>1. /\ v[active][g] = Takes(p)[g] \o FlattenSeq(a) \o GivesBack(p)[g]
          /\ w[active][g] = p.acquires[g] \o FlattenSeq(b) \o Nothing[g]
      <4>1. v[active][g] = Gives(p, Takes(p), GivesBack(p), v, active)[g]
        BY <1>5
      <4>2. w[active][g] = Gives(p, p.acquires, Nothing, w, active)[g]
        BY <1>6
      <4> HIDE DEF Nothing, Takes, GivesBack
      <4>3. v[active][g] = Takes(p)[g] \o FlattenSeq(a) \o GivesBack(p)[g]
        BY <2>2, <4>1 DEF Gives
      <4>4. w[active][g] = p.acquires[g] \o FlattenSeq(b) \o Nothing[g]
        BY <2>2, <4>2 DEF Gives
      <4> QED
        BY <4>3, <4>4
    <3>2. a \in Seq(Seq(O)) /\ b \in Seq(Seq(R))
      BY <1>5, <1>6, CalleesGiveType
    <3>3. Len(p.calls[g]) \in Nat /\ \A k \in 1..Len(p.calls[g]) : p.calls[g][k] \in Functions
      <4>1. p.calls[g] \in Seq(Functions)
        BY PackageAssumption
      <4> QED
        BY <4>1
    <3>4. Len(a) = Len(p.calls[g]) /\ Len(b) = Len(p.calls[g])
      BY <3>3 DEF CalleesGive
    <3>5. \A k \in 1..Len(a) : Follows(a[k], b[k])
      BY <1>7, <2>2, <3>3, <3>4 DEF CalleesGive
    <3>6. Follows(FlattenSeq(a), FlattenSeq(b))
      BY <3>2, <3>4, <3>5, FollowsFlattened
    <3>7. FlattenSeq(a) \in Seq(O) /\ FlattenSeq(b) \in Seq(R)
      BY <3>2, FlattenSeqType
    <3> HIDE DEF a, b
    <3>8. Follows(Takes(p)[g], p.acquires[g]) /\ Follows(GivesBack(p)[g], Nothing[g])
      <4>1. p.acquires[g] \in Seq(R)
        BY <1>1
      <4> QED
        BY <4>1, LocksFollow, UnlocksFollow DEF Takes, GivesBack, Nothing
    <3>9. /\ Takes(p)[g] \in Seq(O) /\ GivesBack(p)[g] \in Seq(O)
          /\ p.acquires[g] \in Seq(R) /\ Nothing[g] \in Seq(R)
      BY <1>1
    <3>10. Follows(Takes(p)[g] \o FlattenSeq(a), p.acquires[g] \o FlattenSeq(b))
      BY <3>6, <3>7, <3>8, <3>9, FollowsConcat
    <3>11. /\ Takes(p)[g] \o FlattenSeq(a) \in Seq(O)
           /\ p.acquires[g] \o FlattenSeq(b) \in Seq(R)
      BY <3>7, <3>9
    <3>12. Follows((Takes(p)[g] \o FlattenSeq(a)) \o GivesBack(p)[g],
                   (p.acquires[g] \o FlattenSeq(b)) \o Nothing[g])
      BY <3>8, <3>9, <3>10, <3>11, FollowsConcat
    <3> QED
      BY <3>1, <3>12
  <2> QED
    BY <2>1, <2>2
<1>8. SUBSET Functions \subseteq T
  <2> HIDE DEF T
  <2> QED
    BY <1>7, PackageAssumption, ExpandingInduction
<1>9. Follows(v[{}][f], w[{}][f])
  BY <1>8
<1> QED
  BY <1>2, <1>3, <1>4, <1>5, <1>6, <1>9 DEF IsWalk, O, R

-----------------------------------------------------------------------------
(***************************************************************************)
(* The elements of a sequence at the positions of a set, in order.         *)
(***************************************************************************)
Kept(L, e, K) ==
  /\ \A i \in 1..Len(L) : \E k \in K : L[i] = e[k]
  /\ \A k \in K : \E i \in 1..Len(L) : L[i] = e[k]
  /\ \A i, j \in 1..Len(L) : L[i] = L[j] => i = j

Selection(N, e, K) == FlattenSeq([k \in 1..N |-> IF k \in K THEN <<e[k]>> ELSE <<>>])

LEMMA KeptElements ==
  ASSUME NEW N \in Nat, NEW S, NEW e \in [1..N -> S], NEW K \in SUBSET (1..N),
         \A i, j \in 1..N : e[i] = e[j] => i = j
  PROVE  Selection(N, e, K) \in Seq(S) /\ Kept(Selection(N, e, K), e, K)
<1> DEFINE seqs == [k \in 1..N |-> IF k \in K THEN <<e[k]>> ELSE <<>>]
<1>1. seqs \in Seq(Seq(S)) /\ Len(seqs) = N
  <2> DEFINE A == Seq(S)
  <2>1. \A k \in 1..N : (IF k \in K THEN <<e[k]>> ELSE <<>>) \in A
    OBVIOUS
  <2> HIDE DEF A
  <2>2. seqs \in [1..N -> A]
    BY <2>1
  <2> HIDE DEF seqs
  <2>3. seqs \in Seq(A) /\ Len(seqs) = N
    BY <2>2
  <2> QED
    BY <2>3 DEF A
<1>2. PICK h : Flattens(h, seqs, S) /\ FlattenSeq(seqs) = h[N]
  BY <1>1, FlattenSeqIteration
<1>3. /\ h \in [0..N -> Seq(S)] /\ h[0] = <<>>
      /\ \A n \in 1..N : h[n] = h[n - 1] \o (IF n \in K THEN <<e[n]>> ELSE <<>>)
  BY <1>1, <1>2 DEF Flattens
<1> HIDE DEF seqs
<1> DEFINE T == {n \in 0..N : Kept(h[n], e, K \cap (1..n))}
<1>4. 0 \in T
  BY <1>3 DEF Kept
<1>5. ASSUME NEW n \in 1..N, n - 1 \in T
      PROVE  n \in T
  <2>0. n \in 0..N /\ n - 1 \in 0..N
    OBVIOUS
  <2>1. h[n - 1] \in Seq(S) /\ e[n] \in S
    BY <1>3, <2>0
  <2> DEFINE l == h[n - 1]
             M == Len(l)
             J == K \cap (1..(n - 1))
  <2>2. Kept(l, e, J)
    BY <1>5
  <2>3. M \in Nat
    BY <2>1
  <2>4. CASE n \notin K
    <3>1. h[n] = l
      <4>1. h[n] = l \o <<>>
        BY <1>3, <2>4
      <4> QED
        BY <2>1, <4>1
    <3>2. K \cap (1..n) = J
      <4>1. \A i \in 1..n : i = n \/ i \in 1..(n - 1)
        OBVIOUS
      <4>2. \A i \in 1..(n - 1) : i \in 1..n
        OBVIOUS
      <4> QED
        BY <2>4, <4>1, <4>2
    <3> HIDE DEF l, J
    <3>3. Kept(h[n], e, K \cap (1..n))
      BY <2>2, <3>1, <3>2
    <3> QED
      BY <3>3, <2>0
  <2>5. CASE n \in K
    <3> DEFINE t == h[n]
    <3>1. t = l \o <<e[n]>>
      BY <1>3, <2>5
    <3>2. Len(t) = M + 1 /\ (\A i \in 1..M : t[i] = l[i]) /\ t[M + 1] = e[n]
      BY <2>1, <3>1
    <3>3. K \cap (1..n) = J \cup {n}
      <4>1. \A i \in 1..n : i = n \/ i \in 1..(n - 1)
        OBVIOUS
      <4>2. \A i \in 1..(n - 1) : i \in 1..n
        OBVIOUS
      <4>3. n \in 1..n
        OBVIOUS
      <4> QED
        BY <2>5, <4>1, <4>2, <4>3
    <3>4. \A i \in 1..(M + 1) : i \in 1..M \/ i = M + 1
      BY <2>3
    <3>5. \A i \in 1..M : i \in 1..(M + 1)
      BY <2>3
    <3>6. M + 1 \in 1..(M + 1)
      BY <2>3
    <3>7. \A k \in J : e[k] # e[n]
      OBVIOUS
    <3> HIDE DEF l, M, J, t
    <3>8. \A i \in 1..M : \E k \in J : l[i] = e[k]
      BY <2>2 DEF Kept, M
    <3>9. \A k \in J : \E i \in 1..M : l[i] = e[k]
      BY <2>2 DEF Kept, M
    <3>10. \A i, j \in 1..M : l[i] = l[j] => i = j
      BY <2>2 DEF Kept, M
    <3>11. \A i \in 1..(M + 1) : \E k \in J \cup {n} : t[i] = e[k]
      BY <3>2, <3>4, <3>8
    <3>12. \A k \in J \cup {n} : \E i \in 1..(M + 1) : t[i] = e[k]
      BY <3>2, <3>5, <3>6, <3>9
    <3>13. \A i \in 1..M : t[i] # t[M + 1]
      BY <3>2, <3>7, <3>8
    <3>14. \A i, j \in 1..(M + 1) : t[i] = t[j] => i = j
      BY <3>2, <3>4, <3>10, <3>13
    <3>15. Kept(t, e, J \cup {n})
      BY <3>2, <3>11, <3>12, <3>14 DEF Kept
    <3>16. Kept(h[n], e, K \cap (1..n))
      BY <3>3, <3>15 DEF t
    <3> QED
      BY <2>0, <3>16
  <2> QED
    BY <2>4, <2>5
<1>6. 0..N \subseteq T
  <2> HIDE DEF T
  <2> QED
    BY <1>4, <1>5, IntervalInduction
<1>7. N \in 0..N
  OBVIOUS
<1>8. K \cap (1..N) = K
  OBVIOUS
<1>9. Kept(h[N], e, K \cap (1..N)) /\ h[N] \in Seq(S)
  BY <1>3, <1>6, <1>7
<1> QED
  BY <1>2, <1>8, <1>9 DEF Selection, seqs

(***************************************************************************)
(* The sites of a list of callees: those whose order is long enough, each  *)
(* once.                                                                   *)
(***************************************************************************)
SiteSet(p, f, callees, least) ==
  {s \in {Site(p, f, callees, k) : k \in 1..Len(callees)} : Len(s.order) >= least}

ListsOnce(L, S) ==
  /\ L \in Seq(S)
  /\ \A s \in S : \E i \in 1..Len(L) : L[i] = s
  /\ \A i, j \in 1..Len(L) : L[i].at = L[j].at => i = j

LEMMA SitesListed ==
  ASSUME NEW p \in Packages, NEW f \in Functions, NEW callees \in Seq(Functions), NEW least
  PROVE  ListsOnce(Sites(p, f, callees, least), SiteSet(p, f, callees, least))
<1> DEFINE N == Len(callees)
           e == [k \in 1..N |-> Site(p, f, callees, k)]
           S == {Site(p, f, callees, k) : k \in 1..N}
           K == {k \in 1..N : Len(Site(p, f, callees, k).order) >= least}
           L == Selection(N, e, K)
<1>1. N \in Nat
  OBVIOUS
<1>2. e \in [1..N -> S] /\ K \in SUBSET (1..N) /\ \A k \in 1..N : e[k] = Site(p, f, callees, k)
  OBVIOUS
<1>3. \A k \in 1..N : e[k].at = <<f, k>>
  BY DEF Site
<1>4. \A i, j \in 1..N : e[i] = e[j] => i = j
  BY <1>3
<1>5. Sites(p, f, callees, least) = L
  <2>1. [k \in 1..N |-> IF Len(Site(p, f, callees, k).order) >= least
                        THEN <<Site(p, f, callees, k)>> ELSE <<>>]
        = [k \in 1..N |-> IF k \in K THEN <<e[k]>> ELSE <<>>]
    OBVIOUS
  <2> QED
    BY <2>1 DEF Sites, Selection
<1>6. L \in Seq(S) /\ Kept(L, e, K)
  <2> HIDE DEF e, S, K
  <2> QED
    BY <1>1, <1>2, <1>4, KeptElements
<1> HIDE DEF L
<1>7. \A i \in 1..Len(L) : \E k \in K : L[i] = e[k]
  BY <1>6 DEF Kept
<1>8. \A k \in K : e[k] \in SiteSet(p, f, callees, least)
  BY DEF SiteSet
<1>9. L \in Seq(SiteSet(p, f, callees, least))
  <2>1. Len(L) \in Nat /\ L = [i \in 1..Len(L) |-> L[i]]
    BY <1>6
  <2>2. \A i \in 1..Len(L) : L[i] \in SiteSet(p, f, callees, least)
    BY <1>7, <1>8
  <2>3. L \in [1..Len(L) -> SiteSet(p, f, callees, least)]
    BY <2>1, <2>2
  <2> QED
    BY <2>1, <2>3
<1>10. ASSUME NEW s \in SiteSet(p, f, callees, least)
       PROVE  \E i \in 1..Len(L) : L[i] = s
  <2>1. PICK k \in K : s = e[k]
    BY DEF SiteSet
  <2> QED
    BY <1>6, <2>1 DEF Kept
<1>11. \A i, j \in 1..Len(L) : L[i].at = L[j].at => i = j
  <2> SUFFICES ASSUME NEW i \in 1..Len(L), NEW j \in 1..Len(L), L[i].at = L[j].at
               PROVE  i = j
    OBVIOUS
  <2>1. PICK k \in K : L[i] = e[k]
    BY <1>7
  <2>2. PICK l \in K : L[j] = e[l]
    BY <1>7
  <2>3. e[k].at = <<f, k>> /\ e[l].at = <<f, l>>
    BY <1>3
  <2>4. k = l
    BY <2>1, <2>2, <2>3
  <2>5. L[i] = L[j]
    BY <2>1, <2>2, <2>4
  <2> QED
    BY <1>6, <2>5 DEF Kept
<1> QED
  BY <1>5, <1>9, <1>10, <1>11 DEF ListsOnce

-----------------------------------------------------------------------------
(***************************************************************************)
(* The sites of a package, one for each goroutine that takes some lock.    *)
(***************************************************************************)
GoSitesIn(p, f) == SiteSet(p, f, p.launches[f], 1)

GoSitesOf(p) == UNION {GoSitesIn(p, f) : f \in Functions}

Launched(p, g) == p.launches[g[1]][g[2]]

CallPositions(p) == UNION {{<<f, k>> : k \in 1..Len(p.calls[f])} : f \in Functions}

LEMMA GoSiteFacts ==
  ASSUME NEW p \in Packages, NEW s \in GoSitesOf(p)
  PROVE  /\ s.at \in Goroutines(p) /\ s.at[1] \in Functions
         /\ s \in GoSitesIn(p, s.at[1])
         /\ s.order = collectTransitiveAcquireOrder(p, Launched(p, s.at))
<1>1. PICK f \in Functions : s \in GoSitesIn(p, f)
  BY DEF GoSitesOf
<1>2. PICK k \in 1..Len(p.launches[f]) : s = Site(p, f, p.launches[f], k)
  BY <1>1 DEF GoSitesIn, SiteSet
<1>3. s.at = <<f, k>> /\ s.order = collectTransitiveAcquireOrder(p, p.launches[f][k])
  BY <1>2 DEF Site
<1> QED
  BY <1>1, <1>3 DEF Goroutines, Launched

LEMMA GoSitePosition ==
  ASSUME NEW p \in Packages, NEW f \in Functions, NEW s \in GoSitesIn(p, f)
  PROVE  s \in GoSitesOf(p) /\ s.at[1] = f
<1>1. PICK k \in 1..Len(p.launches[f]) : s = Site(p, f, p.launches[f], k)
  BY DEF GoSitesIn, SiteSet
<1> QED
  BY <1>1 DEF GoSitesOf, Site

LEMMA GoroutineFacts ==
  ASSUME NEW p \in Packages, NEW g \in Goroutines(p)
  PROVE  /\ g[1] \in Functions /\ Launched(p, g) \in Functions
         /\ Len(collectTransitiveAcquireOrder(p, Launched(p, g))) >= 1
              => \E s \in GoSitesIn(p, g[1]) : s.at = g
<1>0. PICK f \in Functions : \E k \in 1..Len(p.launches[f]) : g = <<f, k>>
  BY DEF Goroutines
<1>1. PICK k \in 1..Len(p.launches[f]) : g = <<f, k>>
  BY <1>0
<1>2. p.launches[f] \in Seq(Functions)
  BY PackageAssumption
<1>3. Launched(p, g) = p.launches[f][k] /\ g[1] = f
  BY <1>1 DEF Launched
<1>4. p.launches[f][k] \in Functions
  BY <1>2
<1> DEFINE s == Site(p, f, p.launches[f], k)
<1>5. s.at = g /\ s.order = collectTransitiveAcquireOrder(p, Launched(p, g))
  BY <1>1, <1>3 DEF Site
<1>6. Len(s.order) >= 1 => s \in GoSitesIn(p, f)
  BY DEF GoSitesIn, SiteSet
<1> QED
  BY <1>3, <1>4, <1>5, <1>6

LEMMA GoSitesListed ==
  ASSUME NEW p \in Packages, NEW f \in Functions
  PROVE  ListsOnce(GoSites(p, f), GoSitesIn(p, f))
<1>1. p.launches[f] \in Seq(Functions)
  BY PackageAssumption
<1> QED
  BY <1>1, SitesListed DEF GoSites, GoSitesIn

LEMMA CallSitesListed ==
  ASSUME NEW p \in Packages, NEW f \in Functions
  PROVE  /\ CallSites(p, f) \in Seq(SiteSet(p, f, p.calls[f], 2))
         /\ \A s \in SiteSet(p, f, p.calls[f], 2) : s.at \in CallPositions(p)
<1>1. p.calls[f] \in Seq(Functions)
  BY PackageAssumption
<1>2. ListsOnce(CallSites(p, f), SiteSet(p, f, p.calls[f], 2))
  BY <1>1, SitesListed DEF CallSites
<1>3. ASSUME NEW s \in SiteSet(p, f, p.calls[f], 2)
      PROVE  s.at \in CallPositions(p)
  <2>1. PICK k \in 1..Len(p.calls[f]) : s = Site(p, f, p.calls[f], k)
    BY DEF SiteSet
  <2> QED
    BY <2>1 DEF Site, CallPositions
<1> QED
  BY <1>2, <1>3 DEF ListsOnce

(***************************************************************************)
(* A report about goroutines is about two sites, one about inversions      *)
(* about two whose orders disagree.                                        *)
(***************************************************************************)
AboutPair(d, S) ==
  \E s, t \in S :
    /\ d.at = s.at /\ d.other = t.at
    /\ d.kind = "GoroutineInversion" => Inversions(s.order, t.order) # {}

LEMMA DiagnosticFields ==
  ASSUME NEW kind, NEW s, NEW t, NEW ls
  PROVE  /\ Diagnostic(kind, s, t, ls).kind = kind
         /\ Diagnostic(kind, s, t, ls).at = s.at
         /\ Diagnostic(kind, s, t, ls).other = t.at
BY DEF Diagnostic

LEMMA ReportsAboutPairs ==
  ASSUME NEW S, NEW L \in Seq(S), NEW i \in 1..Len(L), NEW d \in GoroutineReports(L, i)
  PROVE  AboutPair(d, S)
<1>1. PICK j \in (i + 1)..Len(L) :
        \/ d \in RecursiveReports(L[i], L[j]) \/ d \in RecursiveReports(L[j], L[i])
        \/ d \in InversionReports("GoroutineInversion", L[i], L[j])
  BY DEF GoroutineReports
<1>2. j \in 1..Len(L) /\ L[i] \in S /\ L[j] \in S
  OBVIOUS
<1>3. ASSUME NEW s \in S, NEW t \in S, d \in RecursiveReports(s, t)
      PROVE  AboutPair(d, S)
  <2>1. d = Diagnostic("RecursiveLock", s, t, <<firstRepeatedLock(s.order)>>)
    BY <1>3 DEF RecursiveReports
  <2>2. d.kind = "RecursiveLock" /\ d.at = s.at /\ d.other = t.at
    BY <2>1, DiagnosticFields
  <2> QED
    BY <2>2 DEF AboutPair
<1>4. CASE d \in InversionReports("GoroutineInversion", L[i], L[j])
  <2>1. /\ Inversions(L[i].order, L[j].order) # {}
        /\ d = Diagnostic("GoroutineInversion", L[i], L[j],
                          findOrderInversion(L[i].order, L[j].order))
    BY <1>4 DEF InversionReports
  <2>2. d.at = L[i].at /\ d.other = L[j].at
    BY <2>1, DiagnosticFields
  <2> QED
    BY <1>2, <2>1, <2>2 DEF AboutPair
<1> QED
  BY <1>1, <1>2, <1>3, <1>4

LEMMA SingleThreadedAboutCalls ==
  ASSUME NEW S, NEW L \in Seq(S), NEW i \in 1..Len(L), NEW d \in SingleThreadedReports(L, i)
  PROVE  /\ d.kind = "SingleThreadedInversion"
         /\ \E s, t \in S : d.at = s.at /\ d.other = t.at
<1>1. PICK j \in (i + 1)..Len(L) : d \in InversionReports("SingleThreadedInversion", L[i], L[j])
  BY DEF SingleThreadedReports
<1>2. j \in 1..Len(L) /\ L[i] \in S /\ L[j] \in S
  OBVIOUS
<1>3. d = Diagnostic("SingleThreadedInversion", L[i], L[j],
                     findOrderInversion(L[i].order, L[j].order))
  BY <1>1 DEF InversionReports
<1>4. d.kind = "SingleThreadedInversion" /\ d.at = L[i].at /\ d.other = L[j].at
  BY <1>3, DiagnosticFields
<1> QED
  BY <1>2, <1>4

(***************************************************************************)
(* What two sites of a list that is compared completely have reported.     *)
(***************************************************************************)
PairReported(s, t) ==
  /\ Inversions(s.order, t.order) # {} /\ Inversions(t.order, s.order) # {}
       => Reported("GoroutineInversion", s.at, t.at)
  /\ RecursiveReports(s, t) # {} => Reported("RecursiveLock", s.at, t.at)

LEMMA ListCompared ==
  ASSUME NEW S, NEW L \in Seq(S),
         \A i \in 1..Len(L) : GoroutineReports(L, i) \subseteq reports,
         NEW m \in 1..Len(L), NEW n \in 1..Len(L), m # n
  PROVE  PairReported(L[m], L[n])
<1>1. ASSUME NEW i \in 1..Len(L), NEW j \in 1..Len(L), i < j
      PROVE  PairReported(L[i], L[j]) /\ PairReported(L[j], L[i])
  <2>1. j \in (i + 1)..Len(L)
    BY <1>1
  <2>2. /\ RecursiveReports(L[i], L[j]) \subseteq reports
        /\ RecursiveReports(L[j], L[i]) \subseteq reports
        /\ InversionReports("GoroutineInversion", L[i], L[j]) \subseteq reports
    BY <2>1 DEF GoroutineReports
  <2>3. ASSUME NEW s, NEW t, RecursiveReports(s, t) \subseteq reports, RecursiveReports(s, t) # {}
        PROVE  Reported("RecursiveLock", s.at, t.at)
    <3> DEFINE d == Diagnostic("RecursiveLock", s, t, <<firstRepeatedLock(s.order)>>)
    <3>1. d \in reports
      BY <2>3 DEF RecursiveReports
    <3>2. d.kind = "RecursiveLock" /\ d.at = s.at /\ d.other = t.at
      BY DiagnosticFields
    <3> QED
      BY <3>1, <3>2 DEF Reported
  <2>4. ASSUME Inversions(L[i].order, L[j].order) # {}
        PROVE  /\ Reported("GoroutineInversion", L[i].at, L[j].at)
               /\ Reported("GoroutineInversion", L[j].at, L[i].at)
    <3> DEFINE d == Diagnostic("GoroutineInversion", L[i], L[j],
                               findOrderInversion(L[i].order, L[j].order))
    <3>1. d \in reports
      BY <2>2, <2>4 DEF InversionReports
    <3>2. d.kind = "GoroutineInversion" /\ d.at = L[i].at /\ d.other = L[j].at
      BY DiagnosticFields
    <3> QED
      BY <3>1, <3>2 DEF Reported
  <2> QED
    BY <2>2, <2>3, <2>4 DEF PairReported
<1>2. m < n \/ n < m
  OBVIOUS
<1> QED
  BY <1>1, <1>2

-----------------------------------------------------------------------------
(***************************************************************************)
(* Every report is about two goroutines whose orders are those of the      *)
(* report's sites, or about two calls.                                     *)
(***************************************************************************)
Justified(d) ==
  \/ AboutPair(d, GoSitesOf(pkg))
  \/ d.kind = "SingleThreadedInversion" /\ {d.at, d.other} \subseteq CallPositions(pkg)

SearchInv ==
  /\ pkg \in Packages
  /\ phase \in {"functions", "collect", "compare", "done"}
  /\ todo \subseteq Functions
  /\ next \in 1..(Len(sites) + 1)
  /\ \A d \in reports : Justified(d)

(***************************************************************************)
(* The sites collected are those of the functions visited, each once.      *)
(***************************************************************************)
SitesInv ==
  /\ sites \in Seq(GoSitesOf(pkg))
  /\ \A i, j \in 1..Len(sites) : sites[i].at = sites[j].at => i = j
  /\ phase = "functions" => sites = <<>>
  /\ phase = "collect" =>
       /\ pkg.strict /\ next = 1
       /\ \A i \in 1..Len(sites) : sites[i].at[1] \notin todo
  /\ phase = "compare" => pkg.strict
  /\ phase # "functions" /\ pkg.strict =>
       \A s \in GoSitesOf(pkg) : s.at[1] \in todo \/ \E i \in 1..Len(sites) : sites[i] = s
  /\ phase \in {"compare", "done"} => todo = {}

(***************************************************************************)
(* What has been compared has been reported.                               *)
(***************************************************************************)
ComparedInv ==
  /\ \A f \in Functions :
       phase # "functions" \/ f \notin todo
         => detectGoroutineLockOrderInversions(pkg, f) \subseteq reports
  /\ \A i \in 1..(next - 1) : GoroutineReports(sites, i) \subseteq reports
  /\ phase = "done" /\ pkg.strict => next = Len(sites) + 1

AnalysisInv == SearchInv /\ SitesInv /\ ComparedInv

LEMMA AnalysisInit == Init => AnalysisInv
<1> SUFFICES ASSUME Init
             PROVE  AnalysisInv
  OBVIOUS
<1>1. SearchInv
  BY DEF Init, SearchInv
<1>2. SitesInv
  BY DEF Init, SitesInv
<1>3. ComparedInv
  BY DEF Init, ComparedInv
<1> QED
  BY <1>1, <1>2, <1>3 DEF AnalysisInv

LEMMA AnalyzeFunctionInv ==
  ASSUME AnalysisInv, NEW f \in Functions, AnalyzeFunction(f)
  PROVE  AnalysisInv'
<1>0. /\ phase = "functions" /\ phase' = phase /\ todo' = todo \ {f} /\ f \in todo
      /\ pkg' = pkg /\ sites' = sites /\ next' = next
      /\ reports' = reports \cup detectGoroutineLockOrderInversions(pkg, f)
                      \cup (IF pkg.strict THEN detectSingleThreadedLockOrderInversions(pkg, f) ELSE {})
  BY DEF AnalyzeFunction
<1>1. pkg \in Packages
  BY DEF AnalysisInv, SearchInv
<1>2. \A d \in detectGoroutineLockOrderInversions(pkg, f) : Justified(d)
  <2> SUFFICES ASSUME NEW d \in detectGoroutineLockOrderInversions(pkg, f)
               PROVE  Justified(d)
    OBVIOUS
  <2>1. PICK i \in 1..Len(GoSites(pkg, f)) : d \in GoroutineReports(GoSites(pkg, f), i)
    BY DEF detectGoroutineLockOrderInversions
  <2>2. GoSites(pkg, f) \in Seq(GoSitesIn(pkg, f))
    BY <1>1, GoSitesListed DEF ListsOnce
  <2>3. AboutPair(d, GoSitesIn(pkg, f))
    BY <2>1, <2>2, ReportsAboutPairs
  <2>4. GoSitesIn(pkg, f) \subseteq GoSitesOf(pkg)
    BY DEF GoSitesOf
  <2> QED
    BY <2>3, <2>4 DEF AboutPair, Justified
<1>3. \A d \in detectSingleThreadedLockOrderInversions(pkg, f) : Justified(d)
  <2> SUFFICES ASSUME NEW d \in detectSingleThreadedLockOrderInversions(pkg, f)
               PROVE  Justified(d)
    OBVIOUS
  <2>1. PICK i \in 1..Len(CallSites(pkg, f)) : d \in SingleThreadedReports(CallSites(pkg, f), i)
    BY DEF detectSingleThreadedLockOrderInversions
  <2> DEFINE S == SiteSet(pkg, f, pkg.calls[f], 2)
  <2>2. CallSites(pkg, f) \in Seq(S) /\ \A s \in S : s.at \in CallPositions(pkg)
    BY <1>1, CallSitesListed
  <2> HIDE DEF S
  <2>3. /\ d.kind = "SingleThreadedInversion"
        /\ \E s, t \in S : d.at = s.at /\ d.other = t.at
    BY <2>1, <2>2, SingleThreadedAboutCalls
  <2> QED
    BY <2>2, <2>3 DEF Justified
<1>4. SearchInv'
  <2>1. \A d \in reports' : Justified(d)
    BY <1>0, <1>2, <1>3 DEF AnalysisInv, SearchInv
  <2>2. \A d \in reports' : Justified(d)'
    BY <1>0, <2>1 DEF Justified
  <2> QED
    BY <1>0, <2>2 DEF AnalysisInv, SearchInv
<1>5. SitesInv'
  BY <1>0 DEF AnalysisInv, SitesInv
<1>6. ComparedInv'
  BY <1>0 DEF AnalysisInv, ComparedInv
<1> QED
  BY <1>4, <1>5, <1>6 DEF AnalysisInv

LEMMA FunctionsAnalyzedInv == AnalysisInv /\ FunctionsAnalyzed => AnalysisInv'
<1> SUFFICES ASSUME AnalysisInv, FunctionsAnalyzed
             PROVE  AnalysisInv'
  OBVIOUS
<1>0. /\ phase = "functions" /\ todo = {}
      /\ IF pkg.strict THEN phase' = "collect" /\ todo' = Functions
                       ELSE phase' = "done" /\ todo' = todo
      /\ pkg' = pkg /\ sites' = sites /\ next' = next /\ reports' = reports
  BY DEF FunctionsAnalyzed
<1>1. sites = <<>> /\ Len(sites) = 0 /\ next = 1
  BY <1>0 DEF AnalysisInv, SearchInv, SitesInv
<1>2. \A d : Justified(d)' <=> Justified(d)
  BY <1>0 DEF Justified
<1>3. SearchInv'
  BY <1>0, <1>2 DEF AnalysisInv, SearchInv
<1>4. SitesInv'
  <2>1. \A s \in GoSitesOf(pkg) : s.at[1] \in Functions
    BY GoSiteFacts DEF AnalysisInv, SearchInv
  <2> QED
    BY <1>0, <1>1, <2>1 DEF AnalysisInv, SitesInv
<1>5. ComparedInv'
  BY <1>0, <1>1 DEF AnalysisInv, ComparedInv
<1> QED
  BY <1>3, <1>4, <1>5 DEF AnalysisInv

LEMMA CollectSitesInv ==
  ASSUME AnalysisInv, NEW f \in Functions, CollectSites(f)
  PROVE  AnalysisInv'
<1>0. /\ phase = "collect" /\ phase' = phase /\ todo' = todo \ {f} /\ f \in todo
      /\ pkg' = pkg /\ sites' = sites \o GoSites(pkg, f) /\ next' = next /\ reports' = reports
  BY DEF CollectSites
<1>1. pkg \in Packages
  BY DEF AnalysisInv, SearchInv
<1> DEFINE L == GoSites(pkg, f)
           M == Len(sites)
           N == Len(L)
<1>2. ListsOnce(L, GoSitesIn(pkg, f))
  BY <1>1, GoSitesListed
<1>3. /\ L \in Seq(GoSitesIn(pkg, f))
      /\ \A s \in GoSitesIn(pkg, f) : \E i \in 1..N : L[i] = s
      /\ \A i, j \in 1..N : L[i].at = L[j].at => i = j
  BY <1>2 DEF ListsOnce
<1>4. /\ sites \in Seq(GoSitesOf(pkg)) /\ next = 1 /\ pkg.strict
      /\ \A i, j \in 1..M : sites[i].at = sites[j].at => i = j
      /\ \A i \in 1..M : sites[i].at[1] \notin todo
      /\ \A s \in GoSitesOf(pkg) : s.at[1] \in todo \/ \E i \in 1..M : sites[i] = s
  BY <1>0 DEF AnalysisInv, SitesInv
<1>5. L \in Seq(GoSitesOf(pkg))
  <2>1. GoSitesIn(pkg, f) \subseteq GoSitesOf(pkg)
    BY DEF GoSitesOf
  <2> QED
    BY <1>3, <2>1
<1>6. M \in Nat /\ N \in Nat
  BY <1>4, <1>5
<1>7. /\ sites' \in Seq(GoSitesOf(pkg)) /\ Len(sites') = M + N
      /\ \A i \in 1..M : sites'[i] = sites[i]
      /\ \A i \in 1..N : sites'[M + i] = L[i]
  <2> HIDE DEF L
  <2> QED
    BY <1>0, <1>4, <1>5 DEF L
<1>8. \A i \in 1..N : L[i].at[1] = f
  BY <1>1, <1>3, GoSitePosition
<1> HIDE DEF L, M, N
<1>9. \A i \in 1..(M + N) : i \in 1..M \/ \E k \in 1..N : i = M + k
  <2> SUFFICES ASSUME NEW i \in 1..(M + N), i \notin 1..M
               PROVE  \E k \in 1..N : i = M + k
    OBVIOUS
  <2>1. i - M \in 1..N /\ i = M + (i - M)
    BY <1>6
  <2> QED
    BY <2>1
<1>10. \A i \in 1..M : i \in 1..(M + N)
  BY <1>6
<1>11. \A i \in 1..N : M + i \in 1..(M + N)
  BY <1>6
<1>12. SitesInv'
  <2>1. \A i, j \in 1..(M + N) : sites'[i].at = sites'[j].at => i = j
    <3> SUFFICES ASSUME NEW i \in 1..(M + N), NEW j \in 1..(M + N), sites'[i].at = sites'[j].at
                 PROVE  i = j
      OBVIOUS
    <3>1. \A k \in 1..M, l \in 1..N : sites[k].at # L[l].at
      BY <1>0, <1>4, <1>8
    <3>2. CASE i \in 1..M /\ j \in 1..M
      BY <1>4, <1>7, <3>2
    <3>3. CASE i \in 1..M /\ j \notin 1..M
      BY <1>7, <1>9, <3>1, <3>3
    <3>4. CASE i \notin 1..M /\ j \in 1..M
      BY <1>7, <1>9, <3>1, <3>4
    <3>5. CASE i \notin 1..M /\ j \notin 1..M
      <4>1. PICK k \in 1..N : i = M + k
        BY <1>9, <3>5
      <4>2. PICK l \in 1..N : j = M + l
        BY <1>9, <3>5
      <4>3. L[k].at = L[l].at
        BY <1>7, <4>1, <4>2
      <4> QED
        BY <1>3, <4>1, <4>2, <4>3 DEF N
    <3> QED
      BY <3>2, <3>3, <3>4, <3>5
  <2>2. \A i \in 1..(M + N) : sites'[i].at[1] \notin todo'
    <3> SUFFICES ASSUME NEW i \in 1..(M + N)
                 PROVE  sites'[i].at[1] \notin todo'
      OBVIOUS
    <3>1. CASE i \in 1..M
      BY <1>0, <1>4, <1>7, <3>1
    <3>2. CASE i \notin 1..M
      BY <1>0, <1>7, <1>8, <1>9, <3>2
    <3> QED
      BY <3>1, <3>2
  <2>3. ASSUME NEW s \in GoSitesOf(pkg), s.at[1] \notin todo'
        PROVE  \E i \in 1..(M + N) : sites'[i] = s
    <3>1. CASE s.at[1] \notin todo
      BY <1>4, <1>7, <1>10, <3>1
    <3>2. CASE s.at[1] \in todo
      <4>1. s.at[1] = f
        BY <1>0, <2>3, <3>2
      <4>2. s \in GoSitesIn(pkg, f)
        BY <1>1, <4>1, GoSiteFacts
      <4>3. PICK i \in 1..N : L[i] = s
        BY <1>3, <4>2 DEF N
      <4> QED
        BY <1>7, <1>11, <4>3
    <3> QED
      BY <3>1, <3>2
  <2> QED
    BY <1>0, <1>4, <1>7, <2>1, <2>2, <2>3 DEF SitesInv
<1>13. SearchInv'
  <2>1. \A d : Justified(d)' <=> Justified(d)
    BY <1>0 DEF Justified
  <2>2. next' \in 1..(Len(sites') + 1)
    BY <1>0, <1>4, <1>6, <1>7
  <2> QED
    BY <1>0, <2>1, <2>2 DEF AnalysisInv, SearchInv
<1>14. ComparedInv'
  BY <1>0, <1>4 DEF AnalysisInv, ComparedInv
<1> QED
  BY <1>12, <1>13, <1>14 DEF AnalysisInv

LEMMA SitesCollectedInv == AnalysisInv /\ SitesCollected => AnalysisInv'
<1> SUFFICES ASSUME AnalysisInv, SitesCollected
             PROVE  AnalysisInv'
  OBVIOUS
<1>0. /\ phase = "collect" /\ todo = {} /\ phase' = "compare" /\ todo' = todo
      /\ pkg' = pkg /\ sites' = sites /\ next' = next /\ reports' = reports
  BY DEF SitesCollected
<1>1. \A d : Justified(d)' <=> Justified(d)
  BY <1>0 DEF Justified
<1>2. SearchInv'
  BY <1>0, <1>1 DEF AnalysisInv, SearchInv
<1>3. SitesInv'
  BY <1>0 DEF AnalysisInv, SitesInv
<1>4. ComparedInv'
  BY <1>0 DEF AnalysisInv, ComparedInv
<1> QED
  BY <1>2, <1>3, <1>4 DEF AnalysisInv

LEMMA CompareSiteInv == AnalysisInv /\ CompareSite => AnalysisInv'
<1> SUFFICES ASSUME AnalysisInv, CompareSite
             PROVE  AnalysisInv'
  OBVIOUS
<1>0. /\ phase = "compare" /\ phase' = phase /\ todo' = todo /\ next <= Len(sites)
      /\ pkg' = pkg /\ sites' = sites /\ next' = next + 1
      /\ reports' = reports \cup GoroutineReports(sites, next)
  BY DEF CompareSite
<1>1. sites \in Seq(GoSitesOf(pkg)) /\ Len(sites) \in Nat
  BY DEF AnalysisInv, SitesInv
<1>2. next \in 1..Len(sites)
  BY <1>0, <1>1 DEF AnalysisInv, SearchInv
<1>3. \A d \in GoroutineReports(sites, next) : Justified(d)
  BY <1>1, <1>2, ReportsAboutPairs DEF Justified
<1>4. \A d : Justified(d)' <=> Justified(d)
  BY <1>0 DEF Justified
<1>5. SearchInv'
  <2>1. next' \in 1..(Len(sites') + 1)
    BY <1>0, <1>1, <1>2
  <2> QED
    BY <1>0, <1>3, <1>4, <2>1 DEF AnalysisInv, SearchInv
<1>6. SitesInv'
  BY <1>0 DEF AnalysisInv, SitesInv
<1>7. ComparedInv'
  <2>1. \A i \in 1..(next' - 1) : GoroutineReports(sites', i) \subseteq reports'
    <3> SUFFICES ASSUME NEW i \in 1..(next' - 1)
                 PROVE  GoroutineReports(sites', i) \subseteq reports'
      OBVIOUS
    <3>1. i \in 1..(next - 1) \/ i = next
      BY <1>0, <1>1, <1>2
    <3>2. CASE i = next
      BY <1>0, <3>2
    <3>3. CASE i \in 1..(next - 1)
      BY <1>0, <3>3 DEF AnalysisInv, ComparedInv
    <3> QED
      BY <3>1, <3>2, <3>3
  <2> QED
    BY <1>0, <2>1 DEF AnalysisInv, ComparedInv
<1> QED
  BY <1>5, <1>6, <1>7 DEF AnalysisInv

LEMMA PairsComparedInv == AnalysisInv /\ PairsCompared => AnalysisInv'
<1> SUFFICES ASSUME AnalysisInv, PairsCompared
             PROVE  AnalysisInv'
  OBVIOUS
<1>0. /\ phase = "compare" /\ phase' = "done" /\ todo' = todo /\ next > Len(sites)
      /\ pkg' = pkg /\ sites' = sites /\ next' = next /\ reports' = reports
  BY DEF PairsCompared
<1>1. \A d : Justified(d)' <=> Justified(d)
  BY <1>0 DEF Justified
<1>2. SearchInv'
  BY <1>0, <1>1 DEF AnalysisInv, SearchInv
<1>3. SitesInv'
  BY <1>0 DEF AnalysisInv, SitesInv
<1>4. next = Len(sites) + 1
  <2>1. Len(sites) \in Nat
    BY DEF AnalysisInv, SitesInv
  <2> QED
    BY <1>0, <2>1 DEF AnalysisInv, SearchInv
<1>5. ComparedInv'
  BY <1>0, <1>4 DEF AnalysisInv, ComparedInv
<1> QED
  BY <1>2, <1>3, <1>5 DEF AnalysisInv

LEMMA AnalysisIdle == AnalysisInv /\ UNCHANGED <<pkg, analysisVars>> => AnalysisInv'
BY DEF AnalysisInv, SearchInv, SitesInv, ComparedInv, Justified, analysisVars

LEMMA AnalysisStep == AnalysisInv /\ [Next]_vars => AnalysisInv'
<1> SUFFICES ASSUME AnalysisInv, [Next]_vars
             PROVE  AnalysisInv'
  OBVIOUS
<1>1. CASE Analyze
  BY <1>1, AnalyzeFunctionInv, FunctionsAnalyzedInv, CollectSitesInv, SitesCollectedInv,
     CompareSiteInv, PairsComparedInv DEF Analyze
<1>2. CASE \E g \in Goroutines(pkg) : Perform(g)
  BY <1>2, AnalysisIdle DEF Perform
<1>3. CASE Stopped \/ UNCHANGED vars
  BY <1>3, AnalysisIdle DEF Stopped, vars
<1> QED
  BY <1>1, <1>2, <1>3 DEF Next

-----------------------------------------------------------------------------
(***************************************************************************)
(* The run of the goroutines.                                              *)
(***************************************************************************)
Objs == {r.obj : r \in RefsOf(pkg)}

RunTypes ==
  /\ progress \in [Goroutines(pkg) -> Nat]
  /\ held \in [Goroutines(pkg) -> SUBSET Objs]
  /\ \A g \in Goroutines(pkg) : progress[g] <= Len(OperationsOf(g))

\* A lock is held by one goroutine at a time.
Exclusive ==
  \A g, h \in Goroutines(pkg) : g # h => held[g] \cap held[h] = {}

\* A lock that is held has been taken, one that was taken is held or given back.
HeldTaken ==
  \A g \in Goroutines(pkg) : \A l \in held[g] : \E i \in 1..progress[g] :
    OperationsOf(g)[i] = [op |-> "lock", lock |-> l]

TakenHeld ==
  \A g \in Goroutines(pkg) : \A i \in 1..progress[g] :
    OperationsOf(g)[i].op = "lock" =>
      \/ OperationsOf(g)[i].lock \in held[g]
      \/ \E j \in (i + 1)..progress[g] :
           OperationsOf(g)[j] = [op |-> "unlock", lock |-> OperationsOf(g)[i].lock]

RunInv == pkg \in Packages /\ RunTypes /\ Exclusive /\ HeldTaken /\ TakenHeld

LEMMA OperationsType ==
  ASSUME pkg \in Packages, NEW g \in Goroutines(pkg)
  PROVE  /\ OperationsOf(g) \in Seq(OpsOf(pkg)) /\ OrderOf(g) \in Seq(RefsOf(pkg))
         /\ Follows(OperationsOf(g), OrderOf(g))
<1>1. Launched(pkg, g) \in Functions
  BY GoroutineFacts
<1> QED
  BY <1>1, OperationsFollow DEF OperationsOf, OrderOf, Launched

LEMMA RunInit == Init => RunInv
<1> SUFFICES ASSUME Init
             PROVE  RunInv
  OBVIOUS
<1>1. /\ pkg \in Packages
      /\ progress = [g \in Goroutines(pkg) |-> 0] /\ held = [g \in Goroutines(pkg) |-> {}]
  BY DEF Init
<1>2. \A g \in Goroutines(pkg) : progress[g] = 0 /\ held[g] = {}
  BY <1>1
<1>3. RunTypes
  <2>1. \A g \in Goroutines(pkg) : Len(OperationsOf(g)) \in Nat
    BY <1>1, OperationsType
  <2> QED
    BY <1>1, <2>1 DEF RunTypes
<1>4. Exclusive /\ HeldTaken
  BY <1>2 DEF Exclusive, HeldTaken
<1>5. TakenHeld
  BY <1>2 DEF TakenHeld
<1> QED
  BY <1>1, <1>3, <1>4, <1>5 DEF RunInv

LEMMA RunIdle == RunInv /\ pkg' = pkg /\ UNCHANGED runVars => RunInv'
<1> SUFFICES ASSUME RunInv, pkg' = pkg, UNCHANGED runVars
             PROVE  RunInv'
  OBVIOUS
<1>1. progress' = progress /\ held' = held
  BY DEF runVars
<1>2. RunTypes'
  BY <1>1 DEF RunInv, RunTypes, Objs, OperationsOf
<1>3. Exclusive'
  BY <1>1 DEF RunInv, Exclusive
<1>4. HeldTaken'
  <2>1. HeldTaken
    BY DEF RunInv
  <2> QED
    BY <1>1, <2>1 DEF HeldTaken, OperationsOf
<1>5. TakenHeld'
  <2>1. TakenHeld
    BY DEF RunInv
  <2>2. \A g : OperationsOf(g)' = OperationsOf(g)
    BY DEF OperationsOf
  <2> SUFFICES ASSUME NEW g \in Goroutines(pkg), NEW i \in 1..progress[g],
                      OperationsOf(g)[i].op = "lock"
               PROVE  \/ OperationsOf(g)[i].lock \in held[g]
                      \/ \E j \in (i + 1)..progress[g] :
                           OperationsOf(g)[j] = [op |-> "unlock", lock |-> OperationsOf(g)[i].lock]
    BY <1>1, <2>2 DEF TakenHeld
  <2> QED
    BY <2>1 DEF TakenHeld
<1> QED
  BY <1>2, <1>3, <1>4, <1>5 DEF RunInv

LEMMA PerformRun ==
  ASSUME RunInv, NEW g \in Goroutines(pkg), Perform(g)
  PROVE  RunInv'
<1> DEFINE G == Goroutines(pkg)
           ops == OperationsOf(g)
           n == progress[g] + 1
           l == ops[n].lock
           mine == IF ops[n].op = "lock" THEN held[g] \cup {l} ELSE held[g] \ {l}
<1>0. /\ pkg' = pkg /\ ~Ended(g) /\ ~Blocked(g)
      /\ progress' = [progress EXCEPT ![g] = n]
      /\ held' = [held EXCEPT ![g] = mine]
  BY DEF Perform, NextOp
<1>1. /\ pkg \in Packages /\ progress \in [G -> Nat] /\ held \in [G -> SUBSET Objs]
      /\ \A h \in G : progress[h] <= Len(OperationsOf(h))
  BY DEF RunInv, RunTypes
<1>2. ops \in Seq(OpsOf(pkg))
  BY <1>1, OperationsType
<1>3. progress[g] \in Nat /\ n \in 1..Len(ops) /\ Len(ops) \in Nat
  <2>1. progress[g] # Len(ops) /\ progress[g] <= Len(ops)
    BY <1>0, <1>1 DEF Ended
  <2>2. Len(ops) \in Nat
    BY <1>2
  <2> QED
    BY <1>1, <2>1, <2>2
<1>4. ops[n] \in OpsOf(pkg)
  BY <1>2, <1>3
<1>5. l \in Objs /\ ops[n].op \in {"lock", "unlock"} /\ ops[n] = [op |-> ops[n].op, lock |-> l]
  BY <1>4 DEF OpsOf, Objs
<1>6. mine \in SUBSET Objs
  BY <1>1, <1>5
<1>7. /\ progress'[g] = n /\ held'[g] = mine
      /\ \A h \in G : h # g => progress'[h] = progress[h] /\ held'[h] = held[h]
  BY <1>0, <1>1
<1>8. \A h \in G : OperationsOf(h)' = OperationsOf(h)
  BY <1>0 DEF OperationsOf
<1>9. ops[n].op = "lock" => \A h \in G : l \notin held[h]
  BY <1>0 DEF Blocked, WaitsFor, NextOp
<1> HIDE DEF n, l, mine, ops, G
<1>10. RunTypes'
  <2>1. progress' \in [G -> Nat]
    <3>1. n \in Nat
      BY <1>3
    <3> QED
      BY <1>0, <1>1, <3>1
  <2>2. held' \in [G -> SUBSET Objs]
    BY <1>0, <1>1, <1>6
  <2>3. \A h \in G : progress'[h] <= Len(OperationsOf(h))
    BY <1>1, <1>3, <1>7 DEF ops
  <2>4. Objs' = Objs /\ Goroutines(pkg') = G
    BY <1>0 DEF Objs, G
  <2> QED
    BY <1>0, <1>8, <2>1, <2>2, <2>3, <2>4 DEF RunTypes
<1>11. Exclusive'
  <2> SUFFICES ASSUME NEW a \in G, NEW b \in G, a # b
               PROVE  held'[a] \cap held'[b] = {}
    BY <1>0 DEF Exclusive, G
  <2>1. held[a] \cap held[b] = {}
    BY DEF RunInv, Exclusive, G
  <2>2. CASE a # g /\ b # g
    BY <1>7, <2>1, <2>2
  <2>3. CASE a = g \/ b = g
    BY <1>7, <1>9, <2>1, <2>3 DEF mine
  <2> QED
    BY <2>2, <2>3
<1>12. HeldTaken'
  <2> SUFFICES ASSUME NEW h \in G, NEW k \in held'[h]
               PROVE  \E i \in 1..progress'[h] : OperationsOf(h)[i] = [op |-> "lock", lock |-> k]
    BY <1>0, <1>8 DEF HeldTaken, G
  <2>0. \A j \in held[h] : \E i \in 1..progress[h] : OperationsOf(h)[i] = [op |-> "lock", lock |-> j]
    BY DEF RunInv, HeldTaken, G
  <2>1. CASE h # g
    BY <1>7, <2>0, <2>1
  <2>2. CASE h = g /\ k \in held[g]
    <3>1. PICK i \in 1..progress[g] : ops[i] = [op |-> "lock", lock |-> k]
      BY <2>0, <2>2 DEF ops
    <3>2. i \in 1..n
      BY <1>3 DEF n
    <3> QED
      BY <1>7, <2>2, <3>1, <3>2 DEF ops
  <2>3. CASE h = g /\ k \notin held[g]
    <3>1. ops[n].op = "lock" /\ k = l
      BY <1>7, <2>3 DEF mine
    <3>2. ops[n] = [op |-> "lock", lock |-> k]
      BY <1>5, <3>1
    <3>3. n \in 1..n
      BY <1>3
    <3> QED
      BY <1>7, <2>3, <3>2, <3>3 DEF ops
  <2> QED
    BY <2>1, <2>2, <2>3
<1>13. TakenHeld'
  <2> SUFFICES ASSUME NEW h \in G, NEW i \in 1..progress'[h], OperationsOf(h)[i].op = "lock"
               PROVE  \/ OperationsOf(h)[i].lock \in held'[h]
                      \/ \E j \in (i + 1)..progress'[h] :
                           OperationsOf(h)[j] = [op |-> "unlock", lock |-> OperationsOf(h)[i].lock]
    BY <1>0, <1>8 DEF TakenHeld, G
  <2>0. \A m \in 1..progress[h] :
          OperationsOf(h)[m].op = "lock" =>
            \/ OperationsOf(h)[m].lock \in held[h]
            \/ \E j \in (m + 1)..progress[h] :
                 OperationsOf(h)[j] = [op |-> "unlock", lock |-> OperationsOf(h)[m].lock]
    BY DEF RunInv, TakenHeld, G
  <2>1. CASE h # g
    BY <1>7, <2>0, <2>1
  <2>2. CASE h = g /\ i = n
    <3>1. l \in held'[g]
      BY <1>7, <2>2 DEF mine, ops
    <3> QED
      BY <2>2, <3>1 DEF l, ops
  <2>3. CASE h = g /\ i # n
    <3>1. i \in 1..progress[g] /\ progress'[g] = n /\ ops[i].op = "lock"
      BY <1>3, <1>7, <2>3 DEF n, ops
    <3>2. \A j \in (i + 1)..progress[g] : j \in (i + 1)..n
      BY <1>3 DEF n
    <3>3. n \in (i + 1)..n
      BY <1>3, <3>1 DEF n
    <3>4. CASE \E j \in (i + 1)..progress[g] : ops[j] = [op |-> "unlock", lock |-> ops[i].lock]
      BY <2>3, <3>1, <3>2, <3>4 DEF ops
    <3>5. CASE ops[i].lock \in held[g] /\ ops[i].lock \in held'[g]
      BY <2>3, <3>5 DEF ops
    <3>6. CASE ops[i].lock \in held[g] /\ ops[i].lock \notin held'[g]
      <4>1. ops[n].op # "lock" /\ ops[i].lock = l
        BY <1>7, <3>6 DEF mine
      <4>2. ops[n] = [op |-> "unlock", lock |-> ops[i].lock]
        BY <1>5, <4>1
      <4> QED
        BY <2>3, <3>1, <3>3, <4>2 DEF ops
    <3> QED
      BY <2>0, <2>3, <3>1, <3>4, <3>5, <3>6 DEF ops
  <2> QED
    BY <2>1, <2>2, <2>3
<1> QED
  BY <1>0, <1>1, <1>10, <1>11, <1>12, <1>13 DEF RunInv

LEMMA RunStep == RunInv /\ [Next]_vars => RunInv'
<1> SUFFICES ASSUME RunInv, [Next]_vars
             PROVE  RunInv'
  OBVIOUS
<1>1. CASE Analyze
  <2>1. pkg' = pkg /\ UNCHANGED runVars
    BY <1>1 DEF Analyze, AnalyzeFunction, FunctionsAnalyzed, CollectSites, SitesCollected,
                CompareSite, PairsCompared
  <2> QED
    BY <2>1, RunIdle
<1>2. CASE \E g \in Goroutines(pkg) : Perform(g)
  BY <1>2, PerformRun
<1>3. CASE Stopped \/ UNCHANGED vars
  BY <1>3, RunIdle DEF Stopped, vars
<1> QED
  BY <1>1, <1>2, <1>3 DEF Next

-----------------------------------------------------------------------------
Inv == AnalysisInv /\ RunInv

LEMMA Invariance == Spec => []Inv
<1>1. Init => Inv
  BY AnalysisInit, RunInit DEF Inv
<1>2. Inv /\ [Next]_vars => Inv'
  BY AnalysisStep, RunStep DEF Inv
<1> QED
  BY <1>1, <1>2, PTL DEF Spec

(***************************************************************************)
(* The search never leaves the types of its variables: in particular it    *)
(* compares sites only and reports go statements and calls of the package. *)
(***************************************************************************)
THEOREM TypeCorrect == Spec => []TypeOK
<1>1. Inv => TypeOK
  <2> SUFFICES ASSUME Inv
               PROVE  TypeOK
    OBVIOUS
  <2>1. /\ phase \in {"functions", "collect", "compare", "done"}
        /\ todo \subseteq Functions /\ next \in 1..(Len(sites) + 1)
    BY DEF Inv, AnalysisInv, SearchInv
  <2>2. progress \in [Goroutines(pkg) -> Nat] /\ DOMAIN held = Goroutines(pkg)
    BY DEF Inv, RunInv, RunTypes
  <2>3. ASSUME NEW d \in reports
        PROVE  {d.at, d.other} \subseteq Goroutines(pkg) \cup CallPositions(pkg)
    <3>1. Justified(d) /\ pkg \in Packages
      BY DEF Inv, AnalysisInv, SearchInv
    <3>2. CASE AboutPair(d, GoSitesOf(pkg))
      BY <3>1, <3>2, GoSiteFacts DEF AboutPair
    <3> QED
      BY <3>1, <3>2 DEF Justified
  <2> QED
    BY <2>1, <2>2, <2>3 DEF TypeOK, CallPositions
<1> QED
  BY <1>1, Invariance, PTL

-----------------------------------------------------------------------------
(***************************************************************************)
(* Two goroutines that the mode compares are two sites of a list that has  *)
(* been compared completely.                                               *)
(***************************************************************************)
LEMMA AllPairsCompared ==
  ASSUME Inv, phase = "done", NEW g \in Goroutines(pkg), NEW h \in Goroutines(pkg),
         Compared(g, h), Len(OrderOf(g)) >= 1, Len(OrderOf(h)) >= 1
  PROVE  \E s, t : /\ s.at = g /\ t.at = h
                   /\ s.order = OrderOf(g) /\ t.order = OrderOf(h)
                   /\ PairReported(s, t)
<1>1. pkg \in Packages
  BY DEF Inv, AnalysisInv, SearchInv
<1>2. \A e \in Goroutines(pkg) :
        OrderOf(e) = collectTransitiveAcquireOrder(pkg, Launched(pkg, e))
  BY DEF OrderOf, Launched
<1>3. PICK s \in GoSitesIn(pkg, g[1]) : s.at = g
  BY <1>1, <1>2, GoroutineFacts
<1>4. PICK t \in GoSitesIn(pkg, h[1]) : t.at = h
  BY <1>1, <1>2, GoroutineFacts
<1>5. g[1] \in Functions /\ h[1] \in Functions
  BY <1>1, GoroutineFacts
<1>6. s \in GoSitesOf(pkg) /\ t \in GoSitesOf(pkg)
  BY <1>1, <1>5, GoSitePosition
<1>7. s.order = OrderOf(g) /\ t.order = OrderOf(h)
  BY <1>1, <1>2, <1>3, <1>4, <1>6, GoSiteFacts
<1>8. s # t
  BY <1>3, <1>4 DEF Compared
<1>9. CASE pkg.strict
  <2>1. /\ sites \in Seq(GoSitesOf(pkg)) /\ Len(sites) \in Nat
        /\ todo = {} /\ next = Len(sites) + 1
        /\ \A e \in GoSitesOf(pkg) : \E i \in 1..Len(sites) : sites[i] = e
    BY <1>9 DEF Inv, AnalysisInv, SitesInv, ComparedInv
  <2>2. \A i \in 1..Len(sites) : GoroutineReports(sites, i) \subseteq reports
    BY <2>1 DEF Inv, AnalysisInv, ComparedInv
  <2>3. PICK m \in 1..Len(sites) : sites[m] = s
    BY <1>6, <2>1
  <2>4. PICK n \in 1..Len(sites) : sites[n] = t
    BY <1>6, <2>1
  <2>5. m # n
    BY <1>8, <2>3, <2>4
  <2>6. PairReported(sites[m], sites[n])
    BY <2>1, <2>2, <2>5, ListCompared
  <2> QED
    BY <1>3, <1>4, <1>7, <2>3, <2>4, <2>6
<1>10. CASE ~pkg.strict
  <2> DEFINE L == GoSites(pkg, g[1])
  <2>1. ListsOnce(L, GoSitesIn(pkg, g[1]))
    BY <1>1, <1>5, GoSitesListed
  <2>2. g[1] = h[1]
    BY <1>10 DEF Compared
  <2>3. \A i \in 1..Len(L) : GoroutineReports(L, i) \subseteq reports
    <3>1. detectGoroutineLockOrderInversions(pkg, g[1]) \subseteq reports
      BY <1>5 DEF Inv, AnalysisInv, ComparedInv
    <3> QED
      BY <3>1 DEF detectGoroutineLockOrderInversions
  <2> HIDE DEF L
  <2>4. PICK m \in 1..Len(L) : L[m] = s
    BY <1>3, <2>1 DEF ListsOnce
  <2>5. PICK n \in 1..Len(L) : L[n] = t
    BY <1>4, <2>1, <2>2 DEF ListsOnce
  <2>6. m # n
    BY <1>8, <2>4, <2>5
  <2>7. L \in Seq(GoSitesIn(pkg, g[1]))
    BY <2>1 DEF ListsOnce
  <2>8. PairReported(L[m], L[n])
    BY <2>3, <2>6, <2>7, ListCompared
  <2> QED
    BY <1>3, <1>4, <1>7, <2>4, <2>5, <2>8
<1> QED
  BY <1>9, <1>10

(***************************************************************************)
(* Orders are compared by the objects of their locks.                      *)
(***************************************************************************)
LEMMA SameLockObjects ==
  ASSUME NEW p, Resolved(p), NamesDistinct(p), NEW r \in RefsOf(p), NEW s \in RefsOf(p)
  PROVE  sameLock(r, s) <=> r.obj = s.obj
BY DEF sameLock, Resolved, NamesDistinct

LEMMA FirstOfSet ==
  ASSUME NEW T \in SUBSET Nat, T # {}
  PROVE  First(T) \in T /\ \A k \in T : First(T) <= k
<1>1. \E m \in T : \A k \in T : m <= k
  BY LeastElement
<1> QED
  BY <1>1 DEF First

LEMMA FirstOccurrence ==
  ASSUME NEW p, Resolved(p), NamesDistinct(p),
         NEW b \in Seq(RefsOf(p)), NEW r \in RefsOf(p)
  PROVE  /\ containsLock(b, r) <=> \E k \in 1..Len(b) : b[k].obj = r.obj
         /\ containsLock(b, r) =>
              /\ indexOfLock(b, r) \in 1..Len(b) /\ b[indexOfLock(b, r)].obj = r.obj
              /\ \A k \in 1..Len(b) : b[k].obj = r.obj => indexOfLock(b, r) <= k
<1>1. \A k \in 1..Len(b) : sameLock(b[k], r) <=> b[k].obj = r.obj
  BY SameLockObjects
<1>2. Occurrences(b, r) = {k \in 1..Len(b) : b[k].obj = r.obj}
  BY <1>1 DEF Occurrences
<1>3. Occurrences(b, r) \in SUBSET Nat
  BY DEF Occurrences
<1>4. containsLock(b, r) =>
        /\ indexOfLock(b, r) \in Occurrences(b, r)
        /\ \A k \in Occurrences(b, r) : indexOfLock(b, r) <= k
  BY <1>3, FirstOfSet DEF containsLock, indexOfLock
<1> QED
  BY <1>2, <1>4 DEF containsLock

LEMMA InversionFound ==
  ASSUME NEW p, Resolved(p), NamesDistinct(p),
         NEW a \in Seq(RefsOf(p)), NEW b \in Seq(RefsOf(p)),
         NEW i \in 1..Len(a), NEW j \in 1..Len(a), i < j, a[i].obj # a[j].obj,
         NEW k \in 1..Len(b), b[k].obj = a[j].obj,
         NEW l \in 1..Len(b), b[l].obj = a[i].obj,
         \A m \in 1..Len(b) : b[m].obj = a[i].obj => k < m
  PROVE  Inversions(a, b) # {}
<1>1. a[i] \in RefsOf(p) /\ a[j] \in RefsOf(p)
  OBVIOUS
<1>2. ~sameLock(a[i], a[j])
  BY <1>1, SameLockObjects
<1>3. containsLock(b, a[i]) /\ containsLock(b, a[j])
  BY <1>1, FirstOccurrence
<1>4. indexOfLock(b, a[j]) \in 1..Len(b) /\ indexOfLock(b, a[j]) <= k
  BY <1>1, <1>3, FirstOccurrence
<1>5. indexOfLock(b, a[i]) \in 1..Len(b) /\ b[indexOfLock(b, a[i])].obj = a[i].obj
  BY <1>1, <1>3, FirstOccurrence
<1>6. indexOfLock(b, a[j]) < indexOfLock(b, a[i])
  <2>1. k < indexOfLock(b, a[i])
    BY <1>5
  <2>2. Len(b) \in Nat
    OBVIOUS
  <2> QED
    BY <1>4, <1>5, <2>1, <2>2
<1>7. <<i, j>> \in Inversions(a, b)
  BY <1>2, <1>3, <1>6 DEF Inversions
<1> QED
  BY <1>7

(***************************************************************************)
(* Inverted, without the sets of pairs.                                    *)
(***************************************************************************)
Opposed(a, b) ==
  \E i, j \in 1..Len(a) : \E k, l \in 1..Len(b) :
    /\ i < j /\ k < l /\ a[i].obj # a[j].obj
    /\ b[k].obj = a[j].obj /\ b[l].obj = a[i].obj

LEMMA InversionTaken ==
  ASSUME NEW p, Resolved(p), NamesDistinct(p),
         NEW a \in Seq(RefsOf(p)), NEW b \in Seq(RefsOf(p)), Inversions(a, b) # {}
  PROVE  Opposed(a, b)
<1>1. PICK ij \in (1..Len(a)) \X (1..Len(a)) :
        /\ ij[1] < ij[2] /\ ~sameLock(a[ij[1]], a[ij[2]])
        /\ containsLock(b, a[ij[1]]) /\ containsLock(b, a[ij[2]])
        /\ indexOfLock(b, a[ij[2]]) < indexOfLock(b, a[ij[1]])
  BY DEF Inversions
<1> DEFINE i == ij[1]
           j == ij[2]
           k == indexOfLock(b, a[j])
           l == indexOfLock(b, a[i])
<1>2. i \in 1..Len(a) /\ j \in 1..Len(a)
  OBVIOUS
<1>3. a[i] \in RefsOf(p) /\ a[j] \in RefsOf(p)
  BY <1>2
<1>4. a[i].obj # a[j].obj
  BY <1>1, <1>3, SameLockObjects
<1>5. k \in 1..Len(b) /\ b[k].obj = a[j].obj /\ l \in 1..Len(b) /\ b[l].obj = a[i].obj
  BY <1>1, <1>3, FirstOccurrence
<1> QED
  BY <1>1, <1>2, <1>4, <1>5 DEF Opposed

LEMMA TakenBeforePairs ==
  ASSUME NEW order, NEW x, NEW y
  PROVE  <<x, y>> \in TakenBefore(order) <=>
           \E i, j \in 1..Len(order) : i < j /\ order[i].obj = x /\ order[j].obj = y
<1>1. ASSUME <<x, y>> \in TakenBefore(order)
      PROVE  \E i, j \in 1..Len(order) : i < j /\ order[i].obj = x /\ order[j].obj = y
  <2>1. PICK ij \in (1..Len(order)) \X (1..Len(order)) :
          ij[1] < ij[2] /\ <<x, y>> = <<order[ij[1]].obj, order[ij[2]].obj>>
    BY <1>1 DEF TakenBefore
  <2> QED
    BY <2>1
<1>2. ASSUME NEW i \in 1..Len(order), NEW j \in 1..Len(order),
             i < j, order[i].obj = x, order[j].obj = y
      PROVE  <<x, y>> \in TakenBefore(order)
  <2>1. <<i, j>> \in {pq \in (1..Len(order)) \X (1..Len(order)) : pq[1] < pq[2]}
    BY <1>2
  <2> QED
    BY <1>2, <2>1 DEF TakenBefore
<1> QED
  BY <1>1, <1>2

LEMMA InvertedOpposed ==
  ASSUME NEW g, NEW h
  PROVE  Inverted(g, h) <=> Opposed(OrderOf(g), OrderOf(h))
<1> DEFINE a == OrderOf(g)
           b == OrderOf(h)
<1>1. ASSUME Inverted(g, h)
      PROVE  Opposed(a, b)
  <2>1. PICK xy \in TakenBefore(a) : xy[1] # xy[2] /\ <<xy[2], xy[1]>> \in TakenBefore(b)
    BY <1>1 DEF Inverted
  <2>2. xy = <<xy[1], xy[2]>>
    BY DEF TakenBefore
  <2>3. PICK i \in 1..Len(a), j \in 1..Len(a) : i < j /\ a[i].obj = xy[1] /\ a[j].obj = xy[2]
    BY <2>2, TakenBeforePairs
  <2>4. PICK k \in 1..Len(b), l \in 1..Len(b) : k < l /\ b[k].obj = xy[2] /\ b[l].obj = xy[1]
    BY <2>1, TakenBeforePairs
  <2> QED
    BY <2>1, <2>3, <2>4 DEF Opposed
<1>2. ASSUME Opposed(a, b)
      PROVE  Inverted(g, h)
  <2>1. PICK i \in 1..Len(a), j \in 1..Len(a) : \E k, l \in 1..Len(b) :
               /\ i < j /\ k < l /\ a[i].obj # a[j].obj
               /\ b[k].obj = a[j].obj /\ b[l].obj = a[i].obj
    BY <1>2 DEF Opposed
  <2> DEFINE x == a[i].obj
             y == a[j].obj
  <2>2. <<x, y>> \in TakenBefore(a) /\ <<y, x>> \in TakenBefore(b) /\ x # y
    BY <2>1, TakenBeforePairs
  <2> HIDE DEF x, y
  <2>3. <<x, y>>[1] = x /\ <<x, y>>[2] = y
    OBVIOUS
  <2> QED
    BY <2>2, <2>3 DEF Inverted
<1> QED
  BY <1>1, <1>2

LEMMA OpposedSymmetric ==
  ASSUME NEW a, NEW b, Opposed(a, b)
  PROVE  Opposed(b, a)
<1>1. PICK i \in 1..Len(a), j \in 1..Len(a) : \E k, l \in 1..Len(b) :
             /\ i < j /\ k < l /\ a[i].obj # a[j].obj
             /\ b[k].obj = a[j].obj /\ b[l].obj = a[i].obj
  BY DEF Opposed
<1>2. PICK k \in 1..Len(b), l \in 1..Len(b) :
             /\ i < j /\ k < l /\ a[i].obj # a[j].obj
             /\ b[k].obj = a[j].obj /\ b[l].obj = a[i].obj
  BY <1>1
<1>3. b[k].obj # b[l].obj /\ a[i].obj = b[l].obj /\ a[j].obj = b[k].obj
  BY <1>2
<1>4. \E c, d \in 1..Len(a) :
        /\ k < l /\ c < d /\ b[k].obj # b[l].obj
        /\ a[c].obj = b[l].obj /\ a[d].obj = b[k].obj
  BY <1>2, <1>3
<1> QED
  BY <1>4 DEF Opposed

(***************************************************************************)
(* A goroutine that waits for a lock takes it, in its order, after every   *)
(* lock it holds; when it takes no lock again it takes it for the first    *)
(* time, unless it holds it.                                               *)
(***************************************************************************)
HeldBefore(order, y, x) ==
  \E k, l \in 1..Len(order) : k < l /\ order[k].obj = y /\ order[l].obj = x

HeldBeforeFirst(order, y, x) ==
  \E k, l \in 1..Len(order) :
    /\ k < l /\ order[k].obj = y /\ order[l].obj = x
    /\ \A q \in 1..Len(order) : order[q].obj = x => k < q

LEMMA TakenInOrder ==
  ASSUME NEW p, NEW ops \in Seq(OpsOf(p)), NEW order \in Seq(RefsOf(p)), Follows(ops, order),
         NEW i \in 1..Len(ops), NEW n \in 1..Len(ops), i < n, NEW x, NEW y,
         ops[i] = [op |-> "lock", lock |-> y], ops[n] = [op |-> "lock", lock |-> x]
  PROVE  /\ HeldBefore(order, y, x)
         /\ (\A e \in 1..Len(ops) : e < n => ops[e] # [op |-> "lock", lock |-> x])
              => HeldBeforeFirst(order, y, x)
<1>1. PICK m : Matches(m, ops, order)
  BY DEF Follows
<1>2. Len(ops) \in Nat /\ Len(order) \in Nat
  OBVIOUS
<1>3. \A q \in 1..Len(order) : m[q] \in 1..Len(ops)
  BY <1>1 DEF Matches
<1>4. \A q \in 1..Len(order) : ops[m[q]] = [op |-> "lock", lock |-> order[q].obj]
  BY <1>1 DEF Matches
<1>5. PICK k \in 1..Len(order) : m[k] = i
  BY <1>1 DEF Matches
<1>6. PICK l \in 1..Len(order) : m[l] = n
  BY <1>1 DEF Matches
<1>7. order[k].obj = y /\ order[l].obj = x
  <2>1. ops[i] = [op |-> "lock", lock |-> order[k].obj]
    BY <1>4, <1>5
  <2>2. ops[n] = [op |-> "lock", lock |-> order[l].obj]
    BY <1>4, <1>6
  <2>3. \A u, v : [op |-> "lock", lock |-> u] = [op |-> "lock", lock |-> v] => u = v
    <3> SUFFICES ASSUME NEW u, NEW v, [op |-> "lock", lock |-> u] = [op |-> "lock", lock |-> v]
                 PROVE  u = v
      OBVIOUS
    <3>1. [op |-> "lock", lock |-> u].lock = [op |-> "lock", lock |-> v].lock
      OBVIOUS
    <3> QED
      BY <3>1
  <2> QED
    BY <2>1, <2>2, <2>3
<1>8. ASSUME NEW q \in 1..Len(order), m[k] < m[q]
      PROVE  k < q
  <2>1. ~(q < k)
    <3>1. q < k => m[q] < m[k]
      BY <1>1 DEF Matches
    <3> QED
      BY <1>3, <1>8, <3>1
  <2>2. q # k
    BY <1>3, <1>8
  <2> QED
    BY <2>1, <2>2
<1>9. k < l
  BY <1>5, <1>6, <1>8
<1>10. ASSUME \A e \in 1..Len(ops) : e < n => ops[e] # [op |-> "lock", lock |-> x],
              NEW q \in 1..Len(order), order[q].obj = x
       PROVE  k < q
  <2>1. ~(m[q] < n)
    BY <1>3, <1>4, <1>10
  <2>2. m[k] < m[q]
    BY <1>3, <1>5, <2>1
  <2> QED
    BY <1>8, <2>2
<1> QED
  BY <1>7, <1>9, <1>10 DEF HeldBefore, HeldBeforeFirst

LEMMA WaitingTakes ==
  ASSUME Inv, NEW g \in Goroutines(pkg), NEW h, WaitsFor(g, h), NEW y \in held[g]
  PROVE  /\ HeldBefore(OrderOf(g), y, NextOp(g).lock)
         /\ NeverRetaken(pkg) /\ NextOp(g).lock \notin held[g]
              => HeldBeforeFirst(OrderOf(g), y, NextOp(g).lock)
<1> DEFINE ops == OperationsOf(g)
           n == progress[g] + 1
           x == NextOp(g).lock
<1>1. pkg \in Packages /\ progress[g] \in Nat /\ progress[g] <= Len(ops)
  BY DEF Inv, RunInv, RunTypes
<1>2. /\ ops \in Seq(OpsOf(pkg)) /\ OrderOf(g) \in Seq(RefsOf(pkg))
      /\ Follows(ops, OrderOf(g)) /\ Len(ops) \in Nat
  BY <1>1, OperationsType
<1>3. n \in 1..Len(ops) /\ 1..progress[g] \subseteq 1..Len(ops)
  BY <1>1, <1>2 DEF WaitsFor, Ended
<1>4. ops[n] = [op |-> "lock", lock |-> x]
  <2>1. ops[n] \in OpsOf(pkg)
    BY <1>2, <1>3
  <2>2. ops[n].op = "lock" /\ x = ops[n].lock
    BY DEF WaitsFor, NextOp
  <2> QED
    BY <2>1, <2>2 DEF OpsOf
<1>5. PICK i \in 1..progress[g] : ops[i] = [op |-> "lock", lock |-> y]
  BY DEF Inv, RunInv, HeldTaken
<1>6. i \in 1..Len(ops) /\ i < n
  BY <1>1, <1>3
<1>7. ASSUME NeverRetaken(pkg), x \notin held[g],
             NEW e \in 1..Len(ops), e < n, ops[e] = [op |-> "lock", lock |-> x]
      PROVE  FALSE
  <2>1. e \in 1..progress[g]
    BY <1>1, <1>7
  <2>2. \/ ops[e].lock \in held[g]
        \/ \E j \in (e + 1)..progress[g] : ops[j] = [op |-> "unlock", lock |-> ops[e].lock]
    BY <1>7, <2>1 DEF Inv, RunInv, TakenHeld
  <2>3. PICK j \in (e + 1)..progress[g] : ops[j] = [op |-> "unlock", lock |-> x]
    BY <1>7, <2>2
  <2>4. j \in 1..Len(ops) /\ j < n
    BY <1>1, <1>3, <2>1
  <2>5. \A c, d \in 1..Len(ops) :
          c < d /\ ops[c].op = "unlock" /\ ops[d].op = "lock" => ops[c].lock # ops[d].lock
    BY <1>7 DEF NeverRetaken, OperationsOf
  <2>6. ops[j].op = "unlock" /\ ops[j].lock = x /\ ops[n].op = "lock" /\ ops[n].lock = x
    BY <1>4, <2>3
  <2> QED
    BY <1>3, <2>4, <2>5, <2>6
<1> HIDE DEF ops, n, x
<1>8. /\ HeldBefore(OrderOf(g), y, x)
      /\ (\A e \in 1..Len(ops) : e < n => ops[e] # [op |-> "lock", lock |-> x])
              => HeldBeforeFirst(OrderOf(g), y, x)
  BY <1>2, <1>3, <1>4, <1>5, <1>6, TakenInOrder
<1> QED
  BY <1>7, <1>8 DEF x

(***************************************************************************)
(* Orders that take two locks against each other, the first time they take *)
(* them, disagree in both directions.                                      *)
(***************************************************************************)
LEMMA CrossedInversions ==
  ASSUME NEW p, Resolved(p), NamesDistinct(p),
         NEW a \in Seq(RefsOf(p)), NEW b \in Seq(RefsOf(p)), NEW x, NEW y, x # y,
         HeldBefore(a, y, x), HeldBeforeFirst(b, x, y)
  PROVE  Inversions(a, b) # {}
<1>1. PICK i \in 1..Len(a), j \in 1..Len(a) : i < j /\ a[i].obj = y /\ a[j].obj = x
  BY DEF HeldBefore
<1>2. PICK k \in 1..Len(b), l \in 1..Len(b) :
        /\ k < l /\ b[k].obj = x /\ b[l].obj = y
        /\ \A q \in 1..Len(b) : b[q].obj = y => k < q
  BY DEF HeldBeforeFirst
<1>3. a[i].obj # a[j].obj /\ b[k].obj = a[j].obj /\ b[l].obj = a[i].obj
  BY <1>1, <1>2
<1>4. \A q \in 1..Len(b) : b[q].obj = a[i].obj => k < q
  BY <1>1, <1>2
<1> QED
  BY <1>1, <1>3, <1>4, InversionFound

LEMMA SomethingTaken ==
  ASSUME NEW order, NEW x, NEW y, HeldBefore(order, y, x), Len(order) \in Nat
  PROVE  Len(order) >= 1
BY DEF HeldBefore

(***************************************************************************)
(* Deadlocks of two goroutines are reported: when the annotations of the   *)
(* packages resolve, name no two locks alike and no goroutine takes a lock *)
(* again that it has given back, no run of the goroutines reaches a state  *)
(* in which two of them, compared by the mode, wait for a lock of each     *)
(* other without a report about the two.                                   *)
(***************************************************************************)
THEOREM MutualWaitsReported ==
  ASSUME \A p \in Packages : Resolved(p) /\ NamesDistinct(p) /\ NeverRetaken(p)
  PROVE  Spec => []MutualWaitReported
<1>1. Inv => MutualWaitReported
  <2> SUFFICES ASSUME Inv, phase = "done",
                      NEW g \in Goroutines(pkg), NEW h \in Goroutines(pkg),
                      Compared(g, h), WaitsFor(g, h), WaitsFor(h, g)
               PROVE  Reported("GoroutineInversion", g, h)
    BY DEF MutualWaitReported
  <2> DEFINE x == NextOp(g).lock
             y == NextOp(h).lock
             a == OrderOf(g)
             b == OrderOf(h)
  <2>1. pkg \in Packages /\ Resolved(pkg) /\ NamesDistinct(pkg) /\ NeverRetaken(pkg)
    BY DEF Inv, AnalysisInv, SearchInv
  <2>2. x \in held[h] /\ y \in held[g] /\ g # h
    BY DEF WaitsFor, Compared
  <2>3. held[g] \cap held[h] = {}
    BY <2>2 DEF Inv, RunInv, Exclusive
  <2>4. x \notin held[g] /\ y \notin held[h] /\ x # y
    BY <2>2, <2>3
  <2>5. a \in Seq(RefsOf(pkg)) /\ b \in Seq(RefsOf(pkg))
    BY <2>1, OperationsType
  <2>6. HeldBefore(a, y, x) /\ HeldBeforeFirst(a, y, x)
    BY <2>1, <2>2, <2>4, WaitingTakes
  <2>7. HeldBefore(b, x, y) /\ HeldBeforeFirst(b, x, y)
    BY <2>1, <2>2, <2>4, WaitingTakes
  <2> HIDE DEF x, y
  <2>8. Inversions(a, b) # {} /\ Inversions(b, a) # {}
    BY <2>1, <2>4, <2>5, <2>6, <2>7, CrossedInversions
  <2>9. Len(a) >= 1 /\ Len(b) >= 1
    BY <2>5, <2>6, <2>7, SomethingTaken
  <2>10. PICK s, t : /\ s.at = g /\ t.at = h /\ s.order = a /\ t.order = b
                     /\ PairReported(s, t)
    BY <2>9, AllPairsCompared
  <2> QED
    BY <2>8, <2>10 DEF PairReported
<1> QED
  BY <1>1, Invariance, PTL

(***************************************************************************)
(* A goroutine that blocks on a lock it holds itself has been reported     *)
(* against every other one, compared by the mode, that takes all its       *)
(* locks, when the annotations of the packages resolve.                    *)
(***************************************************************************)
THEOREM SelfWaitsReported ==
  ASSUME \A p \in Packages : Resolved(p)
  PROVE  Spec => []SelfWaitReported
<1>1. Inv => SelfWaitReported
  <2> SUFFICES ASSUME Inv, phase = "done",
                      NEW g \in Goroutines(pkg), NEW h \in Goroutines(pkg),
                      Compared(g, h), WaitsFor(g, g),
                      \A k \in 1..Len(OrderOf(g)) : containsLock(OrderOf(h), OrderOf(g)[k])
               PROVE  Reported("RecursiveLock", g, h)
    BY DEF SelfWaitReported
  <2> DEFINE x == NextOp(g).lock
             a == OrderOf(g)
             b == OrderOf(h)
  <2>1. pkg \in Packages /\ Resolved(pkg)
    BY DEF Inv, AnalysisInv, SearchInv
  <2>2. a \in Seq(RefsOf(pkg)) /\ b \in Seq(RefsOf(pkg))
    BY <2>1, OperationsType
  <2>3. x \in held[g]
    BY DEF WaitsFor
  <2>4. HeldBefore(a, x, x)
    BY <2>3, WaitingTakes
  <2> HIDE DEF x
  <2>5. PICK k \in 1..Len(a), l \in 1..Len(a) : k < l /\ a[k].obj = x /\ a[l].obj = x
    BY <2>4 DEF HeldBefore
  <2>6. sameLock(a[k], a[l])
    <3>1. a[k] \in RefsOf(pkg)
      BY <2>2
    <3> QED
      BY <2>1, <2>5, <3>1 DEF Resolved, sameLock
  <2>7. k \in Repeats(a)
    <3>1. l \in (k + 1)..Len(a)
      BY <2>5
    <3> QED
      BY <2>6, <3>1 DEF Repeats
  <2>8. First(Repeats(a)) \in 1..Len(a)
    <3>1. Repeats(a) \in SUBSET Nat /\ Repeats(a) \subseteq 1..Len(a)
      BY DEF Repeats
    <3> QED
      BY <2>7, <3>1, FirstOfSet
  <2>9. containsLock(b, firstRepeatedLock(a))
    BY <2>8 DEF firstRepeatedLock
  <2>10. Len(a) >= 1 /\ Len(b) >= 1
    <3>1. 1..Len(b) # {}
      BY <2>9 DEF containsLock, Occurrences
    <3> QED
      BY <2>2, <2>5, <3>1
  <2>11. PICK s, t : /\ s.at = g /\ t.at = h /\ s.order = a /\ t.order = b
                     /\ PairReported(s, t)
    BY <2>10, AllPairsCompared
  <2>12. RecursiveReports(s, t) # {}
    BY <2>7, <2>9, <2>11 DEF RecursiveReports
  <2> QED
    BY <2>11, <2>12 DEF PairReported
<1> QED
  BY <1>1, Invariance, PTL

LEMMA TakenOnceOpposed ==
  ASSUME NEW p, Resolved(p), NamesDistinct(p),
         NEW a \in Seq(RefsOf(p)), NEW b \in Seq(RefsOf(p)), Opposed(a, b), Repeats(b) = {}
  PROVE  Inversions(a, b) # {}
<1>1. PICK i \in 1..Len(a), j \in 1..Len(a) : \E k, l \in 1..Len(b) :
             /\ i < j /\ k < l /\ a[i].obj # a[j].obj
             /\ b[k].obj = a[j].obj /\ b[l].obj = a[i].obj
  BY DEF Opposed
<1>2. PICK k \in 1..Len(b), l \in 1..Len(b) :
             /\ i < j /\ k < l /\ a[i].obj # a[j].obj
             /\ b[k].obj = a[j].obj /\ b[l].obj = a[i].obj
  BY <1>1
<1>3. ASSUME NEW m \in 1..Len(b), NEW q \in 1..Len(b), b[m].obj = b[q].obj, m < q
      PROVE  FALSE
  <2>1. q \in (m + 1)..Len(b) /\ b[m] \in RefsOf(p) /\ b[q] \in RefsOf(p)
    BY <1>3
  <2>2. sameLock(b[m], b[q])
    BY <1>3, <2>1, SameLockObjects
  <2>3. m \in Repeats(b)
    BY <2>1, <2>2 DEF Repeats
  <2> QED
    BY <2>3
<1>4. ASSUME NEW m \in 1..Len(b), b[m].obj = a[i].obj
      PROVE  k < m
  <2>1. b[m].obj = b[l].obj
    BY <1>2, <1>4
  <2>2. ~(m < l) /\ ~(l < m)
    BY <1>3, <2>1
  <2>3. m = l
    BY <2>2
  <2> QED
    BY <1>2, <2>3
<1> QED
  BY <1>2, <1>4, InversionFound

(***************************************************************************)
(* Inversions are reported for exactly the pairs of goroutines, compared   *)
(* by the mode and taking no lock twice, that have one, whatever order the *)
(* functions were visited in, when the annotations of the packages resolve *)
(* and name no two locks alike.                                            *)
(***************************************************************************)
THEOREM InversionsReportedExactly ==
  ASSUME \A p \in Packages : Resolved(p) /\ NamesDistinct(p)
  PROVE  Spec => []InversionsExact
<1>1. Inv => InversionsExact
  <2> SUFFICES ASSUME Inv, phase = "done",
                      NEW g \in Goroutines(pkg), NEW h \in Goroutines(pkg),
                      Compared(g, h), TakesOnce(g), TakesOnce(h)
               PROVE  Reported("GoroutineInversion", g, h) <=> Inverted(g, h)
    BY DEF InversionsExact
  <2> DEFINE a == OrderOf(g)
             b == OrderOf(h)
  <2>1. pkg \in Packages /\ Resolved(pkg) /\ NamesDistinct(pkg)
    BY DEF Inv, AnalysisInv, SearchInv
  <2>2. a \in Seq(RefsOf(pkg)) /\ b \in Seq(RefsOf(pkg))
    BY <2>1, OperationsType
  <2>3. ASSUME Inverted(g, h)
        PROVE  Reported("GoroutineInversion", g, h)
    <3>1. Opposed(a, b) /\ Opposed(b, a)
      BY <2>3, InvertedOpposed, OpposedSymmetric
    <3>2. Repeats(a) = {} /\ Repeats(b) = {}
      BY DEF TakesOnce
    <3>3. Inversions(a, b) # {} /\ Inversions(b, a) # {}
      BY <2>1, <2>2, <3>1, <3>2, TakenOnceOpposed
    <3>4. Len(a) >= 1 /\ Len(b) >= 1
      <4>1. 1..Len(a) # {} /\ 1..Len(b) # {}
        BY <3>1 DEF Opposed
      <4> QED
        BY <2>2, <4>1
    <3>5. PICK s, t : /\ s.at = g /\ t.at = h /\ s.order = a /\ t.order = b
                      /\ PairReported(s, t)
      BY <3>4, AllPairsCompared
    <3> QED
      BY <3>3, <3>5 DEF PairReported
  <2>4. ASSUME Reported("GoroutineInversion", g, h)
        PROVE  Inverted(g, h)
    <3>1. PICK d \in reports : d.kind = "GoroutineInversion" /\ {d.at, d.other} = {g, h}
      BY <2>4 DEF Reported
    <3>2. AboutPair(d, GoSitesOf(pkg))
      BY <3>1 DEF Inv, AnalysisInv, SearchInv, Justified
    <3>3. PICK s \in GoSitesOf(pkg), t \in GoSitesOf(pkg) :
            d.at = s.at /\ d.other = t.at /\ Inversions(s.order, t.order) # {}
      BY <3>1, <3>2 DEF AboutPair
    <3>4. s.order = OrderOf(s.at) /\ t.order = OrderOf(t.at)
      BY <2>1, GoSiteFacts DEF OrderOf, Launched
    <3>5. (s.at = g /\ t.at = h) \/ (s.at = h /\ t.at = g)
      BY <3>1, <3>3
    <3>6. s.order \in Seq(RefsOf(pkg)) /\ t.order \in Seq(RefsOf(pkg))
      BY <2>2, <3>4, <3>5
    <3>7. Opposed(s.order, t.order)
      BY <2>1, <3>3, <3>6, InversionTaken
    <3>8. Opposed(a, b)
      BY <3>4, <3>5, <3>7, OpposedSymmetric
    <3> QED
      BY <3>8, InvertedOpposed
  <2> QED
    BY <2>3, <2>4
<1> QED
  BY <1>1, Invariance, PTL

=============================================================================
