-------------------------- MODULE BoundedInduction --------------------------
(***************************************************************************)
(* Induction in the form the proofs of this project need it.  The library  *)
(* states induction over an operator, which the provers cannot             *)
(* instantiate; here it is stated over sets, and iteration over functions. *)
(***************************************************************************)
EXTENDS Naturals, SequencesExt, SequenceTheorems, FiniteSetTheorems, WellFoundedInduction, TLAPS

LessThan == {p \in Nat \X Nat : p[1] < p[2]}

LEMMA LessThanWellFounded == IsWellFoundedOn(LessThan, Nat)
BY NatLessThanWellFounded DEF OpToRel, LessThan

(***************************************************************************)
(* Every set of numbers that is not empty has a least element.             *)
(***************************************************************************)
LEMMA LeastElement ==
  ASSUME NEW T \in SUBSET Nat, T # {}
  PROVE  \E m \in T : \A k \in T : m <= k
<1>1. PICK m \in T : \A k \in T : ~(<<k, m>> \in LessThan)
  BY LessThanWellFounded, WFMin
<1>2. \A k \in T : ~(k < m)
  BY <1>1 DEF LessThan
<1> QED
  BY <1>2

(***************************************************************************)
(* What holds at 0 and passes on from each number of an interval to the    *)
(* next holds in the whole interval.                                       *)
(***************************************************************************)
LEMMA IntervalInduction ==
  ASSUME NEW N \in Nat, NEW T, 0 \in T, \A n \in 1..N : n - 1 \in T => n \in T
  PROVE  0..N \subseteq T
<1> DEFINE Rest == (0..N) \ T
<1> SUFFICES ASSUME Rest # {}
             PROVE  FALSE
  OBVIOUS
<1>1. PICK m \in Rest : \A k \in Rest : m <= k
  <2>1. Rest \in SUBSET Nat
    OBVIOUS
  <2> HIDE DEF Rest
  <2> QED
    BY <2>1, LeastElement
<1>2. m \in 1..N
  OBVIOUS
<1>3. m - 1 \in 0..N /\ ~(m <= m - 1)
  BY <1>2
<1>4. m - 1 \in T
  BY <1>1, <1>3
<1> QED
  BY <1>2, <1>4

(***************************************************************************)
(* A step function for every number of an interval can be iterated.        *)
(***************************************************************************)
Iterates(g, N, S, start, step) ==
  /\ g \in [0..N -> S]
  /\ g[0] = start
  /\ \A n \in 1..N : g[n] = step[n][g[n - 1]]

LEMMA IterationExists ==
  ASSUME NEW N \in Nat, NEW S, NEW start \in S, NEW step \in [1..N -> [S -> S]]
  PROVE  \E g : Iterates(g, N, S, start, step)
<1> DEFINE T == {m \in 0..N : \E g : Iterates(g, m, S, start, step)}
<1>1. 0 \in T
  <2>1. Iterates([n \in 0..0 |-> start], 0, S, start, step)
    BY DEF Iterates
  <2> QED
    BY <2>1
<1>2. ASSUME NEW m \in 1..N, m - 1 \in T
      PROVE  m \in T
  <2>1. PICK g : Iterates(g, m - 1, S, start, step)
    BY <1>2
  <2> DEFINE h == [n \in 0..m |-> IF n = m THEN step[m][g[m - 1]] ELSE g[n]]
  <2>2. m - 1 \in 0..(m - 1) /\ m \in 0..N /\ m # 0 /\ 0 \in 0..m
    OBVIOUS
  <2>3. g[m - 1] \in S /\ step[m][g[m - 1]] \in S
    BY <2>1, <2>2 DEF Iterates
  <2>4. \A n \in 0..m : n # m => n \in 0..(m - 1)
    OBVIOUS
  <2>5. h \in [0..m -> S]
    BY <2>1, <2>3, <2>4 DEF Iterates
  <2>6. h[0] = start
    BY <2>1, <2>2 DEF Iterates
  <2>7. ASSUME NEW n \in 1..m
        PROVE  h[n] = step[n][h[n - 1]]
    <3>1. n \in 0..m /\ n - 1 \in 0..m /\ n - 1 # m
      OBVIOUS
    <3>2. h[n - 1] = g[n - 1]
      BY <3>1
    <3>3. CASE n = m
      BY <3>1, <3>2, <3>3
    <3>4. CASE n # m
      <4>1. n \in 1..(m - 1)
        BY <3>4
      <4>2. g[n] = step[n][g[n - 1]]
        BY <2>1, <4>1 DEF Iterates
      <4> QED
        BY <3>1, <3>2, <3>4, <4>2
    <3> QED
      BY <3>3, <3>4
  <2>8. Iterates(h, m, S, start, step)
    <3> HIDE DEF h
    <3> QED
      BY <2>5, <2>6, <2>7 DEF Iterates
  <2> QED
    BY <2>2, <2>8
<1>3. 0..N \subseteq T
  <2> HIDE DEF T
  <2> QED
    BY <1>1, <1>2, IntervalInduction
<1> QED
  BY <1>3

(***************************************************************************)
(* FlattenSeq as an iteration that starts with the empty sequence.         *)
(***************************************************************************)
Flattens(h, seqs, S) ==
  /\ h \in [0..Len(seqs) -> Seq(S)]
  /\ h[0] = <<>>
  /\ \A n \in 1..Len(seqs) : h[n] = h[n - 1] \o seqs[n]

LEMMA FlattensExists ==
  ASSUME NEW S, NEW seqs \in Seq(Seq(S))
  PROVE  \E h : Flattens(h, seqs, S)
<1> DEFINE step == [n \in 1..Len(seqs) |-> [s \in Seq(S) |-> s \o seqs[n]]]
<1>1. Len(seqs) \in Nat /\ <<>> \in Seq(S)
  OBVIOUS
<1>2. step \in [1..Len(seqs) -> [Seq(S) -> Seq(S)]]
  OBVIOUS
<1>3. PICK h : Iterates(h, Len(seqs), Seq(S), <<>>, step)
  <2> HIDE DEF step
  <2> QED
    BY <1>1, <1>2, IterationExists
<1>4. \A n \in 1..Len(seqs) : n - 1 \in 0..Len(seqs)
  BY <1>1
<1>5. \A n \in 1..Len(seqs) : h[n - 1] \in Seq(S)
  BY <1>3, <1>4 DEF Iterates
<1>6. \A n \in 1..Len(seqs) : h[n] = h[n - 1] \o seqs[n]
  BY <1>3, <1>5 DEF Iterates
<1> QED
  BY <1>3, <1>6 DEF Iterates, Flattens

LEMMA FlattenSeqIteration ==
  ASSUME NEW S, NEW seqs \in Seq(Seq(S))
  PROVE  \E h : Flattens(h, seqs, S) /\ FlattenSeq(seqs) = h[Len(seqs)]
<1>1. PICK h : Flattens(h, seqs, S)
  BY FlattensExists
<1>2. Len(seqs) \in Nat
  OBVIOUS
<1>3. CASE Len(seqs) = 0
  BY <1>1, <1>3 DEF Flattens, FlattenSeq
<1>4. CASE Len(seqs) # 0
  <2> DEFINE N == Len(seqs)
             P(f) == f = [i \in 1..N |-> IF i = 1 THEN seqs[i] ELSE f[i - 1] \o seqs[i]]
             flatten == CHOOSE f : P(f)
             k == [i \in 1..N |-> h[i]]
  <2>1. P(k)
    <3>1. \A i \in 1..N : k[i] = IF i = 1 THEN seqs[i] ELSE k[i - 1] \o seqs[i]
      <4> SUFFICES ASSUME NEW i \in 1..N
                   PROVE  k[i] = IF i = 1 THEN seqs[i] ELSE k[i - 1] \o seqs[i]
        OBVIOUS
      <4>1. k[i] = h[i - 1] \o seqs[i] /\ seqs[i] \in Seq(S)
        <5>1. k[i] = h[i]
          OBVIOUS
        <5>2. h[i] = h[i - 1] \o seqs[i]
          BY <1>1 DEF Flattens
        <5>3. seqs[i] \in Seq(S)
          BY <1>2
        <5> QED
          BY <5>1, <5>2, <5>3
      <4>2. CASE i = 1
        <5>1. h[i - 1] = <<>>
          BY <1>1, <4>2 DEF Flattens
        <5> QED
          BY <4>1, <4>2, <5>1
      <4>3. CASE i # 1
        <5>1. i - 1 \in 1..N
          BY <1>2, <4>3
        <5>2. k[i - 1] = h[i - 1]
          BY <5>1
        <5> QED
          BY <4>1, <4>3, <5>2
      <4> QED
        BY <4>2, <4>3
    <3> QED
      BY <3>1
  <2>2. P(flatten)
    <3> HIDE DEF P, k
    <3> QED
      BY <2>1
  <2>3. FlattenSeq(seqs) = flatten[N]
    BY <1>4 DEF FlattenSeq
  <2> HIDE DEF flatten
  <2>4. \A i \in 1..N : flatten[i] = IF i = 1 THEN seqs[i] ELSE flatten[i - 1] \o seqs[i]
    BY <2>2
  <2>5. \A i \in 1..N : k[i] = IF i = 1 THEN seqs[i] ELSE k[i - 1] \o seqs[i]
    BY <2>1
  <2> HIDE DEF P
  <2> DEFINE T == {n \in 0..N : n # 0 => flatten[n] = k[n]}
  <2>6. 0 \in T
    BY <1>2
  <2>7. \A n \in 1..N : n - 1 \in T => n \in T
    <3> SUFFICES ASSUME NEW n \in 1..N, n - 1 \in T
                 PROVE  flatten[n] = k[n]
      OBVIOUS
    <3> HIDE DEF k
    <3>1. CASE n = 1
      BY <2>4, <2>5, <3>1
    <3>2. CASE n # 1
      BY <2>4, <2>5, <3>2
    <3> QED
      BY <3>1, <3>2
  <2>8. 0..N \subseteq T
    <3> HIDE DEF T
    <3> QED
      BY <1>2, <2>6, <2>7, IntervalInduction
  <2>9. flatten[N] = h[N]
    <3>1. N \in 0..N /\ N \in 1..N /\ N # 0
      BY <1>2, <1>4
    <3>2. flatten[N] = k[N]
      BY <2>8, <3>1
    <3>3. k[N] = h[N]
      BY <3>1
    <3> QED
      BY <3>2, <3>3
  <2> QED
    BY <1>1, <2>3, <2>9
<1> QED
  BY <1>3, <1>4

LEMMA FlattenSeqType ==
  ASSUME NEW S, NEW seqs \in Seq(Seq(S))
  PROVE  FlattenSeq(seqs) \in Seq(S)
<1>1. PICK h : Flattens(h, seqs, S) /\ FlattenSeq(seqs) = h[Len(seqs)]
  BY FlattenSeqIteration
<1>2. Len(seqs) \in 0..Len(seqs)
  OBVIOUS
<1> QED
  BY <1>1, <1>2 DEF Flattens

(***************************************************************************)
(* A flattened sequence has the elements of the sequences it is made of.   *)
(***************************************************************************)
LEMMA FlattenSeqRange ==
  ASSUME NEW S, NEW seqs \in Seq(Seq(S))
  PROVE  Range(FlattenSeq(seqs)) = UNION {Range(seqs[k]) : k \in DOMAIN seqs}
<1> DEFINE Upto(n) == UNION {Range(seqs[k]) : k \in 1..n}
           N == Len(seqs)
<1>1. PICK h : Flattens(h, seqs, S) /\ FlattenSeq(seqs) = h[N]
  BY FlattenSeqIteration
<1>2. N \in Nat /\ DOMAIN seqs = 1..N
  OBVIOUS
<1> DEFINE T == {n \in 0..N : Range(h[n]) = Upto(n)}
<1>3. 0 \in T
  <2>1. h[0] = <<>> /\ Range(<<>>) = {}
    BY <1>1 DEF Flattens, Range
  <2>2. Upto(0) = {}
    OBVIOUS
  <2> QED
    BY <1>2, <2>1, <2>2
<1>4. \A n \in 1..N : n - 1 \in T => n \in T
  <2> SUFFICES ASSUME NEW n \in 1..N, n - 1 \in T
               PROVE  n \in 0..N /\ Range(h[n]) = Upto(n)
    OBVIOUS
  <2>1. h[n] = h[n - 1] \o seqs[n] /\ h[n - 1] \in Seq(S) /\ seqs[n] \in Seq(S)
    BY <1>1, <1>2 DEF Flattens
  <2>2. Range(h[n]) = Range(h[n - 1]) \cup Range(seqs[n])
    <3> HIDE DEF T, Upto
    <3> QED
      BY <2>1, RangeConcatenation
  <2>3. Upto(n) = Upto(n - 1) \cup Range(seqs[n])
    <3>1. 1..n = (1..(n - 1)) \cup {n}
      BY <1>2
    <3> QED
      BY <3>1
  <2>4. Range(h[n - 1]) = Upto(n - 1)
    OBVIOUS
  <2>5. n \in 0..N
    BY <1>2
  <2> HIDE DEF T, Upto
  <2> QED
    BY <2>2, <2>3, <2>4, <2>5
<1>5. N \in T
  <2> HIDE DEF T
  <2>1. 0..N \subseteq T
    BY <1>2, <1>3, <1>4, IntervalInduction
  <2> QED
    BY <1>2, <2>1
<1> QED
  BY <1>1, <1>2, <1>5

(***************************************************************************)
(* What passes from all larger sets to a set holds for all subsets of a    *)
(* finite set.                                                             *)
(***************************************************************************)
Larger(A, F) == {B \in SUBSET F : A \subseteq B /\ A # B}

LEMMA FewerLeft ==
  ASSUME NEW F, IsFiniteSet(F), NEW A \in SUBSET F, NEW B \in Larger(A, F)
  PROVE  /\ Cardinality(F \ A) \in Nat
         /\ Cardinality(F \ B) \in Nat
         /\ Cardinality(F \ B) < Cardinality(F \ A)
<1>1. IsFiniteSet(F \ A) /\ IsFiniteSet(F \ B)
  BY FS_Subset DEF Larger
<1>2. F \ B \in SUBSET (F \ A) /\ F \ B # F \ A
  BY DEF Larger
<1> DEFINE R == F \ A
           Q == F \ B
<1>3. IsFiniteSet(R) /\ IsFiniteSet(Q) /\ Q \in SUBSET R /\ Q # R
  BY <1>1, <1>2
<1> HIDE DEF R, Q
<1>4. Cardinality(Q) <= Cardinality(R) /\ Cardinality(R) # Cardinality(Q)
  BY <1>3, FS_Subset
<1>5. Cardinality(R) \in Nat /\ Cardinality(Q) \in Nat
  BY <1>3, FS_CardinalityType
<1> QED
  BY <1>4, <1>5 DEF R, Q

LEMMA LargerInduction ==
  ASSUME NEW F, IsFiniteSet(F), NEW T,
         \A A \in SUBSET F : (\A B \in Larger(A, F) : B \in T) => A \in T
  PROVE  SUBSET F \subseteq T
<1> DEFINE C(A) == Cardinality(F \ A)
           N == Cardinality(F)
           U == {n \in 0..N : \A A \in SUBSET F : C(A) <= n => A \in T}
<1>1. N \in Nat
  BY FS_CardinalityType
<1>2. \A A \in SUBSET F : C(A) \in 0..N
  BY FS_Subset, FS_CardinalityType
<1>3. \A A \in SUBSET F : \A B \in Larger(A, F) : B \in SUBSET F /\ C(B) < C(A)
  BY FewerLeft DEF Larger
<1> HIDE DEF C
<1>4. 0 \in U
  <2> SUFFICES ASSUME NEW A \in SUBSET F, C(A) <= 0
               PROVE  A \in T
    BY <1>1
  <2>1. ASSUME NEW B \in Larger(A, F)
        PROVE  FALSE
    <3>1. B \in SUBSET F /\ C(B) < C(A)
      BY <1>3
    <3>2. C(B) \in 0..N /\ C(A) \in 0..N
      BY <1>2, <3>1
    <3> QED
      BY <1>1, <3>1, <3>2
  <2> QED
    BY <2>1
<1>5. \A n \in 1..N : n - 1 \in U => n \in U
  <2> SUFFICES ASSUME NEW n \in 1..N, n - 1 \in U, NEW A \in SUBSET F, C(A) <= n
               PROVE  A \in T
    OBVIOUS
  <2>1. ASSUME NEW B \in Larger(A, F)
        PROVE  B \in T
    <3>1. B \in SUBSET F /\ C(B) < C(A)
      BY <1>3
    <3>2. C(B) \in 0..N /\ C(A) \in 0..N
      BY <1>2, <3>1
    <3>3. C(B) <= n - 1
      BY <1>1, <3>1, <3>2
    <3> QED
      BY <3>1, <3>3
  <2> QED
    BY <2>1
<1>6. 0..N \subseteq U
  <2> HIDE DEF U
  <2> QED
    BY <1>1, <1>4, <1>5, IntervalInduction
<1> QED
  BY <1>1, <1>2, <1>6

(***************************************************************************)
(* A function over the subsets of a finite set may be defined by recursion *)
(* from a set to the larger ones.                                          *)
(***************************************************************************)
AsksLarger(step, F, V) ==
  /\ step \in [SUBSET F -> [[SUBSET F -> V] -> V]]
  /\ \A A \in SUBSET F, w, u \in [SUBSET F -> V] :
       (\A B \in Larger(A, F) : w[B] = u[B]) => step[A][w] = step[A][u]

Solves(w, step, F, V) ==
  /\ w \in [SUBSET F -> V]
  /\ \A A \in SUBSET F : w[A] = step[A][w]

LEMMA LargerRecursion ==
  ASSUME NEW F, IsFiniteSet(F), NEW V, NEW v \in V, NEW step, AsksLarger(step, F, V)
  PROVE  \E w : Solves(w, step, F, V)
<1> USE DEF AsksLarger, Solves
<1> DEFINE C(A) == Cardinality(F \ A)
           N == Cardinality(F)
           Upto(n, w) == \A A \in SUBSET F : C(A) <= n => w[A] = step[A][w]
           T == {n \in 0..N : \E w \in [SUBSET F -> V] : Upto(n, w)}
<1>1. N \in Nat
  BY FS_CardinalityType
<1>2. \A A \in SUBSET F : C(A) \in 0..N
  BY FS_Subset, FS_CardinalityType
<1>3. \A A \in SUBSET F : \A B \in Larger(A, F) : B \in SUBSET F /\ C(B) < C(A)
  BY FewerLeft DEF Larger
<1> HIDE DEF C
<1>4. 0 \in T
  <2> DEFINE any == [A \in SUBSET F |-> v]
             w == [A \in SUBSET F |-> step[A][any]]
  <2>1. any \in [SUBSET F -> V]
    OBVIOUS
  <2> HIDE DEF any
  <2>2. w \in [SUBSET F -> V] /\ \A A \in SUBSET F : w[A] = step[A][any]
    BY <2>1
  <2> HIDE DEF w
  <2>3. ASSUME NEW A \in SUBSET F, C(A) <= 0
        PROVE  w[A] = step[A][w]
    <3>1. ASSUME NEW B \in Larger(A, F)
          PROVE  FALSE
      <4>1. B \in SUBSET F /\ C(B) < C(A)
        BY <1>3
      <4>2. C(B) \in 0..N /\ C(A) \in 0..N
        BY <1>2, <4>1
      <4> QED
        BY <1>1, <2>3, <4>1, <4>2
    <3>2. step[A][any] = step[A][w]
      BY <2>1, <2>2, <3>1
    <3> QED
      BY <2>2, <3>2
  <2>4. Upto(0, w)
    BY <2>3
  <2>5. 0 \in 0..N
    BY <1>1
  <2> QED
    BY <2>2, <2>4, <2>5
<1>5. ASSUME NEW n \in 1..N, n - 1 \in T
      PROVE  n \in T
  <2>1. PICK w \in [SUBSET F -> V] : Upto(n - 1, w)
    BY <1>5
  <2> DEFINE u == [A \in SUBSET F |-> IF C(A) = n THEN step[A][w] ELSE w[A]]
  <2>2. u \in [SUBSET F -> V]
    OBVIOUS
  <2>3. \A A \in SUBSET F : C(A) # n => u[A] = w[A]
    OBVIOUS
  <2>4. \A A \in SUBSET F : C(A) <= n => u[A] = step[A][w]
    <3> SUFFICES ASSUME NEW A \in SUBSET F, C(A) <= n
                 PROVE  u[A] = step[A][w]
      OBVIOUS
    <3>1. CASE C(A) = n
      BY <3>1
    <3>2. CASE C(A) # n
      <4>1. C(A) <= n - 1
        BY <1>1, <1>2, <3>2
      <4> QED
        BY <2>1, <2>3, <3>2, <4>1
    <3> QED
      BY <3>1, <3>2
  <2> HIDE DEF u
  <2>5. ASSUME NEW A \in SUBSET F, C(A) <= n
        PROVE  u[A] = step[A][u]
    <3>1. \A B \in Larger(A, F) : u[B] = w[B]
      <4> SUFFICES ASSUME NEW B \in Larger(A, F)
                   PROVE  u[B] = w[B]
        OBVIOUS
      <4>1. B \in SUBSET F /\ C(B) < C(A)
        BY <1>3
      <4>2. C(B) \in 0..N /\ C(A) \in 0..N
        BY <1>2, <4>1
      <4>3. C(B) # n
        BY <1>1, <2>5, <4>1, <4>2
      <4> QED
        BY <2>3, <4>1, <4>3
    <3>2. step[A][u] = step[A][w]
      BY <2>2, <3>1
    <3> QED
      BY <2>4, <2>5, <3>2
  <2> QED
    BY <2>2, <2>5
<1>6. 0..N \subseteq T
  <2> HIDE DEF T
  <2> QED
    BY <1>1, <1>4, <1>5, IntervalInduction
<1>7. PICK w \in [SUBSET F -> V] : Upto(N, w)
  <2>1. N \in 0..N
    BY <1>1
  <2>2. N \in T
    BY <1>6, <2>1
  <2> QED
    BY <2>2
<1> QED
  BY <1>2, <1>7

(***************************************************************************)
(* The same where a set asks only for those with one element more.         *)
(***************************************************************************)
LEMMA OneMore ==
  ASSUME NEW F, NEW A \in SUBSET F, NEW x \in F \ A
  PROVE  A \cup {x} \in Larger(A, F)
BY DEF Larger

LEMMA ExpandingInduction ==
  ASSUME NEW F, IsFiniteSet(F), NEW T,
         \A A \in SUBSET F : (\A x \in F \ A : A \cup {x} \in T) => A \in T
  PROVE  SUBSET F \subseteq T
<1>1. \A A \in SUBSET F : (\A B \in Larger(A, F) : B \in T) => A \in T
  BY OneMore
<1> QED
  BY <1>1, LargerInduction

Expanding(step, F, V) ==
  /\ step \in [SUBSET F -> [[SUBSET F -> V] -> V]]
  /\ \A A \in SUBSET F, w, u \in [SUBSET F -> V] :
       (\A x \in F \ A : w[A \cup {x}] = u[A \cup {x}]) => step[A][w] = step[A][u]

LEMMA ExpandingRecursion ==
  ASSUME NEW F, IsFiniteSet(F), NEW V, NEW v \in V, NEW step, Expanding(step, F, V)
  PROVE  \E w : Solves(w, step, F, V)
<1>1. ASSUME NEW A \in SUBSET F, NEW w \in [SUBSET F -> V], NEW u \in [SUBSET F -> V],
             \A B \in Larger(A, F) : w[B] = u[B]
      PROVE  step[A][w] = step[A][u]
  <2>1. \A x \in F \ A : w[A \cup {x}] = u[A \cup {x}]
    BY <1>1, OneMore
  <2> QED
    BY <2>1 DEF Expanding
<1>2. AsksLarger(step, F, V)
  BY <1>1 DEF Expanding, AsksLarger
<1> QED
  BY <1>2, LargerRecursion

(***************************************************************************)
(* A set that grows by what its members lead to, once per member of a      *)
(* finite set F: after that many rounds it is closed within F, and it is   *)
(* the least set that is.                                                  *)
(***************************************************************************)
Growth(w, F, start, next) ==
  w = [n \in 0..Cardinality(F) |->
         IF n = 0 THEN start ELSE w[n - 1] \cup UNION {next[f] : f \in w[n - 1] \cap F}]

ClosedWithin(F, next, T) == \A f \in T \cap F : next[f] \cap F \subseteq T

LEMMA GrowthExists ==
  ASSUME NEW F, IsFiniteSet(F), NEW start, NEW next
  PROVE  \E w : Growth(w, F, start, next)
<1> DEFINE N == Cardinality(F)
           U == start \cup UNION {next[f] : f \in F}
           grown == [A \in SUBSET U |-> A \cup UNION {next[f] : f \in A \cap F}]
           step == [n \in 1..N |-> grown]
<1>1. N \in Nat
  BY FS_CardinalityType
<1>2. grown \in [SUBSET U -> SUBSET U]
  OBVIOUS
<1>3. start \in SUBSET U
  OBVIOUS
<1>4. step \in [1..N -> [SUBSET U -> SUBSET U]]
  <2> HIDE DEF grown, U
  <2> QED
    BY <1>2
<1>5. PICK w : Iterates(w, N, SUBSET U, start, step)
  <2> HIDE DEF step, U
  <2> QED
    BY <1>1, <1>3, <1>4, IterationExists
<1>6. \A n \in 1..N : w[n] = w[n - 1] \cup UNION {next[f] : f \in w[n - 1] \cap F}
  <2> SUFFICES ASSUME NEW n \in 1..N
               PROVE  w[n] = w[n - 1] \cup UNION {next[f] : f \in w[n - 1] \cap F}
    OBVIOUS
  <2>1. n - 1 \in 0..N
    BY <1>1
  <2>2. w[n - 1] \in SUBSET U
    <3> HIDE DEF U, step
    <3> QED
      BY <1>5, <2>1 DEF Iterates
  <2>3. w[n] = grown[w[n - 1]]
    <3>1. step[n] = grown
      <4> HIDE DEF grown
      <4> QED
        OBVIOUS
    <3> HIDE DEF U, step, grown
    <3> QED
      BY <1>5, <3>1 DEF Iterates
  <2> QED
    BY <2>2, <2>3
<1>7. w[0] = start /\ \A n \in 0..N : n # 0 => n \in 1..N
  BY <1>1, <1>5 DEF Iterates
<1>8. w \in [0..N -> SUBSET U]
  BY <1>5 DEF Iterates
<1> HIDE DEF U, step, N
<1>9. w = [n \in 0..N |->
             IF n = 0 THEN start ELSE w[n - 1] \cup UNION {next[f] : f \in w[n - 1] \cap F}]
  BY <1>6, <1>7, <1>8
<1> QED
  BY <1>9 DEF Growth, N

LEMMA GrowthIsLeast ==
  ASSUME NEW F, IsFiniteSet(F), NEW start, NEW next, NEW w, Growth(w, F, start, next)
  PROVE  LET R == w[Cardinality(F)] \cap F
         IN  /\ start \cap F \subseteq R
             /\ ClosedWithin(F, next, R)
             /\ \A T : start \cap F \subseteq T /\ ClosedWithin(F, next, T) => R \subseteq T
<1> DEFINE N == Cardinality(F)
           W(n) == w[n] \cap F
<1>1. N \in Nat /\ 0 \in 0..N /\ N \in 0..N
  BY FS_CardinalityType
<1>2. w[0] = start
  BY <1>1 DEF Growth
<1>3. \A n \in 1..N : w[n] = w[n - 1] \cup UNION {next[f] : f \in w[n - 1] \cap F}
  BY <1>1 DEF Growth
<1> HIDE DEF N
<1>4. \A n \in 1..N : W(n - 1) \subseteq W(n) /\ n - 1 \in 0..N
  BY <1>1, <1>3
<1>5. \A n \in 1..N : \A g : g \in W(n) <=> g \in W(n - 1) \/ (g \in F /\ \E f \in W(n - 1) : g \in next[f])
  BY <1>3
<1>6. \A n : IsFiniteSet(W(n)) /\ Cardinality(W(n)) \in Nat
  BY FS_Subset, FS_CardinalityType
<1> HIDE DEF W
<1> DEFINE C == {n \in 0..N : ClosedWithin(F, next, W(n)) \/ Cardinality(W(n)) >= n}
<1>7. 0 \in C
  BY <1>1, <1>6
<1>8. ASSUME NEW n \in 1..N, n - 1 \in C
      PROVE  n \in C
  <2>1. W(n) \subseteq F
    BY DEF W
  <2>2. CASE ClosedWithin(F, next, W(n - 1))
    <3>1. W(n) = W(n - 1)
      <4>1. \A g \in F : \A f \in W(n - 1) : g \in next[f] => g \in W(n - 1)
        BY <2>2 DEF ClosedWithin, W
      <4> QED
        BY <1>5, <4>1
    <3> QED
      BY <2>2, <3>1
  <2>3. CASE ~ClosedWithin(F, next, W(n - 1))
    <3>1. PICK f \in W(n - 1) \cap F : \E g \in next[f] \cap F : g \notin W(n - 1)
      BY <2>3 DEF ClosedWithin
    <3>2. PICK g \in next[f] \cap F : g \notin W(n - 1)
      BY <3>1
    <3>3. g \in W(n) /\ W(n - 1) \subseteq W(n)
      BY <1>4, <1>5, <3>1, <3>2
    <3>4. Cardinality(W(n - 1)) <= Cardinality(W(n))
      BY <1>6, <3>3, FS_Subset
    <3>5. Cardinality(W(n - 1)) # Cardinality(W(n))
      BY <1>6, <3>2, <3>3, FS_Subset
    <3>6. Cardinality(W(n - 1)) >= n - 1
      BY <1>8, <2>3
    <3>7. Cardinality(W(n)) \in Nat /\ Cardinality(W(n - 1)) \in Nat
      BY <1>6
    <3>8. Cardinality(W(n)) >= n
      BY <3>4, <3>5, <3>6, <3>7
    <3> QED
      BY <3>8
  <2> QED
    BY <2>2, <2>3
<1>9. 0..N \subseteq C
  <2> HIDE DEF C
  <2> QED
    BY <1>1, <1>7, <1>8, IntervalInduction
<1>10. ClosedWithin(F, next, W(N))
  <2>1. CASE Cardinality(W(N)) >= N
    <3>1. W(N) \in SUBSET F
      BY DEF W
    <3>2. Cardinality(W(N)) <= N /\ (Cardinality(F) = Cardinality(W(N)) => F = W(N))
      BY <3>1, FS_Subset DEF N
    <3>3. W(N) = F
      BY <1>1, <1>6, <2>1, <3>2 DEF N
    <3> QED
      BY <3>3 DEF ClosedWithin
  <2> QED
    BY <1>1, <1>9, <2>1
<1> DEFINE B == {n \in 0..N : start \cap F \subseteq W(n)}
<1>11. 0 \in B
  BY <1>1, <1>2 DEF W
<1>12. 0..N \subseteq B
  <2>1. \A n \in 1..N : n - 1 \in B => n \in B
    BY <1>4
  <2> HIDE DEF B
  <2> QED
    BY <1>1, <1>11, <2>1, IntervalInduction
<1>13. ASSUME NEW T, start \cap F \subseteq T, ClosedWithin(F, next, T)
       PROVE  W(N) \subseteq T
  <2> DEFINE I == {n \in 0..N : W(n) \subseteq T}
  <2>1. 0 \in I
    BY <1>1, <1>2, <1>13 DEF W
  <2>2. ASSUME NEW n \in 1..N, n - 1 \in I
        PROVE  n \in I
    <3>1. \A f \in W(n - 1) : f \in T \cap F
      BY <2>2 DEF W
    <3>2. \A g \in W(n) : g \in T
      BY <1>5, <1>13, <2>2, <3>1 DEF ClosedWithin
    <3> QED
      BY <3>2
  <2>3. 0..N \subseteq I
    <3> HIDE DEF I
    <3> QED
      BY <1>1, <2>1, <2>2, IntervalInduction
  <2> QED
    BY <1>1, <2>3
<1>14. start \cap F \subseteq W(N)
  BY <1>1, <1>12
<1> QED
  BY <1>10, <1>13, <1>14 DEF W, N

=============================================================================
