------------------------------ MODULE LockOrder ------------------------------
(***************************************************************************)
(* The comparison of lock acquisition orders in                            *)
(* analyzer/goroutine_deadlock.go.  A lockRef is a record: obj, the lock   *)
(* object or Nil, and name, the target text of the @acquires annotation    *)
(* ("" when there is none).  An order is a sequence of lockRefs; it may    *)
(* name a lock more than once.                                             *)
(***************************************************************************)
EXTENDS Naturals, Sequences

CONSTANT Nil

sameLock(a, b) ==
  \/ a.obj # Nil /\ a.obj = b.obj
  \/ a.name # "" /\ a.name = b.name

First(S) == CHOOSE i \in S : \A j \in S : i <= j

Occurrences(order, lock) == {i \in 1..Len(order) : sameLock(order[i], lock)}

containsLock(order, lock) == Occurrences(order, lock) # {}

(***************************************************************************)
(* The first position of a lock; defined when the order contains it.       *)
(***************************************************************************)
indexOfLock(order, lock) == First(Occurrences(order, lock))

(***************************************************************************)
(* Positions whose lock occurs again later; the first one is reported.     *)
(***************************************************************************)
Repeats(order) ==
  {i \in 1..Len(order) : \E j \in (i + 1)..Len(order) : sameLock(order[i], order[j])}

firstRepeatedLock(order) == order[First(Repeats(order))]

\* Slip: only neighbours in the order are compared.
InversionsOfNeighbours(a, b) ==
  {ij \in (1..Len(a)) \X (1..Len(a)) :
     /\ ij[2] = ij[1] + 1
     /\ ~sameLock(a[ij[1]], a[ij[2]])
     /\ containsLock(b, a[ij[1]])
     /\ containsLock(b, a[ij[2]])
     /\ indexOfLock(b, a[ij[2]]) < indexOfLock(b, a[ij[1]])}

(***************************************************************************)
(* Pairs of positions of a whose locks order b takes the other way round,  *)
(* going by the first occurrence of each in b.  findOrderInversion returns *)
(* the lexicographically first pair.                                       *)
(***************************************************************************)
Inversions(a, b) ==
  {ij \in (1..Len(a)) \X (1..Len(a)) :
     /\ ij[1] < ij[2]
     /\ ~sameLock(a[ij[1]], a[ij[2]])
     /\ containsLock(b, a[ij[1]])
     /\ containsLock(b, a[ij[2]])
     /\ indexOfLock(b, a[ij[2]]) < indexOfLock(b, a[ij[1]])}

findOrderInversion(a, b) ==
  LET i == First({ij[1] : ij \in Inversions(a, b)})
      j == First({ij[2] : ij \in {pq \in Inversions(a, b) : pq[1] = i}})
  IN  <<a[i], a[j]>>

==============================================================================
