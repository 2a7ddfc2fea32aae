--------------------------- MODULE OpsQueue_proofs ---------------------------
(***************************************************************************)
(* What is proved of OpsQueue for every set of operations, items and       *)
(* volumes, in five parts:                                                 *)
(*   volumes   no volume is shared by two workers, no operation has two    *)
(*             workers, and the queue implements the all-or-nothing lock   *)
(*             table of VolumeReservation;                                 *)
(*   control   the flags of a cancelled operation: CancelIsFinal;          *)
(*   progress  what the worker has done when it says Completed;            *)
(*   sources   a move never loses its only copy, and no wake-up is lost;   *)
(*   order     the queue order: its type, reordering, and that no          *)
(*             startable operation is left behind.                         *)
(*                                                                         *)
(* The first part needs only pc, busy_volumes and the queue order.  Every  *)
(* action is first reduced to what it does to these three: it leaves them  *)
(* alone up to the order (Commands), moves one worker that stays a worker  *)
(* (Steps), dispatches (Dispatch) or releases (Release).  The others are   *)
(* local to one operation: an invariant of each operation, and lemmas that *)
(* a step touches one operation only (WorkerFrame, CommandFrame,           *)
(* PassFrame).                                                             *)
(***************************************************************************)
EXTENDS OpsQueue, FiniteSetTheorems, TLAPS

\* The queue is a sequence: its positions are compared by the scheduler.
OrderSeq == order \in Seq(Queued)

PcOK == pc \in [Ops -> PCs]

\* The inductive invariant: Exclusion alone is not inductive, because the
\* greedy pass compares positions of the queue.
IInv == OrderSeq /\ PcOK /\ Exclusion

\* A worker goes from one of its places to another.
Steps(o) ==
  /\ Holding(o)
  /\ \E next \in PCs \ {"idle", "admit"} : pc' = [pc EXCEPT ![o] = next]
  /\ UNCHANGED <<busy, order>>

-----------------------------------------------------------------------------
\* Every worker action but Release moves the worker and keeps its volumes.
LEMMA WorkerMoves ==
  ASSUME NEW o \in Ops, PcOK, WorkerStep(o), ~Release(o)
  PROVE  Steps(o) \/ UNCHANGED <<pc, busy, order>>
<1>1. ASSUME NEW from \in PCs \ {"idle"}, NEW to \in PCs \ {"idle", "admit"},
             pc[o] = from, GoTo(o, to), UNCHANGED <<busy, order>>
      PROVE  Steps(o)
  BY <1>1 DEF GoTo, Steps, Holding
<1>2. CASE Admit(o)
  <2>. DEFINE to == IF o \in listed THEN "queued" ELSE "release"
  <2>1. pc[o] = "admit" /\ GoTo(o, to) /\ UNCHANGED <<busy, order>>
    BY <1>2 DEF Admit, Quiet, Move, At, queue
  <2>. QED  BY <1>1, <2>1 DEF PCs
<1>3. CASE Grant(o)
  BY <1>1, <1>3 DEF Grant, Quiet, Move, At, queue, PCs
<1>4. CASE Deny(o)
  BY <1>1, <1>4 DEF Deny, Move, At, queue, PCs
<1>5. CASE Find(o)
  <2>. DEFINE to == IF o \in listed THEN "begin" ELSE "drop"
  <2>1. pc[o] = "start" /\ GoTo(o, to) /\ UNCHANGED <<busy, order>>
    BY <1>5 DEF Find, Quiet, Move, At, queue
  <2>. QED  BY <1>1, <2>1 DEF PCs
<1>6. CASE Begin(o)
  BY <1>1, <1>6 DEF Begin, Move, At, queue, PCs
<1>7. CASE Measure(o)
  BY <1>1, <1>7 DEF Measure, At, queue, PCs
<1>8. ASSUME NEW from \in {"top", "after"}, SkipItem(o, from)
      PROVE  Steps(o)
  BY <1>1, <1>8 DEF SkipItem, NextItem, At, queue, PCs
<1>9. CASE Top(o)
  BY <1>1, <1>8, <1>9 DEF Top, Quiet, Move, At, queue, PCs
<1>10. CASE Check(o)
  BY <1>1, <1>10 DEF Check, At, queue, PCs
<1>11. ASSUME NEW from \in {"conflict", "parked"}, NEW r, Apply(o, from, r)
       PROVE  Steps(o)
  BY <1>1, <1>11 DEF Apply, At, queue, PCs
<1>12. CASE Detect(o)
  BY <1>1, <1>11, <1>12 DEF Detect, FailAt, Quiet, Move, At, queue, PCs
<1>13. CASE Answered(o)
  BY <1>1, <1>11, <1>13 DEF Answered, Quiet, Move, At, queue, PCs
<1>14. CASE Sleep(o)
  BY <1>14 DEF Sleep, queue
<1>15. CASE Gate(o)
  BY <1>1, <1>15 DEF Gate, Quiet, Move, At, queue, PCs
<1>16. CASE StartIo(o)
  BY <1>1, <1>16 DEF StartIo, FailAt, DiskStep, Quiet, Move, At, queue, PCs
<1>17. CASE Chunk(o)
  BY <1>1, <1>17 DEF Chunk, CopyEnds, FailAt, DiskStep, Quiet, Move, At, queue, PCs
<1>18. CASE RemoveSource(o)
  BY <1>1, <1>18 DEF RemoveSource, FailAt, DiskStep, Quiet, Move, At, queue, PCs
<1>19. CASE EndIo(o)
  BY <1>1, <1>19 DEF EndIo, Quiet, Move, At, queue, PCs
<1>20. CASE AdvanceItem(o)
  BY <1>1, <1>20 DEF AdvanceItem, Move, At, queue, PCs
<1>21. CASE After(o)
  BY <1>1, <1>8, <1>21 DEF After, Quiet, Move, At, queue, PCs
<1>22. CASE Recheck(o)
  BY <1>1, <1>22 DEF Recheck, NextItem, At, queue, PCs
<1>23. CASE Finish(o)
  BY <1>1, <1>23 DEF Finish, Move, At, queue, PCs
<1>24. CASE DropPermit(o)
  BY <1>1, <1>24 DEF DropPermit, Quiet, Move, At, queue, PCs
<1>. QED
  BY <1>2, <1>3, <1>4, <1>5, <1>6, <1>7, <1>9, <1>10, <1>12, <1>13, <1>14,
     <1>15, <1>16, <1>17, <1>18, <1>19, <1>20, <1>21, <1>22, <1>23, <1>24
     DEF WorkerStep

-----------------------------------------------------------------------------
\* The greedy pass: what it chooses was idle and needs volumes that are free,
\* and disjoint from those of everything else it chooses.
LEMMA GreedyChoice ==
  ASSUME OrderSeq, PcOK, ReservedWhileHolding,
         NEW S \in SUBSET Queued, IsStartable(S)
  PROVE  /\ \A a \in S : VolumesOf[a] \cap busy = {}
         /\ \A a, b \in S : a # b => VolumesOf[a] \cap VolumesOf[b] = {}
         /\ \A a \in S \cap Ops : ~Holding(a)
<1>1. Len(order) \in Nat /\ DOMAIN order = 1..Len(order)
  BY DEF OrderSeq
<1>2. ASSUME NEW a \in S
      PROVE  \E i \in DOMAIN order :
               order[i] = a /\ VolumesOf[a] \cap ReservedBefore(S, i) = {}
  BY DEF IsStartable
<1>3. ASSUME NEW a \in S
      PROVE  VolumesOf[a] \cap busy = {}
  BY <1>2 DEF ReservedBefore
<1>4. ASSUME NEW i \in DOMAIN order, NEW j \in DOMAIN order, i < j, order[i] \in S
      PROVE  VolumesOf[order[i]] \subseteq ReservedBefore(S, j)
  <2>1. i \in {k \in 1..(j-1) : order[k] \in S}
    BY <1>1, <1>4
  <2>. QED  BY <2>1 DEF ReservedBefore
<1>5. ASSUME NEW a \in S, NEW b \in S, a # b
      PROVE  VolumesOf[a] \cap VolumesOf[b] = {}
  <2>1. PICK i \in DOMAIN order :
          order[i] = a /\ VolumesOf[a] \cap ReservedBefore(S, i) = {}
    BY <1>2
  <2>2. PICK j \in DOMAIN order :
          order[j] = b /\ VolumesOf[b] \cap ReservedBefore(S, j) = {}
    BY <1>2
  <2>3. i < j \/ j < i
    BY <1>1, <1>5, <2>1, <2>2
  <2>. QED  BY <1>4, <2>1, <2>2, <2>3
<1>6. ASSUME NEW a \in S \cap Ops
      PROVE  ~Holding(a)
  <2>1. VolumesOf[a] # {}
    BY VolumesAssumption
  <2>. QED  BY <1>3, <2>1 DEF ReservedWhileHolding
<1>. QED  BY <1>3, <1>5, <1>6

\* A dispatch keeps the exclusion, and gives a worker only to operations that
\* had none.
LEMMA DispatchSafe ==
  ASSUME OrderSeq, PcOK, Exclusion, Dispatch
  PROVE  /\ PcOK' /\ Exclusion'
         /\ \A o \in Ops : pc'[o] # pc[o] => pc[o] = "idle" /\ pc'[o] = "admit"
<1>1. PICK S \in SUBSET Queued :
        /\ IsStartable(S)
        /\ busy' = busy \cup UNION {VolumesOf[o] : o \in S}
        /\ pc' = [o \in Ops |-> IF o \in S THEN "admit" ELSE pc[o]]
  BY DEF Dispatch
<1>2. /\ \A a \in S : VolumesOf[a] \cap busy = {}
      /\ \A a, b \in S : a # b => VolumesOf[a] \cap VolumesOf[b] = {}
      /\ \A a \in S \cap Ops : ~Holding(a)
  BY <1>1, GreedyChoice DEF Exclusion
<1>3. PcOK'
  BY <1>1 DEF PcOK, PCs
<1>4. \A o \in Ops : Holding(o)' <=> o \in S \/ Holding(o)
  BY <1>1 DEF Holding
<1>5. ReservedWhileHolding'
  <2>1. ASSUME NEW o \in Ops, Holding(o)'
        PROVE  VolumesOf[o] \subseteq busy'
    <3>1. CASE o \in S
      BY <1>1, <3>1
    <3>2. CASE Holding(o)
      BY <1>1, <3>2 DEF Exclusion, ReservedWhileHolding
    <3>. QED  BY <1>4, <2>1, <3>1, <3>2
  <2>. QED  BY <2>1 DEF ReservedWhileHolding
<1>6. VolumeExclusive'
  <2>1. ASSUME NEW a \in Ops, NEW b \in Ops, a # b, Holding(a)', Holding(b)'
        PROVE  VolumesOf[a] \cap VolumesOf[b] = {}
    <3>1. CASE a \in S /\ b \in S
      BY <1>2, <2>1, <3>1
    <3>2. CASE a \in S /\ Holding(b)
      BY <1>2, <3>2 DEF Exclusion, ReservedWhileHolding
    <3>3. CASE Holding(a) /\ b \in S
      BY <1>2, <3>3 DEF Exclusion, ReservedWhileHolding
    <3>4. CASE Holding(a) /\ Holding(b)
      BY <2>1, <3>4 DEF Exclusion, VolumeExclusive
    <3>. QED  BY <1>4, <2>1, <3>1, <3>2, <3>3, <3>4
  <2>. QED  BY <2>1 DEF VolumeExclusive
<1>7. \A o \in Ops : pc'[o] # pc[o] => pc[o] = "idle" /\ pc'[o] = "admit"
  BY <1>1, <1>2 DEF Holding
<1>. QED  BY <1>3, <1>5, <1>6, <1>7 DEF Exclusion

\* A release takes away nothing that another worker needs.
LEMMA ReleaseSafe ==
  ASSUME PcOK, Exclusion, NEW o \in Ops, Release(o)
  PROVE  /\ PcOK' /\ Exclusion'
         /\ pc[o] = "release" /\ pc' = [pc EXCEPT ![o] = "idle"]
<1>1. /\ pc[o] = "release" /\ pc' = [pc EXCEPT ![o] = "idle"]
      /\ busy' = IF o \in listed THEN busy \ VolumesOf[o] ELSE busy
  BY DEF Release, At, GoTo
<1>2. PcOK'
  BY <1>1 DEF PcOK, PCs
<1>3. \A a \in Ops : Holding(a)' <=> a # o /\ Holding(a)
  BY <1>1 DEF Holding, PcOK
<1>4. VolumeExclusive'
  BY <1>3 DEF Exclusion, VolumeExclusive
<1>5. ReservedWhileHolding'
  <2>1. ASSUME NEW a \in Ops, Holding(a)'
        PROVE  VolumesOf[a] \subseteq busy'
    <3>1. VolumesOf[a] \subseteq busy
      BY <1>3, <2>1 DEF Exclusion, ReservedWhileHolding
    <3>2. VolumesOf[a] \cap VolumesOf[o] = {}
      BY <1>1, <1>3, <2>1 DEF Exclusion, VolumeExclusive, Holding
    <3>. QED  BY <1>1, <3>1, <3>2
  <2>. QED  BY <2>1 DEF ReservedWhileHolding
<1>. QED  BY <1>1, <1>2, <1>4, <1>5 DEF Exclusion

\* Moving a worker between its places changes nothing about reservations.
LEMMA StepSafe ==
  ASSUME PcOK, Exclusion, NEW o \in Ops, Steps(o)
  PROVE  /\ PcOK' /\ Exclusion'
         /\ Holding(o) /\ pc'[o] # "idle" /\ \A a \in Ops \ {o} : pc'[a] = pc[a]
<1>1. PICK next \in PCs \ {"idle", "admit"} : pc' = [pc EXCEPT ![o] = next]
  BY DEF Steps
<1>2. PcOK' /\ (\A a \in Ops : Holding(a)' <=> Holding(a))
  BY <1>1 DEF PcOK, Holding, Steps
<1>3. Exclusion'
  BY <1>2 DEF Exclusion, VolumeExclusive, ReservedWhileHolding, Steps
<1>. QED  BY <1>1, <1>2, <1>3 DEF PcOK, Steps

-----------------------------------------------------------------------------
\* Ranking the elements of a finite set by distinct keys numbers them from 1
\* on, in the order of their keys.
IsRanking(S, key, rank) ==
  /\ \A a \in S : rank[a] \in 1..Cardinality(S)
  /\ \A a, b \in S : key[a] < key[b] => rank[a] < rank[b]
  /\ \A a, b \in S : rank[a] = rank[b] => a = b
  /\ \A n \in 1..Cardinality(S) : \E a \in S : rank[a] = n
LEMMA Ranking ==
  ASSUME NEW S, IsFiniteSet(S), NEW key \in [S -> Nat],
         \A a, b \in S : key[a] = key[b] => a = b,
         NEW rank, rank = [a \in S |-> Cardinality({p \in S : key[p] <= key[a]})]
  PROVE  IsRanking(S, key, rank)
<1>. DEFINE Upto(a) == {p \in S : key[p] <= key[a]}
<1>1. ASSUME NEW a \in S
      PROVE  /\ IsFiniteSet(Upto(a)) /\ Cardinality(Upto(a)) \in Nat
             /\ Cardinality(Upto(a)) <= Cardinality(S) /\ Cardinality(Upto(a)) >= 1
  <2>1. Upto(a) \in SUBSET S /\ a \in Upto(a)
    OBVIOUS
  <2>2. IsFiniteSet(Upto(a)) /\ Cardinality(Upto(a)) <= Cardinality(S)
    BY <2>1, FS_Subset
  <2>3. Cardinality(Upto(a)) \in Nat /\ Cardinality(Upto(a)) # 0
    BY <2>1, <2>2, FS_CardinalityType, FS_EmptySet
  <2>. QED  BY <2>2, <2>3
<1>2. Cardinality(S) \in Nat
  BY FS_CardinalityType
<1>3. ASSUME NEW a \in S, NEW b \in S, key[a] < key[b]
      PROVE  rank[a] < rank[b]
  <2>1. Upto(a) \in SUBSET Upto(b) /\ b \in Upto(b) /\ b \notin Upto(a)
    BY <1>3
  <2>2. /\ IsFiniteSet(Upto(b))
        /\ Cardinality(Upto(a)) \in Nat /\ Cardinality(Upto(b)) \in Nat
    BY <1>1
  <2>. HIDE DEF Upto
  <2>3. Cardinality(Upto(a)) <= Cardinality(Upto(b))
    BY <2>1, <2>2, FS_Subset
  <2>4. Cardinality(Upto(a)) # Cardinality(Upto(b))
    BY <2>1, <2>2, FS_Subset
  <2>5. Cardinality(Upto(a)) < Cardinality(Upto(b))
    BY <2>2, <2>3, <2>4
  <2>6. rank[a] = Cardinality(Upto(a)) /\ rank[b] = Cardinality(Upto(b))
    BY DEF Upto
  <2>. QED  BY <2>5, <2>6
<1>4. rank \in [S -> 1..Cardinality(S)]
  BY <1>1, <1>2
<1>5. ASSUME NEW a \in S, NEW b \in S, rank[a] = rank[b]
      PROVE  a = b
  <2>1. key[a] < key[b] \/ key[b] < key[a] \/ key[a] = key[b]
    OBVIOUS
  <2>2. rank[a] \in Nat /\ rank[b] \in Nat
    BY <1>2, <1>4
  <2>. QED  BY <1>3, <1>5, <2>1, <2>2
<1>6. rank \in Injection(S, 1..Cardinality(S))
  BY <1>4, <1>5 DEF Injection, IsInjective
<1>7. IsFiniteSet(1..Cardinality(S)) /\ Cardinality(1..Cardinality(S)) = Cardinality(S)
  BY <1>2, FS_Interval
<1>8. rank \in Surjection(S, 1..Cardinality(S))
  BY <1>6, <1>7, FS_Injection
<1>. QED  BY <1>3, <1>4, <1>5, <1>8 DEF Surjection, IsRanking

\* The subsequence at a set of positions: as long as the set, its entries are
\* those at the positions, and they stand in the order of the positions.
IsPicked(s, q, K) ==
  /\ Cardinality(K) \in Nat
  /\ s \in Seq({q[k] : k \in K}) /\ Len(s) = Cardinality(K)
  /\ \A m \in 1..Cardinality(K) : Nth(K, m) \in K /\ s[m] = q[Nth(K, m)]
  /\ \A k \in K : \E m \in 1..Cardinality(K) : Nth(K, m) = k
  /\ \A l, m \in 1..Cardinality(K) : l < m => Nth(K, l) < Nth(K, m)
LEMMA PickedFacts ==
  ASSUME NEW n \in Nat, NEW K \in SUBSET (1..n), NEW q, NEW s, s = Picked(q, K)
  PROVE  IsPicked(s, q, K)
<1>. DEFINE key == [k \in K |-> k]
            rank == [a \in K |-> Cardinality({p \in K : key[p] <= key[a]})]
<1>1. IsFiniteSet(K)
  <2>1. IsFiniteSet(1..n)
    BY FS_Interval
  <2>. QED  BY <2>1, FS_Subset
<1>2. PICK c : c = Cardinality(K)
  OBVIOUS
<1>3. c \in Nat
  BY <1>1, <1>2, FS_CardinalityType
<1>4. /\ \A a \in K : rank[a] \in 1..c
      /\ \A a, b \in K : a < b => rank[a] < rank[b]
      /\ \A a, b \in K : rank[a] = rank[b] => a = b
      /\ \A m \in 1..c : \E a \in K : rank[a] = m
  <2>1. key \in [K -> Nat] /\ \A a, b \in K : key[a] = key[b] => a = b
    OBVIOUS
  <2>2. rank = [a \in K |-> Cardinality({p \in K : key[p] <= key[a]})]
    OBVIOUS
  <2>3. \A a \in K : key[a] = a
    OBVIOUS
  <2>. HIDE DEF rank, key
  <2>4. IsRanking(K, key, rank)
    BY <1>1, <2>1, <2>2, Ranking
  <2>. QED  BY <1>2, <2>3, <2>4 DEF IsRanking
<1>5. \A a \in K : rank[a] = Cardinality({j \in K : j <= a})
  <2>1. ASSUME NEW a \in K
        PROVE  {p \in K : key[p] <= key[a]} = {j \in K : j <= a}
    OBVIOUS
  <2>. QED  BY <2>1
<1>. HIDE DEF rank, key
<1>6. ASSUME NEW m \in 1..c
      PROVE  Nth(K, m) \in K /\ rank[Nth(K, m)] = m
  <2>1. PICK a \in K : Cardinality({j \in K : j <= a}) = m
    BY <1>4, <1>5
  <2>2. /\ Nth(K, m) \in K
        /\ Cardinality({j \in K : j <= Nth(K, m)}) = m
    BY <2>1 DEF Nth
  <2>. QED  BY <1>5, <2>2
<1>7. ASSUME NEW k \in K
      PROVE  \E m \in 1..c : Nth(K, m) = k
  <2>1. rank[k] \in 1..c
    BY <1>4
  <2>2. Nth(K, rank[k]) \in K /\ rank[Nth(K, rank[k])] = rank[k]
    BY <1>6, <2>1
  <2>. QED  BY <1>4, <2>1, <2>2
<1>8. ASSUME NEW l \in 1..c, NEW m \in 1..c, l < m
      PROVE  Nth(K, l) < Nth(K, m)
  <2>1. PICK a : a = Nth(K, l)
    OBVIOUS
  <2>2. PICK b : b = Nth(K, m)
    OBVIOUS
  <2>3. a \in K /\ b \in K /\ rank[a] = l /\ rank[b] = m
    BY <1>6, <2>1, <2>2
  <2>4. a < b \/ b < a \/ a = b
    BY <2>3
  <2>5. ~(b < a) /\ a # b
    BY <1>3, <1>4, <1>8, <2>3
  <2>. QED  BY <2>1, <2>2, <2>4, <2>5
<1>9. s = [m \in 1..c |-> q[Nth(K, m)]]
  BY <1>2 DEF Picked
<1>10. s \in Seq({q[k] : k \in K}) /\ Len(s) = c
  <2>1. \A m \in 1..c : q[Nth(K, m)] \in {q[k] : k \in K}
    BY <1>6
  <2>2. s \in [1..c -> {q[k] : k \in K}]
    BY <1>9, <2>1
  <2>. QED  BY <1>3, <2>2
<1>. QED  BY <1>2, <1>3, <1>6, <1>7, <1>8, <1>9, <1>10 DEF IsPicked

-----------------------------------------------------------------------------
\* A sequence over anything is a sequence over what it contains.
LEMMA FunctionIsQueue ==
  ASSUME NEW n \in Nat, NEW q, q = [i \in 1..n |-> q[i]]
  PROVE  q \in Seq({q[i] : i \in DOMAIN q})
<1>. DEFINE elements == {q[i] : i \in DOMAIN q}
<1>1. DOMAIN q = 1..n
  OBVIOUS
<1>2. q \in [1..n -> elements]
  BY <1>1
<1>. QED  BY <1>2

\* Every way the queue order changes: a new operation at the back, a removed
\* one taken out, the pending ones rearranged.
LEMMA OrderStaysSeq ==
  ASSUME OrderSeq, NEW o,
         \/ order' = Append(order, o)
         \/ order' = Without(o)
         \/ \E ids \in Requests : order' = Reordered(ids)
         \/ order' = order
  PROVE  OrderSeq'
<1>1. Len(order) \in Nat /\ DOMAIN order = 1..Len(order)
  BY DEF OrderSeq
<1>2. \E n \in Nat : order' = [i \in 1..n |-> order'[i]]
  <2>1. CASE order' = Append(order, o)
    <3>. DEFINE longer == Append(order, o)
    <3>1. longer \in Seq(Queued \cup {o})
      BY DEF OrderSeq
    <3>2. Len(longer) \in Nat /\ longer = [i \in 1..Len(longer) |-> longer[i]]
      <4>. HIDE DEF longer
      <4>. QED  BY <3>1
    <3>. QED  BY <2>1, <3>2
  <2>2. CASE order' = Without(o)
    <3>1. {i \in DOMAIN order : order[i] # o} \in SUBSET (1..Len(order))
      BY <1>1
    <3>2. PICK K : K = {i \in DOMAIN order : order[i] # o}
      OBVIOUS
    <3>3. order' = Picked(order, K)
      BY <2>2, <3>2 DEF Without
    <3>4. IsPicked(order', order, K)
      BY <1>1, <3>1, <3>2, <3>3, PickedFacts
    <3>5. order' \in Seq({order[k] : k \in K})
      BY <3>4 DEF IsPicked
    <3>. QED  BY <3>5
  <2>3. CASE \E ids \in Requests : order' = Reordered(ids)
    <3>1. PICK ids \in Requests : order' = Reordered(ids)
      BY <2>3
    <3>2. PICK asked : asked = Asked(ids)
      OBVIOUS
    <3>3. PICK kept : kept = Kept(asked)
      OBVIOUS
    <3>4. PICK fill : fill = Fill(asked, kept)
      OBVIOUS
    <3>5. PICK front : front = Picked(fill, kept)
      OBVIOUS
    <3>6. PICK rest : rest = LeftOver(front)
      OBVIOUS
    <3>7. PICK back : back = Picked(order, rest)
      OBVIOUS
    <3>8. order' = front \o back
      BY <3>1, <3>2, <3>3, <3>4, <3>5, <3>6, <3>7 DEF Reordered
    <3>9. kept \in SUBSET (1..Len(order)) /\ rest \in SUBSET (1..Len(order))
      BY <1>1, <3>3, <3>6 DEF Kept, LeftOver, PendingIn
    <3>10. front \in Seq({fill[k] : k \in kept}) /\ back \in Seq({order[k] : k \in rest})
      <4>1. IsPicked(front, fill, kept) /\ IsPicked(back, order, rest)
        BY <1>1, <3>5, <3>7, <3>9, PickedFacts
      <4>. QED  BY <4>1 DEF IsPicked
    <3>11. order' \in Seq({fill[k] : k \in kept} \cup {order[k] : k \in rest})
      BY <3>8, <3>10
    <3>. QED  BY <3>11
  <2>4. CASE order' = order
    <3>1. order = [i \in 1..Len(order) |-> order[i]]
      BY DEF OrderSeq
    <3>. QED  BY <1>1, <2>4, <3>1
  <2>. QED  BY <2>1, <2>2, <2>3, <2>4
<1>. QED  BY <1>2, FunctionIsQueue DEF OrderSeq, Queued

\* The user's commands, notifications and the retention timers move no worker
\* and reserve nothing.
LEMMA CommandMoves ==
  ASSUME OrderSeq, NEW o \in Ops, User(o) \/ NotifyAll(o) \/ AutoRemove(o)
  PROVE  UNCHANGED <<pc, busy>> /\ OrderSeq'
<1>1. CASE StartOp(o)
  BY <1>1, OrderStaysSeq DEF StartOp
<1>2. CASE PauseOp(o) \/ ResumeOp(o) \/ SkipOp(o)
  BY <1>2, OrderStaysSeq DEF PauseOp, ResumeOp, SkipOp, Command, MustNotify, queue
<1>3. CASE CancelOp(o)
  BY <1>3, OrderStaysSeq
     DEF CancelOp, CancelPending, CancelRunning, Command, MustNotify
<1>4. CASE RetryOp(o)
  BY <1>4, OrderStaysSeq DEF RetryOp, Command
<1>5. CASE \E r \in Resolutions, all \in BOOLEAN : ResolveConflict(o, r, all)
  BY <1>5, OrderStaysSeq DEF ResolveConflict, Command, MustNotify
<1>6. CASE NotifyAll(o)
  BY <1>6, OrderStaysSeq DEF NotifyAll
<1>7. CASE AutoRemove(o)
  BY <1>7, OrderStaysSeq DEF AutoRemove
<1>. QED  BY <1>1, <1>2, <1>3, <1>4, <1>5, <1>6, <1>7 DEF User

\* What a step of the queue does to workers and reservations.
LEMMA NextMoves ==
  ASSUME IInv, [Next]_vars
  PROVE  /\ OrderSeq'
         /\ \/ UNCHANGED <<pc, busy>>
            \/ Dispatch
            \/ \E o \in Ops : Steps(o)
            \/ \E o \in Ops : Release(o)
<1>1. CASE UNCHANGED vars
  BY <1>1, OrderStaysSeq DEF vars, IInv
<1>2. ASSUME NEW o \in Ops, User(o) \/ NotifyAll(o) \/ AutoRemove(o)
      PROVE  UNCHANGED <<pc, busy>> /\ OrderSeq'
  BY <1>2, CommandMoves DEF IInv
<1>3. ASSUME NEW o \in Ops, Schedule(o) \/ Reschedule(o)
      PROVE  Dispatch /\ OrderSeq'
  BY <1>3, OrderStaysSeq DEF Schedule, Reschedule, IInv
<1>4. ASSUME NEW o \in Ops, Release(o)
      PROVE  OrderSeq'
  BY <1>4, OrderStaysSeq DEF Release, IInv
<1>5. ASSUME NEW o \in Ops, WorkerStep(o), ~Release(o)
      PROVE  OrderSeq' /\ (Steps(o) \/ UNCHANGED <<pc, busy>>)
  <2>1. Steps(o) \/ UNCHANGED <<pc, busy, order>>
    BY <1>5, WorkerMoves DEF IInv
  <2>2. UNCHANGED order
    BY <2>1 DEF Steps
  <2>3. OrderSeq'
    BY <2>2, OrderStaysSeq DEF IInv
  <2>. QED  BY <2>1, <2>3
<1>6. ASSUME NEW ids \in Requests, ReorderOps(ids)
      PROVE  UNCHANGED <<pc, busy>> /\ OrderSeq'
  BY <1>6, OrderStaysSeq DEF ReorderOps, IInv
<1>. QED  BY <1>1, <1>2, <1>3, <1>4, <1>5, <1>6 DEF Next, Background

-----------------------------------------------------------------------------
\* The invariant of the reservations holds initially.
LEMMA InitIInv == Init => IInv
<1>. SUFFICES ASSUME Init PROVE IInv
  OBVIOUS
<1>1. order = << >> /\ Queued = {}
  BY DEF Init, Queued
<1>2. OrderSeq
  BY <1>1 DEF OrderSeq
<1>3. PcOK /\ \A o \in Ops : ~Holding(o)
  BY DEF Init, PcOK, PCs, Holding
<1>. QED  BY <1>2, <1>3 DEF IInv, Exclusion, VolumeExclusive, ReservedWhileHolding

\* ... and every step keeps it.
LEMMA NextIInv == IInv /\ [Next]_vars => IInv'
<1>. SUFFICES ASSUME IInv, [Next]_vars PROVE IInv'
  OBVIOUS
<1>. USE DEF IInv
<1>1. OrderSeq'
  BY NextMoves
<1>2. CASE UNCHANGED <<pc, busy>>
  BY <1>1, <1>2 DEF PcOK, Exclusion, VolumeExclusive, ReservedWhileHolding, Holding
<1>3. CASE Dispatch
  BY <1>1, <1>3, DispatchSafe
<1>4. CASE \E o \in Ops : Steps(o)
  BY <1>1, <1>4, StepSafe
<1>5. CASE \E o \in Ops : Release(o)
  BY <1>1, <1>5, ReleaseSafe
<1>. QED  BY <1>2, <1>3, <1>4, <1>5, NextMoves

\* ... so it always holds.
LEMMA Invariance == Spec => []IInv
<1>. QED  BY InitIInv, NextIInv, PTL DEF Spec

\* Jobs sharing a volume are serialized: no two workers ever hold operations
\* with a common volume, whatever the user does and however admissions,
\* cancellations, retries and removals interleave (schedule, collect_startable,
\* release_and_reschedule).
THEOREM Serialized == Spec => []VolumeExclusive
<1>1. IInv => VolumeExclusive
  BY DEF IInv, Exclusion
<1>. QED  BY <1>1, Invariance, PTL

\* No release frees a volume that another worker reserved.
THEOREM ReservationsLast == Spec => []ReservedWhileHolding
<1>1. IInv => ReservedWhileHolding
  BY DEF IInv, Exclusion
<1>. QED  BY <1>1, Invariance, PTL

\* An operation is dispatched only when it has no worker, so a retry, or a
\* second pass over the queue before the first worker marked the operation
\* Active, never puts two workers on the same items.
THEOREM SingleWorker == Spec => OneWorkerPerOp
<1>1. ASSUME IInv, [Next]_vars
      PROVE  [\A o \in Ops : pc'[o] = "admit" => pc[o] \in {"idle", "admit"}]_pc
  <2>1. CASE UNCHANGED <<pc, busy>>
    BY <2>1
  <2>2. CASE Dispatch
    BY <1>1, <2>2, DispatchSafe DEF IInv
  <2>3. CASE \E o \in Ops : Steps(o)
    BY <1>1, <2>3 DEF IInv, PcOK, Steps
  <2>4. CASE \E o \in Ops : Release(o)
    BY <1>1, <2>4, ReleaseSafe DEF IInv, PcOK
  <2>. QED  BY <1>1, <2>1, <2>2, <2>3, <2>4, NextMoves
<1>. QED  BY <1>1, Invariance, PTL DEF Spec, OneWorkerPerOp

\* The queue implements the all-or-nothing lock table: a pass over the queue is
\* one Acquire for everything it starts, a worker's end is one Release, and
\* nothing else changes who holds volumes.
THEOREM QueueReserves == Spec => ImplementsReservation
<1>. DEFINE holders == {o \in Ops : Holding(o)}
<1>1. Init => Reservation!Init
  BY DEF Init, Reservation!Init, Holding
<1>2. ASSUME IInv, [Next]_vars
      PROVE  [Reservation!Next]_holders
  <2>1. CASE UNCHANGED <<pc, busy>>
    BY <2>1 DEF Holding
  <2>2. CASE \E o \in Ops : Steps(o)
    <3>1. PICK o \in Ops : Steps(o)
      BY <2>2
    <3>2. \A a \in Ops : Holding(a)' <=> Holding(a)
      BY <1>2, <3>1, StepSafe DEF IInv, Holding
    <3>. QED  BY <3>2
  <2>3. CASE \E o \in Ops : Release(o)
    <3>1. PICK o \in Ops : Release(o)
      BY <2>3
    <3>2. /\ pc[o] = "release"
          /\ pc' = [pc EXCEPT ![o] = "idle"]
      BY <1>2, <3>1, ReleaseSafe DEF IInv
    <3>3. o \in holders /\ holders' = holders \ {o}
      BY <1>2, <3>2 DEF Holding, IInv, PcOK
    <3>. QED  BY <3>3 DEF Reservation!Next, Reservation!Release
  <2>4. CASE Dispatch
    <3>. DEFINE S == {o \in Ops : pc'[o] # pc[o]}
    <3>1. /\ PcOK' /\ Exclusion'
          /\ \A o \in Ops : pc'[o] # pc[o] => pc[o] = "idle" /\ pc'[o] = "admit"
      BY <1>2, <2>4, DispatchSafe DEF IInv
    <3>2. S \cap holders = {} /\ holders' = holders \cup S
      BY <3>1 DEF Holding
    <3>3. ASSUME NEW a \in S, NEW b \in S \cup holders, a # b
          PROVE  VolumesOf[a] \cap VolumesOf[b] = {}
      BY <3>1, <3>2, <3>3 DEF Exclusion, VolumeExclusive
    <3>4. CASE S = {}
      BY <3>2, <3>4
    <3>5. CASE S # {}
      BY <3>2, <3>3, <3>5 DEF Reservation!Next, Reservation!Acquire
    <3>. QED  BY <3>4, <3>5
  <2>. QED  BY <1>2, <2>1, <2>2, <2>3, <2>4, NextMoves
<1>. QED  BY <1>1, <1>2, Invariance, PTL
          DEF Spec, ImplementsReservation, Reservation!Spec

-----------------------------------------------------------------------------
(* Types of everything but the queue order, and what a step touches.      *)

\* What TypeOK says of everything but the queue order.
StateOK ==
  /\ listed \subseteq Ops
  /\ busy \subseteq Volumes
  /\ op \in [Ops -> OpState]
  /\ pc \in [Ops -> PCs]
  /\ item \in [Ops -> Items]
  /\ target \in [Ops -> Names]
  /\ asleep \in [Ops -> BOOLEAN]
  /\ src \in [Ops -> [Items -> {"present", "gone"}]]
  /\ dst \in [Ops -> [Items -> [Names -> {"absent", "old", "partial", "whole"}]]]
  /\ skipped \in [Ops -> SUBSET Items]
  /\ owed \in [Ops -> Nat] /\ tail \in [Ops -> Nat] /\ timers \in [Ops -> Nat]
  /\ notices \in [Ops -> Nat]

\* A step of one operation leaves everything of the others alone.
Untouched(a) ==
  /\ op'[a] = op[a] /\ pc'[a] = pc[a] /\ item'[a] = item[a]
  /\ target'[a] = target[a] /\ asleep'[a] = asleep[a]
  /\ src'[a] = src[a] /\ dst'[a] = dst[a] /\ skipped'[a] = skipped[a]
  /\ owed'[a] = owed[a] /\ tail'[a] = tail[a] /\ timers'[a] = timers[a]
  /\ notices'[a] = notices[a]
  /\ a \in listed' <=> a \in listed

\* A fresh OpState is one.
LEMMA NewOpOK ==
  \A status \in Statuses : NewOp(status) \in OpState
<1>. QED  BY DEF NewOp, OpState

\* What a write under the current name leaves at the destination.
LEMMA PutOK ==
  ASSUME StateOK, NEW o \in Ops,
         \/ UNCHANGED dst
         \/ \E what \in {"absent", "partial", "whole"} : Put(o, what)
  PROVE  /\ dst' = [dst EXCEPT ![o] = dst'[o]]
         /\ dst'[o] \in [Items -> [Names -> {"absent", "old", "partial", "whole"}]]
<1>. USE DEF StateOK
<1>1. CASE UNCHANGED dst
  BY <1>1
<1>2. ASSUME NEW what \in {"absent", "partial", "whole"}, Put(o, what)
      PROVE  dst'[o] \in [Items -> [Names -> {"absent", "old", "partial", "whole"}]]
  <2>1. dst'[o] = [dst[o] EXCEPT ![item[o]] = [dst[o][item[o]] EXCEPT ![target[o]] = what]]
    BY <1>2 DEF Put
  <2>2. [dst[o][item[o]] EXCEPT ![target[o]] = what]
          \in [Names -> {"absent", "old", "partial", "whole"}]
    OBVIOUS
  <2>. QED  BY <2>1, <2>2
<1>3. ASSUME NEW what \in {"absent", "partial", "whole"}, Put(o, what)
      PROVE  dst' = [dst EXCEPT ![o] = dst'[o]]
  BY <1>3 DEF Put
<1>. QED  BY <1>1, <1>2, <1>3

\* A worker's step keeps the types, and leaves the queue and the others alone.
LEMMA WorkerFrame ==
  ASSUME StateOK, NEW o \in Ops, WorkerStep(o)
  PROVE  /\ StateOK'
         /\ \A a \in Ops \ {o} : Untouched(a)
         /\ ~asleep[o]
         /\ ~Release(o) => UNCHANGED queue
<1>t. /\ op \in [Ops -> OpState] /\ skipped \in [Ops -> SUBSET Items]
      /\ item \in [Ops -> Items] /\ pc \in [Ops -> PCs]
      /\ target \in [Ops -> Names]
  BY DEF StateOK
<1>. DEFINE Good == /\ StateOK'
                    /\ \A a \in Ops \ {o} : Untouched(a)
                    /\ ~asleep[o]
                    /\ UNCHANGED queue
<1>1. ASSUME NEW from, NEW to \in PCs, Quiet(o, from, to)
      PROVE  Good
  BY <1>1 DEF Quiet, Move, At, GoTo, queue, place, disk, Untouched, StateOK
<1>s. /\ "Active" \in Statuses /\ "Paused" \in Statuses /\ "Conflict" \in Statuses
      /\ "Cancelled" \in Statuses /\ "Completed" \in Statuses /\ "Failed" \in Statuses
  BY DEF Statuses
<1>2. ASSUME NEW from, NEW to \in PCs, Move(o, from, to),
             op' = [op EXCEPT ![o] = op'[o]], op'[o] \in OpState
      PROVE  Good
  BY <1>2 DEF Move, At, GoTo, queue, place, disk, Untouched, StateOK
<1>3. ASSUME NEW from, FailAt(o, from)
      PROVE  Good
  <2>1. op' = [op EXCEPT ![o] = op'[o]] /\ op'[o] \in OpState
    BY <1>3, <1>s, <1>t DEF FailAt, Fail, OpState
  <2>. QED  BY <1>2, <1>3, <2>1 DEF FailAt, PCs
<1>4. CASE Admit(o)
  BY <1>1, <1>4 DEF Admit, PCs
<1>5. CASE Grant(o)
  BY <1>1, <1>5 DEF Grant, PCs
<1>6. CASE Deny(o)
  <2>1. CASE o \in listed
    <3>1. op' = [op EXCEPT ![o] = op'[o]] /\ op'[o] \in OpState
      BY <1>6, <2>1, <1>s, <1>t, ZenonT(40) DEF Deny, OpState
    <3>. QED  BY <1>2, <1>6, <3>1 DEF Deny, PCs
  <2>2. CASE o \notin listed
    BY <1>1, <1>6, <2>2 DEF Deny, PCs, Quiet
  <2>. QED  BY <2>1, <2>2
<1>7. CASE Find(o)
  BY <1>1, <1>7 DEF Find, PCs
<1>8. CASE Begin(o)
  <2>1. op' = [op EXCEPT ![o] = op'[o]] /\ op'[o] \in OpState
    BY <1>8, <1>s, <1>t, ZenonT(40) DEF Begin, OpState
  <2>. QED  BY <1>2, <1>8, <2>1 DEF Begin, PCs
<1>9. CASE Measure(o)
  BY <1>9, OpsAssumption, SMTT(40) DEF Measure, PCs, At, GoTo, queue, disk, Untouched, StateOK, Items
<1>10. ASSUME NEW from, SkipItem(o, from)
       PROVE  Good
  <2>1. op' = [op EXCEPT ![o] = op'[o]] /\ op'[o] \in OpState
    BY <1>10, <1>s, <1>t DEF SkipItem, OpState
  <2>2. pc' = [pc EXCEPT ![o] = pc'[o]] /\ pc'[o] \in PCs
    BY <1>10, <1>t DEF SkipItem, NextItem, GoTo, PCs
  <2>3. item' = [item EXCEPT ![o] = item'[o]] /\ item'[o] \in Items
    BY <1>10, <1>t, OpsAssumption DEF SkipItem, NextItem, Items
  <2>4. skipped' = [skipped EXCEPT ![o] = skipped'[o]] /\ skipped'[o] \in SUBSET Items
    BY <1>10, <1>t DEF SkipItem
  <2>5. UNCHANGED <<queue, target, asleep, src, dst>> /\ ~asleep[o]
    BY <1>10, <1>t DEF SkipItem, At
  <2>. QED  BY <2>1, <2>2, <2>3, <2>4, <2>5 DEF queue, Untouched, StateOK
<1>11. CASE Top(o)
  BY <1>1, <1>10, <1>11 DEF Top, PCs
<1>12. CASE Check(o)
  BY <1>12 DEF Check, PCs, At, GoTo, queue, disk, Untouched, StateOK, Names
<1>13. ASSUME NEW from, NEW r, Apply(o, from, r)
       PROVE  /\ UNCHANGED <<queue, item, asleep, src>> /\ ~asleep[o]
              /\ pc' = [pc EXCEPT ![o] = pc'[o]] /\ pc'[o] \in PCs
              /\ target' = [target EXCEPT ![o] = target'[o]] /\ target'[o] \in Names
              /\ dst' = [dst EXCEPT ![o] = dst'[o]]
              /\ dst'[o] \in [Items -> [Names -> {"absent", "old", "partial", "whole"}]]
              /\ skipped' = [skipped EXCEPT ![o] = skipped'[o]]
              /\ skipped'[o] \in SUBSET Items
  <2>1. UNCHANGED <<queue, item, asleep, src>> /\ ~asleep[o]
    BY <1>13, <1>t DEF Apply, At
  <2>2. pc' = [pc EXCEPT ![o] = pc'[o]] /\ pc'[o] \in PCs
    BY <1>13, <1>t DEF Apply, GoTo, PCs
  <2>3. target' = [target EXCEPT ![o] = target'[o]] /\ target'[o] \in Names
    BY <1>13, <1>t DEF Apply, Names
  <2>4. /\ skipped' = [skipped EXCEPT ![o] = skipped'[o]]
        /\ skipped'[o] \in SUBSET Items
    BY <1>13, <1>t DEF Apply
  <2>5. UNCHANGED dst \/ Put(o, "absent")
    BY <1>13, <1>t DEF Apply
  <2>6. /\ dst' = [dst EXCEPT ![o] = dst'[o]]
        /\ dst'[o] \in [Items -> [Names -> {"absent", "old", "partial", "whole"}]]
    BY <2>5, PutOK
  <2>. QED  BY <2>1, <2>2, <2>3, <2>4, <2>6
<1>14. ASSUME NEW from, NEW r, Apply(o, from, r), op'[o] \in OpState,
              op' = [op EXCEPT ![o] = op'[o]]
       PROVE  Good
  <2>1. UNCHANGED queue /\ ~asleep[o] /\ \A a \in Ops \ {o} : Untouched(a)
    BY <1>13, <1>14 DEF queue, Untouched, StateOK
  <2>2. StateOK'
    BY <1>13, <1>14 DEF queue, StateOK
  <2>. QED  BY <2>1, <2>2
<1>15. CASE Detect(o)
  <2>1. CASE FailAt(o, "conflict")
    BY <1>3, <2>1
  <2>2. CASE Quiet(o, "conflict", "gate")
    BY <1>1, <2>2 DEF PCs
  <2>3. CASE Apply(o, "conflict", op[o].blanket) /\ UNCHANGED op
    <3>1. op' = [op EXCEPT ![o] = op'[o]] /\ op'[o] \in OpState
      BY <2>3, <1>t
    <3>. QED  BY <1>14, <2>3, <3>1
  <2>4. CASE /\ Move(o, "conflict", "parked")
             /\ op' = [op EXCEPT ![o].status = "Conflict", ![o].answer = NoAnswer]
    <3>1. op' = [op EXCEPT ![o] = op'[o]] /\ op'[o] \in OpState
      BY <2>4, <1>s, <1>t, ZenonT(40) DEF OpState
    <3>. QED  BY <1>2, <2>4, <3>1 DEF PCs
  <2>. QED  BY <1>15, <2>1, <2>2, <2>3, <2>4 DEF Detect
<1>16. CASE Answered(o)
  <2>1. CASE Quiet(o, "parked", "after")
    BY <1>1, <2>1 DEF PCs
  <2>2. CASE /\ op' = [op EXCEPT ![o].answer = NoAnswer]
             /\ Apply(o, "parked", op[o].answer)
    <3>1. op' = [op EXCEPT ![o] = op'[o]] /\ op'[o] \in OpState
      BY <2>2, <1>t DEF OpState
    <3>. QED  BY <1>14, <2>2, <3>1
  <2>3. CASE /\ Move(o, "parked", "after")
             /\ op' = [op EXCEPT ![o].answer = NoAnswer, ![o].error = TRUE]
    <3>1. op' = [op EXCEPT ![o] = op'[o]] /\ op'[o] \in OpState
      BY <2>3, <1>t, ZenonT(40) DEF OpState
    <3>. QED  BY <1>2, <2>3, <3>1 DEF PCs
  <2>. QED  BY <1>16, <2>1, <2>2, <2>3 DEF Answered
<1>17. CASE Sleep(o)
  BY <1>17 DEF Sleep, queue, place, disk, Untouched, StateOK
<1>18. CASE Gate(o)
  BY <1>1, <1>18 DEF Gate, PCs
<1>19. ASSUME NEW from, NEW to \in PCs, DiskStep(o, from, to),
              \/ UNCHANGED src
              \/ src' = [src EXCEPT ![o][item[o]] = "gone"],
              \/ UNCHANGED dst
              \/ \E what \in {"partial", "whole"} : Put(o, what)
       PROVE  Good
  <2>1. /\ src' = [src EXCEPT ![o] = src'[o]]
        /\ src'[o] \in [Items -> {"present", "gone"}]
    <3>1. CASE UNCHANGED src
      BY <3>1 DEF StateOK
    <3>2. CASE src' = [src EXCEPT ![o][item[o]] = "gone"]
      <4>1. src'[o] = [src[o] EXCEPT ![item[o]] = "gone"]
        BY <3>2 DEF StateOK
      <4>2. src' = [src EXCEPT ![o] = src'[o]]
        BY <3>2 DEF StateOK
      <4>. QED  BY <4>1, <4>2 DEF StateOK
    <3>. QED  BY <1>19, <3>1, <3>2
  <2>2. /\ dst' = [dst EXCEPT ![o] = dst'[o]]
        /\ dst'[o] \in [Items -> [Names -> {"absent", "old", "partial", "whole"}]]
    BY <1>19, PutOK
  <2>. QED  BY <1>19, <2>1, <2>2 DEF DiskStep, At, GoTo, queue, place, Untouched, StateOK
<1>20. CASE StartIo(o)
  <2>1. CASE Move(o, "io", "after") /\ Fail(o)
    <3>1. op' = [op EXCEPT ![o] = op'[o]] /\ op'[o] \in OpState
      BY <2>1, <1>t DEF Fail, OpState
    <3>. QED  BY <1>2, <2>1, <3>1 DEF PCs
  <2>. QED  BY <1>1, <1>3, <1>19, <1>20, <2>1 DEF StartIo, PCs
<1>21. CASE Chunk(o)
  BY <1>1, <1>3, <1>19, <1>21
     DEF Chunk, CopyEnds, CopyTree, ArchiveItem, DeleteTree, PCs
<1>22. CASE RemoveSource(o)
  BY <1>1, <1>3, <1>19, <1>22 DEF RemoveSource, PCs
<1>23. CASE EndIo(o)
  BY <1>1, <1>23 DEF EndIo, PCs
<1>24. CASE AdvanceItem(o)
  <2>1. op'[o] = [op[o] EXCEPT !.completed = @ + 1] /\ op' = [op EXCEPT ![o] = op'[o]]
    BY <1>24, <1>t DEF AdvanceItem
  <2>2. op'[o] \in OpState
    BY <1>t, <2>1, SMTT(40) DEF OpState
  <2>. QED  BY <1>2, <1>24, <2>1, <2>2 DEF AdvanceItem, PCs
<1>25. CASE After(o)
  BY <1>1, <1>10, <1>25 DEF After, PCs
<1>26. CASE Recheck(o)
  <2>1. item' = [item EXCEPT ![o] = item'[o]] /\ item'[o] \in Items
    BY <1>26, <1>t, OpsAssumption DEF Recheck, NextItem, Items
  <2>2. pc' = [pc EXCEPT ![o] = pc'[o]] /\ pc'[o] \in PCs
    BY <1>26, <1>t DEF Recheck, NextItem, GoTo, PCs
  <2>. QED  BY <1>26, <2>1, <2>2 DEF Recheck, At, queue, disk, Untouched, StateOK
<1>27. CASE Finish(o)
  <2>1. op' = [op EXCEPT ![o] = op'[o]] /\ op'[o] \in OpState
    BY <1>27, <1>s, <1>t, ZenonT(40) DEF Finish, OpState
  <2>. QED  BY <1>2, <1>27, <2>1 DEF Finish, PCs
<1>28. CASE DropPermit(o)
  BY <1>1, <1>28 DEF DropPermit, PCs
<1>29. CASE Release(o)
  BY <1>29 DEF Release, At, GoTo, PCs, place, disk, Untouched, StateOK
<1>. QED
  BY <1>4, <1>5, <1>6, <1>7, <1>8, <1>9, <1>11, <1>12, <1>15, <1>16, <1>17,
     <1>18, <1>20, <1>21, <1>22, <1>23, <1>24, <1>25, <1>26, <1>27, <1>28, <1>29
     DEF WorkerStep
\* The same for the user's commands, the notifications and the retention
\* timers; none of them moves a worker or touches the disk.
LEMMA CommandFrame ==
  ASSUME StateOK, NEW o \in Ops, User(o) \/ NotifyAll(o) \/ AutoRemove(o)
  PROVE  /\ StateOK'
         /\ \A a \in Ops \ {o} : Untouched(a)
         /\ UNCHANGED <<busy, pc, place, disk>>
<1>. DEFINE Good == /\ StateOK'
                    /\ \A a \in Ops \ {o} : Untouched(a)
                    /\ UNCHANGED <<busy, pc, place, disk>>
<1>t. op \in [Ops -> OpState]
  BY DEF StateOK
<1>s. /\ "Active" \in Statuses /\ "Paused" \in Statuses /\ "Pending" \in Statuses
      /\ "Cancelled" \in Statuses
  BY DEF Statuses
<1>1. ASSUME NEW name, NEW statuses, Command(o, name, statuses),
             op' = [op EXCEPT ![o] = op'[o]], op'[o] \in OpState,
             UNCHANGED queue \/ MustNotify(o)
      PROVE  Good
  <2>1. /\ UNCHANGED <<listed, order, busy, owed, tail, timers>>
        /\ notices' \in [Ops -> Nat] /\ \A a \in Ops \ {o} : notices'[a] = notices[a]
    BY <1>1 DEF MustNotify, queue, StateOK
  <2>2. UNCHANGED <<pc, place, asleep, disk>>
    BY <1>1 DEF Command
  <2>3. op' \in [Ops -> OpState] /\ \A a \in Ops \ {o} : op'[a] = op[a]
    BY <1>1, <1>t
  <2>4. StateOK'
    BY <2>1, <2>2, <2>3 DEF place, disk, StateOK
  <2>. QED  BY <2>1, <2>2, <2>3, <2>4 DEF place, disk, Untouched
<1>2. CASE StartOp(o)
  <2>1. op' = [op EXCEPT ![o] = op'[o]] /\ op'[o] \in OpState
    BY <1>2, <1>s, <1>t, NewOpOK DEF StartOp
  <2>. QED  BY <1>2, <2>1 DEF StartOp, place, disk, StateOK, Untouched
<1>3. CASE PauseOp(o)
  <2>1. op' = [op EXCEPT ![o] = op'[o]] /\ op'[o] \in OpState
    BY <1>3, <1>s, <1>t DEF PauseOp, OpState
  <2>. QED  BY <1>1, <1>3, <2>1 DEF PauseOp
<1>4. CASE ResumeOp(o)
  <2>1. op' = [op EXCEPT ![o] = op'[o]] /\ op'[o] \in OpState
    BY <1>4, <1>s, <1>t DEF ResumeOp, OpState
  <2>. QED  BY <1>1, <1>4, <2>1 DEF ResumeOp
<1>5. CASE CancelPending(o)
  <2>1. op' = [op EXCEPT ![o] = op'[o]] /\ op'[o] \in OpState
    BY <1>5, <1>s, <1>t DEF CancelPending, OpState
  <2>. QED  BY <1>5, <2>1 DEF CancelPending, Command, place, disk, StateOK, Untouched
<1>6. CASE CancelRunning(o)
  <2>1. op' = [op EXCEPT ![o] = op'[o]] /\ op'[o] \in OpState
    BY <1>6, <1>s, <1>t, ZenonT(40) DEF CancelRunning, OpState
  <2>. QED  BY <1>1, <1>6, <2>1 DEF CancelRunning
<1>7. CASE SkipOp(o)
  <2>1. op' = [op EXCEPT ![o] = op'[o]] /\ op'[o] \in OpState
    BY <1>7, <1>s, <1>t, ZenonT(40) DEF SkipOp, OpState
  <2>. QED  BY <1>1, <1>7, <2>1 DEF SkipOp
<1>8. CASE RetryOp(o)
  <2>1. op' = [op EXCEPT ![o] = op'[o]] /\ op'[o] \in OpState
    BY <1>8, <1>s, <1>t, NewOpOK DEF RetryOp, OpState
  <2>. QED  BY <1>8, <2>1 DEF RetryOp, Command, place, disk, StateOK, Untouched
<1>9. ASSUME NEW r \in Resolutions, NEW all \in BOOLEAN, ResolveConflict(o, r, all)
      PROVE  Good
  <2>1. op' = [op EXCEPT ![o] = op'[o]] /\ op'[o] \in OpState
    BY <1>9, <1>s, <1>t, ZenonT(40) DEF ResolveConflict, OpState
  <2>. QED  BY <1>1, <1>9, <2>1 DEF ResolveConflict
<1>10. CASE NotifyAll(o)
  BY <1>10 DEF NotifyAll, place, disk, StateOK, Untouched
<1>11. CASE AutoRemove(o)
  BY <1>11 DEF AutoRemove, place, disk, StateOK, Untouched
<1>. QED
  BY <1>2, <1>3, <1>4, <1>5, <1>6, <1>7, <1>8, <1>9, <1>10, <1>11
     DEF User, CancelOp

\* A pass over the queue gives workers to operations that are pending and had
\* none, and changes no operation.
LEMMA PassFrame ==
  ASSUME StateOK, IInv, NEW o \in Ops, Schedule(o) \/ Reschedule(o)
  PROVE  /\ StateOK'
         /\ UNCHANGED <<listed, order, op, place, asleep, disk, notices>>
         /\ \A a \in Ops \ {o} : /\ owed'[a] = owed[a] /\ tail'[a] = tail[a]
                                 /\ timers'[a] = timers[a]
         /\ owed'[o] <= owed[o] /\ tail'[o] <= tail[o]
         /\ timers'[o] = timers[o] \/ tail[o] > 0
         /\ \A a \in Ops : pc'[a] # pc[a] =>
              /\ a \in listed /\ op[a].status = "Pending"
              /\ pc[a] = "idle" /\ pc'[a] = "admit"
<1>1. Dispatch
  BY DEF Schedule, Reschedule
<1>2. PICK S \in SUBSET Queued :
        /\ IsStartable(S)
        /\ busy' = busy \cup UNION {VolumesOf[a] : a \in S}
        /\ pc' = [a \in Ops |-> IF a \in S THEN "admit" ELSE pc[a]]
  BY <1>1 DEF Dispatch
<1>3. \A a \in S : a \in listed /\ op[a].status = "Pending"
  BY <1>2 DEF IsStartable, Queued
<1>4. \A a \in Ops : pc'[a] # pc[a] => pc[a] = "idle" /\ pc'[a] = "admit"
  BY <1>1, DispatchSafe DEF IInv
<1>5. busy' \subseteq Volumes
  BY <1>2, <1>3, VolumesAssumption DEF StateOK
<1>6. pc' \in [Ops -> PCs]
  BY <1>2 DEF StateOK, PCs
<1>7. /\ UNCHANGED <<listed, order, op, place, asleep, disk, notices>>
      /\ owed' \in [Ops -> Nat] /\ tail' \in [Ops -> Nat] /\ timers' \in [Ops -> Nat]
      /\ \A a \in Ops \ {o} : /\ owed'[a] = owed[a] /\ tail'[a] = tail[a]
                              /\ timers'[a] = timers[a]
      /\ owed'[o] <= owed[o] /\ tail'[o] <= tail[o]
      /\ timers'[o] = timers[o] \/ tail[o] > 0
  <2>1. CASE Schedule(o)
    BY <2>1 DEF Schedule, StateOK
  <2>2. CASE Reschedule(o)
    BY <2>2 DEF Reschedule, StateOK
  <2>. QED  BY <2>1, <2>2
<1>8. StateOK'
  BY <1>5, <1>6, <1>7 DEF StateOK, place, disk
<1>9. \A a \in Ops : pc'[a] # pc[a] => a \in S
  BY <1>2 DEF StateOK
<1>. QED  BY <1>3, <1>4, <1>7, <1>8, <1>9

\* Every step keeps the types of everything but the queue order.
LEMMA StateStep == StateOK /\ IInv /\ [Next]_vars => StateOK'
<1>. SUFFICES ASSUME StateOK, IInv, [Next]_vars PROVE StateOK'
  OBVIOUS
<1>1. CASE UNCHANGED vars
  BY <1>1 DEF vars, StateOK
<1>2. ASSUME NEW ids \in Requests, ReorderOps(ids)
      PROVE  StateOK'
  BY <1>2 DEF ReorderOps, place, disk, StateOK
<1>. QED
  BY <1>1, <1>2, WorkerFrame, CommandFrame, PassFrame DEF Next, Background

-----------------------------------------------------------------------------
(* Cancellation.                                                           *)

Ended   == {"drop", "release", "idle"}
Running == {"Active", "Paused", "Conflict"}
Entering == {"admit", "queued", "start", "begin"}
Looping == {"top", "check", "conflict", "parked", "gate", "io", "chunk",
            "copied", "ioend", "advance", "after", "recheck"}

\* What the flags, the status and the worker's place have to do with each
\* other.
Control(o) ==
  /\ op[o].cancel => op[o].status \in Running \cup {"Cancelled"}
  /\ op[o].cancel /\ ~op[o].skip /\ ~op[o].overtaken => op[o].status = "Cancelled"
  /\ op[o].status \in {"Completed", "Failed"} => pc[o] \in Ended
  /\ op[o].status = "none" => pc[o] = "idle"
  /\ pc[o] \in Entering => op[o].status \in {"Pending", "Cancelled"} /\ ~op[o].cancel
  /\ asleep[o] => pc[o] \in {"parked", "gate", "chunk"}

Done(o, i) == Transferred(o, i) \/ i \in skipped[o]
DoneBefore(o, n) == \A i \in Items : i < n => Done(o, i)

\* Where the worker is in its items, and what is already done.
Progress(o) ==
  /\ pc[o] \in Looping =>
       op[o].error \/ (DoneBefore(o, item[o]) /\ op[o].completed + 1 >= item[o])
  /\ pc[o] = "copied" =>
       KindOf[o] = "move" /\ (op[o].cancel \/ Here(o) = "whole")
  /\ pc[o] = "ioend" => op[o].cancel \/ Done(o, item[o])
  /\ pc[o] = "advance" => Done(o, item[o])
  /\ pc[o] \in {"after", "recheck"} =>
       op[o].error \/ op[o].cancel
       \/ (Done(o, item[o]) /\ op[o].completed >= item[o])
  /\ pc[o] = "final" =>
       op[o].error \/ op[o].cancel
       \/ (DoneBefore(o, ItemCount + 1) /\ op[o].completed >= ItemCount)
  /\ op[o].status = "Completed" =>
       DoneBefore(o, ItemCount + 1) /\ op[o].completed >= ItemCount

\* A step that leaves the operation alone keeps its part of the invariant.
LEMMA ControlUntouched ==
  ASSUME NEW o \in Ops, Control(o), Untouched(o)
  PROVE  Control(o)'
<1>. QED  BY DEF Control, Untouched

\* The cancellation of one operation, as CancelIsFinal states it.
KeepsCancel(o) ==
  op[o].cancel /\ ~op[o].skip =>
    /\ op'[o].cancel /\ op'[o].status \notin {"Completed", "Failed"}
    /\ ~op[o].overtaken /\ ~op'[o].overtaken =>
         op[o].status = "Cancelled" /\ op'[o].status = "Cancelled" /\ ~op'[o].skip

\* What Control reads of an operation does not change.
SameControl(o) ==
  /\ op'[o].cancel = op[o].cancel /\ op'[o].skip = op[o].skip
  /\ op'[o].overtaken = op[o].overtaken /\ op'[o].status = op[o].status

\* A worker keeps its operation under control, and never un-cancels it.
LEMMA WorkerControl ==
  ASSUME StateOK, NEW o \in Ops, Control(o), WorkerStep(o)
  PROVE  Control(o)' /\ KeepsCancel(o)
<1>. DEFINE Good == Control(o)' /\ KeepsCancel(o)
<1>t. /\ op \in [Ops -> OpState] /\ op[o] \in OpState
      /\ pc \in [Ops -> PCs] /\ asleep \in [Ops -> BOOLEAN]
  BY DEF StateOK
<1>. USE DEF Control, KeepsCancel, Ended, Running, Entering
<1>1. ASSUME NEW from \in PCs \ {"idle"}, NEW to \in PCs \ {"idle"}, Quiet(o, from, to),
             from \in Ended => to \in Ended, to \in Entering => from \in Entering
      PROVE  Good
  BY <1>1, <1>t DEF Quiet, Move, At, GoTo
<1>2. ASSUME NEW from \in PCs \ Ended, NEW to \in PCs \ Entering,
             Move(o, from, to), SameControl(o)
      PROVE  Good
  BY <1>2, <1>t DEF Move, At, GoTo, SameControl
<1>3. ASSUME NEW from \in PCs \ Ended, FailAt(o, from)
      PROVE  Good
  <2>1. SameControl(o)
    BY <1>3, <1>t DEF FailAt, Fail, OpState, SameControl
  <2>. QED  BY <1>2, <1>3, <2>1 DEF FailAt, PCs
<1>4. CASE Admit(o)
  BY <1>1, <1>4 DEF Admit, PCs
<1>5. CASE Grant(o)
  BY <1>1, <1>5 DEF Grant, PCs
<1>6. CASE Deny(o)
  <2>1. op'[o].cancel = op[o].cancel /\ op'[o].status \in {op[o].status, "Cancelled"}
    BY <1>6, <1>t DEF Deny, OpState
  <2>2. pc[o] = "queued" /\ pc'[o] = "release" /\ ~asleep[o] /\ asleep' = asleep
    BY <1>6, <1>t DEF Deny, Move, At, GoTo
  <2>. QED  BY <2>1, <2>2
<1>7. CASE Find(o)
  BY <1>1, <1>7 DEF Find, PCs
<1>8. CASE Begin(o)
  <2>1. op'[o].cancel = op[o].cancel /\ op'[o].status = "Active"
    BY <1>8, <1>t DEF Begin, OpState
  <2>2. pc[o] = "begin" /\ pc'[o] = "measure" /\ ~asleep[o] /\ asleep' = asleep
    BY <1>8, <1>t DEF Begin, Move, At, GoTo
  <2>. QED  BY <2>1, <2>2
<1>9. CASE Measure(o)
  BY <1>9, <1>t DEF Measure, At, GoTo
<1>10. ASSUME NEW from \in {"top", "after"}, SkipItem(o, from)
       PROVE  Good
  <2>1. /\ op[o].skip /\ ~op'[o].cancel /\ op'[o].status = "Paused"
        /\ pc'[o] \in {"top", "final"} /\ asleep'[o] = FALSE
    BY <1>10, <1>t DEF SkipItem, NextItem, At, GoTo, OpState, PCs
  <2>. QED  BY <2>1
<1>11. CASE Top(o)
  BY <1>1, <1>10, <1>11 DEF Top, PCs
<1>12. CASE Check(o)
  BY <1>12, <1>t DEF Check, At, GoTo
<1>13. ASSUME NEW from \in {"conflict", "parked"}, NEW r, Apply(o, from, r),
              SameControl(o)
       PROVE  Good
  <2>1. pc[o] = from /\ ~asleep[o] /\ pc'[o] \in {"advance", "gate"} /\ UNCHANGED asleep
    BY <1>13, <1>t DEF Apply, At, GoTo
  <2>. QED  BY <1>13, <2>1 DEF SameControl
<1>14. CASE Detect(o)
  <2>1. CASE FailAt(o, "conflict")
    BY <1>3, <2>1 DEF PCs
  <2>2. CASE Quiet(o, "conflict", "gate")
    BY <1>1, <2>2 DEF PCs
  <2>3. CASE Apply(o, "conflict", op[o].blanket) /\ UNCHANGED op
    BY <1>13, <2>3 DEF SameControl
  <2>4. CASE /\ Move(o, "conflict", "parked")
             /\ op' = [op EXCEPT ![o].status = "Conflict", ![o].answer = NoAnswer,
                                 ![o].overtaken = op[o].cancel /\ ~op[o].skip]
    <3>1. /\ op'[o].cancel = op[o].cancel /\ op'[o].status = "Conflict"
          /\ op'[o].skip = op[o].skip
          /\ op'[o].overtaken = (op[o].cancel /\ ~op[o].skip)
      BY <2>4, <1>t DEF OpState
    <3>2. pc[o] = "conflict" /\ pc'[o] = "parked" /\ ~asleep[o] /\ asleep' = asleep
      BY <2>4, <1>t DEF Move, At, GoTo
    <3>3. Control(o)'
      BY <3>1, <3>2
    <3>4. KeepsCancel(o)
      BY <3>1
    <3>. QED  BY <3>3, <3>4
  <2>. QED  BY <1>14, <2>1, <2>2, <2>3, <2>4 DEF Detect
<1>15. CASE Answered(o)
  <2>1. CASE Quiet(o, "parked", "after")
    BY <1>1, <2>1 DEF PCs
  <2>2. CASE /\ op' = [op EXCEPT ![o].answer = NoAnswer]
             /\ Apply(o, "parked", op[o].answer)
    <3>1. SameControl(o)
      BY <2>2, <1>t DEF OpState, SameControl
    <3>. QED  BY <1>13, <2>2, <3>1
  <2>3. CASE /\ Move(o, "parked", "after")
             /\ op' = [op EXCEPT ![o].answer = NoAnswer, ![o].error = TRUE]
    <3>1. SameControl(o)
      BY <2>3, <1>t DEF OpState, SameControl
    <3>. QED  BY <1>2, <2>3, <3>1 DEF PCs
  <2>. QED  BY <1>15, <2>1, <2>2, <2>3 DEF Answered
<1>16. CASE Sleep(o)
  BY <1>16, <1>t DEF Sleep
<1>17. CASE Gate(o)
  BY <1>1, <1>17 DEF Gate, PCs
<1>18. ASSUME NEW from \in PCs \ Ended, NEW to \in PCs \ Entering, DiskStep(o, from, to)
       PROVE  Good
  BY <1>18, <1>t DEF DiskStep, At, GoTo
<1>19. CASE StartIo(o)
  <2>1. CASE Move(o, "io", "after") /\ Fail(o)
    <3>1. SameControl(o)
      BY <2>1, <1>t DEF Fail, OpState, SameControl
    <3>. QED  BY <1>2, <2>1, <3>1 DEF PCs
  <2>. QED  BY <1>1, <1>3, <1>18, <1>19, <2>1 DEF StartIo, PCs
<1>20. CASE Chunk(o)
  BY <1>1, <1>3, <1>18, <1>20 DEF Chunk, CopyEnds, PCs
<1>21. CASE RemoveSource(o)
  BY <1>1, <1>3, <1>18, <1>21 DEF RemoveSource, PCs
<1>22. CASE EndIo(o)
  BY <1>1, <1>22 DEF EndIo, PCs
<1>23. CASE AdvanceItem(o)
  <2>1. SameControl(o)
    BY <1>23, <1>t DEF AdvanceItem, OpState, SameControl
  <2>. QED  BY <1>2, <1>23, <2>1 DEF AdvanceItem, PCs
<1>24. CASE After(o)
  BY <1>1, <1>10, <1>24 DEF After, PCs
<1>25. CASE Recheck(o)
  BY <1>25, <1>t DEF Recheck, NextItem, At, GoTo
<1>26. CASE Finish(o)
  <2>1. /\ op'[o].cancel = op[o].cancel /\ pc[o] = "final" /\ pc'[o] = "drop"
        /\ op'[o].skip = op[o].skip /\ op'[o].overtaken = op[o].overtaken
        /\ op'[o].status \in Terminal
        /\ op[o].cancel => op'[o].status = "Cancelled"
        /\ UNCHANGED asleep /\ ~asleep[o]
    BY <1>26, <1>t DEF Finish, OpState, Move, At, GoTo, Terminal
  <2>. QED  BY <2>1 DEF Terminal
<1>27. CASE DropPermit(o)
  BY <1>1, <1>27 DEF DropPermit, PCs
<1>28. CASE Release(o)
  BY <1>28, <1>t DEF Release, At, GoTo
<1>. QED
  BY <1>4, <1>5, <1>6, <1>7, <1>8, <1>9, <1>11, <1>12, <1>14, <1>15, <1>16, <1>17,
     <1>19, <1>20, <1>21, <1>22, <1>23, <1>24, <1>25, <1>26, <1>27, <1>28
     DEF WorkerStep

\* So do the commands, the retention timer and the notifications.
LEMMA CommandControl ==
  ASSUME StateOK, NEW o \in Ops, Control(o), User(o) \/ NotifyAll(o) \/ AutoRemove(o)
  PROVE  Control(o)' /\ KeepsCancel(o)
<1>. DEFINE Good == Control(o)' /\ KeepsCancel(o)
<1>t. /\ op \in [Ops -> OpState] /\ op[o] \in OpState
      /\ asleep \in [Ops -> BOOLEAN]
  BY DEF StateOK
<1>. USE DEF Control, KeepsCancel, Ended, Running, Entering
<1>1. pc'[o] = pc[o]
  BY CommandFrame
<1>2. ASSUME NEW name, NEW statuses, Command(o, name, statuses)
      PROVE  asleep'[o] = asleep[o] /\ op[o].status \in statuses
  BY <1>2 DEF Command
<1>3. CASE StartOp(o)
  BY <1>1, <1>3, <1>t DEF StartOp, NewOp, OpState
<1>4. CASE PauseOp(o)
  BY <1>1, <1>2, <1>4, <1>t DEF PauseOp, OpState
<1>5. CASE ResumeOp(o)
  BY <1>1, <1>2, <1>5, <1>t DEF ResumeOp, OpState
<1>6. CASE CancelPending(o)
  BY <1>1, <1>2, <1>6, <1>t DEF CancelPending, OpState
<1>7. CASE CancelRunning(o)
  BY <1>1, <1>2, <1>7, <1>t DEF CancelRunning, OpState
<1>8. CASE SkipOp(o)
  BY <1>1, <1>2, <1>8, <1>t DEF SkipOp, OpState
<1>9. CASE RetryOp(o)
  BY <1>1, <1>2, <1>9, <1>t DEF RetryOp, NewOp, OpState
<1>10. ASSUME NEW r \in Resolutions, NEW all \in BOOLEAN, ResolveConflict(o, r, all)
       PROVE  Good
  BY <1>1, <1>2, <1>10, <1>t DEF ResolveConflict, OpState
<1>11. CASE NotifyAll(o)
  BY <1>1, <1>11, <1>t DEF NotifyAll
<1>12. CASE AutoRemove(o)
  BY <1>1, <1>12 DEF AutoRemove
<1>. QED
  BY <1>3, <1>4, <1>5, <1>6, <1>7, <1>8, <1>9, <1>10, <1>11, <1>12 DEF User, CancelOp

\* The invariant of every single operation, and what it rests on.
ControlIInv == IInv /\ StateOK /\ \A o \in Ops : Control(o)

\* Every step keeps every operation under control.
LEMMA ControlStep ==
  ASSUME ControlIInv, [Next]_vars
  PROVE  /\ ControlIInv'
         /\ \A o \in Ops : KeepsCancel(o)
<1>. USE DEF ControlIInv
<1>1. IInv' /\ StateOK'
  BY NextIInv, StateStep
<1>2. ASSUME NEW o \in Ops, Untouched(o)
      PROVE  Control(o)' /\ KeepsCancel(o)
  <2>1. Control(o)'
    BY <1>2, ControlUntouched
  <2>2. KeepsCancel(o)
    BY <1>2 DEF Untouched, KeepsCancel, Control, Running
  <2>. QED  BY <2>1, <2>2
<1>3. CASE UNCHANGED vars
  BY <1>1, <1>2, <1>3 DEF vars, Untouched
<1>4. ASSUME NEW ids \in Requests, ReorderOps(ids), NEW o \in Ops
      PROVE  Untouched(o)
  BY <1>4 DEF ReorderOps, place, disk, Untouched
<1>5. ASSUME NEW a \in Ops, WorkerStep(a), NEW o \in Ops
      PROVE  Control(o)' /\ KeepsCancel(o)
  BY <1>2, <1>5, WorkerFrame, WorkerControl
<1>6. ASSUME NEW a \in Ops, User(a) \/ NotifyAll(a) \/ AutoRemove(a), NEW o \in Ops
      PROVE  Control(o)' /\ KeepsCancel(o)
  BY <1>2, <1>6, CommandFrame, CommandControl
<1>7. ASSUME NEW a \in Ops, Schedule(a) \/ Reschedule(a), NEW o \in Ops
      PROVE  Control(o)' /\ KeepsCancel(o)
  <2>1. /\ op' = op /\ asleep' = asleep
        /\ pc'[o] = pc[o] \/ (pc[o] = "idle" /\ pc'[o] = "admit" /\ op[o].status = "Pending")
    BY <1>7, PassFrame
  <2>. QED  BY <2>1 DEF Control, KeepsCancel, Running, Ended, Entering
<1>. QED  BY <1>1, <1>2, <1>3, <1>4, <1>5, <1>6, <1>7 DEF Next, Background

\* All operations are under control initially.
LEMMA ControlInit == Init => ControlIInv
<1>. SUFFICES ASSUME Init PROVE ControlIInv
  OBVIOUS
<1>1. \A o \in Ops : op[o] = NewOp("none") /\ pc[o] = "idle" /\ asleep[o] = FALSE
  BY DEF Init
<1>2. \A o \in Ops : Control(o)
  BY <1>1 DEF Control, NewOp, Entering
<1>3. StateOK
  <2>1. op \in [Ops -> OpState]
    BY NewOpOK DEF Init, Statuses
  <2>2. item \in [Ops -> Items] /\ pc \in [Ops -> PCs] /\ target \in [Ops -> Names]
    BY OpsAssumption DEF Init, PCs, Names, Items
  <2>3. dst \in [Ops -> [Items -> [Names -> {"absent", "old", "partial", "whole"}]]]
    BY DEF Init
  <2>. QED  BY <2>1, <2>2, <2>3 DEF Init, StateOK
<1>. QED  BY <1>2, <1>3, InitIInv DEF ControlIInv

\* ... and always.
LEMMA ControlInvariance == Spec => []ControlIInv
<1>1. ControlIInv /\ [Next]_vars => ControlIInv'
  BY ControlStep
<1>. QED  BY <1>1, ControlInit, PTL DEF Spec

\* A cancellation of a running operation is final for any number of operations,
\* volumes, items and retries: it is shown and cannot be skipped until a worker
\* already on its way into a conflict shows that instead, and even then the
\* operation is never reported Completed or Failed until the user skips.
THEOREM Cancelled == Spec => CancelIsFinal
<1>1. ASSUME ControlIInv, [Next]_vars
      PROVE  [\A o \in Ops : op[o].cancel /\ ~op[o].skip =>
                /\ op'[o].cancel /\ op'[o].status \notin {"Completed", "Failed"}
                /\ ~op[o].overtaken /\ ~op'[o].overtaken =>
                     op[o].status = "Cancelled" /\ op'[o].status = "Cancelled"
                     /\ ~op'[o].skip]_op
  BY <1>1, ControlStep DEF KeepsCancel
<1>. QED  BY <1>1, ControlInvariance, PTL DEF Spec, CancelIsFinal

-----------------------------------------------------------------------------
(* Completion.                                                             *)

\* What is done stays done while the worker is at another item.
LEMMA DoneBeforeKept ==
  ASSUME StateOK, NEW o \in Ops, NEW n \in Nat, DoneBefore(o, n),
         \A i \in Items : i < n => src'[o][i] \in {src[o][i], "gone"}
                                   /\ dst'[o][i] = dst[o][i],
         skipped[o] \subseteq skipped'[o]
  PROVE  DoneBefore(o, n)'
<1>. QED  BY DEF DoneBefore, Done, Transferred

\* The bound of the loop over the items, and the clause that holds all through
\* the loop.
InLoop(o) ==
  op[o].error \/ (DoneBefore(o, item[o]) /\ op[o].completed + 1 >= item[o])

\* A worker says done only what it has done.
LEMMA WorkerProgress ==
  ASSUME StateOK, NEW o \in Ops, Control(o), Progress(o), WorkerStep(o),
         NEW n \in Items, n = item[o]
  PROVE  Progress(o)'
<1>t. /\ op[o] \in OpState /\ op \in [Ops -> OpState] /\ op[o].completed \in Nat
      /\ pc \in [Ops -> PCs] /\ item \in [Ops -> Items] /\ item[o] \in Items
      /\ target \in [Ops -> Names] /\ skipped \in [Ops -> SUBSET Items]
      /\ src \in [Ops -> [Items -> {"present", "gone"}]]
      /\ dst \in [Ops -> [Items -> [Names -> {"absent", "old", "partial", "whole"}]]]
  BY DEF StateOK, OpState
<1>n. /\ ItemCount \in Nat \ {0} /\ KindOf[o] \in Kinds
      /\ n \in Nat /\ n >= 1 /\ n <= ItemCount
      /\ \A i \in Items : i \in Nat /\ i >= 1 /\ i <= ItemCount
  BY <1>t, OpsAssumption DEF Items
<1>p. pc[o] \in Looping => InLoop(o)
  BY DEF Progress, InLoop
<1>c. pc[o] \notin Ended => op[o].status # "Completed"
  BY DEF Control
\* The disk as it was: every statement about it carries over.
<1>d. ASSUME UNCHANGED <<place, disk>>
      PROVE  /\ item'[o] = n /\ Here(o)' = Here(o)
             /\ \A m : DoneBefore(o, m)' <=> DoneBefore(o, m)
             /\ \A i : Done(o, i)' <=> Done(o, i)
  BY <1>d DEF place, disk, Here, DoneBefore, Done, Transferred
\* A step to a place of the loop about which nothing more is claimed.
<1>1. ASSUME pc[o] \in Looping, UNCHANGED item,
             pc'[o] \in {"top", "check", "conflict", "parked", "gate", "io", "chunk"},
             op'[o].error = op[o].error, op'[o].completed = op[o].completed,
             op'[o].status # "Completed",
             \A i \in Items : i < n => src'[o][i] \in {src[o][i], "gone"}
                                             /\ dst'[o][i] = dst[o][i],
             skipped[o] \subseteq skipped'[o]
      PROVE  Progress(o)'
  <2>1. InLoop(o)
    BY <1>p, <1>1
  <2>2. DoneBefore(o, n) => DoneBefore(o, n)'
    BY <1>1, <1>n, DoneBeforeKept
  <2>. QED  BY <1>1, <2>1, <2>2 DEF InLoop, Progress, DoneBefore
\* The worker leaves the item with an error.
<1>2. ASSUME NEW from, pc[o] \notin Ended, Move(o, from, "after"), op'[o].error = TRUE,
             op'[o].status = op[o].status
      PROVE  Progress(o)'
  BY <1>2, <1>t, <1>c DEF Move, GoTo, Progress
<1>3. ASSUME NEW from, pc[o] \notin Ended, FailAt(o, from)
      PROVE  Progress(o)'
  <2>1. op'[o].error = TRUE /\ op'[o].status = op[o].status
    BY <1>3, <1>t DEF FailAt, Fail, OpState
  <2>. QED  BY <1>2, <1>3, <2>1 DEF FailAt
\* The worker is not in the loop afterwards, and does not finish either.
<1>4. ASSUME pc'[o] \notin Looping \cup {"final"},
             UNCHANGED <<place, disk>>,
             op'[o] = op[o] \/ op'[o].status # "Completed"
      PROVE  Progress(o)'
  <2>1. pc'[o] \notin {"copied", "ioend", "advance", "after", "recheck", "final"}
    BY <1>4 DEF Looping
  <2>. QED  BY <1>4, <1>d, <2>1 DEF Progress
<1>5. CASE Admit(o) \/ Grant(o) \/ Find(o) \/ DropPermit(o)
  BY <1>4, <1>5, <1>t DEF Admit, Grant, Find, DropPermit, Quiet, Move, GoTo, Looping
<1>6. CASE Deny(o)
  <2>1. op'[o] = op[o] \/ op'[o].status = "Cancelled"
    BY <1>6, <1>t DEF Deny, OpState
  <2>. QED  BY <1>4, <1>6, <2>1, <1>t DEF Deny, Move, GoTo, Looping
<1>7. CASE Begin(o)
  <2>1. op'[o].status = "Active"
    BY <1>7, <1>t DEF Begin, OpState
  <2>. QED  BY <1>4, <1>7, <2>1, <1>t DEF Begin, Move, GoTo, Looping
<1>8. CASE Measure(o)
  <2>1. /\ pc[o] = "measure" /\ pc'[o] = "top" /\ item'[o] = 1 /\ op' = op
        /\ op[o].status # "Completed"
    BY <1>8, <1>t, <1>c DEF Measure, At, GoTo, Ended
  <2>2. DoneBefore(o, 1)'
    BY <1>n DEF DoneBefore
  <2>. QED  BY <1>t, <2>1, <2>2 DEF Progress
\* The next iteration, when the current item is done.
<1>9. ASSUME pc[o] \in Looping, NextItem(o), UNCHANGED <<src, dst>>,
             op'[o].status # "Completed", op'[o].error = op[o].error,
             op'[o].completed \in Nat, op'[o].completed >= op[o].completed,
             skipped[o] \subseteq skipped'[o],
             op[o].error \/ (Done(o, n)' /\ op'[o].completed >= n)
      PROVE  Progress(o)'
  <2>1. InLoop(o)
    BY <1>p, <1>9
  <2>2. DoneBefore(o, n) /\ Done(o, n)' =>
          \A i \in Items : i < n + 1 => Done(o, i)'
    BY <1>9, <1>n DEF DoneBefore, Done, Transferred
  <2>3. CASE n < ItemCount
    <3>1. pc'[o] = "top" /\ item'[o] = n + 1
      BY <1>9, <1>t, <2>3 DEF NextItem, GoTo
    <3>. QED  BY <1>9, <1>n, <2>1, <2>2, <3>1 DEF Progress, InLoop, DoneBefore
  <2>4. CASE ~(n < ItemCount)
    <3>1. pc'[o] = "final"
      BY <1>9, <1>t, <2>4 DEF NextItem, GoTo
    <3>2. n = ItemCount
      BY <1>n, <2>4
    <3>. QED  BY <1>9, <1>n, <2>1, <2>2, <3>1, <3>2 DEF Progress, InLoop, DoneBefore, Looping
  <2>. QED  BY <2>3, <2>4
<1>10. ASSUME NEW from \in {"top", "after"}, SkipItem(o, from)
       PROVE  Progress(o)'
  <2>1. /\ op'[o].status = "Paused" /\ op'[o].error = op[o].error
        /\ op'[o].completed = op[o].completed + 1
        /\ pc[o] \in Looping
    BY <1>10, <1>t DEF SkipItem, OpState, At, Looping
  <2>2. n \in skipped'[o] /\ skipped[o] \subseteq skipped'[o]
    BY <1>10, <1>t DEF SkipItem
  <2>3. Done(o, n)'
    BY <2>2 DEF Done
  <2>4. op[o].error \/ op'[o].completed >= n
    BY <1>p, <1>n, <1>t, <2>1 DEF InLoop
  <2>5. NextItem(o) /\ UNCHANGED <<src, dst>>
    BY <1>10 DEF SkipItem
  <2>. QED  BY <1>9, <1>t, <2>1, <2>2, <2>3, <2>4, <2>5
<1>11. CASE Top(o)
  BY <1>1, <1>10, <1>11, <1>c, <1>t
     DEF Top, Quiet, Move, At, GoTo, place, disk, Looping, Ended
<1>12. CASE Check(o)
  <2>1. /\ pc[o] = "check" /\ UNCHANGED <<op, item, disk>>
        /\ pc'[o] \in {"conflict", "gate"} \/ (pc'[o] = "final" /\ Stops(o))
    BY <1>12, <1>t DEF Check, At, GoTo
  <2>2. CASE pc'[o] \in {"conflict", "gate"}
    BY <1>1, <1>c, <2>1, <2>2 DEF disk, Looping, Ended
  <2>3. CASE pc'[o] = "final" /\ Stops(o)
    BY <1>c, <2>1, <2>3 DEF Stops, Progress, Looping, Ended
  <2>. QED  BY <2>1, <2>2, <2>3
<1>13. ASSUME NEW from \in {"conflict", "parked"}, NEW r, Apply(o, from, r),
              op'[o].error = op[o].error, op'[o].completed = op[o].completed,
              op'[o].status = op[o].status
       PROVE  Progress(o)'
  <2>1. /\ pc[o] = from /\ UNCHANGED <<item, src>>
        /\ pc'[o] = "gate" \/ (pc'[o] = "advance" /\ n \in skipped'[o] /\ UNCHANGED dst)
        /\ skipped[o] \subseteq skipped'[o]
    BY <1>13, <1>t DEF Apply, At, GoTo
  <2>2. UNCHANGED dst \/ Put(o, "absent")
    BY <1>13 DEF Apply
  <2>3. \A i \in Items : i < n => dst'[o][i] = dst[o][i]
    BY <1>n, <1>t, <2>2 DEF Put
  <2>4. pc[o] \in Looping /\ op'[o].status # "Completed"
    BY <1>13, <1>c, <2>1 DEF Looping, Ended
  <2>5. CASE pc'[o] = "gate"
    BY <1>1, <1>13, <2>1, <2>3, <2>4, <2>5
  <2>6. CASE pc'[o] = "advance" /\ n \in skipped'[o] /\ UNCHANGED dst
    <3>1. Done(o, n)'
      BY <2>6 DEF Done
    <3>2. DoneBefore(o, n) => DoneBefore(o, n)'
      BY <1>n, <2>1, <2>3, DoneBeforeKept
    <3>. QED  BY <1>13, <1>p, <2>1, <2>4, <2>6, <3>1, <3>2 DEF Progress, InLoop
  <2>. QED  BY <2>1, <2>5, <2>6
<1>14. CASE Detect(o)
  <2>0. pc[o] = "conflict" /\ pc[o] \in Looping /\ pc[o] \notin Ended
    BY <1>14 DEF Detect, FailAt, Quiet, Move, Apply, At, Looping, Ended
  <2>1. CASE FailAt(o, "conflict")
    BY <1>3, <2>0, <2>1
  <2>2. CASE Quiet(o, "conflict", "gate")
    BY <1>1, <1>c, <1>t, <2>0, <2>2 DEF Quiet, Move, GoTo, place, disk
  <2>3. CASE Apply(o, "conflict", op[o].blanket) /\ UNCHANGED op
    BY <1>13, <2>3
  <2>4. CASE /\ Move(o, "conflict", "parked")
             /\ op' = [op EXCEPT ![o].status = "Conflict", ![o].answer = NoAnswer]
    <3>1. /\ op'[o].status = "Conflict" /\ op'[o].error = op[o].error
          /\ op'[o].completed = op[o].completed
      BY <2>4, <1>t DEF OpState
    <3>. QED  BY <1>1, <1>t, <2>0, <2>4, <3>1 DEF Move, GoTo, place, disk
  <2>. QED  BY <1>14, <2>1, <2>2, <2>3, <2>4 DEF Detect
<1>15. CASE Answered(o)
  <2>0. pc[o] = "parked" /\ pc[o] \in Looping /\ pc[o] \notin Ended
    BY <1>15 DEF Answered, Quiet, Move, Apply, At, Looping, Ended
  <2>1. CASE op[o].cancel /\ Quiet(o, "parked", "after")
    BY <1>c, <1>d, <1>p, <1>t, <2>0, <2>1 DEF Quiet, Move, GoTo, Progress, InLoop
  <2>2. CASE /\ op' = [op EXCEPT ![o].answer = NoAnswer]
             /\ Apply(o, "parked", op[o].answer)
    <3>1. /\ op'[o].status = op[o].status /\ op'[o].error = op[o].error
          /\ op'[o].completed = op[o].completed
      BY <2>2, <1>t DEF OpState
    <3>. QED  BY <1>13, <2>2, <3>1
  <2>3. CASE /\ Move(o, "parked", "after")
             /\ op' = [op EXCEPT ![o].answer = NoAnswer, ![o].error = TRUE]
    <3>1. op'[o].status = op[o].status /\ op'[o].error = TRUE
      BY <2>3, <1>t DEF OpState
    <3>. QED  BY <1>2, <2>0, <2>3, <3>1
  <2>. QED  BY <1>15, <2>1, <2>2, <2>3 DEF Answered
<1>16. CASE Sleep(o)
  <2>1. UNCHANGED <<op, pc, place, disk>>
    BY <1>16 DEF Sleep
  <2>. QED  BY <1>d, <2>1 DEF Progress
<1>17. CASE Gate(o)
  <2>1. /\ pc[o] = "gate" /\ UNCHANGED <<op, place, disk>>
        /\ pc'[o] = IF op[o].cancel THEN "after" ELSE "io"
    BY <1>17, <1>t DEF Gate, Quiet, Move, At, GoTo
  <2>2. CASE op[o].cancel
    BY <1>c, <1>d, <1>p, <2>1, <2>2 DEF Progress, InLoop, Looping, Ended
  <2>3. CASE ~op[o].cancel
    BY <1>1, <1>c, <2>1, <2>3 DEF place, disk, Looping, Ended
  <2>. QED  BY <2>2, <2>3
<1>18. CASE StartIo(o)
  <2>0. pc[o] = "io" /\ pc[o] \in Looping /\ pc[o] \notin Ended
    BY <1>18 DEF StartIo, FailAt, DiskStep, Quiet, Move, At, Looping, Ended
  <2>1. CASE Move(o, "io", "after") /\ Fail(o)
    <3>1. op'[o].status = op[o].status /\ op'[o].error = TRUE
      BY <2>1, <1>t DEF Fail, OpState
    <3>. QED  BY <1>2, <2>0, <2>1, <3>1
  <2>2. CASE FailAt(o, "io")
    BY <1>3, <2>0, <2>2
  <2>3. CASE /\ KindOf[o] = "move" /\ DiskStep(o, "io", "ioend")
             /\ src' = [src EXCEPT ![o][item[o]] = "gone"] /\ Put(o, "whole")
    <3>1. /\ src'[o][n] = "gone" /\ dst'[o][n][target[o]] = "whole"
          /\ target[o] \in Names /\ UNCHANGED <<op, item, skipped>> /\ pc'[o] = "ioend"
          /\ \A i \in Items : i < n => src'[o][i] \in {src[o][i], "gone"}
                                         /\ dst'[o][i] = dst[o][i]
      BY <1>t, <1>n, <2>3 DEF Put, DiskStep, GoTo, place, disk
    <3>2. Done(o, n)'
      BY <2>3, <3>1 DEF Done, Transferred
    <3>3. DoneBefore(o, n) => DoneBefore(o, n)'
      BY <1>n, <3>1, DoneBeforeKept
    <3>. QED  BY <1>c, <1>p, <2>0, <3>1, <3>2, <3>3 DEF Progress, InLoop
  <2>4. CASE DiskStep(o, "io", "chunk") /\ Put(o, "partial") /\ UNCHANGED src
    <3>1. /\ UNCHANGED <<op, item, skipped, src>> /\ pc'[o] = "chunk"
          /\ \A i \in Items : i < n => dst'[o][i] = dst[o][i]
      BY <1>t, <1>n, <2>4 DEF Put, DiskStep, GoTo, place, disk
    <3>. QED  BY <1>1, <1>c, <2>0, <3>1
  <2>5. CASE Quiet(o, "io", "chunk")
    BY <1>1, <1>c, <1>t, <2>0, <2>5 DEF Quiet, Move, GoTo, place, disk
  <2>6. CASE /\ KindOf[o] = "move" /\ DiskStep(o, "io", "copied")
             /\ Put(o, "whole") /\ UNCHANGED src
    <3>1. /\ dst'[o][n][target[o]] = "whole" /\ pc'[o] = "copied"
          /\ UNCHANGED <<op, item, target, skipped, src>>
          /\ \A i \in Items : i < n => dst'[o][i] = dst[o][i]
      BY <1>t, <1>n, <2>6 DEF Put, DiskStep, GoTo, place, disk
    <3>2. Here(o)' = "whole"
      BY <3>1 DEF Here
    <3>3. DoneBefore(o, n) => DoneBefore(o, n)'
      BY <1>n, <3>1, DoneBeforeKept
    <3>. QED  BY <1>c, <1>p, <2>0, <2>6, <3>1, <3>2, <3>3 DEF Progress, InLoop
  <2>. QED  BY <1>18, <2>1, <2>2, <2>3, <2>4, <2>5, <2>6 DEF StartIo, Merges
\* The end of the item's I/O, at "copied" or at "ioend".
<1>19. ASSUME pc[o] \in Looping, UNCHANGED <<op, item, target, skipped>>,
              \A i \in Items : i < n => src'[o][i] \in {src[o][i], "gone"}
                                         /\ dst'[o][i] = dst[o][i],
              \/ /\ pc'[o] = "ioend" /\ (op[o].cancel \/ Done(o, n)')
              \/ /\ pc'[o] = "copied" /\ KindOf[o] = "move"
                 /\ (op[o].cancel \/ dst'[o][n][target[o]] = "whole")
       PROVE  Progress(o)'
  <2>1. DoneBefore(o, n) => DoneBefore(o, n)'
    BY <1>n, <1>19, DoneBeforeKept
  <2>2. pc'[o] = "copied" => Here(o)' = dst'[o][n][target[o]]
    BY <1>19 DEF Here
  <2>3. pc[o] \notin Ended
    BY <1>19 DEF Looping, Ended
  <2>. QED  BY <1>19, <1>c, <1>p, <2>1, <2>2, <2>3 DEF Progress, InLoop
<1>20. CASE Chunk(o)
  <2>0. pc[o] = "chunk" /\ pc[o] \in Looping /\ pc[o] \notin Ended
    BY <1>20 DEF Chunk, FailAt, DiskStep, Quiet, Move, At, Looping, Ended
  <2>1. CASE op[o].cancel /\ Quiet(o, "chunk", CopyEnds(o))
    BY <1>19, <1>t, <2>0, <2>1 DEF Quiet, Move, GoTo, CopyEnds, place, disk
  <2>2. CASE FailAt(o, "chunk")
    BY <1>3, <2>0, <2>2
  <2>3. CASE /\ DiskStep(o, "chunk", CopyEnds(o))
             /\ CopyTree(o) \/ ArchiveItem(o) \/ DeleteTree(o)
    <3>1. /\ UNCHANGED <<op, item, target, skipped>> /\ pc'[o] = CopyEnds(o)
      BY <1>t, <2>3 DEF DiskStep, GoTo, place
    <3>2. CASE CopyTree(o) \/ ArchiveItem(o)
      <4>1. /\ UNCHANGED src /\ dst'[o][n][target[o]] = "whole" /\ target[o] \in Names
            /\ \A i \in Items : i < n => dst'[o][i] = dst[o][i]
            /\ KindOf[o] # "delete"
        BY <1>t, <1>n, <3>2 DEF CopyTree, ArchiveItem, Put
      <4>2. KindOf[o] # "move" => Done(o, n)'
        BY <4>1 DEF Done, Transferred
      <4>. QED  BY <1>19, <2>0, <3>1, <4>1, <4>2 DEF CopyEnds
    <3>3. CASE DeleteTree(o)
      <4>1. /\ UNCHANGED dst /\ src'[o][n] = "gone" /\ KindOf[o] = "delete"
            /\ \A i \in Items : src'[o][i] \in {src[o][i], "gone"}
        BY <1>t, <3>3 DEF DeleteTree
      <4>2. Done(o, n)'
        BY <4>1 DEF Done, Transferred
      <4>. QED  BY <1>19, <2>0, <3>1, <4>1, <4>2 DEF CopyEnds
    <3>. QED  BY <2>3, <3>2, <3>3
  <2>. QED  BY <1>20, <2>1, <2>2, <2>3 DEF Chunk
<1>21. CASE RemoveSource(o)
  <2>0. pc[o] = "copied" /\ pc[o] \in Looping /\ pc[o] \notin Ended
    BY <1>21 DEF RemoveSource, FailAt, DiskStep, Quiet, Move, At, Looping, Ended
  <2>1. CASE op[o].cancel /\ Quiet(o, "copied", "ioend")
    BY <1>19, <1>t, <2>0, <2>1 DEF Quiet, Move, GoTo, place, disk
  <2>2. CASE FailAt(o, "copied")
    BY <1>3, <2>0, <2>2
  <2>3. CASE /\ ~op[o].cancel /\ DiskStep(o, "copied", "ioend")
             /\ src' = [src EXCEPT ![o][item[o]] = "gone"] /\ UNCHANGED dst
    <3>1. /\ UNCHANGED <<op, item, target, skipped, dst>> /\ pc'[o] = "ioend"
          /\ src'[o][n] = "gone" /\ \A i \in Items : src'[o][i] \in {src[o][i], "gone"}
      BY <1>t, <2>3 DEF DiskStep, GoTo, place
    <3>2. KindOf[o] = "move" /\ dst[o][n][target[o]] = "whole" /\ target[o] \in Names
      BY <1>t, <2>0, <2>3 DEF Progress, Here
    <3>3. Done(o, n)'
      BY <3>1, <3>2 DEF Done, Transferred
    <3>. QED  BY <1>19, <2>0, <3>1, <3>3
  <2>. QED  BY <1>21, <2>1, <2>2, <2>3 DEF RemoveSource
<1>22. CASE EndIo(o)
  <2>1. /\ pc[o] = "ioend" /\ UNCHANGED <<op, place, disk>>
        /\ pc'[o] = IF op[o].cancel THEN "after" ELSE "advance"
    BY <1>22, <1>t DEF EndIo, Quiet, Move, At, GoTo
  <2>. QED  BY <1>c, <1>d, <1>p, <2>1 DEF Progress, InLoop, Looping, Ended
<1>23. CASE AdvanceItem(o)
  <2>1. /\ pc[o] = "advance" /\ pc'[o] = "after" /\ UNCHANGED <<place, disk>>
        /\ op'[o].completed = op[o].completed + 1 /\ op'[o].error = op[o].error
        /\ op'[o].status = op[o].status
    BY <1>23, <1>t DEF AdvanceItem, Move, At, GoTo, OpState
  <2>2. Done(o, n)' /\ (DoneBefore(o, n) => DoneBefore(o, n)')
    BY <1>d, <2>1 DEF Progress
  <2>. QED  BY <1>c, <1>d, <1>n, <1>p, <1>t, <2>1, <2>2 DEF Progress, InLoop, Looping, Ended
<1>24. CASE After(o)
  <2>1. CASE Quiet(o, "after", "recheck")
    <3>1. /\ pc[o] = "after" /\ pc'[o] = "recheck" /\ UNCHANGED <<op, place, disk>>
      BY <1>t, <2>1 DEF Quiet, Move, At, GoTo
    <3>. QED  BY <1>c, <1>d, <1>p, <3>1 DEF Progress, InLoop, Looping, Ended
  <2>. QED  BY <1>10, <1>24, <2>1 DEF After
<1>25. CASE Recheck(o)
  <2>1. pc[o] = "recheck" /\ UNCHANGED <<op, disk>>
    BY <1>25 DEF Recheck, At
  <2>2. CASE Stops(o)
    <3>1. pc'[o] = "final"
      BY <1>25, <1>t, <2>2 DEF Recheck, GoTo
    <3>. QED  BY <1>c, <2>1, <2>2, <3>1 DEF Stops, Progress, Looping, Ended
  <2>3. CASE ~Stops(o)
    <3>1. /\ NextItem(o) /\ Done(o, n)' /\ op[o].completed >= n
      BY <1>25, <2>1, <2>3 DEF Recheck, Stops, Progress, Done, Transferred, disk
    <3>. QED  BY <1>9, <1>c, <1>t, <2>1, <3>1 DEF disk, Looping, Ended
  <2>. QED  BY <2>2, <2>3
<1>26. CASE Finish(o)
  <2>1. /\ pc[o] = "final" /\ pc'[o] = "drop" /\ UNCHANGED <<place, disk>>
        /\ op'[o].completed = op[o].completed
        /\ op'[o].status = "Completed" => ~op[o].cancel /\ ~op[o].error
    BY <1>26, <1>t DEF Finish, Move, At, GoTo, OpState
  <2>. QED  BY <1>d, <2>1 DEF Progress, Looping
<1>27. CASE Release(o)
  <2>1. pc'[o] = "idle" /\ UNCHANGED <<op, place, disk>>
    BY <1>27, <1>t DEF Release, At, GoTo
  <2>. QED  BY <1>4, <2>1 DEF Looping
<1>. QED
  BY <1>5, <1>6, <1>7, <1>8, <1>11, <1>12, <1>14, <1>15, <1>16, <1>17, <1>18,
     <1>20, <1>21, <1>22, <1>23, <1>24, <1>25, <1>26, <1>27 DEF WorkerStep

\* The commands on an operation leave its progress true.
LEMMA CommandProgress ==
  ASSUME StateOK, NEW o \in Ops, Control(o), Progress(o),
         User(o) \/ NotifyAll(o) \/ AutoRemove(o)
  PROVE  Progress(o)'
<1>t. op \in [Ops -> OpState] /\ op[o] \in OpState
  BY DEF StateOK
<1>f. UNCHANGED <<pc, place, disk>>
  BY CommandFrame
<1>d. /\ item' = item /\ Here(o)' = Here(o)
      /\ \A m : DoneBefore(o, m)' <=> DoneBefore(o, m)
      /\ \A i : Done(o, i)' <=> Done(o, i)
  BY <1>f DEF place, disk, Here, DoneBefore, Done, Transferred
<1>1. ASSUME op'[o].error = op[o].error, op'[o].completed = op[o].completed,
             op[o].cancel => op'[o].cancel,
             op'[o].status = op[o].status \/ op'[o].status # "Completed"
      PROVE  Progress(o)'
  BY <1>1, <1>d, <1>f DEF Progress
<1>2. ASSUME pc[o] \in Ended, op'[o].status # "Completed"
      PROVE  Progress(o)'
  BY <1>2, <1>d, <1>f DEF Progress, Looping, Ended
<1>3. CASE StartOp(o)
  BY <1>2, <1>3, <1>t DEF StartOp, NewOp, OpState, Control, Ended
<1>4. CASE PauseOp(o)
  BY <1>1, <1>4, <1>t DEF PauseOp, OpState
<1>5. CASE ResumeOp(o)
  BY <1>1, <1>5, <1>t DEF ResumeOp, OpState
<1>6. CASE CancelPending(o)
  BY <1>1, <1>6, <1>t DEF CancelPending, OpState
<1>7. CASE CancelRunning(o)
  BY <1>1, <1>7, <1>t DEF CancelRunning, OpState
<1>8. CASE SkipOp(o)
  BY <1>1, <1>8, <1>t DEF SkipOp, OpState
<1>9. CASE RetryOp(o)
  BY <1>2, <1>9, <1>t DEF RetryOp, Command, NewOp, OpState, Control
<1>10. ASSUME NEW r \in Resolutions, NEW all \in BOOLEAN, ResolveConflict(o, r, all)
       PROVE  Progress(o)'
  BY <1>1, <1>10, <1>t DEF ResolveConflict, OpState
<1>11. CASE NotifyAll(o) \/ AutoRemove(o)
  BY <1>1, <1>11 DEF NotifyAll, AutoRemove
<1>. QED
  BY <1>3, <1>4, <1>5, <1>6, <1>7, <1>8, <1>9, <1>10, <1>11 DEF User, CancelOp

\* The inductive invariant of the loop over the items.
ProgressIInv == ControlIInv /\ \A o \in Ops : Progress(o)

\* Every step keeps the progress of every operation true.
LEMMA ProgressStep == ProgressIInv /\ [Next]_vars => ProgressIInv'
<1>. SUFFICES ASSUME ProgressIInv, [Next]_vars PROVE ProgressIInv'
  OBVIOUS
<1>. USE DEF ProgressIInv
<1>t. StateOK /\ IInv /\ \A o \in Ops : Control(o)
  BY DEF ControlIInv
<1>1. ControlIInv'
  BY ControlStep
<1>2. ASSUME NEW o \in Ops, Untouched(o)
      PROVE  Progress(o)'
  BY <1>2 DEF Untouched, Progress, DoneBefore, Done, Transferred, Here
<1>3. CASE UNCHANGED vars
  BY <1>1, <1>2, <1>3 DEF vars, Untouched
<1>4. ASSUME NEW ids \in Requests, ReorderOps(ids), NEW o \in Ops
      PROVE  Untouched(o)
  BY <1>4 DEF ReorderOps, place, disk, Untouched
<1>5. ASSUME NEW a \in Ops, WorkerStep(a), NEW o \in Ops
      PROVE  Progress(o)'
  <2>1. CASE o = a
    <3>1. PICK n \in Items : n = item[o]
      BY <1>t DEF StateOK
    <3>. QED  BY <1>5, <1>t, <2>1, <3>1, WorkerProgress
  <2>. QED  BY <1>2, <1>5, <1>t, <2>1, WorkerFrame
<1>6. ASSUME NEW a \in Ops, User(a) \/ NotifyAll(a) \/ AutoRemove(a), NEW o \in Ops
      PROVE  Progress(o)'
  BY <1>2, <1>6, <1>t, CommandFrame, CommandProgress
<1>7. ASSUME NEW a \in Ops, Schedule(a) \/ Reschedule(a), NEW o \in Ops
      PROVE  Progress(o)'
  <2>1. /\ UNCHANGED <<op, place, disk>>
        /\ pc'[o] = pc[o] \/ (pc[o] = "idle" /\ pc'[o] = "admit")
    BY <1>7, <1>t, PassFrame
  <2>2. /\ item' = item /\ Here(o)' = Here(o)
        /\ \A m : DoneBefore(o, m)' <=> DoneBefore(o, m)
        /\ \A i : Done(o, i)' <=> Done(o, i)
    BY <2>1 DEF place, disk, Here, DoneBefore, Done, Transferred
  <2>. QED  BY <2>1, <2>2 DEF Progress, Looping
<1>. QED  BY <1>1, <1>2, <1>3, <1>4, <1>5, <1>6, <1>7 DEF Next, Background

\* It is true initially.
LEMMA ProgressInit == Init => ProgressIInv
<1>. SUFFICES ASSUME Init PROVE ProgressIInv
  OBVIOUS
<1>1. \A o \in Ops : pc[o] = "idle" /\ op[o].status = "none"
  BY DEF Init, NewOp
<1>2. \A o \in Ops : Progress(o)
  BY <1>1 DEF Progress, Looping
<1>. QED  BY <1>2, ControlInit DEF ProgressIInv

\* ... and always.
LEMMA ProgressInvariance == Spec => []ProgressIInv
<1>. QED  BY ProgressInit, ProgressStep, PTL DEF Spec

\* Completed is reported only over items that were all transferred or skipped
\* by the user, and counted - with any number of retries, errors, skips and
\* cancellations in between.
THEOREM Complete == Spec => []CompletedIsComplete
<1>1. ProgressIInv => CompletedIsComplete
  <2>. SUFFICES ASSUME ProgressIInv, NEW o \in Ops, op[o].status = "Completed"
                PROVE  /\ \A i \in Items : Transferred(o, i) \/ i \in skipped[o]
                       /\ op[o].completed >= ItemCount
    BY DEF CompletedIsComplete
  <2>1. DoneBefore(o, ItemCount + 1) /\ op[o].completed >= ItemCount
    BY DEF ProgressIInv, Progress
  <2>2. \A i \in Items : i < ItemCount + 1
    BY OpsAssumption DEF Items
  <2>. QED  BY <2>1, <2>2 DEF DoneBefore, Done
<1>. QED  BY <1>1, ProgressInvariance, PTL

-----------------------------------------------------------------------------
(* Sources, and wake-ups.                                                  *)

\* The instances in which no operation is run a second time.
NoRetry == MaxRetries = 0 \/ "retry" \notin Inputs

\* In such an instance nobody retries.
LEMMA NoRetries ==
  ASSUME StateOK, NoRetry, NEW o \in Ops
  PROVE  ~RetryOp(o)
<1>1. op[o].retries \in Nat
  BY DEF StateOK, OpState
<1>. QED  BY <1>1 DEF NoRetry, RetryOp, Command

Waiting == {"admit", "queued", "start", "begin"}

\* Without retries a pending operation has not run.
Unstarted(o) ==
  op[o].status = "Pending" => o \in listed /\ pc[o] \in Waiting \cup {"idle"}

\* The sources of an operation that has not run are all there; so are those of
\* its items from the one on that the worker is at.
Sources(o) ==
  /\ op[o].status \in {"none", "Pending"} \/ pc[o] \in Waiting \cup {"measure"} =>
       \A i \in Items : src[o][i] = "present"
  /\ pc[o] \in Looping => \A i \in Items : i > item[o] => src[o][i] = "present"
  /\ pc[o] \in {"top", "check", "conflict", "parked", "gate", "io", "chunk", "copied"} =>
       src[o][item[o]] = "present"

\* MoveKeepsACopy for one operation.
KeepsACopy(o) ==
  \A i \in Items : KindOf[o] = "move" /\ src[o][i] = "gone" =>
    \E n \in Names : dst[o][i][n] = "whole"

\* A worker keeps what is said of operations that have not started.
LEMMA WorkerUnstarted ==
  ASSUME StateOK, NEW o \in Ops, Unstarted(o), WorkerStep(o)
  PROVE  Unstarted(o)'
<1>t. op[o] \in OpState /\ op \in [Ops -> OpState] /\ pc \in [Ops -> PCs]
  BY DEF StateOK
<1>l. ~Release(o) => listed' = listed
  BY WorkerFrame DEF queue
<1>1. CASE pc[o] \notin Waiting \cup {"idle"}
  <2>1. op'[o].status # "Pending"
    <3>. DEFINE same == op'[o].status = op[o].status
    <3>1. op[o].status # "Pending"
      BY <1>1 DEF Unstarted
    <3>2. ASSUME NEW from, FailAt(o, from)
          PROVE  same
      BY <3>2, <1>t DEF FailAt, Fail, OpState
    <3>3. CASE Admit(o) \/ Grant(o) \/ Deny(o) \/ Find(o) \/ Begin(o)
      BY <1>1, <3>3 DEF Admit, Grant, Deny, Find, Begin, Quiet, Move, At, Waiting
    <3>4. CASE Measure(o) \/ Check(o) \/ Recheck(o) \/ Sleep(o) \/ Gate(o) \/ EndIo(o)
               \/ DropPermit(o) \/ Release(o)
      BY <3>1, <3>4
         DEF Measure, Check, Recheck, Sleep, Gate, EndIo, DropPermit, Release, Quiet
    <3>5. CASE Top(o) \/ After(o)
      BY <3>1, <3>5, <1>t DEF Top, After, SkipItem, Quiet, OpState
    <3>6. CASE Detect(o)
      BY <3>1, <3>2, <3>6, <1>t DEF Detect, Quiet, OpState
    <3>7. CASE Answered(o)
      BY <3>1, <3>7, <1>t DEF Answered, Quiet, OpState
    <3>8. CASE StartIo(o)
      BY <3>1, <3>2, <3>8, <1>t DEF StartIo, Fail, DiskStep, Quiet, OpState
    <3>9. CASE Chunk(o) \/ RemoveSource(o)
      BY <3>1, <3>2, <3>9 DEF Chunk, RemoveSource, DiskStep, Quiet
    <3>10. CASE AdvanceItem(o)
      BY <3>1, <3>10, <1>t DEF AdvanceItem, OpState
    <3>11. CASE Finish(o)
      BY <3>11, <1>t DEF Finish, OpState
    <3>. QED
      BY <3>3, <3>4, <3>5, <3>6, <3>7, <3>8, <3>9, <3>10, <3>11 DEF WorkerStep
  <2>. QED  BY <2>1 DEF Unstarted
<1>2. CASE pc[o] \in Waiting \cup {"idle"}
  <2>1. Admit(o) \/ Grant(o) \/ Deny(o) \/ Find(o) \/ Begin(o)
    BY <1>2 DEF WorkerStep, Waiting, Measure, Top, SkipItem, Check, Detect, Apply, Answered,
                Sleep, Gate, StartIo, Chunk, RemoveSource, EndIo, AdvanceItem, After,
                Recheck, Finish, DropPermit, Release, FailAt, DiskStep, Quiet, Move, At
  <2>2. CASE Admit(o) \/ Grant(o) \/ Find(o)
    <3>1. op' = op /\ listed' = listed
      BY <2>2 DEF Admit, Grant, Find, Quiet, Move, queue
    <3>2. o \in listed => pc'[o] \in Waiting
      BY <2>2, <1>t DEF Admit, Grant, Find, Quiet, Move, GoTo, Waiting
    <3>. QED  BY <3>1, <3>2 DEF Unstarted
  <2>3. CASE Deny(o)
    BY <2>3, <1>t DEF Deny, OpState, Unstarted
  <2>4. CASE Begin(o)
    BY <2>4, <1>t DEF Begin, OpState, Unstarted
  <2>. QED  BY <2>1, <2>2, <2>3, <2>4
<1>. QED  BY <1>1, <1>2

Intact == {"top", "check", "conflict", "parked", "gate", "io", "chunk", "copied"}

\* A worker removes a source only after its copy is whole.
LEMMA WorkerSources ==
  ASSUME StateOK, NEW o \in Ops, WorkerStep(o), NEW n \in Items, n = item[o],
         Control(o), Progress(o), Unstarted(o), Sources(o), KeepsACopy(o)
  PROVE  Sources(o)' /\ KeepsACopy(o)'
<1>t. /\ op[o] \in OpState /\ op \in [Ops -> OpState]
      /\ pc \in [Ops -> PCs] /\ item \in [Ops -> Items]
      /\ target \in [Ops -> Names] /\ target[o] \in Names
      /\ src \in [Ops -> [Items -> {"present", "gone"}]]
      /\ dst \in [Ops -> [Items -> [Names -> {"absent", "old", "partial", "whole"}]]]
      /\ \A i \in Items : src[o][i] \in {"present", "gone"}
  BY DEF StateOK
<1>n. /\ ItemCount \in Nat \ {0} /\ KindOf[o] \in Kinds
      /\ n \in Nat /\ n >= 1 /\ n <= ItemCount
      /\ \A i \in Items : i \in Nat /\ i >= 1 /\ i <= ItemCount
  BY <1>t, OpsAssumption DEF Items
\* Unless the worker waits or is gone, the operation is not pending.
<1>s. op'[o].status \in {"none", "Pending"} => pc'[o] \in Waiting \cup {"idle"}
  BY WorkerUnstarted, WorkerControl DEF Unstarted, Control
<1>h. pc[o] \in Intact => src[o][n] = "present"
  BY DEF Sources, Intact
\* The worker stays at its item.
<1>1. ASSUME pc[o] \in Looping, UNCHANGED item,
             pc'[o] \notin Waiting \cup {"idle", "measure"},
             \A i \in Items \ {n} : src'[o][i] = src[o][i] /\ dst'[o][i] = dst[o][i],
             pc'[o] \in Intact => pc[o] \in Intact /\ src'[o][n] = src[o][n],
             \/ src'[o][n] = "present"
             \/ src'[o][n] = src[o][n] /\ dst'[o][n] = dst[o][n]
             \/ KindOf[o] = "move" => \E name \in Names : dst'[o][n][name] = "whole"
      PROVE  Sources(o)' /\ KeepsACopy(o)'
  <2>1. Sources(o)'
    BY <1>1, <1>s, <1>n DEF Sources, Intact, Looping
  <2>2. KeepsACopy(o)'
    BY <1>1 DEF KeepsACopy
  <2>. QED  BY <2>1, <2>2
\* The worker changes nothing on disk and stays at its item.
<1>2. ASSUME pc[o] \in Looping, UNCHANGED <<item, src, dst>>,
             pc'[o] \notin Waiting \cup {"idle", "measure"},
             pc'[o] \in Intact => pc[o] \in Intact
      PROVE  Sources(o)' /\ KeepsACopy(o)'
  BY <1>1, <1>2
<1>3. ASSUME NEW from \in Looping, NEW to \in PCs \ (Waiting \cup {"idle", "measure"}),
             Move(o, from, to), to \in Intact => from \in Intact
      PROVE  Sources(o)' /\ KeepsACopy(o)'
  BY <1>2, <1>3, <1>t DEF Move, At, GoTo, place, disk
<1>4. ASSUME NEW from \in Looping, NEW to \in PCs \ (Waiting \cup {"idle", "measure"}),
             Quiet(o, from, to), to \in Intact => from \in Intact
      PROVE  Sources(o)' /\ KeepsACopy(o)'
  BY <1>3, <1>4 DEF Quiet
<1>5. ASSUME NEW from \in Looping, FailAt(o, from)
      PROVE  Sources(o)' /\ KeepsACopy(o)'
  BY <1>3, <1>5 DEF FailAt, PCs, Waiting, Intact
\* The worker is not in the loop afterwards.
<1>6. ASSUME pc'[o] \notin Looping, UNCHANGED <<src, dst>>,
             pc'[o] \in Waiting \cup {"measure"} => pc[o] \in Waiting,
             pc'[o] # "idle"
      PROVE  Sources(o)' /\ KeepsACopy(o)'
  <2>1. pc'[o] \notin Intact
    BY <1>6 DEF Intact, Looping
  <2>. QED  BY <1>6, <1>s, <2>1 DEF Sources, KeepsACopy, Intact
<1>7. CASE Admit(o) \/ Grant(o) \/ Find(o)
  BY <1>6, <1>7, <1>t DEF disk, Admit, Grant, Find, Quiet, Move, At, GoTo, Looping, Waiting
<1>8. CASE Deny(o) \/ Begin(o) \/ DropPermit(o) \/ Finish(o)
  BY <1>6, <1>8, <1>t
     DEF disk, Deny, Begin, DropPermit, Finish, Quiet, Move, At, GoTo, Looping, Waiting
<1>9. CASE Measure(o)
  <2>1. /\ pc[o] = "measure" /\ pc'[o] = "top" /\ item'[o] = 1 /\ UNCHANGED disk
    BY <1>9, <1>t DEF Measure, At, GoTo
  <2>2. \A i \in Items : src'[o][i] = "present"
    BY <2>1 DEF Sources, disk
  <2>3. 1 \in Items
    BY <1>n DEF Items
  <2>. QED  BY <1>s, <2>1, <2>2, <2>3 DEF Sources, KeepsACopy, disk, Waiting
<1>10. ASSUME pc[o] \in Looping, NextItem(o), UNCHANGED <<src, dst>>
       PROVE  Sources(o)' /\ KeepsACopy(o)'
  <2>1. CASE n < ItemCount
    <3>1. pc'[o] = "top" /\ item'[o] = n + 1
      BY <1>10, <1>t, <2>1 DEF NextItem, GoTo
    <3>2. n + 1 \in Items
      BY <1>n, <2>1 DEF Items
    <3>. QED  BY <1>10, <1>s, <1>n, <3>1, <3>2 DEF Sources, KeepsACopy, Waiting
  <2>2. CASE ~(n < ItemCount)
    <3>1. pc'[o] = "final"
      BY <1>10, <1>t, <2>2 DEF NextItem, GoTo
    <3>. QED  BY <1>6, <1>10, <3>1 DEF Sources, KeepsACopy, Waiting, Looping
  <2>. QED  BY <2>1, <2>2
<1>11. ASSUME NEW from \in {"top", "after"}, SkipItem(o, from)
       PROVE  Sources(o)' /\ KeepsACopy(o)'
  BY <1>10, <1>11 DEF SkipItem, At, Looping
<1>12. CASE Top(o)
  BY <1>4, <1>11, <1>12 DEF Top, PCs, Looping, Intact, Waiting
<1>13. CASE Check(o)
  <2>1. /\ pc[o] = "check" /\ UNCHANGED <<item, disk>>
        /\ pc'[o] \in {"conflict", "gate", "final"}
    BY <1>13, <1>t DEF Check, At, GoTo
  <2>. QED  BY <1>2, <2>1 DEF disk, Looping, Intact, Waiting
<1>14. ASSUME NEW from \in {"conflict", "parked"}, NEW r, Apply(o, from, r)
       PROVE  Sources(o)' /\ KeepsACopy(o)'
  <2>1. /\ pc[o] = from /\ UNCHANGED <<item, src>> /\ pc'[o] \in {"gate", "advance"}
        /\ UNCHANGED dst \/ Put(o, "absent")
    BY <1>14, <1>t DEF Apply, At, GoTo
  <2>2. pc[o] \in Looping /\ pc[o] \in Intact
    BY <2>1 DEF Looping, Intact
  <2>3. \A i \in Items \ {n} : dst'[o][i] = dst[o][i]
    BY <1>t, <2>1 DEF Put
  <2>. QED  BY <1>1, <1>h, <2>1, <2>2, <2>3 DEF Waiting
<1>15. CASE Detect(o)
  BY <1>3, <1>4, <1>5, <1>14, <1>15 DEF Detect, PCs, Looping, Intact, Waiting
<1>16. CASE Answered(o)
  BY <1>3, <1>4, <1>14, <1>16 DEF Answered, PCs, Looping, Intact, Waiting
<1>17. CASE Sleep(o)
  BY <1>17 DEF Sleep, Sources, KeepsACopy, place, disk
<1>18. CASE Gate(o)
  BY <1>4, <1>18 DEF Gate, PCs, Looping, Intact, Waiting
<1>19. CASE StartIo(o)
  <2>1. CASE Move(o, "io", "after")
    BY <1>3, <2>1 DEF PCs, Looping, Intact, Waiting
  <2>2. CASE FailAt(o, "io")
    BY <1>5, <2>2 DEF Looping
  <2>3. CASE /\ DiskStep(o, "io", "ioend")
             /\ src' = [src EXCEPT ![o][item[o]] = "gone"] /\ Put(o, "whole")
    <3>1. /\ pc[o] = "io" /\ pc'[o] = "ioend" /\ UNCHANGED item
          /\ dst'[o][n][target[o]] = "whole"
          /\ \A i \in Items \ {n} : src'[o][i] = src[o][i] /\ dst'[o][i] = dst[o][i]
      BY <1>t, <2>3 DEF Put, DiskStep, At, GoTo, place
    <3>. QED  BY <1>1, <1>t, <3>1 DEF Looping, Intact, Waiting
  <2>4. CASE DiskStep(o, "io", "chunk") /\ Put(o, "partial") /\ UNCHANGED src
    <3>1. /\ pc[o] = "io" /\ pc'[o] = "chunk" /\ UNCHANGED <<item, src>>
          /\ \A i \in Items \ {n} : dst'[o][i] = dst[o][i]
      BY <1>t, <2>4 DEF Put, DiskStep, At, GoTo, place
    <3>. QED  BY <1>1, <1>h, <3>1 DEF Looping, Intact, Waiting
  <2>5. CASE Quiet(o, "io", "chunk")
    BY <1>4, <2>5 DEF PCs, Looping, Intact, Waiting
  <2>6. CASE DiskStep(o, "io", "copied") /\ Put(o, "whole") /\ UNCHANGED src
    <3>1. /\ pc[o] = "io" /\ pc'[o] = "copied" /\ UNCHANGED <<item, src>>
          /\ \A i \in Items \ {n} : dst'[o][i] = dst[o][i]
      BY <1>t, <2>6 DEF Put, DiskStep, At, GoTo, place
    <3>. QED  BY <1>1, <1>h, <3>1 DEF Looping, Intact, Waiting
  <2>. QED  BY <1>19, <2>1, <2>2, <2>3, <2>4, <2>5, <2>6 DEF StartIo
<1>20. CASE Chunk(o)
  <2>0. CopyEnds(o) \in {"copied", "ioend"}
    BY DEF CopyEnds
  <2>1. CASE Quiet(o, "chunk", CopyEnds(o))
    BY <1>4, <2>0, <2>1 DEF PCs, Looping, Intact, Waiting
  <2>2. CASE FailAt(o, "chunk")
    BY <1>5, <2>2 DEF Looping
  <2>3. CASE /\ DiskStep(o, "chunk", CopyEnds(o))
             /\ CopyTree(o) \/ ArchiveItem(o) \/ DeleteTree(o)
    <3>1. pc[o] = "chunk" /\ pc'[o] = CopyEnds(o) /\ UNCHANGED item
      BY <1>t, <2>3 DEF DiskStep, At, GoTo, place
    <3>2. CASE CopyTree(o) \/ ArchiveItem(o)
      <4>1. UNCHANGED src /\ \A i \in Items \ {n} : dst'[o][i] = dst[o][i]
        BY <1>t, <3>2 DEF CopyTree, ArchiveItem, Put
      <4>. QED  BY <1>1, <1>h, <2>0, <3>1, <4>1 DEF Looping, Intact, Waiting
    <3>3. CASE DeleteTree(o)
      <4>1. /\ UNCHANGED dst /\ KindOf[o] = "delete"
            /\ \A i \in Items \ {n} : src'[o][i] = src[o][i]
        BY <1>t, <3>3 DEF DeleteTree
      <4>2. CopyEnds(o) = "ioend"
        BY <4>1 DEF CopyEnds
      <4>. QED  BY <1>1, <3>1, <4>1, <4>2 DEF Looping, Intact, Waiting
    <3>. QED  BY <2>3, <3>2, <3>3
  <2>. QED  BY <1>20, <2>1, <2>2, <2>3 DEF Chunk
<1>21. CASE RemoveSource(o)
  <2>1. CASE Quiet(o, "copied", "ioend")
    BY <1>4, <2>1 DEF PCs, Looping, Intact, Waiting
  <2>2. CASE FailAt(o, "copied")
    BY <1>5, <2>2 DEF Looping
  <2>3. CASE /\ ~op[o].cancel /\ DiskStep(o, "copied", "ioend")
             /\ src' = [src EXCEPT ![o][item[o]] = "gone"] /\ UNCHANGED dst
    <3>1. /\ pc[o] = "copied" /\ pc'[o] = "ioend" /\ UNCHANGED item
          /\ \A i \in Items \ {n} : src'[o][i] = src[o][i]
      BY <1>t, <2>3 DEF DiskStep, At, GoTo, place
    <3>2. dst'[o][n][target[o]] = "whole"
      BY <2>3, <3>1 DEF Progress, Here
    <3>. QED  BY <1>1, <1>t, <2>3, <3>1, <3>2 DEF Looping, Intact, Waiting
  <2>. QED  BY <1>21, <2>1, <2>2, <2>3 DEF RemoveSource
<1>22. CASE EndIo(o)
  BY <1>4, <1>22 DEF EndIo, PCs, Looping, Intact, Waiting
<1>23. CASE AdvanceItem(o)
  BY <1>3, <1>23 DEF AdvanceItem, PCs, Looping, Intact, Waiting
<1>24. CASE After(o)
  BY <1>4, <1>11, <1>24 DEF After, PCs, Looping, Intact, Waiting
<1>25. CASE Recheck(o)
  <2>1. pc[o] = "recheck" /\ pc[o] \in Looping /\ UNCHANGED <<src, dst>>
    BY <1>25 DEF Recheck, At, Looping, disk
  <2>2. CASE Stops(o)
    <3>1. pc'[o] = "final"
      BY <1>25, <1>t, <2>2 DEF Recheck, GoTo
    <3>. QED  BY <1>6, <1>25, <3>1 DEF Recheck, disk, Looping, Waiting
  <2>3. CASE ~Stops(o)
    BY <1>10, <1>25, <2>1, <2>3 DEF Recheck
  <2>. QED  BY <2>2, <2>3
<1>26. CASE Release(o)
  <2>1. pc[o] = "release" /\ pc'[o] = "idle" /\ UNCHANGED <<op, disk>>
    BY <1>26, <1>t DEF Release, At, GoTo
  <2>2. op[o].status \notin {"none", "Pending"}
    BY <2>1 DEF Control, Unstarted, Waiting
  <2>. QED  BY <2>1, <2>2 DEF Sources, KeepsACopy, disk, Looping, Waiting
<1>. QED
  BY <1>7, <1>8, <1>9, <1>12, <1>13, <1>15, <1>16, <1>17, <1>18, <1>19, <1>20, <1>21,
     <1>22, <1>23, <1>24, <1>25, <1>26 DEF WorkerStep

\* The commands keep what is said of operations that have not started.
LEMMA CommandUnstarted ==
  ASSUME StateOK, NoRetry, NEW o \in Ops, Control(o), Unstarted(o),
         User(o) \/ NotifyAll(o) \/ AutoRemove(o)
  PROVE  /\ Unstarted(o)'
         /\ op'[o].status \in {"none", "Pending"} => op[o].status \in {"none", "Pending"}
<1>. DEFINE Good == /\ Unstarted(o)'
                    /\ op'[o].status \in {"none", "Pending"} =>
                         op[o].status \in {"none", "Pending"}
<1>t. op \in [Ops -> OpState] /\ op[o] \in OpState
  BY DEF StateOK
<1>f. UNCHANGED pc
  BY CommandFrame DEF place, disk
<1>1. ASSUME op'[o].status = op[o].status \/ op'[o].status \notin {"none", "Pending"},
             o \in listed => o \in listed'
      PROVE  Good
  BY <1>1, <1>f DEF Unstarted
<1>2. CASE StartOp(o)
  <2>1. pc[o] = "idle" /\ op[o].status = "none" /\ o \in listed'
    BY <1>2 DEF StartOp, Control
  <2>. QED  BY <2>1, <1>f DEF Unstarted
<1>3. CASE PauseOp(o)
  BY <1>1, <1>3, <1>t DEF PauseOp, queue, OpState
<1>4. CASE ResumeOp(o)
  BY <1>1, <1>4, <1>t DEF ResumeOp, MustNotify, OpState
<1>5. CASE CancelPending(o)
  BY <1>1, <1>5, <1>t DEF CancelPending, OpState
<1>6. CASE CancelRunning(o)
  BY <1>1, <1>6, <1>t DEF CancelRunning, MustNotify, OpState
<1>7. CASE SkipOp(o)
  BY <1>1, <1>7, <1>t DEF SkipOp, MustNotify, OpState
<1>8. ~RetryOp(o)
  BY NoRetries
<1>9. ASSUME NEW r \in Resolutions, NEW all \in BOOLEAN, ResolveConflict(o, r, all)
      PROVE  Good
  BY <1>1, <1>9, <1>t DEF ResolveConflict, MustNotify, OpState
<1>10. CASE NotifyAll(o)
  BY <1>1, <1>10 DEF NotifyAll
<1>11. CASE AutoRemove(o)
  <2>1. op' = op /\ (op[o].status = "Pending" => listed' = listed)
    BY <1>11 DEF AutoRemove
  <2>. QED  BY <1>f, <2>1 DEF Unstarted
<1>. QED
  BY <1>2, <1>3, <1>4, <1>5, <1>6, <1>7, <1>8, <1>9, <1>10, <1>11 DEF User, CancelOp

\* The commands never touch the disk.
LEMMA CommandSources ==
  ASSUME StateOK, NoRetry, NEW o \in Ops, Control(o), Unstarted(o), Sources(o),
         User(o) \/ NotifyAll(o) \/ AutoRemove(o)
  PROVE  Sources(o)'
<1>f. UNCHANGED <<pc, item, src>>
  BY CommandFrame DEF place, disk
<1>1. op'[o].status \in {"none", "Pending"} => op[o].status \in {"none", "Pending"}
  BY CommandUnstarted
<1>. QED  BY <1>1, <1>f DEF Sources

SourcesIInv ==
  ProgressIInv /\ \A o \in Ops : Unstarted(o) /\ Sources(o) /\ KeepsACopy(o)

\* Every step keeps the sources that have no copy yet.
LEMMA SourcesStep == NoRetry /\ SourcesIInv /\ [Next]_vars => SourcesIInv'
<1>. SUFFICES ASSUME NoRetry, SourcesIInv, [Next]_vars PROVE SourcesIInv'
  OBVIOUS
<1>. USE DEF SourcesIInv
<1>. DEFINE Good(o) == Unstarted(o) /\ Sources(o) /\ KeepsACopy(o)
<1>t. StateOK /\ IInv /\ \A o \in Ops : Control(o) /\ Progress(o)
  BY DEF ProgressIInv, ControlIInv
<1>1. ProgressIInv'
  BY ProgressStep
<1>2. ASSUME NEW o \in Ops, Untouched(o)
      PROVE  Good(o)'
  BY <1>2 DEF Untouched, Unstarted, Sources, KeepsACopy
<1>3. CASE UNCHANGED vars
  <2>1. \A o \in Ops : Untouched(o)
    BY <1>3 DEF vars, Untouched
  <2>. QED  BY <1>1, <1>2, <2>1
<1>4. ASSUME NEW ids \in Requests, ReorderOps(ids), NEW o \in Ops
      PROVE  Untouched(o)
  BY <1>4 DEF ReorderOps, place, disk, Untouched
<1>5. ASSUME NEW a \in Ops, WorkerStep(a), NEW o \in Ops
      PROVE  Good(o)'
  <2>1. CASE o = a
    <3>1. PICK n \in Items : n = item[o]
      BY <1>t DEF StateOK
    <3>. QED  BY <1>5, <1>t, <2>1, <3>1, WorkerSources, WorkerUnstarted
  <2>. QED  BY <1>2, <1>5, <1>t, <2>1, WorkerFrame
<1>6. ASSUME NEW a \in Ops, User(a) \/ NotifyAll(a) \/ AutoRemove(a), NEW o \in Ops
      PROVE  Good(o)'
  <2>1. CASE o = a
    <3>1. KeepsACopy(o)'
      BY <1>6, <1>t, CommandFrame DEF disk, KeepsACopy
    <3>. QED  BY <1>6, <1>t, <2>1, <3>1, CommandSources, CommandUnstarted
  <2>. QED  BY <1>2, <1>6, <1>t, <2>1, CommandFrame
<1>7. ASSUME NEW a \in Ops, Schedule(a) \/ Reschedule(a), NEW o \in Ops
      PROVE  Good(o)'
  <2>1. /\ UNCHANGED <<listed, op, item, src, dst>>
        /\ pc'[o] = pc[o] \/ (pc'[o] = "admit" /\ op[o].status = "Pending")
    BY <1>7, <1>t, PassFrame DEF place, disk
  <2>. QED  BY <2>1 DEF Unstarted, Sources, KeepsACopy, Waiting, Looping
<1>. QED  BY <1>1, <1>2, <1>3, <1>4, <1>5, <1>6, <1>7 DEF Next, Background

\* All sources are there initially.
LEMMA SourcesInit == Init => SourcesIInv
<1>. SUFFICES ASSUME Init PROVE SourcesIInv
  OBVIOUS
<1>1. \A o \in Ops : /\ pc[o] = "idle" /\ op[o].status = "none"
                     /\ \A i \in Items : src[o][i] = "present"
  BY DEF Init, NewOp
<1>2. \A o \in Ops : Unstarted(o) /\ Sources(o) /\ KeepsACopy(o)
  BY <1>1 DEF Unstarted, Sources, KeepsACopy, Looping
<1>. QED  BY <1>2, ProgressInit DEF SourcesIInv

\* While no operation is retried, a move gives up the source of an item only
\* for a complete destination.  The hypothesis is needed: the run
\* queue_retry_move refutes the property with one retry.
THEOREM MoveSafe ==
  ASSUME NoRetry
  PROVE  Spec => []MoveKeepsACopy
<1>1. SourcesIInv => MoveKeepsACopy
  BY DEF SourcesIInv, KeepsACopy, MoveKeepsACopy
<1>2. SourcesIInv /\ [Next]_vars => SourcesIInv'
  BY SourcesStep
<1>. QED  BY <1>1, <1>2, SourcesInit, PTL DEF Spec

-----------------------------------------------------------------------------
\* The retention timer of an operation is not started while it has a worker or
\* waits for one.
Retained(o) ==
  /\ pc[o] # "idle" \/ op[o].status \in {"none", "Pending"} =>
       tail[o] = 0 /\ timers[o] = 0
  /\ pc[o] # "idle" => o \in listed

\* NoLostWakeup for one operation.
Wakes(o) == asleep[o] /\ Ready(o) => notices[o] > 0 /\ o \in listed

\* The instances in which a timer starts only when a worker has ended.
NoEarlyTimer == NoRetry /\ "cancel_pending" \notin Inputs

\* A worker sleeps only while it has no reason to wake, and nobody removes it.
LEMMA WorkerWakes ==
  ASSUME StateOK, NEW o \in Ops, WorkerStep(o), Control(o), Unstarted(o),
         Retained(o), Wakes(o)
  PROVE  Retained(o)' /\ Wakes(o)'
<1>t. pc \in [Ops -> PCs] /\ tail \in [Ops -> Nat] /\ asleep \in [Ops -> BOOLEAN]
  BY DEF StateOK
<1>s. ~asleep[o]
  BY WorkerFrame
<1>1. CASE Release(o)
  <2>1. pc[o] = "release" /\ pc'[o] = "idle" /\ UNCHANGED <<op, asleep, timers, listed>>
    BY <1>1, <1>t DEF Release, At, GoTo
  <2>2. op[o].status \notin {"none", "Pending"}
    BY <2>1 DEF Control, Unstarted, Waiting
  <2>. QED  BY <1>s, <2>1, <2>2 DEF Retained, Wakes
<1>2. CASE ~Release(o)
  <2>1. UNCHANGED <<listed, tail, timers>>
    BY <1>2, WorkerFrame DEF queue
  <2>2. pc[o] # "idle"
    BY WorkerMoves, <1>2, <1>t DEF PcOK, Steps, Holding, WorkerStep, Sleep, Admit, Grant,
       Deny, Find, Begin, Measure, Top, SkipItem, Check, Detect, Apply, Answered, Gate,
       StartIo, Chunk, RemoveSource, EndIo, AdvanceItem, After, Recheck, Finish,
       DropPermit, FailAt, DiskStep, Quiet, Move, At
  <2>3. Retained(o)'
    BY <2>1, <2>2 DEF Retained
  <2>4. CASE Sleep(o)
    <3>1. ~Ready(o) /\ UNCHANGED <<op, pc>>
      BY <2>4 DEF Sleep
    <3>2. ~Ready(o)'
      BY <3>1 DEF Ready
    <3>. QED  BY <2>3, <3>2 DEF Wakes
  <2>5. CASE ~Sleep(o)
    <3>1. UNCHANGED asleep
      BY <1>2, <2>5 DEF WorkerStep, Admit, Grant,
       Deny, Find, Begin, Measure, Top, SkipItem, Check, Detect, Apply, Answered, Gate,
       StartIo, Chunk, RemoveSource, EndIo, AdvanceItem, After, Recheck, Finish,
       DropPermit, FailAt, DiskStep, Quiet, Move
    <3>. QED  BY <1>s, <2>3, <3>1 DEF Wakes
  <2>. QED  BY <2>4, <2>5
<1>. QED  BY <1>1, <1>2

\* A command that gives a sleeping worker a reason to wake owes it a notification.
LEMMA CommandWakes ==
  ASSUME StateOK, NoEarlyTimer, NEW o \in Ops, Control(o), Unstarted(o),
         Retained(o), Wakes(o), User(o) \/ NotifyAll(o) \/ AutoRemove(o)
  PROVE  Retained(o)' /\ Wakes(o)'
<1>t. /\ op \in [Ops -> OpState] /\ op[o] \in OpState /\ asleep \in [Ops -> BOOLEAN]
      /\ notices \in [Ops -> Nat] /\ timers \in [Ops -> Nat]
  BY DEF StateOK
<1>f. UNCHANGED pc
  BY CommandFrame
<1>a. asleep[o] => pc[o] # "idle"
  BY DEF Control
\* A command that changes what the worker waits for has to notify it.
<1>1. ASSUME MustNotify(o), NEW name, NEW statuses, Command(o, name, statuses),
             op'[o].status \notin {"none", "Pending"}
      PROVE  Retained(o)' /\ Wakes(o)'
  <2>1. notices'[o] > 0 /\ o \in listed' /\ UNCHANGED <<listed, tail, timers>>
    BY <1>1, <1>t DEF MustNotify, Command
  <2>. QED  BY <1>1, <1>f, <2>1 DEF Retained, Wakes
<1>2. CASE StartOp(o)
  <2>1. /\ op[o].status = "none" /\ pc[o] = "idle" /\ o \in listed'
        /\ UNCHANGED <<asleep, tail, timers>>
    BY <1>2 DEF StartOp, Control
  <2>. QED  BY <1>a, <1>f, <2>1 DEF Retained, Wakes
<1>3. CASE PauseOp(o)
  <2>1. /\ op'[o].cancel = op[o].cancel /\ op'[o].answer = op[o].answer
        /\ op'[o].pause = TRUE /\ op'[o].status = "Paused"
        /\ UNCHANGED <<listed, tail, timers, notices, asleep>>
    BY <1>3, <1>t DEF PauseOp, Command, queue, OpState
  <2>. QED  BY <1>f, <2>1 DEF Retained, Wakes, Ready
<1>4. CASE ResumeOp(o)
  BY <1>1, <1>4, <1>t DEF ResumeOp, OpState
<1>5. ~CancelPending(o)
  BY DEF NoEarlyTimer, CancelPending, Command
<1>6. CASE CancelRunning(o)
  BY <1>1, <1>6, <1>t DEF CancelRunning, OpState
<1>7. CASE SkipOp(o)
  BY <1>1, <1>7, <1>t DEF SkipOp, OpState
<1>8. ~RetryOp(o)
  BY NoRetries DEF NoEarlyTimer
<1>9. ASSUME NEW r \in Resolutions, NEW all \in BOOLEAN, ResolveConflict(o, r, all)
      PROVE  Retained(o)' /\ Wakes(o)'
  BY <1>1, <1>9, <1>t DEF ResolveConflict, OpState
<1>10. CASE NotifyAll(o)
  <2>1. /\ asleep'[o] = (asleep[o] /\ o \notin listed)
        /\ UNCHANGED <<listed, op, tail, timers>>
    BY <1>10, <1>t DEF NotifyAll
  <2>2. asleep[o] => o \in listed
    BY <1>a DEF Retained
  <2>3. ~asleep'[o]
    BY <2>1, <2>2
  <2>. QED  BY <1>f, <2>1, <2>3 DEF Retained, Wakes
<1>11. CASE AutoRemove(o)
  <2>1. /\ timers[o] > 0 /\ timers'[o] = timers[o] - 1
        /\ UNCHANGED <<op, asleep, tail>>
    BY <1>11, <1>t DEF AutoRemove
  <2>2. pc[o] = "idle" /\ op[o].status \notin {"none", "Pending"}
    BY <2>1 DEF Retained
  <2>. QED  BY <1>a, <1>f, <2>1, <2>2 DEF Retained, Wakes
<1>. QED
  BY <1>2, <1>3, <1>4, <1>5, <1>6, <1>7, <1>8, <1>9, <1>10, <1>11 DEF User, CancelOp

WakesIInv == ControlIInv /\ \A o \in Ops : Unstarted(o) /\ Retained(o) /\ Wakes(o)

\* Every step keeps a notification owed to whoever has a reason to wake.
LEMMA WakesStep == NoEarlyTimer /\ WakesIInv /\ [Next]_vars => WakesIInv'
<1>. SUFFICES ASSUME NoEarlyTimer, WakesIInv, [Next]_vars PROVE WakesIInv'
  OBVIOUS
<1>. USE DEF WakesIInv
<1>. DEFINE Good(o) == Unstarted(o) /\ Retained(o) /\ Wakes(o)
<1>t. StateOK /\ IInv /\ NoRetry /\ \A o \in Ops : Control(o)
  BY DEF ControlIInv, NoEarlyTimer
<1>1. ControlIInv'
  BY ControlStep
<1>2. ASSUME NEW o \in Ops, Untouched(o)
      PROVE  Good(o)'
  BY <1>2 DEF Untouched, Unstarted, Retained, Wakes, Ready
<1>3. CASE UNCHANGED vars
  <2>1. \A o \in Ops : Untouched(o)
    BY <1>3 DEF vars, Untouched
  <2>. QED  BY <1>1, <1>2, <2>1
<1>4. ASSUME NEW ids \in Requests, ReorderOps(ids), NEW o \in Ops
      PROVE  Untouched(o)
  BY <1>4 DEF ReorderOps, place, disk, Untouched
<1>5. ASSUME NEW a \in Ops, WorkerStep(a), NEW o \in Ops
      PROVE  Good(o)'
  <2>1. CASE o = a
    BY <1>5, <1>t, <2>1, WorkerWakes, WorkerUnstarted
  <2>. QED  BY <1>2, <1>5, <1>t, <2>1, WorkerFrame
<1>6. ASSUME NEW a \in Ops, User(a) \/ NotifyAll(a) \/ AutoRemove(a), NEW o \in Ops
      PROVE  Good(o)'
  <2>1. CASE o = a
    <3>1. Retained(o)' /\ Wakes(o)'
      BY <1>6, <1>t, <2>1, CommandWakes
    <3>2. Unstarted(o)'
      BY <1>6, <1>t, <2>1, CommandUnstarted
    <3>. QED  BY <3>1, <3>2
  <2>. QED  BY <1>2, <1>6, <1>t, <2>1, CommandFrame
<1>7. ASSUME NEW a \in Ops, Schedule(a) \/ Reschedule(a), NEW o \in Ops
      PROVE  Good(o)'
  <2>1. /\ UNCHANGED <<listed, op, asleep, notices>>
        /\ \/ pc'[o] = pc[o]
           \/ /\ o \in listed /\ pc[o] = "idle" /\ pc'[o] = "admit"
              /\ op[o].status = "Pending"
    BY <1>7, <1>t, PassFrame
  <2>2. /\ tail[o] = 0 => tail'[o] = 0 /\ timers'[o] = timers[o]
    <3>1. CASE o = a
      BY <1>7, <1>t, <3>1, PassFrame DEF StateOK
    <3>. QED  BY <1>7, <1>t, <3>1, PassFrame
  <2>3. Unstarted(o)'
    BY <2>1 DEF Unstarted, Waiting
  <2>4. Retained(o)'
    BY <2>1, <2>2 DEF Retained
  <2>5. Wakes(o)'
    BY <2>1 DEF Wakes, Ready, Control
  <2>. QED  BY <2>3, <2>4, <2>5
<1>. QED  BY <1>1, <1>2, <1>3, <1>4, <1>5, <1>6, <1>7 DEF Next, Background

\* No interleaving of commands with a worker on its way to sleep loses a
\* wake-up, as long as a retention timer starts only after the worker's end;
\* otherwise the timer of an earlier cancellation removes the operation - and
\* with it the condvar's entry - from under a worker that sleeps.
THEOREM WokenUp ==
  ASSUME NoEarlyTimer
  PROVE  Spec => []NoLostWakeup
<1>1. WakesIInv => NoLostWakeup
  BY DEF WakesIInv, Wakes, NoLostWakeup
<1>2. WakesIInv /\ [Next]_vars => WakesIInv'
  BY WakesStep
<1>3. Init => WakesIInv
  <2>. SUFFICES ASSUME Init PROVE WakesIInv
    OBVIOUS
  <2>1. \A o \in Ops : /\ pc[o] = "idle" /\ op[o].status = "none" /\ asleep[o] = FALSE
                       /\ tail[o] = 0 /\ timers[o] = 0
    BY DEF Init, NewOp
  <2>2. \A o \in Ops : Unstarted(o) /\ Retained(o) /\ Wakes(o)
    BY <2>1 DEF Unstarted, Retained, Wakes
  <2>. QED  BY <2>2, ControlInit DEF WakesIInv
<1>. QED  BY <1>1, <1>2, <1>3, PTL DEF Spec

-----------------------------------------------------------------------------
(* The queue order.                                                        *)

-----------------------------------------------------------------------------
\* The queue and the map list the same operations.
QueueOK ==
  /\ order \in Seq(Ops)
  /\ Queued = listed
  /\ \A o \in listed : op[o].status # "none"

\* The number of a pending slot among the pending slots.
LEMMA TurnFacts ==
  ASSUME QueueOK
  PROVE  /\ \A i \in PendingIn(order) : Turn(i) \in Nat /\ Turn(i) >= 1
         /\ \A i, j \in PendingIn(order) : Turn(i) = Turn(j) => i = j
<1>1. PICK S : S = PendingIn(order)
  OBVIOUS
<1>. DEFINE key == [i \in S |-> i]
            rank == [a \in S |-> Cardinality({p \in S : key[p] <= key[a]})]
<1>2. Len(order) \in Nat /\ DOMAIN order = 1..Len(order) /\ S \in SUBSET (1..Len(order))
  BY <1>1 DEF QueueOK, PendingIn
<1>3. IsFiniteSet(S)
  <2>1. IsFiniteSet(1..Len(order))
    BY <1>2, FS_Interval
  <2>. QED  BY <1>2, <2>1, FS_Subset
<1>4. /\ \A a \in S : rank[a] \in 1..Cardinality(S)
      /\ \A a, b \in S : rank[a] = rank[b] => a = b
  <2>1. key \in [S -> Nat] /\ \A a, b \in S : key[a] = key[b] => a = b
    BY <1>2
  <2>2. rank = [a \in S |-> Cardinality({p \in S : key[p] <= key[a]})]
    OBVIOUS
  <2>. HIDE DEF rank, key
  <2>3. IsRanking(S, key, rank)
    BY <1>3, <2>1, <2>2, Ranking
  <2>. QED  BY <2>3 DEF IsRanking
<1>5. \A a \in S : rank[a] = Turn(a)
  <2>1. ASSUME NEW a \in S
        PROVE  {p \in S : key[p] <= key[a]} = {j \in S : j <= a}
    OBVIOUS
  <2>. QED  BY <1>1, <2>1 DEF Turn
<1>6. Cardinality(S) \in Nat
  BY <1>3, FS_CardinalityType
<1>. HIDE DEF rank, key
<1>. QED  BY <1>1, <1>4, <1>5, <1>6

\* What a pending slot is filled with: a pending id that the request names, at
\* a place of its own in the request.
LEMMA FillFacts ==
  ASSUME QueueOK, NEW ids \in Requests, NEW asked, asked = Asked(ids),
         NEW kept, kept = Kept(asked), NEW fill, fill = Fill(asked, kept)
  PROVE  /\ kept \in SUBSET DOMAIN order
         /\ \A i \in DOMAIN order : ~IsPending(order[i]) => i \in kept /\ fill[i] = order[i]
         /\ \A i \in kept : IsPending(order[i]) =>
              IsPending(fill[i]) /\ \E j \in DOMAIN ids : ids[j] = fill[i]
         /\ \A i, j \in kept : OnceEach(ids) /\ IsPending(order[i]) /\ IsPending(order[j])
                                 /\ fill[i] = fill[j] => i = j
<1>1. PICK n \in Nat : ids \in [1..n -> Ops]
  BY DEF Requests
<1>2. PICK P : P = PendingIn(ids)
  OBVIOUS
<1>3. P \in SUBSET (1..n) /\ asked = Picked(ids, P)
  BY <1>1, <1>2 DEF PendingIn, Asked
<1>4. PICK c : c = Cardinality(P)
  OBVIOUS
<1>5. /\ c \in Nat /\ Len(asked) = c
      /\ \A m \in 1..c : Nth(P, m) \in P /\ asked[m] = ids[Nth(P, m)]
      /\ \A l, m \in 1..c : l < m => Nth(P, l) < Nth(P, m)
  <2>1. IsPicked(asked, ids, P)
    BY <1>1, <1>3, PickedFacts
  <2>. QED  BY <1>4, <2>1 DEF IsPicked
<1>6. /\ \A i \in PendingIn(order) : Turn(i) \in Nat /\ Turn(i) >= 1
      /\ \A i, j \in PendingIn(order) : Turn(i) = Turn(j) => i = j
  BY TurnFacts
<1>7. kept \in SUBSET DOMAIN order
  BY DEF Kept
<1>8. ASSUME NEW i \in DOMAIN order, ~IsPending(order[i])
      PROVE  i \in kept /\ fill[i] = order[i]
  BY <1>8 DEF Kept, Fill
<1>9. ASSUME NEW i \in kept, IsPending(order[i])
      PROVE  i \in PendingIn(order) /\ Turn(i) \in 1..c /\ fill[i] = asked[Turn(i)]
  <2>1. i \in PendingIn(order) /\ Turn(i) <= c
    BY <1>5, <1>7, <1>9 DEF Kept, PendingIn
  <2>2. fill[i] = asked[Turn(i)]
    BY <1>9 DEF Fill
  <2>. QED  BY <1>5, <1>6, <2>1, <2>2
<1>10. \A m \in 1..c : /\ IsPending(asked[m])
                       /\ \E j \in DOMAIN ids : ids[j] = asked[m]
  BY <1>2, <1>5 DEF PendingIn
<1>11. ASSUME NEW i \in kept, NEW j \in kept, OnceEach(ids), IsPending(order[i]),
              IsPending(order[j]), fill[i] = fill[j]
       PROVE  i = j
  <2>1. PICK l \in 1..c : l = Turn(i) /\ fill[i] = ids[Nth(P, l)] /\ Nth(P, l) \in P
    BY <1>5, <1>9, <1>11
  <2>2. PICK m \in 1..c : m = Turn(j) /\ fill[j] = ids[Nth(P, m)] /\ Nth(P, m) \in P
    BY <1>5, <1>9, <1>11
  <2>3. Nth(P, l) = Nth(P, m)
    BY <1>2, <1>11, <2>1, <2>2 DEF OnceEach, PendingIn
  <2>4. PICK a \in 1..n : a = Nth(P, l) /\ a = Nth(P, m)
    BY <1>3, <2>1, <2>3
  <2>5. (l < m => a < a) /\ (m < l => a < a)
    BY <1>5, <2>4
  <2>6. l = m
    BY <1>1, <1>5, <2>5
  <2>. QED  BY <1>6, <1>9, <1>11, <2>1, <2>2, <2>6
<1>. QED  BY <1>7, <1>8, <1>9, <1>10, <1>11

\* reorder_ops keeps every id and adds none, keeps those that left Pending in
\* their order, and doubles none that the request names once.
LEMMA ReorderedIsQueue ==
  ASSUME QueueOK, NEW ids \in Requests, NEW seq, seq = Reordered(ids)
  PROVE  /\ seq \in Seq(Ops)
         /\ {seq[i] : i \in DOMAIN seq} = Queued
         /\ \A a, b \in listed : ~IsPending(a) /\ ~IsPending(b) =>
              (Before(seq, a, b) <=> Before(order, a, b))
         /\ OnceEach(order) /\ OnceEach(ids) => OnceEach(seq)
<1>1. PICK asked : asked = Asked(ids)
  OBVIOUS
<1>2. PICK kept : kept = Kept(asked)
  OBVIOUS
<1>3. PICK fill : fill = Fill(asked, kept)
  OBVIOUS
<1>4. PICK front : front = Picked(fill, kept)
  OBVIOUS
<1>5. PICK rest : rest = LeftOver(front)
  OBVIOUS
<1>6. PICK back : back = Picked(order, rest)
  OBVIOUS
<1>7. seq = front \o back
  BY <1>1, <1>2, <1>3, <1>4, <1>5, <1>6 DEF Reordered
<1>8. PICK L \in Nat : L = Len(order) /\ DOMAIN order = 1..L
  BY DEF QueueOK
<1>9. /\ kept \in SUBSET (1..L)
      /\ \A i \in 1..L : ~IsPending(order[i]) => i \in kept /\ fill[i] = order[i]
      /\ \A i \in kept : IsPending(order[i]) =>
           IsPending(fill[i]) /\ \E j \in DOMAIN ids : ids[j] = fill[i]
      /\ \A i, j \in kept : OnceEach(ids) /\ IsPending(order[i]) /\ IsPending(order[j])
                              /\ fill[i] = fill[j] => i = j
  BY <1>1, <1>2, <1>3, <1>8, FillFacts
<1>10. rest \in SUBSET (1..L) /\ \A i \in rest : IsPending(order[i])
  BY <1>5, <1>8 DEF LeftOver, PendingIn
<1>11. PICK c : c = Cardinality(kept)
  OBVIOUS
<1>12. PICK d : d = Cardinality(rest)
  OBVIOUS
<1>13. /\ c \in Nat /\ Len(front) = c /\ front \in Seq({fill[k] : k \in kept})
       /\ \A m \in 1..c : Nth(kept, m) \in kept /\ front[m] = fill[Nth(kept, m)]
       /\ \A k \in kept : \E m \in 1..c : Nth(kept, m) = k
       /\ \A l, m \in 1..c : l < m => Nth(kept, l) < Nth(kept, m)
  <2>1. IsPicked(front, fill, kept)
    BY <1>4, <1>8, <1>9, PickedFacts
  <2>. QED  BY <1>11, <2>1 DEF IsPicked
<1>14. /\ d \in Nat /\ Len(back) = d /\ back \in Seq({order[k] : k \in rest})
       /\ \A m \in 1..d : Nth(rest, m) \in rest /\ back[m] = order[Nth(rest, m)]
       /\ \A k \in rest : \E m \in 1..d : Nth(rest, m) = k
       /\ \A l, m \in 1..d : l < m => Nth(rest, l) < Nth(rest, m)
  <2>1. IsPicked(back, order, rest)
    BY <1>6, <1>8, <1>10, PickedFacts
  <2>. QED  BY <1>12, <2>1 DEF IsPicked
<1>15. /\ DOMAIN front = 1..c /\ DOMAIN back = 1..d /\ DOMAIN seq = 1..(c + d)
       /\ \A m \in 1..c : seq[m] = front[m]
       /\ \A m \in 1..d : seq[c + m] = back[m]
       /\ \A m \in 1..(c + d) : m \in 1..c \/ \E l \in 1..d : m = c + l
  <2>. DEFINE E == {fill[k] : k \in kept} \cup {order[k] : k \in rest}
  <2>0. front \in Seq(E) /\ back \in Seq(E)
    BY <1>13, <1>14
  <2>. HIDE DEF E
  <2>a. /\ seq \in Seq(E) /\ Len(seq) = Len(front) + Len(back)
        /\ \A m \in 1..Len(front) : seq[m] = front[m]
        /\ \A m \in 1..Len(back) : seq[Len(front) + m] = back[m]
    BY <1>7, <2>0
  <2>1. seq \in Seq(E) /\ Len(seq) = c + d
    BY <1>13, <1>14, <2>a
  <2>2. DOMAIN front = 1..c /\ DOMAIN back = 1..d /\ DOMAIN seq = 1..(c + d)
    BY <1>13, <1>14, <2>1
  <2>3. \A m \in 1..(c + d) : m \in 1..c \/ (m - c \in 1..d /\ m = c + (m - c))
    BY <1>13, <1>14
  <2>4. /\ \A m \in 1..c : seq[m] = front[m]
        /\ \A m \in 1..d : seq[c + m] = back[m]
    BY <1>13, <1>14, <2>a
  <2>. QED  BY <2>2, <2>3, <2>4
<1>16. \A i \in 1..L : order[i] \in Queued
  BY <1>8 DEF Queued
<1>17. \A o : IsPending(o) => o \in Queued
  BY DEF IsPending, QueueOK
\* What stands where.
<1>18. \A m \in 1..c : \E i \in kept : i = Nth(kept, m) /\ seq[m] = fill[i]
  BY <1>13, <1>15
<1>19. \A m \in 1..d : \E i \in rest : i = Nth(rest, m) /\ seq[c + m] = order[i]
  BY <1>14, <1>15
<1>20. ASSUME NEW m \in 1..(c + d)
       PROVE  seq[m] \in Queued
  <2>1. CASE m \in 1..c
    <3>1. PICK i \in kept : seq[m] = fill[i]
      BY <1>18, <2>1
    <3>. QED  BY <1>9, <1>16, <1>17, <3>1
  <2>2. CASE \E l \in 1..d : m = c + l
    BY <1>10, <1>16, <1>19, <2>2
  <2>. QED  BY <1>15, <2>1, <2>2
<1>21. ASSUME NEW k \in kept
       PROVE  \E m \in 1..(c + d) : seq[m] = fill[k]
  <2>1. PICK l \in 1..c : Nth(kept, l) = k
    BY <1>13
  <2>2. l \in 1..(c + d)
    BY <1>13, <1>14, <2>1
  <2>3. seq[l] = front[l] /\ front[l] = fill[k]
    BY <1>13, <1>15, <2>1
  <2>. QED  BY <2>2, <2>3
<1>22. ASSUME NEW k \in rest
       PROVE  \E m \in 1..(c + d) : seq[m] = order[k]
  <2>1. PICK l \in 1..d : Nth(rest, l) = k
    BY <1>14
  <2>2. c + l \in 1..(c + d)
    BY <1>13, <1>14, <2>1
  <2>3. back[l] = order[k]
    BY <1>14, <2>1
  <2>4. seq[c + l] = back[l]
    BY <1>15, <2>1
  <2>. QED  BY <2>2, <2>3, <2>4
<1>23. ASSUME NEW o \in Queued
       PROVE  \E m \in 1..(c + d) : seq[m] = o
  <2>1. PICK i \in 1..L : order[i] = o
    BY <1>8 DEF Queued
  <2>2. CASE ~IsPending(o)
    BY <1>9, <1>21, <2>1, <2>2
  <2>3. CASE IsPending(o) /\ \E m \in 1..c : front[m] = o
    <3>1. PICK m \in 1..c : front[m] = o
      BY <2>3
    <3>2. m \in 1..(c + d)
      BY <1>13, <1>14, <3>1
    <3>. QED  BY <1>15, <3>1, <3>2
  <2>4. CASE IsPending(o) /\ \A m \in 1..c : front[m] # o
    <3>1. PICK K : K = {k \in 1..L : order[k] = o}
      OBVIOUS
    <3>2. PICK s : s = Picked(order, K)
      OBVIOUS
    <3>3. /\ Cardinality(K) \in Nat
          /\ \A m \in 1..Cardinality(K) : Nth(K, m) \in K
          /\ \A k \in K : \E m \in 1..Cardinality(K) : Nth(K, m) = k
          /\ \A l, m \in 1..Cardinality(K) : l < m => Nth(K, l) < Nth(K, m)
      <4>1. IsPicked(s, order, K)
        BY <1>8, <3>1, <3>2, PickedFacts
      <4>. QED  BY <4>1 DEF IsPicked
    <3>4. i \in K
      BY <2>1, <3>1
    <3>5. 1 \in 1..Cardinality(K)
      BY <3>3, <3>4
    <3>6. PICK k : k = Nth(K, 1)
      OBVIOUS
    <3>7. k \in 1..L /\ order[k] = o
      BY <3>1, <3>3, <3>5, <3>6
    <3>8. ASSUME NEW j \in 1..L, order[j] = o
          PROVE  k <= j
      <4>1. PICK m \in 1..Cardinality(K) : Nth(K, m) = j
        BY <3>1, <3>3, <3>8
      <4>2. m = 1 \/ 1 < m
        BY <3>3
      <4>. QED  BY <3>3, <3>5, <3>6, <3>7, <4>1, <4>2
    <3>9. k \in rest
      BY <1>5, <1>8, <1>15, <2>4, <3>7, <3>8 DEF LeftOver, PendingIn
    <3>. QED  BY <1>22, <3>7, <3>9
  <2>. QED  BY <2>2, <2>3, <2>4
<1>24. {seq[i] : i \in DOMAIN seq} = Queued
  BY <1>15, <1>20, <1>23
<1>25. seq \in Seq(Ops)
  <2>1. Queued \subseteq Ops
    BY <1>8 DEF QueueOK, Queued
  <2>2. seq \in Seq({fill[k] : k \in kept} \cup {order[k] : k \in rest})
    BY <1>7, <1>13, <1>14
  <2>3. seq \in [1..(c + d) -> Ops]
    <3>1. seq = [m \in 1..(c + d) |-> seq[m]]
      BY <1>15, <2>2
    <3>2. \A m \in 1..(c + d) : seq[m] \in Ops
      BY <1>20, <2>1
    <3>. QED  BY <3>1, <3>2
  <2>. QED  BY <1>13, <1>14, <2>3
<1>26. ASSUME NEW a \in listed, NEW b \in listed, ~IsPending(a), ~IsPending(b)
       PROVE  Before(seq, a, b) <=> Before(order, a, b)
  \* An operation that left Pending stands in the front, at a slot of its own.
  <2>1. ASSUME NEW o, ~IsPending(o), NEW m \in 1..(c + d), seq[m] = o
        PROVE  m \in 1..c /\ Nth(kept, m) \in 1..L /\ order[Nth(kept, m)] = o
    <3>1. m \in 1..c
      <4>1. ASSUME NEW l \in 1..d, m = c + l
            PROVE  FALSE
        <5>1. PICK i \in rest : seq[c + l] = order[i]
          BY <1>19
        <5>. QED  BY <1>10, <2>1, <4>1, <5>1
      <4>. QED  BY <1>15, <4>1
    <3>2. PICK i \in kept : i = Nth(kept, m) /\ seq[m] = fill[i]
      BY <1>18, <3>1
    <3>3. ~IsPending(order[i])
      BY <1>9, <2>1, <3>2
    <3>. QED  BY <1>9, <2>1, <3>1, <3>2, <3>3
  <2>2. ASSUME Before(seq, a, b)
        PROVE  Before(order, a, b)
    <3>1. PICK l \in 1..(c + d), m \in 1..(c + d) : l < m /\ seq[l] = a /\ seq[m] = b
      BY <1>15, <2>2 DEF Before
    <3>2. /\ l \in 1..c /\ Nth(kept, l) \in 1..L /\ order[Nth(kept, l)] = a
          /\ m \in 1..c /\ Nth(kept, m) \in 1..L /\ order[Nth(kept, m)] = b
      BY <1>26, <2>1, <3>1
    <3>3. Nth(kept, l) < Nth(kept, m)
      BY <1>13, <3>1, <3>2
    <3>. QED  BY <1>8, <3>2, <3>3 DEF Before
  <2>3. ASSUME Before(order, a, b)
        PROVE  Before(seq, a, b)
    <3>1. PICK i \in 1..L, j \in 1..L : i < j /\ order[i] = a /\ order[j] = b
      BY <1>8, <2>3 DEF Before
    <3>2. i \in kept /\ fill[i] = a /\ j \in kept /\ fill[j] = b
      BY <1>9, <1>26, <3>1
    <3>3. PICK l \in 1..c : Nth(kept, l) = i
      BY <1>13, <3>2
    <3>4. PICK m \in 1..c : Nth(kept, m) = j
      BY <1>13, <3>2
    <3>5. l < m \/ m < l \/ l = m
      BY <1>13
    <3>6. l < m
      BY <1>13, <3>1, <3>3, <3>4, <3>5
    <3>7. seq[l] = a /\ seq[m] = b /\ l \in 1..(c + d) /\ m \in 1..(c + d)
      BY <1>13, <1>14, <1>15, <3>2, <3>3, <3>4
    <3>. QED  BY <1>15, <3>6, <3>7 DEF Before
  <2>. QED  BY <2>2, <2>3
<1>27. ASSUME OnceEach(order), OnceEach(ids)
       PROVE  OnceEach(seq)
  <2>1. ASSUME NEW i \in kept, NEW j \in kept, fill[i] = fill[j]
        PROVE  i = j
    <3>1. CASE IsPending(order[i]) /\ IsPending(order[j])
      BY <1>9, <1>27, <2>1, <3>1
    <3>2. CASE ~IsPending(order[i]) /\ ~IsPending(order[j])
      <4>1. order[i] = order[j] /\ i \in 1..L /\ j \in 1..L
        BY <1>9, <2>1, <3>2
      <4>. QED  BY <1>8, <1>27, <4>1 DEF OnceEach
    <3>3. CASE IsPending(order[i]) /\ ~IsPending(order[j])
      BY <1>9, <2>1, <3>3
    <3>4. CASE ~IsPending(order[i]) /\ IsPending(order[j])
      BY <1>9, <2>1, <3>4
    <3>. QED  BY <3>1, <3>2, <3>3, <3>4
  <2>2. ASSUME NEW l \in 1..c, NEW m \in 1..c, seq[l] = seq[m]
        PROVE  l = m
    <3>1. PICK i \in kept : i = Nth(kept, l) /\ seq[l] = fill[i]
      BY <1>18
    <3>2. PICK j \in kept : j = Nth(kept, m) /\ seq[m] = fill[j]
      BY <1>18
    <3>3. i = j
      BY <2>1, <2>2, <3>1, <3>2
    <3>4. i \in Nat
      BY <1>8, <1>9
    <3>5. (l < m => i < j) /\ (m < l => j < i)
      BY <1>13, <3>1, <3>2
    <3>. QED  BY <1>13, <3>3, <3>4, <3>5
  <2>3. ASSUME NEW l \in 1..d, NEW m \in 1..d, seq[c + l] = seq[c + m]
        PROVE  l = m
    <3>1. PICK i \in rest : i = Nth(rest, l) /\ seq[c + l] = order[i]
      BY <1>19
    <3>2. PICK j \in rest : j = Nth(rest, m) /\ seq[c + m] = order[j]
      BY <1>19
    <3>3. i = j /\ i \in 1..L
      BY <1>8, <1>10, <1>27, <2>3, <3>1, <3>2 DEF OnceEach
    <3>4. i \in Nat
      BY <1>8, <3>3
    <3>5. (l < m => i < j) /\ (m < l => j < i)
      BY <1>14, <3>1, <3>2
    <3>. QED  BY <1>14, <3>3, <3>4, <3>5
  <2>4. ASSUME NEW l \in 1..c, NEW m \in 1..d
        PROVE  seq[l] # seq[c + m]
    <3>1. PICK i \in rest : seq[c + m] = order[i]
      BY <1>19
    <3>2. \A k \in DOMAIN front : front[k] # order[i]
      BY <1>5 DEF LeftOver
    <3>. QED  BY <1>15, <3>1, <3>2
  <2>5. ASSUME NEW x \in DOMAIN seq, NEW y \in DOMAIN seq, seq[x] = seq[y]
        PROVE  x = y
    <3>1. CASE x \in 1..c /\ y \in 1..c
      BY <2>2, <2>5, <3>1
    <3>2. CASE x \in 1..c /\ \E m \in 1..d : y = c + m
      BY <2>4, <2>5, <3>2
    <3>3. CASE (\E l \in 1..d : x = c + l) /\ y \in 1..c
      BY <2>4, <2>5, <3>3
    <3>4. CASE (\E l \in 1..d : x = c + l) /\ (\E m \in 1..d : y = c + m)
      BY <2>3, <2>5, <3>4
    <3>. QED  BY <1>15, <3>1, <3>2, <3>3, <3>4
  <2>. QED  BY <2>5 DEF OnceEach
<1>. QED  BY <1>24, <1>25, <1>26, <1>27

\* The commands on an operation of the queue leave the queue alone and never
\* make the operation pending.
LEMMA CommandKeepsQueue ==
  ASSUME StateOK, NEW o \in Ops, User(o) \/ NotifyAll(o), ~StartOp(o), ~RetryOp(o)
  PROVE  /\ UNCHANGED <<listed, order, owed, tail>>
         /\ op' = op \/ op'[o].status \notin {"none", "Pending"}
<1>t. op \in [Ops -> OpState] /\ op[o] \in OpState
  BY DEF StateOK
<1>1. CASE PauseOp(o)
  BY <1>1, <1>t DEF PauseOp, queue, OpState
<1>2. CASE ResumeOp(o)
  BY <1>2, <1>t DEF ResumeOp, MustNotify, OpState
<1>3. CASE CancelPending(o)
  BY <1>3, <1>t DEF CancelPending, OpState
<1>4. CASE CancelRunning(o)
  BY <1>4, <1>t DEF CancelRunning, MustNotify, OpState
<1>5. CASE SkipOp(o)
  BY <1>5, <1>t DEF SkipOp, MustNotify, OpState
<1>6. CASE \E r \in Resolutions, all \in BOOLEAN : ResolveConflict(o, r, all)
  BY <1>6, <1>t DEF ResolveConflict, MustNotify, OpState
<1>7. CASE NotifyAll(o)
  BY <1>7 DEF NotifyAll
<1>. QED  BY <1>1, <1>2, <1>3, <1>4, <1>5, <1>6, <1>7 DEF User, CancelOp

\* A worker's step other than a release leaves its operation with a worker.
LEMMA WorkerHolds ==
  ASSUME StateOK, NEW o \in Ops, WorkerStep(o), ~Release(o)
  PROVE  /\ UNCHANGED queue
         /\ \A a \in Ops : pc'[a] = "idle" => pc[a] = "idle" /\ op'[a] = op[a]
<1>t. PcOK
  BY DEF StateOK, PcOK
<1>1. UNCHANGED queue /\ \A a \in Ops \ {o} : Untouched(a)
  BY WorkerFrame
<1>2. pc[o] # "idle"
  BY DEF WorkerStep, Sleep, Admit, Grant,
     Deny, Find, Begin, Measure, Top, SkipItem, Check, Detect, Apply, Answered, Gate,
     StartIo, Chunk, RemoveSource, EndIo, AdvanceItem, After, Recheck, Finish,
     DropPermit, FailAt, DiskStep, Quiet, Move, At
<1>3. pc'[o] # "idle"
  BY <1>t, <1>2, WorkerMoves DEF Steps, PcOK
<1>. QED  BY <1>1, <1>3 DEF Untouched

\* Taking an operation out of the queue.
LEMMA WithoutIsQueue ==
  ASSUME QueueOK, NEW o \in listed, NEW seq, seq = Without(o)
  PROVE  /\ seq \in Seq(Ops)
         /\ {seq[i] : i \in DOMAIN seq} = Queued \ {o}
<1>1. PICK K : K = {i \in DOMAIN order : order[i] # o}
  OBVIOUS
<1>2. Len(order) \in Nat /\ K \in SUBSET (1..Len(order)) /\ seq = Picked(order, K)
  BY <1>1 DEF QueueOK, Without
<1>3. /\ seq \in Seq({order[k] : k \in K}) /\ Len(seq) = Cardinality(K)
      /\ \A m \in 1..Cardinality(K) : Nth(K, m) \in K /\ seq[m] = order[Nth(K, m)]
      /\ \A k \in K : \E m \in 1..Cardinality(K) : Nth(K, m) = k
  <2>1. IsPicked(seq, order, K)
    BY <1>2, PickedFacts
  <2>. QED  BY <2>1 DEF IsPicked
<1>4. DOMAIN seq = 1..Cardinality(K)
  BY <1>3
<1>5. {order[k] : k \in K} = Queued \ {o}
  BY <1>1 DEF Queued
<1>6. {seq[i] : i \in DOMAIN seq} = {order[k] : k \in K}
  BY <1>3, <1>4
<1>7. seq \in Seq(Ops)
  <2>1. {order[k] : k \in K} \subseteq Ops
    BY <1>1 DEF QueueOK
  <2>. QED  BY <1>3, <2>1
<1>. QED  BY <1>5, <1>6, <1>7

\* Putting a new operation at the end.
LEMMA AppendIsQueue ==
  ASSUME QueueOK, NEW o \in Ops \ listed, NEW seq, seq = Append(order, o)
  PROVE  /\ seq \in Seq(Ops)
         /\ {seq[i] : i \in DOMAIN seq} = Queued \cup {o}
<1>1. /\ Len(order) \in Nat /\ DOMAIN order = 1..Len(order)
      /\ \A i \in 1..Len(order) : order[i] \in Queued
      /\ \A q \in Queued : \E i \in 1..Len(order) : order[i] = q
  BY DEF QueueOK, Queued
<1>2. /\ seq \in Seq(Ops) /\ Len(seq) = Len(order) + 1
      /\ \A i \in 1..Len(order) : seq[i] = order[i]
      /\ seq[Len(order) + 1] = o
  BY DEF QueueOK
<1>3. DOMAIN seq = 1..(Len(order) + 1)
  BY <1>2
<1>4. \A i \in DOMAIN seq : i \in 1..Len(order) \/ i = Len(order) + 1
  BY <1>1, <1>3
<1>5. \A i \in DOMAIN seq : seq[i] \in Queued \cup {o}
  BY <1>1, <1>2, <1>4
<1>6. \A q \in Queued \cup {o} : \E i \in DOMAIN seq : seq[i] = q
  <2>1. Len(order) + 1 \in DOMAIN seq /\ \A i \in 1..Len(order) : i \in DOMAIN seq
    BY <1>1, <1>3
  <2>. QED  BY <1>1, <1>2, <2>1
<1>. QED  BY <1>2, <1>5, <1>6

\* The inductive invariant of the queue order.
QueueIInv == ControlIInv /\ QueueOK

\* What a new order must satisfy.
LEMMA NewOrder ==
  ASSUME NEW seq, order' = seq, seq \in Seq(Ops),
         {seq[i] : i \in DOMAIN seq} = listed',
         \A a \in listed' : op'[a].status # "none"
  PROVE  QueueOK'
<1>1. Queued' = listed'
  BY DEF Queued
<1>2. order' \in Seq(Ops)
  OBVIOUS
<1>. QED  BY <1>1, <1>2 DEF QueueOK

\* Every step keeps the order and the map in agreement.
LEMMA QueueStep == QueueIInv /\ [Next]_vars => QueueIInv'
<1>. SUFFICES ASSUME QueueIInv, [Next]_vars PROVE QueueIInv'
  OBVIOUS
<1>. USE DEF QueueIInv
<1>t. StateOK /\ IInv /\ \A o \in Ops : Control(o)
  BY DEF ControlIInv
<1>1. ControlIInv'
  BY ControlStep
<1>2. ASSUME UNCHANGED <<listed, order>>,
             \A o \in Ops : op'[o].status = "none" => op[o].status = "none"
      PROVE  QueueOK'
  <2>1. \A a \in listed' : op'[a].status # "none"
    BY <1>t, <1>2 DEF QueueOK, StateOK
  <2>2. order \in Seq(Ops) /\ {order[i] : i \in DOMAIN order} = listed'
    BY <1>2 DEF QueueOK, Queued
  <2>. QED  BY <1>2, <2>1, <2>2, NewOrder
<1>3. CASE UNCHANGED vars
  BY <1>1, <1>2, <1>3 DEF vars
<1>4. ASSUME NEW o \in Ops, StartOp(o)
      PROVE  QueueOK'
  <2>1. o \in Ops \ listed /\ listed' = listed \cup {o} /\ order' = Append(order, o)
    BY <1>4 DEF StartOp, QueueOK
  <2>2. \A a \in listed' : op'[a].status # "none"
    BY <1>4, <1>t, <2>1 DEF StartOp, NewOp, QueueOK, StateOK
  <2>. QED  BY <2>1, <2>2, AppendIsQueue DEF QueueOK, Queued
<1>5. ASSUME NEW o \in Ops, RetryOp(o)
      PROVE  QueueOK'
  <2>1. op'[o].status # "none" /\ \A a \in Ops \ {o} : op'[a] = op[a]
    BY <1>5, <1>t DEF RetryOp, NewOp, StateOK
  <2>. QED  BY <1>2, <1>5, <2>1 DEF RetryOp
<1>6. ASSUME NEW o \in Ops, User(o) \/ NotifyAll(o), ~StartOp(o), ~RetryOp(o)
      PROVE  QueueOK'
  <2>1. /\ UNCHANGED <<listed, order>>
        /\ op' = op \/ op'[o].status # "none"
        /\ \A a \in Ops \ {o} : op'[a] = op[a]
    BY <1>6, <1>t, CommandKeepsQueue, CommandFrame DEF Untouched
  <2>2. \A a \in Ops : op'[a].status = "none" => op[a].status = "none"
    BY <2>1
  <2>. QED  BY <1>2, <2>1, <2>2
<1>7. ASSUME NEW o \in Ops, AutoRemove(o)
      PROVE  QueueOK'
  <2>1. CASE UNCHANGED <<listed, order>>
    BY <1>2, <1>7, <2>1 DEF AutoRemove
  <2>2. CASE o \in listed /\ listed' = listed \ {o} /\ order' = Without(o)
    <3>1. PICK seq : seq = Without(o)
      OBVIOUS
    <3>2. seq \in Seq(Ops) /\ {seq[i] : i \in DOMAIN seq} = Queued \ {o}
      BY <2>2, <3>1, WithoutIsQueue
    <3>3. Queued \ {o} = listed' /\ \A a \in listed' : op'[a].status # "none"
      BY <1>7, <2>2 DEF AutoRemove, QueueOK
    <3>. QED  BY <2>2, <3>1, <3>2, <3>3, NewOrder
  <2>. QED  BY <1>7, <2>1, <2>2 DEF AutoRemove
<1>8. ASSUME NEW o \in Ops, WorkerStep(o)
      PROVE  QueueOK'
  <2>1. CASE Release(o)
    BY <1>2, <2>1 DEF Release
  <2>2. CASE ~Release(o)
    <3>1. UNCHANGED <<listed, order>>
      BY <1>8, <1>t, <2>2, WorkerHolds DEF queue
    <3>2. ASSUME NEW a \in Ops, op'[a].status = "none"
          PROVE  op[a].status = "none"
      <4>1. Control(a)'
        BY <1>1 DEF ControlIInv
      <4>2. pc'[a] = "idle"
        BY <3>2, <4>1 DEF Control
      <4>. QED  BY <1>8, <1>t, <2>2, <3>2, <4>2, WorkerHolds
    <3>. QED  BY <1>2, <3>1, <3>2
  <2>. QED  BY <2>1, <2>2
<1>9. ASSUME NEW o \in Ops, Schedule(o) \/ Reschedule(o)
      PROVE  QueueOK'
  BY <1>2, <1>9, <1>t, PassFrame
<1>10. ASSUME NEW ids \in Requests, ReorderOps(ids)
       PROVE  QueueOK'
  <2>1. PICK seq : seq = Reordered(ids)
    OBVIOUS
  <2>2. seq \in Seq(Ops) /\ {seq[i] : i \in DOMAIN seq} = Queued
    BY <2>1, ReorderedIsQueue
  <2>3. /\ order' = seq /\ Queued = listed'
        /\ \A a \in listed' : op'[a].status # "none"
    BY <1>10, <2>1 DEF ReorderOps, QueueOK
  <2>. QED  BY <2>2, <2>3, NewOrder
<1>. QED
  BY <1>1, <1>3, <1>4, <1>5, <1>6, <1>7, <1>8, <1>9, <1>10 DEF Next, Background, User

\* Both are empty initially.
LEMMA QueueInit == Init => QueueIInv
<1>. SUFFICES ASSUME Init PROVE QueueIInv
  OBVIOUS
<1>1. order = << >> /\ listed = {}
  BY DEF Init
<1>2. DOMAIN order = {} /\ order \in Seq(Ops)
  BY <1>1
<1>3. QueueOK
  BY <1>1, <1>2 DEF QueueOK, Queued
<1>. QED  BY <1>3, ControlInit DEF QueueIInv

\* The order and the map always agree.
LEMMA QueueInvariance == Spec => []QueueIInv
<1>. QED  BY QueueInit, QueueStep, PTL DEF Spec

\* The types of the whole queue, its order included: no request to reorder,
\* however it was made up, puts anything but an operation into the order.
THEOREM QueueTyped == Spec => []TypeOK
<1>1. QueueIInv => TypeOK
  BY DEF QueueIInv, QueueOK, ControlIInv, StateOK, TypeOK
<1>. QED  BY <1>1, QueueInvariance, PTL

\* Any request to reorder, stale, incomplete or naming ids twice, keeps the
\* operations of the queue and leaves those that left Pending in their relative
\* order; one that names no id twice doubles none (reorder_ops).
THEOREM ReorderSafe == Spec => ReorderKeepsOthers
<1>1. ASSUME QueueIInv, [Next]_vars
      PROVE  [listed' = listed =>
               /\ Queued' = Queued
               /\ \A a, b \in listed : ~IsPending(a) /\ ~IsPending(b) =>
                    (Before(order', a, b) <=> Before(order, a, b))
               /\ OnceEach(order) /\ ~OnceEach(order') =>
                    \A ids \in Requests : ReorderOps(ids) => ~OnceEach(ids)]_order
  <2>. SUFFICES ASSUME order' # order, listed' = listed
                PROVE  /\ Queued' = Queued
                       /\ \A a, b \in listed : ~IsPending(a) /\ ~IsPending(b) =>
                            (Before(order', a, b) <=> Before(order, a, b))
                       /\ OnceEach(order) /\ ~OnceEach(order') =>
                            \A ids \in Requests : ReorderOps(ids) => ~OnceEach(ids)
    OBVIOUS
  <2>t. StateOK /\ IInv /\ QueueOK
    BY <1>1 DEF QueueIInv, ControlIInv
  <2>1. \A o \in Ops : ~StartOp(o)
    BY <2>t DEF StartOp, QueueOK
  <2>2. \A o \in Ops : ~RetryOp(o)
    BY DEF RetryOp
  <2>3. \A o \in Ops : ~AutoRemove(o)
    BY DEF AutoRemove
  <2>4. \A o \in Ops : ~(User(o) \/ NotifyAll(o))
    BY <2>1, <2>2, <2>t, CommandKeepsQueue
  <2>5. \A o \in Ops : ~WorkerStep(o)
    BY <2>t, WorkerHolds DEF Release, queue
  <2>6. \A o \in Ops : ~(Schedule(o) \/ Reschedule(o))
    BY <2>t, PassFrame
  <2>7. \E ids \in Requests : ReorderOps(ids)
    BY <1>1, <2>3, <2>4, <2>5, <2>6 DEF Next, Background, vars
  <2>8. ASSUME NEW ids \in Requests, ReorderOps(ids)
        PROVE  /\ {order'[i] : i \in DOMAIN order'} = Queued
               /\ \A a, b \in listed : ~IsPending(a) /\ ~IsPending(b) =>
                    (Before(order', a, b) <=> Before(order, a, b))
               /\ OnceEach(order) /\ OnceEach(ids) => OnceEach(order')
    <3>1. PICK seq : seq = Reordered(ids)
      OBVIOUS
    <3>2. /\ {seq[i] : i \in DOMAIN seq} = Queued
          /\ \A a, b \in listed : ~IsPending(a) /\ ~IsPending(b) =>
               (Before(seq, a, b) <=> Before(order, a, b))
          /\ OnceEach(order) /\ OnceEach(ids) => OnceEach(seq)
      BY <2>t, <3>1, ReorderedIsQueue
    <3>3. order' = seq
      BY <2>8, <3>1 DEF ReorderOps
    <3>. QED  BY <3>2, <3>3
  <2>9. Queued' = Queued
    BY <2>7, <2>8 DEF Queued
  <2>. QED  BY <2>7, <2>8, <2>9
<1>. QED  BY <1>1, QueueInvariance, PTL DEF Spec, ReorderKeepsOthers

\* A pass over the queue leaves only what a busy volume blocks.
LEMMA PassLeavesBlocked ==
  ASSUME QueueIInv, NEW o \in Ops, Schedule(o) \/ Reschedule(o),
         NEW a \in listed, op[a].status = "Pending", pc'[a] = "idle"
  PROVE  VolumesOf[a] \cap busy' # {}
<1>1. PICK S \in SUBSET Queued :
        /\ IsStartable(S)
        /\ busy' = busy \cup UNION {VolumesOf[b] : b \in S}
        /\ pc' = [b \in Ops |-> IF b \in S THEN "admit" ELSE pc[b]]
  BY DEF Schedule, Reschedule, Dispatch
<1>2. a \in Ops /\ a \notin S
  BY <1>1 DEF QueueIInv, ControlIInv, StateOK
<1>3. PICK i \in DOMAIN order : order[i] = a
  BY DEF QueueIInv, QueueOK, Queued
<1>4. VolumesOf[a] \cap ReservedBefore(S, i) # {}
  BY <1>1, <1>2, <1>3 DEF IsStartable, Queued
<1>5. ReservedBefore(S, i) \subseteq busy'
  BY <1>1 DEF ReservedBefore
<1>. QED  BY <1>4, <1>5

\* No eligible operation is left behind: whenever no thread owes a pass over
\* the queue, a pending operation without a worker waits for a busy volume
\* (start_op, retry_op and release_and_reschedule, over any set of volumes).
THEOREM NoneStranded == Spec => []NoStrandedPending
<1>. DEFINE I == QueueIInv /\ NoStrandedPending
<1>1. Init => I
  BY QueueInit DEF Init, NoStrandedPending
<1>2. ASSUME I, [Next]_vars
      PROVE  I'
  <2>t. /\ StateOK /\ IInv /\ QueueOK /\ QueueIInv' /\ listed \subseteq Ops
        /\ owed \in [Ops -> Nat] /\ tail \in [Ops -> Nat]
    BY <1>2, QueueStep DEF QueueIInv, ControlIInv, StateOK
  <2>1. ASSUME UNCHANGED <<busy, owed, tail>>, listed' \subseteq listed,
               \A a \in Ops : op'[a].status = "Pending" /\ pc'[a] = "idle" =>
                                op[a].status = "Pending" /\ pc[a] = "idle"
        PROVE  NoStrandedPending'
    BY <1>2, <2>1, <2>t DEF NoStrandedPending
  <2>2. CASE UNCHANGED vars
    BY <2>1, <2>2, <2>t DEF vars
  <2>3. ASSUME NEW o \in Ops, StartOp(o) \/ RetryOp(o) \/ Release(o)
        PROVE  NoStrandedPending'
    <3>1. owed'[o] > 0 \/ tail'[o] > 0
      BY <2>3, <2>t DEF StartOp, RetryOp, Release
    <3>. QED  BY <3>1 DEF NoStrandedPending
  <2>4. ASSUME NEW o \in Ops, User(o) \/ NotifyAll(o), ~StartOp(o), ~RetryOp(o)
        PROVE  NoStrandedPending'
    <3>1. /\ UNCHANGED <<busy, pc, listed, owed, tail>>
          /\ op' = op \/ op'[o].status # "Pending"
          /\ \A a \in Ops \ {o} : op'[a] = op[a]
      BY <2>4, <2>t, CommandKeepsQueue, CommandFrame DEF Untouched
    <3>. QED  BY <2>1, <3>1
  <2>5. ASSUME NEW o \in Ops, AutoRemove(o)
        PROVE  NoStrandedPending'
    BY <2>1, <2>5 DEF AutoRemove
  <2>6. ASSUME NEW o \in Ops, WorkerStep(o), ~Release(o)
        PROVE  NoStrandedPending'
    BY <2>1, <2>6, <2>t, WorkerHolds DEF queue
  <2>7. ASSUME NEW o \in Ops, Schedule(o) \/ Reschedule(o)
        PROVE  NoStrandedPending'
    <3>1. UNCHANGED <<listed, op>>
      BY <2>7, <2>t, PassFrame
    <3>. QED  BY <1>2, <2>7, <3>1, PassLeavesBlocked DEF NoStrandedPending
  <2>8. ASSUME NEW ids \in Requests, ReorderOps(ids)
        PROVE  NoStrandedPending'
    BY <2>1, <2>8 DEF ReorderOps
  <2>. QED
    BY <1>2, <2>t, <2>2, <2>3, <2>4, <2>5, <2>6, <2>7, <2>8 DEF Next, Background, User
<1>3. I => NoStrandedPending
  OBVIOUS
<1>4. I /\ [Next]_vars => I'
  BY <1>2
<1>. QED  BY <1>1, <1>3, <1>4, PTL DEF Spec
=============================================================================
