------------------------------- MODULE FoldFacts -------------------------------
(***************************************************************************)
(* What is proved of folds over finite sets, whatever they fold: the fold  *)
(* of a step that keeps a set exists, and what every step keeps holds of   *)
(* its value.  A fold of the community modules goes through the subsets of *)
(* a finite set; FoldedFrom(g, base, next, ch, S) says that the function g *)
(* of the subsets is the one that the fold of next from base, taking the   *)
(* element ch[s] of s last, computes.                                      *)
(***************************************************************************)
EXTENDS Integers, FiniteSetsExt, FiniteSetTheorems, WellFoundedInduction, TLAPS

FoldedFrom(g, base, next, ch, S) ==
  g = [s \in SUBSET S |-> IF s = {} THEN base ELSE next[<<ch[s], g[s \ {ch[s]}]>>]]

\* A set of subsets of a finite set, if not empty, has a smallest one.
LEMMA SmallestSubset ==
  ASSUME NEW S, IsFiniteSet(S), NEW C, C \subseteq SUBSET S, C # {}
  PROVE  \E s \in C : \A t \in C : ~(t \subseteq s /\ t # s)
<1>1. IsWellFoundedOn(StrictSubsetOrdering(S), FiniteSubsetsOf(S))
  BY FS_StrictSubsetOrderingWellFounded
<1>2. FiniteSubsetsOf(S) = SUBSET S
  BY FS_FiniteSubsetsOfFinite
<1>3. \E s \in C : \A t \in C : ~(<<t, s>> \in StrictSubsetOrdering(S))
  BY <1>1, <1>2, WFMin
<1>4. PICK s \in C : \A t \in C : ~(<<t, s>> \in StrictSubsetOrdering(S))
  BY <1>3
<1>5. ASSUME NEW t \in C, t \subseteq s, t # s PROVE FALSE
  <2>1. <<t, s>> \in StrictSubsetOrdering(S)
    BY <1>5 DEF StrictSubsetOrdering
  <2> QED
    BY <1>4, <2>1
<1> QED
  BY <1>4, <1>5

\* What holds of the empty set and is kept by one more element holds of all
\* subsets of a finite set.
LEMMA SubsetsAll ==
  ASSUME NEW S, IsFiniteSet(S), NEW G, G \subseteq SUBSET S,
         {} \in G, \A s \in (SUBSET S) \ {{}} : \E x \in s : s \ {x} \in G => s \in G
  PROVE  G = SUBSET S
<1>1. SUFFICES ASSUME G # SUBSET S PROVE FALSE
  OBVIOUS
<1>2. PICK C : C = (SUBSET S) \ G
  OBVIOUS
<1>3. C \subseteq SUBSET S /\ C # {}
  BY <1>1, <1>2
<1>4. PICK s \in C : \A t \in C : ~(t \subseteq s /\ t # s)
  BY <1>3, SmallestSubset
<1>5. s # {}
  BY <1>2
<1>6. PICK x \in s : s \ {x} \in G => s \in G
  BY <1>2, <1>3, <1>5
<1>7. s \ {x} \in G
  BY <1>2, <1>3, <1>4, <1>6
<1> QED
  BY <1>2, <1>4, <1>6, <1>7

\* A set of natural numbers, if not empty, has a least element.
LEMMA LeastNat ==
  ASSUME NEW M, M \subseteq Nat, M # {}
  PROVE  \E n \in M : \A m \in M : n <= m
<1> DEFINE R == OpToRel(<, Nat)
<1>1. \E n \in M : \A m \in M : <<m, n>> \notin R
  <2> HIDE DEF R
  <2> QED
    BY WFMin, NatLessThanWellFounded DEF R
<1>2. PICK n \in M : \A m \in M : <<m, n>> \notin R
  BY <1>1
<1>3. \A m \in M : ~(m < n)
  BY <1>2 DEF OpToRel
<1> HIDE DEF R
<1> QED
  BY <1>3

\* The greatest of some positions of a list is one of them.
LEMMA GreatestIn ==
  ASSUME NEW k \in Nat, NEW s \in SUBSET (1..k), s # {}
  PROVE  Max(s) \in s
<1>1. PICK M : M = {k - x : x \in s}
  OBVIOUS
<1>2. M \subseteq Nat /\ M # {}
  <2>1. \A x \in s : x \in Nat /\ x <= k /\ k - x \in Nat
    OBVIOUS
  <2>2. ASSUME NEW m \in M PROVE m \in Nat
    <3>1. PICK x \in s : m = k - x
      BY <1>1
    <3> QED
      BY <2>1, <3>1
  <2>3. PICK x : x \in s
    OBVIOUS
  <2>4. k - x \in M
    BY <1>1, <2>3
  <2> QED
    BY <2>2, <2>4
<1>3. PICK n \in M : \A m \in M : n <= m
  BY <1>2, LeastNat
<1>4. PICK x \in s : n = k - x
  BY <1>1, <1>3
<1>5. ASSUME NEW y \in s PROVE x >= y
  <2>1. k - y \in M
    BY <1>1
  <2>2. k - x <= k - y
    BY <1>3, <1>4, <2>1
  <2> QED
    BY <2>2
<1> QED
  BY <1>5 DEF Max

\* If next keeps its accumulator in A, the fold exists: it is built for the
\* subsets of at most n elements, n after n.
LEMMA FoldExists ==
  ASSUME NEW S, IsFiniteSet(S), NEW A, NEW base \in A, NEW next \in [S \X A -> A],
         NEW ch, \A s \in (SUBSET S) \ {{}} : ch[s] \in s
  PROVE  \E g \in [SUBSET S -> A] : FoldedFrom(g, base, next, ch, S)
<1> DEFINE N(n) == {s \in SUBSET S : Cardinality(s) <= n}
           Ok(n, g) == \A s \in N(n) :
                         g[s] = IF s = {} THEN base ELSE next[<<ch[s], g[s \ {ch[s]}]>>]
           M == {n \in Nat : ~\E g \in [N(n) -> A] : Ok(n, g)}
<1>0. \A s \in SUBSET S : IsFiniteSet(s) /\ Cardinality(s) \in Nat
  BY FS_Subset, FS_CardinalityType
<1>1. \A s \in SUBSET S : s # {} =>
        s \ {ch[s]} \in SUBSET S /\ Cardinality(s \ {ch[s]}) = Cardinality(s) - 1
  <2> SUFFICES ASSUME NEW s \in SUBSET S, s # {}
               PROVE  s \ {ch[s]} \in SUBSET S /\ Cardinality(s \ {ch[s]}) = Cardinality(s) - 1
    OBVIOUS
  <2>1. ch[s] \in s
    OBVIOUS
  <2> QED
    BY <1>0, <2>1, FS_RemoveElement
<1>2. ASSUME M # {} PROVE FALSE
  <2>1. PICK n \in M : \A m \in M : n <= m
    <3> M \subseteq Nat
      OBVIOUS
    <3> HIDE DEF M
    <3> QED
      BY <1>2, LeastNat
  <2>2. n # 0
    <3> SUFFICES ASSUME 0 \in M PROVE FALSE
      OBVIOUS
    <3>1. \A s \in N(0) : s = {}
      BY <1>0, FS_EmptySet
    <3>2. PICK g : g = [s \in N(0) |-> base]
      OBVIOUS
    <3>3. g \in [N(0) -> A] /\ Ok(0, g)
      BY <3>1, <3>2
    <3> QED
      BY <3>3
  <2>3. n - 1 \in Nat /\ n - 1 \notin M
    <3>1. n \in Nat
      BY <2>1
    <3> HIDE DEF M
    <3> QED
      BY <2>1, <2>2, <3>1
  <2>4. PICK g \in [N(n - 1) -> A] : Ok(n - 1, g)
    BY <2>3
  <2>5. PICK h : h = [s \in N(n) |-> IF s \in N(n - 1) THEN g[s]
                                     ELSE IF s = {} THEN base ELSE next[<<ch[s], g[s \ {ch[s]}]>>]]
    OBVIOUS
  <2>6. \A s \in N(n) : s # {} => s \ {ch[s]} \in N(n - 1) /\ ch[s] \in S
    BY <1>0, <1>1, <2>1
  <2>7. N(n - 1) \subseteq N(n)
    BY <1>0, <2>1
  <2>8. h \in [N(n) -> A]
    BY <2>4, <2>5, <2>6
  <2>9. \A s \in N(n) : s # {} => h[s \ {ch[s]}] = g[s \ {ch[s]}]
    BY <2>5, <2>6, <2>7
  <2>10. ASSUME NEW s \in N(n)
         PROVE  h[s] = IF s = {} THEN base ELSE next[<<ch[s], h[s \ {ch[s]}]>>]
    <3>1. CASE s \in N(n - 1)
      BY <2>4, <2>5, <2>9, <3>1
    <3>2. CASE s \notin N(n - 1)
      BY <2>5, <2>9, <3>2
    <3> QED
      BY <3>1, <3>2
  <2> QED
    BY <2>1, <2>8, <2>10
<1>3. PICK c \in Nat : c = Cardinality(S)
  BY FS_CardinalityType
<1>4. N(c) = SUBSET S
  BY <1>3, FS_Subset
<1>5. PICK g \in [N(c) -> A] : Ok(c, g)
  BY <1>2
<1>6. g = [s \in SUBSET S |-> IF s = {} THEN base ELSE next[<<ch[s], g[s \ {ch[s]}]>>]]
  BY <1>4, <1>5
<1> QED
  BY <1>4, <1>6 DEF FoldedFrom

\* A relation between a subset and the value of the fold that holds at the start
\* and is kept by every step holds at the end.
LEMMA FoldKeeps ==
  ASSUME NEW S, IsFiniteSet(S), NEW g, NEW R,
         <<{}, g[{}]>> \in R,
         \A s \in (SUBSET S) \ {{}} : \E x \in s :
           <<s \ {x}, g[s \ {x}]>> \in R => <<s, g[s]>> \in R
  PROVE  <<S, g[S]>> \in R
<1>1. PICK G : G = {s \in SUBSET S : <<s, g[s]>> \in R}
  OBVIOUS
<1>2. G \subseteq SUBSET S /\ {} \in G
  BY <1>1
<1>4. ASSUME NEW s \in (SUBSET S) \ {{}} PROVE \E x \in s : s \ {x} \in G => s \in G
  BY <1>1
<1>3. G = SUBSET S
  BY <1>2, <1>4, SubsetsAll
<1> QED
  BY <1>1, <1>3

\* What the steps of a fold keep holds of its value.
LEMMA FoldStays ==
  ASSUME NEW S, IsFiniteSet(S), NEW h, NEW A, h[{}] \in A,
         \A s \in (SUBSET S) \ {{}} : \E x \in s : h[s \ {x}] \in A => h[s] \in A
  PROVE  h[S] \in A
<1>1. PICK H : H = {s \in SUBSET S : h[s] \in A}
  OBVIOUS
<1>2. H \subseteq SUBSET S /\ {} \in H /\ \A s \in (SUBSET S) \ {{}} : \E x \in s : s \ {x} \in H => s \in H
  BY <1>1
<1>3. H = SUBSET S
  BY <1>2, SubsetsAll
<1> QED
  BY <1>1, <1>3
=============================================================================
