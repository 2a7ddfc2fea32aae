------------------------- MODULE BoundedCache_proofs -------------------------
(***************************************************************************)
(* The LRU cache of the metadata services: for any limits, what an insert, *)
(* an access and a retain leave behind.                                    *)
(***************************************************************************)
EXTENDS BoundedCache, FiniteSetTheorems, SequenceTheorems, WellFoundedInduction, TLAPS

-----------------------------------------------------------------------------
(* What is kept of a sequence.                                             *)

\* The kept positions are counted off without a gap.
LEMMA Counted ==
  ASSUME NEW m \in Nat, NEW kept \in SUBSET (1..m)
  PROVE  /\ Cardinality(kept) \in Nat
         /\ \A i \in kept : Cardinality({j \in kept : j <= i}) \in 1..Cardinality(kept)
         /\ \A i, k \in kept :
              Cardinality({j \in kept : j <= i}) = Cardinality({j \in kept : j <= k}) => i = k
         /\ \A n \in 1..Cardinality(kept) :
              \E i \in kept : Cardinality({j \in kept : j <= i}) = n
<1> DEFINE upTo(i) == {j \in kept : j <= i}
           f == [i \in kept |-> Cardinality(upTo(i))]
           n == Cardinality(kept)
<1>1. IsFiniteSet(kept) /\ n \in Nat
  <2>1. IsFiniteSet(1..m)
    BY FS_Interval
  <2> QED
    BY <2>1, FS_Subset, FS_CardinalityType
<1>2. ASSUME NEW i \in kept
      PROVE  /\ IsFiniteSet(upTo(i)) /\ Cardinality(upTo(i)) \in Nat
             /\ Cardinality(upTo(i)) <= n /\ Cardinality(upTo(i)) # 0
  <2>1. upTo(i) \in SUBSET kept /\ upTo(i) # {}
    OBVIOUS
  <2>2. IsFiniteSet(upTo(i)) /\ Cardinality(upTo(i)) <= n
    BY <1>1, <2>1, FS_Subset
  <2> HIDE DEF upTo, n
  <2> QED
    BY <2>1, <2>2, FS_CardinalityType, FS_EmptySet
<1>3. ASSUME NEW i \in kept, NEW k \in kept, i < k PROVE f[i] # f[k]
  <2>1. upTo(i) \in SUBSET upTo(k) /\ k \in upTo(k) /\ k \notin upTo(i)
    <3>1. i \in Nat /\ k \in Nat /\ i < k
      BY <1>3
    <3>2. \A j \in Nat : j <= i => j <= k
      BY <3>1
    <3>3. \A j \in kept : j \in Nat
      OBVIOUS
    <3>4. k <= k /\ ~(k <= i)
      BY <3>1
    <3> QED
      BY <3>2, <3>3, <3>4
  <2>2. Cardinality(upTo(k)) = Cardinality(upTo(i)) => upTo(k) = upTo(i)
    BY <1>2, <2>1, FS_Subset
  <2> QED
    BY <2>1, <2>2
<1>4. f \in [kept -> 1..n]
  <2>1. ASSUME NEW i \in kept PROVE f[i] \in 1..n
    BY <1>1, <1>2
  <2> QED
    BY <2>1
<1>5. \A i, k \in kept : f[i] = f[k] => i = k
  BY <1>3
<1>6. f \in Injection(kept, 1..n)
  BY <1>4, <1>5 DEF Injection, IsInjective
<1>7. IsFiniteSet(1..n) /\ Cardinality(1..n) = n
  BY <1>1, FS_Interval
<1>8. f \in Surjection(kept, 1..n)
  <2> HIDE DEF f, n
  <2>1. Cardinality(kept) = n
    BY DEF n
  <2> QED
    BY <1>6, <1>7, <2>1, FS_Injection
<1>9. \A k \in 1..n : \E i \in kept : f[i] = k
  BY <1>8 DEF Surjection
<1> QED
  BY <1>1, <1>4, <1>5, <1>9

\* Keep returns the elements that are in S, and no others.
LEMMA KeepElements ==
  ASSUME NEW T, NEW s \in Seq(T), NEW S
  PROVE  Keep(s, S) \in Seq(T) /\ Range(Keep(s, S)) = Range(s) \cap S
<1> DEFINE kept   == {i \in DOMAIN s : s[i] \in S}
           c(i)   == Cardinality({j \in kept : j <= i})
           nth(k) == CHOOSE i \in kept : c(i) = k
           n      == Cardinality(kept)
<1>1. kept \in SUBSET (1..Len(s)) /\ Len(s) \in Nat
  OBVIOUS
<1>2. /\ n \in Nat /\ \A i \in kept : c(i) \in 1..n
      /\ \A i, k \in kept : c(i) = c(k) => i = k
      /\ \A k \in 1..n : \E i \in kept : c(i) = k
  <2> HIDE DEF kept
  <2> QED
    BY <1>1, Counted
<1>3. ASSUME NEW k \in 1..n PROVE nth(k) \in kept /\ c(nth(k)) = k
  <2> HIDE DEF kept, c, n
  <2> QED
    BY <1>2
<1>4. Keep(s, S) = [k \in 1..n |-> s[nth(k)]]
  BY DEF Keep
<1>5. ASSUME NEW k \in 1..n PROVE s[nth(k)] \in T \cap S
  <2>1. nth(k) \in kept
    BY <1>3
  <2>2. \A i \in kept : s[i] \in T \cap S
    OBVIOUS
  <2> HIDE DEF kept, nth
  <2> QED
    BY <2>1, <2>2
<1>6. Keep(s, S) \in Seq(T) /\ DOMAIN Keep(s, S) = 1..n
  <2> HIDE DEF kept, c, n, nth
  <2> QED
    BY <1>2, <1>4, <1>5
<1>7. ASSUME NEW i \in kept PROVE c(i) \in 1..n /\ Keep(s, S)[c(i)] = s[i]
  <2>1. c(i) \in 1..n
    BY <1>2
  <2>2. nth(c(i)) \in kept /\ c(nth(c(i))) = c(i)
    <3> HIDE DEF kept, c, n, nth
    <3> QED
      BY <1>3, <2>1
  <2>3. nth(c(i)) = i
    <3> HIDE DEF kept, c, n, nth
    <3> QED
      BY <1>2, <2>2
  <2> HIDE DEF kept, c, n, nth
  <2> QED
    BY <1>4, <2>1, <2>3
<1>8. ASSUME NEW x PROVE x \in Range(Keep(s, S)) <=> x \in Range(s) \cap S
  <2>1. ASSUME x \in Range(Keep(s, S)) PROVE x \in Range(s) \cap S
    <3>1. PICK k \in 1..n : x = s[nth(k)]
      <4> HIDE DEF kept, c, n, nth
      <4> QED
        BY <1>4, <2>1 DEF Range
    <3> QED
      BY <1>3, <3>1 DEF Range
  <2>2. ASSUME x \in Range(s) \cap S PROVE x \in Range(Keep(s, S))
    <3>1. PICK i \in kept : x = s[i]
      BY <2>2 DEF Range
    <3> HIDE DEF kept, c, n, nth
    <3> QED
      BY <1>6, <1>7, <3>1 DEF Range
  <2> QED
    BY <2>1, <2>2
<1> QED
  BY <1>6, <1>8

\* Each kept element comes from a position of its own.
LEMMA KeepPositions ==
  ASSUME NEW T, NEW s \in Seq(T), NEW S
  PROVE  /\ Len(Keep(s, S)) \in Nat /\ Len(Keep(s, S)) <= Len(s)
         /\ \E f \in [DOMAIN Keep(s, S) -> DOMAIN s] :
              \A i, j \in DOMAIN Keep(s, S) :
                Keep(s, S)[i] = s[f[i]] /\ (f[i] = f[j] => i = j)
<1> DEFINE kept   == {i \in DOMAIN s : s[i] \in S}
           c(i)   == Cardinality({j \in kept : j <= i})
           nth(k) == CHOOSE i \in kept : c(i) = k
           n      == Cardinality(kept)
           f      == [k \in 1..n |-> nth(k)]
<1>1. kept \in SUBSET (1..Len(s)) /\ Len(s) \in Nat /\ kept \subseteq DOMAIN s
  OBVIOUS
<1>2. n \in Nat /\ \A k \in 1..n : \E i \in kept : c(i) = k
  <2> HIDE DEF kept
  <2> QED
    BY <1>1, Counted
<1>3. n <= Len(s)
  <2>1. IsFiniteSet(1..Len(s)) /\ Cardinality(1..Len(s)) = Len(s)
    BY <1>1, FS_Interval
  <2> HIDE DEF kept
  <2> QED
    BY <1>1, <2>1, FS_Subset
<1>4. \A k \in 1..n : nth(k) \in kept /\ c(nth(k)) = k
  <2> HIDE DEF kept, c, n
  <2> QED
    BY <1>2
<1>5. Keep(s, S) = [k \in 1..n |-> s[nth(k)]]
  BY DEF Keep
<1> HIDE DEF kept, c, n, nth
<1>6. DOMAIN Keep(s, S) = 1..n
  BY <1>5
<1>7. Len(Keep(s, S)) = n
  <2>1. Keep(s, S) \in Seq(T)
    BY KeepElements
  <2>2. DOMAIN Keep(s, S) = 1..Len(Keep(s, S)) /\ Len(Keep(s, S)) \in Nat
    BY <2>1
  <2> QED
    BY <1>2, <1>6, <2>2
<1>8. f \in [1..n -> DOMAIN s]
  BY <1>1, <1>4
<1>9. \A i, j \in 1..n : Keep(s, S)[i] = s[f[i]] /\ (f[i] = f[j] => i = j)
  <2> SUFFICES ASSUME NEW i \in 1..n, NEW j \in 1..n
               PROVE  Keep(s, S)[i] = s[f[i]] /\ (f[i] = f[j] => i = j)
    OBVIOUS
  <2>1. f[i] = nth(i) /\ f[j] = nth(j)
    OBVIOUS
  <2>2. c(nth(i)) = i /\ c(nth(j)) = j
    BY <1>4
  <2> QED
    BY <1>5, <2>1, <2>2
<1>10. Len(Keep(s, S)) \in Nat /\ Len(Keep(s, S)) <= Len(s)
  BY <1>2, <1>3, <1>7
<1>11. f \in [DOMAIN Keep(s, S) -> DOMAIN s]
       /\ \A i, j \in DOMAIN Keep(s, S) : Keep(s, S)[i] = s[f[i]] /\ (f[i] = f[j] => i = j)
  BY <1>6, <1>8, <1>9
<1> HIDE DEF f
<1> QED
  BY <1>10, <1>11

-----------------------------------------------------------------------------
(* Sums of weights.                                                        *)

Rows(K, V) == [key : K, value : V, weight : Nat]
Distinct(s) == \A i, j \in DOMAIN s : s[i].key = s[j].key => i = j

LEMMA UnitsFinite ==
  ASSUME NEW K, NEW V, NEW s \in Seq(Rows(K, V))
  PROVE  IsFiniteSet(Units(s)) /\ Weights(s) \in Nat
<1> DEFINE unit(i) == {s[i].key} \X (1..s[i].weight)
           f == [i \in DOMAIN s |-> unit(i)]
           T == {unit(i) : i \in DOMAIN s}
<1>1. IsFiniteSet(DOMAIN s)
  <2>1. DOMAIN s = 1..Len(s) /\ Len(s) \in Nat
    OBVIOUS
  <2> QED
    BY <2>1, FS_Interval
<1>2. f \in Surjection(DOMAIN s, T)
  BY DEF Surjection
<1>3. IsFiniteSet(T)
  <2> HIDE DEF f, T
  <2> QED
    BY <1>1, <1>2, FS_Surjection
<1>4. \A u \in T : IsFiniteSet(u)
  <2> SUFFICES ASSUME NEW i \in DOMAIN s PROVE IsFiniteSet(unit(i))
    OBVIOUS
  <2>1. PICK r \in Rows(K, V) : r = s[i]
    OBVIOUS
  <2>2. r.weight \in Nat
    BY DEF Rows
  <2>3. IsFiniteSet(1..r.weight) /\ IsFiniteSet({r.key})
    <3>1. \A n \in Nat : IsFiniteSet(1..n)
      BY FS_Interval
    <3> QED
      BY <2>2, <3>1, FS_Singleton
  <2> QED
    BY <2>1, <2>3, FS_Product
<1>5. IsFiniteSet(UNION T)
  <2> HIDE DEF T
  <2> QED
    BY <1>3, <1>4, FS_UNION
<1> QED
  BY <1>5, FS_CardinalityType DEF Units, Weights

\* A cache split in two is as heavy as its halves together.
LEMMA SplitWeights ==
  ASSUME NEW K, NEW V, NEW s \in Seq(Rows(K, V)), NEW t \in Seq(Rows(K, V)),
         NEW u \in Seq(Rows(K, V)), Distinct(s),
         Range(s) = Range(t) \cup Range(u), Range(t) \cap Range(u) = {}
  PROVE  Weights(s) = Weights(t) + Weights(u)
<1>1. \A x \in {s, t, u} : Units(x) = UNION {{r.key} \X (1..r.weight) : r \in Range(x)}
  BY DEF Units, Range
<1>2. Units(s) = Units(t) \cup Units(u)
  BY <1>1
<1>3. \A q, r \in Range(s) : q.key = r.key => q = r
  BY DEF Distinct, Range
<1>4. Units(t) \cap Units(u) = {}
  <2> SUFFICES ASSUME NEW x \in Units(t), x \in Units(u) PROVE FALSE
    OBVIOUS
  <2>1. PICK q \in Range(t) : x \in {q.key} \X (1..q.weight)
    BY <1>1
  <2>2. PICK r \in Range(u) : x \in {r.key} \X (1..r.weight)
    BY <1>1
  <2>3. q.key = r.key
    BY <2>1, <2>2
  <2> QED
    BY <1>3, <2>3
<1>5. /\ IsFiniteSet(Units(t)) /\ IsFiniteSet(Units(u))
      /\ Weights(t) \in Nat /\ Weights(u) \in Nat
  BY UnitsFinite
<1>6. Cardinality(Units(t) \cup Units(u))
        = Cardinality(Units(t)) + Cardinality(Units(u)) - Cardinality(Units(t) \cap Units(u))
  BY <1>5, FS_Union
<1>7. Cardinality(Units(t) \cap Units(u)) = 0
  BY <1>4, FS_EmptySet
<1> QED
  BY <1>2, <1>5, <1>6, <1>7 DEF Weights

LEMMA NoWeight == Weights(<<>>) = 0
<1>1. Units(<<>>) = {}
  BY DEF Units
<1> QED
  BY <1>1, FS_EmptySet DEF Weights

LEMMA OneWeight ==
  ASSUME NEW K, NEW V, NEW r \in Rows(K, V)
  PROVE  Weights(<<r>>) = r.weight
<1> DEFINE n == r.weight
           f == [i \in 1..n |-> <<r.key, i>>]
<1>1. n \in Nat
  BY DEF Rows
<1>2. Units(<<r>>) = {r.key} \X (1..n)
  BY DEF Units
<1>3. f \in Bijection(1..n, {r.key} \X (1..n))
  <2>1. f \in [1..n -> {r.key} \X (1..n)]
    OBVIOUS
  <2>2. \A i, j \in 1..n : f[i] = f[j] => i = j
    OBVIOUS
  <2>3. \A x \in {r.key} \X (1..n) : \E i \in 1..n : f[i] = x
    OBVIOUS
  <2> HIDE DEF f, n
  <2> QED
    BY <2>1, <2>2, <2>3 DEF Bijection, Injection, Surjection, IsInjective
<1>4. IsFiniteSet(1..n) /\ Cardinality(1..n) = n
  <2> HIDE DEF n
  <2> QED
    BY <1>1, FS_Interval
<1>5. Cardinality({r.key} \X (1..n)) = n
  <2> HIDE DEF f, n
  <2>1. ExistsBijection(1..n, {r.key} \X (1..n))
    BY <1>3 DEF ExistsBijection
  <2> QED
    BY <1>4, <2>1, FS_Bijection
<1> QED
  BY <1>2, <1>5 DEF Weights

LEMMA AppendWeights ==
  ASSUME NEW K, NEW V, NEW s \in Seq(Rows(K, V)), NEW r \in Rows(K, V), Distinct(s),
         \A i \in DOMAIN s : s[i].key # r.key
  PROVE  /\ Append(s, r) \in Seq(Rows(K, V)) /\ Distinct(Append(s, r))
         /\ Range(Append(s, r)) = Range(s) \cup {r}
         /\ Weights(Append(s, r)) = Weights(s) + r.weight
<1> DEFINE t == Append(s, r)
<1>1. /\ t \in Seq(Rows(K, V)) /\ Len(t) = Len(s) + 1 /\ t[Len(s) + 1] = r
      /\ DOMAIN s = 1..Len(s) /\ DOMAIN t = 1..(Len(s) + 1) /\ Len(s) \in Nat
      /\ \A i \in 1..Len(s) : t[i] = s[i]
  OBVIOUS
<1> HIDE DEF t
<1>2. \A i \in DOMAIN t : (i \in DOMAIN s /\ t[i] = s[i]) \/ (i = Len(s) + 1 /\ t[i] = r)
  <2>1. \A n \in Nat : \A i \in 1..(n + 1) : i \in 1..n \/ i = n + 1
    OBVIOUS
  <2> QED
    BY <1>1, <2>1
<1>3. Distinct(t)
  BY <1>1, <1>2 DEF Distinct
<1>4. Range(t) = Range(s) \cup {r}
  <2>1. \A x : x \in Range(t) => x \in Range(s) \cup {r}
    BY <1>2 DEF Range
  <2>2. \A i \in DOMAIN s : i \in DOMAIN t /\ t[i] = s[i]
    BY <1>1
  <2>3. Len(s) + 1 \in DOMAIN t /\ t[Len(s) + 1] = r
    BY <1>1
  <2>4. \A x : x \in Range(s) \cup {r} => x \in Range(t)
    BY <2>2, <2>3 DEF Range
  <2> QED
    BY <2>1, <2>4
<1>5. <<r>> \in Seq(Rows(K, V)) /\ Range(<<r>>) = {r}
  BY DEF Range
<1>6. Range(s) \cap {r} = {}
  BY DEF Range
<1>7. Weights(t) = Weights(s) + Weights(<<r>>)
  <2>1. PICK u \in Seq(Rows(K, V)) : u = <<r>>
    BY <1>5
  <2>2. Range(t) = Range(s) \cup Range(u) /\ Range(s) \cap Range(u) = {}
    BY <1>4, <1>5, <1>6, <2>1
  <2>3. t \in Seq(Rows(K, V))
    BY <1>1
  <2>4. Weights(t) = Weights(s) + Weights(u)
    BY <1>3, <2>2, <2>3, SplitWeights
  <2> QED
    BY <2>1, <2>4
<1> QED
  BY <1>1, <1>3, <1>4, <1>7, OneWeight DEF t

-----------------------------------------------------------------------------
(* The cache.                                                              *)

\* A cache whose stored total is exact, whatever its limits.
Exact(c, K, V) ==
  /\ c \in [items : Seq(Rows(K, V)), total : Nat]
  /\ Distinct(c.items) /\ c.total = Weights(c.items)

LEMMA EmptyExact ==
  ASSUME NEW K, NEW V, MaxEntries \in Nat, MaxWeight \in Nat
  PROVE  Exact(Empty, K, V) /\ WithinLimits(Empty)
<1>1. Empty.items = <<>> /\ Empty.total = 0 /\ Len(<<>>) = 0 /\ <<>> \in Seq(Rows(K, V))
  BY DEF Empty
<1> QED
  BY <1>1, NoWeight DEF Exact, Distinct, WithinLimits, Empty

LEMMA KeepDistinct ==
  ASSUME NEW K, NEW V, NEW s \in Seq(Rows(K, V)), NEW S, Distinct(s)
  PROVE  /\ Keep(s, S) \in Seq(Rows(K, V)) /\ Distinct(Keep(s, S))
         /\ Range(Keep(s, S)) = Range(s) \cap S
         /\ Len(Keep(s, S)) \in Nat /\ Len(Keep(s, S)) <= Len(s)
<1>1. PICK f \in [DOMAIN Keep(s, S) -> DOMAIN s] :
        \A i, j \in DOMAIN Keep(s, S) : Keep(s, S)[i] = s[f[i]] /\ (f[i] = f[j] => i = j)
  BY KeepPositions
<1>2. Distinct(Keep(s, S))
  BY <1>1 DEF Distinct
<1> QED
  BY <1>2, KeepElements, KeepPositions

\* What is retained, and that the total gives up what is not.
LEMMA RetainExact ==
  ASSUME NEW K, NEW V, NEW c, Exact(c, K, V), NEW keys
  PROVE  /\ Exact(Retain(c, keys), K, V)
         /\ Range(Retain(c, keys).items) = {r \in Range(c.items) : r.key \in keys}
         /\ Len(Retain(c, keys).items) <= Len(c.items) /\ Retain(c, keys).total <= c.total
<1> DEFINE kept == {r \in Range(c.items) : r.key \in keys}
           t == Keep(c.items, kept)
           u == Keep(c.items, Range(c.items) \ kept)
<1>1. c.items \in Seq(Rows(K, V)) /\ c.total \in Nat /\ Distinct(c.items) /\ c.total = Weights(c.items)
  BY DEF Exact
<1>2. kept \subseteq Range(c.items)
  OBVIOUS
<1>3. Retain(c, keys) = [items |-> t, total |-> Saturating(c.total - Weights(u))]
  BY DEF Retain
<1> HIDE DEF kept
<1>4. t \in Seq(Rows(K, V)) /\ Distinct(t) /\ Range(t) = kept /\ Len(t) <= Len(c.items)
  <2>1. Range(t) = Range(c.items) \cap kept
    BY <1>1, KeepDistinct
  <2> QED
    BY <1>1, <1>2, <2>1, KeepDistinct
<1>5. u \in Seq(Rows(K, V)) /\ Range(u) = Range(c.items) \ kept
  <2>1. Range(u) = Range(c.items) \cap (Range(c.items) \ kept)
    BY <1>1, KeepDistinct
  <2> QED
    BY <1>1, <2>1, KeepDistinct
<1> HIDE DEF t, u
<1>6. Weights(c.items) = Weights(t) + Weights(u)
  <2>1. Range(c.items) = Range(t) \cup Range(u) /\ Range(t) \cap Range(u) = {}
    BY <1>2, <1>4, <1>5
  <2>2. PICK s \in Seq(Rows(K, V)) : s = c.items
    BY <1>1
  <2>3. Distinct(s) /\ Range(s) = Range(t) \cup Range(u) /\ Range(t) \cap Range(u) = {}
    BY <1>1, <2>1, <2>2
  <2>4. Weights(s) = Weights(t) + Weights(u)
    BY <1>4, <1>5, <2>3, SplitWeights
  <2> QED
    BY <2>2, <2>4
<1>7. Weights(t) \in Nat /\ Weights(u) \in Nat
  BY <1>4, <1>5, UnitsFinite
<1>8. Saturating(c.total - Weights(u)) = Weights(t) /\ Weights(t) <= c.total
  BY <1>1, <1>6, <1>7 DEF Saturating
<1>9. Retain(c, keys).items = t /\ Retain(c, keys).total = Weights(t)
      /\ Retain(c, keys) \in [items : Seq(Rows(K, V)), total : Nat]
  BY <1>3, <1>4, <1>7, <1>8
<1> QED
  BY <1>4, <1>8, <1>9 DEF Exact, kept

LEMMA RetainKeepsLimits ==
  ASSUME NEW K, NEW V, NEW c, Exact(c, K, V), WithinLimits(c), NEW keys,
         MaxEntries \in Nat, MaxWeight \in Nat
  PROVE  WithinLimits(Retain(c, keys))
<1>1. /\ Exact(Retain(c, keys), K, V)
      /\ Len(Retain(c, keys).items) <= Len(c.items) /\ Retain(c, keys).total <= c.total
  BY RetainExact
<1>2. \A d : Exact(d, K, V) => d.items \in Seq(Rows(K, V)) /\ d.total \in Nat
               /\ Distinct(d.items) /\ d.total = Weights(d.items)
  BY DEF Exact
<1>3. \A d : d.items \in Seq(Rows(K, V)) => Len(d.items) \in Nat
  OBVIOUS
<1>4. Len(Retain(c, keys).items) <= MaxEntries /\ Retain(c, keys).total <= MaxWeight
  BY <1>1, <1>2, <1>3 DEF WithinLimits
<1> QED
  BY <1>1, <1>2, <1>4 DEF WithinLimits, Distinct

\* An access moves an entry and loses none.
LEMMA TouchExact ==
  ASSUME NEW K, NEW V, NEW c, Exact(c, K, V), NEW k
  PROVE  /\ Exact(Touch(c, k), K, V)
         /\ Range(Touch(c, k).items) = Range(c.items)
         /\ WithinLimits(c) => WithinLimits(Touch(c, k))
<1>1. c \in [items : Seq(Rows(K, V)), total : Nat] /\ Distinct(c.items) /\ c.total = Weights(c.items)
  BY DEF Exact
<1>2. CASE ~Has(c, k)
  BY <1>2 DEF Touch
<1>3. CASE Has(c, k)
  <2> DEFINE r == Record(c, k)
             rest == RemoveKey(c, k).items
             t == Append(rest, r)
  <2>1. r \in Range(c.items) /\ r.key = k /\ r \in Rows(K, V)
    <3>1. \E i \in DOMAIN c.items : c.items[i].key = k
      BY <1>3 DEF Has, Keys
    <3>2. PICK i \in DOMAIN c.items : r = c.items[i] /\ c.items[i].key = k
      BY <3>1 DEF Record
    <3> QED
      BY <1>1, <3>2 DEF Range
  <2>2. /\ Exact(RemoveKey(c, k), K, V)
        /\ Range(rest) = {q \in Range(c.items) : q.key \in Keys(c) \ {k}}
    BY RetainExact DEF RemoveKey
  <2>3. rest \in Seq(Rows(K, V)) /\ Distinct(rest)
    BY <2>2 DEF Exact
  <2>4. \A i \in DOMAIN rest : rest[i].key # r.key
    <3>1. \A i \in DOMAIN rest : rest[i] \in Range(rest)
      BY DEF Range
    <3> QED
      BY <2>1, <2>2, <3>1
  <2>5. Touch(c, k) = [c EXCEPT !.items = t]
    BY <1>3 DEF Touch
  <2> HIDE DEF r, rest
  <2>6. t \in Seq(Rows(K, V)) /\ Distinct(t) /\ Range(t) = Range(rest) \cup {r}
    BY <2>1, <2>3, <2>4, AppendWeights
  <2>7. Range(t) = Range(c.items)
    <3>1. \A q \in Range(c.items) : q.key \in Keys(c)
      BY DEF Keys, Range
    <3>2. \A q \in Range(c.items) : q.key = k => q = r
      BY <1>1, <2>1 DEF Distinct, Range
    <3> QED
      BY <2>1, <2>2, <2>6, <3>1, <3>2
  <2> HIDE DEF t
  <2>8. Weights(t) = c.total /\ Len(t) = Len(c.items)
    <3>1. PICK s \in Seq(Rows(K, V)) : s = c.items
      BY <1>1
    <3>2. Range(<<>>) = {} /\ <<>> \in Seq(Rows(K, V))
      BY DEF Range
    <3>3. Weights(t) = Weights(s) + Weights(<<>>)
      <4>1. PICK e \in Seq(Rows(K, V)) : e = <<>>
        BY <3>2
      <4>2. Range(t) = Range(s) \cup Range(e) /\ Range(s) \cap Range(e) = {}
        BY <2>7, <3>1, <3>2, <4>1
      <4>3. Weights(t) = Weights(s) + Weights(e)
        BY <2>6, <4>2, SplitWeights
      <4> QED
        BY <4>1, <4>3
    <3>4. Weights(t) = c.total
      BY <1>1, <3>1, <3>3, NoWeight
    <3>5. Len(t) = Len(s)
      <4> DEFINE f == [i \in DOMAIN t |-> CHOOSE j \in DOMAIN s : s[j] = t[i]]
                 g == [i \in DOMAIN s |-> CHOOSE j \in DOMAIN t : t[j] = s[i]]
      <4>1. /\ DOMAIN t = 1..Len(t) /\ Len(t) \in Nat
            /\ DOMAIN s = 1..Len(s) /\ Len(s) \in Nat
        BY <2>6, <3>1
      <4>2. \A i \in DOMAIN t : \E j \in DOMAIN s : s[j] = t[i]
        BY <2>7, <3>1 DEF Range
      <4>3. \A i \in DOMAIN s : \E j \in DOMAIN t : t[j] = s[i]
        BY <2>7, <3>1 DEF Range
      <4>4. \A i \in DOMAIN t : f[i] \in DOMAIN s /\ s[f[i]] = t[i]
        BY <4>2
      <4>5. \A i \in DOMAIN s : g[i] \in DOMAIN t /\ t[g[i]] = s[i]
        BY <4>3
      <4>6. f \in Injection(DOMAIN t, DOMAIN s)
        <5>1. f \in [DOMAIN t -> DOMAIN s]
          BY <4>4
        <5>2. \A i, j \in DOMAIN t : f[i] = f[j] => i = j
          BY <2>6, <4>4 DEF Distinct
        <5> HIDE DEF f
        <5> QED
          BY <5>1, <5>2 DEF Injection, IsInjective
      <4>7. g \in Injection(DOMAIN s, DOMAIN t)
        <5>1. g \in [DOMAIN s -> DOMAIN t]
          BY <4>5
        <5>2. \A i, j \in DOMAIN s : g[i] = g[j] => i = j
          BY <1>1, <3>1, <4>5 DEF Distinct
        <5> HIDE DEF g
        <5> QED
          BY <5>1, <5>2 DEF Injection, IsInjective
      <4>8. /\ IsFiniteSet(DOMAIN t) /\ Cardinality(DOMAIN t) = Len(t)
            /\ IsFiniteSet(DOMAIN s) /\ Cardinality(DOMAIN s) = Len(s)
        <5>1. \A n \in Nat : IsFiniteSet(1..n) /\ Cardinality(1..n) = n
          BY FS_Interval
        <5> QED
          BY <4>1, <5>1
      <4> HIDE DEF f, g
      <4>9. Len(t) <= Len(s) /\ Len(s) <= Len(t)
        BY <4>6, <4>7, <4>8, FS_Injection
      <4>10. Len(t) \in Nat /\ Len(s) \in Nat
        BY <4>1
      <4> QED
        BY <4>9, <4>10
    <3> QED
      BY <3>1, <3>4, <3>5
  <2>9. Touch(c, k).items = t /\ Touch(c, k).total = c.total
        /\ Touch(c, k) \in [items : Seq(Rows(K, V)), total : Nat]
    BY <1>1, <2>5, <2>6
  <2> QED
    BY <2>6, <2>7, <2>8, <2>9 DEF Exact, WithinLimits, Distinct
<1> QED
  BY <1>2, <1>3

\* Other values under the same keys.
LEMMA RevalueExact ==
  ASSUME NEW K, NEW V, NEW c, Exact(c, K, V), NEW t \in Seq(Rows(K, V)),
         DOMAIN t = DOMAIN c.items,
         \A i \in DOMAIN t : t[i].key = c.items[i].key /\ t[i].weight = c.items[i].weight
  PROVE  LET d == [c EXCEPT !.items = t] IN
           Exact(d, K, V) /\ (WithinLimits(c) => WithinLimits(d))
<1> DEFINE d == [c EXCEPT !.items = t]
<1>1. PICK s \in Seq(Rows(K, V)) : s = c.items
  BY DEF Exact
<1>2. c \in [items : Seq(Rows(K, V)), total : Nat] /\ Distinct(s) /\ c.total = Weights(s)
  BY <1>1 DEF Exact
<1>3. d \in [items : Seq(Rows(K, V)), total : Nat] /\ d.items = t /\ d.total = c.total
  BY <1>2
<1>4. Units(t) = Units(s)
  BY <1>1 DEF Units
<1>5. Distinct(t)
  BY <1>1, <1>2 DEF Distinct
<1>6. Len(t) = Len(s)
  BY <1>1
<1> HIDE DEF d
<1>7. Exact(d, K, V)
  BY <1>2, <1>3, <1>4, <1>5 DEF Exact, Weights
<1>8. WithinLimits(c) => WithinLimits(d)
  BY <1>1, <1>2, <1>3, <1>4, <1>5, <1>6 DEF WithinLimits, Weights, Distinct
<1> QED
  BY <1>7, <1>8 DEF d

\* The oldest entries dropped, the total is that of the others.
LEMMA DropExact ==
  ASSUME NEW K, NEW V, NEW c, Exact(c, K, V), NEW n \in 0..Len(c.items)
  PROVE  /\ Exact(Dropped(c, n), K, V)
         /\ Len(Dropped(c, n).items) = Len(c.items) - n
         /\ Range(Dropped(c, n).items) \subseteq Range(c.items)
         /\ n < Len(c.items) => c.items[Len(c.items)] \in Range(Dropped(c, n).items)
<1>1. PICK s \in Seq(Rows(K, V)) : s = c.items
  BY DEF Exact
<1>2. c.total = Weights(s) /\ Weights(s) \in Nat /\ Distinct(s)
  BY <1>1, UnitsFinite DEF Exact
<1>3. PICK m \in Nat : m = Len(s)
  OBVIOUS
<1>4. n \in Nat /\ n <= m /\ DOMAIN s = 1..m
  BY <1>1, <1>3
<1> DEFINE t == SubSeq(s, n + 1, m)
           u == SubSeq(s, 1, n)
<1>5. /\ t \in Seq(Rows(K, V)) /\ Len(t) = m - n
      /\ \A i \in 1..(m - n) : t[i] = s[n + i]
  <2>1. \A i \in (n + 1)..m : s[i] \in Rows(K, V)
    <3>1. \A i \in (n + 1)..m : i \in DOMAIN s
      BY <1>4
    <3> QED
      BY <3>1
  <2>2. /\ t \in Seq(Rows(K, V))
        /\ Len(t) = IF n + 1 <= m THEN m - (n + 1) + 1 ELSE 0
        /\ \A i \in 1..(m - (n + 1) + 1) : t[i] = s[(n + 1) + i - 1]
    BY <1>4, <2>1, SubSeqProperties
  <2>3. Len(t) = m - n
    BY <1>4, <2>2
  <2>4. ASSUME NEW i \in 1..(m - n) PROVE t[i] = s[n + i]
    <3>1. i \in 1..(m - (n + 1) + 1) /\ (n + 1) + i - 1 = n + i
      BY <1>4
    <3> HIDE DEF t
    <3> QED
      BY <2>2, <3>1
  <2> QED
    BY <2>2, <2>3, <2>4
<1>6. u \in Seq(Rows(K, V)) /\ Len(u) = n /\ \A i \in 1..n : u[i] = s[i]
  <2>1. \A i \in 1..n : s[i] \in Rows(K, V)
    <3>1. \A i \in 1..n : i \in DOMAIN s
      BY <1>4
    <3> QED
      BY <3>1
  <2>2. /\ u \in Seq(Rows(K, V)) /\ Len(u) = IF 1 <= n THEN n - 1 + 1 ELSE 0
        /\ \A i \in 1..(n - 1 + 1) : u[i] = s[1 + i - 1]
    BY <1>4, <2>1, SubSeqProperties
  <2>3. Len(u) = n
    BY <1>4, <2>2
  <2>4. ASSUME NEW i \in 1..n PROVE u[i] = s[i]
    <3>1. i \in 1..(n - 1 + 1) /\ 1 + i - 1 = i
      BY <1>4
    <3> HIDE DEF u
    <3> QED
      BY <2>2, <3>1
  <2> QED
    BY <2>2, <2>3, <2>4
<1>7. Dropped(c, n) = [items |-> t, total |-> Saturating(c.total - Weights(u))]
  BY <1>1, <1>3 DEF Dropped
<1> HIDE DEF t, u
<1>8. DOMAIN t = 1..(m - n) /\ DOMAIN u = 1..n
  BY <1>5, <1>6
<1>9. \A i \in DOMAIN t : n + i \in DOMAIN s /\ t[i] = s[n + i]
  <2>1. \A i \in 1..(m - n) : n + i \in 1..m
    BY <1>4
  <2> QED
    BY <1>4, <1>5, <1>8, <2>1
<1>10. \A i \in DOMAIN u : i \in DOMAIN s /\ u[i] = s[i]
  <2>1. \A i \in 1..n : i \in 1..m
    BY <1>4
  <2> QED
    BY <1>4, <1>6, <1>8, <2>1
<1>11. Distinct(t)
  <2> SUFFICES ASSUME NEW i \in DOMAIN t, NEW j \in DOMAIN t, t[i].key = t[j].key PROVE i = j
    BY DEF Distinct
  <2>1. n + i = n + j
    BY <1>2, <1>9 DEF Distinct
  <2>2. i \in Int /\ j \in Int
    BY <1>8
  <2> QED
    BY <1>4, <2>1, <2>2
<1>12. Range(s) = Range(u) \cup Range(t)
  <2>1. \A i \in 1..m : i \in 1..n \/ (i - n \in 1..(m - n) /\ n + (i - n) = i)
    BY <1>4
  <2>2. \A i \in DOMAIN s : s[i] \in Range(u) \/ s[i] \in Range(t)
    BY <1>4, <1>8, <1>9, <1>10, <2>1 DEF Range
  <2> QED
    BY <1>9, <1>10, <2>2 DEF Range
<1>13. Range(u) \cap Range(t) = {}
  <2> SUFFICES ASSUME NEW i \in DOMAIN u, NEW j \in DOMAIN t, u[i] = t[j] PROVE FALSE
    BY DEF Range
  <2>1. i = n + j
    BY <1>2, <1>9, <1>10 DEF Distinct
  <2>2. i \in 1..n /\ j \in 1..(m - n)
    BY <1>8
  <2> QED
    BY <1>4, <2>1, <2>2
<1>14. Weights(s) = Weights(u) + Weights(t) /\ Weights(u) \in Nat /\ Weights(t) \in Nat
  BY <1>2, <1>5, <1>6, <1>12, <1>13, SplitWeights, UnitsFinite
<1>15. Saturating(c.total - Weights(u)) = Weights(t)
  BY <1>2, <1>14 DEF Saturating
<1>16. Dropped(c, n).items = t /\ Dropped(c, n).total = Weights(t)
       /\ Dropped(c, n) \in [items : Seq(Rows(K, V)), total : Nat]
  BY <1>5, <1>7, <1>14, <1>15
<1>17. n < m => s[m] \in Range(t)
  <2> SUFFICES ASSUME n < m PROVE s[m] \in Range(t)
    OBVIOUS
  <2>1. m - n \in 1..(m - n) /\ n + (m - n) = m
    BY <1>4
  <2> QED
    BY <1>8, <1>9, <2>1 DEF Range
<1> QED
  BY <1>1, <1>3, <1>5, <1>11, <1>12, <1>16, <1>17 DEF Exact

\* Eviction ends within the limits, and spares the newest entry if it fits.
LEMMA EvictExact ==
  ASSUME NEW K, NEW V, NEW c, Exact(c, K, V), MaxEntries \in Nat, MaxWeight \in Nat
  PROVE  /\ Exact(Evict(c), K, V) /\ WithinLimits(Evict(c))
         /\ Range(Evict(c).items) \subseteq Range(c.items)
         /\ (c.items # <<>> /\ MaxEntries >= 1 /\ c.items[Len(c.items)].weight <= MaxWeight)
              => c.items[Len(c.items)] \in Range(Evict(c).items)
<1> DEFINE fits(n) == Len(c.items) - n <= MaxEntries /\ Dropped(c, n).total <= MaxWeight
           enough == {n \in 0..Len(c.items) : fits(n) \/ n = Len(c.items)}
           least == CHOOSE n \in enough : \A m \in enough : n <= m
<1>1. PICK len \in Nat : len = Len(c.items)
  BY DEF Exact
<1>2. \A n \in 0..len :
        /\ Exact(Dropped(c, n), K, V) /\ Len(Dropped(c, n).items) = len - n
        /\ Range(Dropped(c, n).items) \subseteq Range(c.items)
        /\ n < len => c.items[len] \in Range(Dropped(c, n).items)
  <2> TAKE n \in 0..len
  <2>1. n \in 0..Len(c.items)
    BY <1>1
  <2>2. /\ Exact(Dropped(c, n), K, V)
        /\ Len(Dropped(c, n).items) = Len(c.items) - n
        /\ Range(Dropped(c, n).items) \subseteq Range(c.items)
        /\ n < Len(c.items) => c.items[Len(c.items)] \in Range(Dropped(c, n).items)
    BY <2>1, DropExact
  <2> QED
    BY <1>1, <2>2
<1>3. fits(len)
  <2>1. len \in 0..len /\ len - len = 0
    BY <1>1
  <2>2. Exact(Dropped(c, len), K, V) /\ Len(Dropped(c, len).items) = 0
    BY <1>2, <2>1
  <2>3. Dropped(c, len).items = <<>>
    BY <2>2 DEF Exact
  <2>4. Dropped(c, len).total = 0
    BY <2>2, <2>3, NoWeight DEF Exact
  <2> QED
    BY <1>1, <2>1, <2>4
<1>4. least \in enough /\ \A m \in enough : least <= m
  <2>1. enough \subseteq Nat /\ len \in enough
    BY <1>1
  <2>2. \E n \in enough : \A m \in enough : n <= m
    <3> DEFINE R == OpToRel(<, Nat)
    <3>1. \E n \in enough : \A m \in enough : <<m, n>> \notin R
      <4> HIDE DEF enough, R
      <4> QED
        BY <2>1, WFMin, NatLessThanWellFounded DEF R
    <3>2. PICK n \in enough : \A m \in enough : <<m, n>> \notin R
      BY <3>1
    <3> HIDE DEF enough
    <3>3. \A m \in enough : ~(m < n)
      BY <2>1, <3>2 DEF OpToRel
    <3>4. n \in enough
      BY <3>2
    <3> HIDE DEF R
    <3>5. \A m \in enough : n <= m
      BY <2>1, <3>3, <3>4
    <3> QED
      BY <3>4, <3>5
  <2> HIDE DEF enough
  <2> QED
    BY <2>2
<1>5. Evict(c) = Dropped(c, least)
  BY DEF Evict
<1>6. least \in 0..len /\ fits(least)
  BY <1>1, <1>3, <1>4
<1>7. /\ Exact(Evict(c), K, V) /\ Len(Evict(c).items) = len - least
      /\ Range(Evict(c).items) \subseteq Range(c.items)
      /\ least < len => c.items[len] \in Range(Evict(c).items)
  <2> HIDE DEF least
  <2> QED
    BY <1>2, <1>5, <1>6
<1>8. WithinLimits(Evict(c))
  <2>1. len - least <= MaxEntries /\ Evict(c).total <= MaxWeight
    BY <1>1, <1>5, <1>6
  <2> QED
    BY <1>7, <2>1 DEF WithinLimits, Exact, Distinct
<1>9. ASSUME c.items # <<>>, MaxEntries >= 1, c.items[Len(c.items)].weight <= MaxWeight
      PROVE  c.items[Len(c.items)] \in Range(Evict(c).items)
  <2>1. len >= 1
    BY <1>1, <1>9 DEF Exact
  <2>2. PICK n \in 0..len : n = len - 1
    <3>1. len - 1 \in 0..len
      BY <1>1, <2>1
    <3> QED
      BY <3>1
  <2>3. /\ Exact(Dropped(c, n), K, V) /\ Len(Dropped(c, n).items) = 1
        /\ c.items[len] \in Range(Dropped(c, n).items)
    <3>1. len - n = 1 /\ n < len
      BY <1>1, <2>2
    <3> QED
      BY <1>2, <3>1
  <2>4. PICK r \in Rows(K, V) : Dropped(c, n).items = <<r>>
    <3>1. PICK t \in Seq(Rows(K, V)) : t = Dropped(c, n).items
      BY <1>2, <2>2 DEF Exact
    <3>2. Len(t) = 1
      BY <2>3, <3>1
    <3>3. t[1] \in Rows(K, V)
      BY <3>2
    <3>4. t = <<t[1]>>
      BY <3>2, <3>3
    <3> QED
      BY <3>1, <3>3, <3>4
  <2>5. r = c.items[len]
    BY <2>3, <2>4 DEF Range
  <2>6. Dropped(c, n).total = r.weight
    BY <2>3, <2>4, OneWeight DEF Exact
  <2>7. fits(n)
    <3>1. Len(c.items) - n <= MaxEntries
      BY <1>1, <1>9, <2>2
    <3> QED
      BY <1>1, <1>9, <2>5, <2>6, <3>1
  <2>8. n \in enough
    BY <1>1, <2>7
  <2>9. least <= n
    <3> HIDE DEF enough, least
    <3> QED
      BY <1>4, <2>8
  <2>10. least < len
    <3> HIDE DEF least
    <3> QED
      BY <1>1, <1>6, <2>2, <2>9
  <2> QED
    BY <1>1, <1>7, <2>10
<1> QED
  BY <1>7, <1>8, <1>9

\* An insert replaces the entry of its key, keeps both limits, and is kept itself
\* if it fits at all.
THEOREM InsertExact ==
  ASSUME NEW K, NEW V, NEW c, Exact(c, K, V), NEW k \in K, NEW v \in V, NEW w \in Nat,
         MaxEntries \in Nat, MaxWeight \in Nat
  PROVE  /\ Exact(Insert(c, k, v, w), K, V) /\ WithinLimits(Insert(c, k, v, w))
         /\ Range(Insert(c, k, v, w).items) \subseteq
              {r \in Range(c.items) : r.key # k} \cup {[key |-> k, value |-> v, weight |-> w]}
         /\ (MaxEntries >= 1 /\ w <= MaxWeight) =>
              [key |-> k, value |-> v, weight |-> w] \in Range(Insert(c, k, v, w).items)
<1> DEFINE rest == RemoveKey(c, k)
           row == [key |-> k, value |-> v, weight |-> w]
           t == Append(rest.items, row)
           d == [items |-> t, total |-> rest.total + w]
<1>1. row \in Rows(K, V) /\ row.key = k /\ row.weight = w
  BY DEF Rows
<1>2. /\ Exact(rest, K, V)
      /\ Range(rest.items) = {r \in Range(c.items) : r.key \in Keys(c) \ {k}}
  BY RetainExact DEF RemoveKey
<1>3. rest.items \in Seq(Rows(K, V)) /\ rest.total \in Nat /\ Distinct(rest.items)
      /\ rest.total = Weights(rest.items)
  BY <1>2 DEF Exact
<1>4. \A i \in DOMAIN rest.items : rest.items[i].key # row.key
  <2>1. \A i \in DOMAIN rest.items : rest.items[i] \in Range(rest.items)
    BY DEF Range
  <2> QED
    BY <1>1, <1>2, <2>1
<1> HIDE DEF rest, row
<1>5. /\ t \in Seq(Rows(K, V)) /\ Distinct(t) /\ Range(t) = Range(rest.items) \cup {row}
      /\ Weights(t) = Weights(rest.items) + row.weight
  BY <1>1, <1>3, <1>4, AppendWeights
<1>6. t # <<>> /\ t[Len(t)] = row
  BY <1>1, <1>3
<1> HIDE DEF t
<1>7. d.items = t /\ d.total = Weights(t) /\ d \in [items : Seq(Rows(K, V)), total : Nat]
  BY <1>1, <1>3, <1>5
<1>8. Exact(d, K, V)
  BY <1>5, <1>7 DEF Exact
<1>9. Insert(c, k, v, w) = Evict(d)
  BY DEF Insert, rest, row, t
<1> HIDE DEF d
<1>10. /\ Exact(Evict(d), K, V) /\ WithinLimits(Evict(d))
       /\ Range(Evict(d).items) \subseteq Range(d.items)
       /\ (d.items # <<>> /\ MaxEntries >= 1 /\ d.items[Len(d.items)].weight <= MaxWeight)
            => d.items[Len(d.items)] \in Range(Evict(d).items)
  BY <1>8, EvictExact
<1>11. MaxEntries >= 1 /\ w <= MaxWeight => row \in Range(Evict(d).items)
  BY <1>1, <1>6, <1>7, <1>10
<1>12. Range(Evict(d).items) \subseteq {r \in Range(c.items) : r.key # k} \cup {row}
  BY <1>2, <1>5, <1>7, <1>10
<1> QED
  BY <1>9, <1>10, <1>11, <1>12 DEF row
=============================================================================
