---------------------------- MODULE BoundedCache ----------------------------
(***************************************************************************)
(* The LRU storage that the metadata services share (bounded_cache.rs):    *)
(* an entry limit, a weight limit, and a stored total of the weights.      *)
(*                                                                         *)
(* The clock that stamps every access is the position in a sequence: the   *)
(* entries are kept in the order of their last access, oldest first.       *)
(***************************************************************************)
EXTENDS Integers, Sequences, FiniteSets, Functions, Filter

CONSTANTS MaxEntries, MaxWeight     \* limits of one cache

Empty == [items |-> <<>>, total |-> 0]

Keys(c) == {c.items[i].key : i \in DOMAIN c.items}
Has(c, k) == k \in Keys(c)
Record(c, k) == c.items[CHOOSE i \in DOMAIN c.items : c.items[i].key = k]
Value(c, k) == Record(c, k).value

Saturating(n) == IF n < 0 THEN 0 ELSE n

\* The sum of the weights, as the number of the units that the keys weigh.
Units(items) == UNION {{items[i].key} \X (1..items[i].weight) : i \in DOMAIN items}
Weights(items) == Cardinality(Units(items))

\* The entries of some keys stay, and the total gives up the others.
Retain(c, keys) ==
  LET kept == {r \in Range(c.items) : r.key \in keys}
  IN [items |-> Keep(c.items, kept),
      total |-> Saturating(c.total - Weights(Keep(c.items, Range(c.items) \ kept)))]

RemoveKey(c, k) == Retain(c, Keys(c) \ {k})

\* A hit moves the entry to the recent end; a miss changes nothing but the clock.
Touch(c, k) ==
  IF Has(c, k) THEN [c EXCEPT !.items = Append(RemoveKey(c, k).items, Record(c, k))]
  ELSE c

Dropped(c, n) ==
  [items |-> SubSeq(c.items, n + 1, Len(c.items)),
   total |-> Saturating(c.total - Weights(SubSeq(c.items, 1, n)))]

\* The least recently used go until both limits hold.
Evict(c) ==
  LET fits(n) == Len(c.items) - n <= MaxEntries /\ Dropped(c, n).total <= MaxWeight
      enough == {n \in 0..Len(c.items) : fits(n) \/ n = Len(c.items)}
  IN Dropped(c, CHOOSE n \in enough : \A m \in enough : n <= m)

Insert(c, k, v, w) ==
  LET rest == RemoveKey(c, k)
  IN Evict([items |-> Append(rest.items, [key |-> k, value |-> v, weight |-> w]),
            total |-> rest.total + w])

-----------------------------------------------------------------------------
\* The stored total is the sum of the weights that are there, both limits hold,
\* and no key is there twice.
WithinLimits(c) ==
  /\ c.total = Weights(c.items)
  /\ Len(c.items) <= MaxEntries /\ c.total <= MaxWeight
  /\ \A i, j \in DOMAIN c.items : c.items[i].key = c.items[j].key => i = j
=============================================================================
