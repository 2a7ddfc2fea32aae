-------------------------------- MODULE Filter --------------------------------
(* Vec::retain and its like, by positions rather than by recursion. *)
EXTENDS Naturals, Sequences, FiniteSets

\* The elements of s that are in S, in the order in which s has them.
Keep(s, S) ==
  LET kept   == {i \in DOMAIN s : s[i] \in S}
      nth(k) == CHOOSE i \in kept : Cardinality({j \in kept : j <= i}) = k
  IN  [k \in 1..Cardinality(kept) |-> s[nth(k)]]
=============================================================================
