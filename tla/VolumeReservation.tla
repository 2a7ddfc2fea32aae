-------------------------- MODULE VolumeReservation --------------------------
(***************************************************************************)
(* What the operation queue promises about volumes, and nothing else: an   *)
(* all-or-nothing lock table.  A holder takes everything it needs in one   *)
(* step or waits, two holders never need the same thing, and a holder      *)
(* gives everything back in one step.                                      *)
(***************************************************************************)
CONSTANTS Holders, Needs
VARIABLE holders

Init == holders = {}

\* One scheduling pass may serve several holders at once.
Acquire(S) ==
  /\ S # {} /\ S \cap holders = {}
  /\ \A a \in S, b \in S \cup holders : a # b => Needs[a] \cap Needs[b] = {}
  /\ holders' = holders \cup S

Release(h) == h \in holders /\ holders' = holders \ {h}

Next ==
  \/ \E S \in SUBSET Holders : Acquire(S)
  \/ \E h \in Holders : Release(h)

Spec == Init /\ [][Next]_holders
=============================================================================
