------------------------------ MODULE Admission ------------------------------
(***************************************************************************)
(* What the resource coordinator promises its callers: a job reserves all  *)
(* its classes and keys in one step, only when they fit, and gives them    *)
(* back in one step.                                                       *)
(***************************************************************************)
EXTENDS Naturals, FiniteSets

CONSTANTS Jobs, Classes, KeyedClasses, ClassesOf, KeysOf, Cap
VARIABLE reserved

InClass(J, c) == {j \in J : c \in ClassesOf[j]}

\* J keeps every class within its cap and never gives one key to two jobs of
\* the same keyed class.
Fits(J) ==
  /\ \A c \in Classes : Cardinality(InClass(J, c)) <= Cap[c]
  /\ \A a, b \in J : a # b /\ ClassesOf[a] \cap ClassesOf[b] \cap KeyedClasses # {}
       => KeysOf[a] \cap KeysOf[b] = {}

Init == reserved = {}

Reserve(j) ==
  /\ j \notin reserved /\ Fits(reserved \cup {j})
  /\ reserved' = reserved \cup {j}

Free(j) == j \in reserved /\ reserved' = reserved \ {j}

FreeAll == reserved' = {}

Next == FreeAll \/ \E j \in Jobs : Reserve(j) \/ Free(j)

Spec == Init /\ [][Next]_reserved
=============================================================================
