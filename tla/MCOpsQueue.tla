----------------------------- MODULE MCOpsQueue -----------------------------
(* Instances of OpsQueue for TLC.                                          *)
EXTENDS OpsQueue, TLC

CONSTANTS o1, o2, o3, v1, v2, v3

\* Two operations on one volume; three that overlap in a chain.
OneVolume    == [o \in Ops |-> {v1}]
Chain        == o1 :> {v1} @@ o2 :> {v1, v2} @@ o3 :> {v2}

AllCopies      == [o \in Ops |-> "copy"]
AllMoves       == [o \in Ops |-> "move"]
AllDeletes     == [o \in Ops |-> "delete"]
CopyAndMove    == [o \in Ops |-> IF o = o1 THEN "copy" ELSE "move"]
ArchiveDelete  == [o \in Ops |-> IF o = o1 THEN "archive" ELSE "delete"]

\* Sound where the operations have the same volumes, kinds and inputs.
OpSymmetry == Permutations(Ops)
=============================================================================
