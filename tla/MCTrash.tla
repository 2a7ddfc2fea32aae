------------------------------- MODULE MCTrash -------------------------------
(* Trash for TLC: one batch of two files of one name, copies of each other, the *)
(* first on another volume than the home Trash.                                  *)
EXTENDS Trash

OneName == [p \in {"home/f", "far/f"} |-> "f"]
AllAlike == [i \in Items |-> "same"]
HomeAndFar == {[i \in Items |-> IF i = "one" THEN "home/f" ELSE "far/f"]}
FarFirst == {<<"far/f", "home/f">>}
=============================================================================
