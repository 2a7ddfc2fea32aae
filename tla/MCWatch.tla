------------------------------- MODULE MCWatch -------------------------------
(* The watch of one tab, the counts of the watches of all tabs, and the native *)
(* context menu, which do not call each other, checked in one run: "active"    *)
(* chooses at first the one that runs, the others rest.  Two children of one   *)
(* directory; two tabs of one pane and one of the other on two directories;    *)
(* two menus and two warm-ups, two of one type.                                *)
EXTENDS WatchTabs, WatchRefs, NativeMenu, TLC

CONSTANTS a, b

NameSymmetry == Permutations(Names)
PaneOfTab == [t \in {"l1", "l2", "r"} |-> IF t = "r" THEN "right" ELSE "left"]
TypeOfMenu == [m \in {"m1", "m2", "w1", "w2"} |-> IF m = "m2" THEN "zip" ELSE "txt"]

-----------------------------------------------------------------------------
VARIABLE active

MCInit ==
  /\ active \in {"tab", "counts", "menu"} /\ Init /\ RefInit /\ MenuInit
  /\ active # "tab" => disk = Empty

MCNext ==
  \/ active = "tab" /\ Next /\ UNCHANGED <<active, refVars, menuVars>>
  \/ active = "counts" /\ RefNext /\ UNCHANGED <<active, vars, menuVars>>
  \/ active = "menu" /\ MenuNext /\ UNCHANGED <<active, vars, refVars>>

MCSpec == MCInit /\ [][MCNext]_<<active, vars, refVars, menuVars>>
=============================================================================
