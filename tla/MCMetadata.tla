------------------------------ MODULE MCMetadata ------------------------------
(* The three services that describe a listing's entries, and the Trash, which  *)
(* describes its own, checked in one run: "active" chooses at first the one    *)
(* that runs, the others rest. What they share, the executor and the           *)
(* coordinator, appears in each as what it may answer.                         *)
EXTENDS ItemCounts, Thumbnails, SizeService, Trash

EachView == {<<"p">>, <<"q">>}

\* Two files of one name, alike in their metadata: both at home, or one afar.
OneName == [p \in {"home/f", "home/d/f", "far/f"} |-> "f"]
AllAlike == [i \in Items |-> "same"]
At2(first, second) == [i \in Items |-> IF i = "one" THEN first ELSE second]
FirstPlaces == At2("home/f", "home/d/f")
TwoPlaces == {FirstPlaces, At2("home/f", "far/f")}
SomeBatches == {<<"home/f">>, <<"home/d/f", "home/f">>, <<"far/f", "home/f">>}
SomeNames == {<<"f">>, <<"f", "f 2">>}

-----------------------------------------------------------------------------
VARIABLE active

MetadataInit ==
  /\ active \in {"counts", "thumbnails", "sizes", "trash"}
  /\ CountInit /\ ThumbInit /\ SizeInit /\ TrashInit
  /\ active # "trash" => place = FirstPlaces

MetadataNext ==
  \/ active = "counts" /\ CountNext
       /\ UNCHANGED <<active, thumbVars, sizeVars, trashVars>>
  \/ active = "thumbnails" /\ ThumbNext
       /\ UNCHANGED <<active, countVars, sizeVars, trashVars>>
  \/ active = "sizes" /\ SizeNext
       /\ UNCHANGED <<active, countVars, thumbVars, trashVars>>
  \/ active = "trash" /\ TrashNext
       /\ UNCHANGED <<active, countVars, thumbVars, sizeVars>>

metadataVars == <<active, countVars, thumbVars, sizeVars, trashVars>>
MetadataSpec == MetadataInit /\ [][MetadataNext]_metadataVars
=============================================================================
