------------------------------ MODULE MCListing ------------------------------
(* One pane on one folder of two entries, navigated to twice while the folder *)
(* changes, is folded, sorted and paged through, one row to a page; and the   *)
(* reconciliation when the window gains focus, with four focus events.  In    *)
(* one run: "active" chooses at first the one that runs, the other rests.     *)
EXTENDS ListingSession, FocusReconcile

TwoViews == {[by |-> "name", hides |-> {1}], [by |-> "version", hides |-> {}]}
BothThere == {<<1, 1>>}

-----------------------------------------------------------------------------
VARIABLE active

PaneInit == active \in {"listing", "focus"} /\ ListInit /\ FocusInit

PaneNext ==
  \/ active = "listing" /\ ListNext /\ UNCHANGED <<active, focusVars>>
  \/ active = "focus" /\ FocusNext /\ UNCHANGED <<active, listVars>>

PaneSpec == PaneInit /\ [][PaneNext]_<<active, listVars, focusVars>>
=============================================================================
