------------------------------ MODULE WatchRefs ------------------------------
(***************************************************************************)
(* The watches of all tabs (WatchService::set_tab_watch, add_watch and     *)
(* remove_watch of watch/mod.rs).  Tabs of a directory share one watch of  *)
(* the OS by a count; a pane watches one tab at a time.  A call holds the  *)
(* service's lock throughout and returns at the first watch the OS refuses *)
(* to set or to give up, with the counts changed so far.                   *)
(***************************************************************************)
EXTENDS Naturals, FiniteSets

CONSTANTS
  WatchPanes,    \* pane_scope of the tabs
  WatchTabIds,   \* tabs
  PaneOf,        \* tab -> pane
  WatchedDirs,   \* directories
  MaxRefusals    \* bound: how often the OS refuses

Unwatched == "unwatched"

ASSUME RefAssumption ==
  /\ IsFiniteSet(WatchTabIds) /\ PaneOf \in [WatchTabIds -> WatchPanes]
  /\ Unwatched \notin WatchedDirs /\ MaxRefusals \in Nat

VARIABLES
  tabDir,     \* WatchRuntime.tabs: tab -> directory
  refs,       \* watch_counts: directory -> count; the OS watches where it is not 0
  refusals    \* history: how often a watch could not be given up

refVars == <<tabDir, refs, refusals>>

RefInit ==
  /\ tabDir = [t \in WatchTabIds |-> Unwatched] /\ refs = [d \in WatchedDirs |-> 0]
  /\ refusals = 0

Showing(tabs, d) == Cardinality({u \in tabs : tabDir[u] = d})

\* Mutant: one watch less however many tabs share it.
DropAll(counts, gone) ==
  [d \in WatchedDirs |-> IF Showing(gone, d) > 0 THEN 0 ELSE counts[d]]

\* remove_watch for the directory of every tab of gone.
DropRefs(counts, gone) ==
  [d \in WatchedDirs |->
     IF counts[d] > Showing(gone, d) THEN counts[d] - Showing(gone, d) ELSE 0]

\* The watches of the tabs are given up in turn, own first, the others in any
\* order; the last one of a directory is the OS's to give up, and when it refuses
\* the call ends there.
Give(counts, own, others, table) ==
  \E gone \in SUBSET (own \cup others) :
    /\ gone \subseteq own \/ own \subseteq gone
    /\ refs' = DropRefs(counts, gone)
    /\ \/ gone = own \cup others /\ tabDir' = table /\ UNCHANGED refusals
       \/ /\ refusals < MaxRefusals /\ refusals' = refusals + 1 /\ UNCHANGED tabDir
          /\ \E u \in (own \cup others) \ gone :
               refs'[tabDir[u]] = 1 /\ (own \subseteq gone \/ u \in own)

Watched == {t \in WatchTabIds : tabDir[t] # Unwatched}

\* When the OS refuses the new watch, nothing has changed: no step.
SetTabWatch(t, d) ==
  LET stale == {u \in Watched \ {t} : PaneOf[u] = PaneOf[t]}
      moves == tabDir[t] # d
      own   == IF moves THEN Watched \cap {t} ELSE {}
  IN  Give([refs EXCEPT ![d] = IF moves THEN @ + 1 ELSE @], own, stale,
           [u \in WatchTabIds |-> IF u = t THEN d
                                  ELSE IF u \in stale THEN Unwatched ELSE tabDir[u]])

\* set_tab_watch without a target.
Disarm ==
  /\ Watched # {} /\ Give(refs, {}, Watched, [t \in WatchTabIds |-> Unwatched])

RefNext == Disarm \/ \E t \in WatchTabIds, d \in WatchedDirs : SetTabWatch(t, d)

-----------------------------------------------------------------------------
(* Properties.                                                             *)

\* Every directory is counted once for each tab that shows it, so that no tab
\* that is left takes the watch from under another and none stays for nobody;
\* as long as the OS gave up every watch it was asked to.
CountsAreTabs ==
  refusals = 0 =>
    \A d \in WatchedDirs : refs[d] = Cardinality({t \in WatchTabIds : tabDir[t] = d})

\* A pane watches one tab, also after a call that ended halfway.
OneTabPerPane ==
  \A p \in WatchPanes : Cardinality({t \in Watched : PaneOf[t] = p}) <= 1

RefInv == CountsAreTabs /\ OneTabPerPane
=============================================================================
