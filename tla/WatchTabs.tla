------------------------------ MODULE WatchTabs ------------------------------
(***************************************************************************)
(* One watched tab (watch/mod.rs, watch/coordinator.rs): the OS reports    *)
(* mutations of its directory through a bounded lane to the compactor      *)
(* thread, which re-reads what was touched, replaces the tab's snapshot    *)
(* and sends the difference to the directory session that is shown.  A     *)
(* focus event compares the whole directory (FocusReconcile); a new        *)
(* listing replaces the session and then arms the watch anew.              *)
(***************************************************************************)
EXTENDS FocusReconcile, Sequences, FiniteSets

CONSTANTS
  Names,        \* direct children of the directory
  MaxMutations, \* bound: changes of the directory, the first before the start
  RawCap,       \* RAW_LANE_CAPACITY
  MaxPending,   \* MAX_PENDING_MUTATIONS_PER_WATCH
  MaxWatches,   \* bound: times the tab is armed
  Inputs        \* what may happen: see AllInputs

AllInputs == {"drop", "unresolved", "fail", "relist", "focus"}

ASSUME WatchAssumption ==
  /\ MaxMutations \in Nat \ {0} /\ RawCap \in Nat \ {0} /\ MaxPending \in Nat
  /\ MaxWatches \in Nat \ {0} /\ Inputs \subseteq AllInputs

WatchIds == 1..MaxWatches

\* An entry is the number of the mutation that wrote it; 0 when there is none.
Snapshots == [Names -> 0..MaxMutations]
Empty     == [n \in Names |-> 0]
Kinds     == {"changed", "removed", "unresolved"}
Events    == [name : Names, kind : Kinds]
Mutations == [watch : WatchIds, name : Names, kind : Kinds]
Untouched == [changed |-> {}, removed |-> {}, unresolved |-> FALSE]
Touched   ==
  [changed : SUBSET Names, removed : SUBSET Names, unresolved : BOOLEAN]

\* The compactor's batch: where its processing is, what it still has to read,
\* the tab's snapshot it started from and the one it makes.
Idle == [stage |-> "none", watch |-> 1, dirty |-> FALSE, left |-> {},
         removed |-> {}, prev |-> Empty, next |-> Empty]
Batches ==
  [stage : {"none", "find", "read", "emit"}, watch : WatchIds, dirty : BOOLEAN,
   left : SUBSET Names, removed : SUBSET Names,
   prev : Snapshots, next : Snapshots]

VARIABLES
  disk,      \* what is in the directory
  mutations, \* how often it changed
  reported,  \* events the OS has yet to deliver, in order
  raw,       \* the raw lane
  overflow,  \* OverflowTracker.dirty
  pend,      \* PendingWatchState of every watch id
  batch,     \* the batch the compactor thread works on
  watch,     \* WatchedTab.watch_id
  base,      \* WatchedTab.snapshot
  shown,     \* the session's snapshot
  arming,    \* a new listing on its way: "none", "listed" or "seeded"
  seed,      \* the baseline set_tab_watch has read
  locked,    \* reconcile_tabs holds the lock of the tabs
  listing,   \* what it has read
  lost       \* history: base may have missed a mutation for good

tab      == <<watch, base, shown>>
rearming == <<arming, seed>>
focusing == <<locked, listing, focusVars>>
lane     == <<reported, raw, overflow>>
world    == <<disk, mutations>>
vars == <<world, lane, pend, batch, tab, rearming, focusing, lost>>

WatchTypeOK ==
  /\ FocusTypeOK
  /\ disk \in Snapshots /\ mutations \in 1..MaxMutations
  /\ reported \in Seq(Events) /\ raw \in Seq(Mutations) /\ Len(raw) <= RawCap
  /\ overflow \subseteq WatchIds /\ pend \in [WatchIds -> Touched]
  /\ batch \in Batches
  /\ watch \in WatchIds /\ base \in Snapshots /\ shown \in Snapshots
  /\ arming \in {"none", "listed", "seeded"} /\ seed \in Snapshots
  /\ locked \in BOOLEAN /\ listing \in Snapshots /\ lost \in BOOLEAN

Init ==
  /\ FocusInit
  /\ disk \in [Names -> {0, 1}] /\ mutations = 1
  /\ reported = <<>> /\ raw = <<>> /\ overflow = {}
  /\ pend = [i \in WatchIds |-> Untouched] /\ batch = Idle
  /\ watch = 1 /\ base = disk /\ shown = disk
  /\ arming = "none" /\ seed = Empty
  /\ locked = FALSE /\ listing = Empty /\ lost = FALSE

-----------------------------------------------------------------------------
(* The directory and the OS watcher.                                       *)

\* Reported precisely, or as an event that does not identify the child.
Report(n, kind) ==
  \E k \in {kind} \cup (Inputs \cap {"unresolved"}) :
    reported' = Append(reported, [name |-> n, kind |-> k])

Mutate(n) ==
  /\ mutations < MaxMutations /\ mutations' = mutations + 1
  /\ \/ disk' = [disk EXCEPT ![n] = mutations + 1] /\ Report(n, "changed")
     \/ /\ disk[n] # 0
        /\ disk' = [disk EXCEPT ![n] = 0] /\ Report(n, "removed")
  /\ UNCHANGED <<raw, overflow, pend, batch, tab, rearming, focusing, lost>>

\* The OS loses an event.
DropEvent ==
  /\ "drop" \in Inputs /\ reported # <<>>
  /\ reported' = Tail(reported) /\ lost' = TRUE
  /\ UNCHANGED <<world, raw, overflow, pend, batch, tab, rearming, focusing>>

\* What does not fit is dropped and its watch marked.
Push(m) ==
  IF Len(raw) < RawCap THEN raw' = Append(raw, m) /\ UNCHANGED overflow
  ELSE overflow' = overflow \cup {m.watch} /\ UNCHANGED raw

\* An older removal of the child will come after the listing of the overflow.
Outdated(e) ==
  /\ Len(raw) = RawCap /\ e.kind # "removed"
  /\ \E k \in DOMAIN raw : raw[k] = [watch |-> watch, name |-> e.name, kind |-> "removed"]

\* The callback looks the registration up under the lock, then pushes.
Deliver ==
  /\ reported # <<>> /\ ~locked
  /\ reported' = Tail(reported)
  /\ Push([watch |-> watch, name |-> Head(reported).name,
           kind |-> Head(reported).kind])
  /\ lost' = (lost \/ Outdated(Head(reported)))
  /\ UNCHANGED <<world, pend, batch, tab, rearming, focusing>>

-----------------------------------------------------------------------------
(* The compactor thread.                                                   *)

Working(stage) == batch.stage = stage

TakeOverflow(i) ==
  /\ Working("none") /\ i \in overflow
  /\ overflow' = overflow \ {i}
  /\ pend' = [pend EXCEPT ![i] = Untouched]
  /\ batch' = [Idle EXCEPT !.stage = "find", !.watch = i, !.dirty = TRUE]
  /\ UNCHANGED <<world, reported, raw, tab, rearming, focusing, lost>>

\* The last of the lane's mutations of a child that says what became of it.
LastSays(i, n, kind) ==
  \E k \in DOMAIN raw :
    /\ raw[k] = [watch |-> i, name |-> n, kind |-> kind]
    /\ \A l \in DOMAIN raw : l > k /\ raw[l].watch = i /\ raw[l].name = n
                              => raw[l].kind \in {kind, "unresolved"}

\* Everything the lane holds is recorded, in order.
Record(i) ==
  LET says(kind) == {n \in Names : LastSays(i, n, kind)}
  IN  [changed    |-> (pend[i].changed \ says("removed")) \cup says("changed"),
       removed    |-> (pend[i].removed \ says("changed")) \cup says("removed"),
       unresolved |-> pend[i].unresolved \/ \E k \in DOMAIN raw :
                        raw[k].watch = i /\ raw[k].kind = "unresolved"]
Drain ==
  /\ Working("none") /\ raw # <<>>
  /\ raw' = <<>> /\ pend' = [i \in WatchIds |-> Record(i)]
  /\ UNCHANGED <<world, reported, overflow, batch, tab, rearming, focusing, lost>>

\* The quiet window or the maximum age has passed: time is left to chance.
Flush(i) ==
  /\ Working("none") /\ pend[i] # Untouched
  /\ pend' = [pend EXCEPT ![i] = Untouched]
  /\ LET p == pend[i] IN batch' =
       [Idle EXCEPT !.stage = "find", !.watch = i,
          !.dirty = p.unresolved \/ Cardinality(p.changed) + Cardinality(p.removed) > MaxPending,
          !.left = p.changed, !.removed = p.removed]
  /\ UNCHANGED <<world, lane, tab, rearming, focusing, lost>>

\* process_compacted_batch: the tab is cloned by its watch id, the lock let go;
\* a dirty batch lists the whole directory, another removes without a look.
Find ==
  /\ Working("find") /\ ~locked
  /\ batch' = IF batch.watch # watch THEN Idle
              ELSE [batch EXCEPT !.stage = "read", !.prev = base,
                      !.left = IF batch.dirty THEN Names ELSE @,
                      !.next = [n \in Names |->
                                  IF batch.dirty \/ n \in batch.removed THEN 0 ELSE base[n]]]
  /\ UNCHANGED <<world, lane, pend, tab, rearming, focusing, lost>>

\* A child is read; when that fails, the whole batch is given up.
Read(n) ==
  /\ Working("read") /\ n \in batch.left
  /\ batch' = [batch EXCEPT !.left = @ \ {n}, !.next[n] = disk[n]]
  /\ UNCHANGED <<world, lane, pend, tab, rearming, focusing, lost>>
ReadFails ==
  /\ "fail" \in Inputs /\ Working("read") /\ batch.left # {}
  /\ batch' = Idle /\ lost' = TRUE
  /\ UNCHANGED <<world, lane, pend, tab, rearming, focusing>>

\* Mutant: the tab is not looked up again.
StoreUnchecked ==
  /\ Working("read") /\ batch.left = {} /\ ~locked
  /\ base' = batch.next
  /\ batch' = IF batch.next = batch.prev THEN Idle ELSE [batch EXCEPT !.stage = "emit"]
  /\ UNCHANGED <<world, lane, pend, watch, shown, rearming, focusing, lost>>

\* The new snapshot replaces whatever the tab has by now.
Store ==
  /\ Working("read") /\ batch.left = {} /\ ~locked
  /\ IF batch.watch # watch THEN batch' = Idle /\ UNCHANGED base
     ELSE /\ base' = batch.next
          /\ batch' = IF batch.next = batch.prev THEN Idle
                      ELSE [batch EXCEPT !.stage = "emit"]
  /\ UNCHANGED <<world, lane, pend, watch, shown, rearming, focusing, lost>>

\* Mutant: what the new snapshot no longer has is not reported.
PatchedKeeping(s, prev, next) ==
  [n \in Names |-> IF next[n] \notin {0, prev[n]} THEN next[n] ELSE s[n]]

\* diff_entries and apply_watch_mutation.
Patched(s, prev, next) == [n \in Names |-> IF next[n] # prev[n] THEN next[n] ELSE s[n]]

\* The patch is sent when the lock is free again.
Emit ==
  /\ Working("emit") /\ batch' = Idle
  /\ shown' = Patched(shown, batch.prev, batch.next)
  /\ UNCHANGED <<world, lane, pend, watch, base, rearming, focusing, lost>>

-----------------------------------------------------------------------------
(* Focus: FocusReconcile's worker runs reconcile_tabs as its comparison.   *)

\* Nothing is on its way to the tab.
AtRest ==
  /\ reported = <<>> /\ raw = <<>> /\ overflow = {}
  /\ \A i \in WatchIds : pend[i] = Untouched
  /\ batch.stage = "none" /\ arming = "none"

ReconcileList(t) ==
  /\ worker[t] = "working" /\ ~locked
  /\ locked' = TRUE /\ listing' = disk
  /\ lost' = (lost /\ ~AtRest)
  /\ UNCHANGED <<world, lane, pend, batch, tab, rearming, focusVars>>

\* The patch is sent under the lock.
ReconcileStore(t) ==
  /\ locked /\ Work(t) /\ locked' = FALSE
  /\ base' = listing /\ shown' = Patched(shown, base, listing)
  /\ UNCHANGED <<world, lane, pend, batch, watch, rearming, listing, lost>>

ReconcileFails(t) ==
  /\ "fail" \in Inputs /\ ~locked /\ Work(t)
  /\ UNCHANGED <<world, lane, pend, batch, tab, rearming, locked, listing, lost>>

Focus ==
  /\ "focus" \in Inputs
  /\ Bump \/ Spawn \/ \E t \in Workers : Drains(t)
  /\ UNCHANGED <<world, lane, pend, batch, tab, rearming, locked, listing, lost>>

-----------------------------------------------------------------------------
(* A new listing of the same directory: the session is replaced; then      *)
(* set_tab_watch reads a baseline of its own and arms the tab anew.        *)

Relist ==
  /\ "relist" \in Inputs /\ arming = "none" /\ watch < MaxWatches
  /\ shown' = disk /\ arming' = "listed"
  /\ UNCHANGED <<world, lane, pend, batch, watch, base, seed, focusing, lost>>

ReadSeed ==
  /\ arming = "listed" /\ arming' = "seeded" /\ seed' = disk
  /\ UNCHANGED <<world, lane, pend, batch, tab, focusing, lost>>

\* What changed since is noticed only if its event is still to come: events that
\* came meanwhile bear the old id.
Arm ==
  /\ arming = "seeded" /\ ~locked /\ arming' = "none"
  /\ watch' = watch + 1 /\ base' = seed
  /\ lost' = (lost \/ \E n \in Names : seed[n] # disk[n]
                        /\ \A k \in DOMAIN reported : reported[k].name # n)
  /\ UNCHANGED <<world, lane, pend, batch, shown, seed, focusing>>

-----------------------------------------------------------------------------
Compactor ==
  \/ Drain \/ Find \/ ReadFails \/ Store \/ Emit
  \/ \E i \in WatchIds : TakeOverflow(i) \/ Flush(i)
  \/ \E n \in Names : Read(n)

Reconciler ==
  \E t \in Workers : ReconcileList(t) \/ ReconcileStore(t) \/ ReconcileFails(t)

Next ==
  \/ \E n \in Names : Mutate(n)
  \/ DropEvent \/ Deliver \/ Compactor
  \/ Focus \/ Reconciler
  \/ Relist \/ ReadSeed \/ Arm

Spec == Init /\ [][Next]_vars

-----------------------------------------------------------------------------
(* Properties.                                                             *)

Quiet == AtRest /\ ~locked

\* At rest the tab's snapshot is the directory, unless one of four things lost a
\* mutation - the OS, a failed read, a change between set_tab_watch's baseline and
\* its arming, an overflow that an older removal in the lane outlives - and no
\* comparison has started since with nothing on its way: a batch that has cloned
\* the tab, or a late removal, stores over what was compared.  Compaction, batches
\* beside comparisons, and every other overflow lose nothing.
SnapshotIsDisk == Quiet /\ ~lost => base = disk

WatchInv == WatchTypeOK /\ SnapshotIsDisk

\* As long as only the compactor publishes, what is shown is the snapshot: no
\* patch is lost or applied out of order.
ShownIsSnapshot ==
  Quiet /\ gen = 0 /\ watch = 1 => shown = base

-----------------------------------------------------------------------------
(* What comments say and the code does not do.                             *)

\* An overflow replaces a watch's pending batch by "one authoritative resnapshot":
\* where nothing but the lane's bound can lose a mutation, the tab's snapshot at
\* rest is the directory.
OverflowRecovers == Quiet => base = disk

\* reconcile is "a window-focus reliability net": when nothing else is going on,
\* a comparison leaves what is shown equal to the directory.
FocusShowsDisk == [][worked' # worked /\ Quiet' => shown' = disk']_vars
=============================================================================
