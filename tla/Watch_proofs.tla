----------------------------- MODULE Watch_proofs -----------------------------
(***************************************************************************)
(* Focus events: for any number of them, one worker has the target,        *)
(* comparisons come in order, and no event is forgotten.                   *)
(*                                                                         *)
(* A watched tab: for any directory, lane, number of changes, focus events *)
(* and new listings, a snapshot at rest is the directory unless a mutation *)
(* was lost for good, and what is shown is the snapshot while only the     *)
(* compactor publishes.  The watches of all tabs: shared and counted.      *)
(*                                                                         *)
(* The native menu: for any requests, types and failing helpers, loads are *)
(* shared, answers are not confused, and a command is run at most once.    *)
(***************************************************************************)
EXTENDS WatchTabs, WatchRefs, NativeMenu, FiniteSetTheorems, TLAPS

-----------------------------------------------------------------------------
(* Focus events: the invariant.                                            *)

\* The flag says exactly whether some worker has the target; a request that is
\* to spawn one has a generation to name it.
Ownership ==
  /\ OneReconciler
  /\ bumped => gen \in Workers
  /\ scheduled <=> \E t \in Workers : worker[t] \in Owning

\* A worker that has the target works for no generation older than the last
\* one compared; only one that has just got it back has yet to load its own.
Ordered ==
  /\ worked <= gen
  /\ \A t \in Workers :
       /\ req[t] <= gen
       /\ worker[t] \in Owning \ {"reload"} => worked <= req[t]

Handled(g) == worked >= g \/ g \in refused

\* A worker that looks for something newer has handled its generation, unless
\* there is something newer.
Looked ==
  \A t \in Workers :
    worker[t] \in {"look", "clear"} => Handled(req[t]) \/ req[t] < gen

\* While the latest generation is not handled somebody is going to notice it.
Notices(t) ==
  \/ worker[t] \in Owning \cup {"reclaim"}
  \/ worker[t] = "recheck" /\ req[t] < gen
Covered == Handled(gen) \/ bumped \/ \E t \in Workers : Notices(t)

FocusIInv == FocusTypeOK /\ Ownership /\ Ordered /\ Looked /\ Covered

-----------------------------------------------------------------------------
(* Focus events: the steps.                                                *)

LEMMA FocusStart == FocusInit => FocusIInv
<1> SUFFICES ASSUME FocusInit PROVE FocusIInv
  OBVIOUS
<1>1. FocusTypeOK
  <2>1. gen \in 0..MaxFocus /\ worked \in 0..MaxFocus /\ req \in [Workers -> 0..MaxFocus]
    BY FocusAssumption DEF FocusAssumption, FocusInit
  <2>2. scheduled \in BOOLEAN /\ bumped \in BOOLEAN
    BY Zenon DEF FocusInit
  <2> QED
    BY <2>1, <2>2 DEF FocusInit, FocusTypeOK, Places
<1>2. Ownership
  BY DEF FocusInit, Ownership, OneReconciler, Owning
<1>3. Ordered /\ Looked /\ Covered
  BY DEF FocusInit, Ordered, Looked, Covered, Handled, Owning
<1> QED
  BY <1>1, <1>2, <1>3 DEF FocusIInv

LEMMA FocusTypeStep ==
  ASSUME FocusTypeOK, [FocusNext]_focusVars PROVE FocusTypeOK'
<1> USE FocusAssumption DEF FocusAssumption, FocusTypeOK
<1>1. CASE Bump
  BY <1>1 DEF Bump
<1>2. CASE Spawn
  <2>1. worker' \in [Workers -> Places]
    BY <1>2 DEF Spawn, Places, Owning
  <2>2. req' \in [Workers -> 0..MaxFocus]
    BY <1>2 DEF Spawn
  <2> QED
    BY <1>2, <2>1, <2>2 DEF Spawn
<1>3. ASSUME NEW t \in Workers, Drains(t) \/ Work(t) PROVE FocusTypeOK'
  <2>1. worker' \in [Workers -> Places]
    <3>1. \E p \in Places : worker' = [worker EXCEPT ![t] = p]
      BY <1>3 DEF Drains, Work, LetWork, Refuse, Check, Guard, Look, Clear, Recheck,
         Reclaim, Reload, Go, Places, Owning
    <3> QED
      BY <3>1
  <2>2. req' \in [Workers -> 0..MaxFocus]
    BY <1>3 DEF Drains, Work, LetWork, Refuse, Check, Guard, Look, Clear, Recheck,
       Reclaim, Reload
  <2>3. scheduled' \in BOOLEAN /\ gen' = gen /\ bumped' = bumped
    BY <1>3 DEF Drains, Work, LetWork, Refuse, Check, Guard, Look, Clear, Recheck,
       Reclaim, Reload
  <2>4. worked' \in 0..MaxFocus /\ refused' \subseteq 0..MaxFocus
    BY <1>3 DEF Drains, Work, LetWork, Refuse, Check, Guard, Look, Clear, Recheck,
       Reclaim, Reload
  <2> QED
    BY <2>1, <2>2, <2>3, <2>4
<1>4. CASE UNCHANGED focusVars
  BY <1>4 DEF focusVars
<1> QED
  BY <1>1, <1>2, <1>3, <1>4 DEF FocusNext

LEMMA OwnershipStep ==
  ASSUME FocusTypeOK, Ownership, [FocusNext]_focusVars PROVE Ownership'
<1> USE DEF FocusTypeOK, Ownership, OneReconciler, Owning
<1>1. CASE Bump
  BY <1>1, FocusAssumption DEF FocusAssumption, Bump, Workers
<1>2. CASE Spawn
  <2>1. CASE scheduled
    BY <1>2, <2>1 DEF Spawn
  <2>2. CASE ~scheduled
    BY <1>2, <2>2 DEF Spawn
  <2> QED
    BY <2>1, <2>2
<1>3. ASSUME NEW t \in Workers,
             LetWork(t) \/ Refuse(t) \/ Check(t) \/ Guard(t) \/ Work(t)
               \/ Look(t) \/ Reload(t)
      PROVE  Ownership'
  <2>1. \E p \in Owning : worker' = [worker EXCEPT ![t] = p]
    BY <1>3 DEF LetWork, Refuse, Check, Guard, Work, Look, Reload, Go
  <2>2. /\ worker[t] \in Owning /\ scheduled' = scheduled
        /\ gen' = gen /\ bumped' = bumped
    BY <1>3 DEF LetWork, Refuse, Check, Guard, Work, Look, Reload, Go
  <2>3. \A s \in Workers : worker'[s] \in Owning <=> worker[s] \in Owning
    BY <2>1, <2>2
  <2> QED
    BY <2>2, <2>3
<1>4. ASSUME NEW t \in Workers, Clear(t) PROVE Ownership'
  BY <1>4 DEF Clear, Go
<1>5. ASSUME NEW t \in Workers, Recheck(t) PROVE Ownership'
  BY <1>5 DEF Recheck, Go
<1>6. ASSUME NEW t \in Workers, Reclaim(t) PROVE Ownership'
  BY <1>6 DEF Reclaim, Go
<1>7. CASE UNCHANGED focusVars
  BY <1>7 DEF focusVars
<1> QED
  BY <1>1, <1>2, <1>3, <1>4, <1>5, <1>6, <1>7 DEF FocusNext, Drains

LEMMA OrderedStep ==
  ASSUME FocusTypeOK, Ownership, Ordered, [FocusNext]_focusVars PROVE Ordered'
<1> USE DEF FocusTypeOK, Ordered, Owning
<1>1. CASE Bump
  BY <1>1 DEF Bump
<1>2. CASE Spawn
  BY <1>2 DEF Spawn
<1>3. ASSUME NEW t \in Workers, Work(t) PROVE Ordered'
  BY <1>3 DEF Work, Go, Ownership, OneReconciler
<1>4. ASSUME NEW t \in Workers, Look(t) \/ Reload(t) PROVE Ordered'
  BY <1>4 DEF Look, Reload, Go
<1>5. ASSUME NEW t \in Workers,
             LetWork(t) \/ Refuse(t) \/ Check(t) \/ Guard(t)
               \/ Clear(t) \/ Recheck(t) \/ Reclaim(t)
      PROVE  Ordered'
  <2>1. gen' = gen /\ worked' = worked /\ req' = req
    BY <1>5 DEF LetWork, Refuse, Check, Guard, Clear, Recheck, Reclaim
  <2>2. \A s \in Workers : worker'[s] \in Owning \ {"reload"} => worker[s] \in Owning \ {"reload"}
    BY <1>5 DEF LetWork, Refuse, Check, Guard, Clear, Recheck, Reclaim, Go
  <2> QED
    BY <2>1, <2>2
<1>6. CASE UNCHANGED focusVars
  BY <1>6 DEF focusVars
<1> QED
  BY <1>1, <1>2, <1>3, <1>4, <1>5, <1>6 DEF FocusNext, Drains

\* What is handled stays so.
LEMMA HandledStep ==
  ASSUME FocusTypeOK, Ownership, Ordered, [FocusNext]_focusVars
  PROVE  /\ worked' >= worked
         /\ \A g \in 0..MaxFocus : Handled(g) => Handled(g)'
<1>1. worked' >= worked
  <2>1. ASSUME NEW t \in Workers, Work(t) PROVE worked' >= worked
    BY <2>1 DEF Work, Go, FocusTypeOK, Ordered, Owning
  <2>2. CASE worked' = worked
    BY <2>2 DEF FocusTypeOK
  <2> QED
    BY <2>1, <2>2 DEF FocusNext, Bump, Spawn, Drains, LetWork, Refuse, Check, Guard,
       Look, Clear, Recheck, Reclaim, Reload, focusVars
<1>2. refused \subseteq refused'
  BY DEF FocusNext, Bump, Spawn, Drains, Work, LetWork, Refuse, Check, Guard,
     Look, Clear, Recheck, Reclaim, Reload, focusVars
<1>3. worked \in Nat /\ worked' \in Nat
  BY FocusTypeStep DEF FocusTypeOK
<1> QED
  BY <1>1, <1>2, <1>3 DEF Handled

LEMMA LookedStep ==
  ASSUME FocusTypeOK, Ownership, Ordered, Looked, [FocusNext]_focusVars
  PROVE  Looked'
<1> DEFINE Done(s) == worked' >= req'[s] \/ req'[s] \in refused' \/ req'[s] < gen'
<1> USE DEF FocusTypeOK, Ordered
<1>0. (\A s \in Workers : worker'[s] \in {"look", "clear"} => Done(s)) => Looked'
  BY DEF Looked, Handled
<1> HIDE DEF Done
\* Whoever stays where it is keeps what it knows.
<1>1. ASSUME NEW s \in Workers, worker[s] \in {"look", "clear"},
             req'[s] = req[s], gen' >= gen
      PROVE  Done(s)
  <2>1. ASSUME Handled(req[s]) PROVE worked' >= req[s] \/ req[s] \in refused'
    <3>1. PICK g \in 0..MaxFocus : g = req[s]
      OBVIOUS
    <3>2. worked' >= g \/ g \in refused'
      BY <2>1, <3>1, HandledStep DEF Handled
    <3> QED
      BY <3>1, <3>2
  <2>2. req[s] < gen => req'[s] < gen'
    BY <1>1, FocusTypeStep
  <2> QED
    BY <1>1, <2>1, <2>2 DEF Looked, Done
<1>2. CASE Bump \/ UNCHANGED focusVars
  BY <1>0, <1>1, <1>2 DEF Bump, focusVars
<1>3. CASE Spawn
  <2>1. \A s \in Workers : worker'[s] \in {"look", "clear"} =>
          worker[s] = worker'[s] /\ req'[s] = req[s] /\ gen' = gen
    BY <1>3 DEF Spawn
  <2> QED
    BY <1>0, <1>1, <2>1
<1>4. ASSUME NEW t \in Workers, Drains(t) \/ Work(t) PROVE Looked'
  <2>1. ASSUME NEW s \in Workers, s # t, worker'[s] \in {"look", "clear"}
        PROVE  Done(s)
    <3>1. worker'[s] = worker[s] /\ req'[s] = req[s] /\ gen' = gen
      BY <1>4, <2>1 DEF Drains, Work, LetWork, Refuse, Check, Guard, Look, Clear,
         Recheck, Reclaim, Reload, Go
    <3> QED
      BY <3>1, <2>1, <1>1
  <2>2. ASSUME worker'[t] \in {"look", "clear"}
        PROVE  Done(t)
    <3>1. CASE Check(t) \/ Guard(t)
      BY <2>2, <3>1 DEF Check, Guard, Go, Done
    <3>2. CASE Refuse(t) \/ Work(t)
      BY <3>2 DEF Refuse, Work, Go, Done
    <3>3. CASE Look(t)
      <4>1. gen = req[t] /\ req'[t] = req[t] /\ gen' = gen /\ worker[t] = "look"
        BY <2>2, <3>3 DEF Look, Go
      <4> QED
        BY <4>1, <1>1
    <3>4. worker'[t] \notin {"look", "clear"}
            \/ Check(t) \/ Guard(t) \/ Refuse(t) \/ Work(t) \/ Look(t)
      BY <1>4 DEF Drains, LetWork, Clear, Recheck, Reclaim, Reload, Go
    <3> QED
      BY <2>2, <3>1, <3>2, <3>3, <3>4
  <2> QED
    BY <1>0, <2>1, <2>2
<1> QED
  BY <1>2, <1>3, <1>4 DEF FocusNext

LEMMA CoveredStep ==
  ASSUME FocusIInv, [FocusNext]_focusVars PROVE Covered'
<1> USE DEF FocusIInv, FocusTypeOK
<1>1. CASE Bump
  BY <1>1 DEF Bump, Covered
<1>2. CASE Spawn
  <2>1. \E t \in Workers : worker'[t] \in Owning
    BY <1>2, OwnershipStep DEF Spawn, Ownership
  <2> QED
    BY <2>1 DEF Covered, Notices
<1>3. ASSUME NEW t \in Workers, Drains(t) \/ Work(t) PROVE Covered'
  <2>1. gen' = gen /\ bumped' = bumped
    BY <1>3 DEF Drains, Work, LetWork, Refuse, Check, Guard, Look, Clear, Recheck,
       Reclaim, Reload
  <2>2. CASE Handled(gen) \/ bumped
    BY <2>1, <2>2, HandledStep DEF Covered
  <2>3. ASSUME ~Handled(gen), ~bumped PROVE \E s \in Workers : Notices(s)'
    \* Whoever noticed and is not the one that moves still notices.
    <3>1. ASSUME NEW s \in Workers, s # t, Notices(s) PROVE Notices(s)'
      BY <3>1, <1>3, <2>1 DEF Notices, Drains, Work, LetWork, Refuse, Check, Guard,
         Look, Clear, Recheck, Reclaim, Reload, Go
    <3>2. PICK n \in Workers : Notices(n)
      BY <2>3 DEF Covered
    <3>3. CASE Clear(t)
      <4>1. req[t] < gen
        BY <3>3, <2>3 DEF Looked, Clear, Go, Ordered
      <4> QED
        BY <3>3, <4>1, <2>1 DEF Clear, Go, Notices
    <3>4. CASE Recheck(t)
      <4>1. CASE n = t
        BY <3>2, <3>4, <4>1 DEF Recheck, Go, Notices, Owning
      <4> QED
        BY <4>1, <3>1, <3>2
    <3>5. CASE Reclaim(t)
      <4>1. CASE scheduled
        <5>1. PICK s \in Workers : worker[s] \in Owning
          BY <4>1 DEF Ownership
        <5>2. s # t
          BY <5>1, <3>5 DEF Reclaim, Go, Owning
        <5> QED
          BY <5>1, <5>2, <3>1 DEF Notices
      <4>2. CASE ~scheduled
        BY <3>5, <4>2 DEF Reclaim, Go, Notices, Owning
      <4> QED
        BY <4>1, <4>2
    <3>6. CASE LetWork(t) \/ Refuse(t) \/ Check(t) \/ Guard(t) \/ Work(t)
                 \/ Look(t) \/ Reload(t)
      <4>1. worker'[t] \in Owning
        BY <3>6 DEF LetWork, Refuse, Check, Guard, Work, Look, Reload, Go, Owning
      <4> QED
        BY <4>1 DEF Notices
    <3> QED
      BY <1>3, <3>3, <3>4, <3>5, <3>6 DEF Drains
  <2> QED
    BY <2>2, <2>3 DEF Covered
<1>4. CASE UNCHANGED focusVars
  BY <1>4 DEF focusVars, Covered, Handled, Notices
<1> QED
  BY <1>1, <1>2, <1>3, <1>4 DEF FocusNext

-----------------------------------------------------------------------------
LEMMA FocusInductive == FocusSpec => []FocusIInv
<1>1. FocusIInv /\ [FocusNext]_focusVars => FocusIInv'
  BY FocusTypeStep, OwnershipStep, OrderedStep, LookedStep, CoveredStep DEF FocusIInv
<1> QED
  BY <1>1, FocusStart, PTL DEF FocusSpec

\* At most one worker compares the target, between any two of its atomics.
THEOREM OneWorker == FocusSpec => []OneReconciler
<1>1. FocusIInv => OneReconciler
  BY DEF FocusIInv, Ownership
<1> QED
  BY <1>1, FocusInductive, PTL

\* However requests fall between the last look and the clearing of the flag,
\* the latest is compared or refused.
THEOREM NothingForgotten == FocusSpec => []NoForgottenFocus
<1>1. FocusIInv => NoForgottenFocus
  <2> SUFFICES ASSUME FocusIInv, ~bumped,
                      \A t \in Workers : worker[t] \in {"none", "returned"}
               PROVE  worked = gen \/ gen \in refused
    BY DEF NoForgottenFocus
  <2>1. Handled(gen)
    BY DEF FocusIInv, Covered, Notices, Owning
  <2> QED
    BY <2>1 DEF FocusIInv, FocusTypeOK, Ordered, Handled
<1> QED
  BY <1>1, FocusInductive, PTL

\* The two together: the invariant the runs check.
THEOREM FocusInvariant == FocusSpec => []FocusInv
BY OneWorker, NothingForgotten, PTL DEF FocusInv

\* Comparisons are published in the order of their requests.
THEOREM InOrder == FocusSpec => ResultsInOrder
<1>1. FocusIInv /\ [FocusNext]_focusVars => [worked' >= worked]_worked
  BY HandledStep DEF FocusIInv
<1> QED
  BY <1>1, FocusInductive, PTL DEF FocusSpec, ResultsInOrder

-----------------------------------------------------------------------------
(* A watched tab: the invariant.                                           *)

\* What the tab will have when reconcile_tabs lets the lock go.
Base == IF locked THEN listing ELSE base

\* The last of the reported events of a child, and of the lane's mutations of
\* it, is no removal unless the child is gone.
Told(n)   == \E k \in DOMAIN reported : reported[k].name = n
OfTab(k)  == raw[k].watch = watch
InRaw(n)  == \E k \in DOMAIN raw : OfTab(k) /\ raw[k].name = n
ReportIsTrue(n) ==
  \A k \in DOMAIN reported :
    /\ reported[k].name = n /\ reported[k].kind = "removed"
    /\ \A l \in DOMAIN reported : l > k => reported[l].name # n
    => disk[n] = 0
RawIsTrue(n) ==
  \A k \in DOMAIN raw :
    /\ OfTab(k) /\ raw[k].name = n /\ raw[k].kind = "removed"
    /\ \A l \in DOMAIN raw : l > k /\ OfTab(l) => raw[l].name # n
    => disk[n] = 0

\* What the pending state, and the batch, will make of a child.
PendIsTrue(n) ==
  LET p == pend[watch] IN
  p.unresolved \/ n \in p.changed \/ (n \in p.removed => disk[n] = 0)
PendHas(n) ==
  LET p == pend[watch] IN p.unresolved \/ n \in p.changed \cup p.removed
BatchIsTrue(n) ==
  IF batch.watch = watch /\ batch.stage = "find"
  THEN \/ batch.dirty \/ n \in batch.left
       \/ disk[n] = (IF n \in batch.removed THEN 0 ELSE Base[n])
  ELSE IF batch.watch = watch /\ batch.stage = "read"
  THEN n \in batch.left \/ batch.next[n] = disk[n]
  ELSE Base[n] = disk[n]

\* The latest stage that mentions a child will make the snapshot agree with the
\* directory.
Converges(n) ==
  /\ ReportIsTrue(n)
  /\ \/ Told(n)
     \/ /\ RawIsTrue(n)
        /\ \/ InRaw(n) \/ watch \in overflow
           \/ PendIsTrue(n) /\ (PendHas(n) \/ BatchIsTrue(n))

\* Nothing bears the id of a watch that is still to be armed.
Later == {i \in WatchIds : i > watch}
NothingLater ==
  /\ \A k \in DOMAIN raw : raw[k].watch \notin Later
  /\ \A i \in Later : i \notin overflow /\ pend[i] = Untouched
  /\ batch.stage # "none" => batch.watch \notin Later

\* A new listing has an id to be armed under.
Rearms == arming # "none" => watch < MaxWatches

TabOK == WatchTypeOK /\ Rearms /\ NothingLater
WatchIInv ==
  /\ TabOK
  /\ ~lost => \A n \in Names : Converges(n)

\* Without focus events and new listings the compactor alone publishes.
Unfocused ==
  gen = 0 => ~bumped /\ ~locked /\ \A t \in Workers : worker[t] = "none"
ShownFollows ==
  gen = 0 /\ watch = 1 /\ arming = "none" =>
    IF batch.stage = "emit" THEN shown = batch.prev /\ base = batch.next
    ELSE shown = base /\ (batch.stage = "read" => batch.prev = base)
ShownIInv == TabOK /\ Unfocused /\ ShownFollows

-----------------------------------------------------------------------------
(* The comparison of a focus event is FocusReconcile's.                    *)

\* The steps of a watched tab are steps of the focus reconciliation, or leave
\* it alone.
LEMMA FocusStep == [Next]_vars => [FocusNext]_focusVars
<1> SUFFICES ASSUME [Next]_vars PROVE [FocusNext]_focusVars
  OBVIOUS
<1>1. CASE Focus
  BY <1>1 DEF Focus, FocusNext
<1>2. CASE Reconciler
  BY <1>2 DEF Reconciler, ReconcileList, ReconcileStore, ReconcileFails, FocusNext
<1>3. CASE Compactor
  BY <1>3 DEF Compactor, Drain, Find, ReadFails, Store, Emit, TakeOverflow, Flush, Read,
     focusing, focusVars
<1>4. CASE \/ \E n \in Names : Mutate(n)
           \/ DropEvent \/ Deliver \/ Relist \/ ReadSeed \/ Arm
  BY <1>4 DEF Mutate, DropEvent, Deliver, Relist, ReadSeed, Arm, focusing
<1>5. CASE UNCHANGED vars
  BY <1>5 DEF vars, focusing
<1> QED
  BY <1>1, <1>2, <1>3, <1>4, <1>5 DEF Next

-----------------------------------------------------------------------------
(* Types.                                                                  *)

LEMMA TabStart == Init => TabOK
<1> SUFFICES ASSUME Init PROVE TabOK
  OBVIOUS
<1> USE WatchAssumption DEF WatchAssumption, Init
<1>1. FocusTypeOK
  BY FocusStart DEF FocusIInv
<1>2. disk \in Snapshots /\ Empty \in Snapshots /\ 1 \in WatchIds /\ mutations \in 1..MaxMutations
  BY DEF Snapshots, Empty, WatchIds
<1>3. Untouched \in Touched /\ Idle \in Batches
  BY <1>2 DEF Untouched, Touched, Idle, Batches
<1>4. WatchTypeOK
  <2>1. /\ reported \in Seq(Events) /\ raw \in Seq(Mutations) /\ Len(raw) <= RawCap
        /\ overflow \subseteq WatchIds /\ pend \in [WatchIds -> Touched]
    BY <1>3
  <2>2. /\ locked \in BOOLEAN /\ lost \in BOOLEAN /\ watch \in WatchIds
        /\ arming \in {"none", "listed", "seeded"}
    BY <1>2
  <2> QED
    BY <1>1, <1>2, <1>3, <2>1, <2>2, Zenon DEF WatchTypeOK
<1>5. NothingLater
  BY DEF NothingLater, Later, Idle
<1> QED
  BY <1>4, <1>5 DEF TabOK, Rearms

\* The record of the lane has its type.
LEMMA RecordTyped ==
  ASSUME WatchTypeOK, NEW i \in WatchIds PROVE Record(i) \in Touched
<1>1. pend[i].changed \subseteq Names /\ pend[i].removed \subseteq Names /\ pend[i].unresolved \in BOOLEAN
  BY DEF WatchTypeOK, Touched
<1>2. (pend[i].unresolved \/ \E k \in DOMAIN raw : raw[k].watch = i /\ raw[k].kind = "unresolved") \in BOOLEAN
  OBVIOUS
<1> QED
  BY <1>1, <1>2 DEF Record, Touched
\* Every variable keeps its type.
LEMMA TabTypes ==
  ASSUME WatchTypeOK, Rearms, [Next]_vars PROVE WatchTypeOK'
<1> USE WatchAssumption DEF WatchAssumption
<1>f. FocusTypeOK'
  BY FocusStep, FocusTypeStep DEF WatchTypeOK
<1>u. Untouched \in Touched /\ Idle \in Batches /\ Empty \in Snapshots
  BY DEF Untouched, Touched, Idle, Batches, WatchIds, Snapshots, Empty
<1>1. ASSUME NEW n \in Names, Mutate(n) PROVE WatchTypeOK'
  <2>m. mutations' = mutations + 1 /\ mutations' \in 1..MaxMutations
    BY <1>1 DEF Mutate, WatchTypeOK
  <2>d. disk' = [disk EXCEPT ![n] = mutations + 1] \/ disk' = [disk EXCEPT ![n] = 0]
    BY <1>1, Zenon DEF Mutate
  <2>v. PICK v \in 0..MaxMutations : disk' = [disk EXCEPT ![n] = v]
    <3>1. mutations + 1 \in 0..MaxMutations /\ 0 \in 0..MaxMutations
      BY <2>m
    <3> QED
      BY <2>d, <3>1
  <2>1. disk' \in Snapshots
    BY <2>v DEF WatchTypeOK, Snapshots
  <2>2. PICK e \in Events : reported' = Append(reported, e)
    BY <1>1 DEF Mutate, Report, Events, Kinds
  <2>3. reported' \in Seq(Events)
    BY <2>2 DEF WatchTypeOK
  <2>4. UNCHANGED <<raw, overflow, pend, batch, tab, rearming, focusing, lost>>
    BY <1>1 DEF Mutate
  <2> QED
    BY <1>f, <2>m, <2>1, <2>3, <2>4 DEF WatchTypeOK, tab, rearming, focusing
<1>2. CASE DropEvent
  <2>1. reported' \in Seq(Events)
    BY <1>2 DEF DropEvent, WatchTypeOK
  <2> QED
    BY <1>2, <1>f, <2>1 DEF DropEvent, WatchTypeOK, world, tab, rearming, focusing
<1>3. CASE Deliver
  <2>1. reported' \in Seq(Events) /\ Head(reported) \in Events
    BY <1>3 DEF Deliver, WatchTypeOK
  <2>2. PICK m \in Mutations : Push(m) /\ m.watch = watch
    BY <1>3, <2>1 DEF Deliver, WatchTypeOK, Events, Mutations
  <2>3. raw' \in Seq(Mutations) /\ Len(raw') <= RawCap /\ overflow' \subseteq WatchIds
    <3>1. CASE Len(raw) < RawCap
      <4>1. raw' = Append(raw, m) /\ overflow' = overflow
        BY <2>2, <3>1 DEF Push
      <4>2. raw \in Seq(Mutations) /\ overflow \subseteq WatchIds /\ Len(raw) \in Nat
        BY DEF WatchTypeOK
      <4> QED
        BY <3>1, <4>1, <4>2
    <3>2. CASE ~(Len(raw) < RawCap)
      BY <2>2, <3>2 DEF Push, WatchTypeOK
    <3> QED
      BY <3>1, <3>2
  <2>4. lost' \in BOOLEAN
    BY <1>3 DEF Deliver
  <2> QED
    BY <1>3, <1>f, <2>1, <2>3, <2>4 DEF Deliver, WatchTypeOK, world, tab, rearming, focusing
<1>4. CASE Compactor
  <2>1. ASSUME NEW i \in WatchIds, TakeOverflow(i) PROVE WatchTypeOK'
    <3>1. batch' \in Batches /\ pend' \in [WatchIds -> Touched]
      BY <2>1, <1>u DEF TakeOverflow, WatchTypeOK, Batches, Idle
    <3> QED
      BY <2>1, <1>f, <3>1 DEF TakeOverflow, WatchTypeOK, world, tab, rearming, focusing
  <2>2. CASE Drain
    <3>1. pend' \in [WatchIds -> Touched] /\ raw' \in Seq(Mutations) /\ Len(raw') <= RawCap
      BY <2>2, RecordTyped DEF Drain
    <3> QED
      BY <2>2, <1>f, <3>1 DEF Drain, WatchTypeOK, world, tab, rearming, focusing
  <2>3. ASSUME NEW i \in WatchIds, Flush(i) PROVE WatchTypeOK'
    <3>1. PICK d \in BOOLEAN :
            batch' = [Idle EXCEPT !.stage = "find", !.watch = i, !.dirty = d,
                                  !.left = pend[i].changed, !.removed = pend[i].removed]
      BY <2>3 DEF Flush, WatchTypeOK, Touched
    <3>2. batch' \in Batches
      BY <3>1, <1>u DEF WatchTypeOK, Batches, Idle, Touched
    <3>3. pend' = [pend EXCEPT ![i] = Untouched] /\ UNCHANGED <<world, lane, tab, rearming, focusing, lost>>
      BY <2>3 DEF Flush
    <3> QED
      BY <3>3, <1>f, <1>u, <3>2 DEF WatchTypeOK, lane, world, tab, rearming, focusing
  <2>4. CASE Find
    <3>1. [n \in Names |-> IF batch.dirty \/ n \in batch.removed THEN 0 ELSE base[n]] \in Snapshots
      BY DEF WatchTypeOK, Snapshots
    <3>2. batch' \in Batches
      BY <2>4, <1>u, <3>1 DEF Find, WatchTypeOK, Batches
    <3> QED
      BY <2>4, <1>f, <3>2 DEF Find, WatchTypeOK, lane, world, tab, rearming, focusing
  <2>5. ASSUME NEW n \in Names, Read(n) PROVE WatchTypeOK'
    <3>1. [batch.next EXCEPT ![n] = disk[n]] \in Snapshots
      BY DEF WatchTypeOK, Snapshots, Batches
    <3>2. batch' = [batch EXCEPT !.left = batch.left \ {n}, !.next = [batch.next EXCEPT ![n] = disk[n]]]
      BY <2>5 DEF Read
    <3>3. batch' \in Batches
      BY <3>1, <3>2 DEF WatchTypeOK, Batches
    <3> QED
      BY <2>5, <1>f, <3>3 DEF Read, WatchTypeOK, lane, world, tab, rearming, focusing
  <2>6. CASE ReadFails
    BY <2>6, <1>f, <1>u DEF ReadFails, WatchTypeOK, lane, world, tab, rearming, focusing
  <2>7. CASE Store
    <3>1. batch' \in Batches /\ base' \in Snapshots
      BY <2>7, <1>u, SMTT(40) DEF Store, WatchTypeOK, Batches
    <3> QED
      BY <2>7, <1>f, <3>1 DEF Store, WatchTypeOK, lane, world, rearming, focusing
  <2>8. CASE Emit
    <3>1. shown' \in Snapshots
      BY <2>8 DEF Emit, Patched, WatchTypeOK, Snapshots, Batches
    <3> QED
      BY <2>8, <1>f, <1>u, <3>1 DEF Emit, WatchTypeOK, lane, world, rearming, focusing
  <2> QED
    BY <1>4, <2>1, <2>2, <2>3, <2>4, <2>5, <2>6, <2>7, <2>8 DEF Compactor
<1>5. CASE Focus
  BY <1>5, <1>f DEF Focus, WatchTypeOK, lane, world, tab, rearming
<1>6. CASE Reconciler
  <2>1. ASSUME NEW t \in Workers, ReconcileList(t) PROVE WatchTypeOK'
    <3>1. locked' \in BOOLEAN /\ lost' \in BOOLEAN /\ listing' \in Snapshots
      BY <2>1 DEF ReconcileList, WatchTypeOK
    <3> QED
      BY <2>1, <1>f, <3>1 DEF ReconcileList, WatchTypeOK, lane, world, tab, rearming
  <2>2. ASSUME NEW t \in Workers, ReconcileStore(t) PROVE WatchTypeOK'
    <3>1. base' \in Snapshots /\ shown' \in Snapshots /\ locked' \in BOOLEAN
      BY <2>2 DEF ReconcileStore, Patched, WatchTypeOK, Snapshots
    <3> QED
      BY <2>2, <1>f, <3>1 DEF ReconcileStore, WatchTypeOK, lane, world, rearming
  <2>3. ASSUME NEW t \in Workers, ReconcileFails(t) PROVE WatchTypeOK'
    BY <2>3, <1>f DEF ReconcileFails, WatchTypeOK, lane, world, tab, rearming
  <2> QED
    BY <1>6, <2>1, <2>2, <2>3 DEF Reconciler
<1>7. CASE Relist
  BY <1>7, <1>f DEF Relist, WatchTypeOK, lane, world, focusing
<1>8. CASE ReadSeed
  BY <1>8, <1>f DEF ReadSeed, WatchTypeOK, lane, world, tab, focusing
<1>9. CASE Arm
  <2>1. lost' \in BOOLEAN
    BY <1>9 DEF Arm
  <2> QED
    BY <1>9, <1>f, <2>1 DEF Arm, WatchTypeOK, Rearms, lane, world, focusing, WatchIds
<1>10. CASE UNCHANGED vars
  BY <1>10, <1>f DEF vars, WatchTypeOK, lane, world, tab, rearming, focusing
<1> QED
  BY <1>1, <1>2, <1>3, <1>4, <1>5, <1>6, <1>7, <1>8, <1>9, <1>10 DEF Next

\* A step keeps what is said of ids.
LEMMA TabStep == TabOK /\ [Next]_vars => TabOK'
<1> SUFFICES ASSUME TabOK, [Next]_vars PROVE TabOK'
  OBVIOUS
<1>t. WatchTypeOK' /\ WatchTypeOK
  BY TabTypes DEF TabOK
<1> USE DEF TabOK, NothingLater, Later, Rearms
<1>1. ASSUME NEW n \in Names, Mutate(n) PROVE TabOK'
  BY <1>t, <1>1 DEF Mutate, tab, rearming
<1>2. CASE DropEvent
  BY <1>t, <1>2 DEF DropEvent, tab, rearming
<1>3. CASE Deliver
  <2>1. PICK m : Push(m) /\ m.watch = watch
    BY <1>3 DEF Deliver
  <2>2. overflow' \subseteq overflow \cup {watch} /\ watch \in WatchIds
    BY <2>1 DEF Push, WatchTypeOK
  <2>3. \A k \in DOMAIN raw' : raw'[k].watch = watch \/ (k \in DOMAIN raw /\ raw'[k] = raw[k])
    <3>1. CASE raw' = Append(raw, m)
      <4>1. raw \in Seq(Mutations) /\ Len(raw) \in Nat
        BY DEF WatchTypeOK
      <4> QED
        BY <2>1, <3>1, <4>1
    <3> QED
      BY <2>1, <3>1 DEF Push
  <2>4. watch \in Nat
    BY DEF WatchTypeOK, WatchIds
  <2> QED
    BY <1>t, <1>3, <2>2, <2>3, <2>4 DEF Deliver, tab, rearming
<1>4. CASE Compactor
  <2>1. ASSUME NEW i \in WatchIds, TakeOverflow(i) PROVE TabOK'
    <3>1. batch'.watch = i
      BY <2>1 DEF TakeOverflow, Idle
    <3> QED
      BY <1>t, <2>1, <3>1 DEF TakeOverflow, tab, rearming, WatchTypeOK
  <2>2. CASE Drain
    <3>1. ASSUME NEW i \in Later PROVE Record(i) = Untouched
      <4>1. \A n, kind : ~LastSays(i, n, kind)
        BY <3>1 DEF LastSays
      <4>2. pend[i] = Untouched /\ \A k \in DOMAIN raw : raw[k].watch # i
        BY <3>1
      <4>3. /\ pend[i].changed = {} /\ pend[i].removed = {} /\ ~pend[i].unresolved
            /\ ~\E k \in DOMAIN raw : raw[k].watch = i /\ raw[k].kind = "unresolved"
        BY <4>2 DEF Untouched
      <4>4. \A kind : {n \in Names : LastSays(i, n, kind)} = {}
        BY <4>1
      <4>5. Record(i) = [changed |-> ({} \ {}) \cup {}, removed |-> ({} \ {}) \cup {}, unresolved |-> FALSE]
        BY <4>3, <4>4 DEF Record
      <4> QED
        BY <4>5 DEF Untouched
    <3>2. DOMAIN raw' = {}
      BY <2>2 DEF Drain
    <3> QED
      BY <1>t, <2>2, <3>1, <3>2 DEF Drain, tab, rearming
  <2>3. ASSUME NEW i \in WatchIds, Flush(i) PROVE TabOK'
    <3>1. batch'.watch = i
      BY <2>3 DEF Flush, Idle
    <3>2. pend' = [pend EXCEPT ![i] = Untouched] /\ pend[i] # Untouched
          /\ UNCHANGED <<lane, tab, rearming>>
      BY <2>3 DEF Flush
    <3> QED
      BY <1>t, <3>1, <3>2 DEF lane, tab, rearming, WatchTypeOK
  <2>4. CASE Find \/ ReadFails \/ Store \/ Emit \/ \E n \in Names : Read(n)
    <3>1. batch.stage # "none" /\ (batch' = Idle \/ batch'.watch = batch.watch)
      BY <2>4, <1>t DEF Find, ReadFails, Store, Emit, Read, Working, WatchTypeOK, Batches
    <3>2. UNCHANGED <<raw, overflow, pend, watch, arming>>
      BY <2>4 DEF Find, ReadFails, Store, Emit, Read, lane, tab, rearming
    <3> QED
      BY <1>t, <3>1, <3>2 DEF Idle
  <2> QED
    BY <1>4, <2>1, <2>2, <2>3, <2>4 DEF Compactor
<1>5. CASE Focus \/ Reconciler
  BY <1>t, <1>5 DEF Focus, Reconciler, ReconcileList, ReconcileStore, ReconcileFails, lane, tab, rearming
<1>6. CASE Relist
  BY <1>t, <1>6 DEF Relist, lane, focusing
<1>7. CASE ReadSeed
  BY <1>t, <1>7 DEF ReadSeed, lane, tab
<1>8. CASE Arm
  <2>1. watch \in Nat /\ watch' = watch + 1
    BY <1>8 DEF Arm, WatchTypeOK, WatchIds
  <2>2. UNCHANGED <<raw, overflow, pend, batch>> /\ arming' = "none"
    BY <1>8 DEF Arm, lane
  <2>3. Later' \subseteq Later
    BY <2>1 DEF WatchIds
  <2> QED
    BY <1>t, <2>1, <2>2, <2>3
<1>9. CASE UNCHANGED vars
  BY <1>t, <1>9 DEF vars, lane, tab, rearming
<1> QED
  BY <1>1, <1>2, <1>3, <1>4, <1>5, <1>6, <1>7, <1>8, <1>9 DEF Next

-----------------------------------------------------------------------------
(* The snapshot follows the directory.                                     *)

\* A step that touches nothing on the way to the tab.
LEMMA ConvergesKept ==
  ASSUME NEW n, Converges(n),
         disk' = disk, reported' = reported, raw' = raw, overflow' = overflow, pend' = pend,
         batch' = batch, watch' = watch, Base' = Base
  PROVE  Converges(n)'
BY DEF Converges, ReportIsTrue, Told, RawIsTrue, InRaw, OfTab, PendIsTrue, PendHas, BatchIsTrue

\* A set of positions of a sequence has a last one.
LEMMA LastPosition ==
  ASSUME NEW S, NEW q \in Seq(S), NEW at \in SUBSET DOMAIN q, at # {}
  PROVE  \E k \in at : \A l \in at : l <= k
<1>1. DOMAIN q = 1..Len(q) /\ Len(q) \in Nat
  OBVIOUS
<1>2. PICK all, ends : all = 1..Len(q) /\ ends = {k..Len(q) : k \in at}
  OBVIOUS
<1>3. ends \subseteq FiniteSubsetsOf(all) /\ ends # {}
  <2>1. \A k \in at : k..Len(q) \in SUBSET all
    BY <1>1, <1>2
  <2>2. FiniteSubsetsOf(all) = SUBSET all
    <3>1. IsFiniteSet(all)
      BY <1>1, <1>2, FS_Interval
    <3> QED
      BY <3>1, FS_FiniteSubsetsOfFinite
  <2>3. ends \subseteq SUBSET all /\ ends # {}
    BY <1>2, <2>1
  <2> QED
    BY <2>2, <2>3
<1>4. PICK x \in ends : \A y \in ends : <<y, x>> \notin StrictSubsetOrdering(all)
  <2>1. IsWellFoundedOn(StrictSubsetOrdering(all), FiniteSubsetsOf(all))
    BY FS_StrictSubsetOrderingWellFounded
  <2>2. \E x \in ends : \A y \in ends : ~(<<y, x>> \in StrictSubsetOrdering(all))
    BY <1>3, <2>1, WFMin
  <2> QED
    BY <2>2
<1>5. PICK k \in at : x = k..Len(q)
  BY <1>2
<1>6. ASSUME NEW l \in at PROVE l <= k
  <2> SUFFICES ASSUME k < l PROVE FALSE
    BY <1>1
  <2>1. l..Len(q) \in ends /\ l..Len(q) \in SUBSET all /\ k..Len(q) \in SUBSET all
    BY <1>1, <1>2
  <2>2. l..Len(q) \subseteq k..Len(q) /\ k \in k..Len(q) /\ k \notin l..Len(q)
    BY <1>1
  <2>3. <<l..Len(q), x>> \in StrictSubsetOrdering(all)
    BY <1>5, <2>1, <2>2 DEF StrictSubsetOrdering
  <2> QED
    BY <1>4, <2>1, <2>3
<1> QED
  BY <1>6

\* A change is reported, and the last report of the child tells the truth.
LEMMA ConvergesMutate ==
  ASSUME WatchTypeOK, NEW m \in Names, Mutate(m), NEW n \in Names, Converges(n)
  PROVE  Converges(n)'
<1>1. PICK e : /\ reported' = Append(reported, e) /\ e.name = m
               /\ e.kind = "removed" => disk'[m] = 0
  <2>1. CASE disk' = [disk EXCEPT ![m] = mutations + 1] /\ Report(m, "changed")
    BY <2>1 DEF Report
  <2>2. CASE disk' = [disk EXCEPT ![m] = 0] /\ Report(m, "removed")
    <3>1. disk'[m] = 0
      BY <2>2 DEF WatchTypeOK, Snapshots
    <3> QED
      BY <2>2, <3>1 DEF Report
  <2> QED
    BY <2>1, <2>2 DEF Mutate
<1>2. reported \in Seq(Events)
  BY DEF WatchTypeOK
<1>3. /\ DOMAIN reported' = 1..(Len(reported) + 1) /\ Len(reported) \in Nat
      /\ DOMAIN reported = 1..Len(reported)
      /\ \A k \in DOMAIN reported : reported'[k] = reported[k]
      /\ reported'[Len(reported) + 1] = e
  BY <1>1, <1>2
<1>4. CASE n = m
  <2>1. Told(n)'
    BY <1>1, <1>3, <1>4 DEF Told
  <2>2. ReportIsTrue(n)'
    BY <1>1, <1>3, <1>4 DEF ReportIsTrue
  <2> QED
    BY <2>1, <2>2 DEF Converges
<1>5. CASE n # m
  <2>1. disk'[n] = disk[n]
    BY <1>5 DEF Mutate, WatchTypeOK, Snapshots
  <2>2. Told(n) => Told(n)'
    BY <1>3 DEF Told
  <2>3. ReportIsTrue(n)'
    <3> SUFFICES ASSUME NEW k \in DOMAIN reported', reported'[k].name = n, reported'[k].kind = "removed",
                        \A l \in DOMAIN reported' : l > k => reported'[l].name # n
                 PROVE  disk'[n] = 0
      BY DEF ReportIsTrue
    <3>1. k \in DOMAIN reported /\ reported[k].name = n /\ reported[k].kind = "removed"
      BY <1>1, <1>3, <1>5
    <3>2. \A l \in DOMAIN reported : l > k => reported[l].name # n
      BY <1>3
    <3> QED
      BY <2>1, <3>1, <3>2 DEF ReportIsTrue, Converges
  <2>4. UNCHANGED <<raw, overflow, pend, batch, watch, base, locked, listing>>
    BY DEF Mutate, tab, focusing
  <2>5. (RawIsTrue(n) => RawIsTrue(n)') /\ InRaw(n)' = InRaw(n)
    BY <2>1, <2>4 DEF RawIsTrue, InRaw, OfTab
  <2>6. (PendIsTrue(n) => PendIsTrue(n)') /\ PendHas(n)' = PendHas(n)
    BY <2>1, <2>4 DEF PendIsTrue, PendHas
  <2>7. BatchIsTrue(n) => BatchIsTrue(n)'
    BY <2>1, <2>4 DEF BatchIsTrue, Base
  <2> QED
    BY <2>2, <2>3, <2>4, <2>5, <2>6, <2>7 DEF Converges
<1> QED
  BY <1>4, <1>5

\* An event that the OS hands over passes into the lane, or makes it overflow.
LEMMA ConvergesDeliver ==
  ASSUME WatchTypeOK, Deliver, ~lost', NEW n \in Names, Converges(n)
  PROVE  Converges(n)'
<1>1. PICK e \in Events : e = Head(reported)
  BY DEF Deliver, WatchTypeOK
<1>2. PICK m : m = [watch |-> watch, name |-> e.name, kind |-> e.kind]
  OBVIOUS
<1>3. Push(m) /\ ~Outdated(e) /\ UNCHANGED <<disk, pend, batch, watch, base, locked, listing>>
  BY <1>1, <1>2 DEF Deliver, world, tab, focusing
<1>4. /\ DOMAIN reported = 1..Len(reported) /\ Len(reported) \in Nat /\ Len(reported) > 0
      /\ DOMAIN reported' = 1..(Len(reported) - 1) /\ reported[1] = e
      /\ \A k \in DOMAIN reported' : reported'[k] = reported[k + 1]
  BY <1>1 DEF Deliver, WatchTypeOK
<1>5. DOMAIN raw = 1..Len(raw) /\ Len(raw) \in Nat
  BY DEF WatchTypeOK
<1>6. \/ /\ raw' = raw /\ overflow' = overflow \cup {watch} /\ Len(raw) = RawCap
      \/ /\ overflow' = overflow /\ DOMAIN raw' = 1..(Len(raw) + 1)
         /\ \A k \in DOMAIN raw : raw'[k] = raw[k]
         /\ raw'[Len(raw) + 1] = m
  <2>1. CASE Len(raw) < RawCap
    <3>1. raw' = Append(raw, m) /\ overflow' = overflow /\ raw \in Seq(Mutations) /\ m \in Mutations
      BY <1>2, <1>3, <2>1 DEF Push, WatchTypeOK, Mutations, Events
    <3>2. /\ DOMAIN raw' = 1..(Len(raw) + 1)
          /\ \A k \in DOMAIN raw : raw'[k] = raw[k]
          /\ raw'[Len(raw) + 1] = m
      BY <1>5, <3>1
    <3> QED
      BY <3>1, <3>2
  <2>2. CASE ~(Len(raw) < RawCap)
    <3>1. raw' = raw /\ overflow' = overflow \cup {watch}
      BY <1>2, <1>3, <2>2 DEF Push
    <3>2. Len(raw) = RawCap
      <4>1. Len(raw) <= RawCap /\ RawCap \in Nat
        BY WatchAssumption DEF WatchTypeOK, WatchAssumption
      <4>2. \A c, d \in Nat : c <= d /\ ~(c < d) => c = d
        OBVIOUS
      <4> QED
        BY <1>5, <2>2, <4>1, <4>2
    <3> QED
      BY <3>1, <3>2
  <2> QED
    BY <2>1, <2>2
<1>7. ReportIsTrue(n)'
  <2> SUFFICES ASSUME NEW k \in DOMAIN reported', reported'[k].name = n, reported'[k].kind = "removed",
                      \A l \in DOMAIN reported' : l > k => reported'[l].name # n
               PROVE  disk'[n] = 0
    BY DEF ReportIsTrue
  <2>1. k + 1 \in DOMAIN reported /\ reported[k + 1].name = n /\ reported[k + 1].kind = "removed"
    BY <1>4
  <2>2. ASSUME NEW l \in DOMAIN reported, l > k + 1 PROVE reported[l].name # n
    <3>1. l - 1 \in DOMAIN reported' /\ l - 1 > k /\ reported'[l - 1] = reported[l]
      BY <1>4, <2>2
    <3> QED
      BY <3>1
  <2> QED
    BY <1>3, <2>1, <2>2 DEF ReportIsTrue, Converges
<1>8. CASE Told(n)'
  BY <1>7, <1>8 DEF Converges
<1>9. CASE ~Told(n)'
  <2>1. ASSUME NEW l \in DOMAIN reported, l > 1 PROVE reported[l].name # n
    <3>1. l - 1 \in DOMAIN reported' /\ reported'[l - 1] = reported[l]
      BY <1>4, <2>1
    <3> QED
      BY <1>9, <3>1 DEF Told
  <2>2. CASE e.name = n
    <3>1. e.kind = "removed" => disk[n] = 0
      BY <1>4, <2>1, <2>2 DEF Converges, ReportIsTrue
    <3>2. CASE raw' = raw /\ overflow' = overflow \cup {watch} /\ Len(raw) = RawCap
      <4>1. ASSUME NEW k \in DOMAIN raw, OfTab(k), raw[k].name = n, raw[k].kind = "removed"
            PROVE  disk[n] = 0
        <5>1. raw[k] \in Mutations
          BY DEF WatchTypeOK
        <5>2. raw[k] = [watch |-> watch, name |-> e.name, kind |-> "removed"]
          BY <2>2, <4>1, <5>1 DEF OfTab, Mutations
        <5>3. e.kind = "removed"
          BY <1>3, <3>2, <5>2 DEF Outdated
        <5> QED
          BY <3>1, <5>3
      <4>2. RawIsTrue(n)'
        BY <1>3, <3>2, <4>1 DEF RawIsTrue, OfTab
      <4> QED
        BY <1>3, <1>7, <3>2, <4>2 DEF Converges
    <3>3. CASE /\ overflow' = overflow /\ DOMAIN raw' = 1..(Len(raw) + 1)
               /\ \A k \in DOMAIN raw : raw'[k] = raw[k]
               /\ raw'[Len(raw) + 1] = m
      <4>1. InRaw(n)'
        BY <1>2, <1>3, <1>5, <2>2, <3>3 DEF InRaw, OfTab
      <4>2. RawIsTrue(n)'
        BY <1>2, <1>3, <1>5, <2>2, <3>1, <3>3 DEF RawIsTrue, OfTab
      <4> QED
        BY <1>7, <4>1, <4>2 DEF Converges
    <3> QED
      BY <1>6, <3>2, <3>3
  <2>3. CASE e.name # n
    <3>1. ~Told(n)
      BY <1>4, <2>1, <2>3 DEF Told
    <3>2. InRaw(n) => InRaw(n)'
      BY <1>3, <1>5, <1>6 DEF InRaw, OfTab
    <3>3. RawIsTrue(n)'
      <4>0. RawIsTrue(n)
        BY <3>1 DEF Converges
      <4>1. CASE raw' = raw
        BY <1>3, <4>0, <4>1 DEF RawIsTrue, OfTab
      <4>2. CASE /\ DOMAIN raw' = 1..(Len(raw) + 1)
                 /\ \A k \in DOMAIN raw : raw'[k] = raw[k]
                 /\ raw'[Len(raw) + 1] = m
        <5> SUFFICES ASSUME NEW k \in DOMAIN raw', OfTab(k)', raw'[k].name = n, raw'[k].kind = "removed",
                            \A l \in DOMAIN raw' : l > k /\ OfTab(l)' => raw'[l].name # n
                     PROVE  disk'[n] = 0
          BY DEF RawIsTrue
        <5>1. k \in DOMAIN raw /\ OfTab(k) /\ raw[k].name = n /\ raw[k].kind = "removed"
          BY <1>2, <1>3, <1>5, <2>3, <4>2 DEF OfTab
        <5>2. \A l \in DOMAIN raw : l > k /\ OfTab(l) => raw[l].name # n
          BY <1>3, <1>5, <4>2 DEF OfTab
        <5> QED
          BY <1>3, <4>0, <5>1, <5>2 DEF RawIsTrue
      <4> QED
        BY <1>6, <4>1, <4>2
    <3>4. watch \in overflow => watch' \in overflow'
      BY <1>3, <1>6
    <3>5. /\ PendIsTrue(n) => PendIsTrue(n)'
          /\ PendHas(n) \/ BatchIsTrue(n) => PendHas(n)' \/ BatchIsTrue(n)'
      BY <1>3 DEF PendIsTrue, PendHas, BatchIsTrue, Base
    <3> QED
      BY <1>7, <3>1, <3>2, <3>3, <3>4, <3>5 DEF Converges
  <2> QED
    BY <2>2, <2>3
<1> QED
  BY <1>8, <1>9

\* What the lane says of a child is what the pending state says of it then.
LEMMA RecordSays ==
  ASSUME WatchTypeOK, NEW n \in Names, RawIsTrue(n),
         InRaw(n) \/ PendIsTrue(n)
  PROVE  LET p == Record(watch) IN
         /\ p.unresolved \/ n \in p.changed \/ (n \in p.removed => disk[n] = 0)
         /\ InRaw(n) \/ PendHas(n) => p.unresolved \/ n \in p.changed \cup p.removed
<1>1. PICK says : says = [kind \in Kinds |-> {a \in Names : LastSays(watch, a, kind)}]
  OBVIOUS
<1>2. /\ Record(watch).changed = (pend[watch].changed \ says["removed"]) \cup says["changed"]
      /\ Record(watch).removed = (pend[watch].removed \ says["changed"]) \cup says["removed"]
      /\ Record(watch).unresolved <=>
           (pend[watch].unresolved \/ \E k \in DOMAIN raw : raw[k].watch = watch /\ raw[k].kind = "unresolved")
  BY <1>1 DEF Record, Kinds
<1>3. raw \in Seq(Mutations) /\ DOMAIN raw = 1..Len(raw) /\ Len(raw) \in Nat
  BY DEF WatchTypeOK
<1>4. CASE InRaw(n)
  <2>1. PICK at : at = {k \in DOMAIN raw : OfTab(k) /\ raw[k].name = n}
    OBVIOUS
  <2>2. at \in SUBSET DOMAIN raw /\ at # {}
    BY <1>4, <2>1 DEF InRaw
  <2>3. PICK k \in at : \A l \in at : l <= k
    BY <1>3, <2>2, LastPosition
  <2>m. k \in DOMAIN raw /\ raw[k] \in Mutations
    BY <1>3, <2>1, <2>3
  <2>4. k \in DOMAIN raw /\ raw[k].watch = watch /\ raw[k].name = n /\ raw[k].kind \in Kinds
    BY <2>m, <2>1, <2>3 DEF OfTab, Mutations
  <2>5. \A l \in DOMAIN raw : ~(l > k /\ raw[l].watch = watch /\ raw[l].name = n)
    BY <1>3, <2>1, <2>3 DEF OfTab
  <2>6. raw[k] = [watch |-> watch, name |-> n, kind |-> raw[k].kind]
    BY <2>m, <2>4 DEF Mutations
  <2>7. n \in says[raw[k].kind]
    BY <1>1, <2>4, <2>5, <2>6 DEF LastSays
  <2>8. raw[k].kind = "removed" => disk[n] = 0
    BY <2>4, <2>5 DEF RawIsTrue, OfTab
  <2>9. CASE raw[k].kind = "unresolved"
    BY <1>2, <2>4, <2>9
  <2>10. CASE raw[k].kind = "changed"
    BY <1>2, <2>7, <2>10
  <2>11. CASE raw[k].kind = "removed"
    BY <1>2, <2>7, <2>8, <2>11
  <2> QED
    BY <2>4, <2>9, <2>10, <2>11 DEF Kinds
<1>5. CASE ~InRaw(n)
  <2>1. \A kind \in Kinds : n \notin says[kind]
    BY <1>1, <1>5 DEF LastSays, InRaw, OfTab
  <2>2. n \notin says["changed"] /\ n \notin says["removed"]
    BY <2>1 DEF Kinds
  <2>3. PendIsTrue(n)
    BY <1>5
  <2> QED
    BY <1>2, <1>5, <2>2, <2>3 DEF PendIsTrue, PendHas
<1> QED
  BY <1>4, <1>5

\* The compactor's steps.
LEMMA ConvergesCompactor ==
  ASSUME TabOK, Compactor, ~lost', NEW n \in Names, Converges(n)
  PROVE  Converges(n)'
<1>t. WatchTypeOK /\ WatchTypeOK'
  BY TabTypes DEF TabOK, Next
<1>w. watch \in WatchIds /\ watch' = watch /\ UNCHANGED <<disk, reported, locked, listing>>
  BY <1>t DEF Compactor, WatchTypeOK, Drain, Find, ReadFails, Store, Emit, TakeOverflow, Flush, Read,
     world, lane, tab, focusing
<1>r. ReportIsTrue(n)' /\ Told(n)' = Told(n)
  BY <1>w DEF Converges, ReportIsTrue, Told
<1>1. CASE Told(n)
  BY <1>1, <1>r DEF Converges
<1>2. CASE ~Told(n)
  <2>o. /\ RawIsTrue(n)
        /\ InRaw(n) \/ watch \in overflow \/ (PendIsTrue(n) /\ (PendHas(n) \/ BatchIsTrue(n)))
    BY <1>2 DEF Converges
  <2>r. raw' = raw => RawIsTrue(n)' /\ InRaw(n)' = InRaw(n)
    BY <1>w, <2>o DEF RawIsTrue, InRaw, OfTab
  <2>1. ASSUME NEW i \in WatchIds, TakeOverflow(i) PROVE Converges(n)'
    <3>1. /\ overflow' = overflow \ {i} /\ pend' = [pend EXCEPT ![i] = Untouched] /\ raw' = raw /\ base' = base
          /\ batch.stage = "none" /\ batch'.watch = i /\ batch'.stage = "find" /\ batch'.dirty
      BY <2>1 DEF TakeOverflow, Idle, Working, tab
    <3>2. CASE i = watch
      <4>1. pend'[watch] = Untouched
        BY <1>t, <1>w, <3>1, <3>2 DEF WatchTypeOK
      <4>2. PendIsTrue(n)'
        BY <1>w, <4>1 DEF PendIsTrue, Untouched
      <4>3. BatchIsTrue(n)'
        BY <1>w, <3>1, <3>2 DEF BatchIsTrue
      <4> QED
        BY <1>r, <2>r, <3>1, <4>2, <4>3 DEF Converges
    <3>3. CASE i # watch
      <4>1. pend'[watch] = pend[watch] /\ (watch \in overflow => watch \in overflow')
        BY <1>t, <1>w, <3>1, <3>3 DEF WatchTypeOK
      <4>2. PendIsTrue(n)' = PendIsTrue(n) /\ PendHas(n)' = PendHas(n)
        BY <1>w, <4>1 DEF PendIsTrue, PendHas
      <4>3. BatchIsTrue(n)' = BatchIsTrue(n)
        BY <1>w, <3>1, <3>3 DEF BatchIsTrue, Base
      <4> QED
        BY <1>r, <1>w, <2>o, <2>r, <3>1, <4>1, <4>2, <4>3 DEF Converges
    <3> QED
      BY <3>2, <3>3
  <2>2. CASE Drain
    <3>1. /\ raw' = <<>> /\ pend'[watch] = Record(watch)
          /\ UNCHANGED <<overflow, batch, base>>
      BY <2>2, <1>w DEF Drain, tab
    <3>2. RawIsTrue(n)'
      BY <3>1 DEF RawIsTrue
    <3>3. CASE watch \in overflow
      BY <1>r, <1>w, <3>1, <3>2, <3>3 DEF Converges
    <3>4. CASE watch \notin overflow
      <4>1. InRaw(n) \/ PendIsTrue(n)
        BY <2>o, <3>4
      <4>2. /\ Record(watch).unresolved \/ n \in Record(watch).changed
                \/ (n \in Record(watch).removed => disk[n] = 0)
            /\ InRaw(n) \/ PendHas(n) => Record(watch).unresolved
                 \/ n \in Record(watch).changed \cup Record(watch).removed
        BY <1>t, <2>o, <4>1, RecordSays
      <4>3. PendIsTrue(n)' /\ (InRaw(n) \/ PendHas(n) => PendHas(n)')
        BY <1>w, <3>1, <4>2 DEF PendIsTrue, PendHas
      <4>4. BatchIsTrue(n)' = BatchIsTrue(n)
        BY <1>w, <3>1 DEF BatchIsTrue, Base
      <4> QED
        BY <1>r, <2>o, <3>2, <3>4, <4>3, <4>4 DEF Converges
    <3> QED
      BY <3>3, <3>4
  <2>3. ASSUME NEW i \in WatchIds, Flush(i) PROVE Converges(n)'
    <3>1. /\ pend' = [pend EXCEPT ![i] = Untouched] /\ UNCHANGED <<raw, overflow, base>>
          /\ batch.stage = "none" /\ batch'.watch = i /\ batch'.stage = "find"
          /\ batch'.left = pend[i].changed /\ batch'.removed = pend[i].removed
          /\ pend[i].unresolved => batch'.dirty
      BY <2>3 DEF Flush, Idle, Working, lane, tab
    <3>2. CASE i = watch
      <4>1. pend'[watch] = Untouched
        BY <1>t, <1>w, <3>1, <3>2 DEF WatchTypeOK
      <4>2. PendIsTrue(n)'
        BY <1>w, <4>1 DEF PendIsTrue, Untouched
      <4>3. PendIsTrue(n) /\ (PendHas(n) \/ BatchIsTrue(n)) => BatchIsTrue(n)'
        BY <1>w, <3>1, <3>2 DEF PendIsTrue, PendHas, BatchIsTrue, Base
      <4> QED
        BY <1>r, <1>w, <2>o, <2>r, <3>1, <4>2, <4>3 DEF Converges
    <3>3. CASE i # watch
      <4>1. pend'[watch] = pend[watch]
        BY <1>t, <1>w, <3>1, <3>3 DEF WatchTypeOK
      <4>2. PendIsTrue(n)' = PendIsTrue(n) /\ PendHas(n)' = PendHas(n)
        BY <1>w, <4>1 DEF PendIsTrue, PendHas
      <4>3. BatchIsTrue(n)' = BatchIsTrue(n)
        BY <1>w, <3>1, <3>3 DEF BatchIsTrue, Base
      <4> QED
        BY <1>r, <1>w, <2>o, <2>r, <3>1, <4>2, <4>3 DEF Converges
    <3> QED
      BY <3>2, <3>3
  <2>4. ASSUME UNCHANGED <<raw, overflow, pend>>, BatchIsTrue(n) => BatchIsTrue(n)' PROVE Converges(n)'
    <3>1. PendIsTrue(n)' = PendIsTrue(n) /\ PendHas(n)' = PendHas(n)
      BY <1>w, <2>4 DEF PendIsTrue, PendHas
    <3> QED
      BY <1>r, <1>w, <2>o, <2>r, <2>4, <3>1 DEF Converges
  <2>5. CASE Find
    <3>1. ~locked /\ base' = base /\ batch.stage = "find"
      BY <2>5 DEF Find, Working, tab
    <3>2. CASE batch.watch # watch
      <4>1. batch' = Idle
        BY <2>5, <3>2 DEF Find
      <4>2. BatchIsTrue(n)' = BatchIsTrue(n)
        BY <1>w, <3>1, <3>2, <4>1 DEF BatchIsTrue, Base, Idle
      <4> QED
        BY <2>4, <2>5, <4>2 DEF Find, lane
    <3>3. CASE batch.watch = watch
      <4>1. /\ batch'.stage = "read" /\ batch'.watch = watch
            /\ batch'.left = IF batch.dirty THEN Names ELSE batch.left
            /\ batch'.next[n] = IF batch.dirty \/ n \in batch.removed THEN 0 ELSE base[n]
        BY <1>t, <2>5, <3>3 DEF Find, WatchTypeOK, Batches
      <4>2. BatchIsTrue(n) => BatchIsTrue(n)'
        BY <1>w, <3>1, <3>3, <4>1 DEF BatchIsTrue, Base
      <4> QED
        BY <2>4, <2>5, <4>2 DEF Find, lane
    <3> QED
      BY <3>2, <3>3
  <2>6. ASSUME NEW m \in Names, Read(m) PROVE Converges(n)'
    <3>1. batch.stage = "read" /\ base' = base
      BY <2>6 DEF Read, Working, tab
    <3>2. batch' = [batch EXCEPT !.left = batch.left \ {m}, !.next = [batch.next EXCEPT ![m] = disk[m]]]
      BY <2>6 DEF Read
    <3>3. /\ batch'.stage = "read" /\ batch'.watch = batch.watch /\ batch'.left = batch.left \ {m}
          /\ batch'.next[n] = IF n = m THEN disk[n] ELSE batch.next[n]
      BY <1>t, <3>1, <3>2 DEF WatchTypeOK, Batches, Snapshots
    <3>4. BatchIsTrue(n) => BatchIsTrue(n)'
      BY <1>w, <3>1, <3>3 DEF BatchIsTrue, Base
    <3> QED
      BY <2>4, <2>6, <3>4 DEF Read, lane
  <2>7. CASE Store
    <3>1. ~locked /\ batch.stage = "read" /\ batch.left = {}
      BY <2>7 DEF Store, Working
    <3>2. CASE batch.watch # watch
      <4>1. batch' = Idle /\ base' = base
        BY <2>7, <3>2 DEF Store
      <4>2. BatchIsTrue(n)' = BatchIsTrue(n)
        BY <1>w, <3>1, <3>2, <4>1 DEF BatchIsTrue, Base, Idle
      <4> QED
        BY <2>4, <2>7, <4>2 DEF Store, lane
    <3>3. CASE batch.watch = watch
      <4>1. base' = batch.next /\ batch'.stage \in {"none", "emit"}
        BY <1>t, <2>7, <3>3 DEF Store, Idle, WatchTypeOK, Batches
      <4>2. BatchIsTrue(n) => BatchIsTrue(n)'
        BY <1>w, <3>1, <3>3, <4>1 DEF BatchIsTrue, Base
      <4> QED
        BY <2>4, <2>7, <4>2 DEF Store, lane
    <3> QED
      BY <3>2, <3>3
  <2>8. CASE Emit
    <3>1. batch.stage = "emit" /\ batch' = Idle /\ base' = base
      BY <2>8 DEF Emit, Working
    <3>2. BatchIsTrue(n)' = BatchIsTrue(n)
      BY <1>w, <3>1 DEF BatchIsTrue, Base, Idle
    <3> QED
      BY <2>4, <2>8, <3>2 DEF Emit, lane
  <2>9. ~ReadFails
    BY DEF ReadFails
  <2> QED
    BY <2>1, <2>2, <2>3, <2>5, <2>6, <2>7, <2>8, <2>9 DEF Compactor
<1> QED
  BY <1>1, <1>2

\* Every step keeps the snapshot on its way to the directory.
LEMMA WatchStep == WatchIInv /\ [Next]_vars => WatchIInv'
<1> SUFFICES ASSUME WatchIInv, [Next]_vars, ~lost', NEW n \in Names PROVE TabOK' /\ Converges(n)'
  BY TabStep DEF WatchIInv
<1>t. TabOK /\ TabOK' /\ WatchTypeOK
  BY TabStep DEF WatchIInv, TabOK
<1>c. ~lost => Converges(n)
  BY DEF WatchIInv
<1>1. ASSUME NEW m \in Names, Mutate(m) PROVE Converges(n)'
  BY <1>t, <1>c, <1>1, ConvergesMutate DEF Mutate
<1>2. ~DropEvent
  BY DEF DropEvent
<1>3. CASE Deliver
  BY <1>t, <1>c, <1>3, ConvergesDeliver DEF Deliver
<1>4. CASE Compactor
  <2>1. lost' = lost \/ lost'
    BY <1>4 DEF Compactor, Drain, Find, ReadFails, Store, Emit, TakeOverflow, Flush, Read
  <2> QED
    BY <1>t, <1>c, <1>4, <2>1, ConvergesCompactor
<1>5. CASE \/ Focus \/ Relist \/ ReadSeed
           \/ \E t \in Workers : ReconcileFails(t)
           \/ UNCHANGED vars
  <2>1. /\ UNCHANGED <<disk, reported, raw, overflow, pend, batch, watch, base, lost>>
        /\ locked' = locked /\ listing' = listing
    BY <1>5 DEF Focus, Relist, ReadSeed, ReconcileFails, vars, world, lane, tab, rearming, focusing
  <2>2. Base' = Base
    BY <2>1 DEF Base
  <2> QED
    BY <1>t, <1>c, <2>1, <2>2, ConvergesKept
<1>6. ASSUME NEW t \in Workers, ReconcileStore(t) PROVE Converges(n)'
  <2>1. /\ UNCHANGED <<disk, reported, raw, overflow, pend, batch, watch, lost>>
        /\ locked /\ ~locked' /\ base' = listing
    BY <1>t, <1>6 DEF ReconcileStore, world, lane, WatchTypeOK
  <2>2. Base' = Base
    BY <2>1 DEF Base
  <2> QED
    BY <1>c, <2>1, <2>2, ConvergesKept
<1>7. ASSUME NEW t \in Workers, ReconcileList(t) PROVE Converges(n)'
  <2>1. /\ UNCHANGED <<disk, reported, raw, overflow, pend, batch, watch>>
        /\ ~locked /\ locked' = TRUE /\ listing' = disk
        /\ lost => AtRest
    BY <1>7 DEF ReconcileList, world, lane, tab
  <2>2. Base' = disk /\ disk' = disk
    BY <2>1 DEF Base
  <2>3. CASE AtRest
    <3>1. pend[watch] = Untouched /\ reported = <<>> /\ raw = <<>> /\ batch.stage = "none"
      BY <1>t, <2>3 DEF AtRest, WatchTypeOK
    <3>2. ReportIsTrue(n)' /\ RawIsTrue(n)'
      BY <2>1, <3>1 DEF ReportIsTrue, RawIsTrue
    <3>3. PendIsTrue(n)' /\ BatchIsTrue(n)'
      BY <2>1, <2>2, <3>1 DEF PendIsTrue, BatchIsTrue, Untouched
    <3> QED
      BY <3>2, <3>3 DEF Converges
  <2>4. CASE ~lost
    <3>1. /\ ReportIsTrue(n)' = ReportIsTrue(n) /\ Told(n)' = Told(n) /\ RawIsTrue(n)' = RawIsTrue(n)
          /\ InRaw(n)' = InRaw(n) /\ PendIsTrue(n)' = PendIsTrue(n) /\ PendHas(n)' = PendHas(n)
      BY <2>1 DEF ReportIsTrue, Told, RawIsTrue, InRaw, OfTab, PendIsTrue, PendHas
    <3>2. BatchIsTrue(n) => BatchIsTrue(n)'
      BY <2>1, <2>2 DEF BatchIsTrue
    <3> QED
      BY <1>c, <2>1, <2>4, <3>1, <3>2 DEF Converges
  <2> QED
    BY <2>1, <2>3, <2>4
<1>8. CASE Arm
  <2>1. /\ UNCHANGED <<disk, reported, raw, overflow, pend, batch, locked>>
        /\ ~locked /\ watch' = watch + 1 /\ base' = seed
        /\ ~lost /\ (seed[n] = disk[n] \/ \E k \in DOMAIN reported : reported[k].name = n)
    BY <1>8 DEF Arm, world, lane, focusing
  <2>2. ReportIsTrue(n)'
    BY <1>c, <2>1 DEF Converges, ReportIsTrue
  <2>3. watch' \in Later
    BY <1>t, <2>1 DEF TabOK, WatchTypeOK, Later, WatchIds
  <2>4. \A k \in DOMAIN raw : raw[k].watch # watch'
    BY <1>t, <2>3 DEF TabOK, NothingLater
  <2>5. RawIsTrue(n)'
    BY <2>1, <2>4 DEF RawIsTrue, OfTab
  <2>6. pend[watch'] = Untouched /\ (batch.stage # "none" => batch.watch # watch')
    BY <1>t, <2>3 DEF TabOK, NothingLater
  <2>7. PendIsTrue(n)'
    BY <2>1, <2>6 DEF PendIsTrue, Untouched
  <2>8. seed[n] = disk[n] => BatchIsTrue(n)'
    BY <2>1, <2>6 DEF BatchIsTrue, Base
  <2>9. Told(n)' = \E k \in DOMAIN reported : reported[k].name = n
    BY <2>1 DEF Told
  <2> QED
    BY <1>t, <2>1, <2>2, <2>5, <2>7, <2>8, <2>9 DEF Converges
<1> QED
  BY <1>t, <1>1, <1>2, <1>3, <1>4, <1>5, <1>6, <1>7, <1>8 DEF Next, Reconciler

LEMMA WatchStart == Init => WatchIInv
<1> SUFFICES ASSUME Init, NEW n \in Names PROVE TabOK /\ Converges(n)
  BY TabStart DEF WatchIInv
<1>1. ReportIsTrue(n) /\ RawIsTrue(n)
  BY DEF Init, ReportIsTrue, RawIsTrue
<1>2. watch \in WatchIds
  BY TabStart DEF TabOK, WatchTypeOK
<1>3. PendIsTrue(n) /\ BatchIsTrue(n)
  BY <1>2 DEF Init, PendIsTrue, BatchIsTrue, Base, Idle, Untouched
<1> QED
  BY <1>1, <1>3, TabStart DEF Converges

\* However events, batches, overflows, comparisons and new listings interleave
\* (the callback, the compactor's loop, process_compacted_batch, reconcile_tabs,
\* set_tab_watch), a snapshot at rest is the directory, unless a mutation was
\* lost for good.
THEOREM SnapshotFollows == Spec => []WatchInv
<1>1. WatchIInv => WatchInv
  <2> SUFFICES ASSUME WatchIInv, Quiet, ~lost PROVE WatchTypeOK /\ base = disk
    BY DEF WatchIInv, TabOK, WatchInv, SnapshotIsDisk
  <2>1. WatchTypeOK
    BY DEF WatchIInv, TabOK
  <2>2. pend[watch] = Untouched /\ reported = <<>> /\ raw = <<>> /\ overflow = {} /\ batch.stage = "none" /\ ~locked
    BY <2>1 DEF Quiet, AtRest, WatchTypeOK
  <2>3. ASSUME NEW n \in Names PROVE base[n] = disk[n]
    BY <2>2 DEF WatchIInv, Converges, Told, InRaw, PendHas, BatchIsTrue, Base, Untouched
  <2> QED
    BY <2>1, <2>3 DEF WatchTypeOK, Snapshots
<1>2. QED
  BY <1>1, WatchStart, WatchStep, PTL DEF Spec

\* The tab's comparisons are the ones of the focus reconciliation.
THEOREM WatchFocuses == Spec => FocusSpec
<1>1. Init => FocusInit
  BY DEF Init
<1> QED
  BY <1>1, FocusStep, PTL DEF Spec, FocusSpec

-----------------------------------------------------------------------------
(* What is shown is the snapshot.                                          *)

LEMMA UnfocusedStep ==
  ASSUME TabOK, Unfocused, [Next]_vars PROVE Unfocused' /\ (gen' = 0 => gen = 0)
<1>1. gen \in Nat /\ worker \in [Workers -> Places]
  BY DEF TabOK, WatchTypeOK, FocusTypeOK
<1>2. [FocusNext]_focusVars
  BY FocusStep
<1>3. ASSUME gen' = 0 PROVE gen = 0 /\ ~bumped' /\ worker' = worker
  <2>1. CASE Bump
    BY <1>1, <1>3, <2>1 DEF Bump
  <2>2. CASE Spawn
    BY <1>3, <2>2 DEF Spawn, Unfocused
  <2>3. ASSUME NEW t \in Workers, Drains(t) \/ Work(t) PROVE FALSE
    <3>1. gen' = gen /\ worker[t] # "none"
      BY <2>3 DEF Drains, Work, LetWork, Refuse, Check, Guard, Look, Clear, Recheck, Reclaim, Reload, Go
    <3> QED
      BY <1>3, <3>1 DEF Unfocused
  <2>4. CASE UNCHANGED focusVars
    BY <1>3, <2>4 DEF focusVars, Unfocused
  <2> QED
    BY <1>2, <2>1, <2>2, <2>3, <2>4 DEF FocusNext
<1>4. ASSUME gen = 0 PROVE ~locked'
  <2>1. \A t \in Workers : ~ReconcileList(t)
    BY <1>4 DEF Unfocused, ReconcileList
  <2>2. locked' = locked \/ \E t \in Workers : ReconcileStore(t)
    BY <2>1 DEF Next, Mutate, DropEvent, Deliver, Compactor, Drain, Find, ReadFails, Store, Emit,
       TakeOverflow, Flush, Read, Focus, Reconciler, ReconcileFails, Relist, ReadSeed, Arm, vars, focusing
  <2> QED
    BY <1>4, <2>2 DEF Unfocused, ReconcileStore
<1> QED
  BY <1>3, <1>4 DEF Unfocused

\* While only the compactor publishes, the session's snapshot takes every step
\* of the tab's.
LEMMA ShownStep == ShownIInv /\ [Next]_vars => ShownIInv'
<1> SUFFICES ASSUME ShownIInv, [Next]_vars, gen' = 0, watch' = 1, arming' = "none"
             PROVE  ShownFollows'
  BY TabStep, UnfocusedStep DEF ShownIInv, ShownFollows
<1>t. TabOK /\ WatchTypeOK
  BY DEF ShownIInv, TabOK
<1>g. gen = 0 /\ ~locked /\ \A t \in Workers : worker[t] = "none"
  BY UnfocusedStep DEF ShownIInv, Unfocused
<1>1. ~Relist /\ ~ReadSeed
  BY DEF Relist, ReadSeed
<1>2. ~Arm
  BY <1>t DEF Arm, WatchTypeOK, WatchIds
<1>3. ~Reconciler
  BY <1>g DEF Reconciler, ReconcileList, ReconcileStore, ReconcileFails, Work, Go
<1>4. CASE \/ \E n \in Names : Mutate(n)
           \/ DropEvent \/ Deliver \/ Focus \/ UNCHANGED vars
  <2>1. UNCHANGED <<batch, watch, base, shown, arming>>
    BY <1>4 DEF Mutate, DropEvent, Deliver, Focus, vars, tab, rearming
  <2> QED
    BY <1>g, <2>1 DEF ShownIInv, ShownFollows
<1>5. CASE Compactor
  <2>1. watch = 1 /\ arming = "none"
    BY <1>5 DEF Compactor, Drain, Find, ReadFails, Store, Emit, TakeOverflow, Flush, Read, tab, rearming
  <2>2. IF batch.stage = "emit" THEN shown = batch.prev /\ base = batch.next
        ELSE shown = base /\ (batch.stage = "read" => batch.prev = base)
    BY <1>g, <2>1 DEF ShownIInv, ShownFollows
  <2>3. batch.stage # "none" => batch.watch = 1
    BY <1>t, <2>1 DEF TabOK, NothingLater, Later, WatchTypeOK, Batches, WatchIds
  <2>4. CASE \/ Drain \/ ReadFails
             \/ \E i \in WatchIds : TakeOverflow(i) \/ Flush(i)
    <3>1. batch.stage # "emit" /\ shown' = shown /\ base' = base
      BY <2>4 DEF Drain, ReadFails, TakeOverflow, Flush, Working, tab
    <3>2. ASSUME Drain PROVE batch' = batch
      BY <3>2 DEF Drain
    <3>3. ASSUME ReadFails PROVE batch'.stage = "none"
      BY <3>3 DEF ReadFails, Idle
    <3>4. ASSUME NEW i \in WatchIds, TakeOverflow(i) PROVE batch'.stage = "find"
      BY <3>4 DEF TakeOverflow, Idle
    <3>5. ASSUME NEW i \in WatchIds, Flush(i) PROVE batch'.stage = "find"
      <4>1. \E d : batch' = [Idle EXCEPT !.stage = "find", !.watch = i, !.dirty = d,
                                       !.left = pend[i].changed, !.removed = pend[i].removed]
        BY <3>5 DEF Flush
      <4> QED
        BY <4>1 DEF Idle
    <3>6. batch' = batch \/ batch'.stage \notin {"emit", "read"}
      BY <2>4, <3>2, <3>3, <3>4, <3>5
    <3> QED
      BY <2>2, <3>1, <3>6 DEF ShownFollows
  <2>5. CASE Find
    <3>1. batch.stage = "find" /\ shown' = shown /\ base' = base
      BY <2>5 DEF Find, Working, tab
    <3>2. batch'.stage = "read" /\ batch'.prev = base
      BY <1>t, <2>1, <2>3, <2>5, <3>1 DEF Find, WatchTypeOK, Batches
    <3> QED
      BY <2>2, <3>1, <3>2 DEF ShownFollows
  <2>6. ASSUME NEW n \in Names, Read(n) PROVE ShownFollows'
    <3>1. batch.stage = "read" /\ shown' = shown /\ base' = base
      BY <2>6 DEF Read, Working, tab
    <3>2. batch' = [batch EXCEPT !.left = batch.left \ {n}, !.next = [batch.next EXCEPT ![n] = disk[n]]]
      BY <2>6 DEF Read
    <3>3. batch'.stage = "read" /\ batch'.prev = batch.prev
      BY <1>t, <3>1, <3>2 DEF WatchTypeOK, Batches
    <3> QED
      BY <2>2, <3>1, <3>3 DEF ShownFollows
  <2>7. CASE Store
    <3>1. batch.stage = "read" /\ shown' = shown /\ base' = batch.next
      BY <2>1, <2>3, <2>7 DEF Store, Working
    <3>2. CASE batch.next = batch.prev
      <4>1. batch'.stage = "none"
        BY <2>1, <2>3, <2>7, <3>1, <3>2 DEF Store, Idle
      <4> QED
        BY <2>2, <3>1, <3>2, <4>1 DEF ShownFollows
    <3>3. CASE batch.next # batch.prev
      <4>1. batch' = [batch EXCEPT !.stage = "emit"]
        BY <2>1, <2>3, <2>7, <3>1, <3>3 DEF Store
      <4>2. batch'.stage = "emit" /\ batch'.prev = batch.prev /\ batch'.next = batch.next
        BY <1>t, <4>1 DEF WatchTypeOK, Batches
      <4> QED
        BY <2>2, <3>1, <4>2 DEF ShownFollows
    <3> QED
      BY <3>2, <3>3
  <2>8. CASE Emit
    <3>1. batch.stage = "emit" /\ batch'.stage = "none" /\ base' = base
          /\ shown' = Patched(shown, batch.prev, batch.next)
      BY <2>8 DEF Emit, Working, Idle
    <3>2. batch.prev \in Snapshots /\ batch.next \in Snapshots
      BY <1>t DEF WatchTypeOK, Batches
    <3>3. Patched(batch.prev, batch.prev, batch.next) = batch.next
      BY <3>2 DEF Patched, Snapshots
    <3> QED
      BY <2>2, <3>1, <3>3 DEF ShownFollows
  <2> QED
    BY <1>5, <2>4, <2>5, <2>6, <2>7, <2>8 DEF Compactor
<1> QED
  BY <1>1, <1>2, <1>3, <1>4, <1>5 DEF Next

LEMMA ShownStart == Init => ShownIInv
<1> SUFFICES ASSUME Init PROVE Unfocused /\ ShownFollows
  BY TabStart DEF ShownIInv
<1>1. Unfocused
  BY DEF Init, FocusInit, Unfocused
<1>2. ShownFollows
  BY DEF Init, ShownFollows, Idle
<1> QED
  BY <1>1, <1>2

\* As long as only the compactor publishes (process_compacted_batch's patches,
\* no focus event and no new listing), what the session shows at rest is the
\* tab's snapshot.
THEOREM ShownIsBase == Spec => []ShownIsSnapshot
<1>1. ShownIInv => ShownIsSnapshot
  BY DEF ShownIInv, ShownFollows, ShownIsSnapshot, Quiet, AtRest
<1> QED
  BY <1>1, ShownStart, ShownStep, PTL DEF Spec

-----------------------------------------------------------------------------
(* The counts of the watches of all tabs.                                  *)

RefSpec == RefInit /\ [][RefNext]_refVars

\* The table has one tab of a pane; the counts are its tabs unless a watch could
\* not be given up.
RefTypes ==
  /\ tabDir \in [WatchTabIds -> WatchedDirs \cup {Unwatched}]
  /\ refs \in [WatchedDirs -> Nat] /\ refusals \in Nat
OnePerPane == \A s, t \in Watched : PaneOf[s] = PaneOf[t] => s = t
RefIInv == RefTypes /\ CountsAreTabs /\ OnePerPane

\* A set of tabs shows a directory a number of times, no more than all do.
LEMMA ShowingBound ==
  ASSUME NEW d, NEW gone \in SUBSET WatchTabIds
  PROVE  /\ Showing(gone, d) \in Nat /\ Showing(WatchTabIds, d) \in Nat
         /\ Showing(gone, d) <= Showing(WatchTabIds, d)
         /\ Showing(WatchTabIds \ gone, d) = Showing(WatchTabIds, d) - Showing(gone, d)
<1> DEFINE S == {u \in WatchTabIds : tabDir[u] = d}
           T == {u \in gone : tabDir[u] = d}
<1>1. IsFiniteSet(S) /\ T \in SUBSET S
  BY RefAssumption, FS_Subset DEF RefAssumption
<1>2. /\ IsFiniteSet(T) /\ Cardinality(S) \in Nat /\ Cardinality(T) \in Nat
      /\ Cardinality(T) <= Cardinality(S)
  BY <1>1, FS_Subset, FS_CardinalityType
<1>3. Cardinality(S \ T) = Cardinality(S) - Cardinality(S \cap T)
  BY <1>1, FS_Difference
<1>4. S \cap T = T /\ S \ T = {u \in WatchTabIds \ gone : tabDir[u] = d}
  OBVIOUS
<1> QED
  BY <1>2, <1>3, <1>4 DEF Showing

\* Counts stay numbers.
LEMMA DropTyped ==
  ASSUME NEW counts \in [WatchedDirs -> Nat], NEW gone \in SUBSET WatchTabIds
  PROVE  DropRefs(counts, gone) \in [WatchedDirs -> Nat]
<1> SUFFICES ASSUME NEW d \in WatchedDirs
             PROVE (IF counts[d] > Showing(gone, d) THEN counts[d] - Showing(gone, d) ELSE 0) \in Nat
  BY DEF DropRefs
<1>1. Showing(gone, d) \in Nat /\ counts[d] \in Nat
  BY ShowingBound
<1>2. \A c, g \in Nat : (IF c > g THEN c - g ELSE 0) \in Nat
  OBVIOUS
<1> QED
  BY <1>1, <1>2, Zenon

\* A call that ends with its table has given up the watch of every tab it names;
\* one that ends before is counted, and leaves the table as it was.
LEMMA GiveEnds ==
  ASSUME NEW counts \in [WatchedDirs -> Nat], NEW own, NEW others,
         own \cup others \subseteq WatchTabIds, NEW table, refusals \in Nat,
         Give(counts, own, others, table)
  PROVE  /\ refs' \in [WatchedDirs -> Nat]
         /\ \/ /\ refs' = DropRefs(counts, own \cup others)
               /\ tabDir' = table /\ refusals' = refusals
            \/ tabDir' = tabDir /\ refusals' = refusals + 1
<1>1. PICK gone \in SUBSET (own \cup others) :
        /\ refs' = DropRefs(counts, gone)
        /\ \/ gone = own \cup others /\ tabDir' = table /\ refusals' = refusals
           \/ tabDir' = tabDir /\ refusals' = refusals + 1
  BY DEF Give
<1>2. refs' \in [WatchedDirs -> Nat]
  BY <1>1, DropTyped
<1> QED
  BY <1>1, <1>2

\* A tab that is given a directory: the others of its pane give theirs up.
LEMMA SetTabKeeps ==
  ASSUME RefIInv, NEW t \in WatchTabIds, NEW d \in WatchedDirs, SetTabWatch(t, d)
  PROVE  RefIInv'
<1> DEFINE stale  == {u \in Watched \ {t} : PaneOf[u] = PaneOf[t]}
           moves  == tabDir[t] # d
           own    == IF moves THEN Watched \cap {t} ELSE {}
           counts == [refs EXCEPT ![d] = IF moves THEN @ + 1 ELSE @]
           table  == [u \in WatchTabIds |-> IF u = t THEN d
                                            ELSE IF u \in stale THEN Unwatched ELSE tabDir[u]]
           gone   == own \cup stale
<1>u. Unwatched \notin WatchedDirs
  BY RefAssumption DEF RefAssumption
<1>1. counts \in [WatchedDirs -> Nat]
  BY DEF RefIInv, RefTypes
<1>2. gone \subseteq WatchTabIds /\ refusals \in Nat
  BY DEF Watched, RefIInv, RefTypes
<1>3. /\ refs' \in [WatchedDirs -> Nat]
      /\ \/ /\ refs' = DropRefs(counts, gone)
            /\ tabDir' = table /\ refusals' = refusals
         \/ tabDir' = tabDir /\ refusals' = refusals + 1
  <2>1. Give(counts, own, stale, table)
    BY DEF SetTabWatch
  <2> HIDE DEF counts, own, stale, table
  <2> QED
    BY <1>1, <1>2, <2>1, GiveEnds
<1>4. CASE tabDir' = tabDir /\ refusals' = refusals + 1
  BY <1>2, <1>3, <1>4 DEF RefIInv, RefTypes, CountsAreTabs, OnePerPane, Watched
<1>5. CASE refs' = DropRefs(counts, gone) /\ tabDir' = table /\ refusals' = refusals
  <2>1. RefTypes'
    BY <1>2, <1>3, <1>5 DEF RefIInv, RefTypes
  <2>2. OnePerPane'
    <3>1. \A u \in Watched' : u = t \/ (u \in Watched /\ u \notin stale)
      BY <1>5 DEF Watched
    <3> QED
      BY <3>1 DEF RefIInv, OnePerPane
  <2>3. ASSUME refusals = 0, NEW e \in WatchedDirs PROVE refs'[e] = Showing(WatchTabIds, e)'
    <3>1. refs[e] = Showing(WatchTabIds, e) /\ e # Unwatched
      BY <1>u, <2>3 DEF RefIInv, CountsAreTabs, Showing
    <3>2. /\ Showing(gone, e) \in Nat /\ refs[e] \in Nat /\ Showing(gone, e) <= refs[e]
          /\ Showing(WatchTabIds \ gone, e) = refs[e] - Showing(gone, e)
      BY <1>2, <3>1, ShowingBound
    <3>3. refs'[e] = IF counts[e] > Showing(gone, e) THEN counts[e] - Showing(gone, e) ELSE 0
      BY <1>5 DEF DropRefs
    <3>4. CASE moves /\ e = d
      <4>1. counts[e] = refs[e] + 1
        BY <3>4 DEF RefIInv, RefTypes
      <4>2. refs'[e] = Showing(WatchTabIds \ gone, e) + 1
        BY <3>2, <3>3, <4>1
      <4>3. {u \in WatchTabIds : table[u] = e} = {u \in WatchTabIds \ gone : tabDir[u] = e} \cup {t}
        BY <3>1, <3>4
      <4>4. t \notin {u \in WatchTabIds \ gone : tabDir[u] = e}
        BY <3>4
      <4>5. IsFiniteSet({u \in WatchTabIds \ gone : tabDir[u] = e})
        BY RefAssumption, FS_Subset DEF RefAssumption
      <4> DEFINE R == {u \in WatchTabIds \ gone : tabDir[u] = e}
      <4>6. Cardinality(R \cup {t}) = Cardinality(R) + 1
        <5> HIDE DEF gone
        <5> QED
          BY <4>4, <4>5, FS_AddElement
      <4>7. Showing(WatchTabIds, e)' = Cardinality({u \in WatchTabIds : table[u] = e})
        BY <1>5 DEF Showing
      <4> QED
        BY <4>2, <4>3, <4>6, <4>7 DEF Showing
    <3>5. CASE ~(moves /\ e = d)
      <4>1. counts[e] = refs[e]
        BY <3>5 DEF RefIInv, RefTypes
      <4>2. refs'[e] = Showing(WatchTabIds \ gone, e)
        BY <3>2, <3>3, <4>1
      <4>3. {u \in WatchTabIds : table[u] = e} = {u \in WatchTabIds \ gone : tabDir[u] = e}
        BY <3>1, <3>5 DEF Watched
      <4> QED
        BY <1>5, <4>2, <4>3 DEF Showing
    <3> QED
      BY <3>4, <3>5
  <2>4. CountsAreTabs'
    BY <1>5, <2>3 DEF CountsAreTabs, Showing
  <2> QED
    BY <2>1, <2>2, <2>4 DEF RefIInv
<1> QED
  BY <1>3, <1>4, <1>5

\* Without a target every tab gives its directory up.
LEMMA DisarmKeeps == RefIInv /\ Disarm => RefIInv'
<1> SUFFICES ASSUME RefIInv, Disarm PROVE RefIInv'
  OBVIOUS
<1> DEFINE table == [t \in WatchTabIds |-> Unwatched]
<1>u. Unwatched \notin WatchedDirs
  BY RefAssumption DEF RefAssumption
<1>1. Watched \subseteq WatchTabIds /\ refusals \in Nat /\ refs \in [WatchedDirs -> Nat]
  BY DEF Watched, RefIInv, RefTypes
<1>2. /\ refs' \in [WatchedDirs -> Nat]
      /\ \/ /\ refs' = DropRefs(refs, Watched)
            /\ tabDir' = table /\ refusals' = refusals
         \/ tabDir' = tabDir /\ refusals' = refusals + 1
  <2>1. Give(refs, {}, Watched, table) /\ {} \cup Watched = Watched
    BY DEF Disarm
  <2> HIDE DEF table
  <2> QED
    BY <1>1, <2>1, GiveEnds
<1>3. CASE tabDir' = tabDir /\ refusals' = refusals + 1
  BY <1>1, <1>2, <1>3 DEF RefIInv, RefTypes, CountsAreTabs, OnePerPane, Watched
<1>4. CASE refs' = DropRefs(refs, Watched) /\ tabDir' = table /\ refusals' = refusals
  <2>1. RefTypes' /\ OnePerPane'
    BY <1>1, <1>2, <1>4 DEF RefTypes, OnePerPane, Watched
  <2>2. ASSUME refusals = 0, NEW e \in WatchedDirs PROVE refs'[e] = Showing(WatchTabIds, e)'
    <3>1. refs[e] = Showing(WatchTabIds, e) /\ e # Unwatched /\ refs[e] \in Nat
      BY <1>u, <1>1, <2>2 DEF RefIInv, CountsAreTabs, Showing
    <3>2. {u \in Watched : tabDir[u] = e} = {u \in WatchTabIds : tabDir[u] = e}
      BY <3>1 DEF Watched
    <3>3. refs'[e] = 0
      BY <1>4, <3>1, <3>2 DEF DropRefs, Showing
    <3>4. {u \in WatchTabIds : table[u] = e} = {}
      BY <3>1
    <3> QED
      BY <1>4, <3>3, <3>4, FS_EmptySet DEF Showing
  <2>3. CountsAreTabs'
    BY <1>4, <2>2 DEF CountsAreTabs, Showing
  <2> QED
    BY <2>1, <2>3 DEF RefIInv
<1> QED
  BY <1>2, <1>3, <1>4

LEMMA RefStart == RefInit => RefIInv
<1> SUFFICES ASSUME RefInit PROVE RefIInv
  OBVIOUS
<1>1. RefTypes /\ OnePerPane
  BY DEF RefInit, RefTypes, OnePerPane, Watched
<1>2. \A d \in WatchedDirs : {t \in WatchTabIds : tabDir[t] = d} = {}
  BY RefAssumption DEF RefInit, RefAssumption
<1>3. CountsAreTabs
  BY <1>2, FS_EmptySet DEF RefInit, CountsAreTabs
<1> QED
  BY <1>1, <1>3 DEF RefIInv

\* However set_tab_watch is called, the OS watches a directory for as many tabs
\* as show it, unless it kept a watch it was asked to give up (add_watch,
\* remove_watch), and a pane watches one tab.
THEOREM WatchesAreShared == RefSpec => []RefInv
<1>1. RefIInv /\ [RefNext]_refVars => RefIInv'
  <2> SUFFICES ASSUME RefIInv, [RefNext]_refVars PROVE RefIInv'
    OBVIOUS
  <2>1. CASE UNCHANGED refVars
    BY <2>1 DEF refVars, RefIInv, RefTypes, CountsAreTabs, OnePerPane, Watched
  <2> QED
    BY <2>1, SetTabKeeps, DisarmKeeps DEF RefNext
<1>2. RefIInv => RefInv
  <2> SUFFICES ASSUME RefIInv, NEW p \in WatchPanes
               PROVE Cardinality({t \in Watched : PaneOf[t] = p}) <= 1
    BY DEF RefIInv, RefInv, OneTabPerPane
  <2> DEFINE S == {t \in Watched : PaneOf[t] = p}
  <2>1. S = {} \/ \E t : S = {t}
    BY DEF RefIInv, OnePerPane
  <2>2. Cardinality(S) \in {0, 1}
    <3> HIDE DEF S
    <3> QED
      BY <2>1, FS_EmptySet, FS_Singleton
  <2> QED
    BY <2>2
<1> QED
  BY <1>1, <1>2, RefStart, PTL DEF RefSpec

-----------------------------------------------------------------------------
(* The native menu: the invariant.                                         *)

\* What is proved of the cache, at the limit of the menus.
MenuFacts == INSTANCE BoundedCache_proofs WITH MaxEntries <- MenuCap, MaxWeight <- MenuCap

Answers == {"menu", "empty"}
Calling == {"loading", "invoking"}
Loading == {"load", "loading", "insert", "fetch"}
Steps   == {"off", "look", "join", "wait", "answer", "land", "shown", "done", "invoke"}
             \cup Calling \cup Loading

MenusOK(c) == MenuFacts!Exact(c, Types, Answers) /\ Known!WithinLimits(c)

MenuTyped ==
  /\ MenusOK(menuCache)
  /\ flights \in [Types -> Menus \cup {NoMenu}] /\ joined \in [Menus -> Menus \cup {NoMenu}]
  /\ flown \in [Menus -> Answers \cup {"none"}] /\ got \in [Menus -> Answers \cup {"none"}]
  /\ step \in [Menus -> Steps] /\ tokens \subseteq Menus \ Warming /\ runs \in [Menus -> {0, 1}]
  /\ helper \in [HelperRoles -> [up : BOOLEAN, owes : Seq(Menus)]]
  /\ user \in [HelperRoles -> Menus \cup {NoMenu}] /\ failed \in [HelperRoles -> SUBSET Types]

\* The flight of a type is that of the one leader under way, and whoever waits
\* has joined one that has landed or will.
Leads(m) == step[m] \in Loading \cup {"land"}
FlightsLed ==
  /\ \A m \in Menus : Leads(m) => flights[MenuType[m]] = m /\ joined[m] = m
  /\ \A t \in Types : flights[t] # NoMenu => MenuType[flights[t]] = t /\ Leads(flights[t])
  /\ \A m \in Menus : step[m] = "land" => flown[m] # "none"
  /\ \A m \in Menus : step[m] = "insert" => got[m] # "none"
  /\ \A m \in Menus : step[m] = "wait" =>
       joined[m] \in Menus /\ (flown[joined[m]] # "none" \/ step[joined[m]] \in Loading)

\* The lock of a role belongs to the request that calls its helper, which is the
\* only one the helper owes an answer.
HelpersHeld ==
  /\ \A m \in Menus : step[m] \in Calling => user[CallRole(m)] = m
  /\ \A r \in HelperRoles : user[r] # NoMenu => step[user[r]] \in Calling /\ CallRole(user[r]) = r
  /\ HelpersAreFresh

\* One interactive request is under way at a time; a token is spent before its
\* command runs.
OneInteractive ==
  /\ \A m \in Menus \ Warming : step[m] # "done"
  /\ \A m, n \in Menus \ Warming : Busy(m) /\ Busy(n) => m = n
  /\ \A m \in tokens, n \in Menus \ Warming : ~Busy(n)
  /\ \A m, n \in tokens : m = n
  /\ \A m \in tokens : runs[m] = 0
  /\ \A m \in Menus : step[m] # "shown" => runs[m] = 0
MenuIInv == MenuTyped /\ FlightsLed /\ HelpersHeld /\ OneInteractive

-----------------------------------------------------------------------------
(* The native menu: the cache.                                             *)

\* The menus' cache is the one the facts are about.
LEMMA SameMenuSize ==
  \A S : Known!Cardinality(S) = MenuFacts!Cardinality(S)
  BY DEF Known!Cardinality, MenuFacts!Cardinality

LEMMA SameMenus ==
  /\ Known!Empty = MenuFacts!Empty
  /\ \A c, k : Known!RemoveKey(c, k) = MenuFacts!RemoveKey(c, k)
  /\ \A c, k : Known!Touch(c, k) = MenuFacts!Touch(c, k)
  /\ \A c, k, v, w : Known!Insert(c, k, v, w) = MenuFacts!Insert(c, k, v, w)
  /\ \A c : Known!WithinLimits(c) <=> MenuFacts!WithinLimits(c)
<1>1. ASSUME NEW s, NEW S PROVE Known!Keep(s, S) = MenuFacts!Keep(s, S)
  <2> DEFINE kept       == {i \in DOMAIN s : s[i] \in S}
             known(k) == CHOOSE i \in kept : Known!Cardinality({j \in kept : j <= i}) = k
             facts(k) == CHOOSE i \in kept : MenuFacts!Cardinality({j \in kept : j <= i}) = k
  <2>1. ASSUME NEW k PROVE known(k) = facts(k)
    <3> HIDE DEF kept
    <3> QED
      BY SameMenuSize, Zenon
  <2>2. Known!Keep(s, S) = [k \in 1..Known!Cardinality(kept) |-> s[known(k)]]
    BY DEF Known!Keep
  <2>3. MenuFacts!Keep(s, S) = [k \in 1..MenuFacts!Cardinality(kept) |-> s[facts(k)]]
    BY DEF MenuFacts!Keep
  <2>4. Known!Cardinality(kept) = MenuFacts!Cardinality(kept)
    BY SameMenuSize
  <2> HIDE DEF kept, known, facts
  <2> QED
    BY <2>1, <2>2, <2>3, <2>4
<1>2. \A s : Known!Weights(s) = MenuFacts!Weights(s)
  BY SameMenuSize DEF Known!Weights, Known!Units, MenuFacts!Weights, MenuFacts!Units
<1>3. \A c, keys : Known!Retain(c, keys) = MenuFacts!Retain(c, keys)
  BY <1>1, <1>2 DEF Known!Retain, Known!Saturating, Known!Range,
     MenuFacts!Retain, MenuFacts!Saturating, MenuFacts!Range
<1>4. \A c, k : Known!RemoveKey(c, k) = MenuFacts!RemoveKey(c, k)
  BY <1>3 DEF Known!RemoveKey, Known!Keys, MenuFacts!RemoveKey, MenuFacts!Keys
<1>5. \A c, k : Known!Record(c, k) = MenuFacts!Record(c, k)
  BY DEF Known!Record, MenuFacts!Record
<1>6. \A c, k : Known!Touch(c, k) = MenuFacts!Touch(c, k)
  BY <1>4, <1>5 DEF Known!Touch, Known!Has, Known!Keys, MenuFacts!Touch,
     MenuFacts!Has, MenuFacts!Keys
<1>7. \A c, n : Known!Dropped(c, n) = MenuFacts!Dropped(c, n)
  BY <1>2 DEF Known!Dropped, Known!Saturating, MenuFacts!Dropped, MenuFacts!Saturating
<1>8. \A c : Known!Evict(c) = MenuFacts!Evict(c)
  <2> TAKE c
  <2>1. Known!Evict(c) = MenuFacts!Evict(c)
    BY <1>7 DEF Known!Evict, MenuFacts!Evict
  <2> QED
    BY <2>1
<1>9. \A c, k, v, w : Known!Insert(c, k, v, w) = MenuFacts!Insert(c, k, v, w)
  BY <1>4, <1>8 DEF Known!Insert, MenuFacts!Insert
<1>10. Known!Empty = MenuFacts!Empty
  BY DEF Known!Empty, MenuFacts!Empty
<1>11. \A c : Known!WithinLimits(c) <=> MenuFacts!WithinLimits(c)
  BY <1>2 DEF Known!WithinLimits, MenuFacts!WithinLimits
<1> QED
  BY <1>4, <1>6, <1>9, <1>10, <1>11

LEMMA MenusStart == MenusOK(Known!Empty)
<1>1. MenuCap \in Nat
  BY MenuAssumption
<1>2. /\ MenuFacts!Exact(MenuFacts!Empty, Types, Answers)
      /\ MenuFacts!WithinLimits(MenuFacts!Empty)
  BY <1>1, MenuFacts!EmptyExact
<1> QED
  BY <1>2, SameMenus DEF MenusOK

LEMMA MenusInsert ==
  ASSUME NEW c, MenusOK(c), NEW t \in Types, NEW v \in Answers
  PROVE  MenusOK(Known!Insert(c, t, v, 1))
<1>1. MenuCap \in Nat /\ 1 \in Nat
  BY MenuAssumption
<1>2. MenuFacts!Exact(c, Types, Answers)
  BY DEF MenusOK
<1>3. /\ MenuFacts!Exact(MenuFacts!Insert(c, t, v, 1), Types, Answers)
      /\ MenuFacts!WithinLimits(MenuFacts!Insert(c, t, v, 1))
  BY <1>1, <1>2, MenuFacts!InsertExact
<1> QED
  BY <1>3, SameMenus DEF MenusOK

LEMMA MenusTouch ==
  ASSUME NEW c, MenusOK(c), NEW t
  PROVE  MenusOK(Known!Touch(c, t))
<1>1. MenuFacts!Exact(c, Types, Answers) /\ MenuFacts!WithinLimits(c)
  BY SameMenus DEF MenusOK
<1>2. /\ MenuFacts!Exact(MenuFacts!Touch(c, t), Types, Answers)
      /\ MenuFacts!WithinLimits(MenuFacts!Touch(c, t))
  BY <1>1, MenuFacts!TouchExact
<1> QED
  BY <1>2, SameMenus DEF MenusOK

LEMMA MenuFound ==
  ASSUME NEW c, MenusOK(c), NEW t, Known!Has(c, t)
  PROVE  Known!Value(c, t) \in Answers
<1>1. PICK s \in Seq(MenuFacts!Rows(Types, Answers)) : s = c.items
  BY DEF MenusOK, MenuFacts!Exact
<1> DEFINE i == CHOOSE i \in DOMAIN s : s[i].key = t
<1>2. i \in DOMAIN s
  BY <1>1 DEF Known!Has, Known!Keys
<1>3. Known!Value(c, t) = s[i].value
  BY <1>1 DEF Known!Value, Known!Record
<1> HIDE DEF i
<1>4. s[i] \in MenuFacts!Rows(Types, Answers)
  BY <1>2
<1> QED
  BY <1>3, <1>4 DEF MenuFacts!Rows

-----------------------------------------------------------------------------
(* The native menu: what steps keep.                                       *)

LEMMA MenuGoes ==
  ASSUME step \in [Menus -> Steps], NEW m \in Menus, NEW s \in Steps, Goes(m, s)
  PROVE  /\ step' \in [Menus -> Steps] /\ step'[m] = s
         /\ \A n \in Menus : n # m => step'[n] = step[n]
  BY DEF Goes

LEMMA TypeOfMenu == \A m \in Menus : MenuType[m] \in Types
  BY DEF Types

\* Leaders stay leaders, followers followers.
LEMMA FlightsKept ==
  ASSUME MenuTyped, FlightsLed, UNCHANGED <<flights, flown, joined>>, NEW m \in Menus,
         \A n \in Menus : n # m => step'[n] = step[n] /\ got'[n] = got[n],
         Leads(m)' <=> Leads(m), step[m] \in Loading => step'[m] \in Loading,
         step'[m] \notin {"land", "wait"}, step'[m] = "insert" => got'[m] # "none"
  PROVE  FlightsLed'
<1>1. \A n \in Menus : Leads(n)' <=> Leads(n)
  BY DEF Leads
<1>2. \A t \in Types : flights[t] # NoMenu => flights[t] \in Menus
  BY DEF MenuTyped
<1>3. \A n \in Menus : step[n] \in Loading => step'[n] \in Loading
  OBVIOUS
<1> QED
  BY <1>1, <1>2, <1>3 DEF FlightsLed

\* A step outside the calls of a helper.
LEMMA HelpersKept ==
  ASSUME MenuTyped, HelpersHeld, UNCHANGED <<helper, user>>, NEW m \in Menus,
         \A n \in Menus : n # m => step'[n] = step[n],
         step[m] \notin Calling, step'[m] \notin Calling
  PROVE  HelpersHeld'
<1>1. HelpersAreFresh'
  BY DEF HelpersHeld, HelpersAreFresh
<1>2. \A n \in Menus : step'[n] \in Calling => user'[CallRole(n)'] = n
  BY DEF HelpersHeld, CallRole
<1>3. \A r \in HelperRoles : user'[r] # NoMenu =>
        step'[user'[r]] \in Calling /\ CallRole(user[r])' = r
  <2> SUFFICES ASSUME NEW r \in HelperRoles, user[r] # NoMenu
               PROVE  step'[user[r]] \in Calling /\ CallRole(user[r])' = r
    OBVIOUS
  <2>1. user[r] \in Menus /\ step[user[r]] \in Calling /\ CallRole(user[r]) = r
    BY DEF MenuTyped, HelpersHeld
  <2>2. step'[user[r]] = step[user[r]]
    BY <2>1
  <2> QED
    BY <2>1, <2>2 DEF CallRole
<1> QED
  BY <1>1, <1>2, <1>3 DEF HelpersHeld

\* A request that becomes no busier and issues no token.
LEMMA InteractiveKept ==
  ASSUME MenuTyped, OneInteractive, UNCHANGED runs, tokens' \subseteq tokens, NEW m \in Menus,
         \A n \in Menus : n # m => step'[n] = step[n],
         m \notin Warming => (Busy(m)' => Busy(m)) /\ step'[m] # "done",
         step'[m] # "shown" => runs[m] = 0
  PROVE  OneInteractive'
<1>1. \A n \in Menus \ Warming : Busy(n)' => Busy(n)
  BY DEF Busy
<1>2. \A n \in Menus \ Warming : step'[n] # "done"
  BY DEF OneInteractive
<1>3. \A n \in Menus : step'[n] # "shown" => runs'[n] = 0
  BY DEF OneInteractive
<1>4. \A n \in tokens' : runs'[n] = 0
  BY DEF OneInteractive
<1> QED
  BY <1>1, <1>2, <1>3, <1>4 DEF OneInteractive

-----------------------------------------------------------------------------
(* The native menu: the steps.                                             *)

LEMMA OpenMenuKeeps == ASSUME MenuIInv, NEW m \in Menus, OpenMenu(m) PROVE MenuIInv'
<1> USE DEF MenuIInv
<1>1. /\ step[m] = "off" /\ MayRun(m) /\ tokens' = TokensAtLoad(m) /\ Goes(m, "look")
      /\ UNCHANGED <<menuCache, flights, flown, joined, got, helper, user, runs, failed>>
  BY DEF OpenMenu
<1>2. /\ step' \in [Menus -> Steps] /\ step'[m] = "look"
      /\ \A n \in Menus : n # m => step'[n] = step[n]
  BY <1>1, MenuGoes DEF MenuTyped, Steps
<1>3. tokens' \subseteq tokens /\ (m \notin Warming => tokens' = {})
  BY <1>1 DEF TokensAtLoad
<1>4. MenuTyped'
  BY <1>1, <1>2, <1>3 DEF MenuTyped
<1>5. FlightsLed'
  BY <1>1, <1>2, FlightsKept DEF Leads, Loading
<1>6. HelpersHeld'
  BY <1>1, <1>2, HelpersKept DEF Calling
<1>7. OneInteractive'
  <2>1. runs[m] = 0
    BY <1>1 DEF OneInteractive
  <2>2. CASE m \in Warming
    BY <1>1, <1>2, <1>3, <2>1, <2>2, InteractiveKept
  <2>3. CASE m \notin Warming
    <3>1. \A n \in Menus \ Warming : ~Busy(n)
      BY <1>1, <2>3 DEF MayRun
    <3>2. \A n \in Menus \ Warming : n # m => ~Busy(n)'
      BY <1>2, <3>1 DEF Busy
    <3>3. \A n \in Menus : step'[n] # "shown" => runs'[n] = 0
      BY <1>1, <1>2, <2>1 DEF OneInteractive
    <3>4. \A n \in Menus \ Warming : step'[n] # "done"
      BY <1>2 DEF OneInteractive
    <3> QED
      BY <1>3, <2>3, <3>2, <3>3, <3>4 DEF OneInteractive
  <2> QED
    BY <2>2, <2>3
<1> QED
  BY <1>4, <1>5, <1>6, <1>7

LEMMA LookUpMenuKeeps == ASSUME MenuIInv, NEW m \in Menus, LookUpMenu(m) PROVE MenuIInv'
<1> USE DEF MenuIInv
<1>1. /\ step[m] = "look" /\ menuCache' = Known!Touch(menuCache, MenuType[m])
      /\ UNCHANGED <<flights, flown, joined, helper, user, tokens, runs, failed>>
  BY DEF LookUpMenu
<1>2. PICK s \in {"answer", "join"} : Goes(m, s)
  BY DEF LookUpMenu
<1>3. /\ step' \in [Menus -> Steps] /\ step'[m] = s
      /\ \A n \in Menus : n # m => step'[n] = step[n]
  BY <1>2, MenuGoes DEF MenuTyped, Steps
<1>4. got' \in [Menus -> Answers \cup {"none"}] /\ \A n \in Menus : n # m => got'[n] = got[n]
  <2>1. CASE Known!Has(menuCache, MenuType[m])
    <3>1. Known!Value(menuCache, MenuType[m]) \in Answers
      BY <2>1, MenuFound DEF MenuTyped
    <3>2. got' = [got EXCEPT ![m] = Known!Value(menuCache, MenuType[m])]
      BY <2>1 DEF LookUpMenu
    <3> QED
      BY <3>1, <3>2 DEF MenuTyped
  <2>2. CASE ~Known!Has(menuCache, MenuType[m])
    BY <2>2 DEF LookUpMenu, MenuTyped
  <2> QED
    BY <2>1, <2>2
<1>5. MenusOK(menuCache')
  BY <1>1, MenusTouch DEF MenuTyped
<1>6. MenuTyped'
  BY <1>1, <1>3, <1>4, <1>5 DEF MenuTyped
<1>7. FlightsLed'
  BY <1>1, <1>3, <1>4, FlightsKept DEF Leads, Loading
<1>8. HelpersHeld'
  BY <1>1, <1>3, HelpersKept DEF Calling
<1>9. OneInteractive'
  <2>1. runs[m] = 0 /\ Busy(m) /\ step'[m] # "done"
    BY <1>1, <1>3 DEF OneInteractive, Busy
  <2> QED
    BY <1>1, <1>3, <2>1, InteractiveKept
<1> QED
  BY <1>6, <1>7, <1>8, <1>9

LEMMA JoinFlightKeeps == ASSUME MenuIInv, NEW m \in Menus, JoinFlight(m) PROVE MenuIInv'
<1> USE DEF MenuIInv
<1> DEFINE t == MenuType[m]
           l == Leader(t, m)
<1>1. /\ step[m] = "join" /\ joined' = [joined EXCEPT ![m] = l]
      /\ flights' = [flights EXCEPT ![t] = l] /\ Goes(m, IF l = m THEN "load" ELSE "wait")
      /\ UNCHANGED <<menuCache, flown, got, helper, user, tokens, runs, failed>>
  BY DEF JoinFlight
<1>2. t \in Types
  BY TypeOfMenu
<1>3. l \in Menus /\ l = IF flights[t] = NoMenu THEN m ELSE flights[t]
  BY <1>2 DEF Leader, MenuTyped
<1> HIDE DEF l
<1>4. /\ step' \in [Menus -> Steps] /\ step'[m] = (IF l = m THEN "load" ELSE "wait")
      /\ \A n \in Menus : n # m => step'[n] = step[n]
  <2>1. (IF l = m THEN "load" ELSE "wait") \in Steps
    BY DEF Steps, Loading
  <2> QED
    BY <1>1, <2>1, MenuGoes DEF MenuTyped
<1>5. MenuTyped'
  <2>1. flights' \in [Types -> Menus \cup {NoMenu}] /\ joined' \in [Menus -> Menus \cup {NoMenu}]
    BY <1>1, <1>2, <1>3 DEF MenuTyped
  <2> QED
    BY <1>1, <1>4, <2>1 DEF MenuTyped
<1>6. FlightsLed'
  <2>1. /\ flights'[t] = l /\ joined'[m] = l
        /\ \A u \in Types : u # t => flights'[u] = flights[u]
        /\ \A n \in Menus : n # m => joined'[n] = joined[n]
    BY <1>1, <1>2 DEF MenuTyped
  <2>2. \A u \in Types : flights[u] # NoMenu => flights[u] \in Menus
    BY DEF MenuTyped
  <2>3. ~Leads(m) /\ NoMenu \notin Menus
    BY <1>1, MenuAssumption DEF Leads, Loading
  <2>4. CASE flights[t] = NoMenu
    <3>1. l = m /\ step'[m] = "load"
      BY <1>3, <1>4, <2>4
    <3>2. \A n \in Menus : Leads(n)' <=> Leads(n) \/ n = m
      BY <1>4, <3>1 DEF Leads, Loading
    <3>3. \A n \in Menus : Leads(n) => MenuType[n] # t /\ n # m
      BY <2>3, <2>4 DEF FlightsLed
    <3>4. \A n \in Menus : Leads(n)' => flights'[MenuType[n]] = n /\ joined'[n] = n
      BY <2>1, <3>1, <3>2, <3>3, TypeOfMenu DEF FlightsLed
    <3>5. \A u \in Types : flights'[u] # NoMenu =>
            MenuType[flights'[u]] = u /\ Leads(flights[u])'
      BY <2>1, <2>2, <3>1, <3>2 DEF FlightsLed
    <3>6. \A n \in Menus : step'[n] = "wait" =>
            joined'[n] \in Menus /\ (flown'[joined'[n]] # "none" \/ step'[joined'[n]] \in Loading)
      <4> SUFFICES ASSUME NEW n \in Menus, step'[n] = "wait"
                   PROVE  joined'[n] \in Menus
                          /\ (flown'[joined'[n]] # "none" \/ step'[joined'[n]] \in Loading)
        OBVIOUS
      <4>1. n # m /\ step[n] = "wait" /\ joined'[n] = joined[n]
        BY <1>4, <2>1, <3>1
      <4>2. joined[n] \in Menus /\ (flown[joined[n]] # "none" \/ step[joined[n]] \in Loading)
        BY <4>1 DEF FlightsLed
      <4>3. step[joined[n]] \in Loading => step'[joined[n]] \in Loading
        BY <1>1, <1>4, <4>2 DEF Loading
      <4> QED
        BY <1>1, <4>1, <4>2, <4>3
    <3>7. \A n \in Menus : /\ step'[n] = "land" => flown'[n] # "none"
                           /\ step'[n] = "insert" => got'[n] # "none"
      BY <1>1, <1>4, <3>1 DEF FlightsLed
    <3> QED
      BY <3>4, <3>5, <3>6, <3>7 DEF FlightsLed
  <2>5. CASE flights[t] # NoMenu
    <3>1. l = flights[t] /\ MenuType[l] = t /\ Leads(l) /\ l # m /\ step'[m] = "wait"
      BY <1>2, <1>3, <1>4, <2>3, <2>5 DEF FlightsLed
    <3>2. \A n \in Menus : Leads(n)' <=> Leads(n)
      BY <1>1, <1>4, <3>1 DEF Leads, Loading
    <3>3. \A n \in Menus : Leads(n)' => flights'[MenuType[n]] = n /\ joined'[n] = n
      BY <2>1, <2>3, <3>1, <3>2, TypeOfMenu DEF FlightsLed
    <3>4. \A u \in Types : flights'[u] # NoMenu =>
            MenuType[flights'[u]] = u /\ Leads(flights[u])'
      BY <2>1, <2>2, <3>1, <3>2 DEF FlightsLed
    <3>5. \A n \in Menus : step[n] \in Loading => step'[n] \in Loading
      BY <1>1, <1>4 DEF Loading
    <3>6. flown[l] # "none" \/ step[l] \in Loading
      BY <1>3, <3>1 DEF Leads, FlightsLed
    <3>7. \A n \in Menus : step'[n] = "wait" =>
            joined'[n] \in Menus /\ (flown'[joined'[n]] # "none" \/ step'[joined'[n]] \in Loading)
      <4> SUFFICES ASSUME NEW n \in Menus, step'[n] = "wait"
                   PROVE  joined'[n] \in Menus
                          /\ (flown'[joined'[n]] # "none" \/ step'[joined'[n]] \in Loading)
        OBVIOUS
      <4>1. CASE n = m
        BY <1>1, <1>3, <2>1, <3>5, <3>6, <4>1
      <4>2. CASE n # m
        <5>1. step[n] = "wait" /\ joined'[n] = joined[n]
          BY <1>4, <2>1, <4>2
        <5>2. joined[n] \in Menus /\ (flown[joined[n]] # "none" \/ step[joined[n]] \in Loading)
          BY <5>1 DEF FlightsLed
        <5> QED
          BY <1>1, <3>5, <5>1, <5>2
      <4> QED
        BY <4>1, <4>2
    <3>8. \A n \in Menus : /\ step'[n] = "land" => flown'[n] # "none"
                           /\ step'[n] = "insert" => got'[n] # "none"
      BY <1>1, <1>4, <3>1 DEF FlightsLed
    <3> QED
      BY <3>3, <3>4, <3>7, <3>8 DEF FlightsLed
  <2> QED
    BY <2>4, <2>5
<1>7. HelpersHeld'
  BY <1>1, <1>4, HelpersKept DEF Calling
<1>8. OneInteractive'
  <2>1. runs[m] = 0 /\ Busy(m) /\ step'[m] # "done"
    BY <1>1, <1>4 DEF OneInteractive, Busy
  <2> QED
    BY <1>1, <1>4, <2>1, InteractiveKept
<1> QED
  BY <1>5, <1>6, <1>7, <1>8

LEMMA InsertMenuKeeps == ASSUME MenuIInv, NEW m \in Menus, InsertMenu(m) PROVE MenuIInv'
<1> USE DEF MenuIInv
<1>1. /\ step[m] = "insert" /\ Goes(m, "fetch")
      /\ menuCache' = Known!Insert(menuCache, MenuType[m], got[m], 1)
      /\ UNCHANGED <<flights, flown, joined, got, helper, user, tokens, runs, failed>>
  BY DEF InsertMenu
<1>2. /\ step' \in [Menus -> Steps] /\ step'[m] = "fetch"
      /\ \A n \in Menus : n # m => step'[n] = step[n]
  BY <1>1, MenuGoes DEF MenuTyped, Steps, Loading
<1>3. MenusOK(menuCache')
  <2>1. got[m] \in Answers
    BY <1>1 DEF FlightsLed, MenuTyped
  <2> QED
    BY <1>1, <2>1, MenusInsert, TypeOfMenu DEF MenuTyped
<1>4. MenuTyped'
  BY <1>1, <1>2, <1>3 DEF MenuTyped
<1>5. FlightsLed'
  BY <1>1, <1>2, FlightsKept DEF Leads, Loading
<1>6. HelpersHeld'
  BY <1>1, <1>2, HelpersKept DEF Calling
<1>7. OneInteractive'
  <2>1. runs[m] = 0 /\ Busy(m) /\ step'[m] # "done"
    BY <1>1, <1>2 DEF OneInteractive, Busy
  <2> QED
    BY <1>1, <1>2, <2>1, InteractiveKept
<1> QED
  BY <1>4, <1>5, <1>6, <1>7

LEMMA PublishFlightKeeps == ASSUME MenuIInv, NEW m \in Menus, PublishFlight(m) PROVE MenuIInv'
<1> USE DEF MenuIInv
<1> DEFINE v == Known!Value(menuCache, MenuType[m])
<1>1. /\ step[m] = "fetch" /\ Known!Has(menuCache, MenuType[m]) /\ Goes(m, "land")
      /\ flown' = [flown EXCEPT ![m] = v] /\ menuCache' = Known!Touch(menuCache, MenuType[m])
      /\ UNCHANGED <<flights, joined, got, helper, user, tokens, runs, failed>>
  BY DEF PublishFlight
<1>2. /\ step' \in [Menus -> Steps] /\ step'[m] = "land"
      /\ \A n \in Menus : n # m => step'[n] = step[n]
  BY <1>1, MenuGoes DEF MenuTyped, Steps
<1>3. v \in Answers /\ MenusOK(menuCache')
  BY <1>1, MenuFound, MenusTouch DEF MenuTyped
<1> HIDE DEF v
<1>4. flown' \in [Menus -> Answers \cup {"none"}] /\ flown'[m] # "none"
      /\ \A n \in Menus : flown[n] # "none" => flown'[n] # "none"
  BY <1>1, <1>3 DEF MenuTyped, Answers
<1>5. MenuTyped'
  BY <1>1, <1>2, <1>3, <1>4 DEF MenuTyped
<1>6. FlightsLed'
  <2>1. \A n \in Menus : Leads(n)' <=> Leads(n)
    BY <1>1, <1>2 DEF Leads, Loading
  <2>2. \A u \in Types : flights[u] # NoMenu => flights[u] \in Menus
    BY DEF MenuTyped
  <2>3. \A n \in Menus : step'[n] = "land" => flown'[n] # "none"
    BY <1>2, <1>4 DEF FlightsLed
  <2>4. \A n \in Menus : step'[n] = "insert" => got'[n] # "none"
    BY <1>1, <1>2 DEF FlightsLed
  <2>5. \A n \in Menus : n # m /\ step[n] \in Loading => step'[n] \in Loading
    BY <1>2
  <2>6. \A n \in Menus : step'[n] = "wait" =>
          joined'[n] \in Menus /\ (flown'[joined'[n]] # "none" \/ step'[joined'[n]] \in Loading)
    BY <1>1, <1>2, <1>4, <2>5 DEF FlightsLed
  <2> QED
    BY <1>1, <2>1, <2>2, <2>3, <2>4, <2>6 DEF FlightsLed
<1>7. HelpersHeld'
  BY <1>1, <1>2, HelpersKept DEF Calling
<1>8. OneInteractive'
  <2>1. runs[m] = 0 /\ Busy(m) /\ step'[m] # "done"
    BY <1>1, <1>2 DEF OneInteractive, Busy
  <2> QED
    BY <1>1, <1>2, <2>1, InteractiveKept
<1> QED
  BY <1>5, <1>6, <1>7, <1>8

LEMMA LandFlightKeeps == ASSUME MenuIInv, NEW m \in Menus, LandFlight(m) PROVE MenuIInv'
<1> USE DEF MenuIInv
<1> DEFINE t == MenuType[m]
<1>1. /\ step[m] = "land" /\ Goes(m, "wait") /\ flights' = [flights EXCEPT ![t] = NoMenu]
      /\ UNCHANGED <<menuCache, flown, joined, got, helper, user, tokens, runs, failed>>
  BY DEF LandFlight
<1>2. /\ step' \in [Menus -> Steps] /\ step'[m] = "wait"
      /\ \A n \in Menus : n # m => step'[n] = step[n]
  BY <1>1, MenuGoes DEF MenuTyped, Steps
<1>3. MenuTyped'
  <2>1. flights' \in [Types -> Menus \cup {NoMenu}]
    BY <1>1 DEF MenuTyped
  <2> QED
    BY <1>1, <1>2, <2>1 DEF MenuTyped
<1>4. FlightsLed'
  <2>1. Leads(m) /\ flights[t] = m /\ joined[m] = m /\ flown[m] # "none"
    BY <1>1 DEF Leads, FlightsLed
  <2>2. \A n \in Menus : Leads(n)' <=> Leads(n) /\ n # m
    BY <1>1, <1>2 DEF Leads, Loading
  <2>3. flights'[t] = NoMenu /\ \A u \in Types : u # t => flights'[u] = flights[u]
    BY <1>1, TypeOfMenu DEF MenuTyped
  <2>4. \A u \in Types : flights[u] # NoMenu => flights[u] \in Menus
    BY DEF MenuTyped
  <2>5. \A n \in Menus : Leads(n)' => flights'[MenuType[n]] = n /\ joined'[n] = n
    BY <1>1, <2>1, <2>2, <2>3, TypeOfMenu DEF FlightsLed
  <2>6. \A u \in Types : flights'[u] # NoMenu => MenuType[flights'[u]] = u /\ Leads(flights[u])'
    BY <2>1, <2>2, <2>3, <2>4 DEF FlightsLed
  <2>7. \A n \in Menus : step[n] \in Loading => step'[n] \in Loading
    BY <1>1, <1>2 DEF Loading
  <2>8. \A n \in Menus : step'[n] = "wait" =>
          joined'[n] \in Menus /\ (flown'[joined'[n]] # "none" \/ step'[joined'[n]] \in Loading)
    BY <1>1, <1>2, <2>1, <2>7 DEF FlightsLed
  <2>9. \A n \in Menus : /\ step'[n] = "land" => flown'[n] # "none"
                         /\ step'[n] = "insert" => got'[n] # "none"
    BY <1>1, <1>2 DEF FlightsLed
  <2> QED
    BY <2>5, <2>6, <2>8, <2>9 DEF FlightsLed
<1>5. HelpersHeld'
  BY <1>1, <1>2, HelpersKept DEF Calling
<1>6. OneInteractive'
  <2>1. runs[m] = 0 /\ Busy(m) /\ step'[m] # "done"
    BY <1>1, <1>2 DEF OneInteractive, Busy
  <2> QED
    BY <1>1, <1>2, <2>1, InteractiveKept
<1> QED
  BY <1>3, <1>4, <1>5, <1>6

LEMMA TakeFlownKeeps == ASSUME MenuIInv, NEW m \in Menus, TakeFlown(m) PROVE MenuIInv'
<1> USE DEF MenuIInv
<1>1. /\ step[m] = "wait" /\ Goes(m, "answer") /\ got' = [got EXCEPT ![m] = flown[joined[m]]]
      /\ UNCHANGED <<menuCache, flights, flown, joined, helper, user, tokens, runs, failed>>
  BY DEF TakeFlown
<1>2. /\ step' \in [Menus -> Steps] /\ step'[m] = "answer"
      /\ \A n \in Menus : n # m => step'[n] = step[n]
  BY <1>1, MenuGoes DEF MenuTyped, Steps
<1>3. got' \in [Menus -> Answers \cup {"none"}] /\ \A n \in Menus : n # m => got'[n] = got[n]
  <2>1. joined[m] \in Menus
    BY <1>1 DEF FlightsLed
  <2> QED
    BY <1>1, <2>1 DEF MenuTyped
<1>4. MenuTyped'
  BY <1>1, <1>2, <1>3 DEF MenuTyped
<1>5. FlightsLed'
  BY <1>1, <1>2, <1>3, FlightsKept DEF Leads, Loading
<1>6. HelpersHeld'
  BY <1>1, <1>2, HelpersKept DEF Calling
<1>7. OneInteractive'
  <2>1. runs[m] = 0 /\ Busy(m) /\ step'[m] # "done"
    BY <1>1, <1>2 DEF OneInteractive, Busy
  <2> QED
    BY <1>1, <1>2, <2>1, InteractiveKept
<1> QED
  BY <1>4, <1>5, <1>6, <1>7

LEMMA AnswerMenuKeeps == ASSUME MenuIInv, NEW m \in Menus, AnswerMenu(m) PROVE MenuIInv'
<1> USE DEF MenuIInv
<1>1. /\ step[m] = "answer" /\ Goes(m, IF m \in Warming THEN "done" ELSE "shown")
      /\ tokens' = IF m \notin Warming /\ got[m] = "menu" THEN tokens \cup {m} ELSE tokens
      /\ UNCHANGED <<menuCache, flights, flown, joined, got, helper, user, runs, failed>>
  BY DEF AnswerMenu
<1>2. /\ step' \in [Menus -> Steps] /\ step'[m] = (IF m \in Warming THEN "done" ELSE "shown")
      /\ \A n \in Menus : n # m => step'[n] = step[n]
  <2>1. (IF m \in Warming THEN "done" ELSE "shown") \in Steps
    BY DEF Steps
  <2> QED
    BY <1>1, <2>1, MenuGoes DEF MenuTyped
<1>3. MenuTyped'
  BY <1>1, <1>2 DEF MenuTyped
<1>4. FlightsLed'
  BY <1>1, <1>2, FlightsKept DEF Leads, Loading
<1>5. HelpersHeld'
  BY <1>1, <1>2, HelpersKept DEF Calling
<1>6. OneInteractive'
  <2>1. runs[m] = 0 /\ Busy(m)
    BY <1>1 DEF OneInteractive, Busy
  <2>2. CASE m \in Warming
    BY <1>1, <1>2, <2>1, <2>2, InteractiveKept
  <2>3. CASE m \notin Warming
    <3>1. tokens = {} /\ tokens' \subseteq {m}
      BY <1>1, <2>1, <2>3 DEF OneInteractive
    <3>2. \A n \in Menus \ Warming : ~Busy(n)'
      BY <1>2, <2>1, <2>3 DEF OneInteractive, Busy
    <3>3. \A n \in Menus \ Warming : step'[n] # "done"
      BY <1>2 DEF OneInteractive
    <3>4. \A n \in Menus : step'[n] # "shown" => runs'[n] = 0
      BY <1>1, <1>2, <2>1 DEF OneInteractive
    <3> QED
      BY <1>1, <2>1, <3>1, <3>2, <3>3, <3>4 DEF OneInteractive
  <2> QED
    BY <2>2, <2>3
<1> QED
  BY <1>3, <1>4, <1>5, <1>6

LEMMA RolesTyped == \A m \in Menus : CallRole(m) \in HelperRoles
  BY DEF CallRole, RoleOf, HelperRoles

LEMMA CallHelperKeeps == ASSUME MenuIInv, NEW m \in Menus, CallHelper(m) PROVE MenuIInv'
<1> USE DEF MenuIInv
<1>1. PICK r \in HelperRoles : r = CallRole(m)
  BY RolesTyped
<1>2. PICK s \in Steps : s = IF step[m] = "load" THEN "loading" ELSE "invoking"
  BY DEF Steps, Calling
<1>3. /\ step[m] \in {"load", "invoke"} /\ user[r] = NoMenu /\ user' = [user EXCEPT ![r] = m]
      /\ helper' = [helper EXCEPT ![r] = [up |-> TRUE, owes |-> Append(helper[r].owes, m)]]
      /\ Goes(m, s)
      /\ UNCHANGED <<menuCache, flights, flown, joined, got, tokens, runs, failed>>
  BY <1>1, <1>2 DEF CallHelper
<1>4. /\ step' \in [Menus -> Steps] /\ step'[m] = s
      /\ \A n \in Menus : n # m => step'[n] = step[n]
  BY <1>3, MenuGoes DEF MenuTyped
<1>5. helper[r].owes = <<>>
  BY <1>3 DEF HelpersHeld, HelpersAreFresh
<1>6. helper' = [helper EXCEPT ![r] = [up |-> TRUE, owes |-> <<m>>]]
  BY <1>3, <1>5
<1>7. MenuTyped'
  <2>1. [up |-> TRUE, owes |-> <<m>>] \in [up : BOOLEAN, owes : Seq(Menus)]
    OBVIOUS
  <2>2. helper' \in [HelperRoles -> [up : BOOLEAN, owes : Seq(Menus)]]
    BY <1>6, <2>1 DEF MenuTyped
  <2>3. user' \in [HelperRoles -> Menus \cup {NoMenu}]
    BY <1>3 DEF MenuTyped
  <2> QED
    BY <1>3, <1>4, <2>2, <2>3 DEF MenuTyped
<1>8. FlightsLed'
  BY <1>2, <1>3, <1>4, FlightsKept DEF Leads, Loading
<1>9. HelpersHeld'
  <2>1. /\ user'[r] = m /\ \A q \in HelperRoles : q # r => user'[q] = user[q]
        /\ helper'[r].owes = <<m>> /\ \A q \in HelperRoles : q # r => helper'[q] = helper[q]
    <3>1. DOMAIN helper = HelperRoles /\ DOMAIN user = HelperRoles
      BY DEF MenuTyped
    <3>2. /\ helper'[r] = [up |-> TRUE, owes |-> <<m>>]
          /\ \A q \in HelperRoles : q # r => helper'[q] = helper[q]
      BY <1>6, <3>1
    <3>3. user'[r] = m /\ \A q \in HelperRoles : q # r => user'[q] = user[q]
      BY <1>3, <3>1
    <3> QED
      BY <3>2, <3>3
  <2>2. m # NoMenu
    BY MenuAssumption
  <2>3. HelpersAreFresh'
    BY <2>1, <2>2 DEF HelpersHeld, HelpersAreFresh
  <2>4. CallRole(m)' = r /\ step'[m] \in Calling
    BY <1>1, <1>2, <1>3, <1>4 DEF CallRole, Calling
  <2>5. \A n \in Menus : n # m => CallRole(n)' = CallRole(n)
    BY <1>4 DEF CallRole
  <2>6. \A n \in Menus : step'[n] \in Calling => user'[CallRole(n)'] = n
    <3> SUFFICES ASSUME NEW n \in Menus, step'[n] \in Calling PROVE user'[CallRole(n)'] = n
      OBVIOUS
    <3>1. CASE n = m
      BY <2>1, <2>4, <3>1
    <3>2. CASE n # m
      <4>1. user[CallRole(n)] = n /\ n # NoMenu
        BY <1>4, <3>2, MenuAssumption DEF HelpersHeld
      <4>2. CallRole(n) # r /\ CallRole(n) \in HelperRoles
        BY <1>3, <4>1, RolesTyped
      <4> QED
        BY <2>1, <2>5, <3>2, <4>1, <4>2
    <3> QED
      BY <3>1, <3>2
  <2>7. ASSUME NEW q \in HelperRoles, user'[q] # NoMenu
        PROVE  step'[user'[q]] \in Calling /\ CallRole(user[q])' = CallRole(user[q])'
    <3>1. CASE q = r
      BY <2>1, <2>4, <3>1
    <3>2. CASE q # r
      <4>1. user'[q] = user[q] /\ user[q] \in Menus /\ step[user[q]] \in Calling
        BY <2>1, <2>7, <3>2 DEF MenuTyped, HelpersHeld
      <4>2. user[q] # m
        BY <1>3, <4>1 DEF Calling
      <4> QED
        BY <1>4, <4>1, <4>2
    <3> QED
      BY <3>1, <3>2
  <2>8. ASSUME NEW q \in HelperRoles, user'[q] # NoMenu
        PROVE  CallRole(user[q])' = q
    <3>1. CASE q = r
      BY <2>1, <2>4, <3>1 DEF CallRole
    <3>2. CASE q # r
      <4>1. user'[q] = user[q] /\ user[q] \in Menus /\ step[user[q]] \in Calling
            /\ CallRole(user[q]) = q
        BY <2>1, <2>8, <3>2 DEF MenuTyped, HelpersHeld
      <4>2. user[q] # m
        BY <1>3, <4>1 DEF Calling
      <4> QED
        BY <1>4, <4>1, <4>2 DEF CallRole
    <3> QED
      BY <3>1, <3>2
  <2> QED
    BY <2>3, <2>6, <2>7, <2>8 DEF HelpersHeld
<1>10. OneInteractive'
  <2>1. runs[m] = 0 /\ Busy(m) /\ step'[m] # "done"
    BY <1>2, <1>3, <1>4 DEF OneInteractive, Busy
  <2> QED
    BY <1>3, <1>4, <2>1, InteractiveKept
<1> QED
  BY <1>7, <1>8, <1>9, <1>10

\* The call is over: the role is free and its helper owes nothing.
LEMMA CallEnds ==
  ASSUME MenuTyped, HelpersHeld, NEW m \in Menus, NEW r \in HelperRoles, r = CallRole(m),
         user[r] = m, step[m] \in Calling, step'[m] \notin Calling,
         \A n \in Menus : n # m => step'[n] = step[n],
         user' = [user EXCEPT ![r] = NoMenu],
         helper'[r].owes = <<>>, \A q \in HelperRoles : q # r => helper'[q] = helper[q]
  PROVE  HelpersHeld'
<1>1. user'[r] = NoMenu /\ \A q \in HelperRoles : q # r => user'[q] = user[q]
  BY DEF MenuTyped
<1>2. HelpersAreFresh'
  BY <1>1 DEF HelpersHeld, HelpersAreFresh
<1>3. \A n \in Menus : n # m => CallRole(n)' = CallRole(n)
  BY DEF CallRole
<1>4. \A n \in Menus : step'[n] \in Calling => user'[CallRole(n)'] = n
  <2> SUFFICES ASSUME NEW n \in Menus, step'[n] \in Calling PROVE user'[CallRole(n)'] = n
    OBVIOUS
  <2>1. n # m /\ user[CallRole(n)] = n
    BY DEF HelpersHeld
  <2>2. CallRole(n) # r /\ CallRole(n) \in HelperRoles
    BY <2>1, RolesTyped
  <2> QED
    BY <1>1, <1>3, <2>1, <2>2
<1>5. \A q \in HelperRoles : user'[q] # NoMenu =>
        step'[user'[q]] \in Calling /\ CallRole(user[q])' = q
  <2> SUFFICES ASSUME NEW q \in HelperRoles, user'[q] # NoMenu
               PROVE  step'[user'[q]] \in Calling /\ CallRole(user[q])' = q
    OBVIOUS
  <2>1. q # r /\ user'[q] = user[q]
    BY <1>1
  <2>2. user[q] \in Menus /\ step[user[q]] \in Calling /\ CallRole(user[q]) = q
    BY <2>1 DEF MenuTyped, HelpersHeld
  <2>3. user[q] # m
    BY <2>1, <2>2
  <2> QED
    BY <2>1, <2>2, <2>3 DEF CallRole
<1> QED
  BY <1>2, <1>4, <1>5 DEF HelpersHeld

LEMMA HelperReturnsKeeps ==
  ASSUME MenuIInv, NEW m \in Menus, HelperAnswers(m) \/ HelperFails(m) PROVE MenuIInv'
<1> USE DEF MenuIInv
<1>1. PICK r \in HelperRoles : r = CallRole(m)
  BY RolesTyped
<1>2. PICK result \in Answers : Returned(m, result)
  BY DEF HelperAnswers, HelperFails, Answers
<1>3. /\ step[m] \in Calling /\ user[r] = m /\ user' = [user EXCEPT ![r] = NoMenu]
      /\ UNCHANGED <<menuCache, flights, flown, joined, tokens>>
      /\ IF step[m] = "loading"
           THEN got' = [got EXCEPT ![m] = result] /\ Goes(m, "insert")
           ELSE Goes(m, "shown") /\ UNCHANGED got
  BY <1>1, <1>2 DEF HelperAnswers, HelperFails, Returned, Calling
<1>4. /\ step' \in [Menus -> Steps]
      /\ step'[m] = IF step[m] = "loading" THEN "insert" ELSE "shown"
      /\ \A n \in Menus : n # m => step'[n] = step[n]
  <2>1. CASE step[m] = "loading"
    BY <1>3, <2>1, MenuGoes DEF MenuTyped, Steps, Loading
  <2>2. CASE step[m] # "loading"
    BY <1>3, <2>2, MenuGoes DEF MenuTyped, Steps
  <2> QED
    BY <2>1, <2>2
<1>5. helper[r].owes = <<m>>
  BY <1>3, MenuAssumption DEF HelpersHeld, HelpersAreFresh
<1>6. /\ helper' \in [HelperRoles -> [up : BOOLEAN, owes : Seq(Menus)]]
      /\ helper'[r].owes = <<>> /\ \A q \in HelperRoles : q # r => helper'[q] = helper[q]
  <2>1. CASE HelperAnswers(m)
    <3>1. helper' = [helper EXCEPT ![r].owes = Tail(helper[r].owes)]
      BY <1>1, <2>1 DEF HelperAnswers
    <3>2. Tail(helper[r].owes) = <<>>
      BY <1>5
    <3>3. helper' = [helper EXCEPT ![r].owes = <<>>]
      BY <3>1, <3>2
    <3>4. [helper[r] EXCEPT !.owes = <<>>] \in [up : BOOLEAN, owes : Seq(Menus)]
      <4>1. helper[r] \in [up : BOOLEAN, owes : Seq(Menus)] /\ <<>> \in Seq(Menus)
        BY DEF MenuTyped
      <4> QED
        BY <4>1
    <3>5. /\ helper'[r] = [helper[r] EXCEPT !.owes = <<>>]
          /\ \A q \in HelperRoles : q # r => helper'[q] = helper[q]
      BY <3>3 DEF MenuTyped
    <3>6. helper'[r].owes = <<>>
      BY <3>5 DEF MenuTyped
    <3>7. helper' \in [HelperRoles -> [up : BOOLEAN, owes : Seq(Menus)]]
      BY <3>3, <3>4 DEF MenuTyped
    <3> QED
      BY <3>5, <3>6, <3>7
  <2>2. CASE HelperFails(m)
    <3>1. helper' = [helper EXCEPT ![r] = [up |-> FALSE, owes |-> <<>>]]
      BY <1>1, <2>2 DEF HelperFails, HelperAfterFailure
    <3>2. [up |-> FALSE, owes |-> <<>>] \in [up : BOOLEAN, owes : Seq(Menus)]
      OBVIOUS
    <3> QED
      BY <3>1, <3>2 DEF MenuTyped
  <2> QED
    BY <2>1, <2>2
<1>7. /\ runs' \in [Menus -> {0, 1}] /\ failed' \in [HelperRoles -> SUBSET Types]
      /\ step[m] = "loading" => runs' = runs
      /\ \A n \in Menus : n # m => runs'[n] = runs[n]
  <2>1. CASE HelperAnswers(m)
    <3>1. runs' = (IF step[m] = "invoking" THEN [runs EXCEPT ![m] = runs[m] + 1] ELSE runs)
          /\ failed' = failed
      BY <2>1 DEF HelperAnswers
    <3>2. runs[m] = 0
      BY <1>3 DEF OneInteractive, Calling
    <3> QED
      BY <3>1, <3>2 DEF MenuTyped
  <2>2. CASE HelperFails(m)
    <3>1. runs' = runs /\ failed' = IF step[m] = "loading"
                                     THEN [failed EXCEPT ![r] = failed[r] \cup {MenuType[m]}] ELSE failed
      BY <1>1, <2>2 DEF HelperFails
    <3> QED
      BY <3>1, TypeOfMenu DEF MenuTyped
  <2> QED
    BY <2>1, <2>2
<1>8. /\ got' \in [Menus -> Answers \cup {"none"}]
      /\ \A n \in Menus : n # m => got'[n] = got[n]
      /\ step[m] = "loading" => got'[m] # "none"
  <2>1. CASE step[m] = "loading"
    <3>1. result # "none"
      BY DEF Answers
    <3> QED
      BY <1>3, <2>1, <3>1, ZenonT(40) DEF MenuTyped
  <2>2. CASE step[m] # "loading"
    BY <1>3, <2>2 DEF MenuTyped
  <2> QED
    BY <2>1, <2>2
<1>9. MenuTyped'
  <2>1. user' \in [HelperRoles -> Menus \cup {NoMenu}]
    BY <1>3 DEF MenuTyped
  <2> QED
    BY <1>3, <1>4, <1>6, <1>7, <1>8, <2>1 DEF MenuTyped
<1>10. FlightsLed'
  BY <1>3, <1>4, <1>8, FlightsKept DEF Leads, Loading, Calling
<1>11. HelpersHeld'
  BY <1>1, <1>3, <1>4, <1>6, CallEnds DEF Calling
<1>12. OneInteractive'
  <2>1. CASE step[m] = "loading"
    <3>1. runs[m] = 0 /\ Busy(m) /\ step'[m] # "done" /\ runs' = runs
      BY <1>4, <1>7, <2>1 DEF OneInteractive, Busy
    <3> QED
      BY <1>3, <1>4, <3>1, InteractiveKept
  <2>2. CASE step[m] = "invoking"
    <3>1. step'[m] = "shown"
      BY <1>4, <2>2
    <3>2. m \notin tokens
      <4>1. m \in tokens => m \in Menus \ Warming /\ ~Busy(m)
        BY DEF MenuTyped, OneInteractive
      <4> QED
        BY <2>2, <4>1 DEF Busy
    <3>3. \A n \in Menus \ Warming : Busy(n)' => Busy(n)
      BY <1>4, <3>1 DEF Busy
    <3>4. \A n \in Menus \ Warming : step'[n] # "done"
      BY <1>4, <3>1 DEF OneInteractive
    <3>5. \A n \in Menus : step'[n] # "shown" => runs'[n] = 0
      BY <1>4, <1>7, <3>1 DEF OneInteractive
    <3>6. \A n \in tokens : runs'[n] = 0
      BY <1>7, <3>2 DEF OneInteractive, MenuTyped
    <3> QED
      BY <1>3, <3>3, <3>4, <3>5, <3>6 DEF OneInteractive
  <2> QED
    BY <1>3, <2>1, <2>2 DEF Calling
<1> QED
  BY <1>9, <1>10, <1>11, <1>12

LEMMA InvokeMenuKeeps == ASSUME MenuIInv, NEW m \in Menus, InvokeMenu(m) PROVE MenuIInv'
<1> USE DEF MenuIInv
<1>1. /\ step[m] = "shown" /\ m \in tokens /\ tokens' = tokens \ {m} /\ Goes(m, "invoke")
      /\ \A n \in Menus \ Warming : ~Busy(n)
      /\ UNCHANGED <<menuCache, flights, flown, joined, got, helper, user, runs, failed>>
  BY DEF InvokeMenu, TokensAfter
<1>2. /\ step' \in [Menus -> Steps] /\ step'[m] = "invoke"
      /\ \A n \in Menus : n # m => step'[n] = step[n]
  BY <1>1, MenuGoes DEF MenuTyped, Steps
<1>3. MenuTyped'
  BY <1>1, <1>2 DEF MenuTyped
<1>4. FlightsLed'
  BY <1>1, <1>2, FlightsKept DEF Leads, Loading
<1>5. HelpersHeld'
  BY <1>1, <1>2, HelpersKept DEF Calling
<1>6. OneInteractive'
  <2>1. tokens' = {} /\ runs[m] = 0
    BY <1>1 DEF OneInteractive
  <2>2. \A n \in Menus \ Warming : n # m => ~Busy(n)'
    BY <1>1, <1>2 DEF Busy
  <2>3. \A n \in Menus \ Warming : step'[n] # "done"
    BY <1>2 DEF OneInteractive
  <2>4. \A n \in Menus : step'[n] # "shown" => runs'[n] = 0
    BY <1>1, <1>2, <2>1 DEF OneInteractive
  <2> QED
    BY <2>1, <2>2, <2>3, <2>4 DEF OneInteractive
<1> QED
  BY <1>3, <1>4, <1>5, <1>6

\* Nothing but tokens lost.
LEMMA MenuRests ==
  ASSUME MenuIInv, tokens' \subseteq tokens,
         UNCHANGED <<menuCache, flights, flown, joined, step, got, helper, user, runs, failed>>
  PROVE  MenuIInv'
<1> USE DEF MenuIInv
<1>1. MenuTyped'
  BY DEF MenuTyped
<1>2. FlightsLed'
  BY DEF FlightsLed, Leads
<1>3. HelpersHeld'
  BY DEF HelpersHeld, HelpersAreFresh, CallRole
<1>4. OneInteractive'
  BY DEF OneInteractive, Busy
<1> QED
  BY <1>1, <1>2, <1>3, <1>4

-----------------------------------------------------------------------------
(* The native menu: the theorem.                                           *)

LEMMA MenuStarts == MenuInit => MenuIInv
<1> SUFFICES ASSUME MenuInit PROVE MenuIInv
  OBVIOUS
<1>1. MenuTyped
  <2>1. MenusOK(menuCache)
    BY MenusStart DEF MenuInit
  <2>2. [up |-> FALSE, owes |-> <<>>] \in [up : BOOLEAN, owes : Seq(Menus)] /\ "off" \in Steps
    BY DEF Steps
  <2>3. helper \in [HelperRoles -> [up : BOOLEAN, owes : Seq(Menus)]] /\ step \in [Menus -> Steps]
    BY <2>2 DEF MenuInit
  <2> QED
    BY <2>1, <2>3 DEF MenuInit, MenuTyped
<1>2. FlightsLed
  BY DEF MenuInit, FlightsLed, Leads, Loading
<1>3. HelpersHeld
  BY DEF MenuInit, HelpersHeld, HelpersAreFresh, Calling
<1>4. OneInteractive
  BY DEF MenuInit, OneInteractive, Busy
<1> QED
  BY <1>1, <1>2, <1>3, <1>4 DEF MenuIInv

LEMMA MenuSteps == MenuIInv /\ [MenuNext]_menuVars => MenuIInv'
<1> SUFFICES ASSUME MenuIInv, [MenuNext]_menuVars PROVE MenuIInv'
  OBVIOUS
<1>1. CASE UNCHANGED menuVars
  BY <1>1, MenuRests DEF menuVars
<1>2. ASSUME NEW m \in Menus, OpenMenu(m) \/ LookUpMenu(m) \/ JoinFlight(m) \/ InsertMenu(m) \/ PublishFlight(m)
      PROVE  MenuIInv'
  BY <1>2, OpenMenuKeeps, LookUpMenuKeeps, JoinFlightKeeps, InsertMenuKeeps, PublishFlightKeeps
<1>3. ASSUME NEW m \in Menus, LandFlight(m) \/ TakeFlown(m) \/ AnswerMenu(m) \/ InvokeMenu(m)
      PROVE  MenuIInv'
  BY <1>3, LandFlightKeeps, TakeFlownKeeps, AnswerMenuKeeps, InvokeMenuKeeps
<1>4. ASSUME NEW m \in Menus, CallHelper(m) \/ HelperAnswers(m) \/ HelperFails(m)
      PROVE  MenuIInv'
  BY <1>4, CallHelperKeeps, HelperReturnsKeeps
<1>5. ASSUME NEW m \in Menus, ExpireToken(m) PROVE MenuIInv'
  <2>1. tokens' \subseteq tokens
        /\ UNCHANGED <<menuCache, flights, flown, joined, step, got, helper, user, runs, failed>>
    BY <1>5 DEF ExpireToken
  <2> QED
    BY <2>1, MenuRests
<1> QED
  BY <1>1, <1>2, <1>3, <1>4, <1>5 DEF MenuNext

LEMMA MenuIInvSuffices == MenuIInv => MenuInv
<1> SUFFICES ASSUME MenuIInv PROVE MenuInv
  OBVIOUS
<1> USE DEF MenuIInv
<1>1. MenuTypeOK
  BY DEF MenuTyped, MenuTypeOK, MenusOK, Answers
<1>2. OneLoadPerType
  <2>1. \A m, n \in Menus : m # n /\ MenuType[m] = MenuType[n] => ~(Leads(m) /\ Leads(n))
    BY DEF FlightsLed
  <2>2. \A m \in Menus : step[m] = "wait" => flown[joined[m]] # "none" \/ step[joined[m]] \in Loading
    BY DEF FlightsLed
  <2> QED
    BY <2>1, <2>2 DEF OneLoadPerType, Leads, Loading
<1>3. HelpersAreFresh
  BY DEF HelpersHeld
<1>4. TokensAreOfNewest
  <2>1. Cardinality(tokens) <= 1
    <3>1. CASE tokens = {}
      BY <3>1, FS_EmptySet
    <3>2. CASE tokens # {}
      <4>1. PICK m \in tokens : TRUE
        BY <3>2
      <4>2. tokens = {m}
        BY DEF OneInteractive
      <4> QED
        BY <4>2, FS_Singleton
    <3> QED
      BY <3>1, <3>2
  <2>2. \A m \in Menus : runs[m] <= 1
    BY DEF MenuTyped
  <2>3. \A m \in tokens : \A n \in Menus \ Warming : step[n] \in {"off", "shown"}
    BY DEF OneInteractive, Busy
  <2> QED
    BY <2>1, <2>2, <2>3 DEF TokensAreOfNewest
<1> QED
  BY <1>1, <1>2, <1>3, <1>4 DEF MenuInv

\* For any requests, types and warm-ups, whatever helpers miss or die: one load of
\* a type at a time, and whoever waits for one has it coming; a helper is asked
\* only when it owes no answer; and only the newest menu's command can be run,
\* once.
THEOREM MenusShared == MenuSpec => []MenuInv
<1>1. MenuInit => MenuIInv
  BY MenuStarts
<1>2. MenuIInv /\ [MenuNext]_menuVars => MenuIInv'
  BY MenuSteps
<1>3. MenuIInv => MenuInv
  BY MenuIInvSuffices
<1> QED
  BY <1>1, <1>2, <1>3, PTL DEF MenuSpec
=============================================================================
