--------------------------- MODULE FocusReconcile ---------------------------
(***************************************************************************)
(* Focus reconciliation of one target (reconcile.rs).  Every focus event   *)
(* bumps a generation; a worker thread is spawned when none is scheduled   *)
(* and drains the requests, the latest only.  All shared state is two      *)
(* atomics, so every load, store and swap is a step of its own.            *)
(***************************************************************************)
EXTENDS Naturals

CONSTANTS
  MaxFocus,    \* bound: focus events
  Refuses      \* may the resource coordinator refuse a worker's submission?

ASSUME FocusAssumption == MaxFocus \in Nat /\ Refuses \in BOOLEAN

\* A worker thread is named after the generation whose request spawned it.
Workers == 1..MaxFocus

\* Where the thread has the target for itself, and where it has let go of it.
Owning == {"submit", "check", "guard", "working", "look", "clear", "reload"}
Places == Owning \cup {"none", "recheck", "reclaim", "returned"}

VARIABLES
  gen,         \* ReconcileTarget.generation
  scheduled,   \* ReconcileTarget.scheduled
  bumped,      \* the event thread is between its fetch_add and its swap
  worker,      \* where every worker thread is
  req,         \* its requested_generation
  worked,      \* history: the last generation whose comparison ran
  refused      \* history: generations whose admission was refused

focusVars == <<gen, scheduled, bumped, worker, req, worked, refused>>

FocusTypeOK ==
  /\ gen \in 0..MaxFocus /\ scheduled \in BOOLEAN /\ bumped \in BOOLEAN
  /\ worker \in [Workers -> Places] /\ req \in [Workers -> 0..MaxFocus]
  /\ worked \in 0..MaxFocus /\ refused \subseteq 0..MaxFocus

FocusInit ==
  /\ gen = 0 /\ scheduled = FALSE /\ bumped = FALSE
  /\ worker = [t \in Workers |-> "none"] /\ req = [t \in Workers |-> 0]
  /\ worked = 0 /\ refused = {}

-----------------------------------------------------------------------------
(* The event thread: request_reconcile.                                    *)

Bump ==
  /\ ~bumped /\ gen < MaxFocus
  /\ gen' = gen + 1 /\ bumped' = TRUE
  /\ UNCHANGED <<scheduled, worker, req, worked, refused>>

\* Mutant: every request spawns its own worker.
SpawnAlways ==
  /\ bumped /\ bumped' = FALSE /\ scheduled' = TRUE
  /\ worker' = [worker EXCEPT ![gen] = "submit"]
  /\ req' = [req EXCEPT ![gen] = gen]
  /\ UNCHANGED <<gen, worked, refused>>

\* scheduled.swap(true): spawn unless a worker drains already.
Spawn ==
  /\ bumped /\ bumped' = FALSE /\ scheduled' = TRUE
  /\ IF scheduled THEN UNCHANGED <<worker, req>>
     ELSE /\ worker' = [worker EXCEPT ![gen] = "submit"]
          /\ req' = [req EXCEPT ![gen] = gen]
  /\ UNCHANGED <<gen, worked, refused>>

-----------------------------------------------------------------------------
(* The worker's loop.                                                      *)

Go(t, from, to) == worker[t] = from /\ worker' = [worker EXCEPT ![t] = to]

\* The coordinator admits the Latency job, or refuses it.
LetWork(t) ==
  /\ Go(t, "submit", "check")
  /\ UNCHANGED <<gen, scheduled, bumped, req, worked, refused>>
Refuse(t) ==
  /\ Refuses /\ Go(t, "submit", "look")
  /\ refused' = refused \cup {req[t]}
  /\ UNCHANGED <<gen, scheduled, bumped, req, worked>>

\* The generation is compared before the callback, and by the callback again.
Check(t) ==
  /\ Go(t, "check", IF gen = req[t] THEN "guard" ELSE "look")
  /\ UNCHANGED <<gen, scheduled, bumped, req, worked, refused>>
Guard(t) ==
  /\ Go(t, "guard", IF gen = req[t] THEN "working" ELSE "look")
  /\ UNCHANGED <<gen, scheduled, bumped, req, worked, refused>>

\* The comparison is over and its result published.
Work(t) ==
  /\ Go(t, "working", "look") /\ worked' = req[t]
  /\ UNCHANGED <<gen, scheduled, bumped, req, refused>>

\* Anything newer?
Look(t) ==
  /\ Go(t, "look", IF gen = req[t] THEN "clear" ELSE "submit")
  /\ req' = [req EXCEPT ![t] = gen]
  /\ UNCHANGED <<gen, scheduled, bumped, worked, refused>>

Clear(t) ==
  /\ Go(t, "clear", "recheck") /\ scheduled' = FALSE
  /\ UNCHANGED <<gen, bumped, req, worked, refused>>

\* "Close the race": a request that came before the flag was cleared has not
\* spawned a worker ...
Recheck(t) ==
  /\ Go(t, "recheck", IF gen = req[t] THEN "returned" ELSE "reclaim")
  /\ UNCHANGED <<gen, scheduled, bumped, req, worked, refused>>

\* Mutant: the flag's old value is not looked at.
ReclaimBlindly(t) ==
  /\ Go(t, "reclaim", "reload") /\ scheduled' = TRUE
  /\ UNCHANGED <<gen, bumped, req, worked, refused>>

\* ... so this thread goes on, unless a later request has spawned one.
Reclaim(t) ==
  /\ Go(t, "reclaim", IF scheduled THEN "returned" ELSE "reload")
  /\ scheduled' = TRUE
  /\ UNCHANGED <<gen, bumped, req, worked, refused>>

Reload(t) ==
  /\ Go(t, "reload", "submit") /\ req' = [req EXCEPT ![t] = gen]
  /\ UNCHANGED <<gen, scheduled, bumped, worked, refused>>

-----------------------------------------------------------------------------
\* All a worker does outside the comparison.
Drains(t) ==
  \/ LetWork(t) \/ Refuse(t) \/ Check(t) \/ Guard(t) \/ Look(t) \/ Clear(t)
  \/ Recheck(t) \/ Reclaim(t) \/ Reload(t)

FocusNext == Bump \/ Spawn \/ \E t \in Workers : Drains(t) \/ Work(t)

FocusSpec == FocusInit /\ [][FocusNext]_focusVars

-----------------------------------------------------------------------------
(* Properties.                                                             *)

\* Comparisons of one target never overlap: at most one worker thread has the
\* target, whatever requests arrive while it gives it back.
OneReconciler ==
  \A s, t \in Workers : worker[s] \in Owning /\ worker[t] \in Owning => s = t

\* No focus event is lost between the last look at the generation and the
\* clearing of the flag: when everything is at rest, the latest generation was
\* compared, or its admission refused.
NoForgottenFocus ==
  ~bumped /\ (\A t \in Workers : worker[t] \in {"none", "returned"})
    => worked = gen \/ gen \in refused

FocusInv == OneReconciler /\ NoForgottenFocus

\* A slower, older comparison never comes after a newer one.
ResultsInOrder == [][worked' >= worked]_worked
=============================================================================
