------------------------------- MODULE FastWalk -------------------------------
(***************************************************************************)
(* The parallel folder walker of macOS (size/fast_walk.rs).  A walk runs   *)
(* on its caller's thread and on helpers drawn from one process-wide       *)
(* budget; its threads share a stack of directories still to visit and end *)
(* when the stack is empty and nobody is visiting.                         *)
(*                                                                         *)
(* The kernel's listing of a directory is a choice among what it can give: *)
(* the directory vanished, it is refused after some of its entries, or it  *)
(* is read.                                                                *)
(***************************************************************************)
EXTENDS Naturals, Sequences, FiniteSets

CONSTANTS
  Walks,      \* the walks of the process
  WalkDirs,   \* the directories
  RootOf,     \* RootOf[w]: the folder w is asked to walk
  Inside,     \* Inside[d]: the subdirectories of d
  Strict,     \* walks that fail on a denied directory (size totals)
  JobHelpers, \* MAX_JOB_THREADS - 1
  HelperCap   \* MAX_HELPER_THREADS

ASSUME WalkAssumption ==
  /\ RootOf \in [Walks -> WalkDirs] /\ Inside \in [WalkDirs -> SUBSET WalkDirs]
  /\ IsFiniteSet(WalkDirs) /\ Strict \subseteq Walks
  /\ JobHelpers \in Nat /\ HelperCap \in Nat

\* A directory is its path: it is inside one directory, and none is below itself.
ASSUME WalkTreeAssumption ==
  /\ \A d, e \in WalkDirs : d # e => Inside[d] \cap Inside[e] = {}
  /\ \A dirs \in SUBSET WalkDirs : dirs # {} => \E d \in dirs : \A e \in dirs : d \notin Inside[e]

Own == 0
Helper == 1..JobHelpers
Crew == {Own} \cup Helper

VARIABLES
  inUse,     \* HELPERS_IN_USE
  stack,     \* stack[w]: pending
  busy,      \* busy[w]: directories being visited
  failure,   \* failure[w]
  hand,      \* hand[w][t]: what thread t of w is doing
  stopped,   \* the walks whose cancel flag is set
  recorded,  \* recorded[w]: how often each directory was reported
  missed,    \* history: missed[w], the directories w found absent or refused
  verdict    \* verdict[w]: "none" until walk returns

walkVars == <<inUse, stack, busy, failure, hand, stopped, recorded, missed, verdict>>

NoDir == "none"

\* A thread: not there, reserved, in next(), asleep in it, visiting dir, or
\* dropping its claim.
Doing(what) == [what |-> what, dir |-> NoDir, found |-> {}, failed |-> "no"]

WalkInit ==
  /\ inUse = 0
  /\ stack = [w \in Walks |-> <<RootOf[w]>>] /\ busy = [w \in Walks |-> 0]
  /\ failure = [w \in Walks |-> "no"]
  /\ hand = [w \in Walks |-> [t \in Crew |-> Doing("off")]]
  /\ stopped = {}
  /\ recorded = [w \in Walks |-> [d \in WalkDirs |-> 0]]
  /\ missed = [w \in Walks |-> {}]
  /\ verdict = [w \in Walks |-> "none"]

Does(w, t, what) == hand' = [hand EXCEPT ![w][t] = Doing(what)]

----------------------------------------------------------------------------
(* Starting a walk.                                                        *)

\* acquire_helpers: one fetch_update of the budget.
Granted == IF JobHelpers <= HelperCap - inUse THEN JobHelpers ELSE HelperCap - inUse

StartWalk(w) ==
  /\ hand[w][Own].what = "off" /\ verdict[w] = "none"
  /\ inUse' = inUse + Granted
  /\ hand' = [hand EXCEPT ![w] = [t \in Crew |->
       IF t = Own THEN Doing("start") ELSE IF t <= Granted THEN Doing("reserved") ELSE Doing("off")]]
  /\ UNCHANGED <<stack, busy, failure, stopped, recorded, missed, verdict>>

\* The helpers are spawned one after the other; one whose thread the system
\* refuses drops its permit with its closure.
SpawnHelper(w, t) ==
  /\ hand[w][t].what = "reserved"
  /\ \/ Does(w, t, "next") /\ UNCHANGED inUse
     \/ Does(w, t, "off") /\ inUse' = inUse - 1
  /\ UNCHANGED <<stack, busy, failure, stopped, recorded, missed, verdict>>

OwnStarts(w) ==
  /\ hand[w][Own].what = "start" /\ \A t \in Helper : hand[w][t].what # "reserved"
  /\ Does(w, Own, "next")
  /\ UNCHANGED <<inUse, stack, busy, failure, stopped, recorded, missed, verdict>>

----------------------------------------------------------------------------
(* The work loop of a thread.                                              *)

Pop(s) == SubSeq(s, 1, Len(s) - 1)

\* next: under the lock, again after every wake-up.
ClaimNext(w, t) ==
  /\ hand[w][t].what = "next" /\ failure[w] = "no" /\ stack[w] # <<>>
  /\ stack' = [stack EXCEPT ![w] = Pop(@)] /\ busy' = [busy EXCEPT ![w] = @ + 1]
  /\ hand' = [hand EXCEPT ![w][t] = [Doing("visit") EXCEPT !.dir = stack[w][Len(stack[w])]]]
  /\ UNCHANGED <<inUse, failure, stopped, recorded, missed, verdict>>

Sleep(w, t) ==
  /\ hand[w][t].what = "next" /\ failure[w] = "no" /\ stack[w] = <<>> /\ busy[w] > 0
  /\ Does(w, t, "asleep")
  /\ UNCHANGED <<inUse, stack, busy, failure, stopped, recorded, missed, verdict>>

\* Nothing is left or the walk failed: the thread ends, a helper's permit with it.
Retire(w, t) ==
  /\ hand[w][t].what = "next" /\ (failure[w] # "no" \/ (stack[w] = <<>> /\ busy[w] = 0))
  /\ Does(w, t, IF t = Own THEN "joining" ELSE "off")
  /\ inUse' = IF t = Own THEN inUse ELSE inUse - 1
  /\ UNCHANGED <<stack, busy, failure, stopped, recorded, missed, verdict>>

\* read_dir: absent (vanished, or on another device), refused after some of
\* its entries, or complete.
Listings(d) ==
  {[there |-> FALSE, denied |-> FALSE, subdirs |-> {}]}
    \cup [there : {TRUE}, denied : {TRUE}, subdirs : SUBSET Inside[d]]
    \cup {[there |-> TRUE, denied |-> FALSE, subdirs |-> Inside[d]]}

Claim(w, t, found, failed) ==
  hand' = [hand EXCEPT ![w][t] = [@ EXCEPT !.what = "claim", !.found = found, !.failed = failed]]

\* visit with a listing: excluded and absent directories give no record.
VisitDir(w, t) ==
  /\ hand[w][t].what = "visit"
  /\ LET d == hand[w][t].dir IN
     \E l \in Listings(d) :
       LET refused == l.denied /\ w \in Strict IN
       /\ Claim(w, t, IF refused THEN {} ELSE l.subdirs, IF refused THEN "error" ELSE "no")
       /\ recorded' = IF l.there /\ ~refused THEN [recorded EXCEPT ![w][d] = @ + 1] ELSE recorded
       /\ missed' = IF l.there /\ ~l.denied THEN missed ELSE [missed EXCEPT ![w] = @ \cup {d}]
  /\ UNCHANGED <<inUse, stack, busy, failure, stopped, verdict>>

\* check_stop finds the walk cancelled; or it is out of time, the listing fails
\* or on_record panics, and the claim is dropped while the thread unwinds.
VisitFails(w, t) ==
  /\ hand[w][t].what = "visit"
  /\ \/ Claim(w, t, {}, "error")
     \/ w \in stopped /\ Claim(w, t, {}, "cancelled")
  /\ UNCHANGED <<inUse, stack, busy, failure, stopped, recorded, missed, verdict>>

\* A mutant that wakes the others only when there is work for them.
AwakenForWork(w, t, found) ==
  [u \in Crew |-> IF u = t THEN Doing("next")
                  ELSE IF hand[w][u].what = "asleep" /\ found # {} THEN Doing("next")
                  ELSE hand[w][u]]

\* notify_all.
Awaken(w, t, found) ==
  [u \in Crew |-> IF u = t THEN Doing("next")
                  ELSE IF hand[w][u].what = "asleep" THEN Doing("next") ELSE hand[w][u]]

\* What was found, in the order in which the kernel listed it.
Orders(dirs) ==
  {s \in [1..Cardinality(dirs) -> dirs] : \A d \in dirs : \E k \in DOMAIN s : s[k] = d}

\* Claim::drop.
DropClaim(w, t) ==
  /\ hand[w][t].what = "claim"
  /\ LET c == hand[w][t] IN
     /\ busy' = [busy EXCEPT ![w] = @ - 1]
     /\ \E s \in Orders(c.found) : stack' = [stack EXCEPT ![w] = @ \o s]
     /\ failure' = [failure EXCEPT ![w] = IF @ = "no" THEN c.failed ELSE @]
     /\ hand' = [hand EXCEPT ![w] = Awaken(w, t, c.found)]
  /\ UNCHANGED <<inUse, stopped, recorded, missed, verdict>>

CancelWalk(w) ==
  /\ w \notin stopped /\ verdict[w] = "none" /\ stopped' = stopped \cup {w}
  /\ UNCHANGED <<inUse, stack, busy, failure, hand, recorded, missed, verdict>>

\* The scope has joined the helpers.
EndWalk(w) ==
  /\ hand[w][Own].what = "joining" /\ \A t \in Helper : hand[w][t].what = "off"
  /\ verdict' = [verdict EXCEPT ![w] =
       IF failure[w] # "no" THEN failure[w] ELSE IF w \in stopped THEN "cancelled" ELSE "done"]
  /\ Does(w, Own, "off")
  /\ UNCHANGED <<inUse, stack, busy, failure, stopped, recorded, missed>>

Step(w, t) == ClaimNext(w, t) \/ Sleep(w, t) \/ Retire(w, t) \/ VisitDir(w, t) \/ VisitFails(w, t) \/ DropClaim(w, t)

WalkNext ==
  \E w \in Walks :
    \/ StartWalk(w) \/ OwnStarts(w) \/ CancelWalk(w) \/ EndWalk(w)
    \/ \E t \in Helper : SpawnHelper(w, t)
    \/ \E t \in Crew : Step(w, t)

WalkSpec == WalkInit /\ [][WalkNext]_walkVars

----------------------------------------------------------------------------
\* Type correctness.
WalkTypeOK ==
  /\ inUse \in 0..HelperCap
  /\ \A w \in Walks :
       /\ stack[w] \in Seq(WalkDirs) /\ busy[w] \in 0..Cardinality(Crew)
       /\ \A t \in Crew : hand[w][t].what \in
            {"off", "reserved", "start", "next", "asleep", "visit", "claim", "joining"}

\* The budget counts exactly the helpers that are reserved or running, over all
\* walks, and never passes its cap: a permit comes back once, also when its
\* thread could not be spawned or the walk failed.
Held == {wt \in Walks \X Helper : hand[wt[1]][wt[2]].what # "off"}
HelpersExact == inUse = Cardinality(Held) /\ inUse <= HelperCap

\* A thread that sleeps in next has nothing to do, and one that is visiting
\* will notify it: the last notification cannot come before the sleep, and the
\* walk cannot end with a thread still asleep.
SleepersAreWoken ==
  \A w \in Walks : (\E t \in Crew : hand[w][t].what = "asleep") =>
    /\ stack[w] = <<>> /\ failure[w] = "no"
    /\ \E t \in Crew : hand[w][t].what \in {"visit", "claim"}

\* The directories of w's folder that nothing absent or refused hides: those of
\* every set that has the folder and what is inside what it has.
Closed(w, dirs) == RootOf[w] \in dirs /\ \A d \in dirs \ missed[w] : Inside[d] \subseteq dirs
Reach(w) == {d \in WalkDirs : \A dirs \in SUBSET WalkDirs : Closed(w, dirs) => d \in dirs}

\* A walk that ends well reported every such directory exactly once, however
\* its threads shared the stack.
CompleteOnce ==
  \A w \in Walks : verdict[w] = "done" =>
    /\ \A d \in WalkDirs : recorded[w][d] <= 1
    /\ \A d \in Reach(w) \ missed[w] : recorded[w][d] = 1

\* What holds in every state: the helper budget is exact, no thread sleeps through
\* the end of its walk, and a walk that ends well is complete.
WalkInv == WalkTypeOK /\ HelpersExact /\ SleepersAreWoken /\ CompleteOnce
=============================================================================
