------------------------- MODULE ResourceCoordinator -------------------------
(***************************************************************************)
(* The admission coordinator of src-tauri/src/resource_coordinator: callers*)
(* on any thread send messages to one dispatcher thread, which keeps the   *)
(* waiting queue and the occupancy (SchedulerState of queue.rs) and answers*)
(* each caller's reply channel.                                            *)
(*                                                                         *)
(* Grain: one action per message sent, and one per critical section of the *)
(* dispatcher: a message, then one admission at a time.                    *)
(***************************************************************************)
EXTENDS Naturals, Sequences, FiniteSets

CONSTANTS
  Jobs,         \* job ids, unique (next_id)
  Classes,      \* JobClass
  KeyedClasses, \* the classes limited per key too: Latency and Throughput
  ClassesOf,    \* JobSpec.classes
  KeysOf,       \* JobSpec.resource_keys, as a set: canonicalize_resource_keys
  CoalesceOf,   \* JobSpec.coalesce_key, or NoKey
  NoKey,        \* no coalescing
  NoJob,        \* no job id
  Cap,          \* global cap of a class
  QueueCap,     \* MAX_QUEUED_JOBS
  Cancellable,  \* jobs somebody cancels in this instance (each at most once)
  Shuts         \* whether somebody shuts the coordinator down

ASSUME ClassAssumption ==
  /\ KeyedClasses \subseteq Classes
  /\ ClassesOf \in [Jobs -> SUBSET Classes]
  /\ Cap \in [Classes -> Nat]

ASSUME JobAssumption ==
  /\ IsFiniteSet(Jobs) /\ NoJob \notin Jobs
  /\ DOMAIN KeysOf = Jobs /\ DOMAIN CoalesceOf = Jobs
  /\ QueueCap \in Nat /\ Cancellable \subseteq Jobs /\ Shuts \in BOOLEAN

Keys == UNION {KeysOf[j] : j \in Jobs}

\* A caller: not submitted, blocked in recv, holding a JobHandle, or finished
\* with or without one.
CallerStates == {"new", "blocked", "holding", "dropped", "refused"}

Messages == [type : {"Submit", "CancelQueued", "Release"}, id : Jobs]
              \cup [type : {"Shutdown"}, id : {NoJob}]

VARIABLES
  inbox,       \* the dispatcher's channel
  phase,       \* the dispatcher: "receive", "admit" or "gone"
  waiting,     \* SchedulerState.waiting
  granted,     \* keys of SchedulerState.granted
  refs,        \* granted_refcount; 0 when there is no entry
  used,        \* Occupancy.global
  held,        \* Occupancy.per_resource
  onto,        \* coalesced_onto, NoJob when there is no entry
  replies,     \* keys of waiting_replies
  caller,      \* the caller of every job
  handle,      \* id in the caller's JobHandle
  cancel       \* the cancel call for a job: "none", "sent", "fallback", "done"

vars == <<inbox, phase, waiting, granted, refs, used, held, onto, replies,
          caller, handle, cancel>>
occupancy == <<used, held>>
scheduler == <<waiting, granted, refs, onto>>
callers   == <<caller, handle>>

TypeOK ==
  /\ inbox \in Seq(Messages)
  /\ phase \in {"receive", "admit", "gone"}
  /\ waiting \in Seq(Jobs)
  /\ granted \subseteq Jobs
  /\ refs \in [Jobs -> Nat]
  /\ used \in [Classes -> Nat]
  /\ held \in [Keys \X KeyedClasses -> Nat]
  /\ onto \in [Jobs -> Jobs \cup {NoJob}]
  /\ replies \subseteq Jobs
  /\ caller \in [Jobs -> CallerStates]
  /\ handle \in [Jobs -> Jobs \cup {NoJob}]
  /\ \A j \in Jobs : caller[j] = "holding" => handle[j] \in Jobs
  /\ cancel \in [Jobs -> {"none", "sent", "fallback", "done"}]

Init ==
  /\ inbox = <<>> /\ phase = "receive"
  /\ waiting = <<>> /\ granted = {} /\ refs = [j \in Jobs |-> 0]
  /\ used = [c \in Classes |-> 0]
  /\ held = [s \in Keys \X KeyedClasses |-> 0]
  /\ onto = [j \in Jobs |-> NoJob]
  /\ replies = {}
  /\ caller = [j \in Jobs |-> "new"]
  /\ handle = [j \in Jobs |-> NoJob]
  /\ cancel = [j \in Jobs |-> "none"]

-----------------------------------------------------------------------------
(* Callers.                                                                *)

\* A message sent after the dispatcher is gone is lost.
Send(m) == inbox' = IF phase = "gone" THEN inbox ELSE Append(inbox, m)

Submit(j) ==
  /\ caller[j] = "new"
  /\ caller' = [caller EXCEPT ![j] = IF phase = "gone" THEN "refused" ELSE "blocked"]
  /\ Send([type |-> "Submit", id |-> j])
  /\ UNCHANGED <<phase, scheduler, occupancy, replies, handle, cancel>>

\* Drop or release of a JobHandle.  A coalesced caller's handle carries the id
\* of the job it was folded onto.
Drop(j) ==
  /\ caller[j] = "holding"
  /\ caller' = [caller EXCEPT ![j] = "dropped"]
  /\ Send([type |-> "Release", id |-> handle[j]])
  /\ UNCHANGED <<phase, scheduler, occupancy, replies, handle, cancel>>

Cancel(j) ==
  /\ j \in Cancellable
  /\ cancel[j] = "none" /\ caller[j] # "new" /\ phase # "gone"
  /\ cancel' = [cancel EXCEPT ![j] = "sent"]
  /\ Send([type |-> "CancelQueued", id |-> j])
  /\ UNCHANGED <<phase, scheduler, occupancy, replies, callers>>

\* The second half of cancel: the job was not queued, so its permits are
\* released as its holder would.
CancelFallback(j) ==
  /\ cancel[j] = "fallback"
  /\ cancel' = [cancel EXCEPT ![j] = "done"]
  /\ Send([type |-> "Release", id |-> j])
  /\ UNCHANGED <<phase, scheduler, occupancy, replies, callers>>

Shutdown ==
  /\ Shuts /\ phase # "gone"
  /\ \A i \in DOMAIN inbox : inbox[i].type # "Shutdown"
  /\ Send([type |-> "Shutdown", id |-> NoJob])
  /\ UNCHANGED <<phase, scheduler, occupancy, replies, callers, cancel>>

-----------------------------------------------------------------------------
(* The dispatcher.                                                         *)

Receive(type, id) ==
  /\ phase = "receive" /\ inbox # <<>>
  /\ Head(inbox) = [type |-> type, id |-> id]
  /\ inbox' = Tail(inbox)

Queued == {waiting[i] : i \in DOMAIN waiting}
Without(i) ==
  [k \in 1..(Len(waiting) - 1) |-> IF k < i THEN waiting[k] ELSE waiting[k + 1]]

\* find_coalesce_target.
CoalesceTargets(j) ==
  {t \in granted \cup Queued : CoalesceOf[j] # NoKey /\ CoalesceOf[t] = CoalesceOf[j]}

\* A caller that gets a reply leaves recv.
Answer(J, state, id) ==
  /\ caller' = [j \in Jobs |-> IF j \in J THEN state ELSE caller[j]]
  /\ handle' = [j \in Jobs |-> IF j \in J THEN id ELSE handle[j]]

\* A submission is folded onto a job of the same key: at once when that job is
\* granted, else when it will be.
Coalesce(j) ==
  /\ Receive("Submit", j)
  /\ \E t \in CoalesceTargets(j) :
       /\ onto' = [onto EXCEPT ![j] = t]
       /\ IF t \in granted
          THEN /\ refs' = [refs EXCEPT ![t] = @ + 1]
               /\ Answer({j}, "holding", t)
               /\ UNCHANGED replies
          ELSE /\ replies' = replies \cup {j}
               /\ UNCHANGED <<refs, callers>>
  /\ UNCHANGED <<phase, waiting, granted, occupancy, cancel>>

Enqueue(j) ==
  /\ Receive("Submit", j)
  /\ CoalesceTargets(j) = {}
  /\ Len(waiting) < QueueCap
  /\ waiting' = Append(waiting, j)
  /\ replies' = replies \cup {j}
  /\ phase' = "admit"
  /\ UNCHANGED <<granted, refs, onto, occupancy, callers, cancel>>

Reject(j) ==
  /\ Receive("Submit", j)
  /\ CoalesceTargets(j) = {}
  /\ Len(waiting) >= QueueCap
  /\ Answer({j}, "refused", NoJob)
  /\ UNCHANGED <<phase, scheduler, occupancy, replies, cancel>>

\* cancel_queued: the job, if it is queued, and everything folded onto it.
CancelQueued(j) ==
  LET folded   == {c \in Jobs : onto[c] = j}
      affected == folded \cup (Queued \cap {j})
  IN  /\ Receive("CancelQueued", j)
      /\ \/ \E i \in DOMAIN waiting : waiting[i] = j /\ waiting' = Without(i)
         \/ j \notin Queued /\ UNCHANGED waiting
      /\ onto' = [c \in Jobs |-> IF c \in folded \cup {j} THEN NoJob ELSE onto[c]]
      /\ replies' = replies \ affected
      /\ Answer(affected \cap replies, "refused", NoJob)
      /\ cancel' = [cancel EXCEPT ![j] = IF j \in affected THEN "done" ELSE "fallback"]
      /\ phase' = "admit"
      /\ UNCHANGED <<granted, refs, occupancy>>

\* Occupancy::grant and Occupancy::release (saturating).
Less(n) == IF n = 0 THEN 0 ELSE n - 1

Occupy(j) ==
  /\ used' = [c \in Classes |-> IF c \in ClassesOf[j] THEN used[c] + 1 ELSE used[c]]
  /\ held' = [s \in Keys \X KeyedClasses |->
                IF s \in KeysOf[j] \X ClassesOf[j] THEN held[s] + 1 ELSE held[s]]

\* Mutant: the keys stay occupied.
VacateClassesOnly(j) ==
  /\ used' = [c \in Classes |-> IF c \in ClassesOf[j] THEN Less(used[c]) ELSE used[c]]
  /\ UNCHANGED held

Vacate(j) ==
  /\ used' = [c \in Classes |-> IF c \in ClassesOf[j] THEN Less(used[c]) ELSE used[c]]
  /\ held' = [s \in Keys \X KeyedClasses |->
                IF s \in KeysOf[j] \X ClassesOf[j] THEN Less(held[s]) ELSE held[s]]

\* release_granted: the last holder's release gives the reservation back.
Release(j) ==
  /\ Receive("Release", j)
  /\ onto' = [onto EXCEPT ![j] = NoJob]
  /\ refs' = [refs EXCEPT ![j] = Less(@)]
  /\ IF refs[j] = 1
     THEN granted' = granted \ {j} /\ Vacate(j)
     ELSE UNCHANGED <<granted, occupancy>>
  /\ phase' = "admit"
  /\ UNCHANGED <<waiting, replies, callers, cancel>>

\* Mutant: an off-by-one at the global cap.
CanGrantOneOver(j) ==
  /\ \A c \in ClassesOf[j] : used[c] <= Cap[c]
  /\ \A s \in KeysOf[j] \X (ClassesOf[j] \cap KeyedClasses) : held[s] = 0

CanGrant(j) ==
  /\ \A c \in ClassesOf[j] : used[c] + 1 <= Cap[c]
  /\ \A s \in KeysOf[j] \X (ClassesOf[j] \cap KeyedClasses) : held[s] = 0

\* try_admit_next: the first queued job that fits, not strictly the head.
IsNext(i) ==
  /\ i \in DOMAIN waiting /\ CanGrant(waiting[i])
  /\ \A k \in DOMAIN waiting : k < i => ~CanGrant(waiting[k])

\* Mutant: only the job itself is told.
AdmitTargetOnly(j) ==
  LET folded == {c \in Jobs : onto[c] = j}
  IN  /\ phase = "admit"
      /\ \E i \in DOMAIN waiting :
           IsNext(i) /\ waiting[i] = j /\ waiting' = Without(i)
      /\ granted' = granted \cup {j}
      /\ refs' = [refs EXCEPT ![j] = 1 + Cardinality(folded)]
      /\ Occupy(j)
      /\ replies' = replies \ {j}
      /\ Answer({j} \cap replies, "holding", j)
      /\ UNCHANGED <<inbox, phase, onto, cancel>>

\* The job and all callers folded onto it get their handles together.
Admit(j) ==
  LET folded == {c \in Jobs : onto[c] = j}
  IN  /\ phase = "admit"
      /\ \E i \in DOMAIN waiting :
           IsNext(i) /\ waiting[i] = j /\ waiting' = Without(i)
      /\ granted' = granted \cup {j}
      /\ refs' = [refs EXCEPT ![j] = 1 + Cardinality(folded)]
      /\ Occupy(j)
      /\ replies' = replies \ (folded \cup {j})
      /\ Answer((folded \cup {j}) \cap replies, "holding", j)
      /\ UNCHANGED <<inbox, phase, onto, cancel>>

NoneRunnable ==
  /\ phase = "admit"
  /\ \A i \in DOMAIN waiting : ~CanGrant(waiting[i])
  /\ phase' = "receive"
  /\ UNCHANGED <<inbox, scheduler, occupancy, replies, callers, cancel>>

\* Mutant: only the ids clear_all reports are told.
StopQueuedOnly ==
  /\ Receive("Shutdown", NoJob)
  /\ phase' = "gone"
  /\ waiting' = <<>> /\ granted' = {} /\ refs' = [j \in Jobs |-> 0]
  /\ used' = [c \in Classes |-> 0]
  /\ held' = [s \in Keys \X KeyedClasses |-> 0]
  /\ onto' = [j \in Jobs |-> NoJob]
  /\ replies' = {}
  /\ Answer(replies \cap (Queued \cup granted), "refused", NoJob)
  /\ cancel' = [j \in Jobs |-> IF cancel[j] = "sent" THEN "done" ELSE cancel[j]]

\* clear_all, and the dispatcher's end: every blocked caller is answered, those
\* whose message nobody will read included.
Stop ==
  /\ Receive("Shutdown", NoJob)
  /\ phase' = "gone"
  /\ waiting' = <<>> /\ granted' = {} /\ refs' = [j \in Jobs |-> 0]
  /\ used' = [c \in Classes |-> 0]
  /\ held' = [s \in Keys \X KeyedClasses |-> 0]
  /\ onto' = [j \in Jobs |-> NoJob]
  /\ replies' = {}
  /\ LET unread == {j \in Jobs : \E i \in DOMAIN inbox :
                      inbox[i] = [type |-> "Submit", id |-> j]}
     IN  Answer(replies \cup unread, "refused", NoJob)
  /\ cancel' = [j \in Jobs |-> IF cancel[j] = "sent" THEN "done" ELSE cancel[j]]

-----------------------------------------------------------------------------
Caller(j) == Submit(j) \/ Drop(j) \/ Cancel(j) \/ CancelFallback(j)

Dispatcher ==
  \/ \E j \in Jobs :
       \/ Coalesce(j) \/ Enqueue(j) \/ Reject(j) \/ CancelQueued(j)
       \/ Release(j) \/ Admit(j)
  \/ NoneRunnable \/ Stop

Next == Shutdown \/ Dispatcher \/ \E j \in Jobs : Caller(j)

Spec == Init /\ [][Next]_vars

\* The dispatcher thread runs, and whoever holds a handle drops it some day.
FairSpec ==
  /\ Spec /\ WF_vars(Dispatcher)
  /\ \A j \in Jobs : WF_vars(Drop(j)) /\ WF_vars(CancelFallback(j))

-----------------------------------------------------------------------------
(* Properties.                                                             *)

\* The counters admission is decided on are exactly what the granted jobs hold,
\* through coalescing, double releases and shutdown (Occupancy, queue.rs:68-133).
OccupancyExact ==
  /\ \A c \in Classes : used[c] = Cardinality({j \in granted : c \in ClassesOf[j]})
  /\ \A s \in Keys \X KeyedClasses :
       held[s] = Cardinality({j \in granted : s \in KeysOf[j] \X ClassesOf[j]})

\* Who holds a handle and never cancelled it holds its reservation, whoever else
\* of the same coalesced job has released it (queue.rs:302-309).
HolderKeepsReservation ==
  \A j \in Jobs :
    caller[j] = "holding" /\ cancel[j] = "none" /\ phase # "gone"
      => handle[j] \in granted

\* A caller blocked in recv is still going to be answered: its submission is
\* unread, it is queued, or it is folded onto a queued job (mod.rs:495-621).
NoForgottenCaller ==
  \A j \in Jobs : caller[j] = "blocked" =>
    /\ phase # "gone"
    /\ \/ \E i \in DOMAIN inbox : inbox[i] = [type |-> "Submit", id |-> j]
       \/ j \in replies /\ {j, onto[j]} \cap Queued # {}

\* The dispatcher goes back to its channel only when nothing queued fits: no
\* caller waits for capacity that is free (mod.rs:592-619).
NoIdleCapacity ==
  phase = "receive" => \A i \in DOMAIN waiting : ~CanGrant(waiting[i])

CoordinatorInv == TypeOK /\ HolderKeepsReservation /\ NoForgottenCaller /\ NoIdleCapacity

\* Every submission is decided, if holders let go of their handles.
Resolved ==
  \A j \in Jobs : caller[j] = "blocked" ~> caller[j] # "blocked"

\* Jobs reserve all they need in one step, within every cap and never a key
\* twice, as Admission promises.
Abstract == INSTANCE Admission WITH reserved <- granted
ImplementsAdmission == Abstract!Spec
=============================================================================
