----------------------------- MODULE ItemCounts -----------------------------
(***************************************************************************)
(* Item counts (item_counts/).  The main thread plans a viewport's folders *)
(* and queues the plan; at most two drainers, each one job of the IPC      *)
(* executor, take plans and count; sorts by item count run beside them and *)
(* share the cache of counts.  Every lock region is a step.                *)
(***************************************************************************)
EXTENDS Naturals, Sequences, FiniteSets, Functions, Filter

CONSTANTS
  Scopes,            \* pane and tab
  Listed,              \* folders of the listing
  CountLimit,        \* AUTO_ITEM_COUNT_LIMIT
  CountQueueCap,     \* MAX_AUTOMATIC_ITEM_COUNT_QUEUE
  CountWorkers,      \* MAX_AUTOMATIC_ITEM_COUNT_WORKERS
  CountCacheCap,     \* ITEM_COUNT_CACHE_LIMIT
  Viewports,         \* the lists of folders a viewport may ask for
  MaxRequests,       \* bound: viewport requests and closed tabs
  MaxContexts,       \* bound: navigations of a scope
  MaxRevisions,      \* bound: folded watch patches
  Sorters,           \* sort_active_items calls
  ExecutorRefuses    \* may the executor turn a drainer away?

ASSUME CountAssumption ==
  /\ CountLimit \in Nat /\ CountCacheCap \in Nat \ {0}
  /\ CountWorkers \in Nat \ {0} /\ CountQueueCap \in Nat \ {0}
  /\ MaxRequests \in Nat /\ MaxContexts \in Nat /\ MaxRevisions \in Nat \ {0}
  /\ Viewports \subseteq Seq(Listed) /\ ExecutorRefuses \in BOOLEAN
  /\ Sorters \cap (1..MaxRequests) = {}     \* a sorter is no drainer

Cache == INSTANCE BoundedCache WITH MaxEntries <- CountCacheCap,
                                    MaxWeight <- CountCacheCap

\* A drainer is named after the request that spawned it.
Drainers == 1..MaxRequests
Counters == Drainers \cup Sorters

Nothing == [token |-> 0, ctx |-> 0, requested |-> <<>>]
NoPlan == [scope |-> 0, token |-> 0, ctx |-> 0, gen |-> 0, paths |-> <<>>]

VARIABLES
  automatic,   \* scope -> newest token, context and requested paths
  explicit,    \* scope -> newest token and context of the sorts
  plans,       \* automatic_queue
  slots,       \* automatic_workers
  counts,      \* the cache: (folder, generation) -> state
  revision,    \* the session's watch revision
  voids,       \* invalidations that a folded patch still has to make
  main,        \* the main thread: what it does, and the plan in its hands
  newest,      \* the context the frontend shows, per scope
  asked,       \* number of requests and closings so far
  thread,      \* drainers and sorters: where they are
  work,        \* the plan (or sort) they work on
  at,          \* the index of the folder they are at
  spoiled      \* history: keys whose pending entry was evicted or invalidated

countVars == <<automatic, explicit, plans, slots, counts, revision,
               voids, main, newest, asked, thread, work, at, spoiled>>
mainVars == <<main, newest, asked>>
drainVars == <<thread, work, at>>

CountInit ==
  /\ automatic = [s \in Scopes |-> Nothing]
  /\ explicit = [s \in Scopes |-> Nothing]
  /\ plans = <<>> /\ slots = 0 /\ counts = Cache!Empty /\ revision = 1 /\ voids = {}
  /\ main = [does |-> "idle", plan |-> NoPlan]
  /\ newest = [s \in Scopes |-> 1] /\ asked = 0
  /\ thread = [t \in Counters |-> "none"]
  /\ work = [t \in Counters |-> NoPlan] /\ at = [t \in Counters |-> 0]
  /\ spoiled = {}

-----------------------------------------------------------------------------
(* Requests.  A Tauri command without async runs on the main thread, so    *)
(* one request is planned, pushed and given a slot before the next.        *)

FirstOf(s, n) == SubSeq(s, 1, IF n < Len(s) THEN n ELSE Len(s))
Without(s, t) == Keep(s, Range(s) \ Range(t))

\* The newest viewport supersedes the plan before it, and takes over its
\* paths when it is of the same context.
PlanOf(s, ctx, view) ==
  LET old     == automatic[s]
      carried == IF old.ctx = ctx THEN old.requested ELSE <<>>
      room    == IF Len(carried) < CountLimit THEN CountLimit - Len(carried) ELSE 0
  IN [scope |-> s, token |-> old.token + 1, ctx |-> ctx, gen |-> revision,
      paths |-> carried \o FirstOf(Without(view, carried), room)]

RequestVisible(s) ==
  /\ main.does = "idle" /\ asked < MaxRequests /\ asked' = asked + 1
  /\ \E ctx \in newest[s]..MaxContexts, view \in Viewports :
       LET plan == PlanOf(s, ctx, view) IN
       /\ newest' = [newest EXCEPT ![s] = ctx]
       /\ automatic' = [automatic EXCEPT ![s] =
            [token |-> plan.token, ctx |-> ctx, requested |-> plan.paths]]
       /\ main' = IF plan.paths = <<>> THEN main
                  ELSE [does |-> "push", plan |-> plan]
  /\ UNCHANGED <<explicit, plans, slots, counts, revision, voids, drainVars, spoiled>>

PlansWithout(s) == Keep(plans, {p \in Range(plans) : p.scope # s})

\* Only the newest plan of a scope stays queued, and the queue is bounded.
PushPlan ==
  LET others == PlansWithout(main.plan.scope)
      kept   == IF Len(others) < CountQueueCap THEN others
                ELSE SubSeq(others, Len(others) - CountQueueCap + 2, Len(others))
  IN /\ main.does = "push"
     /\ plans' = Append(kept, main.plan)
     /\ main' = [does |-> "claim", plan |-> NoPlan]
     /\ UNCHANGED <<automatic, explicit, slots, counts, revision, voids, newest, asked,
                    drainVars, spoiled>>

ClaimSlot ==
  /\ main.does = "claim" /\ main' = [does |-> "idle", plan |-> NoPlan]
  /\ IF slots >= CountWorkers THEN UNCHANGED <<slots, thread>>
     ELSE /\ slots' = slots + 1
          /\ thread' = [thread EXCEPT ![asked] = "starting"]
  /\ UNCHANGED <<automatic, explicit, plans, counts, revision, voids, newest, asked,
                 work, at, spoiled>>

\* A closed tab: its states and then its queued plans are dropped.  The tab's
\* contexts are never used again.
CancelTab(s) ==
  /\ main.does = "idle" /\ newest[s] < MaxContexts
  /\ asked < MaxRequests /\ asked' = asked + 1
  /\ newest' = [newest EXCEPT ![s] = @ + 1]
  /\ automatic' = [automatic EXCEPT ![s] = Nothing]
  /\ explicit' = [explicit EXCEPT ![s] = Nothing]
  /\ main' = [does |-> "drop", plan |-> [NoPlan EXCEPT !.scope = s]]
  /\ UNCHANGED <<plans, slots, counts, revision, voids, drainVars, spoiled>>
DropPlans ==
  /\ main.does = "drop" /\ main' = [does |-> "idle", plan |-> NoPlan]
  /\ plans' = PlansWithout(main.plan.scope)
  /\ UNCHANGED <<automatic, explicit, slots, counts, revision, voids, newest, asked,
                 drainVars, spoiled>>

\* A watch patch is folded into the session, ...
FoldPatch(changed) ==
  /\ revision < MaxRevisions /\ revision' = revision + 1
  /\ voids' = voids \cup {<<d, revision + 1>> : d \in changed}
  /\ UNCHANGED <<automatic, explicit, plans, slots, counts, mainVars, drainVars,
                 spoiled>>

\* ... and then, under another lock, the counts of each folder it changed are
\* void up to the new revision.
Pending(c) == {r.key : r \in {x \in Range(c.items) : x.value = "pending"}}
InvalidateGeneration(v) ==
  LET void == {k \in Cache!Keys(counts) : k[1] = v[1] /\ k[2] <= v[2]}
      next == Cache!Retain(counts, Cache!Keys(counts) \ void)
  IN /\ v \in voids /\ voids' = voids \ {v}
     /\ counts' = next /\ spoiled' = spoiled \cup (Pending(counts) \ Pending(next))
     /\ UNCHANGED <<automatic, explicit, plans, slots, revision, mainVars, drainVars>>

-----------------------------------------------------------------------------
(* A drainer: its start, and the protocol by which it ends.                *)

Go(t, from, to) == thread[t] = from /\ thread' = [thread EXCEPT ![t] = to]

DrainStarts(t) ==
  /\ Go(t, "starting", "pop")
  /\ UNCHANGED <<automatic, explicit, plans, slots, counts, revision, voids, mainVars,
                 work, at, spoiled>>

\* The executor's queue is full, it shuts down, its admission is refused or
\* the deadline passes before it comes to this job: the closure is dropped.
DrainRefused(t) ==
  /\ ExecutorRefuses /\ Go(t, "starting", "refused")
  /\ UNCHANGED <<automatic, explicit, plans, slots, counts, revision, voids, mainVars,
                 work, at, spoiled>>

PopPlan(t) ==
  /\ thread[t] = "pop"
  /\ IF plans = <<>>
     THEN Go(t, "pop", "leave") /\ UNCHANGED <<plans, work, at>>
     ELSE /\ Go(t, "pop", "check") /\ plans' = Tail(plans)
          /\ work' = [work EXCEPT ![t] = Head(plans)]
          /\ at' = [at EXCEPT ![t] = 1]
  /\ UNCHANGED <<automatic, explicit, slots, counts, revision, voids, mainVars, spoiled>>

\* Mutant: the drainer ends with its slot given back and no second look.
LeaveForGood(t) ==
  /\ Go(t, "leave", "done") /\ slots' = slots - 1
  /\ UNCHANGED <<automatic, explicit, plans, counts, revision, voids, mainVars, work,
                 at, spoiled>>

\* The slot is given back, ...
Leave(t) ==
  /\ Go(t, "leave", "peek") /\ slots' = slots - 1
  /\ UNCHANGED <<automatic, explicit, plans, counts, revision, voids, mainVars, work,
                 at, spoiled>>

\* ... the queue is looked at again, ...
Peek(t) ==
  /\ Go(t, "peek", IF plans = <<>> THEN "done" ELSE "reclaim")
  /\ UNCHANGED <<automatic, explicit, plans, slots, counts, revision, voids, mainVars,
                 work, at, spoiled>>

\* ... and a slot is taken for what came meanwhile, if there is one.
Reclaim(t) ==
  /\ IF slots >= CountWorkers THEN Go(t, "reclaim", "done") /\ UNCHANGED slots
     ELSE Go(t, "reclaim", "pop") /\ slots' = slots + 1
  /\ UNCHANGED <<automatic, explicit, plans, counts, revision, voids, mainVars, work,
                 at, spoiled>>

-----------------------------------------------------------------------------
(* Counting, by drainers and sorters alike.                                *)

Current(t) ==
  LET now == IF t \in Sorters THEN explicit[work[t].scope]
             ELSE automatic[work[t].scope]
  IN now.token = work[t].token /\ now.ctx = work[t].ctx

Forget(t) ==
  work' = [work EXCEPT ![t] = NoPlan] /\ at' = [at EXCEPT ![t] = 0]

Check(t) ==
  /\ Go(t, "check", IF Current(t) THEN "lookup"
                    ELSE IF t \in Sorters THEN "superseded" ELSE "release")
  /\ UNCHANGED <<automatic, explicit, plans, slots, counts, revision, voids, mainVars,
                 work, at, spoiled>>

\* The reservations of a superseded plan are given back.
ReleasePaths(t) ==
  LET s == work[t].scope IN
  /\ Go(t, "release", "pop")
  /\ automatic' = [automatic EXCEPT ![s].requested = Without(@, work[t].paths)]
  /\ Forget(t)
  /\ UNCHANGED <<explicit, plans, slots, counts, revision, voids, mainVars, spoiled>>

\* After the last folder a drainer takes the next plan; a sorter sorts, and
\* looks a last time whether it is superseded.
Advance(t) ==
  IF at[t] < Len(work[t].paths)
  THEN /\ thread' = [thread EXCEPT ![t] = "check"]
       /\ at' = [at EXCEPT ![t] = @ + 1] /\ UNCHANGED work
  ELSE IF t \in Sorters
  THEN thread' = [thread EXCEPT ![t] = "answer"] /\ UNCHANGED <<work, at>>
  ELSE thread' = [thread EXCEPT ![t] = "pop"] /\ Forget(t)

Key(t) == <<work[t].paths[at[t]], work[t].gen>>
Known(k) == IF Cache!Has(counts, k) THEN Cache!Value(counts, k) ELSE "unknown"

Store(k, state) ==
  /\ counts' = Cache!Insert(counts, k, state, 1)
  /\ spoiled' = spoiled \cup (Pending(counts) \ (Pending(counts') \cup {k}))

\* A known count is used; a pending one belongs to another thread and is
\* skipped; an unknown one becomes pending and is read outside the lock.
Lookup(t) ==
  /\ thread[t] = "lookup"
  /\ IF Known(Key(t)) # "unknown"
     THEN Advance(t) /\ counts' = Cache!Touch(counts, Key(t)) /\ UNCHANGED spoiled
     ELSE /\ Go(t, "lookup", "reading") /\ Store(Key(t), "pending")
          /\ UNCHANGED <<work, at>>
  /\ UNCHANGED <<automatic, explicit, plans, slots, revision, voids, mainVars>>

Resolve(t) ==
  /\ thread[t] = "reading" /\ Advance(t)
  /\ \E found \in {"exact", "unavailable"} : Store(Key(t), found)
  /\ UNCHANGED <<automatic, explicit, plans, slots, revision, voids, mainVars>>

-----------------------------------------------------------------------------
(* sort_active_items: from the session's snapshot, or from a fresh listing.*)

BeginSort(t, s) ==
  /\ thread[t] = "none"
  /\ explicit' = [explicit EXCEPT ![s] =
       [token |-> @.token + 1, ctx |-> newest[s], requested |-> <<>>]]
  /\ \E rows \in Viewports, listing \in BOOLEAN :
       /\ work' = [work EXCEPT ![t] = [scope |-> s, token |-> explicit[s].token + 1,
                     ctx |-> newest[s], gen |-> revision, paths |-> rows]]
       /\ thread' = [thread EXCEPT ![t] =
            IF listing \/ rows = <<>> THEN "answer" ELSE "check"]
  /\ at' = [at EXCEPT ![t] = 1]
  /\ UNCHANGED <<automatic, plans, slots, counts, revision, voids, mainVars, spoiled>>

AnswerSort(t) ==
  /\ Go(t, "answer", IF Current(t) THEN "ready" ELSE "superseded")
  /\ Forget(t)
  /\ UNCHANGED <<automatic, explicit, plans, slots, counts, revision, voids, mainVars,
                 spoiled>>

-----------------------------------------------------------------------------
Drains(t) ==
  \/ DrainStarts(t) \/ DrainRefused(t) \/ PopPlan(t) \/ Leave(t) \/ Peek(t)
  \/ Reclaim(t) \/ ReleasePaths(t)
CountsFolder(t) == Check(t) \/ Lookup(t) \/ Resolve(t)

CountNext ==
  \/ \E s \in Scopes : RequestVisible(s) \/ CancelTab(s)
  \/ PushPlan \/ ClaimSlot \/ DropPlans
  \/ \E changed \in {{}} \cup {{d} : d \in Listed} : FoldPatch(changed)
  \/ \E v \in voids : InvalidateGeneration(v)
  \/ \E t \in Drainers : Drains(t)
  \/ \E t \in Counters : CountsFolder(t)
  \/ \E t \in Sorters : AnswerSort(t) \/ \E s \in Scopes : BeginSort(t, s)

CountSpec == CountInit /\ [][CountNext]_countVars

-----------------------------------------------------------------------------
(* Properties.                                                             *)

\* Where a drainer holds a slot.
Holding == {"starting", "refused", "pop", "check", "lookup", "reading",
            "release", "leave"}
Busy(t) == thread[t] \in Holding \ {"refused"}

CountTypeOK ==
  /\ slots \in Nat /\ revision \in 1..MaxRevisions
  /\ Cache!WithinLimits(counts)
  /\ Len(plans) <= CountQueueCap
  /\ \A i, j \in DOMAIN plans : plans[i].scope = plans[j].scope => i = j
  /\ \A s \in Scopes : Len(automatic[s].requested) <= CountLimit

\* The slots taken are the drainers that hold one, a refused one included, and
\* never more than there are.
SlotsExact ==
  /\ slots <= CountWorkers
  /\ slots = Cardinality({t \in Drainers : thread[t] \in Holding})

\* A plan that is queued has a drainer to come for it, whichever of the
\* drainers were winding down when it was pushed - unless the executor has
\* turned one away.
NoStrandedPlan ==
  plans # <<>> /\ main.does # "claim"
    => \/ \E t \in Drainers : Busy(t) \/ thread[t] \in {"peek", "reclaim"}
       \/ \E t \in Drainers : thread[t] = "refused"

\* One folder is read by one thread at a time for one generation, drainers and
\* sorts together, unless its pending mark was evicted or invalidated.
SingleFlight ==
  \A s, t \in Counters :
    thread[s] = "reading" /\ thread[t] = "reading" /\ Key(s) = Key(t)
      => s = t \/ Key(s) \in spoiled

\* What holds in every state: slots are exact, a queued plan has a drainer to come
\* for it, and a folder is read by one thread at a time.
CountInv == CountTypeOK /\ SlotsExact /\ NoStrandedPlan /\ SingleFlight
=============================================================================
