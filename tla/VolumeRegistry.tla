---------------------------- MODULE VolumeRegistry ----------------------------
(***************************************************************************)
(* The volume registry (volumes/registry.rs): refreshes asked for by the   *)
(* native session, by focus and by an ejection, each discovering the       *)
(* mounted volumes on a thread of its own.  A discovery cannot be stopped, *)
(* so a generation counter decides whether what it found may be published; *)
(* a published list is sent to the frontend after the lock is released.    *)
(***************************************************************************)
EXTENDS Naturals

CONSTANTS
  Refreshers,  \* the callers of refresh, one call of each at a time
  Inventories, \* what a discovery may find mounted
  MaxRefresh   \* bound: refreshes

ASSUME RegistryAssumption == Inventories # {} /\ MaxRefresh \in Nat

Generations == 0..MaxRefresh
NoList == "none"

VARIABLES
  mounted,    \* what is mounted now
  generation, \* the latest generation
  snap,       \* the published snapshot; gen: the discovery it is from
  refresher,     \* refresher[r]: where refresh is, and its generation
  disc,       \* disc[g]: the discovery of generation g; 0 is the one of start
  told,       \* the list the frontend was last told
  raced       \* history: a refresh began inside a window of an older one

registryVars == <<mounted, generation, snap, refresher, disc, told, raced>>

RegistryInit ==
  /\ mounted \in Inventories
  /\ generation = 0
  /\ snap = [revision |-> 0, list |-> NoList, stale |-> FALSE, inFlight |-> FALSE, gen |-> 0]
  /\ refresher = [r \in Refreshers |-> [at |-> "idle", gen |-> 0]]
  /\ disc = [g \in Generations |-> [at |-> IF g = 0 THEN "discover" ELSE "off", list |-> NoList]]
  /\ told = NoList
  /\ raced = FALSE

Mount(inventory) ==
  /\ inventory # mounted /\ mounted' = inventory
  /\ UNCHANGED <<generation, snap, refresher, disc, told, raced>>

----------------------------------------------------------------------------
(* The refresher.  Registration with the system follows the first snapshot.   *)

\* A generation is claimed before anything else.  The check of an older
\* discovery and what it does then, and the claim of an older refresher and its
\* mark, are not one step: a claim between them is a race.
BeginRefresh(r) ==
  /\ refresher[r].at = "idle" /\ generation < MaxRefresh /\ disc[0].at = "done"
  /\ generation' = generation + 1
  /\ refresher' = [refresher EXCEPT ![r] = [at |-> "mark", gen |-> generation + 1]]
  /\ raced' = (raced \/ (\E g \in Generations : disc[g].at \in {"publish", "emit", "settle"})
                     \/ (\E s \in Refreshers : refresher[s].at = "mark"))
  /\ UNCHANGED <<mounted, snap, disc, told>>

\* mark_refreshing, then the thread.
SpawnDiscovery(r) ==
  /\ refresher[r].at = "mark"
  /\ snap' = [snap EXCEPT !.inFlight = TRUE]
  /\ refresher' = [refresher EXCEPT ![r].at = "wait"]
  /\ disc' = [disc EXCEPT ![refresher[r].gen].at = "discover"]
  /\ UNCHANGED <<mounted, generation, told, raced>>

Refreshed(r) ==
  /\ refresher[r].at = "wait" /\ disc[refresher[r].gen].at = "done"
  /\ refresher' = [refresher EXCEPT ![r].at = "idle"]
  /\ UNCHANGED <<mounted, generation, snap, disc, told, raced>>

\* REFRESH_DEADLINE passes, perhaps with the answer on its way.
MissDeadline(r) ==
  /\ refresher[r].at = "wait" /\ refresher' = [refresher EXCEPT ![r].at = "late"]
  /\ UNCHANGED <<mounted, generation, snap, disc, told, raced>>

MarkStale(r) ==
  /\ refresher[r].at = "late" /\ refresher' = [refresher EXCEPT ![r].at = "idle"]
  /\ snap' = [snap EXCEPT !.stale = TRUE]
  /\ UNCHANGED <<mounted, generation, disc, told, raced>>

----------------------------------------------------------------------------
(* The discovery.                                                          *)

DiscGoes(g, at) == disc' = [disc EXCEPT ![g].at = at]

Discover(g) ==
  /\ disc[g].at = "discover"
  /\ disc' = [disc EXCEPT ![g] = [at |-> IF g = 0 THEN "publish" ELSE "check", list |-> mounted]]
  /\ UNCHANGED <<mounted, generation, snap, refresher, told, raced>>

\* A mutant that publishes what it found however old it is.
Always(g) == TRUE
IsLatest(g) == g = generation

CheckLatest(g) ==
  /\ disc[g].at = "check"
  /\ DiscGoes(g, IF IsLatest(g) THEN "publish" ELSE "done")
  /\ UNCHANGED <<mounted, generation, snap, refresher, told, raced>>

\* publish_if_changed: an equal inventory only clears the stale mark.
PublishIfChanged(g) ==
  /\ disc[g].at = "publish"
  /\ IF disc[g].list = snap.list
       THEN /\ snap' = [snap EXCEPT !.stale = FALSE, !.gen = g]
            /\ DiscGoes(g, "settle")
       ELSE /\ snap' = [snap EXCEPT !.stale = FALSE, !.gen = g, !.list = disc[g].list, !.revision = @ + 1]
            /\ DiscGoes(g, "emit")
  /\ UNCHANGED <<mounted, generation, refresher, told, raced>>

\* VOLUMES_CHANGED, after the lock: the frontend takes the list as it comes.
EmitVolumes(g) ==
  /\ disc[g].at = "emit"
  /\ told' = disc[g].list
  /\ DiscGoes(g, "settle")
  /\ UNCHANGED <<mounted, generation, snap, refresher, raced>>

\* mark_refreshing(false) by a discovery that was the latest at its check.
SettleRefresh(g) ==
  /\ disc[g].at = "settle"
  /\ snap' = IF g = 0 THEN snap ELSE [snap EXCEPT !.inFlight = FALSE]
  /\ DiscGoes(g, "done")
  /\ UNCHANGED <<mounted, generation, refresher, told, raced>>

RegistryNext ==
  \/ \E i \in Inventories : Mount(i)
  \/ \E r \in Refreshers :
       BeginRefresh(r) \/ SpawnDiscovery(r) \/ Refreshed(r) \/ MissDeadline(r) \/ MarkStale(r)
  \/ \E g \in Generations :
       Discover(g) \/ CheckLatest(g) \/ PublishIfChanged(g) \/ EmitVolumes(g) \/ SettleRefresh(g)

RegistrySpec == RegistryInit /\ [][RegistryNext]_registryVars

----------------------------------------------------------------------------
\* Type correctness.
RegistryTypeOK ==
  /\ mounted \in Inventories /\ generation \in Generations /\ raced \in BOOLEAN
  /\ snap.list \in Inventories \cup {NoList} /\ snap.gen \in Generations /\ snap.revision \in Nat
  /\ told \in Inventories \cup {NoList}
  /\ \A r \in Refreshers : refresher[r].at \in {"idle", "mark", "wait", "late"} /\ refresher[r].gen \in Generations
  /\ \A g \in Generations :
       disc[g].at \in {"off", "discover", "check", "publish", "emit", "settle", "done"}

Quiet ==
  /\ \A g \in Generations : disc[g].at \in {"off", "done"}
  /\ \A r \in Refreshers : refresher[r].at # "mark"

\* With no discovery under way, the published list and the one the frontend
\* shows are what the newest discovery found, and nothing is reported in
\* flight, unless a refresh began in the short window between an older
\* discovery's check and its end, or between an older claim and its mark.
\* Discoveries that overlap in any other way, time out or end in another order
\* do no harm.
RestIsFresh ==
  Quiet /\ ~raced =>
    snap.list = disc[generation].list /\ told = snap.list /\ ~snap.inFlight

\* What the registry says of its generation counter: a superseded discovery
\* cannot clobber a newer snapshot.
NewestWins == Quiet => snap.list = disc[generation].list

\* What holds in every state: above all that a registry at rest is fresh.
RegistryInv == RegistryTypeOK /\ RestIsFresh
=============================================================================
