---------------------------- MODULE Storage_proofs ----------------------------
(***************************************************************************)
(* Proofs about the registry of volumes, the parallel folder walker, the   *)
(* worker of a Compress or an Extract and the folder size index            *)
(* (VolumeRegistry, FastWalk, Archives, SizeIndex), for any number of      *)
(* refreshes, walks, threads, items, members, retries, directories, events *)
(* and launches.                                                           *)
(***************************************************************************)
EXTENDS SizeIndex, FastWalk, VolumeRegistry, Archives, FoldFacts, SequenceTheorems, TLAPS

-----------------------------------------------------------------------------
(* The registry.  RestIsFresh is not inductive: it must be followed from   *)
(* the claim of a generation to the end of its discovery.                  *)

RegistryTypes ==
  /\ mounted \in Inventories /\ generation \in Generations /\ raced \in BOOLEAN
  /\ snap \in [revision : Nat, list : Inventories \cup {NoList}, stale : BOOLEAN,
               inFlight : BOOLEAN, gen : Generations]
  /\ told \in Inventories \cup {NoList}
  /\ refresher \in [Refreshers -> [at : {"idle", "mark", "wait", "late"}, gen : Generations]]
  /\ disc \in [Generations ->
       [at : {"off", "discover", "check", "publish", "emit", "settle", "done"},
        list : Inventories \cup {NoList}]]

\* Each generation is claimed once and marked before it is discovered, and the
\* discovery of the start is over before the first claim.
Claims ==
  /\ \A r \in Refreshers : refresher[r].at = "mark" =>
       refresher[r].gen \in 1..generation /\ disc[refresher[r].gen].at = "off"
  /\ \A r, s \in Refreshers :
       refresher[r].at = "mark" /\ refresher[s].at = "mark" /\ refresher[r].gen = refresher[s].gen
         => r = s
  /\ \A g \in Generations : g > generation => disc[g].at = "off"
  /\ disc[generation].at = "off" =>
       \E r \in Refreshers : refresher[r].at = "mark" /\ refresher[r].gen = generation
  /\ generation > 0 => disc[0].at = "done"

\* Without a race only the latest discovery publishes, only the latest claim is
\* still to be marked, and what is published and told follows the discovery.
Follows ==
  /\ \A g \in Generations : g # generation => disc[g].at \notin {"publish", "emit", "settle"}
  /\ \A r \in Refreshers : refresher[r].at = "mark" => refresher[r].gen = generation
  /\ disc[generation].at # "emit" => told = snap.list
  /\ disc[generation].at \in {"emit", "settle", "done"} => snap.list = disc[generation].list
  /\ generation = 0 \/ disc[generation].at = "done" => ~snap.inFlight

RegistryIInv == RegistryTypes /\ Claims /\ (~raced => Follows)

LEMMA RegistryStart == RegistryInit => RegistryIInv
<1> SUFFICES ASSUME RegistryInit PROVE RegistryIInv
  OBVIOUS
<1>1. generation = 0 /\ 0 \in Generations /\ disc[0].at = "discover"
  BY RegistryAssumption DEF RegistryInit, Generations
<1>2. RegistryTypes
  BY <1>1 DEF RegistryInit, RegistryTypes
<1>3. Claims
  BY <1>1 DEF RegistryInit, Claims
<1>4. Follows
  BY <1>1 DEF RegistryInit, Follows
<1> QED
  BY <1>2, <1>3, <1>4 DEF RegistryIInv

LEMMA RegistryStep ==
  ASSUME RegistryIInv, [RegistryNext]_registryVars PROVE RegistryIInv'
<1>t. RegistryTypes /\ Claims
  BY DEF RegistryIInv
<1>g. MaxRefresh \in Nat /\ generation \in Nat /\ generation <= MaxRefresh
  BY <1>t, RegistryAssumption DEF RegistryTypes, Generations
<1>1. ASSUME NEW i \in Inventories, Mount(i) PROVE RegistryIInv'
  BY <1>1, <1>t DEF RegistryIInv, RegistryTypes, Claims, Follows, Mount
<1>2. ASSUME NEW r \in Refreshers, BeginRefresh(r) PROVE RegistryIInv'
  <2>1. RegistryTypes'
    BY <1>2, <1>t, <1>g DEF BeginRefresh, RegistryTypes, Generations
  <2>2. Claims'
    BY <1>2, <1>t, <1>g DEF BeginRefresh, RegistryTypes, Claims, Generations
  <2>3. ASSUME ~raced' PROVE Follows'
    <3>a. ~raced /\ (\A g \in Generations : disc[g].at \notin {"publish", "emit", "settle"})
            /\ \A s \in Refreshers : refresher[s].at # "mark"
      BY <1>2, <2>3, <1>t DEF BeginRefresh, RegistryTypes
    <3>b. generation' = generation + 1 /\ UNCHANGED <<snap, told, disc>> /\ generation < MaxRefresh
      BY <1>2 DEF BeginRefresh
    <3>1. Follows /\ generation' \in Generations /\ generation' # generation /\ generation' > generation
            /\ generation' # 0
      BY <3>a, <3>b, <1>g DEF RegistryIInv, Generations
    <3>2. refresher'[r] = [at |-> "mark", gen |-> generation']
            /\ \A s \in Refreshers \ {r} : refresher'[s] = refresher[s]
      BY <1>2, <3>b, <1>t DEF BeginRefresh, RegistryTypes
    <3>3. disc[generation'].at = "off"
      BY <3>1, <1>t DEF Claims
    <3>4. told = snap.list
      BY <3>1, <3>a, <1>t DEF Follows, RegistryTypes
    <3> QED
      BY <3>1, <3>a, <3>b, <3>2, <3>3, <3>4 DEF Follows
  <2> QED
    BY <2>1, <2>2, <2>3 DEF RegistryIInv
<1>3. ASSUME NEW r \in Refreshers, SpawnDiscovery(r) PROVE RegistryIInv'
  <2>0. PICK n : n = refresher[r].gen
    OBVIOUS
  <2>1. /\ n \in 1..generation /\ n \in Generations /\ refresher[r].at = "mark"
        /\ UNCHANGED <<mounted, generation, told, raced>>
        /\ snap' = [snap EXCEPT !.inFlight = TRUE]
        /\ refresher' = [refresher EXCEPT ![r].at = "wait"]
        /\ disc' = [disc EXCEPT ![n].at = "discover"]
    BY <1>3, <1>t, <1>g, <2>0 DEF SpawnDiscovery, Claims, Generations
  <2>a. snap' \in [revision : Nat, list : Inventories \cup {NoList}, stale : BOOLEAN,
                    inFlight : BOOLEAN, gen : Generations]
    BY <2>1, <1>t DEF RegistryTypes
  <2>b. refresher' \in [Refreshers -> [at : {"idle", "mark", "wait", "late"}, gen : Generations]]
    BY <2>1, <1>t DEF RegistryTypes
  <2>c. disc' \in [Generations ->
          [at : {"off", "discover", "check", "publish", "emit", "settle", "done"},
           list : Inventories \cup {NoList}]]
    BY <2>1, <1>t DEF RegistryTypes
  <2>2. RegistryTypes'
    BY <2>1, <2>a, <2>b, <2>c, <1>t DEF RegistryTypes
  <2>3. Claims'
    BY <2>0, <2>1, <1>t, <1>g DEF RegistryTypes, Claims, Generations
  <2>4. ASSUME ~raced' PROVE Follows'
    <3>1. Follows /\ n = generation /\ generation > 0
      BY <2>0, <2>1, <2>4, <1>g DEF Follows, RegistryIInv
    <3>2. disc'[generation].at = "discover" /\ \A g \in Generations \ {generation} : disc'[g] = disc[g]
      BY <2>1, <3>1, <1>t DEF RegistryTypes
    <3>3. snap'.list = snap.list /\ (disc[generation].at # "emit" => told = snap.list)
      BY <2>1, <3>1, <1>t DEF RegistryTypes, Follows
    <3>4. disc[generation].at = "off" /\ told = snap.list
      BY <2>0, <2>1, <3>1, <1>t DEF Claims, Follows
    <3>5. \A s \in Refreshers : refresher'[s].at = "mark" => refresher'[s] = refresher[s]
      BY <2>1, <1>t DEF RegistryTypes
    <3> QED
      BY <2>1, <3>1, <3>2, <3>3, <3>4, <3>5 DEF Follows
  <2> QED
    BY <2>2, <2>3, <2>4 DEF RegistryIInv
<1>4. ASSUME NEW r \in Refreshers, Refreshed(r) \/ MissDeadline(r) \/ MarkStale(r) PROVE RegistryIInv'
  <2>1. PICK at \in {"idle", "late"} : refresher' = [refresher EXCEPT ![r].at = at]
    BY <1>4 DEF Refreshed, MissDeadline, MarkStale
  <2>2. /\ refresher[r].at \in {"wait", "late"} /\ UNCHANGED <<mounted, generation, disc, told, raced>>
        /\ snap' \in {snap, [snap EXCEPT !.stale = TRUE]}
    BY <1>4 DEF Refreshed, MissDeadline, MarkStale
  <2>3. \A s \in Refreshers : refresher'[s].at = "mark" => refresher'[s] = refresher[s]
    BY <2>1, <1>t DEF RegistryTypes
  <2>4. \A s \in Refreshers : refresher[s].at = "mark" => refresher'[s] = refresher[s]
    BY <2>1, <2>2, <1>t DEF RegistryTypes
  <2>a. snap' \in [revision : Nat, list : Inventories \cup {NoList}, stale : BOOLEAN,
                    inFlight : BOOLEAN, gen : Generations]
          /\ snap'.list = snap.list /\ snap'.inFlight = snap.inFlight
    BY <2>2, <1>t DEF RegistryTypes
  <2>b. refresher' \in [Refreshers -> [at : {"idle", "mark", "wait", "late"}, gen : Generations]]
    BY <2>1, <1>t DEF RegistryTypes
  <2>5. RegistryTypes' /\ snap'.list = snap.list /\ snap'.inFlight = snap.inFlight
    BY <2>2, <2>a, <2>b, <1>t DEF RegistryTypes
  <2>6. Claims'
    BY <2>2, <2>3, <2>4, <1>t DEF Claims
  <2>7. Follows => Follows'
    BY <2>2, <2>3, <2>4, <2>5 DEF Follows
  <2> QED
    BY <2>2, <2>5, <2>6, <2>7 DEF RegistryIInv
<1>5. ASSUME NEW g \in Generations, Discover(g) PROVE RegistryIInv'
  BY <1>5, <1>t, <1>g DEF RegistryIInv, RegistryTypes, Claims, Follows, Discover, Generations
<1>6. ASSUME NEW g \in Generations, CheckLatest(g) PROVE RegistryIInv'
  BY <1>6, <1>t, <1>g
     DEF RegistryIInv, RegistryTypes, Claims, Follows, CheckLatest, DiscGoes, IsLatest, Generations
<1>7. ASSUME NEW g \in Generations, PublishIfChanged(g) PROVE RegistryIInv'
  <2>1. disc[g].at = "publish" /\ UNCHANGED <<mounted, generation, refresher, told, raced>>
    BY <1>7 DEF PublishIfChanged
  <2>2. PICK n : n = snap.revision + 1 /\ n \in Nat
    BY <1>t DEF RegistryTypes
  <2>3. \E at \in {"settle", "emit"} :
          /\ disc' = [disc EXCEPT ![g].at = at]
          /\ at = "settle" => snap.list = disc[g].list
          /\ snap' \in {[snap EXCEPT !.stale = FALSE, !.gen = g],
                        [snap EXCEPT !.stale = FALSE, !.gen = g, !.list = disc[g].list, !.revision = n]}
          /\ snap'.list = disc[g].list
    BY <1>7, <2>2, <1>t DEF PublishIfChanged, DiscGoes, RegistryTypes
  <2>4. PICK at \in {"settle", "emit"} :
          /\ disc' = [disc EXCEPT ![g].at = at]
          /\ at = "settle" => snap.list = disc[g].list
    BY <2>3
  <2>5. snap' \in {[snap EXCEPT !.stale = FALSE, !.gen = g],
                   [snap EXCEPT !.stale = FALSE, !.gen = g, !.list = disc[g].list, !.revision = n]}
          /\ snap'.list = disc[g].list
    BY <2>3
  <2>6. disc' \in [Generations -> [at : {"off", "discover", "check", "publish", "emit", "settle", "done"},
                                   list : Inventories \cup {NoList}]]
          /\ disc'[g].at = at /\ disc'[g].list = disc[g].list /\ \A h \in Generations \ {g} : disc'[h] = disc[h]
    BY <2>4, <1>t DEF RegistryTypes
  <2>7. RegistryTypes' /\ snap'.inFlight = snap.inFlight
    BY <2>1, <2>2, <2>5, <2>6, <1>t DEF RegistryTypes
  <2>o. \A h \in Generations : (disc'[h].at = "off" <=> disc[h].at = "off") /\ (disc[h].at = "done" => disc'[h].at = "done")
    BY <2>1, <2>6
  <2>p. 0 \in Generations /\ generation \in Generations
          /\ \A r \in Refreshers : refresher[r].gen \in Generations
    BY <1>t, <1>g DEF Generations, RegistryTypes
  <2>8. Claims'
    BY <2>1, <2>o, <2>p, <1>t DEF Claims
  <2>9. ASSUME ~raced' PROVE Follows'
    <3>1. Follows /\ g = generation
      BY <2>1, <2>9 DEF RegistryIInv, Follows
    <3>2. told = snap.list
      BY <2>1, <3>1 DEF Follows
    <3>3. at = "settle" => told = snap'.list
      BY <2>4, <2>5, <3>2
    <3> QED
      BY <2>1, <2>4, <2>5, <2>6, <2>7, <3>1, <3>3 DEF Follows
  <2> QED
    BY <2>7, <2>8, <2>9 DEF RegistryIInv
<1>8. ASSUME NEW g \in Generations, EmitVolumes(g) PROVE RegistryIInv'
  BY <1>8, <1>t, <1>g
     DEF RegistryIInv, RegistryTypes, Claims, Follows, EmitVolumes, DiscGoes, Generations
<1>9. ASSUME NEW g \in Generations, SettleRefresh(g) PROVE RegistryIInv'
  <2>1. RegistryTypes'
    BY <1>9, <1>t, <1>g, ZenonT(40) DEF SettleRefresh, DiscGoes, RegistryTypes, Generations
  <2>2. Claims'
    BY <1>9, <1>t, <1>g DEF SettleRefresh, DiscGoes, RegistryTypes, Claims, Generations
  <2>3. ~raced' => Follows'
    BY <1>9, <1>t, <1>g DEF SettleRefresh, DiscGoes, RegistryIInv, RegistryTypes, Claims, Follows, Generations
  <2> QED
    BY <2>1, <2>2, <2>3 DEF RegistryIInv
<1>10. CASE UNCHANGED registryVars
  BY <1>10, <1>t DEF RegistryIInv, RegistryTypes, Claims, Follows, registryVars
<1> QED
  BY <1>1, <1>2, <1>3, <1>4, <1>5, <1>6, <1>7, <1>8, <1>9, <1>10 DEF RegistryNext

\* A registry at rest shows what the newest discovery found, and so does the
\* frontend: refreshes that time out, overlap or end in another order do no harm
\* unless one began in the short window of an older one.
THEOREM RegistryFresh == RegistrySpec => []RegistryInv
<1>1. RegistryIInv => RegistryInv
  <2> SUFFICES ASSUME RegistryIInv PROVE RegistryInv
    OBVIOUS
  <2>1. RegistryTypeOK
    BY DEF RegistryIInv, RegistryTypes, RegistryTypeOK
  <2>2. RestIsFresh
    BY DEF RegistryIInv, RegistryTypes, Claims, Follows, RestIsFresh, Quiet
  <2> QED
    BY <2>1, <2>2 DEF RegistryInv
<1>2. RegistryIInv /\ [RegistryNext]_registryVars => RegistryIInv'
  BY RegistryStep
<1> QED
  BY <1>1, <1>2, RegistryStart, PTL DEF RegistrySpec

-----------------------------------------------------------------------------
(* The walker.  What a walk knows of its folder is spread over its stack,  *)
(* the hands of its threads and its records.                               *)

Failures == {"no", "error", "cancelled"}
Hands ==
  [what : {"off", "reserved", "start", "next", "asleep", "visit", "claim", "joining"},
   dir : WalkDirs \cup {NoDir}, found : SUBSET WalkDirs, failed : Failures]

Visits(h) == h.what \in {"visit", "claim"}
Visitors(w) == {t \in Crew : Visits(hand[w][t])}

WalkTypes ==
  /\ inUse \in Nat
  /\ stack \in [Walks -> Seq(WalkDirs)] /\ busy \in [Walks -> Nat]
  /\ failure \in [Walks -> Failures] /\ hand \in [Walks -> [Crew -> Hands]]
  /\ recorded \in [Walks -> [WalkDirs -> Nat]] /\ missed \in [Walks -> SUBSET WalkDirs]
  /\ verdict \in [Walks -> {"none", "done", "error", "cancelled"}]
  /\ \A w \in Walks : \A t \in Crew : hand[w][t].what = "visit" => hand[w][t].dir \in WalkDirs

\* Where the directories are that w knows of.
Stacked(w) == {stack[w][k] : k \in DOMAIN stack[w]}
InHand(w) == {hand[w][t].dir : t \in {u \in Crew : hand[w][u].what = "visit"}}
Found(w) == UNION {hand[w][t].found : t \in {u \in Crew : hand[w][u].what = "claim"}}
Reported(w) == {d \in WalkDirs : recorded[w][d] > 0}
Seen(w) == Stacked(w) \cup InHand(w) \cup Found(w) \cup Reported(w)

\* A directory is in one place, and came there from one that is reported.
Apart(w) ==
  /\ Stacked(w) \cap (InHand(w) \cup Found(w) \cup Reported(w)) = {}
  /\ InHand(w) \cap (Found(w) \cup Reported(w)) = {} /\ Found(w) \cap Reported(w) = {}
  /\ \A d \in Seen(w) \ {RootOf[w]} : \E p \in Reported(w) : d \in Inside[p]
Single(w) ==
  /\ \A i, j \in DOMAIN stack[w] : stack[w][i] = stack[w][j] => i = j
  /\ \A t, u \in Crew :
       hand[w][t].what = "visit" /\ hand[w][u].what = "visit" /\ hand[w][t].dir = hand[w][u].dir
         => t = u
  /\ \A t, u \in Crew :
       hand[w][t].what = "claim" /\ hand[w][u].what = "claim" /\ t # u
         => hand[w][t].found \cap hand[w][u].found = {}
  /\ \A d \in WalkDirs : recorded[w][d] <= 1

\* Until it fails, a walk forgets nothing.
Failing(w) ==
  failure[w] # "no" \/ \E t \in Crew : hand[w][t].what = "claim" /\ hand[w][t].failed # "no"
Whole(w) ==
  ~Failing(w) =>
    /\ RootOf[w] \in Seen(w) \cup missed[w]
    /\ \A d \in Reported(w) \ missed[w] : Inside[d] \subseteq Seen(w) \cup missed[w]

\* The threads: who visits is counted, who sleeps has somebody to wake it, and
\* the walk's own thread is the first and the last.
Threads(w) ==
  /\ busy[w] = Cardinality(Visitors(w))
  /\ (\E t \in Crew : hand[w][t].what = "asleep") =>
       stack[w] = <<>> /\ failure[w] = "no" /\ Visitors(w) # {}
  /\ hand[w][Own].what = "joining" /\ failure[w] = "no" => stack[w] = <<>> /\ Visitors(w) = {}
  /\ hand[w][Own].what = "off" => \A t \in Helper : hand[w][t].what = "off"
  /\ verdict[w] # "none" => hand[w][Own].what = "off"
  /\ verdict[w] = "done" => failure[w] = "no" /\ stack[w] = <<>>

Walk(w) == Apart(w) /\ Single(w) /\ Whole(w) /\ Threads(w)
WalkIInv ==
  /\ WalkTypes /\ IsFiniteSet(Held) /\ HelpersExact
  /\ \A w \in Walks : Walk(w)

LEMMA CrewFinite ==
  /\ IsFiniteSet(Crew) /\ Own \in Crew /\ Helper \subseteq Crew /\ Own \notin Helper
  /\ \A w : IsFiniteSet(Visitors(w)) /\ Cardinality(Visitors(w)) \in Nat
            /\ (Cardinality(Visitors(w)) = 0 <=> Visitors(w) = {})
<1>1. IsFiniteSet(Helper)
  BY FS_Interval, WalkAssumption DEF Helper
<1>2. IsFiniteSet(Crew)
  BY <1>1, FS_AddElement, FS_Singleton, FS_Union DEF Crew
<1>3. \A w : Visitors(w) \in SUBSET Crew
  BY DEF Visitors
<1>4. \A w : IsFiniteSet(Visitors(w))
  BY <1>2, <1>3, FS_Subset
<1> QED
  BY <1>2, <1>4, FS_CardinalityType, FS_EmptySet, WalkAssumption DEF Crew, Own, Helper

LEMMA WalkStart == WalkInit => WalkIInv
<1> SUFFICES ASSUME WalkInit PROVE WalkIInv
  OBVIOUS
<1>1. WalkTypes
  BY WalkAssumption DEF WalkInit, WalkTypes, Hands, Doing, Failures
<1>2. Held = {}
  BY DEF WalkInit, Held, Doing, Crew
<1>3. IsFiniteSet(Held) /\ HelpersExact
  BY <1>2, FS_EmptySet, WalkAssumption DEF HelpersExact, WalkInit
<1>4. ASSUME NEW w \in Walks PROVE Walk(w)
  <2>1. /\ stack[w] = <<RootOf[w]>> /\ busy[w] = 0 /\ failure[w] = "no" /\ verdict[w] = "none"
        /\ \A t \in Crew : hand[w][t] = Doing("off")
        /\ \A d \in WalkDirs : recorded[w][d] = 0
    BY DEF WalkInit
  <2>2. \A t \in Crew : hand[w][t].what = "off"
    BY <2>1 DEF Doing
  <2>3. Visitors(w) = {} /\ InHand(w) = {} /\ Found(w) = {} /\ Reported(w) = {} /\ Stacked(w) = {RootOf[w]}
    BY <2>1, <2>2 DEF Visitors, Visits, InHand, Found, Reported, Stacked
  <2>4. Apart(w)
    BY <2>3 DEF Apart, Seen
  <2>5. Single(w)
    BY <2>1, <2>2 DEF Single
  <2>6. Whole(w)
    BY <2>3 DEF Whole, Seen
  <2>7. Threads(w)
    BY <2>1, <2>2, <2>3, CrewFinite DEF Threads
  <2> QED
    BY <2>4, <2>5, <2>6, <2>7 DEF Walk
<1> QED
  BY <1>1, <1>3, <1>4 DEF WalkIInv

\* A walk that a step does not concern.
LEMMA WalkRests ==
  ASSUME NEW w, Walk(w), stack'[w] = stack[w], busy'[w] = busy[w], failure'[w] = failure[w],
         hand'[w] = hand[w], recorded'[w] = recorded[w], missed'[w] = missed[w],
         verdict'[w] = verdict[w]
  PROVE  Walk(w)'
<1>1. /\ Stacked(w)' = Stacked(w) /\ InHand(w)' = InHand(w) /\ Found(w)' = Found(w)
      /\ Reported(w)' = Reported(w) /\ Visitors(w)' = Visitors(w) /\ Failing(w)' = Failing(w)
  BY DEF Stacked, InHand, Found, Reported, Visitors, Failing
<1>2. Apart(w)' /\ Whole(w)'
  BY <1>1 DEF Walk, Apart, Whole, Seen
<1>3. Single(w)'
  BY DEF Walk, Single
<1>4. Threads(w)'
  BY <1>1 DEF Walk, Threads
<1> QED
  BY <1>2, <1>3, <1>4 DEF Walk

\* The threads of a walk that move without a directory leave its folder as it is.
LEMMA DirsRest ==
  ASSUME NEW w, Walk(w), stack'[w] = stack[w], failure'[w] = failure[w],
         recorded'[w] = recorded[w], missed'[w] = missed[w],
         \A t \in Crew : hand'[w][t] = hand[w][t] \/ (~Visits(hand[w][t]) /\ ~Visits(hand'[w][t]))
  PROVE  Apart(w)' /\ Single(w)' /\ Whole(w)' /\ Visitors(w)' = Visitors(w)
<1>0. \A t \in Crew : Visits(hand[w][t]) \/ Visits(hand'[w][t]) => hand'[w][t] = hand[w][t]
  OBVIOUS
<1>1. /\ Stacked(w)' = Stacked(w) /\ InHand(w)' = InHand(w) /\ Found(w)' = Found(w)
      /\ Reported(w)' = Reported(w) /\ Visitors(w)' = Visitors(w) /\ Failing(w)' = Failing(w)
  <2>1. Stacked(w)' = Stacked(w) /\ Reported(w)' = Reported(w)
    BY DEF Stacked, Reported
  <2>2. Visitors(w)' = Visitors(w) /\ Failing(w)' = Failing(w)
    BY <1>0 DEF Visitors, Failing, Visits
  <2>3. \A t \in Crew : hand[w][t].what = "visit" \/ hand'[w][t].what = "visit" => hand'[w][t] = hand[w][t]
    BY <1>0 DEF Visits
  <2>4. InHand(w)' = InHand(w)
    BY <2>3 DEF InHand
  <2>5. \A t \in Crew : hand[w][t].what = "claim" \/ hand'[w][t].what = "claim" => hand'[w][t] = hand[w][t]
    BY <1>0 DEF Visits
  <2>6. {u \in Crew : hand'[w][u].what = "claim"} = {u \in Crew : hand[w][u].what = "claim"}
    BY <2>5
  <2>7. Found(w)' = Found(w)
    BY <2>5, <2>6 DEF Found
  <2> QED
    BY <2>1, <2>2, <2>4, <2>7
<1>2. Apart(w)' /\ Whole(w)'
  BY <1>1 DEF Walk, Apart, Whole, Seen
<1>3. Single(w)'
  BY <1>0 DEF Walk, Single, Visits
<1> QED
  BY <1>1, <1>2, <1>3

\* The budget when no helper comes or goes, and when one goes.
LEMMA HeldRests ==
  ASSUME IsFiniteSet(Held), HelpersExact, inUse' = inUse,
         \A v \in Walks : \A t \in Helper : hand'[v][t].what = "off" <=> hand[v][t].what = "off"
  PROVE  IsFiniteSet(Held)' /\ HelpersExact'
<1>1. Held' = Held
  BY DEF Held
<1> QED
  BY <1>1 DEF HelpersExact

LEMMA HeldGoes ==
  ASSUME WalkTypes, IsFiniteSet(Held), HelpersExact, inUse' = inUse - 1, NEW w \in Walks, NEW u \in Helper,
         hand[w][u].what # "off", hand'[w][u].what = "off",
         \A v \in Walks : \A t \in Helper :
           v # w \/ t # u => (hand'[v][t].what = "off" <=> hand[v][t].what = "off")
  PROVE  IsFiniteSet(Held)' /\ HelpersExact' /\ inUse' \in Nat
<1>1. Held' = Held \ {<<w, u>>} /\ <<w, u>> \in Held
  BY DEF Held
<1>2. IsFiniteSet(Held') /\ Cardinality(Held') = Cardinality(Held) - 1 /\ Cardinality(Held) \in Nat
        /\ Cardinality(Held') \in Nat
  BY <1>1, FS_RemoveElement, FS_CardinalityType
<1> QED
  BY <1>2, WalkAssumption DEF HelpersExact, WalkTypes

\* One thread of one walk moves.
LEMMA HandMoves ==
  ASSUME WalkTypes, NEW w \in Walks, NEW t \in Crew, NEW h \in Hands, hand' = [hand EXCEPT ![w][t] = h],
         h.what = "visit" => h.dir \in WalkDirs
  PROVE  /\ hand'[w][t] = h /\ \A u \in Crew \ {t} : hand'[w][u] = hand[w][u]
         /\ \A v \in Walks \ {w} : hand'[v] = hand[v]
         /\ hand' \in [Walks -> [Crew -> Hands]]
         /\ \A v \in Walks : \A u \in Crew : hand'[v][u].what = "visit" => hand'[v][u].dir \in WalkDirs
BY DEF WalkTypes

\* A thread that moves without a directory.
LEMMA ThreadMoves ==
  ASSUME WalkIInv, NEW w \in Walks, NEW t \in Crew, NEW what, Does(w, t, what),
         what \in {"off", "next", "asleep", "joining"}, ~Visits(hand[w][t]),
         UNCHANGED <<stack, busy, failure, recorded, missed>>,
         verdict' \in [Walks -> {"none", "done", "error", "cancelled"}],
         \A v \in Walks \ {w} : verdict'[v] = verdict[v]
  PROVE  /\ inUse' \in Nat => WalkTypes'
         /\ Apart(w)' /\ Single(w)' /\ Whole(w)' /\ Visitors(w)' = Visitors(w)
         /\ Threads(w)' => \A v \in Walks : Walk(v)'
         /\ hand'[w][t].what = what /\ \A u \in Crew \ {t} : hand'[w][u] = hand[w][u]
         /\ \A v \in Walks \ {w} : hand'[v] = hand[v]
<1>t. WalkTypes /\ Walk(w)
  BY DEF WalkIInv
<1>1. Doing(what) \in Hands /\ Doing(what).what = what /\ what # "visit" /\ ~Visits(Doing(what))
  BY DEF Doing, Hands, Failures, Visits
<1>2. /\ hand'[w][t] = Doing(what) /\ \A u \in Crew \ {t} : hand'[w][u] = hand[w][u]
      /\ \A v \in Walks \ {w} : hand'[v] = hand[v]
      /\ hand' \in [Walks -> [Crew -> Hands]]
      /\ \A v \in Walks : \A u \in Crew : hand'[v][u].what = "visit" => hand'[v][u].dir \in WalkDirs
  <2>1. hand' = [hand EXCEPT ![w][t] = Doing(what)]
    BY DEF Does
  <2>2. PICK h : h = Doing(what)
    OBVIOUS
  <2>3. h \in Hands /\ h.what # "visit" /\ hand' = [hand EXCEPT ![w][t] = h]
    BY <1>1, <2>1, <2>2
  <2>4. /\ hand'[w][t] = h /\ \A u \in Crew \ {t} : hand'[w][u] = hand[w][u]
        /\ \A v \in Walks \ {w} : hand'[v] = hand[v]
        /\ hand' \in [Walks -> [Crew -> Hands]]
        /\ \A v \in Walks : \A u \in Crew : hand'[v][u].what = "visit" => hand'[v][u].dir \in WalkDirs
    BY <1>t, <2>3, HandMoves
  <2> QED
    BY <2>2, <2>4
<1>3. inUse' \in Nat => WalkTypes'
  BY <1>2, <1>t DEF WalkTypes
<1>4. Apart(w)' /\ Single(w)' /\ Whole(w)' /\ Visitors(w)' = Visitors(w)
  BY <1>1, <1>2, <1>t, DirsRest
<1>5. \A v \in Walks \ {w} : Walk(v)'
  BY <1>2, WalkRests DEF WalkIInv
<1>6. Threads(w)' => \A v \in Walks : Walk(v)'
  BY <1>4, <1>5 DEF Walk
<1>7. hand'[w][t].what = what
  BY <1>1, <1>2
<1> QED
  BY <1>2, <1>3, <1>4, <1>6, <1>7

LEMMA KeepsStart ==
  ASSUME WalkIInv, NEW w \in Walks, StartWalk(w) PROVE WalkIInv'
<1>t. WalkTypes /\ Walk(w) /\ Threads(w) /\ IsFiniteSet(Held) /\ HelpersExact /\ \A v \in Walks : Walk(v)
  BY DEF WalkIInv, Walk
<1>1. /\ hand[w][Own].what = "off" /\ verdict[w] = "none"
      /\ UNCHANGED <<stack, busy, failure, stopped, recorded, missed, verdict>>
      /\ inUse' = inUse + Granted
  BY DEF StartWalk
<1>2. \A t \in Crew : hand[w][t].what = "off"
  BY <1>1, <1>t DEF Threads, Crew
<1>3. Granted \in Nat /\ Granted <= JobHelpers /\ inUse + Granted <= HelperCap
  BY <1>t, WalkAssumption DEF Granted, HelpersExact, WalkTypes
<1>4. PICK h : h = [t \in Crew |-> IF t = Own THEN Doing("start")
                                    ELSE IF t <= Granted THEN Doing("reserved") ELSE Doing("off")]
  OBVIOUS
<1>5. hand' = [hand EXCEPT ![w] = h]
  BY <1>4 DEF StartWalk
<1>6. /\ h \in [Crew -> Hands] /\ h[Own].what = "start"
      /\ \A t \in Helper : h[t].what = IF t <= Granted THEN "reserved" ELSE "off"
      /\ \A t \in Crew : h[t].what \in {"start", "reserved", "off"}
  <2>1. /\ Doing("start") \in Hands /\ Doing("reserved") \in Hands /\ Doing("off") \in Hands
        /\ Doing("start").what = "start" /\ Doing("reserved").what = "reserved" /\ Doing("off").what = "off"
    BY DEF Doing, Hands, Failures
  <2>2. \A t \in Crew : h[t] = IF t = Own THEN Doing("start")
                               ELSE IF t <= Granted THEN Doing("reserved") ELSE Doing("off")
    BY <1>4
  <2> QED
    BY <1>4, <2>1, <2>2, CrewFinite
<1>7. hand'[w] = h /\ (\A v \in Walks \ {w} : hand'[v] = hand[v]) /\ hand' \in [Walks -> [Crew -> Hands]]
  BY <1>5, <1>6, <1>t DEF WalkTypes
<1>8. WalkTypes'
  <2>1. \A v \in Walks : \A t \in Crew : hand'[v][t].what = "visit" => hand'[v][t].dir \in WalkDirs
    BY <1>6, <1>7, <1>t DEF WalkTypes
  <2>2. inUse' \in Nat
    BY <1>1, <1>3, <1>t DEF WalkTypes
  <2> QED
    BY <1>1, <1>7, <2>1, <2>2, <1>t DEF WalkTypes
<1>9. IsFiniteSet(Held)' /\ HelpersExact'
  <2> DEFINE new == {<<w, t>> : t \in 1..Granted}
             f == [t \in 1..Granted |-> <<w, t>>]
  <2>1. Held' = Held \cup new /\ Held \cap new = {}
    <3>1. \A t \in Helper : hand'[w][t].what # "off" <=> t \in 1..Granted
      BY <1>6, <1>7, <1>3 DEF Helper
    <3>2. 1..Granted \subseteq Helper
      BY <1>3, WalkAssumption DEF Helper
    <3>3. \A t \in Helper : hand[w][t].what = "off"
      BY <1>2, CrewFinite
    <3> QED
      BY <3>1, <3>2, <3>3, <1>7 DEF Held
  <2>2. f \in Bijection(1..Granted, new)
    <3>1. f \in [1..Granted -> new] /\ \A i \in 1..Granted : f[i] = <<w, i>>
      OBVIOUS
    <3> HIDE DEF f, new
    <3>2. f \in Injection(1..Granted, new)
      <4>1. \A i, j \in 1..Granted : f[i] = f[j] => i = j
        BY <3>1
      <4> QED
        BY <3>1, <4>1 DEF Injection, IsInjective
    <3>3. f \in Surjection(1..Granted, new)
      <4>1. \A x \in new : \E i \in 1..Granted : x = <<w, i>>
        BY DEF new
      <4> QED
        BY <3>1, <4>1 DEF Surjection
    <3> QED
      BY <3>2, <3>3 DEF Bijection
  <2>3. IsFiniteSet(1..Granted) /\ Cardinality(1..Granted) = Granted
    BY <1>3, FS_Interval
  <2>4. ExistsBijection(1..Granted, new)
    BY <2>2 DEF ExistsBijection
  <2>5. IsFiniteSet(new) /\ Cardinality(new) = Granted
    BY <2>3, <2>4, FS_Bijection
  <2> HIDE DEF new
  <2>6. IsFiniteSet(Held \cup new) /\ Cardinality(Held \cup new) = Cardinality(Held) + Granted
    <3>1. Cardinality(Held \cap new) = 0
      BY <2>1, FS_EmptySet
    <3>2. Cardinality(Held) \in Nat
      BY <1>t, FS_CardinalityType
    <3>3. /\ IsFiniteSet(Held \cup new)
          /\ Cardinality(Held \cup new) = Cardinality(Held) + Cardinality(new) - Cardinality(Held \cap new)
      BY <2>5, <1>t, FS_Union
    <3> QED
      BY <3>1, <3>2, <3>3, <2>5, <1>3
  <2> QED
    BY <2>1, <2>6, <1>t, <1>1, <1>3 DEF HelpersExact
<1>10. Walk(w)'
  <2>1. \A t \in Crew : ~Visits(hand[w][t]) /\ ~Visits(hand'[w][t])
    BY <1>2, <1>6, <1>7 DEF Visits
  <2>2. Apart(w)' /\ Single(w)' /\ Whole(w)' /\ Visitors(w)' = Visitors(w)
    BY <1>1, <1>t, <2>1, DirsRest
  <2>3. Threads(w)'
    BY <1>1, <1>6, <1>7, <2>2, <1>t, CrewFinite DEF Threads
  <2> QED
    BY <2>2, <2>3 DEF Walk
<1>11. \A v \in Walks \ {w} : Walk(v)'
  BY <1>1, <1>7, <1>t, WalkRests
<1> QED
  BY <1>8, <1>9, <1>10, <1>11 DEF WalkIInv

LEMMA KeepsOwnStarts ==
  ASSUME WalkIInv, NEW w \in Walks, OwnStarts(w) PROVE WalkIInv'
<1>t. WalkTypes /\ Walk(w) /\ Threads(w) /\ IsFiniteSet(Held) /\ HelpersExact
  BY DEF WalkIInv, Walk
<1>1. /\ Does(w, Own, "next") /\ hand[w][Own].what = "start" /\ ~Visits(hand[w][Own])
      /\ UNCHANGED <<inUse, stack, busy, failure, recorded, missed, verdict>>
      /\ verdict' \in [Walks -> {"none", "done", "error", "cancelled"}] /\ inUse' \in Nat
  BY <1>t DEF OwnStarts, Visits, WalkTypes
<1>2. /\ WalkTypes' /\ Visitors(w)' = Visitors(w) /\ hand'[w][Own].what = "next"
      /\ \A u \in Crew \ {Own} : hand'[w][u] = hand[w][u]
      /\ \A v \in Walks \ {w} : hand'[v] = hand[v]
  BY <1>1, CrewFinite, ThreadMoves
<1>3. Threads(w)' => \A v \in Walks : Walk(v)'
  BY <1>1, CrewFinite, ThreadMoves
<1>4. Threads(w)'
  BY <1>1, <1>2, <1>t, CrewFinite DEF Threads
<1>5. \A v \in Walks : \A t \in Helper : hand'[v][t].what = "off" <=> hand[v][t].what = "off"
  BY <1>2, CrewFinite
<1>6. IsFiniteSet(Held)' /\ HelpersExact'
  BY <1>1, <1>5, <1>t, HeldRests
<1> QED
  BY <1>2, <1>3, <1>4, <1>6 DEF WalkIInv

LEMMA KeepsEndWalk ==
  ASSUME WalkIInv, NEW w \in Walks, EndWalk(w) PROVE WalkIInv'
<1>t. WalkTypes /\ Walk(w) /\ Threads(w) /\ IsFiniteSet(Held) /\ HelpersExact
  BY DEF WalkIInv, Walk
<1>0. failure[w] \in Failures /\ verdict \in [Walks -> {"none", "done", "error", "cancelled"}] /\ inUse \in Nat
  BY <1>t DEF WalkTypes
<1>1. /\ Does(w, Own, "off") /\ hand[w][Own].what = "joining" /\ ~Visits(hand[w][Own])
      /\ \A t \in Helper : hand[w][t].what = "off"
      /\ UNCHANGED <<inUse, stack, busy, failure, recorded, missed>> /\ inUse' \in Nat
  BY <1>0 DEF EndWalk, Visits
<1>2. /\ verdict' \in [Walks -> {"none", "done", "error", "cancelled"}]
      /\ \A v \in Walks \ {w} : verdict'[v] = verdict[v]
      /\ verdict'[w] = "done" => failure[w] = "no"
  BY <1>0 DEF EndWalk, Failures
<1>3. /\ WalkTypes' /\ Visitors(w)' = Visitors(w) /\ hand'[w][Own].what = "off"
      /\ \A u \in Crew \ {Own} : hand'[w][u] = hand[w][u]
      /\ \A v \in Walks \ {w} : hand'[v] = hand[v]
  BY <1>1, <1>2, CrewFinite, ThreadMoves
<1>4. Threads(w)' => \A v \in Walks : Walk(v)'
  BY <1>1, <1>2, CrewFinite, ThreadMoves
<1>5. Threads(w)'
  BY <1>1, <1>2, <1>3, <1>t, CrewFinite DEF Threads
<1>6. \A v \in Walks : \A t \in Helper : hand'[v][t].what = "off" <=> hand[v][t].what = "off"
  BY <1>3, CrewFinite
<1>7. IsFiniteSet(Held)' /\ HelpersExact'
  BY <1>1, <1>6, <1>t, HeldRests
<1> QED
  BY <1>3, <1>4, <1>5, <1>7 DEF WalkIInv

LEMMA KeepsSpawnHelper ==
  ASSUME WalkIInv, NEW w \in Walks, NEW t \in Helper, SpawnHelper(w, t) PROVE WalkIInv'
<1>t. WalkTypes /\ Walk(w) /\ Threads(w) /\ IsFiniteSet(Held) /\ HelpersExact
  BY DEF WalkIInv, Walk
<1>0. verdict \in [Walks -> {"none", "done", "error", "cancelled"}] /\ inUse \in Nat /\ t \in Crew /\ t # Own
  BY <1>t, CrewFinite DEF WalkTypes
<1>1. /\ hand[w][t].what = "reserved" /\ ~Visits(hand[w][t])
      /\ UNCHANGED <<stack, busy, failure, recorded, missed, verdict>>
  BY DEF SpawnHelper, Visits
<1>2. PICK what \in {"next", "off"} : Does(w, t, what) /\ inUse' = IF what = "off" THEN inUse - 1 ELSE inUse
  BY DEF SpawnHelper
<1>3. /\ inUse' \in Nat => WalkTypes'
      /\ Visitors(w)' = Visitors(w) /\ hand'[w][t].what = what
      /\ \A u \in Crew \ {t} : hand'[w][u] = hand[w][u]
      /\ \A v \in Walks \ {w} : hand'[v] = hand[v]
  BY <1>0, <1>1, <1>2, ThreadMoves
<1>4. Threads(w)' => \A v \in Walks : Walk(v)'
  BY <1>0, <1>1, <1>2, ThreadMoves
<1>5. Threads(w)'
  BY <1>0, <1>1, <1>2, <1>3, <1>t, CrewFinite DEF Threads
<1>6. IsFiniteSet(Held)' /\ HelpersExact' /\ inUse' \in Nat
  <2>1. CASE what = "next"
    <3>1. \A v \in Walks : \A u \in Helper : hand'[v][u].what = "off" <=> hand[v][u].what = "off"
      BY <2>1, <1>1, <1>3, CrewFinite
    <3>2. inUse' = inUse
      BY <2>1, <1>2
    <3>3. IsFiniteSet(Held)' /\ HelpersExact'
      BY <3>1, <3>2, <1>t, HeldRests
    <3> QED
      BY <3>2, <3>3, <1>0
  <2>2. CASE what = "off"
    <3>1. \A v \in Walks : \A u \in Helper :
            v # w \/ u # t => (hand'[v][u].what = "off" <=> hand[v][u].what = "off")
      BY <1>3, CrewFinite
    <3>2. inUse' = inUse - 1 /\ hand[w][t].what # "off" /\ hand'[w][t].what = "off"
      BY <2>2, <1>1, <1>2, <1>3
    <3> QED
      BY <3>1, <3>2, <1>t, HeldGoes
  <2> QED
    BY <2>1, <2>2
<1> QED
  BY <1>3, <1>4, <1>5, <1>6 DEF WalkIInv

LEMMA KeepsSleep ==
  ASSUME WalkIInv, NEW w \in Walks, NEW t \in Crew, Sleep(w, t) PROVE WalkIInv'
<1>t. WalkTypes /\ Walk(w) /\ Threads(w) /\ IsFiniteSet(Held) /\ HelpersExact
  BY DEF WalkIInv, Walk
<1>1. /\ hand[w][t].what = "next" /\ ~Visits(hand[w][t]) /\ Does(w, t, "asleep")
      /\ failure[w] = "no" /\ stack[w] = <<>> /\ busy[w] > 0
      /\ UNCHANGED <<inUse, stack, busy, failure, recorded, missed, verdict>>
      /\ verdict' \in [Walks -> {"none", "done", "error", "cancelled"}] /\ inUse' \in Nat
  BY <1>t DEF Sleep, Visits, WalkTypes
<1>2. /\ WalkTypes' /\ Visitors(w)' = Visitors(w) /\ hand'[w][t].what = "asleep"
      /\ \A u \in Crew \ {t} : hand'[w][u] = hand[w][u]
      /\ \A v \in Walks \ {w} : hand'[v] = hand[v]
  BY <1>1, ThreadMoves
<1>3. Threads(w)' => \A v \in Walks : Walk(v)'
  BY <1>1, ThreadMoves
<1>4. Visitors(w) # {}
  BY <1>1, <1>t, CrewFinite DEF Threads
<1>5. Threads(w)'
  BY <1>1, <1>2, <1>4, <1>t, CrewFinite DEF Threads
<1>6. \A v \in Walks : \A u \in Helper : hand'[v][u].what = "off" <=> hand[v][u].what = "off"
  BY <1>1, <1>2, CrewFinite
<1>7. IsFiniteSet(Held)' /\ HelpersExact'
  BY <1>1, <1>6, <1>t, HeldRests
<1> QED
  BY <1>2, <1>3, <1>5, <1>7 DEF WalkIInv

LEMMA KeepsRetire ==
  ASSUME WalkIInv, NEW w \in Walks, NEW t \in Crew, Retire(w, t) PROVE WalkIInv'
<1>t. WalkTypes /\ Walk(w) /\ Threads(w) /\ IsFiniteSet(Held) /\ HelpersExact
  BY DEF WalkIInv, Walk
<1>0. PICK what \in {"joining", "off"} :
        Does(w, t, what) /\ (what = "joining" <=> t = Own) /\ inUse' = IF t = Own THEN inUse ELSE inUse - 1
  BY DEF Retire
<1>1. /\ hand[w][t].what = "next" /\ ~Visits(hand[w][t])
      /\ failure[w] # "no" \/ (stack[w] = <<>> /\ busy[w] = 0)
      /\ UNCHANGED <<stack, busy, failure, recorded, missed, verdict>>
      /\ verdict' \in [Walks -> {"none", "done", "error", "cancelled"}] /\ inUse \in Nat
  BY <1>t DEF Retire, Visits, WalkTypes
<1>2. /\ inUse' \in Nat => WalkTypes'
      /\ Visitors(w)' = Visitors(w) /\ hand'[w][t].what = what
      /\ \A u \in Crew \ {t} : hand'[w][u] = hand[w][u]
      /\ \A v \in Walks \ {w} : hand'[v] = hand[v]
  BY <1>0, <1>1, ThreadMoves
<1>3. Threads(w)' => \A v \in Walks : Walk(v)'
  BY <1>0, <1>1, ThreadMoves
<1>4. failure[w] # "no" \/ (stack[w] = <<>> /\ Visitors(w) = {})
  BY <1>1, <1>t, CrewFinite DEF Threads
<1>5. Threads(w)'
  BY <1>0, <1>1, <1>2, <1>4, <1>t, CrewFinite DEF Threads
<1>6. IsFiniteSet(Held)' /\ HelpersExact' /\ inUse' \in Nat
  <2>1. CASE t = Own
    <3>1. \A v \in Walks : \A u \in Helper : hand'[v][u].what = "off" <=> hand[v][u].what = "off"
      BY <2>1, <1>2, CrewFinite
    <3>2. inUse' = inUse
      BY <2>1, <1>0
    <3>3. IsFiniteSet(Held)' /\ HelpersExact'
      BY <3>1, <3>2, <1>t, HeldRests
    <3> QED
      BY <3>2, <3>3, <1>1
  <2>2. CASE t # Own
    <3>1. \A v \in Walks : \A u \in Helper :
            v # w \/ u # t => (hand'[v][u].what = "off" <=> hand[v][u].what = "off")
      BY <1>2, CrewFinite
    <3>2. /\ inUse' = inUse - 1 /\ hand[w][t].what # "off" /\ hand'[w][t].what = "off"
          /\ t \in Helper
      BY <2>2, <1>0, <1>1, <1>2 DEF Crew
    <3> QED
      BY <3>1, <3>2, <1>t, HeldGoes
  <2> QED
    BY <2>1, <2>2
<1> QED
  BY <1>2, <1>3, <1>5, <1>6 DEF WalkIInv

LEMMA KeepsCancelWalk ==
  ASSUME WalkIInv, NEW w \in Walks, CancelWalk(w) PROVE WalkIInv'
<1>1. UNCHANGED <<inUse, stack, busy, failure, hand, recorded, missed, verdict>>
  BY DEF CancelWalk
<1>2. WalkTypes'
  BY <1>1 DEF WalkIInv, WalkTypes
<1>3. IsFiniteSet(Held)' /\ HelpersExact'
  BY <1>1, HeldRests DEF WalkIInv
<1>4. \A v \in Walks : Walk(v)'
  BY <1>1, WalkRests DEF WalkIInv
<1> QED
  BY <1>2, <1>3, <1>4 DEF WalkIInv

LEMMA PopFacts ==
  ASSUME NEW S, NEW s \in Seq(S), s # <<>>
  PROVE  /\ Len(s) \in Nat /\ Len(s) >= 1 /\ s[Len(s)] \in S
         /\ Pop(s) \in Seq(S) /\ Len(Pop(s)) = Len(s) - 1
         /\ \A k \in 1..(Len(s) - 1) : Pop(s)[k] = s[k]
<1>1. Len(s) \in Nat /\ Len(s) >= 1 /\ DOMAIN s = 1..Len(s)
  BY EmptySeq, LenProperties
<1>2. \A k \in 1..Len(s) : s[k] \in S
  BY <1>1, ElementOfSeq
<1>3. s[Len(s)] \in S
  BY <1>1, <1>2
<1>4. Pop(s) \in Seq(S) /\ Len(Pop(s)) = Len(s) - 1
  BY <1>1, <1>2, SubSeqProperties DEF Pop
<1>5. \A k \in 1..(Len(s) - 1) : Pop(s)[k] = s[k]
  BY <1>1, <1>2, SubSeqProperties DEF Pop
<1> QED
  BY <1>1, <1>3, <1>4, <1>5

LEMMA KeepsClaimNext ==
  ASSUME WalkIInv, NEW w \in Walks, NEW t \in Crew, ClaimNext(w, t) PROVE WalkIInv'
<1>t. WalkTypes /\ Walk(w) /\ Threads(w) /\ Apart(w) /\ Single(w) /\ Whole(w) /\ IsFiniteSet(Held) /\ HelpersExact
  BY DEF WalkIInv, Walk
<1>0. /\ stack \in [Walks -> Seq(WalkDirs)] /\ busy \in [Walks -> Nat]
      /\ stack[w] \in Seq(WalkDirs) /\ busy[w] \in Nat
  BY <1>t DEF WalkTypes
<1>1. /\ hand[w][t].what = "next" /\ failure[w] = "no" /\ stack[w] # <<>>
      /\ stack' = [stack EXCEPT ![w] = Pop(@)] /\ busy' = [busy EXCEPT ![w] = @ + 1]
      /\ UNCHANGED <<inUse, failure, stopped, recorded, missed, verdict>>
  BY DEF ClaimNext
<1>2. PICK d : d = stack[w][Len(stack[w])]
  OBVIOUS
<1>3. PICK h : h = [Doing("visit") EXCEPT !.dir = d]
  OBVIOUS
<1>4. /\ d \in WalkDirs /\ Len(stack[w]) \in Nat /\ Len(stack[w]) >= 1
      /\ Pop(stack[w]) \in Seq(WalkDirs) /\ Len(Pop(stack[w])) = Len(stack[w]) - 1
      /\ \A k \in 1..(Len(stack[w]) - 1) : Pop(stack[w])[k] = stack[w][k]
  BY <1>0, <1>1, <1>2, PopFacts
<1>5. h \in Hands /\ h.what = "visit" /\ h.dir = d
  BY <1>3, <1>4 DEF Doing, Hands, Failures
<1>6. hand' = [hand EXCEPT ![w][t] = h]
  BY <1>2, <1>3 DEF ClaimNext
<1>7. /\ hand'[w][t] = h /\ \A u \in Crew \ {t} : hand'[w][u] = hand[w][u]
      /\ \A v \in Walks \ {w} : hand'[v] = hand[v]
      /\ hand' \in [Walks -> [Crew -> Hands]]
      /\ \A v \in Walks : \A u \in Crew : hand'[v][u].what = "visit" => hand'[v][u].dir \in WalkDirs
  BY <1>t, <1>4, <1>5, <1>6, HandMoves
<1>8. /\ stack'[w] = Pop(stack[w]) /\ busy'[w] = busy[w] + 1
      /\ stack' \in [Walks -> Seq(WalkDirs)] /\ busy' \in [Walks -> Nat]
      /\ \A v \in Walks \ {w} : stack'[v] = stack[v] /\ busy'[v] = busy[v]
  BY <1>0, <1>1, <1>4
<1>9. WalkTypes'
  BY <1>1, <1>7, <1>8, <1>t DEF WalkTypes
<1>10. Stacked(w)' = Stacked(w) \ {d} /\ d \in Stacked(w)
  <2>1. DOMAIN stack[w] = 1..Len(stack[w]) /\ DOMAIN stack'[w] = 1..(Len(stack[w]) - 1)
    BY <1>0, <1>4, <1>8
  <2>2. \A i, j \in DOMAIN stack[w] : stack[w][i] = stack[w][j] => i = j
    BY <1>t DEF Single
  <2>3. \A k \in 1..(Len(stack[w]) - 1) : stack'[w][k] = stack[w][k]
    BY <1>4, <1>8
  <2>4. d \in Stacked(w)
    BY <2>1, <1>2, <1>4 DEF Stacked
  <2>5. \A x \in Stacked(w)' : x \in Stacked(w) /\ x # d
    BY <2>1, <2>2, <2>3, <1>2, <1>4 DEF Stacked
  <2>6. \A x \in Stacked(w) : x # d => x \in Stacked(w)'
    <3>1. \A k \in DOMAIN stack[w] : stack[w][k] # d => k \in 1..(Len(stack[w]) - 1)
      BY <2>1, <1>2, <1>4
    <3> QED
      BY <2>1, <2>3, <3>1 DEF Stacked
  <2> QED
    BY <2>4, <2>5, <2>6
<1>11. /\ InHand(w)' = InHand(w) \cup {d} /\ Found(w)' = Found(w) /\ Reported(w)' = Reported(w)
       /\ Visitors(w)' = Visitors(w) \cup {t} /\ t \notin Visitors(w) /\ Failing(w)' = Failing(w)
  <2>1. {u \in Crew : hand'[w][u].what = "visit"} = {u \in Crew : hand[w][u].what = "visit"} \cup {t}
    BY <1>1, <1>5, <1>7
  <2>2. {u \in Crew : hand'[w][u].what = "claim"} = {u \in Crew : hand[w][u].what = "claim"}
    BY <1>1, <1>5, <1>7
  <2>3. InHand(w)' = InHand(w) \cup {d}
    BY <2>1, <1>1, <1>5, <1>7 DEF InHand
  <2>4. \A u \in {x \in Crew : hand[w][x].what = "claim"} : hand'[w][u] = hand[w][u]
    BY <1>1, <1>7
  <2>5. Found(w)' = Found(w)
    BY <2>2, <2>4 DEF Found
  <2>6. Failing(w)' = Failing(w)
    BY <1>1, <1>5, <1>7 DEF Failing
  <2>7. Visitors(w)' = Visitors(w) \cup {t} /\ t \notin Visitors(w)
    BY <1>1, <1>5, <1>7 DEF Visitors, Visits
  <2>8. Reported(w)' = Reported(w)
    BY <1>1 DEF Reported
  <2> QED
    BY <2>3, <2>5, <2>6, <2>7, <2>8
<1>12. Seen(w)' = Seen(w)
  BY <1>10, <1>11 DEF Seen
<1>13. Apart(w)'
  BY <1>10, <1>11, <1>12, <1>t DEF Apart
<1>14. Single(w)'
  <2>1. \A i, j \in DOMAIN stack'[w] : stack'[w][i] = stack'[w][j] => i = j
    <3>1. DOMAIN stack[w] = 1..Len(stack[w]) /\ DOMAIN stack'[w] = 1..(Len(stack[w]) - 1)
      BY <1>0, <1>4, <1>8
    <3>2. \A k \in 1..(Len(stack[w]) - 1) : stack'[w][k] = stack[w][k]
      BY <1>4, <1>8
    <3>3. \A i, j \in DOMAIN stack[w] : stack[w][i] = stack[w][j] => i = j
      BY <1>t DEF Single
    <3> QED
      BY <3>1, <3>2, <3>3, <1>4
  <2>2. \A u \in Crew : hand[w][u].what = "visit" => hand[w][u].dir # d
    BY <1>10, <1>t DEF Apart, InHand
  <2>3. \A u, v \in Crew :
          hand'[w][u].what = "visit" /\ hand'[w][v].what = "visit" /\ hand'[w][u].dir = hand'[w][v].dir => u = v
    BY <2>2, <1>5, <1>7, <1>t DEF Single
  <2>4. \A u, v \in Crew :
          hand'[w][u].what = "claim" /\ hand'[w][v].what = "claim" /\ u # v
            => hand'[w][u].found \cap hand'[w][v].found = {}
    BY <1>5, <1>7, <1>t DEF Single
  <2> QED
    BY <2>1, <2>3, <2>4, <1>1, <1>t DEF Single
<1>15. Whole(w)'
  BY <1>1, <1>11, <1>12, <1>t DEF Whole
<1>16. Threads(w)'
  <2>1. Cardinality(Visitors(w) \cup {t}) = Cardinality(Visitors(w)) + 1
    BY <1>11, CrewFinite, FS_AddElement
  <2>2. \A u \in Crew : hand[w][u].what # "asleep"
    BY <1>1, <1>t DEF Threads
  <2>3. hand[w][Own].what # "off" /\ hand[w][Own].what # "joining" /\ verdict[w] = "none"
    BY <1>1, <1>t, CrewFinite DEF Threads, Crew
  <2>4. \A u \in Crew : hand'[w][u].what # "asleep"
    BY <2>2, <1>5, <1>7
  <2>5. hand'[w][Own].what # "off" /\ hand'[w][Own].what # "joining" /\ verdict'[w] = "none"
    BY <2>3, <1>1, <1>5, <1>7, CrewFinite
  <2> QED
    BY <2>1, <2>4, <2>5, <1>8, <1>11, <1>t DEF Threads
<1>17. \A v \in Walks \ {w} : Walk(v)'
  BY <1>1, <1>7, <1>8, WalkRests DEF WalkIInv
<1>18. \A v \in Walks : \A u \in Helper : hand'[v][u].what = "off" <=> hand[v][u].what = "off"
  BY <1>1, <1>5, <1>7, CrewFinite
<1>19. IsFiniteSet(Held)' /\ HelpersExact'
  BY <1>1, <1>18, <1>t, HeldRests
<1> QED
  BY <1>9, <1>13, <1>14, <1>15, <1>16, <1>17, <1>19 DEF WalkIInv, Walk

\* What is inside the directory that a thread visits is new to the walk: it has
\* one parent, and the folder of the walk is below nothing the walk has seen.
LEMMA InsideIsNew ==
  ASSUME WalkTypes, NEW w \in Walks, Apart(w), NEW d \in InHand(w), d \in WalkDirs
  PROVE  Inside[d] \cap Seen(w) = {}
<1>1. d \notin Reported(w) /\ d \in Seen(w) /\ Reported(w) \in SUBSET WalkDirs
  BY DEF Apart, Seen, Reported
<1>2. \A x \in Seen(w) : x # RootOf[w] => x \notin Inside[d]
  <2>1. \A x \in Seen(w) : x # RootOf[w] => \E p \in Reported(w) : x \in Inside[p]
    BY DEF Apart
  <2> QED
    BY <2>1, <1>1, WalkTreeAssumption
<1>3. RootOf[w] \notin Inside[d]
  <2>1. PICK dirs : dirs = Reported(w) \cup {d}
    OBVIOUS
  <2>2. dirs \in SUBSET WalkDirs /\ d \in dirs
    BY <1>1, <2>1
  <2>3. PICK x \in dirs : \A e \in dirs : x \notin Inside[e]
    BY <2>2, WalkTreeAssumption
  <2>4. x \in Seen(w)
    BY <2>1, <1>1 DEF Seen
  <2>5. x # RootOf[w] => \E p \in Reported(w) : x \in Inside[p]
    BY <2>4 DEF Apart
  <2>6. x = RootOf[w]
    BY <2>1, <2>3, <2>5
  <2> QED
    BY <2>2, <2>3, <2>6
<1> QED
  BY <1>2, <1>3

\* A thread that has visited its directory.
LEMMA Turns ==
  ASSUME WalkIInv, NEW w \in Walks, NEW t \in Crew, hand[w][t].what = "visit",
         NEW F \in SUBSET WalkDirs, NEW e \in Failures, Claim(w, t, F, e),
         UNCHANGED <<inUse, stack, busy, failure, verdict>>
  PROVE  /\ hand' \in [Walks -> [Crew -> Hands]]
         /\ \A v \in Walks : \A u \in Crew : hand'[v][u].what = "visit" => hand'[v][u].dir \in WalkDirs
         /\ \A v \in Walks \ {w} : hand'[v] = hand[v]
         /\ hand'[w][t].what = "claim" /\ hand'[w][t].found = F /\ hand'[w][t].failed = e
         /\ \A u \in Crew \ {t} : hand'[w][u] = hand[w][u]
         /\ InHand(w)' = InHand(w) \ {hand[w][t].dir} /\ hand[w][t].dir \in InHand(w)
         /\ Found(w)' = Found(w) \cup F /\ Stacked(w)' = Stacked(w)
         /\ Threads(w)' /\ IsFiniteSet(Held)' /\ HelpersExact'
         /\ ~Failing(w)' => ~Failing(w) /\ e = "no"
<1>t. WalkTypes /\ Threads(w) /\ Single(w) /\ IsFiniteSet(Held) /\ HelpersExact
  BY DEF WalkIInv, Walk
<1>1. PICK h : h = [hand[w][t] EXCEPT !.what = "claim", !.found = F, !.failed = e]
  OBVIOUS
<1>2. hand[w][t] \in Hands
  BY <1>t DEF WalkTypes
<1>3. h \in Hands /\ h.what = "claim" /\ h.found = F /\ h.failed = e
  BY <1>1, <1>2 DEF Hands
<1>4. hand' = [hand EXCEPT ![w][t] = h]
  BY <1>1, <1>t DEF Claim, WalkTypes
<1>5. /\ hand'[w][t] = h /\ \A u \in Crew \ {t} : hand'[w][u] = hand[w][u]
      /\ \A v \in Walks \ {w} : hand'[v] = hand[v]
      /\ hand' \in [Walks -> [Crew -> Hands]]
      /\ \A v \in Walks : \A u \in Crew : hand'[v][u].what = "visit" => hand'[v][u].dir \in WalkDirs
  BY <1>t, <1>3, <1>4, HandMoves
<1>6. InHand(w)' = InHand(w) \ {hand[w][t].dir} /\ hand[w][t].dir \in InHand(w)
  <2>1. {u \in Crew : hand'[w][u].what = "visit"} = {u \in Crew : hand[w][u].what = "visit"} \ {t}
    BY <1>3, <1>5
  <2>2. \A u \in {x \in Crew : hand[w][x].what = "visit"} \ {t} :
          hand'[w][u] = hand[w][u] /\ hand[w][u].dir # hand[w][t].dir
    BY <1>5, <1>t DEF Single
  <2> QED
    BY <2>1, <2>2 DEF InHand
<1>7. Found(w)' = Found(w) \cup F
  <2>1. {u \in Crew : hand'[w][u].what = "claim"} = {u \in Crew : hand[w][u].what = "claim"} \cup {t}
    BY <1>3, <1>5
  <2>2. \A u \in {x \in Crew : hand[w][x].what = "claim"} : hand'[w][u] = hand[w][u]
    BY <1>5
  <2> QED
    BY <2>1, <2>2, <1>3, <1>5 DEF Found
<1>8. Stacked(w)' = Stacked(w)
  BY DEF Stacked
<1>9. Visitors(w)' = Visitors(w) /\ t \in Visitors(w)
  BY <1>3, <1>5 DEF Visitors, Visits
<1>10. Threads(w)'
  <2>1. \A u \in Crew : hand'[w][u].what = "asleep" => hand[w][u].what = "asleep"
    BY <1>3, <1>5
  <2>2. /\ hand'[w][Own].what = "joining" => hand[w][Own].what = "joining"
        /\ hand'[w][Own].what = "off" <=> hand[w][Own].what = "off"
        /\ hand[w][Own].what # "off"
    BY <1>3, <1>5, <1>t, CrewFinite DEF Threads, Crew
  <2> QED
    BY <2>1, <2>2, <1>9, <1>t DEF Threads
<1>11. IsFiniteSet(Held)' /\ HelpersExact'
  <2>1. \A v \in Walks : \A u \in Helper : hand'[v][u].what = "off" <=> hand[v][u].what = "off"
    BY <1>3, <1>5, CrewFinite
  <2> QED
    BY <2>1, <1>t, HeldRests
<1>12. ~Failing(w)' => ~Failing(w) /\ e = "no"
  BY <1>3, <1>5 DEF Failing
<1> QED
  BY <1>3, <1>5, <1>6, <1>7, <1>8, <1>10, <1>11, <1>12

LEMMA KeepsVisitFails ==
  ASSUME WalkIInv, NEW w \in Walks, NEW t \in Crew, VisitFails(w, t) PROVE WalkIInv'
<1>t. WalkTypes /\ Walk(w) /\ Apart(w) /\ Single(w)
  BY DEF WalkIInv, Walk
<1>1. /\ hand[w][t].what = "visit"
      /\ UNCHANGED <<inUse, stack, busy, failure, recorded, missed, verdict>>
  BY DEF VisitFails
<1>2. PICK e \in {"error", "cancelled"} : Claim(w, t, {}, e)
  BY DEF VisitFails
<1>3. {} \in SUBSET WalkDirs /\ e \in Failures
  BY DEF Failures
<1>4. /\ hand' \in [Walks -> [Crew -> Hands]]
      /\ \A v \in Walks : \A u \in Crew : hand'[v][u].what = "visit" => hand'[v][u].dir \in WalkDirs
      /\ \A v \in Walks \ {w} : hand'[v] = hand[v]
      /\ hand'[w][t].what = "claim" /\ hand'[w][t].found = {} /\ hand'[w][t].failed = e
      /\ \A u \in Crew \ {t} : hand'[w][u] = hand[w][u]
      /\ InHand(w)' = InHand(w) \ {hand[w][t].dir} /\ hand[w][t].dir \in InHand(w)
      /\ Found(w)' = Found(w) \cup {} /\ Stacked(w)' = Stacked(w)
      /\ Threads(w)' /\ IsFiniteSet(Held)' /\ HelpersExact'
      /\ ~Failing(w)' => ~Failing(w) /\ e = "no"
  BY <1>1, <1>2, <1>3, Turns
<1>5. WalkTypes'
  BY <1>1, <1>4, <1>t DEF WalkTypes
<1>6. Reported(w)' = Reported(w)
  BY <1>1 DEF Reported
<1>7. Apart(w)'
  BY <1>4, <1>6, <1>t DEF Apart, Seen
<1>8. Single(w)'
  BY <1>1, <1>4, <1>t DEF Single
<1>9. Whole(w)'
  BY <1>2, <1>4 DEF Whole
<1>10. \A v \in Walks \ {w} : Walk(v)'
  BY <1>1, <1>4, WalkRests DEF WalkIInv
<1> QED
  BY <1>4, <1>5, <1>7, <1>8, <1>9, <1>10 DEF WalkIInv, Walk

LEMMA KeepsVisitDir ==
  ASSUME WalkIInv, NEW w \in Walks, NEW t \in Crew, VisitDir(w, t) PROVE WalkIInv'
<1>t. WalkTypes /\ Walk(w) /\ Apart(w) /\ Single(w) /\ Whole(w)
  BY DEF WalkIInv, Walk
<1>1. hand[w][t].what = "visit" /\ UNCHANGED <<inUse, stack, busy, failure, verdict>>
  BY DEF VisitDir
<1>2. PICK d : d = hand[w][t].dir
  OBVIOUS
<1>3. d \in WalkDirs /\ d \in InHand(w)
  BY <1>1, <1>2, <1>t DEF WalkTypes, InHand
<1>4. PICK l \in Listings(d) :
        LET refused == l.denied /\ w \in Strict IN
        /\ Claim(w, t, IF refused THEN {} ELSE l.subdirs, IF refused THEN "error" ELSE "no")
        /\ recorded' = IF l.there /\ ~refused THEN [recorded EXCEPT ![w][d] = @ + 1] ELSE recorded
        /\ missed' = IF l.there /\ ~l.denied THEN missed ELSE [missed EXCEPT ![w] = @ \cup {d}]
  BY <1>2 DEF VisitDir
<1>5. /\ l.there \in BOOLEAN /\ l.denied \in BOOLEAN /\ l.subdirs \subseteq Inside[d]
      /\ ~l.there => l.subdirs = {}
      /\ l.there /\ ~l.denied => l.subdirs = Inside[d]
  <2>1. CASE l = [there |-> FALSE, denied |-> FALSE, subdirs |-> {}]
    BY <2>1
  <2>2. CASE l \in [there : {TRUE}, denied : {TRUE}, subdirs : SUBSET Inside[d]]
    <3>1. l.there \in {TRUE} /\ l.denied \in {TRUE} /\ l.subdirs \in SUBSET Inside[d]
      BY <2>2
    <3> QED
      BY <3>1
  <2>3. CASE l = [there |-> TRUE, denied |-> FALSE, subdirs |-> Inside[d]]
    BY <2>3
  <2> QED
    BY <2>1, <2>2, <2>3 DEF Listings
<1>6. PICK F, e : /\ F = IF l.denied /\ w \in Strict THEN {} ELSE l.subdirs
                  /\ e = IF l.denied /\ w \in Strict THEN "error" ELSE "no"
  OBVIOUS
<1>7. /\ F \subseteq Inside[d] /\ F \in SUBSET WalkDirs /\ e \in Failures /\ Claim(w, t, F, e)
  BY <1>3, <1>4, <1>5, <1>6, WalkAssumption DEF Failures
<1>8. /\ hand' \in [Walks -> [Crew -> Hands]]
      /\ \A v \in Walks : \A u \in Crew : hand'[v][u].what = "visit" => hand'[v][u].dir \in WalkDirs
      /\ \A v \in Walks \ {w} : hand'[v] = hand[v]
      /\ hand'[w][t].what = "claim" /\ hand'[w][t].found = F /\ hand'[w][t].failed = e
      /\ \A u \in Crew \ {t} : hand'[w][u] = hand[w][u]
      /\ InHand(w)' = InHand(w) \ {hand[w][t].dir} /\ hand[w][t].dir \in InHand(w)
      /\ Found(w)' = Found(w) \cup F /\ Stacked(w)' = Stacked(w)
      /\ Threads(w)' /\ IsFiniteSet(Held)' /\ HelpersExact'
      /\ ~Failing(w)' => ~Failing(w) /\ e = "no"
  BY <1>1, <1>7, Turns
<1>9. Inside[d] \cap Seen(w) = {} /\ d \notin Reported(w)
  BY <1>3, <1>t, InsideIsNew DEF Apart
<1>10. recorded[w][d] = 0
  BY <1>3, <1>9, <1>t DEF Reported, WalkTypes
<1>11. PICK here \in BOOLEAN : here <=> l.there /\ ~(l.denied /\ w \in Strict)
  OBVIOUS
<1>12. /\ recorded' \in [Walks -> [WalkDirs -> Nat]]
       /\ \A v \in Walks \ {w} : recorded'[v] = recorded[v]
       /\ \A x \in WalkDirs : recorded'[w][x] = IF here /\ x = d THEN 1 ELSE recorded[w][x]
  <2>1. recorded \in [Walks -> [WalkDirs -> Nat]]
    BY <1>t DEF WalkTypes
  <2>2. recorded' = IF here THEN [recorded EXCEPT ![w][d] = @ + 1] ELSE recorded
    BY <1>4, <1>11
  <2> QED
    BY <2>1, <2>2, <1>3, <1>10
<1>13. Reported(w)' = Reported(w) \cup (IF here THEN {d} ELSE {}) /\ (F # {} => here)
  <2>1. Reported(w)' = Reported(w) \cup (IF here THEN {d} ELSE {})
    BY <1>3, <1>12 DEF Reported
  <2> QED
    BY <2>1, <1>5, <1>6, <1>11
<1>14. /\ missed' \in [Walks -> SUBSET WalkDirs]
       /\ \A v \in Walks \ {w} : missed'[v] = missed[v]
       /\ missed'[w] = missed[w] \/ missed'[w] = missed[w] \cup {d}
       /\ d \notin missed'[w] => l.there /\ ~l.denied
       /\ missed[w] \subseteq missed'[w]
  <2>1. missed \in [Walks -> SUBSET WalkDirs]
    BY <1>t DEF WalkTypes
  <2>2. missed' = IF l.there /\ ~l.denied THEN missed ELSE [missed EXCEPT ![w] = @ \cup {d}]
    BY <1>4
  <2> QED
    BY <2>1, <2>2, <1>3
<1>15. WalkTypes'
  BY <1>1, <1>8, <1>12, <1>14, <1>t DEF WalkTypes
<1>16. F \cap Seen(w) = {} /\ d \in Seen(w) /\ d \notin F
  BY <1>3, <1>7, <1>9 DEF Seen
<1>17. Seen(w)' \subseteq Seen(w) \cup F
  BY <1>2, <1>8, <1>13, <1>16 DEF Seen
<1>18. Apart(w)'
  <2>1. /\ Stacked(w)' \cap (InHand(w)' \cup Found(w)' \cup Reported(w)') = {}
        /\ InHand(w)' \cap (Found(w)' \cup Reported(w)') = {} /\ Found(w)' \cap Reported(w)' = {}
    BY <1>2, <1>3, <1>8, <1>13, <1>16, <1>t DEF Apart, Seen
  <2>2. \A x \in Seen(w)' \ {RootOf[w]} : \E p \in Reported(w)' : x \in Inside[p]
    <3>1. \A x \in Seen(w) \ {RootOf[w]} : \E p \in Reported(w)' : x \in Inside[p]
      BY <1>13, <1>t DEF Apart
    <3>2. \A x \in F : d \in Reported(w)' /\ x \in Inside[d]
      BY <1>7, <1>13
    <3> QED
      BY <3>1, <3>2, <1>17
  <2> QED
    BY <2>1, <2>2 DEF Apart
<1>19. Single(w)'
  <2>1. \A u, v \in Crew :
          hand'[w][u].what = "claim" /\ hand'[w][v].what = "claim" /\ u # v
            => hand'[w][u].found \cap hand'[w][v].found = {}
    <3>1. \A u \in Crew \ {t} : hand[w][u].what = "claim" => hand[w][u].found \cap F = {}
      BY <1>16 DEF Seen, Found
    <3> QED
      BY <3>1, <1>8, <1>t DEF Single
  <2>2. \A u, v \in Crew :
          hand'[w][u].what = "visit" /\ hand'[w][v].what = "visit" /\ hand'[w][u].dir = hand'[w][v].dir => u = v
    BY <1>8, <1>t DEF Single
  <2>3. \A x \in WalkDirs : recorded'[w][x] <= 1
    BY <1>12, <1>t DEF Single
  <2> QED
    BY <2>1, <2>2, <2>3, <1>1, <1>t DEF Single
<1>20. Whole(w)'
  <2> SUFFICES ASSUME ~Failing(w)'
               PROVE  /\ RootOf[w] \in Seen(w)' \cup missed'[w]
                      /\ \A x \in Reported(w)' \ missed'[w] : Inside[x] \subseteq Seen(w)' \cup missed'[w]
    BY DEF Whole
  <2>1. ~Failing(w) /\ ~(l.denied /\ w \in Strict) /\ F = l.subdirs
    BY <1>6, <1>8
  <2>2. Seen(w) \subseteq Seen(w)' \cup missed'[w]
    BY <2>1, <1>2, <1>8, <1>11, <1>13, <1>14 DEF Seen
  <2>3. d \notin missed'[w] => Inside[d] \subseteq Seen(w)'
    BY <2>1, <1>5, <1>8, <1>14 DEF Seen
  <2>4. /\ RootOf[w] \in Seen(w) \cup missed[w]
        /\ \A x \in Reported(w) \ missed[w] : Inside[x] \subseteq Seen(w) \cup missed[w]
    BY <2>1, <1>t DEF Whole
  <2> QED
    BY <2>2, <2>3, <2>4, <1>13, <1>14
<1>21. \A v \in Walks \ {w} : Walk(v)'
  BY <1>1, <1>8, <1>12, <1>14, WalkRests DEF WalkIInv
<1> QED
  BY <1>8, <1>15, <1>18, <1>19, <1>20, <1>21 DEF WalkIInv, Walk

\* What a claim pushes is pushed once.
Members(s) == {s[k] : k \in DOMAIN s}
Distinct(s) == \A i, j \in DOMAIN s : s[i] = s[j] => i = j

LEMMA OrderFacts ==
  ASSUME NEW F \in SUBSET WalkDirs, NEW s \in Orders(F)
  PROVE  s \in Seq(WalkDirs) /\ Members(s) = F /\ Distinct(s)
<1>1. IsFiniteSet(F) /\ Cardinality(F) \in Nat
  BY FS_Subset, FS_CardinalityType, WalkAssumption
<1>2. PICK n \in Nat : n = Cardinality(F)
  BY <1>1
<1>3. s \in [1..n -> F] /\ (\A d \in F : \E k \in 1..n : s[k] = d) /\ DOMAIN s = 1..n
  BY <1>2 DEF Orders
<1>4. s \in Seq(WalkDirs)
  <2>1. \A k \in 1..n : s[k] \in WalkDirs
    BY <1>3
  <2>2. s \in [1..n -> WalkDirs]
    BY <1>3, <2>1
  <2> QED
    BY <2>2, SeqDef
<1>5. s \in Surjection(1..n, F)
  BY <1>3 DEF Surjection
<1>6. IsFiniteSet(1..n) /\ Cardinality(1..n) = Cardinality(F)
  BY <1>2, FS_Interval
<1>7. s \in Injection(1..n, F)
  BY <1>5, <1>6, FS_SurjSameCardinalityImpliesInj
<1>8. Distinct(s)
  BY <1>7 DEF Injection, IsInjective, Distinct
<1>9. Members(s) = F
  BY <1>3 DEF Members
<1> QED
  BY <1>4, <1>8, <1>9

LEMMA PushFacts ==
  ASSUME NEW S, NEW a \in Seq(S), NEW b \in Seq(S), NEW c, c = a \o b
  PROVE  /\ c \in Seq(S) /\ Members(c) = Members(a) \cup Members(b)
         /\ Distinct(a) /\ Distinct(b) /\ Members(a) \cap Members(b) = {} => Distinct(c)
<1>1. PICK m, n \in Nat : m = Len(a) /\ n = Len(b)
  BY LenProperties
<1>2. c \in Seq(S)
  BY ConcatProperties
<1>3. DOMAIN a = 1..m /\ DOMAIN b = 1..n /\ DOMAIN c = 1..(m + n)
  BY <1>1, <1>2, LenProperties, ConcatProperties
<1>4. \A i \in 1..(m + n) : c[i] = IF i <= m THEN a[i] ELSE b[i - m]
  BY <1>1, <1>2, ConcatProperties
<1>5. (\A i \in 1..m : c[i] = a[i]) /\ (\A i \in 1..n : c[m + i] = b[i])
  <2>1. ASSUME NEW i \in 1..m PROVE c[i] = a[i]
    <3>1. i \in 1..(m + n) /\ i <= m
      OBVIOUS
    <3> QED
      BY <3>1, <1>4
  <2>2. ASSUME NEW i \in 1..n PROVE c[m + i] = b[i]
    <3>1. m + i \in 1..(m + n) /\ ~(m + i <= m) /\ (m + i) - m = i
      OBVIOUS
    <3> QED
      BY <3>1, <1>4
  <2> QED
    BY <2>1, <2>2
<1>6. \A i \in 1..(m + n) : i \in 1..m \/ (i - m \in 1..n /\ i = m + (i - m))
  OBVIOUS
<1>7. {c[k] : k \in 1..(m + n)} = {a[k] : k \in 1..m} \cup {b[k] : k \in 1..n}
  <2>1. ASSUME NEW i \in 1..(m + n) PROVE c[i] \in {a[k] : k \in 1..m} \cup {b[k] : k \in 1..n}
    <3>1. CASE i \in 1..m
      BY <3>1, <1>5
    <3>2. CASE i - m \in 1..n /\ i = m + (i - m)
      BY <3>2, <1>5
    <3> QED
      BY <3>1, <3>2, <1>6
  <2>2. \A i \in 1..m : a[i] \in {c[k] : k \in 1..(m + n)}
    <3>1. \A i \in 1..m : i \in 1..(m + n)
      OBVIOUS
    <3> QED
      BY <3>1, <1>5
  <2>3. \A i \in 1..n : b[i] \in {c[k] : k \in 1..(m + n)}
    <3>1. \A i \in 1..n : m + i \in 1..(m + n)
      OBVIOUS
    <3> QED
      BY <3>1, <1>5
  <2> QED
    BY <2>1, <2>2, <2>3
<1>8. ASSUME \A i, j \in 1..m : a[i] = a[j] => i = j, \A i, j \in 1..n : b[i] = b[j] => i = j,
             {a[k] : k \in 1..m} \cap {b[k] : k \in 1..n} = {}
      PROVE  \A i, j \in 1..(m + n) : c[i] = c[j] => i = j
  <2>1. ASSUME NEW i \in 1..m, NEW j \in 1..n PROVE a[i] # b[j]
    <3>1. a[i] \in {a[k] : k \in 1..m} /\ b[j] \in {b[k] : k \in 1..n}
      OBVIOUS
    <3> QED
      BY <3>1, <1>8
  <2>2. ASSUME NEW i \in 1..(m + n), NEW j \in 1..(m + n), c[i] = c[j] PROVE i = j
    <3>1. CASE i \in 1..m /\ j \in 1..m
      BY <3>1, <2>2, <1>5, <1>8
    <3>2. CASE i \in 1..m /\ j - m \in 1..n /\ j = m + (j - m)
      <4>1. a[i] # b[j - m]
        BY <3>2, <2>1
      <4> QED
        BY <3>2, <4>1, <2>2, <1>5
    <3>3. CASE j \in 1..m /\ i - m \in 1..n /\ i = m + (i - m)
      <4>1. a[j] # b[i - m]
        BY <3>3, <2>1
      <4> QED
        BY <3>3, <4>1, <2>2, <1>5
    <3>4. CASE i - m \in 1..n /\ i = m + (i - m) /\ j - m \in 1..n /\ j = m + (j - m)
      <4>1. b[i - m] = b[j - m]
        BY <3>4, <2>2, <1>5
      <4>2. i - m = j - m
        BY <3>4, <4>1, <1>8
      <4> QED
        BY <3>4, <4>2
    <3> QED
      BY <3>1, <3>2, <3>3, <3>4, <1>6
  <2> QED
    BY <2>2
<1>9. Members(c) = Members(a) \cup Members(b)
  BY <1>3, <1>7 DEF Members
<1>10. Distinct(a) /\ Distinct(b) /\ Members(a) \cap Members(b) = {} => Distinct(c)
  BY <1>3, <1>8 DEF Members, Distinct
<1> QED
  BY <1>2, <1>9, <1>10

LEMMA KeepsDropClaim ==
  ASSUME WalkIInv, NEW w \in Walks, NEW t \in Crew, DropClaim(w, t) PROVE WalkIInv'
<1>t. WalkTypes /\ Walk(w) /\ Threads(w) /\ Apart(w) /\ Single(w) /\ Whole(w) /\ IsFiniteSet(Held) /\ HelpersExact
  BY DEF WalkIInv, Walk
<1>0. /\ stack \in [Walks -> Seq(WalkDirs)] /\ busy \in [Walks -> Nat] /\ failure \in [Walks -> Failures]
      /\ hand \in [Walks -> [Crew -> Hands]] /\ hand[w][t] \in Hands
  BY <1>t DEF WalkTypes
<1>1. PICK F, e : F = hand[w][t].found /\ e = hand[w][t].failed
  OBVIOUS
<1>2. /\ hand[w][t].what = "claim" /\ F \in SUBSET WalkDirs /\ e \in Failures
      /\ UNCHANGED <<inUse, stopped, recorded, missed, verdict>>
      /\ busy' = [busy EXCEPT ![w] = @ - 1]
      /\ failure' = [failure EXCEPT ![w] = IF @ = "no" THEN e ELSE @]
  BY <1>0, <1>1 DEF DropClaim, Hands
<1>3. PICK s \in Orders(F) : stack' = [stack EXCEPT ![w] = @ \o s]
  BY <1>1 DEF DropClaim
<1>4. PICK h : h = Awaken(w, t, F)
  OBVIOUS
<1>5. hand' = [hand EXCEPT ![w] = h]
  BY <1>1, <1>4 DEF DropClaim
<1>6. Doing("next") \in Hands /\ Doing("next").what = "next"
  BY DEF Doing, Hands, Failures
<1>7. /\ h \in [Crew -> Hands] /\ h[t].what = "next"
      /\ \A u \in Crew \ {t} : IF hand[w][u].what = "asleep" THEN h[u].what = "next" ELSE h[u] = hand[w][u]
  BY <1>0, <1>4, <1>6 DEF Awaken
<1>8. hand'[w] = h /\ (\A v \in Walks \ {w} : hand'[v] = hand[v]) /\ hand' \in [Walks -> [Crew -> Hands]]
  BY <1>0, <1>5, <1>7
<1>9. /\ \A u \in Crew \ {t} : hand[w][u].what # "asleep" => hand'[w][u] = hand[w][u]
      /\ \A u \in Crew \ {t} : hand[w][u].what = "asleep" => hand'[w][u].what = "next"
      /\ hand'[w][t].what = "next"
  BY <1>7, <1>8
<1>10. s \in Seq(WalkDirs) /\ Members(s) = F /\ Distinct(s)
  BY <1>2, OrderFacts
<1>11. stack[w] \in Seq(WalkDirs) /\ stack'[w] = stack[w] \o s /\ \A v \in Walks \ {w} : stack'[v] = stack[v]
  BY <1>0, <1>3
<1>12. F \subseteq Found(w)
  BY <1>1, <1>2 DEF Found
<1>13. /\ stack'[w] \in Seq(WalkDirs) /\ Stacked(w)' = Stacked(w) \cup F
       /\ \A i, j \in DOMAIN stack'[w] : stack'[w][i] = stack'[w][j] => i = j
  <2>1. Stacked(w) = Members(stack[w]) /\ Stacked(w)' = Members(stack'[w])
    BY DEF Stacked, Members
  <2>2. Stacked(w) \cap F = {} /\ Distinct(stack[w])
    BY <1>12, <1>t DEF Apart, Single, Distinct
  <2>3. /\ stack'[w] \in Seq(WalkDirs) /\ Members(stack'[w]) = Members(stack[w]) \cup Members(s)
        /\ Distinct(stack[w]) /\ Distinct(s) /\ Members(stack[w]) \cap Members(s) = {} => Distinct(stack'[w])
    BY <1>10, <1>11, PushFacts
  <2>4. Distinct(stack'[w])
    BY <2>1, <2>2, <2>3, <1>10
  <2> QED
    BY <2>1, <2>3, <2>4, <1>10 DEF Distinct
<1>14. InHand(w)' = InHand(w)
  <2>1. {u \in Crew : hand'[w][u].what = "visit"} = {u \in Crew : hand[w][u].what = "visit"}
    BY <1>2, <1>9
  <2>2. \A u \in {x \in Crew : hand[w][x].what = "visit"} : hand'[w][u] = hand[w][u]
    BY <1>2, <1>9
  <2> QED
    BY <2>1, <2>2 DEF InHand
<1>15. Found(w)' = Found(w) \ F
  <2>1. {u \in Crew : hand'[w][u].what = "claim"} = {u \in Crew : hand[w][u].what = "claim"} \ {t}
    BY <1>9
  <2>2. \A u \in {x \in Crew : hand[w][x].what = "claim"} \ {t} :
          hand'[w][u] = hand[w][u] /\ hand[w][u].found \cap F = {}
    BY <1>1, <1>2, <1>9, <1>t DEF Single
  <2> QED
    BY <2>1, <2>2, <1>1, <1>2 DEF Found
<1>16. Reported(w)' = Reported(w)
  BY <1>2 DEF Reported
<1>17. Seen(w)' = Seen(w)
  BY <1>12, <1>13, <1>14, <1>15, <1>16 DEF Seen
<1>18. Apart(w)'
  BY <1>12, <1>13, <1>14, <1>15, <1>16, <1>17, <1>t DEF Apart
<1>19. Single(w)'
  <2>1. \A u \in Crew : hand'[w][u].what \in {"visit", "claim"} => hand'[w][u] = hand[w][u]
    BY <1>9
  <2>2. \A u, v \in Crew :
          hand'[w][u].what = "claim" /\ hand'[w][v].what = "claim" /\ u # v
            => hand'[w][u].found \cap hand'[w][v].found = {}
    BY <2>1, <1>t DEF Single
  <2>3. \A u, v \in Crew :
          hand'[w][u].what = "visit" /\ hand'[w][v].what = "visit" /\ hand'[w][u].dir = hand'[w][v].dir => u = v
    BY <2>1, <1>t DEF Single
  <2> QED
    BY <2>2, <2>3, <1>2, <1>13, <1>t DEF Single
<1>20. Failing(w) => Failing(w)'
  <2>1. failure[w] \in Failures /\ failure'[w] = IF failure[w] = "no" THEN e ELSE failure[w]
    BY <1>0, <1>2
  <2> QED
    BY <2>1, <1>1, <1>9 DEF Failing
<1>21. Whole(w)'
  BY <1>2, <1>16, <1>17, <1>20, <1>t DEF Whole
<1>22. Visitors(w)' = Visitors(w) \ {t} /\ t \in Visitors(w)
  BY <1>2, <1>9 DEF Visitors, Visits
<1>23. busy'[w] = Cardinality(Visitors(w)') /\ busy' \in [Walks -> Nat] /\ \A v \in Walks \ {w} : busy'[v] = busy[v]
  <2>1. /\ Cardinality(Visitors(w)') = Cardinality(Visitors(w)) - 1
        /\ Cardinality(Visitors(w)') \in Nat
    BY <1>22, CrewFinite, FS_RemoveElement, FS_CardinalityType
  <2>2. busy[w] = Cardinality(Visitors(w))
    BY <1>t DEF Threads
  <2> QED
    BY <2>1, <2>2, <1>0, <1>2
<1>24. Threads(w)'
  <2>1. \A u \in Crew : hand'[w][u].what # "asleep"
    BY <1>9
  <2>2. /\ hand'[w][Own].what = "joining" => hand[w][Own].what = "joining"
        /\ hand'[w][Own].what # "off" /\ verdict[w] = "none"
    BY <1>2, <1>9, <1>t, CrewFinite DEF Threads, Crew
  <2>3. hand[w][Own].what = "joining" => failure[w] # "no"
    BY <1>22, <1>t DEF Threads
  <2>4. failure[w] # "no" => failure'[w] # "no"
    BY <1>0, <1>2
  <2> QED
    BY <2>1, <2>2, <2>3, <2>4, <1>2, <1>23 DEF Threads
<1>25. WalkTypes'
  <2>1. stack' \in [Walks -> Seq(WalkDirs)]
    BY <1>0, <1>3, <1>11, <1>13
  <2>2. failure' \in [Walks -> Failures] /\ \A v \in Walks \ {w} : failure'[v] = failure[v]
    BY <1>0, <1>2
  <2>3. \A v \in Walks : \A u \in Crew : hand'[v][u].what = "visit" => hand'[v][u].dir \in WalkDirs
    BY <1>2, <1>8, <1>9, <1>t, ZenonT(40) DEF WalkTypes
  <2> QED
    BY <2>1, <2>2, <2>3, <1>2, <1>8, <1>23, <1>t DEF WalkTypes
<1>26. \A v \in Walks \ {w} : Walk(v)'
  <2>1. \A v \in Walks \ {w} : failure'[v] = failure[v]
    BY <1>0, <1>2
  <2> QED
    BY <2>1, <1>2, <1>8, <1>11, <1>23, WalkRests DEF WalkIInv
<1>27. IsFiniteSet(Held)' /\ HelpersExact'
  <2>1. \A u \in Crew : hand'[w][u].what = "off" <=> hand[w][u].what = "off"
    BY <1>2, <1>9
  <2>2. \A v \in Walks : \A u \in Helper : hand'[v][u].what = "off" <=> hand[v][u].what = "off"
    BY <2>1, <1>8, CrewFinite
  <2> QED
    BY <2>2, <1>2, <1>t, HeldRests
<1> QED
  BY <1>18, <1>19, <1>21, <1>24, <1>25, <1>26, <1>27 DEF WalkIInv, Walk

LEMMA WalkKeeps == WalkIInv /\ [WalkNext]_walkVars => WalkIInv'
<1> SUFFICES ASSUME WalkIInv, [WalkNext]_walkVars PROVE WalkIInv'
  OBVIOUS
<1>1. CASE UNCHANGED walkVars
  <2>1. UNCHANGED <<inUse, stack, busy, failure, hand, recorded, missed, verdict>>
    BY <1>1 DEF walkVars
  <2>2. WalkTypes'
    BY <2>1 DEF WalkIInv, WalkTypes
  <2>3. IsFiniteSet(Held)' /\ HelpersExact'
    BY <2>1, HeldRests DEF WalkIInv
  <2>4. \A v \in Walks : Walk(v)'
    BY <2>1, WalkRests DEF WalkIInv
  <2> QED
    BY <2>2, <2>3, <2>4 DEF WalkIInv
<1>2. CASE WalkNext
  BY <1>2, KeepsStart, KeepsOwnStarts, KeepsCancelWalk, KeepsEndWalk, KeepsSpawnHelper, KeepsClaimNext,
     KeepsSleep, KeepsRetire, KeepsVisitDir, KeepsVisitFails, KeepsDropClaim DEF WalkNext, Step
<1> QED
  BY <1>1, <1>2

LEMMA WalkImplies == WalkIInv => WalkInv
<1> SUFFICES ASSUME WalkIInv PROVE WalkInv
  OBVIOUS
<1>1. WalkTypeOK
  <2>1. inUse \in 0..HelperCap
    BY WalkAssumption DEF WalkIInv, WalkTypes, HelpersExact
  <2>2. \A w \in Walks : stack[w] \in Seq(WalkDirs)
    BY DEF WalkIInv, WalkTypes
  <2>3. ASSUME NEW w \in Walks PROVE busy[w] \in 0..Cardinality(Crew)
    <3>1. Visitors(w) \subseteq Crew /\ busy[w] = Cardinality(Visitors(w))
      BY DEF Visitors, WalkIInv, Walk, Threads
    <3>2. Cardinality(Visitors(w)) <= Cardinality(Crew) /\ Cardinality(Crew) \in Nat
      BY <3>1, CrewFinite, FS_Subset, FS_CardinalityType
    <3> QED
      BY <3>1, <3>2, CrewFinite
  <2>4. \A w \in Walks : \A t \in Crew : hand[w][t] \in Hands
    BY DEF WalkIInv, WalkTypes
  <2>5. \A w \in Walks : \A t \in Crew : hand[w][t].what \in
          {"off", "reserved", "start", "next", "asleep", "visit", "claim", "joining"}
    BY <2>4 DEF Hands
  <2> QED
    BY <2>1, <2>2, <2>3, <2>5 DEF WalkTypeOK
<1>2. SleepersAreWoken
  BY DEF WalkIInv, Walk, Threads, SleepersAreWoken, Visitors, Visits
<1>3. CompleteOnce
  <2> SUFFICES ASSUME NEW w \in Walks, verdict[w] = "done"
               PROVE  /\ \A d \in WalkDirs : recorded[w][d] <= 1
                      /\ \A d \in Reach(w) \ missed[w] : recorded[w][d] = 1
    BY DEF CompleteOnce
  <2>t. WalkTypes /\ Threads(w) /\ Single(w) /\ Whole(w) /\ Apart(w)
    BY DEF WalkIInv, Walk
  <2>1. /\ \A t \in Crew : hand[w][t].what = "off"
        /\ failure[w] = "no" /\ stack[w] = <<>>
    BY <2>t DEF Threads, Crew
  <2>2. ~Failing(w)
    BY <2>1 DEF Failing
  <2>3. Seen(w) = Reported(w)
    BY <2>1 DEF Seen, Stacked, InHand, Found
  <2>4. PICK dirs : dirs = Reported(w) \cup missed[w]
    OBVIOUS
  <2>5. dirs \in SUBSET WalkDirs /\ Closed(w, dirs)
    BY <2>2, <2>3, <2>4, <2>t DEF Whole, Closed, Reported, WalkTypes
  <2>6. \A d \in Reach(w) \ missed[w] : d \in Reported(w)
    BY <2>4, <2>5 DEF Reach
  <2>7. \A d \in WalkDirs : recorded[w][d] \in Nat /\ recorded[w][d] <= 1
    BY <2>t DEF WalkTypes, Single
  <2> QED
    BY <2>6, <2>7 DEF Reported
<1> QED
  BY <1>1, <1>2, <1>3 DEF WalkIInv, WalkInv

\* However the threads of the parallel walks share the stacks and the helpers
\* (size/fast_walk.rs next, visit, Claim::drop, acquire_helpers): the budget counts
\* the helpers, no thread sleeps through the end of its walk, and a walk that
\* ends well reported every directory it could reach exactly once.
THEOREM WalkSound == WalkSpec => []WalkInv
<1>1. WalkInit => WalkIInv
  BY WalkStart
<1>2. WalkIInv /\ [WalkNext]_walkVars => WalkIInv'
  BY WalkKeeps
<1>3. WalkIInv => WalkInv
  BY WalkImplies
<1> QED
  BY <1>1, <1>2, <1>3, PTL DEF WalkSpec

-----------------------------------------------------------------------------
(* The worker of a Compress or an Extract.  What it reports is whole       *)
(* because each place of its program knows what is done up to there, or    *)
(* that the run was cancelled or has failed.                               *)

Outputs == UNION {{OutputPath(i, at) : at \in DOMAIN EntriesOf[i]} : i \in 1..ArcItems}
Files == [path : Outputs \cup {<<"own">>}, whole : BOOLEAN]
ArcPlaces ==
  {"top", "check", "begin", "member", "entry", "copy", "close", "after", "recheck", "end", "off"}

ArcTypes ==
  /\ arcKind \in {"compress", "extract"} /\ arcPc \in ArcPlaces
  /\ flags \in [status : {"Active", "Paused", "Cancelled", "Failed", "Completed"}, cancel : BOOLEAN,
                pause : BOOLEAN, skip : BOOLEAN, error : BOOLEAN, retries : Nat]
  /\ arcItem \in 1..(ArcItems + 1) /\ entryAt \in Nat \ {0}
  /\ zip \in [by : {"none", "op", "user"}, members : SUBSET [item : Nat, at : Nat, whole : BOOLEAN]]
  /\ IsFiniteSet(DOMAIN folders) /\ UserFolders \subseteq DOMAIN folders
  /\ folders \in [DOMAIN folders -> [by : 0..ArcItems, files : SUBSET Files]]
  /\ dropped \subseteq everDropped

\* What is done of an item: its members, or the entries in a folder of its own.
Zipped(i, at) == [item |-> i, at |-> at, whole |-> TRUE] \in zip.members
Unpacked(i, d, at) == [path |-> OutputPath(i, at), whole |-> TRUE] \in folders[d].files
ItemDone(i) ==
  IF arcKind = "compress" THEN \A at \in DOMAIN MembersOf[i] : Zipped(i, at)
  ELSE \E d \in DOMAIN folders : folders[d].by = i /\ \A at \in DOMAIN EntriesOf[i] : Unpacked(i, d, at)
PartDone ==
  IF arcKind = "compress" THEN \A at \in DOMAIN MembersOf[arcItem] : at < entryAt => Zipped(arcItem, at)
  ELSE \A at \in DOMAIN EntriesOf[arcItem] : at < entryAt => Unpacked(arcItem, root, at)

Progress ==
  /\ \A i \in 1..(arcItem - 1) : i \in dropped \/ ItemDone(i)
  /\ arcPc \in {"member", "entry", "copy"} => flags.cancel \/ PartDone
  /\ arcPc = "close" => flags.cancel \/ ItemDone(arcItem)
  /\ arcPc \in {"after", "recheck"} => Halts \/ ItemDone(arcItem)
  /\ arcPc = "end" => Halts
  /\ flags.status = "Completed" => arcPc = "off" /\ arcItem > ArcItems
Places ==
  /\ arcItem > ArcItems => arcPc \in {"top", "off"}
  /\ arcPc \in {"top", "check", "begin"} => entryAt = 1
  /\ arcPc = "member" \/ (arcPc = "copy" /\ arcKind = "compress") => zip.by # "none"
  /\ arcPc \in {"member", "close"} => arcKind = "compress"
  /\ arcPc = "entry" => arcKind = "extract"
  /\ arcPc = "copy" => entryAt \in IF arcKind = "compress" THEN DOMAIN MembersOf[arcItem]
                                    ELSE DOMAIN EntriesOf[arcItem]
  /\ arcPc \in {"entry", "copy"} /\ arcKind = "extract" =>
       root \in DOMAIN folders \ UserFolders /\ folders[root].by = arcItem

\* What is the user's, and what is not there.
Untouched ==
  /\ \A d \in UserFolders : folders[d] = [by |-> 0, files |-> {UserFile}]
  /\ zip.by = "user" /\ 1 \notin everDropped =>
       /\ zip.members = {UserMember} /\ arcItem = 1 /\ arcPc \notin {"member", "copy", "close"}
       /\ arcPc \in {"after", "recheck"} => Halts
  /\ zip.by = "none" => zip.members = {}
  /\ arcKind = "extract" => zip.by = "none"

ArcIInv == ArcTypes /\ Progress /\ Places /\ Untouched

LEMMA ArcConstants ==
  /\ ArcItems \in Nat /\ ArcItems >= 1
  /\ \A i \in 1..ArcItems : /\ Len(MembersOf[i]) \in Nat /\ DOMAIN MembersOf[i] = 1..Len(MembersOf[i])
                            /\ Len(EntriesOf[i]) \in Nat /\ DOMAIN EntriesOf[i] = 1..Len(EntriesOf[i])
<1>1. ASSUME NEW i \in 1..ArcItems
      PROVE  /\ Len(MembersOf[i]) \in Nat /\ DOMAIN MembersOf[i] = 1..Len(MembersOf[i])
             /\ Len(EntriesOf[i]) \in Nat /\ DOMAIN EntriesOf[i] = 1..Len(EntriesOf[i])
  <2>1. MembersOf[i] \in Seq({"file", "dir", "link"})
    BY ArchiveAssumption DEF ArchiveAssumption
  <2>2. EntriesOf[i] \in Seq([name : Seq(Names) \ {<<>>}, kind : {"file", "dir", "link"}])
    BY ArchiveAssumption DEF ArchiveAssumption
  <2> QED
    BY <2>1, <2>2, LenProperties
<1> QED
  BY <1>1, ArchiveAssumption DEF ArchiveAssumption

LEMMA ArcStart == ArcInit => ArcIInv
<1> SUFFICES ASSUME ArcInit PROVE ArcIInv
  OBVIOUS
<1>1. /\ arcKind \in {"compress", "extract"} /\ flags = Fresh /\ arcPc = "top" /\ arcItem = 1 /\ entryAt = 1
      /\ folders = [d \in UserFolders |-> [by |-> 0, files |-> {UserFile}]]
      /\ dropped = {} /\ everDropped = {}
  BY DEF ArcInit
<1>2. /\ zip \in [by : {"none", "op", "user"}, members : SUBSET [item : Nat, at : Nat, whole : BOOLEAN]]
      /\ zip.by \in {"none", "user"} /\ (zip.by = "none" => zip.members = {})
      /\ zip.by = "user" => zip.members = {UserMember} /\ arcKind = "compress"
  <2>1. CASE zip = [by |-> "none", members |-> {}]
    BY <2>1
  <2>2. CASE arcKind = "compress" /\ zip = [by |-> "user", members |-> {UserMember}]
    BY <2>2 DEF UserMember
  <2> QED
    BY <2>1, <2>2 DEF ArcInit
<1>3. DOMAIN folders = UserFolders /\ IsFiniteSet(UserFolders)
  BY <1>1, ArchiveAssumption
<1>4. folders \in [UserFolders -> [by : 0..ArcItems, files : SUBSET Files]]
  <2>1. UserFile \in Files
    BY DEF UserFile, Files
  <2>2. [by |-> 0, files |-> {UserFile}] \in [by : 0..ArcItems, files : SUBSET Files]
    BY <2>1, ArcConstants
  <2> QED
    BY <1>1, <2>2
<1>5. flags.status = "Active" /\ flags \in
        [status : {"Active", "Paused", "Cancelled", "Failed", "Completed"}, cancel : BOOLEAN,
         pause : BOOLEAN, skip : BOOLEAN, error : BOOLEAN, retries : Nat]
  BY <1>1 DEF Fresh
<1>6. ArcTypes
  BY <1>1, <1>2, <1>3, <1>4, <1>5, ArcConstants DEF ArcTypes, ArcPlaces
<1>7. Progress /\ Places
  BY <1>1, <1>5, ArcConstants DEF Progress, Places
<1>8. Untouched
  BY <1>1, <1>2 DEF Untouched
<1> QED
  BY <1>6, <1>7, <1>8 DEF ArcIInv

\* What is on the disk is kept: of the archives and the folders, everything whole.
Keeps ==
  /\ arcKind' = arcKind
  /\ \A i, at : Zipped(i, at) => Zipped(i, at)'
  /\ \A d \in DOMAIN folders :
       /\ d \in DOMAIN folders' /\ folders'[d].by = folders[d].by
       /\ \A i, at : Unpacked(i, d, at) => Unpacked(i, d, at)'

LEMMA DoneStays == ASSUME Keeps PROVE \A i : ItemDone(i) => ItemDone(i)'
BY DEF Keeps, ItemDone

\* A step that leaves the disk and the place in the item as they are.
LEMMA DiskRests ==
  ASSUME UNCHANGED <<arcKind, zip, folders, root>>
  PROVE  /\ Keeps /\ \A i : ItemDone(i)' <=> ItemDone(i)
         /\ UNCHANGED <<arcItem, entryAt>> => (PartDone' <=> PartDone)
BY DEF Keeps, ItemDone, PartDone, Zipped, Unpacked

\* The user, and the control of the item loop.
LEMMA KeepsControl ==
  ASSUME ArcIInv,
         \/ PauseArchive \/ ResumeArchive \/ CancelArchive \/ SkipArchive \/ RetryArchive
         \/ ItemSkipped \/ NotSkipped \/ CheckItem \/ RecheckItem \/ EndArchive \/ Abandoned
         \/ AllAppended \/ CloseArchive \/ SetModes
  PROVE  ArcIInv'
<1>t. ArcTypes /\ Progress /\ Places /\ Untouched
  BY DEF ArcIInv
<1>d. /\ UNCHANGED <<arcKind, zip, folders, root>>
      /\ dropped' \subseteq everDropped' /\ everDropped \subseteq everDropped'
  BY <1>t DEF PauseArchive, ResumeArchive, CancelArchive, SkipArchive, RetryArchive, Changes, ItemSkipped,
     NotSkipped, CheckItem, RecheckItem, EndArchive, Abandoned, AllAppended, CloseArchive, SetModes,
     arcDisk, arcPlace, arcHistory, ArcTypes
<1>k. \A i : ItemDone(i)' <=> ItemDone(i)
  BY <1>d, DiskRests
<1>p. UNCHANGED <<arcItem, entryAt>> => (PartDone' <=> PartDone)
  BY <1>d, DiskRests
<1>c. arcItem \in 1..(ArcItems + 1) /\ entryAt \in Nat \ {0} /\ ArcItems \in Nat /\ ArcItems >= 1
  BY <1>t, ArcConstants DEF ArcTypes
<1>f. flags \in [status : {"Active", "Paused", "Cancelled", "Failed", "Completed"}, cancel : BOOLEAN,
                 pause : BOOLEAN, skip : BOOLEAN, error : BOOLEAN, retries : Nat]
  BY <1>t DEF ArcTypes
<1> DEFINE Flags == [status : {"Active", "Paused", "Cancelled", "Failed", "Completed"}, cancel : BOOLEAN,
                     pause : BOOLEAN, skip : BOOLEAN, error : BOOLEAN, retries : Nat]
<1>1. CASE PauseArchive \/ ResumeArchive \/ CancelArchive \/ SkipArchive
  <2>1. /\ UNCHANGED <<arcPc, arcItem, entryAt, dropped, everDropped>>
        /\ flags.status \in {"Active", "Paused"} /\ flags'.status \in {"Active", "Paused", "Cancelled"}
        /\ flags' \in Flags /\ (flags.cancel => flags'.cancel) /\ flags'.error = flags.error
    BY <1>1, <1>f DEF PauseArchive, ResumeArchive, CancelArchive, SkipArchive, Changes, arcPlace, arcHistory
  <2>2. ArcTypes'
    BY <1>d, <2>1, <1>t DEF ArcTypes
  <2>3. Halts => Halts'
    BY <2>1 DEF Halts
  <2>4. Progress'
    BY <1>k, <1>p, <2>1, <2>3, <1>t DEF Progress
  <2>5. Places' /\ Untouched'
    BY <1>d, <2>1, <2>3, <1>t DEF Places, Untouched
  <2> QED
    BY <2>2, <2>4, <2>5 DEF ArcIInv
<1>2. CASE RetryArchive
  <2>1. /\ flags' \in Flags /\ flags'.status = "Active" /\ arcPc' = "top" /\ arcItem' = 1 /\ entryAt' = 1
        /\ dropped' = {} /\ everDropped' = everDropped
    <3>1. flags.retries + 1 \in Nat
      BY <1>f
    <3>2. flags' = [Fresh EXCEPT !.retries = flags.retries + 1]
      BY <1>2 DEF RetryArchive
    <3>3. flags' \in Flags /\ flags'.status = "Active"
      BY <3>1, <3>2 DEF Fresh
    <3> QED
      BY <1>2, <3>3 DEF RetryArchive
  <2>2. ArcTypes'
    BY <1>c, <1>d, <2>1, <1>t DEF ArcTypes, ArcPlaces
  <2>3. Progress'
    BY <1>c, <2>1 DEF Progress
  <2>4. Places'
    BY <1>c, <2>1 DEF Places
  <2>5. Untouched'
    BY <1>d, <2>1, <1>t DEF Untouched
  <2> QED
    BY <2>2, <2>3, <2>4, <2>5 DEF ArcIInv
<1>3. CASE ItemSkipped
  <2>1. /\ flags' \in Flags /\ flags'.status = "Paused" /\ arcPc' = "top" /\ arcItem' = arcItem + 1 /\ entryAt' = 1
        /\ dropped' = dropped \cup {arcItem} /\ everDropped' = everDropped \cup {arcItem} /\ arcItem <= ArcItems
    BY <1>3, <1>f DEF ItemSkipped
  <2>2. ArcTypes'
    BY <1>c, <1>d, <2>1, <1>t DEF ArcTypes, ArcPlaces
  <2>3. \A i \in 1..(arcItem' - 1) : i \in dropped' \/ ItemDone(i)'
    BY <1>c, <1>k, <2>1, <1>t DEF Progress
  <2>4. Progress' /\ Places'
    BY <1>d, <2>1, <2>3, <1>t DEF Progress, Places
  <2>5. Untouched'
    BY <1>d, <2>1, <1>t DEF Untouched
  <2> QED
    BY <2>2, <2>4, <2>5 DEF ArcIInv
<1>4. CASE RecheckItem
  <2>1. /\ UNCHANGED <<flags, dropped, everDropped>> /\ arcPc = "recheck" /\ entryAt' = 1
        /\ arcPc' = (IF Halts THEN "end" ELSE "top") /\ arcItem' = (IF Halts THEN arcItem ELSE arcItem + 1)
    BY <1>4 DEF RecheckItem, ArcGoes, arcHistory
  <2>2. arcItem <= ArcItems /\ (Halts' <=> Halts)
    BY <1>c, <2>1, <1>t DEF Places, Halts
  <2>3. ArcTypes'
    BY <1>c, <1>d, <2>1, <2>2, <1>t DEF ArcTypes, ArcPlaces
  <2>4. \A i \in 1..(arcItem' - 1) : i \in dropped' \/ ItemDone(i)'
    BY <1>c, <1>k, <2>1, <1>t DEF Progress
  <2>5. flags.status # "Completed"
    BY <2>1, <1>t DEF Progress
  <2>6. Progress' /\ Places'
    BY <1>c, <1>d, <2>1, <2>2, <2>4, <2>5, <1>t DEF Progress, Places
  <2>7. Untouched'
    BY <1>c, <1>d, <2>1, <2>2, <1>t DEF Untouched
  <2> QED
    BY <2>3, <2>6, <2>7 DEF ArcIInv
<1>5. CASE EndArchive
  <2>1. /\ UNCHANGED <<arcItem, entryAt, dropped, everDropped>> /\ arcPc' = "off" /\ flags' \in Flags
        /\ arcPc = "end" \/ (arcPc = "top" /\ arcItem > ArcItems)
        /\ flags'.status = "Completed" => ~Halts
    BY <1>5, <1>f DEF EndArchive, Halts, arcPlace, arcHistory
  <2>2. ArcTypes'
    BY <1>d, <2>1, <1>t DEF ArcTypes, ArcPlaces
  <2>3. flags'.status = "Completed" => arcItem > ArcItems
    BY <2>1, <1>t DEF Progress
  <2>4. Progress' /\ Places'
    BY <1>d, <1>k, <2>1, <2>3, <1>t DEF Progress, Places
  <2>5. Untouched'
    BY <1>d, <2>1, <1>t DEF Untouched
  <2> QED
    BY <2>2, <2>4, <2>5 DEF ArcIInv
<1>6. CASE NotSkipped \/ CheckItem \/ Abandoned \/ AllAppended \/ CloseArchive \/ SetModes
  <2>1. /\ UNCHANGED <<arcItem, entryAt, dropped, everDropped>> /\ arcPc # "off"
        /\ flags' = flags \/ flags' = [flags EXCEPT !.error = TRUE]
    BY <1>6, <1>t DEF NotSkipped, CheckItem, Abandoned, AllAppended, CloseArchive, SetModes, ItemFails,
       arcPlace, arcHistory, ArcGoes
  <2>2. flags' \in Flags /\ flags'.status = flags.status /\ flags'.cancel = flags.cancel /\ (Halts => Halts')
    BY <2>1, <1>f DEF Halts
  <2>3. flags.status # "Completed"
    BY <2>1, <1>t DEF Progress
  <2>4. arcItem <= ArcItems
    BY <1>6, <1>c, <1>t DEF NotSkipped, CheckItem, Abandoned, AllAppended, CloseArchive, SetModes, ArcGoes, Places
  <2>5. /\ arcPc' \in {"check", "recheck", "end", "begin", "after", "close"}
        /\ arcPc' = "end" => Halts'
        /\ arcPc' = "close" => arcKind = "compress" /\ (flags.cancel \/ ItemDone(arcItem))
        /\ arcPc' \in {"after", "recheck"} => Halts' \/ ItemDone(arcItem)
    <3>1. CASE NotSkipped
      BY <3>1, <2>2, <1>t DEF NotSkipped, ArcGoes, Progress
    <3>2. CASE CheckItem
      BY <3>2, <2>2 DEF CheckItem, ArcGoes
    <3>3. CASE Abandoned
      BY <3>3, <2>2 DEF Abandoned, Halts
    <3>4. CASE AllAppended
      <4>1. arcPc = "member" /\ arcPc' = "close" /\ entryAt > Len(MembersOf[arcItem]) /\ arcKind = "compress"
        BY <3>4, <1>t DEF AllAppended, ArcGoes, Places
      <4>2. \A at \in DOMAIN MembersOf[arcItem] : at < entryAt
        BY <4>1, <1>c, <2>4, ArcConstants
      <4>3. flags.cancel \/ ItemDone(arcItem)
        BY <4>1, <4>2, <1>t DEF Progress, PartDone, ItemDone
      <4> QED
        BY <4>1, <4>3
    <3>5. CASE CloseArchive
      <4>1. arcPc = "close" /\ arcPc' = "after" /\ (flags' = flags \/ flags'.error)
        BY <3>5, <1>f DEF CloseArchive, ItemFails
      <4> QED
        BY <4>1, <2>2, <1>t DEF Progress, Halts
    <3>6. CASE SetModes
      <4>1. arcPc = "entry" /\ arcPc' = "after" /\ entryAt > Len(EntriesOf[arcItem]) /\ arcKind = "extract"
        BY <3>6, <1>t DEF SetModes, ItemFails, Entries, Places
      <4>2. \A at \in DOMAIN EntriesOf[arcItem] : at < entryAt
        BY <4>1, <1>c, <2>4, ArcConstants
      <4>3. root \in DOMAIN folders /\ folders[root].by = arcItem
        BY <4>1, <1>t DEF Places
      <4>4. flags.cancel \/ ItemDone(arcItem)
        BY <4>1, <4>2, <4>3, <1>t DEF Progress, PartDone, ItemDone
      <4> QED
        BY <4>1, <4>4, <2>2 DEF Halts
    <3> QED
      BY <1>6, <3>1, <3>2, <3>3, <3>4, <3>5, <3>6
  <2>6. ArcTypes'
    BY <1>d, <2>1, <2>2, <2>5, <1>t DEF ArcTypes, ArcPlaces
  <2>7. Progress'
    BY <1>k, <1>d, <2>1, <2>2, <2>3, <2>5, <1>t DEF Progress
  <2>8. Places'
    <3>1. arcPc' \in {"check", "begin"} => entryAt' = 1
      BY <1>6, <2>1, <1>t DEF NotSkipped, CheckItem, Abandoned, AllAppended, CloseArchive, SetModes, ItemFails,
         ArcGoes, Places
    <3> QED
      BY <3>1, <1>c, <1>d, <2>1, <2>4, <2>5, <1>t DEF Places
  <2>9. Untouched'
    <3>1. zip.by = "user" /\ 1 \notin everDropped => ~(arcPc' \in {"after", "recheck"} /\ ~Halts') /\ arcPc' # "close"
      <4>1. CASE NotSkipped \/ CheckItem \/ Abandoned \/ CloseArchive
        BY <4>1, <2>2, <1>t DEF NotSkipped, CheckItem, Abandoned, CloseArchive, ItemFails, ArcGoes, Untouched, Halts
      <4>2. CASE AllAppended \/ SetModes
        BY <4>2, <1>t DEF AllAppended, SetModes, ArcGoes, Untouched, Places
      <4> QED
        BY <1>6, <4>1, <4>2
    <3> QED
      BY <1>d, <2>1, <2>5, <3>1, <1>t DEF Untouched
  <2> QED
    BY <2>6, <2>7, <2>8, <2>9 DEF ArcIInv
<1> QED
  BY <1>1, <1>2, <1>3, <1>4, <1>5, <1>6

\* A step of an item: it keeps what is whole, and fails, ends with the item, or
\* goes on in it.
LEMMA ItemGoesOn ==
  ASSUME ArcIInv, ArcTypes', Keeps, arcPc \in {"begin", "member", "entry", "copy"},
         arcItem' = arcItem, dropped' = dropped, everDropped' = everDropped,
         flags' = flags \/ (flags' = [flags EXCEPT !.error = TRUE] /\ arcPc' = "after"),
         arcPc' \in {"member", "entry", "copy", "close", "after"},
         arcPc' = "after" => Halts',
         arcPc' = "close" => flags.cancel,
         arcPc' \in {"member", "entry", "copy"} => flags.cancel \/ PartDone'
  PROVE  Progress'
<1>t. ArcTypes /\ Progress
  BY DEF ArcIInv
<1>1. flags'.status = flags.status /\ flags'.cancel = flags.cancel
  BY <1>t DEF ArcTypes
<1>2. \A i \in 1..(arcItem' - 1) : i \in dropped' \/ ItemDone(i)'
  BY DoneStays, <1>t DEF Progress
<1>3. flags'.status # "Completed"
  BY <1>1, <1>t DEF Progress
<1> QED
  BY <1>1, <1>2, <1>3 DEF Progress

LEMMA KeepsOpenArchive == ArcIInv /\ OpenArchive => ArcIInv'
<1> SUFFICES ASSUME ArcIInv, OpenArchive PROVE ArcIInv'
  OBVIOUS
<1>t. ArcTypes /\ Progress /\ Places /\ Untouched
  BY DEF ArcIInv
<1>1. /\ arcPc = "begin" /\ arcKind = "compress" /\ entryAt = 1 /\ arcItem <= ArcItems /\ arcItem \in 1..ArcItems
      /\ UNCHANGED <<arcKind, arcItem, entryAt, folders, root, dropped, everDropped>>
  BY <1>t, ArcConstants DEF OpenArchive, Begins, arcPlace, arcHistory, Places, ArcTypes
<1>2. CASE ItemFails /\ UNCHANGED zip
  <2>1. arcPc' = "after" /\ flags' = [flags EXCEPT !.error = TRUE] /\ Halts' /\ ArcTypes'
    BY <1>1, <1>2, <1>t DEF ItemFails, Halts, ArcTypes, ArcPlaces
  <2>2. Keeps
    BY <1>1, <1>2, DiskRests
  <2>3. Progress'
    BY <1>1, <2>1, <2>2, ItemGoesOn
  <2>4. Places' /\ Untouched'
    BY <1>1, <1>2, <2>1, <1>t DEF Places, Untouched
  <2> QED
    BY <2>1, <2>3, <2>4 DEF ArcIInv
<1>3. CASE /\ zip.by # "none" => IsLater(arcItem)
           /\ zip' = IF zip.by = "none" THEN [by |-> "op", members |-> {}] ELSE zip
           /\ arcPc' = "member" /\ UNCHANGED flags
  <2>1. /\ zip' \in [by : {"none", "op", "user"}, members : SUBSET [item : Nat, at : Nat, whole : BOOLEAN]]
        /\ zip'.by # "none" /\ zip'.members = zip.members /\ (zip'.by = "user" => zip.by = "user")
        /\ zip.by = "user" => arcItem > 1
    BY <1>3, <1>t DEF ArcTypes, Untouched, IsLater
  <2>2. ArcTypes'
    BY <1>1, <1>3, <2>1, <1>t DEF ArcTypes, ArcPlaces
  <2>3. Keeps
    BY <1>1, <2>1 DEF Keeps, Zipped, Unpacked
  <2>4. PartDone'
    BY <1>1, ArcConstants DEF PartDone
  <2>5. Progress'
    BY <1>1, <1>3, <2>2, <2>3, <2>4, ItemGoesOn
  <2>6. Places' /\ Untouched'
    BY <1>1, <1>3, <2>1, <1>t DEF Places, Untouched
  <2> QED
    BY <2>2, <2>5, <2>6 DEF ArcIInv
<1> QED
  BY <1>2, <1>3 DEF OpenArchive

\* One more member of the archive.
LEMMA ZipGrows ==
  ASSUME NEW m, NEW gone, zip'.members = (zip.members \ gone) \cup {m},
         \A x \in gone : x.whole = FALSE, arcKind' = arcKind, folders' = folders
  PROVE  Keeps
<1>1. \A i, at : Zipped(i, at) => Zipped(i, at)'
  BY DEF Zipped
<1> QED
  BY <1>1 DEF Keeps, Unpacked

LEMMA KeepsAppendMember == ArcIInv /\ AppendMember => ArcIInv'
<1> SUFFICES ASSUME ArcIInv, AppendMember PROVE ArcIInv'
  OBVIOUS
<1>t. ArcTypes /\ Progress /\ Places /\ Untouched
  BY DEF ArcIInv
<1>1. /\ arcPc = "member" /\ arcKind = "compress" /\ arcItem \in 1..ArcItems /\ zip.by # "none"
      /\ entryAt \in DOMAIN MembersOf[arcItem] /\ entryAt \in Nat \ {0} /\ arcItem \in Nat
      /\ UNCHANGED <<arcKind, arcItem, folders, root, dropped, everDropped>>
  BY <1>t, ArcConstants DEF AppendMember, arcHistory, Places, ArcTypes
<1>u. ~(zip.by = "user" /\ 1 \notin everDropped)
  BY <1>1, <1>t DEF Untouched
<1>2. CASE UNCHANGED <<zip, entryAt>> /\ (ItemFails \/ (flags.cancel /\ arcPc' = "close" /\ UNCHANGED flags))
  <2>1. arcPc' \in {"after", "close"} /\ (arcPc' = "after" => Halts') /\ ArcTypes'
    BY <1>1, <1>2, <1>t DEF ItemFails, Halts, ArcTypes, ArcPlaces
  <2>2. Keeps
    BY <1>1, <1>2, DiskRests
  <2>3. Progress'
    BY <1>1, <1>2, <2>1, <2>2, ItemGoesOn DEF ItemFails
  <2>4. Places' /\ Untouched'
    BY <1>1, <1>2, <1>u, <2>1, ArcConstants, <1>t DEF Places, Untouched
  <2> QED
    BY <2>1, <2>3, <2>4 DEF ArcIInv
<1>3. CASE /\ LET isFile == MembersOf[arcItem][entryAt] = "file" IN
              /\ zip' = [zip EXCEPT !.members = @ \cup {MemberHere(~isFile)}]
              /\ arcPc' = IF isFile THEN "copy" ELSE "member"
              /\ entryAt' = IF isFile THEN entryAt ELSE entryAt + 1
           /\ UNCHANGED flags
  <2>1. PICK b \in BOOLEAN : b <=> MembersOf[arcItem][entryAt] = "file"
    OBVIOUS
  <2>2. PICK m : m = [item |-> arcItem, at |-> entryAt, whole |-> ~b]
    OBVIOUS
  <2>3. /\ m \in [item : Nat, at : Nat, whole : BOOLEAN]
        /\ zip' = [zip EXCEPT !.members = @ \cup {m}]
        /\ arcPc' = (IF b THEN "copy" ELSE "member") /\ entryAt' = (IF b THEN entryAt ELSE entryAt + 1)
    <3>1. ~(MembersOf[arcItem][entryAt] = "file") = ~b
      BY <2>1
    <3>2. zip' = [zip EXCEPT !.members = @ \cup {m}]
      BY <3>1, <2>2, <1>3 DEF MemberHere
    <3>3. arcPc' = (IF b THEN "copy" ELSE "member") /\ entryAt' = (IF b THEN entryAt ELSE entryAt + 1)
      BY <1>3, <2>1
    <3>4. m \in [item : Nat, at : Nat, whole : BOOLEAN]
      BY <1>1, <2>2
    <3> QED
      BY <3>2, <3>3, <3>4
  <2>4. Keeps /\ zip'.by = zip.by /\ zip'.members = zip.members \cup {m}
    <3>1. zip'.by = zip.by /\ zip'.members = zip.members \cup {m}
      BY <2>3, <1>t DEF ArcTypes
    <3>2. PICK gone : gone = {}
      OBVIOUS
    <3>3. zip'.members = (zip.members \ gone) \cup {m} /\ \A x \in gone : x.whole = FALSE
      BY <3>1, <3>2
    <3>4. arcKind' = arcKind /\ folders' = folders
      BY <1>1
    <3>5. Keeps
      BY <3>3, <3>4, ZipGrows
    <3> QED
      BY <3>1, <3>5
  <2>5. ArcTypes'
    BY <1>1, <1>3, <2>3, <2>4, <1>t DEF ArcTypes, ArcPlaces
  <2>6. flags.cancel \/ PartDone'
    <3>0. PICK i, k : i = arcItem /\ k = entryAt
      OBVIOUS
    <3>1. flags.cancel \/ \A at \in DOMAIN MembersOf[i] : at < k => Zipped(i, at)'
      BY <1>1, <2>4, <1>t, <3>0 DEF Progress, PartDone, Keeps
    <3>2. ~b => Zipped(i, k)'
      BY <2>2, <2>4, <3>0 DEF Zipped
    <3>3. \A at \in DOMAIN MembersOf[i] : at < entryAt' => at < k \/ (~b /\ at = k)
      BY <1>1, <2>3, <3>0, ArcConstants
    <3>4. flags.cancel \/ \A at \in DOMAIN MembersOf[i] : at < entryAt' => Zipped(i, at)'
      BY <3>1, <3>2, <3>3
    <3> QED
      BY <3>0, <3>4, <1>1 DEF PartDone
  <2>7. Progress'
    BY <1>1, <1>3, <2>3, <2>4, <2>5, <2>6, ItemGoesOn
  <2>8. Places' /\ Untouched'
    BY <1>1, <1>3, <1>u, <2>3, <2>4, ArcConstants, <1>t DEF Places, Untouched
  <2> QED
    BY <2>5, <2>7, <2>8 DEF ArcIInv
<1> QED
  BY <1>2, <1>3 DEF AppendMember

\* Some number of a set of numbers is the least one.
LEMMA LeastFree ==
  ASSUME NEW c \in Nat, NEW free \in SUBSET (0..c), free # {}
  PROVE  \E n \in free : \A m \in free : n <= m
<1>0. PICK S : S = 0..c
  OBVIOUS
<1>1. PICK tops : tops = {0..n : n \in free}
  OBVIOUS
<1>2. tops \subseteq FiniteSubsetsOf(S) /\ tops # {}
  <2>1. \A n \in free : 0..n \in SUBSET S
    BY <1>0
  <2>2. IsFiniteSet(0..c)
    BY FS_Interval
  <2>3. FiniteSubsetsOf(S) = SUBSET S
    BY <1>0, <2>2, FS_FiniteSubsetsOfFinite
  <2>4. tops \subseteq SUBSET S /\ tops # {}
    BY <1>1, <2>1
  <2> QED
    BY <2>3, <2>4
<1>3. PICK x \in tops : \A y \in tops : <<y, x>> \notin StrictSubsetOrdering(S)
  <2>1. IsWellFoundedOn(StrictSubsetOrdering(S), FiniteSubsetsOf(S))
    BY FS_StrictSubsetOrderingWellFounded
  <2>2. \E x \in tops : \A y \in tops : ~(<<y, x>> \in StrictSubsetOrdering(S))
    BY <1>2, <2>1, WFMin
  <2> QED
    BY <2>2
<1>4. PICK n \in free : x = 0..n
  BY <1>1
<1>5. ASSUME NEW m \in free PROVE n <= m
  <2> SUFFICES ASSUME m < n PROVE FALSE
    OBVIOUS
  <2>1. 0..m \in tops /\ 0..m \in SUBSET (0..c) /\ 0..n \in SUBSET (0..c)
    BY <1>1
  <2>2. 0..m \subseteq 0..n /\ n \in 0..n /\ n \notin 0..m
    OBVIOUS
  <2>3. <<0..m, x>> \in StrictSubsetOrdering(S)
    BY <1>0, <1>4, <2>1, <2>2 DEF StrictSubsetOrdering
  <2> QED
    BY <1>3, <2>1, <2>3
<1> QED
  BY <1>5

\* The name of the new folder is free.
LEMMA FreeIsFree ==
  ASSUME IsFiniteSet(DOMAIN folders), NEW stem
  PROVE  FreeFolder(stem) \notin DOMAIN folders
<1>1. PICK c \in Nat : c = Cardinality(DOMAIN folders)
  BY FS_CardinalityType
<1>2. PICK free : free = {n \in 0..c : <<stem, n>> \notin DOMAIN folders}
  OBVIOUS
<1>3. free # {}
  <2> SUFFICES ASSUME \A n \in 0..c : <<stem, n>> \in DOMAIN folders PROVE FALSE
    BY <1>2
  <2>1. PICK f : f = [n \in 0..c |-> <<stem, n>>]
    OBVIOUS
  <2>2. f \in [0..c -> DOMAIN folders] /\ \A m, n \in 0..c : f[m] = f[n] => m = n
    BY <2>1
  <2>3. IsFiniteSet(0..c) /\ Cardinality(0..c) = c + 1
    BY FS_Interval
  <2>4. \E m, n \in 0..c : m # n /\ f[m] = f[n]
    BY <1>1, <2>2, <2>3, FS_PigeonHole
  <2> QED
    BY <2>2, <2>4
<1>4. \E n \in free : \A m \in free : n <= m
  BY <1>2, <1>3, LeastFree
<1>5. PICK n \in free : n = CHOOSE x \in free : \A m \in free : x <= m
  BY <1>4
<1>6. FreeFolder(stem) = <<stem, n>>
  BY <1>1, <1>2, <1>5 DEF FreeFolder
<1> QED
  BY <1>2, <1>5, <1>6

LEMMA KeepsOpenExtraction == ArcIInv /\ OpenExtraction => ArcIInv'
<1> SUFFICES ASSUME ArcIInv, OpenExtraction PROVE ArcIInv'
  OBVIOUS
<1>t. ArcTypes /\ Progress /\ Places /\ Untouched
  BY DEF ArcIInv
<1>1. /\ arcPc = "begin" /\ arcKind = "extract" /\ entryAt = 1 /\ arcItem \in 1..ArcItems /\ ArcItems \in Nat
      /\ UNCHANGED <<arcKind, arcItem, entryAt, zip, dropped, everDropped>>
  BY <1>t, ArcConstants DEF OpenExtraction, Begins, arcPlace, arcHistory, Places, ArcTypes
<1>2. CASE ItemFails /\ UNCHANGED <<folders, root>>
  <2>1. arcPc' = "after" /\ flags' = [flags EXCEPT !.error = TRUE] /\ Halts' /\ ArcTypes'
    BY <1>1, <1>2, <1>t DEF ItemFails, Halts, ArcTypes, ArcPlaces
  <2>2. Keeps
    BY <1>1, <1>2, DiskRests
  <2>3. Progress'
    BY <1>1, <2>1, <2>2, ItemGoesOn
  <2>4. Places' /\ Untouched'
    BY <1>1, <1>2, <2>1, <1>t DEF Places, Untouched
  <2> QED
    BY <2>1, <2>3, <2>4 DEF ArcIInv
<1>3. CASE LET d == FreeFolder(StemOf[arcItem]) IN
           /\ folders' = [e \in DOMAIN folders \cup {d} |->
                IF e = d THEN [by |-> arcItem, files |-> {}] ELSE folders[e]]
           /\ root' = d
           /\ ItemFails \/ (arcPc' = "entry" /\ UNCHANGED flags)
  <2>1. PICK d : d = FreeFolder(StemOf[arcItem])
    OBVIOUS
  <2>2. d \notin DOMAIN folders
    BY <2>1, <1>t, FreeIsFree DEF ArcTypes
  <2>3. /\ folders' = [e \in DOMAIN folders \cup {d} |->
             IF e = d THEN [by |-> arcItem, files |-> {}] ELSE folders[e]]
        /\ root' = d
        /\ \/ arcPc' = "after" /\ flags' = [flags EXCEPT !.error = TRUE]
           \/ arcPc' = "entry" /\ flags' = flags
    BY <1>3, <2>1 DEF ItemFails
  <2>4. /\ DOMAIN folders' = DOMAIN folders \cup {d}
        /\ \A e \in DOMAIN folders : folders'[e] = folders[e]
        /\ folders'[d] = [by |-> arcItem, files |-> {}]
    BY <2>2, <2>3
  <2>5. Keeps
    BY <1>1, <2>4 DEF Keeps, Zipped, Unpacked
  <2>6. ArcTypes'
    <3>1. IsFiniteSet(DOMAIN folders')
      BY <2>4, <1>t, FS_AddElement DEF ArcTypes
    <3>2. folders' \in [DOMAIN folders' -> [by : 0..ArcItems, files : SUBSET Files]]
      <4>1. [by |-> arcItem, files |-> {}] \in [by : 0..ArcItems, files : SUBSET Files]
        BY <1>1
      <4>2. \A e \in DOMAIN folders : folders[e] \in [by : 0..ArcItems, files : SUBSET Files]
        BY <1>t DEF ArcTypes
      <4> QED
        BY <2>3, <2>4, <4>1, <4>2
    <3>3. UserFolders \subseteq DOMAIN folders'
      BY <2>4, <1>t DEF ArcTypes
    <3> QED
      BY <1>1, <2>3, <3>1, <3>2, <3>3, <1>t DEF ArcTypes, ArcPlaces
  <2>7. PartDone'
    BY <1>1, ArcConstants DEF PartDone
  <2>8. Progress'
    <3>1. arcPc' = "after" => Halts'
      BY <2>3, <1>t DEF Halts, ArcTypes
    <3> QED
      BY <1>1, <2>3, <2>5, <2>6, <2>7, <3>1, ItemGoesOn
  <2>9. Places'
    <3>1. root' \in DOMAIN folders' \ UserFolders /\ folders'[root'].by = arcItem
      BY <2>2, <2>3, <2>4, <1>t DEF ArcTypes
    <3> QED
      BY <1>1, <2>3, <3>1, <1>t DEF Places
  <2>10. Untouched'
    <3>1. \A e \in UserFolders : folders'[e] = folders[e]
      BY <2>4, <1>t DEF ArcTypes
    <3> QED
      BY <1>1, <2>3, <3>1, <1>t DEF Untouched
  <2> QED
    BY <2>6, <2>8, <2>9, <2>10 DEF ArcIInv
<1> QED
  BY <1>2, <1>3 DEF OpenExtraction

\* One more file of the folder that an item is extracted into.
LEMMA FolderGrows ==
  ASSUME ArcTypes, Untouched, root \in DOMAIN folders \ UserFolders, NEW f \in Files,
         NEW gone, \A x \in gone : x.whole = FALSE,
         folders' = [folders EXCEPT ![root].files = (@ \ gone) \cup {f}],
         arcKind' = arcKind, zip' = zip, dropped' = dropped, everDropped' = everDropped
  PROVE  /\ Keeps /\ DOMAIN folders' = DOMAIN folders
         /\ folders'[root].by = folders[root].by /\ f \in folders'[root].files
         /\ folders' \in [DOMAIN folders -> [by : 0..ArcItems, files : SUBSET Files]]
         /\ \A d \in UserFolders : folders'[d] = folders[d]
<1>1. PICK old : old = folders[root]
  OBVIOUS
<1>2. PICK new : new = [old EXCEPT !.files = (@ \ gone) \cup {f}]
  OBVIOUS
<1>3. old \in [by : 0..ArcItems, files : SUBSET Files]
  BY <1>1 DEF ArcTypes
<1>4. /\ new \in [by : 0..ArcItems, files : SUBSET Files] /\ new.by = old.by
      /\ new.files = (old.files \ gone) \cup {f}
  BY <1>2, <1>3
<1>5. folders' = [folders EXCEPT ![root] = new]
  BY <1>1, <1>2
<1>6. /\ DOMAIN folders' = DOMAIN folders /\ folders'[root] = new
      /\ \A d \in DOMAIN folders \ {root} : folders'[d] = folders[d]
      /\ folders' \in [DOMAIN folders -> [by : 0..ArcItems, files : SUBSET Files]]
  BY <1>4, <1>5 DEF ArcTypes
<1>7. ASSUME NEW d \in DOMAIN folders
      PROVE  folders'[d].by = folders[d].by /\ \A i, at : Unpacked(i, d, at) => Unpacked(i, d, at)'
  <2>1. CASE d = root
    BY <2>1, <1>1, <1>4, <1>6 DEF Unpacked
  <2>2. CASE d # root
    BY <2>2, <1>6 DEF Unpacked
  <2> QED
    BY <2>1, <2>2
<1>8. Keeps
  BY <1>6, <1>7 DEF Keeps, Zipped
<1>9. \A d \in UserFolders : folders'[d] = folders[d]
  BY <1>6 DEF ArcTypes
<1> QED
  BY <1>1, <1>4, <1>6, <1>8, <1>9

LEMMA KeepsExtractEntry == ArcIInv /\ ExtractEntry => ArcIInv'
<1> SUFFICES ASSUME ArcIInv, ExtractEntry PROVE ArcIInv'
  OBVIOUS
<1>t. ArcTypes /\ Progress /\ Places /\ Untouched
  BY DEF ArcIInv
<1>1. /\ arcPc = "entry" /\ arcKind = "extract" /\ arcItem \in 1..ArcItems
      /\ entryAt \in DOMAIN EntriesOf[arcItem] /\ entryAt \in Nat \ {0}
      /\ root \in DOMAIN folders \ UserFolders /\ folders[root].by = arcItem
      /\ UNCHANGED <<arcKind, arcItem, zip, root, dropped, everDropped>>
  BY <1>t, ArcConstants DEF ExtractEntry, Entries, arcHistory, Places, ArcTypes
<1>2. CASE UNCHANGED <<folders, entryAt>> /\ (ItemFails \/ (flags.cancel /\ arcPc' = "after" /\ UNCHANGED flags))
  <2>1. arcPc' = "after" /\ Halts' /\ ArcTypes'
    BY <1>1, <1>2, <1>t DEF ItemFails, Halts, ArcTypes, ArcPlaces
  <2>2. Keeps
    BY <1>1, <1>2, DiskRests
  <2>3. Progress'
    BY <1>1, <1>2, <2>1, <2>2, ItemGoesOn DEF ItemFails
  <2>4. Places' /\ Untouched'
    BY <1>1, <1>2, <2>1, <1>t DEF Places, Untouched
  <2> QED
    BY <2>1, <2>3, <2>4 DEF ArcIInv
<1>3. CASE /\ LET isFile == Entries[entryAt].kind = "file" IN
              /\ folders' = [folders EXCEPT ![root].files = @ \cup {FileHere(~isFile)}]
              /\ arcPc' = IF isFile THEN "copy" ELSE "entry"
              /\ entryAt' = IF isFile THEN entryAt ELSE entryAt + 1
           /\ UNCHANGED flags
  <2>0. PICK i, k, r : i = arcItem /\ k = entryAt /\ r = root
    OBVIOUS
  <2>1. PICK b \in BOOLEAN : b <=> Entries[entryAt].kind = "file"
    OBVIOUS
  <2>2. PICK f : f = [path |-> OutputPath(i, k), whole |-> ~b]
    OBVIOUS
  <2>3. /\ f \in Files
        /\ folders' = [folders EXCEPT ![root].files = (@ \ {}) \cup {f}]
        /\ arcPc' = (IF b THEN "copy" ELSE "entry") /\ entryAt' = (IF b THEN entryAt ELSE entryAt + 1)
    <3>1. ~(Entries[entryAt].kind = "file") = ~b
      BY <2>1
    <3>2. folders' = [folders EXCEPT ![root].files = @ \cup {f}]
      BY <3>1, <2>0, <2>2, <1>3 DEF FileHere
    <3>3. folders' = [folders EXCEPT ![root].files = (@ \ {}) \cup {f}]
      BY <3>2
    <3>4. arcPc' = (IF b THEN "copy" ELSE "entry") /\ entryAt' = (IF b THEN entryAt ELSE entryAt + 1)
      BY <1>3, <2>1
    <3>5. OutputPath(i, k) \in Outputs
      BY <1>1, <2>0 DEF Outputs
    <3>6. f \in Files
      BY <2>2, <3>5 DEF Files
    <3> QED
      BY <3>3, <3>4, <3>6
  <2>4. /\ Keeps /\ DOMAIN folders' = DOMAIN folders
        /\ folders'[root].by = folders[root].by /\ f \in folders'[root].files
        /\ folders' \in [DOMAIN folders -> [by : 0..ArcItems, files : SUBSET Files]]
        /\ \A d \in UserFolders : folders'[d] = folders[d]
    <3>1. PICK gone : gone = {}
      OBVIOUS
    <3>2. folders' = [folders EXCEPT ![root].files = (@ \ gone) \cup {f}] /\ \A x \in gone : x.whole = FALSE
      BY <2>3, <3>1
    <3>3. arcKind' = arcKind /\ zip' = zip /\ dropped' = dropped /\ everDropped' = everDropped
      BY <1>1
    <3> QED
      BY <1>1, <1>t, <2>3, <3>2, <3>3, FolderGrows
  <2>5. ArcTypes'
    BY <1>1, <1>3, <2>3, <2>4, <1>t DEF ArcTypes, ArcPlaces
  <2>6. flags.cancel \/ PartDone'
    <3>1. flags.cancel \/ \A at \in DOMAIN EntriesOf[i] : at < k => Unpacked(i, r, at)'
      BY <1>1, <2>0, <2>4, <1>t DEF Progress, PartDone, Keeps
    <3>2. ~b => Unpacked(i, r, k)'
      BY <2>0, <2>2, <2>4 DEF Unpacked
    <3>3. \A at \in DOMAIN EntriesOf[i] : at < entryAt' => at < k \/ (~b /\ at = k)
      BY <1>1, <2>0, <2>3, ArcConstants
    <3>4. flags.cancel \/ \A at \in DOMAIN EntriesOf[i] : at < entryAt' => Unpacked(i, r, at)'
      BY <3>1, <3>2, <3>3
    <3> QED
      BY <2>0, <3>4, <1>1 DEF PartDone
  <2>7. Progress'
    BY <1>1, <1>3, <2>3, <2>4, <2>5, <2>6, ItemGoesOn
  <2>8. Places'
    BY <1>1, <1>3, <2>3, <2>4, ArcConstants, <1>t DEF Places
  <2>9. Untouched'
    BY <1>1, <1>3, <2>3, <2>4, <1>t DEF Untouched
  <2> QED
    BY <2>5, <2>7, <2>8, <2>9 DEF ArcIInv
<1> QED
  BY <1>2, <1>3 DEF ExtractEntry

LEMMA KeepsCopyMember == ArcIInv /\ CopyMember => ArcIInv'
<1> SUFFICES ASSUME ArcIInv, CopyMember PROVE ArcIInv'
  OBVIOUS
<1>t. ArcTypes /\ Progress /\ Places /\ Untouched
  BY DEF ArcIInv
<1>0. PICK i, k, r : i = arcItem /\ k = entryAt /\ r = root
  OBVIOUS
<1>1. /\ arcPc = "copy" /\ i \in 1..ArcItems /\ k \in Nat \ {0}
      /\ k \in IF arcKind = "compress" THEN DOMAIN MembersOf[i] ELSE DOMAIN EntriesOf[i]
      /\ arcKind = "extract" => r \in DOMAIN folders \ UserFolders /\ folders[r].by = i
      /\ arcKind = "compress" => zip.by # "none" /\ ~(zip.by = "user" /\ 1 \notin everDropped)
      /\ UNCHANGED <<arcKind, arcItem, root, dropped, everDropped>>
  BY <1>0, <1>t, ArcConstants DEF CopyMember, arcHistory, Places, ArcTypes, Untouched
<1>2. CASE ItemFails /\ UNCHANGED <<zip, folders, entryAt>>
  <2>1. arcPc' = "after" /\ Halts' /\ ArcTypes'
    BY <1>1, <1>2, <1>t DEF ItemFails, Halts, ArcTypes, ArcPlaces
  <2>2. Keeps
    BY <1>1, <1>2, DiskRests
  <2>3. Progress'
    BY <1>1, <1>2, <2>1, <2>2, ItemGoesOn DEF ItemFails
  <2>4. Places' /\ Untouched'
    BY <1>1, <1>2, <2>1, <1>t DEF Places, Untouched
  <2> QED
    BY <2>1, <2>3, <2>4 DEF ArcIInv
<1>3. CASE /\ flags.cancel /\ UNCHANGED <<flags, zip, folders>>
           /\ arcPc' = IF arcKind = "compress" THEN "member" ELSE "entry"
           /\ entryAt' = entryAt + 1
  <2>1. ArcTypes'
    BY <1>1, <1>3, <1>t DEF ArcTypes, ArcPlaces
  <2>2. Keeps
    BY <1>1, <1>3, DiskRests
  <2>3. Progress'
    BY <1>1, <1>3, <2>1, <2>2, ItemGoesOn
  <2>4. Places' /\ Untouched'
    BY <1>0, <1>1, <1>3, <1>t DEF Places, Untouched, ArcTypes
  <2> QED
    BY <2>1, <2>3, <2>4 DEF ArcIInv
<1>4. CASE /\ ~flags.cancel /\ UNCHANGED <<flags, folders>> /\ entryAt' = entryAt + 1 /\ arcKind = "compress"
           /\ zip' = [zip EXCEPT !.members = (@ \ {MemberHere(FALSE)}) \cup {MemberHere(TRUE)}]
           /\ arcPc' = "member"
  <2>1. PICK m, n : m = [item |-> i, at |-> k, whole |-> TRUE] /\ n = [item |-> i, at |-> k, whole |-> FALSE]
    OBVIOUS
  <2>2. /\ zip'.by = zip.by /\ zip'.members = (zip.members \ {n}) \cup {m}
        /\ zip' \in [by : {"none", "op", "user"}, members : SUBSET [item : Nat, at : Nat, whole : BOOLEAN]]
    <3>1. MemberHere(TRUE) = m /\ MemberHere(FALSE) = n
      BY <1>0, <2>1 DEF MemberHere
    <3>2. zip' = [zip EXCEPT !.members = (@ \ {n}) \cup {m}]
      BY <1>4, <3>1
    <3>3. m \in [item : Nat, at : Nat, whole : BOOLEAN]
      BY <2>1, <1>1, ArcConstants
    <3> QED
      BY <3>2, <3>3, <1>t DEF ArcTypes
  <2>3. Keeps
    <3>1. PICK gone : gone = {n}
      OBVIOUS
    <3>2. zip'.members = (zip.members \ gone) \cup {m} /\ \A x \in gone : x.whole = FALSE
      BY <2>1, <2>2, <3>1
    <3>3. arcKind' = arcKind /\ folders' = folders
      BY <1>1, <1>4
    <3> QED
      BY <3>2, <3>3, ZipGrows
  <2>4. ArcTypes'
    <3>1. entryAt' \in Nat \ {0}
      BY <1>0, <1>1, <1>4
    <3> QED
      BY <1>1, <1>4, <2>2, <3>1, <1>t DEF ArcTypes, ArcPlaces
  <2>5. PartDone'
    <3>1. \A at \in DOMAIN MembersOf[i] : at < k => Zipped(i, at)'
      BY <1>0, <1>1, <1>4, <2>3, <1>t DEF Progress, PartDone, Keeps
    <3>2. Zipped(i, k)'
      BY <2>1, <2>2 DEF Zipped
    <3>3. \A at \in DOMAIN MembersOf[i] : at < entryAt' => at < k \/ at = k
      BY <1>0, <1>1, <1>4, ArcConstants
    <3>4. \A at \in DOMAIN MembersOf[i] : at < entryAt' => Zipped(i, at)'
      BY <3>1, <3>2, <3>3
    <3> QED
      BY <1>0, <3>4, <1>1, <1>4 DEF PartDone
  <2>6. Progress'
    BY <1>1, <1>4, <2>3, <2>4, <2>5, ItemGoesOn
  <2>7. Places' /\ Untouched'
    BY <1>0, <1>1, <1>4, <2>2, <1>t DEF Places, Untouched, ArcTypes
  <2> QED
    BY <2>4, <2>6, <2>7 DEF ArcIInv
<1>5. CASE /\ ~flags.cancel /\ UNCHANGED <<flags, zip>> /\ entryAt' = entryAt + 1 /\ arcKind = "extract"
           /\ folders' = [folders EXCEPT ![root].files = (@ \ {FileHere(FALSE)}) \cup {FileHere(TRUE)}]
           /\ arcPc' = "entry"
  <2>1. PICK f, g : f = [path |-> OutputPath(i, k), whole |-> TRUE] /\ g = [path |-> OutputPath(i, k), whole |-> FALSE]
    OBVIOUS
  <2>2. f \in Files
    <3>1. OutputPath(i, k) \in Outputs
      BY <1>1, <1>5 DEF Outputs
    <3> QED
      BY <2>1, <3>1 DEF Files
  <2>3. /\ Keeps /\ DOMAIN folders' = DOMAIN folders
        /\ folders'[root].by = folders[root].by /\ f \in folders'[root].files
        /\ folders' \in [DOMAIN folders -> [by : 0..ArcItems, files : SUBSET Files]]
        /\ \A d \in UserFolders : folders'[d] = folders[d]
    <3>1. PICK gone : gone = {g}
      OBVIOUS
    <3>2. FileHere(TRUE) = f /\ FileHere(FALSE) = g
      BY <1>0, <2>1 DEF FileHere
    <3>3. folders' = [folders EXCEPT ![root].files = (@ \ gone) \cup {f}] /\ \A x \in gone : x.whole = FALSE
      <4>1. folders' = [folders EXCEPT ![root].files = (@ \ {g}) \cup {f}]
        BY <1>5, <3>2
      <4>2. g.whole = FALSE
        BY <2>1
      <4> QED
        BY <3>1, <4>1, <4>2
    <3>4. arcKind' = arcKind /\ zip' = zip /\ dropped' = dropped /\ everDropped' = everDropped
      BY <1>1, <1>5
    <3>5. root \in DOMAIN folders \ UserFolders
      BY <1>0, <1>1, <1>5
    <3> QED
      BY <1>t, <2>2, <3>3, <3>4, <3>5, FolderGrows
  <2>4. ArcTypes'
    <3>1. entryAt' \in Nat \ {0}
      BY <1>0, <1>1, <1>5
    <3> QED
      BY <1>1, <1>5, <2>3, <3>1, <1>t DEF ArcTypes, ArcPlaces
  <2>5. PartDone'
    <3>1. \A at \in DOMAIN EntriesOf[i] : at < k => Unpacked(i, r, at)'
      BY <1>0, <1>1, <1>5, <2>3, <1>t DEF Progress, PartDone, Keeps
    <3>2. Unpacked(i, r, k)'
      BY <1>0, <1>1, <2>1, <2>3 DEF Unpacked
    <3>3. \A at \in DOMAIN EntriesOf[i] : at < entryAt' => at < k \/ at = k
      BY <1>0, <1>1, <1>5, ArcConstants
    <3>4. \A at \in DOMAIN EntriesOf[i] : at < entryAt' => Unpacked(i, r, at)'
      BY <3>1, <3>2, <3>3
    <3> QED
      BY <1>0, <3>4, <1>1, <1>5 DEF PartDone
  <2>6. Progress'
    BY <1>1, <1>5, <2>3, <2>4, <2>5, ItemGoesOn
  <2>7. Places' /\ Untouched'
    BY <1>0, <1>1, <1>5, <2>3, <1>t DEF Places, Untouched, ArcTypes
  <2> QED
    BY <2>4, <2>6, <2>7 DEF ArcIInv
<1>6. arcKind \in {"compress", "extract"}
  BY <1>t DEF ArcTypes
<1> QED
  BY <1>2, <1>3, <1>4, <1>5, <1>6 DEF CopyMember

LEMMA ArcKeeps == ArcIInv /\ [ArcNext]_arcVars => ArcIInv'
<1> SUFFICES ASSUME ArcIInv, [ArcNext]_arcVars PROVE ArcIInv'
  OBVIOUS
<1>1. CASE UNCHANGED arcVars
  <2>1. UNCHANGED <<arcKind, flags, arcPc, arcItem, entryAt, zip, folders, root, dropped, everDropped>>
    BY <1>1 DEF arcVars
  <2>2. (\A i : ItemDone(i)' <=> ItemDone(i)) /\ (PartDone' <=> PartDone)
    BY <2>1, DiskRests
  <2>3. ArcTypes'
    BY <2>1 DEF ArcIInv, ArcTypes
  <2>4. Progress'
    BY <2>1, <2>2 DEF ArcIInv, Progress, Halts
  <2>5. Places' /\ Untouched'
    BY <2>1 DEF ArcIInv, Places, Untouched, Halts
  <2> QED
    BY <2>3, <2>4, <2>5 DEF ArcIInv
<1>2. CASE ArcNext
  BY <1>2, KeepsControl, KeepsOpenArchive, KeepsAppendMember, KeepsOpenExtraction, KeepsExtractEntry,
     KeepsCopyMember DEF ArcNext
<1> QED
  BY <1>1, <1>2

-----------------------------------------------------------------------------
(* The scan for a redundant top folder.                                    *)

ArchiveEntries == [name : Seq(Names) \ {<<>>}, kind : {"file", "dir", "link"}]
ScanStates == [name : Names \cup {"none"}, nested : BOOLEAN, out : BOOLEAN]
TopName(e) == Head(e.name)
Nested(e) == Len(e.name) > 1
Stray(e) == ~Nested(e) /\ e.kind # "dir"

\* What the scan knows when it has seen the entries at s.
ScanSays(entries, s, w) ==
  /\ w.out => (\E k \in s : Stray(entries[k])) \/ \E k, l \in s : TopName(entries[k]) # TopName(entries[l])
  /\ ~w.out => \A k \in s : TopName(entries[k]) = w.name /\ ~Stray(entries[k])
  /\ ~w.out => (w.nested <=> \E k \in s : Nested(entries[k]))
  /\ w.name # "none" => \E k \in s : TopName(entries[k]) = w.name

LEMMA LookType ==
  ASSUME NEW w \in ScanStates, NEW e \in ArchiveEntries
  PROVE  LookAt(w, e) \in ScanStates /\ TopName(e) \in Names
<1>1. e.name \in Seq(Names) /\ e.name # <<>>
  BY DEF ArchiveEntries
<1>2. Head(e.name) \in Names
  BY <1>1, HeadTailProperties
<1> QED
  BY <1>2 DEF LookAt, ScanStates, TopName

LEMMA LookScans ==
  ASSUME NEW entries, NEW s, NEW x, NEW w \in ScanStates, ScanSays(entries, s \ {x}, w), x \in s,
         \A k \in s : entries[k] \in ArchiveEntries
  PROVE  ScanSays(entries, s, LookAt(w, entries[x]))
<1>1. PICK e : e = entries[x]
  OBVIOUS
<1>2. \A k \in s : TopName(entries[k]) # "none"
  <2> SUFFICES ASSUME NEW k \in s PROVE TopName(entries[k]) # "none"
    OBVIOUS
  <2>1. entries[k] \in ArchiveEntries /\ w \in ScanStates
    OBVIOUS
  <2>2. TopName(entries[k]) \in Names
    BY <2>1, LookType
  <2> QED
    BY <2>2, ArchiveAssumption DEF ArchiveAssumption
<1>3. CASE w.out \/ (w.name # "none" /\ w.name # TopName(e)) \/ Stray(e)
  <2>1. PICK v : v = LookAt(w, e)
    OBVIOUS
  <2>2. v = [w EXCEPT !.out = TRUE]
    BY <1>3, <2>1 DEF LookAt, TopName, Stray, Nested
  <2>3. v.out = TRUE /\ v.name = w.name
    BY <2>2 DEF ScanStates
  <2>4. (\E k \in s : Stray(entries[k])) \/ \E k, l \in s : TopName(entries[k]) # TopName(entries[l])
    <3>1. CASE w.out
      BY <3>1 DEF ScanSays
    <3>2. CASE w.name # "none" /\ w.name # TopName(e)
      <4>1. PICK k \in s \ {x} : TopName(entries[k]) = w.name
        BY <3>2 DEF ScanSays
      <4> QED
        BY <1>1, <3>2, <4>1
    <3>3. CASE Stray(e)
      BY <1>1, <3>3
    <3> QED
      BY <1>3, <3>1, <3>2, <3>3
  <2>5. v.name # "none" => \E k \in s : TopName(entries[k]) = v.name
    BY <2>3 DEF ScanSays
  <2> QED
    BY <1>1, <2>1, <2>3, <2>4, <2>5 DEF ScanSays
<1>4. CASE ~(w.out \/ (w.name # "none" /\ w.name # TopName(e)) \/ Stray(e))
  <2>1. PICK v : v = LookAt(w, e)
    OBVIOUS
  <2>2. v = [name |-> TopName(e), nested |-> w.nested \/ Nested(e), out |-> FALSE]
    BY <1>4, <2>1 DEF LookAt, TopName, Stray, Nested
  <2>3. ~v.out /\ v.name = TopName(e) /\ (v.nested <=> w.nested \/ Nested(e))
    BY <2>2
  <2>4. \A k \in s \ {x} : TopName(entries[k]) = w.name /\ ~Stray(entries[k])
    BY <1>4 DEF ScanSays
  <2>5. \A k \in s \ {x} : TopName(entries[k]) = TopName(e)
    BY <1>2, <1>4, <2>4
  <2>6. \A k \in s : TopName(entries[k]) = v.name /\ ~Stray(entries[k])
    BY <1>1, <1>4, <2>3, <2>4, <2>5
  <2>7. w.nested <=> \E k \in s \ {x} : Nested(entries[k])
    BY <1>4 DEF ScanSays
  <2>8. v.nested <=> \E k \in s : Nested(entries[k])
    BY <1>1, <2>3, <2>7
  <2> QED
    BY <1>1, <2>1, <2>3, <2>6, <2>8 DEF ScanSays
<1> QED
  BY <1>3, <1>4

\* The scan as a fold: what it knows at the end, it knows of all entries.
LEMMA WrapperScans ==
  ASSUME NEW entries \in Seq(ArchiveEntries), NEW stem
  PROVE  \E w \in ScanStates :
           /\ ScanSays(entries, DOMAIN entries, w)
           /\ Wrapper(entries, stem) =
                IF ~w.out /\ w.nested /\ Lower[w.name] = Lower[stem] THEN w.name ELSE "none"
<1>0. PICK K : K = DOMAIN entries /\ IsFiniteSet(K) /\ K \subseteq Nat
               /\ \A k \in K : entries[k] \in ArchiveEntries
  <2>1. DOMAIN entries = 1..Len(entries) /\ Len(entries) \in Nat
    OBVIOUS
  <2>2. IsFiniteSet(1..Len(entries))
    BY <2>1, FS_Interval
  <2> QED
    BY <2>1, <2>2
<1>k. PICK n \in Nat : K = 1..n
  BY <1>0
<1>b. PICK base : base = [name |-> "none", nested |-> FALSE, out |-> FALSE]
  OBVIOUS
<1>t. base \in ScanStates
  BY <1>b DEF ScanStates
<1> DEFINE ch == [s \in SUBSET K |-> Max(s)]
           next == [p \in K \X ScanStates |-> LookAt(p[2], entries[p[1]])]
           F(g) == [s \in SUBSET K |-> IF s = {} THEN base ELSE LookAt(g[s \ {Max(s)}], entries[Max(s)])]
<1>1. \A s \in (SUBSET K) \ {{}} : ch[s] \in s
  BY <1>k, <1>0, GreatestIn
<1>2. \A x \in K : \A v \in ScanStates : LookAt(v, entries[x]) \in ScanStates
  BY <1>0, LookType
<1>3. next \in [K \X ScanStates -> ScanStates]
  BY <1>2
<1>4. \E g \in [SUBSET K -> ScanStates] : FoldedFrom(g, base, next, ch, K)
  <2> HIDE DEF next, ch
  <2> QED
    BY <1>0, <1>t, <1>1, <1>3, FoldExists
<1>5. PICK g \in [SUBSET K -> ScanStates] : FoldedFrom(g, base, next, ch, K)
  BY <1>4
<1>6. g = F(g)
  <2>1. ASSUME NEW s \in SUBSET K PROVE g[s] = F(g)[s]
    <3>1. g[s] = IF s = {} THEN base ELSE next[<<ch[s], g[s \ {ch[s]}]>>]
      BY <1>5 DEF FoldedFrom
    <3>2. CASE s = {}
      BY <3>1, <3>2
    <3>3. CASE s # {}
      <4>1. PICK x, v : x = ch[s] /\ v = g[s \ {ch[s]}]
        OBVIOUS
      <4>2. x \in K /\ v \in ScanStates
        <5> HIDE DEF ch
        <5> QED
          BY <1>1, <1>5, <3>3, <4>1
      <4>3. next[<<x, v>>] = LookAt(v, entries[x])
        BY <4>2
      <4>4. x = Max(s)
        BY <4>1
      <4>5. F(g)[s] = LookAt(v, entries[x])
        BY <3>3, <4>1, <4>4
      <4> QED
        BY <3>1, <3>3, <4>1, <4>3, <4>5
    <3> QED
      BY <3>2, <3>3
  <2> QED
    BY <1>5, <2>1
<1>7. PICK h : h = CHOOSE i : i = F(i)
  OBVIOUS
<1>8. PICK w : w = h[K]
  OBVIOUS
<1>9. Wrapper(entries, stem) =
        IF ~w.out /\ w.nested /\ Lower[w.name] = Lower[stem] THEN w.name ELSE "none"
  BY <1>0, <1>b, <1>7, <1>8 DEF Wrapper, FoldLeft, MapThenFoldSet
<1>10. h = F(h)
  <2> HIDE DEF F
  <2> QED
    BY <1>6, <1>7
<1> HIDE DEF F, ch, next
<1>11. PICK R : R = {p \in (SUBSET K) \X ScanStates : ScanSays(entries, p[1], p[2])}
  OBVIOUS
<1>12. <<{}, h[{}]>> \in R
  <2>1. h[{}] = base
    BY <1>10 DEF F
  <2>2. ScanSays(entries, {}, base)
    BY <1>b DEF ScanSays
  <2> QED
    BY <1>t, <1>11, <2>1, <2>2
<1>13. ASSUME NEW s \in (SUBSET K) \ {{}}
       PROVE  \E x \in s : <<s \ {x}, h[s \ {x}]>> \in R => <<s, h[s]>> \in R
  <2>1. PICK x \in s : x = Max(s)
    BY <1>1 DEF ch
  <2>2. PICK v : v = h[s \ {x}]
    OBVIOUS
  <2>3. h[s] = LookAt(v, entries[x])
    BY <1>10, <2>1, <2>2 DEF F
  <2>4. ASSUME <<s \ {x}, v>> \in R PROVE <<s, h[s]>> \in R
    <3>1. v \in ScanStates /\ ScanSays(entries, s \ {x}, v)
      BY <1>11, <2>4
    <3>2. ScanSays(entries, s, LookAt(v, entries[x]))
      BY <1>0, <3>1, LookScans
    <3>3. LookAt(v, entries[x]) \in ScanStates
      BY <1>2, <3>1
    <3> QED
      BY <1>11, <2>3, <3>2, <3>3
  <2> QED
    BY <2>2, <2>4
<1>14. <<K, h[K]>> \in R
  BY <1>0, <1>12, <1>13, FoldKeeps
<1> QED
  BY <1>0, <1>8, <1>9, <1>11, <1>14

\* The scan for a redundant top folder agrees with what it is for, whatever the
\* archive (ops/mod.rs detect_redundant_wrapper_root).
THEOREM WrapperExact ==
  ASSUME NEW i \in 1..ArcItems
  PROVE  WrapperIsTop(EntriesOf[i], StemOf[i])
<1>1. PICK entries, stem : entries = EntriesOf[i] /\ stem = StemOf[i] /\ entries \in Seq(ArchiveEntries)
  BY ArchiveAssumption DEF ArchiveAssumption, ArchiveEntries
<1>2. PICK at : at = DOMAIN entries
  OBVIOUS
<1>3. PICK top : top = {Head(entries[k].name) : k \in at}
  OBVIOUS
<1>4. PICK w \in ScanStates :
        /\ ScanSays(entries, at, w)
        /\ Wrapper(entries, stem) =
             IF ~w.out /\ w.nested /\ Lower[w.name] = Lower[stem] THEN w.name ELSE "none"
  BY <1>1, <1>2, WrapperScans
<1>5. IsFiniteSet(top)
  <2>1. at = 1..Len(entries) /\ Len(entries) \in Nat
    BY <1>1, <1>2
  <2>2. IsFiniteSet(at)
    BY <2>1, FS_Interval
  <2>3. PICK f : f = [k \in at |-> Head(entries[k].name)]
    OBVIOUS
  <2>4. f \in Surjection(at, top)
    BY <1>3, <2>3 DEF Surjection
  <2> QED
    BY <2>2, <2>4, FS_Surjection
<1>6. \A k \in at : TopName(entries[k]) \in Names /\ TopName(entries[k]) # "none"
  <2> SUFFICES ASSUME NEW k \in at PROVE TopName(entries[k]) \in Names
    BY ArchiveAssumption DEF ArchiveAssumption
  <2>1. entries[k] \in ArchiveEntries
    BY <1>1, <1>2
  <2> QED
    BY <1>4, <2>1, LookType
<1> DEFINE below == \A k \in at : Len(entries[k].name) > 1 \/ entries[k].kind = "dir"
           some == \E k \in at : Len(entries[k].name) > 1
           like == \A n \in top : Lower[n] = Lower[stem]
<1>7. ASSUME Wrapper(entries, stem) # "none"
      PROVE  below /\ some /\ Cardinality(top) = 1 /\ like
  <2>1. ~w.out /\ w.nested /\ Lower[w.name] = Lower[stem]
    BY <1>4, <1>7
  <2>2. below /\ some
    BY <1>4, <2>1 DEF ScanSays, Stray, Nested
  <2>3. \A k \in at : Head(entries[k].name) = w.name
    BY <1>4, <2>1 DEF ScanSays, TopName
  <2>4. top = {w.name}
    BY <1>3, <2>2, <2>3
  <2>5. Cardinality(top) = 1
    BY <2>4, FS_Singleton
  <2> QED
    BY <2>1, <2>2, <2>4, <2>5
<1>8. ASSUME below, some, Cardinality(top) = 1, like
      PROVE  Wrapper(entries, stem) # "none"
  <2>1. PICK n : top = {n}
    BY <1>5, <1>8, FS_Singleton
  <2>2. \A k \in at : TopName(entries[k]) = n /\ ~Stray(entries[k])
    BY <1>3, <1>8, <2>1 DEF TopName, Stray, Nested
  <2>3. ~w.out
    BY <1>4, <2>2 DEF ScanSays
  <2>4. w.nested
    BY <1>4, <1>8, <2>3 DEF ScanSays, Nested
  <2>5. PICK k \in at : TopName(entries[k]) = w.name
    BY <1>4, <1>8, <2>3 DEF ScanSays
  <2>6. w.name = n /\ w.name # "none"
    BY <1>6, <2>2, <2>5
  <2>7. Lower[w.name] = Lower[stem]
    BY <1>8, <2>1, <2>6
  <2> QED
    BY <1>4, <2>3, <2>4, <2>6, <2>7
<1>9. (Wrapper(entries, stem) # "none") = (below /\ some /\ Cardinality(top) = 1 /\ like)
  BY <1>7, <1>8
<1> QED
  BY <1>1, <1>2, <1>3, <1>9 DEF WrapperIsTop

-----------------------------------------------------------------------------
\* No two entries of an archive have the same name.
DistinctNames ==
  \A i \in 1..ArcItems : \A at, other \in DOMAIN EntriesOf[i] :
    EntriesOf[i][at].name = EntriesOf[i][other].name => at = other

\* What is stripped from the names of an archive leaves them apart.
LEMMA OutputsApart ==
  ASSUME DistinctNames, NEW i \in 1..ArcItems, NEW at \in DOMAIN EntriesOf[i],
         NEW other \in DOMAIN EntriesOf[i], OutputPath(i, at) = OutputPath(i, other)
  PROVE  at = other
<1>1. PICK a, b, x : a = EntriesOf[i][at].name /\ b = EntriesOf[i][other].name /\ x = Wrapper(EntriesOf[i], StemOf[i])
  OBVIOUS
<1>2. a \in Seq(Names) /\ a # <<>> /\ b \in Seq(Names) /\ b # <<>>
  <2>1. EntriesOf[i] \in Seq([name : Seq(Names) \ {<<>>}, kind : {"file", "dir", "link"}])
    BY ArchiveAssumption DEF ArchiveAssumption
  <2>2. \A k \in 1..Len(EntriesOf[i]) : EntriesOf[i][k] \in [name : Seq(Names) \ {<<>>}, kind : {"file", "dir", "link"}]
    BY <2>1, ElementOfSeq
  <2>3. at \in 1..Len(EntriesOf[i]) /\ other \in 1..Len(EntriesOf[i])
    BY ArcConstants
  <2> QED
    BY <1>1, <2>2, <2>3
<1>3. StripWrapper(a, x) = StripWrapper(b, x)
  BY <1>1 DEF OutputPath
<1>4. CASE x = "none"
  BY <1>1, <1>3, <1>4 DEF StripWrapper, DistinctNames
<1>5. CASE x # "none"
  <2>1. PICK top : top = {Head(EntriesOf[i][k].name) : k \in DOMAIN EntriesOf[i]}
    OBVIOUS
  <2>2. Cardinality(top) = 1
    BY <1>1, <1>5, <2>1, WrapperExact DEF WrapperIsTop
  <2>3. Head(a) \in top /\ Head(b) \in top
    BY <1>1, <2>1
  <2>4. Head(a) = Head(b)
    <3>1. IsFiniteSet(top)
      <4>1. IsFiniteSet(DOMAIN EntriesOf[i])
        BY ArcConstants, FS_Interval
      <4>2. PICK f : f = [k \in DOMAIN EntriesOf[i] |-> Head(EntriesOf[i][k].name)]
        OBVIOUS
      <4>3. f \in Surjection(DOMAIN EntriesOf[i], top)
        BY <2>1, <4>2 DEF Surjection
      <4> QED
        BY <4>1, <4>3, FS_Surjection
    <3>2. \E y : top = {y}
      BY <2>2, <3>1, FS_Singleton
    <3> QED
      BY <2>3, <3>2
  <2>5. a = b
    <3>1. CASE Lower[Head(a)] # Lower[x]
      BY <1>3, <1>5, <2>4, <3>1 DEF StripWrapper
    <3>2. CASE Lower[Head(a)] = Lower[x]
      <4>1. Tail(a) = Tail(b)
        BY <1>3, <1>5, <2>4, <3>2 DEF StripWrapper
      <4>2. PICK u : u = Tail(a) /\ u = Tail(b)
        BY <4>1
      <4>3. /\ Len(u) = Len(a) - 1 /\ Len(u) = Len(b) - 1 /\ Len(a) \in Nat /\ Len(b) \in Nat /\ Len(u) \in Nat
            /\ \A j \in 1..Len(u) : u[j] = a[j + 1] /\ u[j] = b[j + 1]
        <5>1. /\ Len(Tail(a)) = Len(a) - 1 /\ Len(a) \in Nat /\ Len(Tail(a)) \in Nat
              /\ \A j \in 1..Len(Tail(a)) : Tail(a)[j] = a[j + 1]
          BY <1>2, HeadTailProperties, LenProperties
        <5>2. /\ Len(Tail(b)) = Len(b) - 1 /\ Len(b) \in Nat
              /\ \A j \in 1..Len(Tail(b)) : Tail(b)[j] = b[j + 1]
          BY <1>2, HeadTailProperties, LenProperties
        <5> QED
          BY <4>2, <5>1, <5>2, Zenon
      <4>4. PICK n \in Nat : /\ Len(a) = n + 1 /\ Len(b) = n + 1
                             /\ \A j \in 1..n : a[j + 1] = b[j + 1]
        <5>1. PICK n \in Nat : n = Len(u)
          BY <4>3
        <5>2. Len(a) = n + 1 /\ Len(b) = n + 1
          BY <4>3, <5>1
        <5>3. \A j \in 1..n : a[j + 1] = b[j + 1]
          BY <4>3, <5>1, Zenon
        <5> QED
          BY <5>2, <5>3
      <4>5. a[1] = b[1]
        BY <1>2, <2>4
      <4>6. ASSUME NEW j \in 1..(n + 1) PROVE a[j] = b[j]
        <5>1. CASE j = 1
          BY <4>5, <5>1
        <5>2. CASE j # 1
          <6>1. j - 1 \in 1..n /\ (j - 1) + 1 = j
            BY <5>2
          <6> QED
            BY <4>4, <6>1
        <5> QED
          BY <5>1, <5>2
      <4> QED
        BY <1>2, <4>4, <4>6, SeqEqual
    <3> QED
      BY <3>1, <3>2
  <2> QED
    BY <1>1, <2>5 DEF DistinctNames
<1> QED
  BY <1>4, <1>5

\* Whatever the user presses and whatever fails, in any run of a Compress or an
\* Extract (ops/mod.rs run_operation, compress_item_with_progress,
\* extract_item_with_progress): what is reported Completed is whole, and what
\* was there before is as it was.
THEOREM ArchiveSound ==
  ASSUME DistinctNames
  PROVE  ArcSpec => []ArchiveInv
<1>1. ArcIInv => ArchiveInv
  <2> SUFFICES ASSUME ArcIInv PROVE ArchiveInv
    OBVIOUS
  <2>t. ArcTypes /\ Progress /\ Untouched
    BY DEF ArcIInv
  <2>1. flags.status = "Completed" => \A i \in (1..ArcItems) \ dropped : ItemDone(i)
    <3>1. flags.status = "Completed" => arcItem = ArcItems + 1
      BY <2>t, ArcConstants DEF Progress, ArcTypes
    <3> QED
      BY <2>t, <3>1, ArcConstants DEF Progress
  <2>2. ArchiveIsWhole
    BY <2>1 DEF ArchiveIsWhole, ItemDone, Zipped
  <2>3. ExtractIsWhole
    <3> SUFFICES ASSUME flags.status = "Completed", arcKind = "extract", NEW i \in (1..ArcItems) \ dropped
                 PROVE  \E d \in DOMAIN folders :
                   /\ folders[d].by = i
                   /\ \A at \in DOMAIN EntriesOf[i] :
                        [path |-> OutputPath(i, at), whole |-> TRUE] \in folders[d].files
                   /\ \A at, other \in DOMAIN EntriesOf[i] :
                        OutputPath(i, at) = OutputPath(i, other) => at = other
      BY DEF ExtractIsWhole
    <3>1. PICK d \in DOMAIN folders : folders[d].by = i /\ \A at \in DOMAIN EntriesOf[i] : Unpacked(i, d, at)
      BY <2>1 DEF ItemDone
    <3>2. \A at, other \in DOMAIN EntriesOf[i] : OutputPath(i, at) = OutputPath(i, other) => at = other
      BY OutputsApart
    <3> QED
      BY <3>1, <3>2 DEF Unpacked
  <2>4. OthersUntouched
    BY <2>t DEF Untouched, OthersUntouched
  <2> QED
    BY <2>2, <2>3, <2>4 DEF ArchiveInv
<1> QED
  BY <1>1, ArcStart, ArcKeeps, PTL DEF ArcSpec

-----------------------------------------------------------------------------
(* Sums.  What a set of directories adds up to is the number of units its  *)
(* members have.                                                           *)

Units(own, S) == UNION {{e} \X (1..own[e]) : e \in S}
Total(own, S) == Cardinality(Units(own, S))

LEMMA UnitsOfOne ==
  ASSUME NEW e, NEW n \in Nat
  PROVE  IsFiniteSet({e} \X (1..n)) /\ Cardinality({e} \X (1..n)) = n
<1>1. IsFiniteSet({e}) /\ Cardinality({e}) = 1
  BY FS_Singleton
<1>2. IsFiniteSet(1..n) /\ Cardinality(1..n) = n
  BY FS_Interval
<1>3. PICK T : T = 1..n
  OBVIOUS
<1>4. IsFiniteSet({e} \X T) /\ Cardinality({e} \X T) = 1 * n
  BY <1>1, <1>2, <1>3, FS_Product, ZenonT(40)
<1> QED
  BY <1>3, <1>4

LEMMA UnitsFinite ==
  ASSUME NEW S, IsFiniteSet(S), NEW own, \A e \in S : own[e] \in Nat
  PROVE  IsFiniteSet(Units(own, S)) /\ Total(own, S) \in Nat
<1>1. PICK G : G = {s \in SUBSET S : IsFiniteSet(Units(own, s))}
  OBVIOUS
<1>2. G \subseteq SUBSET S /\ {} \in G
  <2>1. Units(own, {}) = {}
    BY DEF Units
  <2> QED
    BY <1>1, <2>1, FS_EmptySet
<1>3. ASSUME NEW s \in (SUBSET S) \ {{}} PROVE \E x \in s : s \ {x} \in G => s \in G
  <2>0. s # {}
    OBVIOUS
  <2>1. PICK x \in s : TRUE
    BY <2>0
  <2>2. Units(own, s) = Units(own, s \ {x}) \cup ({x} \X (1..own[x]))
    BY DEF Units
  <2>3. IsFiniteSet({x} \X (1..own[x]))
    BY UnitsOfOne
  <2>4. ASSUME s \ {x} \in G PROVE s \in G
    <3>1. IsFiniteSet(Units(own, s \ {x}))
      BY <1>1, <2>4
    <3>2. PICK p, q : p = Units(own, s \ {x}) /\ q = {x} \X (1..own[x])
      OBVIOUS
    <3>3. IsFiniteSet(p \cup q)
      BY <2>3, <3>1, <3>2, FS_Union
    <3> QED
      BY <1>1, <2>2, <3>2, <3>3
  <2> QED
    BY <2>1, <2>4
<1>4. G = SUBSET S
  BY <1>2, <1>3, SubsetsAll
<1> QED
  BY <1>1, <1>4, FS_CardinalityType DEF Total

LEMMA SplitTotal ==
  ASSUME NEW S, IsFiniteSet(S), NEW T, IsFiniteSet(T), S \cap T = {},
         NEW own, \A e \in S \cup T : own[e] \in Nat
  PROVE  Total(own, S \cup T) = Total(own, S) + Total(own, T)
<1>1. /\ IsFiniteSet(Units(own, S)) /\ Total(own, S) \in Nat
      /\ IsFiniteSet(Units(own, T)) /\ Total(own, T) \in Nat
  BY UnitsFinite
<1>2. Units(own, S \cup T) = Units(own, S) \cup Units(own, T)
  BY DEF Units
<1>3. Units(own, S) \cap Units(own, T) = {}
  BY DEF Units
<1>4. Cardinality(Units(own, S) \cup Units(own, T))
        = Cardinality(Units(own, S)) + Cardinality(Units(own, T))
            - Cardinality(Units(own, S) \cap Units(own, T))
  BY <1>1, FS_Union
<1> DEFINE a == Cardinality(Units(own, S))
           b == Cardinality(Units(own, T))
           c == Cardinality(Units(own, S) \cap Units(own, T))
<1>6. a \in Nat /\ b \in Nat
  BY <1>1 DEF Total
<1>5. Cardinality(Units(own, S) \cap Units(own, T)) = 0
  BY <1>3, FS_EmptySet
<1>7. Cardinality(Units(own, S) \cup Units(own, T)) = a + b - c /\ c = 0
  BY <1>4, <1>5
<1>8. a + b - c = a + b
  <2> HIDE DEF a, b, c
  <2> QED
    BY <1>6, <1>7
<1> QED
  BY <1>2, <1>7, <1>8 DEF Total

LEMMA TotalOfOne ==
  ASSUME NEW e, NEW own, own[e] \in Nat
  PROVE  Total(own, {e}) = own[e]
<1>1. Units(own, {e}) = {e} \X (1..own[e])
  BY DEF Units
<1> QED
  BY <1>1, UnitsOfOne DEF Total

LEMMA TotalOfNone == ASSUME NEW own PROVE Total(own, {}) = 0
<1>1. Units(own, {}) = {}
  BY DEF Units
<1> QED
  BY <1>1, FS_EmptySet DEF Total

LEMMA SameTotal ==
  ASSUME NEW S, NEW own, NEW other, \A e \in S : own[e] = other[e]
  PROVE  Total(own, S) = Total(other, S)
<1>1. Units(own, S) = Units(other, S)
  BY DEF Units
<1> QED
  BY <1>1 DEF Total

\* The sum of the community modules is this number.
LEMMA SumIsTotal ==
  ASSUME NEW S, IsFiniteSet(S), NEW own, \A e \in S : own[e] \in Nat
  PROVE  SumFunctionOnSet(own, S) = Total(own, S)
<1> DEFINE ch == [s \in SUBSET S |-> CHOOSE x \in s : TRUE]
           next == [p \in S \X Nat |-> own[p[1]] + p[2]]
           F(g) == [s \in SUBSET S |-> IF s = {} THEN 0
                      ELSE own[CHOOSE x \in s : TRUE] + g[s \ {CHOOSE x \in s : TRUE}]]
<1>0. \A s \in (SUBSET S) \ {{}} : ch[s] \in s
  <2> SUFFICES ASSUME NEW s \in SUBSET S, s # {} PROVE ch[s] \in s
    OBVIOUS
  <2>1. \E x \in s : TRUE
    OBVIOUS
  <2> QED
    BY <2>1
<1>1. next \in [S \X Nat -> Nat]
  <2>1. \A p \in S \X Nat : own[p[1]] + p[2] \in Nat
    <3> SUFFICES ASSUME NEW p \in S \X Nat PROVE own[p[1]] + p[2] \in Nat
      OBVIOUS
    <3>1. p[1] \in S /\ p[2] \in Nat
      OBVIOUS
    <3>2. own[p[1]] \in Nat
      BY <3>1
    <3> QED
      BY <3>1, <3>2
  <2> QED
    BY <2>1
<1>2. \E g \in [SUBSET S -> Nat] : FoldedFrom(g, 0, next, ch, S)
  <2> HIDE DEF next, ch
  <2> QED
    BY <1>0, <1>1, FoldExists
<1>3. PICK g \in [SUBSET S -> Nat] : FoldedFrom(g, 0, next, ch, S)
  BY <1>2
<1>4. ASSUME NEW s \in SUBSET S
      PROVE  g[s] = IF s = {} THEN 0
                    ELSE own[CHOOSE x \in s : TRUE] + g[s \ {CHOOSE x \in s : TRUE}]
  <2>0. g[s] = IF s = {} THEN 0 ELSE next[<<ch[s], g[s \ {ch[s]}]>>]
    BY <1>3 DEF FoldedFrom
  <2>1. CASE s = {}
    BY <2>0, <2>1
  <2>2. CASE s # {}
    <3>1. ch[s] \in S /\ s \ {ch[s]} \in SUBSET S /\ ch[s] = CHOOSE x \in s : TRUE
      BY <1>0, <2>2
    <3>2. PICK x, v : x = ch[s] /\ v = g[s \ {ch[s]}]
      OBVIOUS
    <3>3. x \in S /\ v \in Nat
      BY <1>3, <3>1, <3>2
    <3>4. next[<<x, v>>] = own[x] + v
      BY <3>3
    <3> QED
      BY <2>0, <2>2, <3>1, <3>2, <3>4
  <2> QED
    BY <2>1, <2>2
<1>5. g = F(g)
  BY <1>3, <1>4
<1>6. PICK h : h = F(h) /\ SumFunctionOnSet(own, S) = h[S]
  BY <1>5, ZenonT(40) DEF SumFunctionOnSet, FoldFunctionOnSet, MapThenFoldSet
<1>7. PICK R : R = {p \in (SUBSET S) \X Nat : p[2] = Total(own, p[1])}
  OBVIOUS
<1>a. \A s \in SUBSET S : \A v : <<s, v>> \in R <=> v \in Nat /\ v = Total(own, s)
  BY <1>7
<1>8. <<{}, h[{}]>> \in R
  <2>1. h[{}] = 0 /\ Total(own, {}) = 0
    BY <1>6, TotalOfNone
  <2> QED
    BY <1>a, <2>1
<1>9. ASSUME NEW s \in (SUBSET S) \ {{}}
      PROVE  \E x \in s : <<s \ {x}, h[s \ {x}]>> \in R => <<s, h[s]>> \in R
  <2>1. PICK x \in s : x = CHOOSE y \in s : TRUE
    BY <1>0
  <2>2. h[s] = own[x] + h[s \ {x}]
    BY <1>6, <2>1
  <2>3. ASSUME <<s \ {x}, h[s \ {x}]>> \in R PROVE <<s, h[s]>> \in R
    <3>1. h[s \ {x}] = Total(own, s \ {x}) /\ h[s \ {x}] \in Nat
      BY <1>a, <2>3
    <3>2. IsFiniteSet(s \ {x}) /\ IsFiniteSet({x}) /\ (s \ {x}) \cup {x} = s
      BY FS_Subset, FS_Singleton
    <3>3. Total(own, s) = Total(own, s \ {x}) + Total(own, {x})
      <4>1. PICK a, b : a = s \ {x} /\ b = {x}
        OBVIOUS
      <4>2. Total(own, a \cup b) = Total(own, a) + Total(own, b)
        BY <3>2, <4>1, SplitTotal
      <4> QED
        BY <3>2, <4>1, <4>2
    <3>4. own[x] \in Nat /\ Total(own, {x}) = own[x]
      BY TotalOfOne
    <3> QED
      BY <1>a, <2>2, <3>1, <3>3, <3>4
  <2> QED
    BY <2>3
<1>10. <<S, h[S]>> \in R
  <2>1. IsFiniteSet(S)
    OBVIOUS
  <2> HIDE DEF F
  <2> QED
    BY <1>8, <1>9, <2>1, FoldKeeps
<1> QED
  BY <1>6, <1>7, <1>10

-----------------------------------------------------------------------------
(* Directories are a tree.                                                 *)

LEMMA AboveType ==
  ASSUME NEW d \in Dirs
  PROVE  Above[d] \subseteq Dirs /\ d \notin Above[d] /\ (d # RootDir => RootDir \in Above[d])
BY TreeAssumption

LEMMA AboveTransitive ==
  \A d \in Dirs : \A e \in Above[d] : Above[e] \subseteq Above[d]
<1>1. PICK C : C = {Above[d] : d \in {x \in Dirs : \E e \in Above[x] : ~(Above[e] \subseteq Above[x])}}
  OBVIOUS
<1>2. SUFFICES ASSUME C # {} PROVE FALSE
  BY <1>1
<1>3. C \subseteq SUBSET Dirs
  BY <1>1, AboveType
<1>4. PICK s \in C : \A t \in C : ~(t \subseteq s /\ t # s)
  BY <1>2, <1>3, SmallestSubset, TreeAssumption
<1>5. PICK d \in Dirs : s = Above[d] /\ \E e \in Above[d] : ~(Above[e] \subseteq Above[d])
  BY <1>1
<1>6. PICK p \in Above[d] : Above[d] = Above[p] \cup {p}
  BY <1>5, TreeAssumption
<1>7. p \in Dirs /\ p \notin Above[p]
  BY <1>5, <1>6, AboveType
<1>8. Above[p] \notin C
  BY <1>4, <1>5, <1>6, <1>7
<1>9. \A e \in Above[p] : Above[e] \subseteq Above[p]
  BY <1>1, <1>7, <1>8
<1> QED
  BY <1>5, <1>6, <1>9

LEMMA AboveChain ==
  \A d \in Dirs : \A e, f \in Above[d] : e = f \/ e \in Above[f] \/ f \in Above[e]
<1> DEFINE Forked(x) == \E e, f \in Above[x] : ~(e = f \/ e \in Above[f] \/ f \in Above[e])
<1>1. PICK C : C = {Above[d] : d \in {x \in Dirs : Forked(x)}}
  OBVIOUS
<1>2. SUFFICES ASSUME C # {} PROVE FALSE
  BY <1>1
<1>3. C \subseteq SUBSET Dirs
  BY <1>1, AboveType
<1>4. PICK s \in C : \A t \in C : ~(t \subseteq s /\ t # s)
  BY <1>2, <1>3, SmallestSubset, TreeAssumption
<1>5. PICK d \in Dirs : s = Above[d] /\ Forked(d)
  BY <1>1
<1>6. PICK p \in Above[d] : Above[d] = Above[p] \cup {p}
  BY <1>5, TreeAssumption
<1>7. p \in Dirs /\ p \notin Above[p]
  BY <1>5, <1>6, AboveType
<1>8. Above[p] \notin C
  BY <1>4, <1>5, <1>6, <1>7
<1>9. ~Forked(p)
  BY <1>1, <1>7, <1>8
<1> QED
  BY <1>5, <1>6, <1>9

LEMMA ParentIsNearest ==
  ASSUME NEW d \in Dirs \ {RootDir}
  PROVE  Parent(d) \in Above[d] /\ Above[d] = Above[Parent(d)] \cup {Parent(d)} /\ Parent(d) \in Dirs
BY TreeAssumption, AboveType DEF Parent

LEMMA SubtreeInside ==
  ASSUME NEW d \in Dirs, NEW e \in Subtree(d)
  PROVE  Subtree(e) \subseteq Subtree(d) /\ e \in Dirs
BY AboveTransitive DEF Subtree

LEMMA SubtreesApart ==
  ASSUME NEW d \in Dirs, NEW e \in Dirs, d \notin Subtree(e), e \notin Subtree(d)
  PROVE  Subtree(d) \cap Subtree(e) = {}
BY AboveChain DEF Subtree

\* One directory of D owns something else: the sums of those above it change by
\* the difference.
LEMMA ChangeOne ==
  ASSUME NEW D, D \subseteq Dirs, NEW own \in [D -> Nat], NEW new \in [D -> Nat], NEW d \in D, NEW e \in D,
         \A x \in D : x # d => new[x] = own[x]
  PROVE  /\ Total(own, Subtree(e) \cap D) \in Nat
         /\ Total(new, Subtree(e) \cap D) \in Nat
         /\ Total(new, Subtree(e) \cap D) = Total(own, Subtree(e) \cap D)
              + (IF e = d \/ e \in Above[d] THEN new[d] - own[d] ELSE 0)
<1>1. PICK S : S = Subtree(e) \cap D
  OBVIOUS
<1>4. IsFiniteSet(S) /\ S \subseteq D
  BY <1>1, TreeAssumption, FS_Subset
<1>5. Total(own, S) \in Nat /\ Total(new, S) \in Nat
  BY <1>4, UnitsFinite
<1>6. d \in S <=> e = d \/ e \in Above[d]
  BY <1>1 DEF Subtree
<1>7. CASE d \notin S
  <2>1. Total(own, S) = Total(new, S)
    BY <1>4, <1>7, SameTotal
  <2> QED
    BY <1>1, <1>5, <1>6, <1>7, <2>1
<1>8. CASE d \in S
  <2>1. PICK r, o : r = S \ {d} /\ o = {d}
    OBVIOUS
  <2>2. IsFiniteSet(r) /\ IsFiniteSet(o) /\ r \cap o = {} /\ S = r \cup o /\ r \subseteq D /\ o \subseteq D
    BY <1>4, <1>8, <2>1, FS_Subset, FS_Singleton
  <2>3. Total(own, S) = Total(own, r) + Total(own, o)
    BY <2>2, SplitTotal
  <2>4. Total(new, S) = Total(new, r) + Total(new, o)
    BY <2>2, SplitTotal
  <2>5. Total(own, r) = Total(new, r) /\ Total(own, r) \in Nat
    BY <2>1, <2>2, SameTotal, UnitsFinite
  <2>6. Total(own, o) = own[d] /\ Total(new, o) = new[d]
    BY <2>1, TotalOfOne
  <2>7. own[d] \in Nat /\ new[d] \in Nat
    OBVIOUS
  <2> QED
    BY <1>1, <1>5, <1>6, <1>8, <2>3, <2>4, <2>5, <2>6, <2>7
<1> QED
  BY <1>7, <1>8

\* A subtree goes: the directories above it lose its sum.
LosesSubtree(own, D, d, e) ==
  /\ Total(own, Subtree(e) \cap (D \ Subtree(d))) \in Nat
  /\ Total(own, Subtree(e) \cap D) \in Nat /\ Total(own, Subtree(d) \cap D) \in Nat
  /\ Total(own, Subtree(e) \cap (D \ Subtree(d))) = Total(own, Subtree(e) \cap D)
       - (IF e \in Above[d] THEN Total(own, Subtree(d) \cap D) ELSE 0)

LEMMA DropSubtree ==
  ASSUME NEW D, D \subseteq Dirs, NEW own \in [D -> Nat], NEW d \in D, NEW e \in D,
         e \notin Subtree(d)
  PROVE  LosesSubtree(own, D, d, e)
<1>1. PICK S, U, R : S = Subtree(e) \cap D /\ U = Subtree(d) \cap D /\ R = Subtree(e) \cap (D \ Subtree(d))
  OBVIOUS
<1>2. IsFiniteSet(S) /\ IsFiniteSet(U) /\ IsFiniteSet(R) /\ S \subseteq D /\ U \subseteq D /\ R \subseteq D
  BY <1>1, TreeAssumption, FS_Subset
<1>3. Total(own, S) \in Nat /\ Total(own, U) \in Nat /\ Total(own, R) \in Nat
  BY <1>2, UnitsFinite
<1>4. CASE e \in Above[d]
  <2>1. d \in Subtree(e) /\ e \in Dirs
    BY <1>4 DEF Subtree
  <2>2. S = R \cup U /\ R \cap U = {}
    BY <1>1, <2>1, SubtreeInside
  <2>3. Total(own, S) = Total(own, R) + Total(own, U)
    BY <1>2, <2>2, SplitTotal
  <2> QED
    BY <1>1, <1>3, <1>4, <2>3 DEF LosesSubtree
<1>5. CASE e \notin Above[d]
  <2>1. d \notin Subtree(e) /\ d \in Dirs /\ e \in Dirs
    BY <1>5 DEF Subtree
  <2>2. S = R
    BY <1>1, <2>1, SubtreesApart
  <2> QED
    BY <1>1, <1>3, <1>5, <2>2 DEF LosesSubtree
<1> QED
  BY <1>4, <1>5

-----------------------------------------------------------------------------
(* Good trees: those a directory hangs in with all directories above it,   *)
(* and in which every aggregate is the sum over the directories below.     *)

Flags == {"scanned", "skipped", "denied"}
Nodes == [direct : Nat, flags : SUBSET Flags,
          total : Nat, pending : Nat, skipped : Nat, denied : Nat]

ClosedAbove(D) == \A d \in D : Above[d] \subseteq D
Below(T, d) == Subtree(d) \cap DOMAIN T

Sums(T) ==
  \A d \in DOMAIN T :
    /\ T[d].total = Total(OwnBytes(T), Below(T, d))
    /\ T[d].pending = Total(OwnPending(T), Below(T, d))
    /\ T[d].skipped = Total(OwnSkipped(T), Below(T, d))
    /\ T[d].denied = Total(OwnDenied(T), Below(T, d))

TreesOn(D) == {T \in [D -> Nodes] : ClosedAbove(D) /\ Sums(T)}
GoodTrees == UNION {TreesOn(D) : D \in {E \in SUBSET Dirs : RootDir \in E}}

LEMMA GoodTree ==
  ASSUME NEW T
  PROVE  T \in GoodTrees <=>
           /\ DOMAIN T \subseteq Dirs /\ RootDir \in DOMAIN T
           /\ T \in [DOMAIN T -> Nodes] /\ ClosedAbove(DOMAIN T) /\ Sums(T)
BY DEF GoodTrees, TreesOn

LEMMA OwnTypes ==
  ASSUME NEW T, T \in [DOMAIN T -> Nodes]
  PROVE  /\ OwnBytes(T) \in [DOMAIN T -> Nat] /\ OwnPending(T) \in [DOMAIN T -> Nat]
         /\ OwnSkipped(T) \in [DOMAIN T -> Nat] /\ OwnDenied(T) \in [DOMAIN T -> Nat]
         /\ \A d \in DOMAIN T :
              /\ OwnBytes(T)[d] = T[d].direct /\ OwnPending(T)[d] = Bit(Waits(T[d].flags))
              /\ OwnSkipped(T)[d] = Bit("skipped" \in T[d].flags)
              /\ OwnDenied(T)[d] = Bit("denied" \in T[d].flags)
BY DEF Nodes, OwnBytes, OwnPending, OwnSkipped, OwnDenied, OwnDelta, Bit

\* A good tree is what its snapshot is loaded as.
LEMMA GoodIsExact ==
  ASSUME NEW T \in GoodTrees
  PROVE  AggregatesExact(T) /\ Recomputed(T) = T
<1>1. /\ DOMAIN T \subseteq Dirs /\ T \in [DOMAIN T -> Nodes] /\ ClosedAbove(DOMAIN T) /\ Sums(T)
  BY GoodTree
<1>2. ASSUME NEW d \in DOMAIN T
      PROVE  Recomputed(T)[d] = T[d]
  <2>1. PICK S : S = Subtree(d) \cap DOMAIN T
    OBVIOUS
  <2>2. IsFiniteSet(S) /\ S \subseteq DOMAIN T
    BY <1>1, <2>1, TreeAssumption, FS_Subset
  <2>3. /\ SumFunctionOnSet(OwnBytes(T), S) = T[d].total
        /\ SumFunctionOnSet(OwnPending(T), S) = T[d].pending
        /\ SumFunctionOnSet(OwnSkipped(T), S) = T[d].skipped
        /\ SumFunctionOnSet(OwnDenied(T), S) = T[d].denied
    BY <1>1, <2>1, <2>2, SumIsTotal, OwnTypes DEF Sums, Below
  <2>4. Recomputed(T)[d] = Node(T[d].direct, T[d].flags,
          [bytes |-> T[d].total, pending |-> T[d].pending,
           skipped |-> T[d].skipped, denied |-> T[d].denied])
    BY <2>1, <2>3 DEF Recomputed
  <2>5. T[d] \in Nodes
    BY <1>1
  <2> QED
    BY <2>4, <2>5 DEF Node, Nodes
<1>3. Recomputed(T) = T
  BY <1>1, <1>2 DEF Recomputed
<1> QED
  BY <1>1, <1>3 DEF AggregatesExact, ClosedAbove

LEMMA CarriedNode ==
  ASSUME NEW n \in Nodes, NEW z
  PROVE  Carry(n, z) =
           [direct |-> n.direct, flags |-> n.flags, total |-> n.total + z.bytes,
            pending |-> n.pending + z.pending, skipped |-> n.skipped + z.skipped,
            denied |-> n.denied + z.denied]
<1>1. PICK m : m = [n EXCEPT !.total = n.total + z.bytes]
  OBVIOUS
<1>2. /\ m = [direct |-> n.direct, flags |-> n.flags, total |-> n.total + z.bytes,
              pending |-> n.pending, skipped |-> n.skipped, denied |-> n.denied]
  BY <1>1 DEF Nodes
<1>3. Carry(n, z) = [m EXCEPT !.pending = n.pending + z.pending,
                              !.skipped = n.skipped + z.skipped, !.denied = n.denied + z.denied]
  BY <1>1, <1>2 DEF Carry
<1> QED
  BY <1>2, <1>3

LEMMA NodeIs ==
  ASSUME NEW n, NEW a \in Nat, NEW f \in SUBSET Flags, NEW t \in Nat, NEW p \in Nat, NEW s \in Nat, NEW q \in Nat,
         n = [direct |-> a, flags |-> f, total |-> t, pending |-> p, skipped |-> s, denied |-> q]
  PROVE  n \in Nodes
BY DEF Nodes

\* set_own keeps a tree good.
LEMMA SetOwnGood ==
  ASSUME NEW T \in GoodTrees, NEW d \in DOMAIN T, NEW direct \in Nat, NEW marks \in SUBSET Flags
  PROVE  /\ SetOwn(T, d, direct, marks) \in GoodTrees
         /\ DOMAIN SetOwn(T, d, direct, marks) = DOMAIN T
         /\ \A e \in DOMAIN T : e # d => SetOwn(T, d, direct, marks)[e].flags = T[e].flags
<1>1. PICK D : D = DOMAIN T
  OBVIOUS
<1>2. D \subseteq Dirs /\ RootDir \in D /\ T \in [D -> Nodes] /\ ClosedAbove(D) /\ Sums(T)
  BY <1>1, GoodTree
<1>3. PICK U : U = SetOwn(T, d, direct, marks)
  OBVIOUS
<1>4. PICK x, y : x = OwnDelta(direct, marks) /\ y = OwnDelta(T[d].direct, T[d].flags)
  OBVIOUS
<1>5. /\ x.bytes = direct /\ x.pending = Bit(Waits(marks))
      /\ x.skipped = Bit("skipped" \in marks) /\ x.denied = Bit("denied" \in marks)
      /\ y.bytes = T[d].direct /\ y.pending = Bit(Waits(T[d].flags))
      /\ y.skipped = Bit("skipped" \in T[d].flags) /\ y.denied = Bit("denied" \in T[d].flags)
      /\ DOMAIN x = {"bytes", "pending", "skipped", "denied"}
  BY <1>4 DEF OwnDelta
<1>6. PICK z : z = Minus(x, y)
  OBVIOUS
<1>7. /\ z.bytes = x.bytes - y.bytes /\ z.pending = x.pending - y.pending
      /\ z.skipped = x.skipped - y.skipped /\ z.denied = x.denied - y.denied
  BY <1>5, <1>6 DEF Minus
<1>8. PICK V : V = [T EXCEPT ![d].direct = direct, ![d].flags = marks]
  OBVIOUS
<1>9. /\ V \in [D -> Nodes] /\ V[d].direct = direct /\ V[d].flags = marks
      /\ \A e \in D : e # d => V[e] = T[e]
      /\ \A e \in D : /\ V[e].total = T[e].total /\ V[e].pending = T[e].pending
                      /\ V[e].skipped = T[e].skipped /\ V[e].denied = T[e].denied
  BY <1>1, <1>2, <1>8 DEF Nodes
<1>10. U = [e \in D |-> IF e = d \/ e \in Above[d] THEN Carry(V[e], z) ELSE V[e]]
  BY <1>1, <1>3, <1>4, <1>6, <1>8, <1>9 DEF SetOwn, Tally
<1> DEFINE add(e, n) == IF e = d \/ e \in Above[d] THEN n ELSE 0
<1>11. ASSUME NEW e \in D
       PROVE  /\ U[e].direct = V[e].direct /\ U[e].flags = V[e].flags
              /\ U[e].total = T[e].total + add(e, z.bytes)
              /\ U[e].pending = T[e].pending + add(e, z.pending)
              /\ U[e].skipped = T[e].skipped + add(e, z.skipped)
              /\ U[e].denied = T[e].denied + add(e, z.denied)
              /\ DOMAIN U[e] = DOMAIN V[e]
              /\ U[e] = [direct |-> U[e].direct, flags |-> U[e].flags, total |-> U[e].total,
                         pending |-> U[e].pending, skipped |-> U[e].skipped, denied |-> U[e].denied]
  <2>1. V[e] \in Nodes /\ T[e] \in Nodes
    BY <1>2, <1>9
  <2> QED
    BY <1>9, <1>10, <2>1, CarriedNode DEF Nodes
<1>12. /\ OwnBytes(U) = [OwnBytes(T) EXCEPT ![d] = x.bytes]
       /\ OwnPending(U) = [OwnPending(T) EXCEPT ![d] = x.pending]
       /\ OwnSkipped(U) = [OwnSkipped(T) EXCEPT ![d] = x.skipped]
       /\ OwnDenied(U) = [OwnDenied(T) EXCEPT ![d] = x.denied]
  <2>1. DOMAIN U = D
    BY <1>10
  <2>2. \A e \in D : U[e].direct = (IF e = d THEN direct ELSE T[e].direct)
                     /\ U[e].flags = (IF e = d THEN marks ELSE T[e].flags)
    BY <1>9, <1>11
  <2>3. OwnBytes(U) = [e \in D |-> IF e = d THEN x.bytes ELSE OwnBytes(T)[e]]
    BY <1>1, <1>5, <2>1, <2>2 DEF OwnBytes, OwnDelta
  <2>4. OwnPending(U) = [e \in D |-> IF e = d THEN x.pending ELSE OwnPending(T)[e]]
    BY <1>1, <1>5, <2>1, <2>2 DEF OwnPending, OwnDelta
  <2>5. OwnSkipped(U) = [e \in D |-> IF e = d THEN x.skipped ELSE OwnSkipped(T)[e]]
    BY <1>1, <1>5, <2>1, <2>2 DEF OwnSkipped, OwnDelta
  <2>6. OwnDenied(U) = [e \in D |-> IF e = d THEN x.denied ELSE OwnDenied(T)[e]]
    BY <1>1, <1>5, <2>1, <2>2 DEF OwnDenied, OwnDelta
  <2>7. DOMAIN OwnBytes(T) = D /\ DOMAIN OwnPending(T) = D /\ DOMAIN OwnSkipped(T) = D
          /\ DOMAIN OwnDenied(T) = D
    BY <1>1 DEF OwnBytes, OwnPending, OwnSkipped, OwnDenied
  <2> QED
    BY <2>3, <2>4, <2>5, <2>6, <2>7
<1>13. /\ OwnBytes(T) \in [D -> Nat] /\ OwnPending(T) \in [D -> Nat]
       /\ OwnSkipped(T) \in [D -> Nat] /\ OwnDenied(T) \in [D -> Nat]
       /\ OwnBytes(T)[d] = y.bytes /\ OwnPending(T)[d] = y.pending
       /\ OwnSkipped(T)[d] = y.skipped /\ OwnDenied(T)[d] = y.denied
  BY <1>1, <1>2, <1>5, OwnTypes
<1>14. x.bytes \in Nat /\ x.pending \in Nat /\ x.skipped \in Nat /\ x.denied \in Nat
  BY <1>5 DEF Bit
<1>15. ASSUME NEW e \in D
       PROVE  /\ U[e].total = Total(OwnBytes(U), Subtree(e) \cap D) /\ U[e].total \in Nat
              /\ U[e].pending = Total(OwnPending(U), Subtree(e) \cap D) /\ U[e].pending \in Nat
              /\ U[e].skipped = Total(OwnSkipped(U), Subtree(e) \cap D) /\ U[e].skipped \in Nat
              /\ U[e].denied = Total(OwnDenied(U), Subtree(e) \cap D) /\ U[e].denied \in Nat
  <2>1. /\ T[e].total = Total(OwnBytes(T), Subtree(e) \cap D)
        /\ T[e].pending = Total(OwnPending(T), Subtree(e) \cap D)
        /\ T[e].skipped = Total(OwnSkipped(T), Subtree(e) \cap D)
        /\ T[e].denied = Total(OwnDenied(T), Subtree(e) \cap D)
    BY <1>1, <1>2 DEF Sums, Below
  <2>2. d \in D
    BY <1>1
  <2>3. Total(OwnBytes(U), Subtree(e) \cap D) = T[e].total + add(e, z.bytes)
          /\ Total(OwnBytes(U), Subtree(e) \cap D) \in Nat
    <3>1. PICK a, b, v : a = OwnBytes(T) /\ b = OwnBytes(U) /\ v = x.bytes
      OBVIOUS
    <3>4. a \in [D -> Nat] /\ v \in Nat /\ a[d] = y.bytes /\ b = [a EXCEPT ![d] = v]
      BY <1>12, <1>13, <1>14, <3>1
    <3>2. b \in [D -> Nat] /\ b[d] = v /\ \A k \in D : k # d => b[k] = a[k]
      BY <2>2, <3>4
    <3>3. /\ Total(b, Subtree(e) \cap D) \in Nat
          /\ Total(b, Subtree(e) \cap D) = Total(a, Subtree(e) \cap D)
               + (IF e = d \/ e \in Above[d] THEN b[d] - a[d] ELSE 0)
      <4>1. D \subseteq Dirs /\ a \in [D -> Nat] /\ b \in [D -> Nat]
              /\ \A k \in D : k # d => b[k] = a[k]
        BY <1>2, <3>2, <3>4
      <4> QED
        BY <2>2, <4>1, ChangeOne
    <3> QED
      BY <1>7, <2>1, <3>1, <3>2, <3>3, <3>4
  <2>4. Total(OwnPending(U), Subtree(e) \cap D) = T[e].pending + add(e, z.pending)
          /\ Total(OwnPending(U), Subtree(e) \cap D) \in Nat
    <3>1. PICK a, b, v : a = OwnPending(T) /\ b = OwnPending(U) /\ v = x.pending
      OBVIOUS
    <3>4. a \in [D -> Nat] /\ v \in Nat /\ a[d] = y.pending /\ b = [a EXCEPT ![d] = v]
      BY <1>12, <1>13, <1>14, <3>1
    <3>2. b \in [D -> Nat] /\ b[d] = v /\ \A k \in D : k # d => b[k] = a[k]
      BY <2>2, <3>4
    <3>3. /\ Total(b, Subtree(e) \cap D) \in Nat
          /\ Total(b, Subtree(e) \cap D) = Total(a, Subtree(e) \cap D)
               + (IF e = d \/ e \in Above[d] THEN b[d] - a[d] ELSE 0)
      <4>1. D \subseteq Dirs /\ a \in [D -> Nat] /\ b \in [D -> Nat]
              /\ \A k \in D : k # d => b[k] = a[k]
        BY <1>2, <3>2, <3>4
      <4> QED
        BY <2>2, <4>1, ChangeOne
    <3> QED
      BY <1>7, <2>1, <3>1, <3>2, <3>3, <3>4
  <2>5. Total(OwnSkipped(U), Subtree(e) \cap D) = T[e].skipped + add(e, z.skipped)
          /\ Total(OwnSkipped(U), Subtree(e) \cap D) \in Nat
    <3>1. PICK a, b, v : a = OwnSkipped(T) /\ b = OwnSkipped(U) /\ v = x.skipped
      OBVIOUS
    <3>4. a \in [D -> Nat] /\ v \in Nat /\ a[d] = y.skipped /\ b = [a EXCEPT ![d] = v]
      BY <1>12, <1>13, <1>14, <3>1
    <3>2. b \in [D -> Nat] /\ b[d] = v /\ \A k \in D : k # d => b[k] = a[k]
      BY <2>2, <3>4
    <3>3. /\ Total(b, Subtree(e) \cap D) \in Nat
          /\ Total(b, Subtree(e) \cap D) = Total(a, Subtree(e) \cap D)
               + (IF e = d \/ e \in Above[d] THEN b[d] - a[d] ELSE 0)
      <4>1. D \subseteq Dirs /\ a \in [D -> Nat] /\ b \in [D -> Nat]
              /\ \A k \in D : k # d => b[k] = a[k]
        BY <1>2, <3>2, <3>4
      <4> QED
        BY <2>2, <4>1, ChangeOne
    <3> QED
      BY <1>7, <2>1, <3>1, <3>2, <3>3, <3>4
  <2>6. Total(OwnDenied(U), Subtree(e) \cap D) = T[e].denied + add(e, z.denied)
          /\ Total(OwnDenied(U), Subtree(e) \cap D) \in Nat
    <3>1. PICK a, b, v : a = OwnDenied(T) /\ b = OwnDenied(U) /\ v = x.denied
      OBVIOUS
    <3>4. a \in [D -> Nat] /\ v \in Nat /\ a[d] = y.denied /\ b = [a EXCEPT ![d] = v]
      BY <1>12, <1>13, <1>14, <3>1
    <3>2. b \in [D -> Nat] /\ b[d] = v /\ \A k \in D : k # d => b[k] = a[k]
      BY <2>2, <3>4
    <3>3. /\ Total(b, Subtree(e) \cap D) \in Nat
          /\ Total(b, Subtree(e) \cap D) = Total(a, Subtree(e) \cap D)
               + (IF e = d \/ e \in Above[d] THEN b[d] - a[d] ELSE 0)
      <4>1. D \subseteq Dirs /\ a \in [D -> Nat] /\ b \in [D -> Nat]
              /\ \A k \in D : k # d => b[k] = a[k]
        BY <1>2, <3>2, <3>4
      <4> QED
        BY <2>2, <4>1, ChangeOne
    <3> QED
      BY <1>7, <2>1, <3>1, <3>2, <3>3, <3>4
  <2> HIDE DEF add
  <2> QED
    BY <1>11, <2>3, <2>4, <2>5, <2>6
<1>16. U \in [D -> Nodes]
  <2>1. \A e \in D : U[e].direct \in Nat /\ U[e].flags \in SUBSET Flags
    BY <1>9, <1>11 DEF Nodes
  <2>2. \A e \in D : U[e] \in Nodes
    BY <1>11, <1>15, <2>1, NodeIs, ZenonT(40)
  <2> QED
    BY <1>10, <2>2
<1>17. DOMAIN U = D
  BY <1>10
<1>18. Sums(U)
  BY <1>15, <1>17 DEF Sums, Below
<1>19. U \in GoodTrees
  BY <1>2, <1>16, <1>17, <1>18, GoodTree
<1>20. \A e \in D : e # d => U[e].flags = T[e].flags
  BY <1>9, <1>11
<1> QED
  BY <1>1, <1>3, <1>17, <1>19, <1>20

\* remove keeps a tree good.
LEMMA RemoveGood ==
  ASSUME NEW T \in GoodTrees, NEW d \in DOMAIN T, d # RootDir
  PROVE  /\ RemoveNode(T, d) \in GoodTrees
         /\ DOMAIN RemoveNode(T, d) = DOMAIN T \ Subtree(d)
         /\ \A e \in DOMAIN T \ Subtree(d) : RemoveNode(T, d)[e].flags = T[e].flags
<1>1. PICK D : D = DOMAIN T
  OBVIOUS
<1>2. D \subseteq Dirs /\ RootDir \in D /\ T \in [D -> Nodes] /\ ClosedAbove(D) /\ Sums(T)
  BY <1>1, GoodTree
<1>3. d \in D /\ d \in Dirs \ {RootDir}
  BY <1>1, <1>2
<1>4. PICK U : U = RemoveNode(T, d)
  OBVIOUS
<1>5. PICK E : E = D \ Subtree(d)
  OBVIOUS
<1>6. PICK z : z = Minus(NoDelta, SubtreeDelta(T[d]))
  OBVIOUS
<1>7. /\ z.bytes = 0 - T[d].total /\ z.pending = 0 - T[d].pending
      /\ z.skipped = 0 - T[d].skipped /\ z.denied = 0 - T[d].denied
  BY <1>6 DEF Minus, NoDelta, SubtreeDelta
<1>8. \A e \in D : e = Parent(d) \/ e \in Above[Parent(d)] <=> e \in Above[d]
  BY <1>3, ParentIsNearest
<1>9. U = [e \in E |-> IF e \in Above[d] THEN Carry(T[e], z) ELSE T[e]]
  <2>1. PICK V : V = Tally(T, Parent(d), z)
    OBVIOUS
  <2>2. V = [e \in D |-> IF e \in Above[d] THEN Carry(T[e], z) ELSE T[e]]
    BY <1>1, <1>8, <2>1 DEF Tally
  <2>3. U = Drop(V, Subtree(d))
    BY <1>3, <1>4, <1>6, <2>1 DEF RemoveNode
  <2> QED
    BY <1>5, <2>2, <2>3 DEF Drop
<1>10. DOMAIN U = E /\ E \subseteq D
  BY <1>5, <1>9
<1> DEFINE sub(e, n) == IF e \in Above[d] THEN n ELSE 0
<1>11. ASSUME NEW e \in E
       PROVE  /\ U[e].direct = T[e].direct /\ U[e].flags = T[e].flags
              /\ U[e].total = T[e].total - sub(e, T[d].total)
              /\ U[e].pending = T[e].pending - sub(e, T[d].pending)
              /\ U[e].skipped = T[e].skipped - sub(e, T[d].skipped)
              /\ U[e].denied = T[e].denied - sub(e, T[d].denied)
              /\ U[e] = [direct |-> U[e].direct, flags |-> U[e].flags, total |-> U[e].total,
                         pending |-> U[e].pending, skipped |-> U[e].skipped, denied |-> U[e].denied]
  <2>1. T[e] \in Nodes /\ T[d] \in Nodes
    BY <1>2, <1>3, <1>10
  <2>2. CASE e \in Above[d]
    <3>1. U[e] = [direct |-> T[e].direct, flags |-> T[e].flags, total |-> T[e].total + z.bytes,
                  pending |-> T[e].pending + z.pending, skipped |-> T[e].skipped + z.skipped,
                  denied |-> T[e].denied + z.denied]
      BY <1>9, <2>1, <2>2, CarriedNode
    <3>2. /\ T[e].total + (0 - T[d].total) = T[e].total - T[d].total
          /\ T[e].pending + (0 - T[d].pending) = T[e].pending - T[d].pending
          /\ T[e].skipped + (0 - T[d].skipped) = T[e].skipped - T[d].skipped
          /\ T[e].denied + (0 - T[d].denied) = T[e].denied - T[d].denied
      BY <2>1 DEF Nodes
    <3> QED
      BY <1>7, <2>2, <3>1, <3>2
  <2>3. CASE e \notin Above[d]
    BY <1>9, <2>1, <2>3 DEF Nodes
  <2> QED
    BY <2>2, <2>3
<1>12. /\ OwnBytes(T) \in [D -> Nat] /\ OwnPending(T) \in [D -> Nat]
       /\ OwnSkipped(T) \in [D -> Nat] /\ OwnDenied(T) \in [D -> Nat]
  BY <1>1, <1>2, OwnTypes
<1>13. ASSUME NEW e \in E
       PROVE  /\ OwnBytes(U)[e] = OwnBytes(T)[e] /\ OwnPending(U)[e] = OwnPending(T)[e]
              /\ OwnSkipped(U)[e] = OwnSkipped(T)[e] /\ OwnDenied(U)[e] = OwnDenied(T)[e]
  BY <1>1, <1>10, <1>11 DEF OwnBytes, OwnPending, OwnSkipped, OwnDenied
<1>14. ASSUME NEW e \in E
       PROVE  /\ U[e].total = Total(OwnBytes(U), Subtree(e) \cap E) /\ U[e].total \in Nat
              /\ U[e].pending = Total(OwnPending(U), Subtree(e) \cap E) /\ U[e].pending \in Nat
              /\ U[e].skipped = Total(OwnSkipped(U), Subtree(e) \cap E) /\ U[e].skipped \in Nat
              /\ U[e].denied = Total(OwnDenied(U), Subtree(e) \cap E) /\ U[e].denied \in Nat
  <2>1. U[e].total = Total(OwnBytes(U), Subtree(e) \cap E) /\ U[e].total \in Nat
    <3>1. PICK a, b : a = OwnBytes(T) /\ b = OwnBytes(U)
      OBVIOUS
    <3>2. a \in [D -> Nat] /\ \A k \in E : b[k] = a[k]
      BY <1>12, <1>13, <3>1
    <3>3. LosesSubtree(a, D, d, e)
      <4>1. D \subseteq Dirs /\ d \in D /\ a \in [D -> Nat] /\ e \in D /\ e \notin Subtree(d)
        BY <1>2, <1>3, <1>5, <3>2
      <4> QED
        BY <4>1, DropSubtree
    <3>4. Total(b, Subtree(e) \cap E) = Total(a, Subtree(e) \cap E)
      BY <3>2, SameTotal
    <3>5. T[e].total = Total(a, Subtree(e) \cap D) /\ T[d].total = Total(a, Subtree(d) \cap D)
      BY <1>1, <1>2, <1>3, <1>10, <3>1 DEF Sums, Below
    <3>6. CASE e \in Above[d]
      BY <1>5, <1>11, <3>1, <3>3, <3>4, <3>5, <3>6 DEF LosesSubtree
    <3>7. CASE e \notin Above[d]
      <4>1. U[e].total = T[e].total - 0 /\ T[e].total \in Nat
        BY <1>11, <3>3, <3>5, <3>7 DEF LosesSubtree
      <4> QED
        BY <1>5, <3>1, <3>3, <3>4, <3>5, <3>7, <4>1 DEF LosesSubtree
    <3> QED
      BY <3>6, <3>7
  <2>2. U[e].pending = Total(OwnPending(U), Subtree(e) \cap E) /\ U[e].pending \in Nat
    <3>1. PICK a, b : a = OwnPending(T) /\ b = OwnPending(U)
      OBVIOUS
    <3>2. a \in [D -> Nat] /\ \A k \in E : b[k] = a[k]
      BY <1>12, <1>13, <3>1
    <3>3. LosesSubtree(a, D, d, e)
      <4>1. D \subseteq Dirs /\ d \in D /\ a \in [D -> Nat] /\ e \in D /\ e \notin Subtree(d)
        BY <1>2, <1>3, <1>5, <3>2
      <4> QED
        BY <4>1, DropSubtree
    <3>4. Total(b, Subtree(e) \cap E) = Total(a, Subtree(e) \cap E)
      BY <3>2, SameTotal
    <3>5. T[e].pending = Total(a, Subtree(e) \cap D) /\ T[d].pending = Total(a, Subtree(d) \cap D)
      BY <1>1, <1>2, <1>3, <1>10, <3>1 DEF Sums, Below
    <3>6. CASE e \in Above[d]
      BY <1>5, <1>11, <3>1, <3>3, <3>4, <3>5, <3>6 DEF LosesSubtree
    <3>7. CASE e \notin Above[d]
      <4>1. U[e].pending = T[e].pending - 0 /\ T[e].pending \in Nat
        BY <1>11, <3>3, <3>5, <3>7 DEF LosesSubtree
      <4> QED
        BY <1>5, <3>1, <3>3, <3>4, <3>5, <3>7, <4>1 DEF LosesSubtree
    <3> QED
      BY <3>6, <3>7
  <2>3. U[e].skipped = Total(OwnSkipped(U), Subtree(e) \cap E) /\ U[e].skipped \in Nat
    <3>1. PICK a, b : a = OwnSkipped(T) /\ b = OwnSkipped(U)
      OBVIOUS
    <3>2. a \in [D -> Nat] /\ \A k \in E : b[k] = a[k]
      BY <1>12, <1>13, <3>1
    <3>3. LosesSubtree(a, D, d, e)
      <4>1. D \subseteq Dirs /\ d \in D /\ a \in [D -> Nat] /\ e \in D /\ e \notin Subtree(d)
        BY <1>2, <1>3, <1>5, <3>2
      <4> QED
        BY <4>1, DropSubtree
    <3>4. Total(b, Subtree(e) \cap E) = Total(a, Subtree(e) \cap E)
      BY <3>2, SameTotal
    <3>5. T[e].skipped = Total(a, Subtree(e) \cap D) /\ T[d].skipped = Total(a, Subtree(d) \cap D)
      BY <1>1, <1>2, <1>3, <1>10, <3>1 DEF Sums, Below
    <3>6. CASE e \in Above[d]
      BY <1>5, <1>11, <3>1, <3>3, <3>4, <3>5, <3>6 DEF LosesSubtree
    <3>7. CASE e \notin Above[d]
      <4>1. U[e].skipped = T[e].skipped - 0 /\ T[e].skipped \in Nat
        BY <1>11, <3>3, <3>5, <3>7 DEF LosesSubtree
      <4> QED
        BY <1>5, <3>1, <3>3, <3>4, <3>5, <3>7, <4>1 DEF LosesSubtree
    <3> QED
      BY <3>6, <3>7
  <2>4. U[e].denied = Total(OwnDenied(U), Subtree(e) \cap E) /\ U[e].denied \in Nat
    <3>1. PICK a, b : a = OwnDenied(T) /\ b = OwnDenied(U)
      OBVIOUS
    <3>2. a \in [D -> Nat] /\ \A k \in E : b[k] = a[k]
      BY <1>12, <1>13, <3>1
    <3>3. LosesSubtree(a, D, d, e)
      <4>1. D \subseteq Dirs /\ d \in D /\ a \in [D -> Nat] /\ e \in D /\ e \notin Subtree(d)
        BY <1>2, <1>3, <1>5, <3>2
      <4> QED
        BY <4>1, DropSubtree
    <3>4. Total(b, Subtree(e) \cap E) = Total(a, Subtree(e) \cap E)
      BY <3>2, SameTotal
    <3>5. T[e].denied = Total(a, Subtree(e) \cap D) /\ T[d].denied = Total(a, Subtree(d) \cap D)
      BY <1>1, <1>2, <1>3, <1>10, <3>1 DEF Sums, Below
    <3>6. CASE e \in Above[d]
      BY <1>5, <1>11, <3>1, <3>3, <3>4, <3>5, <3>6 DEF LosesSubtree
    <3>7. CASE e \notin Above[d]
      <4>1. U[e].denied = T[e].denied - 0 /\ T[e].denied \in Nat
        BY <1>11, <3>3, <3>5, <3>7 DEF LosesSubtree
      <4> QED
        BY <1>5, <3>1, <3>3, <3>4, <3>5, <3>7, <4>1 DEF LosesSubtree
    <3> QED
      BY <3>6, <3>7
  <2> QED
    BY <2>1, <2>2, <2>3, <2>4
<1>15. U \in [E -> Nodes]
  <2>1. \A e \in E : U[e].direct \in Nat /\ U[e].flags \in SUBSET Flags
    BY <1>2, <1>10, <1>11 DEF Nodes
  <2>2. \A e \in E : U[e] \in Nodes
    BY <1>11, <1>14, <2>1, NodeIs, ZenonT(40)
  <2> QED
    BY <1>9, <2>2
<1>16. Sums(U)
  BY <1>10, <1>14 DEF Sums, Below
<1>17. ClosedAbove(E) /\ RootDir \in E
  <2>1. RootDir \notin Subtree(d)
    BY <1>3, TreeAssumption DEF Subtree
  <2>2. ASSUME NEW e \in E, NEW f \in Above[e] PROVE f \in E
    <3>1. f \in D /\ e \in Dirs /\ f \in Dirs
      BY <1>2, <1>10 DEF ClosedAbove
    <3>2. f \in Subtree(d) => e \in Subtree(d)
      BY <3>1, AboveTransitive DEF Subtree
    <3> QED
      BY <1>5, <3>1, <3>2
  <2> QED
    BY <1>2, <1>5, <2>1, <2>2 DEF ClosedAbove
<1>18. U \in GoodTrees
  BY <1>2, <1>10, <1>15, <1>16, <1>17, GoodTree
<1> QED
  BY <1>1, <1>4, <1>5, <1>10, <1>11, <1>18

LEMMA PruneGood ==
  ASSUME NEW T \in GoodTrees, NEW d, d # RootDir
  PROVE  /\ Prune(T, d) \in GoodTrees
         /\ DOMAIN Prune(T, d) = DOMAIN T \ Subtree(d)
<1>1. CASE d \in DOMAIN T
  BY <1>1, RemoveGood DEF Prune
<1>2. CASE d \notin DOMAIN T
  <2>1. DOMAIN T \subseteq Dirs /\ ClosedAbove(DOMAIN T)
    BY GoodTree
  <2>2. DOMAIN T \cap Subtree(d) = {}
    BY <1>2, <2>1 DEF ClosedAbove, Subtree
  <2> QED
    BY <1>2, <2>2 DEF Prune
<1> QED
  BY <1>1, <1>2

\* Directories of which none is below another are removed one after the other.
LEMMA RemoveAllGood ==
  ASSUME NEW T \in GoodTrees, NEW S, S \subseteq DOMAIN T, RootDir \notin S,
         \A x, y \in S : x # y => x \notin Above[y]
  PROVE  /\ RemoveAll(T, S) \in GoodTrees
         /\ DOMAIN RemoveAll(T, S) = DOMAIN T \ UNION {Subtree(x) : x \in S}
<1> DEFINE ch == [s \in SUBSET S |-> CHOOSE x \in s : TRUE]
           next == [p \in S \X GoodTrees |-> Prune(p[2], p[1])]
           F(g) == [s \in SUBSET S |-> IF s = {} THEN T
                      ELSE RemoveNode(g[s \ {CHOOSE x \in s : TRUE}], CHOOSE x \in s : TRUE)]
           Left(s) == DOMAIN T \ UNION {Subtree(x) : x \in s}
<1>1. \A s \in (SUBSET S) \ {{}} : ch[s] \in s
  <2> SUFFICES ASSUME NEW s \in SUBSET S, s # {} PROVE ch[s] \in s
    OBVIOUS
  <2>1. \E x \in s : TRUE
    OBVIOUS
  <2> QED
    BY <2>1
<1>2. next \in [S \X GoodTrees -> GoodTrees]
  BY PruneGood
<1>3. IsFiniteSet(S) /\ S \subseteq Dirs
  BY GoodTree, TreeAssumption, FS_Subset
<1>4. \E g \in [SUBSET S -> GoodTrees] : FoldedFrom(g, T, next, ch, S)
  <2> HIDE DEF next, ch
  <2> QED
    BY <1>1, <1>2, <1>3, FoldExists
<1>5. PICK g \in [SUBSET S -> GoodTrees] : FoldedFrom(g, T, next, ch, S)
  BY <1>4
<1>6. ASSUME NEW s \in SUBSET S
      PROVE  g[s] = IF s = {} THEN T ELSE Prune(g[s \ {ch[s]}], ch[s])
  <2>1. g[s] = IF s = {} THEN T ELSE next[<<ch[s], g[s \ {ch[s]}]>>]
    BY <1>5 DEF FoldedFrom
  <2>2. CASE s = {}
    BY <2>1, <2>2
  <2>3. CASE s # {}
    <3>1. PICK x, v : x = ch[s] /\ v = g[s \ {ch[s]}]
      OBVIOUS
    <3>2. x \in S /\ v \in GoodTrees
      BY <1>1, <1>5, <2>3, <3>1
    <3> HIDE DEF ch
    <3>3. next[<<x, v>>] = Prune(v, x)
      BY <3>2
    <3> QED
      BY <2>1, <2>3, <3>1, <3>3
  <2> QED
    BY <2>2, <2>3
<1>7. PICK G : G = {s \in SUBSET S : DOMAIN g[s] = Left(s)}
  OBVIOUS
<1>8. G = SUBSET S
  <2>1. G \subseteq SUBSET S /\ {} \in G
    <3>1. PICK e : e = {}
      OBVIOUS
    <3>2. g[e] = T
      <4> HIDE DEF ch
      <4>1. e \in SUBSET S
        BY <3>1
      <4> QED
        BY <1>6, <3>1, <4>1
    <3>3. Left(e) = DOMAIN T
      <4>1. UNION {Subtree(x) : x \in e} = {}
        BY <3>1
      <4> QED
        BY <4>1
    <3> HIDE DEF Left
    <3> QED
      BY <1>7, <3>1, <3>2, <3>3
  <2>2. ASSUME NEW s \in (SUBSET S) \ {{}} PROVE \E x \in s : s \ {x} \in G => s \in G
    <3>1. PICK x \in s : x = ch[s]
      BY <1>1
    <3>2. g[s] = Prune(g[s \ {x}], x) /\ g[s \ {x}] \in GoodTrees /\ x # RootDir
      BY <1>5, <1>6, <3>1
    <3>3. DOMAIN g[s] = DOMAIN g[s \ {x}] \ Subtree(x)
      BY <3>2, PruneGood
    <3>4. ASSUME s \ {x} \in G PROVE s \in G
      <4>1. DOMAIN g[s \ {x}] = Left(s \ {x})
        BY <1>7, <3>4
      <4>2. Left(s) = Left(s \ {x}) \ Subtree(x)
        OBVIOUS
      <4> QED
        BY <1>7, <3>3, <4>1, <4>2
    <3> QED
      BY <3>4
  <2> HIDE DEF Left, ch, next, F
  <2>3. \A s \in (SUBSET S) \ {{}} : \E x \in s : s \ {x} \in G => s \in G
    BY <2>2
  <2>4. IsFiniteSet(S) /\ G \subseteq SUBSET S /\ {} \in G
    BY <1>3, <2>1
  <2> QED
    BY <2>3, <2>4, SubsetsAll
<1>9. ASSUME NEW s \in SUBSET S, s # {}
      PROVE  g[s] = RemoveNode(g[s \ {CHOOSE x \in s : TRUE}], CHOOSE x \in s : TRUE)
  <2>1. PICK x \in s : x = ch[s] /\ x = CHOOSE y \in s : TRUE
    BY <1>1, <1>9
  <2>2. x \in DOMAIN g[s \ {x}]
    <3>1. DOMAIN g[s \ {x}] = Left(s \ {x})
      BY <1>7, <1>8
    <3>2. \A y \in s \ {x} : x \notin Subtree(y)
      BY DEF Subtree
    <3> QED
      BY <3>1, <3>2
  <2>3. g[s] = Prune(g[s \ {x}], x)
    BY <1>6, <1>9, <2>1
  <2> QED
    BY <2>1, <2>2, <2>3 DEF Prune
<1>10. g = F(g)
  <2>1. \A s \in SUBSET S : g[s] = F(g)[s]
    BY <1>6, <1>9
  <2> QED
    BY <1>5, <2>1
<1>11. PICK h : h = CHOOSE i : i = F(i)
  OBVIOUS
<1>12. RemoveAll(T, S) = h[S]
  BY <1>11 DEF RemoveAll, FoldSet, MapThenFoldSet
<1>13. h = F(h)
  <2> HIDE DEF F
  <2> QED
    BY <1>10, <1>11
<1>14. PICK H : H = {s \in SUBSET S : h[s] = g[s]}
  OBVIOUS
<1>15. H = SUBSET S
  <2>1. H \subseteq SUBSET S /\ {} \in H
    BY <1>6, <1>13, <1>14
  <2>2. ASSUME NEW s \in (SUBSET S) \ {{}} PROVE \E x \in s : s \ {x} \in H => s \in H
    <3>1. PICK x \in s : x = CHOOSE y \in s : TRUE
      BY <1>1
    <3>2. h[s] = RemoveNode(h[s \ {x}], x)
      BY <1>13, <3>1
    <3>3. g[s] = RemoveNode(g[s \ {x}], x)
      BY <1>9, <3>1
    <3> QED
      BY <1>14, <3>2, <3>3
  <2> HIDE DEF F, ch, next, Left
  <2>3. \A s \in (SUBSET S) \ {{}} : \E x \in s : s \ {x} \in H => s \in H
    BY <2>2
  <2>4. IsFiniteSet(S) /\ H \subseteq SUBSET S /\ {} \in H
    BY <1>3, <2>1
  <2> QED
    BY <2>3, <2>4, SubsetsAll
<1> HIDE DEF F
<1> QED
  BY <1>5, <1>7, <1>8, <1>12, <1>14, <1>15

LEMMA ZeroTotal ==
  ASSUME NEW S, NEW own, \A e \in S : own[e] = 0
  PROVE  Total(own, S) = 0
<1>1. Units(own, S) = {}
  BY DEF Units
<1> QED
  BY <1>1, FS_EmptySet DEF Total

\* Directories that own nothing do not change the sums; the tree was closed, so
\* there was nothing below them.
SameSums(own, wider, D, E, e) ==
  Total(wider, Subtree(e) \cap E) = IF e \in D THEN Total(own, Subtree(e) \cap D) ELSE 0

LEMMA AddNothing ==
  ASSUME NEW D, NEW E, D \subseteq E, E \subseteq Dirs, ClosedAbove(D),
         NEW own \in [D -> Nat], NEW wider \in [E -> Nat], NEW e \in E,
         \A x \in D : wider[x] = own[x], \A x \in E \ D : wider[x] = 0
  PROVE  SameSums(own, wider, D, E, e)
<1>1. PICK S, U, R : S = Subtree(e) \cap E /\ U = Subtree(e) \cap D /\ R = S \ U
  OBVIOUS
<1>2. IsFiniteSet(S) /\ IsFiniteSet(U) /\ IsFiniteSet(R) /\ S \subseteq E /\ U \subseteq D /\ R \subseteq E \ D
      /\ U \cap R = {} /\ S = U \cup R
  BY <1>1, TreeAssumption, FS_Subset
<1>3. Total(wider, S) = Total(wider, U) + Total(wider, R)
  BY <1>2, SplitTotal
<1>4. Total(wider, R) = 0
  BY <1>2, ZeroTotal
<1>5. Total(wider, U) = Total(own, U)
  BY <1>2, SameTotal
<1>6. Total(own, U) \in Nat
  BY <1>2, UnitsFinite
<1>7. CASE e \in D
  BY <1>1, <1>3, <1>4, <1>5, <1>6, <1>7 DEF SameSums
<1>8. CASE e \notin D
  <2>1. U = {}
    BY <1>1, <1>8 DEF Subtree, ClosedAbove
  <2>2. Total(own, U) = 0
    BY <2>1, TotalOfNone
  <2> QED
    BY <1>1, <1>3, <1>4, <1>5, <1>8, <2>2 DEF SameSums
<1> QED
  BY <1>7, <1>8

\* Waiting directories below known ones: every directory above counts them.
LEMMA InsertGood ==
  ASSUME NEW T \in GoodTrees, NEW S, S \subseteq Dirs, ClosedAbove(DOMAIN T \cup S)
  PROVE  /\ Insert(T, S) \in GoodTrees
         /\ DOMAIN Insert(T, S) = DOMAIN T \cup S
         /\ \A e \in DOMAIN T : Insert(T, S)[e].flags = T[e].flags
<1>1. PICK D, new, E : D = DOMAIN T /\ new = S \ D /\ E = D \cup new
  OBVIOUS
<1>2. /\ D \subseteq Dirs /\ RootDir \in D /\ T \in [D -> Nodes] /\ ClosedAbove(D) /\ Sums(T)
      /\ E = D \cup S /\ E \subseteq Dirs /\ ClosedAbove(E)
  BY <1>1, GoodTree
<1>3. IsFiniteSet(new) /\ new \subseteq E
  BY <1>1, TreeAssumption, FS_Subset
<1>4. PICK z : z = OwnDelta(0, {})
  OBVIOUS
<1>5. z.bytes = 0 /\ z.pending = 1 /\ z.skipped = 0 /\ z.denied = 0
  BY <1>4 DEF OwnDelta, Bit, Waits
<1>6. PICK V : V = [e \in E |-> IF e \in new THEN Node(0, {}, NoDelta) ELSE T[e]]
  OBVIOUS
<1>7. PICK empty : empty = Node(0, {}, NoDelta)
  OBVIOUS
<1>8. /\ empty = [direct |-> 0, flags |-> {}, total |-> 0, pending |-> 0, skipped |-> 0, denied |-> 0]
      /\ empty \in Nodes
  <2>1. empty = [direct |-> 0, flags |-> {}, total |-> 0, pending |-> 0, skipped |-> 0, denied |-> 0]
    BY <1>7 DEF Node, NoDelta
  <2> QED
    BY <2>1, NodeIs
<1>9. V \in [E -> Nodes]
  BY <1>1, <1>2, <1>6, <1>7, <1>8
<1>10. PICK A : A = [E -> Nodes]
  OBVIOUS
<1> DEFINE ch == [s \in SUBSET new |-> CHOOSE x \in s : TRUE]
           next == [p \in new \X A |-> Tally(p[2], p[1], z)]
           F(g) == [s \in SUBSET new |-> IF s = {} THEN V
                      ELSE Tally(g[s \ {CHOOSE x \in s : TRUE}], CHOOSE x \in s : TRUE, z)]
<1>11. \A s \in (SUBSET new) \ {{}} : ch[s] \in s
  <2> SUFFICES ASSUME NEW s \in SUBSET new, s # {} PROVE ch[s] \in s
    OBVIOUS
  <2>1. \E x \in s : TRUE
    OBVIOUS
  <2> QED
    BY <2>1
<1>12. ASSUME NEW U \in A, NEW x \in new
       PROVE  /\ Tally(U, x, z) \in A
              /\ \A e \in E : Tally(U, x, z)[e] =
                   [direct |-> U[e].direct, flags |-> U[e].flags, total |-> U[e].total,
                    pending |-> U[e].pending + (IF e = x \/ e \in Above[x] THEN 1 ELSE 0),
                    skipped |-> U[e].skipped, denied |-> U[e].denied]
  <2>1. Tally(U, x, z) = [e \in E |-> IF e = x \/ e \in Above[x] THEN Carry(U[e], z) ELSE U[e]]
    BY <1>10 DEF Tally
  <2>2. ASSUME NEW e \in E
        PROVE  /\ Tally(U, x, z)[e] =
                    [direct |-> U[e].direct, flags |-> U[e].flags, total |-> U[e].total,
                     pending |-> U[e].pending + (IF e = x \/ e \in Above[x] THEN 1 ELSE 0),
                     skipped |-> U[e].skipped, denied |-> U[e].denied]
               /\ Tally(U, x, z)[e] \in Nodes
    <3>1. U[e] \in Nodes
      BY <1>10
    <3>2. CASE e = x \/ e \in Above[x]
      <4>1. Tally(U, x, z)[e] =
              [direct |-> U[e].direct, flags |-> U[e].flags, total |-> U[e].total + z.bytes,
               pending |-> U[e].pending + z.pending, skipped |-> U[e].skipped + z.skipped,
               denied |-> U[e].denied + z.denied]
        BY <2>1, <3>1, <3>2, CarriedNode
      <4>2. /\ U[e].total + 0 = U[e].total /\ U[e].skipped + 0 = U[e].skipped
            /\ U[e].denied + 0 = U[e].denied
            /\ U[e].direct \in Nat /\ U[e].flags \in SUBSET Flags /\ U[e].total \in Nat
            /\ U[e].pending + 1 \in Nat /\ U[e].skipped \in Nat /\ U[e].denied \in Nat
        BY <3>1 DEF Nodes
      <4>3. Tally(U, x, z)[e] =
              [direct |-> U[e].direct, flags |-> U[e].flags, total |-> U[e].total,
               pending |-> U[e].pending + 1, skipped |-> U[e].skipped, denied |-> U[e].denied]
        BY <1>5, <4>1, <4>2
      <4>4. Tally(U, x, z)[e] \in Nodes
        BY <4>2, <4>3, NodeIs
      <4> QED
        BY <3>2, <4>3, <4>4
    <3>3. CASE ~(e = x \/ e \in Above[x])
      <4>1. Tally(U, x, z)[e] = U[e]
        BY <2>1, <3>3
      <4>2. U[e] = [direct |-> U[e].direct, flags |-> U[e].flags, total |-> U[e].total,
                    pending |-> U[e].pending + 0, skipped |-> U[e].skipped, denied |-> U[e].denied]
        BY <3>1 DEF Nodes
      <4> QED
        BY <3>1, <3>3, <4>1, <4>2
    <3> QED
      BY <3>2, <3>3
  <2> QED
    BY <1>10, <2>1, <2>2
<1>13. next \in [new \X A -> A]
  BY <1>12
<1>14. \E g \in [SUBSET new -> A] : FoldedFrom(g, V, next, ch, new)
  <2> HIDE DEF next, ch
  <2> QED
    BY <1>3, <1>9, <1>10, <1>11, <1>13, FoldExists
<1>15. PICK g \in [SUBSET new -> A] : FoldedFrom(g, V, next, ch, new)
  BY <1>14
<1>16. ASSUME NEW s \in SUBSET new
       PROVE  g[s] = IF s = {} THEN V
                     ELSE Tally(g[s \ {CHOOSE x \in s : TRUE}], CHOOSE x \in s : TRUE, z)
  <2>1. g[s] = IF s = {} THEN V ELSE next[<<ch[s], g[s \ {ch[s]}]>>]
    BY <1>15 DEF FoldedFrom
  <2>2. CASE s = {}
    BY <2>1, <2>2
  <2>3. CASE s # {}
    <3>1. PICK x, v : x = ch[s] /\ v = g[s \ {ch[s]}]
      OBVIOUS
    <3>2. x \in new /\ v \in A
      BY <1>11, <1>15, <2>3, <3>1
    <3>3. x = CHOOSE y \in s : TRUE
      BY <3>1
    <3> HIDE DEF ch
    <3>4. next[<<x, v>>] = Tally(v, x, z)
      BY <3>2
    <3> QED
      BY <2>1, <2>3, <3>1, <3>3, <3>4
  <2> QED
    BY <2>2, <2>3
<1>17. g = F(g)
  <2>1. \A s \in SUBSET new : g[s] = F(g)[s]
    BY <1>16
  <2> QED
    BY <1>15, <2>1
<1>18. PICK h : h = CHOOSE i : i = F(i)
  OBVIOUS
<1>19. Insert(T, S) = h[new]
  BY <1>1, <1>4, <1>6, <1>18 DEF Insert, FoldSet, MapThenFoldSet
<1>20. h = F(h)
  <2> HIDE DEF F
  <2> QED
    BY <1>17, <1>18
<1> DEFINE own(s) == [x \in E |-> IF x \in new THEN IF x \in s THEN 1 ELSE 0 ELSE OwnPending(T)[x]]
           Told(s, U) ==
             /\ U \in A
             /\ \A e \in E :
                  /\ U[e].direct = V[e].direct /\ U[e].flags = V[e].flags /\ U[e].total = V[e].total
                  /\ U[e].skipped = V[e].skipped /\ U[e].denied = V[e].denied
                  /\ U[e].pending = Total(own(s), Subtree(e) \cap E)
<1>21. /\ OwnBytes(T) \in [D -> Nat] /\ OwnPending(T) \in [D -> Nat]
       /\ OwnSkipped(T) \in [D -> Nat] /\ OwnDenied(T) \in [D -> Nat]
  BY <1>1, <1>2, OwnTypes
<1>22. \A s : own(s) \in [E -> Nat]
  BY <1>1, <1>21
<1>23. PICK G : G = {s \in SUBSET new : Told(s, h[s])}
  OBVIOUS
<1>24. {} \in G
  <2>1. h[{}] = V
    BY <1>20
  <2>2. PICK w : w = own({})
    OBVIOUS
  <2>3. w \in [E -> Nat] /\ (\A x \in D : w[x] = OwnPending(T)[x]) /\ \A x \in E \ D : w[x] = 0
    BY <1>1, <1>22, <2>2
  <2>4. ASSUME NEW e \in E PROVE V[e].pending = Total(w, Subtree(e) \cap E)
    <3>1. SameSums(OwnPending(T), w, D, E, e)
      <4>1. D \subseteq E
        BY <1>2
      <4> QED
        BY <1>2, <1>21, <2>3, <4>1, AddNothing
    <3>2. CASE e \in D
      BY <1>1, <1>2, <1>6, <3>1, <3>2 DEF SameSums, Sums, Below
    <3>3. CASE e \notin D
      BY <1>1, <1>2, <1>6, <1>7, <1>8, <3>1, <3>3 DEF SameSums
    <3> QED
      BY <3>2, <3>3
  <2>5. Told({}, V)
    BY <1>9, <1>10, <2>2, <2>4
  <2> QED
    BY <1>23, <2>1, <2>5
<1>25. ASSUME NEW s \in (SUBSET new) \ {{}} PROVE \E x \in s : s \ {x} \in G => s \in G
  <2>1. PICK x \in s : x = CHOOSE y \in s : TRUE
    BY <1>11
  <2>2. h[s] = Tally(h[s \ {x}], x, z)
    BY <1>20, <2>1
  <2>3. ASSUME s \ {x} \in G PROVE s \in G
    <3>1. PICK U : U = h[s \ {x}] /\ Told(s \ {x}, U)
      BY <1>23, <2>3
    <3>2. x \in new /\ U \in A
      BY <3>1
    <3>3. PICK W : W = Tally(U, x, z)
      OBVIOUS
    <3>4. /\ W \in A
          /\ \A e \in E : W[e] =
                   [direct |-> U[e].direct, flags |-> U[e].flags, total |-> U[e].total,
                    pending |-> U[e].pending + (IF e = x \/ e \in Above[x] THEN 1 ELSE 0),
                    skipped |-> U[e].skipped, denied |-> U[e].denied]
      BY <1>12, <3>2, <3>3
    <3>9. ASSUME NEW e \in E
          PROVE  /\ W[e].direct = V[e].direct /\ W[e].flags = V[e].flags /\ W[e].total = V[e].total
                 /\ W[e].skipped = V[e].skipped /\ W[e].denied = V[e].denied
                 /\ W[e].pending = U[e].pending + (IF e = x \/ e \in Above[x] THEN 1 ELSE 0)
      <4>0. PICK n, k : n = U[e].pending + k /\ k = (IF e = x \/ e \in Above[x] THEN 1 ELSE 0)
        OBVIOUS
      <4>2. W[e] = [direct |-> U[e].direct, flags |-> U[e].flags, total |-> U[e].total,
                    pending |-> n, skipped |-> U[e].skipped, denied |-> U[e].denied]
        BY <3>4, <4>0
      <4>1. /\ W[e].direct = U[e].direct /\ W[e].flags = U[e].flags /\ W[e].total = U[e].total
            /\ W[e].skipped = U[e].skipped /\ W[e].denied = U[e].denied
            /\ W[e].pending = U[e].pending + (IF e = x \/ e \in Above[x] THEN 1 ELSE 0)
        BY <4>0, <4>2
      <4> QED
        BY <3>1, <4>1
    <3>5. PICK a, b : a = own(s \ {x}) /\ b = own(s)
      OBVIOUS
    <3>6. /\ a \in [E -> Nat] /\ b \in [E -> Nat] /\ a[x] = 0 /\ b[x] = 1 /\ x \in E
          /\ \A y \in E : y # x => b[y] = a[y]
      BY <1>3, <1>22, <3>2, <3>5
    <3>7. ASSUME NEW e \in E PROVE W[e].pending = Total(b, Subtree(e) \cap E)
      <4>1. Total(a, Subtree(e) \cap E) = U[e].pending
        BY <3>1, <3>5
      <4>2. /\ Total(a, Subtree(e) \cap E) \in Nat
            /\ Total(b, Subtree(e) \cap E) = Total(a, Subtree(e) \cap E)
                 + (IF e = x \/ e \in Above[x] THEN b[x] - a[x] ELSE 0)
        <5>1. E \subseteq Dirs
          BY <1>2
        <5> QED
          BY <3>6, <5>1, ChangeOne
      <4>3. b[x] - a[x] = 1
        BY <3>6
      <4> QED
        BY <3>9, <4>1, <4>2, <4>3
    <3>8. Told(s, W)
      <4>1. W \in A
        BY <3>4
      <4> QED
        BY <3>5, <3>7, <3>9, <4>1
    <3>10. h[s] = W
      BY <2>2, <3>1, <3>3
    <3> HIDE DEF Told
    <3> QED
      BY <1>23, <3>8, <3>10
  <2> QED
    BY <2>3
<1>26. new \in G
  <2>1. G = SUBSET new
    <3>1. G \subseteq SUBSET new
      BY <1>23
    <3> QED
      BY <1>3, <1>24, <1>25, <3>1, SubsetsAll
  <2> QED
    BY <2>1
<1>27. PICK U : U = Insert(T, S) /\ Told(new, U)
  BY <1>19, <1>23, <1>26
<1> HIDE DEF F, next, ch
<1>28. U \in [E -> Nodes] /\ DOMAIN U = E
  BY <1>10, <1>27
<1>29. /\ \A e \in D : U[e].direct = T[e].direct /\ U[e].flags = T[e].flags
       /\ \A e \in new : U[e].direct = 0 /\ U[e].flags = {}
  <2>1. \A e \in E : U[e].direct = V[e].direct /\ U[e].flags = V[e].flags
    BY <1>27
  <2>2. \A e \in D : V[e] = T[e]
    BY <1>1, <1>6
  <2>3. \A e \in new : V[e].direct = 0 /\ V[e].flags = {}
    BY <1>1, <1>6, <1>7, <1>8
  <2>4. D \subseteq E /\ new \subseteq E
    BY <1>1
  <2> QED
    BY <2>1, <2>2, <2>3, <2>4
<1>30. OwnPending(U) = own(new)
  BY <1>1, <1>28, <1>29 DEF OwnPending, OwnDelta, Waits, Bit
<1>31. ASSUME NEW e \in E
       PROVE  /\ U[e].total = Total(OwnBytes(U), Subtree(e) \cap E)
              /\ U[e].skipped = Total(OwnSkipped(U), Subtree(e) \cap E)
              /\ U[e].denied = Total(OwnDenied(U), Subtree(e) \cap E)
  <2>1. /\ OwnBytes(U) \in [E -> Nat] /\ OwnSkipped(U) \in [E -> Nat] /\ OwnDenied(U) \in [E -> Nat]
    BY <1>28, OwnTypes
  <2>2. \A x \in D : OwnBytes(U)[x] = OwnBytes(T)[x] /\ OwnSkipped(U)[x] = OwnSkipped(T)[x]
                     /\ OwnDenied(U)[x] = OwnDenied(T)[x]
    BY <1>1, <1>28, <1>29 DEF OwnBytes, OwnSkipped, OwnDenied, OwnDelta
  <2>3. \A x \in E \ D : OwnBytes(U)[x] = 0 /\ OwnSkipped(U)[x] = 0 /\ OwnDenied(U)[x] = 0
    BY <1>1, <1>28, <1>29 DEF OwnBytes, OwnSkipped, OwnDenied, OwnDelta, Bit
  <2>4. D \subseteq E /\ E \subseteq Dirs /\ ClosedAbove(D)
    BY <1>2
  <2>5. SameSums(OwnBytes(T), OwnBytes(U), D, E, e)
    BY <1>21, <2>1, <2>2, <2>3, <2>4, AddNothing
  <2>6. SameSums(OwnSkipped(T), OwnSkipped(U), D, E, e)
    BY <1>21, <2>1, <2>2, <2>3, <2>4, AddNothing
  <2>7. SameSums(OwnDenied(T), OwnDenied(U), D, E, e)
    BY <1>21, <2>1, <2>2, <2>3, <2>4, AddNothing
  <2>8. /\ U[e].total = V[e].total /\ U[e].skipped = V[e].skipped /\ U[e].denied = V[e].denied
    BY <1>27
  <2>9. CASE e \in D
    BY <1>1, <1>2, <1>6, <2>5, <2>6, <2>7, <2>8, <2>9 DEF SameSums, Sums, Below
  <2>10. CASE e \notin D
    BY <1>1, <1>6, <1>7, <1>8, <2>5, <2>6, <2>7, <2>8, <2>10 DEF SameSums
  <2> QED
    BY <2>9, <2>10
<1>32. \A e \in E : U[e].pending = Total(OwnPending(U), Subtree(e) \cap E)
  BY <1>27, <1>30
<1> HIDE DEF Told, own
<1>33. Sums(U)
  BY <1>28, <1>31, <1>32 DEF Sums, Below
<1>34. U \in GoodTrees
  BY <1>2, <1>28, <1>33, GoodTree
<1> QED
  BY <1>1, <1>2, <1>27, <1>28, <1>29, <1>34

ListingsOf(d) == [bytes : Nat, subdirs : SUBSET Children(d), denied : BOOLEAN]

LEMMA ChildType ==
  ASSUME NEW d, NEW c \in Children(d)
  PROVE  /\ c \in Dirs /\ c # RootDir /\ d \in Dirs /\ c # d /\ d \in Above[c] /\ c \notin Above[d]
         /\ Above[c] = Above[d] \cup {d}
<1>1. c \in Dirs \ {RootDir} /\ Parent(c) = d
  BY DEF Children
<1>2. d \in Above[c] /\ Above[c] = Above[d] \cup {d} /\ d \in Dirs
  BY <1>1, ParentIsNearest
<1>3. d \notin Above[d] /\ c \notin Above[c]
  BY <1>1, <1>2, AboveType
<1> QED
  BY <1>1, <1>2, <1>3

LEMMA EnsureGood ==
  ASSUME NEW T \in GoodTrees, NEW d \in Dirs
  PROVE  Ensure(T, d) \in GoodTrees /\ d \in DOMAIN Ensure(T, d)
<1>1. PICK S : S = Above[d] \cup {d}
  OBVIOUS
<1>2. S \subseteq Dirs /\ ClosedAbove(DOMAIN T) /\ ClosedAbove(DOMAIN T \cup S)
  <2>1. S \subseteq Dirs /\ ClosedAbove(DOMAIN T)
    BY <1>1, AboveType, GoodTree
  <2> QED
    BY <1>1, <2>1, AboveTransitive DEF ClosedAbove
<1> QED
  BY <1>1, <1>2, InsertGood DEF Ensure

LEMMA SetListingGood ==
  ASSUME NEW T \in GoodTrees, NEW d \in DOMAIN T, NEW listing \in ListingsOf(d)
  PROVE  SetListing(T, d, listing) \in GoodTrees
<1>1. PICK marks : marks = (T[d].flags \cap {"skipped"}) \cup {"scanned"}
                             \cup (IF listing.denied THEN {"denied"} ELSE {})
  OBVIOUS
<1>2. /\ marks \in SUBSET Flags /\ listing.bytes \in Nat /\ listing.subdirs \subseteq Children(d)
      /\ d \in Dirs
  BY <1>1, GoodTree DEF Flags, ListingsOf
<1>3. PICK T1 : T1 = SetOwn(T, d, listing.bytes, marks)
  OBVIOUS
<1>4. T1 \in GoodTrees /\ d \in DOMAIN T1
  BY <1>2, <1>3, SetOwnGood
<1>5. PICK S : S = (Children(d) \cap DOMAIN T1) \ listing.subdirs
  OBVIOUS
<1>6. S \subseteq DOMAIN T1 /\ RootDir \notin S /\ \A x, y \in S : x # y => x \notin Above[y]
  <2>1. ASSUME NEW x \in S, NEW y \in S PROVE x \notin Above[y] /\ x # RootDir
    <3>1. x \in Children(d) /\ y \in Children(d)
      BY <1>5
    <3>2. x \notin Above[d] /\ x # d /\ x # RootDir
      BY <3>1, ChildType
    <3>3. Above[y] = Above[d] \cup {d}
      BY <3>1, ChildType
    <3> QED
      BY <3>2, <3>3
  <2> QED
    BY <1>5, <2>1
<1>7. PICK T2 : T2 = RemoveAll(T1, S)
  OBVIOUS
<1>8. T2 \in GoodTrees /\ DOMAIN T2 = DOMAIN T1 \ UNION {Subtree(x) : x \in S}
  BY <1>4, <1>6, <1>7, RemoveAllGood
<1>9. d \in DOMAIN T2
  <2>1. ASSUME NEW x \in S PROVE d \notin Subtree(x)
    <3>1. x \notin Above[d] /\ x # d
      BY <1>5, ChildType
    <3> QED
      BY <3>1 DEF Subtree
  <2> QED
    BY <1>4, <1>8, <2>1
<1>10. ClosedAbove(DOMAIN T2 \cup listing.subdirs) /\ listing.subdirs \subseteq Dirs
  <2>1. ClosedAbove(DOMAIN T2) /\ Above[d] \subseteq DOMAIN T2
    BY <1>8, <1>9, GoodTree DEF ClosedAbove
  <2>2. ASSUME NEW c \in listing.subdirs PROVE Above[c] = Above[d] \cup {d} /\ c \in Dirs
    BY <1>2, ChildType
  <2> QED
    BY <1>9, <2>1, <2>2 DEF ClosedAbove
<1>11. SetListing(T, d, listing) = Insert(T2, listing.subdirs)
  BY <1>1, <1>3, <1>5, <1>7 DEF SetListing
<1> QED
  BY <1>8, <1>10, <1>11, InsertGood

LEMMA MergeGood ==
  ASSUME NEW T \in GoodTrees, NEW d \in Dirs, NEW listing \in ListingsOf(d)
  PROVE  MergeRecord(T, d, listing) \in GoodTrees
<1>1. PICK U : U = Ensure(T, d)
  OBVIOUS
<1>2. U \in GoodTrees /\ d \in DOMAIN U
  BY <1>1, EnsureGood
<1> QED
  BY <1>1, <1>2, SetListingGood DEF MergeRecord

LEMMA SetSkippedGood ==
  ASSUME NEW T \in GoodTrees, NEW d \in Dirs, NEW on \in BOOLEAN
  PROVE  SetSkipped(T, d, on) \in GoodTrees
<1>1. PICK U : U = IF on THEN Ensure(T, d) ELSE T
  OBVIOUS
<1>2. U \in GoodTrees
  BY <1>1, EnsureGood
<1>3. CASE d \notin DOMAIN U
  BY <1>1, <1>2, <1>3 DEF SetSkipped
<1>4. CASE d \in DOMAIN U
  <2>1. PICK marks : marks = IF on THEN U[d].flags \cup {"skipped"} ELSE U[d].flags \ {"skipped"}
    OBVIOUS
  <2>2. U[d] \in Nodes
    BY <1>2, <1>4, GoodTree
  <2>3. U[d].direct \in Nat /\ marks \in SUBSET Flags
    BY <2>1, <2>2 DEF Nodes, Flags
  <2>4. SetOwn(U, d, U[d].direct, marks) \in GoodTrees
    BY <1>2, <1>4, <2>3, SetOwnGood
  <2> QED
    BY <1>1, <1>4, <2>1, <2>4 DEF SetSkipped
<1> QED
  BY <1>3, <1>4

LEMMA PruneUnscannedGood ==
  ASSUME NEW T \in GoodTrees, NEW d
  PROVE  PruneUnscanned(T, d) \in GoodTrees
<1>1. PICK S, M : S = (Subtree(d) \cap DOMAIN T) \ {RootDir} /\ M = Topmost(T, S)
  OBVIOUS
<1>2. M \subseteq DOMAIN T /\ RootDir \notin M /\ \A x, y \in M : x # y => x \notin Above[y]
  BY <1>1 DEF Topmost
<1> QED
  BY <1>1, <1>2, RemoveAllGood DEF PruneUnscanned

LEMMA EmptyGood == EmptyTree \in GoodTrees
<1>1. PICK z : z = OwnDelta(0, {})
  OBVIOUS
<1>2. z.bytes = 0 /\ z.pending = 1 /\ z.skipped = 0 /\ z.denied = 0
  BY <1>1 DEF OwnDelta, Bit, Waits
<1>3. PICK D : D = {RootDir}
  OBVIOUS
<1>4. EmptyTree = [d \in D |-> [direct |-> 0, flags |-> {}, total |-> 0,
                                pending |-> 1, skipped |-> 0, denied |-> 0]]
  BY <1>1, <1>2, <1>3 DEF EmptyTree, Node
<1>5. D \subseteq Dirs /\ RootDir \in D /\ ClosedAbove(D) /\ Subtree(RootDir) \cap D = D
  BY <1>3, TreeAssumption DEF ClosedAbove, Subtree
<1>6. /\ OwnBytes(EmptyTree)[RootDir] = 0 /\ OwnPending(EmptyTree)[RootDir] = 1
      /\ OwnSkipped(EmptyTree)[RootDir] = 0 /\ OwnDenied(EmptyTree)[RootDir] = 0
  BY <1>3, <1>4 DEF OwnBytes, OwnPending, OwnSkipped, OwnDenied, OwnDelta, Bit, Waits
<1>7. /\ Total(OwnBytes(EmptyTree), {RootDir}) = 0 /\ Total(OwnPending(EmptyTree), {RootDir}) = 1
      /\ Total(OwnSkipped(EmptyTree), {RootDir}) = 0 /\ Total(OwnDenied(EmptyTree), {RootDir}) = 0
  <2>1. PICK a, b, c, d : a = OwnBytes(EmptyTree) /\ b = OwnPending(EmptyTree)
                            /\ c = OwnSkipped(EmptyTree) /\ d = OwnDenied(EmptyTree)
    OBVIOUS
  <2>2. a[RootDir] \in Nat /\ b[RootDir] \in Nat /\ c[RootDir] \in Nat /\ d[RootDir] \in Nat
    BY <1>6, <2>1
  <2>3. /\ Total(a, {RootDir}) = a[RootDir] /\ Total(b, {RootDir}) = b[RootDir]
        /\ Total(c, {RootDir}) = c[RootDir] /\ Total(d, {RootDir}) = d[RootDir]
    BY <2>2, TotalOfOne
  <2> QED
    BY <1>6, <2>1, <2>3
<1>8. Sums(EmptyTree)
  <2>1. DOMAIN EmptyTree = D
    BY <1>4
  <2> QED
    BY <1>3, <1>4, <1>5, <1>7, <2>1 DEF Sums, Below
<1>9. EmptyTree \in [D -> Nodes] /\ DOMAIN EmptyTree = D
  <2>1. [direct |-> 0, flags |-> {}, total |-> 0, pending |-> 1, skipped |-> 0, denied |-> 0] \in Nodes
    BY DEF Nodes
  <2> QED
    BY <1>4, <2>1
<1> QED
  BY <1>5, <1>8, <1>9, GoodTree

-----------------------------------------------------------------------------
(* The states of the index and what a handler of the coordination thread   *)
(* makes of one.                                                           *)

Jobs == [root : Dirs, full : BOOLEAN]
Wishes == [root : Dirs, refresh : BOOLEAN]
Events == [dir : Dirs, kind : {"dir", "subtree", "dropped"}]
Snapshots == [id : Nat, tree : GoodTrees, visited : SUBSET Protected, there : BOOLEAN]

IndexStates ==
  [phase : {"down", "booting", "catchUp", "live"}, tree : GoodTrees,
   visited : SUBSET Protected, fda : BOOLEAN, meta : Nat, last : Nat,
   full : {NoFull} \cup [id : Nat, left : Int], inflight : Nat,
   background : Seq(Jobs), boosts : Seq(Wishes), since : Nat, history : Nat,
   replay : Nat, events : SUBSET Events, saved : Snapshots, due : BOOLEAN]

\* A handler neither visits a directory nor asks for access.
Kin(i) == {j \in IndexStates : j.phase = i.phase /\ j.visited = i.visited /\ j.fda = i.fda}

LEMMA KinOfKin ==
  ASSUME NEW i \in IndexStates, NEW j \in Kin(i)
  PROVE  j \in IndexStates /\ Kin(j) = Kin(i) /\ i \in Kin(i)
BY DEF Kin

LEMMA NewTree ==
  ASSUME NEW i \in IndexStates, NEW T \in GoodTrees
  PROVE  [i EXCEPT !.tree = T] \in Kin(i) /\ [i EXCEPT !.tree = T].tree = T
BY DEF Kin, IndexStates

LEMMA QueueScanKin ==
  ASSUME NEW i \in IndexStates, NEW d \in Dirs, NEW full \in BOOLEAN
  PROVE  QueueScan(i, d, full) \in Kin(i) /\ QueueScan(i, d, full).full = i.full
<1>1. CASE \E k \in DOMAIN i.background : i.background[k].root = d
  BY <1>1 DEF QueueScan, Kin
<1>2. CASE ~\E k \in DOMAIN i.background : i.background[k].root = d
  <2>1. QueueScan(i, d, full) = [i EXCEPT !.background = Append(i.background, [root |-> d, full |-> full]),
                                          !.inflight = i.inflight + 1]
    BY <1>2 DEF QueueScan
  <2>2. Append(i.background, [root |-> d, full |-> full]) \in Seq(Jobs) /\ i.inflight + 1 \in Nat
    <3>1. i.background \in Seq(Jobs) /\ i.inflight \in Nat
      BY DEF IndexStates
    <3>2. [root |-> d, full |-> full] \in Jobs
      BY DEF Jobs
    <3> QED
      BY <3>1, <3>2
  <2> QED
    BY <2>1, <2>2, ZenonT(40) DEF Kin, IndexStates
<1> QED
  BY <1>1, <1>2

LEMMA OtherBoostsType ==
  ASSUME NEW i \in IndexStates, NEW d \in Dirs
  PROVE  OtherBoosts(i, d) \in Seq(Wishes)
<1>1. i.boosts \in Seq(Wishes)
  BY DEF IndexStates
<1>2. CASE \E k \in DOMAIN i.boosts : i.boosts[k].root = d
  <2>1. PICK k : k = CHOOSE x \in DOMAIN i.boosts : i.boosts[x].root = d
    OBVIOUS
  <2>2. k \in DOMAIN i.boosts
    BY <1>2, <2>1
  <2>3. RemoveAt(i.boosts, k) \in Seq(Wishes)
    BY <1>1, <2>2 DEF RemoveAt
  <2> QED
    BY <1>2, <2>1, <2>3 DEF OtherBoosts
<1> QED
  BY <1>1, <1>2 DEF OtherBoosts

LEMMA QueueBoostKin ==
  ASSUME NEW i \in IndexStates, NEW d \in Dirs, NEW fresh \in BOOLEAN
  PROVE  QueueBoost(i, d, fresh) \in Kin(i)
<1>1. PICK rest : rest = OtherBoosts(i, d)
  OBVIOUS
<1>2. PICK first : first = [root |-> d, refresh |-> fresh \/ \E k \in DOMAIN i.boosts :
                                                       i.boosts[k] = [root |-> d, refresh |-> TRUE]]
  OBVIOUS
<1>3. first \in Wishes /\ rest \in Seq(Wishes)
  BY <1>1, <1>2, OtherBoostsType DEF Wishes
<1>4. <<first>> \o rest \in Seq(Wishes)
  BY <1>3
<1>5. QueueBoost(i, d, fresh) = [i EXCEPT !.boosts = <<first>> \o rest]
  BY <1>1, <1>2 DEF QueueBoost
<1> QED
  BY <1>4, <1>5 DEF Kin, IndexStates

LEMMA SaveKin ==
  ASSUME NEW i \in IndexStates
  PROVE  Save(i) \in Kin(i) /\ IdToSave(i) \in Nat
<1>1. IdToSave(i) \in Nat
  BY DEF IdToSave, IndexStates, NoFull
<1>2. PICK s : s = [id |-> IdToSave(i), tree |-> i.tree, visited |-> i.visited, there |-> TRUE]
  OBVIOUS
<1>3. s \in Snapshots
  BY <1>1, <1>2 DEF Snapshots, IndexStates
<1>4. Save(i) = [i EXCEPT !.meta = IdToSave(i), !.saved = s]
  BY <1>2 DEF Save
<1> QED
  BY <1>1, <1>3, <1>4 DEF Kin, IndexStates

LEMMA FinishFullKin ==
  ASSUME NEW i \in IndexStates, i.full # NoFull
  PROVE  FinishFull(i) \in Kin(i)
<1>1. PICK j : j = [i EXCEPT !.full = NoFull, !.meta = i.full.id, !.last = i.full.id, !.due = FALSE]
  OBVIOUS
<1>2. i.full.id \in Nat
  BY DEF IndexStates
<1>3. j \in Kin(i)
  BY <1>1, <1>2 DEF Kin, IndexStates
<1>4. FinishFull(i) = Save(j)
  BY <1>1 DEF FinishFull
<1> QED
  BY <1>3, <1>4, SaveKin, KinOfKin

LEMMA StartFullKin ==
  ASSUME NEW i \in IndexStates, log \in Seq(Dirs)
  PROVE  StartFull(i) \in Kin(i)
<1>1. CASE i.full # NoFull
  BY <1>1 DEF StartFull, Kin
<1>2. CASE i.full = NoFull
  <2>1. PICK j : j = QueueScan(i, RootDir, TRUE)
    OBVIOUS
  <2>2. j \in Kin(i)
    BY <2>1, QueueScanKin, TreeAssumption
  <2>3. PICK left : left = Len(j.background) - Len(i.background)
    OBVIOUS
  <2>4. Len(log) \in Nat /\ left \in Int
    <3>1. j.background \in Seq(Jobs) /\ i.background \in Seq(Jobs)
      BY <2>2 DEF Kin, IndexStates
    <3> QED
      BY <2>3, <3>1
  <2>5. PICK f : f = [id |-> Len(log), left |-> left]
    OBVIOUS
  <2>6. f \in [id : Nat, left : Int] /\ f # NoFull
    BY <2>4, <2>5 DEF NoFull
  <2>7. PICK k : k = [j EXCEPT !.full = f]
    OBVIOUS
  <2>8. k \in Kin(i) /\ k.full # NoFull
    BY <2>2, <2>6, <2>7 DEF Kin, IndexStates
  <2>9. StartFull(i) = IF left = 0 THEN FinishFull(k) ELSE k
    BY <1>2, <2>1, <2>3, <2>5, <2>7 DEF StartFull
  <2> QED
    BY <2>8, <2>9, FinishFullKin, KinOfKin
<1> QED
  BY <1>1, <1>2

\* Skipping or unskipping directories one after the other.
LEMMA SkipAllGood ==
  ASSUME NEW T \in GoodTrees, NEW S, S \subseteq Dirs, IsFiniteSet(S), NEW on \in BOOLEAN
  PROVE  SkipAll(T, S, on) \in GoodTrees
<1> DEFINE ch == [s \in SUBSET S |-> CHOOSE y \in s : TRUE]
           next == [p \in S \X GoodTrees |-> SetSkipped(p[2], p[1], on)]
           F(g) == [s \in SUBSET S |-> IF s = {} THEN T ELSE SetSkipped(g[s \ {CHOOSE y \in s : TRUE}], CHOOSE y \in s : TRUE, on)]
<1>1. \A s \in (SUBSET S) \ {{}} : ch[s] \in s
  <2> SUFFICES ASSUME NEW s \in SUBSET S, s # {} PROVE ch[s] \in s
    OBVIOUS
  <2>1. \E x \in s : TRUE
    OBVIOUS
  <2> QED
    BY <2>1
<1>2. T \in GoodTrees /\ \A x \in S : \A v \in GoodTrees : SetSkipped(v, x, on) \in GoodTrees
  BY SetSkippedGood
<1>3. next \in [S \X GoodTrees -> GoodTrees]
  BY <1>2
<1>4. \E g \in [SUBSET S -> GoodTrees] : FoldedFrom(g, T, next, ch, S)
  <2> HIDE DEF next, ch
  <2> QED
    BY <1>1, <1>2, <1>3, FoldExists
<1>5. PICK g \in [SUBSET S -> GoodTrees] : FoldedFrom(g, T, next, ch, S)
  BY <1>4
<1>6. g = F(g)
  <2>1. ASSUME NEW s \in SUBSET S PROVE g[s] = F(g)[s]
    <3>1. g[s] = IF s = {} THEN T ELSE next[<<ch[s], g[s \ {ch[s]}]>>]
      BY <1>5 DEF FoldedFrom
    <3>2. CASE s = {}
      BY <3>1, <3>2
    <3>3. CASE s # {}
      <4>1. PICK x, v : x = ch[s] /\ v = g[s \ {ch[s]}]
        OBVIOUS
      <4>2. x \in S /\ v \in GoodTrees
        <5> HIDE DEF ch
        <5> QED
          BY <1>1, <1>5, <3>3, <4>1
      <4>3. next[<<x, v>>] = SetSkipped(v, x, on)
        BY <4>2
      <4>4. x = CHOOSE y \in s : TRUE
        BY <4>1
      <4>5. F(g)[s] = SetSkipped(v, x, on)
        BY <3>3, <4>1, <4>4
      <4> QED
        BY <3>1, <3>3, <4>1, <4>3, <4>5
    <3> QED
      BY <3>2, <3>3
  <2> QED
    BY <1>5, <2>1
<1>7. PICK h : h = CHOOSE i : i = F(i)
  OBVIOUS
<1>8. SkipAll(T, S, on) = h[S]
  BY <1>7 DEF SkipAll, FoldSet, MapThenFoldSet
<1>9. h = F(h)
  <2> HIDE DEF F
  <2> QED
    BY <1>6, <1>7
<1> HIDE DEF F, ch, next
<1>10. h[{}] \in GoodTrees
  BY <1>2, <1>9 DEF F
<1>11. ASSUME NEW s \in (SUBSET S) \ {{}}
       PROVE  \E x \in s : h[s \ {x}] \in GoodTrees => h[s] \in GoodTrees
  <2>1. PICK x \in s : x = CHOOSE y \in s : TRUE
    BY <1>1 DEF ch
  <2>2. h[s] = SetSkipped(h[s \ {x}], x, on)
    BY <1>9, <2>1 DEF F
  <2>3. ASSUME h[s \ {x}] \in GoodTrees PROVE h[s] \in GoodTrees
    <3>1. PICK v : v = h[s \ {x}]
      OBVIOUS
    <3>2. SetSkipped(v, x, on) \in GoodTrees
      BY <1>2, <2>3, <3>1
    <3> QED
      BY <2>2, <3>1, <3>2
  <2> QED
    BY <2>3
<1>12. h[S] \in GoodTrees
  BY IsFiniteSet(S), <1>10, <1>11, FoldStays
<1> QED
  BY <1>8, <1>12

\* Queueing walks, or boosts, one after the other.
LEMMA QueueScansKin ==
  ASSUME NEW i \in IndexStates, NEW S, S \subseteq Dirs, IsFiniteSet(S)
  PROVE  QueueScans(i, S) \in Kin(i)
<1>0. PICK A : A = Kin(i)
  OBVIOUS
<1> DEFINE ch == [s \in SUBSET S |-> CHOOSE y \in s : TRUE]
           next == [p \in S \X A |-> QueueScan(p[2], p[1], FALSE)]
           F(g) == [s \in SUBSET S |-> IF s = {} THEN i ELSE QueueScan(g[s \ {CHOOSE y \in s : TRUE}], CHOOSE y \in s : TRUE, FALSE)]
<1>1. \A s \in (SUBSET S) \ {{}} : ch[s] \in s
  <2> SUFFICES ASSUME NEW s \in SUBSET S, s # {} PROVE ch[s] \in s
    OBVIOUS
  <2>1. \E x \in s : TRUE
    OBVIOUS
  <2> QED
    BY <2>1
<1>2. i \in A /\ \A x \in S : \A v \in A : QueueScan(v, x, FALSE) \in A
  BY <1>0, QueueScanKin, KinOfKin DEF Kin
<1>3. next \in [S \X A -> A]
  BY <1>2
<1>4. \E g \in [SUBSET S -> A] : FoldedFrom(g, i, next, ch, S)
  <2> HIDE DEF next, ch
  <2> QED
    BY <1>1, <1>2, <1>3, FoldExists
<1>5. PICK g \in [SUBSET S -> A] : FoldedFrom(g, i, next, ch, S)
  BY <1>4
<1>6. g = F(g)
  <2>1. ASSUME NEW s \in SUBSET S PROVE g[s] = F(g)[s]
    <3>1. g[s] = IF s = {} THEN i ELSE next[<<ch[s], g[s \ {ch[s]}]>>]
      BY <1>5 DEF FoldedFrom
    <3>2. CASE s = {}
      BY <3>1, <3>2
    <3>3. CASE s # {}
      <4>1. PICK x, v : x = ch[s] /\ v = g[s \ {ch[s]}]
        OBVIOUS
      <4>2. x \in S /\ v \in A
        <5> HIDE DEF ch
        <5> QED
          BY <1>1, <1>5, <3>3, <4>1
      <4>3. next[<<x, v>>] = QueueScan(v, x, FALSE)
        BY <4>2
      <4>4. x = CHOOSE y \in s : TRUE
        BY <4>1
      <4>5. F(g)[s] = QueueScan(v, x, FALSE)
        BY <3>3, <4>1, <4>4
      <4> QED
        BY <3>1, <3>3, <4>1, <4>3, <4>5
    <3> QED
      BY <3>2, <3>3
  <2> QED
    BY <1>5, <2>1
<1>7. PICK h : h = CHOOSE f : f = F(f)
  OBVIOUS
<1>8. QueueScans(i, S) = h[S]
  BY <1>7 DEF QueueScans, FoldSet, MapThenFoldSet
<1>9. h = F(h)
  <2> HIDE DEF F
  <2> QED
    BY <1>6, <1>7
<1> HIDE DEF F, ch, next
<1>10. h[{}] \in A
  BY <1>2, <1>9 DEF F
<1>11. ASSUME NEW s \in (SUBSET S) \ {{}}
       PROVE  \E x \in s : h[s \ {x}] \in A => h[s] \in A
  <2>1. PICK x \in s : x = CHOOSE y \in s : TRUE
    BY <1>1 DEF ch
  <2>2. h[s] = QueueScan(h[s \ {x}], x, FALSE)
    BY <1>9, <2>1 DEF F
  <2>3. ASSUME h[s \ {x}] \in A PROVE h[s] \in A
    <3>1. PICK v : v = h[s \ {x}]
      OBVIOUS
    <3>2. QueueScan(v, x, FALSE) \in A
      BY <1>2, <2>3, <3>1
    <3> QED
      BY <2>2, <3>1, <3>2
  <2> QED
    BY <2>3
<1>12. h[S] \in A
  BY IsFiniteSet(S), <1>10, <1>11, FoldStays
<1> QED
  BY <1>0, <1>8, <1>12

LEMMA QueueBoostsKin ==
  ASSUME NEW i \in IndexStates, NEW S, S \subseteq Dirs, IsFiniteSet(S)
  PROVE  QueueBoosts(i, S) \in Kin(i)
<1>0. PICK A : A = Kin(i)
  OBVIOUS
<1> DEFINE ch == [s \in SUBSET S |-> CHOOSE y \in s : TRUE]
           next == [p \in S \X A |-> QueueBoost(p[2], p[1], FALSE)]
           F(g) == [s \in SUBSET S |-> IF s = {} THEN i ELSE QueueBoost(g[s \ {CHOOSE y \in s : TRUE}], CHOOSE y \in s : TRUE, FALSE)]
<1>1. \A s \in (SUBSET S) \ {{}} : ch[s] \in s
  <2> SUFFICES ASSUME NEW s \in SUBSET S, s # {} PROVE ch[s] \in s
    OBVIOUS
  <2>1. \E x \in s : TRUE
    OBVIOUS
  <2> QED
    BY <2>1
<1>2. i \in A /\ \A x \in S : \A v \in A : QueueBoost(v, x, FALSE) \in A
  BY <1>0, QueueBoostKin, KinOfKin DEF Kin
<1>3. next \in [S \X A -> A]
  BY <1>2
<1>4. \E g \in [SUBSET S -> A] : FoldedFrom(g, i, next, ch, S)
  <2> HIDE DEF next, ch
  <2> QED
    BY <1>1, <1>2, <1>3, FoldExists
<1>5. PICK g \in [SUBSET S -> A] : FoldedFrom(g, i, next, ch, S)
  BY <1>4
<1>6. g = F(g)
  <2>1. ASSUME NEW s \in SUBSET S PROVE g[s] = F(g)[s]
    <3>1. g[s] = IF s = {} THEN i ELSE next[<<ch[s], g[s \ {ch[s]}]>>]
      BY <1>5 DEF FoldedFrom
    <3>2. CASE s = {}
      BY <3>1, <3>2
    <3>3. CASE s # {}
      <4>1. PICK x, v : x = ch[s] /\ v = g[s \ {ch[s]}]
        OBVIOUS
      <4>2. x \in S /\ v \in A
        <5> HIDE DEF ch
        <5> QED
          BY <1>1, <1>5, <3>3, <4>1
      <4>3. next[<<x, v>>] = QueueBoost(v, x, FALSE)
        BY <4>2
      <4>4. x = CHOOSE y \in s : TRUE
        BY <4>1
      <4>5. F(g)[s] = QueueBoost(v, x, FALSE)
        BY <3>3, <4>1, <4>4
      <4> QED
        BY <3>1, <3>3, <4>1, <4>3, <4>5
    <3> QED
      BY <3>2, <3>3
  <2> QED
    BY <1>5, <2>1
<1>7. PICK h : h = CHOOSE f : f = F(f)
  OBVIOUS
<1>8. QueueBoosts(i, S) = h[S]
  BY <1>7 DEF QueueBoosts, FoldSet, MapThenFoldSet
<1>9. h = F(h)
  <2> HIDE DEF F
  <2> QED
    BY <1>6, <1>7
<1> HIDE DEF F, ch, next
<1>10. h[{}] \in A
  BY <1>2, <1>9 DEF F
<1>11. ASSUME NEW s \in (SUBSET S) \ {{}}
       PROVE  \E x \in s : h[s \ {x}] \in A => h[s] \in A
  <2>1. PICK x \in s : x = CHOOSE y \in s : TRUE
    BY <1>1 DEF ch
  <2>2. h[s] = QueueBoost(h[s \ {x}], x, FALSE)
    BY <1>9, <2>1 DEF F
  <2>3. ASSUME h[s \ {x}] \in A PROVE h[s] \in A
    <3>1. PICK v : v = h[s \ {x}]
      OBVIOUS
    <3>2. QueueBoost(v, x, FALSE) \in A
      BY <1>2, <2>3, <3>1
    <3> QED
      BY <2>2, <3>1, <3>2
  <2> QED
    BY <2>3
<1>12. h[S] \in A
  BY IsFiniteSet(S), <1>10, <1>11, FoldStays
<1> QED
  BY <1>0, <1>8, <1>12

DiskType == DOMAIN disk \subseteq Dirs /\ disk \in [DOMAIN disk -> {0, 1}]

\* Of finitely many things one has the greatest number.
LEMMA GreatestOf ==
  ASSUME NEW S, IsFiniteSet(S), NEW f \in [S -> Nat], S # {}
  PROVE  \E d \in S : \A e \in S : f[e] <= f[d]
<1>1. PICK G : G = {s \in SUBSET S : s = {} \/ \E d \in s : \A e \in s : f[e] <= f[d]}
  OBVIOUS
<1>2. ASSUME NEW s \in (SUBSET S) \ {{}} PROVE \E x \in s : s \ {x} \in G => s \in G
  <2>1. PICK x \in s : TRUE
    OBVIOUS
  <2>2. ASSUME s \ {x} \in G PROVE \E d \in s : \A e \in s : f[e] <= f[d]
    <3>1. CASE s \ {x} = {}
      BY <3>1
    <3>2. CASE s \ {x} # {}
      <4>1. PICK d \in s \ {x} : \A e \in s \ {x} : f[e] <= f[d]
        BY <1>1, <2>2, <3>2
      <4>2. CASE f[x] <= f[d]
        BY <4>1, <4>2
      <4>3. CASE f[d] < f[x]
        BY <4>1, <4>3
      <4> QED
        BY <4>2, <4>3
    <3> QED
      BY <3>1, <3>2
  <2> QED
    BY <1>1, <2>2
<1>3. G \subseteq SUBSET S /\ {} \in G
  BY <1>1
<1>4. G = SUBSET S
  BY <1>2, <1>3, SubsetsAll
<1> QED
  BY <1>1, <1>4

LEMMA DeepestIn ==
  ASSUME NEW S, S \subseteq Dirs, IsFiniteSet(S), S # {}
  PROVE  Deepest(S) \in S
<1>1. PICK f : f = [d \in S |-> Cardinality(Above[d])]
  OBVIOUS
<1>2. f \in [S -> Nat]
  <2>1. ASSUME NEW d \in S PROVE Cardinality(Above[d]) \in Nat
    BY AboveType, TreeAssumption, FS_Subset, FS_CardinalityType
  <2> QED
    BY <1>1, <2>1
<1>3. \E d \in S : \A e \in S : f[e] <= f[d]
  BY <1>2, GreatestOf
<1>4. \E d \in S : \A e \in S : Cardinality(Above[e]) <= Cardinality(Above[d])
  BY <1>1, <1>3
<1> QED
  BY <1>4 DEF Deepest

LEMMA ListingType ==
  ASSUME DiskType, NEW d \in DOMAIN disk
  PROVE  Listing(d) \in ListingsOf(d)
<1>1. disk[d] \in Nat
  BY DEF DiskType
<1> QED
  BY <1>1 DEF Listing, ListingsOf

\* Reading directories one after the other into the tree.
LEMMA ReadAllGood ==
  ASSUME DiskType, NEW S, S \subseteq DOMAIN disk
  PROVE  ReadAll(S) \in GoodTrees
<1>0. IsFiniteSet(S)
  BY TreeAssumption, FS_Subset DEF DiskType
<1> DEFINE ch == [s \in SUBSET S |-> CHOOSE y \in s : TRUE]
           next == [p \in S \X GoodTrees |-> MergeRecord(p[2], p[1], Listing(p[1]))]
           F(g) == [s \in SUBSET S |-> IF s = {} THEN EmptyTree ELSE MergeRecord(g[s \ {CHOOSE y \in s : TRUE}], CHOOSE y \in s : TRUE, Listing(CHOOSE y \in s : TRUE))]
<1>1. \A s \in (SUBSET S) \ {{}} : ch[s] \in s
  <2> SUFFICES ASSUME NEW s \in SUBSET S, s # {} PROVE ch[s] \in s
    OBVIOUS
  <2>1. \E x \in s : TRUE
    OBVIOUS
  <2> QED
    BY <2>1
<1>2. EmptyTree \in GoodTrees /\ \A x \in S : \A v \in GoodTrees : MergeRecord(v, x, Listing(x)) \in GoodTrees
  <2>1. ASSUME NEW x \in S, NEW v \in GoodTrees PROVE MergeRecord(v, x, Listing(x)) \in GoodTrees
    BY ListingType, MergeGood DEF DiskType
  <2> QED
    BY <2>1, EmptyGood
<1>3. next \in [S \X GoodTrees -> GoodTrees]
  BY <1>2
<1>4. \E g \in [SUBSET S -> GoodTrees] : FoldedFrom(g, EmptyTree, next, ch, S)
  <2> HIDE DEF next, ch
  <2> QED
    BY <1>0, <1>1, <1>2, <1>3, FoldExists
<1>5. PICK g \in [SUBSET S -> GoodTrees] : FoldedFrom(g, EmptyTree, next, ch, S)
  BY <1>4
<1>6. g = F(g)
  <2>1. ASSUME NEW s \in SUBSET S PROVE g[s] = F(g)[s]
    <3>1. g[s] = IF s = {} THEN EmptyTree ELSE next[<<ch[s], g[s \ {ch[s]}]>>]
      BY <1>5 DEF FoldedFrom
    <3>2. CASE s = {}
      BY <3>1, <3>2
    <3>3. CASE s # {}
      <4>1. PICK x, v : x = ch[s] /\ v = g[s \ {ch[s]}]
        OBVIOUS
      <4>2. x \in S /\ v \in GoodTrees
        <5> HIDE DEF ch
        <5> QED
          BY <1>1, <1>5, <3>3, <4>1
      <4>3. next[<<x, v>>] = MergeRecord(v, x, Listing(x))
        BY <4>2
      <4>4. x = CHOOSE y \in s : TRUE
        BY <4>1
      <4>5. F(g)[s] = MergeRecord(v, x, Listing(x))
        BY <3>3, <4>1, <4>4
      <4> QED
        BY <3>1, <3>3, <4>1, <4>3, <4>5
    <3> QED
      BY <3>2, <3>3
  <2> QED
    BY <1>5, <2>1
<1>7. PICK h : h = CHOOSE i : i = F(i)
  OBVIOUS
<1>8. ReadAll(S) = h[S]
  BY <1>7 DEF ReadAll, FoldSet, MapThenFoldSet
<1>9. h = F(h)
  <2> HIDE DEF F
  <2> QED
    BY <1>6, <1>7
<1> HIDE DEF F, ch, next
<1>10. h[{}] \in GoodTrees
  BY <1>2, <1>9 DEF F
<1>11. ASSUME NEW s \in (SUBSET S) \ {{}}
       PROVE  \E x \in s : h[s \ {x}] \in GoodTrees => h[s] \in GoodTrees
  <2>1. PICK x \in s : x = CHOOSE y \in s : TRUE
    BY <1>1 DEF ch
  <2>2. h[s] = MergeRecord(h[s \ {x}], x, Listing(x))
    BY <1>9, <2>1 DEF F
  <2>3. ASSUME h[s \ {x}] \in GoodTrees PROVE h[s] \in GoodTrees
    <3>1. PICK v : v = h[s \ {x}]
      OBVIOUS
    <3>2. MergeRecord(v, x, Listing(x)) \in GoodTrees
      BY <1>2, <2>3, <3>1
    <3> QED
      BY <2>2, <3>1, <3>2
  <2> QED
    BY <2>3
<1>12. h[S] \in GoodTrees
  BY <1>0, <1>10, <1>11, FoldStays
<1> QED
  BY <1>8, <1>12

\* A walk records a listing for each directory it enters.
Records == UNION {[dir : {d}, listing : ListingsOf(d)] : d \in Dirs}

LEMMA RecordType ==
  /\ \A r \in Records : r.dir \in Dirs /\ r.listing \in ListingsOf(r.dir)
  /\ \A d \in Dirs : \A l \in ListingsOf(d) : [dir |-> d, listing |-> l] \in Records
<1>1. ASSUME NEW r \in Records PROVE r.dir \in Dirs /\ r.listing \in ListingsOf(r.dir)
  <2>1. PICK d \in Dirs : r \in [dir : {d}, listing : ListingsOf(d)]
    BY DEF Records
  <2>2. r.dir = d /\ r.listing \in ListingsOf(d)
    BY <2>1
  <2> QED
    BY <2>2
<1>2. ASSUME NEW d \in Dirs, NEW l \in ListingsOf(d) PROVE [dir |-> d, listing |-> l] \in Records
  <2>1. [dir |-> d, listing |-> l] \in [dir : {d}, listing : ListingsOf(d)]
    OBVIOUS
  <2> QED
    BY <2>1 DEF Records
<1> QED
  BY <1>1, <1>2

\* The records of a walk.
LEMMA MergedGood ==
  ASSUME NEW T \in GoodTrees, NEW records \in Seq(Records)
  PROVE  Merged(T, records) \in GoodTrees
<1>0. PICK K : K = DOMAIN records /\ IsFiniteSet(K) /\ K \subseteq Nat
               /\ \A k \in K : records[k].dir \in Dirs /\ records[k].listing \in ListingsOf(records[k].dir)
  <2>1. DOMAIN records = 1..Len(records) /\ Len(records) \in Nat
    OBVIOUS
  <2>2. IsFiniteSet(1..Len(records))
    BY <2>1, FS_Interval
  <2>3. \A k \in DOMAIN records : records[k].dir \in Dirs /\ records[k].listing \in ListingsOf(records[k].dir)
    <3> SUFFICES ASSUME NEW k \in DOMAIN records
                 PROVE  records[k].dir \in Dirs /\ records[k].listing \in ListingsOf(records[k].dir)
      OBVIOUS
    <3>1. records[k] \in Records
      OBVIOUS
    <3> QED
      BY <3>1, RecordType
  <2> QED
    BY <2>1, <2>2, <2>3
<1> DEFINE ch == [s \in SUBSET K |-> Max(s)]
           next == [p \in K \X GoodTrees |-> MergeRecord(p[2], records[p[1]].dir, records[p[1]].listing)]
           F(g) == [s \in SUBSET K |-> IF s = {} THEN T ELSE MergeRecord(g[s \ {Max(s)}], records[Max(s)].dir, records[Max(s)].listing)]
<1>1. \A s \in (SUBSET K) \ {{}} : ch[s] \in s
  <2> SUFFICES ASSUME NEW s \in SUBSET K, s # {} PROVE ch[s] \in s
    OBVIOUS
  <2>1. PICK f : f = [x \in s |-> x]
    OBVIOUS
  <2>2. f \in [s -> Nat] /\ IsFiniteSet(s)
    BY <1>0, <2>1, FS_Subset
  <2>3. \E d \in s : \A e \in s : f[e] <= f[d]
    BY <2>2, GreatestOf
  <2>4. \E d \in s : \A e \in s : d >= e
    BY <1>0, <2>1, <2>3
  <2> QED
    BY <2>4 DEF Max
<1>2. T \in GoodTrees /\ \A x \in K : \A v \in GoodTrees : MergeRecord(v, records[x].dir, records[x].listing) \in GoodTrees
  BY <1>0, MergeGood
<1>3. next \in [K \X GoodTrees -> GoodTrees]
  BY <1>2
<1>4. \E g \in [SUBSET K -> GoodTrees] : FoldedFrom(g, T, next, ch, K)
  <2> HIDE DEF next, ch
  <2> QED
    BY <1>0, <1>1, <1>2, <1>3, FoldExists
<1>5. PICK g \in [SUBSET K -> GoodTrees] : FoldedFrom(g, T, next, ch, K)
  BY <1>4
<1>6. g = F(g)
  <2>1. ASSUME NEW s \in SUBSET K PROVE g[s] = F(g)[s]
    <3>1. g[s] = IF s = {} THEN T ELSE next[<<ch[s], g[s \ {ch[s]}]>>]
      BY <1>5 DEF FoldedFrom
    <3>2. CASE s = {}
      BY <3>1, <3>2
    <3>3. CASE s # {}
      <4>1. PICK x, v : x = ch[s] /\ v = g[s \ {ch[s]}]
        OBVIOUS
      <4>2. x \in K /\ v \in GoodTrees
        <5> HIDE DEF ch
        <5> QED
          BY <1>1, <1>5, <3>3, <4>1
      <4>3. next[<<x, v>>] = MergeRecord(v, records[x].dir, records[x].listing)
        BY <4>2
      <4>4. x = Max(s)
        BY <4>1
      <4>5. F(g)[s] = MergeRecord(v, records[x].dir, records[x].listing)
        BY <3>3, <4>1, <4>4
      <4> QED
        BY <3>1, <3>3, <4>1, <4>3, <4>5
    <3> QED
      BY <3>2, <3>3
  <2> QED
    BY <1>5, <2>1
<1>7. PICK h : h = CHOOSE i : i = F(i)
  OBVIOUS
<1>8. Merged(T, records) = h[K]
  BY <1>0, <1>7 DEF Merged, FoldLeft, MapThenFoldSet
<1>9. h = F(h)
  <2> HIDE DEF F
  <2> QED
    BY <1>6, <1>7
<1> HIDE DEF F, ch, next
<1>10. h[{}] \in GoodTrees
  BY <1>2, <1>9 DEF F
<1>11. ASSUME NEW s \in (SUBSET K) \ {{}}
       PROVE  \E x \in s : h[s \ {x}] \in GoodTrees => h[s] \in GoodTrees
  <2>1. PICK x \in s : x = Max(s)
    BY <1>1 DEF ch
  <2>2. h[s] = MergeRecord(h[s \ {x}], records[x].dir, records[x].listing)
    BY <1>9, <2>1 DEF F
  <2>3. ASSUME h[s \ {x}] \in GoodTrees PROVE h[s] \in GoodTrees
    <3>1. PICK v : v = h[s \ {x}]
      OBVIOUS
    <3>2. MergeRecord(v, records[x].dir, records[x].listing) \in GoodTrees
      BY <1>2, <2>3, <3>1
    <3> QED
      BY <2>2, <3>1, <3>2
  <2> QED
    BY <2>3
<1>12. h[K] \in GoodTrees
  BY <1>0, <1>10, <1>11, FoldStays
<1> QED
  BY <1>8, <1>12

LEMMA FiniteDirs ==
  ASSUME NEW S, S \subseteq Dirs
  PROVE  IsFiniteSet(S)
BY TreeAssumption, FS_Subset

LEMMA ReskipKin ==
  ASSUME NEW i \in IndexStates
  PROVE  Reskip(i) \in Kin(i)
<1>1. CASE i.fda
  BY <1>1 DEF Reskip, Kin
<1>2. CASE ~i.fda
  <2>1. PICK S : S = {p \in Protected \ i.visited :
                        p \in DOMAIN i.tree /\ i.tree[p].flags \cap {"scanned", "skipped"} = {}}
    OBVIOUS
  <2>2. S \subseteq Dirs /\ IsFiniteSet(S)
    BY <2>1, IndexAssumption, FiniteDirs
  <2>3. i.tree \in GoodTrees
    BY DEF IndexStates
  <2>4. PICK U : U = SkipAll(i.tree, S, TRUE)
    OBVIOUS
  <2>5. U \in GoodTrees
    BY <2>2, <2>3, <2>4, SkipAllGood
  <2>6. Reskip(i) = [i EXCEPT !.tree = U]
    BY <1>2, <2>1, <2>4 DEF Reskip
  <2> QED
    BY <2>5, <2>6, NewTree
<1> QED
  BY <1>1, <1>2

LEMMA RereadKin ==
  ASSUME DiskType, NEW i \in IndexStates, NEW d \in Dirs
  PROVE  Reread(i, d) \in Kin(i)
<1>1. i.tree \in GoodTrees
  BY DEF IndexStates
<1>2. CASE Blocked(i, d) \/ d \notin DOMAIN i.tree \/ "scanned" \notin i.tree[d].flags
  BY <1>2 DEF Reread, Kin
<1>3. CASE ~(Blocked(i, d) \/ d \notin DOMAIN i.tree \/ "scanned" \notin i.tree[d].flags) /\ d \notin DOMAIN disk
  <2>1. PICK U : U = IF d = RootDir THEN i.tree ELSE Prune(i.tree, d)
    OBVIOUS
  <2>2. U \in GoodTrees
    BY <1>1, <2>1, PruneGood
  <2>3. PICK j : j = [i EXCEPT !.tree = U]
    OBVIOUS
  <2>4. j \in Kin(i)
    BY <2>2, <2>3, NewTree
  <2>5. Reread(i, d) = Reskip(j)
    BY <1>3, <2>1, <2>3 DEF Reread
  <2> QED
    BY <2>4, <2>5, ReskipKin, KinOfKin
<1>4. CASE ~(Blocked(i, d) \/ d \notin DOMAIN i.tree \/ "scanned" \notin i.tree[d].flags) /\ d \in DOMAIN disk
  <2>1. PICK U : U = SetListing(i.tree, d, Listing(d))
    OBVIOUS
  <2>2. U \in GoodTrees
    BY <1>1, <1>4, <2>1, ListingType, SetListingGood
  <2>3. PICK j : j = Reskip([i EXCEPT !.tree = U])
    OBVIOUS
  <2>4. j \in Kin(i)
    BY <2>2, <2>3, NewTree, ReskipKin, KinOfKin
  <2>5. PICK open : open = {c \in AddedBy(i.tree, d, Listing(d)) : ~Blocked(j, c)}
    OBVIOUS
  <2>6. open \subseteq Dirs
    BY <2>5 DEF AddedBy, Listing, Children
  <2>7. PICK A, B : A = open \cap Shown /\ B = open \ Shown
    OBVIOUS
  <2>8. A \subseteq Dirs /\ B \subseteq Dirs /\ IsFiniteSet(A) /\ IsFiniteSet(B)
    BY <2>6, <2>7, FiniteDirs
  <2>9. PICK k : k = QueueBoosts(j, A)
    OBVIOUS
  <2>10. k \in Kin(i)
    BY <2>4, <2>8, <2>9, QueueBoostsKin, KinOfKin
  <2>11. QueueScans(k, B) \in Kin(i)
    BY <2>8, <2>10, QueueScansKin, KinOfKin
  <2>12. Reread(i, d) = QueueScans(k, B)
    BY <1>4, <2>1, <2>3, <2>5, <2>7, <2>9 DEF Reread
  <2> QED
    BY <2>11, <2>12
<1> QED
  BY <1>2, <1>3, <1>4

\* Re-reading directories one after the other.
LEMMA RereadsKin ==
  ASSUME DiskType, NEW i \in IndexStates, NEW S, S \subseteq Dirs, IsFiniteSet(S)
  PROVE  Rereads(i, S) \in Kin(i)
<1>0. PICK A : A = Kin(i)
  OBVIOUS
<1> DEFINE ch == [s \in SUBSET S |-> Deepest(s)]
           next == [p \in S \X A |-> Reread(p[2], p[1])]
           F(g) == [s \in SUBSET S |-> IF s = {} THEN i ELSE Reread(g[s \ {Deepest(s)}], Deepest(s))]
<1>1. \A s \in (SUBSET S) \ {{}} : ch[s] \in s
  <2> SUFFICES ASSUME NEW s \in SUBSET S, s # {} PROVE ch[s] \in s
    OBVIOUS
  <2>1. s \subseteq Dirs /\ IsFiniteSet(s)
    BY FS_Subset
  <2> QED
    BY <2>1, DeepestIn
<1>2. i \in A /\ \A x \in S : \A v \in A : Reread(v, x) \in A
  BY <1>0, RereadKin, KinOfKin DEF Kin
<1>3. next \in [S \X A -> A]
  BY <1>2
<1>4. \E g \in [SUBSET S -> A] : FoldedFrom(g, i, next, ch, S)
  <2> HIDE DEF next, ch
  <2> QED
    BY <1>1, <1>2, <1>3, FoldExists
<1>5. PICK g \in [SUBSET S -> A] : FoldedFrom(g, i, next, ch, S)
  BY <1>4
<1>6. g = F(g)
  <2>1. ASSUME NEW s \in SUBSET S PROVE g[s] = F(g)[s]
    <3>1. g[s] = IF s = {} THEN i ELSE next[<<ch[s], g[s \ {ch[s]}]>>]
      BY <1>5 DEF FoldedFrom
    <3>2. CASE s = {}
      BY <3>1, <3>2
    <3>3. CASE s # {}
      <4>1. PICK x, v : x = ch[s] /\ v = g[s \ {ch[s]}]
        OBVIOUS
      <4>2. x \in S /\ v \in A
        <5> HIDE DEF ch
        <5> QED
          BY <1>1, <1>5, <3>3, <4>1
      <4>3. next[<<x, v>>] = Reread(v, x)
        BY <4>2
      <4>4. x = Deepest(s)
        BY <4>1
      <4>5. F(g)[s] = Reread(v, x)
        BY <3>3, <4>1, <4>4
      <4> QED
        BY <3>1, <3>3, <4>1, <4>3, <4>5
    <3> QED
      BY <3>2, <3>3
  <2> QED
    BY <1>5, <2>1
<1>7. PICK h : h = CHOOSE f : f = F(f)
  OBVIOUS
<1>8. Rereads(i, S) = h[S]
  BY <1>7 DEF Rereads, MapThenFoldSet
<1>9. h = F(h)
  <2> HIDE DEF F
  <2> QED
    BY <1>6, <1>7
<1> HIDE DEF F, ch, next
<1>10. h[{}] \in A
  BY <1>2, <1>9 DEF F
<1>11. ASSUME NEW s \in (SUBSET S) \ {{}}
       PROVE  \E x \in s : h[s \ {x}] \in A => h[s] \in A
  <2>1. PICK x \in s : x = Deepest(s)
    BY <1>1 DEF ch
  <2>2. h[s] = Reread(h[s \ {x}], x)
    BY <1>9, <2>1 DEF F
  <2>3. ASSUME h[s \ {x}] \in A PROVE h[s] \in A
    <3>1. PICK v : v = h[s \ {x}]
      OBVIOUS
    <3>2. Reread(v, x) \in A
      BY <1>2, <2>3, <3>1
    <3> QED
      BY <2>2, <3>1, <3>2
  <2> QED
    BY <2>3
<1>12. h[S] \in A
  BY IsFiniteSet(S), <1>10, <1>11, FoldStays
<1> QED
  BY <1>0, <1>8, <1>12

LEMMA ApplyPlanKin ==
  ASSUME DiskType, log \in Seq(Dirs), NEW i \in IndexStates, NEW events, events \subseteq Events
  PROVE  ApplyPlan(i, events) \in Kin(i)
<1>1. CASE \E e \in events : e.kind = "dropped"
  BY <1>1, StartFullKin DEF ApplyPlan
<1>2. CASE ~\E e \in events : e.kind = "dropped"
  <2>1. PICK rescan : rescan = {e.dir : e \in {x \in events : x.kind = "subtree"}}
    OBVIOUS
  <2>2. PICK outer : outer = {d \in rescan : Above[d] \cap rescan = {}}
    OBVIOUS
  <2>3. PICK reread : reread = {e.dir : e \in {x \in events : x.kind = "dir"}} \ UNION {Subtree(d) : d \in outer}
    OBVIOUS
  <2>4. reread \subseteq Dirs /\ outer \subseteq Dirs
    BY <2>1, <2>2, <2>3 DEF Events
  <2>5. IsFiniteSet(reread) /\ IsFiniteSet(outer)
    BY <2>4, FiniteDirs
  <2>6. PICK j : j = Rereads(i, reread)
    OBVIOUS
  <2>7. j \in Kin(i)
    BY <2>4, <2>5, <2>6, RereadsKin
  <2>8. QueueScans(j, outer) \in Kin(i)
    BY <2>4, <2>5, <2>7, QueueScansKin, KinOfKin
  <2>9. ApplyPlan(i, events) = QueueScans(j, outer)
    BY <1>2, <2>1, <2>2, <2>3, <2>6 DEF ApplyPlan
  <2> QED
    BY <2>8, <2>9
<1> QED
  BY <1>1, <1>2

LEMMA ApplyCatchUpKin ==
  ASSUME DiskType, log \in Seq(Dirs), NEW i \in IndexStates, NEW from,
         NEW events, events \subseteq Events, NEW current
  PROVE  ApplyCatchUp(i, from, events, current) \in Kin(i)
BY StartFullKin, ApplyPlanKin DEF ApplyCatchUp, Kin

LEMMA FinishedKin ==
  ASSUME NEW i \in IndexStates, NEW m, m.root \in Dirs
  PROVE  Finished(i, m) \in Kin(i)
<1>1. i.tree \in GoodTrees
  BY DEF IndexStates
<1>2. PICK U, V : U = PruneUnscanned(i.tree, m.root) /\ V = IF m.root = RootDir THEN i.tree ELSE Prune(i.tree, m.root)
  OBVIOUS
<1>3. U \in GoodTrees /\ V \in GoodTrees
  BY <1>1, <1>2, PruneUnscannedGood, PruneGood
<1>4. [i EXCEPT !.tree = U] \in Kin(i) /\ [i EXCEPT !.tree = V] \in Kin(i) /\ i \in Kin(i)
  BY <1>3, NewTree, KinOfKin
<1>5. \/ Finished(i, m) = [i EXCEPT !.tree = U]
      \/ Finished(i, m) = [i EXCEPT !.tree = V]
      \/ Finished(i, m) = i
  BY <1>2 DEF Finished
<1> QED
  BY <1>4, <1>5

LEMMA GuardGood ==
  ASSUME NEW i, NEW T \in GoodTrees, NEW p \in Protected
  PROVE  Guard(i, T, p) \in GoodTrees
<1>1. p \in Dirs /\ p # RootDir
  BY IndexAssumption
<1>2. PICK U : U = IF p \in DOMAIN T /\ "scanned" \in T[p].flags THEN Prune(T, p) ELSE T
  OBVIOUS
<1>3. U \in GoodTrees
  BY <1>1, <1>2, PruneGood
<1>4. SetSkipped(U, p, TRUE) \in GoodTrees /\ SetSkipped(T, p, FALSE) \in GoodTrees
  BY <1>1, <1>3, SetSkippedGood
<1>5. \/ Guard(i, T, p) = SetSkipped(U, p, TRUE) \/ Guard(i, T, p) = U
      \/ Guard(i, T, p) = SetSkipped(T, p, FALSE) \/ Guard(i, T, p) = T
  BY <1>2 DEF Guard
<1> QED
  BY <1>3, <1>4, <1>5

LEMMA GuardAllGood ==
  ASSUME NEW i, NEW T \in GoodTrees
  PROVE  GuardAll(i, T) \in GoodTrees
<1>0. IsFiniteSet(Protected)
  BY IndexAssumption, FiniteDirs
<1> DEFINE ch == [s \in SUBSET Protected |-> CHOOSE y \in s : TRUE]
           next == [q \in Protected \X GoodTrees |-> Guard(i, q[2], q[1])]
           F(g) == [s \in SUBSET Protected |-> IF s = {} THEN T ELSE Guard(i, g[s \ {CHOOSE y \in s : TRUE}], CHOOSE y \in s : TRUE)]
<1>1. \A s \in (SUBSET Protected) \ {{}} : ch[s] \in s
  <2> SUFFICES ASSUME NEW s \in SUBSET Protected, s # {} PROVE ch[s] \in s
    OBVIOUS
  <2>1. \E x \in s : TRUE
    OBVIOUS
  <2> QED
    BY <2>1
<1>2. T \in GoodTrees /\ \A x \in Protected : \A v \in GoodTrees : Guard(i, v, x) \in GoodTrees
  BY GuardGood
<1>3. next \in [Protected \X GoodTrees -> GoodTrees]
  BY <1>2
<1>4. \E g \in [SUBSET Protected -> GoodTrees] : FoldedFrom(g, T, next, ch, Protected)
  <2> HIDE DEF next, ch
  <2> QED
    BY <1>0, <1>1, <1>2, <1>3, FoldExists
<1>5. PICK g \in [SUBSET Protected -> GoodTrees] : FoldedFrom(g, T, next, ch, Protected)
  BY <1>4
<1>6. g = F(g)
  <2>1. ASSUME NEW s \in SUBSET Protected PROVE g[s] = F(g)[s]
    <3>1. g[s] = IF s = {} THEN T ELSE next[<<ch[s], g[s \ {ch[s]}]>>]
      BY <1>5 DEF FoldedFrom
    <3>2. CASE s = {}
      BY <3>1, <3>2
    <3>3. CASE s # {}
      <4>1. PICK x, v : x = ch[s] /\ v = g[s \ {ch[s]}]
        OBVIOUS
      <4>2. x \in Protected /\ v \in GoodTrees
        <5> HIDE DEF ch
        <5> QED
          BY <1>1, <1>5, <3>3, <4>1
      <4>3. next[<<x, v>>] = Guard(i, v, x)
        BY <4>2
      <4>4. x = CHOOSE y \in s : TRUE
        BY <4>1
      <4>5. F(g)[s] = Guard(i, v, x)
        BY <3>3, <4>1, <4>4
      <4> QED
        BY <3>1, <3>3, <4>1, <4>3, <4>5
    <3> QED
      BY <3>2, <3>3
  <2> QED
    BY <1>5, <2>1
<1>7. PICK h : h = CHOOSE f : f = F(f)
  OBVIOUS
<1>8. GuardAll(i, T) = h[Protected]
  BY <1>7 DEF GuardAll, FoldSet, MapThenFoldSet
<1>9. h = F(h)
  <2> HIDE DEF F
  <2> QED
    BY <1>6, <1>7
<1> HIDE DEF F, ch, next
<1>10. h[{}] \in GoodTrees
  BY <1>2, <1>9 DEF F
<1>11. ASSUME NEW s \in (SUBSET Protected) \ {{}}
       PROVE  \E x \in s : h[s \ {x}] \in GoodTrees => h[s] \in GoodTrees
  <2>1. PICK x \in s : x = CHOOSE y \in s : TRUE
    BY <1>1 DEF ch
  <2>2. h[s] = Guard(i, h[s \ {x}], x)
    BY <1>9, <2>1 DEF F
  <2>3. ASSUME h[s \ {x}] \in GoodTrees PROVE h[s] \in GoodTrees
    <3>1. PICK v : v = h[s \ {x}]
      OBVIOUS
    <3>2. Guard(i, v, x) \in GoodTrees
      BY <1>2, <2>3, <3>1
    <3> QED
      BY <2>2, <3>1, <3>2
  <2> QED
    BY <2>3
<1>12. h[Protected] \in GoodTrees
  BY <1>0, <1>10, <1>11, FoldStays
<1> QED
  BY <1>8, <1>12

LEMMA ApplyPrivacyKin ==
  ASSUME NEW i \in IndexStates
  PROVE  ApplyPrivacy(i) \in Kin(i)
<1>1. i.tree \in GoodTrees
  BY DEF IndexStates
<1>2. PICK U : U = GuardAll(i, i.tree)
  OBVIOUS
<1>3. U \in GoodTrees
  BY <1>1, <1>2, GuardAllGood
<1>4. ApplyPrivacy(i) = [i EXCEPT !.tree = U]
  BY <1>2 DEF ApplyPrivacy
<1> QED
  BY <1>3, <1>4, NewTree

-----------------------------------------------------------------------------
(* The inductive invariant.                                                *)

Outcomes == {"no", "skipped", "gone", "cancelled"}

WalkStates ==
  [root : Dirs, full : BOOLEAN, todo : SUBSET Dirs, skip : SUBSET Dirs,
   batch : Seq(Records), at : {"idle", "walk"}, failed : Outcomes]

Messages ==
  [type : {"events"}, events : SUBSET Events, top : Nat, done : BOOLEAN]
    \cup [type : {"records"}, records : Seq(Records)]
    \cup [type : {"scanDone"}, root : Dirs, full : BOOLEAN, outcome : Outcomes \cup {"walked"}]
    \cup [type : {"boostDone"}, root : Dirs, outcome : Outcomes \cup {"walked"}]
    \cup [type : {"visited"}, root : Protected]

\* A walk under way enters none of the directories that are protected now, and
\* the ones it is about to read that are blocked now are among them.
StaysOut(i, w) ==
  w.at = "walk" =>
    /\ ~i.fda => Protected \ i.visited \subseteq w.skip
    /\ \A d \in w.todo : Blocked(i, d) => d \in w.skip

IndexTypeOK ==
  /\ DiskType /\ log \in Seq(Dirs) /\ sent \in Nat
  /\ ix \in IndexStates /\ inbox \in Seq(Messages)
  /\ scan \in WalkStates /\ boost \in WalkStates

WalksStayOut == StaysOut(ix, scan) /\ StaysOut(ix, boost)
NoWalkBeforeBoot == ix.phase \in {"down", "booting"} => scan.at = "idle" /\ boost.at = "idle"

IndexIInv == IndexTypeOK /\ WalksStayOut /\ NoWalkBeforeBoot /\ ~trespass

LEMMA NoWalkType == NoWalk \in WalkStates /\ NoWalk.at = "idle"
<1>1. <<>> \in Seq(Records)
  OBVIOUS
<1>2. RootDir \in Dirs
  BY TreeAssumption
<1> QED
  BY <1>1, <1>2 DEF NoWalk, WalkStates, Outcomes

LEMMA StaysOutMore ==
  ASSUME NEW i, NEW j, NEW w, StaysOut(i, w), i.visited \subseteq j.visited, i.fda => j.fda
  PROVE  StaysOut(j, w)
BY DEF StaysOut, Blocked

\* A handler of the coordination thread, a launch, and a message.
LEMMA IndexStep ==
  ASSUME IndexIInv, ix' \in IndexStates, ix.visited \subseteq ix'.visited, ix.fda => ix'.fda,
         ix'.phase \in {"down", "booting"} => ix.phase \in {"down", "booting"},
         sent' \in Nat, inbox' \in Seq(Messages), UNCHANGED <<disk, log, scan, boost, trespass>>
  PROVE  IndexIInv'
<1>1. StaysOut(ix', scan) /\ StaysOut(ix', boost)
  BY StaysOutMore DEF IndexIInv, WalksStayOut
<1>2. WalksStayOut'
  BY <1>1 DEF WalksStayOut
<1> QED
  BY <1>2 DEF IndexIInv, IndexTypeOK, NoWalkBeforeBoot, DiskType

LEMMA HandlerStep ==
  ASSUME IndexIInv, ix' \in Kin(ix), inbox' \in Seq(Messages),
         UNCHANGED <<disk, log, sent, scan, boost, trespass>>
  PROVE  IndexIInv'
BY IndexStep DEF IndexIInv, IndexTypeOK, Kin

LEMMA DiskStep ==
  ASSUME IndexIInv, DiskType', log' \in Seq(Dirs),
         UNCHANGED <<sent, ix, inbox, scan, boost, trespass>>
  PROVE  IndexIInv'
BY DEF IndexIInv, IndexTypeOK, WalksStayOut, NoWalkBeforeBoot, StaysOut, Blocked

LEMMA WriteDirStep ==
  ASSUME IndexIInv, NEW d \in Dirs, WriteDir(d)
  PROVE  IndexIInv'
<1>1. log' = Append(log, d) /\ disk' = [disk EXCEPT ![d] = 1 - disk[d]] /\ d \in DOMAIN disk
      /\ UNCHANGED <<sent, ix, inbox, scan, boost, trespass>>
  BY DEF WriteDir, Changed
<1>2. log' \in Seq(Dirs) /\ DiskType'
  BY <1>1 DEF IndexIInv, IndexTypeOK, DiskType
<1> QED
  BY <1>1, <1>2, DiskStep

LEMMA MakeDirStep ==
  ASSUME IndexIInv, NEW d \in Dirs, MakeDir(d)
  PROVE  IndexIInv'
<1>1. log' = Append(log, Parent(d)) /\ Parent(d) \in DOMAIN disk
      /\ disk' = [e \in DOMAIN disk \cup {d} |-> IF e = d THEN 0 ELSE disk[e]]
      /\ UNCHANGED <<sent, ix, inbox, scan, boost, trespass>>
  BY DEF MakeDir, Changed
<1>2. log' \in Seq(Dirs) /\ DiskType'
  BY <1>1 DEF IndexIInv, IndexTypeOK, DiskType
<1> QED
  BY <1>1, <1>2, DiskStep

LEMMA RemoveDirStep ==
  ASSUME IndexIInv, NEW d \in Dirs, RemoveDir(d)
  PROVE  IndexIInv'
<1>1. log' = Append(log, Parent(d)) /\ d # RootDir
      /\ disk' = [e \in DOMAIN disk \ Subtree(d) |-> disk[e]]
      /\ UNCHANGED <<sent, ix, inbox, scan, boost, trespass>>
  BY DEF RemoveDir, Changed
<1>2. Parent(d) \in Dirs
  BY <1>1, ParentIsNearest
<1>3. log' \in Seq(Dirs) /\ DiskType'
  BY <1>1, <1>2 DEF IndexIInv, IndexTypeOK, DiskType
<1> QED
  BY <1>1, <1>3, DiskStep

LEMMA DeliverStep ==
  ASSUME IndexIInv, NEW k \in 0..MaxLog, Deliver(k)
  PROVE  IndexIInv'
<1>1. inbox \in Seq(Messages) /\ log \in Seq(Dirs) /\ sent \in Nat /\ k \in Nat
  BY IndexAssumption DEF IndexIInv, IndexTypeOK
<1>2. PICK dirs : dirs = {log[n] : n \in (sent + 1)..k}
  OBVIOUS
<1>3. dirs \subseteq Dirs
  <2>1. k \in sent..Len(log)
    BY DEF Deliver
  <2> QED
    BY <1>1, <1>2, <2>1
<1>4. \E events \in SUBSET Events :
        inbox' = Append(inbox, [type |-> "events", events |-> events, top |-> k, done |-> k >= ix.history])
  <2>1. CASE inbox' = Append(inbox, [type |-> "events", events |-> {[dir |-> d, kind |-> "dir"] : d \in dirs},
                                     top |-> k, done |-> k >= ix.history])
    <3>1. {[dir |-> d, kind |-> "dir"] : d \in dirs} \in SUBSET Events
      BY <1>3 DEF Events
    <3> QED
      BY <2>1, <3>1
  <2>2. CASE \E d \in Dirs : inbox' = Append(inbox, [type |-> "events", events |-> {[dir |-> d, kind |-> "subtree"]},
                                                     top |-> k, done |-> k >= ix.history])
    <3>1. PICK d \in Dirs : inbox' = Append(inbox, [type |-> "events", events |-> {[dir |-> d, kind |-> "subtree"]},
                                                    top |-> k, done |-> k >= ix.history])
      BY <2>2
    <3>2. {[dir |-> d, kind |-> "subtree"]} \in SUBSET Events
      BY DEF Events
    <3> QED
      BY <3>1, <3>2
  <2>3. CASE inbox' = Append(inbox, [type |-> "events", events |-> {[dir |-> RootDir, kind |-> "dropped"]},
                                     top |-> k, done |-> k >= ix.history])
    <3>1. {[dir |-> RootDir, kind |-> "dropped"]} \in SUBSET Events
      BY TreeAssumption DEF Events
    <3> QED
      BY <2>3, <3>1
  <2> QED
    BY <1>2, <2>1, <2>2, <2>3 DEF Deliver
<1>5. inbox' \in Seq(Messages)
  <2>1. PICK events \in SUBSET Events :
          inbox' = Append(inbox, [type |-> "events", events |-> events, top |-> k, done |-> k >= ix.history])
    BY <1>4
  <2>2. PICK m : m = [type |-> "events", events |-> events, top |-> k, done |-> k >= ix.history]
    OBVIOUS
  <2>3. m \in Messages
    BY <1>1, <2>2 DEF Messages
  <2> QED
    BY <1>1, <2>1, <2>2, <2>3
<1>6. sent' = k /\ UNCHANGED <<disk, log, ix, scan, boost, trespass>>
  BY DEF Deliver
<1> QED
  BY <1>1, <1>5, <1>6, IndexStep DEF IndexIInv, IndexTypeOK

LEMMA LaunchStep ==
  ASSUME IndexIInv, Launch
  PROVE  IndexIInv'
<1>1. ix' = [ix EXCEPT !.phase = "booting", !.since = Len(log)] /\ ix.phase = "down"
      /\ UNCHANGED <<disk, log, sent, inbox, scan, boost, trespass>>
  BY DEF Launch
<1>2. Len(log) \in Nat
  BY DEF IndexIInv, IndexTypeOK
<1>3. ix' \in IndexStates /\ ix'.visited = ix.visited /\ ix'.fda = ix.fda
  BY <1>1, <1>2 DEF IndexIInv, IndexTypeOK, IndexStates
<1> QED
  BY <1>1, <1>3, IndexStep DEF IndexIInv, IndexTypeOK

LEMMA NewIndexType == NewIndex \in IndexStates /\ NewIndex.phase = "down"
<1>1. /\ <<>> \in Seq(Jobs) /\ <<>> \in Seq(Wishes) /\ {} \in SUBSET Events /\ {} \in SUBSET Protected
      /\ NoFull \in {NoFull} \cup [id : Nat, left : Int]
  OBVIOUS
<1>2. PICK T : T = EmptyTree
  OBVIOUS
<1>3. T \in GoodTrees
  BY <1>2, EmptyGood
<1>4. PICK s : s = NoSnapshot
  OBVIOUS
<1>5. s \in Snapshots
  BY <1>2, <1>3, <1>4 DEF NoSnapshot, Snapshots
<1>6. NewIndex = [phase |-> "down", tree |-> T, visited |-> {}, fda |-> FALSE,
                  meta |-> 0, last |-> 0, full |-> NoFull, inflight |-> 0,
                  background |-> <<>>, boosts |-> <<>>, since |-> 0, history |-> 0, replay |-> 0, events |-> {},
                  saved |-> s, due |-> TRUE]
  BY <1>2, <1>4 DEF NewIndex
<1> QED
  BY <1>1, <1>3, <1>5, <1>6 DEF IndexStates

\* The state a launch starts from: the snapshot's tree and visits.
LEMMA Booted ==
  ASSUME IndexIInv, NEW fda \in BOOLEAN, NEW usable \in BOOLEAN, NEW due \in BOOLEAN,
         NEW meta \in Nat, NEW last \in Nat
  PROVE  [NewIndex EXCEPT
                !.phase = IF usable THEN "catchUp" ELSE "live", !.fda = fda,
                !.tree = Recomputed(ix.saved.tree), !.visited = ix.saved.visited,
                !.meta = meta, !.last = last,
                !.since = ix.since, !.history = Len(log), !.replay = meta,
                !.saved = ix.saved, !.due = due] \in IndexStates
<1>1. PICK T, V : T = Recomputed(ix.saved.tree) /\ V = ix.saved.visited
  OBVIOUS
<1>2. T \in GoodTrees /\ V \subseteq Protected /\ ix.saved \in Snapshots
  <2>1. ix.saved \in Snapshots
    BY DEF IndexIInv, IndexTypeOK, IndexStates
  <2>2. ix.saved.tree \in GoodTrees /\ ix.saved.visited \subseteq Protected
    BY <2>1 DEF Snapshots
  <2> QED
    BY <1>1, <2>1, <2>2, GoodIsExact
<1>3. PICK p : p = IF usable THEN "catchUp" ELSE "live"
  OBVIOUS
<1>4. ix.since \in Nat /\ Len(log) \in Nat /\ p \in {"catchUp", "live"}
  BY <1>3 DEF IndexIInv, IndexTypeOK, IndexStates
<1>5. NewIndex \in IndexStates
  BY NewIndexType
<1>6. [NewIndex EXCEPT !.phase = p, !.fda = fda, !.tree = T, !.visited = V, !.meta = meta, !.last = last,
                       !.since = ix.since, !.history = Len(log), !.replay = meta,
                       !.saved = ix.saved, !.due = due] \in IndexStates
  BY <1>2, <1>4, <1>5 DEF IndexStates
<1> QED
  BY <1>1, <1>3, <1>6

LEMMA UnscannedDirs ==
  ASSUME NEW T \in GoodTrees
  PROVE  UnscannedTops(T) \subseteq Dirs
BY GoodTree DEF UnscannedTops, Topmost

LEMMA BootStep ==
  ASSUME IndexIInv, NEW fda \in Grants, NEW usable \in BOOLEAN, NEW weekly \in BOOLEAN,
         Boot(fda, usable, weekly)
  PROVE  IndexIInv'
<1>1. ix.phase = "booting" /\ scan.at = "idle" /\ boost.at = "idle"
  BY DEF Boot, IndexIInv, NoWalkBeforeBoot
<1>2. PICK id : id = IF usable THEN ix.saved.id ELSE ix.since
  OBVIOUS
<1>3. PICK meta : meta = IF usable THEN id ELSE 0
  OBVIOUS
<1>4. id \in Nat /\ meta \in Nat /\ Len(log) \in Nat /\ ix.due \in BOOLEAN
  <2>1. ix.saved \in Snapshots /\ ix.since \in Nat /\ Len(log) \in Nat /\ ix.due \in BOOLEAN
    BY DEF IndexIInv, IndexTypeOK, IndexStates
  <2> QED
    BY <1>2, <1>3, <2>1 DEF Snapshots
<1>5. PICK i0 : i0 = [NewIndex EXCEPT
                !.phase = IF usable THEN "catchUp" ELSE "live", !.fda = fda,
                !.tree = Recomputed(ix.saved.tree), !.visited = ix.saved.visited,
                !.meta = meta, !.last = id,
                !.since = ix.since, !.history = Len(log), !.replay = meta,
                !.saved = ix.saved, !.due = ~usable \/ weekly \/ ix.due]
  OBVIOUS
<1>6. i0 \in IndexStates
  <2>1. fda \in BOOLEAN
    BY IndexAssumption
  <2>2. PICK due \in BOOLEAN : due = (~usable \/ weekly \/ ix.due)
    OBVIOUS
  <2> QED
    BY <1>4, <1>5, <2>1, <2>2, Booted, ZenonT(40)
<1>7. PICK i : i = ApplyPrivacy(i0)
  OBVIOUS
<1>8. i \in IndexStates
  BY <1>6, <1>7, ApplyPrivacyKin, KinOfKin
<1>9. PICK S : S = UnscannedTops(i.tree)
  OBVIOUS
<1>10. S \subseteq Dirs /\ IsFiniteSet(S)
  BY <1>8, <1>9, UnscannedDirs, FiniteDirs DEF IndexStates
<1>11. ix' = IF i.due THEN StartFull(i) ELSE QueueScans(i, S)
  BY <1>2, <1>3, <1>5, <1>7, <1>9 DEF Boot
<1>12. ix' \in Kin(i)
  <2>1. log \in Seq(Dirs)
    BY DEF IndexIInv, IndexTypeOK
  <2> QED
    BY <1>8, <1>10, <1>11, <2>1, StartFullKin, QueueScansKin
<1>13. ix' \in IndexStates /\ ix'.phase \in {"catchUp", "live"}
  <2>1. i0.phase = IF usable THEN "catchUp" ELSE "live"
    BY <1>5 DEF NewIndex
  <2>2. ix'.phase = i.phase /\ i.phase = i0.phase
    BY <1>6, <1>7, <1>12, ApplyPrivacyKin DEF Kin
  <2> QED
    BY <1>12, <2>1, <2>2 DEF Kin
<1>14. sent' \in Nat /\ UNCHANGED <<disk, log, inbox, scan, boost, trespass>>
  BY <1>2, <1>4 DEF Boot
<1> QED
  BY <1>1, <1>13, <1>14 DEF IndexIInv, IndexTypeOK, WalksStayOut, StaysOut, NoWalkBeforeBoot, DiskType

LEMMA TakeType ==
  ASSUME IndexIInv, NEW type, Take(type)
  PROVE  /\ Head(inbox) \in Messages /\ Head(inbox).type = type /\ inbox' \in Seq(Messages)
         /\ ix.phase \in {"catchUp", "live"}
BY DEF IndexIInv, IndexTypeOK, Take, Running

LEMMA MessageType ==
  ASSUME NEW m \in Messages
  PROVE  /\ m.type = "events" => m.events \subseteq Events /\ m.top \in Nat
         /\ m.type = "records" => m.records \in Seq(Records)
         /\ m.type = "scanDone" => m.root \in Dirs /\ m.full \in BOOLEAN
         /\ m.type = "boostDone" => m.root \in Dirs
         /\ m.type = "visited" => m.root \in Protected
BY DEF Messages

LEMMA HandleEventsStep ==
  ASSUME IndexIInv, HandleEvents
  PROVE  IndexIInv'
<1>1. PICK m : m = Head(inbox)
  OBVIOUS
<1>2. m \in Messages /\ m.events \subseteq Events /\ m.top \in Nat /\ inbox' \in Seq(Messages)
      /\ ix.phase \in {"catchUp", "live"}
  BY <1>1, TakeType, MessageType DEF HandleEvents
<1>3. PICK seen : seen = ix.events \cup m.events
  OBVIOUS
<1>4. PICK live : live = [ix EXCEPT !.phase = "live", !.events = {}, !.replay = 0]
  OBVIOUS
<1>5. ix \in IndexStates /\ log \in Seq(Dirs) /\ DiskType /\ sent \in Nat /\ ix.since \in Nat /\ seen \subseteq Events
  BY <1>2, <1>3 DEF IndexIInv, IndexTypeOK, IndexStates
<1>6. live \in IndexStates /\ live.visited = ix.visited /\ live.fda = ix.fda /\ live.phase = "live"
  BY <1>4, <1>5 DEF IndexStates
<1>7. PICK j, k : j = ApplyCatchUp(live, ix.replay, seen, ix.since) /\ k = ApplyPlan(ix, m.events)
  OBVIOUS
<1>8. j \in Kin(live) /\ k \in Kin(ix)
  BY <1>2, <1>5, <1>6, <1>7, ApplyCatchUpKin, ApplyPlanKin
<1>9. UNCHANGED <<disk, log, sent, scan, boost, trespass>>
  BY DEF HandleEvents
<1>10. CASE ix' = [ix EXCEPT !.events = seen]
  <2>1. ix' \in Kin(ix)
    BY <1>5, <1>10 DEF Kin, IndexStates
  <2> QED
    BY <1>2, <1>9, <2>1, HandlerStep
<1>11. CASE ix' = Save([j EXCEPT !.last = MaxOf(MaxOf(j.last, m.top), ix.since)])
  <2>1. PICK n : n = MaxOf(MaxOf(j.last, m.top), ix.since)
    OBVIOUS
  <2>2. n \in Nat
    BY <1>2, <1>5, <1>8, <2>1 DEF MaxOf, Kin, IndexStates
  <2>3. PICK l : l = [j EXCEPT !.last = n]
    OBVIOUS
  <2>4. l \in Kin(live)
    BY <1>8, <2>2, <2>3 DEF Kin, IndexStates
  <2>5. ix' \in Kin(live)
    BY <1>6, <1>11, <2>1, <2>3, <2>4, SaveKin, KinOfKin
  <2>6. ix' \in IndexStates /\ ix'.visited = ix.visited /\ ix'.fda = ix.fda /\ ix'.phase = "live"
    BY <1>6, <2>5 DEF Kin
  <2> QED
    BY <1>2, <1>5, <1>9, <2>6, IndexStep
<1>12. CASE ix' = [k EXCEPT !.last = MaxOf(k.last, m.top)]
  <2>1. PICK n : n = MaxOf(k.last, m.top)
    OBVIOUS
  <2>2. n \in Nat
    BY <1>2, <1>8, <2>1 DEF MaxOf, Kin, IndexStates
  <2>3. ix' \in Kin(ix)
    BY <1>8, <1>12, <2>1, <2>2 DEF Kin, IndexStates
  <2> QED
    BY <1>2, <1>9, <2>3, HandlerStep
<1>13. \/ ix' = [ix EXCEPT !.events = seen]
       \/ ix' = Save([j EXCEPT !.last = MaxOf(MaxOf(j.last, m.top), ix.since)])
       \/ ix' = [k EXCEPT !.last = MaxOf(k.last, m.top)]
  BY <1>1, <1>2, <1>3, <1>4, <1>7 DEF HandleEvents
<1> QED
  BY <1>10, <1>11, <1>12, <1>13

LEMMA HandleRecordsStep ==
  ASSUME IndexIInv, HandleRecords
  PROVE  IndexIInv'
<1>1. PICK records : records = Head(inbox).records
  OBVIOUS
<1>2. records \in Seq(Records) /\ inbox' \in Seq(Messages)
  BY <1>1, TakeType, MessageType DEF HandleRecords
<1>3. ix \in IndexStates /\ ix.tree \in GoodTrees
  BY DEF IndexIInv, IndexTypeOK, IndexStates
<1>4. PICK T : T = Merged(ix.tree, records)
  OBVIOUS
<1>5. T \in GoodTrees
  BY <1>2, <1>3, <1>4, MergedGood
<1>6. PICK j : j = [ix EXCEPT !.tree = T]
  OBVIOUS
<1>7. j \in Kin(ix)
  BY <1>3, <1>5, <1>6, NewTree
<1>8. ix' = Reskip(j) /\ UNCHANGED <<disk, log, sent, scan, boost, trespass>>
  BY <1>1, <1>4, <1>6 DEF HandleRecords
<1>9. ix' \in Kin(ix)
  BY <1>3, <1>7, <1>8, ReskipKin, KinOfKin
<1> QED
  BY <1>2, <1>8, <1>9, HandlerStep

LEMMA HandleScanDoneStep ==
  ASSUME IndexIInv, HandleScanDone
  PROVE  IndexIInv'
<1>1. PICK m : m = Head(inbox)
  OBVIOUS
<1>2. m.root \in Dirs /\ m.full \in BOOLEAN /\ inbox' \in Seq(Messages)
  BY <1>1, TakeType, MessageType DEF HandleScanDone
<1>3. ix \in IndexStates
  BY DEF IndexIInv, IndexTypeOK
<1>4. PICK n : n = IF ix.inflight = 0 THEN 0 ELSE ix.inflight - 1
  OBVIOUS
<1>5. n \in Nat
  BY <1>3, <1>4 DEF IndexStates
<1>6. PICK h : h = [ix EXCEPT !.inflight = n]
  OBVIOUS
<1>7. h \in Kin(ix)
  BY <1>3, <1>5, <1>6 DEF Kin, IndexStates
<1>8. PICK i : i = Finished(h, m)
  OBVIOUS
<1>9. i \in Kin(ix)
  BY <1>2, <1>3, <1>7, <1>8, FinishedKin, KinOfKin
<1>10. PICK counts \in BOOLEAN : counts = (m.full /\ i.full # NoFull)
  BY <1>2
<1>11. PICK j : j = IF counts THEN [i EXCEPT !.full.left = @ - 1] ELSE i
  OBVIOUS
<1>12. j \in Kin(ix) /\ (counts => j.full # NoFull)
  <2>1. CASE ~counts
    BY <1>9, <1>11, <2>1
  <2>2. CASE counts
    <3>1. i.full \in [id : Nat, left : Int]
      BY <1>9, <1>10, <2>2 DEF Kin, IndexStates
    <3>2. PICK f : f = [i.full EXCEPT !.left = i.full.left - 1]
      OBVIOUS
    <3>3. f \in [id : Nat, left : Int] /\ f # NoFull
      BY <3>1, <3>2 DEF NoFull
    <3>4. j = [i EXCEPT !.full = f]
      BY <1>9, <1>11, <2>2, <3>2 DEF Kin, IndexStates
    <3> QED
      BY <1>9, <3>3, <3>4 DEF Kin, IndexStates
  <2> QED
    BY <2>1, <2>2
<1>13. ix' = IF counts /\ j.full.left = 0 THEN FinishFull(j) ELSE j
  BY <1>1, <1>4, <1>6, <1>8, <1>10, <1>11 DEF HandleScanDone
<1>14. ix' \in Kin(ix)
  BY <1>3, <1>12, <1>13, FinishFullKin, KinOfKin
<1>15. UNCHANGED <<disk, log, sent, scan, boost, trespass>>
  BY DEF HandleScanDone
<1> QED
  BY <1>2, <1>14, <1>15, HandlerStep

LEMMA HandleBoostDoneStep ==
  ASSUME IndexIInv, HandleBoostDone
  PROVE  IndexIInv'
<1>1. Head(inbox).root \in Dirs /\ inbox' \in Seq(Messages)
  BY TakeType, MessageType DEF HandleBoostDone
<1>2. ix \in IndexStates
  BY DEF IndexIInv, IndexTypeOK
<1>3. ix' \in Kin(ix) /\ UNCHANGED <<disk, log, sent, scan, boost, trespass>>
  BY <1>1, <1>2, FinishedKin DEF HandleBoostDone
<1> QED
  BY <1>1, <1>3, HandlerStep

LEMMA SaveSnapshotStep ==
  ASSUME IndexIInv, SaveSnapshot
  PROVE  IndexIInv'
<1>1. ix \in IndexStates /\ inbox \in Seq(Messages)
  BY DEF IndexIInv, IndexTypeOK
<1>2. ix' \in Kin(ix) /\ UNCHANGED <<disk, log, sent, inbox, scan, boost, trespass>>
  BY <1>1, SaveKin DEF SaveSnapshot
<1> QED
  BY <1>1, <1>2, HandlerStep

LEMMA FocusedStep ==
  ASSUME IndexIInv, NEW granted \in Grants, NEW weekly \in BOOLEAN, Focused(granted, weekly)
  PROVE  IndexIInv'
<1>1. ix \in IndexStates /\ log \in Seq(Dirs) /\ inbox \in Seq(Messages) /\ sent \in Nat /\ granted \in BOOLEAN
  BY IndexAssumption DEF IndexIInv, IndexTypeOK
<1>2. PICK lifted : lifted = IF granted /\ ~ix.fda THEN Protected \ ix.visited ELSE {}
  OBVIOUS
<1>3. lifted \subseteq Dirs /\ IsFiniteSet(lifted)
  <2>1. lifted \subseteq Dirs
    BY <1>2, IndexAssumption
  <2> QED
    BY <2>1, FiniteDirs
<1>4. PICK T : T = SkipAll(ix.tree, lifted, FALSE)
  OBVIOUS
<1>5. T \in GoodTrees
  BY <1>1, <1>3, <1>4, SkipAllGood DEF IndexStates
<1>6. PICK due \in BOOLEAN : due = (ix.due \/ weekly)
  BY <1>1
<1>7. PICK i : i = [ix EXCEPT !.fda = granted, !.due = due, !.tree = T]
  OBVIOUS
<1>8. i \in IndexStates /\ i.visited = ix.visited /\ i.fda = granted /\ i.phase = ix.phase
  BY <1>1, <1>5, <1>7 DEF IndexStates
<1>9. PICK j : j = QueueScans(i, lifted)
  OBVIOUS
<1>10. j \in Kin(i)
  BY <1>3, <1>8, <1>9, QueueScansKin
<1>11. ix' = IF j.due /\ ix.phase = "live" THEN StartFull(j) ELSE j
  BY <1>2, <1>4, <1>6, <1>7, <1>9 DEF Focused
<1>12. ix' \in Kin(i)
  BY <1>1, <1>8, <1>10, <1>11, StartFullKin, KinOfKin
<1>13. ix' \in IndexStates /\ ix'.visited = ix.visited /\ ix'.phase = ix.phase /\ (ix.fda => ix'.fda)
  BY <1>8, <1>12 DEF Kin, Focused
<1>14. UNCHANGED <<disk, log, sent, inbox, scan, boost, trespass>>
  BY DEF Focused
<1> QED
  BY <1>1, <1>13, <1>14, IndexStep

LEMMA VisitStep ==
  ASSUME IndexIInv, NEW p \in Protected, Visit(p)
  PROVE  IndexIInv'
<1>1. ix \in IndexStates /\ inbox \in Seq(Messages) /\ sent \in Nat
  BY DEF IndexIInv, IndexTypeOK
<1>2. PICK m : m = [type |-> "visited", root |-> p]
  OBVIOUS
<1>3. m \in Messages
  BY <1>2 DEF Messages
<1>4. ix' = [ix EXCEPT !.visited = ix.visited \cup {p}] /\ inbox' = Append(inbox, m)
      /\ UNCHANGED <<disk, log, sent, scan, boost, trespass>>
  BY <1>2 DEF Visit
<1>5. ix' \in IndexStates /\ ix'.visited = ix.visited \cup {p} /\ ix'.phase = ix.phase /\ ix'.fda = ix.fda
  BY <1>1, <1>4 DEF IndexStates
<1>6. inbox' \in Seq(Messages)
  BY <1>1, <1>3, <1>4
<1> QED
  BY <1>1, <1>4, <1>5, <1>6, IndexStep

LEMMA HandleVisitedStep ==
  ASSUME IndexIInv, HandleVisited
  PROVE  IndexIInv'
<1>1. PICK p : p = Head(inbox).root
  OBVIOUS
<1>2. p \in Protected /\ inbox' \in Seq(Messages)
  BY <1>1, TakeType, MessageType DEF HandleVisited
<1>3. ix \in IndexStates /\ p \in Dirs
  BY <1>2, IndexAssumption DEF IndexIInv, IndexTypeOK
<1>4. PICK T : T = SetSkipped(ix.tree, p, FALSE)
  OBVIOUS
<1>5. T \in GoodTrees
  BY <1>3, <1>4, SetSkippedGood DEF IndexStates
<1>6. PICK i : i = [ix EXCEPT !.tree = T]
  OBVIOUS
<1>7. i \in Kin(ix)
  BY <1>3, <1>5, <1>6, NewTree
<1>8. ix' = QueueScan(i, p, FALSE) /\ UNCHANGED <<disk, log, sent, scan, boost, trespass>>
  BY <1>1, <1>4, <1>6 DEF HandleVisited
<1>9. ix' \in Kin(ix)
  BY <1>3, <1>7, <1>8, QueueScanKin, KinOfKin
<1> QED
  BY <1>2, <1>8, <1>9, HandlerStep

LEMMA RequestSizeStep ==
  ASSUME IndexIInv, NEW d \in Dirs, NEW fresh \in BOOLEAN, RequestSize(d, fresh)
  PROVE  IndexIInv'
<1>1. ix \in IndexStates /\ inbox \in Seq(Messages)
  BY DEF IndexIInv, IndexTypeOK
<1>2. ix' = QueueBoost(ix, d, fresh) /\ UNCHANGED <<disk, log, sent, inbox, scan, boost, trespass>>
  BY DEF RequestSize
<1>3. ix' \in Kin(ix)
  BY <1>1, <1>2, QueueBoostKin
<1> QED
  BY <1>1, <1>2, <1>3, HandlerStep

\* A step of the walks: the index and the disk stay as they are, but for the jobs
\* of the lanes.
LEMMA WalkStep ==
  ASSUME IndexIInv, ix' \in Kin(ix), inbox' \in Seq(Messages), scan' \in WalkStates, boost' \in WalkStates,
         StaysOut(ix, scan'), StaysOut(ix, boost'),
         ix.phase \in {"down", "booting"} => scan'.at = "idle" /\ boost'.at = "idle",
         ~trespass', UNCHANGED <<disk, log, sent>>
  PROVE  IndexIInv'
<1>1. ix' \in IndexStates /\ ix'.phase = ix.phase /\ ix'.visited = ix.visited /\ ix'.fda = ix.fda
  BY DEF Kin
<1>2. StaysOut(ix', scan') /\ StaysOut(ix', boost')
  BY <1>1, StaysOutMore
<1> QED
  BY <1>1, <1>2 DEF IndexIInv, IndexTypeOK, WalksStayOut, NoWalkBeforeBoot, DiskType

LEMMA IdleStaysOut == \A i : StaysOut(i, NoWalk)
BY NoWalkType DEF StaysOut

LEMMA Same ==
  ASSUME IndexIInv
  PROVE  /\ ix \in IndexStates /\ ix \in Kin(ix) /\ inbox \in Seq(Messages) /\ scan \in WalkStates /\ boost \in WalkStates
         /\ StaysOut(ix, scan) /\ StaysOut(ix, boost) /\ ~trespass /\ DiskType
         /\ ix.phase \in {"down", "booting"} => scan.at = "idle" /\ boost.at = "idle"
BY DEF IndexIInv, IndexTypeOK, WalksStayOut, NoWalkBeforeBoot, Kin

LEMMA CancelBoostStep ==
  ASSUME IndexIInv, NEW d \in Dirs, CancelBoost(d)
  PROVE  IndexIInv'
<1>1. PICK s : s = OtherBoosts(ix, d)
  OBVIOUS
<1>2. s \in Seq(Wishes)
  BY <1>1, Same, OtherBoostsType
<1>3. ix' \in Kin(ix)
  BY <1>1, <1>2, Same DEF CancelBoost, Kin, IndexStates
<1>4. boost' = boost \/ boost' = [boost EXCEPT !.failed = "cancelled"]
  BY DEF CancelBoost
<1>5. boost' \in WalkStates /\ boost'.at = boost.at /\ boost'.todo = boost.todo /\ boost'.skip = boost.skip
  BY <1>4, Same DEF WalkStates, Outcomes
<1>6. StaysOut(ix, boost')
  BY <1>5, Same DEF StaysOut
<1>7. UNCHANGED <<disk, log, sent, inbox, scan, trespass>>
  BY DEF CancelBoost
<1> QED
  BY <1>3, <1>5, <1>6, <1>7, Same, WalkStep

LEMMA CrashStep ==
  ASSUME IndexIInv, Crash
  PROVE  IndexIInv'
<1>1. ix' = [NewIndex EXCEPT !.saved = ix.saved, !.due = ix.due] /\ inbox' = <<>> /\ scan' = NoWalk /\ boost' = NoWalk
      /\ UNCHANGED <<disk, log, sent, trespass>>
  BY DEF Crash
<1>2. ix.saved \in Snapshots /\ ix.due \in BOOLEAN
  BY Same DEF IndexStates
<1>3. ix' \in IndexStates
  BY <1>1, <1>2, NewIndexType DEF IndexStates
<1>4. inbox' \in Seq(Messages) /\ scan' \in WalkStates /\ boost' \in WalkStates /\ scan'.at = "idle" /\ boost'.at = "idle"
  BY <1>1, NoWalkType
<1>5. StaysOut(ix', scan') /\ StaysOut(ix', boost')
  BY <1>4 DEF StaysOut
<1> QED
  BY <1>1, <1>3, <1>4, <1>5 DEF IndexIInv, IndexTypeOK, WalksStayOut, NoWalkBeforeBoot, DiskType

LEMMA StartedType ==
  ASSUME IndexIInv, NEW job, job.root \in Dirs, NEW indexed \in BOOLEAN, NEW full \in BOOLEAN
  PROVE  StartedAt(job, indexed, full) \in WalkStates /\ StaysOut(ix, StartedAt(job, indexed, full))
<1>1. PICK d, skip : d = job.root /\ skip = Excluded(ix, job.root, indexed)
  OBVIOUS
<1>2. d \in Dirs /\ skip \subseteq Dirs /\ (~ix.fda => Protected \ ix.visited \subseteq skip)
  BY <1>1, IndexAssumption DEF Excluded, IndexedSubtrees, Subtree
<1>3. PICK covered \in BOOLEAN : covered = (indexed /\ d \in DOMAIN ix.tree /\ FullyIndexed(ix.tree, d)
                   /\ "skipped" \notin ix.tree[d].flags)
  BY DEF FullyIndexed
<1>4. PICK outcome : outcome = IF Blocked(ix, d) \/ covered THEN "skipped"
                               ELSE IF d \notin DOMAIN disk THEN "gone" ELSE "no"
  OBVIOUS
<1>5. PICK todo : todo = IF outcome = "no" THEN {d} ELSE {}
  OBVIOUS
<1>6. outcome \in Outcomes /\ todo \subseteq Dirs /\ (\A e \in todo : ~Blocked(ix, e)) /\ <<>> \in Seq(Records)
  BY <1>2, <1>4, <1>5 DEF Outcomes
<1>7. PICK w : w = StartedAt(job, indexed, full)
  OBVIOUS
<1>8. w = [root |-> d, full |-> full, batch |-> <<>>, at |-> "walk", failed |-> outcome,
           todo |-> todo, skip |-> skip]
  BY <1>1, <1>3, <1>4, <1>5, <1>7 DEF StartedAt
<1>9. w \in WalkStates /\ w.todo = todo /\ w.skip = skip
  BY <1>2, <1>6, <1>8 DEF WalkStates
<1>10. StaysOut(ix, w)
  BY <1>2, <1>6, <1>9 DEF StaysOut
<1> QED
  BY <1>7, <1>9, <1>10

LEMMA StartScanStep ==
  ASSUME IndexIInv, StartScan
  PROVE  IndexIInv'
<1>1. ix.background \in Seq(Jobs) /\ ix.background # <<>>
  BY Same DEF StartScan, IndexStates
<1>2. PICK job : job = Head(ix.background)
  OBVIOUS
<1>3. job.root \in Dirs /\ job.full \in BOOLEAN /\ Tail(ix.background) \in Seq(Jobs)
  <2>1. job \in Jobs /\ Tail(ix.background) \in Seq(Jobs)
    BY <1>1, <1>2
  <2> QED
    BY <2>1 DEF Jobs
<1>4. PICK no \in BOOLEAN : no = FALSE
  OBVIOUS
<1>5. scan' = StartedAt(job, no, job.full) /\ ix' = [ix EXCEPT !.background = Tail(ix.background)]
      /\ UNCHANGED <<disk, log, sent, inbox, boost, trespass>> /\ ix.phase \in {"catchUp", "live"}
  BY <1>2, <1>4 DEF StartScan, Running
<1>6. ix' \in Kin(ix)
  BY <1>3, <1>5, Same DEF Kin, IndexStates
<1>7. scan' \in WalkStates /\ StaysOut(ix, scan')
  BY <1>3, <1>5, StartedType
<1> QED
  BY <1>5, <1>6, <1>7, Same, WalkStep

LEMMA StartBoostStep ==
  ASSUME IndexIInv, StartBoost
  PROVE  IndexIInv'
<1>1. ix.boosts \in Seq(Wishes) /\ ix.boosts # <<>>
  BY Same DEF StartBoost, IndexStates
<1>2. PICK job : job = Head(ix.boosts)
  OBVIOUS
<1>3. job.root \in Dirs /\ job.refresh \in BOOLEAN /\ Tail(ix.boosts) \in Seq(Wishes)
  <2>1. job \in Wishes /\ Tail(ix.boosts) \in Seq(Wishes)
    BY <1>1, <1>2
  <2> QED
    BY <2>1 DEF Wishes
<1>4. PICK no, indexed \in BOOLEAN : no = FALSE /\ indexed = ~job.refresh
  BY <1>3
<1>5. boost' = StartedAt(job, indexed, no) /\ ix' = [ix EXCEPT !.boosts = Tail(ix.boosts)]
      /\ UNCHANGED <<disk, log, sent, inbox, scan, trespass>> /\ ix.phase \in {"catchUp", "live"}
  BY <1>2, <1>4 DEF StartBoost, Running
<1>6. ix' \in Kin(ix)
  BY <1>3, <1>5, Same DEF Kin, IndexStates
<1>7. boost' \in WalkStates /\ StaysOut(ix, boost')
  BY <1>3, <1>4, <1>5, StartedType
<1> QED
  BY <1>5, <1>6, <1>7, Same, WalkStep

\* A directory below one that is not blocked is blocked only when it is protected
\* itself, and then the walk leaves it out.
LEMMA VisitedStaysOut ==
  ASSUME IndexIInv, NEW w \in WalkStates, StaysOut(ix, w), w.at = "walk", NEW d \in w.todo
  PROVE  /\ Visited(w, d) \in WalkStates /\ StaysOut(ix, Visited(w, d)) /\ Visited(w, d).at = "walk"
         /\ ~(d \in DOMAIN disk \ w.skip /\ Blocked(ix, d))
<1>1. ~(d \in DOMAIN disk \ w.skip /\ Blocked(ix, d))
  BY DEF StaysOut
<1>2. CASE d \in w.skip \/ d \notin DOMAIN disk
  <2>1. Visited(w, d) = [w EXCEPT !.todo = w.todo \ {d}]
    BY <1>2 DEF Visited
  <2>2. Visited(w, d) \in WalkStates
    BY <2>1 DEF WalkStates
  <2>3. StaysOut(ix, Visited(w, d)) /\ Visited(w, d).at = "walk"
    BY <2>1 DEF StaysOut, WalkStates
  <2> QED
    BY <1>1, <2>2, <2>3
<1>3. CASE d \notin w.skip /\ d \in DOMAIN disk
  <2>1. PICK l, C : l = Listing(d) /\ C = l.subdirs
    OBVIOUS
  <2>2. l \in ListingsOf(d) /\ C \subseteq Children(d) /\ d \in Dirs
    BY <1>3, <2>1, Same, ListingType DEF DiskType, ListingsOf
  <2>3. PICK r : r = [dir |-> d, listing |-> l]
    OBVIOUS
  <2>4. r \in Records
    BY <2>2, <2>3, RecordType
  <2>5. PICK todo, batch : todo = (w.todo \ {d}) \cup C /\ batch = Append(w.batch, r)
    OBVIOUS
  <2>6. C \subseteq Dirs
    BY <2>2 DEF Children
  <2>7. todo \subseteq Dirs /\ batch \in Seq(Records)
    BY <2>4, <2>5, <2>6 DEF WalkStates
  <2>8. Visited(w, d) = [w EXCEPT !.todo = todo, !.batch = batch]
    BY <1>3, <2>1, <2>3, <2>5 DEF Visited
  <2>9. Visited(w, d) \in WalkStates /\ Visited(w, d).todo = todo /\ Visited(w, d).skip = w.skip
        /\ Visited(w, d).at = "walk"
    BY <2>7, <2>8 DEF WalkStates
  <2>10. ASSUME NEW c \in C, Blocked(ix, c) PROVE c \in w.skip
    <3>1. ~ix.fda
      BY <2>10 DEF Blocked
    <3>2. PICK p \in Protected \ ix.visited : c \in Subtree(p)
      BY <2>10 DEF Blocked
    <3>3. ~Blocked(ix, d)
      BY <1>1, <1>3
    <3>4. d \notin Subtree(p)
      BY <3>1, <3>2, <3>3 DEF Blocked
    <3>5. Above[c] = Above[d] \cup {d}
      BY <2>2, ChildType
    <3>6. c = p
      BY <2>2, <3>2, <3>4, <3>5 DEF Subtree
    <3> QED
      BY <3>1, <3>2, <3>6 DEF StaysOut
  <2>11. StaysOut(ix, Visited(w, d))
    BY <2>5, <2>9, <2>10 DEF StaysOut
  <2> QED
    BY <1>1, <2>9, <2>11
<1> QED
  BY <1>2, <1>3

LEMMA ScanDirStep ==
  ASSUME IndexIInv, NEW d \in Dirs, ScanDir(d)
  PROVE  IndexIInv'
<1>1. scan.at = "walk" /\ d \in scan.todo /\ scan' = Visited(scan, d) /\ Trespasses(scan, d)
      /\ UNCHANGED <<disk, log, sent, ix, inbox, boost>>
  BY DEF ScanDir
<1>2. scan' \in WalkStates /\ StaysOut(ix, scan') /\ ~trespass'
  BY <1>1, Same, VisitedStaysOut DEF Trespasses
<1>3. ix.phase \notin {"down", "booting"}
  BY <1>1, Same
<1> QED
  BY <1>1, <1>2, <1>3, Same, WalkStep

LEMMA BoostDirStep ==
  ASSUME IndexIInv, NEW d \in Dirs, BoostDir(d)
  PROVE  IndexIInv'
<1>1. boost.at = "walk" /\ d \in boost.todo /\ boost' = Visited(boost, d) /\ Trespasses(boost, d)
      /\ UNCHANGED <<disk, log, sent, ix, inbox, scan>>
  BY DEF BoostDir
<1>2. boost' \in WalkStates /\ StaysOut(ix, boost') /\ ~trespass'
  BY <1>1, Same, VisitedStaysOut DEF Trespasses
<1>3. ix.phase \notin {"down", "booting"}
  BY <1>1, Same
<1> QED
  BY <1>1, <1>2, <1>3, Same, WalkStep

LEMMA RecordsOfType ==
  ASSUME NEW w \in WalkStates
  PROVE  RecordsOf(w) \in Messages
<1>1. w.batch \in Seq(Records)
  BY DEF WalkStates
<1> QED
  BY <1>1 DEF RecordsOf, Messages

LEMMA FlushScanStep ==
  ASSUME IndexIInv, FlushScan
  PROVE  IndexIInv'
<1>1. inbox' = Append(inbox, RecordsOf(scan)) /\ scan' = [scan EXCEPT !.batch = <<>>]
      /\ UNCHANGED <<disk, log, sent, ix, boost, trespass>>
  BY DEF FlushScan
<1>2. RecordsOf(scan) \in Messages
  BY Same, RecordsOfType
<1>3. inbox' \in Seq(Messages)
  BY <1>1, <1>2, Same
<1>4. <<>> \in Seq(Records)
  OBVIOUS
<1>5. scan' \in WalkStates /\ scan'.at = scan.at /\ scan'.todo = scan.todo /\ scan'.skip = scan.skip
  BY <1>1, <1>4, Same DEF WalkStates
<1>6. StaysOut(ix, scan')
  BY <1>5, Same DEF StaysOut
<1> QED
  BY <1>1, <1>3, <1>5, <1>6, Same, WalkStep

LEMMA FailScanStep ==
  ASSUME IndexIInv, FailScan
  PROVE  IndexIInv'
<1>1. scan' = [scan EXCEPT !.failed = "cancelled", !.todo = {}]
      /\ UNCHANGED <<disk, log, sent, ix, inbox, boost, trespass>>
  BY DEF FailScan
<1>2. scan' \in WalkStates /\ scan'.at = scan.at /\ scan'.todo = {} /\ scan'.skip = scan.skip
  BY <1>1, Same DEF WalkStates, Outcomes
<1>3. StaysOut(ix, scan')
  BY <1>2, Same DEF StaysOut
<1> QED
  BY <1>1, <1>2, <1>3, Same, WalkStep

LEMMA FailBoostStep ==
  ASSUME IndexIInv, FailBoost
  PROVE  IndexIInv'
<1>1. boost' = [boost EXCEPT !.failed = "cancelled"]
      /\ UNCHANGED <<disk, log, sent, ix, inbox, scan, trespass>>
  BY DEF FailBoost
<1>2. boost' \in WalkStates /\ boost'.at = boost.at /\ boost'.todo = boost.todo /\ boost'.skip = boost.skip
  BY <1>1, Same DEF WalkStates, Outcomes
<1>3. StaysOut(ix, boost')
  BY <1>2, Same DEF StaysOut
<1> QED
  BY <1>1, <1>2, <1>3, Same, WalkStep

LEMMA EndScanStep ==
  ASSUME IndexIInv, EndScan
  PROVE  IndexIInv'
<1>1. PICK m : m = [type |-> "scanDone", root |-> scan.root, full |-> scan.full, outcome |-> Outcome(scan)]
  OBVIOUS
<1>2. inbox' = Append(inbox, m) /\ scan' = NoWalk /\ UNCHANGED <<disk, log, sent, ix, boost, trespass>>
  BY <1>1 DEF EndScan
<1>3. scan.root \in Dirs /\ scan.full \in BOOLEAN /\ Outcome(scan) \in Outcomes \cup {"walked"}
  BY Same DEF WalkStates, Outcome
<1>4. m \in Messages
  BY <1>1, <1>3 DEF Messages
<1>5. inbox' \in Seq(Messages)
  BY <1>2, <1>4, Same
<1> QED
  BY <1>2, <1>5, Same, NoWalkType, IdleStaysOut, WalkStep

LEMMA EndBoostStep ==
  ASSUME IndexIInv, EndBoost
  PROVE  IndexIInv'
<1>1. PICK m, r : m = [type |-> "boostDone", root |-> boost.root, outcome |-> Outcome(boost)] /\ r = RecordsOf(boost)
  OBVIOUS
<1>2. PICK before : before = IF boost.batch = <<>> THEN inbox ELSE Append(inbox, r)
  OBVIOUS
<1>3. inbox' = before \o <<m>> /\ boost' = NoWalk /\ UNCHANGED <<disk, log, sent, ix, scan, trespass>>
  BY <1>1, <1>2 DEF EndBoost
<1>4. boost.root \in Dirs /\ Outcome(boost) \in Outcomes \cup {"walked"}
  BY Same DEF WalkStates, Outcome
<1>5. m \in Messages /\ r \in Messages
  BY <1>1, <1>4, Same, RecordsOfType DEF Messages
<1>6. before \in Seq(Messages)
  BY <1>2, <1>5, Same
<1>7. inbox' \in Seq(Messages)
  BY <1>3, <1>5, <1>6
<1> QED
  BY <1>3, <1>7, Same, NoWalkType, IdleStaysOut, WalkStep

LEMMA ScannedGood ==
  ASSUME DiskType
  PROVE  Scanned \in GoodTrees
<1>1. PICK A, B : A = DOMAIN disk \ UNION {Subtree(p) : p \in Protected} /\ B = DOMAIN disk \cap Protected
  OBVIOUS
<1>2. A \subseteq DOMAIN disk /\ B \subseteq Dirs /\ IsFiniteSet(B)
  BY <1>1, FiniteDirs DEF DiskType
<1>3. PICK T : T = ReadAll(A)
  OBVIOUS
<1>4. T \in GoodTrees
  BY <1>2, <1>3, ReadAllGood
<1>5. Scanned = SkipAll(T, B, TRUE)
  BY <1>1, <1>3 DEF Scanned
<1>6. PICK on \in BOOLEAN : on = TRUE
  OBVIOUS
<1> QED
  BY <1>2, <1>4, <1>5, <1>6, SkipAllGood

LEMMA IndexStarts == IndexInit => IndexIInv
<1> SUFFICES ASSUME IndexInit PROVE IndexIInv
  OBVIOUS
<1>1. DiskType
  <2>1. PICK S \in {Dirs, Dirs \ {d \in Dirs : Above[d] # {} /\ Children(d) = {}}} : disk = [d \in S |-> 0]
    BY DEF IndexInit
  <2> QED
    BY <2>1 DEF DiskType
<1>2. PICK s : s = [id |-> 0, tree |-> Scanned, visited |-> {}, there |-> TRUE]
  OBVIOUS
<1>3. s \in Snapshots
  BY <1>1, <1>2, ScannedGood DEF Snapshots
<1>4. ix = NewIndex \/ ix = [NewIndex EXCEPT !.due = FALSE, !.saved = s]
  BY <1>2 DEF IndexInit
<1>5. ix \in IndexStates
  BY <1>3, <1>4, NewIndexType, ZenonT(40) DEF IndexStates
<1>6. log = <<>> /\ sent = 0 /\ inbox = <<>> /\ scan = NoWalk /\ boost = NoWalk /\ ~trespass
  BY DEF IndexInit
<1>7. log \in Seq(Dirs) /\ sent \in Nat /\ inbox \in Seq(Messages)
  BY <1>6
<1> QED
  BY <1>1, <1>5, <1>6, <1>7, NoWalkType, IdleStaysOut
  DEF IndexIInv, IndexTypeOK, WalksStayOut, NoWalkBeforeBoot

LEMMA IndexKeeps == IndexIInv /\ [IndexNext]_indexVars => IndexIInv'
<1> SUFFICES ASSUME IndexIInv, [IndexNext]_indexVars PROVE IndexIInv'
  OBVIOUS
<1>1. CASE UNCHANGED indexVars
  BY <1>1 DEF indexVars, IndexIInv, IndexTypeOK, WalksStayOut, NoWalkBeforeBoot, StaysOut, Blocked, DiskType
<1>2. CASE \E d \in Dirs : WriteDir(d) \/ MakeDir(d) \/ RemoveDir(d) \/ ScanDir(d) \/ BoostDir(d) \/ CancelBoost(d)
  BY <1>2, WriteDirStep, MakeDirStep, RemoveDirStep, ScanDirStep, BoostDirStep, CancelBoostStep
<1>3. CASE \E k \in 0..MaxLog : Deliver(k)
  BY <1>3, DeliverStep
<1>4. CASE Launch
  BY <1>4, LaunchStep
<1>5. CASE \E fda \in Grants, usable, weekly \in BOOLEAN : Boot(fda, usable, weekly)
  BY <1>5, BootStep
<1>6. CASE HandleEvents
  BY <1>6, HandleEventsStep
<1>7. CASE HandleRecords
  BY <1>7, HandleRecordsStep
<1>8. CASE HandleScanDone
  BY <1>8, HandleScanDoneStep
<1>9. CASE HandleBoostDone
  BY <1>9, HandleBoostDoneStep
<1>10. CASE SaveSnapshot
  BY <1>10, SaveSnapshotStep
<1>11. CASE Crash
  BY <1>11, CrashStep
<1>12. CASE \E granted \in Grants, weekly \in BOOLEAN : Focused(granted, weekly)
  BY <1>12, FocusedStep
<1>13. CASE \E p \in Protected : Visit(p)
  BY <1>13, VisitStep
<1>14. CASE \E d \in Dirs, fresh \in BOOLEAN : RequestSize(d, fresh)
  BY <1>14, RequestSizeStep
<1>15. CASE StartScan
  BY <1>15, StartScanStep
<1>16. CASE StartBoost
  BY <1>16, StartBoostStep
<1>17. CASE FlushScan
  BY <1>17, FlushScanStep
<1>18. CASE EndScan
  BY <1>18, EndScanStep
<1>19. CASE EndBoost
  BY <1>19, EndBoostStep
<1>20. CASE HandleVisited
  BY <1>20, HandleVisitedStep
<1>21. CASE FailScan
  BY <1>21, FailScanStep
<1>22. CASE FailBoost
  BY <1>22, FailBoostStep
<1> QED
  BY <1>1, <1>2, <1>3, <1>4, <1>5, <1>6, <1>7, <1>8, <1>9, <1>10, <1>11, <1>12, <1>13, <1>14,
     <1>15, <1>16, <1>17, <1>18, <1>19, <1>20, <1>21, <1>22 DEF IndexNext

LEMMA IndexMeans == IndexIInv => IndexInv
<1> SUFFICES ASSUME IndexIInv PROVE IndexInv
  OBVIOUS
<1>1. ix.tree \in GoodTrees
  BY DEF IndexIInv, IndexTypeOK, IndexStates
<1>2. TreeIsExact
  BY <1>1, GoodIsExact DEF TreeIsExact
<1> QED
  BY <1>2 DEF IndexInv, NeverTrespasses, IndexIInv

\* In every state of the index every aggregate of the tree is the sum over the
\* directories below it, and no walk and no re-read has listed a directory macOS
\* would ask the user about.
THEOREM IndexSound == IndexSpec => []IndexInv
<1>1. IndexSpec => []IndexIInv
  BY IndexStarts, IndexKeeps, PTL DEF IndexSpec
<1> QED
  BY <1>1, IndexMeans, PTL
=============================================================================
