------------------------------ MODULE SizeIndex ------------------------------
(***************************************************************************)
(* The macOS folder-size index (size/index/mod.rs, size/index/persist.rs): *)
(* a coordination thread that applies every change of the tree, a stream   *)
(* of file-system events, a gentle background walk, a boost lane for the   *)
(* folders a pane shows, and a snapshot with the event ID a relaunch       *)
(* replays from.                                                           *)
(*                                                                         *)
(* The index's own state is the record ix; a handler of the coordination   *)
(* thread is a function of it, because one message may re-read several     *)
(* directories, queue walks and write the snapshot.  The event log is the  *)
(* history FSEvents keeps: an event's ID is its position.                  *)
(***************************************************************************)
EXTENDS FolderTree, Sequences, SequencesExt

CONSTANTS
  Shown,      \* directories a pane subscribes to
  Protected,  \* directories not read before they are visited
  Grants,     \* what a probe of full disk access may find
  MaxLog,     \* bound: changes of the disk
  MaxInbox,   \* bound: messages waiting for the coordination thread
  MaxBoosts,  \* bound: boosts and visits the panes ask for, and failed scans
  MaxBoots    \* bound: launches

ASSUME IndexAssumption ==
  /\ Shown \subseteq Dirs /\ Protected \subseteq Dirs \ {RootDir} /\ Grants \subseteq BOOLEAN
  /\ MaxLog \in Nat /\ MaxBoosts \in Nat /\ MaxBoots \in Nat \ {0}

VARIABLES
  disk,     \* the directories there are, with the bytes of their files
  log,      \* the directories of the events so far
  sent,     \* the last event the running stream has delivered
  ix,       \* the index: tree, lanes, phase, event IDs
  inbox,    \* the messages to the coordination thread
  scan,     \* the background walk, or NoWalk
  boost,    \* the boost walk, or NoWalk
  boosts,   \* boosts and visits asked for and failed scans so far
  boots,    \* launches so far
  lost,     \* history: directories with a change that may be undone (see Loses)
  trespass  \* history: a protected directory was read unvisited

indexVars == <<disk, log, sent, ix, inbox, scan, boost, boosts, boots, lost, trespass>>

NoFull == [id |-> -1, left |-> 0]
NoSnapshot == [id |-> 0, tree |-> EmptyTree, visited |-> {}, there |-> FALSE]
NoWalk == [root |-> RootDir, full |-> FALSE, todo |-> {}, skip |-> {}, batch |-> <<>>, at |-> "idle", failed |-> "no"]

NewIndex ==
  [phase |-> "down", tree |-> EmptyTree, visited |-> {}, fda |-> FALSE,
   meta |-> 0, last |-> 0, full |-> NoFull, inflight |-> 0,
   background |-> <<>>, boosts |-> <<>>, since |-> 0, history |-> 0, replay |-> 0, events |-> {},
   saved |-> NoSnapshot, due |-> TRUE]

Listing(d) ==
  [bytes |-> disk[d], subdirs |-> Children(d) \cap DOMAIN disk, denied |-> FALSE]

\* The tree a finished scan of the whole disk leaves.
ReadAll(S) == FoldSet(LAMBDA d, T : MergeRecord(T, d, Listing(d)), EmptyTree, S)
Scanned ==
  SkipAll(ReadAll(DOMAIN disk \ UNION {Subtree(p) : p \in Protected}), DOMAIN disk \cap Protected, TRUE)

\* Either there is no snapshot, or the one an earlier launch left of this disk.
IndexInit ==
  /\ disk \in {[d \in S |-> 0] : S \in {Dirs, Dirs \ {d \in Dirs : Above[d] # {} /\ Children(d) = {}}}}
  /\ log = <<>> /\ sent = 0 /\ inbox = <<>>
  /\ ix \in {NewIndex, [NewIndex EXCEPT !.due = FALSE, !.saved =
              [id |-> 0, tree |-> Scanned, visited |-> {}, there |-> TRUE]]}
  /\ scan = NoWalk /\ boost = NoWalk
  /\ boosts = 0 /\ boots = 0 /\ lost = {} /\ trespass = FALSE

Running == ix.phase \in {"catchUp", "live"}

----------------------------------------------------------------------------
(* The parts of the handlers.                                              *)

\* privacy_blocked.
Blocked(i, d) ==
  ~i.fda /\ \E p \in Protected \ i.visited : d \in Subtree(p)

\* Shared::queue_background through the machine: one job for each root.
QueueScan(i, d, full) ==
  IF \E k \in DOMAIN i.background : i.background[k].root = d THEN i
  ELSE [i EXCEPT !.background = Append(@, [root |-> d, full |-> full]), !.inflight = @ + 1]

QueueScans(i, S) == FoldSet(LAMBDA d, acc : QueueScan(acc, d, FALSE), i, S)

\* The queued boosts without the one of d.
OtherBoosts(i, d) ==
  IF \E k \in DOMAIN i.boosts : i.boosts[k].root = d
    THEN RemoveAt(i.boosts, CHOOSE k \in DOMAIN i.boosts : i.boosts[k].root = d)
    ELSE i.boosts

\* queue_boosts: to the front, one entry for each path.
QueueBoost(i, d, fresh) ==
  [i EXCEPT !.boosts =
     <<[root |-> d, refresh |-> fresh \/ \E k \in DOMAIN @ : @[k] = [root |-> d, refresh |-> TRUE]]>>
       \o OtherBoosts(i, d)]

QueueBoosts(i, S) == FoldSet(LAMBDA d, acc : QueueBoost(acc, d, FALSE), i, S)


\* The event ID save_snapshot writes.
IdToSave(i) ==
  IF i.full # NoFull THEN i.full.id
  ELSE IF i.inflight > 0 \/ i.phase = "catchUp" THEN i.meta
  ELSE i.last

\* save_snapshot: the file and the ID in it.
Save(i) ==
  [i EXCEPT !.meta = IdToSave(i),
            !.saved = [id |-> IdToSave(i), tree |-> i.tree, visited |-> i.visited, there |-> TRUE]]

\* finish_full_scan: the ID captured before the scan, and a snapshot.
FinishFull(i) ==
  Save([i EXCEPT !.full = NoFull, !.meta = i.full.id, !.last = i.full.id, !.due = FALSE])

\* start_full_scan.  With the root already queued nothing is left to wait for
\* and the scan is finished at once.
StartFull(i) ==
  IF i.full # NoFull THEN i
  ELSE LET j == QueueScan(i, RootDir, TRUE)
           left == Len(j.background) - Len(i.background)
           k == [j EXCEPT !.full = [id |-> Len(log), left |-> left]]
       IN IF left = 0 THEN FinishFull(k) ELSE k

\* reskip_protected.
Reskip(i) ==
  LET again == {p \in Protected \ i.visited :
                  p \in DOMAIN i.tree /\ i.tree[p].flags \cap {"scanned", "skipped"} = {}}
  IN IF i.fda THEN i
     ELSE [i EXCEPT !.tree = SkipAll(@, again, TRUE)]

\* reread: one directory is listed on the coordination thread; the children
\* it adds are boosted when a pane shows them, else walked in the background.
Reread(i, d) ==
  IF Blocked(i, d) \/ d \notin DOMAIN i.tree \/ "scanned" \notin i.tree[d].flags THEN i
  ELSE IF d \notin DOMAIN disk
    THEN Reskip([i EXCEPT !.tree = IF d = RootDir THEN @ ELSE Prune(@, d)])
  ELSE LET added == AddedBy(i.tree, d, Listing(d))
           j == Reskip([i EXCEPT !.tree = SetListing(@, d, Listing(d))])
           open == {c \in added : ~Blocked(j, c)}
       IN QueueScans(QueueBoosts(j, open \cap Shown), open \ Shown)

\* A directory of S that none lies deeper than: it is re-read last.
Deepest(S) == CHOOSE d \in S : \A e \in S : Cardinality(Above[e]) <= Cardinality(Above[d])

\* In the order of their paths: a directory before the ones below it.
Rereads(i, S) == MapThenFoldSet(LAMBDA d, acc : Reread(acc, d), i, LAMBDA d : d, Deepest, S)

\* plan_batch and apply_plan: a dropped event means a full rescan, a subtree
\* one a walk of that subtree, any other a re-read.
ApplyPlan(i, events) ==
  LET rescan == {e.dir : e \in {x \in events : x.kind = "subtree"}}
      outer == {d \in rescan : Above[d] \cap rescan = {}}
      reread == {e.dir : e \in {x \in events : x.kind = "dir"}} \ UNION {Subtree(d) : d \in outer}
  IN IF \E e \in events : e.kind = "dropped" THEN StartFull(i)
     ELSE QueueScans(Rereads(i, reread), outer)

\* plan_catch_up, with the ID the replay began from.
ApplyCatchUp(i, from, events, current) ==
  IF \E e \in events : e.kind = "subtree" THEN StartFull(i)
  ELSE IF from = current THEN i
  ELSE ApplyPlan(i, events)

MaxOf(a, b) == IF a > b THEN a ELSE b

----------------------------------------------------------------------------
(* The disk and the stream.                                                *)

\* The directories the tree, the snapshot or a record on its way to the tree holds.
Known ==
  DOMAIN ix.tree \cup DOMAIN ix.saved.tree
    \cup {r.dir : r \in ToSet(scan.batch) \cup ToSet(boost.batch)
                       \cup UNION {ToSet(m.records) : m \in {x \in ToSet(inbox) : x.type = "records"}}}

Changed(d) ==
  /\ log' = Append(log, d)
  /\ UNCHANGED <<sent, ix, inbox, scan, boost, boosts, boots, trespass>>

\* A file of d is written.
WriteDir(d) ==
  /\ Len(log) < MaxLog /\ d \in DOMAIN disk
  /\ disk' = [disk EXCEPT ![d] = 1 - @]
  /\ Changed(d) /\ UNCHANGED lost

\* The name of a directory that went may come back before its parent is listed
\* again: a listing keeps the node of a name it knows.
MakeDir(d) ==
  /\ Len(log) < MaxLog /\ d \notin DOMAIN disk /\ d # RootDir /\ Parent(d) \in DOMAIN disk
  /\ disk' = [e \in DOMAIN disk \cup {d} |-> IF e = d THEN 0 ELSE disk[e]]
  /\ lost' = IF d \in Known THEN lost \cup Subtree(d) ELSE lost
  /\ Changed(Parent(d))

RemoveDir(d) ==
  /\ Len(log) < MaxLog /\ d \in DOMAIN disk /\ d # RootDir
  /\ disk' = [e \in DOMAIN disk \ Subtree(d) |-> disk[e]]
  /\ Changed(Parent(d)) /\ UNCHANGED lost

\* The stream delivers the events up to k: one by one, merged into a subtree
\* event, or as a report that events were dropped.  history_done ends a replay.
Deliver(k) ==
  /\ Running /\ Len(inbox) < MaxInbox
  /\ k \in sent..Len(log) /\ (k > sent \/ ix.phase = "catchUp")
  /\ LET dirs == {log[n] : n \in (sent + 1)..k}
         Message(events) == [type |-> "events", events |-> events, top |-> k,
                             done |-> k >= ix.history] IN
     \/ inbox' = Append(inbox, Message({[dir |-> d, kind |-> "dir"] : d \in dirs}))
     \/ dirs # {} /\ \E d \in Dirs : dirs \subseteq Subtree(d)
          /\ inbox' = Append(inbox, Message({[dir |-> d, kind |-> "subtree"]}))
     \/ dirs # {} /\ inbox' = Append(inbox, Message({[dir |-> RootDir, kind |-> "dropped"]}))
  /\ sent' = k
  /\ UNCHANGED <<disk, log, ix, scan, boost, boosts, boots, lost, trespass>>

----------------------------------------------------------------------------
(* The coordination thread.                                                *)

\* One protected directory at launch: skipped again, with what was scanned of
\* it dropped, unless it was visited or access is granted.
Guard(i, T, p) ==
  IF ~i.fda /\ p \notin i.visited
    THEN LET U == IF p \in DOMAIN T /\ "scanned" \in T[p].flags THEN Prune(T, p) ELSE T
         IN IF p \in DOMAIN disk THEN SetSkipped(U, p, TRUE) ELSE U
    ELSE IF p \in DOMAIN T /\ "skipped" \in T[p].flags THEN SetSkipped(T, p, FALSE) ELSE T

\* apply_privacy: at launch.
GuardAll(i, T) == FoldSet(LAMBDA p, acc : Guard(i, acc, p), T, Protected)
ApplyPrivacy(i) == [i EXCEPT !.tree = GuardAll(i, @)]

\* The launch reads the current event ID, then the snapshot.
Launch ==
  /\ ix.phase = "down" /\ boots < MaxBoots /\ boots' = boots + 1
  /\ ix' = [ix EXCEPT !.phase = "booting", !.since = Len(log)]
  /\ UNCHANGED <<disk, log, sent, inbox, scan, boost, boosts, lost, trespass>>

\* What a loaded tree keeps of folders that may no longer be read: the guard of a
\* protected root drops what was scanned below it only if the root itself was.
LosesSight(i) == {d \in DOMAIN i.tree : "scanned" \in i.tree[d].flags /\ Blocked(i, d)}

\* The rest of boot.  A usable snapshot is replayed from its event ID; with
\* none, or one of another volume or build, the tree it has stays visible under
\* a full scan.  weekly: the last full scan is a week old.
Boot(fda, usable, weekly) ==
  /\ ix.phase = "booting"
  /\ usable => ix.saved.there
  /\ LET id == IF usable THEN ix.saved.id ELSE ix.since
         i == ApplyPrivacy([NewIndex EXCEPT
                !.phase = IF usable THEN "catchUp" ELSE "live", !.fda = fda,
                !.tree = Recomputed(ix.saved.tree), !.visited = ix.saved.visited,
                !.meta = IF usable THEN id ELSE 0, !.last = id,
                !.since = ix.since, !.history = Len(log), !.replay = IF usable THEN id ELSE 0,
                !.saved = ix.saved, !.due = ~usable \/ weekly \/ ix.due])
     IN /\ ix' = IF i.due THEN StartFull(i) ELSE QueueScans(i, UnscannedTops(i.tree))
        /\ sent' = IF usable THEN id ELSE Len(log)
        /\ lost' = lost \cup LosesSight(i)
  /\ UNCHANGED <<disk, log, inbox, scan, boost, boosts, boots, trespass>>

Take(type) == Running /\ inbox # <<>> /\ Head(inbox).type = type /\ inbox' = Tail(inbox)

\* A walk of d, or of a directory above or below it, was started and its end is
\* not handled yet.
UnderWay(d) ==
  LET near == Subtree(d) \cup Above[d] IN
  \/ scan.at = "walk" /\ scan.root \in near
  \/ boost.at = "walk" /\ boost.root \in near
  \/ \E k \in DOMAIN inbox : inbox[k].type \in {"scanDone", "boostDone"} /\ inbox[k].root \in near

\* The changes a batch of events may lose: a re-read that the records or the end
\* of a walk under way undo, and a full rescan that is skipped because one is
\* running, or is over at once because the root is queued already.
Loses(i, events) ==
  IF \E e \in events : e.kind # "dir"
    THEN IF i.full # NoFull \/ \E k \in DOMAIN i.background : i.background[k].root = RootDir
           THEN Dirs ELSE {}
    ELSE {e.dir : e \in {x \in events : UnderWay(x.dir)}}

\* A snapshot written during a full scan that no later launch repeats: the tree
\* in it is not scanned yet, the ID is past the events that asked for the scan.
LosesRescan(i) == IF i.full # NoFull /\ ~i.due THEN Dirs ELSE {}

HandleEvents ==
  /\ Take("events")
  /\ LET m == Head(inbox)
         seen == ix.events \cup m.events
         live == [ix EXCEPT !.phase = "live", !.events = {}, !.replay = 0] IN
     CASE ix.phase = "catchUp" /\ ~m.done ->
            ix' = [ix EXCEPT !.events = seen] /\ UNCHANGED lost
       [] ix.phase = "catchUp" /\ m.done ->
            LET j == ApplyCatchUp(live, ix.replay, seen, ix.since)
            IN /\ ix' = Save([j EXCEPT !.last = MaxOf(MaxOf(@, m.top), ix.since)])
               /\ lost' = lost \cup Loses(ix, seen) \cup LosesRescan(j)
                             \cup (IF ix.replay = ix.since THEN {log[n] : n \in (ix.since + 1)..m.top} ELSE {})
       [] OTHER ->
            LET j == ApplyPlan(ix, m.events)
            IN /\ ix' = [j EXCEPT !.last = MaxOf(@, m.top)]
               /\ lost' = lost \cup Loses(ix, m.events)
  /\ UNCHANGED <<disk, log, sent, scan, boost, boosts, boots, trespass>>

\* The records of a walk, in the order it read them.
Merged(T, records) == FoldLeft(LAMBDA acc, r : MergeRecord(acc, r.dir, r.listing), T, records)

HandleRecords ==
  /\ Take("records")
  /\ ix' = Reskip([ix EXCEPT !.tree = Merged(@, Head(inbox).records)])
  /\ UNCHANGED <<disk, log, sent, scan, boost, boosts, boots, lost, trespass>>

\* walk_finished.
Finished(i, m) ==
  CASE m.outcome = "walked" -> [i EXCEPT !.tree = PruneUnscanned(@, m.root)]
    [] m.outcome = "gone" -> [i EXCEPT !.tree = IF m.root = RootDir THEN @ ELSE Prune(@, m.root)]
    [] OTHER -> i

HandleScanDone ==
  /\ Take("scanDone")
  /\ LET m == Head(inbox)
         i == Finished([ix EXCEPT !.inflight = IF @ = 0 THEN 0 ELSE @ - 1], m)
         counts == m.full /\ i.full # NoFull
         j == IF counts THEN [i EXCEPT !.full.left = @ - 1] ELSE i IN
     ix' = IF counts /\ j.full.left = 0 THEN FinishFull(j) ELSE j
  /\ UNCHANGED <<disk, log, sent, scan, boost, boosts, boots, lost, trespass>>

HandleBoostDone ==
  /\ Take("boostDone")
  /\ ix' = Finished(ix, Head(inbox))
  /\ UNCHANGED <<disk, log, sent, scan, boost, boosts, boots, lost, trespass>>

\* Focus lost, or the flush before the application exits.
SaveSnapshot ==
  /\ Running
  /\ ix' = Save(ix) /\ lost' = lost \cup LosesRescan(ix)
  /\ UNCHANGED <<disk, log, sent, inbox, scan, boost, boosts, boots, trespass>>

\* A walk under way passed over the directory while it was skipped: its end drops
\* what is unread of the directory, with the directory's own walk still queued.
LosesLifted(S) == UNION {{Parent(p)} \cup Subtree(p) : p \in {q \in S : UnderWay(q)}}

\* Focus gained: full disk access may have been granted meanwhile, and the
\* weekly scan may be due.
Focused(granted, weekly) ==
  /\ Running /\ (granted # ix.fda \/ weekly) /\ (ix.fda => granted)
  /\ LET lifted == IF granted /\ ~ix.fda THEN Protected \ ix.visited ELSE {}
         i == [ix EXCEPT !.fda = granted, !.due = @ \/ weekly,
                 !.tree = SkipAll(@, lifted, FALSE)]
         j == QueueScans(i, lifted) IN
     /\ ix' = IF j.due /\ ix.phase = "live" THEN StartFull(j) ELSE j
     /\ lost' = lost \cup LosesLifted(lifted)
                 \cup (IF j.due /\ ix.phase = "live"
                         THEN Loses(j, {[dir |-> RootDir, kind |-> "dropped"]}) ELSE {})
  /\ UNCHANGED <<disk, log, sent, inbox, scan, boost, boosts, boots, trespass>>

\* A pane opens a folder inside the protected root p: visited at once, the
\* message that lifts the skip follows.
Visit(p) ==
  /\ Running /\ p \in Protected \ ix.visited
  /\ boosts < MaxBoosts /\ boosts' = boosts + 1
  /\ ix' = [ix EXCEPT !.visited = @ \cup {p}]
  /\ inbox' = Append(inbox, [type |-> "visited", root |-> p])
  /\ lost' = lost \cup LosesLifted({p})
  /\ UNCHANGED <<disk, log, sent, scan, boost, boots, trespass>>

HandleVisited ==
  /\ Take("visited")
  /\ LET p == Head(inbox).root IN
     /\ ix' = QueueScan([ix EXCEPT !.tree = SetSkipped(@, p, FALSE)], p, FALSE)
     /\ lost' = lost \cup LosesLifted({p})
  /\ UNCHANGED <<disk, log, sent, scan, boost, boosts, boots, trespass>>

\* A size request the tree cannot answer becomes a boost.
RequestSize(d, fresh) ==
  /\ Running /\ boosts < MaxBoosts /\ boosts' = boosts + 1
  /\ d \in DOMAIN disk /\ ~Blocked(ix, d)
  /\ d \in DOMAIN ix.tree =>
       fresh \/ "skipped" \in ix.tree[d].flags \/ ~FullyIndexed(ix.tree, d)
  /\ ix' = QueueBoost(ix, d, fresh)
  /\ UNCHANGED <<disk, log, sent, inbox, scan, boost, boots, lost, trespass>>

\* The pane leaves: a queued boost goes, a running one is told to stop.
CancelBoost(d) ==
  /\ Running
  /\ \/ \E k \in DOMAIN ix.boosts : ix.boosts[k].root = d
     \/ boost.at = "walk" /\ boost.root = d /\ boost.failed = "no"
  /\ ix' = [ix EXCEPT !.boosts = OtherBoosts(ix, d)]
  /\ boost' = IF boost.at = "walk" /\ boost.root = d THEN [boost EXCEPT !.failed = "cancelled"] ELSE boost
  /\ UNCHANGED <<disk, log, sent, inbox, scan, boosts, boots, lost, trespass>>

\* The process ends.
Crash ==
  /\ ix.phase # "down"
  /\ ix' = [NewIndex EXCEPT !.saved = ix.saved, !.due = ix.due] /\ inbox' = <<>> /\ scan' = NoWalk /\ boost' = NoWalk
  /\ UNCHANGED <<disk, log, sent, boosts, boots, lost, trespass>>

----------------------------------------------------------------------------
(* The walks.                                                              *)

\* A walk that reads the protected directories too.
ExcludedNone(i, d, indexed) == IF indexed THEN IndexedSubtrees(i.tree, d) ELSE {}

\* The directories a walk of d never enters.
Excluded(i, d, indexed) ==
  (IF i.fda THEN {} ELSE Protected \ i.visited)
    \cup (IF indexed THEN IndexedSubtrees(i.tree, d) ELSE {})

StartedAt(job, indexed, full) ==
  LET d == job.root
      covered == indexed /\ d \in DOMAIN ix.tree /\ FullyIndexed(ix.tree, d)
                   /\ "skipped" \notin ix.tree[d].flags
      outcome == IF Blocked(ix, d) \/ covered THEN "skipped"
                 ELSE IF d \notin DOMAIN disk THEN "gone" ELSE "no" IN
  [root |-> d, full |-> full, batch |-> <<>>, at |-> "walk", failed |-> outcome,
   todo |-> IF outcome = "no" THEN {d} ELSE {}, skip |-> Excluded(ix, d, indexed)]

\* The background lane waits while a boost is queued or running.
StartScan ==
  /\ Running /\ scan.at = "idle" /\ ix.background # <<>> /\ ix.boosts = <<>> /\ boost.at = "idle"
  /\ scan' = StartedAt(Head(ix.background), FALSE, Head(ix.background).full)
  /\ ix' = [ix EXCEPT !.background = Tail(@)]
  /\ UNCHANGED <<disk, log, sent, inbox, boost, boosts, boots, lost, trespass>>

StartBoost ==
  /\ Running /\ boost.at = "idle" /\ ix.boosts # <<>>
  /\ boost' = StartedAt(Head(ix.boosts), ~Head(ix.boosts).refresh, FALSE)
  /\ ix' = [ix EXCEPT !.boosts = Tail(@)]
  /\ UNCHANGED <<disk, log, sent, inbox, scan, boosts, boots, lost, trespass>>

\* fast_walk visits one directory: excluded or vanished ones give no record.
Visited(w, d) ==
  IF d \in w.skip \/ d \notin DOMAIN disk THEN [w EXCEPT !.todo = @ \ {d}]
  ELSE [w EXCEPT !.todo = (@ \ {d}) \cup Listing(d).subdirs,
                 !.batch = Append(@, [dir |-> d, listing |-> Listing(d)])]

Trespasses(w, d) ==
  trespass' = (trespass \/ (d \in DOMAIN disk \ w.skip /\ Blocked(ix, d)))

ScanDir(d) ==
  /\ scan.at = "walk" /\ d \in scan.todo /\ ix.boosts = <<>> /\ boost.at = "idle"
  /\ scan' = Visited(scan, d) /\ Trespasses(scan, d)
  /\ UNCHANGED <<disk, log, sent, ix, inbox, boost, boosts, boots, lost>>

BoostDir(d) ==
  /\ boost.at = "walk" /\ d \in boost.todo /\ boost.failed = "no"
  /\ boost' = Visited(boost, d) /\ Trespasses(boost, d)
  /\ UNCHANGED <<disk, log, sent, ix, inbox, scan, boosts, boots, lost>>

RecordsOf(w) == [type |-> "records", records |-> w.batch]
Outcome(w) == IF w.failed = "no" THEN "walked" ELSE w.failed

\* A gentle walk sends what it has when it steps aside or is readmitted.
FlushScan ==
  /\ scan.at = "walk" /\ scan.batch # <<>> /\ Len(inbox) < MaxInbox
  /\ inbox' = Append(inbox, RecordsOf(scan)) /\ scan' = [scan EXCEPT !.batch = <<>>]
  /\ UNCHANGED <<disk, log, sent, ix, boost, boosts, boots, lost, trespass>>

\* A walk fails: the coordinator refuses its admission or its readmission, a
\* directory cannot be read, or the index is dropped.  What was not read yet stays
\* as it was in the tree, while the end of the walk is handled like any other.
FailScan ==
  /\ scan.at = "walk" /\ scan.failed = "no"
  /\ boosts < MaxBoosts /\ boosts' = boosts + 1
  /\ scan' = [scan EXCEPT !.failed = "cancelled", !.todo = {}]
  /\ lost' = lost \cup UNION {Subtree(d) : d \in scan.todo}
  /\ UNCHANGED <<disk, log, sent, ix, inbox, boost, boots, trespass>>

FailBoost ==
  /\ boost.at = "walk" /\ boost.failed = "no"
  /\ boost' = [boost EXCEPT !.failed = "cancelled"]
  /\ UNCHANGED <<disk, log, sent, ix, inbox, scan, boosts, boots, lost, trespass>>

EndScan ==
  /\ scan.at = "walk" /\ scan.todo = {} /\ scan.batch = <<>> /\ Len(inbox) < MaxInbox
  /\ inbox' = Append(inbox, [type |-> "scanDone", root |-> scan.root, full |-> scan.full,
                             outcome |-> Outcome(scan)])
  /\ scan' = NoWalk
  /\ UNCHANGED <<disk, log, sent, ix, boost, boosts, boots, lost, trespass>>

EndBoost ==
  /\ boost.at = "walk" /\ (boost.todo = {} \/ boost.failed # "no") /\ Len(inbox) < MaxInbox
  /\ inbox' = (IF boost.batch = <<>> THEN inbox ELSE Append(inbox, RecordsOf(boost)))
                \o <<[type |-> "boostDone", root |-> boost.root, outcome |-> Outcome(boost)]>>
  /\ boost' = NoWalk
  /\ UNCHANGED <<disk, log, sent, ix, scan, boosts, boots, lost, trespass>>

----------------------------------------------------------------------------
IndexNext ==
  \/ \E d \in Dirs : WriteDir(d) \/ MakeDir(d) \/ RemoveDir(d) \/ ScanDir(d) \/ BoostDir(d) \/ CancelBoost(d)
  \/ \E k \in 0..MaxLog : Deliver(k)
  \/ Launch
  \/ \E fda \in Grants, usable, weekly \in BOOLEAN : Boot(fda, usable, weekly)
  \/ HandleEvents \/ HandleRecords \/ HandleScanDone \/ HandleBoostDone \/ HandleVisited
  \/ SaveSnapshot \/ Crash
  \/ \E granted \in Grants, weekly \in BOOLEAN : Focused(granted, weekly)
  \/ \E p \in Protected : Visit(p)
  \/ \E d \in Dirs, fresh \in BOOLEAN : RequestSize(d, fresh)
  \/ StartScan \/ StartBoost \/ FlushScan \/ FailScan \/ FailBoost \/ EndScan \/ EndBoost

IndexSpec == IndexInit /\ [][IndexNext]_indexVars

----------------------------------------------------------------------------
\* Whatever order walks, re-reads, prunes, privacy skips and snapshot loads come
\* in, every total, pending, skipped and denied count of the tree is the sum over
\* the directories below it (tree.rs, bump and remove carry deltas only).
TreeIsExact == AggregatesExact(ix.tree)

\* No walk and no re-read lists a directory macOS would ask the user about
\* before the user went there or granted access (size/index/mod.rs,
\* privacy_blocked and the exclusions a walk captured when it began).
NeverTrespasses == ~trespass

\* What holds in every state: exact aggregates, and no read the user must approve.
IndexInv == TreeIsExact /\ NeverTrespasses

\* A loaded directory would show other files or subdirectories than the disk.
Stale(T, d) ==
  d \in DOMAIN T /\ "scanned" \in T[d].flags
    /\ (T[d].direct # disk[d] \/ Children(d) \cap DOMAIN T # Children(d) \cap DOMAIN disk)

\* What the snapshot holds of d is right, or an event of d comes after its ID.
Replays(d) ==
  Stale(ix.saved.tree, d) => \E n \in DOMAIN log : n > ix.saved.id /\ log[n] = d

\* A relaunch from the snapshot repeats every change the snapshot misses: the
\* event ID in it never passes a change (save_snapshot's promise).
SavedReplays == ix.saved.there /\ ~ix.due => \A d \in DOMAIN disk : Replays(d)

=============================================================================
