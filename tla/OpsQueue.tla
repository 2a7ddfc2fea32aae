------------------------------ MODULE OpsQueue ------------------------------
(***************************************************************************)
(* The file-operation queue of src-tauri/src/ops/mod.rs: OpsService (the   *)
(* user's commands), the scheduler that reserves whole volume sets, and    *)
(* one worker thread per dispatched operation, down to what the worker     *)
(* does to the source and the destination of every item.                   *)
(*                                                                         *)
(* Grain: one action per critical section of Inner's lock or of an         *)
(* operation's own lock, so that commands interleave with the worker       *)
(* wherever the code lets go of a lock; what a command finds in the map it *)
(* still holds when it locks the operation.  A worker is its operation's   *)
(* "pc": OneWorkerPerOp says why one pc per operation is enough.           *)
(***************************************************************************)
EXTENDS Naturals, Sequences, FiniteSets

CONSTANTS
  Ops,         \* operation ids, never reused (next_id)
  Volumes,     \* mount roots
  VolumesOf,   \* volumes_for: source and destination roots of an operation
  KindOf,      \* "copy", "move", "delete" or "archive" (Compress and Extract)
  ItemCount,   \* top-level items of every operation
  Occupied,    \* operations whose item names already exist at the destination
  InPlace,     \* operations whose destination is the directory of their source
  Folders,     \* operations whose items are folders and arrive with size 0
  SlotCap,     \* throughput slots of the resource coordinator
  MaxRetries,  \* bound: how often a failed operation is retried
  MaxNotices,  \* bound: commands on one operation between change and notify
  MaxRequest,  \* bound: ids in one request to reorder
  Inputs       \* the user commands and failures this instance explores

Kinds     == {"copy", "move", "delete", "archive"}
AllInputs == {"pause", "resume", "cancel_pending", "cancel", "skip", "resolve",
              "retry", "reorder", "deny", "fail"}

ASSUME VolumesAssumption ==
  VolumesOf \in [Ops -> (SUBSET Volumes) \ {{}}]

ASSUME OpsAssumption ==
  /\ KindOf \in [Ops -> Kinds]
  /\ ItemCount \in Nat \ {0}
  /\ Occupied \subseteq Ops /\ InPlace \subseteq Occupied /\ Folders \subseteq Ops
  /\ SlotCap \in Nat \ {0} /\ MaxRetries \in Nat
  /\ MaxNotices \in Nat \ {0} /\ MaxRequest \in Nat
  /\ Inputs \subseteq AllInputs

Items       == 1..ItemCount
Resolutions == {"Replace", "Skip", "Rename"}
NoAnswer    == "None"

VARIABLES
  listed,   \* keys of Inner.ops
  order,    \* Inner.order
  busy,     \* Inner.busy_volumes
  op,       \* OpState of every operation
  pc,       \* where the operation's worker is; "idle" = no worker
  item,     \* index of the item the worker is at
  target,   \* name the current item goes to: its own or a fresh one
  asleep,   \* the worker waits on the operation's condvar
  src,      \* disk: is the source item still there
  dst,      \* disk: what is under the destination name
  skipped,  \* history: items the user chose not to transfer
  owed,     \* schedule() calls that start_op and retry_op still owe
  tail,     \* workers that freed their volumes and still have to reschedule
  timers,   \* retention timers that run
  notices   \* commands that changed the operation and still have to notify

vars  == <<listed, order, busy, op, pc, item, target, asleep, src, dst,
           skipped, owed, tail, timers, notices>>
disk  == <<src, dst, skipped>>
queue == <<listed, order, busy, owed, tail, timers, notices>>
place == <<item, target>>

Statuses == {"none", "Pending", "Active", "Paused", "Conflict",
             "Completed", "Failed", "Cancelled"}
Terminal == {"Completed", "Failed", "Cancelled"}
Names    == {"own", "fresh"}

PCs == {"idle", "admit", "queued", "start", "begin", "measure", "top",
        "check", "conflict", "parked", "gate", "io", "chunk", "copied", "ioend",
        "advance", "after", "recheck", "final", "drop", "release"}

OpState ==
  [status : Statuses, cancel : BOOLEAN, pause : BOOLEAN, skip : BOOLEAN,
   error : BOOLEAN, stamped : BOOLEAN, overtaken : BOOLEAN,
   blanket : Resolutions \cup {NoAnswer}, answer : Resolutions \cup {NoAnswer},
   completed : Nat, retries : Nat]

TypeOK ==
  /\ listed \subseteq Ops
  /\ order \in Seq(Ops)
  /\ busy \subseteq Volumes
  /\ op \in [Ops -> OpState]
  /\ pc \in [Ops -> PCs]
  /\ item \in [Ops -> Items]
  /\ target \in [Ops -> Names]
  /\ asleep \in [Ops -> BOOLEAN]
  /\ src \in [Ops -> [Items -> {"present", "gone"}]]
  /\ dst \in [Ops -> [Items -> [Names -> {"absent", "old", "partial", "whole"}]]]
  /\ skipped \in [Ops -> SUBSET Items]
  /\ owed \in [Ops -> Nat] /\ tail \in [Ops -> Nat] /\ timers \in [Ops -> Nat]
  /\ notices \in [Ops -> Nat]

\* completed_at: "stamped"; error_message: "error"; the pending ConflictInfo is
\* the status "Conflict" itself.  "overtaken" is history: a conflict has been
\* shown over the last cancellation.
NewOp(status) ==
  [status |-> status, cancel |-> FALSE, pause |-> FALSE, skip |-> FALSE,
   error |-> FALSE, stamped |-> FALSE, overtaken |-> FALSE, blanket |-> NoAnswer,
   answer |-> NoAnswer, completed |-> 0, retries |-> 0]

Init ==
  /\ listed = {} /\ order = <<>> /\ busy = {}
  /\ op = [o \in Ops |-> NewOp("none")]
  /\ pc = [o \in Ops |-> "idle"]
  /\ item = [o \in Ops |-> 1]
  /\ target = [o \in Ops |-> "own"]
  /\ asleep = [o \in Ops |-> FALSE]
  /\ src = [o \in Ops |-> [i \in Items |-> "present"]]
  /\ dst = [o \in Ops |-> [i \in Items |-> [n \in Names |->
              IF n = "own" /\ o \in Occupied THEN "old" ELSE "absent"]]]
  /\ skipped = [o \in Ops |-> {}]
  /\ owed = [o \in Ops |-> 0] /\ tail = [o \in Ops |-> 0]
  /\ timers = [o \in Ops |-> 0] /\ notices = [o \in Ops |-> 0]

-----------------------------------------------------------------------------
(* Scheduling: schedule() and collect_startable(), the same loop twice.    *)

Queued == {order[i] : i \in DOMAIN order}

\* Mutants: the loop tests a snapshot of busy_volumes; it tests only its own
\* choices.
ReservedBeforeSnapshot(S, i) == busy
ReservedBeforeChosenOnly(S, i) ==
  UNION {VolumesOf[order[j]] : j \in {k \in 1..(i-1) : order[k] \in S}}

\* The volumes taken when the loop reaches position i: those reserved before
\* it started and those of the operations it chose at earlier positions.
ReservedBefore(S, i) ==
  busy \cup UNION {VolumesOf[order[j]] : j \in {k \in 1..(i-1) : order[k] \in S}}

\* S is the set the loop over "order" reserves: greedy, in queue order.  Of an
\* id that stands twice the second entry finds the volumes of the first busy.
IsStartable(S) ==
  \A o \in Queued :
    o \in S <=>
      /\ o \in listed
      /\ op[o].status = "Pending"
      /\ \E i \in DOMAIN order :
           order[i] = o /\ VolumesOf[o] \cap ReservedBefore(S, i) = {}

\* Reserve and spawn: the status stays Pending until the worker runs.
Dispatch ==
  \E S \in SUBSET Queued :
    /\ IsStartable(S)
    /\ busy' = busy \cup UNION {VolumesOf[o] : o \in S}
    /\ pc' = [o \in Ops |-> IF o \in S THEN "admit" ELSE pc[o]]

Schedule(o) ==
  /\ owed[o] > 0
  /\ owed' = [owed EXCEPT ![o] = @ - 1]
  /\ Dispatch
  /\ UNCHANGED <<listed, order, op, place, asleep, disk, tail, timers, notices>>

-----------------------------------------------------------------------------
(* The user's commands.  Each finds the operation in the map, or does      *)
(* nothing.                                                                *)

StartOp(o) ==
  /\ op[o].status = "none"
  /\ op' = [op EXCEPT ![o] = NewOp("Pending")]
  /\ listed' = listed \cup {o}
  /\ order' = Append(order, o)
  /\ owed' = [owed EXCEPT ![o] = @ + 1]
  /\ UNCHANGED <<busy, pc, place, asleep, disk, tail, timers, notices>>

Command(o, name, statuses) ==
  /\ name \in Inputs
  /\ o \in listed
  /\ op[o].status \in statuses
  /\ UNCHANGED <<pc, place, asleep, disk>>

\* The second half of a command: it has let go of the operation, looks the
\* condvar up (Inner.signals has the keys of Inner.ops) and notifies it.
MustNotify(o) ==
  /\ notices[o] < MaxNotices
  /\ notices' = [notices EXCEPT ![o] = @ + 1]
  /\ UNCHANGED <<listed, order, busy, owed, tail, timers>>

NotifyAll(o) ==
  /\ notices[o] > 0
  /\ notices' = [notices EXCEPT ![o] = @ - 1]
  /\ asleep' = [asleep EXCEPT ![o] = @ /\ o \notin listed]
  /\ UNCHANGED <<listed, order, busy, op, pc, place, disk, owed, tail, timers>>

PauseOp(o) ==
  /\ Command(o, "pause", {"Active"})
  /\ op' = [op EXCEPT ![o].pause = TRUE, ![o].status = "Paused"]
  /\ UNCHANGED queue

ResumeOp(o) ==
  /\ Command(o, "resume", {"Paused"})
  /\ op' = [op EXCEPT ![o].pause = FALSE, ![o].status = "Active"]
  /\ MustNotify(o)

\* Mutant: the volumes are freed although a worker may be using them.
CancelPendingFreeing(o) ==
  /\ Command(o, "cancel_pending", {"Pending"})
  /\ op' = [op EXCEPT ![o].status = "Cancelled", ![o].stamped = TRUE]
  /\ timers' = [timers EXCEPT ![o] = @ + 1]
  /\ busy' = busy \ VolumesOf[o]
  /\ UNCHANGED <<listed, order, owed, tail, notices>>

\* A Pending operation is marked at once and its retention timer starts, even
\* when a worker for it has been dispatched and waits for admission.
CancelPending(o) ==
  /\ Command(o, "cancel_pending", {"Pending"})
  /\ op' = [op EXCEPT ![o].status = "Cancelled", ![o].stamped = TRUE]
  /\ timers' = [timers EXCEPT ![o] = @ + 1]
  /\ UNCHANGED <<listed, order, busy, owed, tail, notices>>

CancelRunning(o) ==
  /\ Command(o, "cancel", {"Active", "Paused", "Conflict"})
  /\ op' = [op EXCEPT ![o].skip = FALSE, ![o].cancel = TRUE,
                      ![o].pause = FALSE, ![o].status = "Cancelled",
                      ![o].overtaken = FALSE]
  /\ MustNotify(o)

CancelOp(o) == CancelPending(o) \/ CancelRunning(o)

\* Mutant: the worker is not woken.
SkipOpSilent(o) ==
  /\ Command(o, "skip", {"Paused"})
  /\ op' = [op EXCEPT ![o].skip = TRUE, ![o].cancel = TRUE,
                      ![o].pause = FALSE, ![o].status = "Active"]
  /\ UNCHANGED queue

\* One-shot: skip borrows the cancel flag to make the worker drop the item.
SkipOp(o) ==
  /\ Command(o, "skip", {"Paused"})
  /\ op' = [op EXCEPT ![o].skip = TRUE, ![o].cancel = TRUE,
                      ![o].pause = FALSE, ![o].status = "Active"]
  /\ MustNotify(o)

ResolveConflict(o, r, applyToAll) ==
  /\ Command(o, "resolve", {"Conflict"})
  /\ op' = [op EXCEPT ![o].answer = r, ![o].status = "Active",
                      ![o].blanket = IF applyToAll THEN r ELSE @]
  /\ MustNotify(o)

\* Everything is reset but the byte total.
RetryOp(o) ==
  /\ op[o].retries < MaxRetries
  /\ Command(o, "retry", {"Failed"})
  /\ op' = [op EXCEPT ![o] = [NewOp("Pending") EXCEPT !.retries = op[o].retries + 1]]
  /\ owed' = [owed EXCEPT ![o] = @ + 1]
  /\ UNCHANGED <<listed, order, busy, tail, timers, notices>>

IsPending(o) == o \in listed /\ op[o].status = "Pending"

\* The entries of seq at the positions in K, in their order.
Nth(K, n) == CHOOSE k \in K : Cardinality({j \in K : j <= k}) = n
Picked(seq, K) == [n \in 1..Cardinality(K) |-> seq[Nth(K, n)]]

\* Pending slots up to position i, and the pending ids of a request.
PendingIn(seq) == {i \in DOMAIN seq : IsPending(seq[i])}
Turn(i) == Cardinality({j \in PendingIn(order) : j <= i})
Asked(ids) == Picked(ids, PendingIn(ids))

\* reorder_ops, its first loop: a pending slot takes the next pending id of the
\* request, as often as the request names it, and is dropped when there is none.
Kept(asked) == {i \in DOMAIN order : IsPending(order[i]) => Turn(i) <= Len(asked)}
Fill(asked, kept) ==
  [i \in kept |-> IF IsPending(order[i]) THEN asked[Turn(i)] ELSE order[i]]

\* Its second loop: pending ids that have no slot now go behind everything else.
LeftOver(front) ==
  {i \in PendingIn(order) :
     /\ \A k \in DOMAIN front : front[k] # order[i]
     /\ \A j \in DOMAIN order : order[j] = order[i] => i <= j}

\* Mutant: the second loop is missing.
ReorderedForgetting(ids) ==
  LET asked == Asked(ids)
      kept  == Kept(asked)
  IN  Picked(Fill(asked, kept), kept)

Reordered(ids) ==
  LET asked == Asked(ids)
      kept  == Kept(asked)
      front == Picked(Fill(asked, kept), kept)
  IN  front \o Picked(order, LeftOver(front))

\* Any ids in any order: the command checks nothing and may name one twice.
Requests == UNION {[1..n -> Ops] : n \in 0..MaxRequest}

ReorderOps(ids) ==
  /\ "reorder" \in Inputs
  /\ order' = Reordered(ids)
  /\ UNCHANGED <<listed, busy, op, pc, place, asleep, disk, owed, tail, timers,
                 notices>>

\* has_unfinished_work, what the close guard asks.
HasUnfinishedWork ==
  \E o \in listed :
    \/ op[o].status \notin Terminal
    \/ op[o].status = "Cancelled" /\ ~op[o].stamped
-----------------------------------------------------------------------------
(* The worker: admit_and_run_operation, run_operation and process_item.    *)

\* Operations that hold a throughput slot of the coordinator (the JobHandle
\* lives until admit_and_run_operation returns).
Admitted == {o \in Ops : pc[o] \notin {"idle", "admit", "queued", "release"}}

At(o, place1) == pc[o] = place1 /\ ~asleep[o]
GoTo(o, next) == pc' = [pc EXCEPT ![o] = next]

\* A step that only moves the worker, and one that also changes its OpState.
Move(o, from, to) ==
  /\ At(o, from) /\ GoTo(o, to)
  /\ UNCHANGED <<queue, place, asleep, disk>>
Quiet(o, from, to) == Move(o, from, to) /\ UNCHANGED op

Fail(o) == op' = [op EXCEPT ![o].error = TRUE]
FailAt(o, from) == "fail" \in Inputs /\ Move(o, from, "after") /\ Fail(o)

\* The resources are read from the map; a removed operation is not run.
Admit(o) == Quiet(o, "admit", IF o \in listed THEN "queued" ELSE "release")

\* submit: the coordinator grants one of its slots ...
Grant(o) == Cardinality(Admitted) < SlotCap /\ Quiet(o, "queued", "start")

\* ... or refuses (its queue is full, or it was shut down).
Deny(o) ==
  /\ "deny" \in Inputs
  /\ Move(o, "queued", "release")
  /\ op' = IF o \in listed
           THEN [op EXCEPT ![o].status = "Cancelled", ![o].error = TRUE]
           ELSE op

\* run_operation looks the operation up again ...
Find(o) == Quiet(o, "start", IF o \in listed THEN "begin" ELSE "drop")

\* ... and marks it Active, whatever its status is by now.
Begin(o) ==
  Move(o, "begin", "measure") /\ op' = [op EXCEPT ![o].status = "Active"]

\* measure_totals_up_front: only byte totals change before the first item.
Measure(o) ==
  /\ At(o, "measure") /\ GoTo(o, "top")
  /\ item' = [item EXCEPT ![o] = 1]
  /\ UNCHANGED <<queue, op, target, asleep, disk>>

\* Mutant: one item too many.
NextItemPastEnd(o) ==
  IF item[o] <= ItemCount
  THEN GoTo(o, "top") /\ item' = [item EXCEPT ![o] = @ + 1]
  ELSE GoTo(o, "final") /\ UNCHANGED item

\* The next iteration of the loop over the items, or its end.
NextItem(o) ==
  IF item[o] < ItemCount
  THEN GoTo(o, "top") /\ item' = [item EXCEPT ![o] = @ + 1]
  ELSE GoTo(o, "final") /\ UNCHANGED item

\* finish_skipped_item found the one-shot request.
SkipItem(o, from) ==
  /\ At(o, from) /\ op[o].skip
  /\ op' = [op EXCEPT ![o].skip = FALSE, ![o].cancel = FALSE,
                      ![o].pause = TRUE, ![o].status = "Paused",
                      ![o].completed = @ + 1]
  /\ skipped' = [skipped EXCEPT ![o] = @ \cup {item[o]}]
  /\ NextItem(o)
  /\ UNCHANGED <<queue, target, asleep, src, dst>>

Stops(o) == op[o].cancel \/ op[o].error

Top(o) == SkipItem(o, "top") \/ (~op[o].skip /\ Quiet(o, "top", "check"))

Check(o) ==
  LET first == IF KindOf[o] \in {"copy", "move"} THEN "conflict" ELSE "gate"
  IN  /\ At(o, "check")
      /\ GoTo(o, IF Stops(o) THEN "final" ELSE first)
      /\ target' = [target EXCEPT ![o] = "own"]
      /\ UNCHANGED <<queue, op, item, asleep, disk>>

After(o) == SkipItem(o, "after") \/ (~op[o].skip /\ Quiet(o, "after", "recheck"))

Recheck(o) ==
  /\ At(o, "recheck")
  /\ IF Stops(o) THEN GoTo(o, "final") /\ UNCHANGED item ELSE NextItem(o)
  /\ UNCHANGED <<queue, op, target, asleep, disk>>

Here(o) == dst[o][item[o]][target[o]]
Put(o, what) == dst' = [dst EXCEPT ![o][item[o]][target[o]] = what]

\* What process_item does with the answer r to a conflict.
Apply(o, from, r) ==
  /\ At(o, from)
  /\ UNCHANGED <<queue, item, asleep, src>>
  /\ \/ /\ r = "Skip" \/ (r = "Replace" /\ o \in InPlace)
        /\ GoTo(o, "advance")
        /\ skipped' = [skipped EXCEPT ![o] = @ \cup {item[o]}]
        /\ UNCHANGED <<target, dst>>
     \/ /\ r = "Replace" /\ o \notin InPlace
        /\ GoTo(o, "gate")
        /\ \/ Put(o, "absent")
           \/ o \in Folders /\ src[o][item[o]] = "present" /\ UNCHANGED dst
        /\ UNCHANGED <<target, skipped>>
     \/ /\ r = "Rename"
        /\ GoTo(o, "gate")
        /\ target' = [target EXCEPT ![o] = "fresh"]
        /\ UNCHANGED <<dst, skipped>>

\* Conflict detection and resolve_or_park up to the wait.  It looks at neither
\* the pause flag nor the cancel flag: the conflict shows over a cancellation.
Detect(o) ==
  \/ FailAt(o, "conflict")
  \/ Here(o) = "absent" /\ Quiet(o, "conflict", "gate")
  \/ /\ Here(o) # "absent" /\ op[o].blanket # NoAnswer
     /\ Apply(o, "conflict", op[o].blanket)
     /\ UNCHANGED op
  \/ /\ Here(o) # "absent" /\ op[o].blanket = NoAnswer
     /\ Move(o, "conflict", "parked")
     /\ op' = [op EXCEPT ![o].status = "Conflict", ![o].answer = NoAnswer,
                         ![o].overtaken = op[o].cancel /\ ~op[o].skip]

\* The worker wakes from resolve_or_park with an answer, or cancelled.
Answered(o) ==
  \/ op[o].cancel /\ Quiet(o, "parked", "after")
  \/ /\ ~op[o].cancel /\ op[o].answer # NoAnswer
     /\ op' = [op EXCEPT ![o].answer = NoAnswer]
     /\ Apply(o, "parked", op[o].answer)
  \/ /\ ~op[o].cancel /\ op[o].answer = "Replace" /\ o \notin InPlace
     /\ "fail" \in Inputs
     /\ Move(o, "parked", "after")
     /\ op' = [op EXCEPT ![o].answer = NoAnswer, ![o].error = TRUE]

\* Mutant: a parked worker listens only for an answer.
ReadyAnsweredOnly(o) ==
  IF pc[o] = "parked" THEN op[o].answer # NoAnswer
  ELSE op[o].cancel \/ ~op[o].pause

\* The condvar waits: resolve_or_park and wait_while_paused.
Ready(o) ==
  IF pc[o] = "parked" THEN op[o].cancel \/ op[o].answer # NoAnswer
  ELSE op[o].cancel \/ ~op[o].pause

Sleep(o) ==
  /\ pc[o] \in {"parked", "gate", "chunk"}
  /\ ~asleep[o] /\ ~Ready(o)
  /\ asleep' = [asleep EXCEPT ![o] = TRUE]
  /\ UNCHANGED <<queue, op, pc, place, disk>>

\* wait_while_paused and the cancel check before the item's I/O.
Gate(o) == Ready(o) /\ Quiet(o, "gate", IF op[o].cancel THEN "after" ELSE "io")

DiskStep(o, from, to) ==
  /\ At(o, from) /\ GoTo(o, to)
  /\ UNCHANGED <<queue, op, place, asleep, skipped>>

\* A folder that moves onto a folder merges into it (nothing else finds its
\* target taken here).
Merges(o) == KindOf[o] = "move" /\ Here(o) # "absent"

\* A move is tried as a rename first; everything else streams.  A merge moves
\* the children, by renames without a wait or with copies, and then removes the
\* emptied source.
StartIo(o) ==
  \/ src[o][item[o]] = "gone" /\ Move(o, "io", "after") /\ Fail(o)
  \/ FailAt(o, "io")
  \/ /\ src[o][item[o]] = "present" /\ KindOf[o] = "move" /\ ~Merges(o)
     /\ DiskStep(o, "io", "ioend")
     /\ src' = [src EXCEPT ![o][item[o]] = "gone"]
     /\ Put(o, "whole")
  \/ /\ src[o][item[o]] = "present" /\ Merges(o)
     /\ DiskStep(o, "io", "copied")
     /\ Put(o, "whole")
     /\ UNCHANGED src
  \/ /\ src[o][item[o]] = "present" /\ KindOf[o] # "delete"
     /\ DiskStep(o, "io", "chunk")
     /\ Put(o, "partial")
     /\ UNCHANGED src
  \/ KindOf[o] = "delete" /\ src[o][item[o]] = "present" /\ Quiet(o, "io", "chunk")

\* A move across devices still has to remove what it copied.
CopyEnds(o) == IF KindOf[o] = "move" THEN "copied" ELSE "ioend"

\* The last chunk of an item, by kind: a tree was copied, an archive written or
\* unpacked, a tree deleted.
CopyTree(o) ==
  KindOf[o] \in {"copy", "move"} /\ Put(o, "whole") /\ UNCHANGED src
ArchiveItem(o) ==
  KindOf[o] = "archive" /\ Put(o, "whole") /\ UNCHANGED src
DeleteTree(o) ==
  /\ KindOf[o] = "delete"
  /\ src' = [src EXCEPT ![o][item[o]] = "gone"]
  /\ UNCHANGED dst

\* The copy or delete loop: it waits while paused and returns without an error
\* when cancelled (the partial target stays), fails, or finishes the item.
Chunk(o) ==
  /\ Ready(o)
  /\ \/ op[o].cancel /\ Quiet(o, "chunk", CopyEnds(o))
     \/ ~op[o].cancel /\ FailAt(o, "chunk")
     \/ /\ ~op[o].cancel
        /\ DiskStep(o, "chunk", CopyEnds(o))
        /\ CopyTree(o) \/ ArchiveItem(o) \/ DeleteTree(o)

\* Mutant: the copy's Ok is taken for a complete copy.
RemoveSourceUnchecked(o) ==
  /\ DiskStep(o, "copied", "ioend")
  /\ src' = [src EXCEPT ![o][item[o]] = "gone"]
  /\ UNCHANGED dst

\* A move across devices removes its source only when it was not cancelled.
RemoveSource(o) ==
  \/ op[o].cancel /\ Quiet(o, "copied", "ioend")
  \/ ~op[o].cancel /\ FailAt(o, "copied")
  \/ /\ ~op[o].cancel
     /\ DiskStep(o, "copied", "ioend")
     /\ src' = [src EXCEPT ![o][item[o]] = "gone"]
     /\ UNCHANGED dst

EndIo(o) == Quiet(o, "ioend", IF op[o].cancel THEN "after" ELSE "advance")

AdvanceItem(o) ==
  Move(o, "advance", "after") /\ op' = [op EXCEPT ![o].completed = @ + 1]

\* Mutants: a cancelled operation counts as completed; its error comes first.
FinishIgnoringCancel(o) ==
  /\ Move(o, "final", "drop")
  /\ op' = [op EXCEPT ![o].stamped = TRUE,
              ![o].status = IF op[o].error THEN "Failed" ELSE "Completed"]
FinishErrorFirst(o) ==
  /\ Move(o, "final", "drop")
  /\ op' = [op EXCEPT ![o].stamped = TRUE,
              ![o].status = IF op[o].error THEN "Failed"
                            ELSE IF op[o].cancel THEN "Cancelled" ELSE "Completed"]

\* The end of run_operation, then the JobHandle is dropped.
Finish(o) ==
  /\ Move(o, "final", "drop")
  /\ op' = [op EXCEPT ![o].stamped = TRUE,
              ![o].status = IF op[o].cancel THEN "Cancelled"
                            ELSE IF op[o].error THEN "Failed" ELSE "Completed"]

\* Mutant: the volumes are freed with the permit, and again by Release.
DropPermitFreeing(o) ==
  /\ At(o, "drop") /\ GoTo(o, "release")
  /\ busy' = busy \ VolumesOf[o]
  /\ UNCHANGED <<listed, order, op, place, asleep, disk, owed, tail, timers,
                 notices>>

DropPermit(o) == Quiet(o, "drop", "release")

\* Mutant: only a completed operation makes room for the next one.
ReleaseSilently(o) ==
  /\ At(o, "release") /\ GoTo(o, "idle")
  /\ busy' = IF o \in listed THEN busy \ VolumesOf[o] ELSE busy
  /\ tail' = [tail EXCEPT ![o] = IF op[o].status = "Completed" THEN @ + 1 ELSE @]
  /\ UNCHANGED <<listed, order, op, place, asleep, disk, owed, timers, notices>>

\* release_and_reschedule: the volumes to free are read from the map, where a
\* removed operation has none.
Release(o) ==
  /\ At(o, "release") /\ GoTo(o, "idle")
  /\ busy' = IF o \in listed THEN busy \ VolumesOf[o] ELSE busy
  /\ tail' = [tail EXCEPT ![o] = @ + 1]
  /\ UNCHANGED <<listed, order, op, place, asleep, disk, owed, timers, notices>>

\* Mutant: only the retention timer, no pass over the queue.
RescheduleTimerOnly(o) ==
  /\ tail[o] > 0
  /\ tail' = [tail EXCEPT ![o] = @ - 1]
  /\ timers' = IF o \in listed /\ op[o].status \in {"Completed", "Cancelled"}
               THEN [timers EXCEPT ![o] = @ + 1] ELSE timers
  /\ UNCHANGED <<listed, order, busy, op, pc, place, asleep, disk, owed, notices>>

\* collect_startable, then schedule_auto_remove.
Reschedule(o) ==
  /\ tail[o] > 0
  /\ tail' = [tail EXCEPT ![o] = @ - 1]
  /\ Dispatch
  /\ timers' = IF o \in listed /\ op[o].status \in {"Completed", "Cancelled"}
               THEN [timers EXCEPT ![o] = @ + 1] ELSE timers
  /\ UNCHANGED <<listed, order, op, place, asleep, disk, owed, notices>>

\* The queue without o (retain).
Without(o) == Picked(order, {i \in DOMAIN order : order[i] # o})

\* A retention timer fires.
AutoRemove(o) ==
  /\ timers[o] > 0
  /\ timers' = [timers EXCEPT ![o] = @ - 1]
  /\ IF o \in listed /\ op[o].status \in {"Completed", "Cancelled"}
     THEN listed' = listed \ {o} /\ order' = Without(o)
     ELSE UNCHANGED <<listed, order>>
  /\ UNCHANGED <<busy, op, pc, place, asleep, disk, owed, tail, notices>>

-----------------------------------------------------------------------------
User(o) ==
  \/ StartOp(o) \/ PauseOp(o) \/ ResumeOp(o) \/ CancelOp(o) \/ SkipOp(o)
  \/ RetryOp(o)
  \/ \E r \in Resolutions, all \in BOOLEAN : ResolveConflict(o, r, all)

WorkerStep(o) ==
  \/ Admit(o) \/ Grant(o) \/ Deny(o) \/ Find(o) \/ Begin(o) \/ Measure(o)
  \/ Top(o) \/ Check(o) \/ Detect(o) \/ Answered(o) \/ Sleep(o) \/ Gate(o)
  \/ StartIo(o) \/ Chunk(o) \/ RemoveSource(o) \/ EndIo(o) \/ AdvanceItem(o)
  \/ After(o) \/ Recheck(o) \/ Finish(o) \/ DropPermit(o) \/ Release(o)

Background(o) ==
  Schedule(o) \/ NotifyAll(o) \/ Reschedule(o) \/ AutoRemove(o)

Next ==
  \/ \E o \in Ops : User(o) \/ WorkerStep(o) \/ Background(o)
  \/ \E ids \in Requests : ReorderOps(ids)

Spec == Init /\ [][Next]_vars

\* Threads that can run do run; nothing forces the user to act.
Fairness ==
  \A o \in Ops : /\ WF_vars(WorkerStep(o))
                 /\ WF_vars(Schedule(o)) /\ WF_vars(Reschedule(o))
                 /\ WF_vars(NotifyAll(o)) /\ WF_vars(AutoRemove(o))

FairSpec == Spec /\ Fairness
-----------------------------------------------------------------------------
(* Properties.                                                             *)

\* The operation's volumes are reserved for its worker.
Holding(o) == pc[o] # "idle"

\* Jobs sharing a volume are serialized: two operations that hold workers at
\* the same time touch disjoint volumes (schedule, collect_startable and
\* release_and_reschedule over busy_volumes).
VolumeExclusive ==
  \A a, b \in Ops :
    a # b /\ Holding(a) /\ Holding(b) => VolumesOf[a] \cap VolumesOf[b] = {}

\* What a worker reserved stays in busy_volumes until that worker frees it, so
\* no other worker's release can take it away.
ReservedWhileHolding ==
  \A o \in Ops : Holding(o) => VolumesOf[o] \subseteq busy

\* The inductive invariant of the two.
Exclusion == VolumeExclusive /\ ReservedWhileHolding

\* An operation is dispatched only when its previous worker (before a retry)
\* has freed its volumes: an operation never has two workers on its items.
OneWorkerPerOp ==
  [][\A o \in Ops : pc'[o] = "admit" => pc[o] \in {"idle", "admit"}]_pc

\* No eligible operation is left behind: when no thread still owes a pass over
\* the queue, every pending operation without a worker is blocked by a busy
\* volume, so some release will look at it again (start_op, retry_op and
\* release_and_reschedule each end in such a pass).
NoStrandedPending ==
  (\A o \in Ops : owed[o] = 0 /\ tail[o] = 0) =>
     \A o \in listed : op[o].status = "Pending" /\ pc[o] = "idle" =>
                         VolumesOf[o] \cap busy # {}

\* A worker sleeps only on a false condition, or a command that made it true
\* is about to wake it: no interleaving of commands with a worker on its way
\* to sleep loses a wake-up (resume, cancel, skip, resolve against
\* resolve_or_park and wait_while_paused).
NoLostWakeup ==
  \A o \in Ops : asleep[o] /\ Ready(o) => notices[o] > 0 /\ o \in listed

Transferred(o, i) ==
  /\ KindOf[o] \in {"move", "delete"} => src[o][i] = "gone"
  /\ KindOf[o] # "delete" => \E n \in Names : dst[o][i][n] = "whole"

\* Completed is never reported over an item that was neither transferred nor
\* skipped by the user, although skip and cancel share one flag, and every item
\* was counted.
CompletedIsComplete ==
  \A o \in Ops : op[o].status = "Completed" =>
    /\ \A i \in Items : Transferred(o, i) \/ i \in skipped[o]
    /\ op[o].completed >= ItemCount

\* A move gives up the source of an item only for a complete destination:
\* the item's data exist somewhere at every moment (move_path, remove_source,
\* and Replace, which removes what is at the destination).
MoveKeepsACopy ==
  \A o \in Ops : \A i \in Items :
    KindOf[o] = "move" /\ src[o][i] = "gone" =>
      \E n \in Names : dst[o][i][n] = "whole"

\* The cancellation of a running operation is final: whatever its worker meets
\* and whatever the user presses, it stays Cancelled and nothing can skip it.
\* One step may overtake it: a worker already on its way into resolve_or_park
\* writes Conflict over the status.  The operation is then still cancelled, and
\* never reported Completed or Failed, unless the user answers the conflict,
\* pauses and skips before the worker looks.
CancelIsFinal ==
  [][\A o \in Ops : op[o].cancel /\ ~op[o].skip =>
       /\ op'[o].cancel /\ op'[o].status \notin {"Completed", "Failed"}
       /\ ~op[o].overtaken /\ ~op'[o].overtaken =>
            op[o].status = "Cancelled" /\ op'[o].status = "Cancelled" /\ ~op'[o].skip]_op

\* A cancelled worker unwinds and frees its volumes, wherever it was parked;
\* only a skip after a conflict that overtook the cancellation keeps it.
CancelUnwinds ==
  \A o \in Ops :
    (op[o].cancel /\ ~op[o].skip) ~> (pc[o] = "idle" \/ (op[o].overtaken /\ op[o].skip))

\* When from some time on no worker is parked by the user, the queue drains:
\* the close guard stops seeing work.
QueueDrains ==
  (<>[](\A o \in Ops : ~asleep[o])) => <>[](~HasUnfinishedWork)

\* Whatever a request to reorder names - stale, unknown or repeated ids - it
\* takes no operation out of the queue and puts none in, and the operations that
\* left Pending stand to each other as before.  It doubles an entry only when it
\* names an id twice.
Before(seq, a, b) ==
  \E i, j \in DOMAIN seq : i < j /\ seq[i] = a /\ seq[j] = b
OnceEach(seq) == \A i, j \in DOMAIN seq : seq[i] = seq[j] => i = j
ReorderKeepsOthers ==
  [][listed' = listed =>
       /\ Queued' = Queued
       /\ \A a, b \in listed : ~IsPending(a) /\ ~IsPending(b) =>
            (Before(order', a, b) <=> Before(order, a, b))
       /\ OnceEach(order) /\ ~OnceEach(order') =>
            \A ids \in Requests : ReorderOps(ids) => ~OnceEach(ids)]_order

\* The reservation discipline alone: the abstract lock table that schedule and
\* release implement.
Reservation == INSTANCE VolumeReservation WITH
  Holders <- Ops, Needs <- VolumesOf, holders <- {o \in Ops : Holding(o)}
ImplementsReservation == Reservation!Spec

-----------------------------------------------------------------------------
(* What a comment says and the code does not do.                           *)

\* "Never started: mark cancelled immediately." (cancel_op): an operation that
\* was cancelled before it started does not run later.
CancelledStaysCancelled ==
  [][\A o \in Ops : op[o].status = "Cancelled" => op'[o].status = "Cancelled"]_op
=============================================================================
