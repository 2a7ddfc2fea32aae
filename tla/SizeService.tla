------------------------------ MODULE SizeService ------------------------------
(***************************************************************************)
(* Folder sizes (size/mod.rs, size/scheduler.rs): a registry of the paths  *)
(* being sized, the coalescing queue behind it, the pool of workers that   *)
(* walk folders, and the batches that ask the Everything service.          *)
(*                                                                         *)
(* A job is a path and a token (the Arc<AtomicBool> the registry holds):   *)
(* a path may be cancelled and asked for again while its first job still   *)
(* runs, and only the token tells the two apart.  The pane that asked is   *)
(* the set "awaited" of the paths it shows as calculating.                 *)
(***************************************************************************)
EXTENDS Naturals, Sequences, FiniteSets, Functions, Filter

CONSTANTS
  Folders,      \* the paths that are sized
  SizeWorkers,  \* the pool of walking threads
  Batches,      \* the threads of Everything batches
  SizeCap,      \* capacity of the scheduler
  MaxJobs       \* bound: jobs registered in one behaviour

ASSUME SizeAssumption ==
  SizeCap \in Nat \ {0} /\ MaxJobs \in Nat /\ "none" \notin Folders

VARIABLES
  registry,   \* inner.jobs: path -> token
  entries,    \* scheduler.jobs: path -> [token, payload]
  queued,     \* scheduler.queued
  flagged,    \* the tokens that read as cancelled
  tokens,     \* tokens handed out so far
  workers,    \* each worker: [at, job, says]
  batches,    \* each batch: [at, todo, jobs, says]
  gate,       \* the batch inside the Everything gate, or "free"
  awaited,    \* paths the panes wait for
  refused     \* paths whose last job the coordinator refused to admit

sizeVars == <<registry, entries, queued, flagged, tokens, workers, batches,
              gate, awaited, refused>>

Tokens == 1..MaxJobs
NoJob == [path |-> "none", token |-> 0]
IdleWorker == [at |-> "next", job |-> NoJob, says |-> FALSE]
NoBatch == [at |-> "none", todo |-> {}, jobs |-> {}, says |-> {}]
Only(f, S) == [x \in S |-> f[x]]

SizeTypeOK ==
  /\ registry \in UNION {[S -> Tokens] : S \in SUBSET Folders}
  /\ entries \in UNION {[S -> [token : Tokens, payload : {"walk", "everything", "taken"}]]
                          : S \in SUBSET Folders}
  /\ queued \in Seq(Folders)
  /\ flagged \subseteq Tokens /\ tokens \in 0..MaxJobs
  /\ \A w \in SizeWorkers : workers[w].at \in {"next", "check", "admit", "walk", "complete", "emit"}
  /\ \A b \in Batches : batches[b].at \in {"none", "register", "gate", "query", "collect", "emit"}
  /\ gate \in Batches \cup {"free"}
  /\ awaited \subseteq Folders /\ refused \subseteq Folders
  /\ Cardinality(DOMAIN entries) <= SizeCap

SizeInit ==
  /\ registry = <<>> /\ entries = <<>> /\ queued = <<>>
  /\ flagged = {} /\ tokens = 0
  /\ workers = [w \in SizeWorkers |-> IdleWorker]
  /\ batches = [b \in Batches |-> NoBatch]
  /\ gate = "free" /\ awaited = {} /\ refused = {}

----------------------------------------------------------------------------
(* The scheduler and the registry; both change under the service's lock.   *)

Coalesces(p) == p \in DOMAIN registry
HasRoom(p) == p \notin DOMAIN entries /\ Cardinality(DOMAIN entries) < SizeCap

\* register_job of a path that is not registered, while the queue has room.
Schedule(p, payload) ==
  /\ tokens < MaxJobs
  /\ tokens' = tokens + 1
  /\ registry' = [q \in DOMAIN registry \cup {p} |-> IF q = p THEN tokens' ELSE registry[q]]
  /\ entries' = [q \in DOMAIN entries \cup {p} |->
                   IF q = p THEN [token |-> tokens', payload |-> payload] ELSE entries[q]]
  /\ queued' = Append(queued, p)

Untouched == UNCHANGED <<registry, entries, queued, tokens>>

\* complete_job: each table drops the path only while it holds this job's token.
Complete(j) ==
  /\ registry' = Only(registry, {p \in DOMAIN registry :
                                   ~(p = j.path /\ registry[p] = j.token)})
  /\ entries' = Only(entries, {p \in DOMAIN entries :
                                 ~(p = j.path /\ entries[p].token = j.token)})

\* A cancel that leaves the scheduler's record behind.
CancelRegistryOnly(S) ==
  LET mine == S \cap DOMAIN registry IN
  /\ mine # {}
  /\ flagged' = flagged \cup {registry[p] : p \in mine}
  /\ registry' = Only(registry, DOMAIN registry \ mine)
  /\ awaited' = awaited \ S
  /\ UNCHANGED <<entries, queued, tokens, workers, batches, gate, refused>>

\* cancel_many: a pane that leaves gives up the paths it still waits for.
CancelSizes(S) ==
  LET mine == S \cap DOMAIN registry IN
  /\ mine # {}
  /\ flagged' = flagged \cup {registry[p] : p \in mine}
  /\ registry' = Only(registry, DOMAIN registry \ mine)
  /\ entries' = Only(entries, DOMAIN entries \ mine)
  /\ queued' = Keep(queued, Folders \ mine)
  /\ awaited' = awaited \ S
  /\ UNCHANGED <<tokens, workers, batches, gate, refused>>

----------------------------------------------------------------------------
(* Requests.                                                               *)

\* A walk is asked for: a path already being sized keeps its first job, one
\* the full scheduler rejects is answered with an error at once.
RequestWalk(p) ==
  /\ \/ Coalesces(p) /\ awaited' = awaited \cup {p} /\ Untouched
        /\ UNCHANGED refused
     \/ ~Coalesces(p) /\ HasRoom(p) /\ Schedule(p, "walk") /\ awaited' = awaited \cup {p}
        /\ refused' = refused \ {p}
     \/ ~Coalesces(p) /\ ~HasRoom(p) /\ awaited' = awaited \ {p} /\ Untouched
        /\ UNCHANGED refused
  /\ UNCHANGED <<flagged, workers, batches, gate>>

\* spawn_everything_batch for the paths S.
RequestBatch(b, S) ==
  /\ batches[b].at = "none" /\ S # {}
  /\ batches' = [batches EXCEPT ![b] = [NoBatch EXCEPT !.at = "register", !.todo = S]]
  /\ awaited' = awaited \cup S
  /\ UNCHANGED <<registry, entries, queued, flagged, tokens, workers, gate, refused>>

Enrolled(b, p, t) ==
  batches' = [batches EXCEPT ![b].todo = @ \ {p},
                             ![b].jobs = @ \cup {[path |-> p, token |-> t]}]

\* One path of the batch registers: it joins the job there is, gets its own, or
\* is rejected (the error goes out with the others when the loop ends).
Enroll(b) ==
  /\ batches[b].at = "register"
  /\ \E p \in batches[b].todo :
       \/ Coalesces(p) /\ Enrolled(b, p, registry[p]) /\ Untouched /\ UNCHANGED refused
       \/ ~Coalesces(p) /\ HasRoom(p) /\ Schedule(p, "everything") /\ Enrolled(b, p, tokens')
          /\ refused' = refused \ {p}
       \/ ~Coalesces(p) /\ ~HasRoom(p) /\ Untouched /\ UNCHANGED refused
          /\ batches' = [batches EXCEPT ![b].todo = @ \ {p}, ![b].says = @ \cup {p}]
  /\ UNCHANGED <<flagged, workers, gate, awaited>>

\* The rejected paths are reported; a batch with jobs gets its thread.
SpawnBatch(b) ==
  /\ batches[b].at = "register" /\ batches[b].todo = {}
  /\ awaited' = awaited \ batches[b].says
  /\ batches' = [batches EXCEPT
       ![b] = IF @.jobs = {} THEN NoBatch ELSE [@ EXCEPT !.at = "gate", !.says = {}]]
  /\ UNCHANGED <<registry, entries, queued, flagged, tokens, workers, gate, refused>>

----------------------------------------------------------------------------
(* The walking workers.                                                    *)

Goes(w, at) == workers' = [workers EXCEPT ![w].at = at]

\* scheduler.next: a path without a payload to take is skipped.  A worker that
\* takes an Everything entry drops it: the batch owns that job.
Dequeue(w) ==
  /\ workers[w].at = "next" /\ queued # <<>>
  /\ queued' = Tail(queued)
  /\ LET p == Head(queued)
         e == entries[p]
         takes == p \in DOMAIN entries /\ e.payload # "taken" IN
     /\ entries' = IF takes THEN [entries EXCEPT ![p].payload = "taken"] ELSE entries
     /\ workers' = IF takes /\ e.payload = "walk"
                     THEN [workers EXCEPT ![w] = [at |-> "check", says |-> FALSE,
                             job |-> [path |-> p, token |-> e.token]]]
                     ELSE workers
  /\ UNCHANGED <<registry, flagged, tokens, batches, gate, awaited, refused>>

Cancelled(j) == j.token \in flagged

\* A job cancelled while it was queued is completed without any work.
CheckJob(w) ==
  /\ workers[w].at = "check"
  /\ Goes(w, IF Cancelled(workers[w].job) THEN "complete" ELSE "admit")
  /\ UNCHANGED <<registry, entries, queued, flagged, tokens, batches, gate, awaited, refused>>

\* The coordinator answers; the token is read again.  A refused job is
\* completed without a word.
AdmitJob(w) ==
  /\ workers[w].at = "admit"
  /\ \/ Goes(w, IF Cancelled(workers[w].job) THEN "complete" ELSE "walk") /\ UNCHANGED refused
     \/ Goes(w, "complete") /\ refused' = refused \cup {workers[w].job.path}
  /\ UNCHANGED <<registry, entries, queued, flagged, tokens, batches, gate, awaited>>

\* The walk ends: a cancelled one says nothing, any other has an answer (a
\* size, a timeout or an error).
Walk(w) ==
  /\ workers[w].at = "walk"
  /\ workers' = [workers EXCEPT ![w].at = "complete", ![w].says = ~Cancelled(workers[w].job)]
  /\ UNCHANGED <<registry, entries, queued, flagged, tokens, batches, gate, awaited, refused>>

\* The job leaves the tables before its answer goes out.
CompleteWalk(w) ==
  /\ workers[w].at = "complete"
  /\ Complete(workers[w].job)
  /\ workers' = [workers EXCEPT ![w] = IF @.says THEN [@ EXCEPT !.at = "emit"] ELSE IdleWorker]
  /\ UNCHANGED <<queued, flagged, tokens, batches, gate, awaited, refused>>

EmitSize(w) ==
  /\ workers[w].at = "emit"
  /\ awaited' = awaited \ {workers[w].job.path}
  /\ workers' = [workers EXCEPT ![w] = IdleWorker]
  /\ UNCHANGED <<registry, entries, queued, flagged, tokens, batches, gate, refused>>

----------------------------------------------------------------------------
(* The Everything batches: one at a time behind the process-wide gate.     *)

\* Under the gate, a batch whose jobs are all cancelled asks for nothing.
EnterGate(b) ==
  /\ batches[b].at = "gate" /\ gate = "free"
  /\ gate' = b
  /\ batches' = [batches EXCEPT ![b].at =
       IF \A j \in batches[b].jobs : Cancelled(j) THEN "collect" ELSE "query"]
  /\ UNCHANGED <<registry, entries, queued, flagged, tokens, workers, awaited, refused>>

Query(b) ==
  /\ batches[b].at = "query"
  /\ batches' = [batches EXCEPT ![b].at = "collect"]
  /\ UNCHANGED <<registry, entries, queued, flagged, tokens, workers, gate, awaited, refused>>

\* One job of the answer: a cancelled one is only completed.
Collect(b) ==
  /\ batches[b].at = "collect"
  /\ \E j \in batches[b].jobs :
       /\ Complete(j)
       /\ batches' = [batches EXCEPT ![b].jobs = @ \ {j},
                        ![b].says = IF Cancelled(j) THEN @ ELSE @ \cup {j.path}]
  /\ UNCHANGED <<queued, flagged, tokens, workers, gate, awaited, refused>>

EmitBatch(b) ==
  /\ batches[b].at = "collect" /\ batches[b].jobs = {}
  /\ awaited' = awaited \ batches[b].says
  /\ batches' = [batches EXCEPT ![b] = NoBatch]
  /\ gate' = "free"
  /\ UNCHANGED <<registry, entries, queued, flagged, tokens, workers, refused>>

----------------------------------------------------------------------------
SizeNext ==
  \/ \E p \in Folders : RequestWalk(p)
  \/ \E S \in SUBSET Folders : CancelSizes(S)
  \/ \E b \in Batches, S \in SUBSET Folders : RequestBatch(b, S)
  \/ \E b \in Batches : Enroll(b) \/ SpawnBatch(b) \/ EnterGate(b) \/ Query(b) \/ Collect(b) \/ EmitBatch(b)
  \/ \E w \in SizeWorkers :
       Dequeue(w) \/ CheckJob(w) \/ AdmitJob(w) \/ Walk(w) \/ CompleteWalk(w) \/ EmitSize(w)

SizeSpec == SizeInit /\ [][SizeNext]_sizeVars

----------------------------------------------------------------------------
(* Properties.                                                             *)

\* The registry and the scheduler hold the same jobs, a job still to be taken
\* is in the queue, and the slot of any other is given back by the worker or
\* the batch that runs it: neither cancelling, coalescing nor rejecting leaks a
\* slot of the scheduler.
SlotsAreOwned ==
  /\ DOMAIN registry = DOMAIN entries
  /\ \A p \in DOMAIN entries :
       LET j == [path |-> p, token |-> entries[p].token]
           batched == \E b \in Batches : j \in batches[b].jobs IN
       /\ registry[p] = j.token /\ ~Cancelled(j)
       /\ CASE entries[p].payload = "walk" -> p \in Range(queued)
            [] entries[p].payload = "everything" -> p \in Range(queued) /\ batched
            [] OTHER -> batched \/ \E w \in SizeWorkers : workers[w].job = j

\* What will still be said of a path: by a job that is not cancelled, or by an
\* answer on its way.
WillAnswer(p) ==
  \/ \E b \in Batches :
       \/ p \in batches[b].todo \cup batches[b].says
       \/ \E j \in batches[b].jobs : j.path = p /\ ~Cancelled(j)
  \/ \E w \in SizeWorkers :
       workers[w].job.path = p /\ (workers[w].says \/ ~Cancelled(workers[w].job))
  \/ p \in DOMAIN entries /\ entries[p].payload = "walk" /\ p \in Range(queued)

\* Whoever waits for a size is answered: a request that joined a job, raced its
\* end, its cancellation or the full queue still has an answer coming, unless
\* the coordinator refused the walk, which the code drops silently.
AwaitedIsServed == \A p \in awaited \ refused : WillAnswer(p)

\* What holds in every state: a slot has an owner, and whoever waits is served.
SizeInv == SizeTypeOK /\ SlotsAreOwned /\ AwaitedIsServed
=============================================================================
