---------------------------- MODULE IpcExecutor -----------------------------
(***************************************************************************)
(* The bounded owner of short IPC work (ipc/executor.rs): a queue, a fixed *)
(* set of workers that obtain a permit of the resource coordinator before  *)
(* they work, a deadline per caller, and a shutdown that drains the queue. *)
(***************************************************************************)
EXTENDS Naturals, Sequences, FiniteSets

CONSTANTS
  Requests,        \* calls of latency_cancellable_with_deadline
  ExecWorkers,     \* IPC_WORKER_COUNT
  ExecQueueCap     \* IPC_QUEUE_CAPACITY

ASSUME ExecAssumption == ExecQueueCap \in Nat \ {0} /\ IsFiniteSet(Requests)

Idle == "idle"     \* a worker without a job in its hands

\* What a caller is told; "waiting" is none of these.
Refusals == {"full", "shutting down"}
Answers == {"done", "cancelled", "denied", "stopped", "deadline"}

VARIABLES
  execQueue,        \* the bounded channel
  asker,       \* request -> where its caller is
  cancelled,    \* requests whose Cancellation is set
  down,         \* shutting_down
  shutter,      \* the thread that calls shutdown: "no", "drain", "join", "joined"
  exec,         \* worker -> where it is
  job           \* worker -> the request in its hands

execVars == <<execQueue, asker, cancelled, down, shutter, exec, job>>

ExecInit ==
  /\ execQueue = <<>> /\ asker = [r \in Requests |-> "none"] /\ cancelled = {}
  /\ down = FALSE /\ shutter = "no"
  /\ exec = [w \in ExecWorkers |-> "top"] /\ job = [w \in ExecWorkers |-> Idle]

-----------------------------------------------------------------------------
(* Callers.                                                                *)

\* The flag is read and the message sent under the lifecycle lock, which
\* shutdown holds from setting the flag until the queue is drained.
SendRequest(r) ==
  /\ asker[r] = "none" /\ shutter # "drain"
  /\ IF down THEN asker' = [asker EXCEPT ![r] = "shutting down"] /\ UNCHANGED execQueue
     ELSE IF Len(execQueue) >= ExecQueueCap
     THEN asker' = [asker EXCEPT ![r] = "full"] /\ UNCHANGED execQueue
     ELSE asker' = [asker EXCEPT ![r] = "waiting"] /\ execQueue' = Append(execQueue, r)
  /\ UNCHANGED <<cancelled, down, shutter, exec, job>>

\* The timeout fires: the caller leaves, its job is told.
Deadline(r) ==
  /\ asker[r] = "waiting" /\ asker' = [asker EXCEPT ![r] = "deadline"]
  /\ cancelled' = cancelled \cup {r}
  /\ UNCHANGED <<execQueue, down, shutter, exec, job>>

\* The caller's own token.
CancelRequest(r) ==
  /\ asker[r] = "waiting" /\ r \notin cancelled /\ cancelled' = cancelled \cup {r}
  /\ UNCHANGED <<execQueue, asker, down, shutter, exec, job>>

\* An answer reaches the caller if it still waits; dropping a job closes its
\* reply channel, which is an answer too.
Told(r, answer) ==
  asker' = IF asker[r] = "waiting" THEN [asker EXCEPT ![r] = answer] ELSE asker

-----------------------------------------------------------------------------
(* shutdown: flag, drain, join.                                            *)

BeginShutdown ==
  /\ shutter = "no" /\ shutter' = "drain" /\ down' = TRUE
  /\ UNCHANGED <<execQueue, asker, cancelled, exec, job>>

Drain ==
  /\ shutter = "drain"
  /\ IF execQueue = <<>> THEN shutter' = "join" /\ UNCHANGED <<execQueue, asker>>
     ELSE Told(Head(execQueue), "stopped") /\ execQueue' = Tail(execQueue) /\ UNCHANGED shutter
  /\ UNCHANGED <<cancelled, down, exec, job>>

Join ==
  /\ shutter = "join" /\ \A w \in ExecWorkers : exec[w] = "exited"
  /\ shutter' = "joined"
  /\ UNCHANGED <<execQueue, asker, cancelled, down, exec, job>>

-----------------------------------------------------------------------------
(* A worker.                                                               *)

ExecGoes(w, from, to) == exec[w] = from /\ exec' = [exec EXCEPT ![w] = to]

Top(w) ==
  /\ ExecGoes(w, "top", IF down THEN "exited" ELSE "receive")
  /\ UNCHANGED <<execQueue, asker, cancelled, down, shutter, job>>

\* recv_timeout: a message, or the 25 ms pass and the flag is looked at again.
TakeRequest(w) ==
  \/ /\ ExecGoes(w, "receive", "received") /\ execQueue # <<>>
     /\ job' = [job EXCEPT ![w] = Head(execQueue)] /\ execQueue' = Tail(execQueue)
     /\ UNCHANGED <<asker, cancelled, down, shutter>>
  \/ /\ ExecGoes(w, "receive", "top") /\ execQueue = <<>> /\ down
     /\ UNCHANGED <<execQueue, asker, cancelled, down, shutter, job>>

\* Mutant: a worker that finds the flag set leaves with the message unanswered.
ReceivedLeaves(w) ==
  /\ ExecGoes(w, "received", IF down THEN "exited" ELSE "admission")
  /\ UNCHANGED <<execQueue, cancelled, down, shutter, asker, job>>

\* The flag is looked at once more; then the job checks its token.
Received(w) ==
  LET r == job[w] IN
  /\ IF down
     THEN ExecGoes(w, "received", "exited") /\ Told(r, "stopped")
     ELSE IF r \in cancelled
     THEN ExecGoes(w, "received", "top") /\ Told(r, "cancelled")
     ELSE ExecGoes(w, "received", "admission") /\ UNCHANGED asker
  /\ job' = IF down \/ r \in cancelled THEN [job EXCEPT ![w] = Idle] ELSE job
  /\ UNCHANGED <<execQueue, cancelled, down, shutter>>

\* The coordinator answers; the token is looked at again under the permit.
Admission(w) ==
  LET r == job[w] IN
  \/ /\ ExecGoes(w, "admission", "top") /\ Told(r, "denied")
     /\ job' = [job EXCEPT ![w] = Idle]
     /\ UNCHANGED <<execQueue, cancelled, down, shutter>>
  \/ /\ r \in cancelled /\ ExecGoes(w, "admission", "top") /\ Told(r, "cancelled")
     /\ job' = [job EXCEPT ![w] = Idle]
     /\ UNCHANGED <<execQueue, cancelled, down, shutter>>
  \/ /\ r \notin cancelled /\ ExecGoes(w, "admission", "working")
     /\ UNCHANGED <<execQueue, asker, cancelled, down, shutter, job>>

WorkRequest(w) ==
  /\ ExecGoes(w, "working", "top") /\ Told(job[w], "done")
  /\ job' = [job EXCEPT ![w] = Idle]
  /\ UNCHANGED <<execQueue, cancelled, down, shutter>>

-----------------------------------------------------------------------------
WorkerStep(w) == Top(w) \/ TakeRequest(w) \/ Received(w) \/ Admission(w) \/ WorkRequest(w)

ExecNext ==
  \/ \E r \in Requests : SendRequest(r) \/ Deadline(r) \/ CancelRequest(r)
  \/ BeginShutdown \/ Drain \/ Join
  \/ \E w \in ExecWorkers : WorkerStep(w)

\* The workers run and the coordinator answers; nothing obliges the user to
\* call, and the deadline is not counted on.
ExecFairness ==
  /\ \A w \in ExecWorkers : WF_execVars(WorkerStep(w))
  /\ WF_execVars(Drain) /\ WF_execVars(Join)

ExecSpec == ExecInit /\ [][ExecNext]_execVars
ExecFairSpec == ExecSpec /\ ExecFairness

-----------------------------------------------------------------------------
(* Properties.                                                             *)

ExecTypeOK ==
  /\ execQueue \in Seq(Requests) /\ Len(execQueue) <= ExecQueueCap
  /\ asker \in [Requests -> {"none", "waiting"} \cup Refusals \cup Answers]
  /\ cancelled \subseteq Requests /\ down \in BOOLEAN
  /\ shutter \in {"no", "drain", "join", "joined"}
  /\ exec \in [ExecWorkers -> {"top", "receive", "received", "admission",
                               "working", "exited"}]
  /\ job \in [ExecWorkers -> Requests \cup {Idle}]

\* A caller that waits is waited for: its request is in the queue or in the
\* hands of exactly one worker that has not left, whatever shutdown drained
\* and whichever message a worker had taken before it.
RequestHeld ==
  \A r \in Requests : asker[r] = "waiting" =>
    \/ /\ \E i \in DOMAIN execQueue : execQueue[i] = r
       /\ shutter \in {"no", "drain"}
    \/ \E w \in ExecWorkers : job[w] = r /\ exec[w] # "exited"

\* Every request is answered by the executor itself; the deadline is a second
\* line of defence.
RequestAnswered == \A r \in Requests : (asker[r] = "waiting") ~> (asker[r] # "waiting")

\* What holds in every state: above all that a waiting caller's request is held.
ExecInv == ExecTypeOK /\ RequestHeld
=============================================================================
