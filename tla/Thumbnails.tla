----------------------------- MODULE Thumbnails -----------------------------
(***************************************************************************)
(* Thumbnails (thumbnails/).  The main thread answers a scope's wish list  *)
(* from the cache and leaves the misses to the scheduler, where scopes     *)
(* that want one file share a job; two workers generate through the native *)
(* provider; results go through the cache into batches that a timer        *)
(* flushes.  Every lock region is a step.  The order in which              *)
(* take_next_job prefers the jobs is left open.                            *)
(***************************************************************************)
EXTENDS Naturals, Sequences, FiniteSets, SequencesExt, Filter

CONSTANTS
  ThumbScopes,     \* pane, tab, path and generation
  Files,           \* fingerprints
  ThumbWorkers,    \* MAX_ACTIVE_JOBS threads
  BatchMax,        \* MAX_RESULTS_PER_BATCH
  ThumbCacheCap,   \* MAX_CACHE_RECORDS
  MaxThumbRev,     \* bound: revisions of a scope
  MaxCalls         \* bound: calls of the main thread

ASSUME ThumbAssumption ==
  /\ IsFiniteSet(ThumbScopes) /\ IsFiniteSet(Files)
  /\ BatchMax \in Nat \ {0} /\ ThumbCacheCap \in Nat
  /\ MaxThumbRev \in Nat /\ MaxCalls \in Nat

Records == INSTANCE BoundedCache WITH MaxEntries <- ThumbCacheCap,
                                      MaxWeight <- ThumbCacheCap

\* What the provider ends with; "low" is a preview on the way there, and
\* "lowTried" a preview whose upgrade was tried and must not be retried yet.
Finals == {"high", "unavailable", "failed"}
NoThumb == [live |-> FALSE, active |-> FALSE, subs |-> {}]
NoCall == [does |-> "idle"]

VARIABLES
  jobs,       \* file -> its job
  thumbQueue,     \* the files waiting for a worker
  scopeRev,   \* scope -> newest revision, 0 if there is none
  stopped,
  thumb,      \* worker -> where it is, its file, what it publishes, to whom
  cut,        \* files whose native request was told to cancel
  shown,      \* the cache
  batch,      \* events not flushed yet
  signalled,  \* the flag of batch_wake
  timer,      \* the batch timer: waiting, or asleep for the flush interval
  flushed,    \* has a full batch gone out since the timer fell asleep?
  call,       \* the main thread's call
  calls,      \* number of calls so far
  owed        \* history: wishes accepted and not yet answered

poolVars == <<jobs, thumbQueue, scopeRev, stopped>>
batchVars == <<batch, signalled, timer, flushed>>
callVars == <<call, calls>>
thumbVars == <<poolVars, thumb, cut, shown, batchVars, callVars, owed>>

Rest == [at |-> "idle", file |-> "none", result |-> "none", subs |-> {}]

ThumbInit ==
  /\ jobs = [f \in Files |-> NoThumb] /\ thumbQueue = <<>>
  /\ scopeRev = [s \in ThumbScopes |-> 0] /\ stopped = FALSE
  /\ thumb = [w \in ThumbWorkers |-> Rest] /\ cut = {}
  /\ shown = Records!Empty
  /\ batch = <<>> /\ signalled = FALSE /\ timer = "wait" /\ flushed = FALSE
  /\ call = NoCall /\ calls = 0 /\ owed = {}

Wishes(s, files) == {s} \X files

-----------------------------------------------------------------------------
(* The cache (cache.rs).                                                   *)

StateOf(f) == IF Records!Has(shown, f) THEN Records!Value(shown, f) ELSE "none"

\* A better picture is never replaced by a worse one, nor a preview by the same
\* one again: looking at what is there only counts as an access.  A preview that
\* could not be upgraded keeps its picture and remembers when to try again.
Previewed(f) == StateOf(f) \in {"low", "lowTried"}
Preserved(f, result, same) ==
  StateOf(f) = "high" \/ (Previewed(f) /\ result = "low" /\ same)
Stored(f, result, same) ==
  IF Preserved(f, result, same) THEN Records!Touch(shown, f)
  ELSE Records!Insert(shown, f,
         IF Previewed(f) /\ result \in {"unavailable", "failed"} THEN "lowTried" ELSE result, 1)
Changes(f, result, same) ==
  ~ \/ Preserved(f, result, same)
    \/ Previewed(f) /\ result \in {"unavailable", "failed"}

\* Time passes: a negative record expires, a preview may be retried.
Expire(f) ==
  /\ StateOf(f) \in {"unavailable", "failed", "lowTried"}
  /\ shown' = IF StateOf(f) = "lowTried"
              THEN [shown EXCEPT !.items = [i \in DOMAIN @ |->
                     IF @[i].key = f THEN [@[i] EXCEPT !.value = "low"] ELSE @[i]]]
              ELSE Records!RemoveKey(shown, f)
  /\ UNCHANGED <<poolVars, thumb, cut, batchVars, callVars, owed>>

-----------------------------------------------------------------------------
(* Batches (mod.rs).  Full batches leave at once, what is left waits for   *)
(* the timer.                                                              *)

Enqueued(events) ==
  LET all == batch \o events
      out == Len(all) - (Len(all) % BatchMax)
  IN /\ batch' = SubSeq(all, out + 1, Len(all))
     /\ flushed' = IF out > 0 THEN timer = "sleep" ELSE flushed

\* The events are counted again after the full batches went out.
Signal == signalled' = (signalled \/ batch # <<>>)

TimerWakes ==
  /\ timer = "wait" /\ signalled
  /\ signalled' = FALSE /\ timer' = "sleep" /\ flushed' = FALSE
  /\ UNCHANGED <<poolVars, thumb, cut, shown, batch, callVars, owed>>
\* A batch that went out since then puts the interval off.
TimerFlushes ==
  /\ timer = "sleep" /\ timer' = "wait"
  /\ batch' = IF flushed THEN batch ELSE <<>>
  /\ UNCHANGED <<poolVars, thumb, cut, shown, signalled, flushed, callVars, owed>>

-----------------------------------------------------------------------------
(* The main thread: request_thumbnails and cancel_thumbnails.              *)

Request(s) ==
  /\ call.does = "idle" /\ calls < MaxCalls /\ calls' = calls + 1
  /\ \E rev \in 1..MaxThumbRev, wanted \in SUBSET Files :
       call' = [does |-> "look", scope |-> s, rev |-> rev, wanted |-> wanted,
                todo |-> wanted, pending |-> {}, cuts |-> {}]
  /\ UNCHANGED <<poolVars, thumb, cut, shown, batchVars, owed>>

\* One file: from the cache, or left to the scheduler, or both when a preview
\* deserves another try.
LookUp ==
  /\ call.does = "look" /\ call.todo # {}
  /\ \E f \in call.todo :
       LET hit  == StateOf(f) # "none"
           miss == StateOf(f) \in {"none", "low"}
           left == IF miss THEN {f} ELSE {}
       IN /\ shown' = Records!Touch(shown, f)
          /\ call' = [call EXCEPT !.todo = @ \ {f}, !.pending = @ \cup left,
                                  !.does = IF hit THEN "answer" ELSE "look"]
          /\ IF hit THEN Enqueued(<<[to |-> call.scope, file |-> f]>>)
             ELSE UNCHANGED <<batch, flushed>>
          /\ owed' = IF hit THEN owed \ Wishes(call.scope, {f}) ELSE owed
  /\ UNCHANGED <<poolVars, thumb, cut, signalled, timer, calls>>
LookedUp ==
  /\ call.does = "answer" /\ Signal /\ call' = [call EXCEPT !.does = "look"]
  /\ UNCHANGED <<poolVars, thumb, cut, shown, batch, timer, flushed, calls, owed>>

\* The jobs once a scope wants only these files: jobs nobody wants any more
\* leave the queue; the active ones are to be cancelled.
Wanting(s, files) == [f \in Files |->
  [jobs[f] EXCEPT !.subs = IF f \in files THEN @ ELSE @ \ {s}]]
Dead(after) == {f \in Files : after[f].live /\ after[f].subs = {} /\ ~after[f].active}
Orphans(after) == {f \in Files : after[f].live /\ after[f].subs = {} /\ after[f].active}
Buried(after) == [f \in Files |-> IF f \in Dead(after) THEN NoThumb ELSE after[f]]

\* Mutant: a job that nobody wants keeps its place in the queue.
ReplaceKeepsQueue ==
  LET s == call.scope
      after == Wanting(s, call.pending)
      left == Buried(after)
      joined == [f \in Files |-> IF f \in call.pending
                   THEN [left[f] EXCEPT !.live = TRUE, !.subs = @ \cup {s}] ELSE left[f]]
      new == SetToSeq({f \in call.pending : ~left[f].live})
  IN /\ call.does = "look" /\ call.todo = {} /\ ~stopped /\ call.rev > scopeRev[s]
     /\ jobs' = joined /\ thumbQueue' = thumbQueue \o new
     /\ scopeRev' = [scopeRev EXCEPT ![s] = call.rev]
     /\ call' = [call EXCEPT !.does = "cut", !.cuts = Orphans(after)]
     /\ owed' = (owed \ Wishes(s, Files)) \cup Wishes(s, call.pending)
     /\ UNCHANGED <<stopped, thumb, cut, shown, batchVars, calls>>

\* replace_scope of the scheduler: superseded revisions change nothing.
Replace ==
  LET s == call.scope
      after == Wanting(s, call.pending)
      left == Buried(after)
      joined == [f \in Files |-> IF f \in call.pending
                   THEN [left[f] EXCEPT !.live = TRUE, !.subs = @ \cup {s}] ELSE left[f]]
      new == SetToSeq({f \in call.pending : ~left[f].live})
  IN /\ call.does = "look" /\ call.todo = {}
     /\ IF stopped \/ call.rev <= scopeRev[s]
        THEN call' = NoCall /\ UNCHANGED <<poolVars, owed>>
        ELSE /\ jobs' = joined
             /\ thumbQueue' = Keep(thumbQueue, Files \ Dead(after)) \o new
             /\ scopeRev' = [scopeRev EXCEPT ![s] = call.rev]
             /\ call' = [call EXCEPT !.does = "cut", !.cuts = Orphans(after)]
             /\ owed' = (owed \ Wishes(s, Files)) \cup Wishes(s, call.pending)
             /\ UNCHANGED stopped
     /\ UNCHANGED <<thumb, cut, shown, batchVars, calls>>

CancelScope(s) ==
  LET after == Wanting(s, {}) IN
  /\ call.does = "idle" /\ calls < MaxCalls /\ calls' = calls + 1
  /\ jobs' = Buried(after)
  /\ thumbQueue' = Keep(thumbQueue, Files \ Dead(after))
  /\ scopeRev' = [scopeRev EXCEPT ![s] = 0]
  /\ call' = [does |-> "cut", cuts |-> Orphans(after)]
  /\ owed' = owed \ Wishes(s, Files)
  /\ UNCHANGED <<stopped, thumb, cut, shown, batchVars>>

Shutdown ==
  /\ call.does = "idle" /\ ~stopped /\ stopped' = TRUE /\ thumbQueue' = <<>>
  /\ jobs' = [f \in Files |-> NoThumb] /\ scopeRev' = [s \in ThumbScopes |-> 0]
  /\ call' = [does |-> "cut", cuts |-> {f \in Files : jobs[f].live}]
  /\ owed' = {}
  /\ UNCHANGED <<thumb, cut, shown, batchVars, calls>>

\* After the lock, the provider is told; a request it does not know, or a
\* command its full channel refuses, is ignored.
CutOne ==
  /\ call.does = "cut" /\ call.cuts # {}
  /\ \E f \in call.cuts :
       /\ call' = [call EXCEPT !.cuts = @ \ {f}]
       /\ cut' \in {cut, cut \cup {g \in {f} :
                      \E w \in ThumbWorkers : thumb[w].at = "generate" /\ thumb[w].file = g}}
  /\ UNCHANGED <<poolVars, thumb, shown, batchVars, calls, owed>>
CutDone ==
  /\ call.does = "cut" /\ call.cuts = {} /\ call' = NoCall
  /\ UNCHANGED <<poolVars, thumb, cut, shown, batchVars, calls, owed>>

-----------------------------------------------------------------------------
(* A worker.                                                               *)

Step(w, from, to) == thumb[w].at = from /\ thumb' = [thumb EXCEPT ![w] = to]

\* With the job come the check of the file's metadata and the coordinator's
\* permit: no match, no event; no permit, a failure.  A cancellation meanwhile
\* finds no native request; the choice in CutOne covers it.
TakeJob(w) ==
  \E i \in DOMAIN thumbQueue : LET f == thumbQueue[i] IN
    /\ ~stopped
    /\ \E next \in {[at |-> "generate", result |-> "none"], [at |-> "finish", result |-> "none"],
                    [at |-> "finish", result |-> "failed"]} :
         Step(w, "idle", [at |-> next.at, file |-> f, result |-> next.result, subs |-> {}])
    /\ thumbQueue' = Keep(thumbQueue, Files \ {f}) /\ jobs' = [jobs EXCEPT ![f].active = TRUE]
    /\ UNCHANGED <<scopeRev, stopped, cut, shown, batchVars, callVars, owed>>

\* A preview goes to whoever subscribes at that moment, without a batch.
Preview(w) ==
  /\ thumb[w].at = "generate" /\ thumb[w].file \notin cut
  /\ jobs[thumb[w].file].subs # {}
  /\ Step(w, "generate", [thumb[w] EXCEPT !.at = "preview",
                                          !.subs = jobs[thumb[w].file].subs])
  /\ UNCHANGED <<poolVars, cut, shown, batchVars, callVars, owed>>
EmitPreview(w) ==
  LET f == thumb[w].file IN
  /\ Step(w, "preview", [thumb[w] EXCEPT !.at = "generate", !.subs = {}])
  /\ \E same \in BOOLEAN :
       /\ shown' = Stored(f, "low", same)
       /\ owed' = IF Changes(f, "low", same) THEN owed \ (thumb[w].subs \X {f}) ELSE owed
  /\ UNCHANGED <<poolVars, cut, batchVars, callVars>>

\* The provider ends by itself, or by its deadline, or because it was cut: then
\* Quick Look reports Unavailable.
Outcomes(f) == IF f \in cut THEN {"unavailable", "failed"} ELSE Finals
Generated(w) ==
  LET f == thumb[w].file IN
  /\ thumb[w].at = "generate"
  /\ \E r \in Outcomes(f) :
       Step(w, "generate", [thumb[w] EXCEPT !.at = "finish", !.result = r])
  /\ UNCHANGED <<poolVars, cut, shown, batchVars, callVars, owed>>

Finish(w) ==
  LET f == thumb[w].file
      told == thumb[w].result # "none" /\ jobs[f].subs # {}
  IN /\ thumb[w].at = "finish"
     /\ Step(w, "finish", IF told THEN [thumb[w] EXCEPT !.at = "publish",
                                                        !.subs = jobs[f].subs] ELSE Rest)
     /\ jobs' = [jobs EXCEPT ![f] = NoThumb] /\ cut' = cut \ {f}
     /\ owed' = IF told THEN owed ELSE owed \ (jobs[f].subs \X {f})
     /\ UNCHANGED <<thumbQueue, scopeRev, stopped, shown, batchVars, callVars>>

\* The cache decides whether there is anything to tell: when it keeps what it
\* had, the wish ends without an event.  A final picture is never a preview.
Publish(w) ==
  LET f == thumb[w].file
      changes == Changes(f, thumb[w].result, FALSE)
  IN /\ Step(w, "publish", IF changes THEN [thumb[w] EXCEPT !.at = "enqueue"] ELSE Rest)
     /\ shown' = Stored(f, thumb[w].result, FALSE)
     /\ owed' = IF changes THEN owed ELSE owed \ (thumb[w].subs \X {f})
     /\ UNCHANGED <<poolVars, cut, batchVars, callVars>>

EnqueueResult(w) ==
  LET f == thumb[w].file
      events == [i \in 1..Cardinality(thumb[w].subs) |->
                   [to |-> SetToSeq(thumb[w].subs)[i], file |-> f]]
  IN /\ Step(w, "enqueue", [Rest EXCEPT !.at = "signal"]) /\ Enqueued(events)
     /\ owed' = owed \ (thumb[w].subs \X {f})
     /\ UNCHANGED <<poolVars, cut, shown, signalled, timer, callVars>>
SignalTimer(w) ==
  /\ Step(w, "signal", Rest) /\ Signal
  /\ UNCHANGED <<poolVars, cut, shown, batch, timer, flushed, callVars, owed>>

-----------------------------------------------------------------------------
ThumbNext ==
  \/ \E s \in ThumbScopes : Request(s) \/ CancelScope(s)
  \/ LookUp \/ LookedUp \/ Replace \/ Shutdown \/ CutOne \/ CutDone
  \/ \E f \in Files : Expire(f)
  \/ TimerWakes \/ TimerFlushes
  \/ \E w \in ThumbWorkers :
       \/ TakeJob(w) \/ Preview(w) \/ EmitPreview(w) \/ Generated(w) \/ Finish(w)
       \/ Publish(w) \/ EnqueueResult(w) \/ SignalTimer(w)

ThumbSpec == ThumbInit /\ [][ThumbNext]_thumbVars

-----------------------------------------------------------------------------
(* Properties.                                                             *)

ThumbTypeOK ==
  /\ thumbQueue \in Seq(Files) /\ cut \subseteq Files
  /\ \A f \in Files : jobs[f] \in [live : BOOLEAN, active : BOOLEAN, subs : SUBSET ThumbScopes]
  /\ scopeRev \in [ThumbScopes -> 0..MaxThumbRev] /\ stopped \in BOOLEAN
  /\ Records!WithinLimits(shown) /\ Len(batch) < BatchMax
  /\ timer \in {"wait", "sleep"} /\ signalled \in BOOLEAN
  /\ owed \subseteq ThumbScopes \X Files

\* A job waits in the queue exactly once until a worker has it, and then exactly
\* one worker has it: a cancelled scope leaves neither a job that nobody will
\* take nor a queue entry without a job.
JobsAreQueued ==
  /\ IsInjective(thumbQueue)
  /\ Range(thumbQueue) = {f \in Files : jobs[f].live /\ ~jobs[f].active}
  /\ \A f \in Files : jobs[f].live /\ jobs[f].active =>
       Cardinality({w \in ThumbWorkers :
         thumb[w].file = f /\ thumb[w].at \in {"generate", "preview", "finish"}}) = 1

\* Every wish the scheduler accepted and has not answered is attached to a job
\* or in a worker's hands.
NoWishForgotten ==
  \A wish \in owed :
    \/ jobs[wish[2]].live /\ wish[1] \in jobs[wish[2]].subs
    \/ \E w \in ThumbWorkers : thumb[w].file = wish[2] /\ wish[1] \in thumb[w].subs
                               /\ thumb[w].at \in {"publish", "enqueue"}

\* Results that are left for the timer do not stay: the timer has been told,
\* is about to be told, or is asleep and will flush them.
NoStrandedBatch ==
  batch # <<>> =>
    \/ signalled \/ (timer = "sleep" /\ ~flushed)
    \/ call.does = "answer" \/ \E w \in ThumbWorkers : thumb[w].at = "signal"

\* Subscribers are independently cancellable: a job that somebody wants is not
\* ended as Unavailable because someone else, or an earlier wish, was cancelled.
CancelledIndependently ==
  \A w \in ThumbWorkers : LET f == thumb[w].file IN
    thumb[w].at = "finish" /\ thumb[w].result = "unavailable" /\ f \in cut
      => jobs[f].subs = {}

\* What holds in every state: the queue and the workers hold exactly the jobs there
\* are, no accepted wish is forgotten, and no batch is left to a timer that waits.
ThumbInv == ThumbTypeOK /\ JobsAreQueued /\ NoWishForgotten /\ NoStrandedBatch
=============================================================================
