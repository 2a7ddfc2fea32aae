---------------------------- MODULE Metadata_proofs ----------------------------
(***************************************************************************)
(* Folder sizes: for any folders, workers, batches and cancellations, a    *)
(* slot of the scheduler has an owner, and whoever waits is answered.      *)
(* Item counts: for any limits, folders and viewports, the slots are those *)
(* of the drainers, a queued plan has one to come for it, and no folder is *)
(* read twice at a time unless its mark in the cache was lost.             *)
(* Thumbnails: for any scopes, files, workers and limits, every job waits  *)
(* or has a worker of its own, and no accepted wish is forgotten.          *)
(***************************************************************************)
EXTENDS SizeService, ItemCounts, Thumbnails, FiniteSetTheorems, SequenceTheorems, TLAPS

-----------------------------------------------------------------------------
(* What is kept of a sequence, and the cache of the counts.                *)

\* What is proved of the cache, at the limits of the counts.
Facts == INSTANCE BoundedCache_proofs WITH MaxEntries <- CountCacheCap,
                                           MaxWeight <- CountCacheCap

\* The counts' cache is the one the facts are about.
LEMMA SameSize ==
  /\ \A S : Cardinality(S) = Facts!Cardinality(S)
  /\ \A S : Cache!Cardinality(S) = Facts!Cardinality(S)
  BY DEF Cardinality, Facts!Cardinality, Cache!Cardinality

LEMMA SameKeep ==
  \A s, S : Keep(s, S) = Facts!Keep(s, S) /\ Cache!Keep(s, S) = Facts!Keep(s, S)
<1> TAKE s, S
<1> DEFINE kept     == {i \in DOMAIN s : s[i] \in S}
           here(k)  == CHOOSE i \in kept : Cardinality({j \in kept : j <= i}) = k
           cache(k) == CHOOSE i \in kept : Cache!Cardinality({j \in kept : j <= i}) = k
           facts(k) == CHOOSE i \in kept : Facts!Cardinality({j \in kept : j <= i}) = k
<1>1. ASSUME NEW k PROVE here(k) = facts(k) /\ cache(k) = facts(k)
  <2> HIDE DEF kept
  <2> QED
    BY SameSize, Zenon
<1>2. Keep(s, S) = [k \in 1..Cardinality(kept) |-> s[here(k)]]
  BY DEF Keep
<1>3. Cache!Keep(s, S) = [k \in 1..Cache!Cardinality(kept) |-> s[cache(k)]]
  BY DEF Cache!Keep
<1>4. Facts!Keep(s, S) = [k \in 1..Facts!Cardinality(kept) |-> s[facts(k)]]
  BY DEF Facts!Keep
<1>5. Cardinality(kept) = Facts!Cardinality(kept)
      /\ Cache!Cardinality(kept) = Facts!Cardinality(kept)
  BY SameSize
<1> HIDE DEF kept, here, cache, facts
<1> QED
  BY <1>1, <1>2, <1>3, <1>4, <1>5

LEMMA SameCache ==
  /\ Cache!Empty = Facts!Empty
  /\ \A c, keys : Cache!Retain(c, keys) = Facts!Retain(c, keys)
  /\ \A c, k : Cache!Touch(c, k) = Facts!Touch(c, k)
  /\ \A c, k, v, w : Cache!Insert(c, k, v, w) = Facts!Insert(c, k, v, w)
  /\ \A c : Cache!WithinLimits(c) <=> Facts!WithinLimits(c)
<1>1. \A s, S : Cache!Keep(s, S) = Facts!Keep(s, S)
  BY SameKeep
<1>2. \A s : Cache!Weights(s) = Facts!Weights(s)
  BY SameSize DEF Cache!Weights, Cache!Units, Facts!Weights, Facts!Units
<1>3. \A c, keys : Cache!Retain(c, keys) = Facts!Retain(c, keys)
  BY <1>1, <1>2 DEF Cache!Retain, Cache!Saturating, Facts!Retain, Facts!Saturating, Cache!Range, Facts!Range
<1>4. \A c, k : Cache!RemoveKey(c, k) = Facts!RemoveKey(c, k)
  BY <1>3 DEF Cache!RemoveKey, Cache!Keys, Facts!RemoveKey, Facts!Keys
<1>5. \A c, k : Cache!Record(c, k) = Facts!Record(c, k)
  BY DEF Cache!Record, Facts!Record
<1>6. \A c, k : Cache!Touch(c, k) = Facts!Touch(c, k)
  BY <1>4, <1>5 DEF Cache!Touch, Cache!Has, Cache!Keys, Facts!Touch, Facts!Has, Facts!Keys
<1>7. \A c, n : Cache!Dropped(c, n) = Facts!Dropped(c, n)
  BY <1>2 DEF Cache!Dropped, Cache!Saturating, Facts!Dropped, Facts!Saturating
<1>8. \A c : Cache!Evict(c) = Facts!Evict(c)
  <2> TAKE c
  <2>1. Cache!Evict(c) = Facts!Evict(c)
    BY <1>7 DEF Cache!Evict, Facts!Evict
  <2> QED
    BY <2>1
<1>9. \A c, k, v, w : Cache!Insert(c, k, v, w) = Facts!Insert(c, k, v, w)
  BY <1>4, <1>8 DEF Cache!Insert, Facts!Insert
<1>10. Cache!Empty = Facts!Empty
  BY DEF Cache!Empty, Facts!Empty
<1>11. \A c : Cache!WithinLimits(c) <=> Facts!WithinLimits(c)
  BY <1>2 DEF Cache!WithinLimits, Facts!WithinLimits
<1> QED
  BY <1>3, <1>6, <1>9, <1>10, <1>11

\* What is kept, in its order.
LEMMA KeepFacts ==
  ASSUME NEW T, NEW s \in Seq(T), NEW S
  PROVE  /\ Keep(s, S) \in Seq(T) /\ Range(Keep(s, S)) = Range(s) \cap S
         /\ Len(Keep(s, S)) \in Nat /\ Len(Keep(s, S)) <= Len(s)
         /\ \E f \in [DOMAIN Keep(s, S) -> DOMAIN s] :
              \A i, j \in DOMAIN Keep(s, S) :
                Keep(s, S)[i] = s[f[i]] /\ (f[i] = f[j] => i = j)
<1>1. Keep(s, S) = Facts!Keep(s, S)
  BY SameKeep
<1>2. /\ Facts!Keep(s, S) \in Seq(T)
      /\ Facts!Range(Facts!Keep(s, S)) = Facts!Range(s) \cap S
  BY Facts!KeepElements
<1>3. /\ Len(Facts!Keep(s, S)) \in Nat /\ Len(Facts!Keep(s, S)) <= Len(s)
      /\ \E f \in [DOMAIN Facts!Keep(s, S) -> DOMAIN s] :
           \A i, j \in DOMAIN Facts!Keep(s, S) :
             Facts!Keep(s, S)[i] = s[f[i]] /\ (f[i] = f[j] => i = j)
  BY Facts!KeepPositions
<1>4. \A f : Facts!Range(f) = Range(f)
  BY DEF Facts!Range, Range
<1> QED
  BY <1>1, <1>2, <1>3, <1>4

-----------------------------------------------------------------------------
(* Folder sizes: the invariant.                                            *)

Jobs == [path : Folders, token : Tokens]
Entry == [token : Tokens, payload : {"walk", "everything", "taken"}]

WorkerStates ==
  [at : {"next", "check", "admit", "walk", "complete", "emit"}, job : Jobs \cup {NoJob},
   says : BOOLEAN]
BatchStates ==
  [at : {"none", "register", "gate", "query", "collect", "emit"}, todo : SUBSET Folders,
   jobs : SUBSET Jobs, says : SUBSET Folders]

\* The two tables, as functions on one domain.
TablesTyped ==
  /\ DOMAIN entries = DOMAIN registry /\ DOMAIN registry \subseteq Folders
  /\ registry \in [DOMAIN registry -> Tokens] /\ entries \in [DOMAIN registry -> Entry]
  /\ IsFiniteSet(DOMAIN registry) /\ Cardinality(DOMAIN registry) <= SizeCap
  /\ queued \in Seq(Folders)
SizeTypes ==
  /\ flagged \subseteq 1..tokens /\ tokens \in 0..MaxJobs
  /\ workers \in [SizeWorkers -> WorkerStates]
  /\ batches \in [Batches -> BatchStates]
  /\ gate \in Batches \cup {"free"} /\ awaited \subseteq Folders /\ refused \subseteq Folders

\* A token is one job's, and read as cancelled only once its job has left.
TablesAgree ==
  \A p \in DOMAIN registry :
    /\ entries[p].token = registry[p] /\ registry[p] <= tokens /\ registry[p] \notin flagged
    /\ \A q \in DOMAIN registry : registry[p] = registry[q] => p = q

\* Does the table still hold this job?
Here(j)  == j.path \in DOMAIN registry /\ registry[j.path] = j.token
Issued(j) ==
  j.token <= tokens /\ \A p \in DOMAIN registry : registry[p] = j.token => p = j.path

\* A worker's job is taken, and has left the table before its answer goes out; one
\* that will end without a word was cancelled or refused.
WorkerOK(w) ==
  LET j == workers[w].job IN
  /\ IF workers[w].at = "next" THEN workers[w] = IdleWorker ELSE j \in Jobs /\ Issued(j)
  /\ workers[w].says => workers[w].at \in {"complete", "emit"}
  /\ workers[w].at = "emit" => ~Here(j)
  /\ Here(j) => entries[j.path].payload = "taken"
  /\ workers[w].at = "complete" /\ ~workers[w].says /\ Here(j) => j.path \in refused
BatchOK(b) ==
  /\ batches[b].at = "none" => batches[b] = NoBatch
  /\ batches[b].at # "register" => batches[b].todo = {}
  /\ \A j \in batches[b].jobs : Issued(j)

\* Who runs a job, and will give its slot back.
Batched(j) == \E b \in Batches : j \in batches[b].jobs
Walked(j)  == \E w \in SizeWorkers : workers[w].job = j
Owned(p) ==
  LET j == [path |-> p, token |-> registry[p]] IN
  /\ entries[p].payload \in {"walk", "everything"} => p \in Range(queued)
  /\ entries[p].payload = "everything" => Batched(j)
  /\ entries[p].payload = "taken" => Batched(j) \/ Walked(j)

\* As WillAnswer, but a worker that is about to end without a word answers nobody.
Speaks(b, p) ==
  \/ p \in batches[b].todo \cup batches[b].says
  \/ \E j \in batches[b].jobs : j.path = p /\ ~Cancelled(j)
Answers(w, p) ==
  /\ workers[w].job.path = p
  /\ workers[w].says \/ (workers[w].at # "complete" /\ ~Cancelled(workers[w].job))
Served(p) ==
  \/ \E b \in Batches : Speaks(b, p)
  \/ \E w \in SizeWorkers : Answers(w, p)
  \/ p \in DOMAIN registry /\ entries[p].payload = "walk"

SizeIInv ==
  /\ TablesTyped /\ SizeTypes /\ TablesAgree
  /\ (\A w \in SizeWorkers : WorkerOK(w)) /\ (\A b \in Batches : BatchOK(b))
  /\ \A p \in DOMAIN registry : Owned(p)
  /\ \A p \in awaited \ refused : Served(p)

-----------------------------------------------------------------------------
(* Folder sizes: the tables.                                               *)

\* Tables cut down to fewer paths stay tables.
LEMMA Shrink ==
  ASSUME TablesTyped, NEW D \in SUBSET DOMAIN registry,
         registry' = Only(registry, D), entries' = Only(entries, D), queued' \in Seq(Folders)
  PROVE  /\ TablesTyped' /\ DOMAIN registry' = D
         /\ \A p \in D : registry'[p] = registry[p] /\ entries'[p] = entries[p]
<1>1. IsFiniteSet(D) /\ Cardinality(D) <= Cardinality(DOMAIN registry)
  BY FS_Subset DEF TablesTyped
<1>2. Cardinality(D) \in Nat /\ Cardinality(DOMAIN registry) \in Nat /\ SizeCap \in Nat
  BY <1>1, FS_CardinalityType, SizeAssumption DEF TablesTyped, SizeAssumption
<1>3. Cardinality(D) <= SizeCap
  BY <1>1, <1>2 DEF TablesTyped
<1>4. registry' = [p \in D |-> registry[p]] /\ entries' = [p \in D |-> entries[p]]
  BY DEF Only
<1> QED
  BY <1>1, <1>3, <1>4 DEF TablesTyped

\* A completed job leaves both tables, and only it.
LEMMA CompleteShrinks ==
  ASSUME TablesTyped, TablesAgree, NEW j, Complete(j), queued' = queued
  PROVE  /\ TablesTyped'
         /\ DOMAIN registry' = {p \in DOMAIN registry : ~(p = j.path /\ registry[p] = j.token)}
         /\ \A p \in DOMAIN registry' : registry'[p] = registry[p] /\ entries'[p] = entries[p]
<1> DEFINE D == {p \in DOMAIN registry : ~(p = j.path /\ registry[p] = j.token)}
<1>1. {p \in DOMAIN entries : ~(p = j.path /\ entries[p].token = j.token)} = D
  BY DEF TablesTyped, TablesAgree
<1>2. registry' = Only(registry, D) /\ entries' = Only(entries, D)
  BY <1>1 DEF Complete
<1>3. queued' \in Seq(Folders) /\ D \in SUBSET DOMAIN registry
  BY DEF TablesTyped
<1> HIDE DEF D
<1>4. /\ TablesTyped' /\ DOMAIN registry' = D
      /\ \A p \in D : registry'[p] = registry[p] /\ entries'[p] = entries[p]
  BY <1>2, <1>3, Shrink
<1> QED
  BY <1>4 DEF D

\* A new job has a path and a token that no table had.
LEMMA ScheduleAdds ==
  ASSUME TablesTyped, SizeTypes, NEW p \in Folders, NEW kind \in {"walk", "everything"},
         ~Coalesces(p), HasRoom(p), Schedule(p, kind)
  PROVE  /\ TablesTyped' /\ tokens' = tokens + 1 /\ tokens' \in 1..MaxJobs
         /\ DOMAIN registry' = DOMAIN registry \cup {p} /\ p \notin DOMAIN registry
         /\ registry'[p] = tokens' /\ entries'[p] = [token |-> tokens', payload |-> kind]
         /\ \A q \in DOMAIN registry : registry'[q] = registry[q] /\ entries'[q] = entries[q]
         /\ p \in Range(queued') /\ Range(queued) \subseteq Range(queued')
<1>1. tokens' = tokens + 1 /\ tokens' \in Tokens /\ p \notin DOMAIN registry
  BY SizeAssumption DEF Schedule, Tokens, SizeAssumption, SizeTypes, Coalesces
<1>2. /\ registry' = [q \in DOMAIN registry \cup {p} |-> IF q = p THEN tokens' ELSE registry[q]]
      /\ entries' = [q \in DOMAIN registry \cup {p} |->
                       IF q = p THEN [token |-> tokens', payload |-> kind] ELSE entries[q]]
  BY DEF Schedule, TablesTyped
<1>3. [token |-> tokens', payload |-> kind] \in Entry
  BY <1>1 DEF Entry
<1>4. registry' \in [DOMAIN registry \cup {p} -> Tokens] /\ entries' \in [DOMAIN registry \cup {p} -> Entry]
  BY <1>1, <1>2, <1>3 DEF TablesTyped
<1>5. IsFiniteSet(DOMAIN registry \cup {p})
      /\ Cardinality(DOMAIN registry \cup {p}) = Cardinality(DOMAIN registry) + 1
  BY <1>1, FS_AddElement DEF TablesTyped
<1>6. Cardinality(DOMAIN registry) < SizeCap /\ Cardinality(DOMAIN registry) \in Nat /\ SizeCap \in Nat
  BY FS_CardinalityType, SizeAssumption DEF HasRoom, TablesTyped, SizeAssumption
<1>7. queued' = Append(queued, p) /\ queued \in Seq(Folders)
  BY DEF Schedule, TablesTyped
<1>8. queued' \in Seq(Folders) /\ p \in Range(queued') /\ Range(queued) \subseteq Range(queued')
  <2>1. queued' \in Seq(Folders) /\ Len(queued') = Len(queued) + 1 /\ queued'[Len(queued) + 1] = p
    BY <1>7
  <2>2. DOMAIN queued' = 1..(Len(queued) + 1) /\ DOMAIN queued = 1..Len(queued) /\ Len(queued) \in Nat
    BY <1>7, <2>1
  <2>3. \A i \in DOMAIN queued : i \in DOMAIN queued' /\ queued'[i] = queued[i]
    BY <1>7, <2>2
  <2>4. Len(queued) + 1 \in DOMAIN queued'
    BY <2>2
  <2> QED
    BY <2>1, <2>3, <2>4 DEF Range
<1>9. DOMAIN registry' = DOMAIN registry \cup {p} /\ DOMAIN entries' = DOMAIN registry \cup {p}
  BY <1>2
<1>10. TablesTyped'
  <2>1. Cardinality(DOMAIN registry') <= SizeCap /\ IsFiniteSet(DOMAIN registry')
    BY <1>5, <1>6, <1>9
  <2> QED
    BY <1>4, <1>8, <1>9, <2>1 DEF TablesTyped
<1> QED
  BY <1>1, <1>2, <1>8, <1>9, <1>10 DEF Tokens

\* A path in the tables is answered, unless its worker was refused.
LEMMA TabledServed ==
  ASSUME SizeIInv, NEW p \in DOMAIN registry, p \notin refused
  PROVE  Served(p)
<1> DEFINE j == [path |-> p, token |-> registry[p]]
<1>1. Owned(p) /\ ~Cancelled(j) /\ Here(j) /\ p \in Folders /\ entries[p] \in Entry
  BY DEF SizeIInv, TablesAgree, TablesTyped, Cancelled, Here
<1>2. CASE Batched(j)
  BY <1>1, <1>2 DEF Batched, Served, Speaks
<1>3. ASSUME NEW w \in SizeWorkers, workers[w].job = j PROVE Served(p)
  <2>1. WorkerOK(w)
    BY DEF SizeIInv
  <2> QED
    BY <1>1, <1>3, <2>1 DEF WorkerOK, Served, Answers
<1> QED
  BY <1>1, <1>2, <1>3 DEF Owned, Walked, Served, Entry

-----------------------------------------------------------------------------
(* Folder sizes: what a step leaves alone.                                 *)

\* How the tables move in any step: a row stays, is taken, or bears a new token.
Moves ==
  /\ tokens' \in Nat /\ tokens' >= tokens
  /\ \A q \in DOMAIN registry' :
       \/ /\ q \in DOMAIN registry /\ registry'[q] = registry[q]
          /\ entries'[q].payload \in {entries[q].payload, "taken"}
       \/ registry'[q] = tokens + 1
  /\ refused \cap DOMAIN registry \subseteq refused'

LEMMA IssuedKept ==
  ASSUME SizeTypes, Moves, NEW j \in Jobs, Issued(j)
  PROVE  /\ Issued(j)'
         /\ Here(j)' => /\ Here(j)
                        /\ entries[j.path].payload = "taken" => entries'[j.path].payload = "taken"
<1>1. tokens \in Nat /\ tokens' \in Nat /\ tokens <= tokens' /\ j.token \in Nat /\ j.token <= tokens
  BY DEF SizeTypes, Moves, Issued, Jobs, Tokens
<1>2. j.token # tokens + 1 /\ j.token <= tokens'
  BY <1>1
<1> QED
  BY <1>1, <1>2 DEF Moves, Issued, Here

\* A worker that does not move keeps its part.
LEMMA WorkerKept ==
  ASSUME SizeTypes, TablesTyped, Moves, NEW w \in SizeWorkers, WorkerOK(w),
         workers'[w] = workers[w]
  PROVE  WorkerOK(w)'
<1>1. CASE workers[w].at = "next"
  <2>1. \A q \in DOMAIN registry' : registry'[q] # 0
    BY DEF Moves, SizeTypes, TablesTyped, Tokens
  <2>2. workers'[w] = IdleWorker
    BY <1>1 DEF WorkerOK
  <2> QED
    BY <2>1, <2>2 DEF WorkerOK, Here, IdleWorker, NoJob
<1>2. CASE workers[w].at # "next"
  <2> DEFINE j == workers[w].job
  <2>1. j \in Jobs /\ Issued(j)
    BY <1>2 DEF WorkerOK
  <2>2. PICK k \in Jobs : k = j
    BY <2>1
  <2>3. Issued(k)' /\ (Here(k)' => Here(k) /\ (entries[k.path].payload = "taken" => entries'[k.path].payload = "taken"))
    BY <2>1, <2>2, IssuedKept
  <2>4. Here(k)' => (k.path \in refused => k.path \in refused')
    BY <2>3 DEF Here, Moves
  <2>5. workers'[w].job = k /\ k = j
    BY <2>2
  <2>6. /\ workers[w].says => workers[w].at \in {"complete", "emit"}
        /\ workers[w].at = "emit" => ~Here(k)
        /\ Here(k) => entries[k.path].payload = "taken"
        /\ workers[w].at = "complete" /\ ~workers[w].says /\ Here(k) => k.path \in refused
    BY <2>2 DEF WorkerOK
  <2> QED
    BY <1>2, <2>3, <2>4, <2>5, <2>6 DEF WorkerOK, Here, Issued
<1> QED
  BY <1>1, <1>2

\* So does a batch that does not move, and one that only gives up jobs.
LEMMA JobsKept ==
  ASSUME SizeTypes, Moves, NEW b \in Batches, BatchOK(b),
         NEW S, S \subseteq batches[b].jobs
  PROVE  \A j \in S : Issued(j)'
<1> SUFFICES ASSUME NEW j \in S PROVE Issued(j)'
  OBVIOUS
<1>1. j \in Jobs /\ Issued(j)
  BY DEF SizeTypes, BatchOK, BatchStates
<1> QED
  BY <1>1, IssuedKept

LEMMA BatchKept ==
  ASSUME SizeTypes, Moves, NEW b \in Batches, BatchOK(b), batches'[b] = batches[b]
  PROVE  BatchOK(b)'
<1> DEFINE S == batches[b].jobs
<1>1. \A j \in S : Issued(j)'
  <2> HIDE DEF S
  <2> QED
    BY JobsKept DEF S
<1>2. \A j \in batches'[b].jobs : Issued(j)'
  BY <1>1
<1> QED
  BY <1>2 DEF BatchOK, Issued

\* A new job leaves every other one and its owner alone.
LEMMA ScheduleKeeps ==
  ASSUME SizeIInv, NEW p \in Folders, NEW kind \in {"walk", "everything"},
         ~Coalesces(p), HasRoom(p), Schedule(p, kind),
         workers' = workers, flagged' = flagged, refused' = refused \ {p},
         \A b \in Batches : batches[b].jobs \subseteq batches'[b].jobs,
         kind = "everything" =>
           \E b \in Batches : [path |-> p, token |-> tokens'] \in batches'[b].jobs
  PROVE  /\ TablesTyped' /\ TablesAgree' /\ Moves
         /\ \A w \in SizeWorkers : WorkerOK(w)'
         /\ \A q \in DOMAIN registry' : Owned(q)'
<1>t. TablesTyped /\ SizeTypes /\ TablesAgree
  BY DEF SizeIInv
<1>1. /\ TablesTyped' /\ tokens' = tokens + 1 /\ tokens' \in 1..MaxJobs
      /\ DOMAIN registry' = DOMAIN registry \cup {p} /\ p \notin DOMAIN registry
      /\ registry'[p] = tokens' /\ entries'[p] = [token |-> tokens', payload |-> kind]
      /\ \A q \in DOMAIN registry : registry'[q] = registry[q] /\ entries'[q] = entries[q]
      /\ p \in Range(queued') /\ Range(queued) \subseteq Range(queued')
  BY <1>t, ScheduleAdds
<1>n. tokens \in Nat /\ tokens' \in Nat /\ ~(tokens + 1 <= tokens)
  BY <1>t, <1>1 DEF SizeTypes
<1>2. Moves
  <2>1. tokens' \in Nat /\ tokens' >= tokens
    BY <1>1, <1>n
  <2>2. refused \cap DOMAIN registry \subseteq refused'
    BY <1>1
  <2> QED
    BY <1>1, <2>1, <2>2 DEF Moves
<1>3. TablesAgree'
  <2>1. \A q \in DOMAIN registry : registry[q] <= tokens /\ registry[q] \in Nat
    BY <1>t DEF TablesAgree, TablesTyped, Tokens
  <2>2. \A q \in DOMAIN registry : registry[q] # tokens' /\ registry[q] <= tokens'
    BY <1>1, <1>n, <2>1
  <2>3. tokens' \notin flagged'
    BY <1>t, <1>1, <1>n DEF SizeTypes
  <2>4. tokens' <= tokens'
    BY <1>n
  <2> QED
    BY <1>t, <1>1, <2>2, <2>3, <2>4 DEF TablesAgree
<1>4. ASSUME NEW w \in SizeWorkers PROVE WorkerOK(w)'
  BY <1>t, <1>2, WorkerKept DEF SizeIInv
<1>5. ASSUME NEW q \in DOMAIN registry' PROVE Owned(q)'
  <2>1. CASE q = p
    BY <1>1, <2>1 DEF Owned, Batched
  <2>2. CASE q # p
    <3>1. q \in DOMAIN registry /\ Owned(q)
      BY <1>1, <2>2 DEF SizeIInv
    <3>2. Batched([path |-> q, token |-> registry[q]]) =>
            \E b \in Batches : [path |-> q, token |-> registry[q]] \in batches'[b].jobs
      BY DEF Batched
    <3> QED
      BY <1>1, <3>1, <3>2 DEF Owned, Batched, Walked
  <2> QED
    BY <2>1, <2>2
<1> QED
  BY <1>1, <1>2, <1>3, <1>4, <1>5

-----------------------------------------------------------------------------
(* Folder sizes: the steps.                                                *)

LEMMA RequestWalkKeeps ==
  ASSUME SizeIInv, NEW p \in Folders, RequestWalk(p)
  PROVE  SizeIInv'
<1>t. /\ TablesTyped /\ SizeTypes /\ TablesAgree
      /\ flagged' = flagged /\ workers' = workers /\ batches' = batches /\ gate' = gate
  BY DEF SizeIInv, RequestWalk
<1>1. ASSUME UNCHANGED <<registry, entries, queued, tokens, refused>>,
             awaited' \subseteq awaited \cup {p}, p \in awaited' => p \in DOMAIN registry
      PROVE  SizeIInv'
  <2>1. TablesTyped' /\ SizeTypes' /\ TablesAgree'
    BY <1>t, <1>1 DEF TablesTyped, SizeTypes, TablesAgree
  <2>2. /\ \A w \in SizeWorkers : WorkerOK(w)'
        /\ \A b \in Batches : BatchOK(b)'
        /\ \A q \in DOMAIN registry' : Owned(q)'
    BY <1>t, <1>1 DEF SizeIInv, WorkerOK, BatchOK, Owned, Issued, Here, Batched, Walked
  <2>3. ASSUME NEW q \in awaited' \ refused' PROVE Served(q)
    BY <1>1, <2>3, TabledServed DEF SizeIInv
  <2>4. ASSUME NEW q \in awaited' \ refused' PROVE Served(q)'
    BY <1>t, <1>1, <2>3 DEF Served, Speaks, Answers, Cancelled
  <2> QED
    BY <2>1, <2>2, <2>4 DEF SizeIInv
<1>2. ASSUME ~Coalesces(p), HasRoom(p), Schedule(p, "walk"), awaited' = awaited \cup {p},
             refused' = refused \ {p}
      PROVE  SizeIInv'
  <2>1. /\ TablesTyped' /\ TablesAgree' /\ Moves
        /\ \A w \in SizeWorkers : WorkerOK(w)'
        /\ \A q \in DOMAIN registry' : Owned(q)'
    BY <1>t, <1>2, ScheduleKeeps
  <2>2. /\ tokens' = tokens + 1 /\ tokens' \in 1..MaxJobs
        /\ DOMAIN registry' = DOMAIN registry \cup {p}
        /\ entries'[p] = [token |-> tokens', payload |-> "walk"]
        /\ \A q \in DOMAIN registry : entries'[q] = entries[q]
    BY <1>t, <1>2, ScheduleAdds
  <2>3. SizeTypes'
    <3>1. \A x \in 1..tokens : x \in 1..tokens'
      BY <1>t, <2>2 DEF SizeTypes
    <3> QED
      BY <1>t, <1>2, <2>2, <3>1 DEF SizeTypes
  <2>4. ASSUME NEW b \in Batches PROVE BatchOK(b)'
    BY <1>t, <2>1, BatchKept DEF SizeIInv
  <2>5. ASSUME NEW q \in awaited' \ refused' PROVE Served(q)'
    <3>1. CASE q = p
      BY <2>2, <3>1 DEF Served
    <3>2. CASE q # p
      <4>1. Served(q)
        BY <1>2, <3>2 DEF SizeIInv
      <4> QED
        BY <1>t, <2>2, <4>1 DEF Served, Speaks, Answers, Cancelled
    <3> QED
      BY <3>1, <3>2
  <2> QED
    BY <2>1, <2>3, <2>4, <2>5 DEF SizeIInv
<1>3. \/ /\ Coalesces(p) /\ UNCHANGED <<registry, entries, queued, tokens, refused>>
         /\ awaited' = awaited \cup {p}
      \/ /\ ~Coalesces(p) /\ HasRoom(p) /\ Schedule(p, "walk") /\ awaited' = awaited \cup {p}
         /\ refused' = refused \ {p}
      \/ UNCHANGED <<registry, entries, queued, tokens, refused>> /\ awaited' = awaited \ {p}
  BY DEF RequestWalk, Untouched
<1> QED
  BY <1>1, <1>2, <1>3 DEF Coalesces

\* A step of one batch that leaves the tables alone.
LEMMA BatchStep ==
  ASSUME SizeIInv, NEW b \in Batches,
         UNCHANGED <<registry, entries, queued, flagged, tokens, workers, refused>>,
         gate' \in Batches \cup {"free"}, awaited' \subseteq Folders,
         batches' \in [Batches -> BatchStates], \A c \in Batches \ {b} : batches'[c] = batches[c],
         batches[b].jobs \subseteq batches'[b].jobs,
         \A j \in batches'[b].jobs : Issued(j),
         batches'[b].at = "none" => batches'[b] = NoBatch,
         batches'[b].at # "register" => batches'[b].todo = {},
         \A q \in awaited' : Speaks(b, q)' \/ (q \in awaited /\ ~Speaks(b, q))
  PROVE  SizeIInv'
<1>1. TablesTyped' /\ SizeTypes' /\ TablesAgree'
  BY DEF SizeIInv, TablesTyped, SizeTypes, TablesAgree
<1>2. ASSUME NEW w \in SizeWorkers PROVE WorkerOK(w)'
  BY DEF SizeIInv, WorkerOK, Issued, Here
<1>3. ASSUME NEW c \in Batches PROVE BatchOK(c)'
  <2>1. CASE c = b
    BY <2>1 DEF BatchOK, Issued
  <2>2. CASE c # b
    BY <2>2 DEF SizeIInv, BatchOK, Issued
  <2> QED
    BY <2>1, <2>2
<1>4. ASSUME NEW q \in DOMAIN registry' PROVE Owned(q)'
  <2>1. ASSUME NEW j, Batched(j) PROVE Batched(j)'
    BY <2>1 DEF Batched
  <2>2. Batched([path |-> q, token |-> registry[q]]) => Batched([path |-> q, token |-> registry[q]])'
    BY <2>1
  <2> QED
    BY <2>2 DEF SizeIInv, Owned, Walked
<1>5. ASSUME NEW q \in awaited' \ refused' PROVE Served(q)'
  <2>1. CASE Speaks(b, q)'
    BY <2>1 DEF Served
  <2>2. CASE q \in awaited /\ ~Speaks(b, q)
    <3>1. Served(q)
      BY <2>2 DEF SizeIInv
    <3>2. \A c \in Batches : Speaks(c, q) => Speaks(c, q)'
      BY <2>2 DEF Speaks, Cancelled
    <3>3. \A w \in SizeWorkers : Answers(w, q) => Answers(w, q)'
      BY DEF Answers, Cancelled
    <3> QED
      BY <3>1, <3>2, <3>3 DEF Served
  <2> QED
    BY <2>1, <2>2
<1> QED
  BY <1>1, <1>2, <1>3, <1>4, <1>5 DEF SizeIInv

LEMMA RequestBatchKeeps ==
  ASSUME SizeIInv, NEW b \in Batches, NEW S \in SUBSET Folders, RequestBatch(b, S)
  PROVE  SizeIInv'
<1>t. SizeTypes /\ BatchOK(b) /\ batches[b] = NoBatch
  BY DEF SizeIInv, BatchOK, RequestBatch
<1>1. /\ batches'[b] = [NoBatch EXCEPT !.at = "register", !.todo = S]
      /\ \A c \in Batches \ {b} : batches'[c] = batches[c]
      /\ batches' \in [Batches -> BatchStates]
  BY <1>t DEF RequestBatch, SizeTypes, BatchStates, NoBatch
<1>2. /\ batches'[b].at = "register" /\ batches'[b].todo = S /\ batches'[b].jobs = {}
      /\ batches[b].jobs = {} /\ batches[b].todo = {} /\ batches[b].says = {}
  BY <1>t, <1>1 DEF NoBatch
<1>3. \A q \in awaited' : Speaks(b, q)' \/ (q \in awaited /\ ~Speaks(b, q))
  BY <1>2 DEF RequestBatch, Speaks
<1>4. awaited' \subseteq Folders /\ gate' \in Batches \cup {"free"}
  BY <1>t DEF RequestBatch, SizeTypes
<1> QED
  BY <1>1, <1>2, <1>3, <1>4, BatchStep DEF RequestBatch

LEMMA SpawnBatchKeeps ==
  ASSUME SizeIInv, NEW b \in Batches, SpawnBatch(b)
  PROVE  SizeIInv'
<1>t. SizeTypes /\ BatchOK(b) /\ batches[b] \in BatchStates /\ batches[b].todo = {}
  BY DEF SizeIInv, SizeTypes, SpawnBatch
<1>1. /\ batches'[b] = IF batches[b].jobs = {} THEN NoBatch
                       ELSE [batches[b] EXCEPT !.at = "gate", !.says = {}]
      /\ \A c \in Batches \ {b} : batches'[c] = batches[c]
      /\ batches' \in [Batches -> BatchStates]
  BY <1>t DEF SpawnBatch, SizeTypes, BatchStates, NoBatch
<1>2. /\ batches'[b].jobs = batches[b].jobs /\ batches'[b].todo = {} /\ batches'[b].says = {}
      /\ batches'[b].at = "none" => batches'[b] = NoBatch
  BY <1>t, <1>1 DEF NoBatch, BatchStates
<1>3. \A j \in batches'[b].jobs : Issued(j)
  BY <1>t, <1>2 DEF BatchOK
<1>4. ASSUME NEW q \in awaited' PROVE Speaks(b, q)' \/ (q \in awaited /\ ~Speaks(b, q))
  BY <1>t, <1>2 DEF SpawnBatch, Speaks, Cancelled
<1>5. awaited' \subseteq Folders /\ gate' \in Batches \cup {"free"}
  BY <1>t DEF SpawnBatch, SizeTypes
<1> QED
  BY <1>t, <1>1, <1>2, <1>3, <1>4, <1>5, BatchStep DEF SpawnBatch

LEMMA BatchRunKeeps ==
  ASSUME SizeIInv, NEW b \in Batches, EnterGate(b) \/ Query(b) \/ EmitBatch(b)
  PROVE  SizeIInv'
<1>t. SizeTypes /\ BatchOK(b) /\ batches[b] \in BatchStates /\ batches[b].todo = {}
  BY DEF SizeIInv, SizeTypes, BatchOK, EnterGate, Query, EmitBatch
<1>1. CASE EnterGate(b) \/ Query(b)
  <2>1. PICK to \in {"query", "collect"} : batches' = [batches EXCEPT ![b].at = to]
    BY <1>1 DEF EnterGate, Query
  <2>2. /\ batches'[b] = [batches[b] EXCEPT !.at = to]
        /\ \A c \in Batches \ {b} : batches'[c] = batches[c]
        /\ batches' \in [Batches -> BatchStates]
    BY <1>t, <2>1 DEF SizeTypes, BatchStates
  <2>3. /\ batches'[b].at = to /\ batches'[b].todo = {}
        /\ batches'[b].jobs = batches[b].jobs /\ batches'[b].says = batches[b].says
    BY <1>t, <2>2 DEF BatchStates
  <2>4. /\ UNCHANGED <<registry, entries, queued, flagged, tokens, workers, refused, awaited>>
        /\ gate' \in Batches \cup {"free"} /\ awaited' \subseteq Folders
    BY <1>t, <1>1 DEF EnterGate, Query, SizeTypes
  <2>5. \A q \in awaited' : Speaks(b, q)' \/ (q \in awaited /\ ~Speaks(b, q))
    BY <1>t, <2>3, <2>4 DEF Speaks, Cancelled
  <2>6. \A j \in batches'[b].jobs : Issued(j)
    BY <1>t, <2>3 DEF BatchOK
  <2> QED
    BY <1>t, <2>2, <2>3, <2>4, <2>5, <2>6, BatchStep
<1>2. CASE EmitBatch(b)
  <2>1. batches' = [batches EXCEPT ![b] = NoBatch] /\ batches[b].jobs = {}
    BY <1>2 DEF EmitBatch
  <2>2. /\ batches'[b] = NoBatch
        /\ \A c \in Batches \ {b} : batches'[c] = batches[c]
        /\ batches' \in [Batches -> BatchStates]
    BY <1>t, <2>1 DEF SizeTypes, BatchStates, NoBatch
  <2>3. /\ UNCHANGED <<registry, entries, queued, flagged, tokens, workers, refused>>
        /\ gate' \in Batches \cup {"free"} /\ awaited' \subseteq Folders
        /\ awaited' = awaited \ batches[b].says
    BY <1>t, <1>2 DEF EmitBatch, SizeTypes
  <2>4. \A q \in awaited' : Speaks(b, q)' \/ (q \in awaited /\ ~Speaks(b, q))
    BY <1>t, <2>1, <2>3 DEF Speaks
  <2>5. batches'[b].jobs = {} /\ batches'[b].todo = {}
    BY <2>2 DEF NoBatch
  <2> QED
    BY <1>t, <2>1, <2>2, <2>3, <2>4, <2>5, BatchStep
<1> QED
  BY <1>1, <1>2

\* A step of one worker that leaves the tables alone.
LEMMA WorkerStep ==
  ASSUME SizeIInv, NEW w \in SizeWorkers,
         UNCHANGED <<registry, entries, queued, flagged, tokens, batches, gate>>,
         awaited' \subseteq awaited, refused \subseteq refused', refused' \subseteq Folders,
         workers' \in [SizeWorkers -> WorkerStates],
         \A v \in SizeWorkers \ {w} : workers'[v] = workers[v],
         WorkerOK(w)',
         Here(workers[w].job) => workers'[w].job = workers[w].job,
         \A q \in awaited' \ refused' : Answers(w, q) => Answers(w, q)'
  PROVE  SizeIInv'
<1>1. TablesTyped' /\ SizeTypes' /\ TablesAgree'
  BY DEF SizeIInv, TablesTyped, SizeTypes, TablesAgree
<1>2. Moves
  BY <1>1 DEF Moves, SizeTypes
<1>3. ASSUME NEW v \in SizeWorkers PROVE WorkerOK(v)'
  <2>1. CASE v = w
    BY <2>1
  <2>2. CASE v # w
    BY <1>2, <2>2, WorkerKept DEF SizeIInv
  <2> QED
    BY <2>1, <2>2
<1>4. ASSUME NEW b \in Batches PROVE BatchOK(b)'
  BY <1>2, BatchKept DEF SizeIInv
<1>5. ASSUME NEW q \in DOMAIN registry' PROVE Owned(q)'
  <2> DEFINE j == [path |-> q, token |-> registry[q]]
  <2>1. Owned(q) /\ Here(j)
    BY DEF SizeIInv, Here
  <2>2. \A v \in SizeWorkers : workers[v].job = j => workers'[v].job = j
    BY <2>1
  <2> QED
    BY <2>1, <2>2 DEF Owned, Batched, Walked
<1>6. ASSUME NEW q \in awaited' \ refused' PROVE Served(q)'
  <2>1. Served(q)
    BY DEF SizeIInv
  <2>2. \A b \in Batches : Speaks(b, q) => Speaks(b, q)'
    BY DEF Speaks, Cancelled
  <2>3. \A v \in SizeWorkers \ {w} : Answers(v, q) => Answers(v, q)'
    BY DEF Answers, Cancelled
  <2> QED
    BY <2>1, <2>2, <2>3 DEF Served
<1> QED
  BY <1>1, <1>3, <1>4, <1>5, <1>6 DEF SizeIInv

LEMMA CheckJobKeeps ==
  ASSUME SizeIInv, NEW w \in SizeWorkers, CheckJob(w)
  PROVE  SizeIInv'
<1>t. SizeTypes /\ TablesAgree /\ WorkerOK(w) /\ workers[w] \in WorkerStates /\ workers[w].at = "check"
  BY DEF SizeIInv, SizeTypes, CheckJob
<1>1. PICK to \in {"complete", "admit"} :
        /\ workers' = [workers EXCEPT ![w].at = to]
        /\ to = IF Cancelled(workers[w].job) THEN "complete" ELSE "admit"
  BY DEF CheckJob, Goes
<1>2. /\ workers'[w] = [workers[w] EXCEPT !.at = to]
      /\ workers' \in [SizeWorkers -> WorkerStates]
      /\ \A v \in SizeWorkers \ {w} : workers'[v] = workers[v]
  BY <1>t, <1>1 DEF SizeTypes, WorkerStates
<1>3. workers'[w].at = to /\ workers'[w].job = workers[w].job /\ workers'[w].says = workers[w].says
  BY <1>t, <1>2 DEF WorkerStates
<1>4. UNCHANGED <<registry, entries, queued, flagged, tokens, batches, gate, awaited, refused>>
  BY DEF CheckJob
<1>5. Here(workers[w].job) => ~Cancelled(workers[w].job)
  BY <1>t DEF Here, TablesAgree, Cancelled
<1>6. WorkerOK(w)'
  BY <1>t, <1>1, <1>3, <1>4, <1>5 DEF WorkerOK, Issued, Here
<1>7. \A q \in awaited' \ refused' : Answers(w, q) => Answers(w, q)'
  BY <1>t, <1>1, <1>3, <1>4 DEF Answers, Cancelled
<1>8. refused' \subseteq Folders
  BY <1>t, <1>4 DEF SizeTypes
<1> QED
  BY <1>2, <1>3, <1>4, <1>6, <1>7, <1>8, WorkerStep

LEMMA AdmitJobKeeps ==
  ASSUME SizeIInv, NEW w \in SizeWorkers, AdmitJob(w)
  PROVE  SizeIInv'
<1>t. SizeTypes /\ TablesAgree /\ WorkerOK(w) /\ workers[w] \in WorkerStates /\ workers[w].at = "admit"
  BY DEF SizeIInv, SizeTypes, AdmitJob
<1>1. PICK to \in {"complete", "walk"} :
        /\ workers' = [workers EXCEPT ![w].at = to]
        /\ \/ to = (IF Cancelled(workers[w].job) THEN "complete" ELSE "walk") /\ refused' = refused
           \/ to = "complete" /\ refused' = refused \cup {workers[w].job.path}
  BY DEF AdmitJob, Goes
<1>2. /\ workers'[w] = [workers[w] EXCEPT !.at = to]
      /\ workers' \in [SizeWorkers -> WorkerStates]
      /\ \A v \in SizeWorkers \ {w} : workers'[v] = workers[v]
  BY <1>t, <1>1 DEF SizeTypes, WorkerStates
<1>3. workers'[w].at = to /\ workers'[w].job = workers[w].job /\ workers'[w].says = workers[w].says
  BY <1>t, <1>2 DEF WorkerStates
<1>4. UNCHANGED <<registry, entries, queued, flagged, tokens, batches, gate, awaited>>
  BY DEF AdmitJob
<1>5. Here(workers[w].job) => ~Cancelled(workers[w].job)
  BY <1>t DEF Here, TablesAgree, Cancelled
<1>6. WorkerOK(w)'
  BY <1>t, <1>1, <1>3, <1>4, <1>5 DEF WorkerOK, Issued, Here
<1>7. \A q \in awaited' \ refused' : Answers(w, q) => Answers(w, q)'
  BY <1>t, <1>1, <1>3, <1>4 DEF Answers, Cancelled, WorkerOK
<1>8. workers[w].job.path \in Folders
  BY <1>t DEF WorkerOK, Jobs
<1>9. refused' \subseteq Folders /\ refused \subseteq refused'
  BY <1>t, <1>1, <1>8 DEF SizeTypes
<1> QED
  BY <1>2, <1>3, <1>4, <1>6, <1>7, <1>9, WorkerStep

LEMMA WalkKeeps ==
  ASSUME SizeIInv, NEW w \in SizeWorkers, Walk(w)
  PROVE  SizeIInv'
<1>t. SizeTypes /\ TablesAgree /\ WorkerOK(w) /\ workers[w] \in WorkerStates /\ workers[w].at = "walk"
  BY DEF SizeIInv, SizeTypes, Walk
<1>1. PICK says \in BOOLEAN :
        /\ workers' = [workers EXCEPT ![w].at = "complete", ![w].says = says]
        /\ says = ~Cancelled(workers[w].job)
  BY DEF Walk
<1>2. /\ workers'[w] = [workers[w] EXCEPT !.at = "complete", !.says = says]
      /\ workers' \in [SizeWorkers -> WorkerStates]
      /\ \A v \in SizeWorkers \ {w} : workers'[v] = workers[v]
  BY <1>t, <1>1 DEF SizeTypes, WorkerStates
<1>3. workers'[w].at = "complete" /\ workers'[w].job = workers[w].job /\ workers'[w].says = says
  BY <1>t, <1>2 DEF WorkerStates
<1>4. UNCHANGED <<registry, entries, queued, flagged, tokens, batches, gate, awaited, refused>>
  BY DEF Walk
<1>5. Here(workers[w].job) => says
  BY <1>t, <1>1 DEF Here, TablesAgree, Cancelled
<1>6. WorkerOK(w)'
  BY <1>t, <1>1, <1>3, <1>4, <1>5 DEF WorkerOK, Issued, Here
<1>7. \A q \in awaited' \ refused' : Answers(w, q) => Answers(w, q)'
  BY <1>t, <1>1, <1>3, <1>4 DEF Answers, Cancelled, WorkerOK
<1>8. refused' \subseteq Folders
  BY <1>t, <1>4 DEF SizeTypes
<1> QED
  BY <1>2, <1>3, <1>4, <1>6, <1>7, <1>8, WorkerStep

LEMMA EmitSizeKeeps ==
  ASSUME SizeIInv, NEW w \in SizeWorkers, EmitSize(w)
  PROVE  SizeIInv'
<1>t. SizeTypes /\ TablesTyped /\ WorkerOK(w) /\ workers[w] \in WorkerStates /\ workers[w].at = "emit"
  BY DEF SizeIInv, SizeTypes, EmitSize
<1>1. workers' = [workers EXCEPT ![w] = IdleWorker]
  BY DEF EmitSize
<1>2. /\ workers'[w] = IdleWorker
      /\ workers' \in [SizeWorkers -> WorkerStates]
      /\ \A v \in SizeWorkers \ {w} : workers'[v] = workers[v]
  BY <1>t, <1>1 DEF SizeTypes, WorkerStates, IdleWorker
<1>3. /\ UNCHANGED <<registry, entries, queued, flagged, tokens, batches, gate, refused>>
      /\ awaited' = awaited \ {workers[w].job.path}
  BY DEF EmitSize
<1>4. WorkerOK(w)'
  <2>1. \A q \in DOMAIN registry : q \in Folders
    BY <1>t DEF TablesTyped
  <2> QED
    BY <1>2, <1>3, <2>1, SizeAssumption DEF WorkerOK, Here, IdleWorker, NoJob, SizeAssumption
<1>5. ~Here(workers[w].job)
  BY <1>t DEF WorkerOK
<1>6. \A q \in awaited' \ refused' : ~Answers(w, q)
  BY <1>3 DEF Answers
<1>7. refused' \subseteq Folders
  BY <1>t, <1>3 DEF SizeTypes
<1> QED
  BY <1>2, <1>3, <1>4, <1>5, <1>6, <1>7, WorkerStep

\* A completed job is out of the tables; every other row stays.
LEMMA CompleteMoves ==
  ASSUME SizeIInv, NEW j \in Jobs, Complete(j), UNCHANGED <<queued, flagged, tokens, refused>>
  PROVE  /\ TablesTyped' /\ TablesAgree' /\ Moves /\ ~Here(j)'
         /\ DOMAIN registry' \subseteq DOMAIN registry
         /\ \A q \in DOMAIN registry' :
              /\ registry'[q] = registry[q] /\ entries'[q] = entries[q]
              /\ j # [path |-> q, token |-> registry[q]]
         /\ \A q \in DOMAIN registry \ DOMAIN registry' : Here(j) /\ q = j.path
<1>t. TablesTyped /\ SizeTypes /\ TablesAgree
  BY DEF SizeIInv
<1>1. /\ TablesTyped'
      /\ DOMAIN registry' = {p \in DOMAIN registry : ~(p = j.path /\ registry[p] = j.token)}
      /\ \A p \in DOMAIN registry' : registry'[p] = registry[p] /\ entries'[p] = entries[p]
  BY <1>t, CompleteShrinks
<1>2. TablesAgree'
  BY <1>t, <1>1 DEF TablesAgree
<1>3. Moves
  BY <1>t, <1>1 DEF Moves, SizeTypes
<1>4. \A q \in DOMAIN registry \ DOMAIN registry' : Here(j) /\ q = j.path
  BY <1>1 DEF Here
<1> QED
  BY <1>1, <1>2, <1>3, <1>4 DEF Here

LEMMA CompleteWalkKeeps ==
  ASSUME SizeIInv, NEW w \in SizeWorkers, CompleteWalk(w)
  PROVE  SizeIInv'
<1>t. /\ SizeTypes /\ TablesTyped /\ TablesAgree /\ WorkerOK(w)
      /\ workers[w] \in WorkerStates /\ workers[w].at = "complete"
  BY DEF SizeIInv, SizeTypes, CompleteWalk
<1>1. PICK j \in Jobs : j = workers[w].job /\ Issued(j) /\ Complete(j)
  BY <1>t DEF WorkerOK, CompleteWalk
<1>2. UNCHANGED <<queued, flagged, tokens, batches, gate, awaited, refused>>
  BY DEF CompleteWalk
<1>3. /\ TablesTyped' /\ TablesAgree' /\ Moves /\ ~Here(j)'
      /\ DOMAIN registry' \subseteq DOMAIN registry
      /\ \A q \in DOMAIN registry' :
           /\ registry'[q] = registry[q] /\ entries'[q] = entries[q]
           /\ j # [path |-> q, token |-> registry[q]]
      /\ \A q \in DOMAIN registry \ DOMAIN registry' : Here(j) /\ q = j.path
  BY <1>1, <1>2, CompleteMoves
<1>4. /\ workers'[w] = IF workers[w].says THEN [workers[w] EXCEPT !.at = "emit"] ELSE IdleWorker
      /\ workers' \in [SizeWorkers -> WorkerStates]
      /\ \A v \in SizeWorkers \ {w} : workers'[v] = workers[v]
  BY <1>t DEF CompleteWalk, SizeTypes, WorkerStates, IdleWorker
<1>5. SizeTypes'
  BY <1>t, <1>2, <1>4 DEF SizeTypes
<1>6. ASSUME NEW v \in SizeWorkers PROVE WorkerOK(v)'
  <2>1. CASE v # w
    BY <1>t, <1>3, <1>4, <2>1, WorkerKept DEF SizeIInv
  <2>2. CASE v = w /\ workers[w].says
    <3>1. Issued(j)'
      BY <1>t, <1>1, <1>3, IssuedKept
    <3>2. workers'[w].at = "emit" /\ workers'[w].job = j /\ workers'[w].says = TRUE
      BY <1>t, <1>1, <1>4, <2>2 DEF WorkerStates
    <3> QED
      BY <1>3, <2>2, <3>1, <3>2 DEF WorkerOK, Issued, Here
  <2>3. CASE v = w /\ ~workers[w].says
    <3>1. workers'[w] = IdleWorker
      BY <1>4, <2>3
    <3>2. \A q \in DOMAIN registry' : q \in Folders
      BY <1>3 DEF TablesTyped
    <3> QED
      BY <2>3, <3>1, <3>2, SizeAssumption DEF WorkerOK, Here, IdleWorker, NoJob, SizeAssumption
  <2> QED
    BY <2>1, <2>2, <2>3
<1>7. ASSUME NEW b \in Batches PROVE BatchOK(b)'
  BY <1>t, <1>2, <1>3, BatchKept DEF SizeIInv
<1>8. ASSUME NEW q \in DOMAIN registry' PROVE Owned(q)'
  <2>1. Owned(q) /\ registry'[q] = registry[q] /\ entries'[q] = entries[q]
        /\ j # [path |-> q, token |-> registry[q]]
    BY <1>3 DEF SizeIInv
  <2>2. \A v \in SizeWorkers :
          workers[v].job = [path |-> q, token |-> registry[q]] => workers'[v] = workers[v]
    BY <1>1, <1>4, <2>1
  <2> QED
    BY <1>2, <2>1, <2>2 DEF Owned, Batched, Walked
<1>9. ASSUME NEW q \in awaited' \ refused' PROVE Served(q)'
  <2>1. Served(q)
    BY <1>2 DEF SizeIInv
  <2>2. \A b \in Batches : Speaks(b, q) => Speaks(b, q)'
    BY <1>2 DEF Speaks, Cancelled
  <2>3. \A v \in SizeWorkers \ {w} : Answers(v, q) => Answers(v, q)'
    BY <1>2, <1>4 DEF Answers, Cancelled
  <2>4. Answers(w, q) => Answers(w, q)'
    <3>1. CASE workers[w].says
      <4>1. workers'[w].says /\ workers'[w].job = workers[w].job
        BY <1>t, <1>4, <3>1 DEF WorkerStates
      <4> QED
        BY <4>1 DEF Answers
    <3>2. CASE ~workers[w].says
      BY <1>t, <3>2 DEF Answers
    <3> QED
      BY <3>1, <3>2
  <2>5. q \in DOMAIN registry /\ entries[q].payload = "walk" =>
          q \in DOMAIN registry' /\ entries'[q].payload = "walk"
    BY <1>t, <1>1, <1>3 DEF WorkerOK
  <2> QED
    BY <2>1, <2>2, <2>3, <2>4, <2>5 DEF Served
<1> QED
  BY <1>3, <1>5, <1>6, <1>7, <1>8, <1>9 DEF SizeIInv

LEMMA CollectKeeps ==
  ASSUME SizeIInv, NEW b \in Batches, Collect(b)
  PROVE  SizeIInv'
<1>t. /\ SizeTypes /\ TablesTyped /\ TablesAgree /\ BatchOK(b)
      /\ batches[b] \in BatchStates /\ batches[b].at = "collect" /\ batches[b].todo = {}
  BY DEF SizeIInv, SizeTypes, BatchOK, Collect
<1>1. PICK j \in batches[b].jobs :
        /\ Complete(j)
        /\ batches' = [batches EXCEPT ![b].jobs = @ \ {j},
                         ![b].says = IF Cancelled(j) THEN @ ELSE @ \cup {j.path}]
  BY DEF Collect
<1>j. j \in Jobs /\ j.path \in Folders
  BY <1>t, <1>1 DEF BatchStates, Jobs
<1>2. UNCHANGED <<queued, flagged, tokens, workers, gate, awaited, refused>>
  BY DEF Collect
<1>3. /\ TablesTyped' /\ TablesAgree' /\ Moves /\ ~Here(j)'
      /\ DOMAIN registry' \subseteq DOMAIN registry
      /\ \A q \in DOMAIN registry' :
           /\ registry'[q] = registry[q] /\ entries'[q] = entries[q]
           /\ j # [path |-> q, token |-> registry[q]]
      /\ \A q \in DOMAIN registry \ DOMAIN registry' : Here(j) /\ q = j.path
  BY <1>1, <1>j, <1>2, CompleteMoves
<1>4. PICK said \in SUBSET Folders :
        said = IF Cancelled(j) THEN batches[b].says ELSE batches[b].says \cup {j.path}
  BY <1>t, <1>j DEF BatchStates
<1>5. /\ batches'[b] = [batches[b] EXCEPT !.jobs = batches[b].jobs \ {j}, !.says = said]
      /\ batches' \in [Batches -> BatchStates]
      /\ \A c \in Batches \ {b} : batches'[c] = batches[c]
  BY <1>t, <1>1, <1>4 DEF SizeTypes, BatchStates
<1>6. /\ batches'[b].at = "collect" /\ batches'[b].todo = {}
      /\ batches'[b].jobs = batches[b].jobs \ {j} /\ batches'[b].says = said
  BY <1>t, <1>5 DEF BatchStates
<1>7. SizeTypes'
  BY <1>t, <1>2, <1>5 DEF SizeTypes
<1>8. ASSUME NEW w \in SizeWorkers PROVE WorkerOK(w)'
  BY <1>t, <1>2, <1>3, WorkerKept DEF SizeIInv
<1>9. ASSUME NEW c \in Batches PROVE BatchOK(c)'
  <2>1. CASE c # b
    BY <1>t, <1>3, <1>5, <2>1, BatchKept DEF SizeIInv
  <2>2. CASE c = b
    <3>1. \A k \in batches[b].jobs \ {j} : Issued(k)'
      <4> DEFINE S == batches[b].jobs \ {j}
      <4>1. S \subseteq batches[b].jobs
        OBVIOUS
      <4> HIDE DEF S
      <4>2. \A k \in S : Issued(k)'
        BY <1>t, <1>3, <4>1, JobsKept
      <4> QED
        BY <4>2 DEF S
    <3> QED
      BY <1>6, <2>2, <3>1 DEF BatchOK, Issued
  <2> QED
    BY <2>1, <2>2
<1>10. ASSUME NEW q \in DOMAIN registry' PROVE Owned(q)'
  <2> DEFINE k == [path |-> q, token |-> registry[q]]
  <2>1. Owned(q) /\ registry'[q] = registry[q] /\ entries'[q] = entries[q] /\ j # k
    BY <1>3 DEF SizeIInv
  <2>2. Batched(k) => \E c \in Batches : k \in batches'[c].jobs
    BY <1>5, <1>6, <2>1 DEF Batched
  <2> QED
    BY <1>2, <2>1, <2>2 DEF Owned, Batched, Walked
<1>11. ASSUME NEW q \in awaited' \ refused' PROVE Served(q)'
  <2>1. Served(q)
    BY <1>2 DEF SizeIInv
  <2>2. \A w \in SizeWorkers : Answers(w, q) => Answers(w, q)'
    BY <1>2 DEF Answers, Cancelled
  <2>3. \A c \in Batches : Speaks(c, q) => Speaks(c, q)'
    <3>1. \A c \in Batches \ {b} : Speaks(c, q) => Speaks(c, q)'
      BY <1>2, <1>5 DEF Speaks, Cancelled
    <3>2. Speaks(b, q) => Speaks(b, q)'
      BY <1>t, <1>2, <1>4, <1>6 DEF Speaks, Cancelled
    <3> QED
      BY <3>1, <3>2
  <2>4. q \in DOMAIN registry /\ q \notin DOMAIN registry' => Speaks(b, q)'
    <3>1. Here(j) => ~Cancelled(j)
      BY <1>t DEF Here, TablesAgree, Cancelled
    <3> QED
      BY <1>3, <1>4, <1>6, <3>1 DEF Speaks
  <2>5. q \in DOMAIN registry' => entries'[q] = entries[q]
    BY <1>3
  <2> QED
    BY <2>1, <2>2, <2>3, <2>4, <2>5 DEF Served
<1> QED
  BY <1>3, <1>7, <1>8, <1>9, <1>10, <1>11 DEF SizeIInv

\* A worker takes the first path of the queue: only that path's row changes, and
\* what it owed passes to the worker or stays with its batch.
LEMMA DequeueKeeps ==
  ASSUME SizeIInv, NEW w \in SizeWorkers, Dequeue(w)
  PROVE  SizeIInv'
<1> DEFINE p == Head(queued)
           takes == p \in DOMAIN entries /\ entries[p].payload # "taken"
           walks == takes /\ entries[p].payload = "walk"
           job == [path |-> p, token |-> entries[p].token]
<1>t. /\ SizeTypes /\ TablesTyped /\ TablesAgree /\ WorkerOK(w)
      /\ workers[w] = IdleWorker /\ queued # <<>>
  BY DEF SizeIInv, Dequeue, WorkerOK
<1>1. UNCHANGED <<registry, flagged, tokens, batches, gate, awaited, refused>>
  BY DEF Dequeue
<1>2. /\ queued' = Tail(queued)
      /\ entries' = IF takes THEN [entries EXCEPT ![p].payload = "taken"] ELSE entries
      /\ workers' = IF walks
                      THEN [workers EXCEPT ![w] = [at |-> "check", says |-> FALSE, job |-> job]]
                      ELSE workers
  BY DEF Dequeue
<1>3. /\ p \in Folders /\ queued' \in Seq(Folders)
      /\ \A x \in Range(queued) : x = p \/ x \in Range(queued')
  <2>1. queued \in Seq(Folders) /\ queued # <<>>
    BY <1>t DEF TablesTyped
  <2>2. /\ Tail(queued) \in Seq(Folders) /\ p \in Folders /\ p = queued[1]
        /\ Len(queued) \in Nat /\ Len(Tail(queued)) = Len(queued) - 1
        /\ \A i \in 1..Len(Tail(queued)) : Tail(queued)[i] = queued[i + 1]
    BY <2>1
  <2>3. DOMAIN queued = 1..Len(queued) /\ DOMAIN Tail(queued) = 1..Len(Tail(queued))
    BY <2>1, <2>2
  <2>4. ASSUME NEW i \in DOMAIN queued, i # 1 PROVE queued[i] \in Range(Tail(queued))
    <3>1. i - 1 \in 1..Len(Tail(queued)) /\ (i - 1) + 1 = i
      BY <2>2, <2>3, <2>4
    <3>2. Tail(queued)[i - 1] = queued[i]
      BY <2>2, <3>1
    <3> QED
      BY <2>3, <3>1, <3>2 DEF Range
  <2> QED
    BY <1>2, <2>2, <2>4 DEF Range
<1>4. /\ DOMAIN entries' = DOMAIN registry /\ entries' \in [DOMAIN registry -> Entry]
      /\ \A q \in DOMAIN registry : /\ entries'[q].token = entries[q].token
                                    /\ q # p => entries'[q] = entries[q]
      /\ p \in DOMAIN registry => entries'[p].payload = "taken"
  <2>1. DOMAIN entries = DOMAIN registry /\ entries \in [DOMAIN registry -> Entry]
    BY <1>t DEF TablesTyped
  <2>2. CASE takes
    <3>1. p \in DOMAIN registry /\ entries' = [entries EXCEPT ![p].payload = "taken"]
      BY <1>2, <2>1, <2>2
    <3> HIDE DEF p, takes
    <3> QED
      BY <2>1, <3>1 DEF Entry
  <2>3. CASE ~takes
    BY <1>2, <2>1, <2>3
  <2> QED
    BY <2>2, <2>3
<1>5. TablesTyped' /\ TablesAgree' /\ Moves
  <2>1. TablesTyped'
    BY <1>t, <1>1, <1>3, <1>4 DEF TablesTyped
  <2>2. TablesAgree'
    BY <1>t, <1>1, <1>4 DEF TablesAgree
  <2>3. tokens' \in Nat /\ tokens' >= tokens
    BY <1>t, <1>1 DEF SizeTypes
  <2>4. Moves
    BY <1>1, <1>4, <2>3 DEF Moves
  <2> QED
    BY <2>1, <2>2, <2>4
<1>6. walks => /\ p \in DOMAIN registry /\ entries[p].token = registry[p]
               /\ job \in Jobs /\ Issued(job) /\ ~Cancelled(job)
  <2>1. ASSUME walks PROVE p \in DOMAIN registry /\ entries[p].token = registry[p]
    BY <1>t, <2>1 DEF TablesTyped, TablesAgree
  <2> QED
    BY <1>t, <1>3, <2>1 DEF TablesTyped, TablesAgree, Jobs, Issued, Cancelled
<1>7. /\ workers' \in [SizeWorkers -> WorkerStates]
      /\ \A v \in SizeWorkers \ {w} : workers'[v] = workers[v]
      /\ walks => workers'[w] = [at |-> "check", says |-> FALSE, job |-> job]
      /\ ~walks => workers'[w] = workers[w]
  <2> HIDE DEF walks, job
  <2> QED
    BY <1>t, <1>2, <1>6 DEF SizeTypes, WorkerStates
<1>8. SizeTypes'
  BY <1>t, <1>1, <1>7 DEF SizeTypes
<1>9. ASSUME NEW v \in SizeWorkers PROVE WorkerOK(v)'
  <2>1. CASE v # w \/ ~walks
    <3>1. workers'[v] = workers[v]
      BY <1>7, <2>1
    <3> QED
      BY <1>t, <1>5, <3>1, WorkerKept DEF SizeIInv
  <2>2. CASE v = w /\ walks
    <3>1. PICK k \in Jobs : k = job
      BY <1>6, <2>2
    <3>2. Issued(k)' /\ k.path = p
      BY <1>t, <1>5, <1>6, <2>2, <3>1, IssuedKept
    <3>3. workers'[w] = [at |-> "check", says |-> FALSE, job |-> k]
      BY <1>7, <2>2, <3>1
    <3>4. workers'[w].at = "check" /\ workers'[w].says = FALSE /\ workers'[w].job = k
      BY <3>3
    <3>5. entries'[k.path].payload = "taken"
      BY <1>4, <1>6, <2>2, <3>2
    <3> QED
      BY <2>2, <3>1, <3>2, <3>4, <3>5 DEF WorkerOK, Issued, Here
  <2> QED
    BY <2>1, <2>2
<1>10. ASSUME NEW b \in Batches PROVE BatchOK(b)'
  BY <1>t, <1>1, <1>5, BatchKept DEF SizeIInv
<1>11. ASSUME NEW q \in DOMAIN registry' PROVE Owned(q)'
  <2> DEFINE k == [path |-> q, token |-> registry[q]]
  <2>1. Owned(q) /\ q \in DOMAIN registry /\ q \in Folders /\ entries[q] \in Entry
    BY <1>t, <1>1 DEF SizeIInv, TablesTyped
  <2>2. Walked(k) => Walked(k)'
    <3>1. \A v \in SizeWorkers : workers[v].job = k => v # w
      BY <1>t, <2>1, SizeAssumption DEF IdleWorker, NoJob, SizeAssumption
    <3>2. \A v \in SizeWorkers : workers[v].job = k => workers'[v].job = k
      BY <1>7, <3>1
    <3> QED
      BY <1>1, <3>2 DEF Walked
  <2>3. Batched(k)' <=> Batched(k)
    BY <1>1 DEF Batched
  <2>4. CASE q # p
    BY <1>1, <1>3, <1>4, <2>1, <2>2, <2>3, <2>4 DEF Owned
  <2>5. CASE q = p
    <3>1. entries'[q].payload = "taken"
      BY <1>4, <2>1, <2>5
    <3>2. CASE walks
      <4>1. workers'[w].job = k
        BY <1>6, <1>7, <2>5, <3>2
      <4>2. Walked(k)'
        BY <1>1, <4>1 DEF Walked
      <4> QED
        BY <1>1, <3>1, <4>2 DEF Owned
    <3>3. CASE ~walks
      <4>1. entries[q].payload \in {"everything", "taken"}
        BY <1>t, <2>1, <2>5, <3>3 DEF Entry, TablesTyped
      <4> QED
        BY <1>1, <2>1, <2>2, <2>3, <3>1, <4>1 DEF Owned
    <3> QED
      BY <3>2, <3>3
  <2> QED
    BY <2>4, <2>5
<1>12. ASSUME NEW q \in awaited' \ refused' PROVE Served(q)'
  <2>1. Served(q) /\ q \in Folders
    BY <1>t, <1>1 DEF SizeIInv, SizeTypes
  <2>2. \A b \in Batches : Speaks(b, q) => Speaks(b, q)'
    BY <1>1 DEF Speaks, Cancelled
  <2>3. \A v \in SizeWorkers : Answers(v, q) => Answers(v, q)'
    <3>1. ~Answers(w, q)
      BY <1>t, <2>1, SizeAssumption DEF Answers, IdleWorker, NoJob, SizeAssumption
    <3> QED
      BY <1>1, <1>7, <3>1 DEF Answers, Cancelled
  <2>4. ASSUME q \in DOMAIN registry, entries[q].payload = "walk"
        PROVE  Answers(w, q)' \/ (q \in DOMAIN registry' /\ entries'[q].payload = "walk")
    <3>1. CASE q = p
      <4>1. walks
        BY <1>t, <2>4, <3>1 DEF TablesTyped
      <4>2. workers'[w].at = "check" /\ workers'[w].job = job
        BY <1>7, <4>1
      <4> QED
        BY <1>1, <1>6, <3>1, <4>1, <4>2 DEF Answers, Cancelled
    <3>2. CASE q # p
      BY <1>1, <1>4, <2>4, <3>2
    <3> QED
      BY <3>1, <3>2
  <2> QED
    BY <2>1, <2>2, <2>3, <2>4 DEF Served
<1> QED
  BY <1>5, <1>8, <1>9, <1>10, <1>11, <1>12 DEF SizeIInv

\* Cancelled jobs leave every table; a job that stays has another token.
LEMMA CancelSizesKeeps ==
  ASSUME SizeIInv, NEW S \in SUBSET Folders, CancelSizes(S)
  PROVE  SizeIInv'
<1> DEFINE mine == S \cap DOMAIN registry
           D == DOMAIN registry \ mine
<1>t. SizeTypes /\ TablesTyped /\ TablesAgree
  BY DEF SizeIInv
<1>1. /\ flagged' = flagged \cup {registry[p] : p \in mine}
      /\ registry' = Only(registry, D) /\ entries' = Only(entries, D)
      /\ queued' = Keep(queued, Folders \ mine) /\ awaited' = awaited \ S
      /\ UNCHANGED <<tokens, workers, batches, gate, refused>>
  BY <1>t DEF CancelSizes, TablesTyped
<1>2. queued' \in Seq(Folders) /\ Range(queued') = Range(queued) \cap (Folders \ mine)
  <2> HIDE DEF mine
  <2> QED
    BY <1>t, <1>1, KeepFacts DEF TablesTyped
<1>3. /\ TablesTyped' /\ DOMAIN registry' = D
      /\ \A p \in D : registry'[p] = registry[p] /\ entries'[p] = entries[p]
  <2>1. D \in SUBSET DOMAIN registry
    OBVIOUS
  <2> HIDE DEF D
  <2> QED
    BY <1>t, <1>1, <1>2, <2>1, Shrink
<1>4. flagged' \subseteq 1..tokens
  <2>1. ASSUME NEW p \in mine PROVE registry[p] \in 1..tokens
    BY <1>t DEF TablesAgree, TablesTyped, Tokens, SizeTypes
  <2> QED
    BY <1>t, <1>1, <2>1 DEF SizeTypes
<1>5. SizeTypes'
  BY <1>t, <1>1, <1>4 DEF SizeTypes
<1>6. TablesAgree'
  <2>1. \A p \in D : registry[p] \notin flagged'
    BY <1>t, <1>1 DEF TablesAgree
  <2>2. tokens' = tokens /\ D \subseteq DOMAIN registry
    BY <1>1
  <2> HIDE DEF D
  <2> QED
    BY <1>t, <1>3, <2>1, <2>2 DEF TablesAgree
<1>7. Moves
  <2>1. tokens' \in Nat /\ tokens' >= tokens
    BY <1>t, <1>1 DEF SizeTypes
  <2> QED
    BY <1>1, <1>3, <2>1 DEF Moves
<1>8. ASSUME NEW w \in SizeWorkers PROVE WorkerOK(w)'
  BY <1>t, <1>1, <1>7, WorkerKept DEF SizeIInv
<1>9. ASSUME NEW b \in Batches PROVE BatchOK(b)'
  BY <1>t, <1>1, <1>7, BatchKept DEF SizeIInv
<1>10. ASSUME NEW q \in DOMAIN registry' PROVE Owned(q)'
  <2>1. /\ Owned(q) /\ q \in Folders \ mine
        /\ registry'[q] = registry[q] /\ entries'[q] = entries[q]
    BY <1>t, <1>3 DEF SizeIInv, TablesTyped
  <2>2. q \in Range(queued) => q \in Range(queued')
    BY <1>2, <2>1
  <2> QED
    BY <1>1, <2>1, <2>2 DEF Owned, Batched, Walked
<1>11. ASSUME NEW q \in awaited' \ refused' PROVE Served(q)'
  <2>1. Served(q) /\ q \notin S /\ q \in Folders
    BY <1>t, <1>1 DEF SizeIInv, SizeTypes
  <2>2. ASSUME NEW j, Issued(j), j.path = q PROVE Cancelled(j)' => Cancelled(j)
    BY <1>1, <2>1, <2>2 DEF Issued, Cancelled
  <2>3. ASSUME NEW b \in Batches, Speaks(b, q) PROVE Speaks(b, q)'
    <3>1. \A j \in batches[b].jobs : Issued(j)
      BY DEF SizeIInv, BatchOK
    <3>2. \A j \in batches[b].jobs : j.path = q /\ ~Cancelled(j) => ~Cancelled(j)'
      BY <2>2, <3>1
    <3> QED
      BY <1>1, <2>3, <3>2 DEF Speaks, Cancelled
  <2>4. ASSUME NEW w \in SizeWorkers, Answers(w, q) PROVE Answers(w, q)'
    <3>1. workers[w].job.path = q
      BY <2>4 DEF Answers
    <3>2. WorkerOK(w) /\ workers[w].at # "next"
      BY <2>1, <3>1, SizeAssumption DEF SizeIInv, WorkerOK, IdleWorker, NoJob, SizeAssumption
    <3>3. Issued(workers[w].job)
      BY <3>2 DEF WorkerOK
    <3>4. PICK j : j = workers[w].job
      OBVIOUS
    <3>5. Cancelled(j)' => Cancelled(j)
      BY <2>2, <3>1, <3>3, <3>4
    <3> QED
      BY <1>1, <2>4, <3>4, <3>5 DEF Answers, Cancelled
  <2>5. q \in DOMAIN registry => q \in DOMAIN registry' /\ entries'[q] = entries[q]
    BY <1>3, <2>1
  <2> QED
    BY <2>1, <2>3, <2>4, <2>5 DEF Served
<1> QED
  BY <1>3, <1>5, <1>6, <1>8, <1>9, <1>10, <1>11 DEF SizeIInv

\* One path of a batch joins the job there is, gets its own, or is rejected.
LEMMA EnrollKeeps ==
  ASSUME SizeIInv, NEW b \in Batches, Enroll(b)
  PROVE  SizeIInv'
<1>t. /\ SizeTypes /\ TablesTyped /\ TablesAgree /\ BatchOK(b)
      /\ batches[b] \in BatchStates /\ batches[b].at = "register"
  BY DEF SizeIInv, SizeTypes, Enroll
<1>1. PICK p \in batches[b].todo :
       \/ Coalesces(p) /\ Enrolled(b, p, registry[p]) /\ Untouched /\ UNCHANGED refused
       \/ ~Coalesces(p) /\ HasRoom(p) /\ Schedule(p, "everything") /\ Enrolled(b, p, tokens')
          /\ refused' = refused \ {p}
       \/ ~Coalesces(p) /\ ~HasRoom(p) /\ Untouched /\ UNCHANGED refused
          /\ batches' = [batches EXCEPT ![b].todo = @ \ {p}, ![b].says = @ \cup {p}]
  BY DEF Enroll
<1>2. p \in Folders /\ UNCHANGED <<flagged, workers, gate, awaited>>
  BY <1>t DEF BatchStates, Enroll
<1>3. ASSUME NEW t \in Tokens, Enrolled(b, p, t)
      PROVE  /\ batches' \in [Batches -> BatchStates]
             /\ \A c \in Batches \ {b} : batches'[c] = batches[c]
             /\ batches'[b].at = "register" /\ batches'[b].todo = batches[b].todo \ {p}
             /\ batches'[b].jobs = batches[b].jobs \cup {[path |-> p, token |-> t]}
             /\ batches'[b].says = batches[b].says
  <2>1. PICK k \in Jobs : k = [path |-> p, token |-> t]
    BY <1>2 DEF Jobs
  <2>2. batches' = [batches EXCEPT ![b].todo = @ \ {p}, ![b].jobs = @ \cup {k}]
    BY <1>3, <2>1 DEF Enrolled
  <2>3. /\ batches'[b] = [batches[b] EXCEPT !.todo = batches[b].todo \ {p},
                                            !.jobs = batches[b].jobs \cup {k}]
        /\ batches' \in [Batches -> BatchStates]
        /\ \A c \in Batches \ {b} : batches'[c] = batches[c]
    BY <1>t, <2>2 DEF SizeTypes, BatchStates
  <2> QED
    BY <1>t, <2>1, <2>3 DEF BatchStates
<1>4. CASE Coalesces(p) /\ Enrolled(b, p, registry[p]) /\ Untouched /\ UNCHANGED refused
  <2> DEFINE j == [path |-> p, token |-> registry[p]]
  <2>1. registry[p] \in Tokens /\ Issued(j) /\ ~Cancelled(j)
    BY <1>t, <1>4 DEF Coalesces, TablesTyped, TablesAgree, Issued, Cancelled
  <2>2. /\ batches' \in [Batches -> BatchStates]
        /\ \A c \in Batches \ {b} : batches'[c] = batches[c]
        /\ batches'[b].at = "register" /\ batches'[b].todo = batches[b].todo \ {p}
        /\ batches'[b].jobs = batches[b].jobs \cup {j}
        /\ batches'[b].says = batches[b].says
    BY <1>3, <1>4, <2>1
  <2>3. \A k \in batches'[b].jobs : Issued(k)
    BY <1>t, <2>1, <2>2 DEF BatchOK
  <2>4. UNCHANGED <<registry, entries, queued, flagged, tokens, workers, refused, gate, awaited>>
    BY <1>2, <1>4 DEF Untouched
  <2>5. ASSUME NEW q \in awaited' PROVE Speaks(b, q)' \/ (q \in awaited /\ ~Speaks(b, q))
    <3>1. q \in awaited
      BY <2>4
    <3>2. CASE q = p
      BY <2>1, <2>2, <2>4, <3>2 DEF Speaks, Cancelled
    <3>3. CASE q # p
      BY <2>2, <2>4, <3>1, <3>3 DEF Speaks, Cancelled
    <3> QED
      BY <3>2, <3>3
  <2>6. gate' \in Batches \cup {"free"} /\ awaited' \subseteq Folders
    BY <1>t, <2>4 DEF SizeTypes
  <2> QED
    BY <2>2, <2>3, <2>4, <2>5, <2>6, BatchStep
<1>5. CASE Untouched /\ UNCHANGED refused
           /\ batches' = [batches EXCEPT ![b].todo = @ \ {p}, ![b].says = @ \cup {p}]
  <2>1. /\ batches'[b] = [batches[b] EXCEPT !.todo = batches[b].todo \ {p},
                                            !.says = batches[b].says \cup {p}]
        /\ batches' \in [Batches -> BatchStates]
        /\ \A c \in Batches \ {b} : batches'[c] = batches[c]
    BY <1>t, <1>2, <1>5 DEF SizeTypes, BatchStates
  <2>2. /\ batches'[b].at = "register" /\ batches'[b].todo = batches[b].todo \ {p}
        /\ batches'[b].jobs = batches[b].jobs /\ batches'[b].says = batches[b].says \cup {p}
    BY <1>t, <2>1 DEF BatchStates
  <2>3. \A k \in batches'[b].jobs : Issued(k)
    BY <1>t, <2>2 DEF BatchOK
  <2>4. UNCHANGED <<registry, entries, queued, flagged, tokens, workers, refused, gate, awaited>>
    BY <1>2, <1>5 DEF Untouched
  <2>5. \A q \in awaited' : Speaks(b, q)' \/ (q \in awaited /\ ~Speaks(b, q))
    BY <2>2, <2>4 DEF Speaks, Cancelled
  <2>6. gate' \in Batches \cup {"free"} /\ awaited' \subseteq Folders
    BY <1>t, <2>4 DEF SizeTypes
  <2> QED
    BY <2>1, <2>2, <2>3, <2>4, <2>5, <2>6, BatchStep
<1>6. CASE ~Coalesces(p) /\ HasRoom(p) /\ Schedule(p, "everything") /\ Enrolled(b, p, tokens')
           /\ refused' = refused \ {p}
  <2>1. /\ tokens' = tokens + 1 /\ tokens' \in 1..MaxJobs
        /\ DOMAIN registry' = DOMAIN registry \cup {p} /\ p \notin DOMAIN registry
        /\ registry'[p] = tokens' /\ entries'[p] = [token |-> tokens', payload |-> "everything"]
        /\ \A q \in DOMAIN registry : registry'[q] = registry[q] /\ entries'[q] = entries[q]
    BY <1>t, <1>2, <1>6, ScheduleAdds
  <2>2. PICK t \in Tokens : t = tokens'
    BY <2>1 DEF Tokens
  <2> DEFINE j == [path |-> p, token |-> t]
  <2>3. /\ batches' \in [Batches -> BatchStates]
        /\ \A c \in Batches \ {b} : batches'[c] = batches[c]
        /\ batches'[b].at = "register" /\ batches'[b].todo = batches[b].todo \ {p}
        /\ batches'[b].jobs = batches[b].jobs \cup {j}
        /\ batches'[b].says = batches[b].says
    BY <1>3, <1>6, <2>2
  <2>4. /\ \A c \in Batches : batches[c].jobs \subseteq batches'[c].jobs
        /\ j \in batches'[b].jobs
    BY <2>3
  <2>5. /\ TablesTyped' /\ TablesAgree' /\ Moves
        /\ \A w \in SizeWorkers : WorkerOK(w)'
        /\ \A q \in DOMAIN registry' : Owned(q)'
    BY <1>2, <1>6, <2>2, <2>4, ScheduleKeeps
  <2>6. SizeTypes'
    <3>1. \A x \in 1..tokens : x \in 1..tokens'
      BY <1>t, <2>1 DEF SizeTypes
    <3> QED
      BY <1>t, <1>2, <1>6, <2>1, <2>3, <3>1 DEF SizeTypes
  <2>7. ASSUME NEW c \in Batches PROVE BatchOK(c)'
    <3>1. CASE c # b
      BY <1>t, <2>3, <2>5, <3>1, BatchKept DEF SizeIInv
    <3>2. CASE c = b
      <4> DEFINE S == batches[b].jobs
      <4>1. \A k \in S : Issued(k)'
        <5>1. S \subseteq batches[b].jobs
          OBVIOUS
        <5> HIDE DEF S
        <5> QED
          BY <1>t, <2>5, <5>1, JobsKept
      <4>2. Issued(j)'
        <5>1. t <= tokens'
          BY <2>2 DEF Tokens
        <5>2. \A q \in DOMAIN registry' : registry'[q] = t => q = p
          BY <2>1, <2>2, <2>5 DEF TablesAgree
        <5> QED
          BY <5>1, <5>2 DEF Issued
      <4> QED
        BY <2>3, <3>2, <4>1, <4>2 DEF BatchOK, Issued
    <3> QED
      BY <3>1, <3>2
  <2>8. ASSUME NEW q \in awaited' \ refused' PROVE Served(q)'
    <3>1. CASE q = p
      <4>1. t \notin flagged'
        BY <2>1, <2>2, <2>5 DEF TablesAgree
      <4>2. Speaks(b, q)'
        BY <2>4, <3>1, <4>1 DEF Speaks, Cancelled
      <4> QED
        BY <4>2 DEF Served
    <3>2. CASE q # p
      <4>1. Served(q)
        BY <1>2, <1>6, <3>2 DEF SizeIInv
      <4>2. \A c \in Batches : Speaks(c, q) => Speaks(c, q)'
        <5>1. \A c \in Batches \ {b} : Speaks(c, q) => Speaks(c, q)'
          BY <1>2, <2>3 DEF Speaks, Cancelled
        <5>2. Speaks(b, q) => Speaks(b, q)'
          BY <1>2, <2>3, <3>2 DEF Speaks, Cancelled
        <5> QED
          BY <5>1, <5>2
      <4>3. \A w \in SizeWorkers : Answers(w, q) => Answers(w, q)'
        BY <1>2 DEF Answers, Cancelled
      <4> QED
        BY <2>1, <4>1, <4>2, <4>3 DEF Served
    <3> QED
      BY <3>1, <3>2
  <2> QED
    BY <2>5, <2>6, <2>7, <2>8 DEF SizeIInv
<1> QED
  BY <1>1, <1>4, <1>5, <1>6

-----------------------------------------------------------------------------
(* Folder sizes: the result.                                               *)

LEMMA SizeStarts == SizeInit => SizeIInv
<1> SUFFICES ASSUME SizeInit PROVE SizeIInv
  OBVIOUS
<1>1. DOMAIN registry = {} /\ DOMAIN entries = {}
  BY DEF SizeInit
<1>2. TablesTyped
  <2>1. IsFiniteSet({}) /\ Cardinality({}) = 0
    BY FS_EmptySet
  <2>2. registry \in [{} -> Tokens] /\ entries \in [{} -> Entry] /\ queued \in Seq(Folders)
    BY DEF SizeInit
  <2> QED
    BY <1>1, <2>1, <2>2, SizeAssumption DEF TablesTyped, SizeAssumption
<1>3. SizeTypes
  <2>1. IdleWorker \in WorkerStates /\ NoBatch \in BatchStates
    BY DEF IdleWorker, WorkerStates, NoBatch, BatchStates
  <2> QED
    BY <2>1, SizeAssumption DEF SizeInit, SizeTypes, SizeAssumption
<1>4. \A w \in SizeWorkers : WorkerOK(w)
  BY <1>1 DEF SizeInit, WorkerOK, IdleWorker, Here
<1>5. \A b \in Batches : BatchOK(b)
  BY DEF SizeInit, BatchOK, NoBatch
<1> QED
  BY <1>1, <1>2, <1>3, <1>4, <1>5 DEF SizeIInv, SizeInit, TablesAgree

LEMMA SizeStutters ==
  ASSUME SizeIInv, UNCHANGED sizeVars
  PROVE  SizeIInv'
<1>1. /\ registry' = registry /\ entries' = entries /\ queued' = queued /\ flagged' = flagged
      /\ tokens' = tokens /\ workers' = workers /\ batches' = batches /\ gate' = gate
      /\ awaited' = awaited /\ refused' = refused
  BY DEF sizeVars
<1>2. TablesTyped' /\ SizeTypes' /\ TablesAgree'
  BY <1>1 DEF SizeIInv, TablesTyped, SizeTypes, TablesAgree
<1>3. /\ \A w \in SizeWorkers : WorkerOK(w)'
      /\ \A b \in Batches : BatchOK(b)'
      /\ \A q \in DOMAIN registry' : Owned(q)'
  BY <1>1 DEF SizeIInv, WorkerOK, BatchOK, Owned, Issued, Here, Batched, Walked
<1>4. ASSUME NEW q \in awaited' \ refused' PROVE Served(q)'
  <2>1. Served(q)
    BY <1>1 DEF SizeIInv
  <2> QED
    BY <1>1, <2>1 DEF Served, Speaks, Answers, Cancelled
<1> QED
  BY <1>2, <1>3, <1>4 DEF SizeIInv

\* What a reader is promised follows from the invariant.
LEMMA SizeIInvSuffices == SizeIInv => SizeInv
<1> SUFFICES ASSUME SizeIInv PROVE SizeInv
  OBVIOUS
<1>t. TablesTyped /\ SizeTypes /\ TablesAgree
  BY DEF SizeIInv
<1>1. SizeTypeOK
  <2>1. /\ registry \in UNION {[S -> Tokens] : S \in SUBSET Folders}
        /\ entries \in UNION {[S -> Entry] : S \in SUBSET Folders}
    BY <1>t DEF TablesTyped
  <2>2. flagged \subseteq Tokens /\ tokens \in 0..MaxJobs
    <3>1. \A x \in 1..tokens : x \in Tokens
      BY <1>t, SizeAssumption DEF SizeTypes, Tokens, SizeAssumption
    <3> QED
      BY <1>t, <3>1 DEF SizeTypes
  <2> QED
    BY <1>t, <2>1, <2>2 DEF SizeTypeOK, TablesTyped, SizeTypes, Entry, WorkerStates, BatchStates
<1>2. SlotsAreOwned
  <2>1. DOMAIN registry = DOMAIN entries
    BY <1>t DEF TablesTyped
  <2>2. ASSUME NEW p \in DOMAIN entries
        PROVE  LET j == [path |-> p, token |-> entries[p].token]
                   batched == \E b \in Batches : j \in batches[b].jobs IN
               /\ registry[p] = j.token /\ ~Cancelled(j)
               /\ CASE entries[p].payload = "walk" -> p \in Range(queued)
                    [] entries[p].payload = "everything" -> p \in Range(queued) /\ batched
                    [] OTHER -> batched \/ \E w \in SizeWorkers : workers[w].job = j
    <3>1. Owned(p) /\ entries[p].token = registry[p] /\ registry[p] \notin flagged
      BY <1>t, <2>1, <2>2 DEF SizeIInv, TablesAgree
    <3>2. entries[p].payload \in {"walk", "everything", "taken"}
      BY <1>t, <2>1, <2>2 DEF TablesTyped, Entry
    <3> QED
      BY <3>1, <3>2 DEF Owned, Batched, Walked, Cancelled
  <2> QED
    BY <2>1, <2>2 DEF SlotsAreOwned
<1>3. AwaitedIsServed
  <2>1. ASSUME NEW p \in awaited \ refused PROVE WillAnswer(p)
    <3>1. Served(p)
      BY DEF SizeIInv
    <3>2. p \in DOMAIN registry /\ entries[p].payload = "walk" =>
            p \in DOMAIN entries /\ p \in Range(queued)
      BY <1>t DEF SizeIInv, TablesTyped, Owned
    <3> QED
      BY <3>1, <3>2 DEF Served, Speaks, Answers, WillAnswer
  <2> QED
    BY <2>1 DEF AwaitedIsServed
<1> QED
  BY <1>1, <1>2, <1>3 DEF SizeInv

\* For any folders, workers, batches and capacity: neither cancelling, coalescing
\* nor rejecting leaks a slot of the scheduler, and a path a pane shows as being
\* calculated has an answer coming (size/mod.rs, size/scheduler.rs).
THEOREM SizesServed == SizeSpec => []SizeInv
<1>1. SizeIInv /\ [SizeNext]_sizeVars => SizeIInv'
  <2> SUFFICES ASSUME SizeIInv, [SizeNext]_sizeVars PROVE SizeIInv'
    OBVIOUS
  <2>1. ASSUME NEW p \in Folders, RequestWalk(p) PROVE SizeIInv'
    BY <2>1, RequestWalkKeeps
  <2>2. ASSUME NEW S \in SUBSET Folders, CancelSizes(S) PROVE SizeIInv'
    BY <2>2, CancelSizesKeeps
  <2>3. ASSUME NEW b \in Batches, NEW S \in SUBSET Folders, RequestBatch(b, S) PROVE SizeIInv'
    BY <2>3, RequestBatchKeeps
  <2>4. ASSUME NEW b \in Batches, Enroll(b) PROVE SizeIInv'
    BY <2>4, EnrollKeeps
  <2>5. ASSUME NEW b \in Batches, SpawnBatch(b) PROVE SizeIInv'
    BY <2>5, SpawnBatchKeeps
  <2>6. ASSUME NEW b \in Batches, EnterGate(b) \/ Query(b) \/ EmitBatch(b) PROVE SizeIInv'
    BY <2>6, BatchRunKeeps
  <2>7. ASSUME NEW b \in Batches, Collect(b) PROVE SizeIInv'
    BY <2>7, CollectKeeps
  <2>8. ASSUME NEW w \in SizeWorkers, Dequeue(w) PROVE SizeIInv'
    BY <2>8, DequeueKeeps
  <2>9. ASSUME NEW w \in SizeWorkers, CheckJob(w) PROVE SizeIInv'
    BY <2>9, CheckJobKeeps
  <2>10. ASSUME NEW w \in SizeWorkers, AdmitJob(w) PROVE SizeIInv'
    BY <2>10, AdmitJobKeeps
  <2>11. ASSUME NEW w \in SizeWorkers, Walk(w) PROVE SizeIInv'
    BY <2>11, WalkKeeps
  <2>12. ASSUME NEW w \in SizeWorkers, CompleteWalk(w) PROVE SizeIInv'
    BY <2>12, CompleteWalkKeeps
  <2>13. ASSUME NEW w \in SizeWorkers, EmitSize(w) PROVE SizeIInv'
    BY <2>13, EmitSizeKeeps
  <2>14. CASE UNCHANGED sizeVars
    BY <2>14, SizeStutters
  <2> QED
    BY <2>1, <2>2, <2>3, <2>4, <2>5, <2>6, <2>7, <2>8, <2>9, <2>10, <2>11, <2>12, <2>13, <2>14
       DEF SizeNext
<1> QED
  BY <1>1, SizeStarts, SizeIInvSuffices, PTL DEF SizeSpec

-----------------------------------------------------------------------------
(* Item counts: the invariant.                                             *)

CountKeys   == Listed \X Nat
CountValues == {"pending", "exact", "unavailable"}
CacheOK(c)  == Facts!Exact(c, CountKeys, CountValues) /\ Cache!WithinLimits(c)

States   == [token : Nat, ctx : Nat, requested : Seq(Listed)]
Work     == [scope : Scopes, token : Nat, ctx : Nat, gen : Nat, paths : Seq(Listed)]
Plans    == {p \in Work : p.paths # <<>>}

Moments  == Holding \cup {"none", "peek", "reclaim", "done", "answer", "ready",
                         "superseded"}

CountTyped ==
  /\ automatic \in [Scopes -> States] /\ explicit \in [Scopes -> States]
  /\ plans \in Seq(Plans) /\ CacheOK(counts)
  /\ slots \in Nat /\ revision \in 1..MaxRevisions /\ asked \in 0..MaxRequests
  /\ newest \in [Scopes -> Nat]
  /\ thread \in [Counters -> Moments] /\ work \in [Counters -> Work \cup {NoPlan}]
  /\ at \in [Counters -> Nat]

\* The plan in the main thread's hands has folders, and a thread that counts is
\* at one of its work's.
CountPlaced ==
  /\ main.does = "push" => main.plan \in Plans
  /\ \A t \in Counters :
       /\ thread[t] = "release" => work[t] \in Work
       /\ thread[t] \in {"check", "lookup", "reading"} =>
            work[t] \in Work /\ at[t] \in 1..Len(work[t].paths)

\* The drainer that a push may spawn is yet to be spawned.
CountFresh ==
  /\ \A t \in Drainers : t > asked => thread[t] = "none"
  /\ main.does \in {"push", "claim"} => asked \in Drainers /\ thread[asked] = "none"

CountQueued ==
  /\ Len(plans) <= CountQueueCap
  /\ \A i, j \in DOMAIN plans : plans[i].scope = plans[j].scope => i = j
  /\ \A s \in Scopes : Len(automatic[s].requested) <= CountLimit

\* What is read is pending, or its mark is lost.
CountMarked ==
  \A t \in Counters : thread[t] = "reading" => Key(t) \in Pending(counts) \cup spoiled

CountIInv ==
  /\ CountTyped /\ CountPlaced /\ CountFresh /\ CountQueued
  /\ SlotsExact /\ NoStrandedPlan /\ SingleFlight /\ CountMarked

-----------------------------------------------------------------------------
(* Item counts: the cache.                                                 *)

LEMMA CacheStarts == CacheOK(Cache!Empty)
<1>1. CountCacheCap \in Nat
  BY CountAssumption
<1>2. /\ Facts!Exact(Facts!Empty, CountKeys, CountValues)
      /\ Facts!WithinLimits(Facts!Empty)
  BY <1>1, Facts!EmptyExact
<1> QED
  BY <1>2, SameCache DEF CacheOK

LEMMA CacheInsert ==
  ASSUME NEW c, CacheOK(c), NEW k \in CountKeys, NEW v \in CountValues
  PROVE  /\ CacheOK(Cache!Insert(c, k, v, 1))
         /\ v = "pending" => k \in Pending(Cache!Insert(c, k, v, 1))
<1> DEFINE d == Facts!Insert(c, k, v, 1)
           row == [key |-> k, value |-> v, weight |-> 1]
<1>1. CountCacheCap \in Nat /\ CountCacheCap >= 1 /\ 1 \in Nat /\ 1 <= CountCacheCap
  BY CountAssumption
<1>2. Facts!Exact(c, CountKeys, CountValues)
  BY DEF CacheOK
<1>3. /\ Facts!Exact(d, CountKeys, CountValues) /\ Facts!WithinLimits(d)
      /\ (CountCacheCap >= 1 /\ 1 <= CountCacheCap) => row \in Facts!Range(d.items)
  BY <1>1, <1>2, Facts!InsertExact
<1>4. Cache!Insert(c, k, v, 1) = d
  BY SameCache
<1>5. CacheOK(d)
  BY <1>3, SameCache DEF CacheOK
<1>6. v = "pending" => k \in Pending(d)
  <2>1. row \in Range(d.items)
    BY <1>1, <1>3 DEF Range, Facts!Range
  <2>2. row.key = k /\ row.value = v
    OBVIOUS
  <2> HIDE DEF d, row
  <2> QED
    BY <2>1, <2>2 DEF Pending
<1> QED
  BY <1>4, <1>5, <1>6

LEMMA CacheTouch ==
  ASSUME NEW c, CacheOK(c), NEW k
  PROVE  CacheOK(Cache!Touch(c, k)) /\ Pending(Cache!Touch(c, k)) = Pending(c)
<1> DEFINE d == Facts!Touch(c, k)
<1>1. Facts!Exact(c, CountKeys, CountValues) /\ Facts!WithinLimits(c)
  BY SameCache DEF CacheOK
<1>2. /\ Facts!Exact(d, CountKeys, CountValues) /\ Facts!WithinLimits(d)
      /\ Facts!Range(d.items) = Facts!Range(c.items)
  BY <1>1, Facts!TouchExact
<1>3. Cache!Touch(c, k) = d
  BY SameCache
<1>4. Range(d.items) = Range(c.items)
  BY <1>2 DEF Range, Facts!Range
<1> HIDE DEF d
<1>5. Pending(d) = Pending(c)
  BY <1>4 DEF Pending
<1> QED
  BY <1>2, <1>3, <1>5, SameCache DEF CacheOK

LEMMA CacheRetain ==
  ASSUME NEW c, CacheOK(c), NEW keys
  PROVE  CacheOK(Cache!Retain(c, keys))
<1>1. CountCacheCap \in Nat
  BY CountAssumption
<1>2. Facts!Exact(c, CountKeys, CountValues) /\ Facts!WithinLimits(c)
  BY SameCache DEF CacheOK
<1>3. Facts!Exact(Facts!Retain(c, keys), CountKeys, CountValues)
  BY <1>2, Facts!RetainExact
<1>4. Facts!WithinLimits(Facts!Retain(c, keys))
  BY <1>1, <1>2, Facts!RetainKeepsLimits
<1> QED
  BY <1>3, <1>4, SameCache DEF CacheOK

\* What is not known is not pending.
LEMMA UnknownIsFree ==
  ASSUME CacheOK(counts), NEW k, Known(k) = "unknown"
  PROVE  k \notin Pending(counts)
<1>1. PICK s \in Seq(Facts!Rows(CountKeys, CountValues)) : s = counts.items
  BY DEF CacheOK, Facts!Exact
<1>2. ~Cache!Has(counts, k)
  <2> SUFFICES ASSUME Cache!Has(counts, k) PROVE FALSE
    OBVIOUS
  <2> DEFINE i == CHOOSE i \in DOMAIN s : s[i].key = k
  <2>1. i \in DOMAIN s
    BY <1>1 DEF Cache!Has, Cache!Keys
  <2>2. Known(k) = s[i].value
    BY <1>1 DEF Known, Cache!Value, Cache!Record
  <2> HIDE DEF i
  <2>3. s[i] \in Facts!Rows(CountKeys, CountValues)
    BY <2>1
  <2>4. s[i].value \in CountValues
    BY <2>3 DEF Facts!Rows
  <2> QED
    BY <2>2, <2>4 DEF CountValues
<1> QED
  BY <1>2 DEF Pending, Cache!Has, Cache!Keys, Range

-----------------------------------------------------------------------------
(* Item counts: what a step leaves alone.                                  *)

Coming == Holding \cup {"peek", "reclaim"}

\* What is read stays marked while no further thread reads.
LEMMA MarkedKept ==
  ASSUME SingleFlight, CountMarked,
         \A t \in Counters : thread'[t] = "reading" =>
           thread[t] = "reading" /\ work'[t] = work[t] /\ at'[t] = at[t],
         spoiled \subseteq spoiled',
         Pending(counts) \cup spoiled \subseteq Pending(counts') \cup spoiled'
  PROVE  SingleFlight' /\ CountMarked'
<1>1. \A t \in Counters : thread'[t] = "reading" => thread[t] = "reading" /\ Key(t)' = Key(t)
  BY DEF Key
<1>2. CountMarked'
  <2> SUFFICES ASSUME NEW t \in Counters, thread'[t] = "reading"
               PROVE  Key(t)' \in Pending(counts') \cup spoiled'
    BY DEF CountMarked
  <2> QED
    BY <1>1 DEF CountMarked
<1>3. SingleFlight'
  <2> SUFFICES ASSUME NEW t \in Counters, NEW u \in Counters, thread'[t] = "reading",
                      thread'[u] = "reading", Key(t)' = Key(u)'
               PROVE  t = u \/ Key(t)' \in spoiled'
    BY DEF SingleFlight
  <2> QED
    BY <1>1 DEF SingleFlight
<1> QED
  BY <1>2, <1>3

\* A plan that waits has somebody to come while those who would come still do.
LEMMA StrandedKept ==
  ASSUME NoStrandedPlan, plans' # <<>> => plans # <<>>,
         main'.does # "claim" => main.does # "claim",
         \A t \in Drainers : thread[t] \in Coming => thread'[t] \in Coming
  PROVE  NoStrandedPlan'
<1> SUFFICES ASSUME plans' # <<>>, main'.does # "claim"
             PROVE  \E t \in Drainers : thread'[t] \in Coming
  BY DEF NoStrandedPlan, Busy, Coming, Holding
<1>1. \E t \in Drainers : thread[t] \in Coming
  BY DEF NoStrandedPlan, Busy, Coming, Holding
<1> QED
  BY <1>1

LEMMA SlotsKept ==
  ASSUME SlotsExact, slots' = slots,
         \A t \in Drainers : thread'[t] \in Holding <=> thread[t] \in Holding
  PROVE  SlotsExact'
<1>1. {t \in Drainers : thread'[t] \in Holding} = {t \in Drainers : thread[t] \in Holding}
  OBVIOUS
<1> QED
  BY <1>1 DEF SlotsExact

LEMMA HoldersFinite ==
  ASSUME NEW S, S \subseteq Drainers
  PROVE  IsFiniteSet(S) /\ Cardinality(S) \in Nat
<1>1. MaxRequests \in Nat
  BY CountAssumption
<1>2. IsFiniteSet(Drainers)
  BY <1>1, FS_Interval DEF Drainers
<1> QED
  BY <1>2, FS_Subset, FS_CardinalityType

LEMMA SlotTaken ==
  ASSUME SlotsExact, slots \in Nat, slots < CountWorkers, slots' = slots + 1,
         NEW t \in Drainers, thread[t] \notin Holding, thread'[t] \in Holding,
         \A u \in Drainers \ {t} : thread'[u] = thread[u]
  PROVE  SlotsExact'
<1> DEFINE H == {u \in Drainers : thread[u] \in Holding}
<1>1. {u \in Drainers : thread'[u] \in Holding} = H \cup {t}
  OBVIOUS
<1>2. t \notin H /\ H \subseteq Drainers /\ Cardinality(H) = slots
  BY DEF SlotsExact
<1> HIDE DEF H
<1>3. Cardinality(H \cup {t}) = Cardinality(H) + 1
  BY <1>2, HoldersFinite, FS_AddElement
<1>4. slots' <= CountWorkers
  BY CountAssumption
<1> QED
  BY <1>1, <1>2, <1>3, <1>4 DEF SlotsExact

LEMMA SlotGiven ==
  ASSUME SlotsExact, slots' = slots - 1,
         NEW t \in Drainers, thread[t] \in Holding, thread'[t] \notin Holding,
         \A u \in Drainers \ {t} : thread'[u] = thread[u]
  PROVE  SlotsExact' /\ slots' \in Nat
<1> DEFINE H == {u \in Drainers : thread[u] \in Holding}
<1>1. {u \in Drainers : thread'[u] \in Holding} = H \ {t}
  OBVIOUS
<1>2. t \in H /\ H \subseteq Drainers /\ Cardinality(H) = slots /\ slots <= CountWorkers
  BY DEF SlotsExact
<1> HIDE DEF H
<1>3. IsFiniteSet(H) /\ Cardinality(H) \in Nat
  BY <1>2, HoldersFinite
<1>4. Cardinality(H \ {t}) = Cardinality(H) - 1
  BY <1>2, <1>3, FS_RemoveElement
<1>5. H \ {t} \subseteq Drainers
  BY <1>2
<1>6. Cardinality(H \ {t}) \in Nat
  BY <1>5, HoldersFinite
<1>7. slots' <= CountWorkers
  BY <1>2, <1>3, CountAssumption
<1> QED
  BY <1>1, <1>2, <1>4, <1>6, <1>7 DEF SlotsExact

LEMMA ThreadTyped ==
  ASSUME CountTyped, NEW t, NEW to \in Moments
  PROVE  [thread EXCEPT ![t] = to] \in [Counters -> Moments]
  BY DEF CountTyped

\* A slot is taken: somebody comes.
LEMMA SomebodyHolds ==
  ASSUME SlotsExact, slots >= CountWorkers
  PROVE  \E t \in Drainers : thread[t] \in Holding
<1> SUFFICES ASSUME {t \in Drainers : thread[t] \in Holding} = {} PROVE FALSE
  OBVIOUS
<1>1. slots = 0
  BY FS_EmptySet DEF SlotsExact
<1> QED
  BY <1>1, CountAssumption

\* A thread moves; the others stay where they are.
LEMMA PlacedKept ==
  ASSUME CountTyped, CountPlaced, CountFresh, NEW t \in Counters, NEW to,
         thread' = [thread EXCEPT ![t] = to], main' = main, asked' = asked,
         \A u \in Counters \ {t} : work'[u] = work[u] /\ at'[u] = at[u],
         t \in Drainers => thread[t] # "none",
         to = "release" => work'[t] \in Work,
         to \in {"check", "lookup", "reading"} =>
           work'[t] \in Work /\ at'[t] \in 1..Len(work'[t].paths)
  PROVE  CountPlaced' /\ CountFresh'
<1>1. \A u \in Counters : thread'[u] = IF u = t THEN to ELSE thread[u]
  BY DEF CountTyped
<1>2. CountPlaced'
  <2>1. main'.does = "push" => main'.plan \in Plans
    BY DEF CountPlaced
  <2>2. ASSUME NEW u \in Counters
        PROVE  /\ thread'[u] = "release" => work'[u] \in Work
               /\ thread'[u] \in {"check", "lookup", "reading"} =>
                    work'[u] \in Work /\ at'[u] \in 1..Len(work'[u].paths)
    BY <1>1 DEF CountPlaced
  <2> QED
    BY <2>1, <2>2 DEF CountPlaced
<1>3. CountFresh'
  <2>1. Drainers \subseteq Counters
    BY DEF Counters
  <2> QED
    BY <1>1, <2>1 DEF CountFresh
<1> QED
  BY <1>2, <1>3

-----------------------------------------------------------------------------
(* Item counts: the main thread.                                           *)

LEMMA FirstOfFacts ==
  ASSUME NEW T, NEW s \in Seq(T), NEW n \in Nat
  PROVE  FirstOf(s, n) \in Seq(T) /\ Len(FirstOf(s, n)) \in Nat /\ Len(FirstOf(s, n)) <= n
<1> DEFINE m == IF n < Len(s) THEN n ELSE Len(s)
<1>1. m \in Nat /\ m <= n /\ m <= Len(s)
  OBVIOUS
<1>2. FirstOf(s, n) = SubSeq(s, 1, m)
  BY DEF FirstOf
<1> HIDE DEF m
<1>3. \A i \in 1..m : s[i] \in T
  BY <1>1
<1>4. /\ SubSeq(s, 1, m) \in Seq(T)
      /\ Len(SubSeq(s, 1, m)) = IF 1 <= m THEN m - 1 + 1 ELSE 0
  BY <1>1, <1>3, SubSeqProperties
<1> QED
  BY <1>1, <1>2, <1>4

\* A plan is as long as a viewport may be, whatever it takes over.
LEMMA PlanTyped ==
  ASSUME CountTyped, CountQueued, NEW s \in Scopes, NEW ctx \in Nat, NEW view \in Viewports
  PROVE  LET plan == PlanOf(s, ctx, view) IN
           /\ plan \in Work /\ plan.scope = s /\ plan.ctx = ctx
           /\ Len(plan.paths) <= CountLimit
<1> DEFINE old == automatic[s]
           carried == IF old.ctx = ctx THEN old.requested ELSE <<>>
           room == IF Len(carried) < CountLimit THEN CountLimit - Len(carried) ELSE 0
           more == FirstOf(Without(view, carried), room)
           paths == carried \o more
<1>1. carried \in Seq(Listed) /\ Len(carried) \in Nat /\ Len(carried) <= CountLimit
      /\ old.token \in Nat
  <2>1. old \in States /\ Len(old.requested) <= CountLimit
    BY DEF CountTyped, CountQueued
  <2>2. old.requested \in Seq(Listed) /\ old.token \in Nat
    BY <2>1 DEF States
  <2> QED
    BY <2>1, <2>2, CountAssumption
<1>2. room \in Nat /\ Len(carried) + room <= CountLimit
  <2> HIDE DEF carried
  <2> QED
    BY <1>1, CountAssumption
<1>3. Without(view, carried) \in Seq(Listed)
  <2>1. view \in Seq(Listed)
    BY CountAssumption
  <2> QED
    BY <2>1, KeepFacts DEF Without
<1> HIDE DEF carried, room, old
<1>4. more \in Seq(Listed) /\ Len(more) \in Nat /\ Len(more) <= room
  BY <1>2, <1>3, FirstOfFacts
<1> HIDE DEF more
<1>5. paths \in Seq(Listed) /\ Len(paths) = Len(carried) + Len(more)
  BY <1>1, <1>4
<1>6. Len(paths) <= CountLimit
  BY <1>1, <1>2, <1>4, <1>5, CountAssumption
<1>7. PlanOf(s, ctx, view) = [scope |-> s, token |-> old.token + 1, ctx |-> ctx,
                              gen |-> revision, paths |-> paths]
  BY DEF PlanOf, paths, more, room, carried, old
<1> HIDE DEF paths
<1>8. old.token + 1 \in Nat /\ revision \in Nat
  BY <1>1 DEF CountTyped
<1> QED
  BY <1>5, <1>6, <1>7, <1>8 DEF Work

LEMMA RequestVisibleKeeps ==
  ASSUME CountIInv, NEW s \in Scopes, RequestVisible(s) PROVE CountIInv'
<1>1. main.does = "idle" /\ asked < MaxRequests /\ asked' = asked + 1
      /\ UNCHANGED <<explicit, plans, slots, counts, revision, thread, work, at, spoiled>>
  BY DEF RequestVisible, drainVars
<1>2. PICK ctx \in newest[s]..MaxContexts, view \in Viewports :
        LET plan == PlanOf(s, ctx, view) IN
        /\ newest' = [newest EXCEPT ![s] = ctx]
        /\ automatic' = [automatic EXCEPT ![s] =
             [token |-> plan.token, ctx |-> ctx, requested |-> plan.paths]]
        /\ main' = IF plan.paths = <<>> THEN main ELSE [does |-> "push", plan |-> plan]
  BY DEF RequestVisible
<1> DEFINE plan == PlanOf(s, ctx, view)
<1>3. CountTyped /\ CountPlaced /\ CountFresh /\ CountQueued
  BY DEF CountIInv
<1>4. ctx \in Nat /\ MaxRequests \in Nat /\ asked \in Nat
  <2>1. newest[s] \in Nat /\ asked \in 0..MaxRequests
    BY <1>3 DEF CountTyped
  <2> QED
    BY <2>1, CountAssumption
<1>5. plan \in Work /\ Len(plan.paths) <= CountLimit
  BY <1>3, <1>4, PlanTyped
<1>6. automatic' = [automatic EXCEPT ![s] =
             [token |-> plan.token, ctx |-> ctx, requested |-> plan.paths]]
      /\ newest' = [newest EXCEPT ![s] = ctx]
      /\ main' = IF plan.paths = <<>> THEN main ELSE [does |-> "push", plan |-> plan]
  BY <1>2
<1> HIDE DEF plan
<1>7. [token |-> plan.token, ctx |-> ctx, requested |-> plan.paths] \in States
  BY <1>4, <1>5 DEF States, Work
<1>8. CountTyped'
  <2>1. automatic' \in [Scopes -> States] /\ newest' \in [Scopes -> Nat]
    BY <1>3, <1>4, <1>6, <1>7 DEF CountTyped
  <2>2. asked' \in 0..MaxRequests
    BY <1>1, <1>4
  <2> QED
    BY <1>1, <1>3, <2>1, <2>2 DEF CountTyped
<1>9. main'.does \in {"idle", "push"} /\ (main'.does = "push" => main'.plan \in Plans)
  BY <1>1, <1>5, <1>6 DEF Plans
<1>10. CountPlaced'
  BY <1>1, <1>3, <1>9 DEF CountPlaced
<1>11. CountFresh'
  <2>1. \A t \in Drainers : t \in Nat
    BY <1>4 DEF Drainers
  <2>2. asked' \in Drainers
    BY <1>1, <1>4 DEF Drainers
  <2>3. \A t \in Drainers : (t > asked' => thread'[t] = "none") /\ (t = asked' => thread'[t] = "none")
    <3> TAKE t \in Drainers
    <3>1. t \in Nat /\ (t >= asked + 1 => t > asked)
      BY <1>4, <2>1
    <3> QED
      BY <1>1, <1>3, <1>4, <3>1 DEF CountFresh
  <2> QED
    BY <1>9, <2>2, <2>3 DEF CountFresh
<1>12. CountQueued'
  <2>1. \A u \in Scopes : automatic'[u] = IF u = s
          THEN [token |-> plan.token, ctx |-> ctx, requested |-> plan.paths] ELSE automatic[u]
    BY <1>3, <1>6 DEF CountTyped
  <2>2. \A u \in Scopes : Len(automatic'[u].requested) <= CountLimit
    BY <1>3, <1>5, <2>1 DEF CountQueued
  <2> QED
    BY <1>1, <1>3, <2>2 DEF CountQueued
<1>13. SlotsExact'
  BY <1>1, SlotsKept DEF CountIInv
<1>14. NoStrandedPlan'
  BY <1>1, StrandedKept DEF CountIInv
<1>15. SingleFlight' /\ CountMarked'
  BY <1>1, MarkedKept DEF CountIInv
<1> QED
  BY <1>8, <1>10, <1>11, <1>12, <1>13, <1>14, <1>15 DEF CountIInv

\* The plans of the other scopes, in their order.
LEMMA OthersApart ==
  ASSUME plans \in Seq(Plans), CountQueued, NEW s
  PROVE  LET others == PlansWithout(s) IN
           /\ others \in Seq(Plans) /\ Len(others) \in Nat /\ Len(others) <= Len(plans)
           /\ \A i \in DOMAIN others : others[i].scope # s
           /\ \A i, j \in DOMAIN others : others[i].scope = others[j].scope => i = j
<1> DEFINE rest == {p \in Range(plans) : p.scope # s}
           others == Keep(plans, rest)
<1>1. /\ others \in Seq(Plans) /\ Range(others) = Range(plans) \cap rest
      /\ Len(others) \in Nat /\ Len(others) <= Len(plans)
  BY KeepFacts
<1>2. PICK f \in [DOMAIN others -> DOMAIN plans] :
        \A i, j \in DOMAIN others : others[i] = plans[f[i]] /\ (f[i] = f[j] => i = j)
  <2> HIDE DEF rest
  <2>1. \E f \in [DOMAIN Keep(plans, rest) -> DOMAIN plans] :
          \A i, j \in DOMAIN Keep(plans, rest) :
            Keep(plans, rest)[i] = plans[f[i]] /\ (f[i] = f[j] => i = j)
    BY KeepFacts
  <2> QED
    BY <2>1
<1>3. \A i \in DOMAIN others : others[i] \in rest
  <2>1. \A i \in DOMAIN others : others[i] \in Range(others)
    BY DEF Range
  <2> QED
    BY <1>1, <2>1
<1>4. \A i \in DOMAIN others : others[i].scope # s
  BY <1>3
<1> HIDE DEF others
<1>5. \A i, j \in DOMAIN others : others[i].scope = others[j].scope => i = j
  <2> SUFFICES ASSUME NEW i \in DOMAIN others, NEW j \in DOMAIN others,
                      others[i].scope = others[j].scope
               PROVE  i = j
    OBVIOUS
  <2>1. f[i] \in DOMAIN plans /\ f[j] \in DOMAIN plans
    BY <1>2
  <2> QED
    BY <1>2, <2>1 DEF CountQueued
<1>6. PlansWithout(s) = others
  BY DEF PlansWithout, others
<1> QED
  BY <1>1, <1>4, <1>5, <1>6

\* The newest of a bounded queue.
LEMMA NewestFit ==
  ASSUME NEW T, NEW s \in Seq(T), NEW cap \in Nat \ {0}, Len(s) >= cap
  PROVE  LET kept == SubSeq(s, Len(s) - cap + 2, Len(s)) IN
           /\ kept \in Seq(T) /\ Len(kept) = cap - 1
           /\ \E n \in Nat : \A i \in DOMAIN kept : n + i \in DOMAIN s /\ kept[i] = s[n + i]
<1> DEFINE m == Len(s)
           n == m - cap + 1
           kept == SubSeq(s, n + 1, m)
<1>1. m \in Nat /\ n \in Nat /\ n + 1 = m - cap + 2 /\ m - n = cap - 1 /\ DOMAIN s = 1..m
      /\ n <= m
  OBVIOUS
<1> HIDE DEF m, n
<1>2. \A i \in (n + 1)..m : s[i] \in T
  <2>1. \A i \in (n + 1)..m : i \in 1..m
    BY <1>1
  <2> QED
    BY <1>1, <2>1
<1>3. /\ kept \in Seq(T) /\ Len(kept) = IF n + 1 <= m THEN m - (n + 1) + 1 ELSE 0
      /\ \A i \in 1..(m - (n + 1) + 1) : kept[i] = s[(n + 1) + i - 1]
  BY <1>1, <1>2, SubSeqProperties
<1>4. Len(kept) = cap - 1 /\ DOMAIN kept = 1..(m - n)
  <2>1. Len(kept) = m - n
    BY <1>1, <1>3
  <2> QED
    BY <1>1, <1>3, <2>1
<1>5. \A i \in DOMAIN kept : n + i \in DOMAIN s /\ kept[i] = s[n + i]
  <2> SUFFICES ASSUME NEW i \in 1..(m - n) PROVE n + i \in 1..m /\ kept[i] = s[n + i]
    BY <1>1, <1>4
  <2>1. n + i \in 1..m /\ i \in 1..(m - (n + 1) + 1) /\ (n + 1) + i - 1 = n + i
    BY <1>1
  <2> HIDE DEF kept
  <2> QED
    BY <1>3, <2>1
<1>6. kept = SubSeq(s, Len(s) - cap + 2, Len(s))
  BY <1>1 DEF m
<1> HIDE DEF kept
<1> QED
  BY <1>1, <1>3, <1>4, <1>5, <1>6

LEMMA PushPlanKeeps ==
  ASSUME CountIInv, PushPlan PROVE CountIInv'
<1> DEFINE others == PlansWithout(main.plan.scope)
           kept == IF Len(others) < CountQueueCap THEN others
                   ELSE SubSeq(others, Len(others) - CountQueueCap + 2, Len(others))
<1>1. /\ main.does = "push" /\ plans' = Append(kept, main.plan)
      /\ main' = [does |-> "claim", plan |-> NoPlan]
      /\ UNCHANGED <<automatic, explicit, slots, counts, revision, newest, asked,
                     thread, work, at, spoiled>>
  BY DEF PushPlan, drainVars
<1>2. CountTyped /\ CountPlaced /\ CountFresh /\ CountQueued /\ main.plan \in Plans
      /\ CountQueueCap \in Nat \ {0}
  BY <1>1, CountAssumption DEF CountIInv, CountPlaced
<1>3. /\ others \in Seq(Plans) /\ Len(others) \in Nat
      /\ \A i \in DOMAIN others : others[i].scope # main.plan.scope
      /\ \A i, j \in DOMAIN others : others[i].scope = others[j].scope => i = j
  BY <1>2, OthersApart DEF CountTyped
<1> HIDE DEF others
<1>4. PICK r \in Seq(Plans) : r = others
  BY <1>3
<1>5. /\ kept \in Seq(Plans) /\ Len(kept) <= CountQueueCap - 1
      /\ \E n \in Nat : \A i \in DOMAIN kept : n + i \in DOMAIN others /\ kept[i] = others[n + i]
  <2>1. CASE Len(r) < CountQueueCap
    <3>1. kept = r
      BY <1>4, <2>1
    <3>2. 0 \in Nat /\ \A i \in DOMAIN r : 0 + i = i
      OBVIOUS
    <3>3. \E n \in Nat : \A i \in DOMAIN r : n + i \in DOMAIN r /\ r[i] = r[n + i]
      BY <3>2
    <3>4. Len(r) <= CountQueueCap - 1
      BY <1>2, <2>1
    <3> QED
      BY <1>4, <3>1, <3>3, <3>4
  <2>2. CASE ~(Len(r) < CountQueueCap)
    <3> DEFINE c == SubSeq(r, Len(r) - CountQueueCap + 2, Len(r))
    <3>1. kept = c
      BY <1>4, <2>2
    <3>2. Len(r) >= CountQueueCap
      BY <1>2, <2>2
    <3>3. /\ c \in Seq(Plans) /\ Len(c) = CountQueueCap - 1
          /\ \E n \in Nat : \A i \in DOMAIN c : n + i \in DOMAIN r /\ c[i] = r[n + i]
      BY <1>2, <3>2, NewestFit
    <3> HIDE DEF c
    <3>4. Len(c) <= CountQueueCap - 1
      BY <1>2, <3>3
    <3> QED
      BY <1>4, <3>1, <3>3, <3>4
  <2> QED
    BY <2>1, <2>2
<1>6. PICK n \in Nat : \A i \in DOMAIN kept : n + i \in DOMAIN others /\ kept[i] = others[n + i]
  BY <1>5
<1> HIDE DEF kept
<1>7. PICK q \in Seq(Plans) : q = kept
  BY <1>5
<1>8. \A i \in DOMAIN q : q[i].scope # main.plan.scope
  BY <1>3, <1>6, <1>7
<1>9. \A i, j \in DOMAIN q : q[i].scope = q[j].scope => i = j
  <2> SUFFICES ASSUME NEW i \in DOMAIN q, NEW j \in DOMAIN q, q[i].scope = q[j].scope
               PROVE  i = j
    OBVIOUS
  <2>1. n + i = n + j
    BY <1>3, <1>6, <1>7
  <2> QED
    BY <2>1
<1>10. plans' = Append(q, main.plan)
  BY <1>1, <1>7
<1>11. plans' \in Seq(Plans) /\ Len(plans') <= CountQueueCap
       /\ \A i, j \in DOMAIN plans' : plans'[i].scope = plans'[j].scope => i = j
  <2>1. Append(q, main.plan) \in Seq(Plans) /\ Len(Append(q, main.plan)) = Len(q) + 1
    BY <1>2
  <2>2. Len(q) + 1 <= CountQueueCap
    BY <1>2, <1>5, <1>7
  <2>3. \A i \in DOMAIN Append(q, main.plan) :
          \/ i \in DOMAIN q /\ Append(q, main.plan)[i] = q[i]
          \/ i = Len(q) + 1 /\ Append(q, main.plan)[i] = main.plan
    BY <1>2
  <2> QED
    BY <1>8, <1>9, <1>10, <2>1, <2>2, <2>3
<1>12. CountTyped'
  BY <1>1, <1>2, <1>11 DEF CountTyped
<1>13. CountPlaced' /\ CountFresh'
  BY <1>1, <1>2 DEF CountPlaced, CountFresh
<1>14. CountQueued'
  BY <1>1, <1>2, <1>11 DEF CountQueued
<1>15. SlotsExact' /\ SingleFlight' /\ CountMarked'
  BY <1>1, SlotsKept, MarkedKept DEF CountIInv
<1>16. NoStrandedPlan'
  BY <1>1 DEF NoStrandedPlan
<1> QED
  BY <1>12, <1>13, <1>14, <1>15, <1>16 DEF CountIInv

LEMMA ClaimSlotKeeps ==
  ASSUME CountIInv, ClaimSlot PROVE CountIInv'
<1>1. /\ main.does = "claim" /\ main' = [does |-> "idle", plan |-> NoPlan]
      /\ UNCHANGED <<automatic, explicit, plans, counts, revision, newest, asked,
                     work, at, spoiled>>
  BY DEF ClaimSlot
<1>2. CountTyped /\ CountPlaced /\ CountFresh /\ CountQueued /\ SlotsExact
  BY DEF CountIInv
<1>3. asked \in Drainers /\ thread[asked] = "none" /\ asked \in Counters
  BY <1>1, <1>2 DEF CountFresh, Counters
<1>4. CASE slots >= CountWorkers /\ UNCHANGED <<slots, thread>>
  <2>1. CountTyped' /\ CountPlaced' /\ CountFresh' /\ CountQueued'
    BY <1>1, <1>2, <1>4 DEF CountTyped, CountPlaced, CountFresh, CountQueued
  <2>2. SlotsExact' /\ SingleFlight' /\ CountMarked'
    BY <1>1, <1>4, SlotsKept, MarkedKept DEF CountIInv
  <2>3. NoStrandedPlan'
    BY <1>2, <1>4, SomebodyHolds DEF NoStrandedPlan, Busy, Holding
  <2> QED
    BY <2>1, <2>2, <2>3 DEF CountIInv
<1>5. CASE /\ ~(slots >= CountWorkers) /\ slots' = slots + 1
           /\ thread' = [thread EXCEPT ![asked] = "starting"]
  <2>1. \A u \in Counters : thread'[u] = IF u = asked THEN "starting" ELSE thread[u]
    BY <1>2, <1>5 DEF CountTyped
  <2>2. Drainers \subseteq Counters
    BY DEF Counters
  <2>3. thread'[asked] = "starting" /\ \A u \in Drainers \ {asked} : thread'[u] = thread[u]
    BY <1>3, <2>1, <2>2
  <2>4. slots \in Nat /\ slots < CountWorkers
    BY <1>2, <1>5, CountAssumption DEF CountTyped
  <2>5. SlotsExact'
    BY <1>2, <1>3, <1>5, <2>3, <2>4, SlotTaken DEF Holding
  <2>6. CountTyped'
    <3>1. thread' \in [Counters -> Moments]
      BY <1>2, <1>5, ThreadTyped DEF Moments, Holding
    <3>2. slots' \in Nat
      BY <1>5, <2>4
    <3> QED
      BY <1>1, <1>2, <3>1, <3>2 DEF CountTyped
  <2>7. CountPlaced'
    BY <1>1, <1>2, <2>1 DEF CountPlaced
  <2>8. CountFresh'
    <3>1. \A t \in Drainers : t > asked => t # asked
      BY <1>2, CountAssumption DEF CountTyped, Drainers
    <3> QED
      BY <1>1, <1>2, <2>3, <3>1 DEF CountFresh
  <2>9. CountQueued'
    BY <1>1, <1>2 DEF CountQueued
  <2>10. SingleFlight' /\ CountMarked'
    BY <1>1, <2>1, MarkedKept DEF CountIInv
  <2>11. NoStrandedPlan'
    BY <1>3, <2>3 DEF NoStrandedPlan, Busy, Holding
  <2> QED
    BY <2>5, <2>6, <2>7, <2>8, <2>9, <2>10, <2>11 DEF CountIInv
<1> QED
  BY <1>4, <1>5 DEF ClaimSlot

LEMMA CancelTabKeeps ==
  ASSUME CountIInv, NEW s \in Scopes, CancelTab(s) PROVE CountIInv'
<1>1. /\ main.does = "idle" /\ asked < MaxRequests /\ asked' = asked + 1
      /\ newest' = [newest EXCEPT ![s] = @ + 1]
      /\ automatic' = [automatic EXCEPT ![s] = Nothing]
      /\ explicit' = [explicit EXCEPT ![s] = Nothing]
      /\ main' = [does |-> "drop", plan |-> [NoPlan EXCEPT !.scope = s]]
      /\ UNCHANGED <<plans, slots, counts, revision, thread, work, at, spoiled>>
  BY DEF CancelTab, drainVars
<1>2. CountTyped /\ CountPlaced /\ CountFresh /\ CountQueued
  BY DEF CountIInv
<1>3. Nothing \in States /\ Len(Nothing.requested) <= CountLimit
  BY CountAssumption DEF Nothing, States
<1>4. CountTyped'
  <2>1. automatic' \in [Scopes -> States] /\ explicit' \in [Scopes -> States]
        /\ newest' \in [Scopes -> Nat]
    BY <1>1, <1>2, <1>3 DEF CountTyped
  <2>2. asked' \in 0..MaxRequests
    BY <1>1, <1>2, CountAssumption DEF CountTyped
  <2> QED
    BY <1>1, <1>2, <2>1, <2>2 DEF CountTyped
<1>5. CountPlaced'
  BY <1>1, <1>2 DEF CountPlaced
<1>6. CountFresh'
  <2>1. \A t \in Drainers : t > asked' => t > asked
    BY <1>1, <1>2, CountAssumption DEF CountTyped, Drainers
  <2> QED
    BY <1>1, <1>2, <2>1 DEF CountFresh
<1>7. CountQueued'
  <2>1. \A u \in Scopes : automatic'[u] = IF u = s THEN Nothing ELSE automatic[u]
    BY <1>1, <1>2 DEF CountTyped
  <2> QED
    BY <1>1, <1>2, <1>3, <2>1 DEF CountQueued
<1>8. SlotsExact' /\ SingleFlight' /\ CountMarked' /\ NoStrandedPlan'
  BY <1>1, SlotsKept, MarkedKept, StrandedKept DEF CountIInv
<1> QED
  BY <1>4, <1>5, <1>6, <1>7, <1>8 DEF CountIInv

LEMMA DropPlansKeeps ==
  ASSUME CountIInv, DropPlans PROVE CountIInv'
<1> DEFINE others == PlansWithout(main.plan.scope)
<1>1. /\ main.does = "drop" /\ main' = [does |-> "idle", plan |-> NoPlan]
      /\ plans' = others
      /\ UNCHANGED <<automatic, explicit, slots, counts, revision, newest, asked,
                     thread, work, at, spoiled>>
  BY DEF DropPlans, drainVars
<1>2. CountTyped /\ CountPlaced /\ CountFresh /\ CountQueued
  BY DEF CountIInv
<1>3. /\ others \in Seq(Plans) /\ Len(others) \in Nat /\ Len(others) <= Len(plans)
      /\ \A i, j \in DOMAIN others : others[i].scope = others[j].scope => i = j
  BY <1>2, OthersApart DEF CountTyped
<1> HIDE DEF others
<1>4. CountTyped'
  BY <1>1, <1>2, <1>3 DEF CountTyped
<1>5. CountPlaced' /\ CountFresh'
  BY <1>1, <1>2 DEF CountPlaced, CountFresh
<1>6. plans \in Seq(Plans) /\ CountQueueCap \in Nat
  BY <1>2, CountAssumption DEF CountTyped
<1>7. CountQueued'
  <2>1. Len(others) <= CountQueueCap
    BY <1>2, <1>3, <1>6 DEF CountQueued
  <2> QED
    BY <1>1, <1>2, <1>3, <2>1 DEF CountQueued
<1>8. plans' # <<>> => plans # <<>>
  <2> SUFFICES ASSUME plans = <<>> PROVE others = <<>>
    BY <1>1
  <2>1. Len(others) = 0
    BY <1>3
  <2> QED
    BY <1>3, <2>1
<1>9. SlotsExact' /\ SingleFlight' /\ CountMarked' /\ NoStrandedPlan'
  BY <1>1, <1>8, SlotsKept, MarkedKept, StrandedKept DEF CountIInv
<1> QED
  BY <1>4, <1>5, <1>7, <1>9 DEF CountIInv

LEMMA FoldPatchKeeps ==
  ASSUME CountIInv, NEW changed, FoldPatch(changed) PROVE CountIInv'
<1>1. /\ revision < MaxRevisions /\ revision' = revision + 1
      /\ UNCHANGED <<automatic, explicit, plans, slots, counts, main, newest, asked,
                     thread, work, at, spoiled>>
  BY DEF FoldPatch, mainVars, drainVars
<1>2. CountTyped /\ CountPlaced /\ CountFresh /\ CountQueued
  BY DEF CountIInv
<1>3. CountTyped'
  <2>1. revision' \in 1..MaxRevisions
    BY <1>1, <1>2, CountAssumption DEF CountTyped
  <2> QED
    BY <1>1, <1>2, <2>1 DEF CountTyped
<1>4. CountPlaced' /\ CountFresh' /\ CountQueued'
  BY <1>1, <1>2 DEF CountPlaced, CountFresh, CountQueued
<1>5. SlotsExact' /\ SingleFlight' /\ CountMarked' /\ NoStrandedPlan'
  BY <1>1, SlotsKept, MarkedKept, StrandedKept DEF CountIInv
<1> QED
  BY <1>3, <1>4, <1>5 DEF CountIInv

LEMMA InvalidateGenerationKeeps ==
  ASSUME CountIInv, NEW v, InvalidateGeneration(v) PROVE CountIInv'
<1> DEFINE void == {k \in Cache!Keys(counts) : k[1] = v[1] /\ k[2] <= v[2]}
           next == Cache!Retain(counts, Cache!Keys(counts) \ void)
<1>1. /\ counts' = next /\ spoiled' = spoiled \cup (Pending(counts) \ Pending(next))
      /\ UNCHANGED <<automatic, explicit, plans, slots, revision, main, newest, asked,
                     thread, work, at>>
  BY DEF InvalidateGeneration, mainVars, drainVars
<1>2. CountTyped /\ CountPlaced /\ CountFresh /\ CountQueued
  BY DEF CountIInv
<1>3. CacheOK(next)
  BY <1>2, CacheRetain DEF CountTyped
<1> HIDE DEF next
<1>4. CountTyped'
  BY <1>1, <1>2, <1>3 DEF CountTyped
<1>5. CountPlaced' /\ CountFresh' /\ CountQueued'
  BY <1>1, <1>2 DEF CountPlaced, CountFresh, CountQueued
<1>6. SlotsExact' /\ SingleFlight' /\ CountMarked' /\ NoStrandedPlan'
  BY <1>1, SlotsKept, MarkedKept, StrandedKept DEF CountIInv
<1> QED
  BY <1>4, <1>5, <1>6 DEF CountIInv

-----------------------------------------------------------------------------
(* Item counts: the drainers and the sorters.                              *)

LEMMA ThreadStep ==
  ASSUME CountTyped, CountPlaced, CountFresh, NEW t \in Counters, NEW to \in Moments,
         thread' = [thread EXCEPT ![t] = to], main' = main, asked' = asked,
         newest' = newest, revision' = revision,
         automatic' \in [Scopes -> States], explicit' \in [Scopes -> States],
         plans' \in Seq(Plans), slots' \in Nat, CacheOK(counts'),
         work' \in [Counters -> Work \cup {NoPlan}], at' \in [Counters -> Nat],
         \A u \in Counters \ {t} : work'[u] = work[u] /\ at'[u] = at[u],
         t \in Drainers => thread[t] # "none",
         to = "release" => work'[t] \in Work,
         to \in {"check", "lookup", "reading"} =>
           work'[t] \in Work /\ at'[t] \in 1..Len(work'[t].paths)
  PROVE  CountTyped' /\ CountPlaced' /\ CountFresh'
<1>1. thread' \in [Counters -> Moments]
  BY ThreadTyped
<1>2. revision' \in 1..MaxRevisions /\ asked' \in 0..MaxRequests /\ newest' \in [Scopes -> Nat]
  BY DEF CountTyped
<1>3. CountTyped'
  <2>1. CacheOK(counts)'
    BY DEF CacheOK
  <2> QED
    BY <1>1, <1>2, <2>1 DEF CountTyped
<1>4. CountPlaced' /\ CountFresh'
  BY PlacedKept
<1> QED
  BY <1>3, <1>4

\* A move that neither takes nor gives a slot, a plan or a folder to read.
LEMMA QuietStep ==
  ASSUME CountIInv, NEW t \in Counters, NEW to \in Moments \ {"reading"},
         thread' = [thread EXCEPT ![t] = to], main' = main, slots' = slots,
         automatic' = automatic, plans' = plans,
         \A u \in Counters \ {t} : work'[u] = work[u] /\ at'[u] = at[u],
         t \in Drainers => (thread[t] \in Holding <=> to \in Holding),
         t \in Drainers /\ plans # <<>> => (thread[t] \in Coming => to \in Coming)
  PROVE  CountQueued' /\ SlotsExact' /\ NoStrandedPlan'
<1>1. \A u \in Counters : thread'[u] = IF u = t THEN to ELSE thread[u]
  BY DEF CountIInv, CountTyped
<1>2. Drainers \subseteq Counters
  BY DEF Counters
<1>3. CountQueued'
  BY DEF CountIInv, CountQueued
<1>4. SlotsExact'
  BY <1>1, <1>2, SlotsKept DEF CountIInv
<1>5. NoStrandedPlan'
  <2>1. CASE plans = <<>>
    BY <2>1 DEF NoStrandedPlan
  <2>2. CASE plans # <<>>
    BY <1>1, <1>2, <2>2, StrandedKept DEF CountIInv
  <2> QED
    BY <2>1, <2>2
<1> QED
  BY <1>3, <1>4, <1>5

\* What is read is still marked if the cache and the history are unchanged.
LEMMA QuietMarks ==
  ASSUME CountIInv, NEW t \in Counters, NEW to \in Moments \ {"reading"},
         thread' = [thread EXCEPT ![t] = to],
         \A u \in Counters \ {t} : work'[u] = work[u] /\ at'[u] = at[u],
         Pending(counts') = Pending(counts), spoiled' = spoiled
  PROVE  SingleFlight' /\ CountMarked'
<1>1. \A u \in Counters : thread'[u] = IF u = t THEN to ELSE thread[u]
  BY DEF CountIInv, CountTyped
<1> QED
  BY <1>1, MarkedKept DEF CountIInv

LEMMA DrainersAreCounters == Drainers \subseteq Counters /\ Drainers \cap Sorters = {}
  BY CountAssumption DEF Drainers, Counters

LEMMA DrainMoves ==
  ASSUME CountIInv, NEW t \in Drainers, DrainStarts(t) \/ DrainRefused(t) \/ Peek(t)
  PROVE  CountIInv'
<1> USE DrainersAreCounters
<1>1. PICK to \in {"pop", "refused", "done", "reclaim"} :
        /\ thread' = [thread EXCEPT ![t] = to]
        /\ thread[t] \in {"starting", "peek"}
        /\ thread[t] \in Holding <=> to \in Holding
        /\ plans # <<>> => to \in Coming
  BY DEF DrainStarts, DrainRefused, Peek, Go, Holding, Coming
<1>2. UNCHANGED <<automatic, explicit, plans, slots, counts, revision, main, newest,
                  asked, work, at, spoiled>>
  BY DEF DrainStarts, DrainRefused, Peek, mainVars
<1>3. to \in Moments \ {"reading"}
  BY DEF Moments, Holding
<1>4. CountTyped' /\ CountPlaced' /\ CountFresh'
  BY <1>1, <1>2, <1>3, ThreadStep DEF CountIInv, CountTyped
<1>5. CountQueued' /\ SlotsExact' /\ NoStrandedPlan'
  BY <1>1, <1>2, <1>3, QuietStep
<1>6. SingleFlight' /\ CountMarked'
  BY <1>1, <1>2, <1>3, QuietMarks
<1> QED
  BY <1>4, <1>5, <1>6 DEF CountIInv

LEMMA LeaveKeeps ==
  ASSUME CountIInv, NEW t \in Drainers, Leave(t) PROVE CountIInv'
<1> USE DrainersAreCounters
<1>1. thread[t] = "leave" /\ thread' = [thread EXCEPT ![t] = "peek"] /\ slots' = slots - 1
      /\ UNCHANGED <<automatic, explicit, plans, counts, revision, main, newest,
                     asked, work, at, spoiled>>
  BY DEF Leave, Go, mainVars
<1>2. \A u \in Counters : thread'[u] = IF u = t THEN "peek" ELSE thread[u]
  BY <1>1 DEF CountIInv, CountTyped
<1>3. SlotsExact' /\ slots' \in Nat
  <2>1. thread[t] \in Holding /\ thread'[t] \notin Holding
        /\ \A u \in Drainers \ {t} : thread'[u] = thread[u]
    BY <1>1, <1>2 DEF Holding
  <2> QED
    BY <1>1, <2>1, SlotGiven DEF CountIInv
<1>4. "peek" \in Moments \ {"reading"}
  BY DEF Moments, Holding
<1>5. CountTyped' /\ CountPlaced' /\ CountFresh'
  BY <1>1, <1>3, <1>4, ThreadStep DEF CountIInv, CountTyped
<1>6. CountQueued'
  BY <1>1 DEF CountIInv, CountQueued
<1>7. NoStrandedPlan'
  BY <1>1, <1>2, StrandedKept DEF CountIInv, Coming
<1>8. SingleFlight' /\ CountMarked'
  BY <1>1, <1>4, QuietMarks
<1> QED
  BY <1>3, <1>5, <1>6, <1>7, <1>8 DEF CountIInv

LEMMA ReclaimKeeps ==
  ASSUME CountIInv, NEW t \in Drainers, Reclaim(t) PROVE CountIInv'
<1> USE DrainersAreCounters
<1>1. thread[t] = "reclaim"
      /\ UNCHANGED <<automatic, explicit, plans, counts, revision, main, newest,
                     asked, work, at, spoiled>>
  BY DEF Reclaim, Go, mainVars
<1>2. CASE slots >= CountWorkers /\ Go(t, "reclaim", "done") /\ slots' = slots
  <2>1. thread' = [thread EXCEPT ![t] = "done"]
    BY <1>2 DEF Go
  <2>2. \A u \in Counters : thread'[u] = IF u = t THEN "done" ELSE thread[u]
    BY <2>1 DEF CountIInv, CountTyped
  <2>3. "done" \in Moments \ {"reading"}
    BY DEF Moments, Holding
  <2>4. CountTyped' /\ CountPlaced' /\ CountFresh'
    BY <1>1, <1>2, <2>1, <2>3, ThreadStep DEF CountIInv, CountTyped
  <2>5. CountQueued' /\ SlotsExact'
    <3>1. \A u \in Drainers : thread'[u] \in Holding <=> thread[u] \in Holding
      BY <1>1, <2>2 DEF Holding
    <3> QED
      BY <1>1, <1>2, <3>1, SlotsKept DEF CountIInv, CountQueued
  <2>6. NoStrandedPlan'
    <3>1. PICK u \in Drainers : thread[u] \in Holding
      BY <1>2, SomebodyHolds DEF CountIInv
    <3>2. thread'[u] \in Holding
      BY <1>1, <2>2, <3>1 DEF Holding
    <3> QED
      BY <3>2 DEF NoStrandedPlan, Busy, Holding
  <2>7. SingleFlight' /\ CountMarked'
    BY <1>1, <2>1, <2>3, QuietMarks
  <2> QED
    BY <2>4, <2>5, <2>6, <2>7 DEF CountIInv
<1>3. CASE ~(slots >= CountWorkers) /\ Go(t, "reclaim", "pop") /\ slots' = slots + 1
  <2>1. thread' = [thread EXCEPT ![t] = "pop"]
    BY <1>3 DEF Go
  <2>2. \A u \in Counters : thread'[u] = IF u = t THEN "pop" ELSE thread[u]
    BY <2>1 DEF CountIInv, CountTyped
  <2>3. "pop" \in Moments \ {"reading"}
    BY DEF Moments, Holding
  <2>4. slots \in Nat /\ slots < CountWorkers /\ slots' \in Nat
    BY <1>3, CountAssumption DEF CountIInv, CountTyped
  <2>5. SlotsExact'
    <3>1. thread[t] \notin Holding /\ thread'[t] \in Holding
          /\ \A u \in Drainers \ {t} : thread'[u] = thread[u]
      BY <1>1, <2>2 DEF Holding
    <3> QED
      BY <1>3, <2>4, <3>1, SlotTaken DEF CountIInv
  <2>6. CountTyped' /\ CountPlaced' /\ CountFresh'
    BY <1>1, <2>1, <2>3, <2>4, ThreadStep DEF CountIInv, CountTyped
  <2>7. CountQueued'
    BY <1>1 DEF CountIInv, CountQueued
  <2>8. NoStrandedPlan'
    <3>1. thread'[t] = "pop"
      BY <2>2
    <3> QED
      BY <3>1 DEF NoStrandedPlan, Busy, Holding
  <2>9. SingleFlight' /\ CountMarked'
    BY <1>1, <2>1, <2>3, QuietMarks
  <2> QED
    BY <2>5, <2>6, <2>7, <2>8, <2>9 DEF CountIInv
<1> QED
  BY <1>2, <1>3 DEF Reclaim

LEMMA PopPlanKeeps ==
  ASSUME CountIInv, NEW t \in Drainers, PopPlan(t) PROVE CountIInv'
<1> USE DrainersAreCounters
<1>1. thread[t] = "pop"
      /\ UNCHANGED <<automatic, explicit, slots, counts, revision, main, newest,
                     asked, spoiled>>
  BY DEF PopPlan, mainVars
<1>2. CASE plans = <<>> /\ Go(t, "pop", "leave") /\ UNCHANGED <<plans, work, at>>
  <2>1. thread' = [thread EXCEPT ![t] = "leave"]
    BY <1>2 DEF Go
  <2>2. "leave" \in Moments \ {"reading"} /\ "leave" \in Holding /\ thread[t] \in Holding
    BY <1>1 DEF Moments, Holding
  <2>3. CountTyped' /\ CountPlaced' /\ CountFresh'
    BY <1>1, <1>2, <2>1, <2>2, ThreadStep DEF CountIInv, CountTyped
  <2>4. CountQueued' /\ SlotsExact' /\ NoStrandedPlan'
    BY <1>1, <1>2, <2>1, <2>2, QuietStep
  <2>5. SingleFlight' /\ CountMarked'
    BY <1>1, <1>2, <2>1, <2>2, QuietMarks
  <2> QED
    BY <2>3, <2>4, <2>5 DEF CountIInv
<1>3. CASE /\ plans # <<>> /\ Go(t, "pop", "check") /\ plans' = Tail(plans)
           /\ work' = [work EXCEPT ![t] = Head(plans)]
           /\ at' = [at EXCEPT ![t] = 1]
  <2>1. thread' = [thread EXCEPT ![t] = "check"]
    BY <1>3 DEF Go
  <2>2. "check" \in Moments \ {"reading"} /\ "check" \in Holding /\ thread[t] \in Holding
    BY <1>1 DEF Moments, Holding
  <2>3. plans \in Seq(Plans)
    BY DEF CountIInv, CountTyped
  <2>4. Head(plans) \in Plans /\ Tail(plans) \in Seq(Plans) /\ Len(Tail(plans)) = Len(plans) - 1
        /\ \A i \in DOMAIN Tail(plans) : i + 1 \in DOMAIN plans /\ Tail(plans)[i] = plans[i + 1]
    BY <1>3, <2>3
  <2>5. work' \in [Counters -> Work \cup {NoPlan}] /\ at' \in [Counters -> Nat]
        /\ work'[t] = Head(plans) /\ at'[t] = 1
        /\ \A u \in Counters \ {t} : work'[u] = work[u] /\ at'[u] = at[u]
    <3>1. Head(plans) \in Work
      BY <2>4 DEF Plans
    <3> QED
      BY <1>3, <3>1 DEF CountIInv, CountTyped
  <2>6. work'[t] \in Work /\ at'[t] \in 1..Len(work'[t].paths)
    <3>1. Head(plans).paths \in Seq(Listed) /\ Head(plans).paths # <<>> /\ Head(plans) \in Work
      BY <2>4 DEF Plans, Work
    <3>2. 1 \in 1..Len(Head(plans).paths)
      BY <3>1
    <3> QED
      BY <2>5, <3>1, <3>2
  <2>7. CountTyped' /\ CountPlaced' /\ CountFresh'
    BY <1>1, <1>3, <2>1, <2>2, <2>4, <2>5, <2>6, ThreadStep DEF CountIInv, CountTyped
  <2>8. CountQueued'
    <3>1. Len(plans') <= CountQueueCap
      BY <1>3, <2>3, <2>4, CountAssumption DEF CountIInv, CountQueued
    <3>2. \A i, j \in DOMAIN plans' : plans'[i].scope = plans'[j].scope => i = j
      <4> SUFFICES ASSUME NEW i \in DOMAIN Tail(plans), NEW j \in DOMAIN Tail(plans),
                          Tail(plans)[i].scope = Tail(plans)[j].scope
                   PROVE  i = j
        BY <1>3
      <4>1. i + 1 = j + 1
        BY <2>4 DEF CountIInv, CountQueued
      <4>2. i \in Nat /\ j \in Nat
        BY <2>4
      <4> QED
        BY <4>1, <4>2
    <3> QED
      BY <1>1, <3>1, <3>2 DEF CountIInv, CountQueued
  <2>9. \A u \in Counters : thread'[u] = IF u = t THEN "check" ELSE thread[u]
    BY <2>1 DEF CountIInv, CountTyped
  <2>10. SlotsExact'
    BY <1>1, <2>2, <2>9, SlotsKept DEF CountIInv
  <2>11. NoStrandedPlan'
    BY <1>1, <1>3, <2>2, <2>9, StrandedKept DEF CountIInv, Coming
  <2>12. SingleFlight' /\ CountMarked'
    BY <1>1, <2>1, <2>2, <2>5, QuietMarks
  <2> QED
    BY <2>7, <2>8, <2>10, <2>11, <2>12 DEF CountIInv
<1> QED
  BY <1>2, <1>3 DEF PopPlan

LEMMA ReleasePathsKeeps ==
  ASSUME CountIInv, NEW t \in Drainers, ReleasePaths(t) PROVE CountIInv'
<1> USE DrainersAreCounters
<1> DEFINE s == work[t].scope
           left == Without(automatic[s].requested, work[t].paths)
<1>1. /\ thread[t] = "release" /\ thread' = [thread EXCEPT ![t] = "pop"]
      /\ automatic' = [automatic EXCEPT ![s].requested = left]
      /\ work' = [work EXCEPT ![t] = NoPlan] /\ at' = [at EXCEPT ![t] = 0]
      /\ UNCHANGED <<explicit, plans, slots, counts, revision, main, newest, asked, spoiled>>
  BY DEF ReleasePaths, Go, Forget, mainVars
<1>2. CountTyped /\ CountPlaced /\ CountFresh /\ CountQueued
  BY DEF CountIInv
<1>3. s \in Scopes
  BY <1>1, <1>2 DEF CountPlaced, Work
<1>4. automatic[s] \in States /\ automatic[s].requested \in Seq(Listed)
      /\ Len(automatic[s].requested) <= CountLimit
  BY <1>2, <1>3 DEF CountTyped, CountQueued, States
<1>5. left \in Seq(Listed) /\ Len(left) <= CountLimit
  <2>1. /\ left \in Seq(Listed) /\ Len(left) \in Nat
        /\ Len(left) <= Len(automatic[s].requested)
    BY <1>4, KeepFacts DEF Without
  <2> HIDE DEF left
  <2> QED
    BY <1>4, <2>1, CountAssumption
<1> HIDE DEF left, s
<1>6. [automatic[s] EXCEPT !.requested = left] \in States
      /\ [automatic[s] EXCEPT !.requested = left].requested = left
  BY <1>4, <1>5 DEF States
<1>7. \A u \in Scopes : automatic'[u] =
        IF u = s THEN [automatic[s] EXCEPT !.requested = left] ELSE automatic[u]
  BY <1>1, <1>2, <1>3 DEF CountTyped
<1>8. automatic' \in [Scopes -> States]
  BY <1>1, <1>2, <1>3, <1>6 DEF CountTyped
<1>9. "pop" \in Moments \ {"reading"} /\ "pop" \in Holding /\ thread[t] \in Holding
  BY <1>1 DEF Moments, Holding
<1>10. work' \in [Counters -> Work \cup {NoPlan}] /\ at' \in [Counters -> Nat]
       /\ \A u \in Counters \ {t} : work'[u] = work[u] /\ at'[u] = at[u]
  BY <1>1, <1>2 DEF CountTyped
<1>11. CountTyped' /\ CountPlaced' /\ CountFresh'
  BY <1>1, <1>2, <1>8, <1>9, <1>10, ThreadStep DEF CountTyped
<1>12. CountQueued'
  <2>1. \A u \in Scopes : Len(automatic'[u].requested) <= CountLimit
    BY <1>2, <1>5, <1>6, <1>7 DEF CountQueued
  <2> QED
    BY <1>1, <1>2, <2>1 DEF CountQueued
<1>13. \A u \in Counters : thread'[u] = IF u = t THEN "pop" ELSE thread[u]
  BY <1>1, <1>2 DEF CountTyped
<1>14. SlotsExact' /\ NoStrandedPlan'
  BY <1>1, <1>9, <1>13, SlotsKept, StrandedKept DEF CountIInv, Coming
<1>15. SingleFlight' /\ CountMarked'
  BY <1>1, <1>9, <1>10, QuietMarks
<1> QED
  BY <1>11, <1>12, <1>14, <1>15 DEF CountIInv

LEMMA CheckKeeps ==
  ASSUME CountIInv, NEW t \in Counters, Check(t) PROVE CountIInv'
<1>1. thread[t] = "check"
      /\ UNCHANGED <<automatic, explicit, plans, slots, counts, revision, main, newest,
                     asked, work, at, spoiled>>
  BY DEF Check, Go, mainVars
<1>2. PICK to \in {"lookup", "superseded", "release"} :
        /\ thread' = [thread EXCEPT ![t] = to]
        /\ t \in Drainers => to \in {"lookup", "release"}
  <2>1. CASE Current(t)
    BY <2>1 DEF Check, Go
  <2>2. CASE ~Current(t) /\ t \in Sorters
    BY <2>2, DrainersAreCounters DEF Check, Go
  <2>3. CASE ~Current(t) /\ t \notin Sorters
    BY <2>3 DEF Check, Go
  <2> QED
    BY <2>1, <2>2, <2>3
<1>3. to \in Moments \ {"reading"} /\ thread[t] \in Holding
      /\ (t \in Drainers => to \in Holding)
  BY <1>1, <1>2 DEF Moments, Holding
<1>4. work[t] \in Work /\ at[t] \in 1..Len(work[t].paths)
  BY <1>1 DEF CountIInv, CountPlaced
<1>5. CountTyped' /\ CountPlaced' /\ CountFresh'
  BY <1>1, <1>2, <1>3, <1>4, ThreadStep DEF CountIInv, CountTyped
<1>6. CountQueued' /\ SlotsExact' /\ NoStrandedPlan'
  <2>1. t \in Drainers => (thread[t] \in Holding <=> to \in Holding)
    BY <1>3
  <2>2. t \in Drainers => to \in Coming
    BY <1>3 DEF Coming
  <2> QED
    BY <1>1, <1>2, <1>3, <2>1, <2>2, QuietStep
<1>7. SingleFlight' /\ CountMarked'
  BY <1>1, <1>2, <1>3, QuietMarks
<1> QED
  BY <1>5, <1>6, <1>7 DEF CountIInv

\* After a folder comes the next, or what follows the last.
LEMMA Advances ==
  ASSUME CountTyped, CountPlaced, NEW t \in Counters,
         thread[t] \in {"lookup", "reading"}, Advance(t)
  PROVE  \E to \in {"check", "answer", "pop"} :
           /\ thread' = [thread EXCEPT ![t] = to]
           /\ t \in Drainers => to \in {"check", "pop"}
           /\ work' \in [Counters -> Work \cup {NoPlan}] /\ at' \in [Counters -> Nat]
           /\ \A u \in Counters \ {t} : work'[u] = work[u] /\ at'[u] = at[u]
           /\ to = "check" => work'[t] \in Work /\ at'[t] \in 1..Len(work'[t].paths)
<1>1. work[t] \in Work /\ at[t] \in 1..Len(work[t].paths) /\ Len(work[t].paths) \in Nat
  <2>1. work[t] \in Work /\ at[t] \in 1..Len(work[t].paths)
    BY DEF CountPlaced
  <2>2. work[t].paths \in Seq(Listed)
    BY <2>1 DEF Work
  <2> QED
    BY <2>1, <2>2
<1>2. CASE at[t] < Len(work[t].paths)
  <2>1. thread' = [thread EXCEPT ![t] = "check"] /\ at' = [at EXCEPT ![t] = @ + 1]
        /\ work' = work
    BY <1>2 DEF Advance
  <2>2. at[t] + 1 \in 1..Len(work[t].paths) /\ at[t] + 1 \in Nat
    BY <1>1, <1>2
  <2>3. at' \in [Counters -> Nat] /\ at'[t] = at[t] + 1
        /\ \A u \in Counters \ {t} : at'[u] = at[u]
    BY <2>1, <2>2 DEF CountTyped
  <2> QED
    BY <1>1, <2>1, <2>2, <2>3 DEF CountTyped
<1>3. CASE ~(at[t] < Len(work[t].paths)) /\ t \in Sorters
  <2>1. thread' = [thread EXCEPT ![t] = "answer"] /\ work' = work /\ at' = at
    BY <1>3 DEF Advance
  <2> QED
    BY <1>3, <2>1, DrainersAreCounters DEF CountTyped
<1>4. CASE ~(at[t] < Len(work[t].paths)) /\ t \notin Sorters
  <2>1. thread' = [thread EXCEPT ![t] = "pop"] /\ work' = [work EXCEPT ![t] = NoPlan]
        /\ at' = [at EXCEPT ![t] = 0]
    BY <1>4 DEF Advance, Forget
  <2>2. work' \in [Counters -> Work \cup {NoPlan}] /\ at' \in [Counters -> Nat]
        /\ \A u \in Counters \ {t} : work'[u] = work[u] /\ at'[u] = at[u]
    BY <2>1 DEF CountTyped
  <2> QED
    BY <2>1, <2>2
<1> QED
  BY <1>2, <1>3, <1>4

LEMMA KeyTyped ==
  ASSUME CountPlaced, NEW t \in Counters, thread[t] \in {"lookup", "reading"}
  PROVE  Key(t) \in CountKeys
<1>1. work[t] \in Work /\ at[t] \in 1..Len(work[t].paths)
  BY DEF CountPlaced
<1>2. work[t].paths \in Seq(Listed) /\ work[t].gen \in Nat
  BY <1>1 DEF Work
<1> QED
  BY <1>1, <1>2 DEF Key, CountKeys

\* A count that is known, or that another thread reads, is passed over.
LEMMA LookupKnown ==
  ASSUME CountIInv, NEW t \in Counters, thread[t] = "lookup", Advance(t),
         counts' = Cache!Touch(counts, Key(t)),
         UNCHANGED <<automatic, explicit, plans, slots, revision, main, newest, asked, spoiled>>
  PROVE  CountIInv'
<1>1. PICK to \in {"check", "answer", "pop"} :
        /\ thread' = [thread EXCEPT ![t] = to]
        /\ t \in Drainers => to \in {"check", "pop"}
        /\ work' \in [Counters -> Work \cup {NoPlan}] /\ at' \in [Counters -> Nat]
        /\ \A u \in Counters \ {t} : work'[u] = work[u] /\ at'[u] = at[u]
        /\ to = "check" => work'[t] \in Work /\ at'[t] \in 1..Len(work'[t].paths)
  BY Advances DEF CountIInv
<1>2. to \in Moments \ {"reading"} /\ thread[t] \in Holding
      /\ (t \in Drainers => to \in Holding)
  BY <1>1 DEF Moments, Holding
<1>3. CacheOK(counts') /\ Pending(counts') = Pending(counts)
  BY CacheTouch DEF CountIInv, CountTyped
<1>4. CountTyped' /\ CountPlaced' /\ CountFresh'
  BY <1>1, <1>2, <1>3, ThreadStep DEF CountIInv, CountTyped
<1>5. CountQueued' /\ SlotsExact' /\ NoStrandedPlan'
  BY <1>1, <1>2, QuietStep DEF Coming
<1>6. SingleFlight' /\ CountMarked'
  BY <1>1, <1>2, <1>3, QuietMarks
<1> QED
  BY <1>4, <1>5, <1>6 DEF CountIInv

\* An unknown count is marked and read: nobody else reads it, or its mark was lost.
LEMMA LookupUnknown ==
  ASSUME CountIInv, NEW t \in Counters, Known(Key(t)) = "unknown",
         Go(t, "lookup", "reading"), Store(Key(t), "pending"),
         UNCHANGED <<automatic, explicit, plans, slots, revision, main, newest, asked,
                     work, at>>
  PROVE  CountIInv'
<1>1. thread[t] = "lookup" /\ thread' = [thread EXCEPT ![t] = "reading"]
      /\ counts' = Cache!Insert(counts, Key(t), "pending", 1)
      /\ spoiled' = spoiled \cup (Pending(counts) \ (Pending(counts') \cup {Key(t)}))
  BY DEF Go, Store
<1>2. CountTyped /\ CountPlaced /\ CountFresh /\ SingleFlight /\ CountMarked
  BY DEF CountIInv
<1>3. Key(t) \in CountKeys /\ "pending" \in CountValues
  BY <1>1, <1>2, KeyTyped DEF CountValues
<1>4. CacheOK(counts') /\ Key(t) \in Pending(counts')
  BY <1>1, <1>2, <1>3, CacheInsert DEF CountTyped
<1>5. Key(t) \notin Pending(counts)
  BY <1>2, UnknownIsFree DEF CountTyped
<1>6. \A u \in Counters : Key(u)' = Key(u)
                          /\ thread'[u] = IF u = t THEN "reading" ELSE thread[u]
  BY <1>1, <1>2 DEF Key, CountTyped
<1>7. "reading" \in Moments /\ thread[t] \in Holding /\ "reading" \in Holding
  BY <1>1 DEF Moments, Holding
<1>8. CountTyped' /\ CountPlaced' /\ CountFresh'
  <2>1. work[t] \in Work /\ at[t] \in 1..Len(work[t].paths)
    BY <1>1, <1>2 DEF CountPlaced
  <2> QED
    BY <1>1, <1>2, <1>4, <1>7, <2>1, ThreadStep DEF CountTyped
<1>9. CountQueued'
  BY DEF CountIInv, CountQueued
<1>10. SlotsExact' /\ NoStrandedPlan'
  BY <1>6, <1>7, DrainersAreCounters, SlotsKept, StrandedKept DEF CountIInv, Coming
<1>11. CountMarked'
  <2> SUFFICES ASSUME NEW u \in Counters, thread'[u] = "reading"
               PROVE  Key(u)' \in Pending(counts') \cup spoiled'
    BY DEF CountMarked
  <2> QED
    BY <1>1, <1>2, <1>4, <1>6 DEF CountMarked
<1>12. SingleFlight'
  <2> SUFFICES ASSUME NEW u \in Counters, NEW v \in Counters, thread'[u] = "reading",
                      thread'[v] = "reading", Key(u)' = Key(v)', u # v
               PROVE  Key(u)' \in spoiled'
    BY DEF SingleFlight
  <2>1. ASSUME NEW w \in Counters, w # t, thread'[w] = "reading", Key(w) = Key(t)
        PROVE  Key(t) \in spoiled
    BY <1>2, <1>5, <1>6, <2>1 DEF CountMarked
  <2> QED
    BY <1>1, <1>2, <1>6, <2>1 DEF SingleFlight
<1> QED
  BY <1>8, <1>9, <1>10, <1>11, <1>12 DEF CountIInv

\* The count read replaces the mark; nobody else reads under that mark.
LEMMA ResolveKeeps ==
  ASSUME CountIInv, NEW t \in Counters, Resolve(t) PROVE CountIInv'
<1>1. thread[t] = "reading" /\ Advance(t)
      /\ UNCHANGED <<automatic, explicit, plans, slots, revision, main, newest, asked>>
  BY DEF Resolve, mainVars
<1>2. PICK found \in {"exact", "unavailable"} : Store(Key(t), found)
  BY DEF Resolve
<1>3. counts' = Cache!Insert(counts, Key(t), found, 1)
      /\ spoiled' = spoiled \cup (Pending(counts) \ (Pending(counts') \cup {Key(t)}))
  BY <1>2 DEF Store
<1>4. CountTyped /\ CountPlaced /\ CountFresh /\ SingleFlight /\ CountMarked
  BY DEF CountIInv
<1>5. PICK to \in {"check", "answer", "pop"} :
        /\ thread' = [thread EXCEPT ![t] = to]
        /\ t \in Drainers => to \in {"check", "pop"}
        /\ work' \in [Counters -> Work \cup {NoPlan}] /\ at' \in [Counters -> Nat]
        /\ \A u \in Counters \ {t} : work'[u] = work[u] /\ at'[u] = at[u]
        /\ to = "check" => work'[t] \in Work /\ at'[t] \in 1..Len(work'[t].paths)
  BY <1>1, <1>4, Advances
<1>6. to \in Moments \ {"reading"} /\ thread[t] \in Holding
      /\ (t \in Drainers => to \in Holding)
  BY <1>1, <1>5 DEF Moments, Holding
<1>7. CacheOK(counts')
  <2>1. Key(t) \in CountKeys /\ found \in CountValues
    BY <1>1, <1>4, KeyTyped DEF CountValues
  <2> QED
    BY <1>3, <1>4, <2>1, CacheInsert DEF CountTyped
<1>8. CountTyped' /\ CountPlaced' /\ CountFresh'
  BY <1>1, <1>4, <1>5, <1>6, <1>7, ThreadStep DEF CountTyped
<1>9. CountQueued' /\ SlotsExact' /\ NoStrandedPlan'
  BY <1>1, <1>5, <1>6, QuietStep DEF Coming
<1>10. \A u \in Counters : thread'[u] = "reading" =>
         u # t /\ thread[u] = "reading" /\ Key(u)' = Key(u)
  <2>1. \A u \in Counters : thread'[u] = IF u = t THEN to ELSE thread[u]
    BY <1>4, <1>5 DEF CountTyped
  <2> QED
    BY <1>5, <1>6, <2>1 DEF Key
<1>11. CountMarked'
  <2> SUFFICES ASSUME NEW u \in Counters, thread'[u] = "reading"
               PROVE  Key(u) \in Pending(counts') \cup spoiled'
    BY <1>10 DEF CountMarked
  <2>1. CASE Key(u) = Key(t)
    BY <1>1, <1>3, <1>4, <1>10, <2>1 DEF SingleFlight
  <2>2. CASE Key(u) # Key(t)
    BY <1>3, <1>4, <1>10, <2>2 DEF CountMarked
  <2> QED
    BY <2>1, <2>2
<1>12. SingleFlight'
  <2> SUFFICES ASSUME NEW u \in Counters, NEW v \in Counters, thread'[u] = "reading",
                      thread'[v] = "reading", Key(u)' = Key(v)', u # v
               PROVE  Key(u)' \in spoiled'
    BY DEF SingleFlight
  <2> QED
    BY <1>3, <1>4, <1>10 DEF SingleFlight
<1> QED
  BY <1>8, <1>9, <1>11, <1>12 DEF CountIInv

LEMMA BeginSortKeeps ==
  ASSUME CountIInv, NEW t \in Sorters, NEW s \in Scopes, BeginSort(t, s) PROVE CountIInv'
<1> DEFINE begun == [token |-> explicit[s].token + 1, ctx |-> newest[s], requested |-> <<>>]
<1>1. /\ thread[t] = "none" /\ at' = [at EXCEPT ![t] = 1]
      /\ explicit' = [explicit EXCEPT ![s] = begun]
      /\ UNCHANGED <<automatic, plans, slots, counts, revision, main, newest, asked, spoiled>>
  BY DEF BeginSort, mainVars
<1>2. PICK rows \in Viewports, to \in {"answer", "check"} :
        /\ work' = [work EXCEPT ![t] = [scope |-> s, token |-> explicit[s].token + 1,
                      ctx |-> newest[s], gen |-> revision, paths |-> rows]]
        /\ thread' = [thread EXCEPT ![t] = to]
        /\ to = "check" => rows # <<>>
  BY DEF BeginSort
<1>3. CountTyped /\ CountPlaced /\ CountFresh /\ t \in Counters /\ t \notin Drainers
  BY DrainersAreCounters DEF CountIInv, Counters
<1>4. begun \in States /\ explicit[s].token + 1 \in Nat /\ newest[s] \in Nat /\ revision \in Nat
  BY <1>3 DEF CountTyped, States
<1>5. rows \in Seq(Listed)
  BY CountAssumption
<1> DEFINE task == [scope |-> s, token |-> explicit[s].token + 1, ctx |-> newest[s],
                    gen |-> revision, paths |-> rows]
<1>6. task \in Work /\ task.paths = rows
  BY <1>4, <1>5 DEF Work
<1> HIDE DEF begun
<1>7. work' = [work EXCEPT ![t] = task]
  BY <1>2
<1> HIDE DEF task
<1>8. work' \in [Counters -> Work \cup {NoPlan}] /\ at' \in [Counters -> Nat]
      /\ work'[t] = task /\ at'[t] = 1
      /\ \A u \in Counters \ {t} : work'[u] = work[u] /\ at'[u] = at[u]
  BY <1>1, <1>3, <1>6, <1>7 DEF CountTyped
<1>9. to = "check" => work'[t] \in Work /\ at'[t] \in 1..Len(work'[t].paths)
  BY <1>2, <1>5, <1>6, <1>8
<1>10. to \in Moments \ {"reading"}
  BY DEF Moments, Holding
<1>11. explicit' \in [Scopes -> States]
  BY <1>1, <1>3, <1>4 DEF CountTyped
<1>12. CountTyped' /\ CountPlaced' /\ CountFresh'
  BY <1>1, <1>2, <1>3, <1>8, <1>9, <1>10, <1>11, ThreadStep DEF CountTyped
<1>13. CountQueued' /\ SlotsExact' /\ NoStrandedPlan'
  BY <1>1, <1>2, <1>3, <1>8, <1>10, QuietStep
<1>14. SingleFlight' /\ CountMarked'
  BY <1>1, <1>2, <1>3, <1>8, <1>10, QuietMarks
<1> QED
  BY <1>12, <1>13, <1>14 DEF CountIInv

LEMMA AnswerSortKeeps ==
  ASSUME CountIInv, NEW t \in Sorters, AnswerSort(t) PROVE CountIInv'
<1>1. /\ thread[t] = "answer"
      /\ work' = [work EXCEPT ![t] = NoPlan] /\ at' = [at EXCEPT ![t] = 0]
      /\ UNCHANGED <<automatic, explicit, plans, slots, counts, revision, main, newest,
                     asked, spoiled>>
  BY DEF AnswerSort, Go, Forget, mainVars
<1>2. PICK to \in {"ready", "superseded"} : thread' = [thread EXCEPT ![t] = to]
  BY DEF AnswerSort, Go
<1>3. CountTyped /\ CountPlaced /\ CountFresh /\ t \in Counters /\ t \notin Drainers
  BY DrainersAreCounters DEF CountIInv, Counters
<1>4. work' \in [Counters -> Work \cup {NoPlan}] /\ at' \in [Counters -> Nat]
      /\ \A u \in Counters \ {t} : work'[u] = work[u] /\ at'[u] = at[u]
  BY <1>1, <1>3 DEF CountTyped
<1>5. to \in Moments \ {"reading"}
  BY DEF Moments, Holding
<1>6. CountTyped' /\ CountPlaced' /\ CountFresh'
  BY <1>1, <1>2, <1>3, <1>4, <1>5, ThreadStep DEF CountTyped
<1>7. CountQueued' /\ SlotsExact' /\ NoStrandedPlan'
  BY <1>1, <1>2, <1>3, <1>4, <1>5, QuietStep
<1>8. SingleFlight' /\ CountMarked'
  BY <1>1, <1>2, <1>3, <1>4, <1>5, QuietMarks
<1> QED
  BY <1>6, <1>7, <1>8 DEF CountIInv

-----------------------------------------------------------------------------
(* Item counts: the result.                                                *)

LEMMA CountStarts == CountInit => CountIInv
<1> SUFFICES ASSUME CountInit PROVE CountIInv
  OBVIOUS
<1> USE DEF CountInit
<1>1. CountTyped
  <2>1. Nothing \in States /\ "none" \in Moments /\ 0 \in Nat
    BY DEF Nothing, States, Moments
  <2>2. CacheOK(counts)
    BY CacheStarts
  <2>3. revision \in 1..MaxRevisions /\ asked \in 0..MaxRequests
    BY CountAssumption
  <2> QED
    BY <2>1, <2>2, <2>3 DEF CountTyped
<1>2. CountPlaced
  BY DEF CountPlaced
<1>3. CountFresh
  BY DrainersAreCounters DEF CountFresh
<1>4. CountQueued
  BY CountAssumption DEF CountQueued, Nothing
<1>5. SlotsExact
  <2>1. {t \in Drainers : thread[t] \in Holding} = {}
    BY DrainersAreCounters DEF Holding
  <2>2. Cardinality({t \in Drainers : thread[t] \in Holding}) = 0
    BY <2>1, FS_EmptySet
  <2>3. 0 <= CountWorkers
    BY CountAssumption
  <2> QED
    BY <2>2, <2>3 DEF SlotsExact
<1>6. NoStrandedPlan
  BY DEF NoStrandedPlan
<1>7. SingleFlight /\ CountMarked
  BY DEF SingleFlight, CountMarked
<1> QED
  BY <1>1, <1>2, <1>3, <1>4, <1>5, <1>6, <1>7 DEF CountIInv

LEMMA CountStutters ==
  ASSUME CountIInv, UNCHANGED countVars PROVE CountIInv'
<1>1. UNCHANGED <<automatic, explicit, plans, slots, counts, revision, main, newest,
                  asked, thread, work, at, spoiled>>
  BY DEF countVars
<1>2. CountTyped' /\ CountPlaced' /\ CountFresh' /\ CountQueued'
  BY <1>1 DEF CountIInv, CountTyped, CountPlaced, CountFresh, CountQueued
<1>3. SlotsExact' /\ NoStrandedPlan' /\ SingleFlight' /\ CountMarked'
  BY <1>1, SlotsKept, StrandedKept, MarkedKept DEF CountIInv
<1> QED
  BY <1>2, <1>3 DEF CountIInv

LEMMA CountSteps == CountIInv /\ [CountNext]_countVars => CountIInv'
<1> SUFFICES ASSUME CountIInv, [CountNext]_countVars PROVE CountIInv'
  OBVIOUS
<1>1. CASE UNCHANGED countVars
  BY <1>1, CountStutters
<1>2. CASE \E s \in Scopes : RequestVisible(s) \/ CancelTab(s)
  BY <1>2, RequestVisibleKeeps, CancelTabKeeps
<1>3. CASE PushPlan \/ ClaimSlot \/ DropPlans
  BY <1>3, PushPlanKeeps, ClaimSlotKeeps, DropPlansKeeps
<1>4. CASE \E changed \in {{}} \cup {{d} : d \in Listed} : FoldPatch(changed)
  BY <1>4, FoldPatchKeeps
<1>8. CASE \E v \in voids : InvalidateGeneration(v)
  BY <1>8, InvalidateGenerationKeeps
<1>5. CASE \E t \in Drainers : Drains(t)
  BY <1>5, DrainMoves, LeaveKeeps, ReclaimKeeps, PopPlanKeeps, ReleasePathsKeeps DEF Drains
<1>6. CASE \E t \in Counters : CountsFolder(t)
  <2> SUFFICES ASSUME NEW t \in Counters, CountsFolder(t) PROVE CountIInv'
    BY <1>6
  <2>1. CASE Check(t)
    BY <2>1, CheckKeeps
  <2>2. CASE Lookup(t)
    <3>1. thread[t] = "lookup"
          /\ UNCHANGED <<automatic, explicit, plans, slots, revision, main, newest, asked>>
      BY <2>2 DEF Lookup, mainVars
    <3>2. CASE Known(Key(t)) # "unknown"
      BY <2>2, <3>1, <3>2, LookupKnown DEF Lookup
    <3>3. CASE Known(Key(t)) = "unknown"
      BY <2>2, <3>1, <3>3, LookupUnknown DEF Lookup
    <3> QED
      BY <3>2, <3>3
  <2>3. CASE Resolve(t)
    BY <2>3, ResolveKeeps
  <2> QED
    BY <2>1, <2>2, <2>3 DEF CountsFolder
<1>7. CASE \E t \in Sorters : AnswerSort(t) \/ \E s \in Scopes : BeginSort(t, s)
  BY <1>7, AnswerSortKeeps, BeginSortKeeps
<1> QED
  BY <1>1, <1>2, <1>3, <1>4, <1>5, <1>6, <1>7, <1>8 DEF CountNext

LEMMA CountIInvSuffices == CountIInv => CountInv
<1> SUFFICES ASSUME CountIInv PROVE CountInv
  OBVIOUS
<1>1. CountTypeOK
  BY DEF CountIInv, CountTyped, CountQueued, CacheOK, CountTypeOK
<1> QED
  BY <1>1 DEF CountIInv, CountInv

\* Item counts (item_counts/mod.rs): the slots taken are the drainers that hold one,
\* a queued plan has a drainer to come for it unless the executor has refused one,
\* a folder is read by one thread at a time unless its mark was lost, and the cache
\* keeps its limits - for any limits, folders, viewports and sorts.
THEOREM CountsServed == CountSpec => []CountInv
<1>1. CountInit => CountIInv
  BY CountStarts
<1>2. CountIInv /\ [CountNext]_countVars => CountIInv'
  BY CountSteps
<1>3. CountIInv => CountInv
  BY CountIInvSuffices
<1> QED
  BY <1>1, <1>2, <1>3, PTL DEF CountSpec

-----------------------------------------------------------------------------
(* Thumbnails: the invariant.                                              *)

\* What is proved of the cache, at the limits of the thumbnails.
ThumbFacts == INSTANCE BoundedCache_proofs WITH MaxEntries <- ThumbCacheCap,
                                                MaxWeight <- ThumbCacheCap

Held == {"generate", "preview", "finish"}
Told == {"publish", "enqueue"}
Views == {"low", "lowTried", "high", "unavailable", "failed"}
Events == [to : ThumbScopes, file : Files]
Works ==
  [at : Held, file : Files, result : Finals \cup {"none"}, subs : SUBSET ThumbScopes]
  \cup [at : Told, file : Files, result : Finals, subs : SUBSET ThumbScopes]
  \cup [at : {"idle", "signal"}, file : {"none"}, result : {"none"}, subs : {{}}]
Looks ==
  [does : {"look", "answer", "cut"}, scope : ThumbScopes, rev : 1..MaxThumbRev,
   wanted : SUBSET Files, todo : SUBSET Files, pending : SUBSET Files, cuts : SUBSET Files]
Calls == Looks \cup [does : {"cut"}, cuts : SUBSET Files] \cup {NoCall}

HoldsThumb(w, f) == thumb[w].file = f /\ thumb[w].at \in Held
ShownOK(c) == ThumbFacts!Exact(c, Files, Views) /\ Records!WithinLimits(c)

ThumbTyped ==
  /\ thumb \in [ThumbWorkers -> Works] /\ call \in Calls
  /\ jobs \in [Files -> [live : BOOLEAN, active : BOOLEAN, subs : SUBSET ThumbScopes]]
  /\ thumbQueue \in Seq(Files) /\ scopeRev \in [ThumbScopes -> 0..MaxThumbRev]
  /\ stopped \in BOOLEAN /\ cut \subseteq Files /\ owed \subseteq ThumbScopes \X Files
  /\ batch \in Seq(Events) /\ Len(batch) < BatchMax
  /\ timer \in {"wait", "sleep"} /\ signalled \in BOOLEAN /\ flushed \in BOOLEAN
  /\ ShownOK(shown)

\* A job waits in the queue or is in the hands of a worker of its own; after the
\* shutdown a worker may still hold what was a job.
ThumbPlaced ==
  /\ IsInjective(thumbQueue)
  /\ Range(thumbQueue) = {f \in Files : jobs[f].live /\ ~jobs[f].active}
  /\ \A f \in Files : ~jobs[f].live => jobs[f] = NoThumb
  /\ stopped => thumbQueue = <<>> /\ \A f \in Files : jobs[f] = NoThumb
  /\ \A w \in ThumbWorkers, f \in Files :
       HoldsThumb(w, f) => stopped \/ (jobs[f].live /\ jobs[f].active)
  /\ \A v, w \in ThumbWorkers, f \in Files :
       HoldsThumb(v, f) /\ HoldsThumb(w, f) => v = w
  /\ \A f \in Files : jobs[f].live /\ jobs[f].active =>
       \E w \in ThumbWorkers : HoldsThumb(w, f)

ThumbIInv == ThumbTyped /\ ThumbPlaced /\ NoWishForgotten /\ NoStrandedBatch
-----------------------------------------------------------------------------
(* Thumbnails: the cache.                                                  *)

\* The thumbnails' cache is the one the facts are about.
LEMMA SameRecordSize ==
  \A S : Records!Cardinality(S) = ThumbFacts!Cardinality(S)
  BY DEF Records!Cardinality, ThumbFacts!Cardinality

LEMMA SameRecords ==
  /\ Records!Empty = ThumbFacts!Empty
  /\ \A c, k : Records!RemoveKey(c, k) = ThumbFacts!RemoveKey(c, k)
  /\ \A c, k : Records!Touch(c, k) = ThumbFacts!Touch(c, k)
  /\ \A c, k, v, w : Records!Insert(c, k, v, w) = ThumbFacts!Insert(c, k, v, w)
  /\ \A c : Records!WithinLimits(c) <=> ThumbFacts!WithinLimits(c)
<1>1. ASSUME NEW s, NEW S PROVE Records!Keep(s, S) = ThumbFacts!Keep(s, S)
  <2> DEFINE kept       == {i \in DOMAIN s : s[i] \in S}
             records(k) == CHOOSE i \in kept : Records!Cardinality({j \in kept : j <= i}) = k
             facts(k) == CHOOSE i \in kept : ThumbFacts!Cardinality({j \in kept : j <= i}) = k
  <2>1. ASSUME NEW k PROVE records(k) = facts(k)
    <3> HIDE DEF kept
    <3> QED
      BY SameRecordSize, Zenon
  <2>2. Records!Keep(s, S) = [k \in 1..Records!Cardinality(kept) |-> s[records(k)]]
    BY DEF Records!Keep
  <2>3. ThumbFacts!Keep(s, S) = [k \in 1..ThumbFacts!Cardinality(kept) |-> s[facts(k)]]
    BY DEF ThumbFacts!Keep
  <2>4. Records!Cardinality(kept) = ThumbFacts!Cardinality(kept)
    BY SameRecordSize
  <2> HIDE DEF kept, records, facts
  <2> QED
    BY <2>1, <2>2, <2>3, <2>4
<1>2. \A s : Records!Weights(s) = ThumbFacts!Weights(s)
  BY SameRecordSize DEF Records!Weights, Records!Units, ThumbFacts!Weights, ThumbFacts!Units
<1>3. \A c, keys : Records!Retain(c, keys) = ThumbFacts!Retain(c, keys)
  BY <1>1, <1>2 DEF Records!Retain, Records!Saturating, Records!Range,
     ThumbFacts!Retain, ThumbFacts!Saturating, ThumbFacts!Range
<1>4. \A c, k : Records!RemoveKey(c, k) = ThumbFacts!RemoveKey(c, k)
  BY <1>3 DEF Records!RemoveKey, Records!Keys, ThumbFacts!RemoveKey, ThumbFacts!Keys
<1>5. \A c, k : Records!Record(c, k) = ThumbFacts!Record(c, k)
  BY DEF Records!Record, ThumbFacts!Record
<1>6. \A c, k : Records!Touch(c, k) = ThumbFacts!Touch(c, k)
  BY <1>4, <1>5 DEF Records!Touch, Records!Has, Records!Keys, ThumbFacts!Touch,
     ThumbFacts!Has, ThumbFacts!Keys
<1>7. \A c, n : Records!Dropped(c, n) = ThumbFacts!Dropped(c, n)
  BY <1>2 DEF Records!Dropped, Records!Saturating, ThumbFacts!Dropped, ThumbFacts!Saturating
<1>8. \A c : Records!Evict(c) = ThumbFacts!Evict(c)
  <2> TAKE c
  <2>1. Records!Evict(c) = ThumbFacts!Evict(c)
    BY <1>7 DEF Records!Evict, ThumbFacts!Evict
  <2> QED
    BY <2>1
<1>9. \A c, k, v, w : Records!Insert(c, k, v, w) = ThumbFacts!Insert(c, k, v, w)
  BY <1>4, <1>8 DEF Records!Insert, ThumbFacts!Insert
<1>10. Records!Empty = ThumbFacts!Empty
  BY DEF Records!Empty, ThumbFacts!Empty
<1>11. \A c : Records!WithinLimits(c) <=> ThumbFacts!WithinLimits(c)
  BY <1>2 DEF Records!WithinLimits, ThumbFacts!WithinLimits
<1> QED
  BY <1>4, <1>6, <1>9, <1>10, <1>11

LEMMA ShownStarts == ShownOK(Records!Empty)
<1>1. ThumbCacheCap \in Nat
  BY ThumbAssumption
<1>2. /\ ThumbFacts!Exact(ThumbFacts!Empty, Files, Views)
      /\ ThumbFacts!WithinLimits(ThumbFacts!Empty)
  BY <1>1, ThumbFacts!EmptyExact
<1> QED
  BY <1>2, SameRecords DEF ShownOK

LEMMA ShownInsert ==
  ASSUME NEW c, ShownOK(c), NEW f \in Files, NEW v \in Views
  PROVE  ShownOK(Records!Insert(c, f, v, 1))
<1>1. ThumbCacheCap \in Nat /\ 1 \in Nat
  BY ThumbAssumption
<1>2. ThumbFacts!Exact(c, Files, Views)
  BY DEF ShownOK
<1>3. /\ ThumbFacts!Exact(ThumbFacts!Insert(c, f, v, 1), Files, Views)
      /\ ThumbFacts!WithinLimits(ThumbFacts!Insert(c, f, v, 1))
  BY <1>1, <1>2, ThumbFacts!InsertExact
<1> QED
  BY <1>3, SameRecords DEF ShownOK

LEMMA ShownTouch ==
  ASSUME NEW c, ShownOK(c), NEW f
  PROVE  ShownOK(Records!Touch(c, f))
<1>1. ThumbFacts!Exact(c, Files, Views) /\ ThumbFacts!WithinLimits(c)
  BY SameRecords DEF ShownOK
<1>2. /\ ThumbFacts!Exact(ThumbFacts!Touch(c, f), Files, Views)
      /\ ThumbFacts!WithinLimits(ThumbFacts!Touch(c, f))
  BY <1>1, ThumbFacts!TouchExact
<1> QED
  BY <1>2, SameRecords DEF ShownOK

LEMMA ShownRemove ==
  ASSUME NEW c, ShownOK(c), NEW f
  PROVE  ShownOK(Records!RemoveKey(c, f))
<1> DEFINE keys == ThumbFacts!Keys(c) \ {f}
<1>1. ThumbCacheCap \in Nat
  BY ThumbAssumption
<1>2. ThumbFacts!Exact(c, Files, Views) /\ ThumbFacts!WithinLimits(c)
  BY SameRecords DEF ShownOK
<1> HIDE DEF keys
<1>3. /\ ThumbFacts!Exact(ThumbFacts!Retain(c, keys), Files, Views)
      /\ ThumbFacts!WithinLimits(ThumbFacts!Retain(c, keys))
  BY <1>1, <1>2, ThumbFacts!RetainExact, ThumbFacts!RetainKeepsLimits
<1>4. Records!RemoveKey(c, f) = ThumbFacts!Retain(c, keys)
  BY SameRecords DEF ThumbFacts!RemoveKey, keys
<1> QED
  BY <1>3, <1>4, SameRecords DEF ShownOK

\* A preview that may be retried keeps its place.
LEMMA ShownRetry ==
  ASSUME NEW c, ShownOK(c), NEW f
  PROVE  ShownOK([c EXCEPT !.items = [i \in DOMAIN @ |->
                   IF @[i].key = f THEN [@[i] EXCEPT !.value = "low"] ELSE @[i]]])
<1> DEFINE t == [i \in DOMAIN c.items |->
                   IF c.items[i].key = f THEN [c.items[i] EXCEPT !.value = "low"] ELSE c.items[i]]
<1>1. ThumbFacts!Exact(c, Files, Views) /\ ThumbFacts!WithinLimits(c)
  BY SameRecords DEF ShownOK
<1>2. PICK s \in Seq(ThumbFacts!Rows(Files, Views)) : s = c.items
  BY <1>1 DEF ThumbFacts!Exact
<1>3. PICK n \in Nat : n = Len(s)
  OBVIOUS
<1>4. DOMAIN s = 1..n /\ DOMAIN t = 1..n
  BY <1>2, <1>3
<1>5. ASSUME NEW i \in 1..n
      PROVE  /\ t[i] \in ThumbFacts!Rows(Files, Views)
             /\ t[i].key = s[i].key /\ t[i].weight = s[i].weight
  <2>1. s[i] \in ThumbFacts!Rows(Files, Views)
    BY <1>3
  <2>2. t[i] = IF s[i].key = f THEN [s[i] EXCEPT !.value = "low"] ELSE s[i]
    BY <1>2, <1>4
  <2> HIDE DEF t
  <2> QED
    BY <2>1, <2>2 DEF ThumbFacts!Rows, Views
<1>6. t \in Seq(ThumbFacts!Rows(Files, Views))
  <2> HIDE DEF t
  <2>1. t = [i \in 1..n |-> t[i]]
    BY <1>4 DEF t
  <2> QED
    BY <1>5, <2>1
<1> HIDE DEF t
<1>7. LET d == [c EXCEPT !.items = t] IN
        ThumbFacts!Exact(d, Files, Views) /\ (ThumbFacts!WithinLimits(c) => ThumbFacts!WithinLimits(d))
  BY <1>1, <1>2, <1>4, <1>5, <1>6, ThumbFacts!RevalueExact
<1>8. ShownOK([c EXCEPT !.items = t])
  BY <1>1, <1>7, SameRecords DEF ShownOK
<1> QED
  BY <1>8 DEF t

\* What is found in the cache is what is there.
LEMMA ShownState ==
  ASSUME ShownOK(shown), NEW f
  PROVE  StateOf(f) \in Views \cup {"none"}
<1>1. PICK s \in Seq(ThumbFacts!Rows(Files, Views)) : s = shown.items
  BY DEF ShownOK, ThumbFacts!Exact
<1>2. CASE ~Records!Has(shown, f)
  BY <1>2 DEF StateOf
<1>3. CASE Records!Has(shown, f)
  <2> DEFINE i == CHOOSE i \in DOMAIN s : s[i].key = f
  <2>1. i \in DOMAIN s
    BY <1>1, <1>3 DEF Records!Has, Records!Keys
  <2>2. StateOf(f) = s[i].value
    BY <1>1, <1>3 DEF StateOf, Records!Value, Records!Record
  <2> HIDE DEF i
  <2>3. s[i] \in ThumbFacts!Rows(Files, Views)
    BY <2>1
  <2> QED
    BY <2>2, <2>3 DEF ThumbFacts!Rows
<1> QED
  BY <1>2, <1>3

LEMMA ShownStored ==
  ASSUME ShownOK(shown), NEW f \in Files, NEW r \in Finals \cup {"low"}, NEW same \in BOOLEAN
  PROVE  ShownOK(Stored(f, r, same))
<1>1. "lowTried" \in Views /\ r \in Views
  BY DEF Views, Finals
<1> QED
  BY <1>1, ShownInsert, ShownTouch DEF Stored

\* A finite set as a sequence: each of its elements once.
LEMMA SequenceOf ==
  ASSUME NEW S, IsFiniteSet(S)
  PROVE  /\ SetToSeq(S) \in Seq(S) /\ Len(SetToSeq(S)) = Cardinality(S)
         /\ Cardinality(S) \in Nat
         /\ Range(SetToSeq(S)) = S /\ IsInjective(SetToSeq(S))
<1> DEFINE n == Cardinality(S)
           q == SetToSeq(S)
<1>1. n \in Nat /\ ExistsBijection(1..n, S)
  BY FS_CardinalityType
<1>2. \E f \in [1..n -> S] : IsInjective(f)
  BY <1>1 DEF ExistsBijection, Bijection, Injection
<1>3. q \in [1..n -> S] /\ IsInjective(q)
  BY <1>2 DEF SetToSeq
<1> HIDE DEF q
<1>4. Cardinality(1..n) = n
  BY <1>1, FS_Interval
<1>5. q \in Surjection(1..n, S)
  <2>1. q \in Injection(1..n, S)
    BY <1>3 DEF Injection
  <2> HIDE DEF n
  <2>2. n = Cardinality(S)
    BY DEF n
  <2> QED
    BY <1>4, <2>1, <2>2, FS_Injection
<1> HIDE DEF n
<1>6. Range(q) = S
  BY <1>3, <1>5 DEF Surjection, Range
<1>7. q \in Seq(S) /\ Len(q) = n
  BY <1>1, <1>3
<1> QED
  BY <1>1, <1>3, <1>6, <1>7 DEF q, n

\* Kept apart, and put in a row.
LEMMA KeepInjective ==
  ASSUME NEW T, NEW s \in Seq(T), IsInjective(s), NEW S
  PROVE  IsInjective(Keep(s, S))
<1>1. PICK f \in [DOMAIN Keep(s, S) -> DOMAIN s] :
        \A i, j \in DOMAIN Keep(s, S) :
          Keep(s, S)[i] = s[f[i]] /\ (f[i] = f[j] => i = j)
  BY KeepFacts
<1> QED
  BY <1>1 DEF IsInjective

LEMMA InARow ==
  ASSUME NEW T, NEW s \in Seq(T), NEW t \in Seq(T)
  PROVE  /\ s \o t \in Seq(T) /\ Range(s \o t) = Range(s) \cup Range(t)
         /\ IsInjective(s) /\ IsInjective(t) /\ Range(s) \cap Range(t) = {}
              => IsInjective(s \o t)
<1>1. s \o t \in Seq(T) /\ Len(s \o t) = Len(s) + Len(t)
  OBVIOUS
<1>2. \A i \in 1..Len(s) + Len(t) :
        (s \o t)[i] = IF i <= Len(s) THEN s[i] ELSE t[i - Len(s)]
  OBVIOUS
<1>3. DOMAIN (s \o t) = 1..Len(s) + Len(t) /\ DOMAIN s = 1..Len(s) /\ DOMAIN t = 1..Len(t)
      /\ Len(s) \in Nat /\ Len(t) \in Nat
  BY <1>1
<1>4. Range(s \o t) \subseteq Range(s) \cup Range(t)
  <2> SUFFICES ASSUME NEW x \in Range(s \o t) PROVE x \in Range(s) \cup Range(t)
    OBVIOUS
  <2>1. PICK i \in 1..Len(s) + Len(t) : x = (s \o t)[i]
    BY <1>3 DEF Range
  <2>2. CASE i <= Len(s)
    BY <1>2, <1>3, <2>1, <2>2 DEF Range
  <2>3. CASE i > Len(s)
    <3>1. i - Len(s) \in DOMAIN t /\ x = t[i - Len(s)]
      BY <1>2, <1>3, <2>1, <2>3
    <3> QED
      BY <3>1 DEF Range
  <2> QED
    BY <2>2, <2>3, <1>3
<1>5. Range(s) \subseteq Range(s \o t)
  <2> SUFFICES ASSUME NEW x \in Range(s) PROVE x \in Range(s \o t)
    OBVIOUS
  <2>1. PICK i \in 1..Len(s) : x = s[i]
    BY <1>3 DEF Range
  <2>2. i \in DOMAIN (s \o t) /\ (s \o t)[i] = x
    BY <1>2, <1>3, <2>1
  <2> QED
    BY <2>2 DEF Range
<1>6. Range(t) \subseteq Range(s \o t)
  <2> SUFFICES ASSUME NEW x \in Range(t) PROVE x \in Range(s \o t)
    OBVIOUS
  <2>1. PICK i \in 1..Len(t) : x = t[i]
    BY <1>3 DEF Range
  <2>2. i + Len(s) \in DOMAIN (s \o t) /\ (s \o t)[i + Len(s)] = x
    BY <1>2, <1>3, <2>1
  <2> QED
    BY <2>2 DEF Range
<1>7. ASSUME IsInjective(s), IsInjective(t), Range(s) \cap Range(t) = {}
      PROVE  IsInjective(s \o t)
  <2> SUFFICES ASSUME NEW i \in 1..Len(s) + Len(t), NEW j \in 1..Len(s) + Len(t),
                      (s \o t)[i] = (s \o t)[j]
               PROVE  i = j
    BY <1>3 DEF IsInjective
  <2>1. ASSUME NEW a \in 1..Len(s), NEW b \in 1..Len(t) PROVE s[a] # t[b]
    BY <1>3, <1>7 DEF Range
  <2>2. CASE i <= Len(s) /\ j <= Len(s)
    BY <1>2, <1>3, <1>7, <2>2 DEF IsInjective
  <2>3. CASE i > Len(s) /\ j > Len(s)
    <3>1. i - Len(s) \in DOMAIN t /\ j - Len(s) \in DOMAIN t
          /\ t[i - Len(s)] = t[j - Len(s)]
      BY <1>2, <1>3, <2>3
    <3>2. i - Len(s) = j - Len(s)
      BY <1>7, <3>1 DEF IsInjective
    <3> QED
      BY <1>3, <3>2
  <2>4. CASE i <= Len(s) /\ j > Len(s)
    <3>1. i \in 1..Len(s) /\ j - Len(s) \in 1..Len(t) /\ s[i] = t[j - Len(s)]
      BY <1>2, <1>3, <2>4
    <3> QED
      BY <2>1, <3>1
  <2>5. CASE i > Len(s) /\ j <= Len(s)
    <3>1. j \in 1..Len(s) /\ i - Len(s) \in 1..Len(t) /\ s[j] = t[i - Len(s)]
      BY <1>2, <1>3, <2>5
    <3> QED
      BY <2>1, <3>1
  <2> QED
    BY <1>3, <2>2, <2>3, <2>4, <2>5
<1> QED
  BY <1>1, <1>4, <1>5, <1>6, <1>7

\* Full batches leave; what stays is less than a batch.
LEMMA EnqueuedFacts ==
  ASSUME batch \in Seq(Events), NEW events \in Seq(Events), Enqueued(events),
         timer \in {"wait", "sleep"}, flushed \in BOOLEAN
  PROVE  batch' \in Seq(Events) /\ Len(batch') < BatchMax /\ flushed' \in BOOLEAN
<1> DEFINE all == batch \o events
           out == Len(all) - (Len(all) % BatchMax)
<1>1. BatchMax \in Nat /\ BatchMax > 0
  BY ThumbAssumption
<1>2. all \in Seq(Events) /\ Len(all) \in Nat
  OBVIOUS
<1>3. batch' = SubSeq(all, out + 1, Len(all)) /\ (flushed' = IF out > 0 THEN timer = "sleep" ELSE flushed)
  BY Zenon DEF Enqueued
<1> HIDE DEF all
<1>4. PICK n \in Nat : n = Len(all)
  BY <1>2
<1>5. (n % BatchMax) \in 0..(BatchMax - 1) /\ (n % BatchMax) <= n
  BY <1>1
<1>6. out \in 0..n /\ n - out < BatchMax /\ out + 1 \in 1..(n + 1)
  BY <1>1, <1>4, <1>5
<1> HIDE DEF out
<1>7. SubSeq(all, out + 1, n) \in Seq(Events) /\ Len(SubSeq(all, out + 1, n)) = n - out
  <2>1. CASE out + 1 <= n
    BY <1>2, <1>4, <1>6, <2>1, SubSeqProperties
  <2>2. CASE out = n
    BY <1>2, <1>4, <1>6, <2>2, SubSeqProperties
  <2> QED
    BY <1>6, <2>1, <2>2
<1> QED
  BY <1>3, <1>4, <1>6, <1>7

\* A step that leaves jobs and workers alone, and adds no wish.
LEMMA PoolRests ==
  ASSUME ThumbPlaced, NoWishForgotten, UNCHANGED <<jobs, thumbQueue, stopped, thumb>>,
         owed' \subseteq owed
  PROVE  ThumbPlaced' /\ NoWishForgotten'
<1>1. ThumbPlaced'
  BY DEF ThumbPlaced, HoldsThumb
<1>2. NoWishForgotten'
  BY DEF NoWishForgotten
<1> QED
  BY <1>1, <1>2

\* The batch and what tells of it are as before.
LEMMA BatchRests ==
  ASSUME NoStrandedBatch, UNCHANGED <<batch, signalled, timer, flushed>>,
         call.does = "answer" => call'.does = "answer",
         \A w \in ThumbWorkers : thumb[w].at = "signal" => thumb'[w].at = "signal"
  PROVE  NoStrandedBatch'
  BY DEF NoStrandedBatch

\* One worker's step.
LEMMA ThumbMoves ==
  ASSUME thumb \in [ThumbWorkers -> Works], NEW w \in ThumbWorkers, NEW to \in Works,
         NEW from, Step(w, from, to)
  PROVE  /\ thumb' \in [ThumbWorkers -> Works] /\ thumb'[w] = to /\ thumb[w].at = from
         /\ \A v \in ThumbWorkers : v # w => thumb'[v] = thumb[v]
  BY DEF Step

\* A worker that keeps the jobs as they are keeps the file it holds.
LEMMA PoolKept ==
  ASSUME ThumbPlaced, UNCHANGED <<jobs, thumbQueue, stopped>>,
         NEW w \in ThumbWorkers,
         \A v \in ThumbWorkers : v # w => thumb'[v] = thumb[v],
         \A f \in Files : HoldsThumb(w, f)' <=> HoldsThumb(w, f)
  PROVE  ThumbPlaced'
<1>1. \A v \in ThumbWorkers, f \in Files : HoldsThumb(v, f)' <=> HoldsThumb(v, f)
  BY DEF HoldsThumb
<1>2. /\ IsInjective(thumbQueue')
      /\ Range(thumbQueue') = {f \in Files : jobs'[f].live /\ ~jobs'[f].active}
      /\ \A f \in Files : ~jobs'[f].live => jobs'[f] = NoThumb
      /\ stopped' => thumbQueue' = <<>> /\ \A f \in Files : jobs'[f] = NoThumb
  BY DEF ThumbPlaced
<1>3. /\ \A v \in ThumbWorkers, f \in Files :
           HoldsThumb(v, f)' => stopped' \/ (jobs'[f].live /\ jobs'[f].active)
      /\ \A u, v \in ThumbWorkers, f \in Files :
           HoldsThumb(u, f)' /\ HoldsThumb(v, f)' => u = v
      /\ \A f \in Files : jobs'[f].live /\ jobs'[f].active =>
           \E v \in ThumbWorkers : HoldsThumb(v, f)'
  BY <1>1 DEF ThumbPlaced
<1> QED
  BY <1>2, <1>3 DEF ThumbPlaced

\* Wishes whose worker lets them go are answered.
LEMMA WishesKept ==
  ASSUME NoWishForgotten, owed \subseteq ThumbScopes \X Files, UNCHANGED jobs,
         owed' \subseteq owed, NEW w \in ThumbWorkers,
         \A v \in ThumbWorkers : v # w => thumb'[v] = thumb[v],
         \/ thumb[w].at \notin Told
         \/ /\ thumb'[w].at \in Told /\ thumb'[w].file = thumb[w].file
            /\ thumb'[w].subs = thumb[w].subs
         \/ owed' = owed \ (thumb[w].subs \X {thumb[w].file})
  PROVE  NoWishForgotten'
<1> SUFFICES ASSUME NEW wish \in owed'
             PROVE  \/ jobs[wish[2]].live /\ wish[1] \in jobs[wish[2]].subs
                    \/ \E v \in ThumbWorkers : thumb'[v].file = wish[2] /\ wish[1] \in thumb'[v].subs
                                               /\ thumb'[v].at \in {"publish", "enqueue"}
  BY DEF NoWishForgotten
<1>1. wish \in owed
  OBVIOUS
<1>2. CASE jobs[wish[2]].live /\ wish[1] \in jobs[wish[2]].subs
  BY <1>2
<1>3. CASE \E v \in ThumbWorkers : thumb[v].file = wish[2] /\ wish[1] \in thumb[v].subs
                                   /\ thumb[v].at \in {"publish", "enqueue"}
  <2>1. PICK v \in ThumbWorkers : thumb[v].file = wish[2] /\ wish[1] \in thumb[v].subs
                                  /\ thumb[v].at \in {"publish", "enqueue"}
    BY <1>3
  <2>2. CASE v # w
    BY <2>1, <2>2
  <2>3. CASE v = w
    <3>1. wish \notin owed \ (thumb[w].subs \X {thumb[w].file})
      BY <2>1, <2>3, <1>1
    <3> QED
      BY <2>1, <2>3, <3>1 DEF Told
  <2> QED
    BY <2>2, <2>3
<1> QED
  BY <1>1, <1>2, <1>3 DEF NoWishForgotten

\* The call that looks files up, and the one that cuts requests.
LEMMA CallTyped ==
  ASSUME call \in Calls
  PROVE  /\ call.does \in {"look", "answer"} => call \in Looks
         /\ call.does = "cut" => call \in Looks \/ call \in [does : {"cut"}, cuts : SUBSET Files]
  BY DEF Calls, Looks, NoCall

-----------------------------------------------------------------------------
(* Thumbnails: the main thread and the timer.                              *)

LEMMA RequestKeeps ==
  ASSUME ThumbIInv, NEW s \in ThumbScopes, Request(s) PROVE ThumbIInv'
<1>1. call' \in Calls /\ call.does = "idle" /\ UNCHANGED <<jobs, thumbQueue, scopeRev, stopped, thumb, cut, shown, batch, signalled, timer, flushed, owed>>
  <2>1. call' \in Looks
    BY DEF Request, Looks
  <2> QED
    BY <2>1 DEF Request, Calls, poolVars, batchVars
<1>2. ThumbPlaced' /\ NoWishForgotten'
  BY <1>1, PoolRests DEF ThumbIInv
<1>3. NoStrandedBatch'
  BY <1>1, BatchRests DEF ThumbIInv
<1>4. ThumbTyped'
  BY <1>1 DEF ThumbIInv, ThumbTyped
<1> QED
  BY <1>2, <1>3, <1>4 DEF ThumbIInv

LEMMA LookUpKeeps == ASSUME ThumbIInv, LookUp PROVE ThumbIInv'
<1> USE DEF ThumbIInv
<1>1. PICK f \in call.todo :
        LET hit  == StateOf(f) # "none"
            miss == StateOf(f) \in {"none", "low"}
            left == IF miss THEN {f} ELSE {}
        IN /\ shown' = Records!Touch(shown, f)
           /\ call' = [call EXCEPT !.todo = @ \ {f}, !.pending = @ \cup left,
                                   !.does = IF hit THEN "answer" ELSE "look"]
           /\ IF hit THEN Enqueued(<<[to |-> call.scope, file |-> f]>>)
              ELSE UNCHANGED <<batch, flushed>>
           /\ owed' = IF hit THEN owed \ Wishes(call.scope, {f}) ELSE owed
  BY DEF LookUp
<1>2. call.does = "look" /\ UNCHANGED <<jobs, thumbQueue, scopeRev, stopped, thumb, cut, signalled, timer>>
  BY DEF LookUp, poolVars
<1>3. call \in Looks /\ f \in Files /\ call.scope \in ThumbScopes
  <2>1. call \in Looks
    BY <1>2, CallTyped DEF ThumbTyped
  <2> QED
    BY <2>1 DEF Looks
<1>4. call' \in Calls /\ call'.does = (IF StateOf(f) # "none" THEN "answer" ELSE "look")
  <2>1. call' \in Looks /\ call'.does = (IF StateOf(f) # "none" THEN "answer" ELSE "look")
    BY <1>1, <1>3 DEF Looks
  <2> QED
    BY <2>1 DEF Calls
<1>5. ShownOK(shown')
  BY <1>1, ShownTouch DEF ThumbTyped
<1>6. /\ batch' \in Seq(Events) /\ Len(batch') < BatchMax /\ flushed' \in BOOLEAN
      /\ StateOf(f) = "none" => UNCHANGED <<batch, flushed>>
  <2>1. CASE StateOf(f) = "none"
    BY <1>1, <2>1 DEF ThumbTyped
  <2>2. CASE StateOf(f) # "none"
    <3> DEFINE e == <<[to |-> call.scope, file |-> f]>>
    <3>1. e \in Seq(Events)
      BY <1>3 DEF Events
    <3>2. Enqueued(e)
      BY <1>1, <2>2
    <3> HIDE DEF e
    <3> QED
      BY <2>2, <3>1, <3>2, EnqueuedFacts DEF ThumbTyped
  <2> QED
    BY <2>1, <2>2
<1>7. owed' \subseteq owed
  BY <1>1
<1>8. ThumbPlaced' /\ NoWishForgotten'
  BY <1>2, <1>7, PoolRests
<1>9. NoStrandedBatch'
  BY <1>2, <1>4, <1>6 DEF NoStrandedBatch
<1>10. ThumbTyped'
  BY <1>2, <1>4, <1>5, <1>6, <1>7 DEF ThumbTyped
<1> QED
  BY <1>8, <1>9, <1>10

LEMMA LookedUpKeeps == ASSUME ThumbIInv, LookedUp PROVE ThumbIInv'
<1> USE DEF ThumbIInv
<1>1. /\ call.does = "answer" /\ signalled' = (signalled \/ batch # <<>>)
      /\ call' = [call EXCEPT !.does = "look"]
      /\ UNCHANGED <<jobs, thumbQueue, scopeRev, stopped, thumb, cut, shown, batch, timer, flushed, owed>>
  BY DEF LookedUp, Signal, poolVars
<1>2. call' \in Calls
  <2>1. call \in Looks
    BY <1>1, CallTyped DEF ThumbTyped
  <2> QED
    BY <1>1, <2>1 DEF Looks, Calls
<1>3. ThumbPlaced' /\ NoWishForgotten'
  BY <1>1, PoolRests
<1>4. NoStrandedBatch'
  BY <1>1 DEF NoStrandedBatch
<1>5. ThumbTyped'
  <2>1. signalled' \in BOOLEAN
    BY <1>1, Zenon DEF ThumbTyped
  <2> QED
    BY <1>1, <1>2, <2>1 DEF ThumbTyped
<1> QED
  BY <1>3, <1>4, <1>5

LEMMA TellProviderKeeps == ASSUME ThumbIInv, CutOne \/ CutDone PROVE ThumbIInv'
<1> USE DEF ThumbIInv
<1>1. call.does = "cut" /\ UNCHANGED <<jobs, thumbQueue, scopeRev, stopped, thumb, shown, batch, signalled, timer, flushed, owed>>
  BY DEF CutOne, CutDone, poolVars, batchVars
<1>2. call' \in Calls /\ cut' \subseteq Files
  <2>1. CASE CutOne
    <3>1. PICK f \in call.cuts :
            /\ call' = [call EXCEPT !.cuts = @ \ {f}] /\ cut' \subseteq cut \cup {f}
      BY <2>1 DEF CutOne
    <3>2. f \in Files /\ [call EXCEPT !.cuts = @ \ {f}] \in Calls
      <4>1. CASE call \in Looks
        BY <3>1, <4>1 DEF Looks, Calls
      <4>2. CASE call \in [does : {"cut"}, cuts : SUBSET Files]
        BY <3>1, <4>2 DEF Calls
      <4> QED
        BY <1>1, <4>1, <4>2, CallTyped DEF ThumbTyped
    <3> QED
      BY <3>1, <3>2 DEF ThumbTyped
  <2>2. CASE CutDone
    BY <2>2 DEF CutDone, ThumbTyped, Calls
  <2> QED
    BY <2>1, <2>2
<1>3. ThumbPlaced' /\ NoWishForgotten'
  BY <1>1, PoolRests
<1>4. NoStrandedBatch'
  BY <1>1, BatchRests
<1>5. ThumbTyped'
  BY <1>1, <1>2 DEF ThumbTyped
<1> QED
  BY <1>3, <1>4, <1>5

LEMMA ExpireKeeps == ASSUME ThumbIInv, NEW f \in Files, Expire(f) PROVE ThumbIInv'
<1> USE DEF ThumbIInv
<1>1. UNCHANGED <<jobs, thumbQueue, scopeRev, stopped, thumb, cut, batch, signalled, timer, flushed, call, owed>>
  BY DEF Expire, poolVars, batchVars, callVars
<1>2. ShownOK(shown')
  <2>1. CASE StateOf(f) = "lowTried"
    BY <2>1, ShownRetry DEF Expire, ThumbTyped
  <2>2. CASE StateOf(f) # "lowTried"
    BY <2>2, ShownRemove DEF Expire, ThumbTyped
  <2> QED
    BY <2>1, <2>2
<1>3. ThumbPlaced' /\ NoWishForgotten'
  BY <1>1, PoolRests
<1>4. NoStrandedBatch'
  BY <1>1, BatchRests
<1>5. ThumbTyped'
  BY <1>1, <1>2 DEF ThumbTyped
<1> QED
  BY <1>3, <1>4, <1>5

LEMMA TimerKeeps == ASSUME ThumbIInv, TimerWakes \/ TimerFlushes PROVE ThumbIInv'
<1> USE DEF ThumbIInv
<1>1. UNCHANGED <<jobs, thumbQueue, scopeRev, stopped, thumb, cut, shown, call, owed>>
  BY DEF TimerWakes, TimerFlushes, poolVars, callVars
<1>2. /\ timer' \in {"wait", "sleep"} /\ signalled' \in BOOLEAN /\ flushed' \in BOOLEAN
      /\ batch' \in Seq(Events) /\ Len(batch') < BatchMax
  <2>1. <<>> \in Seq(Events) /\ Len(<<>>) < BatchMax
    BY ThumbAssumption
  <2>2. CASE TimerWakes
    BY <2>2 DEF TimerWakes, ThumbTyped
  <2>3. CASE TimerFlushes
    BY <2>1, <2>3 DEF TimerFlushes, ThumbTyped
  <2> QED
    BY <2>2, <2>3
<1>3. ThumbPlaced' /\ NoWishForgotten'
  BY <1>1, PoolRests
<1>4. NoStrandedBatch'
  BY <1>1 DEF NoStrandedBatch, TimerWakes, TimerFlushes
<1>5. ThumbTyped'
  BY <1>1, <1>2 DEF ThumbTyped
<1> QED
  BY <1>3, <1>4, <1>5

-----------------------------------------------------------------------------
(* Thumbnails: a worker between its jobs.                                  *)

LEMMA PreviewKeeps ==
  ASSUME ThumbIInv, NEW w \in ThumbWorkers, Preview(w) \/ Generated(w) PROVE ThumbIInv'
<1> USE DEF ThumbIInv
<1>1. /\ UNCHANGED <<jobs, thumbQueue, scopeRev, stopped, cut, shown, batch, signalled, timer, flushed, call, owed>>
      /\ thumb[w].at = "generate"
  BY DEF Preview, Generated, poolVars, batchVars, callVars
<1>2. thumb[w] \in Works /\ thumb[w].file \in Files
  <2>1. thumb[w] \in Works
    BY DEF ThumbTyped
  <2> QED
    BY <1>1, <2>1 DEF Works, Held, Told
<1>3. PICK to \in Works : /\ Step(w, "generate", to) /\ to.file = thumb[w].file
                          /\ to.at \in Held
  <2>1. CASE Preview(w)
    <3> DEFINE to == [thumb[w] EXCEPT !.at = "preview", !.subs = jobs[thumb[w].file].subs]
    <3>1. jobs[thumb[w].file].subs \in SUBSET ThumbScopes
      BY <1>2 DEF ThumbTyped
    <3>2. to \in Works /\ to.file = thumb[w].file /\ to.at \in Held
      BY <1>1, <1>2, <3>1 DEF Works, Held, Told
    <3> QED
      BY <2>1, <3>2 DEF Preview
  <2>2. CASE Generated(w)
    <3>1. PICK r \in Finals :
            Step(w, "generate", [thumb[w] EXCEPT !.at = "finish", !.result = r])
      BY <2>2 DEF Generated, Outcomes, Finals
    <3> DEFINE to == [thumb[w] EXCEPT !.at = "finish", !.result = r]
    <3>2. to \in Works /\ to.file = thumb[w].file /\ to.at \in Held
      BY <1>1, <1>2 DEF Works, Held, Told
    <3> QED
      BY <3>1, <3>2
  <2> QED
    BY <2>1, <2>2
<1>4. /\ thumb' \in [ThumbWorkers -> Works] /\ thumb'[w] = to
      /\ \A v \in ThumbWorkers : v # w => thumb'[v] = thumb[v]
  BY <1>3, ThumbMoves DEF ThumbTyped
<1>5. \A f \in Files : HoldsThumb(w, f)' <=> HoldsThumb(w, f)
  BY <1>1, <1>3, <1>4 DEF HoldsThumb, Held
<1>6. ThumbPlaced'
  BY <1>1, <1>4, <1>5, PoolKept
<1>7. NoWishForgotten'
  BY <1>1, <1>4, WishesKept DEF ThumbTyped, Told
<1>8. NoStrandedBatch'
  BY <1>1, <1>4, BatchRests
<1>9. ThumbTyped'
  BY <1>1, <1>4 DEF ThumbTyped
<1> QED
  BY <1>6, <1>7, <1>8, <1>9

LEMMA EmitPreviewKeeps ==
  ASSUME ThumbIInv, NEW w \in ThumbWorkers, EmitPreview(w) PROVE ThumbIInv'
<1> USE DEF ThumbIInv
<1> DEFINE f == thumb[w].file
           to == [thumb[w] EXCEPT !.at = "generate", !.subs = {}]
<1>1. PICK same \in BOOLEAN :
      /\ UNCHANGED <<jobs, thumbQueue, scopeRev, stopped, cut, batch, signalled, timer, flushed, call>>
      /\ Step(w, "preview", to) /\ shown' = Stored(f, "low", same)
      /\ owed' = IF Changes(f, "low", same) THEN owed \ (thumb[w].subs \X {f}) ELSE owed
  BY DEF EmitPreview, poolVars, batchVars, callVars
<1>2. thumb[w].at = "preview" /\ thumb[w] \in Works
  BY <1>1 DEF Step, ThumbTyped
<1>3. f \in Files /\ to \in Works /\ to.file = f /\ to.at = "generate"
  BY <1>2 DEF Works, Held, Told
<1> HIDE DEF to, f
<1>4. /\ thumb' \in [ThumbWorkers -> Works] /\ thumb'[w] = to
      /\ \A v \in ThumbWorkers : v # w => thumb'[v] = thumb[v]
  BY <1>1, <1>3, ThumbMoves DEF ThumbTyped
<1>5. \A g \in Files : HoldsThumb(w, g)' <=> HoldsThumb(w, g)
  BY <1>2, <1>3, <1>4 DEF HoldsThumb, Held, f
<1>6. ThumbPlaced'
  BY <1>1, <1>4, <1>5, PoolKept
<1>7. owed' \subseteq owed
  BY <1>1
<1>8. NoWishForgotten'
  BY <1>1, <1>2, <1>4, <1>7, WishesKept DEF ThumbTyped, Told
<1>9. NoStrandedBatch'
  BY <1>1, <1>2, <1>4, BatchRests
<1>10. ShownOK(shown')
  <2>1. "low" \in Finals \cup {"low"}
    OBVIOUS
  <2> QED
    BY <1>1, <1>3, <2>1, ShownStored DEF ThumbTyped
<1>11. ThumbTyped'
  BY <1>1, <1>4, <1>7, <1>10 DEF ThumbTyped
<1> QED
  BY <1>6, <1>8, <1>9, <1>11

LEMMA PublishKeeps ==
  ASSUME ThumbIInv, NEW w \in ThumbWorkers, Publish(w) PROVE ThumbIInv'
<1> USE DEF ThumbIInv
<1> DEFINE f == thumb[w].file
           changes == Changes(f, thumb[w].result, FALSE)
           to == IF changes THEN [thumb[w] EXCEPT !.at = "enqueue"] ELSE Rest
<1>1. /\ UNCHANGED <<jobs, thumbQueue, scopeRev, stopped, cut, batch, signalled, timer, flushed, call>>
      /\ Step(w, "publish", to) /\ shown' = Stored(f, thumb[w].result, FALSE)
      /\ owed' = IF changes THEN owed ELSE owed \ (thumb[w].subs \X {f})
  BY DEF Publish, poolVars, batchVars, callVars
<1> HIDE DEF changes
<1>2. thumb[w].at = "publish" /\ thumb[w] \in Works
  BY <1>1 DEF Step, ThumbTyped
<1>3. /\ f \in Files /\ to \in Works /\ to.at \notin Held /\ thumb[w].result \in Finals
      /\ changes => to.file = f /\ to.subs = thumb[w].subs /\ to.at \in Told
  BY <1>2 DEF Works, Held, Told, Rest
<1> HIDE DEF to, f
<1>4. /\ thumb' \in [ThumbWorkers -> Works] /\ thumb'[w] = to
      /\ \A v \in ThumbWorkers : v # w => thumb'[v] = thumb[v]
  BY <1>1, <1>3, ThumbMoves DEF ThumbTyped
<1>5. \A g \in Files : HoldsThumb(w, g)' <=> HoldsThumb(w, g)
  BY <1>2, <1>3, <1>4 DEF HoldsThumb, Held, f
<1>6. ThumbPlaced'
  BY <1>1, <1>4, <1>5, PoolKept
<1>7. owed' \subseteq owed
  BY <1>1
<1>8. NoWishForgotten'
  <2>1. \/ thumb'[w].at \in Told /\ thumb'[w].file = thumb[w].file
           /\ thumb'[w].subs = thumb[w].subs
        \/ owed' = owed \ (thumb[w].subs \X {thumb[w].file})
    BY <1>1, <1>3, <1>4 DEF f
  <2> QED
    BY <1>1, <1>4, <1>7, <2>1, WishesKept DEF ThumbTyped
<1>9. NoStrandedBatch'
  BY <1>1, <1>2, <1>4, BatchRests
<1>10. ShownOK(shown')
  BY <1>1, <1>3, ShownStored DEF ThumbTyped
<1>11. ThumbTyped'
  BY <1>1, <1>4, <1>7, <1>10 DEF ThumbTyped
<1> QED
  BY <1>6, <1>8, <1>9, <1>11

LEMMA EnqueueResultKeeps ==
  ASSUME ThumbIInv, NEW w \in ThumbWorkers, EnqueueResult(w) PROVE ThumbIInv'
<1> USE DEF ThumbIInv
<1> DEFINE f == thumb[w].file
           to == [Rest EXCEPT !.at = "signal"]
           events == [i \in 1..Cardinality(thumb[w].subs) |->
                        [to |-> SetToSeq(thumb[w].subs)[i], file |-> f]]
<1>1. /\ UNCHANGED <<jobs, thumbQueue, scopeRev, stopped, cut, shown, signalled, timer, call>>
      /\ Step(w, "enqueue", to) /\ Enqueued(events)
      /\ owed' = owed \ (thumb[w].subs \X {f})
  BY DEF EnqueueResult, poolVars, callVars
<1>2. thumb[w].at = "enqueue" /\ thumb[w] \in Works
  BY <1>1 DEF Step, ThumbTyped
<1>3. f \in Files /\ to \in Works /\ to.at = "signal" /\ thumb[w].subs \in SUBSET ThumbScopes
  BY <1>2 DEF Works, Held, Told, Rest
<1>4. events \in Seq(Events)
  <2>1. IsFiniteSet(thumb[w].subs)
    BY <1>3, ThumbAssumption, FS_Subset
  <2> DEFINE n == Cardinality(thumb[w].subs)
             q == SetToSeq(thumb[w].subs)
  <2>2. q \in Seq(thumb[w].subs) /\ Len(q) = n /\ n \in Nat
    BY <2>1, SequenceOf
  <2>3. \A i \in 1..n : [to |-> q[i], file |-> f] \in Events
    <3> HIDE DEF f, q, n
    <3> TAKE i \in 1..n
    <3>1. q[i] \in thumb[w].subs
      BY <2>2
    <3> QED
      BY <1>3, <3>1 DEF Events
  <2> HIDE DEF q, n, f
  <2>4. events = [i \in 1..n |-> [to |-> q[i], file |-> f]]
    BY DEF q, n, f
  <2> HIDE DEF events
  <2> QED
    BY <2>2, <2>3, <2>4
<1> HIDE DEF to, f, events
<1>5. batch' \in Seq(Events) /\ Len(batch') < BatchMax /\ flushed' \in BOOLEAN
  BY <1>1, <1>4, EnqueuedFacts DEF ThumbTyped
<1>6. /\ thumb' \in [ThumbWorkers -> Works] /\ thumb'[w] = to
      /\ \A v \in ThumbWorkers : v # w => thumb'[v] = thumb[v]
  BY <1>1, <1>3, ThumbMoves DEF ThumbTyped
<1>7. \A g \in Files : HoldsThumb(w, g)' <=> HoldsThumb(w, g)
  BY <1>2, <1>3, <1>6 DEF HoldsThumb, Held, f
<1>8. ThumbPlaced'
  BY <1>1, <1>6, <1>7, PoolKept
<1>9. NoWishForgotten'
  <2>1. owed' = owed \ (thumb[w].subs \X {thumb[w].file})
    BY <1>1 DEF f
  <2> QED
    BY <1>1, <1>6, <2>1, WishesKept DEF ThumbTyped
<1>10. NoStrandedBatch'
  BY <1>3, <1>6 DEF NoStrandedBatch
<1>11. ThumbTyped'
  BY <1>1, <1>5, <1>6 DEF ThumbTyped
<1> QED
  BY <1>8, <1>9, <1>10, <1>11

LEMMA SignalTimerKeeps ==
  ASSUME ThumbIInv, NEW w \in ThumbWorkers, SignalTimer(w) PROVE ThumbIInv'
<1> USE DEF ThumbIInv
<1>1. /\ UNCHANGED <<jobs, thumbQueue, scopeRev, stopped, cut, shown, batch, timer, flushed, call, owed>>
      /\ Step(w, "signal", Rest) /\ signalled' = (signalled \/ batch # <<>>)
  BY DEF SignalTimer, Signal, poolVars, callVars
<1>2. Rest \in Works /\ Rest.at = "idle" /\ thumb[w].at = "signal"
  BY <1>1 DEF Works, Rest, Step
<1>3. /\ thumb' \in [ThumbWorkers -> Works] /\ thumb'[w] = Rest
      /\ \A v \in ThumbWorkers : v # w => thumb'[v] = thumb[v]
  BY <1>1, <1>2, ThumbMoves DEF ThumbTyped
<1>4. \A g \in Files : HoldsThumb(w, g)' <=> HoldsThumb(w, g)
  BY <1>2, <1>3 DEF HoldsThumb, Held
<1>5. ThumbPlaced'
  BY <1>1, <1>3, <1>4, PoolKept
<1>6. NoWishForgotten'
  BY <1>1, <1>2, <1>3, WishesKept DEF ThumbTyped, Told
<1>7. NoStrandedBatch'
  BY <1>1 DEF NoStrandedBatch
<1>8. ThumbTyped'
  <2>1. signalled' \in BOOLEAN
    BY <1>1, Zenon DEF ThumbTyped
  <2> QED
    BY <1>1, <1>3, <2>1 DEF ThumbTyped
<1> QED
  BY <1>5, <1>6, <1>7, <1>8

-----------------------------------------------------------------------------
(* Thumbnails: the scheduler.                                              *)

JobSet == [live : BOOLEAN, active : BOOLEAN, subs : SUBSET ThumbScopes]

\* A scope's wishes replaced: jobs that nobody wants any more are gone, every
\* other one is as it was but for this scope.
LEMMA BuriedFacts ==
  ASSUME ThumbTyped, ThumbPlaced, NEW s \in ThumbScopes, NEW files \in SUBSET Files
  PROVE  LET after == Wanting(s, files)
             left == Buried(after)
         IN /\ Dead(after) \subseteq Files /\ Orphans(after) \subseteq Files
            /\ \A f \in Dead(after) : jobs[f].live /\ ~jobs[f].active
            /\ left \in [Files -> JobSet]
            /\ \A f \in Files :
                 /\ f \in Dead(after) => left[f] = NoThumb
                 /\ f \notin Dead(after) => /\ left[f].live = jobs[f].live
                                            /\ left[f].active = jobs[f].active
                 /\ \A t \in ThumbScopes \ {s} : jobs[f].live /\ t \in jobs[f].subs
                      => left[f].live /\ t \in left[f].subs
                 /\ ~left[f].live => left[f] = NoThumb
<1> DEFINE after == Wanting(s, files)
           left == Buried(after)
<1>1. after \in [Files -> JobSet]
  BY DEF Wanting, ThumbTyped, JobSet
<1>2. ASSUME NEW f \in Files
      PROVE  /\ after[f].live = jobs[f].live /\ after[f].active = jobs[f].active
             /\ jobs[f].subs \ {s} \subseteq after[f].subs
             /\ after[f].subs \subseteq jobs[f].subs
  BY DEF Wanting, ThumbTyped
<1> HIDE DEF after
<1>3. NoThumb \in JobSet
  BY DEF NoThumb, JobSet
<1>4. left \in [Files -> JobSet]
  BY <1>1, <1>3 DEF Buried
<1>5. \A f \in Files : left[f] = IF f \in Dead(after) THEN NoThumb ELSE after[f]
  BY DEF Buried
<1>6. /\ Dead(after) \subseteq Files /\ Orphans(after) \subseteq Files
      /\ \A f \in Dead(after) : jobs[f].live /\ ~jobs[f].active
  BY <1>2 DEF Dead, Orphans
<1> HIDE DEF left
<1>7. ASSUME NEW f \in Files
      PROVE  /\ f \in Dead(after) => left[f] = NoThumb
             /\ f \notin Dead(after) => /\ left[f].live = jobs[f].live
                                        /\ left[f].active = jobs[f].active
             /\ \A t \in ThumbScopes \ {s} : jobs[f].live /\ t \in jobs[f].subs
                  => left[f].live /\ t \in left[f].subs
             /\ ~left[f].live => left[f] = NoThumb
  <2>1. CASE f \in Dead(after)
    <3>1. after[f].subs = {}
      BY <2>1 DEF Dead
    <3> QED
      BY <1>2, <1>5, <2>1, <3>1
  <2>2. CASE f \notin Dead(after)
    <3>1. left[f] = after[f]
      BY <1>5, <2>2
    <3>2. ~jobs[f].live => left[f] = NoThumb
      <4>1. SUFFICES ASSUME ~jobs[f].live PROVE after[f] = NoThumb
        BY <3>1
      <4>2. jobs[f] = NoThumb
        BY <4>1 DEF ThumbPlaced
      <4>3. after[f].subs = {} /\ after[f].live = FALSE /\ after[f].active = FALSE
        BY <1>2, <4>2 DEF NoThumb
      <4> QED
        BY <1>1, <4>3 DEF NoThumb, JobSet
    <3> QED
      BY <1>2, <2>2, <3>1, <3>2
  <2> QED
    BY <2>1, <2>2
<1> QED
  BY <1>4, <1>6, <1>7 DEF after, left

\* Jobs that are with a worker, and the workers, are as they were.
LEMMA HoldersKept ==
  ASSUME ThumbPlaced, UNCHANGED <<thumb, stopped>>,
         \A f \in Files : (jobs'[f].live /\ jobs'[f].active) <=> (jobs[f].live /\ jobs[f].active)
  PROVE  /\ \A w \in ThumbWorkers, f \in Files :
              HoldsThumb(w, f)' => stopped' \/ (jobs'[f].live /\ jobs'[f].active)
         /\ \A v, w \in ThumbWorkers, f \in Files :
              HoldsThumb(v, f)' /\ HoldsThumb(w, f)' => v = w
         /\ \A f \in Files : jobs'[f].live /\ jobs'[f].active =>
              \E w \in ThumbWorkers : HoldsThumb(w, f)'
  BY DEF ThumbPlaced, HoldsThumb

LEMMA ReplaceKeeps == ASSUME ThumbIInv, Replace PROVE ThumbIInv'
<1> USE DEF ThumbIInv
<1> DEFINE s == call.scope
           after == Wanting(s, call.pending)
           left == Buried(after)
           joined == [f \in Files |-> IF f \in call.pending
                        THEN [left[f] EXCEPT !.live = TRUE, !.subs = @ \cup {s}] ELSE left[f]]
           fresh == {f \in call.pending : ~left[f].live}
           new == SetToSeq(fresh)
           rest == Keep(thumbQueue, Files \ Dead(after))
<1>1. call.does = "look" /\ UNCHANGED <<thumb, cut, shown, batch, signalled, timer, flushed>>
  BY DEF Replace, batchVars
<1>2. call \in Looks
  BY <1>1, CallTyped DEF ThumbTyped
<1>3. s \in ThumbScopes /\ call.pending \in SUBSET Files /\ call.rev \in 1..MaxThumbRev
  BY <1>2 DEF Looks
<1>4. CASE stopped \/ call.rev <= scopeRev[s]
  <2>1. call' = NoCall /\ UNCHANGED <<jobs, thumbQueue, scopeRev, stopped, owed>>
    BY <1>4 DEF Replace, poolVars
  <2>2. ThumbPlaced' /\ NoWishForgotten'
    BY <1>1, <2>1, PoolRests
  <2>3. NoStrandedBatch'
    BY <1>1, BatchRests
  <2>4. ThumbTyped'
    BY <1>1, <2>1 DEF ThumbTyped, Calls
  <2> QED
    BY <2>2, <2>3, <2>4
<1>5. CASE ~(stopped \/ call.rev <= scopeRev[s])
  <2>1. /\ jobs' = joined /\ thumbQueue' = rest \o new
        /\ scopeRev' = [scopeRev EXCEPT ![s] = call.rev]
        /\ call' = [call EXCEPT !.does = "cut", !.cuts = Orphans(after)]
        /\ owed' = (owed \ Wishes(s, Files)) \cup Wishes(s, call.pending)
        /\ UNCHANGED stopped
    BY <1>5, Zenon DEF Replace
  <2> HIDE DEF s, rest, new
  <2>2. /\ Dead(after) \subseteq Files /\ Orphans(after) \subseteq Files
        /\ \A f \in Dead(after) : jobs[f].live /\ ~jobs[f].active
        /\ left \in [Files -> JobSet]
        /\ \A f \in Files :
             /\ f \in Dead(after) => left[f] = NoThumb
             /\ f \notin Dead(after) => /\ left[f].live = jobs[f].live
                                        /\ left[f].active = jobs[f].active
             /\ \A t \in ThumbScopes \ {s} : jobs[f].live /\ t \in jobs[f].subs
                  => left[f].live /\ t \in left[f].subs
             /\ ~left[f].live => left[f] = NoThumb
    BY <1>3, BuriedFacts, Zenon
  <2> HIDE DEF after, left
  <2>3. joined \in [Files -> JobSet]
    <3>1. ASSUME NEW f \in Files
          PROVE  [left[f] EXCEPT !.live = TRUE, !.subs = @ \cup {s}] \in JobSet
      <4>1. left[f] \in JobSet
        BY <2>2
      <4> QED
        BY <1>3, <4>1 DEF JobSet
    <3> QED
      BY <2>2, <3>1
  <2>4. \A f \in Files : joined[f].active = left[f].active
    BY <2>2 DEF JobSet
  <2>5. \A f \in Files : /\ joined[f].live = (left[f].live \/ f \in call.pending)
                         /\ left[f].subs \subseteq joined[f].subs
                         /\ f \in call.pending => s \in joined[f].subs
                         /\ f \notin call.pending => joined[f] = left[f]
    BY <2>2 DEF JobSet
  <2> HIDE DEF joined
  <2>6. ASSUME NEW f \in Files
        PROVE  /\ (joined[f].live /\ joined[f].active) <=> (jobs[f].live /\ jobs[f].active)
               /\ (joined[f].live /\ ~joined[f].active)
                    <=> (jobs[f].live /\ ~jobs[f].active /\ f \notin Dead(after)) \/ f \in fresh
               /\ ~(jobs[f].live /\ f \notin Dead(after) /\ f \in fresh)
               /\ ~joined[f].live => joined[f] = NoThumb
    <3>1. ~left[f].live => left[f].active = FALSE
      BY <2>2 DEF NoThumb
    <3>2. f \in Dead(after) => left[f].live = FALSE /\ left[f].active = FALSE
                               /\ jobs[f].live /\ ~jobs[f].active
      BY <2>2 DEF NoThumb
    <3> QED
      BY <1>3, <2>2, <2>4, <2>5, <3>1, <3>2
  <2>7. /\ new \in Seq(Files) /\ Range(new) = fresh /\ IsInjective(new)
    <3>1. IsFiniteSet(fresh) /\ fresh \subseteq Files
      BY <1>3, ThumbAssumption, FS_Subset
    <3> HIDE DEF fresh
    <3>2. new \in Seq(fresh) /\ Range(new) = fresh /\ IsInjective(new)
      BY <3>1, SequenceOf DEF new
    <3> QED
      BY <3>1, <3>2
  <2>8. /\ rest \in Seq(Files) /\ Range(rest) = Range(thumbQueue) \cap (Files \ Dead(after))
        /\ IsInjective(rest)
    BY KeepFacts, KeepInjective DEF rest, ThumbTyped, ThumbPlaced
  <2>9. Range(rest) = {f \in Files : jobs[f].live /\ ~jobs[f].active /\ f \notin Dead(after)}
    BY <2>8 DEF ThumbPlaced
  <2>10. fresh \subseteq Files /\ Range(rest) \cap fresh = {}
    BY <1>3, <2>6, <2>9
  <2>11. /\ thumbQueue' \in Seq(Files) /\ IsInjective(thumbQueue')
         /\ Range(thumbQueue') = {f \in Files : jobs'[f].live /\ ~jobs'[f].active}
    <3>1. rest \o new \in Seq(Files) /\ IsInjective(rest \o new)
          /\ Range(rest \o new) = Range(rest) \cup fresh
      <4> HIDE DEF fresh
      <4> QED
        BY <2>7, <2>8, <2>10, InARow
    <3>2. Range(rest) \cup fresh = {f \in Files : joined[f].live /\ ~joined[f].active}
      <4> HIDE DEF fresh
      <4> QED
        BY <2>6, <2>9, <2>10
    <3> QED
      BY <2>1, <3>1, <3>2
  <2>12. ThumbPlaced'
    <3>1. \A f \in Files : (jobs'[f].live /\ jobs'[f].active) <=> (jobs[f].live /\ jobs[f].active)
      BY <2>1, <2>6
    <3>2. \A f \in Files : ~jobs'[f].live => jobs'[f] = NoThumb
      BY <2>1, <2>6
    <3>3. ~stopped'
      BY <1>5, <2>1
    <3> QED
      BY <1>1, <2>1, <2>11, <3>1, <3>2, <3>3, HoldersKept DEF ThumbPlaced
  <2>13. NoWishForgotten'
    <3> SUFFICES ASSUME NEW wish \in owed'
                 PROVE  \/ jobs'[wish[2]].live /\ wish[1] \in jobs'[wish[2]].subs
                        \/ \E w \in ThumbWorkers : thumb'[w].file = wish[2] /\ wish[1] \in thumb'[w].subs
                                                   /\ thumb'[w].at \in {"publish", "enqueue"}
      BY DEF NoWishForgotten
    <3>1. CASE wish \in Wishes(s, call.pending)
      <4>1. wish[1] = s /\ wish[2] \in call.pending
        BY <3>1 DEF Wishes
      <4> QED
        BY <1>3, <2>1, <2>5, <4>1
    <3>2. CASE wish \in owed \ Wishes(s, Files)
      <4>1. wish \in owed /\ wish[1] \in ThumbScopes \ {s} /\ wish[2] \in Files
        BY <3>2 DEF Wishes, ThumbTyped
      <4>2. CASE jobs[wish[2]].live /\ wish[1] \in jobs[wish[2]].subs
        BY <2>1, <2>2, <2>5, <4>1, <4>2
      <4>3. CASE ~(jobs[wish[2]].live /\ wish[1] \in jobs[wish[2]].subs)
        BY <1>1, <4>1, <4>3 DEF NoWishForgotten
      <4> QED
        BY <4>2, <4>3
    <3> QED
      BY <2>1, <3>1, <3>2
  <2>14. NoStrandedBatch'
    BY <1>1, BatchRests
  <2>15. ThumbTyped'
    <3>1. call' \in Calls
      <4>1. [call EXCEPT !.does = "cut", !.cuts = Orphans(after)] \in Looks
        BY <1>2, <2>2 DEF Looks
      <4> QED
        BY <2>1, <4>1 DEF Calls
    <3>2. scopeRev' \in [ThumbScopes -> 0..MaxThumbRev]
      BY <1>3, <2>1, ThumbAssumption DEF ThumbTyped
    <3>3. owed' \subseteq ThumbScopes \X Files
      <4>1. Wishes(s, call.pending) \subseteq ThumbScopes \X Files
        BY <1>3 DEF Wishes
      <4> QED
        BY <2>1, <4>1 DEF ThumbTyped
    <3>4. jobs' \in [Files -> [live : BOOLEAN, active : BOOLEAN, subs : SUBSET ThumbScopes]]
      BY <2>1, <2>3 DEF JobSet
    <3> QED
      BY <1>1, <2>1, <2>11, <3>1, <3>2, <3>3, <3>4 DEF ThumbTyped
  <2> QED
    BY <2>12, <2>13, <2>14, <2>15
<1> QED
  BY <1>4, <1>5

LEMMA CancelScopeKeeps ==
  ASSUME ThumbIInv, NEW s \in ThumbScopes, CancelScope(s) PROVE ThumbIInv'
<1> USE DEF ThumbIInv
<1> DEFINE after == Wanting(s, {})
           left == Buried(after)
           rest == Keep(thumbQueue, Files \ Dead(after))
<1>1. /\ call.does = "idle" /\ UNCHANGED <<stopped, thumb, cut, shown, batch, signalled, timer, flushed>>
      /\ jobs' = left /\ thumbQueue' = rest
      /\ scopeRev' = [scopeRev EXCEPT ![s] = 0]
      /\ call' = [does |-> "cut", cuts |-> Orphans(after)]
      /\ owed' = owed \ Wishes(s, Files)
  BY DEF CancelScope, batchVars
<1> HIDE DEF rest
<1>2. /\ Dead(after) \subseteq Files /\ Orphans(after) \subseteq Files
      /\ \A f \in Dead(after) : jobs[f].live /\ ~jobs[f].active
      /\ left \in [Files -> JobSet]
      /\ \A f \in Files :
           /\ f \in Dead(after) => left[f] = NoThumb
           /\ f \notin Dead(after) => /\ left[f].live = jobs[f].live
                                      /\ left[f].active = jobs[f].active
           /\ \A t \in ThumbScopes \ {s} : jobs[f].live /\ t \in jobs[f].subs
                => left[f].live /\ t \in left[f].subs
           /\ ~left[f].live => left[f] = NoThumb
  <2>1. {} \in SUBSET Files
    OBVIOUS
  <2> QED
    BY <2>1, BuriedFacts, Zenon
<1> HIDE DEF after, left
<1>3. ASSUME NEW f \in Files
      PROVE  /\ (left[f].live /\ left[f].active) <=> (jobs[f].live /\ jobs[f].active)
             /\ (left[f].live /\ ~left[f].active)
                  <=> (jobs[f].live /\ ~jobs[f].active /\ f \notin Dead(after))
  <2>1. f \in Dead(after) => left[f].live = FALSE /\ left[f].active = FALSE
                             /\ jobs[f].live /\ ~jobs[f].active
    BY <1>2 DEF NoThumb
  <2> QED
    BY <1>2, <2>1
<1>4. /\ rest \in Seq(Files) /\ Range(rest) = Range(thumbQueue) \cap (Files \ Dead(after))
      /\ IsInjective(rest)
  BY KeepFacts, KeepInjective DEF rest, ThumbTyped, ThumbPlaced
<1>5. Range(rest) = {f \in Files : left[f].live /\ ~left[f].active}
  BY <1>3, <1>4 DEF ThumbPlaced
<1>6. stopped => rest = <<>> /\ \A f \in Files : left[f] = NoThumb
  <2>1. SUFFICES ASSUME stopped PROVE rest = <<>> /\ \A f \in Files : left[f] = NoThumb
    OBVIOUS
  <2>2. thumbQueue = <<>> /\ \A f \in Files : jobs[f] = NoThumb
    BY <2>1 DEF ThumbPlaced
  <2>3. Len(rest) \in Nat /\ Len(rest) <= Len(thumbQueue)
    BY KeepFacts DEF rest, ThumbTyped
  <2>4. rest = <<>>
    BY <1>4, <2>2, <2>3
  <2>5. \A f \in Files : ~left[f].live
    BY <1>2, <2>2 DEF NoThumb
  <2> QED
    BY <1>2, <2>4, <2>5
<1>7. ThumbPlaced'
  <2>1. \A f \in Files : (jobs'[f].live /\ jobs'[f].active) <=> (jobs[f].live /\ jobs[f].active)
    BY <1>1, <1>3
  <2>2. \A f \in Files : ~jobs'[f].live => jobs'[f] = NoThumb
    BY <1>1, <1>2
  <2>3. /\ IsInjective(thumbQueue')
        /\ Range(thumbQueue') = {f \in Files : jobs'[f].live /\ ~jobs'[f].active}
    BY <1>1, <1>4, <1>5
  <2> QED
    BY <1>1, <1>6, <2>1, <2>2, <2>3, HoldersKept DEF ThumbPlaced
<1>8. NoWishForgotten'
  <2> SUFFICES ASSUME NEW wish \in owed'
               PROVE  \/ jobs'[wish[2]].live /\ wish[1] \in jobs'[wish[2]].subs
                      \/ \E w \in ThumbWorkers : thumb'[w].file = wish[2] /\ wish[1] \in thumb'[w].subs
                                                 /\ thumb'[w].at \in {"publish", "enqueue"}
    BY DEF NoWishForgotten
  <2>1. wish \in owed /\ wish[1] \in ThumbScopes \ {s} /\ wish[2] \in Files
    BY <1>1 DEF Wishes, ThumbTyped
  <2>2. CASE jobs[wish[2]].live /\ wish[1] \in jobs[wish[2]].subs
    BY <1>1, <1>2, <2>1, <2>2
  <2>3. CASE ~(jobs[wish[2]].live /\ wish[1] \in jobs[wish[2]].subs)
    BY <1>1, <2>1, <2>3 DEF NoWishForgotten
  <2> QED
    BY <2>2, <2>3
<1>9. NoStrandedBatch'
  BY <1>1, BatchRests
<1>10. ThumbTyped'
  <2>1. call' \in Calls
    BY <1>1, <1>2 DEF Calls
  <2>2. scopeRev' \in [ThumbScopes -> 0..MaxThumbRev]
    BY <1>1, ThumbAssumption DEF ThumbTyped
  <2>3. owed' \subseteq ThumbScopes \X Files
    BY <1>1 DEF ThumbTyped
  <2>4. jobs' \in [Files -> [live : BOOLEAN, active : BOOLEAN, subs : SUBSET ThumbScopes]]
    BY <1>1, <1>2 DEF JobSet
  <2> QED
    BY <1>1, <1>4, <2>1, <2>2, <2>3, <2>4 DEF ThumbTyped
<1> QED
  BY <1>7, <1>8, <1>9, <1>10

LEMMA ShutdownKeeps == ASSUME ThumbIInv, Shutdown PROVE ThumbIInv'
<1> USE DEF ThumbIInv
<1>1. /\ call.does = "idle" /\ UNCHANGED <<thumb, cut, shown, batch, signalled, timer, flushed>>
      /\ stopped' = TRUE /\ thumbQueue' = <<>>
      /\ jobs' = [f \in Files |-> NoThumb] /\ scopeRev' = [s \in ThumbScopes |-> 0]
      /\ call' = [does |-> "cut", cuts |-> {f \in Files : jobs[f].live}]
      /\ owed' = {}
  BY DEF Shutdown, batchVars
<1>2. NoThumb \in JobSet /\ NoThumb.live = FALSE
  BY DEF NoThumb, JobSet
<1>3. ThumbPlaced'
  <2>1. IsInjective(<<>>) /\ Range(<<>>) = {}
    BY DEF IsInjective, Range
  <2>2. \A f \in Files : jobs'[f] = NoThumb
    BY <1>1
  <2>3. {f \in Files : jobs'[f].live /\ ~jobs'[f].active} = {}
    BY <1>2, <2>2
  <2>4. \A v, w \in ThumbWorkers, f \in Files : HoldsThumb(v, f)' /\ HoldsThumb(w, f)' => v = w
    BY <1>1 DEF ThumbPlaced, HoldsThumb
  <2> QED
    BY <1>1, <1>2, <2>1, <2>2, <2>3, <2>4 DEF ThumbPlaced
<1>4. NoWishForgotten'
  BY <1>1 DEF NoWishForgotten
<1>5. NoStrandedBatch'
  BY <1>1, BatchRests
<1>6. ThumbTyped'
  <2>1. call' \in Calls
    BY <1>1 DEF Calls
  <2>2. scopeRev' \in [ThumbScopes -> 0..MaxThumbRev] /\ thumbQueue' \in Seq(Files)
    BY <1>1, ThumbAssumption
  <2>3. jobs' \in [Files -> [live : BOOLEAN, active : BOOLEAN, subs : SUBSET ThumbScopes]]
    BY <1>1, <1>2 DEF JobSet
  <2> QED
    BY <1>1, <2>1, <2>2, <2>3 DEF ThumbTyped
<1> QED
  BY <1>3, <1>4, <1>5, <1>6

-----------------------------------------------------------------------------
(* Thumbnails: a worker and its job.                                       *)

LEMMA TakeJobKeeps ==
  ASSUME ThumbIInv, NEW w \in ThumbWorkers, TakeJob(w) PROVE ThumbIInv'
<1> USE DEF ThumbIInv
<1>1. PICK i \in DOMAIN thumbQueue :
        /\ ~stopped
        /\ \E next \in {[at |-> "generate", result |-> "none"], [at |-> "finish", result |-> "none"],
                        [at |-> "finish", result |-> "failed"]} :
             Step(w, "idle", [at |-> next.at, file |-> thumbQueue[i],
                              result |-> next.result, subs |-> {}])
        /\ thumbQueue' = Keep(thumbQueue, Files \ {thumbQueue[i]})
        /\ jobs' = [jobs EXCEPT ![thumbQueue[i]].active = TRUE]
        /\ UNCHANGED <<scopeRev, stopped, cut, shown, batch, signalled, timer, flushed, call, owed>>
  BY DEF TakeJob, batchVars, callVars
<1>2. PICK f \in Files : f = thumbQueue[i]
  BY DEF ThumbTyped
<1>3. jobs[f].live /\ ~jobs[f].active
  <2>1. f \in Range(thumbQueue)
    BY <1>2 DEF Range
  <2> QED
    BY <2>1 DEF ThumbPlaced
<1>4. PICK to \in Works : Step(w, "idle", to) /\ to.file = f /\ to.at \in Held
  <2>1. PICK next \in {[at |-> "generate", result |-> "none"], [at |-> "finish", result |-> "none"],
                       [at |-> "finish", result |-> "failed"]} :
          Step(w, "idle", [at |-> next.at, file |-> f, result |-> next.result, subs |-> {}])
    BY <1>1, <1>2
  <2> DEFINE to == [at |-> next.at, file |-> f, result |-> next.result, subs |-> {}]
  <2>2. to \in Works /\ to.file = f /\ to.at \in Held
    BY DEF Works, Held, Finals
  <2> QED
    BY <2>1, <2>2
<1>5. /\ thumb' \in [ThumbWorkers -> Works] /\ thumb'[w] = to /\ thumb[w].at = "idle"
      /\ \A v \in ThumbWorkers : v # w => thumb'[v] = thumb[v]
  BY <1>4, ThumbMoves DEF ThumbTyped
<1>6. jobs' \in [Files -> JobSet]
  <2>1. [jobs[f] EXCEPT !.active = TRUE] \in JobSet
    BY DEF ThumbTyped, JobSet
  <2> QED
    BY <1>1, <1>2, <2>1 DEF ThumbTyped, JobSet
<1>7. /\ jobs'[f].live /\ jobs'[f].active /\ jobs'[f].subs = jobs[f].subs
      /\ \A g \in Files : g # f => jobs'[g] = jobs[g]
  BY <1>1, <1>2, <1>3 DEF ThumbTyped
<1>8. /\ thumbQueue' \in Seq(Files) /\ IsInjective(thumbQueue')
      /\ Range(thumbQueue') = Range(thumbQueue) \cap (Files \ {f})
  BY <1>1, <1>2, KeepFacts, KeepInjective DEF ThumbTyped, ThumbPlaced
<1>9. /\ HoldsThumb(w, f)'
      /\ \A g \in Files : g # f => ~HoldsThumb(w, g)'
      /\ \A g \in Files : ~HoldsThumb(w, g)
      /\ \A v \in ThumbWorkers, g \in Files : v # w => (HoldsThumb(v, g)' <=> HoldsThumb(v, g))
  BY <1>4, <1>5 DEF HoldsThumb, Held
<1>10. \A v \in ThumbWorkers : ~HoldsThumb(v, f)
  BY <1>1, <1>3 DEF ThumbPlaced
<1>11. ThumbPlaced'
  <2>1. Range(thumbQueue') = {g \in Files : jobs'[g].live /\ ~jobs'[g].active}
    BY <1>7, <1>8 DEF ThumbPlaced
  <2>2. \A g \in Files : ~jobs'[g].live => jobs'[g] = NoThumb
    BY <1>7 DEF ThumbPlaced
  <2>3. \A v \in ThumbWorkers, g \in Files :
          HoldsThumb(v, g)' => stopped' \/ (jobs'[g].live /\ jobs'[g].active)
    BY <1>1, <1>7, <1>9 DEF ThumbPlaced
  <2>4. \A u, v \in ThumbWorkers, g \in Files : HoldsThumb(u, g)' /\ HoldsThumb(v, g)' => u = v
    BY <1>9, <1>10 DEF ThumbPlaced
  <2>5. ASSUME NEW g \in Files, jobs'[g].live, jobs'[g].active
        PROVE  \E v \in ThumbWorkers : HoldsThumb(v, g)'
    <3>1. CASE g = f
      BY <1>9, <3>1
    <3>2. CASE g # f
      <4>1. PICK v \in ThumbWorkers : HoldsThumb(v, g)
        BY <1>7, <2>5, <3>2 DEF ThumbPlaced
      <4> QED
        BY <1>9, <4>1
    <3> QED
      BY <3>1, <3>2
  <2> QED
    BY <1>1, <1>8, <2>1, <2>2, <2>3, <2>4, <2>5 DEF ThumbPlaced
<1>12. NoWishForgotten'
  <2> SUFFICES ASSUME NEW wish \in owed
               PROVE  \/ jobs'[wish[2]].live /\ wish[1] \in jobs'[wish[2]].subs
                      \/ \E v \in ThumbWorkers : thumb'[v].file = wish[2] /\ wish[1] \in thumb'[v].subs
                                                 /\ thumb'[v].at \in {"publish", "enqueue"}
    BY <1>1 DEF NoWishForgotten
  <2>1. wish[2] \in Files
    BY DEF ThumbTyped
  <2>2. CASE jobs[wish[2]].live /\ wish[1] \in jobs[wish[2]].subs
    BY <1>7, <2>1, <2>2
  <2>3. CASE ~(jobs[wish[2]].live /\ wish[1] \in jobs[wish[2]].subs)
    <3>1. PICK v \in ThumbWorkers : thumb[v].file = wish[2] /\ wish[1] \in thumb[v].subs
                                    /\ thumb[v].at \in {"publish", "enqueue"}
      BY <2>3 DEF NoWishForgotten
    <3>2. v # w
      BY <1>5, <3>1
    <3> QED
      BY <1>5, <3>1, <3>2
  <2> QED
    BY <2>2, <2>3
<1>13. NoStrandedBatch'
  BY <1>1, <1>5, BatchRests
<1>14. ThumbTyped'
  BY <1>1, <1>5, <1>6, <1>8 DEF ThumbTyped, JobSet
<1> QED
  BY <1>11, <1>12, <1>13, <1>14

LEMMA FinishKeeps ==
  ASSUME ThumbIInv, NEW w \in ThumbWorkers, Finish(w) PROVE ThumbIInv'
<1> USE DEF ThumbIInv
<1> DEFINE f == thumb[w].file
           told == thumb[w].result # "none" /\ jobs[f].subs # {}
           to == IF told THEN [thumb[w] EXCEPT !.at = "publish", !.subs = jobs[f].subs] ELSE Rest
<1>1. /\ UNCHANGED <<thumbQueue, scopeRev, stopped, shown, batch, signalled, timer, flushed, call>>
      /\ Step(w, "finish", to) /\ jobs' = [jobs EXCEPT ![f] = NoThumb] /\ cut' = cut \ {f}
      /\ owed' = IF told THEN owed ELSE owed \ (jobs[f].subs \X {f})
  BY DEF Finish, batchVars, callVars
<1>2. thumb[w].at = "finish" /\ thumb[w] \in Works
  BY <1>1 DEF Step, ThumbTyped
<1>3. f \in Files /\ thumb[w].result \in Finals \cup {"none"}
  BY <1>2 DEF Works, Held, Told
<1>4. jobs[f].subs \in SUBSET ThumbScopes
  <2> HIDE DEF f
  <2> QED
    BY <1>3 DEF ThumbTyped
<1> HIDE DEF told
<1>5. /\ to \in Works /\ to.at \notin Held /\ to.at # "signal"
      /\ told => to.file = f /\ to.subs = jobs[f].subs /\ to.at = "publish"
  <2>1. CASE told
    <3>1. thumb[w].result \in Finals
      BY <1>3, <2>1 DEF told
    <3> QED
      BY <1>2, <1>3, <1>4, <2>1, <3>1 DEF Works, Held, Told
  <2>2. CASE ~told
    BY <2>2 DEF Works, Held, Rest
  <2> QED
    BY <2>1, <2>2
<1> HIDE DEF to, f
<1>6. /\ thumb' \in [ThumbWorkers -> Works] /\ thumb'[w] = to
      /\ \A v \in ThumbWorkers : v # w => thumb'[v] = thumb[v]
  BY <1>1, <1>5, ThumbMoves DEF ThumbTyped
<1>7. NoThumb \in JobSet /\ NoThumb.live = FALSE
  BY DEF NoThumb, JobSet
<1>8. /\ jobs' \in [Files -> JobSet] /\ jobs'[f] = NoThumb
      /\ \A g \in Files : g # f => jobs'[g] = jobs[g]
  BY <1>1, <1>3, <1>7 DEF ThumbTyped, JobSet
<1>9. /\ HoldsThumb(w, f) /\ \A g \in Files : g # f => ~HoldsThumb(w, g)
      /\ \A g \in Files : ~HoldsThumb(w, g)'
      /\ \A v \in ThumbWorkers, g \in Files : v # w => (HoldsThumb(v, g)' <=> HoldsThumb(v, g))
  BY <1>2, <1>5, <1>6 DEF HoldsThumb, Held, f
<1>10. \A v \in ThumbWorkers : v # w => ~HoldsThumb(v, f)
  BY <1>3, <1>9 DEF ThumbPlaced
<1>11. f \notin Range(thumbQueue)
  <2>1. CASE stopped
    <3>1. thumbQueue = <<>>
      BY <2>1 DEF ThumbPlaced
    <3> QED
      BY <3>1 DEF Range
  <2>2. CASE ~stopped
    BY <1>3, <1>9, <2>2 DEF ThumbPlaced
  <2> QED
    BY <2>1, <2>2
<1>12. ThumbPlaced'
  <2>1. Range(thumbQueue') = {g \in Files : jobs'[g].live /\ ~jobs'[g].active}
    <3>1. Range(thumbQueue) = {g \in Files : jobs[g].live /\ ~jobs[g].active}
      BY DEF ThumbPlaced
    <3>2. \A g \in Files : g \in Range(thumbQueue) <=> jobs'[g].live /\ ~jobs'[g].active
      BY <1>7, <1>8, <1>11, <3>1
    <3> QED
      BY <1>1, <3>1, <3>2
  <2>2. \A g \in Files : ~jobs'[g].live => jobs'[g] = NoThumb
    BY <1>8 DEF ThumbPlaced
  <2>3. \A v \in ThumbWorkers, g \in Files :
          HoldsThumb(v, g)' => stopped' \/ (jobs'[g].live /\ jobs'[g].active)
    <3> SUFFICES ASSUME NEW v \in ThumbWorkers, NEW g \in Files, HoldsThumb(v, g)', ~stopped
                 PROVE  jobs'[g].live /\ jobs'[g].active
      BY <1>1
    <3>1. v # w /\ HoldsThumb(v, g)
      BY <1>9
    <3>2. g # f
      BY <1>10, <3>1
    <3> QED
      BY <1>8, <3>1, <3>2 DEF ThumbPlaced
  <2>4. \A u, v \in ThumbWorkers, g \in Files : HoldsThumb(u, g)' /\ HoldsThumb(v, g)' => u = v
    BY <1>9 DEF ThumbPlaced
  <2>5. ASSUME NEW g \in Files, jobs'[g].live, jobs'[g].active
        PROVE  \E v \in ThumbWorkers : HoldsThumb(v, g)'
    <3>1. g # f
      BY <1>7, <1>8, <2>5
    <3>2. PICK v \in ThumbWorkers : HoldsThumb(v, g)
      BY <1>8, <2>5, <3>1 DEF ThumbPlaced
    <3> QED
      BY <1>9, <3>1, <3>2
  <2>6. stopped' => thumbQueue' = <<>> /\ \A g \in Files : jobs'[g] = NoThumb
    BY <1>1, <1>8 DEF ThumbPlaced
  <2>7. IsInjective(thumbQueue')
    BY <1>1 DEF ThumbPlaced
  <2> QED
    BY <2>1, <2>2, <2>3, <2>4, <2>5, <2>6, <2>7 DEF ThumbPlaced
<1>13. owed' \subseteq owed
  BY <1>1
<1>14. NoWishForgotten'
  <2> SUFFICES ASSUME NEW wish \in owed'
               PROVE  \/ jobs'[wish[2]].live /\ wish[1] \in jobs'[wish[2]].subs
                      \/ \E v \in ThumbWorkers : thumb'[v].file = wish[2] /\ wish[1] \in thumb'[v].subs
                                                 /\ thumb'[v].at \in {"publish", "enqueue"}
    BY DEF NoWishForgotten
  <2>1. wish \in owed /\ wish[1] \in ThumbScopes /\ wish[2] \in Files
        /\ wish = <<wish[1], wish[2]>>
    BY <1>13 DEF ThumbTyped
  <2>2. CASE jobs[wish[2]].live /\ wish[1] \in jobs[wish[2]].subs
    <3>1. CASE wish[2] = f
      <4>1. told
        <5>1. ~told => wish \in jobs[f].subs \X {f} /\ owed' = owed \ (jobs[f].subs \X {f})
          BY <1>1, <2>1, <2>2, <3>1
        <5> QED
          BY <5>1
      <4> QED
        BY <1>5, <1>6, <2>2, <3>1, <4>1
    <3>2. CASE wish[2] # f
      BY <1>8, <2>1, <2>2, <3>2
    <3> QED
      BY <3>1, <3>2
  <2>3. CASE ~(jobs[wish[2]].live /\ wish[1] \in jobs[wish[2]].subs)
    <3>1. PICK v \in ThumbWorkers : thumb[v].file = wish[2] /\ wish[1] \in thumb[v].subs
                                    /\ thumb[v].at \in {"publish", "enqueue"}
      BY <2>1, <2>3 DEF NoWishForgotten
    <3>2. v # w
      BY <1>2, <3>1
    <3> QED
      BY <1>6, <3>1, <3>2
  <2> QED
    BY <2>2, <2>3
<1>15. NoStrandedBatch'
  BY <1>1, <1>2, <1>6, BatchRests
<1>16. ThumbTyped'
  BY <1>1, <1>6, <1>8, <1>13 DEF ThumbTyped, JobSet
<1> QED
  BY <1>12, <1>14, <1>15, <1>16

-----------------------------------------------------------------------------
(* Thumbnails: the theorem.                                                *)

LEMMA ThumbStarts == ThumbInit => ThumbIInv
<1> SUFFICES ASSUME ThumbInit PROVE ThumbIInv
  OBVIOUS
<1>1. NoThumb \in JobSet /\ NoThumb.live = FALSE
  BY DEF NoThumb, JobSet
<1>2. Rest \in Works /\ Rest.at = "idle"
  BY DEF Rest, Works
<1>3. ThumbTyped
  <2>1. ShownOK(shown)
    BY ShownStarts DEF ThumbInit
  <2>2. NoCall \in Calls /\ <<>> \in Seq(Events) /\ Len(<<>>) < BatchMax
    BY ThumbAssumption DEF Calls
  <2>3. jobs \in [Files -> [live : BOOLEAN, active : BOOLEAN, subs : SUBSET ThumbScopes]]
    BY <1>1 DEF ThumbInit, JobSet
  <2>4. scopeRev \in [ThumbScopes -> 0..MaxThumbRev] /\ thumb \in [ThumbWorkers -> Works]
    BY <1>2, ThumbAssumption DEF ThumbInit
  <2>5. batch \in Seq(Events) /\ Len(batch) < BatchMax /\ thumbQueue \in Seq(Files)
        /\ call \in Calls
    BY <2>2 DEF ThumbInit
  <2>6. /\ stopped \in BOOLEAN /\ cut \subseteq Files /\ owed \subseteq ThumbScopes \X Files
        /\ timer \in {"wait", "sleep"} /\ signalled \in BOOLEAN /\ flushed \in BOOLEAN
    BY DEF ThumbInit
  <2> QED
    BY <2>1, <2>3, <2>4, <2>5, <2>6 DEF ThumbTyped
<1>4. ThumbPlaced
  <2>1. IsInjective(<<>>) /\ Range(<<>>) = {}
    BY DEF IsInjective, Range
  <2>2. \A f \in Files : jobs[f] = NoThumb
    BY DEF ThumbInit
  <2>3. {f \in Files : jobs[f].live /\ ~jobs[f].active} = {}
    BY <1>1, <2>2
  <2>4. \A w \in ThumbWorkers, f \in Files : ~HoldsThumb(w, f)
    BY <1>2 DEF ThumbInit, HoldsThumb, Held
  <2> QED
    BY <1>1, <2>1, <2>2, <2>3, <2>4 DEF ThumbInit, ThumbPlaced
<1>5. NoWishForgotten /\ NoStrandedBatch
  BY DEF ThumbInit, NoWishForgotten, NoStrandedBatch
<1> QED
  BY <1>3, <1>4, <1>5 DEF ThumbIInv

LEMMA ThumbStutters ==
  ASSUME ThumbIInv, UNCHANGED thumbVars PROVE ThumbIInv'
<1>1. UNCHANGED <<jobs, thumbQueue, scopeRev, stopped, thumb, cut, shown, batch, signalled,
                  timer, flushed, call, calls, owed>>
  BY DEF thumbVars, poolVars, batchVars, callVars
<1>2. ThumbPlaced' /\ NoWishForgotten'
  BY <1>1, PoolRests DEF ThumbIInv
<1>3. NoStrandedBatch'
  BY <1>1, BatchRests DEF ThumbIInv
<1>4. ThumbTyped'
  BY <1>1 DEF ThumbIInv, ThumbTyped
<1> QED
  BY <1>2, <1>3, <1>4 DEF ThumbIInv

LEMMA ThumbSteps == ThumbIInv /\ [ThumbNext]_thumbVars => ThumbIInv'
<1> SUFFICES ASSUME ThumbIInv, [ThumbNext]_thumbVars PROVE ThumbIInv'
  OBVIOUS
<1>1. ASSUME NEW s \in ThumbScopes, Request(s) \/ CancelScope(s) PROVE ThumbIInv'
  BY <1>1, RequestKeeps, CancelScopeKeeps
<1>2. CASE LookUp \/ LookedUp \/ Replace \/ Shutdown \/ CutOne \/ CutDone
  BY <1>2, LookUpKeeps, LookedUpKeeps, ReplaceKeeps, ShutdownKeeps, TellProviderKeeps
<1>3. ASSUME NEW f \in Files, Expire(f) PROVE ThumbIInv'
  BY <1>3, ExpireKeeps
<1>4. CASE TimerWakes \/ TimerFlushes
  BY <1>4, TimerKeeps
<1>5. ASSUME NEW w \in ThumbWorkers,
             TakeJob(w) \/ Preview(w) \/ EmitPreview(w) \/ Generated(w) \/ Finish(w)
             \/ Publish(w) \/ EnqueueResult(w) \/ SignalTimer(w)
      PROVE  ThumbIInv'
  BY <1>5, TakeJobKeeps, PreviewKeeps, EmitPreviewKeeps, FinishKeeps, PublishKeeps,
     EnqueueResultKeeps, SignalTimerKeeps
<1>6. CASE UNCHANGED thumbVars
  BY <1>6, ThumbStutters
<1> QED
  BY <1>1, <1>2, <1>3, <1>4, <1>5, <1>6 DEF ThumbNext

LEMMA ThumbIInvSuffices == ThumbIInv => ThumbInv
<1> SUFFICES ASSUME ThumbIInv PROVE ThumbInv
  OBVIOUS
<1> USE DEF ThumbIInv
<1>1. ThumbTypeOK
  BY DEF ThumbTyped, ThumbTypeOK, ShownOK
<1>2. ASSUME NEW f \in Files, jobs[f].live, jobs[f].active
      PROVE  Cardinality({w \in ThumbWorkers :
               thumb[w].file = f /\ thumb[w].at \in {"generate", "preview", "finish"}}) = 1
  <2>1. PICK w \in ThumbWorkers : HoldsThumb(w, f)
    BY <1>2 DEF ThumbPlaced
  <2>2. \A v \in ThumbWorkers : HoldsThumb(v, f) => v = w
    BY <2>1 DEF ThumbPlaced
  <2>3. {v \in ThumbWorkers :
           thumb[v].file = f /\ thumb[v].at \in {"generate", "preview", "finish"}} = {w}
    BY <2>1, <2>2 DEF HoldsThumb, Held
  <2> QED
    BY <2>3, FS_Singleton
<1>3. JobsAreQueued
  BY <1>2 DEF JobsAreQueued, ThumbPlaced
<1> QED
  BY <1>1, <1>3 DEF ThumbInv

\* For any scopes, files, workers and limits: the queue and the workers hold
\* exactly the jobs there are, each worker its own; every wish the scheduler
\* accepted and has not answered is attached to a job or in a worker's hands; and
\* results left for the batch timer are left to one that will flush them.
THEOREM ThumbsServed == ThumbSpec => []ThumbInv
<1>1. ThumbInit => ThumbIInv
  BY ThumbStarts
<1>2. ThumbIInv /\ [ThumbNext]_thumbVars => ThumbIInv'
  BY ThumbSteps
<1>3. ThumbIInv => ThumbInv
  BY ThumbIInvSuffices
<1> QED
  BY <1>1, <1>2, <1>3, PTL DEF ThumbSpec
=============================================================================
