---------------------------- MODULE Services_proofs ----------------------------
(***************************************************************************)
(* What is proved of the services the commands call into.  The resource    *)
(* coordinator, for every set of jobs, classes, keys and caps: its types,  *)
(* that the occupancy counters are exactly what the granted jobs hold,     *)
(* that it implements Admission, that no caller waits for capacity that is *)
(* free, and, when nobody cancels a job that shares its coalescing key,    *)
(* that no caller is forgotten and that who holds a handle holds its       *)
(* reservation.  The IPC executor and the settings store, for any number   *)
(* of requests, workers, changes and exits.  The Trash, for any items,     *)
(* paths, names, batches and commands: what the manifest keeps, loses and  *)
(* reports, whoever else writes it meanwhile.                              *)
(***************************************************************************)
EXTENDS ResourceCoordinator, IpcExecutor, SettingsStore, Trash, FoldFacts, SequenceTheorems, TLAPS

-----------------------------------------------------------------------------
(* Types.                                                                  *)

\* The jobs folded onto one are finitely many.
LEMMA FoldedFinite ==
  ASSUME NEW j \in Jobs
  PROVE  Cardinality({c \in Jobs : onto[c] = j}) \in Nat
<1>1. IsFiniteSet({c \in Jobs : onto[c] = j})
  BY JobAssumption, FS_Subset
<1>. QED  BY <1>1, FS_CardinalityType

\* The types of the callers' variables.
CallersOK ==
  /\ caller \in [Jobs -> CallerStates]
  /\ handle \in [Jobs -> Jobs \cup {NoJob}]
  /\ \A j \in Jobs : caller[j] = "holding" => handle[j] \in Jobs

\* Answering callers keeps their types.
LEMMA AnswerType ==
  ASSUME TypeOK, NEW J, NEW state \in CallerStates, NEW id \in Jobs \cup {NoJob},
         state = "holding" => id \in Jobs, Answer(J, state, id)
  PROVE  CallersOK'
  BY DEF TypeOK, Answer, CallersOK

\* A received message leaves the rest of the channel.
LEMMA ReceiveType ==
  ASSUME TypeOK, NEW type, NEW id, Receive(type, id)
  PROVE  inbox' \in Seq(Messages)
  BY DEF TypeOK, Receive

\* Removing an entry of the queue leaves a queue.
LEMMA WithoutType ==
  ASSUME TypeOK, NEW i \in DOMAIN waiting
  PROVE  Without(i) \in Seq(Jobs)
  BY DEF TypeOK, Without

\* The occupancy counters stay natural numbers.
LEMMA OccupancyType ==
  ASSUME TypeOK, NEW j \in Jobs, Occupy(j) \/ Vacate(j)
  PROVE  /\ used' \in [Classes -> Nat]
         /\ held' \in [Keys \X KeyedClasses -> Nat]
<1>1. \A n \in Nat : n + 1 \in Nat /\ Less(n) \in Nat
  BY DEF Less
<1>2. CASE Occupy(j)
  BY <1>1, <1>2 DEF TypeOK, Occupy
<1>3. CASE Vacate(j)
  BY <1>1, <1>3 DEF TypeOK, Vacate
<1>. QED  BY <1>2, <1>3

\* Every step keeps the types.
LEMMA TypeStep ==
  ASSUME TypeOK, [Next]_vars
  PROVE  TypeOK'
<1>1. ASSUME NEW j \in Jobs, Submit(j)
      PROVE  TypeOK'
  BY <1>1 DEF Submit, Send, TypeOK, Messages, CallerStates, scheduler, occupancy
<1>2. ASSUME NEW j \in Jobs, Drop(j)
      PROVE  TypeOK'
  BY <1>2 DEF Drop, Send, TypeOK, Messages, CallerStates, scheduler, occupancy
<1>3. ASSUME NEW j \in Jobs, Cancel(j)
      PROVE  TypeOK'
  BY <1>3 DEF Cancel, Send, TypeOK, Messages, scheduler, occupancy, callers
<1>4. ASSUME NEW j \in Jobs, CancelFallback(j)
      PROVE  TypeOK'
  BY <1>4 DEF CancelFallback, Send, TypeOK, Messages, scheduler, occupancy, callers
<1>5. CASE Shutdown
  BY <1>5 DEF Shutdown, Send, TypeOK, Messages, scheduler, occupancy, callers
<1>6. ASSUME NEW j \in Jobs, Coalesce(j)
      PROVE  TypeOK'
  <2>1. PICK t \in CoalesceTargets(j) :
          /\ onto' = [onto EXCEPT ![j] = t]
          /\ IF t \in granted
             THEN /\ refs' = [refs EXCEPT ![t] = @ + 1]
                  /\ Answer({j}, "holding", t)
                  /\ UNCHANGED replies
             ELSE /\ replies' = replies \cup {j}
                  /\ UNCHANGED <<refs, callers>>
    BY <1>6 DEF Coalesce
  <2>2. t \in Jobs
    BY DEF CoalesceTargets, Queued, TypeOK
  <2>3. inbox' \in Seq(Messages)
    BY <1>6, ReceiveType DEF Coalesce
  <2>4. CallersOK'
    BY <2>1, <2>2, AnswerType DEF callers, TypeOK, CallersOK, CallerStates
  <2>5. refs' \in [Jobs -> Nat] /\ replies' \subseteq Jobs
    <3>1. CASE t \in granted
      BY <2>1, <2>2, <3>1 DEF TypeOK
    <3>2. CASE t \notin granted
      BY <2>1, <2>2, <3>2 DEF TypeOK
    <3>. QED  BY <3>1, <3>2
  <2>. QED
    BY <1>6, <2>1, <2>2, <2>3, <2>4, <2>5 DEF Coalesce, TypeOK, CallersOK, occupancy
<1>7. ASSUME NEW j \in Jobs, Enqueue(j)
      PROVE  TypeOK'
  <2>1. inbox' \in Seq(Messages)
    BY <1>7, ReceiveType DEF Enqueue
  <2>. QED  BY <1>7, <2>1 DEF Enqueue, TypeOK, occupancy, callers
<1>8. ASSUME NEW j \in Jobs, Reject(j)
      PROVE  TypeOK'
  <2>1. inbox' \in Seq(Messages)
    BY <1>8, ReceiveType DEF Reject
  <2>2. CallersOK'
    BY <1>8, AnswerType DEF Reject, CallerStates
  <2>. QED  BY <1>8, <2>1, <2>2 DEF Reject, TypeOK, CallersOK, occupancy, scheduler
<1>9. ASSUME NEW j \in Jobs, CancelQueued(j)
      PROVE  TypeOK'
  <2>1. inbox' \in Seq(Messages)
    BY <1>9, ReceiveType DEF CancelQueued
  <2>2. waiting' \in Seq(Jobs)
    BY <1>9, WithoutType DEF CancelQueued, TypeOK
  <2>3. CallersOK'
    BY <1>9, AnswerType DEF CancelQueued, CallerStates
  <2>. QED  BY <1>9, <2>1, <2>2, <2>3 DEF CancelQueued, TypeOK, CallersOK, occupancy
<1>10. ASSUME NEW j \in Jobs, Release(j)
       PROVE  TypeOK'
  <2>1. inbox' \in Seq(Messages)
    BY <1>10, ReceiveType DEF Release
  <2>2. /\ used' \in [Classes -> Nat]
        /\ held' \in [Keys \X KeyedClasses -> Nat]
    BY <1>10, OccupancyType DEF Release, TypeOK, occupancy
  <2>. QED  BY <1>10, <2>1, <2>2 DEF Release, TypeOK, callers, occupancy, Less
<1>11. ASSUME NEW j \in Jobs, Admit(j)
       PROVE  TypeOK'
  <2>1. waiting' \in Seq(Jobs)
    BY <1>11, WithoutType DEF Admit
  <2>2. /\ used' \in [Classes -> Nat]
        /\ held' \in [Keys \X KeyedClasses -> Nat]
    BY <1>11, OccupancyType DEF Admit
  <2>3. CallersOK'
    BY <1>11, AnswerType DEF Admit, CallerStates
  <2>4. refs' \in [Jobs -> Nat]
    <3>. DEFINE n == Cardinality({c \in Jobs : onto[c] = j})
    <3>1. refs' = [refs EXCEPT ![j] = 1 + n]
      BY <1>11 DEF Admit
    <3>2. n \in Nat
      BY FoldedFinite
    <3>. HIDE DEF n
    <3>. QED  BY <3>1, <3>2 DEF TypeOK
  <2>. QED  BY <1>11, <2>1, <2>2, <2>3, <2>4 DEF Admit, TypeOK, CallersOK
<1>12. CASE NoneRunnable
  BY <1>12 DEF NoneRunnable, TypeOK, scheduler, occupancy, callers
<1>13. CASE Stop
  <2>1. inbox' \in Seq(Messages)
    BY <1>13, ReceiveType DEF Stop
  <2>2. CallersOK'
    BY <1>13, AnswerType DEF Stop, CallerStates
  <2>. QED  BY <1>13, <2>1, <2>2 DEF Stop, TypeOK, CallersOK
<1>14. CASE UNCHANGED vars
  BY <1>14 DEF vars, TypeOK
<1>. QED
  BY <1>1, <1>2, <1>3, <1>4, <1>5, <1>6, <1>7, <1>8, <1>9, <1>10, <1>11, <1>12,
     <1>13, <1>14 DEF Next, Dispatcher, Caller

\* Every variable keeps its type.
THEOREM Typed == Spec => []TypeOK
<1>1. Init => TypeOK
  BY JobAssumption DEF Init, TypeOK, Messages, CallerStates
<1>. QED  BY <1>1, TypeStep, PTL DEF Spec

-----------------------------------------------------------------------------
(* Every job is in one place: its message, the queue or the granted jobs.  *)

\* A submission is read once, and its job was neither queued nor granted before.
Once ==
  /\ \A i \in DOMAIN inbox : inbox[i].type = "Submit" =>
       caller[inbox[i].id] # "new" /\ inbox[i].id \notin Queued \cup granted
  /\ \A i, k \in DOMAIN inbox :
       inbox[i].type = "Submit" /\ inbox[i] = inbox[k] => i = k
  /\ \A i, k \in DOMAIN waiting : waiting[i] = waiting[k] => i = k
  /\ \A j \in Queued \cup granted : caller[j] # "new"
  /\ Queued \cap granted = {}

\* No caller is new again.
NoneNew == \A j \in Jobs : caller'[j] = "new" => caller[j] = "new"

\* Sending anything but a submission.
LEMMA SendOnce ==
  ASSUME TypeOK, Once, NEW m \in Messages, m.type # "Submit", Send(m),
         NoneNew, UNCHANGED <<waiting, granted>>
  PROVE  Once'
<1>1. CASE phase = "gone"
  <2>1. inbox' = inbox /\ Queued' = Queued
    BY <1>1 DEF Send, Queued
  <2>2. \A i \in DOMAIN inbox : inbox[i].type = "Submit" => inbox[i].id \in Jobs
    BY DEF TypeOK, Messages
  <2>3. Queued \cup granted \subseteq Jobs
    BY DEF TypeOK, Queued
  <2>. QED  BY <2>1, <2>2, <2>3 DEF Once, NoneNew
<1>2. CASE phase # "gone"
  <2>1. /\ DOMAIN inbox' = 1..(Len(inbox) + 1)
        /\ \A i \in DOMAIN inbox' :
             inbox'[i] = IF i = Len(inbox) + 1 THEN m ELSE inbox[i]
        /\ DOMAIN inbox = 1..Len(inbox) /\ Len(inbox) \in Nat
        /\ \A i \in DOMAIN inbox : inbox[i] \in Messages
    BY <1>2 DEF Send, TypeOK
  <2>2. \A i \in DOMAIN inbox' : inbox'[i].type = "Submit" =>
          i \in DOMAIN inbox /\ inbox'[i] = inbox[i] /\ inbox[i].id \in Jobs
    BY <2>1 DEF Messages
  <2>3. Queued' = Queued
    BY DEF Queued
  <2>4. Queued \cup granted \subseteq Jobs
    BY DEF TypeOK, Queued
  <2>5. \A i, k \in DOMAIN inbox' :
          inbox'[i].type = "Submit" /\ inbox'[i] = inbox'[k] => i = k
    BY <2>1, <2>2 DEF Once
  <2>. QED  BY <2>2, <2>3, <2>4, <2>5 DEF Once, NoneNew
<1>. QED  BY <1>1, <1>2

\* The messages left after one is received, and the one received.
LEMMA ReceivedRest ==
  ASSUME TypeOK, NEW type, NEW id, Receive(type, id)
  PROVE  /\ 1 \in DOMAIN inbox /\ inbox[1] = [type |-> type, id |-> id]
         /\ \A i \in DOMAIN inbox' :
              /\ i \in Nat /\ i + 1 # 1
              /\ i + 1 \in DOMAIN inbox /\ inbox'[i] = inbox[i + 1]
              /\ inbox'[i] \in Messages
  BY DEF Receive, TypeOK

\* Receiving a message and queueing or granting nothing new.
LEMMA ReceiveOnce ==
  ASSUME TypeOK, Once, NEW type, NEW id, Receive(type, id), NoneNew,
         granted' \subseteq granted, Queued' \subseteq Queued,
         \A i, k \in DOMAIN waiting' : waiting'[i] = waiting'[k] => i = k
  PROVE  Once'
<1>0. \A i \in DOMAIN inbox' :
        /\ i \in Nat /\ i + 1 \in DOMAIN inbox /\ inbox'[i] = inbox[i + 1]
        /\ inbox'[i] \in Messages
  BY ReceivedRest
<1>1. Queued \cup granted \subseteq Jobs
  BY DEF TypeOK, Queued
<1>2. \A m \in Messages : m.type = "Submit" => m.id \in Jobs
  BY DEF Messages
<1>3. \A i \in DOMAIN inbox' : inbox'[i].type = "Submit" =>
        /\ i + 1 \in DOMAIN inbox /\ inbox'[i] = inbox[i + 1]
        /\ inbox'[i].id \in Jobs
  BY <1>0, <1>2
<1>4. \A i \in DOMAIN inbox' : inbox'[i].type = "Submit" =>
        caller'[inbox'[i].id] # "new" /\ inbox'[i].id \notin (Queued \cup granted)'
  BY <1>3 DEF Once, NoneNew
<1>5. \A i, k \in DOMAIN inbox' :
        inbox'[i].type = "Submit" /\ inbox'[i] = inbox'[k] => i = k
  <2>1. SUFFICES ASSUME NEW i \in DOMAIN inbox', NEW k \in DOMAIN inbox',
                        inbox'[i].type = "Submit", inbox'[i] = inbox'[k]
                 PROVE  i = k
    OBVIOUS
  <2>2. /\ i + 1 \in DOMAIN inbox /\ k + 1 \in DOMAIN inbox
        /\ inbox[i + 1] = inbox[k + 1] /\ inbox[i + 1].type = "Submit"
    BY <1>0, <2>1
  <2>3. i + 1 = k + 1
    BY <2>2 DEF Once
  <2>. QED  BY <1>0, <2>3
<1>. QED  BY <1>1, <1>4, <1>5 DEF Once, NoneNew

\* Taking an entry out of the queue.
LEMMA WithoutOnce ==
  ASSUME TypeOK, Once, NEW i \in DOMAIN waiting, waiting' = Without(i)
  PROVE  /\ Queued' = Queued \ {waiting[i]}
         /\ \A a, b \in DOMAIN waiting' : waiting'[a] = waiting'[b] => a = b
<1>. DEFINE n == Len(waiting)
            Old(k) == IF k < i THEN k ELSE k + 1
<1>1. n \in Nat /\ DOMAIN waiting = 1..n /\ i \in 1..n
  BY DEF TypeOK
<1>2. DOMAIN waiting' = 1..(n - 1)
  BY <1>1 DEF Without
<1>3. \A k \in 1..(n - 1) :
        Old(k) \in 1..n /\ Old(k) # i /\ waiting'[k] = waiting[Old(k)]
  BY <1>1 DEF Without
<1>4. \A a, b \in 1..(n - 1) : Old(a) = Old(b) => a = b
  BY <1>1
<1>5. \A k \in 1..n : k # i => \E l \in 1..(n - 1) : Old(l) = k
  <2>1. SUFFICES ASSUME NEW k \in 1..n, k # i
                 PROVE  \E l \in 1..(n - 1) : Old(l) = k
    OBVIOUS
  <2>2. CASE k < i
    BY <1>1, <2>1, <2>2
  <2>3. CASE k > i
    <3>1. k - 1 \in 1..(n - 1) /\ Old(k - 1) = k
      BY <1>1, <2>3
    <3>. QED  BY <3>1
  <2>. QED  BY <1>1, <2>1, <2>2, <2>3
<1>. HIDE DEF n, Old
<1>6. \A a, b \in DOMAIN waiting' : waiting'[a] = waiting'[b] => a = b
  BY <1>1, <1>2, <1>3, <1>4 DEF Once
<1>7. Queued' \subseteq Queued \ {waiting[i]}
  BY <1>1, <1>2, <1>3 DEF Queued, Once
<1>8. Queued \ {waiting[i]} \subseteq Queued'
  <2>1. SUFFICES ASSUME NEW k \in 1..n, waiting[k] # waiting[i]
                 PROVE  waiting[k] \in Queued'
    BY <1>1 DEF Queued
  <2>2. PICK l \in 1..(n - 1) : Old(l) = k
    BY <1>5, <2>1
  <2>. QED  BY <1>2, <1>3, <2>2 DEF Queued
<1>. QED  BY <1>6, <1>7, <1>8

\* Answering a caller never makes it new.
LEMMA AnswerNoneNew ==
  ASSUME TypeOK, NEW J, NEW state \in CallerStates \ {"new"}, NEW id,
         Answer(J, state, id)
  PROVE  NoneNew
  BY DEF TypeOK, Answer, NoneNew

\* Every step keeps each job in one place.
LEMMA OnceStep ==
  ASSUME TypeOK, Once, [Next]_vars
  PROVE  Once'
<1>1. ASSUME NEW j \in Jobs, Submit(j)
      PROVE  Once'
  <2>. DEFINE m == [type |-> "Submit", id |-> j]
  <2>1. caller[j] = "new" /\ caller'[j] # "new" /\ NoneNew
    BY <1>1 DEF Submit, NoneNew, TypeOK
  <2>2. Queued' = Queued /\ granted' = granted
    BY <1>1 DEF Submit, Queued, scheduler
  <2>3. Queued \cup granted \subseteq Jobs /\ j \notin Queued \cup granted
    BY <2>1 DEF TypeOK, Queued, Once
  <2>4. \A i \in DOMAIN inbox : inbox[i].type = "Submit" => inbox[i].id \in Jobs \ {j}
    BY <2>1 DEF TypeOK, Messages, Once
  <2>5. CASE phase = "gone"
    <3>1. inbox' = inbox
      BY <1>1, <2>5 DEF Submit, Send
    <3>. QED  BY <1>1, <2>1, <2>2, <2>3, <2>4, <3>1 DEF Once, NoneNew, Submit, scheduler
  <2>6. CASE phase # "gone"
    <3>1. /\ DOMAIN inbox' = 1..(Len(inbox) + 1)
          /\ \A i \in DOMAIN inbox' :
               inbox'[i] = IF i = Len(inbox) + 1 THEN m ELSE inbox[i]
          /\ DOMAIN inbox = 1..Len(inbox) /\ Len(inbox) \in Nat
      BY <1>1, <2>6 DEF Submit, Send, TypeOK
    <3>2. \A i \in DOMAIN inbox' : inbox'[i].type = "Submit" =>
            \/ inbox'[i].id = j /\ i = Len(inbox) + 1
            \/ i \in DOMAIN inbox /\ inbox'[i] = inbox[i] /\ inbox[i].id \in Jobs \ {j}
      BY <2>4, <3>1
    <3>3. \A i, k \in DOMAIN inbox' :
            inbox'[i].type = "Submit" /\ inbox'[i] = inbox'[k] => i = k
      BY <3>2 DEF Once
    <3>. QED
      BY <1>1, <2>1, <2>2, <2>3, <3>2, <3>3 DEF Once, NoneNew, Submit, scheduler
  <2>. QED  BY <2>5, <2>6
<1>2. ASSUME NEW j \in Jobs, Drop(j)
      PROVE  Once'
  <2>1. [type |-> "Release", id |-> handle[j]] \in Messages
    BY <1>2 DEF Drop, TypeOK, Messages
  <2>. QED  BY <1>2, <2>1, SendOnce DEF Drop, NoneNew, TypeOK, scheduler
<1>3. ASSUME NEW j \in Jobs, Cancel(j)
      PROVE  Once'
  <2>1. [type |-> "CancelQueued", id |-> j] \in Messages
    BY DEF Messages
  <2>. QED  BY <1>3, <2>1, SendOnce DEF Cancel, NoneNew, scheduler, callers
<1>4. ASSUME NEW j \in Jobs, CancelFallback(j)
      PROVE  Once'
  <2>1. [type |-> "Release", id |-> j] \in Messages
    BY DEF Messages
  <2>. QED  BY <1>4, <2>1, SendOnce DEF CancelFallback, NoneNew, scheduler, callers
<1>5. CASE Shutdown
  <2>1. [type |-> "Shutdown", id |-> NoJob] \in Messages
    BY DEF Messages
  <2>. QED  BY <1>5, <2>1, SendOnce DEF Shutdown, NoneNew, scheduler, callers
<1>6. ASSUME NEW j \in Jobs, Coalesce(j)
      PROVE  Once'
  <2>1. NoneNew
    <3>1. PICK t \in CoalesceTargets(j) :
            Answer({j}, "holding", t) \/ UNCHANGED callers
      BY <1>6 DEF Coalesce
    <3>. QED  BY <3>1, AnswerNoneNew DEF CallerStates, NoneNew, callers
  <2>. QED  BY <1>6, <2>1, ReceiveOnce DEF Coalesce, Queued, Once
<1>7. ASSUME NEW j \in Jobs, Enqueue(j)
      PROVE  Once'
  <2>1. /\ 1 \in DOMAIN inbox /\ inbox[1] = [type |-> "Submit", id |-> j]
        /\ \A i \in DOMAIN inbox' :
             /\ i \in Nat /\ i + 1 # 1
             /\ i + 1 \in DOMAIN inbox /\ inbox'[i] = inbox[i + 1]
             /\ inbox'[i] \in Messages
    BY <1>7, ReceivedRest DEF Enqueue
  <2>2. j \notin Queued \cup granted /\ caller[j] # "new"
    BY <2>1 DEF Once
  <2>3. /\ DOMAIN waiting' = 1..(Len(waiting) + 1)
        /\ DOMAIN waiting = 1..Len(waiting) /\ Len(waiting) \in Nat
        /\ \A i \in DOMAIN waiting' :
             waiting'[i] = IF i = Len(waiting) + 1 THEN j ELSE waiting[i]
    BY <1>7 DEF Enqueue, TypeOK
  <2>4. Queued' = Queued \cup {j}
    BY <2>3 DEF Queued
  <2>5. \A i, k \in DOMAIN waiting' : waiting'[i] = waiting'[k] => i = k
    BY <2>2, <2>3 DEF Once, Queued
  <2>6. granted' = granted /\ caller' = caller
    BY <1>7 DEF Enqueue, callers
  <2>7. \A i \in DOMAIN inbox' : inbox'[i].type = "Submit" =>
          caller[inbox'[i].id] # "new" /\ inbox'[i].id \notin Queued \cup granted \cup {j}
    <3>1. SUFFICES ASSUME NEW i \in DOMAIN inbox', inbox'[i].type = "Submit"
                   PROVE  /\ caller[inbox'[i].id] # "new"
                          /\ inbox'[i].id \notin Queued \cup granted
                          /\ inbox'[i].id # j
      OBVIOUS
    <3>2. inbox[i + 1] = [type |-> "Submit", id |-> inbox[i + 1].id]
      BY <2>1, <3>1 DEF Messages
    <3>3. inbox[i + 1].id # j
      BY <2>1, <3>1, <3>2 DEF Once
    <3>. QED  BY <2>1, <3>1, <3>3 DEF Once
  <2>8. \A i, k \in DOMAIN inbox' :
          inbox'[i].type = "Submit" /\ inbox'[i] = inbox'[k] => i = k
    <3>1. SUFFICES ASSUME NEW i \in DOMAIN inbox', NEW k \in DOMAIN inbox',
                          inbox'[i].type = "Submit", inbox'[i] = inbox'[k]
                   PROVE  i = k
      OBVIOUS
    <3>2. i + 1 = k + 1
      BY <2>1, <3>1 DEF Once
    <3>. QED  BY <2>1, <3>2
  <2>. QED  BY <2>2, <2>4, <2>5, <2>6, <2>7, <2>8 DEF Once
<1>8. ASSUME NEW j \in Jobs, Reject(j)
      PROVE  Once'
  <2>1. NoneNew
    BY <1>8, AnswerNoneNew DEF Reject, CallerStates
  <2>. QED  BY <1>8, <2>1, ReceiveOnce DEF Reject, Queued, Once, scheduler
<1>9. ASSUME NEW j \in Jobs, CancelQueued(j)
      PROVE  Once'
  <2>1. NoneNew
    BY <1>9, AnswerNoneNew DEF CancelQueued, CallerStates
  <2>2. /\ Queued' \subseteq Queued
        /\ \A i, k \in DOMAIN waiting' : waiting'[i] = waiting'[k] => i = k
    <3>1. CASE \E i \in DOMAIN waiting : waiting' = Without(i)
      BY <3>1, WithoutOnce
    <3>2. CASE UNCHANGED waiting
      BY <3>2 DEF Queued, Once
    <3>. QED  BY <1>9, <3>1, <3>2 DEF CancelQueued
  <2>. QED  BY <1>9, <2>1, <2>2, ReceiveOnce DEF CancelQueued
<1>10. ASSUME NEW j \in Jobs, Release(j)
       PROVE  Once'
  <2>1. NoneNew /\ granted' \subseteq granted /\ waiting' = waiting
    BY <1>10 DEF Release, NoneNew, callers
  <2>. QED  BY <1>10, <2>1, ReceiveOnce DEF Release, Queued, Once
<1>11. ASSUME NEW j \in Jobs, Admit(j)
       PROVE  Once'
  <2>1. NoneNew /\ inbox' = inbox /\ granted' = granted \cup {j}
    BY <1>11, AnswerNoneNew DEF Admit, CallerStates
  <2>2. PICK n \in DOMAIN waiting : waiting[n] = j /\ waiting' = Without(n)
    BY <1>11 DEF Admit
  <2>3. /\ Queued' = Queued \ {j}
        /\ \A a, b \in DOMAIN waiting' : waiting'[a] = waiting'[b] => a = b
    BY <2>2, WithoutOnce
  <2>4. j \in Queued /\ Queued \cup granted \subseteq Jobs
    BY <2>2 DEF Queued, TypeOK
  <2>5. \A i \in DOMAIN inbox : inbox[i].type = "Submit" => inbox[i].id \in Jobs
    BY DEF TypeOK, Messages
  <2>. QED  BY <2>1, <2>3, <2>4, <2>5 DEF Once, NoneNew
<1>12. CASE NoneRunnable
  BY <1>12 DEF NoneRunnable, Once, scheduler, callers, Queued
<1>13. CASE Stop
  <2>1. NoneNew
    BY <1>13, AnswerNoneNew DEF Stop, CallerStates
  <2>2. Queued' = {} /\ granted' = {} /\ DOMAIN waiting' = {}
    BY <1>13 DEF Stop, Queued
  <2>. QED  BY <1>13, <2>1, <2>2, ReceiveOnce DEF Stop
<1>14. CASE UNCHANGED vars
  BY <1>14 DEF vars, Once, Queued
<1>. QED
  BY <1>1, <1>2, <1>3, <1>4, <1>5, <1>6, <1>7, <1>8, <1>9, <1>10, <1>11, <1>12,
     <1>13, <1>14 DEF Next, Dispatcher, Caller

-----------------------------------------------------------------------------
(* Occupancy.                                                              *)

\* Only granted jobs are counted as held.
RefsExact == \A j \in Jobs : refs[j] > 0 <=> j \in granted

\* The granted jobs among those that take a class, or a key in a class.
Takes(G, c)    == {j \in G : c \in ClassesOf[j]}
TakesKey(G, s) == {j \in G : s \in KeysOf[j] \X ClassesOf[j]}

\* The inductive invariant.  Admission is decided on the counters, so they must
\* be exact; they stay exact because no job is granted twice.
IInv == TypeOK /\ Once /\ RefsExact /\ OccupancyExact

\* One job more is counted once.
LEMMA CountAdded ==
  ASSUME NEW G \in SUBSET Jobs, NEW j \in Jobs, j \notin G, NEW S \in SUBSET G
  PROVE  /\ Cardinality(S) \in Nat
         /\ Cardinality(S \cup {j}) = Cardinality(S) + 1
<1>1. IsFiniteSet(S)
  BY JobAssumption, FS_Subset
<1>. QED  BY <1>1, FS_CardinalityType, FS_AddElement

\* One job more is counted in its classes.
LEMMA ClassAdded ==
  ASSUME NEW G \in SUBSET Jobs, NEW j \in Jobs, j \notin G, NEW c
  PROVE  /\ Cardinality(Takes(G, c)) \in Nat
         /\ c \in ClassesOf[j] =>
              Cardinality(Takes(G \cup {j}, c)) = Cardinality(Takes(G, c)) + 1
         /\ c \notin ClassesOf[j] => Takes(G \cup {j}, c) = Takes(G, c)
<1>1. Takes(G, c) \in SUBSET G
  BY DEF Takes
<1>2. c \in ClassesOf[j] => Takes(G \cup {j}, c) = Takes(G, c) \cup {j}
  BY DEF Takes
<1>3. c \notin ClassesOf[j] => Takes(G \cup {j}, c) = Takes(G, c)
  BY DEF Takes
<1>4. /\ Cardinality(Takes(G, c)) \in Nat
      /\ Cardinality(Takes(G, c) \cup {j}) = Cardinality(Takes(G, c)) + 1
  <2>1. PICK T \in SUBSET G : T = Takes(G, c)
    BY <1>1
  <2>2. /\ Cardinality(T) \in Nat
        /\ Cardinality(T \cup {j}) = Cardinality(T) + 1
    BY CountAdded
  <2>. QED  BY <2>1, <2>2, Zenon
<1>5. c \in ClassesOf[j] =>
        Cardinality(Takes(G \cup {j}, c)) = Cardinality(Takes(G, c)) + 1
  BY <1>2, <1>4, Zenon
<1>. QED  BY <1>3, <1>4, <1>5, Zenon

\* One job more is counted for its keys.
LEMMA KeyAdded ==
  ASSUME NEW G \in SUBSET Jobs, NEW j \in Jobs, j \notin G, NEW s
  PROVE  /\ Cardinality(TakesKey(G, s)) \in Nat
         /\ s \in KeysOf[j] \X ClassesOf[j] =>
              Cardinality(TakesKey(G \cup {j}, s)) = Cardinality(TakesKey(G, s)) + 1
         /\ s \notin KeysOf[j] \X ClassesOf[j] =>
              TakesKey(G \cup {j}, s) = TakesKey(G, s)
<1>1. TakesKey(G, s) \in SUBSET G
  BY DEF TakesKey
<1>2. s \in KeysOf[j] \X ClassesOf[j] =>
        TakesKey(G \cup {j}, s) = TakesKey(G, s) \cup {j}
  BY DEF TakesKey
<1>3. s \notin KeysOf[j] \X ClassesOf[j] => TakesKey(G \cup {j}, s) = TakesKey(G, s)
  BY DEF TakesKey
<1>4. /\ Cardinality(TakesKey(G, s)) \in Nat
      /\ Cardinality(TakesKey(G, s) \cup {j}) = Cardinality(TakesKey(G, s)) + 1
  <2>1. PICK T \in SUBSET G : T = TakesKey(G, s)
    BY <1>1
  <2>2. /\ Cardinality(T) \in Nat
        /\ Cardinality(T \cup {j}) = Cardinality(T) + 1
    BY CountAdded
  <2>. QED  BY <2>1, <2>2, Zenon
<1>5. s \in KeysOf[j] \X ClassesOf[j] =>
        Cardinality(TakesKey(G \cup {j}, s)) = Cardinality(TakesKey(G, s)) + 1
  BY <1>2, <1>4, Zenon
<1>. QED  BY <1>3, <1>4, <1>5, Zenon

\* Occupying for a new job keeps the counters exact.
LEMMA OccupyExact ==
  ASSUME TypeOK, OccupancyExact, NEW j \in Jobs, j \notin granted, Occupy(j),
         granted' = granted \cup {j}
  PROVE  OccupancyExact'
<1>1. \A c \in Classes : used[c] = Cardinality(Takes(granted, c))
  BY DEF OccupancyExact, Takes
<1>2. \A s \in Keys \X KeyedClasses : held[s] = Cardinality(TakesKey(granted, s))
  BY DEF OccupancyExact, TakesKey
<1>3. granted \in SUBSET Jobs
  BY DEF TypeOK
<1>4. \A c \in Classes : used'[c] = Cardinality(Takes(granted', c))
  BY <1>1, <1>3, ClassAdded DEF Occupy
<1>5. \A s \in Keys \X KeyedClasses : held'[s] = Cardinality(TakesKey(granted', s))
  BY <1>2, <1>3, KeyAdded DEF Occupy
<1>. QED  BY <1>4, <1>5 DEF OccupancyExact, Takes, TakesKey

\* Vacating for a granted job keeps the counters exact, and never meets a zero.
LEMMA VacateExact ==
  ASSUME TypeOK, OccupancyExact, NEW j \in granted, Vacate(j),
         granted' = granted \ {j}
  PROVE  OccupancyExact'
<1>. DEFINE G == granted \ {j}
<1>1. \A c \in Classes : used[c] = Cardinality(Takes(G \cup {j}, c))
  BY DEF OccupancyExact, Takes
<1>2. \A s \in Keys \X KeyedClasses : held[s] = Cardinality(TakesKey(G \cup {j}, s))
  BY DEF OccupancyExact, TakesKey
<1>3. G \in SUBSET Jobs /\ j \in Jobs /\ j \notin G
  BY DEF TypeOK
<1>4. \A n \in Nat : Less(n + 1) = n
  BY DEF Less
<1>. HIDE DEF G
<1>5. \A c \in Classes : used'[c] = Cardinality(Takes(G, c))
  <2>1. SUFFICES ASSUME NEW c \in Classes
                 PROVE  used'[c] = Cardinality(Takes(G, c))
    OBVIOUS
  <2>2. used'[c] = IF c \in ClassesOf[j] THEN Less(used[c]) ELSE used[c]
    BY DEF Vacate
  <2>. QED  BY <1>1, <1>3, <1>4, <2>2, ClassAdded
<1>6. \A s \in Keys \X KeyedClasses : held'[s] = Cardinality(TakesKey(G, s))
  <2>1. SUFFICES ASSUME NEW s \in Keys \X KeyedClasses
                 PROVE  held'[s] = Cardinality(TakesKey(G, s))
    OBVIOUS
  <2>2. held'[s] =
          IF s \in KeysOf[j] \X ClassesOf[j] THEN Less(held[s]) ELSE held[s]
    BY DEF Vacate
  <2>. QED  BY <1>2, <1>3, <1>4, <2>2, KeyAdded
<1>. QED  BY <1>5, <1>6 DEF OccupancyExact, Takes, TakesKey, G

\* Every step but an admission, a release and the stop keeps the reservations.
KeepsGranted ==
  /\ UNCHANGED <<granted, occupancy>>
  /\ \A j \in Jobs : refs'[j] > 0 <=> refs[j] > 0

\* What a step does to the reservations.
LEMMA ReservationMoves ==
  ASSUME IInv, [Next]_vars
  PROVE  \/ KeepsGranted
         \/ \E j \in Jobs : Admit(j) \/ Release(j)
         \/ Stop
<1>1. ASSUME NEW j \in Jobs, Caller(j)
      PROVE  KeepsGranted
  BY <1>1 DEF Caller, Submit, Drop, Cancel, CancelFallback, KeepsGranted, scheduler
<1>2. ASSUME NEW j \in Jobs, Coalesce(j)
      PROVE  KeepsGranted
  <2>1. PICK t \in CoalesceTargets(j) :
          IF t \in granted THEN refs' = [refs EXCEPT ![t] = @ + 1]
                           ELSE UNCHANGED refs
    BY <1>2 DEF Coalesce, callers
  <2>2. t \in granted => t \in Jobs /\ refs[t] > 0
    BY DEF IInv, TypeOK, RefsExact
  <2>3. CASE t \in granted
    <3>1. refs' = [refs EXCEPT ![t] = refs[t] + 1] /\ refs \in [Jobs -> Nat]
      BY <2>1, <2>3 DEF IInv, TypeOK
    <3>2. \A x \in Jobs : refs'[x] > 0 <=> refs[x] > 0
      BY <2>2, <2>3, <3>1
    <3>. QED  BY <1>2, <3>2 DEF Coalesce, KeepsGranted
  <2>4. CASE t \notin granted
    BY <1>2, <2>1, <2>4 DEF Coalesce, KeepsGranted
  <2>. QED  BY <2>3, <2>4
<1>3. ASSUME NEW j \in Jobs, Enqueue(j) \/ Reject(j) \/ CancelQueued(j)
      PROVE  KeepsGranted
  BY <1>3 DEF Enqueue, Reject, CancelQueued, KeepsGranted, scheduler
<1>4. CASE Shutdown \/ NoneRunnable \/ UNCHANGED vars
  BY <1>4 DEF Shutdown, NoneRunnable, vars, KeepsGranted, scheduler, occupancy
<1>. QED  BY <1>1, <1>2, <1>3, <1>4 DEF Next, Dispatcher

\* A job is admitted from the queue, so it was not granted.
LEMMA AdmitFresh ==
  ASSUME IInv, NEW j \in Jobs, Admit(j)
  PROVE  /\ j \notin granted /\ CanGrant(j)
         /\ granted' = granted \cup {j} /\ Occupy(j)
         /\ \A x \in Jobs : refs'[x] > 0 <=> refs[x] > 0 \/ x = j
<1>1. PICK i \in DOMAIN waiting : IsNext(i) /\ waiting[i] = j
  BY DEF Admit
<1>2. j \notin granted
  BY <1>1 DEF IInv, Once, Queued
<1>3. CanGrant(j)
  BY <1>1 DEF IsNext
<1>4. \A x \in Jobs : refs'[x] > 0 <=> refs[x] > 0 \/ x = j
  <2>. DEFINE n == Cardinality({c \in Jobs : onto[c] = j})
  <2>1. refs' = [refs EXCEPT ![j] = 1 + n]
    BY DEF Admit
  <2>2. n \in Nat /\ refs \in [Jobs -> Nat]
    BY FoldedFinite DEF IInv, TypeOK
  <2>. HIDE DEF n
  <2>. QED  BY <2>1, <2>2
<1>. QED  BY <1>2, <1>3, <1>4 DEF Admit

\* A release frees a granted job or keeps every reservation.
LEMMA ReleaseOne ==
  ASSUME IInv, NEW j \in Jobs, Release(j)
  PROVE  \/ /\ j \in granted /\ granted' = granted \ {j} /\ Vacate(j)
            /\ \A x \in Jobs : refs'[x] > 0 <=> refs[x] > 0 /\ x # j
         \/ KeepsGranted
<1>1. refs' = [refs EXCEPT ![j] = Less(refs[j])] /\ refs \in [Jobs -> Nat]
  BY DEF Release, IInv, TypeOK
<1>2. CASE refs[j] = 1
  <2>1. j \in granted /\ granted' = granted \ {j} /\ Vacate(j)
    BY <1>2 DEF Release, IInv, RefsExact
  <2>2. \A x \in Jobs : refs'[x] > 0 <=> refs[x] > 0 /\ x # j
    BY <1>1, <1>2 DEF Less
  <2>. QED  BY <2>1, <2>2
<1>3. CASE refs[j] # 1
  <2>1. \A x \in Jobs : refs'[x] > 0 <=> refs[x] > 0
    BY <1>1, <1>3 DEF Less
  <2>. QED  BY <1>3, <2>1 DEF Release, KeepsGranted
<1>. QED  BY <1>2, <1>3

\* Every step keeps the counters exact.
LEMMA IInvStep ==
  ASSUME IInv, [Next]_vars
  PROVE  IInv'
<1>1. TypeOK' /\ Once'
  BY TypeStep, OnceStep DEF IInv
<1>2. CASE KeepsGranted
  BY <1>1, <1>2 DEF KeepsGranted, IInv, RefsExact, OccupancyExact, occupancy
<1>3. ASSUME NEW j \in Jobs, Admit(j)
      PROVE  IInv'
  <2>1. OccupancyExact'
    BY <1>3, AdmitFresh, OccupyExact DEF IInv
  <2>2. RefsExact'
    BY <1>3, AdmitFresh DEF IInv, RefsExact
  <2>. QED  BY <1>1, <2>1, <2>2 DEF IInv
<1>4. ASSUME NEW j \in Jobs, Release(j), ~KeepsGranted
      PROVE  IInv'
  <2>1. OccupancyExact'
    BY <1>4, ReleaseOne, VacateExact DEF IInv
  <2>2. RefsExact'
    BY <1>4, ReleaseOne DEF IInv, RefsExact
  <2>. QED  BY <1>1, <2>1, <2>2 DEF IInv
<1>5. CASE Stop
  <2>1. RefsExact'
    BY <1>5 DEF Stop, RefsExact
  <2>2. OccupancyExact'
    BY <1>5, FS_EmptySet DEF Stop, OccupancyExact
  <2>. QED  BY <1>1, <2>1, <2>2 DEF IInv
<1>. QED  BY <1>2, <1>3, <1>4, <1>5, ReservationMoves

\* The invariant holds initially.
LEMMA InitIInv ==
  ASSUME Init
  PROVE  IInv
<1>1. TypeOK
  BY JobAssumption DEF Init, TypeOK, Messages, CallerStates
<1>2. Once
  BY DEF Init, Once, Queued
<1>3. RefsExact
  BY DEF Init, RefsExact
<1>4. OccupancyExact
  BY FS_EmptySet DEF Init, OccupancyExact
<1>. QED  BY <1>1, <1>2, <1>3, <1>4 DEF IInv

\* The invariant of every behaviour.
LEMMA Invariance == Spec => []IInv
  BY InitIInv, IInvStep, PTL DEF Spec

\* The counters admission is decided on count exactly the granted jobs: no
\* coalescing, double release, cancellation or shutdown leaks or loses a slot.
THEOREM CountersExact == Spec => []OccupancyExact
<1>1. IInv => OccupancyExact
  BY DEF IInv
<1>. QED  BY <1>1, Invariance, PTL

-----------------------------------------------------------------------------
(* Refinement.                                                             *)

\* The granted jobs fit the caps: true initially, kept by every step.
Within == Abstract!Fits(granted)

\* Admission counts as the library does.
LEMMA SameCount ==
  ASSUME NEW S
  PROVE  Abstract!Cardinality(S) = Cardinality(S)
  BY DEF Abstract!Cardinality, Cardinality

\* Fits, with the counts of the counters.
LEMMA FitsDef ==
  ASSUME NEW G \in SUBSET Jobs
  PROVE  Abstract!Fits(G) <=>
           /\ \A c \in Classes : Cardinality(Takes(G, c)) <= Cap[c]
           /\ \A a, b \in G :
                a # b /\ ClassesOf[a] \cap ClassesOf[b] \cap KeyedClasses # {}
                  => KeysOf[a] \cap KeysOf[b] = {}
<1>1. ASSUME NEW c
      PROVE  Abstract!Cardinality(Abstract!InClass(G, c)) = Cardinality(Takes(G, c))
  <2>1. Abstract!InClass(G, c) = Takes(G, c)
    BY DEF Abstract!InClass, Takes
  <2>. QED  BY <2>1, SameCount
<1>. QED  BY <1>1 DEF Abstract!Fits

\* What fits still fits when jobs leave.
LEMMA FitsSubset ==
  ASSUME NEW G \in SUBSET Jobs, NEW H \in SUBSET G, Abstract!Fits(G)
  PROVE  Abstract!Fits(H)
<1>1. ASSUME NEW c \in Classes
      PROVE  Cardinality(Takes(H, c)) <= Cap[c]
  <2>1. IsFiniteSet(Takes(G, c)) /\ Takes(H, c) \in SUBSET Takes(G, c)
    BY JobAssumption, FS_Subset DEF Takes
  <2>2. IsFiniteSet(Takes(H, c)) /\ Cardinality(Takes(H, c)) <= Cardinality(Takes(G, c))
    BY <2>1, FS_Subset
  <2>3. Cardinality(Takes(G, c)) \in Nat /\ Cardinality(Takes(H, c)) \in Nat
    BY <2>1, <2>2, FS_CardinalityType
  <2>4. Cardinality(Takes(G, c)) <= Cap[c] /\ Cap[c] \in Nat
    BY ClassAssumption, FitsDef
  <2>. QED  BY <2>2, <2>3, <2>4
<1>. QED  BY <1>1, FitsDef

\* No job takes one slot more than there is, nor a key somebody has.
LEMMA GrantFits ==
  ASSUME IInv, Within, NEW j \in Jobs, j \notin granted, CanGrant(j)
  PROVE  Abstract!Fits(granted \cup {j})
<1>. DEFINE G == granted \cup {j}
<1>1. granted \in SUBSET Jobs
  BY DEF IInv, TypeOK
<1>2. ASSUME NEW c \in Classes
      PROVE  Cardinality(Takes(G, c)) <= Cap[c]
  <2>1. Cardinality(Takes(granted, c)) <= Cap[c]
    BY <1>1, FitsDef DEF Within
  <2>2. CASE c \in ClassesOf[j]
    <3>1. used[c] = Cardinality(Takes(granted, c)) /\ used[c] + 1 <= Cap[c]
      BY <2>2 DEF IInv, OccupancyExact, Takes, CanGrant
    <3>. QED  BY <1>1, <2>2, <3>1, ClassAdded
  <2>3. CASE c \notin ClassesOf[j]
    BY <1>1, <2>1, <2>3, ClassAdded
  <2>. QED  BY <2>2, <2>3
<1>3. ASSUME NEW b \in granted,
             ClassesOf[j] \cap ClassesOf[b] \cap KeyedClasses # {}
      PROVE  KeysOf[j] \cap KeysOf[b] = {}
  <2>1. SUFFICES ASSUME NEW k \in KeysOf[j] \cap KeysOf[b]
                 PROVE  FALSE
    OBVIOUS
  <2>2. PICK c \in KeyedClasses : c \in ClassesOf[j] /\ c \in ClassesOf[b]
    BY <1>3
  <2>3. <<k, c>> \in Keys \X KeyedClasses
    BY <2>1, <2>2 DEF Keys
  <2>4. held[<<k, c>>] = Cardinality(TakesKey(granted, <<k, c>>))
    BY <2>3 DEF IInv, OccupancyExact, TakesKey
  <2>5. held[<<k, c>>] = 0
    BY <2>2 DEF CanGrant
  <2>6. IsFiniteSet(TakesKey(granted, <<k, c>>)) /\ b \in TakesKey(granted, <<k, c>>)
    BY <1>1, <2>2, JobAssumption, FS_Subset DEF TakesKey
  <2>. QED  BY <2>4, <2>5, <2>6, FS_EmptySet
<1>4. ASSUME NEW a \in G, NEW b \in G, a # b,
             ClassesOf[a] \cap ClassesOf[b] \cap KeyedClasses # {}
      PROVE  KeysOf[a] \cap KeysOf[b] = {}
  <2>1. CASE a = j
    BY <1>3, <1>4, <2>1
  <2>2. CASE b = j
    BY <1>3, <1>4, <2>2
  <2>3. CASE a # j /\ b # j
    BY <1>1, <1>4, <2>3, FitsDef DEF Within
  <2>. QED  BY <2>1, <2>2, <2>3
<1>5. G \in SUBSET Jobs
  BY <1>1
<1>. QED  BY <1>2, <1>4, <1>5, FitsDef

\* Every step reserves one job that fits, frees one, frees all or stutters, and
\* the granted jobs keep fitting.
LEMMA StepRefines ==
  ASSUME IInv, Within, [Next]_vars
  PROVE  [Abstract!Next]_granted /\ Within'
<1>0. granted \in SUBSET Jobs
  BY DEF IInv, TypeOK
<1>1. CASE KeepsGranted
  BY <1>1 DEF KeepsGranted, Within, Abstract!Fits, Abstract!InClass
<1>2. ASSUME NEW j \in Jobs, Admit(j)
      PROVE  [Abstract!Next]_granted /\ Within'
  <2>1. j \notin granted /\ granted' = granted \cup {j} /\ CanGrant(j)
    BY <1>2, AdmitFresh
  <2>2. Abstract!Fits(granted \cup {j})
    BY <2>1, GrantFits
  <2>3. Within'
    BY <2>1, <2>2 DEF Within, Abstract!Fits, Abstract!InClass
  <2>. QED  BY <2>1, <2>2, <2>3 DEF Abstract!Next, Abstract!Reserve
<1>3. ASSUME NEW j \in Jobs, Release(j), ~KeepsGranted
      PROVE  [Abstract!Next]_granted /\ Within'
  <2>1. j \in granted /\ granted' = granted \ {j}
    BY <1>3, ReleaseOne
  <2>2. Abstract!Fits(granted \ {j})
    BY <1>0, FitsSubset DEF Within
  <2>3. Within'
    BY <2>1, <2>2 DEF Within, Abstract!Fits, Abstract!InClass
  <2>. QED  BY <2>1, <2>3 DEF Abstract!Next, Abstract!Free
<1>4. CASE Stop
  <2>1. granted' = {}
    BY <1>4 DEF Stop
  <2>2. Abstract!Fits({})
    BY <1>0, FitsSubset DEF Within
  <2>3. Within'
    BY <2>1, <2>2 DEF Within, Abstract!Fits, Abstract!InClass
  <2>. QED  BY <2>1, <2>3 DEF Abstract!Next, Abstract!FreeAll
<1>. QED  BY <1>1, <1>2, <1>3, <1>4, ReservationMoves

\* The coordinator implements Admission: a job gets all it needs in one step and
\* only within every cap, and gives it back in one step.
THEOREM AdmissionRefinement == Spec => ImplementsAdmission
<1>1. Init => Abstract!Init /\ Within
  <2>1. SUFFICES ASSUME Init
                 PROVE  Abstract!Init /\ Within
    OBVIOUS
  <2>2. granted = {}
    BY <2>1 DEF Init
  <2>3. \A c : Takes({}, c) = {}
    BY DEF Takes
  <2>4. \A c \in Classes : Cardinality(Takes({}, c)) <= Cap[c]
    BY <2>3, ClassAssumption, FS_EmptySet
  <2>5. Abstract!Fits({})
    BY <2>4, FitsDef
  <2>. QED  BY <2>2, <2>5 DEF Abstract!Init, Within
<1>. QED
  BY <1>1, StepRefines, Invariance, PTL DEF Spec, ImplementsAdmission, Abstract!Spec

-----------------------------------------------------------------------------
(* Callers: where a submitted job and its caller are.                      *)

\* The channel holds the message m.
InChannel(m) == \E i \in DOMAIN inbox : inbox[i] = m

SubmitOf(j)  == [type |-> "Submit", id |-> j]
CancelOf(j)  == [type |-> "CancelQueued", id |-> j]
ReleaseOf(j) == [type |-> "Release", id |-> j]

\* The dispatcher has read the submission of j, and did not fold j onto
\* another job.
Seen(j) == caller[j] # "new" /\ ~InChannel(SubmitOf(j))
Root(j) == Seen(j) /\ onto[j] = NoJob

SameKey(j, t) == CoalesceOf[j] # NoKey /\ CoalesceOf[j] = CoalesceOf[t]

\* Where callers and jobs are while the dispatcher runs.
Blocked ==
  /\ \A j \in Jobs : InChannel(SubmitOf(j)) => caller[j] = "blocked"
  /\ \A j \in replies : caller[j] = "blocked" /\ Seen(j)
Queueing ==
  /\ \A j \in Queued \cup granted : Root(j)
  /\ \A j \in Queued : j \in replies
  /\ \A c \in Jobs : onto[c] \in Queued => c \in replies
Folding  ==
  \A c, t \in Jobs : onto[c] = t => Seen(c) /\ Root(t) /\ SameKey(c, t)
Holding  ==
  \A k, t \in Jobs :
    caller[k] = "holding" /\ handle[k] = t => Root(t) /\ (t = k \/ SameKey(k, t))
Letting  ==
  /\ \A t \in Jobs : InChannel(ReleaseOf(t)) => Root(t) \/ cancel[t] # "none"
  /\ \A t \in Jobs : InChannel(CancelOf(t)) => cancel[t] # "none"
  /\ \A t \in Jobs : cancel[t] # "none" => t \in Cancellable
Places   == Blocked /\ Queueing /\ Folding /\ Holding /\ Letting

\* Nobody cancels a job that shares its coalescing key with another.
SoleCancel ==
  \A j \in Cancellable, t \in Jobs : SameKey(j, t) => t = j

\* The invariant behind the callers' fate.
CallersIInv == IInv /\ (phase # "gone" => Places)

\* What a message in the channel becomes when one is sent.
LEMMA SendChannel ==
  ASSUME TypeOK, NEW m, Send(m), phase # "gone"
  PROVE  \A x : InChannel(x)' <=> InChannel(x) \/ x = m
<1>1. /\ DOMAIN inbox' = 1..(Len(inbox) + 1)
      /\ \A i \in DOMAIN inbox' : inbox'[i] = IF i = Len(inbox) + 1 THEN m ELSE inbox[i]
      /\ DOMAIN inbox = 1..Len(inbox) /\ Len(inbox) \in Nat
  BY DEF Send, TypeOK
<1>2. \A i \in DOMAIN inbox : i \in DOMAIN inbox' /\ i # Len(inbox) + 1
  BY <1>1
<1>3. \A i \in DOMAIN inbox' : i \in DOMAIN inbox \/ i = Len(inbox) + 1
  BY <1>1
<1>4. Len(inbox) + 1 \in DOMAIN inbox'
  BY <1>1
<1>. QED  BY <1>1, <1>2, <1>3, <1>4 DEF InChannel

\* ... and when one is received.
LEMMA ReceiveChannel ==
  ASSUME TypeOK, NEW type, NEW id, Receive(type, id)
  PROVE  /\ InChannel([type |-> type, id |-> id])
         /\ \A x : InChannel(x)' => InChannel(x)
         /\ \A x : InChannel(x) => InChannel(x)' \/ x = [type |-> type, id |-> id]
<1>1. /\ DOMAIN inbox = 1..Len(inbox) /\ Len(inbox) \in Nat /\ 1 \in DOMAIN inbox
      /\ inbox[1] = [type |-> type, id |-> id]
      /\ DOMAIN inbox' = 1..(Len(inbox) - 1)
      /\ \A i \in DOMAIN inbox' : inbox'[i] = inbox[i + 1]
  <2>1. inbox \in Seq(Messages) /\ inbox # << >> /\ inbox' = Tail(inbox)
    BY DEF Receive, TypeOK
  <2>2. /\ DOMAIN inbox' = 1..(Len(inbox) - 1)
        /\ \A i \in DOMAIN inbox' : inbox'[i] = inbox[i + 1]
    BY <2>1
  <2>3. DOMAIN inbox = 1..Len(inbox) /\ Len(inbox) \in Nat
    BY <2>1
  <2>. QED  BY <2>2, <2>3, ReceivedRest
<1>2. \A i \in DOMAIN inbox' : i + 1 \in DOMAIN inbox
  BY <1>1
<1>3. \A i \in DOMAIN inbox : i = 1 \/ (i - 1 \in DOMAIN inbox' /\ (i - 1) + 1 = i)
  BY <1>1
<1>4. ASSUME NEW x, InChannel(x)
      PROVE  InChannel(x)' \/ x = [type |-> type, id |-> id]
  <2>1. PICK i \in DOMAIN inbox : inbox[i] = x
    BY <1>4 DEF InChannel
  <2>2. CASE i = 1
    BY <1>1, <2>1, <2>2
  <2>3. CASE i # 1
    <3>1. i - 1 \in DOMAIN inbox' /\ inbox'[i - 1] = x
      BY <1>1, <1>3, <2>1, <2>3
    <3>. QED  BY <3>1 DEF InChannel
  <2>. QED  BY <2>2, <2>3
<1>5. ASSUME NEW x, InChannel(x)'
      PROVE  InChannel(x)
  <2>1. PICK i \in DOMAIN inbox' : inbox'[i] = x
    BY <1>5 DEF InChannel
  <2>. QED  BY <1>1, <1>2, <2>1 DEF InChannel
<1>. QED  BY <1>1, <1>4, <1>5 DEF InChannel

\* A submission is read once.
LEMMA ReceiveSubmit ==
  ASSUME TypeOK, Once, NEW j \in Jobs, Receive("Submit", j)
  PROVE  ~InChannel(SubmitOf(j))' /\ caller[j] # "new" /\ j \notin Queued \cup granted
<1>1. /\ 1 \in DOMAIN inbox /\ inbox[1] = SubmitOf(j)
      /\ \A i \in DOMAIN inbox' :
           i \in Nat /\ i + 1 # 1 /\ i + 1 \in DOMAIN inbox /\ inbox'[i] = inbox[i + 1]
  BY ReceivedRest DEF SubmitOf
<1>2. \A i \in DOMAIN inbox' : inbox'[i] # SubmitOf(j)
  BY <1>1 DEF Once, SubmitOf
<1>3. inbox[1].type = "Submit" /\ inbox[1].id = j
  BY <1>1 DEF SubmitOf
<1>. QED  BY <1>1, <1>2, <1>3 DEF InChannel, Once

\* Messages of different kinds differ.
LEMMA Kinds ==
  /\ \A j, k : SubmitOf(j) # CancelOf(k) /\ SubmitOf(j) # ReleaseOf(k)
               /\ CancelOf(j) # ReleaseOf(k)
  /\ \A j, k : (SubmitOf(j) = SubmitOf(k) => j = k) /\ (CancelOf(j) = CancelOf(k) => j = k)
               /\ (ReleaseOf(j) = ReleaseOf(k) => j = k)
  /\ \A j, m : m.type # "Submit" => SubmitOf(j) # m
BY DEF SubmitOf, CancelOf, ReleaseOf

\* What a step adds to the channel.
LEMMA ChannelStep ==
  ASSUME TypeOK, [Next]_vars, NEW x, InChannel(x)', ~InChannel(x)
  PROVE  \/ \E j \in Jobs : Submit(j) /\ phase # "gone" /\ x = SubmitOf(j)
         \/ \E j \in Jobs : Drop(j) /\ x = ReleaseOf(handle[j])
         \/ \E j \in Jobs : Cancel(j) /\ x = CancelOf(j)
         \/ \E j \in Jobs : CancelFallback(j) /\ x = ReleaseOf(j)
         \/ x = [type |-> "Shutdown", id |-> NoJob]
<1>1. ASSUME NEW m, Send(m)
      PROVE  phase # "gone" /\ x = m
  <2>1. CASE phase = "gone"
    BY <1>1, <2>1 DEF Send, InChannel
  <2>2. CASE phase # "gone"
    BY <1>1, <2>2, SendChannel
  <2>. QED  BY <2>1, <2>2
<1>2. ASSUME NEW type, NEW id, Receive(type, id)
      PROVE  FALSE
  BY <1>2, ReceiveChannel
<1>3. ASSUME inbox' = inbox
      PROVE  FALSE
  BY <1>3 DEF InChannel
<1>4. ASSUME NEW j \in Jobs, Caller(j)
      PROVE  \/ Submit(j) /\ phase # "gone" /\ x = SubmitOf(j)
             \/ Drop(j) /\ x = ReleaseOf(handle[j])
             \/ Cancel(j) /\ x = CancelOf(j)
             \/ CancelFallback(j) /\ x = ReleaseOf(j)
  BY <1>1, <1>4
     DEF Caller, Submit, Drop, Cancel, CancelFallback, SubmitOf, ReleaseOf, CancelOf
<1>5. CASE Shutdown
  BY <1>1, <1>5 DEF Shutdown
<1>6. CASE Dispatcher
  BY <1>2, <1>3, <1>6 DEF Dispatcher, Coalesce, Enqueue, Reject, CancelQueued, Release,
     Admit, NoneRunnable, Stop
<1>7. CASE UNCHANGED vars
  BY <1>3, <1>7 DEF vars
<1>. QED  BY <1>4, <1>5, <1>6, <1>7 DEF Next

\* No caller submits twice.
LEMMA CallerStep ==
  ASSUME TypeOK, [Next]_vars
  PROVE  NoneNew
<1>1. ASSUME NEW J, NEW state \in CallerStates \ {"new"}, NEW id, Answer(J, state, id)
      PROVE  NoneNew
  BY <1>1, AnswerNoneNew
<1>2. {"holding", "refused"} \subseteq CallerStates \ {"new"}
  BY DEF CallerStates
<1>3. ASSUME UNCHANGED caller
      PROVE  NoneNew
  BY <1>3 DEF NoneNew
<1>4. ASSUME NEW j \in Jobs, Submit(j) \/ Drop(j)
      PROVE  NoneNew
  BY <1>4 DEF Submit, Drop, NoneNew, TypeOK
<1>5. ASSUME NEW j \in Jobs, Coalesce(j)
      PROVE  NoneNew
  BY <1>1, <1>2, <1>3, <1>5 DEF Coalesce, callers
<1>6. CASE Dispatcher
  BY <1>1, <1>2, <1>3, <1>5, <1>6 DEF Dispatcher, Enqueue, Reject, CancelQueued, Release,
     Admit, NoneRunnable, Stop, callers
<1>. QED
  BY <1>3, <1>4, <1>6 DEF Next, Caller, Cancel, CancelFallback, Shutdown, callers, vars

\* A job stays read, and stays a root.
LEMMA SeenStays ==
  ASSUME TypeOK, [Next]_vars, NEW j \in Jobs, Seen(j)
  PROVE  Seen(j)' /\ (Root(j) => Root(j)')
<1>1. Seen(j)'
  <2>1. caller'[j] # "new"
    BY CallerStep DEF NoneNew, Seen
  <2>2. ASSUME InChannel(SubmitOf(j))'
        PROVE  FALSE
    <3>1. \E k \in Jobs : Submit(k) /\ SubmitOf(j) = SubmitOf(k)
      BY <2>2, ChannelStep, Kinds DEF Seen, SubmitOf
    <3>. QED  BY <3>1, Kinds DEF Submit, Seen
  <2>. QED  BY <2>1, <2>2 DEF Seen
<1>2. ASSUME Root(j)
      PROVE  onto'[j] = NoJob
  <2>1. ~Coalesce(j)
    BY ReceiveChannel DEF Coalesce, Seen, SubmitOf
  <2>2. onto \in [Jobs -> Jobs \cup {NoJob}] /\ onto[j] = NoJob
    BY <1>2 DEF Root, TypeOK
  <2>3. ASSUME NEW k \in Jobs, Coalesce(k)
        PROVE  onto'[j] = NoJob
    BY <2>1, <2>2, <2>3 DEF Coalesce
  <2>4. ASSUME NEW k \in Jobs, CancelQueued(k) \/ Release(k)
        PROVE  onto'[j] = NoJob
    BY <2>2, <2>4 DEF CancelQueued, Release
  <2>5. CASE Stop
    BY <2>5 DEF Stop
  <2>. QED
    BY <2>2, <2>3, <2>4, <2>5 DEF Next, Dispatcher, Caller, Submit, Drop, Cancel,
       CancelFallback, Shutdown, Enqueue, Reject, Admit, NoneRunnable, vars, scheduler
<1>. QED  BY <1>1, <1>2 DEF Root

\* What a step does to the queue.
LEMMA QueueMoves ==
  ASSUME TypeOK, Once, NEW j \in Jobs
  PROVE  /\ Enqueue(j) => Queued' = Queued \cup {j}
         /\ CancelQueued(j) => Queued' = Queued \ {j}
         /\ Admit(j) => j \in Queued /\ Queued' = Queued \ {j}
<1>1. ASSUME Enqueue(j)
      PROVE  Queued' = Queued \cup {j}
  <2>1. /\ DOMAIN waiting' = 1..(Len(waiting) + 1)
        /\ \A i \in DOMAIN waiting' :
             waiting'[i] = IF i = Len(waiting) + 1 THEN j ELSE waiting[i]
        /\ DOMAIN waiting = 1..Len(waiting) /\ Len(waiting) \in Nat
    BY <1>1 DEF Enqueue, TypeOK
  <2>2. Len(waiting) + 1 \in DOMAIN waiting'
    BY <2>1
  <2>3. \A i \in DOMAIN waiting : i \in DOMAIN waiting' /\ i # Len(waiting) + 1
    BY <2>1
  <2>4. \A i \in DOMAIN waiting' : i \in DOMAIN waiting \/ i = Len(waiting) + 1
    BY <2>1
  <2>. QED  BY <2>1, <2>2, <2>3, <2>4 DEF Queued
<1>2. ASSUME CancelQueued(j)
      PROVE  Queued' = Queued \ {j}
  <2>1. CASE \E i \in DOMAIN waiting : waiting[i] = j /\ waiting' = Without(i)
    BY <2>1, WithoutOnce
  <2>2. CASE j \notin Queued /\ UNCHANGED waiting
    BY <2>2 DEF Queued
  <2>. QED  BY <1>2, <2>1, <2>2 DEF CancelQueued
<1>3. ASSUME Admit(j)
      PROVE  j \in Queued /\ Queued' = Queued \ {j}
  <2>1. PICK i \in DOMAIN waiting : waiting[i] = j /\ waiting' = Without(i)
    BY <1>3 DEF Admit
  <2>. QED  BY <2>1, WithoutOnce DEF Queued
<1>. QED  BY <1>1, <1>2, <1>3

\* Which callers a message is about.
LEMMA ReceivedSubmit ==
  ASSUME TypeOK, Once, Places, NEW j \in Jobs, Receive("Submit", j)
  PROVE  /\ InChannel(SubmitOf(j)) /\ ~InChannel(SubmitOf(j))'
         /\ caller[j] = "blocked" /\ ~Seen(j) /\ j \notin replies
         /\ j \notin Queued \cup granted /\ onto[j] = NoJob
         /\ \A c \in Jobs : onto[c] # j
<1>1. InChannel(SubmitOf(j)) /\ ~InChannel(SubmitOf(j))' /\ j \notin Queued \cup granted
  BY ReceiveSubmit, ReceiveChannel DEF SubmitOf
<1>2. caller[j] = "blocked" /\ ~Seen(j) /\ j \notin replies
  BY <1>1 DEF Places, Blocked, Seen
<1>3. \A c, t \in Jobs : onto[c] = t => c # j /\ t # j
  BY <1>2 DEF Places, Folding, Root
<1>. QED  BY <1>1, <1>2, <1>3 DEF TypeOK

\* Every step of a running coordinator keeps the blocked callers' places,
LEMMA BlockedStep ==
  ASSUME TypeOK, Once, Places, [Next]_vars, ~Stop
  PROVE  Blocked'
<1>s. \A j \in Jobs : Seen(j) => Seen(j)'
  BY SeenStays
<1>r. replies \subseteq Jobs /\ caller \in [Jobs -> CallerStates]
  BY DEF TypeOK
<1>b. \A j \in Jobs : ~Seen(j) => j \notin replies
  BY DEF Places, Blocked
<1>c. \A j \in Jobs : Seen(j) => ~InChannel(SubmitOf(j))'
  BY <1>s DEF Seen
<1>1. ASSUME NEW j \in Jobs, Submit(j)
      PROVE  Blocked'
  <2>1. \A k \in Jobs : InChannel(SubmitOf(k))' =>
          InChannel(SubmitOf(k)) \/ (k = j /\ phase # "gone")
    <3>1. ASSUME NEW k \in Jobs, InChannel(SubmitOf(k))', ~InChannel(SubmitOf(k))
          PROVE  k = j /\ phase # "gone"
      <4>1. CASE phase # "gone"
        BY <1>1, <3>1, <4>1, SendChannel, Kinds DEF Submit, SubmitOf
      <4>2. CASE phase = "gone"
        BY <1>1, <3>1, <4>2 DEF Submit, Send, InChannel
      <4>. QED  BY <4>1, <4>2
    <3>. QED  BY <3>1
  <2>2. /\ caller[j] = "new"
        /\ phase # "gone" => caller'[j] = "blocked"
        /\ \A k \in Jobs \ {j} : caller'[k] = caller[k]
        /\ replies' = replies
    BY <1>1, <1>r DEF Submit
  <2>. QED  BY <1>s, <1>r, <2>1, <2>2 DEF Places, Blocked
<1>2. ASSUME \A k \in Jobs : InChannel(SubmitOf(k))' => InChannel(SubmitOf(k)),
             \A k \in Jobs : caller'[k] # caller[k] /\ caller[k] = "blocked" =>
                             ~InChannel(SubmitOf(k))' /\ k \notin replies',
             \A k \in replies' : k \in replies
      PROVE  Blocked'
  <2>1. ASSUME NEW k \in Jobs, InChannel(SubmitOf(k))'
        PROVE  caller'[k] = "blocked"
    BY <1>2, <2>1 DEF Places, Blocked
  <2>2. ASSUME NEW k \in replies'
        PROVE  caller'[k] = "blocked" /\ Seen(k)'
    BY <1>2, <1>s, <1>r, <2>2 DEF Places, Blocked
  <2>. QED  BY <2>1, <2>2 DEF Blocked
<1>3. ASSUME \A j \in Jobs : ~Submit(j)
      PROVE  \A k \in Jobs : InChannel(SubmitOf(k))' => InChannel(SubmitOf(k))
  BY <1>3, ChannelStep, Kinds DEF SubmitOf
<1>4. ASSUME NEW j \in Jobs, Drop(j)
      PROVE  Blocked'
  <2>1. \A k \in Jobs : InChannel(SubmitOf(k))' => InChannel(SubmitOf(k))
    <3>1. CASE phase # "gone"
      BY <1>4, <3>1, SendChannel, Kinds DEF Drop, ReleaseOf
    <3>2. CASE phase = "gone"
      BY <1>4, <3>2 DEF Drop, Send, InChannel
    <3>. QED  BY <3>1, <3>2
  <2>2. /\ \A k \in Jobs \ {j} : caller'[k] = caller[k]
        /\ caller[j] = "holding" /\ replies' = replies /\ j \notin replies
    BY <1>4, <1>r DEF Drop, Places, Blocked
  <2>. QED  BY <1>2, <2>1, <2>2
<1>5. ASSUME UNCHANGED <<callers, replies>>, \A j \in Jobs : ~Submit(j)
      PROVE  Blocked'
  BY <1>2, <1>3, <1>5 DEF callers
<1>6. ASSUME NEW j \in Jobs, Coalesce(j)
      PROVE  Blocked'
  <2>1. /\ ~InChannel(SubmitOf(j))' /\ caller[j] = "blocked" /\ j \notin replies
        /\ \A k \in Jobs : InChannel(SubmitOf(k))' => InChannel(SubmitOf(k))
    BY <1>6, ReceivedSubmit, ReceiveChannel DEF Coalesce
  <2>2. CASE replies' = replies /\ \E t : Answer({j}, "holding", t)
    <3>1. \A k \in Jobs \ {j} : caller'[k] = caller[k]
      BY <2>2 DEF Answer
    <3>. QED  BY <1>2, <2>1, <2>2, <3>1
  <2>3. CASE replies' = replies \cup {j} /\ UNCHANGED callers
    <3>1. Seen(j)'
      BY <2>1, <2>3 DEF Seen, callers
    <3>. QED  BY <1>s, <1>r, <2>1, <2>3, <3>1 DEF Places, Blocked, callers
  <2>. QED  BY <1>6, <2>2, <2>3 DEF Coalesce
<1>7. ASSUME NEW j \in Jobs, Enqueue(j)
      PROVE  Blocked'
  <2>1. /\ ~InChannel(SubmitOf(j))' /\ caller[j] = "blocked"
        /\ \A k \in Jobs : InChannel(SubmitOf(k))' => InChannel(SubmitOf(k))
        /\ replies' = replies \cup {j} /\ UNCHANGED callers
    BY <1>7, ReceivedSubmit, ReceiveChannel DEF Enqueue
  <2>2. Seen(j)'
    BY <2>1 DEF Seen, callers
  <2>. QED  BY <1>s, <1>r, <2>1, <2>2 DEF Places, Blocked, callers
<1>8. ASSUME NEW j \in Jobs, Reject(j)
      PROVE  Blocked'
  <2>1. /\ ~InChannel(SubmitOf(j))' /\ j \notin replies
        /\ \A k \in Jobs : InChannel(SubmitOf(k))' => InChannel(SubmitOf(k))
        /\ replies' = replies /\ \A k \in Jobs \ {j} : caller'[k] = caller[k]
    BY <1>8, ReceivedSubmit, ReceiveChannel DEF Reject, Answer
  <2>. QED  BY <1>2, <2>1
<1>9. ASSUME NEW j \in Jobs, CancelQueued(j) \/ Admit(j)
      PROVE  Blocked'
  <2>1. /\ \A k \in replies' : k \in replies
        /\ \A k \in Jobs : caller'[k] # caller[k] => k \in replies /\ k \notin replies'
    BY <1>9 DEF CancelQueued, Admit, Answer
  <2>2. \A k \in Jobs : InChannel(SubmitOf(k))' => InChannel(SubmitOf(k))
    BY <1>9, ReceiveChannel DEF CancelQueued, Admit, InChannel
  <2>3. \A k \in replies : ~InChannel(SubmitOf(k))'
    BY <1>c, <1>r DEF Places, Blocked
  <2>. QED  BY <1>2, <2>1, <2>2, <2>3
<1>10. CASE \E j \in Jobs : Cancel(j) \/ CancelFallback(j) \/ Release(j)
  <2>1. UNCHANGED <<callers, replies>>
    BY <1>10 DEF Cancel, CancelFallback, Release, callers
  <2>2. \A k \in Jobs : InChannel(SubmitOf(k))' => InChannel(SubmitOf(k))
    <3>1. ASSUME NEW m, m.type # "Submit", Send(m)
          PROVE  \A k \in Jobs : InChannel(SubmitOf(k))' => InChannel(SubmitOf(k))
      <4>1. CASE phase # "gone"
        BY <3>1, <4>1, SendChannel, Kinds
      <4>2. CASE phase = "gone"
        BY <3>1, <4>2 DEF Send, InChannel
      <4>. QED  BY <4>1, <4>2
    <3>. QED  BY <1>10, <3>1, ReceiveChannel DEF Cancel, CancelFallback, Release
  <2>. QED  BY <1>2, <2>1, <2>2 DEF callers
<1>11. CASE Shutdown \/ NoneRunnable \/ UNCHANGED vars
  <2>1. UNCHANGED <<callers, replies>>
    BY <1>11 DEF Shutdown, NoneRunnable, vars, callers
  <2>2. \A k \in Jobs : InChannel(SubmitOf(k))' => InChannel(SubmitOf(k))
    <3>1. CASE inbox' = inbox
      BY <3>1 DEF InChannel
    <3>2. CASE Shutdown
      BY <3>2, SendChannel, Kinds DEF Shutdown
    <3>. QED  BY <1>11, <3>1, <3>2 DEF NoneRunnable, vars
  <2>. QED  BY <1>2, <2>1, <2>2 DEF callers
<1>. QED
  BY <1>1, <1>4, <1>6, <1>7, <1>8, <1>9, <1>10, <1>11 DEF Next, Dispatcher, Caller

\* ... the queue's,
LEMMA QueueingStep ==
  ASSUME TypeOK, Once, Places, [Next]_vars, ~Stop
  PROVE  Queueing'
<1>s. \A j \in Jobs : Root(j) => Root(j)'
  BY SeenStays DEF Root
<1>q. Queued \cup granted \subseteq Jobs /\ replies \subseteq Jobs
  BY DEF TypeOK, Queued
<1>o. onto \in [Jobs -> Jobs \cup {NoJob}] /\ NoJob \notin Jobs
  BY JobAssumption DEF TypeOK
<1>p. /\ \A j \in Queued \cup granted : Root(j) /\ onto[j] = NoJob
      /\ \A j \in Queued : j \in replies
      /\ \A c \in Jobs : onto[c] \in Queued => c \in replies
  BY DEF Places, Queueing, Root
<1>1. ASSUME UNCHANGED <<waiting, replies, onto>>, granted' \subseteq granted
      PROVE  Queueing'
  <2>1. Queued' = Queued
    BY <1>1 DEF Queued
  <2>. QED  BY <1>1, <1>s, <1>q, <1>p, <2>1 DEF Queueing
<1>2. ASSUME NEW j \in Jobs, Coalesce(j)
      PROVE  Queueing'
  <2>1. PICK t \in CoalesceTargets(j) :
          /\ onto' = [onto EXCEPT ![j] = t]
          /\ t \in granted => replies' = replies
          /\ t \notin granted => replies' = replies \cup {j}
    BY <1>2 DEF Coalesce
  <2>2. t \in Queued \cup granted /\ (t \in granted => t \notin Queued)
    BY DEF CoalesceTargets, Once
  <2>3. Queued' = Queued /\ granted' = granted
    BY <1>2 DEF Coalesce, Queued
  <2>4. \A c \in Jobs : onto'[c] \in Queued => c \in replies'
    BY <1>o, <1>p, <2>1, <2>2
  <2>. QED  BY <1>s, <1>q, <1>p, <2>1, <2>3, <2>4 DEF Queueing
<1>3. ASSUME NEW j \in Jobs, Enqueue(j)
      PROVE  Queueing'
  <2>1. Queued' = Queued \cup {j} /\ granted' = granted /\ replies' = replies \cup {j}
        /\ onto' = onto /\ UNCHANGED callers
    BY <1>3, QueueMoves DEF Enqueue
  <2>2. /\ ~InChannel(SubmitOf(j))' /\ caller[j] = "blocked" /\ onto[j] = NoJob
        /\ \A c \in Jobs : onto[c] # j
    BY <1>3, ReceivedSubmit DEF Enqueue
  <2>3. Root(j)'
    BY <2>1, <2>2 DEF Root, Seen, callers
  <2>. QED  BY <1>s, <1>q, <1>p, <2>1, <2>2, <2>3 DEF Queueing
<1>4. ASSUME NEW j \in Jobs, CancelQueued(j)
      PROVE  Queueing'
  <2>1. Queued' = Queued \ {j} /\ granted' = granted
    BY <1>4, QueueMoves DEF CancelQueued
  <2>2. /\ onto' = [c \in Jobs |-> IF onto[c] = j \/ c = j THEN NoJob ELSE onto[c]]
        /\ \A c \in replies : onto[c] # j /\ c # j => c \in replies'
    BY <1>4 DEF CancelQueued
  <2>3. NoJob \notin Queued
    BY <1>o, <1>q
  <2>. QED  BY <1>s, <1>q, <1>o, <1>p, <2>1, <2>2, <2>3 DEF Queueing
<1>5. ASSUME NEW j \in Jobs, Release(j)
      PROVE  Queueing'
  <2>1. Queued' = Queued /\ granted' \subseteq granted /\ replies' = replies
        /\ onto' = [onto EXCEPT ![j] = NoJob]
    BY <1>5 DEF Release, Queued
  <2>2. NoJob \notin Queued
    BY <1>o, <1>q
  <2>. QED  BY <1>s, <1>q, <1>o, <1>p, <2>1, <2>2 DEF Queueing
<1>6. ASSUME NEW j \in Jobs, Admit(j)
      PROVE  Queueing'
  <2>1. j \in Queued /\ Queued' = Queued \ {j} /\ granted' = granted \cup {j}
    BY <1>6, QueueMoves DEF Admit
  <2>2. onto' = onto /\ \A c \in replies : onto[c] # j /\ c # j => c \in replies'
    BY <1>6 DEF Admit
  <2>. QED  BY <1>s, <1>q, <1>o, <1>p, <2>1, <2>2 DEF Queueing
<1>. QED
  BY <1>1, <1>2, <1>3, <1>4, <1>5, <1>6 DEF Next, Dispatcher, Caller, Submit, Drop,
     Cancel, CancelFallback, Shutdown, Reject, NoneRunnable, vars, scheduler

\* ... the coalescing table's,
LEMMA FoldingStep ==
  ASSUME TypeOK, Once, Places, [Next]_vars
  PROVE  Folding'
<1>s. \A j \in Jobs : (Seen(j) => Seen(j)') /\ (Root(j) => Root(j)')
  BY SeenStays DEF Root
<1>o. onto \in [Jobs -> Jobs \cup {NoJob}] /\ NoJob \notin Jobs
  BY JobAssumption DEF TypeOK
<1>1. ASSUME \A c, t \in Jobs : onto'[c] = t => onto[c] = t
      PROVE  Folding'
  BY <1>1, <1>s DEF Places, Folding
<1>2. ASSUME NEW j \in Jobs, Coalesce(j)
      PROVE  Folding'
  <2>1. PICK t \in CoalesceTargets(j) : onto' = [onto EXCEPT ![j] = t]
    BY <1>2 DEF Coalesce
  <2>2. t \in Jobs /\ Root(t) /\ SameKey(j, t)
    BY DEF CoalesceTargets, Places, Queueing, SameKey, TypeOK, Queued
  <2>3. Seen(j)'
    <3>1. ~InChannel(SubmitOf(j))' /\ caller[j] # "new"
      BY <1>2, ReceivedSubmit DEF Coalesce
    <3>. QED  BY <3>1, CallerStep DEF Seen, NoneNew
  <2>. QED  BY <1>s, <1>o, <2>1, <2>2, <2>3 DEF Places, Folding
<1>3. ASSUME NEW j \in Jobs, CancelQueued(j) \/ Release(j)
      PROVE  Folding'
  BY <1>1, <1>3, <1>o DEF CancelQueued, Release
<1>4. CASE Stop
  BY <1>1, <1>4, <1>o DEF Stop
<1>5. CASE UNCHANGED onto
  BY <1>1, <1>5
<1>. QED
  BY <1>2, <1>3, <1>4, <1>5 DEF Next, Dispatcher, Caller, Submit, Drop, Cancel,
     CancelFallback, Shutdown, Enqueue, Reject, Admit, NoneRunnable, vars, scheduler

\* ... the handles'
LEMMA HoldingStep ==
  ASSUME TypeOK, Once, Places, [Next]_vars
  PROVE  Holding'
<1>s. \A j \in Jobs : Root(j) => Root(j)'
  BY SeenStays DEF Root
<1>o. onto \in [Jobs -> Jobs \cup {NoJob}] /\ NoJob \notin Jobs
      /\ caller \in [Jobs -> CallerStates]
  BY JobAssumption DEF TypeOK
<1>1. ASSUME \A k \in Jobs : caller'[k] = "holding" =>
               \/ caller[k] = "holding" /\ handle'[k] = handle[k]
               \/ \E t \in Jobs : handle'[k] = t /\ Root(t) /\ (t = k \/ SameKey(k, t))
      PROVE  Holding'
  BY <1>1, <1>s DEF Places, Holding
<1>2. ASSUME NEW j \in Jobs, Coalesce(j)
      PROVE  Holding'
  <2>1. PICK t \in CoalesceTargets(j) : Answer({j}, "holding", t) \/ UNCHANGED callers
    BY <1>2 DEF Coalesce
  <2>2. t \in Jobs /\ Root(t) /\ SameKey(j, t)
    BY DEF CoalesceTargets, Places, Queueing, SameKey, TypeOK, Queued
  <2>. QED  BY <1>1, <2>1, <2>2 DEF Answer, callers
<1>3. ASSUME NEW j \in Jobs, Admit(j)
      PROVE  Holding'
  <2>1. Root(j)
    BY <1>3, QueueMoves DEF Places, Queueing
  <2>2. \A c \in Jobs : onto[c] = j => SameKey(c, j)
    BY DEF Places, Folding
  <2>3. \A k \in Jobs : \/ (k = j \/ onto[k] = j) /\ handle'[k] = j
                        \/ caller'[k] = caller[k] /\ handle'[k] = handle[k]
    BY <1>3 DEF Admit, Answer
  <2>. QED  BY <1>1, <2>1, <2>2, <2>3
<1>4. ASSUME NEW J, Answer(J, "refused", NoJob)
      PROVE  Holding'
  BY <1>1, <1>4 DEF Answer
<1>5. ASSUME NEW j \in Jobs, Submit(j) \/ Drop(j)
      PROVE  Holding'
  BY <1>1, <1>5, <1>o DEF Submit, Drop
<1>6. CASE UNCHANGED callers
  BY <1>1, <1>6 DEF callers
<1>7. ASSUME NEW j \in Jobs, Reject(j) \/ CancelQueued(j)
      PROVE  Holding'
  BY <1>4, <1>7 DEF Reject, CancelQueued
<1>8. CASE Stop
  BY <1>4, <1>8 DEF Stop
<1>. QED
  BY <1>2, <1>3, <1>5, <1>6, <1>7, <1>8 DEF Next, Dispatcher, Caller, Cancel,
     CancelFallback, Shutdown, Enqueue, Release, NoneRunnable, vars, callers

\* ... and the releases' and cancellations'.
LEMMA LettingStep ==
  ASSUME TypeOK, Once, Places, [Next]_vars
  PROVE  Letting'
<1>s. \A j \in Jobs : Root(j) => Root(j)'
  BY SeenStays DEF Root
<1>o. cancel \in [Jobs -> {"none", "sent", "fallback", "done"}]
      /\ \A k \in Jobs : caller[k] = "holding" => handle[k] \in Jobs
  BY DEF TypeOK
<1>1. \A t \in Jobs : cancel[t] # "none" => cancel'[t] # "none"
  BY <1>o DEF Next, Dispatcher, Caller, Submit, Drop, Cancel, CancelFallback, Shutdown,
     Coalesce, Enqueue, Reject, CancelQueued, Release, Admit, NoneRunnable, Stop, vars
<1>2. ASSUME NEW t \in Jobs, cancel'[t] # "none"
      PROVE  t \in Cancellable
  <2>1. CASE cancel[t] # "none"
    BY <2>1 DEF Places, Letting
  <2>2. CASE Cancel(t)
    BY <2>2 DEF Cancel
  <2>3. CASE CancelQueued(t)
    <3>1. InChannel(CancelOf(t))
      BY <2>3, ReceiveChannel DEF CancelQueued, CancelOf
    <3>. QED  BY <3>1 DEF Places, Letting
  <2>4. CASE cancel[t] = "none" /\ ~Cancel(t) /\ ~CancelQueued(t)
    <3>1. cancel'[t] = cancel[t]
      <4>1. ASSUME NEW j \in Jobs, Cancel(j) \/ CancelFallback(j) \/ CancelQueued(j)
            PROVE  cancel'[t] = cancel[t]
        BY <1>o, <2>4, <4>1 DEF Cancel, CancelFallback, CancelQueued
      <4>2. CASE Stop
        BY <1>o, <2>4, <4>2 DEF Stop
      <4>. QED
        BY <4>1, <4>2 DEF Next, Dispatcher, Caller, Submit, Drop, Shutdown, Coalesce,
           Enqueue, Reject, Release, Admit, NoneRunnable, vars
    <3>. QED  BY <1>2, <2>4, <3>1
  <2>. QED  BY <2>1, <2>2, <2>3, <2>4
<1>3. ASSUME NEW t \in Jobs, InChannel(ReleaseOf(t))'
      PROVE  Root(t)' \/ cancel'[t] # "none"
  <2>1. CASE InChannel(ReleaseOf(t))
    BY <1>s, <1>1, <2>1 DEF Places, Letting
  <2>2. ASSUME NEW j \in Jobs, Drop(j), ReleaseOf(t) = ReleaseOf(handle[j])
        PROVE  Root(t)'
    <3>1. handle[j] = t
      BY <2>2, Kinds
    <3>2. Root(t)
      BY <2>2, <3>1 DEF Drop, Places, Holding
    <3>. QED  BY <1>s, <3>2
  <2>3. ASSUME NEW j \in Jobs, CancelFallback(j), ReleaseOf(t) = ReleaseOf(j)
        PROVE  cancel'[t] # "none"
    <3>1. j = t
      BY <2>3, Kinds
    <3>. QED  BY <1>o, <2>3, <3>1 DEF CancelFallback
  <2>4. ReleaseOf(t) # [type |-> "Shutdown", id |-> NoJob]
    BY DEF ReleaseOf
  <2>. QED  BY <1>3, <2>1, <2>2, <2>3, <2>4, ChannelStep, Kinds
<1>4. ASSUME NEW t \in Jobs, InChannel(CancelOf(t))'
      PROVE  cancel'[t] # "none"
  <2>1. CASE InChannel(CancelOf(t))
    BY <1>1, <2>1 DEF Places, Letting
  <2>2. ASSUME NEW j \in Jobs, Cancel(j), CancelOf(t) = CancelOf(j)
        PROVE  cancel'[t] # "none"
    <3>1. j = t
      BY <2>2, Kinds
    <3>. QED  BY <1>o, <2>2, <3>1 DEF Cancel
  <2>3. CancelOf(t) # [type |-> "Shutdown", id |-> NoJob]
    BY DEF CancelOf
  <2>. QED  BY <1>4, <2>1, <2>2, <2>3, ChannelStep, Kinds
<1>. QED  BY <1>2, <1>3, <1>4 DEF Letting

\* The places of a coordinator that still runs are kept by every step.
LEMMA PlacesStep ==
  ASSUME TypeOK, Once, phase # "gone" => Places, [Next]_vars, phase' # "gone"
  PROVE  Places'
<1>1. phase # "gone"
  BY DEF Next, Dispatcher, Caller, Submit, Drop, Cancel, CancelFallback, Shutdown, Receive,
     Coalesce, Enqueue, Reject, CancelQueued, Release, Admit, NoneRunnable, Stop, vars
<1>2. ~Stop
  BY DEF Stop
<1>. QED
  BY <1>1, <1>2, BlockedStep, QueueingStep, FoldingStep, HoldingStep, LettingStep DEF Places

\* The places hold until the dispatcher ends.
LEMMA CallersInvariance == Spec => []CallersIInv
<1>1. Init => CallersIInv
  <2>1. SUFFICES ASSUME Init
                 PROVE  Places
    BY InitIInv DEF CallersIInv
  <2>2. \A x : ~InChannel(x)
    BY <2>1 DEF Init, InChannel
  <2>3. Queued = {} /\ granted = {} /\ replies = {} /\ NoJob \notin Jobs
    BY <2>1, JobAssumption DEF Init, Queued
  <2>. QED
    BY <2>1, <2>2, <2>3 DEF Init, Places, Blocked, Queueing, Folding, Holding, Letting
<1>2. CallersIInv /\ [Next]_vars => CallersIInv'
  BY IInvStep, PlacesStep DEF CallersIInv, IInv
<1>. QED  BY <1>1, <1>2, PTL DEF Spec

-----------------------------------------------------------------------------
(* The dispatcher goes back to its channel only when nothing queued fits.  *)

\* Only a full look at the queue ends an admission round.
LEMMA IdleStep ==
  ASSUME NoIdleCapacity, [Next]_vars
  PROVE  NoIdleCapacity'
<1>1. ASSUME UNCHANGED <<waiting, occupancy>>, phase' = phase
      PROVE  NoIdleCapacity'
  BY <1>1 DEF NoIdleCapacity, CanGrant, occupancy
<1>2. CASE NoneRunnable
  BY <1>2 DEF NoneRunnable, NoIdleCapacity, CanGrant, occupancy, scheduler
<1>3. ASSUME phase' # "receive"
      PROVE  NoIdleCapacity'
  BY <1>3 DEF NoIdleCapacity
<1>4. ASSUME NEW j \in Jobs, Caller(j) \/ Coalesce(j) \/ Reject(j)
      PROVE  NoIdleCapacity'
  BY <1>1, <1>4 DEF Caller, Submit, Drop, Cancel, CancelFallback, Coalesce, Reject, scheduler
<1>5. ASSUME NEW j \in Jobs, Enqueue(j) \/ CancelQueued(j) \/ Release(j) \/ Admit(j)
      PROVE  NoIdleCapacity'
  BY <1>3, <1>5 DEF Enqueue, CancelQueued, Release, Admit
<1>6. CASE Stop
  BY <1>3, <1>6 DEF Stop
<1>7. CASE Shutdown \/ UNCHANGED vars
  BY <1>1, <1>7 DEF Shutdown, vars, scheduler, occupancy
<1>. QED  BY <1>2, <1>4, <1>5, <1>6, <1>7 DEF Next, Dispatcher

\* No caller waits for capacity that is free, whatever jobs are submitted,
\* coalesced, cancelled or released.
THEOREM NeverIdle == Spec => []NoIdleCapacity
<1>1. Init => NoIdleCapacity
  BY DEF Init, NoIdleCapacity
<1>2. NoIdleCapacity /\ [Next]_vars => NoIdleCapacity'
  BY IdleStep
<1>. QED  BY <1>1, <1>2, PTL DEF Spec

-----------------------------------------------------------------------------
(* No caller is forgotten.                                                 *)

\* Where the answer to j will come from.
Awaited(j) ==
  InChannel(SubmitOf(j)) \/ (j \in replies /\ (j \in Queued \/ onto[j] \in Queued))
AllAwaited ==
  \A j \in Jobs : caller[j] = "blocked" => phase # "gone" /\ Awaited(j)

\* AllAwaited is NoForgottenCaller, with the places named.
LEMMA AwaitedIs == AllAwaited <=> NoForgottenCaller
BY DEF AllAwaited, Awaited, NoForgottenCaller, InChannel, SubmitOf

\* Every step keeps the answer of every blocked caller in sight.
LEMMA AwaitedStep ==
  ASSUME SoleCancel, CallersIInv, AllAwaited, [Next]_vars
  PROVE  AllAwaited'
<1>t. TypeOK /\ Once
  BY DEF CallersIInv, IInv
<1>o. onto \in [Jobs -> Jobs \cup {NoJob}] /\ NoJob \notin Jobs
      /\ caller \in [Jobs -> CallerStates] /\ Queued \subseteq Jobs /\ replies \subseteq Jobs
  BY <1>t, JobAssumption DEF TypeOK, Queued
<1>g. CASE phase = "gone"
  <2>1. phase' = "gone"
    BY <1>g DEF Next, Dispatcher, Caller, Submit, Drop, Cancel, CancelFallback, Shutdown,
       Receive, Coalesce, Enqueue, Reject, CancelQueued, Release, Admit, NoneRunnable, Stop,
       vars
  <2>2. \A j \in Jobs : caller'[j] # "blocked"
    <3>1. \A j \in Jobs : caller[j] # "blocked"
      BY <1>g DEF AllAwaited
    <3>. QED
      BY <1>g, <1>o, <3>1 DEF Next, Dispatcher, Caller, Submit, Drop, Cancel, CancelFallback,
         Shutdown, Receive, Coalesce, Enqueue, Reject, CancelQueued, Release, Admit,
         NoneRunnable, Stop, vars, callers
  <2>. QED  BY <2>2 DEF AllAwaited
<1>n. CASE phase # "gone"
  <2>p. Places
    BY <1>n DEF CallersIInv
  <2>c. \A j \in Cancellable, t \in Jobs : onto[j] # t
    BY <1>o, <2>p, JobAssumption DEF SoleCancel, Places, Folding, Root
  <2>1. ASSUME phase' # "gone",
               \A k \in Jobs : caller'[k] = "blocked" =>
                 \/ caller[k] = "blocked" /\ (Awaited(k) => Awaited(k)')
                 \/ Awaited(k)'
        PROVE  AllAwaited'
    BY <2>1 DEF AllAwaited
  <2>r. ASSUME NEW type, NEW id, Receive(type, id), type # "Submit"
        PROVE  \A k \in Jobs : InChannel(SubmitOf(k)) => InChannel(SubmitOf(k))'
    BY <1>t, <2>r, ReceiveChannel DEF SubmitOf
  <2>2. ASSUME NEW j \in Jobs, Submit(j)
        PROVE  AllAwaited'
    <3>1. \A x : InChannel(x) => InChannel(x)'
      BY <1>n, <1>t, <2>2, SendChannel DEF Submit
    <3>2. InChannel(SubmitOf(j))'
      BY <1>n, <1>t, <2>2, SendChannel DEF Submit, SubmitOf
    <3>3. /\ \A k \in Jobs \ {j} : caller'[k] = caller[k]
          /\ replies' = replies /\ Queued' = Queued /\ onto' = onto /\ phase' = phase
      BY <1>o, <2>2 DEF Submit, scheduler, Queued
    <3>. QED  BY <1>n, <2>1, <3>1, <3>2, <3>3 DEF Awaited
  <2>3. ASSUME NEW j \in Jobs, Drop(j)
        PROVE  AllAwaited'
    <3>1. \A x : InChannel(x) => InChannel(x)'
      BY <1>n, <1>t, <2>3, SendChannel DEF Drop
    <3>2. /\ \A k \in Jobs : caller'[k] = "blocked" => caller[k] = "blocked"
          /\ replies' = replies /\ Queued' = Queued /\ onto' = onto /\ phase' = phase
      BY <1>o, <2>3 DEF Drop, scheduler, Queued
    <3>. QED  BY <1>n, <2>1, <3>1, <3>2 DEF Awaited
  <2>4. CASE Shutdown \/ \E j \in Jobs : Cancel(j) \/ CancelFallback(j)
    <3>1. \A x : InChannel(x) => InChannel(x)'
      BY <1>n, <1>t, <2>4, SendChannel DEF Shutdown, Cancel, CancelFallback
    <3>2. UNCHANGED <<caller, replies, onto, phase>> /\ Queued' = Queued
      BY <2>4 DEF Shutdown, Cancel, CancelFallback, callers, scheduler, Queued
    <3>. QED  BY <1>n, <2>1, <3>1, <3>2 DEF Awaited
  <2>5. ASSUME NEW j \in Jobs, Coalesce(j)
        PROVE  AllAwaited'
    <3>1. \A k \in Jobs \ {j} : InChannel(SubmitOf(k)) => InChannel(SubmitOf(k))'
      BY <1>t, <2>5, ReceiveChannel DEF Coalesce, SubmitOf
    <3>2. PICK t \in CoalesceTargets(j) :
            /\ onto' = [onto EXCEPT ![j] = t]
            /\ \/ replies' = replies /\ Answer({j}, "holding", t)
               \/ t \notin granted /\ replies' = replies \cup {j} /\ UNCHANGED callers
      BY <2>5 DEF Coalesce
    <3>3. t \in granted \cup Queued /\ Queued' = Queued /\ phase' = phase
      BY <2>5 DEF CoalesceTargets, Coalesce, Queued
    <3>4. \A k \in Jobs \ {j} :
            caller'[k] = caller[k] /\ onto'[k] = onto[k] /\ (k \in replies => k \in replies')
      BY <1>o, <3>2 DEF Answer, callers
    <3>5. caller'[j] = "blocked" => j \in replies' /\ onto'[j] \in Queued'
      BY <1>o, <3>2, <3>3 DEF Answer, callers
    <3>. QED  BY <1>n, <2>1, <3>1, <3>3, <3>4, <3>5 DEF Awaited
  <2>6. ASSUME NEW j \in Jobs, Enqueue(j)
        PROVE  AllAwaited'
    <3>1. \A k \in Jobs \ {j} : InChannel(SubmitOf(k)) => InChannel(SubmitOf(k))'
      BY <1>t, <2>6, ReceiveChannel DEF Enqueue, SubmitOf
    <3>2. /\ Queued' = Queued \cup {j} /\ replies' = replies \cup {j}
          /\ onto' = onto /\ caller' = caller /\ phase' # "gone"
      BY <1>t, <2>6, QueueMoves DEF Enqueue, callers
    <3>. QED  BY <2>1, <3>1, <3>2 DEF Awaited
  <2>7. ASSUME NEW j \in Jobs, Reject(j)
        PROVE  AllAwaited'
    <3>1. \A k \in Jobs \ {j} : InChannel(SubmitOf(k)) => InChannel(SubmitOf(k))'
      BY <1>t, <2>7, ReceiveChannel DEF Reject, SubmitOf
    <3>2. /\ Queued' = Queued /\ replies' = replies /\ onto' = onto /\ phase' = phase
          /\ caller'[j] = "refused" /\ \A k \in Jobs \ {j} : caller'[k] = caller[k]
      BY <2>7 DEF Reject, Answer, scheduler, Queued
    <3>. QED  BY <1>n, <2>1, <3>1, <3>2 DEF Awaited
  <2>8. ASSUME NEW j \in Jobs, CancelQueued(j)
        PROVE  AllAwaited'
    <3>1. \A k \in Jobs : InChannel(SubmitOf(k)) => InChannel(SubmitOf(k))'
      BY <2>8, <2>r DEF CancelQueued
    <3>2. Queued' = Queued \ {j} /\ phase' # "gone"
      BY <1>t, <2>8, QueueMoves DEF CancelQueued
    <3>3. onto[j] \notin Queued
      <4>1. InChannel(CancelOf(j))
        BY <1>t, <2>8, ReceiveChannel DEF CancelQueued, CancelOf
      <4>2. j \in Cancellable
        BY <2>p, <4>1 DEF Places, Letting
      <4>. QED  BY <1>o, <2>c, <4>2
    <3>4. \A k \in Jobs \ {j} : onto[k] # j =>
            onto'[k] = onto[k] /\ (k \in replies => k \in replies')
      BY <2>8 DEF CancelQueued
    <3>5. \A k \in Jobs : (onto[k] = j \/ (k = j /\ j \in Queued)) /\ k \in replies =>
            caller'[k] = "refused"
      BY <2>8 DEF CancelQueued, Answer
    <3>6. \A k \in Jobs : caller'[k] = "blocked" => caller[k] = "blocked"
      BY <2>8 DEF CancelQueued, Answer
    <3>. QED  BY <1>o, <2>1, <3>1, <3>2, <3>3, <3>4, <3>5, <3>6 DEF Awaited
  <2>9. ASSUME NEW j \in Jobs, Release(j)
        PROVE  AllAwaited'
    <3>1. \A k \in Jobs : InChannel(SubmitOf(k)) => InChannel(SubmitOf(k))'
      BY <2>9, <2>r DEF Release
    <3>2. onto[j] = NoJob
      <4>1. InChannel(ReleaseOf(j))
        BY <1>t, <2>9, ReceiveChannel DEF Release, ReleaseOf
      <4>2. Root(j) \/ j \in Cancellable
        BY <2>p, <4>1 DEF Places, Letting
      <4>. QED  BY <1>o, <2>c, <4>2 DEF Root
    <3>3. /\ onto' = onto /\ replies' = replies /\ caller' = caller /\ Queued' = Queued
          /\ phase' # "gone"
      BY <1>o, <2>9, <3>2 DEF Release, callers, Queued
    <3>. QED  BY <2>1, <3>1, <3>3 DEF Awaited
  <2>10. ASSUME NEW j \in Jobs, Admit(j)
         PROVE  AllAwaited'
    <3>1. \A k \in Jobs : InChannel(SubmitOf(k)) => InChannel(SubmitOf(k))'
      BY <2>10 DEF Admit, InChannel
    <3>2. Queued' = Queued \ {j} /\ phase' # "gone" /\ onto' = onto
      BY <1>n, <1>t, <2>10, QueueMoves DEF Admit
    <3>3. \A k \in Jobs \ {j} : onto[k] # j => (k \in replies => k \in replies')
      BY <2>10 DEF Admit
    <3>4. \A k \in Jobs : (onto[k] = j \/ k = j) /\ k \in replies => caller'[k] = "holding"
      BY <2>10 DEF Admit, Answer
    <3>5. \A k \in Jobs : caller'[k] = "blocked" => caller[k] = "blocked"
      BY <2>10 DEF Admit, Answer
    <3>6. onto[j] \notin Queued
      BY <1>o, <1>t, <2>10, <2>p, QueueMoves DEF Places, Queueing, Root
    <3>. QED  BY <1>o, <2>1, <3>1, <3>2, <3>3, <3>4, <3>5, <3>6 DEF Awaited
  <2>11. CASE Stop
    <3>1. \A j \in Jobs : caller[j] = "blocked" => InChannel(SubmitOf(j)) \/ j \in replies
      BY DEF AllAwaited, Awaited
    <3>2. \A j \in Jobs : InChannel(SubmitOf(j)) \/ j \in replies => caller'[j] = "refused"
      BY <2>11 DEF Stop, Answer, InChannel, SubmitOf
    <3>3. \A j \in Jobs : caller'[j] = "blocked" => caller[j] = "blocked"
      BY <2>11 DEF Stop, Answer
    <3>. QED  BY <3>1, <3>2, <3>3 DEF AllAwaited
  <2>12. CASE NoneRunnable \/ UNCHANGED vars
    <3>1. UNCHANGED <<inbox, caller, replies, onto>> /\ Queued' = Queued /\ phase' # "gone"
      BY <1>n, <2>12 DEF NoneRunnable, vars, callers, scheduler, Queued
    <3>. QED  BY <2>1, <3>1 DEF Awaited, InChannel
  <2>. QED
    BY <2>2, <2>3, <2>4, <2>5, <2>6, <2>7, <2>8, <2>9, <2>10, <2>11, <2>12
       DEF Next, Dispatcher, Caller
<1>. QED  BY <1>g, <1>n

\* A caller blocked in recv is still going to be answered, as long as nobody
\* cancels a job that shares its coalescing key: its submission is unread, it is
\* queued, or it is folded onto a queued job, and at shutdown it is told.
THEOREM NoneForgotten == ASSUME SoleCancel PROVE Spec => []NoForgottenCaller
<1>1. Init => AllAwaited
  BY DEF Init, AllAwaited
<1>2. CallersIInv /\ AllAwaited /\ [Next]_vars => AllAwaited'
  BY AwaitedStep
<1>3. AllAwaited => NoForgottenCaller
  BY AwaitedIs
<1>. QED  BY <1>1, <1>2, <1>3, CallersInvariance, PTL DEF Spec

-----------------------------------------------------------------------------
(* Who holds a handle holds its reservation.                               *)

\* Who holds a handle on t, and the releases of t that are under way.
Holders(t)  == {k \in Jobs : caller[k] = "holding" /\ handle[k] = t}
Releases(t) == {i \in DOMAIN inbox : inbox[i] = ReleaseOf(t)}
Held(t) == Cardinality(Holders(t))
Due(t)  == Cardinality(Releases(t))

\* Handles and releases under way are finitely many.
LEMMA Counted ==
  ASSUME TypeOK, NEW t
  PROVE  /\ IsFiniteSet(Holders(t)) /\ Held(t) \in Nat
         /\ IsFiniteSet(Releases(t)) /\ Due(t) \in Nat
         /\ \A k \in Holders(t) : Held(t) > 0
<1>1. IsFiniteSet(Holders(t))
  BY JobAssumption, FS_Subset DEF Holders
<1>2. IsFiniteSet(Releases(t))
  <2>1. DOMAIN inbox = 1..Len(inbox) /\ 1 \in Int /\ Len(inbox) \in Int
    BY DEF TypeOK
  <2>2. IsFiniteSet(1..Len(inbox))
    BY <2>1, FS_Interval
  <2>. QED  BY <2>1, <2>2, FS_Subset DEF Releases
<1>3. Held(t) \in Nat /\ (Holders(t) # {} => Held(t) # 0)
  BY <1>1, FS_CardinalityType, FS_EmptySet DEF Held
<1>. QED  BY <1>1, <1>2, <1>3, FS_CardinalityType DEF Due

\* What a message sent or received is to the releases under way.
LEMMA SendDue ==
  ASSUME TypeOK, NEW m, Send(m), phase # "gone", NEW t
  PROVE  /\ m = ReleaseOf(t) => Due(t)' = Due(t) + 1
         /\ m # ReleaseOf(t) => Due(t)' = Due(t)
<1>1. /\ DOMAIN inbox' = 1..(Len(inbox) + 1)
      /\ \A i \in DOMAIN inbox' : inbox'[i] = IF i = Len(inbox) + 1 THEN m ELSE inbox[i]
      /\ DOMAIN inbox = 1..Len(inbox) /\ Len(inbox) \in Nat
  BY DEF Send, TypeOK
<1>2. \A i : i \in DOMAIN inbox' <=> i \in DOMAIN inbox \/ i = Len(inbox) + 1
  BY <1>1
<1>3. Len(inbox) + 1 \notin DOMAIN inbox
  BY <1>1
<1>4. ASSUME m = ReleaseOf(t)
      PROVE  Due(t)' = Due(t) + 1
  <2>1. Releases(t)' = Releases(t) \cup {Len(inbox) + 1}
    BY <1>1, <1>2, <1>3, <1>4 DEF Releases
  <2>2. Len(inbox) + 1 \notin Releases(t)
    BY <1>3 DEF Releases
  <2>. QED  BY <2>1, <2>2, Counted, FS_AddElement DEF Due
<1>5. ASSUME m # ReleaseOf(t)
      PROVE  Due(t)' = Due(t)
  <2>1. Releases(t)' = Releases(t)
    BY <1>1, <1>2, <1>3, <1>5 DEF Releases
  <2>. QED  BY <2>1 DEF Due
<1>. QED  BY <1>4, <1>5

\* ... and what one received is.
LEMMA ReceiveDue ==
  ASSUME TypeOK, NEW type, NEW id, Receive(type, id), NEW t
  PROVE  /\ [type |-> type, id |-> id] = ReleaseOf(t) => Due(t) = Due(t)' + 1
         /\ [type |-> type, id |-> id] # ReleaseOf(t) => Due(t)' = Due(t)
         /\ Due(t)' \in Nat
<1>. DEFINE m == [type |-> type, id |-> id]
<1>1. /\ DOMAIN inbox = 1..Len(inbox) /\ Len(inbox) \in Nat /\ 1 \in DOMAIN inbox
      /\ inbox[1] = m
  BY ReceivedRest DEF TypeOK
<1>2. /\ DOMAIN inbox' = 1..(Len(inbox) - 1)
      /\ \A i \in DOMAIN inbox' : inbox'[i] = inbox[i + 1]
  <2>1. inbox \in Seq(Messages) /\ inbox # << >> /\ inbox' = Tail(inbox)
    BY DEF Receive, TypeOK
  <2>. QED  BY <2>1
<1>. HIDE DEF m
<1>3. PICK R : R = Releases(t)'
  OBVIOUS
<1>4. PICK f : f = [i \in R |-> i + 1]
  OBVIOUS
<1>5. f \in Bijection(R, Releases(t) \ {1})
  <2>1. R \subseteq 1..(Len(inbox) - 1)
    BY <1>2, <1>3 DEF Releases
  <2>2. f \in [R -> Releases(t) \ {1}]
    BY <1>1, <1>2, <1>3, <1>4, <2>1 DEF Releases
  <2>3. \A a, b \in R : f[a] = f[b] => a = b
    BY <1>1, <1>4, <2>1
  <2>4. \A k \in Releases(t) \ {1} : \E i \in R : f[i] = k
    <3>1. SUFFICES ASSUME NEW k \in Releases(t) \ {1}
                   PROVE  \E i \in R : f[i] = k
      OBVIOUS
    <3>2. k \in 1..Len(inbox) /\ k # 1 /\ inbox[k] = ReleaseOf(t)
      BY <1>1 DEF Releases
    <3>3. k - 1 \in DOMAIN inbox' /\ inbox'[k - 1] = ReleaseOf(t) /\ (k - 1) + 1 = k
      BY <1>1, <1>2, <3>2
    <3>4. k - 1 \in R
      BY <1>3, <3>3 DEF Releases
    <3>. QED  BY <1>4, <3>3, <3>4
  <2>. QED  BY <2>2, <2>3, <2>4 DEF Bijection, Injection, IsInjective, Surjection
<1>6. /\ IsFiniteSet(Releases(t) \ {1}) /\ IsFiniteSet(Releases(t))
      /\ Cardinality(Releases(t) \ {1}) =
           IF 1 \in Releases(t) THEN Cardinality(Releases(t)) - 1
                                ELSE Cardinality(Releases(t))
  BY Counted, FS_RemoveElement
<1>7. Cardinality(R) = Cardinality(Releases(t) \ {1}) /\ Cardinality(R) \in Nat
  <2>1. IsFiniteSet(R)
    <3>1. 1 \in Int /\ Len(inbox) - 1 \in Int
      BY <1>1
    <3>2. IsFiniteSet(1..(Len(inbox) - 1))
      BY <3>1, FS_Interval
    <3>3. R \in SUBSET (1..(Len(inbox) - 1))
      BY <1>2, <1>3 DEF Releases
    <3>. QED  BY <3>2, <3>3, FS_Subset
  <2>2. ExistsBijection(R, Releases(t) \ {1})
    BY <1>5 DEF ExistsBijection
  <2>. QED  BY <2>1, <2>2, FS_Bijection, FS_CardinalityType
<1>8. 1 \in Releases(t) <=> m = ReleaseOf(t)
  BY <1>1 DEF Releases
<1>9. Due(t)' = Cardinality(R) /\ Due(t) = Cardinality(Releases(t)) /\ Due(t) \in Nat
  BY <1>3, Counted DEF Due
<1>. QED  BY <1>6, <1>7, <1>8, <1>9 DEF m

\* The handles on t, when callers get or give them up.
LEMMA HeldStep ==
  ASSUME TypeOK, TypeOK', NEW t
  PROVE  /\ Holders(t)' = Holders(t) => Held(t)' = Held(t)
         /\ \A k : k \notin Holders(t) /\ Holders(t)' = Holders(t) \cup {k}
                 => Held(t)' = Held(t) + 1
         /\ \A k : k \in Holders(t) /\ Holders(t)' = Holders(t) \ {k}
                 => Held(t) = Held(t)' + 1 /\ Held(t)' \in Nat
<1>1. IsFiniteSet(Holders(t)) /\ Held(t) \in Nat
  BY Counted
<1>2. ASSUME NEW k, k \notin Holders(t), Holders(t)' = Holders(t) \cup {k}
      PROVE  Held(t)' = Held(t) + 1
  BY <1>1, <1>2, FS_AddElement DEF Held
<1>3. ASSUME NEW k, k \in Holders(t), Holders(t)' = Holders(t) \ {k}
      PROVE  Held(t) = Held(t)' + 1 /\ Held(t)' \in Nat
  <2>1. Cardinality(Holders(t) \ {k}) = Cardinality(Holders(t)) - 1
    BY <1>1, <1>3, FS_RemoveElement
  <2>2. Held(t)' = Held(t) - 1
    BY <1>3, <2>1 DEF Held
  <2>3. Held(t) > 0
    BY <1>3, Counted
  <2>. QED  BY <1>1, <2>2, <2>3
<1>. QED  BY <1>2, <1>3 DEF Held

\* The shares of t, one conjunct of Shares.
Share(t) == cancel[t] = "none" => refs[t] = Held(t) + Due(t)

\* Every step of a running coordinator keeps the shares of a job nobody cancelled.
LEMMA ShareStep ==
  ASSUME IInv, Places, [Next]_vars, ~Stop, phase # "gone", NEW t \in Jobs, Share(t)
  PROVE  Share(t)'
<1>t. TypeOK /\ Once /\ TypeOK'
  BY IInvStep DEF IInv
<1>c. SUFFICES ASSUME cancel[t] = "none", cancel'[t] = "none"
               PROVE  refs'[t] = Held(t)' + Due(t)'
  <2>1. cancel[t] # "none" => cancel'[t] # "none"
    BY <1>t, ZenonT(40) DEF TypeOK, Next, Dispatcher, Caller, Submit, Drop, Cancel, CancelFallback,
       Shutdown, Coalesce, Enqueue, Reject, CancelQueued, Release, Admit, NoneRunnable, Stop,
       vars
  <2>. QED  BY <2>1 DEF Share
<1>n. /\ refs[t] = Held(t) + Due(t) /\ Held(t) \in Nat /\ Due(t) \in Nat
      /\ refs \in [Jobs -> Nat] /\ caller \in [Jobs -> CallerStates]
  BY <1>c, <1>t, Counted DEF Share, TypeOK
<1>1. ASSUME refs'[t] = refs[t], Due(t)' = Due(t), Holders(t)' = Holders(t)
      PROVE  refs'[t] = Held(t)' + Due(t)'
  BY <1>1, <1>n DEF Held
<1>2. ASSUME NEW type, NEW id, Receive(type, id), type # "Release"
      PROVE  Due(t)' = Due(t)
  BY <1>2, <1>t, ReceiveDue DEF ReleaseOf
<1>3. ASSUME NEW m, Send(m), m.type # "Release"
      PROVE  Due(t)' = Due(t)
  BY <1>3, <1>t, SendDue DEF ReleaseOf
<1>4. CASE Shutdown \/ \E j \in Jobs : Submit(j) \/ Cancel(j)
  <2>1. refs'[t] = refs[t] /\ Holders(t)' = Holders(t)
    BY <1>4, <1>n DEF Shutdown, Submit, Cancel, callers, scheduler, Holders
  <2>2. Due(t)' = Due(t)
    BY <1>3, <1>4 DEF Shutdown, Submit, Cancel
  <2>. QED  BY <1>1, <2>1, <2>2
<1>5. ASSUME NEW j \in Jobs, CancelFallback(j)
      PROVE  refs'[t] = Held(t)' + Due(t)'
  <2>1. refs'[t] = refs[t] /\ Holders(t)' = Holders(t) /\ j # t
    BY <1>c, <1>5 DEF CancelFallback, callers, scheduler, Holders
  <2>2. Due(t)' = Due(t)
    BY <1>5, <1>t, <2>1, SendDue, Kinds DEF CancelFallback, ReleaseOf
  <2>. QED  BY <1>1, <2>1, <2>2
<1>6. ASSUME NEW j \in Jobs, Drop(j)
      PROVE  refs'[t] = Held(t)' + Due(t)'
  <2>1. refs'[t] = refs[t] /\ Send(ReleaseOf(handle[j])) /\ caller[j] = "holding"
    BY <1>6 DEF Drop, scheduler, ReleaseOf
  <2>2. CASE handle[j] = t
    <3>1. j \in Holders(t) /\ Holders(t)' = Holders(t) \ {j}
      BY <1>6, <1>n, <2>2 DEF Drop, Holders
    <3>2. Due(t)' = Due(t) + 1
      BY <1>t, <2>1, <2>2, SendDue
    <3>3. Held(t) = Held(t)' + 1 /\ Held(t)' \in Nat
      BY <1>t, <3>1, HeldStep
    <3>. QED  BY <1>n, <2>1, <3>2, <3>3
  <2>3. CASE handle[j] # t
    <3>1. Holders(t)' = Holders(t)
      BY <1>6, <1>n, <2>3 DEF Drop, Holders
    <3>2. Due(t)' = Due(t)
      BY <1>t, <2>1, <2>3, SendDue, Kinds
    <3>. QED  BY <1>1, <2>1, <3>1, <3>2
  <2>. QED  BY <2>2, <2>3
<1>7. ASSUME NEW j \in Jobs, Coalesce(j)
      PROVE  refs'[t] = Held(t)' + Due(t)'
  <2>1. Due(t)' = Due(t)
    BY <1>2, <1>7 DEF Coalesce
  <2>2. caller[j] = "blocked"
    BY <1>7, <1>t, ReceivedSubmit DEF Coalesce
  <2>3. PICK g \in CoalesceTargets(j) :
          \/ refs' = [refs EXCEPT ![g] = @ + 1] /\ Answer({j}, "holding", g)
          \/ UNCHANGED <<refs, callers>>
    BY <1>7 DEF Coalesce, callers
  <2>4. CASE UNCHANGED <<refs, callers>>
    BY <1>1, <2>1, <2>4 DEF callers, Holders
  <2>5. CASE refs' = [refs EXCEPT ![g] = @ + 1] /\ Answer({j}, "holding", g)
    <3>1. CASE g = t
      <4>1. j \notin Holders(t) /\ Holders(t)' = Holders(t) \cup {j}
        BY <2>2, <2>5, <3>1 DEF Answer, Holders
      <4>2. Held(t)' = Held(t) + 1
        BY <1>t, <4>1, HeldStep
      <4>3. refs'[t] = refs[t] + 1
        BY <1>n, <2>5, <3>1
      <4>. QED  BY <1>n, <2>1, <4>2, <4>3
    <3>2. CASE g # t
      <4>1. Holders(t)' = Holders(t)
        BY <2>2, <2>5, <3>2 DEF Answer, Holders
      <4>2. refs'[t] = refs[t]
        BY <1>n, <2>5, <3>2
      <4>. QED  BY <1>1, <2>1, <4>1, <4>2
    <3>. QED  BY <3>1, <3>2
  <2>. QED  BY <2>3, <2>4, <2>5
<1>8. ASSUME NEW j \in Jobs, Enqueue(j)
      PROVE  refs'[t] = Held(t)' + Due(t)'
  <2>1. refs'[t] = refs[t] /\ Holders(t)' = Holders(t)
    BY <1>8 DEF Enqueue, callers, Holders
  <2>. QED  BY <1>1, <1>2, <1>8, <2>1 DEF Enqueue
<1>9. ASSUME NEW j \in Jobs, Reject(j) \/ CancelQueued(j)
      PROVE  refs'[t] = Held(t)' + Due(t)'
  <2>1. refs'[t] = refs[t]
    BY <1>9 DEF Reject, CancelQueued, scheduler
  <2>2. \A k \in Jobs : \/ caller'[k] = caller[k] /\ handle'[k] = handle[k]
                        \/ caller[k] = "blocked" /\ caller'[k] = "refused"
    <3>1. Reject(j) => caller[j] = "blocked"
      BY <1>t, ReceivedSubmit DEF Reject
    <3>2. \A k \in replies : caller[k] = "blocked"
      BY DEF Places, Blocked
    <3>. QED  BY <1>9, <3>1, <3>2 DEF Reject, CancelQueued, Answer
  <2>3. Holders(t)' = Holders(t)
    BY <2>2 DEF Holders
  <2>4. Due(t)' = Due(t)
    BY <1>2, <1>9 DEF Reject, CancelQueued
  <2>. QED  BY <1>1, <2>1, <2>3, <2>4
<1>10. ASSUME NEW j \in Jobs, Release(j)
       PROVE  refs'[t] = Held(t)' + Due(t)'
  <2>1. Holders(t)' = Holders(t) /\ refs' = [refs EXCEPT ![j] = Less(refs[j])]
    BY <1>10 DEF Release, callers, Holders
  <2>2. Receive("Release", j)
    BY <1>10 DEF Release
  <2>3. CASE j = t
    <3>1. Due(t) = Due(t)' + 1 /\ Due(t)' \in Nat
      BY <1>t, <2>2, <2>3, ReceiveDue DEF ReleaseOf
    <3>2. refs'[t] = refs[t] - 1
      BY <1>n, <2>1, <2>3, <3>1 DEF Less
    <3>. QED  BY <1>n, <2>1, <3>1, <3>2 DEF Held
  <2>4. CASE j # t
    <3>1. Due(t)' = Due(t)
      BY <1>t, <2>2, <2>4, ReceiveDue, Kinds DEF ReleaseOf
    <3>. QED  BY <1>1, <1>n, <2>1, <2>4, <3>1
  <2>. QED  BY <2>3, <2>4
<1>11. ASSUME NEW j \in Jobs, Admit(j)
       PROVE  refs'[t] = Held(t)' + Due(t)'
  <2>. DEFINE F == {c \in Jobs : onto[c] = j}
  <2>1. Due(t)' = Due(t)
    BY <1>11 DEF Admit, Due, Releases
  <2>2. j \in Queued /\ j \notin granted /\ Root(j)
    BY <1>t, <1>11, QueueMoves DEF Once, Places, Queueing
  <2>3. F \subseteq replies /\ j \in replies /\ j \notin F
    BY <2>2, JobAssumption DEF Places, Queueing, Root
  <2>4. \A k \in F \cup {j} : caller[k] = "blocked"
    BY <2>3 DEF Places, Blocked
  <2>5. /\ \A k \in F \cup {j} : caller'[k] = "holding" /\ handle'[k] = j
        /\ \A k \in Jobs \ (F \cup {j}) : caller'[k] = caller[k] /\ handle'[k] = handle[k]
        /\ refs' = [refs EXCEPT ![j] = 1 + Cardinality(F)]
    BY <1>11, <2>3 DEF Admit, Answer
  <2>6. CASE j = t
    <3>1. refs[t] = 0
      BY <1>n, <2>2, <2>6 DEF IInv, RefsExact
    <3>2. Held(t) = 0 /\ Due(t) = 0
      BY <1>n, <3>1
    <3>3. Holders(t) = {}
      BY <1>t, <3>2, Counted
    <3>4. Holders(t)' = F \cup {j}
      BY <2>5, <2>6, <3>3 DEF Holders
    <3>5. IsFiniteSet(F)
      BY JobAssumption, FS_Subset
    <3>6. Cardinality(F \cup {j}) = Cardinality(F) + 1 /\ Cardinality(F) \in Nat
      BY <2>3, <3>5, FS_AddElement, FS_CardinalityType
    <3>7. refs'[t] = 1 + Cardinality(F)
      BY <1>n, <2>5, <2>6
    <3>. HIDE DEF F
    <3>. QED  BY <2>1, <3>2, <3>4, <3>6, <3>7 DEF Held
  <2>7. CASE j # t
    <3>1. Holders(t)' = Holders(t)
      BY <2>4, <2>5, <2>7 DEF Holders
    <3>2. refs'[t] = refs[t]
      BY <1>n, <2>5, <2>7
    <3>. QED  BY <1>1, <2>1, <3>1, <3>2
  <2>. QED  BY <2>6, <2>7
<1>12. CASE NoneRunnable \/ UNCHANGED vars
  <2>1. refs'[t] = refs[t] /\ Holders(t)' = Holders(t) /\ Due(t)' = Due(t)
    BY <1>12 DEF NoneRunnable, vars, callers, scheduler, Holders, Due, Releases
  <2>. QED  BY <1>1, <2>1
<1>. QED
  BY <1>4, <1>5, <1>6, <1>7, <1>8, <1>9, <1>10, <1>11, <1>12 DEF Next, Dispatcher, Caller

\* Who holds a handle and never cancelled it holds its reservation, whoever else
\* of the same coalesced job has released it, as long as nobody cancels a job
\* that shares its coalescing key.
THEOREM HoldersKeep == ASSUME SoleCancel PROVE Spec => []HolderKeepsReservation
<1>. DEFINE I == CallersIInv /\ (phase # "gone" => \A t \in Jobs : Share(t))
<1>1. Init => \A t \in Jobs : Share(t)
  <2>1. SUFFICES ASSUME Init, NEW t \in Jobs
                 PROVE  Share(t)
    OBVIOUS
  <2>2. Holders(t) = {} /\ Releases(t) = {} /\ refs[t] = 0
    BY <2>1 DEF Init, Holders, Releases
  <2>. QED  BY <2>2, FS_EmptySet DEF Share, Held, Due
<1>2. ASSUME CallersIInv, phase # "gone" => \A t \in Jobs : Share(t), [Next]_vars,
             phase' # "gone"
      PROVE  \A t \in Jobs : Share(t)'
  <2>1. phase # "gone"
    BY <1>2 DEF Next, Dispatcher, Caller, Submit, Drop, Cancel, CancelFallback, Shutdown,
       Receive, Coalesce, Enqueue, Reject, CancelQueued, Release, Admit, NoneRunnable, Stop,
       vars
  <2>2. ~Stop
    BY <1>2 DEF Stop
  <2>. QED  BY <1>2, <2>1, <2>2, ShareStep DEF CallersIInv
<1>3. ASSUME CallersIInv, phase # "gone" => \A t \in Jobs : Share(t)
      PROVE  HolderKeepsReservation
  <2>1. SUFFICES ASSUME NEW k \in Jobs, caller[k] = "holding", cancel[k] = "none",
                        phase # "gone"
                 PROVE  handle[k] \in granted
    BY DEF HolderKeepsReservation
  <2>2. PICK t \in Jobs : handle[k] = t
    BY <1>3, <2>1 DEF CallersIInv, IInv, TypeOK
  <2>3. t = k \/ SameKey(k, t)
    BY <1>3, <2>1, <2>2 DEF CallersIInv, Places, Holding
  <2>4. cancel[t] = "none"
    <3>1. t \in Cancellable => t = k
      BY <2>3 DEF SoleCancel, SameKey
    <3>. QED  BY <1>3, <2>1, <3>1 DEF CallersIInv, Places, Letting
  <2>5. refs[t] = Held(t) + Due(t) /\ Held(t) > 0 /\ Held(t) \in Nat /\ Due(t) \in Nat
    BY <1>3, <2>1, <2>2, <2>4, Counted DEF Share, CallersIInv, IInv, Holders
  <2>. QED  BY <1>3, <2>2, <2>5 DEF CallersIInv, IInv, RefsExact
<1>4. Init => (phase # "gone" => \A t \in Jobs : Share(t))
  BY <1>1
<1>5. CallersIInv /\ (phase # "gone" => \A t \in Jobs : Share(t)) /\ [Next]_vars
        => (phase # "gone" => \A t \in Jobs : Share(t))'
  BY <1>2
<1>6. CallersIInv /\ (phase # "gone" => \A t \in Jobs : Share(t)) => HolderKeepsReservation
  BY <1>3
<1>. QED  BY <1>4, <1>5, <1>6, CallersInvariance, PTL DEF Spec

\* All the coordinator promises its callers: types, reservations, answers, and
\* no idle capacity.
THEOREM CallersServed == ASSUME SoleCancel PROVE Spec => []CoordinatorInv
BY Typed, HoldersKeep, NoneForgotten, NeverIdle, PTL DEF CoordinatorInv

-----------------------------------------------------------------------------
(* The settings store.                                                     *)

\* SettingsInv is not inductive: what replaces the file is the temporary file,
\* which holds the copied value once it is filled.
SettingsIInv ==
  /\ made \in Nat /\ made <= MaxSettings
  /\ value \in 0..made /\ copied \in 0..value
  /\ file = Absent \/ file \in 0..value
  /\ keeper \in {"asleep", "quiet", "copy", "create", "fill", "swap"}
  /\ keeper = "swap" => tempFile = copied

LEMMA SettingsStart == SettingsInit => SettingsIInv
  BY SettingsAssumption DEF SettingsInit, SettingsIInv

\* One step per action; the file changes in SwapFile only, the value goes back
\* in ExitAndLoad only, to what the file has.
LEMMA SettingsStep ==
  ASSUME SettingsIInv, [SettingsNext]_settingsVars
  PROVE  SettingsIInv'
<1>. USE SettingsAssumption DEF SettingsIInv, OnDisk
<1>1. CASE Replace
  BY <1>1 DEF Replace
<1>2. CASE Schedule
  BY <1>2 DEF Schedule
<1>3. CASE TakeWakeUp
  BY <1>3 DEF TakeWakeUp
<1>4. CASE QuietLongEnough
  BY <1>4 DEF QuietLongEnough
<1>5. CASE CopyValue
  BY <1>5 DEF CopyValue
<1>6. CASE CreateTemp
  BY <1>6 DEF CreateTemp
<1>7. CASE FillTemp
  BY <1>7 DEF FillTemp
<1>8. CASE SwapFile
  BY <1>8 DEF SwapFile
<1>9. CASE WriteFails
  BY <1>9 DEF WriteFails
<1>10. CASE ExitAndLoad
  BY <1>10 DEF ExitAndLoad
<1>11. CASE UNCHANGED settingsVars
  BY <1>11 DEF settingsVars
<1>. QED
  BY <1>1, <1>2, <1>3, <1>4, <1>5, <1>6, <1>7, <1>8, <1>9, <1>10, <1>11
     DEF SettingsNext, Keeper

\* However often the program ends, between whichever two steps of a write, the
\* settings file is absent or holds a value that was whole and current once,
\* and none newer than the one in memory (write_json_atomic, load).
THEOREM SettingsWhole == SettingsSpec => []SettingsInv
<1>1. SettingsInit => SettingsIInv
  BY SettingsStart
<1>2. SettingsIInv /\ [SettingsNext]_settingsVars => SettingsIInv'
  BY SettingsStep
<1>3. SettingsIInv => SettingsInv
  BY DEF SettingsIInv, SettingsInv
<1>. QED  BY <1>1, <1>2, <1>3, PTL DEF SettingsSpec

-----------------------------------------------------------------------------
(* The IPC executor.                                                       *)

\* RequestHeld is not inductive: a worker that is about to take a message has
\* nothing else in its hands, and once the queue was drained nothing comes in.
AtWork == {"received", "admission", "working"}
Queues(r) == \E i \in DOMAIN execQueue : execQueue[i] = r
Hands(r) == \E w \in ExecWorkers : job[w] = r /\ exec[w] \in AtWork

WaitingHeld ==
  \A r \in Requests : asker[r] = "waiting" =>
    (Queues(r) /\ shutter \in {"no", "drain"}) \/ Hands(r)

AtWorkOnRequest ==
  \A w \in ExecWorkers : exec[w] \in AtWork => job[w] \in Requests

ExecIInv ==
  /\ ExecTypeOK /\ WaitingHeld /\ AtWorkOnRequest
  /\ shutter # "no" => down

\* What stays in a queue when its head is taken.
LEMMA TailKeeps ==
  ASSUME NEW S, NEW q \in Seq(S), q # <<>>, NEW i \in DOMAIN q, q[i] # Head(q)
  PROVE  \E k \in DOMAIN Tail(q) : Tail(q)[k] = q[i]
<1>1. i \in 1..Len(q) /\ i # 1
  OBVIOUS
<1>2. Len(Tail(q)) = Len(q) - 1 /\ i - 1 \in 1..(Len(q) - 1)
  BY <1>1
<1>3. Tail(q)[i - 1] = q[i] /\ i - 1 \in DOMAIN Tail(q)
  BY <1>1, <1>2
<1>. QED  BY <1>3

LEMMA ExecStart == ExecInit => ExecIInv
<1>. SUFFICES ASSUME ExecInit PROVE ExecIInv
  OBVIOUS
<1>1. ExecTypeOK
  <2>1. execQueue \in Seq(Requests) /\ Len(execQueue) = 0
    BY DEF ExecInit
  <2>2. Len(execQueue) <= ExecQueueCap
    BY <2>1, ExecAssumption
  <2>. QED  BY <2>1, <2>2 DEF ExecInit, ExecTypeOK
<1>2. WaitingHeld /\ AtWorkOnRequest
  BY DEF ExecInit, WaitingHeld, AtWorkOnRequest, AtWork
<1>. QED  BY <1>1, <1>2 DEF ExecInit, ExecIInv

\* The types, action by action: what the queue loses or gains, and what a
\* caller is told.
LEMMA ExecTypeStep ==
  ASSUME ExecTypeOK, AtWorkOnRequest, ExecNext
  PROVE  ExecTypeOK'
<1>. USE DEF ExecTypeOK
<1>1. ASSUME execQueue # <<>>
      PROVE  /\ Head(execQueue) \in Requests
             /\ Tail(execQueue) \in Seq(Requests)
             /\ Len(Tail(execQueue)) <= ExecQueueCap
  BY <1>1, ExecAssumption
<1>2. ASSUME NEW r \in Requests, NEW a \in Answers, Told(r, a)
      PROVE  asker' \in [Requests -> {"none", "waiting"} \cup Refusals \cup Answers]
  BY <1>2 DEF Told
<1>3. ASSUME NEW r \in Requests, SendRequest(r)
      PROVE  ExecTypeOK'
  <2>1. Len(execQueue) < ExecQueueCap =>
          /\ Append(execQueue, r) \in Seq(Requests)
          /\ Len(Append(execQueue, r)) <= ExecQueueCap
    BY ExecAssumption
  <2>2. asker' \in [Requests -> {"none", "waiting"} \cup Refusals \cup Answers]
    BY <1>3 DEF SendRequest, Refusals
  <2>3. \/ UNCHANGED execQueue
        \/ Len(execQueue) < ExecQueueCap /\ execQueue' = Append(execQueue, r)
    <3>1. Len(execQueue) \in Nat /\ ExecQueueCap \in Nat
      BY ExecAssumption
    <3>2. Len(execQueue) >= ExecQueueCap \/ Len(execQueue) < ExecQueueCap
      BY <3>1
    <3>. QED  BY <1>3, <3>2 DEF SendRequest
  <2>4. execQueue' \in Seq(Requests) /\ Len(execQueue') <= ExecQueueCap
    BY <2>1, <2>3
  <2>. QED  BY <1>3, <2>2, <2>4 DEF SendRequest
<1>4. ASSUME NEW r \in Requests, Deadline(r) \/ CancelRequest(r)
      PROVE  ExecTypeOK'
  BY <1>4 DEF Deadline, CancelRequest, Answers
<1>5. CASE BeginShutdown \/ Drain \/ Join
  BY <1>1, <1>2, <1>5 DEF BeginShutdown, Drain, Join, Answers
<1>6. ASSUME NEW w \in ExecWorkers, Top(w) \/ TakeRequest(w)
      PROVE  ExecTypeOK'
  BY <1>1, <1>6 DEF Top, TakeRequest, ExecGoes
<1>7. ASSUME NEW w \in ExecWorkers, Received(w) \/ Admission(w) \/ WorkRequest(w)
      PROVE  ExecTypeOK'
  <2>1. job[w] \in Requests
    BY <1>7 DEF Received, Admission, WorkRequest, ExecGoes, AtWorkOnRequest, AtWork
  <2>2. asker' \in [Requests -> {"none", "waiting"} \cup Refusals \cup Answers]
    BY <1>2, <1>7, <2>1 DEF Received, Admission, WorkRequest, Answers
  <2>. QED
    BY <1>7, <2>1, <2>2 DEF Received, Admission, WorkRequest, ExecGoes
<1>. QED
  BY <1>3, <1>4, <1>5, <1>6, <1>7 DEF ExecNext, WorkerStep

\* A worker that lets its request go has told the caller.
LEMMA ToldAndDone ==
  ASSUME ExecIInv, NEW w \in ExecWorkers, NEW a \in Answers, NEW to \in {"top", "exited"},
         exec[w] \in AtWork, exec' = [exec EXCEPT ![w] = to],
         job' = [job EXCEPT ![w] = Idle], Told(job[w], a),
         UNCHANGED <<execQueue, shutter>>
  PROVE  WaitingHeld' /\ AtWorkOnRequest'
<1>1. job[w] \in Requests
  BY DEF ExecIInv, AtWorkOnRequest
<1>2. ASSUME NEW r \in Requests, asker'[r] = "waiting"
      PROVE  r # job[w] /\ asker[r] = "waiting"
  BY <1>1, <1>2 DEF Told, ExecIInv, ExecTypeOK, Answers
<1>3. ASSUME NEW r \in Requests, r # job[w], Hands(r)
      PROVE  Hands(r)'
  BY <1>3 DEF Hands, ExecIInv, ExecTypeOK
<1>4. AtWorkOnRequest'
  BY DEF AtWorkOnRequest, ExecIInv, ExecTypeOK, AtWork
<1>. QED  BY <1>2, <1>3, <1>4 DEF WaitingHeld, Queues, ExecIInv

\* Nothing else lets go of a request.
LEMMA WaitingHeldStep ==
  ASSUME ExecIInv, ExecNext
  PROVE  WaitingHeld' /\ AtWorkOnRequest'
<1>. USE DEF ExecIInv
<1>1. ASSUME NEW r \in Requests, SendRequest(r)
      PROVE  WaitingHeld' /\ AtWorkOnRequest'
  <2>1. AtWorkOnRequest' /\ \A q \in Requests : Hands(q)' <=> Hands(q)
    BY <1>1 DEF SendRequest, AtWorkOnRequest, Hands
  <2>2. CASE UNCHANGED execQueue /\ asker'[r] # "waiting"
    BY <1>1, <2>1, <2>2 DEF SendRequest, WaitingHeld, Queues, ExecTypeOK
  <2>3. CASE ~down /\ execQueue' = Append(execQueue, r)
    <3>1. Queues(r)' /\ \A q \in Requests : Queues(q) => Queues(q)'
      BY <2>3 DEF Queues, ExecTypeOK
    <3>2. shutter = "no" /\ shutter' = shutter
      BY <1>1, <2>3 DEF SendRequest, ExecTypeOK
    <3>. QED  BY <1>1, <2>1, <3>1, <3>2 DEF SendRequest, WaitingHeld, ExecTypeOK
  <2>. QED  BY <1>1, <2>2, <2>3 DEF SendRequest, ExecTypeOK
<1>2. ASSUME NEW r \in Requests, Deadline(r) \/ CancelRequest(r)
      PROVE  WaitingHeld' /\ AtWorkOnRequest'
  BY <1>2 DEF Deadline, CancelRequest, WaitingHeld, AtWorkOnRequest, Queues, Hands, ExecTypeOK
<1>3. CASE BeginShutdown \/ Join
  BY <1>3 DEF BeginShutdown, Join, WaitingHeld, AtWorkOnRequest, Queues, Hands, ExecTypeOK
<1>4. CASE Drain
  <2>1. AtWorkOnRequest' /\ \A q \in Requests : Hands(q)' <=> Hands(q)
    BY <1>4 DEF Drain, AtWorkOnRequest, Hands
  <2>2. CASE execQueue = <<>>
    BY <1>4, <2>1, <2>2 DEF Drain, WaitingHeld, Queues
  <2>3. CASE execQueue # <<>>
    <3>1. ASSUME NEW q \in Requests, Queues(q), q # Head(execQueue)
          PROVE  Queues(q)'
      BY <1>4, <2>3, <3>1, TailKeeps DEF Drain, Queues, ExecTypeOK
    <3>2. ASSUME NEW q \in Requests, asker'[q] = "waiting"
          PROVE  asker[q] = "waiting" /\ q # Head(execQueue)
      BY <1>4, <2>3, <3>2 DEF Drain, Told, ExecTypeOK
    <3>. QED  BY <1>4, <2>1, <2>3, <3>1, <3>2 DEF Drain, WaitingHeld
  <2>. QED  BY <2>2, <2>3
<1>5. ASSUME NEW w \in ExecWorkers, Top(w)
      PROVE  WaitingHeld' /\ AtWorkOnRequest'
  <2>1. AtWorkOnRequest' /\ \A q \in Requests : Hands(q)' <=> Hands(q)
    BY <1>5 DEF Top, ExecGoes, AtWorkOnRequest, Hands, AtWork, ExecTypeOK
  <2>. QED  BY <1>5, <2>1 DEF Top, WaitingHeld, Queues
<1>6. ASSUME NEW w \in ExecWorkers, TakeRequest(w)
      PROVE  WaitingHeld' /\ AtWorkOnRequest'
  <2>1. CASE ExecGoes(w, "receive", "top") /\ UNCHANGED <<execQueue, asker, shutter, job>>
    <3>1. AtWorkOnRequest' /\ \A q \in Requests : Hands(q)' <=> Hands(q)
      BY <2>1 DEF ExecGoes, AtWorkOnRequest, Hands, AtWork, ExecTypeOK
    <3>. QED  BY <2>1, <3>1 DEF WaitingHeld, Queues
  <2>2. CASE execQueue # <<>> /\ job' = [job EXCEPT ![w] = Head(execQueue)]
    <3>1. /\ exec[w] = "receive" /\ exec' = [exec EXCEPT ![w] = "received"]
          /\ execQueue' = Tail(execQueue) /\ UNCHANGED <<asker, shutter>>
      BY <1>6, <2>2 DEF TakeRequest, ExecGoes
    <3>2. Head(execQueue) \in Requests
      BY <2>2 DEF ExecTypeOK
    <3>3. AtWorkOnRequest'
      BY <2>2, <3>1, <3>2 DEF AtWorkOnRequest, ExecTypeOK
    <3>4. ASSUME NEW q \in Requests, Hands(q) \/ q = Head(execQueue)
          PROVE  Hands(q)'
      <4>1. CASE q = Head(execQueue)
        <5>1. job'[w] = q /\ exec'[w] = "received"
          BY <2>2, <3>1, <4>1 DEF ExecTypeOK
        <5>. QED  BY <5>1 DEF Hands, AtWork
      <4>2. CASE Hands(q)
        <5>1. PICK v \in ExecWorkers : job[v] = q /\ exec[v] \in AtWork
          BY <4>2 DEF Hands
        <5>2. v # w
          BY <3>1, <5>1 DEF AtWork
        <5>3. job'[v] = q /\ exec'[v] \in AtWork
          BY <2>2, <3>1, <5>1, <5>2 DEF ExecTypeOK
        <5>. QED  BY <5>3 DEF Hands
      <4>. QED  BY <3>4, <4>1, <4>2
    <3>5. ASSUME NEW q \in Requests, Queues(q), q # Head(execQueue)
          PROVE  Queues(q)'
      BY <2>2, <3>1, <3>5, TailKeeps DEF Queues, ExecTypeOK
    <3>6. ASSUME NEW q \in Requests, asker'[q] = "waiting"
          PROVE  (Queues(q)' /\ shutter' \in {"no", "drain"}) \/ Hands(q)'
      BY <3>1, <3>4, <3>5, <3>6 DEF WaitingHeld
    <3>. QED  BY <3>3, <3>6 DEF WaitingHeld
  <2>. QED  BY <1>6, <2>1, <2>2 DEF TakeRequest
<1>7. ASSUME NEW w \in ExecWorkers, exec[w] \in AtWork, NEW to \in AtWork,
             exec' = [exec EXCEPT ![w] = to], UNCHANGED <<job, asker, execQueue, shutter>>
      PROVE  WaitingHeld' /\ AtWorkOnRequest'
  BY <1>7 DEF WaitingHeld, AtWorkOnRequest, Queues, Hands, ExecTypeOK
<1>8. ASSUME NEW w \in ExecWorkers, Received(w)
      PROVE  WaitingHeld' /\ AtWorkOnRequest'
  BY <1>7, <1>8, ToldAndDone DEF Received, ExecGoes, AtWork, Answers
<1>9. ASSUME NEW w \in ExecWorkers, Admission(w)
      PROVE  WaitingHeld' /\ AtWorkOnRequest'
  BY <1>7, <1>9, ToldAndDone DEF Admission, ExecGoes, AtWork, Answers
<1>10. ASSUME NEW w \in ExecWorkers, WorkRequest(w)
       PROVE  WaitingHeld' /\ AtWorkOnRequest'
  BY <1>10, ToldAndDone DEF WorkRequest, ExecGoes, AtWork, Answers
<1>. QED
  BY <1>1, <1>2, <1>3, <1>4, <1>5, <1>6, <1>8, <1>9, <1>10 DEF ExecNext, WorkerStep

LEMMA ExecStep ==
  ASSUME ExecIInv, [ExecNext]_execVars
  PROVE  ExecIInv'
<1>1. CASE ExecNext
  <2>1. ExecTypeOK' /\ WaitingHeld' /\ AtWorkOnRequest'
    BY <1>1, ExecTypeStep, WaitingHeldStep DEF ExecIInv
  <2>2. (shutter # "no" => down)'
    BY <1>1 DEF ExecIInv, ExecNext, SendRequest, Deadline, CancelRequest, BeginShutdown,
           Drain, Join, WorkerStep, Top, TakeRequest, Received, Admission, WorkRequest
  <2>. QED  BY <2>1, <2>2 DEF ExecIInv
<1>2. CASE UNCHANGED execVars
  BY <1>2 DEF execVars, ExecIInv, ExecTypeOK, WaitingHeld, AtWorkOnRequest, Queues, Hands
<1>. QED  BY <1>1, <1>2

\* Whatever the number of callers and workers, and wherever a shutdown meets
\* them, a caller that still waits has its request in the queue or in the hands
\* of a worker that will answer it (latency_cancellable_with_deadline, the
\* worker's loop, shutdown).
THEOREM WaitingIsHeld == ExecSpec => []ExecInv
<1>1. ExecIInv /\ [ExecNext]_execVars => ExecIInv'
  BY ExecStep
<1>2. ExecIInv => ExecInv
  BY DEF ExecIInv, ExecInv, RequestHeld, WaitingHeld, Queues, Hands, AtWork
<1>. QED  BY ExecStart, <1>1, <1>2, PTL DEF ExecSpec

-----------------------------------------------------------------------------
(* Trash: types.                                                           *)

TrashSpots    == FilePaths \cup TrashNames \cup {Lost}
TrashOrigins  == FilePaths \cup {Nowhere}
TrashEntries  == [from : FilePaths, item : Items, stay : Nat, sure : BOOLEAN]
TrashIndexes  == [TrashNames -> TrashEntries \cup {NoEntry}]
TrashFindings == [name : TrashNames, entry : TrashEntries]
TrashFacts    == UNION {[S -> Items] : S \in SUBSET FilePaths}

TrashCommands ==
  [step : {"no", "survey", "before", "look", "work", "load", "listed", "write",
           "rename", "done"},
   kind : {"none", "move", "list", "restore", "empty", "purge"},
   key : FilePaths \cup {Nowhere, "trash"},
   list : Seq(FilePaths \cup TrashNames), did : SUBSET TrashNames,
   facts : TrashFacts, before : SUBSET TrashNames,
   moved : Seq([path : FilePaths, item : Items]), found : SUBSET TrashFindings,
   read : TrashIndexes, txn : TrashIndexes, back : [TrashNames -> TrashOrigins]]

\* Two items are nowhere at the same place.
NoTwoAtOnePlace ==
  \A i, j \in Items : place[i] = place[j] /\ place[i] # Lost => i = j

PlacesTypeOK ==
  /\ place \in [Items -> TrashSpots] /\ NoTwoAtOnePlace
  /\ putBack \in [TrashNames -> TrashOrigins]
  /\ from \in [Items -> TrashOrigins] /\ stays \in [Items -> Nat]
  /\ astray \subseteq Items

TrashTypeOK ==
  /\ PlacesTypeOK
  /\ manifest \in TrashIndexes /\ temp \in Seq(TrashIndexes)
  /\ tcall \in [TrashCalls -> TrashCommands]
  /\ recorded \subseteq [item : Items, stay : Nat] /\ excused \subseteq TrashNames

-----------------------------------------------------------------------------
(* Trash: what a move of the files cannot take back.                       *)

\* An entry e under the name n is about a stay that was; if the item is still
\* in the Trash for that stay, it is there under n; if the entry was matched by
\* identity, its origin is the one of that stay.
Fits(e, n) ==
  e # NoEntry =>
    /\ e.stay <= stays[e.item]
    /\ e.stay = stays[e.item] /\ place[e.item] \in TrashNames => place[e.item] = n
    /\ e.sure /\ e.item \notin astray /\ e.stay = stays[e.item] => e.from = from[e.item]

\* An item surveyed at a path was trashed from there, if it is in the Trash.
Surveyed(i, p) ==
  i \in astray \/ place[i] \in {p, Lost} \/ (place[i] \in TrashNames /\ from[i] = p)

\* What every move of the files keeps; "left" are the names it takes away.
Settles(left) ==
  /\ PlacesTypeOK'
  /\ \A e \in TrashEntries, n \in TrashNames : Fits(e, n) => Fits(e, n)'
  /\ \A i \in Items, p \in FilePaths : Surveyed(i, p) => Surveyed(i, p)'
  /\ \A i \in Items : stays[i] <= stays'[i]
  /\ \A i \in Items : place'[i] \in TrashNames /\ stays'[i] = stays[i] =>
       place'[i] = place[i] /\ place'[i] \notin left
  /\ \A e \in TrashEntries, n \in TrashNames \ left : About(e, n) => About(e, n)'

LEMMA PlacesApart ==
  /\ \A p \in FilePaths : p # Lost /\ p # Nowhere /\ p \notin TrashNames
  /\ \A n \in TrashNames : n # Lost /\ n # Nowhere /\ n \notin FilePaths
  BY TrashAssumption

LEMMA EntryNotNone == NoEntry \notin TrashEntries
<1>1. NoEntry.item = Nowhere
  BY DEF NoEntry
<1>2. \A e \in TrashEntries : e.item \in Items
  BY DEF TrashEntries
<1> QED
  BY <1>1, <1>2, TrashAssumption

\* Who is at a place that is not vacant.
LEMMA HolderIs ==
  ASSUME NEW where, ~Vacant(where)
  PROVE  Holder(where) \in Items /\ place[Holder(where)] = where
<1>1. \E i \in Items : place[i] = where
  BY DEF Vacant
<1> QED
  BY <1>1 DEF Holder

LEMMA SettlesOutside ==
  ASSUME PlacesTypeOK, Outside
  PROVE  Settles({})
<1>1. place' = place /\ putBack' = putBack /\ from' = from /\ stays' = stays /\ astray' = astray
  BY DEF Outside
<1> QED
  BY <1>1 DEF Settles, PlacesTypeOK, NoTwoAtOnePlace, Fits, Surveyed, About

\* An item at a path goes into the home Trash.
LEMMA SettlesBin ==
  ASSUME PlacesTypeOK, NEW i \in Items, NEW p \in FilePaths, place[i] = p,
         NEW n \in TrashNames, Vacant(n), Bin(i, p, n),
         putBack' \in [TrashNames -> TrashOrigins]
  PROVE  Settles({})
<1> USE DEF TrashOrigins, TrashSpots
<1>1. /\ place' = [place EXCEPT ![i] = n] /\ from' = [from EXCEPT ![i] = p]
      /\ stays' = [stays EXCEPT ![i] = stays[i] + 1] /\ astray' = astray
  BY DEF Bin
<1>2. PlacesTypeOK'
  <2>1. NoTwoAtOnePlace'
    BY <1>1, PlacesApart DEF NoTwoAtOnePlace, PlacesTypeOK, Vacant
  <2> QED
    BY <1>1, <2>1 DEF PlacesTypeOK
<1>3. ASSUME NEW e \in TrashEntries, NEW m \in TrashNames, Fits(e, m)
      PROVE  Fits(e, m)'
  <2>1. e.item \in Items /\ e.stay \in Nat
    BY DEF TrashEntries
  <2>2. CASE e.item = i
    <3>1. e.stay <= stays[i] /\ stays'[i] = stays[i] + 1 /\ stays[i] \in Nat
      BY <1>1, <1>3, <2>2, EntryNotNone DEF Fits, PlacesTypeOK
    <3> QED
      BY <2>1, <2>2, <3>1 DEF Fits
  <2>3. CASE e.item # i
    BY <1>1, <1>3, <2>1, <2>3 DEF Fits, PlacesTypeOK
  <2> QED
    BY <2>2, <2>3
<1>4. ASSUME NEW j \in Items, NEW q \in FilePaths, Surveyed(j, q)
      PROVE  Surveyed(j, q)'
  BY <1>1, <1>4, PlacesApart DEF Surveyed, PlacesTypeOK
<1>5. \A j \in Items : stays[j] <= stays'[j]
  BY <1>1 DEF PlacesTypeOK
<1>6. \A j \in Items : place'[j] \in TrashNames /\ stays'[j] = stays[j] => place'[j] = place[j]
  BY <1>1 DEF PlacesTypeOK
<1>7. ASSUME NEW e \in TrashEntries, NEW m \in TrashNames, About(e, m)
      PROVE  About(e, m)'
  <2>1. e.item \in Items /\ e.item # i
    BY <1>7, PlacesApart DEF About, TrashEntries
  <2> QED
    BY <1>1, <1>7, <2>1 DEF About, PlacesTypeOK
<1> QED
  BY <1>2, <1>3, <1>4, <1>5, <1>6, <1>7 DEF Settles

\* An item at a path goes into the Trash of its own volume.
LEMMA SettlesFar ==
  ASSUME PlacesTypeOK, NEW i \in Items, place[i] \in FilePaths,
         place' = [place EXCEPT ![i] = Lost], UNCHANGED <<putBack, from, stays, astray>>
  PROVE  Settles({})
<1>1. putBack' = putBack /\ from' = from /\ stays' = stays /\ astray' = astray
  OBVIOUS
<1>2. PlacesTypeOK'
  <2>1. NoTwoAtOnePlace'
    BY <1>1 DEF NoTwoAtOnePlace, PlacesTypeOK
  <2> QED
    BY <1>1, <2>1 DEF PlacesTypeOK, TrashSpots
<1>3. ASSUME NEW e \in TrashEntries, NEW m \in TrashNames, Fits(e, m)
      PROVE  Fits(e, m)'
  <2>1. e.item \in Items
    BY DEF TrashEntries
  <2> QED
    BY <1>1, <1>3, <2>1, PlacesApart, TrashAssumption DEF Fits, PlacesTypeOK
<1>4. ASSUME NEW j \in Items, NEW q \in FilePaths, Surveyed(j, q)
      PROVE  Surveyed(j, q)'
  BY <1>1, <1>4, PlacesApart DEF Surveyed, PlacesTypeOK
<1>6. \A j \in Items : place'[j] \in TrashNames => place'[j] = place[j]
  BY TrashAssumption DEF PlacesTypeOK
<1>7. ASSUME NEW e \in TrashEntries, NEW m \in TrashNames, About(e, m)
      PROVE  About(e, m)'
  <2>1. e.item \in Items /\ e.item # i
    BY <1>7, PlacesApart DEF About, TrashEntries
  <2> QED
    BY <1>1, <1>7, <2>1 DEF About, PlacesTypeOK
<1>5. \A j \in Items : stays[j] <= stays'[j]
  BY <1>1 DEF PlacesTypeOK
<1> QED
  BY <1>2, <1>3, <1>4, <1>5, <1>6, <1>7 DEF Settles

\* An item leaves the home Trash: for good, for the path it came from, or for
\* another, and is astray then.
LEMMA SettlesTakeOut ==
  ASSUME PlacesTypeOK, NEW n \in TrashNames, ~Vacant(n), NEW where,
         where = Lost \/ (where \in FilePaths /\ Vacant(where)), TakeOut(n, where),
         astray' \in {astray, astray \cup {Holder(n)}},
         where = Lost \/ where = from[Holder(n)] \/ Holder(n) \in astray'
  PROVE  Settles({n})
<1> PICK i : i = Holder(n)
  OBVIOUS
<1>0. i \in Items /\ place[i] = n
  BY HolderIs
<1>1. /\ place' = [place EXCEPT ![i] = where] /\ putBack' = [putBack EXCEPT ![n] = Nowhere]
      /\ from' = from /\ stays' = stays /\ astray' \in {astray, astray \cup {i}}
      /\ (where = Lost \/ where = from[i] \/ i \in astray')
  BY DEF TakeOut
<1>2. PlacesTypeOK'
  <2>1. NoTwoAtOnePlace'
    BY <1>0, <1>1 DEF NoTwoAtOnePlace, PlacesTypeOK, Vacant
  <2> QED
    BY <1>0, <1>1, <2>1 DEF PlacesTypeOK, TrashSpots, TrashOrigins
<1>3. ASSUME NEW e \in TrashEntries, NEW m \in TrashNames, Fits(e, m)
      PROVE  Fits(e, m)'
  <2>1. e.item \in Items
    BY DEF TrashEntries
  <2>2. where \notin TrashNames
    BY PlacesApart
  <2> QED
    BY <1>0, <1>1, <1>3, <2>1, <2>2 DEF Fits, PlacesTypeOK
<1>4. ASSUME NEW j \in Items, NEW q \in FilePaths, Surveyed(j, q)
      PROVE  Surveyed(j, q)'
  <2>1. CASE j = i
    <3>1. i \in astray \/ from[i] = q
      BY <1>0, <1>4, <2>1, PlacesApart DEF Surveyed
    <3>2. i \in astray' \/ where = q \/ where = Lost
      BY <1>1, <3>1
    <3>3. place'[i] = where
      BY <1>0, <1>1 DEF PlacesTypeOK
    <3> QED
      BY <2>1, <3>2, <3>3 DEF Surveyed
  <2>2. CASE j # i
    BY <1>1, <1>4, <2>2 DEF Surveyed, PlacesTypeOK
  <2> QED
    BY <2>1, <2>2
<1>5. \A j \in Items : stays[j] <= stays'[j]
  BY <1>1 DEF PlacesTypeOK
<1>6. \A j \in Items : place'[j] \in TrashNames => place'[j] = place[j] /\ place'[j] # n
  BY <1>0, <1>1, PlacesApart DEF PlacesTypeOK, NoTwoAtOnePlace
<1>7. ASSUME NEW e \in TrashEntries, NEW m \in TrashNames \ {n}, About(e, m)
      PROVE  About(e, m)'
  <2>1. e.item \in Items /\ e.item # i
    BY <1>0, <1>7, PlacesApart DEF About, TrashEntries
  <2> QED
    BY <1>1, <1>7, <2>1 DEF About, PlacesTypeOK
<1> QED
  BY <1>2, <1>3, <1>4, <1>5, <1>6, <1>7 DEF Settles

-----------------------------------------------------------------------------
(* Trash: the invariant.                                                   *)

\* The steps of each kind of command.
InStep(t) ==
  \/ t.kind = "none" /\ t.step = "no"
  \/ t.kind = "move" /\ t.step \in {"survey", "before", "work", "load", "write", "rename", "done"}
  \/ t.kind = "list" /\ t.step \in {"look", "load", "listed", "done"}
  \/ t.kind = "restore" /\ t.step \in {"load", "work", "write", "rename", "done"}
  \/ t.kind = "empty" /\ t.step \in {"look", "load", "work", "write", "rename", "done"}
  \/ t.kind = "purge" /\ t.step \in {"work", "load", "write", "rename", "done"}

\* A deletion works on paths, the others on names.
ListRight(t) ==
  /\ t.kind = "move" => t.list \in Seq(FilePaths)
  /\ t.kind # "move" => t.list \in Seq(TrashNames)

\* Nothing is done before the work, and a deletion or a listing takes nothing out.
DidRight(t) ==
  \/ t.kind \in {"none", "move", "list"} \/ t.step = "look"
  \/ t.step = "load" /\ t.kind # "purge"
  => t.did = {}

\* What was moved had been surveyed, and goes by the facts of the survey.
MovedRight(t) ==
  /\ t.step = "survey" => t.moved = <<>>
  /\ \A k \in DOMAIN t.moved :
       t.moved[k].path \in DOMAIN t.facts /\ t.moved[k].item = t.facts[t.moved[k].path]

\* A transaction differs from what was read in what the command found or did,
\* and what it did has no entry left.
EditsRight(t) ==
  /\ t.kind = "restore" /\ t.step = "work" => \A n \in TrashNames :
       /\ n \in t.did => t.txn[n] = NoEntry
       /\ t.txn[n] # t.read[n] => n \in t.did
  /\ t.step \in {"write", "rename"} => \A n \in TrashNames :
       /\ n \in t.did \/ t.kind = "empty" => t.txn[n] = NoEntry
       /\ t.txn[n] # t.read[n] =>
            \/ n \in t.did \/ t.kind = "empty"
            \/ \E e \in t.found : e.name = n /\ e.entry = t.txn[n]

CommandRight(t) ==
  /\ t \in TrashCommands
  /\ InStep(t) /\ ListRight(t) /\ DidRight(t) /\ MovedRight(t) /\ EditsRight(t)

\* What a command found and is about to write fits the files.
CommandFits(t) ==
  /\ \A n \in TrashNames : Fits(t.txn[n], n)
  /\ \A e \in t.found : Fits(e.entry, e.name)
  /\ t.kind = "move" /\ t.step \in {"before", "work"} =>
       \A p \in DOMAIN t.facts : Surveyed(t.facts[p], p)

\* The command has yet to write that the entry of n has ended.
Watches(t, n) == n \in t.did /\ t.step \notin {"no", "done"}

CommandsRight == \A c \in TrashCalls : CommandRight(tcall[c]) /\ CommandFits(tcall[c])
StoredFits ==
  /\ \A n \in TrashNames : Fits(manifest[n], n)
  /\ \A k \in DOMAIN temp : \A n \in TrashNames : Fits(temp[k][n], n)
RecordsPast == \A r \in recorded : r.stay <= stays[r.item]
EntriesWatched ==
  \A n \in TrashNames \ excused :
    manifest[n] = NoEntry \/ About(manifest[n], n) \/ \E c \in TrashCalls : Watches(tcall[c], n)

TrashIInv ==
  TrashTypeOK /\ CommandsRight /\ StoredFits /\ RecordsPast /\ EntryKept /\ EntriesWatched

\* The invariant says what the runs check.
LEMMA TrashEnough ==
  ASSUME TrashIInv
  PROVE  TrashInv
<1>1. ListedIsTrue
  <2> SUFFICES ASSUME NEW c \in TrashCalls, tcall[c].step = "listed",
                      NEW n \in ToSet(tcall[c].list), NEW e, e = tcall[c].txn[n],
                      e.sure, About(e, n), e.item \notin astray
               PROVE  e.from = from[e.item]
    BY DEF ListedIsTrue
  <2>1. n \in TrashNames
    <3>1. InStep(tcall[c]) /\ ListRight(tcall[c])
      BY DEF TrashIInv, CommandsRight, CommandRight
    <3>2. tcall[c].list \in Seq(TrashNames)
      BY <3>1 DEF InStep, ListRight
    <3>3. \E k \in DOMAIN tcall[c].list : n = tcall[c].list[k]
      BY DEF ToSet
    <3> QED
      BY <3>2, <3>3
  <2>2. Fits(e, n)
    BY <2>1 DEF TrashIInv, CommandsRight, CommandFits
  <2> QED
    BY <2>2 DEF Fits, About
<1>2. EntryEnds
  BY DEF TrashIInv, EntriesWatched, EntryEnds, Watches
<1> QED
  BY <1>1, <1>2 DEF TrashInv, TrashIInv

-----------------------------------------------------------------------------
(* Trash: what the steps have in common.                                   *)

\* A move of the files leaves a command right as it is.
LEMMA StillFits ==
  ASSUME NEW left, Settles(left), NEW t \in TrashCommands, CommandFits(t)
  PROVE  CommandFits(t)'
<1>1. \A n \in TrashNames : Fits(t.txn[n], n)'
  <2> SUFFICES ASSUME NEW n \in TrashNames PROVE Fits(t.txn[n], n)'
    OBVIOUS
  <2>1. t.txn[n] \in TrashEntries \cup {NoEntry} /\ Fits(t.txn[n], n)
    BY DEF TrashCommands, TrashIndexes, CommandFits
  <2>2. CASE t.txn[n] = NoEntry
    BY <2>2 DEF Fits
  <2>3. CASE t.txn[n] \in TrashEntries
    BY <2>1, <2>3 DEF Settles
  <2> QED
    BY <2>1, <2>2, <2>3
<1>2. \A e \in t.found : Fits(e.entry, e.name)'
  <2> SUFFICES ASSUME NEW e \in t.found PROVE Fits(e.entry, e.name)'
    OBVIOUS
  <2>1. e.entry \in TrashEntries /\ e.name \in TrashNames /\ Fits(e.entry, e.name)
    BY DEF TrashCommands, TrashFindings, CommandFits
  <2> QED
    BY <2>1 DEF Settles
<1>3. ASSUME t.kind = "move" /\ t.step \in {"before", "work"}, NEW p \in DOMAIN t.facts
      PROVE  Surveyed(t.facts[p], p)'
  <2>1. t.facts \in TrashFacts
    BY DEF TrashCommands
  <2>2. p \in FilePaths /\ t.facts[p] \in Items
    BY <2>1 DEF TrashFacts
  <2> QED
    BY <1>3, <2>2 DEF CommandFits, Settles
<1> QED
  BY <1>1, <1>2, <1>3 DEF CommandFits

\* An entry of a manifest that fits still does.
LEMMA IndexStillFits ==
  ASSUME NEW left, Settles(left), NEW m \in TrashIndexes, NEW n \in TrashNames,
         Fits(m[n], n)
  PROVE  Fits(m[n], n)'
<1>1. m[n] \in TrashEntries \cup {NoEntry}
  BY DEF TrashIndexes
<1> QED
  BY <1>1 DEF Settles, Fits

\* A step that leaves the manifest: the files settle, the commands stay right,
\* and whoever stops watching a name has excused it or there is no entry.
LEMMA TrashStepKeeps ==
  ASSUME TrashIInv, NEW left \in SUBSET TrashNames, Settles(left),
         tcall' \in [TrashCalls -> TrashCommands],
         \A d \in TrashCalls : CommandRight(tcall'[d]) /\ CommandFits(tcall[d])',
         \A d \in TrashCalls, n \in TrashNames : Watches(tcall[d], n) =>
           Watches(tcall'[d], n) \/ n \in excused' \/ manifest[n] = NoEntry,
         \A n \in left : n \in excused' \/ \E d \in TrashCalls : Watches(tcall'[d], n),
         manifest' = manifest, recorded' = recorded, temp' \in Seq(TrashIndexes),
         \A k \in DOMAIN temp' : \A n \in TrashNames : Fits(temp[k][n], n)',
         excused \subseteq excused', excused' \subseteq TrashNames
  PROVE  TrashIInv'
<1>0. TrashTypeOK
  BY DEF TrashIInv
<1>1. TrashTypeOK'
  BY <1>0 DEF TrashTypeOK, Settles
<1>2. CommandsRight'
  BY DEF CommandsRight
<1>3. StoredFits'
  <2>1. ASSUME NEW n \in TrashNames PROVE Fits(manifest[n], n)'
    <3>1. Fits(manifest[n], n) /\ manifest \in TrashIndexes
      BY <1>0 DEF TrashIInv, StoredFits, TrashTypeOK
    <3>2. PICK m : m = manifest
      OBVIOUS
    <3>3. Fits(m[n], n)'
      BY <3>1, <3>2, IndexStillFits
    <3>4. manifest' = m
      BY <3>2
    <3> QED
      BY <3>3, <3>4 DEF Fits
  <2> QED
    BY <2>1 DEF StoredFits
<1>4. \A r \in recorded : r.item \in Items /\ r.stay \in Nat /\ r.stay <= stays[r.item]
        /\ stays[r.item] \in Nat /\ stays'[r.item] \in Nat /\ stays[r.item] <= stays'[r.item]
  BY <1>0 DEF TrashIInv, RecordsPast, TrashTypeOK, PlacesTypeOK, Settles
<1>5. RecordsPast'
  BY <1>4 DEF RecordsPast
<1>6. EntryKept'
  <2> SUFFICES ASSUME NEW r \in recorded, place'[r.item] \in TrashNames \ excused',
                      stays'[r.item] = r.stay
               PROVE  About(manifest[place[r.item]], place[r.item])'
    BY DEF EntryKept
  <2>1. stays[r.item] = r.stay
    BY <1>4
  <2>2. PICK n \in TrashNames : n = place'[r.item]
    OBVIOUS
  <2>3. place[r.item] = n /\ n \notin left /\ n \notin excused
    BY <1>4, <2>1, <2>2 DEF Settles
  <2>4. About(manifest[n], n)
    BY <2>1, <2>2, <2>3 DEF TrashIInv, EntryKept
  <2>5. PICK e : e = manifest[n]
    OBVIOUS
  <2>6. e \in TrashEntries
    BY <1>0, <2>4, <2>5 DEF About, TrashTypeOK, TrashIndexes
  <2>7. About(e, n)'
    BY <2>3, <2>4, <2>5, <2>6 DEF Settles
  <2> QED
    BY <2>2, <2>5, <2>7 DEF About
<1>7. EntriesWatched'
  <2> SUFFICES ASSUME NEW n \in TrashNames, n \notin excused', manifest[n] # NoEntry
               PROVE  About(manifest[n], n)' \/ \E d \in TrashCalls : Watches(tcall'[d], n)
    BY DEF EntriesWatched, Watches
  <2>1. CASE \E d \in TrashCalls : Watches(tcall[d], n)
    BY <2>1
  <2>2. CASE n \in left
    BY <2>2
  <2>3. CASE About(manifest[n], n) /\ n \notin left
    <3>1. PICK e : e = manifest[n]
      OBVIOUS
    <3>2. e \in TrashEntries
      BY <1>0, <3>1 DEF TrashTypeOK, TrashIndexes
    <3>3. About(e, n)'
      BY <2>3, <3>1, <3>2 DEF Settles
    <3> QED
      BY <3>1, <3>3 DEF About
  <2>4. About(manifest[n], n) \/ \E d \in TrashCalls : Watches(tcall[d], n)
    BY DEF TrashIInv, EntriesWatched
  <2> QED
    BY <2>1, <2>2, <2>3, <2>4
<1> QED
  BY <1>1, <1>2, <1>3, <1>5, <1>6, <1>7 DEF TrashIInv

\* One command goes on, and its temporary file is not touched.
LEMMA CommandStep ==
  ASSUME TrashIInv, NEW left \in SUBSET TrashNames, Settles(left), Sidecar,
         NEW c \in TrashCalls, NEW t, tcall' = [tcall EXCEPT ![c] = t],
         CommandRight(t), CommandFits(t)',
         \A n \in TrashNames : n \in left \/ Watches(tcall[c], n) =>
           Watches(t, n) \/ n \in excused' \/ (n \notin left /\ manifest[n] = NoEntry),
         excused \subseteq excused', excused' \subseteq TrashNames
  PROVE  TrashIInv'
<1>0. TrashTypeOK /\ CommandsRight
  BY DEF TrashIInv
<1>1. tcall \in [TrashCalls -> TrashCommands] /\ t \in TrashCommands
  BY <1>0 DEF TrashTypeOK, CommandRight
<1>2. tcall' \in [TrashCalls -> TrashCommands]
  BY <1>1
<1>3. tcall'[c] = t /\ \A d \in TrashCalls : d # c => tcall'[d] = tcall[d]
  BY <1>1
<1>4. ASSUME NEW d \in TrashCalls PROVE CommandRight(tcall'[d]) /\ CommandFits(tcall[d])'
  <2>1. CASE d = c
    BY <1>3, <2>1 DEF CommandFits
  <2>2. CASE d # c
    <3>1. PICK u : u = tcall[d]
      OBVIOUS
    <3>2. CommandRight(u) /\ CommandFits(u) /\ u \in TrashCommands
      BY <1>0, <1>1, <3>1 DEF CommandsRight
    <3>3. CommandFits(u)'
      BY <3>2, StillFits
    <3>4. tcall'[d] = u
      BY <1>3, <2>2, <3>1
    <3> QED
      BY <3>2, <3>3, <3>4 DEF CommandFits
  <2> QED
    BY <2>1, <2>2
<1>5. \A d \in TrashCalls, n \in TrashNames : Watches(tcall[d], n) =>
        Watches(tcall'[d], n) \/ n \in excused' \/ manifest[n] = NoEntry
  BY <1>3
<1>6. \A n \in left : n \in excused' \/ \E d \in TrashCalls : Watches(tcall'[d], n)
  BY <1>3
<1>7. manifest' = manifest /\ recorded' = recorded /\ temp' = temp
  BY DEF Sidecar
<1>8. temp' \in Seq(TrashIndexes)
  BY <1>0, <1>7 DEF TrashTypeOK
<1>9. ASSUME NEW k \in DOMAIN temp', NEW n \in TrashNames PROVE Fits(temp[k][n], n)'
  <2>1. PICK m : m = temp[k]
    OBVIOUS
  <2>2. m \in TrashIndexes /\ Fits(m[n], n)
    BY <1>0, <1>7, <2>1 DEF TrashTypeOK, TrashIInv, StoredFits
  <2>3. Fits(m[n], n)'
    BY <2>2, IndexStillFits
  <2>4. temp'[k] = m
    BY <1>7, <2>1
  <2> QED
    BY <2>3, <2>4 DEF Fits
<1> QED
  BY <1>2, <1>4, <1>5, <1>6, <1>7, <1>8, <1>9, TrashStepKeeps

-----------------------------------------------------------------------------
(* Trash: the steps of a command.                                          *)

\* What is known of a command before its step.
LEMMA CommandNow ==
  ASSUME TrashIInv, NEW c \in TrashCalls
  PROVE  /\ PlacesTypeOK /\ tcall[c] \in TrashCommands
         /\ CommandRight(tcall[c]) /\ CommandFits(tcall[c])
         /\ manifest \in TrashIndexes /\ excused \subseteq TrashNames
  BY DEF TrashIInv, TrashTypeOK, CommandsRight

\* A step of a command during which no name is emptied.
LEMMA PlainStep ==
  ASSUME TrashIInv, Settles({}), Sidecar,
         NEW c \in TrashCalls, NEW t, tcall' = [tcall EXCEPT ![c] = t],
         CommandRight(t), CommandFits(t)',
         \A n \in TrashNames : Watches(tcall[c], n) =>
           Watches(t, n) \/ n \in excused' \/ manifest[n] = NoEntry,
         excused \subseteq excused', excused' \subseteq TrashNames
  PROVE  TrashIInv'
<1>1. PICK left \in SUBSET TrashNames : left = {}
  OBVIOUS
<1>2. Settles(left)
  BY <1>1
<1>3. \A n \in TrashNames : n \in left \/ Watches(tcall[c], n) =>
           Watches(t, n) \/ n \in excused' \/ (n \notin left /\ manifest[n] = NoEntry)
  BY <1>1
<1> QED
  BY <1>2, <1>3, CommandStep

\* A step of a command that only looks.
LEMMA LookStep ==
  ASSUME TrashIInv, Outside, Sidecar, UNCHANGED excused,
         NEW c \in TrashCalls, NEW t, tcall' = [tcall EXCEPT ![c] = t],
         CommandRight(t), CommandFits(t),
         \A n \in TrashNames : Watches(tcall[c], n) => Watches(t, n)
  PROVE  TrashIInv'
<1>1. PlacesTypeOK /\ excused \subseteq TrashNames
  BY CommandNow
<1>2. Settles({})
  BY <1>1, SettlesOutside
<1>3. CommandFits(t)'
  BY <1>2, StillFits DEF CommandRight
<1> QED
  BY <1>1, <1>2, <1>3, PlainStep

LEMMA WiderSeq ==
  \A s : s = <<>> \/ s \in Seq(FilePaths) \/ s \in Seq(TrashNames) =>
           s \in Seq(FilePaths \cup TrashNames)
<1>1. ASSUME NEW S \in {FilePaths, TrashNames}, NEW s \in Seq(S)
      PROVE  s \in Seq(FilePaths \cup TrashNames)
  <2>1. Len(s) \in Nat /\ s \in [1..Len(s) -> S]
    BY LenProperties
  <2>2. s \in [1..Len(s) -> FilePaths \cup TrashNames]
    BY <2>1
  <2> QED
    BY <2>1, <2>2, SeqDef
<1>2. <<>> \in Seq(FilePaths \cup TrashNames)
  OBVIOUS
<1> QED
  BY <1>1, <1>2

LEMMA UnaskedTyped ==
  /\ Unasked \in TrashCommands
  /\ Unasked.step = "no" /\ Unasked.kind = "none" /\ Unasked.list = <<>> /\ Unasked.did = {}
  /\ Unasked.facts = <<>> /\ Unasked.moved = <<>> /\ Unasked.found = {}
  /\ Unasked.txn = NoEntries /\ Unasked.read = NoEntries
<1>1. NoEntries \in TrashIndexes /\ NoRecords \in [TrashNames -> TrashOrigins]
  BY DEF NoEntries, NoRecords, TrashIndexes, TrashOrigins
<1>2. <<>> \in TrashFacts
  <2>1. <<>> = [p \in {} |-> Nowhere]
    OBVIOUS
  <2>2. <<>> \in [{} -> Items]
    BY <2>1
  <2> QED
    BY <2>2 DEF TrashFacts
<1>3. <<>> \in Seq(FilePaths \cup TrashNames) /\ <<>> \in Seq([path : FilePaths, item : Items])
  OBVIOUS
<1> QED
  BY <1>1, <1>2, <1>3 DEF Unasked, TrashCommands

LEMMA BeginKeeps ==
  ASSUME TrashIInv, NEW c \in TrashCalls, NEW kind, NEW list, Begin(c, kind, list),
         \/ kind = "move" /\ list \in Seq(FilePaths) \ {<<>>}
         \/ kind \in {"restore", "purge"} /\ list \in Seq(TrashNames)
         \/ kind \in {"list", "empty"} /\ list = <<>>
  PROVE  TrashIInv'
<1>1. PICK key : key = IF kind = "move" THEN list[1] ELSE "trash"
  OBVIOUS
<1>2. PICK t : t = [Unasked EXCEPT !.step = FirstStep[kind], !.kind = kind, !.key = key,
                                   !.list = list]
  OBVIOUS
<1>3. /\ tcall' = [tcall EXCEPT ![c] = t] /\ Outside /\ Sidecar /\ UNCHANGED excused
      /\ tcall[c].step = "no"
  BY <1>1, <1>2 DEF Begin
<1>4. key \in FilePaths \cup {Nowhere, "trash"}
  <2>1. ASSUME kind = "move" PROVE list[1] \in FilePaths
    BY <2>1, EmptySeq
  <2> QED
    BY <1>1, <2>1
<1>5. /\ kind = "move" => FirstStep[kind] = "survey"
      /\ kind \in {"list", "empty"} => FirstStep[kind] = "look"
      /\ kind = "restore" => FirstStep[kind] = "load"
      /\ kind = "purge" => FirstStep[kind] = "work"
  BY DEF FirstStep
<1>6. /\ t.kind = kind /\ t.step = FirstStep[kind] /\ t.list = list /\ t.did = {}
      /\ t.facts = <<>> /\ t.moved = <<>> /\ t.found = {} /\ t.txn = NoEntries
      /\ t.read = NoEntries
  BY <1>2, UnaskedTyped DEF TrashCommands
<1>7. list \in Seq(FilePaths \cup TrashNames)
  BY WiderSeq
<1>8. t \in TrashCommands
  BY <1>2, <1>4, <1>5, <1>7, UnaskedTyped DEF TrashCommands
<1>9. CommandRight(t)
  <2>1. InStep(t)
    <3>1. kind \in {"move", "restore", "purge", "list", "empty"}
      OBVIOUS
    <3> QED
      BY <1>5, <1>6, <3>1 DEF InStep
  <2>3. ListRight(t)
    <3>1. <<>> \in Seq(TrashNames)
      OBVIOUS
    <3>2. kind = "move" => list \in Seq(FilePaths)
      OBVIOUS
    <3>3. kind # "move" => list \in Seq(TrashNames)
      BY <3>1
    <3> QED
      BY <1>6, <3>2, <3>3 DEF ListRight
  <2>2. DidRight(t) /\ MovedRight(t) /\ EditsRight(t)
    BY <1>5, <1>6 DEF DidRight, MovedRight, EditsRight
  <2> QED
    BY <1>8, <2>1, <2>2, <2>3 DEF CommandRight
<1>10. CommandFits(t)
  BY <1>5, <1>6 DEF CommandFits, NoEntries, Fits
<1>11. \A n \in TrashNames : Watches(tcall[c], n) => Watches(t, n)
  BY <1>3 DEF Watches
<1> QED
  BY <1>3, <1>9, <1>10, <1>11, LookStep

\* An error ends a command: what it had done is excused.
LEMMA GiveUpKeeps ==
  ASSUME TrashIInv, NEW c \in TrashCalls, GiveUp(c), tcall[c].kind # "none"
  PROVE  TrashIInv'
<1>1. PICK t : t = [tcall[c] EXCEPT !.step = "done"]
  OBVIOUS
<1>2. /\ tcall' = [tcall EXCEPT ![c] = t] /\ Outside /\ Sidecar
      /\ excused' = excused \cup tcall[c].did
  BY <1>1 DEF GiveUp
<1>3. PICK u \in TrashCommands : u = tcall[c] /\ CommandRight(u) /\ CommandFits(u)
  BY CommandNow
<1>4. /\ t \in TrashCommands /\ t.step = "done" /\ t.kind = u.kind /\ t.list = u.list
      /\ t.did = u.did /\ t.facts = u.facts /\ t.moved = u.moved /\ t.found = u.found
      /\ t.txn = u.txn /\ t.read = u.read
  BY <1>1, <1>3 DEF TrashCommands
<1>5. CommandRight(t)
  <2>1. InStep(t) /\ ListRight(t)
    BY <1>3, <1>4 DEF InStep, ListRight, CommandRight, TrashCommands
  <2>2. DidRight(t) /\ MovedRight(t) /\ EditsRight(t)
    BY <1>3, <1>4 DEF DidRight, MovedRight, EditsRight, CommandRight
  <2> QED
    BY <1>4, <2>1, <2>2 DEF CommandRight
<1>6. CommandFits(t)
  BY <1>3, <1>4 DEF CommandFits
<1>7. PlacesTypeOK /\ excused \subseteq TrashNames /\ tcall[c].did \subseteq TrashNames
  BY CommandNow DEF TrashCommands
<1>8. Settles({})
  BY <1>2, <1>7, SettlesOutside
<1>9. CommandFits(t)'
  BY <1>4, <1>6, <1>8, StillFits
<1>10. \A n \in TrashNames : Watches(tcall[c], n) => n \in excused'
  BY <1>2 DEF Watches
<1>11. excused \subseteq excused' /\ excused' \subseteq TrashNames
  BY <1>2, <1>7
<1> QED
  BY <1>2, <1>5, <1>8, <1>9, <1>10, <1>11, PlainStep

LEMMA SurveyKeeps ==
  ASSUME TrashIInv, NEW c \in TrashCalls, Survey(c)
  PROVE  TrashIInv'
<1>1. PICK f : f = [p \in {p \in ToSet(tcall[c].list) : ~Vacant(p)} |-> Holder(p)]
  OBVIOUS
<1>2. PICK t : t = [tcall[c] EXCEPT !.step = "before", !.facts = f]
  OBVIOUS
<1>3. PICK u \in TrashCommands : u = tcall[c] /\ CommandRight(u) /\ CommandFits(u)
  BY CommandNow
<1>4. /\ tcall' = [tcall EXCEPT ![c] = t] /\ Outside /\ Sidecar /\ UNCHANGED excused
      /\ u.kind = "move" /\ u.step = "survey"
  BY <1>1, <1>2, <1>3 DEF Survey, Does
<1>5. \A p \in DOMAIN f : p \in FilePaths /\ f[p] \in Items /\ place[f[p]] = p
  <2>1. u.list \in Seq(FilePaths)
    BY <1>3, <1>4 DEF CommandRight, ListRight
  <2>2. ToSet(u.list) \subseteq FilePaths
    BY <2>1 DEF ToSet
  <2> QED
    BY <1>1, <1>3, <2>2, HolderIs
<1>6. f \in TrashFacts
  <2>1. PICK S : S = DOMAIN f
    OBVIOUS
  <2>2. f = [p \in S |-> f[p]]
    BY <1>1, <2>1
  <2>3. S \in SUBSET FilePaths /\ f \in [S -> Items]
    BY <1>5, <2>1, <2>2
  <2> QED
    BY <2>3 DEF TrashFacts
<1>7. /\ t \in TrashCommands /\ t.step = "before" /\ t.kind = "move" /\ t.list = u.list
      /\ t.did = u.did /\ t.facts = f /\ t.moved = u.moved /\ t.found = u.found
      /\ t.txn = u.txn /\ t.read = u.read
  BY <1>2, <1>3, <1>4, <1>6 DEF TrashCommands
<1>8. u.moved = <<>>
  BY <1>3, <1>4 DEF CommandRight, MovedRight
<1>9. CommandRight(t)
  <2>1. InStep(t) /\ ListRight(t)
    BY <1>3, <1>4, <1>7 DEF InStep, ListRight, CommandRight
  <2>2. DidRight(t) /\ MovedRight(t) /\ EditsRight(t)
    BY <1>3, <1>4, <1>7, <1>8 DEF DidRight, MovedRight, EditsRight, CommandRight
  <2> QED
    BY <1>7, <2>1, <2>2 DEF CommandRight
<1>10. CommandFits(t)
  BY <1>3, <1>5, <1>7 DEF CommandFits, Surveyed
<1>11. \A n \in TrashNames : Watches(tcall[c], n) => Watches(t, n)
  BY <1>3, <1>4, <1>7 DEF Watches
<1> QED
  BY <1>4, <1>9, <1>10, <1>11, LookStep

LEMMA ReturnKeeps ==
  ASSUME TrashIInv, NEW c \in TrashCalls, Return(c)
  PROVE  TrashIInv'
<1>1. PICK t : t = [tcall[c] EXCEPT !.step = "done"]
  OBVIOUS
<1>2. /\ tcall' = [tcall EXCEPT ![c] = t] /\ Outside /\ Sidecar /\ UNCHANGED excused
      /\ tcall[c].step = "listed"
  BY <1>1 DEF Return
<1>3. PICK u \in TrashCommands : u = tcall[c] /\ CommandRight(u) /\ CommandFits(u)
  BY CommandNow
<1>4. /\ t \in TrashCommands /\ t.step = "done" /\ t.kind = u.kind /\ t.list = u.list
      /\ t.did = u.did /\ t.facts = u.facts /\ t.moved = u.moved /\ t.found = u.found
      /\ t.txn = u.txn /\ t.read = u.read /\ u.step = "listed"
  BY <1>1, <1>2, <1>3 DEF TrashCommands
<1>5. u.kind = "list" /\ u.did = {}
  BY <1>3, <1>4 DEF CommandRight, InStep, DidRight
<1>6. CommandRight(t)
  <2>1. InStep(t) /\ ListRight(t)
    BY <1>3, <1>4, <1>5 DEF InStep, ListRight, CommandRight
  <2>2. DidRight(t) /\ MovedRight(t) /\ EditsRight(t)
    BY <1>3, <1>4 DEF DidRight, MovedRight, EditsRight, CommandRight
  <2> QED
    BY <1>4, <2>1, <2>2 DEF CommandRight
<1>7. CommandFits(t)
  BY <1>3, <1>4 DEF CommandFits
<1>8. \A n \in TrashNames : Watches(tcall[c], n) => Watches(t, n)
  BY <1>3, <1>5 DEF Watches
<1> QED
  BY <1>2, <1>6, <1>7, <1>8, LookStep

LEMMA BeforeKeeps ==
  ASSUME TrashIInv, NEW c \in TrashCalls, Before(c)
  PROVE  TrashIInv'
<1>0. PICK seen \in Looks : tcall' = [tcall EXCEPT ![c].step = "work", ![c].before = seen]
  BY DEF Before
<1>1. PICK t : t = [tcall[c] EXCEPT !.step = "work", !.before = seen]
  OBVIOUS
<1>2. PICK u \in TrashCommands : u = tcall[c] /\ CommandRight(u) /\ CommandFits(u)
  BY CommandNow
<1>3. /\ tcall' = [tcall EXCEPT ![c] = t] /\ Outside /\ Sidecar /\ UNCHANGED excused
      /\ u.kind = "move" /\ u.step = "before"
  BY <1>0, <1>1, <1>2 DEF Before, Does
<1>4. seen \in SUBSET TrashNames
  BY <1>0 DEF Looks, Contents
<1>5. /\ t \in TrashCommands /\ t.step = "work" /\ t.kind = "move" /\ t.list = u.list
      /\ t.did = u.did /\ t.facts = u.facts /\ t.moved = u.moved /\ t.found = u.found
      /\ t.txn = u.txn /\ t.read = u.read
  BY <1>1, <1>2, <1>3, <1>4 DEF TrashCommands
<1>6. CommandRight(t)
  <2>1. InStep(t) /\ ListRight(t)
    BY <1>2, <1>3, <1>5 DEF InStep, ListRight, CommandRight
  <2>2. DidRight(t) /\ MovedRight(t) /\ EditsRight(t)
    BY <1>2, <1>3, <1>5 DEF DidRight, MovedRight, EditsRight, CommandRight
  <2> QED
    BY <1>5, <2>1, <2>2 DEF CommandRight
<1>7. CommandFits(t)
  BY <1>2, <1>3, <1>5 DEF CommandFits
<1>8. \A n \in TrashNames : Watches(tcall[c], n) => Watches(t, n)
  BY <1>2, <1>3, <1>5 DEF Watches
<1> QED
  BY <1>3, <1>6, <1>7, <1>8, LookStep

\* A set of names in some order is a list of names.
LEMMA NamesInOrder ==
  ASSUME NEW S \in SUBSET TrashNames
  PROVE  SetToSeq(S) \in Seq(TrashNames)
<1>1. IsFiniteSet(S)
  BY TrashAssumption, FS_Subset
<1>2. PICK k \in Nat : k = Cardinality(S)
  BY <1>1, FS_CardinalityType
<1>3. ExistsBijection(1..k, S)
  BY <1>1, <1>2, FS_CardinalityType
<1>4. \E f \in [1..k -> S] : \A a, b \in DOMAIN f : f[a] = f[b] => a = b
  BY <1>3 DEF ExistsBijection, Bijection, Injection, IsInjective
<1>5. SetToSeq(S) \in [1..k -> S]
  BY <1>2, <1>4 DEF SetToSeq, IsInjective
<1>7. SetToSeq(S) \in [1..k -> TrashNames]
  BY <1>5
<1> QED
  BY <1>7, SeqDef

LEMMA ReadDirKeeps ==
  ASSUME TrashIInv, NEW c \in TrashCalls, ReadDir(c)
  PROVE  TrashIInv'
<1>1. PICK names : names = SetToSeq(Contents)
  OBVIOUS
<1>2. PICK t : t = [tcall[c] EXCEPT !.step = "load", !.list = names]
  OBVIOUS
<1>3. PICK u \in TrashCommands : u = tcall[c] /\ CommandRight(u) /\ CommandFits(u)
  BY CommandNow
<1>4. /\ tcall' = [tcall EXCEPT ![c] = t] /\ Outside /\ Sidecar /\ UNCHANGED excused
      /\ u.kind \in {"list", "empty"} /\ u.step = "look"
  BY <1>1, <1>2, <1>3 DEF ReadDir, Does
<1>5. names \in Seq(TrashNames) /\ names \in Seq(FilePaths \cup TrashNames)
  <2>1. Contents \in SUBSET TrashNames
    BY DEF Contents
  <2> QED
    BY <1>1, <2>1, NamesInOrder, WiderSeq
<1>6. /\ t \in TrashCommands /\ t.step = "load" /\ t.kind = u.kind /\ t.list = names
      /\ t.did = u.did /\ t.facts = u.facts /\ t.moved = u.moved /\ t.found = u.found
      /\ t.txn = u.txn /\ t.read = u.read
  BY <1>2, <1>3, <1>5 DEF TrashCommands
<1>7. CommandRight(t)
  <2>1. InStep(t)
    BY <1>4, <1>6 DEF InStep
  <2>2. ListRight(t)
    BY <1>4, <1>5, <1>6 DEF ListRight
  <2>3. DidRight(t) /\ MovedRight(t) /\ EditsRight(t)
    BY <1>3, <1>4, <1>6 DEF DidRight, MovedRight, EditsRight, CommandRight
  <2> QED
    BY <1>6, <2>1, <2>2, <2>3 DEF CommandRight
<1>8. CommandFits(t)
  BY <1>3, <1>4, <1>6 DEF CommandFits
<1>9. \A n \in TrashNames : Watches(tcall[c], n) => Watches(t, n)
  BY <1>3, <1>4, <1>6 DEF Watches, CommandRight, DidRight
<1> QED
  BY <1>4, <1>7, <1>8, <1>9, LookStep

\* What a command makes of the manifest as it loads it.
LEMMA EditedFits ==
  ASSUME TrashIInv, NEW c \in TrashCalls, tcall[c].kind # "none"
  PROVE  /\ Edited(c) \in TrashIndexes
         /\ \A n \in TrashNames : Fits(Edited(c)[n], n)
         /\ \A n \in TrashNames : tcall[c].kind = "purge" /\ n \in tcall[c].did =>
              Edited(c)[n] = NoEntry
         /\ \A n \in TrashNames : Edited(c)[n] # manifest[n] =>
              \/ tcall[c].kind = "purge" /\ n \in tcall[c].did
              \/ tcall[c].kind = "move" /\
                   \E e \in tcall[c].found : e.name = n /\ e.entry = Edited(c)[n]
<1>1. PICK u \in TrashCommands : u = tcall[c] /\ CommandRight(u) /\ CommandFits(u)
  BY CommandNow
<1>2. manifest \in TrashIndexes /\ \A n \in TrashNames : Fits(manifest[n], n)
  BY DEF TrashIInv, TrashTypeOK, StoredFits
<1>3. CASE u.kind = "move"
  <2>1. Edited(c) = [n \in TrashNames |-> IF \E e \in u.found : e.name = n
                       THEN (CHOOSE e \in u.found : e.name = n).entry ELSE manifest[n]]
    BY <1>1, <1>3 DEF Edited
  <2>2. ASSUME NEW n \in TrashNames, \E e \in u.found : e.name = n
        PROVE  \E e \in u.found : e.name = n /\ e.entry = Edited(c)[n]
    <3>1. PICK e : e = CHOOSE x \in u.found : x.name = n
      OBVIOUS
    <3>2. e \in u.found /\ e.name = n
      BY <2>2, <3>1
    <3>3. Edited(c)[n] = e.entry
      BY <2>1, <2>2, <3>1
    <3> QED
      BY <3>2, <3>3
  <2>3. \A n \in TrashNames : ~(\E e \in u.found : e.name = n) => Edited(c)[n] = manifest[n]
    BY <2>1
  <2>4. ASSUME NEW n \in TrashNames
        PROVE  Edited(c)[n] \in TrashEntries \cup {NoEntry} /\ Fits(Edited(c)[n], n)
    <3>1. CASE \E e \in u.found : e.name = n
      <4>1. PICK e \in u.found : e.name = n /\ e.entry = Edited(c)[n]
        BY <2>2, <3>1
      <4> QED
        BY <1>1, <4>1 DEF CommandFits, TrashCommands, TrashFindings
    <3>2. CASE ~(\E e \in u.found : e.name = n)
      BY <1>2, <2>3, <3>2 DEF TrashIndexes
    <3> QED
      BY <3>1, <3>2
  <2>5. Edited(c) \in TrashIndexes
    <3>1. PICK m : m = Edited(c)
      OBVIOUS
    <3>2. m = [n \in TrashNames |-> m[n]]
      BY <2>1, <3>1
    <3> QED
      BY <2>4, <3>1, <3>2 DEF TrashIndexes
  <2> QED
    BY <1>1, <1>3, <2>2, <2>3, <2>4, <2>5
<1>4. CASE u.kind = "purge"
  <2>1. Edited(c) = [n \in TrashNames |-> IF n \in u.did THEN NoEntry ELSE manifest[n]]
    BY <1>1, <1>4 DEF Edited
  <2>2. \A n \in TrashNames : Fits(Edited(c)[n], n)
    BY <1>2, <2>1 DEF Fits
  <2> QED
    BY <1>1, <1>2, <1>4, <2>1, <2>2 DEF TrashIndexes
<1>5. CASE u.kind \notin {"move", "purge"}
  <2>1. Edited(c) = manifest
    BY <1>1, <1>5 DEF Edited
  <2> QED
    BY <1>1, <1>2, <1>5, <2>1
<1> QED
  BY <1>3, <1>4, <1>5

LEMMA LoadKeeps ==
  ASSUME TrashIInv, NEW c \in TrashCalls, Load(c)
  PROVE  TrashIInv'
<1>1. PICK txn : txn = Edited(c)
  OBVIOUS
<1>2. PICK step : step = AfterLoad[tcall[c].kind]
  OBVIOUS
<1>3. PICK t : t = [tcall[c] EXCEPT !.step = step, !.read = manifest, !.txn = txn,
                                    !.back = putBack]
  OBVIOUS
<1>4. PICK u \in TrashCommands : u = tcall[c] /\ CommandRight(u) /\ CommandFits(u)
  BY CommandNow
<1>5. /\ tcall' = [tcall EXCEPT ![c] = t] /\ Outside /\ Sidecar /\ UNCHANGED excused
      /\ u.step = "load"
  BY <1>1, <1>2, <1>3, <1>4 DEF Load
<1>6. u.kind \in {"move", "list", "restore", "empty", "purge"}
  BY <1>4, <1>5 DEF CommandRight, InStep
<1>7. /\ u.kind \in {"move", "purge"} => step = "write"
      /\ u.kind \in {"restore", "empty"} => step = "work"
      /\ u.kind = "list" => step = "listed"
  BY <1>2, <1>4, <1>6 DEF AfterLoad
<1>8. /\ txn \in TrashIndexes /\ \A n \in TrashNames : Fits(txn[n], n)
      /\ \A n \in TrashNames : u.kind = "purge" /\ n \in u.did => txn[n] = NoEntry
      /\ \A n \in TrashNames : txn[n] # manifest[n] =>
           \/ u.kind = "purge" /\ n \in u.did
           \/ u.kind = "move" /\ \E e \in u.found : e.name = n /\ e.entry = txn[n]
  BY <1>1, <1>4, <1>6, EditedFits
<1>9. manifest \in TrashIndexes /\ putBack \in [TrashNames -> TrashOrigins]
  BY CommandNow DEF PlacesTypeOK
<1>10. /\ t.step = step /\ t.kind = u.kind /\ t.list = u.list
       /\ t.did = u.did /\ t.facts = u.facts /\ t.moved = u.moved /\ t.found = u.found
       /\ t.txn = txn /\ t.read = manifest
  BY <1>3, <1>4 DEF TrashCommands
<1>11. t \in TrashCommands
  BY <1>3, <1>4, <1>6, <1>7, <1>8, <1>9 DEF TrashCommands
<1>12. CommandRight(t)
  <2>1. InStep(t)
    BY <1>6, <1>7, <1>10 DEF InStep
  <2>2. ListRight(t)
    BY <1>4, <1>10 DEF ListRight, CommandRight
  <2>3. DidRight(t) /\ MovedRight(t)
    BY <1>4, <1>5, <1>6, <1>7, <1>10 DEF DidRight, MovedRight, CommandRight
  <2>4. EditsRight(t)
    <3>1. u.kind # "purge" => u.did = {}
      BY <1>4, <1>5 DEF CommandRight, DidRight
    <3>2. t.kind = "restore" => txn = manifest
      <4>1. ASSUME u.kind = "restore" PROVE txn = manifest
        BY <1>1, <1>4, <4>1 DEF Edited
      <4> QED
        BY <1>10, <4>1
    <3>3. t.step \in {"write", "rename"} => u.kind \in {"move", "purge"}
      BY <1>6, <1>7, <1>10
    <3> QED
      BY <1>8, <1>10, <3>1, <3>2, <3>3 DEF EditsRight
  <2> QED
    BY <1>11, <2>1, <2>2, <2>3, <2>4 DEF CommandRight
<1>13. CommandFits(t)
  BY <1>4, <1>6, <1>7, <1>8, <1>10 DEF CommandFits
<1>14. \A n \in TrashNames : Watches(tcall[c], n) => Watches(t, n)
  BY <1>4, <1>6, <1>7, <1>10 DEF Watches
<1> QED
  BY <1>5, <1>12, <1>13, <1>14, LookStep

\* One name is emptied, and the command watches it from now on.
LEMMA TakesOne ==
  ASSUME TrashIInv, NEW c \in TrashCalls, NEW n \in TrashNames, Settles({n}),
         Sidecar, UNCHANGED excused, NEW t, tcall' = [tcall EXCEPT ![c] = t],
         CommandRight(t), CommandFits(t), Watches(t, n),
         \A m \in TrashNames : Watches(tcall[c], m) => Watches(t, m)
  PROVE  TrashIInv'
<1>1. PICK left \in SUBSET TrashNames : left = {n}
  OBVIOUS
<1>2. Settles(left)
  BY <1>1
<1>3. \A m \in TrashNames : m \in left \/ Watches(tcall[c], m) =>
           Watches(t, m) \/ m \in excused' \/ (m \notin left /\ manifest[m] = NoEntry)
  BY <1>1
<1>4. CommandFits(t)'
  BY <1>2, StillFits DEF CommandRight
<1>5. excused \subseteq excused' /\ excused' \subseteq TrashNames
  BY CommandNow
<1> QED
  BY <1>2, <1>3, <1>4, <1>5, CommandStep

\* The first name of the list of a command at work, and what is left of the list.
LEMMA FirstName ==
  ASSUME NEW S, NEW s \in Seq(S), s # <<>>
  PROVE  Head(s) \in S /\ Tail(s) \in Seq(S)
  OBVIOUS

LEMMA RestoreOneKeeps ==
  ASSUME TrashIInv, NEW c \in TrashCalls, RestoreOne(c)
  PROVE  TrashIInv'
<1>1. PICK u \in TrashCommands : u = tcall[c] /\ CommandRight(u) /\ CommandFits(u)
  BY CommandNow
<1>2. u.kind = "restore" /\ u.step = "work" /\ u.list # <<>>
  BY <1>1 DEF RestoreOne, Does
<1>3. u.list \in Seq(TrashNames)
  BY <1>1, <1>2 DEF CommandRight, ListRight
<1>4. PICK n \in TrashNames : n = Head(u.list)
  BY <1>2, <1>3, FirstName
<1>5. PICK o : o = Origin(tcall[c], n)
  OBVIOUS
<1>6. CASE GiveUp(c)
  BY <1>1, <1>2, <1>6, GiveUpKeeps
<1>7. CASE /\ ~Vacant(n) /\ o # Nowhere /\ Vacant(o) /\ TakeOut(n, o)
           /\ astray' = IF o = from[Holder(n)] THEN astray ELSE astray \cup {Holder(n)}
           /\ tcall' = [tcall EXCEPT ![c].list = Tail(@), ![c].did = @ \cup {n},
                                     ![c].txn[n] = NoEntry]
           /\ Sidecar /\ UNCHANGED excused
  <2>1. PICK rest \in Seq(TrashNames) : rest = Tail(u.list)
    BY <1>2, <1>3, FirstName
  <2>2. PICK txn : txn = [u.txn EXCEPT ![n] = NoEntry]
    OBVIOUS
  <2>3. PICK t : t = [u EXCEPT !.list = rest, !.did = u.did \cup {n}, !.txn = txn]
    OBVIOUS
  <2>4. tcall' = [tcall EXCEPT ![c] = t]
    BY <1>1, <1>7, <2>1, <2>2, <2>3
  <2>5. u.txn \in TrashIndexes /\ txn \in TrashIndexes /\ txn[n] = NoEntry
        /\ \A m \in TrashNames : m # n => txn[m] = u.txn[m]
    BY <2>2 DEF TrashCommands, TrashIndexes
  <2>6. /\ t.step = "work" /\ t.kind = "restore" /\ t.list = rest /\ t.did = u.did \cup {n}
        /\ t.facts = u.facts /\ t.moved = u.moved /\ t.found = u.found
        /\ t.txn = txn /\ t.read = u.read
    BY <1>2, <2>3 DEF TrashCommands
  <2>7. t \in TrashCommands
    <3>1. rest \in Seq(FilePaths \cup TrashNames)
      BY WiderSeq
    <3> QED
      BY <2>3, <2>5, <3>1 DEF TrashCommands
  <2>8. CommandRight(t)
    <3>1. InStep(t) /\ ListRight(t) /\ DidRight(t)
      BY <2>6 DEF InStep, ListRight, DidRight
    <3>2. MovedRight(t)
      BY <1>1, <2>6 DEF MovedRight, CommandRight
    <3>3. EditsRight(t)
      BY <1>1, <1>2, <2>5, <2>6 DEF EditsRight, CommandRight
    <3> QED
      BY <2>7, <3>1, <3>2, <3>3 DEF CommandRight
  <2>9. CommandFits(t)
    <3>1. \A m \in TrashNames : Fits(txn[m], m)
      BY <1>1, <2>5 DEF CommandFits, Fits
    <3> QED
      BY <1>1, <2>6, <3>1 DEF CommandFits
  <2>10. Settles({n})
    <3>1. PlacesTypeOK
      BY CommandNow
    <3>2. o \in FilePaths
      <4>1. putBack \in [TrashNames -> TrashOrigins] /\ u.back \in [TrashNames -> TrashOrigins]
        BY <3>1 DEF PlacesTypeOK, TrashCommands
      <4>2. u.txn[n] \in TrashEntries \cup {NoEntry}
        BY <2>5 DEF TrashIndexes
      <4>3. o = IF u.txn[n] # NoEntry THEN u.txn[n].from ELSE u.back[n]
        BY <1>1, <1>5 DEF Origin
      <4> QED
        BY <1>7, <4>1, <4>2, <4>3 DEF TrashEntries, TrashOrigins
    <3>3. astray' \in {astray, astray \cup {Holder(n)}}
          /\ (o = from[Holder(n)] \/ Holder(n) \in astray')
      BY <1>7
    <3> QED
      BY <1>7, <3>1, <3>2, <3>3, SettlesTakeOut
  <2>11. Watches(t, n) /\ \A m \in TrashNames : Watches(tcall[c], m) => Watches(t, m)
    BY <1>1, <2>6 DEF Watches
  <2> QED
    BY <1>7, <2>4, <2>8, <2>9, <2>10, <2>11, TakesOne
<1> QED
  BY <1>1, <1>4, <1>5, <1>6, <1>7 DEF RestoreOne

LEMMA RemoveOneKeeps ==
  ASSUME TrashIInv, NEW c \in TrashCalls, RemoveOne(c)
  PROVE  TrashIInv'
<1>1. PICK u \in TrashCommands : u = tcall[c] /\ CommandRight(u) /\ CommandFits(u)
  BY CommandNow
<1>2. u.kind \in {"empty", "purge"} /\ u.step = "work" /\ u.list # <<>>
  BY <1>1 DEF RemoveOne, Does
<1>3. u.list \in Seq(TrashNames)
  BY <1>1, <1>2 DEF CommandRight, ListRight
<1>4. PICK n \in TrashNames : n = Head(u.list)
  BY <1>2, <1>3, FirstName
<1>6. CASE GiveUp(c)
  BY <1>1, <1>2, <1>6, GiveUpKeeps
<1>7. CASE /\ ~Vacant(n) /\ TakeOut(n, Lost) /\ UNCHANGED astray
           /\ tcall' = [tcall EXCEPT ![c].list = Tail(@), ![c].did = @ \cup {n}]
           /\ Sidecar /\ UNCHANGED excused
  <2>1. PICK rest \in Seq(TrashNames) : rest = Tail(u.list)
    BY <1>2, <1>3, FirstName
  <2>3. PICK t : t = [u EXCEPT !.list = rest, !.did = u.did \cup {n}]
    OBVIOUS
  <2>4. tcall' = [tcall EXCEPT ![c] = t]
    BY <1>1, <1>7, <2>1, <2>3
  <2>6. /\ t.step = "work" /\ t.kind = u.kind /\ t.list = rest /\ t.did = u.did \cup {n}
        /\ t.facts = u.facts /\ t.moved = u.moved /\ t.found = u.found
        /\ t.txn = u.txn /\ t.read = u.read
    BY <1>2, <2>3 DEF TrashCommands
  <2>7. t \in TrashCommands
    <3>1. rest \in Seq(FilePaths \cup TrashNames)
      BY WiderSeq
    <3> QED
      BY <2>3, <3>1 DEF TrashCommands
  <2>8. CommandRight(t)
    <3>1. InStep(t) /\ ListRight(t) /\ DidRight(t) /\ EditsRight(t)
      BY <1>2, <2>6 DEF InStep, ListRight, DidRight, EditsRight
    <3>2. MovedRight(t)
      BY <1>1, <2>6 DEF MovedRight, CommandRight
    <3> QED
      BY <2>7, <3>1, <3>2 DEF CommandRight
  <2>9. CommandFits(t)
    BY <1>1, <1>2, <2>6 DEF CommandFits
  <2>10. Settles({n})
    <3>1. PlacesTypeOK
      BY CommandNow
    <3> QED
      BY <1>7, <3>1, SettlesTakeOut
  <2>11. Watches(t, n) /\ \A m \in TrashNames : Watches(tcall[c], m) => Watches(t, m)
    BY <1>1, <2>6 DEF Watches
  <2> QED
    BY <1>7, <2>4, <2>8, <2>9, <2>10, <2>11, TakesOne
<1> QED
  BY <1>1, <1>4, <1>6, <1>7 DEF RemoveOne

LEMMA WorkDoneKeeps ==
  ASSUME TrashIInv, NEW c \in TrashCalls, WorkDone(c)
  PROVE  TrashIInv'
<1>1. PICK u \in TrashCommands : u = tcall[c] /\ CommandRight(u) /\ CommandFits(u)
  BY CommandNow
<1>2. PICK step : step = CASE u.kind = "purge" -> "load"
                           [] u.kind = "empty" -> "write"
                           [] OTHER -> IF u.txn = u.read THEN "done" ELSE "write"
  OBVIOUS
<1>3. PICK txn : txn = IF u.kind = "empty" THEN NoEntries ELSE u.txn
  OBVIOUS
<1>4. PICK t : t = [u EXCEPT !.step = step, !.txn = txn]
  OBVIOUS
<1>5. /\ tcall' = [tcall EXCEPT ![c] = t] /\ Outside /\ Sidecar
      /\ u.kind \in {"restore", "empty", "purge"} /\ u.step = "work"
      /\ excused' = excused \cup {n \in u.did : u.kind = "restore" /\ manifest[n] # u.read[n]}
  BY <1>1, <1>2, <1>3, <1>4 DEF WorkDone, Does
<1>6. /\ u.kind = "purge" => step = "load"
      /\ u.kind = "empty" => step = "write"
      /\ u.kind = "restore" => step = "write" \/ (step = "done" /\ u.txn = u.read)
      /\ step \in {"load", "write", "done"}
  BY <1>2, <1>5
<1>7. txn \in TrashIndexes /\ \A n \in TrashNames : Fits(txn[n], n)
  BY <1>1, <1>3 DEF TrashCommands, TrashIndexes, NoEntries, CommandFits, Fits
<1>8. /\ t.step = step /\ t.kind = u.kind /\ t.list = u.list
      /\ t.did = u.did /\ t.facts = u.facts /\ t.moved = u.moved /\ t.found = u.found
      /\ t.txn = txn /\ t.read = u.read
  BY <1>1, <1>4 DEF TrashCommands
<1>9. t \in TrashCommands
  BY <1>1, <1>4, <1>6, <1>7 DEF TrashCommands
<1>10. CommandRight(t)
  <2>1. InStep(t)
    BY <1>5, <1>6, <1>8 DEF InStep
  <2>2. ListRight(t)
    BY <1>1, <1>8 DEF ListRight, CommandRight
  <2>3. DidRight(t)
    BY <1>5, <1>6, <1>8 DEF DidRight
  <2>4. MovedRight(t)
    BY <1>1, <1>5, <1>6, <1>8 DEF MovedRight, CommandRight
  <2>5. EditsRight(t)
    <3>1. u.kind = "empty" => \A n \in TrashNames : txn[n] = NoEntry
      BY <1>3 DEF NoEntries
    <3>2. u.kind = "restore" => \A n \in TrashNames :
            (n \in u.did => txn[n] = NoEntry) /\ (txn[n] # u.read[n] => n \in u.did)
      BY <1>1, <1>3, <1>5 DEF EditsRight, CommandRight
    <3>3. t.step = "write" => u.kind \in {"empty", "restore"}
      BY <1>5, <1>6, <1>8
    <3>4. t.step \in {"load", "write", "done"}
      BY <1>6, <1>8
    <3> QED
      BY <1>8, <3>1, <3>2, <3>3, <3>4 DEF EditsRight
  <2> QED
    BY <1>9, <2>1, <2>2, <2>3, <2>4, <2>5 DEF CommandRight
<1>11. PlacesTypeOK /\ excused \subseteq TrashNames
  BY CommandNow
<1>12. Settles({})
  BY <1>5, <1>11, SettlesOutside
<1>13. CommandFits(t)'
  <2>1. CommandFits(t)
    BY <1>1, <1>5, <1>7, <1>8 DEF CommandFits
  <2> QED
    BY <1>9, <1>12, <2>1, StillFits
<1>14. ASSUME NEW n \in TrashNames, Watches(tcall[c], n)
       PROVE  Watches(t, n) \/ n \in excused' \/ manifest[n] = NoEntry
  <2>1. n \in u.did
    BY <1>1, <1>14 DEF Watches
  <2>2. CASE step # "done"
    BY <1>6, <1>8, <2>1, <2>2 DEF Watches
  <2>3. CASE step = "done"
    <3>1. u.kind = "restore" /\ u.txn = u.read
      BY <1>5, <1>6, <2>3
    <3>2. u.txn[n] = NoEntry
      BY <1>1, <1>5, <2>1, <3>1 DEF CommandRight, EditsRight
    <3> QED
      BY <1>5, <2>1, <3>1, <3>2
  <2> QED
    BY <2>2, <2>3
<1>15. excused \subseteq excused' /\ excused' \subseteq TrashNames
  BY <1>1, <1>5, <1>11 DEF TrashCommands
<1> QED
  BY <1>5, <1>10, <1>12, <1>13, <1>14, <1>15, PlainStep

LEMMA WriteTempKeeps ==
  ASSUME TrashIInv, NEW c \in TrashCalls, WriteTemp(c)
  PROVE  TrashIInv'
<1>1. PICK u \in TrashCommands : u = tcall[c] /\ CommandRight(u) /\ CommandFits(u)
  BY CommandNow
<1>2. PICK t : t = [u EXCEPT !.step = "rename"]
  OBVIOUS
<1>3. PICK m : m = u.txn
  OBVIOUS
<1>4. /\ tcall' = [tcall EXCEPT ![c] = t] /\ temp' = <<m>> /\ Outside
      /\ manifest' = manifest /\ recorded' = recorded /\ excused' = excused /\ u.step = "write"
  BY <1>1, <1>2, <1>3 DEF WriteTemp
<1>5. /\ t.step = "rename" /\ t.kind = u.kind /\ t.list = u.list
      /\ t.did = u.did /\ t.facts = u.facts /\ t.moved = u.moved /\ t.found = u.found
      /\ t.txn = u.txn /\ t.read = u.read /\ t \in TrashCommands
  BY <1>1, <1>2 DEF TrashCommands
<1>6. CommandRight(t)
  <2>1. InStep(t) /\ ListRight(t) /\ DidRight(t)
    BY <1>1, <1>4, <1>5 DEF InStep, ListRight, DidRight, CommandRight
  <2>2. MovedRight(t) /\ EditsRight(t)
    BY <1>1, <1>4, <1>5 DEF MovedRight, EditsRight, CommandRight
  <2> QED
    BY <1>5, <2>1, <2>2 DEF CommandRight
<1>7. PlacesTypeOK /\ excused' \subseteq TrashNames /\ tcall \in [TrashCalls -> TrashCommands]
  BY <1>4, CommandNow DEF TrashIInv, TrashTypeOK
<1>8. Settles({})
  BY <1>4, <1>7, SettlesOutside
<1>9. tcall'[c] = t /\ \A d \in TrashCalls : d # c => tcall'[d] = tcall[d]
  BY <1>4, <1>7
<1>10. tcall' \in [TrashCalls -> TrashCommands]
  BY <1>4, <1>5, <1>7
<1>11. ASSUME NEW d \in TrashCalls
       PROVE  CommandRight(tcall'[d]) /\ CommandFits(tcall[d])'
  <2>1. PICK v : v = IF d = c THEN t ELSE tcall[d]
    OBVIOUS
  <2>2. CommandRight(v) /\ CommandFits(v) /\ v \in TrashCommands
    <3>1. CASE d = c
      BY <1>1, <1>4, <1>5, <1>6, <2>1, <3>1 DEF CommandFits
    <3>2. CASE d # c
      BY <2>1, <3>2, CommandNow
    <3> QED
      BY <3>1, <3>2
  <2>3. CommandFits(v)'
    BY <1>8, <2>2, StillFits
  <2>4. tcall'[d] = v
    BY <1>9, <2>1
  <2> QED
    BY <2>2, <2>3, <2>4 DEF CommandFits
<1>12. \A d \in TrashCalls, n \in TrashNames : Watches(tcall[d], n) =>
         Watches(tcall'[d], n) \/ n \in excused' \/ manifest[n] = NoEntry
  BY <1>1, <1>5, <1>9 DEF Watches
<1>13. m \in TrashIndexes /\ \A n \in TrashNames : Fits(m[n], n)
  BY <1>1, <1>3 DEF TrashCommands, CommandFits
<1>14. temp' \in Seq(TrashIndexes) /\ DOMAIN temp' = {1} /\ temp'[1] = m
  BY <1>4, <1>13
<1>15. ASSUME NEW k \in DOMAIN temp', NEW n \in TrashNames PROVE Fits(temp[k][n], n)'
  <2>1. Fits(m[n], n)'
    BY <1>8, <1>13, IndexStillFits
  <2> QED
    BY <1>14, <2>1 DEF Fits
<1>16. PICK left \in SUBSET TrashNames : left = {}
  OBVIOUS
<1>17. Settles(left) /\ \A n \in left : n \in excused' \/ \E d \in TrashCalls : Watches(tcall'[d], n)
  BY <1>8, <1>16
<1>18. excused \subseteq excused' /\ manifest' = manifest /\ recorded' = recorded
  BY <1>4
<1>19. temp' \in Seq(TrashIndexes)
  BY <1>14
<1> QED
  BY <1>7, <1>10, <1>11, <1>12, <1>15, <1>17, <1>18, <1>19, TrashStepKeeps

\* The system's word: each of what a deletion asks goes, or stays.
LEMMA DeleteOneKeeps ==
  ASSUME TrashIInv, NEW c \in TrashCalls, DeleteOne(c)
  PROVE  TrashIInv'
<1>1. PICK u \in TrashCommands : u = tcall[c] /\ CommandRight(u) /\ CommandFits(u)
  BY CommandNow
<1>2. /\ u.kind = "move" /\ u.step = "work" /\ u.list # <<>>
      /\ Sidecar /\ UNCHANGED excused
  BY <1>1 DEF DeleteOne, Does
<1>3. u.list \in Seq(FilePaths)
  BY <1>1, <1>2 DEF CommandRight, ListRight
<1>4. PICK p \in FilePaths : p = Head(u.list)
  BY <1>2, <1>3, FirstName
<1>5. PICK rest \in Seq(FilePaths) : rest = Tail(u.list)
  BY <1>2, <1>3, FirstName
<1>6. PlacesTypeOK /\ excused \subseteq TrashNames
  BY CommandNow
<1>7. rest \in Seq(FilePaths \cup TrashNames)
  BY WiderSeq
<1>8. ASSUME NEW moved \in Seq([path : FilePaths, item : Items]),
             \A k \in DOMAIN moved :
               moved[k].path \in DOMAIN u.facts /\ moved[k].item = u.facts[moved[k].path],
             tcall' = [tcall EXCEPT ![c] = [u EXCEPT !.list = rest, !.moved = moved]],
             Settles({})
      PROVE  TrashIInv'
  <2>1. PICK t : t = [u EXCEPT !.list = rest, !.moved = moved]
    OBVIOUS
  <2>2. /\ t.step = "work" /\ t.kind = "move" /\ t.list = rest
        /\ t.did = u.did /\ t.facts = u.facts /\ t.moved = moved /\ t.found = u.found
        /\ t.txn = u.txn /\ t.read = u.read /\ t \in TrashCommands
    BY <1>2, <1>7, <2>1 DEF TrashCommands
  <2>3. CommandRight(t)
    <3>1. InStep(t) /\ ListRight(t) /\ DidRight(t)
      BY <1>1, <1>2, <2>2 DEF InStep, ListRight, DidRight, CommandRight
    <3>2. MovedRight(t) /\ EditsRight(t)
      BY <1>8, <2>2 DEF MovedRight, EditsRight
    <3> QED
      BY <2>2, <3>1, <3>2 DEF CommandRight
  <2>4. CommandFits(t)'
    <3>1. CommandFits(t)
      BY <1>1, <1>2, <2>2 DEF CommandFits
    <3> QED
      BY <1>8, <2>2, <3>1, StillFits
  <2>5. \A n \in TrashNames : Watches(tcall[c], n) => Watches(t, n)
    BY <1>1, <2>2 DEF Watches
  <2>6. tcall' = [tcall EXCEPT ![c] = t] /\ excused \subseteq excused' /\ excused' \subseteq TrashNames
    BY <1>2, <1>6, <1>8, <2>1
  <2> QED
    BY <1>2, <1>8, <2>3, <2>4, <2>5, <2>6, PlainStep
<1>9. CASE tcall' = [tcall EXCEPT ![c].list = Tail(@)] /\ Outside
  <2>1. PICK moved \in Seq([path : FilePaths, item : Items]) : moved = u.moved
    BY DEF TrashCommands
  <2>2. tcall' = [tcall EXCEPT ![c] = [u EXCEPT !.list = rest, !.moved = moved]]
    <3>1. [u EXCEPT !.list = rest, !.moved = moved] = [u EXCEPT !.list = rest]
      BY <2>1 DEF TrashCommands
    <3> QED
      BY <1>1, <1>5, <1>9, <3>1
  <2>3. \A k \in DOMAIN moved :
          moved[k].path \in DOMAIN u.facts /\ moved[k].item = u.facts[moved[k].path]
    BY <1>1, <2>1 DEF CommandRight, MovedRight
  <2>4. Settles({})
    BY <1>6, <1>9, SettlesOutside
  <2> QED
    BY <1>8, <2>2, <2>3, <2>4
<1>10. CASE /\ p \in DOMAIN u.facts /\ ~Vacant(p)
            /\ tcall' = [tcall EXCEPT ![c].list = Tail(@),
                           ![c].moved = Append(@, [path |-> p, item |-> u.facts[p]])]
            /\ UNCHANGED putBack
            /\ \/ p \in HomePaths /\ \E n \in Landings(p) : Bin(Holder(p), p, n)
               \/ /\ p \in FarPaths /\ place' = [place EXCEPT ![Holder(p)] = Lost]
                  /\ UNCHANGED <<from, stays, astray>>
  <2>1. PICK one : one = [path |-> p, item |-> u.facts[p]]
    OBVIOUS
  <2>2. one \in [path : FilePaths, item : Items]
    <3>1. u.facts \in TrashFacts
      BY DEF TrashCommands
    <3>2. u.facts[p] \in Items
      BY <1>10, <3>1 DEF TrashFacts
    <3> QED
      BY <2>1, <3>2
  <2>3. PICK moved : moved = Append(u.moved, one)
    OBVIOUS
  <2>4. u.moved \in Seq([path : FilePaths, item : Items])
    BY DEF TrashCommands
  <2>5. /\ moved \in Seq([path : FilePaths, item : Items])
        /\ Len(moved) = Len(u.moved) + 1 /\ moved[Len(u.moved) + 1] = one
        /\ \A k \in 1..Len(u.moved) : moved[k] = u.moved[k]
    BY <2>2, <2>3, <2>4, AppendProperties
  <2>6. ASSUME NEW k \in DOMAIN moved
        PROVE  moved[k].path \in DOMAIN u.facts /\ moved[k].item = u.facts[moved[k].path]
    <3>1. k \in 1..Len(u.moved) + 1 /\ DOMAIN u.moved = 1..Len(u.moved) /\ Len(u.moved) \in Nat
      BY <2>4, <2>5
    <3>2. CASE k = Len(u.moved) + 1
      BY <1>10, <2>1, <2>5, <3>2
    <3>3. CASE k \in 1..Len(u.moved)
      BY <1>1, <2>5, <3>1, <3>3 DEF CommandRight, MovedRight
    <3> QED
      BY <3>1, <3>2, <3>3
  <2>7. tcall' = [tcall EXCEPT ![c] = [u EXCEPT !.list = rest, !.moved = moved]]
    BY <1>1, <1>5, <1>10, <2>1, <2>3
  <2>8. PICK i \in Items : i = Holder(p) /\ place[i] = p
    BY <1>10, HolderIs
  <2>9. Settles({})
    <3>1. CASE \E n \in Landings(p) : Bin(Holder(p), p, n)
      <4>1. PICK n \in Landings(p) : Bin(i, p, n)
        BY <2>8, <3>1
      <4>2. n \in TrashNames /\ Vacant(n)
        BY TrashAssumption DEF Landings
      <4>3. putBack' \in [TrashNames -> TrashOrigins]
        BY <1>6, <1>10 DEF PlacesTypeOK
      <4> QED
        BY <1>6, <2>8, <4>1, <4>2, <4>3, SettlesBin
    <3>2. CASE place' = [place EXCEPT ![Holder(p)] = Lost] /\ UNCHANGED <<from, stays, astray>>
      <4>1. place' = [place EXCEPT ![i] = Lost] /\ UNCHANGED <<putBack, from, stays, astray>>
        BY <1>10, <2>8, <3>2
      <4>2. place[i] \in FilePaths
        BY <2>8
      <4> QED
        BY <1>6, <4>1, <4>2, SettlesFar
    <3> QED
      BY <1>10, <3>1, <3>2
  <2> QED
    BY <1>8, <2>5, <2>6, <2>7, <2>9
<1> QED
  BY <1>1, <1>4, <1>9, <1>10 DEF DeleteOne

\* The commit.  What it changes it means, or the name is spoiled.
LEMMA RenameKeeps ==
  ASSUME TrashIInv, NEW c \in TrashCalls, Rename(c)
  PROVE  TrashIInv'
<1>1. PICK u \in TrashCommands : u = tcall[c] /\ CommandRight(u) /\ CommandFits(u)
  BY CommandNow
<1>2. PICK t : t = [u EXCEPT !.step = "done"]
  OBVIOUS
<1>3. tcall' = [tcall EXCEPT ![c] = t] /\ Outside /\ u.step = "rename"
  BY <1>1, <1>2 DEF Rename
<1>4. /\ t.step = "done" /\ t.kind = u.kind /\ t.list = u.list
      /\ t.did = u.did /\ t.facts = u.facts /\ t.moved = u.moved /\ t.found = u.found
      /\ t.txn = u.txn /\ t.read = u.read /\ t \in TrashCommands
  BY <1>1, <1>2, SMTT(40) DEF TrashCommands
<1>5. CommandRight(t)
  <2>1. InStep(t)
    BY <1>1, <1>3, <1>4 DEF InStep, CommandRight
  <2>2. ListRight(t)
    BY <1>1, <1>4 DEF ListRight, CommandRight
  <2>3. DidRight(t) /\ MovedRight(t) /\ EditsRight(t)
    BY <1>1, <1>4 DEF DidRight, MovedRight, EditsRight, CommandRight
  <2> QED
    BY <1>4, <2>1, <2>2, <2>3 DEF CommandRight
<1>6. PlacesTypeOK /\ excused \subseteq TrashNames /\ tcall \in [TrashCalls -> TrashCommands]
      /\ manifest \in TrashIndexes
  BY CommandNow DEF TrashIInv, TrashTypeOK
<1>7. Settles({})
  BY <1>3, <1>6, SettlesOutside
<1>8. CommandFits(t)'
  <2>1. CommandFits(t)
    BY <1>1, <1>4 DEF CommandFits
  <2> QED
    BY <1>4, <1>7, <2>1, StillFits
<1>9. u.did \subseteq TrashNames
  BY DEF TrashCommands
<1>10. CASE /\ temp = <<>> /\ UNCHANGED <<manifest, temp, recorded>>
            /\ excused' = excused \cup u.did \cup {n \in TrashNames : u.txn[n] # u.read[n]}
  <2>1. Sidecar /\ excused \subseteq excused' /\ excused' \subseteq TrashNames
    BY <1>6, <1>9, <1>10 DEF Sidecar
  <2>2. \A n \in TrashNames : Watches(tcall[c], n) => n \in excused'
    BY <1>1, <1>10 DEF Watches
  <2> QED
    BY <1>3, <1>5, <1>7, <1>8, <2>1, <2>2, PlainStep
<1>11. CASE /\ temp # <<>> /\ manifest' = temp[1] /\ temp' = <<>>
            /\ excused' = excused \cup Spoiled(c, temp[1])
            /\ recorded' = recorded \cup
                 {[item |-> temp[1][n].item, stay |-> temp[1][n].stay] :
                    n \in {n \in TrashNames : temp[1][n] # NoEntry}}
  <2>1. PICK new : new = temp[1]
    OBVIOUS
  <2>2. new \in TrashIndexes /\ \A n \in TrashNames : Fits(new[n], n)
    <3>1. temp \in Seq(TrashIndexes) /\ \A k \in DOMAIN temp : \A n \in TrashNames : Fits(temp[k][n], n)
      BY DEF TrashIInv, TrashTypeOK, StoredFits
    <3>2. 1 \in DOMAIN temp
      BY <1>11, <3>1
    <3> QED
      BY <2>1, <3>1, <3>2
  <2>3. /\ place' = place /\ stays' = stays /\ from' = from /\ astray' = astray
        /\ manifest' = new /\ temp' = <<>> /\ excused' = excused \cup Spoiled(c, new)
        /\ recorded' = recorded \cup {[item |-> new[n].item, stay |-> new[n].stay] :
                                       n \in {n \in TrashNames : new[n] # NoEntry}}
    BY <1>3, <1>11, <2>1 DEF Outside
  <2>4. ASSUME NEW n \in TrashNames, n \notin excused'
        PROVE  /\ new[n] # manifest[n] => manifest[n] = u.read[n]
               /\ new[n] = u.txn[n]
               /\ u.kind = "empty" \/ n \in u.did => Vacant(n)
               /\ \A e \in u.found : e.name = n => About(e.entry, n)
    BY <1>1, <2>3, <2>4 DEF Spoiled
  <2>5. ASSUME NEW n \in TrashNames, n \notin excused', new[n] # manifest[n]
        PROVE  \/ new[n] = NoEntry /\ Vacant(n)
               \/ About(new[n], n)
    <3>1. u.txn[n] # u.read[n] /\ new[n] = u.txn[n]
      BY <2>4, <2>5
    <3>2. CASE n \in u.did \/ u.kind = "empty"
      <4>1. u.txn[n] = NoEntry
        BY <1>1, <1>3, <3>2 DEF CommandRight, EditsRight
      <4>2. Vacant(n)
        BY <2>4, <2>5, <3>2
      <4> QED
        BY <3>1, <4>1, <4>2
    <3>3. CASE \E e \in u.found : e.name = n /\ e.entry = u.txn[n]
      <4>1. PICK e \in u.found : e.name = n /\ e.entry = u.txn[n]
        BY <3>3
      <4>2. About(e.entry, n)
        BY <2>4, <2>5, <4>1
      <4> QED
        BY <3>1, <4>1, <4>2
    <3> QED
      BY <1>1, <1>3, <3>1, <3>2, <3>3 DEF CommandRight, EditsRight
  <2>6. \A n \in TrashNames : new[n] \in TrashEntries \cup {NoEntry}
    BY <2>2 DEF TrashIndexes
  <2>7. \A e \in TrashEntries : e.item \in Items /\ e.stay \in Nat
    BY DEF TrashEntries
  <2>8. ASSUME NEW r \in recorded'
        PROVE  \/ r \in recorded
               \/ \E n \in TrashNames : new[n] \in TrashEntries /\ new[n] # NoEntry
                                        /\ r.item = new[n].item /\ r.stay = new[n].stay
                                        /\ r \in [item : Items, stay : Nat]
    <3>1. CASE r \notin recorded
      <4>1. PICK n \in TrashNames :
              new[n] # NoEntry /\ r = [item |-> new[n].item, stay |-> new[n].stay]
        BY <2>3, <2>8, <3>1
      <4>2. new[n] \in TrashEntries
        BY <2>6, <4>1
      <4> QED
        BY <2>7, <4>1, <4>2
    <3> QED
      BY <3>1
  <2>9. \A r \in recorded : r.item \in Items /\ r.stay \in Nat /\ r \in [item : Items, stay : Nat]
          /\ r.stay <= stays[r.item]
    BY DEF TrashIInv, RecordsPast, TrashTypeOK
  <2>10. TrashTypeOK'
    <3>1. recorded' \subseteq [item : Items, stay : Nat]
      BY <2>8, <2>9
    <3>2. excused' \subseteq TrashNames
      BY <1>6, <2>3 DEF Spoiled
    <3>3. tcall' \in [TrashCalls -> TrashCommands]
      BY <1>3, <1>4, <1>6
    <3>4. temp' \in Seq(TrashIndexes) /\ manifest' \in TrashIndexes
      BY <2>2, <2>3
    <3>5. PlacesTypeOK'
      BY <1>7 DEF Settles
    <3> QED
      BY <3>1, <3>2, <3>3, <3>4, <3>5 DEF TrashTypeOK
  <2>11. tcall'[c] = t /\ \A d \in TrashCalls : d # c => tcall'[d] = tcall[d]
    BY <1>3, <1>6
  <2>12. CommandsRight'
    <3>1. ASSUME NEW d \in TrashCalls PROVE CommandRight(tcall'[d]) /\ CommandFits(tcall[d])'
      <4>1. CASE d = c
        BY <1>5, <1>8, <2>11, <4>1 DEF CommandFits
      <4>2. CASE d # c
        <5>1. PICK v : v = tcall[d]
          OBVIOUS
        <5>2. CommandRight(v) /\ CommandFits(v) /\ v \in TrashCommands
          BY <5>1, CommandNow
        <5>3. CommandFits(v)'
          BY <1>7, <5>2, StillFits
        <5>4. tcall'[d] = v
          BY <2>11, <4>2, <5>1
        <5> QED
          BY <5>2, <5>3, <5>4 DEF CommandFits
      <4> QED
        BY <4>1, <4>2
    <3> QED
      BY <3>1 DEF CommandsRight
  <2>13. StoredFits'
    <3>1. \A n \in TrashNames : Fits(manifest[n], n)'
      BY <2>2, <2>3 DEF Fits
    <3>2. DOMAIN temp' = {}
      BY <2>3
    <3> QED
      BY <3>1, <3>2 DEF StoredFits
  <2>14. RecordsPast'
    BY <2>2, <2>3, <2>8, <2>9 DEF RecordsPast, Fits
  <2>15. EntryKept'
    <3> SUFFICES ASSUME NEW r \in recorded', place[r.item] \in TrashNames, place[r.item] \notin excused',
                        stays[r.item] = r.stay
                 PROVE  About(new[place[r.item]], place[r.item])
      BY <2>3 DEF EntryKept, About
    <3>1. PICK n \in TrashNames : n = place[r.item]
      OBVIOUS
    <3>2. CASE r \in recorded
      <4>1. n \notin excused
        BY <2>3, <3>1
      <4>2. About(manifest[n], n)
        BY <3>1, <3>2, <4>1 DEF TrashIInv, EntryKept
      <4>3. ~Vacant(n)
        BY <2>9, <3>1, <3>2 DEF Vacant
      <4> QED
        BY <2>5, <3>1, <4>2, <4>3
    <3>3. CASE r \notin recorded
      <4>1. PICK m \in TrashNames : new[m] # NoEntry /\ r.item = new[m].item /\ r.stay = new[m].stay
        BY <2>8, <3>3
      <4>2. n = m
        BY <2>2, <3>1, <4>1 DEF Fits
      <4> QED
        BY <3>1, <4>1, <4>2 DEF About
    <3> QED
      BY <3>2, <3>3
  <2>16. EntriesWatched'
    <3> SUFFICES ASSUME NEW n \in TrashNames, n \notin excused', new[n] # NoEntry, ~About(new[n], n)
                 PROVE  \E d \in TrashCalls : Watches(tcall'[d], n)
      BY <2>3 DEF EntriesWatched, About, Watches
    <3>1. new[n] = manifest[n]
      BY <2>5
    <3>2. n \notin excused
      BY <2>3
    <3>3. PICK d \in TrashCalls : Watches(tcall[d], n)
      BY <3>1, <3>2 DEF TrashIInv, EntriesWatched
    <3>4. d # c
      <4>1. ASSUME d = c PROVE FALSE
        <5>1. u.txn[n] = NoEntry
          BY <1>1, <1>3, <3>3, <4>1 DEF Watches, CommandRight, EditsRight
        <5> QED
          BY <2>4, <5>1
      <4> QED
        BY <4>1
    <3> QED
      BY <2>11, <3>3, <3>4
  <2> QED
    BY <2>10, <2>12, <2>13, <2>14, <2>15, <2>16 DEF TrashIInv
<1> QED
  BY <1>1, <1>10, <1>11 DEF Rename

-----------------------------------------------------------------------------
(* Trash: Finder.                                                          *)

\* No command moves; what Finder takes out it excuses.
LEMMA FinderStep ==
  ASSUME TrashIInv, NEW left \in SUBSET TrashNames, Settles(left), Sidecar, UNCHANGED tcall,
         left \subseteq excused', excused \subseteq excused', excused' \subseteq TrashNames
  PROVE  TrashIInv'
<1>1. TrashTypeOK /\ tcall' = tcall /\ manifest' = manifest /\ recorded' = recorded /\ temp' = temp
  BY DEF TrashIInv, Sidecar
<1>2. tcall' \in [TrashCalls -> TrashCommands]
  BY <1>1 DEF TrashTypeOK
<1>3. ASSUME NEW d \in TrashCalls PROVE CommandRight(tcall'[d]) /\ CommandFits(tcall[d])'
  <2>1. PICK v : v = tcall[d]
    OBVIOUS
  <2>2. CommandRight(v) /\ CommandFits(v) /\ v \in TrashCommands
    BY <2>1, CommandNow
  <2>3. CommandFits(v)'
    BY <2>2, StillFits
  <2>4. tcall'[d] = v
    BY <1>1, <2>1
  <2> QED
    BY <2>2, <2>3, <2>4 DEF CommandFits
<1>4. \A d \in TrashCalls, n \in TrashNames : Watches(tcall[d], n) =>
        Watches(tcall'[d], n) \/ n \in excused' \/ manifest[n] = NoEntry
  BY <1>1
<1>5. \A n \in left : n \in excused' \/ \E d \in TrashCalls : Watches(tcall'[d], n)
  OBVIOUS
<1>6. temp' \in Seq(TrashIndexes)
  BY <1>1 DEF TrashTypeOK
<1>7. ASSUME NEW k \in DOMAIN temp', NEW n \in TrashNames PROVE Fits(temp[k][n], n)'
  <2>1. PICK m : m = temp[k]
    OBVIOUS
  <2>2. m \in TrashIndexes /\ Fits(m[n], n)
    BY <1>1, <2>1 DEF TrashTypeOK, TrashIInv, StoredFits
  <2>3. Fits(m[n], n)'
    BY <2>2, IndexStillFits
  <2>4. temp'[k] = m
    BY <1>1, <2>1
  <2> QED
    BY <2>3, <2>4 DEF Fits
<1> QED
  BY <1>1, <1>2, <1>3, <1>4, <1>5, <1>6, <1>7, TrashStepKeeps

LEMMA FinderDeletesKeeps ==
  ASSUME TrashIInv, NEW i \in Items, FinderDeletes(i)
  PROVE  TrashIInv'
<1>1. PlacesTypeOK /\ excused \subseteq TrashNames
  BY DEF TrashIInv, TrashTypeOK
<1>2. PICK p \in FilePaths : p = place[i]
  BY DEF FinderDeletes, FilePaths
<1>3. PICK n \in Landings(p) : Bin(i, p, n) /\ putBack' = [putBack EXCEPT ![n] = p]
  BY <1>2 DEF FinderDeletes
<1>4. n \in TrashNames /\ Vacant(n)
  BY TrashAssumption DEF Landings
<1>5. putBack' \in [TrashNames -> TrashOrigins]
  BY <1>1, <1>3, <1>4 DEF PlacesTypeOK, TrashOrigins
<1>6. Settles({})
  BY <1>1, <1>2, <1>3, <1>4, <1>5, SettlesBin
<1>7. PICK left \in SUBSET TrashNames : left = {}
  OBVIOUS
<1>8. Settles(left) /\ left \subseteq excused' /\ excused \subseteq excused'
      /\ excused' \subseteq TrashNames /\ Sidecar /\ UNCHANGED tcall
  BY <1>1, <1>6, <1>7 DEF FinderDeletes
<1> QED
  BY <1>8, FinderStep

LEMMA FinderTakesOutKeeps ==
  ASSUME TrashIInv, NEW n \in TrashNames, FinderTakesOut(n)
  PROVE  TrashIInv'
<1>1. PlacesTypeOK /\ excused \subseteq TrashNames
  BY DEF TrashIInv, TrashTypeOK
<1>2. /\ ~Vacant(n) /\ TakeOut(n, Lost) /\ astray' = astray
      /\ Sidecar /\ UNCHANGED tcall /\ excused' = excused \cup {n}
  BY DEF FinderTakesOut
<1>3. Settles({n})
  BY <1>1, <1>2, SettlesTakeOut
<1>4. PICK left \in SUBSET TrashNames : left = {n}
  OBVIOUS
<1>5. Settles(left) /\ left \subseteq excused' /\ excused \subseteq excused'
      /\ excused' \subseteq TrashNames
  BY <1>1, <1>2, <1>3, <1>4
<1> QED
  BY <1>2, <1>5, FinderStep

-----------------------------------------------------------------------------
(* Trash: correlating.                                                     *)

\* What a correlation may find: entries that fit the files.
RightFindings == {e \in TrashFindings : Fits(e.entry, e.name)}

\* The source is one of the survey.
RightSources == {x \in [path : FilePaths, item : Items] : Surveyed(x.item, x.path)}

LEMMA CorrelatedRight ==
  ASSUME PlacesTypeOK, NEW new \in SUBSET Contents, NEW found \in SUBSET RightFindings,
         NEW source \in RightSources
  PROVE  Correlated(new, found, source) \in SUBSET RightFindings
<1>1. PICK m : m = Matches(source, new \ {e.name : e \in found})
  OBVIOUS
<1>2. PICK n : n = CHOOSE x \in m : TRUE
  OBVIOUS
<1>3. PICK i : i = Holder(n)
  OBVIOUS
<1>4. PICK sure : sure = (i = source.item)
  OBVIOUS
<1>5. PICK entry : entry = [from |-> source.path, item |-> i, stay |-> stays[i], sure |-> sure]
  OBVIOUS
<1>6. PICK one : one = [name |-> n, entry |-> entry]
  OBVIOUS
<1>7. Correlated(new, found, source) = IF Cardinality(m) # 1 THEN found ELSE found \cup {one}
  BY <1>1, <1>2, <1>3, <1>4, <1>5, <1>6 DEF Correlated
<1>8. ASSUME Cardinality(m) = 1 PROVE one \in RightFindings
  <2>1. m \subseteq Contents
    BY <1>1 DEF Matches
  <2>2. m # {}
    BY <1>8, FS_EmptySet
  <2>3. n \in Contents
    BY <1>2, <2>1, <2>2
  <2>4. n \in TrashNames /\ ~Vacant(n)
    BY <2>3 DEF Contents
  <2>5. i \in Items /\ place[i] = n
    BY <1>3, <2>4, HolderIs
  <2>6. source.path \in FilePaths /\ source.item \in Items /\ Surveyed(source.item, source.path)
    BY DEF RightSources
  <2>7. sure \in BOOLEAN
    BY <1>4
  <2>8. stays[i] \in Nat
    BY <2>5 DEF PlacesTypeOK
  <2>9. entry \in TrashEntries
    BY <1>5, <2>5, <2>6, <2>7, <2>8 DEF TrashEntries
  <2>10. entry.item = i /\ entry.stay = stays[i] /\ entry.from = source.path
         /\ (entry.sure => i = source.item)
    <3>1. entry.item = i /\ entry.stay = stays[i] /\ entry.from = source.path /\ entry.sure = sure
      BY <1>5
    <3>2. sure => i = source.item
      BY <1>4
    <3> QED
      BY <3>1, <3>2
  <2>11. Fits(entry, n)
    <3>1. ASSUME entry.sure, i \notin astray PROVE entry.from = from[i]
      <4>1. i = source.item
        BY <2>10, <3>1
      <4> QED
        BY <2>4, <2>5, <2>6, <2>10, <3>1, <4>1, PlacesApart DEF Surveyed
    <3> QED
      BY <2>5, <2>8, <2>10, <3>1 DEF Fits
  <2>12. one.name = n /\ one.entry = entry /\ one \in TrashFindings
    BY <1>6, <2>4, <2>9 DEF TrashFindings
  <2> QED
    BY <2>11, <2>12 DEF RightFindings
<1> QED
  BY <1>7, <1>8

LEMMA CorrelateRight ==
  ASSUME PlacesTypeOK, NEW new \in SUBSET Contents, NEW sources \in Seq(RightSources)
  PROVE  Correlate(new, sources) \in SUBSET RightFindings
<1>0. PICK A : A = SUBSET RightFindings
  OBVIOUS
<1>1. PICK k \in Nat : k = Len(sources)
  OBVIOUS
<1>2. PICK D : D = DOMAIN sources
  OBVIOUS
<1>3. D = 1..k /\ IsFiniteSet(D)
  BY <1>1, <1>2, FS_Interval
<1> DEFINE ch == [s \in SUBSET D |-> Max(s)]
           next == [p \in D \X A |-> Correlated(new, p[2], sources[p[1]])]
           F(g) == [s \in SUBSET D |-> IF s = {} THEN {}
                                       ELSE Correlated(new, g[s \ {Max(s)}], sources[Max(s)])]
<1>4. \A s \in (SUBSET D) \ {{}} : ch[s] \in s
  BY <1>3, GreatestIn
<1>5. {} \in A /\ \A x \in D : \A v \in A : Correlated(new, v, sources[x]) \in A
  <2>1. \A x \in D : sources[x] \in RightSources
    BY <1>2
  <2> QED
    BY <1>0, <2>1, CorrelatedRight
<1>6. next \in [D \X A -> A]
  BY <1>5
<1>7. \E g \in [SUBSET D -> A] : FoldedFrom(g, {}, next, ch, D)
  <2> HIDE DEF next, ch
  <2> QED
    BY <1>3, <1>4, <1>5, <1>6, FoldExists
<1>8. PICK g \in [SUBSET D -> A] : FoldedFrom(g, {}, next, ch, D)
  BY <1>7
<1>9. g = F(g)
  <2>1. ASSUME NEW s \in SUBSET D PROVE g[s] = F(g)[s]
    <3>1. g[s] = IF s = {} THEN {} ELSE next[<<ch[s], g[s \ {ch[s]}]>>]
      BY <1>8 DEF FoldedFrom
    <3>2. CASE s = {}
      BY <3>1, <3>2
    <3>3. CASE s # {}
      <4>1. PICK x, v : x = ch[s] /\ v = g[s \ {ch[s]}]
        OBVIOUS
      <4>2. x \in D /\ v \in A
        <5> HIDE DEF ch
        <5> QED
          BY <1>4, <1>8, <3>3, <4>1
      <4>3. next[<<x, v>>] = Correlated(new, v, sources[x])
        BY <4>2
      <4>4. x = Max(s)
        BY <4>1
      <4>5. F(g)[s] = Correlated(new, v, sources[x])
        BY <3>3, <4>1, <4>4
      <4> QED
        BY <3>1, <3>3, <4>1, <4>3, <4>5
    <3> QED
      BY <3>2, <3>3
  <2> QED
    BY <1>8, <2>1
<1>10. PICK h : h = CHOOSE f : f = F(f)
  OBVIOUS
<1>11. Correlate(new, sources) = h[D]
  BY <1>2, <1>10 DEF Correlate, FoldLeft, MapThenFoldSet
<1>12. h = F(h)
  <2> HIDE DEF F
  <2> QED
    BY <1>9, <1>10
<1> HIDE DEF F, ch, next
<1>13. h[{}] \in A
  BY <1>5, <1>12 DEF F
<1>14. ASSUME NEW s \in (SUBSET D) \ {{}}
       PROVE  \E x \in s : h[s \ {x}] \in A => h[s] \in A
  <2>1. PICK x \in s : x = Max(s)
    BY <1>4 DEF ch
  <2>2. h[s] = Correlated(new, h[s \ {x}], sources[x])
    BY <1>12, <2>1 DEF F
  <2>3. ASSUME h[s \ {x}] \in A PROVE h[s] \in A
    <3>1. PICK v : v = h[s \ {x}]
      OBVIOUS
    <3>2. Correlated(new, v, sources[x]) \in A
      BY <1>5, <2>3, <3>1
    <3> QED
      BY <2>2, <3>1, <3>2
  <2> QED
    BY <2>3
<1>15. h[D] \in A
  BY <1>3, <1>13, <1>14, FoldStays
<1> QED
  BY <1>0, <1>11, <1>15

LEMMA AfterKeeps ==
  ASSUME TrashIInv, NEW c \in TrashCalls, After(c)
  PROVE  TrashIInv'
<1>1. PICK u \in TrashCommands : u = tcall[c] /\ CommandRight(u) /\ CommandFits(u)
  BY CommandNow
<1>0. PICK seen \in Looks :
        LET f == Correlate(seen \ tcall[c].before, tcall[c].moved) IN
        tcall' = [tcall EXCEPT ![c].step = IF f = {} THEN "done" ELSE "load", ![c].found = f]
  BY DEF After
<1>2. PICK found, new : found = Correlate(new, u.moved) /\ new = seen \ u.before
  OBVIOUS
<1>3. PICK step : step = IF found = {} THEN "done" ELSE "load"
  OBVIOUS
<1>4. PICK t : t = [u EXCEPT !.step = step, !.found = found]
  OBVIOUS
<1>5. /\ tcall' = [tcall EXCEPT ![c] = t] /\ Outside /\ Sidecar /\ UNCHANGED excused
      /\ u.kind = "move" /\ u.step = "work"
  BY <1>0, <1>1, <1>2, <1>3, <1>4 DEF After, Does
<1>6. found \in SUBSET RightFindings
  <2>1. PlacesTypeOK
    BY CommandNow
  <2>2. u.moved \in Seq([path : FilePaths, item : Items])
    BY DEF TrashCommands
  <2>3. ASSUME NEW k \in DOMAIN u.moved PROVE u.moved[k] \in RightSources
    <3>1. u.moved[k] \in [path : FilePaths, item : Items]
      <4>1. PICK S : S = [path : FilePaths, item : Items]
        OBVIOUS
      <4>2. \A s \in Seq(S) : \A j \in DOMAIN s : s[j] \in S
        OBVIOUS
      <4> QED
        BY <2>2, <4>1, <4>2
    <3>2. Surveyed(u.moved[k].item, u.moved[k].path)
      BY <1>1, <1>5 DEF CommandRight, MovedRight, CommandFits
    <3> QED
      BY <3>1, <3>2 DEF RightSources
  <2>4. u.moved \in Seq(RightSources)
    <3>1. Len(u.moved) \in Nat /\ DOMAIN u.moved = 1..Len(u.moved)
          /\ u.moved = [k \in 1..Len(u.moved) |-> u.moved[k]]
      BY <2>2
    <3>2. u.moved \in [1..Len(u.moved) -> RightSources]
      BY <2>3, <3>1
    <3> QED
      BY <3>1, <3>2, SeqDef
  <2>5. new \in SUBSET Contents
    BY <1>0, <1>2 DEF Looks
  <2> QED
    BY <1>2, <2>1, <2>4, <2>5, CorrelateRight
<1>7. found \subseteq TrashFindings /\ \A e \in found : Fits(e.entry, e.name)
  BY <1>6 DEF RightFindings
<1>8. step \in {"done", "load"}
  BY <1>3
<1>9. /\ t.step = step /\ t.kind = "move" /\ t.list = u.list
      /\ t.did = u.did /\ t.facts = u.facts /\ t.moved = u.moved /\ t.found = found
      /\ t.txn = u.txn /\ t.read = u.read /\ t \in TrashCommands
  BY <1>1, <1>4, <1>5, <1>7, <1>8 DEF TrashCommands
<1>10. CommandRight(t)
  <2>1. InStep(t) /\ ListRight(t) /\ DidRight(t)
    BY <1>1, <1>5, <1>8, <1>9 DEF InStep, ListRight, DidRight, CommandRight
  <2>2. MovedRight(t) /\ EditsRight(t)
    BY <1>1, <1>5, <1>8, <1>9 DEF MovedRight, EditsRight, CommandRight
  <2> QED
    BY <1>9, <2>1, <2>2 DEF CommandRight
<1>11. CommandFits(t)
  BY <1>1, <1>7, <1>8, <1>9 DEF CommandFits
<1>12. \A n \in TrashNames : Watches(tcall[c], n) => Watches(t, n)
  BY <1>1, <1>5 DEF Watches, CommandRight, DidRight
<1> QED
  BY <1>5, <1>10, <1>11, <1>12, LookStep

-----------------------------------------------------------------------------
(* Trash: the theorem.                                                     *)

LEMMA TrashStart ==
  ASSUME TrashInit
  PROVE  TrashIInv
<1>1. /\ place \in Placements /\ manifest = NoEntries /\ temp = <<>>
      /\ putBack = NoRecords /\ tcall = [c \in TrashCalls |-> Unasked]
      /\ from = [i \in Items |-> Nowhere] /\ stays = [i \in Items |-> 0]
      /\ recorded = {} /\ excused = {} /\ astray = {}
  BY DEF TrashInit
<1>2. \A n \in TrashNames : manifest[n] = NoEntry
  BY <1>1 DEF NoEntries
<1>3. TrashTypeOK
  <2>1. place \in [Items -> TrashSpots] /\ NoTwoAtOnePlace
    BY <1>1, TrashAssumption DEF TrashSpots, NoTwoAtOnePlace
  <2>2. putBack \in [TrashNames -> TrashOrigins] /\ from \in [Items -> TrashOrigins]
        /\ stays \in [Items -> Nat] /\ astray \subseteq Items
    BY <1>1 DEF NoRecords, TrashOrigins
  <2>3. manifest \in TrashIndexes
    BY <1>1 DEF NoEntries, TrashIndexes
  <2>4. tcall \in [TrashCalls -> TrashCommands]
    BY <1>1, UnaskedTyped
  <2> QED
    BY <1>1, <2>1, <2>2, <2>3, <2>4 DEF TrashTypeOK, PlacesTypeOK
<1>4. CommandsRight
  <2>1. CommandRight(Unasked)
    <3>1. <<>> \in Seq(TrashNames)
      OBVIOUS
    <3> QED
      BY <3>1, UnaskedTyped DEF CommandRight, InStep, ListRight, DidRight, MovedRight, EditsRight
  <2>2. CommandFits(Unasked)
    BY UnaskedTyped DEF CommandFits, NoEntries, Fits
  <2> QED
    BY <1>1, <2>1, <2>2 DEF CommandsRight
<1>5. StoredFits /\ RecordsPast /\ EntryKept /\ EntriesWatched
  BY <1>1, <1>2 DEF StoredFits, Fits, RecordsPast, EntryKept, EntriesWatched
<1> QED
  BY <1>3, <1>4, <1>5 DEF TrashIInv

LEMMA TrashStutters ==
  ASSUME TrashIInv, UNCHANGED trashVars
  PROVE  TrashIInv'
<1>1. Outside /\ Sidecar /\ UNCHANGED <<tcall, excused>>
  BY DEF trashVars, trashHistory, Outside, Sidecar
<1>2. PlacesTypeOK /\ excused \subseteq TrashNames
  BY DEF TrashIInv, TrashTypeOK
<1>3. PICK left \in SUBSET TrashNames : left = {}
  OBVIOUS
<1>4. Settles(left)
  BY <1>1, <1>2, <1>3, SettlesOutside
<1>5. left \subseteq excused' /\ excused \subseteq excused' /\ excused' \subseteq TrashNames
  BY <1>1, <1>2, <1>3
<1> QED
  BY <1>1, <1>4, <1>5, FinderStep

LEMMA TrashStepOK ==
  ASSUME TrashIInv, [TrashNext]_trashVars
  PROVE  TrashIInv'
<1>1. CASE UNCHANGED trashVars
  BY <1>1, TrashStutters
<1>2. ASSUME NEW c \in TrashCalls, Command(c)
      PROVE  TrashIInv'
  <2>1. CASE \E b \in DeleteBatches : Begin(c, "move", b)
    <3>1. PICK b \in DeleteBatches : Begin(c, "move", b)
      BY <2>1
    <3>2. b \in Seq(FilePaths) \ {<<>>}
      BY TrashAssumption
    <3> QED
      BY <3>1, <3>2, BeginKeeps
  <2>2. CASE \E s \in Selections : Begin(c, "restore", s) \/ Begin(c, "purge", s)
    <3>1. PICK s \in Selections : Begin(c, "restore", s) \/ Begin(c, "purge", s)
      BY <2>2
    <3>2. s \in Seq(TrashNames)
      BY TrashAssumption
    <3>3. CASE Begin(c, "restore", s)
      BY <3>2, <3>3, BeginKeeps
    <3>4. CASE Begin(c, "purge", s)
      BY <3>2, <3>4, BeginKeeps
    <3> QED
      BY <3>1, <3>3, <3>4
  <2>3. CASE Begin(c, "list", <<>>)
    BY <2>3, BeginKeeps
  <2>4. CASE Begin(c, "empty", <<>>)
    BY <2>4, BeginKeeps
  <2>5. CASE Survey(c)
    BY <2>5, SurveyKeeps
  <2>6. CASE Before(c)
    BY <2>6, BeforeKeeps
  <2>7. CASE DeleteOne(c)
    BY <2>7, DeleteOneKeeps
  <2>8. CASE After(c)
    BY <2>8, AfterKeeps
  <2>9. CASE ReadDir(c)
    BY <2>9, ReadDirKeeps
  <2>10. CASE Load(c)
    BY <2>10, LoadKeeps
  <2>11. CASE Return(c)
    BY <2>11, ReturnKeeps
  <2>12. CASE RestoreOne(c)
    BY <2>12, RestoreOneKeeps
  <2>13. CASE RemoveOne(c)
    BY <2>13, RemoveOneKeeps
  <2>14. CASE WorkDone(c)
    BY <2>14, WorkDoneKeeps
  <2>15. CASE WriteTemp(c)
    BY <2>15, WriteTempKeeps
  <2>16. CASE Rename(c)
    BY <2>16, RenameKeeps
  <2> QED
    BY <1>2, <2>1, <2>2, <2>3, <2>4, <2>5, <2>6, <2>7, <2>8, <2>9, <2>10, <2>11, <2>12,
       <2>13, <2>14, <2>15, <2>16 DEF Command
<1>3. ASSUME NEW i \in Items, FinderDeletes(i)
      PROVE  TrashIInv'
  BY <1>3, FinderDeletesKeeps
<1>4. ASSUME NEW n \in TrashNames, FinderTakesOut(n)
      PROVE  TrashIInv'
  BY <1>4, FinderTakesOutKeeps
<1> QED
  BY <1>1, <1>2, <1>3, <1>4 DEF TrashNext

\* For any items, paths, names, batches and commands, whatever the other
\* writers and Finder do in between: a listing's origin that was matched by
\* identity is true, an origin once written stays in the manifest as long as its
\* item stays in the Trash, and between commands no entry outlives its item, but
\* for the names that a race, an error or Finder spoiled.
THEOREM TrashSound == TrashSpec => []TrashInv
<1>1. TrashInit => TrashIInv
  BY TrashStart
<1>2. TrashIInv /\ [TrashNext]_trashVars => TrashIInv'
  BY TrashStepOK
<1>3. TrashIInv => TrashInv
  BY TrashEnough
<1> QED
  BY <1>1, <1>2, <1>3, PTL DEF TrashSpec
=============================================================================
