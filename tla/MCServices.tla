------------------------------ MODULE MCServices ------------------------------
(* The services that owe an answer, with the fairness of their threads, checked *)
(* in one run: "active" chooses at first the one that runs, the others rest in  *)
(* an initial state.  The coordinator has two listings of one coalescing key, a *)
(* move that competes with them for a key, and an archive job that competes     *)
(* with the move for the throughput lane.                                       *)
EXTENDS ResourceCoordinator, IpcExecutor, SettingsStore

CONSTANTS list1, list2, move, zip, r1, r2, r3   \* jobs and resource keys

FourJobs   == {list1, list2, move, zip}
ClassSet   == {"Latency", "Throughput", "Cpu"}
KeyedSet   == {"Latency", "Throughput"}
ClassesDef == [j \in Jobs |->
  CASE j = move   -> {"Latency", "Throughput"}
    [] j = zip    -> {"Throughput", "Cpu"}
    [] OTHER      -> {"Latency"}]
KeysDef == [j \in Jobs |->
  CASE j = move   -> {r1, r2}
    [] j = zip    -> {r3}
    [] OTHER      -> {r1}]
CoalesceDef == [j \in Jobs |-> IF j \in {list1, list2} THEN "list" ELSE "none"]
CapDef == [c \in Classes |-> IF c = "Latency" THEN 2 ELSE 1]

-----------------------------------------------------------------------------
VARIABLE active

ServicesInit ==
  /\ active \in {"coordinator", "executor", "settings"}
  /\ Init /\ ExecInit /\ SettingsInit

ServicesNext ==
  \/ active = "coordinator" /\ Next /\ UNCHANGED <<active, execVars, settingsVars>>
  \/ active = "executor" /\ ExecNext /\ UNCHANGED <<active, vars, settingsVars>>
  \/ active = "settings" /\ SettingsNext /\ UNCHANGED <<active, vars, execVars>>

\* The fairness of the coordinator (its FairSpec), of the executor's threads and
\* of the settings' thread, while they run.
Runs(s) == active = s
ActiveFairness ==
  /\ WF_vars(Runs("coordinator") /\ Dispatcher)
  /\ \A j \in Jobs : /\ WF_vars(Runs("coordinator") /\ Drop(j))
                     /\ WF_vars(Runs("coordinator") /\ CancelFallback(j))
  /\ \A w \in ExecWorkers : WF_execVars(Runs("executor") /\ WorkerStep(w))
  /\ WF_execVars(Runs("executor") /\ Drain) /\ WF_execVars(Runs("executor") /\ Join)
  /\ WF_settingsVars(Runs("settings") /\ Schedule)
  /\ WF_settingsVars(Runs("settings") /\ Keeper)

ServicesSpec ==
  /\ ServicesInit /\ [][ServicesNext]_<<active, vars, execVars, settingsVars>>
  /\ ActiveFairness
=============================================================================
