----------------------- MODULE ExecutionEngine_proofs -----------------------
(***************************************************************************)
(* What ExecutionEngine keeps for every task graph.  IInv relates the      *)
(* scheduler's copy of the run to the stored one at each of its steps.     *)
(***************************************************************************)
EXTENDS ExecutionEngine, TLAPS

Working == {"execute", "executing", "register", "conclude"}
Dispatching == Working \cup {"dispatch"}
Bad == {"FAILED", "SKIPPED", "CANCELLED"}
Results == {"none", "RUNNING", "SUCCESS", "FAILED", "CANCELLED"}

Types ==
    /\ blocked \in Blockings
    /\ pc \in {"idle", "run", "cancel", "reconcile", "loop", "propagate", "skip", "report"} \cup Dispatching
    /\ current \in Tasks \cup {0}
    /\ report \in {"none", "succeeded", "failed", "cancelled"}
    /\ cancel \in BOOLEAN /\ exists \in BOOLEAN
    /\ run \in RunStatuses /\ savedRun \in RunStatuses
    /\ savedReport \in RunStatuses \cup {"none"}
    /\ status \in [Tasks -> Statuses] /\ savedStatus \in [Tasks -> Statuses]
    /\ result \in [Tasks -> Results] /\ savedResult \in [Tasks -> Results]
    /\ outputs \subseteq Tasks /\ savedOutputs \subseteq Tasks /\ damaged \subseteq Tasks
    /\ marks \subseteq {"run_started", "run_resumed"} /\ savedMarks \subseteq {"run_started", "run_resumed"}
    /\ started \in [Tasks -> Nat] /\ ended \in [Tasks -> Nat]
    /\ work \in [Tasks -> {"none", "live", "succeeded", "failed", "cancelled"}]
    /\ lastCall \in {"none", "returned", "raised", "crashed"}
    /\ resumes \in 0..MaxResumes /\ crashes \in 0..MaxCrashes /\ damages \in 0..MaxDamage

\* The scheduler changes a result only together with the stored one.
Synced == savedResult = result

\* Before create_run nothing happened.
Fresh ==
    ~exists => /\ pc = "idle" /\ lastCall = "none"
               /\ \A t \in Tasks : status[t] = "PENDING" /\ result[t] = "none"
               /\ outputs = {} /\ savedOutputs = {} /\ savedRun = "PENDING" /\ run = "PENDING"

\* Within a call, status and result of a task agree.
Agree ==
    pc # "idle" => \A t \in Tasks :
        /\ status[t] = "RUNNING" <=> result[t] = "RUNNING"
        /\ status[t] = "FAILED" <=> result[t] = "FAILED"
        /\ result[t] = "CANCELLED" => status[t] = "CANCELLED"
        /\ status[t] = "SUCCESS" => result[t] = "SUCCESS"
        /\ status[t] = "READY" => pc = "dispatch" /\ t = current

\* Which attempts are open at each step of a call.
Open ==
    /\ pc \in {"loop", "skip", "propagate", "dispatch"} => \A t \in Tasks : result[t] # "RUNNING"
    /\ pc \in Working => \A t \in Tasks : result[t] = "RUNNING" <=> t = current
    /\ pc \in Dispatching => current \in Tasks
    /\ pc = "cancel" \/ (pc = "run" /\ cancel) => \A t \in Tasks : result[t] = "none"

\* What is dispatched was ready, in a run without failure, and saved so.
Dispatchable ==
    /\ pc = "dispatch" => status[current] = "READY"
    /\ pc \in Dispatching =>
        /\ savedStatus = status
        /\ \A d \in Deps[current] : status[d] = "SUCCESS"
        /\ \A t \in Tasks : status[t] \notin Bad

\* After a failure nothing is pending when the loop starts its next round.
NothingLeft ==
    pc = "loop" /\ (\E t \in Tasks : status[t] \in Bad) => \A t \in Tasks : status[t] # "PENDING"

\* The backend works only on what the store shows as RUNNING.
WorkKnown ==
    /\ \A t \in Tasks : work[t] = "live" => result[t] = "RUNNING"
    /\ pc \in {"execute", "register", "conclude"} => work[current] # "live"

RunState ==
    /\ pc \in {"cancel", "reconcile", "loop", "propagate", "skip"} \cup Dispatching => run = "RUNNING"
    /\ pc = "report" => savedRun = run /\ run \notin {"PENDING", "RUNNING"}

\* Success comes with registered outputs; a success that is to be repeated lost them.
Outputs ==
    /\ \A t \in Tasks : result[t] = "SUCCESS" => t \in savedOutputs
    /\ pc # "idle" => savedOutputs \subseteq outputs
    /\ pc # "idle" => \A t \in Tasks : status[t] \in {"PENDING", "READY"} /\ result[t] = "SUCCESS" => t \in damaged

IInv ==
    /\ Types /\ Synced /\ Fresh /\ Agree /\ Open /\ Dispatchable /\ NothingLeft
    /\ WorkKnown /\ RunState /\ Outputs
    /\ AttemptsAccounted /\ EndedRunHasEndedTasks /\ ReturnedRunIsReported

-----------------------------------------------------------------------------

\* Every step keeps the types; what is dispatched is a task.
LEMMA TypesStep ==
    ASSUME Types, Open, Next
    PROVE  Types'
<1> USE EngineAssumption
    DEF Types, Open, Dispatching, Working, Results, Final, Statuses, RunStatuses,
        memory, store, world, bounds, Goto, Keep, Commit, NoMark, NoAttempt, Silent,
        SetStatus, SetResult, Ends, Leave, First, Having
<1>0. UNCHANGED blocked
  BY DEF Next
<1> USE <1>0
<1>1. ASSUME NEW c \in BOOLEAN, StartRun(c) PROVE Types'
  BY <1>1 DEF StartRun
<1>2. ASSUME Resume PROVE Types'
  <2>1. \A t \in Tasks : Resumed(t) \in Statuses
    BY DEF Resumed
  <2>2. status' \in [Tasks -> Statuses]
    BY <1>2, <2>1 DEF Resume
  <2>3. /\ outputs' \subseteq Tasks /\ marks' \subseteq {"run_started", "run_resumed"}
        /\ resumes' \in 0..MaxResumes
    BY <1>2 DEF Resume
  <2>4. pc' = "run" /\ run' = savedRun /\ result' = savedResult /\ cancel' \in BOOLEAN
    BY <1>2 DEF Resume
  <2>5. UNCHANGED <<current, report, exists, savedRun, savedStatus, savedResult, savedOutputs, savedReport>>
    BY <1>2 DEF Resume
  <2>6. UNCHANGED <<savedMarks, started, ended, work, damaged, lastCall, crashes, damages>>
    BY <1>2 DEF Resume
  <2>7. QED
    BY <2>2, <2>3, <2>4, <2>5, <2>6
<1>3. ASSUME Begin PROVE Types'
  <2>1. pc' \in {"cancel", "reconcile"} /\ run' \in RunStatuses /\ UNCHANGED <<current, report, cancel, lastCall>>
    BY <1>3 DEF Begin
  <2>2. marks' \subseteq {"run_started", "run_resumed"} /\ savedMarks' \subseteq {"run_started", "run_resumed"}
    <3>1. /\ marks' \in {marks, marks \cup {"run_started"}}
          /\ savedMarks' \in {savedMarks, savedMarks \cup {"run_started"}}
      BY <1>3 DEF Begin
    <3>2. QED
      BY <3>1
  <2>3. UNCHANGED <<status, result, outputs, exists, savedReport, started, ended, work, damaged, resumes, crashes, damages>>
    BY <1>3 DEF Begin
  <2>4. /\ savedRun' \in {savedRun, run'} /\ savedStatus' \in {savedStatus, status}
        /\ savedResult' \in {savedResult, result} /\ savedOutputs' \in {savedOutputs, outputs}
    BY <1>3 DEF Begin
  <2>5. QED
    BY <2>1, <2>2, <2>3, <2>4
<1>4. ASSUME CancelTask PROVE Types'
  BY <1>4 DEF CancelTask
<1>5. ASSUME Reconcile PROVE Types'
  <2>1. ASSUME NEW s \in {"INTERRUPTED", "RECONCILIATION_REQUIRED"}, Stop(s), Keep PROVE Types'
    BY <2>1 DEF Stop
  <2>2. ASSUME NEW t \in Tasks, NEW s \in {"SUCCESS", "FAILED", "CANCELLED"}, Conclude(t, s), Goto("reconcile"), Keep
        PROVE  Types'
    BY <2>2 DEF Conclude
  <2>3. QED
    BY <1>5, <2>1, <2>2 DEF Reconcile, Indeterminate
<1>6. ASSUME Preserve PROVE Types'
  BY <1>6 DEF Preserve
<1>7. ASSUME MakeReady PROVE Types'
  BY <1>7 DEF MakeReady, Ready
<1>8. ASSUME FailBlocked PROVE Types'
  BY <1>8 DEF FailBlocked, InputBlocked
<1>9. ASSUME Dispatch PROVE Types'
  BY <1>9 DEF Dispatch
<1>10. ASSUME Execute PROVE Types'
  BY <1>10 DEF Execute
<1>11. ASSUME Answer PROVE Types'
  BY <1>11 DEF Answer
<1>12. ASSUME ExecutorException PROVE Types'
  BY <1>12 DEF ExecutorException
<1>13. ASSUME Register PROVE Types'
  <2>1. CASE Silent
    BY <1>13, <2>1 DEF Register
  <2>2. CASE UNCHANGED <<memory, store, world>>
    BY <1>13, <2>2 DEF Register
  <2>3. QED
    BY <1>13, <2>1, <2>2 DEF Register
<1>14. ASSUME ConcludeTask PROVE Types'
  <2>1. ASSUME NEW s \in {"SUCCESS", "FAILED", "CANCELLED"}, Conclude(current, s),
               pc' \in {"loop", "propagate", "idle"}, lastCall' \in {lastCall, "raised"},
               UNCHANGED <<current, report, cancel, bounds>>
        PROVE  Types'
    BY <1>14, <2>1 DEF ConcludeTask, Conclude
  <2>2. QED
    BY <1>14, <2>1 DEF ConcludeTask
<1>15. ASSUME Propagate PROVE Types'
  <2>1. ASSUME NEW t \in Tasks, SkipTask(t), Goto("propagate"), Keep PROVE Types'
    BY <2>1 DEF SkipTask
  <2>2. ASSUME Goto("skip"), UNCHANGED <<memory, store, world>>, Keep PROVE Types'
    BY <2>2
  <2>3. QED
    BY <1>15, <2>1, <2>2 DEF Propagate
<1>16. ASSUME SkipPending PROVE Types'
  <2>1. ASSUME NEW t \in Tasks, SkipTask(t), Goto("skip"), Keep PROVE Types'
    BY <2>1 DEF SkipTask
  <2>2. ASSUME Goto("loop"), UNCHANGED <<memory, store, world>>, Keep PROVE Types'
    BY <2>2
  <2>3. QED
    BY <1>16, <2>1, <2>2 DEF SkipPending
<1>17. ASSUME Finish PROVE Types'
  BY <1>17 DEF Finish, TerminalStatus
<1>18. ASSUME Report PROVE Types'
  BY <1>18 DEF Report
<1>19. ASSUME Crash PROVE Types'
  BY <1>19 DEF Crash
<1>20. ASSUME NEW t \in Tasks, WorkEnds(t) PROVE Types'
  BY <1>20 DEF WorkEnds
<1>21. ASSUME NEW t \in Tasks, Damage(t) PROVE Types'
  BY <1>21 DEF Damage
<1> HIDE DEF Types, Open
<1>22. QED
  BY ONLY Next, <1>1, <1>2, <1>3, <1>4, <1>5, <1>6, <1>7, <1>8, <1>9, <1>10, <1>11, <1>12, <1>13, <1>14, <1>15, <1>16, <1>17, <1>18, <1>19, <1>20, <1>21 DEF Next, Scheduler

\* The rest of the inductive invariant, action by action.
LEMMA EngineStep ==
    ASSUME IInv, Types', Next
    PROVE  IInv'
<1> USE EngineAssumption
    DEF IInv, Types, Synced, Fresh, Agree, Open, Dispatchable, NothingLeft, WorkKnown, RunState, Outputs,
        AttemptsAccounted, EndedRunHasEndedTasks, ReturnedRunIsReported,
        Working, Dispatching, Bad, Results, Final, Statuses, RunStatuses,
        memory, store, world, bounds, Goto, Keep, Commit, NoMark, NoAttempt, Silent,
        SetStatus, SetResult, Ends, Leave, First, Having
<1>0. UNCHANGED blocked
  BY DEF Next
<1> USE <1>0
<1>1. ASSUME NEW c \in BOOLEAN, StartRun(c) PROVE IInv'
  BY <1>1 DEF StartRun
<1>2. ASSUME Resume PROVE IInv'
  BY <1>2 DEF Resume, Resumed
<1>3. ASSUME Begin PROVE IInv'
  BY <1>3 DEF Begin
<1>4. ASSUME CancelTask PROVE IInv'
  <2> DEFINE open == Having("PENDING") \cup Having("READY") \cup Having("RUNNING")
  <2>1. ASSUME NEW t \in First(open), SetStatus(t, "CANCELLED"), Goto("cancel"), UNCHANGED run PROVE IInv'
    <3>1. t \in Tasks /\ status[t] \in {"PENDING", "READY", "RUNNING"}
      BY <2>1
    <3>2. Agree'
      BY <1>4, <2>1, <3>1 DEF CancelTask
    <3>3. QED
      BY <1>4, <2>1, <3>1, <3>2 DEF CancelTask
  <2>2. ASSUME open = {}, run' = "CANCELLED", UNCHANGED status, Goto("report") PROVE IInv'
    BY <1>4, <2>2 DEF CancelTask
  <2>3. QED
    BY <1>4, <2>1, <2>2 DEF CancelTask
<1>5. ASSUME Reconcile PROVE IInv'
  BY <1>5 DEF Reconcile, Answers, Indeterminate, Stop, Conclude
<1>6. ASSUME Preserve PROVE IInv'
  BY <1>6 DEF Preserve, Indeterminate
<1>7. ASSUME MakeReady PROVE IInv'
  BY <1>7 DEF MakeReady, Ready, Satisfied
<1>8. ASSUME FailBlocked PROVE IInv'
  BY <1>8 DEF FailBlocked, Ready, InputBlocked, Satisfied
<1>9. ASSUME Dispatch PROVE IInv'
  BY <1>9 DEF Dispatch
<1>10. ASSUME Execute PROVE IInv'
  BY <1>10 DEF Execute
<1>11. ASSUME Answer PROVE IInv'
  BY <1>11 DEF Answer
<1>12. ASSUME ExecutorException PROVE IInv'
  BY <1>12 DEF ExecutorException
<1>13. ASSUME Register PROVE IInv'
  BY <1>13 DEF Register
<1>14. ASSUME ConcludeTask PROVE IInv'
  BY <1>14 DEF ConcludeTask, Conclude
<1>15. ASSUME Propagate PROVE IInv'
  BY <1>15 DEF Propagate, SkipTask
<1>16. ASSUME SkipPending PROVE IInv'
  BY <1>16 DEF SkipPending, SkipTask
<1>17. ASSUME Finish PROVE IInv'
  <2>1. ASSUME NEW t \in Tasks PROVE status[t] \in Final
    <3>1. CASE \E u \in Tasks : status[u] \in Bad
      BY <1>17, <3>1 DEF Finish
    <3>2. CASE \A u \in Tasks : status[u] \notin Bad
      <4>1. \A u \in Tasks : status[u] \in {"PENDING", "SUCCESS"}
        BY <1>17, <3>2 DEF Finish
      <4>2. SUFFICES ASSUME status[t] = "PENDING" PROVE FALSE
        BY <4>1
      <4>3. PICK u \in Having("PENDING") : Deps[u] \cap Having("PENDING") = {}
        <5>1. Having("PENDING") \in SUBSET Tasks /\ Having("PENDING") # {}
          BY <4>2
        <5>2. QED
          BY ONLY <5>1, EngineAssumption DEF EngineAssumption
      <4>4. Deps[u] \subseteq Tasks /\ u \in Tasks /\ status[u] = "PENDING"
        BY <4>3
      <4>5. \A d \in Deps[u] : status[d] = "SUCCESS"
        BY <4>1, <4>3, <4>4
      <4>6. Satisfied(u)
        BY <1>17, <4>4, <4>5 DEF Finish, Satisfied
      <4>7. QED
        BY <1>17, <4>4, <4>6 DEF Finish, Ready, InputBlocked
    <3>3. QED
      BY <3>1, <3>2
  <2>2. EndedRunHasEndedTasks'
    BY <1>17, <2>1 DEF Finish, TerminalStatus
  <2>3. QED
    BY <1>17, <2>2 DEF Finish, TerminalStatus
<1>18. ASSUME Report PROVE IInv'
  BY <1>18 DEF Report
<1>19. ASSUME Crash PROVE IInv'
  BY <1>19 DEF Crash
<1>20. ASSUME NEW t \in Tasks, WorkEnds(t) PROVE IInv'
  BY <1>20 DEF WorkEnds
<1>21. ASSUME NEW t \in Tasks, Damage(t) PROVE IInv'
  BY <1>21 DEF Damage
<1> HIDE DEF IInv, Types
<1>22. QED
  BY ONLY Next, <1>1, <1>2, <1>3, <1>4, <1>5, <1>6, <1>7, <1>8, <1>9, <1>10, <1>11, <1>12, <1>13, <1>14, <1>15, <1>16, <1>17, <1>18, <1>19, <1>20, <1>21 DEF Next, Scheduler

\* The inductive invariant behind the theorems below.
THEOREM EngineInvariant == Spec => []IInv
<1>1. Init => IInv
  <2> SUFFICES ASSUME Init PROVE IInv
    OBVIOUS
  <2> USE EngineAssumption DEF EngineAssumption, Init, Working, Dispatching, Bad, Results, Final, Statuses, RunStatuses
  <2>1. Types
    <3>1. /\ status \in [Tasks -> Statuses] /\ savedStatus \in [Tasks -> Statuses]
          /\ result \in [Tasks -> Results] /\ savedResult \in [Tasks -> Results]
      OBVIOUS
    <3>2. started \in [Tasks -> Nat] /\ ended \in [Tasks -> Nat]
      OBVIOUS
    <3>3. work \in [Tasks -> {"none", "live", "succeeded", "failed", "cancelled"}]
      OBVIOUS
    <3>4. resumes \in 0..MaxResumes /\ crashes \in 0..MaxCrashes /\ damages \in 0..MaxDamage
      OBVIOUS
    <3>5. QED
      BY <3>1, <3>2, <3>3, <3>4 DEF Types
  <2>2. Synced /\ Fresh /\ Agree /\ Open /\ Dispatchable /\ NothingLeft
    BY DEF Synced, Fresh, Agree, Open, Dispatchable, NothingLeft
  <2>3. WorkKnown /\ RunState /\ Outputs
    BY DEF WorkKnown, RunState, Outputs
  <2>4. AttemptsAccounted /\ EndedRunHasEndedTasks /\ ReturnedRunIsReported
    BY DEF AttemptsAccounted, EndedRunHasEndedTasks, ReturnedRunIsReported
  <2>5. QED
    BY <2>1, <2>2, <2>3, <2>4 DEF IInv
<1>2. IInv /\ [Next]_vars => IInv'
  <2>1. ASSUME IInv, Next PROVE IInv'
    BY <2>1, TypesStep, EngineStep DEF IInv
  <2>2. ASSUME IInv, UNCHANGED vars PROVE IInv'
    BY <2>2
       DEF vars, memory, store, world, bounds, IInv, Types, Synced, Fresh, Agree, Open, Dispatchable,
           NothingLeft, WorkKnown, RunState, Outputs, AttemptsAccounted, EndedRunHasEndedTasks,
           ReturnedRunIsReported, Working, Dispatching, Bad
  <2>3. QED
    BY <2>1, <2>2
<1>3. QED
  BY <1>1, <1>2, PTL DEF Spec

\* Every variable keeps its type, from create_run to the last report.
THEOREM TypeCorrect == Spec => []TypeOK
<1>1. IInv => TypeOK
  BY DEF IInv, Types, TypeOK, Working, Dispatching, Results, Final, Statuses
<1>2. QED
  BY <1>1, EngineInvariant, PTL

\* Sequential dispatch across crashes: the backend gets an attempt only when it
\* works on none (scheduling.py:101-119).
THEOREM BackendServesOne == Spec => []OneAttemptAtATime
<1>1. IInv => OneAttemptAtATime
  BY DEF IInv, Open, Types, WorkKnown, OneAttemptAtATime, Working
<1>2. QED
  BY <1>1, EngineInvariant, PTL

\* Every attempt that started is ended once or still RUNNING in the store,
\* whatever was reconciled (scheduling.py:211-407).
THEOREM AttemptsBalance == Spec => []AttemptsAccounted
<1>1. IInv => AttemptsAccounted
  BY DEF IInv
<1>2. QED
  BY <1>1, EngineInvariant, PTL

\* A run stored as ended has only ended tasks, and a successful one only
\* successful results: the loop leaves nothing behind on any acyclic graph
\* (scheduling.py:136-209, report.py:107).
THEOREM RunsEndWhole == Spec => []EndedRunHasEndedTasks
<1>1. IInv => EndedRunHasEndedTasks
  BY DEF IInv
<1>2. QED
  BY <1>1, EngineInvariant, PTL

\* When a call returns, report.json and run.json name the same settled status
\* (engine.py:162-169).
THEOREM ReportMatchesRun == Spec => []ReturnedRunIsReported
<1>1. IInv => ReturnedRunIsReported
  BY DEF IInv
<1>2. QED
  BY <1>1, EngineInvariant, PTL

-----------------------------------------------------------------------------

\* _dispatch_task alone starts attempts, and only of the task it was given.
LEMMA OnlyDispatchStarts ==
    ASSUME [Next]_vars
    PROVE  UNCHANGED started \/ Dispatch
<1> USE DEF memory, store, world, bounds, Keep, Commit, NoAttempt, Silent, Ends, Leave
<1>1. CASE UNCHANGED vars
  BY <1>1 DEF vars
<1>2. CASE Scheduler
  BY <1>2
     DEF Scheduler, Begin, CancelTask, Reconcile, Stop, Conclude, Preserve, MakeReady, FailBlocked, Execute,
         Register, ConcludeTask, Propagate, SkipTask, SkipPending, Finish, Report
<1>3. CASE Next /\ ~Scheduler
  BY <1>3 DEF Next, StartRun, Resume, Answer, ExecutorException, Crash, WorkEnds, Damage
<1>4. QED
  BY <1>1, <1>2, <1>3 DEF Next

\* The attempt that starts is one more of the task that was made READY.
LEMMA DispatchStarts ==
    ASSUME IInv, Dispatch, NEW t \in Tasks, started'[t] > started[t]
    PROVE  t = current /\ pc = "dispatch" /\ status[t] = "READY"
BY DEF IInv, Types, Dispatchable, Dispatch

\* A task starts on dependencies whose success is in the store
\* (scheduling.py:431-443).
THEOREM StartsOnSuccess == Spec => RunsOnSuccess
<1>1. ASSUME IInv, [Next]_vars, NEW t \in Tasks, started'[t] > started[t], NEW d \in Deps[t]
      PROVE  savedStatus[d] = "SUCCESS" /\ savedResult[d] = "SUCCESS"
  <2>1. Dispatch
    BY <1>1, OnlyDispatchStarts DEF IInv, Types
  <2>2. t = current /\ pc = "dispatch"
    BY <1>1, <2>1, DispatchStarts
  <2>3. d \in Tasks
    BY EngineAssumption DEF EngineAssumption
  <2>4. QED
    BY <1>1, <2>2, <2>3 DEF IInv, Dispatchable, Dispatching, Agree, Synced
<1>2. IInv /\ [Next]_vars => \A t \in Tasks : started'[t] > started[t] =>
                   \A d \in Deps[t] : savedStatus[d] = "SUCCESS" /\ savedResult[d] = "SUCCESS"
  BY <1>1
<1>3. QED
  BY <1>2, EngineInvariant, PTL DEF Spec, RunsOnSuccess

\* With a failed or cancelled result in the store nothing new starts
\* (scheduling.py:120-133).
THEOREM NoStartAfterFailure == Spec => NothingStartsAfterFailure
<1>1. ASSUME IInv, [Next]_vars, NEW t \in Tasks, savedResult[t] \in {"FAILED", "CANCELLED"}
      PROVE  started' = started
  <2>1. ~Dispatch
    BY <1>1 DEF IInv, Synced, Agree, Dispatchable, Dispatching, Bad, Dispatch
  <2>2. QED
    BY <1>1, <2>1, OnlyDispatchStarts
<1>2. IInv /\ [Next]_vars => ((\E t \in Tasks : savedResult[t] \in {"FAILED", "CANCELLED"}) => started' = started)
  BY <1>1
<1>3. QED
  BY <1>2, EngineInvariant, PTL DEF Spec, NothingStartsAfterFailure

\* A success is repeated only when its outputs no longer validate
\* (resume.py:148-157).
THEOREM ReuseOfSuccess == Spec => SuccessIsReused
<1>1. ASSUME IInv, [Next]_vars, NEW t \in Tasks, started'[t] > started[t], savedResult[t] = "SUCCESS"
      PROVE  t \in damaged
  <2>1. Dispatch
    BY <1>1, OnlyDispatchStarts DEF IInv, Types
  <2>2. pc = "dispatch" /\ status[t] = "READY"
    BY <1>1, <2>1, DispatchStarts
  <2>3. QED
    BY <1>1, <2>2 DEF IInv, Outputs, Synced
<1>2. IInv /\ [Next]_vars => (\A t \in Tasks : started'[t] > started[t] /\ savedResult[t] = "SUCCESS" => t \in damaged)
  BY <1>1
<1>3. QED
  BY <1>2, EngineInvariant, PTL DEF Spec, SuccessIsReused
=============================================================================
