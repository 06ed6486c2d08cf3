-------------------------- MODULE ExecutionEngine --------------------------
(***************************************************************************)
(* execution/engine.py, scheduling.py, resume.py, report.py, transitions.py*)
(* and persistence/coordinator.py: one run of a task graph, scheduled one  *)
(* task at a time, and resumed from the store after a crash.               *)
(*                                                                         *)
(* A step is what the scheduler does up to its next trace append; the      *)
(* append commits the whole run state to the store in one transition (what *)
(* FileExecutionStore shows of the file store).  The process may die, or a *)
(* call raise, between any two steps.  The backend's attempt and the files *)
(* a task wrote belong to the world, which goes on without the process.    *)
(***************************************************************************)
EXTENDS Naturals, FiniteSets

CONSTANTS NumTasks,     \* tasks are numbered in the order of the graph's nodes
          Deps,         \* Deps[t]: the tasks t depends on
          Blockings,    \* the sets of tasks that may have a required input no artifact satisfies
          MaxResumes,   \* bound: load_and_resume_run calls
          MaxCrashes,   \* bound: calls cut short
          MaxDamage     \* bound: outputs lost or altered on disk

Tasks == 1..NumTasks

ASSUME EngineAssumption ==
    /\ NumTasks \in Nat
    /\ Deps \in [Tasks -> SUBSET Tasks]
    /\ Blockings \subseteq SUBSET Tasks
    /\ \A S \in SUBSET Tasks : S # {} => \E t \in S : Deps[t] \cap S = {}   \* validate_task_dag
    /\ MaxResumes \in Nat /\ MaxCrashes \in Nat /\ MaxDamage \in Nat

VARIABLES
    blocked,        \* the tasks of the given graph that have one
    pc,             \* what the call in progress does next; "idle": no call
    current,        \* the task being dispatched, 0 for none
    report,         \* the backend's answer for it
    cancel,         \* start_run(cancelled=True)
    run, status, result, outputs, marks,    \* the scheduler's copy of what follows
    exists,         \* create_run has been called
    savedRun,       \* run.json: the run's status
    savedStatus,    \* tasks.json: task statuses
    savedResult,    \* tasks.json: the status of each task's result, "none" without one
    savedOutputs,   \* artifacts.json: tasks with the outputs of their last attempt registered
    savedReport,    \* report.json: the status it reports
    savedMarks,     \* trace.jsonl: RunStarted and RunResumed
    started, ended, \* trace.jsonl: attempts of a task that started, that ended
    work,           \* the backend's last attempt of a task
    damaged,        \* tasks whose registered outputs no longer validate
    lastCall,       \* how the last call ended
    resumes, crashes, damages

memory == <<run, status, result, outputs, marks>>
store == <<exists, savedRun, savedStatus, savedResult, savedOutputs, savedReport, savedMarks, started, ended>>
world == <<work, damaged>>
bounds == <<resumes, crashes, damages>>
vars == <<blocked, pc, current, report, cancel, memory, store, world, lastCall, bounds>>

-----------------------------------------------------------------------------
(* Task and run statuses *)

Final == {"SUCCESS", "FAILED", "SKIPPED", "CANCELLED"}
Statuses == {"PENDING", "READY", "RUNNING"} \cup Final
RunStatuses == {"PENDING", "RUNNING", "SUCCESS", "FAILED", "CANCELLED", "INTERRUPTED", "RECONCILIATION_REQUIRED"}

Having(s) == {t \in Tasks : status[t] = s}

\* The first task of S in the order of the nodes, as a set.
First(S) == {t \in S : \A u \in S : t <= u}

\* terminal_run_status of tasks none of which is RUNNING.
TerminalStatus ==
    IF Having("CANCELLED") # {} THEN "CANCELLED"
    ELSE IF Having("FAILED") # {} THEN "FAILED"
    ELSE IF Tasks # {} /\ Having("SUCCESS") = Tasks THEN "SUCCESS"
    ELSE "FAILED"

\* Mutant: the result alone is asked.
SatisfiedByResult(t) == \A d \in Deps[t] : result[d] = "SUCCESS"

\* _dependencies_satisfied, and resolve_inputs on dependencies: both the task
\* and its result must say SUCCESS.
Satisfied(t) == \A d \in Deps[t] : status[d] = "SUCCESS" /\ result[d] = "SUCCESS"
Ready == {t \in Having("PENDING") : Satisfied(t) /\ t \notin blocked}
InputBlocked == {t \in Having("PENDING") : Satisfied(t) /\ t \in blocked}

\* ExecutionReport's validator: the task statuses must account for the results.
Reportable ==
    \A s \in Statuses : Cardinality({t \in Tasks : result[t] = s}) <= Cardinality(Having(s))

-----------------------------------------------------------------------------

Goto(l) == pc' = l
Keep == UNCHANGED <<current, report, cancel, lastCall, bounds>>

\* PersistingTraceBuilder.append: the scheduler's state as it is now, with the event.
Commit ==
    /\ savedRun' = run'
    /\ savedStatus' = status'
    /\ savedResult' = result'
    /\ savedOutputs' = outputs'
    /\ UNCHANGED <<exists, savedReport>>

NoMark == UNCHANGED <<marks, savedMarks>>
NoAttempt == UNCHANGED <<started, ended>>
Silent == NoMark /\ NoAttempt /\ UNCHANGED world

SetStatus(t, s) == status' = [status EXCEPT ![t] = s]
SetResult(t, s) == result' = [result EXCEPT ![t] = s]
Ends(t) == ended' = [ended EXCEPT ![t] = @ + 1] /\ UNCHANGED started

\* The finally clause of start_run and resume_run.
Leave(how) == Goto("idle") /\ lastCall' = how /\ UNCHANGED <<current, report, cancel, bounds>>

Init ==
    /\ blocked \in Blockings
    /\ pc = "idle" /\ current = 0 /\ report = "none" /\ cancel = FALSE
    /\ run = "PENDING" /\ savedRun = "PENDING"
    /\ status = [t \in Tasks |-> "PENDING"] /\ savedStatus = status
    /\ result = [t \in Tasks |-> "none"] /\ savedResult = result
    /\ outputs = {} /\ savedOutputs = {}
    /\ marks = {} /\ savedMarks = {}
    /\ exists = FALSE /\ savedReport = "none"
    /\ started = [t \in Tasks |-> 0] /\ ended = started
    /\ work = [t \in Tasks |-> "none"] /\ damaged = {}
    /\ lastCall = "none" /\ resumes = 0 /\ crashes = 0 /\ damages = 0

-----------------------------------------------------------------------------
(* start_run and load_and_resume_run, up to the scheduler *)

StartRun(c) ==
    /\ pc = "idle" /\ ~exists
    /\ exists' = TRUE
    /\ cancel' = c
    /\ Goto("run")
    /\ UNCHANGED <<current, report, memory, savedRun, savedStatus, savedResult, savedOutputs,
                   savedReport, savedMarks, started, ended, world, lastCall, bounds>>

\* Mutants: success is not reused; a task keeps what tasks.json has for a result.
ResumedAfresh(t) ==
    IF savedResult[t] \in {"RUNNING", "FAILED", "SKIPPED", "CANCELLED"} THEN savedResult[t] ELSE "PENDING"
ResumedAsIs(t) == savedResult[t]

\* evaluate_resume_tasks and apply_resume_reuse: only results count.
Resumed(t) ==
    IF savedResult[t] = "SUCCESS"
    THEN IF t \in savedOutputs /\ t \notin damaged THEN "SUCCESS" ELSE "PENDING"
    ELSE IF savedResult[t] \in {"RUNNING", "FAILED", "SKIPPED", "CANCELLED"} THEN savedResult[t]
    ELSE "PENDING"

\* RUN_RESUMED goes to the builder before it is wrapped to commit what it appends.
Resume ==
    /\ pc = "idle" /\ exists
    /\ resumes < MaxResumes
    /\ resumes' = resumes + 1
    /\ status' = [t \in Tasks |-> Resumed(t)]
    /\ result' = savedResult
    /\ run' = savedRun
    /\ outputs' = outputs \cup savedOutputs
    /\ marks' = savedMarks \cup {"run_resumed"}
    /\ cancel' = FALSE
    /\ Goto("run")
    /\ UNCHANGED <<current, report, store, world, lastCall, crashes, damages>>

-----------------------------------------------------------------------------
(* SequentialScheduler.run: before the loop *)

Begin ==
    /\ pc = "run"
    /\ run' = "RUNNING"
    /\ UNCHANGED <<status, result, outputs>>
    /\ IF "run_started" \in marks
       THEN UNCHANGED <<store, marks>>
       ELSE /\ marks' = marks \cup {"run_started"}
            /\ savedMarks' = savedMarks \cup {"run_started"}
            /\ Commit /\ NoAttempt
    /\ Goto(IF cancel THEN "cancel" ELSE "reconcile")
    /\ UNCHANGED world /\ Keep

\* _cancel_all of start_run(cancelled=True).
CancelTask ==
    /\ pc = "cancel"
    /\ LET open == Having("PENDING") \cup Having("READY") \cup Having("RUNNING") IN
       \/ \E t \in First(open) : SetStatus(t, "CANCELLED") /\ UNCHANGED run /\ Goto("cancel")
       \/ open = {} /\ run' = "CANCELLED" /\ UNCHANGED status /\ Goto("report")
    /\ UNCHANGED <<result, outputs>>
    /\ Commit /\ Silent /\ Keep

Indeterminate == {t \in Tasks : result[t] = "RUNNING" \/ (result[t] # "none" /\ status[t] = "RUNNING")}

\* What the backend may say of its attempt: nothing, or the truth.
Answers(t) ==
    {"unknown"} \cup (IF work[t] = "live" THEN {"live"} ELSE IF work[t] = "none" THEN {} ELSE {work[t]})

\* Mutants: a lost attempt fails the run; an attempt is concluded without an event.
StopFailed(s) ==
    /\ run' = "FAILED"
    /\ UNCHANGED <<status, result, outputs>>
    /\ Commit /\ Silent
    /\ Goto("report")
ConcludeUnrecorded(t, s) ==
    /\ SetStatus(t, s) /\ SetResult(t, s)
    /\ UNCHANGED <<run, outputs, store>>
    /\ NoMark /\ UNCHANGED world

\* _reconcile_indeterminate_tasks, for the next task of the list.
Stop(s) ==
    /\ run' = s
    /\ UNCHANGED <<status, result, outputs>>
    /\ Commit /\ Silent
    /\ Goto("report")

Conclude(t, s) ==
    /\ SetStatus(t, s) /\ SetResult(t, s)
    /\ UNCHANGED <<run, outputs>>
    /\ Commit /\ NoMark /\ Ends(t) /\ UNCHANGED world

Reconcile ==
    /\ pc = "reconcile"
    /\ \E t \in First(Indeterminate) : \E answer \in Answers(t) :
          \/ answer = "live" /\ Stop("INTERRUPTED")
          \/ answer = "unknown" /\ Stop("RECONCILIATION_REQUIRED")
          \/ answer = "failed" /\ Conclude(t, "FAILED") /\ Goto("reconcile")
          \/ answer = "cancelled" /\ Conclude(t, "CANCELLED") /\ Goto("reconcile")
          \/ /\ answer = "succeeded"
             /\ Conclude(t, IF t \in outputs THEN "SUCCESS" ELSE "FAILED")
             /\ Goto("reconcile")
    /\ Keep

\* Mutants: attempts are left unreconciled; an earlier failure is forgotten.
PreserveUnreconciled ==
    /\ pc = "reconcile"
    /\ Goto(IF \E t \in Tasks : status[t] \in {"FAILED", "SKIPPED", "CANCELLED"} THEN "skip" ELSE "loop")
    /\ UNCHANGED <<memory, store, world>> /\ Keep
PreserveNothing ==
    /\ pc = "reconcile" /\ Indeterminate = {}
    /\ Goto("loop")
    /\ UNCHANGED <<memory, store, world>> /\ Keep

\* preserved_terminal: nothing new is started in a run with a failure.
Preserve ==
    /\ pc = "reconcile" /\ Indeterminate = {}
    /\ Goto(IF \E t \in Tasks : status[t] \in {"FAILED", "SKIPPED", "CANCELLED"} THEN "skip" ELSE "loop")
    /\ UNCHANGED <<memory, store, world>> /\ Keep

-----------------------------------------------------------------------------
(* SequentialScheduler.run: the loop.  After a failure every pending task is *)
(* skipped, so that the next round finds nothing to do.                      *)

MakeReady ==
    /\ pc = "loop"
    /\ \E t \in First(Ready) : current' = t /\ SetStatus(t, "READY")
    /\ UNCHANGED <<run, result, outputs>>
    /\ Commit /\ Silent
    /\ Goto("dispatch")
    /\ UNCHANGED <<report, cancel, lastCall, bounds>>

\* _fail_first_input_blocked_task.
FailBlocked ==
    /\ pc = "loop" /\ Ready = {}
    /\ \E t \in First(InputBlocked) : SetStatus(t, "FAILED") /\ SetResult(t, "FAILED")
    /\ UNCHANGED <<run, outputs>>
    /\ Commit /\ Silent
    /\ Goto("propagate") /\ Keep

\* _dispatch_task up to the executor: the attempt is durable before it runs.
Dispatch ==
    /\ pc = "dispatch"
    /\ SetStatus(current, "RUNNING") /\ SetResult(current, "RUNNING")
    /\ outputs' = outputs \ {current}
    /\ UNCHANGED run
    /\ started' = [started EXCEPT ![current] = @ + 1] /\ UNCHANGED ended
    /\ Commit /\ NoMark
    /\ Goto("execute")
    /\ UNCHANGED world /\ Keep

\* execute_attempt is called, and the backend starts to work.
Execute ==
    /\ pc = "execute"
    /\ work' = [work EXCEPT ![current] = "live"]
    /\ damaged' = damaged \ {current}
    /\ Goto("executing")
    /\ UNCHANGED <<memory, store>> /\ Keep

\* It answers; an exception other than the engine's own fails the attempt.
Answer ==
    /\ pc = "executing"
    /\ \E end \in {"succeeded", "failed", "cancelled"} :
          /\ work' = [work EXCEPT ![current] = end]
          /\ report' = end
    /\ Goto("register")
    /\ UNCHANGED <<damaged, memory, store, current, cancel, lastCall, bounds>>

ExecutorException ==
    /\ pc = "executing"
    /\ work' = [work EXCEPT ![current] = "failed"] /\ UNCHANGED damaged
    /\ SetStatus(current, "FAILED") /\ SetResult(current, "FAILED")
    /\ UNCHANGED <<run, outputs>>
    /\ Commit /\ NoMark /\ Ends(current)
    /\ Goto("propagate") /\ Keep

\* register_candidate and ARTIFACT_REGISTERED, when the attempt left its outputs.
Register ==
    /\ pc = "register"
    /\ \/ /\ outputs' = outputs \cup {current}
          /\ UNCHANGED <<run, status, result>>
          /\ Commit /\ Silent
       \/ UNCHANGED <<memory, store, world>>
    /\ Goto("conclude") /\ Keep

\* The rest of _dispatch_task, and the branch on its result.  For a cancelled
\* attempt the loop calls _cancel_all without run_state, a TypeError.
ConcludeTask ==
    /\ pc = "conclude"
    /\ \/ /\ report = "succeeded" /\ current \in outputs
          /\ Conclude(current, "SUCCESS")
          /\ Goto("loop") /\ Keep
       \/ /\ report = "failed" \/ (report = "succeeded" /\ current \notin outputs)
          /\ Conclude(current, "FAILED")
          /\ Goto("propagate") /\ Keep
       \/ /\ report = "cancelled"
          /\ Conclude(current, "CANCELLED")
          /\ Leave("raised")

SkipTask(t) ==
    /\ SetStatus(t, "SKIPPED")
    /\ UNCHANGED <<run, result, outputs>>
    /\ Commit /\ Silent

\* Mutant: a skipped task counts as changed again.
PropagateAgain ==
    /\ pc = "propagate"
    /\ LET downstream == {t \in Having("PENDING") \cup Having("SKIPPED") :
                              \E d \in Deps[t] : status[d] \in {"FAILED", "SKIPPED"}} IN
       \/ \E t \in downstream : SkipTask(t) /\ Goto("propagate")
       \/ downstream = {} /\ Goto("skip") /\ UNCHANGED <<memory, store, world>>
    /\ Keep

\* _propagate_skips, one task of one sweep.
Propagate ==
    /\ pc = "propagate"
    /\ LET downstream == {t \in Having("PENDING") : \E d \in Deps[t] : status[d] \in {"FAILED", "SKIPPED"}} IN
       \/ \E t \in downstream : SkipTask(t) /\ Goto("propagate")
       \/ downstream = {} /\ Goto("skip") /\ UNCHANGED <<memory, store, world>>
    /\ Keep

\* _skip_remaining_pending.
SkipPending ==
    /\ pc = "skip"
    /\ \/ \E t \in First(Having("PENDING")) : SkipTask(t) /\ Goto("skip")
       \/ Having("PENDING") = {} /\ Goto("loop") /\ UNCHANGED <<memory, store, world>>
    /\ Keep

Finish ==
    /\ pc = "loop" /\ Ready = {} /\ InputBlocked = {}
    /\ run' = TerminalStatus
    /\ UNCHANGED <<status, result, outputs>>
    /\ Commit /\ Silent
    /\ Goto("report") /\ Keep

\* Mutant: the first report stays.
ReportOnce ==
    /\ pc = "report"
    /\ IF Reportable
       THEN savedReport' = (IF savedReport = "none" THEN run ELSE savedReport) /\ Leave("returned")
       ELSE UNCHANGED savedReport /\ Leave("raised")
    /\ UNCHANGED <<memory, world, exists, savedRun, savedStatus, savedResult, savedOutputs, savedMarks, started, ended>>

\* assemble_execution_report, which may raise, and save_report.
Report ==
    /\ pc = "report"
    /\ IF Reportable
       THEN savedReport' = run /\ Leave("returned")
       ELSE UNCHANGED savedReport /\ Leave("raised")
    /\ UNCHANGED <<memory, world, exists, savedRun, savedStatus, savedResult, savedOutputs, savedMarks, started, ended>>

-----------------------------------------------------------------------------

\* The process dies, and the tracker's memory with it; or a commit or the
\* executor raises, and the same process may resume later.
Crash ==
    /\ pc # "idle"
    /\ crashes < MaxCrashes /\ crashes' = crashes + 1
    /\ Goto("idle") /\ lastCall' = "crashed"
    /\ outputs' \in {{}, outputs} \cup (IF pc = "register" THEN {outputs \cup {current}} ELSE {})
    /\ UNCHANGED <<current, report, cancel, run, status, result, marks, store, world, resumes, damages>>

\* An attempt whose process died ends on its own.
WorkEnds(t) ==
    /\ work[t] = "live" /\ ~(pc = "executing" /\ current = t)
    /\ \E end \in {"succeeded", "failed", "cancelled"} : work' = [work EXCEPT ![t] = end]
    /\ UNCHANGED <<pc, current, report, cancel, memory, store, damaged, lastCall, bounds>>

\* The files of a task that succeeded are deleted or altered.
Damage(t) ==
    /\ damages < MaxDamage /\ damages' = damages + 1
    /\ t \in savedOutputs \ damaged
    /\ damaged' = damaged \cup {t}
    /\ UNCHANGED <<pc, current, report, cancel, memory, store, work, lastCall, resumes, crashes>>

Scheduler ==
    \/ Begin \/ CancelTask \/ Reconcile \/ Preserve
    \/ MakeReady \/ FailBlocked \/ Dispatch \/ Execute
    \/ Register \/ ConcludeTask \/ Propagate \/ SkipPending \/ Finish \/ Report

Next ==
    /\ \/ \E c \in BOOLEAN : StartRun(c)
       \/ Resume \/ Scheduler \/ Answer \/ ExecutorException \/ Crash
       \/ \E t \in Tasks : WorkEnds(t) \/ Damage(t)
    /\ UNCHANGED blocked

Spec == Init /\ [][Next]_vars

\* The one thread of a call goes on as long as the call is not cut short; the
\* backend may never answer, local commands have no timeout by default.
FairSpec == Spec /\ WF_vars(Scheduler /\ UNCHANGED blocked)

-----------------------------------------------------------------------------

TypeOK ==
    /\ blocked \in Blockings
    /\ pc \in {"idle", "run", "cancel", "reconcile", "loop", "dispatch", "execute", "executing",
               "register", "conclude", "propagate", "skip", "report"}
    /\ current \in Tasks \cup {0}
    /\ report \in {"none", "succeeded", "failed", "cancelled"}
    /\ cancel \in BOOLEAN /\ exists \in BOOLEAN
    /\ run \in RunStatuses /\ savedRun \in RunStatuses
    /\ savedReport \in RunStatuses \cup {"none"}
    /\ status \in [Tasks -> Statuses] /\ savedStatus \in [Tasks -> Statuses]
    /\ result \in [Tasks -> Statuses \cup {"none"}] /\ savedResult \in [Tasks -> Statuses \cup {"none"}]
    /\ outputs \subseteq Tasks /\ savedOutputs \subseteq Tasks /\ damaged \subseteq Tasks
    /\ marks \subseteq {"run_started", "run_resumed"} /\ savedMarks \subseteq {"run_started", "run_resumed"}
    /\ started \in [Tasks -> Nat] /\ ended \in [Tasks -> Nat]
    /\ work \in [Tasks -> {"none", "live", "succeeded", "failed", "cancelled"}]
    /\ lastCall \in {"none", "returned", "raised", "crashed"}
    /\ resumes \in 0..MaxResumes /\ crashes \in 0..MaxCrashes /\ damages \in 0..MaxDamage

\* When an attempt is handed to the backend the backend works on no other
\* attempt: sequential dispatch holds across crashes, because an attempt whose
\* fate is unknown is never replaced (scheduling.py:101-119,
\* docs EXECUTION_ENGINE.md:200).
OneAttemptAtATime == pc = "execute" => \A t \in Tasks : work[t] # "live"

\* What the store says of attempts is the number of them that started and did
\* not end: one for a task whose saved result is RUNNING, none for any other
\* task; a reconciled attempt is neither closed twice nor left open.
AttemptsAccounted ==
    \A t \in Tasks : started[t] = ended[t] + (IF savedResult[t] = "RUNNING" THEN 1 ELSE 0)

\* A task runs on dependencies whose success is in the store, whatever was
\* resumed, rejected or reconciled before it started (scheduling.py:431-443).
RunsOnSuccess ==
    [][\A t \in Tasks : started'[t] > started[t] =>
          \A d \in Deps[t] : savedStatus[d] = "SUCCESS" /\ savedResult[d] = "SUCCESS"]_vars

\* Once a failed or cancelled result is in the store nothing new starts, not
\* even when the call that was to skip the rest died (scheduling.py:120-133).
NothingStartsAfterFailure ==
    [][(\E t \in Tasks : savedResult[t] \in {"FAILED", "CANCELLED"}) => started' = started]_vars

\* A task that succeeded is run again only when its outputs no longer validate
\* (resume.py:148-157).
SuccessIsReused ==
    [][\A t \in Tasks : started'[t] > started[t] /\ savedResult[t] = "SUCCESS"
          => t \in damaged]_vars

\* A run that is said to have ended has ended: no task is left to run or
\* running, and a successful one has the success of every task
\* (report.py:107, scheduling.py:184).
EndedRunHasEndedTasks ==
    /\ savedRun \in {"SUCCESS", "FAILED", "CANCELLED"} => \A t \in Tasks : savedStatus[t] \in Final
    /\ savedRun = "SUCCESS" => \A t \in Tasks : savedResult[t] = "SUCCESS"

\* A call that returns has settled the run, and the stored report says what the
\* stored run says (engine.py:162-169).
ReturnedRunIsReported ==
    lastCall = "returned" /\ pc = "idle" => savedReport = savedRun /\ savedRun \notin {"PENDING", "RUNNING"}

\* Every call ends, unless the backend never answers: the loops of run and
\* _propagate_skips run out of tasks (scheduling.py:136, :797).
CallsEnd == []<>(pc = "idle") \/ <>[](pc = "executing")
=============================================================================
