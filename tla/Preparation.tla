------------------------------ MODULE Preparation ------------------------------
(***************************************************************************)
(* execution/preparation, execution/backends/local_executor and            *)
(* execution/artifacts: one preparation task of a graph, through the runs  *)
(* of the workspace.  A run's engine starts a child process that fetches or*)
(* renders the target, looks at it and leaves a receipt; the child may be  *)
(* killed at any step, and outlives an engine that dies.  Target, receipt  *)
(* and their temporary files have the same names for every run.            *)
(* What the scheduler does around the task is in ExecutionEngine, which run*)
(* is started or resumed in WorkspaceRuns.  A version of a repository is   *)
(* its HEAD.  Whatever is fetched is named by revision or checksum         *)
(* (ReadyFetchesAreFixed of ExecutionMaterialization); what somebody put   *)
(* into the workspace may be taken as it is.                               *)
(***************************************************************************)
EXTENDS Naturals, Sequences

CONSTANTS Kinds,        \* of preparation: subset of AllKinds
          Versions,     \* contents a target may have
          Lacking,      \* those without a path the repository must have, "none" among them if it must have any
          Unversioned,  \* directories without .git
          Wanted,       \* the version each materialization asks for, in their order
          MaxRuns,      \* bound: runs started
          MaxAlters     \* bound: files changed by somebody else

Repositories == {"git", "checkout"}
Assets == {"https", "archive", "workspace"}
Configurations == {"copied", "rendered", "existing"}
AllKinds == Repositories \cup Assets \cup Configurations

ASSUME PreparationAssumption ==
    /\ Kinds \subseteq AllKinds
    /\ Versions \cap {"none", "torn", "unsigned"} = {}
    /\ Lacking \subseteq Versions \cup {"none"} /\ (Lacking # {} => "none" \in Lacking)
    /\ Unversioned \subseteq Versions
    /\ Wanted \in Seq(Versions \ Unversioned) /\ Wanted # << >>
    /\ {MaxRuns, MaxAlters} \subseteq Nat

Runs == 1..MaxRuns
Files == {"target", "target.tmp", "receipt", "receipt.tmp"}

VARIABLES
    kind,           \* of the task's request: operation, source_kind, archive_format
    pinned,         \* the request says what its target holds: by revision, checksum, source or values
    materialized,   \* the last materialization
    file,           \* what each file holds: "none" without one, "torn" while it is written
    run, task,      \* of each run: its engine, the status of the task
    graph,          \* the materialization it executes, 0 before it starts
    child,          \* the child process of its last attempt
    disturbed,      \* two runs at once, or a target that changes under a child
    touched,        \* the target has been changed since the task was started or resumed
    alters

engines == <<run, task, graph>>
bounds == <<disturbed, touched, alters>>
request == <<kind, pinned>>
vars == <<request, materialized, file, engines, child, bounds>>

Contents == Versions \cup {"torn"}
Wants(r) == Wanted[graph[r]]
Active(r) == child[r].pc \notin {"none", "done", "failed"}

\* Others at work: engines, and children that outlived theirs.
Company(r) == {s \in Runs \ {r} : run[s] = "live" \/ Active(s)}

NoChild == [pc |-> "none", file |-> "none", payload |-> "none", handle |-> "none"]

Init ==
    /\ kind \in Kinds
    /\ pinned \in (IF kind \in {"checkout", "workspace"} THEN BOOLEAN ELSE {kind # "existing"})
    /\ materialized = 1
    /\ \E given \in (IF kind \in {"checkout", "workspace", "existing"} THEN Versions \cup {"none"} ELSE {"none"}) :
          file = [f \in Files |-> IF f = "target" THEN given ELSE "none"]
    /\ run = [r \in Runs |-> "none"] /\ task = [r \in Runs |-> "none"]
    /\ graph = [r \in Runs |-> 0]
    /\ child = [r \in Runs |-> NoChild]
    /\ disturbed = FALSE /\ touched = FALSE /\ alters = 0

-----------------------------------------------------------------------------
(* The child process: execute_preparation *)

Goes(r, pc) == child' = [child EXCEPT ![r].pc = pc]
\* It is through with what it held, or altogether.
Exits(r, pc) == child' = [child EXCEPT ![r] = [NoChild EXCEPT !.pc = pc]]
Leaves == UNCHANGED file
Child == UNCHANGED <<request, materialized, engines, bounds>>

\* A clone is made unless one is there; a checkout must be.
LookForRepository(r) ==
    CASE kind = "git" /\ file["target"] = "none" -> Goes(r, "stage")
      [] file["target"] \in Versions /\ (kind = "git" => file["target"] \notin Unversioned) -> Goes(r, "examine")
      [] OTHER -> Exits(r, "failed")

\* A download never replaces what is there; an asset of the workspace is compared
\* if the request has a checksum.
LookForAsset(r) ==
    CASE kind = "workspace" /\ file["target"] # "none" /\ (pinned => file["target"] = Wants(r)) -> Goes(r, "examine")
      [] kind # "workspace" /\ file["target"] = "none" -> Goes(r, "stage")
      [] OTHER -> Exits(r, "failed")

\* A configuration that is its own source must be there and is left alone.
LookForConfiguration(r) ==
    CASE kind = "copied" -> Goes(r, "stage")
      [] kind = "existing" -> IF file["target"] # "none" THEN Goes(r, "examine") ELSE Exits(r, "failed")
      [] kind = "rendered" -> child' = [child EXCEPT ![r].pc = "open", ![r].file = "target", ![r].payload = Wants(r)]

Look(r) ==
    /\ child[r].pc = "look"
    /\ \/ kind \in Repositories /\ LookForRepository(r)
       \/ kind \in Assets /\ LookForAsset(r)
       \/ kind \in Configurations /\ LookForConfiguration(r)
    /\ Leaves /\ Child

\* What the source delivers: a download may be cut short or be another file.
Delivered(r) ==
    CASE kind = "git" -> {Wants(r)}
      [] kind = "copied" -> {Wanted[materialized]}
      [] OTHER -> Contents

\* _verify_checksum, with a mutant: what was downloaded is taken.
Unverified(r, got) == TRUE
Verified(r, got) == kind \in {"https", "archive"} => got = Wants(r)

Stage(r) ==
    /\ child[r].pc = "stage"
    /\ \/ \E got \in Delivered(r) :
             IF Verified(r, got)
             THEN child' = [child EXCEPT ![r].pc = "publish", ![r].payload = got]
             ELSE Exits(r, "failed")
       \/ Exits(r, "failed")
    /\ Leaves /\ Child

\* os.replace: a directory that is there is not replaced.
Publish(r) ==
    /\ child[r].pc = "publish"
    /\ IF kind \in {"git", "archive"} /\ file["target"] # "none"
       THEN Exits(r, "failed") /\ Leaves
       ELSE Exits(r, "examine") /\ file' = [file EXCEPT !["target"] = child[r].payload]
    /\ Child

\* The required paths of a repository, its HEAD if it has one and the request a
\* revision, the digest of anything else: what is there may not be what this
\* child published.
Examined(r) ==
    IF kind \in Repositories
    THEN /\ file["target"] \notin Lacking
         /\ pinned /\ file["target"] \in Versions \ Unversioned => file["target"] = Wants(r)
    ELSE file["target"] # "none"

Examine(r) ==
    /\ child[r].pc = "examine"
    /\ IF Examined(r)
       THEN child' = [child EXCEPT ![r].pc = "open", ![r].file = "receipt",
                         ![r].payload = IF kind \in Repositories THEN "unsigned" ELSE file["target"]]
       ELSE Exits(r, "failed")
    /\ Leaves /\ Child

\* _atomic_json: of the target it renders, and of the receipt.
Tmp(f) == IF f = "target" THEN "target.tmp" ELSE "receipt.tmp"

\* A file being written keeps its writer under its new name, and the one replaced
\* its writer under none.
Moved(f, to) ==
    [s \in Runs |-> [child[s] EXCEPT !.handle = IF @ = f THEN to ELSE IF @ = to THEN "gone" ELSE @]]

Open(r) ==
    /\ child[r].pc = "open"
    /\ file' = [file EXCEPT ![Tmp(child[r].file)] = "torn"]
    /\ child' = [child EXCEPT ![r].pc = "write", ![r].handle = Tmp(child[r].file)]
    /\ Child

Write(r) ==
    /\ child[r].pc = "write"
    /\ file' = [f \in Files |-> IF f = child[r].handle THEN child[r].payload ELSE file[f]]
    /\ child' = [child EXCEPT ![r].pc = "rename", ![r].handle = "none"]
    /\ Child

Rename(r) ==
    /\ child[r].pc = "rename"
    /\ LET f == child[r].file IN
       IF file[Tmp(f)] = "none"
       THEN Exits(r, "failed") /\ Leaves
       ELSE /\ file' = [file EXCEPT ![f] = file[Tmp(f)], ![Tmp(f)] = "none"]
            /\ child' = [Moved(Tmp(f), f) EXCEPT ![r].pc = "unlink"]
    /\ Child

\* Its finally clause: the temporary file that is there now is another child's.
Unlink(r) ==
    /\ child[r].pc = "unlink"
    /\ LET f == child[r].file IN
       /\ file' = [file EXCEPT ![Tmp(f)] = "none"]
       /\ child' = [Moved(Tmp(f), "gone") EXCEPT ![r] = [NoChild EXCEPT !.pc = IF f = "target" THEN "examine" ELSE "done"]]
    /\ Child

-----------------------------------------------------------------------------
(* The engine: LocalExecutor and the artifact tracker *)

Following(r) == \A s \in Runs : s < r <=> run[s] # "none"

StartRun(r) ==
    /\ Following(r)
    /\ run' = [run EXCEPT ![r] = "live"]
    /\ task' = [task EXCEPT ![r] = "pending"]
    /\ graph' = [graph EXCEPT ![r] = materialized]
    /\ disturbed' = (disturbed \/ Company(r) # {})
    /\ UNCHANGED <<request, materialized, file, child, touched, alters>>

Engine == UNCHANGED <<request, materialized, file, graph, bounds>>
Fails(r) ==
    /\ task' = [task EXCEPT ![r] = "failed"]
    /\ run' = [run EXCEPT ![r] = "ended"]

\* execute_attempt: the child is started.
Spawn(r) ==
    /\ task' = [task EXCEPT ![r] = "running"]
    /\ child' = [child EXCEPT ![r] = [NoChild EXCEPT !.pc = "look"]]
    /\ UNCHANGED run

\* parse_local_invocation finds a fault in the task, or there is no such command.
Refuse(r) == Fails(r) /\ UNCHANGED child

Dispatch(r) ==
    /\ run[r] = "live" /\ task[r] = "pending"
    /\ Spawn(r) \/ Refuse(r)
    /\ touched' = FALSE
    /\ UNCHANGED <<request, materialized, file, graph, disturbed, alters>>

\* _collect_artifact_candidates: a declared output need only be there.
Collected == {"receipt"} \ {f \in Files : file[f] = "none"}

\* validate_required_outputs of what was registered.
OutputsValid(registered) == "receipt" \in registered

\* The child exits: with 0 and the required outputs, or the attempt failed.
Collect(r) ==
    /\ run[r] = "live" /\ task[r] = "running" /\ ~Active(r)
    /\ IF child[r].pc = "done" /\ OutputsValid(Collected)
       THEN task' = [task EXCEPT ![r] = "success"] /\ UNCHANGED run
       ELSE Fails(r)
    /\ UNCHANGED child /\ Engine

Timeout(r) ==
    /\ run[r] = "live" /\ task[r] = "running" /\ Active(r)
    /\ Exits(r, "failed")
    /\ Fails(r) /\ Engine

\* The nodes behind the task have what they need, and the run ends in its own time.
Finish(r) ==
    /\ run[r] = "live" /\ task[r] = "success"
    /\ run' = [run EXCEPT ![r] = "ended"]
    /\ UNCHANGED <<task, child>> /\ Engine

\* An engine whose terminal is closed takes its child with it, one that is killed does not.
EngineDies(r) ==
    /\ run[r] = "live"
    /\ run' = [run EXCEPT ![r] = "dead"]
    /\ (Active(r) /\ Exits(r, "failed")) \/ UNCHANGED child
    /\ UNCHANGED task /\ Engine

\* _preparation_receipt_valid, with a mutant: the target need only be there.
ReceiptPresent == file["receipt"] \notin {"none", "torn"} /\ file["target"] # "none"
ReceiptValid ==
    /\ file["receipt"] \notin {"none", "torn"}
    /\ file["target"] # "none"
    /\ file["receipt"] \in {"unsigned", file["target"]}

\* Mutant: a task whose attempt may still be running is left as it is.
ResumedAsIs(r) == IF task[r] = "success" /\ ~ReceiptValid THEN "pending" ELSE task[r]

\* evaluate_resume_tasks for it: nobody knows of a child whose engine is gone.
Resumed(r) ==
    CASE task[r] = "success" -> IF ReceiptValid THEN "success" ELSE "pending"
      [] task[r] = "running" -> "indeterminate"
      [] OTHER -> task[r]

Resume(r) ==
    /\ run[r] = "dead" /\ graph[r] = materialized
    /\ run' = [run EXCEPT ![r] = IF task[r] = "running" THEN "ended" ELSE "live"]
    /\ task' = [task EXCEPT ![r] = Resumed(r)]
    /\ disturbed' = (disturbed \/ Company(r) # {}) /\ touched' = FALSE
    /\ UNCHANGED <<request, materialized, file, graph, child, alters>>

-----------------------------------------------------------------------------

\* Somebody materializes again, and edits the configuration that is copied.
Rematerialize ==
    /\ materialized < Len(Wanted) /\ materialized' = materialized + 1
    /\ disturbed' = (disturbed \/ \E r \in Runs : run[r] = "live")
    /\ UNCHANGED <<request, file, engines, child, touched, alters>>

\* Somebody puts another file in the place of the target, or removes target or receipt.
Alter(f) ==
    /\ alters < MaxAlters /\ alters' = alters + 1
    /\ \E c \in (IF f = "target" THEN Versions \cup {"none"} ELSE {"none"}) \ {file[f]} :
          file' = [file EXCEPT ![f] = c]
    /\ child' = Moved(f, "gone")
    /\ touched' = TRUE
    /\ disturbed' = (disturbed \/ \E r \in Runs : Active(r))
    /\ UNCHANGED <<request, materialized, engines>>

ChildStep(r) == Look(r) \/ Stage(r) \/ Publish(r) \/ Examine(r) \/ Open(r) \/ Write(r) \/ Rename(r) \/ Unlink(r)

Next ==
    \/ \E r \in Runs :
          \/ ChildStep(r)
          \/ StartRun(r) \/ Dispatch(r) \/ Collect(r) \/ Timeout(r) \/ Finish(r)
          \/ EngineDies(r) \/ Resume(r)
    \/ Rematerialize
    \/ Alter("target") \/ Alter("receipt")

Spec == Init /\ [][Next]_vars

-----------------------------------------------------------------------------

\* Every variable has its type; only a run that has ended is through with the
\* task, and a file somebody is writing is there.
TypeOK ==
    /\ kind \in Kinds /\ pinned \in BOOLEAN /\ materialized \in DOMAIN Wanted
    /\ file \in [Files -> Contents \cup {"none", "unsigned"}]
    /\ run \in [Runs -> {"none", "live", "dead", "ended"}]
    /\ task \in [Runs -> {"none", "pending", "running", "success", "failed", "indeterminate"}]
    /\ graph \in [Runs -> 0..materialized]
    /\ \A r \in Runs :
          /\ run[r] = "ended" => task[r] \in {"success", "failed", "indeterminate"}
          /\ child[r].pc \in {"none", "look", "stage", "publish", "examine", "open", "write", "rename",
                              "unlink", "done", "failed"}
          /\ child[r].handle \in {"none", "gone"} \/ file[child[r].handle] # "none"

\* operations.py: whatever the program itself puts in the target's place, at
\* any point of any number of overlapping runs, is complete, verified and what
\* a run of the workspace asked for; a clone or an extracted archive that is
\* there is never replaced.  A file that is rendered is safe only when its
\* child is alone.
PublishedIsWanted ==
    [][file'["target"] = file["target"] \/ alters' # alters \/ (kind = "rendered" /\ disturbed)
       \/ /\ \E r \in Runs : Active(r) /\ (\E m \in graph[r]..materialized : file'["target"] = Wanted[m])
          /\ kind \in {"git", "archive"} => file["target"] = "none"]_vars

\* local_executor.py and artifacts/in_memory.py: while a run holds the task for
\* successful, in the session that prepared it or in a later one that takes it
\* over from the store, the target is there, its receipt vouches for it, and it
\* is what its materialization asked for, if the request says what that is:
\* whatever was killed before and whatever happened to the files while no engine
\* was at work.  A repository is not looked at again, and one without .git not
\* compared.  Runs that overlap may spoil each other's rendered and copied
\* configurations, downloaded files and receipts, and nothing else.
WorkloadFindsItsInputs ==
    \A r \in Runs :
        /\ run[r] = "live" /\ task[r] = "success"
        /\ ~touched
        /\ disturbed => kind \notin {"copied", "rendered", "https"} /\ alters = 0
        => /\ file["target"] # "none"
           /\ ~disturbed => ReceiptValid
           /\ /\ pinned
              /\ kind \in Repositories => alters = 0
              /\ kind = "checkout" => file["target"] \notin Unversioned
              => file["target"] = Wants(r)
================================================================================
