# Man1Lab in TLA+

Man1Lab reads a research paper, looks for the resources it needs (repositories, checkpoints,
datasets), plans how to reproduce it, and executes the plan as a graph of tasks whose state
survives crashes. This directory holds TLA+ models of the parts of that program that keep state
or decide something, TLC configurations that check them, and theorems about them that TLAPS
checks. Paths below are relative to the repository's `src/` unless they start with `docs/`.

Run a check with `tlc -config MCx.cfg MCx`, a proof with `tlapm X_proofs.tla`.

## 1. Inventory

### The execution runtime

| Component | State | Operations | What is hard |
|---|---|---|---|
| Run writer lock, `runtime/execution_store/locking.py` | `.writer.lock`: absent, empty, or a record with owner pid, host and token | acquire, release, recover_stale | any two processes at once; an owner that dies at any step; a pid that is used again; an owner the asker may not probe; the lock is removed by name |
| File store, `runtime/execution_store/{file_store,journal,atomic_io,snapshot_meta}.py` | `run.json`, `tasks.json`, `artifacts.json`, `report.json`, `trace.jsonl`, `journal/*.json` | create_run, load_snapshot (which recovers), commit_transition, save_report, list_resumable_runs | a crash between any two writes, also of the recovery; a retry of what was committed; a line written in part |
| In-memory store, `execution/persistence/in_memory.py` | one snapshot per run | the same | nothing: it is what the file store should look like |
| Engine and scheduler, `execution/{engine,scheduling,resume,report,transitions,trace}.py`, `execution/persistence/coordinator.py` | run status, task statuses, results, registered outputs, trace; a copy of all of it in the store | start_run, resume_run, load_and_resume_run; per task: ready, dispatch, register, conclude, reconcile, skip, cancel | what a resumed call may reuse, repeat or start; a crash after any commit; an attempt that outlives its process; outputs that change on disk |
| Decomposition, `execution/{decomposition,validation}.py` | none | graph to tasks, Kahn's algorithm | cycles, unknown dependencies |
| Artifact tracker, input resolver, reconciliation, `execution/{artifacts,input_resolver,reconciliation}/` | candidates, registered and missing artifacts | register, validate, resolve, reconcile | artifacts that are registered and gone; attempts nobody knows about |
| Executors and preparation, `execution/{backends,preparation}/` | a child process, files of a task | execute, time out, terminate | a timeout racing the end of the command; half-done file operations |

The engine calls the store through `PersistingTraceBuilder`: every trace event commits the whole
run state in one transition, so that the events are the only points where a crash can be seen. The
store calls the lock at acquire_writer and when a reader meets a journal. The executor is called
between two events, and its work goes on if the process dies.

### The research pipeline

| Component | State | Operations | What is hard |
|---|---|---|---|
| Discovery, `discovery/`, `services/discovery/` | candidates, evidence, verification, ranking, selection, gaps | collect, evidence, verify, rank, select, assemble | several providers answer for one candidate and are merged at each stage; three lists say which needs are open |
| Embedded providers, `providers/embedded/` | none | the paper's own references as candidates | one reference addresses at most one need |
| GitHub providers, `providers/github/` | none | look-ups by URL, twice | refusals, renames between two calls, malformed bodies |
| Execution planning, `execution_planning/`, `services/execution_planning/` | posture, bindings, reuse, adaptation, generation, risk | six decisions and the assembly | each decision looks at the facts again |
| Validators, `validation/`, `models/` | none | accept or reject an artifact | what one decision produces another layer rejects |
| Execution graph, evidence, materialization, `execution_planning/execution_graph.py`, `discovery/execution_evidence/`, `execution_materialization/` | a planned graph, typed evidence, a report and an executable graph | plan the graph, project, materialize each node, validate, admit | two readers of the same records that follow different rules; a directory that exists only after another task |

### The platform around them

| Component | State | Operations | What is hard |
|---|---|---|---|
| Session, workspace artifacts, console, facade, `runtime/session/`, `runtime/console/`, `application/` | artifacts on disk and their copies in the session | analyze, discover, plan, execute, reproduce, clean | an artifact of another paper or an earlier plan that is used as if it were current |
| Lifecycle and lazy resources, `runtime/{runtime,state}.py`, `runtime/{lazy,resources}/` | two small state machines, lazily built values | startup, shutdown, open, close, get | initialisation by two threads; a failure that is cached |
| Model registry, `providers/llm/` | profiles, the active one, the provider built from it, a file | add, use, remove, rename, import, restart | a refused change that has already been made |
| Orchestrator and agents, `workflow/`, `agents/`, `planning/`, `workspace/`, `routing/` | one workspace per task | read, plan, code, run, review, patch | nothing the rest depends on: the facade builds the orchestrator and never calls it |
| Configuration, prompts, tracking, CLI, SDK, parsers | none that a property is about | | |

What makes each part correct is what the properties of section 4 say; the hazards they answer to,
each at its line, are listed in `PROJECT.json`.

## 2. The modules

| Module | Models | Extends / instantiates |
|---|---|---|
| `RunWriterLock` | the writer lock, one file-system call per step, any number of processes on any machines | |
| `RunWriterLock_proofs` | its inductive invariant and five more theorems | `RunWriterLock` |
| `ExecutionStore` | what a store promises: each operation is one step (the in-memory store) | |
| `FileExecutionStore` | the file store, one file write per step, cut short anywhere | instantiates `ExecutionStore` under a refinement mapping |
| `FileExecutionStore_proofs` | its inductive invariant, its properties, and that it implements `ExecutionStore` | `FileExecutionStore` |
| `ExecutionEngine` | one run of a task graph: scheduler, store, backend and the outputs on disk | |
| `ExecutionEngine_proofs` | its inductive invariant and nine theorems | `ExecutionEngine` |
| `Discovery` | the discovery workflow with its embedded and GitHub providers | |
| `ExecutionPlanning` | the six planning decisions on top of a discovery; the whole pipeline's specification | `Discovery` |
| `ExecutionMaterialization` | from a plan to the tasks of a run: planned graph, evidence, materialization, readiness, gate, decomposition | |
| `ExecutionMaterialization_proofs` | its inductive invariant and four theorems | `ExecutionMaterialization` |
| `Preparation` | one preparation task: engine, child process, target, receipt and their temporary files, over the runs of a workspace | |
| `Preparation_proofs` | its inductive invariant and three theorems | `Preparation` |
| `Workspace` | the artifacts of analysis, discovery and planning, on disk and in the sessions of consoles and commands | |
| `Workspace_proofs` | its inductive invariant and two theorems | `Workspace` |
| `WorkspaceRuns` | from a materialization to a run: graph and report on disk, the gate, which run is resumed | |
| `WorkspaceRuns_proofs` | its inductive invariant and three theorems | `WorkspaceRuns` |
| `ModelRegistry` | model profiles in each process, the overlay file, the provider in use | |
| `ModelRegistry_proofs` | its inductive invariant and three theorems | `ModelRegistry` |
| `MC*` | constants for TLC | |

How the models correspond to the code (the exact lines are under `map` in `PROJECT.json`):

**RunWriterLock.** `file` is `.writer.lock`, with the life that created it and whether its record has
been written. A process is in a `stage` (recover_stale, acquire, _create_exclusive_lock) at a
`step` of it: look (`is_file` or the exclusive open), read, judge (`_lock_stale`), unlink, open,
write. `seen` is the owner in the record it read. Between two steps every other process may move,
and any process may die and come back with its old pid and a new token. `HostKnown` says whether
the records carry a host; without it `_lock_stale` cannot tell machines apart, so that contenders
must share one (`HostAssumption`). `user` is who a life runs as. `PidRunning` is `os.kill(pid, 0)` with
every OSError taken for "not running": on POSIX a process sees those of its own user only, unless it is
root's (`Refused`); on Windows access denied counts as running. `misjudged` remembers that a running
owner was condemned for it.

**FileExecutionStore.** A file is the revision in its wrapper and the name of the transition whose
content it has. An `atomic_write_json` is one step: it replaced its file or left it alone. An
append may leave part of a line (`TearAppend`), and `Appended` does what a later append makes of
it. `pc` is the next write of the call in progress. `CommitTransition` offers either a new event or
the last one again. `Interrupt` ends a call at any write: the process died or the write raised; the
engine gives up its session in both cases. A commit carries one event because that is how the
engine's coordinator stages them.

**ExecutionEngine.** The scheduler's variables (`run`, `status`, `result`, `outputs`, `marks`) have a
saved copy each, which only `Commit` writes, in the same step as the change before the event: this
is what `PersistingTraceBuilder.append` does, and that a commit is one step is what the file store's
refinement shows. `started` and `ended` count the attempts' events. `work` is the backend's last
attempt of a task and `damaged` the tasks whose files no longer match; both go on when the process
dies. `blocked` names the tasks with a required input that no artifact satisfies. After a crash the
scheduler's variables keep their values but the only way on is `Resume`, which sets them again from
the store; the artifact tracker is the exception, since a process that survived its call keeps it.

**Discovery and ExecutionPlanning.** One action per stage. A candidate is named by its normalised
URL, since that is what the merge keys on for everything a paper cites; a need is a position in the
list of gaps. GitHub's answers are chosen per look-up, also between the two look-ups of one
repository. A GitHub ranking score is any order of the candidates. The planning stages read the
discovery's variables directly, as the facts builder does. Below the stages an operator stands for
each function that decides something: the single checks of the GitHub verifier (`Checks`), the rank
list of each provider, the five dimensions and the four rules of the strategy, and each part of the
two validators (`CandidatesKnown`, `BindingsUnique`, ...), so that a validator is the conjunction of
the checks its code makes. The record sets of `TypeOK` are the models of `models/`, with the fields a
decision reads.

**ExecutionMaterialization.** `graph` is what `build_execution_graph` plans, a node named by its stage;
`wiring` also gives it no dependencies or a cycle, since `materialize` and `run_execution` take
any graph. `ProjectEvidence` keeps of the discovery's records what the projector keeps, and offers the
call without a bundle, which the signature allows. `MaterializeNode` is one turn of the loop: it goes
on after a failure, so that a report has a result for every node. A preparation takes the one
descriptor that its bindings and assets name; a workload takes the repository's directory, first
from the descriptor and then from the resolvers' index, which reads the same records by other rules
(`IndexedDirs`). `Acyclic` is Kahn's algorithm; `WorkFollowsItsClone` says what it is for without it.
The strategies and discoveries are inputs and not those `ExecutionPlanning` computes: candidates and
records carry facts (checksums, scripts, directories) that the default providers do not set yet.

**Preparation.** A child goes through `_prepare_repository`, `_prepare_asset` or
`_prepare_configuration` one file operation at a time (`Look`, `Stage`, `Publish`, `Examine`) and then
writes its receipt (`Open`, `Write`, `Rename`, `Unlink`). `file` has the target, the receipt and one
temporary file for each, because that is what the code names them; a staged clone or download is in a
directory of its own and belongs to the `child`. A write goes to the file that was opened: `Moved`
follows it when somebody else renames or removes the name. `Timeout` kills the child; `EngineDies`
leaves it alive or takes it along. `Resume` takes a success over when `ReceiptValid` accepts its
receipt. `kind` is chosen once; which requests exist is what `ExecutionMaterialization` says. What somebody else
put in the workspace (a checkout, an asset, a configuration that is its own source: `existing`) may be there
from the start, be any version, and need not be named by the request: `pinned` says whether it has the
revision or the checksum to compare with. A version without `.git` (`Unversioned`) has no HEAD to compare.
`Lacking` are the versions without a required path; a checkout that is gone has none of them either.

**Workspace.** `todo` is what is left of a command as a list of steps: look up, parse, ask the model,
discover, plan, write. `Truncate` and `Write` are the two halves of `write_text`; `handle` says whose
file is open and whether a clean has unlinked it. `memory` is a console's session, `local` a
command's variables. An analysis is its number, with the paper it names and the text it was made from.

**WorkspaceRuns.** `SaveGraph` and `SaveReport` are two of the three files of
`MaterializationArtifactStore.save`; the envelope is read by nobody. A process goes through the gate
with its own graph after a reproduction, and with what is on disk after `execute`. `found` is the run
the look returned, so that another process may move between the look and the start. `ResumeRun` takes the
run it found if it is there and has no writer, whatever became of it since: neither
`load_and_resume_run` nor `assert_resume_compatible` looks at its status, and `Proceed`, the scheduler's
first commit, stores RUNNING over whatever status is there. `reopened` remembers that this was an ended
run. That a run has one live writer is the lock's promise, which has exceptions of its own (section 6).

**ModelRegistry.** A command is a process that starts with the file merged over the shipped profiles
(`Merged`), makes one change, saves and ends; a console stays and offers `use`. `Truncate` and `Write`
are the two halves of a save. `provider` is the profile the provider was built from, which `Refreshed`
changes only if that profile is usable. `owed` keeps what was reported as saved.

Abstractions that hold everywhere: identifiers, timestamps, texts, logging and layout are left out.

## 3. Plan

Done, in this order, because a lost or doubled task run is the worst thing the program can do:
the lock; the store and its refinement; the engine; the proofs of lock and engine; the pipeline
from analysis to plan; from plan to tasks; the model registry; the workspace and its sessions; the
way from a materialization to a run; preparation with the local executor and its receipts.

The seams between the modules: `Workspace` ends where a strategy is written, `ExecutionPlanning` says
what that strategy is, `ExecutionMaterialization` what graph it becomes, `WorkspaceRuns` which graph is
run and by whom, `ExecutionEngine` what a run does, `Preparation` what one of its tasks leaves on disk,
`FileExecutionStore` and `RunWriterLock` how the run is kept.

The proofs went the same way: lock, engine, file store with its refinement, the runs of a workspace,
preparation, the registry, the workspace itself, and last the way from a plan to tasks.

Next, in this order:

1. The file store composed with the lock for a writer, a reader and a resumer, to check what a load
   may see and remove, and two engines over it.
2. Proofs about `ExecutionPlanning`, once its folds and sorts are written as functions that the prover
   can unfold, as was done for the filters of `ExecutionMaterialization`.

## 4. What the runs check

| Run | Question | Bounds, and why they are enough |
|---|---|---|
| `lock_safety` | Can two processes be writers before any died? Is a record removed by its writer only? Who is condemned besides ended owners? | Three processes, two on one machine: two that interfere and one that sees them from elsewhere. POSIX, two users, one of them root: every pair of who may probe whom. One death and two lives: an owner can die and its pid be taken, also by another user, while another one judges it. One failed write. |
| `lock_recovery` | Is a dead owner's record always cleared? | Three processes of one user on one machine, without host names in the records. One death and two lives: the owner's pid may be taken again at any moment of the recovery, by a process that asks for the lock itself. |
| `lock_two_writers` | After a death, can there be two writers? (violated, see section 6) | The same three processes, one death, no second life: neither a reused pid nor a second user is needed. |
| `store_atomic` | Whatever is cut short: is a loaded snapshot of one transition, is a returned commit kept, is at most one transition in doubt, is the trace that of the commits? | Two creation events and three commits: one finished, one in doubt, one more. Three interruptions: of a commit, of its recovery, of the recovery after that. One partial append. |
| `store_refines` | Does the file store implement `ExecutionStore`? | As above, appends whole or absent. |
| `engine` | See the properties below. | Four tasks: two independent chains of two, numbered against their dependencies, so that one branch fails while the other is ready, pending or running, with or without one blocked task. Three resumes and two crashes: a resume after a crashed resume, and one of a finished run. Two damaged outputs. |
| `research_pipeline` | See the properties below. | Up to three gaps and three citations of eight: one URL cited for two needs, a deep link, a fork that moved, a host other than GitHub, under both lists of verifiers. Three citations reach every posture, scope and status of a plan. |
| `materialization` | See the properties below. | Two repositories, two datasets, two configurations, one checkpoint: one that is bound or alone, and one that makes the choice ambiguous. One candidate lacks one fact at a time, which is enough because every check of a node looks at one descriptor. Up to two records about directories: one that supports, one that does not, two that conflict, one for each repository. |
| `model_registry` | Does the next process find an active profile and what was saved? Does a console call the provider of its active profile? | A console and one command beside it, three processes in all: one that saves, one with an older copy, one that starts afterwards. Three names and four providers, one misspelt; two keys; files from elsewhere with a new name, a known one, an active name that is missing and an invalid profile. |
| `workspace` | Does everything in a workspace come from one analysis, and that from its own paper? | One console and one command: a session that has results beside a process that changes them. Two papers, two analyses, three commands: make, replace, go on. One clean. |
| `workspace_runs` | Is a run made of a blocked graph? Has a graph two open runs? | Two processes, three materializations over two sets of nodes (a graph, one that replaces it, one with the same nodes and another verdict), three runs, five commands, one clean: enough for a run to be found, ended by another process and resumed late beside a newer one. |
| `preparation` | Is what is published complete, verified and wanted? Does a task held for successful have its target? | All eight kinds, with and without a revision or checksum where a request may lack one. Two runs, so that they overlap and the second resumes the first's work; three versions: one that is wanted first, a later one that lacks a required path, and a third without `.git` that somebody brought; two changes by somebody else. |

The lock's properties: while nobody has died and no running owner was hidden from another process by its
user, two processes are never both past acquire (`ExclusionUntilDeath`) and a writer's record stays in place
until its own release (`RecordKeptUntilDeath`); a process on its way to an unlink has condemned an owner
that has ended, or one on its own machine that POSIX did not let it probe, never one of its own user, one
elsewhere or a live one on Windows (`CondemnsDeadOrRefused`); a dead owner's record is gone once a process
beside it asked for the lock, unless the owner's pid was taken again meanwhile (`StaleRecordCleared`). All
four exceptions are what the code does (section 6).

The engine's properties: the backend is never given an attempt while it works on another
(`OneAttemptAtATime`); attempts that started are ended once or still RUNNING (`AttemptsAccounted`);
a stored end of a run means ended tasks (`EndedRunHasEndedTasks`); a call that returns has reported
what is stored (`ReturnedRunIsReported`); a task starts on stored successes only (`RunsOnSuccess`);
nothing starts once a failure is stored, also not by a resumed call whose predecessor died before it
could skip the rest (`NothingStartsAfterFailure`); a success is repeated only if its outputs are
damaged (`SuccessIsReused`); every call ends or waits for the backend (`CallsEnd`).

The store's: after any interruption recovery yields the files of one transition (`SnapshotAtomic`); a
commit that returned is kept and at most one transition is in doubt (`CommitsSurvive`); with whole
appends the trace has exactly the committed events (`TraceMatchesCommits`).

The pipeline's: with the embedded verifier GitHub cannot change what is selected
(`SelectionIgnoresGitHub`); every need is resolved by something the paper cites or blocked by one
reported gap (`ResolvedOrBlocked`); posture, bindings and reuse agree (`PostureMatchesBindings`);
discovery never rejects its own result, and a plan is rejected for two known reasons only
(`RejectedOnlyFor`); an open need always makes the plan degraded, not ready and aborting, and a
complete plan leaves no work (`PlanStatusIsEarned`).

Materialization's: a ready graph fetches nothing that may change under it and nothing it had to
choose (`ReadyFetchesAreFixed`); a graph as planned is held back by missing evidence only and is never
rejected later (`PlannedReadyIsComplete`); if the records agree, the clone and the workloads mean the
same directory, a started run never works where a clone it does not wait for puts its repository, and
its tasks can be ordered (`WorkFollowsItsClone`).

The registry's: a process always finds well-formed profiles, an active one, and what was reported as
saved, unless a process died inside a save or saved what it had read before somebody else's save
(`RestartFindsProfiles`); a console whose last change was accepted calls the provider of its active
profile (`ProviderOfActiveProfile`).

The workspace's: everything on disk and in the sessions stands on one analysis, and that on the text
of its own paper (`OneLineage`). The exceptions are named by history variables: `raced` when two
processes analyse at once or a clean takes the files from under one, `mixed` when two parse at once or
one dies between the two files of a parse. Without them the property is false of the code (section 6).

The runs': no run is made of a graph that was blocked, whatever graph and report lie side by side
(`GateAdmitsOnlyReady`); a graph has one open run unless a second was forced, two processes looked
before either started one, or a run that had ended since it was found was resumed
(`OneOpenRunPerGraph`).

Preparation's: what is put in the target's place is complete, verified and what some run asked for,
and a clone or archive that is there is never replaced (`PublishedIsWanted`); while a run holds the
task for successful, the target is there, its receipt vouches for it, and it is what its materialization
asked for if the request says what that is (`WorkloadFindsItsInputs`). The second leaves out: a target
changed during the session; the receipts of runs that overlap, and their configurations and plain
downloads; the version of what no request names, of a checkout without `.git`, and of a repository that
somebody changed, since nobody looks at it again.

Every property of a passing run has a mutant in `PROJECT.json`: a form of one definition with a
plausible bug, under which TLC finds the property violated.

**Fairness.** `RunWriterLock!FairSpec` is weakly fair to the steps inside a call: a running process
finishes the call it is in and releases at the end of its run. Nobody is obliged to ask for the lock,
to die, to restart or to have a write fail. `ExecutionEngine!FairSpec` is weakly fair to the scheduler's own steps: one
thread runs the loop and nothing in it waits. There is no fairness for the backend's answer, since a
local command has no timeout unless it is given one, and none for crashes, resumes or damage. The
other modules have safety properties only.

**Deadlock** is not checked where the system may stop or a bound ends it: in the lock, the store and
the engine a process may have died for the last time, the events may be used up, a run may be finished
and not resumed; in the registry, the workspace, its runs and preparation the commands, starts, runs
and changes are counted and may be used up. The pipeline and
materialization are checked for deadlock; their end is an explicit stuttering step.

## 5. What is proved

The theorems hold for every value of the constants that meets the modules' assumptions: any number of
processes, machines, runs, transitions, deaths and materializations, and any finite acyclic task graph.
The bounds of a model (`MaxEvents`, `MaxInterrupts`, ...) are natural numbers and nothing else is
assumed of them, so that no theorem depends on a bound being small. Every inductive invariant was
checked by TLC on the instance of its module before it was proved.

**Lock.** `LockInvariant` shows `LockInv` inductive under `TypeOK`. `LockInv` adds to the properties what
they need to be kept: tokens belong to lives that have begun, so that a token never comes back; a
condemned owner stays ended, or was hidden by its user and `misjudged` says so; and while nobody has died or
been misjudged, nobody can be on the way to an unlink and the file belongs to whoever is past the exclusive
open. `OneWriterUntilDeath`, `RecordKept` and `DeadOrRefusedCondemned` follow, for any users.
`OnlyTheDeadCondemned` is what is left of the exceptions where nothing is hidden, on Windows or with all
contenders one user (`NeverMisjudged`): then every condemned owner has ended, and while nobody has died
there is one writer. The assumption that matters besides is `HostAssumption`: contenders share a
machine or their records say where they run.

**Engine.** `EngineInvariant` shows `IInv` inductive: the types (`Types`), and how scheduler, store and
backend relate. `Synced` says that within a call the saved copy is the scheduler's; `Agree` relates a
task's status to its result, which is what makes `Satisfied` and `Preserve` equivalent to looking at
results; `Dispatchable` says what holds of the task between READY and its attempt, in particular that
no failure is stored and its dependencies succeeded; `NothingLeft` is what the end of the loop needs;
`WorkKnown` says that live work belongs to a result that is RUNNING. Five theorems read a property
off `IInv`. The three action properties rest on `OnlyDispatchStarts` (no other action adds an
attempt) and `DispatchStarts` (it adds one, of the task that was made READY). That the graph is acyclic is used at
one place: the loop can only stop with no pending task left because a non-empty set of pending tasks
has one whose dependencies are all outside it.

**File store.** `StoreInvariant` shows `IInv` inductive, for any number of commits, interruptions and torn
appends. Its centre is that there is at most one journal and that it is in one of two states: `Begun`,
the envelope still has the revision the journal starts from, or `Reached`, the envelope has its target
(`Journaled`). The rest is what makes that enough: `Written` says which files already have the
journal's content at each step of a commit and of its replay, and that without a journal in doubt they
are `Settled`; `Based` says that a commit works on the snapshot that is on the disk, which is what a
death inside a commit followed by a recovery could break; `Called` says which call may be at which step
and that a journal never lies beside an idle session; `Numbered` and `Traced` keep ids and sequence
numbers increasing, so that a retried or replayed event is recognised. `SnapshotIsAtomic` and
`CommitsAreKept` need no assumption about appends. `TraceKeepsStep` is about traces without a torn
append, because with one the code loses the trace (section 6).

`FilesImplementStore` is the refinement: under the mapping of the module (a transition counts as soon as
its journal is durable) every step of the files is a step of `ExecutionStore` or a stutter. Of the thirty
steps, the end of create_run, the journal of a commit, the report of a save_report and the ends of a
session are steps of the store; every other file write, of a commit or of a recovery, is invisible
(`SnapshotStep`, `NotedStep`). It assumes `MaxTorn = 0`, as the run does and for the same reason.

**Runs of a workspace.** `RunsInvariant`: who is past the gate holds a complete graph, whatever it read
from the disk (`Assigned`); a run that is being driven is its driver's until somebody removes it
(`Driven`); and, unless two processes
looked at once, a run was forced or an ended one reopened, who is about to start a run is
alone with its graph and has seen no open run of it (`Alone`). The last is what makes
`OneOpenRunPerGraph` inductive: the look and the start are two steps, and since a resume does not look at
the status again, only `reopened` tells a run that was open all the time from one that was not.

**Preparation.** `PreparationInvariant` follows every child: what it has in hand (`Holds`), and that a
target which nobody alters stays there for every child that found it (`Found`) and, where the request says
what the target has to be (`Compared`), stays what every run that approved of it wanted (`TargetStays`).
This is enough for repositories, archives, assets of the workspace and existing configurations, because
they are never written twice. For the
other kinds `Undisturbed` adds that runs which do not overlap follow one another (`Orderly`), that a
child alone finds in each file what it put there, so that its receipt vouches for whatever is in the target
(`Alone`, `Vouched`), and that where the receipt carries what was asked for, it and the target are that
(`Progress`, `Result`). `Alone` and `Vouched` hold of requests that name nothing; the last two do not, and
are stated for the others only. `OnlyWantedPublished` needs
`Holds` only, so that it holds of any overlap and any alteration.

**Workspace.** `WorkspaceInvariant` says three things. What a command has left to do is a set of steps in
the order of its handler (`Increasing`), so that where a process is follows from what it has left
(`Where`), and what its handler knows by then follows too (`Knows`). Everything that is kept, and
everything in the variables of a handler that will keep its results, stands on one analysis (`Common`);
as long as the disk has none, nothing stands on any and at most one process is making it (`Start`). And
one process at a time is between the two files of a parse; when there is none, the text on the disk is
that of the paper its meta file names (`Told`). `OneLineage` alone is not inductive: it says nothing of
the results that handlers have in hand. The fifteen actions of a process come down to seven kinds of step (`StepKinds`),
and each part of the invariant is kept by each kind. It holds for any processes, papers and bounds; the
assumptions are that the bounds are numbers and that the marks for no file and for a truncated one are
neither papers nor results.

**Registry.** `RegistryInvariant`: a registry somebody may save is well-formed and its active profile
exists (`Sound`), one process at a time is between truncating and writing (`Turns`), and what was
reported as saved is in the file and in every memory that is still fresh (`Kept`). The assumptions
are about what the program ships (its profiles and overlay are well-formed, their active profile
exists, its default keys are among the keys), and that consoles are processes.

**Materialization.** `MaterializationInvariant` shows `IInv` inductive for any candidates, bindings,
records and facts. `Prepares` says what planning and projection leave behind: a graph whose stages
occur once and in order, each node naming only what was bound or all there is of a kind (`Planned`,
`Fits`), and descriptors that say of each candidate exactly what is known of it (`Evidenced`).
`Materializes` says what each node was given on that ground (`Given`): a preparation is `Fixed`, and a
workload is `ClonedTo` the place where the clone puts the repository if the records agree. `Judges`
ties the report to the results and to the validator's condition on ancestors (`Sound`), `Starts` the
tasks to an acyclic graph. The properties alone are not inductive: none of them speaks of a report
that is still to be made.

Three arguments carry the theorems. That projection and index name the same directory is `RecordsAgree`
with `PrimaryIsProjected`: agreeing records leave the projector one directory and make every record of
the index, hence its last, name it. `PlannedIsComplete` needs that a chain is acyclic and
that its first node is an ancestor of every other, which `ChainIsAcyclic` and `AncestorsOfChain` get by
unfolding the two iterations (`IterationExists` shows that a bounded iteration is a function, since a
recursive function definition is a choice). That tasks can be ordered, for any graph a caller brings,
is `OneComesFirst`: of a set of nodes the one that Kahn's algorithm releases first waits for no other.

The assumption says what the inputs are: a candidate has one kind, since it has one resource type; a
repository is fetched with git unless a directory is prepared, and a configuration is described without
a URL or credentials, as the projector does it; nothing is bound in a greenfield plan; every repository
has a place to be checked out to.

Four things in the models changed because a proof needed them: the cases of `Preparation!LookForAsset` are
disjoint as the code's order makes them; `ModelRegistry` has its own merge of two sets of profiles
(`Over`), since the prover does not know `@@` of the TLC module; `ExecutionMaterialization` filters with
`Where`, a function by length, since the prover knows no fact about `SelectSeq`; and its assumption
types the discoveries as far as the code does. None changes what a run reaches.

**Only model-checked.** Liveness (`StaleRecordCleared`, `CallsEnd`) is beyond the prover.
`ExecutionPlanning`'s six properties are checked on their instance only: its decisions fold over
sequences and sort sets (`FoldLeft`, `SetToSortSeq`), of which the prover knows no fact, and what they
compute in all is an induction over data.

## 6. Where code and documents disagree

One of these has a violation run: the others are behaviours the models have and the properties name or
exclude, each with the sentence it contradicts where there is one. Documents without a directory are in
`docs/architecture/`.

**The lock.** `lock_two_writers` (`docs/architecture/EXECUTION_RUNTIME.md:120`): two processes recover
the same dead owner's lock; the slower one unlinks the faster one's fresh lock. Both are writers
(`locking.py:121`).

The lock gives way in two more cases, which its properties name as exceptions. On POSIX a running owner of
another user is taken for dead: `os.kill` raises EPERM and `_pid_is_running` answers False
(`locking.py:197`), so that the contender removes the lock of a live writer, and both are writers although
nobody died (`EXECUTION_RUNTIME.md:120` again); on Windows the same refusal counts as running (`:189`), and
root is refused nothing. And a dead owner whose pid is taken again, by any process of the machine or by
the asking one (`:163`), is taken for alive: its record is never removed while that process lives, and every
acquire is refused.

**The store.** An append that stopped half-way is continued by the next one; with one more record the
damaged line is no longer last and the run can never be loaded again, although a partial last line is
meant to be ignored (`EXECUTION_RUNTIME.md:110`, `atomic_io.py:76`).

**The engine.** A failed run with a damaged output cannot be resumed to a report: the report's
validator rejects the counts and the call raises (`EXECUTION_ENGINE.md:469`,
`models/execution_engine.py:713`). RUN_RESUMED is never written to the store, because the builder that
commits is put around the one it was appended to (`engine.py:217`; `EXECUTION_ENGINE.md:366`). An
attempt that comes back cancelled ends the call with a TypeError (`scheduling.py:175`).

**The pipeline.** One URL that serves two needs makes the plan invalid, so that a partial discovery
has no plan (`docs/design/execution-planning-workflow.md:35`,
`validation/execution_strategy.py:763`).

**Materialization.** A greenfield plan for a paper with one repository that was not bound is READY in
that repository's future checkout, which no task of the graph makes
(`REPRODUCTION_EXECUTION_READINESS.md:97`, `preparation_templates.py:103`). Where records disagree, the
workloads may run in a fallback repository's directory, since the last binding with an indexed path
wins (`materializer.py:333`).

**The workspace.** `analyze` of a second paper returns the analysis of the first (`facade.py:173`).
`execute` after a new `plan` runs the graph of the last `reproduce`, or is refused at the gate for it
(`platform_execution.py:114`). An `analysis.json` cut short keeps the console from starting
(`README.md:130` and `docs/GETTING_STARTED.md:179` promise that interrupted sessions resume), and analysing again rewrites
a good file in place. A death between the parsed text and its meta file makes the analysis of one
paper from the text of the other. The hash that binds a strategy to its discovery
(`docs/design/execution-strategy-schema.md:221`, `:229`) is compared by nobody. A clean under a live console leaves
results of two analyses.

**Runs.** Two processes that both look before either starts open two runs of one graph, and
`--no-resume` or an unknown run id forces a second. A run that is listed as resumable cannot be resumed
once its graph has been replaced. A reproduction's run may be taken up by an `execute` in between. A process that found an
open run and resumes it after another one has ended it sets it RUNNING again, even if a newer run of the same
graph is open by then: the snapshot is loaded before the lock is taken (`engine.py:281`, `:232`), nobody
compares its status, and the first commit stores RUNNING (`scheduling.py:78`).

**The registry.** A shipped profile that was removed or renamed is there again after a restart
(`docs/GETTING_STARTED.md:277`, `providers/llm/persistence.py:76`). After a refused `model use` a
console calls the old provider with the new profile's model, and the agents of a facade keep the
provider of its start. `remove default --force` makes the disabled `claude` profile active and saves
that. A death inside a save loses every profile of the user, and a console's save undoes those made
since it started. Renaming onto a name that exists changes nothing and reports success.

**Preparation** (`docs/architecture/REPRODUCTION_EXECUTION_READINESS.md`). Temporary paths are not those
of an attempt (`:299`): two children share one `.tmp`, and one may put
the other's half-written configuration in place. A repository is published before its required
paths and its revision are checked (`:300`), and one that is there is taken whatever its HEAD (`:301`,
`:523`). A second run of a download fails because the target exists, and leaves the receipt of the
first (`:303`); one that was killed between publishing and its receipt fails until somebody deletes
the target. A resumed run does not compare the commit of a repository (`:276`). What somebody put in the workspace is
accepted whatever it holds when the request has nothing to compare it with: an asset without a checksum
(`operations.py:114`), a checkout without a revision or without `.git` (`:87`, `:96`), and a configuration that
is its own source, which only has to be there (`:145`). Outputs that an
earlier attempt left are collected as this attempt's.

## 7. What is not modelled

* Two processes on one store at once, and a resume that raced another one (planned): the lock and the
  store are each checked for themselves, and `WorkspaceRuns` takes the lock's promise for granted.
* In the engine: which output of a task is which (a task has its outputs or not); the loop's `failed`
  branch, which never finds a pending task left to skip; trace events other
  than those a property counts; the graph-version checks before a resume.
* In the pipeline: NoOp providers, the composition of confidence scores in discovery, decision traces,
  rationale texts, evidence references, and the checks of field formats in the validators: what they
  are given here was built from typed models.
* In materialization: paths other than a repository's directory, their normalisation and containment,
  the text of commands, and `bundle.issues`, which nothing reads.
* In preparation: which members of an archive are refused, log files, and files of a target that is a
  directory one by one: a version is the whole of it.
* In the workspace: summaries, the decision trace, the planned graph (no later stage reads it from the
  session), two consoles at once in the checked instance.
* In the registry: models, addresses, temperatures and tags of a profile, and the calls to a provider.
* The legacy orchestrator with its agents: nothing calls it. Lazy values and the resource manager: one
  thread builds each once. Configuration, prompt templates, tracking, the command line's parsing, the
  SDK and the PDF parsers are input and output around the rest.
