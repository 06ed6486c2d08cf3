--------------------------- MODULE WorkspaceRuns ---------------------------
(***************************************************************************)
(* From a materialization to a run (application/reproduction_pipeline and  *)
(* platform_execution, runtime/session/materialization_artifacts): a       *)
(* reproduction replaces the graph and then the report of the workspace    *)
(* and goes on with its own; execute takes what two reproductions and a    *)
(* death left there, and resumes an open run of that graph or starts one.  *)
(* A run has one live writer, as far as RunWriterLock promises one, and is *)
(* durable (ExecutionStore); what it does is in ExecutionEngine.  That the *)
(* nodes of a graph are complete iff its own report says READY is checked  *)
(* in ExecutionMaterialization.                                            *)
(***************************************************************************)
EXTENDS Naturals, Sequences, FiniteSets

CONSTANTS Procs, NodeSets,
          None,
          MaxGraphs,    \* bound: materializations
          MaxRuns,      \* bound: runs started
          MaxCommands,  \* bound: commands given
          MaxCleans     \* bound: clean --all

ASSUME BoundsAssumption == {MaxGraphs, MaxRuns, MaxCommands, MaxCleans} \subseteq Nat
ASSUME NoneAssumption == None \notin Procs /\ None \notin Nat

VARIABLES
    graphs,     \* graphs materialized so far: their nodes, and whether they are complete
    graph,      \* materialized_execution_graph.json
    report,     \* materialization_report.json
    runs,       \* runs started so far: of which graph, their status, the process that drives them
    stage,      \* of each process: idle, graph, report, gate, execute, finish
    own,        \* the graph it works with
    found,      \* the run it will resume
    commands, cleans,
    crowded,    \* a run was forced, or two processes looked for one before either started it
    reopened    \* a run that had ended since it was found was set running again

disk == <<graph, report>>
process == <<stage, own, found>>
history == <<crowded, reopened>>
vars == <<graphs, disk, runs, process, commands, cleans, history>>

Open == {"running", "interrupted"}

\* _enforce_materialization_ready, with a mutant: the report is believed.
AdmittedByReport(g, r) == g # None /\ r # None /\ graphs[r].complete = "yes" /\ graphs[g].nodes = graphs[r].nodes
Admitted(g, r) ==
    /\ g # None /\ r # None
    /\ graphs[r].complete = "yes"
    /\ graphs[g].nodes = graphs[r].nodes
    /\ graphs[g].complete = "yes"

\* list_resumable_runs and _find_resumable_run, with a mutant: a run whose
\* process died is forgotten.
ResumableInOrder(g) == {r \in DOMAIN runs : runs[r].graph = g /\ runs[r].status = "interrupted"}
Resumable(g) == {r \in DOMAIN runs : runs[r].graph = g /\ runs[r].status \in Open}

-----------------------------------------------------------------------------
Init ==
    /\ graphs = << >> /\ runs = << >>
    /\ graph = None /\ report = None
    /\ stage = [p \in Procs |-> "idle"]
    /\ own = [p \in Procs |-> None]
    /\ found = [p \in Procs |-> None]
    /\ commands = 0 /\ cleans = 0
    /\ crowded = FALSE /\ reopened = FALSE

Give(p) == stage[p] = "idle" /\ commands < MaxCommands /\ commands' = commands + 1

Goto(p, s) ==
    /\ stage' = [stage EXCEPT ![p] = s]
    /\ UNCHANGED <<graphs, commands, cleans>>

Return(p) ==
    /\ Goto(p, "idle")
    /\ own' = [own EXCEPT ![p] = None]
    /\ found' = [found EXCEPT ![p] = None]

\* A reproduction is planned and materialized.
Materialize(p) ==
    /\ Give(p) /\ Len(graphs) < MaxGraphs
    /\ \E nodes \in NodeSets, complete \in {"yes", "no"} :
           graphs' = Append(graphs, [nodes |-> nodes, complete |-> complete])
    /\ own' = [own EXCEPT ![p] = Len(graphs) + 1]
    /\ stage' = [stage EXCEPT ![p] = "graph"]
    /\ UNCHANGED <<disk, runs, found, cleans, history>>

\* persist_materialization: the graph, then the report, each renamed into place.
SaveGraph(p) ==
    /\ stage[p] = "graph"
    /\ graph' = own[p]
    /\ Goto(p, "report")
    /\ UNCHANGED <<report, runs, own, found, history>>

\* The reproduction is blocked when its report is not READY.
SaveReport(p) ==
    /\ stage[p] = "report"
    /\ report' = own[p]
    /\ IF graphs[own[p]].complete = "yes" THEN Goto(p, "gate") /\ UNCHANGED <<own, found>> ELSE Return(p)
    /\ UNCHANGED <<graph, runs, history>>

Execute(p) ==
    /\ Give(p)
    /\ stage' = [stage EXCEPT ![p] = "gate"]
    /\ UNCHANGED <<graphs, disk, runs, own, found, cleans, history>>

\* run_execution: a reproduction brings its graph and report, execute reads them.
GraphOf(p) == IF own[p] # None THEN own[p] ELSE graph
ReportOf(p) == IF own[p] # None THEN own[p] ELSE report

Looking(p, g) == stage[p] = "execute" /\ own[p] = g /\ found[p] = None

\* The gate, and the search for a run to resume.  --no-resume and a run id
\* that is not there (forced) start one whatever there is.
Gate(p) ==
    /\ stage[p] = "gate" /\ Admitted(GraphOf(p), ReportOf(p))
    /\ \E forced \in {"yes", "no"} :
       LET candidates == IF forced = "yes" THEN {} ELSE Resumable(GraphOf(p))
       IN  /\ \E r \in (IF candidates = {} THEN {None} ELSE candidates) : found' = [found EXCEPT ![p] = r]
           /\ crowded' = (crowded \/ forced = "yes" \/ \E q \in Procs \ {p} : Looking(q, GraphOf(p)))
    /\ own' = [own EXCEPT ![p] = GraphOf(p)]
    /\ Goto(p, "execute")
    /\ UNCHANGED <<disk, runs, reopened>>

GateRefuses(p) ==
    /\ stage[p] = "gate" /\ ~Admitted(GraphOf(p), ReportOf(p))
    /\ Return(p)
    /\ UNCHANGED <<disk, runs, history>>

StartRun(p) ==
    /\ stage[p] = "execute" /\ found[p] = None /\ Len(runs) < MaxRuns
    /\ runs' = Append(runs, [graph |-> own[p], status |-> "running", writer |-> p])
    /\ found' = [found EXCEPT ![p] = Len(runs) + 1]
    /\ Goto(p, "finish")
    /\ UNCHANGED <<disk, own, history>>

\* load_and_resume_run: the run must be there and nobody writing to it.  Its
\* status was looked at by the gate's search and is not looked at again.
ResumeRun(p) ==
    /\ stage[p] = "execute" /\ found[p] # None
    /\ IF runs[found[p]].status # "removed" /\ runs[found[p]].writer = None
       THEN /\ runs' = [runs EXCEPT ![found[p]].writer = p]
            /\ Goto(p, "finish")
            /\ UNCHANGED <<own, found>>
       ELSE runs' = runs /\ Return(p)
    /\ UNCHANGED <<disk, history>>

\* What the scheduler stores of a run, over whatever status is there.
Store(r, status, writer) ==
    /\ runs' = [runs EXCEPT ![r].status = status, ![r].writer = writer]
    /\ reopened' = (reopened \/ (runs[r].status = "ended" /\ status \in Open))

\* The first event of a resumed run is committed with RUNNING.  A run with
\* nothing left to do, or with an attempt to reconcile, may have none.
Proceed(p) ==
    /\ stage[p] = "finish" /\ runs[found[p]].status \in {"interrupted", "ended"}
    /\ Store(found[p], "running", p)
    /\ UNCHANGED <<graphs, disk, process, commands, cleans, crowded>>

\* The engine returns: the run ended or was interrupted, or the store failed it
\* because the run is gone.
Finish(p) ==
    /\ stage[p] = "finish"
    /\ IF runs[found[p]].status = "removed" THEN UNCHANGED <<runs, reopened>>
       ELSE \E status \in {"ended", "interrupted"} : Store(found[p], status, None)
    /\ Return(p)
    /\ UNCHANGED <<disk, crowded>>

\* The process dies; a run it drives stays open.
Die(p) ==
    /\ stage[p] # "idle"
    /\ runs' = [r \in DOMAIN runs |-> IF runs[r].writer = p THEN [runs[r] EXCEPT !.writer = None] ELSE runs[r]]
    /\ Return(p)
    /\ UNCHANGED <<disk, history>>

\* clean --all takes the runs as well.  Its mutant: whoever works on one.
CleanForgets ==
    /\ cleans < MaxCleans
    /\ cleans' = cleans + 1
    /\ graph' = None /\ report' = None /\ runs' = << >>
    /\ UNCHANGED <<graphs, process, commands, history>>

Clean ==
    /\ cleans < MaxCleans
    /\ cleans' = cleans + 1
    /\ graph' = None /\ report' = None
    /\ runs' = [r \in DOMAIN runs |-> [runs[r] EXCEPT !.status = "removed", !.writer = None]]
    /\ UNCHANGED <<graphs, process, commands, history>>

Next ==
    \/ \E p \in Procs :
          \/ Materialize(p) \/ SaveGraph(p) \/ SaveReport(p) \/ Execute(p)
          \/ Gate(p) \/ GateRefuses(p) \/ StartRun(p) \/ ResumeRun(p) \/ Proceed(p) \/ Finish(p) \/ Die(p)
    \/ Clean

Spec == Init /\ [][Next]_vars

-----------------------------------------------------------------------------
(* Properties.                                                             *)

\* Type correctness.
TypeOK ==
    /\ graphs \in Seq([nodes : NodeSets, complete : {"yes", "no"}])
    /\ graph \in DOMAIN graphs \cup {None} /\ report \in DOMAIN graphs \cup {None}
    /\ runs \in Seq([graph : DOMAIN graphs, status : Open \cup {"ended", "removed"}, writer : Procs \cup {None}])
    /\ stage \in [Procs -> {"idle", "graph", "report", "gate", "execute", "finish"}]
    /\ own \in [Procs -> DOMAIN graphs \cup {None}]
    /\ found \in [Procs -> DOMAIN runs \cup {None}]
    /\ commands \in 0..MaxCommands /\ cleans \in 0..MaxCleans
    /\ crowded \in BOOLEAN /\ reopened \in BOOLEAN

\* Whatever graph and report two reproductions, or a death between their two
\* writes, leave side by side, no run is made of a graph that was blocked.
GateAdmitsOnlyReady == \A r \in DOMAIN runs : graphs[runs[r].graph].complete = "yes"

\* A graph has one open run at a time, those of dead processes included, unless
\* a second was asked for, two processes looked before either started one, or a
\* process resumed the run it had found after another one had ended it.
OneOpenRunPerGraph ==
    \/ crowded \/ reopened
    \/ \A r, s \in {t \in DOMAIN runs : runs[t].status \in Open} : runs[r].graph = runs[s].graph => r = s
=============================================================================
