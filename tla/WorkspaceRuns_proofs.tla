------------------------ MODULE WorkspaceRuns_proofs ------------------------
(***************************************************************************)
(* From a materialization to a run, for any number of processes and        *)
(* materializations: no run is made of a graph that was blocked, and a     *)
(* graph gets a second open run only in the three ways the property names. *)
(***************************************************************************)
EXTENDS WorkspaceRuns, SequenceTheorems, TLAPS

Stages == {"idle", "graph", "report", "gate", "execute", "finish"}
Graphs == [nodes : NodeSets, complete : {"yes", "no"}]
RunsOf(gs) == [graph : DOMAIN gs, status : Open \cup {"ended", "removed"}, writer : Procs \cup {None}]

\* Who holds a graph holds one that is materialized; past the gate it is complete.
Holds(p) ==
    /\ stage[p] \in {"graph", "report", "execute", "finish"} => own[p] # None
    /\ stage[p] = "execute" => graphs[own[p]].complete = "yes"
    /\ stage[p] = "finish" => found[p] # None

Assigned == \A p \in Procs : Holds(p)

\* The run a process drives is its own until somebody removes it, whatever
\* status is stored of it.
Driven ==
    \A p \in Procs : stage[p] = "finish" =>
        runs[found[p]].status = "removed" \/ runs[found[p]].writer = p

\* Who is about to start a run is alone with its graph, and the graph has no open run.
Alone ==
    \A p \in Procs : stage[p] = "execute" /\ found[p] = None =>
        /\ \A q \in Procs : Looking(q, own[p]) => q = p
        /\ \A r \in DOMAIN runs : runs[r].status \in Open => runs[r].graph # own[p]

IInv ==
    /\ TypeOK /\ Assigned /\ GateAdmitsOnlyReady
    /\ Driven /\ (crowded \/ reopened \/ Alone) /\ OneOpenRunPerGraph

-----------------------------------------------------------------------------

\* What Append does to the graphs and the runs.
LEMMA AppendTo ==
    ASSUME NEW S, NEW s \in Seq(S), NEW e \in S
    PROVE  /\ Append(s, e) \in Seq(S)
           /\ DOMAIN Append(s, e) = DOMAIN s \cup {Len(s) + 1}
           /\ Len(s) + 1 \notin DOMAIN s
           /\ \A i \in DOMAIN s : Append(s, e)[i] = s[i]
           /\ Append(s, e)[Len(s) + 1] = e
OBVIOUS

\* A sequence mapped element by element is a sequence of the same length.
LEMMA Mapped ==
    ASSUME NEW S, NEW s \in Seq(S), NEW t, t = [i \in DOMAIN s |-> t[i]], \A i \in DOMAIN s : t[i] \in S
    PROVE  t \in Seq(S)
<1>1. DOMAIN s = 1..Len(s) /\ Len(s) \in Nat
  OBVIOUS
<1>2. t \in [1..Len(s) -> S]
  BY <1>1
<1>3. QED
  BY <1>1, <1>2, SeqDef

\* What the type invariant says of a single run.
LEMMA RunsTyped ==
    ASSUME TypeOK
    PROVE  /\ graphs \in Seq(Graphs) /\ runs \in Seq(RunsOf(graphs))
           /\ \A r \in DOMAIN runs : runs[r] \in RunsOf(graphs) /\ runs[r].graph \in DOMAIN graphs
           /\ DOMAIN graphs \subseteq Nat /\ DOMAIN runs \subseteq Nat /\ Len(graphs) \in Nat /\ Len(runs) \in Nat
<1>1. graphs \in Seq(Graphs) /\ runs \in Seq(RunsOf(graphs))
  BY DEF TypeOK, Graphs, RunsOf
<1>2. /\ DOMAIN graphs = 1..Len(graphs) /\ Len(graphs) \in Nat
      /\ DOMAIN runs = 1..Len(runs) /\ Len(runs) \in Nat
  BY <1>1, LenProperties
<1>3. ASSUME NEW r \in DOMAIN runs PROVE runs[r] \in RunsOf(graphs) /\ runs[r].graph \in DOMAIN graphs
  <2>1. runs[r] \in RunsOf(graphs)
    BY <1>1, <1>2, ElementOfSeq
  <2>2. QED
    BY <2>1 DEF RunsOf
<1>4. QED
  BY <1>1, <1>2, <1>3

\* What is done to the runs that are there: which graph they are of stays, and
\* a run is opened only where one was open, or it is reopened.
Rewritten ==
    /\ runs' = [r \in DOMAIN runs |-> runs'[r]]
    /\ \A r \in DOMAIN runs :
          /\ runs'[r] \in RunsOf(graphs)
          /\ runs'[r].graph = runs[r].graph
          /\ runs'[r].status \in Open => runs[r].status \in Open \/ reopened'

\* ResumeRun, Proceed, Finish, Die and Clean rewrite runs, and nothing else does.
LEMMA RunsRewritten ==
    ASSUME TypeOK, Assigned, Driven,
           \/ UNCHANGED runs
           \/ \E p \in Procs : ResumeRun(p) \/ Proceed(p) \/ Finish(p) \/ Die(p)
           \/ Clean
    PROVE  Rewritten
<1> USE NoneAssumption
<1> DEFINE Kept(r) == /\ runs'[r] \in RunsOf(graphs) /\ runs'[r].graph = runs[r].graph
                      /\ runs'[r].status \in Open => runs[r].status \in Open \/ reopened'
<1>1. runs \in Seq(RunsOf(graphs)) /\ \A r \in DOMAIN runs : runs[r] \in RunsOf(graphs)
  BY RunsTyped
<1>2. runs = [r \in DOMAIN runs |-> runs[r]]
  <2>1. runs \in [1..Len(runs) -> RunsOf(graphs)] /\ DOMAIN runs = 1..Len(runs)
    BY <1>1, LenProperties
  <2>2. QED
    BY <2>1
<1>3. CASE UNCHANGED runs
  BY <1>1, <1>2, <1>3 DEF Rewritten
\* One run is given another status and another writer.
<1>4. ASSUME NEW i \in DOMAIN runs, NEW st \in {"running", "ended", "interrupted"}, NEW w \in Procs \cup {None},
             st \in Open => runs[i].status \in Open \/ reopened',
             runs' = [runs EXCEPT ![i].status = st, ![i].writer = w]
      PROVE  Rewritten
  <2>1. runs' = [r \in DOMAIN runs |-> runs'[r]] /\ \A r \in DOMAIN runs \ {i} : runs'[r] = runs[r]
    BY <1>2, <1>4
  <2>2. runs'[i] = [[runs[i] EXCEPT !.status = st] EXCEPT !.writer = w]
    BY <1>2, <1>4
  <2>3. runs'[i] \in RunsOf(graphs) /\ runs'[i].graph = runs[i].graph /\ runs'[i].status = st
    BY <1>1, <1>4, <2>2 DEF RunsOf, Open
  <2>4. Kept(i)
    BY <1>4, <2>3
  <2>5. QED
    BY <1>1, <2>1, <2>4 DEF Rewritten
\* The scheduler stores a status over one that was not removed.
<1>a. ASSUME NEW i \in DOMAIN runs, NEW st \in {"running", "ended", "interrupted"}, NEW w \in Procs \cup {None},
             runs[i].status # "removed", Store(i, st, w)
      PROVE  Rewritten
  <2>1. runs[i].status \in Open \cup {"ended"}
    BY <1>1, <1>a DEF RunsOf
  <2>2. st \in Open => runs[i].status \in Open \/ reopened'
    BY <1>a, <2>1 DEF Store
  <2>3. runs' = [runs EXCEPT ![i].status = st, ![i].writer = w]
    BY <1>a DEF Store
  <2>4. QED
    BY <1>4, <2>2, <2>3, Zenon
<1>5. ASSUME NEW p \in Procs, ResumeRun(p) PROVE Rewritten
  <2>1. CASE UNCHANGED runs
    BY <1>3, <2>1
  <2>2. CASE runs' = [runs EXCEPT ![found[p]].writer = p]
    <3>1. found[p] \in DOMAIN runs
      BY <1>5 DEF ResumeRun, TypeOK
    <3>2. runs' = [r \in DOMAIN runs |-> runs'[r]] /\ \A r \in DOMAIN runs \ {found[p]} : runs'[r] = runs[r]
      BY <1>2, <2>2
    <3>3. runs'[found[p]] = [runs[found[p]] EXCEPT !.writer = p]
      BY <1>2, <2>2, <3>1
    <3>4. Kept(found[p])
      BY <1>1, <3>1, <3>3 DEF RunsOf
    <3>5. QED
      BY <1>1, <3>2, <3>4 DEF Rewritten
  <2>3. QED
    BY <1>5, <2>1, <2>2 DEF ResumeRun
<1>b. ASSUME NEW p \in Procs, Proceed(p) PROVE Rewritten
  <2>1. found[p] \in DOMAIN runs /\ runs[found[p]].status # "removed" /\ Store(found[p], "running", p)
    BY <1>b DEF Proceed, Assigned, Holds, TypeOK
  <2>2. QED
    BY <1>a, <2>1, Zenon
<1>6. ASSUME NEW p \in Procs, Finish(p) PROVE Rewritten
  <2>1. CASE UNCHANGED runs
    BY <1>3, <2>1
  <2>2. ASSUME NEW s \in {"ended", "interrupted"}, runs[found[p]].status # "removed", Store(found[p], s, None)
        PROVE  Rewritten
    <3>1. found[p] \in DOMAIN runs
      BY <1>6 DEF Finish, Assigned, Holds, TypeOK
    <3>2. QED
      BY <1>a, <2>2, <3>1, Zenon
  <2>3. QED
    BY <1>6, <2>1, <2>2 DEF Finish
<1>7. ASSUME NEW p \in Procs, Die(p) PROVE Rewritten
  <2>1. runs' = [r \in DOMAIN runs |-> runs'[r]]
    BY <1>7, Zenon DEF Die
  <2>2. ASSUME NEW r \in DOMAIN runs PROVE Kept(r)
    <3>1. runs'[r] \in {runs[r], [runs[r] EXCEPT !.writer = None]}
      BY <1>7 DEF Die
    <3>2. QED
      BY <1>1, <3>1 DEF RunsOf
  <2>3. QED
    BY <2>1, <2>2 DEF Rewritten
<1>8. ASSUME Clean PROVE Rewritten
  <2>1. runs' = [r \in DOMAIN runs |-> runs'[r]]
    BY <1>8, Zenon DEF Clean
  <2>2. ASSUME NEW r \in DOMAIN runs PROVE Kept(r)
    <3>1. runs'[r] = [runs[r] EXCEPT !.status = "removed", !.writer = None]
      BY <1>8, <2>1, Zenon DEF Clean
    <3>2. QED
      BY <1>1, <3>1 DEF RunsOf, Open
  <2>3. QED
    BY <2>1, <2>2 DEF Rewritten
<1>9. QED
  BY <1>3, <1>5, <1>b, <1>6, <1>7, <1>8

\* Every step keeps the types.
LEMMA TypesStep ==
    ASSUME TypeOK, Assigned, Driven, Next
    PROVE  TypeOK'
<1> DEFINE Rest == /\ graph \in DOMAIN graphs \cup {None} /\ report \in DOMAIN graphs \cup {None}
                   /\ stage \in [Procs -> Stages]
                   /\ own \in [Procs -> DOMAIN graphs \cup {None}]
                   /\ found \in [Procs -> DOMAIN runs \cup {None}]
                   /\ commands \in 0..MaxCommands /\ cleans \in 0..MaxCleans
                   /\ crowded \in BOOLEAN /\ reopened \in BOOLEAN
<1>0. /\ graphs \in Seq(Graphs) /\ runs \in Seq(RunsOf(graphs)) /\ Rest
      /\ \A p \in Procs : own[p] # None => own[p] \in DOMAIN graphs
  BY DEF TypeOK, Graphs, RunsOf, Stages
<1> SUFFICES graphs' \in Seq(Graphs) /\ runs' \in Seq(RunsOf(graphs)') /\ Rest'
  BY DEF TypeOK, Graphs, RunsOf, Stages
<1>a. MaxCommands \in Nat /\ MaxCleans \in Nat
  BY BoundsAssumption
<1> USE NoneAssumption DEF disk, process, history, Give, Goto, Return, Stages
<1>1. ASSUME NEW p \in Procs, Materialize(p)
      PROVE  graphs' \in Seq(Graphs) /\ runs' \in Seq(RunsOf(graphs)') /\ Rest'
  <2>1. PICK g \in Graphs : graphs' = Append(graphs, g)
    BY <1>1 DEF Materialize, Graphs
  <2>2. graphs' \in Seq(Graphs) /\ DOMAIN graphs' = DOMAIN graphs \cup {Len(graphs) + 1}
    BY <1>0, <2>1, AppendTo
  <2>3. runs' \in Seq(RunsOf(graphs)')
    <3>1. RunsOf(graphs) \subseteq RunsOf(graphs)'
      BY <2>2 DEF RunsOf
    <3>2. QED
      BY <1>0, <1>1, <3>1, SeqMonotonic DEF Materialize
  <2>4. own' \in [Procs -> DOMAIN graphs' \cup {None}] /\ stage' \in [Procs -> Stages] /\ commands' \in 0..MaxCommands
    BY <1>a, <1>0, <1>1, <2>2 DEF Materialize
  <2>5. QED
    BY <1>0, <1>1, <2>2, <2>3, <2>4 DEF Materialize
<1>2. ASSUME NEW p \in Procs, SaveGraph(p) PROVE graphs' = graphs /\ runs' = runs /\ Rest'
  BY <1>0, <1>2 DEF SaveGraph, Assigned, Holds
<1>3. ASSUME NEW p \in Procs, SaveReport(p) PROVE graphs' = graphs /\ runs' = runs /\ Rest'
  BY <1>0, <1>3 DEF SaveReport, Assigned, Holds
<1>4. ASSUME NEW p \in Procs, Execute(p) PROVE graphs' = graphs /\ runs' = runs /\ Rest'
  BY <1>a, <1>0, <1>4 DEF Execute
<1>5. ASSUME NEW p \in Procs, Gate(p) PROVE graphs' = graphs /\ runs' = runs /\ Rest'
  <2>1. GraphOf(p) \in DOMAIN graphs
    BY <1>0, <1>5 DEF Gate, Admitted, GraphOf
  <2>2. PICK r \in DOMAIN runs \cup {None} : found' = [found EXCEPT ![p] = r]
    BY <1>5 DEF Gate, Resumable
  <2>3. crowded' \in BOOLEAN
    BY <1>5 DEF Gate
  <2>4. QED
    BY <1>0, <1>5, <2>1, <2>2, <2>3 DEF Gate
<1>6. ASSUME NEW p \in Procs, GateRefuses(p) PROVE graphs' = graphs /\ runs' = runs /\ Rest'
  BY <1>0, <1>6 DEF GateRefuses
<1>7. ASSUME NEW p \in Procs, StartRun(p) PROVE graphs' = graphs /\ runs' \in Seq(RunsOf(graphs)) /\ Rest'
  <2>1. [graph |-> own[p], status |-> "running", writer |-> p] \in RunsOf(graphs)
    BY <1>0, <1>7 DEF StartRun, Assigned, Holds, RunsOf, Open
  <2>2. runs' \in Seq(RunsOf(graphs)) /\ DOMAIN runs' = DOMAIN runs \cup {Len(runs) + 1}
    BY <1>0, <1>7, <2>1, AppendTo DEF StartRun
  <2>3. found' \in [Procs -> DOMAIN runs' \cup {None}] /\ stage' \in [Procs -> Stages]
    BY <1>0, <1>7, <2>2 DEF StartRun
  <2>4. QED
    BY <1>0, <1>7, <2>2, <2>3 DEF StartRun
<1>8. ASSUME Rewritten PROVE runs' \in Seq(RunsOf(graphs)) /\ DOMAIN runs' = DOMAIN runs
  <2>1. runs' = [r \in DOMAIN runs |-> runs'[r]] /\ \A r \in DOMAIN runs : runs'[r] \in RunsOf(graphs)
    BY <1>8 DEF Rewritten
  <2>2. QED
    BY <1>0, <2>1, Mapped
<1>9. ASSUME NEW p \in Procs, ResumeRun(p) \/ Proceed(p) \/ Finish(p) \/ Die(p)
      PROVE  graphs' = graphs /\ runs' \in Seq(RunsOf(graphs)) /\ Rest'
  <2>1. runs' \in Seq(RunsOf(graphs)) /\ DOMAIN runs' = DOMAIN runs
    BY <1>8, <1>9, RunsRewritten
  <2>2. /\ graphs' = graphs /\ own' \in {own, [own EXCEPT ![p] = None]}
        /\ found' \in {found, [found EXCEPT ![p] = None]}
        /\ stage' \in {stage, [stage EXCEPT ![p] = "finish"], [stage EXCEPT ![p] = "idle"]}
        /\ UNCHANGED <<graph, report, commands, cleans, crowded>>
    BY <1>9 DEF ResumeRun, Proceed, Finish, Die
  <2>3. reopened' \in BOOLEAN
    BY <1>0, <1>9 DEF ResumeRun, Proceed, Finish, Die, Store
  <2>4. QED
    BY <1>0, <2>1, <2>2, <2>3
<1>10. ASSUME Clean PROVE graphs' = graphs /\ runs' \in Seq(RunsOf(graphs)) /\ Rest'
  <2>1. runs' \in Seq(RunsOf(graphs)) /\ DOMAIN runs' = DOMAIN runs
    BY <1>8, <1>10, RunsRewritten
  <2>2. /\ cleans < MaxCleans /\ cleans' = cleans + 1 /\ graph' = None /\ report' = None
        /\ UNCHANGED <<graphs, stage, own, found, commands, crowded, reopened>>
    BY <1>10, Zenon DEF Clean
  <2>3. QED
    BY <1>a, <1>0, <2>1, <2>2
<1> HIDE DEF Rest
<1>11. QED
  BY <1>0, <1>1, <1>2, <1>3, <1>4, <1>5, <1>6, <1>7, <1>9, <1>10 DEF Next

\* What is materialized stays.
LEMMA GraphsKept ==
    ASSUME TypeOK, Next, NEW g \in DOMAIN graphs
    PROVE  g \in DOMAIN graphs' /\ graphs'[g] = graphs[g]
<1>1. CASE UNCHANGED graphs
  BY <1>1
<1>2. ASSUME NEW p \in Procs, Materialize(p) PROVE g \in DOMAIN graphs' /\ graphs'[g] = graphs[g]
  <2>1. graphs \in Seq(Graphs) /\ \E e \in Graphs : graphs' = Append(graphs, e)
    BY <1>2 DEF Materialize, TypeOK, Graphs
  <2>2. QED
    BY <2>1, AppendTo
<1>3. QED
  BY <1>1, <1>2, Zenon
     DEF Next, SaveGraph, SaveReport, Execute, Gate, GateRefuses, StartRun, ResumeRun, Proceed, Finish, Die, Clean, Goto, Return

\* StartRun adds a run, everything else rewrites those that are there.
LEMMA RunsKept ==
    ASSUME TypeOK, Assigned, Driven, Next
    PROVE  Rewritten \/ \E p \in Procs : StartRun(p)
<1>1. \/ UNCHANGED runs
      \/ \E p \in Procs : StartRun(p) \/ ResumeRun(p) \/ Proceed(p) \/ Finish(p) \/ Die(p)
      \/ Clean
  BY Zenon DEF Next, Materialize, SaveGraph, SaveReport, Execute, Gate, GateRefuses
<1>2. QED
  BY <1>1, RunsRewritten

\* Who holds what, after every step.
LEMMA AssignedStep ==
    ASSUME TypeOK, Assigned, Next
    PROVE  Assigned'
<1> USE NoneAssumption DEF Give, Goto, Return
<1>0. /\ stage \in [Procs -> Stages] /\ own \in [Procs -> DOMAIN graphs \cup {None}]
      /\ found \in [Procs -> DOMAIN runs \cup {None}]
      /\ graph \in DOMAIN graphs \cup {None}
      /\ DOMAIN graphs \subseteq Nat /\ DOMAIN runs \subseteq Nat /\ Len(graphs) \in Nat /\ Len(runs) \in Nat
  BY DEF TypeOK, Stages
<1>1. ASSUME NEW q \in Procs PROVE Holds(q)'
  <2> USE DEF Holds
  <2>0. Holds(q)
    BY DEF Assigned, Holds
  <2>1. stage[q] = "execute" => graphs'[own[q]].complete = "yes"
    BY <1>0, <2>0, GraphsKept
  <2>2. ASSUME NEW p \in Procs, Materialize(p) PROVE Holds(q)'
    BY <1>0, <2>0, <2>1, <2>2 DEF Materialize
  <2>3. ASSUME NEW p \in Procs, SaveGraph(p) \/ SaveReport(p) \/ Execute(p) \/ GateRefuses(p) PROVE Holds(q)'
    BY <1>0, <2>0, <2>1, <2>3 DEF SaveGraph, SaveReport, Execute, GateRefuses
  <2>4. ASSUME NEW p \in Procs, Gate(p) PROVE Holds(q)'
    <3>1. GraphOf(p) # None /\ graphs[GraphOf(p)].complete = "yes" /\ graphs' = graphs
      BY <2>4 DEF Gate, Admitted
    <3>2. stage' = [stage EXCEPT ![p] = "execute"] /\ own' = [own EXCEPT ![p] = GraphOf(p)]
      BY <2>4 DEF Gate
    <3>3. q # p => found'[q] = found[q]
      BY <1>0, <2>4 DEF Gate
    <3>4. QED
      BY <1>0, <2>0, <2>1, <3>1, <3>2, <3>3
  <2>5. ASSUME NEW p \in Procs, StartRun(p) PROVE Holds(q)'
    BY <1>0, <2>0, <2>1, <2>5 DEF StartRun
  <2>6. ASSUME NEW p \in Procs, ResumeRun(p) \/ Proceed(p) \/ Finish(p) \/ Die(p) PROVE Holds(q)'
    BY <1>0, <2>0, <2>1, <2>6 DEF ResumeRun, Proceed, Finish, Die, process
  <2>7. ASSUME Clean PROVE Holds(q)'
    BY <2>0, <2>1, <2>7, Zenon DEF Clean, process
  <2>8. QED
    BY <2>2, <2>3, <2>4, <2>5, <2>6, <2>7, Zenon DEF Next
<1>2. QED
  BY <1>1 DEF Assigned, Holds

\* Every run is of a complete graph: the gate saw it.
LEMMA GateStep ==
    ASSUME TypeOK, Assigned, Driven, GateAdmitsOnlyReady, Next
    PROVE  GateAdmitsOnlyReady'
<1>0. graphs \in Seq(Graphs) /\ runs \in Seq(RunsOf(graphs))
  BY RunsTyped
<1>1. \A r \in DOMAIN runs : graphs'[runs[r].graph].complete = "yes"
  BY RunsTyped, GraphsKept DEF GateAdmitsOnlyReady
<1>2. CASE Rewritten
  BY <1>1, <1>2 DEF Rewritten, GateAdmitsOnlyReady
<1>3. ASSUME NEW p \in Procs, StartRun(p) PROVE GateAdmitsOnlyReady'
  <2>1. graphs[own[p]].complete = "yes" /\ own[p] \in DOMAIN graphs /\ graphs' = graphs
    BY <1>3 DEF StartRun, Assigned, Holds, TypeOK, Goto
  <2>2. [graph |-> own[p], status |-> "running", writer |-> p] \in RunsOf(graphs)
    BY <2>1 DEF RunsOf, Open
  <2>3. runs' = Append(runs, [graph |-> own[p], status |-> "running", writer |-> p])
    BY <1>3 DEF StartRun
  <2>4. QED
    BY <1>0, <1>1, <2>1, <2>2, <2>3, AppendTo DEF GateAdmitsOnlyReady
<1>4. QED
  BY <1>2, <1>3, RunsKept

\* A process that drives a run keeps it, unless the run is removed.
LEMMA DrivenStep ==
    ASSUME TypeOK, Assigned, Driven, Next
    PROVE  Driven'
<1> USE NoneAssumption
<1> DEFINE Mine(q, f, rs) == rs[f].status = "removed" \/ rs[f].writer = q
<1>0. /\ stage \in [Procs -> Stages] /\ found \in [Procs -> DOMAIN runs \cup {None}]
      /\ runs \in Seq(RunsOf(graphs)) /\ own \in [Procs -> DOMAIN graphs \cup {None}]
      /\ \A r \in DOMAIN runs : runs[r] \in RunsOf(graphs)
  BY RunsTyped DEF TypeOK, Stages
<1>1. SUFFICES ASSUME NEW q \in Procs, stage'[q] = "finish"
               PROVE  Mine(q, found'[q], runs')
  BY DEF Driven
<1>2. stage[q] = "finish" => found[q] \in DOMAIN runs /\ Mine(q, found[q], runs)
  BY <1>0 DEF Assigned, Holds, Driven
<1>3. ASSUME NEW p \in Procs, StartRun(p) PROVE Mine(q, found'[q], runs')
  <2>1. [graph |-> own[p], status |-> "running", writer |-> p] \in RunsOf(graphs)
    BY <1>0, <1>3 DEF StartRun, Assigned, Holds, RunsOf, Open
  <2>2. /\ runs' = Append(runs, [graph |-> own[p], status |-> "running", writer |-> p])
        /\ found' = [found EXCEPT ![p] = Len(runs) + 1] /\ stage' = [stage EXCEPT ![p] = "finish"]
    BY <1>3 DEF StartRun, Goto
  <2>3. /\ \A i \in DOMAIN runs : runs'[i] = runs[i]
        /\ runs'[Len(runs) + 1] = [graph |-> own[p], status |-> "running", writer |-> p]
    BY <1>0, <2>1, <2>2, AppendTo
  <2>4. CASE q = p
    BY <1>0, <2>2, <2>3, <2>4
  <2>5. CASE q # p
    BY <1>0, <1>1, <1>2, <2>2, <2>3, <2>5
  <2>6. QED
    BY <2>4, <2>5
\* Whoever else writes to a run takes one without a writer, or its own.
<1>4. ASSUME NEW p \in Procs, ResumeRun(p) PROVE Mine(q, found'[q], runs')
  <2>1. CASE runs' = runs /\ Return(p)
    BY <1>0, <1>1, <1>2, <2>1 DEF Return, Goto
  <2>2. CASE /\ runs[found[p]].status # "removed" /\ runs[found[p]].writer = None
             /\ runs' = [runs EXCEPT ![found[p]].writer = p]
             /\ stage' = [stage EXCEPT ![p] = "finish"] /\ found' = found
    <3>1. found[p] \in DOMAIN runs
      BY <1>0, <1>4 DEF ResumeRun
    <3>2. runs'[found[p]].writer = p
      BY <1>0, <2>2, <3>1 DEF RunsOf
    <3>3. \A r \in DOMAIN runs \ {found[p]} : runs'[r] = runs[r]
      BY <2>2
    <3>4. q # p => ~Mine(q, found[p], runs)
      BY <2>2
    <3>5. QED
      BY <1>0, <1>1, <1>2, <2>2, <3>1, <3>2, <3>3, <3>4
  <2>3. QED
    BY <1>4, <2>1, <2>2 DEF ResumeRun, Goto
<1>a. ASSUME NEW p \in Procs, Proceed(p) PROVE Mine(q, found'[q], runs')
  <2>1. stage[q] = "finish" /\ found'[q] = found[q] /\ stage[p] = "finish"
    BY <1>1, <1>a DEF Proceed, process
  <2>2. runs' = [runs EXCEPT ![found[p]].status = "running", ![found[p]].writer = p]
    BY <1>a DEF Proceed, Store
  <2>3. found[p] \in DOMAIN runs /\ runs[found[p]].status # "removed" /\ runs[found[p]].writer = p
    BY <1>0, <1>a, <2>1 DEF Proceed, Driven, Assigned, Holds
  <2>4. CASE found[q] = found[p]
    <3>1. q = p
      BY <1>2, <2>1, <2>3, <2>4
    <3>2. runs'[found[p]].writer = p
      BY <1>0, <2>2, <2>3 DEF RunsOf
    <3>3. QED
      BY <2>1, <3>1, <3>2
  <2>5. CASE found[q] # found[p]
    BY <1>2, <2>1, <2>2, <2>5
  <2>6. QED
    BY <2>4, <2>5
<1>5. ASSUME NEW p \in Procs, Finish(p) PROVE Mine(q, found'[q], runs')
  <2>1. q # p /\ stage[q] = "finish" /\ found'[q] = found[q]
    BY <1>0, <1>1, <1>5 DEF Finish, Return, Goto
  <2>2. CASE runs' = runs
    BY <1>2, <2>1, <2>2
  <2>3. ASSUME NEW s, runs[found[p]].status # "removed",
               runs' = [runs EXCEPT ![found[p]].status = s, ![found[p]].writer = None]
        PROVE  Mine(q, found'[q], runs')
    <3>1. runs[found[p]].writer = p
      BY <1>5, <2>3 DEF Driven, Finish
    <3>2. \A r \in DOMAIN runs \ {found[p]} : runs'[r] = runs[r]
      BY <2>3
    <3>3. CASE found[q] = found[p]
      BY <1>2, <2>1, <2>3, <3>1, <3>3
    <3>4. CASE found[q] # found[p]
      BY <1>2, <2>1, <3>2, <3>4
    <3>5. QED
      BY <3>3, <3>4
  <2>4. QED
    BY <1>5, <2>2, <2>3, Zenon DEF Finish, Store
<1>6. ASSUME NEW p \in Procs, Die(p) PROVE Mine(q, found'[q], runs')
  <2>1. q # p /\ stage[q] = "finish" /\ found'[q] = found[q]
    BY <1>0, <1>1, <1>6 DEF Die, Return, Goto
  <2>2. runs'[found[q]] = IF runs[found[q]].writer = p THEN [runs[found[q]] EXCEPT !.writer = None] ELSE runs[found[q]]
    BY <1>2, <1>6, <2>1, Zenon DEF Die
  <2>3. QED
    BY <1>0, <1>2, <2>1, <2>2 DEF RunsOf
<1>7. ASSUME Clean PROVE Mine(q, found'[q], runs')
  <2>1. stage[q] = "finish" /\ found'[q] = found[q]
    BY <1>1, <1>7, Zenon DEF Clean, process
  <2>2. runs'[found[q]] = [runs[found[q]] EXCEPT !.status = "removed", !.writer = None]
    BY <1>2, <1>7, <2>1, Zenon DEF Clean
  <2>3. QED
    BY <1>0, <1>2, <2>1, <2>2 DEF RunsOf
<1>8. ASSUME NEW p \in Procs,
             Materialize(p) \/ SaveGraph(p) \/ SaveReport(p) \/ Execute(p) \/ Gate(p) \/ GateRefuses(p)
      PROVE  Mine(q, found'[q], runs')
  <2>1. stage[q] = "finish" /\ found'[q] = found[q] /\ runs' = runs
    BY <1>0, <1>1, <1>8
       DEF Materialize, SaveGraph, SaveReport, Execute, Gate, GateRefuses, Give, Goto, Return
  <2>2. QED
    BY <1>2, <2>1
<1>9. QED
  BY <1>3, <1>4, <1>a, <1>5, <1>6, <1>7, <1>8, Zenon DEF Next

\* A process comes to look for a graph only through the gate, and without
\* crowding only when nobody else does and no run of the graph is open.
LEMMA NewLooker ==
    ASSUME TypeOK, Next, ~crowded', NEW q \in Procs, Looking(q, own[q])'
    PROVE  \/ Looking(q, own[q]) /\ own'[q] = own[q]
           \/ /\ runs' = runs /\ \A p \in Procs \ {q} : UNCHANGED <<stage[p], own[p], found[p]>>
              /\ \A p \in Procs \ {q} : ~Looking(p, own'[q])
              /\ \A r \in DOMAIN runs : runs[r].status \in Open => runs[r].graph # own'[q]
<1> USE NoneAssumption
<1>0. /\ stage \in [Procs -> Stages] /\ own \in [Procs -> DOMAIN graphs \cup {None}]
      /\ found \in [Procs -> DOMAIN runs \cup {None}] /\ DOMAIN runs \subseteq Nat
  BY RunsTyped DEF TypeOK, Stages
<1>1. stage'[q] = "execute" /\ found'[q] = None
  BY DEF Looking
<1>2. CASE Gate(q)
  <2>1. PICK forced \in {"yes", "no"} :
          LET candidates == IF forced = "yes" THEN {} ELSE Resumable(GraphOf(q))
          IN  /\ \E r \in (IF candidates = {} THEN {None} ELSE candidates) : found' = [found EXCEPT ![q] = r]
              /\ crowded' = (crowded \/ forced = "yes" \/ \E p \in Procs \ {q} : Looking(p, GraphOf(q)))
    BY <1>2 DEF Gate
  <2>2. forced = "no" /\ \A p \in Procs \ {q} : ~Looking(p, GraphOf(q))
    BY <2>1
  <2>3. /\ runs' = runs /\ own' = [own EXCEPT ![q] = GraphOf(q)] /\ stage' = [stage EXCEPT ![q] = "execute"]
    BY <1>2 DEF Gate, Goto
  <2>4. \E r \in (IF Resumable(GraphOf(q)) = {} THEN {None} ELSE Resumable(GraphOf(q))) :
          found' = [found EXCEPT ![q] = r]
    BY <2>1, <2>2
  <2>5. Resumable(GraphOf(q)) = {}
    BY <1>0, <1>1, <2>4 DEF Resumable
  <2>6. QED
    BY <1>0, <2>2, <2>3, <2>4, <2>5 DEF Resumable
<1>3. CASE ~Gate(q)
  <2>1. UNCHANGED <<stage[q], own[q], found[q]>>
    <3>1. ASSUME NEW p \in Procs, Materialize(p) \/ SaveGraph(p) \/ SaveReport(p) \/ Execute(p) \/ GateRefuses(p)
          PROVE  UNCHANGED <<stage[q], own[q], found[q]>>
      BY <1>0, <1>1, <3>1 DEF Materialize, SaveGraph, SaveReport, Execute, GateRefuses, Give, Goto, Return
    <3>2. ASSUME NEW p \in Procs, StartRun(p) \/ ResumeRun(p) \/ Proceed(p) \/ Finish(p) \/ Die(p)
          PROVE  UNCHANGED <<stage[q], own[q], found[q]>>
      BY <1>0, <1>1, <3>2 DEF StartRun, ResumeRun, Proceed, Finish, Die, Goto, Return, process
    <3>3. ASSUME NEW p \in Procs, Gate(p) PROVE UNCHANGED <<stage[q], own[q], found[q]>>
      BY <1>0, <1>3, <3>3 DEF Gate, Goto
    <3>4. ASSUME Clean PROVE UNCHANGED <<stage[q], own[q], found[q]>>
      BY <3>4, Zenon DEF Clean, process
    <3>5. QED
      BY <3>1, <3>2, <3>3, <3>4, Zenon DEF Next
  <2>2. QED
    BY <1>1, <2>1 DEF Looking
<1>4. QED
  BY <1>2, <1>3

\* Looking for a run alone, and one open run per graph, are kept together.
LEMMA AloneStep ==
    ASSUME TypeOK, Assigned, Driven, crowded \/ reopened \/ Alone, OneOpenRunPerGraph, Next
    PROVE  (crowded' \/ reopened' \/ Alone') /\ OneOpenRunPerGraph'
<1> USE NoneAssumption
<1> DEFINE Opened(r) == r \in DOMAIN runs' /\ runs'[r].status \in Open
<1>1. SUFFICES ASSUME ~crowded', ~reopened' PROVE Alone' /\ OneOpenRunPerGraph'
  BY DEF OneOpenRunPerGraph
<1>2. ~crowded /\ ~reopened
  <2>1. ASSUME UNCHANGED history PROVE ~crowded /\ ~reopened
    BY <1>1, <2>1, Zenon DEF history
  <2>2. ASSUME NEW p \in Procs, Gate(p) PROVE ~crowded /\ ~reopened
    BY <1>1, <2>2, Zenon DEF Gate
  <2>3. ASSUME NEW p \in Procs, Proceed(p) \/ Finish(p) PROVE ~crowded /\ ~reopened
    <3>1. crowded' = crowded
      BY <2>3 DEF Proceed, Finish
    <3>2. reopened' = reopened \/ \E r, s, w : Store(r, s, w)
      BY <2>3, Zenon DEF Proceed, Finish
    <3>3. reopened => reopened'
      BY <3>2, Zenon DEF Store
    <3>4. QED
      BY <1>1, <3>1, <3>3, Zenon
  <2>4. QED
    BY <2>1, <2>2, <2>3, Zenon
       DEF Next, Materialize, SaveGraph, SaveReport, Execute, GateRefuses, StartRun, ResumeRun, Die, Clean
<1>3. Alone /\ \A r, s \in DOMAIN runs : /\ runs[r].status \in Open /\ runs[s].status \in Open
                                         /\ runs[r].graph = runs[s].graph
                                         => r = s
  BY <1>2 DEF OneOpenRunPerGraph
<1>4. CASE Rewritten
  <2>1. \A r : Opened(r) => r \in DOMAIN runs /\ runs[r].status \in Open /\ runs'[r].graph = runs[r].graph
    BY <1>1, <1>4 DEF Rewritten
  <2>2. OneOpenRunPerGraph'
    BY <1>3, <2>1 DEF OneOpenRunPerGraph
  <2>3. ASSUME NEW q \in Procs, Looking(q, own[q])'
        PROVE  /\ \A p \in Procs : Looking(p, own[q])' => p = q
               /\ \A r : Opened(r) => runs'[r].graph # own'[q]
    <3>1. CASE Looking(q, own[q]) /\ own'[q] = own[q]
      <4>1. \A r : Opened(r) => runs'[r].graph # own'[q]
        BY <1>3, <2>1, <3>1 DEF Alone, Looking
      <4>2. ASSUME NEW p \in Procs, Looking(p, own[q])' PROVE p = q
        <5>1. Looking(p, own[p])' /\ own'[p] = own[q]
          BY <3>1, <4>2 DEF Looking
        <5>2. CASE Looking(p, own[p]) /\ own'[p] = own[p]
          BY <1>3, <3>1, <5>1, <5>2 DEF Alone, Looking
        <5>3. CASE \A z \in Procs \ {p} : ~Looking(z, own'[p])
          BY <3>1, <5>1, <5>3 DEF Looking
        <5>4. QED
          BY <1>1, <5>1, <5>2, <5>3, NewLooker
      <4>3. QED
        BY <4>1, <4>2
    <3>2. CASE /\ runs' = runs /\ \A p \in Procs \ {q} : UNCHANGED <<stage[p], own[p], found[p]>>
               /\ \A p \in Procs \ {q} : ~Looking(p, own'[q])
               /\ \A r \in DOMAIN runs : runs[r].status \in Open => runs[r].graph # own'[q]
      BY <3>2 DEF Looking
    <3>3. QED
      BY <1>1, <2>3, <3>1, <3>2, NewLooker
  <2>4. Alone'
    BY <2>3 DEF Alone, Looking
  <2>5. QED
    BY <2>2, <2>4
<1>5. ASSUME NEW p \in Procs, StartRun(p) PROVE Alone' /\ OneOpenRunPerGraph'
  <2>1. Looking(p, own[p]) /\ own[p] \in DOMAIN graphs
    BY <1>5 DEF StartRun, Looking, Assigned, Holds, TypeOK
  <2>2. [graph |-> own[p], status |-> "running", writer |-> p] \in RunsOf(graphs)
    BY <2>1 DEF RunsOf, Open
  <2>3. /\ runs' = Append(runs, [graph |-> own[p], status |-> "running", writer |-> p])
        /\ own' = own /\ \A q \in Procs \ {p} : UNCHANGED <<stage[q], found[q]>>
        /\ stage'[p] = "finish"
    BY <1>5 DEF StartRun, Goto, TypeOK
  <2>4. /\ DOMAIN runs' = DOMAIN runs \cup {Len(runs) + 1} /\ runs'[Len(runs) + 1].graph = own[p]
        /\ \A r \in DOMAIN runs : runs'[r] = runs[r]
    BY <2>2, <2>3, AppendTo, RunsTyped
  <2>5. \A r \in DOMAIN runs : runs[r].status \in Open => runs[r].graph # own[p]
    BY <1>3, <2>1 DEF Alone, Looking
  <2>6. OneOpenRunPerGraph'
    BY <1>3, <2>4, <2>5 DEF OneOpenRunPerGraph
  <2>7. ASSUME NEW q \in Procs, Looking(q, own[q])'
        PROVE  /\ \A z \in Procs : Looking(z, own[q])' => z = q
               /\ \A r : Opened(r) => runs'[r].graph # own'[q]
    <3>1. q # p /\ Looking(q, own[q]) /\ own'[q] = own[q]
      BY <2>3, <2>7 DEF Looking
    <3>2. own[q] # own[p]
      BY <1>3, <2>1, <3>1 DEF Alone, Looking
    <3>3. QED
      BY <1>3, <2>3, <2>4, <3>1, <3>2 DEF Alone, Looking
  <2>8. QED
    BY <2>6, <2>7 DEF Alone, Looking
<1>6. QED
  BY <1>4, <1>5, RunsKept

\* The inductive invariant behind the theorems below.
THEOREM RunsInvariant == Spec => []IInv
<1>1. Init => IInv
  <2> SUFFICES ASSUME Init PROVE IInv
    OBVIOUS
  <2>1. TypeOK
    <3>1. graphs \in Seq(Graphs) /\ runs \in Seq(RunsOf(graphs))
      BY EmptySeq DEF Init
    <3>2. commands \in 0..MaxCommands /\ cleans \in 0..MaxCleans /\ crowded \in BOOLEAN /\ reopened \in BOOLEAN
      <4>1. MaxCommands \in Nat /\ MaxCleans \in Nat
        BY BoundsAssumption
      <4>2. commands = 0 /\ cleans = 0 /\ crowded \in BOOLEAN /\ reopened \in BOOLEAN
        BY Zenon DEF Init
      <4>3. QED
        BY <4>1, <4>2
    <3>3. /\ graph = None /\ report = None /\ stage \in [Procs -> {"idle"}]
          /\ own \in [Procs -> {None}] /\ found \in [Procs -> {None}]
      BY DEF Init
    <3>4. QED
      BY <3>1, <3>2, <3>3 DEF TypeOK, Graphs, RunsOf
  <2>2. Assigned /\ Driven /\ Alone
    BY NoneAssumption DEF Init, Assigned, Holds, Driven, Alone
  <2>3. GateAdmitsOnlyReady /\ OneOpenRunPerGraph
    BY DEF Init, GateAdmitsOnlyReady, OneOpenRunPerGraph
  <2>4. QED
    BY <2>1, <2>2, <2>3 DEF IInv
<1>2. IInv /\ [Next]_vars => IInv'
  <2>1. ASSUME IInv, Next PROVE IInv'
    BY <2>1, TypesStep, AssignedStep, GateStep, DrivenStep, AloneStep, Zenon DEF IInv
  <2>2. ASSUME IInv, UNCHANGED vars PROVE IInv'
    <3> USE <2>2 DEF vars, disk, process, history, IInv
    <3>1. TypeOK'
      BY DEF TypeOK
    <3>2. Assigned' /\ Driven' /\ GateAdmitsOnlyReady'
      BY DEF Assigned, Holds, Driven, GateAdmitsOnlyReady
    <3>3. (crowded \/ reopened \/ Alone)' /\ OneOpenRunPerGraph'
      BY DEF Alone, Looking, OneOpenRunPerGraph
    <3>4. QED
      BY <3>1, <3>2, <3>3
  <2>3. QED
    BY <2>1, <2>2
<1>3. QED
  BY <1>1, <1>2, PTL DEF Spec

\* Every variable keeps its type, over any number of graphs and runs.
THEOREM TypeCorrect == Spec => []TypeOK
BY RunsInvariant, PTL DEF IInv

\* Whatever graph and report two reproductions or a death leave side by side,
\* the gate admits none that was blocked (platform_execution.py).
THEOREM NoRunOfABlockedGraph == Spec => []GateAdmitsOnlyReady
BY RunsInvariant, PTL DEF IInv

\* A graph has one open run unless a second was asked for, two processes looked
\* before either started one (_find_resumable_run), or a process resumed the run
\* it had found after another one had ended it (load_and_resume_run).
THEOREM OneOpenRun == Spec => []OneOpenRunPerGraph
BY RunsInvariant, PTL DEF IInv
=============================================================================
