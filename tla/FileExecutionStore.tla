------------------------ MODULE FileExecutionStore ------------------------
(***************************************************************************)
(* runtime/execution_store/file_store.py with journal.py, atomic_io.py and *)
(* snapshot_meta.py: one run directory, one process at a time, one file    *)
(* write per step.  An atomic_write_json either replaced its file or left  *)
(* it alone; an append_jsonl_line may stop half-way.  Any step may be the  *)
(* last one of its call: the process dies or the write fails.              *)
(*                                                                         *)
(* A commit is named by the one event it carries (coordinator.py:98 stages *)
(* an event and commits it), and the run, tasks and results it writes by   *)
(* that name too.  The journal is rewritten between the writes below to    *)
(* record its progress; recovery never reads that progress.                *)
(***************************************************************************)
EXTENDS Integers, Sequences, FiniteSets

CONSTANTS CreationEvents,   \* how many TASK_CREATED events a run starts with
          MaxEvents,        \* bound: events of the run, those included
          MaxInterrupts,    \* bound: calls cut short
          MaxTorn           \* bound: appends cut short half-way

ASSUME BoundsAssumption ==
    /\ CreationEvents \in Nat /\ MaxEvents \in Nat
    /\ MaxInterrupts \in Nat /\ MaxTorn \in Nat

VARIABLES
    claimed,    \* create_run made the directory
    tasks, artifacts, report,   \* the snapshot files: revision and content
    envelope,   \* run.json
    trace,      \* trace.jsonl, line by line
    journals,   \* journal/<transition_id>.journal.json
    pc,         \* the step the process is at
    caller,     \* the call that load_snapshot returns to
    job,        \* the event, and artifacts, of the commit in progress
    base,       \* the snapshot a call works on
    session,    \* "writer": the run is in _active_locks; "loaded": the engine has a trace to go on from
    seq,        \* the sequence number its ExecutionTraceBuilder used last
    events,     \* how many event ids were ever drawn
    acked,      \* transitions whose commit_transition returned
    interrupts, torn

disk == <<claimed, tasks, artifacts, report, envelope, trace, journals>>
memory == <<pc, caller, job, base, session, seq>>
counters == <<events, acked, interrupts, torn>>
vars == <<disk, memory, counters>>

-----------------------------------------------------------------------------
(* Files *)

\* A file that is not there, and the content it would have had.
Absent == -1
NoFile == [rev |-> Absent, content |-> Absent]
NoEnvelope == [rev |-> Absent, image |-> Absent, ids |-> {}]

File(rev, content) == [rev |-> rev, content |-> content]
Envelope(rev, image, ids) == [rev |-> rev, image |-> image, ids |-> ids]
Line(e, kind) == [id |-> e.id, seq |-> e.seq, kind |-> kind]

\* A line whose newline was written parses unless it is two lines in one; one
\* without it parses when only the newline is missing.
Readable(line) == line.kind \in {"whole", "unterminated"}
Terminated(line) == line.kind \in {"whole", "merged"}

\* open(path, "a"): what is appended continues a line left without newline.
Appended(lines, e, kind) ==
    IF lines = <<>> \/ Terminated(lines[Len(lines)])
    THEN Append(lines, Line(e, kind))
    ELSE [lines EXCEPT ![Len(lines)] = [@ EXCEPT !.kind = IF kind = "whole" THEN "merged" ELSE "torn"]]

\* read_jsonl: a last line that does not parse is skipped, an earlier one is
\* CorruptSnapshotError.
Corrupt(lines) == \E i \in 1..Len(lines) - 1 : ~Readable(lines[i])
Recorded(lines) == {lines[i].id : i \in {k \in DOMAIN lines : Readable(lines[k])}}
LastSeq(lines) ==
    LET seqs == {lines[i].seq : i \in {k \in DOMAIN lines : Readable(lines[k])}}
    IN CHOOSE s \in seqs \cup {0} : \A t \in seqs : t <= s

\* ExecutionTrace.model_validate: sequence numbers strictly increase.
Ordered(lines) ==
    \A i, j \in DOMAIN lines :
        i < j /\ Readable(lines[i]) /\ Readable(lines[j]) => lines[i].seq < lines[j].seq

\* validate_snapshot_set and unwrap_snapshot_payload; a missing artifacts or
\* report file passes.
SameRevision ==
    /\ tasks # NoFile /\ tasks.rev = envelope.rev
    /\ artifacts # NoFile => artifacts.rev = envelope.rev
    /\ report # NoFile => report.rev = envelope.rev

Loadable ==
    /\ envelope # NoEnvelope
    /\ SameRevision
    /\ ~Corrupt(trace) /\ Ordered(trace)

-----------------------------------------------------------------------------

NoJob == [id |-> 0, seq |-> 0, arts |-> 0]
NoBase == [rev |-> 0, ids |-> {}, image |-> 0, artifacts |-> 0, report |-> Absent]

Init ==
    /\ claimed = FALSE
    /\ tasks = NoFile /\ artifacts = NoFile /\ report = NoFile /\ envelope = NoEnvelope
    /\ trace = <<>> /\ journals = {}
    /\ pc = "idle" /\ caller = "none" /\ job = NoJob /\ base = NoBase
    /\ session = "none" /\ seq = 0
    /\ events = CreationEvents /\ acked = {} /\ interrupts = 0 /\ torn = 0

Goto(l) == pc' = l
Continue(l) == Goto(l) /\ UNCHANGED <<caller, job, base, session, seq>>

\* The call raises: the engine gives the lock back and its session is over.
Raise == Goto("idle") /\ session' = "none" /\ job' = NoJob /\ UNCHANGED <<caller, base, seq>>

\* The engine numbers the creation events before it calls create_run.
CreationEvent(n) == [id |-> n, seq |-> n]

\* create_run: the directory, the snapshot files, the envelope, then the events
\* one by one.
CreateRun ==
    /\ pc = "idle" /\ ~claimed
    /\ claimed' = TRUE
    /\ Continue("create_tasks")
    /\ UNCHANGED <<tasks, artifacts, report, envelope, trace, journals, counters>>

CreateTasks ==
    /\ pc = "create_tasks"
    /\ tasks' = File(0, 0)
    /\ Continue("create_artifacts")
    /\ UNCHANGED <<claimed, artifacts, report, envelope, trace, journals, counters>>

CreateArtifacts ==
    /\ pc = "create_artifacts"
    /\ artifacts' = File(0, 0)
    /\ Continue("create_envelope")
    /\ UNCHANGED <<claimed, tasks, report, envelope, trace, journals, counters>>

CreateEnvelope ==
    /\ pc = "create_envelope"
    /\ envelope' = Envelope(0, 0, {})
    /\ Continue("create_trace")
    /\ UNCHANGED <<claimed, tasks, artifacts, report, trace, journals, counters>>

CreateTrace ==
    /\ pc = "create_trace"
    /\ IF Len(trace) < CreationEvents
       THEN /\ trace' = Append(trace, Line(CreationEvent(Len(trace) + 1), "whole"))
            /\ Continue("create_trace")
       ELSE /\ UNCHANGED <<trace, caller, job, base>>
            /\ Goto("idle") /\ session' = "loaded" /\ seq' = CreationEvents
    /\ UNCHANGED <<claimed, tasks, artifacts, report, envelope, journals, counters>>

AcquireWriter ==
    /\ pc = "idle" /\ session = "loaded"
    /\ session' = "writer"
    /\ UNCHANGED <<disk, pc, caller, job, base, seq, counters>>

\* The engine's finally clause, or the process ends between two calls.
ReleaseWriter ==
    /\ pc = "idle" /\ session = "writer"
    /\ Raise
    /\ UNCHANGED <<disk, counters>>

-----------------------------------------------------------------------------
(* load_snapshot, called alone or by the two writing operations *)

Call(c) == Goto("load") /\ caller' = c

LoadSnapshot ==
    /\ pc = "idle" /\ claimed
    /\ Call("reader")
    /\ UNCHANGED <<disk, job, base, session, seq, counters>>

\* The next event of the session; or the last transition once more, which
\* commit_transition must recognise.
CommitTransition ==
    /\ pc = "idle" /\ session = "writer"
    /\ \/ /\ events < MaxEvents
          /\ events' = events + 1
          /\ seq' = seq + 1
          /\ \E arts \in {0, events + 1} :
                job' = [id |-> events + 1, seq |-> seq + 1, arts |-> arts]
       \/ job # NoJob /\ UNCHANGED <<job, events, seq>>
    /\ Call("commit")
    /\ UNCHANGED <<disk, base, session, acked, interrupts, torn>>

SaveReport ==
    /\ pc = "idle" /\ session = "writer"
    /\ Call("report")
    /\ UNCHANGED <<disk, job, base, session, seq, counters>>

\* list_incomplete_journals, taken in the order of their target revisions.
Due == CHOOSE j \in journals : \A k \in journals : j.target <= k.target

Load ==
    /\ pc = "load"
    /\ IF journals = {} THEN Continue("read")
       ELSE IF envelope = NoEnvelope THEN Raise
       ELSE IF Due.event.id \in envelope.ids /\ Due.target <= envelope.rev THEN Continue("replay_remove")
       ELSE IF Due.base # envelope.rev THEN Raise
       ELSE Continue("replay_tasks")
    /\ UNCHANGED <<disk, counters>>

\* Mutant: the file that is there is trusted to be the target's.
ReplayTasksTrusted ==
    /\ pc = "replay_tasks"
    /\ Continue("replay_artifacts")
    /\ UNCHANGED <<disk, counters>>

\* _replay_journal: the journal is the target image, every file is written again.
ReplayTasks ==
    /\ pc = "replay_tasks"
    /\ tasks' = File(Due.target, Due.event.id)
    /\ Continue("replay_artifacts")
    /\ UNCHANGED <<claimed, artifacts, report, envelope, trace, journals, counters>>

ReplayArtifacts ==
    /\ pc = "replay_artifacts"
    /\ artifacts' = File(Due.target, Due.artifacts)
    /\ Continue("replay_report")
    /\ UNCHANGED <<claimed, tasks, report, envelope, trace, journals, counters>>

ReplayReport ==
    /\ pc = "replay_report"
    /\ report' = IF Due.report = Absent THEN NoFile ELSE File(Due.target, Due.report)
    /\ Continue("replay_trace")
    /\ UNCHANGED <<claimed, tasks, artifacts, envelope, trace, journals, counters>>

\* Mutant: the interrupted commit is trusted to have appended its event.
ReplayTraceTrusted ==
    /\ pc = "replay_trace"
    /\ Continue("replay_envelope")
    /\ UNCHANGED <<disk, counters>>

ReplayTrace ==
    /\ pc = "replay_trace"
    /\ trace' = IF Corrupt(trace) \/ Due.event.id \in Recorded(trace) THEN trace
                ELSE Appended(trace, Due.event, "whole")
    /\ IF Corrupt(trace') \/ ~Ordered(trace') THEN Raise ELSE Continue("replay_envelope")
    /\ UNCHANGED <<claimed, tasks, artifacts, report, envelope, journals, counters>>

\* Mutant: the replayed transition is not added to the committed ones.
ReplayEnvelopeUnnamed ==
    /\ pc = "replay_envelope"
    /\ envelope' = Envelope(Due.target, Due.event.id, envelope.ids)
    /\ Continue("replay_remove")
    /\ UNCHANGED <<claimed, tasks, artifacts, report, trace, journals, counters>>

ReplayEnvelope ==
    /\ pc = "replay_envelope"
    /\ envelope' = Envelope(Due.target, Due.event.id, envelope.ids \cup {Due.event.id})
    /\ Continue("replay_remove")
    /\ UNCHANGED <<claimed, tasks, artifacts, report, trace, journals, counters>>

ReplayRemove ==
    /\ pc = "replay_remove"
    /\ journals' = journals \ {Due}
    /\ Continue("load")
    /\ UNCHANGED <<claimed, tasks, artifacts, report, envelope, trace, counters>>

\* _load_raw_snapshot, then back to the caller; a transition that is already
\* committed is not committed again.
Read ==
    /\ pc = "read"
    /\ IF ~Loadable THEN Raise /\ UNCHANGED acked
       ELSE /\ base' = [rev |-> envelope.rev, ids |-> envelope.ids, image |-> envelope.image,
                        artifacts |-> IF artifacts = NoFile THEN 0 ELSE artifacts.content,
                        report |-> report.content]
            /\ \/ /\ caller = "commit" /\ job.id \in envelope.ids
                  /\ acked' = acked \cup {job.id}
                  /\ Goto("idle") /\ UNCHANGED <<session, seq>>
               \/ /\ caller = "commit" /\ job.id \notin envelope.ids
                  /\ Goto("commit_journal") /\ UNCHANGED <<session, seq, acked>>
               \/ /\ caller = "report"
                  /\ Goto("report_file") /\ UNCHANGED <<session, seq, acked>>
               \/ /\ caller = "reader"
                  /\ Goto("idle") /\ UNCHANGED acked
                  /\ IF session = "writer" THEN UNCHANGED <<session, seq>>
                     ELSE session' = "loaded" /\ seq' = LastSeq(trace)
            /\ UNCHANGED <<caller, job>>
    /\ UNCHANGED <<disk, events, interrupts, torn>>

-----------------------------------------------------------------------------
(* commit_transition after the load: journal, trace, snapshot files, envelope *)

JournalRecord(target, arts) ==
    [event |-> [id |-> job.id, seq |-> job.seq], base |-> base.rev, target |-> target,
     artifacts |-> arts, report |-> base.report]

\* Mutants: a revision that does not advance; artifacts a commit does not carry are dropped.
CommitJournalInPlace ==
    /\ pc = "commit_journal"
    /\ journals' = journals \cup
          {JournalRecord(base.rev, IF job.arts = 0 THEN base.artifacts ELSE job.arts)}
    /\ Continue("commit_trace")
    /\ UNCHANGED <<claimed, tasks, artifacts, report, envelope, trace, counters>>
CommitJournalAsGiven ==
    /\ pc = "commit_journal"
    /\ journals' = journals \cup {JournalRecord(base.rev + 1, job.arts)}
    /\ Continue("commit_trace")
    /\ UNCHANGED <<claimed, tasks, artifacts, report, envelope, trace, counters>>

CommitJournal ==
    /\ pc = "commit_journal"
    /\ journals' = journals \cup
          {JournalRecord(base.rev + 1, IF job.arts = 0 THEN base.artifacts ELSE job.arts)}
    /\ Continue("commit_trace")
    /\ UNCHANGED <<claimed, tasks, artifacts, report, envelope, trace, counters>>

CommitTrace ==
    /\ pc = "commit_trace"
    /\ IF Corrupt(trace) THEN Raise /\ UNCHANGED trace
       ELSE /\ trace' = IF job.id \in Recorded(trace) THEN trace ELSE Appended(trace, job, "whole")
            /\ Continue("commit_tasks")
    /\ UNCHANGED <<claimed, tasks, artifacts, report, envelope, journals, counters>>

CommitTasks ==
    /\ pc = "commit_tasks"
    /\ tasks' = File(Due.target, job.id)
    /\ Continue("commit_artifacts")
    /\ UNCHANGED <<claimed, artifacts, report, envelope, trace, journals, counters>>

CommitArtifacts ==
    /\ pc = "commit_artifacts"
    /\ artifacts' = File(Due.target, Due.artifacts)
    /\ Continue("commit_report")
    /\ UNCHANGED <<claimed, tasks, report, envelope, trace, journals, counters>>

CommitReport ==
    /\ pc = "commit_report"
    /\ report' = IF Due.report = Absent THEN report ELSE File(Due.target, Due.report)
    /\ Continue("commit_envelope")
    /\ UNCHANGED <<claimed, tasks, artifacts, envelope, trace, journals, counters>>

CommitEnvelope ==
    /\ pc = "commit_envelope"
    /\ envelope' = Envelope(Due.target, job.id, base.ids \cup {job.id})
    /\ Continue("commit_remove")
    /\ UNCHANGED <<claimed, tasks, artifacts, report, trace, journals, counters>>

CommitRemove ==
    /\ pc = "commit_remove"
    /\ journals' = journals \ {Due}
    /\ acked' = acked \cup {job.id}
    /\ Continue("idle")
    /\ UNCHANGED <<claimed, tasks, artifacts, report, envelope, trace, events, interrupts, torn>>

\* save_report after the load: the report at the loaded revision, the envelope again.
ReportFile ==
    /\ pc = "report_file"
    /\ report' = File(base.rev, base.image)
    /\ Continue("report_envelope")
    /\ UNCHANGED <<claimed, tasks, artifacts, envelope, trace, journals, counters>>

ReportEnvelope ==
    /\ pc = "report_envelope"
    /\ envelope' = Envelope(base.rev, base.image, base.ids)
    /\ Continue("idle")
    /\ UNCHANGED <<claimed, tasks, artifacts, report, trace, journals, counters>>

-----------------------------------------------------------------------------

\* The process dies before its next write, or the write fails and the call raises.
Interrupt ==
    /\ pc # "idle"
    /\ interrupts < MaxInterrupts
    /\ interrupts' = interrupts + 1
    /\ Raise
    /\ UNCHANGED <<disk, events, acked, torn>>

Appending ==
    IF pc = "commit_trace" THEN {job}
    ELSE IF pc = "replay_trace" THEN {Due.event}
    ELSE IF pc = "create_trace" /\ Len(trace) < CreationEvents THEN {CreationEvent(Len(trace) + 1)}
    ELSE {}

\* The same inside append_jsonl_line, after part of the line reached the file.
TearAppend ==
    /\ interrupts < MaxInterrupts /\ torn < MaxTorn
    /\ interrupts' = interrupts + 1 /\ torn' = torn + 1
    /\ ~Corrupt(trace)
    /\ \E e \in Appending, kind \in {"torn", "unterminated"} :
          /\ e.id \notin Recorded(trace)
          /\ trace' = Appended(trace, e, kind)
    /\ Raise
    /\ UNCHANGED <<claimed, tasks, artifacts, report, envelope, journals, events, acked>>

Next ==
    \/ CreateRun \/ CreateTasks \/ CreateArtifacts \/ CreateEnvelope \/ CreateTrace
    \/ AcquireWriter \/ ReleaseWriter \/ LoadSnapshot \/ CommitTransition \/ SaveReport
    \/ Load \/ ReplayTasks \/ ReplayArtifacts \/ ReplayReport \/ ReplayTrace \/ ReplayEnvelope
    \/ ReplayRemove \/ Read
    \/ CommitJournal \/ CommitTrace \/ CommitTasks \/ CommitArtifacts \/ CommitReport
    \/ CommitEnvelope \/ CommitRemove \/ ReportFile \/ ReportEnvelope
    \/ Interrupt \/ TearAppend

Spec == Init /\ [][Next]_vars

-----------------------------------------------------------------------------

CreationIds == 1..CreationEvents

TypeOK ==
    /\ claimed \in BOOLEAN
    /\ {tasks, artifacts, report} \subseteq [rev : Int, content : Int]
    /\ envelope \in [rev : Int, image : Int, ids : SUBSET Nat]
    /\ trace \in Seq([id : Nat, seq : Nat, kind : {"whole", "unterminated", "torn", "merged"}])
    /\ \A j \in journals : /\ j.event \in [id : Nat, seq : Nat] /\ j.base \in Nat
                            /\ j.target = j.base + 1
    /\ session \in {"none", "loaded", "writer"}
    /\ job \in [id : Nat, seq : Nat, arts : Nat]
    /\ caller \in {"none", "reader", "commit", "report"}
    /\ acked \subseteq 1..events

\* Once recovery is through, the snapshot files and the envelope are of one
\* transition, wherever a commit, a recovery or a save_report was cut short
\* (file_store.py:112-129, :378).
SnapshotAtomic ==
    pc = "read" /\ envelope # NoEnvelope =>
        /\ SameRevision
        /\ tasks.content = envelope.image
        /\ envelope.rev = Cardinality(envelope.ids)

\* A commit that returned stays committed: the envelope names it or the journal
\* that is still there does; and at most one transition is ever in doubt, whose
\* journal starts from the committed revision or has reached it: recovery never
\* meets the mixed revisions it would reject (file_store.py:214-223, :388-400).
CommitsSurvive ==
    /\ acked \subseteq envelope.ids \cup {j.event.id : j \in journals}
    /\ \A j, k \in journals :
          /\ j = k
          /\ envelope # NoEnvelope
          /\ j.base = envelope.rev \/ (j.target = envelope.rev /\ j.event.id \in envelope.ids)

\* As long as no append stopped half-way, a recovered trace has exactly the
\* events of the committed transitions, in order, each once: none lost by an
\* interrupted commit, none doubled by its replay (file_store.py:162, :424).
TraceMatchesCommits ==
    pc = "read" /\ envelope # NoEnvelope /\ torn = 0 =>
        /\ ~Corrupt(trace) /\ Ordered(trace)
        /\ Recorded(trace) \ CreationIds = envelope.ids
        /\ Cardinality(Recorded(trace)) = Len(trace)

\* The store implements the promised one: a transition takes effect when its
\* journal is durable, a report when its file is.  Creation events belong to
\* create_run.
Exists == envelope # NoEnvelope
Pending == journals # {} /\ Due.target = envelope.rev + 1
Abstract ==
    INSTANCE ExecutionStore WITH
        Ids <- CreationEvents + 1 .. MaxEvents,
        Seqs <- 0..MaxEvents,
        NoReport <- Absent,
        exists <- Exists,
        writer <- session = "writer",
        revision <- IF ~Exists THEN 0 ELSE IF Pending THEN Due.target ELSE envelope.rev,
        committed <- IF Pending THEN envelope.ids \cup {Due.event.id} ELSE envelope.ids,
        image <- IF ~Exists THEN 0 ELSE IF Pending THEN Due.event.id ELSE envelope.image,
        artifacts <- IF ~Exists THEN 0 ELSE IF Pending THEN Due.artifacts ELSE artifacts.content,
        report <- IF ~Exists THEN Absent ELSE IF Pending THEN Due.report ELSE report.content,
        trace <- {[id |-> trace[i].id, seq |-> trace[i].seq] : i \in {k \in DOMAIN trace : trace[k].id > CreationEvents}}
                 \cup {j.event : j \in journals}

ImplementsExecutionStore == Abstract!Spec
=============================================================================
