---------------------- MODULE FileExecutionStore_proofs ----------------------
(***************************************************************************)
(* The execution store on disk, for any number of transitions, processes   *)
(* that die and appends that stop half-way: what a recovery leaves behind  *)
(* is one committed snapshot, and the files implement ExecutionStore.      *)
(*                                                                         *)
(* The invariant says, for every step of every call, which files that call *)
(* has written and which journal covers the rest.  A journal is either     *)
(* Begun (the envelope has its base, its event is not committed) or        *)
(* Reached (the envelope has its target): a death never leaves a third     *)
(* case, which is why replaying the one journal is always enough.          *)
(***************************************************************************)
EXTENDS FileExecutionStore, FiniteSetTheorems, SequenceTheorems, TLAPS

(* The steps of the calls *)

Opening == {"create_tasks", "create_artifacts", "create_envelope"}
Loading == {"load", "read"}
Replaying == {"replay_tasks", "replay_artifacts", "replay_report", "replay_trace", "replay_envelope"}
Committing == {"commit_trace", "commit_tasks", "commit_artifacts", "commit_report", "commit_envelope"}
Reporting == {"report_file", "report_envelope"}
Steps == {"idle", "create_trace", "replay_remove", "commit_journal", "commit_remove"}
         \cup Opening \cup Loading \cup Replaying \cup Committing \cup Reporting

\* The steps after which a commit, or its replay, has written each file.
TasksWritten == {"replay_artifacts", "replay_report", "replay_trace", "replay_envelope",
                 "commit_artifacts", "commit_report", "commit_envelope"}
ArtifactsWritten == {"replay_report", "replay_trace", "replay_envelope", "commit_report", "commit_envelope"}
ReportWritten == {"replay_trace", "replay_envelope", "commit_envelope"}
TraceWritten == {"replay_envelope", "commit_tasks", "commit_artifacts", "commit_report", "commit_envelope"}

(* The inductive invariant *)

\* The ids drawn for the transitions, after those of the creation events.
Transitions == CreationEvents + 1 .. events
Kinds == {"whole", "unterminated", "torn", "merged"}
Lines == [id : Nat, seq : Nat, kind : Kinds]
Events == [id : Nat, seq : Nat]
Contents == Nat \cup {Absent}
Files == {NoFile} \cup [rev : Nat, content : Nat]
Envelopes == {NoEnvelope} \cup [rev : Nat, image : Nat, ids : SUBSET Nat]
Journals == [event : Events, base : Nat, target : Nat, artifacts : Nat, report : Contents]
Jobs == [id : Nat, seq : Nat, arts : Nat]
Bases == [rev : Nat, ids : SUBSET Nat, image : Nat, artifacts : Nat, report : Contents]

Types ==
    /\ claimed \in BOOLEAN
    /\ tasks \in Files /\ artifacts \in Files /\ report \in Files /\ envelope \in Envelopes
    /\ trace \in Seq(Lines)
    /\ journals \in SUBSET Journals
    /\ pc \in Steps
    /\ caller \in {"none", "reader", "commit", "report"}
    /\ job \in Jobs
    /\ base \in Bases
    /\ session \in {"none", "loaded", "writer"}
    /\ seq \in Nat /\ events \in Nat /\ interrupts \in Nat /\ torn \in Nat
    /\ acked \in SUBSET Nat

\* No line has an id or a sequence number above n.
UpTo(lines, n) == \A i \in DOMAIN lines : lines[i].seq <= n /\ lines[i].id <= n

\* Event ids and sequence numbers never overtake the count of the ids drawn.
Numbered ==
    /\ CreationEvents <= events
    /\ seq <= events
    /\ envelope.ids \subseteq Transitions
    /\ UpTo(trace, events)
    /\ \A j \in journals : j.event.id \in Transitions /\ j.target = j.base + 1 /\ j.event.seq <= events
    /\ job = NoJob \/ /\ job.id \in Transitions /\ job.id <= MaxEvents
                      /\ job.seq <= job.id /\ job.seq <= seq /\ job.arts \in {0, job.id}

\* What create_run has written at each of its steps.
Created ==
    /\ ~claimed => pc = "idle"
    /\ ~claimed \/ pc \in Opening => envelope = NoEnvelope
    /\ pc \in {"create_artifacts", "create_envelope"} => tasks = File(0, 0)
    /\ pc = "create_envelope" => artifacts = File(0, 0)
    /\ envelope = NoEnvelope => /\ report = NoFile /\ trace = <<>> /\ journals = {}
                                /\ session = "none" /\ pc \in Opening \cup Loading \cup {"idle"}
    /\ pc = "create_trace" => /\ envelope.ids = {} /\ journals = {} /\ session = "none"
                              /\ Len(trace) <= CreationEvents
                              /\ \A i \in DOMAIN trace : trace[i] = Line(CreationEvent(i), "whole")

\* Whose calls the steps are, and when a journal may lie in the directory.
Called ==
    /\ session # "writer" => job = NoJob
    /\ pc \in Opening \cup {"replay_remove"} \cup Replaying => session = "none"
    /\ pc \in Loading \cup Replaying \cup {"replay_remove"} =>
          caller # "none" /\ (caller # "reader" => session = "writer")
    /\ pc \in Loading /\ caller = "commit" => job # NoJob
    /\ pc \in Reporting => session = "writer"
    /\ pc \in Committing \cup {"commit_journal", "commit_remove"} => session = "writer" /\ job # NoJob
    /\ session # "none" /\ pc \notin Committing \cup {"commit_remove"} => journals = {}
    /\ pc = "read" => journals = {}
    /\ pc \in Committing \cup Replaying \cup {"commit_remove", "replay_remove"} => journals # {}

\* A commit, or a save_report, works on the snapshot that is on the disk.
Based ==
    /\ pc \in {"commit_journal"} \cup Committing \cup Reporting =>
          base.rev = envelope.rev /\ base.ids = envelope.ids /\ base.image = envelope.image
    /\ pc = "commit_journal" => /\ job.id \notin envelope.ids
                                /\ base.artifacts = artifacts.content /\ base.report = report.content
    /\ session = "writer" /\ job # NoJob =>
          \/ job.id \in envelope.ids
          \/ pc \in Loading /\ caller = "commit"
          \/ pc \in {"commit_journal"} \cup Committing

\* The committed snapshot is the one a journal starts from, or the one it leads to.
Begun(j) == j.base = envelope.rev /\ j.event.id \notin envelope.ids
Reached(j) == j.target = envelope.rev /\ j.event.id \in envelope.ids

\* One journal at a time, of the transition under way, and nothing that a caller
\* was told is committed is outside the envelope and that journal.
Journaled ==
    /\ \A j, k \in journals : j = k
    /\ \A j \in journals :
          /\ Begun(j) \/ Reached(j)
          /\ pc \in Committing \cup Replaying => Begun(j)
          /\ pc \in {"commit_remove", "replay_remove"} => Reached(j)
          /\ pc \in Committing => j.event = [id |-> job.id, seq |-> job.seq]
          /\ pc = "commit_remove" => j.event.id = job.id
          /\ pc \in Committing /\ j.report = Absent => report = NoFile
    /\ acked \subseteq envelope.ids \cup {j.event.id : j \in journals}

\* The files are those of the revision the envelope names.
Settled ==
    /\ tasks = File(envelope.rev, envelope.image)
    /\ artifacts.rev = envelope.rev
    /\ report = NoFile \/ report.rev = envelope.rev

\* The report a journal leaves: the one it carries, or none.
Reports(j) == IF j.report = Absent THEN NoFile ELSE File(j.target, j.report)

\* Without a transition in doubt the files are settled; with one, they are as far
\* written as the call has come.
Written ==
    /\ envelope # NoEnvelope => /\ envelope.rev = Cardinality(envelope.ids)
                                /\ tasks # NoFile /\ artifacts # NoFile
                                /\ (\A j \in journals : Reached(j)) => Settled
    /\ \A j \in journals :
          /\ pc \in TasksWritten => tasks = File(j.target, j.event.id)
          /\ pc \in ArtifactsWritten => artifacts = File(j.target, j.artifacts)
          /\ pc \in ReportWritten => report = Reports(j)

\* The trace has the event, or only earlier ones.
Has(e) == \E i \in DOMAIN trace : trace[i].id = e.id
Above(n) == \A i \in DOMAIN trace : trace[i].seq < n

\* Every line is whole, and later than those before it.
Clean(lines) ==
    /\ \A i \in DOMAIN lines : lines[i].kind = "whole"
    /\ \A i, k \in DOMAIN lines : i < k => lines[i].seq < lines[k].seq /\ lines[i].id # lines[k].id

\* As long as no append stopped half-way: the trace has every committed event,
\* no other but that of the journal, and nothing from the writer's future.
Traced ==
    torn = 0 =>
    /\ Clean(trace)
    /\ \A i \in DOMAIN trace : \/ trace[i].id \in CreationIds \cup envelope.ids
                               \/ \E j \in journals : trace[i].id = j.event.id
    /\ \A id \in envelope.ids : \E i \in DOMAIN trace : trace[i].id = id
    /\ \A j \in journals :
          /\ \A i \in DOMAIN trace : trace[i].id = j.event.id => trace[i].seq = j.event.seq
          /\ Has(j.event) \/ Above(j.event.seq)
          /\ pc \in TraceWritten => Has(j.event)
    /\ session # "none" => Above(seq + 1)
    /\ pc \in Loading \cup {"commit_journal"} /\ job # NoJob /\ job.id \notin envelope.ids => Above(job.seq)

IInv == Types /\ Numbered /\ Created /\ Called /\ Based /\ Journaled /\ Written /\ Traced

-----------------------------------------------------------------------------
(* The operators of the module *)

\* A set of naturals that is not empty has a least element.
LEMMA LeastNatural ==
    ASSUME NEW S, S \subseteq Nat, S # {}
    PROVE  \E x \in S : \A y \in S : x <= y
<1>1. PICK x \in S : \A y \in S : ~(<<y, x>> \in OpToRel(<, Nat))
  BY NatLessThanWellFounded, WFMin
<1>2. ASSUME NEW y \in S PROVE x <= y
  <2>1. x \in Nat /\ y \in Nat
    OBVIOUS
  <2>2. ~(y < x)
    BY <1>1, <2>1 DEF OpToRel
  <2>3. QED
    BY <2>1, <2>2
<1>3. QED
  BY <1>2

\* The lines of a trace are lines.
LEMMA LineTypes ==
    ASSUME NEW lines \in Seq(Lines)
    PROVE  /\ Len(lines) \in Nat /\ DOMAIN lines = 1..Len(lines)
           /\ \A i \in DOMAIN lines : lines[i] \in Lines /\ lines[i].id \in Nat /\ lines[i].seq \in Nat
<1>1. \A i \in DOMAIN lines : lines[i] \in Lines
  BY ElementOfSeq, LenProperties
<1>2. QED
  BY <1>1, LenProperties DEF Lines

\* A trace grows by the line that is appended.
LEMMA GrownTrace ==
    ASSUME NEW lines \in Seq(Lines), NEW line \in Lines
    PROVE  /\ Append(lines, line) \in Seq(Lines)
           /\ DOMAIN Append(lines, line) = 1..Len(lines) + 1 /\ Len(Append(lines, line)) = Len(lines) + 1
           /\ DOMAIN lines = 1..Len(lines) /\ Len(lines) \in Nat
           /\ \A i \in DOMAIN lines : Append(lines, line)[i] = lines[i]
           /\ Append(lines, line)[Len(lines) + 1] = line
           /\ \A i \in DOMAIN Append(lines, line) : i \in DOMAIN lines \/ i = Len(lines) + 1
<1>1. /\ Append(lines, line) \in Seq(Lines) /\ Len(Append(lines, line)) = Len(lines) + 1
      /\ \A i \in 1..Len(lines) : Append(lines, line)[i] = lines[i]
      /\ Append(lines, line)[Len(lines) + 1] = line
  BY AppendProperties
<1>2. DOMAIN Append(lines, line) = 1..Len(lines) + 1 /\ DOMAIN lines = 1..Len(lines) /\ Len(lines) \in Nat
  BY <1>1, LenProperties
<1>3. QED
  BY <1>1, <1>2

\* _last_sequence is the greatest number among the lines that parse (0 without any).
LEMMA LastSeqIsGreatest ==
    ASSUME NEW lines \in Seq(Lines), NEW n \in Nat, UpTo(lines, n)
    PROVE  /\ LastSeq(lines) \in Nat /\ LastSeq(lines) <= n
           /\ \A i \in DOMAIN lines : Readable(lines[i]) => lines[i].seq <= LastSeq(lines)
<1> DEFINE seqs == {lines[i].seq : i \in {k \in DOMAIN lines : Readable(lines[k])}}
           T == seqs \cup {0}
           bounds == {m \in Nat : \A t \in T : t <= m}
<1>1. \A i \in DOMAIN lines : lines[i].seq \in Nat
  BY LineTypes
<1>2. T \subseteq Nat /\ \A t \in T : t <= n
  BY <1>1 DEF UpTo
<1>3. PICK m \in bounds : \A y \in bounds : m <= y
  <2>1. bounds \subseteq Nat /\ n \in bounds
    BY <1>2
  <2>2. QED
    BY <2>1, LeastNatural
<1>4. m \in T
  <2> HIDE DEF T
  <2>1. SUFFICES ASSUME m \notin T PROVE FALSE
    OBVIOUS
  <2>2. m # 0 /\ m \in Nat /\ \A t \in T : t <= m
    BY <2>1, <1>3 DEF T
  <2>3. ASSUME NEW t \in T PROVE t <= m - 1
    BY <2>1, <2>2, <1>2
  <2>4. m - 1 \in bounds
    BY <2>2, <2>3
  <2>5. QED
    BY <2>4, <1>3, <2>2
<1>5. \E s \in T : \A t \in seqs : t <= s
  BY <1>3, <1>4
<1>6. /\ LastSeq(lines) \in T
      /\ \A t \in seqs : t <= LastSeq(lines)
  BY <1>5 DEF LastSeq
<1>7. QED
  BY <1>6, <1>2

\* The journal that is due is the one there is.
LEMMA DueIsTheJournal ==
    ASSUME journals \subseteq Journals, \A j, k \in journals : j = k, journals # {}
    PROVE  /\ Due \in journals /\ Due \in Journals /\ journals = {Due}
           /\ journals \ {Due} = {}
<1>1. PICK j : j \in journals /\ j \in Journals /\ journals = {j}
  OBVIOUS
<1>2. \A k \in journals : j.target <= k.target
  BY <1>1 DEF Journals
<1>3. Due \in journals
  BY <1>1, <1>2 DEF Due
<1>4. QED
  BY <1>1, <1>3

\* An append leaves the lines there are their names and numbers, and adds at
\* most one line, which is the event's.
LEMMA AppendedLine ==
    ASSUME NEW lines \in Seq(Lines), NEW e, e.id \in Nat, e.seq \in Nat,
           NEW kind \in {"whole", "unterminated", "torn"}
    PROVE  /\ Appended(lines, e, kind) \in Seq(Lines)
           /\ \A n \in Nat : UpTo(lines, n) /\ e.id <= n /\ e.seq <= n => UpTo(Appended(lines, e, kind), n)
<1>1. Len(lines) \in Nat /\ DOMAIN lines = 1..Len(lines)
  BY LenProperties
<1>2. CASE lines = <<>> \/ Terminated(lines[Len(lines)])
  <2>1. Appended(lines, e, kind) = Append(lines, Line(e, kind))
    BY <1>2 DEF Appended
  <2>2. Line(e, kind) \in Lines
    BY DEF Line, Lines, Kinds
  <2>3. /\ Append(lines, Line(e, kind)) \in Seq(Lines)
        /\ Len(Append(lines, Line(e, kind))) = Len(lines) + 1
        /\ \A i \in 1..Len(lines) : Append(lines, Line(e, kind))[i] = lines[i]
        /\ Append(lines, Line(e, kind))[Len(lines) + 1] = Line(e, kind)
    BY <2>2, AppendProperties
  <2>4. DOMAIN Append(lines, Line(e, kind)) = 1..Len(lines) + 1
    BY <2>3, LenProperties
  <2>5. Line(e, kind).id = e.id /\ Line(e, kind).seq = e.seq
    BY DEF Line
  <2>6. QED
    BY <2>1, <2>3, <2>4, <2>5, <1>1 DEF UpTo
<1>3. CASE ~(lines = <<>> \/ Terminated(lines[Len(lines)]))
  <2> DEFINE k == Len(lines)
             line == [lines[k] EXCEPT !.kind = IF kind = "whole" THEN "merged" ELSE "torn"]
  <2>1. k \in 1..Len(lines)
    BY <1>1, <1>3, EmptySeq
  <2>2. lines[k] \in Lines
    BY <2>1, ElementOfSeq
  <2>3. line \in Lines /\ line.id = lines[k].id /\ line.seq = lines[k].seq
    <3> DEFINE new == IF kind = "whole" THEN "merged" ELSE "torn"
    <3>1. new \in Kinds
      BY DEF Kinds
    <3> HIDE DEF new
    <3>2. PICK l \in Lines : l = lines[k]
      BY <2>2
    <3>3. [l EXCEPT !.kind = new] \in Lines /\ [l EXCEPT !.kind = new].id = l.id /\ [l EXCEPT !.kind = new].seq = l.seq
      BY <3>1 DEF Lines
    <3>4. line = [l EXCEPT !.kind = new]
      BY <3>2 DEF new
    <3>5. QED
      BY <3>2, <3>3, <3>4
  <2>4. Appended(lines, e, kind) = [lines EXCEPT ![k] = line]
    BY <1>3 DEF Appended
  <2> HIDE DEF line, k
  <2>5. /\ [lines EXCEPT ![k] = line] \in Seq(Lines)
        /\ Len([lines EXCEPT ![k] = line]) = Len(lines)
        /\ \A i \in 1..Len(lines) : [lines EXCEPT ![k] = line][i] = IF i = k THEN line ELSE lines[i]
    BY <2>1, <2>3, ExceptSeq
  <2>6. DOMAIN [lines EXCEPT ![k] = line] = 1..Len(lines)
    BY <2>5, LenProperties
  <2>7. QED
    BY <2>1, <2>3, <2>4, <2>5, <2>6, <1>1 DEF UpTo
<1>4. QED
  BY <1>2, <1>3

\* A trace no append of which was cut short parses, and takes a later event.
LEMMA CleanTrace ==
    ASSUME NEW lines \in Seq(Lines), Clean(lines)
    PROVE  /\ ~Corrupt(lines) /\ Ordered(lines)
           /\ Recorded(lines) = {lines[i].id : i \in DOMAIN lines}
<1>1. \A i \in DOMAIN lines : Readable(lines[i])
  BY DEF Readable, Clean
<1>2. DOMAIN lines = 1..Len(lines) /\ Len(lines) \in Nat
  BY LenProperties
<1>3. QED
  BY <1>1, <1>2 DEF Corrupt, Recorded, Ordered, Clean

\* Appending to it an event it does not have, later than the others, leaves it so.
LEMMA CleanAppended ==
    ASSUME NEW lines \in Seq(Lines), Clean(lines), NEW e, e.id \in Nat, e.seq \in Nat,
           \A i \in DOMAIN lines : lines[i].seq < e.seq /\ lines[i].id # e.id
    PROVE  LET new == Appended(lines, e, "whole")
           IN  /\ new = Append(lines, Line(e, "whole"))
               /\ Clean(new)
               /\ \A i \in DOMAIN lines : i \in DOMAIN new /\ new[i] = lines[i]
               /\ \A i \in DOMAIN new : i \in DOMAIN lines \/ (new[i].id = e.id /\ new[i].seq = e.seq)
               /\ \E i \in DOMAIN new : new[i].id = e.id
<1> DEFINE line == Line(e, "whole")
           new == Append(lines, line)
<1>1. line \in Lines /\ line.id = e.id /\ line.seq = e.seq /\ line.kind = "whole"
  BY DEF Line, Lines, Kinds
<1>2. DOMAIN lines = 1..Len(lines) /\ Len(lines) \in Nat
  BY LenProperties
<1>3. Appended(lines, e, "whole") = new
  <2>1. lines # <<>> => Len(lines) \in DOMAIN lines
    BY <1>2, EmptySeq
  <2>2. QED
    BY <2>1 DEF Appended, Terminated, Clean
<1> HIDE DEF line
<1>4. /\ DOMAIN new = 1..Len(lines) + 1
      /\ \A i \in DOMAIN lines : new[i] = lines[i]
      /\ new[Len(lines) + 1] = line
      /\ \A i \in DOMAIN new : i \in DOMAIN lines \/ i = Len(lines) + 1
  BY <1>1, GrownTrace
<1> HIDE DEF new
<1>5. Clean(new)
  BY <1>1, <1>2, <1>4 DEF Clean
<1>6. /\ \A i \in DOMAIN lines : i \in DOMAIN new /\ new[i] = lines[i]
      /\ \A i \in DOMAIN new : i \in DOMAIN lines \/ (new[i].id = e.id /\ new[i].seq = e.seq)
  BY <1>1, <1>2, <1>4
<1>9. \E i \in DOMAIN new : new[i].id = e.id
  <2>1. Len(lines) + 1 \in DOMAIN new
    BY <1>2, <1>4
  <2>2. QED
    BY <1>1, <1>4, <2>1
<1>7. new = Append(lines, Line(e, "whole"))
  BY DEF new, line
<1>8. QED
  BY <1>3, <1>5, <1>6, <1>7, <1>9

\* Where there is a journal to finish, it is the one that is due.
LEMMA DueFacts ==
    ASSUME IInv
    PROVE  /\ journals # {} => Due \in journals /\ Due \in Journals /\ journals = {Due}
                               /\ journals \ {Due} = {}
           /\ pc \in Committing \cup Replaying \cup {"commit_remove", "replay_remove"} => journals # {}
BY DueIsTheJournal DEF IInv, Types, Journaled, Called

\* One more transition makes one more id.
LEMMA PlusOne ==
    ASSUME NEW S, IsFiniteSet(S), NEW x, x \notin S
    PROVE  Cardinality(S \cup {x}) = Cardinality(S) + 1
BY FS_AddElement

\* What is read out of the files, and what is written to them, has its type.
LEMMA Shapes ==
    /\ \A n, m \in Nat : File(n, m) \in Files /\ File(n, m).rev = n /\ File(n, m).content = m
                         /\ File(n, m) # NoFile
    /\ NoFile \in Files /\ NoFile.content = Absent
    /\ \A f \in Files : f.content \in Contents /\ (f # NoFile => f.content \in Nat /\ f.rev \in Nat)
    /\ \A n, m \in Nat, ids \in SUBSET Nat :
          LET e == Envelope(n, m, ids)
          IN e \in Envelopes /\ e.rev = n /\ e.image = m /\ e.ids = ids /\ e # NoEnvelope
    /\ \A e \in Envelopes : /\ e.ids \in SUBSET Nat
                            /\ e # NoEnvelope => e.rev \in Nat /\ e.image \in Nat
    /\ \A j \in Journals : /\ j.event \in Events /\ j.event.id \in Nat /\ j.event.seq \in Nat /\ j.base \in Nat
                           /\ j.target \in Nat /\ j.artifacts \in Nat /\ j.report \in Contents
                           /\ j.report # Absent => j.report \in Nat
    /\ \A j \in Jobs : j.id \in Nat /\ j.seq \in Nat /\ j.arts \in Nat
    /\ NoJob \in Jobs /\ NoBase \in Bases
    /\ \A b \in Bases : /\ b.rev \in Nat /\ b.ids \in SUBSET Nat /\ b.image \in Nat
                        /\ b.artifacts \in Nat /\ b.report \in Contents
BY DEF File, Files, NoFile, Contents, Envelope, Envelopes, NoEnvelope, Journals, Jobs, NoJob, NoBase,
       Bases, Events, Absent

\* Every step keeps the types.
LEMMA TypesStep ==
    ASSUME IInv, [Next]_vars
    PROVE  Types'
<1> USE DEF Goto, Continue, Raise, Call, disk, memory, counters,
           Replaying, Committing
<1>t. Types
  BY DEF IInv
<1>n. UpTo(trace, events)
  BY DEF IInv, Numbered
<1>d. /\ journals # {} => /\ Due \in journals /\ Due \in Journals /\ journals = {Due}
      /\ pc \in {"commit_trace", "commit_tasks", "commit_artifacts", "commit_report", "commit_envelope",
                 "replay_tasks", "replay_artifacts", "replay_report", "replay_trace", "replay_envelope",
                 "commit_remove", "replay_remove"} => journals # {}
  BY DueFacts
<1>r. /\ CreationEvents \in Nat /\ File(0, 0) \in Files /\ NoFile \in Files
      /\ Envelope(0, 0, {}) \in Envelopes /\ NoJob \in Jobs
  BY BoundsAssumption, Shapes
<1>x. Due \in Journals =>
         /\ File(Due.target, Due.event.id) \in Files /\ File(Due.target, Due.artifacts) \in Files
         /\ Due.report # Absent => File(Due.target, Due.report) \in Files
         /\ Due.target \in Nat /\ Due.event.id \in Nat /\ Due.event.seq \in Nat
  BY Shapes
<1>y. /\ job.id \in Nat /\ job.seq \in Nat /\ job.arts \in Nat
      /\ base.rev \in Nat /\ base.image \in Nat /\ base.artifacts \in Nat
      /\ base.ids \in SUBSET Nat /\ base.report \in Contents
      /\ File(base.rev, base.image) \in Files
      /\ Envelope(base.rev, base.image, base.ids) \in Envelopes
  BY <1>t, Shapes DEF Types
<1>z. \A e \in Appending : e.id \in Nat /\ e.seq \in Nat
  <2>1. Len(trace) + 1 \in Nat
    BY <1>t, LenProperties DEF Types
  <2>2. QED
    BY <2>1, <1>d, <1>x, <1>y DEF Appending, CreationEvent
<1>1. CASE CreateRun
  BY <1>1, <1>t DEF CreateRun, Types, Steps, Opening, Loading, Reporting
<1>2. CASE CreateTasks
  BY <1>2, <1>t, <1>r DEF CreateTasks, Types, Steps, Opening
<1>3. CASE CreateArtifacts
  BY <1>3, <1>t, <1>r DEF CreateArtifacts, Types, Steps, Opening
<1>4. CASE CreateEnvelope
  BY <1>4, <1>t, <1>r DEF CreateEnvelope, Types, Steps
<1>5. CASE CreateTrace
  <2>1. CASE Len(trace) < CreationEvents
    <3>1. Len(trace) \in Nat
      BY <1>t, LenProperties DEF Types
    <3>2. Line(CreationEvent(Len(trace) + 1), "whole") \in Lines
      BY <3>1 DEF Line, CreationEvent, Lines, Kinds
    <3>3. trace' \in Seq(Lines)
      BY <1>5, <1>t, <2>1, <3>2, AppendProperties DEF CreateTrace, Types
    <3>4. QED
      BY <1>5, <1>t, <2>1, <3>3 DEF CreateTrace, Types
  <2>2. CASE ~(Len(trace) < CreationEvents)
    BY <1>5, <1>t, <1>r, <2>2 DEF CreateTrace, Types, Steps
  <2>3. QED
    BY <2>1, <2>2
<1>6. CASE AcquireWriter
  BY <1>6, <1>t DEF AcquireWriter, Types, Steps, Opening, Loading, Reporting
<1>7. CASE ReleaseWriter
  BY <1>7, <1>t, <1>r DEF ReleaseWriter, Types, Steps
<1>8. CASE LoadSnapshot
  BY <1>8, <1>t DEF LoadSnapshot, Types, Steps, Opening, Loading, Reporting
<1>9. CASE CommitTransition
  BY <1>9, <1>t DEF CommitTransition, Types, Steps, Loading, Jobs
<1>10. CASE SaveReport
  BY <1>10, <1>t DEF SaveReport, Types, Steps, Opening, Loading, Reporting
<1>11. CASE Load
  BY <1>11, <1>t, <1>r DEF Load, Types, Steps, Loading
<1>12. CASE ReplayTasks
  BY <1>12, <1>t, <1>d, <1>x DEF ReplayTasks, Types, Steps
<1>13. CASE ReplayArtifacts
  BY <1>13, <1>t, <1>d, <1>x DEF ReplayArtifacts, Types, Steps
<1>14. CASE ReplayReport
  <2>1. report' \in Files
    BY <1>14, <1>d, <1>x, <1>r DEF ReplayReport
  <2>2. QED
    BY <1>14, <1>t, <2>1 DEF ReplayReport, Types, Steps
<1>15. CASE ReplayTrace
  <2>1. Appended(trace, Due.event, "whole") \in Seq(Lines)
    BY <1>15, <1>t, <1>d, <1>x, AppendedLine DEF ReplayTrace, Types
  <2>2. trace' \in Seq(Lines)
    BY <1>15, <1>t, <2>1 DEF ReplayTrace, Types
  <2>3. QED
    BY <1>15, <1>t, <1>r, <2>2 DEF ReplayTrace, Types, Steps
<1>16. CASE ReplayEnvelope
  <2>1. envelope.ids \cup {Due.event.id} \in SUBSET Nat /\ Due.target \in Nat /\ Due.event.id \in Nat
    BY <1>16, <1>t, <1>d, <1>x, Shapes DEF ReplayEnvelope, Types
  <2>3. envelope' \in Envelopes
    BY <1>16, <2>1, Shapes DEF ReplayEnvelope
  <2>2. QED
    BY <1>16, <1>t, <2>3 DEF ReplayEnvelope, Types, Steps
<1>17. CASE ReplayRemove
  BY <1>17, <1>d, <1>t DEF ReplayRemove, Types, Steps, Opening, Loading, Reporting
<1>18. CASE Read
  <2>1. CASE Loadable
    <3>0. /\ envelope.rev \in Nat /\ envelope.ids \in SUBSET Nat /\ envelope.image \in Nat
          /\ report.content \in Contents
          /\ (IF artifacts = NoFile THEN 0 ELSE artifacts.content) \in Nat
      BY <1>t, <2>1, Shapes DEF Types, Loadable
    <3>1. base' \in Bases
      BY <1>18, <2>1, <3>0 DEF Read, Bases
    <3>2. LastSeq(trace) \in Nat
      BY <1>t, <1>n, LastSeqIsGreatest DEF Types
    <3>3. seq' \in Nat /\ acked' \in SUBSET Nat /\ session' \in {"none", "loaded", "writer"}
          /\ pc' \in {"idle", "commit_journal", "report_file"}
      BY <1>18, <1>t, <1>y, <2>1, <3>2 DEF Read, Types
    <3>4. QED
      BY <1>18, <1>t, <2>1, <3>1, <3>3 DEF Read, Types, Steps, Reporting
  <2>2. CASE ~Loadable
    BY <1>18, <1>t, <1>r, <2>2 DEF Read, Types, Steps
  <2>3. QED
    BY <2>1, <2>2
<1>19. CASE CommitJournal
  <2>1. \A arts \in Nat : JournalRecord(base.rev + 1, arts) \in Journals
    BY <1>y DEF JournalRecord, Journals, Events
  <2>2. (IF job.arts = 0 THEN base.artifacts ELSE job.arts) \in Nat
    BY <1>y
  <2>3. journals' \in SUBSET Journals
    BY <1>19, <1>t, <2>1, <2>2 DEF CommitJournal, Types
  <2>4. QED
    BY <1>19, <1>t, <2>3 DEF CommitJournal, Types, Steps
<1>20. CASE CommitTrace
  <2>1. Appended(trace, job, "whole") \in Seq(Lines)
    BY <1>t, <1>y, AppendedLine DEF Types
  <2>2. trace' \in Seq(Lines)
    BY <1>20, <1>t, <2>1 DEF CommitTrace, Types
  <2>3. QED
    BY <1>20, <1>t, <1>r, <2>2 DEF CommitTrace, Types, Steps
<1>21. CASE CommitTasks
  <2>1. tasks' \in Files
    BY <1>21, <1>d, <1>x, <1>y, Shapes DEF CommitTasks
  <2>2. QED
    BY <1>21, <1>t, <2>1 DEF CommitTasks, Types, Steps
<1>22. CASE CommitArtifacts
  BY <1>22, <1>t, <1>d, <1>x DEF CommitArtifacts, Types, Steps
<1>23. CASE CommitReport
  <2>1. report' \in Files
    BY <1>23, <1>t, <1>d, <1>x DEF CommitReport, Types
  <2>2. QED
    BY <1>23, <1>t, <2>1 DEF CommitReport, Types, Steps
<1>24. CASE CommitEnvelope
  <2>1. base.ids \cup {job.id} \in SUBSET Nat /\ Due.target \in Nat /\ job.id \in Nat
    BY <1>24, <1>d, <1>x, <1>y DEF CommitEnvelope
  <2>3. envelope' \in Envelopes
    BY <1>24, <2>1, Shapes DEF CommitEnvelope
  <2>2. QED
    BY <1>24, <1>t, <2>3 DEF CommitEnvelope, Types, Steps
<1>25. CASE CommitRemove
  BY <1>25, <1>t, <1>y DEF CommitRemove, Types, Steps
<1>26. CASE ReportFile
  BY <1>26, <1>t, <1>y DEF ReportFile, Types, Steps, Reporting
<1>27. CASE ReportEnvelope
  BY <1>27, <1>t, <1>y DEF ReportEnvelope, Types, Steps
<1>28. CASE Interrupt
  BY <1>28, <1>t, <1>r DEF Interrupt, Types, Steps
<1>29. CASE TearAppend
  <2>1. PICK e \in Appending, kind \in {"torn", "unterminated"} : trace' = Appended(trace, e, kind)
    BY <1>29 DEF TearAppend
  <2>2. e.id \in Nat /\ e.seq \in Nat
    BY <1>z
  <2>3. trace' \in Seq(Lines)
    BY <1>t, <2>1, <2>2, AppendedLine DEF Types
  <2>4. QED
    BY <1>29, <1>t, <1>r, <2>3 DEF TearAppend, Types, Steps
<1>30. CASE UNCHANGED vars
  BY <1>30, <1>t DEF vars, Types, Steps, Opening, Loading, Reporting
<1>31. QED
  BY <1>1, <1>2, <1>3, <1>4, <1>5, <1>6, <1>7, <1>8, <1>9, <1>10, <1>11, <1>12, <1>13, <1>14, <1>15, <1>16,
     <1>17, <1>18, <1>19, <1>20, <1>21, <1>22, <1>23, <1>24, <1>25, <1>26, <1>27, <1>28, <1>29, <1>30 DEF Next

\* Every step keeps the numbers below the count of the ids drawn.
LEMMA NumberedStep ==
    ASSUME IInv, [Next]_vars
    PROVE  Numbered'
<1> USE DEF Goto, Continue, Raise, Call, disk, memory, counters
<1>n. Numbered /\ Types
  BY DEF IInv
<1>d. /\ journals # {} => /\ Due \in journals /\ Due \in Journals /\ journals = {Due}
      /\ pc \in {"commit_trace", "commit_tasks", "commit_artifacts", "commit_report", "commit_envelope",
                 "replay_tasks", "replay_artifacts", "replay_report", "replay_trace", "replay_envelope",
                 "commit_remove", "replay_remove"} => journals # {}
  BY DueFacts DEF Committing, Replaying
<1>j. /\ journals # {} => Due.event.id \in Transitions /\ Due.event.seq <= events /\ Due.event.seq \in Nat
      /\ job # NoJob => job.id \in Transitions
      /\ job.seq <= events /\ job.id <= events /\ job.id \in Nat /\ job.seq \in Nat /\ events \in Nat /\ seq \in Nat
      /\ CreationEvents \in Nat
  BY <1>n, <1>d, Shapes, BoundsAssumption DEF Numbered, Types, NoJob, Transitions
<1>e. ASSUME UNCHANGED <<events, seq, envelope, trace, journals>>, job' = job \/ job' = NoJob
      PROVE  Numbered'
  BY <1>n, <1>e DEF Numbered, Transitions, NoJob
<1>l. ASSUME NEW e, e.id \in Nat /\ e.seq \in Nat, e.id <= events /\ e.seq <= events,
             NEW kind \in {"whole", "unterminated", "torn"},
             trace' \in {trace, Appended(trace, e, kind)},
             UNCHANGED <<events, seq, envelope, journals>>, job' = job \/ job' = NoJob
      PROVE  Numbered'
  <2>1. UpTo(trace', events)
    BY <1>n, <1>l, AppendedLine DEF Numbered, Types
  <2>2. QED
    BY <1>n, <1>l, <2>1 DEF Numbered, Transitions, NoJob
<1>1. CASE CreateRun
  BY <1>1, <1>n, <1>e DEF CreateRun
<1>2. CASE CreateTasks
  BY <1>2, <1>n, <1>e DEF CreateTasks
<1>3. CASE CreateArtifacts
  BY <1>3, <1>n, <1>e DEF CreateArtifacts
<1>4. CASE CreateEnvelope
  BY <1>4, <1>n, Shapes DEF CreateEnvelope, Numbered, Transitions
<1>5. CASE CreateTrace
  <2>1. CASE Len(trace) < CreationEvents
    <3>1. Len(trace) + 1 \in Nat /\ Len(trace) + 1 <= events
      BY <1>n, <1>j, <2>1, LenProperties DEF Types, Numbered
    <3> DEFINE e == CreationEvent(Len(trace) + 1)
    <3>2. e.id \in Nat /\ e.seq \in Nat /\ e.id <= events /\ e.seq <= events
      BY <3>1 DEF CreationEvent
    <3>3. Line(e, "whole") \in Lines /\ Line(e, "whole").id = e.id /\ Line(e, "whole").seq = e.seq
      BY <3>2 DEF Line, Lines, Kinds
    <3> HIDE DEF e
    <3>4. trace' = Append(trace, Line(e, "whole"))
      BY <1>5, <2>1 DEF CreateTrace, e
    <3>5. UpTo(trace', events)
      <4>1. \A i \in DOMAIN trace' : (i \in DOMAIN trace /\ trace'[i] = trace[i]) \/ trace'[i] = Line(e, "whole")
        BY <1>n, <3>3, <3>4, GrownTrace DEF Types
      <4>2. QED
        BY <1>n, <3>2, <3>3, <4>1 DEF Numbered, UpTo
    <3>6. QED
      BY <1>5, <1>n, <2>1, <3>5 DEF CreateTrace, Numbered, Transitions
  <2>2. CASE ~(Len(trace) < CreationEvents)
    <3>1. job = NoJob
      BY <1>5 DEF IInv, Created, Called, CreateTrace
    <3>2. QED
      BY <1>5, <1>n, <2>2, <3>1 DEF CreateTrace, Numbered, Transitions
  <2>3. QED
    BY <2>1, <2>2
<1>6. CASE AcquireWriter
  BY <1>6, <1>n, <1>e DEF AcquireWriter
<1>7. CASE ReleaseWriter
  BY <1>7, <1>e DEF ReleaseWriter
<1>8. CASE LoadSnapshot
  BY <1>8, <1>n, <1>e DEF LoadSnapshot
<1>9. CASE CommitTransition
  <2>1. CASE UNCHANGED <<job, events, seq>>
    BY <1>9, <2>1, <1>e DEF CommitTransition
  <2>2. CASE ~UNCHANGED <<job, events, seq>>
    <3>1. /\ events < MaxEvents /\ events' = events + 1 /\ seq' = seq + 1
          /\ job'.id = events + 1 /\ job'.seq = seq + 1 /\ job'.arts \in {0, job'.id}
          /\ UNCHANGED disk
      BY <1>9, <2>2 DEF CommitTransition
    <3>2. MaxEvents \in Nat
      BY BoundsAssumption
    <3>3. Transitions \subseteq Transitions' /\ events + 1 \in Transitions'
      BY <3>1, <1>j, <1>n DEF Transitions, Numbered
    <3>4. UpTo(trace', events')
      <4>1. ASSUME NEW i \in DOMAIN trace PROVE trace[i].seq \in Nat /\ trace[i].id \in Nat
        BY <1>n, LineTypes DEF Types
      <4>2. QED
        BY <1>n, <1>j, <3>1, <4>1 DEF Numbered, UpTo
    <3>5. \A j \in journals' : j.event.id \in Transitions' /\ j.target = j.base + 1 /\ j.event.seq <= events'
      <4>1. \A j \in journals : j.event.seq \in Nat
        BY <1>n, Shapes DEF Types
      <4>2. QED
        BY <1>n, <1>j, <3>1, <3>3, <4>1 DEF Numbered
    <3>6. QED
      BY <1>n, <1>j, <3>1, <3>2, <3>3, <3>4, <3>5 DEF Numbered
  <2>3. QED
    BY <2>1, <2>2
<1>10. CASE SaveReport
  BY <1>10, <1>n, <1>e DEF SaveReport
<1>11. CASE Load
  BY <1>11, <1>e DEF Load
<1>12. CASE ReplayTasks
  BY <1>12, <1>n, <1>e DEF ReplayTasks
<1>13. CASE ReplayArtifacts
  BY <1>13, <1>n, <1>e DEF ReplayArtifacts
<1>14. CASE ReplayReport
  BY <1>14, <1>n, <1>e DEF ReplayReport
<1>15. CASE ReplayTrace
  <2>1. Due.event.id \in Nat /\ Due.event.seq \in Nat /\ Due.event.id <= events /\ Due.event.seq <= events
    BY <1>15, <1>d, <1>j DEF ReplayTrace, Transitions
  <2>2. trace' \in {trace, Appended(trace, Due.event, "whole")}
        /\ UNCHANGED <<events, seq, envelope, journals>> /\ (job' = job \/ job' = NoJob)
    BY <1>15 DEF ReplayTrace
  <2>3. QED
    BY <1>l, <2>1, <2>2
<1>16. CASE ReplayEnvelope
  <2>1. envelope'.ids = envelope.ids \cup {Due.event.id}
    BY <1>16 DEF ReplayEnvelope, Envelope
  <2>2. envelope'.ids \subseteq Transitions
    BY <1>16, <1>n, <1>d, <1>j, <2>1 DEF ReplayEnvelope, Numbered
  <2>3. QED
    BY <1>16, <1>n, <2>2 DEF ReplayEnvelope, Numbered, Transitions
<1>17. CASE ReplayRemove
  BY <1>17, <1>n, <1>d DEF ReplayRemove, Numbered, Transitions
<1>18. CASE Read
  <2>1. CASE caller = "reader" /\ session # "writer" /\ Loadable
    <3>1. LastSeq(trace) \in Nat /\ LastSeq(trace) <= events
      BY <1>n, <1>j, LastSeqIsGreatest DEF Numbered, Types
    <3>2. job = NoJob
      BY <2>1 DEF IInv, Called
    <3>3. QED
      BY <1>18, <1>n, <2>1, <3>1, <3>2 DEF Read, Numbered, Transitions
  <2>2. CASE ~(caller = "reader" /\ session # "writer" /\ Loadable)
    BY <1>18, <2>2, <1>e DEF Read
  <2>3. QED
    BY <2>1, <2>2
<1>19. CASE CommitJournal
  <2>1. \A arts : LET j == JournalRecord(base.rev + 1, arts)
                IN j.event.id = job.id /\ j.event.seq = job.seq /\ j.base = base.rev /\ j.target = base.rev + 1
    BY DEF JournalRecord
  <2>2. job # NoJob
    BY <1>19 DEF IInv, Called, CommitJournal
  <2>3. QED
    BY <1>19, <1>n, <1>j, <2>1, <2>2 DEF CommitJournal, Numbered, Transitions
<1>20. CASE CommitTrace
  BY <1>20, <1>j, <1>l, Zenon DEF CommitTrace
<1>21. CASE CommitTasks
  BY <1>21, <1>n, <1>e DEF CommitTasks
<1>22. CASE CommitArtifacts
  BY <1>22, <1>n, <1>e DEF CommitArtifacts
<1>23. CASE CommitReport
  BY <1>23, <1>n, <1>e DEF CommitReport
<1>24. CASE CommitEnvelope
  <2>1. base.ids \subseteq Transitions /\ job # NoJob
    BY <1>24, <1>n DEF IInv, Based, Called, Committing, CommitEnvelope, Numbered
  <2>2. envelope'.ids \subseteq Transitions
    BY <1>24, <1>j, <2>1 DEF CommitEnvelope, Envelope
  <2>3. QED
    BY <1>24, <1>n, <2>2 DEF CommitEnvelope, Numbered, Transitions
<1>25. CASE CommitRemove
  BY <1>25, <1>n, <1>d DEF CommitRemove, Numbered, Transitions
<1>26. CASE ReportFile
  BY <1>26, <1>n, <1>e DEF ReportFile
<1>27. CASE ReportEnvelope
  <2>1. base.ids \subseteq Transitions
    BY <1>27, <1>n DEF IInv, Based, Reporting, ReportEnvelope, Numbered
  <2>2. envelope'.ids \subseteq Transitions
    BY <1>27, <2>1 DEF ReportEnvelope, Envelope
  <2>3. QED
    BY <1>27, <1>n, <2>2 DEF ReportEnvelope, Numbered, Transitions
<1>28. CASE Interrupt
  BY <1>28, <1>e DEF Interrupt
<1>29. CASE TearAppend
  <2>1. PICK e \in Appending, kind \in {"torn", "unterminated"} : trace' = Appended(trace, e, kind)
    BY <1>29 DEF TearAppend
  <2>2. e.id \in Nat /\ e.seq \in Nat /\ e.id <= events /\ e.seq <= events
    <3>1. Len(trace) < CreationEvents => Len(trace) + 1 \in Nat /\ Len(trace) + 1 <= events
      BY <1>n, <1>j, LenProperties DEF Types, Numbered
    <3>2. QED
      BY <1>j, <1>d, <2>1, <3>1 DEF Appending, CreationEvent, Transitions
  <2>3. QED
    BY <1>29, <1>l, <2>1, <2>2, Zenon DEF TearAppend
<1>30. CASE UNCHANGED vars
  BY <1>30, <1>n DEF vars, Numbered, Transitions
<1>31. QED
  BY <1>1, <1>2, <1>3, <1>4, <1>5, <1>6, <1>7, <1>8, <1>9, <1>10, <1>11, <1>12, <1>13, <1>14, <1>15, <1>16,
     <1>17, <1>18, <1>19, <1>20, <1>21, <1>22, <1>23, <1>24, <1>25, <1>26, <1>27, <1>28, <1>29, <1>30 DEF Next

\* Every step keeps what create_run has written so far.
LEMMA CreatedStep ==
    ASSUME IInv, [Next]_vars
    PROVE  Created'
<1> USE DEF Goto, Continue, Raise, Call, disk, memory, counters,
           Opening, Loading, Replaying
<1>c. Created
  BY DEF IInv
<1>k. /\ envelope = NoEnvelope => pc \in Opening \cup Loading \cup {"idle"} /\ session = "none" /\ journals = {}
                                  /\ report = NoFile /\ trace = <<>>
      /\ pc \in Opening \cup Replaying \cup {"replay_remove"} => session = "none"
      /\ ~claimed => pc = "idle"
  BY DEF IInv, Created, Called
<1>d. /\ journals # {} => Due \in journals /\ Due.target \in Nat /\ Due.event.id \in Nat
      /\ pc \in {"replay_envelope", "commit_envelope"} => journals # {}
  BY DueFacts, Shapes DEF Committing
<1>s. \A n, m : n \in Nat /\ m \in Nat => \A ids : Envelope(n, m, ids) # NoEnvelope
  BY DEF Envelope, NoEnvelope, Absent
<1>b. base.rev \in Nat /\ base.image \in Nat /\ job.id \in Nat
  BY Shapes DEF IInv, Types
<1>1. CASE CreateRun
  BY <1>1, <1>c, <1>k DEF CreateRun, Created
<1>2. CASE CreateTasks
  BY <1>2, <1>c, <1>k DEF CreateTasks, Created
<1>3. CASE CreateArtifacts
  BY <1>3, <1>c, <1>k DEF CreateArtifacts, Created
<1>4. CASE CreateEnvelope
  <2>1. envelope' # NoEnvelope /\ envelope'.ids = {}
    BY <1>4 DEF CreateEnvelope, Envelope, NoEnvelope, Absent
  <2>2. Len(trace) <= CreationEvents /\ \A i \in DOMAIN trace : FALSE
    BY <1>4, <1>c, BoundsAssumption, EmptySeq DEF Created, CreateEnvelope
  <2>3. QED
    BY <1>4, <1>c, <1>k, <2>1, <2>2 DEF CreateEnvelope, Created
<1>5. CASE CreateTrace
  <2>1. CASE Len(trace) < CreationEvents
    <3>1. trace \in Seq(Lines) /\ Len(trace) \in Nat /\ CreationEvents \in Nat
      BY LenProperties, BoundsAssumption DEF IInv, Types
    <3> DEFINE line == Line(CreationEvent(Len(trace) + 1), "whole")
    <3>2. line \in Lines
      BY <3>1 DEF Line, CreationEvent, Lines, Kinds
    <3>3. trace' = Append(trace, line)
      BY <1>5, <2>1 DEF CreateTrace
    <3>4. /\ Len(trace') = Len(trace) + 1 /\ Len(trace') <= CreationEvents
          /\ \A i \in DOMAIN trace' : \/ i \in DOMAIN trace /\ trace'[i] = trace[i]
                                      \/ i = Len(trace) + 1 /\ trace'[i] = line
      <4> HIDE DEF line
      <4>1. QED
        BY <2>1, <3>1, <3>2, <3>3, GrownTrace
    <3>5. \A i \in DOMAIN trace' : trace'[i] = Line(CreationEvent(i), "whole")
      BY <1>5, <1>c, <3>4 DEF Created, CreateTrace
    <3>6. QED
      BY <1>5, <1>c, <1>k, <2>1, <3>4, <3>5 DEF CreateTrace, Created
  <2>2. CASE ~(Len(trace) < CreationEvents)
    BY <1>5, <1>c, <1>k, <2>2 DEF CreateTrace, Created
  <2>3. QED
    BY <2>1, <2>2
<1>6. CASE AcquireWriter
  BY <1>6, <1>c, <1>k DEF AcquireWriter, Created
<1>7. CASE ReleaseWriter
  BY <1>7, <1>c, <1>k DEF ReleaseWriter, Created
<1>8. CASE LoadSnapshot
  BY <1>8, <1>c, <1>k DEF LoadSnapshot, Created
<1>9. CASE CommitTransition
  BY <1>9, <1>c, <1>k DEF CommitTransition, Created
<1>10. CASE SaveReport
  BY <1>10, <1>c, <1>k DEF SaveReport, Created
<1>11. CASE Load
  BY <1>11, <1>c, <1>k DEF Load, Created
<1>12. CASE ReplayTasks
  BY <1>12, <1>c, <1>k DEF ReplayTasks, Created
<1>13. CASE ReplayArtifacts
  BY <1>13, <1>c, <1>k DEF ReplayArtifacts, Created
<1>14. CASE ReplayReport
  BY <1>14, <1>c, <1>k DEF ReplayReport, Created
<1>15. CASE ReplayTrace
  BY <1>15, <1>c, <1>k DEF ReplayTrace, Created
<1>16. CASE ReplayEnvelope
  <2>1. envelope' # NoEnvelope /\ claimed
    BY <1>16, <1>d, <1>k, <1>s DEF ReplayEnvelope
  <2>2. QED
    BY <1>16, <1>c, <1>k, <2>1 DEF ReplayEnvelope, Created
<1>17. CASE ReplayRemove
  BY <1>17, <1>c, <1>k DEF ReplayRemove, Created
<1>18. CASE Read
  BY <1>18, <1>c, <1>k DEF Read, Created, Loadable
<1>19. CASE CommitJournal
  BY <1>19, <1>c, <1>k DEF CommitJournal, Created
<1>20. CASE CommitTrace
  BY <1>20, <1>c, <1>k DEF CommitTrace, Created
<1>21. CASE CommitTasks
  BY <1>21, <1>c, <1>k DEF CommitTasks, Created
<1>22. CASE CommitArtifacts
  BY <1>22, <1>c, <1>k DEF CommitArtifacts, Created
<1>23. CASE CommitReport
  BY <1>23, <1>c, <1>k DEF CommitReport, Created
<1>24. CASE CommitEnvelope
  <2>1. envelope' # NoEnvelope /\ claimed
    BY <1>24, <1>b, <1>d, <1>k, <1>s DEF CommitEnvelope
  <2>2. QED
    BY <1>24, <1>c, <1>k, <2>1 DEF CommitEnvelope, Created
<1>25. CASE CommitRemove
  BY <1>25, <1>c, <1>k DEF CommitRemove, Created
<1>26. CASE ReportFile
  BY <1>26, <1>c, <1>k DEF ReportFile, Created
<1>27. CASE ReportEnvelope
  <2>1. envelope' # NoEnvelope /\ claimed
    BY <1>27, <1>b, <1>k, <1>s DEF ReportEnvelope
  <2>2. QED
    BY <1>27, <1>c, <1>k, <2>1 DEF ReportEnvelope, Created
<1>28. CASE Interrupt
  BY <1>28, <1>c, <1>k DEF Interrupt, Created
<1>29. CASE TearAppend
  <2>1. pc \in {"commit_trace", "replay_trace", "create_trace"}
    BY <1>29 DEF TearAppend, Appending
  <2>2. claimed /\ envelope # NoEnvelope
    BY <2>1, <1>k
  <2>3. QED
    BY <1>29, <1>c, <2>2 DEF TearAppend, Created
<1>30. CASE UNCHANGED vars
  BY <1>30, <1>c, <1>k DEF vars, Created
<1>31. QED
  BY <1>1, <1>2, <1>3, <1>4, <1>5, <1>6, <1>7, <1>8, <1>9, <1>10, <1>11, <1>12, <1>13, <1>14, <1>15, <1>16,
     <1>17, <1>18, <1>19, <1>20, <1>21, <1>22, <1>23, <1>24, <1>25, <1>26, <1>27, <1>28, <1>29, <1>30 DEF Next

\* Every step keeps whose call is under way and when there is a journal.
LEMMA CalledStep ==
    ASSUME IInv, [Next]_vars
    PROVE  Called'
<1> USE DEF Goto, Continue, Raise, Call, disk, memory, counters,
           Opening, Loading, Replaying, Committing, Reporting
<1>c. Called /\ events \in Nat
  BY DEF IInv, Types
<1>k. /\ envelope = NoEnvelope => pc \in Opening \cup Loading \cup {"idle"} /\ session = "none" /\ journals = {}
      /\ ~claimed => session = "none"
      /\ pc = "create_trace" => session = "none" /\ journals = {}
  BY DEF IInv, Created
<1>d. journals # {} => journals \ {Due} = {}
  BY DueFacts
<1>1. CASE CreateRun
  BY <1>1, <1>c, <1>k DEF CreateRun, Called
<1>2. CASE CreateTasks
  BY <1>2, <1>c, <1>k DEF CreateTasks, Called
<1>3. CASE CreateArtifacts
  BY <1>3, <1>c, <1>k DEF CreateArtifacts, Called
<1>4. CASE CreateEnvelope
  BY <1>4, <1>c, <1>k DEF CreateEnvelope, Called
<1>5. CASE CreateTrace
  BY <1>5, <1>c, <1>k DEF CreateTrace, Called
<1>6. CASE AcquireWriter
  BY <1>6, <1>c, <1>k DEF AcquireWriter, Called
<1>7. CASE ReleaseWriter
  BY <1>7, <1>c, <1>k DEF ReleaseWriter, Called
<1>8. CASE LoadSnapshot
  BY <1>8, <1>c, <1>k DEF LoadSnapshot, Called
<1>9. CASE CommitTransition
  BY <1>9, <1>c, <1>k DEF CommitTransition, Called, NoJob
<1>10. CASE SaveReport
  BY <1>10, <1>c, <1>k DEF SaveReport, Called
<1>11. CASE Load
  BY <1>11, <1>d, <1>c, <1>k DEF Load, Called
<1>12. CASE ReplayTasks
  BY <1>12, <1>d, <1>c, <1>k DEF ReplayTasks, Called
<1>13. CASE ReplayArtifacts
  BY <1>13, <1>d, <1>c, <1>k DEF ReplayArtifacts, Called
<1>14. CASE ReplayReport
  BY <1>14, <1>d, <1>c, <1>k DEF ReplayReport, Called
<1>15. CASE ReplayTrace
  BY <1>15, <1>d, <1>c, <1>k DEF ReplayTrace, Called
<1>16. CASE ReplayEnvelope
  BY <1>16, <1>d, <1>c, <1>k DEF ReplayEnvelope, Called
<1>17. CASE ReplayRemove
  BY <1>17, <1>d, <1>c, <1>k DEF ReplayRemove, Called
<1>18. CASE Read
  BY <1>18, <1>c, <1>k DEF Read, Called
<1>19. CASE CommitJournal
  BY <1>19, <1>c, <1>k DEF CommitJournal, Called
<1>20. CASE CommitTrace
  BY <1>20, <1>d, <1>c, <1>k DEF CommitTrace, Called
<1>21. CASE CommitTasks
  BY <1>21, <1>d, <1>c, <1>k DEF CommitTasks, Called
<1>22. CASE CommitArtifacts
  BY <1>22, <1>d, <1>c, <1>k DEF CommitArtifacts, Called
<1>23. CASE CommitReport
  BY <1>23, <1>d, <1>c, <1>k DEF CommitReport, Called
<1>24. CASE CommitEnvelope
  BY <1>24, <1>d, <1>c, <1>k DEF CommitEnvelope, Called
<1>25. CASE CommitRemove
  BY <1>25, <1>d, <1>c, <1>k DEF CommitRemove, Called
<1>26. CASE ReportFile
  BY <1>26, <1>c, <1>k DEF ReportFile, Called
<1>27. CASE ReportEnvelope
  BY <1>27, <1>c, <1>k DEF ReportEnvelope, Called
<1>28. CASE Interrupt
  BY <1>28, <1>c, <1>k DEF Interrupt, Called
<1>29. CASE TearAppend
  BY <1>29, <1>d, <1>c, <1>k DEF TearAppend, Called
<1>30. CASE UNCHANGED vars
  BY <1>30, <1>c, <1>k DEF vars, Called
<1>31. QED
  BY <1>1, <1>2, <1>3, <1>4, <1>5, <1>6, <1>7, <1>8, <1>9, <1>10, <1>11, <1>12, <1>13, <1>14, <1>15, <1>16,
     <1>17, <1>18, <1>19, <1>20, <1>21, <1>22, <1>23, <1>24, <1>25, <1>26, <1>27, <1>28, <1>29, <1>30 DEF Next

\* Every step keeps a commit, or a save_report, working on the snapshot that is on the disk.
LEMMA BasedStep ==
    ASSUME IInv, [Next]_vars
    PROVE  Based'
<1> USE DEF Goto, Continue, Raise, Call, disk, memory, counters,
           Opening, Loading, Replaying, Committing, Reporting
<1>c. Based
  BY DEF IInv
<1>t. /\ session # "writer" => job = NoJob
      /\ pc \in Opening \cup {"create_trace", "replay_remove"} \cup Replaying => session = "none"
      /\ pc \in Loading /\ caller # "reader" => session = "writer"
  BY DEF IInv, Called, Created
<1>1. CASE CreateRun
  BY <1>1, <1>c, <1>t DEF CreateRun, Based
<1>2. CASE CreateTasks
  BY <1>2, <1>c, <1>t DEF CreateTasks, Based
<1>3. CASE CreateArtifacts
  BY <1>3, <1>c, <1>t DEF CreateArtifacts, Based
<1>4. CASE CreateEnvelope
  BY <1>4, <1>c, <1>t DEF CreateEnvelope, Based
<1>5. CASE CreateTrace
  BY <1>5, <1>c, <1>t DEF CreateTrace, Based
<1>6. CASE AcquireWriter
  BY <1>6, <1>c, <1>t DEF AcquireWriter, Based
<1>7. CASE ReleaseWriter
  BY <1>7, <1>c, <1>t DEF ReleaseWriter, Based
<1>8. CASE LoadSnapshot
  BY <1>8, <1>c, <1>t DEF LoadSnapshot, Based
<1>9. CASE CommitTransition
  BY <1>9, <1>c, <1>t DEF CommitTransition, Based
<1>10. CASE SaveReport
  BY <1>10, <1>c, <1>t DEF SaveReport, Based
<1>11. CASE Load
  <2>1. journals # {} => session = "none"
    BY <1>11 DEF IInv, Called, Load
  <2>2. QED
    BY <1>11, <1>c, <1>t, <2>1 DEF Load, Based
<1>12. CASE ReplayTasks
  BY <1>12, <1>c, <1>t DEF ReplayTasks, Based
<1>13. CASE ReplayArtifacts
  BY <1>13, <1>c, <1>t DEF ReplayArtifacts, Based
<1>14. CASE ReplayReport
  BY <1>14, <1>c, <1>t DEF ReplayReport, Based
<1>15. CASE ReplayTrace
  BY <1>15, <1>c, <1>t DEF ReplayTrace, Based
<1>16. CASE ReplayEnvelope
  BY <1>16, <1>c, <1>t DEF ReplayEnvelope, Based
<1>17. CASE ReplayRemove
  BY <1>17, <1>c, <1>t DEF ReplayRemove, Based
<1>18. CASE Read
  <2>1. CASE Loadable
    <3>1. /\ base'.rev = envelope.rev /\ base'.ids = envelope.ids /\ base'.image = envelope.image
          /\ base'.artifacts = (IF artifacts = NoFile THEN 0 ELSE artifacts.content)
          /\ base'.report = report.content /\ UNCHANGED <<disk, caller, job>>
      BY <1>18, <2>1 DEF Read
    <3>2. artifacts # NoFile
      BY <2>1 DEF IInv, Written, Loadable
    <3>3. caller # "commit" /\ session = "writer" /\ job # NoJob => job.id \in envelope.ids
      BY <1>18, <1>c DEF Based, Read
    <3>4. session' = "writer" => session = "writer"
      BY <1>18, <2>1 DEF Read
    <3>5. \/ pc' = "idle" /\ (caller # "commit" \/ job.id \in envelope.ids)
          \/ pc' = "commit_journal" /\ job.id \notin envelope.ids
          \/ pc' = "report_file" /\ caller # "commit"
      BY <1>18, <2>1 DEF Read
    <3>6. QED
      BY <3>1, <3>2, <3>3, <3>4, <3>5 DEF Based
  <2>2. CASE ~Loadable
    BY <1>18, <1>c, <1>t, <2>2 DEF Read, Based
  <2>3. QED
    BY <2>1, <2>2
<1>19. CASE CommitJournal
  BY <1>19, <1>c, <1>t DEF CommitJournal, Based
<1>20. CASE CommitTrace
  BY <1>20, <1>c, <1>t DEF CommitTrace, Based
<1>21. CASE CommitTasks
  BY <1>21, <1>c, <1>t DEF CommitTasks, Based
<1>22. CASE CommitArtifacts
  BY <1>22, <1>c, <1>t DEF CommitArtifacts, Based
<1>23. CASE CommitReport
  BY <1>23, <1>c, <1>t DEF CommitReport, Based
<1>24. CASE CommitEnvelope
  <2>1. job.id \in envelope'.ids
    BY <1>24 DEF CommitEnvelope, Envelope
  <2>2. QED
    BY <1>24, <2>1 DEF CommitEnvelope, Based
<1>25. CASE CommitRemove
  BY <1>25, <1>c, <1>t DEF CommitRemove, Based
<1>26. CASE ReportFile
  BY <1>26, <1>c, <1>t DEF ReportFile, Based
<1>27. CASE ReportEnvelope
  <2>1. envelope'.ids = base.ids /\ envelope.ids = base.ids
    BY <1>27, <1>c DEF ReportEnvelope, Envelope, Based
  <2>2. QED
    BY <1>27, <1>c, <2>1 DEF ReportEnvelope, Based
<1>28. CASE Interrupt
  BY <1>28, <1>c, <1>t DEF Interrupt, Based
<1>29. CASE TearAppend
  BY <1>29, <1>c, <1>t DEF TearAppend, Based
<1>30. CASE UNCHANGED vars
  BY <1>30, <1>c, <1>t DEF vars, Based
<1>31. QED
  BY <1>1, <1>2, <1>3, <1>4, <1>5, <1>6, <1>7, <1>8, <1>9, <1>10, <1>11, <1>12, <1>13, <1>14, <1>15, <1>16,
     <1>17, <1>18, <1>19, <1>20, <1>21, <1>22, <1>23, <1>24, <1>25, <1>26, <1>27, <1>28, <1>29, <1>30 DEF Next

\* Every step keeps one journal at most, that starts from the committed revision or has reached it.
LEMMA JournaledStep ==
    ASSUME IInv, [Next]_vars
    PROVE  Journaled'
<1> USE DEF Goto, Continue, Raise, Call, disk, memory, counters,
           Opening, Loading, Replaying, Committing, Reporting
<1>c. Journaled
  BY DEF IInv
<1>d. /\ journals # {} => /\ Due \in journals /\ journals = {Due} /\ journals \ {Due} = {}
                          /\ Due.target \in Nat /\ Due.event.id \in Nat /\ Due.target = Due.base + 1 /\ Due.base \in Nat
                          /\ envelope # NoEnvelope
      /\ pc \in Committing \cup Replaying \cup {"commit_remove", "replay_remove"} => journals # {}
  BY DueFacts, Shapes DEF IInv, Numbered, Created
<1>e. pc \notin Committing \cup Replaying \cup {"commit_remove", "replay_remove", "load", "idle"} => journals = {}
  BY DEF IInv, Called, Created, Types, Steps
<1>b. base.rev \in Nat /\ base.image \in Nat /\ job.id \in Nat
  BY Shapes DEF IInv, Types
<1>1. CASE CreateRun
  BY <1>1, <1>c, <1>e DEF CreateRun, Journaled, Begun, Reached
<1>2. CASE CreateTasks
  BY <1>2, <1>c, <1>e DEF CreateTasks, Journaled, Begun, Reached
<1>3. CASE CreateArtifacts
  BY <1>3, <1>c, <1>e DEF CreateArtifacts, Journaled, Begun, Reached
<1>4. CASE CreateEnvelope
  <2>1. journals = {} /\ acked = {}
    BY <1>4, <1>c DEF IInv, Created, CreateEnvelope, Journaled, NoEnvelope
  <2>2. QED
    BY <1>4, <2>1 DEF CreateEnvelope, Journaled
<1>5. CASE CreateTrace
  BY <1>5, <1>c, <1>e DEF CreateTrace, Journaled, Begun, Reached
<1>6. CASE AcquireWriter
  BY <1>6, <1>c, <1>e DEF AcquireWriter, Journaled, Begun, Reached
<1>7. CASE ReleaseWriter
  BY <1>7, <1>c, <1>e DEF ReleaseWriter, Journaled, Begun, Reached
<1>8. CASE LoadSnapshot
  BY <1>8, <1>c, <1>e DEF LoadSnapshot, Journaled, Begun, Reached
<1>9. CASE CommitTransition
  BY <1>9, <1>c, <1>e DEF CommitTransition, Journaled, Begun, Reached
<1>10. CASE SaveReport
  BY <1>10, <1>c, <1>e DEF SaveReport, Journaled, Begun, Reached
<1>11. CASE Load
  BY <1>11, <1>d, <1>c, <1>e DEF Load, Journaled, Begun, Reached
<1>12. CASE ReplayTasks
  BY <1>12, <1>d, <1>c, <1>e DEF ReplayTasks, Journaled, Begun, Reached
<1>13. CASE ReplayArtifacts
  BY <1>13, <1>d, <1>c, <1>e DEF ReplayArtifacts, Journaled, Begun, Reached
<1>14. CASE ReplayReport
  BY <1>14, <1>d, <1>c, <1>e DEF ReplayReport, Journaled, Begun, Reached
<1>15. CASE ReplayTrace
  BY <1>15, <1>d, <1>c, <1>e DEF ReplayTrace, Journaled, Begun, Reached
<1>16. CASE ReplayEnvelope
  <2>1. envelope'.rev = Due.target /\ envelope'.ids = envelope.ids \cup {Due.event.id}
    BY <1>16 DEF ReplayEnvelope, Envelope
  <2>2. journals' = {Due} /\ journals = {Due} /\ UNCHANGED <<acked, report, job>> /\ pc' = "replay_remove"
    BY <1>16, <1>d DEF ReplayEnvelope
  <2>3. acked' \subseteq envelope'.ids
    BY <1>c, <2>1, <2>2 DEF Journaled
  <2> HIDE DEF Goto, Continue, Raise, Call, disk, memory, counters
  <2>4. QED
    BY <2>1, <2>2, <2>3 DEF Journaled, Reached
<1>17. CASE ReplayRemove
  BY <1>17, <1>d, <1>c, <1>e DEF ReplayRemove, Journaled, Begun, Reached
<1>18. CASE Read
  BY <1>18, <1>c, <1>e DEF Read, Journaled, Begun, Reached
<1>19. CASE CommitJournal
  <2>1. PICK arts : journals' = {JournalRecord(base.rev + 1, arts)}
    BY <1>19, <1>e DEF CommitJournal
  <2> DEFINE j == JournalRecord(base.rev + 1, arts)
  <2>2. j.event = [id |-> job.id, seq |-> job.seq] /\ j.base = base.rev /\ j.report = base.report
    BY DEF JournalRecord
  <2>3. j.event.id = job.id
    BY <2>2
  <2>4. /\ base.rev = envelope.rev /\ job.id \notin envelope.ids /\ base.report = report.content
        /\ report # NoFile => report.content # Absent
    BY <1>19, Shapes DEF IInv, Based, Types, CommitJournal, Absent
  <2>5. acked \subseteq envelope.ids
    BY <1>19, <1>c, <1>e DEF Journaled, CommitJournal
  <2>6. UNCHANGED <<envelope, report, job, acked>> /\ pc' = "commit_trace" /\ journals' = {j}
    BY <1>19, <2>1 DEF CommitJournal
  <2> HIDE DEF j, Goto, Continue, Raise, Call, disk, memory, counters
  <2>7. QED
    BY <2>2, <2>3, <2>4, <2>5, <2>6 DEF Journaled, Begun
<1>20. CASE CommitTrace
  BY <1>20, <1>d, <1>c, <1>e DEF CommitTrace, Journaled, Begun, Reached
<1>21. CASE CommitTasks
  BY <1>21, <1>d, <1>c, <1>e DEF CommitTasks, Journaled, Begun, Reached
<1>22. CASE CommitArtifacts
  BY <1>22, <1>d, <1>c, <1>e DEF CommitArtifacts, Journaled, Begun, Reached
<1>23. CASE CommitReport
  BY <1>23, <1>d, <1>c, <1>e DEF CommitReport, Journaled, Begun, Reached
<1>24. CASE CommitEnvelope
  <2>1. base.ids = envelope.ids /\ Due.event.id = job.id
    BY <1>24, <1>c, <1>d DEF IInv, Based, Journaled, CommitEnvelope
  <2>2. envelope'.rev = Due.target /\ envelope'.ids = envelope.ids \cup {Due.event.id}
    BY <1>24, <2>1 DEF CommitEnvelope, Envelope
  <2>3. journals' = {Due} /\ journals = {Due} /\ UNCHANGED <<acked, report, job>> /\ pc' = "commit_remove"
    BY <1>24, <1>d DEF CommitEnvelope
  <2>4. acked' \subseteq envelope'.ids
    BY <1>c, <2>2, <2>3 DEF Journaled
  <2> HIDE DEF Goto, Continue, Raise, Call, disk, memory, counters
  <2>5. QED
    BY <2>1, <2>2, <2>3, <2>4 DEF Journaled, Reached
<1>25. CASE CommitRemove
  BY <1>25, <1>d, <1>c, <1>e DEF CommitRemove, Journaled, Begun, Reached
<1>26. CASE ReportFile
  BY <1>26, <1>c, <1>e DEF ReportFile, Journaled, Begun, Reached
<1>27. CASE ReportEnvelope
  <2>1. envelope'.ids = envelope.ids /\ journals = {}
    BY <1>27, <1>e DEF IInv, Based, ReportEnvelope, Envelope
  <2>2. QED
    BY <1>27, <1>c, <2>1 DEF ReportEnvelope, Journaled
<1>28. CASE Interrupt
  BY <1>28, <1>c, <1>e DEF Interrupt, Journaled, Begun, Reached
<1>29. CASE TearAppend
  BY <1>29, <1>d, <1>c, <1>e DEF TearAppend, Journaled, Begun, Reached
<1>30. CASE UNCHANGED vars
  BY <1>30, <1>c, <1>e DEF vars, Journaled, Begun, Reached
<1>31. QED
  BY <1>1, <1>2, <1>3, <1>4, <1>5, <1>6, <1>7, <1>8, <1>9, <1>10, <1>11, <1>12, <1>13, <1>14, <1>15, <1>16,
     <1>17, <1>18, <1>19, <1>20, <1>21, <1>22, <1>23, <1>24, <1>25, <1>26, <1>27, <1>28, <1>29, <1>30 DEF Next

\* Every step keeps the files as far written as its call has come.
LEMMA WrittenStep ==
    ASSUME IInv, [Next]_vars
    PROVE  Written'
<1> USE DEF Goto, Continue, Raise, Call, disk, memory, counters,
           Replaying, Committing, TasksWritten, ArtifactsWritten, ReportWritten
<1>c. Written
  BY DEF IInv
<1>d. /\ journals # {} => /\ Due \in journals /\ journals = {Due} /\ journals \ {Due} = {}
                          /\ Due.target \in Nat /\ Due.event.id \in Nat /\ Due.artifacts \in Nat
                          /\ Due.target = Due.base + 1 /\ Due.base \in Nat /\ envelope # NoEnvelope
      /\ pc \in Committing \cup Replaying \cup {"commit_remove", "replay_remove"} => journals # {}
  BY DueFacts, Shapes DEF IInv, Numbered, Created
<1>e. pc \notin Committing \cup Replaying \cup {"commit_remove", "replay_remove", "load", "idle"} => journals = {}
  BY DEF IInv, Called, Created, Types, Steps, Opening, Loading, Reporting
<1>p. pc \in Committing \cup Replaying =>
         /\ Due.base = envelope.rev /\ Due.target # envelope.rev
         /\ Due.event.id \notin envelope.ids
  BY <1>d DEF IInv, Journaled, Begun
<1>s. \A n, m : n \in Nat /\ m \in Nat => File(n, m) # NoFile
  BY DEF File, NoFile, Absent
<1>b. base.rev \in Nat /\ base.image \in Nat /\ job.id \in Nat
  BY Shapes DEF IInv, Types
<1>w. ASSUME pc \in Committing \cup Replaying, UNCHANGED <<envelope, journals>>,
             tasks' # NoFile, artifacts' # NoFile,
             pc' \in TasksWritten => tasks' = File(Due.target, Due.event.id),
             pc' \in ArtifactsWritten => artifacts' = File(Due.target, Due.artifacts),
             pc' \in ReportWritten => report' = Reports(Due)
      PROVE  Written'
  <2>1. PICK j \in journals : j = Due /\ journals = {j}
    BY <1>w, <1>d
  <2>2. j.target # envelope.rev
    BY <1>w, <1>p, <2>1
  <2>3. /\ pc' \in TasksWritten => tasks' = File(j.target, j.event.id)
        /\ pc' \in ArtifactsWritten => artifacts' = File(j.target, j.artifacts)
        /\ pc' \in ReportWritten => report' = Reports(j)
    BY <1>w, <2>1
  <2>4. QED
    BY <1>w, <1>c, <2>1, <2>2, <2>3 DEF Written, Reached
<1>f. envelope # NoEnvelope => tasks # NoFile /\ artifacts # NoFile
  BY <1>c DEF Written
<1>g. journals # {} /\ pc \in Committing \cup Replaying =>
         /\ pc \in TasksWritten => tasks = File(Due.target, Due.event.id)
         /\ pc \in ArtifactsWritten => artifacts = File(Due.target, Due.artifacts)
         /\ pc \in ReportWritten => report = Reports(Due)
         /\ File(Due.target, Due.event.id) # NoFile /\ File(Due.target, Due.artifacts) # NoFile
         /\ pc \in Committing => Due.event.id = job.id /\ (Due.report = Absent => report = NoFile)
  <2>1. journals # {} => File(Due.target, Due.event.id) # NoFile /\ File(Due.target, Due.artifacts) # NoFile
    BY <1>d, <1>s
  <2>2. pc \in Committing /\ journals # {} => Due.event.id = job.id /\ (Due.report = Absent => report = NoFile)
    BY <1>d DEF IInv, Journaled
  <2>3. QED
    BY <1>c, <1>d, <2>1, <2>2 DEF Written
<1>i. IsFiniteSet(envelope.ids)
  <2>1. envelope.ids \subseteq CreationEvents + 1 .. events /\ events \in Int /\ CreationEvents + 1 \in Int
    BY BoundsAssumption DEF IInv, Types, Numbered, Transitions
  <2>2. QED
    BY <2>1, FS_Interval, FS_Subset
<1>1. CASE CreateRun
  BY <1>1, <1>c DEF CreateRun, Written, Settled, Reports, Reached
<1>2. CASE CreateTasks
  <2>1. envelope = NoEnvelope /\ journals = {}
    BY <1>2 DEF IInv, Created, CreateTasks, Opening
  <2>2. QED
    BY <1>2, <2>1 DEF CreateTasks, Written
<1>3. CASE CreateArtifacts
  <2>1. envelope = NoEnvelope /\ journals = {}
    BY <1>3 DEF IInv, Created, CreateArtifacts, Opening
  <2>2. QED
    BY <1>3, <2>1 DEF CreateArtifacts, Written
<1>4. CASE CreateEnvelope
  <2>1. journals = {} /\ tasks = File(0, 0) /\ artifacts = File(0, 0) /\ report = NoFile
    BY <1>4 DEF IInv, Created, CreateEnvelope, Opening
  <2>2. envelope'.rev = 0 /\ envelope'.image = 0 /\ envelope'.ids = {}
    BY <1>4 DEF CreateEnvelope, Envelope
  <2>3. artifacts.rev = 0 /\ tasks # NoFile /\ artifacts # NoFile
    BY <2>1, <1>s DEF File
  <2>4. Cardinality({}) = 0
    BY FS_EmptySet
  <2>5. QED
    BY <1>4, <2>1, <2>2, <2>3, <2>4 DEF CreateEnvelope, Written, Settled
<1>5. CASE CreateTrace
  BY <1>5, <1>c DEF CreateTrace, Written, Settled, Reports, Reached
<1>6. CASE AcquireWriter
  BY <1>6, <1>c DEF AcquireWriter, Written, Settled, Reports, Reached
<1>7. CASE ReleaseWriter
  BY <1>7, <1>c DEF ReleaseWriter, Written, Settled, Reports, Reached
<1>8. CASE LoadSnapshot
  BY <1>8, <1>c DEF LoadSnapshot, Written, Settled, Reports, Reached
<1>9. CASE CommitTransition
  BY <1>9, <1>c DEF CommitTransition, Written, Settled, Reports, Reached
<1>10. CASE SaveReport
  BY <1>10, <1>c DEF SaveReport, Written, Settled, Reports, Reached
<1>11. CASE Load
  BY <1>11, <1>d, <1>c DEF Load, Written, Settled, Reports, Reached
<1>12. CASE ReplayTasks
  <2>1. pc \in Committing \cup Replaying /\ journals # {} /\ envelope # NoEnvelope
    BY <1>12, <1>d DEF ReplayTasks
  <2>2. QED
    BY <1>12, <1>w, <1>f, <1>g, <2>1 DEF ReplayTasks, Reports
<1>13. CASE ReplayArtifacts
  <2>1. pc \in Committing \cup Replaying /\ journals # {} /\ envelope # NoEnvelope
    BY <1>13, <1>d DEF ReplayArtifacts
  <2>2. QED
    BY <1>13, <1>w, <1>f, <1>g, <2>1 DEF ReplayArtifacts, Reports
<1>14. CASE ReplayReport
  <2>1. pc \in Committing \cup Replaying /\ journals # {} /\ envelope # NoEnvelope
    BY <1>14, <1>d DEF ReplayReport
  <2>2. QED
    BY <1>14, <1>w, <1>f, <1>g, <2>1 DEF ReplayReport, Reports
<1>15. CASE ReplayTrace
  BY <1>15, <1>d, <1>c DEF ReplayTrace, Written, Settled, Reports, Reached
<1>16. CASE ReplayEnvelope
  <2>1. /\ pc \in Committing \cup Replaying /\ journals # {} /\ pc \in TasksWritten /\ pc \in ArtifactsWritten
        /\ pc \in ReportWritten /\ pc' \notin TasksWritten /\ pc' \notin ArtifactsWritten /\ pc' \notin ReportWritten
    BY <1>16, <1>d DEF ReplayEnvelope
  <2>2. /\ tasks = File(Due.target, Due.event.id) /\ artifacts = File(Due.target, Due.artifacts)
        /\ report = Reports(Due) /\ tasks # NoFile /\ artifacts # NoFile
    BY <2>1, <1>g
  <2>3. envelope' = Envelope(Due.target, Due.event.id, envelope.ids \cup {Due.event.id})
    BY <1>16, <1>g, <2>1 DEF ReplayEnvelope
  <2>4. /\ envelope'.rev = Due.target /\ envelope'.image = Due.event.id
        /\ envelope'.ids = envelope.ids \cup {Due.event.id}
    BY <2>3 DEF Envelope
  <2>5. Cardinality(envelope'.ids) = Cardinality(envelope.ids) + 1
    <3>1. Due.event.id \notin envelope.ids
      BY <1>p, <2>1
    <3>2. QED
      BY <1>i, <2>4, <3>1, PlusOne
  <2>6. envelope.rev = Cardinality(envelope.ids)
    BY <1>c, <1>d, <2>1 DEF Written
  <2>7. envelope'.rev = Cardinality(envelope'.ids)
    BY <1>d, <1>p, <2>1, <2>4, <2>5, <2>6
  <2>8. Settled'
    BY <1>16, <2>2, <2>4 DEF ReplayEnvelope, Settled, File, Reports
  <2>9. UNCHANGED <<tasks, artifacts, report>>
    BY <1>16 DEF ReplayEnvelope
  <2> HIDE DEF Goto, Continue, Raise, Call, disk, memory, counters
  <2>10. QED
    BY <2>1, <2>2, <2>7, <2>8, <2>9 DEF Written
<1>17. CASE ReplayRemove
  <2>1. Settled /\ envelope # NoEnvelope
    <3>1. \A j \in journals : Reached(j)
      BY <1>17 DEF ReplayRemove, IInv, Journaled
    <3>2. QED
      BY <1>17, <1>c, <1>d, <3>1 DEF ReplayRemove, Written
  <2>2. QED
    BY <1>17, <1>c, <2>1 DEF ReplayRemove, Written, Settled
<1>18. CASE Read
  BY <1>18, <1>c DEF Read, Written, Settled, Reports, Reached
<1>19. CASE CommitJournal
  BY <1>19, <1>c DEF CommitJournal, Written, Settled, Reports, Reached
<1>20. CASE CommitTrace
  BY <1>20, <1>d, <1>c DEF CommitTrace, Written, Settled, Reports, Reached
<1>21. CASE CommitTasks
  <2>1. pc \in Committing \cup Replaying /\ journals # {} /\ envelope # NoEnvelope
    BY <1>21, <1>d DEF CommitTasks
  <2>2. QED
    BY <1>21, <1>w, <1>f, <1>g, <2>1 DEF CommitTasks, Reports
<1>22. CASE CommitArtifacts
  <2>1. pc \in Committing \cup Replaying /\ journals # {} /\ envelope # NoEnvelope
    BY <1>22, <1>d DEF CommitArtifacts
  <2>2. QED
    BY <1>22, <1>w, <1>f, <1>g, <2>1 DEF CommitArtifacts, Reports
<1>23. CASE CommitReport
  <2>1. pc \in Committing \cup Replaying /\ journals # {} /\ envelope # NoEnvelope
    BY <1>23, <1>d DEF CommitReport
  <2>2. QED
    BY <1>23, <1>w, <1>f, <1>g, <2>1 DEF CommitReport, Reports
<1>24. CASE CommitEnvelope
  <2>1. /\ pc \in Committing \cup Replaying /\ journals # {} /\ pc \in TasksWritten /\ pc \in ArtifactsWritten
        /\ pc \in ReportWritten /\ pc' \notin TasksWritten /\ pc' \notin ArtifactsWritten /\ pc' \notin ReportWritten
    BY <1>24, <1>d DEF CommitEnvelope
  <2>2. /\ tasks = File(Due.target, Due.event.id) /\ artifacts = File(Due.target, Due.artifacts)
        /\ report = Reports(Due) /\ tasks # NoFile /\ artifacts # NoFile
    BY <2>1, <1>g
  <2>3. envelope' = Envelope(Due.target, Due.event.id, envelope.ids \cup {Due.event.id})
    BY <1>24, <1>g, <2>1 DEF CommitEnvelope, IInv, Based
  <2>4. /\ envelope'.rev = Due.target /\ envelope'.image = Due.event.id
        /\ envelope'.ids = envelope.ids \cup {Due.event.id}
    BY <2>3 DEF Envelope
  <2>5. Cardinality(envelope'.ids) = Cardinality(envelope.ids) + 1
    <3>1. Due.event.id \notin envelope.ids
      BY <1>p, <2>1
    <3>2. QED
      BY <1>i, <2>4, <3>1, PlusOne
  <2>6. envelope.rev = Cardinality(envelope.ids)
    BY <1>c, <1>d, <2>1 DEF Written
  <2>7. envelope'.rev = Cardinality(envelope'.ids)
    BY <1>d, <1>p, <2>1, <2>4, <2>5, <2>6
  <2>8. Settled'
    BY <1>24, <2>2, <2>4 DEF CommitEnvelope, Settled, File, Reports
  <2>9. UNCHANGED <<tasks, artifacts, report>>
    BY <1>24 DEF CommitEnvelope
  <2> HIDE DEF Goto, Continue, Raise, Call, disk, memory, counters
  <2>10. QED
    BY <2>1, <2>2, <2>7, <2>8, <2>9 DEF Written
<1>25. CASE CommitRemove
  <2>1. Settled /\ envelope # NoEnvelope
    <3>1. \A j \in journals : Reached(j)
      BY <1>25 DEF CommitRemove, IInv, Journaled
    <3>2. QED
      BY <1>25, <1>c, <1>d, <3>1 DEF CommitRemove, Written
  <2>2. QED
    BY <1>25, <1>c, <2>1 DEF CommitRemove, Written, Settled
<1>26. CASE ReportFile
  <2>1. journals = {} /\ base.rev = envelope.rev
    BY <1>26, <1>e DEF ReportFile, IInv, Based, Reporting
  <2>2. report'.rev = base.rev
    BY <1>26 DEF ReportFile, File
  <2>3. QED
    BY <1>26, <1>c, <2>1, <2>2 DEF ReportFile, Written, Settled
<1>27. CASE ReportEnvelope
  <2>1. journals = {} /\ base.rev = envelope.rev /\ base.image = envelope.image /\ base.ids = envelope.ids
    BY <1>27, <1>e DEF ReportEnvelope, IInv, Based, Reporting
  <2>2. envelope'.rev = envelope.rev /\ envelope'.image = envelope.image /\ envelope'.ids = envelope.ids
    BY <1>27, <2>1 DEF ReportEnvelope, Envelope
  <2>3. envelope # NoEnvelope
    BY <1>27 DEF IInv, Created, Opening, Loading, ReportEnvelope
  <2>4. QED
    BY <1>27, <1>c, <2>1, <2>2, <2>3 DEF ReportEnvelope, Written, Settled
<1>28. CASE Interrupt
  BY <1>28, <1>c DEF Interrupt, Written, Settled, Reports, Reached
<1>29. CASE TearAppend
  BY <1>29, <1>d, <1>c DEF TearAppend, Written, Settled, Reports, Reached
<1>30. CASE UNCHANGED vars
  BY <1>30, <1>c DEF vars, Written, Settled, Reports, Reached
<1>31. QED
  BY <1>1, <1>2, <1>3, <1>4, <1>5, <1>6, <1>7, <1>8, <1>9, <1>10, <1>11, <1>12, <1>13, <1>14, <1>15, <1>16,
     <1>17, <1>18, <1>19, <1>20, <1>21, <1>22, <1>23, <1>24, <1>25, <1>26, <1>27, <1>28, <1>29, <1>30 DEF Next

\* Every step keeps the trace in step with the transitions, as long as no append is cut short.
LEMMA TracedStep ==
    ASSUME IInv, [Next]_vars
    PROVE  Traced'
<1> USE DEF Goto, Continue, Raise, Call, disk, memory, counters,
           Opening, Loading, Replaying, Committing, Reporting, TraceWritten
<1>c. Traced
  BY DEF IInv
<1>z. torn' = 0 => torn = 0 /\ trace \in Seq(Lines) /\ Clean(trace)
  <2>1. torn' = torn \/ torn' = torn + 1
    BY DEF Next, vars, CreateRun, CreateTasks, CreateArtifacts, CreateEnvelope, CreateTrace, AcquireWriter,
       ReleaseWriter, LoadSnapshot, CommitTransition, SaveReport, Load, ReplayTasks, ReplayArtifacts,
       ReplayReport, ReplayTrace, ReplayEnvelope, ReplayRemove, Read, CommitJournal, CommitTrace, CommitTasks,
       CommitArtifacts, CommitReport, CommitEnvelope, CommitRemove, ReportFile, ReportEnvelope, Interrupt,
       TearAppend
  <2>2. torn \in Nat /\ trace \in Seq(Lines)
    BY DEF IInv, Types
  <2>3. QED
    BY <1>c, <2>1, <2>2 DEF Traced
<1>d. /\ journals # {} => /\ Due \in journals /\ journals = {Due} /\ journals \ {Due} = {}
                          /\ Due.target \in Nat /\ Due.event.id \in Nat /\ Due.event.seq \in Nat
                          /\ envelope # NoEnvelope
      /\ pc \in Committing \cup Replaying \cup {"commit_remove", "replay_remove"} => journals # {}
  BY DueFacts, Shapes DEF IInv, Numbered, Created
<1>k. /\ pc \notin Committing \cup {"commit_remove"} /\ session # "none" => journals = {}
      /\ pc \in {"create_trace", "commit_journal", "read"} \cup Opening \cup Reporting => journals = {}
      /\ pc \in Replaying \cup {"replay_remove", "create_trace"} \cup Opening => session = "none"
      /\ session # "writer" => job = NoJob
  BY DEF IInv, Called, Created
<1>t. job.id \in Nat /\ job.seq \in Nat /\ seq \in Nat
  BY Shapes DEF IInv, Types
<1>p. pc \notin Loading \cup {"commit_journal"} \cup Committing /\ job # NoJob => job.id \in envelope.ids
  BY <1>k DEF IInv, Based
<1>l. \A i \in DOMAIN trace : trace[i].id \in Nat /\ trace[i].seq \in Nat
  BY LineTypes DEF IInv, Types
<1>a. ASSUME torn = 0, journals # {}, Clean(trace), trace \in Seq(Lines),
             NEW e, e.id = Due.event.id, e.seq = Due.event.seq,
             trace' = IF e.id \in Recorded(trace) THEN trace ELSE Appended(trace, e, "whole"),
             UNCHANGED <<envelope, journals>>
      PROVE  /\ Clean(trace')
             /\ \A i \in DOMAIN trace' : \/ trace'[i].id \in CreationIds \cup envelope'.ids
                                         \/ \E j \in journals' : trace'[i].id = j.event.id
             /\ \A id \in envelope'.ids : \E i \in DOMAIN trace' : trace'[i].id = id
             /\ \A j \in journals' :
                   /\ \A i \in DOMAIN trace' : trace'[i].id = j.event.id => trace'[i].seq = j.event.seq
                   /\ \E i \in DOMAIN trace' : trace'[i].id = j.event.id
             /\ \A n \in Nat : e.seq < n /\ Above(n) => \A i \in DOMAIN trace' : trace'[i].seq < n
  <2>1. e.id \in Nat /\ e.seq \in Nat /\ Due \in journals /\ journals = {Due}
    BY <1>a, <1>d
  <2>2. Recorded(trace) = {trace[i].id : i \in DOMAIN trace}
    BY <1>a, CleanTrace
  <2>3. CASE e.id \in Recorded(trace)
    BY <1>a, <1>c, <2>1, <2>2, <2>3 DEF Traced, Above
  <2>4. CASE e.id \notin Recorded(trace)
    <3>1. \A i \in DOMAIN trace : trace[i].seq < e.seq /\ trace[i].id # e.id
      BY <1>a, <1>c, <2>1, <2>2, <2>4 DEF Traced, Has, Above
    <3>2. /\ Clean(trace')
          /\ \A i \in DOMAIN trace : i \in DOMAIN trace' /\ trace'[i] = trace[i]
          /\ \A i \in DOMAIN trace' : i \in DOMAIN trace \/ (trace'[i].id = e.id /\ trace'[i].seq = e.seq)
          /\ \E i \in DOMAIN trace' : trace'[i].id = e.id
      BY <1>a, <2>1, <2>4, <3>1, CleanAppended
    <3>3. \A i \in DOMAIN trace' : \/ trace'[i].id \in CreationIds \cup envelope'.ids
                                   \/ \E j \in journals' : trace'[i].id = j.event.id
      BY <1>a, <1>c, <2>1, <3>2 DEF Traced
    <3>4. \A id \in envelope'.ids : \E i \in DOMAIN trace' : trace'[i].id = id
      BY <1>a, <1>c, <3>2 DEF Traced
    <3>5. \A j \in journals' :
             /\ \A i \in DOMAIN trace' : trace'[i].id = j.event.id => trace'[i].seq = j.event.seq
             /\ \E i \in DOMAIN trace' : trace'[i].id = j.event.id
      BY <1>a, <2>1, <3>1, <3>2
    <3>6. \A n \in Nat : e.seq < n /\ Above(n) => \A i \in DOMAIN trace' : trace'[i].seq < n
      BY <3>2 DEF Above
    <3>7. QED
      BY <3>2, <3>3, <3>4, <3>5, <3>6
  <2>5. QED
    BY <2>3, <2>4
<1>1. CASE CreateRun
  BY <1>1, <1>c, <1>z, <1>k DEF CreateRun, Traced, Has, Above
<1>2. CASE CreateTasks
  BY <1>2, <1>c, <1>z, <1>k DEF CreateTasks, Traced, Has, Above
<1>3. CASE CreateArtifacts
  BY <1>3, <1>c, <1>z, <1>k DEF CreateArtifacts, Traced, Has, Above
<1>4. CASE CreateEnvelope
  <2>1. envelope'.ids = envelope.ids
    BY <1>4 DEF CreateEnvelope, Envelope, IInv, Created, NoEnvelope
  <2>2. QED
    BY <1>4, <1>c, <1>z, <1>k, <2>1 DEF CreateEnvelope, Traced, Has, Above
<1>5. CASE CreateTrace
  <2>1. /\ journals = {} /\ session = "none" /\ job = NoJob /\ envelope.ids = {}
        /\ Len(trace) <= CreationEvents /\ \A i \in DOMAIN trace : trace[i] = Line(CreationEvent(i), "whole")
    BY <1>5, <1>k DEF IInv, Created, CreateTrace
  <2>2. /\ Len(trace) \in Nat /\ DOMAIN trace = 1..Len(trace) /\ CreationEvents \in Nat
        /\ trace \in Seq(Lines)
    BY LenProperties, BoundsAssumption DEF IInv, Types
  <2>3. \A i \in DOMAIN trace : trace[i].seq = i /\ trace[i].id = i
    BY <2>1 DEF Line, CreationEvent
  <2>4. SUFFICES ASSUME torn' = 0, torn = 0, Clean(trace)
                 PROVE  Traced'
    BY <1>z DEF Traced
  <2>5. CASE Len(trace) < CreationEvents
    <3> DEFINE e == CreationEvent(Len(trace) + 1)
    <3>1. e.id = Len(trace) + 1 /\ e.seq = Len(trace) + 1
      BY DEF CreationEvent
    <3>2. trace' = Append(trace, Line(e, "whole")) /\ UNCHANGED <<envelope, journals, session, job, seq, pc>>
      BY <1>5, <2>5 DEF CreateTrace
    <3> HIDE DEF e
    <3>3. /\ Clean(trace')
          /\ \A i \in DOMAIN trace' : i \in DOMAIN trace \/ trace'[i].id = e.id
          /\ \A i \in DOMAIN trace : trace'[i] = trace[i]
      <4>1. \A i \in DOMAIN trace : trace[i].seq < e.seq /\ trace[i].id # e.id
        BY <2>2, <2>3, <3>1
      <4>2. e.id \in Nat /\ e.seq \in Nat
        BY <2>2, <3>1
      <4>3. Appended(trace, e, "whole") = Append(trace, Line(e, "whole"))
        BY <2>2, <2>4, <4>1, <4>2, CleanAppended
      <4>4. trace' = Appended(trace, e, "whole")
        BY <3>2, <4>3
      <4>5. QED
        BY <2>2, <2>4, <4>1, <4>2, <4>4, CleanAppended
    <3>4. \A i \in DOMAIN trace' : trace'[i].id \in CreationIds
      BY <2>2, <2>3, <2>5, <3>1, <3>3 DEF CreationIds
    <3>5. QED
      BY <1>5, <2>1, <3>2, <3>3, <3>4 DEF Traced, CreateTrace
  <2>6. CASE ~(Len(trace) < CreationEvents)
    <3>1. UNCHANGED <<envelope, journals, job, trace>> /\ seq' = CreationEvents /\ pc' = "idle"
      BY <1>5, <2>6 DEF CreateTrace
    <3>2. Above(CreationEvents + 1)
      BY <2>1, <2>2, <2>3 DEF Above
    <3>3. QED
      BY <1>c, <2>1, <2>4, <3>1, <3>2 DEF Traced, Above
  <2>7. QED
    BY <2>5, <2>6
<1>6. CASE AcquireWriter
  BY <1>6, <1>c, <1>z, <1>k DEF AcquireWriter, Traced, Has, Above
<1>7. CASE ReleaseWriter
  BY <1>7, <1>c, <1>z, <1>k DEF ReleaseWriter, Traced, Has, Above
<1>8. CASE LoadSnapshot
  BY <1>8, <1>c, <1>z, <1>k, <1>p DEF LoadSnapshot, Traced, Has, Above
<1>9. CASE CommitTransition
  <2>1. UNCHANGED <<disk, torn, session>> /\ journals = {} /\ pc' = "load" /\ session # "none"
    BY <1>9, <1>k DEF CommitTransition
  <2>2. SUFFICES ASSUME torn' = 0, torn = 0
                 PROVE  Traced'
    BY <1>z DEF Traced
  <2>3. Above(seq + 1)
    BY <1>c, <2>1, <2>2 DEF Traced
  <2>4. CASE UNCHANGED <<job, seq>>
    <3>1. job # NoJob => job.id \in envelope.ids
      BY <1>9, <1>p DEF CommitTransition
    <3>2. QED
      BY <1>c, <2>1, <2>2, <2>4, <3>1 DEF Traced, Above
  <2>5. CASE ~UNCHANGED <<job, seq>>
    <3>1. seq' = seq + 1 /\ job'.seq = seq + 1
      BY <1>9, <2>5 DEF CommitTransition
    <3>2. Above(job.seq)' /\ Above(seq + 1)'
      BY <1>l, <1>t, <2>1, <2>3, <3>1 DEF Above
    <3>3. QED
      BY <1>c, <2>1, <2>2, <3>2 DEF Traced, Above
  <2>6. QED
    BY <2>4, <2>5
<1>10. CASE SaveReport
  BY <1>10, <1>c, <1>z, <1>k, <1>p DEF SaveReport, Traced, Has, Above
<1>11. CASE Load
  BY <1>11, <1>d, <1>c, <1>z, <1>k DEF Load, Traced, Has, Above
<1>12. CASE ReplayTasks
  BY <1>12, <1>d, <1>c, <1>z, <1>k DEF ReplayTasks, Traced, Has, Above
<1>13. CASE ReplayArtifacts
  BY <1>13, <1>d, <1>c, <1>z, <1>k DEF ReplayArtifacts, Traced, Has, Above
<1>14. CASE ReplayReport
  BY <1>14, <1>d, <1>c, <1>z, <1>k DEF ReplayReport, Traced, Has, Above
<1>15. CASE ReplayTrace
  <2>1. SUFFICES ASSUME torn' = 0, torn = 0, Clean(trace), trace \in Seq(Lines)
                 PROVE  Traced'
    BY <1>z DEF Traced
  <2>2. ~Corrupt(trace)
    BY <2>1, CleanTrace
  <2>3. journals # {} /\ session = "none" /\ job = NoJob /\ UNCHANGED <<envelope, journals>>
    BY <1>15, <1>d, <1>k DEF ReplayTrace
  <2>4. trace' = IF Due.event.id \in Recorded(trace) THEN trace ELSE Appended(trace, Due.event, "whole")
    BY <1>15, <2>2 DEF ReplayTrace
  <2>5. session' = "none" /\ job' = NoJob
    BY <1>15, <2>3 DEF ReplayTrace
  <2> HIDE DEF Goto, Continue, Raise, Call, disk, memory, counters
  <2>6. QED
    BY <1>a, <2>1, <2>3, <2>4, <2>5 DEF Traced, Has
<1>16. CASE ReplayEnvelope
  <2>1. envelope'.ids = envelope.ids \cup {Due.event.id} /\ journals = {Due} /\ pc \in TraceWritten
    BY <1>16, <1>d DEF ReplayEnvelope, Envelope
  <2>2. SUFFICES ASSUME torn = 0
                 PROVE  Traced'
    BY <1>z DEF Traced
  <2>3. \E i \in DOMAIN trace : trace[i].id = Due.event.id
    BY <1>c, <2>1, <2>2 DEF Traced, Has
  <2>4. \A id \in envelope'.ids : \E i \in DOMAIN trace : trace[i].id = id
    BY <1>c, <2>1, <2>2, <2>3 DEF Traced
  <2>5. \A i \in DOMAIN trace : \/ trace[i].id \in CreationIds \cup envelope'.ids
                                \/ \E j \in journals : trace[i].id = j.event.id
    BY <1>c, <2>1, <2>2 DEF Traced
  <2>6. UNCHANGED <<trace, torn, journals, session, seq, job>> /\ pc' \notin TraceWritten \cup Loading \cup {"commit_journal"}
    BY <1>16 DEF ReplayEnvelope
  <2> HIDE DEF Goto, Continue, Raise, Call, disk, memory, counters
  <2>7. QED
    BY <1>c, <2>2, <2>4, <2>5, <2>6 DEF Traced, Has, Above
<1>17. CASE ReplayRemove
  <2>1. journals' = {} /\ Due.event.id \in envelope.ids /\ journals = {Due}
    BY <1>17, <1>d DEF ReplayRemove, IInv, Journaled, Reached
  <2>2. pc' \notin Loading \cup {"commit_journal"} \/ job = NoJob
    BY <1>17, <1>k DEF ReplayRemove
  <2>3. SUFFICES ASSUME torn = 0
                 PROVE  Traced'
    BY <1>z DEF Traced
  <2>4. \A i \in DOMAIN trace : trace[i].id \in CreationIds \cup envelope.ids
    BY <1>c, <2>1, <2>3 DEF Traced
  <2>5. UNCHANGED <<trace, torn, envelope, session, seq, job>>
    BY <1>17 DEF ReplayRemove
  <2>6. pc' \notin Loading \cup {"commit_journal"} \/ job' = NoJob
    BY <2>2, <2>5
  <2> HIDE DEF Goto, Continue, Raise, Call, disk, memory, counters
  <2>7. QED
    BY <1>c, <2>1, <2>3, <2>4, <2>5, <2>6 DEF Traced, Above
<1>18. CASE Read
  <2>1. CASE Loadable
    <3>1. SUFFICES ASSUME torn' = 0, torn = 0, Clean(trace), trace \in Seq(Lines)
                   PROVE  Traced'
      BY <1>z DEF Traced
    <3>2. UNCHANGED <<disk, job>> /\ journals = {} /\ pc' \in {"idle", "commit_journal", "report_file"}
          /\ ((session' = session /\ seq' = seq) \/ seq' = LastSeq(trace))
      BY <1>18, <1>k, <2>1 DEF Read
    <3>3. Above(LastSeq(trace) + 1)
      <4>1. UpTo(trace, events) /\ events \in Nat
        BY DEF IInv, Types, Numbered
      <4>2. \A i \in DOMAIN trace : Readable(trace[i])
        BY <3>1 DEF Clean, Readable
      <4>3. LastSeq(trace) \in Nat /\ \A i \in DOMAIN trace : trace[i].seq <= LastSeq(trace)
        BY <3>1, <4>1, <4>2, LastSeqIsGreatest
      <4>4. QED
        BY <1>l, <4>3 DEF Above
    <3>4. session' # "none" => Above(seq' + 1)
      BY <1>c, <3>1, <3>2, <3>3 DEF Traced
    <3>5. pc' = "commit_journal" /\ job # NoJob /\ job.id \notin envelope.ids => Above(job.seq)
      BY <1>18, <1>c, <3>1 DEF Traced, Read
    <3>6. QED
      BY <1>c, <3>1, <3>2, <3>4, <3>5 DEF Traced, Above
  <2>2. CASE ~Loadable
    BY <1>18, <1>c, <1>z, <1>k, <2>2 DEF Read, Traced, Has, Above
  <2>3. QED
    BY <2>1, <2>2
<1>19. CASE CommitJournal
  <2>1. SUFFICES ASSUME torn' = 0, torn = 0
                 PROVE  Traced'
    BY <1>z DEF Traced
  <2>2. PICK arts : journals' = {JournalRecord(base.rev + 1, arts)}
    BY <1>19, <1>k DEF CommitJournal
  <2> DEFINE j == JournalRecord(base.rev + 1, arts)
  <2>3. j.event.id = job.id /\ j.event.seq = job.seq
    BY DEF JournalRecord
  <2>4. job # NoJob /\ job.id \notin envelope.ids /\ job.id \notin CreationIds /\ journals = {}
    BY <1>19, <1>k, BoundsAssumption DEF IInv, Called, Based, Numbered, Types, Transitions, CreationIds,
       CommitJournal
  <2>5. Above(job.seq)
    BY <1>19, <1>c, <2>1, <2>4 DEF Traced, CommitJournal
  <2>6. \A i \in DOMAIN trace : trace[i].id \in CreationIds \cup envelope.ids /\ trace[i].id # job.id
    BY <1>c, <2>1, <2>4 DEF Traced
  <2>7. UNCHANGED <<trace, envelope, session, seq, job>> /\ pc' = "commit_trace" /\ journals' = {j}
    BY <1>19, <2>2 DEF CommitJournal
  <2> HIDE DEF j, Goto, Continue, Raise, Call, disk, memory, counters
  <2>8. QED
    BY <1>c, <2>1, <2>3, <2>5, <2>6, <2>7 DEF Traced, Has, Above
<1>20. CASE CommitTrace
  <2>1. SUFFICES ASSUME torn' = 0, torn = 0, Clean(trace), trace \in Seq(Lines)
                 PROVE  Traced'
    BY <1>z DEF Traced
  <2>2. ~Corrupt(trace)
    BY <2>1, CleanTrace
  <2>3. journals # {} /\ job.id = Due.event.id /\ job.seq = Due.event.seq /\ session = "writer" /\ job.seq <= seq
    BY <1>20, <1>d DEF IInv, Called, Journaled, Numbered, CommitTrace
  <2>4. /\ trace' = IF job.id \in Recorded(trace) THEN trace ELSE Appended(trace, job, "whole")
        /\ UNCHANGED <<envelope, journals, session, seq, job>> /\ pc' = "commit_tasks"
    BY <1>20, <2>2 DEF CommitTrace
  <2>5. job.seq < seq + 1 /\ seq + 1 \in Nat /\ Above(seq + 1)
    BY <1>c, <1>t, <2>1, <2>3 DEF Traced
  <2> HIDE DEF Goto, Continue, Raise, Call, disk, memory, counters
  <2>6. \A i \in DOMAIN trace' : trace'[i].seq < seq + 1
    BY <1>a, <2>1, <2>3, <2>4, <2>5
  <2>7. QED
    BY <1>a, <2>1, <2>3, <2>4, <2>6 DEF Traced, Has, Above
<1>21. CASE CommitTasks
  BY <1>21, <1>d, <1>c, <1>z, <1>k DEF CommitTasks, Traced, Has, Above
<1>22. CASE CommitArtifacts
  BY <1>22, <1>d, <1>c, <1>z, <1>k DEF CommitArtifacts, Traced, Has, Above
<1>23. CASE CommitReport
  BY <1>23, <1>d, <1>c, <1>z, <1>k DEF CommitReport, Traced, Has, Above
<1>24. CASE CommitEnvelope
  <2>1. envelope'.ids = envelope.ids \cup {Due.event.id} /\ journals = {Due} /\ pc \in TraceWritten
    BY <1>24, <1>d DEF CommitEnvelope, Envelope, IInv, Based, Journaled
  <2>2. SUFFICES ASSUME torn = 0
                 PROVE  Traced'
    BY <1>z DEF Traced
  <2>3. \E i \in DOMAIN trace : trace[i].id = Due.event.id
    BY <1>c, <2>1, <2>2 DEF Traced, Has
  <2>4. \A id \in envelope'.ids : \E i \in DOMAIN trace : trace[i].id = id
    BY <1>c, <2>1, <2>2, <2>3 DEF Traced
  <2>5. \A i \in DOMAIN trace : \/ trace[i].id \in CreationIds \cup envelope'.ids
                                \/ \E j \in journals : trace[i].id = j.event.id
    BY <1>c, <2>1, <2>2 DEF Traced
  <2>6. UNCHANGED <<trace, torn, journals, session, seq, job>> /\ pc' \notin TraceWritten \cup Loading \cup {"commit_journal"}
    BY <1>24 DEF CommitEnvelope
  <2> HIDE DEF Goto, Continue, Raise, Call, disk, memory, counters
  <2>7. QED
    BY <1>c, <2>2, <2>4, <2>5, <2>6 DEF Traced, Has, Above
<1>25. CASE CommitRemove
  <2>1. journals' = {} /\ Due.event.id \in envelope.ids /\ journals = {Due}
    BY <1>25, <1>d DEF CommitRemove, IInv, Journaled, Reached
  <2>2. pc' \notin Loading \cup {"commit_journal"} \/ job = NoJob
    BY <1>25, <1>k DEF CommitRemove
  <2>3. SUFFICES ASSUME torn = 0
                 PROVE  Traced'
    BY <1>z DEF Traced
  <2>4. \A i \in DOMAIN trace : trace[i].id \in CreationIds \cup envelope.ids
    BY <1>c, <2>1, <2>3 DEF Traced
  <2>5. UNCHANGED <<trace, torn, envelope, session, seq, job>>
    BY <1>25 DEF CommitRemove
  <2>6. pc' \notin Loading \cup {"commit_journal"} \/ job' = NoJob
    BY <2>2, <2>5
  <2> HIDE DEF Goto, Continue, Raise, Call, disk, memory, counters
  <2>7. QED
    BY <1>c, <2>1, <2>3, <2>4, <2>5, <2>6 DEF Traced, Above
<1>26. CASE ReportFile
  BY <1>26, <1>c, <1>z, <1>k DEF ReportFile, Traced, Has, Above
<1>27. CASE ReportEnvelope
  <2>1. envelope'.ids = envelope.ids
    BY <1>27 DEF ReportEnvelope, Envelope, IInv, Based
  <2>2. QED
    BY <1>27, <1>c, <1>z, <1>k, <2>1 DEF ReportEnvelope, Traced, Has, Above
<1>28. CASE Interrupt
  BY <1>28, <1>c, <1>z, <1>k DEF Interrupt, Traced, Has, Above
<1>29. CASE TearAppend
  BY <1>29, <1>d, <1>c, <1>z, <1>k DEF TearAppend, Traced, Has, Above
<1>30. CASE UNCHANGED vars
  BY <1>30, <1>c, <1>z, <1>k DEF vars, Traced, Has, Above
<1>31. QED
  BY <1>1, <1>2, <1>3, <1>4, <1>5, <1>6, <1>7, <1>8, <1>9, <1>10, <1>11, <1>12, <1>13, <1>14, <1>15, <1>16,
     <1>17, <1>18, <1>19, <1>20, <1>21, <1>22, <1>23, <1>24, <1>25, <1>26, <1>27, <1>28, <1>29, <1>30 DEF Next

-----------------------------------------------------------------------------
(* The invariant holds, and what follows from it *)

\* The invariant holds before create_run.
LEMMA InitInvariant ==
    ASSUME Init
    PROVE  IInv
<1> USE DEF Init
<1>1. Types
  BY BoundsAssumption, Shapes, EmptySeq DEF Types, Steps, Files, Envelopes
<1>2. Numbered
  BY BoundsAssumption DEF Numbered, UpTo, NoEnvelope
<1>3. Created /\ Called /\ Based
  BY DEF Created, Called, Based, Opening, Loading, Replaying, Committing, Reporting
<1>4. Journaled /\ Written
  BY DEF Journaled, Written, TasksWritten, ArtifactsWritten, ReportWritten
<1>5. Traced
  BY DEF Traced, Clean, Above, Has, NoEnvelope
<1>6. QED
  BY <1>1, <1>2, <1>3, <1>4, <1>5 DEF IInv

\* The journal names every transition in doubt, the files are as far written as
\* the call has come, the trace keeps step: in every state.
THEOREM StoreInvariant == Spec => []IInv
<1>1. Init => IInv
  BY InitInvariant
<1>2. IInv /\ [Next]_vars => IInv'
  <2>1. ASSUME IInv, [Next]_vars PROVE IInv'
    <3>1. Types' /\ Numbered' /\ Created' /\ Called'
      BY <2>1, TypesStep, NumberedStep, CreatedStep, CalledStep
    <3>2. Based' /\ Journaled' /\ Written' /\ Traced'
      BY <2>1, BasedStep, JournaledStep, WrittenStep, TracedStep
    <3>3. QED
      BY <3>1, <3>2 DEF IInv
  <2>2. QED
    BY <2>1
<1>3. QED
  BY <1>1, <1>2, PTL DEF Spec

\* Every variable keeps the type the module states for it.
THEOREM TypeCorrect == Spec => []TypeOK
<1>1. IInv => TypeOK
  <2>1. SUFFICES ASSUME IInv PROVE TypeOK
    OBVIOUS
  <2>2. Types /\ Numbered /\ CreationEvents \in Nat
    BY <2>1, BoundsAssumption DEF IInv
  <2>3. {tasks, artifacts, report} \subseteq [rev : Int, content : Int]
    BY <2>2 DEF Types, Files, NoFile, Absent
  <2>4. envelope \in [rev : Int, image : Int, ids : SUBSET Nat]
    BY <2>2 DEF Types, Envelopes, NoEnvelope, Absent
  <2>5. \A j \in journals : j.event \in [id : Nat, seq : Nat] /\ j.base \in Nat /\ j.target = j.base + 1
    BY <2>2, Shapes DEF Types, Numbered, Events
  <2>6. acked \subseteq 1..events
    <3>1. acked \subseteq envelope.ids \cup {j.event.id : j \in journals}
      BY <2>1 DEF IInv, Journaled
    <3>2. Transitions \subseteq 1..events
      BY <2>2 DEF Transitions, Types
    <3>3. QED
      BY <2>2, <3>1, <3>2 DEF Numbered
  <2>7. QED
    BY <2>2, <2>3, <2>4, <2>5, <2>6 DEF TypeOK, Types, Jobs, Lines, Kinds
<1>2. QED
  BY <1>1, StoreInvariant, PTL

\* Once recovery is through, the snapshot files and the envelope are of one
\* transition, wherever a commit, a recovery or a save_report was cut short.
THEOREM SnapshotIsAtomic == Spec => []SnapshotAtomic
<1>1. IInv => SnapshotAtomic
  <2>1. SUFFICES ASSUME IInv, pc = "read", envelope # NoEnvelope
                 PROVE  SameRevision /\ tasks.content = envelope.image /\ envelope.rev = Cardinality(envelope.ids)
    BY DEF SnapshotAtomic
  <2>2. journals = {}
    BY <2>1 DEF IInv, Called
  <2>3. Settled /\ tasks # NoFile /\ envelope.rev = Cardinality(envelope.ids)
    BY <2>1, <2>2 DEF IInv, Written
  <2>4. QED
    BY <2>3 DEF Settled, SameRevision, File
<1>2. QED
  BY <1>1, StoreInvariant, PTL

\* A commit that returned stays committed, and at most one transition is ever in
\* doubt, whose journal starts from the committed revision or has reached it.
THEOREM CommitsAreKept == Spec => []CommitsSurvive
<1>1. IInv => CommitsSurvive
  <2>1. SUFFICES ASSUME IInv PROVE CommitsSurvive
    OBVIOUS
  <2>2. Journaled /\ (journals # {} => envelope # NoEnvelope)
    BY <2>1 DEF IInv, Created
  <2>3. QED
    BY <2>2 DEF Journaled, Begun, Reached, CommitsSurvive
<1>2. QED
  BY <1>1, StoreInvariant, PTL

\* As long as no append stopped half-way, a recovered trace has exactly the
\* events of the committed transitions, in order, each once.
THEOREM TraceKeepsStep == Spec => []TraceMatchesCommits
<1>1. IInv => TraceMatchesCommits
  <2>1. SUFFICES ASSUME IInv, pc = "read", envelope # NoEnvelope, torn = 0
                 PROVE  /\ ~Corrupt(trace) /\ Ordered(trace)
                        /\ Recorded(trace) \ CreationIds = envelope.ids
                        /\ Cardinality(Recorded(trace)) = Len(trace)
    BY DEF TraceMatchesCommits
  <2>2. journals = {} /\ Traced /\ Clean(trace) /\ trace \in Seq(Lines) /\ Numbered
    BY <2>1 DEF IInv, Called, Traced, Types
  <2>3. ~Corrupt(trace) /\ Ordered(trace) /\ Recorded(trace) = {trace[i].id : i \in DOMAIN trace}
    BY <2>2, CleanTrace
  <2>4. Recorded(trace) \ CreationIds = envelope.ids
    <3>1. \A i \in DOMAIN trace : trace[i].id \in CreationIds \cup envelope.ids
      BY <2>1, <2>2 DEF Traced
    <3>2. \A id \in envelope.ids : \E i \in DOMAIN trace : trace[i].id = id
      BY <2>1, <2>2 DEF Traced
    <3>3. \A id \in envelope.ids : id \notin CreationIds
      BY <2>2, BoundsAssumption DEF Numbered, Transitions, CreationIds
    <3>4. QED
      BY <2>3, <3>1, <3>2, <3>3
  <2>5. Cardinality(Recorded(trace)) = Len(trace)
    <3> DEFINE f == [i \in 1..Len(trace) |-> trace[i].id]
    <3>1. DOMAIN trace = 1..Len(trace) /\ Len(trace) \in Nat
      BY <2>2, LenProperties
    <3>2. \A i, k \in 1..Len(trace) : trace[i].id = trace[k].id => i = k
      BY <2>2, <3>1 DEF Clean
    <3>3. f \in Bijection(1..Len(trace), Recorded(trace))
      BY <2>3, <3>1, <3>2 DEF Bijection, Injection, Surjection, IsInjective
    <3>4. ExistsBijection(1..Len(trace), Recorded(trace))
      BY <3>3 DEF ExistsBijection
    <3>5. IsFiniteSet(1..Len(trace)) /\ Cardinality(1..Len(trace)) = Len(trace)
      <4>1. 1 \in Int /\ Len(trace) \in Int
        BY <3>1
      <4>2. IsFiniteSet(1..Len(trace)) /\ Cardinality(1..Len(trace)) = IF 1 > Len(trace) THEN 0 ELSE Len(trace) - 1 + 1
        BY <4>1, FS_Interval
      <4>3. QED
        BY <3>1, <4>2
    <3>6. QED
      BY <3>4, <3>5, FS_Bijection
  <2>6. QED
    BY <2>3, <2>4, <2>5
<1>2. QED
  BY <1>1, StoreInvariant, PTL

-----------------------------------------------------------------------------
(* The files implement the store that is promised *)

(* The abstract snapshot, as the refinement mapping of the module reads it off
   the files. *)
Revision == IF ~Exists THEN 0 ELSE IF Pending THEN Due.target ELSE envelope.rev
Committed == IF Pending THEN envelope.ids \cup {Due.event.id} ELSE envelope.ids
Image == IF ~Exists THEN 0 ELSE IF Pending THEN Due.event.id ELSE envelope.image
Artifacts == IF ~Exists THEN 0 ELSE IF Pending THEN Due.artifacts ELSE artifacts.content
Report == IF ~Exists THEN Absent ELSE IF Pending THEN Due.report ELSE report.content
Noted == {[id |-> trace[i].id, seq |-> trace[i].seq] :
             i \in {k \in DOMAIN trace : trace[k].id > CreationEvents}} \cup {j.event : j \in journals}

\* What the mapping shows: nothing, the transition in doubt, or the files.
Shown ==
    /\ ~Exists => /\ journals = {} /\ Committed = {}
                  /\ Revision = 0 /\ Image = 0 /\ Artifacts = 0 /\ Report = Absent
    /\ \A j \in journals :
          Begun(j) => /\ Revision = j.target /\ Committed = envelope.ids \cup {j.event.id}
                      /\ Image = j.event.id /\ Artifacts = j.artifacts /\ Report = j.report
    /\ Exists /\ (\A j \in journals : Reached(j)) =>
          /\ Revision = envelope.rev /\ Committed = envelope.ids
          /\ Image = envelope.image /\ Artifacts = artifacts.content /\ Report = report.content

\* The mapping shows the transition in doubt as committed, and otherwise the files.
LEMMA ShownHolds == IInv => Shown
<1>1. SUFFICES ASSUME IInv PROVE Shown
  OBVIOUS
<1>2. /\ journals # {} => Due \in journals /\ journals = {Due} /\ Exists /\ envelope.rev \in Nat
                          /\ Due.base \in Nat /\ Due.target = Due.base + 1
      /\ ~Exists => envelope.ids = {} /\ journals = {}
  BY <1>1, DueFacts, Shapes DEF IInv, Created, Exists, Types, Numbered, NoEnvelope
<1>3. CASE journals = {}
  <2>1. ~Pending
    BY <1>3 DEF Pending
  <2> HIDE DEF Exists
  <2>2. QED
    BY <1>2, <1>3, <2>1 DEF Shown, Revision, Committed, Image, Artifacts, Report
<1>4. CASE journals # {} /\ Begun(Due)
  <2>1. Pending /\ ~Reached(Due)
    BY <1>2, <1>4 DEF Pending, Begun, Reached
  <2>2. QED
    BY <1>2, <1>4, <2>1 DEF Shown, Revision, Committed, Image, Artifacts, Report
<1>5. CASE journals # {} /\ Reached(Due)
  <2>1. ~Pending /\ ~Begun(Due)
    BY <1>2, <1>5 DEF Pending, Begun, Reached
  <2>2. QED
    BY <1>2, <1>5, <2>1 DEF Shown, Revision, Committed, Image, Artifacts, Report
<1>6. QED
  BY <1>1, <1>2, <1>3, <1>4, <1>5 DEF IInv, Journaled

\* Every step but the end of create_run, the journal of a commit and the report
\* of a save_report leaves the snapshot shown as it is.
LEMMA SnapshotStep ==
    ASSUME IInv, IInv', Next, ~CreateEnvelope, ~CommitJournal, ~ReportFile
    PROVE  UNCHANGED <<Revision, Committed, Image, Artifacts, Report>> /\ Exists' = Exists
<1> USE DEF Goto, Continue, Raise, Call, disk, memory, counters
<1>v. Shown /\ Shown'
  BY ShownHolds, PTL
<1>d. /\ journals # {} => /\ Due \in journals /\ journals = {Due} /\ journals \ {Due} = {} /\ Exists
                          /\ Begun(Due) \/ Reached(Due)
      /\ pc \in Committing \cup Replaying => journals # {} /\ Begun(Due)
      /\ pc \in {"commit_remove", "replay_remove"} => journals # {} /\ Reached(Due)
  BY DueFacts DEF IInv, Journaled, Created, Exists
<1>q. ASSUME UNCHANGED <<journals, envelope>>,
             UNCHANGED <<artifacts, report>> \/ ~Exists \/ pc \in Committing \cup Replaying
      PROVE  UNCHANGED <<Revision, Committed, Image, Artifacts, Report>> /\ Exists' = Exists
  <2>1. Exists' = Exists
    BY <1>q DEF Exists
  <2>2. CASE ~Exists
    BY <1>v, <2>1, <2>2 DEF Shown
  <2>3. CASE Exists /\ journals # {} /\ Begun(Due)
    <3>1. PICK j \in journals : j = Due /\ Begun(j) /\ j \in journals'
      BY <1>d, <1>q, <2>3
    <3>2. j.base = envelope'.rev /\ j.event.id \notin envelope'.ids
      BY <1>q, <3>1 DEF Begun
    <3>3. /\ Revision = j.target /\ Committed = envelope.ids \cup {j.event.id}
          /\ Image = j.event.id /\ Artifacts = j.artifacts /\ Report = j.report
      BY <1>v, <3>1 DEF Shown
    <3>4. /\ Revision' = j.target /\ Committed' = envelope.ids \cup {j.event.id}
          /\ Image' = j.event.id /\ Artifacts' = j.artifacts /\ Report' = j.report
      BY <1>v, <1>q, <3>1, <3>2 DEF Shown, Begun
    <3>5. QED
      BY <2>1, <3>3, <3>4
  <2>4. CASE Exists /\ ~(journals # {} /\ Begun(Due))
    <3>1. (\A j \in journals : Reached(j)) /\ UNCHANGED <<artifacts, report>>
      BY <1>d, <1>q, <2>4
    <3>2. \A j \in journals' : j.target = envelope'.rev /\ j.event.id \in envelope'.ids
      BY <1>q, <3>1 DEF Reached
    <3>3. /\ Revision = envelope.rev /\ Committed = envelope.ids
          /\ Image = envelope.image /\ Artifacts = artifacts.content /\ Report = report.content
      BY <1>v, <2>4, <3>1 DEF Shown
    <3>4. /\ Revision' = envelope'.rev /\ Committed' = envelope'.ids
          /\ Image' = envelope'.image /\ Artifacts' = artifacts'.content /\ Report' = report'.content
      BY <1>v, <2>1, <2>4, <3>2 DEF Shown, Reached
    <3>5. QED
      BY <1>q, <2>1, <3>1, <3>3, <3>4
  <2>5. QED
    BY <2>2, <2>3, <2>4
<1>w. ASSUME journals = {Due}, Begun(Due), Exists, journals' = journals,
             envelope' = Envelope(Due.target, Due.event.id, envelope.ids \cup {Due.event.id}),
             UNCHANGED <<artifacts, report>>, artifacts = File(Due.target, Due.artifacts), report = Reports(Due)
      PROVE  UNCHANGED <<Revision, Committed, Image, Artifacts, Report>> /\ Exists' = Exists
  <2>1. PICK j \in journals : j = Due /\ Begun(j) /\ journals' = {j}
    BY <1>w
  <2>2. /\ envelope'.rev = j.target /\ envelope'.image = j.event.id
        /\ envelope'.ids = envelope.ids \cup {j.event.id}
        /\ artifacts'.content = j.artifacts /\ report'.content = j.report
    BY <1>w, <2>1 DEF Envelope, File, Reports, NoFile
  <2>3. Exists'
    <3>1. journals' # {}
      BY <2>1
    <3>2. QED
      BY <3>1 DEF IInv, Created, Exists
  <2>4. \A k \in journals' : k.target = envelope'.rev /\ k.event.id \in envelope'.ids
    BY <2>1, <2>2
  <2>5. /\ Revision = j.target /\ Committed = envelope.ids \cup {j.event.id}
        /\ Image = j.event.id /\ Artifacts = j.artifacts /\ Report = j.report
    BY <1>v, <2>1 DEF Shown
  <2>6. /\ Revision' = envelope'.rev /\ Committed' = envelope'.ids
        /\ Image' = envelope'.image /\ Artifacts' = artifacts'.content /\ Report' = report'.content
    BY <1>v, <2>3, <2>4 DEF Shown, Reached
  <2>7. QED
    BY <1>w, <2>2, <2>3, <2>5, <2>6
<1>x. ASSUME journals = {Due}, Reached(Due), Exists, journals' = {}, UNCHANGED <<envelope, artifacts, report>>
      PROVE  UNCHANGED <<Revision, Committed, Image, Artifacts, Report>> /\ Exists' = Exists
  <2>1. Exists'
    BY <1>x DEF Exists
  <2>2. /\ Revision = envelope.rev /\ Committed = envelope.ids
        /\ Image = envelope.image /\ Artifacts = artifacts.content /\ Report = report.content
    BY <1>v, <1>x DEF Shown
  <2>3. /\ Revision' = envelope'.rev /\ Committed' = envelope'.ids
        /\ Image' = envelope'.image /\ Artifacts' = artifacts'.content /\ Report' = report'.content
    BY <1>v, <1>x, <2>1 DEF Shown
  <2>4. QED
    BY <1>x, <2>1, <2>2, <2>3
<1>1. CASE CreateTasks \/ CreateArtifacts
  BY <1>1, <1>q DEF CreateTasks, CreateArtifacts, IInv, Created, Opening, Exists
<1>2. CASE CreateRun \/ CreateTrace \/ AcquireWriter \/ ReleaseWriter \/ LoadSnapshot
  BY <1>2, <1>q DEF CreateRun, CreateTrace, AcquireWriter, ReleaseWriter, LoadSnapshot
<1>3. CASE CommitTransition \/ SaveReport \/ Load \/ Read \/ Interrupt \/ TearAppend
  BY <1>3, <1>q DEF CommitTransition, SaveReport, Load, Read, Interrupt, TearAppend
<1>4. CASE ReplayTasks \/ ReplayArtifacts \/ ReplayReport \/ ReplayTrace
  BY <1>4, <1>q DEF ReplayTasks, ReplayArtifacts, ReplayReport, ReplayTrace, Replaying
<1>5. CASE CommitTrace \/ CommitTasks \/ CommitArtifacts \/ CommitReport
  BY <1>5, <1>q DEF CommitTrace, CommitTasks, CommitArtifacts, CommitReport, Committing
<1>6. CASE ReplayEnvelope
  <2>1. journals = {Due} /\ Begun(Due) /\ Exists
    BY <1>6, <1>d DEF ReplayEnvelope, Replaying
  <2>2. artifacts = File(Due.target, Due.artifacts) /\ report = Reports(Due)
    BY <1>6, <1>d DEF ReplayEnvelope, IInv, Written, ArtifactsWritten, ReportWritten, Replaying
  <2>3. QED
    BY <1>6, <1>w, <2>1, <2>2 DEF ReplayEnvelope
<1>7. CASE CommitEnvelope
  <2>1. journals = {Due} /\ Begun(Due) /\ Exists
    BY <1>7, <1>d DEF CommitEnvelope, Committing
  <2>2. artifacts = File(Due.target, Due.artifacts) /\ report = Reports(Due)
    BY <1>7, <1>d DEF CommitEnvelope, IInv, Written, ArtifactsWritten, ReportWritten, Committing
  <2>3. job.id = Due.event.id /\ base.ids = envelope.ids
    BY <1>7, <1>d DEF CommitEnvelope, IInv, Journaled, Based, Committing
  <2>4. QED
    BY <1>7, <1>w, <2>1, <2>2, <2>3 DEF CommitEnvelope
<1>8. CASE ReplayRemove \/ CommitRemove
  BY <1>8, <1>d, <1>x DEF ReplayRemove, CommitRemove
<1>9. CASE ReportEnvelope
  <2>1. envelope \in Envelopes /\ envelope # NoEnvelope
    BY <1>9 DEF ReportEnvelope, IInv, Types, Created, Opening, Loading
  <2>2. envelope = Envelope(envelope.rev, envelope.image, envelope.ids)
    BY <2>1 DEF Envelopes, Envelope
  <2>3. envelope' = envelope
    BY <1>9, <2>2 DEF ReportEnvelope, IInv, Based, Reporting
  <2>4. QED
    BY <1>9, <1>q, <2>3 DEF ReportEnvelope
<1>10. QED
  BY <1>1, <1>2, <1>3, <1>4, <1>5, <1>6, <1>7, <1>8, <1>9 DEF Next

\* The events of lines that are not create_run's.
LinesNoted == {[id |-> trace[i].id, seq |-> trace[i].seq] :
                  i \in {k \in DOMAIN trace : trace[k].id > CreationEvents}}

\* As long as no append is cut short, only the journal of a commit notes an event.
LEMMA NotedStep ==
    ASSUME IInv, Next, ~CommitJournal, torn = 0, torn' = 0
    PROVE  Noted' = Noted
<1> USE DEF Goto, Continue, Raise, Call, disk, memory, counters
<1>t. trace \in Seq(Lines) /\ Clean(trace) /\ ~Corrupt(trace) /\ CreationEvents \in Nat
      /\ Recorded(trace) = {trace[i].id : i \in DOMAIN trace}
  BY CleanTrace, BoundsAssumption DEF IInv, Types, Traced
<1>d. /\ journals # {} => /\ Due \in journals /\ journals = {Due} /\ journals \ {Due} = {}
                          /\ Due.event = [id |-> Due.event.id, seq |-> Due.event.seq]
                          /\ Due.event.id \in Nat /\ Due.event.seq \in Nat /\ Due.event.id > CreationEvents
      /\ pc \in Committing \cup Replaying \cup {"commit_remove", "replay_remove"} => journals # {}
  <2>1. \A e \in Events : e = [id |-> e.id, seq |-> e.seq]
    BY DEF Events
  <2>2. journals # {} => Due \in journals /\ journals = {Due} /\ journals \ {Due} = {} /\ Due.event \in Events
    BY DueFacts, Shapes
  <2>3. journals # {} => Due.event.id \in Transitions /\ Due.event.id \in Nat /\ Due.event.seq \in Nat
    BY <2>2, DueFacts, Shapes DEF IInv, Numbered
  <2>4. QED
    BY <2>1, <2>2, <2>3, <1>t, DueFacts DEF Transitions, IInv, Types
<1>e. ASSUME UNCHANGED <<trace, journals>> PROVE Noted' = Noted
  BY <1>e DEF Noted
<1>a. ASSUME journals # {}, journals' = journals, NEW e, e.id = Due.event.id, e.seq = Due.event.seq,
             trace' = IF e.id \in Recorded(trace) THEN trace ELSE Appended(trace, e, "whole")
      PROVE  Noted' = Noted
  <2>1. CASE e.id \in Recorded(trace)
    BY <1>a, <1>e, <2>1
  <2>2. CASE e.id \notin Recorded(trace)
    <3>1. \A i \in DOMAIN trace : trace[i].seq < e.seq /\ trace[i].id # e.id
      BY <1>a, <1>d, <1>t, <2>2 DEF IInv, Traced, Has, Above
    <3>2. e.id \in Nat /\ e.seq \in Nat
      BY <1>a, <1>d
    <3>3. /\ \A i \in DOMAIN trace : i \in DOMAIN trace' /\ trace'[i] = trace[i]
          /\ \A i \in DOMAIN trace' : i \in DOMAIN trace \/ (trace'[i].id = e.id /\ trace'[i].seq = e.seq)
      BY <1>a, <1>t, <2>2, <3>1, <3>2, CleanAppended
    <3>4. ASSUME NEW x \in Noted PROVE x \in Noted'
      BY <1>a, <3>3, <3>4 DEF Noted
    <3>5. ASSUME NEW x \in Noted' PROVE x \in Noted
      <4>1. CASE \E j \in journals : x = j.event
        BY <4>1 DEF Noted
      <4>2. CASE \E i \in DOMAIN trace' : trace'[i].id > CreationEvents /\ x = [id |-> trace'[i].id, seq |-> trace'[i].seq]
        <5>1. PICK i \in DOMAIN trace' : /\ trace'[i].id > CreationEvents
                                         /\ x = [id |-> trace'[i].id, seq |-> trace'[i].seq]
          BY <4>2
        <5>2. CASE i \in DOMAIN trace
          BY <3>3, <5>1, <5>2 DEF Noted
        <5>3. CASE i \notin DOMAIN trace
          <6>1. x = Due.event
            BY <1>a, <1>d, <3>3, <5>1, <5>3
          <6>2. QED
            BY <1>a, <1>d, <6>1 DEF Noted
        <5>4. QED
          BY <5>2, <5>3
      <4>3. QED
        BY <1>a, <3>5, <4>1, <4>2 DEF Noted
    <3>6. QED
      BY <3>4, <3>5
  <2>3. QED
    BY <2>1, <2>2
<1>r. ASSUME journals = {Due}, Reached(Due), journals' = {}, trace' = trace
      PROVE  Noted' = Noted
  <2>1. PICK i \in DOMAIN trace : trace[i].id = Due.event.id
    BY <1>r DEF IInv, Traced, Reached
  <2>2. trace[i].seq = Due.event.seq /\ trace[i].id > CreationEvents
    BY <1>r, <1>d, <2>1 DEF IInv, Traced
  <2>3. Due.event = [id |-> trace[i].id, seq |-> trace[i].seq]
    BY <1>r, <1>d, <2>1, <2>2
  <2>4. Due.event \in LinesNoted
    BY <2>2, <2>3 DEF LinesNoted
  <2>5. Noted = LinesNoted \cup {Due.event}
    BY <1>r DEF Noted, LinesNoted
  <2>6. Noted' = LinesNoted
    BY <1>r DEF Noted, LinesNoted
  <2>7. QED
    BY <2>4, <2>5, <2>6
<1>1. CASE CreateRun \/ CreateTasks \/ CreateArtifacts \/ CreateEnvelope \/ AcquireWriter \/ ReleaseWriter
           \/ LoadSnapshot \/ CommitTransition \/ SaveReport \/ Load \/ ReplayTasks \/ ReplayArtifacts
           \/ ReplayReport \/ ReplayEnvelope \/ Read \/ CommitTasks \/ CommitArtifacts \/ CommitReport
           \/ CommitEnvelope \/ ReportFile \/ ReportEnvelope \/ Interrupt
  BY <1>1, <1>e DEF CreateRun, CreateTasks, CreateArtifacts, CreateEnvelope, AcquireWriter, ReleaseWriter,
        LoadSnapshot, CommitTransition, SaveReport, Load, ReplayTasks, ReplayArtifacts, ReplayReport,
        ReplayEnvelope, Read, CommitTasks, CommitArtifacts, CommitReport, CommitEnvelope, ReportFile,
        ReportEnvelope, Interrupt
<1>2. CASE CreateTrace
  <2>1. CASE Len(trace) < CreationEvents
    <3> DEFINE line == Line(CreationEvent(Len(trace) + 1), "whole")
    <3>1. Len(trace) + 1 \in Nat /\ Len(trace) + 1 <= CreationEvents
      BY <1>t, <2>1, LenProperties
    <3>2. line \in Lines /\ line.id = Len(trace) + 1
      BY <3>1 DEF Line, CreationEvent, Lines, Kinds
    <3>3. trace' = Append(trace, line) /\ journals' = journals
      BY <1>2, <2>1 DEF CreateTrace
    <3> HIDE DEF line
    <3>4. /\ \A i \in DOMAIN trace : i \in DOMAIN trace' /\ trace'[i] = trace[i]
          /\ \A i \in DOMAIN trace' : i \in DOMAIN trace \/ trace'[i].id = Len(trace) + 1
      <4>1. /\ DOMAIN trace' = 1..Len(trace) + 1 /\ DOMAIN trace = 1..Len(trace) /\ Len(trace) \in Nat
            /\ \A i \in DOMAIN trace : trace'[i] = trace[i]
            /\ \A i \in DOMAIN trace' : i \in DOMAIN trace \/ i = Len(trace) + 1
            /\ trace'[Len(trace) + 1] = line
        BY <1>t, <3>2, <3>3, GrownTrace
      <4>2. QED
        BY <3>2, <4>1
    <3>5. \A i \in DOMAIN trace' : trace'[i].id > CreationEvents => i \in DOMAIN trace
      BY <1>t, <3>1, <3>4
    <3>6. LinesNoted' = LinesNoted
      BY <3>4, <3>5 DEF LinesNoted
    <3>7. QED
      BY <3>3, <3>6 DEF Noted, LinesNoted
  <2>2. CASE ~(Len(trace) < CreationEvents)
    BY <1>2, <1>e, <2>2 DEF CreateTrace
  <2>3. QED
    BY <2>1, <2>2
<1>3. CASE ReplayTrace
  <2>1. journals # {}
    BY <1>3, <1>d DEF ReplayTrace, Replaying
  <2>2. QED
    BY <1>3, <1>a, <1>t, <2>1 DEF ReplayTrace
<1>4. CASE CommitTrace
  <2>1. journals # {} /\ job.id = Due.event.id /\ job.seq = Due.event.seq
    BY <1>4, <1>d DEF CommitTrace, Committing, IInv, Journaled
  <2>2. QED
    BY <1>4, <1>a, <1>t, <2>1 DEF CommitTrace
<1>5. CASE ReplayRemove \/ CommitRemove
  BY <1>5, <1>d, <1>r DEF ReplayRemove, CommitRemove, IInv, Journaled
<1>6. CASE TearAppend
  BY <1>6 DEF TearAppend, IInv, Types
<1>7. QED
  BY <1>1, <1>2, <1>3, <1>4, <1>5, <1>6 DEF Next

\* A step that changes neither the store nor who writes is a stutter of it.
LEMMA StoreStutter ==
    ASSUME UNCHANGED <<Revision, Committed, Image, Artifacts, Report, Noted>>, Exists' = Exists,
           (session = "writer") <=> (session' = "writer")
    PROVE  UNCHANGED Abstract!vars
<1>1. (session' = "writer") = (session = "writer")
  OBVIOUS
<1>2. QED
  BY <1>1 DEF Abstract!vars, Revision, Committed, Image, Artifacts, Report, Noted

\* What the mapping has to show for a commit.
LEMMA StoreCommit ==
    ASSUME NEW e, NEW arts, session = "writer", session' = session, Exists' = Exists,
           e.id \notin Committed, \A old \in Noted : old.seq < e.seq /\ old.id # e.id,
           Revision' = Revision + 1, Committed' = Committed \cup {e.id}, Image' = e.id,
           Artifacts' = (IF arts = 0 THEN Artifacts ELSE arts), Noted' = Noted \cup {e}, Report' = Report
    PROVE  Abstract!CommitTransition(e, arts)
BY DEF Abstract!CommitTransition, Revision, Committed, Image, Artifacts, Report, Noted

\* Every step of the files is a step of the store that is promised, or a stutter.
LEMMA StoreStep ==
    ASSUME IInv, IInv', [Next]_vars, torn = 0, torn' = 0
    PROVE  [Abstract!Next]_(Abstract!vars)
<1> USE DEF Goto, Continue, Raise, Call, disk, memory, counters
<1>v. Shown /\ Shown'
  BY ShownHolds, PTL
<1>1. CASE CreateEnvelope
  <2>1. ~Exists /\ Exists' /\ session' = session /\ session = "none" /\ artifacts = File(0, 0) /\ report = NoFile
        /\ UNCHANGED <<artifacts, report, journals>> /\ journals = {}
    BY <1>1, Shapes DEF CreateEnvelope, IInv, Created, Opening, Exists
  <2>2. Revision = 0 /\ Committed = {} /\ Image = 0 /\ Artifacts = 0 /\ Report = Absent
    BY <1>v, <2>1 DEF Shown
  <2>3. envelope'.rev = 0 /\ envelope'.ids = {} /\ envelope'.image = 0 /\ artifacts'.content = 0
        /\ report'.content = Absent
    BY <1>1, <2>1 DEF CreateEnvelope, Envelope, File, NoFile
  <2>4. Revision' = 0 /\ Committed' = {} /\ Image' = 0 /\ Artifacts' = 0 /\ Report' = Absent
    BY <1>v, <2>1, <2>3 DEF Shown
  <2>5. Noted' = Noted
    BY <1>1, NotedStep DEF Next, CreateEnvelope, CommitJournal
  <2>6. Abstract!CreateRun
    BY <2>1, <2>2, <2>4, <2>5 DEF Abstract!CreateRun, Abstract!snapshot,
       Revision, Committed, Image, Artifacts, Report, Noted
  <2>7. QED
    BY <2>6 DEF Abstract!Next
<1>2. CASE CommitJournal
  <2>a. PICK e, arts : e = [id |-> job.id, seq |-> job.seq] /\ arts = job.arts
    OBVIOUS
  <2> DEFINE j == JournalRecord(base.rev + 1, IF arts = 0 THEN base.artifacts ELSE arts)
  <2>1. /\ session = "writer" /\ journals = {} /\ job # NoJob /\ job.id \notin envelope.ids
        /\ base.rev = envelope.rev /\ base.artifacts = artifacts.content /\ base.report = report.content
        /\ Exists
    BY <1>2 DEF CommitJournal, IInv, Called, Based, Created, Opening, Loading, Committing, Exists
  <2>2. /\ journals' = {j} /\ UNCHANGED <<claimed, tasks, artifacts, report, envelope, trace, session>>
    BY <1>2, <2>a, <2>1 DEF CommitJournal
  <2>3. /\ j.event = e /\ j.event.id = job.id /\ j.base = base.rev /\ j.target = base.rev + 1
        /\ j.artifacts = (IF arts = 0 THEN base.artifacts ELSE arts) /\ j.report = base.report /\ e.id = job.id /\ e.seq = job.seq
    BY <2>a DEF JournalRecord
  <2>4. /\ Revision = envelope.rev /\ Committed = envelope.ids
        /\ Image = envelope.image /\ Artifacts = artifacts.content /\ Report = report.content
    BY <1>v, <2>1 DEF Shown
  <2> HIDE DEF j
  <2>5. /\ Revision' = Revision + 1 /\ Committed' = Committed \cup {e.id} /\ Image' = e.id
        /\ Artifacts' = (IF arts = 0 THEN Artifacts ELSE arts) /\ Report' = Report
    BY <1>v, <2>1, <2>2, <2>3, <2>4 DEF Shown, Begun
  <2>6. Noted' = Noted \cup {e}
    BY <2>1, <2>2, <2>3 DEF Noted
  <2>7. /\ e \in [id : CreationEvents + 1 .. MaxEvents, seq : 0..MaxEvents]
        /\ arts \in CreationEvents + 1 .. MaxEvents \cup {0}
    <3>1. job.id \in Transitions /\ job.id <= MaxEvents /\ job.seq <= job.id /\ job.arts \in {0, job.id}
          /\ job.id \in Nat /\ job.seq \in Nat /\ MaxEvents \in Nat /\ CreationEvents \in Nat
      BY <2>1, Shapes, BoundsAssumption DEF IInv, Numbered, Types
    <3>2. job.id \in CreationEvents + 1 .. MaxEvents /\ job.seq \in 0..MaxEvents
      BY <3>1 DEF Transitions
    <3>3. QED
      BY <2>a, <3>1, <3>2
  <2>8. \A old \in Noted : old.seq < e.seq /\ old.id # e.id
    <3>1. Above(job.seq)
      BY <1>2, <2>1 DEF IInv, Traced, CommitJournal
    <3>2. \A i \in DOMAIN trace : trace[i].id > CreationEvents => trace[i].id # job.id
      <4>1. ASSUME NEW i \in DOMAIN trace, trace[i].id > CreationEvents PROVE trace[i].id \in envelope.ids
        <5>1. trace[i].id \in CreationIds \cup envelope.ids
          BY <2>1 DEF IInv, Traced
        <5>2. trace[i].id \notin CreationIds
          BY <4>1, LineTypes, BoundsAssumption DEF CreationIds, IInv, Types
        <5>3. QED
          BY <5>1, <5>2
      <4>2. QED
        BY <2>1, <4>1
    <3>3. ASSUME NEW old \in Noted PROVE old.seq < e.seq /\ old.id # e.id
      <4>1. PICK i \in DOMAIN trace : trace[i].id > CreationEvents /\ old = [id |-> trace[i].id, seq |-> trace[i].seq]
        BY <2>1 DEF Noted
      <4>2. QED
        BY <2>3, <3>1, <3>2, <4>1 DEF Above
    <3>4. QED
      BY <3>3
  <2>9. Abstract!CommitTransition(e, arts)
    <3>1. Exists' = Exists /\ e.id \notin Committed
      BY <2>1, <2>2, <2>3, <2>4 DEF Exists
    <3>2. QED
      BY <2>1, <2>2, <2>5, <2>6, <2>8, <3>1, StoreCommit
  <2>10. QED
    BY <2>7, <2>9 DEF Abstract!Next, Abstract!Event
<1>3. CASE ReportFile
  <2>1. /\ session = "writer" /\ journals = {} /\ base.image = envelope.image /\ Exists
        /\ UNCHANGED <<artifacts, envelope, journals, trace, session>>
        /\ report' = File(base.rev, base.image)
    BY <1>3 DEF ReportFile, IInv, Called, Based, Created, Opening, Loading, Exists, Reporting, Committing
  <2>2. /\ Revision = envelope.rev /\ Committed = envelope.ids
        /\ Image = envelope.image /\ Artifacts = artifacts.content
    BY <1>v, <2>1 DEF Shown
  <2>3. Exists' /\ report'.content = envelope.image
    BY <2>1 DEF Exists, File
  <2>4. /\ Revision' = envelope.rev /\ Committed' = envelope.ids
        /\ Image' = envelope.image /\ Artifacts' = artifacts.content /\ Report' = envelope.image
    BY <1>v, <2>1, <2>3 DEF Shown
  <2>5. Noted' = Noted
    BY <2>1 DEF Noted
  <2>6. Abstract!SaveReport
    BY <2>1, <2>2, <2>3, <2>4, <2>5 DEF Abstract!SaveReport,
       Revision, Committed, Image, Artifacts, Report, Noted
  <2>7. QED
    BY <2>6 DEF Abstract!Next
<1>4. CASE Next /\ ~CreateEnvelope /\ ~CommitJournal /\ ~ReportFile
  <2>1. UNCHANGED <<Revision, Committed, Image, Artifacts, Report, Noted>> /\ Exists' = Exists
    BY <1>4, SnapshotStep, NotedStep
  <2>2. CASE (session = "writer") <=> (session' = "writer")
    BY <2>1, <2>2, StoreStutter
  <2>3. CASE session # "writer" /\ session' = "writer"
    <3>1. Exists
      BY <2>1, <2>3 DEF IInv, Created, Exists
    <3>2. Abstract!AcquireWriter
      BY <2>1, <2>3, <3>1 DEF Abstract!AcquireWriter, Abstract!snapshot,
         Revision, Committed, Image, Artifacts, Report, Noted
    <3>3. QED
      BY <3>2 DEF Abstract!Next
  <2>4. CASE session = "writer" /\ session' # "writer"
    <3>1. Abstract!ReleaseWriter
      BY <2>1, <2>4 DEF Abstract!ReleaseWriter, Abstract!snapshot,
         Revision, Committed, Image, Artifacts, Report, Noted
    <3>2. QED
      BY <3>1 DEF Abstract!Next
  <2>5. QED
    BY <2>2, <2>3, <2>4
<1>5. CASE UNCHANGED vars
  <2>1. UNCHANGED <<Revision, Committed, Image, Artifacts, Report, Noted>> /\ Exists' = Exists /\ session' = session
    BY <1>5 DEF vars, Revision, Committed, Image, Artifacts, Report, Noted, Exists, Pending, Due
  <2>2. QED
    BY <2>1, StoreStutter
<1>6. QED
  BY <1>1, <1>2, <1>3, <1>4, <1>5

\* As long as no append is cut short half-way the files behave as the promised
\* store does: a transition takes effect when its journal is durable.
THEOREM FilesImplementStore ==
    ASSUME MaxTorn = 0
    PROVE  Spec => ImplementsExecutionStore
<1>1. Init => Abstract!Init
  <2>1. SUFFICES ASSUME Init PROVE Abstract!Init
    OBVIOUS
  <2>2. ~Exists /\ ~Pending /\ envelope.ids = {} /\ DOMAIN trace = {} /\ journals = {} /\ session = "none"
    BY <2>1 DEF Init, Exists, Pending, NoEnvelope
  <2>3. QED
    BY <2>2 DEF Abstract!Init
<1>2. Init => torn = 0
  BY DEF Init
<1>3. torn = 0 /\ [Next]_vars => (torn = 0)'
  BY DEF Next, vars, disk, memory, counters, CreateRun, CreateTasks, CreateArtifacts, CreateEnvelope,
     CreateTrace,
         AcquireWriter, ReleaseWriter, LoadSnapshot, CommitTransition, SaveReport, Load, ReplayTasks,
         ReplayArtifacts, ReplayReport, ReplayTrace, ReplayEnvelope, ReplayRemove, Read, CommitJournal, CommitTrace,
         CommitTasks, CommitArtifacts, CommitReport, CommitEnvelope, CommitRemove, ReportFile, ReportEnvelope,
         Interrupt, TearAppend
<1>4. IInv /\ IInv' /\ [Next]_vars /\ torn = 0 /\ (torn = 0)' => [Abstract!Next]_(Abstract!vars)
  BY StoreStep
<1>5. QED
  BY <1>1, <1>2, <1>3, <1>4, StoreInvariant, PTL DEF Spec, ImplementsExecutionStore, Abstract!Spec
=============================================================================
