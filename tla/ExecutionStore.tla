--------------------------- MODULE ExecutionStore ---------------------------
(***************************************************************************)
(* What a store of execution runs promises (execution/ports/persistence.py)*)
(* in the terms of the in-memory store that the engine's tests use: every  *)
(* operation is one step on one snapshot of the run.                       *)
(***************************************************************************)
EXTENDS Naturals

CONSTANTS Ids,          \* identities of trace events and of the transitions they name
          Seqs,         \* their sequence numbers in the run
          NoReport      \* the run has no report yet

VARIABLES exists,       \* create_run has been called
          writer,       \* acquire_writer has been called and release_writer not
          revision, committed, image, artifacts, report, trace

vars == <<exists, writer, revision, committed, image, artifacts, report, trace>>
snapshot == <<revision, committed, image, artifacts, report, trace>>

Event == [id : Ids, seq : Seqs]

Init ==
    /\ exists = FALSE
    /\ writer = FALSE
    /\ revision = 0
    /\ committed = {}
    /\ image = 0
    /\ artifacts = 0
    /\ report = NoReport
    /\ trace = {}

CreateRun ==
    /\ ~exists
    /\ exists' = TRUE
    /\ UNCHANGED <<writer, snapshot>>

AcquireWriter ==
    /\ exists /\ ~writer
    /\ writer' = TRUE
    /\ UNCHANGED <<exists, snapshot>>

\* Called by the engine, or the process ends.
ReleaseWriter ==
    /\ writer
    /\ writer' = FALSE
    /\ UNCHANGED <<exists, snapshot>>

\* The snapshot's image is named by the transition that wrote it.  A commit
\* without artifacts keeps those of the snapshot.  The engine numbers its events
\* upwards from the trace it loaded.
CommitTransition(e, arts) ==
    /\ writer
    /\ e.id \notin committed
    /\ \A old \in trace : old.seq < e.seq /\ old.id # e.id
    /\ revision' = revision + 1
    /\ committed' = committed \cup {e.id}
    /\ image' = e.id
    /\ artifacts' = IF arts = 0 THEN artifacts ELSE arts
    /\ trace' = trace \cup {e}
    /\ UNCHANGED <<exists, writer, report>>

SaveReport ==
    /\ writer
    /\ report' = image
    /\ UNCHANGED <<exists, writer, revision, committed, image, artifacts, trace>>

Next ==
    \/ CreateRun \/ AcquireWriter \/ ReleaseWriter \/ SaveReport
    \/ \E e \in Event, arts \in Ids \cup {0} : CommitTransition(e, arts)

Spec == Init /\ [][Next]_vars
=============================================================================
