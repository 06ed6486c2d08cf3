--------------------------- MODULE RunWriterLock ---------------------------
(***************************************************************************)
(* The run-scoped writer lock of runtime/execution_store/locking.py, one   *)
(* file-system call per step.  A process goes through recover_stale, then  *)
(* acquire, then _create_exclusive_lock; between two calls any other       *)
(* process may move.  A process is named by its pid; a restarted process   *)
(* may get the pid of its former life (a container gives pid 1 again), and *)
(* every life draws a fresh owner token and may belong to another user.    *)
(***************************************************************************)
EXTENDS Naturals, FiniteSets

CONSTANTS Procs,        \* process ids that contend for one run
          NoProc,       \* no process
          Machine,      \* the machine each process runs on
          HostKnown,    \* COMPUTERNAME/HOSTNAME is exported
          Users, Root,  \* who processes run as; Root may signal every process
          Windows,      \* os.name == "nt"
          MaxDeaths,    \* bound: how many times a process may die
          MaxLives,     \* bound: lives of one pid (1: pids are never reused)
          MaxFaults     \* bound: failed writes of a lock record

ASSUME NoProcAssumption == NoProc \notin Procs
ASSUME HostKnownAssumption == HostKnown \in BOOLEAN
ASSUME WindowsAssumption == Windows \in BOOLEAN
ASSUME UsersAssumption == Users # {}
ASSUME BoundsAssumption == MaxDeaths \in Nat /\ MaxLives \in Nat /\ MaxFaults \in Nat
\* A pid means nothing on another machine: contenders share one, or each record
\* says where its owner runs.
ASSUME HostAssumption == HostKnown \/ \A p, q \in Procs : Machine[p] = Machine[q]

Tokens == [pid : Procs, life : Nat]
NoToken == [pid |-> NoProc, life |-> 0]
NoFile == [owner |-> NoToken, record |-> "blank"]
Files == [owner : Tokens, record : {"blank", "whole"}]

Stages == {"recover", "acquire", "create"}
Steps == {"look", "read", "judge", "unlink", "open", "write", "idle", "held", "compare"}

VARIABLES
    file,     \* the lock file: absent, or which life created it and whether its record is there
    stage,    \* the call each process is in, "writer" outside of acquire_writer
    step,     \* and the step of it that comes next
    seen,     \* the owner in the record a process read last
    alive,    \* processes that are running
    life,     \* the current life of each pid
    user,     \* and the user it runs as
    deaths, faults,
    misjudged \* history: a running owner was taken for a dead one

vars == <<file, stage, step, seen, alive, life, user, deaths, faults, misjudged>>

Me(p) == [pid |-> p, life |-> life[p]]
At(p, s, t) == p \in alive /\ stage[p] = s /\ step[p] = t
Goto(p, s, t) ==
    /\ stage' = [stage EXCEPT ![p] = s]
    /\ step' = [step EXCEPT ![p] = t]

\* The call raises and the process is outside the lock again.
Raise(p) == Goto(p, "writer", "idle")

\* What the stage does once it found no reason to wait: recover_stale returns
\* to acquire, acquire goes on to create.
Proceed(p, s) ==
    IF s = "recover" THEN Goto(p, "acquire", "look") ELSE Goto(p, "create", "look")

Init ==
    /\ file = NoFile
    /\ stage = [p \in Procs |-> "writer"]
    /\ step = [p \in Procs |-> "idle"]
    /\ seen = [p \in Procs |-> NoToken]
    /\ alive = Procs
    /\ life = [p \in Procs |-> 0]
    /\ user \in [Procs -> Users]
    /\ deaths = 0
    /\ faults = 0
    /\ misjudged = FALSE

-----------------------------------------------------------------------------

\* POSIX lets a process probe those of its own user; EPERM is an OSError like
\* ESRCH.  Windows answers that access was denied, which counts as running.
Refused(p, q) == ~Windows /\ user[p] # user[q] /\ user[p] # Root

\* A pid is looked up on the machine of the process that asks.
PidRunning(p, q) == q \in alive /\ Machine[q] = Machine[p] /\ ~Refused(p, q)

\* The life a record names is over; its pid may belong to a later one.
Ended(token) == token.pid \notin alive \/ life[token.pid] # token.life

\* Mutants of Stale: an owner condemned whether it runs or not, one condemned
\* from another machine, and no recovery at all.
StaleByAge(p, token) == token # Me(p) /\ token.pid # p
StaleAnywhere(p, token) == token # Me(p) /\ token.pid # p /\ ~PidRunning(p, token.pid)
NeverStale(p, token) == FALSE

Stale(p, token) ==
    /\ token # Me(p)
    /\ token.pid # p
    /\ ~(HostKnown /\ Machine[token.pid] # Machine[p])
    /\ ~PidRunning(p, token.pid)

AcquireWriter(p) ==
    /\ At(p, "writer", "idle")
    /\ Goto(p, "recover", "look")
    /\ UNCHANGED <<file, seen, alive, life, user, deaths, faults, misjudged>>

\* is_file(), and in the create stage the O_EXCL open that fails.
Look(p, s) ==
    /\ At(p, s, "look")
    /\ IF file # NoFile THEN Goto(p, s, "read") /\ UNCHANGED file
       ELSE IF s = "create"
            THEN /\ file' = [owner |-> Me(p), record |-> "blank"]
                 /\ Goto(p, "create", "write")
            ELSE Proceed(p, s) /\ UNCHANGED file
    /\ UNCHANGED <<seen, alive, life, user, deaths, faults, misjudged>>

\* Mutant of Read: whatever is in the file is taken for a record.
ReadUnparsed(p, s) ==
    /\ At(p, s, "read")
    /\ seen' = [seen EXCEPT ![p] = file.owner]
    /\ Goto(p, s, "judge")
    /\ UNCHANGED <<file, alive, life, user, deaths, faults, misjudged>>

\* A record that is gone or not yet written cannot be parsed: recover_stale
\* gives up quietly, the other two raise MalformedLockError.
Read(p, s) ==
    /\ At(p, s, "read")
    /\ IF file.record = "whole"
       THEN seen' = [seen EXCEPT ![p] = file.owner] /\ Goto(p, s, "judge")
       ELSE /\ UNCHANGED seen
            /\ IF s = "recover" THEN Proceed(p, s) ELSE Raise(p)
    /\ UNCHANGED <<file, alive, life, user, deaths, faults, misjudged>>

\* A live owner makes recover_stale return and the others raise WriterConflictError.
Judge(p, s) ==
    /\ At(p, s, "judge")
    /\ IF Stale(p, seen[p]) THEN Goto(p, s, "unlink")
       ELSE IF s = "recover" THEN Proceed(p, s) ELSE Raise(p)
    /\ misjudged' = (misjudged \/ (/\ Stale(p, seen[p]) /\ ~Ended(seen[p])
                                  /\ Refused(p, seen[p].pid)))
    /\ UNCHANGED <<file, seen, alive, life, user, deaths, faults>>

\* _remove_stale_lock removes whatever file bears the name by now.
Unlink(p, s) ==
    /\ At(p, s, "unlink")
    /\ file' = NoFile
    /\ IF s = "create" THEN Goto(p, "create", "open") ELSE Proceed(p, s)
    /\ UNCHANGED <<seen, alive, life, user, deaths, faults, misjudged>>

\* The second O_EXCL open, after the removal; it is not tried again.
Reopen(p) ==
    /\ At(p, "create", "open")
    /\ IF file = NoFile
       THEN /\ file' = [owner |-> Me(p), record |-> "blank"]
            /\ Goto(p, "create", "write")
       ELSE Raise(p) /\ UNCHANGED file
    /\ UNCHANGED <<seen, alive, life, user, deaths, faults, misjudged>>

\* The record goes to the descriptor: an unlinked file is written all the same.
Write(p) ==
    /\ At(p, "create", "write")
    /\ file' = IF file.owner = Me(p)
               THEN [file EXCEPT !.record = "whole"] ELSE file
    /\ Goto(p, "writer", "held")
    /\ UNCHANGED <<seen, alive, life, user, deaths, faults, misjudged>>

WriteFails(p) ==
    /\ At(p, "create", "write")
    /\ faults < MaxFaults
    /\ faults' = faults + 1
    /\ file' = NoFile
    /\ Raise(p)
    /\ UNCHANGED <<seen, alive, life, user, deaths, misjudged>>

\* release: the record is read, its token compared, then the name is removed.
Release(p) ==
    /\ At(p, "writer", "held")
    /\ Goto(p, "writer", "compare")
    /\ seen' = [seen EXCEPT ![p] = IF file.record = "whole" THEN file.owner ELSE NoToken]
    /\ UNCHANGED <<file, alive, life, user, deaths, faults, misjudged>>

Compare(p) ==
    /\ At(p, "writer", "compare")
    /\ IF seen[p] = Me(p) THEN Goto(p, "writer", "unlink") ELSE Raise(p)
    /\ UNCHANGED <<file, seen, alive, life, user, deaths, faults, misjudged>>

ReleaseUnlink(p) ==
    /\ At(p, "writer", "unlink")
    /\ file' = NoFile
    /\ Goto(p, "writer", "idle")
    /\ UNCHANGED <<seen, alive, life, user, deaths, faults, misjudged>>

\* The process exits or is killed at any point: its memory goes, the file stays.
Die(p) ==
    /\ p \in alive
    /\ deaths < MaxDeaths
    /\ deaths' = deaths + 1
    /\ alive' = alive \ {p}
    /\ Goto(p, "writer", "idle")
    /\ seen' = [seen EXCEPT ![p] = NoToken]
    /\ UNCHANGED <<file, life, user, faults, misjudged>>

Restart(p) ==
    /\ p \notin alive
    /\ life[p] + 1 < MaxLives
    /\ alive' = alive \cup {p}
    /\ life' = [life EXCEPT ![p] = @ + 1]
    /\ \E u \in Users : user' = [user EXCEPT ![p] = u]
    /\ UNCHANGED <<file, stage, step, seen, deaths, faults, misjudged>>

Step(p) ==
    \/ \E s \in Stages :
          Look(p, s) \/ Read(p, s) \/ Judge(p, s) \/ Unlink(p, s)
    \/ Reopen(p) \/ Write(p) \/ Release(p) \/ Compare(p) \/ ReleaseUnlink(p)

Next == \E p \in Procs : Step(p) \/ AcquireWriter(p) \/ WriteFails(p) \/ Die(p) \/ Restart(p)

\* A running process finishes the call it is in and gives the lock back at
\* the end of its run; nobody is obliged to ask for the lock.
Fairness == \A p \in Procs : WF_vars(Step(p))

Spec == Init /\ [][Next]_vars
FairSpec == Spec /\ Fairness

-----------------------------------------------------------------------------

\* A verdict is only ever reached on a record that was parsed.
TypeOK ==
    /\ file \in Files \cup {NoFile}
    /\ stage \in [Procs -> Stages \cup {"writer"}]
    /\ step \in [Procs -> Steps]
    /\ seen \in [Procs -> Tokens \cup {NoToken}]
    /\ alive \in SUBSET Procs
    /\ life \in [Procs -> Nat]
    /\ user \in [Procs -> Users]
    /\ deaths \in Nat
    /\ faults \in Nat
    /\ misjudged \in BOOLEAN
    /\ \A p \in Procs : stage[p] \in Stages /\ step[p] \in {"judge", "unlink"} => seen[p] \in Tokens

\* acquire returned and release has not finished.
Writing(p) == p \in alive /\ stage[p] = "writer" /\ step[p] # "idle"
Writers == {p \in Procs : Writing(p)}

\* "Only one writer may mutate a run at a time": two processes are never both
\* past acquire (locking.py:40 and :52).
MutualExclusion == \A p, q \in Procs : Writing(p) /\ Writing(q) => p = q

\* As long as no process has ended and none could hide its owner from another
\* (locking.py:197), the O_EXCL open admits one writer whatever the interleaving
\* of readers, failed writes and releases.
ExclusionUntilDeath == deaths = 0 /\ ~misjudged => MutualExclusion

\* As long as no process has ended and no running owner was taken for a dead
\* one, a writer's record stays in place until its own release removes it: no
\* other process's recovery, failed write or release takes it away
\* (locking.py:121, :113, :64).
RecordKeptUntilDeath ==
    deaths = 0 /\ ~misjudged => \A p \in Writers : file = [owner |-> Me(p), record |-> "whole"]

\* _lock_stale condemns an owner that has ended, be its pid in use again, or one
\* beside it that POSIX does not let it probe, and no other: none of its own
\* user, none on another machine, no live one on Windows (locking.py:160).
CondemnsDeadOrRefused ==
    \A p \in alive :
        stage[p] \in Stages /\ step[p] = "unlink" =>
            \/ Ended(seen[p])
            \/ Machine[seen[p].pid] = Machine[p] /\ Refused(p, seen[p].pid)

\* The inductive strengthening.  Tokens come from lives that have begun; a
\* process that ended is in no call; an owner condemned stays dead, its token
\* never comes back, or was misjudged; and while nobody has ended or been
\* misjudged, whoever created the file is the one past the O_EXCL open.
Begun(token) == token.pid \in Procs => token.life <= life[token.pid]
Condemning(p) == stage[p] \in Stages /\ step[p] = "unlink"
Opened(p) == stage[p] = "create" /\ step[p] = "write"

LockInv ==
    /\ Begun(file.owner)
    /\ \A p \in Procs : Begun(seen[p])
    /\ \A p \in Procs \ alive : stage[p] = "writer"
    /\ \A p \in Procs : Condemning(p) =>
          \/ Ended(seen[p])
          \/ /\ misjudged
             /\ Machine[seen[p].pid] = Machine[p] /\ Refused(p, seen[p].pid)
    /\ deaths = 0 => alive = Procs /\ \A p \in Procs : life[p] = 0
    /\ deaths = 0 /\ ~misjudged =>
          \A p \in Procs :
                /\ ~Condemning(p)
                /\ ~(stage[p] = "create" /\ step[p] = "open")
                /\ Opened(p) => file = [owner |-> Me(p), record |-> "blank"]
                /\ Writing(p) => file = [owner |-> Me(p), record |-> "whole"]

\* The file is the record of an owner that ended on the process's machine, and
\* no later life has its pid.
DeadRecordBeside(p) ==
    /\ file.record = "whole"
    /\ file.owner.pid \in Procs \ alive
    /\ Machine[file.owner.pid] = Machine[p]

\* A complete record of a dead owner is gone once a process beside it asked for
\* the lock and did not end, unless the owner's pid is taken again, by somebody
\* else or by the asking process itself (locking.py:163, :198); the removal never
\* waits for anything.
StaleRecordCleared ==
    \A p \in Procs :
        (At(p, "recover", "look") /\ DeadRecordBeside(p))
            ~> (p \notin alive \/ ~DeadRecordBeside(p))
=============================================================================
