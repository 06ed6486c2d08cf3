------------------------ MODULE RunWriterLock_proofs ------------------------
(***************************************************************************)
(* The lock admits one writer until a process ends or a running owner is   *)
(* hidden from a contender, for any number of contenders, machines, users, *)
(* deaths and lives.                                                       *)
(***************************************************************************)
EXTENDS RunWriterLock, TLAPS

\* Every variable keeps its type and no verdict is reached on an unparsed
\* record (_read_lock).
THEOREM TypeCorrect == Spec => []TypeOK
<1> USE NoProcAssumption, BoundsAssumption DEF TypeOK, Files, Tokens, NoFile, NoToken,
        Stages, Steps, At, Goto, Me, Raise, Proceed
<1>1. Init => TypeOK
  <2> SUFFICES ASSUME Init PROVE TypeOK
    OBVIOUS
  <2>1. user \in [Procs -> Users] /\ life \in [Procs -> Nat]
    BY DEF Init
  <2>2. seen \in [Procs -> Tokens \cup {NoToken}]
    BY DEF Init
  <2>3. QED
    BY <2>1, <2>2 DEF Init
<1>2. TypeOK /\ [Next]_vars => TypeOK'
  <2> SUFFICES ASSUME TypeOK, [Next]_vars PROVE TypeOK'
    OBVIOUS
  <2>1. ASSUME NEW p \in Procs, AcquireWriter(p) PROVE TypeOK'
    BY <2>1 DEF AcquireWriter
  <2>2. ASSUME NEW p \in Procs, NEW s \in Stages, Look(p, s) PROVE TypeOK'
    BY <2>2 DEF Look
  <2>3. ASSUME NEW p \in Procs, NEW s \in Stages, Read(p, s) PROVE TypeOK'
    BY <2>3 DEF Read
  <2>4. ASSUME NEW p \in Procs, NEW s \in Stages, Judge(p, s) PROVE TypeOK'
    BY <2>4 DEF Judge
  <2>5. ASSUME NEW p \in Procs, NEW s \in Stages, Unlink(p, s) PROVE TypeOK'
    BY <2>5 DEF Unlink
  <2>6. ASSUME NEW p \in Procs, Reopen(p) PROVE TypeOK'
    BY <2>6 DEF Reopen
  <2>7. ASSUME NEW p \in Procs, Write(p) PROVE TypeOK'
    BY <2>7 DEF Write
  <2>8. ASSUME NEW p \in Procs, WriteFails(p) PROVE TypeOK'
    BY <2>8 DEF WriteFails
  <2>9. ASSUME NEW p \in Procs, Release(p) PROVE TypeOK'
    BY <2>9 DEF Release
  <2>10. ASSUME NEW p \in Procs, Compare(p) PROVE TypeOK'
    BY <2>10 DEF Compare
  <2>11. ASSUME NEW p \in Procs, ReleaseUnlink(p) PROVE TypeOK'
    BY <2>11 DEF ReleaseUnlink
  <2>12. ASSUME NEW p \in Procs, Die(p) PROVE TypeOK'
    BY <2>12 DEF Die
  <2>13. ASSUME NEW p \in Procs, Restart(p) PROVE TypeOK'
    BY <2>13 DEF Restart
  <2>14. CASE UNCHANGED vars
    BY <2>14 DEF vars
  <2> HIDE DEF TypeOK
  <2>15. QED
    BY <2>1, <2>2, <2>3, <2>4, <2>5, <2>6, <2>7, <2>8, <2>9, <2>10, <2>11, <2>12, <2>13, <2>14
       DEF Next, Step
<1>3. QED
  BY <1>1, <1>2, PTL DEF Spec

-----------------------------------------------------------------------------

\* The inductive step, action by action.
LEMMA LockInvStep ==
    ASSUME TypeOK, TypeOK', LockInv, Next
    PROVE  LockInv'
<1> USE NoProcAssumption, HostAssumption
    DEF TypeOK, LockInv, Files, Tokens, NoFile, NoToken, Stages, Steps, At, Goto, Me, Raise, Proceed,
        Begun, Ended, Condemning, Opened, Writing, Refused
<1>1. ASSUME NEW p \in Procs, AcquireWriter(p) PROVE LockInv'
  BY <1>1 DEF AcquireWriter
<1>2. ASSUME NEW p \in Procs, NEW s \in Stages, Look(p, s) PROVE LockInv'
  BY <1>2 DEF Look
<1>3. ASSUME NEW p \in Procs, NEW s \in Stages, Read(p, s) PROVE LockInv'
  BY <1>3 DEF Read
<1>4. ASSUME NEW p \in Procs, NEW s \in Stages, Judge(p, s) PROVE LockInv'
  <2>1. seen[p] \in Tokens /\ seen[p].pid \in Procs
    BY <1>4 DEF Judge
  <2>2. CASE ~Stale(p, seen[p])
    BY <1>4, <2>2 DEF Judge
  <2>3. CASE Stale(p, seen[p])
    <3>1. \/ Ended(seen[p])
          \/ Machine[seen[p].pid] = Machine[p] /\ Refused(p, seen[p].pid)
      BY <2>1, <2>3 DEF Stale, PidRunning
    <3>2. Ended(seen[p]) \/ misjudged'
      BY <1>4, <2>3, <3>1 DEF Judge
    <3>3. deaths = 0 /\ ~misjudged' => FALSE
      BY <2>1, <3>2
    <3>4. stage' = [stage EXCEPT ![p] = s] /\ step' = [step EXCEPT ![p] = "unlink"]
      BY <1>4, <2>3 DEF Judge
    <3>5. QED
      BY <1>4, <3>1, <3>2, <3>3, <3>4 DEF Judge
  <2>4. QED
    BY <2>2, <2>3
<1>5. ASSUME NEW p \in Procs, NEW s \in Stages, Unlink(p, s) PROVE LockInv'
  BY <1>5 DEF Unlink
<1>6. ASSUME NEW p \in Procs, Reopen(p) PROVE LockInv'
  BY <1>6 DEF Reopen
<1>7. ASSUME NEW p \in Procs, Write(p) PROVE LockInv'
  BY <1>7 DEF Write
<1>8. ASSUME NEW p \in Procs, WriteFails(p) PROVE LockInv'
  BY <1>8 DEF WriteFails
<1>9. ASSUME NEW p \in Procs, Release(p) PROVE LockInv'
  BY <1>9 DEF Release
<1>10. ASSUME NEW p \in Procs, Compare(p) PROVE LockInv'
  BY <1>10 DEF Compare
<1>11. ASSUME NEW p \in Procs, ReleaseUnlink(p) PROVE LockInv'
  BY <1>11 DEF ReleaseUnlink
<1>12. ASSUME NEW p \in Procs, Die(p) PROVE LockInv'
  BY <1>12 DEF Die
<1>13. ASSUME NEW p \in Procs, Restart(p) PROVE LockInv'
  BY <1>13 DEF Restart
<1> HIDE DEF LockInv, TypeOK
<1>14. QED
  BY ONLY Next, <1>1, <1>2, <1>3, <1>4, <1>5, <1>6, <1>7, <1>8, <1>9, <1>10, <1>11, <1>12, <1>13 DEF Next, Step

\* The inductive invariant behind the three theorems below.
THEOREM LockInvariant == Spec => []LockInv
<1>1. Init => LockInv
  BY NoProcAssumption DEF Init, LockInv, NoFile, NoToken, Stages, Begun, Condemning, Opened, Writing
<1>2. TypeOK /\ TypeOK' /\ LockInv /\ [Next]_vars => LockInv'
  <2>1. CASE UNCHANGED vars
    BY <2>1 DEF vars, LockInv, Begun, Ended, Condemning, Opened, Writing, Me, Refused
  <2>2. QED
    BY <2>1, LockInvStep
<1>3. QED
  BY <1>1, <1>2, TypeCorrect, PTL DEF Spec

\* While no process has ended and no running owner was hidden from another by
\* its user, the O_EXCL open of _create_exclusive_lock admits one writer
\* (locking.py:82, :197).
THEOREM OneWriterUntilDeath == Spec => []ExclusionUntilDeath
<1>1. TypeOK /\ LockInv => ExclusionUntilDeath
  BY NoProcAssumption DEF TypeOK, LockInv, ExclusionUntilDeath, MutualExclusion, Writing, Me
<1>2. QED
  BY <1>1, TypeCorrect, LockInvariant, PTL

\* Until a process ends or a running owner is misjudged, a writer's record is
\* removed by nobody else (locking.py:64, :113, :121).
THEOREM RecordKept == Spec => []RecordKeptUntilDeath
<1>1. TypeOK /\ LockInv => RecordKeptUntilDeath
  BY DEF LockInv, RecordKeptUntilDeath, Writers
<1>2. QED
  BY <1>1, TypeCorrect, LockInvariant, PTL

\* _lock_stale condemns owners that have ended, and the token of an ended life
\* never becomes a running one; the only running owners it condemns are those
\* beside it that POSIX forbids it to probe (locking.py:160, :197).
THEOREM DeadOrRefusedCondemned == Spec => []CondemnsDeadOrRefused
<1>1. TypeOK /\ LockInv => CondemnsDeadOrRefused
  BY DEF TypeOK, LockInv, CondemnsDeadOrRefused, Condemning
<1>2. QED
  BY <1>1, TypeCorrect, LockInvariant, PTL

\* On Windows, and wherever all contenders are one user, nothing is hidden.
LEMMA NeverMisjudged ==
    ASSUME Windows \/ \E u \in Users : Users = {u}
    PROVE  Spec => [](~misjudged)
<1>1. TypeOK => \A p, q \in Procs : ~Refused(p, q)
  BY DEF TypeOK, Refused
<1>2. Init => ~misjudged
  BY DEF Init
<1>3. ASSUME TypeOK, ~misjudged, [Next]_vars PROVE ~misjudged'
  <2>1. ASSUME NEW p \in Procs, NEW s \in Stages, Judge(p, s) PROVE ~misjudged'
    <3>1. seen[p] \in Tokens
      BY <1>3, <2>1 DEF TypeOK, Judge, At
    <3>2. ~Refused(p, seen[p].pid)
      BY <1>1, <1>3, <3>1 DEF Tokens
    <3>3. QED
      BY <1>3, <2>1, <3>2 DEF Judge
  <2>2. QED
    BY <1>3, <2>1 DEF Next, Step, vars, AcquireWriter, Look, Read, Unlink, Reopen, Write,
       WriteFails, Release, Compare, ReleaseUnlink, Die, Restart
<1>4. QED
  BY <1>2, <1>3, TypeCorrect, PTL DEF Spec

\* There no running owner is ever condemned, and only a death can end the
\* exclusion of acquire (locking.py:40, :189).
THEOREM OnlyTheDeadCondemned ==
    ASSUME Windows \/ \E u \in Users : Users = {u}
    PROVE  Spec => [](/\ \A p \in Procs : Condemning(p) => Ended(seen[p])
                      /\ deaths = 0 => MutualExclusion)
<1>1. LockInv /\ ExclusionUntilDeath /\ ~misjudged =>
          /\ \A p \in Procs : Condemning(p) => Ended(seen[p])
          /\ deaths = 0 => MutualExclusion
  BY DEF LockInv, ExclusionUntilDeath
<1>2. QED
  BY <1>1, LockInvariant, OneWriterUntilDeath, NeverMisjudged, PTL
=============================================================================
