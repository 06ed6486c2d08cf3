-------------------------- MODULE MCRunWriterLock --------------------------
EXTENDS RunWriterLock, TLC

CONSTANTS p1, p2, p3, m1, m2, u1, root

\* Everybody on one machine, and the third process on another one.
OneMachine == [p \in Procs |-> m1]
TwoMachines == [p \in Procs |-> IF p = p3 THEN m2 ELSE m1]

\* p1 and p2 share a machine and are interchangeable.
Interchangeable == Permutations({p1, p2})
=============================================================================
