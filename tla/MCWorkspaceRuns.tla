-------------------------- MODULE MCWorkspaceRuns --------------------------
EXTENDS WorkspaceRuns, TLC

CONSTANTS p, q, short, long

Symmetry == Permutations(Procs) \cup Permutations(NodeSets)
=============================================================================
