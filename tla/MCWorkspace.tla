---------------------------- MODULE MCWorkspace ----------------------------
EXTENDS Workspace, TLC

CONSTANTS p, q, paper1, paper2

Symmetry == Permutations(Papers)
=============================================================================
