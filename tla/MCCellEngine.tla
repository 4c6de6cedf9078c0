---------------------------- MODULE MCCellEngine ----------------------------
EXTENDS CellEngine, TLC

CONSTANTS c1, c2, p1, p2, v1, v2

Symmetric == Permutations(Processes) \cup Permutations(VmIds)

=============================================================================
