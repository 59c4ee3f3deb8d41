------------------------------ MODULE MCViewer ------------------------------
EXTENDS Viewer, TLC

CONSTANTS p1, p2, p3

MCSockets == 1..2

Symmetry == Permutations(Pages)
=============================================================================
