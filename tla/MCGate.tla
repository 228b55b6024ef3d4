------------------------------- MODULE MCGate -------------------------------
EXTENDS Gate, TLC
CONSTANTS g1, g2
Symmetry == Permutations(Gates)
=============================================================================
