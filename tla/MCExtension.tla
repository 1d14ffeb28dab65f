---------------------------- MODULE MCExtension ----------------------------
EXTENDS Extension, TLC
Symmetry == Permutations(Jobs)
=============================================================================
