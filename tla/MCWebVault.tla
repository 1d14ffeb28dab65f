----------------------------- MODULE MCWebVault -----------------------------
EXTENDS WebVault, TLC
Symmetry == Permutations(Tasks)
=============================================================================
