--------------------------- MODULE MCAccountKeys ---------------------------
EXTENDS AccountKeys, TLC
Symmetry == Permutations(Devices) \cup Permutations(Values)
=============================================================================
