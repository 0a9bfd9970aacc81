----------------------------- MODULE MCPortfolio -----------------------------
EXTENDS Portfolio, TLC
Symmetry == Permutations(Collectors) \cup Permutations(Editors) \cup Permutations(Contents)
=============================================================================
