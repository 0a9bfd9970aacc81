---------------------------- MODULE MCLiveOrder ----------------------------
EXTENDS LiveOrderSafety, TLC
Symmetry == Permutations(Workers)
OrderAndWorkerSymmetry == Permutations(Workers) \cup Permutations(Orders)
=============================================================================
