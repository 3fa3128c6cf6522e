--------------------------- MODULE MCCoordinator ---------------------------
EXTENDS Coordinator, TLC

Symmetry == Permutations(Samples)
=============================================================================
