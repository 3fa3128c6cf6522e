------------------------- MODULE MCTensorParallel ---------------------------
(* Two ranks; the instance is in the .cfg.                                 *)
EXTENDS TensorParallel

CONSTANTS r1, r2, s1, s2

MCRanks == {r1, r2}
MCSamples == {s1, s2}
=============================================================================
