--------------------------- MODULE MCGenerateRpc ---------------------------
(* Two threads of the pool, interchangeable in the runs without liveness.  *)
EXTENDS GenerateRpc, TLC

Symmetry == Permutations(Thread)

=============================================================================
