-------------------------- MODULE MCCircuitBreaker --------------------------
(* Threads of the pool, interchangeable; clock and history are bounded    *)
(* in the cfg.                                                             *)
EXTENDS CircuitBreaker, TLC

Symmetry == Permutations(Thread)

=============================================================================
