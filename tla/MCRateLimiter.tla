--------------------------- MODULE MCRateLimiter ---------------------------
(* Two interchangeable threads; methods and bounds are given by each cfg.  *)
EXTENDS RateLimiter, TLC

Symmetry == Permutations(Thread)

=============================================================================
