--------------------------- MODULE MCHostSnapshot ---------------------------
(* Collectors are interchangeable until they are asked for something.      *)
EXTENDS HostSnapshot, TLC

Symmetry == Permutations(Collector)

=============================================================================
