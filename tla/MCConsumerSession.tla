------------------------- MODULE MCConsumerSession -------------------------
(* ConsumerSession for TLC: consumers are interchangeable. *)
EXTENDS ConsumerSession

Symmetry == Permutations(Consumers)
============================================================================
