--------------------------- MODULE MCHybridQueue ---------------------------
(* HybridQueue for TLC: the constants are given in the cfg files. *)
EXTENDS HybridQueueLoops
============================================================================
