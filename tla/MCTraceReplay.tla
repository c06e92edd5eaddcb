---------------------------- MODULE MCTraceReplay ----------------------------
(* Instances of TraceReplay for TLC. *)
EXTENDS TraceReplay, TLC

Symmetry == Permutations(Threads)
=============================================================================
