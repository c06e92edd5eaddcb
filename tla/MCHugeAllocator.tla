--------------------------- MODULE MCHugeAllocator ---------------------------
(* An instance of HugeAllocator for TLC. *)
EXTENDS HugeAllocator, TLC

Symmetry == Permutations(Threads)
=============================================================================
