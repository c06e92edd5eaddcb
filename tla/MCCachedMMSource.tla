-------------------------- MODULE MCCachedMMSource --------------------------
(* Instances of CachedMMSource for TLC. *)
EXTENDS CachedMMSource

Symmetry == Permutations(Threads)
=============================================================================
