-------------------------- MODULE MCRegionRegistry --------------------------
(* Instances of RegionRegistry for TLC. *)
EXTENDS RegionRegistry, TLC

Symmetry == Permutations(Threads)
=============================================================================
