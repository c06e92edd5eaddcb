------------------------- MODULE MCMediumAllocator -------------------------
(* Instances of MediumAllocator for TLC. *)
EXTENDS MediumAllocator, TLC

(* The first classes of cstDefaultFreeSizes in words (16, 24, 32, 64, 96    *)
(* bytes), then the class without limit.                                    *)
SmallSizes == <<2, 3, 4, 8, 12, 1000>>

NoAreas == {}
OneArea == {<<0, 34>>}

Symmetry == Permutations(Threads)
=============================================================================
