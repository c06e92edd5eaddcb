-------------------------- MODULE MCSmallAllocator --------------------------
(* An instance of SmallAllocator for TLC. *)
EXTENDS SmallAllocator, TLC

(* An area of two runs that does not begin with its segment. *)
TwoRuns == {<<64, 128>>}

Symmetry == Permutations(Threads)

(* getSizeClass has shifts and an offset in place of a search: for every    *)
(* size the allocator accepts, it is the smallest class that fits.          *)
ASSUME ClassIsSmallest ==
    \A n \in 1 .. 128 : \A k \in Classes : n <= ClassSize(k) <=> GetSizeClass(n) <= k

(* The same run with the sizes of the program (4096 bytes, 32 of them for   *)
(* the fields at the end, bitmap words of 64 bits).                         *)
Real == INSTANCE SmallChunkRun WITH RunSize <- 4096, StorageSize <- 4064,
                                    EntrySize <- 8, EntryBits <- 64

(* In every class a fresh run that skips up to 128 bytes has a cell, and    *)
(* all of them are clear of the skipped bytes, of the bitmap and of the     *)
(* fields at the end.                                                       *)
ASSUME RealLayout ==
    \A k \in Classes, skip \in {8 * i : i \in 0 .. 16} :
        LET run == Real!SetSplitting(Real!NewRun(skip, 0), ClassSize(k))
        IN  /\ run.free # {}
            /\ \A i \in run.free :
                 /\ i * ClassSize(k) >= run.skip * 8 + Real!BitmapSize(run.entries)
                 /\ (i + 1) * ClassSize(k) <= 4064
=============================================================================
