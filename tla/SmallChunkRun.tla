--------------------------- MODULE SmallChunkRun ---------------------------
(***************************************************************************)
(* A run of the small allocator (lib/chunks/SmallChunkRun.cpp): a page cut *)
(* in cells of one size.  Its first bytes may hold the header of the       *)
(* container (skip), the bitmap comes next, and the cells that these hide  *)
(* are never free.  A run is a record; its bitmap is the set free of the   *)
(* cells whose bit is set.  Sizes are bytes.                               *)
(***************************************************************************)
EXTENDS Integers

CONSTANTS
    RunSize,               \* SMALL_RUN_SIZE
    StorageSize,           \* STORAGE_SIZE: the run without its own fields
    EntrySize, EntryBits   \* MACRO_ENTRY_SIZE, MACRO_ENTRY_BITS

ASSUME LayoutAssumption ==
    /\ RunSize \in Nat \ {0} /\ StorageSize \in 0 .. RunSize
    /\ EntrySize \in Nat \ {0} /\ EntryBits \in Nat \ {0}

CeilDiv(n, k) == (n + k - 1) \div k

(* SmallChunkRun(): a run without a splitting. *)
NewRun(skipedSize, container) ==
    [cntAlloc  |-> 0,
     skip      |-> CeilDiv(skipedSize, EntrySize),
     splitting |-> 0,
     entries   |-> 0,
     free      |-> {},
     container |-> container]

(* Words of the bitmap for that many bits; getRoundedNbEntries of a size.   *)
BitmapSize(entries) == (entries \div EntryBits) * EntrySize
RoundedNbEntries(size, splitting) == CeilDiv(size, splitting)

(* The cells that the skipped bytes and the bitmap hide. *)
HiddenEntries(skip, splitting, entries) ==
    RoundedNbEntries(skip * EntrySize, splitting)
      + RoundedNbEntries(BitmapSize(entries), splitting)

(* setSplitting; without a size only the splitting is reset. *)
SetSplitting(run, splitting) ==
    IF splitting = 0 THEN [run EXCEPT !.splitting = 0]
    ELSE LET real    == StorageSize \div splitting
             entries == CeilDiv(real, EntryBits) * EntryBits
         IN  [run EXCEPT !.splitting = splitting, !.entries = entries,
                         !.free = HiddenEntries(run.skip, splitting, entries) .. (real - 1)]

IsEmptyRun(run) == run.cntAlloc = 0
IsFull(run) == run.free = {}

(* The highest bit of the first word of the bitmap that is not zero. *)
FirstFree(run) ==
    CHOOSE id \in run.free : \A c \in run.free :
        \/ id \div EntryBits < c \div EntryBits
        \/ id \div EntryBits = c \div EntryBits /\ c <= id

(* Mutant: the bit of the cell is not cleared. *)
RunMalloc_NoClear(run) == [run EXCEPT !.cntAlloc = @ + 1]

RunMalloc(run) ==
    [run EXCEPT !.free = @ \ {FirstFree(run)}, !.cntAlloc = @ + 1]

CellPtr(base, run, id) == base + run.splitting * id
CellOf(base, run, ptr) == (ptr - base) \div run.splitting

(* Mutant: the count of cells in use is left as it was. *)
RunFree_NoCount(run, id) == [run EXCEPT !.free = @ \union {id}]

RunFree(run, id) == [run EXCEPT !.free = @ \union {id}, !.cntAlloc = @ - 1]

(* contain compares with the end of the bitmap, not with the first cell. *)
RunContain(base, run, ptr) ==
    /\ ptr >= base + (run.skip + run.entries \div EntryBits) * EntrySize
    /\ ptr < base + StorageSize

RunOf(ptr) == (ptr \div RunSize) * RunSize

GetInnerSize(run) == run.splitting
=============================================================================
