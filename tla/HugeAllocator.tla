---------------------------- MODULE HugeAllocator ----------------------------
(***************************************************************************)
(* The huge allocator (lib/chunks/HugeAllocator.cpp): one segment of the   *)
(* memory source for each block, without a lock, over DummyMMSource.       *)
(*                                                                         *)
(* A call to the registry and a call to the system are separate steps:     *)
(* between them other threads map and register segments, at the addresses  *)
(* that were just given back as well.  When the system has no more memory  *)
(* its wrapper aborts the process: the step is not enabled.                *)
(***************************************************************************)
EXTENDS DummyMMSource, PaddedChunk, FiniteSets

CONSTANTS
    Threads,
    Sizes, Aligns,         \* the requests, in words: BASIC_ALIGN is 1
    MinInnerSize,          \* MEDIUM_MIN_INNER_SIZE
    ReallocThreashold,     \* REALLOC_THREASHOLD
    ReallocPadded,         \* is realloc called on aligned blocks?
    MaxBlocks              \* bound: no malloc with that many blocks

ASSUME PaddedAssumption == ReallocPadded \in BOOLEAN

(* malloc answers NULL to a size of zero, asserts that the alignment is at  *)
(* least BASIC_ALIGN, and PaddedChunk that its field can hold the padding.  *)
ASSUME RequestsAssumption ==
    /\ Sizes \subseteq Nat \ {0}
    /\ Aligns \subseteq 1 .. PaddingRange
    /\ MinInnerSize \in Nat /\ ReallocThreashold \in Nat

VARIABLES
    hasRegistry,           \* was the source given a registry?
    mapped,                \* segments of the system
    slots,                 \* the registry
    pads,                  \* words with the magic value -> padding
    live,                  \* blocks of the users
    pc, op                 \* per thread: control point, segment and block

vars == <<hasRegistry, mapped, slots, pads, live, pc, op>>

Block(ptr, size, align) == [ptr |-> ptr, size |-> size, align |-> align]
NoOp == [seg |-> NULL, block |-> NULL, size |-> 0]

Pending == {op[t].block : t \in {r \in Threads : pc[r] # "idle"}}
Holding == live \union Pending

(* Mutant: no place is kept for the padding. *)
CheckedSize_NoPadding(size, align) == MaxOf(size, MinInnerSize)

CheckedSize(size, align) == MaxOf(size, MinInnerSize) + (IF align > 1 THEN align ELSE 0)

(* getInnerSize: what follows the padding. *)
GetInnerSize(ptr) ==
    LET real == Unpad(pads, ptr)
    IN  InnerSize(HeaderOf(mapped, real)) - (ptr - real)

Begin(t, label, seg, block) ==
    /\ pc' = [pc EXCEPT ![t] = label]
    /\ op' = [op EXCEPT ![t] = [seg |-> seg, block |-> block, size |-> block.size]]

Finish(t) ==
    /\ pc' = [pc EXCEPT ![t] = "idle"]
    /\ op' = [op EXCEPT ![t] = NoOp]

-----------------------------------------------------------------------------
(* malloc: the source maps a segment. *)
MallocMap(t) ==
    /\ pc[t] = "idle"
    /\ Cardinality(Holding) < MaxBlocks
    /\ \E size \in Sizes, align \in Aligns :
         \E s \in Free(mapped, TotalSize(CheckedSize(size, align))) :
           /\ mapped' = mapped \union {s}
           /\ Begin(t, "register", s,
                    Block(GetPtr(s) + CalcPadding(GetPtr(s), align), size, align))
    /\ UNCHANGED <<hasRegistry, slots, pads, live>>

(* The source registers the segment and writes its header, then the block   *)
(* is padded if the first address is not aligned.                           *)
RegisterSegment(t) ==
    /\ pc[t] = "register"
    /\ LET b == op[t].block
           first == GetPtr(op[t].seg)
       IN  /\ slots' = Register(slots, hasRegistry, op[t].seg)
           /\ pads' = IF b.ptr # first THEN PutPadding(pads, first, b.ptr - first) ELSE pads
           /\ live' = live \union {b}
    /\ Finish(t)
    /\ UNCHANGED <<hasRegistry, mapped>>

(* free: the segment is found from the block, and leaves the registry.      *)
FreeBegin(t) ==
    /\ pc[t] = "idle"
    /\ \E b \in live :
         LET s == HeaderOf(mapped, Unpad(pads, b.ptr))
         IN  /\ live' = live \ {b}
             /\ slots' = Unregister(slots, hasRegistry, s)
             /\ Begin(t, "munmap", s, b)
    /\ UNCHANGED <<hasRegistry, mapped, pads>>

Munmap(t) ==
    /\ pc[t] = "munmap"
    /\ mapped' = mapped \ {op[t].seg}
    /\ pads' = [a \in {w \in DOMAIN pads : ~ Contain(op[t].seg, w)} |-> pads[a]]
    /\ Finish(t)
    /\ UNCHANGED <<hasRegistry, slots, live>>

(* Mutant: only the size is compared, so a block shrinks without limit.     *)
KeptInPlace_Shrink(old, size) == size <= old

(* Mutant: only the difference is compared, which is small for any growth.  *)
KeptInPlace_Grow(old, size) == old - size <= ReallocThreashold

(* realloc keeps the segment when it is large enough and wastes little.     *)
KeptInPlace(old, size) == size <= old /\ old - size <= ReallocThreashold

(* The blocks users resize. Behind a padding there is less room than the    *)
(* segment has, which realloc compares with the new size.                   *)
Resizable == {b \in live : ReallocPadded \/ Unpad(pads, b.ptr) = b.ptr}

(* Otherwise the source unregisters it, moves it, and registers it again.   *)
ReallocBegin(t) ==
    /\ pc[t] = "idle"
    /\ \E b \in Resizable, size \in Sizes :
         LET s == HeaderOf(mapped, Unpad(pads, b.ptr))
         IN  IF KeptInPlace(InnerSize(s), size)
               THEN /\ live' = (live \ {b}) \union {Block(b.ptr, size, 1)}
                    /\ UNCHANGED <<slots, pc, op>>
               ELSE /\ live' = live \ {b}
                    /\ slots' = Unregister(slots, hasRegistry, s)
                    /\ pc' = [pc EXCEPT ![t] = "mremap"]
                    /\ op' = [op EXCEPT ![t] = [seg |-> s, block |-> b, size |-> size]]
    /\ UNCHANGED <<hasRegistry, mapped, pads>>

(* The content of a segment moves with it, its padding words too.           *)
MovedPads(old, new) ==
    LET From(w) == w - new.start + old.start
        kept    == {w \in DOMAIN pads : ~ Contain(old, w)}
        moved   == {w \in new.start .. End(new) - 1 : Contain(old, From(w)) /\ From(w) \in DOMAIN pads}
    IN  [w \in kept \union moved |-> IF w \in moved THEN pads[From(w)] ELSE pads[w]]

(* The block begins where the content of the segment does, padded or not.   *)
Mremap(t) ==
    /\ pc[t] = "mremap"
    /\ \E s \in Remapped(mapped, op[t].seg, TotalSize(op[t].size)) :
         /\ mapped' = (mapped \ {op[t].seg}) \union {s}
         /\ pads' = MovedPads(op[t].seg, s)
         /\ Begin(t, "register", s, Block(GetPtr(s), op[t].size, 1))
    /\ UNCHANGED <<hasRegistry, slots, live>>

-----------------------------------------------------------------------------
Init ==
    /\ hasRegistry \in BOOLEAN
    /\ mapped = {}
    /\ slots = [i \in {} |-> NULL]
    /\ pads = [a \in {} |-> 0]
    /\ live = {}
    /\ pc = [t \in Threads |-> "idle"]
    /\ op = [t \in Threads |-> NoOp]

Next ==
    \E t \in Threads :
        \/ MallocMap(t) \/ RegisterSegment(t)
        \/ FreeBegin(t) \/ Munmap(t)
        \/ ReallocBegin(t) \/ Mremap(t)

Spec == Init /\ [][Next]_vars

-----------------------------------------------------------------------------
(* Properties *)

(* Types; a thread works on a segment exactly while it is in a call.        *)
TypeOK ==
    /\ hasRegistry \in BOOLEAN
    /\ \A s \in mapped : s.start % PageSize = 0 /\ s.size % PageSize = 0 /\ s.size >= Split
    /\ slots \in [DOMAIN slots -> mapped \union {NULL}]
    /\ \A a \in DOMAIN pads : pads[a] \in 0 .. PaddingRange - 1
    /\ \A t \in Threads : op[t].seg = NULL <=> pc[t] = "idle"

(* Every segment belongs to one block, and the block lies in it after the   *)
(* header, aligned: padding never pushes its end outside.                   *)
OneSegmentPerBlock ==
    /\ Cardinality(mapped) = Cardinality(Holding)
    /\ \A b \in Holding : \E s \in mapped :
         GetPtr(s) <= b.ptr /\ b.ptr + b.size <= End(s) /\ b.ptr % b.align = 0

(* The size the allocator reports for a block is at least the one asked,    *)
(* and less than REALLOC_THREASHOLD, the padding, the rounding and the      *)
(* smallest segment are wasted.                                             *)
InnerSizeTight ==
    \A b \in live :
        /\ b.size <= GetInnerSize(b.ptr)
        /\ GetInnerSize(b.ptr) <= MaxOf(b.size + ReallocThreashold, TotalSize(CheckedSize(b.size, b.align)))

(* What is given to munmap or mremap is a whole segment, found from the     *)
(* address of a block with or without padding.                              *)
WholeSegments ==
    \A t \in Threads : pc[t] \in {"munmap", "mremap"} => op[t].seg \in mapped

(* The segments of the system are exact: one for each block, from its       *)
(* header to its last byte, and given back whole.                           *)
SegmentsExact == TypeOK /\ OneSegmentPerBlock /\ WholeSegments

(* The registry finds the segment of every byte of a block in use, and has  *)
(* no entry for memory that is not mapped, whoever mapped the same address  *)
(* again in the middle of a free or a realloc.                              *)
RegistryFollows ==
    /\ \A b \in live : \A a \in b.ptr .. b.ptr + b.size - 1 :
         GetSegment(slots, a) = IF hasRegistry THEN HeaderOf(mapped, Unpad(pads, b.ptr)) ELSE NULL
    /\ \A i \in DOMAIN slots : slots[i] # NULL =>
         \E b \in live : Contain(slots[i], b.ptr)

(* The blocks in use never overlap: the allocator implements BlockHeap. *)
AbstractHeap == INSTANCE BlockHeap WITH blocks <- Holding
Implements == AbstractHeap!Spec
=============================================================================
