---------------------------- MODULE DummyMMSource ----------------------------
(***************************************************************************)
(* The memory source that asks the system for each segment                 *)
(* (lib/mmsource/DummyMMSource.cpp).  mapped is the set of segments of the *)
(* system; a call to the registry and a call to the system are separate    *)
(* steps of the callers, so they are separate operators.                   *)
(***************************************************************************)
EXTENDS RegionSlots

CONSTANTS
    PageSize,              \* PAGE_SIZE
    SegmentHeader,         \* sizeof(RegionSegmentHeader)
    AddressEnd             \* bound: the system maps below this address

ASSUME PageAssumption ==
    PageSize \in Nat \ {0} /\ SegmentHeader \in Nat \ {0} /\ AddressEnd \in Nat

MaxOf(x, y) == IF x < y THEN y ELSE x
RoundUp(n, k) == ((n + k - 1) \div k) * k

(* A segment is never smaller than a slot of the registry. *)
TotalSize(inner) == RoundUp(MaxOf(inner + SegmentHeader, Split), PageSize)

(* The header: where blocks start, and back.                                *)
GetPtr(s) == s.start + SegmentHeader
InnerSize(s) == s.size - SegmentHeader

(* RegionSegmentHeader::getSegment of the first address of a segment: what  *)
(* is mapped there gives its size, other addresses hold no header.          *)
HeaderOf(mapped, ptr) ==
    [start |-> ptr - SegmentHeader,
     size  |-> IF \E s \in mapped : GetPtr(s) = ptr
                 THEN (CHOOSE s \in mapped : GetPtr(s) = ptr).size ELSE 0]

(* What mmap may return: pages that are free.                               *)
Free(mapped, size) ==
    {s \in [start : {p \in 0 .. AddressEnd - size : p % PageSize = 0}, size : {size}] :
        \A r \in mapped : Disjoint(s, r)}

(* What mremap may return: the same place if there is room, or free pages.  *)
Remapped(mapped, old, size) ==
    {s \in Free(mapped \ {old}, size) : s.start = old.start \/ Disjoint(s, old)}

(* Mutant: a segment that moves stays registered where it was. *)
Unregister_Kept(slots, registered, s) == slots

(* registry->remove and setEntry, when the source was given a registry.     *)
Unregister(slots, registered, s) == IF registered THEN RemoveEntry(slots, s) ELSE slots
Register(slots, registered, s)   == IF registered THEN SetEntry(slots, s) ELSE slots
=============================================================================
