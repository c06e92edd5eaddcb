----------------------------- MODULE RegionSlots -----------------------------
(***************************************************************************)
(* The layout of the registry of segments (lib/common/RegionRegistry.cpp): *)
(* the address space is cut in slots of Split bytes (REGION_SPLITTING),    *)
(* grouped in regions; a slot points to the segment that registered it.    *)
(* slots is a function over the slots of the regions created so far.       *)
(***************************************************************************)
EXTENDS Integers

CONSTANTS
    Split,                 \* bytes of a slot, REGION_SPLITTING
    RegionSlots,           \* slots of a region, REGION_ENTRIES
    NULL

ASSUME SplitAssumption == Split \in Nat \ {0} /\ RegionSlots \in Nat \ {0}
ASSUME NullAssumption == NULL \notin [start : Nat, size : Nat]

End(s) == s.start + s.size
Contain(s, a) == s.start <= a /\ a < End(s)
Disjoint(s, r) == End(s) <= r.start \/ End(r) <= s.start

SlotOf(a) == a \div Split

(* ceilToPowOf2 clears the low bits: despite its name it rounds down.       *)
CeilToPowOf2(a) == (a \div Split) * Split

(* The conditions of the loops of setEntry and remove, k the turn.          *)
SetAgain(s, k) == s.start + k * Split < CeilToPowOf2(End(s))

(* Mutant: only the whole slots of the size are looked at.                  *)
RemoveAgain_Whole(s, k) == k < s.size \div Split

RemoveAgain(s, k) == k * Split < s.size

TurnSlot(s, k) == SlotOf(s.start + k * Split)

(* getRegionEntry: the entry of an address, none where no region was made.  *)
Entry(slots, a) == IF SlotOf(a) \in DOMAIN slots THEN slots[SlotOf(a)] ELSE NULL

(* getRegionEntry with creation: setupNewRegion maps a region, all zero.    *)
EnsureRegion(slots, i) ==
    LET first == (i \div RegionSlots) * RegionSlots
    IN  [j \in DOMAIN slots \union (first .. first + RegionSlots - 1) |->
           IF j \in DOMAIN slots THEN slots[j] ELSE NULL]

StoreEntry(slots, i, s) == [EnsureRegion(slots, i) EXCEPT ![i] = s]

ClearEntry(slots, i, s) == IF slots[i] = s THEN [slots EXCEPT ![i] = NULL] ELSE slots

(* setEntry and remove as a whole.                                          *)
TurnsOf(Again(_, _), s) == {k \in 0 .. s.size \div Split : Again(s, k)}

SetEntry(slots, s) ==
    LET mine == {TurnSlot(s, k) : k \in TurnsOf(SetAgain, s)}
        made == {i \div RegionSlots : i \in mine}
    IN  [j \in DOMAIN slots \union
               UNION {r * RegionSlots .. (r + 1) * RegionSlots - 1 : r \in made} |->
           IF j \in mine THEN s ELSE IF j \in DOMAIN slots THEN slots[j] ELSE NULL]

RemoveEntry(slots, s) ==
    LET mine == {TurnSlot(s, k) : k \in TurnsOf(RemoveAgain, s)}
    IN  [j \in DOMAIN slots |-> IF j \in mine /\ slots[j] = s THEN NULL ELSE slots[j]]

(* Mutant: getSegment without the try of the previous slot.                 *)
UsePrevious_Never(near, a) == FALSE

(* getSegment looks one slot back when the slot of the address is empty or  *)
(* belongs to a segment that starts after it.                               *)
UsePrevious(near, a) == near = NULL \/ near.start > a

Found(entry, a) == IF entry = NULL \/ ~ Contain(entry, a) THEN NULL ELSE entry

GetSegment(slots, a) ==
    LET near == Entry(slots, a)
    IN  Found(IF UsePrevious(near, a) THEN Entry(slots, a - Split) ELSE near, a)

(* Mutant: the segments of all the slots of a region are unmapped.          *)
UnmapVisits_EverySlot(slots) == {i \in DOMAIN slots : slots[i] # NULL}

(* unmapRegisteredMemory: the slots whose segment is unmapped, those that   *)
(* differ from the slot before them in the same region.                     *)
UnmapVisits(slots) ==
    {i \in DOMAIN slots : /\ slots[i] # NULL
                          /\ i % RegionSlots # 0 => slots[i] # slots[i - 1]}
=============================================================================
