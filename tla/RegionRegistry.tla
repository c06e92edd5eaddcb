--------------------------- MODULE RegionRegistry ---------------------------
(***************************************************************************)
(* The global registry that finds the segment, and so the allocator, of an *)
(* address (lib/common/RegionRegistry.cpp), used by all threads at once:   *)
(* entries are read and written without a lock, one slot at a time.        *)
(*                                                                         *)
(* A thread that mapped a segment registers it, any thread may look up an  *)
(* address of a block of a registered segment, and the segment is removed  *)
(* and unmapped once no block of it is in use.                             *)
(***************************************************************************)
EXTENDS RegionSlots

CONSTANTS
    Threads,
    Sizes,                 \* total sizes of segments, at least Split
    Top,                   \* the address space is 0..Top-1
    Reloads                \* may the build read the entry again in getSegment?

ASSUME SizesAssumption == Sizes \subseteq Nat /\ \A n \in Sizes : n >= Split
ASSUME ReloadsAssumption == Reloads \in BOOLEAN
ASSUME TopAssumption == Top \in Nat \ {0}

VARIABLES
    life,                  \* "running", then "over" (all unmapped), "faulted"
                           \* (while unmapping) or "cleared"
    slots,                 \* the entries of the regions in the table
    regions,               \* the regions whose pages are mapped
    mapped,                \* segments the operating system gave
    held,                  \* those registered, with blocks in use
    pc, seg,               \* control point and segment of every thread
    turn,                  \* turn of the loop of setEntry or remove
    addr,                  \* address getSegment looks up
    entry                  \* what it read

vars == <<life, slots, regions, mapped, held, pc, seg, turn, addr, entry>>

Segments ==
    {s \in [start : 0 .. Top - 1, size : Sizes] : End(s) <= Top}

RegionOf(i) == i \div RegionSlots

Init ==
    /\ life = "running"
    /\ slots = [i \in {} |-> NULL]
    /\ regions = {}
    /\ mapped = {}
    /\ held = {}
    /\ pc = [t \in Threads |-> "idle"]
    /\ seg = [t \in Threads |-> NULL]
    /\ turn = [t \in Threads |-> 0]
    /\ addr = [t \in Threads |-> 0]
    /\ entry = [t \in Threads |-> NULL]

Goto(t, label) == pc' = [pc EXCEPT ![t] = label]

(* The locals of a finished call are dead.                                  *)
Reset(t) ==
    /\ Goto(t, "idle")
    /\ seg' = [seg EXCEPT ![t] = NULL]
    /\ turn' = [turn EXCEPT ![t] = 0]
    /\ addr' = [addr EXCEPT ![t] = 0]
    /\ entry' = [entry EXCEPT ![t] = NULL]

-----------------------------------------------------------------------------
(* setEntry *)

(* The memory source gets a segment from the system and registers it.       *)
Map(t) ==
    /\ pc[t] = "idle"
    /\ \E s \in Segments :
        /\ \A r \in mapped : Disjoint(s, r)
        /\ mapped' = mapped \union {s}
        /\ seg' = [seg EXCEPT ![t] = s]
    /\ Goto(t, "set")
    /\ UNCHANGED <<slots, held, turn, addr, entry>>

(* One turn: the region is created if needed, under the lock, then the      *)
(* entry is written.                                                        *)
SetSlot(t) ==
    /\ pc[t] = "set"
    /\ SetAgain(seg[t], turn[t])
    /\ slots' = StoreEntry(slots, TurnSlot(seg[t], turn[t]), seg[t])
    /\ regions' = regions \union {RegionOf(TurnSlot(seg[t], turn[t]))}
    /\ turn' = [turn EXCEPT ![t] = @ + 1]
    /\ UNCHANGED <<mapped, held, pc, seg, addr, entry>>

SetDone(t) ==
    /\ pc[t] = "set"
    /\ ~ SetAgain(seg[t], turn[t])
    /\ held' = held \union {seg[t]}
    /\ Reset(t)
    /\ UNCHANGED <<slots, mapped>>

-----------------------------------------------------------------------------
(* remove *)

(* Nobody looks up an address of a segment whose last block was freed.      *)
RemoveBegin(t) ==
    /\ pc[t] = "idle"
    /\ \E s \in held :
        /\ \A r \in Threads : pc[r] \in {"near", "compare", "previous", "found"} =>
                                ~ Contain(s, addr[r])
        /\ held' = held \ {s}
        /\ seg' = [seg EXCEPT ![t] = s]
    /\ Goto(t, "remove")
    /\ UNCHANGED <<slots, mapped, turn, addr, entry>>

(* The entry is cleared if it is ours. Without its region the assertion of  *)
(* remove fails and the thread goes no further.                             *)
RemoveSlot(t) ==
    /\ pc[t] = "remove"
    /\ RemoveAgain(seg[t], turn[t])
    /\ TurnSlot(seg[t], turn[t]) \in DOMAIN slots
    /\ slots' = ClearEntry(slots, TurnSlot(seg[t], turn[t]), seg[t])
    /\ turn' = [turn EXCEPT ![t] = @ + 1]
    /\ UNCHANGED <<mapped, held, pc, seg, addr, entry>>

(* The memory source gives the segment back to the system.                  *)
Unmap(t) ==
    /\ pc[t] = "remove"
    /\ ~ RemoveAgain(seg[t], turn[t])
    /\ mapped' = mapped \ {seg[t]}
    /\ Reset(t)
    /\ UNCHANGED <<slots, held>>

-----------------------------------------------------------------------------
(* getSegment *)

LookupBegin(t) ==
    /\ pc[t] = "idle"
    /\ \E s \in held : \E a \in s.start .. End(s) - 1 :
        addr' = [addr EXCEPT ![t] = a]
    /\ Goto(t, "near")
    /\ UNCHANGED <<slots, mapped, held, seg, turn, entry>>

(* The slot of the address is read and compared to NULL.                    *)
ReadNear(t) ==
    /\ pc[t] = "near"
    /\ LET near == Entry(slots, addr[t])
       IN  /\ entry' = [entry EXCEPT ![t] = near]
           /\ Goto(t, IF near = NULL THEN "previous" ELSE "compare")
    /\ UNCHANGED <<slots, mapped, held, seg, turn, addr>>

(* Then compared to the address: nothing orders this plain read after the   *)
(* first, a build may read once or twice.  An entry that became NULL        *)
(* compares as not greater and is taken as the result.                      *)
Compare(t) ==
    /\ pc[t] = "compare"
    /\ \E near \in {entry[t]} \union (IF Reloads THEN {Entry(slots, addr[t])} ELSE {}) :
        IF near # NULL /\ UsePrevious(near, addr[t])
          THEN Goto(t, "previous") /\ UNCHANGED entry
          ELSE /\ Goto(t, "found")
               /\ entry' = [entry EXCEPT ![t] = Found(near, addr[t])]
    /\ UNCHANGED <<slots, mapped, held, seg, turn, addr>>

ReadPrevious(t) ==
    /\ pc[t] = "previous"
    /\ entry' = [entry EXCEPT ![t] = Found(Entry(slots, addr[t] - Split), addr[t])]
    /\ Goto(t, "found")
    /\ UNCHANGED <<slots, mapped, held, seg, turn, addr>>

Return(t) ==
    /\ pc[t] = "found"
    /\ Reset(t)
    /\ UNCHANGED <<slots, mapped, held>>

-----------------------------------------------------------------------------
(* The end: called when no other thread uses the registry.                  *)

AllIdle == \A t \in Threads : pc[t] = "idle"

(* The visits to a segment that an earlier visit has already unmapped: the  *)
(* size to unmap is in its header, which is gone.                           *)
Dangling ==
    {i \in UnmapVisits(slots) :
        \E j \in UnmapVisits(slots) : j < i /\ slots[j] = slots[i]}

(* cleanupRegisterdMemory: region after region, the segments are unmapped   *)
(* through their entries, then the region; the program faults at the first  *)
(* header that is gone.  The table keeps its pointers to the regions.       *)
UnmapAll ==
    /\ life = "running" /\ AllIdle
    /\ life' = IF Dangling = {} THEN "over" ELSE "faulted"
    /\ LET reached == {i \in UnmapVisits(slots) : \A j \in Dangling : i < j}
       IN  mapped' = mapped \ {slots[i] : i \in reached}
    /\ regions' = {r \in regions : \E j \in Dangling : RegionOf(j) <= r}
    /\ held' = {}
    /\ UNCHANGED <<slots, pc, seg, turn, addr, entry>>

(* The destructor: new pages are mapped in the place of every region of the *)
(* table, unmapped before or not, and the table forgets it.                 *)
ClearAll ==
    /\ life \in {"running", "over"} /\ AllIdle
    /\ life' = "cleared"
    /\ regions' = regions \union {RegionOf(i) : i \in DOMAIN slots}
    /\ slots' = [i \in {} |-> NULL]
    /\ held' = {}
    /\ UNCHANGED <<mapped, pc, seg, turn, addr, entry>>

-----------------------------------------------------------------------------
Use(t) ==
    /\ life = "running"
    /\ \/ SetSlot(t)
       \/ /\ \/ Map(t) \/ SetDone(t)
             \/ RemoveBegin(t) \/ RemoveSlot(t) \/ Unmap(t)
             \/ LookupBegin(t) \/ ReadNear(t) \/ Compare(t) \/ ReadPrevious(t) \/ Return(t)
          /\ UNCHANGED regions
    /\ UNCHANGED life

Next == (\E t \in Threads : Use(t)) \/ UnmapAll \/ ClearAll

Spec == Init /\ [][Next]_vars

-----------------------------------------------------------------------------
(* Properties *)

(* Types; a thread holds a segment exactly while it registers or removes it.*)
TypeOK ==
    /\ life \in {"running", "over", "faulted", "cleared"}
    /\ regions \subseteq Nat
    /\ slots \in [DOMAIN slots -> Segments \union {NULL}]
    /\ \A i \in DOMAIN slots : \A j \in 0 .. Top :
         j < Top \div Split /\ j \div RegionSlots = i \div RegionSlots => j \in DOMAIN slots
    /\ held \subseteq mapped /\ mapped \subseteq Segments
    /\ pc \in [Threads -> {"idle", "set", "remove", "near", "compare", "previous", "found"}]
    /\ \A t \in Threads :
         /\ seg[t] \in Segments \union {NULL}
         /\ seg[t] # NULL <=> pc[t] \in {"set", "remove"}
         /\ entry[t] \in Segments \union {NULL}
    /\ turn \in [Threads -> Nat]
    /\ addr \in [Threads -> 0 .. Top - 1]

(* setEntry asserts that the entry it writes is empty (line 246):            *)
(* no two segments claim one slot, although segments are not aligned on     *)
(* slots and neighbours share one.                                          *)
SlotsFree ==
    \A t \in Threads :
        pc[t] = "set" /\ SetAgain(seg[t], turn[t]) =>
            Entry(slots, seg[t].start + turn[t] * Split) = NULL

(* A slot points to the mapped segment that holds its last byte, and every  *)
(* segment in use has all such slots: no entry outlives its segment, which  *)
(* getSegment would dereference after it was unmapped, before the end.      *)
LastByte(i) == (i + 1) * Split - 1

SlotsExact ==
    life = "running" =>
    /\ \A i \in DOMAIN slots :
         slots[i] # NULL => slots[i] \in mapped /\ Contain(slots[i], LastByte(i))
    /\ \A s \in held : \A i \in 0 .. SlotOf(Top - 1) :
         Contain(s, LastByte(i)) => i \in DOMAIN slots /\ slots[i] = s

(* The table is exact at every step of every thread: what is written goes   *)
(* to an empty slot, and what is in a slot is a segment it belongs to.      *)
TableExact == TypeOK /\ SlotsFree /\ SlotsExact

(* The look up of an address in use finds its segment, whatever other       *)
(* threads register and remove around it: free would otherwise ignore the   *)
(* block.                                                                   *)
LookupExact ==
    \A t \in Threads :
        pc[t] = "found" => \E s \in held : entry[t] = s /\ Contain(s, addr[t])

(* At the end unmapAllMemory unmaps every segment in use and every region,  *)
(* and it stops on a header that is gone exactly when a segment has slots   *)
(* in two regions: within one region, the slots of a segment follow each    *)
(* other and it is visited once.                                            *)
OverTwoRegions ==
    \E i, j \in DOMAIN slots :
        slots[i] # NULL /\ slots[i] = slots[j] /\ RegionOf(i) # RegionOf(j)

UnmapAllExact ==
    /\ life = "over" => mapped = {} /\ regions = {} /\ ~ OverTwoRegions
    /\ life = "faulted" => OverTwoRegions
=============================================================================
