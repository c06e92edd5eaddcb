--------------------------- MODULE CachedMMSource ---------------------------
(***************************************************************************)
(* The memory source that keeps the segments given back to it, to reuse    *)
(* them instead of calling the system (lib/mmsource/CachedMMSource.cpp),   *)
(* shared by the allocators of all threads.                                *)
(*                                                                         *)
(* Sizes are in pages.  The lock covers the list and its size, but map     *)
(* looks at the first segment of the list before taking it (the address    *)
(* and then the size: one step here), and unmap decides to keep a segment  *)
(* before taking it.  A search may so use a segment that has left the list *)
(* since it was seen (stale): another call has it, or it is back with      *)
(* another size.  Nothing more is modelled from there.                     *)
(***************************************************************************)
EXTENDS RegionSlots, FiniteSets, SequencesExt

CONSTANTS
    Threads,
    MapSizes,              \* total sizes requested, at least Split
    Top,                   \* the address space is 0..Top-1
    MaxSize, Threshold     \* bounds of the cache and of what enters it

ASSUME SourceAssumption ==
    /\ Threads # {} /\ IsFiniteSet(Threads)
    /\ Top \in Nat /\ MaxSize \in Nat /\ Threshold \in Nat
    /\ MapSizes \subseteq Nat /\ \A n \in MapSizes : n >= Split

VARIABLES
    mapped,                \* pages the system has given and not taken back
    slots,                 \* the registry
    held,                  \* segments in use by the allocators
    keepResidut,           \* keep what is left of a segment cut to size?
    freeList,              \* cached segments, the last one kept first
    currentSize,           \* their total size, as the code counts it
    pc,
    want,                  \* total size map or remap is asked for
    best, bestDelta,       \* locals of searchInCache
    seg,                   \* the segment a call works on
    stale,                 \* did a search use a segment that had left the list?
    over                   \* is the source destroyed?

locals == <<want, best, bestDelta, seg>>
vars == <<mapped, slots, held, keepResidut, freeList, currentSize, pc, locals, stale, over>>

Pages(s) == s.start .. End(s) - 1
At(start, size) == [start |-> start, size |-> size]
Distance(m, n) == IF m < n THEN n - m ELSE m - n

(* The sum of the sizes of a list: its pages, counted one by one.           *)
SizeOf(list) == Cardinality(UNION {{i} \X (1 .. list[i].size) : i \in DOMAIN list})

Init ==
    /\ mapped = {}
    /\ slots = [i \in {} |-> NULL]
    /\ held = {}
    /\ keepResidut \in BOOLEAN
    /\ freeList = <<>>
    /\ currentSize = 0
    /\ pc = [t \in Threads |-> "idle"]
    /\ want = [t \in Threads |-> 0]
    /\ best = [t \in Threads |-> NULL]
    /\ bestDelta = [t \in Threads |-> 0]
    /\ seg = [t \in Threads |-> NULL]
    /\ stale = FALSE
    /\ over = FALSE

Goto(t, label) == pc' = [pc EXCEPT ![t] = label]

Finish(t) ==
    /\ Goto(t, "idle")
    /\ want' = [want EXCEPT ![t] = 0]
    /\ best' = [best EXCEPT ![t] = NULL]
    /\ bestDelta' = [bestDelta EXCEPT ![t] = 0]
    /\ seg' = [seg EXCEPT ![t] = NULL]

(* What mmap and mremap may return (the kernel is external): any range of   *)
(* pages not in use.                                                        *)
FreeRanges(used, size) ==
    {s \in [start : 0 .. Top - size, size : {size}] : Pages(s) \cap used = {}}

-----------------------------------------------------------------------------
(* map *)

(* map chooses between cache and system; searchInCache looks at the first   *)
(* segment of the list without the lock.                                    *)
MapBegin(t) ==
    /\ pc[t] = "idle"
    /\ \E size \in MapSizes :
        /\ want' = [want EXCEPT ![t] = size]
        /\ IF size <= Threshold /\ freeList # <<>>
             THEN /\ best' = [best EXCEPT ![t] = Head(freeList)]
                  /\ bestDelta' = [bestDelta EXCEPT ![t] = Distance(Head(freeList).size, size)]
                  /\ Goto(t, "search")
             ELSE Goto(t, "mmap") /\ UNCHANGED <<best, bestDelta>>
    /\ UNCHANGED <<keepResidut, mapped, slots, held, freeList, currentSize, seg>>

(* Mutant: the distance of the better segment is not kept.                  *)
Closest_OldDelta(list, first, delta, size) == [seg |-> first, delta |-> 0]

(* The scan of the list: the first of the closest segments, if closer than  *)
(* the one seen before the lock.                                            *)
Closest(list, first, delta, size) ==
    LET closer(i) ==
          /\ Distance(list[i].size, size) < delta
          /\ \A j \in DOMAIN list :
               LET d == Distance(list[j].size, size)
               IN  /\ d >= Distance(list[i].size, size)
                   /\ j < i => d > Distance(list[i].size, size)
    IN  IF \E i \in DOMAIN list : closer(i)
          THEN LET i == CHOOSE j \in DOMAIN list : closer(j)
               IN  [seg |-> list[i], delta |-> Distance(list[i].size, size)]
          ELSE [seg |-> first, delta |-> delta]

(* The list without a segment. One that left it since it was seen is linked *)
(* to itself, and removing it changes nothing.                              *)
Unlink(list, s) ==
    IF s \in ToSet(list) THEN RemoveAt(list, CHOOSE i \in DOMAIN list : list[i] = s)
                         ELSE list

(* The segment as it is now: in the list, its address is what counts.       *)
Present(list, s) ==
    LET same == {r \in ToSet(list) : r.start = s.start}
    IN  IF s \in same \/ same = {} THEN s ELSE CHOOSE r \in same : TRUE

(* The critical section: the segment leaves the list, if it is still there. *)
Search(t) ==
    /\ pc[t] = "search"
    /\ LET found == Closest(freeList, best[t], bestDelta[t], want[t])
           taken == Present(freeList, found.seg)
       IN  /\ freeList' = Unlink(freeList, taken)
           /\ currentSize' = currentSize - taken.size
           /\ seg' = [seg EXCEPT ![t] = taken]
           /\ Goto(t, IF found.delta # 0 THEN "fix" ELSE "register")
           /\ stale' = (found.seg \notin ToSet(freeList))
    /\ best' = [best EXCEPT ![t] = NULL]
    /\ bestDelta' = [bestDelta EXCEPT ![t] = 0]
    /\ UNCHANGED <<keepResidut, mapped, slots, held, want>>

(* fixReuseSize, segment too small: the system moves and extends it.        *)
FixMove(t) ==
    /\ pc[t] = "fix" /\ seg[t].size < want[t]
    /\ \E s \in FreeRanges(mapped \ Pages(seg[t]), want[t]) :
        /\ mapped' = (mapped \ Pages(seg[t])) \union Pages(s)
        /\ seg' = [seg EXCEPT ![t] = s]
    /\ Goto(t, "register")
    /\ UNCHANGED <<keepResidut, slots, held, freeList, currentSize, want, best, bestDelta>>

(* Mutant: the residue keeps the size of the segment it was cut from.       *)
Residut_WholeSize(s, size) == At(s.start + size, s.size)

Residut(s, size) == At(s.start + size, s.size - size)

(* fixReuseSize, segment too large: it is cut and the end is cached, in     *)
(* another critical section, or given back.                                 *)
FixSplit(t) ==
    /\ pc[t] = "fix" /\ seg[t].size >= want[t]
    /\ LET rest == Residut(seg[t], want[t])
       IN  IF keepResidut /\ rest.size <= Threshold
             THEN /\ freeList' = <<rest>> \o freeList
                  /\ currentSize' = currentSize + rest.size
                  /\ UNCHANGED mapped
             ELSE /\ mapped' = mapped \ Pages(rest)
                  /\ UNCHANGED <<freeList, currentSize>>
    /\ seg' = [seg EXCEPT ![t] = At(seg[t].start, want[t])]
    /\ Goto(t, "register")
    /\ UNCHANGED <<keepResidut, slots, held, want, best, bestDelta>>

(* Nothing in the cache: the system maps a new segment.  Without memory     *)
(* left, OS::mmap and OS::mremap abort the program: map never sees NULL.    *)
MapSystem(t) ==
    /\ pc[t] = "mmap"
    /\ \E s \in FreeRanges(mapped, want[t]) :
        /\ mapped' = mapped \union Pages(s)
        /\ seg' = [seg EXCEPT ![t] = s]
    /\ Goto(t, "register")
    /\ UNCHANGED <<keepResidut, slots, held, freeList, currentSize, want, best, bestDelta>>

(* registry->setEntry, then the caller has the segment.                     *)
Register(t) ==
    /\ pc[t] = "register"
    /\ slots' = SetEntry(slots, seg[t])
    /\ held' = held \union {seg[t]}
    /\ Finish(t)
    /\ UNCHANGED <<keepResidut, mapped, freeList, currentSize>>

-----------------------------------------------------------------------------
(* remap, unmap, freeAll *)

(* remap leaves the registry before the system moves the segment.           *)
RemapBegin(t) ==
    /\ pc[t] = "idle"
    /\ \E s \in held, size \in MapSizes :
        /\ held' = held \ {s}
        /\ slots' = RemoveEntry(slots, s)
        /\ seg' = [seg EXCEPT ![t] = s]
        /\ want' = [want EXCEPT ![t] = size]
    /\ Goto(t, "mremap")
    /\ UNCHANGED <<keepResidut, mapped, freeList, currentSize, best, bestDelta>>

RemapMove(t) ==
    /\ pc[t] = "mremap"
    /\ \E s \in FreeRanges(mapped \ Pages(seg[t]), want[t]) :
        /\ mapped' = (mapped \ Pages(seg[t])) \union Pages(s)
        /\ seg' = [seg EXCEPT ![t] = s]
    /\ Goto(t, "register")
    /\ UNCHANGED <<keepResidut, slots, held, freeList, currentSize, want, best, bestDelta>>

Keeps(size, total) == size <= Threshold /\ size + total <= MaxSize

(* Mutant: unmap leaves the segment in the registry.                        *)
Unregister_Forgotten(s) == slots

Unregister(s) == RemoveEntry(slots, s)

(* unmap leaves the registry and decides, without the lock, where the       *)
(* segment goes.                                                            *)
UnmapBegin(t) ==
    /\ pc[t] = "idle"
    /\ \E s \in held :
        /\ held' = held \ {s}
        /\ slots' = Unregister(s)
        /\ seg' = [seg EXCEPT ![t] = s]
        /\ Goto(t, IF Keeps(s.size, currentSize) THEN "keep" ELSE "munmap")
    /\ UNCHANGED <<keepResidut, mapped, freeList, currentSize, want, best, bestDelta>>

(* Mutant: the size of the cache is not updated.                            *)
UnmapKeep_NotCounted(t) ==
    /\ pc[t] = "keep"
    /\ freeList' = <<seg[t]>> \o freeList
    /\ Finish(t)
    /\ UNCHANGED <<keepResidut, mapped, slots, held, currentSize>>

UnmapKeep(t) ==
    /\ pc[t] = "keep"
    /\ freeList' = <<seg[t]>> \o freeList
    /\ currentSize' = currentSize + seg[t].size
    /\ Finish(t)
    /\ UNCHANGED <<keepResidut, mapped, slots, held>>

UnmapSystem(t) ==
    /\ pc[t] = "munmap"
    /\ mapped' = mapped \ Pages(seg[t])
    /\ Finish(t)
    /\ UNCHANGED <<keepResidut, slots, held, freeList, currentSize>>

(* The destructor calls freeAll when no thread uses the source any more.    *)
(* The segments are given back but stay in the list: a call that came later *)
(* would find them there.                                                   *)
FreeAll ==
    /\ \A t \in Threads : pc[t] = "idle"
    /\ mapped' = mapped \ UNION {Pages(s) : s \in ToSet(freeList)}
    /\ currentSize' = currentSize - SizeOf(freeList)
    /\ over' = TRUE
    /\ UNCHANGED <<keepResidut, slots, held, freeList, pc, locals, stale>>

Step(t) ==
    \/ Search(t)
    \/ /\ \/ MapBegin(t) \/ FixMove(t) \/ FixSplit(t) \/ MapSystem(t) \/ Register(t)
          \/ RemapBegin(t) \/ RemapMove(t)
          \/ UnmapBegin(t) \/ UnmapKeep(t) \/ UnmapSystem(t)
       /\ UNCHANGED stale

Next ==
    /\ ~ stale /\ ~ over
    /\ \/ FreeAll
       \/ UNCHANGED over /\ \E t \in Threads : Step(t)

Spec == Init /\ [][Next]_vars

-----------------------------------------------------------------------------
(* Properties *)

Segments == {s \in [start : 0 .. Top - 1, size : 1 .. Top] : End(s) <= Top}

(* Types; every call works on one segment from the moment it owns it.       *)
TypeOK ==
    /\ mapped \subseteq 0 .. Top - 1
    /\ slots \in [DOMAIN slots -> Segments \union {NULL}]
    /\ held \subseteq {s \in Segments : s.size \in MapSizes}
    /\ ToSet(freeList) \subseteq Segments
    /\ currentSize \in Int
    /\ \A t \in Threads :
         /\ seg[t] \in Segments \union {NULL}
         /\ seg[t] # NULL <=> pc[t] \in {"fix", "register", "mremap", "keep", "munmap"}
         /\ best[t] # NULL <=> pc[t] = "search"
         /\ want[t] \in MapSizes \union {0}

Working == {t \in Threads : seg[t] # NULL}

(* Every page the system gave belongs to one segment: in use, in the cache, *)
(* or in the hands of one call.  Cutting, moving and caching lose no page   *)
(* and give none to two owners; the end of the source gives the cache back. *)
PagesOwnedOnce ==
    LET cached == IF over THEN {} ELSE DOMAIN freeList
        owners(p) == Cardinality({s \in held : p \in Pages(s)})
                   + Cardinality({i \in cached : p \in Pages(freeList[i])})
                   + Cardinality({t \in Working : p \in Pages(seg[t])})
    IN  \A p \in 0 .. Top - 1 : owners(p) = IF p \in mapped THEN 1 ELSE 0

(* The size the code keeps is the size of the cache, and freeAll leaves it  *)
(* at zero, as it asserts.                                                  *)
CacheSizeExact == currentSize = IF over THEN 0 ELSE SizeOf(freeList)

(* The cache is bounded although unmap tests its size before it takes the   *)
(* lock: every other thread may have added one segment since the test.      *)
CacheBounded ==
    currentSize <= MaxSize + (Cardinality(Threads) - 1) * Threshold

(* A segment is handed out with the size that was asked, whatever the cache *)
(* held: the header written in it tells the allocator that size.            *)
SizeAsAsked ==
    \A t \in Threads :
        pc[t] = "register" => seg[t].size = want[t]

(* getSegment finds the segment of every address in use and nothing in a    *)
(* segment cached or given back.                                            *)
RegistryExact ==
    \A a \in 0 .. Top - 1 :
        LET owner == {s \in held : Contain(s, a)}
        IN  IF owner = {} THEN GetSegment(slots, a) = NULL
                          ELSE GetSegment(slots, a) \in owner

(* setEntry asserts that the entries of the segment are empty: memory in    *)
(* use is not handed out again.                                             *)
EntriesFree ==
    \A t \in Threads : pc[t] = "register" =>
        \A k \in TurnsOf(SetAgain, seg[t]) :
            Entry(slots, seg[t].start + k * Split) = NULL

(* As long as no search used a stale segment: the pages, the calls that hold*)
(* some of them and the table are exact.                                    *)
PagesExact == TypeOK /\ (~ stale => PagesOwnedOnce)

(* The size of the cache is counted right, and it is bounded. *)
CacheExact == ~ stale => CacheSizeExact /\ CacheBounded

(* What a call hands out is as large as it was asked to be. *)
ServesAsAsked == ~ stale => SizeAsAsked

(* The registry has exactly the segments in use, before and after each call.*)
RegistryFollows == ~ stale => RegistryExact /\ EntriesFree
=============================================================================
