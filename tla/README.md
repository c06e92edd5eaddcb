# Formal models of MPCAllocator

TLA+ modules for the memory allocator in `src/src/lib`: what its components do,
step by step where threads can meet, what TLC checks about them on small
instances, and what TLAPS proves for every instance. Paths below are relative
to `src/src/lib/` unless they start with `src/`.

## 1. The system

A call to `malloc` goes to the allocator of the thread (`PosixAllocatorLocal`),
which hands it to one of three chunk managers by size: `SmallAllocator` (runs
of equal cells), `MediumAllocator` (a heap of chunks with headers) or
`HugeAllocator` (a segment per block; the dispatch as it is written sends
nothing to it, only tests do). Managers get segments from a memory
source (`CachedMMSource`), which keeps some of them in a cache and registers
those in use in `RegionRegistry`. `free` asks the registry for the segment of
an address, and so for its manager. A manager that takes a lock frees the block
itself, whoever calls; the block of a manager without one is meant for the
`MPSCFQueue` of the thread that owns it, which every `malloc` and `free` of that
thread flushes (`PosixAllocator::flushRemote`). The library builds its managers
with locks today and `remoteFree` without one aborts, so only the test
`src/src/tests/TestMPSCFQueue.cpp` inserts in a queue, although the project's
README names the lock-free list among its features.

| Component | State | Operations | Used by / uses | Hard part | Correct means |
|---|---|---|---|---|---|
| `common/MPSCFQueue` | head, tail, a link in every block | insert, dequeueAll, isEmpty | allocators of other threads / their owner | lock free, links live in the memory that is given away | a block handed back is freed once, in order, and eventually |
| `chunks/MediumChunk` | next, prev, status in every header | setup, split, merge, isSingle, check | MediumAllocator, MediumFreePool | both directions of the chain, partly read without the lock | chunks tile the area |
| `chunks/MediumFreePool` | segregated lists, a flag per list | insert, remove, findChunk, merge, tryMergeForSize | MediumAllocator | classes are lower bounds of a list, searches look for upper ones | lists hold the free chunks, a search misses none |
| `chunks/MediumAllocator` | pool, lock, memory source | malloc, free, realloc, fill, refill | PosixAllocatorLocal / memory source | reads before the lock, unmap after it, padding | blocks do not overlap, no chunk is lost |
| `chunks/PaddedChunk` | a header before an aligned block | pad, unpad | MediumAllocator, HugeAllocator | width of its fields | unpad finds the chunk |
| `common/DoubleLinkList` | links in elements | put, pop, remove, iterate | all lists | elements linked to themselves when out, nothing tells the list of an element | links agree both ways and stay in memory that exists |
| `chunks/SmallChunkRun`, `SmallRunContainer` | a bitmap, a count per run; list of empty runs, a count per container | setup, malloc, free, getEmptyRun | SmallAllocator | headers hidden in cells | a cell is handed out once, clear of headers |
| `chunks/SmallAllocator` | active run per class, lists of runs, lock | malloc, free, realloc, refill, fill | PosixAllocatorLocal / memory source | runs that become full, empty, belong elsewhere | every run in one place, no container unmapped in use, none asked for in vain |
| `chunks/HugeAllocator` | none beyond segments | malloc, free, realloc | PosixAllocatorLocal / memory source | no lock, padding across remap | a segment per block, found again and unmapped whole |
| `common/RegionRegistry` | table of regions, table of slots | setEntry, remove, getSegment, unmapAllMemory, clearAll | memory sources, PosixAllocator | no lock on entries, segments that share slots | every block in use finds its segment |
| `mmsource/CachedMMSource` | list of cached segments, its size | map, remap, unmap, freeAll | managers / OS, registry | first candidate read before the lock, bound tested before it | no page lost or shared |
| `mmsource/DummyMMSource` | none | map, remap, unmap | HugeAllocator (tests) / OS, registry | order of registry and system calls | the registry follows the system |
| `posix/PosixAllocatorLocal` | its managers, its remote queue | malloc, free, realloc, flushRemote | PosixAllocator | dispatch by size, the zero flag, realloc across kinds | blocks as large as asked, with their contents |
| `posix/PosixAllocator`, `PosixAllocatorNUMA`, `PosixExport` | allocators of the threads, the global allocator, the mutex of its initialisation | the C interface | user code / hwloc | first call, races to it and re-enters itself | built once, no thread waits for itself, every call returns |
| `posix/PosixAllocatorFileTrace` | ids of threads, lock, file | the C interface | user code / the C library | event and answer are two writes; the program may die between | the file is what happened |
| `src/src/tools` | position in a trace, addresses mapped, segments seen | replay, check of collisions, search of a bug | developers | traces with failed or lost calls | the replay repeats the calls |
| OS, locks, atomics, topology, json | none that matters here | | | | |

Every component, modelled or not and why, is in `PROJECT.json`, with the list of
hazards: the places where the code can go wrong in ways a test would hardly
reach.

## 2. The modules

| Module | Models | Grain |
|---|---|---|
| `FlushQueue` | what the remote free queue promises: put, take everything, release oldest first | one operation |
| `MPSCFQueue` | `MPSCFQueue.cpp` and the loop of `PosixAllocatorLocal::flushRemote` | one access to shared memory |
| `MPSCFQueue_proof` | theorems about it | |
| `BlockHeap` | what an allocator promises: blocks in use do not overlap | one operation |
| `MediumChunk` | `MediumChunk.cpp`: operators on a heap of headers | pure |
| `MediumFreePool` | `MediumFreePool.cpp`: operators on lists and flags, extends `MediumChunk` | pure |
| `MediumAllocator` | `MediumAllocator.cpp`: threads, lock, segments, extends `MediumFreePool` | one critical section, merge in two writes, code outside the lock apart |
| `FreeListIndex` | `getFreeListByDichotomy` and `getFreeListByAnalytic` | one round of the loop |
| `DoubleLinkList` | `DoubleLinkList_impl.h`: roots and elements in one memory of links | pure |
| `SmallChunkRun`, `SmallRunContainer` | runs and containers, operators on the record of their headers; the second extends `DoubleLinkList` too | pure |
| `SmallAllocator` | `SmallAllocator.cpp` by several threads, extends `SmallRunContainer` | one critical section, code outside the lock apart |
| `RegionSlots` | the slots of `RegionRegistry.cpp`: operators on the table | pure |
| `RegionRegistry` | `setEntry`, `remove`, `getSegment` by several threads, then the end of life, extends `RegionSlots` | one slot, one read |
| `CachedMMSource` | `CachedMMSource.cpp` by several threads, extends `RegionSlots` | one critical section, code outside the lock apart |
| `DummyMMSource` | `DummyMMSource.cpp` and the calls of `OSLinux.cpp` it makes, extends `RegionSlots` | pure |
| `PaddedChunk` | `PaddedChunk_inline.h`, with the width of the padding | pure |
| `HugeAllocator` | `HugeAllocator.cpp` by several threads, extends `DummyMMSource` and `PaddedChunk` | one call to the registry, one call to the system |
| `PosixAllocator` | `PosixExport.cpp`, `PosixAllocator.cpp`, `PosixAllocatorLocal.cpp`, `PosixAllocatorNUMA.cpp` | one access to the pointer or the mutex, one allocation |
| `FileTrace` | `PosixAllocatorFileTrace.cpp` over the C library | one write, one library call |
| `CollisionChecker` | `src/src/tools/CollisionChecker.cpp` | pure |
| `TraceReplay` | `TraceReader.cpp`, `EventDispatch.cpp`, `EventDispatchReplay.cpp` of `src/src/tools`, extends `FileTrace` and `CollisionChecker` | one call of the trace |
| `MPSCFQueue_proof`, `MediumAllocator_proof` (with `FreeListIndex`), `RegionRegistry_proof`, `CachedMMSource_proof`, `HugeAllocator_proof`, `SmallAllocator_proof`, `PosixAllocator_proof`, `TraceReplay_proof` | theorems about these modules | |
| `MC*` | instances of the others for TLC: tables of sizes, areas, symmetry | |

Definitions keep the names of the source; `PROJECT.json` maps each one to its
lines. Operators named `X_Something` next to an operator `X` are mutants: a
plausible bug in that code, which the property listed with it detects.

**MPSCFQueue.** `next[e]` is the first word of block `e`, which is user memory
again once freed: `ReleaseCurrent` gives it any value, and `Init` starts with
any. `insert` is three actions (clear the link, swap the tail, write the link or
the head), `dequeueAll` is `LoadHead`, `ClearHead`, `DequeueSwapTail`, then
`WalkStep` until `WalkDone` (`waitUntilEndId`), and `flushRemote` frees with
`ReleaseCurrent`. `queued` and `batch` are history variables: the order of the
swaps, and what the last swap took. The loop of `flushRemote` runs on the
thread of the owner only; other queues of the process do not share state with it.
The producers are those of `src/src/tests/TestMPSCFQueue.cpp`: several threads
that insert blocks they hold, one that takes them.

**MediumAllocator.** Addresses and sizes are words of 8 bytes, a header is 3
words. A heap is a record: `next`, `prev`, `status` on the addresses that hold a
header now, `lists` and `filled` for the pool. A block carries the address given
to the user and `data`, the address where the bytes written by the user are: a
`memcpy` moves it and a change of address alone does not. The lock serialises
critical sections, so each is one action, except that `merge` writes two words
and `free` and `realloc` read headers before the lock: the two writes are
`FreeMerge`/`FreeInsert` and `Resize`/`Grow`. `Unmap` runs after the lock, as in
`free`. The memory source is external: it maps a segment at any free base of
`Bases`, of the size `CachedMMSource` computes. `ReallocPadded` says whether
`realloc` is called on aligned blocks.
The constants in bytes of the source are read in words; `Sizes` is the table of
the pool, its first entry the least size of a chunk and its last one
`Unlimited`. `Checked` are the sizes the critical sections are entered with, once
rounded up and with room for the alignment.

**FreeListIndex.** Bytes, with the table of the source. `tablePtr`, `segSize` and
`middle` are `ptr`, `segSize` and `i` of the function. A pool may use a
prefix of it, so every length in `TableLengths` is tried.

**DoubleLinkList, SmallChunkRun, SmallRunContainer, SmallAllocator.** Bytes. The
lists are functions `next` and `prev` on nodes; a node is a root (`InUse(k)`,
`EmptyRuns(c)`, `Containers`) or an element inside a header (`RunNode(r)`,
`ContainerNode(c)`), and unmapping a segment drops the nodes in it
(`DropNodes`): a link left behind would point outside the domain. A run is a record, its
bitmap the set `free`; the cells under the skipped bytes and under the bitmap
are never in it. `mem` is all of these. `Malloc` is the critical section of
`malloc` with everything it calls (`UpdateActivRun`, `TakeEmpty`, `Refill`),
`FreeBegin` the look at the run before the lock, `FreeCell` the rest of `free`
down to the unmap of the container (which the code does with the lock held).
`ReallocBegin` reads the class without a lock; `Move` is the `malloc` and the
copy, and `FreeCell` follows. `Fill` gives an area of the user, with and
without the header a registry needs, when there is no memory source.

**RegionSlots, RegionRegistry.** A slot of `Split` bytes points to one segment,
`RegionSlots` slots make a region, created at the first entry in it.
`setEntry` writes the slots whose last byte the segment holds (it steps by
`Split` up to the end rounded down, since `ceilToPowOf2` clears low bits);
`remove` visits one slot more. `getSegment` tries the slot of the address, then
the one before. Entries are read and written without a lock: `SetSlot`,
`RemoveSlot`, `ReadNear`, `Compare` and `ReadPrevious` are actions of their own.
The entry is not volatile, so a build may read it again for the second
comparison: `Reloads` says whether the instance allows it (without optimisation
compilers do). `UnmapAll` and `ClearAll` are `unmapAllMemory` and the
destructor, when the process ends. `unmapAllMemory` reads the size of a segment in
its header each time it meets the segment; one over two regions is met twice, and the
second read is of memory it has unmapped (`Dangling`): the program faults there. The
table keeps the addresses of the regions it has unmapped, and `clearAll` calls
`OS::mmap` on each of them, so that after both the pages of every region are mapped
again (`regions`).

**CachedMMSource.** Pages. `searchInCache` takes its first candidate before the
lock (`MapBegin`) and uses it under the lock (`Search`); `unmap` tests the bound
before the lock (`UnmapBegin`) and adds after (`UnmapKeep`). An element that has
left the list is linked to itself, so removing it again changes no list. All threads
map and unmap. `stale` becomes true at the step of `Search` that uses a segment which left the
list since `MapBegin` saw it: another call has it, or it has come back with another size
at the same address (`Present`). From there memory has two owners or a wrong
size, so the model stops at that step, and its properties are about what leads there; the run
`CachedMMSource_twomaps` and the table of the cases kept out show what is wrong then. `FreeAll` unmaps
what is in the list and leaves the list as it is, like the code. Only the destructor
calls it, so nothing follows it (`over`).
`OS::mmap`, `mremap` and `munmap` abort the program when they fail, so the
branches of `map` for a NULL segment are dead.

**HugeAllocator, DummyMMSource, PaddedChunk.** Words. Neither the allocator nor
the source has a lock, so a call is cut at the calls to the registry and to the
system: between `FreeBegin` (unregister) and `Munmap`, between `MallocMap` and
`RegisterSegment`, between `ReallocBegin`, `Mremap` and `RegisterSegment`,
another thread may map, and the system may give it the address just released.
`Free` and `Remapped` are the system: any free range of pages. `pads` maps each
word that holds the magic value of a `PaddedChunk` to the padding, cut to its
16 bits (`PaddingRange`). `hasRegistry` covers sources with and without a
registry.

**PosixAllocator.** `op[t]` is the stack of the calls thread `t` is in: while it
builds the global allocator, hwloc calls `malloc` and `free` in the same thread
(`TopoCall`). `Lock`, `Check`, `Publish`, `PostInit`, `TopoDone`, `Arrays`,
`Unlock` are the double-checked initialisation of `PosixExport.cpp` and
`postInit` of `PosixAllocatorNUMA.cpp`; `InitLocal` gives a thread its
allocator. What a manager answers is abstract (`SmallMalloc`,
`MediumMalloc`: a kind, an inner size, whether the memory is known to be zero);
what managers do inside is in their own modules. A block counts how many of its
first bytes hold what they must: zeros after `calloc`, the old contents after
`realloc`, and the padding before it. A `realloc` within the medium allocator
leaves the block alone if the whole chunk is large enough (`ReallocStay`), or
returns or copies from the start of the chunk (`ReallocMedium`), which for a padded block is not its
contents; `ReallocPadded` says whether users do that. `numaCount` is the number of nodes hwloc will report: with any, the
code writes through an array that was never allocated, or looks for a level
that no topology has, and the process aborts (`Abort`). The registry is
assumed exact here, as `RegionRegistry` shows.

**FileTrace, CollisionChecker, TraceReplay.** The unit of an address is the
smallest block of the C library, whose answers are `Results`: an aligned
address of free memory, or NULL. `WriteEvent` takes the lock and writes the
event, `Super` is the library call, `WriteAnswer` writes the answer and
releases. `End` stops the program between any two steps. Then `Play` is one
round of `EventDispatch::run`: `PlayMalloc`, `PlayFree`, `PlayRealloc`,
`PlayValloc`. The replaying allocator gives the smallest free number, so a stale
mapping meets a block that is in use again. The answer -2 that stands for a
lost one is the address `AddressRange - 2`. `CollisionChecker` is a `std::set`
ordered by `operator<`: segments that overlap are the same element.

## 3. What TLC checks

Most properties are a conjunction of named parts, each stated with its comment
in the module; a violation of one part violates the whole.

| Run | Instance | Properties and their parts |
|---|---|---|
| `MPSCFQueue` | 3 producers, 3 blocks | assertions of the queue (`DequeueAssertions`), ownership of blocks (`LinkTargetHeld`, `HeadStoreAlone`), exact `isEmpty` (`EmptyIsExact`), the inductive invariant (`IInv`, with `TypeOK`), refinement of `FlushQueue` (`Implements`), every queued block eventually freed (`EventuallyFreed`) |
| `MediumAllocator` | 2 threads, 2 segments of 28 words or an area, 2 blocks at a malloc, alignments | `HeapExact` (`Tiled`, `EveryChunkOwnedOnce`, `UnmapWholeSegment`), `FreeListsExact`, `SearchIsComplete`, `BlockInsideChunk`, refinement of `BlockHeap`, only `realloc` leaves free neighbours (`OnlyReallocFragments`) |
| `FreeListIndex` | the table of the source at 23 lengths | `SearchExact` (`InsideTable`, `FindsFirstLargeEnough`), `FormulaAgrees`, `SearchEnds` |
| `SmallAllocator` | 2 threads, classes 8 and 16, runs of 64 bytes, 2 segments of 2 runs or an area, 3 blocks | `RunsExact` (`ListsLinked`, `RunInOnePlace`, `ContainersExact`), `CellsExact`, `CellsInPlace` (`CellsApart`, `RunsInContainer`), `OnlyRefillsWhenFull`, refinement of `BlockHeap` |
| `HugeAllocator` | 2 threads, 3 blocks, 11 pages of 4 words, sizes below, at and above a segment, alignment 4 | `SegmentsExact` (`OneSegmentPerBlock`, `WholeSegments`), `InnerSizeTight`, `RegistryFollows`, refinement of `BlockHeap` |
| `RegionRegistry_lookup` | 2 threads, 10 bytes, slots of 3, segments of 3 to 5 bytes | `TableExact` (`SlotsFree`, `SlotsExact`), `LookupExact`, the end of life (`UnmapAllExact`) |
| `CachedMMSource` | 2 threads that map, remap and unmap, 8 pages, residues kept or not | `PagesExact` (`PagesOwnedOnce`), `CacheExact` (`CacheSizeExact`, `CacheBounded`), `ServesAsAsked` (`SizeAsAsked`), `RegistryFollows` (`RegistryExact`, `EntriesFree`) |
| `PosixAllocator` | 2 threads, 0 or 1 node, a small and a medium size, 2 alignments, 2 blocks | `FirstCallSafe` (`BuiltOnce`, `NoSelfDeadlock`), `OneLocalAllocator`, `BlocksKept` (`BlockFits`, `ContentsKept`), every call returns (`CallsReturn`) |
| `TraceReplay` | 2 threads, 3 calls of 4 kinds beside `free` and `realloc`, 4 addresses | `TraceExact` (`EventsPaired`, `ThreadIdsExact`), `ReplayAccepts`, `MappingAlive`, `ReplayMirrors` |

The parts named `TypeOK` belong to the first property of each run.
`MCSmallAllocator` also evaluates two assumptions with the constants of the program:
`getSizeClass` is the smallest class that fits, for every size it accepts, and in
every class a fresh run of 4096 bytes has cells clear of the skipped bytes, of
the bitmap and of the fields of the run.

Why these bounds are enough to be interesting. In the queue, three producers let
one link a first block, one link a later block and one swap while the consumer
is between its load, its store and its swap; three blocks give a middle
element, and blocks come back and are inserted again. Segments of 28 words
hold two blocks with a free chunk on either side, a split that leaves a rest
and one that does not, merges in both directions, a `realloc` that shrinks, grows
in place and moves; with two segments one goes while the other is used. The
segregated classes are those of the source, in words, up to 12, so a chunk
may sit in the class below the one a search starts from. Runs of 64 bytes
with 48 for cells have room for six cells of 8 bytes or three of 16, less those
under the header and the bitmap, so with three blocks runs become full, are
passed over, become empty and change class, and segments are given back and
mapped again. Slots of 3 bytes with segments of 3 to 5 give every alignment and
sharing of a slot; 10 bytes hold two neighbours, in two regions of two slots that
a segment may lie across. The cache is bounded by 3 pages
and takes segments of at most 3, requests are of 2 to 4, so a cached segment may be too small, exact or
too large, a request above the threshold goes to the system, and two threads may pass the test of the bound before either
adds; both may look at the same cached segment before either takes the lock. Eleven pages hold three segments of the huge allocator, and one that moves
finds room in place or elsewhere. Two threads race to every step of the initialisation while
the one inside is re-entered. In a trace of three calls a block is allocated,
moved, freed, its address given again to the other thread, and the last call
may fail or be cut.

Bounds that are not in the code: `MaxBlocks`, `MemoryEnd` and `Bases`, `Areas`
(medium, small), `Top` (registry, cache, trace), `AddressEnd` (huge), `MaxCalls`,
`AddressRange` (trace), `MapSizes`, `MallocSizes`, `Sizes`, `Aligns`, `ReallocSizes`, `Types`
(requests), `Slack` (posix, 0 in the run: the room asked for an alignment is what a block
has more than its size), `TableLengths`, `Requests` (index). `Symmetry`
permutes threads only, those of the same role, never in a run with a liveness property.

`CHECK_DEADLOCK FALSE` is set where the system really may stop: the address space is full
and the program aborts in the wrapper of the system call (`CachedMMSource`,
`HugeAllocator`), the process has ended (`RegionRegistry_lookup`), the search is over
(`FreeListIndex`), the process has aborted (`PosixAllocator`), the replay is over
(`TraceReplay`).

### Fairness

`EventuallyFreed` needs a thread that is inside `insert` to leave it (weak
fairness of its last two steps: they are never disabled, they contain no
wait), and the owner to go on (weak fairness of `Flush`): `PosixAllocator`
calls `flushRemote` at every `malloc` and `free` of a thread, so this is the
assumption that the owner keeps allocating, as the test's consumer keeps polling. Nothing makes a user call `insert`. The spinlock
gives no fairness between threads, so no liveness is claimed for lock users.
`FreeListIndex` is a sequential loop: weak fairness of `SearchNext`.

`CallsReturn` needs each thread inside a call to be scheduled (weak fairness of
`Step`), and hwloc to end: it makes a finite number of calls to load the
topology, so `TopoDone`, enabled after each of them, is taken (strong fairness).
The mutex of the initialisation is needed by a thread only until the allocator
is published and is taken once by each thread that came before, so weak
fairness is enough for it. Nothing makes a user call.

### Disagreements between the code and what the repository says

Each is a run that TLC finds violated; `PROJECT.json` "findings" quotes the lines.

| Run | Claim | What the code does |
|---|---|---|
| `MediumAllocator_refill` | the block is in its chunk (asserts in `malloc`) | `refill` asks for a segment that does not count the chunk headers |
| `MediumAllocator_padded` | `realloc` keeps the content (replay tool) | in place, it returns the unpadded address |
| `CachedMMSource_twomaps` | the entries of a new segment are empty (assert) | the candidate read before the lock may be gone: two threads get one segment |

### What the passing instances keep out

The properties hold outside the cases below. Most are a constant of the module,
so the case can be tried by changing one line of the `.cfg`.

| Passing run | Keeps out | With it |
|---|---|---|
| `MediumAllocator` | `realloc` of aligned blocks (`ReallocPadded = FALSE`); requests that nearly fill a segment, so that it does not hold the two headers too (`Fitting` of `MediumAllocator_proof`) | the two runs above |
| `CachedMMSource` | what follows a search that uses a segment gone from the list since it was seen (the properties are about `~ stale`) | the run above; and a segment cached again with another size is handed out as if it had the old one: on the same constants `SizeAsAsked`, without `~ stale`, is violated |
| `CachedMMSource` | calls after `freeAll` (`over`) | its list still has the segments it unmapped; nothing calls the source after its destructor |
| `PosixAllocator` | `realloc` of aligned blocks within the medium allocator (`ReallocPadded = FALSE`) | the contents are not at the address returned: with `TRUE`, `BlocksKept` violated (`ContentsKept`) |
| `RegionRegistry_lookup` | a second read of the entry (`Reloads = FALSE`) | the entry of a neighbour is removed between the test against NULL and the comparison: `LookupExact` violated |
| `RegionRegistry_lookup` | the rest of a `remove` that reads a slot in a region that nobody created, after a segment that ends with its region | the assertion of `RegionRegistry.cpp:215` stops the program there: the thread has no next step in the model, and no property says that it has |
| `HugeAllocator` | `realloc` of aligned blocks (`ReallocPadded = FALSE`) | the new size is compared with the whole segment: with `TRUE` and `Sizes = {4, 10}` a padded block is left where its end is outside its segment, `SegmentsExact` violated |
| `HugeAllocator` | a padding of 2^16 or more (`PaddingRange = 4` covers `Aligns`) | `setup` asserts |
| `TraceReplay` | requests of size 0 (`Sizes`; with the next case `Ordinary` of `TraceReplay_proof`) | a segment of size 0 overlaps nothing and is never removed from the checker: a later block over it is reported as a conflict (`ReplayAccepts`) |
| `TraceReplay` | `posix_memalign` (`Types`) | the variable of the caller is recorded as the answer even when the call failed, and it may hold the address of a live block: `ReplayAccepts` violated |
| `TraceReplay` | as many threads as ids (`IdRange = 4`; 2 is the case) | ids are used twice: `ThreadIdsExact` violated |
| `TraceReplay` | an alignment that does not divide 2 (`Aligns = {2}`; 4 is the case) | the answer -2 that stands for a lost one fails the alignment assertion of the replay (`status` is `assertFailed`) |

## 4. What is proved

Every theorem holds for all values of the constants that satisfy the named
assumptions of the modules, and TLC evaluates these on every run. The
properties were checked by TLC before they were proved, and so were the inductive
invariants, except the part `Ordered` of the small allocator: it speaks of positions
in `Nat`, which TLC cannot enumerate.

| Module | Theorem | Statement |
|---|---|---|
| `MPSCFQueue_proof` | `QueueInvariant` | `Spec => []IInv` |
| | `TypeCorrect` | `Spec => []TypeOK` |
| | `AssertionsHold` | the assertions of `dequeueAll` and `waitUntilEndId` |
| | `LinkTargetIsHeld` | the last write of `insert` never hits a block that was freed |
| | `HeadStoreIsAlone` | the plain stores to the head never race |
| | `EmptyTestIsExact` | `isEmpty` is exact between calls |
| | `QueueImplements` | the queue implements `FlushQueue` |
| `MediumAllocator_proof` | `Invariant` | `Spec => []Inv` |
| | `HeapIsExact` | chunks tile the memory, an allocated one has one owner, whole segments are unmapped (`HeapExact`) |
| | `FreeListsAreExact` | the lists hold the free chunks, in the class of their size (`FreeListsExact`) |
| | `SearchMissesNone` | `findChunk` misses no chunk, for any table (`SearchIsComplete`) |
| | `BlocksAreInside` | if `Fitting` and `ReallocPadded = FALSE`, a block is in its chunk (`BlockInsideChunk`) |
| | `MediumImplements` | under the same hypotheses, the allocator implements `BlockHeap` |
| | `OnlyReallocMakesPairs` | free chunks side by side come from `realloc` only (`OnlyReallocFragments`) |
| | `SearchInvariant` | `SearchSpec => []SearchInv`, of `FreeListIndex` |
| | `SearchIsExact` | the dichotomy finds the first large enough list (`SearchExact`) |
| `RegionRegistry_proof` | `Invariant` | `Spec => []IInv` |
| | `TableIsExact` | `setEntry` writes empty slots only; no entry outlives its segment (`TableExact`) |
| | `LookUpFindsSegment` | if `Reloads = FALSE`, a look up finds its segment (`LookupExact`) |
| | `EndIsExact` | `unmapAllMemory` unmaps every segment and region, or faults, exactly when a segment has slots in two regions (`UnmapAllExact`) |
| `CachedMMSource_proof` | `Invariant` | `Spec => []IInv`; it says, like the next ones, what holds up to the use of a stale segment, for any number of threads |
| | `PagesAreOwnedOnce` | no page is lost or has two owners (`PagesExact`) |
| | `CacheIsExact` | the size of the cache is that of the list, and bounded (`CacheExact`) |
| | `SizeIsAsAsked` | a segment has the size asked for (`ServesAsAsked`) |
| | `RegistryIsFollowed` | the registry finds the segments in use, and new entries are empty (`RegistryFollows`) |
| `HugeAllocator_proof` | `Invariant` | `Spec => []IInv`, like the next ones if `ReallocPadded = FALSE` |
| | `SegmentsAreExact` | one segment per block, given back whole (`SegmentsExact`) |
| | `InnerSizeIsTight` | `InnerSizeTight` |
| | `RegistryFollowsMemory` | the registry finds every block and nothing else (`RegistryFollows`) |
| | `HugeImplements` | the allocator implements `BlockHeap` |
| `SmallAllocator_proof` | `Invariant` | `Spec => []IInv` |
| | `RunsAreExact` | lists linked both ways, every run in its place, containers unmapped exactly when empty (`RunsExact`) |
| | `CellsAreExact` | counts, bitmaps and blocks agree, a cell has one block (`CellsExact`) |
| | `CellsAreInPlace` | cells are clear of headers, runs inside their container (`CellsInPlace`) |
| | `RefillsOnlyWhenFull` | no segment is asked for in vain (`OnlyRefillsWhenFull`) |
| | `SmallImplements` | the allocator implements `BlockHeap` |
| `PosixAllocator_proof` | `Invariant` | `Spec => []IInv` |
| | `FirstCallIsSafe` | one global allocator, no thread waits for itself (`FirstCallSafe`) |
| | `LocalAllocatorIsOne` | `OneLocalAllocator` |
| | `BlocksAreKept` | if `ReallocPadded = FALSE`, sizes, zeros and contents (`BlocksKept`) |
| `TraceReplay_proof` | `Invariant` | `Spec => []IInv` |
| | `MappingIsAlive` | `MappingAlive` |
| | `TraceIsExact` | with fewer threads than ids, `TraceExact` |
| | `ReplayIsAccepted` | if `Ordinary`, the replay never throws (`ReplayAccepts`) |
| | `ReplayMirrorsProgram` | if `Ordinary`, a complete trace without failures leaves the program's blocks (`ReplayMirrors`) |

### What the constants must satisfy

- `NULL` is not a block (queue), a segment (registry, huge) or a thread (trace).
- Sizes of pages, slots, regions and of the header of a segment are positive; a
  segment of the registry has at least a slot, as the memory sources see to.
- `SourceAssumption` (cached source): the threads are finitely many and there is one; the memory, the size of the cache and the largest size cached are
  numbers; sizes are at least that of a slot, to which `map` and `remap` raise them.
- `RequestsAssumption` (huge): sizes are positive, since `malloc(0)` answers NULL;
  alignments are between `BASIC_ALIGN` and the range of the field that stores a
  padding, as `malloc` and `PaddedChunk::setup` assert.
- `TableAssumption` (index): the table is increasing, a pool uses a prefix of it,
  and requests are between its first size and `NoLimit`. `LengthAssumption`: a pool
  with its unlimited lists is shorter than `NB_FREE_LIST`, as the assertion of
  `chunks/MediumFreePool.cpp:91` has it.
- Small allocator. `NullAssumption`, `NoBlockAssumption`: `NULL` is neither a node of a
  list nor a block. `LayoutAssumption`, `ContainerAssumption`: a run holds its storage,
  an entry has bytes and a word of the bitmap bits, the header of a container is
  smaller than a run. `RequestsAssumption`: sizes are in `1 .. 128`, as
  `getSizeClass` asserts. `MemoryAssumption`: what the source maps does not overlap, nor
  do the areas of `fill`; each ends at the end of a run, as segments end with a
  page, and the header of the container does not reach the fields of the first
  run. `CellsAssumption`: a fresh run has a cell for every request, also behind
  that header; without it `malloc` would return NULL with a run in hand.
- `ClassesAssumption` (posix): sizes of classes are naturals and one is the largest;
  `NamesAssumption`: `NULL` and the internal allocator are two names, neither of
  a thread.
- `TraceAssumption` (trace): alignments are at least 2, there is an id.
  `AddressAssumption`: the two highest addresses are in no block, so that the
  answer -2 is above them all.
- Medium allocator. `NullAssumption`, `ThreadsAssumption`: `NULL` is neither an address
  nor a thread. `SizesAssumption`, `ClassesAssumption`: the table increases, from a size
  every chunk has to `Unlimited`, which is beyond the memory. `MemoryAssumption`:
  addresses are numbers below `Unlimited`, areas do not overlap, and a
  segment or an area has room for the two headers and the least chunk between them,
  as `MediumChunk::setup` asserts. `RequestsAssumption`: sizes are positive and none is
  above `Unlimited`.

Some theorems have a hypothesis, each a case of the table "What the passing
instances keep out", where TLC shows what happens without it: `Reloads = FALSE`
(the build reads an entry once), `ReallocPadded = FALSE` (no `realloc` of an aligned
block; in `PosixAllocator`, none that stays in the medium allocator), `Fitting` (what the source maps for a request holds its two headers too),
`FewThreads` (fewer threads than ids), `Ordinary` (a traced program that asks for no
size 0 and does not call `posix_memalign`). Of the medium allocator only the bounds of
blocks and the refinement need theirs: the chunks tile the memory and the lists
are exact whatever is asked. The invariant of the registry needs
no hypothesis on reloads: only the look up does. That of the first call and the dispatch needs none on
padded blocks: only what is said of their contents does. The theorems of the cached source
have no hypothesis on who maps: `~ stale` is a condition on the state, so they cover
every step of every execution up to the one that goes wrong.

### How the proofs go

None of the properties is inductive; each module states an invariant that is,
with a lemma per action.

**Queue.** `IInv` says how memory encodes the two
sequences `queued` and `batch`: consecutive blocks are linked, or some
producer is about to write exactly that link (`Chained`, `ProducersLinked`); head and
tail are the ends of `queued`, the head being NULL on a non-empty queue only
while its first producer is about to write it or the consumer is before its swap
(`HeadAndTail`); the consumer is inside `batch` behind a linked prefix
(`ConsumerLinked`); a block is in one place only (`OnePlace`). The delicate step
is the consumer's swap: links of `queued` still to be written become links of
`batch`, and the head is NULL because the producer of a first block cannot be at
its last step while the consumer is between load and swap. The proof has
facts about `Append`, `Tail` and sequences without
repetition; the refinement maps the producer's swap to `Put`, the consumer's swap
to `TakeAll`, `ReleaseCurrent` to `Release`, and every other step to a stutter.

**Medium allocator.** `Chain` says of a heap and its extents (segments and areas)
that the next chunk starts where the chunk ends, that nothing lies between, and that
`prev` undoes `next`, so the chunks of an extent tile it; the first of an extent has no
chunk before, the last one, allocated and without a next, closes it. It speaks of
neighbours only, and a least number argument makes it a statement about all the chunks
between two. A merge is two writes with a step of another thread possible between them (one
that looks at a header before the lock), so `Chain` has the merge in
progress as parameters: the chunk after the last one gathered already points back to the
first. `Pool` has one place in one list for each free chunk, in the class
of its size. `Shared` gives each chunk in use one owner, a block or the hand of a thread, where the hand
of a merging thread has every chunk it gathered. `Knows` is what
each thread may rely on when it comes back to a header: its span is still a piece
of the chain, no free chunk lies beside what `free` has gathered, and a segment about to be
unmapped is one chunk from end to end, which no one can take any more.
Each operator of `MediumChunk` and `MediumFreePool` has a lemma from heap to heap (`SplitChain`,
`InsertFacts`, `RemoveFacts`, `CutFacts`...), each action a lemma from `Inv` to `Inv'`.
That a search is complete is a fact about classes: a list is taken from the first
whose sizes are all large enough, and the list below is walked. For the
refinement, a block is in its chunk and chunks do not overlap; the block of a
`realloc` in progress is still in use.

**Registry.** The key is a fact about the layout: a segment owns the slots whose
last byte it holds. Segments that do not overlap never own the same slot,
`setEntry` writes exactly the owned slots (`SetAgainOwns`), `remove` visits all of
them (`RemoveReaches`), and the slot of an address in a segment, or the one before,
is owned (`NearOrPrevious`). So writes of two threads never meet, although nothing
orders them. `IInv` adds to it what is between two turns of a loop: the slots below
the turn are written or emptied, the others not yet (`Progress`); other entries point to
held segments (`Owners`, `NoStranger`, `Complete`). A look up reads two
entries at two moments: `Looking` says what the first read still means at the
second, when other segments came and went. It fails for a build that reads the entry again.
At the end, the first slot a segment owns in a region differs from the slot before
it: `SomeVisit` takes it with the least number principle, `OneVisit` shows that no other does, so a visit is
of memory already unmapped only if its segment has slots in two regions.

**Cached source.** A segment is of one owner: the allocators (`held`), a place in the
list, or a call at a step that has one (`Owners`). Together they tile what the system
gave, so cutting a segment, moving it or taking it from the list is a statement about
two or three areas (`TilingCut`, `TilingAdd`...). Of the segment seen before the lock
a call only knows its distance to the size it wants (`InCall`), which is enough: either what the
search takes is in the list, as it was seen or as the scan finds it, and the segment goes from the
list to the call, or the step is the one that sets `stale`, of which only the types are said. The bound is about the cache
and what the calls in progress have still to add to it (`Awaited`, summed by
`Total`), because each call tests its own segment against a size that others are about to change;
the term of the thread that tests is the maximum, the terms of the others are
at most `Threshold` each (`Counted`). A residue kept by a call was in the list a moment
before, so it needs no test. Sizes of lists and sums over threads are numbers of pages, counted
as cardinalities, which the theorems on finite sets can add up. The registry has
exactly the slots whose last page a segment in use holds (`RegisteredFor`), which do not
meet those of the segment about to be registered, since the two are apart.

**Huge allocator.** Every segment has one block, which is in use or which one
thread works on (`OneEach`); a block lies behind the header of its segment, which
is found through the padding (`InUse`); words with the magic value are behind
headers only (`PadWords`), so a block without padding is not taken for a padded one; the
registry has the slots of the segments whose block is in use (`Registered`). What
the system gives is apart from all segments, also from those between the registry call
and the system call of another thread. The bijection between segments and
blocks gives the equality of their numbers (`AsManySegments`). For the
refinement, `malloc` takes place when the segment is mapped, `free` when it is given
back, `realloc` when it keeps the segment or has moved it.

**Small allocator.** The nodes of all lists are one memory of links, and what
keeps a list a list is not said of the list but of its nodes (`InRings`): links agree both
ways, neighbours have the same root, and going back decreases a position until the root
(`Ordered`), so no ring is without a root. `Link`, the one write all operations of
`DoubleLinkList` are made of, then changes two nodes; `put`, `remove` and `pop` keep the
rings of what is left, and an iteration that finds nothing has seen every node. The root
of a node is a function of its header (`RunRoot`): the list of its class for a
run with a splitting, the list of its container for one without. The nodes outside are those of the
active runs (`Detached`), one for each class (`Active`). `Counted` ties
`reservedRuns` to the runs with a splitting, `Placed` puts runs in containers and
containers apart, `Held` gives each block a cell of a run of its class that the bitmap
does not have, and `CellsCounted` makes `cntAlloc` the number of such cells:
so a run with no block is empty, and unmapping an empty container takes no block along. `Good` is
all of these, with the nodes that are outside the lists, the runs just taken and
the blocks as parameters, since the steps inside `Malloc` and `FreeCell` have
states of their own: each operator has a lemma from one `Good` to another
(`HasTaken`, `Ready`, `Gives`, `Removed`, `Settled`). A `free` reads the run before the lock:
`ThreadsOK` keeps the block of each thread apart from those in use, so the run it
read still holds its cell when the lock comes. For the refinement, two blocks are two cells of
one run or lie in two runs.

**First call and dispatch.** A thread is in two calls at most: one of the user and,
while it builds the allocator of the process, one of hwloc (`Stacks`). The mutex is
held by exactly the thread that is inside the initialisation, at the step it is at
(`Mutex`); what was built and published follows from where that thread is
(`Published`), and the allocator a thread works with from its call
(`OwnAllocator`). A call of hwloc finds the pointer set, so it never waits for
the mutex its own thread holds. Blocks in use and blocks in the hands of a
`realloc` satisfy the same condition (`SoundBlocks`).

**Dichotomy.** The first list of the part still searched is too small, its last one
large enough (`Bracket`): the unlimited list inside the count is why
the part never shrinks to one list.

**Traces.** `TraceInv`: one thread at most is between event and answer, it has
the lock, and its event is the last entry (`OneCall`, `EventsPaired`, `LastEvent`).
`IdsExact`, with fewer threads than ids: the next id is the number of threads that have
one, plus one. `ReplayInv`: the mapping is injective into the blocks allocated,
and the checker of the replay holds these blocks.

That the replay is accepted and mirrors the program relates a position of the
replay to a past state of the program, which no variable holds. `HInv` says that there is a
history: a set of blocks for each call completed in the file, the first empty,
each the result of the call and its answer on the one before (`Past`), the last
one the heap of the library (`Present`). The history grows when an answer is written
and never changes behind that. After `pos` calls the segments in the checker are those of
blocks of `H[pos]`, each mapped (`Tracks`), which is why the next answer, given among
these blocks, meets none of them; when no call has failed they are all the blocks
(`Mirrors`). A failed `realloc` is why `Tracks` does not say all: the
replay has dropped a block that the program still has.

### What is only model-checked

- Liveness (`EventuallyFreed`, `SearchEnds`, `CallsReturn`): outside the reach of
  the prover.
- `CachedMMSource` after a search has used a stale segment: refuted, so there is nothing to prove.
  The run `CachedMMSource_twomaps` shows a step that goes wrong.
- What the two refuted claims of `MediumAllocator` become under other hypotheses:
  `ReallocKeepsContent` is checked by its run only.
- `FormulaAgrees`: the formula of `getFreeListByAnalytic` is compared with the
  dichotomy on the table of the source, a computation and not a general fact; it uses
  powers, which the provers leave uninterpreted.

An induction over numbers is done with `LeastElement`, a statement
about sets, since the induction theorems of the library quantify over operators. Each proof
module opens with the few facts about numbers and division that it needs.

## 5. What is not modelled

- Memory contents, except the address where the bytes of a medium block are and how
  many bytes of a block are right in `PosixAllocator`; the width of integers
  (sizes near 2^64); debug counters and dumps; `json`; `PosixAllocatorDebugTrace`,
  which prints; benchmarks.
- Weak memory: the swaps are full barriers on x86 and the models interleave
  accesses. Locks and atomics are critical sections and single actions.
- `rebindMMSource`: it replaces a memory source by another of the same kind.
  `numaAlloc` with several nodes, `CachedMMSourceNUMA` and the bindings of
  `TopoHwloc`: a process whose topology has nodes aborts in `postInit`, which
  `PosixAllocator` shows, so none of them is reached.
- The copy of `realloc` in `MediumAllocator` takes the larger of the two sizes;
  contents being abstract there, no property sees it.
- The end of threads: nothing in the code frees the allocator of a thread.
- `src/src/tools/BugReproducer.cpp`, which replays parts of a trace to shorten
  it. It is sequential and works on whole replays, so reading it is enough.
  What was read: `searchBugPosition` replays with the checker of the traced blocks and
  `isBuggySequence` without it, so a bug that only this checker sees is found
  once and never again (the assertion of line 92); the fatal message for a trace without a bug is
  raised inside the `try` that takes it for the bug; `pruneActions`
  takes its reader by value, and the destructor of the copy closes the file.

## 6. Plan

Done: the remote queue; the medium, small and huge allocators with their lists,
runs, chunks and padding; the registry with its end of life; the cached and the
plain memory source; the first call and the dispatch between managers; the traces
and their replay. Proved: the queue, the registry, the three allocators with
their lists, chunks and runs, the cached source, the first call and the dispatch,
the dichotomy, the traces.
Of the safety properties of the passing runs, only `FormulaAgrees` is left to TLC.

Run a model with `tlc -config <run>.cfg <module>.tla` (the module of each run is in
`PROJECT.json`: `MPSCFQueue` itself, the `MC` module of the others), the proofs with
`tlapm <module>.tla` for each of the modules named `*_proof`.
