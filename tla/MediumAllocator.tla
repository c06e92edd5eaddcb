-------------------------- MODULE MediumAllocator --------------------------
(***************************************************************************)
(* The medium allocator (lib/chunks/MediumAllocator.cpp): threads that     *)
(* share one heap of chunks under one lock.                                *)
(*                                                                         *)
(* A critical section is one action, except that merge's two writes are    *)
(* two actions: free and realloc read the header of their block before     *)
(* they take the lock, so another thread can be between those writes.      *)
(* What runs outside the lock (the first reads of free and realloc, unmap) *)
(* is an action of its own.  Addresses and sizes are words of 8 bytes.     *)
(***************************************************************************)
EXTENDS MediumFreePool

CONSTANTS
    Threads,
    MallocSizes, Aligns, ReallocSizes,   \* the requests, in words
    Bases,                 \* where the memory source may map a segment
    MapWords, PageWords,   \* smallest segment, and granularity of a segment
    MemoryEnd,             \* bound: no segment beyond this address
    MaxBlocks,             \* bound: no malloc with that many blocks in use
    Areas,                 \* user areas for fill, <<address, words>>
    ReallocPadded          \* do users call realloc on aligned blocks?

ASSUME ReallocPaddedAssumption == ReallocPadded \in BOOLEAN
ASSUME ThreadsAssumption == NULL \notin Threads

MinInnerSize == 2                   \* MEDIUM_MIN_INNER_SIZE
ReallocThreshold == 8               \* REALLOC_THREASHOLD
SegmentHeader == 2                  \* sizeof(RegionSegmentHeader)

(* The least a segment or an area can be: a chunk of the smallest size, and *)
(* the header that closes it.                                               *)
MinArea == 2 * HeaderSize + MinInnerSize

ASSUME MemoryAssumption ==
    /\ Bases \subseteq Nat /\ MemoryEnd \in Nat /\ MemoryEnd < Unlimited
    /\ MapWords \in Nat /\ MapWords >= SegmentHeader + MinArea
    /\ PageWords \in Nat \ {0}
    /\ \A a \in Areas : a \in Nat \X Nat /\ a[2] >= MinArea /\ a[1] + a[2] <= MemoryEnd
    /\ \A a, b \in Areas : a = b \/ a[1] + a[2] <= b[1] \/ b[1] + b[2] <= a[1]

(* Every size the pool looks for or stores has a class. *)
ASSUME ClassesAssumption == Sizes[1] <= MinInnerSize

VARIABLES
    hasSource,             \* FALSE: memorySource is NULL and fill is used
    heap,                  \* headers, free lists and flags of the pool
    segments,              \* mapped segments: base -> words
    unused,                \* areas not given to fill yet
    live,                  \* blocks held by users
    lock,                  \* the spinlock: NULL or the thread inside
    pc, op                 \* per thread: control point, what it works on

vars == <<hasSource, heap, segments, unused, live, lock, pc, op>>

RoundUp(n, k) == ((n + k - 1) \div k) * k
MaxOf(a, b) == IF a >= b THEN a ELSE b
MinOf(S) == CHOOSE x \in S : \A y \in S : x <= y

(* A block: its chunk, the address given to the user, the size asked for,   *)
(* and the address where the bytes the user wrote are.                      *)
Block(c, ptr, size, data) == [chunk |-> c, ptr |-> ptr, size |-> size, data |-> data]
NoOp == [block |-> NULL, first |-> NULL, last |-> NULL, size |-> 0]

-----------------------------------------------------------------------------
(* The memory source, as refill uses it (the system is external).           *)
Extent(size) == RoundUp(MaxOf(size + SegmentHeader, MapWords), PageWords)

CanMap(base, total) ==
    /\ base + total <= MemoryEnd
    /\ \A b \in DOMAIN segments : b + segments[b] <= base \/ base + total <= b

SegmentOf(c) == CHOOSE b \in DOMAIN segments : b <= c /\ c < b + segments[b]

-----------------------------------------------------------------------------
(* split cuts a chunk when the rest can hold more than a header and the     *)
(* smallest chunk (for a chunk that is too small, MediumChunk::split fails).*)
KeepsRest(avail, innerSize) == avail - innerSize > MinInnerSize + HeaderSize

(* split, then the insertion of what was cut off. *)
SplitAndInsert(h, c, size) ==
    LET innerSize == RoundUp(size, MinInnerSize)
        rest      == c + innerSize + HeaderSize
    IN  IF KeepsRest(InnerSize(h, c), innerSize)
          THEN Insert(SplitChunk(h, c, innerSize), rest, "LIFO")
          ELSE h

(* refill: a new segment with one chunk over its whole content.             *)
Refill(size) ==
    {[heap |-> heap, segments |-> segments, chunk |-> NULL]} \union
    (IF hasSource
       THEN {[heap     |-> SplitAndInsert(Setup(heap, b + SegmentHeader,
                                                Extent(size) - SegmentHeader),
                                          b + SegmentHeader, size),
              segments |-> Put(segments, b, Extent(size)),
              chunk    |-> b + SegmentHeader] :
              b \in {a \in Bases : CanMap(a, Extent(size))}}
       ELSE {})

(* Mutant: the padding is not added to the size that is looked for. *)
CheckedSize_NoPadding(size, align) == MaxOf(size, MinInnerSize)

CheckedSize(size, align) ==
    MaxOf(size, MinInnerSize) + (IF align > 1 THEN align ELSE 0)

(* The sizes malloc looks for; adding the padding does not overflow.        *)
Checked == {CheckedSize(size, align) : size \in MallocSizes, align \in Aligns} \union
           {CheckedSize(size, 1) : size \in ReallocSizes}

ASSUME RequestsAssumption ==
    /\ MallocSizes \union ReallocSizes \union Aligns \subseteq Nat \ {0}
    /\ \A size \in Checked \union MallocSizes : size <= Unlimited

(* The critical section of malloc: every state it can leave behind, and     *)
(* the chunk it returns.                                                    *)
Allocate(checked) ==
    LET found == FindChunk(heap, checked)
    IN  IF found = NULL THEN Refill(checked)
        ELSE {[heap     |-> SplitAndInsert(Remove(heap, {found}), found, checked),
               segments |-> segments, chunk |-> found]}

AlignUp(addr, align) == RoundUp(addr, align)

Malloc(t) ==
    /\ pc[t] = "idle" /\ lock = NULL
    /\ Cardinality(live) < MaxBlocks
    /\ \E size \in MallocSizes, align \in Aligns :
       \E r \in Allocate(CheckedSize(size, align)) :
          LET ptr == AlignUp(GetPtr(r.chunk), align)
          IN  /\ heap' = r.heap /\ segments' = r.segments
              /\ live' = IF r.chunk = NULL THEN live
                         ELSE live \union {Block(r.chunk, ptr, size, ptr)}
    /\ UNCHANGED <<hasSource, unused, lock, pc, op>>

-----------------------------------------------------------------------------
(* free: the header of the block is read before the lock is taken. *)
FreeBegin(t) ==
    /\ pc[t] = "idle"
    /\ \E b \in live :
        /\ live' = live \ {b}
        /\ IF heap.status[b.chunk] = "FREE"
             THEN UNCHANGED <<pc, op>>
             ELSE /\ pc' = [pc EXCEPT ![t] = "free"]
                  /\ op' = [op EXCEPT ![t] = [NoOp EXCEPT !.first = b.chunk]]
    /\ UNCHANGED <<hasSource, heap, segments, unused, lock>>

(* Mutant: only the chunks after c are merged with it. *)
FreeNeighbours_After(h, c) ==
    {d \in Chunks(h) : c < d /\ d <= RunEnd(h, c)}

FreeNeighbours(h, c) ==
    {d \in Chunks(h) : RunStart(h, c) <= d /\ d <= RunEnd(h, c)} \ {c}

(* Under the lock, merge takes the free neighbours out of their lists and   *)
(* links the chunk after them to the first of them.                         *)
FreeMerge(t) ==
    /\ pc[t] = "free" /\ lock = NULL
    /\ LET c     == op[t].first
           run   == FreeNeighbours(heap, c)
           first == MinOf(run \union {c})
           last  == RunEnd(heap, c)
       IN  /\ heap' = MergeBack(Remove(heap, run), first, last)
           /\ op' = [op EXCEPT ![t].first = first, ![t].last = last]
    /\ lock' = t
    /\ pc' = [pc EXCEPT ![t] = "merge"]
    /\ UNCHANGED <<hasSource, segments, unused, live>>

(* The second write of merge; then the chunk becomes free, unless it is the *)
(* whole of a segment, which free returns to the source after the lock.     *)
FreeInsert(t) ==
    /\ pc[t] = "merge"
    /\ LET c == op[t].first
           h == MergeForward(heap, c, op[t].last)
       IN  IF hasSource /\ IsSingle(h, c)
             THEN /\ heap' = h
                  /\ pc' = [pc EXCEPT ![t] = "unmap"]
                  /\ op' = [op EXCEPT ![t] = [NoOp EXCEPT !.first = c]]
             ELSE /\ heap' = Insert(h, c, "FIFO")
                  /\ pc' = [pc EXCEPT ![t] = "idle"]
                  /\ op' = [op EXCEPT ![t] = NoOp]
    /\ lock' = NULL
    /\ UNCHANGED <<hasSource, segments, unused, live>>

Unmap(t) ==
    /\ pc[t] = "unmap"
    /\ LET b      == SegmentOf(op[t].first)
           inside == {c \in Chunks(heap) : b <= c /\ c < b + segments[b]}
       IN  /\ segments' = Drop(segments, {b})
           /\ heap' = [heap EXCEPT !.next   = Drop(@, inside),
                                   !.prev   = Drop(@, inside),
                                   !.status = Drop(@, inside)]
    /\ pc' = [pc EXCEPT ![t] = "idle"]
    /\ op' = [op EXCEPT ![t] = NoOp]
    /\ UNCHANGED <<hasSource, unused, live, lock>>

-----------------------------------------------------------------------------
(* realloc: the size of the chunk is read before the lock, and a block that *)
(* fits well enough is returned as it is.                                   *)
ReallocBegin(t) ==
    /\ pc[t] = "idle"
    /\ \E b \in {x \in live : ReallocPadded \/ x.ptr = GetPtr(x.chunk)}, size \in ReallocSizes :
        LET oldSize == InnerSize(heap, b.chunk)
        IN  IF oldSize >= size /\ oldSize - size <= ReallocThreshold
              THEN /\ live' = (live \ {b}) \union {[b EXCEPT !.size = size]}
                   /\ UNCHANGED <<pc, op>>
              ELSE /\ live' = live \ {b}
                   /\ pc' = [pc EXCEPT ![t] = "resize"]
                   /\ op' = [op EXCEPT ![t] = [NoOp EXCEPT !.block = b, !.size = size]]
    /\ UNCHANGED <<hasSource, heap, segments, unused, lock>>

(* What realloc returns for a block it did not move. *)
InPlace(o) == Block(o.block.chunk, GetPtr(o.block.chunk), o.size, o.block.data)

(* Under the lock: a smaller size only cuts the chunk; a larger one takes   *)
(* the free chunks that follow, if they are enough.                         *)
Resize(t) ==
    /\ pc[t] = "resize" /\ lock = NULL
    /\ LET c    == op[t].block.chunk
           last == LastForSize(heap, c, op[t].size)
       IN  \/ /\ op[t].size <= InnerSize(heap, c)
              /\ heap' = SplitAndInsert(heap, c, op[t].size)
              /\ live' = live \union {InPlace(op[t])}
              /\ pc' = [pc EXCEPT ![t] = "idle"]
              /\ op' = [op EXCEPT ![t] = NoOp]
              /\ UNCHANGED lock
           \/ /\ op[t].size > InnerSize(heap, c)
              /\ last # NULL
              /\ heap' = MergeBack(Remove(heap, {d \in Chunks(heap) : c < d /\ d <= last}),
                                   c, last)
              /\ op' = [op EXCEPT ![t].first = c, ![t].last = last]
              /\ pc' = [pc EXCEPT ![t] = "grow"]
              /\ lock' = t
              /\ UNCHANGED live
           \/ /\ op[t].size > InnerSize(heap, c)
              /\ last = NULL
              /\ pc' = [pc EXCEPT ![t] = "move"]
              /\ UNCHANGED <<heap, live, lock, op>>
    /\ UNCHANGED <<hasSource, segments, unused>>

(* Mutant: what was merged beyond the size is kept out of the free lists,   *)
(* in a chunk that nobody owns.                                             *)
Grow_RestLost(t) ==
    /\ pc[t] = "grow"
    /\ LET h == MergeForward(heap, op[t].first, op[t].last)
           innerSize == RoundUp(op[t].size, MinInnerSize)
       IN  heap' = IF KeepsRest(InnerSize(h, op[t].first), innerSize)
                     THEN SplitChunk(h, op[t].first, innerSize) ELSE h
    /\ live' = live \union {InPlace(op[t])}
    /\ pc' = [pc EXCEPT ![t] = "idle"]
    /\ op' = [op EXCEPT ![t] = NoOp]
    /\ lock' = NULL
    /\ UNCHANGED <<hasSource, segments, unused>>

(* The second write of the merge, and the cut of what is not needed.        *)
Grow(t) ==
    /\ pc[t] = "grow"
    /\ heap' = SplitAndInsert(MergeForward(heap, op[t].first, op[t].last),
                              op[t].first, op[t].size)
    /\ live' = live \union {InPlace(op[t])}
    /\ pc' = [pc EXCEPT ![t] = "idle"]
    /\ op' = [op EXCEPT ![t] = NoOp]
    /\ lock' = NULL
    /\ UNCHANGED <<hasSource, segments, unused>>

(* malloc, then memcpy from the start of the old chunk, then free of the    *)
(* old chunk; the old one is freed when malloc fails, too.                  *)
Move(t) ==
    /\ pc[t] = "move" /\ lock = NULL
    /\ \E r \in Allocate(CheckedSize(op[t].size, 1)) :
        LET old == op[t].block
            ptr == GetPtr(r.chunk)
        IN  /\ heap' = r.heap /\ segments' = r.segments
            /\ live' = IF r.chunk = NULL THEN live
                       ELSE live \union {Block(r.chunk, ptr, op[t].size,
                                               ptr + (old.data - GetPtr(old.chunk)))}
    /\ pc' = [pc EXCEPT ![t] = "free"]
    /\ op' = [op EXCEPT ![t] = [NoOp EXCEPT !.first = op[t].block.chunk]]
    /\ UNCHANGED <<hasSource, unused, lock>>

-----------------------------------------------------------------------------
(* fill gives an area of the user to the pool.  It takes no lock: it is     *)
(* called before the allocator is shared.                                   *)
Fill ==
    /\ \A t \in Threads : pc[t] = "idle"
    /\ \E a \in unused :
        /\ heap' = Insert(Setup(heap, a[1], a[2]), a[1], "FIFO")
        /\ unused' = unused \ {a}
    /\ UNCHANGED <<hasSource, segments, live, lock, pc, op>>

-----------------------------------------------------------------------------
Init ==
    /\ hasSource \in BOOLEAN
    /\ heap = EmptyPool
    /\ segments = <<>>
    /\ unused = IF hasSource THEN {} ELSE Areas
    /\ live = {}
    /\ lock = NULL
    /\ pc = [t \in Threads |-> "idle"]
    /\ op = [t \in Threads |-> NoOp]

Next ==
    \/ \E t \in Threads :
        \/ Malloc(t)
        \/ FreeBegin(t) \/ FreeMerge(t) \/ FreeInsert(t) \/ Unmap(t)
        \/ ReallocBegin(t) \/ Resize(t) \/ Grow(t) \/ Move(t)
    \/ Fill

Spec == Init /\ [][Next]_vars

-----------------------------------------------------------------------------
(* Properties *)

Addresses == 0..MemoryEnd
PointersOf == Addresses \union {NULL}
Blocks == [chunk : Addresses, ptr : Nat, size : Nat, data : Nat]

(* Types, and what belongs to what: a thread holds the lock exactly while   *)
(* it is between the two writes of a merge.                                 *)
TypeOK ==
    /\ hasSource \in BOOLEAN
    /\ heap.next \in [Chunks(heap) -> PointersOf]
    /\ heap.prev \in [Chunks(heap) -> PointersOf]
    /\ heap.status \in [Chunks(heap) -> {"FREE", "ALLOCATED"}]
    /\ Chunks(heap) \subseteq Addresses
    /\ heap.lists \in [Lists -> Seq(Chunks(heap))]
    /\ heap.filled \in [Lists -> BOOLEAN]
    /\ segments \in [DOMAIN segments -> Nat] /\ DOMAIN segments \subseteq Bases
    /\ unused \subseteq Areas
    /\ lock \in Threads \union {NULL}
    /\ live \subseteq Blocks
    /\ pc \in [Threads -> {"idle", "free", "merge", "unmap", "resize", "grow", "move"}]
    /\ \A t \in Threads : lock = t <=> pc[t] \in {"merge", "grow"}

(* The headers are the chain of chunks of the areas given to the allocator: *)
(* linked both ways in address order, nothing between a chunk and its next, *)
(* every area starting with a chunk and ending with a closing header.       *)
Extents == {<<b + SegmentHeader, b + segments[b]>> : b \in DOMAIN segments} \union
           {<<a[1], a[1] + a[2]>> : a \in IF hasSource THEN {} ELSE Areas \ unused}

Tiled ==
    lock = NULL =>
    /\ \A c \in Chunks(heap) :
         /\ Check(heap, c)
         /\ heap.next[c] # NULL =>
              /\ heap.next[c] \in Chunks(heap)
              /\ heap.next[c] - c >= HeaderSize + MinInnerSize
              /\ \A d \in Chunks(heap) : ~ (c < d /\ d < heap.next[c])
         /\ \E e \in Extents :
              /\ e[1] <= c /\ c < e[2]
              /\ heap.prev[c] = NULL <=> c = e[1]
              /\ heap.next[c] = NULL <=> c = e[2] - HeaderSize
    /\ \A e \in Extents : {e[1], e[2] - HeaderSize} \subseteq Chunks(heap)

(* The free lists hold the free chunks and nothing else, each one once, in  *)
(* the class of its size; a flag is up exactly when its list has a chunk.   *)
(* A list misplaced or a flag left up or down would hide memory or send a   *)
(* search to the wrong sizes without any visible failure.                   *)
FreeListsExact ==
    lock = NULL =>
    /\ \A c \in Chunks(heap) :
         LET places == {p \in Lists \X (1..Cardinality(Chunks(heap))) :
                          p[2] <= Len(heap.lists[p[1]]) /\ heap.lists[p[1]][p[2]] = c}
         IN  IF heap.status[c] = "FREE"
               THEN /\ Cardinality(places) = 1
                    /\ \A p \in places :
                         /\ p[1] # 1 => Sizes[p[1]] <= InnerSize(heap, c)
                                        \/ Sizes[p[1]] = Unlimited
                         /\ p[1] < Len(Sizes) => InnerSize(heap, c) < Sizes[p[1] + 1]
               ELSE places = {}
    /\ \A i \in Lists : heap.filled[i] <=> heap.lists[i] # <<>>

(* malloc goes to the memory source, or fails, only when no free chunk is   *)
(* large enough: the search above the class and just below it misses none.  *)
SearchIsComplete ==
    lock = NULL =>
    \A size \in MallocSizes :
        LET found == FindChunk(heap, size)
        IN  IF found = NULL
              THEN \A c \in Chunks(heap) :
                     heap.status[c] = "FREE" => InnerSize(heap, c) < size
              ELSE heap.status[found] = "FREE" /\ InnerSize(heap, found) >= size

(* The chunks an operation in progress is responsible for.                  *)
InHand(t) ==
    CASE pc[t] \in {"free", "unmap"} -> {op[t].first}
      [] pc[t] \in {"resize", "move"} -> {op[t].block.chunk}
      [] OTHER -> {}

(* No memory is lost and none is shared: outside the lock every allocated   *)
(* chunk belongs to exactly one block in use or one operation in progress.  *)
EveryChunkOwnedOnce ==
    lock = NULL =>
    \A c \in {d \in Chunks(heap) : heap.next[d] # NULL} :
        LET users   == {b \in live : b.chunk = c}
            threads == {t \in Threads : c \in InHand(t)}
        IN  Cardinality(users) + Cardinality(threads) =
              (IF heap.status[c] = "ALLOCATED" THEN 1 ELSE 0)

(* A segment goes back to the memory source only when it holds one chunk,   *)
(* no block in use, and no other thread works on it: what free decided      *)
(* under the lock is still true when it unmaps after it.                    *)
UnmapWholeSegment ==
    \A t \in Threads : pc[t] = "unmap" =>
        LET b == SegmentOf(op[t].first)
            inside(a) == b <= a /\ a < b + segments[b]
        IN  /\ IsSingle(heap, op[t].first)
            /\ heap.status[op[t].first] = "ALLOCATED"
            /\ \A x \in live : ~ inside(x.chunk)
            /\ \A r \in Threads \ {t} : \A c \in InHand(r) : ~ inside(c)
            /\ \A i \in Lists : \A k \in 1..Len(heap.lists[i]) : ~ inside(heap.lists[i][k])

(* The memory given to the allocator is exact: it is tiled by chunks, each  *)
(* owned once, and leaves the allocator in whole segments.                  *)
HeapExact == TypeOK /\ Tiled /\ EveryChunkOwnedOnce /\ UnmapWholeSegment

(* Only realloc, which does not look behind what it cuts off, leaves two    *)
(* free chunks side by side: every other step keeps memory coalesced.       *)
FreePairs ==
    {c \in Chunks(heap) : /\ heap.next[c] # NULL /\ heap.status[c] = "FREE"
                         /\ heap.status[heap.next[c]] = "FREE"}

Realloc(t) == Resize(t) \/ Grow(t)

OnlyReallocFragments ==
    [][Cardinality(FreePairs') > Cardinality(FreePairs) => \E t \in Threads : Realloc(t)]_vars

(* The blocks in use never overlap: the allocator implements BlockHeap. *)
UsedBlocks ==
    {[ptr |-> b.ptr, size |-> b.size] :
       b \in live \union {op[t].block : t \in {r \in Threads : pc[r] \in {"resize", "grow", "move"}}}}

AbstractHeap == INSTANCE BlockHeap WITH blocks <- UsedBlocks
Implements == AbstractHeap!Spec

-----------------------------------------------------------------------------
(* What the repository says and some runs refute.                           *)

(* malloc asserts that the chunk it returns contains the block              *)
(* (chunk->contain(res), chunk->contain(res + size - 1)).                   *)
BlockInsideChunk ==
    \A b \in live :
        /\ GetPtr(b.chunk) <= b.ptr
        /\ lock = NULL => b.ptr + b.size <= GetPtr(b.chunk) + InnerSize(heap, b.chunk)

(* The replay tool aborts with "Fail to keep content on realloc" when the   *)
(* bytes of a block are not found at the address realloc returned.          *)
ReallocKeepsContent == \A b \in live : b.data = b.ptr
=============================================================================
