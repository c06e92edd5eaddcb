--------------------------- MODULE SmallAllocator ---------------------------
(***************************************************************************)
(* The small allocator (lib/chunks/SmallAllocator.cpp): threads that share *)
(* runs of cells under one lock.                                           *)
(*                                                                         *)
(* For every class of sizes one run is active and the others in use wait   *)
(* in a list; runs without a block are in the list of their container.     *)
(* A critical section is one action, the calls to the memory source in it  *)
(* included; what free and realloc read before it is an action of its own. *)
(***************************************************************************)
EXTENDS SmallRunContainer, Sequences

CONSTANTS
    Threads,
    MallocSizes, ReallocSizes,      \* the requests
    Bases, SegmentSize,             \* where the source maps, REGION_SPLITTING
    SegmentHeader,                  \* sizeof(RegionSegmentHeader)
    Areas,                          \* user areas for fill: <<address, size>>
    MaxBlocks                       \* bound: no malloc with that many in use

SMALL_SIZE_CLASSES == <<8, 16, 24, 32, 48, 64, 80, 96, 112, 128>>
Classes == 0 .. Len(SMALL_SIZE_CLASSES) - 1
ClassSize(k) == SMALL_SIZE_CLASSES[k + 1]

InUse(k) == <<"inUse", k>>
Containers == <<"containers", 0>>

VARIABLES
    hasSource,             \* FALSE: memorySource is NULL and fill is used
    mem,                   \* headers of containers and runs, all the lists
    activRuns,             \* class -> run or NULL
    segments,              \* bases of the segments the source gave
    unused,                \* areas not given to fill yet
    live,                  \* blocks held by users
    pc, op                 \* per thread: control point, what it works on

vars == <<hasSource, mem, activRuns, segments, unused, live, pc, op>>

Block(ptr, size) == [ptr |-> ptr, size |-> size]
NoOp == [block |-> NULL, size |-> 0]

(* The blocks that still have their cell: those of users, and those that a  *)
(* free or a realloc in progress has not given back.                        *)
Pending == {op[t].block : t \in {r \in Threads : pc[r] # "idle"}}
Holding == live \union Pending

GetSizeClass(size) ==
    IF size < 8 THEN 0
    ELSE IF size <= 32 THEN (size - 1) \div 8
    ELSE (size - 1) \div 16 + 2

(* The sizes getSizeClass asserts.                                          *)
Requests == MallocSizes \union ReallocSizes
ASSUME RequestsAssumption == Requests \subseteq 1 .. 128

(* A thread without a block is told from one that has any. *)
ASSUME NoBlockAssumption == NULL \notin [ptr : Nat, size : 1 .. 128]

(* The memory of the containers: segments, and areas given to fill.         *)
Given ==
    {[start |-> b + SegmentHeader, size |-> SegmentSize - SegmentHeader] : b \in Bases}
      \union {[start |-> a[1] + h, size |-> a[2] - h] : a \in Areas, h \in {0, SegmentHeader}}

(* No two share memory, they end with a page, and the header of a container *)
(* lies before the fields of the first run.                                 *)
ASSUME MemoryAssumption ==
    /\ Bases \subseteq Nat /\ Areas \subseteq Nat \X Nat
    /\ SegmentSize \in Nat /\ SegmentHeader \in Nat
    /\ \A a, b \in Bases : a # b => a + SegmentSize <= b \/ b + SegmentSize <= a
    /\ \A a, b \in Areas : a # b => a[1] + a[2] <= b[1] \/ b[1] + b[2] <= a[1]
    /\ \A g \in Given :
         /\ g.size \in Nat /\ g.size > ContainerSize
         /\ (g.start + g.size) % RunSize = 0
         /\ (g.start + ContainerSize) % RunSize <= StorageSize

(* A fresh run has a cell for every request, also behind the header of a    *)
(* container.                                                               *)
ASSUME CellsAssumption ==
    \A g \in Given, n \in Requests :
        \A skip \in {0, (g.start + ContainerSize) % RunSize} :
            SetSplitting(NewRun(skip, g.start), ClassSize(GetSizeClass(n))).free # {}

-----------------------------------------------------------------------------
(* malloc *)

(* fill: a container over memory we own, last in the list of containers.    *)
AddContainer(m, ptr, size) ==
    LET new == Setup(m, ptr, size)
    IN  [new EXCEPT !.lists = PutLast(@, Containers, ContainerNode(ptr))]

(* findEmptyRun: the first container that has one, or NULL. *)
FindEmptyRun(m) ==
    LET node == FirstIn(m.lists, Containers,
                        {ContainerNode(c) : c \in {d \in DOMAIN m.containers :
                                                     EmptyRun(m, d) # NULL}})
    IN  IF node = NULL THEN NULL ELSE node[2]

(* refill: what it can leave; the source may be out of memory.              *)
Refill ==
    {[mem |-> mem, segments |-> segments]} \union
    (IF hasSource
       THEN {[mem      |-> AddContainer(mem, b + SegmentHeader, SegmentSize - SegmentHeader),
              segments |-> segments \union {b}] : b \in Bases \ segments}
       ELSE {})

(* Mutant: the search of a run to reuse forgets those of the list.          *)
Partial_None(k) == NULL

(* The first run of the class, in its list, that still has a free cell.     *)
Partial(k) ==
    FirstIn(mem.lists, InUse(k), {RunNode(r) : r \in {q \in DOMAIN mem.runs : ~ IsFull(mem.runs[q])}})

(* An empty run becomes a run of the class; NULL when there is none.        *)
TakeEmpty(s, k) ==
    LET c == FindEmptyRun(s.mem)
    IN  IF c = NULL THEN [mem |-> s.mem, segments |-> s.segments, run |-> NULL]
        ELSE LET r == EmptyRun(s.mem, c)
             IN  [mem      |-> [TakeEmptyRun(s.mem, c) EXCEPT
                                  !.runs[r] = SetSplitting(@, ClassSize(k))],
                  segments |-> s.segments,
                  run      |-> r]

(* Where updateActivRunForSize finds the next run: a run of the class with  *)
(* room, an empty run, an empty run of a new segment.                       *)
NextRun(k) ==
    LET partial == Partial(k)
    IN  IF partial # NULL
          THEN {[mem |-> [mem EXCEPT !.lists = RemoveNode(@, partial)],
                 segments |-> segments, run |-> partial[2]]}
        ELSE IF FindEmptyRun(mem) # NULL
          THEN {TakeEmpty([mem |-> mem, segments |-> segments], k)}
        ELSE {TakeEmpty(s, k) : s \in Refill}

(* Mutant: the run that was active is put in no list. *)
Rotate_Lost(s, k) ==
    [mem |-> s.mem, segments |-> s.segments,
     activ |-> [activRuns EXCEPT ![k] = s.run], run |-> s.run]

(* It replaces the active run, which goes to the end of the list.           *)
Rotate(s, k) ==
    [mem      |-> IF activRuns[k] = NULL THEN s.mem
                  ELSE [s.mem EXCEPT !.lists = PutLast(@, InUse(k), RunNode(activRuns[k]))],
     segments |-> s.segments,
     activ    |-> [activRuns EXCEPT ![k] = s.run],
     run      |-> s.run]

UpdateActivRun(k) ==
    {IF s.run # NULL THEN Rotate(s, k)
     ELSE [mem |-> s.mem, segments |-> s.segments, activ |-> activRuns, run |-> NULL] :
       s \in NextRun(k)}

(* The critical section of malloc, with the address it returns or NULL.     *)
Cell(s) ==
    IF s.run = NULL THEN [mem |-> s.mem, segments |-> s.segments,
                          activ |-> s.activ, ptr |-> NULL]
    ELSE LET run == s.mem.runs[s.run]
         IN  [mem |-> [s.mem EXCEPT !.runs[s.run] = RunMalloc(run)],
              segments |-> s.segments, activ |-> s.activ,
              ptr |-> CellPtr(s.run, run, FirstFree(run))]

Allocate(size) ==
    LET k == GetSizeClass(size)
        r == activRuns[k]
    IN  IF r # NULL /\ ~ IsFull(mem.runs[r])
          THEN {Cell([mem |-> mem, segments |-> segments, activ |-> activRuns, run |-> r])}
          ELSE {Cell(s) : s \in UpdateActivRun(k)}

Became(r) ==
    /\ mem' = r.mem
    /\ segments' = r.segments
    /\ activRuns' = r.activ

Malloc(t) ==
    /\ pc[t] = "idle"
    /\ Cardinality(Holding) < MaxBlocks
    /\ \E size \in MallocSizes : \E r \in Allocate(size) :
        /\ Became(r)
        /\ live' = IF r.ptr = NULL THEN live ELSE live \union {Block(r.ptr, size)}
    /\ UNCHANGED <<hasSource, unused, pc, op>>

-----------------------------------------------------------------------------
(* free *)

(* getRun, before the lock: an address outside the cells is ignored.        *)
FreeBegin(t) ==
    /\ pc[t] = "idle"
    /\ \E b \in live :
        /\ live' = live \ {b}
        /\ IF RunContain(RunOf(b.ptr), mem.runs[RunOf(b.ptr)], b.ptr)
             THEN /\ pc' = [pc EXCEPT ![t] = "free"]
                  /\ op' = [op EXCEPT ![t] = [NoOp EXCEPT !.block = b]]
             ELSE UNCHANGED <<pc, op>>
    /\ UNCHANGED <<hasSource, mem, activRuns, segments, unused>>

(* The run leaves its class: it was active, or in the list.                 *)
Detach(m, r) ==
    LET k == GetSizeClass(m.runs[r].splitting)
    IN  IF activRuns[k] = r
          THEN [mem |-> m, activ |-> [activRuns EXCEPT ![k] = NULL]]
          ELSE [mem |-> [m EXCEPT !.lists = RemoveNode(@, RunNode(r))], activ |-> activRuns]

(* A container without runs in use goes back to the source, under the lock. *)
Release(s, c) ==
    IF IsEmptyContainer(s.mem, c) /\ hasSource
      THEN [s EXCEPT !.mem = Forget([s.mem EXCEPT !.lists = RemoveNode(@, ContainerNode(c))], c),
                     !.segments = @ \ {c - SegmentHeader}]
      ELSE s

MarkRunAsFree(m, r) ==
    LET out == Detach(m, r)
        reg == RegEmpty([out.mem EXCEPT !.runs[r] = SetSplitting(@, 0)], r)
    IN  Release([mem |-> reg, segments |-> segments, activ |-> out.activ], m.runs[r].container)

FreeCell(t) ==
    /\ pc[t] = "free"
    /\ LET r   == RunOf(op[t].block.ptr)
           run == RunFree(mem.runs[r], CellOf(r, mem.runs[r], op[t].block.ptr))
           m   == [mem EXCEPT !.runs[r] = run]
       IN  Became(IF IsEmptyRun(run) THEN MarkRunAsFree(m, r)
                  ELSE [mem |-> m, segments |-> segments, activ |-> activRuns])
    /\ pc' = [pc EXCEPT ![t] = "idle"]
    /\ op' = [op EXCEPT ![t] = NoOp]
    /\ UNCHANGED <<hasSource, unused, live>>

-----------------------------------------------------------------------------
(* realloc: the class of the block is read before any lock, and a block of  *)
(* the right class is returned as it is.                                    *)
ReallocBegin(t) ==
    /\ pc[t] = "idle"
    /\ \E b \in live, size \in ReallocSizes :
        IF GetSizeClass(mem.runs[RunOf(b.ptr)].splitting) = GetSizeClass(size)
          THEN /\ live' = (live \ {b}) \union {Block(b.ptr, size)}
               /\ UNCHANGED <<pc, op>>
          ELSE /\ live' = live \ {b}
               /\ pc' = [pc EXCEPT ![t] = "move"]
               /\ op' = [op EXCEPT ![t] = [block |-> b, size |-> size]]
    /\ UNCHANGED <<hasSource, mem, activRuns, segments, unused>>

(* malloc under its own lock, memcpy, then free of the old block, which     *)
(* happens when malloc failed as well.                                      *)
Move(t) ==
    /\ pc[t] = "move"
    /\ \E r \in Allocate(op[t].size) :
        /\ Became(r)
        /\ live' = IF r.ptr = NULL THEN live
                   ELSE live \union {Block(r.ptr, op[t].size)}
    /\ pc' = [pc EXCEPT ![t] = "free"]
    /\ UNCHANGED <<hasSource, unused, op>>

-----------------------------------------------------------------------------
(* fill: an area of the user; with a registry it first gets the header of a *)
(* segment.  Only the insertion in the list is under the lock.              *)
Fill ==
    /\ ~ hasSource
    /\ \E a \in unused, header \in {0, SegmentHeader} :
        /\ mem' = AddContainer(mem, a[1] + header, a[2] - header)
        /\ unused' = unused \ {a}
    /\ UNCHANGED <<hasSource, activRuns, segments, live, pc, op>>

-----------------------------------------------------------------------------
Init ==
    /\ hasSource \in BOOLEAN
    /\ mem = [runs |-> <<>>, containers |-> <<>>,
              lists |-> AddNodes([next |-> <<>>, prev |-> <<>>],
                                 {Containers} \union {InUse(k) : k \in Classes})]
    /\ activRuns = [k \in Classes |-> NULL]
    /\ segments = {}
    /\ unused = IF hasSource THEN {} ELSE Areas
    /\ live = {}
    /\ pc = [t \in Threads |-> "idle"]
    /\ op = [t \in Threads |-> NoOp]

Next ==
    \/ \E t \in Threads :
        \/ Malloc(t) \/ FreeBegin(t) \/ FreeCell(t)
        \/ ReallocBegin(t) \/ Move(t)
    \/ Fill

Spec == Init /\ [][Next]_vars

-----------------------------------------------------------------------------
(* Properties *)

Runs == DOMAIN mem.runs

(* The classes for which a run is the active one.                           *)
Actives(r) == {k \in Classes : activRuns[k] = r}

(* Types of the state of the allocator and of the threads. *)
TypeOK ==
    /\ hasSource \in BOOLEAN
    /\ \A r \in Runs :
         /\ r % RunSize = 0
         /\ mem.runs[r].splitting \in {0} \union {ClassSize(k) : k \in Classes}
         /\ mem.runs[r].container \in DOMAIN mem.containers
    /\ Nodes(mem.lists) =
         {Containers} \union {InUse(k) : k \in Classes} \union {RunNode(r) : r \in Runs}
           \union {ContainerNode(c) : c \in DOMAIN mem.containers}
           \union {EmptyRuns(c) : c \in DOMAIN mem.containers}
    /\ activRuns \in [Classes -> Runs \union {NULL}]
    /\ segments \subseteq Bases
    /\ unused \subseteq Areas
    /\ pc \in [Threads -> {"idle", "free", "move"}]
    /\ \A t \in Threads : op[t].block = NULL <=> pc[t] = "idle"

(* Every node but the active runs, which are in no list, is linked both     *)
(* ways to nodes that still exist, as hardChecking asserts of a list:       *)
(* unmapping a container leaves no link into it.                            *)
ListsLinked ==
    \A n \in Nodes(mem.lists) :
        n \notin {RunNode(activRuns[k]) : k \in Classes} => WellLinked(mem.lists, n)

(* A run is in one place: with the empty runs of its container when it has  *)
(* no splitting, otherwise active for the class of its splitting or in the  *)
(* list of that class, and its memory is still mapped.                      *)
RunInOnePlace ==
    \A r \in Runs :
        LET size  == mem.runs[r].splitting
            lists == {k \in Classes : RunNode(r) \in Elements(mem.lists, InUse(k))}
            empty == {c \in DOMAIN mem.containers :
                        RunNode(r) \in Elements(mem.lists, EmptyRuns(c))}
        IN  IF size = 0
              THEN /\ empty = {mem.runs[r].container}
                   /\ Actives(r) = {} /\ lists = {}
              ELSE /\ empty = {}
                   /\ Actives(r) \intersect lists = {}
                   /\ Actives(r) \union lists = {GetSizeClass(size)}

(* A container counts exactly its runs in use, is in the list, and is given *)
(* back as soon as it has none: the count is what decides the unmap.        *)
ContainersExact ==
    /\ Elements(mem.lists, Containers) = {ContainerNode(c) : c \in DOMAIN mem.containers}
    /\ \A c \in DOMAIN mem.containers :
         /\ mem.containers[c].reservedRuns =
              Cardinality({r \in RunsOf(mem, c) : mem.runs[r].splitting # 0})
         /\ hasSource => mem.containers[c].reservedRuns > 0
    /\ hasSource => DOMAIN mem.containers = {b + SegmentHeader : b \in segments}

(* A cell whose bit is clear is hidden or belongs to one block, and a run   *)
(* counts its blocks: nothing is lost, nothing is handed out twice.         *)
CellsExact ==
    /\ \A b \in Holding : RunOf(b.ptr) \in Runs /\ mem.runs[RunOf(b.ptr)].splitting # 0
    /\ \A r \in {q \in Runs : mem.runs[q].splitting # 0} :
         LET run    == mem.runs[r]
             blocks == {b \in Holding : RunOf(b.ptr) = r}
             cells  == {CellOf(r, run, b.ptr) : b \in blocks}
         IN  /\ run.cntAlloc = Cardinality(blocks)
             /\ run.cntAlloc = Cardinality(cells)
             /\ run.cntAlloc > 0
             /\ cells \intersect run.free = {}
             /\ cells \union run.free = SetSplitting(run, run.splitting).free

(* A cell is large enough, aligned, and apart from what the allocator keeps *)
(* in the run: the header of the container, the bitmap, the fields at the   *)
(* end.                                                                     *)
CellsApart ==
    \A b \in Holding :
        LET r   == RunOf(b.ptr)
            run == mem.runs[r]
        IN  /\ b.size <= run.splitting
            /\ (b.ptr - r) % run.splitting = 0
            /\ b.ptr + run.splitting <= r + StorageSize
            /\ b.ptr >= run.container + ContainerSize
            /\ b.ptr >= r + run.skip * EntrySize + BitmapSize(run.entries)

(* A run lies in the memory of its container. *)
RunsInContainer ==
    \A r \in Runs :
        LET c == mem.runs[r].container
        IN  c < r + StorageSize /\ r + RunSize <= c + mem.containers[c].size

(* Runs and containers are exact: linked, each run in one place, counted in *)
(* its container, which is unmapped when nothing refers to it any more.     *)
RunsExact == TypeOK /\ ListsLinked /\ RunInOnePlace /\ ContainersExact

(* Cells lie in their run and runs in their container, clear of what the    *)
(* allocator writes there itself.                                           *)
CellsInPlace == CellsApart /\ RunsInContainer

(* The source is asked for a segment only when the class has no free cell   *)
(* and no container an empty run.                                           *)
OnlyRefillsWhenFull ==
    [][\A b \in segments' \ segments :
         \E k \in Classes :
           \A r \in Runs : /\ mem.runs[r].splitting # 0
                           /\ mem.runs[r].splitting = ClassSize(k) => IsFull(mem.runs[r])
                           /\ \A q \in DOMAIN mem'.runs \ Runs :
                                mem'.runs[q].splitting \in {0, ClassSize(k)}]_vars

(* The blocks in use never overlap: the allocator implements BlockHeap. *)
AbstractHeap == INSTANCE BlockHeap WITH blocks <- Holding
Implements == AbstractHeap!Spec
=============================================================================
