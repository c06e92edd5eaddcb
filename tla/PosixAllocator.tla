--------------------------- MODULE PosixAllocator ---------------------------
(***************************************************************************)
(* The allocator behind malloc, calloc, memalign, realloc and free         *)
(* (lib/posix/PosixExport.cpp, PosixAllocator.cpp, PosixAllocatorLocal.cpp *)
(* and PosixAllocatorNUMA.cpp, the selected one).                          *)
(*                                                                         *)
(* The first calls race to build the one allocator under gblAllocInitLock. *)
(* The thread that builds it loads the topology with hwloc, which calls    *)
(* malloc and free again, in that thread and with the mutex held: op is a  *)
(* stack of the calls a thread is in.  Then every thread builds an         *)
(* allocator of its own at its first allocation.                           *)
(*                                                                         *)
(* A block carries the allocator that owns it and the kind of manager its  *)
(* segment names, what the registry answers (RegionRegistry); what those   *)
(* managers do inside is SmallAllocator and MediumAllocator.  None of the  *)
(* calls of a manager returns NULL here.                                   *)
(***************************************************************************)
EXTENDS Integers, FiniteSets, Sequences

CONSTANTS
    Threads, NULL,
    Sizes, Aligns,          \* the sizes and alignments of the requests
    BasicAlign,             \* BASIC_ALIGN
    ClassSizes,             \* the sizes of the small classes
    Slack,                  \* what a medium chunk may hold more than asked
    NumaCounts,             \* how many nodes the machine may have
    ReallocPadded,          \* is a medium block behind a padding resized?
    MaxBlocks               \* bound: no allocation with that many blocks

ASSUME SizesAssumption ==
    /\ Sizes \subseteq Nat
    /\ Aligns \subseteq Nat \ {0}
    /\ BasicAlign \in Aligns
    /\ NumaCounts \subseteq Nat
    /\ Slack \in Nat

ASSUME ReallocPaddedAssumption == ReallocPadded \in BOOLEAN

(* The table of the classes is not empty and has a last one. *)
ASSUME ClassesAssumption ==
    /\ ClassSizes \subseteq Nat
    /\ \E last \in ClassSizes : \A c \in ClassSizes : c <= last

Largest(S)  == CHOOSE x \in S : \A y \in S : y <= x
Smallest(S) == CHOOSE x \in S : \A y \in S : x <= y

SMALL_CHUNK_MAX_SIZE == Largest(ClassSizes)

Internal == "internalAllocator"

ASSUME NamesAssumption == NULL \notin Threads \union {Internal} /\ Internal \notin Threads

VARIABLES
    numaCount,              \* the nodes hwloc will report, never changed
    gblAllocator,           \* the pointer: TRUE once it is set
    constructed,            \* how many times the allocator was built
    gblAllocInitLock,       \* the thread that holds it, or NULL
    numaTopoCnt,            \* 0 until the topology is known
    cur, def,               \* TLS: thread -> allocator or NULL
    built,                  \* thread -> how many allocators it has built
    live,                   \* blocks of the users
    pc, op,                 \* per thread: control point, stack of calls
    running                 \* FALSE once the process has aborted

vars == <<numaCount, gblAllocator, constructed, gblAllocInitLock, numaTopoCnt,
          cur, def, built, live, pc, op, running>>
global == <<numaCount, gblAllocator, constructed, gblAllocInitLock, numaTopoCnt>>
local  == <<cur, def, built>>

Top(t) == Head(op[t])

(* The blocks that still have their memory: those of users and those a free *)
(* or a realloc in progress works on.                                       *)
Pending == (UNION {{op[t][i].block : i \in DOMAIN op[t]} : t \in Threads}) \ {NULL}
Holding == live \union Pending

-----------------------------------------------------------------------------
(* The allocation itself *)

(* SmallAllocator returns the cell of a class, never known to be zero;      *)
(* MediumAllocator knows it of memory that comes from the source.  It asks  *)
(* a larger chunk for a block aligned on more than chunks are, and puts     *)
(* none of it or, at most, all of it in a padding before the block.         *)
SmallMalloc(size) ==
    {[kind |-> "small", zero |-> FALSE, pad |-> 0,
      inner |-> IF size > SMALL_CHUNK_MAX_SIZE THEN SMALL_CHUNK_MAX_SIZE
                ELSE Smallest({c \in ClassSizes : size <= c})]}

ForPadding(align) == IF align > BasicAlign THEN align ELSE 0

MediumMalloc(size, align) ==
    {[kind |-> "medium", zero |-> z, pad |-> p, inner |-> size + more + ForPadding(align) - p] :
       z \in BOOLEAN, more \in {0, Slack}, p \in {0, ForPadding(align)}}

(* The smaller kind that fits; no size is sent to HugeAllocator.            *)
ByKind(size, align) ==
    IF size <= SMALL_CHUNK_MAX_SIZE THEN SmallMalloc(size) ELSE MediumMalloc(size, align)

(* PosixAllocatorLocal::internalMalloc: an alignment larger than the size   *)
(* replaces the size, and a block asked zeroed is set to zero unless its    *)
(* manager says it is.                                                      *)
Asked(size, align) == IF align > size THEN align ELSE size

LocalInternalMalloc(size, align, requireZero) ==
    {[r EXCEPT !.zero = @ \/ requireZero] : r \in ByKind(Asked(size, align), align)}

(* The small allocator only knows the basic alignment.                      *)
Refused(size, align) == align # BasicAlign /\ Asked(size, align) <= SMALL_CHUNK_MAX_SIZE

(* Mutant: the flag is passed by value, so nobody clears the memory.        *)
LocalMalloc_NotZeroed(size, align, requireZero) == LocalInternalMalloc(size, align, FALSE)

(* PosixAllocatorLocal::malloc with its pointer to a flag: the pointer, never *)
(* NULL, is converted to the flag requireZero: memory is always zeroed.     *)
LocalMalloc(size, align, requireZero) == LocalInternalMalloc(size, align, TRUE)

(* A block: the room it has (inner) behind its padding (pad), and how many  *)
(* of its first bytes hold what they must (valid): zeros after calloc, the  *)
(* former contents after realloc.                                           *)
Block(owner, size, r, valid) ==
    [id |-> Smallest((1 .. MaxBlocks + Cardinality(Threads)) \ {b.id : b \in Holding}),
     owner |-> owner, kind |-> r.kind, size |-> size, inner |-> r.inner, pad |-> r.pad,
     valid |-> valid]

(* PosixAllocator::internalMalloc in thread t: it clears the memory when    *)
(* its flag, set to requireZero, has become FALSE, which no callee does.    *)
NewBlocks(t, c) ==
    LET requireZero == c.call = "calloc"
        size == IF c.call = "malloc" /\ c.size = 0 THEN 1 ELSE c.size
    IN  {Block(cur[t], size, r, IF requireZero /\ ~ r.zero THEN 0 ELSE size) :
           r \in LocalMalloc(size, c.align, requireZero)}

-----------------------------------------------------------------------------
(* A call and its return *)

Call(call, size, align, block) ==
    [call |-> call, size |-> size, align |-> align, block |-> block]

Allocations ==
    {Call("malloc", s, BasicAlign, NULL) : s \in Sizes} \union
    {Call("calloc", s, BasicAlign, NULL) : s \in Sizes} \union
    {Call("memalign", s, a, NULL) : s \in Sizes \ {0}, a \in Aligns \ {BasicAlign}}

(* PosixAllocatorLocal::realloc stays in the allocator that holds the block *)
(* when the new size is of its kind.                                        *)
SameKind(kind, size) ==
    IF kind = "small" THEN size <= SMALL_CHUNK_MAX_SIZE ELSE size > SMALL_CHUNK_MAX_SIZE

(* realloc(NULL, s) is internalMalloc(s) without the rounding of zero, and  *)
(* realloc(p, 0) is free(p).  Whether users resize a block that has a       *)
(* padding, within its kind, is the constant ReallocPadded.                 *)
FreeCalls == {Call("free", 0, BasicAlign, b) : b \in live}
ReallocCalls ==
    {c \in {Call("realloc", s, BasicAlign, b) : s \in Sizes \ {0}, b \in live} :
       ReallocPadded \/ c.block.pad = 0 \/ ~ SameKind(c.block.kind, c.size)}

IsAllocation(c) == c.call \in {"malloc", "calloc", "memalign"}

AllocationsInProgress ==
    Cardinality({i \in Threads \X {1, 2} : i[2] \in DOMAIN op[i[1]] /\ IsAllocation(op[i[1]][i[2]])})

Enter(t) ==
    \E c \in (IF Cardinality(Holding) + AllocationsInProgress < MaxBlocks THEN Allocations ELSE {})
               \union FreeCalls \union ReallocCalls :
        /\ live' = live \ {c.block}
        /\ op' = [op EXCEPT ![t] = <<c>> \o @]
        /\ pc' = [pc EXCEPT ![t] = IF gblAllocator THEN "run" ELSE "lock"]
        /\ UNCHANGED <<global, local, running>>

UserCall(t) == pc[t] = "idle" /\ Enter(t)

Return(t) ==
    /\ op' = [op EXCEPT ![t] = Tail(@)]
    /\ pc' = [pc EXCEPT ![t] = IF Len(op[t]) = 1 THEN "idle" ELSE "topo"]

Abort ==
    /\ running' = FALSE
    /\ UNCHANGED <<global, local, live, pc, op>>

Goto(t, from, to) == pc[t] = from /\ pc' = [pc EXCEPT ![t] = to]

-----------------------------------------------------------------------------
(* allocInit *)

(* LOCKS_INIT_MUTEX: the mutex is not recursive. *)
Lock(t) ==
    /\ Goto(t, "lock", "check")
    /\ gblAllocInitLock = NULL
    /\ gblAllocInitLock' = t
    /\ UNCHANGED <<numaCount, gblAllocator, constructed, numaTopoCnt, local, live, op, running>>

(* Mutant: the pointer is not read again under the lock. *)
Check_Once(t) ==
    /\ Goto(t, "check", "publish")
    /\ constructed' = constructed + 1
    /\ UNCHANGED <<numaCount, gblAllocator, gblAllocInitLock, numaTopoCnt, local, live, op, running>>

Check(t) ==
    /\ Goto(t, "check", IF gblAllocator THEN "unlock" ELSE "publish")
    /\ constructed' = IF gblAllocator THEN constructed ELSE constructed + 1
    /\ UNCHANGED <<numaCount, gblAllocator, gblAllocInitLock, numaTopoCnt, local, live, op, running>>

Publish(t) ==
    /\ Goto(t, "publish", "postInit")
    /\ gblAllocator' = TRUE
    /\ UNCHANGED <<numaCount, constructed, gblAllocInitLock, numaTopoCnt, local, live, op, running>>

PostInit(t) ==
    /\ Goto(t, "postInit", "topo")
    /\ cur' = [cur EXCEPT ![t] = Internal]
    /\ UNCHANGED <<global, def, built, live, op, running>>

(* new Topo and hwloc: calls of the allocator by the thread that builds it. *)
TopoCall(t) == pc[t] = "topo" /\ Enter(t)

TopoDone(t) ==
    /\ Goto(t, "topo", "arrays")
    /\ numaTopoCnt' = numaCount
    /\ UNCHANGED <<numaCount, gblAllocator, constructed, gblAllocInitLock, local, live, op, running>>

(* Mutant: the internal allocator stays current. *)
Arrays_NotReset(t) ==
    /\ pc[t] = "arrays"
    /\ numaTopoCnt = 0
    /\ pc' = [pc EXCEPT ![t] = "unlock"]
    /\ UNCHANGED <<global, local, live, op, running>>

(* With nodes, the local allocator of the first one is stored through       *)
(* numaStrictAlloc, an array that was never allocated.                      *)
Arrays(t) ==
    /\ pc[t] = "arrays"
    /\ \/ numaTopoCnt > 0 /\ Abort
       \/ /\ numaTopoCnt = 0
          /\ pc' = [pc EXCEPT ![t] = "unlock"]
          /\ cur' = [cur EXCEPT ![t] = def[t]]
          /\ UNCHANGED <<global, def, built, live, op, running>>

(* Mutant: the mutex is not released. *)
Unlock_Kept(t) ==
    /\ Goto(t, "unlock", "run")
    /\ UNCHANGED <<global, local, live, op, running>>

Unlock(t) ==
    /\ Goto(t, "unlock", "run")
    /\ gblAllocInitLock' = NULL
    /\ UNCHANGED <<numaCount, gblAllocator, constructed, numaTopoCnt, local, live, op, running>>

-----------------------------------------------------------------------------
(* PosixAllocator *)

(* getMMSource of PosixAllocatorNUMA: with nodes, getAbsDepth looks for the *)
(* depth 0, which no level has, and aborts.                                 *)
SourceKnown == numaTopoCnt = 0

(* initLocal: the allocator of thread t, in memory of internalAlloc.        *)
BuildLocal(t) ==
    /\ cur' = [cur EXCEPT ![t] = t]
    /\ def' = [def EXCEPT ![t] = t]
    /\ built' = [built EXCEPT ![t] = @ + 1]
    /\ UNCHANGED <<global, live, pc, op, running>>

InitLocal(t) ==
    /\ pc[t] = "run" /\ IsAllocation(Top(t)) /\ cur[t] = NULL
    /\ IF SourceKnown THEN BuildLocal(t) ELSE Abort

(* internalMalloc; an aligned small block aborts in SmallAllocator.         *)
Allocate(t) ==
    /\ pc[t] = "run" /\ IsAllocation(Top(t)) /\ cur[t] # NULL
    /\ IF Refused(Top(t).size, Top(t).align) THEN Abort
       ELSE /\ \E b \in NewBlocks(t, Top(t)) : live' = live \union {b}
            /\ Return(t)
            /\ UNCHANGED <<global, local, running>>

(* free: no manager is distant, as all are thread safe: the one the segment *)
(* names frees the block, in this thread.                                   *)
Free(t) ==
    /\ pc[t] \in {"run", "freeOld"} /\ (pc[t] = "run" => Top(t).call = "free")
    /\ Return(t)
    /\ UNCHANGED <<global, local, live, running>>

Min2(x, y) == IF x < y THEN x ELSE y

(* What is still good of a block after its first n bytes have been copied.  *)
ValidAfter(b, size, n) == IF n >= Min2(size, b.size) THEN size ELSE n

(* SmallAllocator gives a cell large enough with the contents.              *)
ReallocSmall(b, size) ==
    {[b EXCEPT !.size = size, !.inner = r.inner, !.valid = size] : r \in SmallMalloc(size)}

(* MediumAllocator compares the size to the whole chunk, padding included,  *)
(* and leaves the block alone if it finds it large enough.                  *)
ReallocStay(b, size) ==
    IF b.inner + b.pad >= size THEN {[b EXCEPT !.size = size, !.valid = size]} ELSE {}

(* Otherwise it resizes the chunk and returns its start, or copies from its *)
(* start: with a padding, this is not where the block began.                *)
ReallocMedium(b, size) ==
    ReallocStay(b, size) \union
    {[b EXCEPT !.size = size, !.inner = r.inner, !.pad = 0,
               !.valid = IF b.pad = 0 THEN size ELSE 0] : r \in MediumMalloc(size, BasicAlign)}

ReallocInKind(b, size) ==
    IF b.kind = "small" THEN ReallocSmall(b, size) ELSE ReallocMedium(b, size)

Realloc(t) ==
    /\ pc[t] = "run" /\ Top(t).call = "realloc"
    /\ SameKind(Top(t).block.kind, Top(t).size)
    /\ \E b \in ReallocInKind(Top(t).block, Top(t).size) : live' = live \union {b}
    /\ Return(t)
    /\ UNCHANGED <<global, local, running>>

Copied(b, size) == Min2(size, b.inner)

(* Otherwise the owner allocates, the contents are copied, and the old      *)
(* block is freed in a later step.                                          *)
ReallocOther(t) ==
    /\ pc[t] = "run" /\ Top(t).call = "realloc"
    /\ LET b == Top(t).block
           size == Top(t).size
       IN  /\ ~ SameKind(b.kind, size)
           /\ \E r \in LocalInternalMalloc(size, BasicAlign, FALSE) :
                live' = live \union {Block(b.owner, size, r, ValidAfter(b, size, Copied(b, size)))}
    /\ pc' = [pc EXCEPT ![t] = "freeOld"]
    /\ UNCHANGED <<global, local, op, running>>

(* mpc_alloc_numa_migrate: the thread gets an allocator if it has none, and *)
(* asks again for its memory source; without nodes it is the same one.      *)
Migrate(t) ==
    /\ pc[t] = "idle" /\ gblAllocator
    /\ IF ~ SourceKnown THEN Abort ELSE def[t] = NULL /\ BuildLocal(t)

-----------------------------------------------------------------------------
Init ==
    /\ numaCount \in NumaCounts
    /\ gblAllocator = FALSE
    /\ constructed = 0
    /\ gblAllocInitLock = NULL
    /\ numaTopoCnt = 0
    /\ cur = [t \in Threads |-> NULL]
    /\ def = [t \in Threads |-> NULL]
    /\ built = [t \in Threads |-> 0]
    /\ live = {}
    /\ pc = [t \in Threads |-> "idle"]
    /\ op = [t \in Threads |-> <<>>]
    /\ running = TRUE

(* The steps the program takes once a call has begun. *)
Step(t) ==
    \/ Lock(t) \/ Check(t) \/ Publish(t) \/ PostInit(t) \/ Arrays(t) \/ Unlock(t)
    \/ InitLocal(t) \/ Allocate(t) \/ Free(t) \/ Realloc(t) \/ ReallocOther(t)

Next ==
    /\ running
    /\ \E t \in Threads : Step(t) \/ UserCall(t) \/ TopoCall(t) \/ TopoDone(t) \/ Migrate(t)

Spec == Init /\ [][Next]_vars

(* A thread in a call is scheduled; the mutex is only wanted by calls that  *)
(* began before the allocator was published, so a thread waiting for it is  *)
(* served in the end; hwloc makes a finite number of calls.                 *)
Fairness == \A t \in Threads :
    /\ WF_vars(running /\ Step(t))
    /\ SF_vars(running /\ TopoDone(t))

FairSpec == Spec /\ Fairness

-----------------------------------------------------------------------------
(* Properties *)

Allocators == Threads \union {Internal}
Building == {"check", "publish", "postInit", "topo", "arrays", "unlock"}

(* Types of the state of the process and of its threads. *)
TypeOK ==
    /\ gblAllocator \in BOOLEAN /\ running \in BOOLEAN
    /\ gblAllocInitLock \in Threads \union {NULL}
    /\ numaTopoCnt \in {0, numaCount}
    /\ \A t \in Threads : /\ cur[t] \in {NULL, Internal, t}
                          /\ def[t] \in {NULL, t}
                          /\ pc[t] \in Building \union {"idle", "lock", "run", "freeOld"}
                          /\ Len(op[t]) <= 2 /\ (pc[t] = "idle" <=> op[t] = <<>>)
    /\ \A b \in Holding : b.owner \in Allocators /\ b.kind \in {"small", "medium"}

(* The allocator is built once, before any thread sees it, and every thread *)
(* that works with it has seen it: gblAllocator is tested without the lock. *)
BuiltOnce ==
    /\ constructed <= 1
    /\ gblAllocator => constructed = 1
    /\ \A t \in Threads : pc[t] \in {"run", "freeOld"} => gblAllocator

(* A thread never waits for the mutex it holds: hwloc calls malloc while it *)
(* is held, and must find the allocator.                                    *)
NoSelfDeadlock == \A t \in Threads : pc[t] = "lock" => gblAllocInitLock # t

(* The race to the first call is safe: one allocator, seen when it is       *)
(* built, and no thread that waits for itself.                              *)
FirstCallSafe == TypeOK /\ BuiltOnce /\ NoSelfDeadlock

(* A thread builds one allocator, ever, and out of postInit it allocates    *)
(* from it: the internal allocator is for the thread that builds.           *)
OneLocalAllocator ==
    \A t \in Threads :
        /\ built[t] <= 1
        /\ cur[t] # def[t] => gblAllocInitLock = t
        /\ \A b \in Holding : b.owner = t => built[t] = 1

(* A block has at least the size its user asked for, whichever way realloc  *)
(* went.                                                                    *)
BlockFits == \A b \in Holding : b.size <= b.inner

(* calloc gives zeros and realloc keeps the contents up to the smaller      *)
(* size, although the flags and lengths pass through three layers.          *)
ContentsKept == \A b \in live : b.valid >= b.size

(* Blocks are as large as their user believes and hold what they must. *)
BlocksKept == BlockFits /\ ContentsKept

(* Every call returns, unless the process has aborted. *)
CallsReturn == \A t \in Threads : (pc[t] # "idle") ~> (pc[t] = "idle" \/ ~ running)
=============================================================================
