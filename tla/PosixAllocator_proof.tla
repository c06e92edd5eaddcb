------------------------ MODULE PosixAllocator_proof ------------------------
(***************************************************************************)
(* For every number of threads, of nodes and of size classes: the race to  *)
(* the first call builds one allocator, each thread builds one of its own, *)
(* and blocks are as large as asked and hold what they must.               *)
(***************************************************************************)
EXTENDS PosixAllocator, SequenceTheorems, WellFoundedInduction, TLAPS

-----------------------------------------------------------------------------
(* Numbers *)

(* A set of natural numbers that is not empty has a least element: what is  *)
(* cited here in place of an induction.                                     *)
LEMMA LeastElement ==
    ASSUME NEW S \in SUBSET Nat, S # {}
    PROVE  \E x \in S : \A y \in S : x <= y
<1> DEFINE Less == {p \in Nat \X Nat : p[1] < p[2]}
<1>1. IsWellFoundedOn(Less, Nat)
  <2>1. IsWellFoundedOn(OpToRel(<, Nat), Nat)
    BY NatLessThanWellFounded
  <2>2. OpToRel(<, Nat) = Less
    BY Zenon DEF OpToRel
  <2> QED BY <2>1, <2>2, Zenon
<1>2. PICK x \in S : \A y \in S : <<y, x>> \notin Less
  <2> HIDE DEF Less
  <2> QED BY <1>1, WFMin
<1>3. ASSUME NEW y \in S PROVE x <= y
  <2>1. <<y, x>> \in Nat \X Nat
    OBVIOUS
  <2>2. ~ y < x
    BY <1>2, <2>1
  <2> QED BY <2>2
<1> QED BY <1>3

-----------------------------------------------------------------------------
(* The inductive invariant *)

(* A call that hwloc makes, inside the first call of the same thread. *)
Nested(t) == Len(op[t]) = 2

(* What thread t does under gblAllocInitLock. *)
Inside(t) == pc[t] \in Building \/ Nested(t)

(* Where the internal allocator stands in for the one of the thread. *)
UsesInternal(t) == pc[t] \in {"topo", "arrays"} \/ Nested(t)

Ids == {Smallest(S) : S \in SUBSET (1 .. MaxBlocks + Cardinality(Threads))}

BlockRecords ==
    [id : Ids, owner : Allocators, kind : {"small", "medium"},
     size : Nat, inner : Nat, pad : Nat, valid : Nat]

CallRecords ==
    [call : {"malloc", "calloc", "memalign", "free", "realloc"},
     size : Nat, align : Nat, block : BlockRecords \union {NULL}]

(* The sets the variables range over. *)
Shape ==
    /\ numaCount \in Nat
    /\ gblAllocator \in BOOLEAN /\ running \in BOOLEAN
    /\ constructed \in Nat
    /\ gblAllocInitLock \in Threads \union {NULL}
    /\ numaTopoCnt \in {0, numaCount}
    /\ cur \in [Threads -> Allocators \union {NULL}]
    /\ def \in [Threads -> Threads \union {NULL}]
    /\ built \in [Threads -> Nat]
    /\ live \subseteq BlockRecords
    /\ pc \in [Threads -> Building \union {"idle", "lock", "run", "freeOld"}]
    /\ op \in [Threads -> Seq(CallRecords)]

(* A thread is in one call, or in two when hwloc made the second. *)
Stacks ==
    \A t \in Threads :
        /\ Len(op[t]) <= 2
        /\ pc[t] = "idle" <=> op[t] = <<>>
        /\ Nested(t) => pc[t] \in {"run", "freeOld"}

(* The lock is held by exactly the thread that is inside. *)
Mutex == \A t \in Threads : gblAllocInitLock = t <=> Inside(t)

(* The allocator is constructed under the lock by a thread about to publish *)
(* it, and whoever is past that point sees the pointer.                     *)
Published ==
    /\ constructed = IF gblAllocator \/ \E t \in Threads : pc[t] = "publish" THEN 1 ELSE 0
    /\ \A t \in Threads :
         /\ pc[t] \in {"postInit", "topo", "arrays", "unlock", "run", "freeOld"} => gblAllocator
         /\ pc[t] = "publish" => ~ gblAllocator

(* The thread-local pointers say what the thread has built. *)
OwnAllocator ==
    \A t \in Threads :
        /\ cur[t] = IF UsesInternal(t) THEN Internal ELSE def[t]
        /\ def[t] \in {NULL, t}
        /\ built[t] = IF def[t] = NULL THEN 0 ELSE 1

(* The owner of a block exists; the block is as large as asked and holds    *)
(* what it must, unless users resize what has a padding.                   *)
Kept(b) == b.size <= b.inner /\ b.size <= b.valid

Sound(b) ==
    /\ ~ ReallocPadded => Kept(b)
    /\ b.owner \in Threads => built[b.owner] = 1

Resizable(c) ==
    c.call = "realloc" => c.block.pad = 0 \/ ~ SameKind(c.block.kind, c.size)

SoundCall(c) ==
    IF IsAllocation(c) THEN c.block = NULL
    ELSE /\ c.block \in BlockRecords /\ Sound(c.block)
         /\ ~ ReallocPadded => Resizable(c)

SoundBlocks ==
    /\ \A b \in live : Sound(b)
    /\ \A t \in Threads : \A i \in 1 .. Len(op[t]) : SoundCall(op[t][i])

IInv == Shape /\ Stacks /\ Mutex /\ Published /\ OwnAllocator /\ SoundBlocks

-----------------------------------------------------------------------------
(* What the allocation returns *)

(* The smallest of the classes large enough, when there is one. *)
LEMMA SmallestFact ==
    ASSUME NEW S \in SUBSET Nat, S # {}
    PROVE  Smallest(S) \in S
<1>1. \E x \in S : \A y \in S : x <= y
  BY LeastElement
<1> QED BY <1>1 DEF Smallest

(* The largest class is a class. *)
LEMMA LargestFact == SMALL_CHUNK_MAX_SIZE \in ClassSizes /\ SMALL_CHUNK_MAX_SIZE \in Nat
<1>1. \E last \in ClassSizes : \A c \in ClassSizes : c <= last
  BY ClassesAssumption
<1>2. SMALL_CHUNK_MAX_SIZE \in ClassSizes
  BY <1>1 DEF SMALL_CHUNK_MAX_SIZE, Largest
<1> QED BY <1>2, ClassesAssumption

(* What every allocation of a manager is. *)
Results == [kind : {"small", "medium"}, zero : BOOLEAN, pad : Nat, inner : Nat]

(* A cell of the class chosen holds the size, up to the largest class. *)
LEMMA SmallFits ==
    ASSUME NEW size \in Nat, size <= SMALL_CHUNK_MAX_SIZE, NEW r \in SmallMalloc(size)
    PROVE  r \in Results /\ size <= r.inner
<1> DEFINE Fitting == {c \in ClassSizes : size <= c}
<1>1. Fitting \in SUBSET Nat /\ Fitting # {}
  BY LargestFact, ClassesAssumption
<1>2. Smallest(Fitting) \in Fitting
  BY <1>1, SmallestFact
<1>3. ~ size > SMALL_CHUNK_MAX_SIZE
  BY LargestFact
<1>4. r = [kind |-> "small", zero |-> FALSE, pad |-> 0, inner |-> Smallest(Fitting)]
  BY <1>3 DEF SmallMalloc
<1> QED BY <1>1, <1>2, <1>4 DEF Results

(* A medium block is not smaller than asked. *)
LEMMA MediumFits ==
    ASSUME NEW size \in Nat, NEW align \in Nat, NEW r \in MediumMalloc(size, align)
    PROVE  r \in Results /\ size <= r.inner
<1> DEFINE wide == ForPadding(align)
<1>1. wide \in Nat
  BY DEF ForPadding
<1>2. PICK z \in BOOLEAN, more \in {0, Slack}, p \in {0, wide} :
        r = [kind |-> "medium", zero |-> z, pad |-> p, inner |-> size + more + wide - p]
  BY DEF MediumMalloc
<1> HIDE DEF wide
<1>3. more \in Nat /\ p \in Nat /\ wide - p \in Nat
  BY <1>1, <1>2, SizesAssumption
<1>4. size + more + wide - p \in Nat /\ size <= size + more + wide - p
  BY <1>1, <1>3
<1> QED BY <1>2, <1>3, <1>4 DEF Results

(* The local allocator sends every size to a manager that fits it. *)
LEMMA LocalFits ==
    ASSUME NEW size \in Nat, NEW align \in Nat, NEW zero \in BOOLEAN,
           NEW r \in LocalInternalMalloc(size, align, zero)
    PROVE  r \in Results /\ size <= r.inner /\ (zero => r.zero)
<1>1. Asked(size, align) \in Nat /\ size <= Asked(size, align)
  BY DEF Asked
<1>2. PICK q \in ByKind(Asked(size, align), align) : r = [q EXCEPT !.zero = @ \/ zero]
  BY DEF LocalInternalMalloc
<1>3. q \in Results /\ Asked(size, align) <= q.inner
  <2>1. CASE Asked(size, align) <= SMALL_CHUNK_MAX_SIZE
    BY <1>1, <1>2, <2>1, SmallFits DEF ByKind
  <2>2. CASE ~ Asked(size, align) <= SMALL_CHUNK_MAX_SIZE
    BY <1>1, <1>2, <2>2, MediumFits DEF ByKind
  <2> QED BY <2>1, <2>2
<1>4. r \in Results /\ r.inner = q.inner /\ r.zero = (q.zero \/ zero)
  BY <1>2, <1>3 DEF Results
<1> QED BY <1>1, <1>3, <1>4 DEF Results

(* A new block is a block record with the fields given. *)
LEMMA BlockFact ==
    ASSUME NEW owner \in Allocators, NEW size \in Nat, NEW r \in Results, NEW valid \in Nat
    PROVE  /\ Block(owner, size, r, valid) \in BlockRecords
           /\ Block(owner, size, r, valid).owner = owner
           /\ Block(owner, size, r, valid).size = size
           /\ Block(owner, size, r, valid).inner = r.inner
           /\ Block(owner, size, r, valid).valid = valid
<1> DEFINE Spare == (1 .. MaxBlocks + Cardinality(Threads)) \ {b.id : b \in Holding}
<1>1. Smallest(Spare) \in Ids
  BY DEF Ids
<1>2. Block(owner, size, r, valid) =
        [id |-> Smallest(Spare), owner |-> owner, kind |-> r.kind,
         size |-> size, inner |-> r.inner, pad |-> r.pad, valid |-> valid]
  BY DEF Block
<1> HIDE DEF Spare
<1> QED BY <1>1, <1>2 DEF BlockRecords, Results

-----------------------------------------------------------------------------
(* The stack of calls of a thread *)

(* A call pushed on a stack is its first element. *)
LEMMA PushFacts ==
    ASSUME NEW S, NEW q \in Seq(S), NEW c \in S
    PROVE  /\ <<c>> \o q \in Seq(S)
           /\ Len(<<c>> \o q) = Len(q) + 1
           /\ <<c>> \o q # <<>>
           /\ (<<c>> \o q)[1] = c
           /\ \A i \in 2 .. Len(q) + 1 : (<<c>> \o q)[i] = q[i - 1]
<1>1. <<c>> \in Seq(S) /\ Len(<<c>>) = 1 /\ <<c>>[1] = c
  OBVIOUS
<1> QED BY <1>1, ConcatProperties

(* A return pops it. *)
LEMMA PopFacts ==
    ASSUME NEW S, NEW q \in Seq(S), q # <<>>
    PROVE  /\ Tail(q) \in Seq(S)
           /\ Len(Tail(q)) = Len(q) - 1
           /\ Len(q) \in Nat \ {0}
           /\ Tail(q) = <<>> <=> Len(q) = 1
           /\ Head(q) = q[1]
           /\ \A i \in 1 .. Len(q) - 1 : Tail(q)[i] = q[i + 1]
<1>1. /\ Tail(q) \in Seq(S)
      /\ Len(Tail(q)) = Len(q) - 1
      /\ Len(q) \in Nat \ {0}
      /\ Head(q) = q[1]
      /\ \A i \in 1 .. Len(q) - 1 : Tail(q)[i] = q[i + 1]
  OBVIOUS
<1>2. Tail(q) = <<>> <=> Len(Tail(q)) = 0
  BY <1>1, EmptySeq
<1> QED BY <1>1, <1>2

(* What the stacks hold: no block, or a sound one. *)
LEMMA TopFacts ==
    ASSUME IInv, NEW t \in Threads, pc[t] # "idle"
    PROVE  /\ Top(t) \in CallRecords /\ SoundCall(Top(t))
           /\ op[t] \in Seq(CallRecords) /\ op[t] # <<>> /\ Len(op[t]) \in {1, 2}
<1>1. op[t] \in Seq(CallRecords) /\ op[t] # <<>> /\ Len(op[t]) <= 2
  BY DEF IInv, Shape, Stacks
<1>2. Len(op[t]) \in Nat \ {0} /\ Head(op[t]) = op[t][1]
  BY <1>1, PopFacts
<1>3. 1 \in 1 .. Len(op[t]) /\ Len(op[t]) \in {1, 2}
  <2> DEFINE m == Len(op[t])
  <2>1. m \in Nat \ {0} /\ m <= 2
    BY <1>1, <1>2
  <2> HIDE DEF m
  <2>2. 1 \in 1 .. m /\ m \in {1, 2}
    BY <2>1
  <2> QED BY <2>2 DEF m
<1>4. op[t][1] \in CallRecords
  BY <1>1, <1>3, ElementOfSeq
<1>5. SoundCall(op[t][1])
  BY <1>3 DEF IInv, SoundBlocks
<1> QED BY <1>1, <1>2, <1>3, <1>4, <1>5 DEF Top

(* SoundBlocks depends on the blocks, the stacks and built only. *)
LEMMA SameBlocks ==
    ASSUME SoundBlocks, UNCHANGED <<live, op, built>>
    PROVE  SoundBlocks'
BY DEF SoundBlocks, SoundCall, Sound

(* A call that returns leaves everything but the blocks in order. *)
LEMMA ReturnKeeps ==
    ASSUME IInv, NEW t \in Threads, pc[t] \in {"run", "freeOld"}, Return(t),
           UNCHANGED <<global, local, running>>
    PROVE  /\ op' \in [Threads -> Seq(CallRecords)]
           /\ pc' \in [Threads -> Building \union {"idle", "lock", "run", "freeOld"}]
           /\ Stacks' /\ Mutex' /\ Published' /\ OwnAllocator'
           /\ \A u \in Threads : \A i \in 1 .. Len(op'[u]) : SoundCall(op'[u][i])
<1>1. op[t] \in Seq(CallRecords) /\ op[t] # <<>> /\ Len(op[t]) \in {1, 2}
  BY TopFacts
<1>2. /\ op' = [op EXCEPT ![t] = Tail(op[t])]
      /\ pc' = [pc EXCEPT ![t] = IF Len(op[t]) = 1 THEN "idle" ELSE "topo"]
      /\ op \in [Threads -> Seq(CallRecords)]
      /\ pc \in [Threads -> Building \union {"idle", "lock", "run", "freeOld"}]
  BY DEF Return, IInv, Shape
<1>3. op'[t] = Tail(op[t]) /\ pc'[t] = IF Len(op[t]) = 1 THEN "idle" ELSE "topo"
  BY <1>2
<1>4. \A u \in Threads \ {t} : op'[u] = op[u] /\ pc'[u] = pc[u]
  BY <1>2
<1>5. /\ op'[t] \in Seq(CallRecords)
      /\ Len(op'[t]) = Len(op[t]) - 1
      /\ op'[t] = <<>> <=> Len(op[t]) = 1
      /\ \A i \in 1 .. Len(op[t]) - 1 : op'[t][i] = op[t][i + 1]
  BY <1>1, <1>3, PopFacts
<1>6. /\ op' \in [Threads -> Seq(CallRecords)]
      /\ pc' \in [Threads -> Building \union {"idle", "lock", "run", "freeOld"}]
  BY <1>2, <1>3, <1>5 DEF Building
<1> DEFINE m == Len(op[t])
           n == Len(op'[t])
<1>7. m \in {1, 2} /\ n = m - 1 /\ (op'[t] = <<>> <=> m = 1)
  BY <1>1, <1>5
<1>8. pc'[t] = IF m = 1 THEN "idle" ELSE "topo"
  BY <1>3
<1>9. ~ Nested(t)' /\ (Inside(t)' <=> Inside(t)) /\ (UsesInternal(t)' <=> UsesInternal(t))
  <2>1. /\ Nested(t)' <=> n = 2
        /\ Nested(t) <=> m = 2
    BY DEF Nested
  <2> HIDE DEF m, n
  <2> QED BY <1>7, <1>8, <2>1 DEF Inside, UsesInternal, Building
<1>10. \A u \in Threads \ {t} :
        /\ Nested(u)' <=> Nested(u)
        /\ Inside(u)' <=> Inside(u)
        /\ UsesInternal(u)' <=> UsesInternal(u)
  BY <1>4 DEF Nested, Inside, UsesInternal
<1>11. Stacks'
  <2>1. n <= 2 /\ (pc'[t] = "idle" <=> op'[t] = <<>>)
    <3> HIDE DEF m, n
    <3> QED BY <1>7, <1>8
  <2> QED BY <2>1, <1>4, <1>9, <1>10 DEF IInv, Stacks
<1>12. Mutex'
  BY <1>9, <1>10 DEF IInv, Mutex, global
<1>13. Published'
  <2>1. (\E u \in Threads : pc'[u] = "publish") <=> (\E u \in Threads : pc[u] = "publish")
    BY <1>4, <1>8
  <2>2. gblAllocator' = gblAllocator /\ constructed' = constructed /\ gblAllocator
    BY DEF IInv, Published, global
  <2> QED BY <1>4, <1>8, <2>1, <2>2 DEF IInv, Published
<1>14. OwnAllocator'
  BY <1>9, <1>10 DEF IInv, OwnAllocator, local
<1>15. \A u \in Threads : \A i \in 1 .. Len(op'[u]) : SoundCall(op'[u][i])
  <2>1. ASSUME NEW i \in 1 .. Len(op'[t]) PROVE SoundCall(op'[t][i])
    <3>1. i + 1 \in 1 .. Len(op[t]) /\ op'[t][i] = op[t][i + 1]
      BY <1>1, <1>5
    <3> QED BY <3>1 DEF IInv, SoundBlocks
  <2> QED BY <1>4, <2>1 DEF IInv, SoundBlocks
<1> QED BY <1>6, <1>11, <1>12, <1>13, <1>14, <1>15

-----------------------------------------------------------------------------
(* One lemma per action: it preserves the inductive invariant. *)

(* The mutex is free: nobody is inside, and t goes in. *)
LEMMA LockPreserves ==
    ASSUME IInv, NEW t \in Threads, Lock(t)
    PROVE  IInv'
<1> USE NamesAssumption DEF Lock, Goto, local, IInv
<1>1. Shape'
  BY DEF Shape, Building, Allocators
<1>2. Stacks'
  BY DEF Shape, Stacks, Nested
<1>3. Mutex'
  BY DEF Shape, Stacks, Mutex, Inside, Nested, Building
<1>4. Published'
  BY DEF Shape, Mutex, Published, Inside, Building
<1>5. OwnAllocator'
  BY DEF Shape, Stacks, OwnAllocator, UsesInternal, Nested
<1>6. SoundBlocks'
  BY SameBlocks
<1> QED BY <1>1, <1>2, <1>3, <1>4, <1>5, <1>6

(* Under the mutex t constructs the allocator unless it is published. *)
LEMMA CheckPreserves ==
    ASSUME IInv, NEW t \in Threads, Check(t)
    PROVE  IInv'
<1> USE NamesAssumption DEF Check, Goto, local, IInv
<1>1. Shape'
  BY DEF Shape, Building, Allocators
<1>2. Stacks'
  BY DEF Shape, Stacks, Nested
<1>3. Mutex'
  BY DEF Shape, Stacks, Mutex, Inside, Nested, Building
<1>4. Published'
  BY DEF Shape, Mutex, Published, Inside, Building
<1>5. OwnAllocator'
  BY DEF Shape, Stacks, OwnAllocator, UsesInternal, Nested
<1>6. SoundBlocks'
  BY SameBlocks
<1> QED BY <1>1, <1>2, <1>3, <1>4, <1>5, <1>6

(* t alone is inside, so the one construction is the one it publishes. *)
LEMMA PublishPreserves ==
    ASSUME IInv, NEW t \in Threads, Publish(t)
    PROVE  IInv'
<1> USE NamesAssumption DEF Publish, Goto, local, IInv
<1>1. Shape'
  BY DEF Shape, Building, Allocators
<1>2. Stacks'
  BY DEF Shape, Stacks, Nested
<1>3. Mutex'
  BY DEF Shape, Stacks, Mutex, Inside, Nested, Building
<1>4. Published'
  BY DEF Shape, Mutex, Published, Inside, Building
<1>5. OwnAllocator'
  BY DEF Shape, Stacks, OwnAllocator, UsesInternal, Nested
<1>6. SoundBlocks'
  BY SameBlocks
<1> QED BY <1>1, <1>2, <1>3, <1>4, <1>5, <1>6

(* From here to the end of arrays t uses the internal allocator. *)
LEMMA PostInitPreserves ==
    ASSUME IInv, NEW t \in Threads, PostInit(t)
    PROVE  IInv'
<1> USE NamesAssumption DEF PostInit, Goto, global, IInv
<1>1. Shape'
  BY DEF Shape, Building, Allocators
<1>2. Stacks'
  BY DEF Shape, Stacks, Nested
<1>3. Mutex'
  BY DEF Shape, Stacks, Mutex, Inside, Nested, Building
<1>4. Published'
  BY DEF Shape, Mutex, Published, Inside, Building
<1>5. OwnAllocator'
  BY DEF Shape, Stacks, OwnAllocator, UsesInternal, Nested
<1>6. SoundBlocks'
  BY SameBlocks
<1> QED BY <1>1, <1>2, <1>3, <1>4, <1>5, <1>6

(* The nodes are known. *)
LEMMA TopoDonePreserves ==
    ASSUME IInv, NEW t \in Threads, TopoDone(t)
    PROVE  IInv'
<1> USE NamesAssumption DEF TopoDone, Goto, local, IInv
<1>1. Shape'
  BY DEF Shape, Building, Allocators
<1>2. Stacks'
  BY DEF Shape, Stacks, Nested
<1>3. Mutex'
  BY DEF Shape, Stacks, Mutex, Inside, Nested, Building
<1>4. Published'
  BY DEF Shape, Mutex, Published, Inside, Building
<1>5. OwnAllocator'
  BY DEF Shape, Stacks, OwnAllocator, UsesInternal, Nested
<1>6. SoundBlocks'
  BY SameBlocks
<1> QED BY <1>1, <1>2, <1>3, <1>4, <1>5, <1>6

(* t goes back to what def says, or the process aborts. *)
LEMMA ArraysPreserves ==
    ASSUME IInv, NEW t \in Threads, Arrays(t)
    PROVE  IInv'
<1> USE NamesAssumption DEF Arrays, Abort, global, local, IInv
<1>1. Shape'
  BY DEF Shape, Building, Allocators
<1>2. Stacks'
  BY DEF Shape, Stacks, Nested
<1>3. Mutex'
  BY DEF Shape, Stacks, Mutex, Inside, Nested, Building
<1>4. Published'
  BY DEF Shape, Mutex, Published, Inside, Building
<1>5. OwnAllocator'
  <2>1. CASE UNCHANGED <<cur, def, built, pc, op>>
    BY <2>1 DEF OwnAllocator, UsesInternal, Nested
  <2>2. CASE ~ UNCHANGED <<cur, def, built, pc, op>>
    <3>1. ~ UsesInternal(t)' /\ cur'[t] = def[t]
      BY <2>2 DEF Shape, Stacks, UsesInternal, Nested
    <3>2. \A u \in Threads \ {t} : (UsesInternal(u)' <=> UsesInternal(u)) /\ cur'[u] = cur[u]
      BY <2>2 DEF Shape, UsesInternal, Nested
    <3>3. UNCHANGED <<def, built>>
      BY <2>2
    <3> QED BY <3>1, <3>2, <3>3 DEF OwnAllocator
  <2> QED BY <2>1, <2>2
<1>6. SoundBlocks'
  BY SameBlocks
<1> QED BY <1>1, <1>2, <1>3, <1>4, <1>5, <1>6

(* t leaves with the allocator published. *)
LEMMA UnlockPreserves ==
    ASSUME IInv, NEW t \in Threads, Unlock(t)
    PROVE  IInv'
<1> USE NamesAssumption DEF Unlock, Goto, local, IInv
<1>1. Shape'
  BY DEF Shape, Building, Allocators
<1>2. Stacks'
  BY DEF Shape, Stacks, Nested
<1>3. Mutex'
  BY DEF Shape, Stacks, Mutex, Inside, Nested, Building
<1>4. Published'
  BY DEF Shape, Mutex, Published, Inside, Building
<1>5. OwnAllocator'
  BY DEF Shape, Stacks, OwnAllocator, UsesInternal, Nested
<1>6. SoundBlocks'
  BY SameBlocks
<1> QED BY <1>1, <1>2, <1>3, <1>4, <1>5, <1>6

-----------------------------------------------------------------------------
(* The blocks a call makes *)

(* What a thread allocates is sound: its allocator is the internal one, or *)
(* the one it has built.                                                   *)
LEMMA NewBlockFacts ==
    ASSUME IInv, NEW t \in Threads, cur[t] # NULL, NEW c \in CallRecords,
           NEW b \in NewBlocks(t, c)
    PROVE  b \in BlockRecords /\ Sound(b)
<1> DEFINE size == IF c.call = "malloc" /\ c.size = 0 THEN 1 ELSE c.size
           zeroed == c.call = "calloc"
<1>1. c.size \in Nat /\ c.align \in Nat /\ size \in Nat
  BY DEF CallRecords
<1>2. PICK r \in LocalMalloc(size, c.align, zeroed) :
        b = Block(cur[t], size, r, IF zeroed /\ ~ r.zero THEN 0 ELSE size)
  BY DEF NewBlocks
<1>3. r \in Results /\ size <= r.inner /\ r.zero
  BY <1>1, <1>2, LocalFits DEF LocalMalloc
<1>4. cur[t] \in Allocators
  BY DEF IInv, Shape
<1>5. b = Block(cur[t], size, r, size)
  BY <1>2, <1>3
<1> HIDE DEF size, zeroed
<1>6. b \in BlockRecords /\ b.owner = cur[t] /\ b.size = size /\ b.inner = r.inner /\ b.valid = size
  BY <1>1, <1>3, <1>4, <1>5, BlockFact
<1>7. cur[t] \in Threads => built[cur[t]] = 1
  BY NamesAssumption DEF IInv, OwnAllocator
<1> QED BY <1>1, <1>3, <1>6, <1>7 DEF Sound, Kept

(* What realloc makes of a sound block in its manager is sound: without a  *)
(* padding, what is compared to the size is the room of the block.         *)
LEMMA InKindFacts ==
    ASSUME IInv, NEW c \in CallRecords, c.call = "realloc", SoundCall(c),
           SameKind(c.block.kind, c.size), NEW d \in ReallocInKind(c.block, c.size)
    PROVE  d \in BlockRecords /\ Sound(d)
<1> DEFINE b == c.block
           size == c.size
<1>1. /\ b \in BlockRecords /\ Sound(b) /\ size \in Nat
      /\ ~ ReallocPadded => b.pad = 0
  BY DEF SoundCall, Resizable, IsAllocation, CallRecords
<1>2. SameKind(b.kind, size) /\ d \in ReallocInKind(b, size)
  OBVIOUS
<1> HIDE DEF b, size
<1>3. CASE b.kind = "small"
  <2>1. PICK r \in SmallMalloc(size) :
          d = [b EXCEPT !.size = size, !.inner = r.inner, !.valid = size]
    BY <1>2, <1>3 DEF ReallocInKind, ReallocSmall
  <2>2. r.inner \in Nat /\ size <= r.inner
    BY <1>1, <1>2, <1>3, SmallFits DEF SameKind, Results
  <2>3. /\ d \in BlockRecords /\ d.owner = b.owner
        /\ d.size = size /\ d.inner = r.inner /\ d.valid = size
    BY <1>1, <2>1, <2>2 DEF BlockRecords
  <2> QED BY <1>1, <2>2, <2>3 DEF Sound, Kept
<1>4. CASE d \in ReallocStay(b, size)
  <2>1. b.inner + b.pad >= size /\ d = [b EXCEPT !.size = size, !.valid = size]
    BY <1>4 DEF ReallocStay
  <2>2. /\ d \in BlockRecords /\ d.owner = b.owner
        /\ d.size = size /\ d.inner = b.inner /\ d.valid = size
    BY <1>1, <2>1 DEF BlockRecords
  <2>3. ~ ReallocPadded => size <= b.inner
    BY <1>1, <2>1 DEF BlockRecords
  <2> QED BY <1>1, <2>2, <2>3 DEF Sound, Kept
<1>5. CASE b.kind # "small" /\ d \notin ReallocStay(b, size)
  <2>1. PICK r \in MediumMalloc(size, BasicAlign) :
          d = [b EXCEPT !.size = size, !.inner = r.inner, !.pad = 0,
                        !.valid = IF b.pad = 0 THEN size ELSE 0]
    BY <1>2, <1>5 DEF ReallocInKind, ReallocMedium
  <2>2. r.inner \in Nat /\ size <= r.inner
    BY <1>1, MediumFits, SizesAssumption DEF Results
  <2>3. /\ d \in BlockRecords /\ d.owner = b.owner /\ d.size = size /\ d.inner = r.inner
        /\ d.valid = IF b.pad = 0 THEN size ELSE 0
    BY <1>1, <2>1, <2>2 DEF BlockRecords
  <2> QED BY <1>1, <2>2, <2>3 DEF Sound, Kept
<1> QED BY <1>3, <1>4, <1>5

(* The copy of a sound block to the other manager is sound: its contents   *)
(* are all copied, since the old block is not smaller than its size.       *)
LEMMA OtherFacts ==
    ASSUME IInv, NEW b \in BlockRecords, Sound(b), NEW size \in Nat,
           NEW r \in LocalInternalMalloc(size, BasicAlign, FALSE)
    PROVE  LET d == Block(b.owner, size, r, ValidAfter(b, size, Copied(b, size)))
           IN  d \in BlockRecords /\ Sound(d)
<1>1. BasicAlign \in Nat
  BY SizesAssumption
<1>2. r \in Results /\ size <= r.inner
  BY <1>1, LocalFits
<1>3. /\ b.owner \in Allocators /\ b.size \in Nat /\ b.inner \in Nat
      /\ ~ ReallocPadded => b.size <= b.inner
  BY DEF BlockRecords, Sound, Kept
<1> DEFINE valid == ValidAfter(b, size, Copied(b, size))
<1>4. valid \in Nat /\ (~ ReallocPadded => valid = size)
  BY <1>3 DEF ValidAfter, Copied, Min2
<1> HIDE DEF valid
<1> DEFINE d == Block(b.owner, size, r, valid)
<1>5. /\ d \in BlockRecords /\ d.owner = b.owner /\ d.size = size
      /\ d.inner = r.inner /\ d.valid = valid
  BY <1>2, <1>3, <1>4, BlockFact
<1> HIDE DEF d
<1>6. d \in BlockRecords /\ Sound(d)
  BY <1>2, <1>4, <1>5 DEF Sound, Kept
<1> QED BY <1>6 DEF d, valid

-----------------------------------------------------------------------------
(* The actions of calls *)

(* What can be called: a call on no block, or on a block of a user. *)
LEMMA EnteredCall ==
    ASSUME IInv, NEW c \in Allocations \union FreeCalls \union ReallocCalls
    PROVE  c \in CallRecords /\ SoundCall(c)
<1>1. CASE c \in Allocations
  BY <1>1, SizesAssumption DEF Allocations, Call, CallRecords, SoundCall, IsAllocation
<1>2. CASE c \in FreeCalls
  <2>1. PICK b \in live : c = Call("free", 0, BasicAlign, b)
    BY <1>2 DEF FreeCalls
  <2>2. b \in BlockRecords /\ Sound(b)
    BY DEF IInv, Shape, SoundBlocks
  <2> QED BY <2>1, <2>2, SizesAssumption DEF Call, CallRecords, SoundCall, IsAllocation, Resizable
<1>3. CASE c \in ReallocCalls
  <2>1. PICK size \in Sizes \ {0}, b \in live : c = Call("realloc", size, BasicAlign, b)
    BY <1>3 DEF ReallocCalls
  <2>2. b \in BlockRecords /\ Sound(b)
    BY DEF IInv, Shape, SoundBlocks
  <2>3. ~ ReallocPadded => Resizable(c)
    BY <1>3 DEF ReallocCalls, Resizable
  <2> QED BY <2>1, <2>2, <2>3, SizesAssumption DEF Call, CallRecords, SoundCall, IsAllocation
<1> QED BY <1>1, <1>2, <1>3

(* A call of a user, or of hwloc once the allocator is published. *)
LEMMA EnterPreserves ==
    ASSUME IInv, NEW t \in Threads, pc[t] \in {"idle", "topo"}, Enter(t)
    PROVE  IInv'
<1>1. PICK c \in Allocations \union FreeCalls \union ReallocCalls :
        /\ live' = live \ {c.block}
        /\ op' = [op EXCEPT ![t] = <<c>> \o @]
        /\ pc' = [pc EXCEPT ![t] = IF gblAllocator THEN "run" ELSE "lock"]
        /\ UNCHANGED <<global, local, running>>
  BY DEF Enter
<1>2. c \in CallRecords /\ SoundCall(c)
  BY EnteredCall
<1>3. /\ op \in [Threads -> Seq(CallRecords)]
      /\ pc \in [Threads -> Building \union {"idle", "lock", "run", "freeOld"}]
      /\ op[t] \in Seq(CallRecords)
  BY DEF IInv, Shape
<1>4. /\ op'[t] = <<c>> \o op[t]
      /\ pc'[t] = IF gblAllocator THEN "run" ELSE "lock"
      /\ \A u \in Threads \ {t} : op'[u] = op[u] /\ pc'[u] = pc[u]
  BY <1>1, <1>3
<1>5. /\ op'[t] \in Seq(CallRecords) /\ op'[t] # <<>>
      /\ Len(op'[t]) = Len(op[t]) + 1
      /\ op'[t][1] = c
      /\ \A i \in 2 .. Len(op[t]) + 1 : op'[t][i] = op[t][i - 1]
  BY <1>2, <1>3, <1>4, PushFacts
<1> DEFINE m == Len(op[t])
           n == Len(op'[t])
<1>6. n = m + 1 /\ m \in Nat
  BY <1>3, <1>5
<1>7. m = IF pc[t] = "topo" THEN 1 ELSE 0
  <2>1. CASE pc[t] = "idle"
    BY <2>1, <1>3, EmptySeq DEF IInv, Stacks
  <2>2. CASE pc[t] = "topo"
    <3>1. op[t] # <<>> /\ m <= 2 /\ m # 2
      BY <2>2 DEF IInv, Stacks, Nested
    <3>2. m # 0
      BY <1>3, <3>1, EmptySeq
    <3> HIDE DEF m
    <3> QED BY <1>6, <2>2, <3>1, <3>2
  <2> QED BY <2>1, <2>2
<1>8. pc[t] = "topo" => gblAllocator
  BY DEF IInv, Published
<1>9. /\ Nested(t)' <=> n = 2
      /\ Nested(t) <=> m = 2
  BY DEF Nested
<1>10. \A u \in Threads \ {t} :
        /\ Nested(u)' <=> Nested(u)
        /\ Inside(u)' <=> Inside(u)
        /\ UsesInternal(u)' <=> UsesInternal(u)
  BY <1>4 DEF Nested, Inside, UsesInternal
<1>11. /\ Nested(t)' <=> pc[t] = "topo"
       /\ Inside(t)' <=> Inside(t)
       /\ UsesInternal(t)' <=> UsesInternal(t)
  <2> HIDE DEF m, n
  <2> QED BY <1>4, <1>6, <1>7, <1>9 DEF Inside, UsesInternal, Building
<1>12. Shape'
  <2>1. op' \in [Threads -> Seq(CallRecords)]
    BY <1>1, <1>3, <1>4, <1>5
  <2>2. pc' \in [Threads -> Building \union {"idle", "lock", "run", "freeOld"}]
    BY <1>1, <1>3 DEF Building
  <2> QED BY <1>1, <2>1, <2>2 DEF IInv, Shape, global, local
<1>13. Stacks'
  <2>1. n <= 2 /\ pc'[t] # "idle" /\ (pc[t] = "topo" => pc'[t] = "run")
    <3> HIDE DEF m, n
    <3> QED BY <1>4, <1>6, <1>7, <1>8
  <2> QED BY <1>4, <1>5, <1>10, <1>11, <2>1 DEF IInv, Stacks
<1>14. Mutex'
  BY <1>1, <1>10, <1>11 DEF IInv, Mutex, global
<1>15. Published'
  BY <1>1, <1>4 DEF IInv, Published, global
<1>16. OwnAllocator'
  BY <1>1, <1>10, <1>11 DEF IInv, OwnAllocator, local
<1>17. SoundBlocks'
  <2>1. \A d : Sound(d)' <=> Sound(d)
    BY <1>1 DEF Sound, local
  <2>2. \A d : SoundCall(d)' <=> SoundCall(d)
    BY <2>1 DEF SoundCall
  <2>3. ASSUME NEW i \in 1 .. Len(op'[t]) PROVE SoundCall(op'[t][i])
    <3>1. CASE i = 1
      BY <1>2, <1>5, <3>1
    <3>2. CASE i # 1
      <4>1. i - 1 \in 1 .. Len(op[t]) /\ op'[t][i] = op[t][i - 1]
        BY <1>5, <1>6, <3>2
      <4> QED BY <4>1 DEF IInv, SoundBlocks
    <3> QED BY <3>1, <3>2
  <2>4. \A u \in Threads : \A i \in 1 .. Len(op'[u]) : SoundCall(op'[u][i])
    BY <1>4, <2>3 DEF IInv, SoundBlocks
  <2>5. \A b \in live' : Sound(b)
    BY <1>1 DEF IInv, SoundBlocks
  <2> QED BY <2>1, <2>2, <2>4, <2>5 DEF SoundBlocks
<1> QED BY <1>12, <1>13, <1>14, <1>15, <1>16, <1>17 DEF IInv

(* A thread that has no allocator builds its own: the blocks whose owner  *)
(* had to exist still have one.                                            *)
LEMMA BuildLocalPreserves ==
    ASSUME IInv, NEW t \in Threads, def[t] = NULL, ~ UsesInternal(t), BuildLocal(t)
    PROVE  IInv'
<1> USE DEF IInv, BuildLocal
<1>1. Shape'
  BY DEF Shape, Allocators, global
<1>2. Stacks' /\ Mutex' /\ Published'
  BY DEF Stacks, Mutex, Published, Nested, Inside, global
<1>3. \A u : UsesInternal(u)' <=> UsesInternal(u)
  BY DEF UsesInternal, Nested
<1>4. built[t] = 0 /\ built'[t] = 1 /\ \A u \in Threads \ {t} : built'[u] = built[u]
  BY DEF Shape, OwnAllocator
<1>5. OwnAllocator'
  BY <1>3, <1>4, NamesAssumption DEF Shape, OwnAllocator
<1>6. SoundBlocks'
  <2>1. \A b : Sound(b) => Sound(b)'
    BY <1>4 DEF Sound
  <2>2. \A c : SoundCall(c) => SoundCall(c)'
    BY <2>1 DEF SoundCall
  <2> QED BY <2>1, <2>2 DEF SoundBlocks
<1> QED BY <1>1, <1>2, <1>5, <1>6

(* The process that aborts changes nothing else. *)
LEMMA AbortPreserves ==
    ASSUME IInv, Abort
    PROVE  IInv'
<1> USE DEF IInv, Abort, global, local
<1>1. Shape'
  BY DEF Shape
<1>2. Stacks' /\ Mutex' /\ Published' /\ OwnAllocator'
  BY DEF Stacks, Mutex, Published, OwnAllocator, Nested, Inside, UsesInternal
<1>3. SoundBlocks'
  BY SameBlocks
<1> QED BY <1>1, <1>2, <1>3

(* A thread without an allocator is in no nested call. *)
LEMMA InitLocalPreserves ==
    ASSUME IInv, NEW t \in Threads, InitLocal(t)
    PROVE  IInv'
<1>1. cur[t] = NULL
  BY DEF InitLocal
<1>2. def[t] = NULL /\ ~ UsesInternal(t)
  BY <1>1, NamesAssumption DEF IInv, OwnAllocator
<1>3. BuildLocal(t) \/ Abort
  BY DEF InitLocal
<1> QED BY <1>2, <1>3, BuildLocalPreserves, AbortPreserves

LEMMA MigratePreserves ==
    ASSUME IInv, NEW t \in Threads, Migrate(t)
    PROVE  IInv'
<1>1. pc[t] = "idle"
  BY DEF Migrate
<1>2. ~ UsesInternal(t)
  BY <1>1 DEF UsesInternal, IInv, Stacks
<1>3. Abort \/ (def[t] = NULL /\ BuildLocal(t))
  BY DEF Migrate
<1> QED BY <1>2, <1>3, BuildLocalPreserves, AbortPreserves

(* A call that returns with a sound block for its user, or with none. *)
LEMMA ReturnPreserves ==
    ASSUME IInv, NEW t \in Threads, pc[t] \in {"run", "freeOld"}, Return(t),
           UNCHANGED <<global, local, running>>,
           live' \subseteq live \union {b \in BlockRecords : Sound(b)}
    PROVE  IInv'
<1>1. /\ op' \in [Threads -> Seq(CallRecords)]
      /\ pc' \in [Threads -> Building \union {"idle", "lock", "run", "freeOld"}]
      /\ Stacks' /\ Mutex' /\ Published' /\ OwnAllocator'
      /\ \A u \in Threads : \A i \in 1 .. Len(op'[u]) : SoundCall(op'[u][i])
  BY ReturnKeeps
<1>2. Shape'
  BY <1>1 DEF IInv, Shape, global, local
<1>3. \A d : Sound(d)' <=> Sound(d)
  BY DEF Sound, local
<1>4. \A d : SoundCall(d)' <=> SoundCall(d)
  BY <1>3 DEF SoundCall
<1>5. SoundBlocks'
  BY <1>1, <1>3, <1>4 DEF IInv, SoundBlocks
<1> QED BY <1>1, <1>2, <1>5 DEF IInv

LEMMA AllocatePreserves ==
    ASSUME IInv, NEW t \in Threads, Allocate(t)
    PROVE  IInv'
<1>1. pc[t] = "run" /\ cur[t] # NULL
  BY DEF Allocate
<1>2. CASE Abort
  BY <1>2, AbortPreserves
<1>3. CASE ~ Refused(Top(t).size, Top(t).align)
  <2>1. PICK b \in NewBlocks(t, Top(t)) :
          live' = live \union {b} /\ Return(t) /\ UNCHANGED <<global, local, running>>
    BY <1>3 DEF Allocate
  <2>2. Top(t) \in CallRecords
    BY <1>1, TopFacts
  <2>3. b \in BlockRecords /\ Sound(b)
    BY <1>1, <2>2, NewBlockFacts
  <2> QED BY <1>1, <2>1, <2>3, ReturnPreserves
<1> QED BY <1>2, <1>3 DEF Allocate

LEMMA FreePreserves ==
    ASSUME IInv, NEW t \in Threads, Free(t)
    PROVE  IInv'
BY ReturnPreserves DEF Free

(* The block of a realloc is sound, so the one it becomes is. *)
LEMMA ReallocPreserves ==
    ASSUME IInv, NEW t \in Threads, Realloc(t)
    PROVE  IInv'
<1> DEFINE c == Top(t)
<1>1. pc[t] = "run" /\ c.call = "realloc" /\ SameKind(c.block.kind, c.size)
  BY DEF Realloc
<1>2. c \in CallRecords /\ SoundCall(c)
  BY <1>1, TopFacts
<1>3. PICK b \in ReallocInKind(c.block, c.size) :
        live' = live \union {b} /\ Return(t) /\ UNCHANGED <<global, local, running>>
  BY DEF Realloc
<1> HIDE DEF c
<1>4. b \in BlockRecords /\ Sound(b)
  BY <1>1, <1>2, <1>3, InKindFacts
<1> QED BY <1>1, <1>3, <1>4, ReturnPreserves

(* The copy is sound and the old block stays with the call, to be freed. *)
LEMMA ReallocOtherPreserves ==
    ASSUME IInv, NEW t \in Threads, ReallocOther(t)
    PROVE  IInv'
<1> DEFINE old == Top(t).block
           size == Top(t).size
<1>1. /\ pc[t] = "run" /\ Top(t).call = "realloc"
      /\ pc' = [pc EXCEPT ![t] = "freeOld"]
      /\ UNCHANGED <<global, local, op, running>>
  BY DEF ReallocOther
<1>2. size \in Nat /\ old \in BlockRecords /\ Sound(old)
  BY <1>1, TopFacts DEF CallRecords, SoundCall, IsAllocation
<1>3. PICK r \in LocalInternalMalloc(size, BasicAlign, FALSE) :
        live' = live \union
          {Block(old.owner, size, r, ValidAfter(old, size, Copied(old, size)))}
  BY DEF ReallocOther
<1> HIDE DEF old, size
<1>4. PICK b \in BlockRecords : Sound(b) /\ live' = live \union {b}
  BY <1>2, <1>3, OtherFacts
<1> USE DEF IInv
<1>5. Shape'
  BY <1>1, <1>4 DEF Shape, global, local
<1>6. Stacks'
  BY <1>1 DEF Shape, Stacks, Nested
<1>7. \A u \in Threads : /\ Nested(u)' <=> Nested(u)
                         /\ Inside(u)' <=> Inside(u)
                         /\ UsesInternal(u)' <=> UsesInternal(u)
  BY <1>1 DEF Shape, Nested, Inside, UsesInternal, Building
<1>8. Mutex' /\ OwnAllocator'
  BY <1>1, <1>7 DEF Mutex, OwnAllocator, global, local
<1>9. Published'
  BY <1>1 DEF Shape, Published, global
<1>10. SoundBlocks'
  <2>1. \A d : Sound(d)' <=> Sound(d)
    BY <1>1 DEF Sound, local
  <2>2. \A d : SoundCall(d)' <=> SoundCall(d)
    BY <2>1 DEF SoundCall
  <2> QED BY <1>1, <1>4, <2>1, <2>2 DEF SoundBlocks
<1> QED BY <1>5, <1>6, <1>8, <1>9, <1>10

-----------------------------------------------------------------------------
(* The theorems *)

(* Before the first call no thread is in a call and there is no block. *)
LEMMA InitInvariant == Init => IInv
<1> SUFFICES ASSUME Init PROVE IInv
  OBVIOUS
<1> USE NamesAssumption DEF Init
<1>1. \A t \in Threads : ~ Nested(t) /\ Len(op[t]) = 0
  BY DEF Nested
<1>2. Shape
  <2>1. <<>> \in Seq(CallRecords)
    BY EmptySeq
  <2> QED BY <2>1, SizesAssumption DEF Shape, Building, Allocators
<1>3. Stacks
  BY <1>1 DEF Stacks
<1>4. Mutex
  BY <1>1 DEF Mutex, Inside, Building
<1>5. Published
  BY DEF Published
<1>6. OwnAllocator
  BY <1>1 DEF OwnAllocator, UsesInternal
<1>7. SoundBlocks
  BY <1>1 DEF SoundBlocks
<1> QED BY <1>2, <1>3, <1>4, <1>5, <1>6, <1>7 DEF IInv

(* Every step of every thread preserves it. *)
LEMMA StepInvariant == IInv /\ [Next]_vars => IInv'
<1> SUFFICES ASSUME IInv, [Next]_vars PROVE IInv'
  OBVIOUS
<1>1. CASE UNCHANGED vars
  <2> USE <1>1 DEF IInv, vars
  <2>1. Shape'
    BY DEF Shape
  <2>2. Stacks' /\ Mutex' /\ Published' /\ OwnAllocator'
    BY DEF Stacks, Mutex, Published, OwnAllocator, Nested, Inside, UsesInternal
  <2>3. SoundBlocks'
    BY SameBlocks
  <2> QED BY <2>1, <2>2, <2>3
<1>2. ASSUME NEW t \in Threads, Step(t) PROVE IInv'
  BY <1>2, LockPreserves, CheckPreserves, PublishPreserves, PostInitPreserves,
     ArraysPreserves, UnlockPreserves, InitLocalPreserves, AllocatePreserves,
     FreePreserves, ReallocPreserves, ReallocOtherPreserves DEF Step
<1>3. ASSUME NEW t \in Threads, UserCall(t) \/ TopoCall(t) PROVE IInv'
  BY <1>3, EnterPreserves DEF UserCall, TopoCall
<1>4. ASSUME NEW t \in Threads, TopoDone(t) \/ Migrate(t) PROVE IInv'
  BY <1>4, TopoDonePreserves, MigratePreserves
<1> QED BY <1>1, <1>2, <1>3, <1>4 DEF Next

(* The inductive invariant holds in every reachable state. *)
THEOREM Invariant == Spec => []IInv
<1>1. Init => IInv
  BY InitInvariant
<1>2. IInv /\ [Next]_vars => IInv'
  BY StepInvariant
<1> QED BY <1>1, <1>2, PTL DEF Spec

(* The blocks that still have their memory are sound. *)
LEMMA HoldingSound ==
    ASSUME IInv, NEW b \in Holding
    PROVE  b \in BlockRecords /\ Sound(b)
<1>1. CASE b \in live
  BY <1>1 DEF IInv, Shape, SoundBlocks
<1>2. CASE b \in Pending
  <2>1. PICK t \in Threads : b \in {op[t][i].block : i \in DOMAIN op[t]}
    BY <1>2 DEF Pending
  <2>2. op[t] \in Seq(CallRecords)
    BY DEF IInv, Shape
  <2>3. PICK i \in 1 .. Len(op[t]) : b = op[t][i].block
    BY <2>1, <2>2
  <2>4. SoundCall(op[t][i])
    BY DEF IInv, SoundBlocks
  <2>5. b # NULL
    BY <1>2 DEF Pending
  <2> QED BY <2>3, <2>4, <2>5 DEF SoundCall
<1> QED BY <1>1, <1>2 DEF Holding

(* The first calls are safe: allocInit constructs one allocator, every     *)
(* thread that works with it sees it published, and no thread waits for    *)
(* gblAllocInitLock while it holds it, for all interleavings of any number *)
(* of threads and of calls made by hwloc.                                  *)
THEOREM FirstCallIsSafe == Spec => []FirstCallSafe
<1>1. IInv => FirstCallSafe
  <2> SUFFICES ASSUME IInv PROVE FirstCallSafe
    OBVIOUS
  <2>1. TypeOK
    <3>1. \A t \in Threads : cur[t] \in {NULL, Internal, t}
      BY DEF IInv, OwnAllocator
    <3>2. \A b \in Holding : b.owner \in Allocators /\ b.kind \in {"small", "medium"}
      BY HoldingSound DEF BlockRecords
    <3> QED BY <3>1, <3>2 DEF TypeOK, IInv, Shape, Stacks, OwnAllocator
  <2>2. BuiltOnce
    BY DEF BuiltOnce, IInv, Published
  <2>3. NoSelfDeadlock
    BY DEF NoSelfDeadlock, IInv, Mutex, Stacks, Inside, Building
  <2> QED BY <2>1, <2>2, <2>3 DEF FirstCallSafe
<1> QED BY <1>1, Invariant, PTL

(* A thread builds one allocator, ever, and allocates from it except while *)
(* it builds the allocator of the process.                                 *)
THEOREM LocalAllocatorIsOne == Spec => []OneLocalAllocator
<1>1. IInv => OneLocalAllocator
  <2> SUFFICES ASSUME IInv PROVE OneLocalAllocator
    OBVIOUS
  <2>1. \A t \in Threads : built[t] <= 1
    BY DEF IInv, OwnAllocator
  <2>2. \A t \in Threads : cur[t] # def[t] => gblAllocInitLock = t
    BY DEF IInv, OwnAllocator, Mutex, UsesInternal, Inside, Building
  <2>3. \A t \in Threads : \A b \in Holding : b.owner = t => built[t] = 1
    BY HoldingSound DEF Sound
  <2> QED BY <2>1, <2>2, <2>3 DEF OneLocalAllocator
<1> QED BY <1>1, Invariant, PTL

(* Whichever manager realloc leaves a block in, it is as large as its user *)
(* asked and holds the zeros or the contents it must, when users do not    *)
(* resize a block that has a padding.                                      *)
THEOREM BlocksAreKept ==
    ASSUME ReallocPadded = FALSE
    PROVE  Spec => []BlocksKept
<1>1. ASSUME IInv PROVE BlocksKept
  <2>1. \A b \in Holding : b \in BlockRecords /\ Kept(b)
    BY <1>1, HoldingSound DEF Sound
  <2>2. BlockFits
    BY <2>1 DEF BlockFits, Kept
  <2>3. ContentsKept
    BY <2>1 DEF ContentsKept, Kept, BlockRecords, Holding
  <2> QED BY <2>2, <2>3 DEF BlocksKept
<1>2. IInv => BlocksKept
  BY <1>1
<1> QED BY <1>2, Invariant, PTL
=============================================================================
