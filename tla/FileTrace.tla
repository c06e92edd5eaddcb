------------------------------ MODULE FileTrace ------------------------------
(***************************************************************************)
(* The allocator that records the calls of a program in a file             *)
(* (lib/posix/PosixAllocatorFileTrace.cpp) and gives them to the C library *)
(* (lib/posix/PosixAllocatorStd.cpp).                                      *)
(*                                                                         *)
(* Under its spinlock a call writes an event, calls the library and writes *)
(* the answer.  The program may stop anywhere, between the two as well.    *)
(* Pointers are numbers, 0 is NULL; the unit is the smallest block the     *)
(* library gives.                                                          *)
(***************************************************************************)
EXTENDS Integers, FiniteSets, Sequences

CONSTANTS
    Threads, NULL,
    Types,                  \* the calls that allocate and that users make
    Sizes, Aligns,          \* the requests; 1 is not an alignment
    Top,                    \* bound: the library has the addresses 1..Top
    IdRange,                \* the ids a TraceEntry can store: 2^16
    MaxCalls                \* bound: calls in a trace

ASSUME TraceAssumption ==
    /\ Types \subseteq {"malloc", "calloc", "memalign", "posix_memalign", "valloc"}
    /\ Sizes \subseteq Nat /\ Aligns \subseteq Nat \ {0, 1}
    /\ Top \in Nat /\ IdRange \in Nat \ {0}
    /\ NULL \notin Threads

VARIABLES
    running,                \* FALSE once the traced program has ended
    heap,                   \* blocks of the C library
    held,                   \* those that no call in progress gives back
    file,                   \* what was written: events and answers
    lock,                   \* the thread that holds it, or NULL
    nextThreadId,
    gblThreadId,            \* TLS: thread -> id
    pc, op                  \* per thread: control point, its call

traceVars == <<running, heap, held, file, lock, nextThreadId, gblThreadId, pc, op>>

MaxOf(x, y) == IF x < y THEN y ELSE x

Block(ptr, size) == [ptr |-> ptr, size |-> size]

(* A call and, once it is known, its result. *)
Call(type, size, align, block) ==
    [type |-> type, size |-> size, align |-> align, block |-> block, res |-> 0]
NoCall == Call("none", 0, 1, Block(0, 0))

Allocations ==
    LET Plain == {"malloc", "calloc"}
    IN  {Call(type, s, 1, Block(0, 0)) : type \in Types \intersect Plain, s \in Sizes} \union
        {Call(type, s, a, Block(0, 0)) : type \in Types \ Plain, s \in Sizes, a \in Aligns}

(* free(NULL) is not recorded. *)
FreeCalls == {Call("free", 0, 1, b) : b \in held}

ReallocCalls ==
    {Call("realloc", s, 1, b) : s \in Sizes \union {0}, b \in held} \union
    {Call("realloc", s, 1, Block(0, 0)) : s \in Sizes}

-----------------------------------------------------------------------------
(* The C library: an aligned address of free memory, or NULL. *)
Results(blocks, size, align) ==
    {0} \union
    {a \in 1 .. Top : /\ a % align = 0
                      /\ a + MaxOf(size, 1) - 1 <= Top
                      /\ \A b \in blocks : \/ a + MaxOf(size, 1) <= b.ptr
                                           \/ b.ptr + MaxOf(b.size, 1) <= a}

-----------------------------------------------------------------------------
(* writeEvent *)

(* A thread without an id takes the next one, cut to the width of the field.*)
Identify(t) ==
    IF gblThreadId[t] > 0
      THEN [id |-> gblThreadId[t], next |-> nextThreadId, tls |-> gblThreadId]
    ELSE [id |-> nextThreadId % IdRange, next |-> nextThreadId + 1,
          tls |-> [gblThreadId EXCEPT ![t] = nextThreadId % IdRange]]

(* Mutant: the size of a realloc is the one of the old block. *)
Event_OldSize(t, c, id) ==
    [kind |-> "event", thread |-> t, threadId |-> id,
     type |-> c.type, size |-> IF c.type = "realloc" THEN c.block.size ELSE c.size,
     align |-> c.align, ptr |-> c.block.ptr]

Event(t, c, id) ==
    [kind |-> "event", thread |-> t, threadId |-> id,
     type |-> c.type, size |-> c.size, align |-> c.align, ptr |-> c.block.ptr]

Answer(t, res) == [kind |-> "answer", thread |-> t, res |-> res]

(* Mutant: the lock is not taken. *)
TakeLock_Never(t) == UNCHANGED lock

TakeLock(t) == lock = NULL /\ lock' = t

(* A user calls; the lock is taken and the event written. *)
WriteEvent(t) ==
    /\ running /\ pc[t] = "idle"
    /\ Len(file) < 2 * MaxCalls
    /\ TakeLock(t)
    /\ \E c \in Allocations \union FreeCalls \union ReallocCalls :
        /\ op' = [op EXCEPT ![t] = c]
        /\ held' = held \ {c.block}
        /\ LET who == Identify(t)
           IN  /\ file' = Append(file, Event(t, c, who.id))
               /\ nextThreadId' = who.next
               /\ gblThreadId' = who.tls
    /\ pc' = [pc EXCEPT ![t] = "super"]
    /\ UNCHANGED <<running, heap>>

(* The call of the C library. A realloc that fails keeps the block; with    *)
(* the size 0 it frees it.                                                  *)
Super(t) ==
    /\ running /\ pc[t] = "super"
    /\ LET c == op[t]
           others == heap \ {c.block}
           frees == c.type = "free" \/ (c.type = "realloc" /\ c.size = 0 /\ c.block.ptr # 0)
       IN  \E res \in IF frees THEN {0} ELSE Results(others, c.size, c.align) :
             /\ op' = [op EXCEPT ![t].res = res]
             /\ heap' = IF frees THEN others
                        ELSE IF res = 0 THEN heap
                        ELSE others \union {Block(res, c.size)}
    /\ pc' = [pc EXCEPT ![t] = "answer"]
    /\ UNCHANGED <<running, held, file, lock, nextThreadId, gblThreadId>>

(* What is written of the result: of a posix_memalign that failed, what the *)
(* variable of the caller held.                                             *)
Answers(c) == IF c.type = "posix_memalign" /\ c.res = 0 THEN 0 .. Top ELSE {c.res}

(* writeAnswer; the lock is released and the call returns. *)
WriteAnswer(t) ==
    /\ running /\ pc[t] = "answer"
    /\ \E res \in Answers(op[t]) : file' = Append(file, Answer(t, res))
    /\ lock' = NULL
    /\ held' = held \union (heap \intersect {op[t].block, Block(op[t].res, op[t].size)})
    /\ pc' = [pc EXCEPT ![t] = "idle"]
    /\ op' = [op EXCEPT ![t] = NoCall]
    /\ UNCHANGED <<running, heap, nextThreadId, gblThreadId>>

(* The program exits or is killed; what was written stays in the file. *)
End ==
    /\ running
    /\ running' = FALSE
    /\ UNCHANGED <<heap, held, file, lock, nextThreadId, gblThreadId, pc, op>>

TraceInit ==
    /\ running = TRUE
    /\ heap = {} /\ held = {}
    /\ file = <<>>
    /\ lock = NULL
    /\ nextThreadId = 1
    /\ gblThreadId = [t \in Threads |-> 0]
    /\ pc = [t \in Threads |-> "idle"]
    /\ op = [t \in Threads |-> NoCall]

TraceNext == (\E t \in Threads : WriteEvent(t) \/ Super(t) \/ WriteAnswer(t)) \/ End

-----------------------------------------------------------------------------
(* Properties *)

(* Events and answers alternate in the file, an answer is of the thread of  *)
(* its event, and the lock is held exactly between them: a reader takes     *)
(* them two by two without looking at what they are.                        *)
EventsPaired ==
    /\ \A i \in DOMAIN file :
         IF i % 2 = 1 THEN file[i].kind = "event"
         ELSE file[i].kind = "answer" /\ file[i].thread = file[i - 1].thread
    /\ lock # NULL <=> Len(file) % 2 = 1

(* Two events have the same thread id exactly when one thread wrote them.   *)
ThreadIdsExact ==
    \A i, j \in DOMAIN file :
        file[i].kind = "event" /\ file[j].kind = "event" =>
            (file[i].threadId = file[j].threadId <=> file[i].thread = file[j].thread)
=============================================================================
