----------------------------- MODULE TraceReplay -----------------------------
(***************************************************************************)
(* The replay of a recorded trace on the allocator of this project         *)
(* (tools/TraceReader.cpp, EventDispatch.cpp, EventDispatchReplay.cpp),    *)
(* composed with the program that recorded it (FileTrace).                 *)
(*                                                                         *)
(* The replay does the calls of the trace again, in one thread and in the  *)
(* order of the file, and maps each address of the trace to the address it *)
(* got.  A block of the replaying allocator is a number; blocks that were  *)
(* freed are given again, so that a stale mapping would show.              *)
(***************************************************************************)
EXTENDS FileTrace, CollisionChecker

CONSTANT AddressRange       \* addresses are below it: 2^64

(* The two highest addresses are in no block. *)
ASSUME AddressAssumption == AddressRange \in Nat /\ AddressRange > Top + 2

VARIABLES
    status,                 \* of the replay, see TypeOK
    pos,                    \* entries read
    ptrs,                   \* address in the trace -> block or 0
    checkerTrace,           \* segments of the trace
    checker,                \* blocks registered in the other checker
    blocks                  \* blocks of the replaying allocator

replayVars == <<status, pos, ptrs, checkerTrace, checker, blocks>>
vars == <<traceVars, replayVars>>

-----------------------------------------------------------------------------
(* readNext: an event and its answer, or the event alone at the end of the  *)
(* file of a program that was killed, with the result -2, a high address.   *)
Lost == AddressRange - 2
HasNext == Len(file) > 2 * pos
Entry == file[2 * pos + 1]
Result == IF Len(file) > 2 * pos + 1 THEN file[2 * pos + 2].res ELSE Lost

GetRealPtr(a) == IF a \in DOMAIN ptrs THEN ptrs[a] ELSE 0

(* Mutant: the mapping of the old address is kept. *)
Erase_Never(map, a) == map

Erase(map, a) == [x \in DOMAIN map \ {a} |-> map[x]]
Store(map, a, p) == [x \in DOMAIN map \union {a} |-> IF x = a THEN p ELSE map[x]]

(* What malloc of the replaying allocator returns. *)
NewBlock(used) == CHOOSE p \in 1 .. Cardinality(used) + 1 :
                    p \notin used /\ \A q \in 1 .. p - 1 : q \in used

-----------------------------------------------------------------------------
(* The calls *)

(* malloc, calloc and the aligned ones, whose result must be aligned in the *)
(* trace as well.                                                           *)
PlayMalloc ==
    /\ Entry.type \in {"malloc", "calloc", "memalign", "posix_memalign"}
    /\ LET p == NewBlock(blocks)
       IN  /\ blocks' = blocks \union {p}
           /\ ptrs' = Store(ptrs, Result, p)
           /\ IF Conflicts(checkerTrace, Result, Entry.size)
                THEN status' = "threw" /\ UNCHANGED <<checkerTrace, checker>>
                ELSE /\ checkerTrace' = RegisterSegment(checkerTrace, Result, Entry.size)
                     /\ checker' = checker \union {p}
                     /\ status' = IF Entry.type \in {"memalign", "posix_memalign"} /\ Result % Entry.align # 0
                                    THEN "assertFailed" ELSE status

(* An address that the trace has no allocation for is freed as NULL.        *)
PlayFree ==
    /\ Entry.type = "free"
    /\ LET p == GetRealPtr(Entry.ptr)
       IN  IF p = 0 THEN UNCHANGED <<ptrs, checkerTrace, checker, blocks>>
           ELSE /\ checkerTrace' = UnregisterSegment(checkerTrace, Entry.ptr, 1)
                /\ checker' = checker \ {p}
                /\ blocks' = blocks \ {p}
                /\ ptrs' = Erase(ptrs, Entry.ptr)
    /\ UNCHANGED status

(* What realloc of the replaying allocator may return. *)
Reallocated(p, size) ==
    IF p = 0 THEN {NewBlock(blocks)}
    ELSE IF size = 0 THEN {0}
    ELSE {p, NewBlock(blocks)}

PlayRealloc ==
    /\ Entry.type = "realloc"
    /\ LET p == GetRealPtr(Entry.ptr)
           traced == IF p = 0 THEN checkerTrace ELSE UnregisterSegment(checkerTrace, Entry.ptr, 1)
           map == IF p = 0 THEN ptrs ELSE Erase(ptrs, Entry.ptr)
       IN  IF Conflicts(traced, Result, Entry.size)
             THEN /\ status' = "threw"
                  /\ checkerTrace' = traced /\ ptrs' = map /\ checker' = checker \ {p}
                  /\ UNCHANGED blocks
             ELSE \E out \in Reallocated(p, Entry.size) :
                  /\ checkerTrace' = RegisterSegment(traced, Result, Entry.size)
                  /\ ptrs' = Store(map, Result, out)
                  /\ checker' = ((checker \ {p}) \union {out}) \ {0}
                  /\ blocks' = ((blocks \ {p}) \union {out}) \ {0}
                  /\ UNCHANGED status

(* valloc and pvalloc abort the replay. *)
PlayValloc ==
    /\ Entry.type = "valloc"
    /\ status' = "aborted"
    /\ UNCHANGED <<ptrs, checkerTrace, checker, blocks>>

-----------------------------------------------------------------------------
Play ==
    /\ ~ running
    /\ status = "replaying"
    /\ HasNext
    /\ PlayMalloc \/ PlayFree \/ PlayRealloc \/ PlayValloc
    /\ pos' = pos + 1
    /\ UNCHANGED traceVars

Finish ==
    /\ ~ running
    /\ status = "replaying"
    /\ ~ HasNext
    /\ status' = "done"
    /\ UNCHANGED <<traceVars, pos, ptrs, checkerTrace, checker, blocks>>

Init ==
    /\ TraceInit
    /\ status = "replaying"
    /\ pos = 0
    /\ ptrs = [a \in {} |-> 0]
    /\ checkerTrace = {}
    /\ checker = {}
    /\ blocks = {}

Next == (TraceNext /\ UNCHANGED replayVars) \/ Play \/ Finish

Spec == Init /\ [][Next]_vars

-----------------------------------------------------------------------------
(* Properties *)

(* Types of the recording and of the replay. *)
TypeOK ==
    /\ running \in BOOLEAN
    /\ held \subseteq heap
    /\ lock \in Threads \union {NULL}
    /\ pc \in [Threads -> {"idle", "super", "answer"}]
    /\ \A t \in Threads : pc[t] # "idle" <=> lock = t
    /\ nextThreadId \in Nat
    /\ status \in {"replaying", "threw", "assertFailed", "aborted", "done"}
    /\ 2 * pos <= Len(file) + 1
    /\ DOMAIN ptrs \subseteq {Lost} \union 0 .. Top

(* The file is what a reader expects, whenever the program ended: entries   *)
(* in pairs, and one id for each thread.                                    *)
TraceExact == TypeOK /\ EventsPaired /\ ThreadIdsExact

(* No call that was allowed in the traced program makes the replay throw:   *)
(* the order of the file is the order of the library, so a conflict is one  *)
(* of the traced allocator.                                                 *)
ReplayAccepts == status # "threw"

(* Every address of the trace that is mapped has a block of its own that is *)
(* still allocated, and the checker knows exactly the blocks allocated,     *)
(* whatever calls failed in the trace.                                      *)
MappingAlive ==
    status \in {"replaying", "done"} =>
        /\ checker = blocks
        /\ \A a \in DOMAIN ptrs : ptrs[a] # 0 =>
             /\ ptrs[a] \in blocks
             /\ \A b \in DOMAIN ptrs \ {a} : ptrs[b] # ptrs[a]

(* A complete trace without a failure leaves the replay with the blocks     *)
(* that the program had when it ended, and the checker with their segments. *)
Failed(i) ==
    /\ file[i].type # "free"
    /\ file[i + 1].res = 0
    /\ ~ (file[i].type = "realloc" /\ file[i].size = 0)

ReplayMirrors ==
    (status = "done" /\ Len(file) % 2 = 0
       /\ \A k \in 1 .. Len(file) \div 2 : ~ Failed(2 * k - 1)) =>
        /\ {a \in DOMAIN ptrs : ptrs[a] # 0} = {b.ptr : b \in heap}
        /\ checkerTrace = {MemorySegment(b.ptr, b.size) : b \in heap}
        /\ Cardinality(blocks) = Cardinality(heap)

=============================================================================
