--------------------------- MODULE CollisionChecker ---------------------------
(***************************************************************************)
(* The set of memory segments that the replay of a trace keeps to see that *)
(* two of them overlap (tools/CollisionChecker.cpp).  A std::set compares  *)
(* with operator< only: two segments are the same element when neither is  *)
(* before the other.                                                       *)
(***************************************************************************)
EXTENDS Integers

MemorySegment(base, size) == [base |-> base, size |-> size]

Before(v1, v2) == v1.base + v1.size <= v2.base

SameElement(v1, v2) == ~ Before(v1, v2) /\ ~ Before(v2, v1)

(* registerSegment throws when the insertion finds an element; NULL is      *)
(* ignored.                                                                 *)
Conflicts(segments, ptr, size) ==
    ptr # 0 /\ \E s \in segments : SameElement(s, MemorySegment(ptr, size))

RegisterSegment(segments, ptr, size) ==
    IF ptr = 0 THEN segments ELSE segments \union {MemorySegment(ptr, size)}

(* Mutant: only the segment of that very size is removed.                   *)
UnregisterSegment_Equal(segments, ptr, size) == segments \ {MemorySegment(ptr, size)}

(* unregisterSegment removes what compares equal: one byte is enough.       *)
UnregisterSegment(segments, ptr, size) ==
    {s \in segments : ptr = 0 \/ ~ SameElement(s, MemorySegment(ptr, size))}
=============================================================================
