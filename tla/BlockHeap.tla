----------------------------- MODULE BlockHeap -----------------------------
(***************************************************************************)
(* What a memory allocator promises its users: the blocks it has handed    *)
(* out never overlap.                                                      *)
(***************************************************************************)
EXTENDS Integers

VARIABLE blocks            \* the blocks in use, [ptr |-> .., size |-> ..]

Disjoint(a, b) == a.ptr + a.size <= b.ptr \/ b.ptr + b.size <= a.ptr

Init == blocks = {}

Malloc(b) ==
    /\ \A a \in blocks : Disjoint(a, b)
    /\ blocks' = blocks \union {b}

Free(b) == blocks' = blocks \ {b}

(* A block moves or changes size: it may overlap its own former extent.     *)
Realloc(old, new) ==
    /\ \A a \in blocks \ {old} : Disjoint(a, new)
    /\ blocks' = (blocks \ {old}) \union {new}

Next ==
    \/ \E b \in blocks' \ blocks : Malloc(b)
    \/ \E b \in blocks \ blocks' : Free(b)
    \/ \E old \in blocks \ blocks', new \in blocks' \ blocks : Realloc(old, new)

Spec == Init /\ [][Next]_blocks
=============================================================================
