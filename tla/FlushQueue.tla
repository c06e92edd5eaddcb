----------------------------- MODULE FlushQueue -----------------------------
(***************************************************************************)
(* What the remote free queue of an allocator promises, without pointers.  *)
(*                                                                         *)
(* Threads hand blocks back to the thread that owns the allocator; the     *)
(* owner takes everything handed back so far in one operation and then     *)
(* frees the blocks one by one, oldest first.  A block handed back once is *)
(* freed once, and nobody holds it in between.                             *)
(***************************************************************************)
EXTENDS Sequences

CONSTANT Elements          \* the memory blocks

VARIABLES
    live,                  \* blocks held by user code
    queued,                \* blocks handed back, in order
    batch                  \* blocks the owner has taken and not yet freed

vars == <<live, queued, batch>>

Init ==
    /\ live = Elements
    /\ queued = <<>>
    /\ batch = <<>>

(* A thread hands block e back. *)
Put(e) ==
    /\ e \in live
    /\ live' = live \ {e}
    /\ queued' = Append(queued, e)
    /\ UNCHANGED batch

(* The owner takes all that is queued; it has freed all it took before. *)
TakeAll ==
    /\ queued # <<>>
    /\ batch = <<>>
    /\ batch' = queued
    /\ queued' = <<>>
    /\ UNCHANGED live

(* The owner frees the oldest block it took: it can be allocated again. *)
Release ==
    /\ batch # <<>>
    /\ live' = live \union {Head(batch)}
    /\ batch' = Tail(batch)
    /\ UNCHANGED queued

Next ==
    \/ \E e \in Elements : Put(e)
    \/ TakeAll
    \/ Release

Spec == Init /\ [][Next]_vars
=============================================================================
