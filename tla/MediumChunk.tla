---------------------------- MODULE MediumChunk ----------------------------
(***************************************************************************)
(* The chunk headers of the medium allocator (lib/chunks/MediumChunk.cpp). *)
(*                                                                         *)
(* Memory is counted in words of 8 bytes (BASIC_ALIGN).  A chunk is the    *)
(* address of its header; the memory it manages follows the header.  A     *)
(* heap h is a record whose fields next, prev and status are functions on  *)
(* the addresses that hold a header: the doubly linked, address-ordered    *)
(* chain of the chunks of every area, each area closed by a header without *)
(* next.                                                                   *)
(***************************************************************************)
EXTENDS Integers

CONSTANT NULL

ASSUME NullAssumption == NULL \notin Int

HeaderSize == 3                     \* next, prev, and status with magick

Chunks(h) == DOMAIN h.status

Put(f, x, v) == [y \in DOMAIN f \union {x} |-> IF y = x THEN v ELSE f[y]]
Drop(f, S) == [y \in DOMAIN f \ S |-> f[y]]

(* next - this - 1 counts headers in the source; the scaling cancels out.   *)
InnerSize(h, c) == IF h.next[c] = NULL THEN 0 ELSE h.next[c] - c - HeaderSize

GetPtr(c) == c + HeaderSize

(* One allocated chunk over the whole area, and the header that closes it.  *)
Setup(h, ptr, totalSize) ==
    LET close == ptr + totalSize - HeaderSize
    IN  [h EXCEPT !.next   = Put(Put(@, ptr, close), close, NULL),
                  !.prev   = Put(Put(@, ptr, NULL), close, ptr),
                  !.status = Put(Put(@, ptr, "ALLOCATED"), close, "ALLOCATED")]

(* Chunk c keeps innerSize words and the rest becomes a chunk of its own;   *)
(* the caller has checked that the rest has room for a header.              *)
SplitChunk(h, c, innerSize) ==
    LET new == c + innerSize + HeaderSize
    IN  [h EXCEPT !.next   = Put([@ EXCEPT ![c] = new], new, @[c]),
                  !.prev   = Put([@ EXCEPT ![h.next[c]] = new], new, c),
                  !.status = Put(@, new, "ALLOCATED")]

IsSingle(h, c) == h.prev[c] = NULL /\ h.next[h.next[c]] = NULL

(* merge, first write: the chunk after last is linked back to first.        *)
MergeBack(h, first, last) ==
    IF first # last /\ h.next[last] # NULL
      THEN [h EXCEPT !.prev = [@ EXCEPT ![h.next[last]] = first]]
      ELSE h

(* merge, second write: first is linked to the chunk after last, and the    *)
(* headers between them are no longer headers.                              *)
MergeForward(h, first, last) ==
    LET inside == {c \in Chunks(h) : first < c /\ c <= last}
    IN  [h EXCEPT !.next   = Drop([@ EXCEPT ![first] = h.next[last]], inside),
                  !.prev   = Drop(@, inside),
                  !.status = Drop(@, inside)]

(* The links check() asserts. *)
Check(h, c) ==
    /\ h.prev[c] # NULL => h.next[h.prev[c]] = c
    /\ h.next[c] # NULL => h.prev[h.next[c]] = c

(* The run of free chunks next to c: its first and its last chunk, or c.    *)
RunStart(h, c) ==
    LET back[a \in Chunks(h)] ==
          IF h.prev[a] # NULL /\ h.status[h.prev[a]] = "FREE"
            THEN back[h.prev[a]] ELSE a
    IN  back[c]

RunEnd(h, c) ==
    LET forward[a \in Chunks(h)] ==
          IF h.next[a] # NULL /\ h.status[h.next[a]] = "FREE"
            THEN forward[h.next[a]] ELSE a
    IN  forward[c]
=============================================================================
