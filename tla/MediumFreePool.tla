--------------------------- MODULE MediumFreePool ---------------------------
(***************************************************************************)
(* The segregated free lists of the medium allocator                       *)
(* (lib/chunks/MediumFreePool.cpp), as operators on a heap h.              *)
(*                                                                         *)
(* Besides the headers of MediumChunk, h.lists[i] is the free list of      *)
(* class i, first element first (a DoubleLinkList), and h.filled[i] the    *)
(* flag kept beside it so that a search skips empty lists.                 *)
(***************************************************************************)
EXTENDS MediumChunk, Sequences, FiniteSets

CONSTANTS
    Sizes,                 \* the smallest chunk of every class, ascending
    Unlimited              \* the size of the last class (-1UL)

ASSUME SizesAssumption ==
    /\ Sizes \in Seq(Nat) /\ Len(Sizes) > 1
    /\ \A i, j \in 1..Len(Sizes) : i < j => Sizes[i] < Sizes[j]
    /\ Sizes[Len(Sizes)] = Unlimited

Lists == 1..Len(Sizes)

EmptyPool ==
    [next |-> <<>>, prev |-> <<>>, status |-> <<>>,
     lists |-> [i \in Lists |-> <<>>], filled |-> [i \in Lists |-> FALSE]]

(* The first class whose size is enough for innerSize.  The two searches of *)
(* the source, by dichotomy and by an analytic formula, are in FreeListIndex.*)
GetFreeList(innerSize) ==
    CHOOSE i \in Lists :
        Sizes[i] >= innerSize /\ \A j \in 1..(i - 1) : Sizes[j] < innerSize

(* Mutant: every chunk goes to the first class that is large enough. *)
ListOf_NoStepBack(innerSize) == GetFreeList(innerSize)

(* A chunk that is not exactly of that class goes to the class below. *)
ListOf(innerSize) ==
    LET i == GetFreeList(innerSize)
    IN  IF i # 1 /\ Sizes[i] # Unlimited /\ Sizes[i] # innerSize THEN i - 1 ELSE i

Insert(h, c, mode) ==
    LET i == ListOf(InnerSize(h, c))
    IN  [h EXCEPT !.status[c] = "FREE",
                  !.lists[i] = IF mode = "FIFO" THEN <<c>> \o @ ELSE Append(@, c),
                  !.filled[i] = TRUE]

(* The list with the chunks of S taken out. *)
Without(list, S) ==
    LET kept[n \in 0..Len(list)] ==
          IF n = 0 THEN <<>>
          ELSE IF list[n] \in S THEN kept[n - 1] ELSE Append(kept[n - 1], list[n])
    IN  kept[Len(list)]

(* remove, for every chunk of S: a list that becomes empty is marked.       *)
Remove(h, S) ==
    [h EXCEPT
        !.status = [c \in DOMAIN @ |-> IF c \in S THEN "ALLOCATED" ELSE @[c]],
        !.lists  = [i \in Lists |-> Without(@[i], S)],
        !.filled = [i \in Lists |-> @[i] /\ (Without(h.lists[i], S) # <<>>
                                             \/ h.lists[i] = <<>>)]]

(* The first chunk of list i that is large enough. *)
FindAdaptedChunk(h, i, innerSize) ==
    LET large == {k \in 1..Len(h.lists[i]) : InnerSize(h, h.lists[i][k]) >= innerSize}
    IN  IF large = {} THEN NULL
        ELSE h.lists[i][CHOOSE k \in large : \A l \in large : k <= l]

(* Mutant: only the class of the size and those above are searched. *)
FindChunk_AboveOnly(h, innerSize) ==
    LET filled == {i \in Lists : i >= GetFreeList(innerSize) /\ h.filled[i]}
    IN  IF filled = {} THEN NULL
        ELSE FindAdaptedChunk(h, CHOOSE i \in filled : \A j \in filled : i <= j, innerSize)

(* The first fit in the first non-empty class from that of the size on;     *)
(* failing that, the first fit in the class just below.                     *)
FindChunk(h, innerSize) ==
    LET start  == GetFreeList(innerSize)
        filled == {i \in Lists : i >= start /\ h.filled[i]}
        above  == IF filled = {} THEN NULL
                  ELSE FindAdaptedChunk(h, CHOOSE i \in filled : \A j \in filled : i <= j,
                                        innerSize)
    IN  IF above = NULL /\ start # 1
          THEN FindAdaptedChunk(h, start - 1, innerSize)
          ELSE above

(* Mutant: the free chunk that follows is taken, whatever its size.         *)
LastForSize_First(h, c, innerSize) ==
    IF h.status[h.next[c]] = "FREE" THEN h.next[c] ELSE NULL

(* tryMergeForSize: the last chunk of the shortest run of free chunks after *)
(* c that makes c large enough, or NULL when the whole run is too short.    *)
LastForSize(h, c, innerSize) ==
    LET last[a \in {d \in Chunks(h) : h.next[d] # NULL}] ==
          IF InnerSize(h, c) + (h.next[a] - h.next[c]) >= innerSize THEN a
          ELSE IF h.status[h.next[a]] = "FREE" THEN last[h.next[a]]
          ELSE NULL
    IN  last[c]
=============================================================================
