----------------------- MODULE MediumAllocator_proof -----------------------
(***************************************************************************)
(* For every number of threads, every table of sizes, every memory and     *)
(* every set of requests: the heap of the medium allocator is tiled by     *)
(* chunks each owned once, its free lists hold the free chunks in the      *)
(* class of their size, and a search that fails has missed nothing.  At    *)
(* the end, the index of a class in the table (FreeListIndex).             *)
(*                                                                         *)
(* The state lemmas are about a heap h over a set E of extents, so that    *)
(* the heap before a step, after it and inside it can all be put for h.    *)
(***************************************************************************)
EXTENDS MediumAllocator, FreeListIndex, FiniteSetTheorems, SequenceTheorems, WellFoundedInduction, TLAPS

-----------------------------------------------------------------------------
(* Numbers, and the division by a constant *)

(* A set of natural numbers that is not empty has a least element: what is  *)
(* cited here in place of an induction.                                     *)
LEMMA LeastElement ==
    ASSUME NEW S \in SUBSET Nat, S # {}
    PROVE  \E x \in S : \A y \in S : x <= y
<1> DEFINE Less == {p \in Nat \X Nat : p[1] < p[2]}
<1>1. IsWellFoundedOn(Less, Nat)
  <2>1. IsWellFoundedOn(OpToRel(<, Nat), Nat)
    BY NatLessThanWellFounded
  <2>2. OpToRel(<, Nat) = Less
    BY Zenon DEF OpToRel
  <2> QED BY <2>1, <2>2, Zenon
<1>2. PICK x \in S : \A y \in S : <<y, x>> \notin Less
  <2> HIDE DEF Less
  <2> QED BY <1>1, WFMin
<1>3. ASSUME NEW y \in S PROVE x <= y
  <2>1. <<y, x>> \in Nat \X Nat
    OBVIOUS
  <2>2. ~ y < x
    BY <1>2, <2>1
  <2> QED BY <2>2
<1> QED BY <1>3

(* What the quotient is. *)
LEMMA Quotient ==
    ASSUME NEW n \in Nat \ {0}, NEW a \in Nat
    PROVE  /\ a \div n \in Nat
           /\ (a \div n) * n <= a
           /\ a < (a \div n) * n + n
OBVIOUS

-----------------------------------------------------------------------------
(* The invariant of a heap *)

(* The sets the fields of a heap range over. *)
HeapShape(h) ==
    /\ h = [next |-> h.next, prev |-> h.prev, status |-> h.status,
            lists |-> h.lists, filled |-> h.filled]
    /\ Chunks(h) \subseteq Nat
    /\ h.next \in [Chunks(h) -> Chunks(h) \union {NULL}]
    /\ h.prev \in [Chunks(h) -> Chunks(h) \union {NULL}]
    /\ h.status \in [Chunks(h) -> {"FREE", "ALLOCATED"}]

(* Places for chunks, inside the memory and apart from each other. *)
ExtentsApart(E) ==
    /\ \A e \in E : e[1] \in Nat /\ e[2] \in Nat /\ e[1] + MinArea <= e[2] /\ e[2] <= MemoryEnd
    /\ \A e \in E, g \in E : e = g \/ e[2] <= g[1] \/ g[2] <= e[1]

Within(e, c) == e[1] <= c /\ c <= e[2] - HeaderSize

(* The chain of chunks: in address order, without a chunk between a chunk   *)
(* and its next one.  Between the two writes of a merge of first to last,   *)
(* the chunk after last is already linked back to first.                    *)
Ordered(h, first, last) ==
    \A c \in Chunks(h) : h.next[c] # NULL =>
        /\ h.next[c] - c >= HeaderSize + MinInnerSize
        /\ \A d \in Chunks(h) : ~ (c < d /\ d < h.next[c])
        /\ h.prev[h.next[c]] = IF c = last THEN first ELSE c

(* Every chunk but the first of an extent is the next one of another.       *)
Reached(h, E) ==
    \A c \in Chunks(h) : \/ \E e \in E : c = e[1]
                         \/ \E d \in Chunks(h) : h.next[d] = c

Inside(h, E) ==
    \A c \in Chunks(h) : \E e \in E :
        Within(e, c) /\ (h.next[c] = NULL <=> c = e[2] - HeaderSize)

(* Both ends of every extent are headers. *)
Ended(h, E) ==
    \A e \in E : e[1] \in Chunks(h) /\ e[2] - HeaderSize \in Chunks(h) /\ h.prev[e[1]] = NULL

Chain(h, E, first, last) ==
    /\ HeapShape(h) /\ ExtentsApart(E)
    /\ Ordered(h, first, last) /\ Reached(h, E) /\ Inside(h, E) /\ Ended(h, E)

(* The class of a size: its list is i. *)
InClass(i, size) ==
    /\ i # 1 => Sizes[i] <= size \/ Sizes[i] = Unlimited
    /\ i < Len(Sizes) => size < Sizes[i + 1]

(* The free lists hold the free chunks, each one once. *)
Listed(h) ==
    /\ h.lists \in [Lists -> Seq(Chunks(h))]
    /\ \A i \in Lists : \A k \in 1 .. Len(h.lists[i]) :
         /\ h.status[h.lists[i][k]] = "FREE"
         /\ InClass(i, InnerSize(h, h.lists[i][k]))
    /\ \A c \in Chunks(h) : h.status[c] = "FREE" =>
         /\ h.next[c] # NULL
         /\ \E i \in Lists : \E k \in 1 .. Len(h.lists[i]) : h.lists[i][k] = c
    /\ \A i \in Lists, j \in Lists : \A k \in 1 .. Len(h.lists[i]), l \in 1 .. Len(h.lists[j]) :
         h.lists[i][k] = h.lists[j][l] => i = j /\ k = l

Flagged(h) ==
    /\ h.filled \in [Lists -> BOOLEAN]
    /\ \A i \in Lists : h.filled[i] <=> h.lists[i] # <<>>

Pool(h) == Listed(h) /\ Flagged(h)

-----------------------------------------------------------------------------
(* Constants *)

LEMMA Memory ==
    /\ HeaderSize = 3 /\ MinInnerSize = 2 /\ SegmentHeader = 2 /\ MinArea = 8
    /\ Bases \subseteq Nat /\ MemoryEnd \in Nat
    /\ MapWords \in Nat /\ MapWords >= 10 /\ PageWords \in Nat \ {0}
    /\ NULL \notin Int /\ NULL \notin Threads
BY NullAssumption, ThreadsAssumption, MemoryAssumption
   DEF HeaderSize, MinInnerSize, SegmentHeader, MinArea

LEMMA Classes ==
    /\ Len(Sizes) \in Nat /\ Len(Sizes) > 1 /\ Lists = 1 .. Len(Sizes)
    /\ \A i \in Lists : Sizes[i] \in Nat
    /\ \A i, j \in Lists : i < j => Sizes[i] < Sizes[j]
    /\ Sizes[Len(Sizes)] = Unlimited /\ Unlimited \in Nat
    /\ Sizes[1] <= MinInnerSize /\ MemoryEnd < Unlimited
BY SizesAssumption, ClassesAssumption, MemoryAssumption DEF Lists

(* Rounding up to a multiple of k. *)
LEMMA RoundUpFacts ==
    ASSUME NEW n \in Nat, NEW k \in Nat \ {0}
    PROVE  RoundUp(n, k) \in Nat /\ n <= RoundUp(n, k) /\ RoundUp(n, k) < n + k
<1> DEFINE a == n + k - 1
<1>1. a \in Nat
  OBVIOUS
<1>2. a \div k \in Nat /\ (a \div k) * k <= a /\ a < (a \div k) * k + k
  BY <1>1, Quotient
<1> DEFINE q == a \div k
<1>3. q * k \in Nat
  BY <1>2
<1>4. RoundUp(n, k) = q * k
  BY DEF RoundUp
<1> HIDE DEF q
<1> QED BY <1>2, <1>3, <1>4 DEF q

LEMMA ExtentFacts ==
    ASSUME NEW size \in Nat
    PROVE  Extent(size) \in Nat /\ Extent(size) >= 10
<1>1. MaxOf(size + SegmentHeader, MapWords) \in Nat /\ MaxOf(size + SegmentHeader, MapWords) >= 10
  BY Memory DEF MaxOf
<1> DEFINE n == MaxOf(size + SegmentHeader, MapWords)
<1>2. RoundUp(n, PageWords) \in Nat /\ n <= RoundUp(n, PageWords)
  BY <1>1, Memory, RoundUpFacts
<1> HIDE DEF n
<1>3. n \in Nat /\ n >= 10
  BY <1>1 DEF n
<1>4. Extent(size) = RoundUp(n, PageWords)
  BY DEF Extent, n
<1> QED BY <1>2, <1>3, <1>4

-----------------------------------------------------------------------------
(* The chain *)

LEMMA NextFacts ==
    ASSUME NEW h, NEW E, NEW first, NEW last, Chain(h, E, first, last),
           NEW c \in Chunks(h), h.next[c] # NULL
    PROVE  /\ c \in Nat /\ h.next[c] \in Chunks(h) /\ h.next[c] \in Nat
           /\ h.next[c] >= c + 5
           /\ \A d \in Chunks(h) : d <= c \/ h.next[c] <= d
           /\ h.prev[h.next[c]] = IF c = last THEN first ELSE c
           /\ InnerSize(h, c) = h.next[c] - c - 3 /\ InnerSize(h, c) \in Nat
           /\ InnerSize(h, c) >= 2
<1>1. c \in Nat /\ h.next[c] \in Chunks(h) /\ h.next[c] \in Nat /\ Chunks(h) \subseteq Nat
  BY DEF Chain, HeapShape
<1>2. /\ h.next[c] - c >= HeaderSize + MinInnerSize
      /\ \A d \in Chunks(h) : ~ (c < d /\ d < h.next[c])
      /\ h.prev[h.next[c]] = IF c = last THEN first ELSE c
  BY DEF Chain, Ordered
<1>3. \A d \in Chunks(h) : d <= c \/ h.next[c] <= d
  BY <1>1, <1>2
<1>4. InnerSize(h, c) = h.next[c] - c - 3
  BY Memory DEF InnerSize
<1> QED BY <1>1, <1>2, <1>3, <1>4, Memory

LEMMA ChainTypes ==
    ASSUME NEW h, NEW E, NEW first, NEW last, Chain(h, E, first, last),
           NEW c \in Chunks(h)
    PROVE  /\ c \in Nat
           /\ h.next[c] \in Chunks(h) \union {NULL} /\ h.prev[c] \in Chunks(h) \union {NULL}
           /\ h.status[c] \in {"FREE", "ALLOCATED"}
           /\ NULL \notin Chunks(h) /\ InnerSize(h, c) \in Nat
<1>1. /\ c \in Nat
      /\ h.next[c] \in Chunks(h) \union {NULL} /\ h.prev[c] \in Chunks(h) \union {NULL}
      /\ h.status[c] \in {"FREE", "ALLOCATED"}
      /\ NULL \notin Chunks(h)
  BY Memory DEF Chain, HeapShape
<1>2. InnerSize(h, c) \in Nat
  <2>1. CASE h.next[c] = NULL
    BY <2>1 DEF InnerSize
  <2>2. CASE h.next[c] # NULL
    BY <2>2, NextFacts
  <2> QED BY <2>1, <2>2
<1> QED BY <1>1, <1>2

LEMMA ExtentTypes ==
    ASSUME NEW E, ExtentsApart(E), NEW e \in E
    PROVE  e[1] \in Nat /\ e[2] \in Nat /\ e[1] + 8 <= e[2] /\ e[2] <= MemoryEnd
BY Memory DEF ExtentsApart

(* A place is in one extent. *)
LEMMA OneExtent ==
    ASSUME NEW E, ExtentsApart(E), NEW e \in E, NEW g \in E, NEW c \in Nat,
           e[1] <= c, c < e[2], g[1] <= c, c < g[2]
    PROVE  e = g
<1>1. e[1] \in Nat /\ e[2] \in Nat /\ g[1] \in Nat /\ g[2] \in Nat
  BY ExtentTypes
<1> QED BY <1>1 DEF ExtentsApart

LEMMA WithinFacts ==
    ASSUME NEW E, ExtentsApart(E), NEW e \in E, NEW c \in Nat, Within(e, c)
    PROVE  /\ e[1] <= c /\ c + 3 <= e[2] /\ c < e[2] /\ c <= MemoryEnd
           /\ \A g \in E : g[1] <= c /\ c < g[2] => g = e
<1>1. e[1] \in Nat /\ e[2] \in Nat /\ e[1] + 8 <= e[2] /\ e[2] <= MemoryEnd
  BY ExtentTypes
<1>2. e[1] <= c /\ c + 3 <= e[2] /\ c < e[2] /\ c <= MemoryEnd
  BY <1>1, Memory DEF Within
<1>3. ASSUME NEW g \in E, g[1] <= c, c < g[2] PROVE g = e
  BY <1>2, <1>3, OneExtent
<1> QED BY <1>2, <1>3

(* The extent of a chunk, and where the chunk is in it. *)
LEMMA HomeExtent ==
    ASSUME NEW h, NEW E, NEW first, NEW last, Chain(h, E, first, last),
           NEW c \in Chunks(h)
    PROVE  \E e \in E : /\ Within(e, c) /\ e[1] <= c /\ c + 3 <= e[2] /\ c < e[2]
                        /\ h.next[c] = NULL <=> c = e[2] - 3
                        /\ h.next[c] # NULL => h.next[c] + 3 <= e[2]
                        /\ e[1] \in Chunks(h) /\ e[2] - 3 \in Chunks(h)
<1>1. PICK e \in E : Within(e, c) /\ (h.next[c] = NULL <=> c = e[2] - HeaderSize)
  BY DEF Chain, Inside
<1>2. c \in Nat /\ ExtentsApart(E)
  BY ChainTypes DEF Chain
<1>3. e[1] <= c /\ c + 3 <= e[2] /\ c < e[2] /\ e[1] \in Nat /\ e[2] \in Nat
  BY <1>1, <1>2, WithinFacts, ExtentTypes
<1>4. e[1] \in Chunks(h) /\ e[2] - 3 \in Chunks(h)
  BY Memory DEF Chain, Ended
<1>5. ASSUME h.next[c] # NULL PROVE h.next[c] + 3 <= e[2]
  <2>1. e[2] - 3 <= c \/ h.next[c] <= e[2] - 3
    BY <1>4, <1>5, NextFacts
  <2>2. c # e[2] - 3
    BY <1>1, <1>5, Memory
  <2>3. h.next[c] \in Nat
    BY <1>5, NextFacts
  <2> QED BY <2>1, <2>2, <2>3, <1>2, <1>3
<1> QED BY <1>1, <1>3, <1>4, <1>5, Memory

(* The same about an extent that is known to hold the chunk. *)
LEMMA InExtent ==
    ASSUME NEW h, NEW E, NEW first, NEW last, Chain(h, E, first, last),
           NEW c \in Chunks(h), NEW e \in E, e[1] <= c, c < e[2]
    PROVE  /\ Within(e, c) /\ c + 3 <= e[2]
           /\ h.next[c] = NULL <=> c = e[2] - 3
           /\ h.next[c] # NULL => h.next[c] + 3 <= e[2]
<1>1. PICK g \in E : /\ Within(g, c) /\ g[1] <= c /\ c + 3 <= g[2]
                     /\ h.next[c] = NULL <=> c = g[2] - 3
                     /\ h.next[c] # NULL => h.next[c] + 3 <= g[2]
  BY HomeExtent
<1>2. c \in Nat /\ ExtentsApart(E)
  BY ChainTypes DEF Chain
<1>3. g = e
  BY <1>1, <1>2, WithinFacts
<1> QED BY <1>1, <1>3

(* Outside a merge, the link back is the inverse of the link forward. *)
LEMMA PrevFacts ==
    ASSUME NEW h, NEW E, Chain(h, E, NULL, NULL), NEW c \in Chunks(h)
    PROVE  /\ h.prev[c] = NULL <=> \E e \in E : c = e[1]
           /\ h.prev[c] # NULL => /\ h.prev[c] \in Chunks(h) /\ h.prev[c] < c
                                  /\ h.next[h.prev[c]] = c
<1>1. \/ \E e \in E : c = e[1]
      \/ \E d \in Chunks(h) : h.next[d] = c
  BY DEF Chain, Reached
<1>2. c \in Nat /\ c # NULL
  BY ChainTypes, Memory
<1>3. CASE \E e \in E : c = e[1]
  BY <1>3 DEF Chain, Ended
<1>4. CASE \E d \in Chunks(h) : h.next[d] = c
  <2>1. PICK d \in Chunks(h) : h.next[d] = c
    BY <1>4
  <2>2. d \in Nat /\ d # NULL /\ h.prev[c] = d /\ c >= d + 5
    BY <2>1, <1>2, NextFacts, Memory
  <2>3. \A e \in E : c # e[1]
    BY <2>2 DEF Chain, Ended
  <2> QED BY <2>1, <2>2, <2>3, <1>2
<1> QED BY <1>1, <1>3, <1>4

-----------------------------------------------------------------------------
(* What the operators on the headers write *)

LEMMA DropFacts ==
    ASSUME NEW f, NEW S, NEW g, g = Drop(f, S)
    PROVE  /\ DOMAIN g = DOMAIN f \ S
           /\ \A y \in DOMAIN f \ S : y \in DOMAIN g /\ g[y] = f[y]
BY DEF Drop

LEMMA HeapUpdate ==
    ASSUME NEW h, HeapShape(h), NEW n, NEW p, NEW s
    PROVE  [h EXCEPT !.next = n, !.prev = p, !.status = s] =
             [next |-> n, prev |-> p, status |-> s, lists |-> h.lists, filled |-> h.filled]
<1>1. PICK hn, hp, hs, hl, hf :
        h = [next |-> hn, prev |-> hp, status |-> hs, lists |-> hl, filled |-> hf]
  BY DEF HeapShape
<1>2. h.lists = hl /\ h.filled = hf
  BY <1>1
<1>3. [h EXCEPT !.next = n] =
        [next |-> n, prev |-> hp, status |-> hs, lists |-> hl, filled |-> hf]
  BY <1>1
<1>4. [[h EXCEPT !.next = n] EXCEPT !.prev = p] =
        [next |-> n, prev |-> p, status |-> hs, lists |-> hl, filled |-> hf]
  <2> DEFINE g == [h EXCEPT !.next = n]
  <2>1. g = [next |-> n, prev |-> hp, status |-> hs, lists |-> hl, filled |-> hf]
    BY <1>3
  <2> HIDE DEF g
  <2>2. [g EXCEPT !.prev = p] = [next |-> n, prev |-> p, status |-> hs, lists |-> hl, filled |-> hf]
    BY <2>1
  <2> QED BY <2>2 DEF g
<1>5. [[[h EXCEPT !.next = n] EXCEPT !.prev = p] EXCEPT !.status = s] =
        [next |-> n, prev |-> p, status |-> s, lists |-> hl, filled |-> hf]
  <2> DEFINE g == [[h EXCEPT !.next = n] EXCEPT !.prev = p]
  <2>1. g = [next |-> n, prev |-> p, status |-> hs, lists |-> hl, filled |-> hf]
    BY <1>4
  <2> HIDE DEF g
  <2>2. [g EXCEPT !.status = s] = [next |-> n, prev |-> p, status |-> s, lists |-> hl, filled |-> hf]
    BY <2>1
  <2> QED BY <2>2 DEF g
<1>6. [h EXCEPT !.next = n, !.prev = p, !.status = s] =
        [[[h EXCEPT !.next = n] EXCEPT !.prev = p] EXCEPT !.status = s]
  BY Zenon
<1> QED BY <1>2, <1>5, <1>6

(* The headers of g in S are those of h. *)
Same(g, h, S) ==
    \A c \in S : g.next[c] = h.next[c] /\ g.prev[c] = h.prev[c] /\ g.status[c] = h.status[c]

LEMMA SetupFields ==
    ASSUME NEW h, HeapShape(h), NEW p \in Nat, NEW n \in Nat, n >= 8,
           p \notin Chunks(h), p + n - 3 \notin Chunks(h)
    PROVE  LET g == Setup(h, p, n)
               q == p + n - 3
           IN  /\ HeapShape(g) /\ q \in Nat /\ p # q
               /\ Chunks(g) = Chunks(h) \union {p, q}
               /\ g.next[p] = q /\ g.next[q] = NULL
               /\ g.prev[p] = NULL /\ g.prev[q] = p
               /\ g.status[p] = "ALLOCATED" /\ g.status[q] = "ALLOCATED"
               /\ Same(g, h, Chunks(h))
               /\ g.lists = h.lists /\ g.filled = h.filled
<1> DEFINE q == p + n - 3
           g == Setup(h, p, n)
           nx == Put(Put(h.next, p, q), q, NULL)
           pv == Put(Put(h.prev, p, NULL), q, p)
           st == Put(Put(h.status, p, "ALLOCATED"), q, "ALLOCATED")
           C == Chunks(h) \union {p, q}
<1>1. q \in Nat /\ p # q
  OBVIOUS
<1>0. p \notin Chunks(h) /\ q \notin Chunks(h)
  OBVIOUS
<1>2. g = [next |-> nx, prev |-> pv, status |-> st, lists |-> h.lists, filled |-> h.filled]
  <2>1. p + n - HeaderSize = q
    BY Memory
  <2>2. g = [h EXCEPT !.next = nx, !.prev = pv, !.status = st]
    BY <2>1 DEF Setup
  <2> HIDE DEF g, nx, pv, st
  <2> QED BY <2>2, HeapUpdate
<1>3. g.next = nx /\ g.prev = pv /\ g.status = st /\ g.lists = h.lists /\ g.filled = h.filled
  BY <1>2
<1>4. /\ DOMAIN h.next = Chunks(h) /\ DOMAIN h.prev = Chunks(h) /\ DOMAIN h.status = Chunks(h)
  BY DEF HeapShape, Chunks
<1> HIDE DEF g, q
<1>12. /\ DOMAIN nx = DOMAIN h.next \union {p, q} /\ nx[p] = q /\ nx[q] = NULL
       /\ \A z \in DOMAIN h.next : z # p /\ z # q => nx[z] = h.next[z]
  BY <1>1 DEF Put
<1>13. /\ DOMAIN pv = DOMAIN h.prev \union {p, q} /\ pv[p] = NULL /\ pv[q] = p
       /\ \A z \in DOMAIN h.prev : z # p /\ z # q => pv[z] = h.prev[z]
  BY <1>1 DEF Put
<1>14. /\ DOMAIN st = DOMAIN h.status \union {p, q}
       /\ st[p] = "ALLOCATED" /\ st[q] = "ALLOCATED"
       /\ \A z \in DOMAIN h.status : z # p /\ z # q => st[z] = h.status[z]
  BY <1>1 DEF Put
<1>5. Chunks(g) = C
  BY <1>1, <1>3, <1>4, <1>12, <1>13, <1>14 DEF Chunks
<1>6. /\ nx[p] = q /\ nx[q] = NULL /\ \A c \in Chunks(h) : nx[c] = h.next[c]
  BY <1>0, <1>1, <1>4, <1>12, <1>13, <1>14
<1>7. /\ pv[p] = NULL /\ pv[q] = p /\ \A c \in Chunks(h) : pv[c] = h.prev[c]
  BY <1>0, <1>1, <1>4, <1>12, <1>13, <1>14
<1>8. /\ st[p] = "ALLOCATED" /\ st[q] = "ALLOCATED" /\ \A c \in Chunks(h) : st[c] = h.status[c]
  BY <1>0, <1>1, <1>4, <1>12, <1>13, <1>14
<1>9. /\ nx \in [C -> C \union {NULL}] /\ pv \in [C -> C \union {NULL}]
      /\ st \in [C -> {"FREE", "ALLOCATED"}]
  <2>1. DOMAIN nx = C /\ DOMAIN pv = C /\ DOMAIN st = C
    BY <1>1, <1>4, <1>12, <1>13, <1>14
  <2>2. \A c \in C : nx[c] \in C \union {NULL} /\ pv[c] \in C \union {NULL}
                     /\ st[c] \in {"FREE", "ALLOCATED"}
    BY <1>6, <1>7, <1>8 DEF HeapShape
  <2>3. nx = [c \in DOMAIN nx |-> nx[c]] /\ pv = [c \in DOMAIN pv |-> pv[c]]
        /\ st = [c \in DOMAIN st |-> st[c]]
    BY DEF Put
  <2> HIDE DEF nx, pv, st, C
  <2> QED BY <2>1, <2>2, <2>3
<1>10. C \subseteq Nat
  BY <1>1 DEF HeapShape
<1>11. HeapShape(g)
  <2> HIDE DEF nx, pv, st, C
  <2> QED BY <1>2, <1>3, <1>5, <1>9, <1>10 DEF HeapShape
<1> HIDE DEF nx, pv, st
<1> QED BY <1>1, <1>3, <1>5, <1>6, <1>7, <1>8, <1>11 DEF Same, g, q

LEMMA SplitFields ==
    ASSUME NEW h, HeapShape(h), NEW c \in Chunks(h), NEW n \in Nat,
           h.next[c] # NULL, c + n + 3 \notin Chunks(h), h.next[c] # c
    PROVE  LET g == SplitChunk(h, c, n)
               r == c + n + 3
           IN  /\ HeapShape(g) /\ r \in Nat
               /\ Chunks(g) = Chunks(h) \union {r}
               /\ g.next[c] = r /\ g.next[r] = h.next[c]
               /\ g.prev[r] = c /\ g.prev[h.next[c]] = r
               /\ g.status[r] = "ALLOCATED"
               /\ \A d \in Chunks(h) : /\ d # c => g.next[d] = h.next[d]
                                       /\ d # h.next[c] => g.prev[d] = h.prev[d]
                                       /\ g.status[d] = h.status[d]
               /\ g.lists = h.lists /\ g.filled = h.filled
<1> DEFINE r == c + n + 3
           g == SplitChunk(h, c, n)
           n1 == [h.next EXCEPT ![c] = r]
           p1 == [h.prev EXCEPT ![h.next[c]] = r]
           nx == Put(n1, r, h.next[c])
           pv == Put(p1, r, c)
           st == Put(h.status, r, "ALLOCATED")
           C == Chunks(h) \union {r}
<1>1. c \in Nat /\ r \in Nat /\ h.next[c] \in Chunks(h)
  BY DEF HeapShape
<1>0. r \notin Chunks(h)
  OBVIOUS
<1>2. g = [next |-> nx, prev |-> pv, status |-> st, lists |-> h.lists, filled |-> h.filled]
  <2>1. c + n + HeaderSize = r
    BY Memory
  <2>2. g = [h EXCEPT !.next = nx, !.prev = pv, !.status = st]
    BY <2>1 DEF SplitChunk
  <2> HIDE DEF g, nx, pv, st
  <2> QED BY <2>2, HeapUpdate
<1>3. g.next = nx /\ g.prev = pv /\ g.status = st /\ g.lists = h.lists /\ g.filled = h.filled
  BY <1>2
<1>4. /\ DOMAIN h.next = Chunks(h) /\ DOMAIN h.prev = Chunks(h) /\ DOMAIN h.status = Chunks(h)
      /\ DOMAIN n1 = Chunks(h) /\ DOMAIN p1 = Chunks(h)
  BY DEF HeapShape, Chunks
<1> HIDE DEF g, r
<1>5. Chunks(g) = C
  BY <1>3, <1>4 DEF Put, Chunks
<1>6. /\ nx[c] = r /\ nx[r] = h.next[c]
      /\ \A d \in Chunks(h) : d # c => nx[d] = h.next[d]
  BY <1>1, <1>4, <1>0 DEF Put
<1>7. /\ pv[r] = c /\ pv[h.next[c]] = r
      /\ \A d \in Chunks(h) : d # h.next[c] => pv[d] = h.prev[d]
  BY <1>1, <1>4, <1>0 DEF Put
<1>8. st[r] = "ALLOCATED" /\ \A d \in Chunks(h) : st[d] = h.status[d]
  BY <1>1, <1>4, <1>0 DEF Put
<1>9. /\ nx \in [C -> C \union {NULL}] /\ pv \in [C -> C \union {NULL}]
      /\ st \in [C -> {"FREE", "ALLOCATED"}]
  <2>1. DOMAIN nx = C /\ DOMAIN pv = C /\ DOMAIN st = C
    BY <1>4 DEF Put
  <2>2. \A d \in C : nx[d] \in C \union {NULL}
    BY <1>1, <1>6 DEF HeapShape
  <2>3. \A d \in C : pv[d] \in C \union {NULL}
    BY <1>1, <1>7 DEF HeapShape
  <2>4. \A d \in C : st[d] \in {"FREE", "ALLOCATED"}
    BY <1>1, <1>8 DEF HeapShape
  <2>5. nx = [d \in DOMAIN nx |-> nx[d]] /\ pv = [d \in DOMAIN pv |-> pv[d]]
        /\ st = [d \in DOMAIN st |-> st[d]]
    BY DEF Put
  <2> HIDE DEF nx, pv, st, C
  <2> QED BY <2>1, <2>2, <2>3, <2>4, <2>5
<1>10. C \subseteq Nat
  BY <1>1 DEF HeapShape
<1>11. HeapShape(g)
  <2> HIDE DEF nx, pv, st, C
  <2> QED BY <1>2, <1>3, <1>5, <1>9, <1>10 DEF HeapShape
<1> HIDE DEF nx, pv, st
<1> QED BY <1>1, <1>3, <1>5, <1>6, <1>7, <1>8, <1>11 DEF g, r

-----------------------------------------------------------------------------
(* What they make of the chain *)

(* Statuses, lists and flags are not part of the chain. *)
LEMMA ChainSame ==
    ASSUME NEW h, NEW E, NEW first, NEW last, Chain(h, E, first, last),
           NEW g, HeapShape(g), g.next = h.next, g.prev = h.prev, Chunks(g) = Chunks(h)
    PROVE  Chain(g, E, first, last)
BY DEF Chain, Ordered, Reached, Inside, Ended

(* The place of a new area, apart from the others. *)
Free(E, e) ==
    /\ e[1] \in Nat /\ e[2] \in Nat /\ e[1] + 8 <= e[2] /\ e[2] <= MemoryEnd
    /\ \A g \in E : e[2] <= g[1] \/ g[2] <= e[1]

LEMMA SetupChain ==
    ASSUME NEW h, NEW E, Chain(h, E, NULL, NULL),
           NEW p \in Nat, NEW n \in Nat, n >= 8, Free(E, <<p, p + n>>)
    PROVE  LET g == Setup(h, p, n)
               q == p + n - 3
           IN  /\ Chain(g, E \union {<<p, p + n>>}, NULL, NULL)
               /\ p \notin Chunks(h) /\ q \notin Chunks(h) /\ p # q
               /\ Chunks(g) = Chunks(h) \union {p, q}
               /\ g.next[p] = q /\ g.next[q] = NULL
               /\ g.status[p] = "ALLOCATED" /\ g.status[q] = "ALLOCATED"
               /\ Same(g, h, Chunks(h))
               /\ g.lists = h.lists /\ g.filled = h.filled
<1> DEFINE g == Setup(h, p, n)
           q == p + n - 3
           e == <<p, p + n>>
           F == E \union {e}
<1>1. \A c \in Nat : p <= c /\ c < p + n => c \notin Chunks(h)
  <2> SUFFICES ASSUME NEW c \in Nat, p <= c, c < p + n, c \in Chunks(h) PROVE FALSE
    OBVIOUS
  <2>1. PICK d \in E : d[1] <= c /\ c < d[2]
    BY HomeExtent
  <2>2. d[1] \in Nat /\ d[2] \in Nat
    BY <2>1, ExtentTypes DEF Chain
  <2>3. p + n <= d[1] \/ d[2] <= p
    BY <2>1 DEF Free
  <2> QED BY <2>1, <2>2, <2>3
<1>2. p \notin Chunks(h) /\ q \notin Chunks(h) /\ q \in Nat /\ p < q /\ q >= p + 5
  <2>1. q \in Nat /\ p <= q /\ q < p + n /\ p < p + n /\ p < q /\ q >= p + 5
    OBVIOUS
  <2> QED BY <2>1, <1>1
<1>3. HeapShape(h)
  BY DEF Chain
<1>4. /\ HeapShape(g)
      /\ Chunks(g) = Chunks(h) \union {p, q}
      /\ g.next[p] = q /\ g.next[q] = NULL
      /\ g.prev[p] = NULL /\ g.prev[q] = p
      /\ g.status[p] = "ALLOCATED" /\ g.status[q] = "ALLOCATED"
      /\ Same(g, h, Chunks(h))
      /\ g.lists = h.lists /\ g.filled = h.filled
  BY <1>2, <1>3, SetupFields
<1> HIDE DEF g
<1>5. e[1] = p /\ e[2] = p + n
  OBVIOUS
<1>6. ExtentsApart(F)
  <2>1. \A d \in E : d[1] \in Nat /\ d[2] \in Nat /\ d[1] + MinArea <= d[2] /\ d[2] <= MemoryEnd
    BY DEF Chain, ExtentsApart
  <2>2. p + MinArea <= p + n /\ p + n \in Nat /\ p + n <= MemoryEnd
    BY Memory DEF Free
  <2>3. \A d \in E : p + n <= d[1] \/ d[2] <= p
    BY DEF Free
  <2>4. \A c, d \in E : c = d \/ c[2] <= d[1] \/ d[2] <= c[1]
    BY DEF Chain, ExtentsApart
  <2> HIDE DEF e
  <2> QED BY <1>5, <2>1, <2>2, <2>3, <2>4 DEF ExtentsApart
<1>7. Ordered(g, NULL, NULL)
  <2> SUFFICES ASSUME NEW c \in Chunks(g), g.next[c] # NULL
               PROVE  /\ g.next[c] - c >= HeaderSize + MinInnerSize
                      /\ \A d \in Chunks(g) : ~ (c < d /\ d < g.next[c])
                      /\ g.prev[g.next[c]] = IF c = NULL THEN NULL ELSE c
    BY DEF Ordered
  <2>1. CASE c = p
    <3>1. \A d \in Chunks(h) : d \in Nat /\ ~ (p < d /\ d < q)
      BY <1>1, <1>2, ChainTypes
    <3>2. p # NULL
      BY Memory
    <3> QED BY <1>2, <1>4, <2>1, <3>1, <3>2, Memory
  <2>2. CASE c \in Chunks(h)
    <3>1. g.next[c] = h.next[c] /\ h.next[c] # NULL
      BY <1>4, <2>2 DEF Same
    <3>2. /\ c \in Nat /\ h.next[c] \in Chunks(h) /\ h.next[c] \in Nat /\ h.next[c] >= c + 5
          /\ \A d \in Chunks(h) : d <= c \/ h.next[c] <= d
          /\ h.prev[h.next[c]] = IF c = NULL THEN NULL ELSE c
      BY <2>2, <3>1, NextFacts
    <3>3. g.prev[g.next[c]] = h.prev[h.next[c]]
      BY <1>4, <3>1, <3>2 DEF Same
    <3>4. PICK d \in E : d[1] <= c /\ c + 3 <= d[2] /\ h.next[c] + 3 <= d[2]
      BY <2>2, <3>1, HomeExtent
    <3>5. d[1] \in Nat /\ d[2] \in Nat /\ (p + n <= d[1] \/ d[2] <= p)
      BY ExtentTypes DEF Chain, Free
    <3>6. ~ (c < p /\ p < h.next[c]) /\ ~ (c < q /\ q < h.next[c])
      BY <3>2, <3>4, <3>5, <1>2
    <3>7. \A x \in Chunks(h) : x \in Nat
      BY ChainTypes
    <3> QED BY <1>4, <3>1, <3>2, <3>3, <3>6, <3>7, Memory
  <2> QED BY <2>1, <2>2, <1>4
<1>8. Reached(g, F)
  <2> SUFFICES ASSUME NEW c \in Chunks(g)
               PROVE  \/ \E d \in F : c = d[1]
                      \/ \E d \in Chunks(g) : g.next[d] = c
    BY DEF Reached
  <2>1. CASE c = p
    BY <1>5, <2>1
  <2>2. CASE c = q
    BY <1>4, <2>2
  <2>3. CASE c \in Chunks(h)
    BY <1>4, <2>3 DEF Chain, Reached, Same
  <2> QED BY <2>1, <2>2, <2>3, <1>4
<1>9. Inside(g, F)
  <2> SUFFICES ASSUME NEW c \in Chunks(g)
               PROVE  \E d \in F : Within(d, c) /\ (g.next[c] = NULL <=> c = d[2] - HeaderSize)
    BY DEF Inside
  <2>1. CASE c = p \/ c = q
    <3>1. Within(e, c)
      BY <1>2, <1>5, <2>1, Memory DEF Within
    <3>2. g.next[c] = NULL <=> c = e[2] - HeaderSize
      BY <1>2, <1>4, <1>5, <2>1, Memory
    <3> QED BY <3>1, <3>2
  <2>2. CASE c \in Chunks(h)
    BY <1>4, <2>2 DEF Chain, Inside, Same
  <2> QED BY <2>1, <2>2, <1>4
<1>10. Ended(g, F)
  <2>1. \A d \in E : d[1] \in Chunks(h) /\ d[2] - HeaderSize \in Chunks(h) /\ h.prev[d[1]] = NULL
    BY DEF Chain, Ended
  <2>2. \A d \in E : d[1] \in Chunks(g) /\ d[2] - HeaderSize \in Chunks(g) /\ g.prev[d[1]] = NULL
    BY <1>4, <2>1 DEF Same
  <2>3. e[1] \in Chunks(g) /\ e[2] - HeaderSize \in Chunks(g) /\ g.prev[e[1]] = NULL
    BY <1>4, <1>5, Memory
  <2> HIDE DEF e
  <2> QED BY <2>2, <2>3 DEF Ended
<1> QED BY <1>2, <1>4, <1>6, <1>7, <1>8, <1>9, <1>10 DEF Chain, g

LEMMA SplitChain ==
    ASSUME NEW h, NEW E, Chain(h, E, NULL, NULL),
           NEW c \in Chunks(h), h.next[c] # NULL, NEW n \in Nat, n >= 2,
           InnerSize(h, c) >= n + 5
    PROVE  LET g == SplitChunk(h, c, n)
               r == c + n + 3
           IN  /\ Chain(g, E, NULL, NULL)
               /\ r \in Nat /\ r \notin Chunks(h) /\ c < r
               /\ Chunks(g) = Chunks(h) \union {r}
               /\ g.next[c] = r /\ g.next[r] = h.next[c]
               /\ g.status[r] = "ALLOCATED"
               /\ \A d \in Chunks(h) : /\ d # c => g.next[d] = h.next[d]
                                       /\ g.status[d] = h.status[d]
               /\ g.lists = h.lists /\ g.filled = h.filled
<1> DEFINE g == SplitChunk(h, c, n)
           r == c + n + 3
           z == h.next[c]
<1>1. /\ c \in Nat /\ z \in Chunks(h) /\ z \in Nat /\ z >= r + 5 /\ c < r /\ r \in Nat
      /\ r - c >= 5
      /\ \A d \in Chunks(h) : d <= c \/ z <= d
      /\ h.prev[z] = c /\ z # NULL
  <2>1. /\ c \in Nat /\ z \in Chunks(h) /\ z \in Nat /\ InnerSize(h, c) = z - c - 3
        /\ \A d \in Chunks(h) : d <= c \/ z <= d
        /\ h.prev[z] = IF c = NULL THEN NULL ELSE c
    BY NextFacts
  <2>2. c # NULL /\ z # NULL
    BY <2>1, Memory
  <2>3. h.prev[z] = c
    BY <2>1, <2>2
  <2>4. z - c - 3 >= n + 5
    BY <2>1
  <2> HIDE DEF z
  <2>5. z >= r + 5 /\ c < r /\ r \in Nat /\ r - c >= 5
    BY <2>1, <2>4
  <2> QED BY <2>1, <2>2, <2>3, <2>5
<1>2. r \notin Chunks(h) /\ HeapShape(h) /\ z # c
  BY <1>1 DEF Chain
<1>3. /\ HeapShape(g)
      /\ Chunks(g) = Chunks(h) \union {r}
      /\ g.next[c] = r /\ g.next[r] = z
      /\ g.prev[r] = c /\ g.prev[z] = r
      /\ g.status[r] = "ALLOCATED"
      /\ \A d \in Chunks(h) : /\ d # c => g.next[d] = h.next[d]
                              /\ d # z => g.prev[d] = h.prev[d]
                              /\ g.status[d] = h.status[d]
      /\ g.lists = h.lists /\ g.filled = h.filled
  BY <1>2, SplitFields
<1> HIDE DEF g, r
<1>4. \A d \in Chunks(h) : d \in Nat /\ d # NULL
  BY ChainTypes
<1>5. Ordered(g, NULL, NULL)
  <2> SUFFICES ASSUME NEW d \in Chunks(g), g.next[d] # NULL
               PROVE  /\ g.next[d] - d >= 5
                      /\ \A x \in Chunks(g) : ~ (d < x /\ x < g.next[d])
                      /\ d # NULL /\ g.prev[g.next[d]] = d
    BY Memory DEF Ordered
  <2>1. CASE d = c
    BY <1>1, <1>3, <1>4, <2>1
  <2>2. CASE d = r
    BY <1>1, <1>3, <1>4, <2>2, Memory
  <2>3. CASE d \in Chunks(h) /\ d # c
    <3>1. g.next[d] = h.next[d] /\ h.next[d] # NULL
      BY <1>3, <2>3
    <3>2. /\ d \in Nat /\ h.next[d] \in Chunks(h) /\ h.next[d] \in Nat /\ h.next[d] >= d + 5
          /\ \A x \in Chunks(h) : x <= d \/ h.next[d] <= x
          /\ h.prev[h.next[d]] = IF d = NULL THEN NULL ELSE d
      BY <2>3, <3>1, NextFacts
    <3>3. h.next[d] # z
      BY <1>1, <1>4, <2>3, <3>2
    <3>4. g.prev[g.next[d]] = d
      BY <1>3, <1>4, <2>3, <3>1, <3>2, <3>3
    <3>5. ~ (d < r /\ r < h.next[d])
      <4>1. d < c \/ c < d
        BY <1>1, <2>3, <3>2
      <4>2. CASE d < c
        BY <1>1, <3>2, <4>2
      <4>3. CASE c < d
        BY <1>1, <2>3, <3>2, <4>3
      <4> QED BY <4>1, <4>2, <4>3
    <3>6. g.next[d] - d >= 5
      BY <3>1, <3>2
    <3>7. \A x \in Chunks(h) : ~ (d < x /\ x < h.next[d])
      BY <1>4, <3>2
    <3> QED BY <1>3, <1>4, <2>3, <3>1, <3>4, <3>5, <3>6, <3>7
  <2> QED BY <2>1, <2>2, <2>3, <1>3
<1>6. Reached(g, E)
  <2> SUFFICES ASSUME NEW d \in Chunks(g), \A e \in E : d # e[1]
               PROVE  \E x \in Chunks(g) : g.next[x] = d
    BY DEF Reached
  <2>1. CASE d = r
    BY <1>3, <2>1
  <2>2. CASE d = z
    BY <1>3, <2>2
  <2>3. CASE d \in Chunks(h) /\ d # z
    <3>1. PICK x \in Chunks(h) : h.next[x] = d
      BY <2>3 DEF Chain, Reached
    <3> QED BY <1>3, <2>3, <3>1
  <2> QED BY <2>1, <2>2, <2>3, <1>3
<1>7. Inside(g, E)
  <2> SUFFICES ASSUME NEW d \in Chunks(g)
               PROVE  \E e \in E : Within(e, d) /\ (g.next[d] = NULL <=> d = e[2] - HeaderSize)
    BY DEF Inside
  <2>1. CASE d = r \/ d = c
    <3>1. PICK e \in E : e[1] <= c /\ c + 3 <= e[2] /\ z + 3 <= e[2] /\ Within(e, c)
      BY HomeExtent
    <3>2. e[1] \in Nat /\ e[2] \in Nat
      BY ExtentTypes DEF Chain
    <3>3. Within(e, d) /\ d # e[2] - HeaderSize
      BY <1>1, <2>1, <3>1, <3>2, Memory DEF Within
    <3> QED BY <1>1, <1>3, <2>1, <3>3, Memory
  <2>2. CASE d \in Chunks(h) /\ d # c
    BY <1>3, <2>2 DEF Chain, Inside
  <2> QED BY <2>1, <2>2, <1>3
<1>8. Ended(g, E)
  <2> SUFFICES ASSUME NEW e \in E
               PROVE  e[1] \in Chunks(g) /\ e[2] - HeaderSize \in Chunks(g) /\ g.prev[e[1]] = NULL
    BY DEF Ended
  <2>1. e[1] \in Chunks(h) /\ e[2] - HeaderSize \in Chunks(h) /\ h.prev[e[1]] = NULL
    BY DEF Chain, Ended
  <2>2. e[1] # z
    BY <1>1, <2>1, <1>4, Memory
  <2> QED BY <1>3, <2>1, <2>2
<1> QED BY <1>1, <1>2, <1>3, <1>5, <1>6, <1>7, <1>8 DEF Chain, g, r

(* The chunks from first to last lie in one extent. *)
Span(h, E, first, last) ==
    /\ first \in Chunks(h) /\ last \in Chunks(h) /\ first <= last /\ h.next[last] # NULL
    /\ \E e \in E : e[1] <= first /\ last < e[2]

(* None of the chunks of a span but its last one, taken away or not, closes *)
(* an extent.                                                               *)
LEMMA SpanFacts ==
    ASSUME NEW h, NEW E, NEW u, NEW v, Chain(h, E, u, v),
           NEW first, NEW last, Span(h, E, first, last)
    PROVE  /\ first \in Nat /\ last \in Nat /\ h.next[last] \in Chunks(h)
           /\ h.next[last] \in Nat /\ last < h.next[last]
           /\ \A c \in Chunks(h) : first <= c /\ c <= last =>
                /\ h.next[c] # NULL
                /\ \E e \in E : /\ e[1] <= first /\ e[1] <= c /\ c + 3 <= e[2] /\ c # e[2] - 3
                                /\ first < c => c # e[1]
                                /\ h.next[last] + 3 <= e[2]
<1>1. /\ first \in Nat /\ last \in Nat /\ h.next[last] \in Chunks(h)
      /\ h.next[last] \in Nat /\ last < h.next[last] /\ first \in Chunks(h) /\ last \in Chunks(h)
  BY NextFacts, ChainTypes DEF Span
<1>2. PICK e \in E : e[1] <= first /\ last < e[2]
  BY DEF Span
<1>3. e[1] \in Nat /\ e[2] \in Nat
  BY ExtentTypes DEF Chain
<1>4. h.next[last] + 3 <= e[2]
  BY <1>1, <1>2, <1>3, InExtent DEF Span
<1>5. ASSUME NEW c \in Chunks(h), first <= c, c <= last
      PROVE  /\ h.next[c] # NULL
             /\ e[1] <= c /\ c + 3 <= e[2] /\ c # e[2] - 3 /\ (first < c => c # e[1])
  <2>1. c \in Nat
    BY ChainTypes
  <2>2. e[1] <= c /\ c < e[2] /\ c # e[2] - 3 /\ (first < c => c # e[1])
    BY <1>1, <1>2, <1>3, <1>4, <1>5, <2>1
  <2>3. (h.next[c] = NULL <=> c = e[2] - 3) /\ c + 3 <= e[2]
    BY <2>2, InExtent
  <2> QED BY <2>2, <2>3
<1> QED BY <1>1, <1>2, <1>4, <1>5

LEMMA MergeBackChain ==
    ASSUME NEW h, NEW E, Chain(h, E, NULL, NULL),
           NEW first, NEW last, Span(h, E, first, last)
    PROVE  LET g == MergeBack(h, first, last)
           IN  /\ Chain(g, E, first, last)
               /\ Chunks(g) = Chunks(h) /\ g.next = h.next /\ g.status = h.status
               /\ g.lists = h.lists /\ g.filled = h.filled
               /\ \A c \in Chunks(h) : c # h.next[last] => g.prev[c] = h.prev[c]
<1> DEFINE g == MergeBack(h, first, last)
           z == h.next[last]
<1>1. first \in Chunks(h) /\ last \in Chunks(h) /\ z # NULL
  BY DEF Span
<1>2. z \in Chunks(h) /\ last # NULL
  BY <1>1, NextFacts, ChainTypes
<1>3. \A c \in Chunks(h) : h.next[c] # NULL => c # NULL /\ h.prev[h.next[c]] = c
  BY ChainTypes, NextFacts
<1>4. CASE first = last
  <2>1. g = h
    BY <1>4 DEF MergeBack
  <2>2. Ordered(h, first, last)
    BY <1>3, <1>4 DEF Chain, Ordered
  <2> QED BY <2>1, <2>2 DEF Chain
<1>5. CASE first # last
  <2> DEFINE p == [h.prev EXCEPT ![z] = first]
  <2>1. g = [h EXCEPT !.prev = p]
    BY <1>1, <1>5 DEF MergeBack
  <2>2. HeapShape(h)
    BY DEF Chain
  <2>3. g = [next |-> h.next, prev |-> p, status |-> h.status, lists |-> h.lists, filled |-> h.filled]
    <3> HIDE DEF p, g, z
    <3>1. PICK hn, hp, hs, hl, hf :
            h = [next |-> hn, prev |-> hp, status |-> hs, lists |-> hl, filled |-> hf]
      BY <2>2 DEF HeapShape
    <3> QED BY <2>1, <3>1
  <2>4. g.next = h.next /\ g.prev = p /\ g.status = h.status /\ g.lists = h.lists /\ g.filled = h.filled
    BY <2>3
  <2> HIDE DEF g
  <2>5. Chunks(g) = Chunks(h)
    BY <2>4 DEF Chunks
  <2>6. p \in [Chunks(h) -> Chunks(h) \union {NULL}]
    BY <1>1, <1>2, <2>2 DEF HeapShape
  <2>7. p[z] = first /\ \A c \in Chunks(h) : c # z => p[c] = h.prev[c]
    BY <1>2, <2>2 DEF HeapShape
  <2> HIDE DEF p
  <2>8. HeapShape(g)
    BY <2>2, <2>3, <2>4, <2>5, <2>6 DEF HeapShape
  <2>9. Ordered(g, first, last)
    <3> SUFFICES ASSUME NEW c \in Chunks(h), h.next[c] # NULL
                 PROVE  p[h.next[c]] = IF c = last THEN first ELSE c
      BY <2>4, <2>5 DEF Ordered, Chain
    <3>1. h.next[c] \in Chunks(h) /\ h.prev[h.next[c]] = c
      BY <1>3, NextFacts
    <3>2. c # last => h.next[c] # z
      BY <1>3, <1>1, <3>1
    <3> QED BY <2>7, <3>1, <3>2
  <2>10. Ended(g, E)
    <3> SUFFICES ASSUME NEW e \in E PROVE p[e[1]] = NULL
      BY <2>4, <2>5 DEF Ended, Chain
    <3>1. e[1] \in Chunks(h) /\ h.prev[e[1]] = NULL
      BY DEF Chain, Ended
    <3>2. h.prev[z] = last
      BY <1>3, <1>1
    <3> QED BY <1>2, <2>7, <3>1, <3>2
  <2>11. Reached(g, E) /\ Inside(g, E)
    BY <2>4, <2>5 DEF Chain, Reached, Inside
  <2> QED BY <2>4, <2>5, <2>7, <2>8, <2>9, <2>10, <2>11 DEF Chain, g
<1> QED BY <1>4, <1>5

(* Both writes of merge leave a chain again.                                *)
LEMMA MergeForwardChain ==
    ASSUME NEW h, NEW E, NEW first, NEW last, Chain(h, E, first, last),
           Span(h, E, first, last)
    PROVE  LET g == MergeForward(h, first, last)
               inside == {c \in Chunks(h) : first < c /\ c <= last}
           IN  /\ Chain(g, E, NULL, NULL)
               /\ Chunks(g) = Chunks(h) \ inside
               /\ first \in Chunks(g) /\ g.next[first] = h.next[last] /\ h.next[last] \in Chunks(g)
               /\ \A c \in Chunks(g) : /\ c # first => g.next[c] = h.next[c]
                                       /\ g.prev[c] = h.prev[c]
                                       /\ g.status[c] = h.status[c]
               /\ g.lists = h.lists /\ g.filled = h.filled
<1> DEFINE g == MergeForward(h, first, last)
           inside == {c \in Chunks(h) : first < c /\ c <= last}
           z == h.next[last]
           C == Chunks(h) \ inside
           n1 == [h.next EXCEPT ![first] = z]
           nx == Drop(n1, inside)
           pv == Drop(h.prev, inside)
           st == Drop(h.status, inside)
<1>1. /\ first \in Chunks(h) /\ last \in Chunks(h) /\ first <= last /\ z # NULL
      /\ first \in Nat /\ last \in Nat /\ z \in Chunks(h) /\ z \in Nat /\ last < z
      /\ \A c \in Chunks(h) : c \in Nat /\ c # NULL
  BY SpanFacts, ChainTypes DEF Span
<1>2. HeapShape(h)
  BY DEF Chain
<1>3. g = [next |-> nx, prev |-> pv, status |-> st, lists |-> h.lists, filled |-> h.filled]
  <2>1. g = [h EXCEPT !.next = nx, !.prev = pv, !.status = st]
    BY DEF MergeForward
  <2> HIDE DEF g, nx, pv, st
  <2> QED BY <2>1, <1>2, HeapUpdate
<1>4. g.next = nx /\ g.prev = pv /\ g.status = st /\ g.lists = h.lists /\ g.filled = h.filled
  BY <1>3
<1>5. /\ DOMAIN h.next = Chunks(h) /\ DOMAIN h.prev = Chunks(h) /\ DOMAIN h.status = Chunks(h)
      /\ DOMAIN n1 = Chunks(h)
  BY <1>2 DEF HeapShape, Chunks
<1> HIDE DEF g
<1>6. first \in C /\ z \in C /\ C \subseteq Chunks(h)
  BY <1>1
<1>7. /\ DOMAIN nx = C /\ nx[first] = z /\ \A c \in C : c # first => nx[c] = h.next[c]
      /\ nx = [c \in C |-> nx[c]]
  BY <1>1, <1>5, <1>6 DEF Drop
<1>8. /\ DOMAIN pv = C /\ \A c \in C : pv[c] = h.prev[c]
      /\ pv = [c \in C |-> pv[c]]
  BY <1>5 DEF Drop
<1>9. /\ DOMAIN st = C /\ \A c \in C : st[c] = h.status[c]
      /\ st = [c \in C |-> st[c]]
  BY <1>5 DEF Drop
<1>10. Chunks(g) = C
  BY <1>4, <1>9 DEF Chunks
<1> HIDE DEF nx, pv, st
<1>11. ASSUME NEW c \in Chunks(h), h.next[c] # NULL
       PROVE  /\ h.next[c] \in Chunks(h) /\ h.next[c] \in Nat /\ h.next[c] >= c + 5
              /\ \A d \in Chunks(h) : d <= c \/ h.next[c] <= d
              /\ h.prev[h.next[c]] = IF c = last THEN first ELSE c
  BY <1>11, NextFacts
<1>12. ASSUME NEW c \in C, c # first, h.next[c] # NULL
       PROVE  h.next[c] \in C /\ h.next[c] # z /\ c # last
  <2>1. /\ h.next[c] \in Chunks(h) /\ h.next[c] \in Nat /\ h.next[c] >= c + 5
        /\ first <= c \/ h.next[c] <= first
        /\ last <= c \/ h.next[c] <= last
        /\ c \in Nat
    BY <1>1, <1>6, <1>11, <1>12
  <2>2. c < first \/ last < c
    BY <1>1, <1>12, <2>1
  <2>3. h.next[c] \in C
    BY <1>1, <2>1, <2>2
  <2>4. h.next[c] # z
    <3>1. z <= c \/ c <= last
      BY <1>1, <1>6, <1>11
    <3> QED BY <1>1, <2>1, <2>2, <3>1
  <2> QED BY <2>2, <2>3, <2>4, <1>1
<1>13. ASSUME NEW c \in C
       PROVE  \/ (\E e \in E : c = e[1]) /\ h.prev[c] = NULL
              \/ c = z /\ h.prev[c] = first
              \/ \E d \in C : d # first /\ h.next[d] = c /\ h.prev[c] = d
              \/ c = z /\ first = last /\ h.prev[c] = first
  <2>1. \/ \E e \in E : c = e[1]
        \/ \E d \in Chunks(h) : h.next[d] = c
    BY <1>6 DEF Chain, Reached
  <2>2. CASE \E e \in E : c = e[1]
    BY <2>2 DEF Chain, Ended
  <2>3. CASE \E d \in Chunks(h) : h.next[d] = c
    <3>1. PICK d \in Chunks(h) : h.next[d] = c
      BY <2>3
    <3>2. h.next[d] # NULL
      BY <3>1, <1>1, <1>6
    <3>3. /\ c >= d + 5 /\ c \in Nat /\ d \in Nat
          /\ \A x \in Chunks(h) : x <= d \/ c <= x
          /\ h.prev[c] = IF d = last THEN first ELSE d
      BY <3>1, <3>2, <1>1, <1>11
    <3>4. CASE d = last
      BY <3>1, <3>3, <3>4
    <3>5. CASE d # last
      <4>1. last <= d \/ c <= last
        BY <1>1, <3>3
      <4>2. ~ (first <= d /\ d <= last)
        BY <1>1, <3>3, <3>5, <4>1
      <4>3. d \in C /\ d # first
        BY <1>1, <3>3, <4>2
      <4> QED BY <3>1, <3>3, <3>5, <4>3
    <3> QED BY <3>4, <3>5
  <2> QED BY <2>1, <2>2, <2>3
<1>14. HeapShape(g)
  <2>1. \A c \in C : nx[c] \in C \union {NULL}
    <3> SUFFICES ASSUME NEW c \in C PROVE nx[c] \in C \union {NULL}
      OBVIOUS
    <3>1. CASE c = first
      BY <1>6, <1>7, <3>1
    <3>2. CASE c # first /\ h.next[c] # NULL
      BY <1>7, <1>12, <3>2
    <3>3. CASE c # first /\ h.next[c] = NULL
      BY <1>7, <3>3
    <3> QED BY <3>1, <3>2, <3>3
  <2>2. \A c \in C : pv[c] \in C \union {NULL}
    <3> SUFFICES ASSUME NEW c \in C PROVE h.prev[c] \in C \union {NULL}
      BY <1>8
    <3> QED BY <1>6, <1>13
  <2>3. \A c \in C : st[c] \in {"FREE", "ALLOCATED"}
    BY <1>2, <1>6, <1>9 DEF HeapShape
  <2>4. C \subseteq Nat
    BY <1>1, <1>6
  <2> HIDE DEF C
  <2>5. /\ nx \in [C -> C \union {NULL}] /\ pv \in [C -> C \union {NULL}]
        /\ st \in [C -> {"FREE", "ALLOCATED"}]
    BY <1>7, <1>8, <1>9, <2>1, <2>2, <2>3
  <2> QED BY <1>3, <1>4, <1>10, <2>4, <2>5 DEF HeapShape
<1>15. Ordered(g, NULL, NULL)
  <2> SUFFICES ASSUME NEW c \in C, nx[c] # NULL
               PROVE  /\ nx[c] - c >= 5
                      /\ \A d \in C : ~ (c < d /\ d < nx[c])
                      /\ c # NULL /\ h.prev[nx[c]] = c /\ nx[c] \in C
    BY <1>4, <1>8, <1>10, Memory DEF Ordered
  <2>1. CASE c = first
    <3>1. nx[c] = z
      BY <1>7, <2>1
    <3>2. /\ z >= last + 5 /\ \A d \in Chunks(h) : d <= last \/ z <= d
          /\ h.prev[z] = first
      BY <1>1, <1>11
    <3>3. ASSUME NEW d \in C PROVE d <= first \/ last < d
      <4>1. d \in Nat /\ ~ (first < d /\ d <= last)
        BY <1>1
      <4> QED BY <1>1, <4>1
    <3> HIDE DEF z
    <3>4. \A d \in C : ~ (c < d /\ d < z)
      BY <1>1, <1>6, <2>1, <3>2, <3>3
    <3>5. z - c >= 5
      BY <1>1, <2>1, <3>2
    <3> QED BY <1>1, <1>6, <2>1, <3>1, <3>2, <3>4, <3>5
  <2>2. CASE c # first
    <3>1. nx[c] = h.next[c]
      BY <1>7, <2>2
    <3>2. /\ h.next[c] \in Nat /\ h.next[c] >= c + 5 /\ c \in Nat
          /\ \A d \in Chunks(h) : d <= c \/ h.next[c] <= d
          /\ h.prev[h.next[c]] = IF c = last THEN first ELSE c
      BY <1>1, <1>6, <1>11, <3>1
    <3>3. h.next[c] \in C /\ c # last
      BY <1>12, <2>2, <3>1
    <3>4. \A d \in C : ~ (c < d /\ d < h.next[c])
      BY <1>1, <1>6, <3>2
    <3>5. h.next[c] - c >= 5
      BY <3>2
    <3> QED BY <1>1, <1>6, <3>1, <3>2, <3>3, <3>4, <3>5
  <2> QED BY <2>1, <2>2
<1>16. Reached(g, E)
  <2> SUFFICES ASSUME NEW c \in C, \A e \in E : c # e[1]
               PROVE  \E d \in C : nx[d] = c
    BY <1>4, <1>10 DEF Reached
  <2> QED BY <1>6, <1>7, <1>13
<1>17. Inside(g, E)
  <2> SUFFICES ASSUME NEW c \in C
               PROVE  \E e \in E : Within(e, c) /\ (nx[c] = NULL <=> c = e[2] - HeaderSize)
    BY <1>4, <1>10 DEF Inside
  <2>1. PICK e \in E : Within(e, c) /\ (h.next[c] = NULL <=> c = e[2] - HeaderSize)
    BY <1>6 DEF Chain, Inside
  <2>2. c = first => h.next[c] # NULL /\ nx[c] # NULL
    BY <1>1, <1>7, SpanFacts
  <2> QED BY <1>7, <2>1, <2>2
<1>18. Ended(g, E)
  <2> SUFFICES ASSUME NEW e \in E
               PROVE  e[1] \in C /\ e[2] - HeaderSize \in C /\ h.prev[e[1]] = NULL
    BY <1>4, <1>8, <1>10 DEF Ended
  <2>1. e[1] \in Chunks(h) /\ e[2] - 3 \in Chunks(h) /\ h.prev[e[1]] = NULL
    BY Memory DEF Chain, Ended
  <2>2. ASSUME NEW c \in inside PROVE c # e[1] /\ c # e[2] - 3
    <3>0. c \in Chunks(h) /\ first < c /\ first <= c /\ c <= last
      <4>1. c \in Chunks(h) /\ first < c /\ c <= last
        OBVIOUS
      <4>2. c \in Nat
        BY <4>1, <1>1
      <4> QED BY <4>1, <4>2, <1>1
    <3>1. PICK d \in E : /\ d[1] <= first /\ d[1] <= c /\ c + 3 <= d[2] /\ c # d[2] - 3 /\ c # d[1]
      BY <3>0, SpanFacts
    <3>2. /\ d[1] \in Nat /\ d[2] \in Nat /\ e[1] \in Nat /\ e[2] \in Nat /\ e[1] + 8 <= e[2]
          /\ c \in Nat
      BY <1>1, ExtentTypes DEF Chain
    <3>3. CASE d = e
      BY <3>1, <3>3
    <3>4. CASE d # e
      <4>1. ~ (e[1] <= c /\ c < e[2])
        BY <3>1, <3>2, <3>4, OneExtent DEF Chain
      <4> QED BY <3>2, <4>1
    <3> QED BY <3>3, <3>4
  <2> QED BY <2>1, <2>2, Memory
<1>19. Chain(g, E, NULL, NULL)
  BY <1>14, <1>15, <1>16, <1>17, <1>18 DEF Chain
<1> HIDE DEF inside
<1> QED BY <1>4, <1>6, <1>7, <1>8, <1>9, <1>10, <1>19 DEF g, inside

(* An extent leaves the heap with all its headers. *)
Cleared(h, S) == [h EXCEPT !.next = Drop(@, S), !.prev = Drop(@, S), !.status = Drop(@, S)]

LEMMA DropChain ==
    ASSUME NEW h, NEW E, NEW first, NEW last, Chain(h, E, first, last),
           NEW e \in E, NEW S \in SUBSET Chunks(h), first \notin S,
           \A x \in Chunks(h) : x \in S <=> e[1] <= x /\ x < e[2]
    PROVE  LET g == Cleared(h, S)
           IN  /\ Chain(g, E \ {e}, first, last)
               /\ Chunks(g) = Chunks(h) \ S
               /\ Same(g, h, Chunks(g))
               /\ g.lists = h.lists /\ g.filled = h.filled
<1> DEFINE g == Cleared(h, S)
           C == Chunks(h) \ S
           nx == Drop(h.next, S)
           pv == Drop(h.prev, S)
           st == Drop(h.status, S)
           F == E \ {e}
<1>1. /\ \A c \in Chunks(h) : c \in Nat /\ c # NULL
      /\ ExtentsApart(E) /\ e[1] \in Nat /\ e[2] \in Nat
  BY ChainTypes, ExtentTypes DEF Chain
<1>2. HeapShape(h)
  BY DEF Chain
<1>3. g = [next |-> nx, prev |-> pv, status |-> st, lists |-> h.lists, filled |-> h.filled]
  <2>1. g = [h EXCEPT !.next = nx, !.prev = pv, !.status = st]
    BY DEF Cleared
  <2> HIDE DEF g, nx, pv, st
  <2> QED BY <2>1, <1>2, HeapUpdate
<1>4. g.next = nx /\ g.prev = pv /\ g.status = st /\ g.lists = h.lists /\ g.filled = h.filled
  BY <1>3
<1>5. DOMAIN h.next = Chunks(h) /\ DOMAIN h.prev = Chunks(h) /\ DOMAIN h.status = Chunks(h)
  BY <1>2 DEF HeapShape, Chunks
<1> HIDE DEF g
<1>6. /\ nx = [c \in C |-> nx[c]] /\ \A c \in C : nx[c] = h.next[c]
      /\ pv = [c \in C |-> pv[c]] /\ \A c \in C : pv[c] = h.prev[c]
      /\ st = [c \in C |-> st[c]] /\ \A c \in C : st[c] = h.status[c]
      /\ DOMAIN st = C
  BY <1>5 DEF Drop
<1>7. Chunks(g) = C
  BY <1>4, <1>6 DEF Chunks
<1> HIDE DEF nx, pv, st
<1>8. ASSUME NEW c \in C
      PROVE  \E d \in F : Within(d, c) /\ (h.next[c] = NULL <=> c = d[2] - HeaderSize)
  <2>1. PICK d \in E : Within(d, c) /\ (h.next[c] = NULL <=> c = d[2] - HeaderSize)
    BY DEF Chain, Inside
  <2>2. d # e
    BY <1>1, <2>1, WithinFacts
  <2> QED BY <2>1, <2>2
<1>9. ASSUME NEW c \in Chunks(h), h.next[c] # NULL
      PROVE  h.next[c] \in Chunks(h) /\ (c \in C <=> h.next[c] \in C)
  <2>1. PICK d \in E : d[1] <= c /\ c + 3 <= d[2] /\ h.next[c] + 3 <= d[2] /\ c < d[2]
    BY <1>9, HomeExtent
  <2>2. h.next[c] \in Chunks(h) /\ h.next[c] \in Nat /\ h.next[c] >= c + 5 /\ c \in Nat
    BY <1>9, NextFacts
  <2>3. d[1] \in Nat /\ d[2] \in Nat
    BY <1>1, ExtentTypes
  <2>4. d[1] <= h.next[c] /\ h.next[c] < d[2]
    BY <2>1, <2>2, <2>3
  <2>5. c \in S <=> d = e
    BY <1>1, <2>1, <2>2, OneExtent
  <2>6. h.next[c] \in S <=> d = e
    BY <1>1, <2>2, <2>4, OneExtent
  <2> QED BY <2>2, <2>5, <2>6
<1>10. ASSUME NEW c \in C
       PROVE  \/ (\E d \in F : c = d[1]) /\ h.prev[c] = NULL
              \/ \E d \in C : h.next[d] = c
  <2>1. CASE \E d \in E : c = d[1]
    <3>1. PICK d \in E : c = d[1]
      BY <2>1
    <3>2. h.prev[c] = NULL /\ d # e
      <4>1. h.prev[c] = NULL
        BY <3>1 DEF Chain, Ended
      <4>2. e[1] < e[2]
        BY <1>1, ExtentTypes
      <4> QED BY <1>1, <3>1, <4>1, <4>2
    <3> QED BY <3>1, <3>2
  <2>2. CASE \E d \in Chunks(h) : h.next[d] = c
    <3>1. PICK d \in Chunks(h) : h.next[d] = c
      BY <2>2
    <3>2. d \in C
      BY <1>1, <1>9, <3>1
    <3> QED BY <3>1, <3>2
  <2> QED BY <2>1, <2>2 DEF Chain, Reached
<1>11. ASSUME NEW c \in C, NEW d \in C, h.next[d] = c PROVE h.prev[c] \in C \union {NULL}
  <2>1. h.prev[c] = IF d = last THEN first ELSE d
    BY <1>1, <1>11, NextFacts
  <2>2. h.prev[c] \in Chunks(h) \union {NULL}
    BY ChainTypes
  <2> QED BY <2>1, <2>2
<1>12. HeapShape(g)
  <2>1. \A c \in C : nx[c] \in C \union {NULL}
    <3> SUFFICES ASSUME NEW c \in C PROVE h.next[c] \in C \union {NULL}
      BY <1>6
    <3> QED BY <1>9
  <2>2. \A c \in C : pv[c] \in C \union {NULL}
    <3> SUFFICES ASSUME NEW c \in C PROVE h.prev[c] \in C \union {NULL}
      BY <1>6
    <3> QED BY <1>10, <1>11
  <2>3. \A c \in C : st[c] \in {"FREE", "ALLOCATED"}
    BY <1>2, <1>6 DEF HeapShape
  <2>4. C \subseteq Nat
    BY <1>1
  <2> HIDE DEF C
  <2>5. /\ nx \in [C -> C \union {NULL}] /\ pv \in [C -> C \union {NULL}]
        /\ st \in [C -> {"FREE", "ALLOCATED"}]
    BY <1>6, <2>1, <2>2, <2>3
  <2> QED BY <1>3, <1>4, <1>7, <2>4, <2>5 DEF HeapShape
<1>13. ExtentsApart(F)
  BY DEF Chain, ExtentsApart
<1>14. Ordered(g, first, last)
  <2> SUFFICES ASSUME NEW c \in C, nx[c] # NULL
               PROVE  /\ nx[c] - c >= HeaderSize + MinInnerSize
                      /\ \A d \in C : ~ (c < d /\ d < nx[c])
                      /\ pv[nx[c]] = IF c = last THEN first ELSE c
    BY <1>4, <1>7 DEF Ordered
  <2>0. nx[c] = h.next[c]
    BY <1>6
  <2>1. h.next[c] \in C
    BY <1>9, <2>0
  <2>2. pv[h.next[c]] = h.prev[h.next[c]]
    BY <1>6, <2>1
  <2> QED BY <2>0, <2>2 DEF Chain, Ordered
<1>15. Reached(g, F)
  <2> SUFFICES ASSUME NEW c \in C
               PROVE  (\E d \in F : c = d[1]) \/ \E d \in C : nx[d] = c
    BY <1>4, <1>7 DEF Reached
  <2> QED BY <1>6, <1>10
<1>16. Inside(g, F)
  BY <1>4, <1>6, <1>7, <1>8 DEF Inside
<1>17. Ended(g, F)
  <2> SUFFICES ASSUME NEW d \in F
               PROVE  d[1] \in C /\ d[2] - HeaderSize \in C /\ pv[d[1]] = NULL
    BY <1>4, <1>7 DEF Ended
  <2>1. d[1] \in Chunks(h) /\ d[2] - 3 \in Chunks(h) /\ h.prev[d[1]] = NULL
    BY Memory DEF Chain, Ended
  <2>2. d[1] \in Nat /\ d[2] \in Nat /\ d[1] + 8 <= d[2]
    BY <1>1, ExtentTypes
  <2>3. d[1] \notin S /\ d[2] - 3 \notin S
    <3>1. e[2] <= d[1] \/ d[2] <= e[1]
      BY <1>1 DEF ExtentsApart
    <3> QED BY <1>1, <2>2, <3>1
  <2> QED BY <1>6, <2>1, <2>3, Memory
<1>18. Chain(g, F, first, last)
  BY <1>12, <1>13, <1>14, <1>15, <1>16, <1>17 DEF Chain
<1> QED BY <1>4, <1>6, <1>7, <1>9, <1>18 DEF g, Same

-----------------------------------------------------------------------------
(* Functions defined by recursion along a chain *)

(* A function that follows p as long as it is in P exists, when p makes a   *)
(* measure smaller.                                                         *)
Follows(f, D, P, p, v) == f = [a \in D |-> IF a \in P THEN f[p[a]] ELSE v[a]]

LEMMA LeastMeasure ==
    ASSUME NEW D, NEW m, \A a \in D : m[a] \in Nat, NEW S \in SUBSET D, S # {}
    PROVE  \E b \in S : \A x \in S : m[b] <= m[x]
<1> DEFINE M == {m[x] : x \in S}
<1>1. M \in SUBSET Nat /\ M # {}
  OBVIOUS
<1>2. PICK y \in M : \A z \in M : y <= z
  <2> HIDE DEF M
  <2> QED BY <1>1, LeastElement
<1>3. PICK b \in S : y = m[b]
  OBVIOUS
<1> QED BY <1>2, <1>3

LEMMA Recursion ==
    ASSUME NEW D, NEW m, \A a \in D : m[a] \in Nat,
           NEW P \in SUBSET D, NEW p, NEW v,
           \A a \in P : p[a] \in D /\ m[p[a]] < m[a]
    PROVE  \E f : Follows(f, D, P, p, v)
<1> DEFINE Below(n) == {d \in D : m[d] <= n}
           Approx(n, g) == g = [a \in Below(n) |-> IF a \in P THEN g[p[a]] ELSE v[a]]
<1>1. ASSUME NEW n \in Nat PROVE \E g : Approx(n, g)
  <2> DEFINE Bad == {k \in Nat : ~ \E g : Approx(k, g)}
  <2> SUFFICES ASSUME Bad # {} PROVE FALSE
    BY Zenon
  <2>1. PICK k \in Bad : \A x \in Bad : k <= x
    <3>1. Bad \in SUBSET Nat
      OBVIOUS
    <3> HIDE DEF Bad
    <3> QED BY <3>1, LeastElement
  <2>2. PICK g : k = 0 \/ Approx(k - 1, g)
    <3>1. CASE k = 0
      BY <3>1
    <3>2. CASE k # 0
      <4>1. k - 1 \in Nat /\ ~ k <= k - 1
        BY <3>2
      <4>2. k - 1 \notin Bad
        BY <4>1, <2>1
      <4>3. \E g : Approx(k - 1, g)
        BY <4>1, <4>2, Zenon
      <4> QED BY <4>3, Zenon
    <3> QED BY <3>1, <3>2
  <2> DEFINE f == [a \in Below(k) |-> IF a \in P THEN g[p[a]] ELSE v[a]]
  <2>3. ASSUME NEW a \in Below(k), a \in P PROVE f[p[a]] = g[p[a]]
    <3>1. p[a] \in D /\ m[p[a]] < m[a] /\ m[a] <= k /\ m[a] \in Nat /\ m[p[a]] \in Nat
      BY <2>3
    <3>2. k # 0 /\ m[p[a]] <= k - 1 /\ m[p[a]] <= k
      BY <3>1
    <3>3. p[a] \in Below(k) /\ p[a] \in Below(k - 1)
      BY <3>1, <3>2
    <3>4. g[p[a]] = IF p[a] \in P THEN g[p[p[a]]] ELSE v[p[a]]
      <4>1. g = [x \in Below(k - 1) |-> IF x \in P THEN g[p[x]] ELSE v[x]]
        BY <2>2, <3>2
      <4> HIDE DEF Below
      <4> QED BY <3>3, <4>1
    <3> HIDE DEF Below
    <3> QED BY <3>3, <3>4
  <2>4. f = [a \in Below(k) |-> IF a \in P THEN f[p[a]] ELSE v[a]]
    <3>1. \A a \in Below(k) : (IF a \in P THEN g[p[a]] ELSE v[a]) =
                              (IF a \in P THEN f[p[a]] ELSE v[a])
      BY <2>3
    <3> HIDE DEF Below
    <3> QED BY <3>1
  <2>5. Approx(k, f)
    BY <2>4, Zenon
  <2> QED BY <2>1, <2>5, Zenon
<1>2. ASSUME NEW a \in D, NEW n \in Nat, NEW k \in Nat, NEW g, NEW f,
             Approx(n, g), Approx(k, f), m[a] <= n, m[a] <= k
      PROVE  g[a] = f[a]
  <2> DEFINE Bad == {x \in D : m[x] <= n /\ m[x] <= k /\ g[x] # f[x]}
  <2> SUFFICES ASSUME Bad # {} PROVE FALSE
    BY <1>2
  <2>1. PICK b \in Bad : \A x \in Bad : m[b] <= m[x]
    <3>1. Bad \in SUBSET D
      OBVIOUS
    <3> HIDE DEF Bad
    <3> QED BY <3>1, LeastMeasure
  <2>2. b \in D /\ m[b] <= n /\ m[b] <= k /\ g[b] # f[b] /\ m[b] \in Nat
    OBVIOUS
  <2>3. b \in Below(n) /\ b \in Below(k)
    BY <2>2
  <2>4. /\ g[b] = IF b \in P THEN g[p[b]] ELSE v[b]
        /\ f[b] = IF b \in P THEN f[p[b]] ELSE v[b]
    <3> HIDE DEF Below
    <3> QED BY <1>2, <2>3
  <2>5. b \in P /\ g[p[b]] # f[p[b]]
    BY <2>2, <2>4
  <2>6. p[b] \in D /\ m[p[b]] < m[b] /\ m[p[b]] \in Nat
    BY <2>5
  <2>7. p[b] \in Bad
    BY <2>2, <2>5, <2>6
  <2> QED BY <2>1, <2>2, <2>6, <2>7
<1> DEFINE best(a) == CHOOSE g : Approx(m[a], g)
           f == [a \in D |-> best(a)[a]]
<1>3. \A a \in D : Approx(m[a], best(a))
  <2> SUFFICES ASSUME NEW a \in D PROVE Approx(m[a], best(a))
    BY Zenon
  <2>1. \E g : Approx(m[a], g)
    BY <1>1
  <2> QED BY <2>1, Zenon
<1>4. ASSUME NEW a \in D PROVE f[a] = IF a \in P THEN f[p[a]] ELSE v[a]
  <2>1. m[a] \in Nat /\ a \in Below(m[a])
    OBVIOUS
  <2>2. best(a)[a] = IF a \in P THEN best(a)[p[a]] ELSE v[a]
    <3>1. Approx(m[a], best(a))
      BY <1>3
    <3> HIDE DEF Below, best
    <3> QED BY <2>1, <3>1
  <2>3. ASSUME a \in P PROVE best(a)[p[a]] = best(p[a])[p[a]]
    <3>1. p[a] \in D /\ m[p[a]] \in Nat /\ m[p[a]] < m[a] /\ m[p[a]] <= m[a] /\ m[p[a]] <= m[p[a]]
      BY <2>1, <2>3
    <3>2. Approx(m[a], best(a)) /\ Approx(m[p[a]], best(p[a]))
      BY <1>3, <3>1
    <3> HIDE DEF Approx, best
    <3> QED BY <1>2, <2>1, <3>1, <3>2
  <2> HIDE DEF best
  <2> QED BY <2>2, <2>3
<1>5. f = [a \in D |-> IF a \in P THEN f[p[a]] ELSE v[a]]
  <2>1. f = [a \in D |-> f[a]]
    OBVIOUS
  <2> HIDE DEF f
  <2> QED BY <1>4, <2>1
<1> QED BY <1>5, Zenon DEF Follows

(* What holds where it stops, and backwards along p, holds of its values.   *)
LEMMA Along ==
    ASSUME NEW D, NEW m, \A a \in D : m[a] \in Nat,
           NEW P \in SUBSET D, NEW p, NEW v,
           \A a \in P : p[a] \in D /\ m[p[a]] < m[a],
           NEW f, Follows(f, D, P, p, v),
           NEW R,
           \A a \in D \ P : <<a, v[a]>> \in R,
           \A a \in P : \A x : <<p[a], x>> \in R => <<a, x>> \in R
    PROVE  \A a \in D : <<a, f[a]>> \in R
<1> DEFINE Bad == {x \in D : <<x, f[x]>> \notin R}
<1> SUFFICES ASSUME Bad # {} PROVE FALSE
  OBVIOUS
<1>1. PICK b \in Bad : \A x \in Bad : m[b] <= m[x]
  <2>1. Bad \in SUBSET D
    OBVIOUS
  <2> HIDE DEF Bad
  <2> QED BY <2>1, LeastMeasure
<1>2. b \in D /\ f[b] = IF b \in P THEN f[p[b]] ELSE v[b]
  BY DEF Follows
<1>3. b \in P /\ <<p[b], f[p[b]]>> \notin R
  BY <1>2
<1>4. p[b] \in D /\ m[p[b]] < m[b]
  BY <1>3
<1>5. p[b] \in Bad
  BY <1>3, <1>4
<1> QED BY <1>1, <1>4, <1>5

-----------------------------------------------------------------------------
(* The runs of free chunks *)

FreeBefore(h, c) == h.prev[c] # NULL /\ h.status[h.prev[c]] = "FREE"
FreeAfter(h, c) == h.next[c] # NULL /\ h.status[h.next[c]] = "FREE"

LEMMA RunStartFacts ==
    ASSUME NEW h, NEW E, Chain(h, E, NULL, NULL), NEW c \in Chunks(h)
    PROVE  /\ RunStart(h, c) \in Chunks(h) /\ RunStart(h, c) <= c
           /\ ~ FreeBefore(h, RunStart(h, c))
           /\ \A x \in Chunks(h) : RunStart(h, c) < x /\ x <= c => FreeBefore(h, x)
           /\ \E e \in E : e[1] <= RunStart(h, c) /\ c < e[2]
<1> DEFINE D == Chunks(h)
           P == {a \in D : FreeBefore(h, a)}
           p == h.prev
           v == [a \in D |-> a]
           B == CHOOSE back : back = [a \in Chunks(h) |->
                  IF h.prev[a] # NULL /\ h.status[h.prev[a]] = "FREE" THEN back[h.prev[a]] ELSE a]
           R == {q \in D \X D :
                   /\ q[2] <= q[1] /\ ~ FreeBefore(h, q[2])
                   /\ \A x \in D : q[2] < x /\ x <= q[1] => FreeBefore(h, x)
                   /\ \E e \in E : e[1] <= q[2] /\ q[1] < e[2]}
<1>1. RunStart(h, c) = B[c]
  BY DEF RunStart
<1>2. ASSUME NEW a \in P PROVE a \in D /\ p[a] \in D /\ p[a] < a /\ h.next[p[a]] = a
  BY PrevFacts DEF FreeBefore
<1>3. \A a \in D : v[a] \in Nat
  BY ChainTypes
<1>4. \A a \in P : p[a] \in D /\ v[p[a]] < v[a]
  BY <1>2
<1>5. \E f : Follows(f, D, P, p, v)
  <2>1. P \in SUBSET D
    OBVIOUS
  <2> HIDE DEF D, P, v, p
  <2> QED BY <1>3, <1>4, <2>1, Recursion
<1>6. \A f : Follows(f, D, P, p, v) <=>
             f = [a \in Chunks(h) |-> IF h.prev[a] # NULL /\ h.status[h.prev[a]] = "FREE"
                                    THEN f[h.prev[a]] ELSE a]
  BY DEF FreeBefore, Follows
<1>7. Follows(B, D, P, p, v)
  <2>1. \E back : back = [a \in Chunks(h) |->
                    IF h.prev[a] # NULL /\ h.status[h.prev[a]] = "FREE" THEN back[h.prev[a]] ELSE a]
    <3> HIDE DEF D, P, v, p
    <3> QED BY <1>5, <1>6, Zenon
  <2>2. B = [a \in Chunks(h) |->
               IF h.prev[a] # NULL /\ h.status[h.prev[a]] = "FREE" THEN B[h.prev[a]] ELSE a]
    BY <2>1, Zenon
  <2> HIDE DEF B, D, P, v, p
  <2> QED BY <2>2, <1>6, Zenon
<1>8. \A a \in D \ P : <<a, v[a]>> \in R
  <2> SUFFICES ASSUME NEW a \in D \ P PROVE <<a, a>> \in R
    OBVIOUS
  <2>1. a \in Nat /\ \A x \in D : x \in Nat
    BY ChainTypes
  <2>2. PICK e \in E : e[1] <= a /\ a < e[2]
    BY HomeExtent
  <2> QED BY <2>1, <2>2
<1>9. \A a \in P : \A r : <<p[a], r>> \in R => <<a, r>> \in R
  <2> SUFFICES ASSUME NEW a \in P, NEW r, <<p[a], r>> \in R PROVE <<a, r>> \in R
    OBVIOUS
  <2> DEFINE b == p[a]
  <2>1. a \in D /\ b \in D /\ b < a /\ h.next[b] = a /\ a \in Nat /\ b \in Nat /\ a # NULL
    BY <1>2, ChainTypes
  <2> HIDE DEF b
  <2>2. /\ r \in D /\ r <= b /\ ~ FreeBefore(h, r)
        /\ \A x \in D : r < x /\ x <= b => FreeBefore(h, x)
    BY DEF b
  <2>3. PICK e \in E : e[1] <= r /\ b < e[2]
    BY DEF b
  <2>4. r \in Nat /\ \A x \in D : x \in Nat /\ (x <= b \/ a <= x)
    BY <2>1, <2>2, ChainTypes, NextFacts
  <2>5. \A x \in D : r < x /\ x <= a => FreeBefore(h, x)
    <3> SUFFICES ASSUME NEW x \in D, r < x, x <= a PROVE FreeBefore(h, x)
      OBVIOUS
    <3>1. x <= b \/ x = a
      BY <2>1, <2>4
    <3> QED BY <2>2, <3>1
  <2>6. e[1] \in Nat /\ e[2] \in Nat
    BY ExtentTypes DEF Chain
  <2>7. e[1] <= b
    BY <2>1, <2>2, <2>3, <2>4, <2>6
  <2>8. a + 3 <= e[2]
    BY <2>1, <2>3, <2>7, InExtent
  <2>9. a < e[2] /\ r <= a
    BY <2>1, <2>2, <2>4, <2>6, <2>8
  <2> QED BY <2>1, <2>2, <2>3, <2>5, <2>9
<1>10. \A a \in D : <<a, B[a]>> \in R
  <2>1. P \in SUBSET D
    OBVIOUS
  <2> HIDE DEF D, P, v, p, B, R
  <2> QED BY <1>3, <1>4, <1>7, <1>8, <1>9, <2>1, Along
<1>11. <<c, B[c]>> \in R
  BY <1>10
<1> HIDE DEF B
<1> QED BY <1>1, <1>11

LEMMA RunEndFacts ==
    ASSUME NEW h, NEW E, Chain(h, E, NULL, NULL), NEW c \in Chunks(h)
    PROVE  /\ RunEnd(h, c) \in Chunks(h) /\ c <= RunEnd(h, c)
           /\ ~ FreeAfter(h, RunEnd(h, c))
           /\ \A x \in Chunks(h) : c < x /\ x <= RunEnd(h, c) => h.status[x] = "FREE"
           /\ \E e \in E : e[1] <= c /\ RunEnd(h, c) < e[2]
<1> DEFINE D == Chunks(h)
           P == {a \in D : FreeAfter(h, a)}
           p == h.next
           v == [a \in D |-> a]
           m == [a \in D |-> MemoryEnd - a]
           B == CHOOSE forward : forward = [a \in Chunks(h) |->
                  IF h.next[a] # NULL /\ h.status[h.next[a]] = "FREE" THEN forward[h.next[a]] ELSE a]
           R == {q \in D \X D :
                   /\ q[1] <= q[2] /\ ~ FreeAfter(h, q[2])
                   /\ \A x \in D : q[1] < x /\ x <= q[2] => h.status[x] = "FREE"
                   /\ \E e \in E : e[1] <= q[1] /\ q[2] < e[2]}
<1>1. RunEnd(h, c) = B[c]
  BY DEF RunEnd
<1>2. ASSUME NEW a \in P
      PROVE  /\ a \in D /\ p[a] \in D /\ a < p[a] /\ a \in Nat /\ p[a] \in Nat
             /\ \A d \in D : d <= a \/ p[a] <= d
  BY NextFacts DEF FreeAfter
<1>3. \A a \in D : a \in Nat /\ m[a] \in Nat
  <2> SUFFICES ASSUME NEW a \in D PROVE a \in Nat /\ MemoryEnd - a \in Nat
    OBVIOUS
  <2>1. PICK e \in E : Within(e, a)
    BY HomeExtent
  <2>2. a \in Nat /\ a <= MemoryEnd
    BY <2>1, ChainTypes, WithinFacts DEF Chain
  <2> QED BY <2>2, Memory
<1>4. \A a \in P : p[a] \in D /\ m[p[a]] < m[a]
  BY <1>2, Memory
<1>5. \E f : Follows(f, D, P, p, v)
  <2>1. P \in SUBSET D
    OBVIOUS
  <2> HIDE DEF D, P, v, p, m
  <2> QED BY <1>3, <1>4, <2>1, Recursion
<1>6. \A f : Follows(f, D, P, p, v) <=>
             f = [a \in Chunks(h) |-> IF h.next[a] # NULL /\ h.status[h.next[a]] = "FREE"
                                    THEN f[h.next[a]] ELSE a]
  BY DEF FreeAfter, Follows
<1>7. Follows(B, D, P, p, v)
  <2>1. \E forward : forward = [a \in Chunks(h) |->
                 IF h.next[a] # NULL /\ h.status[h.next[a]] = "FREE" THEN forward[h.next[a]] ELSE a]
    <3> HIDE DEF D, P, v, p
    <3> QED BY <1>5, <1>6, Zenon
  <2>2. B = [a \in Chunks(h) |->
               IF h.next[a] # NULL /\ h.status[h.next[a]] = "FREE" THEN B[h.next[a]] ELSE a]
    BY <2>1, Zenon
  <2> HIDE DEF B, D, P, v, p
  <2> QED BY <2>2, <1>6, Zenon
<1>8. \A a \in D \ P : <<a, v[a]>> \in R
  <2> SUFFICES ASSUME NEW a \in D \ P PROVE <<a, a>> \in R
    OBVIOUS
  <2>1. a \in Nat /\ \A x \in D : x \in Nat
    BY ChainTypes
  <2>2. PICK e \in E : e[1] <= a /\ a < e[2]
    BY HomeExtent
  <2> QED BY <2>1, <2>2
<1>9. \A a \in P : \A r : <<p[a], r>> \in R => <<a, r>> \in R
  <2> SUFFICES ASSUME NEW a \in P, NEW r, <<p[a], r>> \in R PROVE <<a, r>> \in R
    OBVIOUS
  <2> DEFINE b == p[a]
  <2>1. /\ a \in D /\ b \in D /\ a < b /\ a \in Nat /\ b \in Nat /\ h.status[b] = "FREE"
        /\ h.next[a] = b /\ b # NULL
        /\ \A d \in D : d <= a \/ b <= d
    BY <1>2, ChainTypes DEF FreeAfter
  <2> HIDE DEF b
  <2>2. /\ r \in D /\ b <= r /\ ~ FreeAfter(h, r)
        /\ \A x \in D : b < x /\ x <= r => h.status[x] = "FREE"
    BY DEF b
  <2>3. PICK e \in E : e[1] <= b /\ r < e[2]
    BY DEF b
  <2>4. r \in Nat /\ \A x \in D : x \in Nat
    BY <2>2, ChainTypes
  <2>5. \A x \in D : a < x /\ x <= r => h.status[x] = "FREE"
    <3> SUFFICES ASSUME NEW x \in D, a < x, x <= r PROVE h.status[x] = "FREE"
      OBVIOUS
    <3>1. b < x \/ x = b
      BY <2>1, <2>4
    <3> QED BY <2>1, <2>2, <3>1
  <2>6. PICK g \in E : g[1] <= a /\ a < g[2] /\ b + 3 <= g[2]
    BY <2>1, HomeExtent
  <2>7. e[1] \in Nat /\ e[2] \in Nat /\ g[1] \in Nat /\ g[2] \in Nat
    BY ExtentTypes DEF Chain
  <2>8. g = e
    <3>1. g[1] <= b /\ b < g[2] /\ b < e[2]
      BY <2>1, <2>2, <2>3, <2>4, <2>6, <2>7
    <3> QED BY <2>1, <2>3, <3>1, OneExtent DEF Chain
  <2>9. a <= r
    BY <2>1, <2>2, <2>4
  <2> QED BY <2>1, <2>2, <2>3, <2>5, <2>6, <2>8, <2>9
<1>10. \A a \in D : <<a, B[a]>> \in R
  <2>1. P \in SUBSET D
    OBVIOUS
  <2> HIDE DEF D, P, v, p, B, R, m
  <2> QED BY <1>3, <1>4, <1>7, <1>8, <1>9, <2>1, Along
<1>11. <<c, B[c]>> \in R
  BY <1>10
<1> HIDE DEF B
<1> QED BY <1>1, <1>11

(* What free merges with a chunk. *)
LEMMA NeighboursFacts ==
    ASSUME NEW h, NEW E, Chain(h, E, NULL, NULL), Listed(h),
           NEW c \in Chunks(h), h.next[c] # NULL
    PROVE  LET S     == FreeNeighbours(h, c)
               first == MinOf(S \union {c})
               last  == RunEnd(h, c)
           IN  /\ Span(h, E, first, last) /\ first <= c /\ c <= last
               /\ ~ FreeBefore(h, first) /\ ~ FreeAfter(h, last)
               /\ S \subseteq Chunks(h) /\ c \notin S
               /\ \A d \in Chunks(h) : first <= d /\ d <= last <=> d \in S \union {c}
               /\ \A d \in S : h.status[d] = "FREE"
<1> DEFINE S == FreeNeighbours(h, c)
           first == RunStart(h, c)
           last == RunEnd(h, c)
<1>1. /\ first \in Chunks(h) /\ first <= c /\ ~ FreeBefore(h, first)
      /\ \A x \in Chunks(h) : first < x /\ x <= c => FreeBefore(h, x)
  BY RunStartFacts
<1>2. /\ last \in Chunks(h) /\ c <= last /\ ~ FreeAfter(h, last)
      /\ \A x \in Chunks(h) : c < x /\ x <= last => h.status[x] = "FREE"
  BY RunEndFacts
<1>3. PICK e \in E : e[1] <= first /\ c < e[2]
  BY RunStartFacts
<1>4. PICK g \in E : g[1] <= c /\ last < g[2]
  BY RunEndFacts
<1>5. S = {d \in Chunks(h) : first <= d /\ d <= last} \ {c}
  BY DEF FreeNeighbours
<1>6. \A d \in Chunks(h) : d \in Nat /\ d # NULL
  BY ChainTypes
<1> HIDE DEF S, first, last
<1>7. e[1] \in Nat /\ e[2] \in Nat /\ g[1] \in Nat /\ g[2] \in Nat
  BY ExtentTypes DEF Chain
<1>8. e = g
  <2>1. e[1] <= c /\ c < g[2]
    BY <1>1, <1>2, <1>3, <1>4, <1>6, <1>7
  <2> QED BY <2>1, <1>3, <1>4, <1>6, OneExtent DEF Chain
<1>9. h.next[last] # NULL
  <2>1. CASE last = c
    BY <2>1
  <2>2. CASE last # c
    <3>1. c < last /\ last <= last
      BY <1>2, <1>6, <2>2
    <3>2. h.status[last] = "FREE"
      BY <1>2, <3>1
    <3> QED BY <1>2, <3>2 DEF Listed
  <2> QED BY <2>1, <2>2
<1>10. first <= last
  BY <1>1, <1>2, <1>6
<1>11. Span(h, E, first, last)
  BY <1>1, <1>2, <1>3, <1>4, <1>8, <1>9, <1>10 DEF Span
<1>12. \A d \in Chunks(h) : first <= d /\ d <= last <=> d \in S \union {c}
  BY <1>1, <1>2, <1>5
<1>13. MinOf(S \union {c}) = first
  <2>1. first \in S \union {c}
    BY <1>1, <1>10, <1>12, <1>6
  <2>2. \A y \in S \union {c} : first <= y /\ y \in Nat
    BY <1>1, <1>5, <1>6
  <2>3. \A x \in S \union {c} : (\A y \in S \union {c} : x <= y) => x = first
    BY <2>1, <2>2
  <2> QED BY <2>1, <2>2, <2>3 DEF MinOf
<1>14. ASSUME NEW d \in S PROVE h.status[d] = "FREE"
  <2>1. d \in Chunks(h) /\ d \in Nat /\ first <= d /\ d <= last /\ d # c
    BY <1>5, <1>6
  <2>2. CASE c < d
    BY <1>2, <2>1, <2>2
  <2>3. CASE d < c
    <3>1. h.next[d] # NULL
      BY <1>10, <1>11, <2>1, SpanFacts
    <3>2. /\ h.next[d] \in Chunks(h) /\ h.next[d] <= c /\ d < h.next[d]
          /\ h.prev[h.next[d]] = IF d = NULL THEN NULL ELSE d
      BY <2>1, <2>3, <3>1, <1>6, NextFacts
    <3>3. first < h.next[d]
      <4>1. first \in Nat /\ h.next[d] \in Nat
        BY <1>1, <1>6, <3>2
      <4> QED BY <2>1, <3>2, <4>1
    <3>4. FreeBefore(h, h.next[d])
      BY <1>1, <3>2, <3>3
    <3> QED BY <1>6, <2>1, <3>2, <3>4 DEF FreeBefore
  <2>4. c \in Nat
    BY <1>6
  <2>5. c < d \/ d < c
    BY <2>1, <2>4
  <2> QED BY <2>2, <2>3, <2>5
<1>15. S \subseteq Chunks(h) /\ c \notin S
  BY <1>5
<1> QED BY <1>1, <1>2, <1>11, <1>12, <1>13, <1>14, <1>15 DEF S, first, last

(* What realloc takes to grow a chunk. *)
LEMMA LastForSizeFacts ==
    ASSUME NEW h, NEW E, Chain(h, E, NULL, NULL), Listed(h),
           NEW c \in Chunks(h), h.next[c] # NULL, NEW size \in Nat,
           LastForSize(h, c, size) # NULL
    PROVE  LET r == LastForSize(h, c, size)
           IN  /\ Span(h, E, c, r)
               /\ \A x \in Chunks(h) : c < x /\ x <= r => h.status[x] = "FREE"
               /\ h.next[r] - c - 3 >= size
<1> DEFINE D == {d \in Chunks(h) : h.next[d] # NULL}
           enough(a) == InnerSize(h, c) + (h.next[a] - h.next[c]) >= size
           P == {a \in D : ~ enough(a) /\ h.status[h.next[a]] = "FREE"}
           p == h.next
           v == [a \in D |-> IF enough(a) THEN a ELSE NULL]
           m == [a \in D |-> MemoryEnd - a]
           B == CHOOSE last : last = [a \in {d \in Chunks(h) : h.next[d] # NULL} |->
                  IF InnerSize(h, c) + (h.next[a] - h.next[c]) >= size THEN a
                  ELSE IF h.status[h.next[a]] = "FREE" THEN last[h.next[a]] ELSE NULL]
           R == {q \in D \X (D \union {NULL}) :
                   q[2] # NULL =>
                   /\ q[1] <= q[2] /\ enough(q[2])
                   /\ \A x \in D : q[1] < x /\ x <= q[2] => h.status[x] = "FREE"
                   /\ \E e \in E : e[1] <= q[1] /\ q[2] < e[2]}
<1>1. LastForSize(h, c, size) = B[c]
  BY DEF LastForSize
<1>2. ASSUME NEW a \in P
      PROVE  /\ a \in D /\ p[a] \in D /\ a < p[a] /\ a \in Nat /\ p[a] \in Nat
             /\ h.status[p[a]] = "FREE"
             /\ \A d \in D : d <= a \/ p[a] <= d
  <2>1. /\ h.next[a] \in Chunks(h) /\ a < h.next[a] /\ a \in Nat /\ h.next[a] \in Nat
        /\ \A d \in Chunks(h) : d <= a \/ h.next[a] <= d
    BY NextFacts
  <2> QED BY <2>1 DEF Listed
<1>3. \A a \in D : a \in Nat /\ a # NULL /\ m[a] \in Nat
  <2> SUFFICES ASSUME NEW a \in D PROVE a \in Nat /\ a # NULL /\ MemoryEnd - a \in Nat
    OBVIOUS
  <2>1. PICK e \in E : Within(e, a)
    BY HomeExtent
  <2>2. a \in Nat /\ a <= MemoryEnd
    BY <2>1, ChainTypes, WithinFacts DEF Chain
  <2> QED BY <2>2, Memory
<1>4. \A a \in P : p[a] \in D /\ m[p[a]] < m[a]
  BY <1>2, Memory
<1>5. \E f : Follows(f, D, P, p, v)
  <2>1. P \in SUBSET D
    OBVIOUS
  <2> HIDE DEF D, P, v, p, m
  <2> QED BY <1>3, <1>4, <2>1, Recursion
<1>6. \A f : Follows(f, D, P, p, v) <=>
             f = [a \in {d \in Chunks(h) : h.next[d] # NULL} |->
                  IF InnerSize(h, c) + (h.next[a] - h.next[c]) >= size THEN a
                  ELSE IF h.status[h.next[a]] = "FREE" THEN f[h.next[a]] ELSE NULL]
  BY DEF Follows
<1>7. Follows(B, D, P, p, v)
  <2>1. \E last : last = [a \in {d \in Chunks(h) : h.next[d] # NULL} |->
                  IF InnerSize(h, c) + (h.next[a] - h.next[c]) >= size THEN a
                  ELSE IF h.status[h.next[a]] = "FREE" THEN last[h.next[a]] ELSE NULL]
    <3> HIDE DEF D, P, v, p
    <3> QED BY <1>5, <1>6, Zenon
  <2>2. B = [a \in {d \in Chunks(h) : h.next[d] # NULL} |->
                  IF InnerSize(h, c) + (h.next[a] - h.next[c]) >= size THEN a
                  ELSE IF h.status[h.next[a]] = "FREE" THEN B[h.next[a]] ELSE NULL]
    BY <2>1, Zenon
  <2> HIDE DEF B, D, P, v, p
  <2> QED BY <2>2, <1>6, Zenon
<1>8. \A a \in D \ P : <<a, v[a]>> \in R
  <2> SUFFICES ASSUME NEW a \in D \ P PROVE <<a, v[a]>> \in R
    OBVIOUS
  <2>1. a \in Nat /\ a # NULL /\ \A x \in D : x \in Nat
    BY <1>3
  <2>2. PICK e \in E : e[1] <= a /\ a < e[2]
    BY HomeExtent
  <2>3. CASE enough(a)
    <3>1. v[a] = a
      BY <2>3
    <3> HIDE DEF v, P, enough
    <3> QED BY <2>1, <2>2, <2>3, <3>1
  <2>4. CASE ~ enough(a)
    <3>1. v[a] = NULL
      BY <2>4
    <3> HIDE DEF v, P, enough
    <3> QED BY <3>1
  <2> QED BY <2>3, <2>4
<1>9. \A a \in P : \A r : <<p[a], r>> \in R => <<a, r>> \in R
  <2> SUFFICES ASSUME NEW a \in P, NEW r, <<p[a], r>> \in R, r # NULL PROVE <<a, r>> \in R
    OBVIOUS
  <2> DEFINE b == p[a]
  <2>1. /\ a \in D /\ b \in D /\ a < b /\ a \in Nat /\ b \in Nat /\ h.status[b] = "FREE"
        /\ h.next[a] = b /\ b # NULL
        /\ \A d \in D : d <= a \/ b <= d
    BY <1>2, <1>3
  <2> HIDE DEF b
  <2>2. /\ r \in D /\ b <= r /\ enough(r)
        /\ \A x \in D : b < x /\ x <= r => h.status[x] = "FREE"
    <3> HIDE DEF enough
    <3> QED BY DEF b
  <2>3. PICK e \in E : e[1] <= b /\ r < e[2]
    BY DEF b
  <2>4. r \in Nat /\ \A x \in D : x \in Nat
    BY <2>2, <1>3
  <2>5. \A x \in D : a < x /\ x <= r => h.status[x] = "FREE"
    <3> SUFFICES ASSUME NEW x \in D, a < x, x <= r PROVE h.status[x] = "FREE"
      OBVIOUS
    <3>1. b < x \/ x = b
      BY <2>1, <2>4
    <3> QED BY <2>1, <2>2, <3>1
  <2>6. PICK g \in E : g[1] <= a /\ a < g[2] /\ b + 3 <= g[2]
    BY <2>1, HomeExtent
  <2>7. e[1] \in Nat /\ e[2] \in Nat /\ g[1] \in Nat /\ g[2] \in Nat
    BY ExtentTypes DEF Chain
  <2>8. g = e
    <3>1. g[1] <= b /\ b < g[2] /\ b < e[2]
      BY <2>1, <2>2, <2>3, <2>4, <2>6, <2>7
    <3> QED BY <2>1, <2>3, <3>1, OneExtent DEF Chain
  <2>9. a <= r
    BY <2>1, <2>2, <2>4
  <2> HIDE DEF enough
  <2> QED BY <2>1, <2>2, <2>3, <2>5, <2>6, <2>8, <2>9
<1>10. \A a \in D : <<a, B[a]>> \in R
  <2>1. P \in SUBSET D
    OBVIOUS
  <2> HIDE DEF D, P, v, p, B, R, m
  <2> QED BY <1>3, <1>4, <1>7, <1>8, <1>9, <2>1, Along
<1>11. <<c, B[c]>> \in R
  BY <1>10
<1> DEFINE r == B[c]
<1> HIDE DEF B, r
<1>12. /\ r \in D /\ c <= r /\ enough(r)
       /\ \A x \in D : c < x /\ x <= r => h.status[x] = "FREE"
       /\ \E e \in E : e[1] <= c /\ r < e[2]
  <2> HIDE DEF enough
  <2> QED BY <1>1, <1>11 DEF r
<1>13. Span(h, E, c, r)
  BY <1>12 DEF Span
<1>14. /\ InnerSize(h, c) = h.next[c] - c - 3 /\ h.next[c] \in Nat /\ c \in Nat
       /\ h.next[r] \in Nat
  BY <1>12, NextFacts
<1>15. h.next[r] - c - 3 >= size
  BY <1>12, <1>14
<1>16. ASSUME NEW x \in Chunks(h), c < x, x <= r PROVE h.status[x] = "FREE"
  <2>1. x \in D
    <3>1. x \in Nat
      <4> HIDE DEF D, P, p, v, m, R, enough
      <4> QED BY ChainTypes
    <3>2. c <= x
      <4> HIDE DEF D, P, p, v, m, R, enough
      <4> QED BY <1>14, <1>16, <3>1
    <3> QED BY <1>13, <1>16, <3>2, SpanFacts
  <2> QED BY <1>12, <1>16, <2>1
<1> QED BY <1>1, <1>13, <1>15, <1>16 DEF r

-----------------------------------------------------------------------------
(* The free lists *)

Distinct(s) == \A k \in 1 .. Len(s), l \in 1 .. Len(s) : s[k] = s[l] => k = l

LEMMA AppendTo ==
    ASSUME NEW T, NEW s \in Seq(T), NEW x \in T
    PROVE  /\ Append(s, x) \in Seq(T) /\ Len(Append(s, x)) = Len(s) + 1 /\ Len(s) \in Nat
           /\ Append(s, x)[Len(s) + 1] = x
           /\ \A k \in 1 .. Len(s) : Append(s, x)[k] = s[k]
OBVIOUS

LEMMA WithoutFacts ==
    ASSUME NEW T, NEW list \in Seq(T), NEW S
    PROVE  LET w == Without(list, S)
           IN  /\ w \in Seq(T)
               /\ \A k \in 1 .. Len(w) : w[k] \notin S /\ \E j \in 1 .. Len(list) : list[j] = w[k]
               /\ \A j \in 1 .. Len(list) : list[j] \notin S => \E k \in 1 .. Len(w) : w[k] = list[j]
               /\ Distinct(list) => Distinct(w)
<1> DEFINE N == Len(list)
           Next1(g, n) == IF n = 0 THEN <<>>
                          ELSE IF list[n] \in S THEN g[n - 1] ELSE Append(g[n - 1], list[n])
           Approx(n, g) == g = [k \in 0 .. n |-> Next1(g, k)]
           K == CHOOSE kept : kept = [n \in 0 .. Len(list) |->
                  IF n = 0 THEN <<>>
                  ELSE IF list[n] \in S THEN kept[n - 1] ELSE Append(kept[n - 1], list[n])]
<1>1. Without(list, S) = K[N]
  BY DEF Without
<1>2. N \in Nat /\ \A j \in 1 .. N : list[j] \in T
  OBVIOUS
<1> HIDE DEF N
<1>3. ASSUME NEW n \in Nat PROVE \E g : Approx(n, g)
  <2> DEFINE Bad == {k \in Nat : ~ \E g : Approx(k, g)}
  <2> SUFFICES ASSUME Bad # {} PROVE FALSE
    BY Zenon
  <2>1. PICK k \in Bad : \A x \in Bad : k <= x
    <3>1. Bad \in SUBSET Nat
      OBVIOUS
    <3> HIDE DEF Bad
    <3> QED BY <3>1, LeastElement
  <2>2. PICK g : k = 0 \/ Approx(k - 1, g)
    <3>1. CASE k = 0
      BY <3>1
    <3>2. CASE k # 0
      <4>1. k - 1 \in Nat /\ ~ k <= k - 1
        BY <3>2
      <4>2. k - 1 \notin Bad
        BY <4>1, <2>1
      <4>3. \E g : Approx(k - 1, g)
        BY <4>1, <4>2, Zenon
      <4> QED BY <4>3, Zenon
    <3> QED BY <3>1, <3>2
  <2> DEFINE f == [a \in 0 .. k |-> Next1(g, a)]
  <2>3. ASSUME NEW a \in 0 .. k, a # 0 PROVE f[a - 1] = g[a - 1]
    <3>1. a - 1 \in 0 .. k /\ a - 1 \in 0 .. (k - 1) /\ k # 0
      BY <2>3
    <3>2. g = [x \in 0 .. (k - 1) |-> Next1(g, x)]
      BY <2>2, <3>1
    <3>3. g[a - 1] = Next1(g, a - 1)
      <4> HIDE DEF Next1
      <4> QED BY <3>1, <3>2
    <3>4. f[a - 1] = Next1(g, a - 1)
      <4> HIDE DEF Next1
      <4> QED BY <3>1
    <3> QED BY <3>3, <3>4
  <2>4. \A a \in 0 .. k : Next1(g, a) = Next1(f, a)
    <3> SUFFICES ASSUME NEW a \in 0 .. k PROVE Next1(g, a) = Next1(f, a)
      OBVIOUS
    <3>1. CASE a = 0
      BY <3>1
    <3>2. CASE a # 0
      <4>1. f[a - 1] = g[a - 1]
        BY <2>3, <3>2
      <4> HIDE DEF f
      <4> QED BY <4>1, <3>2
    <3> QED BY <3>1, <3>2
  <2>5. f = [a \in 0 .. k |-> Next1(f, a)]
    <3> HIDE DEF Next1
    <3> QED BY <2>4
  <2>6. Approx(k, f)
    BY <2>5, Zenon
  <2> QED BY <2>1, <2>6, Zenon
<1>4. Approx(N, K)
  <2>1. \E kept : Approx(N, kept)
    BY <1>2, <1>3
  <2>2. K = CHOOSE kept : Approx(N, kept)
    BY DEF N
  <2> HIDE DEF K, Approx
  <2> QED BY <2>1, <2>2, Zenon
<1> HIDE DEF K
<1>5. K[0] = <<>> /\ \A n \in 1 .. N : K[n] = IF list[n] \in S THEN K[n - 1] ELSE Append(K[n - 1], list[n])
  <2>1. \A n \in 0 .. N : K[n] = Next1(K, n)
    <3> HIDE DEF Next1
    <3> QED BY <1>4
  <2>2. 0 \in 0 .. N /\ \A n \in 1 .. N : n \in 0 .. N /\ n # 0
    BY <1>2
  <2> QED BY <2>1, <2>2
<1> DEFINE Good(n) ==
             /\ K[n] \in Seq(T)
             /\ \A k \in 1 .. Len(K[n]) : K[n][k] \notin S /\ \E j \in 1 .. n : list[j] = K[n][k]
             /\ \A j \in 1 .. n : list[j] \notin S => \E k \in 1 .. Len(K[n]) : K[n][k] = list[j]
             /\ Distinct(list) => Distinct(K[n])
           Bad == {n \in 0 .. N : ~ Good(n)}
<1>6. Good(0)
  BY <1>5 DEF Distinct
<1>7. ASSUME NEW n \in 1 .. N, Good(n - 1) PROVE Good(n)
  <2> DEFINE s == K[n - 1]
             x == list[n]
             t == K[n]
  <2>1. n \in Nat /\ n - 1 \in Nat /\ (1 .. n) = (1 .. (n - 1)) \union {n} /\ n \notin 1 .. (n - 1)
    BY <1>2
  <2>2. /\ s \in Seq(T) /\ Len(s) \in Nat
        /\ \A k \in 1 .. Len(s) : s[k] \notin S /\ \E j \in 1 .. (n - 1) : list[j] = s[k]
        /\ \A j \in 1 .. (n - 1) : list[j] \notin S => \E k \in 1 .. Len(s) : s[k] = list[j]
        /\ Distinct(list) => Distinct(s)
    BY <1>7
  <2>3. x \in T /\ t = IF x \in S THEN s ELSE Append(s, x)
    BY <1>2, <1>5
  <2> HIDE DEF s, t
  <2>4. CASE x \in S
    <3>1. t = s
      BY <2>3, <2>4
    <3> SUFFICES /\ s \in Seq(T)
                 /\ \A k \in 1 .. Len(s) : s[k] \notin S /\ \E j \in 1 .. n : list[j] = s[k]
                 /\ \A j \in 1 .. n : list[j] \notin S => \E k \in 1 .. Len(s) : s[k] = list[j]
                 /\ Distinct(list) => Distinct(s)
      BY <3>1 DEF t
    <3>2. \A j \in 1 .. n : list[j] \notin S => j \in 1 .. (n - 1)
      BY <2>1, <2>4
    <3>3. \A j \in 1 .. (n - 1) : j \in 1 .. n
      BY <2>1
    <3> HIDE DEF x
    <3> QED BY <2>2, <3>2, <3>3
  <2>5. CASE x \notin S
    <3>1. /\ t \in Seq(T) /\ Len(t) = Len(s) + 1 /\ t[Len(s) + 1] = x
          /\ \A k \in 1 .. Len(s) : t[k] = s[k]
      BY <2>2, <2>3, <2>5, AppendTo
    <3>2. \A k \in 1 .. Len(t) : k = Len(t) \/ k \in 1 .. Len(s)
      BY <2>2, <3>1
    <3>3. /\ \A k \in 1 .. Len(s) : k \in 1 .. Len(t) /\ k # Len(t)
          /\ Len(t) \in 1 .. Len(t) /\ t[Len(t)] = x
      BY <2>2, <3>1
    <3>4. \A k \in 1 .. Len(t) : t[k] \notin S /\ \E j \in 1 .. n : list[j] = t[k]
      <4> SUFFICES ASSUME NEW k \in 1 .. Len(t)
                   PROVE  t[k] \notin S /\ \E j \in 1 .. n : list[j] = t[k]
        OBVIOUS
      <4>1. CASE k = Len(t)
        <5>1. n \in 1 .. n
          BY <2>1
        <5> QED BY <2>5, <3>3, <4>1, <5>1
      <4>2. CASE k \in 1 .. Len(s)
        <5>1. t[k] = s[k]
          BY <3>1, <4>2
        <5>2. PICK j \in 1 .. (n - 1) : list[j] = s[k]
          BY <2>2, <4>2
        <5>3. j \in 1 .. n
          BY <2>1
        <5> QED BY <2>2, <4>2, <5>1, <5>2, <5>3
      <4> QED BY <3>2, <4>1, <4>2
    <3>5. \A j \in 1 .. n : list[j] \notin S => \E k \in 1 .. Len(t) : t[k] = list[j]
      <4> SUFFICES ASSUME NEW j \in 1 .. n, list[j] \notin S PROVE \E k \in 1 .. Len(t) : t[k] = list[j]
        OBVIOUS
      <4>1. CASE j = n
        BY <3>3, <4>1
      <4>2. CASE j \in 1 .. (n - 1)
        <5>1. PICK k \in 1 .. Len(s) : s[k] = list[j]
          BY <2>2, <4>2
        <5> QED BY <3>1, <3>3, <5>1
      <4> QED BY <2>1, <4>1, <4>2
    <3>6. ASSUME Distinct(list) PROVE Distinct(t)
      <4>1. Distinct(s)
        BY <2>2, <3>6
      <4>2. ASSUME NEW k \in 1 .. Len(s) PROVE s[k] # x
        <5>1. PICK j \in 1 .. (n - 1) : list[j] = s[k]
          BY <2>2
        <5>2. j # n /\ j \in 1 .. N
          BY <2>1, <1>2
        <5> QED BY <3>6, <5>1, <5>2 DEF Distinct, N
      <4> SUFFICES ASSUME NEW k \in 1 .. Len(t), NEW l \in 1 .. Len(t), t[k] = t[l]
                   PROVE  k = l
        BY DEF Distinct
      <4>3. CASE k \in 1 .. Len(s) /\ l \in 1 .. Len(s)
        BY <3>1, <4>1, <4>3 DEF Distinct
      <4>4. CASE k = Len(t)
        BY <3>1, <3>2, <3>3, <4>2, <4>4
      <4>5. CASE l = Len(t)
        BY <3>1, <3>2, <3>3, <4>2, <4>5
      <4> QED BY <3>2, <4>3, <4>4, <4>5
    <3> HIDE DEF x
    <3> QED BY <3>1, <3>4, <3>5, <3>6 DEF t
  <2> QED BY <2>4, <2>5
<1>8. Good(N)
  <2> SUFFICES ASSUME Bad # {} PROVE FALSE
    <3>1. N \in 0 .. N
      BY <1>2
    <3> HIDE DEF Good
    <3> QED BY <3>1
  <2>1. PICK n \in Bad : \A x \in Bad : n <= x
    <3>1. Bad \in SUBSET Nat
      <4> HIDE DEF Good
      <4> QED BY <1>2
    <3> HIDE DEF Bad
    <3> QED BY <3>1, LeastElement
  <2> HIDE DEF Good
  <2>2. n \in 0 .. N /\ ~ Good(n) /\ n # 0
    BY <1>6
  <2>3. n \in 1 .. N /\ n - 1 \in 0 .. N /\ ~ n <= n - 1
    BY <1>2, <2>2
  <2>4. Good(n - 1)
    BY <2>1, <2>3
  <2> QED BY <1>7, <2>2, <2>3, <2>4
<1> QED BY <1>1, <1>8 DEF N

LEMMA PoolUpdate ==
    ASSUME NEW h, HeapShape(h), NEW s, NEW l, NEW f
    PROVE  [h EXCEPT !.status = s, !.lists = l, !.filled = f] =
             [next |-> h.next, prev |-> h.prev, status |-> s, lists |-> l, filled |-> f]
<1>1. PICK hn, hp, hs, hl, hf :
        h = [next |-> hn, prev |-> hp, status |-> hs, lists |-> hl, filled |-> hf]
  BY DEF HeapShape
<1>2. h.next = hn /\ h.prev = hp
  BY <1>1
<1>3. [h EXCEPT !.status = s] =
        [next |-> hn, prev |-> hp, status |-> s, lists |-> hl, filled |-> hf]
  BY <1>1
<1>4. [[h EXCEPT !.status = s] EXCEPT !.lists = l] =
        [next |-> hn, prev |-> hp, status |-> s, lists |-> l, filled |-> hf]
  <2> DEFINE g == [h EXCEPT !.status = s]
  <2>1. g = [next |-> hn, prev |-> hp, status |-> s, lists |-> hl, filled |-> hf]
    BY <1>3
  <2> HIDE DEF g
  <2>2. [g EXCEPT !.lists = l] = [next |-> hn, prev |-> hp, status |-> s, lists |-> l, filled |-> hf]
    BY <2>1
  <2> QED BY <2>2 DEF g
<1>5. [[[h EXCEPT !.status = s] EXCEPT !.lists = l] EXCEPT !.filled = f] =
        [next |-> hn, prev |-> hp, status |-> s, lists |-> l, filled |-> f]
  <2> DEFINE g == [[h EXCEPT !.status = s] EXCEPT !.lists = l]
  <2>1. g = [next |-> hn, prev |-> hp, status |-> s, lists |-> l, filled |-> hf]
    BY <1>4
  <2> HIDE DEF g
  <2>2. [g EXCEPT !.filled = f] = [next |-> hn, prev |-> hp, status |-> s, lists |-> l, filled |-> f]
    BY <2>1
  <2> QED BY <2>2 DEF g
<1>6. [h EXCEPT !.status = s, !.lists = l, !.filled = f] =
        [[[h EXCEPT !.status = s] EXCEPT !.lists = l] EXCEPT !.filled = f]
  BY Zenon
<1> QED BY <1>2, <1>5, <1>6

(* Chunks taken out of the lists become allocated; nothing else changes.    *)
LEMMA RemoveFacts ==
    ASSUME NEW h, NEW E, NEW u, NEW v, Chain(h, E, u, v), Pool(h),
           NEW S \in SUBSET Chunks(h), \A c \in S : h.status[c] = "FREE"
    PROVE  LET g == Remove(h, S)
           IN  /\ Chain(g, E, u, v) /\ Pool(g)
               /\ Chunks(g) = Chunks(h) /\ g.next = h.next /\ g.prev = h.prev
               /\ \A c \in Chunks(h) : g.status[c] = IF c \in S THEN "ALLOCATED" ELSE h.status[c]
<1> DEFINE g == Remove(h, S)
           w == [i \in Lists |-> Without(h.lists[i], S)]
           s == [c \in Chunks(h) |-> IF c \in S THEN "ALLOCATED" ELSE h.status[c]]
           f == [i \in Lists |-> h.filled[i] /\ (w[i] # <<>> \/ h.lists[i] = <<>>)]
<1>1. HeapShape(h)
  BY DEF Chain
<1>2. g = [next |-> h.next, prev |-> h.prev, status |-> s, lists |-> w, filled |-> f]
  <2>1. f = [i \in Lists |-> h.filled[i] /\ (Without(h.lists[i], S) # <<>> \/ h.lists[i] = <<>>)]
    OBVIOUS
  <2> HIDE DEF f
  <2>2. g = [h EXCEPT !.status = s, !.lists = w, !.filled = f]
    BY <2>1 DEF Remove, Chunks
  <2> HIDE DEF g, s, w
  <2> QED BY <1>1, <2>2, PoolUpdate
<1>3. /\ g.next = h.next /\ g.prev = h.prev /\ g.status = s /\ g.lists = w /\ g.filled = f
      /\ Chunks(g) = Chunks(h)
  BY <1>2 DEF Chunks
<1>4. \A c \in Chunks(h) : s[c] = IF c \in S THEN "ALLOCATED" ELSE h.status[c]
  OBVIOUS
<1>5. s \in [Chunks(h) -> {"FREE", "ALLOCATED"}]
  BY <1>1 DEF HeapShape
<1> HIDE DEF g, s
<1>6. HeapShape(g)
  BY <1>1, <1>2, <1>3, <1>5 DEF HeapShape
<1>7. Chain(g, E, u, v)
  BY <1>3, <1>6, ChainSame
<1>8. \A c : InnerSize(g, c) = InnerSize(h, c)
  BY <1>3 DEF InnerSize
<1>9. ASSUME NEW i \in Lists
      PROVE  /\ w[i] \in Seq(Chunks(h))
             /\ \A k \in 1 .. Len(w[i]) :
                  w[i][k] \notin S /\ \E j \in 1 .. Len(h.lists[i]) : h.lists[i][j] = w[i][k]
             /\ \A j \in 1 .. Len(h.lists[i]) : h.lists[i][j] \notin S =>
                  \E k \in 1 .. Len(w[i]) : w[i][k] = h.lists[i][j]
             /\ Distinct(w[i])
  <2>1. h.lists[i] \in Seq(Chunks(h)) /\ Distinct(h.lists[i])
    BY DEF Pool, Listed, Distinct
  <2> QED BY <2>1, WithoutFacts
<1> HIDE DEF w
<1>10. Listed(g)
  <2>1. w \in [Lists -> Seq(Chunks(h))]
    <3>1. w = [i \in Lists |-> w[i]]
      BY DEF w
    <3> QED BY <1>9, <3>1
  <2>2. ASSUME NEW i \in Lists, NEW k \in 1 .. Len(w[i])
        PROVE  s[w[i][k]] = "FREE" /\ InClass(i, InnerSize(h, w[i][k]))
    <3>1. PICK j \in 1 .. Len(h.lists[i]) : h.lists[i][j] = w[i][k]
      BY <1>9
    <3>2. w[i][k] \notin S /\ w[i][k] \in Chunks(h)
      BY <1>9
    <3>3. h.status[w[i][k]] = "FREE" /\ InClass(i, InnerSize(h, w[i][k]))
      BY <3>1 DEF Pool, Listed
    <3> QED BY <1>4, <3>2, <3>3
  <2>3. ASSUME NEW c \in Chunks(h), s[c] = "FREE"
        PROVE  h.next[c] # NULL /\ \E i \in Lists : \E k \in 1 .. Len(w[i]) : w[i][k] = c
    <3>1. c \notin S /\ h.status[c] = "FREE"
      BY <1>4, <2>3
    <3>2. PICK i \in Lists : \E k \in 1 .. Len(h.lists[i]) : h.lists[i][k] = c
      BY <3>1 DEF Pool, Listed
    <3>3. h.next[c] # NULL
      BY <3>1 DEF Pool, Listed
    <3> QED BY <1>9, <3>1, <3>2, <3>3
  <2>4. ASSUME NEW i \in Lists, NEW j \in Lists,
               NEW k \in 1 .. Len(w[i]), NEW l \in 1 .. Len(w[j]), w[i][k] = w[j][l]
        PROVE  i = j /\ k = l
    <3>1. PICK k1 \in 1 .. Len(h.lists[i]) : h.lists[i][k1] = w[i][k]
      BY <1>9
    <3>2. PICK l1 \in 1 .. Len(h.lists[j]) : h.lists[j][l1] = w[j][l]
      BY <1>9
    <3>3. i = j
      BY <2>4, <3>1, <3>2 DEF Pool, Listed
    <3>4. Distinct(w[i])
      BY <1>9
    <3> QED BY <2>4, <3>3, <3>4 DEF Distinct
  <2> QED BY <1>3, <1>8, <2>1, <2>2, <2>3, <2>4 DEF Listed
<1>11. Flagged(g)
  <2> SUFFICES ASSUME NEW i \in Lists PROVE f[i] \in BOOLEAN /\ (f[i] <=> w[i] # <<>>)
    <3>1. f \in [Lists -> BOOLEAN]
      BY DEF Pool, Flagged
    <3> HIDE DEF f
    <3> QED BY <1>3, <3>1 DEF Flagged
  <2>1. h.filled[i] \in BOOLEAN /\ (h.filled[i] <=> h.lists[i] # <<>>)
    BY DEF Pool, Flagged
  <2>2. h.lists[i] = <<>> => w[i] = <<>>
    <3>1. ASSUME h.lists[i] = <<>>, w[i] # <<>> PROVE FALSE
      <4>1. 1 \in 1 .. Len(w[i])
        <5>1. w[i] \in Seq(Chunks(h))
          BY <1>9
        <5> QED BY <3>1, <5>1
      <4>2. \E j \in 1 .. Len(h.lists[i]) : h.lists[i][j] = w[i][1]
        BY <1>9, <4>1
      <4>3. Len(h.lists[i]) = 0
        BY <3>1
      <4> QED BY <4>2, <4>3
    <3> QED BY <3>1
  <2>3. f[i] = (h.filled[i] /\ (w[i] # <<>> \/ h.lists[i] = <<>>))
    BY DEF f
  <2> QED BY <2>1, <2>2, <2>3
<1> QED BY <1>3, <1>4, <1>7, <1>10, <1>11 DEF g, Pool

(* The list of a size is of its class. *)
LEMMA ListOfFacts ==
    ASSUME NEW size \in Nat, size <= Unlimited
    PROVE  /\ GetFreeList(size) \in Lists
           /\ Sizes[GetFreeList(size)] >= size
           /\ \A j \in Lists : j < GetFreeList(size) => Sizes[j] < size
           /\ ListOf(size) \in Lists /\ InClass(ListOf(size), size)
<1> DEFINE i == GetFreeList(size)
           G(k) == Sizes[k] >= size /\ \A j \in 1 .. (k - 1) : Sizes[j] < size
<1>1. \E k \in Lists : G(k)
  <2> DEFINE S == {k \in Lists : Sizes[k] >= size}
  <2>1. Len(Sizes) \in S
    BY Classes
  <2>2. PICK k \in S : \A x \in S : k <= x
    <3>1. S \in SUBSET Nat
      BY Classes
    <3> HIDE DEF S
    <3> QED BY <2>1, <3>1, LeastElement
  <2>3. k \in Lists /\ k \in Nat /\ Sizes[k] >= size
    BY Classes
  <2>4. ASSUME NEW j \in 1 .. (k - 1) PROVE Sizes[j] < size
    <3>1. j \in Lists /\ ~ k <= j
      BY <2>3, Classes
    <3>2. j \notin S
      BY <2>2, <3>1
    <3> QED BY <3>1, <3>2, Classes
  <2> QED BY <2>3, <2>4
<1>2. i \in Lists /\ G(i)
  <2>1. i = CHOOSE k \in Lists : G(k)
    BY DEF GetFreeList
  <2> HIDE DEF G, i
  <2> QED BY <1>1, <2>1
<1> DEFINE r == ListOf(size)
<1>3. r = IF i # 1 /\ Sizes[i] # Unlimited /\ Sizes[i] # size THEN i - 1 ELSE i
  BY DEF ListOf
<1> HIDE DEF i, r
<1>4. i \in Nat /\ i >= 1 /\ i <= Len(Sizes) /\ Len(Sizes) \in Nat /\ Len(Sizes) > 1
  BY <1>2, Classes
<1>5. \A j \in Lists : j < i => Sizes[j] < size
  <2> SUFFICES ASSUME NEW j \in Lists, j < i PROVE Sizes[j] < size
    OBVIOUS
  <2>1. j \in 1 .. (i - 1)
    BY <1>4, Classes
  <2> QED BY <1>2, <2>1
<1>6. Sizes[i] \in Nat /\ (i < Len(Sizes) => i + 1 \in Lists /\ Sizes[i] < Sizes[i + 1] /\ Sizes[i + 1] \in Nat)
  BY <1>2, <1>4, Classes
<1>7. CASE i # 1 /\ Sizes[i] # Unlimited /\ Sizes[i] # size
  <2>1. r = i - 1 /\ r \in Lists /\ r < i /\ r + 1 = i
    BY <1>3, <1>4, <1>7, Classes
  <2>2. Sizes[r] < size /\ Sizes[r] \in Nat
    BY <1>5, <2>1, Classes
  <2>3. size < Sizes[r + 1]
    BY <1>2, <1>6, <1>7, <2>1
  <2>4. Sizes[r] <= size
    BY <2>2
  <2> QED BY <1>2, <1>5, <2>1, <2>3, <2>4 DEF InClass, i, r
<1>8. CASE ~ (i # 1 /\ Sizes[i] # Unlimited /\ Sizes[i] # size)
  <2>1. r = i
    BY <1>3, <1>8
  <2>2. i # 1 => Sizes[i] <= size \/ Sizes[i] = Unlimited
    BY <1>6, <1>8
  <2>3. i < Len(Sizes) => size < Sizes[i + 1]
    BY <1>2, <1>6
  <2> QED BY <1>2, <1>5, <2>1, <2>2, <2>3 DEF InClass, i, r
<1> QED BY <1>7, <1>8

(* An allocated chunk joins a list. *)
LEMMA InsertFacts ==
    ASSUME NEW h, NEW E, NEW u, NEW v, Chain(h, E, u, v), Pool(h),
           NEW c \in Chunks(h), h.status[c] = "ALLOCATED", h.next[c] # NULL,
           NEW mode \in {"FIFO", "LIFO"}
    PROVE  LET g == Insert(h, c, mode)
           IN  /\ Chain(g, E, u, v) /\ Pool(g)
               /\ Chunks(g) = Chunks(h) /\ g.next = h.next /\ g.prev = h.prev
               /\ g.status[c] = "FREE"
               /\ \A d \in Chunks(h) : d # c => g.status[d] = h.status[d]
<1> DEFINE g == Insert(h, c, mode)
           size == InnerSize(h, c)
           i == ListOf(size)
           old == h.lists[i]
           new == IF mode = "FIFO" THEN <<c>> \o old ELSE Append(old, c)
           s == [h.status EXCEPT ![c] = "FREE"]
           w == [h.lists EXCEPT ![i] = new]
           f == [h.filled EXCEPT ![i] = TRUE]
<1>1. HeapShape(h)
  BY DEF Chain
<1>2. size \in Nat /\ size <= Unlimited /\ c \in Nat
  <2>1. PICK e \in E : Within(e, c) /\ h.next[c] + 3 <= e[2]
    BY HomeExtent
  <2>2. e[1] \in Nat /\ e[2] \in Nat /\ e[2] <= MemoryEnd
    BY ExtentTypes DEF Chain
  <2>3. size = h.next[c] - c - 3 /\ size \in Nat /\ h.next[c] \in Nat /\ c \in Nat
    BY NextFacts
  <2>4. MemoryEnd \in Nat /\ MemoryEnd < Unlimited /\ Unlimited \in Nat
    BY Classes, Memory
  <2> HIDE DEF g, size, i, old, new, s, w, f
  <2> QED BY <2>1, <2>2, <2>3, <2>4
<1>3. i \in Lists /\ InClass(i, size)
  BY <1>2, ListOfFacts
<1>4. g = [next |-> h.next, prev |-> h.prev, status |-> s, lists |-> w, filled |-> f]
  <2>1. g = [h EXCEPT !.status = s, !.lists = w, !.filled = f]
    BY DEF Insert
  <2> HIDE DEF g, s, w, f
  <2> QED BY <1>1, <2>1, PoolUpdate
<1>5. /\ g.next = h.next /\ g.prev = h.prev /\ g.status = s /\ g.lists = w /\ g.filled = f
  BY <1>4
<1>6. Chunks(g) = Chunks(h)
  BY <1>5 DEF Chunks
<1>7. s[c] = "FREE" /\ \A d \in Chunks(h) : d # c => s[d] = h.status[d]
  BY <1>1 DEF HeapShape
<1>8. s \in [Chunks(h) -> {"FREE", "ALLOCATED"}]
  BY <1>1 DEF HeapShape
<1> HIDE DEF g, s
<1>9. HeapShape(g)
  BY <1>1, <1>4, <1>5, <1>6, <1>8 DEF HeapShape
<1>10. Chain(g, E, u, v)
  BY <1>5, <1>6, <1>9, ChainSame
<1>11. \A d : InnerSize(g, d) = InnerSize(h, d)
  BY <1>5 DEF InnerSize
<1>12. /\ w[i] = new /\ \A j \in Lists : j # i => w[j] = h.lists[j]
       /\ DOMAIN w = Lists /\ w = [j \in Lists |-> w[j]]
  BY <1>3 DEF Pool, Listed
<1> HIDE DEF size, i, w
<1>13. PICK at \in 1 .. Len(new) :
         /\ new \in Seq(Chunks(h)) /\ new # <<>> /\ new[at] = c
         /\ \A k \in 1 .. Len(new) : k # at => \E l \in 1 .. Len(old) : new[k] = old[l]
         /\ \A l \in 1 .. Len(old) : \E k \in 1 .. Len(new) : k # at /\ new[k] = old[l]
         /\ Distinct(old) => \A k \in 1 .. Len(new), l \in 1 .. Len(new) :
                               k # at /\ l # at /\ new[k] = new[l] => k = l
  <2>1. old \in Seq(Chunks(h)) /\ Len(old) \in Nat
    BY <1>3 DEF Pool, Listed
  <2> HIDE DEF old
  <2>2. CASE mode = "FIFO"
    <3>1. new = <<c>> \o old
      BY <2>2
    <3>2. /\ new \in Seq(Chunks(h)) /\ Len(new) = Len(old) + 1 /\ new[1] = c
          /\ \A l \in 1 .. Len(old) : new[l + 1] = old[l]
      BY <2>1, <3>1
    <3> HIDE DEF new
    <3>3. 1 \in 1 .. Len(new) /\ new # <<>>
      BY <2>1, <3>2
    <3>4. \A k \in 1 .. Len(new) : k # 1 =>
            k - 1 \in 1 .. Len(old) /\ new[k] = old[k - 1] /\ k \in Nat
      <4> SUFFICES ASSUME NEW k \in 1 .. Len(new), k # 1
                   PROVE  k - 1 \in 1 .. Len(old) /\ new[k] = old[k - 1] /\ k \in Nat
        OBVIOUS
      <4>1. k - 1 \in 1 .. Len(old) /\ (k - 1) + 1 = k /\ k \in Nat
        BY <2>1, <3>2
      <4> QED BY <3>2, <4>1
    <3>5. \A l \in 1 .. Len(old) : l + 1 \in 1 .. Len(new) /\ l + 1 # 1 /\ new[l + 1] = old[l]
      BY <2>1, <3>2
    <3>6. ASSUME Distinct(old), NEW k \in 1 .. Len(new), NEW l \in 1 .. Len(new),
                 k # 1, l # 1, new[k] = new[l]
          PROVE  k = l
      <4>1. k - 1 = l - 1 /\ k \in Nat /\ l \in Nat
        BY <3>4, <3>6 DEF Distinct
      <4> QED BY <4>1
    <3> QED BY <3>2, <3>3, <3>4, <3>5, <3>6
  <2>3. CASE mode = "LIFO"
    <3>1. new = Append(old, c)
      BY <2>3
    <3>2. /\ new \in Seq(Chunks(h)) /\ Len(new) = Len(old) + 1 /\ new[Len(old) + 1] = c
          /\ \A l \in 1 .. Len(old) : new[l] = old[l]
      BY <2>1, <3>1, AppendTo
    <3> HIDE DEF new
    <3> DEFINE at == Len(old) + 1
    <3>3. at \in 1 .. Len(new) /\ new # <<>>
      BY <2>1, <3>2
    <3>4. \A k \in 1 .. Len(new) : k # at => k \in 1 .. Len(old) /\ new[k] = old[k]
      <4> SUFFICES ASSUME NEW k \in 1 .. Len(new), k # at
                   PROVE  k \in 1 .. Len(old) /\ new[k] = old[k]
        OBVIOUS
      <4>1. k \in 1 .. Len(old)
        BY <2>1, <3>2
      <4> QED BY <3>2, <4>1
    <3>5. \A l \in 1 .. Len(old) : l \in 1 .. Len(new) /\ l # at /\ new[l] = old[l]
      BY <2>1, <3>2
    <3>6. ASSUME Distinct(old), NEW k \in 1 .. Len(new), NEW l \in 1 .. Len(new),
                 k # at, l # at, new[k] = new[l]
          PROVE  k = l
      BY <3>4, <3>6 DEF Distinct
    <3> HIDE DEF at
    <3> QED BY <3>2, <3>3, <3>4, <3>5, <3>6 DEF at
  <2> QED BY <2>2, <2>3
<1> HIDE DEF new
<1>14. ASSUME NEW j \in Lists, NEW l \in 1 .. Len(h.lists[j]) PROVE h.lists[j][l] # c
  BY DEF Pool, Listed
<1>15. ASSUME NEW j \in Lists, NEW k \in 1 .. Len(w[j])
       PROVE  \/ j = i /\ k = at /\ w[j][k] = c
              \/ /\ w[j][k] # c /\ ~ (j = i /\ k = at)
                 /\ \E l \in 1 .. Len(h.lists[j]) : w[j][k] = h.lists[j][l]
  <2>1. CASE j # i
    <3>1. w[j] = h.lists[j]
      BY <1>12, <2>1
    <3> QED BY <1>14, <2>1, <3>1
  <2>2. CASE j = i /\ k = at
    BY <1>12, <1>13, <2>2
  <2>3. CASE j = i /\ k # at
    <3>1. w[j] = new
      BY <1>12, <2>3
    <3>2. PICK l \in 1 .. Len(old) : new[k] = old[l]
      BY <1>13, <2>3, <3>1
    <3> QED BY <1>14, <2>3, <3>1, <3>2
  <2> QED BY <2>1, <2>2, <2>3
<1>16. Listed(g)
  <2>1. w \in [Lists -> Seq(Chunks(h))]
    <3>1. \A j \in Lists : w[j] \in Seq(Chunks(h))
      BY <1>12, <1>13 DEF Pool, Listed
    <3> QED BY <1>12, <3>1
  <2>2. ASSUME NEW j \in Lists, NEW k \in 1 .. Len(w[j])
        PROVE  s[w[j][k]] = "FREE" /\ InClass(j, InnerSize(h, w[j][k]))
    <3>1. CASE j = i /\ w[j][k] = c
      BY <1>3, <1>7, <3>1 DEF size
    <3>2. CASE w[j][k] # c /\ \E l \in 1 .. Len(h.lists[j]) : w[j][k] = h.lists[j][l]
      <4>1. PICK l \in 1 .. Len(h.lists[j]) : w[j][k] = h.lists[j][l]
        BY <3>2
      <4>2. w[j][k] \in Chunks(h)
        BY <2>1
      <4>3. h.status[w[j][k]] = "FREE" /\ InClass(j, InnerSize(h, w[j][k]))
        BY <4>1 DEF Pool, Listed
      <4> QED BY <1>7, <3>2, <4>2, <4>3
    <3> QED BY <1>15, <3>1, <3>2
  <2>3. ASSUME NEW d \in Chunks(h), s[d] = "FREE"
        PROVE  h.next[d] # NULL /\ \E j \in Lists : \E k \in 1 .. Len(w[j]) : w[j][k] = d
    <3>1. CASE d = c
      <4>1. w[i][at] = c /\ at \in 1 .. Len(w[i])
        BY <1>12, <1>13
      <4> QED BY <1>3, <3>1, <4>1
    <3>2. CASE d # c
      <4>1. h.status[d] = "FREE"
        BY <1>7, <2>3, <3>2
      <4>2. h.next[d] # NULL
        BY <4>1 DEF Pool, Listed
      <4>3. PICK j \in Lists : \E k \in 1 .. Len(h.lists[j]) : h.lists[j][k] = d
        BY <4>1 DEF Pool, Listed
      <4>4. \E k \in 1 .. Len(w[j]) : w[j][k] = d
        <5>1. CASE j = i
          <6>1. w[j] = new
            BY <1>12, <5>1
          <6>2. PICK l \in 1 .. Len(old) : old[l] = d
            BY <4>3, <5>1
          <6> QED BY <1>13, <6>1, <6>2
        <5>2. CASE j # i
          BY <1>12, <4>3, <5>2
        <5> QED BY <5>1, <5>2
      <4> QED BY <4>2, <4>4
    <3> QED BY <3>1, <3>2
  <2>5. \A j1 \in Lists, j2 \in Lists :
          \A k1 \in 1 .. Len(h.lists[j1]), l1 \in 1 .. Len(h.lists[j2]) :
            h.lists[j1][k1] = h.lists[j2][l1] => j1 = j2 /\ k1 = l1
    BY DEF Pool, Listed
  <2>4. ASSUME NEW j1 \in Lists, NEW j2 \in Lists,
               NEW k \in 1 .. Len(w[j1]), NEW l \in 1 .. Len(w[j2]), w[j1][k] = w[j2][l]
        PROVE  j1 = j2 /\ k = l
    <3>1. CASE w[j1][k] = c
      <4>1. j1 = i /\ k = at
        BY <1>15, <3>1
      <4>2. w[j2][l] = c
        BY <2>4, <3>1
      <4>3. j2 = i /\ l = at
        BY <1>15, <4>2
      <4> QED BY <4>1, <4>3
    <3>2. CASE w[j1][k] # c
      <4>1. /\ ~ (j1 = i /\ k = at) /\ ~ (j2 = i /\ l = at)
        BY <1>15, <2>4, <3>2
      <4>2. PICK k1 \in 1 .. Len(h.lists[j1]) : w[j1][k] = h.lists[j1][k1]
        BY <1>15, <3>2
      <4>3. PICK l1 \in 1 .. Len(h.lists[j2]) : w[j2][l] = h.lists[j2][l1]
        BY <1>15, <2>4, <3>2
      <4>4. j1 = j2
        <5>1. h.lists[j1][k1] = h.lists[j2][l1]
          BY <2>4, <4>2, <4>3
        <5> QED BY <2>5, <5>1, Zenon
      <4>5. CASE j1 # i
        <5>1. w[j1] = h.lists[j1] /\ w[j2] = h.lists[j1]
          BY <1>12, <4>4, <4>5
        <5> QED BY <2>4, <2>5, <4>4, <5>1
      <4>6. CASE j1 = i
        <5>1. Distinct(old)
          BY <1>3 DEF Pool, Listed, Distinct
        <5>2. w[j1] = new /\ w[j2] = new
          BY <1>12, <4>4, <4>6
        <5> QED BY <1>13, <2>4, <4>1, <4>4, <4>6, <5>1, <5>2
      <4> QED BY <4>4, <4>5, <4>6
    <3> QED BY <3>1, <3>2
  <2> QED BY <1>5, <1>6, <1>11, <2>1, <2>2, <2>3, <2>4 DEF Listed
<1>17. Flagged(g)
  <2>1. f \in [Lists -> BOOLEAN]
    BY <1>3 DEF Pool, Flagged
  <2>2. ASSUME NEW j \in Lists PROVE f[j] <=> w[j] # <<>>
    <3>1. CASE j = i
      <4>1. f[j] = TRUE
        BY <1>3, <3>1 DEF Pool, Flagged
      <4> QED BY <1>12, <1>13, <3>1, <4>1
    <3>2. CASE j # i
      <4>1. f[j] = h.filled[j] /\ w[j] = h.lists[j]
        BY <1>3, <1>12, <3>2 DEF Pool, Flagged
      <4> QED BY <4>1 DEF Pool, Flagged
    <3> QED BY <3>1, <3>2
  <2> HIDE DEF f
  <2> QED BY <1>5, <2>1, <2>2 DEF Flagged
<1> QED BY <1>5, <1>6, <1>7, <1>10, <1>16, <1>17 DEF g, Pool

LEMMA FindAdaptedFacts ==
    ASSUME NEW h, NEW i, NEW size, NEW T, NULL \notin T, h.lists[i] \in Seq(T)
    PROVE  LET found == FindAdaptedChunk(h, i, size)
           IN  IF found = NULL
                 THEN \A k \in 1 .. Len(h.lists[i]) : ~ InnerSize(h, h.lists[i][k]) >= size
                 ELSE \E k \in 1 .. Len(h.lists[i]) :
                        found = h.lists[i][k] /\ InnerSize(h, found) >= size
<1> DEFINE large == {k \in 1 .. Len(h.lists[i]) : InnerSize(h, h.lists[i][k]) >= size}
           found == FindAdaptedChunk(h, i, size)
           k == CHOOSE k \in large : \A l \in large : k <= l
<1>1. CASE large = {}
  BY <1>1 DEF FindAdaptedChunk
<1>2. CASE large # {}
  <2>1. large \in SUBSET Nat
    OBVIOUS
  <2>2. \E x \in large : \A l \in large : x <= l
    <3> HIDE DEF large
    <3> QED BY <1>2, <2>1, LeastElement
  <2>3. k \in large
    <3> HIDE DEF large
    <3> QED BY <2>2
  <2>4. found = h.lists[i][k]
    BY <1>2 DEF FindAdaptedChunk
  <2> HIDE DEF k, found
  <2>5. k \in 1 .. Len(h.lists[i]) /\ InnerSize(h, h.lists[i][k]) >= size
    BY <2>3
  <2>6. found # NULL
    BY <2>4, <2>5
  <2> QED BY <2>4, <2>5, <2>6 DEF found
<1> QED BY <1>1, <1>2

(* A search returns a free chunk that is large enough, and fails only when  *)
(* there is none: in the classes above that of the size every chunk is, in  *)
(* the class just below some may be, and further below none is.             *)
LEMMA FindFacts ==
    ASSUME NEW h, NEW E, NEW u, NEW v, Chain(h, E, u, v), Pool(h),
           NEW size \in Nat, size <= Unlimited
    PROVE  LET found == FindChunk(h, size)
           IN  IF found = NULL
                 THEN \A c \in Chunks(h) : h.status[c] = "FREE" => InnerSize(h, c) < size
                 ELSE /\ found \in Chunks(h) /\ h.status[found] = "FREE"
                      /\ h.next[found] # NULL /\ InnerSize(h, found) >= size
<1> DEFINE found == FindChunk(h, size)
           start == GetFreeList(size)
           filled == {i \in Lists : i >= start /\ h.filled[i]}
           least == CHOOSE i \in filled : \A j \in filled : i <= j
           above == IF filled = {} THEN NULL ELSE FindAdaptedChunk(h, least, size)
<1>1. found = IF above = NULL /\ start # 1 THEN FindAdaptedChunk(h, start - 1, size) ELSE above
  BY DEF FindChunk
<1>2. /\ start \in Lists /\ Sizes[start] >= size
      /\ \A j \in Lists : j < start => Sizes[j] < size
  BY ListOfFacts
<1> HIDE DEF found, start
<1>3. NULL \notin Chunks(h) /\ \A c \in Chunks(h) : c \in Nat /\ InnerSize(h, c) \in Nat
  BY ChainTypes, Memory DEF Chain, HeapShape
<1>4. ASSUME NEW i \in Lists
      PROVE  /\ h.lists[i] \in Seq(Chunks(h)) /\ (h.filled[i] <=> h.lists[i] # <<>>)
             /\ \A k \in 1 .. Len(h.lists[i]) :
                  /\ h.lists[i][k] \in Chunks(h) /\ h.status[h.lists[i][k]] = "FREE"
                  /\ InClass(i, InnerSize(h, h.lists[i][k]))
                  /\ h.next[h.lists[i][k]] # NULL
  <2>1. /\ h.lists[i] \in Seq(Chunks(h)) /\ (h.filled[i] <=> h.lists[i] # <<>>)
        /\ \A k \in 1 .. Len(h.lists[i]) : h.status[h.lists[i][k]] = "FREE"
        /\ \A k \in 1 .. Len(h.lists[i]) : InClass(i, InnerSize(h, h.lists[i][k]))
    BY DEF Pool, Listed, Flagged
  <2>2. \A k \in 1 .. Len(h.lists[i]) : h.lists[i][k] \in Chunks(h)
    BY <2>1
  <2>3. \A c \in Chunks(h) : h.status[c] = "FREE" => h.next[c] # NULL
    BY DEF Pool, Listed
  <2> QED BY <2>1, <2>2, <2>3
<1>5. ASSUME NEW i \in Lists, FindAdaptedChunk(h, i, size) # NULL
      PROVE  LET f == FindAdaptedChunk(h, i, size)
             IN  /\ f \in Chunks(h) /\ h.status[f] = "FREE"
                 /\ h.next[f] # NULL /\ InnerSize(h, f) >= size
  <2>1. PICK k \in 1 .. Len(h.lists[i]) :
          /\ FindAdaptedChunk(h, i, size) = h.lists[i][k]
          /\ InnerSize(h, FindAdaptedChunk(h, i, size)) >= size
    BY <1>3, <1>4, <1>5, FindAdaptedFacts
  <2> QED BY <2>1, <1>4
<1>6. ASSUME NEW i \in Lists, FindAdaptedChunk(h, i, size) = NULL
      PROVE  \A k \in 1 .. Len(h.lists[i]) : ~ InnerSize(h, h.lists[i][k]) >= size
  BY <1>3, <1>4, <1>6, FindAdaptedFacts
<1>7. \A i \in Lists : i \in Nat /\ i >= 1 /\ i <= Len(Sizes) /\ Sizes[i] \in Nat
  BY Classes
<1>8. filled # {} => /\ least \in filled /\ least \in Lists /\ least >= start
                     /\ h.filled[least] /\ \A j \in filled : least <= j
  <2>1. filled \in SUBSET Nat
    BY <1>7
  <2>2. filled # {} => \E i \in filled : \A j \in filled : i <= j
    <3> HIDE DEF filled
    <3> QED BY <2>1, LeastElement
  <2>3. filled # {} => least \in filled /\ \A j \in filled : least <= j
    <3> HIDE DEF filled
    <3> QED BY <2>2
  <2> HIDE DEF least
  <2> QED BY <2>3
<1> HIDE DEF least
<1>9. CASE found # NULL
  <2>1. CASE above = NULL /\ start # 1
    <3>1. found = FindAdaptedChunk(h, start - 1, size) /\ start - 1 \in Lists
      <4>1. start - 1 \in 1 .. Len(Sizes)
        BY <1>2, <1>7, <2>1, Classes
      <4> QED BY <1>1, <2>1, <4>1, Classes
    <3> QED BY <1>5, <1>9, <3>1 DEF found
  <2>2. CASE ~ (above = NULL /\ start # 1)
    <3>1. found = above
      BY <1>1, <2>2
    <3>2. filled # {} /\ found = FindAdaptedChunk(h, least, size)
      BY <1>9, <3>1
    <3> QED BY <1>5, <1>8, <1>9, <3>2 DEF found
  <2> QED BY <2>1, <2>2
<1>10. CASE found = NULL
  <2> SUFFICES ASSUME NEW c \in Chunks(h), h.status[c] = "FREE", ~ InnerSize(h, c) < size
               PROVE  FALSE
    BY <1>10 DEF found
  <2> DEFINE s == InnerSize(h, c)
  <2>1. s \in Nat /\ s >= size /\ s >= 2
    <3>1. h.next[c] # NULL
      BY DEF Pool, Listed
    <3>2. s >= 2
      BY <3>1, NextFacts
    <3> QED BY <1>3, <3>2
  <2>2. PICK i \in Lists : \E k \in 1 .. Len(h.lists[i]) : h.lists[i][k] = c
    BY DEF Pool, Listed
  <2>3. PICK k \in 1 .. Len(h.lists[i]) : h.lists[i][k] = c
    BY <2>2
  <2>4. InClass(i, s) /\ h.filled[i]
    <3>1. h.lists[i] # <<>>
      BY <2>3
    <3> QED BY <1>4, <2>3, <3>1
  <2> HIDE DEF s
  <2>5. ASSUME NEW j \in Lists, FindAdaptedChunk(h, j, size) = NULL PROVE j # i
    BY <1>6, <2>1, <2>3, <2>5 DEF s
  <2>6. above = NULL
    BY <1>1, <1>10
  <2>7. CASE i >= start
    <3>1. i \in filled
      BY <2>4, <2>7
    <3>2. /\ least \in Lists /\ least >= start /\ h.filled[least] /\ least <= i
          /\ FindAdaptedChunk(h, least, size) = NULL
      BY <1>8, <2>6, <3>1
    <3> HIDE DEF filled, above
    <3>3. least # i /\ least < Len(Sizes)
      <4>1. least # i
        BY <2>5, <3>2
      <4> QED BY <1>7, <3>2, <4>1, Classes
    <3>4. Sizes[least] # Unlimited
      <4>1. Sizes[least] < Sizes[Len(Sizes)]
        BY <3>2, <3>3, Classes
      <4> QED BY <4>1, Classes
    <3>5. 1 \in 1 .. Len(h.lists[least]) /\ h.lists[least][1] \in Chunks(h)
      <4>1. h.lists[least] # <<>> /\ h.lists[least] \in Seq(Chunks(h))
        BY <1>4, <3>2
      <4> QED BY <4>1
    <3> DEFINE d == h.lists[least][1]
    <3>6. /\ ~ InnerSize(h, d) >= size /\ InClass(least, InnerSize(h, d))
          /\ InnerSize(h, d) \in Nat /\ InnerSize(h, d) >= 2
      <4>1. h.next[d] # NULL
        BY <1>4, <3>2, <3>5
      <4>2. InnerSize(h, d) >= 2
        BY <3>5, <4>1, NextFacts
      <4> QED BY <1>3, <1>4, <1>6, <3>2, <3>5, <4>2
    <3> HIDE DEF d
    <3>7. CASE least # 1
      <4>1. Sizes[least] <= InnerSize(h, d)
        BY <3>4, <3>6, <3>7 DEF InClass
      <4>2. Sizes[start] <= Sizes[least]
        <5>1. start = least \/ start < least
          BY <1>2, <1>7, <3>2
        <5>2. start < least => Sizes[start] < Sizes[least]
          BY <1>2, <3>2, Classes
        <5> QED BY <1>2, <1>7, <3>2, <5>1, <5>2
      <4> QED BY <1>2, <1>7, <3>2, <3>6, <4>1, <4>2
    <3>8. CASE least = 1
      <4>1. start = 1
        BY <1>2, <1>7, <3>2, <3>8
      <4>2. size <= 2
        BY <1>2, <1>7, <4>1, Classes, Memory
      <4> QED BY <3>6, <4>2
    <3> QED BY <3>7, <3>8
  <2>8. CASE i < start
    <3> HIDE DEF filled, above
    <3>1. start # 1 /\ start \in Nat /\ i \in Nat /\ i < Len(Sizes) /\ i + 1 \in Lists
      BY <1>2, <1>7, <2>8, Classes
    <3>2. FindAdaptedChunk(h, start - 1, size) = NULL
      BY <1>1, <1>10, <2>6, <3>1
    <3>3. start - 1 \in Lists
      BY <1>2, <1>7, <3>1, Classes
    <3>4. i # start - 1
      BY <2>5, <3>2, <3>3
    <3>5. i + 1 < start
      BY <2>8, <3>1, <3>4
    <3>6. s < Sizes[i + 1] /\ Sizes[i + 1] < size
      BY <1>2, <2>4, <3>1, <3>5 DEF InClass
    <3> QED BY <1>7, <2>1, <3>1, <3>6
  <2> QED BY <1>2, <1>7, <2>7, <2>8
<1> QED BY <1>9, <1>10

-----------------------------------------------------------------------------
(* The steps on the heap *)

(* The lists do not depend on the allocated chunks. *)
LEMMA PoolSame ==
    ASSUME NEW h, NEW g, Pool(h), g.lists = h.lists, g.filled = h.filled,
           \A d \in Chunks(h) : h.status[d] = "FREE" =>
             d \in Chunks(g) /\ g.status[d] = "FREE" /\ g.next[d] = h.next[d],
           \A d \in Chunks(g) : g.status[d] = "FREE" => d \in Chunks(h) /\ h.status[d] = "FREE"
    PROVE  Pool(g)
<1>1. \A i \in Lists : \A k \in 1 .. Len(h.lists[i]) :
        h.lists[i][k] \in Chunks(h) /\ h.status[h.lists[i][k]] = "FREE"
  BY DEF Pool, Listed
<1>2. \A d \in Chunks(h) : h.status[d] = "FREE" => InnerSize(g, d) = InnerSize(h, d)
  BY DEF InnerSize
<1>3. g.lists \in [Lists -> Seq(Chunks(g))]
  <2>1. ASSUME NEW i \in Lists PROVE h.lists[i] \in Seq(Chunks(g))
    <3>1. h.lists[i] \in Seq(Chunks(h))
      BY DEF Pool, Listed
    <3>2. \A k \in 1 .. Len(h.lists[i]) : h.lists[i][k] \in Chunks(g)
      BY <1>1
    <3> DEFINE s == h.lists[i]
    <3> HIDE DEF s
    <3>3. s \in Seq(Chunks(h)) /\ \A k \in 1 .. Len(s) : s[k] \in Chunks(g)
      BY <3>1, <3>2 DEF s
    <3>4. s \in Seq(Chunks(g))
      BY <3>3
    <3> QED BY <3>4 DEF s
  <2>2. h.lists = [i \in Lists |-> h.lists[i]]
    BY DEF Pool, Listed
  <2> QED BY <2>1, <2>2
<1>4. \A i \in Lists : \A k \in 1 .. Len(h.lists[i]) : InClass(i, InnerSize(g, h.lists[i][k]))
  BY <1>1, <1>2 DEF Pool, Listed
<1>5. ASSUME NEW d \in Chunks(g), g.status[d] = "FREE"
      PROVE  g.next[d] # NULL /\ \E i \in Lists : \E k \in 1 .. Len(h.lists[i]) : h.lists[i][k] = d
  <2>1. d \in Chunks(h) /\ h.status[d] = "FREE" /\ g.next[d] = h.next[d]
    BY <1>5
  <2> QED BY <2>1 DEF Pool, Listed
<1>6. \A i \in Lists, j \in Lists :
        \A k \in 1 .. Len(h.lists[i]), l \in 1 .. Len(h.lists[j]) :
          h.lists[i][k] = h.lists[j][l] => i = j /\ k = l
  BY DEF Pool, Listed
<1>7. Listed(g)
  BY <1>1, <1>3, <1>4, <1>5, <1>6 DEF Listed
<1> QED BY <1>7 DEF Pool, Flagged

(* Of an allocated chunk, what a size does not need becomes a free chunk.   *)
LEMMA CutFacts ==
    ASSUME NEW h, NEW E, Chain(h, E, NULL, NULL), Pool(h),
           NEW c \in Chunks(h), h.status[c] = "ALLOCATED", h.next[c] # NULL,
           NEW size \in Nat \ {0}
    PROVE  LET g == SplitAndInsert(h, c, size)
           IN  /\ Chain(g, E, NULL, NULL) /\ Pool(g)
               /\ Chunks(h) \subseteq Chunks(g)
               /\ \A d \in Chunks(h) : /\ g.status[d] = h.status[d]
                                       /\ d # c => g.next[d] = h.next[d]
               /\ g.next[c] # NULL
               /\ \A d \in Chunks(g) \ Chunks(h) :
                    g.status[d] = "FREE" /\ g.next[c] = d /\ g.next[d] = h.next[c]
               /\ g.next[c] = h.next[c] \/ g.next[c] \notin Chunks(h)
               /\ InnerSize(h, c) >= size => InnerSize(g, c) >= size
<1> DEFINE g == SplitAndInsert(h, c, size)
           n == RoundUp(size, MinInnerSize)
           r == c + n + HeaderSize
           s == SplitChunk(h, c, n)
<1>1. n \in Nat /\ n >= 2 /\ n >= size
  <2>1. n \in Nat /\ size <= n
    BY RoundUpFacts, Memory
  <2>2. CASE size = 1
    BY <2>1, <2>2, Memory DEF RoundUp
  <2>3. CASE size # 1
    BY <2>1, <2>3
  <2> QED BY <2>1, <2>2, <2>3
<1>2. g = IF KeepsRest(InnerSize(h, c), n) THEN Insert(s, r, "LIFO") ELSE h
  BY DEF SplitAndInsert
<1>3. KeepsRest(InnerSize(h, c), n) <=> InnerSize(h, c) - n > 5
  BY Memory DEF KeepsRest
<1>4. InnerSize(h, c) \in Nat /\ c \in Nat /\ c # NULL
  BY ChainTypes
<1> HIDE DEF g, n
<1>5. CASE ~ KeepsRest(InnerSize(h, c), n)
  BY <1>2, <1>5 DEF g
<1>6. CASE KeepsRest(InnerSize(h, c), n)
  <2>1. InnerSize(h, c) >= n + 5
    BY <1>1, <1>3, <1>4, <1>6
  <2>2. r = c + n + 3
    BY Memory
  <2>3. /\ Chain(s, E, NULL, NULL)
        /\ r \in Nat /\ r \notin Chunks(h) /\ c < r
        /\ Chunks(s) = Chunks(h) \union {r}
        /\ s.next[c] = r /\ s.next[r] = h.next[c]
        /\ s.status[r] = "ALLOCATED"
        /\ \A d \in Chunks(h) : /\ d # c => s.next[d] = h.next[d]
                                /\ s.status[d] = h.status[d]
        /\ s.lists = h.lists /\ s.filled = h.filled
    <3> HIDE DEF s, r
    <3> QED BY <1>1, <2>1, <2>2, SplitChain DEF s
  <2> HIDE DEF s, r
  <2>4. Pool(s)
    <3>1. \A d \in Chunks(h) : h.status[d] = "FREE" =>
            d \in Chunks(s) /\ s.status[d] = "FREE" /\ s.next[d] = h.next[d]
      BY <2>3
    <3>2. \A d \in Chunks(s) : s.status[d] = "FREE" => d \in Chunks(h) /\ h.status[d] = "FREE"
      BY <2>3
    <3> QED BY <2>3, <3>1, <3>2, PoolSame
  <2>5. r \in Chunks(s) /\ s.next[r] # NULL
    BY <2>3
  <2>6. /\ Chain(g, E, NULL, NULL) /\ Pool(g)
        /\ Chunks(g) = Chunks(s) /\ g.next = s.next /\ g.prev = s.prev
        /\ g.status[r] = "FREE"
        /\ \A d \in Chunks(s) : d # r => g.status[d] = s.status[d]
    BY <1>2, <1>6, <2>3, <2>4, <2>5, InsertFacts
  <2>7. InnerSize(g, c) = n
    <3>1. g.next[c] = r /\ r # NULL
      BY <2>3, <2>6, Memory
    <3> QED BY <1>1, <1>4, <2>2, <3>1, Memory DEF InnerSize
  <2> QED BY <1>1, <2>3, <2>5, <2>6, <2>7, Memory DEF g
<1> QED BY <1>5, <1>6

-----------------------------------------------------------------------------
(* The inductive invariant *)

(* The chunks in use: not free, and not the header that closes an area.     *)
Busy(h) == {c \in Chunks(h) : h.status[c] = "ALLOCATED" /\ h.next[c] # NULL}

(* What a thread works on: while it merges, every chunk it has gathered.    *)
Gathered(h, first, last) == {c \in Chunks(h) : first <= c /\ c <= last}

Hand(t) == InHand(t) \union
           (IF pc[t] \in {"merge", "grow"} THEN Gathered(heap, op[t].first, op[t].last) ELSE {})

Hands == [t \in Threads |-> Hand(t)]

(* Every chunk of B belongs to one block of L or to one hand.               *)
Shared(B, L, H) ==
    /\ \A b \in L : b.chunk \in B
    /\ \A t \in Threads : H[t] \subseteq B
    /\ \A b \in L, x \in L : b.chunk = x.chunk => b = x
    /\ \A b \in L, t \in Threads : b.chunk \notin H[t]
    /\ \A t \in Threads, r \in Threads : t # r => \A c \in H[t] : c \notin H[r]
    /\ \A c \in B : (\E b \in L : b.chunk = c) \/ \E t \in Threads : c \in H[t]

Ops == [block : Blocks \union {NULL}, first : Addresses \union {NULL},
        last : Addresses \union {NULL}, size : Nat]

Controls == {"idle", "free", "merge", "unmap", "resize", "grow", "move"}

Typed ==
    /\ hasSource \in BOOLEAN
    /\ segments \in [DOMAIN segments -> Nat] /\ DOMAIN segments \subseteq Bases
    /\ unused \subseteq Areas
    /\ IF hasSource THEN unused = {} ELSE DOMAIN segments = {}
    /\ lock \in Threads \union {NULL}
    /\ live \subseteq Blocks
    /\ pc \in [Threads -> Controls]
    /\ op \in [Threads -> Ops]
    /\ \A t \in Threads : lock = t <=> pc[t] \in {"merge", "grow"}

(* The bytes of a block are in its chunk. *)
Placed(b) == GetPtr(b.chunk) <= b.ptr /\ GetPtr(b.chunk) <= b.data

(* A segment that is mapped for a request holds it: the segment is for the  *)
(* size asked for, of which the headers of its two chunks take their part.  *)
Fitting == \A n \in Checked : Extent(n) >= n + 8

(* The block ends before its chunk does.  Without these two hypotheses it   *)
(* need not: refill may map too little, and realloc of a padded block       *)
(* compares the size with that of the chunk.                                *)
Fits(h, b) ==
    Fitting /\ ReallocPadded = FALSE => b.ptr + b.size <= h.next[b.chunk]

(* What a thread knows at each point; merge has left no free chunk next to  *)
(* those it has gathered, and what is unmapped is the only chunk of a       *)
(* segment.                                                                 *)
Knows(h, E, t) ==
    /\ pc[t] \in {"resize", "grow", "move"} =>
         /\ op[t].block \in Blocks /\ op[t].size \in ReallocSizes
         /\ Placed(op[t].block) /\ Fits(h, op[t].block)
    /\ pc[t] \in {"merge", "grow"} => Span(h, E, op[t].first, op[t].last)
    /\ pc[t] = "merge" => ~ FreeBefore(h, op[t].first) /\ ~ FreeAfter(h, op[t].last)
    /\ pc[t] = "grow" => /\ op[t].first = op[t].block.chunk
                         /\ h.next[op[t].last] - op[t].first - HeaderSize >= op[t].size
    /\ pc[t] = "unmap" => /\ hasSource
                          /\ \E e \in E : /\ op[t].first = e[1]
                                          /\ h.next[op[t].first] = e[2] - HeaderSize

(* What the merge in progress has gathered, if there is one. *)
MergeFirst == IF lock = NULL THEN NULL ELSE op[lock].first
MergeLast == IF lock = NULL THEN NULL ELSE op[lock].last

Inv ==
    /\ Typed
    /\ Chain(heap, Extents, MergeFirst, MergeLast)
    /\ Pool(heap)
    /\ Shared(Busy(heap), live, Hands)
    /\ \A b \in live : Placed(b) /\ Fits(heap, b)
    /\ \A t \in Threads : Knows(heap, Extents, t)

(* What the steps do with a chunk that is shared out. *)
LEMMA GiveLive ==              \* a new block, from the hand of t or from no one
    ASSUME NEW B, NEW L, NEW H, H = [t \in Threads |-> H[t]], Shared(B, L, H),
           NEW x, x.chunk \notin B
    PROVE  Shared(B \union {x.chunk}, L \union {x}, H)
BY DEF Shared

LEMMA HandToLive ==
    ASSUME NEW B, NEW L, NEW H, H = [r \in Threads |-> H[r]], Shared(B, L, H),
           NEW t \in Threads, NEW x, H[t] = {x.chunk}
    PROVE  Shared(B, L \union {x}, [H EXCEPT ![t] = {}])
<1> DEFINE G == [H EXCEPT ![t] = {}]
<1>1. \A r \in Threads : G[r] = IF r = t THEN {} ELSE H[r]
  OBVIOUS
<1> HIDE DEF G
<1>2. /\ \A b \in L : b.chunk \in B
      /\ \A r \in Threads : H[r] \subseteq B
      /\ \A b \in L, y \in L : b.chunk = y.chunk => b = y
      /\ \A b \in L, r \in Threads : b.chunk \notin H[r]
      /\ \A q \in Threads, r \in Threads : q # r => \A c \in H[q] : c \notin H[r]
      /\ \A c \in B : (\E b \in L : b.chunk = c) \/ \E r \in Threads : c \in H[r]
  BY DEF Shared
<1>3. \A b \in L \union {x} : b.chunk \in B
  BY <1>2
<1>4. \A r \in Threads : G[r] \subseteq B
  BY <1>1, <1>2
<1>5. \A b \in L \union {x}, y \in L \union {x} : b.chunk = y.chunk => b = y
  BY <1>2
<1>6. \A b \in L \union {x}, r \in Threads : b.chunk \notin G[r]
  BY <1>1, <1>2
<1>7. \A q \in Threads, r \in Threads : q # r => \A c \in G[q] : c \notin G[r]
  BY <1>1, <1>2
<1>8. \A c \in B : (\E b \in L \union {x} : b.chunk = c) \/ \E r \in Threads : c \in G[r]
  BY <1>1, <1>2
<1> QED BY <1>3, <1>4, <1>5, <1>6, <1>7, <1>8 DEF Shared, G

LEMMA LiveToHand ==
    ASSUME NEW B, NEW L, NEW H, H = [r \in Threads |-> H[r]], Shared(B, L, H),
           NEW t \in Threads, NEW x \in L, H[t] = {}
    PROVE  Shared(B, L \ {x}, [H EXCEPT ![t] = {x.chunk}])
<1> DEFINE G == [H EXCEPT ![t] = {x.chunk}]
<1>1. \A r \in Threads : G[r] = IF r = t THEN {x.chunk} ELSE H[r]
  OBVIOUS
<1> HIDE DEF G
<1>2. /\ \A b \in L : b.chunk \in B
      /\ \A r \in Threads : H[r] \subseteq B
      /\ \A b \in L, y \in L : b.chunk = y.chunk => b = y
      /\ \A b \in L, r \in Threads : b.chunk \notin H[r]
      /\ \A q \in Threads, r \in Threads : q # r => \A c \in H[q] : c \notin H[r]
      /\ \A c \in B : (\E b \in L : b.chunk = c) \/ \E r \in Threads : c \in H[r]
  BY DEF Shared
<1>3. \A b \in L \ {x} : b.chunk \in B
  BY <1>2
<1>4. \A r \in Threads : G[r] \subseteq B
  BY <1>1, <1>2
<1>5. \A b \in L \ {x}, y \in L \ {x} : b.chunk = y.chunk => b = y
  BY <1>2
<1>6. \A b \in L \ {x}, r \in Threads : b.chunk \notin G[r]
  BY <1>1, <1>2
<1>7. \A q \in Threads, r \in Threads : q # r => \A c \in G[q] : c \notin G[r]
  BY <1>1, <1>2
<1>8. \A c \in B : (\E b \in L \ {x} : b.chunk = c) \/ \E r \in Threads : c \in G[r]
  <2> SUFFICES ASSUME NEW c \in B
               PROVE  (\E b \in L \ {x} : b.chunk = c) \/ \E r \in Threads : c \in G[r]
    OBVIOUS
  <2>1. CASE c = x.chunk
    BY <1>1, <2>1
  <2>2. CASE c # x.chunk
    BY <1>1, <1>2, <2>2
  <2> QED BY <2>1, <2>2
<1> QED BY <1>3, <1>4, <1>5, <1>6, <1>7, <1>8 DEF Shared, G

LEMMA LiveChanged ==
    ASSUME NEW B, NEW L, NEW H, Shared(B, L, H), NEW x \in L, NEW y, y.chunk = x.chunk
    PROVE  Shared(B, (L \ {x}) \union {y}, H)
<1> DEFINE M == (L \ {x}) \union {y}
<1>1. \A b \in M : b.chunk \in B
  BY DEF Shared
<1>2. \A b \in M, z \in M : b.chunk = z.chunk => b = z
  BY DEF Shared
<1>3. \A b \in M, t \in Threads : b.chunk \notin H[t]
  BY DEF Shared
<1>4. \A c \in B : (\E b \in M : b.chunk = c) \/ \E t \in Threads : c \in H[t]
  <2> SUFFICES ASSUME NEW c \in B
               PROVE  (\E b \in M : b.chunk = c) \/ \E t \in Threads : c \in H[t]
    OBVIOUS
  <2>1. CASE c = x.chunk
    BY <2>1
  <2>2. CASE c # x.chunk
    <3>1. (\E b \in L : b.chunk = c) \/ \E t \in Threads : c \in H[t]
      BY DEF Shared
    <3> QED BY <2>2, <3>1
  <2> QED BY <2>1, <2>2
<1> HIDE DEF M
<1>5. /\ \A t \in Threads : H[t] \subseteq B
      /\ \A t \in Threads, r \in Threads : t # r => \A c \in H[t] : c \notin H[r]
  BY DEF Shared
<1> QED BY <1>1, <1>2, <1>3, <1>4, <1>5 DEF Shared, M

(* The hand of t takes chunks that were no one's, and drops some.           *)
LEMMA HandMoves ==
    ASSUME NEW B, NEW L, NEW H, H = [r \in Threads |-> H[r]], Shared(B, L, H),
           NEW t \in Threads, NEW S,
           NEW D, D = (B \ H[t]) \union S, \A c \in S : c \in H[t] \/ c \notin B
    PROVE  Shared(D, L, [H EXCEPT ![t] = S])
<1> DEFINE G == [H EXCEPT ![t] = S]
<1>1. \A r \in Threads : G[r] = IF r = t THEN S ELSE H[r]
  OBVIOUS
<1> HIDE DEF G
<1>2. /\ \A b \in L : b.chunk \in B
      /\ \A r \in Threads : H[r] \subseteq B
      /\ \A b \in L, y \in L : b.chunk = y.chunk => b = y
      /\ \A b \in L, r \in Threads : b.chunk \notin H[r]
      /\ \A q \in Threads, r \in Threads : q # r => \A c \in H[q] : c \notin H[r]
      /\ \A c \in B : (\E b \in L : b.chunk = c) \/ \E r \in Threads : c \in H[r]
  BY DEF Shared
<1>3. \A b \in L : b.chunk \in D
  BY <1>2
<1>4. \A r \in Threads : G[r] \subseteq D
  <2> SUFFICES ASSUME NEW r \in Threads, r # t PROVE H[r] \subseteq D
    BY <1>1
  <2> QED BY <1>2
<1>5. \A b \in L, r \in Threads : b.chunk \notin G[r]
  BY <1>1, <1>2
<1>6. \A q \in Threads, r \in Threads : q # r => \A c \in G[q] : c \notin G[r]
  <2> SUFFICES ASSUME NEW q \in Threads, NEW r \in Threads, q # r, NEW c \in G[q]
               PROVE  c \notin G[r]
    OBVIOUS
  <2>1. CASE q = t
    BY <1>1, <1>2, <2>1
  <2>2. CASE r = t
    BY <1>1, <1>2, <2>2
  <2>3. CASE q # t /\ r # t
    BY <1>1, <1>2, <2>3
  <2> QED BY <2>1, <2>2, <2>3
<1>7. \A c \in D : (\E b \in L : b.chunk = c) \/ \E r \in Threads : c \in G[r]
  <2> SUFFICES ASSUME NEW c \in D
               PROVE  (\E b \in L : b.chunk = c) \/ \E r \in Threads : c \in G[r]
    OBVIOUS
  <2>1. CASE c \in S
    BY <1>1, <2>1
  <2>2. CASE c \notin S
    <3>1. c \in B /\ c \notin H[t]
      BY <2>2
    <3> QED BY <1>1, <1>2, <3>1
  <2> QED BY <2>1, <2>2
<1> QED BY <1>2, <1>3, <1>4, <1>5, <1>6, <1>7 DEF Shared, G

-----------------------------------------------------------------------------
(* What the steps make of the chunks in use *)

(* The chunks of S are still there, with the same next one. *)
Keeps(g, h, S) == \A d \in S : d \in Chunks(g) /\ g.next[d] = h.next[d]

LEMMA CutBusy ==
    ASSUME NEW h, NEW E, Chain(h, E, NULL, NULL), Pool(h), NEW c \in Busy(h),
           NEW size \in Nat \ {0}
    PROVE  LET g == SplitAndInsert(h, c, size)
           IN  /\ Chain(g, E, NULL, NULL) /\ Pool(g) /\ Busy(g) = Busy(h)
               /\ Keeps(g, h, Busy(h) \ {c})
               /\ InnerSize(h, c) >= size => InnerSize(g, c) >= size
<1> DEFINE g == SplitAndInsert(h, c, size)
<1>1. c \in Chunks(h) /\ h.status[c] = "ALLOCATED" /\ h.next[c] # NULL
  BY DEF Busy
<1>2. /\ Chain(g, E, NULL, NULL) /\ Pool(g)
      /\ Chunks(h) \subseteq Chunks(g)
      /\ \A d \in Chunks(h) : g.status[d] = h.status[d]
      /\ \A d \in Chunks(h) : d # c => g.next[d] = h.next[d]
      /\ g.next[c] # NULL
      /\ \A d \in Chunks(g) \ Chunks(h) : g.status[d] = "FREE"
      /\ InnerSize(h, c) >= size => InnerSize(g, c) >= size
  BY <1>1, CutFacts
<1> HIDE DEF g
<1>3. Busy(g) = Busy(h)
  <2>1. ASSUME NEW d \in Busy(g) PROVE d \in Busy(h)
    BY <1>1, <1>2 DEF Busy
  <2>2. ASSUME NEW d \in Busy(h) PROVE d \in Busy(g)
    BY <1>1, <1>2 DEF Busy
  <2> QED BY <2>1, <2>2
<1>4. Keeps(g, h, Busy(h) \ {c})
  BY <1>2 DEF Keeps, Busy
<1> QED BY <1>2, <1>3, <1>4 DEF g

LEMMA TakeFound ==
    ASSUME NEW h, NEW E, Chain(h, E, NULL, NULL), Pool(h), NEW c \in Chunks(h),
           h.status[c] = "FREE", h.next[c] # NULL, NEW size \in Nat \ {0}
    PROVE  LET g == SplitAndInsert(Remove(h, {c}), c, size)
           IN  /\ Chain(g, E, NULL, NULL) /\ Pool(g)
               /\ c \notin Busy(h) /\ Busy(g) = Busy(h) \union {c}
               /\ Keeps(g, h, Busy(h))
               /\ InnerSize(h, c) >= size => InnerSize(g, c) >= size
<1> DEFINE r == Remove(h, {c})
           g == SplitAndInsert(r, c, size)
<1>1. /\ Chain(r, E, NULL, NULL) /\ Pool(r)
      /\ Chunks(r) = Chunks(h) /\ r.next = h.next
      /\ \A d \in Chunks(h) : r.status[d] = IF d \in {c} THEN "ALLOCATED" ELSE h.status[d]
  BY RemoveFacts
<1> HIDE DEF r
<1>2. Busy(r) = Busy(h) \union {c} /\ c \notin Busy(h)
  BY <1>1 DEF Busy
<1>3. InnerSize(r, c) = InnerSize(h, c)
  BY <1>1 DEF InnerSize
<1>4. /\ Chain(g, E, NULL, NULL) /\ Pool(g) /\ Busy(g) = Busy(r)
      /\ Keeps(g, r, Busy(r) \ {c})
      /\ InnerSize(r, c) >= size => InnerSize(g, c) >= size
  BY <1>1, <1>2, CutBusy
<1> HIDE DEF g
<1>5. Keeps(g, h, Busy(h))
  BY <1>1, <1>2, <1>4 DEF Keeps
<1> QED BY <1>2, <1>3, <1>4, <1>5 DEF g, r

LEMMA SetupBusy ==
    ASSUME NEW h, NEW E, Chain(h, E, NULL, NULL), Pool(h),
           NEW p \in Nat, NEW n \in Nat, n >= 8, Free(E, <<p, p + n>>)
    PROVE  LET g == Setup(h, p, n)
           IN  /\ Chain(g, E \union {<<p, p + n>>}, NULL, NULL) /\ Pool(g)
               /\ p \notin Chunks(h) /\ p \in Chunks(g)
               /\ Busy(g) = Busy(h) \union {p} /\ Keeps(g, h, Chunks(h))
               /\ InnerSize(g, p) = n - 6
<1> DEFINE g == Setup(h, p, n)
           q == p + n - 3
<1>1. /\ Chain(g, E \union {<<p, p + n>>}, NULL, NULL)
      /\ p \notin Chunks(h) /\ q \notin Chunks(h) /\ p # q
      /\ Chunks(g) = Chunks(h) \union {p, q}
      /\ g.next[p] = q /\ g.next[q] = NULL
      /\ g.status[p] = "ALLOCATED" /\ g.status[q] = "ALLOCATED"
      /\ Same(g, h, Chunks(h))
      /\ g.lists = h.lists /\ g.filled = h.filled
  BY SetupChain
<1>2. q \in Nat /\ q # NULL
  BY Memory
<1> HIDE DEF g
<1>3. Pool(g)
  BY <1>1, PoolSame DEF Same
<1>4. Busy(g) = Busy(h) \union {p}
  <2>1. \A d \in Chunks(h) : d \in Busy(g) <=> d \in Busy(h)
    BY <1>1 DEF Busy, Same
  <2>2. p \in Busy(g) /\ q \notin Busy(g)
    BY <1>1, <1>2 DEF Busy
  <2>3. Busy(g) \subseteq Chunks(h) \union {p, q} /\ Busy(h) \subseteq Chunks(h)
    BY <1>1 DEF Busy
  <2> HIDE DEF q
  <2> QED BY <2>1, <2>2, <2>3
<1>5. InnerSize(g, p) = n - 6
  BY <1>1, <1>2, Memory DEF InnerSize
<1>6. Keeps(g, h, Chunks(h))
  BY <1>1 DEF Keeps, Same
<1> QED BY <1>1, <1>3, <1>4, <1>5, <1>6 DEF g

LEMMA NewSegment ==
    ASSUME NEW h, NEW E, Chain(h, E, NULL, NULL), Pool(h),
           NEW p \in Nat, NEW n \in Nat, n >= 8, Free(E, <<p, p + n>>),
           NEW size \in Nat \ {0}
    PROVE  LET g == SplitAndInsert(Setup(h, p, n), p, size)
           IN  /\ Chain(g, E \union {<<p, p + n>>}, NULL, NULL) /\ Pool(g)
               /\ p \notin Busy(h) /\ Busy(g) = Busy(h) \union {p}
               /\ Keeps(g, h, Busy(h))
               /\ n - 6 >= size => InnerSize(g, p) >= size
<1> DEFINE s == Setup(h, p, n)
           g == SplitAndInsert(s, p, size)
           F == E \union {<<p, p + n>>}
<1>1. /\ Chain(s, F, NULL, NULL) /\ Pool(s)
      /\ p \notin Chunks(h)
      /\ Busy(s) = Busy(h) \union {p} /\ Keeps(s, h, Chunks(h))
      /\ InnerSize(s, p) = n - 6
  <2> HIDE DEF g
  <2> QED BY SetupBusy
<1> HIDE DEF s, F
<1>2. p \notin Busy(h) /\ Busy(h) \subseteq Chunks(h)
  BY <1>1 DEF Busy
<1>3. /\ Chain(g, F, NULL, NULL) /\ Pool(g) /\ Busy(g) = Busy(s)
      /\ Keeps(g, s, Busy(s) \ {p})
      /\ InnerSize(s, p) >= size => InnerSize(g, p) >= size
  BY <1>1, CutBusy
<1> HIDE DEF g
<1>4. Keeps(g, h, Busy(h))
  BY <1>1, <1>2, <1>3 DEF Keeps
<1> QED BY <1>1, <1>2, <1>3, <1>4 DEF g, s, F

LEMMA NewArea ==
    ASSUME NEW h, NEW E, Chain(h, E, NULL, NULL), Pool(h),
           NEW p \in Nat, NEW n \in Nat, n >= 8, Free(E, <<p, p + n>>)
    PROVE  LET g == Insert(Setup(h, p, n), p, "FIFO")
           IN  /\ Chain(g, E \union {<<p, p + n>>}, NULL, NULL) /\ Pool(g)
               /\ Busy(g) = Busy(h) /\ Keeps(g, h, Busy(h))
<1> DEFINE s == Setup(h, p, n)
           g == Insert(s, p, "FIFO")
           F == E \union {<<p, p + n>>}
<1>1. /\ Chain(s, F, NULL, NULL) /\ Pool(s)
      /\ p \notin Chunks(h)
      /\ Busy(s) = Busy(h) \union {p} /\ Keeps(s, h, Chunks(h))
  BY SetupBusy
<1> HIDE DEF s, F
<1>2. p \notin Busy(h) /\ Busy(h) \subseteq Chunks(h)
  BY <1>1 DEF Busy
<1>3. p \in Chunks(s) /\ s.status[p] = "ALLOCATED" /\ s.next[p] # NULL
  BY <1>1 DEF Busy
<1>4. /\ Chain(g, F, NULL, NULL) /\ Pool(g)
      /\ Chunks(g) = Chunks(s) /\ g.next = s.next
      /\ g.status[p] = "FREE"
      /\ \A d \in Chunks(s) : d # p => g.status[d] = s.status[d]
  BY <1>1, <1>3, InsertFacts
<1> HIDE DEF g
<1>5. Busy(g) = Busy(s) \ {p}
  BY <1>4 DEF Busy
<1>6. Keeps(g, h, Busy(h))
  BY <1>1, <1>2, <1>4 DEF Keeps
<1> QED BY <1>1, <1>2, <1>4, <1>5, <1>6 DEF g, s, F

(* The first write of a merge, the free chunks being taken from the lists.  *)
LEMMA Gather ==
    ASSUME NEW h, NEW E, Chain(h, E, NULL, NULL), Pool(h),
           NEW first, NEW last, Span(h, E, first, last),
           NEW S \in SUBSET Chunks(h), \A d \in S : h.status[d] = "FREE"
    PROVE  LET g == MergeBack(Remove(h, S), first, last)
           IN  /\ Chain(g, E, first, last) /\ Pool(g) /\ Span(g, E, first, last)
               /\ Chunks(g) = Chunks(h) /\ g.next = h.next
               /\ Busy(g) = Busy(h) \union S /\ \A d \in S : d \notin Busy(h)
               /\ g.prev[first] = h.prev[first]
               /\ \A d \in Chunks(h) : g.status[d] = "FREE" => h.status[d] = "FREE"
<1> DEFINE r == Remove(h, S)
           g == MergeBack(r, first, last)
<1>1. /\ Chain(r, E, NULL, NULL) /\ Pool(r)
      /\ Chunks(r) = Chunks(h) /\ r.next = h.next /\ r.prev = h.prev
      /\ \A d \in Chunks(h) : r.status[d] = IF d \in S THEN "ALLOCATED" ELSE h.status[d]
  BY RemoveFacts
<1> HIDE DEF r
<1>2. Span(r, E, first, last)
  BY <1>1 DEF Span
<1>3. /\ Chain(g, E, first, last)
      /\ Chunks(g) = Chunks(r) /\ g.next = r.next /\ g.status = r.status
      /\ g.lists = r.lists /\ g.filled = r.filled
      /\ \A c \in Chunks(r) : c # r.next[last] => g.prev[c] = r.prev[c]
  BY <1>1, <1>2, MergeBackChain
<1> HIDE DEF g
<1>4. Pool(g)
  BY <1>1, <1>3, PoolSame
<1>5. Span(g, E, first, last)
  BY <1>2, <1>3 DEF Span
<1>6. \A d \in Chunks(h) : h.status[d] = "FREE" => h.next[d] # NULL
  BY DEF Pool, Listed
<1>7. Busy(g) = Busy(h) \union S /\ \A d \in S : d \notin Busy(h)
  BY <1>1, <1>3, <1>6 DEF Busy
<1>8. g.prev[first] = h.prev[first]
  <2>1. first \in Chunks(r) /\ first # r.next[last]
    BY <1>1, <1>2, SpanFacts DEF Span
  <2> QED BY <1>1, <1>3, <2>1
<1> QED BY <1>1, <1>3, <1>4, <1>5, <1>7, <1>8 DEF g, r

(* The second write. *)
LEMMA Join ==
    ASSUME NEW h, NEW E, NEW first, NEW last, Chain(h, E, first, last), Pool(h),
           Span(h, E, first, last),
           Gathered(h, first, last) \subseteq Busy(h)
    PROVE  LET g == MergeForward(h, first, last)
               R == Gathered(h, first, last)
           IN  /\ Chain(g, E, NULL, NULL) /\ Pool(g)
               /\ first \in R /\ Busy(g) = (Busy(h) \ R) \union {first}
               /\ Keeps(g, h, Busy(h) \ R) /\ g.next[first] = h.next[last]
               /\ Chunks(g) = (Chunks(h) \ R) \union {first}
               /\ \A c \in Chunks(g) : g.prev[c] = h.prev[c] /\ g.status[c] = h.status[c]
               /\ \A c \in Chunks(g) : c # first => g.next[c] = h.next[c]
               /\ h.next[last] \in Chunks(g) /\ h.next[last] \notin R
<1> DEFINE g == MergeForward(h, first, last)
           inside == {c \in Chunks(h) : first < c /\ c <= last}
           R == Gathered(h, first, last)
<1>1. /\ Chain(g, E, NULL, NULL)
      /\ Chunks(g) = Chunks(h) \ inside
      /\ first \in Chunks(g) /\ g.next[first] = h.next[last] /\ h.next[last] \in Chunks(g)
      /\ \A c \in Chunks(g) : /\ c # first => g.next[c] = h.next[c]
                              /\ g.prev[c] = h.prev[c]
                              /\ g.status[c] = h.status[c]
      /\ g.lists = h.lists /\ g.filled = h.filled
  BY MergeForwardChain
<1>0. R = {c \in Chunks(h) : first <= c /\ c <= last} /\ R \subseteq Busy(h)
  BY DEF Gathered
<1> HIDE DEF g, R
<1>2. /\ first \in Chunks(h) /\ last \in Chunks(h) /\ first \in Nat /\ last \in Nat /\ first <= last
      /\ h.next[last] # NULL /\ last < h.next[last] /\ h.next[last] \in Nat
      /\ \A c \in Chunks(h) : c \in Nat
  BY SpanFacts, ChainTypes DEF Span
<1>3. first \in R /\ inside = R \ {first} /\ h.next[last] \notin R
  <2>1. first \in R
    BY <1>0, <1>2
  <2>2. \A c \in Chunks(h) : first < c <=> first <= c /\ c # first
    BY <1>2
  <2>3. inside = R \ {first}
    BY <1>0, <2>2
  <2>4. h.next[last] \notin R
    BY <1>0, <1>2
  <2> QED BY <2>1, <2>3, <2>4
<1> HIDE DEF inside
<1>4. Chunks(g) = (Chunks(h) \ R) \union {first}
  BY <1>1, <1>2, <1>3
<1>5. \A c \in R : h.status[c] = "ALLOCATED"
  BY <1>0 DEF Busy
<1>6. Pool(g)
  <2>1. ASSUME NEW d \in Chunks(h), h.status[d] = "FREE"
        PROVE  d \in Chunks(g) /\ g.status[d] = "FREE" /\ g.next[d] = h.next[d]
    <3>1. d \notin R /\ d # first
      BY <1>3, <1>5, <2>1
    <3> QED BY <1>1, <1>4, <2>1, <3>1
  <2>2. \A d \in Chunks(g) : g.status[d] = "FREE" => d \in Chunks(h) /\ h.status[d] = "FREE"
    BY <1>1
  <2> QED BY <1>1, <2>1, <2>2, PoolSame
<1>7. Busy(g) = (Busy(h) \ R) \union {first}
  <2>1. \A d \in Chunks(h) \ R : d \in Busy(g) <=> d \in Busy(h)
    BY <1>1, <1>3, <1>4 DEF Busy
  <2>2. first \in Busy(g)
    BY <1>1, <1>2, <1>3, <1>5 DEF Busy
  <2>3. Busy(g) \subseteq Chunks(g) /\ Busy(h) \subseteq Chunks(h)
    BY DEF Busy
  <2> QED BY <1>4, <2>1, <2>2, <2>3
<1>8. Keeps(g, h, Busy(h) \ R)
  BY <1>1, <1>3, <1>4 DEF Keeps, Busy
<1> QED BY <1>1, <1>3, <1>4, <1>6, <1>7, <1>8 DEF g, R

-----------------------------------------------------------------------------
(* The steps on the memory *)

ExtentsOf(s, u) ==
    {<<b + SegmentHeader, b + s[b]>> : b \in DOMAIN s} \union
    {<<a[1], a[1] + a[2]>> : a \in IF hasSource THEN {} ELSE Areas \ u}

LEMMA ExtentFields ==
    ASSUME Typed, NEW e \in Extents
    PROVE  \/ /\ hasSource
              /\ \E b \in DOMAIN segments : /\ b \in Nat /\ segments[b] \in Nat
                                            /\ e = <<b + 2, b + segments[b]>>
           \/ /\ ~ hasSource
              /\ \E a \in Areas \ unused : a[1] \in Nat /\ a[2] \in Nat /\ e = <<a[1], a[1] + a[2]>>
<1>1. CASE hasSource
  <2>1. PICK b \in DOMAIN segments : e = <<b + SegmentHeader, b + segments[b]>>
    BY <1>1 DEF Extents
  <2>2. b \in Nat /\ segments[b] \in Nat
    BY Memory DEF Typed
  <2> QED BY <1>1, <2>1, <2>2, Memory
<1>2. CASE ~ hasSource
  <2>1. PICK a \in Areas \ unused : e = <<a[1], a[1] + a[2]>>
    BY <1>2 DEF Extents, Typed
  <2>2. a[1] \in Nat /\ a[2] \in Nat
    BY MemoryAssumption
  <2> QED BY <1>2, <2>1, <2>2
<1> QED BY <1>1, <1>2

LEMMA MapFacts ==
    ASSUME Typed, ExtentsApart(Extents), hasSource, NEW b \in Bases, NEW total \in Nat, total >= 10, CanMap(b, total)
    PROVE  /\ Free(Extents, <<b + 2, b + total>>)
           /\ ExtentsOf(Put(segments, b, total), unused) = Extents \union {<<b + 2, b + total>>}
           /\ Put(segments, b, total) \in [DOMAIN Put(segments, b, total) -> Nat]
           /\ DOMAIN Put(segments, b, total) \subseteq Bases
<1> DEFINE s == Put(segments, b, total)
           e == <<b + 2, b + total>>
<1>1. b \in Nat /\ b + total <= MemoryEnd
  BY Memory DEF CanMap
<1>2. \A x \in DOMAIN segments : /\ x \in Nat /\ segments[x] \in Nat
                                 /\ (x + segments[x] <= b \/ b + total <= x)
  BY Memory DEF CanMap, Typed
<1>3. e[1] = b + 2 /\ e[2] = b + total
  OBVIOUS
<1> HIDE DEF e
<1>4. Free(Extents, e)
  <2>1. ASSUME NEW g \in Extents PROVE e[2] <= g[1] \/ g[2] <= e[1]
    <3>1. PICK x \in DOMAIN segments : g = <<x + 2, x + segments[x]>>
      BY ExtentFields
    <3>2. g[1] = x + 2 /\ g[2] = x + segments[x]
      BY <3>1
    <3> QED BY <1>1, <1>2, <1>3, <3>2
  <2>2. e[1] \in Nat /\ e[2] \in Nat /\ e[1] + 8 <= e[2] /\ e[2] <= MemoryEnd
    BY <1>1, <1>3
  <2> QED BY <2>1, <2>2 DEF Free
<1>5. b \notin DOMAIN segments
  <2> SUFFICES ASSUME b \in DOMAIN segments PROVE FALSE
    OBVIOUS
  <2>1. b + segments[b] <= b \/ b + total <= b
    BY <1>2
  <2>2. segments[b] # 0
    <3> DEFINE g == <<b + 2, b + segments[b]>>
    <3>1. g[1] = b + 2 /\ g[2] = b + segments[b]
      OBVIOUS
    <3>2. g \in Extents
      BY Memory DEF Extents
    <3> HIDE DEF g
    <3>3. g[1] + 8 <= g[2]
      BY <3>2, ExtentTypes
    <3> QED BY <1>1, <1>2, <3>1, <3>3
  <2> QED BY <1>1, <1>2, <2>1, <2>2
<1>6. DOMAIN s = DOMAIN segments \union {b} /\ s[b] = total
      /\ \A x \in DOMAIN segments : s[x] = segments[x]
  BY <1>5 DEF Put
<1>7. s = [x \in DOMAIN s |-> s[x]]
  BY DEF Put
<1> HIDE DEF s
<1>8. \A x \in DOMAIN s : s[x] \in Nat /\ x \in Bases
  BY <1>2, <1>6 DEF Typed
<1>9. s \in [DOMAIN s -> Nat] /\ DOMAIN s \subseteq Bases
  BY <1>7, <1>8
<1>10. ExtentsOf(s, unused) = Extents \union {e}
  <2>1. {<<x + SegmentHeader, x + s[x]>> : x \in DOMAIN s} =
        {<<x + SegmentHeader, x + segments[x]>> : x \in DOMAIN segments} \union {e}
    BY <1>6, Memory DEF e
  <2> QED BY <2>1 DEF ExtentsOf, Extents
<1> QED BY <1>4, <1>9, <1>10 DEF e, s

LEMMA CheckedFacts ==
    /\ \A size \in MallocSizes, align \in Aligns :
         /\ size \in Nat \ {0} /\ align \in Nat \ {0}
         /\ CheckedSize(size, align) \in Checked
         /\ CheckedSize(size, align) >= size + (IF align > 1 THEN align ELSE 0)
    /\ \A size \in ReallocSizes :
         size \in Nat \ {0} /\ CheckedSize(size, 1) \in Checked /\ CheckedSize(size, 1) >= size
    /\ \A n \in Checked : n \in Nat \ {0} /\ n <= Unlimited
<1>1. \A size \in MallocSizes, align \in Aligns :
         /\ size \in Nat \ {0} /\ align \in Nat \ {0}
         /\ CheckedSize(size, align) \in Nat \ {0}
         /\ CheckedSize(size, align) >= size + (IF align > 1 THEN align ELSE 0)
  BY RequestsAssumption, Memory DEF CheckedSize, MaxOf
<1>2. \A size \in ReallocSizes :
         size \in Nat \ {0} /\ CheckedSize(size, 1) \in Nat \ {0} /\ CheckedSize(size, 1) >= size
  BY RequestsAssumption, Memory DEF CheckedSize, MaxOf
<1>3. \A n \in Checked : n \in Nat \ {0} /\ n <= Unlimited
  BY <1>1, <1>2, RequestsAssumption DEF Checked
<1> QED BY <1>1, <1>2, <1>3 DEF Checked

LEMMA ChunkAddresses ==
    ASSUME NEW h, NEW E, NEW u, NEW v, Chain(h, E, u, v), NEW c \in Chunks(h)
    PROVE  c \in Addresses /\ c \in Nat /\ c # NULL
<1>1. PICK e \in E : Within(e, c)
  BY HomeExtent
<1>2. c \in Nat /\ c <= MemoryEnd /\ c # NULL
  BY <1>1, ChainTypes, WithinFacts DEF Chain
<1> QED BY <1>2, Memory DEF Addresses

(* The critical section of malloc. *)
LEMMA AllocateFacts ==
    ASSUME Typed, Chain(heap, Extents, NULL, NULL), Pool(heap), NEW size \in Checked,
           NEW r \in Allocate(size)
    PROVE  LET F == ExtentsOf(r.segments, unused)
           IN  /\ Chain(r.heap, F, NULL, NULL) /\ Pool(r.heap) /\ Extents \subseteq F
               /\ r.segments \in [DOMAIN r.segments -> Nat] /\ DOMAIN r.segments \subseteq Bases
               /\ ~ hasSource => DOMAIN r.segments = {}
               /\ Keeps(r.heap, heap, Busy(heap))
               /\ IF r.chunk = NULL
                    THEN Busy(r.heap) = Busy(heap)
                    ELSE /\ r.chunk \in Addresses /\ r.chunk \notin Busy(heap)
                         /\ Busy(r.heap) = Busy(heap) \union {r.chunk}
                         /\ Fitting => InnerSize(r.heap, r.chunk) >= size
<1>1. size \in Nat \ {0} /\ size <= Unlimited
  BY CheckedFacts
<1>2. ExtentsOf(segments, unused) = Extents
  BY DEF ExtentsOf, Extents
<1>3. \A c \in Chunks(heap) : c \in Addresses /\ c # NULL
  BY ChunkAddresses
<1> DEFINE found == FindChunk(heap, size)
<1> HIDE DEF found
<1>4. CASE found # NULL
  <2>1. /\ found \in Chunks(heap) /\ heap.status[found] = "FREE"
        /\ heap.next[found] # NULL /\ InnerSize(heap, found) >= size
    BY <1>1, <1>4, FindFacts DEF found
  <2> DEFINE g == SplitAndInsert(Remove(heap, {found}), found, size)
  <2>2. r = [heap |-> g, segments |-> segments, chunk |-> found]
    BY <1>4 DEF Allocate, found
  <2>3. r.heap = g /\ r.segments = segments /\ r.chunk = found
    BY <2>2
  <2>4. /\ Chain(g, Extents, NULL, NULL) /\ Pool(g)
        /\ found \notin Busy(heap) /\ Busy(g) = Busy(heap) \union {found}
        /\ Keeps(g, heap, Busy(heap))
        /\ InnerSize(heap, found) >= size => InnerSize(g, found) >= size
    BY <1>1, <2>1, TakeFound
  <2> HIDE DEF g
  <2>5. DOMAIN segments \subseteq Bases /\ segments \in [DOMAIN segments -> Nat]
        /\ (~ hasSource => DOMAIN segments = {})
    BY DEF Typed
  <2> QED BY <1>2, <1>3, <1>4, <2>1, <2>3, <2>4, <2>5
<1>5. CASE found = NULL
  <2>1. r \in Refill(size)
    BY <1>5 DEF Allocate, found
  <2>2. CASE r = [heap |-> heap, segments |-> segments, chunk |-> NULL]
    <3>1. r.heap = heap /\ r.segments = segments /\ r.chunk = NULL
      BY <2>2
    <3>2. Keeps(heap, heap, Busy(heap))
      BY DEF Keeps, Busy
    <3>3. DOMAIN segments \subseteq Bases /\ segments \in [DOMAIN segments -> Nat]
          /\ (~ hasSource => DOMAIN segments = {})
      BY DEF Typed
    <3> QED BY <1>2, <3>1, <3>2, <3>3
  <2>3. CASE r # [heap |-> heap, segments |-> segments, chunk |-> NULL]
    <3> DEFINE total == Extent(size)
    <3>1. PICK b \in Bases :
            /\ hasSource /\ CanMap(b, total)
            /\ r = [heap |-> SplitAndInsert(Setup(heap, b + SegmentHeader, total - SegmentHeader),
                                            b + SegmentHeader, size),
                    segments |-> Put(segments, b, total), chunk |-> b + SegmentHeader]
      BY <2>1, <2>3 DEF Refill
    <3>2. total \in Nat /\ total >= 10
      BY <1>1, ExtentFacts
    <3> DEFINE p == b + 2
               n == total - 2
               g == SplitAndInsert(Setup(heap, p, n), p, size)
               e == <<b + 2, b + total>>
    <3>3. r.heap = g /\ r.segments = Put(segments, b, total) /\ r.chunk = p
      BY <3>1, Memory
    <3> HIDE DEF total
    <3>4. /\ Free(Extents, e)
          /\ ExtentsOf(Put(segments, b, total), unused) = Extents \union {e}
          /\ Put(segments, b, total) \in [DOMAIN Put(segments, b, total) -> Nat]
          /\ DOMAIN Put(segments, b, total) \subseteq Bases
      BY <3>1, <3>2, MapFacts DEF Chain
    <3>5. p \in Nat /\ n \in Nat /\ n >= 8 /\ p + n = b + total /\ p + 3 <= b + total
      BY <3>2, Memory
    <3>6. e = <<p, p + n>>
      BY <3>5
    <3>7. /\ Chain(g, Extents \union {<<p, p + n>>}, NULL, NULL) /\ Pool(g)
          /\ p \notin Busy(heap) /\ Busy(g) = Busy(heap) \union {p}
          /\ Keeps(g, heap, Busy(heap))
          /\ n - 6 >= size => InnerSize(g, p) >= size
      <4> HIDE DEF p, n
      <4> QED BY <1>1, <3>4, <3>5, <3>6, NewSegment
    <3>8. p \in Addresses /\ p # NULL
      BY <3>1, <3>5, Memory DEF CanMap, Addresses
    <3>9. Fitting => n - 6 >= size
      BY <1>1, <3>2 DEF Fitting, total
    <3> HIDE DEF p, n, g, e
    <3> QED BY <3>1, <3>3, <3>4, <3>6, <3>7, <3>8, <3>9
  <2> QED BY <2>2, <2>3
<1> QED BY <1>4, <1>5

-----------------------------------------------------------------------------
(* The steps of the threads *)

Moved(t) == \A r \in Threads : r # t => pc'[r] = pc[r] /\ op'[r] = op[r]

LEMMA Moving ==
    ASSUME Typed, NEW t \in Threads, NEW p \in Controls, NEW o \in Ops,
           pc' = [pc EXCEPT ![t] = p], op' = [op EXCEPT ![t] = o],
           p \in {"merge", "grow"} => lock = NULL \/ lock = t,
           lock' = IF p \in {"merge", "grow"} THEN t ELSE IF lock = t THEN NULL ELSE lock
    PROVE  /\ pc' \in [Threads -> Controls] /\ op' \in [Threads -> Ops]
           /\ lock' \in Threads \union {NULL}
           /\ \A r \in Threads : lock' = r <=> pc'[r] \in {"merge", "grow"}
           /\ pc'[t] = p /\ op'[t] = o /\ Moved(t)
<1>1. pc \in [Threads -> Controls] /\ op \in [Threads -> Ops] /\ lock \in Threads \union {NULL}
      /\ \A r \in Threads : lock = r <=> pc[r] \in {"merge", "grow"}
  BY DEF Typed
<1>2. pc'[t] = p /\ op'[t] = o /\ \A r \in Threads : r # t => pc'[r] = pc[r] /\ op'[r] = op[r]
  BY <1>1
<1>3. pc' \in [Threads -> Controls] /\ op' \in [Threads -> Ops]
  BY <1>1
<1>4. \A r \in Threads : r # NULL
  BY Memory
<1>5. lock' \in Threads \union {NULL}
      /\ \A r \in Threads : lock' = r <=> pc'[r] \in {"merge", "grow"}
  BY <1>1, <1>2, <1>4
<1> QED BY <1>2, <1>3, <1>5 DEF Moved

(* A thread is between the two writes of a merge while it holds the lock.   *)
LEMMA Unlocked ==
    ASSUME Inv, lock = NULL
    PROVE  /\ \A r \in Threads : pc[r] \notin {"merge", "grow"}
           /\ Chain(heap, Extents, NULL, NULL)
BY Memory DEF Inv, Typed, MergeFirst, MergeLast

(* Every chunk in a hand is in use, and in no other one. *)
LEMMA HandFacts ==
    ASSUME Inv, NEW t \in Threads
    PROVE  /\ Hand(t) \subseteq Busy(heap)
           /\ \A r \in Threads : r # t => \A c \in Hand(r) : c \in Busy(heap) \ Hand(t)
           /\ \A b \in live : b.chunk \in Busy(heap) \ Hand(t)
<1>1. \A r \in Threads : Hands[r] = Hand(r)
  BY DEF Hands
<1>2. Shared(Busy(heap), live, Hands)
  BY DEF Inv
<1> QED BY <1>1, <1>2 DEF Shared

(* The other threads, when no one else holds the lock and what changes is   *)
(* not in their hands.                                                      *)
LEMMA OthersStay ==
    ASSUME Inv, NEW t \in Threads, Moved(t), hasSource' = hasSource,
           lock = NULL \/ lock = t,
           Keeps(heap', heap, Busy(heap) \ Hand(t)), Extents \subseteq Extents'
    PROVE  /\ Hands' = [Hands EXCEPT ![t] = Hand(t)']
           /\ \A r \in Threads : r # t => Knows(heap, Extents, r)'
           /\ \A b \in live : Placed(b) /\ Fits(heap', b)
<1>1. \A r \in Threads : r # t => pc[r] \notin {"merge", "grow"}
  BY Memory DEF Inv, Typed
<1>2. \A r \in Threads : r # t => Hand(r)' = Hand(r)
  BY <1>1 DEF Hand, InHand, Moved
<1>3. Hands' = [Hands EXCEPT ![t] = Hand(t)']
  BY <1>2 DEF Hands
<1>4. ASSUME NEW r \in Threads, r # t PROVE Knows(heap, Extents, r)'
  <2>1. \A c \in Hand(r) : heap'.next[c] = heap.next[c]
    BY <1>4, HandFacts DEF Keeps
  <2>2. pc'[r] = pc[r] /\ op'[r] = op[r] /\ Knows(heap, Extents, r)
    BY <1>4 DEF Moved, Inv
  <2>3. pc[r] \in {"resize", "move"} => op[r].block.chunk \in Hand(r)
    BY DEF Hand, InHand
  <2>4. pc[r] = "unmap" => op[r].first \in Hand(r)
    BY DEF Hand, InHand
  <2>5. pc[r] \in {"resize", "move"} => Fits(heap', op[r].block)
    BY <2>1, <2>2, <2>3 DEF Knows, Fits
  <2>6. pc[r] = "unmap" => /\ hasSource'
                           /\ \E e \in Extents' : /\ op[r].first = e[1]
                                                  /\ heap'.next[op[r].first] = e[2] - HeaderSize
    BY <2>1, <2>2, <2>4 DEF Knows
  <2> QED BY <1>1, <1>4, <2>2, <2>5, <2>6 DEF Knows
<1>5. ASSUME NEW b \in live PROVE Placed(b) /\ Fits(heap', b)
  <2>1. Placed(b) /\ Fits(heap, b)
    BY DEF Inv
  <2>2. heap'.next[b.chunk] = heap.next[b.chunk]
    BY HandFacts DEF Keeps
  <2> QED BY <2>1, <2>2 DEF Fits
<1> QED BY <1>3, <1>4, <1>5

(* The same when the memory does not change, whoever holds the lock.        *)
LEMMA OthersSame ==
    ASSUME Inv, NEW t \in Threads, Moved(t), hasSource' = hasSource,
           heap' = heap, Extents' = Extents
    PROVE  /\ Hands' = [Hands EXCEPT ![t] = Hand(t)']
           /\ \A r \in Threads : r # t => Knows(heap, Extents, r)'
<1>1. \A r \in Threads : r # t => Hand(r)' = Hand(r)
  BY DEF Hand, InHand, Moved
<1>2. Hands' = [Hands EXCEPT ![t] = Hand(t)']
  BY <1>1 DEF Hands
<1>3. ASSUME NEW r \in Threads, r # t PROVE Knows(heap, Extents, r)'
  <2>1. pc'[r] = pc[r] /\ op'[r] = op[r] /\ Knows(heap, Extents, r)
    BY <1>3 DEF Moved, Inv
  <2> QED BY <2>1 DEF Knows
<1> QED BY <1>2, <1>3

LEMMA MergeSame ==
    ASSUME Inv, NEW t \in Threads, Moved(t), lock' = lock, lock # t
    PROVE  MergeFirst' = MergeFirst /\ MergeLast' = MergeLast
BY DEF Inv, Typed, Moved, MergeFirst, MergeLast

(* The room of a chunk in use. *)
LEMMA Room ==
    ASSUME NEW h, NEW E, NEW u, NEW v, Chain(h, E, u, v), NEW c \in Busy(h)
    PROVE  /\ c \in Nat /\ h.next[c] \in Nat /\ GetPtr(c) = c + 3
           /\ InnerSize(h, c) \in Nat /\ InnerSize(h, c) = h.next[c] - c - 3
BY NextFacts, Memory DEF Busy, GetPtr

LEMMA MallocStep ==
    ASSUME Inv, NEW t \in Threads, Malloc(t)
    PROVE  Inv'
<1>1. /\ pc[t] = "idle" /\ lock = NULL
      /\ UNCHANGED <<hasSource, unused, lock, pc, op>>
  BY DEF Malloc
<1>2. PICK size \in MallocSizes, align \in Aligns :
      \E r \in Allocate(CheckedSize(size, align)) :
        LET ptr == AlignUp(GetPtr(r.chunk), align)
        IN  /\ heap' = r.heap /\ segments' = r.segments
            /\ live' = IF r.chunk = NULL THEN live
                       ELSE live \union {Block(r.chunk, ptr, size, ptr)}
  BY DEF Malloc
<1> DEFINE n == CheckedSize(size, align)
<1>3. PICK r \in Allocate(n) :
        LET ptr == AlignUp(GetPtr(r.chunk), align)
        IN  /\ heap' = r.heap /\ segments' = r.segments
            /\ live' = IF r.chunk = NULL THEN live
                       ELSE live \union {Block(r.chunk, ptr, size, ptr)}
  BY <1>2
<1>4. /\ n \in Checked /\ n \in Nat /\ size \in Nat \ {0} /\ align \in Nat \ {0}
      /\ n >= size + (IF align > 1 THEN align ELSE 0)
  BY CheckedFacts
<1> HIDE DEF n
<1> DEFINE c == r.chunk
           ptr == AlignUp(GetPtr(c), align)
           x == Block(c, ptr, size, ptr)
<1>5. heap' = r.heap /\ segments' = r.segments
      /\ live' = IF c = NULL THEN live ELSE live \union {x}
  BY <1>3
<1>6. Typed /\ Chain(heap, Extents, NULL, NULL) /\ Pool(heap)
  BY <1>1, Unlocked DEF Inv
<1>7. ExtentsOf(r.segments, unused) = Extents'
  BY <1>1, <1>5 DEF ExtentsOf, Extents
<1>8. /\ Chain(heap', Extents', NULL, NULL) /\ Pool(heap') /\ Extents \subseteq Extents'
      /\ segments' \in [DOMAIN segments' -> Nat] /\ DOMAIN segments' \subseteq Bases
      /\ ~ hasSource => DOMAIN segments' = {}
      /\ Keeps(heap', heap, Busy(heap))
      /\ IF c = NULL
           THEN Busy(heap') = Busy(heap)
           ELSE /\ c \in Addresses /\ c \notin Busy(heap)
                /\ Busy(heap') = Busy(heap) \union {c}
                /\ Fitting => InnerSize(heap', c) >= n
  BY <1>4, <1>5, <1>6, <1>7, AllocateFacts
<1>9. Moved(t) /\ Keeps(heap', heap, Busy(heap) \ Hand(t)) /\ hasSource' = hasSource
  BY <1>1, <1>8 DEF Moved, Keeps
<1>10. /\ Hands' = [Hands EXCEPT ![t] = Hand(t)']
       /\ \A q \in Threads : q # t => Knows(heap, Extents, q)'
       /\ \A b \in live : Placed(b) /\ Fits(heap', b)
  BY <1>1, <1>8, <1>9, OthersStay
<1>11. Hands' = Hands
  <2>1. Hand(t) = {} /\ Hand(t)' = {}
    BY <1>1 DEF Hand, InHand
  <2> QED BY <1>10, <2>1 DEF Hands
<1>12. Knows(heap, Extents, t)'
  BY <1>1 DEF Knows
<1>13. Shared(Busy(heap), live, Hands) /\ Hands = [q \in Threads |-> Hands[q]]
  BY DEF Inv, Hands
<1>14. Chain(heap, Extents, MergeFirst, MergeLast)'
  BY <1>1, <1>8 DEF MergeFirst, MergeLast
<1>15. CASE c = NULL
  <2>1. live' = live /\ Busy(heap') = Busy(heap)
    BY <1>5, <1>8, <1>15
  <2>2. Typed'
    BY <1>1, <1>6, <1>8, <2>1 DEF Typed
  <2> QED BY <1>8, <1>10, <1>11, <1>12, <1>13, <1>14, <2>1, <2>2 DEF Inv
<1>16. CASE c # NULL
  <2>1. /\ live' = live \union {x} /\ Busy(heap') = Busy(heap) \union {c} /\ c \notin Busy(heap)
        /\ c \in Addresses /\ c \in Busy(heap')
    BY <1>5, <1>8, <1>16
  <2>2. c \in Nat /\ heap'.next[c] \in Nat /\ GetPtr(c) = c + 3
        /\ InnerSize(heap', c) = heap'.next[c] - c - 3
    BY <1>8, <2>1, Room
  <2>3. ptr \in Nat /\ c + 3 <= ptr /\ ptr < c + 3 + align
    BY <1>4, <2>2, RoundUpFacts DEF AlignUp
  <2> HIDE DEF c, ptr
  <2>4. x \in Blocks /\ x.chunk = c /\ x.ptr = ptr /\ x.size = size /\ x.data = ptr
    BY <1>4, <2>1, <2>3 DEF Block, Blocks
  <2> HIDE DEF x
  <2>5. Placed(x)
    BY <2>2, <2>3, <2>4 DEF Placed
  <2>6. Fits(heap', x)
    <3>1. ASSUME Fitting PROVE ptr + size <= heap'.next[c]
      <4>1. heap'.next[c] - c - 3 >= n
        BY <1>8, <1>16, <2>2, <3>1
      <4>2. CASE align > 1
        BY <1>4, <2>2, <2>3, <4>1, <4>2
      <4>3. CASE align = 1
        BY <1>4, <2>2, <2>3, <4>1, <4>3
      <4> QED BY <1>4, <4>2, <4>3
    <3> QED BY <2>4, <3>1 DEF Fits
  <2>7. Typed'
    BY <1>1, <1>6, <1>8, <2>1, <2>4 DEF Typed
  <2>8. Shared(Busy(heap'), live', Hands')
    BY <1>11, <1>13, <2>1, <2>4, GiveLive
  <2> QED BY <1>8, <1>10, <1>12, <1>14, <2>1, <2>5, <2>6, <2>7, <2>8 DEF Inv
<1> QED BY <1>15, <1>16

LEMMA NoOpTypes ==
    /\ NoOp \in Ops
    /\ \A c \in Addresses : /\ [NoOp EXCEPT !.first = c] \in Ops
                            /\ [NoOp EXCEPT !.first = c].first = c
    /\ \A b \in Blocks, n \in Nat : /\ [NoOp EXCEPT !.block = b, !.size = n] \in Ops
                                    /\ [NoOp EXCEPT !.block = b, !.size = n].block = b
                                    /\ [NoOp EXCEPT !.block = b, !.size = n].size = n
BY DEF NoOp, Ops

LEMMA FreeBeginStep ==
    ASSUME Inv, NEW t \in Threads, FreeBegin(t)
    PROVE  Inv'
<1>1. pc[t] = "idle" /\ UNCHANGED <<hasSource, heap, segments, unused, lock>>
  BY DEF FreeBegin
<1>2. PICK b \in live :
        /\ live' = live \ {b}
        /\ IF heap.status[b.chunk] = "FREE"
             THEN UNCHANGED <<pc, op>>
             ELSE /\ pc' = [pc EXCEPT ![t] = "free"]
                  /\ op' = [op EXCEPT ![t] = [NoOp EXCEPT !.first = b.chunk]]
  BY DEF FreeBegin
<1> DEFINE o == [NoOp EXCEPT !.first = b.chunk]
<1>3. Typed /\ b \in Blocks /\ b.chunk \in Addresses
  BY DEF Inv, Typed, Blocks
<1>4. heap.status[b.chunk] = "ALLOCATED"
  BY HandFacts DEF Busy
<1>5. pc' = [pc EXCEPT ![t] = "free"] /\ op' = [op EXCEPT ![t] = o]
  BY <1>2, <1>4
<1>6. o \in Ops /\ o.first = b.chunk
  BY <1>3, NoOpTypes
<1> HIDE DEF o
<1>7. lock # t
  BY <1>1, <1>3 DEF Typed
<1>8. /\ pc' \in [Threads -> Controls] /\ op' \in [Threads -> Ops]
      /\ lock' \in Threads \union {NULL}
      /\ \A q \in Threads : lock' = q <=> pc'[q] \in {"merge", "grow"}
      /\ pc'[t] = "free" /\ op'[t] = o /\ Moved(t)
  <2>1. "free" \in Controls /\ "free" \notin {"merge", "grow"}
    BY DEF Controls
  <2> QED BY <1>1, <1>3, <1>5, <1>6, <1>7, <2>1, Moving
<1>9. Extents' = Extents
  BY <1>1 DEF Extents
<1>10. /\ Hands' = [Hands EXCEPT ![t] = Hand(t)']
       /\ \A q \in Threads : q # t => Knows(heap, Extents, q)'
  BY <1>1, <1>8, <1>9, OthersSame
<1>11. Hand(t) = {} /\ Hand(t)' = {b.chunk}
  BY <1>1, <1>6, <1>8 DEF Hand, InHand
<1>12. Shared(Busy(heap), live, Hands) /\ Hands = [q \in Threads |-> Hands[q]] /\ Hands[t] = {}
  BY <1>11 DEF Inv, Hands
<1>13. Shared(Busy(heap'), live', Hands')
  BY <1>1, <1>2, <1>10, <1>11, <1>12, LiveToHand
<1>14. Knows(heap, Extents, t)'
  BY <1>8 DEF Knows
<1>15. Chain(heap, Extents, MergeFirst, MergeLast)' /\ Pool(heap)'
  BY <1>1, <1>7, <1>8, <1>9, MergeSame DEF Inv
<1>16. Typed'
  BY <1>1, <1>2, <1>3, <1>8 DEF Typed
<1>17. \A x \in live' : Placed(x) /\ Fits(heap', x)
  BY <1>1, <1>2 DEF Inv
<1> QED BY <1>10, <1>13, <1>14, <1>15, <1>16, <1>17 DEF Inv

LEMMA ReallocBeginStep ==
    ASSUME Inv, NEW t \in Threads, ReallocBegin(t)
    PROVE  Inv'
<1>1. pc[t] = "idle" /\ UNCHANGED <<hasSource, heap, segments, unused, lock>>
  BY DEF ReallocBegin
<1>2. PICK b \in {x \in live : ReallocPadded \/ x.ptr = GetPtr(x.chunk)}, size \in ReallocSizes :
        LET oldSize == InnerSize(heap, b.chunk)
        IN  IF oldSize >= size /\ oldSize - size <= ReallocThreshold
              THEN /\ live' = (live \ {b}) \union {[b EXCEPT !.size = size]}
                   /\ UNCHANGED <<pc, op>>
              ELSE /\ live' = live \ {b}
                   /\ pc' = [pc EXCEPT ![t] = "resize"]
                   /\ op' = [op EXCEPT ![t] = [NoOp EXCEPT !.block = b, !.size = size]]
  BY DEF ReallocBegin
<1>3. Typed /\ b \in live /\ b \in Blocks /\ b.chunk \in Addresses /\ size \in Nat \ {0}
  BY CheckedFacts DEF Inv, Typed, Blocks
<1>4. Placed(b) /\ Fits(heap, b) /\ (ReallocPadded = FALSE => b.ptr = GetPtr(b.chunk))
  BY <1>2, <1>3 DEF Inv
<1>5. lock # t
  BY <1>1, <1>3 DEF Typed
<1>6. Extents' = Extents
  BY <1>1 DEF Extents
<1>7. \A x \in live : Placed(x) /\ Fits(heap', x)
  BY <1>1 DEF Inv
<1>8. CASE InnerSize(heap, b.chunk) >= size /\ InnerSize(heap, b.chunk) - size <= ReallocThreshold
  <2> DEFINE y == [b EXCEPT !.size = size]
  <2>1. live' = (live \ {b}) \union {y} /\ UNCHANGED <<pc, op>>
    BY <1>2, <1>8
  <2>2. y \in Blocks /\ y.chunk = b.chunk /\ y.ptr = b.ptr /\ y.size = size /\ y.data = b.data
    BY <1>3 DEF Blocks
  <2> HIDE DEF y
  <2>3. Placed(y)
    BY <1>4, <2>2 DEF Placed
  <2>4. Fits(heap, y)
    <3> DEFINE c == b.chunk
    <3>1. c \in Busy(heap)
      BY <1>3, HandFacts
    <3>2. c \in Nat /\ heap.next[c] \in Nat /\ GetPtr(c) = c + 3
          /\ InnerSize(heap, c) = heap.next[c] - c - 3
      BY <3>1, Room DEF Inv
    <3>3. ReallocPadded = FALSE => b.ptr = c + 3
      BY <1>4, <3>2
    <3>4. heap.next[c] - c - 3 >= size
      BY <1>8, <3>2
    <3> HIDE DEF c
    <3>5. c + 3 + size <= heap.next[c]
      BY <1>3, <3>2, <3>4
    <3> QED BY <2>2, <3>3, <3>5 DEF Fits, c
  <2>5. Moved(t) /\ hasSource' = hasSource /\ Hand(t)' = Hand(t)
    BY <1>1, <2>1 DEF Moved, Hand, InHand
  <2>6. Hands' = [Hands EXCEPT ![t] = Hand(t)']
        /\ \A q \in Threads : q # t => Knows(heap, Extents, q)'
    BY <1>1, <1>6, <2>5, OthersSame
  <2>7. Hands' = Hands
    BY <2>5, <2>6 DEF Hands
  <2>8. Knows(heap, Extents, t)'
    BY <1>1, <2>1 DEF Knows
  <2>9. Chain(heap, Extents, MergeFirst, MergeLast)' /\ Pool(heap)'
    BY <1>1, <1>5, <1>6, <2>5, MergeSame DEF Inv
  <2>10. Shared(Busy(heap'), live', Hands')
    BY <1>1, <1>3, <2>1, <2>2, <2>7, LiveChanged DEF Inv
  <2>11. Typed'
    BY <1>1, <1>3, <2>1, <2>2 DEF Typed
  <2> QED BY <1>1, <1>7, <2>1, <2>3, <2>4, <2>6, <2>8, <2>9, <2>10, <2>11 DEF Inv
<1>9. CASE ~ (InnerSize(heap, b.chunk) >= size /\ InnerSize(heap, b.chunk) - size <= ReallocThreshold)
  <2> DEFINE o == [NoOp EXCEPT !.block = b, !.size = size]
  <2>1. /\ live' = live \ {b}
        /\ pc' = [pc EXCEPT ![t] = "resize"] /\ op' = [op EXCEPT ![t] = o]
    BY <1>2, <1>9
  <2>2. o \in Ops /\ o.block = b /\ o.size = size
    BY <1>3, NoOpTypes
  <2> HIDE DEF o
  <2>3. /\ pc' \in [Threads -> Controls] /\ op' \in [Threads -> Ops]
        /\ lock' \in Threads \union {NULL}
        /\ \A q \in Threads : lock' = q <=> pc'[q] \in {"merge", "grow"}
        /\ pc'[t] = "resize" /\ op'[t] = o /\ Moved(t)
    <3>1. "resize" \in Controls /\ "resize" \notin {"merge", "grow"}
      BY DEF Controls
    <3> QED BY <1>1, <1>3, <1>5, <2>1, <2>2, <3>1, Moving
  <2>4. /\ Hands' = [Hands EXCEPT ![t] = Hand(t)']
        /\ \A q \in Threads : q # t => Knows(heap, Extents, q)'
    BY <1>1, <1>6, <2>3, OthersSame
  <2>5. Hand(t) = {} /\ Hand(t)' = {b.chunk}
    BY <1>1, <2>2, <2>3 DEF Hand, InHand
  <2>6. Shared(Busy(heap), live, Hands) /\ Hands = [q \in Threads |-> Hands[q]] /\ Hands[t] = {}
    BY <2>5 DEF Inv, Hands
  <2>7. Shared(Busy(heap'), live', Hands')
    BY <1>1, <1>3, <2>1, <2>4, <2>5, <2>6, LiveToHand
  <2>8. Knows(heap, Extents, t)'
    BY <1>1, <1>2, <1>3, <1>4, <2>2, <2>3 DEF Knows
  <2>9. Chain(heap, Extents, MergeFirst, MergeLast)' /\ Pool(heap)'
    BY <1>1, <1>5, <1>6, <2>3, MergeSame DEF Inv
  <2>10. Typed'
    BY <1>1, <1>3, <2>1, <2>3 DEF Typed
  <2> QED BY <1>7, <2>1, <2>4, <2>7, <2>8, <2>9, <2>10 DEF Inv
<1> QED BY <1>8, <1>9

LEMMA FreeMergeStep ==
    ASSUME Inv, NEW t \in Threads, FreeMerge(t)
    PROVE  Inv'
<1> DEFINE c == op[t].first
           S == FreeNeighbours(heap, c)
           first == MinOf(S \union {c})
           last == RunEnd(heap, c)
           o == [op[t] EXCEPT !.first = first, !.last = last]
<1>1. /\ pc[t] = "free" /\ lock = NULL
      /\ heap' = MergeBack(Remove(heap, S), first, last)
      /\ op' = [op EXCEPT ![t].first = first, ![t].last = last]
      /\ lock' = t /\ pc' = [pc EXCEPT ![t] = "merge"]
      /\ UNCHANGED <<hasSource, segments, unused, live>>
  BY DEF FreeMerge
<1>2. Typed /\ Pool(heap) /\ Chain(heap, Extents, NULL, NULL) /\ Extents' = Extents
      /\ ~ t = NULL
  BY <1>1, Unlocked, Memory DEF Inv, Extents
<1>3. Hand(t) = {c}
  BY <1>1 DEF Hand, InHand
<1>4. c \in Busy(heap) /\ c \in Chunks(heap) /\ heap.next[c] # NULL
  BY <1>3, HandFacts DEF Busy
<1>5. /\ Span(heap, Extents, first, last) /\ first <= c /\ c <= last
      /\ ~ FreeBefore(heap, first) /\ ~ FreeAfter(heap, last)
      /\ S \subseteq Chunks(heap) /\ c \notin S
      /\ \A d \in Chunks(heap) : first <= d /\ d <= last <=> d \in S \union {c}
      /\ \A d \in S : heap.status[d] = "FREE"
  BY <1>2, <1>4, NeighboursFacts DEF Pool
<1> HIDE DEF S, first, last
<1>6. /\ Chain(heap', Extents, first, last) /\ Pool(heap') /\ Span(heap', Extents, first, last)
      /\ Chunks(heap') = Chunks(heap) /\ heap'.next = heap.next
      /\ Busy(heap') = Busy(heap) \union S /\ \A d \in S : d \notin Busy(heap)
      /\ heap'.prev[first] = heap.prev[first]
      /\ \A d \in Chunks(heap) : heap'.status[d] = "FREE" => heap.status[d] = "FREE"
  BY <1>1, <1>2, <1>5, Gather
<1>7. o \in Ops /\ o.first = first /\ o.last = last /\ op' = [op EXCEPT ![t] = o]
  <2>1. op[t] \in Ops
    BY <1>2 DEF Typed
  <2>2. \A x \in Chunks(heap) : x \in Addresses
    BY <1>2, ChunkAddresses
  <2>3. first \in Addresses /\ last \in Addresses
    BY <1>5, <2>2 DEF Span
  <2> QED BY <1>1, <2>1, <2>3 DEF Ops
<1> HIDE DEF o
<1>8. /\ pc' \in [Threads -> Controls] /\ op' \in [Threads -> Ops]
      /\ lock' \in Threads \union {NULL}
      /\ \A q \in Threads : lock' = q <=> pc'[q] \in {"merge", "grow"}
      /\ pc'[t] = "merge" /\ op'[t] = o /\ Moved(t)
  <2>1. "merge" \in Controls
    BY DEF Controls
  <2> QED BY <1>1, <1>2, <1>7, <2>1, Moving
<1>9. Keeps(heap', heap, Busy(heap) \ Hand(t))
  BY <1>6 DEF Keeps, Busy
<1>10. /\ Hands' = [Hands EXCEPT ![t] = Hand(t)']
       /\ \A q \in Threads : q # t => Knows(heap, Extents, q)'
       /\ \A b \in live : Placed(b) /\ Fits(heap', b)
  BY <1>1, <1>2, <1>8, <1>9, OthersStay
<1>11. Hand(t)' = S \union {c}
  <2>1. Hand(t)' = {d \in Chunks(heap') : first <= d /\ d <= last}
    BY <1>7, <1>8 DEF Hand, InHand, Gathered
  <2> QED BY <1>4, <1>5, <1>6, <2>1
<1>12. Shared(Busy(heap'), live', Hands')
  <2>1. Shared(Busy(heap), live, Hands) /\ Hands = [q \in Threads |-> Hands[q]] /\ Hands[t] = {c}
    BY <1>3 DEF Inv, Hands
  <2>2. Busy(heap') = (Busy(heap) \ Hands[t]) \union (S \union {c})
    BY <1>4, <1>6, <2>1
  <2>3. \A d \in S \union {c} : d \in Hands[t] \/ d \notin Busy(heap)
    BY <1>6, <2>1
  <2> QED BY <1>1, <1>10, <1>11, <2>1, <2>2, <2>3, HandMoves
<1>13. Knows(heap, Extents, t)'
  <2>1. ~ FreeBefore(heap', first)
    BY <1>2, <1>5, <1>6, ChainTypes DEF FreeBefore, Span
  <2>2. ~ FreeAfter(heap', last)
    BY <1>2, <1>5, <1>6, ChainTypes DEF FreeAfter, Span
  <2> QED BY <1>2, <1>6, <1>7, <1>8, <2>1, <2>2 DEF Knows
<1>14. Chain(heap, Extents, MergeFirst, MergeLast)'
  BY <1>1, <1>2, <1>6, <1>7, <1>8 DEF MergeFirst, MergeLast
<1>15. Typed'
  BY <1>1, <1>2, <1>8 DEF Typed
<1>16. \A b \in live' : Placed(b) /\ Fits(heap', b)
  BY <1>1, <1>10
<1> QED BY <1>6, <1>10, <1>12, <1>13, <1>14, <1>15, <1>16 DEF Inv

(* The state a thread finds between the two writes of its own merge.        *)
LEMMA Merging ==
    ASSUME Inv, NEW t \in Threads, pc[t] \in {"merge", "grow"}
    PROVE  /\ lock = t /\ t # NULL
           /\ Chain(heap, Extents, op[t].first, op[t].last)
           /\ Span(heap, Extents, op[t].first, op[t].last)
           /\ Hand(t) = Gathered(heap, op[t].first, op[t].last)
           /\ Hand(t) \subseteq Busy(heap)
<1>1. lock = t /\ t # NULL
  BY Memory DEF Inv, Typed
<1>2. Chain(heap, Extents, op[t].first, op[t].last)
  BY <1>1 DEF Inv, MergeFirst, MergeLast
<1>3. Span(heap, Extents, op[t].first, op[t].last)
  BY DEF Inv, Knows
<1>4. Hand(t) = Gathered(heap, op[t].first, op[t].last)
  BY DEF Hand, InHand
<1> QED BY <1>1, <1>2, <1>3, <1>4, HandFacts

(* A chunk without neighbours is the only one of its extent. *)
LEMMA SingleFacts ==
    ASSUME NEW h, NEW E, Chain(h, E, NULL, NULL), NEW c \in Chunks(h), h.next[c] # NULL,
           IsSingle(h, c)
    PROVE  \E e \in E : c = e[1] /\ h.next[c] = e[2] - HeaderSize
<1>1. h.prev[c] = NULL /\ h.next[h.next[c]] = NULL
  BY DEF IsSingle
<1>2. PICK e \in E : c = e[1]
  BY <1>1, PrevFacts
<1>3. ExtentsApart(E)
  BY DEF Chain
<1>4. e[1] \in Nat /\ e[2] \in Nat /\ e[1] + 8 <= e[2]
  BY <1>3, ExtentTypes
<1>5. h.next[c] \in Chunks(h) /\ h.next[c] \in Nat /\ h.next[c] >= c + 5
  BY NextFacts
<1>6. e[1] <= c /\ c < e[2]
  BY <1>2, <1>4
<1>7. h.next[c] + 3 <= e[2]
  BY <1>6, InExtent
<1>8. e[1] <= h.next[c] /\ h.next[c] < e[2]
  BY <1>2, <1>4, <1>5, <1>7
<1>9. h.next[c] = e[2] - 3
  BY <1>1, <1>5, <1>8, InExtent
<1> QED BY <1>2, <1>9, Memory

LEMMA FreeInsertStep ==
    ASSUME Inv, NEW t \in Threads, FreeInsert(t)
    PROVE  Inv'
<1> DEFINE c == op[t].first
           last == op[t].last
           h == MergeForward(heap, c, last)
           R == Hand(t)
<1>1. pc[t] = "merge" /\ lock' = NULL /\ UNCHANGED <<hasSource, segments, unused, live>>
  BY DEF FreeInsert
<1>2. IF hasSource /\ IsSingle(h, c)
        THEN /\ heap' = h
             /\ pc' = [pc EXCEPT ![t] = "unmap"]
             /\ op' = [op EXCEPT ![t] = [NoOp EXCEPT !.first = c]]
        ELSE /\ heap' = Insert(h, c, "FIFO")
             /\ pc' = [pc EXCEPT ![t] = "idle"]
             /\ op' = [op EXCEPT ![t] = NoOp]
  BY DEF FreeInsert
<1>3. /\ lock = t /\ t # NULL
      /\ Chain(heap, Extents, c, last) /\ Span(heap, Extents, c, last)
      /\ R = Gathered(heap, c, last) /\ R \subseteq Busy(heap)
  BY <1>1, Merging
<1>4. Typed /\ Pool(heap) /\ Extents' = Extents
  BY <1>1 DEF Inv, Extents
<1> HIDE DEF R
<1>5. /\ Chain(h, Extents, NULL, NULL) /\ Pool(h)
      /\ c \in R /\ Busy(h) = (Busy(heap) \ R) \union {c}
      /\ Keeps(h, heap, Busy(heap) \ R) /\ h.next[c] = heap.next[last]
  <2>1. Pool(heap)
    BY <1>4
  <2> HIDE DEF c, last
  <2> QED BY <1>3, <2>1, Join
<1> HIDE DEF h
<1>6. c \in Chunks(h) /\ h.status[c] = "ALLOCATED" /\ h.next[c] # NULL
  BY <1>5 DEF Busy
<1>7. c \in Addresses /\ NoOp \in Ops
      /\ [NoOp EXCEPT !.first = c] \in Ops /\ [NoOp EXCEPT !.first = c].first = c
  <2>1. c \in Addresses
    BY <1>3, ChunkAddresses DEF Span
  <2> QED BY <2>1, NoOpTypes
<1>8. Shared(Busy(heap), live, Hands) /\ Hands = [q \in Threads |-> Hands[q]] /\ Hands[t] = R
  BY DEF Inv, Hands, R
<1>9. CASE hasSource /\ IsSingle(h, c)
  <2> DEFINE o == [NoOp EXCEPT !.first = c]
  <2>1. heap' = h /\ pc' = [pc EXCEPT ![t] = "unmap"] /\ op' = [op EXCEPT ![t] = o]
    BY <1>2, <1>9
  <2>2. o \in Ops /\ o.first = c
    BY <1>7
  <2> HIDE DEF o
  <2>3. /\ pc' \in [Threads -> Controls] /\ op' \in [Threads -> Ops]
        /\ lock' \in Threads \union {NULL}
        /\ \A q \in Threads : lock' = q <=> pc'[q] \in {"merge", "grow"}
        /\ pc'[t] = "unmap" /\ op'[t] = o /\ Moved(t)
    <3>1. "unmap" \in Controls /\ "unmap" \notin {"merge", "grow"}
      BY DEF Controls
    <3> QED BY <1>1, <1>3, <1>4, <2>1, <2>2, <3>1, Moving
  <2>4. /\ Hands' = [Hands EXCEPT ![t] = Hand(t)']
        /\ \A q \in Threads : q # t => Knows(heap, Extents, q)'
        /\ \A b \in live : Placed(b) /\ Fits(heap', b)
    BY <1>1, <1>3, <1>4, <1>5, <2>1, <2>3, OthersStay DEF R
  <2>5. Hand(t)' = {c}
    BY <2>2, <2>3 DEF Hand, InHand
  <2>6. Shared(Busy(heap'), live', Hands')
    BY <1>1, <1>5, <1>8, <2>1, <2>4, <2>5, HandMoves
  <2>7. PICK e \in Extents : c = e[1] /\ h.next[c] = e[2] - HeaderSize
    BY <1>5, <1>6, <1>9, SingleFacts
  <2>8. Knows(heap, Extents, t)'
    BY <1>1, <1>4, <1>9, <2>1, <2>2, <2>3, <2>7 DEF Knows
  <2>9. Chain(heap, Extents, MergeFirst, MergeLast)'
    BY <1>1, <1>4, <1>5, <2>1 DEF MergeFirst, MergeLast
  <2>10. Typed'
    BY <1>1, <1>4, <2>3 DEF Typed
  <2> QED BY <1>1, <1>5, <2>1, <2>4, <2>6, <2>8, <2>9, <2>10 DEF Inv
<1>10. CASE ~ (hasSource /\ IsSingle(h, c))
  <2>1. heap' = Insert(h, c, "FIFO") /\ pc' = [pc EXCEPT ![t] = "idle"]
        /\ op' = [op EXCEPT ![t] = NoOp]
    BY <1>2, <1>10
  <2>2. /\ Chain(heap', Extents, NULL, NULL) /\ Pool(heap')
        /\ Chunks(heap') = Chunks(h) /\ heap'.next = h.next
        /\ heap'.status[c] = "FREE"
        /\ \A d \in Chunks(h) : d # c => heap'.status[d] = h.status[d]
    BY <1>5, <1>6, <2>1, InsertFacts
  <2>3. Busy(heap') = Busy(heap) \ R
    <3>1. Busy(heap') = Busy(h) \ {c}
      BY <2>2 DEF Busy
    <3> QED BY <1>5, <3>1
  <2>4. Keeps(heap', heap, Busy(heap) \ R)
    BY <1>5, <2>2 DEF Keeps
  <2>5. /\ pc' \in [Threads -> Controls] /\ op' \in [Threads -> Ops]
        /\ lock' \in Threads \union {NULL}
        /\ \A q \in Threads : lock' = q <=> pc'[q] \in {"merge", "grow"}
        /\ pc'[t] = "idle" /\ op'[t] = NoOp /\ Moved(t)
    <3>1. "idle" \in Controls /\ "idle" \notin {"merge", "grow"}
      BY DEF Controls
    <3> QED BY <1>1, <1>3, <1>4, <1>7, <2>1, <3>1, Moving
  <2>6. /\ Hands' = [Hands EXCEPT ![t] = Hand(t)']
        /\ \A q \in Threads : q # t => Knows(heap, Extents, q)'
        /\ \A b \in live : Placed(b) /\ Fits(heap', b)
    BY <1>1, <1>3, <1>4, <2>4, <2>5, OthersStay DEF R
  <2>7. Hand(t)' = {}
    BY <2>5 DEF Hand, InHand
  <2>8. Shared(Busy(heap'), live', Hands')
    <3>1. Busy(heap') = (Busy(heap) \ Hands[t]) \union {}
      BY <1>8, <2>3
    <3> QED BY <1>1, <1>8, <2>6, <2>7, <3>1, HandMoves
  <2>9. Knows(heap, Extents, t)'
    BY <2>5 DEF Knows
  <2>10. Chain(heap, Extents, MergeFirst, MergeLast)'
    BY <1>1, <1>4, <2>2 DEF MergeFirst, MergeLast
  <2>11. Typed'
    BY <1>1, <1>4, <2>5 DEF Typed
  <2> QED BY <1>1, <2>2, <2>6, <2>8, <2>9, <2>10, <2>11 DEF Inv
<1> QED BY <1>9, <1>10

(* The segment of a place in an extent, and the chunks it holds. *)
LEMMA SegmentFacts ==
    ASSUME Typed, NEW u, NEW v, Chain(heap, Extents, u, v), hasSource,
           NEW e \in Extents, NEW c \in Nat, Within(e, c), NEW b, b = SegmentOf(c)
    PROVE  /\ b \in DOMAIN segments /\ e = <<b + 2, b + segments[b]>>
           /\ \A x \in Chunks(heap) : b <= x /\ x < b + segments[b] <=> e[1] <= x /\ x < e[2]
<1> DEFINE Holds(x) == x <= c /\ c < x + segments[x]
<1>1. ExtentsApart(Extents)
  BY DEF Chain
<1>0. e[1] <= c /\ c + 3 <= e[2]
  BY <1>1, WithinFacts
<1>2. ASSUME NEW x \in DOMAIN segments, Holds(x)
      PROVE  x \in Nat /\ segments[x] \in Nat /\ e = <<x + 2, x + segments[x]>>
  <2> DEFINE g == <<x + 2, x + segments[x]>>
  <2>1. x \in Nat /\ segments[x] \in Nat
    BY Memory DEF Typed
  <2>2. g \in Extents /\ g[1] = x + 2 /\ g[2] = x + segments[x]
    BY Memory DEF Extents
  <2> HIDE DEF g
  <2>3. e[1] \in Nat /\ e[2] \in Nat /\ e[1] + 8 <= e[2] /\ g[1] + 8 <= g[2]
    BY <1>1, <2>2, ExtentTypes
  <2>4. e = g \/ e[2] <= g[1] \/ g[2] <= e[1]
    BY <1>1, <2>2 DEF ExtentsApart
  <2>5. CASE e[2] <= g[1]
    BY <1>0, <1>2, <2>1, <2>2, <2>3, <2>5
  <2>6. CASE g[2] <= e[1]
    BY <1>0, <1>2, <2>1, <2>2, <2>3, <2>6
  <2> QED BY <2>1, <2>4, <2>5, <2>6 DEF g
<1>3. PICK a \in DOMAIN segments : e = <<a + 2, a + segments[a]>> /\ a \in Nat /\ segments[a] \in Nat
  BY ExtentFields
<1>4. e[1] = a + 2 /\ e[2] = a + segments[a]
  BY <1>3
<1>5. Holds(a)
  BY <1>0, <1>3, <1>4
<1>6. b \in DOMAIN segments /\ Holds(b)
  BY <1>5 DEF SegmentOf
<1>7. b \in Nat /\ segments[b] \in Nat /\ e = <<b + 2, b + segments[b]>>
  BY <1>2, <1>6
<1>8. ASSUME NEW x \in Chunks(heap)
      PROVE  b <= x /\ x < b + segments[b] <=> e[1] <= x /\ x < e[2]
  <2>1. e[1] = b + 2 /\ e[2] = b + segments[b]
    BY <1>7
  <2>2. x \in Nat
    BY ChainTypes
  <2>3. PICK g \in Extents : Within(g, x)
    BY HomeExtent
  <2>4. g[1] \in Nat /\ g[2] \in Nat /\ g[1] <= x /\ x + 3 <= g[2]
    BY <1>1, <2>2, <2>3, WithinFacts, ExtentTypes
  <2>5. e = g \/ e[2] <= g[1] \/ g[2] <= e[1]
    BY <1>1 DEF ExtentsApart
  <2> QED BY <1>7, <2>1, <2>2, <2>4, <2>5
<1> QED BY <1>6, <1>7, <1>8

(* What a thread that unmaps finds: one chunk from the start of a segment   *)
(* to the header that closes it.                                            *)
LEMMA Unmapping ==
    ASSUME Inv, NEW t \in Threads, pc[t] = "unmap",
           NEW c, c = op[t].first, NEW b, b = SegmentOf(c)
    PROVE  LET e == <<b + 2, b + segments[b]>>
           IN  /\ hasSource /\ b \in DOMAIN segments /\ e \in Extents
               /\ c = e[1] /\ heap.next[c] = e[2] - 3
               /\ Hand(t) = {c} /\ c \in Busy(heap) /\ c \in Nat
               /\ \A x \in Chunks(heap) : b <= x /\ x < b + segments[b] <=> e[1] <= x /\ x < e[2]
               /\ \A x \in Chunks(heap) : e[1] <= x /\ x < e[2] => x = c \/ heap.next[x] = NULL
<1> DEFINE e == <<b + 2, b + segments[b]>>
<1>1. Typed /\ Chain(heap, Extents, MergeFirst, MergeLast) /\ Knows(heap, Extents, t)
  BY DEF Inv
<1>2. PICK g \in Extents : c = g[1] /\ heap.next[c] = g[2] - HeaderSize
  BY <1>1 DEF Knows
<1>3. hasSource
  BY <1>1 DEF Knows
<1>4. Hand(t) = {c} /\ c \in Busy(heap)
  <2>1. Hand(t) = {c}
    BY DEF Hand, InHand
  <2> QED BY <2>1, HandFacts
<1>5. g[1] \in Nat /\ g[2] \in Nat /\ g[1] + 8 <= g[2]
  BY <1>1, ExtentTypes DEF Chain
<1>6. Within(g, c) /\ g[1] <= c /\ c < g[2]
  BY <1>2, <1>5, Memory DEF Within
<1>7. /\ b \in DOMAIN segments /\ g = e
      /\ \A x \in Chunks(heap) : b <= x /\ x < b + segments[b] <=> g[1] <= x /\ x < g[2]
  BY <1>1, <1>2, <1>3, <1>5, <1>6, SegmentFacts
<1>8. ASSUME NEW x \in Chunks(heap), g[1] <= x, x < g[2] PROVE x = c \/ heap.next[x] = NULL
  <2>1. c \in Chunks(heap) /\ heap.next[c] # NULL
    BY <1>4 DEF Busy
  <2>2. x <= c \/ heap.next[c] <= x
    BY <1>1, <2>1, NextFacts
  <2>3. x \in Nat /\ x + 3 <= g[2] /\ (heap.next[x] = NULL <=> x = g[2] - 3)
    BY <1>1, <1>8, InExtent, ChainTypes
  <2>4. heap.next[c] = g[2] - 3
    BY <1>2, Memory
  <2> QED BY <1>2, <1>5, <1>8, <2>2, <2>3, <2>4
<1> HIDE DEF e
<1> QED BY <1>2, <1>3, <1>4, <1>5, <1>7, <1>8, Memory DEF e

LEMMA UnmapStep ==
    ASSUME Inv, NEW t \in Threads, Unmap(t)
    PROVE  Inv'
<1> DEFINE c == op[t].first
           b == SegmentOf(c)
           e == <<b + 2, b + segments[b]>>
           S == {x \in Chunks(heap) : b <= x /\ x < b + segments[b]}
<1>1. /\ pc[t] = "unmap"
      /\ segments' = Drop(segments, {b})
      /\ heap' = [heap EXCEPT !.next = Drop(@, S), !.prev = Drop(@, S), !.status = Drop(@, S)]
      /\ pc' = [pc EXCEPT ![t] = "idle"] /\ op' = [op EXCEPT ![t] = NoOp]
      /\ UNCHANGED <<hasSource, unused, live, lock>>
  BY DEF Unmap
<1>2. /\ hasSource /\ b \in DOMAIN segments /\ e \in Extents
      /\ c = e[1] /\ heap.next[c] = e[2] - 3
      /\ Hand(t) = {c} /\ c \in Busy(heap) /\ c \in Nat
      /\ \A x \in Chunks(heap) : b <= x /\ x < b + segments[b] <=> e[1] <= x /\ x < e[2]
      /\ \A x \in Chunks(heap) : e[1] <= x /\ x < e[2] => x = c \/ heap.next[x] = NULL
  <2> HIDE DEF b, c
  <2>1. c = op[t].first /\ b = SegmentOf(c)
    BY DEF b, c
  <2> QED BY <1>1, <2>1, Unmapping
<1>3. Typed /\ Pool(heap) /\ Chain(heap, Extents, MergeFirst, MergeLast)
  BY DEF Inv
<1>4. lock # t
  BY <1>1, <1>3 DEF Typed
<1>5. S = {x \in Chunks(heap) : e[1] <= x /\ x < e[2]}
  BY <1>2
<1>6. \A x \in S : x = c \/ heap.next[x] = NULL
  BY <1>2
<1>7. c \in S
  <2>1. c \in Chunks(heap) /\ e[1] <= c /\ c < e[2]
    <3>1. e[1] \in Nat /\ e[2] \in Nat /\ e[1] + 8 <= e[2]
      BY <1>2, <1>3, ExtentTypes DEF Chain
    <3> HIDE DEF e
    <3> QED BY <1>2, <3>1 DEF Busy
  <2> QED BY <1>5, <2>1
<1> HIDE DEF S
<1>8. MergeFirst \notin S
  <2>1. CASE lock = NULL
    BY <1>3, <2>1, <1>5, ChainTypes DEF MergeFirst
  <2>2. CASE lock # NULL
    <3>1. lock \in Threads /\ pc[lock] \in {"merge", "grow"}
      BY <1>3, <2>2 DEF Typed
    <3>2. MergeFirst \in Hand(lock)
      BY <2>2, <3>1, Merging, SpanFacts DEF Span, MergeFirst, Gathered
    <3>3. MergeFirst \in Busy(heap) /\ MergeFirst # c
      BY <1>2, <1>4, <3>1, <3>2, HandFacts
    <3> QED BY <1>6, <3>3 DEF Busy
  <2> QED BY <2>1, <2>2
<1>9. /\ Chain(heap', Extents \ {e}, MergeFirst, MergeLast)
      /\ Chunks(heap') = Chunks(heap) \ S
      /\ Same(heap', heap, Chunks(heap'))
      /\ heap'.lists = heap.lists /\ heap'.filled = heap.filled
  <2> HIDE DEF e, b, c
  <2>1. heap' = Cleared(heap, S)
    BY <1>1 DEF Cleared
  <2>2. e \in Extents /\ Chain(heap, Extents, MergeFirst, MergeLast)
    BY <1>2, <1>3
  <2> DEFINE g == Cleared(heap, S)
  <2>3. /\ Chain(g, Extents \ {e}, MergeFirst, MergeLast)
        /\ Chunks(g) = Chunks(heap) \ S
        /\ Same(g, heap, Chunks(g))
        /\ g.lists = heap.lists /\ g.filled = heap.filled
    <3>1. S \in SUBSET Chunks(heap) /\ \A x \in Chunks(heap) : x \in S <=> e[1] <= x /\ x < e[2]
      BY <1>5
    <3> HIDE DEF g
    <3> QED BY <1>8, <2>2, <3>1, DropChain DEF g
  <2> QED BY <2>1, <2>3
<1>10. Busy(heap') = Busy(heap) \ {c}
  <2>1. \A x \in Chunks(heap') : x \in Busy(heap') <=> x \in Busy(heap)
    BY <1>9 DEF Busy, Same
  <2>2. \A x \in S : x \in Busy(heap) => x = c
    BY <1>6 DEF Busy
  <2>3. Busy(heap') \subseteq Chunks(heap') /\ Busy(heap) \subseteq Chunks(heap)
    BY DEF Busy
  <2> HIDE DEF c
  <2> QED BY <1>2, <1>7, <1>9, <2>1, <2>2, <2>3
<1>11. Pool(heap')
  <2>1. \A x \in Chunks(heap) : heap.status[x] = "FREE" => heap.next[x] # NULL
    BY <1>3 DEF Pool, Listed
  <2>2. heap.status[c] = "ALLOCATED"
    BY <1>2 DEF Busy
  <2>3. \A x \in S : heap.status[x] # "FREE"
    BY <1>5, <1>6, <2>1, <2>2
  <2>4. \A x \in Chunks(heap) : heap.status[x] = "FREE" =>
          x \in Chunks(heap') /\ heap'.status[x] = "FREE" /\ heap'.next[x] = heap.next[x]
    BY <1>9, <2>3 DEF Same
  <2>5. \A x \in Chunks(heap') : heap'.status[x] = "FREE" =>
          x \in Chunks(heap) /\ heap.status[x] = "FREE"
    BY <1>9 DEF Same
  <2> QED BY <1>3, <1>9, <2>4, <2>5, PoolSame
<1>12. Extents' = Extents \ {e} /\ segments' \in [DOMAIN segments' -> Nat]
       /\ DOMAIN segments' \subseteq Bases
  <2>1. /\ DOMAIN segments' = DOMAIN segments \ {b}
        /\ segments' = [x \in DOMAIN segments' |-> segments[x]]
    BY <1>1 DEF Drop
  <2>2. \A x \in DOMAIN segments : x \in Nat /\ segments[x] \in Nat /\ x \in Bases
    BY <1>3, Memory DEF Typed
  <2>3. segments' \in [DOMAIN segments' -> Nat] /\ DOMAIN segments' \subseteq Bases
    BY <2>1, <2>2
  <2>4. /\ Extents = {<<x + 2, x + segments[x]>> : x \in DOMAIN segments}
        /\ Extents' = {<<x + 2, x + segments'[x]>> : x \in DOMAIN segments'}
    BY <1>1, <1>2, Memory DEF Extents
  <2>5. \A x \in DOMAIN segments' : segments'[x] = segments[x]
    BY <2>1
  <2>6. ASSUME NEW x \in DOMAIN segments, <<x + 2, x + segments[x]>> = e PROVE x = b
    <3>1. x + 2 = b + 2
      BY <2>6
    <3> HIDE DEF b
    <3> QED BY <1>2, <2>2, <3>1
  <2> HIDE DEF b
  <2>7. Extents' = {<<x + 2, x + segments[x]>> : x \in DOMAIN segments \ {b}}
    BY <2>1, <2>4, <2>5
  <2> QED BY <2>3, <2>4, <2>6, <2>7
<1>13. /\ pc' \in [Threads -> Controls] /\ op' \in [Threads -> Ops]
       /\ lock' \in Threads \union {NULL}
       /\ \A q \in Threads : lock' = q <=> pc'[q] \in {"merge", "grow"}
       /\ pc'[t] = "idle" /\ op'[t] = NoOp /\ Moved(t)
  <2>1. "idle" \in Controls /\ "idle" \notin {"merge", "grow"} /\ NoOp \in Ops
    BY NoOpTypes DEF Controls
  <2> QED BY <1>1, <1>3, <1>4, <2>1, Moving
<1>14. MergeFirst' = MergeFirst /\ MergeLast' = MergeLast
  BY <1>1, <1>4, <1>13, MergeSame
<1>15. \A x \in Busy(heap) \ {c} : /\ x \in Chunks(heap') /\ heap'.next[x] = heap.next[x]
                                   /\ ~ (e[1] <= x /\ x < e[2])
  BY <1>5, <1>6, <1>9 DEF Busy, Same
<1>16. ASSUME NEW q \in Threads, q # t PROVE Hand(q)' = Hand(q)
  <2>1. pc'[q] = pc[q] /\ op'[q] = op[q]
    BY <1>13, <1>16 DEF Moved
  <2>2. CASE pc[q] \in {"merge", "grow"}
    <3>1. Hand(q) = {d \in Chunks(heap) : op[q].first <= d /\ d <= op[q].last}
          /\ Hand(q)' = {d \in Chunks(heap') : op[q].first <= d /\ d <= op[q].last}
      BY <2>1, <2>2 DEF Hand, InHand, Gathered
    <3>2. \A d \in Hand(q) : d \in Chunks(heap')
      BY <1>2, <1>15, <1>16, HandFacts
    <3>3. Chunks(heap') \subseteq Chunks(heap)
      BY <1>9
    <3> QED BY <3>1, <3>2, <3>3
  <2>3. CASE pc[q] \notin {"merge", "grow"}
    BY <2>1, <2>3 DEF Hand, InHand
  <2> QED BY <2>2, <2>3
<1>17. Hands' = [Hands EXCEPT ![t] = {}]
  <2>1. Hand(t)' = {}
    BY <1>13 DEF Hand, InHand
  <2> QED BY <1>16, <2>1 DEF Hands
<1>18. Shared(Busy(heap'), live', Hands')
  <2>1. Shared(Busy(heap), live, Hands) /\ Hands = [q \in Threads |-> Hands[q]] /\ Hands[t] = {c}
    BY <1>2 DEF Inv, Hands
  <2>2. Busy(heap') = (Busy(heap) \ Hands[t]) \union {}
    BY <1>10, <2>1
  <2> QED BY <1>1, <1>17, <2>1, <2>2, HandMoves
<1>19. \A x \in live' : Placed(x) /\ Fits(heap', x)
  <2> SUFFICES ASSUME NEW x \in live PROVE Placed(x) /\ Fits(heap', x)
    BY <1>1
  <2>1. Placed(x) /\ Fits(heap, x)
    BY DEF Inv
  <2>2. heap'.next[x.chunk] = heap.next[x.chunk]
    BY <1>2, <1>15, HandFacts
  <2> QED BY <2>1, <2>2 DEF Fits
<1>20. ASSUME NEW q \in Threads PROVE Knows(heap, Extents, q)'
  <2>1. CASE q = t
    BY <1>13, <2>1 DEF Knows
  <2>2. CASE q # t
    <3>1. pc'[q] = pc[q] /\ op'[q] = op[q] /\ Knows(heap, Extents, q)
      BY <1>13, <2>2 DEF Moved, Inv
    <3>2. \A x \in Hand(q) : x \in Busy(heap) \ {c}
      BY <1>2, <2>2, HandFacts
    <3> HIDE DEF e, c
    <3>3. ASSUME pc[q] \in {"merge", "grow"}
          PROVE  /\ op[q].first \in Hand(q) /\ op[q].last \in Hand(q)
                 /\ Span(heap', Extents', op[q].first, op[q].last)
      <4>1. Span(heap, Extents, op[q].first, op[q].last)
        BY <3>1, <3>3 DEF Knows
      <4>2. op[q].first \in Hand(q) /\ op[q].last \in Hand(q)
            /\ op[q].first \in Nat /\ op[q].last \in Nat
        BY <1>3, <3>3, <4>1, SpanFacts DEF Span, Hand, Gathered
      <4>3. PICK g \in Extents : g[1] <= op[q].first /\ op[q].last < g[2]
        BY <4>1 DEF Span
      <4>4. g[1] \in Nat /\ g[2] \in Nat
        BY <1>3, ExtentTypes DEF Chain
      <4>5. op[q].first < g[2]
        BY <4>1, <4>2, <4>3, <4>4 DEF Span
      <4>6. g # e
        BY <1>15, <3>2, <4>2, <4>3, <4>5
      <4>7. g \in Extents'
        BY <1>12, <4>6
      <4> QED BY <1>15, <3>2, <4>1, <4>2, <4>3, <4>7 DEF Span
    <3>4. ASSUME pc[q] \in {"resize", "grow", "move"} PROVE Fits(heap', op[q].block)
      <4>1. op[q].block.chunk \in Hand(q)
        <5>1. CASE pc[q] = "grow"
          BY <3>1, <3>3, <5>1 DEF Knows
        <5>2. CASE pc[q] # "grow"
          BY <3>4, <5>2 DEF Hand, InHand
        <5> QED BY <5>1, <5>2
      <4>2. heap'.next[op[q].block.chunk] = heap.next[op[q].block.chunk]
        BY <1>15, <3>2, <4>1
      <4> QED BY <3>1, <3>4, <4>2 DEF Knows, Fits
    <3>5. ASSUME pc[q] = "merge" PROVE ~ FreeBefore(heap', op[q].first) /\ ~ FreeAfter(heap', op[q].last)
      <4>1. op[q].first \in Chunks(heap') /\ op[q].last \in Chunks(heap')
        BY <3>3, <3>5 DEF Span
      <4>2. ~ FreeBefore(heap, op[q].first) /\ ~ FreeAfter(heap, op[q].last)
        BY <3>1, <3>5 DEF Knows
      <4>3. \A x \in Chunks(heap') : heap'.next[x] = heap.next[x] /\ heap'.prev[x] = heap.prev[x]
                                     /\ heap'.status[x] = heap.status[x]
        BY <1>9 DEF Same
      <4>4. /\ heap'.prev[op[q].first] \in Chunks(heap') \union {NULL}
            /\ heap'.next[op[q].last] \in Chunks(heap') \union {NULL}
        BY <1>9, <4>1, ChainTypes
      <4> QED BY <4>1, <4>2, <4>3, <4>4 DEF FreeBefore, FreeAfter
    <3>6. ASSUME pc[q] = "grow"
          PROVE  /\ op[q].first = op[q].block.chunk
                 /\ heap'.next[op[q].last] - op[q].first - HeaderSize >= op[q].size
      BY <1>15, <3>1, <3>2, <3>3, <3>6 DEF Knows
    <3>7. ASSUME pc[q] = "unmap"
          PROVE  \E g \in Extents' : /\ op[q].first = g[1]
                                     /\ heap'.next[op[q].first] = g[2] - HeaderSize
      <4>1. PICK g \in Extents : /\ op[q].first = g[1]
                                 /\ heap.next[op[q].first] = g[2] - HeaderSize
        BY <3>1, <3>7 DEF Knows
      <4>2. op[q].first \in Hand(q)
        BY <3>7 DEF Hand, InHand
      <4>3. g # e
        BY <1>2, <3>2, <4>1, <4>2
      <4> QED BY <1>12, <1>15, <3>2, <4>1, <4>2, <4>3
    <3> QED BY <1>1, <1>2, <3>1, <3>3, <3>4, <3>5, <3>6, <3>7 DEF Knows
  <2> QED BY <2>1, <2>2
<1>21. Chain(heap, Extents, MergeFirst, MergeLast)'
  BY <1>9, <1>12, <1>14
<1>22. Typed'
  BY <1>1, <1>2, <1>3, <1>12, <1>13 DEF Typed
<1> QED BY <1>11, <1>18, <1>19, <1>20, <1>21, <1>22 DEF Inv

(* The chunk of a thread in realloc, and what realloc returns when it does  *)
(* not move it.                                                             *)
LEMMA Resizing ==
    ASSUME Inv, NEW t \in Threads, pc[t] \in {"resize", "move", "grow"},
           NEW c, c = op[t].block.chunk
    PROVE  /\ op[t] \in Ops /\ op[t].block \in Blocks /\ c \in Addresses /\ c \in Hand(t)
           /\ c \in Busy(heap) /\ c \in Chunks(heap) /\ heap.next[c] # NULL
           /\ op[t].size \in ReallocSizes /\ op[t].size \in Nat \ {0}
           /\ Placed(op[t].block) /\ Fits(heap, op[t].block)
           /\ pc[t] \in {"resize", "move"} => Hand(t) = {c}
           /\ pc[t] = "grow" => op[t].first = c
           /\ InPlace(op[t]).chunk = c /\ InPlace(op[t]) \in Blocks /\ Placed(InPlace(op[t]))
<1>1. Typed /\ Knows(heap, Extents, t) /\ Chain(heap, Extents, MergeFirst, MergeLast)
  BY DEF Inv
<1>2. op[t] \in Ops /\ op[t].block \in Blocks /\ op[t].size \in ReallocSizes
      /\ Placed(op[t].block) /\ Fits(heap, op[t].block)
      /\ (pc[t] = "grow" => op[t].first = c)
  BY <1>1 DEF Knows, Typed
<1>3. op[t].size \in Nat \ {0}
  BY <1>2, CheckedFacts
<1>4. pc[t] \in {"resize", "move"} => Hand(t) = {c}
  BY DEF Hand, InHand
<1>5. c \in Hand(t)
  <2>1. CASE pc[t] = "grow"
    BY <1>2, <2>1, Merging, SpanFacts DEF Span, Gathered
  <2> QED BY <1>4, <2>1
<1>6. c \in Busy(heap)
  BY <1>5, HandFacts
<1>7. c \in Addresses /\ c \in Nat /\ GetPtr(c) = c + 3
  BY <1>1, <1>6, ChunkAddresses, Memory DEF Busy, GetPtr
<1> DEFINE x == InPlace(op[t])
<1>8. x = [chunk |-> c, ptr |-> GetPtr(c), size |-> op[t].size, data |-> op[t].block.data]
  BY DEF InPlace, Block
<1>9. op[t].block.data \in Nat /\ GetPtr(c) <= op[t].block.data
  BY <1>2 DEF Blocks, Placed
<1>10. x.chunk = c /\ x.ptr = GetPtr(c) /\ x.data = op[t].block.data /\ x \in Blocks
  BY <1>3, <1>7, <1>8, <1>9 DEF Blocks
<1>11. Placed(x)
  BY <1>7, <1>9, <1>10 DEF Placed
<1> QED BY <1>2, <1>3, <1>4, <1>5, <1>6, <1>7, <1>10, <1>11 DEF Busy

LEMMA InPlaceFits ==
    ASSUME NEW h, NEW E, NEW u, NEW v, Chain(h, E, u, v),
           NEW o, NEW c, c = o.block.chunk, c \in Busy(h), o.size \in Nat,
           InnerSize(h, c) >= o.size
    PROVE  Fits(h, InPlace(o))
<1>1. c \in Nat /\ h.next[c] \in Nat /\ GetPtr(c) = c + 3
      /\ InnerSize(h, c) = h.next[c] - c - 3
  BY Room
<1>2. c + 3 + o.size <= h.next[c]
  BY <1>1
<1>3. InPlace(o).chunk = c /\ InPlace(o).ptr = c + 3 /\ InPlace(o).size = o.size
  BY <1>1 DEF InPlace, Block
<1> QED BY <1>2, <1>3 DEF Fits

LEMMA ResizeStep ==
    ASSUME Inv, NEW t \in Threads, Resize(t)
    PROVE  Inv'
<1> DEFINE c == op[t].block.chunk
           size == op[t].size
           last == LastForSize(heap, c, size)
           S == {d \in Chunks(heap) : c < d /\ d <= last}
<1>1. pc[t] = "resize" /\ lock = NULL /\ UNCHANGED <<hasSource, segments, unused>>
  BY DEF Resize
<1>2. \/ /\ size <= InnerSize(heap, c)
         /\ heap' = SplitAndInsert(heap, c, size)
         /\ live' = live \union {InPlace(op[t])}
         /\ pc' = [pc EXCEPT ![t] = "idle"]
         /\ op' = [op EXCEPT ![t] = NoOp]
         /\ UNCHANGED lock
      \/ /\ size > InnerSize(heap, c)
         /\ last # NULL
         /\ heap' = MergeBack(Remove(heap, S), c, last)
         /\ op' = [op EXCEPT ![t].first = c, ![t].last = last]
         /\ pc' = [pc EXCEPT ![t] = "grow"]
         /\ lock' = t
         /\ UNCHANGED live
      \/ /\ size > InnerSize(heap, c)
         /\ last = NULL
         /\ pc' = [pc EXCEPT ![t] = "move"]
         /\ UNCHANGED <<heap, live, lock, op>>
  BY DEF Resize
<1>3. Typed /\ Pool(heap) /\ Chain(heap, Extents, NULL, NULL) /\ Extents' = Extents /\ t # NULL
  BY <1>1, Unlocked, Memory DEF Inv, Extents
<1>4. /\ op[t] \in Ops /\ op[t].block \in Blocks /\ c \in Addresses
      /\ c \in Busy(heap) /\ c \in Chunks(heap) /\ heap.next[c] # NULL
      /\ size \in ReallocSizes /\ size \in Nat \ {0}
      /\ Placed(op[t].block) /\ Fits(heap, op[t].block) /\ Hand(t) = {c}
      /\ InPlace(op[t]).chunk = c /\ InPlace(op[t]) \in Blocks /\ Placed(InPlace(op[t]))
  BY <1>1, Resizing
<1>5. Shared(Busy(heap), live, Hands) /\ Hands = [q \in Threads |-> Hands[q]] /\ Hands[t] = {c}
  BY <1>4 DEF Inv, Hands
<1>6. CASE /\ size <= InnerSize(heap, c)
           /\ heap' = SplitAndInsert(heap, c, size)
           /\ live' = live \union {InPlace(op[t])}
           /\ pc' = [pc EXCEPT ![t] = "idle"]
           /\ op' = [op EXCEPT ![t] = NoOp]
           /\ UNCHANGED lock
  <2> DEFINE x == InPlace(op[t])
  <2>1. InnerSize(heap, c) >= size
    BY <1>3, <1>4, <1>6, ChainTypes
  <2>2. /\ Chain(heap', Extents, NULL, NULL) /\ Pool(heap') /\ Busy(heap') = Busy(heap)
        /\ Keeps(heap', heap, Busy(heap) \ {c})
        /\ InnerSize(heap', c) >= size
    <3> HIDE DEF c, size
    <3> QED BY <1>3, <1>4, <1>6, <2>1, CutBusy
  <2>3. /\ pc' \in [Threads -> Controls] /\ op' \in [Threads -> Ops]
        /\ lock' \in Threads \union {NULL}
        /\ \A q \in Threads : lock' = q <=> pc'[q] \in {"merge", "grow"}
        /\ pc'[t] = "idle" /\ op'[t] = NoOp /\ Moved(t)
    <3>1. "idle" \in Controls /\ "idle" \notin {"merge", "grow"} /\ NoOp \in Ops
      BY NoOpTypes DEF Controls
    <3> QED BY <1>1, <1>3, <1>6, <3>1, Moving
  <2>4. /\ Hands' = [Hands EXCEPT ![t] = Hand(t)']
        /\ \A q \in Threads : q # t => Knows(heap, Extents, q)'
        /\ \A b \in live : Placed(b) /\ Fits(heap', b)
    BY <1>1, <1>3, <1>4, <2>2, <2>3, OthersStay
  <2>5. Hand(t)' = {}
    BY <2>3 DEF Hand, InHand
  <2>6. Shared(Busy(heap'), live', Hands')
    <3> HIDE DEF x, c
    <3>1. x.chunk = c /\ live' = live \union {x}
      BY <1>4, <1>6 DEF x
    <3> QED BY <1>5, <2>2, <2>4, <2>5, <3>1, HandToLive
  <2>7. Fits(heap', x)
    BY <1>4, <2>2, InPlaceFits
  <2>8. Knows(heap, Extents, t)'
    BY <2>3 DEF Knows
  <2>9. Chain(heap, Extents, MergeFirst, MergeLast)'
    BY <1>1, <1>3, <1>6, <2>2 DEF MergeFirst, MergeLast
  <2>10. Typed'
    BY <1>1, <1>3, <1>4, <1>6, <2>3 DEF Typed
  <2>11. \A b \in live' : Placed(b) /\ Fits(heap', b)
    BY <1>4, <1>6, <2>4, <2>7
  <2> QED BY <2>2, <2>4, <2>6, <2>8, <2>9, <2>10, <2>11 DEF Inv
<1>7. CASE /\ size > InnerSize(heap, c)
           /\ last # NULL
           /\ heap' = MergeBack(Remove(heap, S), c, last)
           /\ op' = [op EXCEPT ![t].first = c, ![t].last = last]
           /\ pc' = [pc EXCEPT ![t] = "grow"]
           /\ lock' = t
           /\ UNCHANGED live
  <2> DEFINE o == [op[t] EXCEPT !.first = c, !.last = last]
  <2>1. /\ Span(heap, Extents, c, last)
        /\ \A d \in Chunks(heap) : c < d /\ d <= last => heap.status[d] = "FREE"
        /\ heap.next[last] - c - 3 >= size
    <3> HIDE DEF c, size
    <3> QED BY <1>3, <1>4, <1>7, LastForSizeFacts DEF Pool
  <2> HIDE DEF last
  <2>2. S \in SUBSET Chunks(heap) /\ \A d \in S : heap.status[d] = "FREE"
    BY <2>1
  <2>3. /\ Chain(heap', Extents, c, last) /\ Pool(heap') /\ Span(heap', Extents, c, last)
        /\ Chunks(heap') = Chunks(heap) /\ heap'.next = heap.next
        /\ Busy(heap') = Busy(heap) \union S /\ \A d \in S : d \notin Busy(heap)
    <3> HIDE DEF c, S
    <3> QED BY <1>3, <1>7, <2>1, <2>2, Gather
  <2>4. /\ o \in Ops /\ o.first = c /\ o.last = last /\ op' = [op EXCEPT ![t] = o]
        /\ o.block = op[t].block /\ o.size = size
    <3>1. last \in Addresses
      BY <1>3, <2>1, ChunkAddresses DEF Span
    <3> QED BY <1>4, <1>7, <3>1 DEF Ops
  <2> HIDE DEF o
  <2>5. /\ pc' \in [Threads -> Controls] /\ op' \in [Threads -> Ops]
        /\ lock' \in Threads \union {NULL}
        /\ \A q \in Threads : lock' = q <=> pc'[q] \in {"merge", "grow"}
        /\ pc'[t] = "grow" /\ op'[t] = o /\ Moved(t)
    <3>1. "grow" \in Controls
      BY DEF Controls
    <3> QED BY <1>1, <1>3, <1>7, <2>4, <3>1, Moving
  <2>6. Keeps(heap', heap, Busy(heap) \ Hand(t))
    BY <2>3 DEF Keeps, Busy
  <2>7. /\ Hands' = [Hands EXCEPT ![t] = Hand(t)']
        /\ \A q \in Threads : q # t => Knows(heap, Extents, q)'
        /\ \A b \in live : Placed(b) /\ Fits(heap', b)
    BY <1>1, <1>3, <2>5, <2>6, OthersStay
  <2>8. Hand(t)' = S \union {c}
    <3>1. c \in Nat /\ last \in Nat /\ c <= last /\ \A d \in Chunks(heap) : d \in Nat
      BY <1>3, <2>1, SpanFacts, ChainTypes DEF Span
    <3>2. Hand(t)' = {d \in Chunks(heap') : c <= d /\ d <= last}
      BY <2>4, <2>5 DEF Hand, InHand, Gathered
    <3>3. \A d \in Chunks(heap) : c <= d /\ d <= last <=> d \in S \union {c}
      <4> SUFFICES ASSUME NEW d \in Chunks(heap)
                   PROVE  c <= d /\ d <= last <=> d \in S \union {c}
        OBVIOUS
      <4>1. c <= d /\ d # c <=> c < d
        <5> HIDE DEF c
        <5> QED BY <3>1
      <4>2. c <= c
        <5> HIDE DEF c
        <5> QED BY <3>1
      <4> QED BY <3>1, <4>1, <4>2
    <3> HIDE DEF S, c
    <3> QED BY <1>4, <2>2, <2>3, <3>2, <3>3
  <2>9. Shared(Busy(heap'), live', Hands')
    <3> HIDE DEF S, c
    <3>1. Busy(heap') = (Busy(heap) \ Hands[t]) \union (S \union {c})
      BY <1>4, <1>5, <2>3
    <3>2. \A d \in S \union {c} : d \in Hands[t] \/ d \notin Busy(heap)
      BY <1>5, <2>3
    <3>3. live' = live
      BY <1>7
    <3> QED BY <1>5, <2>7, <2>8, <3>1, <3>2, <3>3, HandMoves
  <2>10. Knows(heap, Extents, t)'
    <3>1. Fits(heap', op[t].block)
      BY <1>4, <2>3 DEF Fits
    <3>2. heap'.next[last] - c - HeaderSize >= size
      BY <2>1, <2>3, Memory
    <3>3. Span(heap', Extents', c, last)
      BY <1>3, <2>3
    <3> QED BY <1>4, <2>4, <2>5, <3>1, <3>2, <3>3 DEF Knows
  <2>11. Chain(heap, Extents, MergeFirst, MergeLast)'
    BY <1>3, <1>7, <2>3, <2>4, <2>5 DEF MergeFirst, MergeLast
  <2>12. Typed'
    BY <1>1, <1>3, <1>7, <2>5 DEF Typed
  <2> QED BY <1>7, <2>3, <2>7, <2>9, <2>10, <2>11, <2>12 DEF Inv
<1>8. CASE /\ size > InnerSize(heap, c)
           /\ last = NULL
           /\ pc' = [pc EXCEPT ![t] = "move"]
           /\ UNCHANGED <<heap, live, lock, op>>
  <2>1. op' = [op EXCEPT ![t] = op[t]]
    BY <1>3, <1>8 DEF Typed
  <2>2. /\ pc' \in [Threads -> Controls] /\ op' \in [Threads -> Ops]
        /\ lock' \in Threads \union {NULL}
        /\ \A q \in Threads : lock' = q <=> pc'[q] \in {"merge", "grow"}
        /\ pc'[t] = "move" /\ op'[t] = op[t] /\ Moved(t)
    <3>1. "move" \in Controls /\ "move" \notin {"merge", "grow"}
      BY DEF Controls
    <3> QED BY <1>1, <1>3, <1>4, <1>8, <2>1, <3>1, Moving
  <2>3. /\ Hands' = [Hands EXCEPT ![t] = Hand(t)']
        /\ \A q \in Threads : q # t => Knows(heap, Extents, q)'
    BY <1>1, <1>3, <1>8, <2>2, OthersSame
  <2>4. Hand(t)' = {c}
    BY <2>2 DEF Hand, InHand
  <2>5. Hands' = Hands
    BY <1>4, <2>3, <2>4 DEF Hands
  <2>6. Knows(heap, Extents, t)'
    BY <1>4, <1>8, <2>2 DEF Knows
  <2>7. Chain(heap, Extents, MergeFirst, MergeLast)'
    BY <1>1, <1>3, <1>8 DEF MergeFirst, MergeLast
  <2>8. Typed'
    BY <1>1, <1>3, <1>8, <2>2 DEF Typed
  <2>9. \A b \in live' : Placed(b) /\ Fits(heap', b)
    BY <1>8 DEF Inv
  <2> QED BY <1>3, <1>5, <1>8, <2>3, <2>5, <2>6, <2>7, <2>8, <2>9 DEF Inv
<1> HIDE DEF c, size, last, S
<1> QED BY <1>2, <1>6, <1>7, <1>8

LEMMA GrowStep ==
    ASSUME Inv, NEW t \in Threads, Grow(t)
    PROVE  Inv'
<1> DEFINE c == op[t].block.chunk
           last == op[t].last
           size == op[t].size
           h == MergeForward(heap, c, last)
           R == Hand(t)
           x == InPlace(op[t])
<1>1. /\ pc[t] = "grow" /\ lock' = NULL /\ UNCHANGED <<hasSource, segments, unused>>
      /\ live' = live \union {x}
      /\ pc' = [pc EXCEPT ![t] = "idle"] /\ op' = [op EXCEPT ![t] = NoOp]
  BY DEF Grow
<1>2. /\ op[t] \in Ops /\ c \in Hand(t) /\ size \in Nat \ {0} /\ op[t].first = c
      /\ x.chunk = c /\ x \in Blocks /\ Placed(x)
  BY <1>1, Resizing
<1>3. /\ lock = t /\ t # NULL
      /\ Chain(heap, Extents, c, last) /\ Span(heap, Extents, c, last)
      /\ R = Gathered(heap, c, last) /\ R \subseteq Busy(heap)
  <2> HIDE DEF c
  <2> QED BY <1>1, <1>2, Merging
<1>4. heap' = SplitAndInsert(h, c, size)
  BY <1>2 DEF Grow
<1>5. Typed /\ Pool(heap) /\ Extents' = Extents /\ Knows(heap, Extents, t)
  BY <1>1 DEF Inv, Extents
<1>6. heap.next[last] - c - 3 >= size
  BY <1>1, <1>2, <1>5, Memory DEF Knows
<1>7. Shared(Busy(heap), live, Hands) /\ Hands = [q \in Threads |-> Hands[q]] /\ Hands[t] = R
  BY DEF Inv, Hands
<1> HIDE DEF R, c, last, size
<1>8. /\ Chain(h, Extents, NULL, NULL) /\ Pool(h)
      /\ c \in R /\ Busy(h) = (Busy(heap) \ R) \union {c}
      /\ Keeps(h, heap, Busy(heap) \ R) /\ h.next[c] = heap.next[last]
  <2>1. Pool(heap)
    BY <1>5
  <2> HIDE DEF x
  <2> QED BY <1>3, <2>1, Join
<1> HIDE DEF h
<1>9. c \in Busy(h) /\ InnerSize(h, c) >= size
  <2>1. c \in Busy(h)
    BY <1>8
  <2>2. InnerSize(h, c) = h.next[c] - c - 3
    BY <1>8, <2>1, Room
  <2> QED BY <1>6, <1>8, <2>1, <2>2
<1>10. /\ Chain(heap', Extents, NULL, NULL) /\ Pool(heap') /\ Busy(heap') = Busy(h)
       /\ Keeps(heap', h, Busy(h) \ {c})
       /\ InnerSize(heap', c) >= size
  BY <1>2, <1>4, <1>8, <1>9, CutBusy
<1>11. Keeps(heap', heap, Busy(heap) \ R)
  BY <1>8, <1>10 DEF Keeps
<1>12. /\ pc' \in [Threads -> Controls] /\ op' \in [Threads -> Ops]
       /\ lock' \in Threads \union {NULL}
       /\ \A q \in Threads : lock' = q <=> pc'[q] \in {"merge", "grow"}
       /\ pc'[t] = "idle" /\ op'[t] = NoOp /\ Moved(t)
  <2>1. "idle" \in Controls /\ "idle" \notin {"merge", "grow"} /\ NoOp \in Ops
    BY NoOpTypes DEF Controls
  <2> QED BY <1>1, <1>3, <1>5, <2>1, Moving
<1>13. /\ Hands' = [Hands EXCEPT ![t] = Hand(t)']
       /\ \A q \in Threads : q # t => Knows(heap, Extents, q)'
       /\ \A b \in live : Placed(b) /\ Fits(heap', b)
  BY <1>1, <1>3, <1>5, <1>11, <1>12, OthersStay DEF R
<1>14. Hand(t)' = {}
  BY <1>12 DEF Hand, InHand
<1>15. Shared(Busy(heap'), live', Hands')
  <2> DEFINE H == [Hands EXCEPT ![t] = {c}]
  <2>1. Shared(Busy(heap'), live, H)
    <3>1. Busy(heap') = (Busy(heap) \ Hands[t]) \union {c}
      BY <1>7, <1>8, <1>10
    <3>2. \A d \in {c} : d \in Hands[t] \/ d \notin Busy(heap)
      BY <1>7, <1>8
    <3> QED BY <1>7, <3>1, <3>2, HandMoves
  <2>2. H = [q \in Threads |-> H[q]] /\ H[t] = {c}
    BY DEF Hands
  <2>3. Hands' = [H EXCEPT ![t] = {}]
    BY <1>13, <1>14 DEF Hands
  <2> HIDE DEF H, x
  <2> QED BY <1>1, <1>2, <2>1, <2>2, <2>3, HandToLive
<1>16. Fits(heap', x)
  <2>1. c = op[t].block.chunk /\ op[t].size \in Nat /\ InnerSize(heap', c) >= op[t].size
    BY <1>2, <1>10 DEF size, c
  <2> QED BY <1>8, <1>10, <2>1, InPlaceFits
<1>17. Knows(heap, Extents, t)'
  BY <1>12 DEF Knows
<1>18. Chain(heap, Extents, MergeFirst, MergeLast)'
  BY <1>1, <1>5, <1>10 DEF MergeFirst, MergeLast
<1>19. Typed'
  BY <1>1, <1>2, <1>5, <1>12 DEF Typed
<1>20. \A b \in live' : Placed(b) /\ Fits(heap', b)
  BY <1>1, <1>2, <1>13, <1>16
<1> HIDE DEF x
<1> QED BY <1>10, <1>13, <1>15, <1>17, <1>18, <1>19, <1>20 DEF Inv

LEMMA MoveStep ==
    ASSUME Inv, NEW t \in Threads, Move(t)
    PROVE  Inv'
<1> DEFINE old == op[t].block
           size == op[t].size
           n == CheckedSize(size, 1)
           o == [NoOp EXCEPT !.first = old.chunk]
<1>1. /\ pc[t] = "move" /\ lock = NULL /\ UNCHANGED <<hasSource, unused, lock>>
      /\ pc' = [pc EXCEPT ![t] = "free"] /\ op' = [op EXCEPT ![t] = o]
  BY DEF Move
<1>2. PICK r \in Allocate(n) :
        LET ptr == GetPtr(r.chunk)
        IN  /\ heap' = r.heap /\ segments' = r.segments
            /\ live' = IF r.chunk = NULL THEN live
                       ELSE live \union {Block(r.chunk, ptr, size,
                                               ptr + (old.data - GetPtr(old.chunk)))}
  BY DEF Move
<1>3. /\ old \in Blocks /\ old.chunk \in Addresses /\ Placed(old) /\ Hand(t) = {old.chunk}
      /\ size \in ReallocSizes /\ size \in Nat \ {0}
  BY <1>1, Resizing
<1>4. n \in Checked /\ n \in Nat /\ n >= size
  BY <1>3, CheckedFacts
<1>5. o \in Ops /\ o.first = old.chunk
  BY <1>3, NoOpTypes
<1> HIDE DEF n, o
<1> DEFINE c == r.chunk
           ptr == GetPtr(c)
           data == ptr + (old.data - GetPtr(old.chunk))
           x == Block(c, ptr, size, data)
<1>6. heap' = r.heap /\ segments' = r.segments
      /\ live' = IF c = NULL THEN live ELSE live \union {x}
  BY <1>2
<1>7. Typed /\ Chain(heap, Extents, NULL, NULL) /\ Pool(heap) /\ t # NULL
  BY <1>1, Unlocked, Memory DEF Inv
<1>8. ExtentsOf(r.segments, unused) = Extents'
  BY <1>1, <1>6 DEF ExtentsOf, Extents
<1>9. /\ Chain(heap', Extents', NULL, NULL) /\ Pool(heap') /\ Extents \subseteq Extents'
      /\ segments' \in [DOMAIN segments' -> Nat] /\ DOMAIN segments' \subseteq Bases
      /\ ~ hasSource => DOMAIN segments' = {}
      /\ Keeps(heap', heap, Busy(heap))
      /\ IF c = NULL
           THEN Busy(heap') = Busy(heap)
           ELSE /\ c \in Addresses /\ c \notin Busy(heap)
                /\ Busy(heap') = Busy(heap) \union {c}
                /\ Fitting => InnerSize(heap', c) >= n
  BY <1>4, <1>6, <1>7, <1>8, AllocateFacts
<1>10. /\ pc' \in [Threads -> Controls] /\ op' \in [Threads -> Ops]
       /\ lock' \in Threads \union {NULL}
       /\ \A q \in Threads : lock' = q <=> pc'[q] \in {"merge", "grow"}
       /\ pc'[t] = "free" /\ op'[t] = o /\ Moved(t)
  <2>1. "free" \in Controls /\ "free" \notin {"merge", "grow"}
    BY DEF Controls
  <2> QED BY <1>1, <1>5, <1>7, <2>1, Moving
<1>11. /\ Hands' = [Hands EXCEPT ![t] = Hand(t)']
       /\ \A q \in Threads : q # t => Knows(heap, Extents, q)'
       /\ \A b \in live : Placed(b) /\ Fits(heap', b)
  <2>1. Keeps(heap', heap, Busy(heap) \ Hand(t))
    BY <1>9 DEF Keeps
  <2> QED BY <1>1, <1>9, <1>10, <2>1, OthersStay
<1>12. Hands' = Hands
  <2>1. Hand(t)' = Hand(t)
    BY <1>3, <1>5, <1>10 DEF Hand, InHand
  <2> QED BY <1>11, <2>1 DEF Hands
<1>13. Knows(heap, Extents, t)'
  BY <1>10 DEF Knows
<1>14. Shared(Busy(heap), live, Hands) /\ Hands = [q \in Threads |-> Hands[q]]
  BY DEF Inv, Hands
<1>15. Chain(heap, Extents, MergeFirst, MergeLast)'
  BY <1>1, <1>9 DEF MergeFirst, MergeLast
<1>16. CASE c = NULL
  <2>1. live' = live /\ Busy(heap') = Busy(heap)
    BY <1>6, <1>9, <1>16
  <2>2. Typed'
    BY <1>1, <1>7, <1>9, <1>10, <2>1 DEF Typed
  <2> QED BY <1>9, <1>11, <1>12, <1>13, <1>14, <1>15, <2>1, <2>2 DEF Inv
<1>17. CASE c # NULL
  <2>1. /\ live' = live \union {x} /\ Busy(heap') = Busy(heap) \union {c} /\ c \notin Busy(heap)
        /\ c \in Addresses /\ c \in Busy(heap')
    BY <1>6, <1>9, <1>17
  <2>2. c \in Nat /\ heap'.next[c] \in Nat /\ ptr = c + 3
        /\ InnerSize(heap', c) = heap'.next[c] - c - 3
    BY <1>9, <2>1, Room
  <2>3. data \in Nat /\ data >= ptr
    <3>1. old.data \in Nat /\ old.chunk \in Nat /\ GetPtr(old.chunk) <= old.data
          /\ GetPtr(old.chunk) = old.chunk + 3
      BY <1>3, Memory DEF Placed, Blocks, Addresses, GetPtr
    <3> DEFINE d == old.data
               g == GetPtr(old.chunk)
    <3>2. d \in Nat /\ g \in Nat /\ g <= d
      BY <3>1
    <3> HIDE DEF d, g
    <3>3. data = ptr + (d - g)
      BY DEF d, g
    <3> QED BY <2>2, <3>2, <3>3
  <2> HIDE DEF c, ptr, data, size, old
  <2>4. x \in Blocks /\ x.chunk = c /\ x.ptr = ptr /\ x.size = size /\ x.data = data
    BY <1>3, <2>1, <2>2, <2>3 DEF Block, Blocks
  <2> HIDE DEF x
  <2>5. Placed(x)
    BY <2>2, <2>3, <2>4 DEF Placed, ptr
  <2>6. Fits(heap', x)
    <3>1. ASSUME Fitting PROVE ptr + size <= heap'.next[c]
      <4>1. heap'.next[c] - c - 3 >= n
        BY <1>9, <1>17, <2>2, <3>1
      <4> QED BY <1>3, <1>4, <2>2, <4>1
    <3> QED BY <2>4, <3>1 DEF Fits
  <2>7. Typed'
    BY <1>1, <1>7, <1>9, <1>10, <2>1, <2>4 DEF Typed
  <2>8. Shared(Busy(heap'), live', Hands')
    BY <1>12, <1>14, <2>1, <2>4, GiveLive
  <2> QED BY <1>9, <1>11, <1>13, <1>15, <2>1, <2>5, <2>6, <2>7, <2>8 DEF Inv
<1> QED BY <1>16, <1>17

(* The place of an area that has not been given yet. *)
LEMMA AreaFree ==
    ASSUME Typed, ~ hasSource, NEW a \in unused, a \in Areas
    PROVE  /\ a[1] \in Nat /\ a[2] \in Nat /\ a[2] >= 8 /\ a[1] + a[2] <= MemoryEnd
           /\ Free(Extents, <<a[1], a[1] + a[2]>>)
<1> DEFINE p == a[1]
           n == a[2]
           e == <<p, p + n>>
<1>1. p \in Nat /\ n \in Nat /\ n >= 8 /\ p + n <= MemoryEnd /\ e[1] = p /\ e[2] = p + n
  BY Memory, MemoryAssumption
<1>2. ASSUME NEW g \in Extents PROVE e[2] <= g[1] \/ g[2] <= e[1]
  <2>1. PICK x \in Areas \ unused : x[1] \in Nat /\ x[2] \in Nat /\ g = <<x[1], x[1] + x[2]>>
    BY ExtentFields
  <2>2. x # a
    OBVIOUS
  <2>3. x[1] + x[2] <= a[1] \/ a[1] + a[2] <= x[1]
    BY <2>2, MemoryAssumption
  <2>4. g[1] = x[1] /\ g[2] = x[1] + x[2]
    BY <2>1
  <2> HIDE DEF e
  <2> QED BY <1>1, <2>3, <2>4
<1>3. Free(Extents, e)
  <2> HIDE DEF p, n, e
  <2> QED BY <1>1, <1>2, Memory DEF Free
<1> QED BY <1>1, <1>3

LEMMA FillStep ==
    ASSUME Inv, Fill
    PROVE  Inv'
<1>1. (\A t \in Threads : pc[t] = "idle")
      /\ UNCHANGED <<hasSource, segments, live, lock, pc, op>>
  BY DEF Fill
<1>2. PICK a \in unused : /\ heap' = Insert(Setup(heap, a[1], a[2]), a[1], "FIFO")
                          /\ unused' = unused \ {a}
  BY DEF Fill
<1>3. Typed /\ Pool(heap) /\ ~ hasSource /\ a \in Areas
  BY <1>2 DEF Inv, Typed
<1>4. lock = NULL
  BY <1>1, <1>3 DEF Typed
<1>5. Chain(heap, Extents, NULL, NULL)
  BY <1>4, Unlocked
<1> DEFINE p == a[1]
           n == a[2]
           e == <<p, p + n>>
<1>6. p \in Nat /\ n \in Nat /\ n >= 8 /\ p + n <= MemoryEnd /\ e[1] = p /\ e[2] = p + n
  BY <1>3, Memory, MemoryAssumption
<1>7. Free(Extents, e)
  BY <1>2, <1>3, AreaFree
<1>8. Extents' = Extents \union {e}
  <2>1. Areas \ unused' = (Areas \ unused) \union {a}
    BY <1>2, <1>3
  <2> QED BY <1>1, <1>3, <2>1 DEF Extents
<1>9. /\ Chain(heap', Extents \union {e}, NULL, NULL) /\ Pool(heap')
      /\ Busy(heap') = Busy(heap) /\ Keeps(heap', heap, Busy(heap))
  <2> HIDE DEF p, n
  <2> QED BY <1>2, <1>3, <1>5, <1>6, <1>7, NewArea DEF p, n
<1> HIDE DEF p, n, e
<1>10. \A t \in Threads : Hand(t) = {} /\ Hand(t)' = {}
  BY <1>1 DEF Hand, InHand
<1>11. Shared(Busy(heap'), live', Hands')
  <2>1. Hands' = Hands
    BY <1>10 DEF Hands
  <2> QED BY <1>1, <1>9, <2>1 DEF Inv
<1>12. ASSUME NEW b \in live PROVE Placed(b) /\ Fits(heap', b)
  <2>1. Placed(b) /\ Fits(heap, b) /\ b.chunk \in Busy(heap)
    BY DEF Inv, Shared
  <2>2. heap'.next[b.chunk] = heap.next[b.chunk]
    BY <1>9, <2>1 DEF Keeps
  <2> QED BY <2>1, <2>2 DEF Fits
<1>13. \A t \in Threads : Knows(heap, Extents, t)'
  BY <1>1 DEF Knows
<1>14. Chain(heap, Extents, MergeFirst, MergeLast)'
  BY <1>1, <1>4, <1>8, <1>9 DEF MergeFirst, MergeLast
<1>15. Typed'
  BY <1>1, <1>2, <1>3 DEF Typed
<1> QED BY <1>1, <1>9, <1>11, <1>12, <1>13, <1>14, <1>15 DEF Inv

LEMMA Initial == Init => Inv
<1> SUFFICES ASSUME Init PROVE Inv
  OBVIOUS
<1>1. /\ hasSource \in BOOLEAN /\ heap = EmptyPool /\ segments = <<>>
      /\ unused = IF hasSource THEN {} ELSE Areas
      /\ live = {} /\ lock = NULL
      /\ pc = [t \in Threads |-> "idle"] /\ op = [t \in Threads |-> NoOp]
  BY DEF Init
<1>2. DOMAIN segments = {} /\ segments \in [DOMAIN segments -> Nat]
  BY <1>1
<1>3. Typed
  BY <1>1, <1>2, NoOpTypes, Memory DEF Typed, Controls
<1>4. Extents = {}
  BY <1>1, <1>2 DEF Extents
<1>5. /\ Chunks(heap) = {} /\ heap.next = <<>> /\ heap.prev = <<>> /\ heap.status = <<>>
      /\ heap.lists = [i \in Lists |-> <<>>] /\ heap.filled = [i \in Lists |-> FALSE]
  BY <1>1 DEF EmptyPool, Chunks
<1>6. HeapShape(heap)
  <2>1. heap = [next |-> heap.next, prev |-> heap.prev, status |-> heap.status,
                lists |-> heap.lists, filled |-> heap.filled]
    BY <1>1 DEF EmptyPool
  <2>2. \A T : <<>> \in [{} -> T]
    OBVIOUS
  <2> QED BY <1>5, <2>1, <2>2 DEF HeapShape
<1>7. Chain(heap, Extents, MergeFirst, MergeLast)
  BY <1>4, <1>5, <1>6 DEF Chain, ExtentsApart, Ordered, Reached, Inside, Ended
<1>8. Listed(heap)
  <2>1. \A i \in Lists : heap.lists[i] = <<>> /\ Len(heap.lists[i]) = 0
    BY <1>5
  <2>2. heap.lists \in [Lists -> Seq(Chunks(heap))]
    BY <1>5
  <2> QED BY <1>5, <2>1, <2>2 DEF Listed
<1>9. Flagged(heap)
  BY <1>5 DEF Flagged
<1>10. \A t \in Threads : Hand(t) = {} /\ Knows(heap, Extents, t)
  BY <1>1 DEF Hand, InHand, Knows
<1>11. Shared(Busy(heap), live, Hands)
  <2>1. Busy(heap) = {}
    BY <1>5 DEF Busy
  <2>2. \A t \in Threads : Hands[t] = {}
    BY <1>10 DEF Hands
  <2> QED BY <1>1, <2>1, <2>2 DEF Shared
<1> QED BY <1>1, <1>3, <1>7, <1>8, <1>9, <1>10, <1>11 DEF Inv, Pool

LEMMA Step == Inv /\ [Next]_vars => Inv'
<1> SUFFICES ASSUME Inv, [Next]_vars PROVE Inv'
  OBVIOUS
<1>1. CASE \E t \in Threads :
             \/ Malloc(t)
             \/ FreeBegin(t) \/ FreeMerge(t) \/ FreeInsert(t) \/ Unmap(t)
             \/ ReallocBegin(t) \/ Resize(t) \/ Grow(t) \/ Move(t)
  BY <1>1, MallocStep, FreeBeginStep, FreeMergeStep, FreeInsertStep, UnmapStep,
     ReallocBeginStep, ResizeStep, GrowStep, MoveStep
<1>2. CASE Fill
  BY <1>2, FillStep
<1>3. CASE UNCHANGED vars
  <2>1. UNCHANGED <<hasSource, heap, segments, unused, live, lock, pc, op>>
    BY <1>3 DEF vars
  <2>2. Extents' = Extents /\ MergeFirst' = MergeFirst /\ MergeLast' = MergeLast
    BY <2>1 DEF Extents, MergeFirst, MergeLast
  <2>3. Hands' = Hands
    BY <2>1 DEF Hands, Hand, InHand
  <2>4. Typed'
    BY <2>1 DEF Inv, Typed
  <2>5. ASSUME NEW t \in Threads PROVE Knows(heap, Extents, t)'
    <3>1. Knows(heap, Extents, t)
      BY DEF Inv
    <3> QED BY <2>1, <2>2, <3>1 DEF Knows
  <2> QED BY <2>1, <2>2, <2>3, <2>4, <2>5 DEF Inv
<1> QED BY <1>1, <1>2, <1>3 DEF Next

(* For every instance, Inv holds in every reachable state. *)
THEOREM Invariant == Spec => []Inv
BY Initial, Step, PTL DEF Spec

-----------------------------------------------------------------------------
(* What the invariant says: the heap is exact *)

LEMMA InvTypes == Inv => TypeOK
<1> SUFFICES ASSUME Inv PROVE TypeOK
  OBVIOUS
<1>1. Typed /\ Chain(heap, Extents, MergeFirst, MergeLast) /\ Pool(heap)
  BY DEF Inv
<1>2. Chunks(heap) \subseteq Addresses
  BY <1>1, ChunkAddresses
<1>3. heap.next \in [Chunks(heap) -> PointersOf] /\ heap.prev \in [Chunks(heap) -> PointersOf]
  <2>1. /\ heap.next \in [Chunks(heap) -> Chunks(heap) \union {NULL}]
        /\ heap.prev \in [Chunks(heap) -> Chunks(heap) \union {NULL}]
    BY <1>1 DEF Chain, HeapShape
  <2>2. Chunks(heap) \union {NULL} \subseteq PointersOf
    BY <1>2 DEF PointersOf
  <2> QED BY <2>1, <2>2
<1>4. heap.status \in [Chunks(heap) -> {"FREE", "ALLOCATED"}]
  BY <1>1 DEF Chain, HeapShape
<1>5. heap.lists \in [Lists -> Seq(Chunks(heap))] /\ heap.filled \in [Lists -> BOOLEAN]
  BY <1>1 DEF Pool, Listed, Flagged
<1> QED BY <1>1, <1>2, <1>3, <1>4, <1>5 DEF TypeOK, Typed, Controls

LEMMA InvTiled == Inv => Tiled
<1> SUFFICES ASSUME Inv, lock = NULL PROVE Tiled
  BY DEF Tiled
<1>1. Chain(heap, Extents, NULL, NULL) /\ ExtentsApart(Extents)
  BY Unlocked DEF Chain
<1>2. ASSUME NEW c \in Chunks(heap) PROVE Check(heap, c)
  <2>1. heap.prev[c] # NULL => heap.next[heap.prev[c]] = c
    BY <1>1, PrevFacts
  <2>2. heap.next[c] # NULL => heap.prev[heap.next[c]] = c
    BY <1>1, NextFacts
  <2> QED BY <2>1, <2>2 DEF Check
<1>3. ASSUME NEW c \in Chunks(heap), heap.next[c] # NULL
      PROVE  /\ heap.next[c] \in Chunks(heap)
             /\ heap.next[c] - c >= HeaderSize + MinInnerSize
             /\ \A d \in Chunks(heap) : ~ (c < d /\ d < heap.next[c])
  <2>1. heap.next[c] \in Chunks(heap)
    BY <1>1, <1>3, NextFacts
  <2> QED BY <1>1, <1>3, <2>1 DEF Chain, Ordered
<1>4. ASSUME NEW c \in Chunks(heap)
      PROVE  \E e \in Extents : /\ e[1] <= c /\ c < e[2]
                                /\ heap.prev[c] = NULL <=> c = e[1]
                                /\ heap.next[c] = NULL <=> c = e[2] - HeaderSize
  <2>1. PICK e \in Extents : /\ Within(e, c) /\ e[1] <= c /\ c < e[2]
                             /\ heap.next[c] = NULL <=> c = e[2] - 3
    BY <1>1, HomeExtent
  <2>2. c \in Nat /\ (heap.prev[c] = NULL <=> \E g \in Extents : c = g[1])
    BY <1>1, PrevFacts, ChainTypes
  <2>3. ASSUME NEW g \in Extents, c = g[1] PROVE g = e
    <3>1. g[1] \in Nat /\ g[2] \in Nat /\ g[1] + 8 <= g[2]
      BY <1>1, ExtentTypes
    <3> QED BY <1>1, <2>1, <2>2, <2>3, <3>1, OneExtent
  <2>4. heap.prev[c] = NULL <=> c = e[1]
    BY <2>2, <2>3
  <2> QED BY <2>1, <2>4, Memory
<1>5. \A e \in Extents : {e[1], e[2] - HeaderSize} \subseteq Chunks(heap)
  BY <1>1 DEF Chain, Ended
<1> QED BY <1>2, <1>3, <1>4, <1>5 DEF Tiled

LEMMA InvOwned == Inv => EveryChunkOwnedOnce
<1> SUFFICES ASSUME Inv, lock = NULL, NEW c \in Chunks(heap), heap.next[c] # NULL
             PROVE  LET users   == {b \in live : b.chunk = c}
                        threads == {t \in Threads : c \in InHand(t)}
                    IN  Cardinality(users) + Cardinality(threads) =
                          (IF heap.status[c] = "ALLOCATED" THEN 1 ELSE 0)
  BY DEF EveryChunkOwnedOnce
<1> DEFINE users == {b \in live : b.chunk = c}
           threads == {t \in Threads : c \in InHand(t)}
<1>1. \A t \in Threads : Hands[t] = InHand(t)
  BY Unlocked DEF Hands, Hand
<1>2. Shared(Busy(heap), live, Hands)
  BY DEF Inv
<1>3. /\ \A b \in live : b.chunk \in Busy(heap)
      /\ \A t \in Threads : InHand(t) \subseteq Busy(heap)
      /\ \A b \in live, x \in live : b.chunk = x.chunk => b = x
      /\ \A b \in live, t \in Threads : b.chunk \notin InHand(t)
      /\ \A t \in Threads, r \in Threads : t # r => \A d \in InHand(t) : d \notin InHand(r)
      /\ \A d \in Busy(heap) : (\E b \in live : b.chunk = d) \/ \E t \in Threads : d \in InHand(t)
  BY <1>1, <1>2 DEF Shared
<1>4. c \in Busy(heap) <=> heap.status[c] = "ALLOCATED"
  BY DEF Busy
<1>5. CASE \E b \in live : b.chunk = c
  <2>1. PICK b \in live : b.chunk = c
    BY <1>5
  <2>2. users = {b} /\ threads = {}
    BY <1>3, <2>1
  <2>3. heap.status[c] = "ALLOCATED"
    BY <1>3, <1>4, <2>1
  <2>4. Cardinality(users) = 1 /\ Cardinality(threads) = 0
    BY <2>2, FS_Singleton, FS_EmptySet
  <2> HIDE DEF users, threads
  <2>5. Cardinality(users) + Cardinality(threads) = 1
    BY <2>4
  <2> QED BY <2>3, <2>5 DEF users, threads
<1>6. CASE \E t \in Threads : c \in InHand(t)
  <2>1. PICK t \in Threads : c \in InHand(t)
    BY <1>6
  <2>2. users = {} /\ threads = {t}
    BY <1>3, <2>1
  <2>3. heap.status[c] = "ALLOCATED"
    BY <1>3, <1>4, <2>1
  <2>4. Cardinality(users) = 0 /\ Cardinality(threads) = 1
    BY <2>2, FS_Singleton, FS_EmptySet
  <2> HIDE DEF users, threads
  <2>5. Cardinality(users) + Cardinality(threads) = 1
    BY <2>4
  <2> QED BY <2>3, <2>5 DEF users, threads
<1>7. CASE ~ (\E b \in live : b.chunk = c) /\ ~ (\E t \in Threads : c \in InHand(t))
  <2>1. users = {} /\ threads = {}
    BY <1>7
  <2>2. heap.status[c] # "ALLOCATED"
    BY <1>3, <1>4, <1>7
  <2>3. Cardinality(users) = 0 /\ Cardinality(threads) = 0
    BY <2>1, FS_EmptySet
  <2> HIDE DEF users, threads
  <2>4. Cardinality(users) + Cardinality(threads) = 0
    BY <2>3
  <2> QED BY <2>2, <2>4 DEF users, threads
<1> QED BY <1>5, <1>6, <1>7

LEMMA InvUnmap == Inv => UnmapWholeSegment
<1> SUFFICES ASSUME Inv, NEW t \in Threads, pc[t] = "unmap"
             PROVE  LET b == SegmentOf(op[t].first)
                        inside(a) == b <= a /\ a < b + segments[b]
                    IN  /\ IsSingle(heap, op[t].first)
                        /\ heap.status[op[t].first] = "ALLOCATED"
                        /\ \A x \in live : ~ inside(x.chunk)
                        /\ \A r \in Threads \ {t} : \A c \in InHand(r) : ~ inside(c)
                        /\ \A i \in Lists : \A k \in 1..Len(heap.lists[i]) :
                             ~ inside(heap.lists[i][k])
  BY DEF UnmapWholeSegment
<1> DEFINE c == op[t].first
           b == SegmentOf(c)
           e == <<b + 2, b + segments[b]>>
           inside(a) == b <= a /\ a < b + segments[b]
<1>1. /\ e \in Extents /\ c = e[1] /\ heap.next[c] = e[2] - 3
      /\ Hand(t) = {c} /\ c \in Busy(heap)
      /\ \A x \in Chunks(heap) : inside(x) <=> e[1] <= x /\ x < e[2]
      /\ \A x \in Chunks(heap) : e[1] <= x /\ x < e[2] => x = c \/ heap.next[x] = NULL
  <2> HIDE DEF b, c
  <2>1. c = op[t].first /\ b = SegmentOf(c)
    BY DEF b, c
  <2> QED BY <2>1, Unmapping
<1>2. Chain(heap, Extents, MergeFirst, MergeLast) /\ Pool(heap)
  BY DEF Inv
<1>3. \A x \in Chunks(heap) : inside(x) => x = c \/ heap.next[x] = NULL
  BY <1>1
<1> HIDE DEF inside
<1>4. heap.status[c] = "ALLOCATED"
  BY <1>1 DEF Busy
<1>5. IsSingle(heap, c)
  <2>1. heap.prev[c] = NULL
    BY <1>1, <1>2 DEF Chain, Ended
  <2>2. e[1] \in Nat /\ e[2] \in Nat /\ e[1] + 8 <= e[2]
    BY <1>1, <1>2, ExtentTypes DEF Chain
  <2> HIDE DEF e, b, c
  <2>3. heap.next[c] \in Chunks(heap)
    BY <1>1, <1>2, NextFacts DEF Busy
  <2>4. e[1] <= heap.next[c] /\ heap.next[c] < e[2]
    BY <1>1, <2>2
  <2>5. heap.next[heap.next[c]] = NULL
    BY <1>1, <1>2, <2>3, <2>4, InExtent
  <2> QED BY <2>1, <2>5 DEF IsSingle
<1>6. \A x \in Busy(heap) \ {c} : ~ inside(x)
  BY <1>3 DEF Busy
<1> HIDE DEF c
<1>7. \A x \in live : ~ inside(x.chunk)
  BY <1>1, <1>6, HandFacts
<1>8. \A r \in Threads \ {t} : \A d \in InHand(r) : ~ inside(d)
  <2> SUFFICES ASSUME NEW r \in Threads, r # t, NEW d \in InHand(r) PROVE ~ inside(d)
    OBVIOUS
  <2>1. d \in Hand(r)
    BY DEF Hand
  <2> QED BY <1>1, <1>6, <2>1, HandFacts
<1>9. \A i \in Lists : \A k \in 1..Len(heap.lists[i]) : ~ inside(heap.lists[i][k])
  <2> SUFFICES ASSUME NEW i \in Lists, NEW k \in 1..Len(heap.lists[i])
               PROVE  ~ inside(heap.lists[i][k])
    OBVIOUS
  <2> DEFINE d == heap.lists[i][k]
  <2>1. heap.status[d] = "FREE" /\ d \in Chunks(heap)
    BY <1>2 DEF Pool, Listed
  <2>2. heap.next[d] # NULL
    BY <1>2, <2>1 DEF Pool, Listed
  <2> HIDE DEF d
  <2>3. ~ inside(d)
    BY <1>3, <1>4, <2>1, <2>2
  <2> QED BY <2>3 DEF d
<1> QED BY <1>4, <1>5, <1>7, <1>8, <1>9 DEF inside, b, c

(* The memory the allocator was given is tiled by chunks, every chunk in    *)
(* use has one owner, and free unmaps nothing but whole segments that no    *)
(* one uses (MediumAllocator, MediumChunk): for every number of threads.    *)
THEOREM HeapIsExact == Spec => []HeapExact
<1>1. Inv => HeapExact
  BY InvTypes, InvTiled, InvOwned, InvUnmap DEF HeapExact
<1> QED BY <1>1, Invariant, PTL

-----------------------------------------------------------------------------
(* The free lists *)

(* A list without repetition is not longer than there are chunks. *)
LEMMA ListLength ==
    ASSUME NEW T \in SUBSET Nat, NEW n \in Nat, \A x \in T : x <= n,
           NEW s \in Seq(T), Distinct(s)
    PROVE  Len(s) <= Cardinality(T) /\ Cardinality(T) \in Nat /\ Len(s) \in Nat
<1>1. IsFiniteSet(T)
  BY FS_BoundedSetOfNaturals
<1>2. Cardinality(T) \in Nat
  BY <1>1, FS_CardinalityType
<1>3. Len(s) \in Nat /\ s \in [1 .. Len(s) -> T]
  OBVIOUS
<1>4. IsFiniteSet(1 .. Len(s)) /\ Cardinality(1 .. Len(s)) = Len(s)
  <2>1. IsFiniteSet(1 .. Len(s)) /\ Cardinality(1 .. Len(s)) = IF 1 > Len(s) THEN 0 ELSE Len(s) - 1 + 1
    BY <1>3, FS_Interval
  <2> QED BY <1>3, <2>1
<1>5. CASE Cardinality(T) < Len(s)
  <2>1. \E x, y \in 1 .. Len(s) : x # y /\ s[x] = s[y]
    BY <1>1, <1>3, <1>4, <1>5, FS_PigeonHole
  <2> QED BY <2>1 DEF Distinct
<1> QED BY <1>2, <1>3, <1>5

LEMMA InvLists == Inv => FreeListsExact
<1> SUFFICES ASSUME Inv PROVE FreeListsExact
  OBVIOUS
<1>1. Chain(heap, Extents, MergeFirst, MergeLast) /\ Listed(heap) /\ Flagged(heap)
  BY DEF Inv, Pool
<1> DEFINE C == Chunks(heap)
           Places(c) == {p \in Lists \X (1..Cardinality(C)) :
                           p[2] <= Len(heap.lists[p[1]]) /\ heap.lists[p[1]][p[2]] = c}
<1>2. \A c \in C : c \in Nat /\ c <= MemoryEnd
  BY <1>1, ChunkAddresses, Memory DEF Addresses
<1>3. /\ heap.lists \in [Lists -> Seq(C)]
      /\ \A i \in Lists : \A k \in 1 .. Len(heap.lists[i]) :
           heap.status[heap.lists[i][k]] = "FREE" /\ InClass(i, InnerSize(heap, heap.lists[i][k]))
      /\ \A c \in C : heap.status[c] = "FREE" =>
           \E i \in Lists : \E k \in 1 .. Len(heap.lists[i]) : heap.lists[i][k] = c
      /\ \A i \in Lists, j \in Lists :
           \A k \in 1 .. Len(heap.lists[i]), l \in 1 .. Len(heap.lists[j]) :
             heap.lists[i][k] = heap.lists[j][l] => i = j /\ k = l
  BY <1>1 DEF Listed
<1> HIDE DEF C
<1>4. ASSUME NEW i \in Lists
      PROVE  Len(heap.lists[i]) \in Nat /\ Len(heap.lists[i]) <= Cardinality(C) /\ Cardinality(C) \in Nat
  <2> DEFINE s == heap.lists[i]
  <2>1. s \in Seq(C)
    BY <1>3
  <2>2. Distinct(s)
    BY <1>3 DEF Distinct
  <2>3. C \in SUBSET Nat /\ MemoryEnd \in Nat /\ \A x \in C : x <= MemoryEnd
    BY <1>2, Memory
  <2> HIDE DEF s
  <2>4. Len(s) <= Cardinality(C) /\ Cardinality(C) \in Nat /\ Len(s) \in Nat
    BY <2>1, <2>2, <2>3, ListLength
  <2> QED BY <2>4 DEF s
<1>5. ASSUME NEW c \in C, heap.status[c] = "FREE"
      PROVE  /\ Cardinality(Places(c)) = 1
             /\ \A p \in Places(c) :
                  /\ p[1] # 1 => Sizes[p[1]] <= InnerSize(heap, c) \/ Sizes[p[1]] = Unlimited
                  /\ p[1] < Len(Sizes) => InnerSize(heap, c) < Sizes[p[1] + 1]
  <2>0. PICK i \in Lists : \E k \in 1 .. Len(heap.lists[i]) : heap.lists[i][k] = c
    BY <1>3, <1>5
  <2>1. PICK k \in 1 .. Len(heap.lists[i]) : heap.lists[i][k] = c
    BY <2>0
  <2>2. <<i, k>> \in Places(c)
    <3>1. k \in 1 .. Cardinality(C) /\ k <= Len(heap.lists[i])
      BY <1>4
    <3> QED BY <2>1, <3>1
  <2>3. ASSUME NEW p \in Places(c) PROVE p = <<i, k>>
    <3>1. PICK j \in Lists, l \in 1 .. Cardinality(C) : p = <<j, l>>
      OBVIOUS
    <3>2. l <= Len(heap.lists[j]) /\ heap.lists[j][l] = c
      BY <3>1
    <3>3. l \in 1 .. Len(heap.lists[j])
      BY <1>4, <3>2
    <3> QED BY <1>3, <2>1, <3>1, <3>2, <3>3
  <2>4. Places(c) = {<<i, k>>}
    BY <2>2, <2>3
  <2>5. InClass(i, InnerSize(heap, c))
    BY <1>3, <2>1
  <2> HIDE DEF Places
  <2>6. Cardinality(Places(c)) = 1
    BY <2>4, FS_Singleton
  <2> QED BY <2>4, <2>5, <2>6 DEF InClass
<1>6. ASSUME NEW c \in C, heap.status[c] # "FREE" PROVE Places(c) = {}
  <2> SUFFICES ASSUME NEW p \in Places(c) PROVE FALSE
    OBVIOUS
  <2>1. PICK j \in Lists, l \in 1 .. Cardinality(C) : p = <<j, l>>
    OBVIOUS
  <2>2. l <= Len(heap.lists[j]) /\ heap.lists[j][l] = c
    BY <2>1
  <2>3. l \in 1 .. Len(heap.lists[j])
    BY <1>4, <2>2
  <2> QED BY <1>3, <1>6, <2>2, <2>3
<1>7. \A i \in Lists : heap.filled[i] <=> heap.lists[i] # <<>>
  BY <1>1 DEF Flagged
<1>8. \A c \in C :
        IF heap.status[c] = "FREE"
          THEN /\ Cardinality(Places(c)) = 1
               /\ \A p \in Places(c) :
                    /\ p[1] # 1 => Sizes[p[1]] <= InnerSize(heap, c) \/ Sizes[p[1]] = Unlimited
                    /\ p[1] < Len(Sizes) => InnerSize(heap, c) < Sizes[p[1] + 1]
          ELSE Places(c) = {}
  <2> HIDE DEF Places
  <2> QED BY <1>5, <1>6
<1> QED BY <1>7, <1>8 DEF FreeListsExact, C

(* The free lists hold the free chunks, each one once and in the class of   *)
(* its size, and a flag is up exactly when its list has a chunk             *)
(* (MediumFreePool): for every table of sizes.                              *)
THEOREM FreeListsAreExact == Spec => []FreeListsExact
BY InvLists, Invariant, PTL

(* findChunk misses no free chunk that is large enough, whatever the table  *)
(* of sizes and the size that is looked for.                                *)
THEOREM SearchMissesNone == Spec => []SearchIsComplete
<1>1. ASSUME Inv, lock = NULL, NEW size \in MallocSizes
      PROVE  LET found == FindChunk(heap, size)
             IN  IF found = NULL
                   THEN \A c \in Chunks(heap) :
                          heap.status[c] = "FREE" => InnerSize(heap, c) < size
                   ELSE heap.status[found] = "FREE" /\ InnerSize(heap, found) >= size
  <2>1. size \in Nat /\ size <= Unlimited
    BY RequestsAssumption
  <2> QED BY <1>1, <2>1, FindFacts DEF Inv
<1>2. Inv => SearchIsComplete
  BY <1>1 DEF SearchIsComplete
<1> QED BY <1>2, Invariant, PTL

(* The block malloc returns lies in its chunk, as it asserts, when segments *)
(* are mapped large enough and realloc is not called on padded blocks.      *)
THEOREM BlocksAreInside ==
    ASSUME Fitting, ReallocPadded = FALSE
    PROVE  Spec => []BlockInsideChunk
<1>1. ASSUME Inv, NEW b \in live
      PROVE  /\ GetPtr(b.chunk) <= b.ptr
             /\ b.ptr + b.size <= GetPtr(b.chunk) + InnerSize(heap, b.chunk)
  <2>1. Placed(b) /\ Fits(heap, b) /\ b.chunk \in Busy(heap)
    BY <1>1, HandFacts DEF Inv, Shared
  <2> DEFINE c == b.chunk
  <2>2. c \in Nat /\ heap.next[c] \in Nat /\ GetPtr(c) = c + 3
        /\ InnerSize(heap, c) = heap.next[c] - c - 3
    BY <1>1, <2>1, Room DEF Inv
  <2>3. b.ptr + b.size <= heap.next[c]
    BY <2>1 DEF Fits
  <2> HIDE DEF c
  <2>4. GetPtr(c) + InnerSize(heap, c) = heap.next[c]
    BY <2>2
  <2> QED BY <2>1, <2>3, <2>4 DEF Placed, c
<1>2. Inv => BlockInsideChunk
  BY <1>1 DEF BlockInsideChunk
<1> QED BY <1>2, Invariant, PTL

-----------------------------------------------------------------------------
(* The allocator implements BlockHeap *)

Bytes(b) == [ptr |-> b.ptr, size |-> b.size]

(* The blocks in use: those of the users, and those realloc works on.       *)
Reallocating == {"resize", "grow", "move"}
Held == live \union {op[t].block : t \in {r \in Threads : pc[r] \in Reallocating}}

UsedApart ==
    \A b \in UsedBlocks, c \in UsedBlocks : b = c \/ AbstractHeap!Disjoint(b, c)

LEMMA UsedIsHeld == UsedBlocks = {Bytes(b) : b \in Held}
BY DEF UsedBlocks, Held, Bytes, Reallocating

(* A block in use has a chunk of its own, and ends before its chunk does.   *)
LEMMA HeldFacts ==
    ASSUME Fitting, ReallocPadded = FALSE, Inv, NEW b \in Held
    PROVE  /\ b \in Blocks /\ b.chunk \in Busy(heap)
           /\ b.chunk + 3 <= b.ptr /\ b.ptr + b.size <= heap.next[b.chunk]
           /\ \A c \in Held : b.chunk = c.chunk => b = c
<1>1. ASSUME NEW t \in Threads, pc[t] \in Reallocating
      PROVE  /\ op[t].block \in Blocks /\ op[t].block.chunk \in Hand(t)
             /\ Placed(op[t].block) /\ Fits(heap, op[t].block)
  <2> DEFINE c == op[t].block.chunk
  <2>1. pc[t] \in {"resize", "move", "grow"}
    BY <1>1 DEF Reallocating
  <2>2. c \in Hand(t) /\ op[t].block \in Blocks /\ Placed(op[t].block) /\ Fits(heap, op[t].block)
    BY <2>1, Resizing
  <2> QED BY <2>2
<1>2. b \in Blocks /\ b.chunk \in Busy(heap) /\ Placed(b) /\ Fits(heap, b)
  <2>1. CASE b \in live
    BY <2>1 DEF Inv, Typed, Shared
  <2>2. CASE b \notin live
    <3>1. PICK t \in Threads : pc[t] \in Reallocating /\ b = op[t].block
      BY <2>2 DEF Held
    <3> QED BY <3>1, <1>1, HandFacts
  <2> QED BY <2>1, <2>2
<1>3. Chain(heap, Extents, MergeFirst, MergeLast)
  BY DEF Inv
<1>4. b.chunk + 3 <= b.ptr /\ b.ptr + b.size <= heap.next[b.chunk]
  <2> DEFINE c == b.chunk
  <2>1. GetPtr(c) = c + 3
    BY <1>2, <1>3, Room
  <2> QED BY <1>2, <2>1 DEF Placed, Fits
<1>5. ASSUME NEW c \in Held, b.chunk = c.chunk PROVE b = c
  <2>1. CASE b \in live /\ c \in live
    BY <1>5, <2>1 DEF Inv, Shared
  <2>2. CASE b \in live /\ c \notin live
    <3>1. PICK t \in Threads : pc[t] \in Reallocating /\ c = op[t].block
      BY <2>2 DEF Held
    <3> QED BY <1>1, <1>5, <2>2, <3>1, HandFacts
  <2>3. CASE b \notin live /\ c \in live
    <3>1. PICK t \in Threads : pc[t] \in Reallocating /\ b = op[t].block
      BY <2>3 DEF Held
    <3> QED BY <1>1, <1>5, <2>3, <3>1, HandFacts
  <2>4. CASE b \notin live /\ c \notin live
    <3>1. PICK t \in Threads : pc[t] \in Reallocating /\ b = op[t].block
      BY <2>4 DEF Held
    <3>2. PICK r \in Threads : pc[r] \in Reallocating /\ c = op[r].block
      BY <2>4 DEF Held
    <3>3. t = r
      BY <1>1, <1>5, <3>1, <3>2, HandFacts
    <3> QED BY <3>1, <3>2, <3>3
  <2> QED BY <2>1, <2>2, <2>3, <2>4
<1> QED BY <1>2, <1>4, <1>5

LEMMA UsedIsApart == Fitting /\ ReallocPadded = FALSE /\ Inv => UsedApart
<1> SUFFICES ASSUME Fitting, ReallocPadded = FALSE, Inv PROVE UsedApart
  OBVIOUS
<1> SUFFICES ASSUME NEW b \in Held, NEW c \in Held, b # c
             PROVE  AbstractHeap!Disjoint(Bytes(b), Bytes(c))
  <2>1. \A x \in UsedBlocks : \E b \in Held : x = Bytes(b)
    BY UsedIsHeld
  <2> QED BY <2>1 DEF UsedApart
<1>1. b \in Blocks /\ c \in Blocks /\ b.chunk # c.chunk
      /\ b.chunk \in Busy(heap) /\ c.chunk \in Busy(heap)
      /\ b.chunk + 3 <= b.ptr /\ b.ptr + b.size <= heap.next[b.chunk]
      /\ c.chunk + 3 <= c.ptr /\ c.ptr + c.size <= heap.next[c.chunk]
  BY HeldFacts
<1>2. Chain(heap, Extents, MergeFirst, MergeLast)
  BY DEF Inv
<1>3. ASSUME NEW x \in Busy(heap), NEW y \in Busy(heap), x < y
      PROVE  heap.next[x] <= y
  <2>1. x \in Nat /\ y \in Nat /\ heap.next[x] \in Nat
    BY <1>2, Room
  <2>2. ~ (x < y /\ y < heap.next[x])
    BY <1>2 DEF Chain, Ordered, Busy
  <2> QED BY <1>3, <2>1, <2>2
<1>4. /\ b.chunk \in Nat /\ c.chunk \in Nat
      /\ heap.next[b.chunk] \in Nat /\ heap.next[c.chunk] \in Nat
  <2>1. \A x \in Busy(heap) : x \in Nat /\ heap.next[x] \in Nat
    BY <1>2, Room
  <2> QED BY <1>1, <2>1
<1>5. b.ptr \in Nat /\ b.size \in Nat /\ c.ptr \in Nat /\ c.size \in Nat
  BY <1>1 DEF Blocks
<1>6. CASE b.chunk < c.chunk
  <2>1. heap.next[b.chunk] <= c.chunk
    BY <1>1, <1>3, <1>6
  <2>2. b.ptr + b.size <= c.ptr
    BY <1>1, <1>4, <1>5, <2>1
  <2> QED BY <2>2 DEF AbstractHeap!Disjoint, Bytes
<1>7. CASE c.chunk < b.chunk
  <2>1. heap.next[c.chunk] <= b.chunk
    BY <1>1, <1>3, <1>7
  <2>2. c.ptr + c.size <= b.ptr
    BY <1>1, <1>4, <1>5, <2>1
  <2> QED BY <2>2 DEF AbstractHeap!Disjoint, Bytes
<1> QED BY <1>1, <1>4, <1>6, <1>7

(* A step that replaces at most one block by at most one is a step of       *)
(* BlockHeap, when no two blocks overlap after it.                          *)
LEMMA HeapStep ==
    ASSUME UsedApart', NEW R, NEW old, NEW new,
           UsedBlocks = R \/ UsedBlocks = R \union {old},
           UsedBlocks' = R \/ UsedBlocks' = R \union {new}
    PROVE  [AbstractHeap!Next]_UsedBlocks
<1> DEFINE before == UsedBlocks
           after  == UsedBlocks'
<1>1. \A b \in after, c \in after : b = c \/ AbstractHeap!Disjoint(b, c)
  BY DEF UsedApart, AbstractHeap!Disjoint
<1>2. [AbstractHeap!Next]_UsedBlocks <=>
        \/ after = before
        \/ \E b \in after \ before : /\ \A a \in before : AbstractHeap!Disjoint(a, b)
                                     /\ after = before \union {b}
        \/ \E b \in before \ after : after = before \ {b}
        \/ \E x \in before \ after, y \in after \ before :
             /\ \A a \in before \ {x} : AbstractHeap!Disjoint(a, y)
             /\ after = (before \ {x}) \union {y}
  BY DEF AbstractHeap!Next, AbstractHeap!Malloc, AbstractHeap!Free, AbstractHeap!Realloc
<1> HIDE DEF before, after
<1>3. /\ before = R \/ before = R \union {old}
      /\ after = R \/ after = R \union {new}
  BY DEF before, after
<1>4. CASE new \notin after \ before /\ old \notin before \ after
  <2>1. after = before
    BY <1>3, <1>4
  <2> QED BY <1>2, <2>1
<1>5. CASE new \in after \ before /\ old \notin before \ after
  <2>1. after = before \union {new}
    BY <1>3, <1>5
  <2> QED BY <1>1, <1>2, <1>5, <2>1
<1>6. CASE new \notin after \ before /\ old \in before \ after
  <2>1. after = before \ {old}
    BY <1>3, <1>6
  <2> QED BY <1>2, <1>6, <2>1
<1>7. CASE new \in after \ before /\ old \in before \ after
  <2>1. after = (before \ {old}) \union {new}
    BY <1>3, <1>7
  <2> QED BY <1>1, <1>2, <1>7, <2>1
<1> QED BY <1>4, <1>5, <1>6, <1>7

(* The blocks the other threads work on. *)
Rest(t) == {op[r].block : r \in {q \in Threads : q # t /\ pc[q] \in Reallocating}}

LEMMA HeldSplit ==
    ASSUME NEW t \in Threads
    PROVE  /\ pc[t] \notin Reallocating => Held = live \union Rest(t)
           /\ pc[t] \in Reallocating => Held = live \union Rest(t) \union {op[t].block}
           /\ (pc[t] \notin Reallocating => Held = live \union Rest(t))'
           /\ (pc[t] \in Reallocating => Held = live \union Rest(t) \union {op[t].block})'
BY DEF Held, Rest

(* What t does to its own control point changes no block of another.        *)
LEMMA RestStays ==
    ASSUME Inv, NEW t \in Threads, NEW p, NEW o,
           pc' = [pc EXCEPT ![t] = p], op' = [op EXCEPT ![t] = o]
    PROVE  Rest(t)' = Rest(t) /\ pc'[t] = p /\ op'[t] = o
<1>1. DOMAIN pc = Threads /\ DOMAIN op = Threads
  BY DEF Inv, Typed
<1> QED BY <1>1 DEF Rest

(* malloc takes place under the lock, free at its first read, realloc when  *)
(* the chunk is cut or grown, or when a new one has been taken.             *)
LEMMA HeldStep ==
    ASSUME Inv, [Next]_vars
    PROVE  \E R, old, new : /\ Held = R \/ Held = R \union {old}
                            /\ Held' = R \/ Held' = R \union {new}
<1> DEFINE Goal == \E R, old, new : /\ Held = R \/ Held = R \union {old}
                                    /\ Held' = R \/ Held' = R \union {new}
<1>1. Held' = Held => Goal
  OBVIOUS
<1>2. ASSUME NEW x, Held' = Held \union {x} PROVE Goal
  BY <1>2
<1>3. ASSUME NEW R, NEW x, NEW y, Held = R \union {x}, Held' = R \/ Held' = R \union {y}
      PROVE Goal
  BY <1>3
<1> HIDE DEF Goal
<1>4. ASSUME NEW t \in Threads, Malloc(t) PROVE Goal
  <2>1. pc[t] = "idle" /\ UNCHANGED <<pc, op>> /\ (live' = live \/ \E x : live' = live \union {x})
    BY <1>4 DEF Malloc
  <2>2. Held' = Held \/ \E x : Held' = Held \union {x}
    BY <2>1 DEF Held
  <2> QED BY <2>2, <1>1, <1>2
<1>5. ASSUME NEW t \in Threads, FreeBegin(t) PROVE Goal
  <2>1. pc[t] = "idle"
    BY <1>5 DEF FreeBegin
  <2>2. PICK b \in live : /\ live' = live \ {b}
                          /\ \/ UNCHANGED <<pc, op>>
                             \/ /\ pc' = [pc EXCEPT ![t] = "free"]
                                /\ op' = [op EXCEPT ![t] = [NoOp EXCEPT !.first = b.chunk]]
    BY <1>5 DEF FreeBegin
  <2>3. Rest(t)' = Rest(t) /\ pc'[t] \in {"idle", "free"}
    <3>1. CASE UNCHANGED <<pc, op>>
      BY <2>1, <3>1 DEF Rest
    <3> QED BY <2>2, <3>1, RestStays
  <2>4. Held = live \union Rest(t) /\ Held' = live' \union Rest(t)'
    BY <2>1, <2>3, HeldSplit DEF Reallocating
  <2>5. Held = ((live \ {b}) \union Rest(t)) \union {b} /\ Held' = (live \ {b}) \union Rest(t)
    BY <2>2, <2>3, <2>4
  <2> QED BY <2>5, <1>3
<1>6. ASSUME NEW t \in Threads, FreeMerge(t) \/ FreeInsert(t) \/ Unmap(t) PROVE Goal
  <2>1. pc[t] \in {"free", "merge", "unmap"} /\ live' = live
    BY <1>6 DEF FreeMerge, FreeInsert, Unmap
  <2>2. \E p \in {"idle", "merge", "unmap"} : \E o :
            pc' = [pc EXCEPT ![t] = p] /\ op' = [op EXCEPT ![t] = o]
    BY <1>6 DEF FreeMerge, FreeInsert, Unmap
  <2>3. Rest(t)' = Rest(t) /\ pc'[t] \in {"idle", "merge", "unmap"}
    BY <2>2, RestStays
  <2>4. Held' = Held
    BY <2>1, <2>3, HeldSplit DEF Reallocating
  <2> QED BY <2>4, <1>1
<1>7. ASSUME NEW t \in Threads, ReallocBegin(t) PROVE Goal
  <2>1. pc[t] = "idle"
    BY <1>7 DEF ReallocBegin
  <2>2. PICK b \in live, size \in ReallocSizes :
          \/ /\ live' = (live \ {b}) \union {[b EXCEPT !.size = size]}
             /\ UNCHANGED <<pc, op>>
          \/ /\ live' = live \ {b}
             /\ pc' = [pc EXCEPT ![t] = "resize"]
             /\ op' = [op EXCEPT ![t] = [NoOp EXCEPT !.block = b, !.size = size]]
    BY <1>7 DEF ReallocBegin
  <2> DEFINE R == (live \ {b}) \union Rest(t)
  <2>3. Held = R \union {b}
    BY <2>1, HeldSplit DEF Reallocating
  <2>4. CASE live' = (live \ {b}) \union {[b EXCEPT !.size = size]} /\ UNCHANGED <<pc, op>>
    <3>1. Rest(t)' = Rest(t)
      BY <2>4 DEF Rest
    <3>2. Held' = R \union {[b EXCEPT !.size = size]}
      BY <2>1, <2>4, <3>1, HeldSplit DEF Reallocating
    <3> QED BY <2>3, <3>2, <1>3
  <2>5. CASE /\ live' = live \ {b}
             /\ pc' = [pc EXCEPT ![t] = "resize"]
             /\ op' = [op EXCEPT ![t] = [NoOp EXCEPT !.block = b, !.size = size]]
    <3> DEFINE o == [NoOp EXCEPT !.block = b, !.size = size]
    <3>1. o.block = b
      BY DEF NoOp
    <3> HIDE DEF o
    <3>2. Rest(t)' = Rest(t) /\ pc'[t] = "resize" /\ op'[t] = o
      BY <2>5, RestStays DEF o
    <3>3. Held' = R \union {b}
      BY <2>5, <3>1, <3>2, HeldSplit DEF Reallocating
    <3> QED BY <2>3, <3>3, <1>3
  <2> QED BY <2>2, <2>4, <2>5
<1>8. ASSUME NEW t \in Threads, Resize(t) PROVE Goal
  <2> DEFINE R == live \union Rest(t)
  <2>1. pc[t] = "resize" /\ Held = R \union {op[t].block}
    BY <1>8, HeldSplit DEF Resize, Reallocating
  <2>2. CASE /\ live' = live \union {InPlace(op[t])}
             /\ pc' = [pc EXCEPT ![t] = "idle"] /\ op' = [op EXCEPT ![t] = NoOp]
    <3>1. Rest(t)' = Rest(t) /\ pc'[t] = "idle"
      BY <2>2, RestStays
    <3>2. Held' = R \union {InPlace(op[t])}
      BY <2>2, <3>1, HeldSplit DEF Reallocating
    <3> QED BY <2>1, <3>2, <1>3
  <2>3. ASSUME NEW last, live' = live, pc' = [pc EXCEPT ![t] = "grow"],
               op' = [op EXCEPT ![t].first = op[t].block.chunk, ![t].last = last]
        PROVE  Goal
    <3> DEFINE o == [op[t] EXCEPT !.first = op[t].block.chunk, !.last = last]
    <3>1. o.block = op[t].block /\ op' = [op EXCEPT ![t] = o]
      BY <2>3 DEF Inv, Typed, Ops
    <3> HIDE DEF o
    <3>2. Rest(t)' = Rest(t) /\ pc'[t] = "grow" /\ op'[t] = o
      BY <2>3, <3>1, RestStays
    <3>3. Held' = R \union {op[t].block}
      BY <2>3, <3>1, <3>2, HeldSplit DEF Reallocating
    <3> QED BY <2>1, <3>3, <1>3
  <2>4. CASE live' = live /\ pc' = [pc EXCEPT ![t] = "move"] /\ op' = op
    <3>1. op' = [op EXCEPT ![t] = op[t]]
      BY <2>4 DEF Inv, Typed
    <3>2. Rest(t)' = Rest(t) /\ pc'[t] = "move" /\ op'[t] = op[t]
      BY <2>4, <3>1, RestStays
    <3>3. Held' = R \union {op[t].block}
      BY <2>4, <3>2, HeldSplit DEF Reallocating
    <3> QED BY <2>1, <3>3, <1>3
  <2> QED BY <1>8, <2>2, <2>3, <2>4 DEF Resize
<1>9. ASSUME NEW t \in Threads, Grow(t) PROVE Goal
  <2> DEFINE R == live \union Rest(t)
  <2>1. /\ pc[t] = "grow" /\ live' = live \union {InPlace(op[t])}
        /\ pc' = [pc EXCEPT ![t] = "idle"] /\ op' = [op EXCEPT ![t] = NoOp]
    BY <1>9 DEF Grow
  <2>2. Held = R \union {op[t].block}
    BY <2>1, HeldSplit DEF Reallocating
  <2>3. Rest(t)' = Rest(t) /\ pc'[t] = "idle"
    BY <2>1, RestStays
  <2>4. Held' = R \union {InPlace(op[t])}
    BY <2>1, <2>3, HeldSplit DEF Reallocating
  <2> QED BY <2>2, <2>4, <1>3
<1>10. ASSUME NEW t \in Threads, Move(t) PROVE Goal
  <2> DEFINE R == live \union Rest(t)
  <2>1. /\ pc[t] = "move" /\ (live' = live \/ \E x : live' = live \union {x})
        /\ pc' = [pc EXCEPT ![t] = "free"]
        /\ op' = [op EXCEPT ![t] = [NoOp EXCEPT !.first = op[t].block.chunk]]
    BY <1>10 DEF Move
  <2>2. Held = R \union {op[t].block}
    BY <2>1, HeldSplit DEF Reallocating
  <2>3. Rest(t)' = Rest(t) /\ pc'[t] = "free"
    BY <2>1, RestStays
  <2>4. Held' = R \/ \E x : Held' = R \union {x}
    BY <2>1, <2>3, HeldSplit DEF Reallocating
  <2> HIDE DEF R
  <2> QED BY <2>2, <2>4, <1>3
<1>11. ASSUME Fill \/ UNCHANGED vars PROVE Goal
  <2>1. UNCHANGED <<live, pc, op>>
    BY <1>11 DEF Fill, vars
  <2> QED BY <2>1, <1>1 DEF Held
<1>12. ASSUME NEW t \in Threads,
               \/ Malloc(t)
               \/ FreeBegin(t) \/ FreeMerge(t) \/ FreeInsert(t) \/ Unmap(t)
               \/ ReallocBegin(t) \/ Resize(t) \/ Grow(t) \/ Move(t)
       PROVE  Goal
  BY <1>12, <1>4, <1>5, <1>6, <1>7, <1>8, <1>9, <1>10
<1>13. Goal
  BY <1>11, <1>12 DEF Next
<1> QED BY <1>13 DEF Goal

(* Blocks in use never overlap: malloc, free and realloc are those of       *)
(* BlockHeap, between any steps of any number of other threads, when        *)
(* segments are mapped large enough and realloc is not called on padded     *)
(* blocks.                                                                  *)
THEOREM MediumImplements ==
    ASSUME Fitting, ReallocPadded = FALSE
    PROVE  Spec => Implements
<1>1. Init => AbstractHeap!Init
  BY DEF Init, AbstractHeap!Init, UsedBlocks
<1>2. Inv /\ UsedApart' /\ [Next]_vars => [AbstractHeap!Next]_UsedBlocks
  <2> SUFFICES ASSUME Inv, UsedApart', [Next]_vars
               PROVE  [AbstractHeap!Next]_UsedBlocks
    OBVIOUS
  <2>1. PICK R, old, new : /\ Held = R \/ Held = R \union {old}
                           /\ Held' = R \/ Held' = R \union {new}
    BY HeldStep
  <2> DEFINE S == {Bytes(b) : b \in R}
  <2>2. UsedBlocks = S \/ UsedBlocks = S \union {Bytes(old)}
    BY <2>1, UsedIsHeld
  <2>3. UsedBlocks' = S \/ UsedBlocks' = S \union {Bytes(new)}
    <3>1. UsedBlocks' = {Bytes(b) : b \in Held'}
      BY DEF UsedBlocks, Held, Bytes, Reallocating
    <3> QED BY <2>1, <3>1
  <2> HIDE DEF S
  <2> QED BY <2>2, <2>3, HeapStep
<1>3. Inv => UsedApart
  BY UsedIsApart
<1> QED
  BY <1>1, <1>2, <1>3, Invariant, PTL DEF Spec, Implements, AbstractHeap!Spec

-----------------------------------------------------------------------------
(* Only realloc leaves two free chunks side by side *)

Pairs(h) == {c \in Chunks(h) : /\ h.next[c] # NULL /\ h.status[c] = "FREE"
                              /\ h.status[h.next[c]] = "FREE"}

(* S has no more elements than T: an element of T may have left for another.*)
NoMore(S, T) == S \subseteq T \/ \E x \in T : \E y : S \subseteq (T \ {x}) \union {y}

LEMMA NoMoreFacts ==
    ASSUME NEW T, IsFiniteSet(T), NEW S, NoMore(S, T)
    PROVE  Cardinality(S) \in Nat /\ Cardinality(T) \in Nat /\ Cardinality(S) <= Cardinality(T)
<1>1. Cardinality(T) \in Nat
  BY FS_CardinalityType
<1>2. CASE S \subseteq T
  <2>1. IsFiniteSet(S) /\ Cardinality(S) <= Cardinality(T)
    BY <1>2, FS_Subset
  <2> QED BY <1>1, <2>1, FS_CardinalityType
<1>3. CASE \E x \in T : \E y : S \subseteq (T \ {x}) \union {y}
  <2>0. PICK x \in T : \E y : S \subseteq (T \ {x}) \union {y}
    BY <1>3
  <2>1. PICK y : S \subseteq (T \ {x}) \union {y}
    BY <2>0
  <2> DEFINE U == T \ {x}
             V == U \union {y}
  <2>2. IsFiniteSet(U) /\ Cardinality(U) = Cardinality(T) - 1
    BY FS_RemoveElement
  <2> HIDE DEF U
  <2>3. IsFiniteSet(V) /\ Cardinality(V) = IF y \in U THEN Cardinality(U) ELSE Cardinality(U) + 1
    BY <2>2, FS_AddElement
  <2>4. S \in SUBSET V
    BY <2>1 DEF U
  <2> HIDE DEF V
  <2>5. IsFiniteSet(S) /\ Cardinality(S) <= Cardinality(V)
    BY <2>3, <2>4, FS_Subset
  <2>6. Cardinality(S) \in Nat
    BY <2>5, FS_CardinalityType
  <2> QED BY <1>1, <2>2, <2>3, <2>5, <2>6
<1> QED BY <1>2, <1>3 DEF NoMore

(* Chunks that stay as they were, or are taken, make no new pair.           *)
LEMMA PairsSame ==
    ASSUME NEW h, NEW g, HeapShape(g), Chunks(g) \subseteq Chunks(h),
           \A c \in Chunks(g) : g.next[c] = h.next[c] /\ (g.status[c] = "FREE" => h.status[c] = "FREE")
    PROVE  Pairs(g) \subseteq Pairs(h)
BY DEF Pairs, HeapShape

(* A free chunk that is taken leaves its place in a pair to what is cut off.*)
LEMMA PairsTaken ==
    ASSUME NEW h, NEW E, Chain(h, E, NULL, NULL), Pool(h), NEW c \in Chunks(h),
           h.status[c] = "FREE", h.next[c] # NULL, NEW size \in Nat \ {0}
    PROVE  NoMore(Pairs(SplitAndInsert(Remove(h, {c}), c, size)), Pairs(h))
<1> DEFINE f == Remove(h, {c})
           g == SplitAndInsert(f, c, size)
<1>1. /\ Chain(f, E, NULL, NULL) /\ Pool(f)
      /\ Chunks(f) = Chunks(h) /\ f.next = h.next
      /\ \A d \in Chunks(h) : f.status[d] = IF d \in {c} THEN "ALLOCATED" ELSE h.status[d]
  <2>1. {c} \in SUBSET Chunks(h) /\ \A d \in {c} : h.status[d] = "FREE"
    OBVIOUS
  <2> HIDE DEF f
  <2> QED BY <2>1, RemoveFacts DEF f
<1>2. c \in Chunks(f) /\ f.status[c] = "ALLOCATED" /\ f.next[c] # NULL
  BY <1>1
<1> HIDE DEF f
<1>3. /\ Chain(g, E, NULL, NULL)
      /\ Chunks(f) \subseteq Chunks(g)
      /\ \A d \in Chunks(f) : g.status[d] = f.status[d] /\ (d # c => g.next[d] = f.next[d])
      /\ \A d \in Chunks(g) \ Chunks(f) : g.next[c] = d /\ g.next[d] = f.next[c]
  BY <1>1, <1>2, CutFacts
<1> HIDE DEF g
<1>4. \A d \in Chunks(h) : h.next[d] # NULL => h.next[d] \in Chunks(h)
  BY DEF Chain, HeapShape
<1>5. ASSUME NEW d \in Pairs(g), d \in Chunks(h) PROVE d \in Pairs(h) \ {c}
  <2>1. d # c /\ g.next[d] = h.next[d] /\ h.next[d] \in Chunks(h)
    BY <1>1, <1>2, <1>3, <1>4, <1>5 DEF Pairs
  <2> QED BY <1>1, <1>3, <1>5, <2>1 DEF Pairs
<1>6. ASSUME NEW d \in Pairs(g), d \notin Chunks(h) PROVE d = g.next[c] /\ c \in Pairs(h)
  <2>1. g.next[c] = d /\ g.next[d] = h.next[c]
    BY <1>1, <1>3, <1>6 DEF Pairs
  <2>2. g.status[h.next[c]] = "FREE" /\ h.next[c] \in Chunks(h)
    BY <1>4, <1>6, <2>1 DEF Pairs
  <2> QED BY <1>1, <1>3, <2>1, <2>2 DEF Pairs
<1>7. CASE c \in Pairs(h)
  <2>1. Pairs(g) \subseteq (Pairs(h) \ {c}) \union {g.next[c]}
    BY <1>5, <1>6
  <2> QED BY <1>7, <2>1 DEF NoMore, g, f
<1>8. CASE c \notin Pairs(h)
  <2>1. Pairs(g) \subseteq Pairs(h)
    BY <1>5, <1>6, <1>8
  <2> QED BY <2>1 DEF NoMore, g, f
<1> QED BY <1>7, <1>8

(* A new segment or area ends with a header that is never free.             *)
LEMMA PairsNew ==
    ASSUME NEW h, NEW E, Chain(h, E, NULL, NULL), Pool(h),
           NEW p \in Nat, NEW n \in Nat, n >= 8, Free(E, <<p, p + n>>)
    PROVE  /\ Pairs(Insert(Setup(h, p, n), p, "FIFO")) \subseteq Pairs(h)
           /\ \A size \in Nat \ {0} : Pairs(SplitAndInsert(Setup(h, p, n), p, size)) \subseteq Pairs(h)
<1> DEFINE s == Setup(h, p, n)
           q == p + n - 3
<1>1. /\ Chain(s, E \union {<<p, p + n>>}, NULL, NULL) /\ Pool(s) /\ p \in Chunks(s)
      /\ p \notin Chunks(h) /\ q \notin Chunks(h) /\ p # q
      /\ Chunks(s) = Chunks(h) \union {p, q}
      /\ s.next[p] = q /\ s.next[q] = NULL
      /\ s.status[p] = "ALLOCATED" /\ s.status[q] = "ALLOCATED"
      /\ Same(s, h, Chunks(h))
  <2>1. Pool(s) /\ p \in Chunks(s)
    BY SetupBusy
  <2>2. /\ Chain(s, E \union {<<p, p + n>>}, NULL, NULL)
        /\ p \notin Chunks(h) /\ q \notin Chunks(h) /\ p # q
        /\ Chunks(s) = Chunks(h) \union {p, q}
        /\ s.next[p] = q /\ s.next[q] = NULL
        /\ s.status[p] = "ALLOCATED" /\ s.status[q] = "ALLOCATED"
        /\ Same(s, h, Chunks(h))
        /\ s.lists = h.lists /\ s.filled = h.filled
    BY SetupChain
  <2> QED BY <2>1, <2>2
<1>2. q \in Nat /\ q # NULL
  BY Memory
<1> HIDE DEF s, q
<1>3. \A d \in Chunks(h) : h.next[d] # NULL => h.next[d] \in Chunks(h)
  BY DEF Chain, HeapShape
<1>4. Pairs(Insert(s, p, "FIFO")) \subseteq Pairs(h)
  <2> DEFINE g == Insert(s, p, "FIFO")
  <2>1. /\ Chunks(g) = Chunks(s) /\ g.next = s.next
        /\ \A d \in Chunks(s) : d # p => g.status[d] = s.status[d]
    BY <1>1, <1>2, InsertFacts
  <2> HIDE DEF g
  <2> SUFFICES ASSUME NEW d \in Pairs(g) PROVE d \in Pairs(h)
    BY DEF g
  <2>2. d # p /\ d # q
    BY <1>1, <2>1 DEF Pairs
  <2>3. d \in Chunks(h)
    BY <1>1, <2>1, <2>2 DEF Pairs
  <2>4. /\ g.next[d] = h.next[d] /\ h.next[d] # NULL /\ h.next[d] \in Chunks(h)
        /\ g.status[d] = h.status[d] /\ g.status[h.next[d]] = h.status[h.next[d]]
    BY <1>1, <1>3, <2>1, <2>2, <2>3 DEF Pairs, Same
  <2> QED BY <2>3, <2>4 DEF Pairs
<1>5. ASSUME NEW size \in Nat \ {0} PROVE Pairs(SplitAndInsert(s, p, size)) \subseteq Pairs(h)
  <2> DEFINE g == SplitAndInsert(s, p, size)
  <2>1. /\ Chunks(s) \subseteq Chunks(g)
        /\ \A d \in Chunks(s) : g.status[d] = s.status[d] /\ (d # p => g.next[d] = s.next[d])
        /\ \A d \in Chunks(g) \ Chunks(s) : g.next[p] = d /\ g.next[d] = s.next[p]
    BY <1>1, <1>2, CutFacts
  <2> HIDE DEF g
  <2> SUFFICES ASSUME NEW d \in Pairs(g) PROVE d \in Pairs(h)
    BY DEF g
  <2>2. d # p /\ d # q
    BY <1>1, <2>1 DEF Pairs
  <2>3. d \in Chunks(s)
    BY <1>1, <2>1 DEF Pairs
  <2>4. d \in Chunks(h)
    BY <1>1, <2>2, <2>3
  <2>5. /\ g.next[d] = h.next[d] /\ h.next[d] # NULL /\ h.next[d] \in Chunks(h)
        /\ g.status[d] = h.status[d] /\ g.status[h.next[d]] = h.status[h.next[d]]
    <3>1. s.next[d] = h.next[d] /\ \A x \in Chunks(h) : x \in Chunks(s) /\ s.status[x] = h.status[x]
      BY <1>1, <2>4 DEF Same
    <3>2. g.next[d] = h.next[d] /\ g.next[d] # NULL
      BY <2>1, <2>2, <2>3, <3>1 DEF Pairs
    <3>3. h.next[d] \in Chunks(h)
      BY <1>3, <2>4, <3>2
    <3> QED BY <2>1, <2>4, <3>1, <3>2, <3>3
  <2> QED BY <2>4, <2>5 DEF Pairs
<1> QED BY <1>4, <1>5 DEF s

LEMMA PairsAllocated ==
    ASSUME Inv, lock = NULL, NEW size \in Checked, NEW r \in Allocate(size)
    PROVE  NoMore(Pairs(r.heap), Pairs(heap))
<1>1. size \in Nat \ {0} /\ size <= Unlimited
  BY CheckedFacts
<1>2. Typed /\ Chain(heap, Extents, NULL, NULL) /\ Pool(heap)
  BY Unlocked DEF Inv
<1> DEFINE found == FindChunk(heap, size)
<1> HIDE DEF found
<1>3. CASE found # NULL
  <2>1. /\ found \in Chunks(heap) /\ heap.status[found] = "FREE"
        /\ heap.next[found] # NULL /\ InnerSize(heap, found) >= size
    BY <1>1, <1>2, <1>3, FindFacts DEF found
  <2>2. r.heap = SplitAndInsert(Remove(heap, {found}), found, size)
    BY <1>3 DEF Allocate, found
  <2> QED BY <1>1, <1>2, <2>1, <2>2, PairsTaken
<1>4. CASE found = NULL
  <2>1. r \in Refill(size)
    BY <1>4 DEF Allocate, found
  <2>2. CASE r = [heap |-> heap, segments |-> segments, chunk |-> NULL]
    BY <2>2 DEF NoMore
  <2>3. CASE r # [heap |-> heap, segments |-> segments, chunk |-> NULL]
    <3> DEFINE total == Extent(size)
    <3>1. PICK b \in Bases :
            /\ hasSource /\ CanMap(b, total)
            /\ r = [heap |-> SplitAndInsert(Setup(heap, b + SegmentHeader, total - SegmentHeader),
                                            b + SegmentHeader, size),
                    segments |-> Put(segments, b, total), chunk |-> b + SegmentHeader]
      BY <2>1, <2>3 DEF Refill
    <3>2. total \in Nat /\ total >= 10
      BY <1>1, ExtentFacts
    <3> DEFINE p == b + 2
               n == total - 2
    <3>3. r.heap = SplitAndInsert(Setup(heap, p, n), p, size)
      BY <3>1, Memory
    <3> HIDE DEF total
    <3>4. Free(Extents, <<b + 2, b + total>>)
      BY <1>2, <3>1, <3>2, MapFacts DEF Chain
    <3>5. p \in Nat /\ n \in Nat /\ n >= 8 /\ p + n = b + total
      BY <3>2, Memory
    <3>6. Free(Extents, <<p, p + n>>)
      BY <3>4, <3>5
    <3> HIDE DEF p, n
    <3>7. Pairs(SplitAndInsert(Setup(heap, p, n), p, size)) \subseteq Pairs(heap)
      BY <1>1, <1>2, <3>5, <3>6, PairsNew
    <3> QED BY <3>3, <3>7 DEF NoMore
  <2> QED BY <2>2, <2>3
<1> QED BY <1>3, <1>4

(* free has left no free chunk beside what it merges, so that the chunk it  *)
(* frees makes no pair.                                                     *)
LEMMA PairsFreed ==
    ASSUME Inv, NEW t \in Threads, FreeInsert(t)
    PROVE  Pairs(heap') \subseteq Pairs(heap)
<1> DEFINE c == op[t].first
           last == op[t].last
           h == MergeForward(heap, c, last)
           R == Hand(t)
<1>1. pc[t] = "merge" /\ (heap' = h \/ heap' = Insert(h, c, "FIFO"))
  BY DEF FreeInsert
<1>2. /\ Chain(heap, Extents, c, last) /\ Span(heap, Extents, c, last)
      /\ R = Gathered(heap, c, last) /\ R \subseteq Busy(heap)
  BY <1>1, Merging
<1>3. ~ FreeBefore(heap, c) /\ ~ FreeAfter(heap, last)
  BY <1>1 DEF Inv, Knows
<1> HIDE DEF R
<1>4. /\ Chain(h, Extents, NULL, NULL) /\ Pool(h)
      /\ c \in R /\ Busy(h) = (Busy(heap) \ R) \union {c}
      /\ h.next[c] = heap.next[last]
      /\ Chunks(h) = (Chunks(heap) \ R) \union {c}
      /\ \A d \in Chunks(h) : h.prev[d] = heap.prev[d] /\ h.status[d] = heap.status[d]
      /\ \A d \in Chunks(h) : d # c => h.next[d] = heap.next[d]
  <2>1. Pool(heap)
    BY DEF Inv
  <2> DEFINE G == Gathered(heap, c, last)
  <2>2. /\ Chain(h, Extents, NULL, NULL) /\ Pool(h)
        /\ c \in G /\ Busy(h) = (Busy(heap) \ G) \union {c}
        /\ Keeps(h, heap, Busy(heap) \ G) /\ h.next[c] = heap.next[last]
        /\ Chunks(h) = (Chunks(heap) \ G) \union {c}
        /\ \A d \in Chunks(h) : h.prev[d] = heap.prev[d] /\ h.status[d] = heap.status[d]
        /\ \A d \in Chunks(h) : d # c => h.next[d] = heap.next[d]
        /\ heap.next[last] \in Chunks(h) /\ heap.next[last] \notin G
    <3> HIDE DEF c, last
    <3>1. Gathered(heap, c, last) \subseteq Busy(heap)
      BY <1>2
    <3> QED BY <1>2, <2>1, <3>1, Join
  <2> HIDE DEF h
  <2> QED BY <1>2, <2>2
<1>5. heap.next[last] # NULL
  BY <1>2 DEF Span
<1> HIDE DEF h, c, last
<1>6. c \in Chunks(h) /\ h.status[c] = "ALLOCATED" /\ h.next[c] # NULL
  BY <1>4 DEF Busy
<1>7. \A d \in Chunks(h) : h.next[d] # NULL =>
        h.next[d] \in Chunks(h) /\ h.prev[h.next[d]] = d /\ h.next[d] # d /\ d # NULL
  <2>1. ASSUME NEW d \in Chunks(h), h.next[d] # NULL
        PROVE  /\ d \in Nat /\ h.next[d] \in Chunks(h) /\ h.next[d] \in Nat /\ h.next[d] >= d + 5
               /\ h.prev[h.next[d]] = IF d = NULL THEN NULL ELSE d
    BY <1>4, <2>1, NextFacts
  <2> QED BY <2>1, Memory
<1>8. ASSUME NEW d \in Pairs(h) PROVE d \in Pairs(heap)
  <2>1. d # c /\ d \in Chunks(h) /\ d \in Chunks(heap)
    BY <1>4, <1>6, <1>8 DEF Pairs, Busy
  <2> QED BY <1>4, <1>7, <1>8, <2>1 DEF Pairs
<1>9. ASSUME heap' = Insert(h, c, "FIFO"), NEW d \in Pairs(heap') PROVE d \in Pairs(heap)
  <2>1. /\ Chunks(heap') = Chunks(h) /\ heap'.next = h.next
        /\ \A x \in Chunks(h) : x # c => heap'.status[x] = h.status[x]
    BY <1>4, <1>6, <1>9, InsertFacts
  <2>2. d \in Chunks(h) /\ h.next[d] # NULL /\ heap'.status[d] = "FREE"
        /\ heap'.status[h.next[d]] = "FREE"
    BY <1>9, <2>1 DEF Pairs
  <2>3. h.next[d] \in Chunks(h) /\ h.prev[h.next[d]] = d /\ h.next[d] # d /\ d # NULL
    BY <1>7, <2>2
  <2>4. d # c
    <3> SUFFICES ASSUME d = c PROVE FALSE
      OBVIOUS
    <3>1. heap.status[heap.next[last]] = "FREE"
      BY <1>4, <2>1, <2>2, <2>3
    <3> QED BY <1>3, <1>5, <3>1 DEF FreeAfter
  <2>5. h.next[d] # c
    <3> SUFFICES ASSUME h.next[d] = c PROVE FALSE
      OBVIOUS
    <3>1. heap.prev[c] = d /\ heap.status[d] = "FREE"
      BY <1>4, <1>6, <2>1, <2>2, <2>3, <2>4
    <3> QED BY <1>3, <2>3, <3>1 DEF FreeBefore
  <2>6. d \in Pairs(h)
    BY <2>1, <2>2, <2>3, <2>4, <2>5 DEF Pairs
  <2> QED BY <1>8, <2>6
<1> QED BY <1>1, <1>8, <1>9 DEF h, c, last

LEMMA PairsGathered ==
    ASSUME Inv, NEW t \in Threads, FreeMerge(t)
    PROVE  Pairs(heap') \subseteq Pairs(heap)
<1> DEFINE c == op[t].first
           S == FreeNeighbours(heap, c)
           first == MinOf(S \union {c})
           last == RunEnd(heap, c)
<1>1. pc[t] = "free" /\ lock = NULL /\ heap' = MergeBack(Remove(heap, S), first, last)
  BY DEF FreeMerge
<1>2. Pool(heap) /\ Chain(heap, Extents, NULL, NULL)
  BY <1>1, Unlocked DEF Inv
<1>3. Hand(t) = {c}
  BY <1>1 DEF Hand, InHand
<1>4. c \in Chunks(heap) /\ heap.next[c] # NULL
  BY <1>3, HandFacts DEF Busy
<1>5. /\ Span(heap, Extents, first, last)
      /\ S \subseteq Chunks(heap) /\ \A d \in S : heap.status[d] = "FREE"
  BY <1>2, <1>4, NeighboursFacts DEF Pool
<1> HIDE DEF S, first, last
<1>6. /\ Chain(heap', Extents, first, last)
      /\ Chunks(heap') = Chunks(heap) /\ heap'.next = heap.next
      /\ \A d \in Chunks(heap) : heap'.status[d] = "FREE" => heap.status[d] = "FREE"
  BY <1>1, <1>2, <1>5, Gather
<1>7. HeapShape(heap')
  BY <1>6 DEF Chain
<1> QED BY <1>6, <1>7, PairsSame

LEMMA PairsUnmapped ==
    ASSUME Inv, NEW t \in Threads, Unmap(t)
    PROVE  Pairs(heap') \subseteq Pairs(heap)
<1> DEFINE S == {x \in Chunks(heap) : SegmentOf(op[t].first) <= x
                    /\ x < SegmentOf(op[t].first) + segments[SegmentOf(op[t].first)]}
<1>1. heap' = [heap EXCEPT !.next = Drop(@, S), !.prev = Drop(@, S), !.status = Drop(@, S)]
  BY DEF Unmap
<1>2. HeapShape(heap) /\ HeapShape(heap')
  <2>1. HeapShape(heap')
    BY UnmapStep DEF Inv, Chain
  <2> QED BY <2>1 DEF Inv, Chain
<1> HIDE DEF S
<1>3. heap' = [next |-> Drop(heap.next, S), prev |-> Drop(heap.prev, S),
               status |-> Drop(heap.status, S), lists |-> heap.lists, filled |-> heap.filled]
  <2>1. heap' = [heap EXCEPT !.next = Drop(heap.next, S), !.prev = Drop(heap.prev, S),
                             !.status = Drop(heap.status, S)]
    BY <1>1
  <2> QED BY <1>2, <2>1, HeapUpdate
<1>4. heap'.next = Drop(heap.next, S) /\ heap'.status = Drop(heap.status, S)
  BY <1>3
<1>5. DOMAIN heap.next = Chunks(heap)
  BY <1>2 DEF HeapShape
<1>6. /\ Chunks(heap') = Chunks(heap) \ S
      /\ \A x \in Chunks(heap') : heap'.next[x] = heap.next[x] /\ heap'.status[x] = heap.status[x]
  <2> DEFINE n == heap.next
             m == heap.status
             f == heap'.next
             g == heap'.status
  <2>1. f = Drop(n, S) /\ g = Drop(m, S)
    BY <1>4
  <2>2. /\ Chunks(heap) = DOMAIN m /\ Chunks(heap') = DOMAIN g /\ DOMAIN n = DOMAIN m
    BY <1>5 DEF Chunks
  <2> HIDE DEF n, m, f, g
  <2>3. DOMAIN g = DOMAIN m \ S /\ \A x \in DOMAIN m \ S : x \in DOMAIN g /\ g[x] = m[x]
    BY <2>1 DEF Drop
  <2>4. DOMAIN f = DOMAIN n \ S /\ \A x \in DOMAIN n \ S : x \in DOMAIN f /\ f[x] = n[x]
    BY <2>1 DEF Drop
  <2>5. Chunks(heap') = Chunks(heap) \ S /\ \A x \in Chunks(heap') : f[x] = n[x] /\ g[x] = m[x]
    BY <2>2, <2>3, <2>4
  <2> QED BY <2>5 DEF n, m, f, g
<1> QED BY <1>2, <1>6, PairsSame

LEMMA PairsStep ==
    ASSUME Inv, [Next]_vars, ~ \E t \in Threads : Realloc(t)
    PROVE  NoMore(FreePairs', FreePairs)
<1>1. FreePairs = Pairs(heap) /\ FreePairs' = Pairs(heap')
  BY DEF FreePairs, Pairs
<1>2. Pairs(heap') \subseteq Pairs(heap) => NoMore(FreePairs', FreePairs)
  BY <1>1 DEF NoMore
<1>3. ASSUME NEW t \in Threads, Malloc(t) PROVE NoMore(FreePairs', FreePairs)
  <2>1. lock = NULL
    BY <1>3 DEF Malloc
  <2>2. PICK size \in MallocSizes, align \in Aligns :
          \E r \in Allocate(CheckedSize(size, align)) : heap' = r.heap
    BY <1>3 DEF Malloc
  <2>3. CheckedSize(size, align) \in Checked
    BY DEF Checked
  <2> QED BY <1>1, <2>1, <2>2, <2>3, PairsAllocated
<1>4. ASSUME NEW t \in Threads, Move(t) PROVE NoMore(FreePairs', FreePairs)
  <2>1. lock = NULL /\ pc[t] = "move"
    BY <1>4 DEF Move
  <2>2. \E r \in Allocate(CheckedSize(op[t].size, 1)) : heap' = r.heap
    BY <1>4 DEF Move
  <2>3. CheckedSize(op[t].size, 1) \in Checked
    BY <2>1 DEF Inv, Knows, Checked
  <2> QED BY <1>1, <2>1, <2>2, <2>3, PairsAllocated
<1>5. ASSUME NEW t \in Threads, FreeMerge(t) \/ FreeInsert(t) \/ Unmap(t)
      PROVE  NoMore(FreePairs', FreePairs)
  BY <1>2, <1>5, PairsGathered, PairsFreed, PairsUnmapped
<1>6. ASSUME NEW t \in Threads, FreeBegin(t) \/ ReallocBegin(t)
      PROVE  NoMore(FreePairs', FreePairs)
  BY <1>2, <1>6 DEF FreeBegin, ReallocBegin
<1>7. ASSUME Fill PROVE NoMore(FreePairs', FreePairs)
  <2>1. PICK a \in unused : heap' = Insert(Setup(heap, a[1], a[2]), a[1], "FIFO")
    BY <1>7 DEF Fill
  <2>2. lock = NULL
    BY <1>7 DEF Fill, Inv, Typed
  <2>3. Chain(heap, Extents, NULL, NULL) /\ Pool(heap) /\ ~ hasSource /\ a \in Areas /\ Typed
    BY <2>2, Unlocked DEF Inv, Typed
  <2> DEFINE p == a[1]
             n == a[2]
  <2>4. p \in Nat /\ n \in Nat /\ n >= 8 /\ Free(Extents, <<p, p + n>>)
    BY <2>1, <2>3, AreaFree
  <2>5. heap' = Insert(Setup(heap, p, n), p, "FIFO")
    BY <2>1
  <2> HIDE DEF p, n
  <2>6. Pairs(Insert(Setup(heap, p, n), p, "FIFO")) \subseteq Pairs(heap)
    BY <2>3, <2>4, PairsNew
  <2> QED BY <1>2, <2>5, <2>6
<1>8. ASSUME UNCHANGED vars PROVE NoMore(FreePairs', FreePairs)
  BY <1>2, <1>8 DEF vars
<1>9. ASSUME NEW t \in Threads,
             \/ Malloc(t)
             \/ FreeBegin(t) \/ FreeMerge(t) \/ FreeInsert(t) \/ Unmap(t)
             \/ ReallocBegin(t) \/ Resize(t) \/ Grow(t) \/ Move(t)
      PROVE  NoMore(FreePairs', FreePairs)
  BY <1>3, <1>4, <1>5, <1>6, <1>9 DEF Realloc
<1> QED BY <1>7, <1>8, <1>9 DEF Next

(* Every step but those of realloc keeps memory coalesced: the number of    *)
(* pairs of free neighbours does not grow, whatever the other threads do    *)
(* between the two writes of a merge.                                       *)
THEOREM OnlyReallocMakesPairs == Spec => OnlyReallocFragments
<1>1. ASSUME Inv, [Next]_vars
      PROVE  Cardinality(FreePairs') > Cardinality(FreePairs) => \E t \in Threads : Realloc(t)
  <2> SUFFICES ASSUME ~ \E t \in Threads : Realloc(t)
               PROVE  ~ Cardinality(FreePairs') > Cardinality(FreePairs)
    OBVIOUS
  <2>1. NoMore(FreePairs', FreePairs)
    BY <1>1, PairsStep
  <2>2. IsFiniteSet(FreePairs)
    <3>1. \A c \in Chunks(heap) : c \in Nat /\ c <= MemoryEnd
      BY <1>1, ChunkAddresses, Memory DEF Inv, Addresses
    <3>2. FreePairs \in SUBSET Nat /\ MemoryEnd \in Nat /\ \A c \in FreePairs : c <= MemoryEnd
      BY <3>1, Memory DEF FreePairs
    <3> QED BY <3>2, FS_BoundedSetOfNaturals
  <2>3. /\ Cardinality(FreePairs') \in Nat /\ Cardinality(FreePairs) \in Nat
        /\ Cardinality(FreePairs') <= Cardinality(FreePairs)
    BY <2>1, <2>2, NoMoreFacts
  <2> QED BY <2>3
<1> QED BY <1>1, Invariant, PTL DEF Spec, OnlyReallocFragments

-----------------------------------------------------------------------------
(***************************************************************************)
(* The search by halves, for every increasing table of sizes and every     *)
(* request: it reads only lists of the pool and finds the first one that   *)
(* is large enough.                                                        *)
(***************************************************************************)

(* The inductive invariant *)

(* The sets the variables range over. *)
SearchShape ==
    /\ length \in TableLengths
    /\ innerSize \in Requests
    /\ tablePtr \in Nat /\ segSize \in Nat
    /\ searchPc \in {"start", "loop", "done"}

(* The part of the table still searched: its first list is too small and   *)
(* its last one, not the one after it, large enough.  The pool keeps an    *)
(* unlimited list inside its count for that; without it the part could     *)
(* shrink to one list and the halves would stop shrinking.                 *)
SearchBracket ==
    searchPc = "loop" =>
        /\ tablePtr + segSize <= NbLists
        /\ SizeAt(tablePtr) < innerSize
        /\ segSize # 0 /\ SizeAt(tablePtr + segSize - 1) >= innerSize
        /\ middle = segSize \div 2

SearchNotStarted ==
    searchPc = "start" => tablePtr = 0 /\ segSize = NbLists /\ middle = segSize \div 2

SearchFound ==
    searchPc = "done" =>
        /\ middle \in Nat
        /\ SizeAt(tablePtr + middle) >= innerSize
        /\ tablePtr + middle = 0 \/ SizeAt(tablePtr + middle - 1) < innerSize

SearchInv == SearchShape /\ SearchNotStarted /\ SearchBracket /\ SearchFound

-----------------------------------------------------------------------------
(* The table *)

(* The sizes the source declares one by one are increasing altogether.     *)
LEMMA TableIncreasing ==
    ASSUME NEW j \in 1 .. Len(FiniteSizes), NEW k \in 1 .. Len(FiniteSizes), j <= k
    PROVE  FiniteSizes[j] <= FiniteSizes[k]
<1> DEFINE Bad == {n \in Nat : /\ j <= n /\ n <= Len(FiniteSizes)
                               /\ ~ FiniteSizes[j] <= FiniteSizes[n]}
<1>1. \A n \in 1 .. Len(FiniteSizes) : FiniteSizes[n] \in Nat
  BY TableAssumption
<1>2. Len(FiniteSizes) \in Nat
  BY TableAssumption
<1>3. CASE Bad = {}
  BY <1>2, <1>3
<1>4. CASE Bad # {}
  <2>1. PICK n \in Bad : \A m \in Bad : n <= m
    <3>1. Bad \in SUBSET Nat
      OBVIOUS
    <3> HIDE DEF Bad
    <3> QED BY <1>4, <3>1, LeastElement
  <2>2. n # j
    BY <1>1, <1>2
  <2>3. n - 1 \in Nat /\ j <= n - 1 /\ n - 1 <= Len(FiniteSizes) - 1
    BY <1>2, <2>2
  <2>4. n - 1 \notin Bad
    BY <2>1, <2>3
  <2>5. FiniteSizes[j] <= FiniteSizes[n - 1]
    BY <1>2, <2>3, <2>4
  <2>6. n - 1 \in 1 .. (Len(FiniteSizes) - 1)
    BY <1>2, <2>3
  <2>7. FiniteSizes[n - 1] < FiniteSizes[n - 1 + 1]
    BY <2>6, TableAssumption
  <2>8. n - 1 + 1 = n
    OBVIOUS
  <2>9. FiniteSizes[n] \in Nat /\ FiniteSizes[n - 1] \in Nat /\ FiniteSizes[j] \in Nat
    BY <1>1, <1>2, <2>3, <2>6
  <2>10. FiniteSizes[j] <= FiniteSizes[n]
    BY <2>5, <2>7, <2>8, <2>9
  <2> QED BY <2>10
<1> QED BY <1>3, <1>4

(* A list further in the table holds larger sizes, up to the unlimited one. *)
LEMMA TableFacts ==
    ASSUME SearchShape
    PROVE  /\ length \in Nat \ {0} /\ length <= Len(FiniteSizes) /\ Len(FiniteSizes) \in Nat
           /\ innerSize \in Nat /\ innerSize < NoLimit
           /\ \A k \in Nat : SizeAt(k) \in Nat
           /\ \A k \in Nat : k >= length => SizeAt(k) = NoLimit
           /\ \A j, k \in Nat : j <= k /\ SizeAt(k) < innerSize => SizeAt(j) < innerSize
<1>1. /\ length \in Nat \ {0} /\ length <= Len(FiniteSizes)
      /\ Len(FiniteSizes) \in Nat
      /\ innerSize \in Nat /\ innerSize < NoLimit
      /\ NoLimit \in Nat
      /\ \A n \in 1 .. Len(FiniteSizes) : FiniteSizes[n] \in Nat
  BY TableAssumption DEF SearchShape
<1>2. \A k \in Nat : SizeAt(k) \in Nat
  BY <1>1 DEF SizeAt
<1>3. \A k \in Nat : k >= length => SizeAt(k) = NoLimit
  BY <1>1 DEF SizeAt
<1>4. ASSUME NEW j \in Nat, NEW k \in Nat, j <= k, SizeAt(k) < innerSize
      PROVE  SizeAt(j) < innerSize
  <2>1. k < length
    BY <1>1, <1>3, <1>4
  <2>2. j + 1 \in 1 .. Len(FiniteSizes) /\ k + 1 \in 1 .. Len(FiniteSizes) /\ j + 1 <= k + 1
    BY <1>1, <1>4, <2>1
  <2>3. FiniteSizes[j + 1] <= FiniteSizes[k + 1]
    BY <2>2, TableIncreasing
  <2>4. SizeAt(j) = FiniteSizes[j + 1] /\ SizeAt(k) = FiniteSizes[k + 1]
    BY <1>1, <1>4, <2>1 DEF SizeAt
  <2>5. SizeAt(j) \in Nat /\ SizeAt(k) \in Nat
    BY <1>2
  <2>6. SizeAt(j) <= SizeAt(k)
    BY <2>3, <2>4
  <2> QED BY <1>1, <1>4, <2>5, <2>6
<1> QED BY <1>1, <1>2, <1>3, <1>4

(* The pool keeps at least one unlimited list inside its count. *)
LEMMA CountFacts ==
    ASSUME SearchShape
    PROVE  /\ NbLists \in Nat \ {0} /\ NbLists < NB_FREE_LIST
           /\ SizeAt(NbLists - 1) >= innerSize
<1>1. length \in Nat \ {0} /\ length + 2 < 50
  BY TableFacts, LengthAssumption DEF NB_FREE_LIST, SearchShape
<1>2. NbLists \in Nat \ {0} /\ NbLists < 50 /\ NbLists - 1 \in Nat /\ NbLists - 1 >= length
  BY <1>1 DEF NbLists
<1>3. innerSize \in Nat /\ innerSize < NoLimit /\ SizeAt(NbLists - 1) = NoLimit
  BY <1>2, TableFacts
<1>4. SizeAt(NbLists - 1) >= innerSize
  <2>1. NoLimit \in Nat
    BY TableAssumption
  <2> QED BY <1>3, <2>1
<1> QED BY <1>2, <1>4 DEF NB_FREE_LIST

-----------------------------------------------------------------------------
(* One lemma per action *)

(* The first list is too small and the last large enough. *)
LEMMA StartPreserves ==
    ASSUME SearchInv, Start
    PROVE  SearchInv'
<1>1. /\ tablePtr = 0 /\ segSize = NbLists /\ middle = segSize \div 2
      /\ UNCHANGED <<length, innerSize, tablePtr, segSize>>
  BY DEF SearchInv, SearchNotStarted, Start
<1>2. /\ NbLists' = NbLists
      /\ \A k : SizeAt(k)' = SizeAt(k)
  BY <1>1 DEF NbLists, SizeAt
<1>3. NbLists \in Nat \ {0} /\ SizeAt(NbLists - 1) >= innerSize
  BY CountFacts DEF SearchInv
<1>4. SizeAt(0) \in Nat /\ innerSize \in Nat
  BY TableFacts DEF SearchInv
<1>5. CASE SizeAt(0) >= innerSize
  <2>1. middle' = 0 /\ searchPc' = "done"
    BY <1>5 DEF Start
  <2>2. SizeAt(tablePtr' + middle') >= innerSize
    BY <1>1, <1>5, <2>1
  <2> QED BY <1>1, <1>2, <2>1, <2>2
         DEF SearchInv, SearchShape, SearchNotStarted, SearchBracket, SearchFound
<1>6. CASE ~ SizeAt(0) >= innerSize
  <2>1. middle' = middle /\ searchPc' = "loop"
    BY <1>6 DEF Start
  <2>2. SizeAt(0) < innerSize
    BY <1>4, <1>6
  <2>3. tablePtr + segSize <= NbLists /\ segSize # 0 /\ SizeAt(tablePtr) < innerSize
    BY <1>1, <1>3, <2>2
  <2>4. tablePtr + segSize - 1 = NbLists - 1
    BY <1>1, <1>3
  <2> QED BY <1>1, <1>2, <1>3, <2>1, <2>3, <2>4
         DEF SearchInv, SearchShape, SearchNotStarted, SearchBracket, SearchFound
<1> QED BY <1>5, <1>6

(* The bracket has two lists or more, so the halves are not empty. *)
LEMMA LoopFacts ==
    ASSUME SearchInv, searchPc = "loop"
    PROVE  /\ tablePtr \in Nat /\ segSize \in Nat /\ innerSize \in Nat
           /\ segSize >= 2 /\ middle \in 1 .. segSize - 1 /\ middle = segSize \div 2
           /\ tablePtr + segSize <= NbLists
           /\ \A k \in Nat : SizeAt(k) \in Nat
           /\ SizeAt(tablePtr) < innerSize
           /\ SizeAt(tablePtr + segSize - 1) >= innerSize
<1>1. /\ tablePtr \in Nat /\ segSize \in Nat
      /\ tablePtr + segSize <= NbLists /\ segSize # 0 /\ middle = segSize \div 2
      /\ SizeAt(tablePtr) < innerSize /\ SizeAt(tablePtr + segSize - 1) >= innerSize
  BY DEF SearchInv, SearchShape, SearchBracket
<1>2. innerSize \in Nat /\ \A k \in Nat : SizeAt(k) \in Nat
  BY TableFacts DEF SearchInv
<1>3. segSize # 1
  <2> SUFFICES ASSUME segSize = 1 PROVE FALSE
    OBVIOUS
  <2>1. tablePtr + segSize - 1 = tablePtr
    BY <1>1
  <2>2. SizeAt(tablePtr) \in Nat
    BY <1>1, <1>2
  <2> QED BY <1>1, <1>2, <2>1, <2>2
<1>4. segSize >= 2
  BY <1>1, <1>3
<1>5. middle \in 1 .. segSize - 1
  BY <1>1, <1>4
<1> QED BY <1>1, <1>2, <1>4, <1>5

(* A turn of the loop keeps the bracket: when the middle list is large     *)
(* enough, so is the one before it, or it would be the answer.             *)
LEMMA HalvePreserves ==
    ASSUME SearchInv, Halve
    PROVE  SearchInv'
<1>1. /\ searchPc = "loop" /\ ~ Hit /\ middle' = segSize' \div 2
      /\ UNCHANGED <<length, innerSize, searchPc>>
  BY DEF Halve
<1>2. /\ tablePtr \in Nat /\ segSize \in Nat /\ innerSize \in Nat
      /\ segSize >= 2 /\ middle \in 1 .. segSize - 1
      /\ tablePtr + segSize <= NbLists
      /\ \A k \in Nat : SizeAt(k) \in Nat
      /\ SizeAt(tablePtr) < innerSize
      /\ SizeAt(tablePtr + segSize - 1) >= innerSize
  BY <1>1, LoopFacts
<1>3. /\ NbLists' = NbLists
      /\ \A k : SizeAt(k)' = SizeAt(k)
  BY <1>1 DEF NbLists, SizeAt
<1>4. NbLists \in Nat
  BY CountFacts DEF SearchInv
<1>5. /\ tablePtr' \in Nat /\ segSize' \in Nat \ {0}
      /\ tablePtr' + segSize' <= NbLists
      /\ SizeAt(tablePtr') < innerSize
      /\ SizeAt(tablePtr' + segSize' - 1) >= innerSize
  <2>1. CASE /\ SizeAt(tablePtr + middle) < innerSize
             /\ segSize' = segSize - middle /\ tablePtr' = tablePtr + middle
    <3>1. /\ tablePtr' \in Nat /\ segSize' \in Nat \ {0}
          /\ tablePtr' + segSize' = tablePtr + segSize
      BY <1>2, <2>1
    <3> QED BY <1>2, <2>1, <3>1
  <2>2. CASE /\ SizeAt(tablePtr + middle) >= innerSize
             /\ segSize' = middle /\ tablePtr' = tablePtr
    <3>1. ~ SizeAt(tablePtr + middle - 1) < innerSize
      BY <1>1, <2>2 DEF Hit
    <3>2. tablePtr + middle - 1 \in Nat
      BY <1>2
    <3>3. SizeAt(tablePtr + middle - 1) >= innerSize
      <4>1. SizeAt(tablePtr + middle - 1) \in Nat
        BY <1>2, <3>2
      <4> QED BY <1>2, <3>1, <4>1
    <3>4. /\ segSize' \in Nat \ {0} /\ tablePtr' + segSize' <= NbLists
          /\ tablePtr' + segSize' - 1 = tablePtr + middle - 1
      BY <1>2, <1>4, <2>2
    <3> QED BY <1>2, <2>2, <3>3, <3>4
  <2> QED BY <2>1, <2>2 DEF Halve
<1> QED BY <1>1, <1>3, <1>5
         DEF SearchInv, SearchShape, SearchNotStarted, SearchBracket, SearchFound

(* The list at middle is large enough and the one before it is not. *)
LEMMA StopPreserves ==
    ASSUME SearchInv, Stop
    PROVE  SearchInv'
<1>1. /\ searchPc = "loop" /\ Hit /\ searchPc' = "done"
      /\ UNCHANGED <<length, innerSize, tablePtr, segSize, middle>>
  BY DEF Stop
<1>2. middle \in Nat
  BY <1>1, LoopFacts
<1>3. /\ SizeAt(tablePtr + middle)' = SizeAt(tablePtr + middle)
      /\ SizeAt(tablePtr + middle - 1)' = SizeAt(tablePtr + middle - 1)
  BY <1>1 DEF SizeAt
<1> QED BY <1>1, <1>2, <1>3
         DEF SearchInv, SearchShape, SearchNotStarted, SearchBracket, SearchFound, Hit

-----------------------------------------------------------------------------
(* The theorems *)

(* The bracket holds in every reachable state. *)
THEOREM SearchInvariant == SearchSpec => []SearchInv
<1>1. SearchInit => SearchInv
  <2> SUFFICES ASSUME SearchInit PROVE SearchInv
    OBVIOUS
  <2>1. SearchShape
    <3>1. length \in TableLengths /\ length \in Nat
      BY TableAssumption DEF SearchInit
    <3> QED BY <3>1 DEF SearchInit, SearchShape, NbLists
  <2> QED BY <2>1 DEF SearchInit, SearchInv, SearchNotStarted, SearchBracket, SearchFound
<1>2. SearchInv /\ [SearchNext]_searchVars => SearchInv'
  <2> SUFFICES ASSUME SearchInv, [SearchNext]_searchVars PROVE SearchInv'
    OBVIOUS
  <2>1. CASE UNCHANGED searchVars
    BY <2>1 DEF searchVars, SearchInv, SearchShape, SearchNotStarted, SearchBracket,
                SearchFound, NbLists, SizeAt
  <2> QED BY <2>1, StartPreserves, HalvePreserves, StopPreserves DEF SearchNext
<1> QED BY <1>1, <1>2, PTL DEF SearchSpec

(* getFreeListByDichotomy reads no list before tablePtr[0] and none past the    *)
(* count of the pool, and the list it returns is the first one whose size  *)
(* is at least the request.                                                *)
THEOREM SearchIsExact == SearchSpec => []SearchExact
<1>1. SearchInv => SearchExact
  <2> SUFFICES ASSUME SearchInv PROVE SearchExact
    OBVIOUS
  <2>1. InsideTable
    <3> SUFFICES ASSUME searchPc = "loop"
                 PROVE  /\ 0 <= tablePtr + middle - 1 /\ tablePtr + middle < NbLists
                        /\ NbLists < NB_FREE_LIST
      BY DEF InsideTable
    <3>1. /\ tablePtr \in Nat /\ segSize \in Nat /\ middle \in 1 .. segSize - 1
          /\ tablePtr + segSize <= NbLists
      BY LoopFacts
    <3>2. NbLists \in Nat /\ NbLists < NB_FREE_LIST
      BY CountFacts DEF SearchInv
    <3> QED BY <3>1, <3>2
  <2>2. FindsFirstLargeEnough
    <3> SUFFICES ASSUME searchPc = "done", NEW k \in 0 .. (tablePtr + middle - 1)
                 PROVE  SizeAt(k) < innerSize
      BY DEF FindsFirstLargeEnough, SearchInv, SearchFound
    <3>1. tablePtr \in Nat /\ middle \in Nat
      BY DEF SearchInv, SearchShape, SearchFound
    <3>2. /\ k \in Nat /\ tablePtr + middle - 1 \in Nat
          /\ k <= tablePtr + middle - 1 /\ tablePtr + middle # 0
      BY <3>1
    <3>3. SizeAt(tablePtr + middle - 1) < innerSize
      BY <3>2 DEF SearchInv, SearchFound
    <3> QED BY <3>2, <3>3, TableFacts DEF SearchInv
  <2> QED BY <2>1, <2>2 DEF SearchExact
<1> QED BY <1>1, SearchInvariant, PTL
=============================================================================
