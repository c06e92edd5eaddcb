----------------------- MODULE CachedMMSource_proof -----------------------
(***************************************************************************)
(* For every number of threads and every size of the memory, the slots,    *)
(* the cache and the requests: until a segment seen without the lock is    *)
(* taken by two calls, the cached source loses no page and gives none      *)
(* twice, counts its cache right and keeps it bounded, and the registry    *)
(* has exactly the segments in use; also once the source is destroyed.     *)
(***************************************************************************)
EXTENDS CachedMMSource, FiniteSetTheorems, SequenceTheorems, TLAPS

-----------------------------------------------------------------------------
(* Numbers, and the division by a constant *)

(* Multiples of n keep their order, and are n apart. *)
LEMMA MultiplesApart ==
    ASSUME NEW n \in Nat \ {0}, NEW i \in Int, NEW j \in Int
    PROVE  /\ i * n \in Int
           /\ (i + 1) * n = i * n + n
           /\ (i + j) * n = i * n + j * n
           /\ i < j <=> i * n < j * n
           /\ i < j => i * n + n <= j * n
OBVIOUS

(* What the quotient is. *)
LEMMA Quotient ==
    ASSUME NEW n \in Nat \ {0}, NEW a \in Nat
    PROVE  /\ a \div n \in Nat
           /\ (a \div n) * n <= a
           /\ a < (a \div n) * n + n
OBVIOUS

(* Nothing else is. *)
LEMMA QuotientUnique ==
    ASSUME NEW n \in Nat \ {0}, NEW a \in Nat, NEW q \in Int,
           q * n <= a, a < q * n + n
    PROVE  a \div n = q
OBVIOUS

(* Memory is cut in slots of n pages: the slots whose last page an area     *)
(* start .. start + size - 1 holds.                                         *)
LEMMA SlotFromStart ==
    ASSUME NEW n \in Nat \ {0}, NEW start \in Nat, NEW i \in Nat,
           start <= (i + 1) * n - 1
    PROVE  start \div n \in Nat /\ start \div n <= i
<1> DEFINE q == start \div n
<1>1. q \in Nat /\ q * n <= start /\ (i + 1) * n \in Int
  BY Quotient, MultiplesApart
<1>2. q * n < (i + 1) * n
  BY <1>1, MultiplesApart
<1> HIDE DEF q
<1>3. q < i + 1
  BY <1>1, <1>2, MultiplesApart
<1> QED BY <1>1, <1>3 DEF q

LEMMA SlotAfterTurns ==
    ASSUME NEW n \in Nat \ {0}, NEW start \in Nat, NEW k \in Nat
    PROVE  /\ start \div n \in Nat /\ k * n \in Nat
           /\ (start + k * n) \div n = (start \div n) + k
<1> DEFINE q == start \div n
           a == start + k * n
<1>1. q \in Nat /\ q * n <= start /\ start < q * n + n
  BY Quotient
<1>2. k * n \in Nat /\ a \in Nat
  OBVIOUS
<1> HIDE DEF q
<1>3. (q + k) * n = q * n + k * n /\ q * n \in Int /\ q + k \in Int
  BY <1>1, MultiplesApart
<1>4. (q + k) * n <= a /\ a < (q + k) * n + n
  BY <1>1, <1>2, <1>3
<1> HIDE DEF a
<1>5. a \div n = q + k
  BY <1>2, <1>3, <1>4, QuotientUnique
<1> QED BY <1>1, <1>2, <1>5 DEF q, a

(* Up to the last multiple of n in the area: its slots, no more, no fewer. *)
LEMMA SlotsToTheEnd ==
    ASSUME NEW n \in Nat \ {0}, NEW start \in Nat, NEW end \in Nat, NEW k \in Nat
    PROVE  LET last == ((start \div n) + k + 1) * n - 1
           IN  start + k * n < (end \div n) * n <=> start <= last /\ last < end
<1> DEFINE q == start \div n
           e == end \div n
           i == q + k
<1>1. q \in Nat /\ q * n <= start /\ start < q * n + n
  BY Quotient
<1>2. e \in Nat /\ e * n <= end /\ end < e * n + n
  BY Quotient
<1> HIDE DEF q, e
<1>3. /\ i \in Nat /\ k * n \in Int /\ q * n \in Int /\ e * n \in Int
      /\ i * n = q * n + k * n
      /\ (i + 1) * n = i * n + n
      /\ 0 <= k * n
  BY <1>1, <1>2, MultiplesApart
<1>4. i < e <=> i * n < e * n
  BY <1>2, <1>3, MultiplesApart
<1>5. i < e => (i + 1) * n <= e * n
  <2>1. e < i + 1 <=> e * n < (i + 1) * n
    BY <1>2, <1>3, MultiplesApart
  <2>2. (i + 1) * n \in Int
    BY <1>3
  <2> QED BY <2>1, <2>2, <1>2, <1>3
<1>6. e < i + 1 => e * n + n <= (i + 1) * n
  BY <1>2, <1>3, MultiplesApart
<1> HIDE DEF i
<1>7. ASSUME start + k * n < e * n
      PROVE  start <= (i + 1) * n - 1 /\ (i + 1) * n - 1 < end
  <2>1. i < e
    BY <1>1, <1>3, <1>4, <1>7
  <2> QED BY <2>1, <1>1, <1>2, <1>3, <1>5
<1>8. ASSUME (i + 1) * n - 1 < end
      PROVE  start + k * n < e * n
  <2>1. (i + 1) * n <= end
    BY <1>2, <1>3, <1>8
  <2>2. i < e
    <3> SUFFICES ASSUME ~ i < e PROVE FALSE
      OBVIOUS
    <3>1. e * n + n <= (i + 1) * n
      BY <1>2, <1>3, <1>6
    <3> QED BY <3>1, <2>1, <1>2, <1>3
  <2> QED BY <2>2, <1>1, <1>3, <1>5
<1> QED BY <1>7, <1>8 DEF i, q, e

(* After size \div n turns, or more, nothing of the area is left.          *)
LEMMA SlotBeyond ==
    ASSUME NEW n \in Nat \ {0}, NEW start \in Nat, NEW size \in Nat, NEW k \in Nat,
           NEW i \in Nat, size <= k * n, (start \div n) + k <= i
    PROVE  start + size <= (i + 1) * n - 1
<1> DEFINE q == start \div n
<1>1. q \in Nat /\ q * n <= start /\ start < q * n + n /\ q + k <= i /\ k * n \in Int
  BY Quotient
<1> HIDE DEF q
<1>2. (q + k) * n = q * n + k * n /\ q * n \in Int /\ (q + k) * n \in Int
  BY <1>1, MultiplesApart
<1>3. i < q + k <=> i * n < (q + k) * n
  BY <1>1, MultiplesApart
<1>4. i * n \in Int /\ (i + 1) * n = i * n + n
  BY MultiplesApart
<1> QED BY <1>1, <1>2, <1>3, <1>4

(* An area of n pages or more has the last page of the slot of any of its  *)
(* pages, or that of the slot before.                                      *)
LEMMA SlotOrPrevious ==
    ASSUME NEW n \in Nat \ {0}, NEW start \in Nat, NEW size \in Nat, size >= n,
           NEW a \in Nat, start <= a, a < start + size
    PROVE  LET p == a \div n
           IN  /\ p \in Nat /\ (p + 1) * n - 1 \in Int
               /\ a <= (p + 1) * n - 1
               /\ ~ (p + 1) * n - 1 < start + size =>
                    /\ p - 1 \in Nat
                    /\ start <= ((p - 1) + 1) * n - 1
                    /\ ((p - 1) + 1) * n - 1 < start + size
                    /\ (a - n) \div n = p - 1
<1> DEFINE p == a \div n
<1>1. p \in Nat /\ p * n <= a /\ a < p * n + n
  BY Quotient
<1> HIDE DEF p
<1>2. (p + 1) * n = p * n + n /\ p * n \in Int
  BY <1>1, MultiplesApart
<1>3. ASSUME ~ (p + 1) * n - 1 < start + size
      PROVE  /\ p - 1 \in Nat
             /\ start <= ((p - 1) + 1) * n - 1
             /\ ((p - 1) + 1) * n - 1 < start + size
             /\ (a - n) \div n = p - 1
  <2>1. start + size <= p * n + n - 1 /\ start <= p * n - 1
    BY <1>2, <1>3
  <2>2. 0 < p
    <3>1. 0 * n < p * n
      BY <2>1, <1>2
    <3> QED BY <3>1, <1>1, MultiplesApart
  <2>3. p - 1 \in Nat /\ (p - 1) + 1 = p /\ (p - 1) * n \in Nat
    BY <2>2, <1>1
  <2>4. (p - 1) * n = p * n - n
    BY <2>3, <1>2, MultiplesApart
  <2>5. (a - n) \div n = p - 1
    <3> DEFINE b == a - n
    <3>1. b \in Nat /\ p - 1 \in Int /\ (p - 1) * n <= b /\ b < (p - 1) * n + n
      BY <2>3, <2>4, <1>1, <1>2
    <3> HIDE DEF b
    <3>2. b \div n = p - 1
      BY <3>1, QuotientUnique
    <3> QED BY <3>2 DEF b
  <2>6. p * n - 1 < start + size
    BY <1>1, <1>2
  <2> QED BY <2>1, <2>3, <2>5, <2>6
<1> QED BY <1>1, <1>2, <1>3 DEF p

-----------------------------------------------------------------------------
(* The inductive invariant *)

Cached == ToSet(freeList)
Calls == {seg[t] : t \in Working}
Owned == held \union Cached \union Calls

(* The last page of a slot: its segment owns the slot. *)
LastPage(i) == (i + 1) * Split - 1
Owns(s, i) == Contain(s, LastPage(i))

WithSegment == {"fix", "register", "mremap", "keep", "munmap"}
WithSize == {"search", "fix", "mmap", "register", "mremap"}

(* What each variable holds. *)
Shape ==
    /\ keepResidut \in BOOLEAN
    /\ held \subseteq {s \in Segments : s.size \in MapSizes}
    /\ freeList \in Seq(Segments)
    /\ pc \in [Threads -> {"idle"} \union WithSegment \union WithSize]
    /\ DOMAIN want = Threads /\ DOMAIN best = Threads
    /\ DOMAIN bestDelta = Threads /\ DOMAIN seg = Threads

(* The locals at each point of a call.  The segment seen without the lock   *)
(* may have left the list since, but its distance is known.                 *)
InCall(t) ==
    /\ IF pc[t] \in WithSegment THEN seg[t] \in Segments ELSE seg[t] = NULL
    /\ IF pc[t] \in WithSize THEN want[t] \in MapSizes ELSE want[t] = 0
    /\ IF pc[t] = "search"
         THEN best[t] \in Segments /\ bestDelta[t] = Distance(best[t].size, want[t])
         ELSE best[t] = NULL
    /\ pc[t] = "fix" => seg[t].size # want[t]
    /\ pc[t] = "register" => seg[t].size = want[t]
    /\ pc[t] = "keep" => seg[t].size <= Threshold

Locals == \A t \in Threads : InCall(t)

(* The segments owned cover what the system gave, and none overlaps another.*)
Tiling(areas, pages) ==
    /\ \A s, r \in areas : s = r \/ Disjoint(s, r)
    /\ pages = UNION {Pages(s) : s \in areas}

(* No segment is twice in the list. *)
Single(list) == \A i, j \in DOMAIN list : list[i] = list[j] => i = j

(* A segment has one owner: the allocators, a place in the list, or a call. *)
OneOwner ==
    /\ held \cap Cached = {} /\ Single(freeList)
    /\ \A t \in Working : seg[t] \notin held \union Cached
    /\ \A t, u \in Working : seg[t] = seg[u] => t = u

Owners == Tiling(Owned, mapped) /\ OneOwner

(* A sum as a number of elements: w[i] of them for each index i. *)
Tiles(w) == UNION {{i} \X (1 .. w[i]) : i \in DOMAIN w}
Total(w) == Cardinality(Tiles(w))

(* What a call will add to the cache. *)
KeepsRest(t) ==
    pc[t] = "fix" /\ keepResidut /\ want[t] <= seg[t].size /\ seg[t].size - want[t] <= Threshold
Awaited ==
    [t \in Threads |-> IF pc[t] = "keep" THEN seg[t].size
                       ELSE IF KeepsRest(t) THEN seg[t].size - want[t] ELSE 0]

(* The bound is about the cache and what the calls will still add to it:    *)
(* each of them tested its segment alone.                                   *)
Bound == MaxSize + (Cardinality(Threads) - 1) * Threshold
Counted == currentSize = SizeOf(freeList) /\ currentSize + Total(Awaited) <= Bound

(* The registry has the slots of the segments in use and no others. *)
RegisteredFor(table, areas) ==
    /\ table \in [DOMAIN table -> areas \union {NULL}] /\ DOMAIN table \subseteq Nat
    /\ \A i \in DOMAIN table : table[i] # NULL => Owns(table[i], i)
    /\ \A s \in areas, i \in Nat : Owns(s, i) => i \in DOMAIN table /\ table[i] = s

Exact == Shape /\ Locals /\ Owners /\ Counted /\ RegisteredFor(slots, held)

(* Once the source is destroyed, what is in use is all that is mapped.      *)
Destroyed ==
    /\ Shape /\ Locals /\ \A t \in Threads : pc[t] = "idle"
    /\ Tiling(held, mapped) /\ currentSize = 0
    /\ RegisteredFor(slots, held)

(* All is exact up to the end, or up to the use of a stale segment. *)
IInv ==
    /\ stale => TypeOK
    /\ ~ stale => IF over THEN Destroyed ELSE Exact

-----------------------------------------------------------------------------
(* The constants, and segments *)

LEMMA Constants ==
    /\ Split \in Nat \ {0} /\ Top \in Nat /\ MaxSize \in Nat /\ Threshold \in Nat
    /\ Threads # {} /\ IsFiniteSet(Threads)
    /\ \A n \in MapSizes : n \in Nat \ {0} /\ n >= Split
BY SplitAssumption, SourceAssumption

LEMMA SegmentFacts ==
    ASSUME NEW s \in Segments
    PROVE  /\ s.start \in Nat /\ s.size \in Nat \ {0}
           /\ s = At(s.start, s.size)
           /\ End(s) \in Nat /\ End(s) = s.start + s.size /\ End(s) <= Top
           /\ s # NULL
BY Constants, NullAssumption DEF Segments, End, At

-----------------------------------------------------------------------------
(* The registry *)

LEMMA OwnsFacts ==
    ASSUME NEW s \in Segments, NEW i \in Nat
    PROVE  /\ LastPage(i) \in Int
           /\ Owns(s, i) <=> s.start <= LastPage(i) /\ LastPage(i) < End(s)
<1>1. (i + 1) * Split \in Int
  BY MultiplesApart, Constants
<1> QED BY <1>1 DEF LastPage, Owns, Contain

(* The turn of the loops on a slot of the segment, counted from its first. *)
LEMMA TurnFacts ==
    ASSUME NEW s \in Segments, NEW k \in Nat
    PROVE  /\ s.start \div Split \in Nat
           /\ TurnSlot(s, k) = (s.start \div Split) + k
           /\ TurnSlot(s, k) \in Nat
           /\ SetAgain(s, k) <=> Owns(s, TurnSlot(s, k))
<1> DEFINE q == s.start \div Split
<1>1. s.start \in Nat /\ End(s) \in Nat
  BY SegmentFacts
<1>2. q \in Nat /\ (s.start + k * Split) \div Split = q + k
  BY <1>1, SlotAfterTurns, Constants
<1>3. TurnSlot(s, k) = q + k
  BY <1>2 DEF TurnSlot, SlotOf
<1>4. SetAgain(s, k) <=> s.start <= LastPage(q + k) /\ LastPage(q + k) < End(s)
  BY <1>1, SlotsToTheEnd, Constants DEF SetAgain, CeilToPowOf2, LastPage
<1> HIDE DEF q
<1>5. Owns(s, q + k) <=> s.start <= LastPage(q + k) /\ LastPage(q + k) < End(s)
  BY <1>2, OwnsFacts
<1> QED BY <1>2, <1>3, <1>4, <1>5 DEF q

(* A slot of the segment has its turn, of setEntry and of remove.           *)
LEMMA TurnOfSlot ==
    ASSUME NEW s \in Segments, NEW i \in Nat, Owns(s, i)
    PROVE  \E k \in 0 .. s.size \div Split :
             i = TurnSlot(s, k) /\ SetAgain(s, k) /\ RemoveAgain(s, k)
<1> DEFINE q == s.start \div Split
           k == i - q
           z == s.size \div Split
<1>1. s.start \in Nat /\ s.size \in Nat /\ End(s) \in Nat /\ End(s) = s.start + s.size
  BY SegmentFacts DEF End
<1>2. (i + 1) * Split - 1 \in Int /\ s.start <= (i + 1) * Split - 1 /\ (i + 1) * Split - 1 < End(s)
  BY OwnsFacts DEF LastPage
<1>3. q \in Nat /\ q <= i
  BY <1>1, <1>2, SlotFromStart, Constants
<1>4. k \in Nat /\ i = q + k
  BY <1>3
<1>5. z \in Nat /\ s.size < z * Split + Split
  BY <1>1, Quotient, Constants
<1>6. k * Split < s.size
  <2> SUFFICES ASSUME ~ k * Split < s.size PROVE FALSE
    OBVIOUS
  <2>1. k * Split \in Int
    BY <1>4, MultiplesApart, Constants
  <2>2. s.size <= k * Split /\ (s.start \div Split) + k <= i
    BY <2>1, <1>1, <1>3, <1>4
  <2> HIDE DEF k
  <2>3. s.start + s.size <= (i + 1) * Split - 1
    BY <2>2, <1>1, <1>4, SlotBeyond, Constants
  <2> QED BY <2>3, <1>1, <1>2
<1>7. k <= z
  <2> SUFFICES ASSUME z < k PROVE FALSE
    BY <1>4, <1>5
  <2> HIDE DEF z, k
  <2>1. z * Split + Split <= k * Split /\ k * Split \in Int /\ z * Split \in Int
    BY <1>4, <1>5, MultiplesApart, Constants
  <2> QED BY <2>1, <1>1, <1>5, <1>6, Constants
<1>8. TurnSlot(s, k) = q + k /\ (SetAgain(s, k) <=> Owns(s, TurnSlot(s, k)))
  BY <1>4, TurnFacts
<1> HIDE DEF k, q, z
<1>9. k \in 0 .. z /\ i = TurnSlot(s, k) /\ SetAgain(s, k) /\ RemoveAgain(s, k)
  BY <1>4, <1>5, <1>6, <1>7, <1>8 DEF RemoveAgain
<1> QED BY <1>9 DEF z

(* setEntry writes the slots of the segment, in the regions it needs.       *)
LEMMA SetEntryFacts ==
    ASSUME NEW s \in Segments, NEW table, DOMAIN table \subseteq Nat
    PROVE  LET new == SetEntry(table, s)
           IN  /\ DOMAIN new \subseteq Nat /\ new = [j \in DOMAIN new |-> new[j]]
               /\ \A i \in Nat : Owns(s, i) => i \in DOMAIN new /\ new[i] = s
               /\ \A j \in DOMAIN table : j \in DOMAIN new
               /\ \A j \in DOMAIN new : ~ Owns(s, j) =>
                    new[j] = IF j \in DOMAIN table THEN table[j] ELSE NULL
<1> DEFINE mine == {TurnSlot(s, k) : k \in TurnsOf(SetAgain, s)}
           made == {i \div RegionSlots : i \in mine}
           more == UNION {r * RegionSlots .. (r + 1) * RegionSlots - 1 : r \in made}
           new  == SetEntry(table, s)
<1>1. TurnsOf(SetAgain, s) = {k \in 0 .. s.size \div Split : SetAgain(s, k)}
  BY DEF TurnsOf
<1>2. \A i \in Nat : Owns(s, i) <=> i \in mine
  BY <1>1, TurnOfSlot, TurnFacts
<1>3. mine \subseteq Nat
  BY <1>1, TurnFacts
<1> HIDE DEF mine
<1>4. \A i \in mine : i \in (i \div RegionSlots) * RegionSlots .. ((i \div RegionSlots) + 1) * RegionSlots - 1
  <2> TAKE i \in mine
  <2> DEFINE q == i \div RegionSlots
  <2>1. i \in Nat /\ q \in Nat /\ q * RegionSlots <= i /\ i < q * RegionSlots + RegionSlots
    BY <1>3, Quotient, SplitAssumption
  <2> HIDE DEF q
  <2>2. (q + 1) * RegionSlots = q * RegionSlots + RegionSlots /\ q * RegionSlots \in Int
    BY <2>1, MultiplesApart, SplitAssumption
  <2>3. i \in q * RegionSlots .. (q + 1) * RegionSlots - 1
    BY <2>1, <2>2, SplitAssumption
  <2> QED BY <2>3 DEF q
<1>5. mine \subseteq more
  BY <1>4
<1>6. more \subseteq Nat
  <2>1. \A r \in made : r \in Nat
    BY <1>3, Quotient, SplitAssumption
  <2>2. \A r \in Nat : r * RegionSlots .. (r + 1) * RegionSlots - 1 \subseteq Nat
    BY SplitAssumption
  <2> HIDE DEF made
  <2> QED BY <2>1, <2>2
<1>7. new = [j \in DOMAIN table \union more |->
               IF j \in mine THEN s ELSE IF j \in DOMAIN table THEN table[j] ELSE NULL]
  BY DEF SetEntry, mine
<1> HIDE DEF more, new
<1> QED
  <2>1. DOMAIN new = DOMAIN table \union more
    BY <1>7
  <2>2. \A j \in DOMAIN new :
          new[j] = IF j \in mine THEN s ELSE IF j \in DOMAIN table THEN table[j] ELSE NULL
    BY <1>7
  <2>3. new = [j \in DOMAIN new |-> new[j]]
    BY <1>7
  <2> QED BY <2>1, <2>2, <2>3, <1>2, <1>5, <1>6 DEF new

(* remove empties the slots of the segment, if they are still its own.      *)
LEMMA RemoveEntryFacts ==
    ASSUME NEW s \in Segments, NEW table, DOMAIN table \subseteq Nat
    PROVE  LET new == RemoveEntry(table, s)
           IN  /\ DOMAIN new = DOMAIN table /\ new = [j \in DOMAIN new |-> new[j]]
               /\ \A j \in DOMAIN table :
                    /\ table[j] # s => new[j] = table[j]
                    /\ table[j] = s => new[j] \in {s, NULL}
                    /\ table[j] = s /\ Owns(s, j) => new[j] = NULL
<1> DEFINE mine == {TurnSlot(s, k) : k \in TurnsOf(RemoveAgain, s)}
           new  == RemoveEntry(table, s)
<1>1. TurnsOf(RemoveAgain, s) = {k \in 0 .. s.size \div Split : RemoveAgain(s, k)}
  BY DEF TurnsOf
<1>2. \A i \in Nat : Owns(s, i) => i \in mine
  BY <1>1, TurnOfSlot
<1> HIDE DEF mine
<1>3. new = [j \in DOMAIN table |-> IF j \in mine /\ table[j] = s THEN NULL ELSE table[j]]
  BY DEF RemoveEntry, mine
<1> HIDE DEF new
<1>4. DOMAIN new = DOMAIN table
  BY <1>3
<1>5. \A j \in DOMAIN table : new[j] = IF j \in mine /\ table[j] = s THEN NULL ELSE table[j]
  BY <1>3
<1>6. new = [j \in DOMAIN new |-> new[j]]
  BY <1>3
<1> QED BY <1>2, <1>4, <1>5, <1>6 DEF new

-----------------------------------------------------------------------------
(* Sums *)

LEMMA TilesFacts ==
    ASSUME NEW w, NEW i, NEW n
    PROVE  <<i, n>> \in Tiles(w) <=> i \in DOMAIN w /\ n \in 1 .. w[i]
BY DEF Tiles

(* A term of a sum, and the others. *)
LEMMA TilesWithout ==
    ASSUME NEW w, NEW x \in DOMAIN w, w[x] \in Nat,
           LET rest == [i \in DOMAIN w \ {x} |-> w[i]]
           IN  IsFiniteSet(Tiles(rest))
    PROVE  LET rest == [i \in DOMAIN w \ {x} |-> w[i]]
           IN  /\ IsFiniteSet(Tiles(w)) /\ Total(w) \in Nat /\ Total(rest) \in Nat
               /\ Total(w) = w[x] + Total(rest)
<1> DEFINE rest == [i \in DOMAIN w \ {x} |-> w[i]]
           column == {x} \X (1 .. w[x])
<1>1. IsFiniteSet(column) /\ Cardinality(column) = w[x]
  <2>1. IsFiniteSet({x}) /\ Cardinality({x}) = 1
    BY FS_Singleton
  <2>2. IsFiniteSet(1 .. w[x]) /\ Cardinality(1 .. w[x]) = w[x]
    BY FS_Interval
  <2>3. /\ IsFiniteSet(column)
        /\ Cardinality(column) = Cardinality({x}) * Cardinality(1 .. w[x])
    BY <2>1, <2>2, FS_Product
  <2> HIDE DEF column
  <2> QED BY <2>1, <2>2, <2>3
<1>2. Tiles(w) = column \union Tiles(rest)
  BY Zenon DEF Tiles
<1>3. column \cap Tiles(rest) = {}
  BY DEF Tiles
<1>4. Cardinality(Tiles(rest)) \in Nat /\ IsFiniteSet(Tiles(rest))
  BY FS_CardinalityType
<1> HIDE DEF column, rest
<1>5. /\ IsFiniteSet(Tiles(w))
      /\ Cardinality(Tiles(w)) = w[x] + Cardinality(Tiles(rest)) - Cardinality({})
  BY <1>1, <1>2, <1>3, <1>4, FS_Union
<1>6. Cardinality({}) = 0
  BY FS_EmptySet
<1> QED BY <1>4, <1>5, <1>6 DEF Total, rest

(* A finite sum of terms that are at most n. *)
LEMMA TilesBounded ==
    ASSUME NEW w, IsFiniteSet(DOMAIN w), NEW n \in Nat,
           \A i \in DOMAIN w : w[i] \in Nat /\ w[i] <= n
    PROVE  /\ IsFiniteSet(Tiles(w)) /\ Total(w) \in Nat
           /\ Total(w) <= Cardinality(DOMAIN w) * n
<1> DEFINE box == (DOMAIN w) \X (1 .. n)
<1>1. IsFiniteSet(1 .. n) /\ Cardinality(1 .. n) = n
  BY FS_Interval
<1>2. IsFiniteSet(box) /\ Cardinality(box) = Cardinality(DOMAIN w) * n
  BY <1>1, FS_Product
<1>3. Tiles(w) \in SUBSET box
  BY DEF Tiles
<1> HIDE DEF box
<1>4. IsFiniteSet(Tiles(w)) /\ Cardinality(Tiles(w)) <= Cardinality(box)
  BY <1>2, <1>3, FS_Subset
<1> QED BY <1>2, <1>4, FS_CardinalityType DEF Total

(* The sizes of a set of segments. *)
Sizes(areas) == [s \in areas |-> s.size]

(* The segments of a list, none of them twice, have the sum of the list. *)
LEMMA SizeOfList ==
    ASSUME NEW list \in Seq(Segments),
           \A i, j \in DOMAIN list : list[i] = list[j] => i = j
    PROVE  /\ IsFiniteSet(ToSet(list)) /\ IsFiniteSet(Tiles(Sizes(ToSet(list))))
           /\ SizeOf(list) \in Nat /\ SizeOf(list) = Total(Sizes(ToSet(list)))
<1> DEFINE S == ToSet(list)
           w == [i \in DOMAIN list |-> list[i].size]
<1>1. /\ Len(list) \in Nat /\ DOMAIN list = 1 .. Len(list)
      /\ \A i \in DOMAIN list : list[i] \in Segments
  OBVIOUS
<1>2. IsFiniteSet(DOMAIN list)
  BY <1>1, FS_Interval
<1>3. IsFiniteSet(S)
  <2> DEFINE f == [i \in DOMAIN list |-> list[i]]
  <2>1. f \in Surjection(DOMAIN list, S)
    BY DEF Surjection, ToSet
  <2> HIDE DEF f, S
  <2> QED BY <1>2, <2>1, FS_Surjection
<1>4. /\ DOMAIN w = DOMAIN list
      /\ \A i \in DOMAIN list : w[i] \in Nat /\ w[i] <= Top
  BY <1>1, SegmentFacts, Constants
<1>5. IsFiniteSet(Tiles(w)) /\ Total(w) \in Nat
  <2> HIDE DEF w
  <2> QED BY <1>2, <1>4, TilesBounded, Constants
<1>6. SizeOf(list) = Total(w)
  BY Zenon DEF SizeOf, Total, Tiles
<1>7. ExistsBijection(Tiles(w), Tiles(Sizes(S)))
  <2> DEFINE f == [p \in Tiles(w) |-> <<list[p[1]], p[2]>>]
  <2>1. \A i, n : <<i, n>> \in Tiles(w) <=> i \in DOMAIN list /\ n \in 1 .. list[i].size
    <3> HIDE DEF w
    <3> QED BY <1>4, TilesFacts DEF w
  <2>2. \A s, n : <<s, n>> \in Tiles(Sizes(S)) <=> s \in S /\ n \in 1 .. s.size
    <3> HIDE DEF S
    <3>1. DOMAIN Sizes(S) = S /\ \A s \in S : Sizes(S)[s] = s.size
      BY DEF Sizes
    <3> QED BY <3>1, TilesFacts
  <2>3. \A p \in Tiles(w) : p = <<p[1], p[2]>>
    BY DEF Tiles
  <2>4. \A q \in Tiles(Sizes(S)) : q = <<q[1], q[2]>>
    BY DEF Tiles
  <2> HIDE DEF w
  <2>5. \A p \in Tiles(w) : f[p] \in Tiles(Sizes(S))
    <3> TAKE p \in Tiles(w)
    <3>1. p[1] \in DOMAIN list /\ p[2] \in 1 .. list[p[1]].size
      BY <2>1, <2>3
    <3>2. list[p[1]] \in S
      BY <3>1 DEF ToSet
    <3> QED BY <3>1, <3>2, <2>2
  <2>6. \A p, q \in Tiles(w) : f[p] = f[q] => p = q
    <3> SUFFICES ASSUME NEW p \in Tiles(w), NEW q \in Tiles(w), f[p] = f[q] PROVE p = q
      OBVIOUS
    <3>1. list[p[1]] = list[q[1]] /\ p[2] = q[2]
      OBVIOUS
    <3>2. p[1] \in DOMAIN list /\ q[1] \in DOMAIN list
      BY <2>1, <2>3
    <3> QED BY <3>1, <3>2, <2>3
  <2>7. \A q \in Tiles(Sizes(S)) : \E p \in Tiles(w) : f[p] = q
    <3> TAKE q \in Tiles(Sizes(S))
    <3>1. q[1] \in S /\ q[2] \in 1 .. q[1].size
      BY <2>2, <2>4
    <3>2. PICK i \in DOMAIN list : q[1] = list[i]
      BY <3>1 DEF ToSet
    <3>3. <<i, q[2]>> \in Tiles(w)
      BY <2>1, <3>1, <3>2
    <3>4. f[<<i, q[2]>>] = q
      BY <2>4, <3>2, <3>3
    <3> QED BY <3>3, <3>4
  <2>8. f \in Bijection(Tiles(w), Tiles(Sizes(S)))
    <3> HIDE DEF S
    <3>1. f \in [Tiles(w) -> Tiles(Sizes(S))]
      BY <2>5
    <3> HIDE DEF f
    <3> QED BY <2>6, <2>7, <3>1 DEF Bijection, Injection, Surjection, IsInjective
  <2> QED BY <2>8 DEF ExistsBijection
<1> HIDE DEF w, S
<1>8. IsFiniteSet(Tiles(Sizes(S))) /\ Cardinality(Tiles(Sizes(S))) = Cardinality(Tiles(w))
  BY <1>5, <1>7, FS_Bijection
<1> QED BY <1>3, <1>5, <1>6, <1>8 DEF Total, S

(* A segment put in a list, or taken from it, changes the sum by its size. *)
LEMMA SizeOfChange ==
    ASSUME NEW less \in Seq(Segments), NEW more \in Seq(Segments), NEW s \in Segments,
           \A i, j \in DOMAIN less : less[i] = less[j] => i = j,
           \A i, j \in DOMAIN more : more[i] = more[j] => i = j,
           s \notin ToSet(less), ToSet(more) = ToSet(less) \union {s}
    PROVE  SizeOf(more) = SizeOf(less) + s.size /\ SizeOf(less) \in Nat /\ SizeOf(more) \in Nat
<1> DEFINE L == ToSet(less)
           M == ToSet(more)
<1>1. SizeOf(less) \in Nat /\ SizeOf(less) = Total(Sizes(L)) /\ IsFiniteSet(Tiles(Sizes(L)))
  BY SizeOfList
<1>2. SizeOf(more) \in Nat /\ SizeOf(more) = Total(Sizes(M))
  BY SizeOfList
<1>3. s \notin L /\ M = L \union {s}
  OBVIOUS
<1> HIDE DEF L, M
<1>4. /\ DOMAIN Sizes(M) = M /\ Sizes(M)[s] = s.size /\ s \in M
      /\ Sizes(L) = [i \in DOMAIN Sizes(M) \ {s} |-> Sizes(M)[i]]
  BY <1>3 DEF Sizes
<1>5. s.size \in Nat
  BY SegmentFacts
<1>6. Total(Sizes(M)) = s.size + Total(Sizes(L))
  BY <1>1, <1>4, <1>5, TilesWithout
<1> QED BY <1>1, <1>2, <1>5, <1>6

-----------------------------------------------------------------------------
(* Lists *)

LEMMA PutFirstFacts ==
    ASSUME NEW list \in Seq(Segments), Single(list), NEW s \in Segments, s \notin ToSet(list)
    PROVE  LET new == <<s>> \o list
           IN  /\ new \in Seq(Segments) /\ Single(new)
               /\ ToSet(new) = ToSet(list) \union {s}
               /\ SizeOf(new) = SizeOf(list) + s.size /\ SizeOf(list) \in Nat
<1> DEFINE new == <<s>> \o list
<1>1. Len(list) \in Nat /\ DOMAIN list = 1 .. Len(list) /\ \A i \in DOMAIN list : list[i] \in Segments
  OBVIOUS
<1>2. /\ new \in Seq(Segments) /\ Len(new) = Len(list) + 1 /\ DOMAIN new = 1 .. Len(list) + 1
      /\ new[1] = s /\ \A i \in 2 .. Len(list) + 1 : new[i] = list[i - 1]
  BY <1>1
<1> HIDE DEF new
<1>3. \A i \in DOMAIN list : i + 1 \in DOMAIN new /\ new[i + 1] = list[i]
  BY <1>1, <1>2
<1>4. ToSet(new) = ToSet(list) \union {s}
  <2>1. \A i \in DOMAIN new : i = 1 \/ (i - 1 \in DOMAIN list /\ new[i] = list[i - 1])
    BY <1>1, <1>2
  <2>2. 1 \in DOMAIN new
    BY <1>1, <1>2
  <2>3. ASSUME NEW x \in ToSet(new) PROVE x \in ToSet(list) \union {s}
    <3>1. PICK i \in DOMAIN new : x = new[i]
      BY DEF ToSet
    <3> QED BY <1>2, <2>1, <3>1 DEF ToSet
  <2>4. ASSUME NEW x \in ToSet(list) \union {s} PROVE x \in ToSet(new)
    BY <1>2, <1>3, <2>2 DEF ToSet
  <2> QED BY <2>3, <2>4
<1>5. Single(new)
  <2> SUFFICES ASSUME NEW i \in DOMAIN new, NEW j \in DOMAIN new, new[i] = new[j] PROVE i = j
    BY DEF Single
  <2>1. ASSUME NEW k \in DOMAIN new, k # 1 PROVE k - 1 \in DOMAIN list /\ new[k] = list[k - 1] /\ new[k] # s
    <3>1. k - 1 \in DOMAIN list /\ new[k] = list[k - 1]
      BY <1>1, <1>2, <2>1
    <3> QED BY <3>1 DEF ToSet
  <2>2. i \in Nat /\ j \in Nat
    BY <1>1, <1>2
  <2>3. i # 1 /\ j # 1 => i - 1 = j - 1
    BY <2>1 DEF Single
  <2> QED BY <1>2, <2>1, <2>2, <2>3
<1>6. SizeOf(new) = SizeOf(list) + s.size /\ SizeOf(list) \in Nat
  BY <1>2, <1>4, <1>5, SizeOfChange DEF Single
<1> QED BY <1>2, <1>4, <1>5, <1>6 DEF new

(* The segment leaves the list, and the others stay. *)
LEMMA UnlinkFacts ==
    ASSUME NEW list \in Seq(Segments), Single(list), NEW s \in ToSet(list)
    PROVE  LET new == Unlink(list, s)
           IN  /\ new \in Seq(Segments) /\ Single(new)
               /\ ToSet(new) = ToSet(list) \ {s}
               /\ SizeOf(list) = SizeOf(new) + s.size /\ SizeOf(new) \in Nat /\ SizeOf(list) \in Nat
<1> DEFINE k == CHOOSE i \in DOMAIN list : list[i] = s
           before == SubSeq(list, 1, k - 1)
           after == SubSeq(list, k + 1, Len(list))
           new == before \o after
<1>1. Len(list) \in Nat /\ DOMAIN list = 1 .. Len(list) /\ \A i \in DOMAIN list : list[i] \in Segments
  OBVIOUS
<1>2. k \in DOMAIN list /\ list[k] = s
  <2>1. \E i \in DOMAIN list : list[i] = s
    BY DEF ToSet
  <2> QED BY <2>1
<1>3. Unlink(list, s) = new
  BY DEF Unlink, RemoveAt
<1> HIDE DEF k
<1>4. k \in 1 .. Len(list)
  BY <1>1, <1>2
<1>5. /\ before \in Seq(Segments) /\ Len(before) = k - 1
      /\ \A i \in 1 .. k - 1 : before[i] = list[i]
  BY <1>1, <1>4
<1>6. /\ after \in Seq(Segments) /\ Len(after) = Len(list) - k
      /\ \A i \in 1 .. Len(list) - k : after[i] = list[k + i]
  <2>1. k + 1 \in Int /\ Len(list) \in Int /\ \A i \in k + 1 .. Len(list) : list[i] \in Segments
    BY <1>1, <1>4
  <2>2. /\ after \in Seq(Segments)
        /\ Len(after) = IF k + 1 <= Len(list) THEN Len(list) - (k + 1) + 1 ELSE 0
        /\ \A i \in 1 .. Len(list) - (k + 1) + 1 : after[i] = list[(k + 1) + i - 1]
    BY <2>1, SubSeqProperties
  <2>3. k \in Nat /\ k <= Len(list) /\ Len(list) \in Nat
    BY <1>1, <1>4
  <2> HIDE DEF after
  <2>4. Len(after) = Len(list) - k
    <3>1. CASE k < Len(list)
      <4>1. k + 1 <= Len(list) /\ Len(list) - (k + 1) + 1 = Len(list) - k
        BY <2>3, <3>1
      <4> QED BY <2>2, <4>1
    <3>2. CASE k = Len(list)
      <4>1. ~ (k + 1 <= Len(list)) /\ Len(list) - k = 0
        BY <2>3, <3>2
      <4> QED BY <2>2, <4>1
    <3> QED BY <2>3, <3>1, <3>2
  <2>5. ASSUME NEW i \in 1 .. Len(list) - k PROVE after[i] = list[k + i]
    <3>1. i \in 1 .. Len(list) - (k + 1) + 1 /\ (k + 1) + i - 1 = k + i
      BY <2>3
    <3>2. after[i] = list[(k + 1) + i - 1]
      BY <2>2, <3>1
    <3> QED BY <3>1, <3>2
  <2> QED BY <2>2, <2>4, <2>5
<1> HIDE DEF before, after
<1>7. /\ new \in Seq(Segments) /\ Len(new) = Len(list) - 1 /\ DOMAIN new = 1 .. Len(list) - 1
      /\ \A i \in 1 .. Len(list) - 1 : new[i] = IF i < k THEN list[i] ELSE list[i + 1]
  <2>1. new \in Seq(Segments) /\ Len(new) = Len(list) - 1 /\ DOMAIN new = 1 .. Len(list) - 1
    <3>1. new \in Seq(Segments) /\ Len(new) = Len(before) + Len(after)
      BY <1>5, <1>6, ConcatProperties
    <3>2. Len(before) + Len(after) = Len(list) - 1
      BY <1>1, <1>4, <1>5, <1>6
    <3> HIDE DEF new
    <3> QED BY <3>1, <3>2
  <2>2. ASSUME NEW i \in 1 .. Len(list) - 1
        PROVE  new[i] = IF i < k THEN list[i] ELSE list[i + 1]
    <3>1. new[i] = IF i <= Len(before) THEN before[i] ELSE after[i - Len(before)]
      BY <1>1, <1>4, <1>5, <1>6
    <3>2. CASE i < k
      <4>1. i \in 1 .. k - 1
        BY <1>4, <3>2
      <4> QED BY <3>1, <4>1, <1>4, <1>5
    <3>3. CASE ~ i < k
      <4>1. i - (k - 1) \in 1 .. Len(list) - k /\ ~ i <= k - 1 /\ k + (i - (k - 1)) = i + 1
        BY <1>1, <1>4, <3>3
      <4>2. after[i - (k - 1)] = list[i + 1]
        BY <1>6, <4>1
      <4> QED BY <1>5, <3>1, <3>3, <4>1, <4>2
    <3> QED BY <3>2, <3>3
  <2> QED BY <2>1, <2>2
<1> HIDE DEF new
<1>8. \A i \in DOMAIN new : \E j \in DOMAIN list :
        j # k /\ j = (IF i < k THEN i ELSE i + 1) /\ new[i] = list[j]
  BY <1>1, <1>4, <1>7
<1>9. \A j \in DOMAIN list : j # k => \E i \in DOMAIN new : new[i] = list[j]
  <2> SUFFICES ASSUME NEW j \in DOMAIN list, j # k PROVE \E i \in DOMAIN new : new[i] = list[j]
    OBVIOUS
  <2>1. CASE j < k
    BY <1>1, <1>4, <1>7, <2>1
  <2>2. CASE k < j
    <3>1. j - 1 \in DOMAIN new /\ new[j - 1] = list[j]
      BY <1>1, <1>4, <1>7, <2>2
    <3> QED BY <3>1
  <2> QED BY <1>1, <1>4, <2>1, <2>2
<1>10. ToSet(new) = ToSet(list) \ {s}
  <2>1. \A j \in DOMAIN list : j # k => list[j] # s
    BY <1>2 DEF Single
  <2> QED BY <1>2, <1>8, <1>9, <2>1 DEF ToSet
<1>11. Single(new)
  <2> SUFFICES ASSUME NEW i \in DOMAIN new, NEW j \in DOMAIN new, new[i] = new[j] PROVE i = j
    BY DEF Single
  <2>1. (IF i < k THEN i ELSE i + 1) = (IF j < k THEN j ELSE j + 1)
    BY <1>8 DEF Single
  <2>2. i \in Nat /\ j \in Nat /\ k \in Nat
    BY <1>1, <1>4, <1>7
  <2> QED BY <2>1, <2>2
<1>12. s \in Segments /\ s \notin ToSet(new) /\ ToSet(list) = ToSet(new) \union {s}
  BY <1>1, <1>2, <1>10 DEF ToSet
<1>13. SizeOf(list) = SizeOf(new) + s.size /\ SizeOf(new) \in Nat /\ SizeOf(list) \in Nat
  BY <1>7, <1>11, <1>12, SizeOfChange DEF Single
<1> QED BY <1>3, <1>7, <1>10, <1>11, <1>13

LEMMA EmptyListFacts ==
    /\ <<>> \in Seq(Segments) /\ Single(<<>>) /\ ToSet(<<>>) = {} /\ SizeOf(<<>>) = 0
<1>1. <<>> \in Seq(Segments) /\ DOMAIN <<>> = {}
  OBVIOUS
<1>2. Single(<<>>) /\ ToSet(<<>>) = {}
  BY <1>1 DEF Single, ToSet
<1>3. UNION {{i} \X (1 .. <<>>[i].size) : i \in DOMAIN <<>>} = {}
  BY <1>1
<1> QED BY <1>1, <1>2, <1>3, FS_EmptySet DEF SizeOf

-----------------------------------------------------------------------------
(* The pages of segments *)

LEMMA PagesFacts ==
    ASSUME NEW s \in Segments
    PROVE  /\ Pages(s) # {} /\ Pages(s) \subseteq 0 .. Top - 1
           /\ \A p : p \in Pages(s) <=> p \in Int /\ Contain(s, p)
           /\ \A r \in Segments : Disjoint(s, r) <=> Pages(s) \cap Pages(r) = {}
<1>1. s.start \in Nat /\ s.size \in Nat \ {0} /\ End(s) = s.start + s.size /\ End(s) <= Top /\ End(s) \in Nat
  BY SegmentFacts
<1>2. s.start \in Pages(s)
  BY <1>1 DEF Pages
<1>3. Pages(s) \subseteq 0 .. Top - 1 /\ \A p : p \in Pages(s) <=> p \in Int /\ Contain(s, p)
  BY <1>1, Constants DEF Pages, Contain
<1>4. ASSUME NEW r \in Segments PROVE Disjoint(s, r) <=> Pages(s) \cap Pages(r) = {}
  <2>1. r.start \in Nat /\ r.size \in Nat \ {0} /\ End(r) = r.start + r.size /\ End(r) \in Nat
    BY SegmentFacts
  <2>2. Disjoint(s, r) => Pages(s) \cap Pages(r) = {}
    BY <1>1, <2>1 DEF Disjoint, Pages
  <2>3. ~ Disjoint(s, r) => s.start \in Pages(r) \/ r.start \in Pages(s)
    BY <1>1, <2>1 DEF Disjoint, Pages
  <2>4. r.start \in Pages(r)
    BY <2>1 DEF Pages
  <2> QED BY <1>2, <2>2, <2>3, <2>4
<1> QED BY <1>2, <1>3, <1>4

(* Some segments are given back, with their pages. *)
LEMMA TilingRemove ==
    ASSUME NEW areas \in SUBSET Segments, NEW pages, Tiling(areas, pages),
           NEW gone \in SUBSET areas
    PROVE  Tiling(areas \ gone, pages \ UNION {Pages(s) : s \in gone})
<1>1. \A s \in areas, r \in areas : s # r => Pages(s) \cap Pages(r) = {}
  BY PagesFacts DEF Tiling
<1> QED BY <1>1 DEF Tiling

(* The system gives a new one. *)
LEMMA TilingAdd ==
    ASSUME NEW areas \in SUBSET Segments, NEW pages, Tiling(areas, pages),
           NEW s \in Segments, Pages(s) \cap pages = {}
    PROVE  s \notin areas /\ Tiling(areas \union {s}, pages \union Pages(s))
<1>1. \A r \in areas : Pages(r) \cap Pages(s) = {}
  BY DEF Tiling
<1>2. s \notin areas
  BY <1>1, PagesFacts
<1>3. \A r \in areas : Disjoint(r, s) /\ Disjoint(s, r)
  BY <1>1, PagesFacts DEF Disjoint
<1> QED BY <1>2, <1>3 DEF Tiling

(* One is moved. *)
LEMMA TilingMove ==
    ASSUME NEW areas \in SUBSET Segments, NEW pages, Tiling(areas, pages),
           NEW s \in areas, NEW r \in Segments, Pages(r) \cap (pages \ Pages(s)) = {}
    PROVE  /\ r \notin areas \ {s}
           /\ Tiling((areas \ {s}) \union {r}, (pages \ Pages(s)) \union Pages(r))
<1>1. UNION {Pages(q) : q \in {s}} = Pages(s)
  OBVIOUS
<1>2. Tiling(areas \ {s}, pages \ Pages(s))
  BY <1>1, TilingRemove
<1> QED BY <1>2, TilingAdd

(* One is cut. *)
LEMMA CutFacts ==
    ASSUME NEW s \in Segments, NEW n \in Nat \ {0}, n < s.size
    PROVE  LET first == At(s.start, n)
               rest == Residut(s, n)
           IN  /\ first \in Segments /\ rest \in Segments
               /\ first.size = n /\ rest.size = s.size - n
               /\ Pages(first) \cap Pages(rest) = {}
               /\ Pages(s) = Pages(first) \union Pages(rest)
<1> DEFINE first == At(s.start, n)
           rest == Residut(s, n)
<1>1. s.start \in Nat /\ s.size \in Nat \ {0} /\ End(s) = s.start + s.size /\ End(s) <= Top /\ Top \in Nat
  BY SegmentFacts, Constants
<1>2. first = [start |-> s.start, size |-> n] /\ rest = [start |-> s.start + n, size |-> s.size - n]
  BY DEF At, Residut
<1> HIDE DEF first, rest
<1>3. /\ first.start = s.start /\ first.size = n /\ rest.start = s.start + n /\ rest.size = s.size - n
  BY <1>2
<1>4. End(first) = s.start + n /\ End(rest) = s.start + s.size
  BY <1>1, <1>3 DEF End
<1>5. first \in Segments
  BY <1>1, <1>2, <1>4 DEF Segments
<1>6. rest \in Segments
  BY <1>1, <1>2, <1>4 DEF Segments
<1>7. Pages(first) \cap Pages(rest) = {} /\ Pages(s) = Pages(first) \union Pages(rest)
  BY <1>1, <1>3, <1>4 DEF Pages
<1> QED BY <1>3, <1>5, <1>6, <1>7 DEF first, rest

-----------------------------------------------------------------------------
(* The calls *)

(* What the calls of the other threads work on. *)
Others(t) == {seg[u] : u \in Working \ {t}}

LEMMA CallFacts ==
    ASSUME Shape, Locals, OneOwner, NEW t \in Threads
    PROVE  /\ held \subseteq Segments /\ Cached \subseteq Segments /\ Others(t) \subseteq Segments
           /\ Owned \subseteq Segments
           /\ Others(t) \cap (held \union Cached) = {}
           /\ seg[t] = NULL => Owned = held \union Cached \union Others(t)
           /\ seg[t] # NULL =>
                /\ seg[t] \in Segments
                /\ seg[t] \notin held \union Cached \union Others(t)
                /\ Owned = (held \union Cached \union Others(t)) \union {seg[t]}
<1>1. held \subseteq Segments
  BY DEF Shape
<1>2. Cached \subseteq Segments
  <2>1. \A i \in DOMAIN freeList : freeList[i] \in Segments
    BY DEF Shape
  <2> QED BY <2>1 DEF Cached, ToSet
<1>3. \A u \in Working : seg[u] \in Segments
  BY DEF Locals, InCall, Working
<1>4. Others(t) \subseteq Segments /\ Calls \subseteq Segments
  BY <1>3 DEF Others, Calls
<1>5. Others(t) \cap (held \union Cached) = {}
  BY DEF OneOwner, Others
<1>6. CASE seg[t] = NULL
  <2>1. Working \ {t} = Working
    BY <1>6 DEF Working
  <2>2. Calls = Others(t)
    BY <2>1 DEF Calls, Others
  <2> QED BY <1>1, <1>2, <1>4, <1>5, <1>6, <2>2 DEF Owned
<1>7. CASE seg[t] # NULL
  <2>1. t \in Working
    BY <1>7 DEF Working
  <2>2. Calls = Others(t) \union {seg[t]}
    BY <2>1 DEF Calls, Others
  <2>3. seg[t] \notin Others(t)
    BY <2>1 DEF OneOwner, Others
  <2>4. seg[t] \in Segments /\ seg[t] \notin held \union Cached
    BY <2>1, <1>3 DEF OneOwner
  <2> QED BY <1>1, <1>2, <1>4, <1>5, <1>7, <2>2, <2>3, <2>4 DEF Owned
<1> QED BY <1>6, <1>7

(* One call changes what it works on, the lists and the set of the segments *)
(* in use following as they may.                                            *)
LEMMA CallChanges ==
    ASSUME Shape, OneOwner, NEW t \in Threads, NEW s \in Segments \union {NULL},
           seg' = [seg EXCEPT ![t] = s],
           held' \cap Cached' = {}, Single(freeList)',
           (held' \union Cached') \cap Others(t) = {},
           s \notin held' \union Cached' \union Others(t)
    PROVE  /\ OneOwner'
           /\ Owned' = (held' \union Cached' \union Others(t)) \union ({s} \ {NULL})
<1>1. DOMAIN seg = Threads
  BY DEF Shape
<1>2. seg'[t] = s /\ \A u \in Threads : u # t => seg'[u] = seg[u]
  BY <1>1
<1>3. Working' \ {t} = Working \ {t}
  BY <1>2 DEF Working
<1>4. \A u \in Working' : u # t => u \in Working /\ seg'[u] = seg[u] /\ seg[u] \in Others(t)
  BY <1>2, <1>3 DEF Others, Working
<1>5. Others(t) = {seg'[u] : u \in Working' \ {t}}
  BY <1>2, <1>3 DEF Others, Working
<1>6. Calls' = Others(t) \union ({s} \ {NULL})
  <2>1. CASE s = NULL
    <3>1. Working' \ {t} = Working'
      BY <1>2, <2>1 DEF Working
    <3> QED BY <1>5, <2>1, <3>1 DEF Calls
  <2>2. CASE s # NULL
    <3>1. t \in Working'
      BY <1>2, <2>2 DEF Working
    <3> QED BY <1>2, <1>5, <2>2, <3>1 DEF Calls
  <2> QED BY <2>1, <2>2
<1>7. ASSUME NEW u \in Working' PROVE seg'[u] \notin held' \union Cached'
  BY <1>2, <1>4
<1>8. ASSUME NEW u \in Working', NEW v \in Working', seg'[u] = seg'[v] PROVE u = v
  <2>1. CASE u = t /\ v # t
    BY <1>2, <1>4, <1>8, <2>1
  <2>2. CASE u # t /\ v = t
    BY <1>2, <1>4, <1>8, <2>2
  <2>3. CASE u # t /\ v # t
    BY <1>4, <1>8, <2>3 DEF OneOwner
  <2> QED BY <2>1, <2>2, <2>3
<1>9. OneOwner'
  BY <1>7, <1>8 DEF OneOwner
<1> QED BY <1>6, <1>9 DEF Owned

-----------------------------------------------------------------------------
(* The bound of the cache *)

(* A term, and the others of a sum over the calls. *)
LEMMA SumOfCalls ==
    ASSUME NEW w \in [Threads -> 0 .. Threshold], NEW t \in Threads
    PROVE  LET rest == [u \in Threads \ {t} |-> w[u]]
           IN  /\ Total(w) \in Nat /\ Total(rest) \in Nat
               /\ Total(w) = w[t] + Total(rest)
               /\ Total(rest) <= (Cardinality(Threads) - 1) * Threshold
<1> DEFINE rest == [u \in Threads \ {t} |-> w[u]]
<1>1. DOMAIN w = Threads /\ w[t] \in Nat
  BY Constants
<1>2. IsFiniteSet(Threads \ {t}) /\ Cardinality(Threads \ {t}) = Cardinality(Threads) - 1
  BY Constants, FS_RemoveElement
<1>3. /\ DOMAIN rest = Threads \ {t} /\ Threshold \in Nat
      /\ \A u \in DOMAIN rest : rest[u] \in Nat /\ rest[u] <= Threshold
  BY Constants
<1>4. rest = [u \in DOMAIN w \ {t} |-> w[u]]
  BY <1>1
<1> HIDE DEF rest
<1>5. /\ IsFiniteSet(Tiles(rest)) /\ Total(rest) \in Nat
      /\ Total(rest) <= Cardinality(DOMAIN rest) * Threshold
  BY <1>2, <1>3, TilesBounded
<1>6. Total(w) \in Nat /\ Total(w) = w[t] + Total(rest)
  BY <1>1, <1>4, <1>5, TilesWithout
<1> QED BY <1>2, <1>3, <1>5, <1>6 DEF rest

(* One call keeps the bound when what it adds to the cache it had announced,*)
(* or when cache and segment together are within the maximum.               *)
LEMMA BoundKept ==
    ASSUME NEW w \in [Threads -> 0 .. Threshold], NEW v \in [Threads -> 0 .. Threshold],
           NEW t \in Threads, \A u \in Threads : u # t => v[u] = w[u],
           NEW a \in Nat, NEW b \in Nat, a + Total(w) <= Bound,
           b + v[t] <= a + w[t] \/ b + v[t] <= MaxSize
    PROVE  b + Total(v) <= Bound
<1> DEFINE rest == [u \in Threads \ {t} |-> w[u]]
           N == (Cardinality(Threads) - 1) * Threshold
<1>1. rest = [u \in Threads \ {t} |-> v[u]]
  OBVIOUS
<1>2. Total(w) \in Nat /\ Total(rest) \in Nat /\ Total(w) = w[t] + Total(rest) /\ Total(rest) <= N
  BY SumOfCalls
<1>3. Total(v) \in Nat /\ Total(v) = v[t] + Total(rest)
  <2> HIDE DEF rest
  <2> QED BY <1>1, SumOfCalls
<1>4. w[t] \in Nat /\ v[t] \in Nat /\ MaxSize \in Nat
  BY Constants
<1>5. N \in Int
  <2>1. Cardinality(Threads) \in Nat /\ Threshold \in Nat
    BY Constants, FS_CardinalityType
  <2> QED BY <2>1
<1>6. Bound = MaxSize + N
  BY DEF Bound
<1> HIDE DEF rest, N
<1> QED BY <1>2, <1>3, <1>4, <1>5, <1>6

(* What a call announces, at each of its points. *)
LEMMA AwaitedFacts ==
    ASSUME Shape, Locals
    PROVE  Awaited \in [Threads -> 0 .. Threshold]
<1> SUFFICES ASSUME NEW t \in Threads
             PROVE  (IF pc[t] = "keep" THEN seg[t].size
                     ELSE IF KeepsRest(t) THEN seg[t].size - want[t] ELSE 0) \in 0 .. Threshold
  BY DEF Awaited
<1>1. InCall(t)
  BY DEF Locals
<1>2. CASE pc[t] = "keep"
  <2>1. seg[t] \in Segments /\ seg[t].size <= Threshold
    BY <1>1, <1>2 DEF InCall, WithSegment
  <2>2. seg[t].size \in Nat
    BY <2>1, SegmentFacts
  <2> QED BY <1>2, <2>1, <2>2, Constants
<1>3. CASE pc[t] # "keep" /\ KeepsRest(t)
  <2>1. seg[t] \in Segments /\ want[t] \in MapSizes
    BY <1>1, <1>3 DEF KeepsRest, InCall, WithSegment, WithSize
  <2>2. seg[t].size \in Nat /\ want[t] \in Nat
    BY <2>1, SegmentFacts, Constants
  <2> QED BY <1>3, <2>2, Constants DEF KeepsRest
<1> QED BY <1>2, <1>3, Constants

-----------------------------------------------------------------------------
(* The scan of the list *)

LEMMA DistanceFacts ==
    ASSUME NEW m \in Nat, NEW n \in Nat
    PROVE  Distance(m, n) \in Nat /\ (Distance(m, n) = 0 <=> m = n)
BY DEF Distance

(* What searchInCache takes is in the list, and it knows its distance. *)
LEMMA ClosestFacts ==
    ASSUME NEW list \in Seq(Segments), NEW first \in Segments, NEW size \in Nat
    PROVE  LET found == Closest(list, first, Distance(first.size, size), size)
           IN  found.seg \in Segments /\ found.delta = Distance(found.seg.size, size)
<1> DEFINE delta == Distance(first.size, size)
           closer(i) ==
             /\ Distance(list[i].size, size) < delta
             /\ \A j \in DOMAIN list :
                  LET d == Distance(list[j].size, size)
                  IN  /\ d >= Distance(list[i].size, size)
                      /\ j < i => d > Distance(list[i].size, size)
           k == CHOOSE j \in DOMAIN list : closer(j)
<1>1. CASE \E i \in DOMAIN list : closer(i)
  <2>1. k \in DOMAIN list
    BY <1>1
  <2>2. Closest(list, first, delta, size) = [seg |-> list[k], delta |-> Distance(list[k].size, size)]
    BY <1>1, Zenon DEF Closest
  <2> HIDE DEF k
  <2>3. list[k] \in Segments
    BY <2>1
  <2> QED BY <2>2, <2>3
<1>2. CASE ~ \E i \in DOMAIN list : closer(i)
  <2>1. Closest(list, first, delta, size) = [seg |-> first, delta |-> delta]
    BY <1>2, Zenon DEF Closest
  <2> QED BY <2>1
<1> QED BY <1>1, <1>2

-----------------------------------------------------------------------------
(* The registry follows the segments in use *)

(* Segments that do not overlap own no slot in common. *)
LEMMA OwnsOne ==
    ASSUME NEW s \in Segments, NEW r \in Segments, Disjoint(s, r), NEW i \in Nat
    PROVE  ~ (Owns(s, i) /\ Owns(r, i))
<1>1. /\ LastPage(i) \in Int
      /\ Owns(s, i) <=> s.start <= LastPage(i) /\ LastPage(i) < End(s)
      /\ Owns(r, i) <=> r.start <= LastPage(i) /\ LastPage(i) < End(r)
  BY OwnsFacts
<1>2. s.start \in Nat /\ End(s) \in Nat /\ r.start \in Nat /\ End(r) \in Nat
  BY SegmentFacts
<1> QED BY <1>1, <1>2 DEF Disjoint

LEMMA RegisteredSet ==
    ASSUME NEW table, NEW areas \in SUBSET Segments, RegisteredFor(table, areas),
           NEW s \in Segments, \A r \in areas : Disjoint(s, r)
    PROVE  RegisteredFor(SetEntry(table, s), areas \union {s})
<1> DEFINE new == SetEntry(table, s)
<1>1. /\ DOMAIN new \subseteq Nat /\ new = [j \in DOMAIN new |-> new[j]]
      /\ \A i \in Nat : Owns(s, i) => i \in DOMAIN new /\ new[i] = s
      /\ \A j \in DOMAIN table : j \in DOMAIN new
      /\ \A j \in DOMAIN new : ~ Owns(s, j) =>
           new[j] = IF j \in DOMAIN table THEN table[j] ELSE NULL
  BY SetEntryFacts DEF RegisteredFor
<1> HIDE DEF new
<1>2. ASSUME NEW j \in DOMAIN new
      PROVE  new[j] \in areas \union {s} \union {NULL} /\ (new[j] # NULL => Owns(new[j], j))
  BY <1>1 DEF RegisteredFor
<1>3. ASSUME NEW r \in areas \union {s}, NEW i \in Nat, Owns(r, i)
      PROVE  i \in DOMAIN new /\ new[i] = r
  <2>1. CASE r = s
    BY <1>1, <1>3, <2>1
  <2>2. CASE r # s
    <3>1. r \in areas /\ i \in DOMAIN table /\ table[i] = r
      BY <1>3, <2>2 DEF RegisteredFor
    <3>2. ~ Owns(s, i)
      BY <1>3, <3>1, OwnsOne
    <3> QED BY <1>1, <3>1, <3>2
  <2> QED BY <2>1, <2>2
<1>4. new \in [DOMAIN new -> areas \union {s} \union {NULL}]
  BY <1>1, <1>2
<1> QED BY <1>1, <1>2, <1>3, <1>4 DEF RegisteredFor, new

LEMMA RegisteredRemove ==
    ASSUME NEW table, NEW areas \in SUBSET Segments, RegisteredFor(table, areas), NEW s \in areas
    PROVE  RegisteredFor(RemoveEntry(table, s), areas \ {s})
<1> DEFINE new == RemoveEntry(table, s)
<1>1. /\ DOMAIN new = DOMAIN table /\ new = [j \in DOMAIN new |-> new[j]]
      /\ \A j \in DOMAIN table :
           /\ table[j] # s => new[j] = table[j]
           /\ table[j] = s => new[j] \in {s, NULL}
           /\ table[j] = s /\ Owns(s, j) => new[j] = NULL
  BY RemoveEntryFacts DEF RegisteredFor
<1> HIDE DEF new
<1>2. s # NULL
  BY SegmentFacts
<1>3. ASSUME NEW j \in DOMAIN new
      PROVE  new[j] \in (areas \ {s}) \union {NULL} /\ (new[j] # NULL => Owns(new[j], j))
  <2>1. CASE table[j] = s
    BY <1>1, <1>2, <2>1 DEF RegisteredFor
  <2>2. CASE table[j] # s
    BY <1>1, <2>2 DEF RegisteredFor
  <2> QED BY <2>1, <2>2
<1>4. ASSUME NEW r \in areas \ {s}, NEW i \in Nat, Owns(r, i)
      PROVE  i \in DOMAIN new /\ new[i] = r
  BY <1>1, <1>4 DEF RegisteredFor
<1>5. new \in [DOMAIN new -> (areas \ {s}) \union {NULL}]
  BY <1>1, <1>3
<1> QED BY <1>1, <1>3, <1>4, <1>5 DEF RegisteredFor, new

-----------------------------------------------------------------------------
(* One call takes a step *)

(* The locals of the other calls stay as they are. *)
OneCall(t) ==
    /\ keepResidut' = keepResidut
    /\ pc' \in [Threads -> {"idle"} \union WithSegment \union WithSize]
    /\ DOMAIN want' = Threads /\ DOMAIN best' = Threads
    /\ DOMAIN bestDelta' = Threads /\ DOMAIN seg' = Threads
    /\ \A u \in Threads : u # t =>
         /\ pc'[u] = pc[u] /\ want'[u] = want[u] /\ seg'[u] = seg[u]
         /\ best'[u] = best[u] /\ bestDelta'[u] = bestDelta[u]

LEMMA LocalsKept ==
    ASSUME Shape, Locals, NEW t \in Threads, OneCall(t), InCall(t)',
           held' \subseteq {s \in Segments : s.size \in MapSizes},
           freeList' \in Seq(Segments)
    PROVE  /\ Shape' /\ Locals'
           /\ \A u \in Threads : u # t => Awaited'[u] = Awaited[u]
           /\ Awaited'[t] \in 0 .. Threshold => Awaited' \in [Threads -> 0 .. Threshold]
<1>1. Shape'
  BY DEF Shape, OneCall
<1>2. ASSUME NEW u \in Threads, u # t PROVE InCall(u)'
  <2>1. InCall(u)
    BY DEF Locals
  <2>2. pc'[u] = pc[u] /\ want'[u] = want[u] /\ seg'[u] = seg[u] /\ best'[u] = best[u] /\ bestDelta'[u] = bestDelta[u]
    BY <1>2 DEF OneCall
  <2> QED BY <2>1, <2>2 DEF InCall
<1>3. ASSUME NEW u \in Threads, u # t PROVE Awaited'[u] = Awaited[u]
  BY <1>3 DEF OneCall, Awaited, KeepsRest
<1>4. Awaited \in [Threads -> 0 .. Threshold]
  BY AwaitedFacts
<1>5. Awaited' = [u \in Threads |-> Awaited'[u]]
  BY DEF Awaited
<1>6. Awaited'[t] \in 0 .. Threshold => Awaited' \in [Threads -> 0 .. Threshold]
  BY <1>3, <1>4, <1>5
<1> QED BY <1>1, <1>2, <1>3, <1>6 DEF Locals

(* The list and the bound follow. *)
LEMMA CountedKept ==
    ASSUME Shape, Locals, Counted, NEW t \in Threads, Awaited' \in [Threads -> 0 .. Threshold],
           \A u \in Threads : u # t => Awaited'[u] = Awaited[u],
           currentSize \in Nat, currentSize' \in Nat, currentSize' = SizeOf(freeList'),
           \/ currentSize' + Awaited'[t] <= currentSize + Awaited[t]
           \/ currentSize' + Awaited'[t] <= MaxSize
    PROVE  Counted'
<1>1. Awaited \in [Threads -> 0 .. Threshold]
  BY AwaitedFacts
<1>2. currentSize + Total(Awaited) <= Bound
  BY DEF Counted
<1> DEFINE w == Awaited
           v == Awaited'
<1>3. currentSize' + Total(v) <= Bound
  <2>1. \A u \in Threads : u # t => v[u] = w[u]
    OBVIOUS
  <2>2. currentSize + Total(w) <= Bound
    BY <1>2
  <2>3. w \in [Threads -> 0 .. Threshold] /\ v \in [Threads -> 0 .. Threshold]
    BY <1>1
  <2>4. currentSize' + v[t] <= currentSize + w[t] \/ currentSize' + v[t] <= MaxSize
    OBVIOUS
  <2> HIDE DEF w, v
  <2> QED BY <2>1, <2>2, <2>3, <2>4, BoundKept
<1> QED BY <1>3 DEF Counted, Bound, Total, Tiles

(* The call that takes the step has nothing to add to the cache, before and *)
(* after.                                                                   *)
LEMMA NothingAwaited ==
    ASSUME NEW t \in Threads
    PROVE  /\ pc[t] \notin {"keep", "fix"} => Awaited[t] = 0
           /\ pc[t] = "keep" => Awaited[t] = seg[t].size
           /\ pc[t] = "fix" => Awaited[t] = IF KeepsRest(t) THEN seg[t].size - want[t] ELSE 0
           /\ pc'[t] \notin {"keep", "fix"} => Awaited'[t] = 0
           /\ pc'[t] = "keep" => Awaited'[t] = seg'[t].size
           /\ pc'[t] = "fix" => Awaited'[t] = IF KeepsRest(t)' THEN seg'[t].size - want'[t] ELSE 0
BY DEF Awaited, KeepsRest

(* The size of the cache is the size of its list. *)
LEMMA SizeFacts ==
    ASSUME Exact
    PROVE  /\ currentSize \in Nat /\ currentSize = SizeOf(freeList)
           /\ freeList \in Seq(Segments) /\ Single(freeList)
<1>1. freeList \in Seq(Segments) /\ Single(freeList)
  BY DEF Exact, Shape, Owners, OneOwner
<1>2. SizeOf(freeList) \in Nat
  BY <1>1, SizeOfList DEF Single
<1> QED BY <1>1, <1>2 DEF Exact, Counted

(* A step that does not touch the list, and does not announce anything.     *)
LEMMA ListUntouched ==
    ASSUME Exact, NEW t \in Threads, OneCall(t), InCall(t)',
           held' \subseteq {s \in Segments : s.size \in MapSizes},
           freeList' = freeList, currentSize' = currentSize, pc'[t] \notin {"keep", "fix"}
    PROVE  Shape' /\ Locals' /\ Counted' /\ Cached' = Cached
<1>1. currentSize \in Nat /\ currentSize = SizeOf(freeList) /\ freeList \in Seq(Segments)
  BY SizeFacts
<1>2. Cached' = Cached
  BY DEF Cached
<1>3. Shape /\ Locals /\ Counted
  BY DEF Exact
<1>4. Awaited'[t] = 0 /\ Awaited[t] \in 0 .. Threshold
  BY <1>3, NothingAwaited, AwaitedFacts
<1>5. /\ Shape' /\ Locals'
      /\ \A u \in Threads : u # t => Awaited'[u] = Awaited[u]
      /\ Awaited' \in [Threads -> 0 .. Threshold]
  BY <1>1, <1>2, <1>3, <1>4, LocalsKept, Constants
<1>6. currentSize' + Awaited'[t] <= currentSize + Awaited[t]
  BY <1>1, <1>4
<1> QED BY <1>1, <1>2, <1>3, <1>5, <1>6, CountedKept

-----------------------------------------------------------------------------
(* map: the steps preserve the invariant *)

LEMMA InitHolds == Init => Exact
<1> SUFFICES ASSUME Init PROVE Exact
  OBVIOUS
<1>1. freeList \in Seq(Segments) /\ Single(freeList) /\ Cached = {} /\ SizeOf(freeList) = 0
  BY EmptyListFacts DEF Init, Cached
<1>2. \A t \in Threads :
        /\ pc[t] = "idle" /\ want[t] = 0 /\ seg[t] = NULL /\ best[t] = NULL
        /\ Awaited[t] = 0
  BY DEF Init, Awaited, KeepsRest
<1>3. Shape
  BY <1>1 DEF Init, Shape
<1>4. Locals
  BY <1>2 DEF Locals, InCall, WithSegment, WithSize
<1>5. Owners
  <2>1. Working = {} /\ Owned = {}
    BY <1>1, <1>2 DEF Init, Working, Owned, Calls
  <2> QED BY <1>1, <2>1 DEF Init, Owners, Tiling, OneOwner
<1>6. Counted
  <2>1. Total(Awaited) = 0
    <3>1. DOMAIN Awaited = Threads /\ \A u \in Threads : Awaited[u] = 0
      BY <1>2 DEF Awaited
    <3>2. \A u \in DOMAIN Awaited : 1 .. Awaited[u] = {}
      BY <3>1
    <3>3. Tiles(Awaited) = {}
      BY <3>2 DEF Tiles
    <3> QED BY <3>3, FS_EmptySet DEF Total
  <2>2. 0 <= Bound
    <3>1. Cardinality(Threads) \in Nat /\ Cardinality(Threads) # 0
      BY Constants, FS_CardinalityType, FS_EmptySet
    <3>2. (Cardinality(Threads) - 1) * Threshold \in Nat
      BY <3>1, Constants
    <3> QED BY <3>2, Constants DEF Bound
  <2>3. currentSize = 0
    BY DEF Init
  <2> QED BY <1>1, <2>1, <2>2, <2>3 DEF Counted
<1>7. RegisteredFor(slots, held)
  BY DEF Init, RegisteredFor
<1> QED BY <1>3, <1>4, <1>5, <1>6, <1>7 DEF Exact

(* Nothing changes but the locals of the call. *)
LEMMA MapBeginPreserves ==
    ASSUME Exact, NEW t \in Threads, MapBegin(t)
    PROVE  Exact'
<1>1. /\ pc[t] = "idle"
      /\ UNCHANGED <<keepResidut, mapped, slots, held, freeList, currentSize, seg>>
  BY DEF MapBegin
<1>2. Shape /\ Locals /\ InCall(t)
  BY DEF Exact, Locals
<1>3. PICK size \in MapSizes :
        /\ want' = [want EXCEPT ![t] = size]
        /\ \/ /\ freeList # <<>>
              /\ best' = [best EXCEPT ![t] = Head(freeList)]
              /\ bestDelta' = [bestDelta EXCEPT ![t] = Distance(Head(freeList).size, size)]
              /\ pc' = [pc EXCEPT ![t] = "search"]
           \/ pc' = [pc EXCEPT ![t] = "mmap"] /\ best' = best /\ bestDelta' = bestDelta
  BY DEF MapBegin, Goto
<1>4. OneCall(t)
  BY <1>1, <1>2, <1>3 DEF OneCall, Shape, WithSize
<1>5. Cached' = Cached
  BY <1>1 DEF Cached
<1>6. InCall(t)'
  <2>1. want'[t] = size /\ seg'[t] = NULL
    BY <1>1, <1>2, <1>3 DEF Shape, InCall, WithSegment
  <2>2. CASE /\ freeList # <<>>
             /\ best' = [best EXCEPT ![t] = Head(freeList)]
             /\ bestDelta' = [bestDelta EXCEPT ![t] = Distance(Head(freeList).size, size)]
             /\ pc' = [pc EXCEPT ![t] = "search"]
    <3>1. Head(freeList) \in Segments
      <4>1. freeList \in Seq(Segments) /\ freeList # <<>>
        BY <1>2, <2>2 DEF Shape
      <4>2. 1 \in DOMAIN freeList /\ Head(freeList) = freeList[1]
        BY <4>1
      <4> QED BY <4>1, <4>2
    <3>2. pc'[t] = "search" /\ best'[t] = Head(freeList) /\ bestDelta'[t] = Distance(Head(freeList).size, size)
      BY <1>2, <2>2 DEF Shape
    <3> QED BY <1>1, <2>1, <3>1, <3>2 DEF InCall, WithSegment, WithSize
  <2>3. CASE pc' = [pc EXCEPT ![t] = "mmap"] /\ best' = best /\ bestDelta' = bestDelta
    <3>1. pc'[t] = "mmap" /\ best'[t] = NULL
      BY <1>1, <1>2, <2>3 DEF Shape, InCall
    <3> QED BY <1>1, <2>1, <3>1 DEF InCall, WithSegment, WithSize
  <2> QED BY <1>3, <2>2, <2>3
<1>7. Shape' /\ Locals' /\ Counted'
  <2>1. pc'[t] \in {"search", "mmap"}
    BY <1>2, <1>3 DEF Shape
  <2> QED BY <1>1, <1>2, <1>4, <1>6, <2>1, ListUntouched DEF Shape
<1>8. held' = held
  BY <1>1
<1>9. Owners' /\ RegisteredFor(slots, held)'
  <2>1. Working' = Working /\ Calls' = Calls /\ Owned' = Owned
    BY <1>1, <1>5 DEF Working, Calls, Owned
  <2>2. Owners'
    BY <1>1, <1>5, <1>8, <2>1 DEF Exact, Owners, Tiling, OneOwner, Single
  <2>3. RegisteredFor(slots, held)'
    BY <1>1 DEF Exact, RegisteredFor
  <2> QED BY <2>2, <2>3
<1> QED BY <1>7, <1>9 DEF Exact

(* What Search takes is a segment; if it was in the list all along, it has  *)
(* the distance the search says.                                            *)
LEMMA SearchTakes ==
    ASSUME Exact, NEW t \in Threads, Search(t)
    PROVE  LET found == Closest(freeList, best[t], bestDelta[t], want[t])
               taken == Present(freeList, found.seg)
           IN  /\ found.seg \in Segments /\ taken \in Segments
               /\ stale' = (found.seg \notin Cached)
               /\ ~ stale' => taken = found.seg /\ InCall(t)'
               /\ OneCall(t)
               /\ want[t] \in MapSizes /\ want[t] \in Nat /\ seg[t] = NULL
<1> DEFINE found == Closest(freeList, best[t], bestDelta[t], want[t])
           s == found.seg
           taken == Present(freeList, s)
<1>1. /\ pc[t] = "search"
      /\ seg' = [seg EXCEPT ![t] = taken]
      /\ pc' = [pc EXCEPT ![t] = IF found.delta # 0 THEN "fix" ELSE "register"]
      /\ best' = [best EXCEPT ![t] = NULL] /\ bestDelta' = [bestDelta EXCEPT ![t] = 0]
      /\ stale' = (s \notin Cached)
      /\ UNCHANGED <<keepResidut, want>>
  BY DEF Search, Goto, Cached
<1>2. Shape /\ InCall(t) /\ freeList \in Seq(Segments)
  BY DEF Exact, Locals, Shape
<1>3. /\ best[t] \in Segments /\ bestDelta[t] = Distance(best[t].size, want[t])
      /\ want[t] \in MapSizes /\ seg[t] = NULL
  BY <1>1, <1>2 DEF InCall, WithSize, WithSegment
<1>4. want[t] \in Nat
  BY <1>3, Constants
<1>5. s \in Segments /\ found.delta = Distance(s.size, want[t])
  <2>1. found = Closest(freeList, best[t], Distance(best[t].size, want[t]), want[t])
    BY <1>3
  <2> QED BY <1>2, <1>3, <1>4, <2>1, ClosestFacts
<1>6. s.size \in Nat
  BY <1>5, SegmentFacts
<1>9. taken \in Segments
  <2> DEFINE same == {r \in ToSet(freeList) : r.start = s.start}
  <2>1. ToSet(freeList) \subseteq Segments
    BY <1>2 DEF ToSet
  <2>2. CASE s \in same \/ same = {}
    BY <1>5, <2>2 DEF Present
  <2>3. CASE ~ (s \in same \/ same = {})
    <3>1. taken = CHOOSE r \in same : TRUE
      BY <2>3 DEF Present
    <3>2. taken \in same
      BY <2>3, <3>1
    <3> QED BY <2>1, <3>2
  <2> QED BY <2>2, <2>3
<1>10. ASSUME s \in Cached PROVE taken = s
  BY <1>10 DEF Present, Cached
<1> HIDE DEF found, taken
<1>7. OneCall(t)
  BY <1>1, <1>2 DEF OneCall, Shape, WithSize, WithSegment
<1>8. ASSUME ~ stale' PROVE InCall(t)'
  <2>1. seg'[t] = s /\ want'[t] = want[t] /\ best'[t] = NULL
    BY <1>1, <1>2, <1>8, <1>10 DEF Shape
  <2>2. found.delta # 0 <=> s.size # want[t]
    BY <1>4, <1>5, <1>6, DistanceFacts
  <2>3. CASE found.delta # 0
    <3>1. pc'[t] = "fix"
      BY <1>1, <1>2, <2>3 DEF Shape
    <3> QED BY <1>3, <1>5, <2>1, <2>2, <2>3, <3>1 DEF InCall, WithSegment, WithSize
  <2>4. CASE found.delta = 0
    <3>1. pc'[t] = "register"
      BY <1>1, <1>2, <2>4 DEF Shape
    <3> QED BY <1>3, <1>5, <2>1, <2>2, <2>4, <3>1 DEF InCall, WithSegment, WithSize
  <2> QED BY <2>3, <2>4
<1> QED BY <1>1, <1>3, <1>4, <1>5, <1>7, <1>8, <1>9, <1>10 DEF found, taken

(* Otherwise the segment goes from the list to the call; what the call may  *)
(* give back is less than what it takes.                                    *)
LEMMA SearchPreserves ==
    ASSUME Exact, NEW t \in Threads, Search(t), ~ stale'
    PROVE  Exact'
<1> DEFINE found == Closest(freeList, best[t], bestDelta[t], want[t])
           s == found.seg
<1>0. Present(freeList, s) = s
  BY SearchTakes
<1>1. /\ pc[t] = "search"
      /\ freeList' = Unlink(freeList, s) /\ currentSize' = currentSize - s.size
      /\ seg' = [seg EXCEPT ![t] = s]
      /\ pc' = [pc EXCEPT ![t] = IF found.delta # 0 THEN "fix" ELSE "register"]
      /\ best' = [best EXCEPT ![t] = NULL] /\ bestDelta' = [bestDelta EXCEPT ![t] = 0]
      /\ UNCHANGED <<keepResidut, mapped, slots, held, want>>
  BY <1>0 DEF Search, Goto
<1>2. Shape /\ Locals /\ OneOwner /\ InCall(t) /\ freeList \in Seq(Segments) /\ Single(freeList)
  BY DEF Exact, Locals, Owners, OneOwner, Shape
<1>3. want[t] \in Nat /\ seg[t] = NULL
  BY SearchTakes
<1>4. s \in Cached /\ OneCall(t) /\ InCall(t)'
  BY SearchTakes
<1>5. /\ held \subseteq Segments /\ Cached \subseteq Segments /\ Others(t) \subseteq Segments
      /\ Owned \subseteq Segments /\ Others(t) \cap (held \union Cached) = {}
      /\ Owned = held \union Cached \union Others(t)
  BY <1>2, <1>3, CallFacts
<1>6. s \in Segments /\ s.size \in Nat /\ s # NULL
  BY <1>4, <1>5, SegmentFacts
<1> HIDE DEF found
<1>7. /\ freeList' \in Seq(Segments) /\ Single(freeList)' /\ Cached' = Cached \ {s}
      /\ SizeOf(freeList) = SizeOf(freeList') + s.size
      /\ SizeOf(freeList') \in Nat /\ SizeOf(freeList) \in Nat
  <2>1. s \in ToSet(freeList)
    BY <1>4 DEF Cached
  <2> QED BY <1>1, <1>2, <2>1, UnlinkFacts DEF Cached, Single
<1>8. /\ Shape' /\ Locals'
      /\ \A u \in Threads : u # t => Awaited'[u] = Awaited[u]
      /\ Awaited'[t] \in 0 .. Threshold => Awaited' \in [Threads -> 0 .. Threshold]
  <2>1. held' \subseteq {r \in Segments : r.size \in MapSizes}
    BY <1>1, <1>2 DEF Shape
  <2> QED BY <1>2, <1>4, <1>7, <2>1, LocalsKept
<1>9. Counted'
  <2>1. Awaited[t] = 0
    BY <1>1, NothingAwaited
  <2>2. seg'[t] = s /\ want'[t] = want[t] /\ pc'[t] \in {"fix", "register"}
    BY <1>1, <1>2 DEF Shape
  <2>3. Awaited'[t] \in 0 .. Threshold /\ Awaited'[t] <= s.size
    <3>1. CASE pc'[t] = "register"
      BY <1>6, <3>1, NothingAwaited, Constants
    <3>2. CASE pc'[t] = "fix"
      <4>1. CASE ~ KeepsRest(t)'
        BY <1>6, <3>2, <4>1, NothingAwaited, Constants
      <4>2. CASE KeepsRest(t)'
        <5>1. Awaited'[t] = s.size - want[t] /\ want[t] <= s.size /\ s.size - want[t] <= Threshold
          BY <2>2, <3>2, <4>2, NothingAwaited DEF KeepsRest
        <5> QED BY <1>3, <1>6, <5>1, Constants
      <4> QED BY <4>1, <4>2
    <3> QED BY <2>2, <3>1, <3>2
  <2>4. currentSize \in Nat /\ currentSize = SizeOf(freeList)
    BY SizeFacts
  <2>5. currentSize' \in Nat /\ currentSize' = SizeOf(freeList')
    BY <1>1, <1>6, <1>7, <2>4
  <2>6. currentSize' + Awaited'[t] <= currentSize + Awaited[t]
    BY <1>1, <1>6, <2>1, <2>3, <2>4
  <2>7. Shape /\ Locals /\ Counted
    BY DEF Exact
  <2>8. Awaited' \in [Threads -> 0 .. Threshold]
    BY <1>8, <2>3
  <2> QED BY <1>8, <2>4, <2>5, <2>6, <2>7, <2>8, CountedKept
<1>10. Owners'
  <2>1. held' = held
    BY <1>1
  <2>2. OneOwner' /\ Owned' = (held' \union Cached' \union Others(t)) \union ({s} \ {NULL})
    <3>1. /\ held' \cap Cached' = {} /\ (held' \union Cached') \cap Others(t) = {}
          /\ s \notin held' \union Cached' \union Others(t)
      BY <1>2, <1>4, <1>5, <1>7, <2>1 DEF OneOwner
    <3> QED BY <1>1, <1>2, <1>6, <1>7, <3>1, CallChanges
  <2>3. Owned' = Owned
    BY <1>4, <1>5, <1>6, <1>7, <2>1, <2>2
  <2> QED BY <1>1, <2>2, <2>3 DEF Exact, Owners, Tiling
<1>11. RegisteredFor(slots, held)'
  BY <1>1 DEF Exact, RegisteredFor
<1> QED BY <1>8, <1>9, <1>10, <1>11 DEF Exact

(* What the system gives lies in the address space, outside what is in use. *)
LEMMA FreeRangesFacts ==
    ASSUME NEW used, NEW size \in MapSizes, NEW s \in FreeRanges(used, size)
    PROVE  s \in Segments /\ s.size = size /\ Pages(s) \cap used = {}
<1>1. size \in Nat \ {0} /\ Top \in Nat
  BY Constants
<1>2. s \in [start : 0 .. Top - size, size : {size}] /\ Pages(s) \cap used = {}
  BY DEF FreeRanges
<1>3. s.start \in Nat /\ s.start <= Top - size /\ s.size = size
  BY <1>1, <1>2
<1>4. s \in [start : 0 .. Top - 1, size : 1 .. Top] /\ s.start + s.size <= Top
  BY <1>1, <1>2, <1>3
<1> QED BY <1>2, <1>3, <1>4 DEF Segments, End

(* The system moves the segment of a call: fixReuseSize and remap.          *)
LEMMA MovePreserves ==
    ASSUME Exact, NEW t \in Threads, pc[t] \in {"fix", "mremap"},
           NEW s \in FreeRanges(mapped \ Pages(seg[t]), want[t]),
           mapped' = (mapped \ Pages(seg[t])) \union Pages(s),
           seg' = [seg EXCEPT ![t] = s], pc' = [pc EXCEPT ![t] = "register"],
           UNCHANGED <<keepResidut, slots, held, freeList, currentSize, want, best, bestDelta>>
    PROVE  Exact'
<1>1. Shape /\ Locals /\ OneOwner /\ InCall(t) /\ Tiling(Owned, mapped)
  BY DEF Exact, Locals, Owners
<1>2. seg[t] \in Segments /\ want[t] \in MapSizes /\ best[t] = NULL
  BY <1>1 DEF InCall, WithSegment, WithSize
<1>3. s \in Segments /\ s.size = want[t] /\ Pages(s) \cap (mapped \ Pages(seg[t])) = {}
  BY <1>2, FreeRangesFacts
<1>4. /\ held \subseteq Segments /\ Cached \subseteq Segments /\ Others(t) \subseteq Segments
      /\ Owned \subseteq Segments /\ Others(t) \cap (held \union Cached) = {}
      /\ seg[t] \notin held \union Cached \union Others(t)
      /\ Owned = (held \union Cached \union Others(t)) \union {seg[t]}
  BY <1>1, <1>2, CallFacts, SegmentFacts
<1>5. OneCall(t)
  BY <1>1 DEF OneCall, Shape, WithSize
<1>6. InCall(t)'
  <2>1. seg'[t] = s /\ pc'[t] = "register" /\ want'[t] = want[t] /\ best'[t] = NULL
    BY <1>1, <1>2 DEF Shape
  <2> QED BY <1>2, <1>3, <2>1 DEF InCall, WithSegment, WithSize
<1>7. Shape' /\ Locals' /\ Counted' /\ Cached' = Cached
  <2>1. pc'[t] = "register"
    BY <1>1 DEF Shape
  <2>2. held' \subseteq {r \in Segments : r.size \in MapSizes}
    BY <1>1 DEF Shape
  <2> QED BY <1>5, <1>6, <2>1, <2>2, ListUntouched
<1>8. Owners'
  <2> DEFINE rest == held \union Cached \union Others(t)
  <2>1. seg[t] \in Owned /\ Owned \ {seg[t]} = rest
    BY <1>4
  <2>2. s \notin rest /\ Tiling(rest \union {s}, mapped')
    <3>1. /\ s \notin Owned \ {seg[t]}
          /\ Tiling((Owned \ {seg[t]}) \union {s}, (mapped \ Pages(seg[t])) \union Pages(s))
      <4>1. Owned \in SUBSET Segments /\ seg[t] \in Owned /\ Tiling(Owned, mapped)
        BY <1>1, <1>4
      <4> HIDE DEF rest
      <4> QED BY <1>3, <4>1, TilingMove
    <3> HIDE DEF rest
    <3> QED BY <2>1, <3>1
  <2>3. OneOwner' /\ Owned' = (held' \union Cached' \union Others(t)) \union ({s} \ {NULL})
    <3>1. Single(freeList)' /\ held' \cap Cached' = {}
      BY <1>1, <1>7 DEF OneOwner, Single
    <3>2. (held' \union Cached') \cap Others(t) = {} /\ s \notin held' \union Cached' \union Others(t)
      BY <1>4, <1>7, <2>2
    <3> QED BY <1>1, <1>3, <3>1, <3>2, CallChanges
  <2>4. s # NULL
    BY <1>3, SegmentFacts
  <2>5. Owned' = rest \union {s}
    BY <1>7, <2>3, <2>4
  <2> QED BY <2>2, <2>3, <2>5 DEF Owners, Tiling
<1>9. RegisteredFor(slots, held)'
  BY DEF Exact, RegisteredFor
<1> QED BY <1>7, <1>8, <1>9 DEF Exact

LEMMA FixMovePreserves ==
    ASSUME Exact, NEW t \in Threads, FixMove(t)
    PROVE  Exact'
BY MovePreserves DEF FixMove, Goto

LEMMA MapSystemPreserves ==
    ASSUME Exact, NEW t \in Threads, MapSystem(t)
    PROVE  Exact'
<1>1. PICK s \in FreeRanges(mapped, want[t]) :
        mapped' = mapped \union Pages(s) /\ seg' = [seg EXCEPT ![t] = s]
  BY DEF MapSystem
<1>2. /\ pc[t] = "mmap" /\ pc' = [pc EXCEPT ![t] = "register"]
      /\ UNCHANGED <<keepResidut, slots, held, freeList, currentSize, want, best, bestDelta>>
  BY DEF MapSystem, Goto
<1>3. Shape /\ Locals /\ OneOwner /\ InCall(t) /\ Tiling(Owned, mapped)
  BY DEF Exact, Locals, Owners
<1>4. seg[t] = NULL /\ want[t] \in MapSizes /\ best[t] = NULL
  BY <1>2, <1>3 DEF InCall, WithSegment, WithSize
<1>5. s \in Segments /\ s.size = want[t] /\ Pages(s) \cap mapped = {}
  BY <1>4, FreeRangesFacts
<1>6. /\ Owned \subseteq Segments /\ Others(t) \cap (held \union Cached) = {}
      /\ Owned = held \union Cached \union Others(t)
  BY <1>3, <1>4, CallFacts
<1>7. OneCall(t)
  BY <1>1, <1>2, <1>3 DEF OneCall, Shape, WithSize
<1>8. InCall(t)'
  <2>1. seg'[t] = s /\ pc'[t] = "register" /\ want'[t] = want[t] /\ best'[t] = NULL
    BY <1>1, <1>2, <1>3, <1>4 DEF Shape
  <2> QED BY <1>4, <1>5, <2>1 DEF InCall, WithSegment, WithSize
<1>9. Shape' /\ Locals' /\ Counted' /\ Cached' = Cached
  <2>1. pc'[t] = "register" /\ held' \subseteq {r \in Segments : r.size \in MapSizes}
    BY <1>2, <1>3 DEF Shape
  <2> QED BY <1>2, <1>7, <1>8, <2>1, ListUntouched
<1>10. Owners'
  <2>1. s \notin Owned /\ Tiling(Owned \union {s}, mapped')
    BY <1>1, <1>3, <1>5, <1>6, TilingAdd
  <2>2. OneOwner' /\ Owned' = (held' \union Cached' \union Others(t)) \union ({s} \ {NULL})
    <3>1. Single(freeList)' /\ held' \cap Cached' = {}
      BY <1>2, <1>3, <1>9 DEF OneOwner, Single
    <3>2. (held' \union Cached') \cap Others(t) = {} /\ s \notin held' \union Cached' \union Others(t)
      BY <1>2, <1>6, <1>9, <2>1
    <3> QED BY <1>1, <1>3, <1>5, <3>1, <3>2, CallChanges
  <2>3. Owned' = Owned \union {s}
    BY <1>2, <1>5, <1>6, <1>9, <2>2, SegmentFacts
  <2> QED BY <2>1, <2>2, <2>3 DEF Owners, Tiling
<1>11. RegisteredFor(slots, held)'
  BY <1>2 DEF Exact, RegisteredFor
<1> QED BY <1>9, <1>10, <1>11 DEF Exact

(* A segment is cut: both parts stay, or the end is given back. *)
LEMMA TilingCut ==
    ASSUME NEW areas \in SUBSET Segments, NEW pages, Tiling(areas, pages),
           NEW s \in areas, NEW n \in Nat \ {0}, n < s.size
    PROVE  LET first == At(s.start, n)
               rest == Residut(s, n)
           IN  /\ first \notin areas \ {s} /\ rest \notin areas \ {s} /\ first # rest
               /\ Tiling((areas \ {s}) \union {first}, pages \ Pages(rest))
               /\ Tiling(((areas \ {s}) \union {first}) \union {rest}, pages)
<1> DEFINE first == At(s.start, n)
           rest == Residut(s, n)
           left == (areas \ {s}) \union {first}
<1>1. s \in Segments
  OBVIOUS
<1>2. /\ first \in Segments /\ rest \in Segments
      /\ Pages(first) \cap Pages(rest) = {} /\ Pages(s) = Pages(first) \union Pages(rest)
  BY <1>1, CutFacts
<1>3. Pages(s) \subseteq pages
  BY DEF Tiling
<1> HIDE DEF first, rest
<1>4. Pages(first) \cap (pages \ Pages(s)) = {}
  BY <1>2
<1>5. /\ first \notin areas \ {s}
      /\ Tiling((areas \ {s}) \union {first}, (pages \ Pages(s)) \union Pages(first))
  BY <1>2, <1>4, TilingMove
<1>6. (pages \ Pages(s)) \union Pages(first) = pages \ Pages(rest)
  BY <1>2, <1>3
<1>7. Tiling(left, pages \ Pages(rest))
  BY <1>5, <1>6
<1>8. left \in SUBSET Segments /\ Pages(rest) \cap (pages \ Pages(rest)) = {}
  BY <1>2
<1>9. rest \notin left /\ Tiling(left \union {rest}, (pages \ Pages(rest)) \union Pages(rest))
  <2> HIDE DEF left
  <2> QED BY <1>2, <1>7, <1>8, TilingAdd
<1>10. (pages \ Pages(rest)) \union Pages(rest) = pages
  BY <1>2, <1>3
<1> QED BY <1>5, <1>7, <1>9, <1>10 DEF first, rest

(* The end of a segment too large goes to the cache, as announced, or back. *)
LEMMA FixSplitPreserves ==
    ASSUME Exact, NEW t \in Threads, FixSplit(t)
    PROVE  Exact'
<1> DEFINE first == At(seg[t].start, want[t])
           rest == Residut(seg[t], want[t])
           keeps == keepResidut /\ rest.size <= Threshold
<1>1. /\ pc[t] = "fix" /\ seg[t].size >= want[t]
      /\ seg' = [seg EXCEPT ![t] = first] /\ pc' = [pc EXCEPT ![t] = "register"]
      /\ UNCHANGED <<keepResidut, slots, held, want, best, bestDelta>>
      /\ IF keeps THEN /\ freeList' = <<rest>> \o freeList
                       /\ currentSize' = currentSize + rest.size /\ mapped' = mapped
                  ELSE /\ mapped' = mapped \ Pages(rest)
                       /\ freeList' = freeList /\ currentSize' = currentSize
  BY DEF FixSplit, Goto
<1>2. Shape /\ Locals /\ OneOwner /\ InCall(t) /\ Tiling(Owned, mapped)
  BY DEF Exact, Locals, Owners
<1>3. /\ seg[t] \in Segments /\ want[t] \in MapSizes /\ best[t] = NULL
      /\ seg[t].size # want[t]
  BY <1>1, <1>2 DEF InCall, WithSegment, WithSize
<1>4. seg[t].size \in Nat /\ want[t] \in Nat \ {0} /\ want[t] < seg[t].size
  <2>1. seg[t].size \in Nat /\ want[t] \in Nat \ {0}
    BY <1>3, SegmentFacts, Constants
  <2> QED BY <2>1, <1>1, <1>3
<1>5. /\ first \in Segments /\ rest \in Segments
      /\ first.size = want[t] /\ rest.size = seg[t].size - want[t]
  BY <1>3, <1>4, CutFacts
<1>6. /\ held \subseteq Segments /\ Cached \subseteq Segments /\ Others(t) \subseteq Segments
      /\ Owned \subseteq Segments /\ Others(t) \cap (held \union Cached) = {}
      /\ seg[t] \notin held \union Cached \union Others(t)
      /\ Owned = (held \union Cached \union Others(t)) \union {seg[t]}
  BY <1>2, <1>3, CallFacts, SegmentFacts
<1>7. LET kept == held \union Cached \union Others(t)
      IN  /\ first \notin kept /\ rest \notin kept /\ first # rest
          /\ Tiling(kept \union {first}, mapped \ Pages(rest))
          /\ Tiling((kept \union {first}) \union {rest}, mapped)
  <2> DEFINE kept == held \union Cached \union Others(t)
  <2>1. Owned \in SUBSET Segments /\ seg[t] \in Owned /\ Owned \ {seg[t]} = kept
    BY <1>6
  <2> HIDE DEF kept, first, rest
  <2>2. /\ first \notin Owned \ {seg[t]} /\ rest \notin Owned \ {seg[t]} /\ first # rest
        /\ Tiling((Owned \ {seg[t]}) \union {first}, mapped \ Pages(rest))
        /\ Tiling(((Owned \ {seg[t]}) \union {first}) \union {rest}, mapped)
    BY <1>2, <1>4, <2>1, TilingCut DEF first, rest
  <2> QED BY <2>1, <2>2 DEF kept
<1> HIDE DEF first, rest
<1>8. OneCall(t)
  BY <1>1, <1>2 DEF OneCall, Shape, WithSize
<1>9. InCall(t)'
  <2>1. seg'[t] = first /\ pc'[t] = "register" /\ want'[t] = want[t] /\ best'[t] = NULL
    BY <1>1, <1>2, <1>3 DEF Shape
  <2> QED BY <1>3, <1>5, <2>1 DEF InCall, WithSegment, WithSize
<1>10. pc'[t] = "register" /\ held' = held /\ held' \subseteq {r \in Segments : r.size \in MapSizes}
  BY <1>1, <1>2 DEF Shape
<1>11. first # NULL
  BY <1>5, SegmentFacts
<1>12. RegisteredFor(slots, held)'
  BY <1>1 DEF Exact, RegisteredFor
<1>13. CASE keeps
  <2>1. freeList \in Seq(Segments) /\ Single(freeList) /\ rest \notin ToSet(freeList)
    BY <1>2, <1>7 DEF Shape, OneOwner, Cached
  <2>2. /\ freeList' \in Seq(Segments) /\ Single(freeList)' /\ Cached' = Cached \union {rest}
        /\ SizeOf(freeList') = SizeOf(freeList) + rest.size /\ SizeOf(freeList) \in Nat
    <3> DEFINE new == <<rest>> \o freeList
    <3>1. freeList' = new
      BY <1>1, <1>13
    <3>2. /\ new \in Seq(Segments) /\ Single(new)
          /\ ToSet(new) = ToSet(freeList) \union {rest}
          /\ SizeOf(new) = SizeOf(freeList) + rest.size /\ SizeOf(freeList) \in Nat
      BY <1>5, <2>1, PutFirstFacts
    <3> HIDE DEF new
    <3> QED BY <3>1, <3>2 DEF Cached, Single
  <2>3. /\ Shape' /\ Locals'
        /\ \A u \in Threads : u # t => Awaited'[u] = Awaited[u]
        /\ Awaited'[t] \in 0 .. Threshold => Awaited' \in [Threads -> 0 .. Threshold]
    BY <1>2, <1>8, <1>9, <1>10, <2>2, LocalsKept
  <2>4. Counted'
    <3>1. Awaited[t] = rest.size /\ Awaited'[t] = 0
      <4>1. KeepsRest(t)
        BY <1>1, <1>4, <1>5, <1>13 DEF KeepsRest
      <4> QED BY <1>1, <1>5, <1>10, <4>1, NothingAwaited
    <3>2. rest.size \in Nat /\ currentSize \in Nat /\ currentSize = SizeOf(freeList)
      BY <1>5, SizeFacts, SegmentFacts
    <3>3. currentSize' = currentSize + rest.size
      BY <1>1, <1>13
    <3>4. currentSize' \in Nat /\ currentSize' = SizeOf(freeList')
      BY <2>2, <3>2, <3>3
    <3>5. currentSize' + Awaited'[t] <= currentSize + Awaited[t]
      BY <3>1, <3>2, <3>3
    <3>6. Awaited' \in [Threads -> 0 .. Threshold]
      BY <2>3, <3>1, Constants
    <3> QED BY <1>2, <2>3, <3>2, <3>4, <3>5, <3>6, CountedKept DEF Exact
  <2>5. Owners'
    <3>1. held' \cap Cached' = {}
      BY <1>2, <1>7, <1>10, <2>2 DEF OneOwner
    <3>2. (held' \union Cached') \cap Others(t) = {} /\ first \notin held' \union Cached' \union Others(t)
      BY <1>6, <1>7, <1>10, <2>2
    <3>3. OneOwner' /\ Owned' = (held' \union Cached' \union Others(t)) \union ({first} \ {NULL})
      BY <1>1, <1>2, <1>5, <2>2, <3>1, <3>2, CallChanges
    <3>4. Owned' = ((held \union Cached \union Others(t)) \union {first}) \union {rest}
      BY <1>10, <1>11, <2>2, <3>3
    <3>5. mapped' = mapped
      BY <1>1, <1>13
    <3> QED BY <1>7, <3>3, <3>4, <3>5 DEF Owners, Tiling
  <2> QED BY <1>12, <2>3, <2>4, <2>5 DEF Exact
<1>14. CASE ~ keeps
  <2>1. freeList' = freeList /\ currentSize' = currentSize /\ mapped' = mapped \ Pages(rest)
    BY <1>1, <1>14
  <2>2. Shape' /\ Locals' /\ Counted' /\ Cached' = Cached
    BY <1>8, <1>9, <1>10, <2>1, ListUntouched
  <2>3. Owners'
    <3>1. held' \cap Cached' = {} /\ Single(freeList)'
      BY <1>2, <1>10, <2>1, <2>2 DEF OneOwner, Single
    <3>2. (held' \union Cached') \cap Others(t) = {} /\ first \notin held' \union Cached' \union Others(t)
      BY <1>6, <1>7, <1>10, <2>2
    <3>3. OneOwner' /\ Owned' = (held' \union Cached' \union Others(t)) \union ({first} \ {NULL})
      BY <1>1, <1>2, <1>5, <3>1, <3>2, CallChanges
    <3>4. Owned' = (held \union Cached \union Others(t)) \union {first}
      BY <1>10, <1>11, <2>2, <3>3
    <3> QED BY <1>7, <2>1, <3>3, <3>4 DEF Owners, Tiling
  <2> QED BY <1>12, <2>2, <2>3 DEF Exact
<1> QED BY <1>13, <1>14

(* The segment goes from the call to the allocators, and to the registry.   *)
LEMMA RegisterPreserves ==
    ASSUME Exact, NEW t \in Threads, Register(t)
    PROVE  Exact'
<1> DEFINE s == seg[t]
<1>1. /\ pc[t] = "register" /\ slots' = SetEntry(slots, s) /\ held' = held \union {s}
      /\ pc' = [pc EXCEPT ![t] = "idle"] /\ want' = [want EXCEPT ![t] = 0]
      /\ best' = [best EXCEPT ![t] = NULL] /\ bestDelta' = [bestDelta EXCEPT ![t] = 0]
      /\ seg' = [seg EXCEPT ![t] = NULL]
      /\ UNCHANGED <<keepResidut, mapped, freeList, currentSize>>
  BY DEF Register, Finish, Goto
<1>2. Shape /\ Locals /\ OneOwner /\ InCall(t) /\ Tiling(Owned, mapped)
  BY DEF Exact, Locals, Owners
<1>3. s \in Segments /\ want[t] \in MapSizes /\ s.size = want[t] /\ s # NULL
  BY <1>1, <1>2, SegmentFacts DEF InCall, WithSegment, WithSize
<1>4. /\ held \subseteq Segments /\ Cached \subseteq Segments /\ Others(t) \subseteq Segments
      /\ Others(t) \cap (held \union Cached) = {}
      /\ s \notin held \union Cached \union Others(t)
      /\ Owned = (held \union Cached \union Others(t)) \union {s}
  BY <1>2, <1>3, CallFacts
<1> HIDE DEF s
<1>5. OneCall(t)
  BY <1>1, <1>2 DEF OneCall, Shape
<1>6. pc'[t] = "idle" /\ InCall(t)'
  <2>1. seg'[t] = NULL /\ pc'[t] = "idle" /\ want'[t] = 0 /\ best'[t] = NULL
    BY <1>1, <1>2 DEF Shape
  <2> QED BY <2>1 DEF InCall, WithSegment, WithSize
<1>7. Shape' /\ Locals' /\ Counted' /\ Cached' = Cached
  <2>1. held' \subseteq {r \in Segments : r.size \in MapSizes}
    BY <1>1, <1>2, <1>3 DEF Shape
  <2> QED BY <1>1, <1>5, <1>6, <2>1, ListUntouched
<1>8. Owners'
  <2>1. held' \cap Cached' = {} /\ Single(freeList)'
    BY <1>1, <1>2, <1>4, <1>7 DEF OneOwner, Single
  <2>2. (held' \union Cached') \cap Others(t) = {} /\ NULL \notin held' \union Cached' \union Others(t)
    BY <1>1, <1>3, <1>4, <1>7, SegmentFacts
  <2>3. OneOwner' /\ Owned' = (held' \union Cached' \union Others(t)) \union ({NULL} \ {NULL})
    BY <1>1, <1>2, <2>1, <2>2, CallChanges
  <2>4. Owned' = Owned
    BY <1>1, <1>4, <1>7, <2>3
  <2> QED BY <1>1, <1>2, <2>3, <2>4 DEF Owners, Tiling
<1>9. RegisteredFor(slots, held)'
  <2>1. \A r \in held : Disjoint(s, r)
    BY <1>2, <1>4 DEF Tiling
  <2>2. RegisteredFor(slots, held) /\ held \in SUBSET Segments
    BY <1>4 DEF Exact
  <2>3. RegisteredFor(SetEntry(slots, s), held \union {s})
    BY <1>3, <2>1, <2>2, RegisteredSet
  <2> QED BY <1>1, <2>3 DEF RegisteredFor
<1> QED BY <1>7, <1>8, <1>9 DEF Exact

-----------------------------------------------------------------------------
(* remap, unmap and freeAll: the steps preserve the invariant *)

(* A segment in use goes to a call that had none, and out of the registry.  *)
LEMMA TakenFromUse ==
    ASSUME Exact, NEW t \in Threads, pc[t] = "idle", NEW s \in held,
           held' = held \ {s}, slots' = RemoveEntry(slots, s),
           seg' = [seg EXCEPT ![t] = s], mapped' = mapped, freeList' = freeList
    PROVE  Owners' /\ RegisteredFor(slots, held)'
<1>1. Shape /\ Locals /\ OneOwner /\ InCall(t) /\ Tiling(Owned, mapped)
  BY DEF Exact, Locals, Owners
<1>2. seg[t] = NULL
  BY <1>1 DEF InCall, WithSegment
<1>3. /\ held \subseteq Segments /\ Cached \subseteq Segments /\ Others(t) \subseteq Segments
      /\ Others(t) \cap (held \union Cached) = {}
      /\ Owned = held \union Cached \union Others(t)
  BY <1>1, <1>2, CallFacts
<1>4. s \in Segments /\ s # NULL
  BY <1>3, SegmentFacts
<1>5. Cached' = Cached
  BY DEF Cached
<1>6. Owners'
  <2>1. held' \cap Cached' = {} /\ Single(freeList)'
    BY <1>1, <1>5 DEF OneOwner, Single
  <2>2. (held' \union Cached') \cap Others(t) = {} /\ s \notin held' \union Cached' \union Others(t)
    BY <1>1, <1>3, <1>5 DEF OneOwner
  <2>3. OneOwner' /\ Owned' = (held' \union Cached' \union Others(t)) \union ({s} \ {NULL})
    BY <1>1, <1>4, <2>1, <2>2, CallChanges
  <2>4. Owned' = Owned
    BY <1>3, <1>4, <1>5, <2>3
  <2> QED BY <1>1, <2>3, <2>4 DEF Owners, Tiling
<1>7. RegisteredFor(slots, held)'
  <2>1. RegisteredFor(slots, held) /\ held \in SUBSET Segments
    BY <1>3 DEF Exact
  <2>2. RegisteredFor(RemoveEntry(slots, s), held \ {s})
    BY <2>1, RegisteredRemove
  <2> QED BY <2>2 DEF RegisteredFor
<1> QED BY <1>6, <1>7

LEMMA RemapBeginPreserves ==
    ASSUME Exact, NEW t \in Threads, RemapBegin(t)
    PROVE  Exact'
<1>1. PICK s \in held, size \in MapSizes :
        /\ held' = held \ {s} /\ slots' = RemoveEntry(slots, s)
        /\ seg' = [seg EXCEPT ![t] = s] /\ want' = [want EXCEPT ![t] = size]
  BY DEF RemapBegin
<1>2. /\ pc[t] = "idle" /\ pc' = [pc EXCEPT ![t] = "mremap"]
      /\ UNCHANGED <<keepResidut, mapped, freeList, currentSize, best, bestDelta>>
  BY DEF RemapBegin, Goto
<1>3. Shape /\ Locals /\ InCall(t)
  BY DEF Exact, Locals
<1>4. OneCall(t)
  BY <1>1, <1>2, <1>3 DEF OneCall, Shape, WithSize
<1>5. pc'[t] = "mremap" /\ InCall(t)'
  <2>1. seg'[t] = s /\ pc'[t] = "mremap" /\ want'[t] = size /\ best'[t] = NULL
    BY <1>1, <1>2, <1>3 DEF Shape, InCall
  <2>2. s \in Segments
    BY <1>3 DEF Shape
  <2> QED BY <1>2, <2>1, <2>2 DEF InCall, WithSegment, WithSize
<1>6. Shape' /\ Locals' /\ Counted'
  <2>1. held' \subseteq {r \in Segments : r.size \in MapSizes}
    BY <1>1, <1>3 DEF Shape
  <2> QED BY <1>2, <1>4, <1>5, <2>1, ListUntouched
<1>7. Owners' /\ RegisteredFor(slots, held)'
  BY <1>1, <1>2, TakenFromUse
<1> QED BY <1>6, <1>7 DEF Exact

LEMMA RemapMovePreserves ==
    ASSUME Exact, NEW t \in Threads, RemapMove(t)
    PROVE  Exact'
BY MovePreserves DEF RemapMove, Goto

(* The decision to keep a segment announces its size: whatever the others   *)
(* have announced, the cache and this segment alone are within the maximum. *)
LEMMA UnmapBeginPreserves ==
    ASSUME Exact, NEW t \in Threads, UnmapBegin(t)
    PROVE  Exact'
<1>1. PICK s \in held :
        /\ held' = held \ {s} /\ slots' = RemoveEntry(slots, s)
        /\ seg' = [seg EXCEPT ![t] = s]
        /\ pc' = [pc EXCEPT ![t] = IF Keeps(s.size, currentSize) THEN "keep" ELSE "munmap"]
  BY DEF UnmapBegin, Unregister, Goto
<1>2. /\ pc[t] = "idle"
      /\ UNCHANGED <<keepResidut, mapped, freeList, currentSize, want, best, bestDelta>>
  BY DEF UnmapBegin
<1>3. Shape /\ Locals /\ InCall(t)
  BY DEF Exact, Locals
<1>4. s \in Segments /\ s.size \in Nat
  BY <1>3, SegmentFacts DEF Shape
<1>5. OneCall(t)
  BY <1>1, <1>2, <1>3 DEF OneCall, Shape, WithSegment
<1>6. seg'[t] = s /\ want'[t] = 0 /\ best'[t] = NULL
  BY <1>1, <1>2, <1>3 DEF Shape, InCall, WithSize
<1>7. held' \subseteq {r \in Segments : r.size \in MapSizes}
  BY <1>1, <1>3 DEF Shape
<1>8. Owners' /\ RegisteredFor(slots, held)'
  BY <1>1, <1>2, TakenFromUse
<1>9. CASE Keeps(s.size, currentSize)
  <2>1. pc'[t] = "keep" /\ s.size <= Threshold /\ s.size + currentSize <= MaxSize
    BY <1>1, <1>3, <1>9 DEF Shape, Keeps
  <2>2. InCall(t)'
    BY <1>4, <1>6, <2>1 DEF InCall, WithSegment, WithSize
  <2>3. Cached' = Cached /\ freeList' \in Seq(Segments)
    BY <1>2, <1>3 DEF Cached, Shape
  <2>4. /\ Shape' /\ Locals'
        /\ \A u \in Threads : u # t => Awaited'[u] = Awaited[u]
        /\ Awaited'[t] \in 0 .. Threshold => Awaited' \in [Threads -> 0 .. Threshold]
    BY <1>3, <1>5, <1>7, <2>2, <2>3, LocalsKept
  <2>5. Counted'
    <3>1. Awaited'[t] = s.size /\ Awaited'[t] \in 0 .. Threshold
      BY <1>4, <1>6, <2>1, NothingAwaited, Constants
    <3>2. currentSize \in Nat /\ currentSize = SizeOf(freeList) /\ currentSize' = currentSize
      BY <1>2, SizeFacts
    <3>3. currentSize' + Awaited'[t] <= MaxSize
      BY <1>4, <2>1, <3>1, <3>2
    <3>4. currentSize' = SizeOf(freeList')
      BY <1>2, <3>2
    <3> QED BY <1>3, <2>4, <3>1, <3>2, <3>3, <3>4, CountedKept DEF Exact
  <2> QED BY <1>8, <2>4, <2>5 DEF Exact
<1>10. CASE ~ Keeps(s.size, currentSize)
  <2>1. pc'[t] = "munmap"
    BY <1>1, <1>3, <1>10 DEF Shape
  <2>2. InCall(t)'
    BY <1>4, <1>6, <2>1 DEF InCall, WithSegment, WithSize
  <2>3. Shape' /\ Locals' /\ Counted'
    BY <1>2, <1>5, <1>7, <2>1, <2>2, ListUntouched
  <2> QED BY <1>8, <2>3 DEF Exact
<1> QED BY <1>9, <1>10

(* The segment goes from the call to the list, with the size announced.     *)
LEMMA UnmapKeepPreserves ==
    ASSUME Exact, NEW t \in Threads, UnmapKeep(t)
    PROVE  Exact'
<1> DEFINE s == seg[t]
<1>1. /\ pc[t] = "keep" /\ freeList' = <<s>> \o freeList /\ currentSize' = currentSize + s.size
      /\ pc' = [pc EXCEPT ![t] = "idle"] /\ want' = [want EXCEPT ![t] = 0]
      /\ best' = [best EXCEPT ![t] = NULL] /\ bestDelta' = [bestDelta EXCEPT ![t] = 0]
      /\ seg' = [seg EXCEPT ![t] = NULL]
      /\ UNCHANGED <<keepResidut, mapped, slots, held>>
  BY DEF UnmapKeep, Finish, Goto
<1>2. Shape /\ Locals /\ OneOwner /\ InCall(t) /\ Tiling(Owned, mapped)
  BY DEF Exact, Locals, Owners
<1>3. s \in Segments /\ s.size \in Nat /\ s # NULL
  BY <1>1, <1>2, SegmentFacts DEF InCall, WithSegment
<1>4. /\ held \subseteq Segments /\ Cached \subseteq Segments /\ Others(t) \subseteq Segments
      /\ Others(t) \cap (held \union Cached) = {}
      /\ s \notin held \union Cached \union Others(t)
      /\ Owned = (held \union Cached \union Others(t)) \union {s}
  BY <1>2, <1>3, CallFacts
<1>5. Awaited[t] = s.size
  BY <1>1, NothingAwaited
<1> HIDE DEF s
<1>6. OneCall(t)
  BY <1>1, <1>2 DEF OneCall, Shape
<1>7. pc'[t] = "idle" /\ InCall(t)'
  <2>1. seg'[t] = NULL /\ pc'[t] = "idle" /\ want'[t] = 0 /\ best'[t] = NULL
    BY <1>1, <1>2 DEF Shape
  <2> QED BY <2>1 DEF InCall, WithSegment, WithSize
<1>8. /\ freeList' \in Seq(Segments) /\ Single(freeList)' /\ Cached' = Cached \union {s}
      /\ SizeOf(freeList') = SizeOf(freeList) + s.size /\ SizeOf(freeList) \in Nat
  <2>1. freeList \in Seq(Segments) /\ Single(freeList) /\ s \notin ToSet(freeList)
    BY <1>2, <1>4 DEF Shape, OneOwner, Cached
  <2> QED BY <1>1, <1>3, <2>1, PutFirstFacts DEF Cached, Single
<1>9. /\ Shape' /\ Locals'
      /\ \A u \in Threads : u # t => Awaited'[u] = Awaited[u]
      /\ Awaited'[t] \in 0 .. Threshold => Awaited' \in [Threads -> 0 .. Threshold]
  <2>1. held' \subseteq {r \in Segments : r.size \in MapSizes}
    BY <1>1, <1>2 DEF Shape
  <2> QED BY <1>2, <1>6, <1>7, <1>8, <2>1, LocalsKept
<1>10. Counted'
  <2>1. Awaited'[t] = 0 /\ Awaited' \in [Threads -> 0 .. Threshold]
    BY <1>7, <1>9, NothingAwaited, Constants
  <2>2. currentSize \in Nat /\ currentSize = SizeOf(freeList)
    BY SizeFacts
  <2>3. currentSize' \in Nat /\ currentSize' = SizeOf(freeList')
    BY <1>1, <1>3, <1>8, <2>2
  <2>4. currentSize' + Awaited'[t] <= currentSize + Awaited[t]
    BY <1>1, <1>3, <1>5, <2>1, <2>2
  <2> QED BY <1>2, <1>9, <2>1, <2>2, <2>3, <2>4, CountedKept DEF Exact
<1>11. Owners'
  <2>1. held' \cap Cached' = {}
    BY <1>1, <1>2, <1>4, <1>8 DEF OneOwner
  <2>2. (held' \union Cached') \cap Others(t) = {} /\ NULL \notin held' \union Cached' \union Others(t)
    BY <1>1, <1>3, <1>4, <1>8, SegmentFacts
  <2>3. OneOwner' /\ Owned' = (held' \union Cached' \union Others(t)) \union ({NULL} \ {NULL})
    BY <1>1, <1>2, <1>8, <2>1, <2>2, CallChanges
  <2>4. Owned' = Owned
    BY <1>1, <1>4, <1>8, <2>3
  <2> QED BY <1>1, <1>2, <2>3, <2>4 DEF Owners, Tiling
<1>12. RegisteredFor(slots, held)'
  BY <1>1 DEF Exact, RegisteredFor
<1> QED BY <1>9, <1>10, <1>11, <1>12 DEF Exact

LEMMA UnmapSystemPreserves ==
    ASSUME Exact, NEW t \in Threads, UnmapSystem(t)
    PROVE  Exact'
<1> DEFINE s == seg[t]
<1>1. /\ pc[t] = "munmap" /\ mapped' = mapped \ Pages(s)
      /\ pc' = [pc EXCEPT ![t] = "idle"] /\ want' = [want EXCEPT ![t] = 0]
      /\ best' = [best EXCEPT ![t] = NULL] /\ bestDelta' = [bestDelta EXCEPT ![t] = 0]
      /\ seg' = [seg EXCEPT ![t] = NULL]
      /\ UNCHANGED <<keepResidut, slots, held, freeList, currentSize>>
  BY DEF UnmapSystem, Finish, Goto
<1>2. Shape /\ Locals /\ OneOwner /\ InCall(t) /\ Tiling(Owned, mapped)
  BY DEF Exact, Locals, Owners
<1>3. s \in Segments /\ s # NULL
  BY <1>1, <1>2, SegmentFacts DEF InCall, WithSegment
<1>4. /\ held \subseteq Segments /\ Cached \subseteq Segments /\ Others(t) \subseteq Segments
      /\ Owned \subseteq Segments
      /\ Others(t) \cap (held \union Cached) = {}
      /\ s \notin held \union Cached \union Others(t)
      /\ Owned = (held \union Cached \union Others(t)) \union {s}
  BY <1>2, <1>3, CallFacts
<1> HIDE DEF s
<1>5. OneCall(t)
  BY <1>1, <1>2 DEF OneCall, Shape
<1>6. pc'[t] = "idle" /\ InCall(t)'
  <2>1. seg'[t] = NULL /\ pc'[t] = "idle" /\ want'[t] = 0 /\ best'[t] = NULL
    BY <1>1, <1>2 DEF Shape
  <2> QED BY <2>1 DEF InCall, WithSegment, WithSize
<1>7. Shape' /\ Locals' /\ Counted' /\ Cached' = Cached
  <2>1. held' \subseteq {r \in Segments : r.size \in MapSizes}
    BY <1>1, <1>2 DEF Shape
  <2> QED BY <1>1, <1>5, <1>6, <2>1, ListUntouched
<1>8. Owners'
  <2>1. held' \cap Cached' = {} /\ Single(freeList)'
    BY <1>1, <1>2, <1>7 DEF OneOwner, Single
  <2>2. (held' \union Cached') \cap Others(t) = {} /\ NULL \notin held' \union Cached' \union Others(t)
    BY <1>1, <1>4, <1>7, SegmentFacts
  <2>3. OneOwner' /\ Owned' = (held' \union Cached' \union Others(t)) \union ({NULL} \ {NULL})
    BY <1>1, <1>2, <2>1, <2>2, CallChanges
  <2>4. Owned' = Owned \ {s}
    BY <1>1, <1>4, <1>7, <2>3
  <2>5. Tiling(Owned \ {s}, mapped \ Pages(s))
    <3>1. Owned \in SUBSET Segments /\ {s} \in SUBSET Owned /\ UNION {Pages(r) : r \in {s}} = Pages(s)
      BY <1>4
    <3> QED BY <1>2, <3>1, TilingRemove
  <2> QED BY <1>1, <2>3, <2>4, <2>5 DEF Owners, Tiling
<1>9. RegisteredFor(slots, held)'
  BY <1>1 DEF Exact, RegisteredFor
<1> QED BY <1>7, <1>8, <1>9 DEF Exact

(* All that is in the list goes back to the system. *)
LEMMA FreeAllDestroys ==
    ASSUME Exact, FreeAll
    PROVE  Destroyed'
<1>1. /\ \A t \in Threads : pc[t] = "idle"
      /\ currentSize' = currentSize - SizeOf(freeList)
      /\ mapped' = mapped \ UNION {Pages(s) : s \in Cached}
      /\ UNCHANGED <<keepResidut, slots, held, freeList, pc, want, best, bestDelta, seg>>
  BY DEF FreeAll, locals, Cached
<1>2. Shape /\ Locals /\ OneOwner /\ Tiling(Owned, mapped)
  BY DEF Exact, Owners
<1>3. Shape'
  BY <1>1, <1>2 DEF Shape
<1>4. Locals' /\ \A t \in Threads : pc'[t] = "idle"
  BY <1>1, <1>2 DEF Locals, InCall, WithSegment, WithSize
<1>5. currentSize' = 0
  <2>1. currentSize \in Nat /\ currentSize = SizeOf(freeList)
    BY SizeFacts
  <2> QED BY <1>1, <2>1
<1>6. Tiling(held, mapped)'
  <2>1. \A t \in Threads : seg[t] = NULL
    BY <1>1, <1>2 DEF Locals, InCall, WithSegment
  <2>2. Working = {} /\ Calls = {}
    BY <2>1 DEF Working, Calls
  <2>3. Owned = held \union Cached
    BY <2>2 DEF Owned
  <2>4. held \cap Cached = {} /\ Owned \in SUBSET Segments /\ Cached \in SUBSET Owned
    <3>1. PICK t \in Threads : TRUE
      BY Constants
    <3> QED BY <1>2, <2>3, CallFacts DEF OneOwner
  <2>5. Tiling(Owned \ Cached, mapped')
    BY <1>1, <1>2, <2>4, TilingRemove
  <2>6. Owned \ Cached = held'
    BY <1>1, <2>3, <2>4
  <2> QED BY <2>5, <2>6 DEF Tiling
<1>7. RegisteredFor(slots, held)'
  BY <1>1 DEF Exact, RegisteredFor
<1> QED BY <1>3, <1>4, <1>5, <1>6, <1>7 DEF Destroyed

-----------------------------------------------------------------------------
(* The theorems *)

(* What the invariant says of the types. *)
LEMMA Typed ==
    /\ Shape /\ Locals /\ RegisteredFor(slots, held)
    /\ mapped \subseteq 0 .. Top - 1 /\ currentSize \in Int
    => TypeOK
<1> SUFFICES ASSUME Shape, Locals, RegisteredFor(slots, held),
                    mapped \subseteq 0 .. Top - 1, currentSize \in Int
             PROVE  TypeOK
  OBVIOUS
<1>1. held \subseteq {s \in Segments : s.size \in MapSizes} /\ Cached \subseteq Segments
  BY DEF Shape, Cached, ToSet
<1>2. slots \in [DOMAIN slots -> Segments \union {NULL}]
  BY <1>1 DEF RegisteredFor
<1>3. ASSUME NEW t \in Threads
      PROVE  /\ seg[t] \in Segments \union {NULL}
             /\ seg[t] # NULL <=> pc[t] \in {"fix", "register", "mremap", "keep", "munmap"}
             /\ best[t] # NULL <=> pc[t] = "search"
             /\ want[t] \in MapSizes \union {0}
  <2>1. InCall(t)
    BY DEF Locals
  <2>2. \A s \in Segments : s # NULL
    BY SegmentFacts
  <2> QED BY <2>1, <2>2 DEF InCall, WithSegment
<1> QED BY <1>1, <1>2, <1>3 DEF TypeOK, Cached

LEMMA ExactTyped ==
    ASSUME Exact
    PROVE  TypeOK
<1>1. PICK u \in Threads : TRUE
  BY Constants
<1>2. Shape /\ Locals /\ OneOwner /\ Tiling(Owned, mapped) /\ RegisteredFor(slots, held)
  BY DEF Exact, Owners
<1>3. Owned \subseteq Segments
  BY <1>1, <1>2, CallFacts
<1>4. mapped \subseteq 0 .. Top - 1
  BY <1>2, <1>3, PagesFacts DEF Tiling
<1>5. currentSize \in Int
  BY SizeFacts
<1> QED BY <1>2, <1>4, <1>5, Typed

(* A search that uses a segment gone since it was seen ends what is said.   *)
LEMMA StaleTyped ==
    ASSUME Exact, NEW t \in Threads, Search(t)
    PROVE  TypeOK'
<1> DEFINE found == Closest(freeList, best[t], bestDelta[t], want[t])
           s == Present(freeList, found.seg)
<1>1. s \in Segments /\ s # NULL /\ s.size \in Int
  BY SearchTakes, SegmentFacts
<1>2. /\ pc[t] = "search" /\ pc' = [pc EXCEPT ![t] = IF found.delta # 0 THEN "fix" ELSE "register"]
      /\ freeList' = Unlink(freeList, s) /\ currentSize' = currentSize - s.size
      /\ seg' = [seg EXCEPT ![t] = s] /\ best' = [best EXCEPT ![t] = NULL]
      /\ UNCHANGED <<mapped, slots, held, want>>
  BY DEF Search, Goto
<1> HIDE DEF found, s
<1>3. Shape /\ TypeOK /\ freeList \in Seq(Segments) /\ Single(freeList)
  BY ExactTyped DEF Exact, Shape, Owners, OneOwner
<1>4. ToSet(freeList') \subseteq Segments
  <2>1. CASE s \in ToSet(freeList)
    <3>1. ToSet(Unlink(freeList, s)) = ToSet(freeList) \ {s}
      BY <1>3, <2>1, UnlinkFacts
    <3> QED BY <1>2, <1>3, <3>1 DEF TypeOK
  <2>2. CASE s \notin ToSet(freeList)
    BY <1>2, <1>3, <2>2 DEF Unlink, TypeOK
  <2> QED BY <2>1, <2>2
<1>5. (mapped \subseteq 0 .. Top - 1 /\ currentSize \in Int)'
  BY <1>1, <1>2, <1>3 DEF TypeOK
<1>6. (/\ slots \in [DOMAIN slots -> Segments \union {NULL}]
       /\ held \subseteq {r \in Segments : r.size \in MapSizes})'
  BY <1>2, <1>3 DEF TypeOK
<1>7. ASSUME NEW u \in Threads
      PROVE  (/\ seg[u] \in Segments \union {NULL}
              /\ seg[u] # NULL <=> pc[u] \in {"fix", "register", "mremap", "keep", "munmap"}
              /\ best[u] # NULL <=> pc[u] = "search"
              /\ want[u] \in MapSizes \union {0})'
  <2>1. CASE u = t
    <3>1. seg'[t] = s /\ best'[t] = NULL /\ pc'[t] \in {"fix", "register"} /\ want'[t] = want[t]
      BY <1>2, <1>3 DEF Shape
    <3> QED BY <1>1, <1>3, <2>1, <3>1 DEF TypeOK
  <2>2. CASE u # t
    <3>1. seg'[u] = seg[u] /\ best'[u] = best[u] /\ pc'[u] = pc[u] /\ want'[u] = want[u]
      BY <1>2, <1>3, <2>2 DEF Shape
    <3> QED BY <1>3, <3>1 DEF TypeOK
  <2> QED BY <2>1, <2>2
<1> QED BY <1>4, <1>5, <1>6, <1>7 DEF TypeOK

(* The invariant holds in every reachable state. *)
THEOREM Invariant == Spec => []IInv
<1>1. Init => IInv
  <2>1. Init => ~ stale /\ ~ over
    BY DEF Init
  <2> QED BY <2>1, InitHolds DEF IInv
<1>2. IInv /\ [Next]_vars => IInv'
  <2> SUFFICES ASSUME IInv, [Next]_vars PROVE IInv'
    OBVIOUS
  <2>1. CASE UNCHANGED vars
    <3>1. UNCHANGED <<mapped, slots, held, keepResidut, freeList, currentSize, pc,
                      want, best, bestDelta, seg, stale, over>>
      BY <2>1 DEF vars, locals
    <3>2. Cached' = Cached /\ Working' = Working
      BY <3>1 DEF Cached, Working
    <3>3. Calls' = Calls /\ Awaited' = Awaited
      BY <3>1, <3>2 DEF Calls, Awaited, KeepsRest
    <3>4. Shape' = Shape /\ Locals' = Locals /\ RegisteredFor(slots, held)' = RegisteredFor(slots, held)
      BY <3>1, <3>2 DEF Shape, Locals, InCall, RegisteredFor
    <3>5. Owners' = Owners /\ Counted' = Counted
      BY <3>1, <3>2, <3>3 DEF Owners, Owned, Tiling, OneOwner, Single, Counted, Bound, Total, Tiles
    <3>6. Exact' = Exact
      BY <3>4, <3>5 DEF Exact
    <3>7. Destroyed' = Destroyed
      BY <3>1, <3>4 DEF Destroyed, Tiling
    <3>8. TypeOK' = TypeOK
      BY <3>1 DEF TypeOK
    <3> QED BY <3>1, <3>6, <3>7, <3>8 DEF IInv
  <2>2. CASE Next
    <3>1. ~ stale /\ ~ over /\ Exact
      BY <2>2 DEF Next, IInv
    <3>2. CASE FreeAll
      <4>1. ~ stale' /\ over'
        BY <3>1, <3>2 DEF FreeAll
      <4> QED BY <3>1, <3>2, <4>1, FreeAllDestroys DEF IInv
    <3>3. ASSUME NEW t \in Threads, Search(t), over' = over PROVE IInv'
      <4>1. stale' \in BOOLEAN
        BY <3>3 DEF Search
      <4> QED BY <3>1, <3>3, <4>1, SearchPreserves, StaleTyped DEF IInv
    <3>4. ASSUME NEW t \in Threads, stale' = stale, over' = over,
                 \/ MapBegin(t) \/ FixMove(t) \/ FixSplit(t) \/ MapSystem(t) \/ Register(t)
                 \/ RemapBegin(t) \/ RemapMove(t)
                 \/ UnmapBegin(t) \/ UnmapKeep(t) \/ UnmapSystem(t)
          PROVE  IInv'
      <4>1. Exact'
        BY <3>1, <3>4, MapBeginPreserves, FixMovePreserves, FixSplitPreserves,
           MapSystemPreserves, RegisterPreserves, RemapBeginPreserves, RemapMovePreserves,
           UnmapBeginPreserves, UnmapKeepPreserves, UnmapSystemPreserves
      <4> QED BY <3>1, <3>4, <4>1 DEF IInv
    <3> QED BY <2>2, <3>2, <3>3, <3>4 DEF Next, Step
  <2> QED BY <2>1, <2>2
<1> QED BY <1>1, <1>2, PTL DEF Spec

(* Two segments owned that share a page are one. *)
LEMMA PageOfOne ==
    ASSUME Exact, NEW s \in Owned, NEW r \in Owned, NEW p, p \in Pages(s), p \in Pages(r)
    PROVE  s = r
<1>1. PICK t \in Threads : TRUE
  BY Constants
<1>2. Owned \subseteq Segments /\ Tiling(Owned, mapped)
  BY <1>1, CallFacts DEF Exact, Owners
<1> QED BY <1>2, PagesFacts DEF Tiling

(* Each page mapped has its owner in use, in the cache or in a call. *)
LEMMA PageOwners ==
    ASSUME Exact, NEW p \in 0 .. Top - 1
    PROVE  Cardinality({s \in held : p \in Pages(s)})
               + Cardinality({i \in DOMAIN freeList : p \in Pages(freeList[i])})
               + Cardinality({t \in Working : p \in Pages(seg[t])})
             = IF p \in mapped THEN 1 ELSE 0
<1> DEFINE A == {s \in held : p \in Pages(s)}
           B == {i \in DOMAIN freeList : p \in Pages(freeList[i])}
           C == {t \in Working : p \in Pages(seg[t])}
<1> SUFFICES Cardinality(A) + Cardinality(B) + Cardinality(C) = IF p \in mapped THEN 1 ELSE 0
  OBVIOUS
<1>1. OneOwner /\ Tiling(Owned, mapped)
  BY DEF Exact, Owners
<1>2. /\ held \subseteq Owned
      /\ \A i \in DOMAIN freeList : freeList[i] \in Cached /\ freeList[i] \in Owned
      /\ \A t \in Working : seg[t] \in Owned /\ seg[t] \notin held \union Cached
  BY <1>1 DEF Owned, Cached, Calls, ToSet, OneOwner
<1>3. /\ Cardinality({}) = 0 /\ \A x : Cardinality({x}) = 1
  BY FS_EmptySet, FS_Singleton
<1>4. CASE p \notin mapped
  <2>1. \A s \in Owned : p \notin Pages(s)
    BY <1>1, <1>4 DEF Tiling
  <2>2. A = {} /\ B = {} /\ C = {}
    BY <1>2, <2>1
  <2> HIDE DEF A, B, C
  <2> QED BY <1>3, <1>4, <2>2
<1>5. CASE p \in mapped
  <2>1. PICK o \in Owned : p \in Pages(o)
    BY <1>1, <1>5 DEF Tiling
  <2>2. \A s \in Owned : p \in Pages(s) => s = o
    BY <2>1, PageOfOne
  <2>3. CASE o \in held
    <3>1. o \notin Cached
      BY <1>1, <2>3 DEF OneOwner
    <3>2. A = {o} /\ B = {} /\ C = {}
      BY <1>2, <2>1, <2>2, <2>3, <3>1
    <3> HIDE DEF A, B, C
    <3>3. Cardinality(A) = 1 /\ Cardinality(B) = 0 /\ Cardinality(C) = 0
      BY <1>3, <3>2
    <3> QED BY <1>5, <3>3
  <2>4. CASE o \in Cached
    <3>1. o \notin held
      BY <1>1, <2>4 DEF OneOwner
    <3>2. PICK i \in DOMAIN freeList : freeList[i] = o
      BY <2>4 DEF Cached, ToSet
    <3>3. \A j \in DOMAIN freeList : freeList[j] = o => j = i
      BY <1>1, <3>2 DEF OneOwner, Single
    <3>4. A = {} /\ B = {i} /\ C = {}
      BY <1>2, <2>1, <2>2, <2>4, <3>1, <3>2, <3>3
    <3> HIDE DEF A, B, C
    <3>5. Cardinality(A) = 0 /\ Cardinality(B) = 1 /\ Cardinality(C) = 0
      BY <1>3, <3>4
    <3> QED BY <1>5, <3>5
  <2>5. CASE o \in Calls
    <3>1. PICK t \in Working : seg[t] = o
      BY <2>5 DEF Calls
    <3>2. o \notin held /\ o \notin Cached
      BY <1>2, <3>1
    <3>3. \A u \in Working : seg[u] = o => u = t
      BY <1>1, <3>1 DEF OneOwner
    <3>4. A = {} /\ B = {} /\ C = {t}
      BY <1>2, <2>1, <2>2, <3>1, <3>2, <3>3
    <3> HIDE DEF A, B, C
    <3>5. Cardinality(A) = 0 /\ Cardinality(B) = 0 /\ Cardinality(C) = 1
      BY <1>3, <3>4
    <3> QED BY <1>5, <3>5
  <2> QED BY <2>1, <2>3, <2>4, <2>5 DEF Owned
<1> QED BY <1>4, <1>5

(* Whatever is cut, moved, cached and given back in the middle of the calls *)
(* of the others, no page that the system gave is lost and none has two     *)
(* owners, and freeAll gives back the pages of the cache and no others; as  *)
(* long as no search used a segment gone from the list since it was seen.   *)
THEOREM PagesAreOwnedOnce == Spec => []PagesExact
<1>1. ASSUME Exact, ~ over PROVE PagesOwnedOnce
  BY <1>1, PageOwners DEF PagesOwnedOnce
<1>2. ASSUME Destroyed PROVE TypeOK
  <2>1. held \subseteq Segments
    BY <1>2 DEF Destroyed, Shape
  <2>2. mapped \subseteq 0 .. Top - 1
    BY <1>2, <2>1, PagesFacts DEF Destroyed, Tiling
  <2> QED BY <1>2, <2>2, Typed DEF Destroyed
<1>3. ASSUME Destroyed, over PROVE PagesOwnedOnce
  <2>1. held \subseteq Segments /\ Tiling(held, mapped) /\ Working = {}
    BY <1>3, SegmentFacts DEF Destroyed, Shape, Working, Locals, InCall, WithSegment
  <2>2. ASSUME NEW p \in 0 .. Top - 1
        PROVE  Cardinality({s \in held : p \in Pages(s)})
                 + Cardinality({i \in {} : p \in Pages(freeList[i])})
                 + Cardinality({t \in Working : p \in Pages(seg[t])})
               = IF p \in mapped THEN 1 ELSE 0
    <3> DEFINE A == {s \in held : p \in Pages(s)}
    <3>1. {i \in {} : p \in Pages(freeList[i])} = {} /\ {t \in Working : p \in Pages(seg[t])} = {}
      BY <2>1
    <3>2. Cardinality({}) = 0 /\ \A x : Cardinality({x}) = 1
      BY FS_EmptySet, FS_Singleton
    <3>3. Cardinality(A) = IF p \in mapped THEN 1 ELSE 0
      <4>1. CASE p \notin mapped
        <5>1. A = {}
          BY <2>1, <4>1 DEF Tiling
        <5> HIDE DEF A
        <5> QED BY <3>2, <4>1, <5>1
      <4>2. CASE p \in mapped
        <5>1. PICK o \in held : p \in Pages(o)
          BY <2>1, <4>2 DEF Tiling
        <5>2. \A s \in held : p \in Pages(s) => s = o
          BY <2>1, <5>1, PagesFacts DEF Tiling
        <5>3. A = {o}
          BY <5>1, <5>2
        <5> HIDE DEF A
        <5> QED BY <3>2, <4>2, <5>3
      <4> QED BY <4>1, <4>2
    <3>4. Cardinality(A) \in Int
      BY <3>3
    <3> HIDE DEF A
    <3>5. Cardinality(A) + 0 + 0 = IF p \in mapped THEN 1 ELSE 0
      BY <3>3, <3>4
    <3> QED BY <3>1, <3>2, <3>5 DEF A
  <2> QED BY <1>3, <2>2 DEF PagesOwnedOnce
<1>4. IInv => PagesExact
  BY <1>1, <1>2, <1>3, ExactTyped DEF IInv, PagesExact
<1> QED BY <1>4, Invariant, PTL

(* The size the code keeps is that of the list, so that freeAll brings it   *)
(* to zero; and although unmap tests it before it takes the lock, it stays  *)
(* below the maximum and one segment of each other thread.                  *)
THEOREM CacheIsExact == Spec => []CacheExact
<1>1. ASSUME Exact, ~ over PROVE CacheExact
  <2>1. Awaited \in [Threads -> 0 .. Threshold]
    BY <1>1, AwaitedFacts DEF Exact
  <2>2. DOMAIN Awaited = Threads /\ \A u \in Threads : Awaited[u] \in Nat /\ Awaited[u] <= Threshold
    BY <2>1, Constants
  <2>3. Total(Awaited) \in Nat
    BY <2>2, Constants, TilesBounded
  <2>4. currentSize \in Nat /\ currentSize = SizeOf(freeList)
    BY <1>1, SizeFacts
  <2>5. Bound \in Int
    <3>1. Cardinality(Threads) \in Nat
      BY Constants, FS_CardinalityType
    <3> QED BY <3>1, Constants DEF Bound
  <2>6. currentSize + Total(Awaited) <= Bound
    BY <1>1 DEF Exact, Counted
  <2>7. currentSize <= Bound
    BY <2>3, <2>4, <2>5, <2>6
  <2> QED BY <1>1, <2>4, <2>7 DEF CacheExact, CacheSizeExact, CacheBounded, Bound
<1>2. ASSUME Destroyed, over PROVE CacheExact
  <2>1. currentSize = 0
    BY <1>2 DEF Destroyed
  <2>2. 0 <= MaxSize + (Cardinality(Threads) - 1) * Threshold
    <3>1. Cardinality(Threads) \in Nat /\ Cardinality(Threads) # 0
      BY Constants, FS_CardinalityType, FS_EmptySet
    <3>2. (Cardinality(Threads) - 1) * Threshold \in Nat
      BY <3>1, Constants
    <3> QED BY <3>2, Constants
  <2> QED BY <1>2, <2>1, <2>2 DEF CacheExact, CacheSizeExact, CacheBounded
<1>3. IInv => CacheExact
  BY <1>1, <1>2 DEF IInv, CacheExact
<1> QED BY <1>3, Invariant, PTL

(* Whatever the cache held, and whatever other calls took from it between   *)
(* the look at its first segment and the lock, map and remap hand out a     *)
(* segment of the size that was asked.                                      *)
THEOREM SizeIsAsAsked == Spec => []ServesAsAsked
<1>1. ASSUME Locals PROVE SizeAsAsked
  BY <1>1 DEF Locals, InCall, SizeAsAsked
<1>2. IInv => ServesAsAsked
  BY <1>1 DEF IInv, Exact, Destroyed, ServesAsAsked
<1> QED BY <1>2, Invariant, PTL

(* getSegment on a table that has the slots of the segment of the address,  *)
(* and no slot of a segment that is not in use.                             *)
LEMMA LookUp ==
    ASSUME Shape, RegisteredFor(slots, held), \A r, o \in held : r = o \/ Disjoint(r, o),
           NEW s \in held, NEW a \in Nat, Contain(s, a)
    PROVE  GetSegment(slots, a) = s
<1> DEFINE p    == a \div Split
           last == (p + 1) * Split - 1
           near == Entry(slots, a)
<1>1. Shape /\ RegisteredFor(slots, held) /\ \A r, o \in held : r = o \/ Disjoint(r, o)
  OBVIOUS
<1>2. s \in Segments /\ s.size >= Split
  BY <1>1, Constants DEF Shape
<1>3. /\ s.start \in Nat /\ s.size \in Nat /\ End(s) = s.start + s.size
      /\ s.start <= a /\ a < s.start + s.size /\ s # NULL
  BY <1>2, SegmentFacts DEF Contain
<1>4. /\ p \in Nat /\ last \in Int /\ a <= last
      /\ ~ last < s.start + s.size =>
           /\ p - 1 \in Nat
           /\ s.start <= ((p - 1) + 1) * Split - 1
           /\ ((p - 1) + 1) * Split - 1 < s.start + s.size
           /\ (a - Split) \div Split = p - 1
  BY <1>2, <1>3, SlotOrPrevious, Constants
<1>5. SlotOf(a) = p /\ SlotOf(a - Split) = (a - Split) \div Split
      /\ LastPage(p) = last /\ LastPage(p - 1) = ((p - 1) + 1) * Split - 1
  BY DEF SlotOf, LastPage
<1>6. \A i \in Nat : Owns(s, i) => i \in DOMAIN slots /\ slots[i] = s
  BY <1>1 DEF RegisteredFor
<1>7. \A i \in Nat : Owns(s, i) <=> s.start <= LastPage(i) /\ LastPage(i) < End(s)
  BY <1>2, OwnsFacts
<1> HIDE DEF p, last
<1>8. CASE last < s.start + s.size
  <2>1. Owns(s, p)
    BY <1>8, <1>3, <1>4, <1>5, <1>7
  <2>2. near = s
    BY <2>1, <1>4, <1>5, <1>6 DEF Entry
  <2>3. ~ UsePrevious(near, a)
    BY <2>2, <1>3 DEF UsePrevious
  <2>4. Found(near, a) = s
    BY <2>2, <1>3 DEF Found
  <2> QED BY <2>3, <2>4 DEF GetSegment
<1>9. CASE ~ last < s.start + s.size
  <2>1. p - 1 \in Nat /\ Owns(s, p - 1) /\ SlotOf(a - Split) = p - 1
    BY <1>9, <1>3, <1>4, <1>5, <1>7
  <2>2. Entry(slots, a - Split) = s
    BY <2>1, <1>6 DEF Entry
  <2>3. UsePrevious(near, a)
    <3> SUFFICES ASSUME near # NULL PROVE near.start > a
      BY DEF UsePrevious
    <3>1. p \in DOMAIN slots /\ near = slots[p]
      BY <1>5 DEF Entry
    <3>2. near \in held /\ Owns(near, p)
      BY <3>1, <1>1 DEF RegisteredFor
    <3> HIDE DEF near
    <3>3. near \in Segments /\ near.start \in Nat /\ End(near) \in Nat
      BY <3>2, <1>1, SegmentFacts DEF Shape
    <3>4. near.start <= last /\ last < End(near)
      BY <3>2, <3>3, <1>4, <1>5, OwnsFacts
    <3>5. near # s
      BY <3>4, <1>3, <1>9
    <3>6. Disjoint(near, s)
      BY <3>2, <3>5, <1>1
    <3> QED BY <3>3, <3>4, <3>6, <1>3, <1>4, <1>9 DEF Disjoint
  <2>4. Found(s, a) = s
    BY <1>3 DEF Found
  <2> QED BY <2>2, <2>3, <2>4 DEF GetSegment
<1> QED BY <1>8, <1>9

(* Between the calls and in the middle of them, the registry finds the      *)
(* segments in use and nothing else, and setEntry finds empty the entries   *)
(* it writes; as long as no segment was taken by two calls.                 *)
THEOREM RegistryIsFollowed == Spec => []RegistryFollows
<1>1. ASSUME Shape, RegisteredFor(slots, held), \A r, o \in held : r = o \/ Disjoint(r, o),
             NEW a \in 0 .. Top - 1
      PROVE  LET owner == {s \in held : Contain(s, a)}
             IN  IF owner = {} THEN GetSegment(slots, a) = NULL
                               ELSE GetSegment(slots, a) \in owner
  <2> DEFINE owner == {s \in held : Contain(s, a)}
  <2>1. a \in Nat
    BY Constants
  <2>2. CASE owner = {}
    <3>1. \A i : Entry(slots, i) \in held \union {NULL}
      BY <1>1 DEF RegisteredFor, Entry
    <3>2. \A r : r \in held => ~ Contain(r, a)
      BY <2>2
    <3>3. \A e \in held \union {NULL} : Found(e, a) = NULL
      BY <3>2 DEF Found
    <3>4. GetSegment(slots, a) = NULL
      BY <3>1, <3>3 DEF GetSegment
    <3> QED BY <2>2, <3>4
  <2>3. CASE owner # {}
    <3>1. PICK s \in held : Contain(s, a)
      BY <2>3
    <3>2. GetSegment(slots, a) = s
      BY <1>1, <2>1, <3>1, LookUp
    <3> QED BY <2>3, <3>1, <3>2
  <2> QED BY <2>2, <2>3
<1>2. ASSUME Exact, NEW t \in Threads, pc[t] = "register", NEW k \in TurnsOf(SetAgain, seg[t])
      PROVE  Entry(slots, seg[t].start + k * Split) = NULL
  <2> DEFINE s == seg[t]
             i == TurnSlot(s, k)
  <2>1. Shape /\ Locals /\ OneOwner /\ Tiling(Owned, mapped) /\ RegisteredFor(slots, held)
    BY <1>2 DEF Exact, Owners
  <2>2. s \in Segments /\ s # NULL
    BY <1>2, <2>1, SegmentFacts DEF Locals, InCall, WithSegment
  <2>3. held \subseteq Segments /\ s \notin held /\ s \in Owned /\ held \subseteq Owned
    BY <2>1, <2>2, CallFacts DEF Owned
  <2>4. k \in Nat /\ SetAgain(s, k)
    <3>1. k \in 0 .. s.size \div Split /\ SetAgain(s, k)
      BY <1>2 DEF TurnsOf
    <3> QED BY <3>1
  <2>5. i \in Nat /\ Owns(s, i)
    BY <2>2, <2>4, TurnFacts
  <2>6. SlotOf(s.start + k * Split) = i
    BY DEF TurnSlot
  <2> HIDE DEF s, i
  <2>7. ASSUME i \in DOMAIN slots, slots[i] # NULL PROVE FALSE
    <3>1. slots[i] \in held /\ Owns(slots[i], i)
      BY <2>1, <2>7 DEF RegisteredFor
    <3>2. Disjoint(s, slots[i])
      BY <2>1, <2>3, <3>1 DEF Tiling
    <3> QED BY <2>2, <2>3, <2>5, <3>1, <3>2, OwnsOne
  <2>8. Entry(slots, s.start + k * Split) = NULL
    BY <2>6, <2>7 DEF Entry
  <2> QED BY <2>8 DEF s
<1>3. ASSUME Exact PROVE RegistryExact /\ EntriesFree
  <2>1. Shape /\ RegisteredFor(slots, held) /\ \A r, o \in held : r = o \/ Disjoint(r, o)
    BY <1>3 DEF Exact, Owners, Tiling, Owned
  <2>2. RegistryExact
    BY <1>1, <2>1 DEF RegistryExact
  <2> QED BY <1>2, <1>3, <2>2 DEF EntriesFree
<1>4. ASSUME Destroyed PROVE RegistryExact /\ EntriesFree
  <2>1. Shape /\ RegisteredFor(slots, held) /\ \A r, o \in held : r = o \/ Disjoint(r, o)
    BY <1>4 DEF Destroyed, Tiling
  <2>2. RegistryExact
    BY <1>1, <2>1 DEF RegistryExact
  <2>3. EntriesFree
    BY <1>4 DEF Destroyed, EntriesFree
  <2> QED BY <2>2, <2>3
<1>5. IInv => RegistryFollows
  BY <1>3, <1>4 DEF IInv, RegistryFollows
<1> QED BY <1>5, Invariant, PTL
=============================================================================
