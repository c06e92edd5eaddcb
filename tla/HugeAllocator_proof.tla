------------------------- MODULE HugeAllocator_proof -------------------------
(***************************************************************************)
(* For every number of threads and every size of pages, slots, regions,    *)
(* headers and requests: the huge allocator gives each block a segment of  *)
(* its own, the registry finds it, and blocks in use never overlap, as     *)
(* long as realloc is not called on aligned blocks.                        *)
(***************************************************************************)
EXTENDS HugeAllocator, FiniteSetTheorems, TLAPS

-----------------------------------------------------------------------------
(* Numbers, and the division by a constant *)

(* Multiples of n keep their order, and are n apart. *)
LEMMA MultiplesApart ==
    ASSUME NEW n \in Nat \ {0}, NEW i \in Int, NEW j \in Int
    PROVE  /\ i * n \in Int
           /\ (i + 1) * n = i * n + n
           /\ (i + j) * n = i * n + j * n
           /\ i < j <=> i * n < j * n
           /\ i < j => i * n + n <= j * n
OBVIOUS

(* What the quotient is. *)
LEMMA Quotient ==
    ASSUME NEW n \in Nat \ {0}, NEW a \in Nat
    PROVE  /\ a \div n \in Nat
           /\ (a \div n) * n <= a
           /\ a < (a \div n) * n + n
OBVIOUS

(* Nothing else is. *)
LEMMA QuotientUnique ==
    ASSUME NEW n \in Nat \ {0}, NEW a \in Nat, NEW q \in Int,
           q * n <= a, a < q * n + n
    PROVE  a \div n = q
OBVIOUS

(* A multiple has no remainder. *)
LEMMA RemainderOfMultiple ==
    ASSUME NEW n \in Nat \ {0}, NEW q \in Nat
    PROVE  (q * n) % n = 0
<1> DEFINE a == q * n
<1>1. a \in Nat /\ q * n <= a /\ a < q * n + n
  OBVIOUS
<1>2. a = (a \div n) * n + (a % n)
  <2> HIDE DEF a
  <2> QED BY <1>1
<1>3. a \div n = q
  <2>1. q \in Int
    OBVIOUS
  <2> HIDE DEF a
  <2> QED BY <1>1, <2>1, QuotientUnique
<1>4. a % n \in Nat
  BY <1>1
<1> QED BY <1>1, <1>2, <1>3, <1>4

(* Memory is cut in slots of n bytes: the slots whose last byte an area     *)
(* start .. start + size - 1 holds.                                         *)
LEMMA SlotFromStart ==
    ASSUME NEW n \in Nat \ {0}, NEW start \in Nat, NEW i \in Nat,
           start <= (i + 1) * n - 1
    PROVE  start \div n \in Nat /\ start \div n <= i
<1> DEFINE q == start \div n
<1>1. q \in Nat /\ q * n <= start /\ (i + 1) * n \in Int
  BY Quotient, MultiplesApart
<1>2. q * n < (i + 1) * n
  BY <1>1, MultiplesApart
<1> HIDE DEF q
<1>3. q < i + 1
  BY <1>1, <1>2, MultiplesApart
<1> QED BY <1>1, <1>3 DEF q

LEMMA SlotAfterTurns ==
    ASSUME NEW n \in Nat \ {0}, NEW start \in Nat, NEW k \in Nat
    PROVE  /\ start \div n \in Nat /\ k * n \in Nat
           /\ (start + k * n) \div n = (start \div n) + k
<1> DEFINE q == start \div n
           a == start + k * n
<1>1. q \in Nat /\ q * n <= start /\ start < q * n + n
  BY Quotient
<1>2. k * n \in Nat /\ a \in Nat
  OBVIOUS
<1> HIDE DEF q
<1>3. (q + k) * n = q * n + k * n /\ q * n \in Int /\ q + k \in Int
  BY <1>1, MultiplesApart
<1>4. (q + k) * n <= a /\ a < (q + k) * n + n
  BY <1>1, <1>2, <1>3
<1> HIDE DEF a
<1>5. a \div n = q + k
  BY <1>2, <1>3, <1>4, QuotientUnique
<1> QED BY <1>1, <1>2, <1>5 DEF q, a

(* Up to the last multiple of n in the area: its slots, no more, no fewer. *)
LEMMA SlotsToTheEnd ==
    ASSUME NEW n \in Nat \ {0}, NEW start \in Nat, NEW end \in Nat, NEW k \in Nat
    PROVE  LET last == ((start \div n) + k + 1) * n - 1
           IN  start + k * n < (end \div n) * n <=> start <= last /\ last < end
<1> DEFINE q == start \div n
           e == end \div n
           i == q + k
<1>1. q \in Nat /\ q * n <= start /\ start < q * n + n
  BY Quotient
<1>2. e \in Nat /\ e * n <= end /\ end < e * n + n
  BY Quotient
<1> HIDE DEF q, e
<1>3. /\ i \in Nat /\ k * n \in Int /\ q * n \in Int /\ e * n \in Int
      /\ i * n = q * n + k * n
      /\ (i + 1) * n = i * n + n
      /\ 0 <= k * n
  BY <1>1, <1>2, MultiplesApart
<1>4. i < e <=> i * n < e * n
  BY <1>2, <1>3, MultiplesApart
<1>5. i < e => (i + 1) * n <= e * n
  <2>1. e < i + 1 <=> e * n < (i + 1) * n
    BY <1>2, <1>3, MultiplesApart
  <2>2. (i + 1) * n \in Int
    BY <1>3
  <2> QED BY <2>1, <2>2, <1>2, <1>3
<1>6. e < i + 1 => e * n + n <= (i + 1) * n
  BY <1>2, <1>3, MultiplesApart
<1> HIDE DEF i
<1>7. ASSUME start + k * n < e * n
      PROVE  start <= (i + 1) * n - 1 /\ (i + 1) * n - 1 < end
  <2>1. i < e
    BY <1>1, <1>3, <1>4, <1>7
  <2> QED BY <2>1, <1>1, <1>2, <1>3, <1>5
<1>8. ASSUME (i + 1) * n - 1 < end
      PROVE  start + k * n < e * n
  <2>1. (i + 1) * n <= end
    BY <1>2, <1>3, <1>8
  <2>2. i < e
    <3> SUFFICES ASSUME ~ i < e PROVE FALSE
      OBVIOUS
    <3>1. e * n + n <= (i + 1) * n
      BY <1>2, <1>3, <1>6
    <3> QED BY <3>1, <2>1, <1>2, <1>3
  <2> QED BY <2>2, <1>1, <1>3, <1>5
<1> QED BY <1>7, <1>8 DEF i, q, e

(* After size \div n turns, or more, nothing of the area is left.          *)
LEMMA SlotBeyond ==
    ASSUME NEW n \in Nat \ {0}, NEW start \in Nat, NEW size \in Nat, NEW k \in Nat,
           NEW i \in Nat, size <= k * n, (start \div n) + k <= i
    PROVE  start + size <= (i + 1) * n - 1
<1> DEFINE q == start \div n
<1>1. q \in Nat /\ q * n <= start /\ start < q * n + n /\ q + k <= i /\ k * n \in Int
  BY Quotient
<1> HIDE DEF q
<1>2. (q + k) * n = q * n + k * n /\ q * n \in Int /\ (q + k) * n \in Int
  BY <1>1, MultiplesApart
<1>3. i < q + k <=> i * n < (q + k) * n
  BY <1>1, MultiplesApart
<1>4. i * n \in Int /\ (i + 1) * n = i * n + n
  BY MultiplesApart
<1> QED BY <1>1, <1>2, <1>3, <1>4

(* An area of n bytes or more has the last byte of the slot of any of its  *)
(* bytes, or that of the slot before.                                      *)
LEMMA SlotOrPrevious ==
    ASSUME NEW n \in Nat \ {0}, NEW start \in Nat, NEW size \in Nat, size >= n,
           NEW a \in Nat, start <= a, a < start + size
    PROVE  LET p == a \div n
           IN  /\ p \in Nat /\ (p + 1) * n - 1 \in Int
               /\ a <= (p + 1) * n - 1
               /\ ~ (p + 1) * n - 1 < start + size =>
                    /\ p - 1 \in Nat
                    /\ start <= ((p - 1) + 1) * n - 1
                    /\ ((p - 1) + 1) * n - 1 < start + size
                    /\ (a - n) \div n = p - 1
<1> DEFINE p == a \div n
<1>1. p \in Nat /\ p * n <= a /\ a < p * n + n
  BY Quotient
<1> HIDE DEF p
<1>2. (p + 1) * n = p * n + n /\ p * n \in Int
  BY <1>1, MultiplesApart
<1>3. ASSUME ~ (p + 1) * n - 1 < start + size
      PROVE  /\ p - 1 \in Nat
             /\ start <= ((p - 1) + 1) * n - 1
             /\ ((p - 1) + 1) * n - 1 < start + size
             /\ (a - n) \div n = p - 1
  <2>1. start + size <= p * n + n - 1 /\ start <= p * n - 1
    BY <1>2, <1>3
  <2>2. 0 < p
    <3>1. 0 * n < p * n
      BY <2>1, <1>2
    <3> QED BY <3>1, <1>1, MultiplesApart
  <2>3. p - 1 \in Nat /\ (p - 1) + 1 = p /\ (p - 1) * n \in Nat
    BY <2>2, <1>1
  <2>4. (p - 1) * n = p * n - n
    BY <2>3, <1>2, MultiplesApart
  <2>5. (a - n) \div n = p - 1
    <3> DEFINE b == a - n
    <3>1. b \in Nat /\ p - 1 \in Int /\ (p - 1) * n <= b /\ b < (p - 1) * n + n
      BY <2>3, <2>4, <1>1, <1>2
    <3> HIDE DEF b
    <3>2. b \div n = p - 1
      BY <3>1, QuotientUnique
    <3> QED BY <3>2 DEF b
  <2>6. p * n - 1 < start + size
    BY <1>1, <1>2
  <2> QED BY <2>1, <2>3, <2>5, <2>6
<1> QED BY <1>1, <1>2, <1>3 DEF p

-----------------------------------------------------------------------------

Segments ==
    {s \in [start : Nat, size : Nat] :
        s.start % PageSize = 0 /\ s.size % PageSize = 0 /\ s.size >= Split}

Blocks == [ptr : Nat, size : Nat \ {0}, align : Nat \ {0}]

(* The last byte of a slot: its segment owns the slot. *)
LastByte(i) == (i + 1) * Split - 1
Owns(s, i) == Contain(s, LastByte(i))

(* The block is in the segment, after its header. *)
Lies(s, b) == GetPtr(s) <= b.ptr /\ b.ptr + b.size <= End(s)

(* What follows the start of the block is not much more than what is asked. *)
Tight(s, b) ==
    End(s) - b.ptr <= MaxOf(b.size + ReallocThreashold, TotalSize(CheckedSize(b.size, b.align)))

Working(t) == pc[t] # "idle"

-----------------------------------------------------------------------------
(* The inductive invariant *)

Shape ==
    /\ hasRegistry \in BOOLEAN
    /\ mapped \subseteq Segments /\ IsFiniteSet(mapped)
    /\ slots \in [DOMAIN slots -> mapped \union {NULL}] /\ DOMAIN slots \subseteq Nat
    /\ pads \in [DOMAIN pads -> 0 .. PaddingRange - 1] /\ DOMAIN pads \subseteq Int
    /\ live \subseteq Blocks
    /\ pc \in [Threads -> {"idle", "register", "munmap", "mremap"}]
    /\ DOMAIN op = Threads
    /\ \A t \in Threads :
         IF Working(t) THEN op[t] \in [seg : mapped, block : Blocks, size : Nat \ {0}]
                       ELSE op[t] = NoOp

Apart == \A s \in mapped, r \in mapped : s = r \/ Disjoint(s, r)

(* Each block in use has a segment, found through the padding. *)
InUse ==
    \A b \in live : \E s \in mapped :
        /\ Lies(s, b) /\ b.ptr % b.align = 0 /\ Tight(s, b)
        /\ Unpad(pads, b.ptr) = GetPtr(s)

(* A thread works on the segment of its block. *)
InCall ==
    \A t \in Threads : Working(t) =>
        /\ Lies(op[t].seg, op[t].block) /\ op[t].block.ptr % op[t].block.align = 0
        /\ pc[t] = "register" =>
             /\ Tight(op[t].seg, op[t].block)
             /\ op[t].block.ptr - GetPtr(op[t].seg) < PaddingRange

(* A segment has one block, which is in use or which one thread works on.   *)
OneEach ==
    /\ \A b \in live, c \in live, s \in mapped : Lies(s, b) /\ Lies(s, c) => b = c
    /\ \A t \in Threads, b \in live : Working(t) => ~ Lies(op[t].seg, b)
    /\ \A t \in Threads, u \in Threads :
         Working(t) /\ Working(u) /\ op[t].seg = op[u].seg => t = u
    /\ \A s \in mapped : \/ \E b \in live : Lies(s, b)
                         \/ \E t \in Threads : Working(t) /\ op[t].seg = s

(* No header of a segment ends with a word that looks like a padding.       *)
PadWords == \A w \in DOMAIN pads : \E s \in mapped : GetPtr(s) <= w /\ w < End(s)

(* The registry has the slots of the segments of the blocks in use, and     *)
(* nothing else.                                                            *)
Registered ==
    IF hasRegistry
      THEN /\ \A i \in DOMAIN slots : slots[i] # NULL =>
                Owns(slots[i], i) /\ \E b \in live : Lies(slots[i], b)
           /\ \A s \in mapped, b \in live, i \in Nat :
                Lies(s, b) /\ Owns(s, i) => i \in DOMAIN slots /\ slots[i] = s
      ELSE DOMAIN slots = {}

IInv == Shape /\ Apart /\ InUse /\ InCall /\ OneEach /\ PadWords /\ Registered

-----------------------------------------------------------------------------
(* Sizes and addresses *)

LEMMA Constants ==
    /\ Split \in Nat \ {0} /\ PageSize \in Nat \ {0} /\ SegmentHeader \in Nat \ {0}
    /\ PaddingRange \in Nat \ {0} /\ AddressEnd \in Nat
    /\ Sizes \subseteq Nat \ {0} /\ Aligns \subseteq 1 .. PaddingRange
    /\ MinInnerSize \in Nat /\ ReallocThreashold \in Nat
BY SplitAssumption, PageAssumption, PaddingAssumption, RequestsAssumption

LEMMA RoundUpFacts ==
    ASSUME NEW n \in Nat, NEW k \in Nat \ {0}
    PROVE  /\ RoundUp(n, k) \in Nat /\ n <= RoundUp(n, k) /\ RoundUp(n, k) % k = 0
           /\ \A m \in Nat : m <= n => RoundUp(m, k) <= RoundUp(n, k)
<1> DEFINE a == n + k - 1
           q == a \div k
<1>1. a \in Nat
  OBVIOUS
<1> HIDE DEF a
<1>2. q \in Nat /\ q * k <= a /\ a < q * k + k
  BY <1>1, Quotient
<1> HIDE DEF q
<1>3. q * k \in Nat /\ (q * k) % k = 0
  BY <1>2, RemainderOfMultiple
<1>4. RoundUp(n, k) = q * k
  BY DEF RoundUp, q, a
<1>5. ASSUME NEW m \in Nat, m <= n
      PROVE  RoundUp(m, k) <= q * k
  <2> DEFINE b == m + k - 1
             p == b \div k
  <2>1. b \in Nat /\ b <= a
    BY <1>5 DEF a
  <2> HIDE DEF b
  <2>2. p \in Nat /\ p * k <= b
    BY <2>1, Quotient
  <2> HIDE DEF p
  <2>3. p * k \in Int
    BY <2>2
  <2>4. ~ q < p
    <3> SUFFICES ASSUME q < p PROVE FALSE
      OBVIOUS
    <3>1. q * k + k <= p * k
      BY <1>2, <2>2, MultiplesApart
    <3> QED BY <3>1, <2>1, <2>2, <2>3, <1>1, <1>2, <1>3
  <2>5. p * k <= q * k
    <3>1. p = q \/ p < q
      BY <2>2, <2>4, <1>2
    <3> QED BY <3>1, <2>2, <2>3, <1>2, <1>3, MultiplesApart
  <2>6. RoundUp(m, k) = p * k
    BY DEF RoundUp, p, b
  <2> QED BY <2>5, <2>6
<1> QED
  <2>1. n <= q * k
    BY <1>2, <1>3 DEF a
  <2> QED BY <1>3, <1>4, <1>5, <2>1

LEMMA TotalSizeFacts ==
    ASSUME NEW inner \in Nat
    PROVE  /\ TotalSize(inner) \in Nat /\ TotalSize(inner) % PageSize = 0
           /\ inner + SegmentHeader <= TotalSize(inner) /\ Split <= TotalSize(inner)
           /\ \A less \in Nat : less <= inner => TotalSize(less) <= TotalSize(inner)
<1> DEFINE Raw(n) == MaxOf(n + SegmentHeader, Split)
<1>1. \A n \in Nat : Raw(n) \in Nat /\ n + SegmentHeader <= Raw(n) /\ Split <= Raw(n)
  BY Constants DEF MaxOf
<1>2. \A less \in Nat : less <= inner => Raw(less) <= Raw(inner)
  BY Constants DEF MaxOf
<1>3. \A n \in Nat : TotalSize(n) = RoundUp(Raw(n), PageSize)
  BY DEF TotalSize
<1> HIDE DEF Raw
<1>4. /\ TotalSize(inner) \in Nat /\ Raw(inner) <= TotalSize(inner)
      /\ TotalSize(inner) % PageSize = 0
  BY <1>1, <1>3, RoundUpFacts, Constants
<1>5. \A less \in Nat : less <= inner => TotalSize(less) <= TotalSize(inner)
  BY <1>1, <1>2, <1>3, RoundUpFacts, Constants
<1> QED BY <1>1, <1>4, <1>5, Constants

LEMMA CheckedSizeFacts ==
    ASSUME NEW size \in Nat, NEW align \in Nat \ {0}
    PROVE  /\ CheckedSize(size, align) \in Nat
           /\ size <= CheckedSize(size, align)
           /\ align > 1 => size + align <= CheckedSize(size, align)
BY Constants DEF CheckedSize, MaxOf

(* The padding reaches an aligned address, and is less than the alignment. *)
LEMMA PaddingFacts ==
    ASSUME NEW ptr \in Nat, NEW align \in Nat \ {0}
    PROVE  /\ CalcPadding(ptr, align) \in Nat
           /\ CalcPadding(ptr, align) < align
           /\ (ptr + CalcPadding(ptr, align)) % align = 0
<1> DEFINE r == ptr % align
           q == ptr \div align
<1>1. r \in Nat /\ r < align /\ q \in Nat /\ ptr = q * align + r
  <2>1. ptr = (ptr \div align) * align + (ptr % align)
    OBVIOUS
  <2>2. q \in Nat
    BY Quotient
  <2>3. r \in Nat /\ r < align
    OBVIOUS
  <2> QED BY <2>1, <2>2, <2>3
<1>2. CalcPadding(ptr, align) = IF r = 0 THEN 0 ELSE align - r
  BY DEF CalcPadding
<1> HIDE DEF r, q
<1>3. (q + 1) * align = q * align + align /\ q * align \in Int /\ q + 1 \in Nat
  BY <1>1, MultiplesApart
<1>4. (q * align) % align = 0 /\ ((q + 1) * align) % align = 0
  BY <1>1, <1>3, RemainderOfMultiple
<1>5. CASE r = 0
  BY <1>1, <1>2, <1>4, <1>5
<1>6. CASE r # 0
  <2>1. ptr + CalcPadding(ptr, align) = (q + 1) * align
    BY <1>1, <1>2, <1>3, <1>6
  <2> QED BY <2>1, <1>1, <1>2, <1>4, <1>6
<1> QED BY <1>5, <1>6

LEMMA EveryAddressIsAligned ==
    ASSUME NEW ptr \in Nat
    PROVE  ptr % 1 = 0
OBVIOUS

-----------------------------------------------------------------------------
(* Segments *)

LEMMA SegmentFacts ==
    ASSUME NEW s \in Segments
    PROVE  /\ s.start \in Nat /\ s.size \in Nat \ {0} /\ s.size >= Split
           /\ s = [start |-> s.start, size |-> s.size]
           /\ GetPtr(s) \in Nat /\ End(s) \in Nat
           /\ s.start < GetPtr(s) /\ s.start < End(s)
           /\ s # NULL
BY Constants, NullAssumption DEF Segments, GetPtr, End

LEMMA BlockFacts ==
    ASSUME NEW b \in Blocks
    PROVE  b.ptr \in Nat /\ b.size \in Nat \ {0} /\ b.align \in Nat \ {0}
BY DEF Blocks

(* Two segments of the system share no byte. *)
LEMMA OneHolds ==
    ASSUME mapped \subseteq Segments, Apart,
           NEW s \in mapped, NEW r \in mapped, NEW a \in Int,
           Contain(s, a), Contain(r, a)
    PROVE  s = r
<1>1. s \in Segments /\ r \in Segments
  OBVIOUS
<1>2. ~ Disjoint(s, r)
  BY <1>1, SegmentFacts DEF Disjoint, Contain
<1> QED BY <1>2 DEF Apart

(* The segment of a block has its first byte, and the word before.          *)
LEMMA LiesFacts ==
    ASSUME NEW s \in Segments, NEW b \in Blocks, Lies(s, b)
    PROVE  /\ Contain(s, b.ptr) /\ Contain(s, b.ptr - 1) /\ b.ptr - 1 \in Int
           /\ \A a \in b.ptr .. b.ptr + b.size - 1 : a \in Nat /\ Contain(s, a)
<1>1. /\ s.start \in Nat /\ End(s) \in Nat /\ GetPtr(s) \in Nat /\ s.start < GetPtr(s)
      /\ b.ptr \in Nat /\ b.size \in Nat \ {0}
  BY SegmentFacts, BlockFacts
<1>2. GetPtr(s) <= b.ptr /\ b.ptr + b.size <= End(s)
  BY DEF Lies
<1> QED BY <1>1, <1>2 DEF Contain

LEMMA OneSegment ==
    ASSUME mapped \subseteq Segments, Apart,
           NEW s \in mapped, NEW r \in mapped, NEW b \in Blocks,
           Lies(s, b), Lies(r, b)
    PROVE  s = r
<1>1. Contain(s, b.ptr) /\ Contain(r, b.ptr) /\ b.ptr \in Int
  BY LiesFacts, BlockFacts
<1> QED BY <1>1, OneHolds

(* The header is found from the first address of the segment.               *)
LEMMA HeaderFound ==
    ASSUME mapped \subseteq Segments, Apart, NEW s \in mapped
    PROVE  HeaderOf(mapped, GetPtr(s)) = s
<1>1. ASSUME NEW r \in mapped, GetPtr(r) = GetPtr(s)
      PROVE  r = s
  <2>1. s \in Segments /\ r \in Segments
    OBVIOUS
  <2>2. r.start = s.start
    BY <2>1, <1>1, SegmentFacts, Constants DEF GetPtr
  <2>3. Contain(s, s.start) /\ Contain(r, s.start) /\ s.start \in Int
    BY <2>1, <2>2, SegmentFacts DEF Contain
  <2> QED BY <2>3, OneHolds
<1>2. (CHOOSE r \in mapped : GetPtr(r) = GetPtr(s)) = s
  BY <1>1
<1>3. GetPtr(s) - SegmentHeader = s.start /\ s = [start |-> s.start, size |-> s.size]
  BY SegmentFacts, Constants DEF GetPtr
<1> QED BY <1>2, <1>3 DEF HeaderOf

-----------------------------------------------------------------------------
(* The registry *)

LEMMA OwnsFacts ==
    ASSUME NEW s \in Segments, NEW i \in Nat
    PROVE  /\ LastByte(i) \in Int
           /\ Owns(s, i) <=> s.start <= LastByte(i) /\ LastByte(i) < End(s)
<1>1. (i + 1) * Split \in Int
  BY MultiplesApart, Constants
<1> QED BY <1>1 DEF LastByte, Owns, Contain

(* The turn of the loops on a slot of the segment, counted from its first. *)
LEMMA TurnFacts ==
    ASSUME NEW s \in Segments, NEW k \in Nat
    PROVE  /\ s.start \div Split \in Nat
           /\ TurnSlot(s, k) = (s.start \div Split) + k
           /\ TurnSlot(s, k) \in Nat
           /\ SetAgain(s, k) <=> Owns(s, TurnSlot(s, k))
<1> DEFINE q == s.start \div Split
<1>1. s.start \in Nat /\ End(s) \in Nat
  BY SegmentFacts
<1>2. q \in Nat /\ (s.start + k * Split) \div Split = q + k
  BY <1>1, SlotAfterTurns, Constants
<1>3. TurnSlot(s, k) = q + k
  BY <1>2 DEF TurnSlot, SlotOf
<1>4. SetAgain(s, k) <=> s.start <= LastByte(q + k) /\ LastByte(q + k) < End(s)
  BY <1>1, SlotsToTheEnd, Constants DEF SetAgain, CeilToPowOf2, LastByte
<1> HIDE DEF q
<1>5. Owns(s, q + k) <=> s.start <= LastByte(q + k) /\ LastByte(q + k) < End(s)
  BY <1>2, OwnsFacts
<1> QED BY <1>2, <1>3, <1>4, <1>5 DEF q

(* A slot of the segment has its turn, of setEntry and of remove.           *)
LEMMA TurnOfSlot ==
    ASSUME NEW s \in Segments, NEW i \in Nat, Owns(s, i)
    PROVE  \E k \in 0 .. s.size \div Split :
             i = TurnSlot(s, k) /\ SetAgain(s, k) /\ RemoveAgain(s, k)
<1> DEFINE q == s.start \div Split
           k == i - q
           z == s.size \div Split
<1>1. s.start \in Nat /\ s.size \in Nat /\ End(s) \in Nat /\ End(s) = s.start + s.size
  BY SegmentFacts DEF End
<1>2. (i + 1) * Split - 1 \in Int /\ s.start <= (i + 1) * Split - 1 /\ (i + 1) * Split - 1 < End(s)
  BY OwnsFacts DEF LastByte
<1>3. q \in Nat /\ q <= i
  BY <1>1, <1>2, SlotFromStart, Constants
<1>4. k \in Nat /\ i = q + k
  BY <1>3
<1>5. z \in Nat /\ s.size < z * Split + Split
  BY <1>1, Quotient, Constants
<1>6. k * Split < s.size
  <2> SUFFICES ASSUME ~ k * Split < s.size PROVE FALSE
    OBVIOUS
  <2>1. k * Split \in Int
    BY <1>4, MultiplesApart, Constants
  <2>2. s.size <= k * Split /\ (s.start \div Split) + k <= i
    BY <2>1, <1>1, <1>3, <1>4
  <2> HIDE DEF k
  <2>3. s.start + s.size <= (i + 1) * Split - 1
    BY <2>2, <1>1, <1>4, SlotBeyond, Constants
  <2> QED BY <2>3, <1>1, <1>2
<1>7. k <= z
  <2> SUFFICES ASSUME z < k PROVE FALSE
    BY <1>4, <1>5
  <2> HIDE DEF z, k
  <2>1. z * Split + Split <= k * Split /\ k * Split \in Int /\ z * Split \in Int
    BY <1>4, <1>5, MultiplesApart, Constants
  <2> QED BY <2>1, <1>1, <1>5, <1>6, Constants
<1>8. TurnSlot(s, k) = q + k /\ (SetAgain(s, k) <=> Owns(s, TurnSlot(s, k)))
  BY <1>4, TurnFacts
<1> HIDE DEF k, q, z
<1>9. k \in 0 .. z /\ i = TurnSlot(s, k) /\ SetAgain(s, k) /\ RemoveAgain(s, k)
  BY <1>4, <1>5, <1>6, <1>7, <1>8 DEF RemoveAgain
<1> QED BY <1>9 DEF z

(* setEntry writes the slots of the segment, in the regions it needs.       *)
LEMMA SetEntryFacts ==
    ASSUME NEW s \in Segments, NEW table, DOMAIN table \subseteq Nat
    PROVE  LET new == SetEntry(table, s)
           IN  /\ DOMAIN new \subseteq Nat /\ new = [j \in DOMAIN new |-> new[j]]
               /\ \A i \in Nat : Owns(s, i) => i \in DOMAIN new /\ new[i] = s
               /\ \A j \in DOMAIN table : j \in DOMAIN new
               /\ \A j \in DOMAIN new : ~ Owns(s, j) =>
                    new[j] = IF j \in DOMAIN table THEN table[j] ELSE NULL
<1> DEFINE mine == {TurnSlot(s, k) : k \in TurnsOf(SetAgain, s)}
           made == {i \div RegionSlots : i \in mine}
           more == UNION {r * RegionSlots .. (r + 1) * RegionSlots - 1 : r \in made}
           new  == SetEntry(table, s)
<1>1. TurnsOf(SetAgain, s) = {k \in 0 .. s.size \div Split : SetAgain(s, k)}
  BY DEF TurnsOf
<1>2. \A i \in Nat : Owns(s, i) <=> i \in mine
  BY <1>1, TurnOfSlot, TurnFacts
<1>3. mine \subseteq Nat
  BY <1>1, TurnFacts
<1> HIDE DEF mine
<1>4. \A i \in mine : i \in (i \div RegionSlots) * RegionSlots .. ((i \div RegionSlots) + 1) * RegionSlots - 1
  <2> TAKE i \in mine
  <2> DEFINE q == i \div RegionSlots
  <2>1. i \in Nat /\ q \in Nat /\ q * RegionSlots <= i /\ i < q * RegionSlots + RegionSlots
    BY <1>3, Quotient, SplitAssumption
  <2> HIDE DEF q
  <2>2. (q + 1) * RegionSlots = q * RegionSlots + RegionSlots /\ q * RegionSlots \in Int
    BY <2>1, MultiplesApart, SplitAssumption
  <2>3. i \in q * RegionSlots .. (q + 1) * RegionSlots - 1
    BY <2>1, <2>2, SplitAssumption
  <2> QED BY <2>3 DEF q
<1>5. mine \subseteq more
  BY <1>4
<1>6. more \subseteq Nat
  <2>1. \A r \in made : r \in Nat
    BY <1>3, Quotient, SplitAssumption
  <2>2. \A r \in Nat : r * RegionSlots .. (r + 1) * RegionSlots - 1 \subseteq Nat
    BY SplitAssumption
  <2> HIDE DEF made
  <2> QED BY <2>1, <2>2
<1>7. new = [j \in DOMAIN table \union more |->
               IF j \in mine THEN s ELSE IF j \in DOMAIN table THEN table[j] ELSE NULL]
  BY DEF SetEntry, mine
<1> HIDE DEF more, new
<1> QED
  <2>1. DOMAIN new = DOMAIN table \union more
    BY <1>7
  <2>2. \A j \in DOMAIN new :
          new[j] = IF j \in mine THEN s ELSE IF j \in DOMAIN table THEN table[j] ELSE NULL
    BY <1>7
  <2>3. new = [j \in DOMAIN new |-> new[j]]
    BY <1>7
  <2> QED BY <2>1, <2>2, <2>3, <1>2, <1>5, <1>6 DEF new

(* remove empties the slots of the segment, if they are still its own.      *)
LEMMA RemoveEntryFacts ==
    ASSUME NEW s \in Segments, NEW table, DOMAIN table \subseteq Nat
    PROVE  LET new == RemoveEntry(table, s)
           IN  /\ DOMAIN new = DOMAIN table /\ new = [j \in DOMAIN new |-> new[j]]
               /\ \A j \in DOMAIN table :
                    /\ table[j] # s => new[j] = table[j]
                    /\ table[j] = s => new[j] \in {s, NULL}
                    /\ table[j] = s /\ Owns(s, j) => new[j] = NULL
<1> DEFINE mine == {TurnSlot(s, k) : k \in TurnsOf(RemoveAgain, s)}
           new  == RemoveEntry(table, s)
<1>1. TurnsOf(RemoveAgain, s) = {k \in 0 .. s.size \div Split : RemoveAgain(s, k)}
  BY DEF TurnsOf
<1>2. \A i \in Nat : Owns(s, i) => i \in mine
  BY <1>1, TurnOfSlot
<1> HIDE DEF mine
<1>3. new = [j \in DOMAIN table |-> IF j \in mine /\ table[j] = s THEN NULL ELSE table[j]]
  BY DEF RemoveEntry, mine
<1> HIDE DEF new
<1>4. DOMAIN new = DOMAIN table
  BY <1>3
<1>5. \A j \in DOMAIN table : new[j] = IF j \in mine /\ table[j] = s THEN NULL ELSE table[j]
  BY <1>3
<1>6. new = [j \in DOMAIN new |-> new[j]]
  BY <1>3
<1> QED BY <1>2, <1>4, <1>5, <1>6 DEF new

-----------------------------------------------------------------------------
(* The steps preserve the invariant *)

LEMMA InitHolds == Init => IInv
<1> SUFFICES ASSUME Init PROVE IInv
  OBVIOUS
<1>1. \A t \in Threads : ~ Working(t) /\ op[t] = NoOp
  BY DEF Init, Working
<1>2. Shape
  <2>1. DOMAIN slots = {} /\ slots \in [{} -> mapped \union {NULL}]
    BY DEF Init
  <2>2. DOMAIN pads = {} /\ pads \in [{} -> 0 .. PaddingRange - 1]
    BY DEF Init
  <2>3. mapped = {} /\ IsFiniteSet(mapped)
    BY FS_EmptySet DEF Init
  <2> QED BY <1>1, <2>1, <2>2, <2>3 DEF Init, Shape
<1>3. Apart /\ InUse /\ InCall /\ OneEach /\ PadWords /\ Registered
  BY <1>1 DEF Init, Apart, InUse, InCall, OneEach, PadWords, Registered
<1> QED BY <1>2, <1>3 DEF IInv

LEMMA ApartLies ==
    ASSUME NEW s \in Segments, NEW r \in Segments, NEW b \in Blocks,
           Disjoint(s, r) \/ Disjoint(r, s), Lies(s, b)
    PROVE  ~ Lies(r, b)
<1> SUFFICES ASSUME Lies(r, b) PROVE FALSE
  OBVIOUS
<1>1. Contain(s, b.ptr) /\ Contain(r, b.ptr)
  BY LiesFacts
<1> QED BY <1>1, SegmentFacts, BlockFacts DEF Contain, Disjoint

(* A working thread and what it works on. *)
LEMMA CallFacts ==
    ASSUME Shape, InCall, NEW t \in Threads, Working(t)
    PROVE  /\ op[t].seg \in mapped /\ op[t].seg \in Segments
           /\ op[t].block \in Blocks /\ op[t].size \in Nat \ {0}
           /\ Lies(op[t].seg, op[t].block)
BY DEF Shape, InCall

(* The pages the system gives are a new segment. *)
LEMMA FreeFacts ==
    ASSUME NEW rest \in SUBSET Segments, NEW inner \in Nat,
           NEW s \in Free(rest, TotalSize(inner))
    PROVE  /\ s \in Segments /\ s.size = TotalSize(inner)
           /\ \A r \in rest : Disjoint(s, r) /\ s # r
<1> DEFINE n == TotalSize(inner)
<1>1. n \in Nat /\ n % PageSize = 0 /\ n >= Split
  BY TotalSizeFacts, Constants
<1> HIDE DEF n
<1>2. s \in [start : {p \in 0 .. AddressEnd - n : p % PageSize = 0}, size : {n}]
  BY DEF Free, n
<1>3. s.start \in Nat /\ s.start % PageSize = 0 /\ s.size = n /\ s \in [start : Nat, size : Nat]
  BY <1>1, <1>2, Constants
<1>4. s \in Segments
  BY <1>1, <1>3 DEF Segments
<1>5. ASSUME NEW r \in rest
      PROVE  Disjoint(s, r) /\ s # r
  <2>1. Disjoint(s, r)
    BY DEF Free, n
  <2>2. ~ Disjoint(s, s)
    BY <1>4, SegmentFacts DEF Disjoint
  <2> QED BY <2>1, <2>2
<1> QED BY <1>3, <1>4, <1>5 DEF n

(* The block malloc makes of a segment.                                     *)
LEMMA MallocBlock ==
    ASSUME NEW size \in Sizes, NEW align \in Aligns, NEW s \in Segments,
           s.size = TotalSize(CheckedSize(size, align))
    PROVE  LET b == Block(GetPtr(s) + CalcPadding(GetPtr(s), align), size, align)
           IN  /\ b \in Blocks /\ Lies(s, b) /\ b.ptr % b.align = 0 /\ Tight(s, b)
               /\ b.ptr - GetPtr(s) < PaddingRange
<1> DEFINE first == GetPtr(s)
           pad   == CalcPadding(first, align)
           inner == CheckedSize(size, align)
           b     == Block(first + pad, size, align)
<1>1. size \in Nat \ {0} /\ align \in Nat \ {0} /\ align <= PaddingRange
  BY Constants
<1>2. first \in Nat /\ first = s.start + SegmentHeader /\ s.start \in Nat
  BY SegmentFacts DEF GetPtr
<1> HIDE DEF first
<1>3. pad \in Nat /\ pad < align /\ (first + pad) % align = 0
  BY <1>1, <1>2, PaddingFacts
<1> HIDE DEF pad
<1>4. inner \in Nat /\ size <= inner /\ (align > 1 => size + align <= inner)
  BY <1>1, CheckedSizeFacts
<1> HIDE DEF inner
<1>5. s.size = TotalSize(inner)
  BY DEF inner
<1>6. TotalSize(inner) \in Nat /\ inner + SegmentHeader <= TotalSize(inner)
  BY <1>4, TotalSizeFacts
<1>7. b.ptr = first + pad /\ b.size = size /\ b.align = align /\ b \in Blocks
  BY <1>1, <1>2, <1>3 DEF Block, Blocks
<1>8. End(s) = s.start + TotalSize(inner)
  BY <1>5 DEF End
<1>9. size + pad <= inner
  BY <1>1, <1>3, <1>4
<1>10. Lies(s, b)
  BY <1>1, <1>2, <1>3, <1>4, <1>6, <1>7, <1>8, <1>9, Constants DEF Lies, first
<1>11. Tight(s, b)
  <2>1. End(s) - b.ptr <= TotalSize(inner)
    BY <1>2, <1>3, <1>6, <1>7, <1>8, Constants
  <2>2. TotalSize(inner) <= MaxOf(b.size + ReallocThreashold, TotalSize(inner))
    BY <1>1, <1>6, <1>7, Constants DEF MaxOf
  <2>3. inner = CheckedSize(b.size, b.align)
    BY <1>7 DEF inner
  <2>4. End(s) - b.ptr \in Int /\ MaxOf(b.size + ReallocThreashold, TotalSize(inner)) \in Int
    BY <1>1, <1>2, <1>3, <1>6, <1>7, <1>8, Constants DEF MaxOf
  <2> QED BY <2>1, <2>2, <2>3, <2>4, <1>6 DEF Tight
<1>12. b.ptr - first < PaddingRange
  BY <1>1, <1>2, <1>3, <1>7, Constants
<1> QED BY <1>3, <1>7, <1>10, <1>11, <1>12 DEF b, first, pad

LEMMA MallocStep ==
    ASSUME IInv, NEW t \in Threads, MallocMap(t)
    PROVE  IInv'
<1> USE DEF IInv
<1>1. PICK size \in Sizes, align \in Aligns :
        \E s \in Free(mapped, TotalSize(CheckedSize(size, align))) :
           /\ mapped' = mapped \union {s}
           /\ Begin(t, "register", s,
                    Block(GetPtr(s) + CalcPadding(GetPtr(s), align), size, align))
  BY DEF MallocMap
<1>2. PICK s \in Free(mapped, TotalSize(CheckedSize(size, align))) :
           /\ mapped' = mapped \union {s}
           /\ Begin(t, "register", s,
                    Block(GetPtr(s) + CalcPadding(GetPtr(s), align), size, align))
  BY <1>1
<1> DEFINE b == Block(GetPtr(s) + CalcPadding(GetPtr(s), align), size, align)
<1>3. /\ pc[t] = "idle" /\ UNCHANGED <<hasRegistry, slots, pads, live>>
      /\ pc' = [pc EXCEPT ![t] = "register"]
      /\ op' = [op EXCEPT ![t] = [seg |-> s, block |-> b, size |-> b.size]]
  BY <1>2 DEF MallocMap, Begin
<1>4. /\ s \in Segments /\ s.size = TotalSize(CheckedSize(size, align))
      /\ \A r \in mapped : Disjoint(s, r) /\ s # r
  <2>1. CheckedSize(size, align) \in Nat
    BY Constants, CheckedSizeFacts
  <2>2. mapped \in SUBSET Segments
    BY DEF Shape
  <2> QED BY <2>1, <2>2, FreeFacts
<1>5. /\ b \in Blocks /\ Lies(s, b) /\ b.ptr % b.align = 0 /\ Tight(s, b)
      /\ b.ptr - GetPtr(s) < PaddingRange
  BY <1>4, MallocBlock
<1> HIDE DEF b
<1>6. /\ mapped \subseteq Segments /\ live \subseteq Blocks /\ DOMAIN op = Threads
      /\ pc \in [Threads -> {"idle", "register", "munmap", "mremap"}]
  BY DEF Shape
<1>7. /\ Working(t)' /\ ~ Working(t) /\ pc'[t] = "register"
      /\ op'[t] = [seg |-> s, block |-> b, size |-> b.size]
      /\ \A u \in Threads : u # t => pc'[u] = pc[u] /\ op'[u] = op[u] /\ Working(u)' = Working(u)
  BY <1>3, <1>6 DEF Working
<1>8. \A c \in live : ~ Lies(s, c)
  <2> SUFFICES ASSUME NEW c \in live, Lies(s, c) PROVE FALSE
    OBVIOUS
  <2>1. PICK r \in mapped : Lies(r, c)
    BY DEF InUse
  <2> QED BY <2>1, <1>4, <1>6, ApartLies
<1>9. Shape'
  <2>1. IsFiniteSet(mapped')
    BY <1>2, FS_AddElement DEF Shape
  <2>2. \A u \in Threads :
          IF Working(u)' THEN op'[u] \in [seg : mapped', block : Blocks, size : Nat \ {0}]
                         ELSE op'[u] = NoOp
    BY <1>2, <1>5, <1>7, BlockFacts DEF Shape
  <2>3. slots' \in [DOMAIN slots' -> mapped' \union {NULL}]
    BY <1>2, <1>3 DEF Shape
  <2> QED BY <2>1, <2>2, <2>3, <1>2, <1>3, <1>4, <1>6 DEF Shape
<1>10. Apart'
  BY <1>2, <1>4 DEF Apart, Disjoint
<1>11. InUse'
  BY <1>2, <1>3 DEF InUse
<1>12. InCall'
  BY <1>5, <1>7 DEF InCall
<1>13. OneEach'
  <2>1. \A u \in Threads : Working(u) => op[u].seg \in mapped
    BY CallFacts
  <2> QED BY <2>1, <1>2, <1>3, <1>4, <1>7, <1>8 DEF OneEach
<1>14. PadWords' /\ Registered'
  BY <1>2, <1>3, <1>8 DEF PadWords, Registered
<1> QED BY <1>9, <1>10, <1>11, <1>12, <1>13, <1>14

(* The padding is read back from the word before the block.                 *)
LEMMA PaddingKept ==
    ASSUME NEW first \in Nat, NEW ptr \in Nat, ptr - first \in 1 .. PaddingRange - 1
    PROVE  LET new == PutPadding(pads, first, ptr - first)
           IN  /\ DOMAIN new = DOMAIN pads \union {ptr - 1}
               /\ new = [w \in DOMAIN new |-> new[w]]
               /\ new[ptr - 1] = ptr - first
               /\ \A w \in DOMAIN pads : w # ptr - 1 => new[w] = pads[w]
               /\ Unpad(new, ptr) = first
<1> DEFINE padding == ptr - first
           new     == PutPadding(pads, first, padding)
<1>1. padding % PaddingRange = padding /\ first + padding - 1 = ptr - 1 /\ ptr - padding = first
  BY Constants
<1>2. new = [a \in DOMAIN pads \union {first + padding - 1} |->
              IF a = first + padding - 1 THEN padding % PaddingRange ELSE pads[a]]
  BY DEF PutPadding
<1> HIDE DEF new, padding
<1>3. new = [a \in DOMAIN pads \union {ptr - 1} |-> IF a = ptr - 1 THEN padding ELSE pads[a]]
  BY <1>1, <1>2
<1>4. DOMAIN new = DOMAIN pads \union {ptr - 1} /\ new[ptr - 1] = padding
  BY <1>3
<1>5. Unpad(new, ptr) = first
  BY <1>1, <1>4 DEF Unpad
<1> QED BY <1>3, <1>4, <1>5 DEF new, padding

(* The word before the first address of a segment holds no padding.         *)
LEMMA HeaderHasNoWord ==
    ASSUME IInv, NEW s \in mapped
    PROVE  GetPtr(s) - 1 \notin DOMAIN pads
<1> SUFFICES ASSUME GetPtr(s) - 1 \in DOMAIN pads PROVE FALSE
  OBVIOUS
<1>1. PICK r \in mapped : GetPtr(r) <= GetPtr(s) - 1 /\ GetPtr(s) - 1 < End(r)
  BY DEF IInv, PadWords
<1>2. s \in Segments /\ r \in Segments /\ mapped \subseteq Segments /\ Apart
  BY DEF IInv, Shape
<1>3. Contain(r, GetPtr(s) - 1)
  BY <1>1, <1>2, SegmentFacts DEF Contain
<1>4. s # r
  BY <1>1, <1>2, SegmentFacts
<1>5. Disjoint(s, r)
  BY <1>2, <1>4 DEF Apart
<1>6. End(r) <= s.start \/ End(s) <= r.start
  BY <1>5 DEF Disjoint
<1>7. GetPtr(s) = s.start + SegmentHeader /\ GetPtr(r) = r.start + SegmentHeader
  BY DEF GetPtr
<1>8. End(r) > GetPtr(s) - 1 /\ r.start < GetPtr(s)
  BY <1>1, <1>2, SegmentFacts
<1>9. End(s) <= r.start
  BY <1>2, <1>6, <1>7, <1>8, SegmentFacts, Constants
<1>10. \A x \in {s, r} : x.start \in Nat /\ End(x) \in Nat
  BY <1>2, SegmentFacts
<1>11. s.start < End(s) /\ r.start < GetPtr(s) /\ GetPtr(r) < GetPtr(s)
  BY <1>1, <1>2, <1>8, SegmentFacts
<1>12. r.start < s.start
  BY <1>7, <1>10, <1>11, Constants
<1> QED BY <1>9, <1>10, <1>11, <1>12

LEMMA RegisterStep ==
    ASSUME IInv, NEW t \in Threads, RegisterSegment(t)
    PROVE  IInv'
<1> USE DEF IInv
<1> DEFINE s     == op[t].seg
           b     == op[t].block
           first == GetPtr(s)
           word  == b.ptr - 1
<1>1. /\ pc[t] = "register" /\ UNCHANGED <<hasRegistry, mapped>>
      /\ slots' = Register(slots, hasRegistry, s)
      /\ pads' = IF b.ptr # first THEN PutPadding(pads, first, b.ptr - first) ELSE pads
      /\ live' = live \union {b}
      /\ pc' = [pc EXCEPT ![t] = "idle"] /\ op' = [op EXCEPT ![t] = NoOp]
  BY DEF RegisterSegment, Finish
<1>2. Working(t)
  BY <1>1 DEF Working
<1>3. s \in mapped /\ s \in Segments /\ b \in Blocks /\ Lies(s, b)
  BY <1>2, CallFacts
<1>4. b.ptr % b.align = 0 /\ Tight(s, b) /\ b.ptr - first < PaddingRange
  BY <1>1, <1>2 DEF InCall
<1>5. \A u \in Threads : Working(u) => op[u].seg \in mapped
  BY CallFacts
<1>6. /\ mapped \subseteq Segments /\ live \subseteq Blocks /\ DOMAIN op = Threads
      /\ pc \in [Threads -> {"idle", "register", "munmap", "mremap"}]
  BY DEF Shape
<1>7. /\ ~ Working(t)' /\ pc'[t] = "idle" /\ op'[t] = NoOp
      /\ \A u \in Threads : u # t => pc'[u] = pc[u] /\ op'[u] = op[u] /\ Working(u)' = Working(u)
  BY <1>1, <1>6 DEF Working
<1>8. \A c \in live : ~ Lies(s, c)
  BY <1>2 DEF OneEach
<1> HIDE DEF s, b
<1>9. first \in Nat /\ b.ptr \in Nat /\ first <= b.ptr /\ b.size \in Nat \ {0}
  BY <1>3, SegmentFacts, BlockFacts DEF Lies
<1>10. Contain(s, word) /\ word \in Int
  BY <1>3, LiesFacts
<1>11. /\ DOMAIN pads' \subseteq DOMAIN pads \union {word}
       /\ pads' \in [DOMAIN pads' -> 0 .. PaddingRange - 1]
       /\ Unpad(pads', b.ptr) = first
       /\ word \in DOMAIN pads' => first <= word
       /\ \A w \in Int : w # word => (w \in DOMAIN pads' <=> w \in DOMAIN pads)
       /\ \A w \in DOMAIN pads : w # word => pads'[w] = pads[w]
  <2>0. pads \in [DOMAIN pads -> 0 .. PaddingRange - 1]
    BY DEF Shape
  <2>1. CASE b.ptr = first
    <3>1. pads' = pads /\ word \notin DOMAIN pads
      BY <2>1, <1>1, <1>3, HeaderHasNoWord
    <3> QED BY <3>1, <2>0, <2>1 DEF Unpad
  <2>2. CASE b.ptr # first
    <3>1. b.ptr - first \in 1 .. PaddingRange - 1
      BY <2>2, <1>4, <1>9, Constants
    <3>2. pads' = PutPadding(pads, first, b.ptr - first)
      BY <2>2, <1>1
    <3>3. /\ DOMAIN pads' = DOMAIN pads \union {word}
          /\ pads' = [w \in DOMAIN pads' |-> pads'[w]]
          /\ pads'[word] = b.ptr - first
          /\ \A w \in DOMAIN pads : w # word => pads'[w] = pads[w]
          /\ Unpad(pads', b.ptr) = first
      <4> HIDE DEF first
      <4> QED BY <3>1, <3>2, <1>9, PaddingKept
    <3>4. \A w \in DOMAIN pads' : pads'[w] \in 0 .. PaddingRange - 1
      BY <3>1, <3>3, <2>0
    <3>5. first <= word
      BY <2>2, <1>9
    <3> QED BY <3>3, <3>4, <3>5
  <2> QED BY <2>1, <2>2
<1> HIDE DEF word
<1>12. \A c \in live, r \in mapped : Lies(r, c) => r # s /\ Unpad(pads', c.ptr) = Unpad(pads, c.ptr)
  <2> SUFFICES ASSUME NEW c \in live, NEW r \in mapped, Lies(r, c)
               PROVE  r # s /\ Unpad(pads', c.ptr) = Unpad(pads, c.ptr)
    OBVIOUS
  <2>1. r # s
    BY <1>8
  <2>2. Contain(r, c.ptr - 1) /\ c.ptr - 1 \in Int
    BY <1>6, LiesFacts
  <2>3. c.ptr - 1 # word
    BY <2>1, <2>2, <1>3, <1>6, <1>10, OneHolds
  <2> QED BY <2>1, <2>2, <2>3, <1>11 DEF Unpad
<1>13. Shape'
  <2>1. slots' \in [DOMAIN slots' -> mapped' \union {NULL}] /\ DOMAIN slots' \subseteq Nat
    <3>1. CASE hasRegistry
      <4>1. slots' = SetEntry(slots, s) /\ DOMAIN slots \subseteq Nat
        BY <3>1, <1>1 DEF Register, Shape
      <4>2. /\ DOMAIN slots' \subseteq Nat /\ slots' = [j \in DOMAIN slots' |-> slots'[j]]
            /\ \A j \in Nat : Owns(s, j) => slots'[j] = s
            /\ \A j \in DOMAIN slots' : ~ Owns(s, j) =>
                 slots'[j] = IF j \in DOMAIN slots THEN slots[j] ELSE NULL
        BY <4>1, <1>3, SetEntryFacts
      <4>3. \A j \in DOMAIN slots' : slots'[j] \in mapped \union {NULL}
        BY <4>2, <1>3 DEF Shape
      <4> QED BY <4>2, <4>3, <1>1
    <3>2. CASE ~ hasRegistry
      BY <3>2, <1>1 DEF Register, Shape
    <3> QED BY <3>1, <3>2
  <2>2. DOMAIN pads' \subseteq Int
    BY <1>10, <1>11 DEF Shape
  <2>3. \A u \in Threads :
          IF Working(u)' THEN op'[u] \in [seg : mapped', block : Blocks, size : Nat \ {0}]
                         ELSE op'[u] = NoOp
    BY <1>1, <1>7 DEF Shape
  <2> QED BY <2>1, <2>2, <2>3, <1>1, <1>3, <1>6, <1>11 DEF Shape
<1>14. Apart' /\ InCall'
  BY <1>1, <1>7 DEF Apart, InCall
<1>15. InUse'
  <2> SUFFICES ASSUME NEW c \in live'
               PROVE  \E r \in mapped : /\ Lies(r, c) /\ c.ptr % c.align = 0 /\ Tight(r, c)
                                        /\ Unpad(pads', c.ptr) = GetPtr(r)
    BY <1>1 DEF InUse
  <2>1. CASE c = b
    BY <2>1, <1>3, <1>4, <1>11
  <2>2. CASE c \in live
    BY <2>2, <1>12 DEF InUse
  <2> QED BY <2>1, <2>2, <1>1
<1>16. OneEach'
  <2>1. \A r \in mapped : Lies(r, b) => r = s
    BY <1>3, <1>6, OneSegment
  <2>2. \A u \in Threads : u # t /\ Working(u) => op[u].seg # s
    BY <1>2 DEF OneEach, s
  <2>3. \A c \in live', d \in live', r \in mapped : Lies(r, c) /\ Lies(r, d) => c = d
    BY <2>1, <1>1, <1>8 DEF OneEach
  <2>4. \A u \in Threads, c \in live' : Working(u)' => ~ Lies(op'[u].seg, c)
    BY <2>1, <2>2, <1>1, <1>5, <1>7 DEF OneEach
  <2>5. \A r \in mapped : \/ \E c \in live' : Lies(r, c)
                          \/ \E u \in Threads : Working(u)' /\ op'[u].seg = r
    BY <1>1, <1>3, <1>7 DEF OneEach, s
  <2> QED BY <2>3, <2>4, <2>5, <1>1, <1>7 DEF OneEach
<1>17. PadWords'
  <2> SUFFICES ASSUME NEW w \in DOMAIN pads'
               PROVE  \E r \in mapped : GetPtr(r) <= w /\ w < End(r)
    BY <1>1 DEF PadWords
  <2>1. CASE w = word
    BY <2>1, <1>3, <1>10, <1>11 DEF Contain
  <2>2. CASE w # word
    BY <2>2, <1>11 DEF PadWords
  <2> QED BY <2>1, <2>2
<1>18. Registered'
  <2>1. CASE hasRegistry
    <3>1. slots' = SetEntry(slots, s) /\ DOMAIN slots \subseteq Nat
      BY <2>1, <1>1 DEF Register, Shape
    <3>2. /\ DOMAIN slots' \subseteq Nat
          /\ \A i \in Nat : Owns(s, i) => i \in DOMAIN slots' /\ slots'[i] = s
          /\ \A j \in DOMAIN slots : j \in DOMAIN slots'
          /\ \A j \in DOMAIN slots' : ~ Owns(s, j) =>
               slots'[j] = IF j \in DOMAIN slots THEN slots[j] ELSE NULL
      BY <3>1, <1>3, SetEntryFacts
    <3>3. ASSUME NEW i \in DOMAIN slots', slots'[i] # NULL
          PROVE  Owns(slots'[i], i) /\ \E c \in live' : Lies(slots'[i], c)
      <4>1. CASE Owns(s, i)
        BY <4>1, <3>2, <1>1, <1>3
      <4>2. CASE ~ Owns(s, i)
        <5>1. i \in DOMAIN slots /\ slots'[i] = slots[i]
          BY <4>2, <3>2, <3>3
        <5> QED BY <5>1, <3>3, <2>1, <1>1 DEF Registered
      <4> QED BY <4>1, <4>2
    <3>4. ASSUME NEW r \in mapped, NEW c \in live', NEW i \in Nat, Lies(r, c), Owns(r, i)
          PROVE  i \in DOMAIN slots' /\ slots'[i] = r
      <4>1. CASE r = s
        BY <4>1, <3>2, <3>4
      <4>2. CASE r # s
        <5>1. c \in live
          BY <4>2, <3>4, <1>1, <1>3, <1>6, OneSegment
        <5>2. i \in DOMAIN slots /\ slots[i] = r
          BY <5>1, <3>4, <2>1 DEF Registered
        <5>3. ~ Owns(s, i)
          BY <4>2, <3>4, <1>3, <1>6, OneHolds, OwnsFacts DEF Owns
        <5> QED BY <5>2, <5>3, <3>2
      <4> QED BY <4>1, <4>2
    <3>5. \A r \in mapped', c \in live', i \in Nat :
            Lies(r, c) /\ Owns(r, i) => i \in DOMAIN slots' /\ slots'[i] = r
      BY <3>4, <1>1
    <3>6. \A i \in DOMAIN slots' : slots'[i] # NULL =>
            Owns(slots'[i], i) /\ \E c \in live' : Lies(slots'[i], c)
      BY <3>3
    <3>7. hasRegistry'
      BY <2>1, <1>1
    <3> QED BY <3>5, <3>6, <3>7, Zenon DEF Registered
  <2>2. CASE ~ hasRegistry
    BY <2>2, <1>1 DEF Register, Registered
  <2> QED BY <2>1, <2>2
<1> QED BY <1>13, <1>14, <1>15, <1>16, <1>17, <1>18

(* The block of a user, as free and realloc find its segment.               *)
LEMMA FoundSegment ==
    ASSUME IInv, NEW b \in live
    PROVE  \E s \in mapped :
             /\ s = HeaderOf(mapped, Unpad(pads, b.ptr))
             /\ Unpad(pads, b.ptr) = GetPtr(s)
             /\ Lies(s, b) /\ b.ptr % b.align = 0 /\ Tight(s, b)
<1>1. PICK s \in mapped :
        /\ Lies(s, b) /\ b.ptr % b.align = 0 /\ Tight(s, b)
        /\ Unpad(pads, b.ptr) = GetPtr(s)
  BY DEF IInv, InUse
<1>2. HeaderOf(mapped, GetPtr(s)) = s
  BY HeaderFound DEF IInv, Shape
<1> QED BY <1>1, <1>2

(* free, and a realloc that moves, begin alike: the block leaves the blocks *)
(* in use, its segment the registry.                                        *)
LEMMA TakeStep ==
    ASSUME IInv, NEW t \in Threads, pc[t] = "idle",
           NEW b \in live, NEW s \in mapped, Lies(s, b), b.ptr % b.align = 0,
           NEW label \in {"munmap", "mremap"}, NEW n \in Nat \ {0},
           live' = live \ {b}, slots' = Unregister(slots, hasRegistry, s),
           pc' = [pc EXCEPT ![t] = label],
           op' = [op EXCEPT ![t] = [seg |-> s, block |-> b, size |-> n]],
           UNCHANGED <<hasRegistry, mapped, pads>>
    PROVE  IInv'
<1> USE DEF IInv
<1>1. /\ mapped \subseteq Segments /\ live \subseteq Blocks /\ DOMAIN op = Threads
      /\ pc \in [Threads -> {"idle", "register", "munmap", "mremap"}]
      /\ DOMAIN slots \subseteq Nat /\ Apart
  BY DEF Shape
<1>2. /\ Working(t)' /\ ~ Working(t) /\ pc'[t] = label
      /\ op'[t] = [seg |-> s, block |-> b, size |-> n]
      /\ \A u \in Threads : u # t => pc'[u] = pc[u] /\ op'[u] = op[u] /\ Working(u)' = Working(u)
  BY <1>1 DEF Working
<1>3. \A r \in mapped : Lies(r, b) => r = s
  BY <1>1, OneSegment
<1>4. \A u \in Threads : Working(u) => op[u].seg \in mapped /\ op[u].seg # s
  BY CallFacts DEF OneEach
<1>5. hasRegistry =>
        /\ DOMAIN slots' = DOMAIN slots /\ slots' = [j \in DOMAIN slots' |-> slots'[j]]
        /\ \A j \in DOMAIN slots :
             /\ slots[j] # s => slots'[j] = slots[j]
             /\ slots[j] = s => slots'[j] = NULL
  <2> SUFFICES ASSUME hasRegistry
               PROVE  /\ DOMAIN slots' = DOMAIN slots /\ slots' = [j \in DOMAIN slots' |-> slots'[j]]
                      /\ \A j \in DOMAIN slots :
                           /\ slots[j] # s => slots'[j] = slots[j]
                           /\ slots[j] = s => slots'[j] = NULL
    OBVIOUS
  <2>1. slots' = RemoveEntry(slots, s) /\ s \in Segments
    BY <1>1 DEF Unregister
  <2>2. \A j \in DOMAIN slots : slots[j] = s => Owns(s, j)
    BY <2>1, SegmentFacts DEF Registered
  <2>3. /\ DOMAIN slots' = DOMAIN slots /\ slots' = [j \in DOMAIN slots' |-> slots'[j]]
        /\ \A j \in DOMAIN slots :
             /\ slots[j] # s => slots'[j] = slots[j]
             /\ slots[j] = s /\ Owns(s, j) => slots'[j] = NULL
    <3> DEFINE new == RemoveEntry(slots, s)
    <3>1. /\ DOMAIN new = DOMAIN slots /\ new = [j \in DOMAIN new |-> new[j]]
          /\ \A j \in DOMAIN slots :
               /\ slots[j] # s => new[j] = slots[j]
               /\ slots[j] = s /\ Owns(s, j) => new[j] = NULL
      BY <2>1, <1>1, RemoveEntryFacts
    <3>2. slots' = new
      BY <2>1
    <3> HIDE DEF new
    <3> QED BY <3>1, <3>2
  <2> QED BY <2>2, <2>3
<1>6. ~ hasRegistry => slots' = slots
  BY DEF Unregister
<1>7. Shape'
  <2>1. slots' \in [DOMAIN slots' -> mapped' \union {NULL}] /\ DOMAIN slots' \subseteq Nat
    <3>1. CASE hasRegistry
      <4>1. \A j \in DOMAIN slots' : slots'[j] \in mapped \union {NULL}
        BY <3>1, <1>5 DEF Shape
      <4> QED BY <3>1, <4>1, <1>1, <1>5
    <3>2. CASE ~ hasRegistry
      BY <3>2, <1>6 DEF Shape
    <3> QED BY <3>1, <3>2
  <2>2. \A u \in Threads :
          IF Working(u)' THEN op'[u] \in [seg : mapped', block : Blocks, size : Nat \ {0}]
                         ELSE op'[u] = NoOp
    BY <1>1, <1>2 DEF Shape
  <2> QED BY <2>1, <2>2, <1>1 DEF Shape
<1>8. Apart' /\ InUse' /\ PadWords'
  BY DEF Apart, InUse, PadWords
<1>9. InCall'
  BY <1>2 DEF InCall
<1>10. OneEach'
  <2>1. \A u \in Threads, c \in live' : Working(u)' => ~ Lies(op'[u].seg, c)
    BY <1>2 DEF OneEach
  <2>2. \A u \in Threads, v \in Threads :
          Working(u)' /\ Working(v)' /\ op'[u].seg = op'[v].seg => u = v
    BY <1>2, <1>4 DEF OneEach
  <2>3. \A r \in mapped : \/ \E c \in live' : Lies(r, c)
                          \/ \E u \in Threads : Working(u)' /\ op'[u].seg = r
    BY <1>2, <1>3 DEF OneEach
  <2> QED BY <2>1, <2>2, <2>3 DEF OneEach
<1>11. Registered'
  <2>1. CASE hasRegistry
    <3>1. ASSUME NEW i \in DOMAIN slots', slots'[i] # NULL
          PROVE  Owns(slots'[i], i) /\ \E c \in live' : Lies(slots'[i], c)
      <4>1. i \in DOMAIN slots /\ slots'[i] = slots[i] /\ slots[i] # s
        BY <2>1, <3>1, <1>5
      <4>2. PICK c \in live : Lies(slots[i], c) /\ Owns(slots[i], i)
        BY <2>1, <3>1, <4>1 DEF Registered
      <4>3. slots[i] \in mapped
        BY <3>1, <4>1 DEF Shape
      <4>4. c # b
        BY <4>1, <4>2, <4>3, <1>3
      <4> QED BY <4>1, <4>2, <4>4
    <3>2. ASSUME NEW r \in mapped, NEW c \in live', NEW i \in Nat, Lies(r, c), Owns(r, i)
          PROVE  i \in DOMAIN slots' /\ slots'[i] = r
      <4>1. c \in live /\ c # b
        OBVIOUS
      <4>2. r # s
        BY <3>2, <4>1 DEF OneEach
      <4>3. i \in DOMAIN slots /\ slots[i] = r
        BY <2>1, <3>2, <4>1 DEF Registered
      <4> QED BY <2>1, <4>2, <4>3, <1>5
    <3>3. \A r \in mapped', c \in live', i \in Nat :
            Lies(r, c) /\ Owns(r, i) => i \in DOMAIN slots' /\ slots'[i] = r
      BY <3>2
    <3>4. \A i \in DOMAIN slots' : slots'[i] # NULL =>
            Owns(slots'[i], i) /\ \E c \in live' : Lies(slots'[i], c)
      BY <3>1
    <3>5. hasRegistry'
      BY <2>1
    <3> QED BY <3>3, <3>4, <3>5, Zenon DEF Registered
  <2>2. CASE ~ hasRegistry
    BY <2>2, <1>6 DEF Registered
  <2> QED BY <2>1, <2>2
<1> QED BY <1>7, <1>8, <1>9, <1>10, <1>11

LEMMA FreeStep ==
    ASSUME IInv, NEW t \in Threads, FreeBegin(t)
    PROVE  IInv'
<1>1. PICK b \in live :
        LET s == HeaderOf(mapped, Unpad(pads, b.ptr))
        IN  /\ live' = live \ {b}
            /\ slots' = Unregister(slots, hasRegistry, s)
            /\ Begin(t, "munmap", s, b)
  BY DEF FreeBegin
<1>2. PICK s \in mapped :
        /\ s = HeaderOf(mapped, Unpad(pads, b.ptr))
        /\ Lies(s, b) /\ b.ptr % b.align = 0
  BY FoundSegment
<1>3. /\ pc[t] = "idle" /\ UNCHANGED <<hasRegistry, mapped, pads>>
      /\ live' = live \ {b} /\ slots' = Unregister(slots, hasRegistry, s)
      /\ pc' = [pc EXCEPT ![t] = "munmap"]
      /\ op' = [op EXCEPT ![t] = [seg |-> s, block |-> b, size |-> b.size]]
  BY <1>1, <1>2 DEF FreeBegin, Begin
<1>4. b.size \in Nat \ {0}
  BY BlockFacts DEF IInv, Shape
<1>5. "munmap" \in {"munmap", "mremap"}
  OBVIOUS
<1> QED BY <1>2, <1>3, <1>4, <1>5, TakeStep

(* A segment of the system whose block is in use is not the one a thread    *)
(* gives back, and what it holds is elsewhere.                              *)
LEMMA OthersApart ==
    ASSUME IInv, NEW t \in Threads, Working(t), NEW c \in live, NEW r \in mapped, Lies(r, c)
    PROVE  /\ r # op[t].seg
           /\ c.ptr - 1 \in Int /\ Contain(r, c.ptr - 1) /\ ~ Contain(op[t].seg, c.ptr - 1)
<1>1. op[t].seg \in mapped /\ r \in Segments /\ c \in Blocks /\ mapped \subseteq Segments /\ Apart
  BY CallFacts DEF IInv, Shape
<1>2. r # op[t].seg
  BY DEF IInv, OneEach
<1>3. c.ptr - 1 \in Int /\ Contain(r, c.ptr - 1)
  BY <1>1, LiesFacts
<1> QED BY <1>1, <1>2, <1>3, OneHolds

LEMMA MunmapStep ==
    ASSUME IInv, NEW t \in Threads, Munmap(t)
    PROVE  IInv'
<1> USE DEF IInv
<1> DEFINE s == op[t].seg
<1>1. /\ pc[t] = "munmap" /\ UNCHANGED <<hasRegistry, slots, live>>
      /\ mapped' = mapped \ {s}
      /\ pads' = [a \in {w \in DOMAIN pads : ~ Contain(s, w)} |-> pads[a]]
      /\ pc' = [pc EXCEPT ![t] = "idle"] /\ op' = [op EXCEPT ![t] = NoOp]
  BY DEF Munmap, Finish
<1>2. Working(t) /\ s \in mapped
  BY <1>1, CallFacts DEF Working
<1>3. /\ mapped \subseteq Segments /\ live \subseteq Blocks /\ DOMAIN op = Threads
      /\ pc \in [Threads -> {"idle", "register", "munmap", "mremap"}]
  BY DEF Shape
<1>4. /\ ~ Working(t)' /\ pc'[t] = "idle" /\ op'[t] = NoOp
      /\ \A u \in Threads : u # t => pc'[u] = pc[u] /\ op'[u] = op[u] /\ Working(u)' = Working(u)
  BY <1>1, <1>3 DEF Working
<1>5. \A u \in Threads : u # t /\ Working(u) => op[u].seg \in mapped'
  BY <1>1, <1>2, CallFacts DEF OneEach
<1>6. \A c \in live, r \in mapped : Lies(r, c) =>
        r # s /\ c.ptr - 1 \in Int /\ ~ Contain(s, c.ptr - 1)
  BY <1>2, OthersApart
<1> HIDE DEF s
<1>7. Shape'
  <2>1. IsFiniteSet(mapped') /\ mapped' \subseteq Segments
    BY <1>1, FS_RemoveElement DEF Shape
  <2>2. slots' \in [DOMAIN slots' -> mapped' \union {NULL}] /\ DOMAIN slots' \subseteq Nat
    <3>1. \A j \in DOMAIN slots : slots[j] \in mapped' \union {NULL}
      BY <1>1, <1>6 DEF Shape, Registered
    <3> QED BY <3>1, <1>1 DEF Shape
  <2>3. pads' \in [DOMAIN pads' -> 0 .. PaddingRange - 1] /\ DOMAIN pads' \subseteq Int
    BY <1>1 DEF Shape
  <2>4. \A u \in Threads :
          IF Working(u)' THEN op'[u] \in [seg : mapped', block : Blocks, size : Nat \ {0}]
                         ELSE op'[u] = NoOp
    BY <1>4, <1>5 DEF Shape
  <2> QED BY <2>1, <2>2, <2>3, <2>4, <1>1, <1>3 DEF Shape
<1>8. Apart' /\ InCall'
  BY <1>1, <1>4 DEF Apart, InCall
<1>9. InUse'
  <2> SUFFICES ASSUME NEW c \in live
               PROVE  \E r \in mapped' : /\ Lies(r, c) /\ c.ptr % c.align = 0 /\ Tight(r, c)
                                         /\ Unpad(pads', c.ptr) = GetPtr(r)
    BY <1>1 DEF InUse
  <2>1. PICK r \in mapped : /\ Lies(r, c) /\ c.ptr % c.align = 0 /\ Tight(r, c)
                            /\ Unpad(pads, c.ptr) = GetPtr(r)
    BY DEF InUse
  <2>2. r \in mapped' /\ Unpad(pads', c.ptr) = Unpad(pads, c.ptr)
    BY <2>1, <1>1, <1>6 DEF Unpad
  <2> QED BY <2>1, <2>2
<1>10. OneEach'
  <2>1. \A r \in mapped' : \/ \E c \in live' : Lies(r, c)
                           \/ \E u \in Threads : Working(u)' /\ op'[u].seg = r
    BY <1>1, <1>4 DEF OneEach, s
  <2> QED BY <2>1, <1>1, <1>4 DEF OneEach
<1>11. PadWords'
  <2> SUFFICES ASSUME NEW w \in DOMAIN pads'
               PROVE  \E r \in mapped' : GetPtr(r) <= w /\ w < End(r)
    BY DEF PadWords
  <2>1. w \in DOMAIN pads /\ ~ Contain(s, w) /\ w \in Int
    BY <1>1 DEF Shape
  <2>2. PICK r \in mapped : GetPtr(r) <= w /\ w < End(r)
    BY <2>1 DEF PadWords
  <2>3. Contain(r, w)
    BY <2>1, <2>2, <1>3, SegmentFacts DEF Contain
  <2> QED BY <2>1, <2>2, <2>3, <1>1
<1>12. Registered'
  BY <1>1 DEF Registered
<1> QED BY <1>7, <1>8, <1>9, <1>10, <1>11, <1>12

(* A realloc in place keeps the segment, and the first address.             *)
LEMMA KeptBlock ==
    ASSUME NEW s \in Segments, NEW b \in Blocks, b.ptr = GetPtr(s),
           NEW size \in Sizes, KeptInPlace(InnerSize(s), size)
    PROVE  LET new == Block(b.ptr, size, 1)
           IN  /\ new \in Blocks /\ new.ptr = b.ptr /\ new.ptr % new.align = 0
               /\ Lies(s, new) /\ Tight(s, new)
<1> DEFINE new == Block(b.ptr, size, 1)
<1>1. /\ new.ptr = b.ptr /\ new.size = size /\ new.align = 1
      /\ b.ptr \in Nat /\ size \in Nat \ {0} /\ new \in Blocks
  BY Constants, BlockFacts DEF Block, Blocks
<1>2. b.ptr % 1 = 0
  BY <1>1, EveryAddressIsAligned
<1> HIDE DEF new
<1>3. /\ s.start \in Nat /\ s.size \in Nat /\ b.ptr = s.start + SegmentHeader
      /\ End(s) = s.start + s.size /\ InnerSize(s) = s.size - SegmentHeader
  BY SegmentFacts DEF GetPtr, End, InnerSize
<1>4. size <= s.size - SegmentHeader /\ s.size - SegmentHeader - size <= ReallocThreashold
  BY <1>3 DEF KeptInPlace
<1>5. Lies(s, new)
  BY <1>1, <1>3, <1>4, Constants DEF Lies
<1>6. TotalSize(CheckedSize(new.size, new.align)) \in Nat
  <2>1. CheckedSize(size, 1) \in Nat
    BY <1>1, CheckedSizeFacts
  <2> QED BY <1>1, <2>1, TotalSizeFacts
<1>7. Tight(s, new)
  BY <1>1, <1>3, <1>4, <1>6, Constants DEF Tight, MaxOf
<1> QED BY <1>1, <1>2, <1>5, <1>7 DEF new

LEMMA KeepStep ==
    ASSUME IInv, NEW t \in Threads,
           NEW b \in live, NEW s \in mapped, Lies(s, b),
           Unpad(pads, b.ptr) = GetPtr(s), b.ptr = GetPtr(s),
           NEW size \in Sizes, KeptInPlace(InnerSize(s), size),
           live' = (live \ {b}) \union {Block(b.ptr, size, 1)},
           UNCHANGED <<hasRegistry, mapped, slots, pads, pc, op>>
    PROVE  IInv'
<1> USE DEF IInv
<1> DEFINE new == Block(b.ptr, size, 1)
<1>1. /\ mapped \subseteq Segments /\ live \subseteq Blocks /\ Apart
      /\ b \in Blocks /\ s \in Segments
  BY DEF Shape
<1>2. /\ new \in Blocks /\ new.ptr = b.ptr /\ new.ptr % new.align = 0
      /\ Lies(s, new) /\ Tight(s, new)
  BY <1>1, KeptBlock
<1>3. live' = (live \ {b}) \union {new}
  OBVIOUS
<1> HIDE DEF new
<1>4. \A r \in mapped : (Lies(r, new) => r = s) /\ (Lies(r, b) => r = s)
  BY <1>1, <1>2, OneSegment
<1>5. \A u \in Threads : Working(u) => op[u].seg \in mapped /\ op[u].seg # s
  BY CallFacts DEF OneEach
<1>6. \A u \in Threads : Working(u)' = Working(u)
  BY DEF Working
<1>7. Shape'
  <2>1. live' \subseteq Blocks
    BY <1>1, <1>2, <1>3
  <2> QED BY <2>1, <1>6 DEF Shape
<1>8. Apart' /\ InCall' /\ PadWords'
  BY <1>6 DEF Apart, InCall, PadWords
<1>9. InUse'
  BY <1>2, <1>3 DEF InUse
<1>10. OneEach'
  <2>1. \A c \in live', d \in live', r \in mapped : Lies(r, c) /\ Lies(r, d) => c = d
    BY <1>3, <1>4 DEF OneEach
  <2>2. \A u \in Threads, c \in live' : Working(u) => ~ Lies(op[u].seg, c)
    BY <1>3, <1>4, <1>5 DEF OneEach
  <2>3. \A r \in mapped : \/ \E c \in live' : Lies(r, c)
                          \/ \E u \in Threads : Working(u) /\ op[u].seg = r
    BY <1>2, <1>3, <1>4 DEF OneEach
  <2> QED BY <2>1, <2>2, <2>3, <1>6 DEF OneEach
<1>11. Registered'
  <2>1. CASE hasRegistry
    <3>1. ASSUME NEW i \in DOMAIN slots, slots[i] # NULL
          PROVE  Owns(slots[i], i) /\ \E c \in live' : Lies(slots[i], c)
      <4>1. PICK c \in live : Lies(slots[i], c) /\ Owns(slots[i], i)
        BY <2>1, <3>1 DEF Registered
      <4>2. CASE c = b
        <5>1. slots[i] = s
          BY <3>1, <4>1, <4>2, <1>4 DEF Shape
        <5> QED BY <5>1, <4>1, <1>2, <1>3
      <4>3. CASE c # b
        BY <4>1, <4>3, <1>3
      <4> QED BY <4>2, <4>3
    <3>2. ASSUME NEW r \in mapped, NEW c \in live', NEW i \in Nat, Lies(r, c), Owns(r, i)
          PROVE  i \in DOMAIN slots /\ slots[i] = r
      <4>1. \E d \in live : Lies(r, d)
        BY <3>2, <1>3, <1>4
      <4> QED BY <4>1, <3>2, <2>1 DEF Registered
    <3>3. /\ \A r \in mapped', c \in live', i \in Nat :
               Lies(r, c) /\ Owns(r, i) => i \in DOMAIN slots' /\ slots'[i] = r
          /\ \A i \in DOMAIN slots' : slots'[i] # NULL =>
               Owns(slots'[i], i) /\ \E c \in live' : Lies(slots'[i], c)
          /\ hasRegistry'
      BY <2>1, <3>1, <3>2
    <3> QED BY <3>3, Zenon DEF Registered
  <2>2. CASE ~ hasRegistry
    BY <2>2 DEF Registered
  <2> QED BY <2>1, <2>2
<1> QED BY <1>7, <1>8, <1>9, <1>10, <1>11

(* What realloc does with a block: keep it, or begin to move it.            *)
LEMMA ReallocCases ==
    ASSUME IInv, ReallocPadded = FALSE, NEW t \in Threads, ReallocBegin(t)
    PROVE  \E b \in live, s \in mapped, size \in Sizes :
             /\ pc[t] = "idle" /\ UNCHANGED <<hasRegistry, mapped, pads>>
             /\ Lies(s, b) /\ b.ptr % b.align = 0
             /\ Unpad(pads, b.ptr) = GetPtr(s) /\ b.ptr = GetPtr(s)
             /\ \/ /\ KeptInPlace(InnerSize(s), size)
                   /\ live' = (live \ {b}) \union {Block(b.ptr, size, 1)}
                   /\ UNCHANGED <<slots, pc, op>>
                \/ /\ live' = live \ {b}
                   /\ slots' = Unregister(slots, hasRegistry, s)
                   /\ pc' = [pc EXCEPT ![t] = "mremap"]
                   /\ op' = [op EXCEPT ![t] = [seg |-> s, block |-> b, size |-> size]]
<1>1. PICK b \in Resizable, size \in Sizes :
        LET s == HeaderOf(mapped, Unpad(pads, b.ptr))
        IN  \/ /\ KeptInPlace(InnerSize(s), size)
               /\ live' = (live \ {b}) \union {Block(b.ptr, size, 1)}
               /\ UNCHANGED <<slots, pc, op>>
            \/ /\ live' = live \ {b}
               /\ slots' = Unregister(slots, hasRegistry, s)
               /\ pc' = [pc EXCEPT ![t] = "mremap"]
               /\ op' = [op EXCEPT ![t] = [seg |-> s, block |-> b, size |-> size]]
  BY DEF ReallocBegin
<1>2. b \in live /\ Unpad(pads, b.ptr) = b.ptr
  BY DEF Resizable
<1>3. PICK s \in mapped :
        /\ s = HeaderOf(mapped, Unpad(pads, b.ptr))
        /\ Unpad(pads, b.ptr) = GetPtr(s)
        /\ Lies(s, b) /\ b.ptr % b.align = 0
  BY <1>2, FoundSegment
<1>4. pc[t] = "idle" /\ UNCHANGED <<hasRegistry, mapped, pads>>
  BY DEF ReallocBegin
<1>5. \/ /\ KeptInPlace(InnerSize(s), size)
         /\ live' = (live \ {b}) \union {Block(b.ptr, size, 1)}
         /\ UNCHANGED <<slots, pc, op>>
      \/ /\ live' = live \ {b}
         /\ slots' = Unregister(slots, hasRegistry, s)
         /\ pc' = [pc EXCEPT ![t] = "mremap"]
         /\ op' = [op EXCEPT ![t] = [seg |-> s, block |-> b, size |-> size]]
  BY <1>1, <1>3
<1>6. b.ptr = GetPtr(s) /\ size \in Sizes
  BY <1>2, <1>3
<1> QED BY <1>2, <1>3, <1>4, <1>5, <1>6, Zenon

LEMMA ReallocStep ==
    ASSUME IInv, ReallocPadded = FALSE, NEW t \in Threads, ReallocBegin(t)
    PROVE  IInv'
<1>1. PICK b \in live, s \in mapped, size \in Sizes :
        /\ pc[t] = "idle" /\ UNCHANGED <<hasRegistry, mapped, pads>>
        /\ Lies(s, b) /\ b.ptr % b.align = 0
        /\ Unpad(pads, b.ptr) = GetPtr(s) /\ b.ptr = GetPtr(s)
        /\ \/ /\ KeptInPlace(InnerSize(s), size)
              /\ live' = (live \ {b}) \union {Block(b.ptr, size, 1)}
              /\ UNCHANGED <<slots, pc, op>>
           \/ /\ live' = live \ {b}
              /\ slots' = Unregister(slots, hasRegistry, s)
              /\ pc' = [pc EXCEPT ![t] = "mremap"]
              /\ op' = [op EXCEPT ![t] = [seg |-> s, block |-> b, size |-> size]]
  BY ReallocCases
<1>2. CASE /\ KeptInPlace(InnerSize(s), size)
           /\ live' = (live \ {b}) \union {Block(b.ptr, size, 1)}
           /\ UNCHANGED <<slots, pc, op>>
  BY <1>1, <1>2, KeepStep
<1>3. CASE /\ live' = live \ {b}
           /\ slots' = Unregister(slots, hasRegistry, s)
           /\ pc' = [pc EXCEPT ![t] = "mremap"]
           /\ op' = [op EXCEPT ![t] = [seg |-> s, block |-> b, size |-> size]]
  <2>1. "mremap" \in {"munmap", "mremap"} /\ size \in Nat \ {0}
    BY Constants
  <2> QED BY <2>1, <1>1, <1>3, TakeStep
<1> QED BY <1>1, <1>2, <1>3

(* The block realloc makes of a segment that moved.                         *)
LEMMA MovedBlock ==
    ASSUME NEW size \in Nat \ {0}, NEW s \in Segments, s.size = TotalSize(size)
    PROVE  LET b == Block(GetPtr(s), size, 1)
           IN  /\ b \in Blocks /\ Lies(s, b) /\ b.ptr % b.align = 0 /\ Tight(s, b)
               /\ b.ptr - GetPtr(s) < PaddingRange
<1> DEFINE first == GetPtr(s)
           b     == Block(first, size, 1)
           inner == CheckedSize(size, 1)
<1>1. first \in Nat /\ first = s.start + SegmentHeader /\ s.start \in Nat
  BY SegmentFacts DEF GetPtr
<1> HIDE DEF first
<1>2. b.ptr = first /\ b.size = size /\ b.align = 1 /\ b \in Blocks
  BY <1>1 DEF Block, Blocks
<1>3. first % 1 = 0
  BY <1>1, EveryAddressIsAligned
<1> HIDE DEF b
<1>4. End(s) = s.start + TotalSize(size)
  BY DEF End
<1>5. /\ TotalSize(size) \in Nat /\ size + SegmentHeader <= TotalSize(size)
      /\ inner \in Nat /\ size <= inner
  BY TotalSizeFacts, CheckedSizeFacts
<1> HIDE DEF inner
<1>6. TotalSize(size) <= TotalSize(inner) /\ TotalSize(inner) \in Nat
  BY <1>5, TotalSizeFacts
<1>7. Lies(s, b)
  BY <1>1, <1>2, <1>4, <1>5, Constants DEF Lies, first
<1>8. Tight(s, b)
  <2>1. inner = CheckedSize(b.size, b.align)
    BY <1>2 DEF inner
  <2>2. End(s) - b.ptr <= TotalSize(inner) /\ End(s) - b.ptr \in Int
    BY <1>1, <1>2, <1>4, <1>5, <1>6, Constants
  <2>3. End(s) - b.ptr <= MaxOf(b.size + ReallocThreashold, TotalSize(inner))
    BY <2>2, <1>2, <1>6, Constants DEF MaxOf
  <2> QED BY <2>1, <2>3 DEF Tight
<1>9. b.ptr - first < PaddingRange
  BY <1>1, <1>2, Constants
<1> QED BY <1>2, <1>3, <1>7, <1>8, <1>9 DEF b, first

(* What a segment that moves takes along: the words of the others stay.     *)
LEMMA MovedPadsFacts ==
    ASSUME Shape, NEW old \in Segments, NEW new \in Segments
    PROVE  LET words == MovedPads(old, new)
           IN  /\ words \in [DOMAIN words -> 0 .. PaddingRange - 1] /\ DOMAIN words \subseteq Int
               /\ \A w \in Int : ~ Contain(old, w) /\ ~ Contain(new, w) =>
                    /\ w \in DOMAIN words <=> w \in DOMAIN pads
                    /\ w \in DOMAIN pads => words[w] = pads[w]
               /\ \A w \in DOMAIN words :
                    \/ w \in DOMAIN pads /\ ~ Contain(old, w)
                    \/ /\ Contain(new, w)
                       /\ w - new.start + old.start \in DOMAIN pads
                       /\ Contain(old, w - new.start + old.start)
<1> DEFINE From(w) == w - new.start + old.start
           kept    == {w \in DOMAIN pads : ~ Contain(old, w)}
           moved   == {w \in new.start .. End(new) - 1 : Contain(old, From(w)) /\ From(w) \in DOMAIN pads}
           words   == MovedPads(old, new)
<1>1. pads \in [DOMAIN pads -> 0 .. PaddingRange - 1] /\ DOMAIN pads \subseteq Int
  BY DEF Shape
<1>2. words = [w \in kept \union moved |-> IF w \in moved THEN pads[From(w)] ELSE pads[w]]
  BY DEF MovedPads
<1>3. new.start \in Nat /\ End(new) \in Nat
  BY SegmentFacts
<1>4. \A w \in moved : w \in Int /\ Contain(new, w) /\ From(w) \in DOMAIN pads /\ Contain(old, From(w))
  BY <1>3 DEF Contain
<1>5. \A w \in kept : w \in DOMAIN pads /\ ~ Contain(old, w)
  OBVIOUS
<1>6. \A w \in DOMAIN pads : ~ Contain(old, w) => w \in kept
  OBVIOUS
<1> HIDE DEF kept, moved, words
<1>7. DOMAIN words = kept \union moved
  BY <1>2
<1>8. \A w \in DOMAIN words : words[w] = IF w \in moved THEN pads[From(w)] ELSE pads[w]
  BY <1>2
<1>9. words = [w \in DOMAIN words |-> words[w]]
  BY <1>2
<1>10. \A w \in DOMAIN words : words[w] \in 0 .. PaddingRange - 1
  BY <1>1, <1>4, <1>5, <1>7, <1>8
<1>11. DOMAIN words \subseteq Int
  BY <1>1, <1>4, <1>5, <1>7
<1>12. \A w \in Int : ~ Contain(old, w) /\ ~ Contain(new, w) =>
         /\ w \in DOMAIN words <=> w \in DOMAIN pads
         /\ w \in DOMAIN pads => words[w] = pads[w]
  BY <1>4, <1>5, <1>6, <1>7, <1>8
<1>13. \A w \in DOMAIN words :
         \/ w \in DOMAIN pads /\ ~ Contain(old, w)
         \/ /\ Contain(new, w)
            /\ From(w) \in DOMAIN pads /\ Contain(old, From(w))
  BY <1>4, <1>5, <1>7
<1>14. words \in [DOMAIN words -> 0 .. PaddingRange - 1]
  BY <1>9, <1>10
<1> QED BY <1>11, <1>12, <1>13, <1>14 DEF words

LEMMA MremapStep ==
    ASSUME IInv, NEW t \in Threads, Mremap(t)
    PROVE  IInv'
<1> USE DEF IInv
<1> DEFINE old  == op[t].seg
           size == op[t].size
<1>1. PICK s \in Remapped(mapped, old, TotalSize(size)) :
        /\ mapped' = (mapped \ {old}) \union {s}
        /\ pads' = MovedPads(old, s)
        /\ Begin(t, "register", s, Block(GetPtr(s), size, 1))
  BY DEF Mremap
<1> DEFINE b == Block(GetPtr(s), size, 1)
<1>2. /\ pc[t] = "mremap" /\ UNCHANGED <<hasRegistry, slots, live>>
      /\ pc' = [pc EXCEPT ![t] = "register"]
      /\ op' = [op EXCEPT ![t] = [seg |-> s, block |-> b, size |-> b.size]]
  BY <1>1 DEF Mremap, Begin
<1>3. Working(t) /\ old \in mapped /\ old \in Segments /\ size \in Nat \ {0}
  BY <1>2, CallFacts DEF Working
<1>4. /\ mapped \subseteq Segments /\ live \subseteq Blocks /\ DOMAIN op = Threads
      /\ pc \in [Threads -> {"idle", "register", "munmap", "mremap"}]
  BY DEF Shape
<1>5. /\ s \in Segments /\ s.size = TotalSize(size)
      /\ \A r \in mapped \ {old} : Disjoint(s, r) /\ s # r
  <2>1. s \in Free(mapped \ {old}, TotalSize(size))
    BY DEF Remapped
  <2>2. mapped \ {old} \in SUBSET Segments
    BY <1>4
  <2> HIDE DEF size, old
  <2> QED BY <2>1, <2>2, <1>3, FreeFacts
<1>6. /\ b \in Blocks /\ Lies(s, b) /\ b.ptr % b.align = 0 /\ Tight(s, b)
      /\ b.ptr - GetPtr(s) < PaddingRange
  <2> HIDE DEF size
  <2> QED BY <1>3, <1>5, MovedBlock
<1> HIDE DEF b
<1>7. /\ Working(t)' /\ pc'[t] = "register"
      /\ op'[t] = [seg |-> s, block |-> b, size |-> b.size]
      /\ \A u \in Threads : u # t => pc'[u] = pc[u] /\ op'[u] = op[u] /\ Working(u)' = Working(u)
  BY <1>2, <1>4 DEF Working
<1>8. \A u \in Threads : u # t /\ Working(u) => op[u].seg \in mapped \ {old}
  BY <1>3, CallFacts DEF OneEach
<1>9. \A c \in live, r \in mapped : Lies(r, c) =>
        r \in mapped \ {old} /\ c.ptr - 1 \in Int /\ ~ Contain(old, c.ptr - 1) /\ Contain(r, c.ptr - 1)
  BY <1>3, OthersApart
<1> HIDE DEF old, size
<1>10. \A c \in live : ~ Lies(s, c)
  <2> SUFFICES ASSUME NEW c \in live, Lies(s, c) PROVE FALSE
    OBVIOUS
  <2>1. PICK r \in mapped : Lies(r, c)
    BY DEF InUse
  <2>2. r \in mapped \ {old}
    BY <2>1, <1>9
  <2> QED BY <2>1, <2>2, <1>4, <1>5, ApartLies
<1>11. /\ pads' \in [DOMAIN pads' -> 0 .. PaddingRange - 1] /\ DOMAIN pads' \subseteq Int
       /\ \A w \in Int : ~ Contain(old, w) /\ ~ Contain(s, w) =>
            /\ w \in DOMAIN pads' <=> w \in DOMAIN pads
            /\ w \in DOMAIN pads => pads'[w] = pads[w]
       /\ \A w \in DOMAIN pads' :
            \/ w \in DOMAIN pads /\ ~ Contain(old, w)
            \/ /\ Contain(s, w)
               /\ w - s.start + old.start \in DOMAIN pads
               /\ Contain(old, w - s.start + old.start)
  <2> DEFINE words == MovedPads(old, s)
  <2>1. /\ words \in [DOMAIN words -> 0 .. PaddingRange - 1] /\ DOMAIN words \subseteq Int
        /\ \A w \in Int : ~ Contain(old, w) /\ ~ Contain(s, w) =>
             /\ w \in DOMAIN words <=> w \in DOMAIN pads
             /\ w \in DOMAIN pads => words[w] = pads[w]
        /\ \A w \in DOMAIN words :
             \/ w \in DOMAIN pads /\ ~ Contain(old, w)
             \/ /\ Contain(s, w)
                /\ w - s.start + old.start \in DOMAIN pads
                /\ Contain(old, w - s.start + old.start)
    BY <1>3, <1>5, MovedPadsFacts
  <2>2. pads' = words
    BY <1>1
  <2> HIDE DEF words
  <2> QED BY <2>1, <2>2
<1>12. \A r \in mapped \ {old}, w \in Int : Contain(r, w) => ~ Contain(s, w) /\ ~ Contain(old, w)
  <2> SUFFICES ASSUME NEW r \in mapped \ {old}, NEW w \in Int, Contain(r, w)
               PROVE  ~ Contain(s, w) /\ ~ Contain(old, w)
    OBVIOUS
  <2>1. ~ Contain(old, w)
    BY <1>3, <1>4, OneHolds
  <2>2. Disjoint(s, r) /\ r \in Segments /\ s \in Segments
    BY <1>4, <1>5
  <2>3. ~ Contain(s, w)
    BY <2>2, SegmentFacts DEF Disjoint, Contain
  <2> QED BY <2>1, <2>3
<1>13. Shape'
  <2>1. IsFiniteSet(mapped') /\ mapped' \subseteq Segments
    <3>1. IsFiniteSet(mapped \ {old})
      BY FS_RemoveElement DEF Shape
    <3> QED BY <3>1, <1>1, <1>4, <1>5, FS_AddElement
  <2>2. slots' \in [DOMAIN slots' -> mapped' \union {NULL}] /\ DOMAIN slots' \subseteq Nat
    <3>1. \A j \in DOMAIN slots : slots[j] \in mapped' \union {NULL}
      BY <1>1, <1>9 DEF Shape, Registered
    <3> QED BY <3>1, <1>2 DEF Shape
  <2>3. \A u \in Threads :
          IF Working(u)' THEN op'[u] \in [seg : mapped', block : Blocks, size : Nat \ {0}]
                         ELSE op'[u] = NoOp
    <3> SUFFICES ASSUME NEW u \in Threads
                 PROVE  IF Working(u)' THEN op'[u] \in [seg : mapped', block : Blocks, size : Nat \ {0}]
                                       ELSE op'[u] = NoOp
      OBVIOUS
    <3>1. CASE u = t
      BY <3>1, <1>1, <1>6, <1>7, BlockFacts
    <3>2. CASE u # t
      BY <3>2, <1>1, <1>7, <1>8 DEF Shape
    <3> QED BY <3>1, <3>2
  <2> QED BY <2>1, <2>2, <2>3, <1>2, <1>4, <1>11 DEF Shape
<1>14. Apart'
  BY <1>1, <1>5 DEF Apart, Disjoint
<1>15. InCall'
  BY <1>6, <1>7 DEF InCall
<1>16. InUse'
  <2> SUFFICES ASSUME NEW c \in live
               PROVE  \E r \in mapped' : /\ Lies(r, c) /\ c.ptr % c.align = 0 /\ Tight(r, c)
                                         /\ Unpad(pads', c.ptr) = GetPtr(r)
    BY <1>2 DEF InUse
  <2>1. PICK r \in mapped : /\ Lies(r, c) /\ c.ptr % c.align = 0 /\ Tight(r, c)
                            /\ Unpad(pads, c.ptr) = GetPtr(r)
    BY DEF InUse
  <2>2. r \in mapped \ {old} /\ c.ptr - 1 \in Int /\ Contain(r, c.ptr - 1)
    BY <2>1, <1>9
  <2>3. Unpad(pads', c.ptr) = Unpad(pads, c.ptr)
    BY <2>2, <1>11, <1>12 DEF Unpad
  <2> QED BY <2>1, <2>2, <2>3, <1>1
<1>17. OneEach'
  <2>1. \A c \in live, d \in live, r \in mapped' : Lies(r, c) /\ Lies(r, d) => c = d
    BY <1>1, <1>10 DEF OneEach
  <2>2. \A u \in Threads, c \in live : Working(u)' => ~ Lies(op'[u].seg, c)
    BY <1>7, <1>10 DEF OneEach
  <2>3. \A u \in Threads, v \in Threads :
          Working(u)' /\ Working(v)' /\ op'[u].seg = op'[v].seg => u = v
    BY <1>5, <1>7, <1>8 DEF OneEach
  <2>4. \A r \in mapped' : \/ \E c \in live : Lies(r, c)
                           \/ \E u \in Threads : Working(u)' /\ op'[u].seg = r
    BY <1>1, <1>7 DEF OneEach, old
  <2> QED BY <2>1, <2>2, <2>3, <2>4, <1>2 DEF OneEach
<1>18. PadWords'
  <2> SUFFICES ASSUME NEW w \in DOMAIN pads'
               PROVE  \E r \in mapped' : GetPtr(r) <= w /\ w < End(r)
    BY DEF PadWords
  <2>0. w \in Int
    BY <1>11
  <2>1. CASE w \in DOMAIN pads /\ ~ Contain(old, w)
    <3>1. PICK r \in mapped : GetPtr(r) <= w /\ w < End(r)
      BY <2>1 DEF PadWords
    <3>2. Contain(r, w)
      BY <3>1, <2>0, <1>4, SegmentFacts DEF Contain
    <3> QED BY <3>1, <3>2, <2>1, <1>1
  <2>2. CASE /\ Contain(s, w)
             /\ w - s.start + old.start \in DOMAIN pads
             /\ Contain(old, w - s.start + old.start)
    <3> DEFINE from == w - s.start + old.start
    <3>1. from \in Int
      BY <2>0, <1>3, <1>5, SegmentFacts
    <3>2. PICK r \in mapped : GetPtr(r) <= from /\ from < End(r)
      BY <2>2 DEF PadWords
    <3>3. Contain(r, from)
      BY <3>1, <3>2, <1>4, SegmentFacts DEF Contain
    <3>4. r = old
      BY <3>1, <3>3, <2>2, <1>3, <1>4, OneHolds
    <3>5. GetPtr(s) <= w /\ w < End(s)
      BY <3>2, <3>4, <2>0, <2>2, <1>3, <1>5, SegmentFacts, Constants DEF GetPtr, Contain
    <3> QED BY <3>5, <1>1
  <2> QED BY <2>1, <2>2, <1>11
<1>19. Registered'
  <2>1. \A c \in live, r \in mapped' : Lies(r, c) => r \in mapped
    BY <1>1, <1>10
  <2> QED BY <2>1, <1>2 DEF Registered
<1> QED BY <1>13, <1>14, <1>15, <1>16, <1>17, <1>18, <1>19

LEMMA NextStep ==
    ASSUME ReallocPadded = FALSE, IInv, [Next]_vars
    PROVE  IInv'
<1>1. CASE Next
  <2>1. PICK t \in Threads : \/ MallocMap(t) \/ RegisterSegment(t)
                             \/ FreeBegin(t) \/ Munmap(t)
                             \/ ReallocBegin(t) \/ Mremap(t)
    BY <1>1 DEF Next
  <2>2. CASE MallocMap(t)
    BY <2>2, MallocStep
  <2>3. CASE RegisterSegment(t)
    BY <2>3, RegisterStep
  <2>4. CASE FreeBegin(t)
    BY <2>4, FreeStep
  <2>5. CASE Munmap(t)
    BY <2>5, MunmapStep
  <2>6. CASE ReallocBegin(t)
    BY <2>6, ReallocStep
  <2>7. CASE Mremap(t)
    BY <2>7, MremapStep
  <2> QED BY <2>1, <2>2, <2>3, <2>4, <2>5, <2>6, <2>7
<1>2. CASE UNCHANGED vars
  <2>1. \A t \in Threads : Working(t)' = Working(t)
    BY <1>2 DEF vars, Working
  <2> QED
    BY <1>2, <2>1
       DEF vars, IInv, Shape, Apart, InUse, InCall, OneEach, PadWords, Registered
<1> QED BY <1>1, <1>2

-----------------------------------------------------------------------------
(* What the invariant says of the blocks *)

(* One segment for one block, one block for one segment.                    *)
OneToOne ==
    /\ Holding \subseteq Blocks
    /\ \A b \in Holding : b.ptr % b.align = 0 /\ \E s \in mapped : Lies(s, b)
    /\ \A s \in mapped : \E b \in Holding : Lies(s, b)
    /\ \A b \in Holding, c \in Holding, s \in mapped : Lies(s, b) /\ Lies(s, c) => b = c

LEMMA HoldingFacts == IInv => OneToOne
<1> SUFFICES ASSUME IInv PROVE OneToOne
  OBVIOUS
<1> USE DEF IInv
<1>1. mapped \subseteq Segments /\ live \subseteq Blocks /\ Apart
  BY DEF Shape
<1>2. Holding = live \union {op[t].block : t \in {u \in Threads : Working(u)}}
  BY DEF Holding, Pending, Working
<1>3. \A t \in Threads : Working(t) =>
        /\ op[t].seg \in mapped /\ op[t].block \in Blocks /\ Lies(op[t].seg, op[t].block)
        /\ op[t].block.ptr % op[t].block.align = 0
  BY CallFacts DEF InCall
<1>4. Holding \subseteq Blocks
  BY <1>1, <1>2, <1>3
<1>5. \A b \in Holding : b.ptr % b.align = 0 /\ \E s \in mapped : Lies(s, b)
  BY <1>2, <1>3 DEF InUse
<1>6. \A s \in mapped : \E b \in Holding : Lies(s, b)
  BY <1>2, <1>3 DEF OneEach
<1>7. ASSUME NEW b \in Holding, NEW c \in Holding, NEW s \in mapped, Lies(s, b), Lies(s, c)
      PROVE  b = c
  <2>1. ASSUME NEW d \in live, NEW t \in Threads, Working(t), Lies(s, d), Lies(s, op[t].block)
        PROVE  FALSE
    <3>1. s = op[t].seg
      BY <2>1, <1>1, <1>3, OneSegment
    <3> QED BY <2>1, <3>1 DEF OneEach
  <2>2. ASSUME NEW t \in Threads, Working(t), NEW u \in Threads, Working(u),
               Lies(s, op[t].block), Lies(s, op[u].block)
        PROVE  t = u
    <3>1. s = op[t].seg /\ s = op[u].seg
      BY <2>2, <1>1, <1>3, OneSegment
    <3> QED BY <2>2, <3>1 DEF OneEach
  <2>3. CASE b \in live /\ c \in live
    BY <2>3, <1>7 DEF OneEach
  <2>4. CASE b \in live /\ c \notin live
    BY <2>4, <2>1, <1>2, <1>7
  <2>5. CASE b \notin live /\ c \in live
    BY <2>5, <2>1, <1>2, <1>7
  <2>6. CASE b \notin live /\ c \notin live
    BY <2>6, <2>2, <1>2, <1>7
  <2> QED BY <2>3, <2>4, <2>5, <2>6
<1> QED BY <1>4, <1>5, <1>6, <1>7 DEF OneToOne

LEMMA AsManySegments ==
    ASSUME IInv
    PROVE  Cardinality(mapped) = Cardinality(Holding)
<1>1. OneToOne /\ mapped \subseteq Segments /\ Apart /\ IsFiniteSet(mapped)
  BY HoldingFacts DEF IInv, Shape
<1> DEFINE f == [s \in mapped |-> CHOOSE b \in Holding : Lies(s, b)]
<1>2. \A s \in mapped : f[s] \in Holding /\ Lies(s, f[s])
  BY <1>1 DEF OneToOne
<1>3. f \in [mapped -> Holding]
  BY <1>2
<1> HIDE DEF f
<1>4. \A s \in mapped, r \in mapped : f[s] = f[r] => s = r
  BY <1>1, <1>2, OneSegment DEF OneToOne
<1>5. \A b \in Holding : \E s \in mapped : f[s] = b
  BY <1>1, <1>2 DEF OneToOne
<1>6. f \in Bijection(mapped, Holding)
  <2>1. DOMAIN f = mapped
    BY <1>3
  <2>2. IsInjective(f)
    BY <2>1, <1>4 DEF IsInjective
  <2> QED BY <2>2, <1>3, <1>5 DEF Bijection, Injection, Surjection
<1> QED BY <1>1, <1>6, FS_Bijection DEF ExistsBijection

-----------------------------------------------------------------------------
(* Theorems *)

(* The inductive invariant holds in every state.                            *)
THEOREM Invariant ==
    ASSUME ReallocPadded = FALSE
    PROVE  Spec => []IInv
<1>1. Init => IInv
  BY InitHolds
<1>2. IInv /\ [Next]_vars => IInv'
  BY NextStep
<1> QED BY <1>1, <1>2, PTL DEF Spec

(* malloc, free and realloc keep one segment of the system for each block,  *)
(* from its header to its last byte, and give it back whole.                *)
THEOREM SegmentsAreExact ==
    ASSUME ReallocPadded = FALSE
    PROVE  Spec => []SegmentsExact
<1>1. ASSUME IInv PROVE SegmentsExact
  <2>1. TypeOK
    <3>1. \A t \in Threads : op[t].seg = NULL <=> pc[t] = "idle"
      <4> SUFFICES ASSUME NEW t \in Threads PROVE op[t].seg = NULL <=> pc[t] = "idle"
        OBVIOUS
      <4>1. CASE Working(t)
        <5>1. op[t].seg \in Segments
          BY <4>1, <1>1, CallFacts DEF IInv
        <5> QED BY <4>1, <5>1, SegmentFacts DEF Working
      <4>2. CASE ~ Working(t)
        BY <4>2, <1>1 DEF Working, IInv, Shape, NoOp
      <4> QED BY <4>1, <4>2
    <3> QED BY <3>1, <1>1 DEF TypeOK, IInv, Shape, Segments
  <2>2. OneSegmentPerBlock
    <3>1. Cardinality(mapped) = Cardinality(Holding) /\ OneToOne
      BY <1>1, AsManySegments, HoldingFacts
    <3> QED BY <3>1 DEF OneToOne, OneSegmentPerBlock, Lies
  <2>3. WholeSegments
    BY <1>1, CallFacts DEF WholeSegments, Working, IInv
  <2> QED BY <2>1, <2>2, <2>3 DEF SegmentsExact
<1> QED BY <1>1, Invariant, PTL

(* getInnerSize answers at least what was asked, and malloc, realloc in     *)
(* place and realloc by a move never waste more than their bound.           *)
THEOREM InnerSizeIsTight ==
    ASSUME ReallocPadded = FALSE
    PROVE  Spec => []InnerSizeTight
<1>1. ASSUME IInv PROVE InnerSizeTight
  <2> SUFFICES ASSUME NEW b \in live
               PROVE  /\ b.size <= GetInnerSize(b.ptr)
                      /\ GetInnerSize(b.ptr) <=
                           MaxOf(b.size + ReallocThreashold, TotalSize(CheckedSize(b.size, b.align)))
    BY DEF InnerSizeTight
  <2>1. PICK s \in mapped :
          /\ s = HeaderOf(mapped, Unpad(pads, b.ptr)) /\ Unpad(pads, b.ptr) = GetPtr(s)
          /\ Lies(s, b) /\ Tight(s, b)
    BY <1>1, FoundSegment
  <2>2. s \in Segments /\ b \in Blocks
    BY <1>1 DEF IInv, Shape
  <2>3. GetInnerSize(b.ptr) = InnerSize(s) - (b.ptr - GetPtr(s))
    BY <2>1 DEF GetInnerSize
  <2>4. /\ b.ptr \in Nat /\ b.size \in Nat /\ s.start \in Nat /\ s.size \in Nat
        /\ End(s) = s.start + s.size /\ GetPtr(s) = s.start + SegmentHeader
        /\ InnerSize(s) = s.size - SegmentHeader
    BY <2>2, SegmentFacts, BlockFacts DEF End, GetPtr, InnerSize
  <2>5. GetInnerSize(b.ptr) = End(s) - b.ptr
    BY <2>3, <2>4, Constants
  <2>6. b.size <= End(s) - b.ptr
    BY <2>1, <2>4 DEF Lies
  <2> QED BY <2>1, <2>5, <2>6 DEF Tight
<1> QED BY <1>1, Invariant, PTL

(* getSegment on a table that has the slots of a segment, and none of the   *)
(* slots of the segments before it.                                         *)
LEMMA LookUp ==
    ASSUME IInv, hasRegistry, NEW b \in live, NEW s \in mapped, Lies(s, b),
           NEW a \in Nat, Contain(s, a)
    PROVE  GetSegment(slots, a) = s
<1> USE DEF IInv
<1> DEFINE p    == a \div Split
           last == (p + 1) * Split - 1
           near == Entry(slots, a)
<1>1. /\ mapped \subseteq Segments /\ s \in Segments /\ Apart
      /\ s.start \in Nat /\ s.size \in Nat /\ s.size >= Split /\ End(s) = s.start + s.size
      /\ s.start <= a /\ a < s.start + s.size /\ s # NULL
  BY SegmentFacts DEF Shape, Contain, End
<1>2. /\ p \in Nat /\ last \in Int /\ a <= last
      /\ ~ last < s.start + s.size =>
           /\ p - 1 \in Nat
           /\ s.start <= ((p - 1) + 1) * Split - 1
           /\ ((p - 1) + 1) * Split - 1 < s.start + s.size
           /\ (a - Split) \div Split = p - 1
  BY <1>1, SlotOrPrevious, Constants
<1>3. SlotOf(a) = p /\ SlotOf(a - Split) = (a - Split) \div Split
      /\ LastByte(p) = last /\ LastByte(p - 1) = ((p - 1) + 1) * Split - 1
  BY DEF SlotOf, LastByte
<1>4. \A i \in Nat : Owns(s, i) => i \in DOMAIN slots /\ slots[i] = s
  BY DEF Registered
<1>5. \A i \in Nat : Owns(s, i) <=> s.start <= LastByte(i) /\ LastByte(i) < End(s)
  BY <1>1, OwnsFacts
<1> HIDE DEF p, last
<1>6. CASE last < s.start + s.size
  <2>1. Owns(s, p)
    BY <1>6, <1>1, <1>2, <1>3, <1>5
  <2>2. near = s
    BY <2>1, <1>2, <1>3, <1>4 DEF Entry
  <2>3. ~ UsePrevious(near, a)
    BY <2>2, <1>1 DEF UsePrevious
  <2>4. Found(near, a) = s
    BY <2>2, <1>1 DEF Found
  <2> QED BY <2>3, <2>4 DEF GetSegment
<1>7. CASE ~ last < s.start + s.size
  <2>1. p - 1 \in Nat /\ Owns(s, p - 1) /\ SlotOf(a - Split) = p - 1
    BY <1>7, <1>1, <1>2, <1>3, <1>5
  <2>2. Entry(slots, a - Split) = s
    BY <2>1, <1>4 DEF Entry
  <2>3. UsePrevious(near, a)
    <3> SUFFICES ASSUME near # NULL PROVE near.start > a
      BY DEF UsePrevious
    <3>1. p \in DOMAIN slots /\ near = slots[p]
      BY <1>3 DEF Entry
    <3>2. near \in mapped /\ Owns(near, p)
      BY <3>1 DEF Shape, Registered
    <3> HIDE DEF near
    <3>3. near \in Segments /\ near.start \in Nat /\ End(near) \in Nat
      BY <3>2, <1>1, SegmentFacts
    <3>4. near.start <= last /\ last < End(near)
      BY <3>2, <3>3, <1>2, <1>3, OwnsFacts
    <3>5. near # s
      BY <3>4, <1>1, <1>7
    <3>6. Disjoint(near, s)
      BY <3>2, <3>5 DEF Apart
    <3> QED BY <3>3, <3>4, <3>6, <1>1, <1>2, <1>7 DEF Disjoint
  <2>4. Found(s, a) = s
    BY <1>1 DEF Found
  <2> QED BY <2>2, <2>3, <2>4 DEF GetSegment
<1> QED BY <1>6, <1>7

(* Whoever maps the address again in the middle of a free or a realloc, the *)
(* registry finds the segments of the blocks in use, and no other.          *)
THEOREM RegistryFollowsMemory ==
    ASSUME ReallocPadded = FALSE
    PROVE  Spec => []RegistryFollows
<1>1. ASSUME IInv PROVE RegistryFollows
  <2>1. ASSUME NEW b \in live, NEW a \in b.ptr .. b.ptr + b.size - 1
        PROVE  GetSegment(slots, a) =
                 IF hasRegistry THEN HeaderOf(mapped, Unpad(pads, b.ptr)) ELSE NULL
    <3>1. PICK s \in mapped : s = HeaderOf(mapped, Unpad(pads, b.ptr)) /\ Lies(s, b)
      BY <1>1, FoundSegment
    <3>2. a \in Nat /\ Contain(s, a)
      BY <1>1, <3>1, LiesFacts DEF IInv, Shape
    <3>3. CASE hasRegistry
      BY <3>1, <3>2, <3>3, <1>1, LookUp
    <3>4. CASE ~ hasRegistry
      <4>1. \A x : Entry(slots, x) = NULL
        BY <3>4, <1>1 DEF IInv, Registered, Entry
      <4> QED BY <3>4, <4>1 DEF GetSegment, Found
    <3> QED BY <3>3, <3>4
  <2>2. ASSUME NEW i \in DOMAIN slots, slots[i] # NULL
        PROVE  \E b \in live : Contain(slots[i], b.ptr)
    <3>1. slots[i] \in Segments
      BY <2>2, <1>1 DEF IInv, Shape
    <3>2. PICK b \in live : Lies(slots[i], b)
      BY <2>2, <1>1 DEF IInv, Registered
    <3> QED BY <3>1, <3>2, <1>1, LiesFacts DEF IInv, Shape
  <2> QED BY <2>1, <2>2 DEF RegistryFollows
<1> QED BY <1>1, Invariant, PTL

-----------------------------------------------------------------------------
(* The allocator implements BlockHeap *)

HoldingApart ==
    \A b \in Holding, c \in Holding : b = c \/ AbstractHeap!Disjoint(b, c)

LEMMA HoldingIsApart == IInv => HoldingApart
<1> SUFFICES ASSUME IInv, NEW b \in Holding, NEW c \in Holding, b # c
             PROVE  AbstractHeap!Disjoint(b, c)
  BY DEF HoldingApart
<1>1. OneToOne /\ mapped \subseteq Segments /\ Apart
  BY HoldingFacts DEF IInv, Shape
<1>2. PICK s \in mapped : Lies(s, b)
  BY <1>1 DEF OneToOne
<1>3. PICK r \in mapped : Lies(r, c)
  BY <1>1 DEF OneToOne
<1>4. s # r
  BY <1>1, <1>2, <1>3 DEF OneToOne
<1>5. Disjoint(s, r)
  BY <1>1, <1>4 DEF Apart
<1>6. b \in Blocks /\ c \in Blocks /\ s \in Segments /\ r \in Segments
  BY <1>1 DEF OneToOne
<1>7. /\ s.start < b.ptr /\ b.ptr + b.size <= End(s)
      /\ r.start < c.ptr /\ c.ptr + c.size <= End(r)
  BY <1>2, <1>3, <1>6, SegmentFacts, BlockFacts DEF Lies
<1> QED BY <1>5, <1>6, <1>7, SegmentFacts, BlockFacts DEF Disjoint, AbstractHeap!Disjoint

(* A step that adds, removes or replaces one block is a step of BlockHeap,  *)
(* if no two blocks overlap after it.                                       *)
LEMMA HeapStep ==
    ASSUME HoldingApart',
           NEW old, NEW new,
           \/ Holding' = Holding
           \/ Holding' = Holding \union {new}
           \/ Holding' = Holding \ {old}
           \/ Holding' = (Holding \ {old}) \union {new}
    PROVE  [AbstractHeap!Next]_Holding
<1> DEFINE before == Holding
           after  == Holding'
<1>1. \A b \in after, c \in after : b = c \/ AbstractHeap!Disjoint(b, c)
  BY DEF HoldingApart, AbstractHeap!Disjoint
<1>2. [AbstractHeap!Next]_Holding <=>
        \/ after = before
        \/ \E b \in after \ before : /\ \A a \in before : AbstractHeap!Disjoint(a, b)
                                     /\ after = before \union {b}
        \/ \E b \in before \ after : after = before \ {b}
        \/ \E x \in before \ after, y \in after \ before :
             /\ \A a \in before \ {x} : AbstractHeap!Disjoint(a, y)
             /\ after = (before \ {x}) \union {y}
  BY DEF AbstractHeap!Next, AbstractHeap!Malloc, AbstractHeap!Free, AbstractHeap!Realloc
<1> HIDE DEF before, after
<1>3. \/ after = before
      \/ after = before \union {new}
      \/ after = before \ {old}
      \/ after = (before \ {old}) \union {new}
  BY DEF before, after
<1>4. CASE after = before \/ (after = before \union {new} /\ new \in before)
           \/ (after = before \ {old} /\ old \notin before)
  BY <1>2, <1>4
<1>5. CASE after = before \union {new} /\ new \notin before
  BY <1>1, <1>2, <1>5
<1>6. CASE after = before \ {old} /\ old \in before
  BY <1>2, <1>6
<1>7. CASE after = (before \ {old}) \union {new}
  <2>1. CASE old \in before /\ new \notin before
    BY <2>1, <1>1, <1>2, <1>7
  <2>2. CASE old \notin before /\ new \notin before
    <3>1. after = before \union {new}
      BY <2>2, <1>7
    <3> QED BY <3>1, <2>2, <1>1, <1>2
  <2>3. CASE new \in before /\ new # old
    <3>1. after = before \ {old}
      BY <2>3, <1>7
    <3> QED BY <3>1, <1>2
  <2>4. CASE new \in before /\ new = old
    BY <2>4, <1>2, <1>7
  <2> QED BY <2>1, <2>2, <2>3, <2>4
<1> QED BY <1>3, <1>4, <1>5, <1>6, <1>7

(* The blocks the other threads work on. *)
Rest(t) == {op[u].block : u \in {v \in Threads : pc[v] # "idle" /\ v # t}}

LEMMA HoldingSplit ==
    ASSUME NEW t \in Threads
    PROVE  /\ pc[t] = "idle" => Holding = live \union Rest(t)
           /\ pc[t] # "idle" => Holding = live \union Rest(t) \union {op[t].block}
           /\ (pc[t] = "idle" => Holding = live \union Rest(t))'
           /\ (pc[t] # "idle" => Holding = live \union Rest(t) \union {op[t].block})'
BY DEF Holding, Pending, Rest

LEMMA PendingApart ==
    ASSUME IInv, NEW t \in Threads, pc[t] # "idle"
    PROVE  op[t].block \notin live /\ op[t].block \notin Rest(t)
<1> USE DEF IInv
<1>1. Working(t) /\ mapped \subseteq Segments /\ Apart
  BY DEF Shape, Working
<1>2. op[t].seg \in mapped /\ op[t].block \in Blocks /\ Lies(op[t].seg, op[t].block)
  BY <1>1, CallFacts
<1>3. op[t].block \notin live
  BY <1>1, <1>2 DEF OneEach
<1>4. ASSUME NEW u \in Threads, pc[u] # "idle", u # t
      PROVE  op[u].block # op[t].block
  <2>1. Working(u) /\ op[u].seg \in mapped /\ Lies(op[u].seg, op[u].block)
    BY <1>4, CallFacts DEF Working
  <2>2. op[u].seg # op[t].seg
    BY <2>1, <1>1, <1>4 DEF OneEach
  <2> QED BY <2>1, <2>2, <1>1, <1>2, OneSegment
<1> QED BY <1>3, <1>4 DEF Rest

(* A block in use is of no thread.                                          *)
LEMMA LiveApart ==
    ASSUME IInv, NEW t \in Threads, NEW b \in live
    PROVE  b \notin Rest(t)
<1> USE DEF IInv
<1>1. ASSUME NEW u \in Threads, pc[u] # "idle" PROVE op[u].block # b
  BY <1>1, PendingApart
<1> QED BY <1>1 DEF Rest

(* malloc takes place when the segment is mapped, free when it is given     *)
(* back, realloc when it keeps the segment or has moved it.                 *)
LEMMA HoldingStep ==
    ASSUME ReallocPadded = FALSE, IInv, [Next]_vars
    PROVE  \E old, new : \/ Holding' = Holding
                         \/ Holding' = Holding \union {new}
                         \/ Holding' = Holding \ {old}
                         \/ Holding' = (Holding \ {old}) \union {new}
<1>1. CASE UNCHANGED vars
  BY <1>1 DEF vars, Holding, Pending
<1>2. CASE Next
  <2>1. PICK t \in Threads : \/ MallocMap(t) \/ RegisterSegment(t)
                             \/ FreeBegin(t) \/ Munmap(t)
                             \/ ReallocBegin(t) \/ Mremap(t)
    BY <1>2 DEF Next
  <2>2. pc \in [Threads -> {"idle", "register", "munmap", "mremap"}] /\ DOMAIN op = Threads
    BY DEF IInv, Shape
  <2>3. CASE MallocMap(t)
    <3>1. PICK size \in Sizes, align \in Aligns :
            \E s \in Free(mapped, TotalSize(CheckedSize(size, align))) :
               Begin(t, "register", s,
                     Block(GetPtr(s) + CalcPadding(GetPtr(s), align), size, align))
      BY <2>3 DEF MallocMap
    <3>2. PICK s, b : Begin(t, "register", s, b)
      BY <3>1
    <3>3. pc[t] = "idle" /\ live' = live
      BY <2>3 DEF MallocMap
    <3>4. pc'[t] = "register" /\ op'[t].block = b /\ Rest(t)' = Rest(t)
      BY <3>2, <2>2 DEF Begin, Rest
    <3>5. Holding' = Holding \union {b}
      BY <3>3, <3>4, HoldingSplit
    <3> QED BY <3>5
  <2>4. CASE RegisterSegment(t)
    <3>1. pc[t] = "register" /\ live' = live \union {op[t].block}
      BY <2>4 DEF RegisterSegment
    <3>2. pc'[t] = "idle" /\ Rest(t)' = Rest(t)
      BY <2>4, <2>2 DEF RegisterSegment, Finish, Rest
    <3>3. Holding = live \union Rest(t) \union {op[t].block}
      BY <3>1, HoldingSplit
    <3>4. Holding' = live' \union Rest(t)'
      BY <3>2, HoldingSplit
    <3>5. Holding' = Holding
      BY <3>1, <3>2, <3>3, <3>4
    <3> QED BY <3>5
  <2>5. CASE FreeBegin(t)
    <3>1. PICK b \in live : live' = live \ {b} /\ \E s : Begin(t, "munmap", s, b)
      BY <2>5 DEF FreeBegin
    <3>2. PICK s : Begin(t, "munmap", s, b)
      BY <3>1
    <3>3. pc[t] = "idle"
      BY <2>5 DEF FreeBegin
    <3>4. pc'[t] = "munmap" /\ op'[t].block = b /\ Rest(t)' = Rest(t)
      BY <3>2, <2>2 DEF Begin, Rest
    <3>5. Holding' = Holding
      BY <3>1, <3>3, <3>4, HoldingSplit
    <3> QED BY <3>5
  <2>6. CASE Munmap(t)
    <3>1. pc[t] = "munmap" /\ live' = live
      BY <2>6 DEF Munmap
    <3>2. pc'[t] = "idle" /\ Rest(t)' = Rest(t)
      BY <2>6, <2>2 DEF Munmap, Finish, Rest
    <3>3. op[t].block \notin live /\ op[t].block \notin Rest(t)
      BY <3>1, PendingApart
    <3>4. Holding' = Holding \ {op[t].block}
      BY <3>1, <3>2, <3>3, HoldingSplit
    <3> QED BY <3>4
  <2>7. CASE ReallocBegin(t)
    <3>1. PICK b \in live, s \in mapped, size \in Sizes :
             /\ pc[t] = "idle" /\ UNCHANGED <<hasRegistry, mapped, pads>>
             /\ Lies(s, b) /\ b.ptr % b.align = 0
             /\ Unpad(pads, b.ptr) = GetPtr(s) /\ b.ptr = GetPtr(s)
             /\ \/ /\ KeptInPlace(InnerSize(s), size)
                   /\ live' = (live \ {b}) \union {Block(b.ptr, size, 1)}
                   /\ UNCHANGED <<slots, pc, op>>
                \/ /\ live' = live \ {b}
                   /\ slots' = Unregister(slots, hasRegistry, s)
                   /\ pc' = [pc EXCEPT ![t] = "mremap"]
                   /\ op' = [op EXCEPT ![t] = [seg |-> s, block |-> b, size |-> size]]
      BY <2>7, ReallocCases
    <3>2. CASE /\ live' = (live \ {b}) \union {Block(b.ptr, size, 1)}
               /\ UNCHANGED <<pc, op>>
      <4>1. Rest(t)' = Rest(t) /\ pc'[t] = "idle"
        BY <3>1, <3>2 DEF Rest
      <4>2. b \notin Rest(t)
        BY LiveApart
      <4>3. Holding' = (Holding \ {b}) \union {Block(b.ptr, size, 1)}
        BY <3>1, <3>2, <4>1, <4>2, HoldingSplit
      <4> QED BY <4>3
    <3>3. CASE /\ live' = live \ {b}
               /\ pc' = [pc EXCEPT ![t] = "mremap"]
               /\ op' = [op EXCEPT ![t] = [seg |-> s, block |-> b, size |-> size]]
      <4>1. pc'[t] = "mremap" /\ op'[t].block = b /\ Rest(t)' = Rest(t)
        BY <3>3, <2>2 DEF Rest
      <4>2. Holding = live \union Rest(t)
        BY <3>1, HoldingSplit
      <4>3. Holding' = live' \union Rest(t)' \union {b}
        BY <4>1, HoldingSplit
      <4>4. Holding' = Holding
        BY <3>3, <4>1, <4>2, <4>3
      <4> QED BY <4>4
    <3> QED BY <3>1, <3>2, <3>3
  <2>8. CASE Mremap(t)
    <3>1. PICK s, b : Begin(t, "register", s, b)
      BY <2>8 DEF Mremap
    <3>2. pc[t] = "mremap" /\ live' = live
      BY <2>8 DEF Mremap
    <3>3. pc'[t] = "register" /\ op'[t].block = b /\ Rest(t)' = Rest(t)
      BY <3>1, <2>2 DEF Begin, Rest
    <3>4. op[t].block \notin live /\ op[t].block \notin Rest(t)
      BY <3>2, PendingApart
    <3>5. Holding' = (Holding \ {op[t].block}) \union {b}
      BY <3>2, <3>3, <3>4, HoldingSplit
    <3> QED BY <3>5
  <2> QED BY <2>1, <2>3, <2>4, <2>5, <2>6, <2>7, <2>8
<1> QED BY <1>1, <1>2

(* Blocks in use never overlap: malloc, free and realloc of the huge        *)
(* allocator are those of BlockHeap, between any steps of other threads.    *)
THEOREM HugeImplements ==
    ASSUME ReallocPadded = FALSE
    PROVE  Spec => Implements
<1>1. Init => AbstractHeap!Init
  BY DEF Init, AbstractHeap!Init, Holding, Pending
<1>2. IInv /\ HoldingApart' /\ [Next]_vars => [AbstractHeap!Next]_Holding
  <2> SUFFICES ASSUME IInv, HoldingApart', [Next]_vars
               PROVE  [AbstractHeap!Next]_Holding
    OBVIOUS
  <2>1. PICK old, new : \/ Holding' = Holding
                        \/ Holding' = Holding \union {new}
                        \/ Holding' = Holding \ {old}
                        \/ Holding' = (Holding \ {old}) \union {new}
    BY HoldingStep
  <2> QED BY <2>1, HeapStep
<1> QED
  BY <1>1, <1>2, HoldingIsApart, Invariant, PTL DEF Spec, Implements, AbstractHeap!Spec
=============================================================================
