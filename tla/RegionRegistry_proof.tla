------------------------ MODULE RegionRegistry_proof ------------------------
(***************************************************************************)
(* For every number of threads, every size of slots, regions and segments: *)
(* the table of the registry stays exact at every step of every thread,    *)
(* every look up finds its segment, and the end unmaps every segment.      *)
(***************************************************************************)
EXTENDS RegionRegistry, WellFoundedInduction, TLAPS

-----------------------------------------------------------------------------
(* Numbers, and the division by a constant *)

(* A set of natural numbers that is not empty has a least element: what is  *)
(* cited here in place of an induction.                                     *)
LEMMA LeastElement ==
    ASSUME NEW S \in SUBSET Nat, S # {}
    PROVE  \E x \in S : \A y \in S : x <= y
<1> DEFINE Less == {p \in Nat \X Nat : p[1] < p[2]}
<1>1. IsWellFoundedOn(Less, Nat)
  <2>1. IsWellFoundedOn(OpToRel(<, Nat), Nat)
    BY NatLessThanWellFounded
  <2>2. OpToRel(<, Nat) = Less
    BY Zenon DEF OpToRel
  <2> QED BY <2>1, <2>2, Zenon
<1>2. PICK x \in S : \A y \in S : <<y, x>> \notin Less
  <2> HIDE DEF Less
  <2> QED BY <1>1, WFMin
<1>3. ASSUME NEW y \in S PROVE x <= y
  <2>1. <<y, x>> \in Nat \X Nat
    OBVIOUS
  <2>2. ~ y < x
    BY <1>2, <2>1
  <2> QED BY <2>2
<1> QED BY <1>3

(* Multiples of n keep their order, and are n apart. *)
LEMMA MultiplesApart ==
    ASSUME NEW n \in Nat \ {0}, NEW i \in Int, NEW j \in Int
    PROVE  /\ i * n \in Int
           /\ (i + 1) * n = i * n + n
           /\ (i + j) * n = i * n + j * n
           /\ i < j <=> i * n < j * n
           /\ i < j => i * n + n <= j * n
OBVIOUS

(* What the quotient is. *)
LEMMA Quotient ==
    ASSUME NEW n \in Nat \ {0}, NEW a \in Nat
    PROVE  /\ a \div n \in Nat
           /\ (a \div n) * n <= a
           /\ a < (a \div n) * n + n
OBVIOUS

(* Nothing else is. *)
LEMMA QuotientUnique ==
    ASSUME NEW n \in Nat \ {0}, NEW a \in Nat, NEW q \in Int,
           q * n <= a, a < q * n + n
    PROVE  a \div n = q
OBVIOUS

(* Two neighbours have the same quotient, but at the start of a block. *)
LEMMA QuotientBefore ==
    ASSUME NEW n \in Nat \ {0}, NEW a \in Nat, a % n # 0
    PROVE  a - 1 \in Nat /\ (a - 1) \div n = a \div n
<1> DEFINE q == a \div n
<1>1. q \in Nat /\ q * n <= a /\ a < q * n + n
  BY Quotient
<1>2. a # q * n
  OBVIOUS
<1>3. q * n \in Nat
  BY <1>1
<1>4. a - 1 \in Nat /\ q * n <= a - 1 /\ a - 1 < q * n + n
  BY <1>1, <1>2, <1>3
<1> HIDE DEF q
<1>5. (a - 1) \div n = q
  <2> DEFINE b == a - 1
  <2>1. b \in Nat /\ q \in Int /\ q * n <= b /\ b < q * n + n
    BY <1>1, <1>4
  <2> HIDE DEF b
  <2>2. b \div n = q
    BY <2>1, QuotientUnique
  <2> QED BY <2>2 DEF b
<1> QED BY <1>4, <1>5 DEF q

LEMMA QuotientInside ==
    ASSUME NEW n \in Nat \ {0}, NEW a \in Nat, NEW b \in Nat,
           a < b, a \div n = b \div n
    PROVE  b % n # 0
<1> DEFINE q == a \div n
<1>1. q \in Nat /\ q * n <= a
  BY Quotient
<1>2. q * n \in Nat
  BY <1>1
<1>3. b # q * n
  BY <1>1, <1>2
<1>4. b = (b \div n) * n + (b % n)
  OBVIOUS
<1>5. b % n \in Nat
  OBVIOUS
<1> QED BY <1>2, <1>3, <1>4, <1>5

(* Memory is cut in slots of n bytes: the slots whose last byte an area     *)
(* start .. start + size - 1 holds.                                         *)
LEMMA SlotFromStart ==
    ASSUME NEW n \in Nat \ {0}, NEW start \in Nat, NEW i \in Nat,
           start <= (i + 1) * n - 1
    PROVE  start \div n \in Nat /\ start \div n <= i
<1> DEFINE q == start \div n
<1>1. q \in Nat /\ q * n <= start /\ (i + 1) * n \in Int
  BY Quotient, MultiplesApart
<1>2. q * n < (i + 1) * n
  BY <1>1, MultiplesApart
<1> HIDE DEF q
<1>3. q < i + 1
  BY <1>1, <1>2, MultiplesApart
<1> QED BY <1>1, <1>3 DEF q

LEMMA SlotAfterTurns ==
    ASSUME NEW n \in Nat \ {0}, NEW start \in Nat, NEW k \in Nat
    PROVE  /\ start \div n \in Nat /\ k * n \in Nat
           /\ (start + k * n) \div n = (start \div n) + k
<1> DEFINE q == start \div n
           a == start + k * n
<1>1. q \in Nat /\ q * n <= start /\ start < q * n + n
  BY Quotient
<1>2. k * n \in Nat /\ a \in Nat
  OBVIOUS
<1> HIDE DEF q
<1>3. (q + k) * n = q * n + k * n /\ q * n \in Int /\ q + k \in Int
  BY <1>1, MultiplesApart
<1>4. (q + k) * n <= a /\ a < (q + k) * n + n
  BY <1>1, <1>2, <1>3
<1> HIDE DEF a
<1>5. a \div n = q + k
  BY <1>2, <1>3, <1>4, QuotientUnique
<1> QED BY <1>1, <1>2, <1>5 DEF q, a

(* Up to the last multiple of n in the area: its slots, no more, no fewer. *)
LEMMA SlotsToTheEnd ==
    ASSUME NEW n \in Nat \ {0}, NEW start \in Nat, NEW end \in Nat, NEW k \in Nat
    PROVE  LET last == ((start \div n) + k + 1) * n - 1
           IN  start + k * n < (end \div n) * n <=> start <= last /\ last < end
<1> DEFINE q == start \div n
           e == end \div n
           i == q + k
<1>1. q \in Nat /\ q * n <= start /\ start < q * n + n
  BY Quotient
<1>2. e \in Nat /\ e * n <= end /\ end < e * n + n
  BY Quotient
<1> HIDE DEF q, e
<1>3. /\ i \in Nat /\ k * n \in Int /\ q * n \in Int /\ e * n \in Int
      /\ i * n = q * n + k * n
      /\ (i + 1) * n = i * n + n
      /\ 0 <= k * n
  BY <1>1, <1>2, MultiplesApart
<1>4. i < e <=> i * n < e * n
  BY <1>2, <1>3, MultiplesApart
<1>5. i < e => (i + 1) * n <= e * n
  <2>1. e < i + 1 <=> e * n < (i + 1) * n
    BY <1>2, <1>3, MultiplesApart
  <2>2. (i + 1) * n \in Int
    BY <1>3
  <2> QED BY <2>1, <2>2, <1>2, <1>3
<1>6. e < i + 1 => e * n + n <= (i + 1) * n
  BY <1>2, <1>3, MultiplesApart
<1> HIDE DEF i
<1>7. ASSUME start + k * n < e * n
      PROVE  start <= (i + 1) * n - 1 /\ (i + 1) * n - 1 < end
  <2>1. i < e
    BY <1>1, <1>3, <1>4, <1>7
  <2> QED BY <2>1, <1>1, <1>2, <1>3, <1>5
<1>8. ASSUME (i + 1) * n - 1 < end
      PROVE  start + k * n < e * n
  <2>1. (i + 1) * n <= end
    BY <1>2, <1>3, <1>8
  <2>2. i < e
    <3> SUFFICES ASSUME ~ i < e PROVE FALSE
      OBVIOUS
    <3>1. e * n + n <= (i + 1) * n
      BY <1>2, <1>3, <1>6
    <3> QED BY <3>1, <2>1, <1>2, <1>3
  <2> QED BY <2>2, <1>1, <1>3, <1>5
<1> QED BY <1>7, <1>8 DEF i, q, e

(* After size \div n turns, or more, nothing of the area is left.          *)
LEMMA SlotBeyond ==
    ASSUME NEW n \in Nat \ {0}, NEW start \in Nat, NEW size \in Nat, NEW k \in Nat,
           NEW i \in Nat, size <= k * n, (start \div n) + k <= i
    PROVE  start + size <= (i + 1) * n - 1
<1> DEFINE q == start \div n
<1>1. q \in Nat /\ q * n <= start /\ start < q * n + n /\ q + k <= i /\ k * n \in Int
  BY Quotient
<1> HIDE DEF q
<1>2. (q + k) * n = q * n + k * n /\ q * n \in Int /\ (q + k) * n \in Int
  BY <1>1, MultiplesApart
<1>3. i < q + k <=> i * n < (q + k) * n
  BY <1>1, MultiplesApart
<1>4. i * n \in Int /\ (i + 1) * n = i * n + n
  BY MultiplesApart
<1> QED BY <1>1, <1>2, <1>3, <1>4

(* An area of n bytes or more has the last byte of the slot of any of its  *)
(* bytes, or that of the slot before.                                      *)
LEMMA SlotOrPrevious ==
    ASSUME NEW n \in Nat \ {0}, NEW start \in Nat, NEW size \in Nat, size >= n,
           NEW a \in Nat, start <= a, a < start + size
    PROVE  LET p == a \div n
           IN  /\ p \in Nat /\ (p + 1) * n - 1 \in Int
               /\ a <= (p + 1) * n - 1
               /\ ~ (p + 1) * n - 1 < start + size =>
                    /\ p - 1 \in Nat
                    /\ start <= ((p - 1) + 1) * n - 1
                    /\ ((p - 1) + 1) * n - 1 < start + size
                    /\ (a - n) \div n = p - 1
<1> DEFINE p == a \div n
<1>1. p \in Nat /\ p * n <= a /\ a < p * n + n
  BY Quotient
<1> HIDE DEF p
<1>2. (p + 1) * n = p * n + n /\ p * n \in Int
  BY <1>1, MultiplesApart
<1>3. ASSUME ~ (p + 1) * n - 1 < start + size
      PROVE  /\ p - 1 \in Nat
             /\ start <= ((p - 1) + 1) * n - 1
             /\ ((p - 1) + 1) * n - 1 < start + size
             /\ (a - n) \div n = p - 1
  <2>1. start + size <= p * n + n - 1 /\ start <= p * n - 1
    BY <1>2, <1>3
  <2>2. 0 < p
    <3>1. 0 * n < p * n
      BY <2>1, <1>2
    <3> QED BY <3>1, <1>1, MultiplesApart
  <2>3. p - 1 \in Nat /\ (p - 1) + 1 = p /\ (p - 1) * n \in Nat
    BY <2>2, <1>1
  <2>4. (p - 1) * n = p * n - n
    BY <2>3, <1>2, MultiplesApart
  <2>5. (a - n) \div n = p - 1
    <3> DEFINE b == a - n
    <3>1. b \in Nat /\ p - 1 \in Int /\ (p - 1) * n <= b /\ b < (p - 1) * n + n
      BY <2>3, <2>4, <1>1, <1>2
    <3> HIDE DEF b
    <3>2. b \div n = p - 1
      BY <3>1, QuotientUnique
    <3> QED BY <3>2 DEF b
  <2>6. p * n - 1 < start + size
    BY <1>1, <1>2
  <2> QED BY <2>1, <2>3, <2>5, <2>6
<1> QED BY <1>1, <1>2, <1>3 DEF p

-----------------------------------------------------------------------------

Anywhere == [start : Nat, size : Nat]

(* The first slot a segment may own. *)
Low(s) == SlotOf(s.start)

(* A segment owns the slots whose last byte it holds. *)
Owns(s, i) == Contain(s, LastByte(i))

-----------------------------------------------------------------------------
(* The layout: what setEntry, remove and getSegment rely on *)

LEMMA SegmentsAnywhere ==
    ASSUME NEW s \in Segments
    PROVE  s \in Anywhere /\ s.size >= Split /\ End(s) <= Top
<1>1. s \in [start : 0 .. Top - 1, size : Sizes] /\ End(s) <= Top
  BY DEF Segments
<1>2. s.start \in 0 .. Top - 1 /\ s.size \in Sizes /\ s = [start |-> s.start, size |-> s.size]
  BY <1>1
<1>3. s.start \in Nat /\ s.size \in Nat /\ s.size >= Split
  BY <1>2, SizesAssumption, TopAssumption
<1> QED BY <1>1, <1>2, <1>3 DEF Anywhere

(* Two segments apart do not own the same slot, nor hold the same byte. *)
LEMMA OneOwner ==
    ASSUME NEW s \in Anywhere, NEW r \in Anywhere, NEW a \in Int,
           Contain(s, a), Contain(r, a)
    PROVE  ~ Disjoint(s, r)
BY DEF Anywhere, Contain, Disjoint, End

(* The slots of a segment begin at Low and have no hole. *)
LEMMA OwnsAbove ==
    ASSUME NEW s \in Anywhere, NEW i \in Nat, Owns(s, i)
    PROVE  Low(s) \in Nat /\ Low(s) <= i
<1>1. s.start \in Nat /\ s.start <= (i + 1) * Split - 1
  BY DEF Anywhere, Owns, Contain, LastByte
<1> QED BY <1>1, SlotFromStart, SplitAssumption DEF Low, SlotOf

LEMMA OwnsBetween ==
    ASSUME NEW s \in Anywhere, NEW i \in Nat, NEW j \in Nat, NEW k \in Nat,
           Owns(s, i), Owns(s, k), i <= j, j <= k
    PROVE  Owns(s, j)
<1>1. /\ (i + 1) * Split \in Int /\ (j + 1) * Split \in Int /\ (k + 1) * Split \in Int
      /\ (i + 1) * Split <= (j + 1) * Split
      /\ (j + 1) * Split <= (k + 1) * Split
  BY MultiplesApart, SplitAssumption
<1> QED BY <1>1 DEF Owns, Contain, LastByte, End, Anywhere

(* The turn k of the loops works on the slot Low + k. *)
LEMMA SlotOfTurn ==
    ASSUME NEW s \in Anywhere, NEW k \in Nat
    PROVE  /\ Low(s) \in Nat
           /\ k * Split \in Nat
           /\ SlotOf(s.start + k * Split) = Low(s) + k
           /\ TurnSlot(s, k) = Low(s) + k
BY SlotAfterTurns, SplitAssumption DEF Anywhere, Low, SlotOf, TurnSlot

(* setEntry writes the slots its segment owns, from the first to the last. *)
LEMMA SetAgainOwns ==
    ASSUME NEW s \in Anywhere, NEW k \in Nat
    PROVE  SetAgain(s, k) <=> Owns(s, Low(s) + k)
<1>1. s.start \in Nat /\ End(s) \in Nat
  BY DEF Anywhere, End
<1> QED
  BY <1>1, SlotsToTheEnd, SplitAssumption
     DEF SetAgain, CeilToPowOf2, Owns, Contain, LastByte, Low, SlotOf

(* and remove reaches the last. *)
LEMMA RemoveReaches ==
    ASSUME NEW s \in Anywhere, NEW k \in Nat, ~ RemoveAgain(s, k),
           NEW i \in Nat, Low(s) + k <= i
    PROVE  ~ Owns(s, i)
<1>1. s.start \in Nat /\ s.size \in Nat /\ k * Split \in Int /\ (i + 1) * Split \in Int
  BY MultiplesApart, SplitAssumption DEF Anywhere
<1>2. s.size <= k * Split /\ (s.start \div Split) + k <= i
  BY <1>1 DEF RemoveAgain, Low, SlotOf
<1>3. s.start + s.size <= (i + 1) * Split - 1
  BY <1>1, <1>2, SlotBeyond, SplitAssumption
<1> QED BY <1>1, <1>3 DEF Owns, Contain, LastByte, End

(* The slot of an address of a segment, or the one before, is owned by it. *)
LEMMA NearOrPrevious ==
    ASSUME NEW s \in Anywhere, s.size >= Split, NEW a \in Nat, Contain(s, a)
    PROVE  /\ SlotOf(a) \in Nat
           /\ a <= LastByte(SlotOf(a)) /\ LastByte(SlotOf(a)) \in Int
           /\ ~ Owns(s, SlotOf(a)) =>
                /\ SlotOf(a) - 1 \in Nat
                /\ Owns(s, SlotOf(a) - 1)
                /\ SlotOf(a - Split) = SlotOf(a) - 1
<1> DEFINE p    == a \div Split
           last == (p + 1) * Split - 1
<1>1. /\ s.start \in Nat /\ s.size \in Nat /\ s.size >= Split
      /\ s.start <= a /\ a < s.start + s.size
  BY DEF Anywhere, Contain, End
<1>2. /\ p \in Nat /\ last \in Int /\ a <= last
      /\ ~ last < s.start + s.size =>
           /\ p - 1 \in Nat
           /\ s.start <= ((p - 1) + 1) * Split - 1
           /\ ((p - 1) + 1) * Split - 1 < s.start + s.size
           /\ (a - Split) \div Split = p - 1
  BY <1>1, SlotOrPrevious, SplitAssumption
<1>3. Owns(s, p) <=> s.start <= last /\ last < s.start + s.size
  BY DEF Owns, Contain, LastByte, End
<1>4. Owns(s, p - 1) <=>
        s.start <= ((p - 1) + 1) * Split - 1 /\ ((p - 1) + 1) * Split - 1 < s.start + s.size
  BY DEF Owns, Contain, LastByte, End
<1>5. LastByte(p) = last /\ SlotOf(a) = p /\ SlotOf(a - Split) = (a - Split) \div Split
  BY DEF LastByte, SlotOf
<1> HIDE DEF p, last
<1>6. s.start <= last
  BY <1>1, <1>2
<1> QED BY <1>2, <1>3, <1>4, <1>5, <1>6

-----------------------------------------------------------------------------
(* The table: what one write and one read do *)

Entries == Segments \union {NULL}

(* The slots of a region are created together. *)
WholeRegions(table) ==
    \A i \in DOMAIN table : \A j \in Nat :
        j \div RegionSlots = i \div RegionSlots => j \in DOMAIN table

Tables ==
    {table \in UNION {[D -> Entries] : D \in SUBSET Nat} : WholeRegions(table)}

LEMMA TablesFacts ==
    ASSUME NEW table
    PROVE  table \in Tables <=>
             /\ DOMAIN table \subseteq Nat
             /\ table \in [DOMAIN table -> Entries]
             /\ WholeRegions(table)
<1>1. ASSUME table \in Tables
      PROVE  DOMAIN table \subseteq Nat /\ table \in [DOMAIN table -> Entries] /\ WholeRegions(table)
  <2>1. PICK D \in SUBSET Nat : table \in [D -> Entries]
    BY <1>1 DEF Tables
  <2> QED BY <1>1, <2>1 DEF Tables
<1>2. ASSUME DOMAIN table \subseteq Nat, table \in [DOMAIN table -> Entries], WholeRegions(table)
      PROVE  table \in Tables
  BY <1>2 DEF Tables
<1> QED BY <1>1, <1>2

LEMMA NullEntry == NULL \in Entries /\ NULL \notin Segments
BY NullAssumption, SegmentsAnywhere DEF Entries, Anywhere

LEMMA EntryFacts ==
    ASSUME NEW table \in Tables, NEW a, Entry(table, a) # NULL
    PROVE  /\ SlotOf(a) \in DOMAIN table
           /\ Entry(table, a) = table[SlotOf(a)]
           /\ Entry(table, a) \in Segments
<1>1. SlotOf(a) \in DOMAIN table /\ Entry(table, a) = table[SlotOf(a)]
  BY DEF Entry
<1>2. table[SlotOf(a)] \in Entries
  BY <1>1, TablesFacts
<1> QED BY <1>1, <1>2 DEF Entries

(* A write creates the region of the slot if need be, and changes no other *)
(* slot.                                                                   *)
LEMMA StoreFacts ==
    ASSUME NEW table \in Tables, NEW i \in Nat, NEW s \in Segments
    PROVE  LET new == StoreEntry(table, i, s)
           IN  /\ new \in Tables
               /\ i \in DOMAIN new /\ new[i] = s
               /\ \A j \in DOMAIN table : j \in DOMAIN new /\ (j # i => new[j] = table[j])
               /\ \A j \in DOMAIN new :
                    j # i /\ new[j] # NULL => j \in DOMAIN table /\ new[j] = table[j]
<1> DEFINE r     == i \div RegionSlots
           first == r * RegionSlots
           more  == first .. first + RegionSlots - 1
           wide  == EnsureRegion(table, i)
           new   == StoreEntry(table, i, s)
<1>1. r \in Nat /\ first \in Nat /\ i \in more /\ more \subseteq Nat
  <2>1. r \in Nat /\ first <= i /\ i < first + RegionSlots
    BY Quotient, SplitAssumption
  <2>2. first \in Nat
    BY <2>1, SplitAssumption
  <2> QED BY <2>1, <2>2, SplitAssumption
<1>2. \A j \in Nat : j \div RegionSlots = r <=> j \in more
  <2> TAKE j \in Nat
  <2>1. ASSUME j \div RegionSlots = r PROVE j \in more
    <3>1. first <= j /\ j < first + RegionSlots
      BY <2>1, Quotient, SplitAssumption
    <3> QED BY <3>1, <1>1, SplitAssumption
  <2>2. ASSUME j \in more PROVE j \div RegionSlots = r
    <3>1. first <= j /\ j < first + RegionSlots
      BY <2>2, <1>1, SplitAssumption
    <3> HIDE DEF r
    <3>2. r \in Int /\ RegionSlots \in Nat \ {0}
      BY <1>1, SplitAssumption
    <3>3. r * RegionSlots <= j /\ j < r * RegionSlots + RegionSlots
      BY <3>1
    <3> QED BY <3>2, <3>3, QuotientUnique
  <2> QED BY <2>1, <2>2
<1> HIDE DEF r, more
<1>3. DOMAIN table \subseteq Nat /\ table \in [DOMAIN table -> Entries] /\ WholeRegions(table)
  BY TablesFacts
<1>4. /\ wide = [j \in DOMAIN table \union more |-> IF j \in DOMAIN table THEN table[j] ELSE NULL]
      /\ new = [wide EXCEPT ![i] = s]
  BY DEF EnsureRegion, StoreEntry, r, more
<1> HIDE DEF wide, new
<1>5. DOMAIN new = DOMAIN table \union more
  BY <1>4
<1>6. /\ new[i] = s
      /\ \A j \in DOMAIN new : j # i => new[j] = IF j \in DOMAIN table THEN table[j] ELSE NULL
  BY <1>1, <1>4
<1>7. WholeRegions(new)
  <2> SUFFICES ASSUME NEW j \in DOMAIN new, NEW k \in Nat,
                      k \div RegionSlots = j \div RegionSlots
               PROVE  k \in DOMAIN new
    BY DEF WholeRegions
  <2>1. CASE j \in DOMAIN table
    BY <2>1, <1>3, <1>5 DEF WholeRegions
  <2>2. CASE j \in more
    BY <2>2, <1>1, <1>2, <1>5
  <2> QED BY <2>1, <2>2, <1>5
<1>8. new \in [DOMAIN new -> Entries]
  <2>1. \A j \in DOMAIN new : new[j] \in Entries
    BY <1>3, <1>6, NullEntry DEF Entries
  <2>2. new = [j \in DOMAIN new |-> new[j]]
    BY <1>4
  <2> QED BY <2>1, <2>2
<1>9. DOMAIN new \subseteq Nat
  BY <1>1, <1>3, <1>5
<1>10. new \in Tables
  BY <1>7, <1>8, <1>9, TablesFacts
<1>11. i \in DOMAIN new
  BY <1>1, <1>5
<1>12. \A j \in DOMAIN table : j \in DOMAIN new /\ (j # i => new[j] = table[j])
  BY <1>5, <1>6
<1>13. \A j \in DOMAIN new :
         j # i /\ new[j] # NULL => j \in DOMAIN table /\ new[j] = table[j]
  BY <1>6
<1> QED BY <1>6, <1>10, <1>11, <1>12, <1>13 DEF new

LEMMA ClearFacts ==
    ASSUME NEW table \in Tables, NEW i \in DOMAIN table, NEW s \in Segments
    PROVE  LET new == ClearEntry(table, i, s)
           IN  /\ new \in Tables
               /\ DOMAIN new = DOMAIN table
               /\ new[i] # s
               /\ \A j \in DOMAIN table : new[j] = table[j] \/ (j = i /\ table[j] = s /\ new[j] = NULL)
<1>1. DOMAIN table \subseteq Nat /\ table \in [DOMAIN table -> Entries] /\ WholeRegions(table)
  BY TablesFacts
<1>2. CASE table[i] = s
  <2> DEFINE new == [table EXCEPT ![i] = NULL]
  <2>1. new \in [DOMAIN table -> Entries] /\ DOMAIN new = DOMAIN table
    BY <1>1, NullEntry
  <2>2. new \in Tables
    BY <1>1, <2>1, TablesFacts DEF WholeRegions
  <2>3. new[i] # s
    BY NullEntry
  <2>4. ClearEntry(table, i, s) = new
    BY <1>2 DEF ClearEntry
  <2> QED BY <1>2, <2>1, <2>2, <2>3, <2>4
<1>3. CASE table[i] # s
  BY <1>3 DEF ClearEntry
<1> QED BY <1>2, <1>3

-----------------------------------------------------------------------------
(* The inductive invariant *)

PCs == {"idle", "set", "remove", "near", "compare", "previous", "found"}

Changing(t) == pc[t] \in {"set", "remove"}

(* The sets the variables range over. *)
Shape ==
    /\ life \in {"running", "over", "faulted", "cleared"}
    /\ slots \in Tables
    /\ regions \subseteq Nat
    /\ mapped \subseteq Segments
    /\ held \subseteq mapped
    /\ pc \in [Threads -> PCs]
    /\ seg \in [Threads -> Entries]
    /\ turn \in [Threads -> Nat]
    /\ addr \in [Threads -> 0 .. Top - 1]
    /\ entry \in [Threads -> Entries]

(* The system gives memory once. A segment on its way in or out belongs to *)
(* one thread; until the end, the others are in use.                       *)
Owners ==
    /\ \A s, r \in mapped : s # r => Disjoint(s, r)
    /\ \A t \in Threads :
         /\ seg[t] # NULL <=> Changing(t)
         /\ Changing(t) => seg[t] \in mapped /\ seg[t] \notin held
         /\ ~ Changing(t) => turn[t] = 0
    /\ \A t, u \in Threads : Changing(t) /\ Changing(u) /\ t # u => seg[t] # seg[u]
    /\ life = "running" =>
         \A s \in mapped : s \in held \/ \E t \in Threads : Changing(t) /\ seg[t] = s

(* A slot belongs to its segment. *)
NoStranger ==
    \A i \in DOMAIN slots :
        slots[i] # NULL => slots[i] \in mapped /\ Owns(slots[i], i)

(* A segment in use has all its slots. *)
Complete ==
    \A s \in held : \A i \in Nat :
        Owns(s, i) => i \in DOMAIN slots /\ slots[i] = s

(* A segment on its way in has its first slots, as many as the turns of    *)
(* setEntry; one on its way out has none of the first.                     *)
Progress ==
    \A t \in Threads :
        /\ pc[t] = "set" =>
             /\ \A i \in DOMAIN slots : slots[i] = seg[t] => i < Low(seg[t]) + turn[t]
             /\ \A i \in Nat :
                  i < Low(seg[t]) + turn[t] /\ Owns(seg[t], i) =>
                    i \in DOMAIN slots /\ slots[i] = seg[t]
        /\ pc[t] = "remove" =>
             \A i \in DOMAIN slots : slots[i] = seg[t] => i >= Low(seg[t]) + turn[t]

IInv == Shape /\ Owners /\ NoStranger /\ Complete /\ Progress

(* Once the program has ended, no call runs.                               *)
Ended ==
    /\ Shape /\ AllIdle /\ \A t \in Threads : seg[t] = NULL
    /\ UnmapAllExact

LifeInv == IF life = "running" THEN IInv ELSE Ended

(* What a thread knows in a look up, while its address stays in use.       *)
Looking ==
    \A t \in Threads :
        pc[t] \in {"near", "compare", "previous", "found"} =>
          \E s \in held :
            /\ Contain(s, addr[t])
            /\ pc[t] = "compare" =>
                 \/ entry[t] = s
                 \/ /\ entry[t] # NULL
                    /\ entry[t].start > addr[t]
                    /\ ~ Owns(s, SlotOf(addr[t]))
            /\ pc[t] = "previous" => ~ Owns(s, SlotOf(addr[t]))
            /\ pc[t] = "found" => entry[t] = s

LookInv == IInv /\ Looking

-----------------------------------------------------------------------------
(* Facts about a state *)

LEMMA ShapeFacts ==
    ASSUME Shape
    PROVE  /\ DOMAIN slots \subseteq Nat
           /\ \A i \in DOMAIN slots : slots[i] # NULL => slots[i] \in Segments
           /\ \A t \in Threads : seg[t] # NULL => seg[t] \in Segments
           /\ \A t \in Threads : turn[t] \in Nat
<1>1. DOMAIN slots \subseteq Nat /\ slots \in [DOMAIN slots -> Entries]
  BY TablesFacts DEF Shape
<1> QED BY <1>1 DEF Shape, Entries

(* The segment a thread changes is mapped, and nobody else works on it. *)
LEMMA OwnSegment ==
    ASSUME Shape, Owners, NEW t \in Threads, Changing(t)
    PROVE  /\ seg[t] \in Segments /\ seg[t] \in Anywhere
           /\ seg[t] \in mapped /\ seg[t] \notin held
           /\ Low(seg[t]) \in Nat
           /\ turn[t] \in Nat
           /\ Low(seg[t]) + turn[t] \in Nat
           /\ TurnSlot(seg[t], turn[t]) = Low(seg[t]) + turn[t]
<1>1. seg[t] \in mapped /\ seg[t] \notin held /\ seg[t] \in Segments /\ turn[t] \in Nat
  BY DEF Shape, Owners
<1>2. seg[t] \in Anywhere
  BY <1>1, SegmentsAnywhere
<1>3. Low(seg[t]) \in Nat /\ TurnSlot(seg[t], turn[t]) = Low(seg[t]) + turn[t]
  BY <1>1, <1>2, SlotOfTurn
<1> QED BY <1>1, <1>2, <1>3

(* A slot of a mapped segment holds that segment or nothing. *)
LEMMA SlotOfOwner ==
    ASSUME Shape, Owners, NoStranger,
           NEW s \in mapped, NEW i \in DOMAIN slots, Owns(s, i), slots[i] # NULL
    PROVE  slots[i] = s
<1>1. slots[i] \in mapped /\ Owns(slots[i], i)
  BY DEF NoStranger
<1>2. i \in Nat /\ s \in Anywhere /\ slots[i] \in Anywhere
  BY <1>1, ShapeFacts, SegmentsAnywhere DEF Shape
<1>3. LastByte(i) \in Int
  BY <1>2, SplitAssumption DEF LastByte
<1>4. ~ Disjoint(s, slots[i])
  BY <1>1, <1>2, <1>3, OneOwner DEF Owns
<1> QED BY <1>1, <1>4 DEF Owners

(* A segment that enters or leaves the table has none of the slots it is   *)
(* about to write.                                                         *)
LEMMA NextSlotFree ==
    ASSUME IInv, NEW t \in Threads, pc[t] = "set", SetAgain(seg[t], turn[t])
    PROVE  LET i == Low(seg[t]) + turn[t]
           IN  /\ i \in Nat /\ Owns(seg[t], i)
               /\ i \in DOMAIN slots => slots[i] = NULL
<1> DEFINE i == Low(seg[t]) + turn[t]
<1>1. /\ seg[t] \in mapped /\ seg[t] \in Anywhere
      /\ turn[t] \in Nat /\ i \in Nat
  BY OwnSegment DEF IInv, Changing
<1>2. Owns(seg[t], i)
  BY <1>1, SetAgainOwns
<1>3. ASSUME i \in DOMAIN slots, slots[i] # NULL PROVE FALSE
  <2>1. slots[i] = seg[t]
    BY <1>1, <1>2, <1>3, SlotOfOwner DEF IInv
  <2>2. i < Low(seg[t]) + turn[t]
    BY <1>3, <2>1 DEF IInv, Progress
  <2> QED BY <1>1, <2>2
<1> QED BY <1>1, <1>2, <1>3

-----------------------------------------------------------------------------
(* Every step keeps the invariant *)

LEMMA InitHolds == Init => LookInv
<1> SUFFICES ASSUME Init PROVE LookInv
  OBVIOUS
<1> USE DEF Init
<1>1. DOMAIN slots = {} /\ slots \in [DOMAIN slots -> Entries]
  OBVIOUS
<1>2. Shape
  <2>1. slots \in Tables
    BY <1>1, TablesFacts DEF WholeRegions
  <2>2. 0 \in 0 .. Top - 1
    BY TopAssumption
  <2> QED BY <2>1, <2>2, NullEntry DEF Shape, PCs
<1>3. Owners
  BY DEF Owners, Changing
<1>4. NoStranger /\ Complete /\ Progress /\ Looking
  BY <1>1 DEF NoStranger, Complete, Progress, Looking
<1> QED BY <1>2, <1>3, <1>4 DEF IInv, LookInv

LEMMA MapStep ==
    ASSUME IInv, NEW t \in Threads, Map(t), life = "running", life' = life,
           regions' \subseteq Nat
    PROVE  IInv'
<1> USE DEF IInv
<1>1. PICK s \in Segments :
        /\ \A r \in mapped : Disjoint(s, r)
        /\ mapped' = mapped \union {s}
        /\ seg' = [seg EXCEPT ![t] = s]
  BY DEF Map
<1>2. /\ pc[t] = "idle" /\ pc' = [pc EXCEPT ![t] = "set"]
      /\ UNCHANGED <<slots, held, turn, addr, entry>>
  BY DEF Map, Goto
<1>3. s \in Anywhere /\ s # NULL
  BY SegmentsAnywhere, NullEntry
<1>4. s \notin mapped
  <2> SUFFICES ASSUME s \in mapped PROVE FALSE
    OBVIOUS
  <2>1. Disjoint(s, s) /\ s.start \in Nat /\ s.size \in Nat /\ s.size >= Split
    BY <1>1, SegmentsAnywhere DEF Anywhere
  <2> QED BY <2>1, SplitAssumption DEF Disjoint, End
<1>5. \A u \in Threads : u # t => pc'[u] = pc[u] /\ seg'[u] = seg[u]
  BY <1>1, <1>2 DEF Shape
<1>6. pc'[t] = "set" /\ seg'[t] = s
  BY <1>1, <1>2 DEF Shape
<1>7. ~ Changing(t) /\ turn[t] = 0
  BY <1>2 DEF Changing, Owners
<1>8. \A u \in Threads : u # t => (Changing(u)' <=> Changing(u))
  BY <1>5 DEF Changing
<1>9. Changing(t)'
  BY <1>6 DEF Changing
<1>10. Shape'
  BY <1>1, <1>2 DEF Shape, PCs, Entries
<1>11. Owners'
  <2>1. \A r, q \in mapped' : r # q => Disjoint(r, q)
    BY <1>1 DEF Owners, Disjoint
  <2>2. \A u \in Threads :
          /\ seg'[u] # NULL <=> Changing(u)'
          /\ Changing(u)' => seg'[u] \in mapped' /\ seg'[u] \notin held'
          /\ ~ Changing(u)' => turn'[u] = 0
    BY <1>1, <1>2, <1>3, <1>4, <1>5, <1>6, <1>8, <1>9 DEF Owners, Shape
  <2>3. \A u, v \in Threads : Changing(u)' /\ Changing(v)' /\ u # v => seg'[u] # seg'[v]
    BY <1>4, <1>5, <1>6, <1>8 DEF Owners
  <2>4. \A r \in mapped' : r \in held' \/ \E u \in Threads : Changing(u)' /\ seg'[u] = r
    <3> TAKE r \in mapped'
    <3>1. CASE r = s
      BY <3>1, <1>6, <1>9
    <3>2. CASE r \in mapped
      <4>1. r \in held \/ \E u \in Threads : Changing(u) /\ seg[u] = r
        BY <3>2 DEF Owners
      <4> QED BY <4>1, <1>2, <1>5, <1>7, <1>8
    <3> QED BY <3>1, <3>2, <1>1
  <2> QED BY <2>1, <2>2, <2>3, <2>4 DEF Owners
<1>12. NoStranger'
  BY <1>1, <1>2 DEF NoStranger
<1>13. Complete'
  BY <1>2 DEF Complete
<1>14. Progress'
  <2> SUFFICES ASSUME NEW u \in Threads
               PROVE  /\ pc'[u] = "set" =>
                           /\ \A i \in DOMAIN slots' : slots'[i] = seg'[u] => i < Low(seg'[u]) + turn'[u]
                           /\ \A i \in Nat :
                                i < Low(seg'[u]) + turn'[u] /\ Owns(seg'[u], i) =>
                                  i \in DOMAIN slots' /\ slots'[i] = seg'[u]
                      /\ pc'[u] = "remove" =>
                           \A i \in DOMAIN slots' : slots'[i] = seg'[u] => i >= Low(seg'[u]) + turn'[u]
    BY DEF Progress
  <2>1. CASE u # t
    BY <2>1, <1>2, <1>5 DEF Progress
  <2>2. CASE u = t
    <3>1. \A i \in DOMAIN slots : slots[i] # s
      BY <1>3, <1>4 DEF NoStranger
    <3>2. \A i \in Nat : ~ (i < Low(s) + 0 /\ Owns(s, i))
      BY <1>3, OwnsAbove
    <3> QED BY <2>2, <3>1, <3>2, <1>2, <1>6, <1>7
  <2> QED BY <2>1, <2>2
<1> QED BY <1>10, <1>11, <1>12, <1>13, <1>14

LEMMA SetSlotStep ==
    ASSUME IInv, NEW t \in Threads, SetSlot(t), life' = life,
           regions' \subseteq Nat
    PROVE  IInv'
<1> USE DEF IInv
<1> DEFINE s == seg[t]
           i == Low(s) + turn[t]
<1>1. /\ pc[t] = "set" /\ SetAgain(s, turn[t])
      /\ slots' = StoreEntry(slots, TurnSlot(s, turn[t]), s)
      /\ turn' = [turn EXCEPT ![t] = @ + 1]
      /\ UNCHANGED <<mapped, held, pc, seg, addr, entry>>
  BY DEF SetSlot
<1>2. /\ s \in Segments /\ s \in Anywhere /\ s \in mapped /\ s \notin held
      /\ Low(s) \in Nat /\ turn[t] \in Nat /\ i \in Nat /\ TurnSlot(s, turn[t]) = i
  BY <1>1, OwnSegment DEF Changing
<1>3. Owns(s, i) /\ (i \in DOMAIN slots => slots[i] = NULL)
  BY <1>1, NextSlotFree
<1>4. /\ slots' \in Tables
      /\ i \in DOMAIN slots' /\ slots'[i] = s
      /\ \A j \in DOMAIN slots : j \in DOMAIN slots' /\ (j # i => slots'[j] = slots[j])
      /\ \A j \in DOMAIN slots' :
           j # i /\ slots'[j] # NULL => j \in DOMAIN slots /\ slots'[j] = slots[j]
  <2>1. slots \in Tables
    BY DEF Shape
  <2>2. slots' = StoreEntry(slots, i, s) /\ i \in Nat /\ s \in Segments
    BY <1>1, <1>2
  <2> HIDE DEF i, s, IInv
  <2> QED BY <2>1, <2>2, StoreFacts
<1>5. /\ turn'[t] = turn[t] + 1
      /\ \A u \in Threads : u # t => turn'[u] = turn[u]
  BY <1>1 DEF Shape
<1>6. DOMAIN slots \subseteq Nat /\ DOMAIN slots' \subseteq Nat
  BY <1>4, TablesFacts DEF Shape
<1>7. s # NULL
  BY <1>2, NullEntry
<1> HIDE DEF i
<1>8. Shape'
  BY <1>1, <1>2, <1>4 DEF Shape
<1>9. Owners'
  <2>1. \A u \in Threads : Changing(u)' <=> Changing(u)
    BY <1>1 DEF Changing
  <2>2. \A u \in Threads : ~ Changing(u) => turn'[u] = turn[u]
    BY <1>1, <1>5 DEF Changing
  <2> QED BY <1>1, <2>1, <2>2 DEF Owners
<1>10. NoStranger'
  <2> SUFFICES ASSUME NEW j \in DOMAIN slots', slots'[j] # NULL
               PROVE  slots'[j] \in mapped /\ Owns(slots'[j], j)
    BY <1>1 DEF NoStranger
  <2>1. CASE j = i
    BY <2>1, <1>2, <1>3, <1>4
  <2>2. CASE j # i
    BY <2>2, <1>4 DEF NoStranger
  <2> QED BY <2>1, <2>2
<1>11. Complete'
  <2> SUFFICES ASSUME NEW r \in held, NEW j \in Nat, Owns(r, j)
               PROVE  j \in DOMAIN slots' /\ slots'[j] = r
    BY <1>1 DEF Complete
  <2>1. j \in DOMAIN slots /\ slots[j] = r /\ r # NULL
    BY NullEntry DEF Complete, Shape
  <2> QED BY <2>1, <1>3, <1>4
<1>12. Progress'
  <2> SUFFICES ASSUME NEW u \in Threads
               PROVE  /\ pc[u] = "set" =>
                           /\ \A j \in DOMAIN slots' : slots'[j] = seg[u] => j < Low(seg[u]) + turn'[u]
                           /\ \A j \in Nat :
                                j < Low(seg[u]) + turn'[u] /\ Owns(seg[u], j) =>
                                  j \in DOMAIN slots' /\ slots'[j] = seg[u]
                      /\ pc[u] = "remove" =>
                           \A j \in DOMAIN slots' : slots'[j] = seg[u] => j >= Low(seg[u]) + turn'[u]
    BY <1>1 DEF Progress
  <2>1. CASE u = t
    <3>1. \A j \in DOMAIN slots' : slots'[j] = s => j < Low(s) + turn'[t]
      <4> SUFFICES ASSUME NEW j \in DOMAIN slots', slots'[j] = s
                   PROVE  j < Low(s) + turn'[t]
        OBVIOUS
      <4>1. CASE j = i
        BY <4>1, <1>2, <1>5 DEF i
      <4>2. CASE j # i
        <5>1. j \in DOMAIN slots /\ slots[j] = s
          BY <4>2, <1>4, <1>7
        <5>2. j < Low(s) + turn[t] /\ j \in Nat
          BY <5>1, <1>1, <1>6 DEF Progress
        <5> QED BY <5>2, <1>2, <1>5
      <4> QED BY <4>1, <4>2
    <3>2. \A j \in Nat : j < Low(s) + turn'[t] /\ Owns(s, j) =>
            j \in DOMAIN slots' /\ slots'[j] = s
      <4> SUFFICES ASSUME NEW j \in Nat, j < Low(s) + turn'[t], Owns(s, j)
                   PROVE  j \in DOMAIN slots' /\ slots'[j] = s
        OBVIOUS
      <4>1. CASE j = i
        BY <4>1, <1>4
      <4>2. CASE j # i
        <5>1. j < Low(s) + turn[t]
          BY <4>2, <1>2, <1>5 DEF i
        <5>2. j \in DOMAIN slots /\ slots[j] = s
          BY <5>1, <1>1 DEF Progress
        <5> QED BY <5>2, <4>2, <1>4
      <4> QED BY <4>1, <4>2
    <3> QED BY <2>1, <3>1, <3>2, <1>1
  <2>2. CASE u # t
    <3>1. CASE ~ Changing(u)
      BY <3>1 DEF Changing
    <3>2. CASE Changing(u)
      <4>1. seg[u] # s /\ seg[u] # NULL
        BY <2>2, <3>2, <1>1 DEF Owners, Changing
      <4>2. \A j \in DOMAIN slots' : slots'[j] = seg[u] => j \in DOMAIN slots /\ slots[j] = seg[u]
        BY <4>1, <1>4
      <4>3. \A j \in DOMAIN slots : slots[j] = seg[u] => j \in DOMAIN slots' /\ slots'[j] = seg[u]
        BY <4>1, <1>3, <1>4
      <4> QED BY <2>2, <4>2, <4>3, <1>5 DEF Progress
    <3> QED BY <3>1, <3>2
  <2> QED BY <2>1, <2>2
<1> QED BY <1>8, <1>9, <1>10, <1>11, <1>12

(* The end of a call of thread t: its locals are dead.                     *)
LEMMA ResetFacts ==
    ASSUME Shape, NEW t \in Threads, Reset(t)
    PROVE  /\ pc' \in [Threads -> PCs] /\ seg' \in [Threads -> Entries]
           /\ turn' \in [Threads -> Nat] /\ addr' \in [Threads -> 0 .. Top - 1]
           /\ entry' \in [Threads -> Entries]
           /\ pc'[t] = "idle" /\ seg'[t] = NULL /\ turn'[t] = 0 /\ ~ Changing(t)'
           /\ \A u \in Threads : u # t =>
                /\ pc'[u] = pc[u] /\ seg'[u] = seg[u] /\ turn'[u] = turn[u]
                /\ addr'[u] = addr[u] /\ entry'[u] = entry[u]
                /\ Changing(u)' <=> Changing(u)
<1>1. 0 \in 0 .. Top - 1 /\ NULL \in Entries
  BY TopAssumption, NullEntry
<1> QED BY <1>1 DEF Shape, Reset, Goto, Changing, PCs

(* The slots of the other threads' segments stay as they are.              *)
LEMMA ProgressOfOthers ==
    ASSUME Progress, NEW t \in Threads, ~ Changing(t)', slots' = slots,
           \A u \in Threads : u # t => pc'[u] = pc[u] /\ seg'[u] = seg[u] /\ turn'[u] = turn[u]
    PROVE  Progress'
<1> SUFFICES ASSUME NEW u \in Threads
             PROVE  /\ pc'[u] = "set" =>
                         /\ \A i \in DOMAIN slots' : slots'[i] = seg'[u] => i < Low(seg'[u]) + turn'[u]
                         /\ \A i \in Nat :
                              i < Low(seg'[u]) + turn'[u] /\ Owns(seg'[u], i) =>
                                i \in DOMAIN slots' /\ slots'[i] = seg'[u]
                    /\ pc'[u] = "remove" =>
                         \A i \in DOMAIN slots' : slots'[i] = seg'[u] => i >= Low(seg'[u]) + turn'[u]
  BY DEF Progress
<1>1. CASE u = t
  BY <1>1 DEF Changing
<1>2. CASE u # t
  BY <1>2 DEF Progress
<1> QED BY <1>1, <1>2

LEMMA SetDoneStep ==
    ASSUME IInv, NEW t \in Threads, SetDone(t), life' = life,
           regions' \subseteq Nat
    PROVE  IInv'
<1> USE DEF IInv
<1> DEFINE s == seg[t]
<1>1. /\ pc[t] = "set" /\ ~ SetAgain(s, turn[t])
      /\ held' = held \union {s} /\ Reset(t)
      /\ UNCHANGED <<slots, mapped>>
  BY DEF SetDone
<1>2. /\ s \in Segments /\ s \in Anywhere /\ s \in mapped /\ s \notin held
      /\ Low(s) \in Nat /\ turn[t] \in Nat
  BY <1>1, OwnSegment DEF Changing
<1>3. Changing(t)
  BY <1>1 DEF Changing
<1>4. Shape'
  BY <1>1, <1>2, ResetFacts DEF Shape
<1>5. Owners'
  <2>1. \A u \in Threads :
          /\ seg'[u] # NULL <=> Changing(u)'
          /\ Changing(u)' => seg'[u] \in mapped' /\ seg'[u] \notin held'
          /\ ~ Changing(u)' => turn'[u] = 0
    <3> TAKE u \in Threads
    <3>1. CASE u = t
      BY <3>1, <1>1, ResetFacts
    <3>2. CASE u # t
      BY <3>2, <1>1, <1>3, ResetFacts DEF Owners
    <3> QED BY <3>1, <3>2
  <2>2. \A u, v \in Threads : Changing(u)' /\ Changing(v)' /\ u # v => seg'[u] # seg'[v]
    BY <1>1, ResetFacts DEF Owners
  <2>3. life' = "running" =>
          \A r \in mapped' : r \in held' \/ \E u \in Threads : Changing(u)' /\ seg'[u] = r
    <3> SUFFICES ASSUME life = "running", NEW r \in mapped, r \notin held, r # s
                 PROVE  \E u \in Threads : Changing(u)' /\ seg'[u] = r
      BY <1>1
    <3>1. PICK u \in Threads : Changing(u) /\ seg[u] = r
      BY DEF Owners
    <3> QED BY <3>1, <1>1, ResetFacts
  <2> QED BY <2>1, <2>2, <2>3, <1>1 DEF Owners
<1>6. NoStranger'
  BY <1>1 DEF NoStranger
<1>7. Complete'
  <2> SUFFICES ASSUME NEW i \in Nat, Owns(s, i)
               PROVE  i \in DOMAIN slots /\ slots[i] = s
    BY <1>1 DEF Complete
  <2>1. Low(s) <= i
    BY <1>2, OwnsAbove
  <2>2. ASSUME i >= Low(s) + turn[t] PROVE FALSE
    <3>1. ~ Owns(s, Low(s) + turn[t])
      BY <1>1, <1>2, SetAgainOwns
    <3>2. LastByte(Low(s) + turn[t]) \in Int /\ LastByte(Low(s) + turn[t]) <= LastByte(i)
      <4> DEFINE k == Low(s) + turn[t]
      <4>1. k \in Nat /\ k <= i
        BY <1>2, <2>2
      <4> HIDE DEF k
      <4>2. (k + 1) * Split \in Int /\ (i + 1) * Split \in Int /\ (k + 1) * Split <= (i + 1) * Split
        BY <4>1, MultiplesApart, SplitAssumption
      <4>3. LastByte(k) \in Int /\ LastByte(k) <= LastByte(i)
        BY <4>2 DEF LastByte
      <4> QED BY <4>3 DEF k
    <3>3. s.start <= LastByte(Low(s) + turn[t])
      <4> DEFINE k == Low(s) + turn[t]
                 q == Low(s)
      <4>1. s.start \in Nat /\ q \in Nat /\ s.start < q * Split + Split
        BY <1>2, Quotient, SplitAssumption DEF Low, SlotOf, Anywhere
      <4>2. k \in Nat /\ q <= k
        BY <1>2
      <4> HIDE DEF k, q
      <4>3. q * Split + Split <= (k + 1) * Split /\ (k + 1) * Split \in Int /\ q * Split \in Int
        BY <4>1, <4>2, MultiplesApart, SplitAssumption
      <4>4. s.start <= LastByte(k)
        BY <4>1, <4>3, SplitAssumption DEF LastByte
      <4> QED BY <4>4 DEF k
    <3>4. LastByte(i) < End(s) /\ LastByte(i) \in Int /\ End(s) \in Int
      BY <1>2, SplitAssumption DEF Owns, Contain, LastByte, End, Anywhere
    <3>5. LastByte(Low(s) + turn[t]) < End(s)
      BY <3>2, <3>4
    <3> QED BY <3>1, <3>3, <3>5 DEF Owns, Contain
  <2>3. i < Low(s) + turn[t]
    BY <2>2, <1>2
  <2> QED BY <2>3, <1>1 DEF Progress
<1>8. Progress'
  BY <1>1, ResetFacts, ProgressOfOthers
<1> QED BY <1>4, <1>5, <1>6, <1>7, <1>8

LEMMA RemoveBeginStep ==
    ASSUME IInv, NEW t \in Threads, RemoveBegin(t), life' = life,
           regions' \subseteq Nat
    PROVE  IInv'
<1> USE DEF IInv
<1>1. PICK s \in held : held' = held \ {s} /\ seg' = [seg EXCEPT ![t] = s]
  BY DEF RemoveBegin
<1>2. /\ pc[t] = "idle" /\ pc' = [pc EXCEPT ![t] = "remove"]
      /\ UNCHANGED <<slots, mapped, turn, addr, entry>>
  BY DEF RemoveBegin, Goto
<1>3. s \in mapped /\ s \in Segments /\ s \in Anywhere /\ s # NULL
  BY SegmentsAnywhere, NullEntry DEF Shape
<1>4. \A u \in Threads : u # t =>
        pc'[u] = pc[u] /\ seg'[u] = seg[u] /\ (Changing(u)' <=> Changing(u))
  BY <1>1, <1>2 DEF Shape, Changing
<1>5. pc'[t] = "remove" /\ seg'[t] = s /\ Changing(t)'
  BY <1>1, <1>2 DEF Shape, Changing
<1>6. ~ Changing(t) /\ turn[t] = 0
  BY <1>2 DEF Changing, Owners
<1>7. Shape'
  BY <1>1, <1>2, <1>3 DEF Shape, PCs, Entries
<1>8. Owners'
  <2>1. \A u \in Threads :
          /\ seg'[u] # NULL <=> Changing(u)'
          /\ Changing(u)' => seg'[u] \in mapped' /\ seg'[u] \notin held'
          /\ ~ Changing(u)' => turn'[u] = 0
    <3> TAKE u \in Threads
    <3>1. CASE u = t
      BY <3>1, <1>1, <1>2, <1>3, <1>5
    <3>2. CASE u # t
      BY <3>2, <1>1, <1>2, <1>4 DEF Owners
    <3> QED BY <3>1, <3>2
  <2>2. \A u, v \in Threads : Changing(u)' /\ Changing(v)' /\ u # v => seg'[u] # seg'[v]
    BY <1>4, <1>5 DEF Owners
  <2>3. life' = "running" =>
          \A r \in mapped' : r \in held' \/ \E u \in Threads : Changing(u)' /\ seg'[u] = r
    <3> SUFFICES ASSUME life = "running", NEW r \in mapped, r \notin held'
                 PROVE  \E u \in Threads : Changing(u)' /\ seg'[u] = r
      BY <1>2
    <3>1. CASE r = s
      BY <3>1, <1>5
    <3>2. CASE r # s
      <4>1. PICK u \in Threads : Changing(u) /\ seg[u] = r
        BY <3>2, <1>1 DEF Owners
      <4> QED BY <4>1, <1>4, <1>6
    <3> QED BY <3>1, <3>2
  <2> QED BY <2>1, <2>2, <2>3, <1>2 DEF Owners
<1>9. NoStranger' /\ Complete'
  BY <1>1, <1>2 DEF NoStranger, Complete
<1>10. Progress'
  <2> SUFFICES ASSUME NEW u \in Threads
               PROVE  /\ pc'[u] = "set" =>
                           /\ \A i \in DOMAIN slots : slots[i] = seg'[u] => i < Low(seg'[u]) + turn[u]
                           /\ \A i \in Nat :
                                i < Low(seg'[u]) + turn[u] /\ Owns(seg'[u], i) =>
                                  i \in DOMAIN slots /\ slots[i] = seg'[u]
                      /\ pc'[u] = "remove" =>
                           \A i \in DOMAIN slots : slots[i] = seg'[u] => i >= Low(seg'[u]) + turn[u]
    BY <1>2 DEF Progress
  <2>1. CASE u # t
    BY <2>1, <1>4 DEF Progress
  <2>2. CASE u = t
    <3>1. \A i \in DOMAIN slots : slots[i] = s => Low(s) \in Nat /\ i \in Nat /\ Low(s) <= i
      <4> SUFFICES ASSUME NEW i \in DOMAIN slots, slots[i] = s
                   PROVE  Low(s) \in Nat /\ i \in Nat /\ Low(s) <= i
        OBVIOUS
      <4>1. i \in Nat /\ Owns(s, i)
        BY <1>3, ShapeFacts DEF NoStranger
      <4> QED BY <4>1, <1>3, OwnsAbove
    <3> QED BY <2>2, <3>1, <1>5, <1>6
  <2> QED BY <2>1, <2>2
<1> QED BY <1>7, <1>8, <1>9, <1>10

LEMMA RemoveSlotStep ==
    ASSUME IInv, NEW t \in Threads, RemoveSlot(t), life' = life,
           regions' \subseteq Nat
    PROVE  IInv'
<1> USE DEF IInv
<1> DEFINE s == seg[t]
           i == Low(s) + turn[t]
<1>1. /\ pc[t] = "remove"
      /\ TurnSlot(s, turn[t]) \in DOMAIN slots
      /\ slots' = ClearEntry(slots, TurnSlot(s, turn[t]), s)
      /\ turn' = [turn EXCEPT ![t] = @ + 1]
      /\ UNCHANGED <<mapped, held, pc, seg, addr, entry>>
  BY DEF RemoveSlot
<1>2. /\ s \in Segments /\ s \in Anywhere /\ s \in mapped /\ s \notin held
      /\ Low(s) \in Nat /\ turn[t] \in Nat /\ i \in Nat /\ TurnSlot(s, turn[t]) = i
  BY <1>1, OwnSegment DEF Changing
<1>3. /\ slots' \in Tables
      /\ DOMAIN slots' = DOMAIN slots
      /\ slots'[i] # s
      /\ \A j \in DOMAIN slots : slots'[j] = slots[j] \/ (j = i /\ slots[j] = s /\ slots'[j] = NULL)
  <2>1. slots \in Tables
    BY DEF Shape
  <2> QED BY <1>1, <1>2, <2>1, ClearFacts
<1>4. /\ turn'[t] = turn[t] + 1
      /\ \A u \in Threads : u # t => turn'[u] = turn[u]
  BY <1>1 DEF Shape
<1>5. DOMAIN slots \subseteq Nat
  BY ShapeFacts
<1>6. s # NULL
  BY <1>2, NullEntry
<1> HIDE DEF i
<1>7. Shape'
  BY <1>1, <1>2, <1>3 DEF Shape
<1>8. Owners'
  <2>1. \A u \in Threads : Changing(u)' <=> Changing(u)
    BY <1>1 DEF Changing
  <2>2. \A u \in Threads : ~ Changing(u) => turn'[u] = turn[u]
    BY <1>1, <1>4 DEF Changing
  <2> QED BY <1>1, <2>1, <2>2 DEF Owners
<1>9. NoStranger'
  BY <1>1, <1>3 DEF NoStranger
<1>10. Complete'
  <2> SUFFICES ASSUME NEW r \in held, NEW j \in Nat, Owns(r, j)
               PROVE  j \in DOMAIN slots' /\ slots'[j] = r
    BY <1>1 DEF Complete
  <2>1. j \in DOMAIN slots /\ slots[j] = r /\ r # s
    BY <1>2 DEF Complete
  <2> QED BY <2>1, <1>3
<1>11. Progress'
  <2> SUFFICES ASSUME NEW u \in Threads
               PROVE  /\ pc[u] = "set" =>
                           /\ \A j \in DOMAIN slots' : slots'[j] = seg[u] => j < Low(seg[u]) + turn'[u]
                           /\ \A j \in Nat :
                                j < Low(seg[u]) + turn'[u] /\ Owns(seg[u], j) =>
                                  j \in DOMAIN slots' /\ slots'[j] = seg[u]
                      /\ pc[u] = "remove" =>
                           \A j \in DOMAIN slots' : slots'[j] = seg[u] => j >= Low(seg[u]) + turn'[u]
    BY <1>1 DEF Progress
  <2>1. CASE u = t
    <3> SUFFICES ASSUME NEW j \in DOMAIN slots, slots'[j] = s
                 PROVE  j >= Low(s) + turn'[t]
      BY <2>1, <1>1, <1>3
    <3>1. j # i /\ slots[j] = s
      BY <1>3, <1>6
    <3>2. j >= Low(s) + turn[t] /\ j \in Nat
      BY <3>1, <1>1, <1>5 DEF Progress
    <3> QED BY <3>1, <3>2, <1>2, <1>4 DEF i
  <2>2. CASE u # t
    <3>1. CASE ~ Changing(u)
      BY <3>1 DEF Changing
    <3>2. CASE Changing(u)
      <4>1. seg[u] # s /\ seg[u] # NULL
        BY <2>2, <3>2, <1>1 DEF Owners, Changing
      <4>2. \A j \in DOMAIN slots : slots'[j] = seg[u] <=> slots[j] = seg[u]
        BY <4>1, <1>3
      <4> QED BY <2>2, <4>2, <1>3, <1>4 DEF Progress
    <3> QED BY <3>1, <3>2
  <2> QED BY <2>1, <2>2
<1> QED BY <1>7, <1>8, <1>9, <1>10, <1>11

LEMMA UnmapStep ==
    ASSUME IInv, NEW t \in Threads, Unmap(t), life' = life,
           regions' \subseteq Nat
    PROVE  IInv'
<1> USE DEF IInv
<1> DEFINE s == seg[t]
<1>1. /\ pc[t] = "remove" /\ ~ RemoveAgain(s, turn[t])
      /\ mapped' = mapped \ {s} /\ Reset(t)
      /\ UNCHANGED <<slots, held>>
  BY DEF Unmap
<1>2. Changing(t)
  BY <1>1 DEF Changing
<1>3. /\ s \in Segments /\ s \in Anywhere /\ s \in mapped /\ s \notin held
      /\ Low(s) \in Nat /\ turn[t] \in Nat
  BY <1>2, OwnSegment
<1>4. Shape'
  BY <1>1, <1>3, ResetFacts DEF Shape
<1>5. Owners'
  <2>1. \A u \in Threads :
          /\ seg'[u] # NULL <=> Changing(u)'
          /\ Changing(u)' => seg'[u] \in mapped' /\ seg'[u] \notin held'
          /\ ~ Changing(u)' => turn'[u] = 0
    <3> TAKE u \in Threads
    <3>1. CASE u = t
      BY <3>1, <1>1, ResetFacts
    <3>2. CASE u # t
      BY <3>2, <1>1, <1>2, ResetFacts DEF Owners
    <3> QED BY <3>1, <3>2
  <2>2. \A u, v \in Threads : Changing(u)' /\ Changing(v)' /\ u # v => seg'[u] # seg'[v]
    BY <1>1, ResetFacts DEF Owners
  <2>3. life' = "running" =>
          \A r \in mapped' : r \in held' \/ \E u \in Threads : Changing(u)' /\ seg'[u] = r
    <3> SUFFICES ASSUME life = "running", NEW r \in mapped, r \notin held, r # s
                 PROVE  \E u \in Threads : Changing(u)' /\ seg'[u] = r
      BY <1>1
    <3>1. PICK u \in Threads : Changing(u) /\ seg[u] = r
      BY DEF Owners
    <3> QED BY <3>1, <1>1, ResetFacts
  <2> QED BY <2>1, <2>2, <2>3, <1>1 DEF Owners
<1>6. NoStranger'
  <2> SUFFICES ASSUME NEW i \in DOMAIN slots, slots[i] # NULL
               PROVE  slots[i] \in mapped' /\ Owns(slots[i], i)
    BY <1>1 DEF NoStranger
  <2>1. slots[i] \in mapped /\ Owns(slots[i], i) /\ i \in Nat
    BY ShapeFacts DEF NoStranger
  <2>2. ASSUME slots[i] = s PROVE FALSE
    <3>1. i >= Low(s) + turn[t]
      BY <2>2, <1>1 DEF Progress
    <3>2. Low(s) + turn[t] <= i
      BY <3>1, <2>1, <1>3
    <3> QED BY <3>2, <2>1, <2>2, <1>1, <1>3, RemoveReaches
  <2> QED BY <2>1, <2>2, <1>1
<1>7. Complete'
  BY <1>1 DEF Complete
<1>8. Progress'
  BY <1>1, ResetFacts, ProgressOfOthers
<1> QED BY <1>4, <1>5, <1>6, <1>7, <1>8

-----------------------------------------------------------------------------
(* A step of a look up changes nothing that is shared. *)
LookUp(t) == LookupBegin(t) \/ ReadNear(t) \/ Compare(t) \/ ReadPrevious(t) \/ Return(t)

LEMMA LookUpFacts ==
    ASSUME IInv, NEW t \in Threads, LookUp(t)
    PROVE  /\ UNCHANGED <<slots, mapped, held, seg, turn>>
           /\ ~ Changing(t) /\ ~ Changing(t)'
           /\ pc' \in [Threads -> PCs] /\ addr' \in [Threads -> 0 .. Top - 1]
           /\ entry' \in [Threads -> Entries]
           /\ \A u \in Threads : u # t =>
                pc'[u] = pc[u] /\ addr'[u] = addr[u] /\ entry'[u] = entry[u]
<1> USE DEF IInv
<1>1. \A a : Entry(slots, a) \in Entries
  <2> TAKE a
  <2>1. CASE Entry(slots, a) = NULL
    BY <2>1, NullEntry
  <2>2. CASE Entry(slots, a) # NULL
    BY <2>2, EntryFacts DEF Shape, Entries
  <2> QED BY <2>1, <2>2
<1>2. \A e \in Entries : \A a : Found(e, a) \in Entries
  BY NullEntry DEF Found
<1>3. CASE LookupBegin(t)
  <2>0. PICK s \in held : \E a \in s.start .. End(s) - 1 : addr' = [addr EXCEPT ![t] = a]
    BY <1>3 DEF LookupBegin
  <2>1. PICK a \in s.start .. End(s) - 1 : addr' = [addr EXCEPT ![t] = a]
    BY <2>0
  <2>2. s.start \in Nat /\ End(s) \in Nat /\ End(s) <= Top
    BY SegmentsAnywhere DEF Shape, Anywhere, End
  <2>3. a \in 0 .. Top - 1
    BY <2>1, <2>2, TopAssumption
  <2>4. addr' \in [Threads -> 0 .. Top - 1] /\ \A u \in Threads : u # t => addr'[u] = addr[u]
    BY <2>1, <2>3 DEF Shape
  <2> QED BY <1>3, <2>4 DEF LookupBegin, Goto, Shape, Changing, PCs
<1>4. CASE ReadNear(t)
  BY <1>1, <1>4 DEF ReadNear, Goto, Shape, Changing, PCs
<1>5. CASE Compare(t)
  <2>1. PICK near \in {entry[t]} \union (IF Reloads THEN {Entry(slots, addr[t])} ELSE {}) :
          IF near # NULL /\ UsePrevious(near, addr[t])
            THEN Goto(t, "previous") /\ UNCHANGED entry
            ELSE /\ Goto(t, "found")
                 /\ entry' = [entry EXCEPT ![t] = Found(near, addr[t])]
    BY <1>5 DEF Compare
  <2>2. near \in Entries
    BY <1>1 DEF Shape
  <2>3. Found(near, addr[t]) \in Entries
    BY <2>2, <1>2
  <2>4. pc[t] = "compare" /\ UNCHANGED <<slots, mapped, held, seg, turn, addr>>
    BY <1>5 DEF Compare
  <2>5. CASE near # NULL /\ UsePrevious(near, addr[t])
    BY <2>1, <2>4, <2>5 DEF Goto, Shape, Changing, PCs
  <2>6. CASE ~ (near # NULL /\ UsePrevious(near, addr[t]))
    BY <2>1, <2>3, <2>4, <2>6 DEF Goto, Shape, Changing, PCs
  <2> QED BY <2>5, <2>6
<1>6. CASE ReadPrevious(t)
  <2>1. Found(Entry(slots, addr[t] - Split), addr[t]) \in Entries
    BY <1>1, <1>2
  <2> QED BY <1>6, <2>1 DEF ReadPrevious, Goto, Shape, Changing, PCs
<1>7. CASE Return(t)
  <2>1. pc[t] = "found" /\ Reset(t) /\ UNCHANGED <<slots, mapped, held>>
    BY <1>7 DEF Return
  <2>2. ~ Changing(t) /\ seg[t] = NULL /\ turn[t] = 0
    BY <2>1 DEF Changing, Owners
  <2>3. seg' = seg /\ turn' = turn
    BY <2>1, <2>2 DEF Reset, Shape
  <2> QED BY <2>1, <2>2, <2>3, ResetFacts
<1> QED BY <1>3, <1>4, <1>5, <1>6, <1>7 DEF LookUp

LEMMA LookUpStep ==
    ASSUME IInv, NEW t \in Threads, LookUp(t), life' = life,
           regions' \subseteq Nat
    PROVE  IInv'
<1> USE DEF IInv
<1>1. /\ UNCHANGED <<life, slots, mapped, held, seg, turn>>
      /\ \A u \in Threads : Changing(u)' <=> Changing(u)
      /\ \A u \in Threads : Changing(u) => pc'[u] = pc[u]
  BY LookUpFacts DEF Changing
<1>2. Shape'
  BY <1>1, LookUpFacts DEF Shape
<1>3. Owners'
  BY <1>1 DEF Owners
<1>4. NoStranger' /\ Complete'
  BY <1>1 DEF NoStranger, Complete
<1>5. Progress'
  BY <1>1, LookUpFacts, ProgressOfOthers
<1> QED BY <1>2, <1>3, <1>4, <1>5

-----------------------------------------------------------------------------
(* The end *)

(* A segment in use owns a slot, as it is as long as one.                  *)
LEMMA OwnsOne ==
    ASSUME NEW s \in Segments
    PROVE  \E i \in Nat : Owns(s, i)
<1>1. s \in Anywhere /\ s.size >= Split /\ s.start \in Nat /\ s.size \in Nat
  BY SegmentsAnywhere DEF Anywhere
<1>2. Contain(s, s.start)
  BY <1>1, SplitAssumption DEF Contain, End
<1> QED BY <1>1, <1>2, NearOrPrevious

(* unmapAllMemory visits a segment in every region that has slots of it,   *)
LEMMA VisitInRegion ==
    ASSUME Shape, NEW s, s # NULL, NEW j \in DOMAIN slots, slots[j] = s
    PROVE  \E i \in UnmapVisits(slots) :
             i \in DOMAIN slots /\ slots[i] = s /\ RegionOf(i) = RegionOf(j)
<1> DEFINE S == {i \in DOMAIN slots : slots[i] = s /\ RegionOf(i) = RegionOf(j)}
<1>1. S \in SUBSET Nat /\ S # {}
  BY ShapeFacts
<1>2. PICK i \in S : \A k \in S : i <= k
  <2> HIDE DEF S
  <2> QED BY <1>1, LeastElement
<1>3. i \in DOMAIN slots /\ slots[i] = s /\ i \in Nat /\ RegionOf(i) = RegionOf(j)
  BY <1>1, <1>2
<1>4. ASSUME i % RegionSlots # 0 PROVE slots[i] # slots[i - 1]
  <2>1. i - 1 \in Nat /\ (i - 1) \div RegionSlots = i \div RegionSlots
    BY <1>3, <1>4, QuotientBefore, SplitAssumption
  <2>2. i - 1 \in DOMAIN slots
    BY <1>3, <2>1, TablesFacts DEF Shape, WholeRegions
  <2>3. i - 1 \notin S
    BY <1>2, <1>3, <2>1
  <2> QED BY <1>3, <2>1, <2>2, <2>3 DEF RegionOf
<1>5. i \in UnmapVisits(slots)
  BY <1>3, <1>4 DEF UnmapVisits
<1> QED BY <1>3, <1>5

(* so every segment in use,                                                *)
LEMMA SomeVisit ==
    ASSUME Shape, Complete, NEW s \in held
    PROVE  \E i \in UnmapVisits(slots) : slots[i] = s
<1>1. s \in Segments /\ s # NULL
  BY NullEntry DEF Shape
<1>2. PICK j \in Nat : Owns(s, j)
  BY <1>1, OwnsOne
<1>3. j \in DOMAIN slots /\ slots[j] = s
  BY <1>2 DEF Complete
<1> QED BY <1>1, <1>3, VisitInRegion

(* and none twice in a region.                                             *)
LEMMA OneVisit ==
    ASSUME Shape, NoStranger, Complete, NEW s \in held,
           NEW i \in UnmapVisits(slots), slots[i] = s,
           NEW j \in UnmapVisits(slots), slots[j] = s,
           RegionOf(i) = RegionOf(j)
    PROVE  i = j
<1>1. /\ i \in Nat /\ j \in Nat /\ i \in DOMAIN slots /\ j \in DOMAIN slots
      /\ slots[i] = s /\ slots[j] = s
      /\ i % RegionSlots # 0 => slots[i - 1] # s
      /\ j % RegionSlots # 0 => slots[j - 1] # s
  BY ShapeFacts DEF UnmapVisits
<1>2. s \in Anywhere /\ Owns(s, i) /\ Owns(s, j)
  <2>1. s \in Segments
    BY DEF Shape
  <2>2. s # NULL
    BY <2>1, NullEntry
  <2> QED BY <1>1, <2>1, <2>2, SegmentsAnywhere DEF NoStranger
<1>3. \A k, m \in Nat :
        k < m /\ k \div RegionSlots = m \div RegionSlots /\ Owns(s, k) /\ Owns(s, m) =>
          m % RegionSlots # 0 /\ slots[m - 1] = s
  <2> TAKE k, m \in Nat
  <2> HAVE k < m /\ k \div RegionSlots = m \div RegionSlots /\ Owns(s, k) /\ Owns(s, m)
  <2>1. m % RegionSlots # 0
    BY QuotientInside, SplitAssumption
  <2>2. m - 1 \in Nat /\ k <= m - 1 /\ m - 1 <= m
    OBVIOUS
  <2>3. Owns(s, m - 1)
    BY <1>2, <2>2, OwnsBetween
  <2> QED BY <2>1, <2>2, <2>3 DEF Complete
<1>4. ~ i < j
  BY <1>1, <1>2, <1>3 DEF RegionOf
<1>5. ~ j < i
  BY <1>1, <1>2, <1>3 DEF RegionOf
<1> QED BY <1>1, <1>4, <1>5

(* Once no call runs, what is mapped is in use.                            *)
LEMMA IdleMeansHeld ==
    ASSUME IInv, life = "running", AllIdle
    PROVE  mapped = held
<1>1. \A t \in Threads : ~ Changing(t)
  BY DEF AllIdle, Changing
<1> QED BY <1>1 DEF IInv, Owners, Shape

LEMMA IdleThreads ==
    ASSUME IInv, AllIdle
    PROVE  \A t \in Threads : seg[t] = NULL
BY DEF IInv, Owners, AllIdle, Changing

(* It is only over two regions that a segment is visited twice; then its   *)
(* header is gone the second time.                                         *)
LEMMA UnmapAllStep ==
    ASSUME IInv, UnmapAll
    PROVE  Ended' /\ life' # "running"
<1> DEFINE reached == {i \in UnmapVisits(slots) : \A j \in Dangling : i < j}
<1>1. /\ life = "running" /\ AllIdle /\ held' = {}
      /\ life' = IF Dangling = {} THEN "over" ELSE "faulted"
      /\ mapped' = mapped \ {slots[i] : i \in reached}
      /\ regions' = {r \in regions : \E j \in Dangling : RegionOf(j) <= r}
      /\ UNCHANGED <<slots, pc, seg, turn, addr, entry>>
  BY DEF UnmapAll
<1>2. Shape' /\ AllIdle' /\ \A t \in Threads : seg'[t] = NULL
  <2>1. Shape /\ \A t \in Threads : seg[t] = NULL
    BY <1>1, IdleThreads DEF IInv
  <2>2. mapped' \subseteq mapped /\ regions' \subseteq regions
    BY <1>1
  <2> QED BY <1>1, <2>1, <2>2 DEF Shape, AllIdle
<1>3. mapped = held
  BY <1>1, IdleMeansHeld
<1>4. ASSUME NEW i \in DOMAIN slots, slots[i] # NULL PROVE slots[i] \in held
  BY <1>3, <1>4 DEF IInv, NoStranger
<1>5. OverTwoRegions' = OverTwoRegions
  BY <1>1 DEF OverTwoRegions
<1>6. CASE Dangling = {}
  <2>1. life' = "over" /\ regions' = {}
    BY <1>1, <1>6
  <2>2. mapped' = {}
    <3> SUFFICES ASSUME NEW s \in mapped
                 PROVE  s \in {slots[i] : i \in reached}
      BY <1>1
    <3>1. PICK i \in UnmapVisits(slots) : slots[i] = s
      BY <1>3, SomeVisit DEF IInv
    <3> QED BY <1>6, <3>1
  <2>3. ~ OverTwoRegions
    <3> SUFFICES ASSUME NEW i \in DOMAIN slots, NEW j \in DOMAIN slots,
                        slots[i] # NULL, slots[i] = slots[j], RegionOf(i) # RegionOf(j)
                 PROVE  FALSE
      BY DEF OverTwoRegions
    <3>1. PICK k \in UnmapVisits(slots) :
            k \in DOMAIN slots /\ slots[k] = slots[i] /\ RegionOf(k) = RegionOf(i)
      BY VisitInRegion DEF IInv
    <3>2. PICK m \in UnmapVisits(slots) :
            m \in DOMAIN slots /\ slots[m] = slots[i] /\ RegionOf(m) = RegionOf(j)
      BY VisitInRegion DEF IInv
    <3>3. k \in Nat /\ m \in Nat /\ k # m
      BY <3>1, <3>2, ShapeFacts DEF IInv
    <3>4. k < m \/ m < k
      BY <3>3
    <3> QED BY <1>6, <3>1, <3>2, <3>4 DEF Dangling
  <2> QED BY <1>2, <1>5, <2>1, <2>2, <2>3 DEF Ended, UnmapAllExact
<1>7. CASE Dangling # {}
  <2>1. life' = "faulted"
    BY <1>1, <1>7
  <2>2. PICK i \in UnmapVisits(slots), j \in UnmapVisits(slots) : j < i /\ slots[j] = slots[i]
    BY <1>7 DEF Dangling
  <2>3. i \in DOMAIN slots /\ j \in DOMAIN slots /\ slots[i] # NULL /\ i \in Nat /\ j \in Nat
    BY <2>2, ShapeFacts DEF UnmapVisits, IInv
  <2>4. RegionOf(i) # RegionOf(j)
    <3> SUFFICES ASSUME RegionOf(i) = RegionOf(j) PROVE FALSE
      OBVIOUS
    <3>1. slots[i] \in held
      BY <1>4, <2>3
    <3>2. i = j
      BY <2>2, <3>1, OneVisit DEF IInv
    <3> QED BY <2>2, <2>3, <3>2
  <2>5. OverTwoRegions
    BY <2>2, <2>3, <2>4 DEF OverTwoRegions
  <2> QED BY <1>2, <1>5, <2>1, <2>5 DEF Ended, UnmapAllExact
<1> QED BY <1>1, <1>6, <1>7

LEMMA ClearAllStep ==
    ASSUME LifeInv, ClearAll
    PROVE  Ended' /\ life' # "running"
<1>1. /\ AllIdle /\ life' = "cleared" /\ held' = {} /\ slots' = [i \in {} |-> NULL]
      /\ regions' = regions \union {RegionOf(i) : i \in DOMAIN slots}
      /\ UNCHANGED <<mapped, pc, seg, turn, addr, entry>>
  BY DEF ClearAll
<1>2. Shape /\ \A t \in Threads : seg[t] = NULL
  BY <1>1, IdleThreads DEF LifeInv, Ended, IInv
<1>3. DOMAIN slots' = {} /\ slots' \in [DOMAIN slots' -> Entries]
  BY <1>1
<1>4. slots' \in Tables
  BY <1>3, TablesFacts DEF WholeRegions
<1>5. regions' \subseteq Nat
  <2>1. \A i \in DOMAIN slots : RegionOf(i) \in Nat
    BY <1>2, ShapeFacts, Quotient, SplitAssumption DEF RegionOf
  <2> QED BY <1>1, <1>2, <2>1 DEF Shape
<1>6. Shape'
  BY <1>1, <1>2, <1>4, <1>5 DEF Shape
<1> QED BY <1>1, <1>2, <1>6 DEF Ended, AllIdle, UnmapAllExact

LEMMA NextStep ==
    ASSUME LifeInv, [Next]_vars
    PROVE  LifeInv'
<1>1. ASSUME NEW t \in Threads, Use(t)
      PROVE  LifeInv'
  <2>1. life = "running" /\ life' = life /\ IInv
    BY <1>1 DEF Use, LifeInv
  <2>9. regions' \subseteq Nat
    <3>1. regions \subseteq Nat
      BY <2>1 DEF IInv, Shape
    <3>2. CASE SetSlot(t)
      <4>1. TurnSlot(seg[t], turn[t]) \in Nat
        BY <2>1, <3>2, OwnSegment DEF IInv, SetSlot, Changing
      <4>2. RegionOf(TurnSlot(seg[t], turn[t])) \in Nat
        BY <4>1, Quotient, SplitAssumption DEF RegionOf
      <4> QED BY <3>1, <3>2, <4>2 DEF SetSlot
    <3>3. CASE UNCHANGED regions
      BY <3>1, <3>3
    <3> QED BY <1>1, <3>2, <3>3 DEF Use
  <2> SUFFICES IInv'
    BY <2>1 DEF LifeInv
  <2>2. CASE Map(t)
    BY <2>1, <2>9, <2>2, MapStep
  <2>3. CASE SetSlot(t)
    BY <2>1, <2>9, <2>3, SetSlotStep
  <2>4. CASE SetDone(t)
    BY <2>1, <2>9, <2>4, SetDoneStep
  <2>5. CASE RemoveBegin(t)
    BY <2>1, <2>9, <2>5, RemoveBeginStep
  <2>6. CASE RemoveSlot(t)
    BY <2>1, <2>9, <2>6, RemoveSlotStep
  <2>7. CASE Unmap(t)
    BY <2>1, <2>9, <2>7, UnmapStep
  <2>8. CASE LookUp(t)
    BY <2>1, <2>9, <2>8, LookUpStep
  <2> QED BY <1>1, <2>2, <2>3, <2>4, <2>5, <2>6, <2>7, <2>8 DEF Use, LookUp
<1>2. CASE UnmapAll
  <2>1. IInv
    BY <1>2 DEF UnmapAll, LifeInv
  <2> QED BY <1>2, <2>1, UnmapAllStep DEF LifeInv
<1>3. CASE ClearAll
  BY <1>3, ClearAllStep DEF LifeInv
<1>4. CASE UNCHANGED vars
  <2>1. CASE life = "running"
    BY <1>4, <2>1 DEF vars, LifeInv, IInv, Shape, Owners, NoStranger, Complete, Progress, Changing
  <2>2. CASE life # "running"
    BY <1>4, <2>2 DEF vars, LifeInv, Ended, Shape, AllIdle, UnmapAllExact, OverTwoRegions
  <2> QED BY <2>1, <2>2
<1> QED BY <1>1, <1>2, <1>3, <1>4 DEF Next

(* The inductive invariant of the registry holds at every step of every    *)
(* thread, without any assumption on how the build reads an entry.         *)
THEOREM Invariant == Spec => []LifeInv
<1>1. Init => LifeInv
  BY InitHolds DEF LookInv, LifeInv, Init
<1>2. LifeInv /\ [Next]_vars => LifeInv'
  BY NextStep
<1> QED BY <1>1, <1>2, PTL DEF Spec

(* setEntry writes an empty slot; a slot points to the mapped segment that  *)
(* holds its last byte, and a segment in use has all its slots.            *)
THEOREM TableIsExact == Spec => []TableExact
<1>1. ASSUME LifeInv, life = "running" PROVE TableExact
  <2> USE <1>1 DEF LifeInv, IInv
  <2>1. TypeOK
    <3>1. slots \in [DOMAIN slots -> Segments \union {NULL}]
      BY TablesFacts DEF Shape, Entries
    <3>2. \A i \in DOMAIN slots : \A j \in 0 .. Top :
            j < Top \div Split /\ j \div RegionSlots = i \div RegionSlots => j \in DOMAIN slots
      BY TablesFacts, TopAssumption DEF Shape, WholeRegions
    <3>3. \A t \in Threads :
            /\ seg[t] \in Segments \union {NULL}
            /\ seg[t] # NULL <=> pc[t] \in {"set", "remove"}
            /\ entry[t] \in Segments \union {NULL}
      BY DEF Shape, Entries, Owners, Changing
    <3> QED BY <3>1, <3>2, <3>3 DEF TypeOK, Shape, PCs
  <2>2. SlotsFree
    <3> SUFFICES ASSUME NEW t \in Threads, pc[t] = "set", SetAgain(seg[t], turn[t])
                 PROVE  Entry(slots, seg[t].start + turn[t] * Split) = NULL
      BY DEF SlotsFree
    <3>1. seg[t] \in Anywhere /\ turn[t] \in Nat
      BY OwnSegment DEF Changing
    <3>2. SlotOf(seg[t].start + turn[t] * Split) = Low(seg[t]) + turn[t]
      BY <3>1, SlotOfTurn
    <3> QED BY <3>2, NextSlotFree DEF Entry
  <2>3. SlotsExact
    <3>1. \A i \in DOMAIN slots :
            slots[i] # NULL => slots[i] \in mapped /\ Contain(slots[i], LastByte(i))
      BY DEF NoStranger, Owns
    <3>2. \A s \in held : \A i \in 0 .. SlotOf(Top - 1) :
            Contain(s, LastByte(i)) => i \in DOMAIN slots /\ slots[i] = s
      BY DEF Complete, Owns
    <3> QED BY <3>1, <3>2 DEF SlotsExact
  <2> QED BY <2>1, <2>2, <2>3 DEF TableExact
<1>2. ASSUME LifeInv, life # "running" PROVE TableExact
  <2> USE <1>2 DEF LifeInv, Ended
  <2>1. slots \in [DOMAIN slots -> Segments \union {NULL}]
    BY TablesFacts DEF Shape, Entries
  <2>2. \A i \in DOMAIN slots : \A j \in 0 .. Top :
          j < Top \div Split /\ j \div RegionSlots = i \div RegionSlots => j \in DOMAIN slots
    BY TablesFacts, TopAssumption DEF Shape, WholeRegions
  <2>3. \A t \in Threads :
          /\ seg[t] \in Segments \union {NULL}
          /\ seg[t] # NULL <=> pc[t] \in {"set", "remove"}
          /\ entry[t] \in Segments \union {NULL}
    BY DEF Shape, Entries, AllIdle
  <2>4. TypeOK
    BY <2>1, <2>2, <2>3 DEF TypeOK, Shape, PCs
  <2>5. SlotsFree /\ SlotsExact
    BY DEF SlotsFree, SlotsExact, AllIdle
  <2> QED BY <2>4, <2>5 DEF TableExact
<1>3. LifeInv => TableExact
  BY <1>1, <1>2
<1> QED BY <1>3, Invariant, PTL

(* The end unmaps every segment and every region, unless a segment has     *)
(* slots in two regions: there, and only there, it visits a segment that it *)
(* has unmapped, and stops.                                                 *)
THEOREM EndIsExact == Spec => []UnmapAllExact
<1>1. LifeInv => UnmapAllExact
  BY DEF LifeInv, Ended, UnmapAllExact
<1> QED BY <1>1, Invariant, PTL

-----------------------------------------------------------------------------
(* The look up, when the build reads an entry once *)

(* What thread u knows. *)
Knows(u) ==
    pc[u] \in {"near", "compare", "previous", "found"} =>
      \E s \in held :
        /\ Contain(s, addr[u])
        /\ pc[u] = "compare" =>
             \/ entry[u] = s
             \/ /\ entry[u] # NULL
                /\ entry[u].start > addr[u]
                /\ ~ Owns(s, SlotOf(addr[u]))
        /\ pc[u] = "previous" => ~ Owns(s, SlotOf(addr[u]))
        /\ pc[u] = "found" => entry[u] = s

LEMMA LookingMeans == Looking <=> \A u \in Threads : Knows(u)
BY DEF Looking, Knows

(* Nothing changes for a thread whose segment stays in use.                *)
LEMMA KnowsKept ==
    ASSUME NEW u \in Threads, Knows(u),
           pc'[u] = pc[u], addr'[u] = addr[u], entry'[u] = entry[u],
           \A s \in held : Contain(s, addr[u]) => s \in held'
    PROVE  Knows(u)'
<1> SUFFICES ASSUME pc'[u] \in {"near", "compare", "previous", "found"}
             PROVE  \E s \in held' :
                      /\ Contain(s, addr'[u])
                      /\ pc'[u] = "compare" =>
                           \/ entry'[u] = s
                           \/ /\ entry'[u] # NULL
                              /\ entry'[u].start > addr'[u]
                              /\ ~ Owns(s, SlotOf(addr'[u]))
                      /\ pc'[u] = "previous" => ~ Owns(s, SlotOf(addr'[u]))
                      /\ pc'[u] = "found" => entry'[u] = s
  BY DEF Knows
<1> QED BY DEF Knows

(* A segment in use at an address is what its slot holds, or it does not   *)
(* own the slot, and then what the slot holds starts after the address.    *)
LEMMA NearFacts ==
    ASSUME IInv, NEW s \in held, NEW a \in Nat, Contain(s, a)
    PROVE  LET near == Entry(slots, a)
           IN  \/ near = s
               \/ /\ ~ Owns(s, SlotOf(a))
                  /\ near # NULL => near.start > a
<1> USE DEF IInv
<1> DEFINE near == Entry(slots, a)
           p == SlotOf(a)
<1>1. s \in Segments /\ s \in mapped /\ s \in Anywhere /\ s.size >= Split
  BY SegmentsAnywhere DEF Shape
<1>2. p \in Nat /\ a <= LastByte(p) /\ LastByte(p) \in Int
  BY <1>1, NearOrPrevious
<1>3. CASE Owns(s, p)
  BY <1>2, <1>3 DEF Complete, Entry
<1>4. CASE ~ Owns(s, p)
  <2> SUFFICES ASSUME near # NULL PROVE near.start > a
    BY <1>4
  <2>1. slots \in Tables
    BY DEF Shape
  <2>2. p \in DOMAIN slots /\ near = slots[p] /\ near \in Segments
    BY <2>1, EntryFacts
  <2>3. near \in mapped /\ Owns(near, p) /\ near \in Anywhere
    BY <2>2, SegmentsAnywhere DEF NoStranger
  <2>4. near # s
    BY <1>4, <2>3
  <2>5. Disjoint(near, s)
    BY <1>1, <2>3, <2>4 DEF Owners
  <2> HIDE DEF near, p
  <2>6. near.start \in Nat /\ near.size \in Nat /\ s.start \in Nat /\ s.size \in Nat
    BY <1>1, <2>3 DEF Anywhere
  <2>7. LastByte(p) < near.start + near.size
    BY <2>3 DEF Owns, Contain, End
  <2>8. s.start <= a /\ a < s.start + s.size
    BY DEF Contain, End
  <2>9. near.start + near.size <= s.start \/ s.start + s.size <= near.start
    BY <2>5 DEF Disjoint, End
  <2> QED BY <1>2, <2>6, <2>7, <2>8, <2>9
<1> QED BY <1>3, <1>4

(* The actions that do not look up *)
LEMMA ChangeKeepsLooking ==
    ASSUME IInv, Looking, NEW t \in Threads,
           Map(t) \/ SetSlot(t) \/ SetDone(t) \/ RemoveSlot(t) \/ Unmap(t)
    PROVE  Looking'
<1>1. held \subseteq held'
  BY DEF Map, SetSlot, SetDone, RemoveSlot, Unmap
<1>2. pc'[t] \in {"idle", "set", "remove"}
  <2>1. pc' \in [Threads -> PCs] /\ (Reset(t) => pc'[t] = "idle")
    BY ResetFacts DEF IInv, Shape, PCs, Map, SetSlot, SetDone, RemoveSlot, Unmap, Goto
  <2> QED BY <2>1 DEF IInv, Shape, Map, SetSlot, SetDone, RemoveSlot, Unmap, Goto
<1>3. \A u \in Threads : u # t =>
        pc'[u] = pc[u] /\ addr'[u] = addr[u] /\ entry'[u] = entry[u]
  <2>1. CASE Reset(t)
    BY <2>1, ResetFacts DEF IInv
  <2>2. CASE ~ Reset(t)
    BY <2>2 DEF IInv, Shape, Map, SetSlot, SetDone, RemoveSlot, Unmap, Goto
  <2> QED BY <2>1, <2>2
<1>4. Knows(t)'
  BY <1>2 DEF Knows
<1>5. \A u \in Threads : u # t => Knows(u)'
  BY <1>1, <1>3, KnowsKept, LookingMeans
<1>6. \A u \in Threads : Knows(u)'
  BY <1>4, <1>5
<1> QED BY <1>6 DEF Looking, Knows

(* Nobody gives back the last block of a segment that another looks up.    *)
LEMMA RemoveBeginKeepsLooking ==
    ASSUME IInv, Looking, NEW t \in Threads, RemoveBegin(t)
    PROVE  Looking'
<1>1. PICK s \in held :
        /\ \A r \in Threads : pc[r] \in {"near", "compare", "previous", "found"} =>
                                ~ Contain(s, addr[r])
        /\ held' = held \ {s}
  BY DEF RemoveBegin
<1>2. /\ pc' = [pc EXCEPT ![t] = "remove"] /\ addr' = addr /\ entry' = entry
  BY DEF RemoveBegin, Goto
<1>3. ASSUME NEW u \in Threads PROVE Knows(u)'
  <2>1. CASE u = t
    BY <1>2, <2>1 DEF Knows, IInv, Shape
  <2>2. CASE u # t
    <3>1. pc'[u] = pc[u]
      BY <1>2, <2>2 DEF IInv, Shape
    <3>2. CASE pc[u] \in {"near", "compare", "previous", "found"}
      <4>1. \A r \in held : Contain(r, addr[u]) => r \in held'
        BY <1>1, <3>2
      <4>2. Knows(u)
        BY LookingMeans
      <4> QED BY <1>2, <3>1, <4>1, <4>2, KnowsKept
    <3>3. CASE pc[u] \notin {"near", "compare", "previous", "found"}
      BY <3>1, <3>3 DEF Knows
    <3> QED BY <3>2, <3>3
  <2> QED BY <2>1, <2>2
<1> QED BY <1>3 DEF Looking, Knows

LEMMA LookUpKeepsLooking ==
    ASSUME Reloads = FALSE, IInv, Looking, NEW t \in Threads, LookUp(t)
    PROVE  Looking'
<1>1. /\ held' = held /\ slots' = slots
      /\ \A u \in Threads : u # t =>
           pc'[u] = pc[u] /\ addr'[u] = addr[u] /\ entry'[u] = entry[u]
  BY LookUpFacts
<1>2. \A u \in Threads : u # t => Knows(u)'
  BY <1>1, KnowsKept, LookingMeans
<1>3. addr[t] \in Nat /\ pc \in [Threads -> PCs] /\ entry \in [Threads -> Entries]
      /\ addr \in [Threads -> 0 .. Top - 1]
  BY TopAssumption DEF IInv, Shape
<1>4. Knows(t)
  BY LookingMeans
<1> SUFFICES Knows(t)'
  <2>1. ASSUME Knows(t)' PROVE \A u \in Threads : Knows(u)'
    BY <1>2, <2>1
  <2> QED BY <2>1 DEF Looking, Knows
<1>5. CASE LookupBegin(t)
  <2>1. PICK s \in held : \E a \in s.start .. End(s) - 1 : addr' = [addr EXCEPT ![t] = a]
    BY <1>5 DEF LookupBegin
  <2>2. PICK a \in s.start .. End(s) - 1 : addr' = [addr EXCEPT ![t] = a]
    BY <2>1
  <2>3. s.start \in Nat /\ End(s) \in Nat
    BY SegmentsAnywhere DEF IInv, Shape, Anywhere, End
  <2>4. Contain(s, a) /\ addr'[t] = a
    BY <1>3, <2>2, <2>3 DEF Contain
  <2>5. pc'[t] = "near"
    BY <1>3, <1>5 DEF LookupBegin, Goto
  <2> QED BY <1>1, <2>4, <2>5 DEF Knows
<1>6. CASE ReadNear(t)
  <2> DEFINE near == Entry(slots, addr[t])
  <2>1. /\ pc[t] = "near" /\ entry'[t] = near /\ addr' = addr
        /\ pc'[t] = IF near = NULL THEN "previous" ELSE "compare"
    BY <1>3, <1>6 DEF ReadNear, Goto
  <2>2. PICK s \in held : Contain(s, addr[t])
    BY <1>4, <2>1 DEF Knows
  <2>3. s # NULL
    BY NullEntry DEF IInv, Shape
  <2>4. \/ near = s
        \/ ~ Owns(s, SlotOf(addr[t])) /\ (near # NULL => near.start > addr[t])
    BY <1>3, <2>2, NearFacts
  <2> HIDE DEF near
  <2>5. CASE near = NULL
    BY <1>1, <2>1, <2>2, <2>3, <2>4, <2>5 DEF Knows
  <2>6. CASE near # NULL
    BY <1>1, <2>1, <2>2, <2>4, <2>6 DEF Knows
  <2> QED BY <2>5, <2>6
<1>7. CASE Compare(t)
  <2>1. /\ pc[t] = "compare" /\ addr' = addr
        /\ IF entry[t] # NULL /\ UsePrevious(entry[t], addr[t])
             THEN Goto(t, "previous") /\ UNCHANGED entry
             ELSE /\ Goto(t, "found")
                  /\ entry' = [entry EXCEPT ![t] = Found(entry[t], addr[t])]
    BY <1>7 DEF Compare
  <2>2. PICK s \in held :
          /\ Contain(s, addr[t])
          /\ \/ entry[t] = s
             \/ /\ entry[t] # NULL
                /\ entry[t].start > addr[t]
                /\ ~ Owns(s, SlotOf(addr[t]))
    BY <1>4, <2>1 DEF Knows
  <2>3. s # NULL /\ s.start \in Nat
    BY NullEntry, SegmentsAnywhere DEF IInv, Shape, Anywhere
  <2>4. CASE entry[t] = s
    <3>1. ~ UsePrevious(s, addr[t])
      BY <1>3, <2>2, <2>3 DEF UsePrevious, Contain
    <3>2. Found(s, addr[t]) = s
      BY <2>2, <2>3 DEF Found
    <3>3. pc'[t] = "found" /\ entry'[t] = s
      BY <1>3, <2>1, <2>4, <3>1, <3>2 DEF Goto
    <3> QED BY <1>1, <2>1, <2>2, <3>3 DEF Knows
  <2>5. CASE entry[t] # s
    <3>1. entry[t] # NULL /\ UsePrevious(entry[t], addr[t]) /\ ~ Owns(s, SlotOf(addr[t]))
      BY <2>2, <2>5 DEF UsePrevious
    <3>2. pc'[t] = "previous" /\ entry' = entry
      BY <1>3, <2>1, <3>1 DEF Goto
    <3> QED BY <1>1, <2>1, <2>2, <3>1, <3>2 DEF Knows
  <2> QED BY <2>4, <2>5
<1>8. CASE ReadPrevious(t)
  <2>1. /\ pc[t] = "previous" /\ addr' = addr /\ pc'[t] = "found"
        /\ entry'[t] = Found(Entry(slots, addr[t] - Split), addr[t])
    BY <1>3, <1>8 DEF ReadPrevious, Goto
  <2>2. PICK s \in held : Contain(s, addr[t]) /\ ~ Owns(s, SlotOf(addr[t]))
    BY <1>4, <2>1 DEF Knows
  <2>3. s \in Anywhere /\ s.size >= Split /\ s # NULL
    BY NullEntry, SegmentsAnywhere DEF IInv, Shape
  <2>4. /\ SlotOf(addr[t]) - 1 \in Nat
        /\ Owns(s, SlotOf(addr[t]) - 1)
        /\ SlotOf(addr[t] - Split) = SlotOf(addr[t]) - 1
    BY <1>3, <2>2, <2>3, NearOrPrevious
  <2>5. Entry(slots, addr[t] - Split) = s
    BY <2>4 DEF Entry, IInv, Complete
  <2>6. entry'[t] = s
    BY <2>1, <2>2, <2>3, <2>5 DEF Found
  <2> QED BY <1>1, <2>1, <2>2, <2>6 DEF Knows
<1>9. CASE Return(t)
  <2>1. pc'[t] = "idle"
    BY <1>3, <1>9 DEF Return, Reset, Goto
  <2> QED BY <2>1 DEF Knows
<1> QED BY <1>5, <1>6, <1>7, <1>8, <1>9 DEF LookUp

(* The look up of an address in use finds its segment, whatever the other  *)
(* threads register and remove around it, when the build reads an entry    *)
(* once.                                                                   *)
THEOREM LookUpFindsSegment ==
    ASSUME Reloads = FALSE
    PROVE  Spec => []LookupExact
<1> DEFINE Inv == LifeInv /\ Looking
<1>1. ASSUME Inv, [Next]_vars
      PROVE  Inv'
  <2> USE <1>1
  <2>1. LifeInv'
    BY NextStep
  <2>2. ASSUME NEW t \in Threads, Use(t) PROVE Looking'
    <3>1. IInv
      BY <2>2 DEF Use, LifeInv
    <3> QED
      BY <2>2, <3>1, ChangeKeepsLooking, RemoveBeginKeepsLooking, LookUpKeepsLooking
         DEF Use, LookUp
  <2>3. ASSUME AllIdle, pc' = pc PROVE Looking'
    BY <2>3 DEF Looking, AllIdle
  <2>4. ASSUME UNCHANGED vars PROVE Looking'
    BY <2>4 DEF vars, Looking
  <2> QED BY <2>1, <2>2, <2>3, <2>4 DEF Next, UnmapAll, ClearAll
<1>2. Inv => LookupExact
  <2> SUFFICES ASSUME Inv PROVE LookupExact
    OBVIOUS
  <2> QED BY DEF Looking, LookupExact
<1>3. Init => Inv
  BY InitHolds DEF LookInv, LifeInv, Init
<1> HIDE DEF Inv
<1>4. Spec => []Inv
  BY <1>1, <1>3, PTL DEF Spec
<1> QED BY <1>2, <1>4, PTL
=============================================================================
