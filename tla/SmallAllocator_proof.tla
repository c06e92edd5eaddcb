------------------------ MODULE SmallAllocator_proof ------------------------
(***************************************************************************)
(* Proofs about SmallAllocator: the lists stay rings, every run is in the  *)
(* one it belongs to, and no cell is handed out twice.                     *)
(***************************************************************************)
EXTENDS SmallAllocator, FiniteSetTheorems, WellFoundedInduction, TLAPS

-----------------------------------------------------------------------------
(* Numbers, and the division by a constant *)

(* A set of natural numbers that is not empty has a least element: what is  *)
(* cited here in place of an induction.                                     *)
LEMMA LeastElement ==
    ASSUME NEW S \in SUBSET Nat, S # {}
    PROVE  \E x \in S : \A y \in S : x <= y
<1> DEFINE Less == {p \in Nat \X Nat : p[1] < p[2]}
<1>1. IsWellFoundedOn(Less, Nat)
  <2>1. IsWellFoundedOn(OpToRel(<, Nat), Nat)
    BY NatLessThanWellFounded
  <2>2. OpToRel(<, Nat) = Less
    BY Zenon DEF OpToRel
  <2> QED BY <2>1, <2>2, Zenon
<1>2. PICK x \in S : \A y \in S : <<y, x>> \notin Less
  <2> HIDE DEF Less
  <2> QED BY <1>1, WFMin
<1>3. ASSUME NEW y \in S PROVE x <= y
  <2>1. <<y, x>> \in Nat \X Nat
    OBVIOUS
  <2>2. ~ y < x
    BY <1>2, <2>1
  <2> QED BY <2>2
<1> QED BY <1>3

(* Multiples of n keep their order, and are n apart. *)
LEMMA MultiplesApart ==
    ASSUME NEW n \in Nat \ {0}, NEW i \in Int, NEW j \in Int
    PROVE  /\ i * n \in Int
           /\ (i + 1) * n = i * n + n
           /\ (i + j) * n = i * n + j * n
           /\ i < j <=> i * n < j * n
           /\ i < j => i * n + n <= j * n
OBVIOUS

(* What the quotient is. *)
LEMMA Quotient ==
    ASSUME NEW n \in Nat \ {0}, NEW a \in Nat
    PROVE  /\ a \div n \in Nat
           /\ (a \div n) * n <= a
           /\ a < (a \div n) * n + n
OBVIOUS

(* Nothing else is. *)
LEMMA QuotientUnique ==
    ASSUME NEW n \in Nat \ {0}, NEW a \in Nat, NEW q \in Int,
           q * n <= a, a < q * n + n
    PROVE  a \div n = q
OBVIOUS

(* A multiple has no remainder. *)
LEMMA RemainderOfMultiple ==
    ASSUME NEW n \in Nat \ {0}, NEW q \in Nat
    PROVE  (q * n) % n = 0
<1> DEFINE a == q * n
<1>1. a \in Nat /\ q * n <= a /\ a < q * n + n
  OBVIOUS
<1>2. a = (a \div n) * n + (a % n)
  <2> HIDE DEF a
  <2> QED BY <1>1
<1>3. a \div n = q
  <2>1. q \in Int
    OBVIOUS
  <2> HIDE DEF a
  <2> QED BY <1>1, <2>1, QuotientUnique
<1>4. a % n \in Nat
  BY <1>1
<1> QED BY <1>1, <1>2, <1>3, <1>4

-----------------------------------------------------------------------------
(* Lists                                                                   *)

(* The nodes of S are linked both ways among themselves, and g, the root of *)
(* the list each one belongs to, is the same along the links.               *)
Rings(ls, S, g) ==
    /\ S \subseteq Nodes(ls)
    /\ \A n \in S :
         /\ ls.next[n] \in S /\ ls.prev[ls.next[n]] = n
         /\ ls.prev[n] \in S /\ ls.next[ls.prev[n]] = n
         /\ g[ls.next[n]] = g[n]

(* Going back leads to the root: no ring is without one.                    *)
Ordered(ls, S, g) ==
    \E pos \in [S -> Nat] :
        \A n \in S : g[n] # n /\ g[ls.prev[n]] # ls.prev[n] => pos[ls.prev[n]] < pos[n]

IsLinks(ls) ==
    /\ ls \in [next : {ls.next}, prev : {ls.prev}]
    /\ ls.next = [n \in Nodes(ls) |-> ls.next[n]]
    /\ ls.prev = [n \in Nodes(ls) |-> ls.prev[n]]

InRings(ls, S, g) == IsLinks(ls) /\ Rings(ls, S, g) /\ Ordered(ls, S, g)

LEMMA LinkFacts ==
    ASSUME NEW ls, IsLinks(ls), NEW a \in Nodes(ls), NEW b \in Nodes(ls)
    PROVE  /\ IsLinks(Link(ls, a, b)) /\ Nodes(Link(ls, a, b)) = Nodes(ls)
           /\ \A n \in Nodes(ls) :
                /\ Link(ls, a, b).next[n] = IF n = a THEN b ELSE ls.next[n]
                /\ Link(ls, a, b).prev[n] = IF n = b THEN a ELSE ls.prev[n]
BY DEF Link, IsLinks, Nodes

LEMMA InRingsFacts ==
    ASSUME NEW ls, NEW S, NEW g, InRings(ls, S, g), NEW n \in S
    PROVE  /\ n \in Nodes(ls)
           /\ ls.next[n] \in S /\ ls.prev[ls.next[n]] = n
           /\ ls.prev[n] \in S /\ ls.next[ls.prev[n]] = n
           /\ ls.next[n] \in Nodes(ls) /\ ls.prev[n] \in Nodes(ls)
           /\ g[ls.next[n]] = g[n] /\ g[ls.prev[n]] = g[n]
BY DEF InRings, Rings

(* An element put first or last joins the list. *)
LEMMA PutFirstRings ==
    ASSUME NEW ls, NEW S, NEW g, InRings(ls, S, g), NEW root \in S, g[root] = root,
           NEW elt \in Nodes(ls) \ S, g[elt] = root
    PROVE  /\ InRings(PutFirst(ls, root, elt), S \union {elt}, g)
           /\ Nodes(PutFirst(ls, root, elt)) = Nodes(ls)
<1> DEFINE first == ls.next[root]
           mid   == Link(ls, elt, first)
           new   == Link(mid, root, elt)
<1>1. first \in S /\ first \in Nodes(ls) /\ root \in Nodes(ls) /\ IsLinks(ls)
  BY InRingsFacts DEF InRings
<1> HIDE DEF first
<1>2. /\ IsLinks(mid) /\ Nodes(mid) = Nodes(ls)
      /\ \A n \in Nodes(ls) :
           /\ mid.next[n] = IF n = elt THEN first ELSE ls.next[n]
           /\ mid.prev[n] = IF n = first THEN elt ELSE ls.prev[n]
  BY <1>1, LinkFacts
<1> HIDE DEF mid
<1>3. /\ IsLinks(new) /\ Nodes(new) = Nodes(ls)
      /\ \A n \in Nodes(ls) :
           /\ new.next[n] = IF n = root THEN elt ELSE mid.next[n]
           /\ new.prev[n] = IF n = elt THEN root ELSE mid.prev[n]
  BY <1>1, <1>2, LinkFacts
<1> HIDE DEF new
<1>4. \A n \in S : /\ new.next[n] = IF n = root THEN elt ELSE ls.next[n]
                   /\ new.prev[n] = IF n = first THEN elt ELSE ls.prev[n]
  BY <1>2, <1>3, InRingsFacts
<1>5. new.next[elt] = first /\ new.prev[elt] = root
  BY <1>1, <1>2, <1>3
<1>6. first = ls.next[root] /\ g[first] = root
  BY InRingsFacts DEF first
<1>7. Rings(new, S \union {elt}, g)
  <2> SUFFICES ASSUME NEW n \in S \union {elt}
               PROVE  /\ new.next[n] \in S \union {elt} /\ new.prev[new.next[n]] = n
                      /\ new.prev[n] \in S \union {elt} /\ new.next[new.prev[n]] = n
                      /\ g[new.next[n]] = g[n]
    BY <1>3, InRingsFacts DEF Rings
  <2>1. CASE n = elt
    BY <2>1, <1>1, <1>4, <1>5, <1>6
  <2>2. CASE n \in S
    BY <2>2, <1>1, <1>4, <1>5, <1>6, InRingsFacts
  <2> QED BY <2>1, <2>2
<1>8. Ordered(new, S \union {elt}, g)
  <2>1. PICK pos \in [S -> Nat] :
          \A n \in S : g[n] # n /\ g[ls.prev[n]] # ls.prev[n] => pos[ls.prev[n]] < pos[n]
    BY DEF InRings, Ordered
  <2> DEFINE more == [n \in S \union {elt} |-> IF n = elt THEN 0 ELSE pos[n] + 1]
  <2>2. more \in [S \union {elt} -> Nat] /\ more[elt] = 0 /\ \A n \in S : more[n] = pos[n] + 1
    OBVIOUS
  <2> HIDE DEF more
  <2>3. ASSUME NEW n \in S \union {elt}, g[n] # n, g[new.prev[n]] # new.prev[n]
        PROVE  more[new.prev[n]] < more[n]
    <3>1. n # elt
      BY <2>3, <1>5
    <3>2. CASE n = first
      BY <3>1, <3>2, <2>2, <1>4
    <3>3. CASE n # first
      BY <3>1, <3>3, <2>1, <2>2, <2>3, <1>4, InRingsFacts
    <3> QED BY <3>2, <3>3
  <2> QED BY <2>2, <2>3 DEF Ordered
<1> QED BY <1>3, <1>7, <1>8 DEF InRings, PutFirst, new, mid, first

LEMMA PutLastRings ==
    ASSUME NEW ls, NEW S, NEW g, InRings(ls, S, g), NEW root \in S, g[root] = root,
           NEW elt \in Nodes(ls) \ S, g[elt] = root
    PROVE  /\ InRings(PutLast(ls, root, elt), S \union {elt}, g)
           /\ Nodes(PutLast(ls, root, elt)) = Nodes(ls)
<1> DEFINE last == ls.prev[root]
           mid  == Link(ls, last, elt)
           new  == Link(mid, elt, root)
<1>1. last \in S /\ last \in Nodes(ls) /\ root \in Nodes(ls) /\ IsLinks(ls)
  BY InRingsFacts DEF InRings
<1> HIDE DEF last
<1>2. /\ IsLinks(mid) /\ Nodes(mid) = Nodes(ls)
      /\ \A n \in Nodes(ls) :
           /\ mid.next[n] = IF n = last THEN elt ELSE ls.next[n]
           /\ mid.prev[n] = IF n = elt THEN last ELSE ls.prev[n]
  BY <1>1, LinkFacts
<1> HIDE DEF mid
<1>3. /\ IsLinks(new) /\ Nodes(new) = Nodes(ls)
      /\ \A n \in Nodes(ls) :
           /\ new.next[n] = IF n = elt THEN root ELSE mid.next[n]
           /\ new.prev[n] = IF n = root THEN elt ELSE mid.prev[n]
  BY <1>1, <1>2, LinkFacts
<1> HIDE DEF new
<1>4. \A n \in S : /\ new.next[n] = IF n = last THEN elt ELSE ls.next[n]
                   /\ new.prev[n] = IF n = root THEN elt ELSE ls.prev[n]
  BY <1>2, <1>3, InRingsFacts
<1>5. new.next[elt] = root /\ new.prev[elt] = last
  BY <1>1, <1>2, <1>3
<1>6. last = ls.prev[root] /\ g[last] = root
  BY InRingsFacts DEF last
<1>7. Rings(new, S \union {elt}, g)
  <2> SUFFICES ASSUME NEW n \in S \union {elt}
               PROVE  /\ new.next[n] \in S \union {elt} /\ new.prev[new.next[n]] = n
                      /\ new.prev[n] \in S \union {elt} /\ new.next[new.prev[n]] = n
                      /\ g[new.next[n]] = g[n]
    BY <1>3, InRingsFacts DEF Rings
  <2>1. CASE n = elt
    BY <2>1, <1>1, <1>4, <1>5, <1>6
  <2>2. CASE n \in S
    <3>1. /\ ls.next[n] \in S /\ ls.prev[ls.next[n]] = n /\ g[ls.next[n]] = g[n]
          /\ ls.prev[n] \in S /\ ls.next[ls.prev[n]] = n
      BY <2>2, InRingsFacts
    <3>2. new.next[n] \in S \union {elt} /\ new.prev[new.next[n]] = n /\ g[new.next[n]] = g[n]
      <4>1. CASE n = last
        BY <4>1, <2>2, <1>4, <1>5, <1>6
      <4>2. CASE n # last
        <5>1. new.next[n] = ls.next[n] /\ ls.next[n] # root
          BY <4>2, <2>2, <3>1, <1>4, <1>6
        <5> QED BY <5>1, <3>1, <1>4
      <4> QED BY <4>1, <4>2
    <3>3. new.prev[n] \in S \union {elt} /\ new.next[new.prev[n]] = n
      <4>1. CASE n = root
        BY <4>1, <1>1, <1>4, <1>5
      <4>2. CASE n # root
        <5>1. ls.next[last] = root
          BY <1>6, InRingsFacts
        <5>2. new.prev[n] = ls.prev[n] /\ ls.prev[n] # last
          BY <4>2, <2>2, <3>1, <5>1, <1>4
        <5> QED BY <5>2, <3>1, <1>4
      <4> QED BY <4>1, <4>2
    <3> QED BY <3>2, <3>3
  <2> QED BY <2>1, <2>2
<1>8. Ordered(new, S \union {elt}, g)
  <2>1. PICK pos \in [S -> Nat] :
          \A n \in S : g[n] # n /\ g[ls.prev[n]] # ls.prev[n] => pos[ls.prev[n]] < pos[n]
    BY DEF InRings, Ordered
  <2> DEFINE more == [n \in S \union {elt} |-> IF n = elt THEN pos[last] + 1 ELSE pos[n]]
  <2>2. /\ more \in [S \union {elt} -> Nat] /\ more[elt] = pos[last] + 1
        /\ \A n \in S : more[n] = pos[n] /\ pos[n] \in Nat
    BY <1>1
  <2> HIDE DEF more
  <2>3. ASSUME NEW n \in S \union {elt}, g[n] # n, g[new.prev[n]] # new.prev[n]
        PROVE  more[new.prev[n]] < more[n]
    <3>1. CASE n = elt
      BY <3>1, <2>2, <1>1, <1>5
    <3>2. CASE n # elt
      <4>1. n \in S /\ n # root
        BY <3>2, <2>3
      <4>2. new.prev[n] = ls.prev[n] /\ ls.prev[n] \in S
        BY <4>1, <1>4, InRingsFacts
      <4> QED BY <4>1, <4>2, <2>1, <2>2, <2>3
    <3> QED BY <3>1, <3>2
  <2> QED BY <2>2, <2>3 DEF Ordered
<1> QED BY <1>3, <1>7, <1>8 DEF InRings, PutLast, new, mid, last

(* An element removed, or popped, leaves the others in rings. *)
LEMMA UnlinkRings ==
    ASSUME NEW ls, NEW S, NEW g, InRings(ls, S, g), NEW elt \in S, g[elt] # elt,
           NEW new, IsLinks(new), Nodes(new) = Nodes(ls),
           \A n \in S \ {elt} :
               /\ new.next[n] = IF n = ls.prev[elt] THEN ls.next[elt] ELSE ls.next[n]
               /\ new.prev[n] = IF n = ls.next[elt] THEN ls.prev[elt] ELSE ls.prev[n]
    PROVE  InRings(new, S \ {elt}, g)
<1> DEFINE before == ls.prev[elt]
           after  == ls.next[elt]
<1>1. PICK pos \in [S -> Nat] :
        \A n \in S : g[n] # n /\ g[ls.prev[n]] # ls.prev[n] => pos[ls.prev[n]] < pos[n]
  BY DEF InRings, Ordered
<1>2. before \in S /\ after \in S /\ g[before] = g[elt] /\ g[after] = g[elt]
  BY InRingsFacts
<1>3. ls.next[before] = elt /\ ls.prev[after] = elt
  BY InRingsFacts
<1>4. before # elt /\ after # elt
  BY <1>1, <1>2, <1>3
<1>5. Rings(new, S \ {elt}, g)
  <2> SUFFICES ASSUME NEW n \in S \ {elt}
               PROVE  /\ new.next[n] \in S \ {elt} /\ new.prev[new.next[n]] = n
                      /\ new.prev[n] \in S \ {elt} /\ new.next[new.prev[n]] = n
                      /\ g[new.next[n]] = g[n]
    BY InRingsFacts DEF Rings
  <2>1. /\ ls.next[n] \in S /\ ls.prev[ls.next[n]] = n /\ ls.prev[n] \in S
        /\ ls.next[ls.prev[n]] = n /\ g[ls.next[n]] = g[n]
    BY InRingsFacts
  <2>2. new.next[n] \in S \ {elt} /\ g[new.next[n]] = g[n]
    BY <1>2, <1>3, <1>4, <2>1
  <2>3. new.prev[n] \in S \ {elt}
    BY <1>2, <1>3, <1>4, <2>1
  <2>4. new.prev[new.next[n]] = n
    BY <1>2, <1>3, <1>4, <2>1, <2>2
  <2>5. new.next[new.prev[n]] = n
    BY <1>2, <1>3, <1>4, <2>1, <2>3
  <2> QED BY <2>2, <2>3, <2>4, <2>5
<1>6. Ordered(new, S \ {elt}, g)
  <2> DEFINE fewer == [n \in S \ {elt} |-> pos[n]]
  <2>1. fewer \in [S \ {elt} -> Nat] /\ \A n \in S \ {elt} : fewer[n] = pos[n] /\ pos[n] \in Nat
    OBVIOUS
  <2> HIDE DEF fewer
  <2>2. ASSUME NEW n \in S \ {elt}, g[n] # n, g[new.prev[n]] # new.prev[n]
        PROVE  fewer[new.prev[n]] < fewer[n]
    <3>1. CASE n = after
      <4>1. new.prev[n] = before /\ pos[before] < pos[elt] /\ pos[elt] < pos[n]
        BY <3>1, <1>1, <1>2, <1>3, <2>2
      <4>2. pos[before] \in Nat /\ pos[elt] \in Nat /\ pos[n] \in Nat
        BY <1>2
      <4> QED BY <4>1, <4>2, <2>1, <1>2, <1>4
    <3>2. CASE n # after
      <4>1. new.prev[n] = ls.prev[n] /\ ls.prev[n] \in S
        BY <3>2, InRingsFacts
      <4>2. ls.prev[n] # elt
        BY <3>2, InRingsFacts
      <4> QED BY <4>1, <4>2, <2>1, <2>2, <1>1
    <3> QED BY <3>1, <3>2
  <2> QED BY <2>1, <2>2 DEF Ordered
<1> QED BY <1>5, <1>6 DEF InRings

LEMMA RemoveNodeRings ==
    ASSUME NEW ls, NEW S, NEW g, InRings(ls, S, g), NEW elt \in S, g[elt] # elt
    PROVE  /\ InRings(RemoveNode(ls, elt), S \ {elt}, g)
           /\ Nodes(RemoveNode(ls, elt)) = Nodes(ls)
<1> DEFINE before == ls.prev[elt]
           after  == ls.next[elt]
           mid    == Link(ls, before, after)
           new    == Link(mid, elt, elt)
<1>1. /\ elt \in Nodes(ls) /\ before \in Nodes(ls) /\ after \in Nodes(ls)
      /\ S \subseteq Nodes(ls) /\ IsLinks(ls)
  BY InRingsFacts DEF InRings, Rings
<1> HIDE DEF before, after
<1>2. /\ IsLinks(mid) /\ Nodes(mid) = Nodes(ls)
      /\ \A n \in Nodes(ls) :
           /\ mid.next[n] = IF n = before THEN after ELSE ls.next[n]
           /\ mid.prev[n] = IF n = after THEN before ELSE ls.prev[n]
  BY <1>1, LinkFacts
<1> HIDE DEF mid
<1>3. /\ IsLinks(new) /\ Nodes(new) = Nodes(ls)
      /\ \A n \in Nodes(ls) : n # elt => new.next[n] = mid.next[n] /\ new.prev[n] = mid.prev[n]
  BY <1>1, <1>2, LinkFacts
<1> HIDE DEF new
<1>4. InRings(new, S \ {elt}, g)
  <2>1. before = ls.prev[elt] /\ after = ls.next[elt]
    BY DEF before, after
  <2> QED BY <2>1, <1>1, <1>2, <1>3, UnlinkRings
<1> QED BY <1>3, <1>4 DEF RemoveNode, new, mid, before, after

LEMMA PopFirstRings ==
    ASSUME NEW ls, NEW S, NEW g, InRings(ls, S, g), NEW root \in S, g[root] = root,
           ls.next[root] # root
    PROVE  LET elt == ls.next[root]
           IN  /\ elt \in S /\ g[elt] = root /\ elt # root
               /\ InRings(PopFirst(ls, root), S \ {elt}, g)
               /\ Nodes(PopFirst(ls, root)) = Nodes(ls)
<1> DEFINE elt   == ls.next[root]
           after == ls.next[elt]
           new   == Link(ls, root, after)
<1>1. elt \in S /\ g[elt] = root /\ ls.prev[elt] = root /\ elt # root
  BY InRingsFacts
<1>2. root \in Nodes(ls) /\ after \in Nodes(ls) /\ S \subseteq Nodes(ls) /\ IsLinks(ls)
  BY <1>1, InRingsFacts DEF InRings, Rings
<1> HIDE DEF elt, after
<1>3. /\ IsLinks(new) /\ Nodes(new) = Nodes(ls)
      /\ \A n \in Nodes(ls) :
           /\ new.next[n] = IF n = root THEN after ELSE ls.next[n]
           /\ new.prev[n] = IF n = after THEN root ELSE ls.prev[n]
  BY <1>2, LinkFacts
<1> HIDE DEF new
<1>4. InRings(new, S \ {elt}, g)
  <2>1. after = ls.next[elt]
    BY DEF after
  <2> QED BY <2>1, <1>1, <1>2, <1>3, UnlinkRings
<1> QED BY <1>1, <1>3, <1>4 DEF PopFirst, new, after, elt

(* Only the roots of the nodes that are in rings matter. *)
LEMMA SameRoots ==
    ASSUME NEW ls, NEW S, NEW g, NEW h, InRings(ls, S, g), \A n \in S : h[n] = g[n]
    PROVE  InRings(ls, S, h)
<1>1. Rings(ls, S, h)
  BY DEF InRings, Rings
<1>2. Ordered(ls, S, h)
  BY InRingsFacts DEF InRings, Ordered
<1> QED BY <1>1, <1>2 DEF InRings

(* New nodes are rings of their own. *)
LEMMA AddNodesRings ==
    ASSUME NEW ls, NEW S, NEW g, InRings(ls, S, g), NEW new, NEW own \in SUBSET new,
           Nodes(ls) \intersect new = {}, \A n \in own : g[n] = n
    PROVE  /\ InRings(AddNodes(ls, new), S \union own, g)
           /\ Nodes(AddNodes(ls, new)) = Nodes(ls) \union new
<1> DEFINE wide == AddNodes(ls, new)
<1>1. /\ IsLinks(wide) /\ Nodes(wide) = Nodes(ls) \union new
      /\ \A n \in Nodes(ls) : wide.next[n] = ls.next[n] /\ wide.prev[n] = ls.prev[n]
      /\ \A n \in new : wide.next[n] = n /\ wide.prev[n] = n
  BY DEF AddNodes, IsLinks, Nodes
<1> HIDE DEF wide
<1>2. Rings(wide, S \union own, g)
  BY <1>1, InRingsFacts DEF Rings
<1>3. Ordered(wide, S \union own, g)
  <2>1. PICK pos \in [S -> Nat] :
          \A n \in S : g[n] # n /\ g[ls.prev[n]] # ls.prev[n] => pos[ls.prev[n]] < pos[n]
    BY DEF InRings, Ordered
  <2> DEFINE more == [n \in S \union own |-> IF n \in S THEN pos[n] ELSE 0]
  <2>2. more \in [S \union own -> Nat] /\ \A n \in S : more[n] = pos[n]
    OBVIOUS
  <2> HIDE DEF more
  <2>3. \A n \in S \union own : g[n] # n => n \in S /\ wide.prev[n] = ls.prev[n] /\ ls.prev[n] \in S
    BY <1>1, InRingsFacts
  <2> QED BY <2>1, <2>2, <2>3 DEF Ordered
<1> QED BY <1>1, <1>2, <1>3 DEF InRings, wide

(* Memory that holds whole lists can be dropped. *)
LEMMA DropNodesRings ==
    ASSUME NEW ls, NEW S, NEW g, InRings(ls, S, g), NEW old,
           \A n, m \in S : g[n] = g[m] => (n \in old <=> m \in old)
    PROVE  /\ InRings(DropNodes(ls, old), S \ old, g)
           /\ Nodes(DropNodes(ls, old)) = Nodes(ls) \ old
<1> DEFINE less == DropNodes(ls, old)
<1>1. /\ IsLinks(less) /\ Nodes(less) = Nodes(ls) \ old
      /\ \A n \in Nodes(ls) \ old : less.next[n] = ls.next[n] /\ less.prev[n] = ls.prev[n]
  BY DEF DropNodes, IsLinks, Nodes
<1> HIDE DEF less
<1>2. \A n \in S \ old : ls.next[n] \in S \ old /\ ls.prev[n] \in S \ old
  BY InRingsFacts
<1>3. S \subseteq Nodes(ls)
  BY InRingsFacts
<1>4. Rings(less, S \ old, g)
  BY <1>1, <1>2, <1>3, InRingsFacts DEF Rings
<1>5. Ordered(less, S \ old, g)
  <2>1. PICK pos \in [S -> Nat] :
          \A n \in S : g[n] # n /\ g[ls.prev[n]] # ls.prev[n] => pos[ls.prev[n]] < pos[n]
    BY DEF InRings, Ordered
  <2> DEFINE fewer == [n \in S \ old |-> pos[n]]
  <2>2. fewer \in [S \ old -> Nat] /\ \A n \in S \ old : fewer[n] = pos[n]
    OBVIOUS
  <2> HIDE DEF fewer
  <2>3. \A n \in S \ old : less.prev[n] = ls.prev[n] /\ ls.prev[n] \in S \ old
    BY <1>1, <1>2, <1>3
  <2> QED BY <2>1, <2>2, <2>3 DEF Ordered
<1> QED BY <1>1, <1>4, <1>5 DEF InRings, less

(* What holds the root and goes on along the links holds the whole list. *)
LEMMA ClosedIsWhole ==
    ASSUME NEW ls, NEW S, NEW g, InRings(ls, S, g), NEW root \in S,
           NEW T \in SUBSET S, root \in T, \A n \in T : ls.next[n] \in T
    PROVE  \A n \in S : g[n] = root => n \in T
<1>1. PICK pos \in [S -> Nat] :
        \A n \in S : g[n] # n /\ g[ls.prev[n]] # ls.prev[n] => pos[ls.prev[n]] < pos[n]
  BY DEF InRings, Ordered
<1> DEFINE Missed == {n \in S : g[n] = root /\ n \notin T}
           Values == {pos[n] : n \in Missed}
<1> SUFFICES ASSUME Missed # {} PROVE FALSE
  OBVIOUS
<1>2. Values \in SUBSET Nat /\ Values # {}
  OBVIOUS
<1>3. PICK x \in Values : \A y \in Values : x <= y
  <2> HIDE DEF Values
  <2> QED BY <1>2, LeastElement
<1>4. PICK n \in S : g[n] = root /\ n \notin T /\ x = pos[n]
  BY <1>3
<1>5. /\ ls.prev[n] \in S /\ ls.next[ls.prev[n]] = n /\ g[ls.prev[n]] = root
  BY <1>4, InRingsFacts
<1>6. ls.prev[n] \notin T
  BY <1>4, <1>5
<1>7. pos[ls.prev[n]] \in Values /\ pos[ls.prev[n]] \in Nat /\ pos[n] \in Nat
  BY <1>4, <1>5, <1>6
<1>8. pos[ls.prev[n]] < pos[n]
  BY <1>1, <1>4, <1>5, <1>6
<1> HIDE DEF Values, Missed
<1>9. x <= pos[ls.prev[n]]
  BY <1>3, <1>7
<1> QED BY <1>4, <1>7, <1>8, <1>9

(* The nodes of an iteration. *)
IsIteration(at, ls, root, N) ==
    at = [k \in 0..N |-> IF k = 0 THEN root ELSE ls.next[at[k - 1]]]

LEMMA NthExists ==
    ASSUME NEW ls, NEW root, NEW N \in Nat
    PROVE  \E at : IsIteration(at, ls, root, N)
<1> USE DEF IsIteration
<1> DEFINE Exists(n) == \E at : at = [k \in 0..n |-> IF k = 0 THEN root ELSE ls.next[at[k - 1]]]
           Bad == {n \in Nat : ~ Exists(n)}
<1> SUFFICES ASSUME Bad # {} PROVE FALSE
  OBVIOUS
<1>1. PICK n \in Bad : \A m \in Bad : n <= m
  <2>1. Bad \in SUBSET Nat
    OBVIOUS
  <2> HIDE DEF Bad
  <2> QED BY <2>1, LeastElement
<1>2. Exists(0)
  <2> DEFINE at == [k \in 0..0 |-> root]
  <2>1. at = [k \in 0..0 |-> IF k = 0 THEN root ELSE ls.next[at[k - 1]]]
    OBVIOUS
  <2> QED BY <2>1
<1>3. n \in Nat /\ n # 0 /\ n - 1 \in Nat /\ Exists(n - 1)
  <2>1. n \in Nat /\ n # 0
    <3>1. n \in Nat /\ ~ Exists(n)
      BY <1>1
    <3> HIDE DEF Exists, Bad
    <3> QED BY <3>1, <1>2
  <2>2. n - 1 \in Nat /\ ~ n <= n - 1
    BY <2>1
  <2>3. n - 1 \notin Bad
    <3> HIDE DEF Bad
    <3> QED BY <1>1, <2>2
  <2> QED BY <2>1, <2>2, <2>3
<1>4. PICK at : at = [k \in 0..n - 1 |-> IF k = 0 THEN root ELSE ls.next[at[k - 1]]]
  BY <1>3
<1> DEFINE more == [k \in 0..n |-> IF k = n THEN ls.next[at[n - 1]] ELSE at[k]]
<1>5. \A k \in 0..n : more[k] = IF k = 0 THEN root ELSE ls.next[more[k - 1]]
  <2> SUFFICES ASSUME NEW k \in 0..n
               PROVE  more[k] = IF k = 0 THEN root ELSE ls.next[more[k - 1]]
    OBVIOUS
  <2>1. CASE k = n
    <3>1. n - 1 \in 0..n /\ n - 1 # n
      BY <1>3
    <3> QED BY <2>1, <1>3, <3>1
  <2>2. CASE k # n
    <3>1. k \in 0..n - 1
      BY <2>2, <1>3
    <3>2. at[k] = IF k = 0 THEN root ELSE ls.next[at[k - 1]]
      BY <3>1, <1>4
    <3>3. k # 0 => k - 1 \in 0..n - 1 /\ k - 1 \in 0..n /\ k - 1 # n
      BY <3>1, <1>3
    <3> QED BY <2>2, <3>2, <3>3
  <2> QED BY <2>1, <2>2
<1>6. more = [k \in 0..n |-> IF k = 0 THEN root ELSE ls.next[more[k - 1]]]
  <2>1. more = [k \in 0..n |-> more[k]]
    OBVIOUS
  <2> HIDE DEF more
  <2> QED BY <2>1, <1>5
<1>7. Exists(n)
  <2> HIDE DEF more
  <2> QED BY <1>6
<1> QED BY <1>1, <1>7

Count(ls) == Cardinality(Nodes(ls))

LEMMA NthFacts ==
    ASSUME NEW ls, NEW S, NEW g, InRings(ls, S, g), NEW root \in S, IsFiniteSet(Nodes(ls))
    PROVE  /\ Count(ls) \in Nat
           /\ Nth(ls, root)[0] = root
           /\ \A k \in 0 .. Count(ls) - 1 : Nth(ls, root)[k + 1] = ls.next[Nth(ls, root)[k]]
           /\ \A k \in 0 .. Count(ls) : /\ Nth(ls, root)[k] \in S
                                     /\ g[Nth(ls, root)[k]] = g[root]
<1> DEFINE N  == Count(ls)
           at == Nth(ls, root)
<1>1. N \in Nat
  BY FS_CardinalityType DEF Count
<1> HIDE DEF N
<1>2. at = [k \in 0..N |-> IF k = 0 THEN root ELSE ls.next[at[k - 1]]]
  <2> DEFINE f == CHOOSE f : f = [k \in 0..N |-> IF k = 0 THEN root ELSE ls.next[f[k - 1]]]
  <2>1. at = f
    BY Zenon DEF Nth, N, Count
  <2>2. \E h : IsIteration(h, ls, root, N)
    BY <1>1, NthExists
  <2>3. \E h : h = [k \in 0..N |-> IF k = 0 THEN root ELSE ls.next[h[k - 1]]]
    BY <2>2, Zenon DEF IsIteration
  <2>4. f = [k \in 0..N |-> IF k = 0 THEN root ELSE ls.next[f[k - 1]]]
    BY <2>3, Zenon
  <2> QED BY <2>1, <2>4, Zenon
<1> HIDE DEF at
<1>3. at[0] = root
  BY <1>1, <1>2
<1>4. \A k \in 0..N - 1 : at[k + 1] = ls.next[at[k]]
  <2> SUFFICES ASSUME NEW k \in 0..N - 1 PROVE at[k + 1] = ls.next[at[k]]
    OBVIOUS
  <2>1. k + 1 \in 0..N /\ k + 1 # 0 /\ (k + 1) - 1 = k
    BY <1>1
  <2> QED BY <2>1, <1>2
<1> DEFINE Bad == {k \in 0..N : ~ (at[k] \in S /\ g[at[k]] = g[root])}
<1>5. Bad = {}
  <2> SUFFICES ASSUME Bad # {} PROVE FALSE
    OBVIOUS
  <2>1. Bad \in SUBSET Nat
    BY <1>1
  <2>2. PICK k \in Bad : \A j \in Bad : k <= j
    <3> HIDE DEF Bad
    <3> QED BY <2>1, LeastElement
  <2>3. k # 0 /\ k \in 0..N
    BY <2>2, <1>3
  <2>4. k - 1 \in 0..N - 1 /\ k - 1 \notin Bad
    BY <2>2, <2>3, <1>1
  <2>5. at[k] = ls.next[at[k - 1]]
    BY <2>3, <2>4, <1>1, <1>4
  <2>6. at[k - 1] \in S /\ g[at[k - 1]] = g[root]
    BY <2>4, <1>1
  <2>7. at[k] \in S /\ g[at[k]] = g[root]
    BY <2>5, <2>6, InRingsFacts
  <2> QED BY <2>2, <2>7
<1> QED BY <1>1, <1>3, <1>4, <1>5 DEF N, at

(* The iteration of a list passes once over its members, then it is back at *)
(* the root.                                                                *)
LEMMA TraversalFacts ==
    ASSUME NEW ls, NEW S, NEW g, InRings(ls, S, g), NEW root \in S, g[root] = root,
           IsFiniteSet(Nodes(ls))
    PROVE  /\ Length(ls, root) \in 0 .. Count(ls) - 1
           /\ \A n \in S : g[n] = root /\ n # root <=> n \in Elements(ls, root)
           /\ Elements(ls, root) \subseteq S
<1> DEFINE N  == Count(ls)
           at == Nth(ls, root)
<1>1. /\ N \in Nat
      /\ at[0] = root
      /\ \A k \in 0..N - 1 : at[k + 1] = ls.next[at[k]]
      /\ \A k \in 0..N : at[k] \in S /\ g[at[k]] = root
  BY NthFacts
<1>0. IsFiniteSet(Nodes(ls)) /\ Cardinality(Nodes(ls)) = N
  BY DEF Count
<1> HIDE DEF N, at
<1>2. \E k \in 1..N : at[k] = root
  <2> SUFFICES ASSUME \A k \in 1..N : at[k] # root PROVE FALSE
    OBVIOUS
  <2> DEFINE f == [k \in 0..N |-> at[k]]
  <2>1. f \in [0..N -> Nodes(ls)] /\ \A k \in 0..N : f[k] = at[k]
    BY <1>1, InRingsFacts
  <2>2. IsFiniteSet(0..N) /\ Cardinality(Nodes(ls)) < Cardinality(0..N)
    BY <1>0, <1>1, FS_Interval
  <2>3. PICK p, q \in 0..N : p # q /\ f[p] = f[q]
    <3> DEFINE A == 0..N
               B == Nodes(ls)
    <3>1. /\ f \in [A -> B] /\ IsFiniteSet(A) /\ IsFiniteSet(B)
          /\ Cardinality(B) < Cardinality(A)
      BY <1>0, <2>1, <2>2
    <3> HIDE DEF f, A, B
    <3>2. \E i, j \in A : i # j /\ f[i] = f[j]
      BY <3>1, FS_PigeonHole
    <3> QED BY <3>2 DEF A
  <2> DEFINE Twice == {x \in 0..N : \E y \in 0..N : x < y /\ at[x] = at[y]}
  <2>4. Twice # {} /\ Twice \in SUBSET Nat
    BY <1>1, <2>1, <2>3
  <2>5. PICK i \in Twice : \A m \in Twice : i <= m
    <3> HIDE DEF Twice
    <3> QED BY <2>4, LeastElement
  <2>6. PICK j \in 0..N : i < j /\ at[i] = at[j]
    BY <2>5
  <2>7. i # 0
    BY <1>1, <2>6
  <2>8. i \in 0..N /\ i - 1 \in 0..N - 1 /\ j - 1 \in 0..N - 1 /\ i - 1 < j - 1
    BY <1>1, <2>5, <2>6, <2>7
  <2>9. at[i] = ls.next[at[i - 1]] /\ at[j] = ls.next[at[j - 1]]
    BY <1>1, <2>6, <2>8
  <2>10. at[i - 1] \in S /\ at[j - 1] \in S
    BY <1>1, <2>8
  <2>11. at[i - 1] = at[j - 1]
    <3>1. ls.prev[at[i]] = at[i - 1]
      BY <2>9, <2>10, InRingsFacts
    <3>2. ls.prev[at[j]] = at[j - 1]
      BY <2>9, <2>10, InRingsFacts
    <3> QED BY <2>6, <3>1, <3>2
  <2>12. i - 1 \in Twice
    <3>1. i - 1 \in 0..N /\ j - 1 \in 0..N
      BY <2>8, <1>1
    <3> QED BY <2>8, <2>11, <3>1
  <2> HIDE DEF Twice
  <2>13. i <= i - 1
    BY <2>5, <2>12
  <2> QED BY <2>8, <2>13
<1> DEFINE Back == {k \in 1..N : at[k] = root}
<1>3. PICK r \in Back : \A k \in Back : r <= k
  <2>1. Back \in SUBSET Nat /\ Back # {}
    BY <1>1, <1>2
  <2> HIDE DEF Back
  <2> QED BY <2>1, LeastElement
<1>4. r \in 1..N /\ at[r] = root /\ \A k \in 1..N : k < r => at[k] # root
  <2>1. ASSUME NEW k \in 1..N, at[k] = root PROVE ~ k < r
    BY <1>3, <2>1
  <2> QED BY <1>3, <2>1
<1> HIDE DEF Back
<1> PICK L : L = r - 1
  OBVIOUS
<1>5. L \in 0..N - 1 /\ L + 1 = r
  BY <1>1, <1>4
<1>6. ls.next[at[L]] = root /\ \A k \in 1..L : at[k] # root
  BY <1>1, <1>4, <1>5
<1>7. L = Length(ls, root)
  <2> DEFINE P(n) == /\ ls.next[at[n]] = root
                     /\ \A k \in 1..n : at[k] # root
  <2>1. ASSUME NEW n \in 0..N - 1, P(n) PROVE n = L
    <3>1. CASE n < L
      <4>1. n + 1 \in 1..L /\ at[n + 1] = ls.next[at[n]]
        BY <3>1, <1>1, <1>5
      <4> QED BY <4>1, <2>1, <1>6
    <3>2. CASE L < n
      <4>1. L + 1 \in 1..n /\ at[L + 1] = ls.next[at[L]]
        BY <3>2, <1>1, <1>5
      <4> QED BY <4>1, <2>1, <1>6
    <3> QED BY <3>1, <3>2, <1>1, <1>5
  <2>2. P(L)
    BY <1>6
  <2>3. Length(ls, root) = CHOOSE n \in 0..N - 1 : P(n)
    BY DEF Length, N, at, Count
  <2> HIDE DEF P
  <2>4. (CHOOSE n \in 0..N - 1 : P(n)) \in 0..N - 1 /\ P(CHOOSE n \in 0..N - 1 : P(n))
    BY <1>5, <2>2, Zenon
  <2> QED BY <2>1, <2>3, <2>4, Zenon
<1> DEFINE T == {at[k] : k \in 0..L}
<1>8. T \in SUBSET S /\ root \in T /\ \A n \in T : ls.next[n] \in T
  <2>1. T \in SUBSET S /\ root \in T
    BY <1>1, <1>5
  <2>2. ASSUME NEW k \in 0..L PROVE ls.next[at[k]] \in T
    <3>1. CASE k = L
      BY <3>1, <1>6, <2>1
    <3>2. CASE k # L
      <4>1. k + 1 \in 0..L /\ k \in 0..N - 1
        BY <3>2, <1>1, <1>5
      <4> QED BY <4>1, <1>1
    <3> QED BY <3>1, <3>2
  <2> QED BY <2>1, <2>2
<1>9. \A n \in S : g[n] = root => n \in T
  <2> HIDE DEF T
  <2> QED BY <1>8, ClosedIsWhole
<1>10. \A n \in S : g[n] = root /\ n # root <=> n \in {at[k] : k \in 1..L}
  <2> SUFFICES ASSUME NEW n \in S
               PROVE  g[n] = root /\ n # root <=> n \in {at[k] : k \in 1..L}
    OBVIOUS
  <2>1. ASSUME g[n] = root, n # root PROVE n \in {at[k] : k \in 1..L}
    <3>1. PICK k \in 0..L : n = at[k]
      BY <2>1, <1>9
    <3>2. k \in 1..L
      BY <3>1, <2>1, <1>1, <1>5
    <3> QED BY <3>1, <3>2
  <2>2. ASSUME NEW k \in 1..L PROVE g[at[k]] = root /\ at[k] # root
    <3>1. k \in 0..N
      BY <1>1, <1>5
    <3> QED BY <3>1, <1>1, <1>6
  <2> QED BY <2>1, <2>2
<1>11. Elements(ls, root) = {at[k] : k \in 1..L}
  BY <1>7 DEF Elements, at
<1>12. {at[k] : k \in 1..L} \subseteq S
  BY <1>1, <1>5
<1> QED BY <1>5, <1>7, <1>10, <1>11, <1>12 DEF N

LEMMA EmptyListFacts ==
    ASSUME NEW ls, NEW S, NEW g, InRings(ls, S, g), NEW root \in S, g[root] = root
    PROVE  IsEmptyList(ls, root) <=> \A n \in S : g[n] = root => n = root
<1>1. ASSUME ls.next[root] = root PROVE \A n \in S : g[n] = root => n = root
  <2> DEFINE T == {root}
  <2>1. T \in SUBSET S /\ root \in T /\ \A n \in T : ls.next[n] \in T
    BY <1>1
  <2> HIDE DEF T
  <2>2. \A n \in S : g[n] = root => n \in T
    BY <2>1, ClosedIsWhole
  <2> QED BY <2>2 DEF T
<1>2. ls.next[root] \in S /\ g[ls.next[root]] = root
  BY InRingsFacts
<1> QED BY <1>1, <1>2 DEF IsEmptyList

(* The search of a list finds nothing only when nothing is there.           *)
LEMMA FirstInFacts ==
    ASSUME NEW ls, NEW S, NEW g, InRings(ls, S, g), NEW root \in S, g[root] = root,
           IsFiniteSet(Nodes(ls)), NEW T, root \notin T
    PROVE  \/ /\ FirstIn(ls, root, T) = NULL
              /\ \A n \in S : g[n] = root => n \notin T
           \/ /\ FirstIn(ls, root, T) \in S /\ FirstIn(ls, root, T) \in T
              /\ g[FirstIn(ls, root, T)] = root
<1> DEFINE N    == Count(ls)
           at   == Nth(ls, root)
           hits == {k \in 1..N : at[k] \in T}
<1>1. /\ N \in Nat
      /\ \A k \in 0..N : at[k] \in S /\ g[at[k]] = root
  BY NthFacts
<1>2. /\ Length(ls, root) \in 0 .. N - 1
      /\ \A n \in S : g[n] = root /\ n # root <=> n \in Elements(ls, root)
  BY TraversalFacts
<1>3. FirstIn(ls, root, T) = IF hits = {} THEN NULL
                             ELSE at[CHOOSE k \in hits : \A j \in hits : k <= j]
  BY DEF FirstIn, Count
<1>4. Elements(ls, root) = {at[k] : k \in 1..Length(ls, root)}
  BY DEF Elements
<1> HIDE DEF N, at
<1>5. CASE hits = {}
  <2>1. ASSUME NEW n \in S, g[n] = root, n \in T PROVE FALSE
    <3>1. n \in Elements(ls, root)
      BY <2>1, <1>2
    <3>2. PICK k \in 1..Length(ls, root) : n = at[k]
      BY <3>1, <1>4
    <3>3. k \in 1..N
      BY <1>1, <1>2, <3>2
    <3> QED BY <3>2, <3>3, <2>1, <1>5
  <2> QED BY <2>1, <1>3, <1>5
<1>6. CASE hits # {}
  <2>1. hits \in SUBSET Nat
    BY <1>1
  <2>2. \E k \in hits : \A j \in hits : k <= j
    <3> HIDE DEF hits
    <3> QED BY <2>1, <1>6, LeastElement
  <2> DEFINE k == CHOOSE k \in hits : \A j \in hits : k <= j
  <2>3. k \in hits
    <3> HIDE DEF hits
    <3> QED BY <2>2, Zenon
  <2>4. FirstIn(ls, root, T) = at[k]
    BY <1>3, <1>6
  <2> HIDE DEF k
  <2>5. k \in 0..N /\ at[k] \in T
    BY <2>3, <1>1
  <2> QED BY <2>4, <2>5, <1>1
<1> QED BY <1>5, <1>6

-----------------------------------------------------------------------------
(* Where every node belongs                                                *)

NodeSet(m) ==
    {Containers} \union {InUse(k) : k \in Classes} \union {RunNode(r) : r \in DOMAIN m.runs}
      \union {ContainerNode(c) : c \in DOMAIN m.containers}
      \union {EmptyRuns(c) : c \in DOMAIN m.containers}

RunRoot(m, r) ==
    IF m.runs[r].splitting = 0 THEN EmptyRuns(m.runs[r].container)
    ELSE InUse(GetSizeClass(m.runs[r].splitting))

Roots(m) ==
    [n \in NodeSet(m) |-> IF n[1] = "run" THEN RunRoot(m, n[2])
                          ELSE IF n[1] = "container" THEN Containers
                          ELSE n]

LEMMA NodesDiffer ==
    /\ \A x, y : /\ RunNode(x) = RunNode(y) => x = y
                 /\ ContainerNode(x) = ContainerNode(y) => x = y
                 /\ EmptyRuns(x) = EmptyRuns(y) => x = y
                 /\ InUse(x) = InUse(y) => x = y
                 /\ RunNode(x) # ContainerNode(y)
                 /\ RunNode(x) # EmptyRuns(y)
                 /\ RunNode(x) # InUse(y)
                 /\ ContainerNode(x) # EmptyRuns(y)
                 /\ ContainerNode(x) # InUse(y)
                 /\ EmptyRuns(x) # InUse(y)
    /\ \A x : /\ RunNode(x) # Containers
              /\ ContainerNode(x) # Containers
              /\ EmptyRuns(x) # Containers
              /\ InUse(x) # Containers
              /\ RunNode(x)[2] = x /\ ContainerNode(x)[2] = x
    /\ \A x \in Int : /\ RunNode(x) # NULL
                      /\ ContainerNode(x) # NULL
<1>1. /\ \A x : RunNode(x)[1] = "run" /\ RunNode(x)[2] = x
      /\ \A x : ContainerNode(x)[1] = "container" /\ ContainerNode(x)[2] = x
      /\ \A x : EmptyRuns(x)[1] = "emptyRuns" /\ EmptyRuns(x)[2] = x
      /\ \A x : InUse(x)[1] = "inUse" /\ InUse(x)[2] = x
      /\ Containers[1] = "containers"
  BY DEF RunNode, ContainerNode, EmptyRuns, InUse, Containers
<1>2. ASSUME NEW x \in Int PROVE RunNode(x) # NULL /\ ContainerNode(x) # NULL
  <2>1. /\ RunNode(x) \in {"run", "container"} \X Int
        /\ ContainerNode(x) \in {"run", "container"} \X Int
    BY DEF RunNode, ContainerNode
  <2> QED BY <2>1, NullAssumption
<1> QED BY <1>1, <1>2

LEMMA RootsFacts ==
    ASSUME NEW m
    PROVE  /\ Containers \in NodeSet(m) /\ Roots(m)[Containers] = Containers
           /\ \A k \in Classes : InUse(k) \in NodeSet(m) /\ Roots(m)[InUse(k)] = InUse(k)
           /\ \A r \in DOMAIN m.runs :
                RunNode(r) \in NodeSet(m) /\ Roots(m)[RunNode(r)] = RunRoot(m, r)
           /\ \A c \in DOMAIN m.containers :
                /\ ContainerNode(c) \in NodeSet(m) /\ Roots(m)[ContainerNode(c)] = Containers
                /\ EmptyRuns(c) \in NodeSet(m) /\ Roots(m)[EmptyRuns(c)] = EmptyRuns(c)
<1>1. \A n \in NodeSet(m) : Roots(m)[n] = IF n[1] = "run" THEN RunRoot(m, n[2])
                                          ELSE IF n[1] = "container" THEN Containers
                                          ELSE n
  BY DEF Roots
<1>2. /\ Containers \in NodeSet(m)
      /\ \A k \in Classes : InUse(k) \in NodeSet(m)
      /\ \A r \in DOMAIN m.runs : RunNode(r) \in NodeSet(m)
      /\ \A c \in DOMAIN m.containers : ContainerNode(c) \in NodeSet(m) /\ EmptyRuns(c) \in NodeSet(m)
  BY DEF NodeSet
<1>3. /\ Containers[1] = "containers"
      /\ \A k : InUse(k)[1] = "inUse"
      /\ \A r : RunNode(r)[1] = "run" /\ RunNode(r)[2] = r
      /\ \A c : ContainerNode(c)[1] = "container" /\ EmptyRuns(c)[1] = "emptyRuns"
  BY DEF RunNode, ContainerNode, EmptyRuns, InUse, Containers
<1> QED BY <1>1, <1>2, <1>3

-----------------------------------------------------------------------------
(* Sizes and cells                                                         *)

LEMMA ClassFacts ==
    /\ Classes = 0..9
    /\ \A n \in 1..128 : /\ GetSizeClass(n) \in Classes
                         /\ n <= ClassSize(GetSizeClass(n))
    /\ \A k \in Classes : /\ ClassSize(k) \in 8..128
                          /\ GetSizeClass(ClassSize(k)) = k
<1>1. Classes = 0..9
  BY DEF Classes, SMALL_SIZE_CLASSES
<1>2. /\ ClassSize(0) = 8 /\ ClassSize(1) = 16 /\ ClassSize(2) = 24 /\ ClassSize(3) = 32
      /\ ClassSize(4) = 48 /\ ClassSize(5) = 64 /\ ClassSize(6) = 80 /\ ClassSize(7) = 96
      /\ ClassSize(8) = 112 /\ ClassSize(9) = 128
  BY DEF ClassSize, SMALL_SIZE_CLASSES
<1>3. ASSUME NEW k \in Classes
      PROVE  ClassSize(k) \in 8..128 /\ GetSizeClass(ClassSize(k)) = k
  <2>1. k \in {0, 1, 2, 3, 4, 5, 6, 7, 8, 9}
    BY <1>1
  <2> QED BY <2>1, <1>2 DEF GetSizeClass
<1>4. ASSUME NEW n \in 1..128
      PROVE  GetSizeClass(n) \in Classes /\ n <= ClassSize(GetSizeClass(n))
  <2>1. GetSizeClass(n) \in Int /\ 0 <= GetSizeClass(n) /\ GetSizeClass(n) <= 9
    BY DEF GetSizeClass
  <2>2. GetSizeClass(n) \in {0, 1, 2, 3, 4, 5, 6, 7, 8, 9}
    BY <2>1
  <2>3. /\ GetSizeClass(n) = 0 => n <= 8
        /\ GetSizeClass(n) = 1 => n <= 16
        /\ GetSizeClass(n) = 2 => n <= 24
        /\ GetSizeClass(n) = 3 => n <= 32
        /\ GetSizeClass(n) = 4 => n <= 48
        /\ GetSizeClass(n) = 5 => n <= 64
        /\ GetSizeClass(n) = 6 => n <= 80
        /\ GetSizeClass(n) = 7 => n <= 96
        /\ GetSizeClass(n) = 8 => n <= 112
    BY DEF GetSizeClass
  <2> QED BY <1>1, <1>2, <2>2, <2>3
<1> QED BY <1>1, <1>3, <1>4

LEMMA SizeOfClass ==
    ASSUME NEW k \in Classes
    PROVE  ClassSize(k) # 0 /\ GetSizeClass(ClassSize(k)) = k
<1>1. ClassSize(k) \in 8..128 /\ GetSizeClass(ClassSize(k)) = k
  BY ClassFacts, Zenon
<1> QED BY <1>1

(* A division rounded up covers. *)
LEMMA CeilDivFacts ==
    ASSUME NEW n \in Nat, NEW k \in Nat \ {0}
    PROVE  CeilDiv(n, k) \in Nat /\ n <= CeilDiv(n, k) * k
<1> DEFINE a == n + k - 1
<1>1. a \in Nat
  OBVIOUS
<1>2. a \div k \in Nat /\ a < (a \div k) * k + k
  <2> HIDE DEF a
  <2> QED BY <1>1, Quotient
<1>3. (a \div k) * k \in Nat
  <2> HIDE DEF a
  <2> QED BY <1>2
<1> QED BY <1>2, <1>3 DEF CeilDiv

RunRecord == [cntAlloc : Int, skip : Nat, splitting : Int, entries : Int,
              free : SUBSET Int, container : Int]

(* The cells a run has when none is in use. *)
AllCells(run) == SetSplitting(run, run.splitting).free

(* A run cut in cells of a class. *)
IsCut(run) ==
    /\ run \in RunRecord
    /\ run.splitting \in 8..128
    /\ run.entries = SetSplitting(run, run.splitting).entries

LEMMA CutFacts ==
    ASSUME NEW run, IsCut(run)
    PROVE  /\ run.entries \in Nat
           /\ BitmapSize(run.entries) \in Nat
           /\ StorageSize \div run.splitting \in Nat
           /\ AllCells(run) = HiddenEntries(run.skip, run.splitting, run.entries)
                                .. ((StorageSize \div run.splitting) - 1)
<1> DEFINE real    == StorageSize \div run.splitting
           entries == CeilDiv(real, EntryBits) * EntryBits
<1>1. run.splitting \in Nat \ {0} /\ run.skip \in Nat /\ StorageSize \in Nat
  BY LayoutAssumption DEF IsCut, RunRecord
<1>2. real \in Nat
  BY <1>1, Quotient
<1>3. entries \in Nat
  <2>1. CeilDiv(real, EntryBits) \in Nat
    <3> HIDE DEF real
    <3> QED BY <1>2, LayoutAssumption, CeilDivFacts
  <2> QED BY <2>1, LayoutAssumption
<1>4. SetSplitting(run, run.splitting) =
        [run EXCEPT !.splitting = run.splitting, !.entries = entries,
                    !.free = HiddenEntries(run.skip, run.splitting, entries) .. (real - 1)]
  BY <1>1 DEF SetSplitting
<1> HIDE DEF real, entries
<1>5. /\ SetSplitting(run, run.splitting).entries = entries
      /\ AllCells(run) = HiddenEntries(run.skip, run.splitting, entries) .. (real - 1)
  BY <1>4 DEF IsCut, RunRecord, AllCells
<1>6. run.entries = entries
  BY <1>5 DEF IsCut
<1>7. BitmapSize(run.entries) \in Nat
  <2>1. entries \div EntryBits \in Nat
    BY <1>3, LayoutAssumption, Quotient
  <2> QED BY <2>1, <1>6, LayoutAssumption DEF BitmapSize
<1> QED BY <1>2, <1>3, <1>5, <1>6, <1>7 DEF real

(* A cell lies in the run, after what the run keeps at its start, and its   *)
(* address leads back to it.                                                *)
LEMMA CellFacts ==
    ASSUME NEW run, IsCut(run), NEW r \in Nat, r % RunSize = 0,
           NEW id \in AllCells(run)
    PROVE  /\ id \in Nat
           /\ CellPtr(r, run, id) \in Nat
           /\ CellOf(r, run, CellPtr(r, run, id)) = id
           /\ RunOf(CellPtr(r, run, id)) = r
           /\ (CellPtr(r, run, id) - r) % run.splitting = 0
           /\ CellPtr(r, run, id) + run.splitting <= r + StorageSize
           /\ CellPtr(r, run, id) >= r + run.skip * EntrySize + BitmapSize(run.entries)
           /\ RunContain(r, run, CellPtr(r, run, id))
<1> DEFINE s     == run.splitting
           bytes == run.skip * EntrySize
           bits  == BitmapSize(run.entries)
           real  == StorageSize \div s
           h1    == CeilDiv(bytes, s)
           h2    == CeilDiv(bits, s)
           ptr   == CellPtr(r, run, id)
<1>1. s \in Nat \ {0} /\ run.skip \in Nat /\ StorageSize \in Nat /\ s >= 8
  BY LayoutAssumption DEF IsCut, RunRecord
<1>2. bytes \in Nat /\ bits \in Nat /\ real \in Nat
  BY <1>1, LayoutAssumption, CutFacts
<1>3. AllCells(run) = (h1 + h2) .. (real - 1)
  BY CutFacts DEF HiddenEntries, RoundedNbEntries
<1>4. ptr = r + s * id
  BY DEF CellPtr
<1>5. real * s <= StorageSize
  BY <1>1, Quotient
<1>6. run.entries \div EntryBits \in Nat /\ bits = (run.entries \div EntryBits) * EntrySize
  BY CutFacts, LayoutAssumption, Quotient DEF BitmapSize
<1>7. (run.skip + run.entries \div EntryBits) * EntrySize = bytes + bits
  <2> DEFINE words == run.entries \div EntryBits
  <2>1. words \in Int /\ bits = words * EntrySize
    BY <1>6
  <2> HIDE DEF words, bits
  <2>2. (run.skip + words) * EntrySize = run.skip * EntrySize + words * EntrySize
    BY <2>1, <1>1, LayoutAssumption, MultiplesApart
  <2> QED BY <2>1, <2>2 DEF words
<1> HIDE DEF s, bytes, bits, real
<1>8. h1 \in Nat /\ h2 \in Nat /\ bytes <= h1 * s /\ bits <= h2 * s
  BY <1>1, <1>2, CeilDivFacts
<1> HIDE DEF h1, h2
<1>9. id \in Nat /\ h1 + h2 <= id /\ id + 1 <= real
  BY <1>2, <1>3, <1>8
<1>10. /\ s * id \in Nat /\ s * id = id * s
       /\ (id + 1) * s = id * s + s
  BY <1>1, <1>9
<1>11. bytes + bits <= id * s
  <2>1. (h1 + h2) * s = h1 * s + h2 * s /\ h1 * s \in Nat /\ h2 * s \in Nat
    BY <1>1, <1>8
  <2>2. (h1 + h2) * s <= id * s
    <3>1. CASE h1 + h2 = id
      BY <3>1, <1>1, <1>9
    <3>2. CASE h1 + h2 # id
      <4> DEFINE h == h1 + h2
      <4>1. h \in Nat /\ h < id
        BY <3>2, <1>8, <1>9
      <4> HIDE DEF h
      <4>2. h * s < id * s
        BY <4>1, <1>1, <1>9, MultiplesApart
      <4>3. h * s \in Int /\ id * s \in Int
        BY <4>1, <1>1, <1>9
      <4> QED BY <4>2, <4>3 DEF h
    <3> QED BY <3>1, <3>2
  <2> QED BY <2>1, <2>2, <1>2, <1>8, <1>10
<1>12. id * s + s <= StorageSize
  <2>1. (id + 1) * s <= real * s
    <3>1. CASE id + 1 = real
      BY <3>1, <1>1, <1>2, <1>9
    <3>2. CASE id + 1 # real
      <4> DEFINE h == id + 1
      <4>1. h \in Nat /\ h < real
        BY <3>2, <1>2, <1>9
      <4> HIDE DEF h
      <4>2. h * s < real * s
        BY <4>1, <1>1, <1>2, MultiplesApart
      <4>3. h * s \in Int /\ real * s \in Int
        BY <4>1, <1>1, <1>2
      <4> QED BY <4>2, <4>3 DEF h
    <3> QED BY <3>1, <3>2
  <2>2. real * s \in Int
    BY <1>1, <1>2
  <2> QED BY <2>1, <2>2, <1>1, <1>5, <1>10
<1> HIDE DEF ptr
<1>13. ptr \in Nat /\ ptr = r + id * s
  BY <1>4, <1>10
<1>14. (ptr - r) \div s = id /\ (ptr - r) % s = 0
  <2>1. ptr - r = id * s
    BY <1>10, <1>13
  <2>2. (id * s) % s = 0
    BY <1>1, <1>9, RemainderOfMultiple
  <2>3. (id * s) \div s = id
    <3> DEFINE a == id * s
    <3>1. a \in Nat /\ id * s <= a /\ a < id * s + s
      BY <1>1, <1>10
    <3> HIDE DEF a
    <3>2. a \div s = id
      BY <3>1, <1>1, <1>9, QuotientUnique
    <3> QED BY <3>2 DEF a
  <2> QED BY <2>1, <2>2, <2>3
<1>15. RunOf(ptr) = r
  <2> DEFINE q == r \div RunSize
  <2>1. q \in Nat /\ r = q * RunSize
    BY LayoutAssumption
  <2> HIDE DEF q
  <2>2. r <= ptr /\ ptr < r + RunSize
    BY <1>1, <1>10, <1>12, <1>13, LayoutAssumption
  <2>3. ptr \div RunSize = q
    BY <1>13, <2>1, <2>2, LayoutAssumption, QuotientUnique
  <2> QED BY <2>1, <2>3 DEF RunOf
<1>16. CellOf(r, run, ptr) = id
  BY <1>14 DEF CellOf, s
<1>17. RunContain(r, run, ptr)
  BY <1>1, <1>2, <1>7, <1>10, <1>11, <1>12, <1>13 DEF RunContain
<1> QED BY <1>1, <1>2, <1>9, <1>10, <1>11, <1>12, <1>13, <1>14, <1>15, <1>16, <1>17
    DEF ptr, s, bytes, bits

(* A run with a free cell has a first one. *)
LEMMA FirstFreeFacts ==
    ASSUME NEW run, run.free \in SUBSET Nat, run.free # {}
    PROVE  FirstFree(run) \in run.free
<1> DEFINE word(id) == id \div EntryBits
           Words == {word(id) : id \in run.free}
           W == EntryBits
<1>1. W \in Nat \ {0}
  BY LayoutAssumption
<1>2. \A id \in run.free : word(id) \in Nat /\ id < word(id) * W + W
  <2> HIDE DEF W
  <2> QED BY <1>1, Quotient DEF W
<1> HIDE DEF word
<1>3. PICK w \in Words : \A v \in Words : w <= v
  <2>1. Words \in SUBSET Nat /\ Words # {}
    BY <1>2
  <2> HIDE DEF Words
  <2> QED BY <2>1, LeastElement
<1>4. w \in Nat /\ \A id \in run.free : w <= word(id)
  BY <1>2, <1>3
<1> DEFINE top == w * W + W
           Gaps == {top - id : id \in {i \in run.free : word(i) = w}}
<1>5. top \in Nat
  BY <1>1, <1>4
<1> HIDE DEF top, W
<1>6. \A id \in run.free : word(id) = w => top - id \in Nat
  BY <1>2, <1>5 DEF top
<1>7. PICK x \in Gaps : \A y \in Gaps : x <= y
  <2>1. Gaps \in SUBSET Nat /\ Gaps # {}
    BY <1>3, <1>6
  <2> HIDE DEF Gaps
  <2> QED BY <2>1, LeastElement
<1>8. PICK id \in run.free : word(id) = w /\ x = top - id
  BY <1>7
<1>9. \A c \in run.free : \/ word(id) < word(c)
                          \/ word(id) = word(c) /\ c <= id
  <2> SUFFICES ASSUME NEW c \in run.free, ~ word(id) < word(c)
               PROVE  word(id) = word(c) /\ c <= id
    OBVIOUS
  <2>1. word(c) = w
    BY <1>2, <1>4, <1>8
  <2>2. top - id <= top - c
    BY <2>1, <1>7, <1>8
  <2> QED BY <2>1, <2>2, <1>5, <1>8
<1>10. \E i \in run.free : \A c \in run.free :
         \/ i \div EntryBits < c \div EntryBits
         \/ i \div EntryBits = c \div EntryBits /\ c <= i
  BY <1>9 DEF word
<1> QED BY <1>10, Zenon DEF FirstFree

-----------------------------------------------------------------------------
(* The runs of a container                                                 *)

IsGiven(c, size) == [start |-> c, size |-> size] \in Given

LEMMA GivenFacts ==
    ASSUME NEW c, NEW size, IsGiven(c, size)
    PROVE  /\ c \in Nat /\ size \in Nat /\ size > ContainerSize
           /\ ContainerSize \in Nat \ {0} /\ ContainerSize < RunSize
           /\ (c + size) % RunSize = 0
           /\ (c + ContainerSize) % RunSize <= StorageSize
<1> DEFINE given == [start |-> c, size |-> size]
<1>1. given \in Given /\ given.start = c /\ given.size = size
  BY DEF IsGiven
<1>2. /\ given.size \in Nat /\ given.size > ContainerSize
      /\ (given.start + given.size) % RunSize = 0
      /\ (given.start + ContainerSize) % RunSize <= StorageSize
  <2> HIDE DEF given
  <2> QED BY <1>1, MemoryAssumption
<1>3. given.start \in Nat
  <2> HIDE DEF given
  <2>1. CASE \E b \in Bases : given = [start |-> b + SegmentHeader, size |-> SegmentSize - SegmentHeader]
    BY <2>1, MemoryAssumption
  <2>2. CASE \E a \in Areas, h \in {0, SegmentHeader} : given = [start |-> a[1] + h, size |-> a[2] - h]
    BY <2>2, MemoryAssumption
  <2> QED BY <1>1, <2>1, <2>2 DEF Given
<1> QED BY <1>1, <1>2, <1>3, ContainerAssumption, LayoutAssumption

(* The number of runs a container is cut in. *)
Total(c, size) == (c + size) \div RunSize - (c + ContainerSize) \div RunSize

First(c) == RunOf(c + ContainerSize)

LEMMA FirstRunsFacts ==
    ASSUME NEW c, NEW size, IsGiven(c, size)
    PROVE  /\ First(c) \in Nat /\ First(c) <= c + ContainerSize
           /\ c < First(c) + StorageSize /\ c + ContainerSize <= First(c) + StorageSize
           /\ Total(c, size) \in Nat \ {0}
           /\ FirstRuns(c, size) = {First(c) + (i - 1) * RunSize : i \in 1 .. Total(c, size)}
           /\ \A i \in 1 .. Total(c, size) :
                /\ First(c) + (i - 1) * RunSize \in Nat
                /\ (First(c) + (i - 1) * RunSize) % RunSize = 0
                /\ First(c) + (i - 1) * RunSize >= First(c)
                /\ First(c) + (i - 1) * RunSize + RunSize <= c + size
           /\ \A i, j \in 1 .. Total(c, size) :
                First(c) + (i - 1) * RunSize = First(c) + (j - 1) * RunSize => i = j
<1> DEFINE R == RunSize
           a == c + ContainerSize
           e == c + size
           p == a \div R
           q == e \div R
<1>1. /\ R \in Nat \ {0} /\ a \in Nat /\ e \in Nat /\ a < e /\ e % R = 0
      /\ ContainerSize \in Nat \ {0} /\ ContainerSize < R /\ c \in Nat /\ size \in Nat
      /\ a % R <= StorageSize /\ StorageSize \in Nat
  BY GivenFacts, LayoutAssumption
<1> HIDE DEF R, a, e
<1>2. p \in Nat /\ p * R <= a /\ a < p * R + R /\ a = p * R + (a % R)
  BY <1>1, Quotient
<1>3. q \in Nat /\ e = q * R
  BY <1>1
<1> HIDE DEF p, q
<1>4. p * R \in Nat /\ q * R \in Nat
  BY <1>1, <1>2, <1>3
<1>5. p < q
  BY <1>1, <1>2, <1>3, <1>4, MultiplesApart
<1>6. (e + ContainerSize) \div R = q
  BY <1>1, <1>3, QuotientUnique
<1>7. FirstRuns(c, size) = {r \in p * R .. q * R - 1 : r % R = 0}
  <2>1. RunOf(c + ContainerSize) = p * R
    BY DEF RunOf, p, a, R
  <2>2. RunOf(c + ContainerSize + size) = q * R
    <3>1. c + ContainerSize + size = e + ContainerSize
      BY <1>1 DEF e
    <3> QED BY <3>1, <1>6 DEF RunOf, R
  <2> QED BY <2>1, <2>2 DEF FirstRuns, R
<1>8. First(c) = p * R /\ Total(c, size) = q - p
  BY DEF First, Total, RunOf, p, q, a, e, R
<1> DEFINE n == q - p
<1>9. n \in Nat \ {0}
  BY <1>2, <1>3, <1>5
<1>10. ASSUME NEW i \in 1..n
       PROVE  /\ p * R + (i - 1) * R = (p + (i - 1)) * R
              /\ p * R + (i - 1) * R \in Nat
              /\ (p * R + (i - 1) * R) % R = 0
              /\ p * R + (i - 1) * R >= p * R
              /\ p * R + (i - 1) * R + R <= q * R
  <2> PICK j : j = i - 1
    OBVIOUS
  <2>1. j \in Nat /\ p + j \in Nat /\ p + j < q
    BY <1>2, <1>3, <1>9
  <2>2. (p + j) * R = p * R + j * R /\ j * R \in Nat
    BY <2>1, <1>1, <1>2, MultiplesApart
  <2>3. ((p + j) * R) % R = 0
    BY <2>1, <1>1, RemainderOfMultiple
  <2>4. (p + j) * R + R <= q * R
    BY <2>1, <1>1, <1>3, MultiplesApart
  <2> QED BY <2>1, <2>2, <2>3, <2>4, <1>4
<1>11. ASSUME NEW r \in p * R .. q * R - 1, r % R = 0
       PROVE  \E i \in 1..n : r = p * R + (i - 1) * R
  <2> DEFINE k == r \div R
  <2>1. k \in Nat /\ r = k * R /\ r \in Nat
    BY <1>1, <1>4, <1>11
  <2> HIDE DEF k
  <2>2. p * R <= k * R /\ k * R < q * R
    BY <2>1, <1>4
  <2>3. ~ k < p /\ k < q
    <3>1. k < p => k * R < p * R
      BY <2>1, <1>1, <1>2, MultiplesApart
    <3>2. k * R < q * R => k < q
      BY <2>1, <1>1, <1>3, MultiplesApart
    <3>3. k * R \in Int
      BY <2>1
    <3> QED BY <2>2, <3>1, <3>2, <3>3, <1>4
  <2> DEFINE i == k - p + 1
  <2>4. i \in 1..n /\ p + (i - 1) = k
    BY <2>1, <2>3, <1>2, <1>3
  <2> HIDE DEF i
  <2>5. r = p * R + (i - 1) * R
    BY <2>1, <2>4, <1>10
  <2> QED BY <2>4, <2>5
<1>12. ASSUME NEW i \in 1..n PROVE p * R + (i - 1) * R \in p * R .. q * R - 1
  BY <1>1, <1>4, <1>10
<1>13. {r \in p * R .. q * R - 1 : r % R = 0} = {p * R + (i - 1) * R : i \in 1..n}
  <2> HIDE DEF n
  <2> QED BY <1>10, <1>11, <1>12
<1>14. ASSUME NEW i \in 1..n, NEW j \in 1..n, p * R + (i - 1) * R = p * R + (j - 1) * R
       PROVE  i = j
  <2> PICK x, y : x = i - 1 /\ y = j - 1
    OBVIOUS
  <2>1. x \in Int /\ y \in Int /\ x * R \in Int /\ y * R \in Int
    BY <1>1, <1>9
  <2>2. x * R = y * R
    BY <2>1, <1>4, <1>14
  <2>3. ~ x < y /\ ~ y < x
    BY <2>1, <2>2, <1>1, MultiplesApart
  <2> QED BY <2>1, <2>3, <1>9
<1>15. p * R <= a /\ c < p * R + StorageSize /\ a <= p * R + StorageSize
  BY <1>1, <1>2, <1>4 DEF a
<1> HIDE DEF n
<1>16. Total(c, size) = n
  BY <1>8 DEF n
<1>17. /\ First(c) \in Nat /\ First(c) <= c + ContainerSize
       /\ c < First(c) + StorageSize /\ c + ContainerSize <= First(c) + StorageSize
       /\ Total(c, size) \in Nat \ {0}
  BY <1>4, <1>8, <1>9, <1>15, <1>16 DEF a
<1>18. FirstRuns(c, size) = {First(c) + (i - 1) * R : i \in 1 .. Total(c, size)}
  BY <1>7, <1>8, <1>13, <1>16
<1>19. \A i \in 1 .. Total(c, size) :
         /\ First(c) + (i - 1) * R \in Nat
         /\ (First(c) + (i - 1) * R) % R = 0
         /\ First(c) + (i - 1) * R >= First(c)
         /\ First(c) + (i - 1) * R + R <= e
  BY <1>3, <1>8, <1>10, <1>16
<1>20. \A i, j \in 1 .. Total(c, size) :
         First(c) + (i - 1) * R = First(c) + (j - 1) * R => i = j
  BY <1>8, <1>14, <1>16
<1> QED
  BY <1>17, <1>18, <1>19, <1>20 DEF R, e

(* The runs of a new container are put one after another in a list. *)
IsPutOfRuns(put, ls, root, first, N) ==
    put = [n \in 0..N |-> IF n = 0 THEN ls
                          ELSE PutFirst(put[n - 1], root, RunNode(first + (n - 1) * RunSize))]

LEMMA PutOfRunsExists ==
    ASSUME NEW ls, NEW root, NEW first, NEW N \in Nat
    PROVE  \E put : IsPutOfRuns(put, ls, root, first, N)
<1> DEFINE Step(n, before) == PutFirst(before, root, RunNode(first + (n - 1) * RunSize))
           Exists(n) == \E put : put = [k \in 0..n |-> IF k = 0 THEN ls ELSE Step(k, put[k - 1])]
           Bad == {n \in Nat : ~ Exists(n)}
<1> SUFFICES Bad = {}
  BY DEF IsPutOfRuns
<1> HIDE DEF Step
<1> SUFFICES ASSUME Bad # {} PROVE FALSE
  OBVIOUS
<1>1. PICK n \in Bad : \A m \in Bad : n <= m
  <2>1. Bad \in SUBSET Nat
    OBVIOUS
  <2> HIDE DEF Bad
  <2> QED BY <2>1, LeastElement
<1>2. Exists(0)
  <2> DEFINE put == [k \in 0..0 |-> ls]
  <2>1. put = [k \in 0..0 |-> IF k = 0 THEN ls ELSE Step(k, put[k - 1])]
    OBVIOUS
  <2> QED BY <2>1
<1>3. n \in Nat /\ n # 0 /\ n - 1 \in Nat /\ Exists(n - 1)
  <2>1. n \in Nat /\ n # 0
    BY <1>1, <1>2
  <2>2. n - 1 \in Nat /\ ~ n <= n - 1
    BY <2>1
  <2>3. n - 1 \notin Bad
    <3> HIDE DEF Bad
    <3> QED BY <1>1, <2>2
  <2> QED BY <2>1, <2>2, <2>3
<1>4. PICK put : put = [k \in 0..n - 1 |-> IF k = 0 THEN ls ELSE Step(k, put[k - 1])]
  BY <1>3
<1> DEFINE more == [k \in 0..n |-> IF k = n THEN Step(n, put[n - 1]) ELSE put[k]]
<1>5. \A k \in 0..n : more[k] = IF k = 0 THEN ls ELSE Step(k, more[k - 1])
  <2> SUFFICES ASSUME NEW k \in 0..n
               PROVE  more[k] = IF k = 0 THEN ls ELSE Step(k, more[k - 1])
    OBVIOUS
  <2>1. CASE k = n
    <3>1. n - 1 \in 0..n /\ n - 1 # n
      BY <1>3
    <3> QED BY <2>1, <1>3, <3>1
  <2>2. CASE k # n
    <3>1. k \in 0..n - 1
      BY <2>2, <1>3
    <3>2. put[k] = IF k = 0 THEN ls ELSE Step(k, put[k - 1])
      BY <3>1, <1>4
    <3>3. k # 0 => k - 1 \in 0..n - 1 /\ k - 1 \in 0..n /\ k - 1 # n
      BY <3>1, <1>3
    <3> QED BY <2>2, <3>2, <3>3
  <2> QED BY <2>1, <2>2
<1>6. more = [k \in 0..n |-> IF k = 0 THEN ls ELSE Step(k, more[k - 1])]
  <2>1. more = [k \in 0..n |-> more[k]]
    OBVIOUS
  <2> HIDE DEF more
  <2> QED BY <2>1, <1>5
<1>7. Exists(n)
  <2> HIDE DEF more
  <2> QED BY <1>6
<1> QED BY <1>1, <1>7

ArePut(elt, ls, S, g, root, first, N) ==
    /\ \A i \in 1..N : elt[i] = RunNode(first + (i - 1) * RunSize)
    /\ \A i \in 1..N : elt[i] \in Nodes(ls) \ S /\ g[elt[i]] = root
    /\ \A i, j \in 1..N : elt[i] = elt[j] => i = j

WithPut(S, elt, N) == S \union {elt[i] : i \in 1..N}

LEMMA PutOfRunsRings ==
    ASSUME NEW ls, NEW S, NEW g, InRings(ls, S, g), NEW root \in S, g[root] = root,
           NEW first, NEW N \in Nat, NEW put, IsPutOfRuns(put, ls, root, first, N),
           NEW elt, ArePut(elt, ls, S, g, root, first, N)
    PROVE  /\ InRings(put[N], WithPut(S, elt, N), g)
           /\ Nodes(put[N]) = Nodes(ls)
<1>1. put[0] = ls
  BY DEF IsPutOfRuns
<1>2. ASSUME NEW n \in 1..N PROVE put[n] = PutFirst(put[n - 1], root, elt[n])
  <2>1. n \in 0..N /\ n # 0
    OBVIOUS
  <2> QED BY <2>1 DEF IsPutOfRuns, ArePut
<1> DEFINE Sofar(n) == S \union {elt[i] : i \in 1..n}
           Good(n) == InRings(put[n], Sofar(n), g) /\ Nodes(put[n]) = Nodes(ls)
           Bad == {n \in 0..N : ~ Good(n)}
<1>3. Good(0)
  <2>1. Sofar(0) = S
    OBVIOUS
  <2> QED BY <1>1, <2>1
<1>4. ASSUME NEW n \in 1..N, Good(n - 1) PROVE Good(n)
  <2> DEFINE before == put[n - 1]
             T == Sofar(n - 1)
             e == elt[n]
  <2>1. InRings(before, T, g) /\ Nodes(before) = Nodes(ls) /\ root \in T
    BY <1>4
  <2>2. e \in Nodes(ls) /\ e \notin T /\ g[e] = root
    <3>1. \A i \in 1..n - 1 : i \in 1..N /\ i # n
      OBVIOUS
    <3> QED BY <3>1 DEF ArePut
  <2>3. Sofar(n) = T \union {e}
    <3>1. 1..n = (1..n - 1) \union {n}
      OBVIOUS
    <3>2. {elt[i] : i \in 1..n} = {elt[i] : i \in 1..n - 1} \union {elt[n]}
      BY <3>1
    <3> QED BY <3>2
  <2> HIDE DEF before, T, e, Sofar
  <2>4. /\ InRings(PutFirst(before, root, e), T \union {e}, g)
        /\ Nodes(PutFirst(before, root, e)) = Nodes(before)
    BY <2>1, <2>2, PutFirstRings
  <2>5. put[n] = PutFirst(before, root, e)
    BY <1>2 DEF before, e
  <2> QED BY <2>1, <2>3, <2>4, <2>5
<1>5. Bad = {}
  <2> SUFFICES ASSUME Bad # {} PROVE FALSE
    OBVIOUS
  <2> HIDE DEF Good
  <2>1. PICK n \in Bad : \A m \in Bad : n <= m
    <3>1. Bad \in SUBSET Nat
      OBVIOUS
    <3> HIDE DEF Bad
    <3> QED BY <3>1, LeastElement
  <2>2. n \in 1..N /\ n - 1 \in 0..N /\ ~ n <= n - 1
    BY <2>1, <1>3
  <2>3. n - 1 \notin Bad
    <3> HIDE DEF Bad
    <3> QED BY <2>1, <2>2
  <2> QED BY <2>1, <2>2, <2>3, <1>4
<1>6. Good(N)
  <2> HIDE DEF Good
  <2> QED BY <1>5
<1> QED BY <1>6 DEF WithPut

-----------------------------------------------------------------------------
(* The inductive invariant                                                 *)

Header == [size : Nat, reservedRuns : Int]
Splittings == {0} \union {ClassSize(k) : k \in Classes}
BlockRecord == [ptr : Nat, size : 1..128]

(* Types of what the headers hold. *)
IsMem(m) == m \in [runs : {m.runs}, containers : {m.containers}, lists : {m.lists}]

Sane(m) ==
    /\ IsMem(m)
    /\ IsFiniteSet(DOMAIN m.runs) /\ DOMAIN m.runs \subseteq Nat
    /\ m.runs \in [DOMAIN m.runs -> RunRecord]
    /\ IsFiniteSet(DOMAIN m.containers) /\ DOMAIN m.containers \subseteq Nat
    /\ m.containers \in [DOMAIN m.containers -> Header]
    /\ Nodes(m.lists) = NodeSet(m)
    /\ \A r \in DOMAIN m.runs :
         m.runs[r].splitting \in Splittings /\ m.runs[r].container \in DOMAIN m.containers

(* Every node but those of the set out is in the ring of its root.          *)
Listed(m, out) == InRings(m.lists, NodeSet(m) \ out, Roots(m))

UsedRuns(m, c) == {r \in RunsOf(m, c) : m.runs[r].splitting # 0}

Counted(m) ==
    \A c \in DOMAIN m.containers : m.containers[c].reservedRuns = Cardinality(UsedRuns(m, c))

(* Containers are apart and their runs where they were built.               *)
MemoryApart(c, sizeC, d, sizeD) == c + sizeC <= d \/ d + sizeD <= c

Skipped(r, c) == IF r < c + ContainerSize THEN (c + ContainerSize) - r ELSE 0

RunPlaced(r, run, size) ==
    /\ r \in FirstRuns(run.container, size)
    /\ run.skip = CeilDiv(Skipped(r, run.container), EntrySize)

Placed(m) ==
    /\ \A c \in DOMAIN m.containers : IsGiven(c, m.containers[c].size)
    /\ \A c, d \in DOMAIN m.containers :
         c # d => MemoryApart(c, m.containers[c].size, d, m.containers[d].size)
    /\ \A r \in DOMAIN m.runs :
         RunPlaced(r, m.runs[r], m.containers[m.runs[r].container].size)

(* The cells of a run: those that are free are in the bitmap, the others    *)
(* are counted.                                                             *)
CellsCounted(run) ==
    IF run.splitting = 0 THEN run.cntAlloc = 0
    ELSE /\ IsCut(run)
         /\ run.free \subseteq AllCells(run)
         /\ run.cntAlloc = Cardinality(AllCells(run) \ run.free)

Cells(runs, fresh) ==
    \A r \in DOMAIN runs :
        /\ CellsCounted(runs[r])
        /\ runs[r].splitting # 0 /\ r \notin fresh => runs[r].cntAlloc # 0

(* A block has a cell of its own, and a cell that is not free has a block.  *)
HasCell(runs, b) ==
    /\ b \in BlockRecord
    /\ RunOf(b.ptr) \in DOMAIN runs
    /\ LET r   == RunOf(b.ptr)
           run == runs[r]
           id  == CellOf(r, run, b.ptr)
       IN  /\ run.splitting # 0 /\ b.size <= run.splitting
           /\ id \in AllCells(run) /\ id \notin run.free
           /\ b.ptr = CellPtr(r, run, id)

Held(runs, blocks) ==
    /\ \A b \in blocks : HasCell(runs, b)
    /\ \A a, b \in blocks : a.ptr = b.ptr => a = b
    /\ \A r \in DOMAIN runs : runs[r].splitting # 0 =>
         \A id \in AllCells(runs[r]) : id \notin runs[r].free =>
            \E b \in blocks : b.ptr = CellPtr(r, runs[r], id)

Good(m, out, fresh, blocks) ==
    /\ Sane(m) /\ Listed(m, out) /\ Counted(m) /\ Placed(m)
    /\ Cells(m.runs, fresh) /\ Held(m.runs, blocks)

(* The active runs, which are in no list. *)
Detached(activ) == {RunNode(activ[k]) : k \in Classes}

Active(m, activ) ==
    /\ activ \in [Classes -> DOMAIN m.runs \union {NULL}]
    /\ \A k \in Classes : activ[k] # NULL => m.runs[activ[k]].splitting = ClassSize(k)

(* Containers are on segments of the source, or on areas given to fill.     *)
Owned(containers, source, given, left) ==
    IF source
      THEN /\ given \subseteq Bases
           /\ DOMAIN containers = {b + SegmentHeader : b \in given}
           /\ \A c \in DOMAIN containers : containers[c].size = SegmentSize - SegmentHeader
      ELSE /\ given = {} /\ left \subseteq Areas
           /\ \A c \in DOMAIN containers : \E a \in Areas \ left, h \in {0, SegmentHeader} :
                c = a[1] + h /\ containers[c].size = a[2] - h

InService(containers) == \A c \in DOMAIN containers : containers[c].reservedRuns # 0

ThreadsOK ==
    /\ hasSource \in BOOLEAN /\ unused \subseteq Areas
    /\ pc \in [Threads -> {"idle", "free", "move"}]
    /\ op \in [Threads -> [block : BlockRecord \union {NULL}, size : Nat]]
    /\ live \subseteq BlockRecord
    /\ \A t \in Threads : /\ op[t].block = NULL <=> pc[t] = "idle"
                          /\ pc[t] = "move" => op[t].size \in ReallocSizes
                          /\ op[t].block \notin live
    /\ \A t, u \in Threads : t # u /\ pc[t] # "idle" => op[t].block # op[u].block

IInv ==
    /\ ThreadsOK
    /\ Good(mem, Detached(activRuns), {}, Holding)
    /\ Active(mem, activRuns)
    /\ Owned(mem.containers, hasSource, segments, unused)
    /\ hasSource => InService(mem.containers)

-----------------------------------------------------------------------------
(* What an operation leaves as it was                                      *)

LEMMA SplittingFacts ==
    \A n \in Splittings : n # 0 => /\ n \in 8..128 /\ GetSizeClass(n) \in Classes
                                   /\ n = ClassSize(GetSizeClass(n))
<1> SUFFICES ASSUME NEW n \in Splittings, n # 0
             PROVE  /\ n \in 8..128 /\ GetSizeClass(n) \in Classes
                    /\ n = ClassSize(GetSizeClass(n))
  OBVIOUS
<1>1. PICK k \in Classes : n = ClassSize(k)
  BY DEF Splittings
<1>2. ClassSize(k) \in 8..128 /\ GetSizeClass(ClassSize(k)) = k
  BY ClassFacts, Zenon
<1> QED BY <1>1, <1>2

(* The links and the counts change. *)
LEMMA UpdateLinks ==
    ASSUME NEW m, Sane(m), Placed(m), NEW new, IsMem(new), new.runs = m.runs,
           new.containers \in [DOMAIN m.containers -> Header],
           \A c \in DOMAIN m.containers : new.containers[c].size = m.containers[c].size,
           Nodes(new.lists) = Nodes(m.lists)
    PROVE  /\ Sane(new) /\ Placed(new)
           /\ DOMAIN new.containers = DOMAIN m.containers
           /\ NodeSet(new) = NodeSet(m) /\ Roots(new) = Roots(m)
           /\ \A c : UsedRuns(new, c) = UsedRuns(m, c) /\ RunsOf(new, c) = RunsOf(m, c)
<1>1. DOMAIN new.containers = DOMAIN m.containers
  OBVIOUS
<1>2. NodeSet(new) = NodeSet(m)
  BY <1>1 DEF NodeSet
<1>3. \A r : RunRoot(new, r) = RunRoot(m, r)
  BY DEF RunRoot
<1>4. Roots(new) = Roots(m)
  BY <1>2, <1>3 DEF Roots
<1>5. Sane(new)
  BY <1>1, <1>2 DEF Sane
<1>6. Placed(new)
  BY <1>1 DEF Placed, Sane
<1> QED BY <1>1, <1>2, <1>4, <1>5, <1>6 DEF UsedRuns, RunsOf

(* One run changes. *)
LEMMA UpdateRun ==
    ASSUME NEW m, Sane(m), Placed(m), NEW out, Listed(m, out),
           NEW r \in DOMAIN m.runs, NEW run \in RunRecord,
           run.container = m.runs[r].container, run.skip = m.runs[r].skip,
           run.splitting \in Splittings,
           run.splitting = m.runs[r].splitting \/ RunNode(r) \in out,
           NEW new, IsMem(new), new.lists = m.lists, new.containers = m.containers,
           new.runs = [m.runs EXCEPT ![r] = run]
    PROVE  /\ Sane(new) /\ Placed(new) /\ Listed(new, out)
           /\ DOMAIN new.runs = DOMAIN m.runs /\ new.runs[r] = run
           /\ \A q \in DOMAIN m.runs : q # r => new.runs[q] = m.runs[q]
           /\ \A c : RunsOf(new, c) = RunsOf(m, c)
<1>1. /\ DOMAIN new.runs = DOMAIN m.runs /\ new.runs[r] = run
      /\ \A q \in DOMAIN m.runs : q # r => new.runs[q] = m.runs[q]
      /\ new.runs \in [DOMAIN m.runs -> RunRecord]
  BY DEF Sane
<1>2. NodeSet(new) = NodeSet(m)
  BY <1>1 DEF NodeSet
<1>3. ASSUME NEW q \in DOMAIN m.runs
      PROVE  /\ new.runs[q].container = m.runs[q].container
             /\ new.runs[q].skip = m.runs[q].skip
             /\ new.runs[q].splitting \in Splittings
             /\ RunNode(q) \notin out => new.runs[q].splitting = m.runs[q].splitting
  BY <1>1 DEF Sane
<1>4. Sane(new)
  BY <1>1, <1>2, <1>3 DEF Sane
<1>5. Placed(new)
  BY <1>1, <1>3 DEF Placed, RunPlaced
<1>6. \A c : RunsOf(new, c) = RunsOf(m, c)
  BY <1>1, <1>3 DEF RunsOf
<1>7. \A n \in NodeSet(m) \ out : Roots(new)[n] = Roots(m)[n]
  <2> SUFFICES ASSUME NEW n \in NodeSet(m), n \notin out
               PROVE  Roots(new)[n] = Roots(m)[n]
    OBVIOUS
  <2>1. CASE \E q \in DOMAIN m.runs : n = RunNode(q)
    <3>1. PICK q \in DOMAIN m.runs : n = RunNode(q)
      BY <2>1
    <3>2. RunRoot(new, q) = RunRoot(m, q)
      BY <3>1, <1>3 DEF RunRoot
    <3>3. Roots(new)[RunNode(q)] = RunRoot(new, q)
      BY <1>1, RootsFacts
    <3>4. Roots(m)[RunNode(q)] = RunRoot(m, q)
      BY RootsFacts
    <3> QED BY <3>1, <3>2, <3>3, <3>4
  <2>2. CASE ~ \E q \in DOMAIN m.runs : n = RunNode(q)
    <3>1. \/ n = Containers
          \/ \E k \in Classes : n = InUse(k)
          \/ \E c \in DOMAIN m.containers : n = ContainerNode(c) \/ n = EmptyRuns(c)
      BY <2>2 DEF NodeSet
    <3>2. CASE n = Containers
      BY <3>2, RootsFacts
    <3>3. CASE \E k \in Classes : n = InUse(k)
      BY <3>3, RootsFacts
    <3>4. CASE \E c \in DOMAIN m.containers : n = ContainerNode(c) \/ n = EmptyRuns(c)
      BY <3>4, RootsFacts
    <3> QED BY <3>1, <3>2, <3>3, <3>4
  <2> QED BY <2>1, <2>2
<1>8. Listed(new, out)
  <2> DEFINE S == NodeSet(m) \ out
             g == Roots(m)
             h == Roots(new)
             ls == m.lists
  <2>1. InRings(ls, S, g) /\ \A n \in S : h[n] = g[n]
    BY <1>7 DEF Listed
  <2> HIDE DEF S, g, h, ls
  <2>2. InRings(ls, S, h)
    BY <2>1, SameRoots
  <2> QED BY <2>2, <1>2 DEF Listed, S, h, ls
<1> QED BY <1>1, <1>4, <1>5, <1>6, <1>8

(* Only the links change. *)
LEMMA Relink ==
    ASSUME NEW m, NEW out, NEW fresh, NEW blocks, Good(m, out, fresh, blocks),
           NEW new, IsMem(new), new.runs = m.runs, new.containers = m.containers,
           Nodes(new.lists) = Nodes(m.lists),
           NEW after, InRings(new.lists, NodeSet(m) \ after, Roots(m))
    PROVE  Good(new, after, fresh, blocks)
<1>1. Sane(m) /\ Placed(m) /\ Counted(m)
  BY DEF Good
<1>2. /\ new.containers \in [DOMAIN m.containers -> Header]
      /\ \A c \in DOMAIN m.containers : new.containers[c].size = m.containers[c].size
  BY <1>1 DEF Sane
<1>3. /\ Sane(new) /\ Placed(new) /\ NodeSet(new) = NodeSet(m) /\ Roots(new) = Roots(m)
      /\ \A c : UsedRuns(new, c) = UsedRuns(m, c)
  BY <1>1, <1>2, UpdateLinks
<1>4. Listed(new, after)
  BY <1>3 DEF Listed
<1>5. Counted(new)
  BY <1>1, <1>3 DEF Counted
<1> QED BY <1>3, <1>4, <1>5 DEF Good

(* A run leaves its list. *)
LEMMA UnlinkRun ==
    ASSUME NEW m, NEW out, NEW fresh, NEW blocks, Good(m, out, fresh, blocks),
           NEW r \in DOMAIN m.runs, RunNode(r) \notin out,
           NEW new, IsMem(new), new.runs = m.runs, new.containers = m.containers,
           new.lists = RemoveNode(m.lists, RunNode(r))
    PROVE  Good(new, out \union {RunNode(r)}, fresh, blocks)
<1> DEFINE ls == m.lists
           S  == NodeSet(m) \ out
           g  == Roots(m)
           n  == RunNode(r)
<1>1. InRings(ls, S, g)
  BY DEF Good, Listed
<1>2. n \in S /\ g[n] # n
  <2>1. n \in NodeSet(m) /\ g[n] = RunRoot(m, r)
    BY RootsFacts
  <2>2. RunRoot(m, r) # n
    BY NodesDiffer DEF RunRoot
  <2> QED BY <2>1, <2>2
<1> HIDE DEF ls, S, g, n
<1>3. InRings(RemoveNode(ls, n), S \ {n}, g) /\ Nodes(RemoveNode(ls, n)) = Nodes(ls)
  BY <1>1, <1>2, RemoveNodeRings
<1>4. S \ {n} = NodeSet(m) \ (out \union {n})
  BY DEF S
<1>5. InRings(new.lists, NodeSet(m) \ (out \union {n}), Roots(m)) /\ Nodes(new.lists) = Nodes(m.lists)
  BY <1>3, <1>4 DEF ls, n, g
<1> QED BY <1>5, Relink DEF n

(* A run that was in no list goes to the end of the list of its class.      *)
LEMMA LinkRun ==
    ASSUME NEW m, NEW out, NEW fresh, NEW blocks, Good(m, out, fresh, blocks),
           NEW r \in DOMAIN m.runs, RunNode(r) \in out,
           NEW k \in Classes, m.runs[r].splitting = ClassSize(k), InUse(k) \notin out,
           NEW new, IsMem(new), new.runs = m.runs, new.containers = m.containers,
           new.lists = PutLast(m.lists, InUse(k), RunNode(r))
    PROVE  Good(new, out \ {RunNode(r)}, fresh, blocks)
<1> DEFINE ls   == m.lists
           S    == NodeSet(m) \ out
           g    == Roots(m)
           n    == RunNode(r)
           root == InUse(k)
<1>1. InRings(ls, S, g)
  BY DEF Good, Listed
<1>2. root \in S /\ g[root] = root
  BY RootsFacts
<1>3. n \in Nodes(ls) \ S /\ g[n] = root
  <2>1. n \in NodeSet(m) /\ g[n] = RunRoot(m, r)
    BY RootsFacts
  <2>2. RunRoot(m, r) = root
    <3>1. ClassSize(k) # 0 /\ GetSizeClass(ClassSize(k)) = k
      BY SizeOfClass
    <3> QED BY <3>1 DEF RunRoot
  <2> QED BY <2>1, <2>2 DEF Good, Sane
<1>4. S \union {n} = NodeSet(m) \ (out \ {n})
  BY <1>3, RootsFacts
<1> HIDE DEF ls, S, g, n, root
<1>5. InRings(PutLast(ls, root, n), S \union {n}, g) /\ Nodes(PutLast(ls, root, n)) = Nodes(ls)
  BY <1>1, <1>2, <1>3, PutLastRings
<1>6. InRings(new.lists, NodeSet(m) \ (out \ {n}), Roots(m)) /\ Nodes(new.lists) = Nodes(m.lists)
  BY <1>4, <1>5 DEF ls, n, g, root
<1> QED BY <1>6, Relink DEF n

(* The members of a list are of the kind it is for. *)
LEMMA MemberFacts ==
    ASSUME NEW m, Sane(m), NEW n \in NodeSet(m)
    PROVE  /\ \A c : Roots(m)[n] = EmptyRuns(c) /\ n # EmptyRuns(c) =>
                \E r \in DOMAIN m.runs : /\ n = RunNode(r)
                                         /\ m.runs[r].splitting = 0 /\ m.runs[r].container = c
           /\ \A k : Roots(m)[n] = InUse(k) /\ n # InUse(k) =>
                \E r \in DOMAIN m.runs : /\ n = RunNode(r)
                                         /\ m.runs[r].splitting # 0
                                         /\ m.runs[r].splitting = ClassSize(k)
           /\ Roots(m)[n] = Containers /\ n # Containers =>
                \E c \in DOMAIN m.containers : n = ContainerNode(c)
<1>1. CASE n = Containers
  BY <1>1, RootsFacts, NodesDiffer
<1>2. CASE \E k \in Classes : n = InUse(k)
  BY <1>2, RootsFacts, NodesDiffer
<1>3. CASE \E c \in DOMAIN m.containers : n = EmptyRuns(c)
  BY <1>3, RootsFacts, NodesDiffer
<1>4. CASE \E c \in DOMAIN m.containers : n = ContainerNode(c)
  BY <1>4, RootsFacts, NodesDiffer
<1>5. CASE \E r \in DOMAIN m.runs : n = RunNode(r)
  <2>1. PICK r \in DOMAIN m.runs : n = RunNode(r)
    BY <1>5
  <2>2. Roots(m)[n] = RunRoot(m, r)
    BY <2>1, RootsFacts
  <2>3. CASE m.runs[r].splitting = 0
    <3>1. Roots(m)[n] = EmptyRuns(m.runs[r].container)
      BY <2>2, <2>3 DEF RunRoot
    <3> QED BY <2>1, <2>3, <3>1, NodesDiffer
  <2>4. CASE m.runs[r].splitting # 0
    <3>1. Roots(m)[n] = InUse(GetSizeClass(m.runs[r].splitting))
      BY <2>2, <2>4 DEF RunRoot
    <3>2. m.runs[r].splitting = ClassSize(GetSizeClass(m.runs[r].splitting))
      BY <2>4, SplittingFacts DEF Sane
    <3> QED BY <2>1, <2>4, <3>1, <3>2, NodesDiffer
  <2> QED BY <2>3, <2>4
<1> QED BY <1>1, <1>2, <1>3, <1>4, <1>5 DEF NodeSet

(* getEmptyRun finds a run without a splitting, when there is one.          *)
LEMMA EmptyRunFacts ==
    ASSUME NEW m, NEW out, Sane(m), Listed(m, out), NEW c \in DOMAIN m.containers,
           EmptyRuns(c) \notin out
    PROVE  \/ /\ EmptyRun(m, c) = NULL
              /\ \A r \in DOMAIN m.runs :
                   m.runs[r].splitting = 0 /\ m.runs[r].container = c => RunNode(r) \in out
           \/ \E r \in DOMAIN m.runs :
                /\ EmptyRun(m, c) = r /\ r # NULL /\ RunNode(r) \notin out
                /\ m.runs[r].splitting = 0 /\ m.runs[r].container = c
                /\ m.lists.next[EmptyRuns(c)] = RunNode(r)
                /\ m.lists.next[EmptyRuns(c)] # EmptyRuns(c)
<1> DEFINE ls   == m.lists
           S    == NodeSet(m) \ out
           g    == Roots(m)
           root == EmptyRuns(c)
<1>1. InRings(ls, S, g) /\ root \in S /\ g[root] = root
  BY RootsFacts DEF Listed
<1>2. \A r \in DOMAIN m.runs : m.runs[r].splitting = 0 /\ m.runs[r].container = c
                                 => RunNode(r) \in NodeSet(m) /\ g[RunNode(r)] = root
  BY RootsFacts DEF RunRoot
<1> HIDE DEF ls, g
<1>3. CASE IsEmptyList(ls, root)
  <2> HIDE DEF S, root
  <2>1. \A n \in S : g[n] = root => n = root
    BY <1>1, <1>3, EmptyListFacts
  <2>2. EmptyRun(m, c) = NULL
    BY <1>3 DEF EmptyRun, GetFirst, ls, root
  <2>3. \A r : RunNode(r) # root
    BY NodesDiffer DEF root
  <2> QED BY <1>2, <2>1, <2>2, <2>3 DEF S
<1>4. CASE ~ IsEmptyList(ls, root)
  <2> DEFINE n == ls.next[root]
  <2>1. n \in S /\ g[n] = root /\ n # root
    <3> HIDE DEF S, root
    <3> QED BY <1>1, <1>4, InRingsFacts DEF IsEmptyList
  <2> HIDE DEF n
  <2>2. PICK r \in DOMAIN m.runs : /\ n = RunNode(r)
                                   /\ m.runs[r].splitting = 0 /\ m.runs[r].container = c
    BY <2>1, MemberFacts DEF g
  <2>3. r \in Int
    BY DEF Sane
  <2>4. n # NULL /\ r # NULL /\ n[2] = r
    BY <2>2, <2>3, NodesDiffer, NullAssumption
  <2>5. EmptyRun(m, c) = r
    BY <1>4, <2>4 DEF EmptyRun, GetFirst, ls, n
  <2> QED BY <2>1, <2>2, <2>4, <2>5 DEF n, ls
<1> QED BY <1>3, <1>4

(* The cells of a run just cut are all free. *)
LEMMA FreshRun ==
    ASSUME NEW run \in RunRecord, run.cntAlloc = 0, NEW s \in 8..128
    PROVE  LET cut == SetSplitting(run, s)
           IN  /\ cut \in RunRecord /\ cut.splitting = s /\ cut.free = AllCells(cut)
               /\ cut.container = run.container /\ cut.skip = run.skip
               /\ CellsCounted(cut)
<1> DEFINE cut     == SetSplitting(run, s)
           real    == StorageSize \div s
           entries == CeilDiv(real, EntryBits) * EntryBits
           cells   == HiddenEntries(run.skip, s, entries) .. (real - 1)
<1>1. cut = [run EXCEPT !.splitting = s, !.entries = entries, !.free = cells]
  BY DEF SetSplitting
<1>2. entries \in Int /\ cells \in SUBSET Int
  <2>1. real \in Nat
    BY LayoutAssumption, Quotient
  <2>2. CeilDiv(real, EntryBits) \in Nat
    <3> HIDE DEF real
    <3> QED BY <2>1, LayoutAssumption, CeilDivFacts
  <2> QED BY <2>2, LayoutAssumption
<1> HIDE DEF entries, cells, cut
<1>3. /\ cut \in RunRecord /\ cut.splitting = s /\ cut.free = cells /\ cut.entries = entries
      /\ cut.container = run.container /\ cut.skip = run.skip /\ cut.cntAlloc = 0
  <2>1. s \in Int
    OBVIOUS
  <2>2. cut \in RunRecord
    BY <1>1, <1>2, <2>1 DEF RunRecord
  <2>3. cut.splitting = s /\ cut.free = cells /\ cut.entries = entries
    BY <1>1 DEF RunRecord
  <2>4. cut.container = run.container /\ cut.skip = run.skip /\ cut.cntAlloc = 0
    BY <1>1 DEF RunRecord
  <2> QED BY <2>2, <2>3, <2>4
<1>4. SetSplitting(cut, s) = [cut EXCEPT !.splitting = s, !.entries = entries, !.free = cells]
  BY <1>3 DEF SetSplitting, entries, cells
<1>5. AllCells(cut) = cells /\ SetSplitting(cut, s).entries = entries
  BY <1>3, <1>4 DEF AllCells, RunRecord
<1>6. IsCut(cut)
  BY <1>3, <1>5 DEF IsCut
<1>7. CellsCounted(cut)
  <2>1. AllCells(cut) \ cut.free = {}
    BY <1>3, <1>5
  <2> QED BY <1>3, <1>5, <1>6, <2>1, FS_EmptySet DEF CellsCounted
<1> QED BY <1>3, <1>5, <1>7 DEF cut

LEMMA UsedRunsFinite ==
    ASSUME NEW m, Sane(m), NEW c
    PROVE  IsFiniteSet(UsedRuns(m, c)) /\ UsedRuns(m, c) \subseteq DOMAIN m.runs
<1>1. UsedRuns(m, c) \in SUBSET DOMAIN m.runs
  BY DEF UsedRuns, RunsOf
<1> QED BY <1>1, FS_Subset DEF Sane

(* Blocks are not touched by a change of a run that has none.               *)
LEMMA HeldElsewhere ==
    ASSUME NEW runs, NEW blocks, Held(runs, blocks), NEW r \in DOMAIN runs,
           \A b \in blocks : RunOf(b.ptr) # r,
           NEW after, DOMAIN after = DOMAIN runs,
           \A q \in DOMAIN runs : q # r => after[q] = runs[q],
           after[r].splitting = 0 \/ after[r].free = AllCells(after[r])
    PROVE  Held(after, blocks)
<1>1. \A b \in blocks : HasCell(after, b)
  <2> SUFFICES ASSUME NEW b \in blocks PROVE HasCell(after, b)
    OBVIOUS
  <2>1. HasCell(runs, b) /\ RunOf(b.ptr) # r
    BY DEF Held
  <2>2. after[RunOf(b.ptr)] = runs[RunOf(b.ptr)]
    BY <2>1 DEF HasCell
  <2> QED BY <2>1, <2>2 DEF HasCell
<1>2. ASSUME NEW q \in DOMAIN after, after[q].splitting # 0,
             NEW id \in AllCells(after[q]), id \notin after[q].free
      PROVE  \E b \in blocks : b.ptr = CellPtr(q, after[q], id)
  <2>1. q # r
    BY <1>2
  <2>2. after[q] = runs[q]
    BY <2>1
  <2> QED BY <1>2, <2>2 DEF Held
<1> QED BY <1>1, <1>2 DEF Held

(* A run without a splitting gets the one of a class. *)
IsTake(m, new, c, r, k) ==
    /\ IsMem(new)
    /\ new.runs = [m.runs EXCEPT ![r] = SetSplitting(m.runs[r], ClassSize(k))]
    /\ new.containers = [m.containers EXCEPT ![c].reservedRuns = @ + 1]
    /\ new.lists = PopFirst(m.lists, EmptyRuns(c))

TakenFrom(m, new, c, r, k) ==
    /\ DOMAIN new.runs = DOMAIN m.runs /\ DOMAIN new.containers = DOMAIN m.containers
    /\ \A d \in DOMAIN m.containers :
         /\ new.containers[d].size = m.containers[d].size
         /\ new.containers[d].reservedRuns = IF d = c THEN m.containers[d].reservedRuns + 1
                                             ELSE m.containers[d].reservedRuns
    /\ new.runs[r] = SetSplitting(m.runs[r], ClassSize(k))
    /\ new.runs[r].splitting = ClassSize(k)
    /\ \A q \in DOMAIN m.runs : q # r => new.runs[q] = m.runs[q]

LEMMA TakeRun ==
    ASSUME NEW m, NEW out, NEW fresh, NEW blocks, Good(m, out, fresh, blocks),
           NEW c \in DOMAIN m.containers, EmptyRuns(c) \notin out,
           NEW r \in DOMAIN m.runs, RunNode(r) \notin out,
           m.runs[r].splitting = 0, m.runs[r].container = c,
           m.lists.next[EmptyRuns(c)] = RunNode(r),
           m.lists.next[EmptyRuns(c)] # EmptyRuns(c),
           NEW k \in Classes, NEW new, IsTake(m, new, c, r, k)
    PROVE  /\ Good(new, out \union {RunNode(r)}, fresh \union {r}, blocks)
           /\ TakenFrom(m, new, c, r, k)
<1> DEFINE ls   == m.lists
           S    == NodeSet(m) \ out
           g    == Roots(m)
           root == EmptyRuns(c)
           n    == RunNode(r)
           mid  == [runs |-> m.runs, containers |-> new.containers, lists |-> new.lists]
           cut  == SetSplitting(m.runs[r], ClassSize(k))
<1>1. Sane(m) /\ Listed(m, out) /\ Placed(m) /\ Counted(m) /\ Cells(m.runs, fresh) /\ Held(m.runs, blocks)
  BY DEF Good
<1>2. /\ DOMAIN new.containers = DOMAIN m.containers
      /\ new.containers \in [DOMAIN m.containers -> Header]
      /\ \A d \in DOMAIN m.containers :
           /\ new.containers[d].size = m.containers[d].size
           /\ new.containers[d].reservedRuns = IF d = c THEN m.containers[d].reservedRuns + 1
                                               ELSE m.containers[d].reservedRuns
  BY <1>1 DEF Sane, Header, IsTake
<1>3. InRings(new.lists, S \ {n}, g) /\ Nodes(new.lists) = Nodes(ls)
  <2>1. InRings(ls, S, g) /\ root \in S /\ g[root] = root /\ ls.next[root] # root /\ n = ls.next[root]
    BY <1>1, RootsFacts DEF Listed
  <2>2. new.lists = PopFirst(ls, root)
    BY DEF IsTake
  <2> HIDE DEF ls, S, g, root, n
  <2> QED BY <2>1, <2>2, PopFirstRings
<1>4. S \ {n} = NodeSet(m) \ (out \union {n})
  OBVIOUS
<1>5. /\ IsMem(mid) /\ mid.runs = m.runs /\ mid.containers = new.containers
      /\ mid.lists = new.lists
  BY DEF IsMem
<1> HIDE DEF mid, ls, S, g, root, n
<1>6. /\ Sane(mid) /\ Placed(mid) /\ NodeSet(mid) = NodeSet(m) /\ Roots(mid) = Roots(m)
  BY <1>1, <1>2, <1>3, <1>5, UpdateLinks DEF ls
<1>7. Listed(mid, out \union {n})
  BY <1>3, <1>4, <1>5, <1>6 DEF Listed, g
<1>8. /\ m.runs[r] \in RunRecord /\ m.runs[r].cntAlloc = 0
      /\ ClassSize(k) \in 8..128 /\ ClassSize(k) \in Splittings
  <2>1. CellsCounted(m.runs[r])
    BY <1>1 DEF Cells
  <2> QED BY <2>1, <1>1, ClassFacts DEF Sane, CellsCounted, Splittings
<1> HIDE DEF cut
<1>9. /\ cut \in RunRecord /\ cut.splitting = ClassSize(k) /\ cut.free = AllCells(cut)
      /\ cut.container = m.runs[r].container /\ cut.skip = m.runs[r].skip
      /\ CellsCounted(cut)
  BY <1>8, FreshRun DEF cut
<1>10. /\ Sane(new) /\ Placed(new) /\ Listed(new, out \union {n})
       /\ DOMAIN new.runs = DOMAIN m.runs /\ new.runs[r] = cut
       /\ \A q \in DOMAIN m.runs : q # r => new.runs[q] = m.runs[q]
       /\ \A d : RunsOf(new, d) = RunsOf(mid, d)
  <2>1. new.runs = [mid.runs EXCEPT ![r] = cut]
    BY <1>5 DEF cut, IsTake
  <2>2. /\ r \in DOMAIN mid.runs /\ RunNode(r) \in out \union {n}
        /\ cut.container = mid.runs[r].container /\ cut.skip = mid.runs[r].skip
        /\ cut.splitting \in Splittings
    BY <1>5, <1>8, <1>9 DEF n
  <2>3. new.lists = mid.lists /\ new.containers = mid.containers /\ IsMem(new)
    BY <1>5 DEF IsTake
  <2>4. /\ Sane(new) /\ Placed(new) /\ Listed(new, out \union {n})
        /\ DOMAIN new.runs = DOMAIN mid.runs /\ new.runs[r] = cut
        /\ \A q \in DOMAIN mid.runs : q # r => new.runs[q] = mid.runs[q]
        /\ \A d : RunsOf(new, d) = RunsOf(mid, d)
    BY <1>6, <1>7, <1>9, <2>1, <2>2, <2>3, UpdateRun
  <2> QED BY <2>4, <1>5
<1>11. Counted(new)
  <2> SUFFICES ASSUME NEW d \in DOMAIN m.containers
               PROVE  new.containers[d].reservedRuns = Cardinality(UsedRuns(new, d))
    BY <1>2 DEF Counted
  <2>1. m.containers[d].reservedRuns = Cardinality(UsedRuns(m, d)) /\ IsFiniteSet(UsedRuns(m, d))
    BY <1>1, UsedRunsFinite DEF Counted
  <2>2. RunsOf(new, d) = RunsOf(m, d)
    BY <1>5, <1>10 DEF RunsOf
  <2>3. cut.splitting # 0
    BY <1>8, <1>9
  <2>4. CASE d = c
    <3>1. UsedRuns(new, d) = UsedRuns(m, d) \union {r} /\ r \notin UsedRuns(m, d)
      BY <2>2, <2>3, <2>4, <1>10 DEF UsedRuns, RunsOf
    <3> DEFINE T == UsedRuns(m, d)
    <3>2. IsFiniteSet(T) /\ r \notin T
      BY <2>1, <3>1
    <3> HIDE DEF T
    <3>3. Cardinality(T \union {r}) = Cardinality(T) + 1
      BY <3>2, FS_AddElement
    <3> QED BY <2>1, <2>4, <3>1, <3>3, <1>2 DEF T
  <2>5. CASE d # c
    <3>1. UsedRuns(new, d) = UsedRuns(m, d)
      BY <2>2, <2>5, <1>10 DEF UsedRuns, RunsOf
    <3> QED BY <2>1, <2>5, <3>1, <1>2
  <2> QED BY <2>4, <2>5
<1>12. Cells(new.runs, fresh \union {r})
  BY <1>1, <1>9, <1>10 DEF Cells
<1>13. Held(new.runs, blocks)
  <2>1. \A b \in blocks : RunOf(b.ptr) # r
    BY <1>1 DEF Held, HasCell
  <2>2. new.runs[r].free = AllCells(new.runs[r])
    BY <1>9, <1>10
  <2> DEFINE before == m.runs
             after  == new.runs
  <2>3. /\ Held(before, blocks) /\ r \in DOMAIN before /\ DOMAIN after = DOMAIN before
        /\ \A q \in DOMAIN before : q # r => after[q] = before[q]
        /\ after[r].free = AllCells(after[r])
    BY <1>1, <1>10, <2>2
  <2> HIDE DEF before, after
  <2>4. Held(after, blocks)
    BY <2>1, <2>3, HeldElsewhere
  <2> QED BY <2>4 DEF after
<1>14. new.runs[r] = SetSplitting(m.runs[r], ClassSize(k))
  BY <1>10 DEF cut
<1>15. TakenFrom(m, new, c, r, k)
  BY <1>2, <1>9, <1>10, <1>14 DEF TakenFrom
<1> QED BY <1>10, <1>11, <1>12, <1>13, <1>15 DEF Good, n

(* A run without a block loses its splitting and goes back to its container.*)
IsGiveBack(m, new, c, r) ==
    /\ IsMem(new)
    /\ new.runs = [m.runs EXCEPT ![r] = SetSplitting(m.runs[r], 0)]
    /\ new.containers = [m.containers EXCEPT ![c].reservedRuns = @ - 1]
    /\ new.lists = PutFirst(m.lists, EmptyRuns(c), RunNode(r))

GivenBack(m, new, c, r) ==
    /\ DOMAIN new.runs = DOMAIN m.runs /\ DOMAIN new.containers = DOMAIN m.containers
    /\ \A d \in DOMAIN m.containers :
         /\ new.containers[d].size = m.containers[d].size
         /\ new.containers[d].reservedRuns = IF d = c THEN m.containers[d].reservedRuns - 1
                                             ELSE m.containers[d].reservedRuns
    /\ new.runs[r].splitting = 0 /\ new.runs[r].container = c
    /\ \A q \in DOMAIN m.runs : q # r => new.runs[q] = m.runs[q]

LEMMA GiveBackRun ==
    ASSUME NEW m, NEW out, NEW blocks, NEW r \in DOMAIN m.runs, Good(m, out, {r}, blocks),
           NEW c \in DOMAIN m.containers, m.runs[r].container = c, EmptyRuns(c) \notin out,
           RunNode(r) \in out, m.runs[r].splitting # 0, m.runs[r].cntAlloc = 0,
           \A b \in blocks : RunOf(b.ptr) # r,
           NEW new, IsGiveBack(m, new, c, r)
    PROVE  Good(new, out \ {RunNode(r)}, {}, blocks) /\ GivenBack(m, new, c, r)
<1> DEFINE bare == SetSplitting(m.runs[r], 0)
           mid  == [runs |-> new.runs, containers |-> m.containers, lists |-> m.lists]
           ls   == m.lists
           S    == NodeSet(m) \ out
           g    == Roots(mid)
           root == EmptyRuns(c)
           n    == RunNode(r)
<1>1. Sane(m) /\ Listed(m, out) /\ Placed(m) /\ Counted(m) /\ Cells(m.runs, {r}) /\ Held(m.runs, blocks)
  BY DEF Good
<1>2. /\ bare \in RunRecord /\ bare.splitting = 0 /\ bare.cntAlloc = 0
      /\ bare.container = m.runs[r].container /\ bare.skip = m.runs[r].skip
      /\ bare.splitting \in Splittings
  <2>1. bare = [m.runs[r] EXCEPT !.splitting = 0] /\ m.runs[r] \in RunRecord
    BY <1>1 DEF SetSplitting, Sane
  <2> HIDE DEF bare
  <2> QED BY <2>1 DEF RunRecord, Splittings
<1>3. /\ IsMem(mid) /\ mid.runs = [m.runs EXCEPT ![r] = bare] /\ mid.runs = new.runs
      /\ mid.containers = m.containers /\ mid.lists = m.lists
  BY DEF IsMem, IsGiveBack
<1> HIDE DEF bare, mid, ls, S, g, root, n
<1>4. /\ Sane(mid) /\ Placed(mid) /\ Listed(mid, out)
      /\ DOMAIN mid.runs = DOMAIN m.runs /\ mid.runs[r] = bare
      /\ \A q \in DOMAIN m.runs : q # r => mid.runs[q] = m.runs[q]
      /\ \A d : RunsOf(mid, d) = RunsOf(m, d)
  BY <1>1, <1>2, <1>3, UpdateRun
<1>5. NodeSet(mid) = NodeSet(m)
  BY <1>3, <1>4 DEF NodeSet
<1>6. /\ DOMAIN new.containers = DOMAIN m.containers
      /\ new.containers \in [DOMAIN m.containers -> Header]
      /\ \A d \in DOMAIN m.containers :
           /\ new.containers[d].size = m.containers[d].size
           /\ new.containers[d].reservedRuns = IF d = c THEN m.containers[d].reservedRuns - 1
                                               ELSE m.containers[d].reservedRuns
  BY <1>1 DEF Sane, Header, IsGiveBack
<1>7. InRings(ls, S, g) /\ root \in S /\ g[root] = root /\ n \in Nodes(ls) \ S /\ g[n] = root
  <2>1. InRings(ls, S, g)
    BY <1>3, <1>4, <1>5 DEF Listed, ls, S, g
  <2>2. root \in S /\ g[root] = root
    BY <1>3, <1>5, RootsFacts DEF root, S, g
  <2>3. n \in NodeSet(m) /\ n \notin S /\ n \in Nodes(ls)
    BY <1>1, RootsFacts DEF n, S, ls, Sane
  <2>4. g[n] = RunRoot(mid, r)
    BY <1>4, RootsFacts DEF g, n
  <2>5. RunRoot(mid, r) = root
    BY <1>2, <1>4 DEF RunRoot, root
  <2> QED BY <2>1, <2>2, <2>3, <2>4, <2>5
<1>8. InRings(new.lists, S \union {n}, g) /\ Nodes(new.lists) = Nodes(ls)
  <2>1. InRings(PutFirst(ls, root, n), S \union {n}, g) /\ Nodes(PutFirst(ls, root, n)) = Nodes(ls)
    BY <1>7, PutFirstRings
  <2> QED BY <2>1 DEF IsGiveBack, ls, root, n
<1>9. S \union {n} = NodeSet(m) \ (out \ {n})
  BY RootsFacts DEF S, n
<1>10. /\ Sane(new) /\ Placed(new) /\ NodeSet(new) = NodeSet(mid) /\ Roots(new) = Roots(mid)
       /\ \A d : RunsOf(new, d) = RunsOf(mid, d)
  <2>1. /\ IsMem(new) /\ new.runs = mid.runs
        /\ new.containers \in [DOMAIN mid.containers -> Header]
        /\ \A d \in DOMAIN mid.containers : new.containers[d].size = mid.containers[d].size
        /\ Nodes(new.lists) = Nodes(mid.lists)
    BY <1>3, <1>6, <1>8 DEF IsGiveBack, ls
  <2> QED BY <1>4, <2>1, UpdateLinks
<1>11. Listed(new, out \ {n})
  BY <1>5, <1>8, <1>9, <1>10 DEF Listed, g
<1>12. Counted(new)
  <2> SUFFICES ASSUME NEW d \in DOMAIN m.containers
               PROVE  new.containers[d].reservedRuns = Cardinality(UsedRuns(new, d))
    BY <1>6 DEF Counted
  <2>1. m.containers[d].reservedRuns = Cardinality(UsedRuns(m, d)) /\ IsFiniteSet(UsedRuns(m, d))
    BY <1>1, UsedRunsFinite DEF Counted
  <2>2. RunsOf(new, d) = RunsOf(m, d)
    BY <1>4, <1>10
  <2>3. CASE d = c
    <3>1. UsedRuns(new, d) = UsedRuns(m, d) \ {r} /\ r \in UsedRuns(m, d)
      BY <2>2, <2>3, <1>2, <1>3, <1>4 DEF UsedRuns, RunsOf
    <3> DEFINE T == UsedRuns(m, d)
    <3>2. IsFiniteSet(T) /\ r \in T
      BY <2>1, <3>1
    <3> HIDE DEF T
    <3>3. Cardinality(T \ {r}) = Cardinality(T) - 1
      BY <3>2, FS_RemoveElement
    <3> QED BY <2>1, <2>3, <3>1, <3>3, <1>6 DEF T
  <2>4. CASE d # c
    <3>1. UsedRuns(new, d) = UsedRuns(m, d)
      BY <2>2, <2>4, <1>3, <1>4 DEF UsedRuns, RunsOf
    <3> QED BY <2>1, <2>4, <3>1, <1>6
  <2> QED BY <2>3, <2>4
<1>13. Cells(new.runs, {})
  <2>1. CellsCounted(bare)
    BY <1>2 DEF CellsCounted
  <2> QED BY <2>1, <1>1, <1>2, <1>3, <1>4 DEF Cells
<1>14. Held(new.runs, blocks)
  <2> DEFINE before == m.runs
             after  == new.runs
  <2>1. /\ Held(before, blocks) /\ r \in DOMAIN before /\ DOMAIN after = DOMAIN before
        /\ \A q \in DOMAIN before : q # r => after[q] = before[q]
        /\ after[r].splitting = 0
    BY <1>1, <1>2, <1>3, <1>4
  <2> HIDE DEF before, after
  <2>2. Held(after, blocks)
    BY <2>1, HeldElsewhere
  <2> QED BY <2>2 DEF after
<1>15. GivenBack(m, new, c, r)
  BY <1>2, <1>3, <1>4, <1>6 DEF GivenBack
<1> QED BY <1>10, <1>11, <1>12, <1>13, <1>14, <1>15 DEF Good, n

(* A container without runs in use goes with all its runs.                  *)
Memory(m, c) ==
    {ContainerNode(c), EmptyRuns(c)} \union {RunNode(r) : r \in RunsOf(m, c)}

IsRelease(m, new, c) ==
    /\ IsMem(new)
    /\ new.runs = [r \in DOMAIN m.runs \ RunsOf(m, c) |-> m.runs[r]]
    /\ new.containers = [d \in DOMAIN m.containers \ {c} |-> m.containers[d]]
    /\ new.lists = DropNodes(RemoveNode(m.lists, ContainerNode(c)), Memory(m, c))

LEMMA ReleaseContainer ==
    ASSUME NEW m, NEW out, NEW blocks, Good(m, out, {}, blocks),
           NEW c \in DOMAIN m.containers, m.containers[c].reservedRuns = 0,
           \A n \in out : n \in NodeSet(m) =>
              \E r \in DOMAIN m.runs : n = RunNode(r) /\ m.runs[r].splitting # 0,
           NEW new, IsRelease(m, new, c)
    PROVE  /\ Good(new, out, {}, blocks)
           /\ DOMAIN new.containers = DOMAIN m.containers \ {c}
           /\ \A d \in DOMAIN new.containers : new.containers[d] = m.containers[d]
           /\ DOMAIN new.runs \subseteq DOMAIN m.runs
           /\ \A r \in DOMAIN m.runs : m.runs[r].splitting # 0 => r \in DOMAIN new.runs
           /\ \A r \in DOMAIN new.runs : new.runs[r] = m.runs[r]
<1> DEFINE ls  == m.lists
           S   == NodeSet(m) \ out
           g   == Roots(m)
           h   == Roots(new)
           n   == ContainerNode(c)
           old == Memory(m, c)
           mid == RemoveNode(ls, n)
<1>1. Sane(m) /\ Listed(m, out) /\ Placed(m) /\ Counted(m) /\ Cells(m.runs, {}) /\ Held(m.runs, blocks)
  BY DEF Good
<1>2. \A r \in RunsOf(m, c) : r \in DOMAIN m.runs /\ m.runs[r].container = c /\ m.runs[r].splitting = 0
  <2>1. Cardinality(UsedRuns(m, c)) = 0 /\ IsFiniteSet(UsedRuns(m, c))
    BY <1>1, UsedRunsFinite DEF Counted
  <2>2. UsedRuns(m, c) = {}
    BY <2>1, FS_EmptySet
  <2> QED BY <2>2 DEF UsedRuns, RunsOf
<1>3. /\ DOMAIN new.containers = DOMAIN m.containers \ {c}
      /\ \A d \in DOMAIN new.containers : new.containers[d] = m.containers[d]
      /\ DOMAIN new.runs = DOMAIN m.runs \ RunsOf(m, c)
      /\ \A r \in DOMAIN new.runs : new.runs[r] = m.runs[r]
      /\ new.lists = DropNodes(mid, old)
  BY DEF IsRelease
<1>4. \A r \in DOMAIN m.runs : r \in DOMAIN new.runs <=> m.runs[r].container # c
  BY <1>3 DEF RunsOf
<1>5. /\ \A r \in DOMAIN m.runs : m.runs[r].splitting # 0 => r \in DOMAIN new.runs
      /\ \A r \in DOMAIN new.runs : m.runs[r].container \in DOMAIN new.containers
  BY <1>1, <1>2, <1>3, <1>4 DEF Sane
<1>6. n \in S /\ g[n] # n /\ n \in old
  BY RootsFacts, NodesDiffer DEF Memory
<1>7. \A x \in old : x \notin out \/ x \notin NodeSet(m)
  <2> SUFFICES ASSUME NEW x \in old, x \in out, x \in NodeSet(m) PROVE FALSE
    OBVIOUS
  <2>1. PICK r \in DOMAIN m.runs : x = RunNode(r) /\ m.runs[r].splitting # 0
    OBVIOUS
  <2>2. \A q \in RunsOf(m, c) : RunNode(q) = RunNode(r) => q = r
    BY NodesDiffer
  <2> QED BY <2>1, <2>2, <1>2, NodesDiffer DEF Memory
<1>8. \A x \in S : x \in old /\ x # n <=> g[x] = EmptyRuns(c)
  <2> SUFFICES ASSUME NEW x \in S PROVE x \in old /\ x # n <=> g[x] = EmptyRuns(c)
    OBVIOUS
  <2>1. ASSUME x \in old, x # n PROVE g[x] = EmptyRuns(c)
    <3>1. CASE x = EmptyRuns(c)
      BY <3>1, RootsFacts
    <3>2. CASE \E r \in RunsOf(m, c) : x = RunNode(r)
      BY <3>2, <1>2, RootsFacts DEF RunRoot
    <3> QED BY <2>1, <3>1, <3>2 DEF Memory
  <2>2. ASSUME g[x] = EmptyRuns(c) PROVE x \in old /\ x # n
    <3>1. x # n
      BY <2>2, RootsFacts, NodesDiffer
    <3>2. x = EmptyRuns(c) \/ \E r \in DOMAIN m.runs : x = RunNode(r) /\ m.runs[r].container = c
      BY <2>2, <1>1, MemberFacts
    <3> QED BY <3>1, <3>2 DEF Memory, RunsOf
  <2> QED BY <2>1, <2>2
<1>9. NodeSet(new) = NodeSet(m) \ old
  <2>1. ASSUME NEW x \in NodeSet(new) PROVE x \in NodeSet(m) /\ x \notin old
    <3>1. CASE x = Containers \/ \E k \in Classes : x = InUse(k)
      BY <3>1, RootsFacts, NodesDiffer DEF Memory
    <3>2. CASE \E r \in DOMAIN new.runs : x = RunNode(r)
      <4>1. PICK r \in DOMAIN new.runs : x = RunNode(r)
        BY <3>2
      <4>2. r \in DOMAIN m.runs /\ r \notin RunsOf(m, c)
        BY <1>3
      <4> QED BY <4>1, <4>2, RootsFacts, NodesDiffer DEF Memory
    <3>3. CASE \E d \in DOMAIN new.containers : x = ContainerNode(d) \/ x = EmptyRuns(d)
      <4>1. PICK d \in DOMAIN m.containers : d # c /\ (x = ContainerNode(d) \/ x = EmptyRuns(d))
        BY <3>3, <1>3
      <4> QED BY <4>1, RootsFacts, NodesDiffer DEF Memory
    <3> QED BY <3>1, <3>2, <3>3 DEF NodeSet
  <2>2. ASSUME NEW x \in NodeSet(m), x \notin old PROVE x \in NodeSet(new)
    <3>1. CASE x = Containers \/ \E k \in Classes : x = InUse(k)
      BY <3>1, RootsFacts
    <3>2. CASE \E r \in DOMAIN m.runs : x = RunNode(r)
      BY <3>2, <2>2, <1>3, RootsFacts DEF Memory
    <3>3. CASE \E d \in DOMAIN m.containers : x = ContainerNode(d) \/ x = EmptyRuns(d)
      BY <3>3, <2>2, <1>3, RootsFacts DEF Memory
    <3> QED BY <3>1, <3>2, <3>3 DEF NodeSet
  <2> QED BY <2>1, <2>2
<1>10. \A x \in NodeSet(new) : h[x] = g[x]
  <2> SUFFICES ASSUME NEW x \in NodeSet(new) PROVE h[x] = g[x]
    OBVIOUS
  <2>1. CASE x = Containers \/ \E k \in Classes : x = InUse(k)
    BY <2>1, RootsFacts
  <2>2. CASE \E r \in DOMAIN new.runs : x = RunNode(r)
    <3>1. PICK r \in DOMAIN new.runs : x = RunNode(r)
      BY <2>2
    <3>2. r \in DOMAIN m.runs /\ new.runs[r] = m.runs[r]
      BY <1>3
    <3>3. RunRoot(new, r) = RunRoot(m, r)
      BY <3>2 DEF RunRoot
    <3> QED BY <3>1, <3>2, <3>3, RootsFacts
  <2>3. CASE \E d \in DOMAIN new.containers : x = ContainerNode(d) \/ x = EmptyRuns(d)
    BY <2>3, <1>3, RootsFacts
  <2> QED BY <2>1, <2>2, <2>3 DEF NodeSet
<1>11. InRings(ls, S, g)
  BY <1>1 DEF Listed
<1> HIDE DEF ls, S, g, h, n, old, mid
<1>12. InRings(mid, S \ {n}, g) /\ Nodes(mid) = Nodes(ls)
  BY <1>6, <1>11, RemoveNodeRings DEF mid
<1>13. /\ InRings(DropNodes(mid, old), (S \ {n}) \ old, g)
       /\ Nodes(DropNodes(mid, old)) = Nodes(mid) \ old
  <2> DEFINE T == S \ {n}
  <2>1. \A x, y \in T : g[x] = g[y] => (x \in old <=> y \in old)
    BY <1>8
  <2>2. InRings(mid, T, g)
    BY <1>12
  <2> HIDE DEF T
  <2>3. InRings(DropNodes(mid, old), T \ old, g) /\ Nodes(DropNodes(mid, old)) = Nodes(mid) \ old
    BY <2>1, <2>2, DropNodesRings
  <2> QED BY <2>3 DEF T
<1>14. Nodes(new.lists) = NodeSet(new)
  BY <1>1, <1>3, <1>9, <1>12, <1>13 DEF Sane, ls
<1>15. Listed(new, out)
  <2> DEFINE T  == NodeSet(new) \ out
             nl == new.lists
  <2>1. (S \ {n}) \ old = T
    BY <1>6, <1>9 DEF S
  <2>2. InRings(nl, T, g) /\ \A x \in T : h[x] = g[x]
    BY <2>1, <1>3, <1>10, <1>13
  <2> HIDE DEF T, nl
  <2>3. InRings(nl, T, h)
    BY <2>2, SameRoots
  <2> QED BY <2>3 DEF Listed, T, nl, h
<1>16. Sane(new)
  <2>1. /\ IsFiniteSet(DOMAIN new.runs) /\ DOMAIN new.runs \subseteq Nat
        /\ IsFiniteSet(DOMAIN new.containers) /\ DOMAIN new.containers \subseteq Nat
    <3>1. DOMAIN new.runs \in SUBSET DOMAIN m.runs /\ DOMAIN new.containers \in SUBSET DOMAIN m.containers
      BY <1>3
    <3> QED BY <3>1, <1>1, FS_Subset DEF Sane
  <2>2. /\ new.runs \in [DOMAIN new.runs -> RunRecord]
        /\ new.containers \in [DOMAIN new.containers -> Header]
    BY <1>1 DEF Sane, IsRelease
  <2>3. \A r \in DOMAIN new.runs : new.runs[r].splitting \in Splittings
                                    /\ new.runs[r].container \in DOMAIN new.containers
    BY <1>1, <1>3, <1>5 DEF Sane
  <2> QED BY <2>1, <2>2, <2>3, <1>14 DEF Sane, IsRelease
<1>17. Placed(new)
  BY <1>1, <1>3, <1>5 DEF Placed
<1>18. Counted(new)
  <2> SUFFICES ASSUME NEW d \in DOMAIN new.containers
               PROVE  UsedRuns(new, d) = UsedRuns(m, d)
    BY <1>1, <1>3 DEF Counted
  <2> QED BY <1>3, <1>4 DEF UsedRuns, RunsOf
<1>19. Cells(new.runs, {})
  BY <1>1, <1>3 DEF Cells
<1>20. Held(new.runs, blocks)
  <2>1. \A b \in blocks : HasCell(new.runs, b)
    <3> SUFFICES ASSUME NEW b \in blocks PROVE HasCell(new.runs, b)
      OBVIOUS
    <3>1. HasCell(m.runs, b)
      BY <1>1 DEF Held
    <3>2. RunOf(b.ptr) \in DOMAIN new.runs /\ new.runs[RunOf(b.ptr)] = m.runs[RunOf(b.ptr)]
      BY <3>1, <1>3, <1>5 DEF HasCell
    <3> QED BY <3>1, <3>2 DEF HasCell
  <2> QED BY <2>1, <1>1, <1>3 DEF Held
<1> QED BY <1>3, <1>5, <1>15, <1>16, <1>17, <1>18, <1>19, <1>20 DEF Good

-----------------------------------------------------------------------------
(* The cells of one run                                                    *)

LEMMA CellsFinite ==
    ASSUME NEW run, IsCut(run)
    PROVE  AllCells(run) \in SUBSET Nat /\ IsFiniteSet(AllCells(run))
<1> DEFINE hidden == HiddenEntries(run.skip, run.splitting, run.entries)
           real   == StorageSize \div run.splitting
<1>1. AllCells(run) = hidden .. (real - 1) /\ real \in Nat
  BY CutFacts
<1>2. hidden \in Nat
  <2> DEFINE s == run.splitting
             a == run.skip * EntrySize
             b == BitmapSize(run.entries)
  <2>1. s \in Nat \ {0} /\ a \in Nat
    BY LayoutAssumption DEF IsCut, RunRecord
  <2>3. b \in Nat
    BY CutFacts
  <2> HIDE DEF s, a, b
  <2>2. CeilDiv(a, s) \in Nat /\ CeilDiv(b, s) \in Nat
    BY <2>1, <2>3, CeilDivFacts
  <2> QED BY <2>2 DEF HiddenEntries, RoundedNbEntries, s, a, b
<1> HIDE DEF hidden, real
<1> QED BY <1>1, <1>2, FS_Interval

(* The cells depend only on the splitting and on what the run skips. *)
LEMMA SameCells ==
    ASSUME NEW run, IsCut(run), NEW other \in RunRecord, other.splitting = run.splitting,
           other.skip = run.skip, other.entries = run.entries
    PROVE  IsCut(other) /\ AllCells(other) = AllCells(run)
<1> DEFINE s       == run.splitting
           skip    == run.skip
           real    == StorageSize \div s
           entries == CeilDiv(real, EntryBits) * EntryBits
           cells   == HiddenEntries(skip, s, entries) .. (real - 1)
<1>1. s # 0 /\ run \in RunRecord
  BY DEF IsCut
<1>2. ASSUME NEW x \in RunRecord, x.skip = skip
      PROVE  SetSplitting(x, s).entries = entries /\ SetSplitting(x, s).free = cells
  <2>1. SetSplitting(x, s) = [x EXCEPT !.splitting = s, !.entries = entries, !.free = cells]
    BY <1>1, <1>2 DEF SetSplitting
  <2> HIDE DEF entries, cells
  <2> QED BY <2>1 DEF RunRecord
<1> HIDE DEF entries, cells
<1> QED BY <1>1, <1>2 DEF IsCut, AllCells

(* A run changes and keeps its splitting. *)
LEMMA ChangeCells ==
    ASSUME NEW m, NEW out, NEW fresh, NEW blocks, Good(m, out, fresh, blocks),
           NEW r \in DOMAIN m.runs, NEW run \in RunRecord,
           run.container = m.runs[r].container, run.skip = m.runs[r].skip,
           run.splitting = m.runs[r].splitting, CellsCounted(run),
           NEW after, fresh \ {r} \subseteq after, r \in after \/ run.cntAlloc # 0,
           NEW new, IsMem(new), new.lists = m.lists, new.containers = m.containers,
           new.runs = [m.runs EXCEPT ![r] = run],
           NEW left, Held(new.runs, left)
    PROVE  /\ Good(new, out, after, left)
           /\ DOMAIN new.runs = DOMAIN m.runs /\ new.runs[r] = run
           /\ \A q \in DOMAIN m.runs : q # r => new.runs[q] = m.runs[q]
<1>1. Sane(m) /\ Listed(m, out) /\ Placed(m) /\ Counted(m) /\ Cells(m.runs, fresh)
  BY DEF Good
<1>2. run.splitting \in Splittings
  BY <1>1 DEF Sane
<1>3. /\ Sane(new) /\ Placed(new) /\ Listed(new, out)
      /\ DOMAIN new.runs = DOMAIN m.runs /\ new.runs[r] = run
      /\ \A q \in DOMAIN m.runs : q # r => new.runs[q] = m.runs[q]
      /\ \A c : RunsOf(new, c) = RunsOf(m, c)
  BY <1>1, <1>2, UpdateRun
<1>4. \A c : UsedRuns(new, c) = UsedRuns(m, c)
  BY <1>3 DEF UsedRuns, RunsOf
<1>5. Counted(new)
  BY <1>1, <1>4 DEF Counted
<1>6. Cells(new.runs, after)
  BY <1>1, <1>3 DEF Cells
<1> QED BY <1>3, <1>5, <1>6 DEF Good

(* malloc in a run: the block has a cell that was free. *)
IsMalloc(m, new, r) ==
    /\ IsMem(new)
    /\ new.runs = [m.runs EXCEPT ![r] = RunMalloc(m.runs[r])]
    /\ new.containers = m.containers
    /\ new.lists = m.lists

FreePtr(m, r) == CellPtr(r, m.runs[r], FirstFree(m.runs[r]))

(* The block is new, and nothing else changed but its run.                  *)
Handed(m, new, blocks, ptr, size) ==
    /\ Block(ptr, size) \in BlockRecord
    /\ \A a \in blocks : a.ptr # ptr
    /\ ptr # NULL
    /\ DOMAIN new.runs = DOMAIN m.runs /\ new.containers = m.containers
    /\ \A q \in DOMAIN m.runs : new.runs[q].splitting = m.runs[q].splitting

LEMMA TakeCell ==
    ASSUME NEW m, NEW out, NEW fresh, NEW blocks, Good(m, out, fresh, blocks),
           NEW r \in DOMAIN m.runs, m.runs[r].splitting # 0, m.runs[r].free # {},
           NEW size \in 1..128, size <= m.runs[r].splitting,
           NEW new, IsMalloc(m, new, r)
    PROVE  /\ Good(new, out, fresh \ {r}, blocks \union {Block(FreePtr(m, r), size)})
           /\ Handed(m, new, blocks, FreePtr(m, r), size)
<1> DEFINE ptr  == FreePtr(m, r)
           run  == m.runs[r]
           id   == FirstFree(run)
           next == RunMalloc(run)
           b    == Block(ptr, size)
           used == AllCells(run) \ run.free
           left == blocks \union {b}
<1>1. /\ Sane(m) /\ Cells(m.runs, fresh) /\ Held(m.runs, blocks)
      /\ r \in Nat /\ r % RunSize = 0
  <2>1. Sane(m) /\ Cells(m.runs, fresh) /\ Held(m.runs, blocks) /\ Placed(m)
    BY DEF Good
  <2>2. r \in Nat
    BY <2>1 DEF Sane
  <2>3. r % RunSize = 0
    BY <2>1 DEF Placed, RunPlaced, FirstRuns
  <2> QED BY <2>1, <2>2, <2>3
<1>2. /\ run \in RunRecord /\ IsCut(run) /\ run.free \subseteq AllCells(run) /\ run.splitting # 0
      /\ run.cntAlloc = Cardinality(AllCells(run) \ run.free) /\ run.free # {}
  <2>1. CellsCounted(m.runs[r])
    BY <1>1 DEF Cells
  <2> QED BY <2>1 DEF CellsCounted, IsCut
<1>3. AllCells(run) \in SUBSET Nat /\ IsFiniteSet(AllCells(run))
  <2> HIDE DEF run
  <2> QED BY <1>2, CellsFinite
<1>4. id \in run.free
  <2> HIDE DEF run
  <2>1. run.free \in SUBSET Nat
    BY <1>2, <1>3
  <2> QED BY <2>1, <1>2, FirstFreeFacts
<1>5. ptr = CellPtr(r, run, id)
  BY DEF FreePtr
<1> HIDE DEF id, ptr
<1>6. /\ next \in RunRecord /\ next.free = run.free \ {id} /\ next.cntAlloc = run.cntAlloc + 1
      /\ next.container = run.container /\ next.skip = run.skip
      /\ next.splitting = run.splitting /\ next.entries = run.entries
  <2> DEFINE free == run.free \ {id}
             cnt  == run.cntAlloc + 1
  <2>1. next = [run EXCEPT !.free = free, !.cntAlloc = cnt]
    BY DEF RunMalloc, id
  <2>5. free \in SUBSET Int /\ cnt \in Int
    BY <1>2 DEF RunRecord
  <2> HIDE DEF next, run, free, cnt
  <2>2. next \in RunRecord
    BY <2>1, <2>5, <1>2 DEF RunRecord
  <2>6. next.free = free /\ next.cntAlloc = cnt
    BY <2>1, <1>2 DEF RunRecord
  <2>3. next.free = run.free \ {id} /\ next.cntAlloc = run.cntAlloc + 1
    BY <2>6 DEF free, cnt
  <2>4. /\ next.container = run.container /\ next.skip = run.skip
        /\ next.splitting = run.splitting /\ next.entries = run.entries
    BY <2>1, <1>2 DEF RunRecord
  <2> QED BY <2>2, <2>3, <2>4
<1> HIDE DEF next
<1>7. IsCut(next) /\ AllCells(next) = AllCells(run)
  <2> HIDE DEF run
  <2> QED BY <1>2, <1>6, SameCells
<1>8. CellsCounted(next) /\ next.cntAlloc # 0
  <2>1. IsFiniteSet(used) /\ id \notin used
    BY <1>3, <1>4, FS_Difference
  <2>2. AllCells(next) \ next.free = used \union {id}
    BY <1>2, <1>4, <1>6, <1>7
  <2> HIDE DEF used, run
  <2>3. Cardinality(used \union {id}) = Cardinality(used) + 1 /\ Cardinality(used) \in Nat
    BY <2>1, FS_AddElement, FS_CardinalityType
  <2>6. run.cntAlloc = Cardinality(used)
    BY <1>2 DEF used
  <2>7. next.cntAlloc = run.cntAlloc + 1
    BY <1>6
  <2>8. next.cntAlloc = Cardinality(used) + 1
    BY <2>6, <2>7, Zenon
  <2>9. next.cntAlloc # 0
    BY <2>3, <2>8
  <2>4. next.cntAlloc = Cardinality(AllCells(next) \ next.free) /\ next.cntAlloc # 0
    BY <2>2, <2>3, <2>8, <2>9, Zenon
  <2>5. next.splitting # 0 /\ next.free \subseteq AllCells(next)
    BY <1>2, <1>6, <1>7
  <2> QED BY <2>4, <2>5, <1>7 DEF CellsCounted
<1>9. /\ id \in Nat /\ ptr \in Nat /\ CellOf(r, run, ptr) = id /\ RunOf(ptr) = r
  <2>1. id \in AllCells(run)
    BY <1>2, <1>4
  <2> HIDE DEF run
  <2> QED BY <1>1, <1>2, <1>5, <2>1, CellFacts
<1>10. \A x : CellPtr(r, next, x) = CellPtr(r, run, x) /\ CellOf(r, next, x) = CellOf(r, run, x)
  BY <1>6 DEF CellPtr, CellOf
<1>11. b.ptr = ptr /\ b.size = size /\ b \in BlockRecord
  BY <1>9 DEF Block, BlockRecord
<1>12. /\ new.runs = [m.runs EXCEPT ![r] = next]
       /\ DOMAIN new.runs = DOMAIN m.runs /\ new.runs[r] = next
       /\ \A q \in DOMAIN m.runs : q # r => new.runs[q] = m.runs[q]
  BY DEF IsMalloc, next
<1> HIDE DEF b
<1>13. \A a \in blocks : a.ptr # ptr
  <2> SUFFICES ASSUME NEW a \in blocks, a.ptr = ptr PROVE FALSE
    OBVIOUS
  <2>1. HasCell(m.runs, a)
    BY <1>1 DEF Held
  <2>2. id \notin run.free
    BY <2>1, <1>9 DEF HasCell
  <2> QED BY <2>2, <1>4
<1>14. Held(new.runs, left)
  <2>1. ASSUME NEW a \in blocks PROVE HasCell(new.runs, a)
    <3>1. HasCell(m.runs, a)
      BY <1>1 DEF Held
    <3>2. CASE RunOf(a.ptr) = r
      <4>1. /\ a \in BlockRecord /\ a.size <= run.splitting
            /\ CellOf(r, run, a.ptr) \in AllCells(run) /\ CellOf(r, run, a.ptr) \notin run.free
            /\ a.ptr = CellPtr(r, run, CellOf(r, run, a.ptr))
        BY <3>1, <3>2 DEF HasCell
      <4>2. /\ a.size <= next.splitting /\ next.splitting # 0
            /\ CellOf(r, next, a.ptr) \in AllCells(next) /\ CellOf(r, next, a.ptr) \notin next.free
            /\ a.ptr = CellPtr(r, next, CellOf(r, next, a.ptr))
        BY <4>1, <1>2, <1>6, <1>7, <1>10
      <4> QED BY <3>2, <4>1, <4>2, <1>12 DEF HasCell
    <3>3. CASE RunOf(a.ptr) # r
      <4>1. new.runs[RunOf(a.ptr)] = m.runs[RunOf(a.ptr)]
        BY <3>1, <3>3, <1>12 DEF HasCell
      <4> QED BY <3>1, <4>1, <1>12 DEF HasCell
    <3> QED BY <3>2, <3>3
  <2>2. HasCell(new.runs, b)
    <3>1. /\ b.size <= next.splitting /\ next.splitting # 0
          /\ CellOf(r, next, b.ptr) \in AllCells(next) /\ CellOf(r, next, b.ptr) \notin next.free
          /\ b.ptr = CellPtr(r, next, CellOf(r, next, b.ptr))
      BY <1>2, <1>4, <1>5, <1>6, <1>7, <1>9, <1>10, <1>11
    <3> QED BY <3>1, <1>9, <1>11, <1>12 DEF HasCell
  <2>3. \A a, c \in left : a.ptr = c.ptr => a = c
    BY <1>1, <1>11, <1>13 DEF Held
  <2>4. ASSUME NEW q \in DOMAIN m.runs, new.runs[q].splitting # 0,
               NEW x \in AllCells(new.runs[q]), x \notin new.runs[q].free
        PROVE  \E a \in left : a.ptr = CellPtr(q, new.runs[q], x)
    <3>1. CASE q # r
      BY <3>1, <2>4, <1>1, <1>12 DEF Held
    <3>2. CASE q = r /\ x = id
      BY <3>2, <1>5, <1>10, <1>11, <1>12
    <3>3. CASE q = r /\ x # id
      <4>1. x \in AllCells(run) /\ x \notin run.free
        BY <3>3, <2>4, <1>6, <1>7, <1>12
      <4>2. \E a \in blocks : a.ptr = CellPtr(r, run, x)
        BY <4>1, <1>1 DEF Held
      <4> QED BY <4>2, <3>3, <1>10, <1>12
    <3> QED BY <3>1, <3>2, <3>3
  <2> QED BY <2>1, <2>2, <2>3, <2>4, <1>12 DEF Held
<1>15. /\ Good(new, out, fresh \ {r}, left)
  <2> DEFINE after == fresh \ {r}
  <2>1. fresh \ {r} \subseteq after
    OBVIOUS
  <2>2. IsMem(new) /\ new.lists = m.lists /\ new.containers = m.containers
    BY DEF IsMalloc
  <2>3. next.container = m.runs[r].container /\ next.skip = m.runs[r].skip /\ next.splitting = m.runs[r].splitting
    BY <1>6
  <2>5. r \in after \/ next.cntAlloc # 0
    BY <1>8
  <2>6. next \in RunRecord /\ CellsCounted(next) /\ new.runs = [m.runs EXCEPT ![r] = next]
    BY <1>6, <1>8, <1>12
  <2> HIDE DEF after, left, run, next
  <2>4. Good(new, out, after, left)
    BY <2>1, <2>2, <2>3, <2>5, <2>6, <1>14, ChangeCells
  <2> QED BY <2>4 DEF after
<1>16. \A q \in DOMAIN m.runs : new.runs[q].splitting = m.runs[q].splitting
  BY <1>6, <1>12
<1>17. ptr # NULL
  BY <1>9, NullAssumption
<1>18. Handed(m, new, blocks, ptr, size)
  BY <1>11, <1>12, <1>13, <1>16, <1>17 DEF b, IsMalloc, Handed
<1> QED BY <1>15, <1>18 DEF b, ptr

(* free in a run: the cell of the block is free again. *)
IsFree(m, new, r, b) ==
    /\ r = RunOf(b.ptr)
    /\ IsMem(new)
    /\ new.runs = [m.runs EXCEPT ![r] = RunFree(m.runs[r], CellOf(r, m.runs[r], b.ptr))]
    /\ new.containers = m.containers
    /\ new.lists = m.lists

Returned(m, new, r) ==
    /\ r \in DOMAIN m.runs /\ m.runs[r].splitting # 0
    /\ DOMAIN new.runs = DOMAIN m.runs /\ new.containers = m.containers
    /\ \A q \in DOMAIN m.runs : /\ new.runs[q].splitting = m.runs[q].splitting
                                /\ new.runs[q].container = m.runs[q].container

LEMMA GiveCell ==
    ASSUME NEW m, NEW out, NEW blocks, Good(m, out, {}, blocks),
           NEW b \in blocks, NEW new, NEW r, IsFree(m, new, r, b)
    PROVE  /\ Good(new, out, {r}, blocks \ {b})
           /\ new.runs[r].cntAlloc # 0 => Good(new, out, {}, blocks \ {b})
           /\ new.runs[r].cntAlloc = 0 => \A a \in blocks \ {b} : RunOf(a.ptr) # r
           /\ Returned(m, new, r)
<1> DEFINE run  == m.runs[r]
           id   == CellOf(r, run, b.ptr)
           next == RunFree(run, id)
           used == AllCells(run) \ run.free
           left == blocks \ {b}
<1>1. Sane(m) /\ Cells(m.runs, {}) /\ Held(m.runs, blocks)
  BY DEF Good
<1>2. RunOf(b.ptr) = r
  BY DEF IsFree
<1>3. /\ r \in DOMAIN m.runs /\ run.splitting # 0
      /\ id \in AllCells(run) /\ id \notin run.free
      /\ b.ptr = CellPtr(r, run, id)
  BY <1>1, <1>2 DEF Held, HasCell
<1>4. /\ run \in RunRecord /\ IsCut(run) /\ run.free \subseteq AllCells(run)
      /\ run.cntAlloc = Cardinality(used)
  <2>1. CellsCounted(m.runs[r])
    BY <1>1, <1>3 DEF Cells
  <2> QED BY <2>1, <1>3 DEF CellsCounted, IsCut
<1>12. /\ new.runs = [m.runs EXCEPT ![r] = next]
       /\ DOMAIN new.runs = DOMAIN m.runs /\ new.runs[r] = next
       /\ \A q \in DOMAIN m.runs : q # r => new.runs[q] = m.runs[q]
  BY <1>3 DEF IsFree, next
<1> HIDE DEF id, next
<1>5. AllCells(run) \in SUBSET Nat /\ IsFiniteSet(AllCells(run))
  <2> HIDE DEF run
  <2> QED BY <1>4, CellsFinite
<1>6. /\ next \in RunRecord /\ next.free = run.free \union {id} /\ next.cntAlloc = run.cntAlloc - 1
      /\ next.container = run.container /\ next.skip = run.skip
      /\ next.splitting = run.splitting /\ next.entries = run.entries
  <2> DEFINE free == run.free \union {id}
             cnt  == run.cntAlloc - 1
  <2>1. next = [run EXCEPT !.free = free, !.cntAlloc = cnt]
    BY DEF RunFree, next
  <2>5. free \in SUBSET Int /\ cnt \in Int
    BY <1>3, <1>4, <1>5 DEF RunRecord
  <2> HIDE DEF run, free, cnt
  <2>2. next \in RunRecord
    BY <2>1, <2>5, <1>4 DEF RunRecord
  <2>6. next.free = free /\ next.cntAlloc = cnt
    BY <2>1, <1>4 DEF RunRecord
  <2>3. next.free = run.free \union {id} /\ next.cntAlloc = run.cntAlloc - 1
    BY <2>6 DEF free, cnt
  <2>4. /\ next.container = run.container /\ next.skip = run.skip
        /\ next.splitting = run.splitting /\ next.entries = run.entries
    BY <2>1, <1>4 DEF RunRecord
  <2> QED BY <2>2, <2>3, <2>4
<1>7. IsCut(next) /\ AllCells(next) = AllCells(run)
  <2> HIDE DEF run
  <2> QED BY <1>4, <1>6, SameCells
<1>8. CellsCounted(next) /\ (next.cntAlloc = 0 => AllCells(next) \ next.free = {})
  <2>1. IsFiniteSet(used) /\ id \in used
    BY <1>3, <1>5, FS_Difference
  <2>2. AllCells(next) \ next.free = used \ {id}
    BY <1>6, <1>7
  <2>5. next.splitting # 0 /\ next.free \subseteq AllCells(next)
    BY <1>3, <1>4, <1>6, <1>7
  <2> HIDE DEF used, run
  <2>3. Cardinality(used \ {id}) = Cardinality(used) - 1 /\ IsFiniteSet(used \ {id})
    BY <2>1, FS_RemoveElement
  <2>6. next.cntAlloc = Cardinality(used) - 1
    BY <1>4, <1>6, Zenon
  <2>7. next.cntAlloc = Cardinality(used \ {id})
    BY <2>3, <2>6, Zenon
  <2>8. next.cntAlloc = Cardinality(AllCells(next) \ next.free)
    BY <2>2, <2>7, Zenon
  <2>9. Cardinality(used \ {id}) = 0 => used \ {id} = {}
    <3> DEFINE T == used \ {id}
    <3>1. IsFiniteSet(T)
      BY <2>3
    <3> HIDE DEF T
    <3>2. Cardinality(T) = 0 => T = {}
      BY <3>1, FS_EmptySet
    <3> QED BY <3>2 DEF T
  <2>10. next.cntAlloc = 0 => AllCells(next) \ next.free = {}
    BY <2>2, <2>7, <2>9, Zenon
  <2> QED BY <2>5, <2>8, <2>10, <1>7 DEF CellsCounted
<1>10. \A x : CellPtr(r, next, x) = CellPtr(r, run, x) /\ CellOf(r, next, x) = CellOf(r, run, x)
  BY <1>6 DEF CellPtr, CellOf
<1>13. ASSUME NEW a \in left, RunOf(a.ptr) = r
       PROVE  /\ HasCell(m.runs, a)
              /\ CellOf(r, next, a.ptr) \in AllCells(next) /\ CellOf(r, next, a.ptr) \notin next.free
  <2>1. HasCell(m.runs, a)
    BY <1>1 DEF Held
  <2>2. /\ CellOf(r, run, a.ptr) \in AllCells(run) /\ CellOf(r, run, a.ptr) \notin run.free
        /\ a.ptr = CellPtr(r, run, CellOf(r, run, a.ptr))
    BY <2>1, <1>13 DEF HasCell
  <2>3. a.ptr # b.ptr
    BY <1>1 DEF Held
  <2>4. CellOf(r, run, a.ptr) # id
    BY <2>2, <2>3, <1>3
  <2> QED BY <2>1, <2>2, <2>4, <1>6, <1>7, <1>10
<1>14. Held(new.runs, left)
  <2>1. ASSUME NEW a \in left PROVE HasCell(new.runs, a)
    <3>1. HasCell(m.runs, a)
      BY <1>1 DEF Held
    <3>2. CASE RunOf(a.ptr) = r
      <4>1. /\ a \in BlockRecord /\ a.size <= run.splitting
            /\ a.ptr = CellPtr(r, run, CellOf(r, run, a.ptr))
        BY <3>1, <3>2 DEF HasCell
      <4>2. /\ a.size <= next.splitting /\ next.splitting # 0
            /\ CellOf(r, next, a.ptr) \in AllCells(next) /\ CellOf(r, next, a.ptr) \notin next.free
            /\ a.ptr = CellPtr(r, next, CellOf(r, next, a.ptr))
        BY <4>1, <3>2, <1>3, <1>6, <1>10, <1>13
      <4> QED BY <3>2, <4>1, <4>2, <1>3, <1>12 DEF HasCell
    <3>3. CASE RunOf(a.ptr) # r
      <4>1. new.runs[RunOf(a.ptr)] = m.runs[RunOf(a.ptr)]
        BY <3>1, <3>3, <1>12 DEF HasCell
      <4> QED BY <3>1, <4>1, <1>12 DEF HasCell
    <3> QED BY <3>2, <3>3
  <2>2. \A a, c \in left : a.ptr = c.ptr => a = c
    BY <1>1 DEF Held
  <2>3. ASSUME NEW q \in DOMAIN m.runs, new.runs[q].splitting # 0,
               NEW x \in AllCells(new.runs[q]), x \notin new.runs[q].free
        PROVE  \E a \in left : a.ptr = CellPtr(q, new.runs[q], x)
    <3>1. CASE q # r
      <4>1. m.runs[q].splitting # 0 /\ x \in AllCells(m.runs[q]) /\ x \notin m.runs[q].free
        BY <3>1, <2>3, <1>12
      <4>2. PICK a \in blocks : a.ptr = CellPtr(q, m.runs[q], x)
        BY <4>1, <1>1 DEF Held
      <4>3. RunOf(a.ptr) = q
        <5>1. IsCut(m.runs[q]) /\ q \in Nat
          BY <4>1, <1>1 DEF Cells, CellsCounted, Sane
        <5>2. q % RunSize = 0
          BY DEF Good, Placed, RunPlaced, FirstRuns
        <5> DEFINE other == m.runs[q]
        <5>3. IsCut(other) /\ x \in AllCells(other) /\ a.ptr = CellPtr(q, other, x)
          BY <4>1, <4>2, <5>1
        <5> HIDE DEF other
        <5> QED BY <5>1, <5>2, <5>3, CellFacts
      <4>4. a \in left
        BY <4>3, <3>1, <1>2
      <4> QED BY <4>2, <4>4, <3>1, <1>12
    <3>2. CASE q = r
      <4>1. x \in AllCells(run) /\ x \notin run.free /\ x # id
        BY <3>2, <2>3, <1>6, <1>7, <1>12
      <4>2. PICK a \in blocks : a.ptr = CellPtr(r, run, x)
        BY <4>1, <1>1, <1>3 DEF Held
      <4>3. CellOf(r, run, a.ptr) = x
        <5>1. r \in Nat /\ r % RunSize = 0
          BY <1>1, <1>3 DEF Sane, Good, Placed, RunPlaced, FirstRuns
        <5> HIDE DEF run
        <5> QED BY <5>1, <4>1, <4>2, <1>4, CellFacts
      <4>4. a \in left
        BY <4>1, <4>3 DEF id
      <4> QED BY <4>2, <4>4, <3>2, <1>10, <1>12
    <3> QED BY <3>1, <3>2
  <2> QED BY <2>1, <2>2, <2>3, <1>12 DEF Held
<1>15. ASSUME NEW after, r \in after \/ next.cntAlloc # 0
       PROVE  Good(new, out, after, left)
  <2> DEFINE none == {}
  <2>1. Good(m, out, none, blocks) /\ none \ {r} \subseteq after /\ r \in DOMAIN m.runs
    BY <1>3
  <2>2. IsMem(new) /\ new.lists = m.lists /\ new.containers = m.containers
    BY DEF IsFree
  <2>3. next.container = m.runs[r].container /\ next.skip = m.runs[r].skip /\ next.splitting = m.runs[r].splitting
    BY <1>6
  <2>6. next \in RunRecord /\ CellsCounted(next) /\ new.runs = [m.runs EXCEPT ![r] = next]
    BY <1>6, <1>8, <1>12
  <2> HIDE DEF left, run, none
  <2> QED BY <2>1, <2>2, <2>3, <2>6, <1>14, <1>15, ChangeCells
<1>16. \A q \in DOMAIN m.runs : /\ new.runs[q].splitting = m.runs[q].splitting
                                /\ new.runs[q].container = m.runs[q].container
  BY <1>6, <1>12
<1>17. new.runs[r].cntAlloc = 0 => \A a \in left : RunOf(a.ptr) # r
  BY <1>8, <1>12, <1>13
<1>18. Returned(m, new, r)
  BY <1>3, <1>12, <1>16 DEF IsFree, Returned
<1> QED BY <1>12, <1>15, <1>17, <1>18

-----------------------------------------------------------------------------
(* A new container                                                         *)

LEMMA FirstRunsCount ==
    ASSUME NEW c, NEW size, IsGiven(c, size)
    PROVE  /\ IsFiniteSet(FirstRuns(c, size))
           /\ Cardinality(FirstRuns(c, size)) = Total(c, size)
           /\ Total(c, size) \in Nat
<1> DEFINE start(i) == First(c) + (i - 1) * RunSize
           N == Total(c, size)
           f == [i \in 1..N |-> start(i)]
           R == FirstRuns(c, size)
<1>1. /\ N \in Nat /\ R = {start(i) : i \in 1..N}
      /\ \A i, j \in 1..N : start(i) = start(j) => i = j
  BY FirstRunsFacts
<1>2. IsFiniteSet(1..N) /\ Cardinality(1..N) = N
  BY <1>1, FS_Interval
<1> HIDE DEF start, N, R
<1> DEFINE A == 1..N
<1>3. f \in [A -> R] /\ \A i \in A : f[i] = start(i)
  BY <1>1
<1>4. IsFiniteSet(A) /\ \A i, j \in A : f[i] = f[j] => i = j
  BY <1>1, <1>2, <1>3
<1>6. \A x \in R : \E i \in A : f[i] = x
  BY <1>1, <1>3
<1> HIDE DEF f, A
<1>7. f \in Bijection(A, R)
  BY <1>3, <1>4, <1>6 DEF Bijection, Injection, Surjection, IsInjective
<1>5. IsFiniteSet(R) /\ Cardinality(R) = Cardinality(A)
  BY <1>4, <1>7, FS_Bijection DEF ExistsBijection
<1> QED BY <1>1, <1>2, <1>5 DEF A, R, N

(* Containers apart have no run in common, though the first run of one may  *)
(* begin before it.                                                         *)
LEMMA RunsApart ==
    ASSUME NEW c, NEW size, IsGiven(c, size), NEW d, NEW sizeD, IsGiven(d, sizeD),
           MemoryApart(c, size, d, sizeD), NEW r \in FirstRuns(c, size)
    PROVE  r \notin FirstRuns(d, sizeD)
<1>1. ASSUME NEW a, NEW n, IsGiven(a, n), NEW q \in FirstRuns(a, n)
      PROVE  /\ a \in Nat /\ n \in Nat /\ q \in Nat /\ a < q + RunSize /\ q + RunSize <= a + n
             /\ RunSize \in Nat
  <2>1. PICK i \in 1 .. Total(a, n) : q = First(a) + (i - 1) * RunSize
    BY <1>1, FirstRunsFacts
  <2>2. q \in Nat /\ q >= First(a) /\ q + RunSize <= a + n
    BY <1>1, <2>1, FirstRunsFacts
  <2>3. First(a) \in Nat /\ a < First(a) + StorageSize
    BY <1>1, FirstRunsFacts
  <2> QED BY <1>1, <2>2, <2>3, GivenFacts, LayoutAssumption
<1> SUFFICES ASSUME r \in FirstRuns(d, sizeD) PROVE FALSE
  OBVIOUS
<1>2. /\ c \in Nat /\ size \in Nat /\ r \in Nat /\ c < r + RunSize /\ r + RunSize <= c + size
      /\ RunSize \in Nat
  BY <1>1
<1>3. /\ d \in Nat /\ sizeD \in Nat /\ d < r + RunSize /\ r + RunSize <= d + sizeD
  BY <1>1
<1> QED BY <1>2, <1>3 DEF MemoryApart

NewNodes(ptr, size) ==
    {ContainerNode(ptr), EmptyRuns(ptr)} \union {RunNode(r) : r \in FirstRuns(ptr, size)}

(* fill adds a container with its runs, which are all empty. *)
IsAdd(m, new, ptr, size) ==
    /\ IsMem(new)
    /\ new.runs = [r \in DOMAIN m.runs \union FirstRuns(ptr, size) |->
                     IF r \in FirstRuns(ptr, size) THEN NewRun(Skipped(r, ptr), ptr)
                     ELSE m.runs[r]]
    /\ new.containers = [c \in DOMAIN m.containers \union {ptr} |->
                           IF c = ptr THEN [size |-> size, reservedRuns |-> 0]
                           ELSE m.containers[c]]
    /\ \E put : /\ IsPutOfRuns(put, AddNodes(m.lists, NewNodes(ptr, size)), EmptyRuns(ptr),
                               First(ptr), Cardinality(FirstRuns(ptr, size)))
                /\ new.lists = PutLast(put[Cardinality(FirstRuns(ptr, size))],
                                       Containers, ContainerNode(ptr))

LEMMA AddContainerAdds ==
    ASSUME NEW m, NEW ptr, NEW size, IsGiven(ptr, size)
    PROVE  IsAdd(m, AddContainer(m, ptr, size), ptr, size)
<1> DEFINE N     == Cardinality(FirstRuns(ptr, size))
           ls    == AddNodes(m.lists, NewNodes(ptr, size))
           root  == EmptyRuns(ptr)
           first == RunOf(ptr + ContainerSize)
           put   == CHOOSE put : put = [n \in 0..N |->
                      IF n = 0 THEN ls
                      ELSE PutFirst(put[n - 1], root, RunNode(first + (n - 1) * RunSize))]
           runs  == [r \in DOMAIN m.runs \union FirstRuns(ptr, size) |->
                       IF r \in FirstRuns(ptr, size) THEN NewRun(Skipped(r, ptr), ptr)
                       ELSE m.runs[r]]
           containers == [c \in DOMAIN m.containers \union {ptr} |->
                            IF c = ptr THEN [size |-> size, reservedRuns |-> 0]
                            ELSE m.containers[c]]
<1>1. Setup(m, ptr, size) = [runs |-> runs, containers |-> containers, lists |-> put[N]]
  BY Zenon DEF Setup, Skipped, NewNodes
<1>2. N \in Nat
  BY FirstRunsCount
<1>3. IsPutOfRuns(put, ls, root, First(ptr), N)
  <2>1. \E f : IsPutOfRuns(f, ls, root, first, N)
    <3> HIDE DEF N, ls, root, first
    <3> QED BY <1>2, PutOfRunsExists
  <2>2. \E f : f = [n \in 0..N |-> IF n = 0 THEN ls
                                   ELSE PutFirst(f[n - 1], root, RunNode(first + (n - 1) * RunSize))]
    BY <2>1, Zenon DEF IsPutOfRuns
  <2>3. put = [n \in 0..N |-> IF n = 0 THEN ls
                              ELSE PutFirst(put[n - 1], root, RunNode(first + (n - 1) * RunSize))]
    BY <2>2, Zenon
  <2>4. first = First(ptr)
    BY DEF First
  <2> HIDE DEF put, first, N, ls, root
  <2> QED BY <2>3, <2>4, Zenon DEF IsPutOfRuns
<1> HIDE DEF put, runs, containers
<1> DEFINE after == PutLast(put[N], Containers, ContainerNode(ptr))
           new   == [runs |-> runs, containers |-> containers, lists |-> after]
<1>4. AddContainer(m, ptr, size) = new
  BY <1>1 DEF AddContainer
<1>5. IsMem(new) /\ new.runs = runs /\ new.containers = containers /\ new.lists = after
  BY DEF IsMem
<1> HIDE DEF new
<1>6. IsAdd(m, new, ptr, size)
  BY <1>3, <1>5 DEF IsAdd, runs, containers
<1> QED BY <1>4, <1>6

LEMMA NewRunFacts ==
    ASSUME NEW r \in Nat, NEW ptr \in Nat
    PROVE  LET run == NewRun(Skipped(r, ptr), ptr)
           IN  /\ run \in RunRecord /\ run.cntAlloc = 0 /\ run.splitting = 0
               /\ run.container = ptr /\ run.skip = CeilDiv(Skipped(r, ptr), EntrySize)
<1> DEFINE skip == CeilDiv(Skipped(r, ptr), EntrySize)
           run  == NewRun(Skipped(r, ptr), ptr)
<1>1. skip \in Nat
  <2> DEFINE n == Skipped(r, ptr)
  <2>1. n \in Nat
    <3>1. ContainerSize \in Nat
      BY ContainerAssumption, LayoutAssumption
    <3> QED BY <3>1 DEF Skipped
  <2> HIDE DEF n
  <2>2. CeilDiv(n, EntrySize) \in Nat
    BY <2>1, LayoutAssumption, CeilDivFacts
  <2> QED BY <2>2 DEF n
<1>2. run = [cntAlloc |-> 0, skip |-> skip, splitting |-> 0, entries |-> 0, free |-> {},
             container |-> ptr]
  BY DEF NewRun
<1> HIDE DEF skip, run
<1>3. run \in RunRecord
  BY <1>1, <1>2 DEF RunRecord
<1>4. run.cntAlloc = 0 /\ run.splitting = 0 /\ run.container = ptr /\ run.skip = skip
  BY <1>2
<1> QED BY <1>3, <1>4 DEF run, skip

AddedTo(m, new, ptr, size) ==
    /\ ptr \notin DOMAIN m.containers
    /\ DOMAIN new.containers = DOMAIN m.containers \union {ptr}
    /\ \A c \in DOMAIN m.containers : new.containers[c] = m.containers[c]
    /\ new.containers[ptr] = [size |-> size, reservedRuns |-> 0]
    /\ FirstRuns(ptr, size) # {}
    /\ DOMAIN new.runs = DOMAIN m.runs \union FirstRuns(ptr, size)
    /\ \A r \in DOMAIN m.runs : new.runs[r] = m.runs[r]
    /\ \A r \in FirstRuns(ptr, size) :
         /\ r \notin DOMAIN m.runs
         /\ new.runs[r].splitting = 0 /\ new.runs[r].container = ptr

LEMMA NewContainer ==
    ASSUME NEW m, NEW out, NEW blocks, Good(m, out, {}, blocks),
           \A n \in out : \E r \in DOMAIN m.runs \union {NULL} : n = RunNode(r),
           NEW ptr, NEW size, IsGiven(ptr, size),
           \A c \in DOMAIN m.containers : MemoryApart(ptr, size, c, m.containers[c].size),
           NEW new, IsAdd(m, new, ptr, size)
    PROVE  Good(new, out, {}, blocks) /\ AddedTo(m, new, ptr, size)
<1> DEFINE ls   == m.lists
           S    == NodeSet(m) \ out
           g    == Roots(new)
           nn   == NewNodes(ptr, size)
           R    == FirstRuns(ptr, size)
           N    == Cardinality(R)
           root == EmptyRuns(ptr)
           self == ContainerNode(ptr)
<1>1. Sane(m) /\ Listed(m, out) /\ Placed(m) /\ Counted(m) /\ Cells(m.runs, {}) /\ Held(m.runs, blocks)
  BY DEF Good
<1>2. ptr \in Nat /\ size \in Nat /\ size > 0
  BY GivenFacts
<1>3. ptr \notin DOMAIN m.containers
  <2> SUFFICES ASSUME ptr \in DOMAIN m.containers PROVE FALSE
    OBVIOUS
  <2> DEFINE sizeD == m.containers[ptr].size
  <2>1. IsGiven(ptr, sizeD) /\ MemoryApart(ptr, size, ptr, sizeD)
    BY <1>1 DEF Placed
  <2> HIDE DEF sizeD
  <2>2. sizeD \in Nat /\ sizeD > 0
    BY <2>1, GivenFacts
  <2> QED BY <2>1, <2>2, <1>2 DEF MemoryApart
<1>4. /\ IsFiniteSet(R) /\ N \in Nat
      /\ R = {First(ptr) + (i - 1) * RunSize : i \in 1..N} /\ R # {}
      /\ \A i, j \in 1..N :
           First(ptr) + (i - 1) * RunSize = First(ptr) + (j - 1) * RunSize => i = j
      /\ R \subseteq Nat
  <2>1. N = Total(ptr, size) /\ IsFiniteSet(R) /\ N \in Nat /\ N # 0
    BY FirstRunsCount, FirstRunsFacts
  <2>2. /\ R = {First(ptr) + (i - 1) * RunSize : i \in 1..N}
        /\ \A i \in 1..N : First(ptr) + (i - 1) * RunSize \in Nat
        /\ \A i, j \in 1..N :
             First(ptr) + (i - 1) * RunSize = First(ptr) + (j - 1) * RunSize => i = j
    BY <2>1, FirstRunsFacts
  <2> HIDE DEF R, N
  <2>3. 1 \in 1..N
    BY <2>1
  <2>4. R # {} /\ R \subseteq Nat
    BY <2>2, <2>3
  <2> QED BY <2>1, <2>2, <2>4
<1>5. \A r \in R : r \notin DOMAIN m.runs
  <2> SUFFICES ASSUME NEW r \in DOMAIN m.runs, r \in R PROVE FALSE
    OBVIOUS
  <2> DEFINE c     == m.runs[r].container
             sizeC == m.containers[c].size
  <2>1. c \in DOMAIN m.containers /\ IsGiven(c, sizeC) /\ r \in FirstRuns(c, sizeC)
    BY <1>1 DEF Sane, Placed, RunPlaced
  <2>2. MemoryApart(c, sizeC, ptr, size)
    BY <2>1 DEF MemoryApart
  <2> HIDE DEF c, sizeC
  <2> QED BY <2>1, <2>2, RunsApart
<1>6. /\ DOMAIN new.containers = DOMAIN m.containers \union {ptr}
      /\ \A c \in DOMAIN m.containers : new.containers[c] = m.containers[c]
      /\ new.containers[ptr] = [size |-> size, reservedRuns |-> 0]
  BY <1>3 DEF IsAdd
<1>7. /\ DOMAIN new.runs = DOMAIN m.runs \union R
      /\ \A r \in DOMAIN m.runs : new.runs[r] = m.runs[r]
      /\ \A r \in R : new.runs[r] = NewRun(Skipped(r, ptr), ptr)
  BY <1>5 DEF IsAdd
<1>8. \A r \in R : /\ new.runs[r] \in RunRecord /\ new.runs[r].cntAlloc = 0
                   /\ new.runs[r].splitting = 0 /\ new.runs[r].container = ptr
                   /\ new.runs[r].skip = CeilDiv(Skipped(r, ptr), EntrySize)
  BY <1>2, <1>4, <1>7, NewRunFacts
<1> HIDE DEF ls, S, g, nn, R, N, root, self
<1>9. NodeSet(new) = NodeSet(m) \union nn
  <2>1. ASSUME NEW x \in NodeSet(new) PROVE x \in NodeSet(m) \union nn
    BY <1>6, <1>7 DEF NodeSet, NewNodes, nn, R
  <2>2. ASSUME NEW x \in NodeSet(m) \union nn PROVE x \in NodeSet(new)
    BY <1>6, <1>7 DEF NodeSet, NewNodes, nn, R
  <2> QED BY <2>1, <2>2
<1>10. nn \intersect NodeSet(m) = {}
  <2> SUFFICES ASSUME NEW x \in nn, x \in NodeSet(m) PROVE FALSE
    OBVIOUS
  <2>1. x = ContainerNode(ptr) \/ x = EmptyRuns(ptr) \/ \E r \in R : x = RunNode(r)
    BY DEF nn, NewNodes, R
  <2> QED BY <2>1, <1>3, <1>5, NodesDiffer DEF NodeSet
<1>11. nn \intersect out = {} /\ Containers \notin out
  <2>1. \A r \in R : r # NULL
    BY <1>4, NullAssumption
  <2>2. ASSUME NEW x \in nn, x \in out PROVE FALSE
    <3>1. PICK r \in DOMAIN m.runs \union {NULL} : x = RunNode(r)
      BY <2>2
    <3>2. x = ContainerNode(ptr) \/ x = EmptyRuns(ptr) \/ \E q \in R : x = RunNode(q)
      BY DEF nn, NewNodes, R
    <3> QED BY <3>1, <3>2, <2>1, <1>5, NodesDiffer
  <2> QED BY <2>2, NodesDiffer
<1>12. \A x \in NodeSet(m) : g[x] = Roots(m)[x]
  <2> SUFFICES ASSUME NEW x \in NodeSet(m) PROVE Roots(new)[x] = Roots(m)[x]
    BY DEF g
  <2>1. CASE x = Containers \/ \E k \in Classes : x = InUse(k)
    BY <2>1, RootsFacts
  <2>2. CASE \E r \in DOMAIN m.runs : x = RunNode(r)
    <3>1. PICK r \in DOMAIN m.runs : x = RunNode(r)
      BY <2>2
    <3>2. RunRoot(new, r) = RunRoot(m, r)
      BY <1>7 DEF RunRoot
    <3>3. r \in DOMAIN new.runs
      BY <1>7
    <3> QED BY <3>1, <3>2, <3>3, RootsFacts
  <2>3. CASE \E c \in DOMAIN m.containers : x = ContainerNode(c) \/ x = EmptyRuns(c)
    BY <2>3, <1>6, RootsFacts
  <2> QED BY <2>1, <2>2, <2>3 DEF NodeSet
<1>13. InRings(ls, S, g) /\ Nodes(ls) = NodeSet(m)
  <2> DEFINE h == Roots(m)
  <2>1. InRings(ls, S, h) /\ \A x \in S : g[x] = h[x]
    BY <1>1, <1>12 DEF Listed, ls, S
  <2> HIDE DEF h
  <2>2. InRings(ls, S, g)
    BY <2>1, SameRoots
  <2> QED BY <2>2, <1>1 DEF Sane, ls
<1>14. /\ g[root] = root /\ root \in nn
       /\ g[self] = Containers /\ self \in nn
       /\ \A r \in R : g[RunNode(r)] = root /\ RunNode(r) \in nn
       /\ Containers \in S /\ g[Containers] = Containers
  <2>1. ptr \in DOMAIN new.containers /\ \A r \in R : r \in DOMAIN new.runs
    BY <1>6, <1>7
  <2>2. g[root] = root /\ g[self] = Containers
    BY <2>1, RootsFacts DEF g, root, self
  <2>3. \A r \in R : g[RunNode(r)] = root
    BY <2>1, <1>8, RootsFacts DEF RunRoot, g, root
  <2>4. root \in nn /\ self \in nn /\ \A r \in R : RunNode(r) \in nn
    BY DEF nn, NewNodes, root, self, R
  <2>5. Containers \in S /\ g[Containers] = Containers
    BY <1>11, RootsFacts DEF S, g
  <2> QED BY <2>2, <2>3, <2>4, <2>5
<1> DEFINE wide == AddNodes(ls, nn)
           T    == S \union {root}
<1>15. InRings(wide, T, g) /\ Nodes(wide) = NodeSet(m) \union nn
  <2> DEFINE own == {root}
  <2>1. own \in SUBSET nn /\ \A x \in own : g[x] = x
    BY <1>14
  <2>2. Nodes(ls) \intersect nn = {}
    BY <1>10, <1>13
  <2> HIDE DEF own
  <2>3. InRings(AddNodes(ls, nn), S \union own, g) /\ Nodes(AddNodes(ls, nn)) = Nodes(ls) \union nn
    BY <1>13, <2>1, <2>2, AddNodesRings
  <2> QED BY <2>3, <1>13 DEF own
<1>16. PICK put : /\ IsPutOfRuns(put, wide, root, First(ptr), N)
                  /\ new.lists = PutLast(put[N], Containers, self)
  BY DEF IsAdd, ls, nn, root, self, R, N
<1> HIDE DEF wide, T
<1> DEFINE elt == [i \in 1..N |-> RunNode(First(ptr) + (i - 1) * RunSize)]
           U   == T \union {elt[i] : i \in 1..N}
<1>17. /\ \A i \in 1..N : elt[i] = RunNode(First(ptr) + (i - 1) * RunSize)
       /\ \A i \in 1..N : \E r \in R : elt[i] = RunNode(r)
       /\ \A r \in R : \E i \in 1..N : elt[i] = RunNode(r)
  BY <1>4
<1>18. \A i, j \in 1..N : elt[i] = elt[j] => i = j
  BY <1>4, NodesDiffer
<1> HIDE DEF elt
<1>19. \A i \in 1..N : elt[i] \in Nodes(wide) \ T /\ g[elt[i]] = root
  <2>1. \A r \in R : RunNode(r) # root
    BY NodesDiffer DEF root
  <2> QED BY <2>1, <1>10, <1>14, <1>15, <1>17 DEF S, T
<1>20. InRings(put[N], U, g) /\ Nodes(put[N]) = Nodes(wide)
  <2>1. root \in T /\ g[root] = root
    BY <1>14 DEF T
  <2>2. /\ \A i \in 1..N : elt[i] = RunNode(First(ptr) + (i - 1) * RunSize)
        /\ N \in Nat /\ IsPutOfRuns(put, wide, root, First(ptr), N)
    BY <1>4, <1>16, <1>17
  <2> DEFINE first == First(ptr)
  <2>3. IsPutOfRuns(put, wide, root, first, N) /\ ArePut(elt, wide, T, g, root, first, N)
    BY <1>18, <1>19, <2>2 DEF ArePut
  <2> HIDE DEF first
  <2>4. InRings(put[N], WithPut(T, elt, N), g) /\ Nodes(put[N]) = Nodes(wide)
    BY <1>4, <1>15, <2>1, <2>3, PutOfRunsRings
  <2> QED BY <2>4 DEF WithPut
<1>21. U = T \union {RunNode(r) : r \in R}
  BY <1>17
<1> HIDE DEF U
<1>22. InRings(new.lists, U \union {self}, g) /\ Nodes(new.lists) = Nodes(wide)
  <2> DEFINE before == put[N]
             rootC  == Containers
  <2>1. self \in Nodes(before) \ U
    <3>1. self # root /\ \A r \in R : self # RunNode(r)
      BY NodesDiffer DEF self, root
    <3>2. self \notin S
      BY <1>10, <1>14 DEF S
    <3> QED BY <3>1, <3>2, <1>14, <1>15, <1>20, <1>21 DEF T
  <2>2. rootC \in U /\ g[rootC] = rootC /\ g[self] = rootC
    BY <1>14, <1>21 DEF T
  <2>3. InRings(before, U, g)
    BY <1>20
  <2> HIDE DEF before, rootC
  <2>4. /\ InRings(PutLast(before, rootC, self), U \union {self}, g)
        /\ Nodes(PutLast(before, rootC, self)) = Nodes(before)
    BY <2>1, <2>2, <2>3, PutLastRings
  <2> QED BY <2>4, <1>16, <1>20 DEF before, rootC
<1>23. U \union {self} = NodeSet(new) \ out
  <2>1. nn = {self, root} \union {RunNode(r) : r \in R}
    BY DEF nn, NewNodes, self, root, R
  <2>2. U \union {self} = S \union nn
    BY <2>1, <1>21 DEF T
  <2> QED BY <2>2, <1>9, <1>11 DEF S
<1>24. Listed(new, out) /\ Nodes(new.lists) = NodeSet(new)
  BY <1>9, <1>15, <1>22, <1>23 DEF Listed, g
<1>25. Sane(new)
  <2>1. /\ IsFiniteSet(DOMAIN new.runs) /\ DOMAIN new.runs \subseteq Nat
        /\ IsFiniteSet(DOMAIN new.containers) /\ DOMAIN new.containers \subseteq Nat
    <3>1. IsFiniteSet(DOMAIN m.runs \union R)
      <4> DEFINE D == DOMAIN m.runs
      <4>1. IsFiniteSet(D) /\ IsFiniteSet(R)
        BY <1>1, <1>4 DEF Sane
      <4> HIDE DEF D
      <4>2. IsFiniteSet(D \union R)
        BY <4>1, FS_Union
      <4> QED BY <4>2 DEF D
    <3>2. IsFiniteSet(DOMAIN m.containers \union {ptr})
      <4> DEFINE D == DOMAIN m.containers
      <4>1. IsFiniteSet(D)
        BY <1>1 DEF Sane
      <4> HIDE DEF D
      <4>2. IsFiniteSet(D \union {ptr})
        BY <4>1, FS_AddElement
      <4> QED BY <4>2 DEF D
    <3> QED BY <3>1, <3>2, <1>1, <1>2, <1>4, <1>6, <1>7 DEF Sane
  <2>2. \A r \in DOMAIN new.runs : new.runs[r] \in RunRecord /\ new.runs[r].splitting \in Splittings
                                   /\ new.runs[r].container \in DOMAIN new.containers
    BY <1>1, <1>6, <1>7, <1>8 DEF Sane, Splittings
  <2>3. \A c \in DOMAIN new.containers : new.containers[c] \in Header
    BY <1>1, <1>2, <1>6 DEF Sane, Header
  <2>4. /\ new.runs = [r \in DOMAIN new.runs |-> new.runs[r]]
        /\ new.containers = [c \in DOMAIN new.containers |-> new.containers[c]]
    BY DEF IsAdd
  <2>5. /\ new.runs \in [DOMAIN new.runs -> RunRecord]
        /\ new.containers \in [DOMAIN new.containers -> Header]
    BY <2>2, <2>3, <2>4
  <2>6. IsMem(new)
    BY DEF IsAdd
  <2> QED BY <2>1, <2>2, <2>5, <2>6, <1>24 DEF Sane
<1>26. Placed(new)
  <2>1. \A c \in DOMAIN new.containers : IsGiven(c, new.containers[c].size)
    BY <1>1, <1>6 DEF Placed
  <2>2. ASSUME NEW c \in DOMAIN new.containers, NEW d \in DOMAIN new.containers, c # d
        PROVE  MemoryApart(c, new.containers[c].size, d, new.containers[d].size)
    <3>1. CASE c \in DOMAIN m.containers /\ d \in DOMAIN m.containers
      BY <3>1, <2>2, <1>1, <1>6 DEF Placed
    <3>2. CASE c = ptr /\ d \in DOMAIN m.containers
      BY <3>2, <1>6
    <3>3. CASE c \in DOMAIN m.containers /\ d = ptr
      BY <3>3, <1>6 DEF MemoryApart
    <3> QED BY <2>2, <3>1, <3>2, <3>3, <1>6
  <2>3. ASSUME NEW r \in DOMAIN new.runs
        PROVE  RunPlaced(r, new.runs[r], new.containers[new.runs[r].container].size)
    <3>1. CASE r \in DOMAIN m.runs
      BY <3>1, <1>1, <1>6, <1>7 DEF Placed, Sane
    <3>2. CASE r \in R
      BY <3>2, <1>6, <1>8 DEF RunPlaced, R
    <3> QED BY <3>1, <3>2, <1>7
  <2> QED BY <2>1, <2>2, <2>3 DEF Placed
<1>27. Counted(new)
  <2>1. ASSUME NEW c \in DOMAIN m.containers PROVE UsedRuns(new, c) = UsedRuns(m, c)
    BY <1>7, <1>8 DEF UsedRuns, RunsOf
  <2>2. UsedRuns(new, ptr) = {}
    BY <1>1, <1>3, <1>7, <1>8 DEF UsedRuns, RunsOf, Sane
  <2>3. \A c \in DOMAIN m.containers : new.containers[c].reservedRuns = Cardinality(UsedRuns(new, c))
    BY <2>1, <1>1, <1>6 DEF Counted
  <2>4. new.containers[ptr].reservedRuns = Cardinality(UsedRuns(new, ptr))
    BY <2>2, <1>6, FS_EmptySet
  <2> QED BY <2>3, <2>4, <1>6 DEF Counted
<1>28. Cells(new.runs, {})
  BY <1>1, <1>7, <1>8 DEF Cells, CellsCounted
<1>29. Held(new.runs, blocks)
  <2>1. ASSUME NEW b \in blocks PROVE HasCell(new.runs, b)
    <3>1. HasCell(m.runs, b)
      BY <1>1 DEF Held
    <3>2. RunOf(b.ptr) \in DOMAIN new.runs /\ new.runs[RunOf(b.ptr)] = m.runs[RunOf(b.ptr)]
      BY <3>1, <1>7 DEF HasCell
    <3> QED BY <3>1, <3>2 DEF HasCell
  <2> QED BY <2>1, <1>1, <1>7, <1>8 DEF Held
<1>30. AddedTo(m, new, ptr, size)
  BY <1>3, <1>4, <1>5, <1>6, <1>7, <1>8 DEF AddedTo, R
<1> QED BY <1>24, <1>25, <1>26, <1>27, <1>28, <1>29, <1>30 DEF Good

-----------------------------------------------------------------------------
(* Searches of the lists                                                   *)

LEMMA NodesFinite ==
    ASSUME NEW m, Sane(m)
    PROVE  IsFiniteSet(NodeSet(m)) /\ IsFiniteSet(Nodes(m.lists))
<1>1. ASSUME NEW D, IsFiniteSet(D), NEW f, DOMAIN f = D, \A x, y \in D : f[x] = f[y] => x = y,
             NEW T, T = {f[x] : x \in D}
      PROVE  IsFiniteSet(T)
  <2> DEFINE h == [x \in D |-> f[x]]
  <2>1. h \in [D -> T] /\ \A x \in D : h[x] = f[x]
    BY <1>1
  <2>2. \A x, y \in D : h[x] = h[y] => x = y
    BY <2>1, <1>1
  <2>3. \A y \in T : \E x \in D : h[x] = y
    BY <2>1, <1>1
  <2> HIDE DEF h
  <2>4. h \in Bijection(D, T)
    BY <2>1, <2>2, <2>3 DEF Bijection, Injection, Surjection, IsInjective
  <2> QED BY <2>4, <1>1, FS_Bijection DEF ExistsBijection
<1> DEFINE A == {Containers}
           B == {InUse(k) : k \in Classes}
           C == {RunNode(r) : r \in DOMAIN m.runs}
           D == {ContainerNode(c) : c \in DOMAIN m.containers}
           E == {EmptyRuns(c) : c \in DOMAIN m.containers}
<1>2. IsFiniteSet(DOMAIN m.runs) /\ IsFiniteSet(DOMAIN m.containers) /\ IsFiniteSet(Classes)
  <2>1. IsFiniteSet(0..9)
    <3> DEFINE low == 0
               high == 9
    <3>1. low \in Int /\ high \in Int
      OBVIOUS
    <3> HIDE DEF low, high
    <3>2. IsFiniteSet(low..high)
      BY <3>1, FS_Interval
    <3> QED BY <3>2 DEF low, high
  <2> QED BY <2>1, ClassFacts DEF Sane
<1>3. IsFiniteSet(A)
  BY FS_Singleton
<1>4. IsFiniteSet(B)
  <2> DEFINE f == [k \in Classes |-> InUse(k)]
  <2>1. \A x, y \in Classes : f[x] = f[y] => x = y
    BY NodesDiffer
  <2>2. B = {f[x] : x \in Classes} /\ DOMAIN f = Classes
    OBVIOUS
  <2> HIDE DEF f, B
  <2> QED BY <2>1, <2>2, <1>1, <1>2
<1>5. IsFiniteSet(C)
  <2> DEFINE f == [r \in DOMAIN m.runs |-> RunNode(r)]
  <2>1. \A x, y \in DOMAIN m.runs : f[x] = f[y] => x = y
    BY NodesDiffer
  <2>2. C = {f[x] : x \in DOMAIN m.runs} /\ DOMAIN f = DOMAIN m.runs
    OBVIOUS
  <2> HIDE DEF f, C
  <2> QED BY <2>1, <2>2, <1>1, <1>2
<1>6. IsFiniteSet(D)
  <2> DEFINE f == [r \in DOMAIN m.containers |-> ContainerNode(r)]
  <2>1. \A x, y \in DOMAIN m.containers : f[x] = f[y] => x = y
    BY NodesDiffer
  <2>2. D = {f[x] : x \in DOMAIN m.containers} /\ DOMAIN f = DOMAIN m.containers
    OBVIOUS
  <2> HIDE DEF f, D
  <2> QED BY <2>1, <2>2, <1>1, <1>2
<1>7. IsFiniteSet(E)
  <2> DEFINE f == [r \in DOMAIN m.containers |-> EmptyRuns(r)]
  <2>1. \A x, y \in DOMAIN m.containers : f[x] = f[y] => x = y
    BY NodesDiffer
  <2>2. E = {f[x] : x \in DOMAIN m.containers} /\ DOMAIN f = DOMAIN m.containers
    OBVIOUS
  <2> HIDE DEF f, E
  <2> QED BY <2>1, <2>2, <1>1, <1>2
<1>8. NodeSet(m) = A \union B \union C \union D \union E
  BY DEF NodeSet
<1> HIDE DEF A, B, C, D, E
<1>9. IsFiniteSet(A \union B)
  BY <1>3, <1>4, FS_Union
<1>10. IsFiniteSet(A \union B \union C)
  <2> DEFINE X == A \union B
  <2>1. IsFiniteSet(X)
    BY <1>9
  <2> HIDE DEF X
  <2>2. IsFiniteSet(X \union C)
    BY <2>1, <1>5, FS_Union
  <2> QED BY <2>2 DEF X
<1>11. IsFiniteSet(D \union E)
  BY <1>6, <1>7, FS_Union
<1>12. IsFiniteSet(A \union B \union C \union D \union E)
  <2> DEFINE X == A \union B \union C
             Y == D \union E
  <2>1. IsFiniteSet(X) /\ IsFiniteSet(Y)
    BY <1>10, <1>11
  <2> HIDE DEF X, Y
  <2>2. IsFiniteSet(X \union Y)
    BY <2>1, FS_Union
  <2>3. X \union Y = A \union B \union C \union D \union E
    BY DEF X, Y
  <2> QED BY <2>2, <2>3
<1> QED BY <1>8, <1>12 DEF Sane

(* findEmptyRun finds a container with an empty run, when there is one.     *)
LEMMA FindEmptyRunFacts ==
    ASSUME NEW m, NEW out, Sane(m), Listed(m, out), \A n \in out : \E r : n = RunNode(r)
    PROVE  \/ /\ FindEmptyRun(m) = NULL
              /\ \A r \in DOMAIN m.runs : m.runs[r].splitting = 0 => RunNode(r) \in out
           \/ \E c \in DOMAIN m.containers :
                FindEmptyRun(m) = c /\ c # NULL /\ EmptyRun(m, c) # NULL
<1> DEFINE ls   == m.lists
           S    == NodeSet(m) \ out
           g    == Roots(m)
           root == Containers
           T    == {ContainerNode(c) : c \in {d \in DOMAIN m.containers : EmptyRun(m, d) # NULL}}
<1>1. /\ InRings(ls, S, g) /\ root \in S /\ g[root] = root /\ IsFiniteSet(Nodes(ls))
      /\ root \notin T
  BY RootsFacts, NodesDiffer, NodesFinite DEF Listed
<1>2. FindEmptyRun(m) = LET node == FirstIn(ls, root, T) IN IF node = NULL THEN NULL ELSE node[2]
  BY Zenon DEF FindEmptyRun
<1>3. \A c \in DOMAIN m.containers :
        /\ ContainerNode(c) \in S /\ g[ContainerNode(c)] = root /\ EmptyRuns(c) \notin out
        /\ ContainerNode(c) # NULL /\ c # NULL /\ ContainerNode(c)[2] = c
  <2>1. \A c \in DOMAIN m.containers : c \in Int
    BY DEF Sane
  <2> QED BY <2>1, RootsFacts, NodesDiffer, NullAssumption
<1> DEFINE node == FirstIn(ls, root, T)
<1>4. \/ node = NULL /\ \A n \in S : g[n] = root => n \notin T
      \/ node \in S /\ node \in T /\ g[node] = root
  <2> HIDE DEF ls, S, g, root, T
  <2> QED BY <1>1, FirstInFacts
<1> HIDE DEF ls, g, root, node
<1>5. CASE node = NULL /\ \A n \in S : g[n] = root => n \notin T
  <2>1. FindEmptyRun(m) = NULL
    BY <1>2, <1>5 DEF node
  <2>2. ASSUME NEW r \in DOMAIN m.runs, m.runs[r].splitting = 0 PROVE RunNode(r) \in out
    <3> DEFINE c == m.runs[r].container
    <3>1. c \in DOMAIN m.containers
      BY DEF Sane
    <3> HIDE DEF c
    <3>2. EmptyRun(m, c) = NULL
      BY <3>1, <1>3, <1>5
    <3>3. EmptyRuns(c) \notin out
      BY <3>1, <1>3
    <3>4. \/ \A q \in DOMAIN m.runs :
               m.runs[q].splitting = 0 /\ m.runs[q].container = c => RunNode(q) \in out
          \/ EmptyRun(m, c) # NULL
      BY <3>1, <3>3, EmptyRunFacts
    <3> QED BY <3>2, <3>4, <2>2 DEF c
  <2> QED BY <2>1, <2>2
<1>6. CASE node \in S /\ node \in T /\ g[node] = root
  <2>1. PICK c \in DOMAIN m.containers : node = ContainerNode(c) /\ EmptyRun(m, c) # NULL
    BY <1>6
  <2>2. FindEmptyRun(m) = c /\ c # NULL
    BY <2>1, <1>2, <1>3 DEF node
  <2> QED BY <2>1, <2>2
<1> QED BY <1>4, <1>5, <1>6

(* The search of the list of a class finds a run with a free cell, when     *)
(* there is one.                                                            *)
LEMMA PartialFacts ==
    ASSUME NEW out, Sane(mem), Listed(mem, out), \A n \in out : \E r : n = RunNode(r),
           NEW k \in Classes
    PROVE  \/ /\ Partial(k) = NULL
              /\ \A r \in DOMAIN mem.runs :
                   mem.runs[r].splitting = ClassSize(k) /\ RunNode(r) \notin out
                     => IsFull(mem.runs[r])
           \/ \E r \in DOMAIN mem.runs :
                /\ Partial(k) = RunNode(r) /\ RunNode(r) # NULL /\ RunNode(r) \notin out
                /\ mem.runs[r].splitting = ClassSize(k) /\ ~ IsFull(mem.runs[r])
<1> DEFINE ls   == mem.lists
           S    == NodeSet(mem) \ out
           g    == Roots(mem)
           root == InUse(k)
           T    == {RunNode(r) : r \in {q \in DOMAIN mem.runs : ~ IsFull(mem.runs[q])}}
           node == FirstIn(ls, root, T)
<1>1. /\ InRings(ls, S, g) /\ root \in S /\ g[root] = root /\ IsFiniteSet(Nodes(ls))
      /\ root \notin T
  BY RootsFacts, NodesDiffer, NodesFinite DEF Listed
<1>2. Partial(k) = node
  BY Zenon DEF Partial
<1>3. \/ node = NULL /\ \A n \in S : g[n] = root => n \notin T
      \/ node \in S /\ node \in T /\ g[node] = root
  <2> HIDE DEF ls, S, g, root, T
  <2> QED BY <1>1, FirstInFacts
<1> HIDE DEF ls, node
<1>4. CASE node = NULL /\ \A n \in S : g[n] = root => n \notin T
  <2> SUFFICES ASSUME NEW r \in DOMAIN mem.runs, mem.runs[r].splitting = ClassSize(k),
                      RunNode(r) \notin out
               PROVE  IsFull(mem.runs[r])
    BY <1>2, <1>4
  <2>1. RunRoot(mem, r) = root
    BY SizeOfClass DEF RunRoot
  <2>2. RunNode(r) \in S /\ g[RunNode(r)] = root
    BY <2>1, RootsFacts
  <2> QED BY <2>2, <1>4
<1>5. CASE node \in S /\ node \in T /\ g[node] = root
  <2>1. PICK r \in DOMAIN mem.runs : node = RunNode(r) /\ ~ IsFull(mem.runs[r])
    BY <1>5
  <2>2. node # root
    BY <2>1, NodesDiffer
  <2>3. node \in NodeSet(mem) /\ Roots(mem)[node] = InUse(k)
    BY <1>5
  <2> HIDE DEF root, S, g, T
  <2>4. \E q \in DOMAIN mem.runs : node = RunNode(q) /\ mem.runs[q].splitting = ClassSize(k)
    BY <2>2, <2>3, MemberFacts DEF root
  <2>5. mem.runs[r].splitting = ClassSize(k)
    BY <2>1, <2>4, NodesDiffer
  <2>6. r \in Int
    BY DEF Sane
  <2> QED BY <2>1, <2>5, <2>6, <1>2, <1>5, NodesDiffer DEF S
<1> QED BY <1>3, <1>4, <1>5

(* A run just cut for a request has a cell.                                 *)
LEMMA FreshHasCell ==
    ASSUME NEW m, Sane(m), Placed(m), NEW r \in DOMAIN m.runs, NEW n \in Requests
    PROVE  SetSplitting(m.runs[r], ClassSize(GetSizeClass(n))).free # {}
<1> DEFINE s      == ClassSize(GetSizeClass(n))
           c      == m.runs[r].container
           size   == m.containers[c].size
           bytes  == Skipped(r, c)
           before == (c + ContainerSize) % RunSize
           given  == [start |-> c, size |-> size]
<1>1. /\ m.runs[r] \in RunRecord /\ IsGiven(c, size) /\ r \in FirstRuns(c, size)
      /\ m.runs[r].skip = CeilDiv(bytes, EntrySize)
  BY DEF Sane, Placed, RunPlaced
<1>2. s \in 8..128
  BY RequestsAssumption, ClassFacts
<1> HIDE DEF size, s, c
<1>3. bytes = 0 \/ bytes = before
  <2>1. c \in Nat /\ ContainerSize \in Nat /\ RunSize \in Nat \ {0}
    BY <1>1, GivenFacts, LayoutAssumption
  <2> DEFINE a == c + ContainerSize
  <2>2. a \in Nat
    BY <2>1
  <2>3. r % RunSize = 0 /\ r \in Nat /\ r >= RunOf(a)
    <3>1. r % RunSize = 0 /\ r >= RunOf(a) /\ r \in Int
      <4>1. RunOf(a) \in Int
        <5> HIDE DEF a
        <5> QED BY <2>1, <2>2, Quotient DEF RunOf
      <4>2. RunOf(c + ContainerSize + size) \in Int
        <5> DEFINE e == c + ContainerSize + size
        <5>1. e \in Nat
          BY <2>1, <1>1, GivenFacts
        <5> HIDE DEF e
        <5>2. RunOf(e) \in Int
          BY <2>1, <5>1, Quotient DEF RunOf
        <5> QED BY <5>2 DEF e
      <4> QED BY <1>1, <4>1, <4>2 DEF FirstRuns
    <3>2. RunOf(a) \in Nat
      <4> HIDE DEF a
      <4> QED BY <2>1, <2>2, Quotient DEF RunOf
    <3> QED BY <3>1, <3>2
  <2>4. CASE r < a
    <3> DEFINE p == a \div RunSize
    <3>1. p \in Nat /\ p * RunSize <= a /\ a < p * RunSize + RunSize /\ RunOf(a) = p * RunSize
          /\ a % RunSize = a - p * RunSize
      <4> HIDE DEF a
      <4> QED BY <2>1, <2>2, Quotient DEF RunOf
    <3>2. PICK q \in Nat : r = q * RunSize
      <4>1. r = (r \div RunSize) * RunSize /\ r \div RunSize \in Nat
        BY <2>1, <2>3
      <4> QED BY <4>1
    <3> HIDE DEF p
    <3>3. p * RunSize \in Nat /\ q * RunSize \in Nat
      BY <2>1, <3>1, <3>2
    <3>4. ~ p < q
      <4>1. p < q => p * RunSize + RunSize <= q * RunSize
        BY <2>1, <3>1, MultiplesApart
      <4> QED BY <4>1, <3>1, <3>2, <3>3, <2>1, <2>2, <2>4
    <3>5. ~ q < p
      <4>1. q < p => q * RunSize < p * RunSize
        BY <2>1, <3>1, MultiplesApart
      <4> QED BY <4>1, <2>3, <3>1, <3>2, <3>3
    <3>6. r = p * RunSize
      BY <3>1, <3>2, <3>4, <3>5
    <3> QED BY <2>4, <3>1, <3>6 DEF Skipped
  <2>5. CASE ~ r < a
    BY <2>5 DEF Skipped
  <2> QED BY <2>4, <2>5
<1>4. given \in Given /\ given.start = c
  BY <1>1 DEF IsGiven
<1> HIDE DEF bytes, before, given
<1>5. SetSplitting(NewRun(bytes, c), s).free # {}
  <2>1. before = (given.start + ContainerSize) % RunSize
    BY <1>4 DEF before
  <2> QED BY <1>3, <1>4, <2>1, CellsAssumption DEF s
<1>6. SetSplitting(m.runs[r], s).free = SetSplitting(NewRun(bytes, c), s).free
  <2> DEFINE real    == StorageSize \div s
             entries == CeilDiv(real, EntryBits) * EntryBits
             skip    == m.runs[r].skip
             cells   == HiddenEntries(skip, s, entries) .. (real - 1)
             x       == m.runs[r]
             y       == NewRun(bytes, c)
  <2>1. s # 0 /\ x.skip = skip /\ y.skip = skip
    BY <1>1, <1>2 DEF NewRun
  <2>2. SetSplitting(x, s) = [x EXCEPT !.splitting = s, !.entries = entries, !.free = cells]
    BY <2>1 DEF SetSplitting
  <2>3. SetSplitting(y, s) = [y EXCEPT !.splitting = s, !.entries = entries, !.free = cells]
    <3> HIDE DEF y, skip
    <3> QED BY <2>1 DEF SetSplitting
  <2> HIDE DEF entries, cells
  <2>4. SetSplitting(x, s).free = cells
    <3> HIDE DEF x
    <3>1. x \in RunRecord
      BY <1>1 DEF x
    <3> QED BY <2>2, <3>1 DEF RunRecord
  <2>5. SetSplitting(y, s).free = cells
    BY <2>3 DEF NewRun
  <2> QED BY <2>4, <2>5
<1> QED BY <1>5, <1>6 DEF s

-----------------------------------------------------------------------------
(* How malloc finds a run                                                  *)

(* t is s after run r of container c was cut for class k.                   *)
HasTaken(s, t, c, r, k, out, blocks) ==
    /\ t.run = r /\ r # NULL /\ t.segments = s.segments
    /\ c \in DOMAIN s.mem.containers /\ r \in DOMAIN s.mem.runs
    /\ s.mem.runs[r].splitting = 0 /\ s.mem.runs[r].container = c /\ RunNode(r) \notin out
    /\ Good(t.mem, out \union {RunNode(r)}, {r}, blocks)
    /\ TakenFrom(s.mem, t.mem, c, r, k)

LEMMA TakeEmptyFacts ==
    ASSUME NEW s, NEW out, NEW blocks, Good(s.mem, out, {}, blocks),
           \A n \in out : \E r : n = RunNode(r), NEW k \in Classes
    PROVE  \/ /\ FindEmptyRun(s.mem) = NULL
              /\ \A r \in DOMAIN s.mem.runs : s.mem.runs[r].splitting = 0 => RunNode(r) \in out
              /\ TakeEmpty(s, k) = [mem |-> s.mem, segments |-> s.segments, run |-> NULL]
           \/ /\ FindEmptyRun(s.mem) # NULL
              /\ \E c, r : HasTaken(s, TakeEmpty(s, k), c, r, k, out, blocks)
<1> DEFINE m == s.mem
<1>1. Sane(m) /\ Listed(m, out)
  BY DEF Good
<1>2. \A c : EmptyRuns(c) \notin out
  BY NodesDiffer
<1>3. CASE FindEmptyRun(m) = NULL
  <2>1. \A r \in DOMAIN m.runs : m.runs[r].splitting = 0 => RunNode(r) \in out
    <3> HIDE DEF m
    <3> QED BY <1>1, <1>3, FindEmptyRunFacts
  <2>2. TakeEmpty(s, k) = [mem |-> s.mem, segments |-> s.segments, run |-> NULL]
    BY <1>3 DEF TakeEmpty
  <2> QED BY <1>3, <2>1, <2>2
<1>4. CASE FindEmptyRun(m) # NULL
  <2> DEFINE c == FindEmptyRun(m)
             r == EmptyRun(m, c)
             t == TakeEmpty(s, k)
  <2>1. c \in DOMAIN m.containers /\ c # NULL /\ r # NULL
    <3> HIDE DEF m
    <3> QED BY <1>1, <1>4, FindEmptyRunFacts
  <2>2. t = [mem      |-> [TakeEmptyRun(m, c) EXCEPT !.runs[r] = SetSplitting(@, ClassSize(k))],
             segments |-> s.segments,
             run      |-> r]
    BY <1>4 DEF TakeEmpty
  <2> HIDE DEF t, r, c
  <2>3. /\ r \in DOMAIN m.runs /\ RunNode(r) \notin out
        /\ m.runs[r].splitting = 0 /\ m.runs[r].container = c
        /\ m.lists.next[EmptyRuns(c)] = RunNode(r)
        /\ m.lists.next[EmptyRuns(c)] # EmptyRuns(c)
    <3> HIDE DEF m
    <3> QED BY <1>1, <1>2, <2>1, EmptyRunFacts DEF r
  <2>4. IsMem(m)
    BY <1>1 DEF Sane
  <2> DEFINE mid == TakeEmptyRun(m, c)
             new == [mid EXCEPT !.runs[r] = SetSplitting(@, ClassSize(k))]
  <2>5. /\ mid \in [runs : {m.runs}, containers : {mid.containers}, lists : {mid.lists}]
        /\ mid.runs = m.runs
        /\ mid.containers = [m.containers EXCEPT ![c].reservedRuns = @ + 1]
        /\ mid.lists = PopFirst(m.lists, EmptyRuns(c))
    <3> HIDE DEF m
    <3> QED BY <2>4 DEF TakeEmptyRun, IsMem
  <2> HIDE DEF mid
  <2>6. IsTake(m, new, c, r, k)
    <3>1. new \in [runs : {new.runs}, containers : {new.containers}, lists : {new.lists}]
      BY <2>5
    <3>2. new.runs = [m.runs EXCEPT ![r] = SetSplitting(m.runs[r], ClassSize(k))]
      BY <2>3, <2>5
    <3>3. new.containers = [m.containers EXCEPT ![c].reservedRuns = @ + 1]
      BY <2>5
    <3>4. new.lists = PopFirst(m.lists, EmptyRuns(c))
      BY <2>5
    <3> HIDE DEF m, new
    <3> QED BY <3>1, <3>2, <3>3, <3>4 DEF IsTake, IsMem
  <2>7. t.mem = new /\ t.segments = s.segments /\ t.run = r
    BY <2>2 DEF mid
  <2> HIDE DEF new
  <2>8. Good(new, out \union {RunNode(r)}, {r}, blocks) /\ TakenFrom(m, new, c, r, k)
    <3> DEFINE none == {}
    <3>1. Good(m, out, none, blocks) /\ EmptyRuns(c) \notin out
      BY <1>2
    <3>2. none \union {r} = {r}
      OBVIOUS
    <3> HIDE DEF m, none
    <3>3. Good(new, out \union {RunNode(r)}, none \union {r}, blocks)
      BY <2>1, <2>3, <2>6, <3>1, TakeRun
    <3>4. TakenFrom(m, new, c, r, k)
      BY <2>1, <2>3, <2>6, <3>1, TakeRun
    <3> QED BY <3>2, <3>3, <3>4
  <2>10. HasTaken(s, t, c, r, k, out, blocks)
    BY <2>1, <2>3, <2>7, <2>8 DEF HasTaken
  <2> QED BY <1>4, <2>10 DEF t
<1> QED BY <1>3, <1>4

LEMMA RefillFacts ==
    ASSUME NEW out, NEW blocks, Good(mem, out, {}, blocks),
           \A n \in out : \E r \in DOMAIN mem.runs \union {NULL} : n = RunNode(r),
           Owned(mem.containers, hasSource, segments, unused), NEW s \in Refill
    PROVE  \/ s = [mem |-> mem, segments |-> segments]
           \/ /\ hasSource
              /\ Good(s.mem, out, {}, blocks)
              /\ Owned(s.mem.containers, hasSource, s.segments, unused)
              /\ \E ptr, size : AddedTo(mem, s.mem, ptr, size)
<1>1. CASE s = [mem |-> mem, segments |-> segments]
  BY <1>1
<1>2. CASE s # [mem |-> mem, segments |-> segments]
  <2>1. PICK b \in Bases \ segments :
          /\ hasSource
          /\ s = [mem      |-> AddContainer(mem, b + SegmentHeader, SegmentSize - SegmentHeader),
                  segments |-> segments \union {b}]
    <3>1. s \in IF hasSource
                THEN {[mem |-> AddContainer(mem, b + SegmentHeader, SegmentSize - SegmentHeader),
                       segments |-> segments \union {b}] : b \in Bases \ segments}
                ELSE {}
      BY <1>2 DEF Refill
    <3> QED BY <3>1
  <2> DEFINE ptr  == b + SegmentHeader
             size == SegmentSize - SegmentHeader
             new  == AddContainer(mem, ptr, size)
  <2>2. s.mem = new /\ s.segments = segments \union {b} /\ hasSource
    BY <2>1
  <2>3. /\ segments \subseteq Bases
        /\ DOMAIN mem.containers = {x + SegmentHeader : x \in segments}
        /\ \A c \in DOMAIN mem.containers : mem.containers[c].size = size
    BY <2>2 DEF Owned
  <2>4. IsGiven(ptr, size)
    <3>1. b \in Bases
      OBVIOUS
    <3> QED BY <3>1 DEF IsGiven, Given
  <2>5. \A c \in DOMAIN mem.containers : MemoryApart(ptr, size, c, mem.containers[c].size)
    <3> SUFFICES ASSUME NEW c \in DOMAIN mem.containers PROVE MemoryApart(ptr, size, c, size)
      BY <2>3
    <3>1. PICK x \in segments : c = x + SegmentHeader
      BY <2>3
    <3>2. x \in Bases /\ b \in Bases /\ x # b
      BY <2>3
    <3>3. /\ b \in Nat /\ x \in Nat /\ SegmentSize \in Nat /\ SegmentHeader \in Nat
          /\ b + SegmentSize <= x \/ x + SegmentSize <= b
      BY <3>2, MemoryAssumption
    <3> QED BY <3>1, <3>3 DEF MemoryApart
  <2> HIDE DEF ptr, size
  <2>6. IsAdd(mem, new, ptr, size)
    BY <2>4, AddContainerAdds
  <2> HIDE DEF new
  <2>7. Good(new, out, {}, blocks) /\ AddedTo(mem, new, ptr, size)
    BY <2>4, <2>5, <2>6, NewContainer
  <2>8. Owned(new.containers, hasSource, s.segments, unused)
    <3>1. s.segments \subseteq Bases
      BY <2>2, <2>3
    <3>2. DOMAIN new.containers = {x + SegmentHeader : x \in s.segments}
      BY <2>2, <2>3, <2>7 DEF AddedTo, ptr
    <3>3. \A c \in DOMAIN new.containers : new.containers[c].size = size
      BY <2>3, <2>7 DEF AddedTo
    <3> QED BY <2>2, <3>1, <3>2, <3>3 DEF Owned, size
  <2> QED BY <2>2, <2>7, <2>8
<1> QED BY <1>1, <1>2

LEMMA Weaken ==
    ASSUME NEW m, NEW out, NEW fresh, NEW blocks, Good(m, out, fresh, blocks),
           NEW more, fresh \subseteq more
    PROVE  Good(m, out, more, blocks)
BY DEF Good, Cells

LEMMA OwnedSame ==
    ASSUME NEW before, NEW source, NEW given, NEW left, Owned(before, source, given, left),
           NEW after, DOMAIN after = DOMAIN before,
           \A c \in DOMAIN before : after[c].size = before[c].size
    PROVE  Owned(after, source, given, left)
BY DEF Owned

(* No run has room for class k, and no run is empty. *)
Exhausted(k, out) ==
    \A r \in DOMAIN mem.runs :
        /\ mem.runs[r].splitting = 0 => RunNode(r) \in out
        /\ mem.runs[r].splitting = ClassSize(k) /\ RunNode(r) \notin out => IsFull(mem.runs[r])

(* s has a run of class k with room, that is in no list. *)
Found(s, k, out, blocks) ==
    /\ s.run \in DOMAIN s.mem.runs /\ s.run # NULL /\ RunNode(s.run) \notin out
    /\ Good(s.mem, out \union {RunNode(s.run)}, {s.run}, blocks)
    /\ s.mem.runs[s.run].splitting = ClassSize(k) /\ s.mem.runs[s.run].free # {}
    /\ DOMAIN mem.runs \subseteq DOMAIN s.mem.runs
    /\ \A r \in DOMAIN mem.runs :
         mem.runs[r].splitting # 0 => s.mem.runs[r].splitting = mem.runs[r].splitting
    /\ Owned(s.mem.containers, hasSource, s.segments, unused)
    /\ hasSource => InService(s.mem.containers)
    /\ s.segments # segments =>
         /\ Exhausted(k, out)
         /\ \A q \in DOMAIN s.mem.runs \ DOMAIN mem.runs :
              s.mem.runs[q].splitting \in {0, ClassSize(k)}

LEMMA NextRunFacts ==
    ASSUME NEW out, NEW blocks, Good(mem, out, {}, blocks),
           \A n \in out : \E r \in DOMAIN mem.runs \union {NULL} : n = RunNode(r),
           Owned(mem.containers, hasSource, segments, unused),
           hasSource => InService(mem.containers),
           NEW size \in Requests, NEW k \in Classes, k = GetSizeClass(size), NEW s \in NextRun(k)
    PROVE  \/ s = [mem |-> mem, segments |-> segments, run |-> NULL]
           \/ Found(s, k, out, blocks)
<1>1. Sane(mem) /\ Listed(mem, out) /\ Placed(mem) /\ Counted(mem)
  BY DEF Good
<1>2. \A n \in out : \E r : n = RunNode(r)
  OBVIOUS
<1> DEFINE here == [mem |-> mem, segments |-> segments]
<1>3. here.mem = mem /\ here.segments = segments
  OBVIOUS
<1> HIDE DEF here
<1>4. \/ /\ Partial(k) = NULL
         /\ \A r \in DOMAIN mem.runs :
              mem.runs[r].splitting = ClassSize(k) /\ RunNode(r) \notin out => IsFull(mem.runs[r])
      \/ \E r \in DOMAIN mem.runs :
           /\ Partial(k) = RunNode(r) /\ RunNode(r) # NULL /\ RunNode(r) \notin out
           /\ mem.runs[r].splitting = ClassSize(k) /\ ~ IsFull(mem.runs[r])
  BY <1>1, <1>2, PartialFacts
<1>5. \/ /\ FindEmptyRun(mem) = NULL
         /\ \A r \in DOMAIN mem.runs : mem.runs[r].splitting = 0 => RunNode(r) \in out
         /\ TakeEmpty(here, k) = [mem |-> mem, segments |-> segments, run |-> NULL]
      \/ /\ FindEmptyRun(mem) # NULL
         /\ \E c, r : HasTaken(here, TakeEmpty(here, k), c, r, k, out, blocks)
  BY <1>2, <1>3, TakeEmptyFacts
<1>6. ASSUME Partial(k) # NULL PROVE Found(s, k, out, blocks)
  <2>1. PICK r \in DOMAIN mem.runs :
          /\ Partial(k) = RunNode(r) /\ RunNode(r) # NULL /\ RunNode(r) \notin out
          /\ mem.runs[r].splitting = ClassSize(k) /\ ~ IsFull(mem.runs[r])
    BY <1>4, <1>6
  <2> DEFINE new == [mem EXCEPT !.lists = RemoveNode(@, RunNode(r))]
  <2>2. s = [mem |-> new, segments |-> segments, run |-> r]
    BY <1>6, <2>1, NodesDiffer DEF NextRun
  <2>3. s.mem = new /\ s.segments = segments /\ s.run = r
    BY <2>2
  <2>4. /\ IsMem(new) /\ new.runs = mem.runs /\ new.containers = mem.containers
        /\ new.lists = RemoveNode(mem.lists, RunNode(r))
    BY <1>1 DEF Sane, IsMem
  <2> HIDE DEF new
  <2>5. Good(new, out \union {RunNode(r)}, {r}, blocks)
    <3> DEFINE none == {}
               one  == {r}
    <3>1. Good(mem, out, none, blocks) /\ none \subseteq one
      OBVIOUS
    <3> HIDE DEF none, one
    <3>2. Good(new, out \union {RunNode(r)}, none, blocks)
      BY <2>1, <2>4, <3>1, UnlinkRun
    <3>3. Good(new, out \union {RunNode(r)}, one, blocks)
      BY <3>1, <3>2, Weaken
    <3> QED BY <3>3 DEF one
  <2>6. r # NULL /\ new.runs[r].free # {}
    BY <1>1, <2>1, <2>4, NullAssumption DEF Sane, IsFull
  <2> QED BY <2>1, <2>3, <2>4, <2>5, <2>6 DEF Found
<1>7. ASSUME NEW t, NEW c, NEW r, NEW before, HasTaken(before, t, c, r, k, out, blocks),
             Sane(before.mem), Placed(before.mem),
             Owned(before.mem.containers, hasSource, before.segments, unused),
             DOMAIN mem.runs \subseteq DOMAIN before.mem.runs,
             \A q \in DOMAIN mem.runs : before.mem.runs[q] = mem.runs[q],
             hasSource => \A d \in DOMAIN t.mem.containers : t.mem.containers[d].reservedRuns # 0,
             t.segments # segments =>
               /\ Exhausted(k, out)
               /\ \A q \in DOMAIN before.mem.runs \ DOMAIN mem.runs :
                    before.mem.runs[q].splitting = 0
      PROVE  Found(t, k, out, blocks)
  <2>1. /\ t.run = r /\ r # NULL /\ t.segments = before.segments
        /\ r \in DOMAIN before.mem.runs /\ before.mem.runs[r].splitting = 0 /\ RunNode(r) \notin out
        /\ Good(t.mem, out \union {RunNode(r)}, {r}, blocks)
        /\ TakenFrom(before.mem, t.mem, c, r, k)
    BY <1>7 DEF HasTaken
  <2>2. t.mem.runs[r].splitting = ClassSize(k) /\ r \in DOMAIN t.mem.runs
    BY <2>1 DEF TakenFrom
  <2>3. t.mem.runs[r].free # {}
    <3>1. SetSplitting(before.mem.runs[r], ClassSize(GetSizeClass(size))).free # {}
      <4> DEFINE m == before.mem
      <4>1. Sane(m) /\ Placed(m) /\ r \in DOMAIN m.runs
        BY <1>7, <2>1
      <4> HIDE DEF m
      <4>2. SetSplitting(m.runs[r], ClassSize(GetSizeClass(size))).free # {}
        BY <4>1, FreshHasCell
      <4> QED BY <4>2 DEF m
    <3> QED BY <3>1, <2>1 DEF TakenFrom
  <2>4. /\ DOMAIN mem.runs \subseteq DOMAIN t.mem.runs
        /\ \A q \in DOMAIN mem.runs :
             mem.runs[q].splitting # 0 => t.mem.runs[q].splitting = mem.runs[q].splitting
    BY <1>7, <2>1 DEF TakenFrom
  <2>5. Owned(t.mem.containers, hasSource, t.segments, unused)
    <3> DEFINE old == before.mem.containers
               new == t.mem.containers
               segs == t.segments
    <3>1. /\ Owned(old, hasSource, segs, unused) /\ DOMAIN new = DOMAIN old
          /\ \A d \in DOMAIN old : new[d].size = old[d].size
      BY <1>7, <2>1 DEF TakenFrom
    <3> HIDE DEF old, new, segs
    <3>2. Owned(new, hasSource, segs, unused)
      BY <3>1, OwnedSame
    <3> QED BY <3>2 DEF new, segs
  <2>6. t.segments # segments =>
          \A q \in DOMAIN t.mem.runs \ DOMAIN mem.runs : t.mem.runs[q].splitting \in {0, ClassSize(k)}
    BY <1>7, <2>1, <2>2 DEF TakenFrom
  <2> QED BY <1>7, <2>1, <2>2, <2>3, <2>4, <2>5, <2>6 DEF Found, InService
<1>8. ASSUME Partial(k) = NULL, FindEmptyRun(mem) # NULL PROVE Found(s, k, out, blocks)
  <2>1. s = TakeEmpty(here, k)
    BY <1>8 DEF NextRun, here
  <2>2. PICK c, r : HasTaken(here, s, c, r, k, out, blocks)
    BY <1>5, <1>8, <2>1
  <2>3. /\ c \in DOMAIN mem.containers /\ TakenFrom(mem, s.mem, c, r, k) /\ s.segments = segments
    BY <2>2, <1>3 DEF HasTaken
  <2>4. ASSUME hasSource, NEW d \in DOMAIN s.mem.containers
        PROVE  s.mem.containers[d].reservedRuns # 0
    <3>1. d \in DOMAIN mem.containers /\ mem.containers[d].reservedRuns # 0
      BY <2>3, <2>4 DEF TakenFrom, InService
    <3>2. mem.containers[d].reservedRuns = Cardinality(UsedRuns(mem, d)) /\ IsFiniteSet(UsedRuns(mem, d))
      BY <1>1, <3>1, UsedRunsFinite DEF Counted
    <3>3. mem.containers[d].reservedRuns \in Nat
      BY <3>2, FS_CardinalityType
    <3> QED BY <2>3, <3>1, <3>3 DEF TakenFrom
  <2> QED BY <1>1, <1>3, <1>7, <2>2, <2>3, <2>4
<1>9. ASSUME Partial(k) = NULL, FindEmptyRun(mem) = NULL
      PROVE  \/ s = [mem |-> mem, segments |-> segments, run |-> NULL]
             \/ Found(s, k, out, blocks)
  <2>1. PICK before \in Refill : s = TakeEmpty(before, k)
    BY <1>9 DEF NextRun
  <2>2. CASE before = here
    BY <2>1, <2>2, <1>5, <1>9
  <2>3. CASE before # here
    <3>1. /\ hasSource /\ Good(before.mem, out, {}, blocks)
          /\ Owned(before.mem.containers, hasSource, before.segments, unused)
          /\ \E ptr, bytes : AddedTo(mem, before.mem, ptr, bytes)
      BY <2>3, RefillFacts DEF here
    <3>2. PICK ptr, bytes : AddedTo(mem, before.mem, ptr, bytes)
      BY <3>1
    <3>3. Exhausted(k, out)
      BY <1>4, <1>5, <1>9 DEF Exhausted
    <3>4. Sane(before.mem) /\ Placed(before.mem)
      BY <3>1 DEF Good
    <3>5. \A q \in FirstRuns(ptr, bytes) : RunNode(q) \notin out
      <4> SUFFICES ASSUME NEW q \in FirstRuns(ptr, bytes), RunNode(q) \in out PROVE FALSE
        OBVIOUS
      <4>1. PICK x \in DOMAIN mem.runs \union {NULL} : RunNode(q) = RunNode(x)
        OBVIOUS
      <4>2. q = x
        BY <4>1, NodesDiffer
      <4>3. q \notin DOMAIN mem.runs /\ q \in Nat
        BY <3>2, <3>4 DEF AddedTo, Sane
      <4> QED BY <4>2, <4>3, NullAssumption
    <3>6. FindEmptyRun(before.mem) # NULL /\ \E c, r : HasTaken(before, s, c, r, k, out, blocks)
      <4>1. \/ /\ FindEmptyRun(before.mem) = NULL
               /\ \A q \in DOMAIN before.mem.runs : before.mem.runs[q].splitting = 0 => RunNode(q) \in out
            \/ /\ FindEmptyRun(before.mem) # NULL
               /\ \E c, r : HasTaken(before, s, c, r, k, out, blocks)
        BY <1>2, <2>1, <3>1, TakeEmptyFacts
      <4> QED BY <4>1, <3>2, <3>5 DEF AddedTo
    <3>7. PICK c, r : HasTaken(before, s, c, r, k, out, blocks)
      BY <3>6
    <3>8. /\ TakenFrom(before.mem, s.mem, c, r, k) /\ r \in DOMAIN before.mem.runs
          /\ before.mem.runs[r].splitting = 0 /\ before.mem.runs[r].container = c
          /\ RunNode(r) \notin out
      BY <3>7 DEF HasTaken
    <3>9. c = ptr
      <4>1. r \notin DOMAIN mem.runs
        BY <3>2, <3>3, <3>8 DEF AddedTo, Exhausted
      <4> QED BY <4>1, <3>2, <3>8 DEF AddedTo
    <3>10. ASSUME NEW d \in DOMAIN s.mem.containers
           PROVE  s.mem.containers[d].reservedRuns # 0
      <4>1. d \in DOMAIN before.mem.containers
        BY <3>8 DEF TakenFrom
      <4>2. CASE d = ptr
        BY <4>1, <4>2, <3>2, <3>8, <3>9 DEF TakenFrom, AddedTo
      <4>3. CASE d # ptr
        BY <4>1, <4>3, <3>1, <3>2, <3>8, <3>9 DEF TakenFrom, AddedTo, InService
      <4> QED BY <4>2, <4>3
    <3>11. /\ DOMAIN mem.runs \subseteq DOMAIN before.mem.runs
           /\ \A q \in DOMAIN mem.runs : before.mem.runs[q] = mem.runs[q]
           /\ \A q \in DOMAIN before.mem.runs \ DOMAIN mem.runs : before.mem.runs[q].splitting = 0
      BY <3>2 DEF AddedTo
    <3> QED BY <1>7, <3>1, <3>3, <3>4, <3>7, <3>10, <3>11
  <2> QED BY <2>2, <2>3
<1> QED BY <1>6, <1>8, <1>9

-----------------------------------------------------------------------------
(* What malloc leaves                                                      *)

(* It depends only on the nodes that exist which of them are in no list.    *)
LEMMA SameDetached ==
    ASSUME NEW m, NEW out, NEW fresh, NEW blocks, Good(m, out, fresh, blocks),
           NEW after, NodeSet(m) \ out = NodeSet(m) \ after
    PROVE  Good(m, after, fresh, blocks)
BY DEF Good, Listed

LEMMA ClassesDiffer ==
    \A j, k \in Classes : ClassSize(j) = ClassSize(k) => j = k
<1> SUFFICES ASSUME NEW j \in Classes, NEW k \in Classes, ClassSize(j) = ClassSize(k)
             PROVE  j = k
  OBVIOUS
<1>1. GetSizeClass(ClassSize(j)) = j /\ GetSizeClass(ClassSize(k)) = k
  BY ClassFacts
<1> QED BY <1>1

(* s has a run of class k with room, which is the active one.               *)
Ready(s, k, fresh, blocks) ==
    /\ fresh \subseteq {s.run}
    /\ s.run \in DOMAIN s.mem.runs /\ s.run # NULL
    /\ Good(s.mem, Detached(s.activ), fresh, blocks)
    /\ s.mem.runs[s.run].splitting = ClassSize(k) /\ s.mem.runs[s.run].free # {}
    /\ Active(s.mem, s.activ)
    /\ Owned(s.mem.containers, hasSource, s.segments, unused)
    /\ hasSource => InService(s.mem.containers)
    /\ s.segments # segments =>
         /\ Exhausted(k, Detached(activRuns))
         /\ \A q \in DOMAIN s.mem.runs \ DOMAIN mem.runs :
              s.mem.runs[q].splitting \in {0, ClassSize(k)}

LEMMA RotateFacts ==
    ASSUME NEW blocks, Active(mem, activRuns), NEW k \in Classes,
           NEW s, Found(s, k, Detached(activRuns), blocks)
    PROVE  Ready(Rotate(s, k), k, {s.run}, blocks)
<1> DEFINE t     == Rotate(s, k)
           out   == Detached(activRuns)
           n     == RunNode(s.run)
           old   == activRuns[k]
           activ == [activRuns EXCEPT ![k] = s.run]
           new   == IF old = NULL THEN s.mem
                    ELSE [s.mem EXCEPT !.lists = PutLast(@, InUse(k), RunNode(old))]
           after == Detached(activ)
           fresh == {s.run}
<1>1. t.mem = new /\ t.segments = s.segments /\ t.activ = activ /\ t.run = s.run
  BY DEF Rotate
<1>2. /\ s.run \in DOMAIN s.mem.runs /\ s.run # NULL /\ n \notin out
      /\ Good(s.mem, out \union {n}, fresh, blocks)
      /\ s.mem.runs[s.run].splitting = ClassSize(k) /\ s.mem.runs[s.run].free # {}
      /\ DOMAIN mem.runs \subseteq DOMAIN s.mem.runs
      /\ \A r \in DOMAIN mem.runs :
           mem.runs[r].splitting # 0 => s.mem.runs[r].splitting = mem.runs[r].splitting
      /\ Owned(s.mem.containers, hasSource, s.segments, unused)
      /\ hasSource => InService(s.mem.containers)
      /\ s.segments # segments =>
           /\ Exhausted(k, Detached(activRuns))
           /\ \A q \in DOMAIN s.mem.runs \ DOMAIN mem.runs :
                s.mem.runs[q].splitting \in {0, ClassSize(k)}
  BY DEF Found
<1>3. Sane(s.mem) /\ IsMem(s.mem)
  BY <1>2 DEF Good, Sane
<1>4. /\ IsMem(new) /\ new.runs = s.mem.runs /\ new.containers = s.mem.containers
  BY <1>3 DEF IsMem
<1>5. \A j \in Classes : /\ activRuns[j] \in DOMAIN mem.runs \union {NULL}
                         /\ activRuns[j] # NULL =>
                              /\ activRuns[j] \in DOMAIN s.mem.runs
                              /\ s.mem.runs[activRuns[j]].splitting = ClassSize(j)
  <2> SUFFICES ASSUME NEW j \in Classes
               PROVE  /\ activRuns[j] \in DOMAIN mem.runs \union {NULL}
                      /\ activRuns[j] # NULL =>
                           /\ activRuns[j] \in DOMAIN s.mem.runs
                           /\ s.mem.runs[activRuns[j]].splitting = ClassSize(j)
    OBVIOUS
  <2>1. /\ activRuns[j] \in DOMAIN mem.runs \union {NULL}
        /\ activRuns[j] # NULL => mem.runs[activRuns[j]].splitting = ClassSize(j)
    BY DEF Active
  <2>2. ClassSize(j) # 0
    BY SizeOfClass
  <2> QED BY <1>2, <2>1, <2>2
<1>6. activRuns \in [Classes -> DOMAIN mem.runs \union {NULL}]
  BY DEF Active
<1>7. activ[k] = s.run /\ \A j \in Classes : j # k => activ[j] = activRuns[j]
  BY <1>6
<1>8. \A x : x \in out <=> \E j \in Classes : x = RunNode(activRuns[j])
  BY DEF Detached
<1>9. \A x : x \in after <=> x = n \/ \E j \in Classes : j # k /\ x = RunNode(activRuns[j])
  <2>1. \A x : x \in after <=> \E j \in Classes : x = RunNode(activ[j])
    BY DEF Detached
  <2> HIDE DEF after, activ
  <2> QED BY <1>7, <2>1
<1>10. Good(new, after, fresh, blocks)
  <2>1. CASE old = NULL
    <3>1. new = s.mem
      BY <2>1
    <3>2. RunNode(NULL) \notin NodeSet(s.mem)
      <4>1. NULL \notin DOMAIN s.mem.runs
        BY <1>3, NullAssumption DEF Sane
      <4> QED BY <4>1, NodesDiffer DEF NodeSet
    <3>3. NodeSet(s.mem) \ (out \union {n}) = NodeSet(s.mem) \ after
      <4> HIDE DEF after, out, n, new
      <4> QED BY <1>8, <1>9, <2>1, <3>2
    <3> DEFINE m == s.mem
    <3>4. Good(m, out \union {n}, fresh, blocks) /\ NodeSet(m) \ (out \union {n}) = NodeSet(m) \ after
      BY <1>2, <3>3
    <3> HIDE DEF m, after, out, n, new, fresh
    <3>5. Good(m, after, fresh, blocks)
      BY <3>4, SameDetached
    <3> QED BY <3>1, <3>5 DEF m
  <2>2. CASE old # NULL
    <3> DEFINE m == s.mem
               o == RunNode(old)
    <3>1. new.lists = PutLast(m.lists, InUse(k), o)
      BY <2>2, <1>3 DEF IsMem
    <3>2. old \in DOMAIN m.runs /\ m.runs[old].splitting = ClassSize(k)
      BY <1>5, <2>2
    <3>3. o \in out \union {n} /\ InUse(k) \notin out \union {n}
      <4>1. \A x : InUse(k) # RunNode(x)
        BY NodesDiffer
      <4> HIDE DEF after, out, new
      <4> QED BY <1>8, <4>1
    <3>4. \A j \in Classes : j # k => RunNode(activRuns[j]) # o
      <4> SUFFICES ASSUME NEW j \in Classes, j # k, RunNode(activRuns[j]) = o PROVE FALSE
        OBVIOUS
      <4>1. activRuns[j] = old
        BY NodesDiffer
      <4>2. ClassSize(j) = ClassSize(k)
        BY <1>5, <2>2, <4>1
      <4> QED BY <4>2, ClassesDiffer
    <3>5. n # o
      <4> HIDE DEF after, out, n, new
      <4> QED BY <1>2, <1>8
    <3>6. (out \union {n}) \ {o} = after
      <4> HIDE DEF after, out, n, o, new
      <4>1. o = RunNode(activRuns[k])
        BY DEF o
      <4> QED BY <1>8, <1>9, <3>4, <3>5, <4>1
    <3> DEFINE both == out \union {n}
    <3>7. Good(m, both, fresh, blocks) /\ o \in both /\ InUse(k) \notin both
      BY <1>2, <3>3
    <3> HIDE DEF m, after, out, n, new, fresh, both, old
    <3>8. Good(new, both \ {o}, fresh, blocks)
      BY <3>1, <3>2, <3>7, <1>4, LinkRun DEF m, o
    <3> QED BY <3>6, <3>8 DEF both
  <2> QED BY <2>1, <2>2
<1>11. Active(new, activ)
  <2>1. DOMAIN new.runs = DOMAIN s.mem.runs
    BY <1>4
  <2>2. activ \in [Classes -> DOMAIN new.runs \union {NULL}]
    <3>1. activRuns \in [Classes -> DOMAIN new.runs \union {NULL}]
      BY <1>2, <1>6, <2>1
    <3> HIDE DEF new
    <3> QED BY <3>1, <1>2, <2>1
  <2>3. ASSUME NEW j \in Classes, activ[j] # NULL PROVE new.runs[activ[j]].splitting = ClassSize(j)
    <3>1. new.runs = s.mem.runs
      BY <1>4
    <3> HIDE DEF new, activ
    <3>2. CASE j = k
      BY <3>1, <3>2, <1>2, <1>7
    <3>3. CASE j # k
      BY <3>1, <3>3, <1>5, <1>7, <2>3
    <3> QED BY <3>2, <3>3
  <2> QED BY <2>2, <2>3 DEF Active
<1> HIDE DEF new, activ, after, fresh
<1>12. Good(new, Detached(activ), fresh, blocks)
  BY <1>10 DEF after
<1> HIDE DEF t
<1>13. fresh = {s.run} /\ fresh \subseteq {t.run}
  BY <1>1 DEF fresh
<1>14. Ready(t, k, fresh, blocks)
  BY <1>1, <1>2, <1>4, <1>11, <1>12, <1>13 DEF Ready
<1> QED BY <1>13, <1>14 DEF t

(* r is a malloc of that size that found a cell. *)
Gives(r, k, size) ==
    /\ r.ptr # NULL /\ Block(r.ptr, size) \in BlockRecord
    /\ \A a \in Holding : a.ptr # r.ptr
    /\ Good(r.mem, Detached(r.activ), {}, Holding \union {Block(r.ptr, size)})
    /\ Active(r.mem, r.activ)
    /\ Owned(r.mem.containers, hasSource, r.segments, unused)
    /\ hasSource => InService(r.mem.containers)
    /\ r.segments # segments =>
         /\ Exhausted(k, Detached(activRuns))
         /\ \A q \in DOMAIN r.mem.runs \ DOMAIN mem.runs :
              r.mem.runs[q].splitting \in {0, ClassSize(k)}

LEMMA CellGives ==
    ASSUME NEW size \in 1..128, NEW k \in Classes, k = GetSizeClass(size),
           NEW s, NEW fresh, Ready(s, k, fresh, Holding)
    PROVE  Gives(Cell(s), k, size)
<1> DEFINE run == s.mem.runs[s.run]
           new == [s.mem EXCEPT !.runs[s.run] = RunMalloc(run)]
           ptr == CellPtr(s.run, run, FirstFree(run))
           r   == Cell(s)
           out == Detached(s.activ)
           blocks == Holding
           base == s.run
           left == blocks \union {Block(ptr, size)}
           none == fresh \ {base}
<1>1. /\ fresh \subseteq {s.run}
      /\ s.run \in DOMAIN s.mem.runs /\ s.run # NULL
      /\ Good(s.mem, Detached(s.activ), fresh, Holding)
      /\ s.mem.runs[s.run].splitting = ClassSize(k) /\ s.mem.runs[s.run].free # {}
      /\ Active(s.mem, s.activ)
      /\ Owned(s.mem.containers, hasSource, s.segments, unused)
      /\ hasSource => InService(s.mem.containers)
      /\ s.segments # segments =>
           /\ Exhausted(k, Detached(activRuns))
           /\ \A q \in DOMAIN s.mem.runs \ DOMAIN mem.runs :
                s.mem.runs[q].splitting \in {0, ClassSize(k)}
  BY DEF Ready
<1>2. r.mem = new /\ r.segments = s.segments /\ r.activ = s.activ /\ r.ptr = ptr
  <2>1. r = [mem |-> new, segments |-> s.segments, activ |-> s.activ, ptr |-> ptr]
    BY <1>1 DEF Cell
  <2> HIDE DEF r, new, ptr
  <2> QED BY <2>1
<1>3. IsMalloc(s.mem, new, s.run)
  <2>1. IsMem(s.mem)
    BY <1>1 DEF Good, Sane
  <2>2. IsMem(new) /\ new.containers = s.mem.containers /\ new.lists = s.mem.lists
    BY <2>1 DEF IsMem
  <2>3. new.runs = [s.mem.runs EXCEPT ![s.run] = RunMalloc(run)]
    BY <2>1 DEF IsMem
  <2> QED BY <2>2, <2>3 DEF IsMalloc
<1>4. ClassSize(k) # 0 /\ size <= ClassSize(k)
  BY ClassFacts
<1>5. /\ Good(new, out, none, left)
      /\ Block(ptr, size) \in BlockRecord
      /\ \A a \in blocks : a.ptr # ptr
      /\ ptr # NULL
      /\ DOMAIN new.runs = DOMAIN s.mem.runs /\ new.containers = s.mem.containers
      /\ \A q \in DOMAIN s.mem.runs : new.runs[q].splitting = s.mem.runs[q].splitting
  <2> DEFINE m == s.mem
  <2>1. /\ Good(m, out, fresh, blocks) /\ base \in DOMAIN m.runs
        /\ m.runs[base].splitting # 0 /\ m.runs[base].free # {}
        /\ size <= m.runs[base].splitting /\ IsMalloc(m, new, base)
        /\ ptr = CellPtr(base, m.runs[base], FirstFree(m.runs[base]))
    BY <1>1, <1>3, <1>4
  <2> HIDE DEF m, new, out, blocks, base, ptr
  <2>2. /\ Good(new, out, fresh \ {base}, blocks \union {Block(ptr, size)})
        /\ Block(ptr, size) \in BlockRecord
        /\ \A a \in blocks : a.ptr # ptr
        /\ ptr # NULL
        /\ DOMAIN new.runs = DOMAIN m.runs /\ new.containers = m.containers
        /\ \A q \in DOMAIN m.runs : new.runs[q].splitting = m.runs[q].splitting
    <3>1. /\ Good(new, out, fresh \ {base}, blocks \union {Block(FreePtr(m, base), size)})
          /\ Handed(m, new, blocks, FreePtr(m, base), size)
      BY <2>1, TakeCell
    <3> QED BY <2>1, <3>1, Zenon DEF Handed, FreePtr
  <2> QED BY <2>2 DEF m
<1>6. none = {}
  BY <1>1
<1> HIDE DEF new, r, run, ptr, none
<1>7. Active(new, s.activ)
  <2> QED BY <1>1, <1>5 DEF Active
<1>8. Good(r.mem, Detached(r.activ), {}, Holding \union {Block(r.ptr, size)})
  BY <1>2, <1>5, <1>6
<1>9. /\ r.ptr # NULL /\ Block(r.ptr, size) \in BlockRecord
      /\ \A a \in Holding : a.ptr # r.ptr
      /\ Active(r.mem, r.activ)
      /\ Owned(r.mem.containers, hasSource, r.segments, unused)
      /\ hasSource => InService(r.mem.containers)
  BY <1>1, <1>2, <1>5, <1>7
<1>10. r.segments # segments =>
         /\ Exhausted(k, Detached(activRuns))
         /\ \A q \in DOMAIN r.mem.runs \ DOMAIN mem.runs :
              r.mem.runs[q].splitting \in {0, ClassSize(k)}
  BY <1>1, <1>2, <1>5
<1>11. Gives(r, k, size)
  BY <1>8, <1>9, <1>10 DEF Gives
<1> QED BY <1>11 DEF r

(* A malloc that finds none changes nothing. *)
LEMMA AllocateFacts ==
    ASSUME IInv, NEW size \in Requests, NEW r \in Allocate(size)
    PROVE  \/ r = [mem |-> mem, segments |-> segments, activ |-> activRuns, ptr |-> NULL]
           \/ Gives(r, GetSizeClass(size), size)
<1> DEFINE k   == GetSizeClass(size)
           a   == activRuns[k]
           out == Detached(activRuns)
<1>1. k \in Classes /\ size \in 1..128
  BY ClassFacts, RequestsAssumption
<1>2. /\ Good(mem, out, {}, Holding) /\ Active(mem, activRuns)
      /\ Owned(mem.containers, hasSource, segments, unused)
      /\ hasSource => InService(mem.containers)
  BY DEF IInv
<1>3. a \in DOMAIN mem.runs \union {NULL} /\ (a # NULL => mem.runs[a].splitting = ClassSize(k))
  BY <1>1, <1>2 DEF Active
<1>4. CASE a # NULL /\ ~ IsFull(mem.runs[a])
  <2> DEFINE s == [mem |-> mem, segments |-> segments, activ |-> activRuns, run |-> a]
  <2>1. r = Cell(s)
    BY <1>4 DEF Allocate
  <2>2. s.mem = mem /\ s.segments = segments /\ s.activ = activRuns /\ s.run = a
    OBVIOUS
  <2>3. a \in DOMAIN mem.runs /\ mem.runs[a].free # {} /\ mem.runs[a].splitting = ClassSize(k)
    BY <1>3, <1>4 DEF IsFull
  <2> DEFINE none == {}
  <2>4. none \subseteq {s.run} /\ Good(mem, out, none, Holding)
    BY <1>2
  <2> HIDE DEF s, none, k, a
  <2>5. Ready(s, k, none, Holding)
    BY <1>2, <1>4, <2>2, <2>3, <2>4 DEF Ready
  <2>6. Gives(Cell(s), k, size)
    BY <1>1, <2>5, CellGives DEF k
  <2> QED BY <2>1, <2>6 DEF k
<1>5. CASE ~ (a # NULL /\ ~ IsFull(mem.runs[a]))
  <2>1. PICK u \in UpdateActivRun(k) : r = Cell(u)
    BY <1>5 DEF Allocate
  <2>2. PICK s \in NextRun(k) :
          u = IF s.run # NULL THEN Rotate(s, k)
              ELSE [mem |-> s.mem, segments |-> s.segments, activ |-> activRuns, run |-> NULL]
    BY DEF UpdateActivRun
  <2> HIDE DEF a
  <2>3. \/ s = [mem |-> mem, segments |-> segments, run |-> NULL]
        \/ Found(s, k, out, Holding)
    <3>1. \A n \in out : \E q \in DOMAIN mem.runs \union {NULL} : n = RunNode(q)
      BY <1>2 DEF Active, Detached
    <3> DEFINE blocks == Holding
    <3>2. Good(mem, out, {}, blocks) /\ k = GetSizeClass(size)
      BY <1>2
    <3> HIDE DEF out, blocks, k
    <3>3. \/ s = [mem |-> mem, segments |-> segments, run |-> NULL]
          \/ Found(s, k, out, blocks)
      BY <1>1, <1>2, <3>1, <3>2, NextRunFacts
    <3> QED BY <3>3 DEF blocks
  <2>4. CASE s = [mem |-> mem, segments |-> segments, run |-> NULL]
    <3>1. u = [mem |-> mem, segments |-> segments, activ |-> activRuns, run |-> NULL]
      BY <2>2, <2>4
    <3>2. r = [mem |-> mem, segments |-> segments, activ |-> activRuns, ptr |-> NULL]
      BY <2>1, <3>1 DEF Cell
    <3> QED BY <3>2
  <2>5. CASE Found(s, k, out, Holding)
    <3>1. u = Rotate(s, k)
      BY <2>2, <2>5 DEF Found
    <3> DEFINE blocks == Holding
               fresh  == {s.run}
    <3>2. Found(s, k, Detached(activRuns), blocks) /\ k = GetSizeClass(size)
      BY <2>5
    <3> HIDE DEF blocks, k, fresh
    <3>3. Ready(Rotate(s, k), k, fresh, blocks)
      BY <1>1, <1>2, <3>2, RotateFacts DEF fresh
    <3>4. Gives(Cell(u), k, size)
      BY <1>1, <3>1, <3>2, <3>3, CellGives DEF blocks
    <3> QED BY <2>1, <3>4 DEF k
  <2> QED BY <2>3, <2>4, <2>5
<1> QED BY <1>4, <1>5

-----------------------------------------------------------------------------
(* What a free leaves                                                      *)

(* activ are the active runs but r, and out the detached ones with r.       *)
Removed(m, activ, r, out) ==
    /\ activ \in [Classes -> DOMAIN m.runs \union {NULL}]
    /\ \A k \in Classes : activ[k] # NULL => /\ activ[k] # r
                                             /\ m.runs[activ[k]].splitting = ClassSize(k)
    /\ RunNode(r) \in out /\ out \ {RunNode(r)} \subseteq Detached(activ)
    /\ Detached(activ) \subseteq (out \ {RunNode(r)}) \union {RunNode(NULL)}

LEMMA DetachFacts ==
    ASSUME NEW m, NEW r \in DOMAIN m.runs, NEW blocks,
           Good(m, Detached(activRuns), {r}, blocks), Active(m, activRuns),
           m.runs[r].splitting # 0
    PROVE  LET d == Detach(m, r)
           IN  /\ IsMem(d.mem) /\ d.mem.runs = m.runs /\ d.mem.containers = m.containers
               /\ \E out : /\ Good(d.mem, out, {r}, blocks)
                           /\ \A x \in out : \E q : x = RunNode(q)
                           /\ Removed(d.mem, d.activ, r, out)
<1> DEFINE k == GetSizeClass(m.runs[r].splitting)
           n == RunNode(r)
           before == Detached(activRuns)
           one == {r}
<1>1. k \in Classes /\ m.runs[r].splitting = ClassSize(k)
  BY SplittingFacts DEF Good, Sane
<1>2. /\ activRuns \in [Classes -> DOMAIN m.runs \union {NULL}]
      /\ \A j \in Classes : activRuns[j] # NULL => m.runs[activRuns[j]].splitting = ClassSize(j)
  BY DEF Active
<1>3. IsMem(m) /\ r # NULL
  BY NullAssumption DEF Good, Sane
<1>4. \A x : x \in before <=> \E j \in Classes : x = RunNode(activRuns[j])
  BY DEF Detached
<1>5. \A j \in Classes : activRuns[j] = r => j = k
  BY <1>1, <1>2, <1>3, ClassesDiffer
<1>6. CASE activRuns[k] = r
  <2> DEFINE activ == [activRuns EXCEPT ![k] = NULL]
             d == Detach(m, r)
  <2>1. d.mem = m /\ d.activ = activ
    BY <1>6 DEF Detach
  <2>2. /\ activ[k] = NULL /\ \A j \in Classes : j # k => activ[j] = activRuns[j]
        /\ activ \in [Classes -> DOMAIN m.runs \union {NULL}]
    <3> HIDE DEF k
    <3> QED BY <1>1, <1>2
  <2>3. \A x : x \in Detached(activ) <=> \E j \in Classes : x = RunNode(activ[j])
    BY DEF Detached
  <2> HIDE DEF activ, k, before, n
  <2>4. n \in before
    BY <1>1, <1>4, <1>6 DEF n
  <2>5. before \ {n} \subseteq Detached(activ)
    BY <1>4, <1>6, <2>2, <2>3 DEF n
  <2>6. Detached(activ) \subseteq (before \ {n}) \union {RunNode(NULL)}
    <3> SUFFICES ASSUME NEW j \in Classes, activ[j] # NULL
                 PROVE  RunNode(activ[j]) \in before /\ RunNode(activ[j]) # n
      BY <2>3
    <3>1. activ[j] = activRuns[j] /\ j # k
      BY <2>2
    <3>2. activ[j] # r
      BY <3>1, <1>5
    <3> QED BY <3>1, <3>2, <1>4, NodesDiffer DEF n
  <2>7. \A j \in Classes : activ[j] # NULL => activ[j] # r /\ m.runs[activ[j]].splitting = ClassSize(j)
    BY <1>2, <1>5, <2>2
  <2>8. Removed(m, activ, r, before)
    BY <2>2, <2>4, <2>5, <2>6, <2>7 DEF Removed, n
  <2>9. \A x \in before : \E q : x = RunNode(q)
    BY <1>4
  <2> QED BY <2>1, <2>8, <2>9, <1>3 DEF before
<1>7. CASE activRuns[k] # r
  <2> DEFINE new == [m EXCEPT !.lists = RemoveNode(@, n)]
             d == Detach(m, r)
             out == before \union {n}
  <2>1. d.mem = new /\ d.activ = activRuns
    BY <1>7 DEF Detach
  <2>2. /\ IsMem(new) /\ new.runs = m.runs /\ new.containers = m.containers
        /\ new.lists = RemoveNode(m.lists, n)
    BY <1>3 DEF IsMem
  <2>3. n \notin before
    <3> SUFFICES ASSUME NEW j \in Classes, n = RunNode(activRuns[j]) PROVE FALSE
      BY <1>4
    <3>1. activRuns[j] = r
      BY NodesDiffer
    <3> QED BY <3>1, <1>5, <1>7
  <2>4. Good(new, out, one, blocks)
    <3>1. Good(m, before, one, blocks)
      OBVIOUS
    <3> HIDE DEF new, before, one
    <3> QED BY <2>2, <2>3, <3>1, UnlinkRun
  <2> HIDE DEF new, before, k
  <2>5. \A x \in out : \E q : x = RunNode(q)
    BY <1>4
  <2>6. Removed(new, activRuns, r, out)
    <3>1. out \ {n} = before
      BY <2>3
    <3>2. \A j \in Classes : activRuns[j] # NULL =>
             activRuns[j] # r /\ new.runs[activRuns[j]].splitting = ClassSize(j)
      BY <1>2, <1>5, <1>7, <2>2
    <3>3. activRuns \in [Classes -> DOMAIN new.runs \union {NULL}]
      BY <1>2, <2>2
    <3> QED BY <3>1, <3>2, <3>3 DEF Removed, before
  <2> QED BY <2>1, <2>2, <2>4, <2>5, <2>6 DEF one
<1> QED BY <1>6, <1>7

(* The state of malloc and free is good again, for these blocks.            *)
Settled(s, blocks) ==
    /\ Good(s.mem, Detached(s.activ), {}, blocks)
    /\ Active(s.mem, s.activ)
    /\ Owned(s.mem.containers, hasSource, s.segments, unused)
    /\ hasSource => InService(s.mem.containers)

(* A container may have lost its last run. *)
LEMMA ReleaseFacts ==
    ASSUME NEW s, NEW blocks, s \in [mem : {s.mem}, segments : {s.segments}, activ : {s.activ}],
           Good(s.mem, Detached(s.activ), {}, blocks), Active(s.mem, s.activ),
           Owned(s.mem.containers, hasSource, s.segments, unused),
           NEW c \in DOMAIN s.mem.containers,
           hasSource => \A d \in DOMAIN s.mem.containers :
                          d # c => s.mem.containers[d].reservedRuns # 0
    PROVE  Settled(Release(s, c), blocks) /\ Release(s, c).segments \subseteq s.segments
<1> DEFINE m    == s.mem
           out  == Detached(s.activ)
           done == Release(s, c)
<1>1. CASE ~ (IsEmptyContainer(m, c) /\ hasSource)
  <2>1. done = s
    BY <1>1 DEF Release
  <2>3. hasSource => InService(m.containers)
    BY <1>1 DEF InService, IsEmptyContainer
  <2> QED BY <2>1, <2>3 DEF Settled
<1>2. CASE IsEmptyContainer(m, c) /\ hasSource
  <2> DEFINE mid == [m EXCEPT !.lists = RemoveNode(@, ContainerNode(c))]
             new == Forget(mid, c)
             segs == s.segments \ {c - SegmentHeader}
  <2>1. done.mem = new /\ done.segments = segs /\ done.activ = s.activ
    <3>1. done = [s EXCEPT !.mem = new, !.segments = segs]
      BY <1>2 DEF Release
    <3> HIDE DEF done, new, segs, mid, m
    <3> QED BY <3>1
  <2>2. Sane(m)
    BY DEF Good
  <2>3. mid.runs = m.runs /\ mid.containers = m.containers /\ mid.lists = RemoveNode(m.lists, ContainerNode(c))
    BY <2>2 DEF Sane, IsMem
  <2>4. RunsOf(mid, c) = RunsOf(m, c)
    BY <2>3 DEF RunsOf
  <2> HIDE DEF mid
  <2>5. IsRelease(m, new, c)
    BY <2>3, <2>4 DEF IsRelease, Forget, IsMem, Memory
  <2>6. m.containers[c].reservedRuns = 0
    BY <1>2 DEF IsEmptyContainer
  <2>7. \A n \in out : n \in NodeSet(m) =>
           \E r \in DOMAIN m.runs : n = RunNode(r) /\ m.runs[r].splitting # 0
    <3> SUFFICES ASSUME NEW k \in Classes, RunNode(s.activ[k]) \in NodeSet(m)
                 PROVE  s.activ[k] \in DOMAIN m.runs /\ m.runs[s.activ[k]].splitting # 0
      BY DEF Detached
    <3>1. RunNode(NULL) \notin NodeSet(m)
      <4>1. NULL \notin DOMAIN m.runs
        BY <2>2, NullAssumption DEF Sane
      <4> QED BY <4>1, NodesDiffer DEF NodeSet
    <3>2. s.activ[k] # NULL
      BY <3>1
    <3>3. s.activ[k] \in DOMAIN m.runs /\ m.runs[s.activ[k]].splitting = ClassSize(k)
      BY <3>2 DEF Active
    <3> QED BY <3>3, SizeOfClass
  <2>8. /\ Good(new, out, {}, blocks)
        /\ DOMAIN new.containers = DOMAIN m.containers \ {c}
        /\ \A d \in DOMAIN new.containers : new.containers[d] = m.containers[d]
        /\ \A r \in DOMAIN m.runs : m.runs[r].splitting # 0 => r \in DOMAIN new.runs
        /\ \A r \in DOMAIN new.runs : new.runs[r] = m.runs[r]
    <3>1. Good(m, out, {}, blocks) /\ c \in DOMAIN m.containers
      OBVIOUS
    <3> HIDE DEF m, new, out
    <3> QED BY <2>5, <2>6, <2>7, <3>1, ReleaseContainer
  <2> HIDE DEF new, segs, done
  <2>9. Active(new, s.activ)
    <3> DEFINE activ == s.activ
    <3>1. /\ activ \in [Classes -> DOMAIN m.runs \union {NULL}]
          /\ \A k \in Classes : activ[k] # NULL => m.runs[activ[k]].splitting = ClassSize(k)
      BY DEF Active
    <3> HIDE DEF activ, m
    <3>2. \A k \in Classes : activ[k] # NULL =>
             activ[k] \in DOMAIN new.runs /\ new.runs[activ[k]].splitting = ClassSize(k)
      <4> SUFFICES ASSUME NEW k \in Classes, activ[k] # NULL
                   PROVE  activ[k] \in DOMAIN new.runs /\ new.runs[activ[k]].splitting = ClassSize(k)
        OBVIOUS
      <4> DEFINE q == activ[k]
      <4>3. ClassSize(k) # 0
        BY SizeOfClass
      <4>4. q \in DOMAIN m.runs /\ m.runs[q].splitting = ClassSize(k)
        BY <3>1
      <4>1. q \in DOMAIN m.runs /\ m.runs[q].splitting = ClassSize(k) /\ ClassSize(k) # 0
        BY <4>3, <4>4
      <4> HIDE DEF q
      <4>2. q \in DOMAIN new.runs /\ new.runs[q] = m.runs[q]
        BY <2>8, <4>1
      <4> QED BY <4>1, <4>2 DEF q
    <3>3. activ \in [Classes -> DOMAIN new.runs \union {NULL}]
      BY <3>1, <3>2
    <3> QED BY <3>2, <3>3 DEF Active, activ
  <2>10. Owned(new.containers, hasSource, segs, unused)
    <3>1. /\ s.segments \subseteq Bases
          /\ DOMAIN m.containers = {b + SegmentHeader : b \in s.segments}
          /\ \A d \in DOMAIN m.containers : m.containers[d].size = SegmentSize - SegmentHeader
      BY <1>2 DEF Owned
    <3>2. DOMAIN new.containers = {b + SegmentHeader : b \in segs}
      <4>1. \A b \in s.segments : b \in Nat /\ SegmentHeader \in Nat
        BY <3>1, MemoryAssumption
      <4>2. \A b \in s.segments : b + SegmentHeader = c <=> b = c - SegmentHeader
        <5> SUFFICES ASSUME NEW b \in s.segments
                     PROVE  b + SegmentHeader = c <=> b = c - SegmentHeader
          OBVIOUS
        <5>1. c \in Nat /\ b \in Nat /\ SegmentHeader \in Nat
          BY <2>2, <4>1 DEF Sane
        <5> QED BY <5>1
      <4> HIDE DEF m
      <4> QED BY <2>8, <3>1, <4>2 DEF segs
    <3>3. segs \subseteq Bases
      BY <3>1 DEF segs
    <3>4. \A d \in DOMAIN new.containers : new.containers[d].size = SegmentSize - SegmentHeader
      BY <2>8, <3>1
    <3> QED BY <1>2, <3>2, <3>3, <3>4 DEF Owned
  <2>11. InService(new.containers)
    BY <1>2, <2>8 DEF InService
  <2>12. segs \subseteq s.segments
    BY DEF segs
  <2>13. Settled(done, blocks)
    BY <2>1, <2>8, <2>9, <2>10, <2>11 DEF Settled
  <2> QED BY <2>1, <2>12, <2>13 DEF done
<1> QED BY <1>1, <1>2

LEMMA MarkFacts ==
    ASSUME NEW m, NEW r \in DOMAIN m.runs, NEW blocks,
           Good(m, Detached(activRuns), {r}, blocks), Active(m, activRuns),
           Owned(m.containers, hasSource, segments, unused),
           hasSource => InService(m.containers),
           m.runs[r].splitting # 0, m.runs[r].cntAlloc = 0,
           \A b \in blocks : RunOf(b.ptr) # r
    PROVE  Settled(MarkRunAsFree(m, r), blocks) /\ MarkRunAsFree(m, r).segments \subseteq segments
<1> DEFINE d    == Detach(m, r)
           dm   == d.mem
           activ == d.activ
           bare == [dm EXCEPT !.runs[r] = SetSplitting(@, 0)]
           new  == RegEmpty(bare, r)
           c    == m.runs[r].container
           n    == RunNode(r)
           s    == [mem |-> new, segments |-> segments, activ |-> activ]
<1>1. /\ IsMem(dm) /\ dm.runs = m.runs /\ dm.containers = m.containers
      /\ \E out : /\ Good(dm, out, {r}, blocks)
                  /\ \A x \in out : \E q : x = RunNode(q)
                  /\ Removed(dm, activ, r, out)
  BY DetachFacts
<1>2. MarkRunAsFree(m, r) = Release(s, c)
  BY DEF MarkRunAsFree
<1> HIDE DEF d
<1>3. PICK out : /\ Good(dm, out, {r}, blocks)
                 /\ \A x \in out : \E q : x = RunNode(q)
                 /\ Removed(dm, activ, r, out)
  BY <1>1
<1>4. /\ c \in DOMAIN m.containers /\ m.runs[r] \in RunRecord
      /\ r \in Int
  BY DEF Good, Sane
<1>5. IsGiveBack(dm, new, c, r)
  <2> HIDE DEF dm
  <2>1. /\ IsMem(bare) /\ bare.lists = dm.lists /\ bare.containers = dm.containers
        /\ bare.runs = [dm.runs EXCEPT ![r] = SetSplitting(dm.runs[r], 0)]
    BY <1>1 DEF IsMem
  <2> HIDE DEF bare
  <2>2. bare.runs[r].container = c
    <3>1. SetSplitting(m.runs[r], 0) = [m.runs[r] EXCEPT !.splitting = 0]
      BY DEF SetSplitting
    <3>2. SetSplitting(m.runs[r], 0).container = c
      BY <3>1, <1>4 DEF RunRecord
    <3>3. bare.runs[r] = SetSplitting(m.runs[r], 0)
      BY <1>1, <2>1
    <3> QED BY <3>2, <3>3
  <2> HIDE DEF c
  <2>3. new = [bare EXCEPT !.lists = PutFirst(@, EmptyRuns(c), RunNode(r)),
                           !.containers[c].reservedRuns = @ - 1]
    BY <2>2 DEF RegEmpty
  <2> HIDE DEF new
  <2>4. /\ IsMem(new) /\ new.runs = bare.runs
        /\ new.lists = PutFirst(bare.lists, EmptyRuns(c), RunNode(r))
        /\ new.containers = [bare.containers EXCEPT ![c].reservedRuns = @ - 1]
    BY <2>1, <2>3 DEF IsMem
  <2> QED BY <2>1, <2>4 DEF IsGiveBack
<1> HIDE DEF new
<1> DEFINE none == {}
           after == Detached(activ)
<1>6. /\ Good(new, out \ {n}, none, blocks)
      /\ DOMAIN new.runs = DOMAIN m.runs /\ DOMAIN new.containers = DOMAIN m.containers
      /\ \A e \in DOMAIN m.containers :
           /\ new.containers[e].size = m.containers[e].size
           /\ new.containers[e].reservedRuns = IF e = c THEN m.containers[e].reservedRuns - 1
                                               ELSE m.containers[e].reservedRuns
      /\ \A q \in DOMAIN m.runs : q # r => new.runs[q] = m.runs[q]
  <2>1. /\ Good(dm, out, {r}, blocks) /\ c \in DOMAIN dm.containers /\ dm.runs[r].container = c
        /\ dm.runs[r].splitting # 0 /\ dm.runs[r].cntAlloc = 0 /\ r \in DOMAIN dm.runs
    BY <1>1, <1>3, <1>4
  <2>2. EmptyRuns(c) \notin out /\ RunNode(r) \in out
    BY <1>3, NodesDiffer DEF Removed
  <2> HIDE DEF dm, c, n, none
  <2>3. Good(new, out \ {RunNode(r)}, {}, blocks) /\ GivenBack(dm, new, c, r)
    BY <1>5, <2>1, <2>2, GiveBackRun
  <2> QED BY <1>1, <2>3 DEF n, none, GivenBack
<1> HIDE DEF dm, activ, c
<1>7. Good(new, after, none, blocks)
  <2>1. RunNode(NULL) \notin NodeSet(new)
    <3>1. NULL \notin DOMAIN new.runs
      BY <1>6, NullAssumption DEF Good, Sane
    <3> QED BY <3>1, NodesDiffer DEF NodeSet
  <2>2. NodeSet(new) \ (out \ {n}) = NodeSet(new) \ after
    BY <1>3, <2>1 DEF Removed
  <2> DEFINE left == out \ {n}
  <2> HIDE DEF left, after, none
  <2>3. Good(new, left, none, blocks) /\ NodeSet(new) \ left = NodeSet(new) \ after
    BY <1>6, <2>2 DEF left
  <2> QED BY <2>3, SameDetached
<1>8. Active(new, activ)
  <2>1. /\ activ \in [Classes -> DOMAIN m.runs \union {NULL}]
        /\ \A k \in Classes : activ[k] # NULL => activ[k] # r /\ m.runs[activ[k]].splitting = ClassSize(k)
    BY <1>1, <1>3 DEF Removed
  <2> QED BY <1>6, <2>1 DEF Active
<1>9. Owned(new.containers, hasSource, segments, unused)
  <2> DEFINE old == m.containers
             now == new.containers
  <2>1. /\ Owned(old, hasSource, segments, unused) /\ DOMAIN now = DOMAIN old
        /\ \A e \in DOMAIN old : now[e].size = old[e].size
    BY <1>6
  <2> HIDE DEF old, now
  <2>2. Owned(now, hasSource, segments, unused)
    BY <2>1, OwnedSame
  <2> QED BY <2>2 DEF now
<1>10. hasSource => \A e \in DOMAIN new.containers : e # c => new.containers[e].reservedRuns # 0
  BY <1>6 DEF InService
<1>11. c \in DOMAIN new.containers
  BY <1>4, <1>6 DEF c
<1>12. /\ s \in [mem : {s.mem}, segments : {s.segments}, activ : {s.activ}]
       /\ s.mem = new /\ s.segments = segments /\ s.activ = activ
  OBVIOUS
<1> HIDE DEF s
<1>13. Settled(Release(s, c), blocks) /\ Release(s, c).segments \subseteq s.segments
  <2>1. /\ Good(s.mem, Detached(s.activ), {}, blocks) /\ Active(s.mem, s.activ)
        /\ Owned(s.mem.containers, hasSource, s.segments, unused)
        /\ c \in DOMAIN s.mem.containers
        /\ hasSource => \A e \in DOMAIN s.mem.containers : e # c => s.mem.containers[e].reservedRuns # 0
    BY <1>7, <1>8, <1>9, <1>10, <1>11, <1>12 DEF after, none
  <2> QED BY <1>12, <2>1, ReleaseFacts
<1> QED BY <1>2, <1>12, <1>13 DEF s, activ, c

-----------------------------------------------------------------------------
(* The steps                                                               *)

(* The blocks that the other threads work on. *)
Rest(t) == {op[u].block : u \in {v \in Threads : pc[v] # "idle" /\ v # t}}

LEMMA HoldingSplit ==
    ASSUME NEW t \in Threads
    PROVE  /\ pc[t] = "idle" => Holding = live \union Rest(t)
           /\ pc[t] # "idle" => Holding = live \union Rest(t) \union {op[t].block}
           /\ (pc[t] = "idle" => Holding = live \union Rest(t))'
           /\ (pc[t] # "idle" => Holding = live \union Rest(t) \union {op[t].block})'
BY DEF Holding, Pending, Rest

LEMMA PendingFacts ==
    ASSUME ThreadsOK, NEW t \in Threads
    PROVE  /\ \A b \in live : b \notin Rest(t)
           /\ pc[t] # "idle" => /\ op[t].block \in BlockRecord /\ op[t].block \in Holding
                                /\ op[t].block \notin live /\ op[t].block \notin Rest(t)
<1>1. \A u \in Threads : op[u].block \notin live
  BY DEF ThreadsOK
<1>2. ASSUME pc[t] # "idle" PROVE op[t].block \in BlockRecord /\ op[t].block \in Holding
  <2>1. op[t].block \in BlockRecord \union {NULL} /\ op[t].block # NULL
    BY <1>2 DEF ThreadsOK
  <2> QED BY <1>2, <2>1 DEF Holding, Pending
<1>3. \A u \in Threads : u # t /\ pc[u] # "idle" => op[u].block # op[t].block
  BY DEF ThreadsOK
<1> QED BY <1>1, <1>2, <1>3 DEF Rest

(* The part of the invariant that is not of the threads. *)
MemOK ==
    /\ Good(mem, Detached(activRuns), {}, Holding)
    /\ Active(mem, activRuns)
    /\ Owned(mem.containers, hasSource, segments, unused)
    /\ hasSource => InService(mem.containers)

(* How the blocks in use change in a step. *)
Changes ==
    \E old, new : \/ Holding' = Holding
                  \/ Holding' = Holding \union {new}
                  \/ Holding' = Holding \ {old}
                  \/ Holding' = (Holding \ {old}) \union {new}

LEMMA SettledHolds ==
    ASSUME NEW s, Became(s), Settled(s, Holding'), UNCHANGED <<hasSource, unused>>
    PROVE  MemOK'
BY DEF MemOK, Settled, Became

(* What malloc and realloc do with the cell they get. *)
LEMMA AllocateStep ==
    ASSUME IInv, NEW size \in Requests, NEW r \in Allocate(size), Became(r),
           UNCHANGED <<hasSource, unused>>,
           Holding' = IF r.ptr = NULL THEN Holding ELSE Holding \union {Block(r.ptr, size)}
    PROVE  MemOK'
<1>1. CASE r = [mem |-> mem, segments |-> segments, activ |-> activRuns, ptr |-> NULL]
  <2>1. mem' = mem /\ segments' = segments /\ activRuns' = activRuns /\ r.ptr = NULL
    BY <1>1 DEF Became
  <2> QED BY <2>1 DEF IInv, MemOK
<1>2. CASE Gives(r, GetSizeClass(size), size)
  <2>1. Holding' = Holding \union {Block(r.ptr, size)}
    BY <1>2 DEF Gives
  <2> QED BY <1>2, <2>1 DEF Gives, MemOK, Became
<1> QED BY <1>1, <1>2, AllocateFacts

LEMMA NewBlock ==
    ASSUME IInv, NEW size \in Requests, NEW r \in Allocate(size), r.ptr # NULL
    PROVE  /\ Block(r.ptr, size) \in BlockRecord
           /\ \A a \in Holding : a # Block(r.ptr, size)
<1>1. Gives(r, GetSizeClass(size), size)
  <2>1. r # [mem |-> mem, segments |-> segments, activ |-> activRuns, ptr |-> NULL]
    OBVIOUS
  <2> QED BY <2>1, AllocateFacts
<1>2. Block(r.ptr, size).ptr = r.ptr
  BY DEF Block
<1> QED BY <1>1, <1>2 DEF Gives

LEMMA MallocStep ==
    ASSUME IInv, NEW t \in Threads, Malloc(t)
    PROVE  IInv' /\ Changes
<1>9. PICK size \in MallocSizes : \E r \in Allocate(size) :
        /\ Became(r)
        /\ live' = IF r.ptr = NULL THEN live ELSE live \union {Block(r.ptr, size)}
  BY DEF Malloc
<1>1. PICK r \in Allocate(size) :
        /\ Became(r)
        /\ live' = IF r.ptr = NULL THEN live ELSE live \union {Block(r.ptr, size)}
  BY <1>9
<1>2. size \in Requests /\ ThreadsOK
  BY DEF Requests, IInv
<1>3. UNCHANGED <<hasSource, unused, pc, op>>
  BY DEF Malloc
<1>4. Holding' = IF r.ptr = NULL THEN Holding ELSE Holding \union {Block(r.ptr, size)}
  BY <1>1, <1>3 DEF Holding, Pending
<1>5. MemOK'
  BY <1>1, <1>2, <1>3, <1>4, AllocateStep
<1>6. live' \subseteq BlockRecord
  BY <1>1, <1>2, NewBlock DEF ThreadsOK
<1>7. ASSUME NEW u \in Threads PROVE op'[u].block \notin live'
  <2>1. op[u].block \notin live /\ op' = op
    BY <1>2, <1>3 DEF ThreadsOK
  <2>2. CASE r.ptr = NULL
    BY <1>1, <2>1, <2>2
  <2>3. CASE r.ptr # NULL
    <3>1. op[u].block # Block(r.ptr, size)
      <4>1. CASE pc[u] = "idle"
        <5>1. op[u].block = NULL
          BY <4>1, <1>2 DEF ThreadsOK
        <5> QED BY <5>1, <1>2, <2>3, NewBlock, NoBlockAssumption DEF BlockRecord
      <4>2. CASE pc[u] # "idle"
        BY <4>2, <1>2, <2>3, NewBlock, PendingFacts
      <4> QED BY <4>1, <4>2
    <3> QED BY <1>1, <2>1, <2>3, <3>1
  <2> QED BY <2>2, <2>3
<1>8. ThreadsOK'
  BY <1>2, <1>3, <1>6, <1>7 DEF ThreadsOK
<1>10. Changes
  BY <1>4 DEF Changes
<1> QED BY <1>5, <1>8, <1>10 DEF IInv, MemOK

LEMMA MoveStep ==
    ASSUME IInv, NEW t \in Threads, Move(t)
    PROVE  IInv' /\ Changes
<1> DEFINE size == op[t].size
<1>1. PICK r \in Allocate(size) :
        /\ Became(r)
        /\ live' = IF r.ptr = NULL THEN live ELSE live \union {Block(r.ptr, size)}
  BY DEF Move
<1>2. ThreadsOK /\ pc[t] = "move"
  BY DEF Move, IInv
<1>3. UNCHANGED <<hasSource, unused, op>> /\ pc' = [pc EXCEPT ![t] = "free"]
  BY DEF Move
<1>4. /\ pc'[t] = "free" /\ \A u \in Threads : u # t => pc'[u] = pc[u]
      /\ pc' \in [Threads -> {"idle", "free", "move"}]
  BY <1>2, <1>3 DEF ThreadsOK
<1>9. size \in Requests
  BY <1>2 DEF ThreadsOK, Requests
<1> HIDE DEF size
<1>5. Holding' = IF r.ptr = NULL THEN Holding ELSE Holding \union {Block(r.ptr, size)}
  <2>1. Rest(t)' = Rest(t)
    BY <1>3, <1>4 DEF Rest
  <2>2. Holding = live \union Rest(t) \union {op[t].block}
    BY <1>2, HoldingSplit
  <2>3. Holding' = live' \union Rest(t)' \union {op'[t].block}
    BY <1>4, HoldingSplit
  <2> QED BY <1>1, <1>3, <2>1, <2>2, <2>3
<1>6. MemOK'
  BY <1>1, <1>3, <1>5, <1>9, AllocateStep
<1>7. live' \subseteq BlockRecord
  BY <1>1, <1>2, <1>9, NewBlock DEF ThreadsOK
<1>8. ASSUME NEW u \in Threads PROVE op'[u].block \notin live'
  <2>1. op[u].block \notin live /\ op' = op
    BY <1>2, <1>3 DEF ThreadsOK
  <2>2. CASE r.ptr = NULL
    BY <1>1, <2>1, <2>2
  <2>3. CASE r.ptr # NULL
    <3>1. op[u].block # Block(r.ptr, size)
      <4>1. CASE pc[u] = "idle"
        <5>1. op[u].block = NULL
          BY <4>1, <1>2 DEF ThreadsOK
        <5> QED BY <5>1, <1>9, <2>3, NewBlock, NoBlockAssumption DEF BlockRecord
      <4>2. CASE pc[u] # "idle"
        BY <4>2, <1>2, <1>9, <2>3, NewBlock, PendingFacts
      <4> QED BY <4>1, <4>2
    <3> QED BY <1>1, <2>1, <2>3, <3>1
  <2> QED BY <2>2, <2>3
<1>10. /\ \A u \in Threads : op'[u].block = NULL <=> pc'[u] = "idle"
       /\ \A u \in Threads : pc'[u] = "move" => op'[u].size \in ReallocSizes
       /\ \A u, v \in Threads : u # v /\ pc'[u] # "idle" => op'[u].block # op'[v].block
  <2>1. /\ \A u \in Threads : op[u].block = NULL <=> pc[u] = "idle"
        /\ \A u \in Threads : pc[u] = "move" => op[u].size \in ReallocSizes
        /\ \A u, v \in Threads : u # v /\ pc[u] # "idle" => op[u].block # op[v].block
    BY <1>2 DEF ThreadsOK
  <2>2. \A u \in Threads : pc'[u] = "idle" <=> pc[u] = "idle"
    BY <1>2, <1>4
  <2>3. \A u \in Threads : pc'[u] = "move" => pc[u] = "move"
    BY <1>2, <1>4
  <2> QED BY <1>3, <2>1, <2>2, <2>3
<1>11. ThreadsOK'
  BY <1>2, <1>3, <1>4, <1>7, <1>8, <1>10 DEF ThreadsOK
<1>12. Changes
  BY <1>5 DEF Changes
<1> QED BY <1>6, <1>11, <1>12 DEF IInv, MemOK

(* Where the cell of a block is. *)
LEMMA PlaceFacts ==
    ASSUME NEW m, NEW out, NEW fresh, NEW blocks, Good(m, out, fresh, blocks), NEW b \in blocks
    PROVE  LET r == RunOf(b.ptr)
           IN  /\ r \in DOMAIN m.runs /\ r \in Nat /\ r % RunSize = 0
               /\ m.runs[r].splitting # 0 /\ IsCut(m.runs[r])
               /\ b \in BlockRecord /\ b.size <= m.runs[r].splitting
               /\ CellOf(r, m.runs[r], b.ptr) \in AllCells(m.runs[r])
               /\ b.ptr = CellPtr(r, m.runs[r], CellOf(r, m.runs[r], b.ptr))
               /\ RunContain(r, m.runs[r], b.ptr)
<1> DEFINE r   == RunOf(b.ptr)
           run == m.runs[r]
           id  == CellOf(r, run, b.ptr)
<1>1. Sane(m) /\ Placed(m) /\ Cells(m.runs, fresh) /\ HasCell(m.runs, b)
  BY DEF Good, Held
<1>2. /\ r \in DOMAIN m.runs /\ run.splitting # 0 /\ b \in BlockRecord
      /\ b.size <= run.splitting /\ id \in AllCells(run) /\ b.ptr = CellPtr(r, run, id)
  BY <1>1 DEF HasCell
<1>3. IsCut(run)
  BY <1>1, <1>2 DEF Cells, CellsCounted
<1>4. r \in Nat /\ r % RunSize = 0
  <2> HIDE DEF r
  <2>1. r \in Nat
    BY <1>1, <1>2 DEF Sane
  <2>2. r % RunSize = 0
    BY <1>1, <1>2 DEF Placed, RunPlaced, FirstRuns
  <2> QED BY <2>1, <2>2
<1>5. RunContain(r, run, b.ptr)
  <2> HIDE DEF r, run, id
  <2>1. RunContain(r, run, CellPtr(r, run, id))
    BY <1>2, <1>3, <1>4, CellFacts
  <2> QED BY <2>1, <1>2, Zenon
<1> QED BY <1>2, <1>3, <1>4, <1>5

LEMMA FreeBeginStep ==
    ASSUME IInv, NEW t \in Threads, FreeBegin(t)
    PROVE  IInv' /\ Changes
<1>1. PICK b \in live :
        /\ live' = live \ {b}
        /\ IF RunContain(RunOf(b.ptr), mem.runs[RunOf(b.ptr)], b.ptr)
             THEN /\ pc' = [pc EXCEPT ![t] = "free"]
                  /\ op' = [op EXCEPT ![t] = [NoOp EXCEPT !.block = b]]
             ELSE UNCHANGED <<pc, op>>
  BY DEF FreeBegin
<1>2. ThreadsOK /\ pc[t] = "idle" /\ UNCHANGED <<hasSource, mem, activRuns, segments, unused>>
  BY DEF FreeBegin, IInv
<1>3. b \in Holding /\ Good(mem, Detached(activRuns), {}, Holding)
  BY DEF Holding, IInv
<1>4. RunContain(RunOf(b.ptr), mem.runs[RunOf(b.ptr)], b.ptr) /\ b \in BlockRecord
  <2> DEFINE blocks == Holding
             out    == Detached(activRuns)
             none   == {}
  <2>1. b \in blocks /\ Good(mem, out, none, blocks)
    BY <1>3
  <2> HIDE DEF blocks, out, none
  <2> QED BY <2>1, PlaceFacts
<1>5. /\ pc' = [pc EXCEPT ![t] = "free"]
      /\ op' = [op EXCEPT ![t] = [block |-> b, size |-> 0]]
  BY <1>1, <1>4 DEF NoOp
<1>6. /\ pc'[t] = "free" /\ \A u \in Threads : u # t => pc'[u] = pc[u]
      /\ pc' \in [Threads -> {"idle", "free", "move"}]
      /\ op'[t].block = b /\ \A u \in Threads : u # t => op'[u] = op[u]
      /\ op' \in [Threads -> [block : BlockRecord \union {NULL}, size : Nat]]
  BY <1>2, <1>4, <1>5 DEF ThreadsOK
<1>7. Holding' = Holding
  <2>1. Rest(t)' = Rest(t)
    BY <1>6 DEF Rest
  <2>2. Holding = live \union Rest(t)
    BY <1>2, HoldingSplit
  <2>3. Holding' = live' \union Rest(t)' \union {b}
    BY <1>6, HoldingSplit
  <2> QED BY <1>1, <2>1, <2>2, <2>3
<1>8. MemOK'
  BY <1>2, <1>7 DEF IInv, MemOK
<1>9. \A u \in Threads : op[u].block # b
  BY <1>2 DEF ThreadsOK
<1>10. \A u \in Threads : op'[u].block \notin live'
  BY <1>1, <1>2, <1>6 DEF ThreadsOK
<1>11. \A u \in Threads : op'[u].block = NULL <=> pc'[u] = "idle"
  BY <1>2, <1>4, <1>6, NoBlockAssumption DEF ThreadsOK, BlockRecord
<1>12. \A u, v \in Threads : u # v /\ pc'[u] # "idle" => op'[u].block # op'[v].block
  BY <1>2, <1>6, <1>9 DEF ThreadsOK
<1>13. \A u \in Threads : pc'[u] = "move" => op'[u].size \in ReallocSizes
  BY <1>2, <1>6 DEF ThreadsOK
<1>14. ThreadsOK'
  BY <1>1, <1>2, <1>6, <1>10, <1>11, <1>12, <1>13 DEF ThreadsOK
<1>15. Changes
  BY <1>7 DEF Changes
<1> QED BY <1>8, <1>14, <1>15 DEF IInv, MemOK

(* A block changes its size in its cell. *)
LEMMA ResizeBlock ==
    ASSUME NEW runs, NEW blocks, Held(runs, blocks), NEW b \in blocks,
           NEW c \in BlockRecord, c.ptr = b.ptr, c.size <= runs[RunOf(b.ptr)].splitting
    PROVE  Held(runs, (blocks \ {b}) \union {c})
<1> DEFINE left == (blocks \ {b}) \union {c}
<1>1. HasCell(runs, c)
  BY DEF Held, HasCell
<1>2. \A a \in left : HasCell(runs, a)
  BY <1>1 DEF Held
<1>3. \A a, d \in left : a.ptr = d.ptr => a = d
  BY DEF Held
<1>4. ASSUME NEW r \in DOMAIN runs, runs[r].splitting # 0,
             NEW id \in AllCells(runs[r]), id \notin runs[r].free
      PROVE  \E a \in left : a.ptr = CellPtr(r, runs[r], id)
  <2>1. PICK a \in blocks : a.ptr = CellPtr(r, runs[r], id)
    BY <1>4 DEF Held
  <2>2. CASE a = b
    BY <2>1, <2>2
  <2>3. CASE a # b
    BY <2>1, <2>3
  <2> QED BY <2>2, <2>3
<1> HIDE DEF left
<1>5. Held(runs, left)
  BY <1>2, <1>3, <1>4 DEF Held
<1> QED BY <1>5 DEF left

LEMMA ReallocBeginStep ==
    ASSUME IInv, NEW t \in Threads, ReallocBegin(t)
    PROVE  IInv' /\ Changes
<1>1. PICK b \in live, size \in ReallocSizes :
        IF GetSizeClass(mem.runs[RunOf(b.ptr)].splitting) = GetSizeClass(size)
          THEN /\ live' = (live \ {b}) \union {Block(b.ptr, size)}
               /\ UNCHANGED <<pc, op>>
          ELSE /\ live' = live \ {b}
               /\ pc' = [pc EXCEPT ![t] = "move"]
               /\ op' = [op EXCEPT ![t] = [block |-> b, size |-> size]]
  BY DEF ReallocBegin
<1>2. ThreadsOK /\ pc[t] = "idle" /\ UNCHANGED <<hasSource, mem, activRuns, segments, unused>>
  BY DEF ReallocBegin, IInv
<1>3. b \in Holding /\ Good(mem, Detached(activRuns), {}, Holding)
  BY DEF Holding, IInv
<1>4. b \in BlockRecord /\ size \in 1..128
  BY <1>2, RequestsAssumption DEF ThreadsOK, Requests
<1>5. \A u \in Threads : op[u].block # b
  BY <1>2 DEF ThreadsOK
<1>6. CASE GetSizeClass(mem.runs[RunOf(b.ptr)].splitting) = GetSizeClass(size)
  <2> DEFINE c == Block(b.ptr, size)
  <2>1. live' = (live \ {b}) \union {c} /\ UNCHANGED <<pc, op>>
    BY <1>1, <1>6
  <2>2. c \in BlockRecord /\ c.ptr = b.ptr /\ c.size = size
    BY <1>4 DEF Block, BlockRecord
  <2> HIDE DEF c
  <2>3. Holding' = (Holding \ {b}) \union {c}
    <3>1. Rest(t)' = Rest(t) /\ b \notin Rest(t)
      BY <2>1, <1>2, PendingFacts DEF Rest
    <3>2. Holding = live \union Rest(t) /\ Holding' = live' \union Rest(t)'
      BY <1>2, <2>1, HoldingSplit
    <3> QED BY <2>1, <3>1, <3>2
  <2>4. size <= mem.runs[RunOf(b.ptr)].splitting
    <3> DEFINE n == mem.runs[RunOf(b.ptr)].splitting
    <3>1. n \in Splittings /\ n # 0
      <4>1. HasCell(mem.runs, b) /\ Sane(mem)
        BY <1>3 DEF Good, Held
      <4> QED BY <4>1 DEF HasCell, Sane
    <3> HIDE DEF n
    <3>2. n = ClassSize(GetSizeClass(n))
      BY <3>1, SplittingFacts
    <3>3. size <= ClassSize(GetSizeClass(size))
      BY <1>4, ClassFacts
    <3>4. GetSizeClass(n) = GetSizeClass(size)
      BY <1>6 DEF n
    <3>5. n = ClassSize(GetSizeClass(size))
      BY <3>2, <3>4, Zenon
    <3> QED BY <3>3, <3>5 DEF n
  <2>5. Held(mem.runs, (Holding \ {b}) \union {c})
    <3> DEFINE blocks == Holding
               runs   == mem.runs
    <3>1. Held(runs, blocks) /\ b \in blocks /\ c.size <= runs[RunOf(b.ptr)].splitting
      BY <1>3, <2>2, <2>4 DEF Good
    <3> HIDE DEF blocks, runs
    <3>2. Held(runs, (blocks \ {b}) \union {c})
      BY <2>2, <3>1, ResizeBlock
    <3> QED BY <3>2 DEF blocks, runs
  <2>6. Good(mem, Detached(activRuns), {}, Holding')
    BY <1>3, <2>3, <2>5 DEF Good
  <2>7. MemOK'
    BY <1>2, <2>6 DEF IInv, MemOK
  <2>8. ASSUME NEW u \in Threads PROVE op[u].block # c
    <3>1. CASE pc[u] = "idle"
      BY <3>1, <1>2, <2>2, NoBlockAssumption DEF ThreadsOK, BlockRecord
    <3>2. CASE pc[u] # "idle"
      <4>1. op[u].block \in Holding
        BY <3>2, <1>2, PendingFacts
      <4>2. op[u].block # b
        BY <1>5
      <4> QED BY <4>1, <4>2, <1>3, <2>2 DEF Good, Held
    <3> QED BY <3>1, <3>2
  <2>9. ThreadsOK'
    BY <1>2, <2>1, <2>2, <2>8 DEF ThreadsOK
  <2>10. Changes
    BY <2>3 DEF Changes
  <2> QED BY <2>7, <2>9, <2>10 DEF IInv, MemOK
<1>7. CASE GetSizeClass(mem.runs[RunOf(b.ptr)].splitting) # GetSizeClass(size)
  <2>1. /\ live' = live \ {b}
        /\ pc' = [pc EXCEPT ![t] = "move"]
        /\ op' = [op EXCEPT ![t] = [block |-> b, size |-> size]]
    BY <1>1, <1>7
  <2>2. /\ pc'[t] = "move" /\ \A u \in Threads : u # t => pc'[u] = pc[u]
        /\ pc' \in [Threads -> {"idle", "free", "move"}]
        /\ op'[t].block = b /\ op'[t].size = size /\ \A u \in Threads : u # t => op'[u] = op[u]
        /\ op' \in [Threads -> [block : BlockRecord \union {NULL}, size : Nat]]
    BY <1>2, <1>4, <2>1 DEF ThreadsOK
  <2>3. Holding' = Holding
    <3>1. Rest(t)' = Rest(t)
      BY <2>2 DEF Rest
    <3>2. Holding = live \union Rest(t)
      BY <1>2, HoldingSplit
    <3>3. Holding' = live' \union Rest(t)' \union {b}
      BY <2>2, HoldingSplit
    <3> QED BY <2>1, <3>1, <3>2, <3>3
  <2>4. MemOK'
    BY <1>2, <2>3 DEF IInv, MemOK
  <2>5. \A u \in Threads : op'[u].block \notin live'
    BY <1>2, <2>1, <2>2 DEF ThreadsOK
  <2>6. \A u \in Threads : op'[u].block = NULL <=> pc'[u] = "idle"
    BY <1>2, <1>4, <2>2, NoBlockAssumption DEF ThreadsOK, BlockRecord
  <2>7. \A u, v \in Threads : u # v /\ pc'[u] # "idle" => op'[u].block # op'[v].block
    BY <1>2, <1>5, <2>2 DEF ThreadsOK
  <2>8. \A u \in Threads : pc'[u] = "move" => op'[u].size \in ReallocSizes
    BY <1>2, <2>2 DEF ThreadsOK
  <2>9. ThreadsOK'
    BY <1>2, <2>1, <2>2, <2>5, <2>6, <2>7, <2>8 DEF ThreadsOK
  <2>10. Changes
    BY <2>3 DEF Changes
  <2> QED BY <2>4, <2>9, <2>10 DEF IInv, MemOK
<1> QED BY <1>6, <1>7

LEMMA FreeCellStep ==
    ASSUME IInv, NEW t \in Threads, FreeCell(t)
    PROVE  IInv' /\ Changes
<1> DEFINE b   == op[t].block
           r   == RunOf(b.ptr)
           run == RunFree(mem.runs[r], CellOf(r, mem.runs[r], b.ptr))
           new == [mem EXCEPT !.runs[r] = run]
           s   == IF IsEmptyRun(run) THEN MarkRunAsFree(new, r)
                  ELSE [mem |-> new, segments |-> segments, activ |-> activRuns]
           out == Detached(activRuns)
           blocks == Holding
           left == blocks \ {b}
<1>1. /\ Became(s) /\ UNCHANGED <<hasSource, unused, live>>
      /\ pc' = [pc EXCEPT ![t] = "idle"] /\ op' = [op EXCEPT ![t] = NoOp] /\ pc[t] = "free"
  BY DEF FreeCell
<1>2. ThreadsOK
  BY DEF IInv
<1>3. b \in blocks /\ b \notin live /\ b \notin Rest(t)
  BY <1>1, <1>2, PendingFacts
<1>4. /\ Good(mem, out, {}, blocks) /\ Active(mem, activRuns)
      /\ Owned(mem.containers, hasSource, segments, unused)
      /\ hasSource => InService(mem.containers)
  BY DEF IInv
<1>5. IsFree(mem, new, r, b)
  <2>1. IsMem(mem)
    BY <1>4 DEF Good, Sane
  <2>2. IsMem(new) /\ new.containers = mem.containers /\ new.lists = mem.lists
    BY <2>1 DEF IsMem
  <2>3. new.runs = [mem.runs EXCEPT ![r] = run]
    BY <2>1 DEF IsMem
  <2> QED BY <2>2, <2>3 DEF IsFree
<1> HIDE DEF new, s
<1>6. /\ Good(new, out, {r}, left)
      /\ new.runs[r].cntAlloc # 0 => Good(new, out, {}, left)
      /\ new.runs[r].cntAlloc = 0 => \A a \in left : RunOf(a.ptr) # r
      /\ Returned(mem, new, r)
  <2>1. b \in blocks /\ Good(mem, out, {}, blocks)
    BY <1>3, <1>4
  <2> HIDE DEF b, blocks, out, r
  <2> QED BY <1>5, <2>1, GiveCell
<1>7. new.runs[r] = run
  <2>1. r \in DOMAIN mem.runs
    BY <1>6 DEF Returned
  <2> HIDE DEF r, run
  <2> QED BY <2>1, <1>5 DEF IsFree, run, r
<1> HIDE DEF r, run, out, blocks, left
<1>8. Active(new, activRuns)
  BY <1>4, <1>6 DEF Active, Returned
<1>9. Settled(s, left)
  <2>1. CASE IsEmptyRun(run)
    <3>1. s = MarkRunAsFree(new, r)
      BY <2>1 DEF s
    <3>2. new.runs[r].cntAlloc = 0
      BY <1>7, <2>1 DEF IsEmptyRun
    <3>3. /\ r \in DOMAIN new.runs /\ new.runs[r].splitting # 0 /\ new.containers = mem.containers
      BY <1>6 DEF Returned
    <3>4. Settled(MarkRunAsFree(new, r), left)
      BY <1>4, <1>6, <1>8, <3>2, <3>3, MarkFacts DEF out
    <3> QED BY <3>1, <3>4
  <2>2. CASE ~ IsEmptyRun(run)
    <3>1. s.mem = new /\ s.segments = segments /\ s.activ = activRuns
      BY <2>2 DEF s
    <3>2. Good(new, out, {}, left)
      BY <1>6, <1>7, <2>2 DEF IsEmptyRun
    <3>3. new.containers = mem.containers
      BY <1>6 DEF Returned
    <3> QED BY <1>4, <1>8, <3>1, <3>2, <3>3 DEF Settled, out
  <2> QED BY <2>1, <2>2
<1>10. /\ pc'[t] = "idle" /\ \A u \in Threads : u # t => pc'[u] = pc[u]
       /\ pc' \in [Threads -> {"idle", "free", "move"}]
       /\ op'[t].block = NULL /\ \A u \in Threads : u # t => op'[u] = op[u]
       /\ op' \in [Threads -> [block : BlockRecord \union {NULL}, size : Nat]]
  BY <1>1, <1>2 DEF ThreadsOK, NoOp
<1>11. Holding' = left
  <2>1. Rest(t)' = Rest(t)
    BY <1>10 DEF Rest
  <2>2. Holding = live \union Rest(t) \union {b}
    BY <1>1, HoldingSplit
  <2>3. Holding' = live' \union Rest(t)'
    BY <1>10, HoldingSplit
  <2> QED BY <1>1, <1>3, <2>1, <2>2, <2>3 DEF left, blocks
<1>12. MemOK'
  BY <1>1, <1>9, <1>11, SettledHolds
<1>13. NULL \notin live
  BY <1>2, NoBlockAssumption DEF ThreadsOK, BlockRecord
<1>14. \A u \in Threads : op'[u].block \notin live'
  BY <1>1, <1>2, <1>10, <1>13 DEF ThreadsOK
<1>15. \A u \in Threads : op'[u].block = NULL <=> pc'[u] = "idle"
  BY <1>2, <1>10 DEF ThreadsOK
<1>16. \A u, v \in Threads : u # v /\ pc'[u] # "idle" => op'[u].block # op'[v].block
  <2> SUFFICES ASSUME NEW u \in Threads, NEW v \in Threads, u # v, pc'[u] # "idle"
               PROVE  op'[u].block # op'[v].block
    OBVIOUS
  <2>1. u # t /\ op'[u].block = op[u].block /\ op[u].block # NULL
    BY <1>2, <1>10 DEF ThreadsOK
  <2>2. CASE v = t
    BY <2>1, <2>2, <1>10
  <2>3. CASE v # t
    BY <2>1, <2>3, <1>2, <1>10 DEF ThreadsOK
  <2> QED BY <2>2, <2>3
<1>17. \A u \in Threads : pc'[u] = "move" => op'[u].size \in ReallocSizes
  BY <1>2, <1>10 DEF ThreadsOK
<1>18. ThreadsOK'
  BY <1>1, <1>2, <1>10, <1>14, <1>15, <1>16, <1>17 DEF ThreadsOK
<1>19. Changes
  BY <1>11 DEF Changes, left, blocks
<1> QED BY <1>12, <1>18, <1>19 DEF IInv, MemOK

LEMMA FillStep ==
    ASSUME IInv, Fill
    PROVE  IInv' /\ Changes
<1>1. PICK area \in unused, header \in {0, SegmentHeader} :
        /\ mem' = AddContainer(mem, area[1] + header, area[2] - header)
        /\ unused' = unused \ {area}
  BY DEF Fill
<1>2. ~ hasSource /\ UNCHANGED <<hasSource, activRuns, segments, live, pc, op>>
  BY DEF Fill
<1> DEFINE ptr  == area[1] + header
           size == area[2] - header
           out  == Detached(activRuns)
           blocks == Holding
           new  == AddContainer(mem, ptr, size)
           none == {}
<1>3. /\ Good(mem, out, none, blocks) /\ Active(mem, activRuns) /\ ThreadsOK
      /\ segments = {} /\ unused \subseteq Areas
      /\ \A c \in DOMAIN mem.containers : \E a \in Areas \ unused, h \in {0, SegmentHeader} :
           c = a[1] + h /\ mem.containers[c].size = a[2] - h
  BY <1>2 DEF IInv, Owned
<1>4. IsGiven(ptr, size) /\ area \in Areas
  <2>1. area \in Areas
    BY <1>3
  <2> DEFINE start(a, h) == a[1] + h
             bytes(a, h) == a[2] - h
             G == {[start |-> start(a, h), size |-> bytes(a, h)] : a \in Areas, h \in {0, SegmentHeader}}
  <2>2. G \subseteq Given
    BY DEF Given
  <2>3. ptr = start(area, header) /\ size = bytes(area, header)
    OBVIOUS
  <2> HIDE DEF start, bytes, ptr, size
  <2>4. [start |-> start(area, header), size |-> bytes(area, header)] \in G
    BY <2>1
  <2>5. [start |-> ptr, size |-> size] \in G
    BY <2>3, <2>4
  <2> HIDE DEF G
  <2> QED BY <2>1, <2>2, <2>5 DEF IsGiven
<1>5. \A c \in DOMAIN mem.containers : MemoryApart(ptr, size, c, mem.containers[c].size)
  <2> SUFFICES ASSUME NEW c \in DOMAIN mem.containers
               PROVE  MemoryApart(ptr, size, c, mem.containers[c].size)
    OBVIOUS
  <2>1. PICK a \in Areas \ unused, h \in {0, SegmentHeader} :
          c = a[1] + h /\ mem.containers[c].size = a[2] - h
    BY <1>3
  <2>2. /\ a \in Nat \X Nat /\ area \in Nat \X Nat /\ h \in Nat /\ header \in Nat
        /\ area[1] + area[2] <= a[1] \/ a[1] + a[2] <= area[1]
    BY <1>4, MemoryAssumption
  <2>3. a[1] \in Nat /\ a[2] \in Nat /\ area[1] \in Nat /\ area[2] \in Nat
    BY <2>2
  <2> QED BY <2>1, <2>2, <2>3 DEF MemoryApart
<1> HIDE DEF ptr, size
<1>6. IsAdd(mem, new, ptr, size)
  BY <1>4, AddContainerAdds
<1>7. \A n \in out : \E q \in DOMAIN mem.runs \union {NULL} : n = RunNode(q)
  BY <1>3 DEF Active, Detached
<1>8. Good(new, out, none, blocks) /\ AddedTo(mem, new, ptr, size)
  <2> HIDE DEF new, out, blocks
  <2> QED BY <1>3, <1>4, <1>5, <1>6, <1>7, NewContainer
<1>9. mem' = new
  BY <1>1 DEF ptr, size
<1> HIDE DEF new
<1>10. Holding' = Holding
  BY <1>2 DEF Holding, Pending
<1>11. Good(mem', Detached(activRuns)', {}, Holding')
  BY <1>2, <1>8, <1>9, <1>10
<1>12. Active(mem', activRuns')
  BY <1>2, <1>3, <1>8, <1>9 DEF Active, AddedTo
<1>13. Owned(mem'.containers, hasSource', segments', unused')
  <2>1. \A c \in DOMAIN new.containers : \E a \in Areas \ unused', h \in {0, SegmentHeader} :
           c = a[1] + h /\ new.containers[c].size = a[2] - h
    <3> SUFFICES ASSUME NEW c \in DOMAIN new.containers
                 PROVE  \E a \in Areas \ unused', h \in {0, SegmentHeader} :
                          c = a[1] + h /\ new.containers[c].size = a[2] - h
      OBVIOUS
    <3>1. CASE c = ptr
      BY <3>1, <1>1, <1>4, <1>8 DEF AddedTo, ptr, size
    <3>2. CASE c # ptr
      <4>1. c \in DOMAIN mem.containers /\ new.containers[c] = mem.containers[c]
        BY <3>2, <1>8 DEF AddedTo
      <4> QED BY <4>1, <1>1, <1>3
    <3> QED BY <3>1, <3>2
  <2> QED BY <2>1, <1>1, <1>2, <1>3, <1>9 DEF Owned
<1>14. ThreadsOK'
  BY <1>1, <1>2, <1>3 DEF ThreadsOK
<1>15. Changes
  BY <1>10 DEF Changes
<1> QED BY <1>2, <1>11, <1>12, <1>13, <1>14, <1>15 DEF IInv

LEMMA NoBlocks ==
    \A f : f = <<>> => /\ DOMAIN f = {} /\ f = [x \in {} |-> f[x]]
<1>1. DOMAIN <<>> = {}
  OBVIOUS
<1>2. <<>> = [x \in DOMAIN <<>> |-> <<>>[x]]
  OBVIOUS
<1> QED BY <1>1, <1>2

LEMMA InitHolds == Init => IInv
<1> SUFFICES ASSUME Init PROVE IInv
  OBVIOUS
<1> DEFINE roots == {Containers} \union {InUse(k) : k \in Classes}
           ls    == [next |-> <<>>, prev |-> <<>>]
           lists == AddNodes(ls, roots)
           none  == {}
           g     == Roots(mem)
<1>1. /\ hasSource \in BOOLEAN
      /\ mem = [runs |-> <<>>, containers |-> <<>>, lists |-> lists]
      /\ activRuns = [k \in Classes |-> NULL]
      /\ segments = {}
      /\ unused = IF hasSource THEN {} ELSE Areas
      /\ live = {}
      /\ pc = [t \in Threads |-> "idle"]
      /\ op = [t \in Threads |-> NoOp]
  BY DEF Init
<1>2. mem.runs = <<>> /\ mem.containers = <<>> /\ mem.lists = lists
  BY <1>1
<1>3. /\ DOMAIN mem.runs = {} /\ mem.runs = [x \in {} |-> mem.runs[x]]
      /\ DOMAIN mem.containers = {} /\ mem.containers = [x \in {} |-> mem.containers[x]]
  BY <1>2, NoBlocks
<1>4. Nodes(ls) = {} /\ IsLinks(ls)
  <2>1. ls.next = <<>> /\ ls.prev = <<>>
    OBVIOUS
  <2>2. ls \in [next : {ls.next}, prev : {ls.prev}]
    OBVIOUS
  <2> HIDE DEF ls
  <2> QED BY <2>1, <2>2, NoBlocks DEF Nodes, IsLinks
<1>5. NodeSet(mem) = roots
  BY <1>3 DEF NodeSet
<1>6. \A n \in roots : g[n] = n
  BY <1>5, RootsFacts
<1>7. IsMem(mem)
  BY <1>1 DEF IsMem
<1> HIDE DEF ls, roots, none, g
<1>8. InRings(ls, none, g)
  <2>1. Rings(ls, none, g)
    BY DEF Rings, none
  <2>2. Ordered(ls, none, g)
    <3>1. [x \in {} |-> 0] \in [none -> Nat]
      BY DEF none
    <3> QED BY <3>1 DEF Ordered, none
  <2> QED BY <1>4, <2>1, <2>2 DEF InRings
<1>9. InRings(lists, roots, g) /\ Nodes(lists) = roots
  <2>1. none \union roots = roots /\ roots \in SUBSET roots /\ Nodes(ls) \intersect roots = {}
    BY <1>4 DEF none
  <2>2. InRings(lists, none \union roots, g) /\ Nodes(lists) = Nodes(ls) \union roots
    BY <1>6, <1>8, <2>1, AddNodesRings
  <2> QED BY <1>4, <2>1, <2>2
<1> HIDE DEF lists
<1>10. Sane(mem)
  BY <1>2, <1>3, <1>5, <1>7, <1>9, FS_EmptySet DEF Sane
<1>11. RunNode(NULL) \notin NodeSet(mem)
  <2>1. NULL \notin DOMAIN mem.runs
    BY <1>3
  <2> QED BY <2>1, NodesDiffer DEF NodeSet
<1>12. \A x \in Detached(activRuns) : x = RunNode(NULL)
  BY <1>1 DEF Detached
<1>13. Listed(mem, Detached(activRuns))
  <2>1. NodeSet(mem) \ Detached(activRuns) = roots
    BY <1>5, <1>11, <1>12
  <2> QED BY <1>2, <1>9, <2>1 DEF Listed, g
<1>14. Holding = {}
  <2>1. \A t \in Threads : pc[t] = "idle"
    BY <1>1
  <2> HIDE DEF ls
  <2> QED BY <1>1, <2>1 DEF Holding, Pending
<1>15. Good(mem, Detached(activRuns), {}, Holding)
  BY <1>3, <1>10, <1>13, <1>14 DEF Good, Counted, Placed, Cells, Held
<1>16. Active(mem, activRuns)
  BY <1>1 DEF Active
<1>17. Owned(mem.containers, hasSource, segments, unused)
  BY <1>1, <1>3 DEF Owned
<1>18. InService(mem.containers)
  BY <1>3 DEF InService
<1>19. ThreadsOK
  BY <1>1 DEF ThreadsOK, NoOp
<1> QED BY <1>15, <1>16, <1>17, <1>18, <1>19 DEF IInv

LEMMA NextStep == IInv /\ [Next]_vars => IInv' /\ Changes
<1> SUFFICES ASSUME IInv, [Next]_vars PROVE IInv' /\ Changes
  OBVIOUS
<1>1. CASE Next
  <2>1. CASE Fill
    BY <2>1, FillStep
  <2>2. CASE \E t \in Threads : \/ Malloc(t) \/ FreeBegin(t) \/ FreeCell(t)
                                \/ ReallocBegin(t) \/ Move(t)
    BY <2>2, MallocStep, FreeBeginStep, FreeCellStep, ReallocBeginStep, MoveStep
  <2> QED BY <1>1, <2>1, <2>2 DEF Next
<1>2. CASE UNCHANGED vars
  <2>1. UNCHANGED <<hasSource, mem, activRuns, segments, unused, live, pc, op>>
    BY <1>2 DEF vars
  <2>2. Holding' = Holding
    BY <2>1 DEF Holding, Pending
  <2>3. ThreadsOK'
    BY <2>1 DEF IInv, ThreadsOK
  <2>4. Changes
    BY <2>2 DEF Changes
  <2> QED BY <2>1, <2>2, <2>3, <2>4 DEF IInv
<1> QED BY <1>1, <1>2

(* The inductive invariant: the lists are rings around the roots of their   *)
(* kind, every run is in the one its splitting gives or is the active run   *)
(* of a class, counts are exact and every block has a cell of its own.      *)
THEOREM Invariant == Spec => []IInv
<1> QED BY InitHolds, NextStep, PTL DEF Spec

-----------------------------------------------------------------------------
(* Runs, lists and containers                                              *)

LEMMA MembersFacts ==
    ASSUME NEW m, NEW out, Sane(m), Listed(m, out), NEW root \in NodeSet(m),
           root \notin out, Roots(m)[root] = root
    PROVE  \A n : n \in Elements(m.lists, root) <=>
                    n \in NodeSet(m) /\ n \notin out /\ Roots(m)[n] = root /\ n # root
<1> DEFINE ls == m.lists
           S  == NodeSet(m) \ out
           g  == Roots(m)
<1>1. InRings(ls, S, g) /\ root \in S /\ g[root] = root /\ IsFiniteSet(Nodes(ls))
  BY NodesFinite DEF Listed
<1> HIDE DEF ls, S, g
<1>2. /\ \A n \in S : g[n] = root /\ n # root <=> n \in Elements(ls, root)
      /\ Elements(ls, root) \subseteq S
  BY <1>1, TraversalFacts
<1> QED BY <1>2 DEF ls, S, g

LEMMA DetachedFacts ==
    ASSUME IInv
    PROVE  /\ Sane(mem) /\ Listed(mem, Detached(activRuns)) /\ Counted(mem) /\ Placed(mem)
           /\ Cells(mem.runs, {}) /\ Held(mem.runs, Holding)
           /\ \A n \in Detached(activRuns) : \E q : n = RunNode(q)
           /\ \A r \in DOMAIN mem.runs :
                /\ RunNode(r) \in Detached(activRuns) <=> Actives(r) # {}
                /\ \A k \in Actives(r) : mem.runs[r].splitting = ClassSize(k)
<1>1. Good(mem, Detached(activRuns), {}, Holding) /\ Active(mem, activRuns)
  BY DEF IInv
<1>2. ASSUME NEW r \in DOMAIN mem.runs
      PROVE  /\ RunNode(r) \in Detached(activRuns) <=> Actives(r) # {}
             /\ \A k \in Actives(r) : mem.runs[r].splitting = ClassSize(k)
  <2>1. r # NULL
    BY <1>1, NullAssumption DEF Good, Sane
  <2>2. \A k \in Classes : RunNode(r) = RunNode(activRuns[k]) <=> activRuns[k] = r
    BY NodesDiffer
  <2> QED BY <1>1, <2>1, <2>2 DEF Active, Actives, Detached
<1> QED BY <1>1, <1>2 DEF Good, Detached

LEMMA TypesHold == IInv => TypeOK
<1> SUFFICES ASSUME IInv PROVE TypeOK
  OBVIOUS
<1>1. Sane(mem) /\ Placed(mem) /\ ThreadsOK /\ Active(mem, activRuns)
  BY DetachedFacts DEF IInv
<1>2. \A r \in Runs : /\ r % RunSize = 0
                      /\ mem.runs[r].splitting \in {0} \union {ClassSize(k) : k \in Classes}
                      /\ mem.runs[r].container \in DOMAIN mem.containers
  BY <1>1 DEF Runs, Sane, Placed, RunPlaced, FirstRuns, Splittings
<1>3. Nodes(mem.lists) =
         {Containers} \union {InUse(k) : k \in Classes} \union {RunNode(r) : r \in Runs}
           \union {ContainerNode(c) : c \in DOMAIN mem.containers}
           \union {EmptyRuns(c) : c \in DOMAIN mem.containers}
  BY <1>1 DEF Sane, NodeSet, Runs
<1>4. segments \subseteq Bases
  BY DEF IInv, Owned
<1> QED BY <1>1, <1>2, <1>3, <1>4 DEF TypeOK, ThreadsOK, Active, Runs

LEMMA ListsHold == IInv => ListsLinked
<1> SUFFICES ASSUME IInv, NEW n \in Nodes(mem.lists),
                    n \notin {RunNode(activRuns[k]) : k \in Classes}
             PROVE  WellLinked(mem.lists, n)
  BY DEF ListsLinked
<1> DEFINE ls == mem.lists
           S  == NodeSet(mem) \ Detached(activRuns)
           g  == Roots(mem)
<1>1. InRings(ls, S, g) /\ n \in S
  BY DetachedFacts DEF Listed, Sane, Detached
<1> HIDE DEF ls, S, g
<1>2. WellLinked(ls, n)
  BY <1>1, InRingsFacts DEF WellLinked
<1> QED BY <1>2 DEF ls

LEMMA PlacesHold == IInv => RunInOnePlace
<1> SUFFICES ASSUME IInv, NEW r \in Runs
             PROVE  LET size  == mem.runs[r].splitting
                        lists == {k \in Classes : RunNode(r) \in Elements(mem.lists, InUse(k))}
                        empty == {c \in DOMAIN mem.containers :
                                    RunNode(r) \in Elements(mem.lists, EmptyRuns(c))}
                    IN  IF size = 0
                          THEN /\ empty = {mem.runs[r].container}
                               /\ Actives(r) = {} /\ lists = {}
                          ELSE /\ empty = {}
                               /\ Actives(r) \intersect lists = {}
                               /\ Actives(r) \union lists = {GetSizeClass(size)}
  BY DEF RunInOnePlace
<1> DEFINE size  == mem.runs[r].splitting
           lists == {k \in Classes : RunNode(r) \in Elements(mem.lists, InUse(k))}
           empty == {c \in DOMAIN mem.containers :
                       RunNode(r) \in Elements(mem.lists, EmptyRuns(c))}
           out   == Detached(activRuns)
           n     == RunNode(r)
<1>1. /\ Sane(mem) /\ Listed(mem, out) /\ r \in DOMAIN mem.runs
      /\ \A x \in out : \E q : x = RunNode(q)
      /\ n \in out <=> Actives(r) # {}
      /\ \A k \in Actives(r) : size = ClassSize(k)
  BY DetachedFacts DEF Runs
<1>2. n \in NodeSet(mem) /\ Roots(mem)[n] = RunRoot(mem, r)
  BY <1>1, RootsFacts
<1>3. \A k \in Classes : n \in Elements(mem.lists, InUse(k)) <=> n \notin out /\ RunRoot(mem, r) = InUse(k)
  <2> SUFFICES ASSUME NEW k \in Classes
               PROVE  n \in Elements(mem.lists, InUse(k)) <=> n \notin out /\ RunRoot(mem, r) = InUse(k)
    OBVIOUS
  <2> DEFINE root == InUse(k)
  <2>1. root \in NodeSet(mem) /\ Roots(mem)[root] = root
    BY RootsFacts
  <2>2. root \notin out /\ n # root
    BY <1>1, NodesDiffer
  <2> HIDE DEF root, out, n
  <2>3. n \in Elements(mem.lists, root) <=>
          n \in NodeSet(mem) /\ n \notin out /\ Roots(mem)[n] = root /\ n # root
    BY <1>1, <2>1, <2>2, MembersFacts
  <2> QED BY <1>2, <2>2, <2>3 DEF root
<1>4. \A c \in DOMAIN mem.containers :
         n \in Elements(mem.lists, EmptyRuns(c)) <=> n \notin out /\ RunRoot(mem, r) = EmptyRuns(c)
  <2> SUFFICES ASSUME NEW c \in DOMAIN mem.containers
               PROVE  n \in Elements(mem.lists, EmptyRuns(c)) <=>
                        n \notin out /\ RunRoot(mem, r) = EmptyRuns(c)
    OBVIOUS
  <2> DEFINE root == EmptyRuns(c)
  <2>1. root \in NodeSet(mem) /\ Roots(mem)[root] = root
    BY RootsFacts
  <2>2. root \notin out /\ n # root
    BY <1>1, NodesDiffer
  <2> HIDE DEF root, out, n
  <2>3. n \in Elements(mem.lists, root) <=>
          n \in NodeSet(mem) /\ n \notin out /\ Roots(mem)[n] = root /\ n # root
    BY <1>1, <2>1, <2>2, MembersFacts
  <2> QED BY <1>2, <2>2, <2>3 DEF root
<1>5. size \in Splittings /\ mem.runs[r].container \in DOMAIN mem.containers
  BY <1>1 DEF Sane
<1> HIDE DEF out, n
<1>6. CASE size = 0
  <2>1. RunRoot(mem, r) = EmptyRuns(mem.runs[r].container)
    BY <1>6 DEF RunRoot
  <2>2. Actives(r) = {}
    <3> SUFFICES ASSUME NEW k \in Actives(r) PROVE FALSE
      OBVIOUS
    <3>1. size = ClassSize(k) /\ k \in Classes
      BY <1>1 DEF Actives
    <3>2. ClassSize(k) # 0
      BY <3>1, SizeOfClass
    <3> HIDE DEF size
    <3> QED BY <3>1, <3>2, <1>6
  <2>3. lists = {}
    BY <1>3, <2>1, NodesDiffer DEF n
  <2>4. empty = {mem.runs[r].container}
    BY <1>1, <1>4, <1>5, <2>1, <2>2, NodesDiffer DEF n
  <2> QED BY <1>6, <2>2, <2>3, <2>4
<1>7. CASE size # 0
  <2> DEFINE k0 == GetSizeClass(size)
  <2>1. RunRoot(mem, r) = InUse(k0)
    BY <1>7 DEF RunRoot
  <2>2. k0 \in Classes
    BY <1>5, <1>7, SplittingFacts
  <2>3. \A k \in Actives(r) : k = k0
    <3> SUFFICES ASSUME NEW k \in Actives(r) PROVE k = k0
      OBVIOUS
    <3>1. size = ClassSize(k) /\ k \in Classes
      BY <1>1 DEF Actives
    <3>2. GetSizeClass(ClassSize(k)) = k
      BY <3>1, SizeOfClass
    <3> QED BY <3>1, <3>2, Zenon
  <2> HIDE DEF k0
  <2>4. empty = {}
    BY <1>4, <2>1, NodesDiffer DEF n
  <2>5. lists = IF n \notin out THEN {k0} ELSE {}
    BY <1>3, <2>1, <2>2, NodesDiffer DEF n
  <2> HIDE DEF lists, empty
  <2>6. Actives(r) = IF n \notin out THEN {} ELSE {k0}
    BY <1>1, <2>3
  <2> QED BY <1>7, <2>4, <2>5, <2>6 DEF k0, lists, empty
<1> QED BY <1>6, <1>7

LEMMA ContainersHold == IInv => ContainersExact
<1> SUFFICES ASSUME IInv PROVE ContainersExact
  OBVIOUS
<1> DEFINE out == Detached(activRuns)
           root == Containers
           listed == Elements(mem.lists, Containers)
<1>1. /\ Sane(mem) /\ Listed(mem, out) /\ Counted(mem)
      /\ \A x \in out : \E q : x = RunNode(q)
  BY DetachedFacts
<1>2. \A n : n \in listed <=> n \in NodeSet(mem) /\ n \notin out /\ Roots(mem)[n] = root /\ n # root
  <2>1. root \in NodeSet(mem) /\ root \notin out /\ Roots(mem)[root] = root
    BY <1>1, RootsFacts, NodesDiffer
  <2> HIDE DEF root, out
  <2> QED BY <1>1, <2>1, MembersFacts DEF root
<1> HIDE DEF listed
<1>3. listed = {ContainerNode(c) : c \in DOMAIN mem.containers}
  <2>1. ASSUME NEW n \in listed PROVE n \in {ContainerNode(c) : c \in DOMAIN mem.containers}
    BY <1>1, <1>2, <2>1, MemberFacts
  <2>2. ASSUME NEW c \in DOMAIN mem.containers PROVE ContainerNode(c) \in listed
    BY <1>1, <1>2, <2>2, RootsFacts, NodesDiffer
  <2> QED BY <2>1, <2>2
<1>4. ASSUME NEW c \in DOMAIN mem.containers
      PROVE  /\ mem.containers[c].reservedRuns =
                  Cardinality({r \in RunsOf(mem, c) : mem.runs[r].splitting # 0})
             /\ hasSource => mem.containers[c].reservedRuns > 0
  <2>1. mem.containers[c].reservedRuns = Cardinality(UsedRuns(mem, c))
    BY <1>1 DEF Counted
  <2>2. Cardinality(UsedRuns(mem, c)) \in Nat
    BY <1>1, UsedRunsFinite, FS_CardinalityType
  <2>3. hasSource => mem.containers[c].reservedRuns # 0
    BY DEF IInv, InService
  <2> QED BY <2>1, <2>2, <2>3 DEF UsedRuns
<1>5. hasSource => DOMAIN mem.containers = {b + SegmentHeader : b \in segments}
  BY DEF IInv, Owned
<1> QED BY <1>3, <1>4, <1>5 DEF ContainersExact, listed

(* Runs and containers are exact: every list is linked both ways, a run is  *)
(* in the one list or the one class its splitting gives, and a container is *)
(* unmapped when, and only when, it has no run in use.                      *)
THEOREM RunsAreExact == Spec => []RunsExact
<1>1. IInv => RunsExact
  BY TypesHold, ListsHold, PlacesHold, ContainersHold DEF RunsExact
<1> QED BY <1>1, Invariant, PTL

-----------------------------------------------------------------------------
(* Cells                                                                   *)

LEMMA CellsHold == IInv => CellsExact
<1>0. SUFFICES ASSUME IInv PROVE CellsExact
  OBVIOUS
<1>1. /\ Good(mem, Detached(activRuns), {}, Holding)
      /\ Cells(mem.runs, {}) /\ Held(mem.runs, Holding)
  BY <1>0, DetachedFacts DEF IInv
<1>2. ASSUME NEW b \in Holding
      PROVE  RunOf(b.ptr) \in Runs /\ mem.runs[RunOf(b.ptr)].splitting # 0
  BY <1>1 DEF Held, HasCell, Runs
<1>3. ASSUME NEW r \in Runs, mem.runs[r].splitting # 0
      PROVE  LET run    == mem.runs[r]
                 blocks == {b \in Holding : RunOf(b.ptr) = r}
                 cells  == {CellOf(r, run, b.ptr) : b \in blocks}
             IN  /\ run.cntAlloc = Cardinality(blocks)
                 /\ run.cntAlloc = Cardinality(cells)
                 /\ run.cntAlloc > 0
                 /\ cells \intersect run.free = {}
                 /\ cells \union run.free = SetSplitting(run, run.splitting).free
  <2> DEFINE run    == mem.runs[r]
             blocks == {b \in Holding : RunOf(b.ptr) = r}
             cell(b) == CellOf(r, run, b.ptr)
             cells  == {cell(b) : b \in blocks}
             used   == AllCells(run) \ run.free
  <2>1. /\ IsCut(run) /\ run.free \subseteq AllCells(run)
        /\ run.cntAlloc = Cardinality(used) /\ run.cntAlloc # 0
    BY <1>1, <1>3 DEF Cells, CellsCounted, Runs
  <2>2. ASSUME NEW b \in blocks
        PROVE  cell(b) \in used /\ b.ptr = CellPtr(r, run, cell(b))
    BY <1>1, <2>2 DEF Held, HasCell
  <2>3. r \in Nat /\ r % RunSize = 0
    BY <1>1 DEF Runs, Good, Sane, Placed, RunPlaced, FirstRuns
  <2>4. ASSUME NEW id \in used PROVE \E b \in blocks : cell(b) = id
    <3>1. PICK b \in Holding : b.ptr = CellPtr(r, run, id)
      BY <1>1, <1>3, <2>4 DEF Held, Runs
    <3>2. RunOf(CellPtr(r, run, id)) = r /\ CellOf(r, run, CellPtr(r, run, id)) = id
      <4> HIDE DEF run
      <4>1. id \in AllCells(run)
        BY <2>4
      <4> QED BY <2>1, <2>3, <4>1, CellFacts
    <3>3. b \in blocks /\ cell(b) = id
      <4> HIDE DEF run
      <4> QED BY <3>1, <3>2
    <3> QED BY <3>3
  <2>5. \A a, b \in blocks : cell(a) = cell(b) => a = b
    <3> SUFFICES ASSUME NEW a \in blocks, NEW b \in blocks, cell(a) = cell(b) PROVE a = b
      OBVIOUS
    <3> HIDE DEF cell
    <3>1. a.ptr = b.ptr
      BY <2>2
    <3> QED BY <3>1, <1>1 DEF Held
  <2>6. IsFiniteSet(used)
    <3> HIDE DEF run
    <3> QED BY <2>1, CellsFinite, FS_Difference
  <2> HIDE DEF cell, blocks, used, run
  <2>7. cells = used
    BY <2>2, <2>4
  <2> HIDE DEF cells
  <2> DEFINE back == [x \in used |-> CHOOSE b \in blocks : cell(b) = x]
  <2>10. back \in [used -> blocks] /\ \A x \in used : cell(back[x]) = x
    <3>1. \A x \in used : LET b == CHOOSE b \in blocks : cell(b) = x IN b \in blocks /\ cell(b) = x
      BY <2>4
    <3> QED BY <3>1
  <2> HIDE DEF back
  <2>11. back \in Bijection(used, blocks)
    <3>1. \A b \in blocks : \E x \in used : back[x] = b
      <4> SUFFICES ASSUME NEW b \in blocks PROVE cell(b) \in used /\ back[cell(b)] = b
        OBVIOUS
      <4>1. cell(b) \in used
        BY <2>2
      <4>2. back[cell(b)] \in blocks /\ cell(back[cell(b)]) = cell(b)
        BY <4>1, <2>10
      <4> QED BY <4>1, <4>2, <2>5
    <3>2. \A x, y \in used : back[x] = back[y] => x = y
      <4> SUFFICES ASSUME NEW x \in used, NEW y \in used, back[x] = back[y] PROVE x = y
        OBVIOUS
      <4>1. cell(back[x]) = x /\ cell(back[y]) = y
        BY <2>10
      <4> QED BY <4>1
    <3> QED BY <2>10, <3>1, <3>2 DEF Bijection, Injection, Surjection, IsInjective
  <2>12. Cardinality(blocks) = Cardinality(used)
    BY <2>6, <2>11, FS_Bijection DEF ExistsBijection
  <2>13. Cardinality(used) \in Nat
    BY <2>6, FS_CardinalityType
  <2>14. run.cntAlloc > 0
    BY <2>1, <2>13
  <2>15. cells \intersect run.free = {} /\ cells \union run.free = AllCells(run)
    BY <2>1, <2>7 DEF used
  <2>16. run.cntAlloc = Cardinality(blocks) /\ run.cntAlloc = Cardinality(cells)
    BY <2>1, <2>7, <2>12, Zenon
  <2> QED BY <2>14, <2>15, <2>16 DEF AllCells, cells, cell, blocks, run
<1> QED BY <1>2, <1>3 DEF CellsExact

(* A run counts exactly its blocks; each has a cell of its own, and a cell  *)
(* without a block can be found in the bitmap again.                        *)
THEOREM CellsAreExact == Spec => []CellsExact
<1> QED BY CellsHold, Invariant, PTL

(* A cell lies after the header of the container, if that is in its run.    *)
LEMMA SkippedFacts ==
    ASSUME NEW m, Sane(m), Placed(m), NEW r \in DOMAIN m.runs
    PROVE  LET c == m.runs[r].container
           IN  /\ r \in Nat /\ c \in Nat /\ c < r + StorageSize
               /\ r + RunSize <= c + m.containers[c].size
               /\ c + ContainerSize <= r + m.runs[r].skip * EntrySize
<1> DEFINE run   == m.runs[r]
           c     == run.container
           size  == m.containers[c].size
           bytes == Skipped(r, c)
<1>1. /\ run \in RunRecord /\ c \in DOMAIN m.containers /\ r \in Nat
      /\ IsGiven(c, size) /\ r \in FirstRuns(c, size) /\ run.skip = CeilDiv(bytes, EntrySize)
  BY DEF Sane, Placed, RunPlaced
<1> HIDE DEF run, c, size
<1>2. c \in Nat /\ size \in Nat /\ ContainerSize \in Nat
  BY <1>1, GivenFacts
<1>3. PICK i \in 1 .. Total(c, size) : r = First(c) + (i - 1) * RunSize
  BY <1>1, FirstRunsFacts
<1>4. r >= First(c) /\ r + RunSize <= c + size /\ First(c) \in Nat /\ c < First(c) + StorageSize
  BY <1>1, <1>3, FirstRunsFacts
<1>5. bytes \in Nat /\ c + ContainerSize <= r + bytes
  BY <1>1, <1>2 DEF Skipped
<1> HIDE DEF bytes
<1>6. CeilDiv(bytes, EntrySize) \in Nat /\ bytes <= CeilDiv(bytes, EntrySize) * EntrySize
  BY <1>5, LayoutAssumption, CeilDivFacts
<1> DEFINE end == run.skip * EntrySize
<1>7. end \in Int /\ bytes <= end
  BY <1>1, <1>6, LayoutAssumption
<1> HIDE DEF end
<1>8. c + ContainerSize <= r + end
  BY <1>1, <1>2, <1>5, <1>7
<1>9. c < r + StorageSize
  BY <1>1, <1>2, <1>4, LayoutAssumption
<1> QED BY <1>1, <1>2, <1>4, <1>8, <1>9 DEF end, size, c, run

LEMMA CellsApartHold == IInv => CellsApart
<1> SUFFICES ASSUME IInv, NEW b \in Holding
             PROVE  LET r   == RunOf(b.ptr)
                        run == mem.runs[r]
                    IN  /\ b.size <= run.splitting
                        /\ (b.ptr - r) % run.splitting = 0
                        /\ b.ptr + run.splitting <= r + StorageSize
                        /\ b.ptr >= run.container + ContainerSize
                        /\ b.ptr >= r + run.skip * EntrySize + BitmapSize(run.entries)
  BY DEF CellsApart
<1> DEFINE r   == RunOf(b.ptr)
           run == mem.runs[r]
           id  == CellOf(r, run, b.ptr)
           ptr == b.ptr
           end == run.skip * EntrySize
           bits == BitmapSize(run.entries)
           out == Detached(activRuns)
           blocks == Holding
           none == {}
<1>1. /\ r \in DOMAIN mem.runs /\ r \in Nat /\ r % RunSize = 0
      /\ IsCut(run) /\ b \in BlockRecord /\ b.size <= run.splitting
      /\ id \in AllCells(run) /\ ptr = CellPtr(r, run, id)
  <2>1. Good(mem, out, none, blocks) /\ b \in blocks
    BY DEF IInv
  <2> HIDE DEF out, none, blocks
  <2> QED BY <2>1, PlaceFacts
<1> HIDE DEF r, run, id
<1>2. /\ (CellPtr(r, run, id) - r) % run.splitting = 0
      /\ CellPtr(r, run, id) + run.splitting <= r + StorageSize
      /\ CellPtr(r, run, id) >= r + run.skip * EntrySize + BitmapSize(run.entries)
  BY <1>1, CellFacts
<1>3. /\ (ptr - r) % run.splitting = 0
      /\ ptr + run.splitting <= r + StorageSize
      /\ ptr >= r + end + bits
  BY <1>1, <1>2
<1>4. run.container \in Nat /\ run.container + ContainerSize <= r + end
  <2>1. Sane(mem) /\ Placed(mem)
    BY DetachedFacts
  <2> QED BY <1>1, <2>1, SkippedFacts DEF run
<1>5. bits \in Nat /\ end \in Int /\ ptr \in Nat /\ ContainerSize \in Nat
  <2>1. bits \in Nat
    BY <1>1, CutFacts
  <2>2. end \in Int
    BY <1>1, LayoutAssumption DEF IsCut, RunRecord
  <2> QED BY <1>1, <2>1, <2>2, ContainerAssumption, LayoutAssumption DEF BlockRecord
<1> HIDE DEF bits, end, ptr
<1>6. ptr >= run.container + ContainerSize
  BY <1>1, <1>3, <1>4, <1>5
<1> QED BY <1>1, <1>3, <1>6 DEF bits, end, ptr, run, r

LEMMA RunsInContainerHold == IInv => RunsInContainer
<1> SUFFICES ASSUME IInv, NEW r \in Runs
             PROVE  LET c == mem.runs[r].container
                    IN  c < r + StorageSize /\ r + RunSize <= c + mem.containers[c].size
  BY DEF RunsInContainer
<1>1. Sane(mem) /\ Placed(mem) /\ r \in DOMAIN mem.runs
  BY DetachedFacts DEF Runs
<1> QED BY <1>1, SkippedFacts

(* Cells lie in their run clear of the header of the container, the bitmap  *)
(* and the fields, and runs lie in the memory of their container.           *)
THEOREM CellsAreInPlace == Spec => []CellsInPlace
<1>1. IInv => CellsInPlace
  BY CellsApartHold, RunsInContainerHold DEF CellsInPlace
<1> QED BY <1>1, Invariant, PTL

-----------------------------------------------------------------------------
(* The source is the last resort                                           *)

LEMMA RefillStep ==
    ASSUME IInv, NEW size \in Requests, NEW r \in Allocate(size), Became(r),
           NEW b \in segments' \ segments
    PROVE  LET k == GetSizeClass(size)
           IN  /\ k \in Classes
               /\ \A q \in Runs : /\ mem.runs[q].splitting # 0
                                  /\ mem.runs[q].splitting = ClassSize(k) => IsFull(mem.runs[q])
               /\ \A q \in DOMAIN mem'.runs \ Runs : mem'.runs[q].splitting \in {0, ClassSize(k)}
<1> DEFINE k   == GetSizeClass(size)
           out == Detached(activRuns)
<1>1. k \in Classes /\ size \in 1..128
  BY ClassFacts, RequestsAssumption
<1>2. mem' = r.mem /\ r.segments # segments
  BY DEF Became
<1>3. Gives(r, k, size)
  <2>1. r # [mem |-> mem, segments |-> segments, activ |-> activRuns, ptr |-> NULL]
    BY <1>2
  <2> QED BY <2>1, AllocateFacts
<1>4. /\ Exhausted(k, out)
      /\ \A q \in DOMAIN r.mem.runs \ DOMAIN mem.runs : r.mem.runs[q].splitting \in {0, ClassSize(k)}
  BY <1>2, <1>3 DEF Gives
<1>5. \A q \in DOMAIN mem.runs :
        /\ RunNode(q) \in out <=> Actives(q) # {}
        /\ \A j \in Actives(q) : mem.runs[q].splitting = ClassSize(j)
  BY DetachedFacts
<1>6. activRuns[k] # NULL => IsFull(mem.runs[activRuns[k]])
  <2> SUFFICES ASSUME activRuns[k] # NULL, ~ IsFull(mem.runs[activRuns[k]]) PROVE FALSE
    OBVIOUS
  <2>1. r = Cell([mem |-> mem, segments |-> segments, activ |-> activRuns, run |-> activRuns[k]])
    BY DEF Allocate
  <2>2. r.segments = segments
    BY <2>1 DEF Cell
  <2> QED BY <1>2, <2>2
<1> HIDE DEF k, out
<1>7. ASSUME NEW q \in Runs
      PROVE  /\ mem.runs[q].splitting # 0
             /\ mem.runs[q].splitting = ClassSize(k) => IsFull(mem.runs[q])
  <2>1. /\ mem.runs[q].splitting = 0 => RunNode(q) \in out
        /\ mem.runs[q].splitting = ClassSize(k) /\ RunNode(q) \notin out => IsFull(mem.runs[q])
    BY <1>4 DEF Exhausted, Runs
  <2>2. CASE RunNode(q) \notin out
    BY <2>1, <2>2
  <2>3. CASE RunNode(q) \in out
    <3>1. PICK j \in Actives(q) : mem.runs[q].splitting = ClassSize(j)
      BY <1>5, <2>3 DEF Runs
    <3>2. j \in Classes /\ activRuns[j] = q /\ ClassSize(j) # 0
      BY SizeOfClass DEF Actives
    <3>3. ASSUME mem.runs[q].splitting = ClassSize(k) PROVE IsFull(mem.runs[q])
      <4>1. j = k
        BY <1>1, <3>1, <3>2, <3>3, ClassesDiffer
      <4>2. q # NULL
        BY DetachedFacts, NullAssumption DEF Sane, Runs
      <4> QED BY <3>2, <4>1, <4>2, <1>6
    <3> QED BY <3>1, <3>2, <3>3
  <2> QED BY <2>2, <2>3
<1> QED BY <1>1, <1>2, <1>4, <1>7 DEF k, Runs

(* free gives segments back and never asks for one.                         *)
LEMMA FreeAsksNothing ==
    ASSUME NEW t \in Threads, FreeCell(t)
    PROVE  segments' \subseteq segments
<1> DEFINE r   == RunOf(op[t].block.ptr)
           run == RunFree(mem.runs[r], CellOf(r, mem.runs[r], op[t].block.ptr))
           m   == [mem EXCEPT !.runs[r] = run]
           out == Detach(m, r)
           reg == RegEmpty([out.mem EXCEPT !.runs[r] = SetSplitting(@, 0)], r)
           s   == [mem |-> reg, segments |-> segments, activ |-> out.activ]
<1>1. Became(IF IsEmptyRun(run) THEN MarkRunAsFree(m, r)
             ELSE [mem |-> m, segments |-> segments, activ |-> activRuns])
  BY DEF FreeCell
<1>2. MarkRunAsFree(m, r) = Release(s, m.runs[r].container)
  BY DEF MarkRunAsFree
<1> HIDE DEF m, out, reg, run, r
<1>3. ASSUME NEW c PROVE Release(s, c).segments \subseteq segments
  BY DEF Release
<1> QED BY <1>1, <1>2, <1>3 DEF Became

(* The source is asked for a segment only when no run of the class has room *)
(* and no container an empty run, and the segment serves that class.        *)
THEOREM RefillsOnlyWhenFull == Spec => OnlyRefillsWhenFull
<1> DEFINE Asked(b) ==
             \E k \in Classes :
               \A r \in Runs : /\ mem.runs[r].splitting # 0
                               /\ mem.runs[r].splitting = ClassSize(k) => IsFull(mem.runs[r])
                               /\ \A q \in DOMAIN mem'.runs \ Runs :
                                    mem'.runs[q].splitting \in {0, ClassSize(k)}
<1>1. IInv /\ [Next]_vars => [\A b \in segments' \ segments : Asked(b)]_vars
  <2> SUFFICES ASSUME IInv, Next, NEW b \in segments' \ segments PROVE Asked(b)
    OBVIOUS
  <2>1. ASSUME NEW size \in Requests, NEW r \in Allocate(size), Became(r) PROVE Asked(b)
    BY <2>1, RefillStep
  <2> HIDE DEF Asked
  <2>2. ASSUME NEW t \in Threads, Malloc(t) PROVE Asked(b)
    <3>1. \E size \in MallocSizes : \E r \in Allocate(size) : Became(r)
      BY <2>2 DEF Malloc
    <3> QED BY <2>1, <3>1 DEF Requests
  <2>3. ASSUME NEW t \in Threads, Move(t) PROVE Asked(b)
    <3>1. \E r \in Allocate(op[t].size) : Became(r)
      BY <2>3 DEF Move
    <3>2. op[t].size \in Requests
      BY <2>3 DEF Move, IInv, ThreadsOK, Requests
    <3> QED BY <2>1, <3>1, <3>2
  <2>4. ASSUME NEW t \in Threads, FreeCell(t) PROVE Asked(b)
    BY <2>4, FreeAsksNothing
  <2>5. ASSUME segments' = segments PROVE Asked(b)
    BY <2>5
  <2>6. \A t \in Threads : FreeBegin(t) \/ ReallocBegin(t) => segments' = segments
    BY DEF FreeBegin, ReallocBegin
  <2>7. Fill => segments' = segments
    BY DEF Fill
  <2> QED BY <2>2, <2>3, <2>4, <2>5, <2>6, <2>7 DEF Next
<1>2. (\A b \in segments' \ segments : Asked(b)) <=>
        \A b \in segments' \ segments :
          \E k \in Classes :
            \A r \in Runs : /\ mem.runs[r].splitting # 0
                            /\ mem.runs[r].splitting = ClassSize(k) => IsFull(mem.runs[r])
                            /\ \A q \in DOMAIN mem'.runs \ Runs :
                                 mem'.runs[q].splitting \in {0, ClassSize(k)}
  OBVIOUS
<1> QED BY <1>1, Invariant, PTL DEF Spec, OnlyRefillsWhenFull

-----------------------------------------------------------------------------
(* What users see                                                          *)

HoldingApart == \A b, c \in Holding : b # c => AbstractHeap!Disjoint(b, c)

LEMMA HoldingIsApart == IInv => HoldingApart
<1> SUFFICES ASSUME IInv, NEW b \in Holding, NEW c \in Holding, b # c
             PROVE  AbstractHeap!Disjoint(b, c)
  BY DEF HoldingApart
<1>1. Good(mem, Detached(activRuns), {}, Holding) /\ Held(mem.runs, Holding)
  BY DetachedFacts DEF IInv
<1>2. ASSUME NEW a \in Holding
      PROVE  LET r   == RunOf(a.ptr)
                 run == mem.runs[r]
                 id  == CellOf(r, run, a.ptr)
             IN  /\ r \in Nat /\ r % RunSize = 0 /\ a.ptr \in Nat /\ a.size \in Nat
                 /\ a.size <= run.splitting /\ run.splitting \in Nat \ {0}
                 /\ id \in Nat /\ a.ptr = r + run.splitting * id
                 /\ a.ptr >= r /\ a.ptr + run.splitting <= r + StorageSize
  <2> DEFINE out    == Detached(activRuns)
             blocks == Holding
             none   == {}
             r      == RunOf(a.ptr)
             run    == mem.runs[r]
             id     == CellOf(r, run, a.ptr)
  <2>1. Good(mem, out, none, blocks) /\ a \in blocks
    BY <1>1
  <2> HIDE DEF out, none, blocks
  <2>2. /\ r \in Nat /\ r % RunSize = 0 /\ IsCut(run) /\ a \in BlockRecord
        /\ a.size <= run.splitting /\ id \in AllCells(run) /\ a.ptr = CellPtr(r, run, id)
    BY <2>1, PlaceFacts
  <2> HIDE DEF r, run, id
  <2>3. /\ id \in Nat /\ CellPtr(r, run, id) + run.splitting <= r + StorageSize
    BY <2>2, CellFacts
  <2>4. run.splitting \in Nat \ {0}
    BY <2>2 DEF IsCut
  <2>5. a.ptr = r + run.splitting * id
    BY <2>2 DEF CellPtr
  <2>6. run.splitting * id \in Nat
    BY <2>3, <2>4
  <2>7. a.ptr >= r
    <3> DEFINE off == run.splitting * id
    <3>1. off \in Nat /\ a.ptr = r + off
      BY <2>5, <2>6
    <3> HIDE DEF off
    <3> QED BY <2>2, <3>1
  <2>8. a.ptr \in Nat /\ a.size \in Nat
    BY <2>2 DEF BlockRecord
  <2>9. a.ptr + run.splitting <= r + StorageSize
    BY <2>2, <2>3
  <2> QED BY <2>2, <2>3, <2>4, <2>5, <2>7, <2>8, <2>9 DEF r, run, id
<1> DEFINE rb == RunOf(b.ptr)
           rc == RunOf(c.ptr)
           sb == mem.runs[rb].splitting
           sc == mem.runs[rc].splitting
           ib == CellOf(rb, mem.runs[rb], b.ptr)
           ic == CellOf(rc, mem.runs[rc], c.ptr)
<1>3. /\ rb \in Nat /\ rb % RunSize = 0 /\ b.ptr \in Nat /\ b.size \in Nat
      /\ b.size <= sb /\ sb \in Nat \ {0} /\ ib \in Nat /\ b.ptr = rb + sb * ib
      /\ b.ptr >= rb /\ b.ptr + sb <= rb + StorageSize
  BY <1>2
<1>4. /\ rc \in Nat /\ rc % RunSize = 0 /\ c.ptr \in Nat /\ c.size \in Nat
      /\ c.size <= sc /\ sc \in Nat \ {0} /\ ic \in Nat /\ c.ptr = rc + sc * ic
      /\ c.ptr >= rc /\ c.ptr + sc <= rc + StorageSize
  BY <1>2
<1>5. rb = rc => sb = sc
  OBVIOUS
<1> HIDE DEF rb, rc, sb, sc, ib, ic
<1>6. CASE rb = rc
  <2>1. b.ptr # c.ptr
    BY <1>1 DEF Held
  <2>2. ib # ic
    BY <1>3, <1>4, <1>5, <1>6, <2>1
  <2> DEFINE x == sb * ib
             y == sb * ic
  <2>3. x = ib * sb /\ y = ic * sb
    BY <1>3, <1>4
  <2>4. (ib < ic => ib * sb + sb <= ic * sb) /\ (ic < ib => ic * sb + sb <= ib * sb)
    BY <1>3, <1>4, MultiplesApart
  <2>5. x \in Int /\ y \in Int
    BY <1>3, <1>4
  <2>6. b.ptr = rb + x /\ c.ptr = rb + y /\ c.size <= sb
    BY <1>3, <1>4, <1>5, <1>6
  <2>7. x + sb <= y \/ y + sb <= x
    <3>1. ib < ic \/ ic < ib
      BY <1>3, <1>4, <2>2
    <3> QED BY <2>3, <2>4, <3>1
  <2> HIDE DEF x, y
  <2>8. b.ptr + b.size <= c.ptr \/ c.ptr + c.size <= b.ptr
    BY <1>3, <1>4, <2>5, <2>6, <2>7
  <2> QED BY <2>8 DEF AbstractHeap!Disjoint
<1>7. CASE rb # rc
  <2> DEFINE p == rb \div RunSize
             q == rc \div RunSize
  <2>1. /\ p \in Nat /\ q \in Nat /\ rb = p * RunSize /\ rc = q * RunSize
    <3>1. /\ p \in Nat /\ rb = p * RunSize + (rb % RunSize)
          /\ q \in Nat /\ rc = q * RunSize + (rc % RunSize)
      BY <1>3, <1>4, LayoutAssumption, Quotient
    <3>2. p * RunSize \in Int /\ q * RunSize \in Int
      BY <3>1, LayoutAssumption, MultiplesApart
    <3> HIDE DEF p, q
    <3> QED BY <3>1, <3>2, <1>3, <1>4
  <2> HIDE DEF p, q
  <2>2. p < q \/ q < p
    BY <1>7, <2>1
  <2>3. (p < q => rb + RunSize <= rc) /\ (q < p => rc + RunSize <= rb)
    BY <2>1, LayoutAssumption, MultiplesApart
  <2>4. b.ptr + b.size <= c.ptr \/ c.ptr + c.size <= b.ptr
    BY <1>3, <1>4, <2>2, <2>3, LayoutAssumption
  <2> QED BY <2>4 DEF AbstractHeap!Disjoint
<1> QED BY <1>6, <1>7

(* A step that changes the blocks held by one block of its own, and leaves them *)
(* apart, is a malloc, a free or a realloc of BlockHeap, or changes nothing.    *)
LEMMA HeapStep ==
    ASSUME HoldingApart',
           NEW old, NEW new,
           \/ Holding' = Holding
           \/ Holding' = Holding \union {new}
           \/ Holding' = Holding \ {old}
           \/ Holding' = (Holding \ {old}) \union {new}
    PROVE  [AbstractHeap!Next]_Holding
<1> DEFINE before == Holding
           after  == Holding'
<1>1. \A b \in after, c \in after : b = c \/ AbstractHeap!Disjoint(b, c)
  BY DEF HoldingApart, AbstractHeap!Disjoint
<1>2. [AbstractHeap!Next]_Holding <=>
        \/ after = before
        \/ \E b \in after \ before : /\ \A a \in before : AbstractHeap!Disjoint(a, b)
                                     /\ after = before \union {b}
        \/ \E b \in before \ after : after = before \ {b}
        \/ \E x \in before \ after, y \in after \ before :
             /\ \A a \in before \ {x} : AbstractHeap!Disjoint(a, y)
             /\ after = (before \ {x}) \union {y}
  BY DEF AbstractHeap!Next, AbstractHeap!Malloc, AbstractHeap!Free, AbstractHeap!Realloc
<1> HIDE DEF before, after
<1>3. \/ after = before
      \/ after = before \union {new}
      \/ after = before \ {old}
      \/ after = (before \ {old}) \union {new}
  BY DEF before, after
<1>4. CASE after = before \/ (after = before \union {new} /\ new \in before)
           \/ (after = before \ {old} /\ old \notin before)
  BY <1>2, <1>4
<1>5. CASE after = before \union {new} /\ new \notin before
  BY <1>1, <1>2, <1>5
<1>6. CASE after = before \ {old} /\ old \in before
  BY <1>2, <1>6
<1>7. CASE after = (before \ {old}) \union {new}
  <2>1. CASE old \in before /\ new \notin before
    BY <2>1, <1>1, <1>2, <1>7
  <2>2. CASE old \notin before /\ new \notin before
    <3>1. after = before \union {new}
      BY <2>2, <1>7
    <3> QED BY <3>1, <2>2, <1>1, <1>2
  <2>3. CASE new \in before /\ new # old
    <3>1. after = before \ {old}
      BY <2>3, <1>7
    <3> QED BY <3>1, <1>2
  <2>4. CASE new \in before /\ new = old
    BY <2>4, <1>2, <1>7
  <2> QED BY <2>1, <2>2, <2>3, <2>4
<1> QED BY <1>3, <1>4, <1>5, <1>6, <1>7

(* SmallAllocator.cpp promises what BlockHeap states: every malloc, free and   *)
(* realloc, seen on the blocks in use and in the hands of the threads, is one  *)
(* of BlockHeap or a stutter, so no byte is ever in two blocks.                *)
THEOREM SmallImplements == Spec => Implements
<1>1. Init => AbstractHeap!Init
  BY DEF Init, AbstractHeap!Init, Holding, Pending
<1>2. IInv /\ HoldingApart' /\ [Next]_vars => [AbstractHeap!Next]_Holding
  <2> SUFFICES ASSUME IInv, HoldingApart', [Next]_vars
               PROVE  [AbstractHeap!Next]_Holding
    OBVIOUS
  <2>1. PICK old, new : \/ Holding' = Holding
                        \/ Holding' = Holding \union {new}
                        \/ Holding' = Holding \ {old}
                        \/ Holding' = (Holding \ {old}) \union {new}
    BY NextStep DEF Changes
  <2> QED BY <2>1, HeapStep
<1> QED
  BY <1>1, <1>2, HoldingIsApart, Invariant, PTL DEF Spec, Implements, AbstractHeap!Spec
=============================================================================
