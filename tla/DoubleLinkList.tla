--------------------------- MODULE DoubleLinkList ---------------------------
(***************************************************************************)
(* The doubly linked lists of the allocators (lib/common/DoubleLinkList.h).*)
(*                                                                         *)
(* An element is a node with a next and a prev link; a list is a root      *)
(* node, linked to itself when the list is empty.  Many lists share one    *)
(* memory: ls is a record of two functions on the nodes that exist, and    *)
(* nothing in an element tells which list it is in.                        *)
(***************************************************************************)
EXTENDS Integers, FiniteSets

CONSTANT NULL

(* A node is a pair of a kind and a number, never NULL. *)
ASSUME NullAssumption == NULL \notin Int /\ NULL \notin {"run", "container"} \X Int

Nodes(ls) == DOMAIN ls.next

(* ListElement(): new nodes, each linked to itself. *)
AddNodes(ls, new) ==
    [next |-> [n \in Nodes(ls) \union new |-> IF n \in new THEN n ELSE ls.next[n]],
     prev |-> [n \in Nodes(ls) \union new |-> IF n \in new THEN n ELSE ls.prev[n]]]

(* The memory of these nodes is no longer ours. *)
DropNodes(ls, old) ==
    [next |-> [n \in Nodes(ls) \ old |-> ls.next[n]],
     prev |-> [n \in Nodes(ls) \ old |-> ls.prev[n]]]

Link(ls, a, b) == [next |-> [ls.next EXCEPT ![a] = b],
                   prev |-> [ls.prev EXCEPT ![b] = a]]

IsEmptyList(ls, root) == ls.next[root] = root

PutFirst(ls, root, elt) == Link(Link(ls, elt, ls.next[root]), root, elt)

PutLast(ls, root, elt) == Link(Link(ls, ls.prev[root], elt), elt, root)

GetFirst(ls, root) == IF IsEmptyList(ls, root) THEN NULL ELSE ls.next[root]

GetLast(ls, root) == IF IsEmptyList(ls, root) THEN NULL ELSE ls.prev[root]

(* What popFirst and popLast leave; the element keeps its own links. *)
PopFirst(ls, root) == Link(ls, root, ls.next[ls.next[root]])

PopLast(ls, root) == Link(ls, ls.prev[ls.prev[root]], root)

(* remove does not need the list; the element is linked to itself. *)
RemoveNode(ls, elt) ==
    Link(Link(ls, ls.prev[elt], ls.next[elt]), elt, elt)

(* The node reached from root by k links. *)
Nth(ls, root) ==
    LET at[k \in 0..Cardinality(Nodes(ls))] ==
          IF k = 0 THEN root ELSE ls.next[at[k - 1]]
    IN  at

(* How far the iteration goes before it is back at the root. *)
Length(ls, root) ==
    LET at == Nth(ls, root)
    IN  CHOOSE n \in 0 .. Cardinality(Nodes(ls)) - 1 :
          /\ ls.next[at[n]] = root
          /\ \A k \in 1..n : at[k] # root

Elements(ls, root) == {Nth(ls, root)[k] : k \in 1..Length(ls, root)}

(* The first element that an iteration from begin finds in S, which has no  *)
(* root: no list is longer than there are nodes.                            *)
FirstIn(ls, root, S) ==
    LET at   == Nth(ls, root)
        hits == {k \in 1..Cardinality(Nodes(ls)) : at[k] \in S}
    IN  IF hits = {} THEN NULL
        ELSE at[CHOOSE k \in hits : \A j \in hits : k <= j]

(* What hardChecking asserts of a node. *)
WellLinked(ls, n) ==
    /\ ls.next[n] \in Nodes(ls) /\ ls.prev[ls.next[n]] = n
    /\ ls.prev[n] \in Nodes(ls) /\ ls.next[ls.prev[n]] = n
=============================================================================
