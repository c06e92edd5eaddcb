-------------------------- MODULE MCFreeListIndex --------------------------
(* FreeListIndex on the table of the source, cut at every length. *)
EXTENDS FreeListIndex

(* cstDefaultFreeSizes without its -1UL entries. *)
DefaultSizes ==
    <<16, 24>> \o [k \in 1..32 |-> 32 * k] \o [k \in 1..11 |-> 1024 * 2^k]

(* Every size of the linear zone, and the neighbourhood of the others.      *)
AllRequests ==
    {8 * k : k \in 2..140}
    \union {2^k + d : k \in 11..22, d \in {-8, 0, 8}}
    \union {3 * 1024 * 1024, 2^29}
=============================================================================
