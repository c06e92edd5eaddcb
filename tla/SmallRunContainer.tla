------------------------- MODULE SmallRunContainer -------------------------
(***************************************************************************)
(* A container of the small allocator (lib/chunks/SmallRunContainer.cpp):  *)
(* a segment cut in runs, its header at the start of the first run.        *)
(*                                                                         *)
(* m is a record of what the headers hold: runs and containers, functions  *)
(* on the addresses where one was built, and the links of the lists.       *)
(* A node of a list is a pair of a kind and an address (or a class).       *)
(***************************************************************************)
EXTENDS SmallChunkRun, DoubleLinkList

CONSTANT ContainerSize              \* sizeof(SmallRunContainer)

ASSUME ContainerAssumption == ContainerSize \in 1 .. RunSize - 1

RunNode(r) == <<"run", r>>
ContainerNode(c) == <<"container", c>>
EmptyRuns(c) == <<"emptyRuns", c>>

RunsOf(m, c) == {r \in DOMAIN m.runs : m.runs[r].container = c}

(* Mutant: the last run begins before the end of the memory and crosses it. *)
FirstRuns_Beyond(ptr, size) ==
    {r \in RunOf(ptr + ContainerSize) .. RunOf(ptr + ContainerSize + size) : r % RunSize = 0}

(* Where the runs begin; the end is computed from the end of the header     *)
(* with the size of the container, header included.                         *)
FirstRuns(ptr, size) ==
    {r \in RunOf(ptr + ContainerSize) .. (RunOf(ptr + ContainerSize + size) - 1) :
        r % RunSize = 0}

(* setupSplitting: each run in turn goes to the front of the empty list.    *)
Setup(m, ptr, size) ==
    LET addr  == ptr + ContainerSize
        first == RunOf(addr)
        new   == FirstRuns(ptr, size)
        nodes == {ContainerNode(ptr), EmptyRuns(ptr)} \union {RunNode(r) : r \in new}
        put[n \in 0..Cardinality(new)] ==
          IF n = 0 THEN AddNodes(m.lists, nodes)
          ELSE PutFirst(put[n - 1], EmptyRuns(ptr), RunNode(first + (n - 1) * RunSize))
    IN  [runs       |-> [r \in DOMAIN m.runs \union new |->
                           IF r \in new THEN NewRun(IF r < addr THEN addr - r ELSE 0, ptr)
                           ELSE m.runs[r]],
         containers |-> [c \in DOMAIN m.containers \union {ptr} |->
                           IF c = ptr THEN [size |-> size, reservedRuns |-> 0]
                           ELSE m.containers[c]],
         lists      |-> put[Cardinality(new)]]

(* getEmptyRun: the run it returns, or NULL, and what it leaves.            *)
EmptyRun(m, c) ==
    LET node == GetFirst(m.lists, EmptyRuns(c))
    IN  IF node = NULL THEN NULL ELSE node[2]

TakeEmptyRun(m, c) ==
    [m EXCEPT !.lists = PopFirst(@, EmptyRuns(c)),
              !.containers[c].reservedRuns = @ + 1]

RegEmpty(m, r) ==
    [m EXCEPT !.lists = PutFirst(@, EmptyRuns(m.runs[r].container), RunNode(r)),
              !.containers[m.runs[r].container].reservedRuns = @ - 1]

IsEmptyContainer(m, c) == m.containers[c].reservedRuns = 0

(* The memory of the container goes back to the memory source. *)
Forget(m, c) ==
    [runs       |-> [r \in DOMAIN m.runs \ RunsOf(m, c) |-> m.runs[r]],
     containers |-> [d \in DOMAIN m.containers \ {c} |-> m.containers[d]],
     lists      |-> DropNodes(m.lists, {ContainerNode(c), EmptyRuns(c)}
                                         \union {RunNode(r) : r \in RunsOf(m, c)})]
=============================================================================
