----------------------------- MODULE MPSCFQueue -----------------------------
(***************************************************************************)
(* The multi-producer, single-consumer queue with a full flush             *)
(* (lib/common/MPSCFQueue.cpp) together with the loop of its consumer      *)
(* (PosixAllocatorLocal::flushRemote).                                     *)
(*                                                                         *)
(* The links of the queue live in the blocks themselves: inserting a block *)
(* writes its first word, and freeing it gives that word back to the user. *)
(*                                                                         *)
(* One action is one access to shared memory.  Both swaps are              *)
(* __sync_lock_test_and_set, a full barrier on x86, and the plain stores   *)
(* that may be delayed are the last of their operation, so interleaving    *)
(* the accesses covers what the store buffers can do.                      *)
(***************************************************************************)
EXTENDS Naturals, Sequences

CONSTANTS
    Producers,             \* threads that call insert
    Elements,              \* memory blocks
    NULL

ASSUME NullAssumption == NULL \notin Elements

VARIABLES
    head, tail,            \* the two words of the queue
    next,                  \* first word of every block
    pc, cur, prev,         \* control point and locals of insert, per producer
    cpc,                   \* control point of the consumer
    localHead, localTail,  \* locals of dequeueAll
    current,               \* the block waitUntilEndId, then flushRemote, is at
    live,                  \* blocks held by user code
    queued, batch          \* history: swapped in; swapped out and not yet freed

queueVars    == <<head, tail, next>>
producerVars == <<pc, cur, prev>>
consumerVars == <<cpc, localHead, localTail, current>>
historyVars  == <<live, queued, batch>>
vars == <<queueVars, producerVars, consumerVars, historyVars>>

Pointer == Elements \union {NULL}
Contents(q) == {q[i] : i \in 1..Len(q)}

-----------------------------------------------------------------------------
(* insert *)

(* Mutants: insert without clearing the link word of the block. *)
ClearLink_Forgotten(n, e) == n

ClearLink(n, e) == [n EXCEPT ![e] = NULL]

(* A user hands block e to insert, which clears its link (cur->next = NULL).*)
BeginInsert(p) ==
    /\ pc[p] = "idle"
    /\ \E e \in live :
        /\ live' = live \ {e}
        /\ cur' = [cur EXCEPT ![p] = e]
        /\ next' = ClearLink(next, e)
    /\ pc' = [pc EXCEPT ![p] = "swap"]
    /\ UNCHANGED <<head, tail, prev, consumerVars, queued, batch>>

(* The atomic swap that puts the block at the end of the queue. *)
InsertSwapTail(p) ==
    /\ pc[p] = "swap"
    /\ prev' = [prev EXCEPT ![p] = tail]
    /\ tail' = cur[p]
    /\ queued' = Append(queued, cur[p])
    /\ pc' = [pc EXCEPT ![p] = "link"]
    /\ UNCHANGED <<head, next, cur, consumerVars, live, batch>>

(* Mutant: the test on the old tail replaced by a test on the head. *)
InsertLink_TestHead(p) ==
    /\ pc[p] = "link"
    /\ IF head = NULL
         THEN head' = cur[p] /\ UNCHANGED next
         ELSE next' = [next EXCEPT ![prev[p]] = cur[p]] /\ UNCHANGED head
    /\ pc' = [pc EXCEPT ![p] = "idle"]
    /\ cur' = [cur EXCEPT ![p] = NULL]
    /\ prev' = [prev EXCEPT ![p] = NULL]
    /\ UNCHANGED <<tail, consumerVars, historyVars>>

(* The block becomes reachable: from the head, or from the previous block. *)
InsertLink(p) ==
    /\ pc[p] = "link"
    /\ IF prev[p] = NULL
         THEN head' = cur[p] /\ UNCHANGED next
         ELSE next' = [next EXCEPT ![prev[p]] = cur[p]] /\ UNCHANGED head
    /\ pc' = [pc EXCEPT ![p] = "idle"]
    /\ cur' = [cur EXCEPT ![p] = NULL]
    /\ prev' = [prev EXCEPT ![p] = NULL]
    /\ UNCHANGED <<tail, consumerVars, historyVars>>

-----------------------------------------------------------------------------
(* dequeueAll and flushRemote *)

(* dequeueAll reads the head and returns at once when it is NULL. *)
LoadHead ==
    /\ cpc = "idle"
    /\ head # NULL
    /\ localHead' = head
    /\ cpc' = "clear"
    /\ UNCHANGED <<queueVars, producerVars, localTail, current, historyVars>>

(* Mutant: the head is not cleared. *)
ClearHead_Forgotten ==
    /\ cpc = "clear"
    /\ cpc' = "swap"
    /\ UNCHANGED <<queueVars, producerVars, localHead, localTail, current,
                   historyVars>>

ClearHead ==
    /\ cpc = "clear"
    /\ head' = NULL
    /\ cpc' = "swap"
    /\ UNCHANGED <<tail, next, producerVars, localHead, localTail, current,
                   historyVars>>

(* Mutant: the tail is read, not swapped with NULL. *)
DequeueSwapTail_KeepTail ==
    /\ cpc = "swap"
    /\ localTail' = tail
    /\ batch' = queued
    /\ queued' = <<>>
    /\ current' = localHead
    /\ cpc' = "walk"
    /\ UNCHANGED <<queueVars, producerVars, localHead, live>>

(* The atomic swap that detaches the whole queue. *)
DequeueSwapTail ==
    /\ cpc = "swap"
    /\ localTail' = tail
    /\ tail' = NULL
    /\ batch' = queued
    /\ queued' = <<>>
    /\ current' = localHead
    /\ cpc' = "walk"
    /\ UNCHANGED <<head, next, producerVars, localHead, live>>

(* waitUntilEndId: follow a link once its producer has written it. *)
WalkStep ==
    /\ cpc = "walk"
    /\ current # localTail
    /\ next[current] # NULL
    /\ current' = next[current]
    /\ UNCHANGED <<queueVars, producerVars, cpc, localHead, localTail,
                   historyVars>>

(* Mutant: dequeueAll returns without waiting for the producers. *)
WalkDone_NoWait ==
    /\ cpc = "walk"
    /\ cpc' = "drain"
    /\ current' = localHead
    /\ localHead' = NULL /\ localTail' = NULL
    /\ UNCHANGED <<queueVars, producerVars, historyVars>>

(* waitUntilEndId is at the tail: dequeueAll returns localHead. *)
WalkDone ==
    /\ cpc = "walk"
    /\ current = localTail
    /\ cpc' = "drain"
    /\ current' = localHead
    /\ localHead' = NULL /\ localTail' = NULL
    /\ UNCHANGED <<queueVars, producerVars, historyVars>>

(* flushRemote reads the link, then frees the block: it is the user's       *)
(* again, and whoever gets it may write anything in its first word.         *)
ReleaseCurrent ==
    /\ cpc = "drain"
    /\ current # NULL
    /\ current' = next[current]
    /\ \E word \in Pointer : next' = [next EXCEPT ![current] = word]
    /\ live' = live \union {current}
    /\ batch' = Tail(batch)
    /\ UNCHANGED <<head, tail, producerVars, cpc, localHead, localTail, queued>>

(* The loop of flushRemote ends on a NULL link. *)
DrainDone ==
    /\ cpc = "drain"
    /\ current = NULL
    /\ cpc' = "idle"
    /\ UNCHANGED <<queueVars, producerVars, localHead, localTail, current,
                   historyVars>>

-----------------------------------------------------------------------------
Insert(p) == BeginInsert(p) \/ InsertSwapTail(p) \/ InsertLink(p)

Flush ==
    \/ LoadHead \/ ClearHead \/ DequeueSwapTail \/ WalkStep \/ WalkDone
    \/ ReleaseCurrent \/ DrainDone

Init ==
    /\ head = NULL /\ tail = NULL
    /\ next \in [Elements -> Pointer]
    /\ pc = [p \in Producers |-> "idle"]
    /\ cur = [p \in Producers |-> NULL]
    /\ prev = [p \in Producers |-> NULL]
    /\ cpc = "idle"
    /\ localHead = NULL /\ localTail = NULL /\ current = NULL
    /\ live = Elements
    /\ queued = <<>> /\ batch = <<>>

Next == (\E p \in Producers : Insert(p)) \/ Flush

Spec == Init /\ [][Next]_vars

(* A thread that has entered insert leaves it, and the owner keeps calling  *)
(* malloc or free, each of which flushes.  Nothing makes a user insert.     *)
Fairness ==
    /\ \A p \in Producers : WF_vars(InsertSwapTail(p) \/ InsertLink(p))
    /\ WF_vars(Flush)

FairSpec == Spec /\ Fairness

-----------------------------------------------------------------------------
(* Properties *)

(* Every pointer is a block or NULL, and while waitUntilEndId runs neither  *)
(* the block it is at nor the tail it looks for is NULL, as it asserts.     *)
TypeOK ==
    /\ head \in Pointer /\ tail \in Pointer
    /\ next \in [Elements -> Pointer]
    /\ pc \in [Producers -> {"idle", "swap", "link"}]
    /\ cur \in [Producers -> Pointer]
    /\ prev \in [Producers -> Pointer]
    /\ \A p \in Producers : pc[p] # "idle" => cur[p] \in Elements
    /\ cpc \in {"idle", "clear", "swap", "walk", "drain"}
    /\ localHead \in Pointer /\ localTail \in Pointer /\ current \in Pointer
    /\ cpc \in {"clear", "swap"} => localHead \in Elements
    /\ cpc = "walk" => {localHead, localTail, current} \subseteq Elements
    /\ live \subseteq Elements
    /\ queued \in Seq(Elements) /\ batch \in Seq(Elements)

(* The two assertions of dequeueAll and waitUntilEndId: with a head there   *)
(* is a tail to swap out, and the block found at that tail ends the list.   *)
DequeueAssertions ==
    /\ cpc = "swap" => tail # NULL
    /\ cpc = "walk" /\ current = localTail => next[current] = NULL

(* The last write of insert goes to a block that nobody has been given: the *)
(* consumer cannot have freed the previous block under the producer.        *)
LinkTargetHeld ==
    \A p \in Producers :
        pc[p] = "link" /\ prev[p] # NULL => prev[p] \notin live

(* The plain stores to the head never race: a producer about to publish a   *)
(* first block finds the head NULL and the consumer not between its load    *)
(* and its swap, and two producers are never both about to do it.           *)
HeadStoreAlone ==
    \A p \in Producers :
        pc[p] = "link" /\ prev[p] = NULL =>
            /\ head = NULL
            /\ cpc \notin {"clear", "swap"}
            /\ \A r \in Producers \ {p} : pc[r] = "link" => prev[r] # NULL

(* isEmpty, which the destructor trusts, is exact once no call is in        *)
(* progress: a NULL head then means that no block is left in the queue.     *)
EmptyIsExact ==
    /\ head = NULL
    /\ cpc = "idle"
    /\ \A p \in Producers : pc[p] = "idle"
    => queued = <<>> /\ batch = <<>> /\ tail = NULL

-----------------------------------------------------------------------------
(* The inductive invariant: how the memory encodes queued and batch.        *)

(* A producer is about to write the link from block a to block b. *)
Linking(a, b) ==
    \E p \in Producers : pc[p] = "link" /\ prev[p] = a /\ cur[p] = b

(* Consecutive blocks of q are linked, or will be; the last has no link. *)
Chained(q) ==
    \A i \in 1..Len(q) :
        IF i = Len(q)
          THEN next[q[i]] = NULL
          ELSE \/ next[q[i]] = q[i+1]
               \/ next[q[i]] = NULL /\ Linking(q[i], q[i+1])

(* Producer p is about to write a link inside q. *)
LinksInside(p, q) ==
    \E i \in 1..(Len(q) - 1) :
        prev[p] = q[i] /\ cur[p] = q[i+1] /\ next[q[i]] = NULL

NoRepeat(q) == \A i, j \in 1..Len(q) : q[i] = q[j] => i = j

(* A block is in one place: with the user, with a producer that has not yet *)
(* swapped it in, in the queue, or with the consumer.                       *)
OnePlace ==
    /\ NoRepeat(queued) /\ NoRepeat(batch)
    /\ Contents(queued) \intersect Contents(batch) = {}
    /\ live \intersect (Contents(queued) \union Contents(batch)) = {}
    /\ \A p \in Producers : pc[p] = "swap" =>
          /\ cur[p] \notin live \union Contents(queued) \union Contents(batch)
          /\ next[cur[p]] = NULL
          /\ \A r \in Producers \ {p} : pc[r] = "swap" => cur[r] # cur[p]

ProducersLinked ==
    \A p \in Producers : pc[p] = "link" =>
        /\ IF prev[p] = NULL
             THEN /\ queued # <<>> /\ cur[p] = queued[1]
                  /\ head = NULL /\ cpc \notin {"clear", "swap"}
             ELSE LinksInside(p, queued) \/ LinksInside(p, batch)
        /\ \A r \in Producers \ {p} : pc[r] = "link" => cur[r] # cur[p]

HeadAndTail ==
    /\ tail = (IF queued = <<>> THEN NULL ELSE queued[Len(queued)])
    /\ queued = <<>> => head = NULL
    /\ head # NULL => head = queued[1]
    /\ queued # <<>> /\ head = NULL => cpc = "swap" \/ Linking(NULL, queued[1])

ConsumerLinked ==
    /\ cpc \in {"idle", "clear", "swap"} => batch = <<>>
    /\ cpc \in {"clear", "swap"} => queued # <<>> /\ localHead = queued[1]
    /\ cpc = "clear" => head = localHead
    /\ cpc = "swap" => head = NULL
    /\ cpc = "walk" =>
          /\ batch # <<>>
          /\ localHead = batch[1] /\ localTail = batch[Len(batch)]
          /\ \E k \in 1..Len(batch) :
                /\ current = batch[k]
                /\ \A i \in 1..(k - 1) : next[batch[i]] = batch[i+1]
    /\ cpc = "drain" =>
          /\ current = (IF batch = <<>> THEN NULL ELSE batch[1])
          /\ \A i \in 1..(Len(batch) - 1) : next[batch[i]] = batch[i+1]

IInv ==
    /\ TypeOK
    /\ Chained(queued) /\ Chained(batch)
    /\ OnePlace /\ ProducersLinked /\ HeadAndTail /\ ConsumerLinked

-----------------------------------------------------------------------------
(* The queue implements FlushQueue: a block leaves its user at the swap of  *)
(* insert, the whole queue is taken at the swap of dequeueAll, and blocks   *)
(* are freed in the order of the swaps.                                     *)
OfUsers == live \union {cur[p] : p \in {r \in Producers : pc[r] = "swap"}}

Abstract == INSTANCE FlushQueue WITH live <- OfUsers

Implements == Abstract!Spec

(* A block swapped into the queue is eventually free again, as long as its  *)
(* owner keeps flushing and no thread stops inside insert.                  *)
EventuallyFreed ==
    \A e \in Elements :
        e \in Contents(queued) \union Contents(batch) ~> e \in live
=============================================================================
