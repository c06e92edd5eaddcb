-------------------------- MODULE MPSCFQueue_proof --------------------------
(***************************************************************************)
(* For every number of producers and of blocks: IInv is an invariant of    *)
(* MPSCFQueue, it implies the safety properties, and the queue implements  *)
(* FlushQueue.                                                             *)
(***************************************************************************)
EXTENDS MPSCFQueue, TLAPS

-----------------------------------------------------------------------------
(* What Append and Tail do to the positions of a sequence. *)

(* Append keeps every position and adds one at the end. *)
LEMMA AppendFacts ==
    ASSUME NEW S, NEW q \in Seq(S), NEW e \in S
    PROVE  /\ Append(q, e) \in Seq(S)
           /\ Len(Append(q, e)) = Len(q) + 1
           /\ \A i \in 1..Len(q) : Append(q, e)[i] = q[i]
           /\ Append(q, e)[Len(q) + 1] = e
           /\ Contents(Append(q, e)) = Contents(q) \union {e}
<1>1. /\ Append(q, e) \in Seq(S)
      /\ Len(Append(q, e)) = Len(q) + 1
      /\ \A i \in 1..Len(q) : Append(q, e)[i] = q[i]
      /\ Append(q, e)[Len(q) + 1] = e
      /\ Len(q) \in Nat
  OBVIOUS
<1>2. Contents(Append(q, e)) = Contents(q) \union {e}
  BY <1>1 DEF Contents
<1> QED BY <1>1, <1>2

(* Tail shifts every position by one. *)
LEMMA TailFacts ==
    ASSUME NEW S, NEW q \in Seq(S), q # <<>>
    PROVE  /\ Tail(q) \in Seq(S)
           /\ Len(Tail(q)) = Len(q) - 1
           /\ Len(q) \in Nat \ {0}
           /\ Head(q) = q[1]
           /\ \A i \in 1..(Len(q) - 1) : Tail(q)[i] = q[i+1]
           /\ Contents(q) = Contents(Tail(q)) \union {q[1]}
<1>1. /\ Tail(q) \in Seq(S)
      /\ Len(Tail(q)) = Len(q) - 1
      /\ Len(q) \in Nat \ {0}
      /\ Head(q) = q[1]
      /\ \A i \in 1..(Len(q) - 1) : Tail(q)[i] = q[i+1]
  OBVIOUS
<1>2. ASSUME NEW x \in Contents(q) PROVE x \in Contents(Tail(q)) \union {q[1]}
  <2>1. PICK i \in 1..Len(q) : x = q[i]
    BY DEF Contents
  <2>2. CASE i = 1
    BY <2>1, <2>2
  <2>3. CASE i # 1
    <3>1. i - 1 \in 1..Len(Tail(q)) /\ Tail(q)[i - 1] = x
      BY <1>1, <2>1, <2>3
    <3> QED BY <3>1 DEF Contents
  <2> QED BY <2>2, <2>3
<1>3. ASSUME NEW x \in Contents(Tail(q)) \union {q[1]} PROVE x \in Contents(q)
  <2>1. CASE x = q[1]
    BY <1>1, <2>1 DEF Contents
  <2>2. CASE x \in Contents(Tail(q))
    <3>1. PICK i \in 1..Len(Tail(q)) : x = Tail(q)[i]
      BY <2>2 DEF Contents
    <3>2. i + 1 \in 1..Len(q) /\ x = q[i+1]
      BY <1>1, <3>1
    <3> QED BY <3>2 DEF Contents
  <2> QED BY <2>1, <2>2
<1> QED BY <1>1, <1>2, <1>3

(* The empty sequence and the first and last positions of any other. *)
LEMMA SeqFacts ==
    ASSUME NEW S, NEW q \in Seq(S)
    PROVE  /\ Len(q) \in Nat
           /\ q = <<>> <=> Len(q) = 0
           /\ \A i \in 1..Len(q) : q[i] \in S /\ q[i] \in Contents(q)
           /\ Contents(q) \subseteq S
           /\ Contents(<<>>) = {}
           /\ Len(<<>>) = 0
BY DEF Contents

-----------------------------------------------------------------------------
(* The empty queue satisfies the inductive invariant. *)
THEOREM InitInvariant == Init => IInv
<1> SUFFICES ASSUME Init PROVE IInv
  OBVIOUS
<1>1. queued = <<>> /\ batch = <<>> /\ Len(<<>>) = 0 /\ <<>> \in Seq(Elements)
  BY DEF Init
<1>2. TypeOK
  BY <1>1 DEF Init, TypeOK, Pointer
<1>3. Chained(queued) /\ Chained(batch)
  BY <1>1 DEF Chained
<1>4. OnePlace
  BY <1>1 DEF Init, OnePlace, NoRepeat, Contents
<1>5. ProducersLinked
  BY DEF Init, ProducersLinked
<1>6. HeadAndTail /\ ConsumerLinked
  BY <1>1 DEF Init, HeadAndTail, ConsumerLinked
<1> QED BY <1>2, <1>3, <1>4, <1>5, <1>6 DEF IInv

-----------------------------------------------------------------------------
(* One lemma per action: it preserves the inductive invariant. *)

(* Clearing the link of a block the user gave up leaves IInv true: no chain
   goes through a live block. *)
LEMMA BeginInsertPreserves ==
    ASSUME IInv, NEW p \in Producers, BeginInsert(p)
    PROVE  IInv'
<1> USE NullAssumption DEF IInv
<1>1. PICK e \in live :
        /\ live' = live \ {e}
        /\ cur' = [cur EXCEPT ![p] = e]
        /\ next' = [next EXCEPT ![e] = NULL]
        /\ pc[p] = "idle" /\ pc' = [pc EXCEPT ![p] = "swap"]
        /\ UNCHANGED <<head, tail, prev, cpc, localHead, localTail, current,
                       queued, batch>>
  BY DEF BeginInsert, ClearLink, consumerVars
<1>2. /\ e \in Elements
      /\ \A i \in 1..Len(queued) : queued[i] # e /\ queued[i] \in Elements
      /\ \A i \in 1..Len(batch) : batch[i] # e /\ batch[i] \in Elements
      /\ Len(queued) \in Nat /\ Len(batch) \in Nat
  BY <1>1, SeqFacts DEF OnePlace, TypeOK
<1>3. TypeOK'
  BY <1>1, <1>2 DEF TypeOK, Pointer
<1>4. \A a, b : Linking(a, b)' <=> Linking(a, b)
  BY <1>1 DEF Linking, TypeOK
<1>5. Chained(queued)' /\ Chained(batch)'
  BY <1>1, <1>2, <1>4 DEF Chained, TypeOK
<1>6. OnePlace'
  <2>1. /\ NoRepeat(queued)' /\ NoRepeat(batch)'
        /\ Contents(queued)' = Contents(queued) /\ Contents(batch)' = Contents(batch)
        /\ e \notin Contents(queued) \union Contents(batch)
    BY <1>1, <1>2 DEF OnePlace, NoRepeat, Contents
  <2>2. live' \intersect (Contents(queued) \union Contents(batch)) = {}
    BY <1>1 DEF OnePlace
  <2>3. ASSUME NEW q \in Producers, pc'[q] = "swap"
        PROVE  /\ cur'[q] \notin live' \union Contents(queued) \union Contents(batch)
               /\ next'[cur'[q]] = NULL
               /\ \A r \in Producers \ {q} : pc'[r] = "swap" => cur'[r] # cur'[q]
    <3>1. \A r \in Producers : pc[r] = "swap" =>
             cur[r] # e /\ cur[r] \in Elements /\ cur'[r] = cur[r]
      BY <1>1 DEF OnePlace, TypeOK
    <3>2. CASE q = p
      BY <1>1, <1>2, <2>1, <3>1, <3>2 DEF TypeOK
    <3>3. CASE q # p
      BY <1>1, <1>2, <2>1, <2>3, <3>1, <3>3 DEF OnePlace, TypeOK
    <3> QED BY <3>2, <3>3
  <2> QED BY <2>1, <2>2, <2>3 DEF OnePlace
<1>7. ProducersLinked'
  BY <1>1, <1>2 DEF ProducersLinked, LinksInside, TypeOK
<1>8. HeadAndTail'
  BY <1>1, <1>4 DEF HeadAndTail
<1>9. ConsumerLinked'
  BY <1>1, <1>2 DEF ConsumerLinked, TypeOK
<1> QED BY <1>3, <1>5, <1>6, <1>7, <1>8, <1>9

(* The swap of the tail keeps IInv: the new last block has a link pending. *)
LEMMA InsertSwapTailPreserves ==
    ASSUME IInv, NEW p \in Producers, InsertSwapTail(p)
    PROVE  IInv'
<1> USE NullAssumption DEF IInv
<1> DEFINE e == cur[p]
           n == Len(queued)
<1>1. /\ pc[p] = "swap" /\ pc' = [pc EXCEPT ![p] = "link"]
      /\ prev' = [prev EXCEPT ![p] = tail]
      /\ tail' = e
      /\ queued' = Append(queued, e)
      /\ UNCHANGED <<head, next, cur, cpc, localHead, localTail, current,
                     live, batch>>
  BY DEF InsertSwapTail, consumerVars
<1>2. /\ e \in Elements /\ next[e] = NULL
      /\ e \notin live \union Contents(queued) \union Contents(batch)
      /\ n \in Nat /\ Len(batch) \in Nat
      /\ queued = <<>> <=> n = 0
      /\ \A i \in 1..n : queued[i] # e /\ queued[i] \in Elements
      /\ \A i \in 1..Len(batch) : batch[i] # e /\ batch[i] \in Elements
  BY <1>1, SeqFacts DEF OnePlace, TypeOK
<1>3. /\ queued' \in Seq(Elements) /\ Len(queued') = n + 1
      /\ \A i \in 1..n : queued'[i] = queued[i]
      /\ queued'[n + 1] = e
      /\ Contents(queued') = Contents(queued) \union {e}
      /\ queued' # <<>>
  BY <1>1, <1>2, AppendFacts, SeqFacts DEF TypeOK
<1> HIDE DEF e, n
<1>4. TypeOK'
  BY <1>1, <1>2, <1>3 DEF TypeOK, Pointer, e
<1>5. \A a, b : Linking(a, b)' <=> Linking(a, b) \/ (a = tail /\ b = e)
  BY <1>1 DEF Linking, TypeOK, e
<1>6. Chained(queued)' /\ Chained(batch)'
  <2>1. Chained(batch)'
    BY <1>1, <1>2, <1>5 DEF Chained, TypeOK
  <2>2. ASSUME NEW i \in 1..(n + 1)
        PROVE  IF i = n + 1
                 THEN next[queued'[i]] = NULL
                 ELSE \/ next[queued'[i]] = queued'[i+1]
                      \/ /\ next[queued'[i]] = NULL
                         /\ \E r \in Producers : /\ pc'[r] = "link"
                                                 /\ prev'[r] = queued'[i]
                                                 /\ cur'[r] = queued'[i+1]
    <3>1. CASE i = n + 1
      BY <1>2, <1>3, <3>1
    <3>2. CASE i = n
      <4>1. queued'[i] = tail /\ queued'[i+1] = e /\ next[tail] = NULL
        BY <1>2, <1>3, <3>2 DEF Chained, HeadAndTail, n
      <4>2. pc'[p] = "link" /\ prev'[p] = tail /\ cur'[p] = e
        BY <1>1 DEF TypeOK, e
      <4> QED BY <1>2, <3>2, <4>1, <4>2
    <3>3. CASE i < n
      <4>1. queued'[i] = queued[i] /\ queued'[i+1] = queued[i+1] /\ i \in 1..n /\ i # n
        BY <1>2, <1>3, <3>3
      <4>2. \/ next[queued[i]] = queued[i+1]
            \/ next[queued[i]] = NULL /\ Linking(queued[i], queued[i+1])
        BY <4>1 DEF Chained, n
      <4>3. Linking(queued[i], queued[i+1]) =>
              \E r \in Producers : /\ pc'[r] = "link"
                                   /\ prev'[r] = queued[i]
                                   /\ cur'[r] = queued[i+1]
        BY <1>1 DEF Linking, TypeOK
      <4> QED BY <1>2, <3>3, <4>1, <4>2, <4>3
    <3> QED BY <1>2, <3>1, <3>2, <3>3
  <2>3. next' = next /\ 1..Len(queued') = 1..(n + 1) /\ Len(queued') = n + 1
    BY <1>1, <1>3
  <2>4. Chained(queued)'
    BY <2>2, <2>3 DEF Chained, Linking
  <2> QED BY <2>1, <2>4
<1>7. OnePlace'
  <2>1. NoRepeat(queued)' /\ NoRepeat(batch)'
    BY <1>1, <1>2, <1>3 DEF OnePlace, NoRepeat, n
  <2>2. /\ Contents(queued)' = Contents(queued) \union {e}
        /\ Contents(batch)' = Contents(batch)
    BY <1>1, <1>3 DEF Contents
  <2>3. /\ Contents(queued)' \intersect Contents(batch)' = {}
        /\ live' \intersect (Contents(queued)' \union Contents(batch)') = {}
    BY <1>1, <1>2, <2>2 DEF OnePlace
  <2>4. ASSUME NEW q \in Producers, pc'[q] = "swap"
        PROVE  /\ cur'[q] \notin live' \union Contents(queued)' \union Contents(batch)'
               /\ next'[cur'[q]] = NULL
               /\ \A r \in Producers \ {q} : pc'[r] = "swap" => cur'[r] # cur'[q]
    <3>1. q # p /\ pc[q] = "swap" /\ pc[p] = "swap" /\ cur[q] # cur[p]
      BY <1>1, <2>4 DEF OnePlace, TypeOK
    <3> QED BY <1>1, <2>2, <3>1 DEF OnePlace, TypeOK, e
  <2> QED BY <2>1, <2>3, <2>4 DEF OnePlace
<1>8. ProducersLinked'
  <2>1. ASSUME NEW q \in Producers, pc'[q] = "link"
        PROVE  IF prev'[q] = NULL
                 THEN /\ queued' # <<>> /\ cur'[q] = queued'[1]
                      /\ head' = NULL /\ cpc' \notin {"clear", "swap"}
                 ELSE LinksInside(q, queued)' \/ LinksInside(q, batch)'
    <3>1. CASE q = p /\ n = 0
      BY <1>1, <1>2, <1>3, <3>1 DEF HeadAndTail, ConsumerLinked, TypeOK, e, n
    <3>2. CASE q = p /\ n # 0
      <4>1. prev'[p] = queued[n] /\ queued[n] # NULL
        BY <1>1, <1>2, <3>2 DEF HeadAndTail, TypeOK, n
      <4>2. next[queued[n]] = NULL
        BY <1>2, <3>2 DEF Chained, n
      <4>3. n \in 1..(Len(queued') - 1) /\ queued'[n] = queued[n] /\ cur'[p] = queued'[n+1]
        BY <1>1, <1>2, <1>3, <3>2 DEF e
      <4> QED BY <1>1, <3>2, <4>1, <4>2, <4>3 DEF LinksInside
    <3>3. CASE q # p
      <4>1. pc[q] = "link" /\ prev'[q] = prev[q] /\ cur'[q] = cur[q]
        BY <1>1, <2>1, <3>3 DEF TypeOK
      <4>2. CASE prev[q] = NULL
        BY <1>1, <1>2, <1>3, <4>1, <4>2 DEF ProducersLinked
      <4>3. CASE LinksInside(q, queued)
        <5>1. PICK i \in 1..(n - 1) :
                prev[q] = queued[i] /\ cur[q] = queued[i+1] /\ next[queued[i]] = NULL
          BY <4>3 DEF LinksInside, n
        <5>2. /\ i \in 1..(Len(queued') - 1)
              /\ queued'[i] = queued[i] /\ queued'[i+1] = queued[i+1]
              /\ queued[i] # NULL
          BY <1>2, <1>3, <5>1
        <5>3. LinksInside(q, queued)'
          BY <1>1, <4>1, <5>1, <5>2 DEF LinksInside
        <5> QED BY <4>1, <5>1, <5>2, <5>3
      <4>4. CASE LinksInside(q, batch)
        <5>1. LinksInside(q, batch)' /\ prev[q] # NULL
          BY <1>1, <1>2, <4>1, <4>4 DEF LinksInside
        <5> QED BY <4>1, <5>1
      <4> QED BY <2>1, <4>1, <4>2, <4>3, <4>4 DEF ProducersLinked
    <3> QED BY <3>1, <3>2, <3>3
  <2>2. ASSUME NEW q \in Producers, pc'[q] = "link",
               NEW r \in Producers \ {q}, pc'[r] = "link"
        PROVE  cur'[r] # cur'[q]
    <3>1. \A s \in Producers : pc[s] = "link" => cur[s] # e
      BY <1>2, SeqFacts DEF ProducersLinked, LinksInside, TypeOK
    <3> QED BY <1>1, <2>2, <3>1 DEF ProducersLinked, TypeOK, e
  <2> QED BY <2>1, <2>2 DEF ProducersLinked
<1>9. HeadAndTail'
  BY <1>1, <1>2, <1>3, <1>5 DEF HeadAndTail, TypeOK, n
<1>10. ConsumerLinked'
  <2>1. queued # <<>> => queued' # <<>> /\ queued'[1] = queued[1]
    BY <1>2, <1>3
  <2> QED BY <1>1, <2>1 DEF ConsumerLinked
<1> QED BY <1>4, <1>6, <1>7, <1>8, <1>9, <1>10

(* The store of the link, in the head or in the previous block, keeps IInv:
   it completes the one step of the chain that was pending. *)
LEMMA InsertLinkPreserves ==
    ASSUME IInv, NEW p \in Producers, InsertLink(p)
    PROVE  IInv'
<1> USE NullAssumption DEF IInv
<1>1. /\ pc[p] = "link" /\ pc' = [pc EXCEPT ![p] = "idle"]
      /\ cur' = [cur EXCEPT ![p] = NULL] /\ prev' = [prev EXCEPT ![p] = NULL]
      /\ UNCHANGED <<tail, cpc, localHead, localTail, current,
                     live, queued, batch>>
  BY DEF InsertLink, consumerVars, historyVars
<1>2. /\ IF prev[p] = NULL
           THEN head' = cur[p] /\ next' = next
           ELSE next' = [next EXCEPT ![prev[p]] = cur[p]] /\ head' = head
      /\ cur[p] \in Elements /\ prev[p] \in Pointer
  BY <1>1 DEF InsertLink, TypeOK
<1>3. /\ Len(queued) \in Nat /\ Len(batch) \in Nat
      /\ \A i \in 1..Len(queued) : queued[i] \in Elements /\ queued[i] \in Contents(queued)
      /\ \A i \in 1..Len(batch) : batch[i] \in Elements /\ batch[i] \in Contents(batch)
      /\ queued = <<>> <=> Len(queued) = 0
      /\ batch = <<>> <=> Len(batch) = 0
  BY SeqFacts DEF TypeOK
<1>4. TypeOK'
  BY <1>1, <1>2 DEF TypeOK, Pointer
<1>5. \A q \in Producers : pc'[q] # "idle" =>
         q # p /\ pc'[q] = pc[q] /\ cur'[q] = cur[q] /\ prev'[q] = prev[q]
  BY <1>1 DEF TypeOK
<1>6. ASSUME prev[p] = NULL PROVE IInv'
  <2>1. \A q \in Producers : q # p /\ pc[q] = "link" => prev[q] # NULL
    BY <1>1, <1>6 DEF ProducersLinked
  <2>2. \A a, b : a # NULL => (Linking(a, b)' <=> Linking(a, b))
    BY <1>1, <1>5, <1>6 DEF Linking, TypeOK
  <2>3. /\ queued # <<>> /\ cur[p] = queued[1]
        /\ cpc \notin {"clear", "swap"} /\ head' = queued[1] /\ next' = next
    BY <1>1, <1>2, <1>6 DEF ProducersLinked
  <2>4. Chained(queued)' /\ Chained(batch)'
    BY <1>1, <1>3, <2>2, <2>3 DEF Chained
  <2>5. OnePlace'
    BY <1>1, <1>5, <2>3 DEF OnePlace, NoRepeat, Contents
  <2>6. ProducersLinked'
    BY <1>1, <1>5, <2>1, <2>3 DEF ProducersLinked, LinksInside
  <2>7. HeadAndTail'
    BY <1>1, <1>3, <2>3 DEF HeadAndTail
  <2>8. ConsumerLinked'
    BY <1>1, <2>3 DEF ConsumerLinked
  <2> QED BY <1>4, <2>4, <2>5, <2>6, <2>7, <2>8
<1>7. ASSUME prev[p] # NULL PROVE IInv'
  <2> DEFINE a == prev[p]
             b == cur[p]
  <2>1. /\ a \in Elements /\ b \in Elements /\ next[a] = NULL
        /\ next' = [next EXCEPT ![a] = b] /\ head' = head
        /\ a \in Contents(queued) \union Contents(batch)
    BY <1>1, <1>2, <1>3, <1>7 DEF ProducersLinked, LinksInside, TypeOK, Pointer
  <2>2. \A i \in 1..Len(queued) : queued[i] = a =>
           i # Len(queued) /\ queued[i+1] = b
    BY <1>1, <1>3, <1>7 DEF ProducersLinked, LinksInside, OnePlace, NoRepeat
  <2>3. \A i \in 1..Len(batch) : batch[i] = a =>
           i # Len(batch) /\ batch[i+1] = b
    BY <1>1, <1>3, <1>7 DEF ProducersLinked, LinksInside, OnePlace, NoRepeat
  <2>4. \A x, y : x # a => (Linking(x, y)' <=> Linking(x, y))
    BY <1>1, <1>5 DEF Linking, TypeOK
  <2> HIDE DEF a, b
  <2>5. Chained(queued)' /\ Chained(batch)'
    <3>1. Chained(queued)'
      BY <1>1, <1>3, <2>1, <2>2, <2>4 DEF Chained, TypeOK
    <3>2. Chained(batch)'
      BY <1>1, <1>3, <2>1, <2>3, <2>4 DEF Chained, TypeOK
    <3> QED BY <3>1, <3>2
  <2>6. OnePlace'
    <3>1. Contents(queued)' = Contents(queued) /\ Contents(batch)' = Contents(batch)
      BY <1>1 DEF Contents
    <3>2. \A q \in Producers : pc[q] = "swap" => next'[cur[q]] = NULL
      BY <2>1 DEF OnePlace, TypeOK
    <3> QED BY <1>1, <1>5, <3>1, <3>2 DEF OnePlace, NoRepeat
  <2>7. ProducersLinked'
    <3>1. ASSUME NEW q \in Producers, pc'[q] = "link", prev[q] # NULL
          PROVE  LinksInside(q, queued)' \/ LinksInside(q, batch)'
      <4>1. prev[q] # a /\ q # p /\ pc[q] = "link" /\ prev'[q] = prev[q] /\ cur'[q] = cur[q]
        <5>1. q # p /\ pc[q] = "link" /\ cur[q] # b /\ prev'[q] = prev[q] /\ cur'[q] = cur[q]
          BY <1>1, <1>5, <3>1 DEF ProducersLinked, b
        <5>2. prev[q] # a
          BY <1>3, <2>2, <2>3, <3>1, <5>1 DEF ProducersLinked, LinksInside
        <5> QED BY <5>1, <5>2
      <4>2. CASE LinksInside(q, queued)
        BY <1>1, <1>3, <2>1, <4>1, <4>2 DEF LinksInside, TypeOK
      <4>3. CASE LinksInside(q, batch)
        BY <1>1, <1>3, <2>1, <4>1, <4>3 DEF LinksInside, TypeOK
      <4> QED BY <3>1, <4>1, <4>2, <4>3 DEF ProducersLinked
    <3> QED BY <1>1, <1>5, <2>1, <3>1 DEF ProducersLinked
  <2>8. HeadAndTail'
    <3>1. \A y : Linking(NULL, y)' <=> Linking(NULL, y)
      BY <2>1, <2>4
    <3> QED BY <1>1, <2>1, <3>1 DEF HeadAndTail
  <2>9. ConsumerLinked'
    <3>1. \A i \in 1..(Len(batch) - 1) :
             next[batch[i]] = batch[i+1] => next'[batch[i]] = batch[i+1]
      BY <1>3, <2>1 DEF TypeOK
    <3> QED BY <1>1, <1>3, <2>1, <3>1 DEF ConsumerLinked
  <2> QED BY <1>4, <2>5, <2>6, <2>7, <2>8, <2>9
<1> QED BY <1>6, <1>7

(* Reading and clearing the head keep IInv: no producer writes the head
   meanwhile. *)
LEMMA LoadAndClearPreserve ==
    ASSUME IInv, LoadHead \/ ClearHead \/ DrainDone
    PROVE  IInv'
<1> USE NullAssumption DEF IInv
<1>1. /\ UNCHANGED <<tail, next, pc, cur, prev, current, live, queued, batch>>
      /\ head' = head \/ head' = NULL
  BY DEF LoadHead, ClearHead, DrainDone, queueVars, producerVars, historyVars
<1>2. TypeOK'
  BY <1>1 DEF LoadHead, ClearHead, DrainDone, queueVars, TypeOK, Pointer
<1>3. \A a, b : Linking(a, b)' <=> Linking(a, b)
  BY <1>1 DEF Linking
<1>4. Chained(queued)' /\ Chained(batch)'
  BY <1>1, <1>3 DEF Chained
<1>5. OnePlace'
  BY <1>1 DEF OnePlace, NoRepeat, Contents
<1>6. \A p \in Producers : /\ LinksInside(p, queued)' <=> LinksInside(p, queued)
                           /\ LinksInside(p, batch)' <=> LinksInside(p, batch)
  BY <1>1 DEF LinksInside
<1>7. queued = <<>> <=> Len(queued) = 0
  BY SeqFacts DEF TypeOK
<1>8. CASE LoadHead
  BY <1>1, <1>2, <1>3, <1>4, <1>5, <1>6, <1>7, <1>8
     DEF LoadHead, queueVars, ProducersLinked, HeadAndTail, ConsumerLinked
<1>9. CASE ClearHead
  BY <1>1, <1>2, <1>3, <1>4, <1>5, <1>6, <1>7, <1>9
     DEF ClearHead, ProducersLinked, HeadAndTail, ConsumerLinked
<1>10. CASE DrainDone
  <2>1. batch = <<>> /\ cpc' = "idle" /\ cpc = "drain" /\ head' = head
    <3>1. \A i \in 1..Len(batch) : batch[i] # NULL
      BY DEF TypeOK
    <3> QED BY <1>10, <3>1, SeqFacts DEF DrainDone, queueVars, ConsumerLinked, TypeOK
  <2> QED BY <1>1, <1>2, <1>3, <1>4, <1>5, <1>6, <2>1
          DEF ProducersLinked, HeadAndTail, ConsumerLinked
<1> QED BY <1>8, <1>9, <1>10

(* The swap of the tail by the consumer keeps IInv: the chain from the local
   head to the local tail is the whole queue. *)
LEMMA DequeueSwapTailPreserves ==
    ASSUME IInv, DequeueSwapTail
    PROVE  IInv'
<1> USE NullAssumption DEF IInv
<1>1. /\ cpc = "swap" /\ cpc' = "walk" /\ localTail' = tail /\ tail' = NULL
      /\ batch' = queued /\ queued' = <<>> /\ current' = localHead
      /\ UNCHANGED <<head, next, pc, cur, prev, localHead, live>>
  BY DEF DequeueSwapTail, producerVars
<1>2. /\ batch = <<>> /\ head = NULL /\ queued # <<>> /\ localHead = queued[1]
      /\ Len(queued) \in Nat \ {0} /\ Len(<<>>) = 0
      /\ Contents(<<>>) = {} /\ <<>> \in Seq(Elements)
      /\ tail = queued[Len(queued)] /\ tail \in Elements /\ localHead \in Elements
  BY <1>1, SeqFacts DEF ConsumerLinked, HeadAndTail, TypeOK
<1>3. TypeOK'
  BY <1>1, <1>2 DEF TypeOK, Pointer
<1>4. \A a, b : Linking(a, b)' <=> Linking(a, b)
  BY <1>1 DEF Linking
<1>5. Chained(queued)' /\ Chained(batch)'
  BY <1>1, <1>2, <1>4 DEF Chained
<1>6. OnePlace'
  BY <1>1, <1>2 DEF OnePlace, NoRepeat, Contents
<1>7. ProducersLinked'
  <2>1. \A p \in Producers : ~ LinksInside(p, batch)
    BY <1>2 DEF LinksInside
  <2>2. \A p \in Producers : LinksInside(p, queued) => LinksInside(p, batch)'
    BY <1>1 DEF LinksInside
  <2> QED BY <1>1, <2>1, <2>2 DEF ProducersLinked
<1>8. HeadAndTail'
  BY <1>1, <1>2 DEF HeadAndTail
<1>9. ConsumerLinked'
  BY <1>1, <1>2 DEF ConsumerLinked
<1> QED BY <1>3, <1>5, <1>6, <1>7, <1>8, <1>9

(* The walk to the last block keeps IInv: it only passes completed links. *)
LEMMA WalkPreserves ==
    ASSUME IInv, WalkStep \/ WalkDone
    PROVE  IInv'
<1> USE NullAssumption DEF IInv
<1>1. /\ cpc = "walk"
      /\ UNCHANGED <<head, tail, next, pc, cur, prev, live, queued, batch>>
  BY DEF WalkStep, WalkDone, queueVars, producerVars, historyVars
<1>2. PICK k \in 1..Len(batch) :
        /\ current = batch[k]
        /\ \A i \in 1..(k - 1) : next[batch[i]] = batch[i+1]
  BY <1>1 DEF ConsumerLinked
<1>3. /\ batch # <<>> /\ Len(batch) \in Nat /\ localHead = batch[1]
      /\ localTail = batch[Len(batch)]
      /\ \A i \in 1..Len(batch) : batch[i] \in Elements
      /\ k \in Nat
  BY <1>1, SeqFacts DEF ConsumerLinked, TypeOK
<1>4. \A a, b : Linking(a, b)' <=> Linking(a, b)
  BY <1>1 DEF Linking
<1>5. Chained(queued)' /\ Chained(batch)' /\ OnePlace'
  <2>1. Chained(queued)' /\ Chained(batch)'
    BY <1>1, <1>4 DEF Chained
  <2>2. OnePlace'
    BY <1>1 DEF OnePlace, NoRepeat, Contents
  <2> QED BY <2>1, <2>2
<1>6. \A p \in Producers : /\ LinksInside(p, queued)' <=> LinksInside(p, queued)
                           /\ LinksInside(p, batch)' <=> LinksInside(p, batch)
  BY <1>1 DEF LinksInside
<1>7. CASE WalkStep
  <2>1. k # Len(batch) /\ k + 1 \in 1..Len(batch) /\ current' = batch[k+1]
        /\ next[batch[k]] = batch[k+1]
    <3>1. k # Len(batch) /\ next[batch[k]] # NULL /\ current' = next[batch[k]]
      BY <1>2, <1>3, <1>7 DEF WalkStep
    <3> QED BY <1>2, <1>3, <3>1 DEF Chained
  <2>2. cpc' = "walk" /\ localHead' = localHead /\ localTail' = localTail
    BY <1>7 DEF WalkStep
  <2>3. TypeOK'
    BY <1>1, <1>3, <2>1, <2>2 DEF TypeOK, Pointer
  <2>4. ProducersLinked' /\ HeadAndTail'
    BY <1>1, <1>4, <1>6, <2>2 DEF ProducersLinked, HeadAndTail
  <2>5. \A i \in 1..k : next[batch[i]] = batch[i+1]
    BY <1>2, <1>3, <2>1
  <2>6. ConsumerLinked'
    <3>1. /\ k + 1 \in 1..Len(batch') /\ current' = batch'[k+1]
          /\ \A i \in 1..((k + 1) - 1) : next'[batch'[i]] = batch'[i+1]
      BY <1>1, <1>3, <2>1, <2>5
    <3> QED BY <1>1, <1>3, <2>2, <3>1 DEF ConsumerLinked
  <2> QED BY <1>5, <2>3, <2>4, <2>6
<1>8. CASE WalkDone
  <2>1. /\ current = localTail /\ cpc' = "drain" /\ current' = batch[1]
        /\ localHead' = NULL /\ localTail' = NULL
    BY <1>3, <1>8 DEF WalkDone
  <2>9. k = Len(batch)
    <3>1. batch[k] = batch[Len(batch)] /\ Len(batch) \in 1..Len(batch)
      BY <1>2, <1>3, <2>1
    <3> QED BY <3>1 DEF OnePlace, NoRepeat
  <2>2. TypeOK'
    BY <1>1, <1>3, <2>1 DEF TypeOK, Pointer
  <2>3. ProducersLinked' /\ HeadAndTail'
    BY <1>1, <1>4, <1>6, <2>1 DEF ProducersLinked, HeadAndTail
  <2>4. ConsumerLinked'
    BY <1>1, <1>2, <1>3, <2>1, <2>9 DEF ConsumerLinked
  <2> QED BY <1>5, <2>2, <2>3, <2>4
<1> QED BY <1>7, <1>8

(* Freeing the block flushRemote is at keeps IInv: nobody else points to it. *)
LEMMA ReleaseCurrentPreserves ==
    ASSUME IInv, ReleaseCurrent
    PROVE  IInv'
<1> USE NullAssumption DEF IInv
<1>1. PICK word \in Pointer :
        /\ cpc = "drain" /\ current # NULL
        /\ current' = next[current]
        /\ next' = [next EXCEPT ![current] = word]
        /\ live' = live \union {current} /\ batch' = Tail(batch)
        /\ UNCHANGED <<head, tail, pc, cur, prev, cpc, localHead, localTail, queued>>
  BY DEF ReleaseCurrent, producerVars
<1>2. batch # <<>> /\ current = batch[1]
  BY <1>1 DEF ConsumerLinked
<1> DEFINE n == Len(batch)
<1>3. /\ n \in Nat \ {0} /\ batch' \in Seq(Elements) /\ Len(batch') = n - 1
      /\ \A i \in 1..(n - 1) : batch'[i] = batch[i+1]
      /\ Contents(batch) = Contents(batch') \union {current}
      /\ \A i \in 1..n : batch[i] \in Elements /\ batch[i] \in Contents(batch)
      /\ batch' = <<>> <=> n = 1
      /\ current \in Elements
  <2>1. /\ n \in Nat \ {0} /\ batch' \in Seq(Elements) /\ Len(batch') = n - 1
        /\ \A i \in 1..(n - 1) : batch'[i] = batch[i+1]
        /\ Contents(batch) = Contents(batch') \union {current}
    BY <1>1, <1>2, TailFacts DEF TypeOK
  <2>2. \A i \in 1..n : batch[i] \in Elements /\ batch[i] \in Contents(batch)
    BY SeqFacts DEF TypeOK
  <2>3. batch' = <<>> <=> Len(batch') = 0
    BY <2>1, SeqFacts
  <2> QED BY <1>2, <2>1, <2>2, <2>3
<1>4. /\ Len(queued) \in Nat
      /\ \A i \in 1..Len(queued) : queued[i] \in Elements /\ queued[i] \in Contents(queued)
  BY SeqFacts DEF TypeOK
<1>5. \A i \in 1..(n - 1) : next[batch[i]] = batch[i+1]
  BY <1>1 DEF ConsumerLinked
<1>6. \A i \in 1..n : i # 1 => batch[i] # current
  BY <1>2, <1>3 DEF OnePlace, NoRepeat
<1>7. \A i \in 1..Len(queued) : queued[i] # current
  BY <1>2, <1>3, <1>4 DEF OnePlace
<1> HIDE DEF n
<1>8. \A p \in Producers : ~ LinksInside(p, batch)
  BY <1>3, <1>5 DEF LinksInside, n
<1>9. TypeOK'
  BY <1>1, <1>3 DEF TypeOK, Pointer
<1>10. \A a, b : Linking(a, b)' <=> Linking(a, b)
  BY <1>1 DEF Linking
<1>11. Chained(queued)'
  BY <1>1, <1>4, <1>7, <1>10 DEF Chained, TypeOK
<1>12. \A i \in 1..(n - 2) : next'[batch'[i]] = batch'[i+1]
  <2> SUFFICES ASSUME NEW i \in 1..(n - 2) PROVE next'[batch'[i]] = batch'[i+1]
    OBVIOUS
  <2>1. /\ i + 1 \in 1..(n - 1) /\ i \in 1..(n - 1) /\ i + 1 \in 1..n /\ i + 1 # 1
    BY <1>3
  <2>2. batch'[i] = batch[i+1] /\ batch'[i+1] = batch[(i+1)+1]
    BY <1>3, <2>1
  <2>3. next'[batch[i+1]] = next[batch[i+1]]
    BY <1>1, <1>3, <1>6, <2>1 DEF TypeOK
  <2> QED BY <1>5, <2>1, <2>2, <2>3
<1>13. Chained(batch)'
  <2>1. n > 1 => next'[batch'[n - 1]] = NULL
    <3> SUFFICES ASSUME n > 1 PROVE next'[batch'[n - 1]] = NULL
      OBVIOUS
    <3>1. batch'[n - 1] = batch[n] /\ batch[n] # current /\ batch[n] \in Elements
      BY <1>3, <1>6
    <3>2. next[batch[n]] = NULL
      BY <1>3 DEF Chained, n
    <3> QED BY <1>1, <3>1, <3>2 DEF TypeOK
  <2> QED BY <1>3, <1>12, <2>1 DEF Chained
<1>14. OnePlace'
  <2>1. Contents(queued)' = Contents(queued) /\ Contents(batch)' = Contents(batch')
    BY <1>1 DEF Contents
  <2>2. current \notin Contents(batch') /\ current \notin Contents(queued)
    BY <1>3, <1>6, <1>7 DEF Contents
  <2>3. NoRepeat(queued)' /\ NoRepeat(batch)'
    <3>1. NoRepeat(queued)'
      BY <1>1 DEF OnePlace, NoRepeat
    <3>2. NoRepeat(batch)'
      BY <1>3 DEF OnePlace, NoRepeat, n
    <3> QED BY <3>1, <3>2
  <2>4. \A p \in Producers : pc[p] = "swap" => cur[p] # current /\ next'[cur[p]] = NULL
    BY <1>1, <1>2, <1>3 DEF OnePlace, TypeOK
  <2> QED BY <1>1, <1>3, <2>1, <2>2, <2>3, <2>4 DEF OnePlace
<1>15. ProducersLinked'
  <2>1. \A p \in Producers : LinksInside(p, queued) => LinksInside(p, queued)'
    BY <1>1, <1>4, <1>7 DEF LinksInside, TypeOK
  <2> QED BY <1>1, <1>8, <2>1 DEF ProducersLinked
<1>16. HeadAndTail'
  BY <1>1, <1>10 DEF HeadAndTail
<1>17. ConsumerLinked'
  <2>1. current' = IF batch' = <<>> THEN NULL ELSE batch'[1]
    <3>1. CASE n = 1
      BY <1>1, <1>2, <1>3, <3>1 DEF Chained, n
    <3>2. CASE n # 1
      BY <1>1, <1>2, <1>3, <1>5, <3>2
    <3> QED BY <3>1, <3>2
  <2> QED BY <1>1, <1>3, <1>12, <2>1 DEF ConsumerLinked
<1> QED BY <1>9, <1>11, <1>13, <1>14, <1>15, <1>16, <1>17

-----------------------------------------------------------------------------
(* Every state the queue can reach encodes queued and batch as IInv says.   *)
THEOREM QueueInvariant == Spec => []IInv
<1>1. Init => IInv
  BY InitInvariant
<1>2. IInv /\ [Next]_vars => IInv'
  <2> SUFFICES ASSUME IInv, [Next]_vars PROVE IInv'
    OBVIOUS
  <2>1. CASE \E p \in Producers : Insert(p)
    BY <2>1, BeginInsertPreserves, InsertSwapTailPreserves, InsertLinkPreserves
       DEF Insert
  <2>2. CASE Flush
    BY <2>2, LoadAndClearPreserve, DequeueSwapTailPreserves, WalkPreserves,
       ReleaseCurrentPreserves DEF Flush
  <2>3. CASE UNCHANGED vars
    <3> USE <2>3 DEF vars, queueVars, producerVars, consumerVars, historyVars
    <3>1. TypeOK'
      BY DEF IInv, TypeOK
    <3>2. Chained(queued)' /\ Chained(batch)'
      BY DEF IInv, Chained, Linking
    <3>3. OnePlace'
      BY DEF IInv, OnePlace, NoRepeat, Contents
    <3>4. ProducersLinked'
      BY DEF IInv, ProducersLinked, LinksInside
    <3>5. HeadAndTail'
      BY DEF IInv, HeadAndTail, Linking
    <3>6. ConsumerLinked'
      BY DEF IInv, ConsumerLinked
    <3> QED BY <3>1, <3>2, <3>3, <3>4, <3>5, <3>6 DEF IInv
  <2> QED BY <2>1, <2>2, <2>3 DEF Next
<1> QED BY <1>1, <1>2, PTL DEF Spec

(* What IInv implies: the safety properties of MPSCFQueue. *)

(* Every variable keeps its type, for any sets of producers and blocks. *)
THEOREM TypeCorrect == Spec => []TypeOK
<1>1. IInv => TypeOK
  BY DEF IInv
<1> QED BY <1>1, QueueInvariant, PTL

(* The assertions of dequeueAll and waitUntilEndId never fail. *)
THEOREM AssertionsHold == Spec => []DequeueAssertions
<1>1. IInv => DequeueAssertions
  <2> SUFFICES ASSUME IInv PROVE DequeueAssertions
    OBVIOUS
  <2>1. cpc = "swap" => tail # NULL
    <3> SUFFICES ASSUME cpc = "swap" PROVE tail # NULL
      OBVIOUS
    <3>1. queued # <<>> /\ tail = queued[Len(queued)]
      BY DEF IInv, ConsumerLinked, HeadAndTail
    <3>2. queued[Len(queued)] \in Elements
      BY <3>1, SeqFacts DEF IInv, TypeOK
    <3> QED BY <3>1, <3>2, NullAssumption
  <2>2. cpc = "walk" /\ current = localTail => next[current] = NULL
    BY SeqFacts DEF IInv, TypeOK, ConsumerLinked, Chained
  <2> QED BY <2>1, <2>2 DEF DequeueAssertions
<1> QED BY <1>1, QueueInvariant, PTL

(* A producer never links behind a block that was freed under it. *)
THEOREM LinkTargetIsHeld == Spec => []LinkTargetHeld
<1>1. IInv => LinkTargetHeld
  <2> SUFFICES ASSUME IInv, NEW p \in Producers, pc[p] = "link", prev[p] # NULL
               PROVE  prev[p] \notin live
    BY DEF LinkTargetHeld
  <2>1. LinksInside(p, queued) \/ LinksInside(p, batch)
    BY DEF IInv, ProducersLinked
  <2>2. prev[p] \in Contents(queued) \union Contents(batch)
    BY <2>1, SeqFacts DEF LinksInside, IInv, TypeOK
  <2> QED BY <2>2 DEF IInv, OnePlace
<1> QED BY <1>1, QueueInvariant, PTL

(* The plain stores to the head are alone. *)
THEOREM HeadStoreIsAlone == Spec => []HeadStoreAlone
<1>1. IInv => HeadStoreAlone
  BY DEF IInv, ProducersLinked, HeadStoreAlone
<1> QED BY <1>1, QueueInvariant, PTL

(* A NULL head seen at rest means an empty queue. *)
THEOREM EmptyTestIsExact == Spec => []EmptyIsExact
<1>1. IInv => EmptyIsExact
  BY DEF IInv, HeadAndTail, ConsumerLinked, Linking, EmptyIsExact
<1> QED BY <1>1, QueueInvariant, PTL

-----------------------------------------------------------------------------
(* Every behaviour of the queue is a behaviour of FlushQueue: no block is   *)
(* lost, freed twice or freed out of order, whatever the interleaving.      *)
THEOREM QueueImplements == Spec => Implements
<1>1. Init => Abstract!Init
  BY DEF Init, Abstract!Init, OfUsers
<1>2. IInv /\ [Next]_vars => [Abstract!Next]_(Abstract!vars)
  <2> SUFFICES ASSUME IInv, [Next]_vars
               PROVE  Abstract!Next \/ UNCHANGED <<OfUsers, queued, batch>>
    BY DEF Abstract!vars
  <2> USE DEF IInv
  <2>1. ASSUME NEW p \in Producers, BeginInsert(p)
        PROVE  UNCHANGED <<OfUsers, queued, batch>>
    BY <2>1 DEF BeginInsert, OfUsers, TypeOK
  <2>2. ASSUME NEW p \in Producers, InsertSwapTail(p)
        PROVE  Abstract!Put(cur[p])
    <3>1. /\ pc[p] = "swap" /\ pc' = [pc EXCEPT ![p] = "link"]
          /\ UNCHANGED <<cur, live, batch>> /\ queued' = Append(queued, cur[p])
      BY <2>2 DEF InsertSwapTail
    <3>2. cur[p] \in OfUsers
      BY <3>1 DEF OfUsers
    <3>3. OfUsers' = OfUsers \ {cur[p]}
      BY <3>1 DEF OfUsers, OnePlace, TypeOK
    <3> QED BY <3>1, <3>2, <3>3 DEF Abstract!Put
  <2>3. ASSUME NEW p \in Producers, InsertLink(p)
        PROVE  UNCHANGED <<OfUsers, queued, batch>>
    BY <2>3 DEF InsertLink, historyVars, OfUsers, TypeOK
  <2>4. CASE LoadHead \/ ClearHead \/ WalkStep \/ WalkDone \/ DrainDone
    BY <2>4 DEF LoadHead, ClearHead, WalkStep, WalkDone, DrainDone,
                producerVars, historyVars, OfUsers
  <2>5. CASE DequeueSwapTail
    BY <2>5 DEF DequeueSwapTail, producerVars, OfUsers, ConsumerLinked,
                Abstract!Next, Abstract!TakeAll
  <2>6. CASE ReleaseCurrent
    <3>1. /\ batch # <<>> /\ current = batch[1] /\ batch' = Tail(batch)
          /\ live' = live \union {current} /\ UNCHANGED <<pc, cur, queued>>
      BY <2>6 DEF ReleaseCurrent, producerVars, ConsumerLinked
    <3>2. current = Head(batch)
      BY <3>1, TailFacts DEF TypeOK
    <3>3. OfUsers' = OfUsers \union {current}
      BY <3>1 DEF OfUsers
    <3> QED BY <3>1, <3>2, <3>3 DEF Abstract!Next, Abstract!Release
  <2>7. CASE UNCHANGED vars
    BY <2>7 DEF vars, producerVars, historyVars, OfUsers
  <2>8. ASSUME NEW p \in Producers, Insert(p)
        PROVE  Abstract!Next \/ UNCHANGED <<OfUsers, queued, batch>>
    <3>1. cur[p] \in Elements \/ pc[p] # "swap"
      BY DEF TypeOK
    <3> QED BY <2>1, <2>2, <2>3, <2>8, <3>1 DEF Insert, InsertSwapTail, Abstract!Next
  <2> QED BY <2>4, <2>5, <2>6, <2>7, <2>8 DEF Next, Flush
<1> QED BY <1>1, <1>2, QueueInvariant, PTL DEF Spec, Implements, Abstract!Spec
=============================================================================
