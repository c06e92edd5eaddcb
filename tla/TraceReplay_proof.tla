-------------------------- MODULE TraceReplay_proof --------------------------
(***************************************************************************)
(* For every number of threads and every trace: the file of a program is   *)
(* what a reader expects wherever the program ended, and the replay maps   *)
(* every address to a block of its own that is allocated.                  *)
(***************************************************************************)
EXTENDS TraceReplay, SequenceTheorems, FiniteSetTheorems, WellFoundedInduction, TLAPS

-----------------------------------------------------------------------------
(* Numbers *)

(* A set of natural numbers that is not empty has a least element: what is  *)
(* cited here in place of an induction.                                     *)
LEMMA LeastElement ==
    ASSUME NEW S \in SUBSET Nat, S # {}
    PROVE  \E x \in S : \A y \in S : x <= y
<1> DEFINE Less == {p \in Nat \X Nat : p[1] < p[2]}
<1>1. IsWellFoundedOn(Less, Nat)
  <2>1. IsWellFoundedOn(OpToRel(<, Nat), Nat)
    BY NatLessThanWellFounded
  <2>2. OpToRel(<, Nat) = Less
    BY Zenon DEF OpToRel
  <2> QED BY <2>1, <2>2, Zenon
<1>2. PICK x \in S : \A y \in S : <<y, x>> \notin Less
  <2> HIDE DEF Less
  <2> QED BY <1>1, WFMin
<1>3. ASSUME NEW y \in S PROVE x <= y
  <2>1. <<y, x>> \in Nat \X Nat
    OBVIOUS
  <2>2. ~ y < x
    BY <1>2, <2>1
  <2> QED BY <2>2
<1> QED BY <1>3

-----------------------------------------------------------------------------
(* The inductive invariant of the recording *)

BlockRecords == [ptr : 0 .. Top, size : Nat]

CallNames == {"none", "malloc", "calloc", "memalign", "posix_memalign", "valloc",
              "free", "realloc"}

CallRecords ==
    [type : CallNames, size : Nat, align : Nat \ {0}, block : BlockRecords, res : 0 .. Top]

Entries ==
    [kind : {"event"}, thread : Threads, threadId : Nat, type : CallNames,
     size : Nat, align : Nat \ {0}, ptr : 0 .. Top]
    \union [kind : {"answer"}, thread : Threads, res : 0 .. Top]

(* The sets the variables of the recording range over. *)
TraceShape ==
    /\ running \in BOOLEAN
    /\ heap \subseteq BlockRecords
    /\ file \in Seq(Entries)
    /\ lock \in Threads \union {NULL}
    /\ nextThreadId \in Nat
    /\ gblThreadId \in [Threads -> Nat]
    /\ pc \in [Threads -> {"idle", "super", "answer"}]
    /\ op \in [Threads -> CallRecords]

(* The one thread in a call holds the lock, and works on a block that      *)
(* nobody else can give back.                                              *)
OneCall ==
    /\ held \subseteq heap
    /\ \A t \in Threads :
         /\ pc[t] # "idle" <=> lock = t
         /\ pc[t] # "idle" => op[t].block \notin held

(* The last entry of an odd file is the event of the thread in a call. *)
LastEvent == lock # NULL => file[Len(file)].thread = lock

TraceInv == TraceShape /\ OneCall /\ EventsPaired /\ LastEvent

(* The threads that have an id, and the ids. *)
Identified == {t \in Threads : gblThreadId[t] > 0}

IdsExact ==
    /\ nextThreadId = Cardinality(Identified) + 1
    /\ \A t \in Threads : gblThreadId[t] < nextThreadId
    /\ \A t, u \in Identified : gblThreadId[t] = gblThreadId[u] => t = u
    /\ \A i \in 1 .. Len(file) :
         file[i].kind = "event" =>
           /\ file[i].thread \in Identified
           /\ file[i].threadId = gblThreadId[file[i].thread]

(* The field of the id is wide enough for the threads of the program. *)
FewThreads == IsFiniteSet(Threads) /\ Cardinality(Threads) < IdRange

-----------------------------------------------------------------------------
(* The inductive invariant of the replay *)

ReplayShape ==
    /\ status \in {"replaying", "threw", "assertFailed", "aborted", "done"}
    /\ pos \in Nat /\ 2 * pos <= Len(file) + 1
    /\ ptrs \in [DOMAIN ptrs -> Nat]
    /\ DOMAIN ptrs \subseteq {Lost} \union 0 .. Top
    /\ blocks \subseteq Nat \ {0} /\ IsFiniteSet(blocks)

ReplayInv == ReplayShape /\ MappingAlive

IInv == TraceInv /\ ReplayInv

-----------------------------------------------------------------------------
(* What the recording writes *)

(* The entry appended is the last one. *)
LEMMA AppendFacts ==
    ASSUME NEW f \in Seq(Entries), NEW e \in Entries
    PROVE  /\ Append(f, e) \in Seq(Entries)
           /\ Len(f) \in Nat /\ Len(Append(f, e)) = Len(f) + 1
           /\ Append(f, e)[Len(f) + 1] = e
           /\ \A i \in 1 .. Len(f) : Append(f, e)[i] = f[i] /\ f[i] \in Entries
OBVIOUS

(* Entries come two by two. *)
LEMMA Parity ==
    ASSUME NEW n \in Nat
    PROVE  /\ n % 2 = 0 \/ n % 2 = 1
           /\ (n + 1) % 2 = 1 <=> n % 2 = 0
           /\ (n + 1) % 2 = 0 <=> n % 2 = 1
           /\ (2 * n) % 2 = 0 /\ (2 * n + 1) % 2 = 1
OBVIOUS

(* EventsPaired in terms of the length of the file. *)
LEMMA PairedFacts ==
    ASSUME TraceShape
    PROVE  /\ Len(file) \in Nat
           /\ EventsPaired <=>
                /\ \A i \in 1 .. Len(file) :
                     IF i % 2 = 1 THEN file[i].kind = "event"
                     ELSE file[i].kind = "answer" /\ file[i].thread = file[i - 1].thread
                /\ lock # NULL <=> Len(file) % 2 = 1
<1>1. DOMAIN file = 1 .. Len(file) /\ Len(file) \in Nat
  BY DEF TraceShape
<1> QED BY <1>1 DEF EventsPaired

(* What can be called. *)
LEMMA CalledFacts ==
    ASSUME TraceInv, NEW c \in Allocations \union FreeCalls \union ReallocCalls
    PROVE  c \in CallRecords /\ c.type # "none"
<1>1. Block(0, 0) \in BlockRecords /\ \A b \in held : b \in BlockRecords
  BY TraceAssumption DEF TraceInv, TraceShape, OneCall, Block, BlockRecords
<1>2. CASE c \in Allocations
  BY <1>1, <1>2, TraceAssumption DEF Allocations, Call, CallRecords, CallNames
<1>3. CASE c \in FreeCalls
  BY <1>1, <1>3, TraceAssumption DEF FreeCalls, Call, CallRecords, CallNames
<1>4. CASE c \in ReallocCalls
  BY <1>1, <1>4, TraceAssumption DEF ReallocCalls, Call, CallRecords, CallNames
<1> QED BY <1>2, <1>3, <1>4

(* What the C library answers. *)
LEMMA ResultFacts ==
    ASSUME NEW bs, NEW size, NEW align, NEW r \in Results(bs, size, align)
    PROVE  r \in 0 .. Top
BY TraceAssumption DEF Results

-----------------------------------------------------------------------------
(* One lemma per action of the recording *)

(* The event of the thread that takes the lock makes the file odd. *)
LEMMA WriteEventPreserves ==
    ASSUME TraceInv, NEW t \in Threads, WriteEvent(t)
    PROVE  TraceInv'
<1>1. PICK c \in Allocations \union FreeCalls \union ReallocCalls :
        /\ op' = [op EXCEPT ![t] = c]
        /\ held' = held \ {c.block}
        /\ file' = Append(file, Event(t, c, Identify(t).id))
        /\ nextThreadId' = Identify(t).next
        /\ gblThreadId' = Identify(t).tls
  BY DEF WriteEvent
<1>2. /\ pc[t] = "idle" /\ pc' = [pc EXCEPT ![t] = "super"]
      /\ lock = NULL /\ lock' = t
      /\ UNCHANGED <<running, heap>>
  BY DEF WriteEvent, TakeLock
<1>3. c \in CallRecords
  BY <1>1, CalledFacts
<1>4. /\ nextThreadId \in Nat /\ gblThreadId \in [Threads -> Nat] /\ IdRange \in Nat \ {0}
      /\ file \in Seq(Entries) /\ op \in [Threads -> CallRecords]
      /\ pc \in [Threads -> {"idle", "super", "answer"}]
  BY TraceAssumption DEF TraceInv, TraceShape
<1>5. Identify(t).id \in Nat /\ Identify(t).next \in Nat /\ Identify(t).tls \in [Threads -> Nat]
  BY <1>4 DEF Identify
<1> DEFINE e == Event(t, c, Identify(t).id)
<1>6. e \in Entries /\ e.kind = "event" /\ e.thread = t
  BY <1>3, <1>5 DEF Event, Entries, CallRecords, BlockRecords
<1> HIDE DEF e
<1>7. /\ file' \in Seq(Entries)
      /\ Len(file) \in Nat /\ Len(file') = Len(file) + 1
      /\ file'[Len(file) + 1] = e
      /\ \A i \in 1 .. Len(file) : file'[i] = file[i]
  BY <1>1, <1>4, <1>6, AppendFacts DEF e
<1>8. TraceShape'
  BY <1>1, <1>2, <1>3, <1>4, <1>5, <1>7 DEF TraceInv, TraceShape
<1>9. OneCall'
  BY <1>1, <1>2, <1>4, TraceAssumption DEF TraceInv, OneCall
<1>10. LastEvent'
  BY <1>2, <1>6, <1>7 DEF LastEvent
<1>11. EventsPaired'
  <2>1. Len(file) % 2 = 0 /\ (Len(file) + 1) % 2 = 1
    BY <1>2, <1>7, PairedFacts, Parity DEF TraceInv
  <2>2. ASSUME NEW i \in 1 .. Len(file')
        PROVE  IF i % 2 = 1 THEN file'[i].kind = "event"
               ELSE file'[i].kind = "answer" /\ file'[i].thread = file'[i - 1].thread
    <3>1. CASE i = Len(file) + 1
      BY <1>6, <1>7, <2>1, <3>1
    <3>2. CASE i # Len(file) + 1
      <4>1. i \in 1 .. Len(file)
        BY <1>7, <3>2
      <4>2. i % 2 # 1 => i - 1 \in 1 .. Len(file)
        BY <1>7, <4>1
      <4> QED BY <1>7, <4>1, <4>2, PairedFacts DEF TraceInv
    <3> QED BY <3>1, <3>2
  <2>3. lock' # NULL
    BY <1>2, TraceAssumption
  <2>4. Len(file') % 2 = 1
    BY <1>7, <2>1
  <2>5. DOMAIN file' = 1 .. Len(file')
    BY <1>7
  <2> QED BY <2>2, <2>3, <2>4, <2>5 DEF EventsPaired
<1> QED BY <1>8, <1>9, <1>10, <1>11 DEF TraceInv

(* The library works on a block that no other call can be about. *)
LEMMA SuperPreserves ==
    ASSUME TraceInv, NEW t \in Threads, Super(t)
    PROVE  TraceInv'
<1> DEFINE c == op[t]
           others == heap \ {c.block}
           frees == c.type = "free" \/ (c.type = "realloc" /\ c.size = 0 /\ c.block.ptr # 0)
<1>1. PICK res \in 0 .. Top :
        /\ op' = [op EXCEPT ![t].res = res]
        /\ heap' \in {others, heap, others \union {Block(res, c.size)}}
  <2>1. PICK res \in (IF frees THEN {0} ELSE Results(others, c.size, c.align)) :
          /\ op' = [op EXCEPT ![t].res = res]
          /\ heap' = IF frees THEN others
                     ELSE IF res = 0 THEN heap
                     ELSE others \union {Block(res, c.size)}
    BY DEF Super
  <2>2. res \in 0 .. Top
    <3>1. CASE frees
      BY <2>1, <3>1, TraceAssumption
    <3>2. CASE ~ frees
      BY <2>1, <3>2, ResultFacts
    <3> QED BY <3>1, <3>2
  <2> HIDE DEF frees
  <2> QED BY <2>1, <2>2
<1>2. /\ pc[t] = "super" /\ pc' = [pc EXCEPT ![t] = "answer"]
      /\ UNCHANGED <<running, held, file, lock, nextThreadId, gblThreadId>>
  BY DEF Super
<1>3. c \in CallRecords /\ op \in [Threads -> CallRecords] /\ pc \in [Threads -> {"idle", "super", "answer"}]
  BY DEF TraceInv, TraceShape
<1>4. op' \in [Threads -> CallRecords] /\ \A u \in Threads : op'[u].block = op[u].block
  BY <1>1, <1>3 DEF CallRecords
<1>5. heap' \subseteq BlockRecords
  <2>1. heap \subseteq BlockRecords
    BY DEF TraceInv, TraceShape
  <2>2. Block(res, c.size) \in BlockRecords
    BY <1>1, <1>3 DEF Block, BlockRecords, CallRecords
  <2> QED BY <1>1, <2>1, <2>2
<1>6. held \subseteq heap'
  <2>1. held \subseteq heap /\ c.block \notin held
    BY <1>2 DEF TraceInv, OneCall
  <2> QED BY <1>1, <2>1
<1>7. TraceShape'
  BY <1>2, <1>3, <1>4, <1>5 DEF TraceInv, TraceShape
<1>8. OneCall'
  BY <1>2, <1>3, <1>4, <1>6 DEF TraceInv, OneCall
<1>9. EventsPaired' /\ LastEvent'
  BY <1>2 DEF TraceInv, EventsPaired, LastEvent
<1> QED BY <1>7, <1>8, <1>9 DEF TraceInv

(* What is written of a result is an address or NULL. *)
LEMMA AnswersFacts ==
    ASSUME NEW c \in CallRecords, NEW r \in Answers(c)
    PROVE  r \in 0 .. Top
BY DEF Answers, CallRecords

(* The answer follows the event of its thread. *)
LEMMA WriteAnswerPreserves ==
    ASSUME TraceInv, NEW t \in Threads, WriteAnswer(t)
    PROVE  TraceInv'
<1>1. PICK res \in Answers(op[t]) : file' = Append(file, Answer(t, res))
  BY DEF WriteAnswer
<1>2. /\ pc[t] = "answer" /\ pc' = [pc EXCEPT ![t] = "idle"]
      /\ lock' = NULL
      /\ held' = held \union (heap \intersect {op[t].block, Block(op[t].res, op[t].size)})
      /\ op' = [op EXCEPT ![t] = NoCall]
      /\ UNCHANGED <<running, heap, nextThreadId, gblThreadId>>
  BY DEF WriteAnswer
<1>3. /\ file \in Seq(Entries) /\ op \in [Threads -> CallRecords]
      /\ pc \in [Threads -> {"idle", "super", "answer"}]
      /\ op[t] \in CallRecords
  BY DEF TraceInv, TraceShape
<1>4. NoCall \in CallRecords
  BY TraceAssumption DEF NoCall, Call, Block, CallRecords, CallNames, BlockRecords
<1>5. lock = t /\ \A u \in Threads : pc[u] # "idle" => u = t
  BY <1>2 DEF TraceInv, OneCall
<1> DEFINE e == Answer(t, res)
<1>6. e \in Entries /\ e.kind = "answer" /\ e.thread = t
  BY <1>1, <1>3, AnswersFacts DEF Answer, Entries
<1> HIDE DEF e
<1>7. /\ file' \in Seq(Entries)
      /\ Len(file) \in Nat /\ Len(file') = Len(file) + 1
      /\ file'[Len(file) + 1] = e
      /\ \A i \in 1 .. Len(file) : file'[i] = file[i]
  BY <1>1, <1>3, <1>6, AppendFacts DEF e
<1>8. TraceShape'
  BY <1>2, <1>3, <1>4, <1>7 DEF TraceInv, TraceShape
<1>9. OneCall'
  <2>1. held' \subseteq heap'
    BY <1>2 DEF TraceInv, OneCall
  <2>2. \A u \in Threads : pc'[u] = "idle" /\ lock' # u
    BY <1>2, <1>3, <1>5, TraceAssumption
  <2> QED BY <2>1, <2>2 DEF OneCall
<1>10. LastEvent'
  BY <1>2 DEF LastEvent
<1>11. EventsPaired'
  <2>1. Len(file) % 2 = 1 /\ (Len(file) + 1) % 2 = 0
    <3>1. lock # NULL
      BY <1>5, TraceAssumption
    <3> QED BY <1>7, <3>1, PairedFacts, Parity DEF TraceInv
  <2>2. file[Len(file)].thread = t /\ Len(file) \in 1 .. Len(file)
    <3>1. lock # NULL
      BY <1>5, TraceAssumption
    <3>2. Len(file) # 0
      BY <2>1
    <3> QED BY <1>5, <1>7, <3>1, <3>2 DEF TraceInv, LastEvent
  <2>3. ASSUME NEW i \in 1 .. Len(file')
        PROVE  IF i % 2 = 1 THEN file'[i].kind = "event"
               ELSE file'[i].kind = "answer" /\ file'[i].thread = file'[i - 1].thread
    <3>1. CASE i = Len(file) + 1
      <4>1. i % 2 # 1 /\ i - 1 = Len(file)
        BY <1>7, <2>1, <3>1
      <4> QED BY <1>6, <1>7, <2>2, <3>1, <4>1
    <3>2. CASE i # Len(file) + 1
      <4>1. i \in 1 .. Len(file)
        BY <1>7, <3>2
      <4>2. i % 2 # 1 => i - 1 \in 1 .. Len(file)
        BY <1>7, <4>1
      <4> QED BY <1>7, <4>1, <4>2, PairedFacts DEF TraceInv
    <3> QED BY <3>1, <3>2
  <2>4. Len(file') % 2 # 1
    BY <1>7, <2>1
  <2>5. DOMAIN file' = 1 .. Len(file')
    BY <1>7
  <2> QED BY <1>2, <2>3, <2>4, <2>5 DEF EventsPaired
<1> QED BY <1>8, <1>9, <1>10, <1>11 DEF TraceInv

-----------------------------------------------------------------------------
(* The ids of the threads *)

(* A thread that writes its first event takes an id that nobody has: there *)
(* are more ids than threads, so the counter is not cut.                   *)
LEMMA IdentifyFacts ==
    ASSUME FewThreads, TraceShape, IdsExact, NEW t \in Threads
    PROVE  /\ Identify(t).tls \in [Threads -> Nat]
           /\ Identify(t).id = Identify(t).tls[t] /\ Identify(t).id > 0
           /\ \A u \in Threads \ {t} : Identify(t).tls[u] = gblThreadId[u]
           /\ t \in Identified => Identify(t).tls = gblThreadId /\ Identify(t).next = nextThreadId
           /\ t \notin Identified =>
                /\ Identify(t).id = nextThreadId /\ Identify(t).next = nextThreadId + 1
                /\ Identified \union {t} = {u \in Threads : Identify(t).tls[u] > 0}
                /\ Cardinality(Identified \union {t}) = Cardinality(Identified) + 1
<1>1. gblThreadId \in [Threads -> Nat] /\ nextThreadId \in Nat
  BY DEF TraceShape
<1>2. CASE t \in Identified
  BY <1>1, <1>2 DEF Identify, Identified
<1>3. CASE t \notin Identified
  <2>1. ~ gblThreadId[t] > 0
    BY <1>3 DEF Identified
  <2>2. /\ Identify(t).id = nextThreadId % IdRange
        /\ Identify(t).next = nextThreadId + 1
        /\ Identify(t).tls = [gblThreadId EXCEPT ![t] = nextThreadId % IdRange]
    BY <2>1 DEF Identify
  <2>3. /\ IsFiniteSet(Identified) /\ Cardinality(Identified) \in Nat
        /\ Cardinality(Identified \union {t}) = Cardinality(Identified) + 1
        /\ Cardinality(Threads) \in Nat
        /\ Cardinality(Identified \union {t}) <= Cardinality(Threads)
    <3>1. Identified \subseteq Threads /\ Identified \union {t} \subseteq Threads
      BY DEF Identified
    <3>2. IsFiniteSet(Identified)
      BY <3>1, FS_Subset DEF FewThreads
    <3> QED BY <1>3, <3>1, <3>2, FS_Subset, FS_AddElement, FS_CardinalityType DEF FewThreads
  <2>4. nextThreadId \in 1 .. IdRange - 1 /\ IdRange \in Nat
    BY <2>3, TraceAssumption DEF FewThreads, IdsExact
  <2>5. nextThreadId % IdRange = nextThreadId
    BY <2>4
  <2>6. Identify(t).tls = [gblThreadId EXCEPT ![t] = nextThreadId]
    BY <2>2, <2>5
  <2>7. Identified \union {t} = {u \in Threads : Identify(t).tls[u] > 0}
    BY <1>1, <2>4, <2>6 DEF Identified
  <2> QED BY <1>1, <1>3, <2>2, <2>3, <2>4, <2>5, <2>6, <2>7
<1> QED BY <1>2, <1>3

(* Writing an event keeps the ids exact. *)
LEMMA WriteEventIds ==
    ASSUME FewThreads, TraceInv, IdsExact, NEW t \in Threads, WriteEvent(t)
    PROVE  IdsExact'
<1>1. PICK c \in Allocations \union FreeCalls \union ReallocCalls :
        /\ file' = Append(file, Event(t, c, Identify(t).id))
        /\ nextThreadId' = Identify(t).next
        /\ gblThreadId' = Identify(t).tls
  BY DEF WriteEvent
<1>2. TraceShape
  BY DEF TraceInv
<1> DEFINE e == Event(t, c, Identify(t).id)
<1>3. /\ gblThreadId' \in [Threads -> Nat]
      /\ Identify(t).id = gblThreadId'[t] /\ gblThreadId'[t] > 0
      /\ \A u \in Threads \ {t} : gblThreadId'[u] = gblThreadId[u]
      /\ t \in Identified => gblThreadId' = gblThreadId /\ nextThreadId' = nextThreadId
      /\ t \notin Identified =>
           /\ gblThreadId'[t] = nextThreadId /\ nextThreadId' = nextThreadId + 1
           /\ Identified \union {t} = Identified'
           /\ Cardinality(Identified') = Cardinality(Identified) + 1
  <2>1. Identified' = {u \in Threads : Identify(t).tls[u] > 0}
    BY <1>1 DEF Identified
  <2> QED BY <1>1, <1>2, <2>1, IdentifyFacts
<1>4. Identified' = Identified \union {t}
  BY <1>3 DEF Identified
<1>5. gblThreadId \in [Threads -> Nat] /\ nextThreadId \in Nat /\ file \in Seq(Entries)
  BY <1>2 DEF TraceShape
<1>6. e \in Entries /\ e.kind = "event" /\ e.thread = t /\ e.threadId = gblThreadId'[t]
  <2>1. c \in CallRecords
    BY CalledFacts
  <2> QED BY <1>3, <2>1 DEF Event, Entries, CallRecords, BlockRecords
<1> HIDE DEF e
<1>7. /\ Len(file) \in Nat /\ Len(file') = Len(file) + 1
      /\ file'[Len(file) + 1] = e
      /\ \A i \in 1 .. Len(file) : file'[i] = file[i]
  BY <1>1, <1>5, <1>6, AppendFacts DEF e
<1>8. nextThreadId' = Cardinality(Identified') + 1
  <2>1. nextThreadId = Cardinality(Identified) + 1
    BY DEF IdsExact
  <2>2. CASE t \in Identified
    <3>1. Identified' = Identified
      BY <1>4, <2>2
    <3> QED BY <1>3, <2>1, <2>2, <3>1
  <2>3. CASE t \notin Identified
    BY <1>3, <2>1, <2>3
  <2> QED BY <2>2, <2>3
<1>9. \A u \in Threads : gblThreadId'[u] < nextThreadId'
  BY <1>3, <1>5 DEF IdsExact
<1>10. \A u, v \in Identified' : gblThreadId'[u] = gblThreadId'[v] => u = v
  <2>1. CASE t \in Identified
    BY <1>3, <1>4, <2>1 DEF IdsExact
  <2>2. CASE t \notin Identified
    <3>1. \A u \in Identified : gblThreadId'[u] = gblThreadId[u] /\ gblThreadId[u] < nextThreadId
      BY <1>3, <2>2 DEF Identified, IdsExact
    <3>2. \A u \in Identified : gblThreadId'[u] # gblThreadId'[t]
      BY <1>3, <1>5, <2>2, <3>1 DEF Identified
    <3> QED BY <1>4, <3>1, <3>2 DEF IdsExact
  <2> QED BY <2>1, <2>2
<1>11. ASSUME NEW i \in 1 .. Len(file'), file'[i].kind = "event"
       PROVE  file'[i].thread \in Identified' /\ file'[i].threadId = gblThreadId'[file'[i].thread]
  <2>1. CASE i = Len(file) + 1
    BY <1>4, <1>6, <1>7, <2>1
  <2>2. CASE i # Len(file) + 1
    <3>1. i \in 1 .. Len(file) /\ file'[i] = file[i]
      BY <1>7, <2>2
    <3>2. file[i].thread \in Identified /\ file[i].threadId = gblThreadId[file[i].thread]
      BY <1>11, <3>1 DEF IdsExact
    <3>3. gblThreadId'[file[i].thread] = gblThreadId[file[i].thread]
      BY <1>3, <3>2 DEF Identified
    <3> QED BY <1>4, <3>1, <3>2, <3>3
  <2> QED BY <2>1, <2>2
<1> QED BY <1>8, <1>9, <1>10, <1>11 DEF IdsExact

(* Writing an answer does not touch them. *)
LEMMA WriteAnswerIds ==
    ASSUME TraceInv, IdsExact, NEW t \in Threads, WriteAnswer(t)
    PROVE  IdsExact'
<1>1. PICK res \in Answers(op[t]) : file' = Append(file, Answer(t, res))
  BY DEF WriteAnswer
<1>2. UNCHANGED <<nextThreadId, gblThreadId>>
  BY DEF WriteAnswer
<1>3. file \in Seq(Entries) /\ op[t] \in CallRecords
  BY DEF TraceInv, TraceShape
<1> DEFINE e == Answer(t, res)
<1>4. e \in Entries /\ e.kind = "answer"
  BY <1>3, AnswersFacts DEF Answer, Entries
<1> HIDE DEF e
<1>5. /\ Len(file) \in Nat /\ Len(file') = Len(file) + 1
      /\ file'[Len(file) + 1] = e
      /\ \A i \in 1 .. Len(file) : file'[i] = file[i]
  BY <1>1, <1>3, <1>4, AppendFacts DEF e
<1>6. Identified' = Identified
  BY <1>2 DEF Identified
<1>7. ASSUME NEW i \in 1 .. Len(file'), file'[i].kind = "event"
      PROVE  file'[i].thread \in Identified /\ file'[i].threadId = gblThreadId[file'[i].thread]
  <2>1. i # Len(file) + 1
    BY <1>4, <1>5, <1>7
  <2>2. i \in 1 .. Len(file) /\ file'[i] = file[i]
    BY <1>5, <2>1
  <2> QED BY <1>7, <2>2 DEF IdsExact
<1> QED BY <1>2, <1>6, <1>7 DEF IdsExact

-----------------------------------------------------------------------------
(* The replay *)

(* A new block is a number that no block has. *)
LEMMA NewBlockFacts ==
    ASSUME NEW used \in SUBSET (Nat \ {0}), IsFiniteSet(used)
    PROVE  NewBlock(used) \in Nat \ {0} /\ NewBlock(used) \notin used
<1> DEFINE n == Cardinality(used)
           unused == {p \in 1 .. n + 1 : p \notin used}
<1>1. n \in Nat
  BY FS_CardinalityType
<1>2. unused # {}
  <2> SUFFICES ASSUME unused = {} PROVE FALSE
    OBVIOUS
  <2>1. 1 .. n + 1 \in SUBSET used
    OBVIOUS
  <2>2. Cardinality(1 .. n + 1) <= n
    BY <2>1, FS_Subset
  <2> DEFINE m == n + 1
  <2>3. m \in Int /\ m >= 1
    BY <1>1
  <2> HIDE DEF m
  <2>4. Cardinality(1 .. m) = m
    <3>1. Cardinality(1 .. m) = IF 1 > m THEN 0 ELSE m - 1 + 1
      BY <2>3, FS_Interval
    <3> QED BY <2>3, <3>1
  <2> HIDE DEF n
  <2> QED BY <1>1, <2>2, <2>4 DEF m
<1>3. PICK p \in unused : \A q \in unused : p <= q
  <2>1. unused \in SUBSET Nat
    OBVIOUS
  <2> HIDE DEF unused
  <2> QED BY <1>2, <2>1, LeastElement
<1>4. \E p0 \in 1 .. n + 1 : p0 \notin used /\ \A q \in 1 .. p0 - 1 : q \in used
  <2>1. p \in 1 .. n + 1 /\ p \notin used
    OBVIOUS
  <2>2. ASSUME NEW q \in 1 .. p - 1 PROVE q \in used
    <3>1. q \in 1 .. n + 1 /\ ~ p <= q
      BY <1>1, <2>1
    <3> QED BY <1>3, <3>1
  <2> QED BY <2>1, <2>2
<1>5. NewBlock(used) \in 1 .. n + 1 /\ NewBlock(used) \notin used
  BY <1>4 DEF NewBlock
<1> QED BY <1>1, <1>5

(* The mapping as a function. *)
MapOK(map) == map \in [DOMAIN map -> Nat]

(* Every address mapped to a block has one of its own in the set. *)
Alive(map, bs) ==
    \A a \in DOMAIN map : map[a] # 0 =>
        /\ map[a] \in bs
        /\ \A b \in DOMAIN map \ {a} : map[b] # map[a]

(* Storing a block that is not in the set, or NULL, keeps the others. *)
LEMMA StoreNew ==
    ASSUME NEW map, MapOK(map), NEW bs, Alive(map, bs), NEW a, NEW p \in Nat,
           p = 0 \/ p \notin bs
    PROVE  /\ MapOK(Store(map, a, p)) /\ DOMAIN Store(map, a, p) = DOMAIN map \union {a}
           /\ Alive(Store(map, a, p), bs \union {p})
BY DEF MapOK, Store, Alive

(* Erasing an address frees its block for another. *)
LEMMA EraseBlock ==
    ASSUME NEW map, MapOK(map), NEW bs, Alive(map, bs), NEW a \in DOMAIN map, map[a] # 0
    PROVE  /\ MapOK(Erase(map, a)) /\ DOMAIN Erase(map, a) = DOMAIN map \ {a}
           /\ Alive(Erase(map, a), bs \ {map[a]})
BY DEF MapOK, Erase, Alive

(* A larger set of blocks has them too. *)
LEMMA AliveMore ==
    ASSUME NEW map, NEW bs, NEW cs, Alive(map, bs), bs \subseteq cs
    PROVE  Alive(map, cs)
BY DEF Alive

(* What the replay reads is an event and a result of it. *)
LEMMA EntryFacts ==
    ASSUME TraceInv, ReplayShape, HasNext
    PROVE  /\ Entry \in Entries /\ Entry.kind = "event"
           /\ Entry.type \in CallNames /\ Entry.ptr \in 0 .. Top /\ Entry.size \in Nat
           /\ Result \in {Lost} \union 0 .. Top
           /\ 2 * (pos + 1) <= Len(file) + 1
<1>1. file \in Seq(Entries) /\ Len(file) \in Nat /\ pos \in Nat
  BY DEF TraceInv, TraceShape, ReplayShape
<1>2. 2 * pos + 1 \in 1 .. Len(file) /\ 2 * (pos + 1) <= Len(file) + 1
  BY <1>1 DEF HasNext
<1>3. (2 * pos + 1) % 2 = 1
  BY <1>1, Parity
<1>4. Entry \in Entries
  BY <1>1, <1>2, ElementOfSeq DEF Entry
<1>5. Entry.kind = "event"
  BY <1>2, <1>3, PairedFacts DEF TraceInv, Entry
<1>6. Entry.type \in CallNames /\ Entry.ptr \in 0 .. Top /\ Entry.size \in Nat
  BY <1>4, <1>5 DEF Entries
<1>7. Result \in {Lost} \union 0 .. Top
  <2>1. CASE ~ Len(file) > 2 * pos + 1
    BY <2>1 DEF Result
  <2>2. CASE Len(file) > 2 * pos + 1
    <3>1. 2 * pos + 2 \in 1 .. Len(file) /\ 2 * pos + 2 = 2 * (pos + 1)
      BY <1>1, <2>2
    <3>2. (2 * pos + 2) % 2 # 1
      <4>1. (2 * (pos + 1)) % 2 = 0
        BY <1>1, Parity
      <4> QED BY <3>1, <4>1
    <3>3. file[2 * pos + 2].kind = "answer"
      BY <3>1, <3>2, PairedFacts DEF TraceInv
    <3>4. file[2 * pos + 2] \in Entries
      BY <1>1, <3>1, ElementOfSeq
    <3>5. file[2 * pos + 2].res \in 0 .. Top
      BY <3>3, <3>4 DEF Entries
    <3> QED BY <2>2, <3>5 DEF Result
  <2> QED BY <2>1, <2>2
<1> QED BY <1>2, <1>4, <1>5, <1>6, <1>7

(* MappingAlive in terms of Alive. *)
LEMMA MappingFacts ==
    MappingAlive <=> (status \in {"replaying", "done"} => checker = blocks /\ Alive(ptrs, blocks))
BY DEF MappingAlive, Alive

(* A new block for the address, in place of the one it had. *)
LEMMA PlayMallocPreserves ==
    ASSUME TraceInv, ReplayInv, HasNext, PlayMalloc, status = "replaying",
           pos' = pos + 1, UNCHANGED traceVars
    PROVE  ReplayInv'
<1> DEFINE p == NewBlock(blocks)
<1>1. /\ blocks \in SUBSET (Nat \ {0}) /\ IsFiniteSet(blocks)
      /\ ptrs \in [DOMAIN ptrs -> Nat] /\ DOMAIN ptrs \subseteq {Lost} \union 0 .. Top
      /\ pos \in Nat /\ MapOK(ptrs)
      /\ checker = blocks /\ Alive(ptrs, blocks)
  BY MappingFacts DEF ReplayInv, ReplayShape, MapOK
<1>2. p \in Nat \ {0} /\ p \notin blocks
  BY <1>1, NewBlockFacts
<1>3. Result \in {Lost} \union 0 .. Top /\ 2 * (pos + 1) <= Len(file) + 1
  BY EntryFacts DEF ReplayInv
<1>4. blocks' = blocks \union {p} /\ ptrs' = Store(ptrs, Result, p)
  BY DEF PlayMalloc
<1>5. \/ status' = "threw"
      \/ checker' = checker \union {p} /\ status' \in {"assertFailed", status}
  BY DEF PlayMalloc
<1> HIDE DEF p
<1>6. /\ MapOK(ptrs') /\ DOMAIN ptrs' = DOMAIN ptrs \union {Result}
      /\ Alive(ptrs', blocks')
  BY <1>1, <1>2, <1>4, StoreNew
<1>7. IsFiniteSet(blocks') /\ blocks' \subseteq Nat \ {0}
  BY <1>1, <1>2, <1>4, FS_AddElement
<1>8. ReplayShape'
  BY <1>1, <1>3, <1>5, <1>6, <1>7 DEF ReplayShape, MapOK, traceVars
<1>9. MappingAlive'
  BY <1>1, <1>4, <1>5, <1>6 DEF MappingAlive, Alive
<1> QED BY <1>8, <1>9 DEF ReplayInv

(* An address without a block changes nothing; else its block is freed. *)
LEMMA PlayFreePreserves ==
    ASSUME TraceInv, ReplayInv, HasNext, PlayFree, status = "replaying",
           pos' = pos + 1, UNCHANGED traceVars
    PROVE  ReplayInv'
<1> DEFINE p == GetRealPtr(Entry.ptr)
<1>1. /\ blocks \in SUBSET (Nat \ {0}) /\ IsFiniteSet(blocks)
      /\ ptrs \in [DOMAIN ptrs -> Nat] /\ DOMAIN ptrs \subseteq {Lost} \union 0 .. Top
      /\ pos \in Nat /\ MapOK(ptrs)
      /\ checker = blocks /\ Alive(ptrs, blocks)
  BY MappingFacts DEF ReplayInv, ReplayShape, MapOK
<1>2. 2 * (pos + 1) <= Len(file) + 1
  BY EntryFacts DEF ReplayInv
<1>3. status' = status
  BY DEF PlayFree
<1>4. CASE p = 0
  <2>1. UNCHANGED <<ptrs, checker, blocks>>
    BY <1>4 DEF PlayFree
  <2> QED BY <1>1, <1>2, <1>3, <2>1 DEF ReplayInv, ReplayShape, MappingAlive, traceVars
<1>5. CASE p # 0
  <2>1. checker' = checker \ {p} /\ blocks' = blocks \ {p} /\ ptrs' = Erase(ptrs, Entry.ptr)
    BY <1>5 DEF PlayFree
  <2>2. Entry.ptr \in DOMAIN ptrs /\ ptrs[Entry.ptr] = p
    BY <1>5 DEF GetRealPtr
  <2> HIDE DEF p
  <2>3. /\ MapOK(ptrs') /\ DOMAIN ptrs' = DOMAIN ptrs \ {Entry.ptr}
        /\ Alive(ptrs', blocks')
    BY <1>1, <1>5, <2>1, <2>2, EraseBlock
  <2>4. IsFiniteSet(blocks') /\ blocks' \subseteq Nat \ {0}
    BY <1>1, <2>1, FS_RemoveElement
  <2>5. ReplayShape'
    BY <1>1, <1>2, <1>3, <2>3, <2>4 DEF ReplayInv, ReplayShape, MapOK, traceVars
  <2>6. MappingAlive'
    BY <1>1, <1>3, <2>1, <2>3 DEF MappingAlive, Alive
  <2> QED BY <2>5, <2>6 DEF ReplayInv
<1> QED BY <1>4, <1>5

(* The old address loses its block before the new one gets what realloc    *)
(* returned, the same block, another one or NULL.                          *)
LEMMA PlayReallocPreserves ==
    ASSUME TraceInv, ReplayInv, HasNext, PlayRealloc, status = "replaying",
           pos' = pos + 1, UNCHANGED traceVars
    PROVE  ReplayInv'
<1> DEFINE p == GetRealPtr(Entry.ptr)
           map == IF p = 0 THEN ptrs ELSE Erase(ptrs, Entry.ptr)
           rest == blocks \ {p}
<1>1. /\ blocks \in SUBSET (Nat \ {0}) /\ IsFiniteSet(blocks)
      /\ ptrs \in [DOMAIN ptrs -> Nat] /\ DOMAIN ptrs \subseteq {Lost} \union 0 .. Top
      /\ pos \in Nat /\ MapOK(ptrs)
      /\ checker = blocks /\ Alive(ptrs, blocks)
  BY MappingFacts DEF ReplayInv, ReplayShape, MapOK
<1>2. Result \in {Lost} \union 0 .. Top /\ 2 * (pos + 1) <= Len(file) + 1
  BY EntryFacts DEF ReplayInv
<1>3. p \in Nat
  BY <1>1 DEF GetRealPtr
<1>4. /\ MapOK(map) /\ DOMAIN map \subseteq DOMAIN ptrs
      /\ Alive(map, rest)
  <2>1. CASE p = 0
    <3>1. rest = blocks
      BY <1>1, <2>1
    <3> QED BY <1>1, <2>1, <3>1
  <2>2. CASE p # 0
    <3>1. Entry.ptr \in DOMAIN ptrs /\ ptrs[Entry.ptr] = p
      BY <2>2 DEF GetRealPtr
    <3> HIDE DEF p
    <3> QED BY <1>1, <2>2, <3>1, EraseBlock
  <2> QED BY <2>1, <2>2
<1>5. /\ IsFiniteSet(rest) /\ rest \subseteq Nat \ {0}
      /\ p # 0 => p \notin rest
      /\ NewBlock(blocks) \in Nat \ {0} /\ NewBlock(blocks) \notin rest
  BY <1>1, NewBlockFacts, FS_RemoveElement
<1>6. \/ status' = "threw" /\ ptrs' = map /\ blocks' = blocks
      \/ \E out \in Reallocated(p, Entry.size) :
           /\ ptrs' = Store(map, Result, out)
           /\ checker' = ((checker \ {p}) \union {out}) \ {0}
           /\ blocks' = (rest \union {out}) \ {0}
           /\ status' = status
  BY DEF PlayRealloc
<1>7. Reallocated(p, Entry.size) \subseteq {p, NewBlock(blocks), 0}
  BY DEF Reallocated
<1> HIDE DEF p, map, rest
<1>8. CASE status' = "threw" /\ ptrs' = map /\ blocks' = blocks
  <2>1. ReplayShape'
    BY <1>1, <1>2, <1>4, <1>8 DEF ReplayShape, MapOK, traceVars
  <2> QED BY <1>8, <2>1 DEF ReplayInv, MappingAlive
<1>9. ASSUME NEW out \in {p, NewBlock(blocks), 0},
             ptrs' = Store(map, Result, out),
             checker' = ((checker \ {p}) \union {out}) \ {0},
             blocks' = (rest \union {out}) \ {0},
             status' = status
      PROVE  ReplayInv'
  <2>1. out \in Nat /\ (out = 0 \/ out \notin rest)
    BY <1>3, <1>5
  <2>2. /\ MapOK(ptrs') /\ DOMAIN ptrs' = DOMAIN map \union {Result}
        /\ Alive(ptrs', rest \union {out})
    BY <1>4, <1>9, <2>1, StoreNew
  <2>3. Alive(ptrs', blocks')
    BY <1>9, <2>2 DEF Alive
  <2>4. IsFiniteSet(blocks') /\ blocks' \subseteq Nat \ {0}
    <3>1. IsFiniteSet(rest \union {out})
      BY <1>5, FS_AddElement
    <3> QED BY <1>5, <1>9, <2>1, <3>1, FS_RemoveElement
  <2>5. checker' = blocks'
    BY <1>1, <1>9 DEF rest
  <2>6. ReplayShape'
    BY <1>1, <1>2, <1>4, <1>9, <2>2, <2>4 DEF ReplayInv, ReplayShape, MapOK, traceVars
  <2>7. MappingAlive'
    BY <2>3, <2>5 DEF MappingAlive, Alive
  <2> QED BY <2>6, <2>7 DEF ReplayInv
<1> QED BY <1>6, <1>7, <1>8, <1>9

-----------------------------------------------------------------------------
(* The theorems *)

(* A step of the recording, and the end of the traced program. *)
LEMMA TracePreserves ==
    ASSUME IInv, TraceNext, UNCHANGED replayVars
    PROVE  IInv' /\ (FewThreads /\ IdsExact => IdsExact')
<1> USE DEF IInv
<1>1. Len(file) \in Nat /\ Len(file') \in Nat /\ Len(file') >= Len(file)
  <2>1. file \in Seq(Entries) /\ Len(file) \in Nat
    BY DEF TraceInv, TraceShape
  <2>2. ASSUME NEW e, file' = Append(file, e)
        PROVE  Len(file') = Len(file) + 1
    BY <2>1, <2>2
  <2>3. (\E e : file' = Append(file, e)) \/ file' = file
    BY DEF TraceNext, WriteEvent, Super, WriteAnswer, End
  <2> QED BY <2>1, <2>2, <2>3
<1>2. ReplayInv'
  BY <1>1 DEF ReplayInv, ReplayShape, MappingAlive, replayVars
<1>3. ASSUME NEW t \in Threads, WriteEvent(t) \/ Super(t) \/ WriteAnswer(t)
      PROVE  TraceInv' /\ (FewThreads /\ IdsExact => IdsExact')
  <2>1. Super(t) /\ IdsExact => IdsExact'
    BY DEF Super, IdsExact, Identified
  <2> QED BY <1>3, <2>1, WriteEventPreserves, SuperPreserves, WriteAnswerPreserves,
             WriteEventIds, WriteAnswerIds
<1>4. CASE End
  <2>1. TraceInv'
    BY <1>4 DEF End, TraceInv, TraceShape, OneCall, EventsPaired, LastEvent
  <2>2. IdsExact => IdsExact'
    BY <1>4 DEF End, IdsExact, Identified
  <2> QED BY <1>2, <2>1, <2>2
<1> QED BY <1>2, <1>3, <1>4 DEF TraceNext

(* The trace does not change any more when nothing is recorded. *)
LEMMA SameTrace ==
    ASSUME TraceInv, UNCHANGED traceVars
    PROVE  TraceInv' /\ (IdsExact => IdsExact')
BY DEF traceVars, TraceInv, TraceShape, OneCall, EventsPaired, LastEvent, IdsExact, Identified

(* A step of the replay. *)
LEMMA ReplayPreserves ==
    ASSUME IInv, Play \/ Finish
    PROVE  IInv' /\ (IdsExact => IdsExact')
<1> USE DEF IInv
<1>1. UNCHANGED traceVars
  BY DEF Play, Finish
<1>2. CASE Play
  <2>1. HasNext /\ status = "replaying" /\ pos' = pos + 1
    BY <1>2 DEF Play
  <2>2. CASE PlayValloc
    <3>1. 2 * (pos + 1) <= Len(file) + 1
      BY <2>1, EntryFacts DEF ReplayInv
    <3> QED BY <1>1, <2>1, <2>2, <3>1, SameTrace
            DEF PlayValloc, ReplayInv, ReplayShape, MappingAlive, traceVars
  <2>3. PlayMalloc \/ PlayFree \/ PlayRealloc \/ PlayValloc
    BY <1>2 DEF Play
  <2> QED BY <1>1, <2>1, <2>2, <2>3, SameTrace, PlayMallocPreserves, PlayFreePreserves,
             PlayReallocPreserves
<1>3. CASE Finish
  BY <1>1, <1>3, SameTrace DEF Finish, ReplayInv, ReplayShape, MappingAlive, traceVars
<1> QED BY <1>2, <1>3

(* The empty file and the empty mapping. *)
LEMMA InitInvariant == Init => IInv /\ (FewThreads => IdsExact)
<1> SUFFICES ASSUME Init PROVE IInv /\ (FewThreads => IdsExact)
  OBVIOUS
<1> USE TraceAssumption DEF Init, TraceInit
<1>1. /\ file = <<>> /\ Len(file) = 0 /\ file \in Seq(Entries)
  BY EmptySeq
<1>2. NoCall \in CallRecords
  BY DEF NoCall, Call, Block, CallRecords, CallNames, BlockRecords
<1>3. TraceShape
  BY <1>1, <1>2 DEF TraceShape
<1>4. OneCall
  BY DEF OneCall
<1>5. EventsPaired /\ LastEvent
  BY <1>1, <1>3, PairedFacts DEF LastEvent
<1>6. ReplayInv
  <2>1. IsFiniteSet(blocks)
    BY FS_EmptySet
  <2> QED BY <1>1, <2>1 DEF ReplayInv, ReplayShape, MappingAlive
<1>7. IdsExact
  <2>1. Identified = {}
    BY DEF Identified
  <2>2. Cardinality(Identified) = 0
    BY <2>1, FS_EmptySet
  <2> QED BY <1>1, <2>1, <2>2 DEF IdsExact
<1> QED BY <1>3, <1>4, <1>5, <1>6, <1>7 DEF IInv, TraceInv

(* Every step preserves both invariants. *)
LEMMA StepInvariant == IInv /\ [Next]_vars => IInv' /\ (FewThreads /\ IdsExact => IdsExact')
<1> SUFFICES ASSUME IInv, [Next]_vars
             PROVE  IInv' /\ (FewThreads /\ IdsExact => IdsExact')
  OBVIOUS
<1>1. CASE UNCHANGED vars
  <2>1. UNCHANGED traceVars /\ UNCHANGED replayVars
    BY <1>1 DEF vars
  <2> QED BY <2>1, SameTrace DEF IInv, ReplayInv, ReplayShape, MappingAlive, traceVars, replayVars
<1>2. CASE TraceNext /\ UNCHANGED replayVars
  BY <1>2, TracePreserves
<1>3. CASE Play \/ Finish
  BY <1>3, ReplayPreserves
<1> QED BY <1>1, <1>2, <1>3 DEF Next

(* The inductive invariant holds in every reachable state. *)
THEOREM Invariant == Spec => []IInv
<1>1. Init => IInv
  BY InitInvariant
<1>2. IInv /\ [Next]_vars => IInv'
  BY StepInvariant
<1> QED BY <1>1, <1>2, PTL DEF Spec

(* The replay never mixes up two blocks: every mapped address has a block  *)
(* of its own, still allocated, and the checker of the replay knows the    *)
(* blocks allocated, whatever the trace holds.                             *)
THEOREM MappingIsAlive == Spec => []MappingAlive
<1>1. IInv => MappingAlive
  BY DEF IInv, ReplayInv
<1> QED BY <1>1, Invariant, PTL

(* Wherever the traced program was killed its file holds events and        *)
(* answers in pairs, and each thread is told apart by its id as long as    *)
(* there are fewer threads than a TraceEntry has ids.                      *)
THEOREM TraceIsExact ==
    ASSUME FewThreads
    PROVE  Spec => []TraceExact
<1>1. Init => IInv /\ IdsExact
  BY InitInvariant
<1>2. IInv /\ IdsExact /\ [Next]_vars => IInv' /\ IdsExact'
  BY StepInvariant
<1>3. IInv /\ IdsExact => TraceExact
  <2> SUFFICES ASSUME IInv, IdsExact PROVE TraceExact
    OBVIOUS
  <2>1. TypeOK
    BY DEF TypeOK, IInv, TraceInv, TraceShape, OneCall, ReplayInv, ReplayShape
  <2>2. ThreadIdsExact
    <3>1. DOMAIN file = 1 .. Len(file)
      BY DEF IInv, TraceInv, TraceShape
    <3> QED BY <3>1 DEF ThreadIdsExact, IdsExact
  <2> QED BY <2>1, <2>2 DEF TraceExact, IInv, TraceInv
<1> QED BY <1>1, <1>2, <1>3, PTL DEF Spec
-----------------------------------------------------------------------------
(* The blocks of the library as the file tells them *)

(* What the two theorems below are about: requests have a size, and no call *)
(* leaves the answer of a failure to the variable of its caller.            *)
Ordinary == 0 \notin Sizes /\ "posix_memalign" \notin Types

Segment(b) == MemorySegment(b.ptr, b.size)
Apart(b, c) == b.ptr + b.size <= c.ptr \/ c.ptr + c.size <= b.ptr

(* A place for a block among others. *)
Room(others, b) ==
    /\ b.ptr \in 1 .. Top /\ b.size \in Nat \ {0} /\ b.ptr + b.size <= Top + 1
    /\ \A c \in others : Apart(b, c)

(* Blocks a library may have given. *)
Sound(B) ==
    /\ IsFiniteSet(B) /\ B \subseteq BlockRecords
    /\ \A b \in B : Room(B \ {b}, b)

(* The block r asked for, or NULL and nothing changes.                      *)
Gave(B, others, size, r, C) ==
    IF r = 0 THEN C = B
             ELSE Room(others, Block(r, size)) /\ C = others \union {Block(r, size)}

New(e) == e.type \in {"malloc", "calloc", "memalign", "valloc"} \/ (e.type = "realloc" /\ e.ptr = 0)

(* The call of event e with answer r takes the blocks from B to C.          *)
Became(e, r, B, C) ==
    \/ New(e) /\ e.size # 0 /\ Gave(B, B, e.size, r, C)
    \/ \E b \in B :
         /\ e.ptr = b.ptr
         /\ \/ e.type = "free" /\ C = B \ {b}
            \/ e.type = "realloc" /\ e.size = 0 /\ r = 0 /\ C = B \ {b}
            \/ e.type = "realloc" /\ e.size # 0 /\ Gave(B, B \ {b}, e.size, r, C)

(* The calls that are in the file with their answers. *)
Pairs == Len(file) \div 2

(* H[k] is the blocks after the first k calls of the file.                  *)
Past(H) ==
    /\ H[0] = {}
    /\ \A k \in 0 .. Pairs : Sound(H[k])
    /\ \A k \in 0 .. Pairs - 1 : Became(file[2 * k + 1], file[2 * k + 2].res, H[k], H[k + 1])

(* What a thread is about to ask the library. *)
Asked(e, c, B) ==
    /\ e.type = c.type /\ e.size = c.size /\ e.ptr = c.block.ptr
    /\ \/ New(e) /\ e.size # 0 /\ c.block = Block(0, 0)
       \/ e.type \in {"free", "realloc"} /\ c.block \in B

(* The blocks now, and the call in progress. *)
Present(H) ==
    /\ lock = NULL => heap = H[Pairs]
    /\ \A t \in Threads :
         /\ pc[t] = "super" => heap = H[Pairs] /\ Asked(file[Len(file)], op[t], H[Pairs])
         /\ pc[t] = "answer" => /\ op[t].type # "posix_memalign"
                                /\ Became(file[Len(file)], op[t].res, H[Pairs], heap)

(* The segments T of the checker are those of some of the blocks B, and the *)
(* addresses of these are mapped.                                           *)
Tracks(T, map, B) ==
    \A s \in T : /\ \E b \in B : s = Segment(b)
                 /\ s.base \in DOMAIN map /\ map[s.base] # 0

(* The replay has exactly the blocks B of the program.                      *)
Mirrors(T, map, bs, B) ==
    /\ {a \in DOMAIN map : map[a] # 0} = {b.ptr : b \in B}
    /\ T = {Segment(b) : b \in B}
    /\ Cardinality(bs) = Cardinality(B)

AllServed(n) == \A k \in 1 .. n : ~ Failed(2 * k - 1)

Replayed(H) ==
    status \in {"replaying", "done"} /\ pos <= Pairs =>
        /\ Tracks(checkerTrace, ptrs, H[pos])
        /\ AllServed(pos) => Mirrors(checkerTrace, ptrs, blocks, H[pos])

Course ==
    /\ running => pos = 0
    /\ status = "done" => ~ running /\ ~ HasNext
    /\ status # "threw"

HInv == Course /\ \E H : Past(H) /\ Present(H) /\ Replayed(H)

-----------------------------------------------------------------------------
(* Blocks come and go *)

LEMMA SoundFewer ==
    ASSUME NEW B, Sound(B), NEW C \in SUBSET B
    PROVE  Sound(C)
<1>1. IsFiniteSet(C)
  BY FS_Subset DEF Sound
<1>2. ASSUME NEW b \in C PROVE Room(C \ {b}, b)
  <2>1. Room(B \ {b}, b)
    BY DEF Sound
  <2> QED BY <2>1 DEF Room
<1>3. C \subseteq BlockRecords
  BY DEF Sound
<1> QED BY <1>1, <1>2, <1>3 DEF Sound

LEMMA SoundMore ==
    ASSUME NEW B, Sound(B), NEW x, x \in BlockRecords, Room(B, x)
    PROVE  /\ Sound(B \union {x}) /\ x \notin B
           /\ Cardinality(B \union {x}) = Cardinality(B) + 1
<1> DEFINE C == B \union {x}
<1>1. x \notin B
  BY DEF Room, Apart, BlockRecords
<1>2. IsFiniteSet(C) /\ Cardinality(C) = Cardinality(B) + 1
  BY <1>1, FS_AddElement DEF Sound
<1>3. ASSUME NEW b \in C PROVE Room(C \ {b}, b)
  <2>1. CASE b = x
    <3>1. C \ {b} = B
      BY <1>1, <2>1
    <3> QED BY <2>1, <3>1
  <2>2. CASE b # x
    <3>1. b \in B
      BY <2>2
    <3>2. Room(B \ {b}, b) /\ Apart(b, x)
      BY <3>1 DEF Sound, Room, Apart
    <3> QED BY <3>2 DEF Room
  <2> QED BY <2>1, <2>2
<1>4. C \subseteq BlockRecords
  BY DEF Sound
<1> QED BY <1>1, <1>2, <1>3, <1>4 DEF Sound

(* A block is told by its address, and has one. *)
LEMMA SoundFacts ==
    ASSUME NEW B, Sound(B)
    PROVE  /\ \A b \in B : /\ b \in BlockRecords /\ b = Block(b.ptr, b.size)
                           /\ b.ptr \in 1 .. Top /\ b.size \in Nat \ {0}
                           /\ b.ptr + b.size <= Top + 1
           /\ \A b \in B, c \in B : b = c \/ Apart(b, c)
           /\ \A b \in B, c \in B : b.ptr = c.ptr => b = c
<1>1. \A b \in B : /\ b \in BlockRecords
                   /\ b.ptr \in 1 .. Top /\ b.size \in Nat \ {0}
                   /\ b.ptr + b.size <= Top + 1
  BY DEF Sound, Room
<1>2. \A b \in B : b = Block(b.ptr, b.size)
  BY <1>1 DEF BlockRecords, Block
<1>3. \A b \in B, c \in B : b = c \/ Apart(b, c)
  <2> SUFFICES ASSUME NEW b \in B, NEW c \in B, b # c PROVE Apart(b, c)
    OBVIOUS
  <2>1. Room(B \ {b}, b) /\ c \in B \ {b}
    BY DEF Sound
  <2> QED BY <2>1 DEF Room
<1>4. \A b \in B, c \in B : b.ptr = c.ptr => b = c
  BY <1>1, <1>3, TraceAssumption DEF Apart
<1> QED BY <1>1, <1>2, <1>3, <1>4

(* What a library gives is a place of its own. *)
LEMMA GaveSound ==
    ASSUME NEW B, Sound(B), NEW others \in SUBSET B, NEW size, NEW r, NEW C,
           Gave(B, others, size, r, C)
    PROVE  Sound(C)
<1>1. CASE r = 0
  BY <1>1 DEF Gave
<1>2. CASE r # 0
  <2>1. Room(others, Block(r, size)) /\ C = others \union {Block(r, size)}
    BY <1>2 DEF Gave
  <2>2. Block(r, size) \in BlockRecords
    BY <2>1, TraceAssumption DEF Room, Block, BlockRecords
  <2>3. Sound(others)
    BY SoundFewer
  <2> QED BY <2>1, <2>2, <2>3, SoundMore
<1> QED BY <1>1, <1>2

LEMMA BecameSound ==
    ASSUME NEW B, Sound(B), NEW e, NEW r, NEW C, Became(e, r, B, C)
    PROVE  Sound(C)
<1>1. CASE Gave(B, B, e.size, r, C)
  BY <1>1, GaveSound
<1>2. ASSUME NEW b \in B, C = B \ {b} PROVE Sound(C)
  BY <1>2, SoundFewer
<1>3. ASSUME NEW b \in B, Gave(B, B \ {b}, e.size, r, C) PROVE Sound(C)
  <2>1. B \ {b} \in SUBSET B
    OBVIOUS
  <2> QED BY <1>3, <2>1, GaveSound
<1> QED BY <1>1, <1>2, <1>3 DEF Became

(* The answers of the C library. *)
LEMMA ResultRoom ==
    ASSUME NEW B, Sound(B), NEW others \in SUBSET B, NEW size \in Nat \ {0}, NEW align,
           NEW r \in Results(others, size, align), r # 0
    PROVE  Room(others, Block(r, size))
<1>1. MaxOf(size, 1) = size
  BY DEF MaxOf
<1>2. /\ r \in 1 .. Top /\ r + size - 1 <= Top
      /\ \A b \in others : r + size <= b.ptr \/ b.ptr + MaxOf(b.size, 1) <= r
  BY <1>1 DEF Results
<1>3. \A b \in others : MaxOf(b.size, 1) = b.size
  <2> SUFFICES ASSUME NEW b \in others PROVE MaxOf(b.size, 1) = b.size
    OBVIOUS
  <2>1. b.size \in Nat \ {0}
    BY SoundFacts
  <2> QED BY <2>1 DEF MaxOf
<1>4. r + size <= Top + 1
  BY <1>2, TraceAssumption
<1> QED BY <1>2, <1>3, <1>4 DEF Room, Apart, Block

-----------------------------------------------------------------------------
(* The recording *)

(* The calls in the file. *)
LEMMA PairsFacts ==
    ASSUME TraceInv
    PROVE  /\ Len(file) \in Nat /\ Pairs \in Nat /\ file \in Seq(Entries)
           /\ lock = NULL => Len(file) = 2 * Pairs
           /\ lock # NULL => Len(file) = 2 * Pairs + 1
<1>1. /\ Len(file) \in Nat /\ file \in Seq(Entries)
      /\ lock # NULL <=> Len(file) % 2 = 1
  BY PairedFacts DEF TraceInv, TraceShape
<1>2. \A n \in Nat : /\ n \div 2 \in Nat
                     /\ n % 2 = 1 => n = 2 * (n \div 2) + 1
                     /\ n % 2 # 1 => n = 2 * (n \div 2)
  OBVIOUS
<1> QED BY <1>1, <1>2 DEF Pairs

LEMMA HalfFacts == \A n \in Nat : (2 * n) \div 2 = n /\ (2 * n + 1) \div 2 = n
OBVIOUS

(* Nothing that was written changes. *)
LEMMA PastKept ==
    ASSUME NEW H, Past(H), Pairs' = Pairs, Pairs \in Nat,
           \A k \in 1 .. 2 * Pairs : file'[k] = file[k]
    PROVE  Past(H)'
<1>1. \A k \in 0 .. Pairs - 1 : file'[2 * k + 1] = file[2 * k + 1] /\ file'[2 * k + 2] = file[2 * k + 2]
  OBVIOUS
<1> QED BY <1>1 DEF Past

(* The requests of the users. *)
LEMMA AskedFacts ==
    ASSUME Ordinary, TraceInv, NEW c \in Allocations \union FreeCalls \union ReallocCalls,
           NEW t, NEW id
    PROVE  Asked(Event(t, c, id), c, heap)
<1> DEFINE e == Event(t, c, id)
<1>1. e.type = c.type /\ e.size = c.size /\ e.ptr = c.block.ptr
  BY DEF Event
<1>2. Sizes \subseteq Nat \ {0} /\ held \subseteq heap
  BY TraceAssumption DEF Ordinary, TraceInv, OneCall
<1>3. CASE c \in Allocations
  <2>0. \E type \in Types, s \in Sizes, a \in Nat : c = Call(type, s, a, Block(0, 0))
    BY <1>3, TraceAssumption DEF Allocations
  <2>1. c.type \in {"malloc", "calloc", "memalign", "valloc"} /\ c.size \in Sizes /\ c.block = Block(0, 0)
    BY <2>0, TraceAssumption DEF Call, Ordinary
  <2> QED BY <1>1, <1>2, <2>1 DEF Asked, New
<1>4. CASE c \in FreeCalls
  BY <1>1, <1>2, <1>4 DEF FreeCalls, Call, Asked
<1>5. CASE c \in ReallocCalls
  <2>1. CASE \E s \in Sizes : c = Call("realloc", s, 1, Block(0, 0))
    <3>1. c.type = "realloc" /\ c.size \in Sizes /\ c.block = Block(0, 0)
      BY <2>1 DEF Call
    <3>2. e.ptr = 0
      BY <1>1, <3>1 DEF Block
    <3> QED BY <1>1, <1>2, <3>1, <3>2 DEF Asked, New
  <2>2. CASE \E s \in Sizes \union {0}, b \in held : c = Call("realloc", s, 1, b)
    BY <1>1, <1>2, <2>2 DEF Call, Asked
  <2> QED BY <1>5, <2>1, <2>2 DEF ReallocCalls
<1> QED BY <1>3, <1>4, <1>5

(* An event is written: no call was added. *)
LEMMA WriteEventHistory ==
    ASSUME Ordinary, IInv, HInv, NEW t \in Threads, WriteEvent(t), UNCHANGED replayVars
    PROVE  HInv'
<1>1. PICK c \in Allocations \union FreeCalls \union ReallocCalls :
        /\ op' = [op EXCEPT ![t] = c]
        /\ file' = Append(file, Event(t, c, Identify(t).id))
  BY DEF WriteEvent
<1>2. /\ pc[t] = "idle" /\ pc' = [pc EXCEPT ![t] = "super"]
      /\ lock = NULL /\ lock' = t /\ running
      /\ UNCHANGED <<running, heap>>
  BY DEF WriteEvent, TakeLock
<1>3. PICK H : Past(H) /\ Present(H) /\ Replayed(H)
  BY DEF HInv
<1>4. TraceInv /\ TraceInv'
  BY WriteEventPreserves DEF IInv
<1>5. /\ Len(file) \in Nat /\ Pairs \in Nat /\ file \in Seq(Entries)
      /\ Len(file) = 2 * Pairs
  BY <1>2, <1>4, PairsFacts
<1> DEFINE e == Event(t, c, Identify(t).id)
<1>7. /\ Len(file') = Len(file) + 1
      /\ file'[Len(file) + 1] = e
      /\ \A i \in 1 .. Len(file) : file'[i] = file[i]
  BY <1>1, <1>5
<1>8. Pairs' = Pairs
  <2>1. Len(file') = 2 * Pairs + 1
    BY <1>5, <1>7
  <2> QED BY <1>5, <2>1, HalfFacts DEF Pairs
<1>9. Asked(e, c, heap)
  BY <1>4, AskedFacts
<1> HIDE DEF e
<1>10. Past(H)'
  BY <1>3, <1>5, <1>7, <1>8, PastKept
<1>11. Present(H)'
  <2>1. heap' = H[Pairs'] /\ file'[Len(file')] = e
    BY <1>2, <1>3, <1>7, <1>8 DEF Present
  <2>2. \A u \in Threads : pc'[u] # "idle" => u = t
    BY <1>2, <1>4 DEF TraceInv, OneCall
  <2>3. op'[t] = c /\ pc'[t] = "super"
    BY <1>1, <1>2, <1>4 DEF TraceInv, TraceShape
  <2>4. heap = H[Pairs']
    BY <1>2, <1>3, <1>8 DEF Present
  <2>5. lock' # NULL
    BY <1>2, TraceAssumption
  <2>6. Asked(file'[Len(file')], op'[t], H[Pairs'])
    BY <1>9, <2>1, <2>3, <2>4
  <2> QED BY <2>1, <2>2, <2>3, <2>5, <2>6 DEF Present
<1>12. pos = 0
  BY <1>2 DEF HInv, Course
<1>13. Replayed(H)'
  BY <1>3, <1>8, <1>12 DEF Replayed, AllServed, replayVars
<1>14. Course'
  BY <1>2, <1>12 DEF HInv, Course, replayVars
<1> QED BY <1>10, <1>11, <1>13, <1>14 DEF HInv

(* The library does what it was asked for. *)
LEMMA SuperBecomes ==
    ASSUME NEW t \in Threads, Super(t), op[t] \in CallRecords, Sound(heap),
           NEW e, Asked(e, op[t], heap)
    PROVE  \E res : /\ op' = [op EXCEPT ![t].res = res]
                    /\ Became(e, res, heap, heap')
<1> DEFINE c == op[t]
           others == heap \ {c.block}
           frees == c.type = "free" \/ (c.type = "realloc" /\ c.size = 0 /\ c.block.ptr # 0)
<1>1. PICK res \in (IF frees THEN {0} ELSE Results(others, c.size, c.align)) :
        /\ op' = [op EXCEPT ![t].res = res]
        /\ heap' = IF frees THEN others
                   ELSE IF res = 0 THEN heap
                   ELSE others \union {Block(res, c.size)}
  BY DEF Super
<1>2. /\ e.type = c.type /\ e.size = c.size /\ e.ptr = c.block.ptr
      /\ c.size \in Nat
  BY DEF Asked, CallRecords
<1>3. ASSUME ~ frees, c.size # 0 PROVE Gave(heap, others, c.size, res, heap')
  <2>1. others \in SUBSET heap /\ res \in Results(others, c.size, c.align) /\ c.size \in Nat \ {0}
    BY <1>1, <1>2, <1>3
  <2>2. res # 0 => Room(others, Block(res, c.size))
    <3> HIDE DEF others, c
    <3> QED BY <2>1, ResultRoom
  <2> HIDE DEF others, c, frees
  <2> QED BY <1>1, <1>3, <2>2 DEF Gave
<1>4. CASE New(e) /\ e.size # 0 /\ c.block = Block(0, 0)
  <2>1. c.block \notin heap
    BY <1>4, SoundFacts DEF Block
  <2>2. others = heap
    BY <2>1
  <2>3. ~ frees
    BY <1>2, <1>4 DEF New
  <2>4. Gave(heap, heap, e.size, res, heap')
    <3> HIDE DEF others, c, frees
    <3> QED BY <1>2, <1>3, <1>4, <2>2, <2>3
  <2>5. Became(e, res, heap, heap')
    BY <1>4, <2>4 DEF Became
  <2> QED BY <1>1, <2>5
<1>5. CASE e.type \in {"free", "realloc"} /\ c.block \in heap
  <2>1. c.block.ptr # 0
    BY <1>5, SoundFacts
  <2>2. CASE frees
    <3>1. heap' = heap \ {c.block} /\ res = 0
      BY <1>1, <2>2
    <3>2. Became(e, res, heap, heap')
      BY <1>2, <1>5, <2>2, <3>1 DEF Became
    <3> QED BY <1>1, <3>2
  <2>3. CASE ~ frees
    <3>1. e.type = "realloc" /\ e.size # 0
      BY <1>2, <1>5, <2>1, <2>3
    <3>2. Gave(heap, heap \ {c.block}, e.size, res, heap')
      <4> HIDE DEF c, frees
      <4> QED BY <1>2, <1>3, <2>3, <3>1
    <3>3. Became(e, res, heap, heap')
      <4> HIDE DEF c, frees
      <4> QED BY <1>2, <1>5, <3>1, <3>2 DEF Became
    <3> QED BY <1>1, <3>3
  <2> QED BY <2>2, <2>3
<1> QED BY <1>4, <1>5 DEF Asked

LEMMA SuperHistory ==
    ASSUME IInv, HInv, NEW t \in Threads, Super(t), UNCHANGED replayVars
    PROVE  HInv'
<1>1. PICK H : Past(H) /\ Present(H) /\ Replayed(H)
  BY DEF HInv
<1>2. /\ pc[t] = "super" /\ pc' = [pc EXCEPT ![t] = "answer"] /\ running
      /\ UNCHANGED <<running, held, file, lock, nextThreadId, gblThreadId>>
  BY DEF Super
<1>3. /\ Pairs \in Nat /\ Pairs' = Pairs
      /\ op \in [Threads -> CallRecords] /\ pc \in [Threads -> {"idle", "super", "answer"}]
  BY <1>2, PairsFacts DEF IInv, TraceInv, TraceShape, Pairs
<1>4. heap = H[Pairs] /\ Asked(file[Len(file)], op[t], heap) /\ Sound(heap)
  BY <1>1, <1>2, <1>3 DEF Present, Past
<1>5. PICK res : /\ op' = [op EXCEPT ![t].res = res]
                 /\ Became(file[Len(file)], res, heap, heap')
  BY <1>3, <1>4, SuperBecomes
<1>6. op'[t].res = res /\ op'[t].type = op[t].type
  BY <1>3, <1>5 DEF CallRecords
<1>7. op[t].type # "posix_memalign"
  BY <1>4 DEF Asked, New
<1>8. lock = t /\ lock # NULL /\ \A u \in Threads : pc'[u] # "idle" => u = t
  BY <1>2, <1>3, TraceAssumption DEF IInv, TraceInv, OneCall
<1>9. pc'[t] = "answer" /\ lock' # NULL
  BY <1>2, <1>3, <1>8
<1>10. Present(H)'
  BY <1>2, <1>3, <1>4, <1>5, <1>6, <1>7, <1>8, <1>9 DEF Present
<1>11. Past(H)'
  BY <1>1, <1>2, <1>3, PastKept
<1>12. Replayed(H)' /\ Course'
  BY <1>1, <1>2, <1>3 DEF HInv, Course, Replayed, AllServed, Failed, HasNext, replayVars
<1> QED BY <1>10, <1>11, <1>12 DEF HInv

(* The answer completes a call of the file. *)
LEMMA WriteAnswerHistory ==
    ASSUME IInv, HInv, NEW t \in Threads, WriteAnswer(t), UNCHANGED replayVars
    PROVE  HInv'
<1>1. PICK H : Past(H) /\ Present(H) /\ Replayed(H)
  BY DEF HInv
<1>2. PICK res \in Answers(op[t]) : file' = Append(file, Answer(t, res))
  BY DEF WriteAnswer
<1>3. /\ pc[t] = "answer" /\ pc' = [pc EXCEPT ![t] = "idle"] /\ running
      /\ lock' = NULL
      /\ UNCHANGED <<running, heap>>
  BY DEF WriteAnswer
<1>4. TraceInv
  BY DEF IInv
<1>5. lock = t /\ lock # NULL /\ \A u \in Threads : pc'[u] = "idle"
  BY <1>3, <1>4, TraceAssumption DEF TraceInv, TraceShape, OneCall
<1>6. Len(file) \in Nat /\ Pairs \in Nat /\ file \in Seq(Entries) /\ Len(file) = 2 * Pairs + 1
  BY <1>4, <1>5, PairsFacts
<1> DEFINE a == Answer(t, res)
<1>7. /\ Len(file') = 2 * Pairs + 2
      /\ file'[2 * Pairs + 2] = a
      /\ \A i \in 1 .. 2 * Pairs + 1 : file'[i] = file[i]
  BY <1>2, <1>6
<1>8. Pairs' = Pairs + 1
  <2>1. Len(file') = 2 * (Pairs + 1) /\ Pairs + 1 \in Nat
    BY <1>6, <1>7
  <2> QED BY <2>1, HalfFacts DEF Pairs
<1>9. /\ op[t].type # "posix_memalign"
      /\ Became(file[2 * Pairs + 1], op[t].res, H[Pairs], heap)
  BY <1>1, <1>3, <1>6 DEF Present
<1>10. a.res = op[t].res
  BY <1>2, <1>9 DEF Answers, Answer
<1> HIDE DEF a
<1>11. PICK G : /\ \A k \in 0 .. Pairs : G[k] = H[k]
                /\ G[Pairs + 1] = heap
  <2> DEFINE F == [k \in 0 .. Pairs + 1 |-> IF k = Pairs + 1 THEN heap ELSE H[k]]
  <2>1. /\ \A k \in 0 .. Pairs : F[k] = H[k]
        /\ F[Pairs + 1] = heap
    BY <1>6
  <2> HIDE DEF F
  <2> QED BY <2>1
<1>12. Sound(H[Pairs]) /\ \A k \in 0 .. Pairs : Sound(H[k])
  BY <1>1, <1>6 DEF Past
<1>13. Sound(heap)
  BY <1>9, <1>12, BecameSound
<1>14. Past(G)'
  <2>1. G[0] = {}
    BY <1>1, <1>6, <1>11 DEF Past
  <2>2. \A k \in 0 .. Pairs + 1 : Sound(G[k])
    <3> SUFFICES ASSUME NEW k \in 0 .. Pairs + 1 PROVE Sound(G[k])
      OBVIOUS
    <3>1. k = Pairs + 1 \/ k \in 0 .. Pairs
      BY <1>6
    <3> QED BY <1>11, <1>12, <1>13, <3>1
  <2>3. ASSUME NEW k \in 0 .. Pairs
        PROVE  Became(file'[2 * k + 1], file'[2 * k + 2].res, G[k], G[k + 1])
    <3>1. CASE k = Pairs
      <4>1. file'[2 * Pairs + 1] = file[2 * Pairs + 1]
        BY <1>6, <1>7
      <4>2. G[Pairs] = H[Pairs]
        BY <1>6, <1>11
      <4> QED BY <1>7, <1>9, <1>10, <1>11, <3>1, <4>1, <4>2
    <3>2. CASE k # Pairs
      <4>1. k \in 0 .. Pairs - 1 /\ k + 1 \in 0 .. Pairs
        BY <1>6, <3>2
      <4>2. 2 * k + 1 \in 1 .. 2 * Pairs + 1 /\ 2 * k + 2 \in 1 .. 2 * Pairs + 1
        BY <1>6, <4>1
      <4>3. Became(file[2 * k + 1], file[2 * k + 2].res, H[k], H[k + 1])
        BY <1>1, <4>1 DEF Past
      <4> QED BY <1>7, <1>11, <4>1, <4>2, <4>3
    <3> QED BY <3>1, <3>2
  <2>4. Pairs' - 1 = Pairs
    BY <1>6, <1>8
  <2> QED BY <1>8, <2>1, <2>2, <2>3, <2>4 DEF Past
<1>15. Present(G)'
  BY <1>3, <1>5, <1>8, <1>11 DEF Present
<1>16. pos = 0 /\ pos <= Pairs /\ pos' = 0
  BY <1>3, <1>6 DEF HInv, Course, replayVars
<1>17. G[0] = H[0]
  BY <1>6, <1>11
<1>18. AllServed(0) /\ AllServed(0)'
  BY DEF AllServed
<1>19. Replayed(G)'
  BY <1>1, <1>16, <1>17, <1>18 DEF Replayed, replayVars
<1>20. Course'
  BY <1>3, <1>16 DEF HInv, Course, replayVars
<1> QED BY <1>14, <1>15, <1>19, <1>20 DEF HInv

(* The program ends: the file stays. *)
LEMMA EndHistory ==
    ASSUME IInv, HInv, End, UNCHANGED replayVars
    PROVE  HInv'
<1>1. PICK H : Past(H) /\ Present(H) /\ Replayed(H)
  BY DEF HInv
<1>2. UNCHANGED <<heap, file, lock, pc, op>> /\ running' = FALSE
  BY DEF End
<1>3. Pairs' = Pairs
  BY <1>2 DEF Pairs
<1>4. Past(H)' /\ Present(H)'
  BY <1>1, <1>2, <1>3 DEF Past, Present
<1>5. Replayed(H)' /\ Course'
  BY <1>1, <1>2, <1>3 DEF HInv, Course, Replayed, AllServed, Failed, HasNext, replayVars
<1> QED BY <1>4, <1>5 DEF HInv
-----------------------------------------------------------------------------
(* The checker of the replay *)

(* Removing one byte of a block removes its segment and no other. *)
LEMMA RemovedFacts ==
    ASSUME NEW B, Sound(B), NEW T, \A s \in T : \E b \in B : s = Segment(b), NEW a \in 1 .. Top
    PROVE  /\ UnregisterSegment(T, a, 1) \subseteq T
           /\ (\E b \in B : b.ptr = a) => UnregisterSegment(T, a, 1) = {s \in T : s.base # a}
<1>1. UnregisterSegment(T, a, 1) = {s \in T : ~ SameElement(s, MemorySegment(a, 1))}
  BY DEF UnregisterSegment
<1>2. ASSUME NEW b \in B, b.ptr = a, NEW s \in T
      PROVE  SameElement(s, MemorySegment(a, 1)) <=> s.base = a
  <2>1. PICK c \in B : s = Segment(c)
    OBVIOUS
  <2>2. /\ c.ptr \in 1 .. Top /\ c.size \in Nat \ {0} /\ b.size \in Nat \ {0}
        /\ b = c \/ Apart(b, c)
        /\ s.base = c.ptr /\ s.size = c.size
    BY <2>1, SoundFacts DEF Segment, MemorySegment
  <2> QED BY <1>2, <2>2 DEF SameElement, Before, MemorySegment, Apart
<1> QED BY <1>1, <1>2

(* A place among the blocks is one among their segments. *)
LEMMA NoConflict ==
    ASSUME NEW B, Sound(B), NEW T, \A s \in T : \E b \in B : s = Segment(b),
           NEW r, NEW size, r = 0 \/ Room(B, Block(r, size))
    PROVE  ~ Conflicts(T, r, size)
<1> SUFFICES ASSUME r # 0, NEW s \in T PROVE ~ SameElement(s, MemorySegment(r, size))
  BY DEF Conflicts
<1>1. PICK b \in B : s = Segment(b)
  OBVIOUS
<1>2. Apart(Block(r, size), b)
  BY DEF Room
<1> QED BY <1>1, <1>2 DEF Apart, SameElement, Before, Segment, MemorySegment, Block

(* The answer that is missing is above them all. *)
LEMMA LostIsApart ==
    ASSUME NEW B, Sound(B), NEW T, \A s \in T : \E b \in B : s = Segment(b), NEW size \in Nat
    PROVE  ~ Conflicts(T, Lost, size)
<1> SUFFICES ASSUME NEW s \in T PROVE Before(s, MemorySegment(Lost, size))
  BY DEF Conflicts, SameElement
<1>1. PICK b \in B : s = Segment(b)
  OBVIOUS
<1>2. b.ptr \in 1 .. Top /\ b.size \in Nat /\ b.ptr + b.size <= Top + 1
  BY SoundFacts
<1>3. Lost \in Nat /\ Top + 1 <= Lost
  BY AddressAssumption, TraceAssumption DEF Lost
<1> QED BY <1>1, <1>2, <1>3, TraceAssumption DEF Before, Segment, MemorySegment

-----------------------------------------------------------------------------
(* The mapping and the blocks of the program *)

(* The block an address is mapped to, and what is left without it. *)
MappedTo(map, a) == IF a \in DOMAIN map THEN map[a] ELSE 0
Unmapped(map, a) == IF MappedTo(map, a) = 0 THEN map ELSE Erase(map, a)
Unregistered(T, map, a) == IF MappedTo(map, a) = 0 THEN T ELSE UnregisterSegment(T, a, 1)
Others(B, a) == {b \in B : b.ptr # a}

LEMMA DropTracks ==
    ASSUME NEW B, Sound(B), NEW T, NEW map, Tracks(T, map, B), NEW a \in 0 .. Top,
           a = 0 \/ \E b \in B : b.ptr = a
    PROVE  Tracks(Unregistered(T, map, a), Unmapped(map, a), Others(B, a))
<1> DEFINE T1 == Unregistered(T, map, a)
           map1 == Unmapped(map, a)
<1>1. \A s \in T : \E b \in B : s = Segment(b)
  BY DEF Tracks
<1>2. \A b \in B : b.ptr \in 1 .. Top /\ Segment(b).base = b.ptr
  BY SoundFacts DEF Segment, MemorySegment
<1>3. T1 \subseteq T
  BY DEF Unregistered, UnregisterSegment
<1>4. \A s \in T1 : s.base # a
  <2>1. CASE a = 0
    BY <1>1, <1>2, <1>3, <2>1
  <2>2. CASE a # 0 /\ MappedTo(map, a) = 0
    BY <2>2 DEF Tracks, MappedTo, Unregistered
  <2>3. CASE a # 0 /\ MappedTo(map, a) # 0
    <3>1. a \in 1 .. Top /\ \E b \in B : b.ptr = a
      BY <2>3, TraceAssumption
    <3>2. UnregisterSegment(T, a, 1) = {s \in T : s.base # a}
      BY <1>1, <3>1, RemovedFacts
    <3> QED BY <2>3, <3>2 DEF Unregistered
  <2> QED BY <2>1, <2>2, <2>3
<1>5. ASSUME NEW s \in T1
      PROVE  /\ \E b \in Others(B, a) : s = Segment(b)
             /\ s.base \in DOMAIN map1 /\ map1[s.base] # 0
  <2>1. PICK b \in B : s = Segment(b)
    BY <1>1, <1>3
  <2>2. b \in Others(B, a)
    BY <1>2, <1>4, <2>1 DEF Others
  <2>3. s.base \in DOMAIN map /\ map[s.base] # 0 /\ s.base # a
    BY <1>3, <1>4 DEF Tracks
  <2> QED BY <2>1, <2>2, <2>3 DEF Unmapped, Erase
<1> QED BY <1>5 DEF Tracks

LEMMA DropMirrors ==
    ASSUME NEW B, Sound(B), NEW T, NEW map, NEW bs, Mirrors(T, map, bs, B), IsFiniteSet(bs),
           0 \notin bs, \A x \in DOMAIN map : map[x] # 0 => map[x] \in bs,
           NEW a \in 0 .. Top, a = 0 \/ \E b \in B : b.ptr = a
    PROVE  /\ Mirrors(Unregistered(T, map, a), Unmapped(map, a), bs \ {MappedTo(map, a)}, Others(B, a))
           /\ MappedTo(map, a) = 0 <=> a = 0
<1> DEFINE p == MappedTo(map, a)
<1>1. \A b \in B : b.ptr \in 1 .. Top /\ Segment(b).base = b.ptr
  BY SoundFacts DEF Segment, MemorySegment
<1>2. /\ {x \in DOMAIN map : map[x] # 0} = {b.ptr : b \in B}
      /\ T = {Segment(b) : b \in B}
      /\ Cardinality(bs) = Cardinality(B)
  BY DEF Mirrors
<1>3. CASE a = 0
  <2>1. p = 0
    BY <1>1, <1>2, <1>3 DEF MappedTo
  <2>2. Others(B, a) = B
    BY <1>1, <1>3 DEF Others
  <2>3. bs \ {p} = bs
    BY <2>1
  <2>4. Unregistered(T, map, a) = T /\ Unmapped(map, a) = map
    BY <2>1 DEF Unregistered, Unmapped
  <2> QED BY <1>3, <2>1, <2>2, <2>3, <2>4
<1>4. ASSUME NEW b \in B, b.ptr = a
      PROVE  /\ Mirrors(Unregistered(T, map, a), Unmapped(map, a), bs \ {p}, Others(B, a))
             /\ p # 0 /\ a # 0
  <2>1. a \in DOMAIN map /\ map[a] # 0 /\ p = map[a] /\ p \in bs /\ a # 0 /\ a \in 1 .. Top
    BY <1>1, <1>2, <1>4 DEF MappedTo
  <2>2. Others(B, a) = B \ {b}
    <3>1. \A c \in B : c.ptr = a => c = b
      BY <1>4, SoundFacts
    <3> QED BY <1>4, <3>1 DEF Others
  <2>3. Unregistered(T, map, a) = {s \in T : s.base # a}
    <3>1. \A s \in T : \E c \in B : s = Segment(c)
      BY <1>2
    <3> QED BY <1>4, <2>1, <3>1, RemovedFacts DEF Unregistered
  <2>4. {s \in T : s.base # a} = {Segment(c) : c \in Others(B, a)}
    BY <1>1, <1>2 DEF Others
  <2> DEFINE map1 == Erase(map, a)
  <2>5. {x \in DOMAIN map1 : map1[x] # 0} = {c.ptr : c \in Others(B, a)}
    <3>1. {x \in DOMAIN map1 : map1[x] # 0} = {x \in DOMAIN map : map[x] # 0} \ {a}
      BY DEF Erase
    <3>2. {c.ptr : c \in B} \ {a} = {c.ptr : c \in Others(B, a)}
      BY DEF Others
    <3> QED BY <1>2, <3>1, <3>2
  <2>6. Cardinality(bs \ {p}) = Cardinality(Others(B, a))
    <3>1. Cardinality(bs \ {p}) = Cardinality(bs) - 1
      BY <2>1, FS_RemoveElement
    <3>2. Cardinality(B \ {b}) = Cardinality(B) - 1
      BY FS_RemoveElement DEF Sound
    <3> QED BY <1>2, <2>2, <3>1, <3>2
  <2>7. Unmapped(map, a) = map1
    BY <2>1 DEF Unmapped
  <2> QED BY <2>1, <2>3, <2>4, <2>5, <2>6, <2>7 DEF Mirrors
<1> QED BY <1>3, <1>4

(* What the library gave is registered and mapped. *)
LEMMA AddTracks ==
    ASSUME NEW B, Sound(B), NEW T, NEW map, Tracks(T, map, B), NEW r, NEW size, NEW p,
           NEW C, B \subseteq C,
           r # 0 => p # 0 /\ Room(B, Block(r, size)) /\ Block(r, size) \in C
    PROVE  Tracks(RegisterSegment(T, r, size), Store(map, r, p), C)
<1>1. ASSUME NEW s \in T
      PROVE  /\ \E b \in C : s = Segment(b)
             /\ s.base \in DOMAIN Store(map, r, p) /\ Store(map, r, p)[s.base] # 0
  <2>1. PICK b \in B : s = Segment(b)
    BY DEF Tracks
  <2>2. s.base # 0
    BY <2>1, SoundFacts DEF Segment, MemorySegment
  <2>3. s.base \in DOMAIN map /\ map[s.base] # 0
    BY DEF Tracks
  <2> QED BY <2>1, <2>2, <2>3 DEF Store
<1>2. ASSUME r # 0
      PROVE  LET s == MemorySegment(r, size)
             IN  /\ s = Segment(Block(r, size)) /\ Block(r, size) \in C
                 /\ s.base \in DOMAIN Store(map, r, p) /\ Store(map, r, p)[s.base] # 0
  BY <1>2 DEF MemorySegment, Segment, Block, Store
<1> QED BY <1>1, <1>2 DEF Tracks, RegisterSegment

LEMMA AddMirrors ==
    ASSUME NEW B, Sound(B), NEW T, NEW map, NEW bs, Mirrors(T, map, bs, B), IsFiniteSet(bs),
           NEW r, NEW size, r # 0, Room(B, Block(r, size)), NEW p, p # 0, p \notin bs
    PROVE  Mirrors(RegisterSegment(T, r, size), Store(map, r, p), bs \union {p},
                   B \union {Block(r, size)})
<1> DEFINE x == Block(r, size)
           map1 == Store(map, r, p)
<1>1. x.ptr = r /\ x.size = size
  BY DEF Block
<1>2. x \in BlockRecords
  BY TraceAssumption DEF Room, Block, BlockRecords
<1>3. /\ {a \in DOMAIN map : map[a] # 0} = {b.ptr : b \in B}
      /\ T = {Segment(b) : b \in B}
      /\ Cardinality(bs) = Cardinality(B)
  BY DEF Mirrors
<1>4. {a \in DOMAIN map1 : map1[a] # 0} = {b.ptr : b \in B \union {x}}
  <2>1. {a \in DOMAIN map1 : map1[a] # 0} = {a \in DOMAIN map : map[a] # 0} \union {r}
    BY DEF Store
  <2>2. {b.ptr : b \in B \union {x}} = {b.ptr : b \in B} \union {x.ptr}
    OBVIOUS
  <2> QED BY <1>1, <1>3, <2>1, <2>2
<1>5. RegisterSegment(T, r, size) = {Segment(b) : b \in B \union {x}}
  <2>1. {Segment(b) : b \in B \union {x}} = {Segment(b) : b \in B} \union {Segment(x)}
    OBVIOUS
  <2>2. Segment(x) = MemorySegment(r, size)
    BY <1>1 DEF Segment
  <2> QED BY <1>3, <2>1, <2>2 DEF RegisterSegment
<1>6. Cardinality(bs \union {p}) = Cardinality(B \union {x})
  <2>1. Cardinality(bs \union {p}) = Cardinality(bs) + 1
    BY FS_AddElement
  <2>2. Cardinality(B \union {x}) = Cardinality(B) + 1
    BY <1>2, SoundMore
  <2> QED BY <1>3, <2>1, <2>2
<1> QED BY <1>4, <1>5, <1>6 DEF Mirrors

(* NULL mapped to NULL is no block. *)
LEMMA NullMirrors ==
    ASSUME NEW B, Sound(B), NEW T, NEW map, NEW bs, Mirrors(T, map, bs, B), NEW size
    PROVE  Mirrors(RegisterSegment(T, 0, size), Store(map, 0, 0), bs, B)
<1>1. \A b \in B : b.ptr # 0
  BY SoundFacts
<1>2. {a \in DOMAIN map : map[a] # 0} = {b.ptr : b \in B}
  BY DEF Mirrors
<1>3. 0 \in DOMAIN map => map[0] = 0
  BY <1>1, <1>2
<1>4. {a \in DOMAIN Store(map, 0, 0) : Store(map, 0, 0)[a] # 0} = {a \in DOMAIN map : map[a] # 0}
  BY <1>3 DEF Store
<1> QED BY <1>2, <1>4 DEF Mirrors, RegisterSegment
-----------------------------------------------------------------------------
(* One lemma per call that is played *)

(* The variables of the replay while it goes on. *)
LEMMA ReplayFacts ==
    ASSUME ReplayInv, status = "replaying"
    PROVE  /\ blocks \in SUBSET (Nat \ {0}) /\ IsFiniteSet(blocks) /\ 0 \notin blocks
           /\ checker = blocks
           /\ \A x \in DOMAIN ptrs : ptrs[x] # 0 => ptrs[x] \in blocks
           /\ NewBlock(blocks) # 0 /\ NewBlock(blocks) \notin blocks
<1>1. blocks \in SUBSET (Nat \ {0}) /\ IsFiniteSet(blocks)
  BY DEF ReplayInv, ReplayShape
<1> QED BY <1>1, NewBlockFacts DEF ReplayInv, MappingAlive

(* What was allocated is allocated again; nothing of the trace is there. *)
LEMMA PlayMallocHistory ==
    ASSUME ReplayInv, status = "replaying", PlayMalloc,
           NEW B, Sound(B), NEW C, Became(Entry, Result, B, C), Tracks(checkerTrace, ptrs, B)
    PROVE  /\ status' # "threw"
           /\ Tracks(checkerTrace', ptrs', C)
           /\ Mirrors(checkerTrace, ptrs, blocks, B) /\ Result # 0 =>
                Mirrors(checkerTrace', ptrs', blocks', C)
<1> DEFINE p == NewBlock(blocks)
           size == Entry.size
           r == Result
<1>1. p # 0 /\ p \notin blocks /\ IsFiniteSet(blocks)
  BY ReplayFacts
<1>2. Gave(B, B, size, r, C)
  <2>1. Entry.type \in {"malloc", "calloc", "memalign", "posix_memalign"}
    BY DEF PlayMalloc
  <2> QED BY <2>1 DEF Became
<1>3. r = 0 \/ (Room(B, Block(r, size)) /\ C = B \union {Block(r, size)})
  BY <1>2 DEF Gave
<1>4. ~ Conflicts(checkerTrace, r, size)
  <2>1. \A s \in checkerTrace : \E b \in B : s = Segment(b)
    BY DEF Tracks
  <2> QED BY <1>3, <2>1, NoConflict
<1>5. /\ blocks' = blocks \union {p}
      /\ ptrs' = Store(ptrs, r, p)
      /\ checkerTrace' = RegisterSegment(checkerTrace, r, size)
      /\ status' # "threw"
  BY <1>4 DEF PlayMalloc
<1>6. B \subseteq C
  BY <1>2 DEF Gave
<1>7. Tracks(checkerTrace', ptrs', C)
  <2> HIDE DEF p, size, r
  <2> QED BY <1>1, <1>3, <1>5, <1>6, AddTracks
<1>8. ASSUME Mirrors(checkerTrace, ptrs, blocks, B), r # 0
      PROVE  Mirrors(checkerTrace', ptrs', blocks', C)
  <2> HIDE DEF p, size, r
  <2> QED BY <1>1, <1>3, <1>5, <1>8, AddMirrors
<1> QED BY <1>5, <1>7, <1>8

(* The block of the program that an event is about. *)
LEMMA BecameOthers ==
    ASSUME NEW B, Sound(B), NEW C, NEW e, NEW r, Became(e, r, B, C),
           e.type \in {"free", "realloc"}
    PROVE  /\ e.ptr = 0 \/ \E b \in B : b.ptr = e.ptr
           /\ e.type = "free" \/ (e.size = 0 /\ r = 0) => e.ptr # 0 /\ C = Others(B, e.ptr)
           /\ e.type = "realloc" /\ ~ (e.size = 0 /\ r = 0) =>
                e.size # 0 /\ Gave(B, Others(B, e.ptr), e.size, r, C)
<1>1. CASE New(e) /\ e.size # 0 /\ Gave(B, B, e.size, r, C)
  <2>1. e.type = "realloc" /\ e.ptr = 0
    BY <1>1 DEF New
  <2>2. Others(B, e.ptr) = B
    BY <2>1, SoundFacts DEF Others
  <2> QED BY <1>1, <2>1, <2>2
<1>2. ASSUME NEW b \in B, e.ptr = b.ptr
      PROVE  Others(B, e.ptr) = B \ {b} /\ e.ptr # 0
  <2>1. b.ptr # 0 /\ \A c \in B : c.ptr = b.ptr => c = b
    BY SoundFacts
  <2> QED BY <1>2, <2>1 DEF Others
<1> QED BY <1>1, <1>2 DEF Became

(* The block that the address is mapped to is freed, if it has one. *)
LEMMA PlayFreeHistory ==
    ASSUME TraceInv, ReplayInv, HasNext, status = "replaying", PlayFree,
           NEW B, Sound(B), NEW C, Became(Entry, Result, B, C), Tracks(checkerTrace, ptrs, B)
    PROVE  /\ status' # "threw"
           /\ Tracks(checkerTrace', ptrs', C)
           /\ Mirrors(checkerTrace, ptrs, blocks, B) => Mirrors(checkerTrace', ptrs', blocks', C)
<1> DEFINE a == Entry.ptr
           p == MappedTo(ptrs, a)
<1>1. Entry.type = "free" /\ status' = "replaying"
  BY DEF PlayFree
<1>2. /\ a = 0 \/ \E b \in B : b.ptr = a
      /\ C = Others(B, a)
  <2>1. /\ a = 0 \/ \E b \in B : b.ptr = a
        /\ Entry.type = "free" \/ (Entry.size = 0 /\ Result = 0) => a # 0 /\ C = Others(B, a)
    BY <1>1, BecameOthers
  <2> QED BY <1>1, <2>1
<1>3. a \in 0 .. Top
  BY EntryFacts DEF ReplayInv
<1>4. /\ IsFiniteSet(blocks) /\ 0 \notin blocks
      /\ \A x \in DOMAIN ptrs : ptrs[x] # 0 => ptrs[x] \in blocks
  BY ReplayFacts
<1>5. p = GetRealPtr(a)
  BY DEF MappedTo, GetRealPtr
<1>6. /\ checkerTrace' = Unregistered(checkerTrace, ptrs, a)
      /\ ptrs' = Unmapped(ptrs, a)
      /\ blocks' = blocks \ {p}
  <2>1. CASE p = 0
    <3>1. UNCHANGED <<ptrs, checkerTrace, blocks>>
      BY <1>5, <2>1 DEF PlayFree
    <3>2. blocks \ {p} = blocks
      BY <1>4, <2>1
    <3> QED BY <2>1, <3>1, <3>2 DEF Unregistered, Unmapped
  <2>2. CASE p # 0
    <3>1. /\ checkerTrace' = UnregisterSegment(checkerTrace, a, 1)
          /\ blocks' = blocks \ {p}
          /\ ptrs' = Erase(ptrs, a)
      BY <1>5, <2>2 DEF PlayFree
    <3> QED BY <2>2, <3>1 DEF Unregistered, Unmapped
  <2> QED BY <2>1, <2>2
<1> HIDE DEF a
<1>7. Tracks(checkerTrace', ptrs', C)
  BY <1>2, <1>3, <1>6, DropTracks
<1>8. ASSUME Mirrors(checkerTrace, ptrs, blocks, B)
      PROVE  Mirrors(checkerTrace', ptrs', blocks', C)
  BY <1>2, <1>3, <1>4, <1>6, <1>8, DropMirrors
<1> QED BY <1>1, <1>7, <1>8

(* The old segment is gone before the new one is registered. *)
LEMMA PlayReallocHistory ==
    ASSUME TraceInv, ReplayInv, HasNext, status = "replaying", PlayRealloc,
           NEW B, Sound(B), NEW C, Became(Entry, Result, B, C), Tracks(checkerTrace, ptrs, B)
    PROVE  /\ status' # "threw"
           /\ Tracks(checkerTrace', ptrs', C)
           /\ Mirrors(checkerTrace, ptrs, blocks, B) /\ (Result # 0 \/ Entry.size = 0) =>
                Mirrors(checkerTrace', ptrs', blocks', C)
<1> DEFINE a == Entry.ptr
           size == Entry.size
           r == Result
           p == MappedTo(ptrs, a)
           traced == Unregistered(checkerTrace, ptrs, a)
           map == Unmapped(ptrs, a)
           others == Others(B, a)
           rest == blocks \ {p}
<1>1. Entry.type = "realloc"
  BY DEF PlayRealloc
<1>2. /\ a = 0 \/ \E b \in B : b.ptr = a
      /\ size = 0 /\ r = 0 => a # 0 /\ C = others
      /\ ~ (size = 0 /\ r = 0) => size # 0 /\ Gave(B, others, size, r, C)
  <2>1. /\ a = 0 \/ \E b \in B : b.ptr = a
        /\ Entry.type = "free" \/ (size = 0 /\ r = 0) => a # 0 /\ C = others
        /\ Entry.type = "realloc" /\ ~ (size = 0 /\ r = 0) =>
             size # 0 /\ Gave(B, others, size, r, C)
    BY <1>1, BecameOthers
  <2> QED BY <1>1, <2>1
<1>3. a \in 0 .. Top
  BY EntryFacts DEF ReplayInv
<1>4. /\ IsFiniteSet(blocks) /\ 0 \notin blocks
      /\ \A x \in DOMAIN ptrs : ptrs[x] # 0 => ptrs[x] \in blocks
      /\ NewBlock(blocks) # 0 /\ NewBlock(blocks) \notin blocks
  BY ReplayFacts
<1>5. p = GetRealPtr(a)
  BY DEF MappedTo, GetRealPtr
<1>6. Sound(others) /\ others \subseteq B
  <2>1. others \in SUBSET B
    BY DEF Others
  <2> QED BY <2>1, SoundFewer
<1>7. /\ others \subseteq C
      /\ r # 0 => size # 0 /\ Room(others, Block(r, size)) /\ C = others \union {Block(r, size)}
  BY <1>2, <1>6 DEF Gave
<1>8. IF Conflicts(traced, r, size)
        THEN status' = "threw"
        ELSE \E out \in Reallocated(p, size) :
             /\ checkerTrace' = RegisterSegment(traced, r, size)
             /\ ptrs' = Store(map, r, out)
             /\ blocks' = (rest \union {out}) \ {0}
             /\ status' = "replaying"
  BY <1>5 DEF PlayRealloc, Unregistered, Unmapped
<1> HIDE DEF a, size, r, p
<1>9. Tracks(traced, map, others)
  BY <1>2, <1>3, DropTracks
<1>10. ~ Conflicts(traced, r, size)
  <2>1. \A s \in traced : \E b \in others : s = Segment(b)
    BY <1>9 DEF Tracks
  <2> HIDE DEF traced, others
  <2> QED BY <1>6, <1>7, <2>1, NoConflict
<1>11. PICK out \in Reallocated(p, size) :
         /\ checkerTrace' = RegisterSegment(traced, r, size)
         /\ ptrs' = Store(map, r, out)
         /\ blocks' = (rest \union {out}) \ {0}
         /\ status' = "replaying"
  BY <1>8, <1>10
<1>12. /\ size # 0 => out # 0
       /\ p # 0 /\ size = 0 => out = 0
       /\ out # 0 => out \notin rest
  <2>1. out = p \/ out = NewBlock(blocks) \/ (p # 0 /\ size = 0 /\ out = 0)
    BY <1>11 DEF Reallocated
  <2>2. p # 0 /\ size = 0 => out = 0
    BY <1>11 DEF Reallocated
  <2>3. p = 0 => out = NewBlock(blocks)
    BY <1>11 DEF Reallocated
  <2> QED BY <1>4, <2>1, <2>2, <2>3
<1>13. Tracks(checkerTrace', ptrs', C)
  <2> HIDE DEF traced, map, others, rest
  <2>1. r # 0 => out # 0 /\ Room(others, Block(r, size)) /\ Block(r, size) \in C
    BY <1>7, <1>12
  <2> QED BY <1>6, <1>7, <1>9, <1>11, <2>1, AddTracks
<1>14. ASSUME Mirrors(checkerTrace, ptrs, blocks, B), r # 0 \/ size = 0
       PROVE  Mirrors(checkerTrace', ptrs', blocks', C)
  <2>1. Mirrors(traced, map, rest, others) /\ (p = 0 <=> a = 0)
    BY <1>2, <1>3, <1>4, <1>14, DropMirrors DEF p
  <2>2. IsFiniteSet(rest) /\ 0 \notin rest
    BY <1>4, FS_RemoveElement
  <2> HIDE DEF traced, map, others, rest
  <2>3. CASE r # 0
    <3>1. out # 0 /\ out \notin rest /\ C = others \union {Block(r, size)}
      BY <1>7, <1>12, <2>3
    <3>2. blocks' = rest \union {out}
      BY <1>11, <2>2, <3>1
    <3>3. Room(others, Block(r, size))
      BY <1>7, <2>3
    <3> QED BY <1>6, <1>11, <2>1, <2>2, <2>3, <3>1, <3>2, <3>3, AddMirrors
  <2>4. CASE r = 0
    <3>1. size = 0 /\ a # 0 /\ C = others
      BY <1>2, <1>14, <2>4
    <3>2. out = 0
      BY <1>12, <2>1, <3>1
    <3>3. blocks' = rest
      BY <1>11, <2>2, <3>2
    <3> QED BY <1>6, <1>11, <2>1, <2>4, <3>1, <3>2, <3>3, NullMirrors
  <2> QED BY <2>3, <2>4
<1>15. status' # "threw"
  BY <1>11
<1> QED BY <1>13, <1>14, <1>15 DEF r, size
-----------------------------------------------------------------------------
(* The play of an entry, and the theorems *)

(* The blocks of the program after the calls played. *)
LEMMA PlayHistory ==
    ASSUME IInv, HInv, Play
    PROVE  HInv'
<1>1. PICK H : Past(H) /\ Present(H) /\ Replayed(H)
  BY DEF HInv
<1>2. /\ ~ running /\ status = "replaying" /\ HasNext /\ pos' = pos + 1
      /\ PlayMalloc \/ PlayFree \/ PlayRealloc \/ PlayValloc
      /\ UNCHANGED traceVars
      /\ UNCHANGED <<running, heap, file, lock, pc, op>>
  BY DEF Play, traceVars
<1>3. TraceInv /\ ReplayInv /\ ReplayShape
  BY DEF IInv, ReplayInv
<1>4. /\ Len(file) \in Nat /\ Pairs \in Nat /\ pos \in Nat
      /\ Len(file) = 2 * Pairs \/ Len(file) = 2 * Pairs + 1
      /\ Pairs' = Pairs
  <2>1. Len(file) \in Nat /\ Pairs \in Nat /\ (Len(file) = 2 * Pairs \/ Len(file) = 2 * Pairs + 1)
    BY <1>3, PairsFacts
  <2> QED BY <1>2, <1>3, <2>1 DEF Pairs, ReplayShape
<1>5. Past(H)' /\ Present(H)'
  BY <1>1, <1>2, <1>4 DEF Past, Present
<1>6. status' # "done"
  BY <1>2 DEF PlayMalloc, PlayFree, PlayRealloc, PlayValloc
<1>7. CASE pos < Pairs
  <2> DEFINE B == H[pos]
             C == H[pos + 1]
  <2>1. pos \in 0 .. Pairs - 1 /\ pos \in 0 .. Pairs /\ pos + 1 \in 0 .. Pairs
    BY <1>4, <1>7
  <2>2. Len(file) > 2 * pos + 1 /\ Entry = file[2 * pos + 1] /\ Result = file[2 * pos + 2].res
    BY <1>4, <1>7 DEF Entry, Result
  <2>3. Sound(B) /\ Sound(C) /\ Became(Entry, Result, B, C)
    BY <1>1, <2>1, <2>2 DEF Past
  <2>4. /\ Tracks(checkerTrace, ptrs, B)
        /\ AllServed(pos) => Mirrors(checkerTrace, ptrs, blocks, B)
    BY <1>1, <1>2, <2>1 DEF Replayed
  <2>5. AllServed(pos + 1) =>
          /\ AllServed(pos)
          /\ Entry.type = "free" \/ Result # 0 \/ (Entry.type = "realloc" /\ Entry.size = 0)
    <3> SUFFICES ASSUME AllServed(pos + 1)
                 PROVE  /\ AllServed(pos)
                        /\ Entry.type = "free" \/ Result # 0 \/ (Entry.type = "realloc" /\ Entry.size = 0)
      OBVIOUS
    <3>1. pos + 1 \in 1 .. pos + 1 /\ 1 .. pos \subseteq 1 .. pos + 1
      BY <1>4
    <3>2. AllServed(pos)
      BY <3>1 DEF AllServed
    <3>3. ~ Failed(2 * (pos + 1) - 1)
      BY <3>1 DEF AllServed
    <3>4. 2 * (pos + 1) - 1 = 2 * pos + 1 /\ 2 * pos + 1 + 1 = 2 * pos + 2
      BY <1>4
    <3>5. ~ Failed(2 * pos + 1)
      BY <3>3, <3>4
    <3> QED BY <2>2, <3>2, <3>4, <3>5 DEF Failed
  <2> HIDE DEF B, C
  <2>6. /\ status' # "threw"
        /\ status' = "replaying" =>
             /\ Tracks(checkerTrace', ptrs', C)
             /\ AllServed(pos + 1) => Mirrors(checkerTrace', ptrs', blocks', C)
    <3>1. CASE PlayMalloc
      <4>1. Entry.type # "free" /\ Entry.type # "realloc"
        BY <3>1 DEF PlayMalloc
      <4> QED BY <1>2, <1>3, <2>3, <2>4, <2>5, <3>1, <4>1, PlayMallocHistory
    <3>2. CASE PlayFree
      BY <1>2, <1>3, <2>3, <2>4, <2>5, <3>2, PlayFreeHistory
    <3>3. CASE PlayRealloc
      <4>1. Entry.type # "free"
        BY <3>3 DEF PlayRealloc
      <4> QED BY <1>2, <1>3, <2>3, <2>4, <2>5, <3>3, <4>1, PlayReallocHistory
    <3>4. CASE PlayValloc
      BY <3>4 DEF PlayValloc
    <3> QED BY <1>2, <3>1, <3>2, <3>3, <3>4
  <2>7. AllServed(pos)' => AllServed(pos + 1)
    BY <1>2 DEF AllServed, Failed
  <2>8. Replayed(H)'
    <3>1. pos' = pos + 1 /\ H[pos'] = C
      BY <1>2 DEF C
    <3> QED BY <1>6, <2>6, <2>7, <3>1 DEF Replayed
  <2>9. Course'
    BY <1>2, <1>6, <2>6 DEF Course
  <2> QED BY <1>5, <2>8, <2>9 DEF HInv
<1>8. CASE ~ pos < Pairs
  <2>1. pos = Pairs /\ Len(file) = 2 * Pairs + 1 /\ Result = Lost
    BY <1>2, <1>4, <1>8 DEF HasNext, Result
  <2>2. Replayed(H)'
    BY <1>2, <1>4, <2>1 DEF Replayed
  <2>3. Sound(H[pos]) /\ Tracks(checkerTrace, ptrs, H[pos])
    BY <1>1, <1>2, <1>4, <2>1 DEF Past, Replayed
  <2>4. Entry.size \in Nat
    BY <1>2, <1>3, EntryFacts
  <2>5. \A s \in checkerTrace : \E b \in H[pos] : s = Segment(b)
    BY <2>3 DEF Tracks
  <2>6. ASSUME NEW T, T \subseteq checkerTrace PROVE ~ Conflicts(T, Result, Entry.size)
    <3>1. \A s \in T : \E b \in H[pos] : s = Segment(b)
      BY <2>5, <2>6
    <3> QED BY <2>1, <2>3, <2>4, <3>1, LostIsApart
  <2>7. status' # "threw"
    <3>1. CASE PlayMalloc
      BY <1>2, <2>6, <3>1 DEF PlayMalloc
    <3>2. CASE PlayRealloc
      <4>1. UnregisterSegment(checkerTrace, Entry.ptr, 1) \subseteq checkerTrace
        BY DEF UnregisterSegment
      <4> QED BY <1>2, <2>6, <3>2, <4>1 DEF PlayRealloc
    <3> QED BY <1>2, <3>1, <3>2 DEF PlayFree, PlayValloc
  <2>8. Course'
    BY <1>2, <1>6, <2>7 DEF Course
  <2> QED BY <1>5, <2>2, <2>8 DEF HInv
<1> QED BY <1>7, <1>8

(* The end of the file. *)
LEMMA FinishHistory ==
    ASSUME HInv, Finish
    PROVE  HInv'
<1>1. PICK H : Past(H) /\ Present(H) /\ Replayed(H)
  BY DEF HInv
<1>2. /\ UNCHANGED <<running, heap, file, lock, pc, op, pos, ptrs, checkerTrace, blocks>>
      /\ ~ running /\ status = "replaying" /\ status' = "done" /\ ~ HasNext
  BY DEF Finish, traceVars
<1>3. Past(H)' /\ Present(H)' /\ Replayed(H)'
  BY <1>1, <1>2 DEF Past, Present, Replayed, Pairs, AllServed, Failed
<1>4. Course'
  BY <1>2 DEF Course, HasNext
<1> QED BY <1>3, <1>4 DEF HInv

(* Nothing was called, nothing is allocated. *)
LEMMA InitHistory ==
    ASSUME Init
    PROVE  HInv
<1> DEFINE H == [k \in {0} |-> {}]
<1>1. /\ H[0] = {}
      /\ heap = {} /\ file = <<>> /\ pc = [t \in Threads |-> "idle"] /\ running
      /\ status = "replaying" /\ pos = 0 /\ checkerTrace = {} /\ blocks = {}
      /\ ptrs = [a \in {} |-> 0]
  BY DEF Init, TraceInit
<1>2. Len(file) = 0 /\ Pairs = 0
  BY <1>1 DEF Pairs
<1>3. Sound({})
  BY FS_EmptySet DEF Sound
<1> HIDE DEF H
<1>4. Past(H)
  <2>1. 0 .. Pairs = {0} /\ 0 .. Pairs - 1 = {}
    BY <1>2
  <2> QED BY <1>1, <1>3, <2>1 DEF Past
<1>5. Present(H)
  BY <1>1, <1>2 DEF Present
<1>6. Replayed(H)
  BY <1>1 DEF Replayed, Tracks, Mirrors
<1>7. Course
  BY <1>1 DEF Course
<1> QED BY <1>4, <1>5, <1>6, <1>7 DEF HInv

(* A history of the library's blocks explains the file and the replay, in   *)
(* every behaviour without a request of size 0 and without posix_memalign.  *)
LEMMA History ==
    ASSUME Ordinary
    PROVE  Spec => [](IInv /\ HInv)
<1>1. Init => IInv /\ HInv
  BY InitInvariant, InitHistory
<1>2. IInv /\ HInv /\ [Next]_vars => (IInv /\ HInv)'
  <2> SUFFICES ASSUME IInv, HInv, [Next]_vars PROVE IInv' /\ HInv'
    OBVIOUS
  <2>1. IInv'
    BY StepInvariant
  <2>2. CASE TraceNext /\ UNCHANGED replayVars
    BY <2>1, <2>2, WriteEventHistory, SuperHistory, WriteAnswerHistory, EndHistory DEF TraceNext
  <2>3. CASE Play
    BY <2>1, <2>3, PlayHistory
  <2>4. CASE Finish
    BY <2>1, <2>4, FinishHistory
  <2>5. CASE UNCHANGED vars
    BY <2>1, <2>5 DEF vars, traceVars, replayVars, HInv, Course, HasNext, Past, Present, Replayed,
                Pairs, AllServed, Failed
  <2> QED BY <2>1, <2>2, <2>3, <2>4, <2>5 DEF Next
<1> QED BY <1>1, <1>2, PTL DEF Spec

(* ReplayAccepts: the order of the file is the order in which the library   *)
(* did the calls, so the segment of an answer overlaps none that the        *)
(* replay has registered and not yet removed, and the replay never throws.  *)
THEOREM ReplayIsAccepted ==
    ASSUME Ordinary
    PROVE  Spec => []ReplayAccepts
<1>1. HInv => ReplayAccepts
  BY DEF HInv, Course, ReplayAccepts
<1> QED BY <1>1, History, PTL

(* ReplayMirrors: a complete trace in which every call was served leaves    *)
(* the replay with one block for each block that the program had at the     *)
(* end, mapped from its address, and the checker with their segments.       *)
THEOREM ReplayMirrorsProgram ==
    ASSUME Ordinary
    PROVE  Spec => []ReplayMirrors
<1>1. ASSUME IInv, HInv PROVE ReplayMirrors
  <2> SUFFICES ASSUME status = "done", Len(file) % 2 = 0,
                      \A k \in 1 .. Len(file) \div 2 : ~ Failed(2 * k - 1)
               PROVE  /\ {a \in DOMAIN ptrs : ptrs[a] # 0} = {b.ptr : b \in heap}
                      /\ checkerTrace = {MemorySegment(b.ptr, b.size) : b \in heap}
                      /\ Cardinality(blocks) = Cardinality(heap)
    BY DEF ReplayMirrors
  <2>1. PICK H : Past(H) /\ Present(H) /\ Replayed(H)
    BY <1>1 DEF HInv
  <2>2. Len(file) \in Nat /\ Pairs \in Nat /\ Len(file) = 2 * Pairs /\ lock = NULL
    <3>1. TraceInv
      BY <1>1 DEF IInv
    <3>2. /\ Len(file) \in Nat /\ Pairs \in Nat
          /\ lock = NULL => Len(file) = 2 * Pairs
          /\ lock # NULL => Len(file) = 2 * Pairs + 1
      BY <3>1, PairsFacts
    <3>3. \A n \in Nat : (2 * n + 1) % 2 # 0
      OBVIOUS
    <3> QED BY <3>2, <3>3
  <2>3. pos = Pairs
    BY <1>1, <2>2 DEF IInv, ReplayInv, ReplayShape, HInv, Course, HasNext
  <2>4. heap = H[pos]
    BY <2>1, <2>2, <2>3 DEF Present
  <2>5. AllServed(pos)
    BY <2>3 DEF AllServed, Pairs
  <2>6. Mirrors(checkerTrace, ptrs, blocks, heap)
    BY <2>1, <2>2, <2>3, <2>4, <2>5 DEF Replayed
  <2> QED BY <2>6 DEF Mirrors, Segment
<1> QED BY <1>1, History, PTL
=============================================================================
