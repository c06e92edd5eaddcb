--------------------------- MODULE FreeListIndex ---------------------------
(***************************************************************************)
(* How the medium free pool finds the free list of a size: the search by   *)
(* dichotomy in a table of class sizes, and the closed formula that        *)
(* replaces it for the default table (lib/chunks/MediumFreePool.cpp).      *)
(*                                                                         *)
(* Sizes are bytes; tables and lists are numbered from 0 as in the source. *)
(* One action is one round of the search loop.                             *)
(***************************************************************************)
EXTENDS Integers, Sequences

CONSTANTS
    FiniteSizes,           \* the sizes of a table before its -1UL entries
    TableLengths,          \* how many of them the table of a pool has
    Requests,              \* sizes looked for
    NoLimit                \* -1UL: larger than any request

ASSUME TableAssumption ==
    /\ FiniteSizes \in Seq(Nat)
    /\ \A k \in 1..(Len(FiniteSizes) - 1) : FiniteSizes[k] < FiniteSizes[k + 1]
    /\ TableLengths \subseteq 1..Len(FiniteSizes)
    /\ Requests \subseteq Nat /\ NoLimit \in Nat
    /\ \A r \in Requests : FiniteSizes[1] <= r /\ r < NoLimit

VARIABLES
    length,                \* finite sizes in the table
    innerSize,             \* the request
    tablePtr, segSize,     \* ptr and segSize of getFreeListByDichotomy
    middle,                \* its i
    searchPc

searchVars == <<length, innerSize, tablePtr, segSize, middle, searchPc>>

NB_FREE_LIST == 50
MACRO_BLOC_SIZE == 2 * 1024 * 1024

(* The table ends with -1UL entries, enough of them for what init asserts. *)
ASSUME LengthAssumption == \A n \in TableLengths : n + 2 < NB_FREE_LIST

SizeAt(k) == IF k < length THEN FiniteSizes[k + 1] ELSE NoLimit

(* Mutant: the -1UL list is kept only when the count is odd. *)
NbLists_Odd == IF length % 2 = 0 THEN length ELSE length + 1

(* init keeps one list of size -1UL, two when that makes the count even.    *)
NbLists == IF length % 2 = 0 THEN length + 2 ELSE length + 1

Start ==
    /\ searchPc = "start"
    /\ IF SizeAt(0) >= innerSize
         THEN middle' = 0 /\ searchPc' = "done"
         ELSE searchPc' = "loop" /\ UNCHANGED middle
    /\ UNCHANGED <<length, innerSize, tablePtr, segSize>>

(* Mutant: the loop stops at any list that is large enough. *)
Hit_AnyLarge == SizeAt(tablePtr + middle) >= innerSize

(* The list at middle is the first one that is large enough. *)
Hit == SizeAt(tablePtr + middle - 1) < innerSize /\ SizeAt(tablePtr + middle) >= innerSize

Halve ==
    /\ searchPc = "loop" /\ ~ Hit
    /\ \/ /\ SizeAt(tablePtr + middle) < innerSize
          /\ segSize' = segSize - middle
          /\ tablePtr' = tablePtr + middle
       \/ /\ SizeAt(tablePtr + middle) >= innerSize
          /\ segSize' = middle
          /\ UNCHANGED tablePtr
    /\ middle' = segSize' \div 2
    /\ UNCHANGED <<length, innerSize, searchPc>>

Stop ==
    /\ searchPc = "loop" /\ Hit
    /\ searchPc' = "done"
    /\ UNCHANGED <<length, innerSize, tablePtr, segSize, middle>>

SearchInit ==
    /\ length \in TableLengths
    /\ innerSize \in Requests
    /\ tablePtr = 0
    /\ segSize = NbLists
    /\ middle = segSize \div 2
    /\ searchPc = "start"

SearchNext == Start \/ Halve \/ Stop

SearchSpec == SearchInit /\ [][SearchNext]_searchVars /\ WF_searchVars(SearchNext)

-----------------------------------------------------------------------------
(* The formula for the default table. *)

FastLog2(value) == CHOOSE k \in 0..30 : 2^k <= value /\ value < 2^(k + 1)

(* Mutant: the last of the zones of the table starts one size earlier. *)
ReverseDefaultFreeSizes_2MB(size) ==
    IF size < 32 THEN (size \div 8) - 2
    ELSE IF size <= 1024 THEN (size \div 32) - 1 + 2
    ELSE IF size >= MACRO_BLOC_SIZE THEN 43 + 2
    ELSE 32 + FastLog2(size \div 1024) - 1 + 2

ReverseDefaultFreeSizes(size) ==
    IF size < 32 THEN (size \div 8) - 2
    ELSE IF size <= 1024 THEN (size \div 32) - 1 + 2
    ELSE IF size > MACRO_BLOC_SIZE THEN 43 + 2
    ELSE 32 + FastLog2(size \div 1024) - 1 + 2

Analytic(size) ==
    LET pos == ReverseDefaultFreeSizes(size)
    IN  IF SizeAt(pos) < size THEN pos + 1 ELSE pos

-----------------------------------------------------------------------------
(* Properties *)

(* The search never reads outside the lists of the pool: not before the     *)
(* table through ptr[i-1], not past the last list through ptr[i].           *)
InsideTable ==
    searchPc = "loop" =>
        /\ 0 <= tablePtr + middle - 1 /\ tablePtr + middle < NbLists
        /\ NbLists < NB_FREE_LIST

(* The list found is the first one whose size is at least the request.      *)
FindsFirstLargeEnough ==
    searchPc = "done" =>
        /\ SizeAt(tablePtr + middle) >= innerSize
        /\ \A k \in 0..(tablePtr + middle - 1) : SizeAt(k) < innerSize

(* The search by halves is exact and reads nothing outside the table. *)
SearchExact == InsideTable /\ FindsFirstLargeEnough

(* For the default table the formula gives the list the search finds, as    *)
(* getFreeListByAnalytic asserts.                                           *)
FormulaAgrees ==
    searchPc = "done" /\ length = Len(FiniteSizes) => Analytic(innerSize) = tablePtr + middle

(* The search ends: no table makes the interval stop shrinking. *)
SearchEnds == <>(searchPc = "done")
=============================================================================
