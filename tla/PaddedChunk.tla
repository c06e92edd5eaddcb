----------------------------- MODULE PaddedChunk -----------------------------
(***************************************************************************)
(* How a block is moved inside its chunk to align it                       *)
(* (lib/chunks/PaddedChunk_inline.h): the word before the block holds a    *)
(* magic value and the padding, from which the start is found again.       *)
(* Sizes are counted in words; pads maps the address of every word that    *)
(* holds the magic value to the padding it stores.                         *)
(***************************************************************************)
EXTENDS Integers

CONSTANT PaddingRange      \* the paddings a PaddedChunk can store: 2^16

ASSUME PaddingAssumption == PaddingRange \in Nat \ {0}

(* The distance to the next multiple of the alignment. *)
CalcPadding(ptr, align) == IF ptr % align = 0 THEN 0 ELSE align - (ptr % align)

(* setup writes the word before the new address: the padding is cut to the  *)
(* width of the field.                                                      *)
PutPadding(pads, ptr, padding) ==
    [a \in DOMAIN pads \union {ptr + padding - 1} |->
        IF a = ptr + padding - 1 THEN padding % PaddingRange ELSE pads[a]]

Unpad(pads, ptr) == IF ptr - 1 \in DOMAIN pads THEN ptr - pads[ptr - 1] ELSE ptr
=============================================================================
