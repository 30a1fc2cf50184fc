------------------------------- MODULE Bitmap -------------------------------
(***************************************************************************)
(* util/bitmap.c: bitmaps as arrays of words.  A word is the set of the    *)
(* bits of it that are 1, a bitmap a function from word numbers to words.  *)
(* All other modules take a bitmap as the set of the numbers of its bits:  *)
(* BitsOf says which set that is.                                          *)
(***************************************************************************)
EXTENDS Integers

CONSTANTS
  BITMAP_BITS,   \* 32: bits of a word, 2 ^ BITMAP_SHIFT
  Words          \* words of the bitmap

ASSUME BitmapAssumption == BITMAP_BITS \in Nat \ {0} /\ Words \in Nat

Places == 0 .. BITMAP_BITS - 1
Bitmaps == [0 .. Words - 1 -> SUBSET Places]
BitNumbers == 0 .. (Words * BITMAP_BITS) - 1

(* bit >> BITMAP_SHIFT, and bit & ((1 << BITMAP_SHIFT) - 1) *)
WordOf(bit) == bit \div BITMAP_BITS
PlaceOf(bit) == bit % BITMAP_BITS

(* set_bit_word, clear_bit_word and get_bit_word: 1 << bit is the word     *)
(* with that bit alone.                                                    *)
Mask(place) == {place}
set_bit(bitmap, bit) == [bitmap EXCEPT ![WordOf(bit)] = @ \cup Mask(PlaceOf(bit))]
clear_bit(bitmap, bit) == [bitmap EXCEPT ![WordOf(bit)] = @ \ Mask(PlaceOf(bit))]
get_bit(bitmap, bit) == bitmap[WordOf(bit)] \cap Mask(PlaceOf(bit)) = Mask(PlaceOf(bit))

(* The loop of first_cleared stops at i. *)
StopsAt(bitmap, size, i) == /\ i \in 0 .. size
                            /\ \A k \in 0 .. i - 1 : get_bit(bitmap, k)
                            /\ i = size \/ ~get_bit(bitmap, i)
first_cleared(bitmap, size) == LET i == CHOOSE i \in 0 .. size : StopsAt(bitmap, size, i)
                               IN IF i >= size THEN -1 ELSE i
-----------------------------------------------------------------------------
BitsOf(bitmap) == {bit \in BitNumbers : PlaceOf(bit) \in bitmap[WordOf(bit)]}

(* Setting and clearing a bit changes that bit and no other, in whatever   *)
(* word; and a bit is read as it was set.                                  *)
ActsAsSet(bitmap, bit) ==
  /\ BitsOf(set_bit(bitmap, bit)) = BitsOf(bitmap) \cup {bit}
  /\ BitsOf(clear_bit(bitmap, bit)) = BitsOf(bitmap) \ {bit}
  /\ get_bit(bitmap, bit) <=> bit \in BitsOf(bitmap)

(* first_cleared finds the least bit below size that is clear, or -1. *)
FindsFirst(bitmap, size) ==
  LET clear == (0 .. size - 1) \ BitsOf(bitmap)
      i == first_cleared(bitmap, size)
  IN IF clear = {} THEN i = -1 ELSE i \in clear /\ \A k \in clear : i <= k
=============================================================================
