------------------------------- MODULE Format -------------------------------
(***************************************************************************)
(* util/kprintf.c: how ksnprintf and kprintf put text into a buffer.  The  *)
(* same conversions serve snprintf and printf of the user library, whose   *)
(* source (usr/lib/printf.c) is a copy.                                    *)
(*                                                                         *)
(* A buffer of size bytes is followed in memory by other data; mem has     *)
(* Beyond more places than the buffer.  A format is a sequence of items:   *)
(* a literal character, or a conversion with its argument.  The cursor of  *)
(* a call is bufptr, where the next byte goes, and remain, the bytes it    *)
(* thinks are left, which falls below 0 when a number does not fit.        *)
(***************************************************************************)
EXTENDS Integers, Sequences, SequencesExt

CONSTANTS
  IntBits,    \* 32: bits of an int
  LongBits,   \* 64: bits of a long long int
  Beyond      \* bytes of memory shown behind a buffer

ASSUME FormatAssumption == /\ IntBits \in Nat \ {0} /\ IntBits % 4 = 0
                           /\ LongBits \in Nat /\ LongBits > IntBits /\ LongBits % 4 = 0
                           /\ Beyond \in Nat \ {0}

Nul == "NUL"
Digits == <<"0", "1", "2", "3", "4", "5", "6", "7", "8", "9", "a", "b", "c", "d", "e", "f">>
Bits(long) == IF long THEN LongBits ELSE IntBits

(* n in base b, in count digits *)
InBase(n, b, count) == [k \in 1 .. count |-> Digits[((n \div b ^ (count - k)) % b) + 1]]
-----------------------------------------------------------------------------
(* convert_bin, convert_oct, convert_hex: as many digits as the word has;  *)
(* the first octal digit has the bits that are left.                       *)
convert_bin(n, long) == InBase(n, 2, Bits(long))
convert_oct(n, long) == InBase(n, 8, ((Bits(long) - 1) \div 3) + 1)
convert_hex(n, long) == InBase(n, 16, Bits(long) \div 4)

(* The number of digits of n, by dividing until nothing is left. *)
DigCount(n) == CHOOSE c \in 1 .. LongBits : n < 10 ^ c /\ (c = 1 \/ n >= 10 ^ (c - 1))

convert_udec(n) == InBase(n, 10, DigCount(n))

(* convert_dec: the sign apart.  The most negative number has no absolute  *)
(* value: -param is param again, and no digit is made.                     *)
convert_dec(n) == CASE n >= 0 -> InBase(n, 10, DigCount(n))
                    [] n = -(2 ^ (LongBits - 1)) -> <<"-">>
                    [] OTHER -> <<"-">> \o InBase(-n, 10, DigCount(-n))

(* What a conversion of a number makes: va_arg reads a word of the size    *)
(* that l asks for, as signed for d and unsigned for the others.           *)
Number(item) ==
  LET u == item.arg % (2 ^ Bits(item.long))
  IN CASE item.conv = "d" -> convert_dec(item.arg)
       [] item.conv = "u" -> convert_udec(u)
       [] item.conv = "b" -> convert_bin(u, item.long)
       [] item.conv = "o" -> convert_oct(u, item.long)
       [] item.conv = "x" -> convert_hex(u, item.long)
Numeric == {"d", "u", "b", "o", "x"}
-----------------------------------------------------------------------------
(* A call on a buffer: mem is the buffer and what is behind it. *)
Begin(mem, size, items) ==
  [mem |-> mem, size |-> size, items |-> items, bufptr |-> 0, remain |-> size, ok |-> TRUE]
At(mem, k, c) == IF k \in DOMAIN mem THEN [mem EXCEPT ![k] = c] ELSE mem

(* A mistake: the room is not looked at. *)
PutDigit_always(s, c) == [s EXCEPT !.mem = At(@, s.bufptr, c), !.bufptr = @ + 1, !.remain = @ - 1]

(* The loops of the convert functions: counted also when it does not fit.  *)
PutDigit(s, c) == [s EXCEPT !.mem = IF s.remain > 0 THEN At(@, s.bufptr, c) ELSE @,
                            !.bufptr = IF s.remain > 0 THEN @ + 1 ELSE @,
                            !.remain = @ - 1]

(* A literal, and %c: the loop has seen that there is room. *)
PutChar(s, c) == [s EXCEPT !.mem = At(@, s.bufptr, c), !.bufptr = @ + 1, !.remain = @ - 1]

(* strncpy(dest, src, n) of misc.c: at most n characters, and then one     *)
(* more byte, the end of src or, if src is longer, its next character.     *)
StrNCpy(mem, dest, src, n) ==
  LET text == Append(src, Nul)
      last == IF Len(src) < n THEN Len(src) ELSE n
  IN [k \in DOMAIN mem |-> IF k \in dest .. dest + last THEN text[k - dest + 1] ELSE mem[k]]

PutString(s, src) ==
  [s EXCEPT !.mem = StrNCpy(@, s.bufptr, src, s.remain),
            !.remain = @ - Len(src),
            !.bufptr = IF s.remain - Len(src) <= 0 THEN s.size - 1 ELSE @ + Len(src)]

(* One turn of the loop over the format; an unknown conversion ends the    *)
(* call with -1.                                                           *)
Step(s) ==
  LET item == Head(s.items)
      t == [s EXCEPT !.items = Tail(@)]
  IN CASE item.conv = "text" -> PutChar(t, item.arg)
       [] item.conv = "c" -> PutChar(t, item.arg)
       [] item.conv = "s" -> PutString(t, item.arg)
       [] item.conv \in Numeric -> FoldLeft(PutDigit, t, Number(item))
       [] OTHER -> [t EXCEPT !.ok = FALSE]
Goes(s) == s.ok /\ s.items # <<>> /\ s.remain > 0
=============================================================================
