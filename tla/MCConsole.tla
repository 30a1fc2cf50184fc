----------------------------- MODULE MCConsole -----------------------------
(* Buffers of four and five bytes; words of 8 and 12 bits.                 *)
EXTENDS Console

Item(conv, long, arg) == [conv |-> conv, long |-> long, arg |-> arg]
MCItems == {Item("text", FALSE, "q"), Item("c", FALSE, "r"), Item("s", FALSE, <<"x", "y">>), Item("s", FALSE, <<>>),
            Item("d", FALSE, -12), Item("d", TRUE, 0), Item("u", FALSE, -1), Item("x", FALSE, -86), Item("o", FALSE, 13),
            Item("?", FALSE, 0)}
MCMixed == {Item("text", FALSE, "q"), Item("s", FALSE, <<"x", "y">>), Item("d", FALSE, -12)}
MCFormats == {<<>>} \cup {<<i>> : i \in MCItems} \cup {<<i, j>> : i, j \in MCMixed} \cup {<<i, j, k>> : i, j, k \in MCMixed}
               \cup {<<Item("b", FALSE, 77)>>, <<Item("x", TRUE, -86), Item("text", FALSE, "q")>>}
MCFiqText == <<Item("text", FALSE, "F"), Item("text", FALSE, "I"), Item("text", FALSE, "Q")>>
MCKeys == {<<"k", "CR">>, <<"k", "l", "m", "CR">>, <<"k", "l", "m", "n", "o", "p", "CR">>, <<"CR">>}

(* The numbers themselves: the digits stand for the number, in every base, *)
(* for every int and a range of longs; without leading zeros in decimal.   *)
ValueOf(t, b) == FoldLeft(LAMBDA v, c : v * b + (CHOOSE d \in 0 .. 15 : Digits[d + 1] = c), 0, t)
ASSUME Denotes ==
  \A n \in -(2 ^ (IntBits - 1)) .. 2 ^ (IntBits - 1) - 1 : \A long \in BOOLEAN :
     LET u == n % (2 ^ Bits(long))
     IN /\ ValueOf(convert_bin(u, long), 2) = u /\ Len(convert_bin(u, long)) = Bits(long)
        /\ ValueOf(convert_oct(u, long), 8) = u
        /\ ValueOf(convert_hex(u, long), 16) = u
        /\ ValueOf(convert_udec(u), 10) = u /\ (u > 0 => convert_udec(u)[1] # "0")
        /\ IF n >= 0 THEN convert_dec(n) = convert_udec(n)
           ELSE convert_dec(n) = <<"-">> \o convert_udec(-n)
=============================================================================
